------------------------ MODULE SessionRecordsProofs ------------------------
(***************************************************************************)
(* What a battle session writes down, for every set of events, payloads,   *)
(* policies and errors: requests wait only while they must, commands agree *)
(* with the state they are sent in, errors are reported truthfully, the    *)
(* decision records, the counters and the wire tell the same story, and a  *)
(* measurement built on them hides nothing.                                *)
(*                                                                         *)
(* Every proof rests on the shape of a step (ReadsShape, SubmitShape): a   *)
(* handler closes the open trace with one status, or raises with one, or   *)
(* decides.  The invariants are inductive relative to TypeOK and           *)
(* AnswersFollowRequests of the modules extended here.                     *)
(***************************************************************************)
EXTENDS BattleSessionProofs, MeasurementRun, FiniteSetTheorems

\* The metadata a request waits for is public; the active pokemon is awaited.
Known(o) == o.our_side # None /\ \A m \in Metadata : o.meta[m] # None
AwaitsActive(p, o) ==
    RequestKind(p) \notin {"wait", "team_preview"} /\ o.active[p.side] = None

\* What each verdict of the reconciler says about the public state.
LEMMA ReconcileFact ==
    ASSUME NEW p, NEW o, NEW lt
    PROVE  /\ Reconcile(p, o, lt) = "accept" => Known(o) /\ ~AwaitsActive(p, o)
           /\ Reconcile(p, o, lt) = "pending" => ~Known(o)
           /\ Reconcile(p, o, lt) = "pending_active" => Known(o) /\ AwaitsActive(p, o)
<1> DEFINE v == <<Holds(lt = None \/ p.rqid >= lt),
                  Agrees(o.our_side, p.side = o.our_side),
                  Agrees(o.meta["generation"], o.meta["generation"] = "ok"),
                  Agrees(o.meta["game_type"], o.meta["game_type"] = "ok"),
                  Agrees(o.meta["tier"], o.meta["tier"] = "ok"),
                  Holds(Len(p.team) \in 1..6),
                  Holds(o.team_size[p.side] \in {None, Len(p.team)}),
                  Holds(SafeSetFits(p)),
                  ActiveAgrees(p, o)>>
<1>1. Reconcile(p, o, lt) = FirstOther(v, "accept")
  BY DEF Reconcile
<1>2. /\ DOMAIN v = 1..9
      /\ v[2] = Agrees(o.our_side, p.side = o.our_side)
      /\ v[3] = Agrees(o.meta["generation"], o.meta["generation"] = "ok")
      /\ v[4] = Agrees(o.meta["game_type"], o.meta["game_type"] = "ok")
      /\ v[5] = Agrees(o.meta["tier"], o.meta["tier"] = "ok")
      /\ v[9] = ActiveAgrees(p, o)
  OBVIOUS
<1>3. \A i \in {1, 6, 7, 8} : v[i] \in {"accept", "reject"}
  BY DEF Holds
<1> HIDE DEF v
<1>4. \/ FirstOther(v, "accept") = "accept" /\ \A i \in 1..9 : v[i] = "accept"
      \/ \E i \in 1..9 : /\ v[i] # "accept"
                         /\ FirstOther(v, "accept") = v[i]
                         /\ \A j \in 1..9 : j < i => v[j] = "accept"
  BY <1>2, FirstOtherFact
<1>5. /\ v[2] \in {"accept", "pending", "reject"}
      /\ v[2] = "accept" => o.our_side # None
      /\ v[2] = "pending" => o.our_side = None
      /\ \A i \in 3..5 : v[i] \in {"accept", "pending", "reject"}
      /\ v[3] = "accept" => o.meta["generation"] # None
      /\ v[4] = "accept" => o.meta["game_type"] # None
      /\ v[5] = "accept" => o.meta["tier"] # None
      /\ v[3] = "pending" => o.meta["generation"] = None
      /\ v[4] = "pending" => o.meta["game_type"] = None
      /\ v[5] = "pending" => o.meta["tier"] = None
  BY <1>2 DEF Agrees
<1>6. /\ v[9] \in {"accept", "pending_active", "reject"}
      /\ v[9] = "accept" => ~AwaitsActive(p, o)
      /\ v[9] = "pending_active" => AwaitsActive(p, o)
  BY <1>2 DEF ActiveAgrees, AwaitsActive, Holds
<1>7. Known(o) <=> /\ o.our_side # None /\ o.meta["generation"] # None
                   /\ o.meta["game_type"] # None /\ o.meta["tier"] # None
  BY DEF Known, Metadata
<1>8. CASE FirstOther(v, "accept") = "accept" /\ \A i \in 1..9 : v[i] = "accept"
  BY <1>1, <1>5, <1>6, <1>7, <1>8
<1>9. ASSUME NEW i \in 1..9, v[i] # "accept", FirstOther(v, "accept") = v[i],
             \A j \in 1..9 : j < i => v[j] = "accept"
      PROVE  /\ v[i] = "pending" => ~Known(o)
             /\ v[i] = "pending_active" => Known(o) /\ AwaitsActive(p, o)
  <2>1. i \in {1, 6, 7, 8} \/ i = 2 \/ i = 3 \/ i = 4 \/ i = 5 \/ i = 9
    BY <1>9
  <2>2. CASE i \in {1, 6, 7, 8}
    BY <1>3, <2>2
  <2>3. CASE i \in {2, 3, 4, 5}
    BY <1>5, <1>7, <2>3
  <2>4. CASE i = 9
    BY <1>5, <1>6, <1>7, <1>9, <2>4
  <2> QED
    BY <2>1, <2>2, <2>3, <2>4
<1> QED
  BY <1>1, <1>4, <1>8, <1>9

-----------------------------------------------------------------------------
\* A pending request waits for metadata before the battle starts, or for the
\* active pokemon; one that is being sent agrees with the public state, and its
\* trace carries that state.
WaitsForPublicState ==
    phase = "reading" /\ pending # None =>
        \/ ~obs.battle_started /\ ~Known(obs)
        \/ Known(obs) /\ AwaitsActive(pending, obs)

InFlightAgrees ==
    phase = "sending" =>
        /\ Reconcile(pending, obs, SubmittedRqid) = "accept"
        /\ log.trace # None => log.trace.state = obs

\* Whatever _retry_pending decides for p in the state o.
LEMMA RetryWaits ==
    ASSUME NEW p, NEW o, obs' = o, NEW tr \in Logs, NEW strict \in BOOLEAN,
           RetryPending(p, o, tr, strict)
    PROVE  WaitsForPublicState' /\ InFlightAgrees'
<1>1. CASE KeepPending(p, o, tr, strict)
  <2>1. /\ Reconcile(p, o, SubmittedRqid) \in {"pending", "pending_active"}
        /\ o.battle_started => Reconcile(p, o, SubmittedRqid) = "pending_active"
        /\ pending' = p /\ phase' = "reading"
    BY <1>1 DEF KeepPending, Overdue
  <2>2. WaitsForPublicState'
    BY <2>1, ReconcileFact DEF WaitsForPublicState
  <2> QED
    BY <2>1, <2>2 DEF InFlightAgrees
<1>2. CASE RejectReconciliation(p, o, tr, strict)
  BY <1>2 DEF RejectReconciliation, RaiseWith, Raise, WaitsForPublicState, InFlightAgrees
<1>3. CASE AcceptRequest(p, o, tr)
  <2>1. Reconcile(p, o, SubmittedRqid) = "accept" /\ Submit(p, RefreshTrace(tr, o))
    BY <1>3 DEF AcceptRequest
  <2>2. CASE SubmitWait(p, RefreshTrace(tr, o))
    BY <2>2 DEF SubmitWait, Settle, WaitsForPublicState, InFlightAgrees
  <2>3. CASE PolicyRaises(p, RefreshTrace(tr, o)) \/ GateRejects(p, RefreshTrace(tr, o))
    <3>1. phase' = "returned"
      BY <2>3 DEF PolicyRaises, GateRejects, RaiseWith, Abort, Raise
    <3> QED
      BY <3>1 DEF WaitsForPublicState, InFlightAgrees
  <2>4. CASE StartSend(p, RefreshTrace(tr, o))
    <3>1. /\ phase' = "sending" /\ pending' = p /\ submitted' = submitted
          /\ log' = RefreshTrace(tr, o)
      BY <2>4 DEF StartSend
    <3>2. log'.trace # None => log'.trace.state = o
      BY <3>1 DEF RefreshTrace, Logs, Traces
    <3>3. Reconcile(p, o, SubmittedRqid)' = "accept"
      BY <2>1, <3>1 DEF SubmittedRqid
    <3> QED
      BY <2>1, <3>1, <3>2 DEF WaitsForPublicState, InFlightAgrees, SubmittedRqid
  <2> QED
    BY <2>1, <2>2, <2>3, <2>4 DEF Submit
<1> QED
  BY <1>1, <1>2, <1>3 DEF RetryPending

LEMMA WaitsStep ==
    TypeOK /\ WaitsForPublicState /\ InFlightAgrees /\ [Next]_vars
      => WaitsForPublicState' /\ InFlightAgrees'
<1> SUFFICES ASSUME TypeOK, WaitsForPublicState, InFlightAgrees, [Next]_vars
             PROVE  WaitsForPublicState' /\ InFlightAgrees'
  OBVIOUS
<1>1. CASE UNCHANGED vars
  BY <1>1 DEF vars, WaitsForPublicState, InFlightAgrees, SubmittedRqid
<1>2. CASE phase' \in {"returned", "cancelled"}
  BY <1>2 DEF WaitsForPublicState, InFlightAgrees
<1>3. ASSUME NEW e \in Events, ObserveEvent(e)
      PROVE  WaitsForPublicState' /\ InFlightAgrees'
  <2>1. e \in BattleEvents
    BY EventAssumption
  <2>2. phase = "reading" /\ phase' = "reading" /\ pending' = pending /\ obs' = Reduce(obs, e)
    BY <1>3 DEF ObserveEvent
  <2>3. ASSUME pending # None
        PROVE  /\ obs'.battle_started = obs.battle_started
               /\ Known(obs') <=> Known(obs)
               /\ AwaitsActive(pending, obs) => AwaitsActive(pending, obs')
    <3>1. e.type \in {"team_size", "replace", "acted"}
      BY <1>3, <2>1, <2>3 DEF ObserveEvent, RetryTypes, BattleEvents, Metadata
    <3>2. CASE e.type = "team_size"
      BY <2>2, <3>2 DEF Reduce, Metadata, Known, AwaitsActive, TypeOK, ObservedStates
    <3>3. CASE e.type = "acted"
      BY <2>2, <3>3 DEF Reduce, Metadata
    <3>4. CASE e.type = "replace"
      <4>1. obs.active[e.side] # None
        BY <1>3, <3>4 DEF ObserveEvent, Refused
      <4>2. obs' = [obs EXCEPT !.active[e.side] = e.nick]
        BY <2>2, <3>4 DEF Reduce, Metadata
      <4> QED
        BY <4>1, <4>2 DEF Known, AwaitsActive, TypeOK, ObservedStates
    <3> QED
      BY <3>1, <3>2, <3>3, <3>4
  <2> QED
    BY <2>2, <2>3 DEF WaitsForPublicState, InFlightAgrees
<1>4. ASSUME NEW e \in Events, RetryEvent(e)
      PROVE  WaitsForPublicState' /\ InFlightAgrees'
  <2>1. (e.type \in {"start", "turn"}) \in BOOLEAN
    OBVIOUS
  <2>2. /\ obs' = Reduce(obs, e) /\ log \in Logs
        /\ RetryPending(pending, Reduce(obs, e), log, e.type \in {"start", "turn"})
    BY <1>4 DEF RetryEvent, TypeOK
  <2> QED
    BY <2>1, <2>2, RetryWaits
<1>5. ASSUME NEW p \in Payloads, FreshRequest(p)
      PROVE  WaitsForPublicState' /\ InFlightAgrees'
  <2> DEFINE Tr(sinkOk) ==
          FinalizePending(log, "superseded_before_selection", None, None, sinkOk)
  <2>1. PICK sinkOk \in BOOLEAN :
            \/ /\ ~OpenRaises(Tr(sinkOk), p.rqid)
               /\ RetryPending(p, obs, OpenTrace(Tr(sinkOk), p.rqid, obs), FALSE)
            \/ phase' = "returned"
    BY <1>5 DEF FreshRequest, Settle, Abort, Raise
  <2>2. Tr(sinkOk) \in Logs
    BY FinalizePendingType DEF TypeOK, Statuses, QuietStatuses
  <2> HIDE DEF Tr
  <2>3. p.rqid \in Nat /\ obs \in ObservedStates /\ obs' = obs
    BY <1>5, FreshRequestFact DEF FreshRequest, TypeOK, Requests
  <2>4. ~OpenRaises(Tr(sinkOk), p.rqid) => OpenTrace(Tr(sinkOk), p.rqid, obs) \in Logs
    BY <2>2, <2>3, OpenTraceType
  <2> QED
    BY <1>2, <2>1, <2>3, <2>4, RetryWaits
<1>6. CASE SendReturns
  BY <1>2, <1>6 DEF SendReturns, Settle, WaitsForPublicState, InFlightAgrees
<1>7. CASE /\ Next
           /\ ~SendReturns
           /\ ~\E e \in Events : ObserveEvent(e) \/ RetryEvent(e)
           /\ ~\E p \in Payloads : FreshRequest(p)
  <2>1. phase' \in {"returned", "cancelled"}
    BY <1>7 DEF Next, ProcessEvent, ProcessRequest, EndBattle, EventRefused, RefuseRequest,
                LineRaises, SendRaises, StreamEnds, Cancel, Abort, RaiseWith, Raise
  <2> QED
    BY <1>2, <2>1
<1> QED
  BY <1>1, <1>3, <1>4, <1>5, <1>6, <1>7

(***************************************************************************)
(* A request waits exactly as long as it must: it is answered as soon as   *)
(* the public state allows it, and from the start of the battle on only    *)
(* the active pokemon may be missing (_retry_pending, _RETRY_EVENTS).      *)
(***************************************************************************)
THEOREM RequestsWaitOnlyWhileTheyMust == Spec => []WaitsOnlyWhileItMust
<1>1. Init => WaitsForPublicState /\ InFlightAgrees
  BY DEF Init, WaitsForPublicState, InFlightAgrees
<1>2. WaitsForPublicState => WaitsOnlyWhileItMust
  BY ReconcileFact
     DEF WaitsForPublicState, WaitsOnlyWhileItMust, NoForgottenRequest,
         NoMetadataWaitAfterStart
<1> QED
  BY <1>1, <1>2, WaitsStep, TypeCorrect, PTL DEF Spec

(***************************************************************************)
(* A command that leaves answers the newest request, and the public state  *)
(* still agrees with it at that moment (_retry_pending, _submit).          *)
(***************************************************************************)
THEOREM CommandsAgree == Spec => CommandAgreesWithState
<1>1. TypeOK /\ AnswersFollowRequests /\ InFlightAgrees /\ [Next]_vars
        => [wire' # wire =>
              /\ wire'[Len(wire')].rqid = latest.rqid
              /\ Reconcile(latest, obs, SubmittedRqid) = "accept"]_vars
  <2> SUFFICES ASSUME TypeOK, AnswersFollowRequests, InFlightAgrees, [Next]_vars,
                      wire' # wire
               PROVE  /\ wire'[Len(wire')].rqid = latest.rqid
                      /\ Reconcile(latest, obs, SubmittedRqid) = "accept"
    OBVIOUS
  <2>1. Sent
    BY StepShape DEF Quiet, TakesUp, vars
  <2>2. pending = latest /\ wire \in Seq(Commands) /\ pending \in Requests
    BY <2>1 DEF Sent, TypeOK, AnswersFollowRequests
  <2>3. wire' = Append(wire, Command(pending, chosen))
    BY <2>1 DEF Sent
  <2>4. Command(pending, chosen).rqid = pending.rqid
    BY DEF Command
  <2>5. wire'[Len(wire')] = Command(pending, chosen)
    BY <2>2, <2>3
  <2> QED
    BY <2>1, <2>2, <2>4, <2>5 DEF Sent, InFlightAgrees
<1>2. Init => AnswersFollowRequests /\ WaitsForPublicState /\ InFlightAgrees
  BY DEF Init, AnswersFollowRequests, OneCommandPerRequest, WaitsForPublicState, InFlightAgrees
<1> QED
  BY <1>1, <1>2, AnswersStep, WaitsStep, TypeCorrect, PTL DEF Spec, CommandAgreesWithState

-----------------------------------------------------------------------------
(***************************************************************************)
(* What a handler leaves of the log: the record of an open trace with some *)
(* status is written or lost, and an error of the battle is raised before  *)
(* or after it.  Only the record of a rejected selection may be one that   *)
(* cannot be built.                                                        *)
(***************************************************************************)
Buildable(status, code, selected) ==
    WellFormed(status, code, selected) \/ status = "action_gate_rejected"

Closed(lg, status, lg2) ==
    \E code \in ErrorCodes \cup {None}, selected \in Submissions \cup {None}, sinkOk \in BOOLEAN :
        /\ Buildable(status, code, selected)
        /\ lg2 = FinalizePending(lg, status, code, selected, sinkOk)

Fails(lg, statuses) ==
    /\ \E error \in ErrorCodes \ TraceFailures : Raise(error, log')
    /\ log' = lg \/ \E status \in statuses : Closed(lg, status, log')

AbortStatuses == {"freshness_invalidated", "session_aborted"}
DecisionFailures == AbortStatuses \cup {"policy_rejected", "action_gate_rejected"}

Decides(p, o, tr) ==
    \/ pending' = p /\ phase' = "reading" /\ log' = tr /\ UNCHANGED <<primary, done>>
    \/ pending' = p /\ phase' = "sending" /\ log' = RefreshTrace(tr, o) /\ UNCHANGED <<primary, done>>
    \/ pending' = None /\ Settle(log') /\ Closed(RefreshTrace(tr, o), "wait_noop", log')
    \/ Fails(tr, {"reconciliation_rejected"})
    \/ Fails(RefreshTrace(tr, o), DecisionFailures)

LEMMA AbortShape ==
    ASSUME NEW error \in ErrorCodes \ TraceFailures, NEW lg, Abort(error, lg)
    PROVE  Fails(lg, AbortStatuses)
<1>1. PICK sinkOk \in BOOLEAN : Raise(error, AbortTrace(lg, error, sinkOk))
  BY DEF Abort
<1>2. log' = AbortTrace(lg, error, sinkOk)
  BY <1>1 DEF Raise
<1>3. Raise(error, log')
  BY <1>1, <1>2
<1>4. \/ log' = lg
      \/ log' = FinalizePending(lg, "freshness_invalidated", None, None, sinkOk)
      \/ error \in AbortCodes
         /\ log' = FinalizePending(lg, "session_aborted", error, None, sinkOk)
  BY <1>2 DEF AbortTrace
<1>6. /\ Buildable("freshness_invalidated", None, None)
      /\ error \in AbortCodes => Buildable("session_aborted", error, None)
  BY DEF Buildable, WellFormed, QuietStatuses, SelectionStatuses, StatusErrorCodes
<1>5. log' = lg \/ \E status \in AbortStatuses : Closed(lg, status, log')
  BY <1>4, <1>6 DEF Closed, AbortStatuses
<1> QED
  BY <1>3, <1>5 DEF Fails

LEMMA RaiseWithShape ==
    ASSUME NEW error \in ErrorCodes \ TraceFailures, NEW lg, NEW status,
           NEW code \in ErrorCodes \cup {None}, NEW selected \in Submissions \cup {None},
           Buildable(status, code, selected), RaiseWith(error, lg, status, code, selected)
    PROVE  Fails(lg, {status})
<1>1. PICK sinkOk \in BOOLEAN :
          Raise(error, FinalizePending(lg, status, code, selected, sinkOk))
  BY DEF RaiseWith
<1>2. log' = FinalizePending(lg, status, code, selected, sinkOk)
  BY <1>1 DEF Raise
<1> QED
  BY <1>1, <1>2 DEF Fails, Closed

LEMMA SendRecordBuildable ==
    ASSUME NEW error, NEW selected, selected # None
    PROVE  Buildable("send_failed", SendRecordCode(error), selected)
  BY DEF Buildable, WellFormed, QuietStatuses, SelectionStatuses, StatusErrorCodes,
         SendRecordCode

LEMMA SettleShape ==
    ASSUME NEW lg, NEW status, NEW selected \in Submissions \cup {None}, NEW sinkOk \in BOOLEAN,
           Buildable(status, None, selected),
           Settle(FinalizePending(lg, status, None, selected, sinkOk))
    PROVE  Settle(log') /\ Closed(lg, status, log')
<1>1. log' = FinalizePending(lg, status, None, selected, sinkOk)
  BY DEF Settle
<1> QED
  BY <1>1 DEF Closed

LEMMA SubmitShape ==
    ASSUME NEW p, NEW lg, Submit(p, lg)
    PROVE  \/ pending' = p /\ phase' = "sending" /\ log' = lg /\ UNCHANGED <<primary, done>>
           \/ pending' = None /\ Settle(log') /\ Closed(lg, "wait_noop", log')
           \/ Fails(lg, DecisionFailures)
<1>1. CASE SubmitWait(p, lg)
  <2>1. Buildable("wait_noop", None, None)
    BY DEF Buildable, WellFormed, QuietStatuses, SelectionStatuses
  <2> QED
    BY <1>1, <2>1, SettleShape DEF SubmitWait
<1>2. CASE PolicyRaises(p, lg)
  <2>1. PICK error \in PolicyErrors :
            \/ /\ error = "no_legal_action_available"
               /\ RaiseWith(error, lg, "policy_rejected", error, None)
            \/ Abort(error, lg)
    BY <1>2 DEF PolicyRaises
  <2>4. Buildable("policy_rejected", "no_legal_action_available", None)
    BY DEF Buildable, WellFormed, QuietStatuses, SelectionStatuses, StatusErrorCodes
  <2>2. error \in ErrorCodes \ TraceFailures
    BY ErrorAssumption
  <2>3. Fails(lg, {"policy_rejected"}) \/ Fails(lg, AbortStatuses)
    BY <2>1, <2>2, <2>4, RaiseWithShape, AbortShape
  <2> QED
    BY <2>3 DEF Fails, DecisionFailures
<1>3. CASE GateRejects(p, lg)
  <2>1. PICK sub \in PolicyAnswers :
            RaiseWith("local_action_gate_rejection", lg, "action_gate_rejected",
                      "local_action_gate_rejection", sub)
    BY <1>3 DEF GateRejects
  <2>2. "local_action_gate_rejection" \in ErrorCodes \ TraceFailures
    BY DEF ErrorCodes, TraceFailures
  <2>3. Fails(lg, {"action_gate_rejected"})
    BY <2>1, <2>2, AnswerAssumption, RaiseWithShape DEF Buildable
  <2> QED
    BY <2>3 DEF Fails, DecisionFailures
<1>4. CASE StartSend(p, lg)
  BY <1>4 DEF StartSend
<1> QED
  BY <1>1, <1>2, <1>3, <1>4 DEF Submit

LEMMA RetryShape ==
    ASSUME NEW p, NEW o, NEW tr, NEW strict, RetryPending(p, o, tr, strict)
    PROVE  Decides(p, o, tr)
<1>1. CASE KeepPending(p, o, tr, strict)
  BY <1>1 DEF KeepPending, Decides
<1>2. CASE RejectReconciliation(p, o, tr, strict)
  <2> DEFINE code == "request_state_reconciliation_mismatch"
  <2>1. RaiseWith(code, tr, "reconciliation_rejected", code, None)
    BY <1>2 DEF RejectReconciliation
  <2>2. code \in ErrorCodes \ TraceFailures
    BY DEF ErrorCodes, FreshnessCodes, TraceFailures
  <2>3. Buildable("reconciliation_rejected", code, None)
    BY DEF Buildable, WellFormed, QuietStatuses, SelectionStatuses, StatusErrorCodes,
           FreshnessCodes
  <2> HIDE DEF code
  <2> QED
    BY <2>1, <2>2, <2>3, RaiseWithShape DEF Decides
<1>3. CASE AcceptRequest(p, o, tr)
  BY <1>3, SubmitShape DEF AcceptRequest, Decides
<1> QED
  BY <1>1, <1>2, <1>3 DEF RetryPending

\* What a reading session makes of a line, and of the end of the stream.
Reads ==
    \/ /\ UNCHANGED <<log, pending, latest, primary, done>>
       /\ phase' \in {"reading", "returned", "cancelled"}
    \/ /\ pending # None /\ latest' = latest
       /\ Decides(pending, obs', log)
    \/ /\ pending' = None /\ latest' = latest /\ phase' = "returned" /\ obs'.over
       /\ primary' = FirstError(primary, log'.failure)
       /\ Closed(log, "terminally_discarded", log')
    \/ latest' = latest /\ Fails(log, AbortStatuses)
    \/ /\ latest' \in Requests
       /\ latest # None => latest'.rqid > latest.rqid
       /\ obs' = obs
       /\ \E tr \in Logs :
             /\ Closed(log, "superseded_before_selection", tr)
             /\ \/ /\ tr.failure = None /\ ~OpenRaises(tr, latest'.rqid)
                   /\ Decides(latest', obs', OpenTrace(tr, latest'.rqid, obs))
                \/ tr.failure = None /\ Fails(tr, AbortStatuses)
                \/ tr.failure # None /\ pending' = latest' /\ log' = tr /\ Settle(tr)

LEMMA ReadsShape ==
    ASSUME TypeOK, Next, phase = "reading"
    PROVE  Reads /\ UNCHANGED <<wire, explicit, defaulted>>
<1>1. ASSUME NEW e \in Events, ProcessEvent(e)
      PROVE  Reads /\ UNCHANGED <<wire, explicit, defaulted>>
  <2>1. CASE ObserveEvent(e)
    BY <2>1 DEF ObserveEvent, Reads
  <2>2. CASE RetryEvent(e)
    <3>1. /\ pending # None /\ latest' = latest /\ UNCHANGED <<wire, explicit, defaulted>>
          /\ RetryPending(pending, obs', log, e.type \in {"start", "turn"})
      BY <2>2 DEF RetryEvent
    <3> QED
      BY <3>1, RetryShape DEF Reads
  <2>3. CASE EndBattle(e)
    <3>1. PICK sinkOk \in BOOLEAN :
              /\ log' = FinalizePending(log, "terminally_discarded", None, None, sinkOk)
              /\ primary' = FirstError(primary, log'.failure)
      BY <2>3 DEF EndBattle
    <3>2. Closed(log, "terminally_discarded", log')
      BY <3>1 DEF Closed, Buildable, WellFormed, QuietStatuses, SelectionStatuses
    <3>3. obs'.over
      BY <2>3 DEF EndBattle, Reduce, Metadata, TypeOK, ObservedStates
    <3> QED
      BY <2>3, <3>1, <3>2, <3>3 DEF EndBattle, Reads
  <2>4. CASE EventRefused(e)
    <3>1. "reducer_invariant_failure" \in ErrorCodes \ TraceFailures
      BY DEF ErrorCodes, AbortCodes, TraceFailures
    <3> QED
      BY <2>4, <3>1, AbortShape DEF EventRefused, Reads
  <2> QED
    BY <1>1, <2>1, <2>2, <2>3, <2>4 DEF ProcessEvent
<1>2. ASSUME NEW p \in Payloads, RefuseRequest(p)
      PROVE  Reads /\ UNCHANGED <<wire, explicit, defaulted>>
  <2>1. RequestError(p) \in ErrorCodes \ TraceFailures
    <3>1. ReadError(p) \in (ErrorCodes \ TraceFailures) \cup {None}
      BY ReadErrorType
    <3>2. {"stale_rqid", "request_state_reconciliation_mismatch"} \subseteq ErrorCodes \ TraceFailures
      BY DEF ErrorCodes, FreshnessCodes, TraceFailures
    <3>3. RequestError(p) # None
      BY <1>2 DEF RefuseRequest
    <3> QED
      BY <3>1, <3>2, <3>3 DEF RequestError
  <2> QED
    BY <1>2, <2>1, AbortShape DEF RefuseRequest, Reads
<1>3. ASSUME NEW p \in Payloads, FreshRequest(p)
      PROVE  Reads /\ UNCHANGED <<wire, explicit, defaulted>>
  <2> DEFINE Tr(sinkOk) ==
          FinalizePending(log, "superseded_before_selection", None, None, sinkOk)
  <2>1. PICK sinkOk \in BOOLEAN :
            \/ /\ Tr(sinkOk).failure = None /\ ~OpenRaises(Tr(sinkOk), p.rqid)
               /\ RetryPending(p, obs, OpenTrace(Tr(sinkOk), p.rqid, obs), FALSE)
            \/ /\ Tr(sinkOk).failure = None
               /\ Abort("unclassified", Tr(sinkOk))
            \/ /\ Tr(sinkOk).failure # None
               /\ Settle(Tr(sinkOk))
               /\ pending' = p
    BY <1>3 DEF FreshRequest, OpenRaises, Traced
  <2>2. Tr(sinkOk) \in Logs
    BY FinalizePendingType DEF TypeOK, Statuses, QuietStatuses
  <2>3. Closed(log, "superseded_before_selection", Tr(sinkOk))
    BY DEF Closed, Buildable, WellFormed, QuietStatuses, SelectionStatuses
  <2>7. "unclassified" \in ErrorCodes \ TraceFailures
    BY DEF ErrorCodes, TraceFailures
  <2>4. p \in Requests /\ (latest # None => p.rqid > latest.rqid)
    BY <1>3, FreshRequestFact
  <2>5. latest' = p /\ obs' = obs /\ UNCHANGED <<wire, explicit, defaulted>>
    BY <1>3 DEF FreshRequest
  <2> HIDE DEF Tr
  <2>6. \/ /\ Tr(sinkOk).failure = None /\ ~OpenRaises(Tr(sinkOk), p.rqid)
           /\ Decides(p, obs', OpenTrace(Tr(sinkOk), p.rqid, obs))
        \/ Tr(sinkOk).failure = None /\ Fails(Tr(sinkOk), AbortStatuses)
        \/ /\ Tr(sinkOk).failure # None /\ pending' = p /\ log' = Tr(sinkOk)
           /\ Settle(Tr(sinkOk))
    BY <2>1, <2>5, <2>7, RetryShape, AbortShape DEF Settle
  <2> QED
    BY <2>2, <2>3, <2>4, <2>5, <2>6 DEF Reads
<1>4. ASSUME NEW error \in LineErrors, LineRaises(error)
      PROVE  Reads /\ UNCHANGED <<wire, explicit, defaulted>>
  BY <1>4, ErrorAssumption, AbortShape DEF LineRaises, Reads
<1>5. CASE StreamEnds \/ Cancel
  BY <1>5 DEF StreamEnds, Cancel, Reads
<1> QED
  BY <1>1, <1>2, <1>3, <1>4, <1>5 DEF Next, ProcessRequest, SendRaises, SendReturns

\* The ways in which a healthy log can be closed.
Unwritten(lg, lg2) == lg2.records = lg.records /\ lg2.failure = None /\ lg2.lost = lg.lost
Lost(lg, status, lg2) ==
    lg2.records = lg.records /\ lg2.failure \in TraceFailures /\ lg2.lost = status
Written(lg, status, selected, lg2) ==
    /\ \E code \in ErrorCodes \cup {None} :
          lg2.records = Append(lg.records, RecordOf(lg.trace, status, code, selected))
    /\ lg2.failure = None /\ lg2.lost = lg.lost

LEMMA FinalizeFact ==
    ASSUME NEW lg \in Logs, lg.failure = None, NEW status, NEW code \in ErrorCodes \cup {None},
           NEW selected, NEW sinkOk \in BOOLEAN,
           NEW lg2, lg2 = FinalizePending(lg, status, code, selected, sinkOk)
    PROVE  /\ lg2.trace = None /\ lg2.next = lg.next
           /\ \/ lg.trace = None \/ Context # "resolved"
              \/ Lost(lg, status, lg2)
              \/ Written(lg, status, selected, lg2)
           /\ lg.trace = None \/ Context # "resolved" => Unwritten(lg, lg2)
  BY DEF FinalizePending, Logs, Unwritten, Lost, Written, TraceFailures

LEMMA ClosedFact ==
    ASSUME NEW lg \in Logs, lg.failure = None, NEW status, NEW lg2, Closed(lg, status, lg2)
    PROVE  /\ lg2.trace = None /\ lg2.next = lg.next
           /\ \/ lg.trace = None \/ Context # "resolved"
              \/ Lost(lg, status, lg2)
              \/ \E selected \in Submissions \cup {None} : Written(lg, status, selected, lg2)
           /\ lg.trace = None \/ Context # "resolved" => Unwritten(lg, lg2)
           /\ lg2.failure = "decision_record_construction_failure"
                => status = "action_gate_rejected"
<1>1. PICK code \in ErrorCodes \cup {None}, selected \in Submissions \cup {None}, sinkOk \in BOOLEAN :
          /\ Buildable(status, code, selected)
          /\ lg2 = FinalizePending(lg, status, code, selected, sinkOk)
  BY DEF Closed
<1>2. None # "decision_record_construction_failure"
  BY NoneAssumption DEF ErrorCodes, TraceFailures
<1>3. lg2.failure = "decision_record_construction_failure" => status = "action_gate_rejected"
  BY <1>1, <1>2 DEF FinalizePending, Buildable, Logs
<1> QED
  BY <1>1, <1>3, FinalizeFact

-----------------------------------------------------------------------------
\* An orderly disposition whose record is lost makes the failure the error of
\* the session; a failing one keeps the error it was about.
OrderlyStatuses == QuietStatuses \ {"freshness_invalidated"}

\* A session whose trace failed has an error, and one whose error is a trace
\* failure has that failure in its log.
FailureIsReported ==
    /\ log.failure # None => primary # None
    /\ primary \in TraceFailures => primary = log.failure

\* The only record that cannot be built is the one of a rejected selection.
OnlyRejectionsFail ==
    log.failure = "decision_record_construction_failure" => log.lost = "action_gate_rejected"

ErrorsInv ==
    TraceFailureNeverMasks /\ SilentStopMeansOver /\ FailureIsReported /\ OnlyRejectionsFail

LEMMA ClosedFailure ==
    ASSUME NEW lg \in Logs, lg.failure = None, NEW status, NEW lg2, Closed(lg, status, lg2)
    PROVE  /\ lg2.failure \in TraceFailures \cup {None}
           /\ lg2.failure # None => lg2.lost = status
           /\ lg2.failure = "decision_record_construction_failure"
                => lg2.lost = "action_gate_rejected"
<1>1. None # "decision_record_construction_failure"
  BY NoneAssumption DEF ErrorCodes, TraceFailures
<1> QED
  BY <1>1, ClosedFact DEF Unwritten, Lost, Written

LEMMA OrderlyEnd ==
    ASSUME primary = None, NEW lg \in Logs, lg.failure = None, NEW status \in OrderlyStatuses,
           Closed(lg, status, log'), primary' = FirstError(primary, log'.failure)
    PROVE  /\ TraceFailureNeverMasks' /\ FailureIsReported' /\ OnlyRejectionsFail'
           /\ log'.failure # None => primary' # None
<1>3. OnlyRejectionsFail'
  BY ClosedFailure DEF OnlyRejectionsFail
<1>1. log'.failure # None => log'.lost = status
  BY ClosedFailure
<1>2. primary' = log'.failure
  BY DEF FirstError
<1> QED
  BY <1>1, <1>2, <1>3 DEF TraceFailureNeverMasks, FailureIsReported, OrderlyStatuses

LEMMA FailingEnd ==
    ASSUME primary = None, NEW lg \in Logs, lg.failure = None, NEW statuses,
           statuses \cap OrderlyStatuses = {}, Fails(lg, statuses)
    PROVE  TraceFailureNeverMasks' /\ FailureIsReported' /\ OnlyRejectionsFail' /\ primary' # None
<1>0. None # "decision_record_construction_failure"
  BY NoneAssumption DEF ErrorCodes, TraceFailures
<1>6. OnlyRejectionsFail'
  BY <1>0, ClosedFailure DEF Fails, OnlyRejectionsFail
<1>1. PICK error \in ErrorCodes \ TraceFailures : Raise(error, log')
  BY DEF Fails
<1>2. error # None /\ primary' = error
  BY <1>1, NoneAssumption DEF Raise, FirstError
<1>3. CASE log' = lg
  BY <1>2, <1>3, <1>6 DEF TraceFailureNeverMasks, FailureIsReported
<1>4. ASSUME NEW status \in statuses, Closed(lg, status, log')
      PROVE  TraceFailureNeverMasks'
  <2>1. /\ log'.failure \in TraceFailures \cup {None}
        /\ log'.failure # None => log'.lost = status
    BY <1>4, ClosedFailure
  <2>2. status \notin OrderlyStatuses
    OBVIOUS
  <2> QED
    BY <1>2, <2>1, <2>2 DEF TraceFailureNeverMasks, OrderlyStatuses
<1>5. FailureIsReported'
  BY <1>2 DEF FailureIsReported
<1> QED
  BY <1>2, <1>3, <1>4, <1>5, <1>6 DEF Fails

LEMMA DecidesTruthfully ==
    ASSUME primary = None, ~done, NEW p, NEW o \in ObservedStates, NEW tr \in Logs,
           tr.failure = None, Decides(p, o, tr)
    PROVE  /\ TraceFailureNeverMasks' /\ FailureIsReported' /\ OnlyRejectionsFail'
           /\ done' => primary' # None
<1>1. RefreshTrace(tr, o) \in Logs /\ RefreshTrace(tr, o).failure = None
  BY RefreshTraceType
<1>2. CASE log' \in {tr, RefreshTrace(tr, o)} /\ UNCHANGED <<primary, done>>
  <2>1. None \notin TraceFailures /\ None # "decision_record_construction_failure"
    BY NoneAssumption DEF ErrorCodes, TraceFailures
  <2> QED
    BY <1>1, <1>2, <2>1 DEF TraceFailureNeverMasks, FailureIsReported, OnlyRejectionsFail
<1>3. CASE Settle(log') /\ Closed(RefreshTrace(tr, o), "wait_noop", log')
  <2>1. "wait_noop" \in OrderlyStatuses
    BY DEF OrderlyStatuses, QuietStatuses
  <2>2. primary' = FirstError(primary, log'.failure) /\ (done' => log'.failure # None)
    BY <1>3 DEF Settle
  <2> QED
    BY <1>1, <1>3, <2>1, <2>2, OrderlyEnd
<1>4. CASE Fails(tr, {"reconciliation_rejected"})
  <2>1. {"reconciliation_rejected"} \cap OrderlyStatuses = {}
    BY DEF OrderlyStatuses, QuietStatuses
  <2> QED
    BY <1>4, <2>1, FailingEnd
<1>5. CASE Fails(RefreshTrace(tr, o), DecisionFailures)
  <2>1. DecisionFailures \cap OrderlyStatuses = {}
    BY DEF OrderlyStatuses, QuietStatuses, DecisionFailures, AbortStatuses
  <2> QED
    BY <1>1, <1>5, <2>1, FailingEnd
<1> QED
  BY <1>2, <1>3, <1>4, <1>5 DEF Decides

LEMMA ErrorsStep ==
    TypeOK /\ TypeOK' /\ ErrorsInv /\ [Next]_vars
      => ErrorsInv'
<1> SUFFICES ASSUME TypeOK, TypeOK', ErrorsInv, [Next]_vars
             PROVE  ErrorsInv'
  OBVIOUS
<1> USE DEF ErrorsInv
<1>0. None \notin TraceFailures /\ None # "decision_record_construction_failure"
  BY NoneAssumption DEF ErrorCodes, TraceFailures
<1>1. CASE UNCHANGED vars
  BY <1>1 DEF vars, TraceFailureNeverMasks, SilentStopMeansOver, FailureIsReported,
              OnlyRejectionsFail
<1>2. CASE Next /\ phase = "reading"
  <2>0. primary = None /\ ~done /\ log \in Logs /\ log.failure = None /\ obs' \in ObservedStates
    BY <1>2 DEF TypeOK
  <2>1. Reads
    BY <1>2, ReadsShape
  <2>2. CASE UNCHANGED <<log, pending, latest, primary, done>>
    BY <1>0, <2>0, <2>2 DEF TraceFailureNeverMasks, SilentStopMeansOver, FailureIsReported,
                            OnlyRejectionsFail
  <2>3. CASE Decides(pending, obs', log)
    BY <2>0, <2>3, DecidesTruthfully DEF SilentStopMeansOver
  <2>4. CASE /\ obs'.over
             /\ primary' = FirstError(primary, log'.failure)
             /\ Closed(log, "terminally_discarded", log')
    <3>1. "terminally_discarded" \in OrderlyStatuses
      BY DEF OrderlyStatuses, QuietStatuses
    <3> QED
      BY <2>0, <2>4, <3>1, OrderlyEnd DEF SilentStopMeansOver
  <2>5. CASE Fails(log, AbortStatuses)
    <3>1. AbortStatuses \cap OrderlyStatuses = {}
      BY DEF OrderlyStatuses, QuietStatuses, AbortStatuses
    <3> QED
      BY <2>0, <2>5, <3>1, FailingEnd DEF SilentStopMeansOver
  <2>6. ASSUME latest' \in Requests, NEW tr \in Logs, tr.failure = None, obs' = obs,
               ~OpenRaises(tr, latest'.rqid),
               Decides(latest', obs', OpenTrace(tr, latest'.rqid, obs))
        PROVE  ErrorsInv'
    <3>1. /\ OpenTrace(tr, latest'.rqid, obs) \in Logs
          /\ OpenTrace(tr, latest'.rqid, obs).failure = None
      BY <2>0, <2>6, OpenTraceType DEF Requests
    <3> QED
      BY <2>0, <2>6, <3>1, DecidesTruthfully DEF SilentStopMeansOver
  <2>7. ASSUME NEW tr \in Logs, Closed(log, "superseded_before_selection", tr),
               tr.failure # None, log' = tr, Settle(tr)
        PROVE  ErrorsInv'
    <3>1. "superseded_before_selection" \in OrderlyStatuses
      BY DEF OrderlyStatuses, QuietStatuses
    <3>2. primary' = FirstError(primary, log'.failure) /\ Closed(log, "superseded_before_selection", log')
      BY <2>7 DEF Settle
    <3> QED
      BY <2>0, <2>7, <3>1, <3>2, OrderlyEnd DEF SilentStopMeansOver
  <2>8. ASSUME NEW tr \in Logs, tr.failure = None, Fails(tr, AbortStatuses)
        PROVE  ErrorsInv'
    <3>1. AbortStatuses \cap OrderlyStatuses = {}
      BY DEF OrderlyStatuses, QuietStatuses, AbortStatuses
    <3> QED
      BY <2>0, <2>8, <3>1, FailingEnd DEF SilentStopMeansOver
  <2> QED
    BY <2>1, <2>2, <2>3, <2>4, <2>5, <2>6, <2>7, <2>8 DEF Reads
<1>3. CASE Next /\ phase = "sending"
  <2>0. /\ primary = None /\ ~done /\ log \in Logs /\ log.failure = None
        /\ chosen \in Submissions
    BY <1>3 DEF TypeOK
  <2>1. CASE SendReturns
    <3>1. PICK sinkOk \in BOOLEAN :
              Settle(FinalizePending(log, "submitted", None, chosen, sinkOk))
      BY <2>1 DEF SendReturns
    <3>5. Buildable("submitted", None, chosen)
      BY <2>0, AnswerAssumption DEF Buildable, WellFormed, QuietStatuses, SelectionStatuses
    <3>2. Settle(log') /\ Closed(log, "submitted", log')
      BY <2>0, <3>1, <3>5, SettleShape
    <3>3. "submitted" \in OrderlyStatuses
      BY DEF OrderlyStatuses, QuietStatuses
    <3>4. primary' = FirstError(primary, log'.failure) /\ (done' => log'.failure # None)
      BY <3>2 DEF Settle
    <3> QED
      BY <2>0, <3>2, <3>3, <3>4, OrderlyEnd DEF SilentStopMeansOver
  <2>2. ASSUME NEW error \in SendErrors, SendRaises(error)
        PROVE  ErrorsInv'
    <3>1. error \in ErrorCodes \ TraceFailures /\ SendRecordCode(error) \in ErrorCodes
      BY ErrorAssumption DEF SendRecordCode, ErrorCodes
    <3>4. Buildable("send_failed", SendRecordCode(error), chosen)
      BY <2>0, AnswerAssumption, SendRecordBuildable
    <3>2. Fails(log, {"send_failed"})
      BY <2>0, <2>2, <3>1, <3>4, RaiseWithShape DEF SendRaises
    <3>3. {"send_failed"} \cap OrderlyStatuses = {}
      BY DEF OrderlyStatuses, QuietStatuses
    <3> QED
      BY <2>0, <3>2, <3>3, FailingEnd DEF SilentStopMeansOver
  <2>3. CASE Cancel
    BY <1>0, <2>0, <2>3 DEF Cancel, TraceFailureNeverMasks, SilentStopMeansOver,
                            FailureIsReported, OnlyRejectionsFail
  <2> QED
    BY <1>3, <2>1, <2>2, <2>3
       DEF Next, ProcessEvent, ProcessRequest, ObserveEvent, RetryEvent, EndBattle,
           EventRefused, RefuseRequest, FreshRequest, LineRaises, StreamEnds
<1> QED
  BY <1>1, <1>2, <1>3, StepShape DEF Running

LEMMA ErrorsInit == Init => ErrorsInv
<1>1. None \notin TraceFailures /\ None # "decision_record_construction_failure"
  BY NoneAssumption DEF ErrorCodes, TraceFailures
<1> QED
  BY <1>1 DEF Init, ErrorsInv, TraceFailureNeverMasks, SilentStopMeansOver,
              FailureIsReported, OnlyRejectionsFail, EmptyLog

(***************************************************************************)
(* What a session reports is true: stopping without an error means that    *)
(* the battle is over, and a record that is lost never hides the error the *)
(* record was about (_handle_trace_failure, _abort).                       *)
(***************************************************************************)
THEOREM ErrorsReportedTruthfully == Spec => []ErrorsAreReportedTruthfully
<1>1. ErrorsInv => ErrorsAreReportedTruthfully
  BY DEF ErrorsInv, ErrorsAreReportedTruthfully
<1> QED
  BY <1>1, ErrorsInit, ErrorsStep, TypeCorrect, PTL DEF Spec

-----------------------------------------------------------------------------
(***************************************************************************)
(* The log of a resolved context, seen with the newest request r: records  *)
(* are numbered and answer increasing requests, an open trace is the one   *)
(* of r and has the next number.                                           *)
(***************************************************************************)
Numbered(lg) == \A i \in 1..Len(lg.records) : lg.records[i].index = i - 1

Increasing(lg) ==
    \A i, j \in 1..Len(lg.records) : i < j => lg.records[i].rqid < lg.records[j].rqid

UpTo(lg, r) ==
    /\ lg.records # << >> => r # None
    /\ \A i \in 1..Len(lg.records) : lg.records[i].rqid <= r.rqid

TraceIsNext(lg, r) ==
    lg.trace # None =>
        /\ r # None
        /\ lg.trace.rqid = r.rqid
        /\ lg.trace.index = Len(lg.records)
        /\ \A i \in 1..Len(lg.records) : lg.records[i].rqid < r.rqid

NextIsFree(lg) ==
    lg.failure = None =>
        /\ lg.next = Len(lg.records) + (IF lg.trace = None THEN 0 ELSE 1)
        /\ lg.lost = None

Consistent(lg, r) ==
    Numbered(lg) /\ Increasing(lg) /\ UpTo(lg, r) /\ TraceIsNext(lg, r) /\ NextIsFree(lg)

LEMMA RecordTypes ==
    ASSUME NEW lg \in Logs
    PROVE  /\ lg.records \in Seq(Records) /\ Len(lg.records) \in Nat
           /\ \A i \in 1..Len(lg.records) :
                 /\ lg.records[i] \in Records
                 /\ lg.records[i].rqid \in Nat
                 /\ lg.records[i].index \in Nat
<1>1. lg.records \in Seq(Records)
  BY DEF Logs
<1>2. \A i \in 1..Len(lg.records) : lg.records[i] \in Records
  BY <1>1
<1>3. \A rec \in Records : rec.rqid \in Nat /\ rec.index \in Nat
  BY MaxSafeAssumption DEF Records
<1> QED
  BY <1>1, <1>2, <1>3

\* Nothing is written or the record of the open trace is lost.
LEMMA SameRecordsConsistent ==
    ASSUME NEW lg, NEW r, Consistent(lg, r), NEW lg2,
           lg2.records = lg.records, lg2.trace = None,
           lg2.failure = None => /\ lg.trace = None /\ lg.failure = None
                                 /\ lg2.next = lg.next /\ lg2.lost = lg.lost
    PROVE  Consistent(lg2, r)
  BY DEF Consistent, Numbered, Increasing, UpTo, TraceIsNext, NextIsFree

LEMMA AppendedConsistent ==
    ASSUME NEW lg \in Logs, NEW r \in Requests, Consistent(lg, r), lg.failure = None,
           lg.trace # None, NEW status \in Statuses, NEW code \in ErrorCodes \cup {None},
           NEW selected \in Submissions \cup {None},
           NEW lg2, lg2.trace = None, lg2.next = lg.next, lg2.lost = lg.lost,
           lg2.records = Append(lg.records, RecordOf(lg.trace, status, code, selected))
    PROVE  Consistent(lg2, r)
<1> DEFINE n == Len(lg.records)
           rec == RecordOf(lg.trace, status, code, selected)
<1>1. n \in Nat /\ \A i \in 1..n : lg.records[i].rqid \in Nat
  BY RecordTypes
<1>2. r.rqid \in Nat /\ r # None
  BY PayloadAssumption DEF Requests
<1>3. rec \in Records
  BY DEF RecordOf, Records, Logs, Traces
<1>4. rec.index = n /\ rec.rqid = r.rqid /\ \A i \in 1..n : lg.records[i].rqid < r.rqid
  BY DEF RecordOf, Consistent, TraceIsNext
<1> HIDE DEF rec
<1>5. /\ Len(lg2.records) = n + 1
      /\ \A i \in 1..n : lg2.records[i] = lg.records[i]
      /\ lg2.records[n + 1] = rec
  BY <1>3, AppendProperties DEF Logs, rec
<1>6. \A i \in 1..(n + 1) : i \in 1..n \/ i = n + 1
  BY <1>1
<1> HIDE DEF n
<1>7. Numbered(lg2)
  BY <1>1, <1>4, <1>5, <1>6 DEF Consistent, Numbered, n
<1>8. Increasing(lg2)
  <2> SUFFICES ASSUME NEW i \in 1..(n + 1), NEW j \in 1..(n + 1), i < j
               PROVE  lg2.records[i].rqid < lg2.records[j].rqid
    BY <1>5 DEF Increasing
  <2>1. i \in 1..n
    BY <1>1
  <2>2. CASE j \in 1..n
    BY <1>5, <2>1, <2>2 DEF Consistent, Increasing, n
  <2>3. CASE j = n + 1
    BY <1>4, <1>5, <2>1, <2>3
  <2> QED
    BY <1>6, <2>2, <2>3
<1>9. UpTo(lg2, r)
  BY <1>1, <1>2, <1>4, <1>5, <1>6 DEF UpTo
<1>10. NextIsFree(lg2)
  BY <1>1, <1>5 DEF Consistent, NextIsFree, n
<1> QED
  BY <1>7, <1>8, <1>9, <1>10 DEF Consistent, TraceIsNext

LEMMA ClosedConsistent ==
    ASSUME Context = "resolved", NEW lg \in Logs, lg.failure = None, NEW r \in Requests \cup {None},
           Consistent(lg, r), NEW status \in Statuses, NEW lg2, Closed(lg, status, lg2)
    PROVE  Consistent(lg2, r)
<1>1. /\ lg2.trace = None /\ lg2.next = lg.next
      /\ \/ lg.trace = None
         \/ Lost(lg, status, lg2)
         \/ \E selected \in Submissions \cup {None} : Written(lg, status, selected, lg2)
      /\ lg.trace = None => Unwritten(lg, lg2)
  BY ClosedFact
<1>2. CASE lg.trace = None
  BY <1>1, <1>2, SameRecordsConsistent DEF Unwritten
<1>3. CASE Lost(lg, status, lg2)
  <2>1. lg2.failure # None
    BY <1>3, NoneAssumption DEF Lost, ErrorCodes
  <2> QED
    BY <1>1, <1>3, <2>1, SameRecordsConsistent DEF Lost
<1>4. ASSUME lg.trace # None,
             NEW selected \in Submissions \cup {None}, Written(lg, status, selected, lg2)
      PROVE  Consistent(lg2, r)
  <2>1. r \in Requests
    BY <1>4 DEF Consistent, TraceIsNext
  <2>2. PICK code \in ErrorCodes \cup {None} :
            lg2.records = Append(lg.records, RecordOf(lg.trace, status, code, selected))
    BY <1>4 DEF Written
  <2> QED
    BY <1>1, <1>4, <2>1, <2>2, AppendedConsistent DEF Written
<1> QED
  BY <1>1, <1>2, <1>3, <1>4

LEMMA RefreshConsistent ==
    ASSUME NEW lg \in Logs, NEW r, Consistent(lg, r), NEW o \in ObservedStates
    PROVE  /\ Consistent(RefreshTrace(lg, o), r)
           /\ RefreshTrace(lg, o).records = lg.records
           /\ RefreshTrace(lg, o).lost = lg.lost
           /\ lg.trace # None => RefreshTrace(lg, o).trace # None
<1>1. CASE lg.trace = None
  BY <1>1 DEF RefreshTrace
<1>2. CASE lg.trace # None
  <2> DEFINE lg2 == [lg EXCEPT !.trace.state = o]
  <2>1. RefreshTrace(lg, o) = lg2
    BY <1>2 DEF RefreshTrace
  <2>2. lg.trace \in Traces
    BY <1>2 DEF Logs
  <2>3. /\ lg2.records = lg.records /\ lg2.failure = lg.failure /\ lg2.next = lg.next
        /\ lg2.lost = lg.lost /\ lg2.trace = [lg.trace EXCEPT !.state = o]
    BY DEF Logs
  <2>4. /\ lg2.trace.rqid = lg.trace.rqid /\ lg2.trace.index = lg.trace.index
        /\ lg2.trace \in Traces
    BY <2>2, <2>3 DEF Traces
  <2>5. lg2.trace # None
    BY <2>4, NoneAssumption
  <2> HIDE DEF lg2
  <2> QED
    BY <1>2, <2>1, <2>3, <2>4, <2>5
       DEF Consistent, Numbered, Increasing, UpTo, TraceIsNext, NextIsFree
<1> QED
  BY <1>1, <1>2

\* The trace of a request newer than every other.
LEMMA OpenConsistent ==
    ASSUME Context = "resolved", NEW lg \in Logs, lg.failure = None, lg.trace = None,
           NEW r \in Requests \cup {None}, Consistent(lg, r),
           NEW q \in Requests, r # None => q.rqid > r.rqid, NEW o \in ObservedStates
    PROVE  /\ Consistent(lg, q)
           /\ ~OpenRaises(lg, q.rqid) =>
                 /\ Consistent(OpenTrace(lg, q.rqid, o), q)
                 /\ OpenTrace(lg, q.rqid, o).records = lg.records
                 /\ OpenTrace(lg, q.rqid, o).lost = lg.lost
                 /\ OpenTrace(lg, q.rqid, o).trace # None
<1> DEFINE lg2 == OpenTrace(lg, q.rqid, o)
           t == [index |-> lg.next, rqid |-> q.rqid, state |-> o]
<1>1. q.rqid \in Nat /\ q # None
  BY PayloadAssumption DEF Requests
<1>2. Traced(lg)
  BY DEF Traced
<1>3. ASSUME ~OpenRaises(lg, q.rqid)
      PROVE  t # None /\ t.index = lg.next /\ t.rqid = q.rqid
  <2>1. q.rqid \in 0..MaxSafeInteger
    BY <1>1, <1>2, <1>3, MaxSafeAssumption DEF OpenRaises
  <2>2. t \in Traces
    BY <2>1 DEF Traces, Logs
  <2> QED
    BY <2>2, NoneAssumption
<1> HIDE DEF t
<1>4. /\ lg2.trace = t /\ lg2.next = lg.next + 1 /\ lg2.records = lg.records
      /\ lg2.failure = None /\ lg2.lost = lg.lost
  BY <1>2 DEF OpenTrace, Logs, t
<1>5. Len(lg.records) \in Nat /\ \A i \in 1..Len(lg.records) : lg.records[i].rqid \in Nat
  BY RecordTypes
<1>6. \A i \in 1..Len(lg.records) : lg.records[i].rqid < q.rqid
  <2>1. CASE r = None
    <3>1. lg.records = << >>
      BY <2>1 DEF Consistent, UpTo
    <3> QED
      BY <3>1
  <2>2. CASE r # None
    <3>1. r.rqid \in Nat /\ \A i \in 1..Len(lg.records) : lg.records[i].rqid <= r.rqid
      BY <2>2 DEF Consistent, UpTo, Requests
    <3> QED
      BY <1>1, <1>5, <2>2, <3>1
  <2> QED
    BY <2>1, <2>2
<1>7. UpTo(lg, q)
  BY <1>1, <1>5, <1>6 DEF UpTo
<1>8. Consistent(lg, q)
  BY <1>7 DEF Consistent, TraceIsNext
<1>9. ASSUME ~OpenRaises(lg, q.rqid)
      PROVE  Consistent(lg2, q)
  <2>1. lg.next = Len(lg.records) /\ lg.lost = None
    BY <1>5 DEF Consistent, NextIsFree
  <2> HIDE DEF lg2
  <2>2. Numbered(lg2) /\ Increasing(lg2) /\ UpTo(lg2, q)
    BY <1>4, <1>8 DEF Consistent, Numbered, Increasing, UpTo
  <2>3. TraceIsNext(lg2, q) /\ NextIsFree(lg2)
    BY <1>1, <1>3, <1>4, <1>5, <1>6, <1>9, <2>1 DEF TraceIsNext, NextIsFree
  <2> QED
    BY <2>2, <2>3 DEF Consistent
<1> QED
  BY <1>3, <1>4, <1>8, <1>9

-----------------------------------------------------------------------------
\* The records grow by records of requests that were not submitted.
Grows(lg, lg2) ==
    /\ Len(lg.records) <= Len(lg2.records)
    /\ \A i \in 1..Len(lg.records) : lg2.records[i] = lg.records[i]
    /\ \A i \in 1..Len(lg2.records) :
          i > Len(lg.records) => lg2.records[i].status # "submitted"
    /\ lg2.lost # "submitted"

LEMMA SameRecordsGrow ==
    ASSUME NEW lg \in Logs, NEW lg2, lg2.records = lg.records, lg2.lost # "submitted"
    PROVE  Grows(lg, lg2)
<1>1. Len(lg.records) \in Nat
  BY RecordTypes
<1> QED
  BY <1>1 DEF Grows

LEMMA GrowsTransitive ==
    ASSUME NEW a \in Logs, NEW b \in Logs, NEW c \in Logs, Grows(a, b), Grows(b, c)
    PROVE  Grows(a, c)
<1>1. Len(a.records) \in Nat /\ Len(b.records) \in Nat /\ Len(c.records) \in Nat
  BY RecordTypes
<1>2. ASSUME NEW i \in 1..Len(c.records), i > Len(a.records)
      PROVE  c.records[i].status # "submitted"
  <2>1. CASE i > Len(b.records)
    BY <2>1 DEF Grows
  <2>2. CASE i \in 1..Len(b.records)
    BY <1>2, <2>2 DEF Grows
  <2> QED
    BY <1>1, <2>1, <2>2
<1> QED
  BY <1>1, <1>2 DEF Grows

LEMMA ClosedGrows ==
    ASSUME NEW lg \in Logs, lg.failure = None, lg.lost = None,
           NEW status \in Statuses \ {"submitted"}, NEW lg2, Closed(lg, status, lg2)
    PROVE  Grows(lg, lg2)
<1>0. None # "submitted"
  BY NoneAssumption DEF Statuses, QuietStatuses
<1>1. \/ Unwritten(lg, lg2)
      \/ lg.trace # None /\ Lost(lg, status, lg2)
      \/ lg.trace # None /\ \E selected \in Submissions \cup {None} : Written(lg, status, selected, lg2)
  BY ClosedFact
<1>2. CASE Unwritten(lg, lg2)
  BY <1>0, <1>2, SameRecordsGrow DEF Unwritten
<1>3. CASE Lost(lg, status, lg2)
  BY <1>3, SameRecordsGrow DEF Lost
<1>4. ASSUME lg.trace # None, NEW selected \in Submissions \cup {None},
             Written(lg, status, selected, lg2)
      PROVE  Grows(lg, lg2)
  <2>1. PICK code \in ErrorCodes \cup {None} :
            lg2.records = Append(lg.records, RecordOf(lg.trace, status, code, selected))
    BY <1>4 DEF Written
  <2> DEFINE rec == RecordOf(lg.trace, status, code, selected)
  <2>2. rec \in Records /\ rec.status = status
    BY <1>4 DEF RecordOf, Records, Logs, Traces
  <2> HIDE DEF rec
  <2>3. /\ Len(lg2.records) = Len(lg.records) + 1
        /\ \A i \in 1..Len(lg.records) : lg2.records[i] = lg.records[i]
        /\ lg2.records[Len(lg.records) + 1] = rec
        /\ Len(lg.records) \in Nat
    BY <2>1, <2>2, RecordTypes, AppendProperties DEF rec
  <2>4. lg2.lost # "submitted"
    BY <1>0, <1>4 DEF Written
  <2> QED
    BY <2>2, <2>3, <2>4 DEF Grows
<1> QED
  BY <1>1, <1>2, <1>3, <1>4

\* In a resolved context a pending request of a running session has a trace.
PendingIsTraced == Running /\ pending # None => log.trace # None

LEMMA FailsRecords ==
    ASSUME Context = "resolved", NEW lg \in Logs, lg.failure = None,
           NEW r \in Requests \cup {None}, Consistent(lg, r),
           NEW statuses \in SUBSET (Statuses \ {"submitted"}), Fails(lg, statuses)
    PROVE  Grows(lg, log') /\ Consistent(log', r) /\ ~Running'
<1>1. phase' = "returned" /\ lg.lost = None
  BY DEF Fails, Raise, Consistent, NextIsFree
<1>2. CASE log' = lg
  <2>1. lg.lost # "submitted"
    BY <1>1, NoneAssumption DEF Statuses, QuietStatuses
  <2> QED
    BY <1>1, <1>2, <2>1, SameRecordsGrow DEF Running
<1>3. ASSUME NEW status \in statuses, Closed(lg, status, log')
      PROVE  Grows(lg, log') /\ Consistent(log', r)
  BY <1>1, <1>3, ClosedGrows, ClosedConsistent
<1> QED
  BY <1>1, <1>2, <1>3 DEF Fails, Running

LEMMA DecidesRecords ==
    ASSUME Context = "resolved", NEW p \in Requests, NEW o \in ObservedStates,
           NEW tr \in Logs, tr.failure = None, tr.trace # None, Consistent(tr, p),
           log' \in Logs, Decides(p, o, tr)
    PROVE  Grows(tr, log') /\ Consistent(log', p) /\ PendingIsTraced'
<1> DEFINE tr2 == RefreshTrace(tr, o)
<1>1. /\ tr2 \in Logs /\ tr2.failure = None /\ Consistent(tr2, p)
      /\ tr2.trace # None /\ tr2.records = tr.records /\ tr2.lost = tr.lost
  BY RefreshTraceType, RefreshConsistent
<1>2. tr.lost = None /\ tr.lost # "submitted"
  BY NoneAssumption DEF Consistent, NextIsFree, Statuses, QuietStatuses
<1>3. Grows(tr, tr2)
  BY <1>1, <1>2, SameRecordsGrow
<1> HIDE DEF tr2
<1>4. CASE log' = tr
  BY <1>2, <1>4, SameRecordsGrow DEF PendingIsTraced
<1>5. CASE log' = tr2
  BY <1>1, <1>3, <1>5 DEF PendingIsTraced
<1>6. CASE pending' = None /\ Closed(tr2, "wait_noop", log')
  <2>1. "wait_noop" \in Statuses \ {"submitted"}
    BY DEF Statuses, QuietStatuses
  <2>2. Grows(tr2, log') /\ Consistent(log', p)
    BY <1>1, <1>2, <1>6, <2>1, ClosedGrows, ClosedConsistent
  <2> QED
    BY <1>1, <1>3, <1>6, <2>2, GrowsTransitive DEF PendingIsTraced
<1>7. CASE Fails(tr, {"reconciliation_rejected"})
  <2>1. {"reconciliation_rejected"} \in SUBSET (Statuses \ {"submitted"})
    BY DEF Statuses, StatusErrorCodes
  <2> QED
    BY <1>7, <2>1, FailsRecords DEF PendingIsTraced
<1>8. CASE Fails(tr2, DecisionFailures)
  <2>1. DecisionFailures \in SUBSET (Statuses \ {"submitted"})
    BY DEF Statuses, StatusErrorCodes, QuietStatuses, DecisionFailures, AbortStatuses
  <2>2. Grows(tr2, log') /\ Consistent(log', p) /\ ~Running'
    BY <1>1, <1>8, <2>1, FailsRecords
  <2> QED
    BY <1>1, <1>3, <2>2, GrowsTransitive DEF PendingIsTraced
<1> QED
  BY <1>4, <1>5, <1>6, <1>7, <1>8 DEF Decides, tr2

LEMMA ReadsRecords ==
    ASSUME Context = "resolved", TypeOK, TypeOK', AnswersFollowRequests, phase = "reading",
           Consistent(log, latest), PendingIsTraced, Reads
    PROVE  Grows(log, log') /\ Consistent(log', latest') /\ PendingIsTraced'
<1>0. /\ log \in Logs /\ log' \in Logs /\ log.failure = None
      /\ latest \in Requests \cup {None} /\ obs \in ObservedStates /\ obs' \in ObservedStates
  BY DEF TypeOK
<1>1. log.lost = None /\ log.lost # "submitted"
  BY <1>0, NoneAssumption DEF Consistent, NextIsFree, Statuses, QuietStatuses
<1>2. CASE UNCHANGED <<log, pending, latest, primary, done>>
  BY <1>0, <1>1, <1>2, SameRecordsGrow DEF PendingIsTraced, Running
<1>3. CASE pending # None /\ latest' = latest /\ Decides(pending, obs', log)
  <2>1. pending \in Requests /\ pending = latest /\ log.trace # None
    BY <1>3 DEF TypeOK, AnswersFollowRequests, PendingIsTraced, Running
  <2> QED
    BY <1>0, <1>3, <2>1, DecidesRecords
<1>4. CASE /\ pending' = None /\ latest' = latest
           /\ Closed(log, "terminally_discarded", log')
  <2>1. "terminally_discarded" \in Statuses \ {"submitted"}
    BY DEF Statuses, QuietStatuses
  <2> QED
    BY <1>0, <1>1, <1>4, <2>1, ClosedGrows, ClosedConsistent DEF PendingIsTraced
<1>5. CASE latest' = latest /\ Fails(log, AbortStatuses)
  <2>1. AbortStatuses \in SUBSET (Statuses \ {"submitted"})
    BY DEF Statuses, StatusErrorCodes, QuietStatuses, AbortStatuses
  <2> QED
    BY <1>0, <1>5, <2>1, FailsRecords DEF PendingIsTraced
<1>6. ASSUME latest' \in Requests, latest # None => latest'.rqid > latest.rqid, obs' = obs,
             NEW tr \in Logs, Closed(log, "superseded_before_selection", tr),
             \/ /\ tr.failure = None /\ ~OpenRaises(tr, latest'.rqid)
                /\ Decides(latest', obs', OpenTrace(tr, latest'.rqid, obs))
             \/ tr.failure = None /\ Fails(tr, AbortStatuses)
             \/ tr.failure # None /\ log' = tr /\ Settle(tr)
      PROVE  Grows(log, log') /\ Consistent(log', latest') /\ PendingIsTraced'
  <2> DEFINE q == latest'
             tr2 == OpenTrace(tr, q.rqid, obs)
  <2>1. "superseded_before_selection" \in Statuses \ {"submitted"}
    BY DEF Statuses, QuietStatuses
  <2>2. Grows(log, tr) /\ Consistent(tr, latest) /\ tr.trace = None
    BY <1>0, <1>1, <1>6, <2>1, ClosedGrows, ClosedConsistent, ClosedFact
  <2>5. CASE tr.failure = None /\ Fails(tr, AbortStatuses)
    <3>1. Consistent(tr, q)
      BY <1>0, <1>6, <2>2, <2>5, OpenConsistent
    <3>2. AbortStatuses \in SUBSET (Statuses \ {"submitted"})
      BY DEF Statuses, StatusErrorCodes, QuietStatuses, AbortStatuses
    <3>3. Grows(tr, log') /\ Consistent(log', q) /\ ~Running'
      BY <1>6, <2>5, <3>1, <3>2, FailsRecords
    <3> QED
      BY <1>0, <2>2, <3>3, GrowsTransitive DEF PendingIsTraced
  <2>3. CASE tr.failure = None /\ ~OpenRaises(tr, q.rqid) /\ Decides(q, obs', tr2)
    <3>1. /\ Consistent(tr2, q) /\ tr2.records = tr.records /\ tr2.lost = tr.lost
          /\ tr2.trace # None
      BY <1>0, <1>6, <2>2, <2>3, OpenConsistent
    <3>2. tr2 \in Logs /\ tr2.failure = None
      BY <1>0, <1>6, <2>3, OpenTraceType DEF Requests
    <3>3. Grows(tr, tr2)
      <4>1. tr.lost # "submitted"
        BY <2>2 DEF Grows
      <4> QED
        BY <3>1, <4>1, SameRecordsGrow
    <3> HIDE DEF q, tr2
    <3>4. q \in Requests
      BY <1>6 DEF q
    <3>5. Grows(tr2, log') /\ Consistent(log', q) /\ PendingIsTraced'
      BY <1>0, <2>3, <3>1, <3>2, <3>4, DecidesRecords
    <3> QED
      BY <1>0, <2>2, <3>2, <3>3, <3>5, GrowsTransitive DEF q
  <2>4. CASE tr.failure # None /\ log' = tr /\ Settle(tr)
    <3>1. phase' = "returned"
      BY <2>4 DEF Settle
    <3>2. Consistent(tr, q)
      <4>1. UpTo(tr, q)
        <5>1. q.rqid \in Nat /\ q # None
          BY <1>6, PayloadAssumption DEF Requests
        <5>2. CASE latest = None
          BY <2>2, <5>1, <5>2 DEF Consistent, UpTo
        <5>3. CASE latest # None
          <6>1. latest.rqid \in Nat /\ q.rqid > latest.rqid
            BY <1>0, <1>6, <5>3 DEF Requests
          <6>2. \A i \in 1..Len(tr.records) : tr.records[i].rqid \in Nat
            BY RecordTypes
          <6>3. \A i \in 1..Len(tr.records) : tr.records[i].rqid <= latest.rqid
            BY <2>2 DEF Consistent, UpTo
          <6> QED
            BY <5>1, <6>1, <6>2, <6>3 DEF UpTo
        <5> QED
          BY <5>2, <5>3
      <4> QED
        BY <2>2, <4>1 DEF Consistent, TraceIsNext
    <3> QED
      BY <2>2, <2>4, <3>1, <3>2 DEF PendingIsTraced, Running
  <2> QED
    BY <1>6, <2>3, <2>4, <2>5
<1> QED
  BY <1>2, <1>3, <1>4, <1>5, <1>6 DEF Reads

-----------------------------------------------------------------------------
\* A record that names a command: its request, and the submission that was sent.
Names(rec, c) ==
    /\ rec.status \in {"submitted", "send_failed"}
    /\ rec.rqid = c.rqid
    /\ c.args = rec.selected.args
    /\ c.tera = rec.selected.tera

WireIsNamed ==
    log.failure = None =>
        /\ \A c \in 1..Len(wire) :
              \/ \E i \in 1..Len(log.records) : Names(log.records[i], wire[c])
              \/ phase = "cancelled" /\ c = Len(wire) /\ pending # None
        /\ \A i \in 1..Len(log.records) :
              log.records[i].status = "submitted"
                => \E c \in 1..Len(wire) : wire[c].rqid = log.records[i].rqid

\* The records of the submissions with a provenance, and how the counters
\* follow them.
Answers(lg, provenance) ==
    {i \in 1..Len(lg.records) : /\ lg.records[i].status = "submitted"
                                /\ Provenance(lg.records[i].selected) = provenance}

Count(lg, provenance) == Cardinality(Answers(lg, provenance))

CountersFollow ==
    /\ explicit >= Count(log, "explicit_request")
    /\ defaulted >= Count(log, "server_default")
    /\ explicit + defaulted = Count(log, "explicit_request") + Count(log, "server_default")
                                + (IF log.lost = "submitted" THEN 1 ELSE 0)

LEMMA GrowsWire ==
    ASSUME TypeOK, TypeOK', Running, WireIsNamed, Grows(log, log'), wire' = wire
    PROVE  WireIsNamed'
<1>1. log.failure = None /\ Len(log.records) \in Nat /\ Len(log'.records) \in Nat
  BY RecordTypes DEF TypeOK, Running
<1>2. ASSUME NEW c \in 1..Len(wire')
      PROVE  \E i \in 1..Len(log'.records) : Names(log'.records[i], wire'[c])
  <2>1. PICK i \in 1..Len(log.records) : Names(log.records[i], wire[c])
    BY <1>1 DEF WireIsNamed, Running
  <2>2. i \in 1..Len(log'.records) /\ log'.records[i] = log.records[i]
    BY <1>1 DEF Grows
  <2> QED
    BY <2>1, <2>2
<1>3. ASSUME NEW i \in 1..Len(log'.records), log'.records[i].status = "submitted"
      PROVE  \E c \in 1..Len(wire') : wire'[c].rqid = log'.records[i].rqid
  <2>1. i \in 1..Len(log.records) /\ log'.records[i] = log.records[i]
    BY <1>1, <1>3 DEF Grows
  <2> QED
    BY <1>1, <1>3, <2>1 DEF WireIsNamed
<1> QED
  BY <1>2, <1>3 DEF WireIsNamed

LEMMA GrowsAnswers ==
    ASSUME NEW lg \in Logs, NEW lg2 \in Logs, Grows(lg, lg2), NEW provenance
    PROVE  Answers(lg2, provenance) = Answers(lg, provenance)
<1>1. Len(lg.records) \in Nat /\ Len(lg2.records) \in Nat
  BY RecordTypes
<1> QED
  BY <1>1 DEF Grows, Answers

LEMMA AnswersFinite ==
    ASSUME NEW lg \in Logs, NEW provenance
    PROVE  IsFiniteSet(Answers(lg, provenance)) /\ Count(lg, provenance) \in Nat
<1>1. Len(lg.records) \in Nat
  BY RecordTypes
<1>2. IsFiniteSet(1..Len(lg.records))
  BY <1>1, FS_Interval
<1>3. IsFiniteSet(Answers(lg, provenance))
  BY <1>2, FS_Subset DEF Answers
<1> QED
  BY <1>3, FS_CardinalityType DEF Count

LEMMA GrowsCounters ==
    ASSUME TypeOK, TypeOK', Running, log.lost = None, CountersFollow, Grows(log, log'),
           UNCHANGED <<explicit, defaulted>>
    PROVE  CountersFollow'
<1>1. Count(log', "explicit_request") = Count(log, "explicit_request")
  BY GrowsAnswers DEF TypeOK, Count
<1>2. Count(log', "server_default") = Count(log, "server_default")
  BY GrowsAnswers DEF TypeOK, Count
<1>3. log.lost # "submitted" /\ log'.lost # "submitted"
  BY NoneAssumption DEF Grows, Statuses, QuietStatuses
<1> QED
  BY <1>1, <1>2, <1>3 DEF CountersFollow

\* A record is appended to a healthy log.
LEMMA WrittenFact ==
    ASSUME NEW lg \in Logs, lg.trace # None, NEW status \in Statuses,
           NEW selected \in Submissions \cup {None}, NEW lg2, Written(lg, status, selected, lg2)
    PROVE  LET n == Len(lg.records)
           IN  /\ n \in Nat /\ Len(lg2.records) = n + 1
               /\ \A i \in 1..n : lg2.records[i] = lg.records[i]
               /\ lg2.records[n + 1].status = status
               /\ lg2.records[n + 1].rqid = lg.trace.rqid
               /\ lg2.records[n + 1].selected = selected
<1>1. PICK code \in ErrorCodes \cup {None} :
          lg2.records = Append(lg.records, RecordOf(lg.trace, status, code, selected))
  BY DEF Written
<1> DEFINE rec == RecordOf(lg.trace, status, code, selected)
<1>2. /\ rec \in Records /\ rec.status = status /\ rec.rqid = lg.trace.rqid
      /\ rec.selected = selected
  BY DEF RecordOf, Records, Logs, Traces
<1> HIDE DEF rec
<1>3. /\ Len(lg2.records) = Len(lg.records) + 1
      /\ \A i \in 1..Len(lg.records) : lg2.records[i] = lg.records[i]
      /\ lg2.records[Len(lg.records) + 1] = rec
      /\ Len(lg.records) \in Nat
  BY <1>1, <1>2, RecordTypes, AppendProperties DEF rec
<1> QED
  BY <1>2, <1>3

\* The record of a send names the command, whether or not the command left.
LEMMA SendWire ==
    ASSUME TypeOK, TypeOK', phase = "sending", WireIsNamed, pending = latest,
           log.trace # None, log.trace.rqid = pending.rqid,
           NEW status \in {"submitted", "send_failed"},
           Lost(log, status, log') \/ Written(log, status, chosen, log'),
           wire' \in {wire, Append(wire, Command(pending, chosen))},
           status = "submitted" => wire' = Append(wire, Command(pending, chosen))
    PROVE  WireIsNamed'
<1>0. /\ log \in Logs /\ log' \in Logs /\ log.failure = None /\ wire \in Seq(Commands)
      /\ pending \in Requests /\ chosen \in Submissions /\ status \in Statuses
  BY DEF TypeOK, Statuses, QuietStatuses, StatusErrorCodes
<1>1. CASE Lost(log, status, log')
  BY <1>1, NoneAssumption DEF WireIsNamed, Lost, ErrorCodes
<1>2. CASE Written(log, status, chosen, log')
  <2> DEFINE n == Len(log.records)
             cmd == Command(pending, chosen)
  <2>1. /\ n \in Nat /\ Len(log'.records) = n + 1
        /\ \A i \in 1..n : log'.records[i] = log.records[i]
        /\ log'.records[n + 1].status = status
        /\ log'.records[n + 1].rqid = pending.rqid
        /\ log'.records[n + 1].selected = chosen
    BY <1>0, <1>2, WrittenFact
  <2>2. cmd \in Commands /\ cmd.rqid = pending.rqid /\ cmd.args = chosen.args /\ cmd.tera = chosen.tera
    BY <1>0 DEF Command, Commands, Requests, Submissions, ActionKinds
  <2>3. Names(log'.records[n + 1], cmd)
    BY <2>1, <2>2 DEF Names
  <2> HIDE DEF n, cmd
  <2>4. /\ Len(wire) \in Nat
        /\ \A c \in 1..Len(wire) : c \in 1..Len(wire') /\ wire'[c] = wire[c]
        /\ \A c \in 1..Len(wire') : c \in 1..Len(wire) \/ wire'[c] = cmd
        /\ status = "submitted" => \E c \in 1..Len(wire') : wire'[c] = cmd
    <3>1. CASE wire' = wire
      BY <1>0, <3>1 DEF cmd
    <3>2. CASE wire' = Append(wire, cmd)
      <4>1. /\ Len(wire') = Len(wire) + 1 /\ Len(wire) \in Nat
            /\ \A c \in 1..Len(wire) : wire'[c] = wire[c]
            /\ wire'[Len(wire) + 1] = cmd
        BY <1>0, <2>2, <3>2, AppendProperties
      <4> QED
        BY <4>1
    <3> QED
      BY <3>1, <3>2 DEF cmd
  <2>5. ASSUME NEW c \in 1..Len(wire')
        PROVE  \E i \in 1..Len(log'.records) : Names(log'.records[i], wire'[c])
    <3>1. CASE wire'[c] = cmd
      BY <2>1, <2>3, <3>1
    <3>2. CASE c \in 1..Len(wire)
      <4>1. PICK i \in 1..n : Names(log.records[i], wire[c])
        BY <1>0, <3>2 DEF WireIsNamed, n
      <4> QED
        BY <2>1, <2>4, <3>2, <4>1
    <3> QED
      BY <2>4, <3>1, <3>2
  <2>6. ASSUME NEW i \in 1..Len(log'.records), log'.records[i].status = "submitted"
        PROVE  \E c \in 1..Len(wire') : wire'[c].rqid = log'.records[i].rqid
    <3>1. CASE i \in 1..n
      <4>1. PICK c \in 1..Len(wire) : wire[c].rqid = log.records[i].rqid
        BY <1>0, <2>1, <2>6, <3>1 DEF WireIsNamed, n
      <4> QED
        BY <2>1, <2>4, <3>1, <4>1
    <3>2. CASE i = n + 1
      BY <2>1, <2>2, <2>4, <2>6, <3>2
    <3> QED
      BY <2>1, <3>1, <3>2
  <2> QED
    BY <2>5, <2>6 DEF WireIsNamed
<1> QED
  BY <1>1, <1>2

\* One more submission with its provenance, or none.
LEMMA WrittenAnswers ==
    ASSUME NEW lg \in Logs, NEW lg2 \in Logs, lg.trace # None, NEW status \in Statuses,
           NEW selected \in Submissions \cup {None}, Written(lg, status, selected, lg2),
           NEW provenance
    PROVE  Count(lg2, provenance) =
             Count(lg, provenance)
               + (IF status = "submitted" /\ Provenance(selected) = provenance THEN 1 ELSE 0)
<1> DEFINE n == Len(lg.records)
           A == Answers(lg, provenance)
<1>1. /\ n \in Nat /\ Len(lg2.records) = n + 1
      /\ \A i \in 1..n : lg2.records[i] = lg.records[i]
      /\ lg2.records[n + 1].status = status
      /\ lg2.records[n + 1].selected = selected
  BY WrittenFact
<1>2. \A i \in 1..(n + 1) : i \in 1..n \/ i = n + 1
  BY <1>1
<1>3. n + 1 \notin A /\ IsFiniteSet(A) /\ Cardinality(A) \in Nat
  <2>1. n + 1 \notin A
    BY <1>1 DEF Answers
  <2> QED
    BY <2>1, AnswersFinite DEF Count
<1> HIDE DEF n
<1>4. CASE status = "submitted" /\ Provenance(selected) = provenance
  <2>1. Answers(lg2, provenance) = A \cup {n + 1}
    BY <1>1, <1>2, <1>4 DEF Answers, n
  <2>2. Count(lg, provenance) = Cardinality(A) /\ Count(lg2, provenance) = Cardinality(A \cup {n + 1})
    BY <2>1 DEF Count
  <2> HIDE DEF A
  <2>3. Cardinality(A \cup {n + 1}) = Cardinality(A) + 1
    BY <1>3, FS_AddElement
  <2> QED
    BY <1>4, <2>2, <2>3
<1>5. CASE ~(status = "submitted" /\ Provenance(selected) = provenance)
  <2>1. Answers(lg2, provenance) = A
    BY <1>1, <1>2, <1>5 DEF Answers, n
  <2> QED
    BY <1>3, <1>5, <2>1 DEF Count
<1> QED
  BY <1>4, <1>5

LEMMA SendCounters ==
    ASSUME TypeOK, TypeOK', phase = "sending", CountersFollow, log.trace # None, log.lost = None,
           NEW status \in {"submitted", "send_failed"},
           Lost(log, status, log') \/ Written(log, status, chosen, log'),
           status = "submitted" =>
             /\ explicit' = explicit + (IF Provenance(chosen) = "explicit_request" THEN 1 ELSE 0)
             /\ defaulted' = defaulted + (IF Provenance(chosen) = "server_default" THEN 1 ELSE 0),
           status # "submitted" => UNCHANGED <<explicit, defaulted>>
    PROVE  CountersFollow'
<1> DEFINE E == Count(log, "explicit_request")
           D == Count(log, "server_default")
           E2 == Count(log', "explicit_request")
           D2 == Count(log', "server_default")
           one == Provenance(chosen) = "explicit_request"
<1>0. /\ log \in Logs /\ log' \in Logs /\ explicit \in Nat /\ defaulted \in Nat
      /\ chosen \in Submissions /\ status \in Statuses
  BY DEF TypeOK, Statuses, QuietStatuses, StatusErrorCodes
<1>1. E \in Nat /\ D \in Nat
  BY <1>0, AnswersFinite
<1>2. /\ explicit >= E /\ defaulted >= D /\ explicit + defaulted = E + D
  <2>1. log.lost # "submitted"
    BY NoneAssumption DEF Statuses, QuietStatuses
  <2> QED
    BY <1>0, <1>1, <2>1 DEF CountersFollow
<1>3. Provenance(chosen) = "server_default" <=> ~one
  BY DEF Provenance
<1>4. CASE Lost(log, status, log')
  <2>1. E2 = E /\ D2 = D /\ log'.lost = status
    BY <1>4 DEF Lost, Count, Answers
  <2> HIDE DEF E, D, E2, D2, one
  <2>2. CASE status = "submitted"
    <3>1. /\ explicit' = explicit + (IF one THEN 1 ELSE 0)
          /\ defaulted' = defaulted + (IF ~one THEN 1 ELSE 0)
      BY <1>3, <2>2 DEF one
    <3>2. explicit' >= E2 /\ defaulted' >= D2 /\ explicit' + defaulted' = E2 + D2 + 1
      BY <1>0, <1>1, <1>2, <2>1, <3>1
    <3>3. E2 \in Nat /\ D2 \in Nat /\ log'.lost = "submitted"
      BY <1>1, <2>1, <2>2
    <3> QED
      BY <3>2, <3>3 DEF CountersFollow, E2, D2
  <2>3. CASE status # "submitted"
    <3>1. explicit' >= E2 /\ defaulted' >= D2 /\ explicit' + defaulted' = E2 + D2 + 0
      BY <1>0, <1>1, <1>2, <2>1, <2>3
    <3> QED
      BY <2>1, <2>3, <3>1 DEF CountersFollow, E2, D2
  <2> QED
    BY <2>2, <2>3
<1>5. CASE Written(log, status, chosen, log')
  <2>1. /\ E2 = E + (IF status = "submitted" /\ one THEN 1 ELSE 0)
        /\ D2 = D + (IF status = "submitted" /\ ~one THEN 1 ELSE 0)
    BY <1>0, <1>3, <1>5, WrittenAnswers
  <2>2. log'.lost # "submitted"
    BY <1>5, NoneAssumption DEF Written, Statuses, QuietStatuses
  <2> HIDE DEF E, D, E2, D2, one
  <2>3. CASE status = "submitted"
    <3>1. /\ explicit' = explicit + (IF one THEN 1 ELSE 0)
          /\ defaulted' = defaulted + (IF ~one THEN 1 ELSE 0)
      BY <1>3, <2>3 DEF one
    <3>2. explicit' >= E2 /\ defaulted' >= D2 /\ explicit' + defaulted' = E2 + D2
      BY <1>0, <1>1, <1>2, <2>1, <2>3, <3>1
    <3>3. E2 \in Nat /\ D2 \in Nat
      BY <1>1, <2>1
    <3> QED
      BY <2>2, <3>2, <3>3 DEF CountersFollow, E2, D2
  <2>4. CASE status # "submitted"
    BY <1>0, <1>1, <1>2, <2>1, <2>2, <2>4 DEF CountersFollow, E2, D2
  <2> QED
    BY <2>3, <2>4
<1> QED
  BY <1>4, <1>5

-----------------------------------------------------------------------------
RecordsInv ==
    Context = "resolved" =>
        Consistent(log, latest) /\ PendingIsTraced /\ WireIsNamed /\ CountersFollow

LEMMA SendRecords ==
    ASSUME Context = "resolved", TypeOK, TypeOK', AnswersFollowRequests, RecordsInv,
           phase = "sending", Next
    PROVE  RecordsInv'
<1>0. /\ log \in Logs /\ log' \in Logs /\ log.failure = None /\ pending = latest
      /\ pending \in Requests /\ chosen \in Submissions /\ log.trace # None
      /\ log.lost = None /\ log.trace.rqid = pending.rqid
      /\ Consistent(log, latest) /\ WireIsNamed /\ CountersFollow
  BY DEF TypeOK, AnswersFollowRequests, RecordsInv, PendingIsTraced, Running, Consistent,
         TraceIsNext, NextIsFree
<1>1. ASSUME NEW status \in {"submitted", "send_failed"}, NEW code \in ErrorCodes \cup {None},
             NEW sinkOk \in BOOLEAN, Buildable(status, code, chosen),
             log' = FinalizePending(log, status, code, chosen, sinkOk),
             latest' = latest, pending' = None,
             wire' \in {wire, Append(wire, Command(pending, chosen))},
             status = "submitted" => wire' = Append(wire, Command(pending, chosen)),
             status = "submitted" =>
               /\ explicit' = explicit + (IF Provenance(chosen) = "explicit_request" THEN 1 ELSE 0)
               /\ defaulted' = defaulted + (IF Provenance(chosen) = "server_default" THEN 1 ELSE 0),
             status # "submitted" => UNCHANGED <<explicit, defaulted>>
      PROVE  RecordsInv'
  <2>1. Lost(log, status, log') \/ Written(log, status, chosen, log')
    BY <1>0, <1>1, FinalizeFact
  <2>2. Closed(log, status, log') /\ status \in Statuses
    BY <1>0, <1>1 DEF Closed, Buildable, Statuses, QuietStatuses, StatusErrorCodes
  <2>3. Consistent(log', latest')
    BY <1>0, <1>1, <2>2, ClosedConsistent
  <2>4. WireIsNamed'
    BY <1>0, <1>1, <2>1, SendWire
  <2>5. CountersFollow'
    BY <1>0, <1>1, <2>1, SendCounters
  <2> QED
    BY <1>1, <2>3, <2>4, <2>5 DEF RecordsInv, PendingIsTraced
<1>2. CASE SendReturns
  <2>1. PICK sinkOk \in BOOLEAN : log' = FinalizePending(log, "submitted", None, chosen, sinkOk)
    BY <1>2 DEF SendReturns, Settle
  <2>2. Buildable("submitted", None, chosen)
    BY <1>0, AnswerAssumption DEF Buildable, WellFormed, QuietStatuses, SelectionStatuses
  <2> QED
    BY <1>1, <1>2, <2>1, <2>2 DEF SendReturns
<1>3. ASSUME NEW error \in SendErrors, SendRaises(error)
      PROVE  RecordsInv'
  <2>1. PICK sinkOk \in BOOLEAN :
            log' = FinalizePending(log, "send_failed", SendRecordCode(error), chosen, sinkOk)
    BY <1>3 DEF SendRaises, RaiseWith, Raise
  <2>2. SendRecordCode(error) \in ErrorCodes \cup {None}
    BY ErrorAssumption DEF SendRecordCode, ErrorCodes
  <2>3. latest' = latest /\ pending' = None /\ UNCHANGED <<explicit, defaulted>>
    BY <1>3 DEF SendRaises, RaiseWith, Raise
  <2>4. wire' \in {wire, Append(wire, Command(pending, chosen))}
    BY <1>3 DEF SendRaises, MayHaveLeft
  <2>5. Buildable("send_failed", SendRecordCode(error), chosen)
    BY <1>0, AnswerAssumption, SendRecordBuildable
  <2> QED
    BY <1>1, <2>1, <2>2, <2>3, <2>4, <2>5
<1>4. CASE Cancel
  <2>1. /\ phase' = "cancelled" /\ UNCHANGED <<log, pending, latest, explicit, defaulted>>
        /\ wire' \in {wire, Append(wire, Command(pending, chosen))}
    BY <1>0, <1>4 DEF Cancel, MayHaveLeft
  <2>2. pending # None
    BY <1>0, PayloadAssumption DEF Requests
  <2>3. WireIsNamed'
    <3>1. CASE wire' = wire
      BY <1>0, <2>1, <2>2, <3>1 DEF WireIsNamed
    <3>2. CASE wire' = Append(wire, Command(pending, chosen))
      <4>1. Command(pending, chosen) \in Commands
        BY <1>0 DEF Command, Commands, Requests, Submissions, ActionKinds
      <4>2. /\ Len(wire') = Len(wire) + 1 /\ Len(wire) \in Nat
            /\ \A c \in 1..Len(wire) : wire'[c] = wire[c]
        BY <3>2, <4>1, AppendProperties DEF TypeOK
      <4>3. ASSUME NEW c \in 1..Len(wire')
            PROVE  \/ \E i \in 1..Len(log'.records) : Names(log'.records[i], wire'[c])
                   \/ c = Len(wire')
        <5>1. CASE c \in 1..Len(wire)
          BY <1>0, <2>1, <4>2, <5>1 DEF WireIsNamed
        <5> QED
          BY <4>2, <5>1
      <4>4. ASSUME NEW i \in 1..Len(log'.records), log'.records[i].status = "submitted"
            PROVE  \E c \in 1..Len(wire') : wire'[c].rqid = log'.records[i].rqid
        <5>1. PICK c \in 1..Len(wire) : wire[c].rqid = log.records[i].rqid
          BY <1>0, <2>1, <4>4 DEF WireIsNamed
        <5> QED
          BY <2>1, <4>2, <5>1
      <4> QED
        BY <2>1, <2>2, <4>3, <4>4 DEF WireIsNamed
    <3> QED
      BY <2>1, <3>1, <3>2
  <2> QED
    BY <1>0, <2>1, <2>3 DEF RecordsInv, PendingIsTraced, Running, CountersFollow
<1> QED
  BY <1>2, <1>3, <1>4
     DEF Next, ProcessEvent, ProcessRequest, ObserveEvent, RetryEvent, EndBattle,
         EventRefused, RefuseRequest, FreshRequest, LineRaises, StreamEnds

LEMMA RecordsStep ==
    TypeOK /\ TypeOK' /\ AnswersFollowRequests /\ RecordsInv /\ [Next]_vars => RecordsInv'
<1> SUFFICES ASSUME TypeOK, TypeOK', AnswersFollowRequests, RecordsInv, [Next]_vars,
                    Context = "resolved"
             PROVE  RecordsInv'
  BY DEF RecordsInv
<1>1. CASE UNCHANGED vars
  BY <1>1 DEF vars, RecordsInv, PendingIsTraced, Running, WireIsNamed, CountersFollow
<1>2. CASE Next /\ phase = "reading"
  <2>1. Reads /\ UNCHANGED <<wire, explicit, defaulted>>
    BY <1>2, ReadsShape
  <2>2. /\ Consistent(log, latest) /\ PendingIsTraced /\ WireIsNamed /\ CountersFollow
        /\ log.lost = None
    BY <1>2 DEF RecordsInv, Consistent, NextIsFree, TypeOK
  <2>3. Grows(log, log') /\ Consistent(log', latest') /\ PendingIsTraced'
    BY <1>2, <2>1, <2>2, ReadsRecords
  <2>4. Running
    BY <1>2 DEF Running
  <2>5. WireIsNamed' /\ CountersFollow'
    BY <2>1, <2>2, <2>3, <2>4, GrowsWire, GrowsCounters
  <2> QED
    BY <2>3, <2>5 DEF RecordsInv
<1>3. CASE Next /\ phase = "sending"
  BY <1>3, SendRecords
<1> QED
  BY <1>1, <1>2, <1>3, StepShape DEF Running

LEMMA InvTellsTheWire == TypeOK /\ RecordsInv => RecordsTellTheWire
<1> SUFFICES ASSUME TypeOK, RecordsInv, Context = "resolved"
             PROVE  RecordsTellTheWire
  BY DEF RecordsTellTheWire, RecordsHaveNoGap, CommandsAreRecorded, CountersCountSubmitted
<1>1. Consistent(log, latest) /\ WireIsNamed /\ CountersFollow /\ log \in Logs
  BY DEF RecordsInv, TypeOK
<1>2. RecordsHaveNoGap
  BY <1>1 DEF RecordsHaveNoGap, Consistent, Numbered, Increasing, NextIsFree
<1>3. CommandsAreRecorded
  BY <1>1 DEF CommandsAreRecorded, WireIsNamed, Names, Recorded
<1>4. CountersCountSubmitted
  <2> DEFINE E == Answers(log, "explicit_request")
             D == Answers(log, "server_default")
             S == {i \in 1..Len(log.records) : log.records[i].status = "submitted"}
  <2>1. S = E \cup D /\ E \cap D = {}
    BY DEF Answers, Provenance
  <2>2. IsFiniteSet(E) /\ IsFiniteSet(D) /\ Cardinality(E) \in Nat /\ Cardinality(D) \in Nat
    BY <1>1, AnswersFinite DEF Count
  <2> HIDE DEF E, D, S
  <2>3. Cardinality(S) = Cardinality(E) + Cardinality(D)
    <3>1. Cardinality(E \cap D) = 0
      BY <2>1, FS_EmptySet
    <3>2. Cardinality(E \cup D) = Cardinality(E) + Cardinality(D) - Cardinality(E \cap D)
      BY <2>2, FS_Union
    <3> QED
      BY <2>1, <2>2, <3>1, <3>2
  <2> QED
    BY <1>1, <2>3 DEF CountersCountSubmitted, CountersFollow, Count, E, D, S
<1> QED
  BY <1>2, <1>3, <1>4 DEF RecordsTellTheWire

LEMMA RecordsInit == Init => RecordsInv
<1> SUFFICES ASSUME Init PROVE RecordsInv
  OBVIOUS
<1>1. log.records = << >> /\ Len(log.records) = 0 /\ log.trace = None /\ log.next = 0
      /\ log.failure = None /\ log.lost = None /\ wire = << >> /\ Len(wire) = 0
      /\ explicit = 0 /\ defaulted = 0 /\ pending = None
  BY DEF Init, EmptyLog
<1>2. Consistent(log, latest) /\ PendingIsTraced /\ WireIsNamed
  BY <1>1 DEF Consistent, Numbered, Increasing, UpTo, TraceIsNext, NextIsFree, PendingIsTraced,
              WireIsNamed
<1>3. CountersFollow
  <2>1. \A provenance : Answers(log, provenance) = {}
    BY <1>1 DEF Answers
  <2>2. \A provenance : Count(log, provenance) = 0
    BY <2>1, FS_EmptySet DEF Count
  <2>3. log.lost # "submitted"
    BY <1>1, NoneAssumption DEF Statuses, QuietStatuses
  <2> QED
    BY <1>1, <2>2, <2>3 DEF CountersFollow
<1> QED
  BY <1>2, <1>3 DEF RecordsInv

(***************************************************************************)
(* The records, the counters and the wire tell the same story: records are *)
(* numbered without a gap, while the trace is healthy every command has    *)
(* the record of its submission, and the counters count the submissions.   *)
(***************************************************************************)
THEOREM RecordsMatchTheWire == Spec => []RecordsTellTheWire
<1>1. Init => AnswersFollowRequests
  BY DEF Init, AnswersFollowRequests, OneCommandPerRequest
<1> QED
  BY <1>1, RecordsInit, RecordsStep, InvTellsTheWire, AnswersStep, TypeCorrect, PTL DEF Spec

-----------------------------------------------------------------------------
\* The last record, if it is one of a decision, carries the state o.
DecisionStatuses == SelectionStatuses \cup {"wait_noop", "policy_rejected"}

Described(records, o) ==
    records[Len(records)].status \in DecisionStatuses => records[Len(records)].state = o

LEMMA ClosedLast ==
    ASSUME NEW lg \in Logs, lg.failure = None, NEW status \in Statuses, NEW lg2,
           Closed(lg, status, lg2), NEW o,
           status \in DecisionStatuses /\ lg.trace # None => lg.trace.state = o
    PROVE  lg2.records = lg.records \/ Described(lg2.records, o)
<1>1. CASE lg2.records = lg.records
  BY <1>1
<1>2. ASSUME lg.trace # None, NEW selected \in Submissions \cup {None},
             Written(lg, status, selected, lg2)
      PROVE  Described(lg2.records, o)
  <2>1. PICK code \in ErrorCodes \cup {None} :
            lg2.records = Append(lg.records, RecordOf(lg.trace, status, code, selected))
    BY <1>2 DEF Written
  <2> DEFINE rec == RecordOf(lg.trace, status, code, selected)
  <2>2. rec \in Records /\ rec.status = status /\ rec.state = lg.trace.state
    BY <1>2 DEF RecordOf, Records, Logs, Traces
  <2> HIDE DEF rec
  <2>3. lg2.records[Len(lg2.records)] = rec
    BY <2>1, <2>2, RecordTypes, AppendProperties DEF rec
  <2> QED
    BY <1>2, <2>2, <2>3 DEF Described
<1> QED
  BY <1>1, <1>2, ClosedFact DEF Unwritten, Lost

LEMMA FailsLast ==
    ASSUME NEW lg \in Logs, lg.failure = None, NEW statuses \in SUBSET Statuses,
           Fails(lg, statuses), NEW o,
           statuses \cap DecisionStatuses = {} \/ (lg.trace # None => lg.trace.state = o)
    PROVE  log'.records = lg.records \/ Described(log'.records, o)
<1>1. ASSUME NEW status \in statuses, Closed(lg, status, log')
      PROVE  log'.records = lg.records \/ Described(log'.records, o)
  BY <1>1, ClosedLast
<1> QED
  BY <1>1 DEF Fails

LEMMA DecidesLast ==
    ASSUME NEW p, NEW o \in ObservedStates, NEW tr \in Logs, tr.failure = None, Decides(p, o, tr)
    PROVE  log'.records = tr.records \/ Described(log'.records, o)
<1> DEFINE tr2 == RefreshTrace(tr, o)
<1>1. /\ tr2 \in Logs /\ tr2.failure = None /\ tr2.records = tr.records
      /\ tr2.trace # None => tr2.trace.state = o
  BY RefreshTraceType DEF RefreshTrace, Logs, Traces
<1> HIDE DEF tr2
<1>2. CASE log' = tr \/ log' = tr2
  BY <1>1, <1>2
<1>3. CASE Closed(tr2, "wait_noop", log')
  <2>1. "wait_noop" \in Statuses
    BY DEF Statuses, QuietStatuses
  <2> QED
    BY <1>1, <1>3, <2>1, ClosedLast
<1>4. CASE Fails(tr, {"reconciliation_rejected"})
  <2>1. /\ {"reconciliation_rejected"} \in SUBSET Statuses
        /\ {"reconciliation_rejected"} \cap DecisionStatuses = {}
    BY DEF Statuses, StatusErrorCodes, DecisionStatuses, SelectionStatuses
  <2> QED
    BY <1>4, <2>1, FailsLast
<1>5. CASE Fails(tr2, DecisionFailures)
  <2>1. DecisionFailures \in SUBSET Statuses
    BY DEF Statuses, StatusErrorCodes, QuietStatuses, DecisionFailures, AbortStatuses
  <2> QED
    BY <1>1, <1>5, <2>1, FailsLast
<1> QED
  BY <1>2, <1>3, <1>4, <1>5 DEF Decides, tr2

LEMMA LastIsDescribed ==
    ASSUME TypeOK, TypeOK', InFlightAgrees, Next
    PROVE  log'.records = log.records \/ Described(log'.records, obs')
<1>1. CASE phase = "reading"
  <2>0. /\ log \in Logs /\ log.failure = None /\ obs \in ObservedStates
        /\ obs' \in ObservedStates
    BY <1>1 DEF TypeOK
  <2>1. Reads
    BY <1>1, ReadsShape
  <2>2. CASE Decides(pending, obs', log)
    BY <2>0, <2>2, DecidesLast
  <2>3. CASE Closed(log, "terminally_discarded", log')
    <3>1. "terminally_discarded" \in Statuses \ DecisionStatuses
      BY DEF Statuses, QuietStatuses, DecisionStatuses, SelectionStatuses
    <3> QED
      BY <2>0, <2>3, <3>1, ClosedLast
  <2>4. CASE Fails(log, AbortStatuses)
    <3>1. AbortStatuses \in SUBSET Statuses /\ AbortStatuses \cap DecisionStatuses = {}
      BY DEF Statuses, StatusErrorCodes, QuietStatuses, AbortStatuses, DecisionStatuses,
             SelectionStatuses
    <3> QED
      BY <2>0, <2>4, <3>1, FailsLast
  <2>5. ASSUME latest' \in Requests, NEW tr \in Logs,
               Closed(log, "superseded_before_selection", tr),
               \/ /\ tr.failure = None /\ ~OpenRaises(tr, latest'.rqid)
                  /\ Decides(latest', obs', OpenTrace(tr, latest'.rqid, obs))
               \/ tr.failure = None /\ Fails(tr, AbortStatuses)
               \/ log' = tr
        PROVE  log'.records = log.records \/ Described(log'.records, obs')
    <3> DEFINE tr2 == OpenTrace(tr, latest'.rqid, obs)
    <3>1. "superseded_before_selection" \in Statuses \ DecisionStatuses
      BY DEF Statuses, QuietStatuses, DecisionStatuses, SelectionStatuses
    <3>2. tr.records = log.records \/ Described(tr.records, obs')
      BY <2>0, <2>5, <3>1, ClosedLast
    <3>4. CASE tr.failure = None /\ Fails(tr, AbortStatuses)
      <4>1. AbortStatuses \in SUBSET Statuses /\ AbortStatuses \cap DecisionStatuses = {}
        BY DEF Statuses, StatusErrorCodes, QuietStatuses, AbortStatuses, DecisionStatuses,
               SelectionStatuses
      <4>2. log'.records = tr.records \/ Described(log'.records, obs')
        BY <2>5, <3>4, <4>1, FailsLast
      <4> QED
        BY <3>2, <4>2
    <3>3. CASE tr.failure = None /\ ~OpenRaises(tr, latest'.rqid) /\ Decides(latest', obs', tr2)
      <4>1. tr2 \in Logs /\ tr2.failure = None
        BY <2>0, <2>5, <3>3, OpenTraceType DEF Requests
      <4>2. tr2.records = tr.records
        BY DEF OpenTrace, Logs
      <4>3. log'.records = tr2.records \/ Described(log'.records, obs')
        BY <2>0, <3>3, <4>1, DecidesLast
      <4> QED
        BY <3>2, <4>2, <4>3
    <3> QED
      BY <2>5, <3>2, <3>3, <3>4
  <2> QED
    BY <2>1, <2>2, <2>3, <2>4, <2>5 DEF Reads
<1>2. CASE phase = "sending"
  <2>0. /\ log \in Logs /\ log.failure = None /\ chosen \in Submissions
        /\ log.trace # None => log.trace.state = obs
    BY <1>2 DEF TypeOK, InFlightAgrees
  <2>1. CASE SendReturns
    <3>1. PICK sinkOk \in BOOLEAN :
              Settle(FinalizePending(log, "submitted", None, chosen, sinkOk))
      BY <2>1 DEF SendReturns
    <3>3. Buildable("submitted", None, chosen)
      BY <2>0, AnswerAssumption DEF Buildable, WellFormed, QuietStatuses, SelectionStatuses
    <3>2. Closed(log, "submitted", log') /\ "submitted" \in Statuses /\ obs' = obs
      BY <2>0, <2>1, <3>1, <3>3, SettleShape DEF SendReturns, Statuses, QuietStatuses
    <3> QED
      BY <2>0, <3>2, ClosedLast
  <2>2. ASSUME NEW error \in SendErrors, SendRaises(error)
        PROVE  log'.records = log.records \/ Described(log'.records, obs')
    <3>1. error \in ErrorCodes \ TraceFailures /\ SendRecordCode(error) \in ErrorCodes
      BY ErrorAssumption DEF SendRecordCode, ErrorCodes
    <3>3. Buildable("send_failed", SendRecordCode(error), chosen)
      BY <2>0, AnswerAssumption, SendRecordBuildable
    <3>2. Fails(log, {"send_failed"}) /\ {"send_failed"} \in SUBSET Statuses /\ obs' = obs
      BY <2>0, <2>2, <3>1, <3>3, RaiseWithShape DEF SendRaises, Statuses, StatusErrorCodes
    <3> QED
      BY <2>0, <3>2, FailsLast
  <2>3. CASE Cancel
    BY <2>3 DEF Cancel
  <2> QED
    BY <1>2, <2>1, <2>2, <2>3
       DEF Next, ProcessEvent, ProcessRequest, ObserveEvent, RetryEvent, EndBattle,
           EventRefused, RefuseRequest, FreshRequest, LineRaises, StreamEnds
<1> QED
  BY <1>1, <1>2, StepShape DEF Running

(***************************************************************************)
(* The record of a decision carries the state the decision was made in,    *)
(* not the one in which its request arrived                                *)
(* (_refresh_pending_trace_state).                                         *)
(***************************************************************************)
THEOREM RecordsCarryTheDecisionState == Spec => RecordsDescribeDecisionState
<1>1. TypeOK /\ TypeOK' /\ InFlightAgrees /\ [Next]_vars
        => [LET n == Len(log'.records)
            IN  /\ n > Len(log.records)
                /\ log'.records[n].status \in SelectionStatuses \cup {"wait_noop", "policy_rejected"}
                => log'.records[n].state = obs']_vars
  <2> SUFFICES ASSUME TypeOK, TypeOK', InFlightAgrees, Next
               PROVE  Len(log'.records) > Len(log.records) => Described(log'.records, obs')
    BY DEF Described, DecisionStatuses
  <2>1. Len(log.records) \in Nat
    BY RecordTypes DEF TypeOK
  <2> QED
    BY <2>1, LastIsDescribed
<1>2. Init => WaitsForPublicState /\ InFlightAgrees
  BY DEF Init, WaitsForPublicState, InFlightAgrees
<1> QED
  BY <1>1, <1>2, WaitsStep, TypeCorrect, PTL DEF Spec, RecordsDescribeDecisionState


-----------------------------------------------------------------------------
(***************************************************************************)
(* The measurement.  A measured session records its decisions, so its      *)
(* context is resolved.                                                    *)
(***************************************************************************)
LEMMA SameCounts ==
    ASSUME NEW provenance
    PROVE  Cardinality(SubmittedRecords(provenance)) = Count(log, provenance)
  BY DEF SubmittedRecords, Count, Answers

\* What the session's invariants say about the state it leaves.
LeftBehind ==
    /\ explicit >= Count(log, "explicit_request")
    /\ defaulted >= Count(log, "server_default")
    /\ log.failure # "decision_record_construction_failure" /\ primary # "trace_sink_failure"
         => /\ explicit = Count(log, "explicit_request")
            /\ defaulted = Count(log, "server_default")
    /\ primary \in TraceFailures => primary = log.failure
    /\ log.failure # None => primary # None
    /\ OnlyRejectionsFail
    /\ log.failure \in TraceFailures \cup {None}
    /\ log.failure = None => log.next = Len(log.records) + (IF log.trace = None THEN 0 ELSE 1)
    /\ ~HasRecords => Count(log, "explicit_request") = 0 /\ Count(log, "server_default") = 0
    /\ Len(log.records) \in Nat

LEMMA SessionLeaves ==
    ASSUME Context = "resolved", TypeOK, RecordsInv, ErrorsInv
    PROVE  LeftBehind
<1>1. /\ CountersFollow /\ NextIsFree(log) /\ TraceFailureNeverMasks /\ FailureIsReported
      /\ OnlyRejectionsFail
  BY DEF RecordsInv, Consistent, ErrorsInv
<1>2. /\ log.failure \in TraceFailures \cup {None}
      /\ Len(log.records) \in Nat
      /\ Count(log, "explicit_request") \in Nat
      /\ Count(log, "server_default") \in Nat
  BY RecordTypes, AnswersFinite DEF TypeOK, Logs
<1>3. ASSUME log.failure # "decision_record_construction_failure",
             primary # "trace_sink_failure"
      PROVE  /\ explicit = Count(log, "explicit_request")
             /\ defaulted = Count(log, "server_default")
  <2>1. log.lost # "submitted"
    <3>1. CASE log.failure = None
      BY <1>1, <3>1, NoneAssumption DEF NextIsFree, Statuses, QuietStatuses
    <3>2. CASE log.failure = "trace_sink_failure"
      BY <1>1, <1>3, <3>2, NoneAssumption
         DEF TraceFailureNeverMasks, QuietStatuses, ErrorCodes, TraceFailures
    <3> QED
      BY <1>2, <1>3, <3>1, <3>2 DEF TraceFailures
  <2> QED
    BY <1>1, <1>2, <2>1 DEF CountersFollow, TypeOK
<1>4. ASSUME ~HasRecords
      PROVE  Count(log, "explicit_request") = 0 /\ Count(log, "server_default") = 0
  <2>1. \A provenance : Answers(log, provenance) = {}
    BY <1>4 DEF HasRecords, Answers
  <2> QED
    BY <2>1, FS_EmptySet DEF Count
<1> QED
  BY <1>1, <1>2, <1>3, <1>4
     DEF LeftBehind, CountersFollow, FailureIsReported, NextIsFree

\* None and the codes of the trace are different values.
LEMMA CodesDiffer ==
    /\ None \notin TraceFailures
    /\ None # "unclassified"
    /\ None # "runtime_error"
  BY NoneAssumption, ResultAssumption DEF ErrorCodes

\* The runner's validation accepts what run builds unless a record could not
\* be built after others had been.
LEMMA ResultIsValid ==
    ASSUME LeftBehind, NEW lf \in BOOLEAN,
           HasRecords => log.failure # "decision_record_construction_failure",
           explicit \in Nat, defaulted \in Nat
    PROVE  Valid(Result(lf))
<1> DEFINE r == Result(lf)
<1>1. /\ r.status = RunStatus(lf)
      /\ r.trace = TraceStatus(lf)
      /\ r.error = IF TraceOnlyFailure(lf) THEN "trace_sink_failure"
                   ELSE StableErrorCode(primary)
  BY DEF Result
<1>2. /\ log.failure \in TraceFailures \cup {None}
      /\ primary = "trace_sink_failure" => log.failure = "trace_sink_failure"
  BY DEF LeftBehind, TraceFailures
<1> HIDE DEF r
<1>3. CountersMatch(r)
  <2>1. CASE primary = "trace_sink_failure"
    <3>1. TraceOnlyFailure(lf) /\ TraceError(lf)
      BY <1>2, <2>1 DEF LeftBehind, TraceFailures, TraceOnlyFailure, TraceError
    <3> QED
      BY <1>1, <3>1, SameCounts DEF LeftBehind, CountersMatch, TraceStatus
  <2>2. CASE primary # "trace_sink_failure"
    BY <2>2, SameCounts DEF LeftBehind, CountersMatch
  <2> QED
    BY <2>1, <2>2
<1>4. (HasRecords => r.trace \in {"emitted", "sink_failed"}) /\ (~HasRecords => r.trace # "emitted")
  BY <1>1 DEF TraceStatus
<1>5. MatchesSession(r)
  BY <1>1, <1>2, CodesDiffer
     DEF MatchesSession, TraceStatus, TraceOnlyFailure, TraceError, StableErrorCode
<1>6. StatusMatrix(r)
  <2>1. CASE TraceOnlyFailure(lf)
    BY <1>1, <2>1 DEF StatusMatrix, RunStatus, TraceStatus, TraceOnlyFailure
  <2>2. CASE ~TraceOnlyFailure(lf) /\ primary # None
    BY <1>1, <2>2, CodesDiffer DEF StatusMatrix, RunStatus, StableErrorCode
  <2>3. CASE ~TraceOnlyFailure(lf) /\ primary = None
    <3>1. r.error = None /\ ~TraceError(lf) /\ log.failure = None
      BY <1>1, <2>3, CodesDiffer DEF StableErrorCode, TraceOnlyFailure, LeftBehind
    <3>2. ~HasRecords => explicit = 0 /\ defaulted = 0
      BY <2>3, <3>1, CodesDiffer DEF LeftBehind, TraceFailures
    <3> QED
      BY <1>1, <2>3, <3>1, <3>2 DEF StatusMatrix, RunStatus, TraceStatus
  <2> QED
    BY <2>1, <2>2, <2>3
<1> QED
  BY <1>3, <1>4, <1>5, <1>6 DEF Valid, r

LEMMA MeasureTellsTheTruth ==
    ASSUME LeftBehind, explicit \in Nat, defaulted \in Nat, Measure
    PROVE  ResultTellsTheTruth'
<1>1. PICK lf \in BOOLEAN :
         measured' = IF Valid(Result(lf)) THEN Result(lf) ELSE NotPreserved
  BY DEF Measure
<1>2. UNCHANGED <<log, primary>>
  BY DEF Measure, vars
<1>3. /\ Result(lf).status = RunStatus(lf)
      /\ Result(lf).trace = TraceStatus(lf)
      /\ Result(lf).error = IF TraceOnlyFailure(lf) THEN "trace_sink_failure"
                            ELSE StableErrorCode(primary)
  BY DEF Result
<1>4. Result(lf) # NotPreserved
  BY <1>3 DEF NotPreserved, RunStatus
<1>5. measured' = NotPreserved =>
        /\ log'.failure = "decision_record_construction_failure"
        /\ log'.lost = "action_gate_rejected"
        /\ HasRecords'
  BY <1>1, <1>2, <1>4, ResultIsValid DEF LeftBehind, OnlyRejectionsFail, HasRecords
<1>6. ASSUME measured' = Result(lf)
      PROVE  /\ primary \notin TraceFailures \cup {None}
                  => measured'.status = "failed" /\ measured'.error = StableErrorCode(primary)
             /\ measured'.status = "completed"
                  => /\ primary = None
                     /\ Len(log.records) = log.next - (IF log.trace = None THEN 0 ELSE 1)
             /\ measured'.status = "trace_failed"
                  <=> measured'.trace = "sink_failed" /\ primary \in {None, "trace_sink_failure"}
  <2>1. primary \notin TraceFailures \cup {None}
           => measured'.status = "failed" /\ measured'.error = StableErrorCode(primary)
    BY <1>3, <1>6 DEF RunStatus, TraceOnlyFailure, TraceFailures
  <2>2. ASSUME measured'.status = "completed"
        PROVE  /\ primary = None
               /\ Len(log.records) = log.next - (IF log.trace = None THEN 0 ELSE 1)
    <3>1. primary = None /\ log.failure = None
      BY <1>3, <1>6, <2>2 DEF RunStatus, LeftBehind
    <3>2. /\ Len(log.records) \in Nat
          /\ log.next = Len(log.records) + (IF log.trace = None THEN 0 ELSE 1)
      BY <3>1 DEF LeftBehind
    <3>3. CASE log.trace = None
      BY <3>1, <3>2, <3>3
    <3>4. CASE log.trace # None
      BY <3>1, <3>2, <3>4
    <3> QED
      BY <3>3, <3>4
  <2>3. measured'.status = "trace_failed"
           <=> measured'.trace = "sink_failed" /\ primary \in {None, "trace_sink_failure"}
    BY <1>3, <1>6 DEF RunStatus, TraceStatus, TraceOnlyFailure
  <2> QED
    BY <2>1, <2>2, <2>3
<1> QED
  BY <1>1, <1>2, <1>5, <1>6 DEF ResultTellsTheTruth, HasResult, StableErrorCode

\* A run is measured once, when its session has ended.
MeasuredInv ==
    /\ TypeOK /\ AnswersFollowRequests /\ RecordsInv /\ ErrorsInv
    /\ measured # None => ~Running
    /\ ResultTellsTheTruth

(***************************************************************************)
(* The result of a measured run hides nothing: errors of the battle stay   *)
(* its errors whatever the sink does, "completed" means no error and every *)
(* closed record written, and the runner's validation refuses only a run   *)
(* that had records before the one of a rejected selection could not be    *)
(* built (MeasurementRunner.run).                                          *)
(***************************************************************************)
THEOREM MeasuredResultsAreTrue ==
    ASSUME Context = "resolved"
    PROVE  MeasuredSpec => []ResultTellsTheTruth
<1>1. MeasuredInit => MeasuredInv
  <2> SUFFICES ASSUME MeasuredInit PROVE MeasuredInv
    OBVIOUS
  <2>1. Init => AnswersFollowRequests
    BY DEF Init, AnswersFollowRequests, OneCommandPerRequest
  <2>2. ResultTellsTheTruth
    BY ResultAssumption DEF MeasuredInit, ResultTellsTheTruth, HasResult
  <2> QED
    BY <2>1, <2>2, InitType, RecordsInit, ErrorsInit DEF MeasuredInit, MeasuredInv
<1>2. MeasuredInv /\ [MeasuredNext]_<<vars, measured>> => MeasuredInv'
  <2> SUFFICES ASSUME MeasuredInv, [MeasuredNext]_<<vars, measured>>
               PROVE  MeasuredInv'
    OBVIOUS
  <2>1. [Next]_vars
    BY DEF MeasuredNext, Measure, MeasureCancelled
  <2>2. TypeOK' /\ AnswersFollowRequests' /\ RecordsInv' /\ ErrorsInv'
    BY <2>1, StepType, AnswersStep, RecordsStep, ErrorsStep DEF MeasuredInv
  <2>3. (measured' # None => ~Running') /\ ResultTellsTheTruth'
    <3>1. CASE Next /\ UNCHANGED measured
      <4>1. Running
        BY <3>1, StepShape DEF MeasuredInv
      <4> QED
        BY <3>1, <4>1, ResultAssumption
           DEF MeasuredInv, ResultTellsTheTruth, HasResult, HasRecords
    <3>2. CASE Measure
      <4>1. ~Running'
        BY <3>2 DEF Measure, vars, Running
      <4>2. ResultTellsTheTruth'
        BY <3>2, SessionLeaves, MeasureTellsTheTruth DEF MeasuredInv, TypeOK
      <4> QED
        BY <4>1, <4>2
    <3>3. CASE MeasureCancelled
      BY <3>3 DEF MeasureCancelled, vars, Running, ResultTellsTheTruth, HasResult,
                  Cancelled, NotPreserved
    <3>4. CASE UNCHANGED <<vars, measured>>
      BY <3>4 DEF vars, MeasuredInv, Running, ResultTellsTheTruth, HasResult, HasRecords
    <3> QED
      BY <3>1, <3>2, <3>3, <3>4 DEF MeasuredNext
  <2> QED
    BY <2>2, <2>3 DEF MeasuredInv
<1>3. MeasuredInv => ResultTellsTheTruth
  BY DEF MeasuredInv
<1> QED
  BY <1>1, <1>2, <1>3, PTL DEF MeasuredSpec
=============================================================================
