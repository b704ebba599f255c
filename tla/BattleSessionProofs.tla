------------------------- MODULE BattleSessionProofs -------------------------
(***************************************************************************)
(* Machine-checked results about BattleSession, for every vocabulary of    *)
(* lines, every policy and every trace context: types, answers, and the    *)
(* refinement of the decision exchange.                                    *)
(***************************************************************************)
EXTENDS BattleSession, SequenceTheorems, WellFoundedInduction, TLAPS

\* Reducing an event keeps the shape of the public state.
LEMMA ReduceType ==
    ASSUME NEW state \in ObservedStates, NEW event \in BattleEvents
    PROVE  Reduce(state, event) \in ObservedStates
<1>1. CASE event.type = "player"
  BY <1>1 DEF Reduce, DeclarePlayer, ObservedStates, BattleEvents, Metadata, Sides
<1>2. CASE event.type \in Metadata
  BY <1>2 DEF Reduce, ObservedStates, BattleEvents, Metadata
<1>3. CASE event.type = "team_size"
  BY <1>3 DEF Reduce, ObservedStates, BattleEvents, Metadata
<1>4. CASE event.type \in {"switch", "replace"}
  BY <1>4 DEF Reduce, ObservedStates, BattleEvents, Metadata
<1>5. CASE event.type \in {"start", "over", "turn", "acted"}
  BY <1>5 DEF Reduce, ObservedStates, BattleEvents, Metadata
<1> QED
  BY <1>1, <1>2, <1>3, <1>4, <1>5 DEF BattleEvents, Metadata

\* Every submission the reader offers is a submission.
LEMMA SafeSubmissionsType ==
    ASSUME NEW p \in Payload
    PROVE  SafeSubmissions(p) \subseteq Submissions
<1>1. Len(p.team) \in Nat /\ Len(p.moves) \in Nat
  BY DEF Payload
<1>2. Default \in Submissions
  BY DEF Default, Submission, Submissions, ActionKinds
<1>3. \A n \in Nat : <<n>> \in Seq(Nat)
  OBVIOUS
<1>4. ASSUME NEW kind \in ActionKinds, NEW n \in Nat, NEW tera \in BOOLEAN
      PROVE  Submission(kind, <<n>>, tera) \in Submissions
  <2>1. <<n>> \in Seq(Nat)
    BY <1>3
  <2> QED
    BY <2>1 DEF Submission, Submissions
<1>5. Healthy(p) \subseteq Nat /\ Fainted(p) \subseteq Nat /\ EnabledMoves(p) \subseteq Nat
  BY <1>1 DEF Healthy, Fainted, Slots, EnabledMoves
<1>6. /\ ToSlots("switch", Healthy(p), FALSE) \subseteq Submissions
      /\ ToSlots("revive", Fainted(p), FALSE) \subseteq Submissions
      /\ MoveSubmissions(p) \subseteq Submissions
  <2>1. ASSUME NEW kind \in ActionKinds, NEW slots \in SUBSET Nat, NEW tera \in BOOLEAN
        PROVE  ToSlots(kind, slots, tera) \subseteq Submissions
    BY <1>4 DEF ToSlots
  <2> QED
    BY <2>1, <1>5 DEF ActionKinds, MoveSubmissions
<1>7. \A o \in TeamOrders(Len(p.team)) : o \in Seq(Nat)
  BY <1>1 DEF TeamOrders
<1>8. {Submission("team", o, FALSE) : o \in TeamOrders(Len(p.team))} \subseteq Submissions
  <2>1. ASSUME NEW o \in Seq(Nat)
        PROVE  Submission("team", o, FALSE) \in Submissions
    BY DEF Submission, Submissions, ActionKinds
  <2> QED
    BY <2>1, <1>7
<1>9. RequestKind(p) \in {"wait", "team_preview", "revival", "forced_switch", "move"}
  BY DEF RequestKind
<1> QED
  BY <1>2, <1>6, <1>8, <1>9 DEF SafeSubmissions, ActionKinds, Payload

\* The first verdict that is not ok decides.
LEMMA FirstOtherFact ==
    ASSUME NEW v, DOMAIN v \subseteq Nat, NEW ok
    PROVE  \/ FirstOther(v, ok) = ok /\ \A i \in DOMAIN v : v[i] = ok
           \/ \E i \in DOMAIN v : /\ v[i] # ok
                                  /\ FirstOther(v, ok) = v[i]
                                  /\ \A j \in DOMAIN v : j < i => v[j] = ok
<1> DEFINE others == {i \in DOMAIN v : v[i] # ok}
<1>1. CASE others = {}
  BY <1>1 DEF FirstOther
<1>2. CASE others # {}
  <2>1. others \subseteq Nat
    OBVIOUS
  <2>2. \E i \in others : \A j \in others : ~(<<j, i>> \in OpToRel(<, Nat))
    BY <1>2, <2>1, WFMin, NatLessThanWellFounded
  <2>3. \E i \in others : \A j \in others : i <= j
    <3>1. PICK i \in others : \A j \in others : ~(<<j, i>> \in OpToRel(<, Nat))
      BY <2>2
    <3>2. ASSUME NEW j \in others
          PROVE  i <= j
      <4>1. i \in Nat /\ j \in Nat
        BY <2>1
      <4>2. <<j, i>> \notin OpToRel(<, Nat)
        BY <3>1
      <4>3. ~(j < i)
        BY <4>1, <4>2 DEF OpToRel
      <4> HIDE DEF others
      <4> QED
        BY <4>1, <4>3
    <3> QED
      BY <3>2
  <2>4. PICK i \in others : /\ FirstOther(v, ok) = v[i]
                            /\ \A j \in others : i <= j
    BY <1>2, <2>3 DEF FirstOther
  <2> QED
    BY <2>1, <2>4
<1> QED
  BY <1>1, <1>2

\* What read_request raises has a code.
LEMMA ReadErrorType ==
    ASSUME NEW p
    PROVE  /\ ReadError(p) \in (ErrorCodes \ TraceFailures) \cup {None}
           /\ ReadError(p) = None => p.rqid # None
<1> DEFINE kind == RequestKind(p)
           E(code, cond) == IF cond THEN code ELSE None
           mismatch == "request_state_reconciliation_mismatch"
           malformed == "malformed_protocol_message"
           v == <<E(mismatch, p.rqid = None),
                  E(malformed, Len(p.team) \notin 1..6 \/ Cardinality(ActiveSlots(p)) > 1),
                  E(malformed, kind = "team_preview" /\ p.maxChosen < 1),
                  E(mismatch, kind = "team_preview" /\ p.maxChosen # Len(p.team)),
                  E(malformed, kind = "move" /\ Len(p.moves) \notin 1..4),
                  E("unclassified", /\ kind = "move" /\ ~p.unsure
                                    /\ \E i \in EnabledMoves(p) : ~p.moves[i].legalId)>>
<1>1. ReadError(p) = FirstOther(v, None)
  BY DEF ReadError
<1>2. DOMAIN v = 1..6 /\ \A i \in 1..6 : v[i] \in {mismatch, malformed, "unclassified", None}
  OBVIOUS
<1>4. v[1] = E(mismatch, p.rqid = None)
  OBVIOUS
<1> HIDE DEF v
<1>3. FirstOther(v, None) \in {mismatch, malformed, "unclassified", None}
  BY <1>2, FirstOtherFact
<1>5. FirstOther(v, None) = None => p.rqid # None
  <2>1. mismatch \in ErrorCodes
    BY DEF ErrorCodes, FreshnessCodes
  <2>2. FirstOther(v, None) = None => v[1] = None
    <3>1. \/ \A i \in DOMAIN v : v[i] = None
          \/ \E i \in DOMAIN v : v[i] # None /\ FirstOther(v, None) = v[i]
      <4>1. DOMAIN v \subseteq Nat
        BY <1>2
      <4> QED
        BY <4>1, FirstOtherFact, Zenon
    <3>2. 1 \in DOMAIN v
      BY <1>2
    <3> QED
      BY <3>1, <3>2
  <2>3. mismatch # None
    BY <2>1, NoneAssumption
  <2> HIDE DEF mismatch
  <2> QED
    BY <1>4, <2>2, <2>3
<1> QED
  BY <1>1, <1>3, <1>5 DEF ErrorCodes, TraceFailures, AbortCodes, FreshnessCodes

\* Opening, refreshing, closing and aborting a trace keep the shape of the log.
LEMMA OpenTraceType ==
    ASSUME NEW lg \in Logs, NEW rqid \in Nat, NEW state \in ObservedStates,
           ~OpenRaises(lg, rqid)
    PROVE  /\ OpenTrace(lg, rqid, state) \in Logs
           /\ OpenTrace(lg, rqid, state).failure = lg.failure
<1>1. CASE Traced(lg)
  <2>1. rqid \in 0..MaxSafeInteger
    BY <1>1, MaxSafeAssumption DEF OpenRaises
  <2>2. [index |-> lg.next, rqid |-> rqid, state |-> state] \in Traces
    BY <2>1 DEF Logs, Traces
  <2>3. lg.next + 1 \in Nat
    BY DEF Logs
  <2> QED
    BY <2>2, <2>3 DEF OpenTrace, Logs
<1>2. CASE ~Traced(lg)
  BY <1>2 DEF OpenTrace
<1> QED
  BY <1>1, <1>2

LEMMA RefreshTraceType ==
    ASSUME NEW lg \in Logs, NEW state \in ObservedStates
    PROVE  /\ RefreshTrace(lg, state) \in Logs
           /\ RefreshTrace(lg, state).failure = lg.failure
  BY DEF RefreshTrace, Logs, Traces

LEMMA FinalizePendingType ==
    ASSUME NEW lg \in Logs, NEW status \in Statuses, NEW code \in ErrorCodes \cup {None},
           NEW selected \in Submissions \cup {None}, NEW sinkOk \in BOOLEAN
    PROVE  FinalizePending(lg, status, code, selected, sinkOk) \in Logs
<1>1. CASE lg.trace = None
  BY <1>1 DEF FinalizePending
<1>2. CASE lg.trace # None
  <2>1. RecordOf(lg.trace, status, code, selected) \in Records
    BY <1>2 DEF RecordOf, Records, Logs, Traces
  <2>2. Append(lg.records, RecordOf(lg.trace, status, code, selected)) \in Seq(Records)
    BY <2>1 DEF Logs
  <2> QED
    BY <1>2, <2>2 DEF FinalizePending, Logs, TraceFailures
<1> QED
  BY <1>1, <1>2

LEMMA AbortTraceType ==
    ASSUME NEW lg \in Logs, NEW code \in ErrorCodes, NEW sinkOk \in BOOLEAN
    PROVE  AbortTrace(lg, code, sinkOk) \in Logs
<1>1. "freshness_invalidated" \in Statuses /\ "session_aborted" \in Statuses
  BY DEF Statuses, QuietStatuses, StatusErrorCodes
<1>2. FinalizePending(lg, "freshness_invalidated", None, None, sinkOk) \in Logs
  BY <1>1, FinalizePendingType
<1>3. FinalizePending(lg, "session_aborted", code, None, sinkOk) \in Logs
  BY <1>1, FinalizePendingType
<1> QED
  BY <1>2, <1>3 DEF AbortTrace

-----------------------------------------------------------------------------
\* The conjuncts of TypeOK about what a decision step changes.
DecisionOK ==
    /\ phase \in {"reading", "sending", "returned", "cancelled"}
    /\ pending \in Requests \cup {None}
    /\ submitted \in Requests \cup {None}
    /\ chosen \in Submissions \cup {None}
    /\ log \in Logs
    /\ primary \in ErrorCodes \cup {None}
    /\ done \in BOOLEAN
    /\ phase = "sending" => pending # None /\ chosen # None
    /\ phase \in {"reading", "sending"} => ~done /\ primary = None /\ log.failure = None

LEMMA LogFailureType ==
    ASSUME NEW tr \in Logs
    PROVE  tr.failure \in ErrorCodes \cup {None}
<1>1. tr.failure \in TraceFailures \cup {None}
  BY DEF Logs
<1>2. TraceFailures \subseteq ErrorCodes
  BY DEF ErrorCodes
<1> QED
  BY <1>1, <1>2

\* The first error stays a code or None.
LEMMA FirstErrorType ==
    ASSUME NEW e \in ErrorCodes \cup {None}, NEW f \in ErrorCodes \cup {None}
    PROVE  /\ FirstError(e, f) \in ErrorCodes \cup {None}
           /\ e # None \/ f # None => FirstError(e, f) # None
  BY DEF FirstError

\* A handler that settles or raises leaves well-typed decision variables.
LEMMA SettleType ==
    ASSUME TypeOK, phase \in {"reading", "sending"}, NEW tr \in Logs, Settle(tr),
           pending' \in Requests \cup {None}, submitted' \in Requests \cup {None},
           chosen' \in Submissions \cup {None}
    PROVE  DecisionOK'
<1>1. tr.failure \in ErrorCodes \cup {None}
  BY LogFailureType
<1>2. primary = None
  BY DEF TypeOK
<1>3. primary' = tr.failure
  BY <1>2 DEF Settle, FirstError
<1> QED
  BY <1>1, <1>3 DEF Settle, DecisionOK

LEMMA RaiseType ==
    ASSUME TypeOK, NEW error \in ErrorCodes, NEW tr \in Logs, Raise(error, tr),
           submitted' \in Requests \cup {None}, chosen' \in Submissions \cup {None}
    PROVE  /\ DecisionOK'
           /\ primary' # None
           /\ pending' = None
           /\ phase' = "returned"
<1>1. tr.failure \in ErrorCodes \cup {None}
  BY LogFailureType
<1>2. FirstError(primary, error) \in ErrorCodes \cup {None} /\ FirstError(primary, error) # None
  BY FirstErrorType, NoneAssumption DEF TypeOK
<1>3. primary' \in ErrorCodes \cup {None} /\ primary' # None
  BY <1>1, <1>2, FirstErrorType DEF Raise
<1> QED
  BY <1>3 DEF Raise, DecisionOK

LEMMA AbortType ==
    ASSUME TypeOK, NEW error \in ErrorCodes, NEW tr \in Logs, Abort(error, tr),
           submitted' \in Requests \cup {None}, chosen' \in Submissions \cup {None}
    PROVE  /\ DecisionOK'
           /\ primary' # None
           /\ pending' = None
           /\ phase' = "returned"
<1>1. PICK sinkOk \in BOOLEAN : Raise(error, AbortTrace(tr, error, sinkOk))
  BY DEF Abort
<1>2. AbortTrace(tr, error, sinkOk) \in Logs
  BY AbortTraceType
<1> QED
  BY <1>1, <1>2, RaiseType

LEMMA RaiseWithType ==
    ASSUME TypeOK, NEW error \in ErrorCodes, NEW tr \in Logs, NEW status \in Statuses,
           NEW code \in ErrorCodes \cup {None}, NEW selected \in Submissions \cup {None},
           RaiseWith(error, tr, status, code, selected),
           submitted' \in Requests \cup {None}, chosen' \in Submissions \cup {None}
    PROVE  /\ DecisionOK'
           /\ primary' # None
           /\ pending' = None
           /\ phase' = "returned"
<1>1. PICK sinkOk \in BOOLEAN :
          Raise(error, FinalizePending(tr, status, code, selected, sinkOk))
  BY DEF RaiseWith
<1>2. FinalizePending(tr, status, code, selected, sinkOk) \in Logs
  BY FinalizePendingType
<1> QED
  BY <1>1, <1>2, RaiseType

\* _submit up to the send, for a request p and a healthy log.
LEMMA SubmitType ==
    ASSUME TypeOK, phase = "reading", NEW p \in Requests, NEW tr \in Logs,
           tr.failure = None, Submit(p, tr)
    PROVE  DecisionOK' /\ pending' \in {p, None}
<1>0. p \in Payload /\ p # None
  BY PayloadAssumption DEF Requests
<1>1. CASE SubmitWait(p, tr)
  <2>1. PICK sinkOk \in BOOLEAN :
            Settle(FinalizePending(tr, "wait_noop", None, None, sinkOk))
    BY <1>1 DEF SubmitWait
  <2>2. "wait_noop" \in Statuses
    BY DEF Statuses, QuietStatuses
  <2>3. FinalizePending(tr, "wait_noop", None, None, sinkOk) \in Logs
    BY <2>2, FinalizePendingType
  <2>4. /\ submitted' \in Requests \cup {None}
        /\ pending' = None
        /\ chosen' \in Submissions \cup {None}
    BY <1>1 DEF SubmitWait, TypeOK
  <2> QED
    BY <2>1, <2>3, <2>4, SettleType
<1>2. CASE PolicyRaises(p, tr)
  <2>1. /\ submitted' \in Requests \cup {None}
        /\ chosen' \in Submissions \cup {None}
    BY <1>2 DEF PolicyRaises, TypeOK
  <2>2. PICK error \in PolicyErrors :
            \/ RaiseWith(error, tr, "policy_rejected", error, None)
            \/ Abort(error, tr)
    BY <1>2 DEF PolicyRaises
  <2>3. error \in ErrorCodes
    BY ErrorAssumption
  <2>4. "policy_rejected" \in Statuses
    BY DEF Statuses, StatusErrorCodes
  <2> QED
    BY <2>1, <2>2, <2>3, <2>4, RaiseWithType, AbortType
<1>3. CASE GateRejects(p, tr)
  <2>1. /\ submitted' \in Requests \cup {None}
        /\ chosen' \in Submissions \cup {None}
    BY <1>3 DEF GateRejects, TypeOK
  <2>2. PICK sub \in PolicyAnswers :
            RaiseWith("local_action_gate_rejection", tr, "action_gate_rejected",
                      "local_action_gate_rejection", sub)
    BY <1>3 DEF GateRejects
  <2>3. sub \in Submissions \cup {None} /\ "local_action_gate_rejection" \in ErrorCodes
    BY AnswerAssumption DEF ErrorCodes
  <2>4. "action_gate_rejected" \in Statuses
    BY DEF Statuses, StatusErrorCodes
  <2> QED
    BY <2>1, <2>2, <2>3, <2>4, RaiseWithType
<1>4. CASE StartSend(p, tr)
  <2>1. chosen' \in Submissions /\ chosen' # None
    BY <1>0, <1>4, SafeSubmissionsType, AnswerAssumption DEF StartSend
  <2> QED
    BY <1>0, <1>4, <2>1 DEF StartSend, TypeOK, DecisionOK
<1> QED
  BY <1>1, <1>2, <1>3, <1>4 DEF Submit

\* _retry_pending, for a request p, a state o and a healthy log.
LEMMA RetryPendingType ==
    ASSUME TypeOK, phase = "reading", NEW p \in Requests, NEW o \in ObservedStates,
           NEW tr \in Logs, tr.failure = None, NEW strict \in BOOLEAN,
           RetryPending(p, o, tr, strict)
    PROVE  DecisionOK' /\ pending' \in {p, None}
<1>1. CASE KeepPending(p, o, tr, strict)
  BY <1>1 DEF KeepPending, TypeOK, DecisionOK
<1>2. CASE RejectReconciliation(p, o, tr, strict)
  <2> DEFINE code == "request_state_reconciliation_mismatch"
  <2>1. RaiseWith(code, tr, "reconciliation_rejected", code, None)
    BY <1>2 DEF RejectReconciliation
  <2>2. /\ submitted' \in Requests \cup {None}
        /\ chosen' \in Submissions \cup {None}
    BY <1>2 DEF RejectReconciliation, TypeOK
  <2>3. code \in ErrorCodes /\ "reconciliation_rejected" \in Statuses
    BY DEF ErrorCodes, FreshnessCodes, Statuses, StatusErrorCodes
  <2> HIDE DEF code
  <2> QED
    BY <2>1, <2>2, <2>3, RaiseWithType
<1>3. CASE AcceptRequest(p, o, tr)
  BY <1>3, RefreshTraceType, SubmitType DEF AcceptRequest
<1> QED
  BY <1>1, <1>2, <1>3 DEF RetryPending

-----------------------------------------------------------------------------
\* Type correctness, action by action.
LEMMA EventType ==
    ASSUME TypeOK, NEW e \in Events, ProcessEvent(e)
    PROVE  TypeOK'
<1>0. e \in BattleEvents /\ Reduce(obs, e) \in ObservedStates
  BY EventAssumption, ReduceType DEF TypeOK
<1>1. CASE ObserveEvent(e)
  BY <1>0, <1>1 DEF ObserveEvent, TypeOK
<1>2. CASE RetryEvent(e)
  <2>1. RetryPending(pending, Reduce(obs, e), log, e.type \in {"start", "turn"})
    BY <1>2 DEF RetryEvent
  <2>2. pending \in Requests /\ log \in Logs /\ log.failure = None /\ phase = "reading"
    BY <1>2 DEF RetryEvent, TypeOK
  <2>3. DecisionOK'
    <3>1. (e.type \in {"start", "turn"}) \in BOOLEAN
      OBVIOUS
    <3> QED
      BY <1>0, <2>1, <2>2, <3>1, RetryPendingType
  <2> QED
    BY <1>0, <1>2, <2>3 DEF RetryEvent, TypeOK, DecisionOK
<1>3. CASE EndBattle(e)
  <2>1. PICK sinkOk \in BOOLEAN :
            LET tr == FinalizePending(log, "terminally_discarded", None, None, sinkOk)
            IN  log' = tr /\ primary' = FirstError(primary, tr.failure)
    BY <1>3 DEF EndBattle
  <2>2. "terminally_discarded" \in Statuses
    BY DEF Statuses, QuietStatuses
  <2>3. log' \in Logs
    BY <2>1, <2>2, FinalizePendingType DEF TypeOK
  <2>4. primary' \in ErrorCodes \cup {None}
    BY <2>1, <2>3, LogFailureType, FirstErrorType DEF TypeOK
  <2> QED
    BY <1>0, <1>3, <2>3, <2>4 DEF EndBattle, TypeOK
<1>4. CASE EventRefused(e)
  <2>1. "reducer_invariant_failure" \in ErrorCodes
    BY DEF ErrorCodes, AbortCodes
  <2>2. /\ submitted' \in Requests \cup {None}
        /\ chosen' \in Submissions \cup {None}
        /\ log \in Logs
    BY <1>4 DEF EventRefused, TypeOK
  <2>3. Abort("reducer_invariant_failure", log)
    BY <1>4 DEF EventRefused
  <2>4. DecisionOK'
    BY <2>1, <2>2, <2>3, AbortType
  <2> QED
    BY <1>4, <2>4 DEF EventRefused, TypeOK, DecisionOK
<1> QED
  BY <1>1, <1>2, <1>3, <1>4 DEF ProcessEvent

\* What _check_freshness lets through: a natural rqid above the latest one.
LEMMA FreshRequestFact ==
    ASSUME TypeOK, NEW p \in Payloads, FreshRequest(p)
    PROVE  /\ p \in Requests
           /\ latest # None => p.rqid > latest.rqid
<1>1. ReadError(p) = None
  BY DEF FreshRequest, RequestError
<1>2. p.rqid # None
  BY <1>1, ReadErrorType
<1>3. p.rqid \in Nat
  BY <1>2, PayloadAssumption DEF Payload
<1>4. latest # None => ~(p.rqid < latest.rqid) /\ p.rqid # latest.rqid
  <2>1. {"stale_rqid", "request_state_reconciliation_mismatch"} \subseteq ErrorCodes
    BY DEF ErrorCodes, FreshnessCodes
  <2>2. "stale_rqid" # None /\ "request_state_reconciliation_mismatch" # None
    BY <2>1, NoneAssumption
  <2> QED
    BY <1>1, <2>2 DEF FreshRequest, RequestError
<1> QED
  BY <1>3, <1>4 DEF Requests, TypeOK

LEMMA RequestType ==
    ASSUME TypeOK, NEW p \in Payloads, ProcessRequest(p)
    PROVE  TypeOK'
<1>1. CASE RefuseRequest(p)
  <2>1. RequestError(p) \in ErrorCodes
    <3>1. ReadError(p) \in ErrorCodes \cup {None}
      BY ReadErrorType
    <3>2. {"stale_rqid", "request_state_reconciliation_mismatch"} \subseteq ErrorCodes
      BY DEF ErrorCodes, FreshnessCodes
    <3>3. RequestError(p) # None
      BY <1>1 DEF RefuseRequest
    <3> QED
      BY <3>1, <3>2, <3>3 DEF RequestError
  <2>2. /\ submitted' \in Requests \cup {None}
        /\ chosen' \in Submissions \cup {None}
        /\ log \in Logs
    BY <1>1 DEF RefuseRequest, TypeOK
  <2>3. Abort(RequestError(p), log)
    BY <1>1 DEF RefuseRequest
  <2>4. DecisionOK'
    BY <2>1, <2>2, <2>3, AbortType
  <2> QED
    BY <1>1, <2>4 DEF RefuseRequest, TypeOK, DecisionOK
<1>2. CASE FreshRequest(p)
  <2> DEFINE Tr(sinkOk) ==
          FinalizePending(log, "superseded_before_selection", None, None, sinkOk)
  <2>1. p \in Requests
    BY <1>2, FreshRequestFact
  <2>2. PICK sinkOk \in BOOLEAN :
            \/ /\ Tr(sinkOk).failure = None
               /\ ~OpenRaises(Tr(sinkOk), p.rqid)
               /\ RetryPending(p, obs, OpenTrace(Tr(sinkOk), p.rqid, obs), FALSE)
            \/ /\ Abort("unclassified", Tr(sinkOk))
               /\ UNCHANGED <<submitted, chosen>>
            \/ /\ Tr(sinkOk).failure # None
               /\ Settle(Tr(sinkOk))
               /\ pending' = p
               /\ UNCHANGED <<submitted, chosen>>
    BY <1>2 DEF FreshRequest
  <2>3. "superseded_before_selection" \in Statuses
    BY DEF Statuses, QuietStatuses
  <2>4. Tr(sinkOk) \in Logs
    BY <2>3, FinalizePendingType DEF TypeOK
  <2>5. phase = "reading" /\ obs \in ObservedStates /\ p.rqid \in Nat
    BY <1>2, <2>1 DEF FreshRequest, TypeOK, Requests
  <2> HIDE DEF Tr
  <2>6. ASSUME Tr(sinkOk).failure = None, ~OpenRaises(Tr(sinkOk), p.rqid),
               RetryPending(p, obs, OpenTrace(Tr(sinkOk), p.rqid, obs), FALSE)
        PROVE  DecisionOK'
    <3>1. /\ OpenTrace(Tr(sinkOk), p.rqid, obs) \in Logs
          /\ OpenTrace(Tr(sinkOk), p.rqid, obs).failure = None
      BY <2>4, <2>5, <2>6, OpenTraceType
    <3> QED
      BY <2>1, <2>5, <2>6, <3>1, RetryPendingType
  <2>7. ASSUME Settle(Tr(sinkOk)), pending' = p, UNCHANGED <<submitted, chosen>>
        PROVE  DecisionOK'
    <3>1. /\ submitted' \in Requests \cup {None}
          /\ chosen' \in Submissions \cup {None}
      BY <2>7 DEF TypeOK
    <3> QED
      BY <2>1, <2>4, <2>5, <2>7, <3>1, SettleType
  <2>9. ASSUME Abort("unclassified", Tr(sinkOk)), UNCHANGED <<submitted, chosen>>
        PROVE  DecisionOK'
    <3>1. /\ submitted' \in Requests \cup {None}
          /\ chosen' \in Submissions \cup {None}
      BY <2>9 DEF TypeOK
    <3>2. "unclassified" \in ErrorCodes
      BY DEF ErrorCodes
    <3> QED
      BY <2>4, <2>9, <3>1, <3>2, AbortType
  <2>8. DecisionOK'
    BY <2>2, <2>6, <2>7, <2>9
  <2> QED
    BY <1>2, <2>1, <2>8 DEF FreshRequest, TypeOK, DecisionOK
<1> QED
  BY <1>1, <1>2 DEF ProcessRequest

LEMMA SendType ==
    ASSUME TypeOK, SendReturns \/ \E error \in SendErrors : SendRaises(error)
    PROVE  TypeOK'
<1>1. pending \in Requests /\ chosen \in Submissions
  BY DEF SendReturns, SendRaises, TypeOK
<1>2. Command(pending, chosen) \in Commands
  BY <1>1 DEF Command, Commands, Requests, Submissions, ActionKinds
<1>3. Append(wire, Command(pending, chosen)) \in Seq(Commands)
  BY <1>2 DEF TypeOK
<1>4. CASE SendReturns
  <2>1. PICK sinkOk \in BOOLEAN :
            Settle(FinalizePending(log, "submitted", None, chosen, sinkOk))
    BY <1>4 DEF SendReturns
  <2>2. "submitted" \in Statuses
    BY DEF Statuses, QuietStatuses
  <2>3. FinalizePending(log, "submitted", None, chosen, sinkOk) \in Logs
    BY <1>1, <2>2, FinalizePendingType DEF TypeOK
  <2>4. /\ submitted' \in Requests \cup {None}
        /\ pending' \in Requests \cup {None}
        /\ chosen' \in Submissions \cup {None}
        /\ phase \in {"reading", "sending"}
    BY <1>1, <1>4 DEF SendReturns
  <2>5. DecisionOK'
    BY <2>1, <2>3, <2>4, SettleType
  <2>6. explicit' \in Nat /\ defaulted' \in Nat
    BY <1>4 DEF SendReturns, TypeOK
  <2> QED
    BY <1>3, <1>4, <2>5, <2>6 DEF SendReturns, TypeOK, DecisionOK
<1>5. ASSUME NEW error \in SendErrors, SendRaises(error)
      PROVE  TypeOK'
  <2>1. error \in ErrorCodes
    BY ErrorAssumption
  <2>2. SendRecordCode(error) \in ErrorCodes /\ "send_failed" \in Statuses
    BY <2>1 DEF SendRecordCode, ErrorCodes, Statuses, StatusErrorCodes
  <2>3. /\ submitted' \in Requests \cup {None}
        /\ chosen' \in Submissions \cup {None}
        /\ log \in Logs
    BY <1>5 DEF SendRaises, TypeOK
  <2>4. RaiseWith(error, log, "send_failed", SendRecordCode(error), chosen)
    BY <1>5 DEF SendRaises
  <2>5. DecisionOK'
    BY <1>1, <2>1, <2>2, <2>3, <2>4, RaiseWithType
  <2>6. wire' \in Seq(Commands)
    BY <1>3, <1>5 DEF SendRaises, MayHaveLeft, TypeOK
  <2> QED
    BY <1>5, <2>5, <2>6 DEF SendRaises, TypeOK, DecisionOK
<1> QED
  BY <1>4, <1>5

LEMMA EndType ==
    ASSUME TypeOK, Cancel \/ StreamEnds \/ \E error \in LineErrors : LineRaises(error)
    PROVE  TypeOK'
<1>1. CASE Cancel
  <2>1. ASSUME phase = "sending"
        PROVE  Append(wire, Command(pending, chosen)) \in Seq(Commands)
    <3>1. pending \in Requests /\ chosen \in Submissions
      BY <2>1 DEF TypeOK
    <3>2. Command(pending, chosen) \in Commands
      BY <3>1 DEF Command, Commands, Requests, Submissions, ActionKinds
    <3> QED
      BY <3>2 DEF TypeOK
  <2>2. wire' \in Seq(Commands)
    BY <1>1, <2>1 DEF Cancel, MayHaveLeft, TypeOK
  <2> QED
    BY <1>1, <2>2 DEF Cancel, TypeOK
<1>2. CASE StreamEnds
  BY <1>2 DEF StreamEnds, TypeOK
<1>3. ASSUME NEW error \in LineErrors, LineRaises(error)
      PROVE  TypeOK'
  <2>1. error \in ErrorCodes
    BY ErrorAssumption
  <2>2. /\ submitted' \in Requests \cup {None}
        /\ chosen' \in Submissions \cup {None}
        /\ log \in Logs
    BY <1>3 DEF LineRaises, TypeOK
  <2>3. DecisionOK'
    BY <1>3, <2>1, <2>2, AbortType DEF LineRaises
  <2> QED
    BY <1>3, <2>3 DEF LineRaises, TypeOK, DecisionOK
<1> QED
  BY <1>1, <1>2, <1>3

\* Every step keeps the variables well typed.
LEMMA StepType == TypeOK /\ [Next]_vars => TypeOK'
<1> SUFFICES ASSUME TypeOK, [Next]_vars
             PROVE  TypeOK'
  OBVIOUS
<1>1. CASE UNCHANGED vars
  BY <1>1 DEF vars, TypeOK
<1>2. CASE Next
  BY <1>2, EventType, RequestType, SendType, EndType DEF Next
<1> QED
  BY <1>1, <1>2

LEMMA InitType == Init => TypeOK
<1> SUFFICES ASSUME Init PROVE TypeOK
  OBVIOUS
<1>1. EmptyLog \in Logs
  BY DEF EmptyLog, Logs
<1>2. wire \in Seq(Commands)
  BY DEF Init
<1> QED
  BY <1>1, <1>2, StartAssumption DEF Init, TypeOK, EmptyLog

(***************************************************************************)
(* Whatever the lines, the policy, the sink and the connection do, the     *)
(* session's attributes keep their types, a request is in flight exactly   *)
(* while send_room is awaited, and a running session carries no error.     *)
(***************************************************************************)
THEOREM TypeCorrect == Spec => []TypeOK
  BY InitType, StepType, PTL DEF Spec

-----------------------------------------------------------------------------
(***************************************************************************)
(* A battle session answers every request at most once, and it implements  *)
(* the decision exchange: for every vocabulary of lines, every policy,     *)
(* every sink and every way send_room may end.                             *)
(***************************************************************************)

(***************************************************************************)
(* All the exchange can see of a step: it withdraws or keeps the pending   *)
(* request, or takes up a fresh one, or ends a send.                       *)
(***************************************************************************)
Quiet ==
    /\ wire' = wire /\ latest' = latest
    /\ pending' \in {pending, None}

TakesUp(p) ==
    /\ p \in Requests
    /\ latest # None => p.rqid > latest.rqid
    /\ latest' = p
    /\ pending' \in {p, None}
    /\ wire' = wire

Sent ==
    /\ phase = "sending"
    /\ latest' = latest
    /\ wire' \in {wire, Append(wire, Command(pending, chosen))}
    /\ pending' = None \/ (pending' = pending /\ ~Running')

LEMMA EventShape ==
    ASSUME TypeOK, NEW e \in Events, ProcessEvent(e)
    PROVE  Running /\ Quiet
<1>1. CASE ObserveEvent(e)
  BY <1>1 DEF ObserveEvent, Running, Quiet
<1>2. CASE RetryEvent(e)
  <2>1. RetryPending(pending, Reduce(obs, e), log, e.type \in {"start", "turn"})
    BY <1>2 DEF RetryEvent
  <2>2. pending \in Requests /\ log \in Logs /\ log.failure = None /\ phase = "reading"
    BY <1>2 DEF RetryEvent, TypeOK
  <2>3. Reduce(obs, e) \in ObservedStates
    BY EventAssumption, ReduceType DEF TypeOK
  <2>4. (e.type \in {"start", "turn"}) \in BOOLEAN
    OBVIOUS
  <2>5. pending' \in {pending, None}
    BY <2>1, <2>2, <2>3, <2>4, RetryPendingType
  <2> QED
    BY <1>2, <2>5 DEF RetryEvent, Running, Quiet
<1>3. CASE EndBattle(e)
  BY <1>3 DEF EndBattle, Running, Quiet
<1>4. CASE EventRefused(e)
  BY <1>4 DEF EventRefused, Abort, Raise, Running, Quiet
<1> QED
  BY <1>1, <1>2, <1>3, <1>4 DEF ProcessEvent

LEMMA FreshShape ==
    ASSUME TypeOK, NEW p \in Payloads, FreshRequest(p)
    PROVE  Running /\ TakesUp(p)
<1> DEFINE Tr(sinkOk) ==
        FinalizePending(log, "superseded_before_selection", None, None, sinkOk)
<1>1. p \in Requests /\ (latest # None => p.rqid > latest.rqid)
  BY FreshRequestFact
<1>2. PICK sinkOk \in BOOLEAN :
          \/ /\ Tr(sinkOk).failure = None
             /\ ~OpenRaises(Tr(sinkOk), p.rqid)
             /\ RetryPending(p, obs, OpenTrace(Tr(sinkOk), p.rqid, obs), FALSE)
          \/ pending' \in {p, None}
  BY DEF FreshRequest, Abort, Raise
<1>3. "superseded_before_selection" \in Statuses
  BY DEF Statuses, QuietStatuses
<1>4. Tr(sinkOk) \in Logs
  BY <1>3, FinalizePendingType DEF TypeOK
<1>5. phase = "reading" /\ obs \in ObservedStates /\ p.rqid \in Nat
  BY <1>1 DEF FreshRequest, TypeOK, Requests
<1> HIDE DEF Tr
<1>6. ASSUME Tr(sinkOk).failure = None, ~OpenRaises(Tr(sinkOk), p.rqid),
             RetryPending(p, obs, OpenTrace(Tr(sinkOk), p.rqid, obs), FALSE)
      PROVE  pending' \in {p, None}
  <2>1. /\ OpenTrace(Tr(sinkOk), p.rqid, obs) \in Logs
        /\ OpenTrace(Tr(sinkOk), p.rqid, obs).failure = None
    BY <1>4, <1>5, <1>6, OpenTraceType
  <2> QED
    BY <1>1, <1>5, <1>6, <2>1, RetryPendingType
<1>7. pending' \in {p, None}
  BY <1>2, <1>6
<1> QED
  BY <1>1, <1>7 DEF FreshRequest, Running, TakesUp

LEMMA StepShape ==
    ASSUME TypeOK, Next
    PROVE  Running /\ (Quiet \/ Sent \/ \E p \in Requests : TakesUp(p))
<1>1. CASE \E e \in Events : ProcessEvent(e)
  BY <1>1, EventShape
<1>2. ASSUME NEW p \in Payloads, RefuseRequest(p)
      PROVE  Running /\ Quiet
  BY <1>2 DEF RefuseRequest, Abort, Raise, Running, Quiet
<1>3. ASSUME NEW p \in Payloads, FreshRequest(p)
      PROVE  Running /\ \E q \in Requests : TakesUp(q)
  BY <1>3, FreshShape DEF TakesUp
<1>4. CASE \E error \in LineErrors : LineRaises(error)
  BY <1>4 DEF LineRaises, Abort, Raise, Running, Quiet
<1>5. CASE \E error \in SendErrors : SendRaises(error)
  BY <1>5 DEF SendRaises, MayHaveLeft, RaiseWith, Raise, Running, Sent
<1>6. CASE SendReturns
  BY <1>6 DEF SendReturns, Running, Sent
<1>7. CASE StreamEnds
  BY <1>7 DEF StreamEnds, Running, Quiet
<1>8. CASE Cancel
  BY <1>8 DEF Cancel, MayHaveLeft, Running, Quiet, Sent
<1> QED
  BY <1>1, <1>2, <1>3, <1>4, <1>5, <1>6, <1>7, <1>8 DEF Next, ProcessRequest

-----------------------------------------------------------------------------
LEMMA AnswersStep ==
    TypeOK /\ AnswersFollowRequests /\ [Next]_vars => AnswersFollowRequests'
<1> SUFFICES ASSUME TypeOK, AnswersFollowRequests, [Next]_vars
             PROVE  AnswersFollowRequests'
  OBVIOUS
<1>0. wire \in Seq(Commands) /\ \A i \in 1..Len(wire) : wire[i].rqid \in Nat
  <2>1. wire \in Seq(Commands)
    BY DEF TypeOK
  <2>2. \A i \in 1..Len(wire) : wire[i] \in Commands
    BY <2>1
  <2>3. \A c \in Commands : c.rqid \in Nat
    BY DEF Commands
  <2> QED
    BY <2>1, <2>2, <2>3
<1>1. CASE UNCHANGED vars
  BY <1>1 DEF vars, AnswersFollowRequests, OneCommandPerRequest, Running
<1>2. CASE Running /\ Quiet
  BY <1>2 DEF Quiet, AnswersFollowRequests, OneCommandPerRequest, Running
<1>3. ASSUME NEW p \in Requests, TakesUp(p)
      PROVE  AnswersFollowRequests'
  <2>1. p.rqid \in Nat /\ (latest # None => latest.rqid \in Nat)
    BY DEF TypeOK, Requests
  <2>2. \A i \in 1..Len(wire) : wire[i].rqid < p.rqid
    BY <1>0, <1>3, <2>1 DEF TakesUp, AnswersFollowRequests
  <2>3. p # None
    BY PayloadAssumption DEF Requests
  <2> QED
    BY <1>0, <1>3, <2>1, <2>2, <2>3
       DEF TakesUp, AnswersFollowRequests, OneCommandPerRequest, Running
<1>4. CASE Sent
  <2> DEFINE c == Command(pending, chosen)
  <2>1. pending \in Requests /\ pending = latest /\ pending # None
    BY <1>4 DEF Sent, TypeOK, AnswersFollowRequests
  <2>2. c.rqid = latest.rqid /\ latest.rqid \in Nat /\ latest # None
    BY <2>1 DEF Command, Requests
  <2>3. \A i \in 1..Len(wire) : wire[i].rqid < latest.rqid
    BY <1>4, <2>1 DEF Sent, AnswersFollowRequests, Running
  <2> HIDE DEF c
  <2>4. CASE wire' = wire
    BY <1>4, <2>1, <2>4 DEF Sent, AnswersFollowRequests, OneCommandPerRequest, Running
  <2>5. CASE wire' = Append(wire, c)
    <3>1. /\ Len(wire') = Len(wire) + 1 /\ Len(wire) \in Nat
          /\ \A i \in 1..Len(wire) : wire'[i] = wire[i]
          /\ wire'[Len(wire) + 1] = c
      BY <1>0, <2>5
    <3>2. \A i \in 1..Len(wire') : i \in 1..Len(wire) \/ i = Len(wire) + 1
      BY <3>1
    <3>3. \A i \in 1..Len(wire') : wire'[i].rqid <= latest.rqid
      BY <1>0, <2>2, <2>3, <3>1, <3>2
    <3>4. \A i, j \in 1..Len(wire') : i < j => wire'[i].rqid < wire'[j].rqid
      <4> SUFFICES ASSUME NEW i \in 1..Len(wire'), NEW j \in 1..Len(wire'), i < j
                   PROVE  wire'[i].rqid < wire'[j].rqid
        OBVIOUS
      <4>1. i \in 1..Len(wire)
        BY <3>1
      <4>2. CASE j \in 1..Len(wire)
        BY <3>1, <4>1, <4>2 DEF AnswersFollowRequests, OneCommandPerRequest
      <4>3. CASE j = Len(wire) + 1
        BY <2>2, <2>3, <3>1, <4>1, <4>3
      <4> QED
        BY <3>2, <4>2, <4>3
    <3>5. latest' = latest /\ (pending' # None => ~Running' /\ pending' = latest')
      BY <1>4, <2>1 DEF Sent
    <3> QED
      BY <2>2, <3>3, <3>4, <3>5 DEF AnswersFollowRequests, OneCommandPerRequest
  <2> QED
    BY <1>4, <2>4, <2>5 DEF Sent, c
<1> QED
  BY <1>1, <1>2, <1>3, <1>4, StepShape

(***************************************************************************)
(* The commands that reach the server answer strictly increasing request   *)
(* ids: no request is ever answered twice (_check_freshness, _submit).     *)
(***************************************************************************)
THEOREM AnsweredAtMostOnce == Spec => []OneCommandPerRequest
<1>1. Init => AnswersFollowRequests
  BY DEF Init, AnswersFollowRequests, OneCommandPerRequest
<1>2. AnswersFollowRequests => OneCommandPerRequest
  BY DEF AnswersFollowRequests
<1> QED
  BY <1>1, <1>2, AnswersStep, TypeCorrect, PTL DEF Spec

-----------------------------------------------------------------------------
\* The exchange's view of the commands grows with them.
LEMMA AnsweredAppend ==
    ASSUME NEW w \in Seq(Commands), NEW c \in Commands
    PROVE  [i \in 1..Len(Append(w, c)) |-> Append(w, c)[i].rqid]
             = Append([i \in 1..Len(w) |-> w[i].rqid], c.rqid)
<1> DEFINE a == [i \in 1..Len(w) |-> w[i].rqid]
           b == [i \in 1..Len(Append(w, c)) |-> Append(w, c)[i].rqid]
<1>1. \A i \in 1..Len(w) : w[i] \in Commands
  OBVIOUS
<1>2. \A d \in Commands : d.rqid \in Nat
  BY DEF Commands
<1>3. Len(w) \in Nat /\ a \in [1..Len(w) -> Nat]
  BY <1>1, <1>2
<1>4. a \in Seq(Nat) /\ Len(a) = Len(w)
  BY <1>3, IsASeq, LenProperties
<1>5. /\ Len(Append(w, c)) = Len(w) + 1
      /\ \A i \in 1..Len(w) : Append(w, c)[i] = w[i]
      /\ Append(w, c)[Len(w) + 1] = c
  OBVIOUS
<1>6. c.rqid \in Nat
  BY <1>2
<1>7. /\ Append(a, c.rqid) \in Seq(Nat)
      /\ Len(Append(a, c.rqid)) = Len(w) + 1
      /\ \A i \in 1..Len(w) : Append(a, c.rqid)[i] = w[i].rqid
      /\ Append(a, c.rqid)[Len(w) + 1] = c.rqid
  BY <1>4, <1>6, AppendProperties
<1>8. \A i \in 1..(Len(w) + 1) : i \in 1..Len(w) \/ i = Len(w) + 1
  BY <1>3
<1>9. \A i \in 1..(Len(w) + 1) : b[i] = Append(a, c.rqid)[i] /\ b[i] \in Nat
  BY <1>1, <1>2, <1>5, <1>7, <1>8
<1>10. b \in Seq(Nat) /\ Len(b) = Len(w) + 1
  <2>1. b \in [1..(Len(w) + 1) -> Nat]
    BY <1>5, <1>9
  <2> QED
    BY <1>3, <2>1, IsASeq, LenProperties
<1> HIDE DEF a, b
<1>11. b = Append(a, c.rqid)
  BY <1>7, <1>9, <1>10, SeqEqual
<1> QED
  BY <1>11 DEF a, b

\* Every step of the session is a step of the exchange or a stutter.
LEMMA ExchangeStep ==
    TypeOK /\ TypeOK' /\ [Next]_vars => [Exchange!Next]_(Exchange!vars)
<1> SUFFICES ASSUME TypeOK, TypeOK', [Next]_vars
             PROVE  Exchange!Next \/ UNCHANGED Exchange!vars
  OBVIOUS
<1>1. CASE UNCHANGED vars
  BY <1>1 DEF vars, Exchange!vars, Running, RqidOf
<1>2. CASE Running /\ Quiet
  <2>1. CASE Running' /\ pending' = pending
    BY <1>2, <2>1 DEF Quiet, Exchange!vars
  <2>2. CASE ~Running' \/ pending' = None
    BY <1>2, <2>2 DEF Quiet, RqidOf, Running, Exchange!Next, Exchange!Withdraw, Exchange!MayStop
  <2> QED
    BY <1>2, <2>1, <2>2 DEF Quiet
<1>3. ASSUME Running, NEW p \in Requests, TakesUp(p)
      PROVE  Exchange!Next
  <2>1. p # None /\ p.rqid \in Nat
    BY PayloadAssumption DEF Requests
  <2>2. /\ RqidOf(latest') = p.rqid
        /\ RqidOf(latest) = None \/ p.rqid > RqidOf(latest)
        /\ RqidOf(pending') \in {p.rqid, None}
    BY <1>3, <2>1 DEF TakesUp, RqidOf
  <2>3. Exchange!Announce
    BY <1>3, <2>1, <2>2 DEF TakesUp, Running, Exchange!Announce, Exchange!MayStop
  <2> QED
    BY <2>3 DEF Exchange!Next
<1>4. ASSUME Running, Sent
      PROVE  Exchange!Next
  <2>1. pending \in Requests /\ chosen \in Submissions /\ wire \in Seq(Commands)
    BY <1>4 DEF Sent, TypeOK
  <2>2. pending # None /\ pending.rqid \in Nat
    BY <2>1, PayloadAssumption DEF Requests
  <2>3. Command(pending, chosen) \in Commands /\ Command(pending, chosen).rqid = pending.rqid
    BY <2>1, <2>2 DEF Command, Commands, Submissions, ActionKinds
  <2>4. pending.rqid # None
    BY <2>2, NoneAssumption
  <2>5. CASE wire' = wire
    BY <1>4, <2>5 DEF Sent, RqidOf, Running, Exchange!Next, Exchange!Withdraw, Exchange!MayStop
  <2>6. CASE wire' = Append(wire, Command(pending, chosen))
    <3>1. [i \in 1..Len(wire') |-> wire'[i].rqid]
            = Append([i \in 1..Len(wire) |-> wire[i].rqid], pending.rqid)
      BY <2>1, <2>3, <2>6, AnsweredAppend
    <3>2. Exchange!Answer
      BY <1>4, <2>2, <2>4, <3>1
         DEF Sent, RqidOf, Running, Exchange!Answer, Exchange!MayStop
    <3> QED
      BY <3>2 DEF Exchange!Next
  <2> QED
    BY <1>4, <2>5, <2>6 DEF Sent
<1> QED
  BY <1>1, <1>2, <1>3, <1>4, StepShape

(***************************************************************************)
(* The session implements the decision exchange: the server never sees an  *)
(* answer to a superseded request, a second answer, or an answer of a      *)
(* session that has returned or was cancelled.                             *)
(***************************************************************************)
THEOREM SessionImplementsExchange == Spec => ImplementsExchange
<1>1. Init => Exchange!Init
  BY DEF Init, Exchange!Init, RqidOf, Running
<1> QED
  BY <1>1, ExchangeStep, TypeCorrect, PTL DEF Spec, ImplementsExchange, Exchange!Spec
=============================================================================
