---------------------------- MODULE BattleSession ----------------------------
(***************************************************************************)
(* BattleSession: one room of a Showdown server, read line by line.  The   *)
(* session folds battle events into the public state, answers each fresh   *)
(* request at most once, and closes a decision record for every request it *)
(* opened one for.                                                         *)
(*                                                                         *)
(* Handlers run without interruption up to `await send_room`, so a line is *)
(* one action, and a decision that reaches the wire is two: the handler up *)
(* to the send (phase "sending"), and the way the send ends.  Lines of     *)
(* other rooms, chat and display-only events change nothing modelled here. *)
(***************************************************************************)
EXTENDS RequestReconciler, DecisionTrace

CONSTANTS
    StartStates,   \* the initial_state the session may be given
    Events,        \* battle events the server may send
    Payloads,      \* payloads of |request| lines the server may send
    LineErrors,    \* codes of errors raised by a line or by the stream
    PolicyErrors,  \* codes of errors the injected policy may raise
    PolicyAnswers, \* what an injected policy may return; {} for the heuristic
    SendErrors     \* codes of errors raised by send_room

ASSUME StartAssumption == StartStates \subseteq ObservedStates
ASSUME EventAssumption == Events \subseteq BattleEvents
ASSUME PayloadAssumption == Payloads \subseteq Payload /\ None \notin Payloads
ASSUME ErrorAssumption ==
    LineErrors \cup PolicyErrors \cup SendErrors \subseteq ErrorCodes \ TraceFailures
ASSUME AnswerAssumption ==
    PolicyAnswers \subseteq Submissions \cup {None} /\ None \notin Submissions

VARIABLES
    phase,     \* "reading", "sending", "returned" or "cancelled"
    obs,       \* _state
    pending,   \* _pending_request
    latest,    \* _latest_request
    submitted, \* _submitted_request
    chosen,    \* the authorized submission while it is being sent
    log,       \* _pending_trace, _next_decision_index, the trace errors, the sink
    primary,   \* _primary_error
    done,      \* _done
    explicit,  \* _explicit_request_submissions
    defaulted, \* _default_submissions
    wire       \* the commands that reached the server, in order

vars == <<phase, obs, pending, latest, submitted, chosen, log, primary, done,
          explicit, defaulted, wire>>

Init ==
    /\ phase = "reading"
    /\ obs \in StartStates
    /\ pending = None
    /\ latest = None
    /\ submitted = None
    /\ chosen = None
    /\ log = EmptyLog
    /\ primary = None
    /\ done = FALSE
    /\ explicit = 0
    /\ defaulted = 0
    /\ wire = << >>

-----------------------------------------------------------------------------
RqidOf(p) == IF p = None THEN None ELSE p.rqid

\* Mutant: the last error wins.
LastError(earlier, error) == IF error = None THEN earlier ELSE error

\* "if self._primary_error is None: self._primary_error = error"
FirstError(earlier, error) == IF earlier = None THEN error ELSE earlier

\* Mutant: a trace failure does not set _done.
SettleAndReadOn(tr) ==
    /\ log' = tr
    /\ primary' = FirstError(primary, tr.failure)
    /\ done' = FALSE
    /\ phase' = "reading"

\* A handler ends without raising; a trace failure on its way ends the session.
\* tr is the log it leaves.
Settle(tr) ==
    /\ log' = tr
    /\ primary' = FirstError(primary, tr.failure)
    /\ done' = (tr.failure # None)
    /\ phase' = IF tr.failure # None THEN "returned" ELSE "reading"

\* A handler raises: its error is noted before the record that tr closed, then
\* _abort (whose own finalization finds no open trace) and run returns.
Raise(error, tr) ==
    /\ log' = tr
    /\ primary' = FirstError(FirstError(primary, error), tr.failure)
    /\ pending' = None
    /\ done' = TRUE
    /\ phase' = "returned"

\* _abort for an error raised before anything was finalized.
Abort(error, tr) == \E sinkOk \in BOOLEAN : Raise(error, AbortTrace(tr, error, sinkOk))

\* An error with a disposition of its own: finalize, then raise.
RaiseWith(error, tr, status, code, selected) ==
    \E sinkOk \in BOOLEAN :
        Raise(error, FinalizePending(tr, status, code, selected, sinkOk))

-----------------------------------------------------------------------------
(***************************************************************************)
(* _submit up to the send.  The injected policy is arbitrary code: it may  *)
(* raise, return a submission that is not in the safe set, or return None. *)
(***************************************************************************)
SubmitWait(p, tr) ==
    /\ RequestKind(p) = "wait"
    /\ submitted' = p
    /\ pending' = None
    /\ \E sinkOk \in BOOLEAN : Settle(FinalizePending(tr, "wait_noop", None, None, sinkOk))
    /\ UNCHANGED chosen

PolicyRaises(p, tr) ==
    /\ RequestKind(p) # "wait"
    /\ \E error \in PolicyErrors :
          IF error = "no_legal_action_available"
          THEN RaiseWith(error, tr, "policy_rejected", error, None)
          ELSE Abort(error, tr)
    /\ UNCHANGED <<submitted, chosen>>

PolicySelects(p, sub) ==
    /\ RequestKind(p) # "wait"
    /\ IF PolicyAnswers = {} THEN sub = HeuristicChoice(p) ELSE sub \in PolicyAnswers

GateRejects(p, tr) ==
    /\ \E sub \in PolicyAnswers :
          /\ PolicySelects(p, sub)
          /\ ~Authorized(p, sub)
          /\ RaiseWith("local_action_gate_rejection", tr, "action_gate_rejected",
                       "local_action_gate_rejection", sub)
    /\ UNCHANGED <<submitted, chosen>>

\* The session is now suspended in send_room.
StartSend(p, tr) ==
    /\ \E sub \in SafeSubmissions(p) :
          /\ PolicySelects(p, sub)
          /\ Authorized(p, sub)
          /\ chosen' = sub
    /\ pending' = p
    /\ log' = tr
    /\ phase' = "sending"
    /\ UNCHANGED <<submitted, primary, done>>

Submit(p, tr) == SubmitWait(p, tr) \/ PolicyRaises(p, tr) \/ GateRejects(p, tr) \/ StartSend(p, tr)

-----------------------------------------------------------------------------
(***************************************************************************)
(* _retry_pending for the request p, the state o and the log tr.  An       *)
(* undecided request is kept, unless the caller is strict, or the battle   *)
(* has started and more than the active pokemon is unknown.                *)
(***************************************************************************)
SubmittedRqid == RqidOf(submitted)

Overdue(verdict, o, strict) ==
    /\ verdict \in {"pending", "pending_active"}
    /\ strict \/ (o.battle_started /\ verdict # "pending_active")

KeepPending(p, o, tr, strict) ==
    LET verdict == Reconcile(p, o, SubmittedRqid)
    IN  /\ verdict \in {"pending", "pending_active"}
        /\ ~Overdue(verdict, o, strict)
        /\ pending' = p
        /\ log' = tr
        /\ phase' = "reading"
        /\ UNCHANGED <<submitted, chosen, primary, done>>

RejectReconciliation(p, o, tr, strict) ==
    LET verdict == Reconcile(p, o, SubmittedRqid)
        code == "request_state_reconciliation_mismatch"
    IN  /\ verdict = "reject" \/ Overdue(verdict, o, strict)
        /\ RaiseWith(code, tr, "reconciliation_rejected", code, None)
        /\ UNCHANGED <<submitted, chosen>>

\* Mutant: a request is answered before the active pokemon is known.
AcceptRequestEarly(p, o, tr) ==
    /\ Reconcile(p, o, SubmittedRqid) \in {"accept", "pending_active"}
    /\ Submit(p, RefreshTrace(tr, o))

AcceptRequest(p, o, tr) ==
    /\ Reconcile(p, o, SubmittedRqid) = "accept"
    /\ Submit(p, RefreshTrace(tr, o))

RetryPending(p, o, tr, strict) ==
    \/ KeepPending(p, o, tr, strict)
    \/ RejectReconciliation(p, o, tr, strict)
    \/ AcceptRequest(p, o, tr)

-----------------------------------------------------------------------------
\* Mutant: _RETRY_EVENTS without TierDeclared.
RetryTypesNoTier == {"player", "switch", "start", "turn", "generation", "game_type"}

\* _RETRY_EVENTS and turns; a team size, a replaced identity or an action of the
\* active pokemon does not retry the pending request.
RetryTypes == {"player", "switch", "start", "turn"} \cup Metadata

\* A battle event after which the pending request is not looked at again.
ObserveEvent(e) ==
    /\ phase = "reading"
    /\ e.type # "over"
    /\ ~Refused(obs, e)
    /\ e.type \notin RetryTypes \/ pending = None
    /\ obs' = Reduce(obs, e)
    /\ UNCHANGED <<phase, pending, latest, submitted, chosen, log, primary, done,
                   explicit, defaulted, wire>>

\* A battle event that retries the pending request.
RetryEvent(e) ==
    /\ phase = "reading"
    /\ pending # None
    /\ e.type \in RetryTypes
    /\ obs' = Reduce(obs, e)
    /\ RetryPending(pending, Reduce(obs, e), log, e.type \in {"start", "turn"})
    /\ UNCHANGED <<latest, explicit, defaulted, wire>>

\* |win| and |tie|
EndBattle(e) ==
    /\ phase = "reading"
    /\ e.type = "over"
    /\ obs' = Reduce(obs, e)
    /\ pending' = None
    /\ \E sinkOk \in BOOLEAN :
          LET tr == FinalizePending(log, "terminally_discarded", None, None, sinkOk)
          IN  /\ log' = tr
              /\ primary' = FirstError(primary, tr.failure)
    /\ done' = TRUE
    /\ phase' = "returned"
    /\ UNCHANGED <<latest, submitted, chosen, explicit, defaulted, wire>>

\* The reducer refuses an event: ReducerInvariantFailure.
EventRefused(e) ==
    /\ phase = "reading"
    /\ Refused(obs, e)
    /\ Abort("reducer_invariant_failure", log)
    /\ UNCHANGED <<obs, latest, submitted, chosen, explicit, defaulted, wire>>

-----------------------------------------------------------------------------
\* Mutant: a changed request with the latest rqid passes for a fresh one.
RequestErrorSameRqid(p) ==
    IF ReadError(p) # None THEN ReadError(p)
    ELSE IF latest # None /\ p.rqid < RqidOf(latest) THEN "stale_rqid"
    ELSE None

\* read_request raises, or _check_freshness does.
RequestError(p) ==
    IF ReadError(p) # None THEN ReadError(p)
    ELSE IF latest = None THEN None
    ELSE IF p.rqid < latest.rqid THEN "stale_rqid"
    ELSE IF p.rqid = latest.rqid /\ p # latest THEN "request_state_reconciliation_mismatch"
    ELSE None

RefuseRequest(p) ==
    /\ phase = "reading"
    /\ RequestError(p) # None
    /\ Abort(RequestError(p), log)
    /\ UNCHANGED <<obs, latest, submitted, chosen, explicit, defaulted, wire>>

\* A fresh request supersedes the pending one, whose record may end the session,
\* as may the opening of its own; a repetition of the latest one is ignored,
\* which is a step that changes nothing.
FreshRequest(p) ==
    /\ phase = "reading"
    /\ RequestError(p) = None
    /\ p # latest
    /\ latest' = p
    /\ \E sinkOk \in BOOLEAN :
          LET tr == FinalizePending(log, "superseded_before_selection", None, None, sinkOk)
          IN  \/ /\ tr.failure = None
                 /\ ~OpenRaises(tr, p.rqid)
                 /\ RetryPending(p, obs, OpenTrace(tr, p.rqid, obs), FALSE)
              \/ /\ OpenRaises(tr, p.rqid)
                 /\ Abort("unclassified", tr)
                 /\ UNCHANGED <<submitted, chosen>>
              \/ /\ tr.failure # None
                 /\ Settle(tr)
                 /\ pending' = p
                 /\ UNCHANGED <<submitted, chosen>>
    /\ UNCHANGED <<obs, explicit, defaulted, wire>>

-----------------------------------------------------------------------------
\* Mutant: the request stays pending after it was sent.
SendReturnsStillPending ==
    /\ phase = "sending"
    /\ wire' = Append(wire, Command(pending, chosen))
    /\ explicit' = explicit + (IF Provenance(chosen) = "explicit_request" THEN 1 ELSE 0)
    /\ defaulted' = defaulted + (IF Provenance(chosen) = "server_default" THEN 1 ELSE 0)
    /\ submitted' = pending
    /\ chosen' = None
    /\ \E sinkOk \in BOOLEAN : Settle(FinalizePending(log, "submitted", None, chosen, sinkOk))
    /\ UNCHANGED <<obs, latest, pending>>

\* send_room returned: count, mark the request submitted, record it.
SendReturns ==
    /\ phase = "sending"
    /\ wire' = Append(wire, Command(pending, chosen))
    /\ explicit' = explicit + (IF Provenance(chosen) = "explicit_request" THEN 1 ELSE 0)
    /\ defaulted' = defaulted + (IF Provenance(chosen) = "server_default" THEN 1 ELSE 0)
    /\ submitted' = pending
    /\ pending' = None
    /\ chosen' = None
    /\ \E sinkOk \in BOOLEAN : Settle(FinalizePending(log, "submitted", None, chosen, sinkOk))
    /\ UNCHANGED <<obs, latest>>

\* The command may have left although send_room did not return normally.
MayHaveLeft == wire' \in {wire, Append(wire, Command(pending, chosen))}

SendRecordCode(error) ==
    IF error \in {"server_invalid_choice", "server_unavailable_choice"}
    THEN error ELSE "send_failed"

\* Mutant: an error of send_room is left to _abort.
SendAborts(error) ==
    /\ phase = "sending"
    /\ MayHaveLeft
    /\ Abort(error, log)
    /\ chosen' = None
    /\ UNCHANGED <<obs, latest, submitted, explicit, defaulted>>

SendRaises(error) ==
    /\ phase = "sending"
    /\ MayHaveLeft
    /\ RaiseWith(error, log, "send_failed", SendRecordCode(error), chosen)
    /\ chosen' = None
    /\ UNCHANGED <<obs, latest, submitted, explicit, defaulted>>

\* CancelledError is no Exception: it passes every handler of the session and
\* run returns nothing.
Cancel ==
    /\ phase \in {"reading", "sending"}
    /\ IF phase = "sending" THEN MayHaveLeft ELSE UNCHANGED wire
    /\ phase' = "cancelled"
    /\ UNCHANGED <<obs, pending, latest, submitted, chosen, log, primary, done,
                   explicit, defaulted>>

\* A line that cannot be classified or parsed, a timer or server error line, or
\* an error of the connection's stream.
LineRaises(error) ==
    /\ phase = "reading"
    /\ Abort(error, log)
    /\ UNCHANGED <<obs, latest, submitted, chosen, explicit, defaulted, wire>>

\* The stream is exhausted: run returns as things stand.
StreamEnds ==
    /\ phase = "reading"
    /\ phase' = "returned"
    /\ UNCHANGED <<obs, pending, latest, submitted, chosen, log, primary, done,
                   explicit, defaulted, wire>>

ProcessEvent(e) == ObserveEvent(e) \/ RetryEvent(e) \/ EndBattle(e) \/ EventRefused(e)
ProcessRequest(p) == RefuseRequest(p) \/ FreshRequest(p)

Next ==
    \/ \E e \in Events : ProcessEvent(e)
    \/ \E p \in Payloads : ProcessRequest(p)
    \/ \E error \in LineErrors : LineRaises(error)
    \/ \E error \in SendErrors : SendRaises(error)
    \/ SendReturns
    \/ StreamEnds
    \/ Cancel

Spec == Init /\ [][Next]_vars

-----------------------------------------------------------------------------
Requests == {p \in Payloads : p.rqid \in Nat}

Records ==
    [index : Nat, rqid : 0..MaxSafeInteger, state : ObservedStates, status : Statuses,
     code : ErrorCodes \cup {None}, selected : Submissions \cup {None}]

Logs ==
    [trace : Traces \cup {None}, next : Nat, failure : TraceFailures \cup {None},
     records : Seq(Records), lost : Statuses \cup {None}]

\* The variables keep the shape of the session's attributes; a session that is
\* still running has no error and is not done; a request is in flight exactly
\* while send_room is awaited.
TypeOK ==
    /\ phase \in {"reading", "sending", "returned", "cancelled"}
    /\ obs \in ObservedStates
    /\ pending \in Requests \cup {None}
    /\ latest \in Requests \cup {None}
    /\ submitted \in Requests \cup {None}
    /\ chosen \in Submissions \cup {None}
    /\ log \in Logs
    /\ primary \in ErrorCodes \cup {None}
    /\ done \in BOOLEAN
    /\ explicit \in Nat
    /\ defaulted \in Nat
    /\ wire \in Seq(Commands)
    /\ phase = "sending" => pending # None /\ chosen # None
    /\ phase \in {"reading", "sending"} => ~done /\ primary = None /\ log.failure = None

(***************************************************************************)
(* The rqids of the commands that reached the server strictly increase: no *)
(* request is answered twice, whatever is repeated, retried, reordered, or *)
(* half sent before the error (_check_freshness, _submit).                 *)
(***************************************************************************)
OneCommandPerRequest ==
    \A i, j \in 1..Len(wire) : i < j => wire[i].rqid < wire[j].rqid

(***************************************************************************)
(* Why that holds at every step: the pending request is always the latest, *)
(* every command so far answers a request no newer than the latest, and as *)
(* long as the session runs an older one than the pending.                 *)
(***************************************************************************)
Running == phase \in {"reading", "sending"}

AnswersFollowRequests ==
    /\ pending # None => pending = latest
    /\ wire # << >> => latest # None
    /\ \A i \in 1..Len(wire) : wire[i].rqid <= latest.rqid
    /\ Running /\ pending # None => \A i \in 1..Len(wire) : wire[i].rqid < pending.rqid
    /\ OneCommandPerRequest

(***************************************************************************)
(* A command that leaves answers the newest request the server issued, and *)
(* at that moment the public state and the request agree: nothing read     *)
(* before the send is stale when the command goes out (_retry_pending).    *)
(***************************************************************************)
CommandAgreesWithState ==
    [][wire' # wire =>
         /\ wire'[Len(wire')].rqid = latest.rqid
         /\ Reconcile(latest, obs, SubmittedRqid) = "accept"]_vars

(***************************************************************************)
(* No pending request is forgotten: a request that could be answered is    *)
(* never left waiting for another line.  Every event that can complete the *)
(* public state is one of _RETRY_EVENTS or a turn.                         *)
(***************************************************************************)
NoForgottenRequest ==
    phase = "reading" /\ pending # None
        => Reconcile(pending, obs, SubmittedRqid) # "accept"

(***************************************************************************)
(* Once the battle has started no request waits for metadata; only the     *)
(* active pokemon may still be unknown (or a later team size contradicts   *)
(* the request, which the next retry finds out).                           *)
(***************************************************************************)
NoMetadataWaitAfterStart ==
    phase = "reading" /\ pending # None /\ obs.battle_started
        => Reconcile(pending, obs, SubmittedRqid) # "pending"

(***************************************************************************)
(* A request waits exactly as long as it must: it is answered as soon as   *)
(* the public state allows it, and given up when the start of the battle   *)
(* shows that what it waits for will not come.                             *)
(***************************************************************************)
WaitsOnlyWhileItMust == NoForgottenRequest /\ NoMetadataWaitAfterStart

(***************************************************************************)
(* Decision records have no gap and no repetition: their indexes count up  *)
(* from zero, their rqids increase, and only the last index may still be   *)
(* open (_open_trace, _finalize_pending).                                  *)
(***************************************************************************)
RecordsHaveNoGap ==
    Context = "resolved" =>
        /\ \A i \in 1..Len(log.records) : log.records[i].index = i - 1
        /\ \A i, j \in 1..Len(log.records) :
              i < j => log.records[i].rqid < log.records[j].rqid
        /\ log.failure = None
              => log.next = Len(log.records) + (IF log.trace = None THEN 0 ELSE 1)

Recorded(p, statuses) ==
    {i \in 1..Len(log.records) : log.records[i].status \in statuses
                                   /\ log.records[i].rqid = p}

(***************************************************************************)
(* While the trace is healthy, every command that reached the server has a *)
(* record that says so, with the submission that was sent, and a record    *)
(* "submitted" means that the command was sent.  Only a cancelled session  *)
(* may have a command in flight that no record names.                      *)
(***************************************************************************)
CommandsAreRecorded ==
    Context = "resolved" /\ log.failure = None =>
        /\ \A c \in 1..Len(wire) :
              \/ \E i \in Recorded(wire[c].rqid, {"submitted", "send_failed"}) :
                    /\ wire[c].args = log.records[i].selected.args
                    /\ wire[c].tera = log.records[i].selected.tera
              \/ phase = "cancelled" /\ c = Len(wire) /\ pending # None
        /\ \A i \in 1..Len(log.records) :
              log.records[i].status = "submitted"
                => \E c \in 1..Len(wire) : wire[c].rqid = log.records[i].rqid

(***************************************************************************)
(* The submission counters count the records "submitted", one more when    *)
(* the trace failed on such a record: a send that failed, a gate rejection *)
(* or a wait never counts.                                                 *)
(***************************************************************************)
CountersCountSubmitted ==
    Context = "resolved" =>
        explicit + defaulted =
            Cardinality({i \in 1..Len(log.records) : log.records[i].status = "submitted"})
              + (IF log.lost = "submitted" THEN 1 ELSE 0)

(***************************************************************************)
(* The records, the counters and the wire tell the same story, through     *)
(* supersession, half-sent commands, cancellation and a failing trace.     *)
(***************************************************************************)
RecordsTellTheWire == RecordsHaveNoGap /\ CommandsAreRecorded /\ CountersCountSubmitted

(***************************************************************************)
(* A trace or record failure is the primary error exactly when the battle  *)
(* itself had none: it never replaces the error whose record was lost      *)
(* (_handle_trace_failure, _handle_record_construction_failure).           *)
(***************************************************************************)
TraceFailureNeverMasks ==
    log.failure # None =>
        (primary = log.failure) <=> (log.lost \in QuietStatuses \ {"freshness_invalidated"})

(***************************************************************************)
(* A session that stops by itself and reports no error has seen the end of *)
(* the battle.                                                             *)
(***************************************************************************)
SilentStopMeansOver == done /\ primary = None => obs.over

(***************************************************************************)
(* What a session reports when it stops is true: no error means a battle   *)
(* that is over, and a failing trace never hides the error of the battle.  *)
(***************************************************************************)
ErrorsAreReportedTruthfully == TraceFailureNeverMasks /\ SilentStopMeansOver

(***************************************************************************)
(* The record of a decision carries the digest of the state the decision   *)
(* was made in, not of the state in which the request arrived              *)
(* (_refresh_pending_trace_state).                                         *)
(***************************************************************************)
RecordsDescribeDecisionState ==
    [][LET n == Len(log'.records)
       IN  /\ n > Len(log.records)
           /\ log'.records[n].status \in SelectionStatuses \cup {"wait_noop", "policy_rejected"}
           => log'.records[n].state = obs']_vars

(***************************************************************************)
(* The session as a decision exchange: a pending request is open while the *)
(* session runs; a command counts as an answer when it reaches the server. *)
(***************************************************************************)
Exchange == INSTANCE DecisionExchange WITH
    newest   <- RqidOf(latest),
    open     <- IF Running THEN RqidOf(pending) ELSE None,
    answered <- [i \in 1..Len(wire) |-> wire[i].rqid],
    stopped  <- ~Running

(***************************************************************************)
(* Every step of a session is a step of the exchange or invisible to it:   *)
(* the server never sees an answer to a superseded request, a second       *)
(* answer, or an answer from a session that has returned.                  *)
(***************************************************************************)
ImplementsExchange == Exchange!Spec

(***************************************************************************)
(* docs/contracts/decision-records.md: every request that passes the       *)
(* freshness check receives exactly one terminal disposition.  Stated for  *)
(* sessions that returned and whose sink and records did not fail.         *)
(***************************************************************************)
EveryFreshRequestDisposed ==
    phase = "returned" /\ Context = "resolved" /\ log.failure = None
        => Len(log.records) = log.next
=============================================================================
