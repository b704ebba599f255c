---------------------------- MODULE DecisionTrace ----------------------------
(***************************************************************************)
(* The decision-record side of a session: the pending trace, the record    *)
(* that closes it and the trace sink.  A log is a record                   *)
(*   trace    the open trace (_pending_trace), or None                     *)
(*   next     _next_decision_index                                         *)
(*   failure  None, or the trace or record error that set _trace_failed    *)
(*            (no second one can follow: nothing is recorded after it)     *)
(*   records  the records the sink accepted, in order                      *)
(*   lost     the disposition whose record could not be built or written   *)
(* A state digest stands for the observed state it is the digest of.       *)
(***************************************************************************)
EXTENDS ObservedState, Sequences

CONSTANTS Context,       \* decision_record_context: none, unresolved, resolved
          MaxSafeInteger \* largest rqid a public record may carry

ASSUME ContextAssumption == Context \in {"none", "unresolved", "resolved"}
ASSUME MaxSafeAssumption == MaxSafeInteger \in Nat

AbortCodes == {"disconnect", "transport_timeout", "timer_or_forfeit",
               "unknown_protocol_event", "malformed_protocol_message",
               "reducer_invariant_failure"}
FreshnessCodes == {"request_state_reconciliation_mismatch", "stale_rqid"}
TraceFailures == {"trace_sink_failure", "decision_record_construction_failure"}

\* The codes of the errors a session can meet; "unclassified" is any exception
\* without a code.
ErrorCodes ==
    AbortCodes \cup FreshnessCodes \cup TraceFailures
      \cup {"no_legal_action_available", "local_action_gate_rejection",
            "command_encoding_failed", "send_failed", "server_invalid_choice",
            "server_unavailable_choice", "unclassified"}

\* STATUS_ERROR_CODES: the codes a status must carry one of.
StatusErrorCodes ==
    [policy_rejected         |-> {"no_legal_action_available"},
     action_gate_rejected    |-> {"local_action_gate_rejection"},
     command_encoding_failed |-> {"command_encoding_failed"},
     send_failed             |-> {"send_failed", "server_invalid_choice",
                                  "server_unavailable_choice"},
     session_aborted         |-> AbortCodes,
     reconciliation_rejected |-> FreshnessCodes]

\* Statuses that describe a disposition without an error.
QuietStatuses == {"submitted", "wait_noop", "superseded_before_selection",
                  "terminally_discarded", "freshness_invalidated"}
SelectionStatuses == {"submitted", "action_gate_rejected",
                      "command_encoding_failed", "send_failed"}
Statuses == QuietStatuses \cup DOMAIN StatusErrorCodes

\* DecisionRecord.__post_init__ accepts the combination (session_aborted may
\* carry a selection or not).  The rqid was checked when the trace was opened.
WellFormed(status, code, selected) ==
    /\ IF status \in QuietStatuses THEN code = None ELSE code \in StatusErrorCodes[status]
    /\ status \in SelectionStatuses => selected # None
    /\ status \notin SelectionStatuses \cup {"session_aborted"} => selected = None

Traces == [index : Nat, rqid : 0..MaxSafeInteger, state : ObservedStates]

\* Python's None is no number, no code, no status and no trace.
ASSUME NoneAssumption == None \notin Nat \cup ErrorCodes \cup Statuses \cup Traces

EmptyLog == [trace |-> None, next |-> 0, failure |-> None,
             records |-> << >>, lost |-> None]

Traced(log) == Context # "none" /\ log.failure = None

\* _open_trace raises: no digest of a safe set with that rqid exists.
OpenRaises(log, rqid) == Traced(log) /\ rqid > MaxSafeInteger

\* _open_trace, where it does not raise.
OpenTrace(log, rqid, state) ==
    IF ~Traced(log) THEN log
    ELSE [log EXCEPT !.trace = [index |-> log.next, rqid |-> rqid, state |-> state],
                     !.next = log.next + 1]

\* Mutant: the digest of the state in which the request arrived is kept.
KeepTraceState(log, state) == log

\* _refresh_pending_trace_state
RefreshTrace(log, state) ==
    IF log.trace = None THEN log ELSE [log EXCEPT !.trace.state = state]

RecordOf(trace, status, code, selected) ==
    [index |-> trace.index, rqid |-> trace.rqid, state |-> trace.state,
     status |-> status, code |-> code, selected |-> selected]

\* _finalize_pending; sinkOk is what trace_sink.emit does with the record.
FinalizePending(log, status, code, selected, sinkOk) ==
    LET closed  == [log EXCEPT !.trace = None]
        Lose(e) == [closed EXCEPT !.failure = e, !.lost = status]
    IN  IF log.trace = None THEN log
        ELSE IF Context # "resolved" \/ log.failure # None THEN closed
        ELSE IF ~WellFormed(status, code, selected)
             THEN Lose("decision_record_construction_failure")
        ELSE IF ~sinkOk THEN Lose("trace_sink_failure")
        ELSE [closed EXCEPT !.records =
                 Append(log.records, RecordOf(log.trace, status, code, selected))]

\* _record_error_code and the choice _abort makes from it: an error without a
\* code of its own record class leaves the trace open.
AbortTrace(log, code, sinkOk) ==
    IF code \in FreshnessCodes
    THEN FinalizePending(log, "freshness_invalidated", None, None, sinkOk)
    ELSE IF code \in AbortCodes
    THEN FinalizePending(log, "session_aborted", code, None, sinkOk)
    ELSE log
=============================================================================
