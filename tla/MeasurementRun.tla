---------------------------- MODULE MeasurementRun ----------------------------
(***************************************************************************)
(* MeasurementRunner around one battle session with a recording sink: when *)
(* the session has ended, the sink is flushed and closed, the run is       *)
(* classified, and the result is checked against the records and the       *)
(* session before it is returned.  Digests, enum types and counters that   *)
(* are copied unchanged are left out.                                      *)
(***************************************************************************)
EXTENDS BattleSession

VARIABLE measured \* None while the session runs; then the result of the run,
                  \* NotPreserved (its validation raised) or Cancelled

NotPreserved == [status |-> "refused", trace |-> None, error |-> None]
Cancelled == [status |-> "cancelled", trace |-> None, error |-> None]

\* Python's None is no result and no error code either.
ASSUME ResultAssumption == None # NotPreserved /\ None # "runtime_error"

MeasuredInit == Init /\ measured = None

-----------------------------------------------------------------------------
HasRecords == log.records # << >>

\* _stable_error_code
StableErrorCode(error) == IF error = "unclassified" THEN "runtime_error" ELSE error

\* lifecycleFailed: flush_trace or close_trace raised.
TraceError(lifecycleFailed) == log.failure = "trace_sink_failure" \/ lifecycleFailed

TraceStatus(lifecycleFailed) ==
    IF TraceError(lifecycleFailed) THEN "sink_failed"
    ELSE IF HasRecords THEN "emitted"
    ELSE IF log.failure # None THEN "not_attempted"
    ELSE "no_records"

TraceOnlyFailure(lifecycleFailed) ==
    TraceError(lifecycleFailed) /\ primary \in {None, "trace_sink_failure"}

\* Mutant: any error makes the run a failed battle.
RunStatusErrorFirst(lifecycleFailed) ==
    IF primary # None THEN "failed"
    ELSE IF TraceOnlyFailure(lifecycleFailed) THEN "trace_failed"
    ELSE IF ~HasRecords THEN "no_request"
    ELSE "completed"

RunStatus(lifecycleFailed) ==
    IF TraceOnlyFailure(lifecycleFailed) THEN "trace_failed"
    ELSE IF primary # None THEN "failed"
    ELSE IF ~HasRecords THEN "no_request"
    ELSE "completed"

\* MeasurementRunResult as run builds it.
Result(lifecycleFailed) ==
    [status |-> RunStatus(lifecycleFailed),
     trace  |-> TraceStatus(lifecycleFailed),
     error  |-> IF TraceOnlyFailure(lifecycleFailed) THEN "trace_sink_failure"
                ELSE StableErrorCode(primary)]

-----------------------------------------------------------------------------
(***************************************************************************)
(* validate_measurement_run_result, as far as a result of run can fail it. *)
(***************************************************************************)
SubmittedRecords(provenance) ==
    {i \in 1..Len(log.records) :
        /\ log.records[i].status = "submitted"
        /\ Provenance(log.records[i].selected) = provenance}

\* After a sink failure the counters may be ahead of the accepted records.
CountersMatch(r) ==
    LET inRecords == <<Cardinality(SubmittedRecords("explicit_request")),
                       Cardinality(SubmittedRecords("server_default"))>>
        partial == /\ r.trace = "sink_failed"
                   /\ \/ r.error = "trace_sink_failure"
                      \/ inRecords # <<0, 0>>
    IN  HasRecords =>
          IF partial THEN explicit >= inRecords[1] /\ defaulted >= inRecords[2]
          ELSE explicit = inRecords[1] /\ defaulted = inRecords[2]

StatusMatrix(r) ==
    CASE r.status = "completed" -> r.error = None /\ HasRecords /\ r.trace = "emitted"
      [] r.status = "no_request" ->
           /\ r.error = None
           /\ ~HasRecords
           /\ r.trace \in {"no_records", "not_attempted"}
           /\ explicit = 0 /\ defaulted = 0
      [] r.status = "trace_failed" -> r.error = "trace_sink_failure" /\ r.trace = "sink_failed"
      [] OTHER -> r.error # None

MatchesSession(r) ==
    /\ \/ r.error = StableErrorCode(primary)
       \/ primary = None /\ r.error = "trace_sink_failure" /\ r.trace = "sink_failed"
    /\ log.failure = "trace_sink_failure" => r.trace = "sink_failed"
    /\ log.failure = "decision_record_construction_failure" => r.trace # "emitted"

Valid(r) ==
    /\ CountersMatch(r)
    /\ HasRecords => r.trace \in {"emitted", "sink_failed"}
    /\ ~HasRecords => r.trace # "emitted"
    /\ StatusMatrix(r)
    /\ MatchesSession(r)

\* The session has returned: flush, close, classify, validate.
Measure ==
    /\ phase = "returned"
    /\ measured = None
    /\ \E flushOk, closeOk \in BOOLEAN :
          LET r == Result(~flushOk \/ ~closeOk)
          IN  measured' = IF Valid(r) THEN r ELSE NotPreserved
    /\ UNCHANGED vars

\* A cancelled session: the sink is flushed and closed, the cancellation goes on.
MeasureCancelled ==
    /\ phase = "cancelled"
    /\ measured = None
    /\ measured' = Cancelled
    /\ UNCHANGED vars

MeasuredNext ==
    \/ Next /\ UNCHANGED measured
    \/ Measure
    \/ MeasureCancelled

MeasuredSpec == MeasuredInit /\ [][MeasuredNext]_<<vars, measured>>

-----------------------------------------------------------------------------
HasResult == measured \notin {None, NotPreserved, Cancelled}

(***************************************************************************)
(* A result never hides what happened: an error of the battle is the error *)
(* of the result even if the sink failed too; a run counts as completed    *)
(* only without any error and with every opened record written but the one *)
(* a cut stream leaves open; and a run whose only trouble was the sink is  *)
(* "trace_failed", never a failed battle.  There is a result unless the    *)
(* record of a rejected selection could not be built after others had been *)
(* written: the runner's own validation refuses nothing else that a        *)
(* failing sink, send, policy or stream can bring about, and               *)
(* docs/contracts/decision-records.md, which wants technical aborts and    *)
(* trace failures preserved, is not kept in that one case.                 *)
(***************************************************************************)
ResultTellsTheTruth ==
    /\ measured = NotPreserved =>
        /\ log.failure = "decision_record_construction_failure"
        /\ log.lost = "action_gate_rejected"
        /\ HasRecords
    /\ HasResult =>
        /\ primary \notin TraceFailures \cup {None}
             => measured.status = "failed" /\ measured.error = StableErrorCode(primary)
        /\ measured.status = "completed"
             => /\ primary = None
                /\ Len(log.records) = log.next - (IF log.trace = None THEN 0 ELSE 1)
        /\ measured.status = "trace_failed"
             <=> measured.trace = "sink_failed" /\ primary \in {None, "trace_sink_failure"}
=============================================================================
