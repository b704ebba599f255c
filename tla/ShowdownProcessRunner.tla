------------------------ MODULE ShowdownProcessRunner ------------------------
(***************************************************************************)
(* ShowdownProcessRunner: one simulator child, its input in steps with a   *)
(* response barrier each, and its shutdown.  Four tasks of one event loop  *)
(* interleave: run, the watcher of the exit (return_task) and the drains   *)
(* of stdout and stderr; the child and its descendants are external.  The  *)
(* value of phase is the await at which run is suspended.                  *)
(***************************************************************************)
EXTENDS Integers, Sequences, FiniteSets

CONSTANTS
    None,
    PlayerSides,  \* the sides that get requests
    Steps,        \* barriers of the interaction: request_sides and end
    MaxMessages,  \* max_messages
    LaunchErrors, \* classes of failures before there is a process
    StdoutErrors, \* classes with which a read or a frame of stdout fails in any state
    StderrErrors  \* classes with which a read of stderr fails

Barriers == [sides : SUBSET PlayerSides, end : BOOLEAN]
Frames == PlayerSides \cup {"update", "side_error", "end"}

FailureClasses ==
    {"node_not_found", "start_timeout", "write_timeout", "response_timeout", "fixture_timeout",
     "malformed_output", "protocol_desynchronization", "ruleset_rejected", "process_crash",
     "unexpected_exit_code", "shutdown_failed", "orphaned_child_process",
     "external_network_attempt", "input_too_large", "output_too_large"}

ASSUME SidesAssumption == PlayerSides \subseteq {"p1", "p2"}
ASSUME StepsAssumption ==
    /\ Steps \in Seq(Barriers)
    /\ Steps # << >>
    /\ \A i \in 1..Len(Steps) : Steps[i].sides # {} \/ Steps[i].end
ASSUME LimitsAssumption == MaxMessages \in Nat \ {0}
ASSUME ErrorsAssumption == LaunchErrors \cup StdoutErrors \cup StderrErrors \subseteq FailureClasses
ASSUME NoErrorAssumption == None \notin FailureClasses \cup {"cancelled", "result"}

VARIABLES
    phase,          \* where run is suspended, or "ended"
    child,          \* external: "none", "running" or "exited"
    code,           \* external: None, "zero", "positive" or "negative"
    kin,            \* external: a descendant of the child is alive
    watcher,        \* return_task: "none", "watching", "done" or "failed"
    stdout,         \* stdout_task: "none", "reading", "ok", "cancelled" or a failure
    stderr,         \* stderr_task, likewise
    started, ended, \* the decoder's _started and _ended
    messages,       \* number of messages decoded
    seen,           \* kinds of the messages since message_start_index, during the interaction
    marker,         \* stderr holds the marker of the network guard
    activity,       \* activity.is_set(), FALSE once the interaction is over and nobody asks
    step,           \* the current step of the interaction
    sideError,      \* terminal_side_error is not None
    pending,        \* pending_error
    cancelled,      \* a CancelledError is leaving run
    cleanupFailed,  \* cleanup_failed of _shutdown
    forced,         \* forced of _shutdown
    forcedShutdown, \* forced_shutdown of run
    outcome,        \* "result", "cancelled" or the class of the error raised
    first,          \* history: the first error of the interaction
    shutdownError,  \* history: what _shutdown, or the clean-up of a failed launch, raised
    signalled,      \* history: the runner signalled a running child
    interrupted     \* history: the cleanup itself was cancelled

childVars == <<child, code, kin>>
drainVars == <<stdout, stderr, started, ended, messages, marker>>
cleanupVars == <<cleanupFailed, forced, forcedShutdown, shutdownError, signalled>>
endVars == <<outcome, interrupted>>
vars == <<phase, childVars, watcher, drainVars, seen, activity, step, sideError, pending,
          cancelled, cleanupVars, endVars, first>>

Init ==
    /\ phase = "starting"
    /\ child = "none" /\ code = None /\ kin = FALSE
    /\ watcher = "none" /\ stdout = "none" /\ stderr = "none"
    /\ started = FALSE /\ ended = FALSE
    /\ messages = 0 /\ seen = {} /\ marker = FALSE
    /\ activity = FALSE
    /\ step = 1
    /\ sideError = FALSE /\ pending = None /\ cancelled = FALSE
    /\ cleanupFailed = FALSE /\ forced = FALSE /\ forcedShutdown = FALSE
    /\ outcome = None /\ first = None /\ shutdownError = None
    /\ signalled = FALSE /\ interrupted = FALSE

-----------------------------------------------------------------------------
Interacting == phase \in {"writing", "awaiting"}

(***************************************************************************)
(* The child.                                                              *)
(***************************************************************************)
ChildExits ==
    /\ child = "running"
    /\ child' = "exited"
    /\ code' \in {"zero", "positive", "negative"}
    /\ UNCHANGED <<phase, kin, watcher, drainVars, seen, activity, step, sideError, pending,
                   cancelled, cleanupVars, endVars, first>>

\* A descendant appears while the child runs, or goes; a child that was never
\* resumed has none.
KinChanges ==
    /\ (child = "running" /\ phase # "dismissing") \/ kin
    /\ kin' = ~kin
    /\ UNCHANGED <<phase, child, code, watcher, drainVars, seen, activity, step, sideError,
                   pending, cancelled, cleanupVars, endVars, first>>

\* Mutant: the end of the watcher is no activity.
WatcherReturnsQuietly ==
    /\ watcher = "watching"
    /\ child = "exited"
    /\ watcher' = "done"
    /\ UNCHANGED <<phase, childVars, drainVars, seen, activity, step, sideError, pending,
                   cancelled, cleanupVars, endVars, first>>

\* _wait_for_exit: process.wait returns or raises; both set the activity.
WatcherReturns ==
    /\ watcher = "watching"
    /\ watcher' \in {"failed"} \cup {w \in {"done"} : child = "exited"}
    /\ activity' = Interacting
    /\ UNCHANGED <<phase, childVars, drainVars, seen, step, sideError, pending, cancelled,
                   cleanupVars, endVars, first>>

-----------------------------------------------------------------------------
(***************************************************************************)
(* The drains.  A chunk is one complete frame, or the end of the stream    *)
(* with what is left of a frame.                                           *)
(***************************************************************************)
\* ShowdownProtocolDecoder._decode_frame: nothing follows the end, and requests
\* and the end follow an update.
DecodeError(f) ==
    IF ended \/ (f \in PlayerSides \cup {"end"} /\ ~started)
    THEN "protocol_desynchronization" ELSE None

\* ShowdownProtocolDecoder.finish
FinishError(rest) ==
    IF rest # None THEN rest ELSE IF ~ended THEN "protocol_desynchronization" ELSE None

otherThanStdout == <<phase, childVars, watcher, stderr, marker, step, sideError, pending,
                     cancelled, cleanupVars, endVars, first>>

ReadStdout(f) ==
    /\ stdout = "reading"
    /\ \/ /\ DecodeError(f) # None
          /\ stdout' = DecodeError(f)
          /\ UNCHANGED <<started, ended, messages, seen>>
       \/ /\ DecodeError(f) = None
          /\ messages' = messages + 1
          /\ seen' = IF Interacting THEN seen \cup {f} ELSE seen
          /\ started' = (started \/ f = "update")
          /\ ended' = (f = "end")
          /\ stdout' = IF messages' > MaxMessages THEN "output_too_large" ELSE "reading"
    /\ activity' = Interacting
    /\ UNCHANGED otherThanStdout

StdoutEnds(rest) ==
    /\ stdout = "reading"
    /\ stdout' = IF FinishError(rest) = None THEN "ok" ELSE FinishError(rest)
    /\ activity' = Interacting
    /\ UNCHANGED <<otherThanStdout, started, ended, messages, seen>>

\* The read raises, a frame is malformed or a limit is exceeded.
StdoutFails(error) ==
    /\ stdout = "reading"
    /\ stdout' = error
    /\ activity' = Interacting
    /\ UNCHANGED <<otherThanStdout, started, ended, messages, seen>>

\* Only the end of the stderr drain is an activity.
ReadMarker ==
    /\ stderr = "reading"
    /\ marker' = TRUE
    /\ UNCHANGED <<phase, childVars, watcher, stdout, stderr, started, ended, messages, seen,
                   activity, step, sideError, pending, cancelled, cleanupVars, endVars, first>>

StderrEnds(result) ==
    /\ stderr = "reading"
    /\ stderr' = result
    /\ activity' = Interacting
    /\ UNCHANGED <<phase, childVars, watcher, stdout, started, ended, messages, marker, seen,
                   step, sideError, pending, cancelled, cleanupVars, endVars, first>>

Drain ==
    \/ \E f \in Frames : ReadStdout(f)
    \/ \E rest \in {None, "malformed_output", "protocol_desynchronization"} : StdoutEnds(rest)
    \/ \E error \in StdoutErrors : StdoutFails(error)
    \/ ReadMarker
    \/ \E result \in StderrErrors \cup {"ok"} : StderrEnds(result)

-----------------------------------------------------------------------------
(***************************************************************************)
(* The interaction.                                                        *)
(***************************************************************************)
interactionFrame == <<childVars, watcher, drainVars, cleanupVars, endVars, cancelled>>

LaunchFails(error) ==
    /\ phase = "starting"
    /\ phase' = "ended"
    /\ first' = error
    /\ pending' = error
    /\ outcome' = error
    /\ UNCHANGED <<childVars, watcher, drainVars, seen, activity, step, sideError, cancelled,
                   cleanupVars, interrupted>>

(***************************************************************************)
(* _default_launcher on Windows: the child is created suspended, put into  *)
(* a kill-on-close job and resumed, without an await.  If that fails, the  *)
(* child, or the job once there is one, is killed, and its end is awaited: *)
(* "dismissing" without a job, "dismantling" and then "emptying" with one. *)
(***************************************************************************)
launchFrame == <<watcher, drainVars, seen, activity, step, sideError, cancelled, forced,
                 forcedShutdown, signalled, interrupted>>

\* The child is killed, by itself or with its job, or the kill raises.
SetupFails(reaping) ==
    /\ phase = "starting"
    /\ child' = "running"
    /\ phase' = reaping
    /\ cleanupFailed' \in BOOLEAN
    /\ UNCHANGED <<code, kin, pending, first, outcome, shutdownError, launchFrame>>

\* create_and_assign raises; it has closed its job.
AssignFails == SetupFails("dismissing")

\* _resume_suspended_windows_threads raises, maybe after some thread was resumed.
ResumeFails == SetupFails("dismantling")

\* The launcher raises _WindowsJobError; there is no process to shut down.
SetupRaises(failed) ==
    LET error == IF failed THEN "shutdown_failed" ELSE "process_crash"
    IN  /\ phase' = "ended"
        /\ first' = error /\ pending' = error /\ outcome' = error
        /\ shutdownError' = IF failed THEN error ELSE None
        /\ cleanupFailed' = failed

\* _reap_windows_setup_failure: child.wait returns, or it raises or is late.
SetupReaped ==
    \E waitFailed \in {TRUE} \cup {w \in {FALSE} : child = "exited"} :
        /\ \/ /\ phase = "dismissing"
              /\ SetupRaises(cleanupFailed \/ waitFailed)
           \/ /\ phase = "dismantling"
              /\ phase' = "emptying"
              /\ cleanupFailed' = (cleanupFailed \/ waitFailed)
              /\ UNCHANGED <<first, pending, outcome, shutdownError>>
        /\ UNCHANGED <<childVars, launchFrame>>

\* _wait_for_windows_job_empty: the job is empty, or the count cannot be read or
\* time is up; then the job's handle is closed, which may fail.
JobEmptied ==
    /\ phase = "emptying"
    /\ \E empty, closed \in BOOLEAN :
          /\ empty => child = "exited" /\ ~kin
          /\ SetupRaises(cleanupFailed \/ ~empty \/ ~closed)
    /\ UNCHANGED <<childVars, launchFrame>>

\* The start timeout cancels the launcher, also while it cleans up.
StartTimeout ==
    /\ phase \in {"starting", "dismissing", "dismantling", "emptying"}
    /\ phase' = "ended"
    /\ first' = "start_timeout" /\ pending' = "start_timeout" /\ outcome' = "start_timeout"
    /\ interrupted' = (phase # "starting")
    /\ UNCHANGED <<childVars, watcher, drainVars, seen, activity, step, sideError, cancelled,
                   cleanupVars>>

LaunchReturns ==
    /\ phase = "starting"
    /\ child' = "running"
    /\ watcher' = "watching"
    /\ phase' = "writing"
    /\ stdout' = "reading" /\ stderr' = "reading"
    /\ UNCHANGED <<code, kin, started, ended, messages, marker, seen, activity, step, sideError,
                   pending, cancelled, cleanupVars, endVars, first>>

\* A child without all its streams is shut down at once.
LaunchWithoutStreams ==
    /\ phase = "starting"
    /\ child' = "running"
    /\ watcher' = "watching"
    /\ phase' = "closing"
    /\ pending' = "protocol_desynchronization"
    /\ first' = pending'
    /\ UNCHANGED <<code, kin, drainVars, seen, activity, step, sideError, cancelled, cleanupVars,
                   endVars>>

InteractionFails(error) ==
    /\ phase' = "closing"
    /\ pending' = error
    /\ first' = error
    /\ seen' = {} /\ activity' = FALSE
    /\ UNCHANGED <<step, sideError>>

\* ProcessResponseBarrier.is_satisfied_by
Satisfied == Steps[step].sides \subseteq seen /\ (Steps[step].end => "end" \in seen)

\* _raise_completed_drain_failures, _raise_drain_failure
DrainError ==
    IF stdout \in FailureClasses THEN stdout
    ELSE IF stderr \in FailureClasses THEN stderr ELSE None

ExitError ==
    CASE watcher = "failed" -> "process_crash"
      [] watcher = "done" /\ code = "negative" -> "process_crash"
      [] watcher = "done" /\ code = "positive" -> "unexpected_exit_code"
      [] OTHER -> None

\* On to the next write, or to the shutdown.
StepDone ==
    /\ \/ /\ step < Len(Steps)
          /\ step' = step + 1
          /\ phase' = "writing"
          /\ seen' = {}
          /\ UNCHANGED activity
       \/ /\ step = Len(Steps)
          /\ phase' = "closing"
          /\ activity' = FALSE
          /\ UNCHANGED <<step, seen>>
    /\ UNCHANGED <<sideError, pending, first>>

StopAtSideError ==
    /\ sideError' = TRUE
    /\ phase' = "closing"
    /\ seen' = {} /\ activity' = FALSE
    /\ UNCHANGED <<step, pending, first>>

AwaitActivity ==
    /\ phase' = "awaiting"
    /\ activity' = FALSE
    /\ UNCHANGED <<step, seen, sideError, pending, first>>

\* One round of the loop of _wait_for_barrier.
CheckBarrier ==
    IF DrainError # None THEN InteractionFails(DrainError)
    ELSE IF Satisfied THEN StepDone
    ELSE IF "side_error" \in seen THEN StopAtSideError
    ELSE IF ExitError # None THEN InteractionFails(ExitError)
    ELSE IF stdout = "ok" THEN InteractionFails("protocol_desynchronization")
    ELSE AwaitActivity

WriteReturns ==
    /\ phase = "writing"
    /\ CheckBarrier
    /\ UNCHANGED interactionFrame

WakeUp ==
    /\ phase = "awaiting"
    /\ activity
    /\ CheckBarrier
    /\ UNCHANGED interactionFrame

\* The write or the response is late or fails, or the fixture as a whole is late.
InteractionTimeout ==
    /\ \E error \in {"fixture_timeout"}
            \cup (IF phase = "writing" THEN {"write_timeout", "process_crash"}
                  ELSE {"response_timeout"}) :
          InteractionFails(error)
    /\ Interacting
    /\ UNCHANGED interactionFrame

-----------------------------------------------------------------------------
(***************************************************************************)
(* _shutdown: close stdin and wait ("closing", "leaving"), ask the child   *)
(* to go ("asking", "yielding"), kill it ("killing", "reaping"), look for  *)
(* descendants ("verifying"), and if there are any, or nobody knows, kill  *)
(* again ("containing", "rereaping", "reverifying").                       *)
(***************************************************************************)
shutdownFrame == <<child, code, kin, watcher, drainVars, seen, activity, step, sideError,
                   cancelled, endVars, first>>

StdinClosed ==
    /\ phase = "closing"
    /\ phase' = "leaving"
    /\ UNCHANGED <<shutdownFrame, pending, cleanupVars>>

AfterExit == [leaving |-> "verifying", yielding |-> "verifying", reaping |-> "verifying",
              rereaping |-> "reverifying"]
AfterDeadline == [leaving |-> "asking", yielding |-> "killing", reaping |-> "verifying",
                  rereaping |-> "reverifying"]

\* _wait_for_exit_with_deadline returns True.
ExitSeen ==
    /\ phase \in DOMAIN AfterExit
    /\ watcher = "done"
    /\ phase' = AfterExit[phase]
    /\ UNCHANGED <<shutdownFrame, pending, cleanupVars>>

\* It returns False: after a kill that is a failure of the cleanup.
ExitDeadline ==
    /\ phase \in DOMAIN AfterDeadline
    /\ watcher = "watching"
    /\ phase' = AfterDeadline[phase]
    /\ cleanupFailed' = (cleanupFailed \/ phase \in {"reaping", "rereaping"})
    /\ UNCHANGED <<shutdownFrame, pending, forced, forcedShutdown, shutdownError, signalled>>

\* The watcher raises: _shutdown ends with an unexpected exception.
ExitUnknown ==
    /\ phase \in DOMAIN AfterExit
    /\ watcher = "failed"
    /\ phase' = "draining"
    /\ pending' = "shutdown_failed"
    /\ shutdownError' = "shutdown_failed"
    /\ UNCHANGED <<shutdownFrame, cleanupFailed, forced, forcedShutdown, signalled>>

\* _default_terminate: a signal to a group that is gone is no error.
Signal == signalled \/ child = "running"

\* _terminate_with_deadline: the signal is delivered, or it raises or is late.
Terminate ==
    /\ phase \in {"asking", "killing", "containing"}
    /\ forced' = TRUE
    /\ \/ /\ phase' = [asking |-> "yielding", killing |-> "reaping",
                       containing |-> "rereaping"][phase]
          /\ signalled' = Signal
          /\ UNCHANGED cleanupFailed
       \/ /\ phase' = [asking |-> "killing", killing |-> "reaping",
                       containing |-> "rereaping"][phase]
          /\ signalled' \in {signalled, Signal}
          /\ cleanupFailed' = TRUE
    /\ UNCHANGED <<shutdownFrame, pending, forcedShutdown, shutdownError>>

ShutdownError(failed, orphaned) ==
    IF failed THEN "shutdown_failed" ELSE IF orphaned THEN "orphaned_child_process" ELSE None

\* The end of _finish_orphan_check and its except clause in run; closing the job
\* handle may fail.  forced_shutdown is assigned only if nothing is raised.
FinishShutdown(failed, orphaned) ==
    \E closeFailed \in BOOLEAN :
        LET error == ShutdownError(failed \/ closeFailed, orphaned)
        IN  /\ shutdownError' = error
            /\ pending' = IF error # None /\ (pending = None \/ error = "shutdown_failed")
                          THEN error ELSE pending
            /\ forcedShutdown' = (error = None /\ forced)
            /\ phase' = "draining"

\* _default_orphan_verifier: a process of the group or the job is left; an exited
\* child may still count until its exit has been collected.
Orphans == {kin \/ child = "running"} \cup (IF watcher = "watching" THEN {TRUE} ELSE {})

\* Mutant: a verifier that fails has found nothing.
VerifyTrusting ==
    \E verifierFailed \in BOOLEAN, left \in Orphans :
        LET orphaned == ~verifierFailed /\ left
            failed == cleanupFailed
        IN  /\ phase \in {"verifying", "reverifying"}
            /\ cleanupFailed' = failed
            /\ IF phase = "verifying" /\ orphaned
               THEN /\ phase' = "containing"
                    /\ UNCHANGED <<pending, forcedShutdown, shutdownError>>
               ELSE FinishShutdown(failed, orphaned)
            /\ UNCHANGED <<shutdownFrame, forced, signalled>>

\* _orphan_status: what the verifier finds, or that it fails.
Verify ==
    \E verifierFailed \in BOOLEAN, left \in Orphans :
        LET orphaned == ~verifierFailed /\ left
            failed == cleanupFailed \/ verifierFailed
        IN  /\ phase \in {"verifying", "reverifying"}
            /\ cleanupFailed' = failed
            /\ IF phase = "verifying" /\ (orphaned \/ verifierFailed)
               THEN /\ phase' = "containing"
                    /\ UNCHANGED <<pending, forcedShutdown, shutdownError>>
               ELSE FinishShutdown(failed, orphaned)
            /\ UNCHANGED <<shutdownFrame, forced, signalled>>

-----------------------------------------------------------------------------
(***************************************************************************)
(* The end of run.                                                         *)
(***************************************************************************)
GenericOutputFailures == {"malformed_output", "protocol_desynchronization"}

\* Mutant: the child's exit replaces any error.
PreferExitAlways(error) ==
    IF ~forcedShutdown /\ watcher = "done" /\ ExitError # None THEN ExitError ELSE error

\* _prefer_independent_exit_failure
PreferIndependentExit(error) ==
    IF /\ ~forcedShutdown
       /\ error \in GenericOutputFailures
       /\ watcher = "done"
       /\ ExitError # None
    THEN ExitError ELSE error

\* What run raises or returns after the finally block.
Verdict(error) ==
    IF cancelled THEN "cancelled"
    ELSE IF marker THEN "external_network_attempt"
    ELSE IF error # None THEN PreferIndependentExit(error)
    ELSE IF ~forcedShutdown /\ ExitError # None THEN ExitError
    ELSE "result"

RequireCleanDrain == pending = None /\ ~sideError

CancelDrain(task) == IF task = "reading" THEN "cancelled" ELSE task

EndWith(verdict) ==
    /\ phase' = "ended"
    /\ outcome' = verdict
    /\ UNCHANGED <<childVars, watcher, started, ended, messages, marker, seen, activity, step,
                   sideError, cancelled, cleanupVars, interrupted, first>>

DrainsCancelled ==
    /\ phase = "draining"
    /\ ~RequireCleanDrain
    /\ stdout' = CancelDrain(stdout)
    /\ stderr' = CancelDrain(stderr)
    /\ EndWith(Verdict(pending))
    /\ UNCHANGED pending

\* A failed drain is raised from the finally block, before any other verdict.
DrainsFinished ==
    /\ phase = "draining"
    /\ RequireCleanDrain
    /\ "reading" \notin {stdout, stderr}
    /\ EndWith(IF DrainError # None THEN DrainError ELSE Verdict(None))
    /\ UNCHANGED <<stdout, stderr, pending>>

\* Mutant: only the streams of a killed child are given up.
DrainTimeoutIfForced ==
    /\ phase = "draining"
    /\ RequireCleanDrain
    /\ forcedShutdown
    /\ "reading" \in {stdout, stderr}
    /\ stdout' = CancelDrain(stdout)
    /\ stderr' = CancelDrain(stderr)
    /\ pending' = "shutdown_failed"
    /\ EndWith(Verdict(pending'))

DrainTimeout ==
    /\ phase = "draining"
    /\ RequireCleanDrain
    /\ "reading" \in {stdout, stderr}
    /\ stdout' = CancelDrain(stdout)
    /\ stderr' = CancelDrain(stderr)
    /\ pending' = "shutdown_failed"
    /\ EndWith(Verdict(pending'))

\* The task of run is cancelled: before there is a child that is the end, during
\* the interaction the child is shut down, during the cleanup run gives up.
Cancel ==
    /\ phase # "ended"
    /\ IF Interacting
       THEN phase' = "closing" /\ UNCHANGED endVars
       ELSE phase' = "ended" /\ outcome' = "cancelled" /\ interrupted' = (phase # "starting")
    /\ cancelled' = TRUE
    /\ seen' = (IF Interacting THEN {} ELSE seen) /\ activity' = FALSE
    /\ UNCHANGED <<childVars, watcher, drainVars, step, sideError, pending, cleanupVars, first>>

-----------------------------------------------------------------------------
\* The steps of run itself, timers included.
Run ==
    \/ \E error \in LaunchErrors : LaunchFails(error)
    \/ AssignFails
    \/ ResumeFails
    \/ SetupReaped
    \/ JobEmptied
    \/ StartTimeout
    \/ LaunchReturns
    \/ LaunchWithoutStreams
    \/ WriteReturns
    \/ WakeUp
    \/ InteractionTimeout
    \/ StdinClosed
    \/ ExitSeen
    \/ ExitDeadline
    \/ ExitUnknown
    \/ Terminate
    \/ Verify
    \/ DrainsCancelled
    \/ DrainsFinished
    \/ DrainTimeout

Next ==
    \/ Run
    \/ Cancel
    \/ phase # "ended" /\ (ChildExits \/ KinChanges \/ WatcherReturns \/ Drain)

Spec == Init /\ [][Next]_vars /\ WF_vars(Run)

-----------------------------------------------------------------------------
(***************************************************************************)
(* No wake-up is lost: while run waits for activity that has not come,     *)
(* there is nothing it should have noticed, neither messages nor the end   *)
(* or failure of a drain nor a failed exit (activity.clear after the       *)
(* checks, activity.set in every finally).                                 *)
(***************************************************************************)
NoLostWakeup ==
    phase = "awaiting" /\ ~activity =>
        /\ DrainError = None
        /\ ~Satisfied
        /\ "side_error" \notin seen
        /\ ExitError = None
        /\ stdout # "ok"

(***************************************************************************)
(* A child or a descendant that outlives run is known to it: unless the    *)
(* cleanup itself was cancelled, _shutdown or the clean-up of a failed     *)
(* launch has raised, and a failed cleanup is what run reports (or the     *)
(* network attempt, or a cancellation under way), even if the interaction  *)
(* had failed before.                                                      *)
(***************************************************************************)
NothingLeftSilently ==
    phase = "ended" /\ ~interrupted /\ (child = "running" \/ kin) =>
        /\ shutdownError # None
        /\ shutdownError = "shutdown_failed" =>
              outcome \in {"shutdown_failed", "external_network_attempt", "cancelled"}

(***************************************************************************)
(* A result is returned only for a child that is gone with all its         *)
(* descendants, that exited well or was made to exit, that never tried the *)
(* network as far as its stderr was read, and whose output was read to the *)
(* end after the last barrier, or that refused a choice.                   *)
(***************************************************************************)
ResultMeansClean ==
    outcome = "result" =>
        /\ child = "exited" /\ ~kin
        /\ forcedShutdown \/ code = "zero"
        /\ ~marker
        /\ sideError \/ (step = Len(Steps) /\ Satisfied /\ stdout = "ok" /\ stderr = "ok")

(***************************************************************************)
(* Whatever run ends with, it knows what became of the child and its       *)
(* descendants.                                                            *)
(***************************************************************************)
EndIsKnown == NothingLeftSilently /\ ResultMeansClean

(***************************************************************************)
(* The first error of the interaction is the one run raises, except that a *)
(* failed cleanup, a network attempt and a cancellation go before it, and  *)
(* the child's exit before a failure that may be its consequence.          *)
(***************************************************************************)
EarlierErrorKept ==
    phase = "ended" /\ first # None =>
        \/ outcome \in {first, "shutdown_failed", "external_network_attempt", "cancelled"}
        \/ first \in GenericOutputFailures /\ outcome \in {"process_crash", "unexpected_exit_code"}

(***************************************************************************)
(* run ends whatever the child does: every await of the interaction, the   *)
(* shutdown and the final drain has a deadline, and an event loop runs     *)
(* what is ready and timers that are due.                                  *)
(***************************************************************************)
RunEnds == <>(phase = "ended")

(***************************************************************************)
(* test_runner_induced_exit_does_not_override_pending_protocol_failure     *)
(* (test_process.py): an exit the runner itself has caused is not raised   *)
(* in place of the protocol failure of stdout that came before it.         *)
(***************************************************************************)
InducedExitNotBlamed ==
    /\ outcome \in {"process_crash", "unexpected_exit_code"}
    /\ first = stdout /\ first \in GenericOutputFailures
    => ~signalled
=============================================================================
