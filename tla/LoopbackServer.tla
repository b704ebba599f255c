---------------------------- MODULE LoopbackServer ----------------------------
(***************************************************************************)
(* LoopbackServerSmoke.run: it puts a config file into the checkout,       *)
(* starts a guarded server, waits until the server says that it listens,   *)
(* stops it and removes what is left of it.  run, the watcher of the exit  *)
(* and the drains of stdout and stderr interleave; the server, which       *)
(* writes into the checkout as well, is external.                          *)
(*                                                                         *)
(* The value of phase is the await at which run is suspended: "starting";  *)
(* "waiting" for readiness; then _shutdown: "closing" stdin, "leaving",    *)
(* "asking", "yielding", "killing", "reaping", "verifying" that there are  *)
(* no descendants, "containing", "reverifying"; "gathering" the drains.    *)
(***************************************************************************)
EXTENDS OracleCheckout

CONSTANTS
    None,
    StreamErrors \* classes with which a drain fails

ASSUME StreamErrorsAssumption ==
    {None, "ok", "result", "summary", "reading"} \cap StreamErrors = {}
ASSUME NoClassAssumption ==
    None \notin {"result", "summary", "node_not_found", "start_timeout", "process_crash",
                 "protocol_desynchronization", "source_dirty", "shutdown_failed",
                 "orphaned_child_process", "external_network_attempt", "unexpected_exit_code"}

VARIABLES
    checkout, \* the files on disk
    phase,    \* "off" before the run, "ended" after it
    server,   \* external: "none", "running", "exited" (code 0 or more) or "killed"
    kin,      \* external: a descendant of the server is alive
    watcher,  \* return_task: "none", "watching", "done" or "failed"
    outDrain, errDrain, \* the drains: "none", "reading", "ok", "cancelled" or a class
    read,     \* the markers found in stderr: "ready", "network"
    activity, \* activity.is_set()
    pending,  \* pending_error
    leaving,  \* a CancelledError is on its way out
    result    \* None, "result", "cancelled", "raised" (unclassified) or a class

externals == <<server, kin>>
tasks == <<watcher, outDrain, errDrain, read, activity>>
serverVars == <<phase, externals, tasks, pending, leaving, result>>

Exited == {"exited", "killed"}
Alive == server = "running" \/ kin

ServerInit ==
    /\ phase = "off"
    /\ server = "none" /\ kin = FALSE
    /\ watcher = "none" /\ outDrain = "none" /\ errDrain = "none"
    /\ read = {} /\ activity = FALSE
    /\ pending = None /\ leaving = FALSE
    /\ result = None

-----------------------------------------------------------------------------
(***************************************************************************)
(* The server, its descendants and the tasks that follow them.             *)
(***************************************************************************)
ServerExits ==
    /\ server = "running"
    /\ server' \in Exited
    /\ UNCHANGED <<checkout, phase, kin, tasks, pending, leaving, result>>

KinChanges ==
    /\ Alive
    /\ kin' = ~kin
    /\ UNCHANGED <<checkout, phase, server, tasks, pending, leaving, result>>

\* The server writes its log index; or, once, something that is not a regular
\* file there, another config or another file.
ServerWrites ==
    /\ Alive
    /\ checkout.index # "odd" /\ checkout.config = "controlled" /\ ~checkout.stray
    /\ checkout' \in {[checkout EXCEPT !.index = "regular"], [checkout EXCEPT !.index = "odd"],
                      [checkout EXCEPT !.config = "other"], [checkout EXCEPT !.stray = TRUE]}
    /\ UNCHANGED serverVars

\* Nothing tells run that the watcher is done: the activity is the drains' alone.
WatcherReturns ==
    /\ watcher = "watching"
    /\ watcher' \in {"failed"} \cup {w \in {"done"} : server \in Exited}
    /\ UNCHANGED <<checkout, phase, externals, outDrain, errDrain, read, activity, pending,
                   leaving, result>>

\* The event is of use only while run waits for it.
Activity == phase = "waiting"

\* A chunk, the end of the stream or a failure; the finally clause of a drain
\* sets the event too.
DrainStdout ==
    /\ outDrain = "reading"
    /\ outDrain' \in {"reading", "ok"} \cup StreamErrors
    /\ activity' = Activity
    /\ UNCHANGED <<checkout, phase, externals, watcher, errDrain, read, pending,
                   leaving, result>>

DrainStderr ==
    /\ errDrain = "reading"
    /\ \/ \E marker \in {"ready", "network"} \ read :
             read' = read \cup {marker} /\ UNCHANGED errDrain
       \/ /\ errDrain' \in IF phase = "waiting" THEN {"ok"} \cup StreamErrors ELSE {"cancelled"}
          /\ UNCHANGED read
    /\ activity' = Activity
    /\ UNCHANGED <<checkout, phase, externals, watcher, outDrain, pending, leaving,
                   result>>

Outside == ServerExits \/ KinChanges \/ ServerWrites \/ WatcherReturns \/ DrainStdout \/ DrainStderr

-----------------------------------------------------------------------------
(***************************************************************************)
(* The end of run.  An error of the shutdown or of the removal of files is *)
(* kept only if there is none yet.                                         *)
(***************************************************************************)
OrElse(error, later) == IF error = None THEN later ELSE error

Verdict(error, cancelled) ==
    IF cancelled THEN "cancelled"
    ELSE IF "network" \in read THEN "external_network_attempt"
    ELSE IF error # None THEN error
    ELSE IF "ready" \notin read THEN "start_timeout"
    ELSE "result"

\* _remove_controlled_config, which leaves a config that is not ours, and
\* _remove_generated_log_index, which leaves what is no regular log index.
Cleaned ==
    [checkout EXCEPT !.config = IF @ = "controlled" THEN "none" ELSE @,
                     !.index = IF @ = "regular" THEN "none" ELSE @]

CancelDrain(task) == IF task = "reading" THEN "cancelled" ELSE task

\* What run does after its last await.
Conclude(error, cancelled) ==
    /\ outDrain' = CancelDrain(outDrain) /\ errDrain' = CancelDrain(errDrain)
    /\ checkout' = Cleaned
    /\ pending' = IF checkout.config = "controlled" /\ checkout.index # "odd" THEN error
                  ELSE OrElse(error, "source_dirty")
    /\ result' = Verdict(pending', cancelled)
    /\ phase' = "ended"

-----------------------------------------------------------------------------
(***************************************************************************)
(* Start and readiness.                                                    *)
(***************************************************************************)
waitFrame == <<checkout, externals, watcher, read, leaving, result>>

\* After the wait for readiness nobody asks how a drain ended, and stdout is of
\* no use to anyone.
LetDrainsGo ==
    /\ outDrain' = "cancelled"
    /\ errDrain' = IF errDrain = "reading" THEN "reading" ELSE "cancelled"

\* _ensure_upstream_log_index_absent and _write_controlled_config
Startable == checkout.index = "none" /\ checkout.config = "none"

\* A failed write unlinks its file, if it can.  A network guard that is missing
\* is unexpected; the config has been written by then and is removed again.
StartFails ==
    /\ phase = "off"
    /\ phase' = "ended"
    /\ \/ /\ result' = "source_dirty"
          /\ checkout' \in {checkout} \cup {c \in {[checkout EXCEPT !.config = "other"]} : Startable}
       \/ Startable /\ result' = "process_crash" /\ UNCHANGED checkout
    /\ pending' = result'
    /\ UNCHANGED <<externals, tasks, leaving>>

Start ==
    /\ phase = "off" /\ Startable
    /\ checkout' = [checkout EXCEPT !.config = "controlled"]
    /\ phase' = "starting"
    /\ UNCHANGED <<externals, tasks, pending, leaving, result>>

LaunchFails ==
    /\ phase = "starting"
    /\ \E class \in {"node_not_found", "start_timeout", "process_crash"} : Conclude(class, FALSE)
    /\ UNCHANGED <<externals, watcher, read, activity, leaving>>

\* Without streams there is no watcher either, and _shutdown cannot do anything.
LaunchReturns ==
    /\ phase = "starting"
    /\ server' = "running"
    /\ \/ /\ phase' = "waiting"
          /\ watcher' = "watching" /\ outDrain' = "reading" /\ errDrain' = "reading"
          /\ UNCHANGED <<checkout, pending, result>>
       \/ Conclude("protocol_desynchronization", FALSE) /\ UNCHANGED watcher
    /\ UNCHANGED <<kin, read, activity, leaving>>

\* _raise_completed_reader_failures, stdout first
ReaderFailure ==
    IF outDrain \in StreamErrors THEN outDrain
    ELSE IF errDrain \in StreamErrors THEN errDrain ELSE None

\* return_task.result() of a finished watcher
EarlyExit ==
    CASE watcher = "watching" -> None
      [] watcher = "failed"   -> "process_crash"
      [] watcher = "done"     -> IF server = "killed" THEN "process_crash"
                                 ELSE "unexpected_exit_code"

\* One round of the loop of _wait_for_ready, from one await to the next.
CheckReady ==
    LET error == IF "network" \in read THEN "external_network_attempt"
                 ELSE IF "ready" \in read THEN None
                 ELSE IF ReaderFailure # None THEN ReaderFailure ELSE EarlyExit
    IN  /\ phase' = IF error = None /\ "ready" \notin read THEN "waiting" ELSE "closing"
        /\ pending' = error
        /\ activity' = FALSE
        /\ IF phase' = "waiting" THEN UNCHANGED <<outDrain, errDrain>> ELSE LetDrainsGo

WakeUp ==
    /\ phase = "waiting" /\ activity
    /\ CheckReady
    /\ UNCHANGED waitFrame

\* Mutant: there is no deadline for readiness.
ReadinessTimeoutMissing == FALSE

ReadinessTimeout ==
    /\ phase = "waiting"
    /\ phase' = "closing"
    /\ pending' = "start_timeout"
    /\ activity' = FALSE
    /\ LetDrainsGo
    /\ UNCHANGED waitFrame

-----------------------------------------------------------------------------
(***************************************************************************)
(* _shutdown, and the wait for the drains after it.                        *)
(***************************************************************************)
ShutdownRaises(error) == phase' = "gathering" /\ pending' = OrElse(pending, error)

shutdownFrame == <<checkout, externals, tasks, leaving, result>>

StdinClosed ==
    /\ phase = "closing"
    /\ phase' = "leaving"
    /\ UNCHANGED <<shutdownFrame, pending>>

ExitSeen ==
    /\ phase \in {"leaving", "yielding", "reaping"}
    /\ watcher = "done"
    /\ phase' = "verifying"
    /\ UNCHANGED <<shutdownFrame, pending>>

ExitDeadline ==
    /\ phase \in {"leaving", "yielding", "reaping"}
    /\ watcher = "watching"
    /\ IF phase = "reaping" THEN ShutdownRaises("shutdown_failed")
       ELSE /\ phase' = IF phase = "leaving" THEN "asking" ELSE "killing"
            /\ UNCHANGED pending
    /\ UNCHANGED shutdownFrame

\* The failure of the watcher is no OracleProcessError: it leaves run at once.
ExitUnknown ==
    /\ phase \in {"leaving", "yielding", "reaping"}
    /\ watcher = "failed"
    /\ phase' = "ended"
    /\ result' = "raised"
    /\ UNCHANGED <<checkout, externals, tasks, pending, leaving>>

\* _terminate: the signal is delivered, or it raises or is late.
Terminate ==
    /\ phase \in {"asking", "killing", "containing"}
    /\ \/ /\ phase' = [asking |-> "yielding", killing |-> "reaping",
                       containing |-> "reverifying"][phase]
          /\ UNCHANGED pending
       \/ ShutdownRaises("shutdown_failed")
    /\ UNCHANGED shutdownFrame

\* Mutant: descendants that survive are not looked for again.
VerifyOnce ==
    /\ phase \in {"verifying", "reverifying"}
    /\ IF kin /\ phase = "verifying" THEN phase' = "containing" /\ UNCHANGED pending
       ELSE phase' = "gathering" /\ UNCHANGED pending
    /\ UNCHANGED shutdownFrame

\* _finish_orphan_check: the verifier or the close of the job may fail.
Verify ==
    /\ phase \in {"verifying", "reverifying"}
    /\ \/ ShutdownRaises("shutdown_failed")
       \/ /\ kin /\ phase = "verifying"
          /\ phase' = "containing"
          /\ UNCHANGED pending
       \/ kin /\ phase = "reverifying" /\ ShutdownRaises("orphaned_child_process")
       \/ /\ ~kin
          /\ phase' = "gathering"
          /\ UNCHANGED pending
    /\ UNCHANGED shutdownFrame

Finish ==
    /\ phase = "gathering"
    /\ Conclude(pending, leaving)
    /\ UNCHANGED <<externals, watcher, read, activity, leaving>>

\* The task is cancelled.  Once a server runs it is shut down first; a shutdown
\* that is itself cancelled is left at once, with all that comes after it.
Cancel ==
    /\ ~leaving
    /\ leaving' = TRUE
    /\ activity' = FALSE
    /\ \/ phase = "starting" /\ Conclude(None, TRUE)
       \/ /\ phase = "waiting" /\ phase' = "closing"
          /\ LetDrainsGo
          /\ UNCHANGED <<checkout, pending, result>>
       \/ /\ phase \notin {"off", "starting", "waiting", "ended"}
          /\ phase' = "ended" /\ result' = "cancelled"
          /\ UNCHANGED <<checkout, outDrain, errDrain, pending>>
    /\ UNCHANGED <<externals, watcher, read>>

\* The steps of run itself, timers included.
Run ==
    \/ StartFails \/ Start \/ LaunchFails \/ LaunchReturns
    \/ WakeUp \/ ReadinessTimeout
    \/ StdinClosed \/ ExitSeen \/ ExitDeadline \/ ExitUnknown \/ Terminate \/ Verify
    \/ Finish

(***************************************************************************)
(* A server that was ready and is reported as such is gone, with all its   *)
(* descendants, and of the files it was run with or has written to its     *)
(* known places none is left, whatever happened in which order between its *)
(* start and its end.                                                      *)
(***************************************************************************)
ServerLeavesNothing ==
    result = "result" =>
        /\ "ready" \in read /\ "network" \notin read
        /\ ~Alive /\ server # "none"
        /\ checkout.config = "none" /\ checkout.index = "none"
=============================================================================
