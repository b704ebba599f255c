------------------------- MODULE ProcessRunnerProofs -------------------------
(***************************************************************************)
(* Proofs about ShowdownProcessRunner, for every interaction, limit and    *)
(* class of error: no wake-up is lost, run knows what became of the child  *)
(* whatever it ends with, and it reports the error that came first.        *)
(***************************************************************************)
EXTENDS ShowdownProcessRunner, TLAPS

LaunchPhases == {"starting", "dismissing", "dismantling", "emptying"}
ShutdownPhases == {"closing", "leaving", "asking", "yielding", "killing", "reaping",
                   "verifying", "containing", "rereaping", "reverifying"}
DrainStates == {"none", "reading", "ok", "cancelled"} \cup FailureClasses

RunnerTypes ==
    /\ phase \in LaunchPhases \cup {"writing", "awaiting"} \cup ShutdownPhases
                  \cup {"draining", "ended"}
    /\ child \in {"none", "running", "exited"}
    /\ code \in {None, "zero", "positive", "negative"}
    /\ watcher \in {"none", "watching", "done", "failed"}
    /\ stdout \in DrainStates /\ stderr \in DrainStates
    /\ pending \in FailureClasses \cup {None}
    /\ first \in FailureClasses \cup {None}
    /\ shutdownError \in {None, "shutdown_failed", "orphaned_child_process"}
    /\ kin \in BOOLEAN /\ marker \in BOOLEAN /\ activity \in BOOLEAN /\ cancelled \in BOOLEAN
    /\ sideError \in BOOLEAN /\ cleanupFailed \in BOOLEAN /\ forced \in BOOLEAN
    /\ forcedShutdown \in BOOLEAN /\ interrupted \in BOOLEAN

\* The child exists from the launch on, and its exit is collected after it.
ChildKnown ==
    /\ phase = "starting" => child = "none"
    /\ phase \notin {"starting", "ended"} => child # "none"
    /\ child = "none" => ~kin
    /\ phase = "dismissing" => ~kin
    /\ child = "exited" => code \in {"zero", "positive", "negative"}
    /\ watcher = "done" => child = "exited"

\* The first error of the interaction is pending until a failed cleanup takes its
\* place.
FirstPending == first # None => pending \in {first, "shutdown_failed"}

\* The steps of the interaction are over without an error.
StepsOver ==
    /\ step = Len(Steps) /\ Satisfied
    /\ stdout \notin {"none", "cancelled"} /\ stderr \notin {"none", "cancelled"}

InteractionEnds ==
    /\ phase \in {"writing", "awaiting"} =>
          stdout \notin {"none", "cancelled"} /\ stderr \notin {"none", "cancelled"}
    /\ phase \in ShutdownPhases \cup {"draining"} /\ pending = None /\ ~sideError /\ ~cancelled =>
          StepsOver

Gone == child # "running" /\ ~kin

\* What _shutdown knows when it returns or raises.
ShutdownKnows ==
    /\ phase \in {"yielding", "killing", "reaping", "rereaping", "reverifying"} => forced
    /\ phase = "verifying" => forced \/ watcher = "done"
    /\ phase = "draining" =>
          /\ shutdownError = None => Gone /\ (forcedShutdown \/ watcher = "done")
          /\ shutdownError # None => pending # None
          /\ shutdownError = "shutdown_failed" => pending = "shutdown_failed"

Verdicts ==
    /\ phase # "ended" => outcome = None
    /\ EndIsKnown /\ EarlierErrorKept

RunnerInv ==
    /\ RunnerTypes /\ ChildKnown /\ FirstPending /\ InteractionEnds /\ ShutdownKnows
    /\ NoLostWakeup /\ Verdicts

-----------------------------------------------------------------------------
LEMMA InitRunner == Init => RunnerInv
BY NoErrorAssumption
   DEF Init, RunnerInv, RunnerTypes, LaunchPhases, DrainStates, ChildKnown, FirstPending,
       InteractionEnds, ShutdownPhases, ShutdownKnows, NoLostWakeup, Verdicts, EndIsKnown,
       NothingLeftSilently, ResultMeansClean, EarlierErrorKept

\* Nothing is said of the end before it.
LEMMA NotEnded ==
    ASSUME phase' # "ended", outcome' = None
    PROVE  Verdicts'
BY NoErrorAssumption
   DEF Verdicts, EndIsKnown, NothingLeftSilently, ResultMeansClean, EarlierErrorKept

(***************************************************************************)
(* The child and the watcher.                                              *)
(***************************************************************************)
LEMMA ChildStep ==
    ASSUME RunnerInv, phase # "ended", ChildExits \/ KinChanges
    PROVE  RunnerInv'
<1>1. /\ UNCHANGED <<phase, watcher, drainVars, seen, activity, step, sideError, pending,
                     cancelled, cleanupVars, endVars, first>>
  BY DEF ChildExits, KinChanges
<1>2. RunnerTypes' /\ ChildKnown'
  <2>0. RunnerTypes /\ ChildKnown
    BY DEF RunnerInv
  <2>1. CASE ChildExits
    <3>1. kin' = kin /\ child = "running" /\ child' = "exited"
          /\ code' \in {"zero", "positive", "negative"}
      BY <2>1 DEF ChildExits
    <3> QED
      BY <1>1, <2>0, <3>1 DEF RunnerTypes, ChildKnown, drainVars, cleanupVars, endVars
  <2>2. CASE KinChanges
    <3>1. kin' = ~kin /\ child' = child /\ code' = code
          /\ ((child = "running" /\ phase # "dismissing") \/ kin)
      BY <2>2 DEF KinChanges
    <3>2. kin' \in BOOLEAN
      BY <3>1
    <3>3. RunnerTypes'
      BY <1>1, <2>0, <3>1, <3>2 DEF RunnerTypes, drainVars, cleanupVars, endVars
    <3>4. ChildKnown'
      BY <1>1, <2>0, <3>1 DEF ChildKnown
    <3> QED
      BY <3>3, <3>4
  <2> QED
    BY <2>1, <2>2
<1>3. FirstPending' /\ InteractionEnds'
  BY <1>1 DEF RunnerInv, FirstPending, InteractionEnds, StepsOver, Satisfied, drainVars
<1>4. ShutdownKnows'
  <2>1. Gone => Gone'
    BY DEF Gone, ChildExits, KinChanges
  <2> QED
    BY <1>1, <2>1 DEF RunnerInv, ShutdownKnows, cleanupVars
<1>5. NoLostWakeup'
  <2>1. ExitError' = ExitError
    <3>1. CASE ChildExits
      <4>1. watcher # "done"
        BY <3>1 DEF RunnerInv, ChildKnown, ChildExits
      <4> QED
        BY <1>1, <4>1 DEF ExitError
    <3>2. CASE KinChanges
      BY <1>1, <3>2 DEF ExitError, KinChanges
    <3> QED
      BY <3>1, <3>2
  <2> QED
    BY <1>1, <2>1 DEF RunnerInv, NoLostWakeup, DrainError, Satisfied, drainVars
<1>6. Verdicts'
  BY <1>1, NotEnded DEF RunnerInv, Verdicts, endVars
<1> QED
  BY <1>2, <1>3, <1>4, <1>5, <1>6 DEF RunnerInv

LEMMA WatcherStep ==
    ASSUME RunnerInv, phase # "ended", WatcherReturns
    PROVE  RunnerInv'
<1>1. /\ UNCHANGED <<phase, childVars, drainVars, seen, step, sideError, pending, cancelled,
                     cleanupVars, endVars, first>>
      /\ watcher = "watching" /\ watcher' \in {"done", "failed"}
      /\ watcher' = "done" => child = "exited"
      /\ activity' = Interacting
  BY DEF WatcherReturns
<1>2. RunnerTypes' /\ ChildKnown'
  BY <1>1 DEF RunnerInv, RunnerTypes, ChildKnown, childVars, drainVars, cleanupVars, endVars,
              Interacting
<1>3. FirstPending' /\ InteractionEnds'
  BY <1>1 DEF RunnerInv, FirstPending, InteractionEnds, StepsOver, Satisfied, drainVars
<1>4. ShutdownKnows'
  BY <1>1 DEF RunnerInv, ShutdownKnows, cleanupVars, childVars, Gone
<1>5. NoLostWakeup'
  BY <1>1 DEF NoLostWakeup, Interacting
<1>6. Verdicts'
  BY <1>1, NotEnded DEF RunnerInv, Verdicts, endVars
<1> QED
  BY <1>2, <1>3, <1>4, <1>5, <1>6 DEF RunnerInv

(***************************************************************************)
(* The drains: each step that run could be waiting for is an activity.     *)
(***************************************************************************)
LEMMA DrainStep ==
    ASSUME RunnerInv, phase # "ended", Drain
    PROVE  RunnerInv'
<1>1. /\ UNCHANGED <<phase, childVars, watcher, step, sideError, pending, cancelled,
                     cleanupVars, endVars, first>>
      /\ stdout' = stdout \/ (stdout = "reading" /\ stdout' \in DrainStates \ {"none", "cancelled"})
      /\ stderr' = stderr \/ (stderr = "reading" /\ stderr' \in DrainStates \ {"none", "cancelled"})
      /\ marker' \in BOOLEAN
      /\ Interacting \/ seen' = seen
      /\ \/ activity' = Interacting
         \/ UNCHANGED <<stdout, stderr, seen, activity>>
  <2>0. RunnerTypes
    BY DEF RunnerInv
  <2>1. CASE \E f \in Frames : ReadStdout(f)
    <3>1. PICK f \in Frames : ReadStdout(f)
      BY <2>1
    <3> QED
      BY <2>0, <3>1 DEF ReadStdout, DecodeError, otherThanStdout, RunnerTypes, DrainStates,
                        FailureClasses
  <2>2. CASE \E rest \in {None, "malformed_output", "protocol_desynchronization"} : StdoutEnds(rest)
    BY <2>0, <2>2 DEF StdoutEnds, FinishError, otherThanStdout, RunnerTypes, DrainStates,
                      FailureClasses
  <2>3. CASE \E error \in StdoutErrors : StdoutFails(error)
    <3>1. PICK error \in StdoutErrors : StdoutFails(error)
      BY <2>3
    <3>2. error \in DrainStates \ {"none", "cancelled"}
      BY ErrorsAssumption DEF DrainStates, FailureClasses
    <3> QED
      BY <2>0, <3>1, <3>2 DEF StdoutFails, otherThanStdout, RunnerTypes
  <2>4. CASE ReadMarker
    BY <2>0, <2>4 DEF ReadMarker, RunnerTypes
  <2>5. CASE \E result \in StderrErrors \cup {"ok"} : StderrEnds(result)
    <3>1. PICK result \in StderrErrors \cup {"ok"} : StderrEnds(result)
      BY <2>5
    <3>2. result \in DrainStates \ {"none", "cancelled"}
      BY ErrorsAssumption DEF DrainStates, FailureClasses
    <3> QED
      BY <2>0, <3>1, <3>2 DEF StderrEnds, RunnerTypes
  <2> QED
    BY <2>1, <2>2, <2>3, <2>4, <2>5 DEF Drain
<1>2. RunnerTypes' /\ ChildKnown'
  <2>0. RunnerTypes /\ ChildKnown
    BY DEF RunnerInv
  <2>1. activity' \in BOOLEAN /\ stdout' \in DrainStates /\ stderr' \in DrainStates
    <3>1. activity \in BOOLEAN /\ stdout \in DrainStates /\ stderr \in DrainStates
      BY <2>0 DEF RunnerTypes
    <3>2. Interacting \in BOOLEAN
      BY DEF Interacting
    <3> QED
      BY <1>1, <3>1, <3>2
  <2>2. RunnerTypes'
    BY <1>1, <2>0, <2>1 DEF RunnerTypes, childVars, cleanupVars, endVars
  <2>3. ChildKnown'
    BY <1>1, <2>0 DEF ChildKnown, childVars
  <2> QED
    BY <2>2, <2>3
<1>3. FirstPending' /\ InteractionEnds'
  <2>1. stdout \notin {"none", "cancelled"} => stdout' \notin {"none", "cancelled"}
    BY <1>1
  <2>2. stderr \notin {"none", "cancelled"} => stderr' \notin {"none", "cancelled"}
    BY <1>1
  <2>3. phase \in ShutdownPhases \cup {"draining"} /\ StepsOver => StepsOver'
    BY <1>1, <2>1, <2>2 DEF StepsOver, Satisfied, Interacting, ShutdownPhases
  <2> QED
    BY <1>1, <2>1, <2>2, <2>3 DEF RunnerInv, FirstPending, InteractionEnds
<1>4. ShutdownKnows'
  BY <1>1 DEF RunnerInv, ShutdownKnows, cleanupVars, childVars, Gone
<1>5. NoLostWakeup'
  <2>1. CASE activity' = Interacting
    BY <1>1, <2>1 DEF NoLostWakeup, Interacting
  <2>2. CASE UNCHANGED <<stdout, stderr, seen, activity>>
    BY <1>1, <2>2 DEF RunnerInv, NoLostWakeup, DrainError, Satisfied, ExitError, childVars
  <2> QED
    BY <1>1, <2>1, <2>2
<1>6. Verdicts'
  BY <1>1, NotEnded DEF RunnerInv, Verdicts, endVars
<1> QED
  BY <1>2, <1>3, <1>4, <1>5, <1>6 DEF RunnerInv

-----------------------------------------------------------------------------
(***************************************************************************)
(* The launch.  A launch that fails is an end whose error is the first.    *)
(***************************************************************************)
LEMMA EndOfLaunch ==
    ASSUME RunnerInv, RunnerTypes', ChildKnown', phase' = "ended",
           first' \in FailureClasses, pending' = first', outcome' = first',
           \/ interrupted'
           \/ child' # "running" /\ ~kin'
           \/ shutdownError' # None /\ first' = "shutdown_failed"
    PROVE  RunnerInv'
<1>1. FirstPending' /\ InteractionEnds' /\ ShutdownKnows' /\ NoLostWakeup'
  BY DEF FirstPending, InteractionEnds, ShutdownKnows, NoLostWakeup, ShutdownPhases
<1>2. Verdicts'
  <2>1. outcome' # "result"
    BY DEF FailureClasses
  <2> QED
    BY <2>1 DEF Verdicts, EndIsKnown, NothingLeftSilently, ResultMeansClean, EarlierErrorKept
<1> QED
  BY <1>1, <1>2 DEF RunnerInv

LEMMA LaunchErrorStep ==
    ASSUME RunnerInv, (\E error \in LaunchErrors : LaunchFails(error)) \/ StartTimeout
    PROVE  RunnerInv'
<1>0. RunnerTypes /\ ChildKnown
  BY DEF RunnerInv
<1>1. CASE \E error \in LaunchErrors : LaunchFails(error)
  <2>1. PICK error \in LaunchErrors : LaunchFails(error)
    BY <1>1
  <2>2. error \in FailureClasses
    BY ErrorsAssumption
  <2>3. /\ phase = "starting" /\ phase' = "ended"
        /\ first' = error /\ pending' = error /\ outcome' = error
        /\ UNCHANGED <<childVars, watcher, drainVars, activity, sideError, cancelled,
                       cleanupVars, interrupted>>
    BY <2>1 DEF LaunchFails
  <2>4. RunnerTypes'
    BY <1>0, <2>2, <2>3 DEF RunnerTypes, childVars, drainVars, cleanupVars
  <2>5. ChildKnown' /\ child' # "running" /\ ~kin'
    BY <1>0, <2>3 DEF ChildKnown, childVars
  <2> QED
    BY <2>2, <2>3, <2>4, <2>5, EndOfLaunch
<1>2. CASE StartTimeout
  <2>1. /\ phase \in LaunchPhases /\ phase' = "ended"
        /\ first' = "start_timeout" /\ pending' = "start_timeout" /\ outcome' = "start_timeout"
        /\ interrupted' = (phase # "starting")
        /\ UNCHANGED <<childVars, watcher, drainVars, activity, sideError, cancelled, cleanupVars>>
    BY <1>2 DEF StartTimeout, LaunchPhases
  <2>2. "start_timeout" \in FailureClasses /\ interrupted' \in BOOLEAN
    BY <2>1 DEF FailureClasses
  <2>3. RunnerTypes'
    BY <1>0, <2>1, <2>2 DEF RunnerTypes, childVars, drainVars, cleanupVars
  <2>4. ChildKnown' /\ (interrupted' \/ (child' # "running" /\ ~kin'))
    BY <1>0, <2>1 DEF ChildKnown, childVars
  <2> QED
    BY <2>1, <2>2, <2>3, <2>4, EndOfLaunch
<1> QED
  BY <1>1, <1>2

\* The clean-up of a failed launch raises, and knows whether the child is gone.
LEMMA SetupRaisesStep ==
    ASSUME RunnerInv, NEW failed \in BOOLEAN, SetupRaises(failed), phase \in LaunchPhases,
           UNCHANGED <<childVars, launchFrame>>,
           failed \/ (child = "exited" /\ ~kin)
    PROVE  RunnerInv'
<1>0. RunnerTypes /\ ChildKnown
  BY DEF RunnerInv
<1>1. PICK error \in {"shutdown_failed", "process_crash"} :
         /\ error = IF failed THEN "shutdown_failed" ELSE "process_crash"
         /\ phase' = "ended" /\ first' = error /\ pending' = error /\ outcome' = error
         /\ shutdownError' = IF failed THEN error ELSE None
         /\ cleanupFailed' = failed
  BY DEF SetupRaises
<1>2. error \in FailureClasses /\ "shutdown_failed" # None
  BY NoErrorAssumption DEF FailureClasses
<1>3. /\ UNCHANGED <<child, code, kin, watcher, stdout, stderr, marker, activity, sideError,
                     cancelled, forced, forcedShutdown, interrupted>>
      /\ shutdownError' \in {None, "shutdown_failed"}
  BY <1>1 DEF childVars, launchFrame, drainVars
<1>4. RunnerTypes'
  BY <1>0, <1>1, <1>2, <1>3 DEF RunnerTypes
<1>5. ChildKnown'
  BY <1>0, <1>1, <1>3 DEF ChildKnown
<1> QED
  BY <1>1, <1>2, <1>3, <1>4, <1>5, EndOfLaunch

LEMMA SetupStep ==
    ASSUME RunnerInv, AssignFails \/ ResumeFails \/ SetupReaped \/ JobEmptied
    PROVE  RunnerInv'
<1>0. RunnerTypes /\ ChildKnown
  BY DEF RunnerInv
<1>1. ASSUME phase \in LaunchPhases, phase' \in {"dismissing", "dismantling", "emptying"},
             cleanupFailed' \in BOOLEAN,
             \/ child' = child /\ child # "none"
             \/ child' = "running" /\ phase = "starting",
             phase' = "dismissing" => phase = "starting",
             UNCHANGED <<code, kin, first, pending, outcome, shutdownError, launchFrame>>
      PROVE  RunnerInv'
  <2>1. UNCHANGED <<watcher, stdout, stderr, marker, activity, sideError, cancelled, forced,
                    forcedShutdown, interrupted>>
    BY <1>1 DEF launchFrame, drainVars
  <2>2. RunnerTypes'
    BY <1>0, <1>1, <2>1 DEF RunnerTypes, LaunchPhases
  <2>3. ChildKnown'
    <3>1. watcher = "done" => phase # "starting"
      BY <1>0 DEF ChildKnown
    <3> QED
      BY <1>0, <1>1, <2>1, <3>1 DEF ChildKnown
  <2>4. FirstPending' /\ InteractionEnds' /\ ShutdownKnows' /\ NoLostWakeup'
    BY <1>1 DEF RunnerInv, FirstPending, InteractionEnds, ShutdownKnows, NoLostWakeup,
                ShutdownPhases
  <2>5. Verdicts'
    BY <1>1, NotEnded DEF RunnerInv, Verdicts, LaunchPhases
  <2> QED
    BY <2>2, <2>3, <2>4, <2>5 DEF RunnerInv
<1>2. CASE AssignFails \/ ResumeFails
  BY <1>1, <1>2 DEF AssignFails, ResumeFails, SetupFails, LaunchPhases
<1>3. CASE SetupReaped
  <2>1. PICK waitFailed \in BOOLEAN :
           /\ waitFailed \/ child = "exited"
           /\ \/ /\ phase = "dismissing"
                 /\ SetupRaises(cleanupFailed \/ waitFailed)
              \/ /\ phase = "dismantling"
                 /\ phase' = "emptying"
                 /\ cleanupFailed' = (cleanupFailed \/ waitFailed)
                 /\ UNCHANGED <<first, pending, outcome, shutdownError>>
           /\ UNCHANGED <<childVars, launchFrame>>
    BY <1>3 DEF SetupReaped
  <2>2. CASE phase = "dismissing"
    <3>1. PICK failed \in BOOLEAN : failed = (cleanupFailed \/ waitFailed)
      OBVIOUS
    <3>2. failed \/ (child = "exited" /\ ~kin)
      BY <1>0, <2>1, <2>2, <3>1 DEF ChildKnown
    <3>3. SetupRaises(failed)
      BY <2>1, <2>2, <3>1
    <3> QED
      BY <2>1, <2>2, <3>2, <3>3, SetupRaisesStep DEF LaunchPhases
  <2>3. CASE phase = "dismantling"
    <3>1. child' = child /\ child # "none" /\ code' = code /\ kin' = kin
      BY <1>0, <2>1, <2>3 DEF ChildKnown, childVars
    <3>2. phase' = "emptying" /\ cleanupFailed' \in BOOLEAN
          /\ UNCHANGED <<first, pending, outcome, shutdownError, launchFrame>>
      BY <2>1, <2>3
    <3> QED
      BY <1>1, <2>3, <3>1, <3>2 DEF LaunchPhases
  <2> QED
    BY <2>1, <2>2, <2>3
<1>4. CASE JobEmptied
  <2>1. PICK empty \in BOOLEAN, jobClosed \in BOOLEAN :
           /\ empty => child = "exited" /\ ~kin
           /\ SetupRaises(cleanupFailed \/ ~empty \/ ~jobClosed)
    BY <1>4 DEF JobEmptied
  <2>2. PICK failed \in BOOLEAN : failed = (cleanupFailed \/ ~empty \/ ~jobClosed)
    OBVIOUS
  <2>3. phase \in LaunchPhases /\ UNCHANGED <<childVars, launchFrame>>
    BY <1>4 DEF JobEmptied, LaunchPhases
  <2> QED
    BY <2>1, <2>2, <2>3, SetupRaisesStep
<1> QED
  BY <1>2, <1>3, <1>4

LEMMA LaunchStep ==
    ASSUME RunnerInv, LaunchReturns \/ LaunchWithoutStreams
    PROVE  RunnerInv'
<1>0. RunnerTypes /\ ChildKnown
  BY DEF RunnerInv
<1>1. /\ phase = "starting" /\ child' = "running" /\ watcher' = "watching"
      /\ UNCHANGED <<code, kin, marker, seen, step, sideError, cancelled, cleanupVars, endVars>>
      /\ activity' = activity
  BY DEF LaunchReturns, LaunchWithoutStreams, drainVars
<1>2. CASE LaunchReturns
  <2>1. /\ phase' = "writing" /\ stdout' = "reading" /\ stderr' = "reading"
        /\ pending' = pending /\ first' = first
    BY <1>2 DEF LaunchReturns
  <2>2. RunnerTypes'
    BY <1>0, <1>1, <2>1 DEF RunnerTypes, cleanupVars, endVars, DrainStates
  <2>3. ChildKnown'
    BY <1>0, <1>1, <2>1 DEF ChildKnown
  <2>4. FirstPending' /\ InteractionEnds' /\ ShutdownKnows' /\ NoLostWakeup'
    BY <2>1 DEF RunnerInv, FirstPending, InteractionEnds, ShutdownKnows, NoLostWakeup,
                ShutdownPhases
  <2>5. Verdicts'
    BY <1>1, <2>1, NotEnded DEF RunnerInv, Verdicts, endVars
  <2> QED
    BY <2>2, <2>3, <2>4, <2>5 DEF RunnerInv
<1>3. CASE LaunchWithoutStreams
  <2>1. /\ phase' = "closing" /\ stdout' = stdout /\ stderr' = stderr
        /\ pending' = "protocol_desynchronization" /\ first' = pending'
    BY <1>3 DEF LaunchWithoutStreams, drainVars
  <2>2. RunnerTypes'
    BY <1>0, <1>1, <2>1 DEF RunnerTypes, cleanupVars, endVars, ShutdownPhases, FailureClasses
  <2>3. ChildKnown'
    BY <1>0, <1>1, <2>1 DEF ChildKnown
  <2>4. FirstPending' /\ InteractionEnds' /\ ShutdownKnows' /\ NoLostWakeup'
    BY <2>1, NoErrorAssumption
       DEF FirstPending, InteractionEnds, ShutdownKnows, NoLostWakeup, ShutdownPhases,
           FailureClasses
  <2>5. Verdicts'
    BY <1>1, <2>1, NotEnded DEF RunnerInv, Verdicts, endVars
  <2> QED
    BY <2>2, <2>3, <2>4, <2>5 DEF RunnerInv
<1> QED
  BY <1>2, <1>3

-----------------------------------------------------------------------------
(***************************************************************************)
(* The interaction.                                                        *)
(***************************************************************************)
LEMMA InteractionStep ==
    ASSUME RunnerInv, Interacting, UNCHANGED interactionFrame,
           phase' \in {"writing", "awaiting", "closing"},
           activity' \in BOOLEAN, sideError' \in BOOLEAN,
           pending' \in FailureClasses \cup {None}, first' \in FailureClasses \cup {None},
           FirstPending', NoLostWakeup',
           phase' = "closing" /\ pending' = None /\ ~sideError' =>
               step' = Len(Steps) /\ Satisfied'
    PROVE  RunnerInv'
<1>0. RunnerTypes /\ ChildKnown /\ InteractionEnds
  BY DEF RunnerInv
<1>1. /\ UNCHANGED <<child, code, kin, watcher, stdout, stderr, marker, cleanupVars, outcome,
                     interrupted, cancelled>>
      /\ phase \in {"writing", "awaiting"}
  BY DEF interactionFrame, childVars, drainVars, endVars, Interacting
<1>2. RunnerTypes'
  BY <1>0, <1>1 DEF RunnerTypes, cleanupVars, ShutdownPhases
<1>3. ChildKnown'
  BY <1>0, <1>1 DEF ChildKnown
<1>4. InteractionEnds'
  BY <1>0, <1>1 DEF InteractionEnds, StepsOver, ShutdownPhases
<1>5. ShutdownKnows'
  BY DEF ShutdownKnows
<1>6. Verdicts'
  BY <1>1, NotEnded DEF RunnerInv, Verdicts
<1> QED
  BY <1>2, <1>3, <1>4, <1>5, <1>6 DEF RunnerInv

LEMMA FailsStep ==
    ASSUME RunnerInv, Interacting, UNCHANGED interactionFrame,
           NEW error \in FailureClasses, InteractionFails(error)
    PROVE  RunnerInv'
<1>1. /\ phase' = "closing" /\ pending' = error /\ first' = error /\ activity' = FALSE
      /\ sideError' = sideError /\ sideError \in BOOLEAN
  BY DEF InteractionFails, RunnerInv, RunnerTypes
<1>2. FirstPending' /\ NoLostWakeup' /\ pending' # None
  BY <1>1, NoErrorAssumption DEF FirstPending, NoLostWakeup
<1> QED
  BY <1>1, <1>2, InteractionStep

LEMMA BarrierStep ==
    ASSUME RunnerInv, Interacting, UNCHANGED interactionFrame, CheckBarrier
    PROVE  RunnerInv'
<1>0. RunnerTypes /\ FirstPending
  BY DEF RunnerInv
<1>a. /\ activity \in BOOLEAN /\ sideError \in BOOLEAN
      /\ pending \in FailureClasses \cup {None} /\ first \in FailureClasses \cup {None}
  BY <1>0 DEF RunnerTypes
<1>1. CASE \E error \in FailureClasses : InteractionFails(error)
  BY <1>1, FailsStep
<1>2. CASE Satisfied /\ StepDone
  <2>1. UNCHANGED <<sideError, pending, first>> /\ phase' \in {"writing", "closing"}
        /\ activity' \in BOOLEAN
    BY <1>a, <1>2 DEF StepDone
  <2>2. FirstPending' /\ NoLostWakeup'
    BY <1>0, <2>1 DEF FirstPending, NoLostWakeup
  <2>3. phase' = "closing" => step' = Len(Steps) /\ Satisfied'
    BY <1>2 DEF StepDone, Satisfied
  <2> QED
    BY <1>a, <2>1, <2>2, <2>3, InteractionStep
<1>3. CASE StopAtSideError
  <2>1. /\ sideError' = TRUE /\ phase' = "closing" /\ activity' = FALSE
        /\ UNCHANGED <<pending, first>>
    BY <1>3 DEF StopAtSideError
  <2>2. FirstPending' /\ NoLostWakeup'
    BY <1>0, <2>1 DEF FirstPending, NoLostWakeup
  <2> QED
    BY <1>a, <2>1, <2>2, InteractionStep
<1>4. CASE /\ DrainError = None /\ ~Satisfied /\ "side_error" \notin seen /\ ExitError = None
           /\ stdout # "ok" /\ AwaitActivity
  <2>1. /\ phase' = "awaiting" /\ activity' = FALSE
        /\ UNCHANGED <<step, seen, sideError, pending, first>>
    BY <1>4 DEF AwaitActivity
  <2>2. UNCHANGED <<code, watcher, stdout, stderr>>
    BY DEF interactionFrame, childVars, drainVars
  <2>3. NoLostWakeup'
    BY <1>4, <2>1, <2>2 DEF NoLostWakeup, DrainError, Satisfied, ExitError
  <2>4. FirstPending'
    BY <1>0, <2>1 DEF FirstPending
  <2> QED
    BY <1>a, <2>1, <2>3, <2>4, InteractionStep
<1>5. DrainError \in FailureClasses \cup {None}
  BY DEF DrainError
<1>6. ExitError \in FailureClasses \cup {None}
  BY DEF ExitError, FailureClasses
<1>7. "protocol_desynchronization" \in FailureClasses
  BY DEF FailureClasses
<1> QED
  BY <1>1, <1>2, <1>3, <1>4, <1>5, <1>6, <1>7 DEF CheckBarrier

LEMMA InteractionSteps ==
    ASSUME RunnerInv, WriteReturns \/ WakeUp \/ InteractionTimeout
    PROVE  RunnerInv'
<1>1. CASE WriteReturns \/ WakeUp
  BY <1>1, BarrierStep DEF WriteReturns, WakeUp, Interacting
<1>2. CASE InteractionTimeout
  <2>1. PICK error \in {"fixture_timeout", "write_timeout", "process_crash", "response_timeout"} :
           InteractionFails(error)
    BY <1>2 DEF InteractionTimeout
  <2>2. error \in FailureClasses
    BY DEF FailureClasses
  <2> QED
    BY <1>2, <2>1, <2>2, FailsStep DEF InteractionTimeout
<1> QED
  BY <1>1, <1>2

-----------------------------------------------------------------------------
(***************************************************************************)
(* The shutdown.                                                           *)
(***************************************************************************)
LEMMA ShutdownStep ==
    ASSUME RunnerInv, phase \in ShutdownPhases, phase' \in ShutdownPhases \cup {"draining"},
           UNCHANGED shutdownFrame, FirstPending', ShutdownKnows',
           pending' \in FailureClasses \cup {None}, pending' = None => pending = None,
           shutdownError' \in {None, "shutdown_failed", "orphaned_child_process"},
           cleanupFailed' \in BOOLEAN, forced' \in BOOLEAN, forcedShutdown' \in BOOLEAN
    PROVE  RunnerInv'
<1>0. RunnerTypes /\ ChildKnown /\ InteractionEnds
  BY DEF RunnerInv
<1>1. /\ UNCHANGED <<child, code, kin, watcher, stdout, stderr, marker, seen, activity, step,
                     sideError, cancelled, outcome, interrupted, first>>
  BY DEF shutdownFrame, drainVars, endVars
<1>2. RunnerTypes'
  BY <1>0, <1>1 DEF RunnerTypes
<1>3. ChildKnown'
  BY <1>0, <1>1 DEF ChildKnown, ShutdownPhases
<1>4. InteractionEnds'
  BY <1>0, <1>1 DEF InteractionEnds, StepsOver, Satisfied, ShutdownPhases
<1>5. NoLostWakeup'
  BY DEF NoLostWakeup, ShutdownPhases
<1>6. Verdicts'
  BY <1>1, NotEnded DEF RunnerInv, Verdicts, ShutdownPhases
<1> QED
  BY <1>2, <1>3, <1>4, <1>5, <1>6 DEF RunnerInv

\* The steps that wait for the exit of the child.
LEMMA ExitWaitStep ==
    ASSUME RunnerInv, StdinClosed \/ ExitSeen \/ ExitDeadline \/ ExitUnknown
    PROVE  RunnerInv'
<1>0. RunnerTypes /\ FirstPending /\ ShutdownKnows
  BY DEF RunnerInv
<1>1. CASE StdinClosed
  <2>1. /\ phase = "closing" /\ phase' = "leaving"
        /\ UNCHANGED <<shutdownFrame, pending, cleanupVars>>
    BY <1>1 DEF StdinClosed
  <2>2. FirstPending' /\ ShutdownKnows'
    BY <1>0, <2>1 DEF FirstPending, ShutdownKnows, shutdownFrame
  <2> QED
    BY <1>0, <2>1, <2>2, ShutdownStep DEF RunnerTypes, ShutdownPhases, cleanupVars
<1>2. CASE ExitSeen
  <2>1. /\ phase \in {"leaving", "yielding", "reaping", "rereaping"} /\ watcher = "done"
        /\ phase' = IF phase = "rereaping" THEN "reverifying" ELSE "verifying"
        /\ UNCHANGED <<shutdownFrame, pending, cleanupVars>>
    BY <1>2 DEF ExitSeen, AfterExit
  <2>2. FirstPending' /\ ShutdownKnows'
    BY <1>0, <2>1 DEF FirstPending, ShutdownKnows, shutdownFrame, cleanupVars
  <2> QED
    BY <1>0, <2>1, <2>2, ShutdownStep DEF RunnerTypes, ShutdownPhases, cleanupVars
<1>3. CASE ExitDeadline
  <2>1. /\ \/ phase = "leaving" /\ phase' = "asking"
           \/ phase = "yielding" /\ phase' = "killing"
           \/ phase = "reaping" /\ phase' = "verifying"
           \/ phase = "rereaping" /\ phase' = "reverifying"
        /\ UNCHANGED <<shutdownFrame, pending, forced, forcedShutdown, shutdownError>>
        /\ cleanupFailed' \in BOOLEAN
    BY <1>0, <1>3 DEF ExitDeadline, AfterDeadline, RunnerTypes
  <2>2. FirstPending' /\ ShutdownKnows'
    BY <1>0, <2>1 DEF FirstPending, ShutdownKnows, shutdownFrame
  <2> QED
    BY <1>0, <2>1, <2>2, ShutdownStep DEF RunnerTypes, ShutdownPhases
<1>4. CASE ExitUnknown
  <2>1. /\ phase \in ShutdownPhases /\ phase' = "draining"
        /\ pending' = "shutdown_failed" /\ shutdownError' = "shutdown_failed"
        /\ UNCHANGED <<shutdownFrame, cleanupFailed, forced, forcedShutdown>>
    BY <1>4 DEF ExitUnknown, AfterExit, ShutdownPhases
  <2>2. FirstPending' /\ ShutdownKnows' /\ pending' \in FailureClasses /\ pending' # None
    BY <2>1, NoErrorAssumption DEF FirstPending, ShutdownKnows, FailureClasses
  <2> QED
    BY <1>0, <2>1, <2>2, ShutdownStep DEF RunnerTypes
<1> QED
  BY <1>1, <1>2, <1>3, <1>4

LEMMA TerminateStep ==
    ASSUME RunnerInv, Terminate
    PROVE  RunnerInv'
<1>0. RunnerTypes /\ FirstPending /\ ShutdownKnows
  BY DEF RunnerInv
<1>1. /\ phase \in {"asking", "killing", "containing"}
      /\ phase' \in {"yielding", "killing", "reaping", "rereaping"}
      /\ forced' = TRUE /\ cleanupFailed' \in BOOLEAN
      /\ UNCHANGED <<shutdownFrame, pending, forcedShutdown, shutdownError>>
  <2>1. /\ phase \in {"asking", "killing", "containing"} /\ forced' = TRUE
        /\ UNCHANGED <<shutdownFrame, pending, forcedShutdown, shutdownError>>
        /\ cleanupFailed' = cleanupFailed \/ cleanupFailed' = TRUE
    BY DEF Terminate
  <2>2. \/ phase' = [asking |-> "yielding", killing |-> "reaping", containing |-> "rereaping"][phase]
        \/ phase' = [asking |-> "killing", killing |-> "reaping", containing |-> "rereaping"][phase]
    BY DEF Terminate
  <2>3. phase' \in {"yielding", "killing", "reaping", "rereaping"}
    BY <2>1, <2>2
  <2> QED
    BY <1>0, <2>1, <2>3 DEF RunnerTypes
<1>2. FirstPending' /\ ShutdownKnows'
  BY <1>0, <1>1 DEF FirstPending, ShutdownKnows, shutdownFrame
<1> QED
  BY <1>0, <1>1, <1>2, ShutdownStep DEF RunnerTypes, ShutdownPhases

\* The shutdown returns or raises; what it raises has been found out.
LEMMA FinishStep ==
    ASSUME RunnerInv, phase \in {"verifying", "reverifying"},
           NEW failed \in BOOLEAN, NEW orphaned \in BOOLEAN,
           FinishShutdown(failed, orphaned), UNCHANGED <<shutdownFrame, forced, signalled>>,
           cleanupFailed' \in BOOLEAN,
           ~failed /\ ~orphaned => Gone
    PROVE  RunnerInv'
<1>0. RunnerTypes /\ FirstPending /\ ShutdownKnows
  BY DEF RunnerInv
<1>1. PICK closeFailed \in BOOLEAN :
         /\ shutdownError' = ShutdownError(failed \/ closeFailed, orphaned)
         /\ pending' = IF /\ ShutdownError(failed \/ closeFailed, orphaned) # None
                          /\ \/ pending = None
                             \/ ShutdownError(failed \/ closeFailed, orphaned) = "shutdown_failed"
                       THEN ShutdownError(failed \/ closeFailed, orphaned) ELSE pending
         /\ forcedShutdown' = (ShutdownError(failed \/ closeFailed, orphaned) = None /\ forced)
         /\ phase' = "draining"
  BY DEF FinishShutdown
<1>2. PICK error : error = ShutdownError(failed \/ closeFailed, orphaned)
  OBVIOUS
<1>3. /\ error \in {None, "shutdown_failed", "orphaned_child_process"}
      /\ error = None => ~failed /\ ~orphaned
      /\ "shutdown_failed" \in FailureClasses /\ "orphaned_child_process" \in FailureClasses
  BY <1>2, NoErrorAssumption DEF ShutdownError, FailureClasses
<1>4. /\ shutdownError' = error /\ phase' = "draining"
      /\ pending' = IF error # None /\ (pending = None \/ error = "shutdown_failed")
                    THEN error ELSE pending
      /\ forcedShutdown' = (error = None /\ forced)
  BY <1>1, <1>2
<1>5. FirstPending'
  <2>1. first' = first
    BY DEF shutdownFrame
  <2>2. first # None => first \in FailureClasses /\ first # None
    BY <1>0 DEF RunnerTypes
  <2> QED
    BY <1>0, <1>3, <1>4, <2>1, <2>2, NoErrorAssumption DEF FirstPending
<1>6. ShutdownKnows'
  <2>1. error = None => Gone'
    BY <1>3 DEF Gone, shutdownFrame
  <2>2. error = None => forcedShutdown' \/ watcher' = "done"
    BY <1>0, <1>4 DEF ShutdownKnows, RunnerTypes, shutdownFrame
  <2>3. error # None => pending' # None
    BY <1>3, <1>4
  <2>4. error = "shutdown_failed" => pending' = "shutdown_failed"
    BY <1>3, <1>4, NoErrorAssumption
  <2> QED
    BY <1>4, <2>1, <2>2, <2>3, <2>4 DEF ShutdownKnows
<1>7. /\ pending' \in FailureClasses \cup {None} /\ (pending' = None => pending = None)
      /\ forced' \in BOOLEAN /\ forcedShutdown' \in BOOLEAN
  BY <1>0, <1>3, <1>4 DEF RunnerTypes
<1> QED
  BY <1>3, <1>4, <1>5, <1>6, <1>7, ShutdownStep DEF ShutdownPhases

LEMMA VerifyStep ==
    ASSUME RunnerInv, Verify
    PROVE  RunnerInv'
<1>0. RunnerTypes /\ FirstPending /\ ShutdownKnows
  BY DEF RunnerInv
<1>1. PICK verifierFailed \in BOOLEAN, left \in Orphans :
         LET orphaned == ~verifierFailed /\ left
             failed == cleanupFailed \/ verifierFailed
         IN  /\ phase \in {"verifying", "reverifying"}
             /\ cleanupFailed' = failed
             /\ IF phase = "verifying" /\ (orphaned \/ verifierFailed)
                THEN /\ phase' = "containing"
                     /\ UNCHANGED <<pending, forcedShutdown, shutdownError>>
                ELSE FinishShutdown(failed, orphaned)
             /\ UNCHANGED <<shutdownFrame, forced, signalled>>
  BY DEF Verify
<1>2. PICK orphaned \in BOOLEAN : orphaned = (~verifierFailed /\ left)
  OBVIOUS
<1>3. PICK failed \in BOOLEAN : failed = (cleanupFailed \/ verifierFailed)
  OBVIOUS
<1>4. ~failed /\ ~orphaned => Gone
  <2>1. left = (kin \/ child = "running") \/ left = TRUE
    BY DEF Orphans
  <2> QED
    BY <1>2, <1>3, <2>1 DEF Gone
<1>5. /\ phase \in {"verifying", "reverifying"} /\ cleanupFailed' = failed
      /\ UNCHANGED <<shutdownFrame, forced, signalled>>
  BY <1>1, <1>3
<1>6. CASE phase' = "containing" /\ UNCHANGED <<pending, forcedShutdown, shutdownError>>
  <2>1. FirstPending' /\ ShutdownKnows'
    BY <1>0, <1>5, <1>6 DEF FirstPending, ShutdownKnows, shutdownFrame
  <2> QED
    BY <1>0, <1>5, <1>6, <2>1, ShutdownStep DEF RunnerTypes, ShutdownPhases
<1>7. CASE FinishShutdown(failed, orphaned)
  BY <1>4, <1>5, <1>7, FinishStep
<1> QED
  BY <1>1, <1>2, <1>3, <1>6, <1>7

-----------------------------------------------------------------------------
(***************************************************************************)
(* The end of run.  The verdict over an error is never a result, and keeps *)
(* the error unless the child's exit explains it.                          *)
(***************************************************************************)
LEMMA VerdictOfError ==
    ASSUME NEW error \in FailureClasses
    PROVE  /\ Verdict(error) # "result"
           /\ \/ Verdict(error) \in {error, "external_network_attempt", "cancelled"}
              \/ /\ error \in GenericOutputFailures
                 /\ Verdict(error) \in {"process_crash", "unexpected_exit_code"}
<1>1. ExitError \in {None, "process_crash", "unexpected_exit_code"}
  BY DEF ExitError
<1>2. error # None
  BY NoErrorAssumption
<1> QED
  BY <1>1, <1>2 DEF Verdict, PreferIndependentExit, FailureClasses

LEMMA VerdictOfNone ==
    ASSUME Verdict(None) = "result"
    PROVE  ~cancelled /\ ~marker /\ (forcedShutdown \/ ExitError = None)
<1>1. ExitError \in {None, "process_crash", "unexpected_exit_code"}
  BY DEF ExitError
<1>2. ~cancelled /\ ~marker
  BY DEF Verdict
<1>3. ~forcedShutdown /\ ExitError # None => Verdict(None) = ExitError
  BY <1>2 DEF Verdict
<1> QED
  BY <1>1, <1>2, <1>3

\* The steps that end run after the shutdown.
LEMMA LastStep ==
    ASSUME RunnerInv, phase = "draining", NEW verdict, EndWith(verdict), Verdicts',
           pending' \in {pending, "shutdown_failed"},
           stdout' \in {stdout, "cancelled"}, stderr' \in {stderr, "cancelled"}
    PROVE  RunnerInv'
<1>0. RunnerTypes /\ ChildKnown /\ FirstPending
  BY DEF RunnerInv
<1>1. /\ phase' = "ended"
      /\ UNCHANGED <<child, code, kin, watcher, marker, activity, sideError, cancelled,
                     cleanupVars, interrupted, first>>
  BY DEF EndWith, childVars
<1>2. RunnerTypes'
  <2>1. "shutdown_failed" \in FailureClasses /\ "cancelled" \in DrainStates
    BY DEF FailureClasses, DrainStates
  <2> QED
    BY <1>0, <1>1, <2>1 DEF RunnerTypes, cleanupVars
<1>3. ChildKnown' /\ FirstPending'
  BY <1>0, <1>1 DEF ChildKnown, FirstPending
<1>4. InteractionEnds' /\ ShutdownKnows' /\ NoLostWakeup'
  BY <1>1 DEF InteractionEnds, ShutdownKnows, NoLostWakeup, ShutdownPhases
<1> QED
  BY <1>2, <1>3, <1>4 DEF RunnerInv

LEMMA CancelledDrainsStep ==
    ASSUME RunnerInv, DrainsCancelled
    PROVE  RunnerInv'
<1>0. RunnerTypes /\ ChildKnown /\ FirstPending /\ InteractionEnds /\ ShutdownKnows
  BY DEF RunnerInv
<1>1. /\ phase = "draining" /\ (pending # None \/ sideError)
      /\ stdout' \in {stdout, "cancelled"} /\ stderr' \in {stderr, "cancelled"}
      /\ pending' = pending /\ EndWith(Verdict(pending))
  BY <1>0 DEF DrainsCancelled, RequireCleanDrain, CancelDrain, RunnerTypes
<1>2. /\ phase' = "ended" /\ outcome' = Verdict(pending)
      /\ UNCHANGED <<child, code, kin, watcher, marker, sideError, shutdownError, forcedShutdown,
                     interrupted, first>>
  BY <1>1 DEF EndWith, childVars, cleanupVars
<1>3. pending # None => pending \in FailureClasses
  BY <1>0 DEF RunnerTypes
<1>4. NothingLeftSilently'
  <2>1. shutdownError = None => Gone
    BY <1>0, <1>1 DEF ShutdownKnows
  <2>2. shutdownError = "shutdown_failed" =>
           outcome' \in {"shutdown_failed", "external_network_attempt", "cancelled"}
    <3>1. SUFFICES ASSUME shutdownError = "shutdown_failed"
                   PROVE  outcome' \in {"shutdown_failed", "external_network_attempt", "cancelled"}
      OBVIOUS
    <3>2. pending = "shutdown_failed" /\ "shutdown_failed" \in FailureClasses
          /\ "shutdown_failed" \notin GenericOutputFailures
      BY <1>0, <1>1, <3>1 DEF ShutdownKnows, FailureClasses, GenericOutputFailures
    <3> QED
      BY <1>2, <3>2, VerdictOfError
  <2> QED
    BY <1>2, <2>1, <2>2 DEF NothingLeftSilently, Gone
<1>5. ResultMeansClean'
  <2>1. SUFFICES ASSUME outcome' = "result" PROVE ResultMeansClean'
    BY DEF ResultMeansClean
  <2>2. pending = None /\ sideError
    BY <1>1, <1>2, <1>3, <2>1, VerdictOfError
  <2>3. shutdownError = None /\ Gone /\ (forcedShutdown \/ watcher = "done")
    BY <1>0, <1>1, <2>2 DEF ShutdownKnows
  <2>4. ~marker /\ (forcedShutdown \/ ExitError = None)
    BY <1>2, <2>1, <2>2, VerdictOfNone
  <2>5. child = "exited" /\ ~kin /\ code \in {"zero", "positive", "negative"}
    BY <1>0, <1>1, <2>3 DEF ChildKnown, Gone, RunnerTypes
  <2>6. forcedShutdown \/ code = "zero"
    BY <2>3, <2>4, <2>5, NoErrorAssumption DEF ExitError, FailureClasses
  <2> QED
    BY <1>2, <2>2, <2>4, <2>5, <2>6 DEF ResultMeansClean
<1>6. EarlierErrorKept'
  <2>1. SUFFICES ASSUME first # None PROVE EarlierErrorKept'
    BY <1>2 DEF EarlierErrorKept
  <2>2. pending \in {first, "shutdown_failed"} /\ pending \in FailureClasses
    BY <1>0, <2>1 DEF FirstPending, RunnerTypes, FailureClasses
  <2> QED
    BY <1>2, <2>2, VerdictOfError DEF EarlierErrorKept, GenericOutputFailures
<1>7. Verdicts'
  BY <1>2, <1>4, <1>5, <1>6 DEF Verdicts, EndIsKnown
<1> QED
  BY <1>1, <1>7, LastStep

\* Only an interaction without an error and a clean shutdown require clean drains.
LEMMA CleanDrain ==
    ASSUME RunnerInv, phase = "draining", RequireCleanDrain
    PROVE  /\ first = None /\ shutdownError = None /\ Gone /\ pending = None
           /\ forcedShutdown \/ watcher = "done"
           /\ cancelled \/ StepsOver
<1>1. RunnerTypes /\ FirstPending /\ InteractionEnds /\ ShutdownKnows
  BY DEF RunnerInv
<1>2. pending = None /\ ~sideError
  BY DEF RequireCleanDrain
<1>3. shutdownError = None /\ Gone /\ (forcedShutdown \/ watcher = "done")
  BY <1>1, <1>2 DEF ShutdownKnows
<1>4. cancelled \/ StepsOver
  BY <1>1, <1>2 DEF InteractionEnds
<1>5. first = None
  BY <1>1, <1>2, NoErrorAssumption DEF FirstPending, RunnerTypes, FailureClasses
<1> QED
  BY <1>2, <1>3, <1>4, <1>5

LEMMA FinishedDrainsStep ==
    ASSUME RunnerInv, DrainsFinished
    PROVE  RunnerInv'
<1>0. RunnerTypes /\ ChildKnown
  BY DEF RunnerInv
<1>1. /\ phase = "draining" /\ RequireCleanDrain
      /\ stdout # "reading" /\ stderr # "reading"
      /\ UNCHANGED <<stdout, stderr, pending>>
      /\ EndWith(IF DrainError # None THEN DrainError ELSE Verdict(None))
  BY DEF DrainsFinished
<1>2. /\ phase' = "ended"
      /\ outcome' = IF DrainError # None THEN DrainError ELSE Verdict(None)
      /\ UNCHANGED <<child, code, kin, watcher, marker, sideError, shutdownError, forcedShutdown,
                     interrupted, first, step, seen>>
  BY <1>1 DEF EndWith, childVars, cleanupVars
<1>3. /\ first = None /\ shutdownError = None /\ Gone
      /\ forcedShutdown \/ watcher = "done"
      /\ cancelled \/ StepsOver
  BY <1>1, CleanDrain
<1>4. NothingLeftSilently' /\ EarlierErrorKept'
  BY <1>2, <1>3 DEF NothingLeftSilently, EarlierErrorKept, Gone
<1>5. ResultMeansClean'
  <2>1. SUFFICES ASSUME outcome' = "result" PROVE ResultMeansClean'
    BY DEF ResultMeansClean
  <2>2. DrainError = None
    BY <1>2, <2>1 DEF DrainError, FailureClasses
  <2>3. ~cancelled /\ ~marker /\ (forcedShutdown \/ ExitError = None)
    BY <1>2, <2>1, <2>2, VerdictOfNone
  <2>4. child = "exited" /\ ~kin /\ code \in {"zero", "positive", "negative"}
    BY <1>0, <1>1, <1>3 DEF ChildKnown, Gone, RunnerTypes
  <2>5. forcedShutdown \/ code = "zero"
    BY <1>3, <2>3, <2>4, NoErrorAssumption DEF ExitError, FailureClasses
  <2>6. stdout \notin FailureClasses /\ stderr \notin FailureClasses
    BY <2>2, NoErrorAssumption DEF DrainError
  <2>7. StepsOver
    BY <1>3, <2>3
  <2>8. stdout = "ok" /\ stderr = "ok"
    BY <1>0, <1>1, <2>6, <2>7 DEF StepsOver, RunnerTypes, DrainStates
  <2>9. step = Len(Steps) /\ Satisfied'
    BY <1>2, <2>7 DEF StepsOver, Satisfied
  <2> QED
    BY <1>1, <1>2, <2>3, <2>4, <2>5, <2>8, <2>9 DEF ResultMeansClean
<1>6. Verdicts'
  BY <1>2, <1>4, <1>5 DEF Verdicts, EndIsKnown
<1> QED
  BY <1>1, <1>6, LastStep

LEMMA DrainTimeoutStep ==
    ASSUME RunnerInv, DrainTimeout
    PROVE  RunnerInv'
<1>1. /\ phase = "draining" /\ RequireCleanDrain
      /\ stdout' \in {stdout, "cancelled"} /\ stderr' \in {stderr, "cancelled"}
      /\ pending' = "shutdown_failed"
      /\ EndWith(Verdict("shutdown_failed"))
  BY DEF DrainTimeout, CancelDrain
<1>2. /\ phase' = "ended" /\ outcome' = Verdict("shutdown_failed")
      /\ UNCHANGED <<child, kin, shutdownError, first>>
  BY <1>1 DEF EndWith, childVars, cleanupVars
<1>3. outcome' # "result"
  <2>1. "shutdown_failed" \in FailureClasses
    BY DEF FailureClasses
  <2> QED
    BY <1>2, <2>1, VerdictOfError
<1>4. first = None /\ Gone
  BY <1>1, CleanDrain
<1>5. Verdicts'
  BY <1>2, <1>3, <1>4
     DEF Verdicts, EndIsKnown, NothingLeftSilently, ResultMeansClean, EarlierErrorKept, Gone
<1> QED
  BY <1>1, <1>5, LastStep

\* A cancellation leaves the interaction to the shutdown, and any other await to
\* its caller.
LEMMA CancelStep ==
    ASSUME RunnerInv, Cancel
    PROVE  RunnerInv'
<1>0. RunnerTypes /\ ChildKnown /\ FirstPending
  BY DEF RunnerInv
<1>1. /\ phase # "ended" /\ cancelled' = TRUE /\ activity' = FALSE
      /\ UNCHANGED <<childVars, watcher, drainVars, step, sideError, pending, cleanupVars, first>>
      /\ \/ Interacting /\ phase' = "closing" /\ UNCHANGED endVars
         \/ /\ ~Interacting /\ phase' = "ended" /\ outcome' = "cancelled"
            /\ interrupted' = (phase # "starting")
  BY DEF Cancel
<1>2. RunnerTypes'
  <2>1. interrupted' \in BOOLEAN
    BY <1>0, <1>1 DEF RunnerTypes, endVars
  <2>2. UNCHANGED <<child, code, kin, watcher, stdout, stderr, marker, sideError, pending, first,
                    cleanupFailed, forced, forcedShutdown, shutdownError>>
    BY <1>1 DEF childVars, drainVars, cleanupVars
  <2>3. phase' \in {"closing", "ended"} /\ cancelled' \in BOOLEAN /\ activity' \in BOOLEAN
    BY <1>1
  <2> QED
    BY <1>0, <2>1, <2>2, <2>3 DEF RunnerTypes, ShutdownPhases
<1>3. ChildKnown'
  BY <1>0, <1>1 DEF ChildKnown, childVars, Interacting
<1>4. FirstPending' /\ InteractionEnds' /\ ShutdownKnows' /\ NoLostWakeup'
  BY <1>0, <1>1 DEF FirstPending, InteractionEnds, ShutdownKnows, NoLostWakeup, ShutdownPhases
<1>5. Verdicts'
  <2>1. CASE phase' = "closing" /\ UNCHANGED endVars
    BY <1>1, <2>1, NotEnded DEF RunnerInv, Verdicts, endVars
  <2>2. CASE phase' = "ended" /\ outcome' = "cancelled" /\ interrupted' = (phase # "starting")
    <3>1. interrupted' \/ (child' # "running" /\ ~kin')
      BY <1>0, <1>1, <2>2 DEF ChildKnown, childVars
    <3> QED
      BY <2>2, <3>1
         DEF Verdicts, EndIsKnown, NothingLeftSilently, ResultMeansClean, EarlierErrorKept
  <2> QED
    BY <1>1, <2>1, <2>2
<1> QED
  BY <1>2, <1>3, <1>4, <1>5 DEF RunnerInv

LEMMA RunnerStep ==
    ASSUME RunnerInv, [Next]_vars
    PROVE  RunnerInv'
<1>1. CASE UNCHANGED vars
  <2>1. RunnerTypes' /\ ChildKnown' /\ FirstPending'
    BY <1>1 DEF RunnerInv, RunnerTypes, ChildKnown, FirstPending, vars, childVars, drainVars,
                cleanupVars, endVars
  <2>2. InteractionEnds' /\ ShutdownKnows'
    BY <1>1 DEF RunnerInv, InteractionEnds, StepsOver, Satisfied, ShutdownKnows, Gone, vars,
                childVars, drainVars, cleanupVars, endVars
  <2>3. NoLostWakeup'
    BY <1>1 DEF RunnerInv, NoLostWakeup, DrainError, ExitError, Satisfied, vars, childVars,
                drainVars
  <2>4. Verdicts'
    BY <1>1 DEF RunnerInv, Verdicts, EndIsKnown, NothingLeftSilently, ResultMeansClean, Satisfied,
                EarlierErrorKept, vars, childVars, drainVars, cleanupVars, endVars
  <2> QED
    BY <2>1, <2>2, <2>3, <2>4 DEF RunnerInv
<1>2. CASE Run
  BY <1>2, LaunchErrorStep, SetupStep, LaunchStep, InteractionSteps, ExitWaitStep, TerminateStep,
     VerifyStep, CancelledDrainsStep, FinishedDrainsStep, DrainTimeoutStep DEF Run
<1> QED
  BY <1>1, <1>2, CancelStep, ChildStep, WatcherStep, DrainStep DEF Next

LEMMA RunnerIsSound == Spec => []RunnerInv
  BY InitRunner, RunnerStep, PTL DEF Spec

(***************************************************************************)
(* The activity event of run is never cleared over something that run has  *)
(* yet to notice: each drain, the watcher of the exit and the checks of    *)
(* _wait_for_barrier may interleave at every await.                        *)
(***************************************************************************)
THEOREM NoWakeupIsLost == Spec => []NoLostWakeup
<1>1. RunnerInv => NoLostWakeup
  BY DEF RunnerInv
<1> QED
  BY <1>1, RunnerIsSound, PTL

(***************************************************************************)
(* Whatever run of ShowdownProcessRunner returns or raises, a child or a   *)
(* descendant that is left is reported, and a result means a clean end.    *)
(***************************************************************************)
THEOREM TheEndIsKnown == Spec => []EndIsKnown
<1>1. RunnerInv => EndIsKnown
  BY DEF RunnerInv, Verdicts
<1> QED
  BY <1>1, RunnerIsSound, PTL

(***************************************************************************)
(* run raises the first error of the interaction, or what the code puts    *)
(* before it: a failed cleanup, a network attempt, a cancellation, or the  *)
(* exit that explains it.                                                  *)
(***************************************************************************)
THEOREM FirstErrorIsReported == Spec => []EarlierErrorKept
<1>1. RunnerInv => EarlierErrorKept
  BY DEF RunnerInv, Verdicts
<1> QED
  BY <1>1, RunnerIsSound, PTL
=============================================================================
