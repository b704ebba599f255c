-------------------------- MODULE BattleCoordinator --------------------------
(***************************************************************************)
(* BattleCoordinator: connect, learn which rooms the account is in, send   *)
(* the team and the challenge, wait for the battle room under one          *)
(* deadline, hand the room to a battle session, close the connection.      *)
(*                                                                         *)
(* A step ends at an await: a send, the next line, the session, the close. *)
(* Lines come from any server here; ChallengeSetup composes the            *)
(* coordinator with a server that behaves.                                 *)
(***************************************************************************)
EXTENDS ChallengeLines

CONSTANTS
    Lines,           \* lines the connection may deliver
    TransportErrors, \* codes of errors raised by the connection
    SessionErrors,   \* codes of primary errors of a battle session
    MaxLines         \* bound: lines of one room

ASSUME LinesAssumption == \A l \in Lines : l.kind = "room" => l.room \in Rooms
ASSUME CodesAssumption ==
    LET codes == TransportErrors \cup SessionErrors
                   \cup {"challenge_setup_timeout", "challenge_not_pending", "cancelled",
                         "disconnect", "malformed_protocol_message", "unknown_protocol_event"}
    IN  None \notin codes /\ None \notin [error : codes \cup {None}, over : BOOLEAN]

VARIABLES
    phase,        \* where run is suspended, or "ended"
    bootstrapped, \* bootstrap_complete
    snapshot,     \* latest_search_snapshot: None, "idle" or "searching"
    excluded,     \* excluded_room_ids
    everPending,  \* ever_pending
    status,       \* latest_status
    candidates,   \* candidates, a new one for a room not seen yet
    lines,        \* the lines of each candidate
    room,         \* room_id of the session
    buffer,       \* _buffered_lines the session has not read yet
    delivered,    \* the lines the session has read
    primary,      \* primary_error of run
    result,       \* the session's result: its error, and whether the battle is over
    outcome,      \* how run ends
    failures      \* history: errors in the order in which they happened

setupVars == <<bootstrapped, snapshot, excluded, everPending, status>>
roomVars == <<candidates, lines, room, buffer, delivered>>
endVars == <<primary, result, outcome, failures>>
vars == <<phase, setupVars, roomVars, endVars>>

\* The phases of _discover; "waiting" is the wait after an exhausted source.
Setup == {"asking", "discovering", "naming", "challenging", "waiting"}

Init ==
    /\ phase = "connecting"
    /\ bootstrapped = FALSE
    /\ snapshot = None
    /\ excluded = {}
    /\ everPending = FALSE
    /\ status = None
    /\ candidates = [r \in Rooms |-> NewCandidate]
    /\ lines = [r \in Rooms |-> << >>]
    /\ room = None
    /\ buffer = << >>
    /\ delivered = << >>
    /\ primary = None
    /\ result = None
    /\ outcome = None
    /\ failures = << >>

\* An exception leaves the try block of run.
Fail(error) ==
    /\ phase' = "closing"
    /\ primary' = error
    /\ failures' = Append(failures, error)
    /\ UNCHANGED <<result, outcome>>

-----------------------------------------------------------------------------
ConnectReturns ==
    /\ phase = "connecting"
    /\ phase' = "asking"
    /\ UNCHANGED <<setupVars, roomVars, endVars>>

\* A send_global of the setup returned: userdetails, the team, the challenge.
SendReturns ==
    /\ phase \in {"asking", "naming", "challenging"}
    /\ phase' = IF phase = "naming" THEN "challenging" ELSE "discovering"
    /\ UNCHANGED <<setupVars, roomVars, endVars>>

\* connect, a send or the line source raises.
TransportFails(error) ==
    /\ phase \in {"connecting", "asking", "naming", "challenging", "discovering"}
    /\ Fail(error)
    /\ UNCHANGED <<setupVars, roomVars>>

\* Mutant: every line is read under the deadline, but the wait after an
\* exhausted source is not.
SetupTimeoutWhileReading ==
    /\ phase \in Setup \ {"waiting"}
    /\ Fail("challenge_setup_timeout")
    /\ UNCHANGED <<setupVars, roomVars>>

\* The deadline covers the sends, the lines and the wait.
SetupTimeout ==
    /\ phase \in Setup
    /\ Fail(IF everPending /\ status = "not_pending"
            THEN "challenge_not_pending" ELSE "challenge_setup_timeout")
    /\ UNCHANGED <<setupVars, roomVars>>

SourceEnds ==
    /\ phase = "discovering"
    /\ phase' = "waiting"
    /\ UNCHANGED <<setupVars, roomVars, endVars>>

-----------------------------------------------------------------------------
\* Mutant: a search that starts during the setup is no error.
LineErrorLax(l) ==
    CASE l.kind = "search" -> None
      [] l.kind = "details" -> IF snapshot = "searching" THEN "unknown_protocol_event" ELSE None
      [] l.kind = "popup" -> PopupError(l)
      [] OTHER -> None

\* The error a global line raises.  A "garbled" line cannot be decoded, a
\* "foreign" one is of a type nobody expects or about another user; a second
\* userdetails response is such a line.
LineError(l) ==
    CASE l.kind = "search" ->
           IF bootstrapped /\ l.searching THEN "unknown_protocol_event" ELSE None
      [] l.kind = "details" ->
           IF bootstrapped THEN "unknown_protocol_event"
           ELSE IF snapshot = None THEN "malformed_protocol_message"
           ELSE IF snapshot = "searching" THEN "unknown_protocol_event"
           ELSE None
      [] l.kind = "popup" -> PopupError(l)
      [] l.kind = "garbled" -> "malformed_protocol_message"
      [] l.kind = "foreign" -> "unknown_protocol_event"
      [] OTHER -> IF ChallengeStatus(l) \in {"none", "pending", "not_pending"}
                  THEN None ELSE ChallengeStatus(l)

RefuseLine(l) ==
    /\ phase = "discovering"
    /\ l.kind # "room"
    /\ LineError(l) # None
    /\ Fail(LineError(l))
    /\ UNCHANGED <<setupVars, roomVars>>

\* _read_search_snapshot, of a readable updatesearch: only whether there is a
\* search counts, not in which formats.
SnapshotOf(l) == IF l.searching THEN "searching" ELSE "idle"

\* Mutant: games are excluded from a later updatesearch too.
NoteSearchAlways(l) ==
    /\ phase = "discovering"
    /\ l.kind = "search"
    /\ LineError(l) = None
    /\ excluded' = excluded \cup l.rooms
    /\ snapshot' = SnapshotOf(l)
    /\ UNCHANGED <<phase, bootstrapped, everPending, status, roomVars, endVars>>

\* An updatesearch before the bootstrap; a later one is only checked.
NoteSearch(l) ==
    /\ phase = "discovering"
    /\ ~bootstrapped
    /\ l.kind = "search"
    /\ LineError(l) = None
    /\ excluded' = excluded \cup l.rooms
    /\ snapshot' = SnapshotOf(l)
    /\ UNCHANGED <<phase, bootstrapped, everPending, status, roomVars, endVars>>

\* The userdetails response completes the bootstrap: the team is sent next.
CompleteBootstrap(l) ==
    /\ phase = "discovering"
    /\ l.kind = "details"
    /\ LineError(l) = None
    /\ excluded' = excluded \cup l.rooms
    /\ bootstrapped' = TRUE
    /\ phase' = "naming"
    /\ UNCHANGED <<snapshot, everPending, status, roomVars, endVars>>

NoteChallenge(l) ==
    /\ phase = "discovering"
    /\ bootstrapped
    /\ ChallengeStatus(l) \in {"pending", "not_pending"}
    /\ status' = ChallengeStatus(l)
    /\ everPending' = (everPending \/ status' = "pending")
    /\ UNCHANGED <<phase, bootstrapped, snapshot, excluded, roomVars, endVars>>

\* A room that speaks before the bootstrap is not the battle.
ExcludeRoom(l) ==
    /\ phase = "discovering"
    /\ l.kind = "room"
    /\ ~bootstrapped
    /\ excluded' = excluded \cup {l.room}
    /\ UNCHANGED <<phase, bootstrapped, snapshot, everPending, status, roomVars, endVars>>

\* Mutant: the session gets the room without the line that completed it.
HandOffShort(r, c, ls) ==
    /\ phase' = "session"
    /\ room' = r
    /\ buffer' = Front(ls)

\* _discover returns the candidate and run starts the session on its lines.
HandOff(r, c, ls) ==
    /\ phase' = "session"
    /\ room' = r
    /\ buffer' = ls

\* A line of a room that may be the battle.
ReadCandidate(l) ==
    LET c == ReadMetadata(candidates[l.room], l.body)
        ls == Append(lines[l.room], l.body)
    IN  /\ phase = "discovering"
        /\ l.kind = "room"
        /\ bootstrapped
        /\ l.room \notin excluded
        /\ candidates' = [candidates EXCEPT ![l.room] = c]
        /\ lines' = [lines EXCEPT ![l.room] = ls]
        /\ \/ /\ CandidateError(c) # None
              /\ Fail(CandidateError(c))
              /\ UNCHANGED <<room, buffer>>
           \/ /\ CandidateError(c) = None
              /\ IsMatchingCandidate(c)
              /\ HandOff(l.room, c, ls)
              /\ UNCHANGED endVars
           \/ /\ CandidateError(c) = None
              /\ ~IsMatchingCandidate(c)
              /\ UNCHANGED <<phase, room, buffer, endVars>>
        /\ UNCHANGED <<setupVars, delivered>>

\* A line without effect: a harmless global one, news about the challenge before
\* the bootstrap, an updatesearch after it, a line of an excluded room, and in
\* the session every line of another room.
IgnoreLine(l) ==
    /\ \/ /\ phase = "discovering"
          /\ IF l.kind = "room" THEN bootstrapped /\ l.room \in excluded
             ELSE /\ LineError(l) = None
                  /\ l.kind # "details"
                  /\ l.kind = "search" => bootstrapped
                  /\ ChallengeStatus(l) # "none" => ~bootstrapped
       \/ /\ phase = "session"
          /\ buffer = << >>
          /\ l.kind = "room" => l.room # room
    /\ UNCHANGED vars

-----------------------------------------------------------------------------
(***************************************************************************)
(* The session reads the buffered lines, then the source through           *)
(* _validate_handoff_line, whose error ends the session with that error.   *)
(***************************************************************************)
\* session.run returned; without an error and without an end of the battle the
\* stream was cut.
SessionResult(error, over) ==
    LET reported == IF error = None /\ ~over THEN "disconnect" ELSE error
    IN  /\ phase' = "closing"
        /\ result' = [error |-> reported, over |-> over]
        /\ failures' = IF reported = None THEN failures ELSE Append(failures, reported)
        /\ UNCHANGED <<primary, outcome>>

ReadBuffered ==
    /\ phase = "session"
    /\ buffer # << >>
    /\ delivered' = Append(delivered, Head(buffer))
    /\ buffer' = Tail(buffer)
    /\ UNCHANGED <<phase, setupVars, candidates, lines, room, endVars>>

ReadHandoffLine(l) ==
    LET c == ReadMetadata(candidates[room], l.body)
    IN  /\ phase = "session"
        /\ buffer = << >>
        /\ l.kind = "room"
        /\ l.room = room
        /\ candidates' = [candidates EXCEPT ![room] = c]
        /\ lines' = [lines EXCEPT ![room] = Append(@, l.body)]
        /\ IF CandidateError(c) # None
           THEN /\ SessionResult(CandidateError(c), FALSE)
                /\ UNCHANGED delivered
           ELSE /\ delivered' = Append(delivered, l.body)
                /\ UNCHANGED <<phase, endVars>>
        /\ UNCHANGED <<setupVars, room, buffer>>

\* The session ends by itself: the battle is over, an error, or the end of the
\* source.  A trace failure may be reported after the end of the battle.
SessionReturns ==
    /\ phase = "session"
    /\ \E error \in SessionErrors \cup {None}, over \in BOOLEAN :
          /\ error = None /\ ~over => buffer = << >>
          /\ SessionResult(error, over)
    /\ UNCHANGED <<setupVars, roomVars>>

\* CancelledError reaches run from wherever it is suspended.
Cancel ==
    /\ phase \in Setup \cup {"connecting", "session"}
    /\ Fail("cancelled")
    /\ UNCHANGED <<setupVars, roomVars>>

-----------------------------------------------------------------------------
\* What run reports when the close leaves it alone.
Verdict ==
    IF primary # None THEN [raised |-> TRUE, error |-> primary]
    ELSE [raised |-> FALSE, error |-> result.error]

CloseReturns ==
    /\ phase = "closing"
    /\ phase' = "ended"
    /\ outcome' = Verdict
    /\ UNCHANGED <<setupVars, roomVars, primary, result, failures>>

\* Mutant: an error of close is always raised.
CloseRaisesAlways(error) ==
    /\ phase = "closing"
    /\ phase' = "ended"
    /\ outcome' = [raised |-> TRUE, error |-> error]
    /\ failures' = Append(failures, error)
    /\ UNCHANGED <<setupVars, roomVars, primary, result>>

\* close raises (or is cancelled): only a run without another error passes it on.
CloseRaises(error) ==
    /\ phase = "closing"
    /\ phase' = "ended"
    /\ outcome' = IF Verdict.error = None THEN [raised |-> TRUE, error |-> error] ELSE Verdict
    /\ failures' = Append(failures, error)
    /\ UNCHANGED <<setupVars, roomVars, primary, result>>

-----------------------------------------------------------------------------
ReadLine(l) ==
    \/ RefuseLine(l)
    \/ NoteSearch(l)
    \/ CompleteBootstrap(l)
    \/ NoteChallenge(l)
    \/ ExcludeRoom(l)
    \/ ReadCandidate(l)
    \/ ReadHandoffLine(l)
    \/ IgnoreLine(l)

\* Everything but reading a line.
Internal ==
    \/ ConnectReturns
    \/ SendReturns
    \/ \E error \in TransportErrors : TransportFails(error)
    \/ SetupTimeout
    \/ SourceEnds
    \/ ReadBuffered
    \/ SessionReturns
    \/ Cancel
    \/ CloseReturns
    \/ \E error \in TransportErrors \cup {"cancelled"} : CloseRaises(error)

WithinBound(l) == l.kind = "room" => Len(lines[l.room]) < MaxLines

Next ==
    \/ Internal
    \/ \E l \in Lines : WithinBound(l) /\ ReadLine(l)

Spec == Init /\ [][Next]_vars /\ WF_vars(SetupTimeout)

-----------------------------------------------------------------------------
Before(i) == {delivered[j].type : j \in 1..(i - 1)}

(***************************************************************************)
(* Whatever the order in which a room declares itself, a session never     *)
(* reads metadata that contradicts the challenge: every declaration it     *)
(* reads follows |init|battle, every fact is the expected one, and the two *)
(* sides are the two players (_read_candidate_metadata,                    *)
(* _raise_for_exact_candidate_failure, _validate_handoff_line).            *)
(***************************************************************************)
SessionReadsOnlyOurBattle ==
    \A i \in 1..Len(delivered) :
        delivered[i].type \in Fields =>
            /\ "init" \in Before(i)
            /\ delivered[i].type \in Facts => delivered[i].value = "ok"
            /\ delivered[i].type \in Sides =>
                  /\ delivered[i].value \in {Us, Opponent}
                  /\ \A j \in 1..Len(delivered) :
                        delivered[j].type \in Sides =>
                            (delivered[j].type = delivered[i].type)
                              <=> (delivered[j].value = delivered[i].value)

(***************************************************************************)
(* The handoff loses, repeats and reorders nothing: what the session has   *)
(* read and what is buffered for it are the lines of the room since the    *)
(* bootstrap, except one whose validation failed (_SessionConnection).     *)
(***************************************************************************)
HandoffKeepsLines ==
    /\ phase = "session" => delivered \o buffer = lines[room]
    /\ room # None => IsPrefix(delivered, lines[room])

(***************************************************************************)
(* run reports the first thing that went wrong, whatever fails after it;   *)
(* above all an error of close never replaces it (the finally block).      *)
(***************************************************************************)
FirstFailureReported ==
    phase = "ended" => outcome.error = IF failures = << >> THEN None ELSE failures[1]

(***************************************************************************)
(* A run that reports neither an exception nor an error has played the     *)
(* battle to its end.                                                      *)
(***************************************************************************)
CleanEndMeansOver ==
    phase = "ended" /\ outcome.error = None => result # None /\ result.over

(***************************************************************************)
(* What run reports is true, whatever fails while it is closing down.      *)
(***************************************************************************)
EndIsReportedTruthfully == FirstFailureReported /\ CleanEndMeansOver

(***************************************************************************)
(* The setup ends: a silent server, an exhausted source or a send that     *)
(* hangs cannot hold the coordinator past its deadline (asyncio.timeout    *)
(* around all of _discover; the event loop runs timers that are due).      *)
(***************************************************************************)
SetupEnds == phase \in Setup ~> phase \notin Setup
=============================================================================
