---------------------------- MODULE ChallengeLines ----------------------------
(***************************************************************************)
(* What the battle coordinator reads while it sets up a direct challenge:  *)
(* the global lines of the server, with the errors they raise, and the     *)
(* metadata of a room that may become the battle.  Names stand for user    *)
(* ids; a value None stands for text that cannot be read.                  *)
(***************************************************************************)
EXTENDS Integers, Sequences, SequencesExt

CONSTANTS
    None,
    Us,       \* _our_user_id
    Opponent, \* _opponent_user_id
    Rooms,    \* room ids
    Facts     \* the facts a battle room declares besides its players

ASSUME UsersAssumption == None \notin {Us, Opponent}
ASSUME NoneAssumption == None # "ok" /\ None \notin Rooms
ASSUME FactsAssumption == Facts \subseteq {"game_type", "generation", "tier"}

-----------------------------------------------------------------------------

(***************************************************************************)
(* ChallengeStateReader.  Its answer about our outgoing challenge is       *)
(* "pending", "not_pending", "none" for a line that says nothing about it, *)
(* or the code of the error it raises.  The text of a private message is   *)
(* "/challenge" (no challenge any more), "/challenge gen9ou" and so on;    *)
(* "/challenge+" continues the word, "/challenge fields" has not five.     *)
(***************************************************************************)
ReadUpdateChallenges(l) ==
    CASE l.to = None -> "not_pending"
      [] l.to # Opponent \/ l.format # "gen9ou" -> "unknown_protocol_event"
      [] OTHER -> "pending"

ReadPrivateMessage(l) ==
    IF {l.from, l.to} # {Us, Opponent} \/ l.text = "chat" THEN "none"
    ELSE IF l.text = "/challenge" THEN "not_pending"
    ELSE IF l.text = "/challenge+" THEN "malformed_protocol_message"
    ELSE IF l.from = Opponent THEN "none"
    ELSE IF l.text = "/challenge fields" THEN "malformed_protocol_message"
    ELSE IF l.text = "/challenge other" THEN "unknown_protocol_event"
    ELSE "pending"

ChallengeStatus(l) ==
    CASE l.kind = "updatechallenges" -> ReadUpdateChallenges(l)
      [] l.kind = "pm" -> ReadPrivateMessage(l)
      [] OTHER -> "none"

\* _read_popup: the error a popup raises.  Three of the rejections name a user
\* (and a format), and count only if they name ours.
PopupError(l) ==
    IF l.text = "team rejected" THEN "team_validation_error"
    ELSE IF l.text = "rejected"
              \/ (l.text \in {"not found", "not accepting", "already challenged"} /\ l.ours)
         THEN "challenge_command_rejected_explicit"
    ELSE "unknown_protocol_event"

-----------------------------------------------------------------------------
Sides == {"p1", "p2"}
Fields == Sides \cup Facts

\* _RoomCandidate without its lines; metadata_error only as a flag.
NewCandidate == [init |-> FALSE, known |-> [f \in Fields |-> None], error |-> FALSE]

\* Mutant: a later declaration replaces an earlier one.
LastMetadata(c, body) ==
    IF body.type = "init" THEN [c EXCEPT !.init = TRUE]
    ELSE IF body.type \notin Fields THEN c
    ELSE IF ~c.init \/ body.value = None THEN [c EXCEPT !.error = TRUE]
    ELSE [c EXCEPT !.known[body.type] = body.value]

\* _read_candidate_metadata: the first declaration of a field counts, a
\* declaration before |init|battle, an unreadable one and a different one are
\* metadata errors.
ReadMetadata(c, body) ==
    IF body.type = "init" THEN [c EXCEPT !.init = TRUE]
    ELSE IF body.type \notin Fields THEN c
    ELSE IF ~c.init \/ body.value = None \/ c.known[body.type] \notin {None, body.value}
         THEN [c EXCEPT !.error = TRUE]
    ELSE [c EXCEPT !.known[body.type] = body.value]

HasExactPlayerPair(c) == {c.known[s] : s \in Sides} = {Us, Opponent}

\* _raise_for_exact_candidate_failure: a room of other players is nobody's error.
CandidateError(c) ==
    IF ~HasExactPlayerPair(c) THEN None
    ELSE IF c.error THEN "malformed_protocol_message"
    ELSE IF \E f \in Facts : c.known[f] \notin {None, "ok"} THEN "unknown_protocol_event"
    ELSE None

IsMatchingCandidate(c) ==
    c.init /\ HasExactPlayerPair(c) /\ \A f \in Facts : c.known[f] = "ok"
=============================================================================
