---------------------------- MODULE ChallengeSetup ----------------------------
(***************************************************************************)
(* The coordinator and a server that behaves, joined by the connection's   *)
(* FIFO stream.  Another client of the same account may search the ladder, *)
(* and the ladder may find the very opponent, in the very format.  The     *)
(* server is external; it does what the coordinator's comments say of it:  *)
(* it announces every change of the search before its consequences, and    *)
(* answers userdetails with the rooms the account is in.                   *)
(***************************************************************************)
EXTENDS BattleCoordinator

CONSTANT MaxInbox \* bound: lines sent and not yet read
ASSUME OriginAssumption == None \notin {"old", "ladder", "challenge"}

VARIABLES
    inbox,     \* lines on their way to the coordinator
    origin,    \* why the account is in a room: None, "old", "ladder", "challenge"
    searching, \* the account has an active ladder search
    challenge, \* "none", "incoming" (theirs), "pending" (ours) or "closed"
    handled    \* commands the server has handled

serverVars == <<inbox, origin, searching, challenge, handled>>
allVars == <<vars, serverVars>>

RoomsOf(o) == {r \in Rooms : o[r] # None}

SearchLine(b, o) == [kind |-> "search", searching |-> b, rooms |-> RoomsOf(o)]
Pm(from, to, text) == [kind |-> "pm", from |-> from, to |-> to, text |-> text]
RoomLine(r, type, value) ==
    [kind |-> "room", room |-> r, body |-> [type |-> type, value |-> value]]

\* The lines with which a battle between us and the opponent begins.
Header(r) ==
    <<RoomLine(r, "init", None), RoomLine(r, "p1", Us), RoomLine(r, "p2", Opponent)>>
      \o SetToSeq({RoomLine(r, f, "ok") : f \in Facts})

Guest == SearchLine(FALSE, [r \in Rooms |-> None])

\* A fresh account has no rooms and no search, and the snapshot sent to the guest
\* stands; an existing one gets a snapshot of its own after the login.
SetupInit ==
    /\ Init
    /\ origin \in [Rooms -> {None, "old"}]
    /\ searching \in BOOLEAN
    /\ challenge \in {"none", "incoming"}
    /\ handled = {}
    /\ IF RoomsOf(origin) = {} /\ ~searching
       THEN inbox \in {<< >>, <<Guest>>}
       ELSE inbox = <<Guest, SearchLine(searching, origin)>>

Sends(newLines) ==
    /\ Len(inbox) + Len(newLines) <= MaxInbox
    /\ inbox' = inbox \o newLines

-----------------------------------------------------------------------------
\* The other client starts or cancels a search.
ToggleSearch ==
    /\ searching' = ~searching
    /\ Sends(<<SearchLine(searching', origin)>>)
    /\ UNCHANGED <<vars, origin, challenge, handled>>

LadderMatch(r) ==
    /\ searching
    /\ origin[r] = None
    /\ searching' = FALSE
    /\ origin' = [origin EXCEPT ![r] = "ladder"]
    /\ \/ Sends(Header(r) \o <<SearchLine(FALSE, origin')>>)
       \/ Sends(<<SearchLine(FALSE, origin')>> \o Header(r))
    /\ UNCHANGED <<vars, challenge, handled>>

\* An old room repeats its header, for example because the account rejoined it.
OldRoomSpeaks(r) ==
    /\ origin[r] = "old"
    /\ Sends(Header(r))
    /\ UNCHANGED <<vars, origin, searching, challenge, handled>>

AnswerUserDetails ==
    /\ phase \in {"asking", "discovering"}
    /\ "userdetails" \notin handled
    /\ handled' = handled \cup {"userdetails"}
    /\ Sends(<<[kind |-> "details", rooms |-> RoomsOf(origin)]>>)
    /\ UNCHANGED <<vars, origin, searching, challenge>>

\* The challenge command arrives: it is refused, or the challenge is pending.
HandleChallenge ==
    /\ bootstrapped
    /\ phase \in {"challenging", "discovering"}
    /\ "challenge" \notin handled
    /\ handled' = handled \cup {"challenge"}
    /\ \/ /\ challenge = "incoming"
          /\ Sends(<<[kind |-> "popup", text |-> "already challenged", ours |-> TRUE]>>)
          /\ UNCHANGED challenge
       \/ /\ challenge = "none"
          /\ Sends(<<[kind |-> "popup", text |-> "rejected", ours |-> TRUE]>>)
          /\ UNCHANGED challenge
       \/ /\ challenge = "none"
          /\ challenge' = "pending"
          /\ Sends(<<Pm(Us, Opponent, "/challenge gen9ou")>>)
    /\ UNCHANGED <<vars, origin, searching>>

\* The opponent withdraws a challenge of their own, made before ours.
IncomingWithdrawn ==
    /\ challenge = "incoming"
    /\ challenge' = "none"
    /\ Sends(<<Pm(Opponent, Us, "/challenge")>>)
    /\ UNCHANGED <<vars, origin, searching, handled>>

ChallengeDeclined ==
    /\ challenge = "pending"
    /\ challenge' = "closed"
    /\ Sends(<<Pm(Opponent, Us, "/challenge")>>)
    /\ UNCHANGED <<vars, origin, searching, handled>>

\* The opponent accepts: the new game is announced in an updatesearch as well.
ChallengeAccepted(r) ==
    /\ challenge = "pending"
    /\ origin[r] = None
    /\ challenge' = "closed"
    /\ origin' = [origin EXCEPT ![r] = "challenge"]
    /\ Sends(<<Pm(Us, Opponent, "/challenge"), SearchLine(searching, origin')>> \o Header(r))
    /\ UNCHANGED <<vars, searching, handled>>

Server ==
    \/ ToggleSearch
    \/ \E r \in Rooms : LadderMatch(r) \/ OldRoomSpeaks(r) \/ ChallengeAccepted(r)
    \/ AnswerUserDetails
    \/ HandleChallenge
    \/ IncomingWithdrawn
    \/ ChallengeDeclined

\* The server goes on only while the coordinator looks for the battle.
ServerStep == phase \in Setup \cup {"connecting"} /\ Server

Receive ==
    /\ inbox # << >>
    /\ phase = "discovering"
    /\ ReadLine(Head(inbox))
    /\ inbox' = Tail(inbox)
    /\ UNCHANGED <<origin, searching, challenge, handled>>

Proceed ==
    /\ phase \in Setup \cup {"connecting"}
    /\ ConnectReturns \/ SendReturns \/ SetupTimeout \/ SourceEnds
    /\ UNCHANGED serverVars

SetupNext == ServerStep \/ Receive \/ Proceed

SetupSpec ==
    SetupInit /\ [][SetupNext]_allVars /\ WF_allVars(SetupTimeout /\ UNCHANGED serverVars)

-----------------------------------------------------------------------------
(***************************************************************************)
(* The room handed to the session is the battle our challenge opened:      *)
(* never a room the account was in before, never a game the ladder found,  *)
(* even against the same opponent in the same format (the FIFO-barrier     *)
(* argument of _discover).                                                 *)
(***************************************************************************)
OnlyOurChallenge == room # None => origin[room] = "challenge"

(***************************************************************************)
(* A battle our challenge opened is never overlooked: once the coordinator *)
(* has read everything the server sent, it is no longer looking.  The      *)
(* updatesearch that announces the new game must not exclude its room.     *)
(***************************************************************************)
NoOverlookedBattle ==
    phase = "discovering" /\ inbox = << >> => \A r \in Rooms : origin[r] # "challenge"

(***************************************************************************)
(* "challenge_not_pending" is only reported for a challenge that the       *)
(* server had accepted as ours and that is gone: news about an earlier     *)
(* challenge of the opponent's is not mistaken for it.                     *)
(***************************************************************************)
NotPendingMeansClosed == primary = "challenge_not_pending" => challenge = "closed"

(***************************************************************************)
(* The coordinator knows what became of its challenge.                     *)
(***************************************************************************)
FateOfTheChallengeIsKnown == NoOverlookedBattle /\ NotPendingMeansClosed
=============================================================================
