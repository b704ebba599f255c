--------------------------- MODULE MCBattleSession ---------------------------
(***************************************************************************)
(* A server with four request ids (the last above MaxSafeInteger in some   *)
(* runs) that may send any line of a small vocabulary at any time.         *)
(***************************************************************************)
EXTENDS BattleSession

Mon(nick, active, fainted) ==
    [nick |-> nick, active |-> active, fainted |-> fainted, reviving |-> FALSE]

\* "a" is active, "b" on the bench.
MoveRequest(rqid) ==
    [rqid |-> rqid, wait |-> FALSE, teamPreview |-> FALSE, forceSwitch |-> FALSE,
     maxChosen |-> 2, side |-> "p1",
     team |-> <<Mon("a", TRUE, FALSE), Mon("b", FALSE, FALSE)>>,
     moves |-> <<[disabled |-> FALSE, legalId |-> TRUE]>>,
     tera |-> TRUE, trapped |-> FALSE, unsure |-> FALSE]

UnsureRequest(rqid) == [MoveRequest(rqid) EXCEPT !.unsure = TRUE]
WaitRequest(rqid) == [MoveRequest(rqid) EXCEPT !.wait = TRUE]
SwitchRequest(rqid) ==
    [MoveRequest(rqid) EXCEPT !.forceSwitch = TRUE, !.team[1].fainted = TRUE]
PreviewRequest(rqid) ==
    [MoveRequest(rqid) EXCEPT !.teamPreview = TRUE, !.team[1].active = FALSE]
OtherSide(rqid) == [MoveRequest(rqid) EXCEPT !.side = "p2"]
BadMoveId(rqid) == [MoveRequest(rqid) EXCEPT !.moves[1].legalId = FALSE]

-----------------------------------------------------------------------------
\* A session that starts with the room and learns everything from it.
FromScratch == {InitialState}

\* A session handed a state in which only the active pokemon is missing.
Resumed ==
    {[InitialState EXCEPT !.our_side = "p1", !.meta = [m \in Metadata |-> "ok"]]}

WakeupPayloads == {MoveRequest(1), OtherSide(1), WaitRequest(2), PreviewRequest(2)}
WakeupEvents ==
    {[type |-> "player", side |-> "p1", ours |-> b] : b \in BOOLEAN}
      \cup [type : Metadata, value : {"ok"}]
      \cup {[type |-> "tier", value |-> "bad"],
            [type |-> "team_size", side |-> "p1", value |-> 3],
            [type |-> "switch", side |-> "p1", nick |-> "a"],
            [type |-> "replace", side |-> "p1", nick |-> "b"]}
      \cup [type : {"start", "turn", "over"}]

RecordPayloads ==
    {MoveRequest(1), MoveRequest(2), UnsureRequest(2), WaitRequest(3), SwitchRequest(3),
     BadMoveId(3), MoveRequest(4), MoveRequest(None)}
RecordEvents ==
    [type : {"switch"}, side : {"p1"}, nick : Nicknames]
      \cup [type : {"acted"}, side : {"p1"}, nick : {"b"}]
      \cup [type : {"start", "turn", "over"}]

\* Answers of an injected policy: legal for some requests, not for others; None
\* for a policy that forgets to answer.
ArbitraryAnswers ==
    {Default, Submission("move", <<1>>, TRUE), Submission("switch", <<2>>, FALSE), None}
=============================================================================
