------------------------- MODULE MCBattleCoordinator -------------------------
(***************************************************************************)
(* Any line of a small vocabulary at any time, for one room that may be    *)
(* the battle and one that is excluded.                                    *)
(***************************************************************************)
EXTENDS BattleCoordinator

RoomLine(r, type, value) ==
    [kind |-> "room", room |-> r, body |-> [type |-> type, value |-> value]]

GlobalLines ==
    {[kind |-> "search", searching |-> b, rooms |-> {}] : b \in BOOLEAN}
      \cup {[kind |-> "details", rooms |-> {}], [kind |-> "harmless"], [kind |-> "garbled"],
            [kind |-> "foreign"], [kind |-> "popup", text |-> "team rejected", ours |-> TRUE],
            [kind |-> "popup", text |-> "not found", ours |-> FALSE],
            [kind |-> "pm", from |-> Us, to |-> Opponent, text |-> "/challenge other"]}

BattleLines ==
    {RoomLine("battle", "init", None), RoomLine("battle", "chat", None),
     RoomLine("battle", "p1", Us), RoomLine("battle", "p2", Opponent),
     RoomLine("battle", "p2", "other"), RoomLine("battle", "p1", None),
     RoomLine("battle", "tier", "ok"), RoomLine("battle", "tier", "bad")}

ArbitraryLines == GlobalLines \cup BattleLines
=============================================================================
