--------------------------- MODULE MCObservedBattle ---------------------------
(***************************************************************************)
(* Two sides; on p1 two pokemon that share a nickname, on p2 two pokemon,  *)
(* of which one may appear in another form.                                *)
(***************************************************************************)
EXTENDS ObservedBattle

At(sd, nick) == [side |-> sd, slot |-> 1, nick |-> nick]
OffField(sd, nick) == [side |-> sd, slot |-> None, nick |-> nick]
Form(name, tera) == [name |-> name, tera |-> tera]
Hp(cur, max, trailer) == [cur |-> cur, max |-> max, trailer |-> trailer]

Line(wire, ident) == [Bare(wire, Required(wire)) EXCEPT !.ident = ident]
Text(wire, ident, text) == [Line(wire, ident) EXCEPT !.text = text]
Health(wire, ident, text, hp) == [Text(wire, ident, text) EXCEPT !.hp = hp]
Number(wire, ident, text, num) == [Text(wire, ident, text) EXCEPT !.num = num]
Pair(wire, ident, other, stats) == [Text(wire, ident, stats) EXCEPT !.other = other]

\* A battle that has just begun, and one in which p1 has moved, boosted and
\* switched and p2 has shown both its pokemon.
Begun ==
    <<Text("init", None, "battle"),
      Line("player", OffField("p1", OurUserId)), Line("player", OffField("p2", "them")),
      Number("teamsize", OffField("p1", ""), None, 2), Text("gametype", None, "ok"),
      Number("gen", None, "ok", 9), Text("tier", None, "ok"), Line("rated", None),
      Text("rule", None, "clause"), Text("poke", OffField("p1", ""), Form("x", FALSE)),
      Line("clearpoke", None), Line("teampreview", None), Line("start", None),
      Health("switch", At("p1", "a"), Form("x", FALSE), Hp(300, 300, None)),
      Health("switch", At("p2", "c"), Form("y", FALSE), Hp(100, 100, None)),
      Number("turn", None, None, 1)>>

Underway ==
    SubSeq(Begun, 1, 7)
      \o <<Line("start", None),
           Health("switch", At("p1", "a"), Form("x", FALSE), Hp(300, 300, None)),
           Health("switch", At("p2", "c"), Form("y", FALSE), Hp(100, 100, None)),
           Text("move", At("p1", "a"), "surf"), Number("-boost", At("p1", "a"), "atk", 4),
           Text("-endability", At("p2", "c"), None),
           Health("switch", At("p2", "d"), Form("w", FALSE), Hp(48, 48, None)),
           Health("switch", At("p1", "a"), Form("z", FALSE), Hp(200, 200, None)),
           Health("switch", At("p2", "c"), Form("y", FALSE), Hp(80, 100, None))>>

BothOpenings == {Begun, Underway}

BattleLines ==
    {Health("switch", At("p1", "a"), Form("x", TRUE), Hp(300, 300, None)),
     Health("drag", At("p1", "a"), Form("z", FALSE), Hp(200, 200, "par")),
     Health("switch", At("p2", "d"), Form("w", FALSE), Hp(48, 48, None)),
     Health("switch", At("p2", "c"), Form("y", FALSE), Hp(50, 100, None)),
     Health("replace", At("p2", "d"), Form("w", FALSE), Hp(24, 48, "slp")),
     Health("detailschange", At("p1", "a"), Form("mega", FALSE), Hp(100, 300, None)),
     Health("-formechange", At("p2", "c"), Form("busted", FALSE), Hp(99, 100, None)),
     Line("faint", At("p1", "a")), Line("faint", At("p2", "c")),
     Text("move", At("p1", "a"), "tackle"),
     Health("-damage", At("p2", "c"), None, Hp(0, None, "fnt")),
     Health("-heal", OffField("p1", "a"), None, Hp(150, 300, None)),
     Number("-boost", At("p1", "a"), "atk", 4), Number("-setboost", At("p2", "c"), "spe", -5),
     Pair("-swapboost", At("p1", "a"), At("p2", "c"), None),
     Text("-ability", At("p2", "c"), "levitate"), Text("-endability", At("p2", "c"), None),
     Text("-start", At("p1", "a"), "confusion"),
     Text("-sidestart", OffField("p2", ""), "Spikes"),
     Text("-item", At("p1", "a"), "berry")}

\* The rest of the protocol, malformed and refused lines included.
OtherLines ==
    {Line("player", OffField("p3", "spectator")), Text("tier", None, "bad"),
     Number("turn", None, None, 2), Number("turn", None, None, None),
     Text("win", None, "them"), Line("tie", None), Text("cant", At("p2", "c"), "par"),
     Health("-damage", At("p1", "a"), None, None),
     Health("-damage", At("p1", "a"), None, Hp(5, None, None)),
     Text("-status", At("p1", "a"), "brn"), Line("-curestatus", At("p1", "a")),
     Line("-cureteam", At("p1", "a")), Line("-status", OffField("p1", "a")),
     Number("-unboost", At("p1", "a"), "atk", 2), Number("-boost", At("p1", "a"), "luck", 1),
     Pair("-copyboost", At("p1", "a"), At("p2", "c"), {"spe"}),
     Line("-clearallboost", None), Line("-clearboost", At("p1", "a")),
     Line("-clearpositiveboost", At("p1", "a")), Line("-clearnegativeboost", At("p2", "c")),
     Line("-invertboost", At("p1", "a")),
     Text("-weather", None, "rain"), Text("-weather", None, "none"),
     Text("-fieldstart", None, "terrain"), Text("-fieldend", None, "terrain"),
     Text("-sidestart", OffField("p2", ""), "Stealth Rock"),
     Text("-sideend", OffField("p2", ""), "Spikes"), Line("-swapsideconditions", None),
     Text("-end", At("p1", "a"), "confusion"), Line("-mustrecharge", At("p1", "a")),
     Text("-enditem", At("p1", "a"), None), Pair("-transform", At("p1", "a"), At("p2", "c"), None),
     Text("-terastallize", At("p1", "a"), "fire"), Line("-crit", At("p2", "c")),
     Line("-miss", At("p2", "")), Pair("move", At("p1", "a"), At("p2", ""), "tackle"),
     Line("upkeep", None), Text("-message", None, "forfeit"), Text("inactive", None, "warning"),
     Text("inactive", None, "forfeit"), Line("debug", None)}

AllLines == BattleLines \cup OtherLines
=============================================================================
