--------------------------- MODULE MCEngineSupply ---------------------------
(***************************************************************************)
(* All requests with teams of up to two pokemon and up to two moves, team  *)
(* previews of three; a search for two requests with equal safe sets, over *)
(* worlds that differ in what the opponent hides; and searches for         *)
(* requests with two pokemon on the bench, free, trapped and forced to     *)
(* switch, over worlds that list our bench in another order.  A release of *)
(* two cells with two patches, which are alike, and one that does not      *)
(* apply.                                                                  *)
(***************************************************************************)
EXTENDS EngineSupply, TLC

\* Only the active pokemon can be reviving.
Members ==
    {m \in [nick : {"a"}, active : BOOLEAN, fainted : BOOLEAN, reviving : BOOLEAN] :
        m.reviving => m.active}
RequestedMoves == {v \in [disabled : BOOLEAN, legalId : BOOLEAN] : v.disabled => v.legalId}
UpTo2(S) == UNION {[1..n -> S] : n \in 0..2}

MoveRequests ==
    {r \in [rqid : {1}, wait : BOOLEAN, teamPreview : {FALSE}, forceSwitch : BOOLEAN,
            maxChosen : {2}, side : {"p1"}, team : UpTo2(Members),
            moves : UpTo2(RequestedMoves), tera : BOOLEAN, trapped : BOOLEAN,
            unsure : BOOLEAN] :
        ~(r.trapped /\ r.unsure)}

Previews ==
    [rqid : {1, None}, wait : BOOLEAN, teamPreview : {TRUE}, forceSwitch : BOOLEAN,
     maxChosen : 0..4, side : {"p1"},
     team : UNION {[1..n -> {m \in Members : ~m.active}] : n \in 0..3},
     moves : {<< >>}, tera : {FALSE}, trapped : {FALSE}, unsure : {FALSE}]


-----------------------------------------------------------------------------
Mon(id, hp, maxhp, hidden) ==
    [id |-> id, hp |-> hp, maxhp |-> maxhp, hidden |-> hidden, look |-> "fit", tera |-> FALSE,
     moves |-> <<[id |-> "tackle", usable |-> TRUE]>>]
Side(team) == [team |-> team, active |-> 1, force |-> FALSE, trapped |-> FALSE]
Ours == Side(<<Mon("a", 3, 3, "plain"), Mon("b", 2, 2, "plain")>>)
World(theirs) ==
    [keys |-> "exact", format |-> TRUE, field |-> TRUE,
     state |-> [p1 |-> Ours, p2 |-> Side(theirs), weather |-> "none"]]

Spent == [Mon("d", 2, 2, "plain") EXCEPT !.tera = TRUE]
Small == World(<<Mon("c", 2, 2, "plain"), Spent>>)
Bulky == World(<<Mon("c", 4, 4, "leftovers"), Spent>>)

SetWorlds ==
    {Small, Bulky, [Small EXCEPT !.keys = "missing"], [Small EXCEPT !.field = FALSE],
     [Small EXCEPT !.state.p2.team[1].hp = 3], [Small EXCEPT !.state.p1.active = 3],
     [Small EXCEPT !.state.p1.trapped = TRUE], [Small EXCEPT !.state.p1.team[1].moves[1].id = "splash"],
     [Small EXCEPT !.state.p1.team[1].moves = @ \o <<[id |-> "growl", usable |-> TRUE]>>]}

Member(active, fainted) ==
    [nick |-> "a", active |-> active, fainted |-> fainted, reviving |-> FALSE]
Ask(rqid) ==
    [rqid |-> rqid, wait |-> FALSE, teamPreview |-> FALSE, forceSwitch |-> FALSE,
     maxChosen |-> 2, side |-> "p1",
     team |-> <<Member(TRUE, FALSE), Member(FALSE, FALSE)>>,
     moves |-> <<[disabled |-> FALSE, legalId |-> TRUE]>>,
     tera |-> TRUE, trapped |-> FALSE, unsure |-> FALSE]

\* With two on the bench: free, trapped, and forced to switch with one of them fainted.
Free == [Ask(1) EXCEPT !.team = @ \o <<Member(FALSE, FALSE)>>]
Trapped == [Free EXCEPT !.trapped = TRUE]
Forced == [Free EXCEPT !.team[2].fainted = TRUE, !.moves = << >>, !.forceSwitch = TRUE]

\* Our team in another order than the request's, and worlds that do not fit it.
Reordered == [Small EXCEPT !.state.p1.team = <<Mon("a", 3, 3, "plain"), Mon("c", 2, 2, "plain"),
                                               Mon("b", 2, 2, "plain")>>]
Twice == [Reordered EXCEPT !.state.p1.team[2].id = "b"]
Short == [Reordered EXCEPT !.state.p1.team = <<@[1], @[2]>>]
OtherOut == [Reordered EXCEPT !.state.p1.active = 3]
Down == [Reordered EXCEPT !.state.p1.team[2].hp = 0]
Pressed(w) == {w, [w EXCEPT !.state.p1.force = TRUE]}
BenchWorlds ==
    UNION {Pressed(w) : w \in {Reordered, Twice, Short, OtherOut, Down}}
      \cup {[Reordered EXCEPT !.state.p1.trapped = TRUE]}

Searches ==
    [p \in {Ask(1), Free, Trapped, Forced} |-> IF p = Ask(1) THEN {Ask(1), Ask(2)} ELSE {p}]
Worlds == [p \in DOMAIN Searches |-> IF p = Ask(1) THEN SetWorlds ELSE BenchWorlds]

SmallPayloads == MoveRequests \cup Previews \cup DOMAIN Searches

Seen == [our_side |-> "p1", ready |-> TRUE, hp |-> <<"percent", 100>>]
TwoObservations == {Seen, [Seen EXCEPT !.ready = FALSE]}

AskedMoves == <<"tackle">>

SomeAnswers ==
    [weights : {<<10000>>, <<3333, 6666>>, <<9000>>, <<0>>, << >>},
     fault : {"none"}]
      \cup [weights : {<<10000>>}, fault : TransitionFaults]
Hits == {<<1, 1>>, <<2, 1>>}

-----------------------------------------------------------------------------
WheelFiles == [p \in {"init", "extension", "RECORD"} |-> IF p = "RECORD" THEN "self" ELSE "v2"]
Installed ==
    [p \in {"init", "extension", "RECORD", "direct_url"} |->
        IF p = "RECORD" THEN "self" ELSE IF p = "direct_url" THEN "url" ELSE "v2"]
Good ==
    [index |-> "canonical", source |-> "canonical", build |-> "canonical", env |-> "cell",
     status |-> "available", staged |-> "none", version |-> "expected", wheel |-> WheelFiles,
     record |-> Installed, disk |-> Installed, url |-> "release", hash |-> "match",
     origin |-> "package"]

\* Other file trees: a file changed, missing or added.
Trees ==
    {Installed, [Installed EXCEPT !["extension"] = "other"],
     [p \in DOMAIN Installed \ {"extension"} |-> Installed[p]],
     [p \in DOMAIN Installed \cup {"stray"} |-> IF p = "stray" THEN "x" ELSE Installed[p]],
     [p \in DOMAIN Installed \cup {"INSTALLER"} |-> IF p = "INSTALLER" THEN "uv" ELSE Installed[p]]}

SomeInstallations ==
    [index : {"canonical", "altered", "missing"}, source : {"canonical"}, build : {"canonical"},
     env : {"cell", "unsupported"}, status : {"available"}, staged : {"none"},
     version : {"expected", "none"}, wheel : {WheelFiles}, record : {Installed},
     disk : {Installed}, url : {"release"}, hash : {"match"}, origin : {"package"}]
      \cup {[Good EXCEPT !.record = r, !.disk = d, !.origin = o] :
               r \in Trees, d \in Trees, o \in {"package", "elsewhere"}}
      \cup {[Good EXCEPT !.staged = s, !.status = t, !.url = u, !.hash = h] :
               s \in {"none", "exact", "altered", "unreadable"},
               t \in {"available", "candidate", "withdrawn"}, u \in {"release", "staged"},
               h \in {"match", "absent", "other"}}
      \cup {[Good EXCEPT !.source = s, !.build = b] :
               s \in {"canonical", "altered", "missing"},
               b \in {"canonical", "altered", "missing"}}

Sound == [catalog |-> TRUE, adapter |-> TRUE, fixtures |-> TRUE, import |-> "package",
          native |-> "sound"]
SomeSetups ==
    {Sound, [Sound EXCEPT !.catalog = FALSE], [Sound EXCEPT !.adapter = FALSE],
     [Sound EXCEPT !.fixtures = FALSE], [Sound EXCEPT !.import = "elsewhere"]}
      \cup {[Sound EXCEPT !.native = n] : n \in {"wrong", "raises", "no_choices", "unserializable"}}
-----------------------------------------------------------------------------
CONSTANTS c1, c2, p1, p2
TwoCells == {c1, c2}
SomePatches == {p1, p2, "unfit"}
Alike == Permutations(TwoCells) \cup Permutations({p1, p2})
=============================================================================
