--------------------------- MODULE PokeEngineWorld ---------------------------
(***************************************************************************)
(* The state mapper: from a public observation and a hypothetical complete *)
(* world to a native state, and from native states to what each player     *)
(* knows of them.                                                          *)
(*                                                                         *)
(* A native state has one side per player and the field; a side is         *)
(*   team     its pokemon: id, hp, maxhp, moves (id, usable), hidden (item,*)
(*            ability, stats), look (status and types), tera               *)
(*   active   an index into the team                                       *)
(*   force, trapped   force_switch and force_trapped                       *)
(* Digests are injective, so a digest is what is digested.                 *)
(***************************************************************************)
EXTENDS EngineArtifact, Integers

Players == {"p1", "p2"}
Other(player) == IF player = "p1" THEN "p2" ELSE "p1"
Active(side) == side.team[side.active]

-----------------------------------------------------------------------------
(***************************************************************************)
(* map_observed_root.  The observation o has our_side, ready (a started    *)
(* gen9ou singles battle) and hp, the precision and maximum seen of the    *)
(* opponent's first revealed pokemon (active_slot is 1 whoever is active). *)
(***************************************************************************)
ObservedRootFailure(o) ==
    IF o.ready /\ o.our_side \in Players THEN "ok" ELSE "unsupported_mapping"

PublicHp(o) == [p \in Players |-> IF p = o.our_side THEN <<"percent", 100>> ELSE o.hp]

-----------------------------------------------------------------------------
\* The document of a complete world is the native state it describes, with
\* keys ("exact", "missing", "extra"), format and field of the document.
PokemonFails(mon) ==
    \/ Len(mon.moves) \notin 1..4
    \/ Cardinality({mon.moves[i].id : i \in DOMAIN mon.moves}) # Len(mon.moves)
    \/ mon.maxhp < 1
    \/ mon.hp \notin 0..mon.maxhp

SideFails(side) ==
    \/ Len(side.team) \notin 1..6
    \/ \E i \in DOMAIN side.team : PokemonFails(side.team[i])
    \/ side.active \notin DOMAIN side.team

\* map_complete_world; "construct" is whether the native constructors accept.
CompleteWorldFailure(doc, construct) ==
    FirstFailure(
      <<<<doc.keys # "missing", "missing_field">>,
        <<doc.keys # "extra" /\ doc.format /\ doc.field, "unsupported_mapping">>,
        <<\A p \in Players : ~SideFails(doc.state[p]), "unsupported_mapping">>,
        <<construct, "native_exception">>>>)

-----------------------------------------------------------------------------
\* Python's round: to the nearest, halves to the even number.
Round(num, den) ==
    LET down == num \div den
        twice == 2 * (num % den)
    IN  IF twice > den \/ (twice = den /\ down % 2 = 1) THEN down + 1 ELSE down

\* Mutant: the opponent's health is projected exactly whatever was observed.
PublicActiveExact(side, own, precision) ==
    [active |-> side.active, id |-> Active(side).id,
     hp |-> <<Active(side).hp, Active(side).maxhp>>,
     look |-> Active(side).look, tera |-> Active(side).tera]

\* _public_active: exact for one's own pokemon, else in the public precision.
PublicActive(side, own, precision) ==
    LET mon == Active(side)
    IN  [active |-> side.active, id |-> mon.id,
         hp |-> IF own \/ precision[1] = "exact" THEN <<mon.hp, mon.maxhp>>
                ELSE Round(mon.hp * (IF precision[1] = "pixel" THEN precision[2] ELSE 100),
                           mon.maxhp),
         look |-> mon.look, tera |-> mon.tera]

\* The entries of after that differ from before.
Changed(before, after) ==
    {<<key, after[key]>> : key \in {k \in DOMAIN after : before[k] # after[k]}}

\* _public_transition_delta
PublicDelta(source, target, player, precision) ==
    <<[p \in Players |->
          Changed(PublicActive(source[p], p = player, precision[p]),
                  PublicActive(target[p], p = player, precision[p]))],
      IF source.weather # target.weather THEN target.weather ELSE "unchanged">>

\* What the mapper digests of one's own side.
Private(side) ==
    [active |-> side.active,
     team |-> [i \in DOMAIN side.team |->
                  [id |-> side.team[i].id, hp |-> side.team[i].hp,
                   maxhp |-> side.team[i].maxhp, moves |-> side.team[i].moves,
                   hidden |-> side.team[i].hidden, tera |-> side.team[i].tera]]]

\* _view_digest at a root and after a transition.
RootView(state, observed, player) == <<observed, player, Private(state[player])>>
NextView(prior, source, target, player, precision) ==
    <<prior, player, Private(target[player]), PublicDelta(source, target, player, precision)>>

-----------------------------------------------------------------------------
(***************************************************************************)
(* The native engine, as the adapter and its sentinel use it.  A choice is *)
(* a move (perhaps with terastallization), a switch or "No Move".          *)
(***************************************************************************)
Choice(kind, id, tera) == [kind |-> kind, id |-> id, tera |-> tera]
NoMove == Choice("pass", "No Move", FALSE)

Switches(side) ==
    LET bench == SelectSeq([i \in DOMAIN side.team |-> [i |-> i, mon |-> side.team[i]]],
                           LAMBDA b : b.i # side.active /\ b.mon.hp > 0)
    IN  [j \in DOMAIN bench |-> Choice("switch", bench[j].mon.id, FALSE)]

MoveChoices(side) ==
    LET usable == SelectSeq(Active(side).moves, LAMBDA m : m.usable)
        With(tera) == [j \in DOMAIN usable |-> Choice("move", usable[j].id, tera)]
    IN  With(FALSE)
          \o (IF \E i \in DOMAIN side.team : side.team[i].tera THEN << >> ELSE With(TRUE))

MustSwitch(side) == side.force \/ Active(side).hp <= 0

\* legal_choices(state)[player]: the other player waits for a forced switch.
LegalChoices(state, player) ==
    LET own == state[player]
        found == IF MustSwitch(own) THEN Switches(own)
                 ELSE IF MustSwitch(state[Other(player)]) THEN << >>
                 ELSE MoveChoices(own) \o (IF own.trapped THEN << >> ELSE Switches(own))
    IN  IF found = << >> THEN <<NoMove>> ELSE found

SlotOf(side, id) == CHOOSE i \in DOMAIN side.team : side.team[i].id = id

\* One side after its choice, its active pokemon hit for damage.
AfterChoice(side, choice, damage) ==
    LET moved == IF choice.kind = "switch"
                 THEN [side EXCEPT !.active = SlotOf(side, choice.id), !.force = FALSE]
                 ELSE [side EXCEPT !.team[side.active].tera = @ \/ choice.tera]
        hp == Active(moved).hp
    IN  [moved EXCEPT !.team[moved.active].hp = IF damage < hp THEN hp - damage ELSE 0]

Hit(choice, damage) == IF choice.kind = "move" THEN damage ELSE 0

AfterJoint(state, c1, c2, d1, d2) ==
    [state EXCEPT !.p1 = AfterChoice(state.p1, c1, Hit(c2, d2)),
                  !.p2 = AfterChoice(state.p2, c2, Hit(c1, d1))]
=============================================================================
