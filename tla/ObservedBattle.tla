---------------------------- MODULE ObservedBattle ----------------------------
(***************************************************************************)
(* A battle as the session follows it: BattleSession._process_battle_event *)
(* and _process_timer parse one line, reduce it, and either go on with the *)
(* new state or end with the error.                                        *)
(***************************************************************************)
EXTENDS ObservationReducer

CONSTANTS Lines,      \* lines the server may send
          Openings,   \* sequences of lines a battle may begin with
          MaxLines    \* bound: lines read, the opening included

\* An argument that is present is not None.
Tokenized(line) ==
    /\ line.ident # None => line.ident.nick # None
    /\ line.hp # None => ParseHp(line.hp) # None
    /\ line.wire = "win" => line.text # None

\* A rule of the game, which nothing in the reducer checks: a pokemon enters the
\* field with HP left.
EntersAlive(line) ==
    line.wire \in {"switch", "drag"} => line.hp = None \/ line.hp.trailer # "fnt"

ASSUME LinesAssumption == \A line \in Lines : Tokenized(line) /\ EntersAlive(line)
ASSUME OpeningsAssumption ==
    \A o \in Openings : /\ Len(o) \in Nat
                        /\ \A i \in 1..Len(o) : Tokenized(o[i]) /\ EntersAlive(o[i])

\* The codes of the errors with which a line may end.
ASSUME ErrorsAssumption ==
    None \notin {"unknown_protocol_event", "malformed_protocol_message", "timer_or_forfeit",
                 "reducer_invariant_failure", "unclassified"}

VARIABLES observed,  \* BattleSession._state
          read,      \* history: the lines read so far
          failed     \* the error that ended the session, None while it runs

battleVars == <<observed, read, failed>>

\* Before the first line.
BattleInit ==
    /\ observed = Unobserved
    /\ read = << >>
    /\ failed = None

\* The next lines of the openings that begin with what was read.
Continuations ==
    {opening[Len(read) + 1] : opening \in
        {o \in Openings : Len(read) < Len(o) /\ \A i \in 1..Len(read) : read[i] = o[i]}}

\* What the server sends: one of the openings, then any lines.
NextLines == IF Continuations = {} THEN Lines ELSE Continuations

\* The error of a line, from the classifier, the parser or the reducer.
LineFailure(line) ==
    IF ParseError(line) # None THEN ParseError(line) ELSE RefusalOf(observed, Parse(line))

ReadLine(line) ==
    /\ LineFailure(line) = None
    /\ observed' = Reduced(observed, Parse(line))
    /\ read' = Append(read, line)
    /\ UNCHANGED failed

RefuseLine(line) ==
    /\ LineFailure(line) # None
    /\ failed' = LineFailure(line)
    /\ UNCHANGED <<observed, read>>

BattleNext ==
    /\ failed = None
    /\ observed.winner = None /\ ~observed.tied
    /\ Len(read) < MaxLines
    /\ \E line \in NextLines : ReadLine(line) \/ RefuseLine(line)

BattleSpec == BattleInit /\ [][BattleNext]_battleVars

-----------------------------------------------------------------------------
Views == UNION {ToSet(observed.side[sd].pokemon) : sd \in Sides}

\* A pokemon on the bench carries nothing that belongs to the field.
OffTheField(view) ==
    Reset(view) = view /\ EndSuppression(view.abilities, observed.index) = view.abilities

(***************************************************************************)
(* The views of a side fit each other and themselves, whatever happened    *)
(* before: at most one pokemon is active; every other one has no boosts,   *)
(* no volatiles, no recharge turn, no transformation and no suppressed     *)
(* ability (_activate_pokemon); and a pokemon is marked fainted exactly    *)
(* when its last HP says so, through damage, faint, revival, form and      *)
(* identity changes.                                                       *)
(***************************************************************************)
ViewsAreCoherent ==
    \A sd \in Sides :
        LET pokemon == observed.side[sd].pokemon
        IN  /\ Cardinality({i \in DOMAIN pokemon : pokemon[i].active}) <= 1
            /\ \A i \in DOMAIN pokemon :
                  /\ ~pokemon[i].active => OffTheField(pokemon[i])
                  /\ pokemon[i].fainted <=> pokemon[i].hp.fainted

\* Intervals in the order they were opened; only the last may be open, and one
\* that was superseded ends where the next begins, or earlier.
IsTimeline(intervals) ==
    \A i \in DOMAIN intervals :
        /\ i < Len(intervals) =>
              /\ intervals[i].until # None
              /\ intervals[i].from < intervals[i + 1].from
              /\ intervals[i].until <= intervals[i + 1].from
        /\ intervals[i].until # None => intervals[i].from < intervals[i].until

(***************************************************************************)
(* docs/contracts/protocol-state.md: item, ability and identity values     *)
(* carry their source event and an interval of validity.  At any event     *)
(* index at most one value of each is valid.                               *)
(***************************************************************************)
EvidenceIsATimeline ==
    \A view \in Views :
        /\ IsTimeline(view.items)
        /\ IsTimeline(view.abilities)
        /\ IsTimeline(view.identities)

-----------------------------------------------------------------------------
\* The last line before i that put a pokemon of that side on the field.
EntryOf(i) ==
    LET entries == {j \in 1..i : /\ read[j].wire \in {"switch", "drag"}
                                 /\ read[j].ident.side = read[i].ident.side}
    IN  read[CHOOSE j \in entries : \A k \in entries : k <= j]

\* The moves used by the pokemon of that side, name and identity, by the lines.
MovesInLines(sd, nick, identity) ==
    {read[i].text : i \in {j \in DOMAIN read :
        /\ read[j].wire = "move"
        /\ read[j].ident.side = sd
        /\ EntryOf(j).ident.nick = nick
        /\ NormalizeIdentity(EntryOf(j).text) = identity}}

(***************************************************************************)
(* "Two teammates can share a nickname": while no line corrects an         *)
(* identity, every pokemon that was shown has one view, and that view      *)
(* holds its own revealed moves and no teammate's.                         *)
(***************************************************************************)
RevealedMovesAreOwn ==
    (\A i \in DOMAIN read : read[i].wire \notin {"replace", "detailschange"}) =>
        \A sd \in Sides :
            LET pokemon == observed.side[sd].pokemon
            IN  /\ \A i, j \in DOMAIN pokemon :
                      (pokemon[i].nick = pokemon[j].nick
                         /\ pokemon[i].identity = pokemon[j].identity) => i = j
                /\ \A i \in DOMAIN pokemon :
                      ToSet(pokemon[i].moves)
                        = MovesInLines(sd, pokemon[i].nick, pokemon[i].identity)

-----------------------------------------------------------------------------
\* The part of the state that RequestReconciler reads, in the terms of
\* ObservedState, and the events in its terms.
Projection(state) ==
    [our_side |-> state.our_side, meta |-> state.meta,
     team_size |-> [sd \in Sides |-> state.side[sd].team_size],
     active |-> [sd \in Sides |->
        LET i == ActiveAt(state.side[sd])
        IN  IF i = 0 THEN None ELSE state.side[sd].pokemon[i].nick],
     battle_started |-> state.battle_started,
     over |-> state.winner # None \/ state.tied]

AbstractEvent(event) ==
    CASE event.type = "player"   ->
            [type |-> "player", side |-> event.side, ours |-> event.nick = OurUserId]
      [] event.type = "gen"      -> [type |-> "generation", value |-> event.value]
      [] event.type = "gametype" -> [type |-> "game_type", value |-> event.value]
      [] event.type = "tier"     -> [type |-> "tier", value |-> event.value]
      [] event.type = "teamsize" ->
            [type |-> "team_size", side |-> event.side, value |-> event.amount]
      [] event.type = "switch"   -> [type |-> "switch", side |-> event.side, nick |-> event.nick]
      [] event.type = "identity" -> [type |-> "replace", side |-> event.side, nick |-> event.nick]
      [] event.type \in OnActive /\ event.slot # None ->
            [type |-> "acted", side |-> event.side, nick |-> event.nick]
      [] event.type \in {"win", "tie"} -> [type |-> "over"]
      [] event.type = "start"    -> [type |-> "start"]
      [] OTHER                   -> [type |-> "turn"]

(***************************************************************************)
(* The session's model of the public state (ObservedState) is what the     *)
(* reducer computes: each line read takes the projection of the state      *)
(* through Reduce, and no line that Reduce refuses is read.                *)
(***************************************************************************)
ImplementsObservedState ==
    [][failed' = None =>
          LET event == AbstractEvent(Parse(Last(read')))
          IN  /\ ~Refused(Projection(observed), event)
              /\ Projection(observed') = Reduce(Projection(observed), event)]_battleVars

-----------------------------------------------------------------------------
\* What the field is by the lines: how often the hazard was laid on a side
\* since it was last removed there.
LaidOn(sd, condition) ==
    LET ends == {i \in DOMAIN read : /\ read[i].wire = "-sideend"
                                     /\ read[i].ident.side = sd
                                     /\ read[i].text = condition}
    IN  Cardinality({i \in DOMAIN read : /\ read[i].wire = "-sidestart"
                                         /\ read[i].ident.side = sd
                                         /\ read[i].text = condition
                                         /\ \A j \in ends : j < i})

(***************************************************************************)
(* docs/superpowers/plans/2026-07-29-battlebelief-m1-protocol-safe-        *)
(* prototype.md: the layers of spikes go up to three.  Spikes laid twice   *)
(* are two layers.                                                         *)
(***************************************************************************)
SpikesStack ==
    (\A i \in DOMAIN read : read[i].wire # "-swapsideconditions") =>
        \A sd \in Sides :
            Layers(observed.side[sd].conditions, "Spikes")
              = (IF LaidOn(sd, "Spikes") > 3 THEN 3 ELSE LaidOn(sd, "Spikes"))
=============================================================================
