---------------------------- MODULE ObservedState ----------------------------
(***************************************************************************)
(* The part of the public battle state that decides whether a server       *)
(* request may be answered: ObservedState, and the reducer steps that      *)
(* change that part.  Metadata values are abstracted to "ok" (generation   *)
(* 9, singles, Gen 9 OU) and "bad" (anything else); HP, boosts, evidence   *)
(* and field conditions are not read by the reconciler and are left out.   *)
(***************************************************************************)
EXTENDS Naturals

CONSTANTS None,      \* Python's None
          Nicknames  \* pokemon nicknames

Sides == {"p1", "p2"}
Metadata == {"generation", "game_type", "tier"}

ObservedStates ==
    [our_side       : Sides \cup {None},
     meta           : [Metadata -> {"ok", "bad", None}],
     team_size      : [Sides -> 1..6 \cup {None}],
     active         : [Sides -> Nicknames \cup {None}],
     battle_started : BOOLEAN,
     over           : BOOLEAN]

\* ObservedState.initial
InitialState ==
    [our_side       |-> None,
     meta           |-> [m \in Metadata |-> None],
     team_size      |-> [s \in Sides |-> None],
     active         |-> [s \in Sides |-> None],
     battle_started |-> FALSE,
     over           |-> FALSE]

(***************************************************************************)
(* Events as the parser hands them to the reducer.  An "acted" event is    *)
(* any of the events that name the active pokemon (move, faint, status,    *)
(* boost, item, ...): it changes nothing the reconciler reads, but the     *)
(* reducer refuses it unless that pokemon is the active one.               *)
(***************************************************************************)
BattleEvents ==
    [type : {"player"}, side : Sides, ours : BOOLEAN]
      \cup [type : Metadata, value : {"ok", "bad"}]
      \cup [type : {"team_size"}, side : Sides, value : 1..6]
      \cup [type : {"switch", "replace", "acted"}, side : Sides, nick : Nicknames]
      \cup [type : {"start", "turn", "over"}]

\* The reducer raises ReducerInvariantError: no active pokemon, or another one.
Refused(state, event) ==
    \/ event.type = "replace" /\ state.active[event.side] = None
    \/ event.type = "acted" /\ state.active[event.side] # event.nick

\* Our side is fixed by the first declaration that carries our user id.
DeclarePlayer(state, event) ==
    IF event.ours /\ state.our_side = None
    THEN [state EXCEPT !.our_side = event.side]
    ELSE state

\* _activate_pokemon and IdentityChanged leave exactly one active pokemon,
\* the one named by the event; a faint leaves it active.
Reduce(state, event) ==
    CASE event.type = "player"    -> DeclarePlayer(state, event)
      [] event.type \in Metadata  -> [state EXCEPT !.meta[event.type] = event.value]
      [] event.type = "team_size" -> [state EXCEPT !.team_size[event.side] = event.value]
      [] event.type \in {"switch", "replace"} ->
            [state EXCEPT !.active[event.side] = event.nick]
      [] event.type = "start"     -> [state EXCEPT !.battle_started = TRUE]
      [] event.type = "over"      -> [state EXCEPT !.over = TRUE]
      [] OTHER                    -> state
=============================================================================
