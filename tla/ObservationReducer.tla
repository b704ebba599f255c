-------------------------- MODULE ObservationReducer --------------------------
(***************************************************************************)
(* ObservationReducer: the public battle state, folded from the lines of   *)
(* the battle room one event at a time.  Details are [name, tera]: the     *)
(* display string with or without its ", tera:TYPE" suffix.                *)
(***************************************************************************)
EXTENDS BattleLineParser, FiniteSets, SequencesExt

CONSTANTS Stats,       \* BOOST_STATS
          OurUserId    \* our_user_id

ASSUME OurUserAssumption == OurUserId # None
ASSUME IndexAssumption == None \notin Int

ZeroBoosts == [s \in Stats |-> 0]

\* normalize_identity_details: a tera suffix is not part of the identity.
NormalizeIdentity(details) == details.name

\* PokemonView.new; preview_details is never set.
NewPokemon(nick, details) ==
    [nick |-> nick, identity |-> NormalizeIdentity(details), details |-> details,
     active |-> FALSE, hp |-> None, status |-> None, fainted |-> FALSE,
     moves |-> << >>, identities |-> << >>, items |-> << >>, abilities |-> << >>,
     tera |-> None, boosts |-> ZeroBoosts, volatiles |-> {},
     recharging |-> FALSE, transform |-> None]

\* _empty_side; side_conditions map a condition to its layers.
EmptySide ==
    [user |-> None, team_size |-> None, preview |-> << >>, active_slot |-> None,
     pokemon |-> << >>, conditions |-> [c \in {} |-> 0]]

\* ObservedState.initial
Unobserved ==
    [index |-> -1, room |-> FALSE, meta |-> [m \in Metadata |-> None], rated |-> None,
     rules |-> << >>, turn |-> 0, battle_started |-> FALSE, preview_started |-> FALSE,
     winner |-> None, tied |-> FALSE, our_side |-> None,
     side |-> [s \in Sides |-> EmptySide],
     weather |-> None, fields |-> << >>, evidence |-> << >>, ignored |-> 0]

-----------------------------------------------------------------------------
\* _token_to_observation: the precision is told by the side and the maximum.
Observe(token, sd, ourSide) ==
    [cur |-> IF token.fainted THEN 0 ELSE token.cur,
     max |-> IF token.fainted /\ token.max = 0 THEN 1 ELSE token.max,
     precision |-> IF ourSide # None /\ sd = ourSide THEN "exact"
                   ELSE IF token.max = 100 THEN "percent" ELSE "pixel",
     fainted |-> token.fainted]

\* HpObservation.__post_init__
ValidHp(hp) == hp.max > 0 /\ hp.cur >= 0 /\ hp.cur <= hp.max

\* _find_active: 0 when there is none.
ActiveAt(side) ==
    LET at == {i \in DOMAIN side.pokemon : side.pokemon[i].active}
    IN  IF at = {} THEN 0 ELSE CHOOSE i \in at : \A j \in at : i <= j

\* The inactive fainted pokemon of that name (Revival Blessing).
RevivedAt(side, nick) ==
    {i \in DOMAIN side.pokemon :
        /\ ~side.pokemon[i].active
        /\ side.pokemon[i].fainted
        /\ side.pokemon[i].nick = nick}

\* _require_active
IsActive(state, sd, nick) ==
    LET i == ActiveAt(state.side[sd])
    IN  i # 0 /\ state.side[sd].pokemon[i].nick = nick

\* _require_health_target
TargetAt(state, event) ==
    IF event.type = "health" /\ event.slot = None
    THEN CHOOSE i \in RevivedAt(state.side[event.side], event.nick) : TRUE
    ELSE ActiveAt(state.side[event.side])

OnActive ==
    {"faint", "move", "health", "status", "boost", "clear", "-invertboost", "item",
     "ability", "form", "-transform", "-terastallize", "volatile", "-mustrecharge",
     "-swapboost", "-copyboost"}

\* The events that change the view they are about and no other.
OnOneView == (OnActive \ {"-swapboost", "-copyboost"}) \cup {"identity"}

\* The events that begin with state.side(event.side_id).
OnSide == OnActive \cup {"player", "teamsize", "poke", "switch", "identity", "-cureteam",
                         "side_condition"}

\* ReducerInvariantError: no such side, or no such pokemon on it.
NoTarget(state, event) ==
    \/ event.type \in OnSide /\ event.side \notin Sides
    \/ event.type = "identity" /\ ActiveAt(state.side[event.side]) = 0
    \/ /\ event.type \in OnActive
       /\ IF event.type = "health" /\ event.slot = None
          THEN Cardinality(RevivedAt(state.side[event.side], event.nick)) # 1
          ELSE ~IsActive(state, event.side, event.nick)
    \/ /\ event.type \in {"-swapboost", "-copyboost"}
       /\ \/ event.other.side \notin Sides
          \/ ~IsActive(state, event.other.side, event.other.nick)

\* -swapboost and -copyboost without a list of stats are about all of them.
SwappedStats(event) == IF event.value = None THEN Stats ELSE event.value

\* ValueError: HP outside its bounds, or a stat that is none of BOOST_STATS.
BadValue(state, event) ==
    \/ event.hp # None /\ ~ValidHp(Observe(event.hp, event.side, state.our_side))
    \/ event.type = "boost" /\ event.value \notin Stats
    \/ event.type \in {"-swapboost", "-copyboost"} /\ ~(SwappedStats(event) \subseteq Stats)

\* The code of the error with which the event is refused.
RefusalOf(state, event) ==
    IF event.type = "switch" /\ BadValue(state, event) THEN "unclassified"
    ELSE IF NoTarget(state, event) THEN "reducer_invariant_failure"
    ELSE IF BadValue(state, event) THEN "unclassified"
    ELSE None

-----------------------------------------------------------------------------
\* min(6, max(-6, b))
Clamp(b) == IF b > 6 THEN 6 ELSE IF b < -6 THEN -6 ELSE b

\* _apply_boost_delta, _set_boost
Boosted(boosts, event) ==
    [boosts EXCEPT ![event.value] =
        Clamp(IF event.action = "set" THEN event.amount ELSE @ + event.amount)]

\* _clear_boosts
Cleared(boosts, scope) ==
    [s \in Stats |-> CASE scope = "positive" -> IF boosts[s] < 0 THEN boosts[s] ELSE 0
                       [] scope = "negative" -> IF boosts[s] > 0 THEN boosts[s] ELSE 0
                       [] OTHER -> 0]

\* Mutant: the interval that was open stays open.
AppendInterval(intervals, value, index) ==
    Append(intervals, [value |-> value, from |-> index, until |-> None])

\* _close_open_interval
CloseOpen(intervals, index) ==
    [i \in DOMAIN intervals |->
        IF intervals[i].until = None THEN [intervals[i] EXCEPT !.until = index] ELSE intervals[i]]

\* _open_interval
OpenInterval(intervals, value, index) ==
    Append(CloseOpen(intervals, index), [value |-> value, from |-> index, until |-> None])

\* _end_ability_suppression_on_switch_out
EndSuppression(intervals, index) ==
    IF intervals # << >> /\ Last(intervals).until = None /\ Last(intervals).value = None
    THEN CloseOpen(intervals, index)
    ELSE intervals

\* Battle-only facts, lost on leaving the field.
Reset(view) ==
    [view EXCEPT !.boosts = ZeroBoosts, !.volatiles = {}, !.recharging = FALSE,
                 !.transform = None]

\* Mutant: a nickname is taken for an identity.
FindByNickname(pokemon, nick, details) ==
    LET at == {i \in DOMAIN pokemon : pokemon[i].nick = nick}
    IN  IF at = {} THEN 0 ELSE CHOOSE i \in at : \A j \in at : i <= j

\* _find_for_switch_in: 0 for a pokemon not seen yet.
FindForSwitchIn(pokemon, nick, details) ==
    LET at == {i \in DOMAIN pokemon : /\ pokemon[i].nick = nick
                                      /\ pokemon[i].identity = NormalizeIdentity(details)}
    IN  IF at = {} THEN 0 ELSE CHOOSE i \in at : \A j \in at : i <= j

\* Mutant: the pokemon that leaves keeps its boosts.
LeaveWithBoosts(view, index) ==
    IF view.active
    THEN [Reset(view) EXCEPT !.active = FALSE, !.boosts = view.boosts,
                             !.abilities = EndSuppression(@, index)]
    ELSE view

LeaveField(view, index) ==
    IF view.active
    THEN [Reset(view) EXCEPT !.active = FALSE, !.abilities = EndSuppression(@, index)]
    ELSE view

\* _activate_pokemon; active_slot is the position on the field, always 1.
Activate(side, event, hp, index) ==
    LET left == [i \in DOMAIN side.pokemon |-> LeaveField(side.pokemon[i], index)]
        i == FindForSwitchIn(left, event.nick, event.value)
        entered(view) ==
            [Reset(view) EXCEPT !.active = TRUE, !.hp = hp, !.status = event.hp.status,
                                !.fainted = FALSE, !.details = event.value]
    IN  [side EXCEPT !.active_slot = 1,
                     !.pokemon = IF i = 0
                                 THEN Append(left, entered(NewPokemon(event.nick, event.value)))
                                 ELSE [left EXCEPT ![i] = entered(@)]]

\* PokemonFainted keeps the maximum and the precision of the last HP.
Faint(view) ==
    [Reset(view) EXCEPT
        !.fainted = TRUE,
        !.hp = IF view.hp = None
               THEN [cur |-> 0, max |-> 100, precision |-> "percent", fainted |-> TRUE]
               ELSE [view.hp EXCEPT !.cur = 0, !.fainted = TRUE]]

\* The HP, status and fainted flag an event carries along.
WithHp(view, event, hp) ==
    [view EXCEPT !.hp = hp, !.status = event.hp.status, !.fainted = event.hp.fainted]

\* Mutant: the nickname of the disguise stays.
ChangeIdentityOnly(view, event, hp, index) ==
    [WithHp(view, event, hp) EXCEPT
        !.identity = NormalizeIdentity(event.value), !.details = event.value,
        !.identities = OpenInterval(@, event.value, index)]

\* IdentityChanged: the active pokemon was another one all along (Illusion).
ChangeIdentity(view, event, hp, index) ==
    [WithHp(view, event, hp) EXCEPT
        !.nick = event.nick, !.identity = NormalizeIdentity(event.value),
        !.details = event.value,
        !.identities = OpenInterval(@, event.value, index)]

\* FormChanged: only a persistent change is a change of identity.
ChangeForm(view, event, hp) ==
    [WithHp(view, event, hp) EXCEPT
        !.details = event.value,
        !.identity = IF event.action = "persistent" THEN NormalizeIdentity(event.value) ELSE @]

\* What an event does to the view of the pokemon it is about.
UpdatedView(view, event, hp, index) ==
    CASE event.type = "faint"      -> Faint(view)
      [] event.type = "move"       ->
            [view EXCEPT !.moves = IF Contains(@, event.value) THEN @ ELSE Append(@, event.value)]
      [] event.type = "health"     -> WithHp(view, event, hp)
      [] event.type = "status"     -> [view EXCEPT !.status = event.value]
      [] event.type = "boost"      -> [view EXCEPT !.boosts = Boosted(@, event)]
      [] event.type = "clear"      -> [view EXCEPT !.boosts = Cleared(@, event.action)]
      [] event.type = "-invertboost" -> [view EXCEPT !.boosts = [s \in Stats |-> -@[s]]]
      [] event.type = "item"       -> [view EXCEPT !.items = OpenInterval(@, event.value, index)]
      [] event.type = "ability"    -> [view EXCEPT !.abilities = OpenInterval(@, event.value, index)]
      [] event.type = "identity"   -> ChangeIdentity(view, event, hp, index)
      [] event.type = "form"       -> ChangeForm(view, event, hp)
      [] event.type = "-transform" -> [view EXCEPT !.transform = event.other.nick]
      [] event.type = "-terastallize" -> [view EXCEPT !.tera = event.value]
      [] event.type = "volatile"   ->
            [view EXCEPT !.volatiles = IF event.action = "end" THEN @ \ {event.value}
                                       ELSE @ \cup {event.value}]
      [] event.type = "-mustrecharge" -> [view EXCEPT !.recharging = TRUE]
      [] OTHER                     -> view
-----------------------------------------------------------------------------
\* _LAYER_CAPS: keyed by identifier.
LayerCap(condition) ==
    CASE condition = "spikes" -> 3 [] condition = "toxicspikes" -> 2 [] OTHER -> 1

Layers(conditions, condition) ==
    IF condition \in DOMAIN conditions THEN conditions[condition] ELSE 0

\* _update_side_condition
UpdateConditions(conditions, event) ==
    IF event.action = "end"
    THEN [c \in DOMAIN conditions \ {event.value} |-> conditions[c]]
    ELSE LET layers == Layers(conditions, event.value) + 1
             cap == LayerCap(event.value)
         IN  (event.value :> (IF layers < cap THEN layers ELSE cap)) @@ conditions

\* FieldConditionChanged
UpdateFields(fields, event) ==
    IF event.action = "end" THEN SelectSeq(fields, LAMBDA c : c # event.value)
    ELSE IF Contains(fields, event.value) THEN fields
    ELSE Append(fields, event.value)

SetBoosts(state, sd, boosts) ==
    [state EXCEPT !.side[sd].pokemon[ActiveAt(state.side[sd])].boosts = boosts]

\* -clearallboost: whoever is active on either side.
ClearActive(side) ==
    [side EXCEPT !.pokemon = [i \in DOMAIN @ |->
        IF i = ActiveAt(side) THEN [@[i] EXCEPT !.boosts = ZeroBoosts] ELSE @[i]]]

ClearAll(state) == [state EXCEPT !.side = [sd \in Sides |-> ClearActive(state.side[sd])]]

\* The boosts `into` with those of `stats` taken from `from`.
Taken(into, from, stats) == [s \in Stats |-> IF s \in stats THEN from[s] ELSE into[s]]

ActiveBoosts(state, sd) == state.side[sd].pokemon[ActiveAt(state.side[sd])].boosts

\* BoostsCopied: the receiver is named first.
CopyBoosts(state, event) ==
    SetBoosts(state, event.side,
              Taken(ActiveBoosts(state, event.side), ActiveBoosts(state, event.other.side),
                    SwappedStats(event)))

\* BoostsSwapped
SwapBoosts(state, event) ==
    SetBoosts(CopyBoosts(state, event), event.other.side,
              Taken(ActiveBoosts(state, event.other.side), ActiveBoosts(state, event.side),
                    SwappedStats(event)))

\* The evidence some events leave besides what they change.
EvidenceTypesOfEvents == {"move", "cant", "form", "-transform", "-terastallize", "evidence"}
EvidenceOf(event, index) ==
    [kind |-> event.type, side |-> event.side, nick |-> event.nick, from |-> index]

\* Metadata: who plays what.
MetadataEvents == {"init", "gen", "gametype", "tier", "rated", "rule"}
Announced(state, event) ==
    CASE event.type = "init"     -> [state EXCEPT !.room = TRUE]
      [] event.type = "gen"      -> [state EXCEPT !.meta["generation"] = event.value]
      [] event.type = "gametype" -> [state EXCEPT !.meta["game_type"] = event.value]
      [] event.type = "tier"     -> [state EXCEPT !.meta["tier"] = event.value]
      [] event.type = "rated"    -> [state EXCEPT !.rated = TRUE]
      [] event.type = "rule"     -> [state EXCEPT !.rules = Append(@, event.value)]

\* PlayerDeclared, TeamSizeDeclared
PlayerEvents == {"player", "teamsize"}
Declared(state, event) ==
    IF event.type = "player"
    THEN [state EXCEPT !.our_side = IF event.nick = OurUserId /\ @ = None THEN event.side ELSE @,
                       !.side[event.side].user = event.nick]
    ELSE [state EXCEPT !.side[event.side].team_size = event.amount]

PreviewEvents == {"poke", "clearpoke", "teampreview"}
Previewed(state, event) ==
    CASE event.type = "poke"        ->
            [state EXCEPT !.side[event.side].preview = Append(@, event.value)]
      [] event.type = "clearpoke"   ->
            [state EXCEPT !.side = [sd \in Sides |-> [@[sd] EXCEPT !.preview = << >>]]]
      [] event.type = "teampreview" -> [state EXCEPT !.preview_started = TRUE]

ProgressEvents == {"start", "turn", "win", "tie"}
Progressed(state, event) ==
    CASE event.type = "start" -> [state EXCEPT !.battle_started = TRUE]
      [] event.type = "turn"  -> [state EXCEPT !.turn = event.amount]
      [] event.type = "win"   -> [state EXCEPT !.winner = event.value]
      [] event.type = "tie"   -> [state EXCEPT !.tied = TRUE]

FieldEvents == {"-weather", "field", "side_condition", "-swapsideconditions"}
FieldChanged(state, event) ==
    CASE event.type = "-weather" ->
            [state EXCEPT !.weather = IF event.action = "end" THEN None ELSE event.value]
      [] event.type = "field"    -> [state EXCEPT !.fields = UpdateFields(@, event)]
      [] event.type = "side_condition" ->
            [state EXCEPT !.side[event.side].conditions = UpdateConditions(@, event)]
      [] event.type = "-swapsideconditions" ->
            [state EXCEPT !.side["p1"].conditions = state.side["p2"].conditions,
                          !.side["p2"].conditions = state.side["p1"].conditions]

\* PokemonSwitched
Switched(state, event, hp, index) ==
    [state EXCEPT !.side[event.side] = Activate(@, event, hp, index)]

\* TeamStatusCured
CureTeam(state, event) ==
    [state EXCEPT !.side[event.side].pokemon =
        [i \in DOMAIN @ |-> [@[i] EXCEPT !.status = None]]]

\* _replace_pokemon
ViewChanged(state, event, hp, index) ==
    [state EXCEPT !.side[event.side].pokemon[TargetAt(state, event)] =
        UpdatedView(@, event, hp, index)]

\* ObservationReducer.reduce: what the event changes.
Changed(state, event, index) ==
    LET hp == IF event.hp = None THEN None ELSE Observe(event.hp, event.side, state.our_side)
    IN  CASE event.type \in MetadataEvents -> Announced(state, event)
          [] event.type \in PlayerEvents   -> Declared(state, event)
          [] event.type \in PreviewEvents  -> Previewed(state, event)
          [] event.type \in ProgressEvents -> Progressed(state, event)
          [] event.type = "switch"         -> Switched(state, event, hp, index)
          [] event.type \in OnOneView      -> ViewChanged(state, event, hp, index)
          [] event.type = "-cureteam"      -> CureTeam(state, event)
          [] event.type = "-clearallboost" -> ClearAll(state)
          [] event.type = "-swapboost"     -> SwapBoosts(state, event)
          [] event.type = "-copyboost"     -> CopyBoosts(state, event)
          [] event.type \in FieldEvents    -> FieldChanged(state, event)
          [] event.type = "ignored"        -> [state EXCEPT !.ignored = @ + 1]
          [] OTHER                         -> state

\* ... at the next event index, and with the evidence it leaves.
Reduced(state, event) ==
    LET index == state.index + 1
        changed == Changed(state, event, index)
    IN  [changed EXCEPT
            !.index = index,
            !.evidence = IF event.type \in EvidenceTypesOfEvents
                         THEN Append(@, EvidenceOf(event, index)) ELSE @]
=============================================================================
