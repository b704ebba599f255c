--------------------------- MODULE BattleLineParser ---------------------------
(***************************************************************************)
(* classify_room_payload, parse_battle_line and parse_inactive_line: from a*)
(* room line to an event of the core.  A line is the wire type and its     *)
(* arguments after splitting at "|"; an argument that does not parse (no   *)
(* pokemon identifier, no number, no HP) is None.                          *)
(***************************************************************************)
EXTENDS Integers, Sequences, ObservedState

(***************************************************************************)
(*   wire    the wire type                                                 *)
(*   n       the number of arguments present                               *)
(*   ident   the first argument: [side, slot, nick]; slot is None for a    *)
(*           reference without position ("p1: Name"), nick is empty when   *)
(*           the text looks like a pokemon but does not parse as one       *)
(*   other   the second argument, or the target of a move, likewise        *)
(*   text    the textual argument: details, move, stat, condition, ...     *)
(*   hp      [cur, max, trailer]; max is None when there is no "/"         *)
(*   num     the numeric argument                                          *)
(***************************************************************************)
\* A line with all the arguments its handler requires, and none of interest.
Bare(wire, required) ==
    [wire |-> wire, n |-> required, ident |-> None, other |-> None,
     text |-> None, hp |-> None, num |-> None]

MetadataTypes == {"player", "teamsize", "gametype", "gen", "tier", "rated", "rule"}
PreviewTypes == {"clearpoke", "poke", "teampreview"}
ProgressTypes == {"start", "turn", "win", "tie"}
IdentityTypes == {"move", "switch", "drag", "faint", "cant", "detailschange", "replace"}
HealthTypes == {"-damage", "-heal", "-sethp"}
StatusTypes == {"-status", "-curestatus", "-cureteam"}
ClearTypes == {"-clearboost", "-clearpositiveboost", "-clearnegativeboost"}
StatTypes == {"-boost", "-unboost", "-setboost"}
PairTypes == {"-swapboost", "-copyboost"}
BoostTypes == StatTypes \cup PairTypes \cup ClearTypes \cup {"-clearallboost", "-invertboost"}
FieldTypes ==
    {"-weather", "-fieldstart", "-fieldend", "-sidestart", "-sideend", "-swapsideconditions"}
VolatileTypes == {"-start", "-end", "-singleturn", "-singlemove", "-mustrecharge"}
ItemAbilityTypes == {"-item", "-enditem", "-ability", "-endability"}
FormTeraTypes == {"-transform", "-formechange", "-terastallize"}
EvidenceTypes ==
    {"-crit", "-supereffective", "-resisted", "-immune", "-miss", "-fail", "-activate",
     "-block", "-notarget", "-nothing", "-hitcount", "-prepare", "-fieldactivate"}
IgnoredTypes ==
    {"upkeep", "t:", "-anim", "-hint", "-center", "-combine", "-waiting", "message",
     "-message", "spacer"}
TimerTypes == {"inactive", "inactiveoff"}

BattleEventTypes ==
    {"init"} \cup MetadataTypes \cup PreviewTypes \cup ProgressTypes \cup IdentityTypes
      \cup HealthTypes \cup StatusTypes \cup BoostTypes \cup FieldTypes \cup VolatileTypes
      \cup ItemAbilityTypes \cup FormTeraTypes \cup EvidenceTypes \cup IgnoredTypes

\* classify_room_payload, for the lines that end in an event: requests, errors
\* and chat never reach the parser.
Classify(line) ==
    IF line.wire \in TimerTypes THEN "timer_message"
    ELSE IF line.wire \in BattleEventTypes THEN "battle_event"
    ELSE "unknown"

-----------------------------------------------------------------------------
\* _require: the arguments without which a handler refuses the line.
Required(wire) ==
    CASE wire \in {"switch", "drag", "detailschange", "replace", "-formechange"} \cup StatTypes -> 3
      [] wire \in {"player", "teamsize", "poke", "cant", "move", "-sidestart", "-sideend",
                   "-transform", "-terastallize"}
                  \cup HealthTypes \cup PairTypes \cup (VolatileTypes \ {"-mustrecharge"}) -> 2
      [] wire \in {"rated", "clearpoke", "teampreview", "start", "tie", "init",
                   "-clearallboost", "-swapsideconditions"}
                  \cup EvidenceTypes \cup IgnoredTypes \cup TimerTypes -> 0
      [] OTHER -> 1

\* The handlers that parse the first argument as a pokemon.
NeedsPokemon ==
    IdentityTypes \cup HealthTypes \cup StatusTypes \cup (BoostTypes \ {"-clearallboost"})
      \cup VolatileTypes \cup ItemAbilityTypes \cup FormTeraTypes

\* ... and that refuse a reference without a position.
NeedsActive == NeedsPokemon \ (HealthTypes \cup {"-cureteam"})

NeedsHp == HealthTypes \cup {"switch", "drag", "detailschange", "replace", "-formechange"}
NeedsNumber == StatTypes \cup {"teamsize", "gen", "turn"}

\* _parse_hp_token: "0 fnt" carries no maximum, which becomes 0.
ParseHp(hp) ==
    [cur |-> hp.cur,
     max |-> IF hp.max = None THEN 0 ELSE hp.max,
     status |-> IF hp.trailer = "fnt" THEN None ELSE hp.trailer,
     fainted |-> hp.trailer = "fnt"]

\* A text that _looks_like_pokemon_ident takes for a pokemon, and that
\* _parse_pokemon_ident refuses: no nickname, or a position of a doubles battle.
Unparsable(ident) == ident # None /\ ident.nick = ""

\* MalformedProtocolMessage
Malformed(line) ==
    \/ line.n < Required(line.wire)
    \/ line.wire = "init" /\ line.text # "battle"
    \/ line.wire \in NeedsPokemon /\ line.ident = None
    \/ line.wire \in NeedsPokemon \cup EvidenceTypes /\ Unparsable(line.ident)
    \/ line.wire \in PairTypes \cup {"move", "-transform"} /\ Unparsable(line.other)
    \/ line.wire \in NeedsActive /\ line.ident.slot = None
    \/ line.wire \in PairTypes \cup {"-transform"}
         /\ (line.other = None \/ line.other.slot = None)
    \/ line.wire \in {"-sidestart", "-sideend"} /\ line.ident.side \notin Sides
    \/ line.wire \in NeedsHp /\ line.hp = None
    \/ line.wire \in NeedsNumber /\ line.num = None

\* "forfeited", "lost due to inactivity": the text alone decides.
Forfeits(line) ==
    /\ line.wire \in {"-message", "inactive"}
    /\ line.text = "forfeit"

\* The error with which parsing ends, None if there is an event.
ParseError(line) ==
    IF Classify(line) = "unknown" THEN "unknown_protocol_event"
    ELSE IF Malformed(line) THEN "malformed_protocol_message"
    ELSE IF Forfeits(line) THEN "timer_or_forfeit"
    ELSE None

-----------------------------------------------------------------------------
\* The class of the event a wire type becomes.
EventType(wire) ==
    CASE wire \in {"switch", "drag"}       -> "switch"
      [] wire = "replace"                  -> "identity"
      [] wire \in {"detailschange", "-formechange"} -> "form"
      [] wire \in HealthTypes              -> "health"
      [] wire \in {"-status", "-curestatus"} -> "status"
      [] wire \in StatTypes                -> "boost"
      [] wire \in ClearTypes               -> "clear"
      [] wire \in {"-fieldstart", "-fieldend"} -> "field"
      [] wire \in {"-sidestart", "-sideend"} -> "side_condition"
      [] wire \in VolatileTypes \ {"-mustrecharge"} -> "volatile"
      [] wire \in {"-item", "-enditem"}    -> "item"
      [] wire \in {"-ability", "-endability"} -> "ability"
      [] wire \in EvidenceTypes \cup TimerTypes -> "evidence"
      [] wire \in IgnoredTypes             -> "ignored"
      [] OTHER                             -> wire

\* action, mode, kind or scope of the event.
ActionOf(line) ==
    CASE line.wire = "-weather" /\ line.text = "none" -> "end"
      [] line.wire \in {"-fieldend", "-sideend", "-end", "-enditem", "-endability"} -> "end"
      [] line.wire \in {"-item", "-ability", "-setboost"} -> "set"
      [] line.wire = "detailschange"       -> "persistent"
      [] line.wire = "-clearpositiveboost" -> "positive"
      [] line.wire = "-clearnegativeboost" -> "negative"
      [] line.wire \in {"-clearboost", "-clearallboost"} -> "all"
      [] OTHER                             -> "start"

\* Names are kept as the server writes them; only a cured status and the item
\* or ability that ends lose theirs.
ValueOf(line) ==
    IF line.wire \in {"-curestatus", "-enditem", "-endability"} THEN None ELSE line.text

Parse(line) ==
    [type   |-> EventType(line.wire),
     action |-> ActionOf(line),
     side   |-> IF line.ident = None THEN None ELSE line.ident.side,
     slot   |-> IF line.ident = None THEN None ELSE line.ident.slot,
     nick   |-> IF line.ident = None THEN None ELSE line.ident.nick,
     other  |-> line.other,
     value  |-> ValueOf(line),
     hp     |-> IF line.hp = None THEN None ELSE ParseHp(line.hp),
     amount |-> IF line.wire = "-unboost" THEN -line.num ELSE line.num]
=============================================================================
