-------------------------- MODULE PokeEngineSearch --------------------------
(***************************************************************************)
(* PokeEngineTransitionModel over its action mapper: initialization, the   *)
(* preparation of a root from a request, and joint transitions, for two    *)
(* worlds that a search holds at the same time.  The engine may raise or   *)
(* answer malformed at any of its calls.                                   *)
(*                                                                         *)
(* The request comes from the same reader as the heuristic's, so the       *)
(* module continues RequestDecision: a search starts once the heuristic    *)
(* has its answer.                                                         *)
(***************************************************************************)
EXTENDS RequestDecision, PokeEngineWorld

CONSTANTS
    Installations, \* the installations the adapter may find
    Setups,        \* the catalog, the adapter's digests, how the package behaves
    SearchRequests,\* per payload a search starts from: the requests it roots worlds in
    RequestMoves,  \* the move id in each move slot of the request
    Observations,  \* the public observations at the root
    Documents,     \* per payload a search starts from: the complete worlds it brings
    Answers,       \* the weights of an instruction list, and what goes wrong
    Damages,       \* what a hit may do
    FullMass, Tolerance, \* 100 percent and 0.0001 percent, in the same unit
    MaxCalls       \* bound: instruction lists that the engine is asked for

ASSUME InstallationsAssumption ==
    /\ \A i \in Installations :
          /\ {i.index, i.source, i.build} \subseteq {"canonical", "altered", "missing"}
          /\ i.staged \in {"none", "exact", "altered", "unreadable"}
    /\ \A s \in Setups :
          s.native \in {"sound", "wrong", "raises", "no_choices", "unserializable"}

\* The weights are in the unit of FullMass, of which each is a multiple.
ASSUME WeightsAssumption == \A a \in Answers : a.weights \in Seq(Int)

VARIABLES engine, \* "none", a failure of initialization, or "ok"
          health, \* backend_health
          worlds, \* the prepared worlds of the search, None before
          last,   \* what the call in progress has to say, "idle" between calls
          spent,  \* the work that all calls so far have reported to the searcher
          asked   \* history: how often the engine was asked for instructions

searchVars == <<engine, health, worlds, last, spent, asked>>

WorldIds == {1, 2}

\* What may go wrong in the engine during a call of the adapter.
ChoiceFaults == {"none", "from_string", "choices_raise", "choices_malformed"}
PrepareFaults == {"none", "construct", "serialize", "from_string", "choices_raise",
                  "choices_malformed"}
TransitionFaults == {"none", "from_string", "choices_raise", "choices_malformed",
                     "generate_raise", "apply_raise", "serialize"}

\* The result of a call: its failure class, and what the properties look at.
Called(call, class, value) == [call |-> call, class |-> class, value |-> value]
Idle == Called("none", "ok", {})

\* What a call reports: its failure class, its work, and whether the handler
\* that reports it marks the backend as unhealthy.
Report(class, work, marks) == [class |-> class, work |-> work, marks |-> marks]

\* The searcher adds up the work of its calls; nothing makes a backend healthy again.
Account(report) ==
    /\ spent' = spent + report.work
    /\ health' = IF report.marks THEN "unhealthy" ELSE health

\* The caller takes the result and goes on, after a failure too.
Return ==
    /\ last # Idle
    /\ last' = Idle
    /\ UNCHANGED <<vars, engine, health, worlds, spent, asked>>

-----------------------------------------------------------------------------
\* Actions of the search: bound to a root, or to nothing but a native choice.
RootAction(root, sub) == [root |-> root, kind |-> sub.kind, id |-> sub]
DeepAction(choice) == [root |-> None, kind |-> choice.kind, id |-> choice]

\* _submission_choice: None when the world has no such move or slot.  A switch
\* goes to whatever pokemon the world lists in the slot.
SubmissionChoice(sub, side) ==
    LET slot == sub.args[1]
        moves == Active(side).moves
    IN  CASE sub.kind = "move" /\ slot \in DOMAIN moves /\ moves[slot].id = RequestMoves[slot]
               -> Choice("move", RequestMoves[slot], sub.tera)
          [] sub.kind = "switch" /\ slot \in DOMAIN side.team
               -> Choice("switch", side.team[slot].id, FALSE)
          [] OTHER -> None

Listed(choices) == {choices[i] : i \in DOMAIN choices}

\* No two submissions of the set are the same native choice.
OneToOne(safe, side) ==
    \A s, t \in safe : SubmissionChoice(s, side) = SubmissionChoice(t, side) => s = t

\* Mutant: a native choice the request does not offer is left out silently.
RootActionsFailureLax(safe, side, choices) ==
    LET explicit == {s \in safe : s.kind \in {"move", "switch"}}
        bound == {SubmissionChoice(s, side) : s \in explicit}
    IN  FirstFailure(
          <<<<safe # {} /\ None \notin bound /\ bound \subseteq Listed(choices),
             "safe_submission_mismatch">>,
            <<explicit = safe, "unsupported_mapping">>,
            <<OneToOne(safe, side), "safe_submission_mismatch">>>>)

\* map_root_actions, and the comparison with the native choices after it.
RootActionsFailure(safe, side, choices) ==
    LET explicit == {s \in safe : s.kind \in {"move", "switch"}}
        bound == {SubmissionChoice(s, side) : s \in explicit}
    IN  FirstFailure(
          <<<<safe # {} /\ None \notin bound /\ bound \subseteq Listed(choices),
             "safe_submission_mismatch">>,
            <<explicit = safe, "unsupported_mapping">>,
            <<OneToOne(safe, side), "safe_submission_mismatch">>,
            <<bound = Listed(choices), "safe_submission_mismatch">>>>)

RootBindings(root, side) ==
    {[action |-> RootAction(root, s), choice |-> SubmissionChoice(s, side)] : s \in root.safe}

\* map_native_actions
DeepFailure(choices) ==
    IF Cardinality(Listed(choices)) = Len(choices) THEN "ok" ELSE "malformed_native_result"
DeepBindings(choices) == {[action |-> DeepAction(c), choice |-> c] : c \in Listed(choices)}

AtRoot(world, player) == world.ply = 0 /\ player = world.root.observed.our_side
Bindings(world, player) ==
    IF AtRoot(world, player) THEN world.bindings
    ELSE DeepBindings(LegalChoices(world.state, player))
LegalActions(world, player) == {b.action : b \in Bindings(world, player)}

-----------------------------------------------------------------------------
SearchInit ==
    /\ Init
    /\ engine = "none" /\ health = "healthy" /\ spent = 0 /\ asked = 0
    /\ worlds = [w \in WorldIds |-> None]
    /\ last = Idle

\* _initialize
Initialize(i, s) ==
    /\ engine' = Initialization(i, s.catalog, s.adapter, s.import, s.native)
    /\ last' = Called("initialize", engine',
                      {<<i, Sentinel(i, s.fixtures, s.import, s.native)>>})
    /\ UNCHANGED <<payload, outcome, command, health, worlds, spent, asked>>

\* _state_from_string and _legal_choice_values, and then what is bound to the
\* choices, perhaps with a failure of the action mapper.
BindingReport(fault, mapping) ==
    FirstReport(
      <<<<fault # "from_string", Report("malformed_native_result", 0, TRUE)>>,
        <<fault # "choices_raise", Report("native_exception", 0, TRUE)>>,
        <<fault # "choices_malformed", Report("malformed_native_result", 0, FALSE)>>,
        <<mapping = "ok", Report(mapping, 0, FALSE)>>>>,
      Report("ok", 0, FALSE))

\* The identity the adapter derives for a root.
Derived(request, safe, observed) ==
    [request |-> request.rqid, safe |-> safe, observed |-> observed,
     backend |-> "verified", catalog |-> "pinned"]

\* The identity a caller brings must be the derived one.
IdentityFailure(given, derived) ==
    FirstFailure(
      <<<<given.request = derived.request, "request_identity_mismatch">>,
        <<given.safe = derived.safe /\ given.observed = derived.observed,
          "safe_submission_mismatch">>,
        <<given.backend = derived.backend, "adapter_identity_mismatch">>,
        <<given.catalog = derived.catalog, "capability_ambiguity">>>>)

\* _prepare_battle_root_impl.  The exceptions of the native constructors and of
\* to_string arrive as mapping errors and leave the backend healthy.
PrepareBattleRoot(w, request, safe, observed, doc, given, fault) ==
    LET root == Derived(request, safe, observed)
        early == FirstFailure(
            <<<<ObservedRootFailure(observed) = "ok", ObservedRootFailure(observed)>>,
              <<CompleteWorldFailure(doc, fault # "construct") = "ok",
                CompleteWorldFailure(doc, fault # "construct")>>,
              <<fault # "serialize", "malformed_native_result">>,
              <<IdentityFailure(given, root) = "ok", IdentityFailure(given, root)>>>>)
        player == observed.our_side
        mapping == RootActionsFailure(safe, doc.state[player],
                                      LegalChoices(doc.state, player))
        report == IF early # "ok" THEN Report(early, 0, FALSE) ELSE BindingReport(fault, mapping)
    IN  /\ Account(report)
        /\ last' = Called("prepare", report.class, {})
        /\ worlds' = IF report.class # "ok" THEN worlds
                     ELSE [worlds EXCEPT ![w] =
                            [root |-> root, state |-> doc.state, path |-> <<doc.state>>,
                             bindings |-> RootBindings(root, doc.state[player]),
                             views |-> [p \in Players |-> RootView(doc.state, observed, p)],
                             ply |-> 0]]
        /\ UNCHANGED <<payload, outcome, command, engine, asked>>

\* prepare_root with the identity and the actions of a world: a prepared world
\* only ever carries actions of its own root.
PrepareRoot(w, identity, actions) ==
    LET class == FirstFailure(
            <<<<identity.backend = "verified" /\ identity.catalog = "pinned",
                "adapter_identity_mismatch">>,
              <<actions = {b.action : b \in worlds[w].bindings}, "safe_submission_mismatch">>,
              <<\A a \in actions : a.root = identity, "unsupported_mapping">>>>)
    IN  /\ last' = Called("prepare_root", class,
                          {[played |-> {identity} \cup {a.root : a \in actions},
                            owner |-> {worlds[w].root}]})
        /\ UNCHANGED <<vars, engine, health, worlds, spent, asked>>

\* legal_actions.  The root player's are at hand; for the others the engine is
\* asked, which costs nothing and may still make it unhealthy.
AskLegalActions(w, player, fault) ==
    LET world == worlds[w]
        report == IF AtRoot(world, player) THEN Report("ok", 0, FALSE)
                  ELSE BindingReport(fault, DeepFailure(LegalChoices(world.state, player)))
    IN  /\ Account(report)
        /\ last' = Called("legal_actions", report.class, {})
        /\ UNCHANGED <<vars, engine, worlds, asked>>

\* player_view and information_state_key
PlayerView(world, player) == world.views[player]
InformationStateKey(player, view) == <<player, view>>

-----------------------------------------------------------------------------
Sum(weights) ==
    LET add[i \in 0..Len(weights)] == IF i = 0 THEN 0 ELSE add[i - 1] + weights[i]
    IN  add[Len(weights)]

gcd[ab \in Nat \X Nat] == IF ab[2] = 0 THEN ab[1] ELSE gcd[<<ab[2], ab[1] % ab[2]>>]

\* math.lcm
LeastCommon(dens) ==
    LET lcm[i \in 0..Len(dens)] ==
            IF i = 0 THEN 1 ELSE lcm[i - 1] * (dens[i] \div gcd[<<lcm[i - 1], dens[i]>>])
    IN  lcm[Len(dens)]

Distance(a, b) == IF a > b THEN a - b ELSE b - a

\* Mutant: a call that ends in an exception of the engine is not charged.
AnswerChecksUncharged(list, fault) ==
    <<<<fault # "generate_raise", Report("native_exception", 0, TRUE)>>,
      <<list # << >>, Report("malformed_native_result", 1, FALSE)>>,
      <<\A i \in DOMAIN list : list[i].weight > 0,
        Report("chance_normalization_failure", 1, FALSE)>>,
      <<Distance(Sum([i \in DOMAIN list |-> list[i].weight]), FullMass) <= Tolerance,
        Report("chance_normalization_failure", 1, FALSE)>>,
      <<fault # "apply_raise", Report("native_exception", 1, TRUE)>>,
      <<fault # "serialize", Report("malformed_native_result", 1, FALSE)>>>>

\* generate_instructions, and _mapped_successors on its list of weights and
\* states; to_string in map_native_state does not mark the backend.
AnswerChecks(list, fault) ==
    <<<<fault # "generate_raise", Report("native_exception", 1, TRUE)>>,
      <<list # << >>, Report("malformed_native_result", 1, FALSE)>>,
      <<\A i \in DOMAIN list : list[i].weight > 0,
        Report("chance_normalization_failure", 1, FALSE)>>,
      <<Distance(Sum([i \in DOMAIN list |-> list[i].weight]), FullMass) <= Tolerance,
        Report("chance_normalization_failure", 1, FALSE)>>,
      <<fault # "apply_raise", Report("native_exception", 1, TRUE)>>,
      <<fault # "serialize", Report("malformed_native_result", 1, FALSE)>>>>

\* What the engine's answer leads to; TransitionWork(units=1) when it is mapped.
AnswerReport(list, fault) == FirstReport(AnswerChecks(list, fault), Report("ok", 1, FALSE))

WeightOf(list, state) ==
    Sum([i \in DOMAIN list |-> IF list[i].state = state THEN list[i].weight ELSE 0])

\* Mutant: the weights of equal successors are not added up.
SuccessorsApart(list) ==
    LET total == Sum([i \in DOMAIN list |-> list[i].weight])
    IN  {[state |-> list[i].state, num |-> list[i].weight, den |-> total] : i \in DOMAIN list}

\* _mapped_successors and _successors: equal states are one successor with
\* the sum of their weights, over the least common denominator.
Successors(list) ==
    LET total == Sum([i \in DOMAIN list |-> list[i].weight])
        Den(state) == total \div gcd[<<WeightOf(list, state), total>>]
        den == LeastCommon([i \in DOMAIN list |-> Den(list[i].state)])
    IN  {[state |-> s, num |-> (WeightOf(list, s) * den) \div total, den |-> den] :
            s \in {list[i].state : i \in DOMAIN list}}

\* Mutant: the action's root is not compared.
BindingForAnyRoot(bindings, action) ==
    LET matches == {b \in bindings : b.action.id = action.id}
    IN  IF Cardinality(matches) = 1 THEN CHOOSE b \in matches : TRUE ELSE None

\* The binding of an action, None unless exactly one has it.
BindingFor(bindings, action) ==
    LET matches == {b \in bindings : b.action = action}
    IN  IF Cardinality(matches) = 1 THEN CHOOSE b \in matches : TRUE ELSE None

\* root_submission: what is sent to the server for an action of the search.
RootSubmission(world, action) ==
    LET binding == BindingFor(world.bindings, action)
    IN  IF binding = None THEN None ELSE binding.action.id

\* _bindings and binding_for_action for one player.
BindingFailure(world, player, action) ==
    FirstFailure(
      <<<<AtRoot(world, player) \/ DeepFailure(LegalChoices(world.state, player)) = "ok",
          "malformed_native_result">>,
        <<BindingFor(Bindings(world, player), action) # None, "invalid_joint_action">>>>)

Instructions(state, c1, c2, weights, damage) ==
    [i \in DOMAIN weights |->
        [weight |-> weights[i],
         state |-> AfterJoint(state, c1, c2, damage[i][1], damage[i][2])]]

Successor(world, state) ==
    LET precision == PublicHp(world.root.observed)
    IN  [world EXCEPT
           !.state = state, !.path = Append(@, state), !.ply = @ + 1,
           !.views = [p \in Players |->
                         NextView(world.views[p], world.state, state, p, precision)]]

Prepared == {w \in WorldIds : worlds[w] # None}
PlyOf(w) == IF w \in Prepared THEN worlds[w].ply ELSE 0
Plies == PlyOf(1) + PlyOf(2)

\* A searcher plays what some call of legal_actions handed it, for whichever
\* world; it prepares its worlds before it searches them.
Playable(player) == UNION {LegalActions(worlds[w], player) : w \in Prepared}
                      \cup UNION {{b.action : b \in worlds[w].bindings} :
                                     w \in {v \in Prepared : worlds[v].root.observed.our_side = player}}

\* The two actions of a transition: their bindings, and the first that has none.
JointBinding(world, a1, a2) ==
    LET f1 == BindingFailure(world, "p1", a1)
    IN  [failure |-> IF f1 # "ok" THEN f1 ELSE BindingFailure(world, "p2", a2),
         b1 |-> BindingFor(Bindings(world, "p1"), a1),
         b2 |-> BindingFor(Bindings(world, "p2"), a2)]

\* _transition_impl: the choices and the bindings of both actions, then the
\* engine is asked for instructions, and its answer is mapped.
Transition(w, a1, a2, joint, weights, damage, fault) ==
    LET world == worlds[w]
        early == BindingReport(fault, joint.failure)
        list == Instructions(world.state, joint.b1.choice, joint.b2.choice, weights, damage)
        report == IF early.class # "ok" THEN early ELSE AnswerReport(list, fault)
    IN  /\ asked' = asked + (IF early.class = "ok" THEN 1 ELSE 0)
        /\ Account(report)
        /\ last' = Called("transition", report.class,
                          IF report.class = "ok"
                          THEN {[list |-> list, successors |-> Successors(list),
                                 played |-> [p1 |-> a1.root, p2 |-> a2.root],
                                 owner |-> [p \in Players |->
                                               IF AtRoot(world, p) THEN world.root ELSE None]]}
                          ELSE {})
        /\ IF report.class = "ok"
           THEN \E i \in DOMAIN list :
                   worlds' = [worlds EXCEPT ![w] = Successor(world, list[i].state)]
           ELSE worlds' = worlds
        /\ UNCHANGED <<payload, outcome, command, engine>>

\* A pair of actions, and whatever the engine answers to it.  What it would answer
\* does not matter for a pair that is refused.
Play(w) ==
    LET first == Playable("p1")
        second == Playable("p2")
    IN  \E a1 \in first, a2 \in second :
          LET joint == JointBinding(worlds[w], a1, a2)
          IN  \E answer \in (IF joint.failure = "ok" THEN Answers
                             ELSE {CHOOSE a \in Answers : a.fault = "none"}) :
                \E damage \in [DOMAIN answer.weights -> Damages] :
                   Transition(w, a1, a2, joint, answer.weights, damage, answer.fault)

SearchNext ==
    \/ Next /\ UNCHANGED searchVars
    \/ /\ outcome = "chosen" /\ payload \in DOMAIN SearchRequests /\ engine = "none" /\ last = Idle
       /\ \E i \in Installations, s \in Setups : Initialize(i, s)
    \/ /\ engine = "ok" /\ last = Idle /\ Plies = 0
       /\ \E w \in WorldIds \ Prepared, request \in SearchRequests[payload],
             observed \in Observations, doc \in Documents[payload], fault \in PrepareFaults :
            \E safe \in {SafeSubmissions(request), SafeSubmissions(request) \ {Default}} :
              \E given \in {Derived(r, safe, observed) : r \in SearchRequests[payload]} :
                 PrepareBattleRoot(w, request, safe, observed, doc, given, fault)
    \/ last = Idle /\ \E w, v \in Prepared : \E identity \in {worlds[w].root, worlds[v].root} :
         PrepareRoot(w, identity, {b.action : b \in worlds[v].bindings})
    \/ last = Idle /\ \E w \in Prepared, player \in Players, fault \in ChoiceFaults :
         AskLegalActions(w, player, fault)
    \/ last = Idle /\ asked < MaxCalls /\ \E w \in Prepared : Play(w)
    \/ Return

SearchSpec == SearchInit /\ [][SearchNext]_<<vars, searchVars>>

-----------------------------------------------------------------------------
(***************************************************************************)
(* An initialized adapter works on the released (or staged) wheel and on   *)
(* nothing else, although verification only ever compares the files with   *)
(* RECORD and RECORD with the manifest; and whenever the sentinel reports  *)
(* the engine as available, initialization accepts the installation too.   *)
(***************************************************************************)
VerifiedMeansReleased ==
    last.call = "initialize" =>
        \A v \in last.value :
            /\ engine = "ok" \/ v[2] = "available" => IsReleased(v[1])
            /\ v[2] = "available" => engine \in {"ok", "capability_ambiguity",
                                                 "adapter_identity_mismatch"}

(***************************************************************************)
(* Whatever world a caller brings, an accepted root offers the search      *)
(* exactly the request's submissions, and with them all the native engine  *)
(* would let us do: no submission is lost, none is added and no two share  *)
(* a choice.  A move is the request's move; a switch goes to the pokemon   *)
(* that the world lists in the slot, for nothing compares the world's      *)
(* order of our team with the request's.                                   *)
(***************************************************************************)
RootActionsAreTheSafeSet ==
    last = Idle => \A w \in Prepared :
        LET world == worlds[w]
            start == world.path[1][world.root.observed.our_side]
        IN  /\ {b.action.id : b \in world.bindings} = world.root.safe
            /\ {b.choice : b \in world.bindings}
                 = Listed(LegalChoices(world.path[1], world.root.observed.our_side))
            /\ \A b, c \in world.bindings : b.choice = c.choice => b = c
            /\ \A b \in world.bindings :
                  b.choice = [kind |-> b.action.id.kind,
                              id |-> IF b.action.id.kind = "move"
                                     THEN RequestMoves[b.action.id.args[1]]
                                     ELSE start.team[b.action.id.args[1]].id,
                              tera |-> b.action.id.tera]

(***************************************************************************)
(* An action is only ever played where it belongs: at a root the player    *)
(* whose request it is plays an action of that very root, however alike    *)
(* two requests look, deeper nobody plays a root action, no world is       *)
(* prepared again under the identity of another root, and however deep the *)
(* search went an action is sent to the server as the submission it stands *)
(* for, or not at all if it belongs to another root.                       *)
(***************************************************************************)
ActionsStayWithTheirRoot ==
    /\ last.call \in {"transition", "prepare_root"} /\ last.class = "ok" =>
          \A v \in last.value : v.played = v.owner
    /\ last = Idle =>
          \A w, v \in Prepared : \A b \in worlds[v].bindings :
             RootSubmission(worlds[w], b.action)
               = IF worlds[v].root = worlds[w].root THEN b.action.id ELSE None

(***************************************************************************)
(* A searcher that adds up the work its calls report, of the outcomes and  *)
(* of the failures, knows how often it made the engine expand a position:  *)
(* refused pairs cost nothing, a list that cannot be used costs its unit,  *)
(* and every ply of every world has been paid for.  And it can trust the   *)
(* health it reads: after a transition that an exception of the engine     *)
(* ended the backend is not healthy.                                       *)
(***************************************************************************)
WorkIsWhatTheEngineDid ==
    /\ spent = asked
    /\ Plies <= spent
    /\ last.call = "transition" /\ last.class = "native_exception" => health = "unhealthy"

(***************************************************************************)
(* The successors are distinct, their probabilities add up to one and each *)
(* has exactly the engine's weight for it, relative to the engine's total. *)
(***************************************************************************)
ChanceIsExact ==
    last.call = "transition" =>
        \A v \in last.value :
            /\ \A s, t \in v.successors : s.state = t.state => s = t
            /\ \A s \in v.successors :
                  /\ s.num > 0
                  /\ s.num * Sum([i \in DOMAIN v.list |-> v.list[i].weight])
                       = s.den * WeightOf(v.list, s.state)

\* What a player may know of a state: its own side and the public face of
\* the other, with the health in the precision the observation had.
KnownTo(player, state, precision) ==
    LET face == Active(state[Other(player)])
        seen == precision[Other(player)]
        bar == IF seen[1] = "exact" THEN <<face.hp, face.maxhp>>
               ELSE Round(face.hp * (IF seen[1] = "pixel" THEN seen[2] ELSE 100), face.maxhp)
    IN  <<state[player], face.id, bar, face.look, face.tera, state.weather>>

\* The player has seen the same in both worlds so far.
SeenAlike(p, precision) ==
    \A k \in DOMAIN worlds[1].path :
        KnownTo(p, worlds[1].path[k], precision) = KnownTo(p, worlds[2].path[k], precision)

\* The worlds list the opponent's pokemon that came out at the same places.
ListedAlike(p) ==
    \A k \in DOMAIN worlds[1].path :
        worlds[1].path[k][Other(p)].active = worlds[2].path[k][Other(p)].active

\* Both worlds are as deep below the same observation.
SideBySide ==
    /\ last = Idle /\ Prepared = WorldIds
    /\ worlds[1].ply = worlds[2].ply /\ worlds[1].root.observed = worlds[2].root.observed

SameKey(p) ==
    InformationStateKey(p, PlayerView(worlds[1], p))
      = InformationStateKey(p, PlayerView(worlds[2], p))

(***************************************************************************)
(* Two hypothetical worlds of the same root that a player could not have   *)
(* told apart by anything it has seen so far give it the same view, so the *)
(* same information-state key: the items, abilities, stats, moves and      *)
(* exact health of the opponent do not reach the decisions of the search.  *)
(* The worlds have to list the opponent's team alike: _public_active puts  *)
(* the index of its active pokemon into the view, which the player never   *)
(* sees and every world is free to choose.                                 *)
(***************************************************************************)
ViewsHideTheWorld ==
    SideBySide => \A p \in Players :
        SeenAlike(p, PublicHp(worlds[1].root.observed)) /\ ListedAlike(p) => SameKey(p)

=============================================================================
