-------------------------- MODULE RequestReconciler --------------------------
(***************************************************************************)
(* The two local checks between a request and the wire: the reconciler,    *)
(* which compares the request with the public state, and the safety gate;  *)
(* and the heuristic policy that chooses between them.                     *)
(*                                                                         *)
(* The room and the identity of the safe set are taken by the reader from  *)
(* the session and from the request itself, so the reconciler's first two  *)
(* comparisons have nothing to compare here.                               *)
(***************************************************************************)
EXTENDS RequestReader

\* _ALLOWED_KINDS
AllowedKinds ==
    [move          |-> {"move", "switch", "default"},
     forced_switch |-> {"switch", "default"},
     revival       |-> {"revive", "default"},
     team_preview  |-> {"team", "default"},
     wait          |-> {}]

\* A public fact that is still unknown postpones the decision, a different
\* one refuses it.
Agrees(fact, same) ==
    IF fact = None THEN "pending" ELSE IF same THEN "accept" ELSE "reject"

Holds(cond) == IF cond THEN "accept" ELSE "reject"

\* The submissions fit the kind of the request (lines 143-179).
SafeSetFits(p) ==
    LET kind == RequestKind(p)
        subs == SafeSubmissions(p)
    IN  /\ IF kind = "wait" THEN subs = {} ELSE \E s \in subs : s.kind = "default"
        /\ \A s \in subs :
              /\ s.kind \in AllowedKinds[kind]
              /\ kind = "team_preview" /\ s.kind = "team"
                    => {s.args[i] : i \in DOMAIN s.args} = 1..Len(p.team)

\* For move, forced switch and revival the active pokemon must be public and
\* must be the one the request names.
ActiveAgrees(p, state) ==
    IF RequestKind(p) \in {"wait", "team_preview"} THEN "accept"
    ELSE IF state.active[p.side] = None THEN "pending_active"
    ELSE Holds(ActiveIdentity(p) = state.active[p.side])

\* RequestReconciler.reconcile: the first check that does not accept decides.
Reconcile(p, state, latest) ==
    FirstOther(
      <<Holds(latest = None \/ p.rqid >= latest),
        Agrees(state.our_side, p.side = state.our_side),
        Agrees(state.meta["generation"], state.meta["generation"] = "ok"),
        Agrees(state.meta["game_type"], state.meta["game_type"] = "ok"),
        Agrees(state.meta["tier"], state.meta["tier"] = "ok"),
        Holds(Len(p.team) \in 1..6),
        Holds(state.team_size[p.side] \in {None, Len(p.team)}),
        Holds(SafeSetFits(p)),
        ActiveAgrees(p, state)>>,
      "accept")

-----------------------------------------------------------------------------
\* HeuristicPolicy: _priority, then the order in which the reader listed them.
Priority(s) ==
    CASE s.kind = "move" /\ ~s.tera -> 0
      [] s.kind = "revive"          -> 1
      [] s.kind = "switch"          -> 2
      [] s.kind = "team"            -> 3
      [] s.kind = "move" /\ s.tera  -> 4
      [] s.kind = "default"         -> 5

\* Slots are listed upwards, team orders lexicographically.
ListedBefore(s, t) ==
    \E i \in DOMAIN s.args :
        /\ s.args[i] < t.args[i]
        /\ \A j \in 1..(i - 1) : s.args[j] = t.args[j]

HeuristicChoice(p) ==
    CHOOSE s \in SafeSubmissions(p) :
        \A t \in SafeSubmissions(p) \ {s} :
            \/ Priority(s) < Priority(t)
            \/ Priority(s) = Priority(t) /\ ListedBefore(s, t)

\* ActionSafetyGate.authorize
Authorized(p, s) == s \in SafeSubmissions(p)

Commands == [rqid : Nat, verb : ActionKinds, args : Seq(Nat), tera : BOOLEAN]

\* Mutant: the terastallize suffix is forgotten.
CommandWithoutTera(p, s) ==
    [rqid |-> p.rqid, verb |-> s.kind, args |-> s.args, tera |-> FALSE]

\* encode_submission and the "|<rqid>" suffix: the command on the wire.  A
\* revival is encoded like a switch.
Command(p, s) ==
    [rqid |-> p.rqid,
     verb |-> IF s.kind = "revive" THEN "switch" ELSE s.kind,
     args |-> s.args,
     tera |-> s.tera]
=============================================================================
