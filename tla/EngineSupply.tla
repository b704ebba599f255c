----------------------------- MODULE EngineSupply -----------------------------
(***************************************************************************)
(* The engine from its source to a search: a behaviour is either the       *)
(* making of a release, or the use of an installed wheel for one request.  *)
(* The two share no state; what joins them is the wheel's content, which   *)
(* the first binds to its manifests and the second compares with them.     *)
(***************************************************************************)
EXTENDS PokeEngineSearch, EngineRelease

VARIABLE scene  \* "release" or "search"

supplyVars == <<scene, vars, searchVars, releaseVars>>

\* The scene that is not played stays in one of its initial states.
SupplyInit ==
    /\ \/ scene = "release" /\ payload = CHOOSE p \in Payloads : p.wait
       \/ scene = "search" /\ repo = CHOOSE r \in Repositories : TRUE
    /\ SearchInit /\ ReleaseInit

SupplyNext ==
    \/ scene = "release" /\ ReleaseNext /\ UNCHANGED <<scene, vars, searchVars>>
    \/ scene = "search" /\ SearchNext /\ UNCHANGED <<scene, releaseVars>>

SupplySpec == SupplyInit /\ [][SupplyNext]_supplyVars
=============================================================================
