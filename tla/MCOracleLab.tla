----------------------------- MODULE MCOracleLab -----------------------------
(***************************************************************************)
(* A host for a candidate, one for a comparison build and two for none, a  *)
(* pair of good fixtures, of which one terastallizes, a pair whose second  *)
(* is no fixture, and a single fixture.  The simulator process ends well,  *)
(* in another course of the battle, or with an error.                      *)
(***************************************************************************)
EXTENDS OracleLab

SomeHosts ==
    {[node |-> "node22", npm |-> "npm10.9", platform |-> "linux"],
     [node |-> "node20", npm |-> "npm10.8", platform |-> "linux"],
     [node |-> "node22", npm |-> "unreadable", platform |-> "linux"],
     [node |-> "node20", npm |-> "npm10.8", platform |-> "unsupported"]}

Plain == [id |-> "plain", ruleset |-> {"build"}, sides |-> {"p1", "p2"}, move |-> "move", tera |-> FALSE]
Tera == [Plain EXCEPT !.id = "tera", !.move = "terastallize", !.tera = TRUE]
SomeFixtureSets == {<<Plain, Tera>>, <<Plain, [Tera EXCEPT !.move = "move"]>>, <<Tera>>}

Request(side) == [kind |-> "request", side |-> side, body |-> "active"]
Update(lines) == [kind |-> "update", lines |-> lines]
Good == [error |-> "none", sideError |-> FALSE, barriers |-> TRUE,
         messages |-> <<Request("p1"), Request("p2"), Update({"tera"}), [kind |-> "end"]>>]
SomeRuns == {Good, [Good EXCEPT !.messages = <<Request("p2"), Update({}), [kind |-> "end"]>>],
             [Good EXCEPT !.error = "io_timeout"], [Good EXCEPT !.error = "guard_missing"]}
=============================================================================
