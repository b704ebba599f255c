----------------------- MODULE MCShowdownProcessRunner -----------------------
(***************************************************************************)
(* A fixture of two steps: a request of one side, and then the end.        *)
(***************************************************************************)
EXTENDS ShowdownProcessRunner

TwoSteps == <<[sides |-> {"p1"}, end |-> FALSE], [sides |-> {}, end |-> TRUE]>>
=============================================================================
