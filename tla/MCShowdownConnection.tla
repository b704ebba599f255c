------------------------- MODULE MCShowdownConnection -------------------------
(***************************************************************************)
(* Every stream of up to MaxLines lines, cut into frames in every way.     *)
(***************************************************************************)
EXTENDS ShowdownConnection

AllKinds == LoginControls \cup {"global", "room"}
=============================================================================
