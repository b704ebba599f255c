--------------------------- MODULE MCChallengeSetup ---------------------------
(***************************************************************************)
(* Two rooms: each may be an old one, a game of the ladder or the battle.  *)
(***************************************************************************)
EXTENDS ChallengeSetup

NoOtherLines == {}
=============================================================================
