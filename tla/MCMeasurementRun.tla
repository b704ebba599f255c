--------------------------- MODULE MCMeasurementRun ---------------------------
(***************************************************************************)
(* The server, policy and sink of MCBattleSession under a measurement.     *)
(***************************************************************************)
EXTENDS MCBattleSession, MeasurementRun
=============================================================================
