------------------------------ MODULE CheckOrder ------------------------------
(***************************************************************************)
(* A chain of checks that stops at the first one that does not hold, with  *)
(* what that check reports: a sequence of pairs of condition and report.   *)
(***************************************************************************)
EXTENDS Naturals, Sequences

\* What the first check that does not hold reports, passed when all hold.
FirstReport(checks, passed) ==
    LET failing == {i \in DOMAIN checks : ~checks[i][1]}
    IN  IF failing = {} THEN passed
        ELSE checks[CHOOSE i \in failing : \A j \in failing : i <= j][2]

\* The class of the first check that does not hold, "ok" when all do.
FirstFailure(checks) == FirstReport(checks, "ok")
=============================================================================
