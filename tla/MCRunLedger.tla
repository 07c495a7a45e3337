------------------------------ MODULE MCRunLedger ------------------------------
(***************************************************************************)
(* Instances of RunLedger for TLC.                                         *)
(***************************************************************************)
EXTENDS RunLedger, TLC

CONSTANTS r1, r2, r3
ThreeRuns == {r1, r2, r3}
OneRun    == {r1}
Symmetric == Permutations(ThreeRuns)
================================================================================
