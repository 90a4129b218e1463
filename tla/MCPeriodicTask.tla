--------------------------- MODULE MCPeriodicTask ---------------------------
(***************************************************************************)
(* Instances of PeriodicTask for TLC.                                      *)
(***************************************************************************)
EXTENDS PeriodicTask, TLC

CONSTANTS c1, c2, c3

CallerSymmetry == Permutations(Callers)
=============================================================================
