---------------------------- MODULE MCVaultLock ----------------------------
(***************************************************************************)
(* Instances of VaultLock for TLC.                                         *)
(***************************************************************************)
EXTENDS VaultLock, TLC

CONSTANTS p1, p2, p3

ProcSymmetry == Permutations(Procs)
=============================================================================
