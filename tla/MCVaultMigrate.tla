--------------------------- MODULE MCVaultMigrate ---------------------------
(***************************************************************************)
(* Instances of VaultMigrate for TLC.                                      *)
(***************************************************************************)
EXTENDS VaultMigrate, TLC

CONSTANTS v, w, p1, p2

PidSymmetry == Permutations(Pids)
=============================================================================
