------------------------------ MODULE MCVault ------------------------------
(***************************************************************************)
(* Instances of Vault for TLC: a few entries over one or two fields.       *)
(***************************************************************************)
EXTENDS Vault, TLC

CONSTANTS t1, t2

\* One field, present with a nonzero or a zero value, or absent.
OneField == {<<1>>, <<0>>}

\* Two fields: one entry leaves the second alone, the other sets both, one to zero.
TwoFields == {<<1, Absent>>, <<0, 1>>}

ThreadSymmetry == Permutations(Threads)
=============================================================================
