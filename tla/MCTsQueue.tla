----------------------------- MODULE MCTsQueue -----------------------------
(***************************************************************************)
(* Instances of TsQueue for TLC.                                           *)
(***************************************************************************)
EXTENDS TsQueue, TLC

CONSTANTS t1, t2, t3, a, b

SmallBatches == {<<>>, <<a, b>>}

Pairs == {<<a, a>>}

ThreadSymmetry == Permutations(Threads)
=============================================================================
