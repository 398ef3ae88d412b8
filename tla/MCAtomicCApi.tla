----------------------------- MODULE MCAtomicCApi -----------------------------
(* Instances of AtomicCApi for TLC.                                         *)
EXTENDS AtomicCApi, TLC
ApiSymmetry == Permutations(Threads) \cup Permutations(Keys)
=============================================================================
