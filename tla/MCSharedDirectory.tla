-------------------------- MODULE MCSharedDirectory --------------------------
(* Instances of SharedDirectory for TLC.                                    *)
EXTENDS SharedDirectory, TLC
HandleSymmetry == Permutations(Handles)
=============================================================================
