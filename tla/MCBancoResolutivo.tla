------------------------- MODULE MCBancoResolutivo -------------------------
(* Instances of BancoResolutivo for TLC.                                    *)
EXTENDS BancoResolutivo, TLC
BancoSymmetry == Permutations(Threads) \cup Permutations(Buckets) \cup Permutations(Phases)
=============================================================================
