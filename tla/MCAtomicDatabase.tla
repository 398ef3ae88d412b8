--------------------------- MODULE MCAtomicDatabase ---------------------------
(* Instances of AtomicDatabase for TLC.                                     *)
EXTENDS AtomicDatabase, TLC

CONSTANTS k1, v1

\* The v1 files hold one key, or nothing.
OneLegacyKey == [k \in Keys |-> IF k = k1 THEN v1 ELSE Absent]
NoLegacyKey  == [k \in Keys |-> Absent]
=============================================================================
