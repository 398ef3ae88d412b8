--------------------------- MODULE MCResolutiveIndex ---------------------------
(* Instances of ResolutiveIndex for TLC.                                    *)
EXTENDS ResolutiveIndex
=============================================================================
