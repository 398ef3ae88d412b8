---------------------------- MODULE MCPersistentBDR ----------------------------
(* Instances of PersistentBDR for TLC.                                      *)
EXTENDS PersistentBDR

\* Nothing is claimed of what follows bytes behind a cut record or a skipped number.
Claimed == faults \subseteq {"unapplied"}
=============================================================================
