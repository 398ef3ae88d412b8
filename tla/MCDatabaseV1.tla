----------------------------- MODULE MCDatabaseV1 -----------------------------
(* Instances of DatabaseV1 for TLC.                                         *)
EXTENDS DatabaseV1
=============================================================================
