---------------------------- MODULE MCDatabaseV55 ----------------------------
(* Instances of DatabaseV55 for TLC.                                        *)
EXTENDS DatabaseV55
=============================================================================
