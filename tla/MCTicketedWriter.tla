--------------------------- MODULE MCTicketedWriter ---------------------------
(* Instances of TicketedWriter for TLC.                                     *)
EXTENDS TicketedWriter
=============================================================================
