---------------------------- MODULE MCTicketSync ----------------------------
(* Small instances of TicketSync for TLC.                                  *)
EXTENDS TicketSync

CONSTANTS m1, m2
=============================================================================
