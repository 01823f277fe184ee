------------------------------ MODULE MC_Outbox ------------------------------
(***************************************************************************)
(* Small instances of Outbox.                                              *)
(***************************************************************************)
EXTENDS Outbox, TLC

CONSTANTS r1, r2
=============================================================================
