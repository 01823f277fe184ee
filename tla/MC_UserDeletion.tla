-------------------------- MODULE MC_UserDeletion --------------------------
(***************************************************************************)
(* Small instances of UserDeletion.                                        *)
(***************************************************************************)
EXTENDS UserDeletion, TLC

CONSTANTS u1, u2, d1, d2, p1, h1, h2
=============================================================================
