--------------------------- MODULE MC_HandlerPool ---------------------------
(***************************************************************************)
(* A small instance of HandlerPool: a message with two handlers and two    *)
(* with one.                                                               *)
(***************************************************************************)
EXTENDS HandlerPool, TLC

CONSTANTS g1, g2, g3

HandlersOfGroups == g1 :> {1, 2} @@ g2 :> {1} @@ g3 :> {1}
=============================================================================
