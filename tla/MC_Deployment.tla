--------------------------- MODULE MC_Deployment ---------------------------
(***************************************************************************)
(* Each program of the repository next to a replica of the user service    *)
(* that is a release ahead: it has one migration more.                     *)
(***************************************************************************)
EXTENDS Deployment, TLC

CONSTANTS p0, q1

CallsOfOthers == q1 :> <<{3, 4}, {2}>>

SourcesOfAll == {{1}, {2}, {3}, {5}, {3, 4}}
=============================================================================
