------------------------ MODULE MC_MessagePipeline ------------------------
(***************************************************************************)
(* Small instances of MessagePipeline.                                     *)
(***************************************************************************)
EXTENDS MessagePipeline, TLC

CONSTANTS r1, r2

MCReplicas == {r1, r2}
ReplicaSymmetry == Permutations(MCReplicas)
=============================================================================
