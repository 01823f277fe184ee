------------------------ MODULE MC_CommitOffsetQueue ------------------------
(***************************************************************************)
(* Small instances of CommitOffsetQueue.                                   *)
(***************************************************************************)
EXTENDS CommitOffsetQueue
=============================================================================
