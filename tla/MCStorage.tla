----------------------------- MODULE MCStorage ------------------------------
(***************************************************************************)
(* The block driver with its device, or the FAT32 file system.             *)
(***************************************************************************)
EXTENDS VirtioBlk, Fat32, TLC

VARIABLE subject

MCInit == BlkInit /\ FatInit /\ subject \in {"blk", "fat"}

MCNext ==
  /\ \/ subject = "blk" /\ BlkNext /\ UNCHANGED fatVars
     \/ subject = "fat" /\ FatNext /\ UNCHANGED <<blkVars, queueVars>>
  /\ UNCHANGED subject

MCSpec == MCInit /\ [][MCNext]_<<blkVars, queueVars, fatVars, subject>>

\* No step looks at what a name is, only whether it is long.
NameSymmetry == Permutations(Names \ LongNames)
=============================================================================
