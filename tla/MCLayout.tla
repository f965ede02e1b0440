------------------------------ MODULE MCLayout ------------------------------
(***************************************************************************)
(* How ranks are placed, how rows are cut, and how long arrays are sent:   *)
(* three loops that do not depend on each other.  A behaviour picks one of *)
(* them at the start; the others stay at their smallest beginning.         *)
(***************************************************************************)
EXTENDS ProcessGrid, RowPartition, MpiChunks

VARIABLE
  loop

vars == <<loop, gridVars, partitionVars, chunkVars>>

Init ==
  \/ /\ loop = "grid"
     /\ GridInit
     /\ totalRows = 0 /\ ranks = 1 /\ PartitionInit
     /\ count = 0 /\ limit = 1 /\ ChunkInit
  \/ /\ loop = "partition"
     /\ PartitionInit
     /\ size = 1 /\ logicalNodeSize = 0 /\ GridInit
     /\ count = 0 /\ limit = 1 /\ ChunkInit
  \/ /\ loop = "chunks"
     /\ ChunkInit
     /\ size = 1 /\ logicalNodeSize = 0 /\ GridInit
     /\ totalRows = 0 /\ ranks = 1 /\ PartitionInit

GridStep ==
  loop = "grid" /\ GridNext /\ UNCHANGED <<loop, partitionVars, chunkVars>>

PartitionStep ==
  loop = "partition" /\ PartitionNext /\ UNCHANGED <<loop, gridVars, chunkVars>>

ChunkStep ==
  loop = "chunks" /\ ChunkNext /\ UNCHANGED <<loop, gridVars, partitionVars>>

Next == GridStep \/ PartitionStep \/ ChunkStep

Spec == Init /\ [][Next]_vars

=============================================================================
