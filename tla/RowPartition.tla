---------------------------- MODULE RowPartition ----------------------------
(***************************************************************************)
(* The loop of partitionRows, one rank per step.                           *)
(***************************************************************************)
EXTENDS RowBlocks

CONSTANTS
  MaxRows,   \* bound: rows to distribute
  MaxRanks   \* bound: ranks to distribute them to

ASSUME RowsAssumption == MaxRows \in Nat

ASSUME RanksAssumption == MaxRanks \in Nat

VARIABLES
  totalRows, ranks,   \* the arguments
  rank,               \* the loop's counter
  firstRow,           \* where the next block begins
  blocks              \* the blocks of the ranks below rank

partitionVars == <<totalRows, ranks, rank, firstRow, blocks>>

PartitionInit ==
  /\ totalRows \in 0 .. MaxRows
  /\ ranks \in 1 .. MaxRanks
  /\ rank = 0
  /\ firstRow = 0
  /\ blocks = [k \in {} |-> 0]

\* Slip: the ranks that take one row more are counted from one.
AssignLate ==
  /\ rank < ranks
  /\ LET blockRows == BlockRows(totalRows, ranks, rank + 1) IN
     /\ blocks' = [k \in 0 .. rank |->
                    IF k = rank THEN [firstRow |-> firstRow, rows |-> blockRows]
                                ELSE blocks[k]]
     /\ firstRow' = firstRow + blockRows
  /\ rank' = rank + 1
  /\ UNCHANGED <<totalRows, ranks>>

Assign ==
  /\ rank < ranks
  /\ LET blockRows == BlockRows(totalRows, ranks, rank) IN
     /\ blocks' = [k \in 0 .. rank |->
                    IF k = rank THEN [firstRow |-> firstRow, rows |-> blockRows]
                                ELSE blocks[k]]
     /\ firstRow' = firstRow + blockRows
  /\ rank' = rank + 1
  /\ UNCHANGED <<totalRows, ranks>>

ReturnBlocks == rank = ranks /\ UNCHANGED partitionVars

PartitionNext == Assign \/ ReturnBlocks

PartitionSpec == PartitionInit /\ [][PartitionNext]_partitionVars

-----------------------------------------------------------------------------

\* Each row of the matrix belongs to exactly one rank, the one ownerOfRow
\* names, however the rows divide and also when there are fewer of them than
\* ranks; no rank has two rows more than another.
OneOwner ==
  rank = ranks =>
    /\ \A row \in 0 .. totalRows - 1 : \A k \in 0 .. ranks - 1 :
         row \in RowsOf(blocks[k]) <=> k = ownerOfRow(row, blocks)
    /\ \A row \in 0 .. totalRows - 1 : ownerOfRow(row, blocks) # -1
    /\ \A k, l \in 0 .. ranks - 1 : blocks[k].rows - blocks[l].rows <= 1

\* The value the other modules use for a partition is the one the loop
\* returns.
LoopIsPartition ==
  rank = ranks => blocks = partitionRows(totalRows, ranks)

=============================================================================
