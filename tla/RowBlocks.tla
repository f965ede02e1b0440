----------------------------- MODULE RowBlocks -----------------------------
(***************************************************************************)
(* Which rank holds which rows: blocks of consecutive rows, one per rank,  *)
(* the first of them one row longer when the rows do not divide evenly.    *)
(*                                                                         *)
(* partitionRows is the value the loop of the code computes; RowPartition  *)
(* models that loop and shows that it does.                                *)
(***************************************************************************)
EXTENDS Integers

BlockRows(totalRows, ranks, rank) ==
  totalRows \div ranks + (IF rank < totalRows % ranks THEN 1 ELSE 0)

partitionRows(totalRows, ranks) ==
  LET baseRows  == totalRows \div ranks
      remainder == totalRows % ranks
  IN [rank \in 0 .. ranks - 1 |->
       [firstRow |-> rank * baseRows
                     + (IF rank < remainder THEN rank ELSE remainder),
        rows     |-> BlockRows(totalRows, ranks, rank)]]

RowsOf(block) == block.firstRow .. block.firstRow + block.rows - 1

\* The first block that holds the row, or -1.
ownerOfRow(row, blocks) ==
  LET owners == {rank \in DOMAIN blocks : row \in RowsOf(blocks[rank])}
  IN IF owners = {} THEN -1
     ELSE CHOOSE rank \in owners : \A other \in owners : rank <= other

=============================================================================
