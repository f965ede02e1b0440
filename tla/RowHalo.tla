------------------------------ MODULE RowHalo ------------------------------
(***************************************************************************)
(* The halo of a row-partitioned baseline: which rows of B a rank lacks,   *)
(* in which slots it keeps them, how its product looks them up, and the    *)
(* rounds of the main program.  HaloTwoSided, HaloGet and HaloPut fill the *)
(* slots.                                                                  *)
(*                                                                         *)
(* An entry stands for a column and its value: the two arrays have the     *)
(* same offsets and travel in the same way.                                *)
(***************************************************************************)
EXTENDS RowBlocks, SequencesExt

CONSTANTS
  Ranks,       \* MPI ranks, numbered from 0
  MaxRounds,   \* bound: products every rank computes
  NoRows,      \* what a rank that does not multiply looks up
  NoEntry,     \* an entry nothing complete was written to
  Inputs       \* the matrices, as records of
               \*   bRows    rows of B
               \*   nnz      [row of B -> entries in it]
               \*   columns  [rank -> columns of the entries of its rows of A]

ASSUME RanksAssumption == Ranks \in Nat \ {0}

VARIABLES
  input,     \* the matrices of this run
  bRowBlocks,   \* [rank -> its block of rows of B]
  localMatrixB, \* [rank -> the CSR of that block]
  pc,        \* [rank -> where main stands]
  round,     \* [rank -> rounds it has started]
  entered,   \* [rank -> barriers it has entered]
  plan,      \* [rank -> RemoteRowPlan]
  rowPtr,    \* [rank -> remoteRows.rowPtr]
  halo       \* [rank -> remoteRows.columnIndices and values]

Rank == 0 .. Ranks - 1

\* Nothing changes the matrices once they are distributed.
matrices == <<input, bRowBlocks, localMatrixB>>

-----------------------------------------------------------------------------
(* The blocks of B                                                         *)

\* rowPtr of a CSR with these row lengths.
Prefix(lengths) ==
  LET sum[k \in 0 .. Len(lengths)] == IF k = 0 THEN 0 ELSE sum[k - 1] + lengths[k]
  IN sum

RowOfB(m, row) == [i \in 1 .. m.nnz[row] |-> <<row, i>>]

BlockOfB(m, block) ==
  LET rows == [k \in 1 .. block.rows |-> RowOfB(m, block.firstRow + k - 1)]
  IN [rowPtr  |-> Prefix([k \in 1 .. block.rows |-> Len(rows[k])]),
      entries |-> FlattenSeq(rows)]

\* A row of the own block by its local number.
localSparseRow(r, k) ==
  SubSeq(localMatrixB[r].entries,
         localMatrixB[r].rowPtr[k] + 1, localMatrixB[r].rowPtr[k + 1])

IsLocal(r, row) == row \in RowsOf(bRowBlocks[r])

-----------------------------------------------------------------------------
(* The remote row plan                                                     *)

PerRank(Op(_)) == [k \in 1 .. Ranks |-> Op(k - 1)]

\* Sorted and without repetitions, whatever the order in A.
remoteRowsOf(r, owner) ==
  LET columns == {c \in ToSet(input.columns[r]) :
                    owner # r /\ ownerOfRow(c, bRowBlocks) = owner}
  IN SetToSortSeq(columns, <)

buildRemoteRowPlan(r) ==
  LET rowsByPeer == [owner \in Rank |-> remoteRowsOf(r, owner)]
      flatRows   == FlattenSeq(PerRank(LAMBDA owner : rowsByPeer[owner]))
  IN [rowsByPeer  |-> rowsByPeer,
      peerOffsets |-> Prefix(PerRank(LAMBDA owner : Len(rowsByPeer[owner]))),
      flatRows    |-> flatRows,
      rowToSlot   |-> [row \in ToSet(flatRows) |->
                        (CHOOSE s \in DOMAIN flatRows : flatRows[s] = row) - 1]]

\* Lengths of remote rows, peer by peer, in slot order.
slotLengths(lengths) == FlattenSeq(PerRank(LAMBDA peer : lengths[peer]))

Unwritten(n) == [i \in 1 .. n |-> NoEntry]

\* The part of the halo from offset on becomes new.
Overwrite(old, offset, new) ==
  [i \in DOMAIN old |->
    IF i - offset \in DOMAIN new THEN new[i - offset] ELSE old[i]]

-----------------------------------------------------------------------------
(* The product                                                             *)

remoteSparseRow(r, slot, entries) ==
  SubSeq(entries, rowPtr[r][slot] + 1, rowPtr[r][slot + 1])

\* What the product finds under a column of A; entries is the halo it sees.
bRowForColumn(r, column, entries) ==
  IF IsLocal(r, column)
  THEN localSparseRow(r, column - bRowBlocks[r].firstRow)
  ELSE remoteSparseRow(r, plan[r].rowToSlot[column], entries)

LookedUp(r, entries) ==
  [column \in ToSet(input.columns[r]) |-> bRowForColumn(r, column, entries)]

-----------------------------------------------------------------------------
(* The rounds                                                              *)

NoPlan == [rowsByPeer |-> <<>>, peerOffsets |-> <<>>,
           flatRows |-> <<>>, rowToSlot |-> <<>>]

HaloInit ==
  /\ input \in Inputs
  /\ bRowBlocks = partitionRows(input.bRows, Ranks)
  /\ localMatrixB = [r \in Rank |-> BlockOfB(input, bRowBlocks[r])]
  /\ pc = [r \in Rank |-> "setup"]
  /\ round = [r \in Rank |-> 0]
  /\ entered = [r \in Rank |-> 0]
  /\ plan = [r \in Rank |-> NoPlan]
  /\ rowPtr = [r \in Rank |-> <<>>]
  /\ halo = [r \in Rank |-> <<>>]

Goto(r, from, to) ==
  /\ pc[r] = from
  /\ pc' = [pc EXCEPT ![r] = to]

\* MPI_Barrier: a rank leaves the barrier it entered last once every rank has
\* entered as many.
EnterBarrier(r) == entered' = [entered EXCEPT ![r] = @ + 1]

AllEntered(r) == \A q \in Rank : entered[q] >= entered[r]

\* A round begins behind a barrier with the exchange of the rows.
StartsRound(r, to) ==
  /\ Goto(r, "start", to)
  /\ AllEntered(r)
  /\ round[r] < MaxRounds
  /\ round' = [round EXCEPT ![r] = @ + 1]

\* A round ends with the product; the next barrier is that of the next round
\* or, after the last, the one before the result is gathered.
ProductEnds(r) ==
  /\ Goto(r, "multiply", "start")
  /\ EnterBarrier(r)
  /\ UNCHANGED <<matrices, round, plan, rowPtr, halo>>

Closes(r) ==
  /\ Goto(r, "start", "done")
  /\ AllEntered(r)
  /\ round[r] = MaxRounds
  /\ UNCHANGED <<matrices, round, entered, plan, rowPtr, halo>>

AllDone == \A r \in Rank : pc[r] = "done"

StatusOf(r) ==
  CASE pc[r] \in {"exchange", "settle"} -> "exchange"
    [] pc[r] \in {"multiply", "done"}   -> pc[r]
    [] OTHER                            -> "waiting"

=============================================================================
