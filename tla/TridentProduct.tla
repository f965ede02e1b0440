--------------------------- MODULE TridentProduct ---------------------------
(***************************************************************************)
(* The data path of a Trident program: rank 0 cuts A and B into the tiles  *)
(* of the grid, every rank plans its stages from the shapes of all tiles,  *)
(* multiplies tile by panel stage after stage, and rank 0 puts the tiles   *)
(* of the result together and checks its counts.                           *)
(*                                                                         *)
(* Every step is taken by all ranks at once: between two steps lies a      *)
(* barrier or the exchange of tiles, which hands over what TileExchange    *)
(* promises, the tile of Source(r, s, op).  The messages that carry a tile *)
(* to or from rank 0 are those of CsrMessages.                             *)
(***************************************************************************)
EXTENDS ExecutionPlan, Csr

CONSTANTS
  Products,      \* the pairs of matrices to multiply, as records of a and b
  MaxDimension   \* bound: the largest value an int holds

VARIABLES
  a, b,             \* the matrices rank 0 loaded
  pc,               \* where the ranks stand
  localA, localB,   \* [Rank -> its tile]
  stages,           \* [Rank -> [Round -> Stage]]
  stage,            \* the stage of the plan the ranks are at
  accumulator,      \* [Rank -> the products added to each of its rows]
  localC,           \* [Rank -> its tile of the result]
  collected,        \* [row -> entries rank 0 has collected], by position
  result            \* what rank 0 makes of them

vars == <<a, b, pc, localA, localB, stages, stage, accumulator, localC,
          collected, result>>

RankList ==
  [n \in 1 .. Side * Side * NodeSize |->
    CHOOSE r \in Rank : RankNumber(r) = n - 1]

OnAllRanks(Op(_)) == [n \in DOMAIN RankList |-> Op(RankList[n])]

Init ==
  /\ \E p \in Products : a = p.a /\ b = p.b
  /\ pc = "distribute"
  /\ localA = [r \in Rank |-> NoMatrix]
  /\ localB = [r \in Rank |-> NoMatrix]
  /\ stages = [r \in Rank |-> <<>>]
  /\ stage = 0
  /\ accumulator = [r \in Rank |-> <<>>]
  /\ localC = [r \in Rank |-> NoMatrix]
  /\ collected = <<>>
  /\ result = NoMatrix

-----------------------------------------------------------------------------
(* matrixBlock, sliceBlock, distributeBlocks                               *)

\* A tile of the grid of nodes, then a slice of its rows.
matrixBlock(rows, cols, r) ==
  LET coarse == partitionRows(rows, Side)[r.row]
      local  == partitionRows(coarse.rows, NodeSize)[r.nodeRank]
  IN [rows |-> [firstRow |-> coarse.firstRow + local.firstRow, rows |-> local.rows],
      cols |-> partitionRows(cols, Side)[r.col]]

\* The entries of a row inside the columns, in their order.
cutRow(row, cols) ==
  FlattenSeq([p \in DOMAIN row |->
               IF row[p].column \in RowsOf(cols) THEN <<row[p]>> ELSE <<>>])

\* The same entries, their columns counted from elsewhere.
renumbered(row, offset) ==
  [i \in DOMAIN row |-> [row[i] EXCEPT !.column = @ + offset]]

sliceBlock(m, block) ==
  CsrMatrix([k \in 1 .. block.rows.rows |->
              renumbered(cutRow(Row(m, block.rows.firstRow + k - 1), block.cols),
                         -block.cols.firstRow)],
            block.cols.rows)

Distribute ==
  /\ pc = "distribute"
  /\ pc' = "plan"
  /\ localA' = [r \in Rank |-> sliceBlock(a, matrixBlock(a.rows, a.cols, r))]
  /\ localB' = [r \in Rank |-> sliceBlock(b, matrixBlock(b.rows, b.cols, r))]
  /\ UNCHANGED <<a, b, stages, stage, accumulator, localC, collected, result>>

-----------------------------------------------------------------------------
(* preparePlan, from the shapes MPI_Allgather brings                       *)

\* The slices of B a panel is made of, in the order of the node's ranks.
PanelSources(r, s) ==
  [k \in 1 .. NodeSize |-> rankAt(inner(r, s), r.col, k - 1)]

stageOf(r, s) ==
  LET sources   == PanelSources(r, s)
      rowCounts == [k \in DOMAIN sources |-> localB[sources[k]].rows]
      nnzCounts == [k \in DOMAIN sources |-> Nnz(localB[sources[k]])]
  IN [rowCounts  |-> rowCounts,
      rowOffsets |-> Front(Offsets(rowCounts)),
      nnzOffsets |-> Front(Offsets(nnzCounts)),
      panel      |-> [rows |-> Last(Offsets(rowCounts)),
                      nnz  |-> Last(Offsets(nnzCounts)),
                      cols |-> localB[r].cols]]

\* What preparePlan accepts; the rows of a panel are an int.
plannable(r, s) ==
  LET panel == stageOf(r, s).panel IN
  /\ \A k \in 1 .. NodeSize : localB[PanelSources(r, s)[k]].cols = panel.cols
  /\ panel.rows <= MaxDimension
  /\ localA[aSource(r, s)].rows = localA[r].rows
  /\ localA[aSource(r, s)].cols = panel.rows

PreparePlan ==
  /\ pc = "plan"
  /\ IF \A r \in Rank, s \in Round : plannable(r, s)
     THEN /\ pc' = "multiply"
          /\ stages' = [r \in Rank |-> [s \in Round |-> stageOf(r, s)]]
          /\ accumulator' = [r \in Rank |-> [k \in 1 .. localA[r].rows |-> <<>>]]
     ELSE /\ pc' = "failed"
          /\ UNCHANGED <<stages, accumulator>>
  /\ stage' = 0
  /\ UNCHANGED <<a, b, localA, localB, localC, collected, result>>

-----------------------------------------------------------------------------
(* multiply: assemble the panel, add the product                           *)

\* Slip: the slices' row pointers stay local.
assembleLocal(st, slices) ==
  [rows    |-> st.panel.rows,
   cols    |-> st.panel.cols,
   rowPtr  |-> FlattenSeq([k \in DOMAIN slices |->
                 SubSeq(slices[k].rowPtr, 1, st.rowCounts[k])])
               \o <<st.panel.nnz>>,
   columns |-> FlattenSeq([k \in DOMAIN slices |-> slices[k].columns]),
   values  |-> FlattenSeq([k \in DOMAIN slices |-> slices[k].values])]

\* The offsets are sums of the slices' sizes, so the slices follow each other;
\* their row pointers are rebased when all have arrived.
assemble(st, slices) ==
  [rows    |-> st.panel.rows,
   cols    |-> st.panel.cols,
   rowPtr  |-> FlattenSeq([k \in DOMAIN slices |->
                 [i \in 1 .. st.rowCounts[k] |->
                   slices[k].rowPtr[i] + st.nnzOffsets[k]]])
               \o <<st.panel.nnz>>,
   columns |-> FlattenSeq([k \in DOMAIN slices |-> slices[k].columns]),
   values  |-> FlattenSeq([k \in DOMAIN slices |-> slices[k].values])]

\* A rank of the node has fetched the slice of its own node rank.
panelOf(r) ==
  assemble(stages[r][stage],
           [k \in 1 .. NodeSize |->
             localB[bSource(rankAt(r.row, r.col, k - 1), stage)]])

addProduct(rows, tile, panel) ==
  [k \in DOMAIN rows |->
    rows[k] \o scalarProducts(Row(tile, k - 1), LAMBDA row : Row(panel, row))]

MultiplyStage ==
  /\ pc = "multiply"
  /\ stage < Side
  /\ stage' = stage + 1
  /\ accumulator' = [r \in Rank |->
       addProduct(accumulator[r], localA[aSource(r, stage)], panelOf(r))]
  /\ UNCHANGED <<a, b, pc, localA, localB, stages, localC, collected, result>>

Finish ==
  /\ pc = "multiply"
  /\ stage = Side
  /\ pc' = "gather"
  /\ localC' = [r \in Rank |->
       CsrMatrix([k \in DOMAIN accumulator[r] |->
                   finishedRow(accumulated(accumulator[r][k]))],
                 localB[r].cols)]
  /\ collected' = [row \in 1 .. a.rows |-> <<>>]
  /\ stage' = 0
  /\ UNCHANGED <<a, b, localA, localB, stages, accumulator, result>>

-----------------------------------------------------------------------------
(* gatherBlocks: one tile after the other, in the order of the grid        *)

withBlock(rows, m, block) ==
  [row \in DOMAIN rows |->
    LET k == row - 1 - block.rows.firstRow
    IN IF k \in 0 .. m.rows - 1
       THEN rows[row] \o renumbered(Row(m, k), block.cols.firstRow)
       ELSE rows[row]]

CollectTile ==
  /\ pc = "gather"
  /\ stage < Len(RankList)
  /\ LET source == RankList[stage + 1]
         block  == matrixBlock(a.rows, b.cols, source)
     IN IF localC[source].rows # block.rows.rows \/ localC[source].cols # block.cols.rows
        THEN /\ pc' = "failed"
             /\ UNCHANGED <<stage, collected>>
        ELSE /\ stage' = stage + 1
             /\ collected' = withBlock(collected, localC[source], block)
             /\ UNCHANGED pc
  /\ UNCHANGED <<a, b, localA, localB, stages, accumulator, localC, result>>

\* The order std::sort brings pairs of column and value into.
inOrder(e, f) == e.column < f.column \/ (e.column = f.column /\ e.value <= f.value)

\* Where it puts an entry; equal ones cannot be told apart.
placeOf(row, p) ==
  Cardinality({q \in DOMAIN row : /\ inOrder(row[q], row[p])
                                  /\ row[q] = row[p] => q <= p})

sortedRow(row) ==
  [i \in DOMAIN row |-> row[CHOOSE p \in DOMAIN row : placeOf(row, p) = i]]

SortRows ==
  /\ pc = "gather"
  /\ stage = Len(RankList)
  /\ pc' = "metrics"
  /\ result' = CsrMatrix([row \in DOMAIN collected |-> sortedRow(collected[row])],
                         b.cols)
  /\ UNCHANGED <<a, b, localA, localB, stages, stage, accumulator, localC, collected>>

-----------------------------------------------------------------------------
(* scalarProductsByRank and the checks of collectBenchmarkMetrics          *)

\* Slip: the column after the last one counts as well.
rowDegreeOfWide(row, cols) ==
  Cardinality({p \in DOMAIN row : /\ row[p].column >= cols.firstRow
                                  /\ row[p].column <= cols.firstRow + cols.rows})

rowDegree(row, cols) ==
  Cardinality({p \in DOMAIN row : row[p].column \in RowsOf(cols)})

scalarProductsOf(r) ==
  LET block   == matrixBlock(a.rows, b.cols, r)
      aRow(k) == Row(a, block.rows.firstRow + k - 1)
  IN SumOf([k \in 1 .. block.rows.rows |->
       SumOf([p \in DOMAIN aRow(k) |-> rowDegree(Row(b, aRow(k)[p].column), block.cols)])])

nnzOfRanks(tiles) == SumOf(OnAllRanks(LAMBDA r : Nnz(tiles[r])))

metricsAgree ==
  /\ SumOf(OnAllRanks(scalarProductsOf)) = scalarMultiplicationCount(a, b)
  /\ nnzOfRanks(localA) = Nnz(a)
  /\ nnzOfRanks(localB) = Nnz(b)
  /\ nnzOfRanks(localC) = Nnz(result)

CollectMetrics ==
  /\ pc = "metrics"
  /\ pc' = IF metricsAgree THEN "done" ELSE "failed"
  /\ UNCHANGED <<a, b, localA, localB, stages, stage, accumulator, localC,
                 collected, result>>

-----------------------------------------------------------------------------

Stopped == pc \in {"done", "failed"} /\ UNCHANGED vars

Next ==
  \/ Distribute \/ PreparePlan \/ MultiplyStage \/ Finish
  \/ CollectTile \/ SortRows \/ CollectMetrics
  \/ Stopped

Spec == Init /\ [][Next]_vars

-----------------------------------------------------------------------------

\* What rank 0 has put together is the product, and entry by entry the one a
\* serial program computes: the two cuts of the grid, the skewed order of the
\* stages, the panels made of slices and the renumbered columns fit, however
\* rows and columns divide.
GatheredIsProduct ==
  pc = "done" => /\ IsProduct(result, a, b)
                 /\ result = serialSpgemm(a, b)

\* The shapes every rank plans from fit, a panel's rows never exceed an int
\* when those of B do not, and the program's own checks of shapes and counts
\* never stop it on a matrix it accepted.
NeverFails == pc # "failed"

=============================================================================
