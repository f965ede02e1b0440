-------------------------- MODULE BaselineProduct ---------------------------
(***************************************************************************)
(* The data path of a row-partitioned baseline: rank 0 cuts A and B into   *)
(* blocks of rows and sends them out, every rank multiplies its block of A *)
(* by the rows of B it names, and rank 0 puts the blocks of the result     *)
(* together and checks its counts.                                         *)
(*                                                                         *)
(* The rows of other ranks are what RowExchange promises: those of their   *)
(* owners' blocks.                                                         *)
(***************************************************************************)
EXTENDS CsrMessages

CONSTANT
  Products   \* the pairs of matrices to multiply, as records of a and b

VARIABLES
  a, b,                     \* the matrices rank 0 loaded
  pc,                       \* [rank -> where main stands]
  localA, localB, localC,   \* [rank -> its block]
  nextPeer,                 \* the peer whose result rank 0 receives next
  globalC                   \* the rows of the result rank 0 has put together

vars == <<wire, a, b, pc, localA, localB, localC, nextPeer, globalC>>

Peer == Rank \ {0}

outputBlocks == partitionRows(a.rows, Ranks)

bRowBlocks == partitionRows(b.rows, Ranks)

Init ==
  /\ wire = NothingInFlight
  /\ \E p \in Products : a = p.a /\ b = p.b
  /\ pc = [r \in Rank |-> "distributeA"]
  /\ localA = [r \in Rank |-> NoMatrix]
  /\ localB = [r \in Rank |-> NoMatrix]
  /\ localC = [r \in Rank |-> NoMatrix]
  /\ nextPeer = 1
  /\ globalC = NoMatrix

Goto(r, from, to) ==
  /\ pc[r] = from
  /\ pc' = [pc EXCEPT ![r] = to]

-----------------------------------------------------------------------------
(* distributeMatrix                                                        *)

sliceRows(m, block) ==
  LET first == m.rowPtr[block.firstRow + 1]
      last  == m.rowPtr[block.firstRow + block.rows + 1]
  IN [rows    |-> block.rows,
      cols    |-> m.cols,
      rowPtr  |-> [k \in 1 .. block.rows + 1 |-> m.rowPtr[block.firstRow + k] - first],
      columns |-> SubSeq(m.columns, first + 1, last),
      values  |-> SubSeq(m.values, first + 1, last)]

Slices(m, blocks) == [r \in Rank |-> sliceRows(m, blocks[r])]

DistributeA ==
  /\ Goto(0, "distributeA", "distributeB")
  /\ wire' = Sent("out", Peer, Slices(a, outputBlocks))
  /\ localA' = [localA EXCEPT ![0] = Slices(a, outputBlocks)[0]]
  /\ UNCHANGED <<a, b, localB, localC, nextPeer, globalC>>

DistributeB ==
  /\ Goto(0, "distributeB", "multiply")
  /\ wire' = Sent("out", Peer, Slices(b, bRowBlocks))
  /\ localB' = [localB EXCEPT ![0] = Slices(b, bRowBlocks)[0]]
  /\ UNCHANGED <<a, b, localA, localC, nextPeer, globalC>>

ReceiveA(r) ==
  /\ r # 0
  /\ Goto(r, "distributeA", "distributeB")
  /\ Arrived("out", r)
  /\ localA' = [localA EXCEPT ![r] = Received("out", r)]
  /\ wire' = Taken("out", r)
  /\ UNCHANGED <<a, b, localB, localC, nextPeer, globalC>>

ReceiveB(r) ==
  /\ r # 0
  /\ Goto(r, "distributeB", "multiply")
  /\ Arrived("out", r)
  /\ localB' = [localB EXCEPT ![r] = Received("out", r)]
  /\ wire' = Taken("out", r)
  /\ UNCHANGED <<a, b, localA, localC, nextPeer, globalC>>

-----------------------------------------------------------------------------
(* spgemm, behind the barrier every rank enters with its blocks            *)

bRowOfOwner(row) ==
  LET owner == ownerOfRow(row, bRowBlocks)
  IN Row(localB[owner], row - bRowBlocks[owner].firstRow)

spgemm(r) ==
  CsrMatrix([k \in 1 .. localA[r].rows |->
              finishedRow(accumulated(
                scalarProducts(Row(localA[r], k - 1), bRowOfOwner)))],
            localB[r].cols)

Multiply(r) ==
  /\ Goto(r, "multiply", "gather")
  /\ \A q \in Rank : pc[q] \notin {"distributeA", "distributeB"}
  /\ localC' = [localC EXCEPT ![r] = spgemm(r)]
  /\ UNCHANGED <<wire, a, b, localA, localB, nextPeer, globalC>>

-----------------------------------------------------------------------------
(* gatherCsrMatrix, behind the next barrier                                *)

AllMultiplied == \A q \in Rank : pc[q] \notin {"distributeA", "distributeB", "multiply"}

SendResult(r) ==
  /\ r # 0
  /\ Goto(r, "gather", "done")
  /\ AllMultiplied
  /\ wire' = Sent("back", {r}, localC)
  /\ UNCHANGED <<a, b, localA, localB, localC, nextPeer, globalC>>

unexpectedShape(block, rows) ==
  block.rows # rows.rows \/ block.cols # b.cols

\* Slip: the appended row pointers stay those of the block.
appendUnshifted(result, block) ==
  [rows    |-> result.rows + block.rows,
   cols    |-> block.cols,
   rowPtr  |-> result.rowPtr \o Tail(block.rowPtr),
   columns |-> result.columns \o block.columns,
   values  |-> result.values \o block.values]

\* Rank 0 appends the blocks in the order of the ranks, its own first.
appendCsrBlock(result, block) ==
  [rows    |-> result.rows + block.rows,
   cols    |-> block.cols,
   rowPtr  |-> result.rowPtr \o
               [k \in 1 .. block.rows |-> Last(result.rowPtr) + block.rowPtr[k + 1]],
   columns |-> result.columns \o block.columns,
   values  |-> result.values \o block.values]

AppendOwn ==
  /\ pc[0] = "gather"
  /\ AllMultiplied
  /\ IF unexpectedShape(localC[0], outputBlocks[0])
     THEN /\ pc' = [pc EXCEPT ![0] = "failed"]
          /\ UNCHANGED globalC
     ELSE /\ pc' = [pc EXCEPT ![0] = "receive"]
          /\ globalC' = appendCsrBlock(NoMatrix, localC[0])
  /\ UNCHANGED <<wire, a, b, localA, localB, localC, nextPeer>>

AppendPeer ==
  /\ pc[0] = "receive"
  /\ nextPeer < Ranks
  /\ Arrived("back", nextPeer)
  /\ wire' = Taken("back", nextPeer)
  /\ IF unexpectedShape(Received("back", nextPeer), outputBlocks[nextPeer])
     THEN /\ pc' = [pc EXCEPT ![0] = "failed"]
          /\ UNCHANGED <<nextPeer, globalC>>
     ELSE /\ nextPeer' = nextPeer + 1
          /\ globalC' = appendCsrBlock(globalC, Received("back", nextPeer))
          /\ UNCHANGED pc
  /\ UNCHANGED <<a, b, localA, localB, localC>>

-----------------------------------------------------------------------------
(* rowPartitionWork and the checks of collectBenchmarkMetrics              *)

rowPartitionWork(block) ==
  SumOf([k \in 1 .. block.rows |->
    LET aRow == Row(a, block.firstRow + k - 1)
    IN SumOf([p \in DOMAIN aRow |-> RowLength(b, aRow[p].column)])])

nnzOfRanks(blocks) == SumOf([k \in 1 .. Ranks |-> Nnz(blocks[k - 1])])

metricsAgree ==
  /\ SumOf([k \in 1 .. Ranks |-> rowPartitionWork(outputBlocks[k - 1])])
       = scalarMultiplicationCount(a, b)
  /\ nnzOfRanks(localA) = Nnz(a)
  /\ nnzOfRanks(localB) = Nnz(b)
  /\ nnzOfRanks(localC) = Nnz(globalC)

CollectMetrics ==
  /\ pc[0] = "receive"
  /\ nextPeer = Ranks
  /\ pc' = [pc EXCEPT ![0] = IF metricsAgree THEN "done" ELSE "failed"]
  /\ UNCHANGED <<wire, a, b, localA, localB, localC, nextPeer, globalC>>

-----------------------------------------------------------------------------

Stopped == pc[0] \in {"done", "failed"} /\ UNCHANGED vars

Next ==
  \/ DistributeA \/ DistributeB
  \/ \E r \in Rank : ReceiveA(r) \/ ReceiveB(r) \/ Multiply(r) \/ SendResult(r)
  \/ AppendOwn \/ AppendPeer
  \/ CollectMetrics
  \/ Stopped

Spec == Init /\ [][Next]_vars

-----------------------------------------------------------------------------

\* What rank 0 has put together when it is done is the product, and entry by
\* entry the one a serial program computes: cutting, renumbering, sending and
\* appending lose, move and repeat nothing, also with empty blocks, repeated
\* columns and sums that cancel.
GatheredIsProduct ==
  pc[0] = "done" => /\ IsProduct(globalC, a, b)
                    /\ globalC = serialSpgemm(a, b)

\* The program's own checks of shapes and counts never stop it on a matrix it
\* accepted.
NeverFails == pc[0] # "failed"

=============================================================================
