------------------------------ MODULE HaloGet -------------------------------
(***************************************************************************)
(* The GET baseline: a rank reads the bounds of the rows it lacks from     *)
(* their owners' row pointers once, and the rows themselves in every       *)
(* round.                                                                  *)
(***************************************************************************)
EXTENDS RowHalo

VARIABLE
  rowBounds   \* [rank -> [slot -> first and last entry at the owner]]

vars == <<matrices, pc, round, entered, plan, rowPtr, halo, rowBounds>>

Init ==
  /\ HaloInit
  /\ rowBounds = [r \in Rank |-> <<>>]

Slots(r) == 0 .. Len(plan[r].flatRows) - 1

\* The peer a slot belongs to, as the loops over the peers visit it.
peerOf(r, slot) ==
  CHOOSE peer \in Rank : /\ plan[r].peerOffsets[peer] <= slot
                         /\ slot < plan[r].peerOffsets[peer + 1]

-----------------------------------------------------------------------------

\* MPI_Win_create is collective; the barrier after it makes sure that every
\* window can be read.
CreateWindows(r) ==
  /\ Goto(r, "setup", "windows")
  /\ plan' = [plan EXCEPT ![r] = buildRemoteRowPlan(r)]
  /\ EnterBarrier(r)
  /\ UNCHANGED <<matrices, round, rowPtr, halo, rowBounds>>

\* What a GET of two row pointers at the owner returns.
boundsAt(peer, localRow) ==
  [first |-> localMatrixB[peer].rowPtr[localRow],
   last  |-> localMatrixB[peer].rowPtr[localRow + 1]]

\* All the GETs of bounds, the flush, and the halo's offsets.
prepareRemoteSparseRows(r) ==
  /\ Goto(r, "windows", "start")
  /\ AllEntered(r)
  /\ rowBounds' = [rowBounds EXCEPT ![r] =
       [slot \in Slots(r) |->
         LET peer == peerOf(r, slot)
         IN boundsAt(peer, plan[r].flatRows[slot + 1] - bRowBlocks[peer].firstRow)]]
  /\ \A slot \in Slots(r) :
       0 <= rowBounds'[r][slot].first /\ rowBounds'[r][slot].first <= rowBounds'[r][slot].last
  /\ rowPtr' = [rowPtr EXCEPT ![r] =
       Prefix([k \in 1 .. Len(plan[r].flatRows) |->
                rowBounds'[r][k - 1].last - rowBounds'[r][k - 1].first])]
  /\ halo' = [halo EXCEPT ![r] = Unwritten(rowPtr'[r][Len(plan[r].flatRows)])]
  /\ EnterBarrier(r)
  /\ UNCHANGED <<matrices, round, plan>>

-----------------------------------------------------------------------------
(* fetchRemoteSparseRows, once per round                                   *)

\* Until the flush MPI may write any part of the halo.
StartFetch(r) ==
  /\ StartsRound(r, "exchange")
  /\ halo' = [halo EXCEPT ![r] = Unwritten(Len(halo[r]))]
  /\ UNCHANGED <<matrices, entered, plan, rowPtr, rowBounds>>

\* An empty row is not read at all.
fetched(r, slot) ==
  LET count == rowPtr[r][slot + 1] - rowPtr[r][slot]
      from  == rowBounds[r][slot].first
  IN SubSeq(localMatrixB[peerOf(r, slot)].entries, from + 1, from + count)

FlushFetch(r) ==
  /\ Goto(r, "exchange", "multiply")
  /\ halo' = [halo EXCEPT ![r] =
       FoldLeft(LAMBDA cells, k :
                  Overwrite(cells, rowPtr[r][k - 1], fetched(r, k - 1)),
                @, [k \in 1 .. Len(plan[r].flatRows) |-> k])]
  /\ UNCHANGED <<matrices, round, entered, plan, rowPtr, rowBounds>>

Multiply(r) == ProductEnds(r) /\ UNCHANGED rowBounds

Close(r) == Closes(r) /\ UNCHANGED rowBounds

-----------------------------------------------------------------------------

RankNext(r) ==
  \/ CreateWindows(r)
  \/ prepareRemoteSparseRows(r)
  \/ StartFetch(r)
  \/ FlushFetch(r)
  \/ Multiply(r)
  \/ Close(r)

Stopped == AllDone /\ UNCHANGED vars

Progress == \E r \in Rank : RankNext(r)

Next == Progress \/ Stopped

Spec == Init /\ [][Next]_vars /\ WF_vars(Progress)

-----------------------------------------------------------------------------

\* The product finds, under every column of its block of A, the row of B that
\* the column names as its owner holds it, in every round: the offsets read
\* once from the owners and the slots of the reader fit, and nobody else's
\* progress disturbs a fetched halo.
Promised ==
  INSTANCE RowExchange WITH
    status <- [r \in Rank |-> StatusOf(r)],
    rows   <- [r \in Rank |-> IF pc[r] = "multiply" THEN LookedUp(r, halo[r])
                              ELSE NoRows]

ImplementsRows == Promised!Spec

=============================================================================
