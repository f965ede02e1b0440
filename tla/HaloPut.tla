------------------------------ MODULE HaloPut -------------------------------
(***************************************************************************)
(* The PUT baseline: the receivers tell the owners where in their halo     *)
(* each row belongs, and the owners write them there in every round.       *)
(***************************************************************************)
EXTENDS HaloMessages

VARIABLES
  packed,     \* [rank -> [peer -> incomingPacked: the rows and slots it asked for]]
  outgoing,   \* [rank -> [peer -> OutgoingPutPlan]]
  view        \* [rank -> the halo as the rank last synchronised it]

vars == <<matrices, pc, round, entered, plan, rowPtr, halo, channel, posted,
          packed, outgoing, view>>

Init ==
  /\ HaloInit
  /\ MessagesInit
  /\ packed = [r \in Rank |-> [q \in Rank |-> <<>>]]
  /\ outgoing = [r \in Rank |-> [q \in Rank |-> <<>>]]
  /\ view = [r \in Rank |-> <<>>]

-----------------------------------------------------------------------------
(* buildPutPlan                                                            *)

BeginPlan(r) == PostCounts(r) /\ UNCHANGED <<packed, outgoing, view>>

\* A row and its slot are two integers of one payload.
packedRequests(r, q) ==
  LET rows == plan[r].rowsByPeer[q]
  IN [i \in DOMAIN rows |-> [row |-> rows[i], slot |-> plan[r].rowToSlot[rows[i]]]]

PostRows(r) ==
  /\ Goto(r, "counts", "rows")
  /\ Arrived(r)
  /\ NextPhase(r, "rows",
       [q \in Rank |-> packedRequests(r, q)], CountsOf(Received(r)))
  /\ UNCHANGED <<matrices, round, entered, plan, rowPtr, halo, packed, outgoing,
                 view>>

\* A request for a row of another rank ends the run.
PostNonZeros(r) ==
  /\ Goto(r, "rows", "nnz")
  /\ Arrived(r)
  /\ packed' = [packed EXCEPT ![r] = Received(r)]
  /\ \A q \in Rank : \A i \in DOMAIN packed'[r][q] : IsLocal(r, packed'[r][q][i].row)
  /\ NextPhase(r, "nnz",
       [q \in Rank |->
         rowNonZeros(r, [i \in DOMAIN packed'[r][q] |-> packed'[r][q][i].row])],
       outgoingCounts(r))
  /\ UNCHANGED <<matrices, round, entered, plan, rowPtr, halo, outgoing, view>>

PostTargetOffsets(r) ==
  /\ Goto(r, "nnz", "offsets")
  /\ Arrived(r)
  /\ rowPtr' = [rowPtr EXCEPT ![r] = Prefix(slotLengths(Received(r)))]
  /\ halo' = [halo EXCEPT ![r] = Unwritten(rowPtr'[r][Len(plan[r].flatRows)])]
  /\ NextPhase(r, "offsets",
       [q \in Rank |-> [i \in DOMAIN plan[r].rowsByPeer[q] |->
                         rowPtr'[r][plan[r].rowToSlot[plan[r].rowsByPeer[q][i]]]]],
       [q \in Rank |-> Len(packed[r][q])])
  /\ UNCHANGED <<matrices, round, entered, plan, packed, outgoing, view>>

\* The rows each peer asked for and their places, then the windows; the
\* barrier is the one after MPI_Win_create.
FinishPlan(r) ==
  /\ Goto(r, "offsets", "start")
  /\ Arrived(r)
  /\ outgoing' = [outgoing EXCEPT ![r] =
       [q \in Rank |-> [i \in DOMAIN packed[r][q] |->
         [row |-> packed[r][q][i].row, targetOffset |-> Received(r)[q][i]]]]]
  /\ view' = [view EXCEPT ![r] = halo[r]]
  /\ EnterBarrier(r)
  /\ EndPhase(r)
  /\ UNCHANGED <<matrices, round, plan, rowPtr, halo, packed>>

-----------------------------------------------------------------------------
(* pushSparseRows and what follows it in main, once per round              *)

\* The halo of peer after r wrote its rows there, each entry through Value.
pushedInto(r, peer, Value(_)) ==
  FoldLeft(LAMBDA cells, put :
             LET row == localSparseRow(r, localRow(r, put.row))
             IN Overwrite(cells, put.targetOffset,
                          [i \in DOMAIN row |-> Value(row[i])]),
           halo[peer], outgoing[r][peer])

\* Until the flush MPI may write any part of what is put.
StartPush(r) ==
  /\ StartsRound(r, "exchange")
  /\ halo' = [peer \in Rank |-> pushedInto(r, peer, LAMBDA entry : NoEntry)]
  /\ UNCHANGED <<matrices, entered, plan, rowPtr, channel, posted, packed,
                 outgoing, view>>

FlushPush(r) ==
  /\ Goto(r, "exchange", "settle")
  /\ halo' = [peer \in Rank |-> pushedInto(r, peer, LAMBDA entry : entry)]
  /\ EnterBarrier(r)
  /\ UNCHANGED <<matrices, round, plan, rowPtr, channel, posted, packed,
                 outgoing, view>>

\* Slip: the rank synchronises as soon as its own puts are complete.
SyncEarly(r) ==
  /\ Goto(r, "settle", "multiply")
  /\ view' = [view EXCEPT ![r] = halo[r]]
  /\ UNCHANGED <<matrices, round, entered, plan, rowPtr, halo, channel, posted,
                 packed, outgoing>>

\* MPI_Win_sync behind the barrier.
Sync(r) ==
  /\ Goto(r, "settle", "multiply")
  /\ AllEntered(r)
  /\ view' = [view EXCEPT ![r] = halo[r]]
  /\ UNCHANGED <<matrices, round, entered, plan, rowPtr, halo, channel, posted,
                 packed, outgoing>>

Multiply(r) ==
  ProductEnds(r) /\ UNCHANGED <<channel, posted, packed, outgoing, view>>

Close(r) == Closes(r) /\ UNCHANGED <<channel, posted, packed, outgoing, view>>

-----------------------------------------------------------------------------

\* Steps that wait for messages, and the others.
Waits(r) ==
  PostRows(r) \/ PostNonZeros(r) \/ PostTargetOffsets(r) \/ FinishPlan(r)

Advances(r) ==
  \/ BeginPlan(r)
  \/ StartPush(r)
  \/ FlushPush(r)
  \/ Sync(r)
  \/ Multiply(r)
  \/ Close(r)

Stopped == AllDone /\ UNCHANGED vars

Next == (\E r \in Rank : Waits(r) \/ Advances(r)) \/ Stopped

\* A send that no receive meets may never complete.
Progress == \E r \in Rank : Advances(r) \/ (SendsMet(r) /\ Waits(r))

Spec == Init /\ [][Next]_vars /\ WF_vars(Progress)

-----------------------------------------------------------------------------

\* A load may see the window or the copy synchronised last; where they differ
\* it sees nothing the program may use.
Visible(r) ==
  [i \in DOMAIN halo[r] |-> IF halo[r][i] = view[r][i] THEN halo[r][i] ELSE NoEntry]

\* The product finds, under every column of its block of A, the row of B that
\* the column names as its owner holds it, in every round: rows land at the
\* offsets the receiver planned, before it multiplies, and no owner of the
\* next round writes under a product that still runs.
Promised ==
  INSTANCE RowExchange WITH
    status <- [r \in Rank |-> StatusOf(r)],
    rows   <- [r \in Rank |-> IF pc[r] = "multiply" THEN LookedUp(r, Visible(r))
                              ELSE NoRows]

ImplementsRows == Promised!Spec

=============================================================================
