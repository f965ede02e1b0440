---------------------------- MODULE HaloTwoSided ----------------------------
(***************************************************************************)
(* The two-sided baseline: the plan is exchanged in three phases, then     *)
(* every round sends the requested rows to those who asked for them.       *)
(***************************************************************************)
EXTENDS HaloMessages

VARIABLE
  requests   \* [rank -> [peer -> rows of B the peer asked it for]]

vars == <<matrices, pc, round, entered, plan, rowPtr, halo, channel, posted,
          requests>>

Init ==
  /\ HaloInit
  /\ MessagesInit
  /\ requests = [r \in Rank |-> [q \in Rank |-> <<>>]]

-----------------------------------------------------------------------------
(* buildTwoSidedPlan                                                       *)

BeginPlan(r) == PostCounts(r) /\ UNCHANGED requests

PostRows(r) ==
  /\ Goto(r, "counts", "rows")
  /\ Arrived(r)
  /\ NextPhase(r, "rows", plan[r].rowsByPeer, CountsOf(Received(r)))
  /\ UNCHANGED <<matrices, round, entered, plan, rowPtr, halo, requests>>

\* A request for a row of another rank ends the run.
PostNonZeros(r) ==
  /\ Goto(r, "rows", "nnz")
  /\ Arrived(r)
  /\ \A q \in Rank : \A row \in ToSet(Received(r)[q]) : IsLocal(r, row)
  /\ requests' = [requests EXCEPT ![r] = Received(r)]
  /\ NextPhase(r, "nnz",
       [q \in Rank |-> rowNonZeros(r, Received(r)[q])], outgoingCounts(r))
  /\ UNCHANGED <<matrices, round, entered, plan, rowPtr, halo>>

SizeHalo(r) ==
  /\ Goto(r, "nnz", "start")
  /\ Arrived(r)
  /\ rowPtr' = [rowPtr EXCEPT ![r] = Prefix(slotLengths(Received(r)))]
  /\ halo' = [halo EXCEPT ![r] = Unwritten(rowPtr'[r][Len(plan[r].flatRows)])]
  /\ EnterBarrier(r)
  /\ EndPhase(r)
  /\ UNCHANGED <<matrices, round, plan, requests>>

-----------------------------------------------------------------------------
(* exchangeRemoteSparseRowsTwoSided, once per round                        *)

receiveOffset(r, q) == rowPtr[r][plan[r].peerOffsets[q]]

receiveCount(r, q) == rowPtr[r][plan[r].peerOffsets[q + 1]] - receiveOffset(r, q)

packedRows(r, rows) ==
  FlattenSeq([i \in DOMAIN rows |-> localSparseRow(r, localRow(r, rows[i]))])

\* Until the exchange is complete MPI may write any part of the halo.
StartExchange(r) ==
  /\ StartsRound(r, "exchange")
  /\ halo' = [halo EXCEPT ![r] = Unwritten(Len(halo[r]))]
  /\ NextPhase(r, "cells",
       [q \in Rank |-> packedRows(r, requests[r][q])],
       [q \in Rank |-> receiveCount(r, q)])
  /\ UNCHANGED <<matrices, entered, plan, rowPtr, requests>>

FinishExchange(r) ==
  /\ Goto(r, "exchange", "multiply")
  /\ Arrived(r)
  /\ EndPhase(r)
  /\ halo' = [halo EXCEPT ![r] =
       FoldLeft(LAMBDA cells, q : Overwrite(cells, receiveOffset(r, q), Received(r)[q]),
                @, PerRank(LAMBDA q : q))]
  /\ UNCHANGED <<matrices, round, entered, plan, rowPtr, requests>>

Multiply(r) == ProductEnds(r) /\ UNCHANGED <<channel, posted, requests>>

Close(r) == Closes(r) /\ UNCHANGED <<channel, posted, requests>>

-----------------------------------------------------------------------------

\* Steps that wait for messages, and the others.
Waits(r) ==
  PostRows(r) \/ PostNonZeros(r) \/ SizeHalo(r) \/ FinishExchange(r)

Advances(r) == BeginPlan(r) \/ StartExchange(r) \/ Multiply(r) \/ Close(r)

Stopped == AllDone /\ UNCHANGED vars

Next == (\E r \in Rank : Waits(r) \/ Advances(r)) \/ Stopped

\* A send that no receive meets may never complete.
Progress == \E r \in Rank : Advances(r) \/ (SendsMet(r) /\ Waits(r))

Spec == Init /\ [][Next]_vars /\ WF_vars(Progress)

-----------------------------------------------------------------------------

\* The product finds, under every column of its block of A, the row of B that
\* the column names as its owner holds it, in every round and from the first
\* row it looks up to the last: the counts, slots, offsets and packed rows of
\* two ranks that planned separately fit.
Promised ==
  INSTANCE RowExchange WITH
    status <- [r \in Rank |-> StatusOf(r)],
    rows   <- [r \in Rank |-> IF pc[r] = "multiply" THEN LookedUp(r, halo[r])
                              ELSE NoRows]

ImplementsRows == Promised!Spec

=============================================================================
