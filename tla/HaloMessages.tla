---------------------------- MODULE HaloMessages ----------------------------
(***************************************************************************)
(* The phases in which the ranks exchange their plans, and the two-sided   *)
(* baseline its rows: each rank posts one receive and one send for every   *)
(* peer, with one tag, and waits for all of them.                          *)
(*                                                                         *)
(* A payload of no elements is no message at all, on either side, so a     *)
(* phase works only if both sides agree on the counts.  A send completes   *)
(* when MPI has buffered it or when it is received: waiting may end as     *)
(* soon as the receives have their messages, and must end only when the    *)
(* sends are also met.                                                     *)
(***************************************************************************)
EXTENDS RowHalo

VARIABLES
  channel,   \* [<<source, destination, tag>> -> payloads in flight]
  posted     \* [rank -> the tag it waits for, and the count from each peer]

Tag == {"counts", "rows", "nnz", "offsets", "cells"}

NothingPosted == [tag |-> "counts", expect |-> [q \in Rank |-> 0]]

MessagesInit ==
  /\ channel = [link \in Rank \X Rank \X Tag |-> <<>>]
  /\ posted = [r \in Rank |-> NothingPosted]

Awaits(r, q) == posted[r].expect[q] > 0

Incoming(r, q) == channel[<<q, r, posted[r].tag>>]

\* Every receive of the phase has its message.  A message of another length
\* than the receive expects is an error, where nobody goes on.
Arrived(r) ==
  \A q \in Rank : Awaits(r, q) =>
    /\ Incoming(r, q) # <<>>
    /\ Len(Head(Incoming(r, q))) = posted[r].expect[q]

\* What the receives of the phase bring, once it has arrived.
Received(r) ==
  [q \in Rank |-> IF Awaits(r, q) THEN Head(Incoming(r, q)) ELSE <<>>]

\* The sends of the rank are met by a receive.
SendsMet(r) ==
  \A q \in Rank : \A tag \in Tag : channel[<<r, q, tag>>] # <<>> =>
    /\ posted[q].tag = tag
    /\ Awaits(q, r)
    /\ Len(channel[<<r, q, tag>>]) = 1

Taken(r) ==
  [link \in DOMAIN channel |->
    IF link[2] = r /\ link[3] = posted[r].tag /\ Awaits(r, link[1])
    THEN Tail(channel[link]) ELSE channel[link]]

\* The posted phase, which has arrived, ends and nothing more is posted.
EndPhase(r) ==
  /\ channel' = Taken(r)
  /\ posted' = [posted EXCEPT ![r] = NothingPosted]

\* The posted phase, if any, ends and the next one is posted.
NextPhase(r, tag, payload, expect) ==
  /\ LET taken == Taken(r) IN
     channel' = [link \in DOMAIN channel |->
       IF link[1] = r /\ link[2] # r /\ link[3] = tag /\ payload[link[2]] # <<>>
       THEN Append(taken[link], payload[link[2]]) ELSE taken[link]]
  /\ posted' = [posted EXCEPT ![r] =
       [tag |-> tag, expect |-> [q \in Rank |-> IF q = r THEN 0 ELSE expect[q]]]]

-----------------------------------------------------------------------------
(* What both plans are built from                                          *)

PostCounts(r) ==
  /\ Goto(r, "setup", "counts")
  /\ plan' = [plan EXCEPT ![r] = buildRemoteRowPlan(r)]
  /\ NextPhase(r, "counts",
       [q \in Rank |-> <<Len(plan'[r].rowsByPeer[q])>>],
       [q \in Rank |-> 1])
  /\ UNCHANGED <<matrices, round, entered, rowPtr, halo>>

\* The counts from the peers, where one count is a payload.
CountsOf(received) ==
  [q \in Rank |-> IF received[q] = <<>> THEN 0 ELSE received[q][1]]

localRow(r, row) == row - bRowBlocks[r].firstRow

rowNonZeros(r, rows) ==
  [i \in DOMAIN rows |-> Len(localSparseRow(r, localRow(r, rows[i])))]

outgoingCounts(r) == [q \in Rank |-> Len(plan[r].rowsByPeer[q])]

=============================================================================
