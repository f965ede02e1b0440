----------------------------- MODULE MpiChunks -----------------------------
(***************************************************************************)
(* A payload between two ranks, in chunks that MPI can count with an int.  *)
(* Both ends run the loop of forMpiChunks on their own, over one tag.      *)
(*                                                                         *)
(* An element is its position in the payload.                              *)
(***************************************************************************)
EXTENDS Integers, Sequences

CONSTANTS
  MaxCount,   \* bound: elements of a payload
  IntMax,     \* the largest value of an int
  Unset       \* an element of the receiver nothing was received into

ASSUME CountAssumption == MaxCount \in Nat

ASSUME IntAssumption == IntMax \in Nat \ {0}

ASSUME UnsetAssumption == Unset \notin Int

VARIABLES
  count, limit,   \* what both ends agree on
  sendOffset,     \* the sender's offset
  channel,        \* chunks in flight, as the first position and the length
  recvOffset,     \* the receiver's offset
  buffer          \* [position -> the element received into it]

chunkVars == <<count, limit, sendOffset, channel, recvOffset, buffer>>

Positions == 0 .. count - 1

ChunkInit ==
  /\ count \in 0 .. MaxCount
  /\ limit \in 1 .. IntMax
  /\ sendOffset = 0
  /\ channel = <<>>
  /\ recvOffset = 0
  /\ buffer = [i \in Positions |-> Unset]

ChunkAt(offset) == IF limit < count - offset THEN limit ELSE count - offset

Send ==
  /\ sendOffset < count
  /\ channel' = Append(channel, [first |-> sendOffset, length |-> ChunkAt(sendOffset)])
  /\ sendOffset' = sendOffset + ChunkAt(sendOffset)
  /\ UNCHANGED <<count, limit, recvOffset, buffer>>

\* Slip: the offset moves by the limit, also past a chunk that is shorter.
ReceiveByLimit ==
  /\ recvOffset < count
  /\ channel # <<>>
  /\ buffer' = [i \in Positions |->
       IF i - recvOffset \in 0 .. Head(channel).length - 1
       THEN Head(channel).first + (i - recvOffset) ELSE buffer[i]]
  /\ channel' = Tail(channel)
  /\ recvOffset' = recvOffset + limit
  /\ UNCHANGED <<count, limit, sendOffset>>

\* A chunk of another length than the receiver counts is an error.
Receive ==
  /\ recvOffset < count
  /\ channel # <<>>
  /\ Head(channel).length = ChunkAt(recvOffset)
  /\ buffer' = [i \in Positions |->
       IF i - recvOffset \in 0 .. Head(channel).length - 1
       THEN Head(channel).first + (i - recvOffset) ELSE buffer[i]]
  /\ channel' = Tail(channel)
  /\ recvOffset' = recvOffset + ChunkAt(recvOffset)
  /\ UNCHANGED <<count, limit, sendOffset>>

Returned == sendOffset = count /\ recvOffset = count /\ UNCHANGED chunkVars

ChunkNext == Send \/ Receive \/ Returned

ChunkSpec == ChunkInit /\ [][ChunkNext]_chunkVars

-----------------------------------------------------------------------------

\* When the receiver's loop ends it has the payload, each element at its
\* place, and nothing is left in flight; neither offset ever passes the count
\* and no chunk is longer than an int, also for a count that is a multiple of
\* the limit, smaller than it, or zero.
PayloadWhole ==
  /\ sendOffset \in 0 .. count
  /\ recvOffset \in 0 .. sendOffset
  /\ \A k \in 1 .. Len(channel) : channel[k].length \in 1 .. IntMax
  /\ recvOffset = count => /\ channel = <<>>
                           /\ \A i \in Positions : buffer[i] = i

=============================================================================
