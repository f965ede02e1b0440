----------------------------- MODULE Jobs_proof -----------------------------
(***************************************************************************)
(* What is around a product, for jobs of any size.  Before it: the rows    *)
(* are partitioned, a large payload arrives whole, a job that cannot be    *)
(* placed is refused by all of its ranks, and one that can finds every     *)
(* rank in its place; and the cache the result is validated with.  From    *)
(* the job to its result: the calls of submit (CampaignSubmission), the    *)
(* table of the programs, to which the root of a job appends               *)
(* (BenchmarkDriver), and the tables of the campaign, which its runs       *)
(* replace (CampaignRun).                                                  *)
(***************************************************************************)
EXTENDS ProcessGrid, RowPartition, MpiChunks, ReferenceCache,
        CampaignSubmission, BenchmarkDriver, CampaignRun,
        FiniteSetTheorems, SequenceTheorems, WellFoundedInduction, TLAPS

-----------------------------------------------------------------------------
(***************************************************************************)
(* RowPartition: every row has one owner.                                  *)
(*                                                                         *)
(* PartitionIInv says where the loop is: the blocks so far are those of    *)
(* partitionRows, each begins where the one before ends, and no row below  *)
(* the next one is left out.  The loop itself does the induction.          *)
(***************************************************************************)

RowBlock == [firstRow : Int, rows : Int]

base == totalRows \div ranks

remainder == totalRows % ranks

\* Where the block of a rank begins: every rank before it has base rows, and
\* the first of them one more.
FirstRow(k) == k * base + (IF k < remainder THEN k ELSE remainder)

PartitionTypeInv ==
  /\ totalRows \in Nat
  /\ ranks \in Nat \ {0}
  /\ rank \in 0 .. ranks
  /\ firstRow \in Int

LoopInv ==
  /\ firstRow = FirstRow(rank)
  /\ blocks = [k \in 0 .. rank - 1 |->
                [firstRow |-> FirstRow(k), rows |-> BlockRows(totalRows, ranks, k)]]

\* The blocks so far follow each other and end where the next one begins.
OrderInv ==
  /\ \A k \in 0 .. rank - 1 : blocks[k].firstRow + blocks[k].rows <= firstRow
  /\ \A k, l \in 0 .. rank - 1 :
       k < l => blocks[k].firstRow + blocks[k].rows <= blocks[l].firstRow

\* Every row below is in one of them.
CoverInv ==
  \A r \in 0 .. firstRow - 1 : \E k \in 0 .. rank - 1 : r \in RowsOf(blocks[k])

PartitionIInv == PartitionTypeInv /\ LoopInv /\ OrderInv /\ CoverInv

\* Division, as much of it as is needed.
LEMMA Division ==
  ASSUME PartitionTypeInv
  PROVE  /\ base \in Nat
         /\ remainder \in 0 .. ranks - 1
         /\ totalRows = base * ranks + remainder
  BY DEF PartitionTypeInv, base, remainder

\* A block ends where the next begins.
LEMMA BlocksAdjoin ==
  ASSUME PartitionTypeInv, NEW k \in 0 .. ranks - 1
  PROVE  /\ FirstRow(k) \in Nat
         /\ BlockRows(totalRows, ranks, k) \in Nat
         /\ FirstRow(k + 1) = FirstRow(k) + BlockRows(totalRows, ranks, k)
<1>1. base \in Nat /\ remainder \in Nat /\ k \in Nat
  BY Division DEF PartitionTypeInv
<1>2. k * base \in Nat /\ (k + 1) * base = k * base + base
  BY <1>1
<1>3. BlockRows(totalRows, ranks, k) = base + (IF k < remainder THEN 1 ELSE 0)
  BY DEF BlockRows, base, remainder
<1> QED
  BY <1>1, <1>2, <1>3 DEF FirstRow

LEMMA PartitionInitEstablishesIInv == PartitionInit => PartitionIInv
<1> SUFFICES ASSUME PartitionInit PROVE PartitionIInv
  OBVIOUS
<1>1. PartitionTypeInv
  BY RowsAssumption, RanksAssumption DEF PartitionInit, PartitionTypeInv
<1>2. base \in Nat /\ remainder \in Nat
  BY <1>1, Division
<1>3. firstRow = FirstRow(rank)
  BY <1>2 DEF PartitionInit, FirstRow
<1>4. 0 .. rank - 1 = {}
  BY DEF PartitionInit
<1> QED
  BY <1>1, <1>3, <1>4 DEF PartitionInit, PartitionIInv, LoopInv, OrderInv, CoverInv

LEMMA AssignKeepsIInv == PartitionIInv /\ Assign => PartitionIInv'
<1> SUFFICES ASSUME PartitionIInv, Assign PROVE PartitionIInv'
  OBVIOUS
<1> USE DEF PartitionIInv
<1> DEFINE blockRows == BlockRows(totalRows, ranks, rank)
<1>1. rank \in 0 .. ranks - 1
  BY DEF Assign, PartitionTypeInv
<1>2. /\ FirstRow(rank) \in Nat
      /\ blockRows \in Nat
      /\ FirstRow(rank + 1) = FirstRow(rank) + blockRows
  BY <1>1, BlocksAdjoin
<1>3. /\ rank' = rank + 1
      /\ firstRow' = firstRow + blockRows
      /\ UNCHANGED <<totalRows, ranks>>
      /\ blocks' = [k \in 0 .. rank |->
                      IF k = rank THEN [firstRow |-> firstRow, rows |-> blockRows]
                                  ELSE blocks[k]]
  BY DEF Assign
<1> HIDE DEF blockRows
<1>4. firstRow = FirstRow(rank) /\ firstRow \in Nat
  BY <1>2 DEF LoopInv
<1>5. /\ \A k \in 0 .. rank - 1 : blocks'[k] = blocks[k]
      /\ blocks'[rank].firstRow = firstRow
      /\ blocks'[rank].rows = blockRows
      /\ 0 .. rank' - 1 = 0 .. rank
  BY <1>1, <1>3
<1>6. \A k \in 0 .. rank - 1 : /\ blocks[k].firstRow \in Nat
                               /\ blocks[k].rows \in Nat
  <2> SUFFICES ASSUME NEW k \in 0 .. rank - 1
               PROVE  blocks[k].firstRow \in Nat /\ blocks[k].rows \in Nat
    OBVIOUS
  <2>1. k \in 0 .. ranks - 1
    BY <1>1 DEF PartitionTypeInv
  <2>2. FirstRow(k) \in Nat /\ BlockRows(totalRows, ranks, k) \in Nat
    BY <2>1, BlocksAdjoin
  <2> QED
    BY <2>2 DEF LoopInv
<1>7. PartitionTypeInv'
  BY <1>1, <1>2, <1>3 DEF PartitionTypeInv
<1>8. LoopInv'
  <2>1. firstRow' = FirstRow(rank')
    BY <1>2, <1>3, <1>4
  <2>2. \A k \in 0 .. rank : FirstRow(k)' = FirstRow(k)
    BY <1>3 DEF FirstRow, base, remainder
  <2>3. blocks' = [k \in 0 .. rank |->
                    [firstRow |-> FirstRow(k), rows |-> BlockRows(totalRows, ranks, k)]]
    BY <1>1, <1>3, <1>4 DEF LoopInv, blockRows
  <2>4. (firstRow = FirstRow(rank))'
    BY <2>1, <1>3 DEF FirstRow, base, remainder
  <2> QED
    BY <2>2, <2>3, <2>4, <1>3, <1>5 DEF LoopInv
<1>9. OrderInv'
  <2>1. ASSUME NEW k \in 0 .. rank
        PROVE  blocks'[k].firstRow + blocks'[k].rows <= firstRow'
    BY <1>1, <1>2, <1>3, <1>4, <1>5, <1>6 DEF OrderInv
  <2>2. ASSUME NEW k \in 0 .. rank, NEW l \in 0 .. rank, k < l
        PROVE  blocks'[k].firstRow + blocks'[k].rows <= blocks'[l].firstRow
    <3>1. k \in 0 .. rank - 1
      BY <2>2, <1>1
    <3>2. CASE l = rank
      BY <3>1, <3>2, <1>5 DEF OrderInv
    <3>3. CASE l \in 0 .. rank - 1
      BY <2>2, <3>1, <3>3, <1>5 DEF OrderInv
    <3> QED
      BY <3>2, <3>3, <1>1
  <2> QED
    BY <2>1, <2>2, <1>5 DEF OrderInv
<1>10. CoverInv'
  <2> SUFFICES ASSUME NEW r \in 0 .. firstRow' - 1
               PROVE  \E k \in 0 .. rank' - 1 : r \in RowsOf(blocks[k])'
    BY DEF CoverInv
  <2> SUFFICES \E k \in 0 .. rank : r \in RowsOf(blocks'[k])
    BY <1>5 DEF RowsOf
  <2>1. CASE r < firstRow
    <3>1. PICK k \in 0 .. rank - 1 : r \in RowsOf(blocks[k])
      BY <2>1, <1>4 DEF CoverInv
    <3>2. k \in 0 .. rank /\ blocks'[k] = blocks[k]
      BY <1>1, <1>5
    <3> QED
      BY <3>1, <3>2
  <2>2. CASE ~(r < firstRow)
    <3>1. r \in RowsOf(blocks'[rank])
      BY <2>2, <1>2, <1>3, <1>4, <1>5 DEF RowsOf
    <3> QED
      BY <3>1, <1>1
  <2> QED
    BY <2>1, <2>2
<1> QED
  BY <1>7, <1>8, <1>9, <1>10

LEMMA PartitionNextKeepsIInv == PartitionIInv /\ [PartitionNext]_partitionVars => PartitionIInv'
<1> SUFFICES ASSUME PartitionIInv, [PartitionNext]_partitionVars PROVE PartitionIInv'
  OBVIOUS
<1>1. CASE Assign
  BY <1>1, AssignKeepsIInv
<1>2. CASE UNCHANGED partitionVars
  BY <1>2 DEF partitionVars, PartitionIInv, PartitionTypeInv, LoopInv, OrderInv, CoverInv, FirstRow, base, remainder
<1> QED
  BY <1>1, <1>2 DEF PartitionNext, ReturnBlocks

LEMMA PartitionInvariance == PartitionSpec => []PartitionIInv
  BY PartitionInitEstablishesIInv, PartitionNextKeepsIInv, PTL DEF PartitionSpec

LEMMA IInvImpliesPartition == PartitionIInv => LoopIsPartition
  BY DEF PartitionIInv, LoopInv, LoopIsPartition, partitionRows, FirstRow, base, remainder

\* When the loop ends it has dealt out all rows.
LEMMA LastBlockEnds ==
  ASSUME PartitionIInv, rank = ranks
  PROVE  firstRow = totalRows
<1>1. base \in Nat /\ remainder \in 0 .. ranks - 1 /\ totalRows = base * ranks + remainder
  BY Division DEF PartitionIInv
<1>2. firstRow = ranks * base + remainder
  BY <1>1 DEF PartitionIInv, LoopInv, PartitionTypeInv, FirstRow
<1> QED
  BY <1>1, <1>2 DEF PartitionIInv, PartitionTypeInv

LEMMA IInvImpliesOneOwner == PartitionIInv => OneOwner
<1> SUFFICES ASSUME PartitionIInv, rank = ranks
             PROVE  /\ \A r \in 0 .. totalRows - 1 : \A k \in 0 .. ranks - 1 :
                         r \in RowsOf(blocks[k]) <=> k = ownerOfRow(r, blocks)
                    /\ \A r \in 0 .. totalRows - 1 : ownerOfRow(r, blocks) # -1
                    /\ \A k, l \in 0 .. ranks - 1 : blocks[k].rows - blocks[l].rows <= 1
  BY DEF OneOwner
<1> USE DEF PartitionIInv
<1>1. \A k \in 0 .. ranks - 1 :
        /\ blocks[k].firstRow \in Nat
        /\ blocks[k].rows \in Nat
        /\ blocks[k].rows = BlockRows(totalRows, ranks, k)
  <2> SUFFICES ASSUME NEW k \in 0 .. ranks - 1
               PROVE  /\ blocks[k].firstRow \in Nat
                      /\ blocks[k].rows \in Nat
                      /\ blocks[k].rows = BlockRows(totalRows, ranks, k)
    OBVIOUS
  <2>1. FirstRow(k) \in Nat /\ BlockRows(totalRows, ranks, k) \in Nat
    BY BlocksAdjoin
  <2> QED
    BY <2>1 DEF LoopInv
<1>2. DOMAIN blocks = 0 .. ranks - 1
  BY DEF LoopInv
<1>3. ASSUME NEW r \in 0 .. totalRows - 1
      PROVE  /\ ownerOfRow(r, blocks) # -1
             /\ \A k \in 0 .. ranks - 1 :
                  r \in RowsOf(blocks[k]) <=> k = ownerOfRow(r, blocks)
  <2> DEFINE owners == {k \in DOMAIN blocks : r \in RowsOf(blocks[k])}
  <2>1. PICK owner \in 0 .. ranks - 1 : r \in RowsOf(blocks[owner])
    BY LastBlockEnds DEF CoverInv
  <2>2. ASSUME NEW k \in 0 .. ranks - 1, r \in RowsOf(blocks[k])
        PROVE  k = owner
    <3>1. ~(k < owner)
      BY <2>1, <2>2, <1>1 DEF RowsOf, OrderInv
    <3>2. ~(owner < k)
      BY <2>1, <2>2, <1>1 DEF RowsOf, OrderInv
    <3> QED
      BY <3>1, <3>2
  <2>3. owners = {owner}
    BY <2>1, <2>2, <1>2
  <2>4. ownerOfRow(r, blocks) =
          IF owners = {} THEN -1
          ELSE CHOOSE k \in owners : \A other \in owners : k <= other
    BY DEF ownerOfRow
  <2>5. (CHOOSE k \in owners : \A other \in owners : k <= other) = owner
    <3> HIDE DEF owners
    <3> QED
      BY <2>3
  <2>6. ownerOfRow(r, blocks) = owner
    BY <2>3, <2>4, <2>5
  <2> QED
    BY <2>1, <2>2, <2>6
<1>4. ASSUME NEW k \in 0 .. ranks - 1, NEW l \in 0 .. ranks - 1
      PROVE  blocks[k].rows - blocks[l].rows <= 1
  <2>1. base \in Nat /\ remainder \in Nat
    BY Division
  <2>2. \A i \in 0 .. ranks - 1 :
          BlockRows(totalRows, ranks, i) = base + (IF i < remainder THEN 1 ELSE 0)
    BY DEF BlockRows, base, remainder
  <2> QED
    BY <2>1, <2>2, <1>1
<1> QED
  BY <1>3, <1>4

\* The loop of partitionRows returns what partitionRows is defined to be, for
\* any numbers of rows and ranks.
THEOREM LoopComputesPartition == PartitionSpec => []LoopIsPartition
  BY PartitionInvariance, IInvImpliesPartition, PTL

\* Each row has exactly one owner, the one ownerOfRow finds, also when there
\* are fewer rows than ranks or none at all.
THEOREM RowsHaveOneOwner == PartitionSpec => []OneOwner
  BY PartitionInvariance, IInvImpliesOneOwner, PTL

-----------------------------------------------------------------------------
(***************************************************************************)
(* MpiChunks: the payload arrives whole, for every count and every width   *)
(* of an int.                                                              *)
(*                                                                         *)
(* PayloadWhole is not inductive: that the receiver puts an element where  *)
(* it belongs depends on the chunks still in flight.  ChunkIInv says that  *)
(* these follow each other without a gap, from one offset to the other.    *)
(***************************************************************************)

Piece == [first : Int, length : Int]

ChunkTypeInv ==
  /\ count \in 0 .. MaxCount
  /\ limit \in 1 .. IntMax
  /\ sendOffset \in 0 .. count
  /\ recvOffset \in 0 .. sendOffset
  /\ channel \in Seq(Piece)
  /\ buffer \in [Positions -> Int \union {Unset}]

ChunksInv ==
  \A k \in 1 .. Len(channel) :
    /\ channel[k].first \in 0 .. count - 1
    /\ channel[k].length = ChunkAt(channel[k].first)
    /\ channel[k].first + channel[k].length <= sendOffset

ChainInv ==
  /\ \A k \in 1 .. Len(channel) - 1 :
       channel[k + 1].first = channel[k].first + channel[k].length
  /\ channel = <<>> => recvOffset = sendOffset
  /\ channel # <<>> =>
       /\ channel[1].first = recvOffset
       /\ channel[Len(channel)].first + channel[Len(channel)].length = sendOffset

FilledInv == \A i \in Positions : i < recvOffset => buffer[i] = i

ChunkIInv == ChunkTypeInv /\ ChunksInv /\ ChainInv /\ FilledInv

\* A chunk has at least one element, at most what an int counts, and ends
\* within the payload.
LEMMA ChunkBounds ==
  ASSUME ChunkTypeInv, NEW offset \in 0 .. count - 1
  PROVE  /\ ChunkAt(offset) \in 1 .. IntMax
         /\ offset + ChunkAt(offset) \in 1 .. count
  BY CountAssumption, IntAssumption DEF ChunkTypeInv, ChunkAt

LEMMA ChunkInitEstablishesIInv == ChunkInit => ChunkIInv
<1> SUFFICES ASSUME ChunkInit PROVE ChunkIInv
  OBVIOUS
<1>1. channel = <<>> /\ channel \in Seq(Piece) /\ Len(channel) = 0
  BY EmptySeq DEF ChunkInit
<1>2. ChunkTypeInv
  BY <1>1, CountAssumption, IntAssumption DEF ChunkInit, ChunkTypeInv, Positions
<1>3. ChunksInv /\ ChainInv /\ FilledInv
  BY <1>1 DEF ChunkInit, ChunksInv, ChainInv, FilledInv, Positions
<1> QED
  BY <1>2, <1>3 DEF ChunkIInv

LEMMA SendKeepsIInv == ChunkIInv /\ Send => ChunkIInv'
<1> SUFFICES ASSUME ChunkIInv, Send PROVE ChunkIInv'
  OBVIOUS
<1> USE DEF ChunkIInv
<1> DEFINE new == [first |-> sendOffset, length |-> ChunkAt(sendOffset)]
<1>1. /\ sendOffset \in 0 .. count - 1
      /\ ChunkAt(sendOffset) \in 1 .. IntMax
      /\ sendOffset + ChunkAt(sendOffset) \in 1 .. count
  <2>1. sendOffset \in 0 .. count - 1
    BY CountAssumption DEF Send, ChunkTypeInv
  <2> QED
    BY <2>1, ChunkBounds
<1>2. UNCHANGED <<count, limit, recvOffset, buffer>> /\ channel' = Append(channel, new)
      /\ sendOffset' = sendOffset + ChunkAt(sendOffset)
  BY DEF Send
<1>3. new \in Piece /\ new.first = sendOffset /\ new.length = ChunkAt(sendOffset)
  BY <1>1 DEF Piece
<1> HIDE DEF new
<1>4. /\ channel' \in Seq(Piece)
      /\ Len(channel') = Len(channel) + 1
      /\ Len(channel) \in Nat
      /\ \A k \in 1 .. Len(channel) : channel'[k] = channel[k]
      /\ channel'[Len(channel) + 1] = new
      /\ channel' # <<>>
  BY <1>2, <1>3, AppendProperties DEF ChunkTypeInv
<1>5. ChunkTypeInv'
  BY <1>1, <1>2, <1>4, CountAssumption, IntAssumption DEF ChunkTypeInv, Positions
<1>6. ChunksInv'
  <2> SUFFICES ASSUME NEW k \in 1 .. Len(channel) + 1
               PROVE  /\ channel'[k].first \in 0 .. count - 1
                      /\ channel'[k].length = ChunkAt(channel'[k].first)
                      /\ channel'[k].first + channel'[k].length <= sendOffset'
    BY <1>2, <1>4 DEF ChunksInv, ChunkAt
  <2>1. CASE k = Len(channel) + 1
    BY <2>1, <1>1, <1>2, <1>3, <1>4, IntAssumption, CountAssumption DEF ChunkTypeInv
  <2>2. CASE k \in 1 .. Len(channel)
    <3>1. /\ channel[k].first \in 0 .. count - 1
          /\ channel[k].length = ChunkAt(channel[k].first)
          /\ channel[k].first + channel[k].length <= sendOffset
      BY <2>2 DEF ChunksInv
    <3>2. ChunkAt(channel[k].first) \in 1 .. IntMax
      BY <3>1, ChunkBounds
    <3> QED
      BY <2>2, <3>1, <3>2, <1>1, <1>2, <1>4, IntAssumption, CountAssumption DEF ChunkTypeInv
  <2> QED
    BY <2>1, <2>2, <1>4
<1>7. ChainInv'
  <2>1. \A k \in 1 .. Len(channel') - 1 :
          channel'[k + 1].first = channel'[k].first + channel'[k].length
    <3> SUFFICES ASSUME NEW k \in 1 .. Len(channel)
                 PROVE  channel'[k + 1].first = channel'[k].first + channel'[k].length
      BY <1>4
    <3>1. CASE k = Len(channel)
      <4>1. channel # <<>>
        BY <3>1, <1>4, EmptySeq
      <4>2. channel[k].first + channel[k].length = sendOffset
        BY <3>1, <4>1 DEF ChainInv
      <4> QED
        BY <3>1, <4>2, <1>3, <1>4
    <3>2. CASE k \in 1 .. Len(channel) - 1
      BY <3>2, <1>4 DEF ChainInv
    <3> QED
      BY <3>1, <3>2, <1>4
  <2>2. channel'[1].first = recvOffset'
    <3>1. CASE channel = <<>>
      <4>1. Len(channel) = 0 /\ recvOffset = sendOffset
        BY <3>1, EmptySeq DEF ChainInv
      <4> QED
        BY <4>1, <1>2, <1>3, <1>4
    <3>2. CASE channel # <<>>
      <4>1. Len(channel) \in Nat \ {0}
        BY <3>2, EmptySeq DEF ChunkTypeInv
      <4> QED
        BY <3>2, <4>1, <1>2, <1>4 DEF ChainInv
    <3> QED
      BY <3>1, <3>2
  <2>3. channel'[Len(channel')].first + channel'[Len(channel')].length = sendOffset'
    BY <1>2, <1>3, <1>4
  <2> QED
    BY <2>1, <2>2, <2>3, <1>4 DEF ChainInv
<1>8. FilledInv'
  BY <1>2 DEF FilledInv, Positions
<1> QED
  BY <1>5, <1>6, <1>7, <1>8

LEMMA ReceiveKeepsIInv == ChunkIInv /\ Receive => ChunkIInv'
<1> SUFFICES ASSUME ChunkIInv, Receive PROVE ChunkIInv'
  OBVIOUS
<1> USE DEF ChunkIInv
<1> DEFINE length == ChunkAt(recvOffset)
<1>1. /\ channel # <<>>
      /\ Len(channel) \in Nat \ {0}
      /\ Head(channel) = channel[1]
      /\ channel[1].first = recvOffset
      /\ channel[1].length = length
  BY EmptySeq DEF Receive, ChunkTypeInv, ChainInv
<1>2. /\ recvOffset \in 0 .. count - 1
      /\ length \in 1 .. IntMax
      /\ recvOffset + length \in 1 .. count
      /\ recvOffset + length <= sendOffset
  <2>1. recvOffset \in 0 .. count - 1
    BY CountAssumption DEF Receive, ChunkTypeInv
  <2>2. recvOffset + length <= sendOffset
    BY <1>1 DEF ChunksInv
  <2> QED
    BY <2>1, <2>2, ChunkBounds
<1> HIDE DEF length
<1>3. /\ UNCHANGED <<count, limit, sendOffset>>
      /\ channel' = Tail(channel)
      /\ recvOffset' = recvOffset + length
      /\ buffer' = [i \in Positions |->
           IF i - recvOffset \in 0 .. length - 1
           THEN recvOffset + (i - recvOffset) ELSE buffer[i]]
  BY <1>1 DEF Receive, length
<1>4. /\ channel' \in Seq(Piece)
      /\ Len(channel') = Len(channel) - 1
      /\ \A k \in 1 .. Len(channel') : channel'[k] = channel[k + 1]
      /\ channel' # <<>> => Len(channel') \in Nat \ {0}
      /\ channel' = <<>> => Len(channel') = 0
  BY <1>1, <1>3, HeadTailProperties, EmptySeq DEF ChunkTypeInv
<1>5. ChunkTypeInv'
  <2>1. buffer' \in [Positions' -> Int \union {Unset}]
    BY <1>2, <1>3, CountAssumption DEF ChunkTypeInv, Positions
  <2>2. recvOffset' \in 0 .. sendOffset'
    BY <1>2, <1>3, IntAssumption, CountAssumption DEF ChunkTypeInv
  <2> QED
    BY <2>1, <2>2, <1>3, <1>4 DEF ChunkTypeInv
<1>6. ChunksInv'
  BY <1>1, <1>3, <1>4 DEF ChunksInv, ChunkAt
<1>7. ChainInv'
  <2>1. \A k \in 1 .. Len(channel') - 1 :
          channel'[k + 1].first = channel'[k].first + channel'[k].length
    BY <1>1, <1>4 DEF ChainInv
  <2>2. CASE channel' = <<>>
    <3>1. Len(channel) = 1
      BY <2>2, <1>1, <1>4
    <3>2. recvOffset' = sendOffset'
      BY <3>1, <1>1, <1>3 DEF ChainInv
    <3> QED
      BY <2>1, <2>2, <3>2 DEF ChainInv
  <2>3. CASE channel' # <<>>
    <3>1. Len(channel') \in Nat \ {0} /\ Len(channel) = Len(channel') + 1
      BY <2>3, <1>1, <1>4
    <3>2. channel'[1].first = recvOffset'
      BY <3>1, <1>1, <1>3, <1>4 DEF ChainInv
    <3>3. channel'[Len(channel')].first + channel'[Len(channel')].length = sendOffset'
      BY <3>1, <1>1, <1>3, <1>4 DEF ChainInv
    <3> QED
      BY <2>1, <2>3, <3>2, <3>3 DEF ChainInv
  <2> QED
    BY <2>2, <2>3
<1>8. FilledInv'
  <2> SUFFICES ASSUME NEW i \in Positions, i < recvOffset + length
               PROVE  buffer'[i] = i
    BY <1>3 DEF FilledInv, Positions
  <2>1. CASE i < recvOffset
    BY <2>1, <1>2, <1>3, CountAssumption, IntAssumption DEF FilledInv, Positions, ChunkTypeInv
  <2>2. CASE ~(i < recvOffset)
    BY <2>2, <1>2, <1>3, CountAssumption, IntAssumption DEF Positions, ChunkTypeInv
  <2> QED
    BY <2>1, <2>2
<1> QED
  BY <1>5, <1>6, <1>7, <1>8

LEMMA ChunkNextKeepsIInv == ChunkIInv /\ [ChunkNext]_chunkVars => ChunkIInv'
<1> SUFFICES ASSUME ChunkIInv, [ChunkNext]_chunkVars PROVE ChunkIInv'
  OBVIOUS
<1>1. CASE Send
  BY <1>1, SendKeepsIInv
<1>2. CASE Receive
  BY <1>2, ReceiveKeepsIInv
<1>3. CASE UNCHANGED chunkVars
  BY <1>3 DEF chunkVars, ChunkIInv, ChunkTypeInv, ChunksInv, ChainInv, FilledInv, Positions, ChunkAt
<1> QED
  BY <1>1, <1>2, <1>3 DEF ChunkNext, Returned

LEMMA IInvImpliesPayloadWhole == ChunkIInv => PayloadWhole
<1> SUFFICES ASSUME ChunkIInv PROVE PayloadWhole
  OBVIOUS
<1> USE DEF ChunkIInv
<1>1. \A k \in 1 .. Len(channel) : channel[k].length \in 1 .. IntMax
  <2> SUFFICES ASSUME NEW k \in 1 .. Len(channel)
               PROVE  channel[k].length \in 1 .. IntMax
    OBVIOUS
  <2>1. channel[k].first \in 0 .. count - 1
    BY DEF ChunksInv
  <2> QED
    BY <2>1, ChunkBounds DEF ChunksInv
<1>2. ASSUME recvOffset = count PROVE channel = <<>>
  <2> SUFFICES ASSUME channel # <<>> PROVE FALSE
    OBVIOUS
  <2>1. 1 \in 1 .. Len(channel)
    BY EmptySeq DEF ChunkTypeInv
  <2>2. channel[1].first = count /\ channel[1].first \in 0 .. count - 1
    BY <1>2, <2>1 DEF ChainInv, ChunksInv
  <2> QED
    BY <2>2, CountAssumption DEF ChunkTypeInv
<1>3. ASSUME recvOffset = count PROVE \A i \in Positions : buffer[i] = i
  BY <1>3, CountAssumption DEF FilledInv, Positions, ChunkTypeInv
<1> QED
  BY <1>1, <1>2, <1>3 DEF PayloadWhole, ChunkTypeInv

\* Whatever the sizes: the receiver ends with the payload, each element at
\* its place, and no chunk is longer than an int (forMpiChunks).
THEOREM Whole == ChunkSpec => []PayloadWhole
<1>1. ChunkSpec => []ChunkIInv
  BY ChunkInitEstablishesIInv, ChunkNextKeepsIInv, PTL DEF ChunkSpec
<1> QED
  BY <1>1, IInvImpliesPayloadWhole, PTL

-----------------------------------------------------------------------------
(***************************************************************************)
(* ProcessGrid: all ranks refuse a job, or every one finds its place, for  *)
(* jobs of any size on any hosts.                                          *)
(*                                                                         *)
(* The nodes are sets of ranks of one size that do not overlap (NodesInv,  *)
(* SizesInv); a rank is numbered by counting the leaders before its own    *)
(* and the ranks of its node before itself.  Counting the members of a set *)
(* below each of them numbers them from zero without a gap (Counted), so   *)
(* the pairs of numbers are the places of the grid, each of them once.     *)
(***************************************************************************)

NodesInv ==
  \A p \in Ranks :
    /\ p \in node[p] /\ node[p] \in SUBSET Ranks
    /\ \A q \in node[p] : node[q] = node[p]

SizesInv ==
  \A p, q \in Ranks : nodeSize(q) = nodeSize(p) /\ side(p) * side(p) = nodeCount(p)

\* The number of the place of a rank.
Number(p) == nodeId(p) * nodeSize(p) + nodeRank(p)

Holders(n) == {p \in Ranks : nodeId(p) * nodeSize(p) + nodeRank(p) = n}

PlacesInv ==
  /\ \A n, p \in Ranks : Holders(n) = {p} => coordinateRanks[n] = p
  /\ row = [p \in Ranks |-> nodeId(p) \div side(p)]
  /\ col = [p \in Ranks |-> nodeId(p) % side(p)]

GridIInv ==
  /\ size \in Nat
  /\ NobodyRefusesAlone
  /\ phase \in {"sizes", "leaders", "built"} => NodesInv
  /\ phase \in {"leaders", "built"} => SizesInv
  /\ phase = "built" => PlacesInv

-----------------------------------------------------------------------------
(* Counting                                                                *)

\* Of the numbers in a set one is the smallest.
LEMMA Smallest ==
  ASSUME NEW T \in SUBSET Nat, T # {}
  PROVE  \E x \in T : \A y \in T : x <= y
<1> DEFINE R == OpToRel(<, Nat)
<1>1. IsWellFoundedOn(R, Nat)
  BY NatLessThanWellFounded
<1>2. \A x, y \in Nat : x < y => <<x, y>> \in R
  BY DEF OpToRel
<1> HIDE DEF R
<1>3. PICK x \in T : \A y \in T : <<y, x>> \notin R
  BY <1>1, WFMin
<1>4. ASSUME NEW y \in T PROVE x <= y
  <2>1. x \in Nat /\ y \in Nat /\ ~ (y < x)
    BY <1>2, <1>3
  <2> QED
    BY <2>1
<1> QED
  BY <1>4

\* Every number has an integer square root.
LEMMA SquareRoot ==
  ASSUME NEW n \in Nat
  PROVE  \E s \in 0 .. n : s * s <= n /\ (s + 1) * (s + 1) > n
<1> DEFINE T == {s \in 0 .. n : (s + 1) * (s + 1) > n}
<1>1. n \in T
  <2>1. n * n >= 0
    OBVIOUS
  <2>2. (n + 1) * (n + 1) = n * n + n + n + 1
    OBVIOUS
  <2> QED
    BY <2>1, <2>2
<1>2. PICK s \in T : \A t \in T : s <= t
  <2>1. \A s \in 0 .. n : s \in Nat
    OBVIOUS
  <2>2. T \in SUBSET Nat /\ T # {}
    BY <1>1, <2>1
  <2> HIDE DEF T
  <2> QED
    BY <2>2, Smallest
<1>3. CASE s = 0
  BY <1>2, <1>3
<1>4. CASE s # 0
  <2>1. s \in 1 .. n /\ s - 1 \in 0 .. n /\ ~ (s <= s - 1)
    BY <1>4
  <2>2. ~ ((s - 1) + 1) * ((s - 1) + 1) > n
    BY <1>2, <2>1
  <2>3. (s - 1) + 1 = s
    BY <2>1
  <2>4. s * s \in Int
    BY <2>1
  <2> QED
    BY <1>2, <2>2, <2>3, <2>4
<1> QED
  BY <1>3, <1>4

Below(S, x) == {y \in S : y < x}

\* Counting what is below a member numbers a set of numbers from zero.
LEMMA Counted ==
  ASSUME NEW S \in SUBSET Nat, IsFiniteSet(S)
  PROVE  /\ Cardinality(S) \in Nat
         /\ \A x \in S : Cardinality(Below(S, x)) \in 0 .. Cardinality(S) - 1
         /\ \A x, y \in S : Cardinality(Below(S, x)) = Cardinality(Below(S, y)) => x = y
         /\ \A k \in 0 .. Cardinality(S) - 1 : \E x \in S : Cardinality(Below(S, x)) = k
<1>1. Cardinality(S) \in Nat
  BY FS_CardinalityType
<1>2. ASSUME NEW x \in S
      PROVE  IsFiniteSet(Below(S, x)) /\ Cardinality(Below(S, x)) \in 0 .. Cardinality(S) - 1
  <2>1. IsFiniteSet(S \ {x}) /\ Cardinality(S \ {x}) = Cardinality(S) - 1
    BY FS_RemoveElement
  <2>2. Below(S, x) \in SUBSET (S \ {x})
    BY DEF Below
  <2>3. IsFiniteSet(Below(S, x)) /\ Cardinality(Below(S, x)) <= Cardinality(S \ {x})
    BY <2>1, <2>2, FS_Subset
  <2>4. Cardinality(Below(S, x)) \in Nat
    BY <2>3, FS_CardinalityType
  <2> QED
    BY <1>1, <2>1, <2>3, <2>4
<1>3. ASSUME NEW x \in S, NEW y \in S, x < y
      PROVE  Cardinality(Below(S, x)) < Cardinality(Below(S, y))
  <2>1. x \notin Below(S, x)
    BY DEF Below
  <2>2. Cardinality(Below(S, x) \cup {x}) = Cardinality(Below(S, x)) + 1
    BY <1>2, <2>1, FS_AddElement
  <2>3. Below(S, x) \cup {x} \in SUBSET Below(S, y)
    <3>1. \A z \in S : z \in Nat
      OBVIOUS
    <3>2. \A z \in S : z < x => z < y
      BY <1>3, <3>1
    <3> QED
      BY <1>3, <3>2 DEF Below
  <2>4. Cardinality(Below(S, x) \cup {x}) <= Cardinality(Below(S, y))
    BY <1>2, <2>3, FS_Subset
  <2>5. Cardinality(Below(S, x)) \in Int /\ Cardinality(Below(S, y)) \in Int
    BY <1>2
  <2> QED
    BY <2>2, <2>4, <2>5
<1>4. ASSUME NEW x \in S, NEW y \in S, Cardinality(Below(S, x)) = Cardinality(Below(S, y))
      PROVE  x = y
  <2>1. ~ (x < y) /\ ~ (y < x)
    <3>1. Cardinality(Below(S, x)) \in Int
      BY <1>2
    <3> QED
      BY <1>3, <1>4, <3>1
  <2>2. x \in Nat /\ y \in Nat
    OBVIOUS
  <2> QED
    BY <2>1, <2>2
<1>5. ASSUME NEW k \in 0 .. Cardinality(S) - 1
      PROVE  \E x \in S : Cardinality(Below(S, x)) = k
  <2> DEFINE n == 0 .. Cardinality(S) - 1
  <2> DEFINE f == [x \in S |-> Cardinality(Below(S, x))]
  <2>1. f \in [S -> n] /\ \A x, y \in S : f[x] = f[y] => x = y
    BY <1>2, <1>4
  <2>2. IsFiniteSet(n) /\ Cardinality(n) = Cardinality(S)
    <3>1. /\ IsFiniteSet(0 .. Cardinality(S) - 1)
          /\ Cardinality(0 .. Cardinality(S) - 1) =
               IF 0 > Cardinality(S) - 1 THEN 0 ELSE Cardinality(S) - 1 - 0 + 1
      <4>1. 0 \in Int /\ Cardinality(S) - 1 \in Int
        BY <1>1
      <4> QED
        BY <4>1, FS_Interval, Zenon
    <3> QED
      BY <1>1, <3>1
  <2>3. k \in n
    OBVIOUS
  <2>4. \A x \in S : f[x] = Cardinality(Below(S, x))
    OBVIOUS
  <2> HIDE DEF f, n
  <2>5. f \in Injection(S, n)
    BY <2>1 DEF Injection, IsInjective
  <2>6. f \in Surjection(S, n)
    BY <2>2, <2>5, FS_Injection
  <2> QED
    BY <2>3, <2>4, <2>6 DEF Surjection
<1> QED
  BY <1>1, <1>2, <1>4, <1>5

\* Ranks that share their memory with as many ranks as the job has share it
\* with all of them.
LEMMA SharedByAll ==
  ASSUME size \in Nat, NEW p \in Ranks, NEW q \in Ranks,
         Cardinality(shared(p)) = size
  PROVE  Cardinality(shared(q)) = size
<1>1. IsFiniteSet(Ranks) /\ Cardinality(Ranks) = size
  <2>1. 0 \in Int /\ size - 1 \in Int
    OBVIOUS
  <2>2. /\ IsFiniteSet(0 .. size - 1)
        /\ Cardinality(0 .. size - 1) = IF 0 > size - 1 THEN 0 ELSE size - 1 - 0 + 1
    BY <2>1, FS_Interval, Zenon
  <2> QED
    BY <2>2 DEF Ranks
<1>2. shared(p) \in SUBSET Ranks
  BY DEF shared
<1>3. shared(p) = Ranks
  BY <1>1, <1>2, FS_Subset
<1>4. \A t \in Ranks : host[t] = host[p]
  BY <1>3 DEF shared
<1>5. shared(q) = Ranks
  BY <1>4 DEF shared
<1> QED
  BY <1>1, <1>5

LEMMA SplitNodeKeepsIInv == GridIInv /\ SplitNode => GridIInv'
<1> SUFFICES ASSUME GridIInv, SplitNode PROVE GridIInv'
  OBVIOUS
<1>1. size' = size /\ Ranks' = Ranks /\ phase' \in {"sizes", "refused"}
  BY DEF SplitNode, Ranks
<1>2. NobodyRefusesAlone'
  <2>1. CASE logicalNodeSize = 0
    BY <1>1, <2>1 DEF SplitNode, GridIInv, NobodyRefusesAlone
  <2>2. CASE logicalNodeSize # 0
    <3>1. refused' = {p \in Ranks : RefusesLogicalSize(p)}
      BY <2>2 DEF SplitNode
    <3>2. ASSUME NEW p \in Ranks, NEW q \in Ranks, RefusesLogicalSize(p)
          PROVE  RefusesLogicalSize(q)
      BY <3>2, SharedByAll DEF RefusesLogicalSize, GridIInv
    <3> QED
      BY <1>1, <3>1, <3>2 DEF GridIInv, NobodyRefusesAlone
  <2> QED
    BY <2>1, <2>2
<1>3. NodesInv'
  <2>1. CASE logicalNodeSize = 0
    BY <1>1, <2>1 DEF SplitNode, NodesInv, shared
  <2>2. CASE logicalNodeSize # 0
    <3> DEFINE block(q) == q \div logicalNodeSize
    <3>1. node' = [p \in Ranks |-> {q \in Ranks : block(q) = block(p)}]
      BY <2>2 DEF SplitNode
    <3> HIDE DEF block
    <3>2. \A p \in Ranks : node'[p] = {q \in Ranks : block(q) = block(p)}
      BY <3>1
    <3>3. ASSUME NEW p \in Ranks, NEW q \in node'[p] PROVE node'[q] = node'[p]
      <4>1. q \in Ranks /\ block(q) = block(p)
        BY <3>2
      <4> QED
        BY <3>2, <4>1
    <3>4. \A p \in Ranks : p \in node'[p] /\ node'[p] \in SUBSET Ranks
      BY <3>2
    <3> QED
      BY <1>1, <3>3, <3>4 DEF NodesInv
  <2> QED
    BY <2>1, <2>2
<1> QED
  BY <1>1, <1>2, <1>3 DEF GridIInv

\* Ranks of nodes of one size count as many nodes and the same side.
LEMMA SameGrid ==
  ASSUME NEW p \in Ranks, NEW q \in Ranks, nodeSize(p) = nodeSize(q)
  PROVE  nodeCount(p) = nodeCount(q) /\ side(p) = side(q)
<1>1. nodeCount(p) = nodeCount(q)
  BY DEF nodeCount
<1> HIDE DEF nodeCount
<1> QED
  BY <1>1 DEF side

LEMMA CompareSizesKeepsIInv == GridIInv /\ CompareSizes => GridIInv'
<1> SUFFICES ASSUME GridIInv, CompareSizes PROVE GridIInv'
  OBVIOUS
<1>1. /\ size' = size /\ node' = node /\ Ranks' = Ranks
      /\ phase = "sizes" /\ phase' = IF refused' = {} THEN "leaders" ELSE "refused"
  BY DEF CompareSizes, Ranks
<1>2. refused' = {p \in Ranks : \/ \E q, t \in Ranks : nodeSize(q) # nodeSize(t)
                                \/ side(p) * side(p) # nodeCount(p)}
  BY DEF CompareSizes
<1>3. refused' \in {{}, Ranks}
  <2>1. CASE \E q, t \in Ranks : nodeSize(q) # nodeSize(t)
    BY <1>2, <2>1
  <2>2. CASE \A q, t \in Ranks : nodeSize(q) = nodeSize(t)
    <3>1. ASSUME NEW p \in Ranks, NEW q \in Ranks
          PROVE  (side(p) * side(p) # nodeCount(p)) <=> (side(q) * side(q) # nodeCount(q))
      BY <2>2, <3>1, SameGrid
    <3> QED
      BY <1>2, <2>2, <3>1
  <2> QED
    BY <2>1, <2>2
<1>4. NobodyRefusesAlone'
  BY <1>1, <1>3 DEF NobodyRefusesAlone
<1>5. NodesInv'
  BY <1>1 DEF GridIInv, NodesInv
<1>6. CASE refused' = {}
  <2>1. \A p, q \in Ranks : nodeSize(q) = nodeSize(p) /\ side(p) * side(p) = nodeCount(p)
    BY <1>2, <1>6
  <2>2. \A p \in Ranks : /\ nodeSize(p)' = nodeSize(p) /\ nodeCount(p)' = nodeCount(p)
                         /\ side(p)' = side(p)
    BY <1>1 DEF nodeSize, nodeCount, side
  <2>3. SizesInv'
    BY <1>1, <2>1, <2>2 DEF SizesInv
  <2> QED
    BY <1>1, <1>4, <1>5, <1>6, <2>3 DEF GridIInv
<1>7. CASE refused' # {}
  BY <1>1, <1>4, <1>5, <1>7 DEF GridIInv
<1> QED
  BY <1>6, <1>7

LEMMA PlaceKeepsIInv == GridIInv /\ Place => GridIInv'
<1> SUFFICES ASSUME GridIInv, Place PROVE GridIInv'
  OBVIOUS
<1>1. /\ UNCHANGED <<size, refused, node>> /\ Ranks' = Ranks
      /\ phase = "leaders" /\ phase' = "built"
  BY DEF Place, Ranks
<1>2. NodesInv' /\ NobodyRefusesAlone'
  BY <1>1 DEF GridIInv, NodesInv, NobodyRefusesAlone
<1>3. \A p : /\ nodeSize(p)' = nodeSize(p) /\ nodeCount(p)' = nodeCount(p)
             /\ side(p)' = side(p) /\ nodeRank(p)' = nodeRank(p) /\ leader(p)' = leader(p)
  BY <1>1 DEF nodeSize, nodeCount, side, nodeRank, leader
<1>4. \A p : nodeId(p)' = nodeId(p)
  BY <1>1, <1>3 DEF nodeId
<1>5. SizesInv'
  BY <1>1, <1>3 DEF GridIInv, SizesInv
<1>6. \A n : Holders(n)' = Holders(n)
  BY <1>1, <1>3, <1>4 DEF Holders
<1>7. PlacesInv'
  <2>1. coordinateRanks' =
          [n \in Ranks |->
            IF Holders(n) = {} THEN 0
                               ELSE CHOOSE p \in Holders(n) : \A q \in Holders(n) : q <= p]
    BY DEF Place, Holders
  <2>2. ASSUME NEW n \in Ranks, NEW p \in Ranks, Holders(n) = {p}
        PROVE  coordinateRanks'[n] = p
    <3>1. coordinateRanks'[n] = CHOOSE x \in {p} : \A q \in {p} : q <= x
      BY <2>1, <2>2
    <3>2. p <= p
      BY DEF Ranks, GridIInv
    <3> QED
      BY <3>1, <3>2
  <2>3. /\ row' = [p \in Ranks |-> nodeId(p) \div side(p)]
        /\ col' = [p \in Ranks |-> nodeId(p) % side(p)]
    BY DEF Place
  <2>4. /\ row' = [p \in Ranks |-> nodeId(p)' \div side(p)']
        /\ col' = [p \in Ranks |-> nodeId(p)' % side(p)']
    BY <1>3, <1>4, <2>3
  <2> QED
    BY <1>1, <1>6, <2>2, <2>4 DEF PlacesInv
<1> QED
  BY <1>1, <1>2, <1>5, <1>7 DEF GridIInv

LEMMA GridNextKeepsIInv == GridIInv /\ [GridNext]_gridVars => GridIInv'
<1> SUFFICES ASSUME GridIInv, [GridNext]_gridVars PROVE GridIInv'
  OBVIOUS
<1>1. CASE SplitNode
  BY <1>1, SplitNodeKeepsIInv
<1>2. CASE CompareSizes
  BY <1>2, CompareSizesKeepsIInv
<1>3. CASE Place
  BY <1>3, PlaceKeepsIInv
<1>4. CASE UNCHANGED gridVars
  <2>1. UNCHANGED <<size, phase, refused, node, coordinateRanks, row, col>> /\ Ranks' = Ranks
    BY <1>4 DEF gridVars, Ranks
  <2>2. \A p : /\ nodeSize(p)' = nodeSize(p) /\ nodeCount(p)' = nodeCount(p)
               /\ side(p)' = side(p) /\ nodeRank(p)' = nodeRank(p) /\ leader(p)' = leader(p)
    BY <2>1 DEF nodeSize, nodeCount, side, nodeRank, leader
  <2>3. \A p : nodeId(p)' = nodeId(p)
    BY <2>1, <2>2 DEF nodeId
  <2>4. \A n : Holders(n)' = Holders(n)
    BY <2>1, <2>2, <2>3 DEF Holders
  <2>5. NodesInv' <=> NodesInv
    BY <2>1 DEF NodesInv
  <2>6. SizesInv' <=> SizesInv
    BY <2>1, <2>2 DEF SizesInv
  <2>7. PlacesInv' <=> PlacesInv
    BY <2>1, <2>2, <2>3, <2>4 DEF PlacesInv
  <2> QED
    BY <2>1, <2>5, <2>6, <2>7 DEF GridIInv, NobodyRefusesAlone
<1> QED
  BY <1>1, <1>2, <1>3, <1>4 DEF GridNext, Stopped

LEMMA GridInvariance == GridSpec => []GridIInv
<1>1. GridInit => GridIInv
  BY RankCountsAssumption DEF GridInit, GridIInv, NobodyRefusesAlone
<1> QED
  BY <1>1, GridNextKeepsIInv, PTL DEF GridSpec

\* No rank throws out of the constructor of ProcessGrid while others go on to
\* its next collective.
THEOREM RefusedByAll == GridSpec => []NobodyRefusesAlone
<1>1. GridIInv => NobodyRefusesAlone
  BY DEF GridIInv
<1> QED
  BY <1>1, GridInvariance, PTL

-----------------------------------------------------------------------------
(* Places                                                                  *)

Leaders == {leader(q) : q \in Ranks}

LEMMA RanksAreFinite == size \in Nat => IsFiniteSet(Ranks) /\ Cardinality(Ranks) = size
<1> SUFFICES ASSUME size \in Nat PROVE IsFiniteSet(Ranks) /\ Cardinality(Ranks) = size
  OBVIOUS
<1>1. 0 \in Int /\ size - 1 \in Int
  OBVIOUS
<1>2. /\ IsFiniteSet(0 .. size - 1)
      /\ Cardinality(0 .. size - 1) = IF 0 > size - 1 THEN 0 ELSE size - 1 - 0 + 1
  BY <1>1, FS_Interval, Zenon
<1> QED
  BY <1>2 DEF Ranks

\* A node has one leader, and a leader one node.
LEMMA LeaderOfNode ==
  ASSUME size \in Nat, NodesInv, NEW p \in Ranks
  PROVE  /\ leader(p) \in node[p] /\ leader(p) \in Ranks
         /\ \A q \in Ranks : leader(q) = leader(p) <=> node[q] = node[p]
         /\ IsFiniteSet(node[p]) /\ node[p] \in SUBSET Nat
<1>1. Ranks \in SUBSET Nat
  BY DEF Ranks
<1>2. \A q \in Ranks : q \in node[q] /\ node[q] \in SUBSET Ranks
  BY DEF NodesInv
<1>3. ASSUME NEW q \in Ranks PROVE leader(q) \in node[q]
  <2>1. \E x \in node[q] : \A y \in node[q] : x <= y
    BY <1>1, <1>2, Smallest
  <2> QED
    BY <2>1 DEF leader
<1>4. ASSUME NEW q \in Ranks PROVE leader(q) = leader(p) <=> node[q] = node[p]
  <2>1. node[q] = node[p] => leader(q) = leader(p)
    BY DEF leader
  <2>2. leader(q) = leader(p) => node[q] = node[p]
    <3>1. node[leader(q)] = node[q] /\ node[leader(p)] = node[p]
      BY <1>3 DEF NodesInv
    <3> QED
      BY <3>1
  <2> QED
    BY <2>1, <2>2
<1> QED
  BY <1>1, <1>2, <1>3, <1>4, RanksAreFinite, FS_Subset

LEMMA NodeRanks ==
  ASSUME size \in Nat, NodesInv, NEW p \in Ranks
  PROVE  /\ nodeSize(p) \in Nat \ {0}
         /\ nodeRank(p) \in 0 .. nodeSize(p) - 1
         /\ \A q \in node[p] : nodeRank(q) = nodeRank(p) => q = p
         /\ \A k \in 0 .. nodeSize(p) - 1 : \E q \in node[p] : nodeRank(q) = k
<1>1. IsFiniteSet(node[p]) /\ node[p] \in SUBSET Nat /\ p \in node[p]
  BY LeaderOfNode DEF NodesInv
<1>2. \A q \in node[p] : nodeRank(q) = Cardinality(Below(node[p], q))
  BY DEF NodesInv, nodeRank, Below
<1>3. /\ Cardinality(node[p]) \in Nat
      /\ \A x \in node[p] : Cardinality(Below(node[p], x)) \in 0 .. Cardinality(node[p]) - 1
      /\ \A x, y \in node[p] :
           Cardinality(Below(node[p], x)) = Cardinality(Below(node[p], y)) => x = y
      /\ \A k \in 0 .. Cardinality(node[p]) - 1 :
           \E x \in node[p] : Cardinality(Below(node[p], x)) = k
  BY <1>1, Counted
<1>4. Cardinality(node[p]) # 0
  BY <1>1, <1>3
<1> QED
  BY <1>1, <1>2, <1>3, <1>4 DEF nodeSize

LEMMA NodeIds ==
  ASSUME size \in Nat, NodesInv, NEW p \in Ranks
  PROVE  /\ Cardinality(Leaders) \in Nat \ {0}
         /\ nodeId(p) \in 0 .. Cardinality(Leaders) - 1
         /\ \A q \in Ranks : nodeId(q) = nodeId(p) <=> node[q] = node[p]
<1>1. IsFiniteSet(Leaders) /\ Leaders \in SUBSET Nat /\ \A q \in Ranks : leader(q) \in Leaders
  <2>1. Leaders \in SUBSET Ranks
    BY LeaderOfNode DEF Leaders
  <2>2. IsFiniteSet(Leaders)
    BY <2>1, RanksAreFinite, FS_Subset
  <2> QED
    BY <2>1, <2>2 DEF Leaders, Ranks
<1>2. ASSUME NEW q \in Ranks PROVE nodeId(q) = Cardinality(Below(Leaders, leader(q)))
  <2>1. {leader(x) : x \in {t \in Ranks : leader(t) < leader(q)}} = Below(Leaders, leader(q))
    BY DEF Below, Leaders
  <2> QED
    BY <2>1 DEF nodeId
<1>3. /\ Cardinality(Leaders) \in Nat
      /\ \A x \in Leaders : Cardinality(Below(Leaders, x)) \in 0 .. Cardinality(Leaders) - 1
      /\ \A x, y \in Leaders :
           Cardinality(Below(Leaders, x)) = Cardinality(Below(Leaders, y)) => x = y
  BY <1>1, Counted
<1>4. nodeId(p) \in 0 .. Cardinality(Leaders) - 1 /\ Cardinality(Leaders) # 0
  <2>1. nodeId(p) \in 0 .. Cardinality(Leaders) - 1
    BY <1>1, <1>2, <1>3
  <2> HIDE DEF nodeId
  <2> QED
    BY <1>3, <2>1
<1>5. ASSUME NEW q \in Ranks PROVE nodeId(q) = nodeId(p) <=> leader(q) = leader(p)
  BY <1>1, <1>2, <1>3
<1> QED
  BY <1>3, <1>4, <1>5, LeaderOfNode

\* There are as many ranks as places on all nodes.
LEMMA NodesTimesSize ==
  ASSUME size \in Nat, NodesInv, SizesInv, NEW p \in Ranks
  PROVE  size = Cardinality(Leaders) * nodeSize(p)
<1> DEFINE n == 0 .. nodeSize(p) - 1
<1> DEFINE f == [q \in Ranks |-> <<leader(q), nodeRank(q)>>]
<1>1. nodeSize(p) \in Nat \ {0} /\ \A q \in Ranks : nodeSize(q) = nodeSize(p)
  BY NodeRanks DEF SizesInv
<1>2. IsFiniteSet(n) /\ Cardinality(n) = nodeSize(p)
  <2>1. 0 \in Int /\ nodeSize(p) - 1 \in Int
    BY <1>1
  <2>2. /\ IsFiniteSet(0 .. nodeSize(p) - 1)
        /\ Cardinality(0 .. nodeSize(p) - 1) =
             IF 0 > nodeSize(p) - 1 THEN 0 ELSE nodeSize(p) - 1 - 0 + 1
    BY <2>1, FS_Interval, Zenon
  <2> QED
    BY <1>1, <2>2
<1>3. f \in [Ranks -> Leaders \X n]
  <2>1. \A q \in Ranks : nodeRank(q) \in n /\ leader(q) \in Leaders
    BY <1>1, NodeRanks DEF Leaders
  <2> QED
    BY <2>1
<1>4. \A x, y \in Ranks : f[x] = f[y] => x = y
  <2> SUFFICES ASSUME NEW x \in Ranks, NEW y \in Ranks, f[x] = f[y] PROVE x = y
    OBVIOUS
  <2>1. leader(x) = leader(y) /\ nodeRank(x) = nodeRank(y)
    OBVIOUS
  <2>2. node[x] = node[y]
    BY <2>1, LeaderOfNode
  <2>3. x \in node[y]
    BY <2>2 DEF NodesInv
  <2> QED
    BY <2>1, <2>3, NodeRanks
<1>5. ASSUME NEW z \in Leaders \X n PROVE \E x \in Ranks : f[x] = z
  <2>1. PICK q \in Ranks : z[1] = leader(q)
    BY DEF Leaders
  <2>2. PICK x \in node[q] : nodeRank(x) = z[2]
    BY <1>1, NodeRanks
  <2>3. x \in Ranks /\ node[x] = node[q]
    BY DEF NodesInv
  <2>4. leader(x) = leader(q)
    BY <2>3, LeaderOfNode
  <2> QED
    BY <2>1, <2>2, <2>3, <2>4
<1>6. IsFiniteSet(Ranks) /\ Cardinality(Ranks) = size
  BY RanksAreFinite
<1>7. IsFiniteSet(Leaders)
  <2>1. Leaders \in SUBSET Ranks
    BY LeaderOfNode DEF Leaders
  <2> QED
    BY <1>6, <2>1, FS_Subset
<1> HIDE DEF f, n
<1>8. f \in Bijection(Ranks, Leaders \X n)
  BY <1>3, <1>4, <1>5 DEF Bijection, Injection, Surjection, IsInjective
<1>9. Cardinality(Leaders \X n) = size
  BY <1>6, <1>8, FS_Bijection DEF ExistsBijection
<1> QED
  BY <1>2, <1>7, <1>9, FS_Product

LEMMA Side ==
  ASSUME size \in Nat, NodesInv, SizesInv, NEW p \in Ranks
  PROVE  /\ side(p) \in Nat \ {0}
         /\ side(p) * side(p) = Cardinality(Leaders)
<1>1. /\ size = Cardinality(Leaders) * nodeSize(p)
      /\ nodeSize(p) \in Nat \ {0} /\ Cardinality(Leaders) \in Nat \ {0}
  BY NodesTimesSize, NodeRanks, NodeIds
<1>2. nodeCount(p) = Cardinality(Leaders)
  <2>1. \A a, b \in Nat \ {0} : (a * b) \div b = a
    OBVIOUS
  <2> QED
    BY <1>1, <2>1 DEF nodeCount
<1>3. side(p) * side(p) = nodeCount(p)
  BY DEF SizesInv
<1>4. Cardinality(Leaders) <= size
  <2>1. \A a, b \in Nat \ {0} : a <= a * b
    OBVIOUS
  <2> QED
    BY <1>1, <2>1
<1>5. \E s \in 0 .. size : s * s <= nodeCount(p) /\ (s + 1) * (s + 1) > nodeCount(p)
  <2>1. \E s \in 0 .. nodeCount(p) : s * s <= nodeCount(p) /\ (s + 1) * (s + 1) > nodeCount(p)
    BY <1>1, <1>2, SquareRoot
  <2>2. \A s \in 0 .. nodeCount(p) : s \in 0 .. size
    BY <1>1, <1>2, <1>4
  <2> QED
    BY <2>1, <2>2
<1>6. side(p) \in 0 .. size
  <2> HIDE DEF nodeCount
  <2> QED
    BY <1>5 DEF side
<1>7. side(p) # 0
  BY <1>1, <1>2, <1>3
<1> QED
  BY <1>2, <1>3, <1>6, <1>7

\* No two ranks have one number, and the numbers are those of the ranks.
LEMMA Numbers ==
  ASSUME size \in Nat, NodesInv, SizesInv, NEW p \in Ranks
  PROVE  /\ Number(p) \in Ranks
         /\ Holders(Number(p)) = {p}
<1> DEFINE n == nodeSize(p)
<1> DEFINE l == Cardinality(Leaders)
<1>1. /\ n \in Nat \ {0} /\ l \in Nat \ {0} /\ size = l * n
      /\ \A q \in Ranks : nodeSize(q) = n
  BY NodesTimesSize, NodeRanks, NodeIds DEF SizesInv
<1>2. \A q \in Ranks : nodeId(q) \in 0 .. l - 1 /\ nodeRank(q) \in 0 .. n - 1
  BY <1>1, NodeRanks, NodeIds
<1> HIDE DEF n, l
<1>3. ASSUME NEW a \in Nat, NEW b \in Nat, a < b PROVE a * n + n <= b * n
  <2>1. (a + 1) * n <= b * n
    <3>1. PICK d \in Nat : b = a + 1 + d
      <4>1. b - a - 1 \in Nat /\ b = a + 1 + (b - a - 1)
        BY <1>3
      <4> QED
        BY <4>1
    <3>2. b * n = (a + 1) * n + d * n /\ d * n \in Nat /\ (a + 1) * n \in Nat
      BY <1>1, <3>1
    <3> QED
      BY <3>2
  <2>2. (a + 1) * n = a * n + n
    BY <1>1
  <2> QED
    BY <2>1, <2>2
<1>4. ASSUME NEW q \in Ranks PROVE nodeId(q) * n \in Nat /\ nodeId(q) * n + n <= l * n
  BY <1>1, <1>2, <1>3
<1>5. Number(p) \in Ranks
  <2>1. Number(p) = nodeId(p) * n + nodeRank(p)
    BY DEF Number, n
  <2> QED
    BY <1>1, <1>2, <1>4, <2>1 DEF Ranks
<1>6. ASSUME NEW q \in Ranks, nodeId(q) * n + nodeRank(q) = nodeId(p) * n + nodeRank(p)
      PROVE  q = p
  <2>1. /\ nodeId(q) \in Nat /\ nodeId(p) \in Nat
        /\ nodeRank(q) \in 0 .. n - 1 /\ nodeRank(p) \in 0 .. n - 1
    BY <1>1, <1>2
  <2>2. ~ (nodeId(q) < nodeId(p)) /\ ~ (nodeId(p) < nodeId(q))
    BY <1>1, <1>3, <1>4, <1>6, <2>1
  <2>3. nodeId(q) = nodeId(p)
    BY <2>1, <2>2
  <2>4. nodeRank(q) = nodeRank(p)
    BY <1>4, <1>6, <2>1, <2>3
  <2>5. q \in node[p]
    BY <2>3, NodeIds DEF NodesInv
  <2> QED
    BY <2>4, <2>5, NodeRanks
<1>7. Holders(Number(p)) =
        {q \in Ranks : nodeId(q) * n + nodeRank(q) = nodeId(p) * n + nodeRank(p)}
  BY <1>1 DEF Holders, Number
<1> QED
  BY <1>5, <1>6, <1>7

\* rankAt finds a rank by its coordinates.
LEMMA Found ==
  ASSUME size \in Nat, NodesInv, SizesInv, PlacesInv, NEW p \in Ranks, NEW q \in Ranks
  PROVE  /\ row[q] < side(p)
         /\ rankAt(p, row[q], col[q], nodeRank(q)) = q
<1>1. side(q) = side(p) /\ nodeSize(q) = nodeSize(p)
  BY SameGrid DEF SizesInv
<1>2. /\ side(p) \in Nat \ {0} /\ nodeId(q) \in Nat /\ nodeId(q) < side(p) * side(p)
  BY Side, NodeIds
<1>3. row[q] = nodeId(q) \div side(p) /\ col[q] = nodeId(q) % side(p)
  BY <1>1 DEF PlacesInv
<1>4. row[q] < side(p) /\ row[q] * side(p) + col[q] = nodeId(q)
  <2>1. ASSUME NEW a \in Nat, NEW b \in Nat \ {0} PROVE (a \div b) * b + (a % b) = a
    OBVIOUS
  <2>2. \A a \in Nat, b \in Nat \ {0} : a < b * b => a \div b < b
    OBVIOUS
  <2> QED
    BY <1>2, <1>3, <2>1, <2>2
<1>5. rankAt(p, row[q], col[q], nodeRank(q)) = coordinateRanks[Number(q)]
  BY <1>1, <1>4 DEF rankAt, Number
<1>6. Number(q) \in Ranks /\ Holders(Number(q)) = {q}
  BY Numbers
<1> QED
  BY <1>4, <1>5, <1>6 DEF PlacesInv

LEMMA IInvImpliesPlaces == GridIInv => EveryRankInItsPlace
<1> SUFFICES ASSUME GridIInv, phase = "built", NEW p \in Ranks
             PROVE  /\ row[p] < side(p)
                    /\ rankAt(p, row[p], col[p], nodeRank(p)) = p
                    /\ {rankAt(p, row[p], col[p], k) : k \in 0 .. nodeSize(p) - 1} = node[p]
                    /\ \A q \in Ranks : rankAt(p, row[q], col[q], nodeRank(q)) = q
  BY DEF EveryRankInItsPlace
<1>1. size \in Nat /\ NodesInv /\ SizesInv /\ PlacesInv
  BY DEF GridIInv
<1>2. \A q \in Ranks : row[q] < side(p) /\ rankAt(p, row[q], col[q], nodeRank(q)) = q
  BY <1>1, Found
<1>3. ASSUME NEW q \in node[p]
      PROVE  /\ q \in Ranks /\ row[q] = row[p] /\ col[q] = col[p]
             /\ nodeRank(q) \in 0 .. nodeSize(p) - 1
  <2>1. q \in Ranks /\ node[q] = node[p]
    BY <1>1 DEF NodesInv
  <2>2. nodeId(q) = nodeId(p) /\ side(q) = side(p) /\ nodeSize(q) = nodeSize(p)
    BY <1>1, <2>1, NodeIds, SameGrid DEF SizesInv
  <2>3. nodeRank(q) \in 0 .. nodeSize(q) - 1
    BY <1>1, <2>1, NodeRanks
  <2> QED
    BY <1>1, <2>1, <2>2, <2>3 DEF PlacesInv
<1>4. ASSUME NEW q \in node[p]
      PROVE  q \in {rankAt(p, row[p], col[p], k) : k \in 0 .. nodeSize(p) - 1}
  BY <1>2, <1>3
<1>5. ASSUME NEW k \in 0 .. nodeSize(p) - 1
      PROVE  rankAt(p, row[p], col[p], k) \in node[p]
  <2>1. PICK q \in node[p] : nodeRank(q) = k
    BY <1>1, NodeRanks
  <2> QED
    BY <1>2, <1>3, <2>1
<1> QED
  BY <1>2, <1>4, <1>5

\* However the launcher spread a job of whatever size over its hosts, every
\* rank is found at its place and the ranks of a place of the grid are a node.
THEOREM InTheirPlaces == GridSpec => []EveryRankInItsPlace
  BY GridInvariance, IInvImpliesPlaces, PTL

-----------------------------------------------------------------------------

(***************************************************************************)
(* The cache of references, for any sets of generators, of validations and *)
(* of inodes, any number of chunks, of starts and of crashes.              *)
(*                                                                         *)
(* AbsentOrComplete is not inductive.  That a rename publishes a complete  *)
(* file depends on what its writer has flushed and synchronised, which     *)
(* nobody else may undo: the lock has one owner (LockInv), only the owner  *)
(* has the temporary file open, as the one in the directory (FileInv), it  *)
(* has secured what its program counter says (BufferInv), and no directory *)
(* a crash can bring back has published the inode of the temporary file    *)
(* (DirectoryInv).                                                         *)
(***************************************************************************)

Preparing == {"locked", "writing", "flushed", "synced", "published", "unwind"}

LockInv ==
  \A p \in Process :
    /\ stand[p] \in Preparing => p \in Generator /\ keeper = p
    /\ p \in Generator /\ stand[p] = "reading" => keeper = p

FileInv ==
  \A p \in Process :
    /\ stand[p] \in Outcome \cup {"locked", "published"} =>
            handle[p] = Nothing /\ next[p] = 0 /\ flushed[p] = 0
    /\ stand[p] \in {"writing", "flushed", "synced"} => handle[p] # Nothing
    /\ stand[p] \in {"reading", "published"} => exists
    /\ Writing(p) => handle[p] = directory.tmp /\ ~exists

BufferInv ==
  \A p \in Process : Writing(p) =>
    /\ flushed[p] <= next[p]
    /\ 1 .. flushed[p] \subseteq content[handle[p]]
    /\ stand[p] \in {"flushed", "synced"} => content[handle[p]] = Chunk
    /\ stand[p] = "synced" => durable[handle[p]] = Chunk

DirectoryInv ==
  /\ directory \in recoverable
  /\ ~exists => \A d \in recoverable : d.path = Nothing
  /\ \A d \in recoverable : d.path # Nothing => d.path # d.tmp /\ d.path # directory.tmp

CacheIInv ==
  CacheTypeOK /\ LockInv /\ FileInv /\ BufferInv /\ DirectoryInv /\ AbsentOrComplete

-----------------------------------------------------------------------------
(* The steps                                                               *)

LEMMA CacheInitEstablishesIInv == CacheInit => CacheIInv
<1> SUFFICES ASSUME CacheInit PROVE CacheIInv
  OBVIOUS
<1> USE DEF CacheInit, FilesInit
<1>1. CacheTypeOK
  BY StartsAssumption, ChunksAssumption DEF CacheTypeOK, FilesTypeOK, Entries, Outcome
<1>2. LockInv /\ FileInv /\ BufferInv
  BY DEF LockInv, FileInv, BufferInv, Writing, Preparing
<1>3. DirectoryInv /\ AbsentOrComplete
  BY DEF DirectoryInv, AbsentOrComplete, exists
<1> QED
  BY <1>1, <1>2, <1>3 DEF CacheIInv

\* A step that touches none of the files disturbs none of the promises about
\* them.
LEMMA FilesKept ==
  ASSUME DirectoryInv, AbsentOrComplete,
         UNCHANGED <<directory, recoverable, content, durable>>
  PROVE  DirectoryInv' /\ AbsentOrComplete'
  BY DEF DirectoryInv, AbsentOrComplete, exists

\* A process is started: it opens the reference, is refused or takes the
\* lock.
LEMMA StartKeepsIInv ==
  ASSUME CacheIInv, NEW p \in Process, NEW to \in {"reading", "failed", "locked"},
         StartProcess(p, to),
         to = "reading" => p \in Reader /\ exists /\ OpenFile(p),
         to = "failed" => UNCHANGED <<cacheFiles, handle, next, flushed>>,
         to = "locked" =>
           /\ p \in Generator /\ keeper = Nothing /\ keeper' = p
           /\ UNCHANGED <<directory, recoverable, content, durable, handle, next, flushed>>
  PROVE  CacheIInv'
<1> USE DEF CacheIInv
<1>1. /\ stand' = [stand EXCEPT ![p] = to]
      /\ stand[p] \in Outcome /\ handle[p] = Nothing /\ next[p] = 0 /\ flushed[p] = 0
      /\ UNCHANGED <<directory, recoverable, content, durable, next, flushed, crashes>>
      /\ startCount' = startCount + 1 /\ startCount < MaxStarted
      /\ handle' = [handle EXCEPT ![p] = IF to = "reading" THEN directory.path ELSE handle[p]]
      /\ keeper' = IF to = "locked" THEN p ELSE keeper
      /\ to = "locked" => keeper = Nothing
  BY DEF StartProcess, OpenFile, cacheFiles, FileInv, CacheTypeOK
<1>2. CacheTypeOK'
  BY <1>1, StartsAssumption DEF CacheTypeOK, FilesTypeOK, Entries, Outcome, Alive
<1>3. LockInv'
  BY <1>1, ProcessAssumption, NothingAssumption DEF LockInv, CacheTypeOK, FilesTypeOK, Outcome, Preparing
<1>4. FileInv'
  BY <1>1 DEF FileInv, CacheTypeOK, Outcome, Writing, exists
<1>5. BufferInv'
  BY <1>1 DEF BufferInv, FileInv, CacheTypeOK, Outcome, Writing, exists
<1> QED
  BY <1>1, <1>2, <1>3, <1>4, <1>5, FilesKept

\* It reads on, reports what it has read or waits with an open file.
LEMMA ReadKeepsIInv ==
  ASSUME CacheIInv, NEW p \in Process, Read(p)
  PROVE  CacheIInv'
<1> USE DEF CacheIInv
<1>1. /\ stand[p] = "reading"
      /\ UNCHANGED <<cacheFiles, bounds>>
      /\ \/ /\ next[p] < Chunks /\ next' = [next EXCEPT ![p] = @ + 1]
            /\ UNCHANGED <<stand, handle, flushed>>
         \/ /\ \E end \in {"rejected", "reused", "passed"} : stand' = [stand EXCEPT ![p] = end]
            /\ CloseFile(p)
  BY DEF Read, ReadChunk, finish, Goto
<1>2. CacheTypeOK'
  BY <1>1, ChunksAssumption DEF cacheFiles, bounds, CloseFile, CacheTypeOK, FilesTypeOK, Outcome, Alive
<1>3. LockInv'
  BY <1>1 DEF cacheFiles, LockInv, CacheTypeOK, Outcome, Preparing
<1>4. FileInv'
  BY <1>1 DEF cacheFiles, CloseFile, FileInv, CacheTypeOK, Outcome, Writing, exists
<1>5. BufferInv'
  BY <1>1 DEF cacheFiles, CloseFile, BufferInv, FileInv, CacheTypeOK, Outcome, Writing, exists
<1> QED
  BY <1>1, <1>2, <1>3, <1>4, <1>5, FilesKept DEF cacheFiles

\* The reference exists: the generator reads it.
LEMMA ReuseKeepsIInv == ASSUME CacheIInv, NEW g \in Generator, Reuse(g) PROVE CacheIInv'
<1> USE DEF CacheIInv
<1>1. /\ stand[g] = "locked" /\ stand' = [stand EXCEPT ![g] = "reading"]
      /\ exists /\ handle' = [handle EXCEPT ![g] = directory.path]
      /\ UNCHANGED <<cacheFiles, next, flushed, bounds>>
      /\ g \in Process
  BY DEF Reuse, Goto, OpenFile, Process
<1>2. CacheTypeOK'
  BY <1>1 DEF cacheFiles, bounds, CacheTypeOK, FilesTypeOK, Entries, Outcome, Alive
<1>3. LockInv'
  BY <1>1 DEF cacheFiles, LockInv, CacheTypeOK, Outcome, Preparing
<1>4. FileInv'
  BY <1>1 DEF cacheFiles, FileInv, CacheTypeOK, Outcome, Writing, exists
<1>5. BufferInv'
  BY <1>1 DEF cacheFiles, BufferInv, FileInv, CacheTypeOK, Outcome, Writing, exists
<1> QED
  BY <1>1, <1>2, <1>3, <1>4, <1>5, FilesKept DEF cacheFiles

\* Whoever has a file open for writing has the lock.
LEMMA WriterHoldsLock ==
  ASSUME CacheTypeOK, LockInv, FileInv, NEW p \in Process, Writing(p)
  PROVE  /\ p \in Generator /\ keeper = p
         /\ stand[p] \in {"writing", "flushed", "synced", "unwind"}
<1>1. stand[p] \in {"writing", "flushed", "synced", "unwind"}
  BY DEF FileInv, Writing, CacheTypeOK, Outcome, Alive
<1> QED
  BY <1>1 DEF LockInv, Preparing

\* It does not: the temporary file is opened for writing, and emptied.
LEMMA CreateKeepsIInv == ASSUME CacheIInv, NEW g \in Generator, Create(g) PROVE CacheIInv'
<1> USE DEF CacheIInv
<1>1. PICK i \in Inode : truncate(i) /\ handle' = [handle EXCEPT ![g] = i]
  BY DEF Create
<1>2. /\ g \in Process /\ keeper = g
      /\ stand[g] = "locked" /\ stand' = [stand EXCEPT ![g] = "writing"]
      /\ ~exists /\ next[g] = 0 /\ flushed[g] = 0
      /\ UNCHANGED <<keeper, next, flushed, bounds>>
  BY DEF Create, Goto, Process, FileInv, LockInv, Preparing
<1>3. /\ content' = [content EXCEPT ![i] = {}]
      /\ directory' = [path |-> Nothing, tmp |-> i]
      /\ durable' \in {durable, [durable EXCEPT ![i] = {}]}
      /\ recoverable' \in {recoverable, recoverable \cup {directory'}}
      /\ directory' \in recoverable'
      /\ \A d \in recoverable : d.path # i
  <2>1. /\ directory \in Entries /\ i # Nothing
        /\ directory \in recoverable
        /\ \A d \in recoverable : d.path = Nothing
    BY <1>2, NothingAssumption DEF CacheTypeOK, FilesTypeOK, DirectoryInv
  <2>2. CASE directory.tmp # Nothing
    BY <1>1, <2>1, <2>2 DEF truncate, temporary, Entries
  <2>3. CASE directory.tmp = Nothing
    BY <1>1, <2>1, <2>3 DEF truncate, temporary, Entries, Relink
  <2> QED
    BY <2>2, <2>3
<1>4. CacheTypeOK'
  BY <1>1, <1>2, <1>3 DEF bounds, CacheTypeOK, FilesTypeOK, Entries, Outcome, Alive
<1>5. /\ directory'.path = Nothing /\ directory'.tmp = i /\ i # Nothing
      /\ \A d \in recoverable' : d.path = Nothing
  BY <1>2, <1>3, NothingAssumption DEF exists, CacheTypeOK, FilesTypeOK, DirectoryInv, Entries
<1>6. LockInv'
  BY <1>2 DEF LockInv, CacheTypeOK, Outcome, Preparing
<1>7. \A p \in Process \ {g} : ~Writing(p)
  BY <1>2, WriterHoldsLock
<1>8. FileInv'
  BY <1>1, <1>2, <1>5, <1>7 DEF FileInv, CacheTypeOK, Outcome, Writing, exists
<1>9. BufferInv'
  BY <1>1, <1>2, <1>7 DEF BufferInv, CacheTypeOK, Outcome, Writing
<1>10. DirectoryInv' /\ AbsentOrComplete'
  BY <1>3, <1>5 DEF DirectoryInv, AbsentOrComplete, exists
<1> QED
  BY <1>4, <1>6, <1>8, <1>9, <1>10

LEMMA WriteKeepsIInv == ASSUME CacheIInv, NEW g \in Generator, Write(g) PROVE CacheIInv'
<1> USE DEF CacheIInv
<1>1. /\ stand[g] = "writing" /\ next[g] < Chunks
      /\ next' = [next EXCEPT ![g] = @ + 1]
      /\ UNCHANGED <<cacheFiles, stand, handle, flushed, bounds>>
      /\ g \in Process
  BY DEF Write, Process
<1>2. CacheTypeOK'
  BY <1>1, ChunksAssumption DEF cacheFiles, bounds, CacheTypeOK, FilesTypeOK
<1>3. LockInv' /\ FileInv'
  BY <1>1 DEF cacheFiles, LockInv, FileInv, CacheTypeOK, Outcome, Preparing, Writing, exists
<1>4. BufferInv'
  BY <1>1, ChunksAssumption DEF cacheFiles, BufferInv, CacheTypeOK, Writing
<1> QED
  BY <1>1, <1>2, <1>3, <1>4, FilesKept DEF cacheFiles

\* What is drained goes to the temporary file, which no directory a crash can
\* bring back has published.
LEMMA DrainKeepsFiles ==
  ASSUME CacheIInv, NEW g \in Generator, Writing(g), Drain(g)
  PROVE  /\ DirectoryInv' /\ AbsentOrComplete'
         /\ content' \in [Inode -> SUBSET Chunk]
         /\ handle[g] \in Inode
         /\ content'[handle[g]] = content[handle[g]] \cup (flushed[g] + 1 .. next[g])
<1> USE DEF CacheIInv
<1>1. g \in Process /\ handle[g] \in Inode /\ handle[g] = directory.tmp /\ ~exists
  BY DEF Process, Writing, FileInv, CacheTypeOK
<1>2. /\ content' = [content EXCEPT ![handle[g]] = @ \cup (flushed[g] + 1 .. next[g])]
      /\ UNCHANGED <<directory, recoverable, durable>>
  BY DEF Drain
<1>3. flushed[g] + 1 .. next[g] \subseteq Chunk
  BY <1>1, ChunksAssumption DEF CacheTypeOK, Chunk
<1>4. content' \in [Inode -> SUBSET Chunk]
  BY <1>1, <1>2, <1>3 DEF CacheTypeOK, FilesTypeOK
<1>5. content'[handle[g]] = content[handle[g]] \cup (flushed[g] + 1 .. next[g])
  BY <1>1, <1>2 DEF CacheTypeOK, FilesTypeOK
<1>6. \A d \in recoverable \cup {directory} : d.path = Nothing
  BY <1>1 DEF DirectoryInv, exists
<1>7. DirectoryInv' /\ AbsentOrComplete'
  BY <1>2, <1>6 DEF DirectoryInv, AbsentOrComplete, exists
<1> QED
  BY <1>1, <1>4, <1>5, <1>7

\* The buffer is full, or everything has been written and is flushed.
LEMMA FlushKeepsIInv ==
  ASSUME CacheIInv, NEW g \in Generator, Spill(g) \/ Flush(g)
  PROVE  CacheIInv'
<1> USE DEF CacheIInv
<1>1. PICK to \in {"writing", "flushed"} :
        /\ stand' = [stand EXCEPT ![g] = to]
        /\ to = "flushed" => next[g] = Chunks
  <2>1. CASE Spill(g)
    BY <2>1 DEF Spill, CacheTypeOK, Process
  <2>2. CASE Flush(g)
    BY <2>2 DEF Flush, Goto
  <2> QED
    BY <2>1, <2>2
<1>2. /\ stand[g] = "writing" /\ g \in Process /\ Writing(g) /\ Drain(g)
      /\ flushed' = [flushed EXCEPT ![g] = next[g]]
      /\ UNCHANGED <<handle, next>>
  BY DEF Spill, Flush, Goto, Process, FileInv, Writing
<1>3. /\ DirectoryInv' /\ AbsentOrComplete'
      /\ content' \in [Inode -> SUBSET Chunk]
      /\ handle[g] \in Inode
      /\ content'[handle[g]] = content[handle[g]] \cup (flushed[g] + 1 .. next[g])
  BY <1>2, DrainKeepsFiles
<1>4. UNCHANGED <<keeper, directory, recoverable, durable, bounds>>
  BY <1>2 DEF Drain
<1>5. CacheTypeOK'
  BY <1>1, <1>2, <1>3, <1>4 DEF bounds, CacheTypeOK, FilesTypeOK, Outcome, Alive
<1>6. LockInv'
  BY <1>1, <1>2, <1>4 DEF LockInv, CacheTypeOK, Outcome, Preparing
<1>7. FileInv'
  BY <1>1, <1>2, <1>4 DEF FileInv, CacheTypeOK, Outcome, Writing, exists
<1>8. \A p \in Process \ {g} : ~Writing(p)
  BY <1>2, WriterHoldsLock
<1>9. /\ flushed[g] \in Nat /\ next[g] \in Nat /\ flushed[g] <= next[g]
      /\ 1 .. flushed[g] \subseteq content[handle[g]]
  BY <1>2 DEF BufferInv, CacheTypeOK
<1>10. 1 .. next[g] \subseteq content'[handle[g]]
  BY <1>3, <1>9
<1>11. to = "flushed" => content'[handle[g]] = Chunk
  BY <1>1, <1>3, <1>10 DEF Chunk
<1>12. BufferInv'
  BY <1>1, <1>2, <1>8, <1>9, <1>10, <1>11 DEF BufferInv, CacheTypeOK, Writing
<1> QED
  BY <1>3, <1>5, <1>6, <1>7, <1>12

\* What the kernel has is on the disk.
LEMMA SyncKeepsIInv == ASSUME CacheIInv, NEW g \in Generator, Sync(g) PROVE CacheIInv'
<1> USE DEF CacheIInv
<1>1. /\ g \in Process /\ Writing(g)
      /\ stand[g] = "flushed" /\ stand' = [stand EXCEPT ![g] = "synced"]
      /\ durable' = [durable EXCEPT ![handle[g]] = content[handle[g]]]
      /\ UNCHANGED <<keeper, directory, recoverable, content, handle, next, flushed, bounds>>
  BY DEF Sync, Goto, Process, FileInv, Writing, syncFile
<1>2. /\ handle[g] \in Inode /\ handle[g] = directory.tmp /\ ~exists
      /\ content[handle[g]] = Chunk
  BY <1>1 DEF CacheTypeOK, Writing, FileInv, BufferInv
<1>3. CacheTypeOK'
  BY <1>1, <1>2 DEF bounds, CacheTypeOK, FilesTypeOK, Outcome, Alive
<1>4. LockInv'
  BY <1>1 DEF LockInv, CacheTypeOK, Outcome, Preparing
<1>5. FileInv'
  BY <1>1 DEF FileInv, CacheTypeOK, Outcome, Writing, exists
<1>6. \A p \in Process \ {g} : ~Writing(p)
  BY <1>1, WriterHoldsLock
<1>7. BufferInv'
  BY <1>1, <1>2, <1>6 DEF BufferInv, CacheTypeOK, FilesTypeOK, Writing
<1>8. DirectoryInv' /\ AbsentOrComplete'
  BY <1>1, <1>2 DEF DirectoryInv, AbsentOrComplete, exists
<1> QED
  BY <1>3, <1>4, <1>5, <1>7, <1>8

\* The temporary file becomes the reference.
LEMMA PublishKeepsIInv == ASSUME CacheIInv, NEW g \in Generator, Publish(g) PROVE CacheIInv'
<1> USE DEF CacheIInv
<1>1. /\ g \in Process /\ Writing(g)
      /\ stand[g] = "synced" /\ stand' = [stand EXCEPT ![g] = "published"]
      /\ directory' = [path |-> directory.tmp, tmp |-> Nothing]
      /\ recoverable' = recoverable \cup {directory'}
      /\ directory.tmp # Nothing
      /\ CloseFile(g)
      /\ UNCHANGED <<keeper, content, durable, bounds>>
  BY DEF Publish, Goto, Process, FileInv, Writing, rename, Relink, temporary
<1>2. /\ directory.tmp \in Inode /\ ~exists
      /\ content[directory.tmp] = Chunk /\ durable[directory.tmp] = Chunk
  BY <1>1 DEF CacheTypeOK, Writing, FileInv, BufferInv
<1>3. CacheTypeOK'
  BY <1>1, <1>2, ChunksAssumption DEF bounds, CloseFile, CacheTypeOK, FilesTypeOK, Entries, Outcome, Alive
<1>4. LockInv'
  BY <1>1 DEF LockInv, CacheTypeOK, Outcome, Preparing
<1>5. \A p \in Process \ {g} : ~Writing(p)
  BY <1>1, WriterHoldsLock
<1>6. directory'.path # Nothing
  BY <1>1
<1>7. FileInv'
  BY <1>1, <1>5, <1>6 DEF FileInv, CloseFile, CacheTypeOK, Outcome, Writing, exists
<1>8. BufferInv'
  BY <1>1, <1>5 DEF BufferInv, CloseFile, CacheTypeOK, Writing
<1>9. DirectoryInv' /\ AbsentOrComplete'
  BY <1>1, <1>2 DEF DirectoryInv, AbsentOrComplete, exists
<1> QED
  BY <1>3, <1>4, <1>7, <1>8, <1>9

\* No crash can take the reference back.
LEMMA SyncDirectoryKeepsIInv ==
  ASSUME CacheIInv, NEW g \in Generator, SyncDirectory(g)
  PROVE  CacheIInv'
<1> USE DEF CacheIInv
<1>1. /\ g \in Process
      /\ stand[g] = "published" /\ stand' = [stand EXCEPT ![g] = "generated"]
      /\ recoverable' = {directory}
      /\ UNCHANGED <<keeper, directory, content, durable, handle, next, flushed, bounds>>
  BY DEF SyncDirectory, Goto, Process, syncDirectory
<1>2. CacheTypeOK'
  BY <1>1 DEF bounds, CacheTypeOK, FilesTypeOK, Outcome, Alive
<1>3. LockInv' /\ FileInv' /\ BufferInv'
  BY <1>1 DEF LockInv, FileInv, BufferInv, CacheTypeOK, Outcome, Preparing, Writing, exists
<1>4. DirectoryInv' /\ AbsentOrComplete'
  BY <1>1 DEF DirectoryInv, AbsentOrComplete, exists
<1> QED
  BY <1>2, <1>3, <1>4

LEMMA FailureKeepsIInv == ASSUME CacheIInv, NEW g \in Generator, Failure(g) PROVE CacheIInv'
<1> USE DEF CacheIInv
<1>1. /\ g \in Process
      /\ stand[g] \in {"locked", "writing", "flushed", "synced", "published"}
      /\ stand' = [stand EXCEPT ![g] = "unwind"]
      /\ UNCHANGED <<cacheFiles, handle, next, flushed, bounds>>
  BY DEF Failure, Process
<1>2. CacheTypeOK'
  BY <1>1 DEF cacheFiles, bounds, CacheTypeOK, FilesTypeOK, Outcome, Alive
<1>3. LockInv' /\ FileInv' /\ BufferInv'
  BY <1>1 DEF cacheFiles, LockInv, FileInv, BufferInv, CacheTypeOK, Outcome, Preparing, Writing, exists
<1> QED
  BY <1>1, <1>2, <1>3, FilesKept DEF cacheFiles

\* The file is closed before the lock is released, whatever stdio still
\* writes to it.
LEMMA UnwindKeepsIInv == ASSUME CacheIInv, NEW g \in Generator, Unwind(g) PROVE CacheIInv'
<1> USE DEF CacheIInv
<1>1. /\ g \in Process
      /\ stand[g] = "unwind" /\ stand' = [stand EXCEPT ![g] = "failed"]
      /\ CloseFile(g)
  BY DEF Unwind, Goto, Process
<1>2. /\ DirectoryInv' /\ AbsentOrComplete'
      /\ content' \in [Inode -> SUBSET Chunk]
      /\ UNCHANGED <<keeper, directory, recoverable, durable, bounds>>
      /\ Writing(g) \/ content' = content
  <2>1. CASE handle[g] # Nothing /\ Drain(g)
    <3>1. Writing(g)
      BY <1>1, <2>1 DEF Writing
    <3> QED
      BY <2>1, <3>1, DrainKeepsFiles DEF Drain
  <2>2. CASE UNCHANGED <<cacheFiles, bounds>>
    BY <2>2, FilesKept DEF cacheFiles, CacheTypeOK, FilesTypeOK
  <2> QED
    BY <2>1, <2>2 DEF Unwind
<1>3. CacheTypeOK'
  BY <1>1, <1>2, ChunksAssumption DEF bounds, CloseFile, CacheTypeOK, FilesTypeOK, Outcome, Alive
<1>4. LockInv' /\ FileInv'
  BY <1>1, <1>2 DEF CloseFile, LockInv, FileInv, CacheTypeOK, Outcome, Preparing, Writing, exists
<1>5. BufferInv'
  <2>1. CASE Writing(g)
    <3>1. \A p \in Process \ {g} : ~Writing(p)
      BY <1>1, <2>1, WriterHoldsLock
    <3> QED
      BY <1>1, <3>1 DEF BufferInv, CloseFile, CacheTypeOK, Writing
  <2>2. CASE content' = content
    BY <1>1, <1>2, <2>2 DEF BufferInv, CloseFile, CacheTypeOK, Writing
  <2> QED
    BY <1>2, <2>1, <2>2
<1> QED
  BY <1>2, <1>3, <1>4, <1>5

LEMMA UnlockKeepsIInv == ASSUME CacheIInv, NEW g \in Generator, Unlock(g) PROVE CacheIInv'
<1> USE DEF CacheIInv
<1>1. /\ keeper = g /\ stand[g] \in Outcome /\ keeper' = Nothing
      /\ UNCHANGED <<directory, recoverable, content, durable, process, bounds>>
      /\ g \in Process
  BY DEF Unlock, Leaves, Process
<1>2. CacheTypeOK'
  BY <1>1 DEF bounds, process, CacheTypeOK, FilesTypeOK
<1>3. LockInv'
  BY <1>1 DEF process, LockInv, Outcome, Preparing
<1>4. FileInv' /\ BufferInv'
  BY <1>1 DEF process, FileInv, BufferInv, Writing, exists
<1> QED
  BY <1>1, <1>2, <1>3, <1>4, FilesKept

LEMMA KillKeepsIInv == ASSUME CacheIInv, NEW p \in Process, Kill(p) PROVE CacheIInv'
<1> USE DEF CacheIInv
<1>1. /\ stand' = [stand EXCEPT ![p] = "killed"]
      /\ CloseFile(p)
      /\ keeper' = IF keeper = p THEN Nothing ELSE keeper
      /\ UNCHANGED <<directory, recoverable, content, durable, bounds>>
  BY DEF Kill, OwnerAfter
<1>2. CacheTypeOK'
  BY <1>1, ChunksAssumption DEF bounds, CloseFile, CacheTypeOK, FilesTypeOK, Outcome
<1>3. LockInv'
  BY <1>1 DEF LockInv, CacheTypeOK, Preparing
<1>4. FileInv' /\ BufferInv'
  BY <1>1 DEF CloseFile, FileInv, BufferInv, CacheTypeOK, Outcome, Writing, exists
<1> QED
  BY <1>1, <1>2, <1>3, <1>4, FilesKept

\* Whatever directory comes back, what it has published was secured.
LEMMA CrashKeepsIInv == ASSUME CacheIInv, Crash PROVE CacheIInv'
<1> USE DEF CacheIInv
<1>1. /\ stand' = [p \in Process |-> "killed"]
      /\ handle' = [p \in Process |-> Nothing]
      /\ next' = [p \in Process |-> 0]
      /\ flushed' = [p \in Process |-> 0]
      /\ crashes < MaxCrashes /\ crashes' = crashes + 1 /\ startCount' = startCount
      /\ CrashFiles
  BY DEF Crash
<1>2. /\ keeper' = Nothing /\ directory' \in recoverable /\ recoverable' = {directory'}
      /\ content' \in [Inode -> SUBSET Chunk] /\ durable' = content'
      /\ \A i \in Inode : durable[i] \cap content[i] \subseteq content'[i]
  BY <1>1 DEF CrashFiles
<1>3. CacheTypeOK'
  BY <1>1, <1>2, ChunksAssumption, StartsAssumption DEF CacheTypeOK, FilesTypeOK, Outcome
<1>4. LockInv' /\ FileInv' /\ BufferInv'
  BY <1>1 DEF LockInv, FileInv, BufferInv, Preparing, Writing
<1>5. DirectoryInv'
  BY <1>2 DEF DirectoryInv, exists
<1>6. AbsentOrComplete'
  <2> SUFFICES ASSUME directory'.path # Nothing
               PROVE  content'[directory'.path] = Chunk
    BY <1>2 DEF AbsentOrComplete
  <2>1. directory'.path \in Inode
    BY <1>2 DEF CacheTypeOK, FilesTypeOK, Entries
  <2>2. content[directory'.path] = Chunk /\ durable[directory'.path] = Chunk
    BY <1>2 DEF AbsentOrComplete
  <2> QED
    BY <1>2, <2>1, <2>2
<1> QED
  BY <1>3, <1>4, <1>5, <1>6

LEMMA CacheNextKeepsIInv == CacheIInv /\ [CacheNext]_cacheVars => CacheIInv'
<1> SUFFICES ASSUME CacheIInv, [CacheNext]_cacheVars PROVE CacheIInv'
  OBVIOUS
<1>1. ASSUME NEW p \in Process, Proceed(p) PROVE CacheIInv'
  <2>1. CASE Read(p)
    BY <2>1, ReadKeepsIInv
  <2>2. CASE p \in Generator /\ Prepare(p)
    BY <2>2, ReuseKeepsIInv, CreateKeepsIInv, WriteKeepsIInv, FlushKeepsIInv, SyncKeepsIInv,
       PublishKeepsIInv, SyncDirectoryKeepsIInv, FailureKeepsIInv, UnwindKeepsIInv,
       UnlockKeepsIInv DEF Prepare
  <2> QED
    BY <1>1, <2>1, <2>2 DEF Proceed
<1>2. ASSUME NEW p \in Process, Kill(p) PROVE CacheIInv'
  BY <1>2, KillKeepsIInv
<1>3. ASSUME NEW g \in Generator, Acquire(g) PROVE CacheIInv'
  BY <1>3, StartKeepsIInv DEF Acquire, Unlocked, Process
<1>4. ASSUME NEW g \in Generator, Busy(g) PROVE CacheIInv'
  BY <1>4, StartKeepsIInv DEF Busy, Process
<1>5. ASSUME NEW r \in Reader, OpenReader(r) PROVE CacheIInv'
  BY <1>5, StartKeepsIInv DEF OpenReader, Process
<1>6. ASSUME NEW r \in Reader, OpenMissing(r) PROVE CacheIInv'
  BY <1>6, StartKeepsIInv DEF OpenMissing, Process
<1>7. CASE Crash
  BY <1>7, CrashKeepsIInv
<1>8. CASE UNCHANGED cacheVars
  <2>1. CacheTypeOK' /\ LockInv' /\ FileInv' /\ BufferInv'
    BY <1>8 DEF cacheVars, cacheFiles, process, bounds, CacheIInv, CacheTypeOK, FilesTypeOK, LockInv, FileInv,
                BufferInv, Writing, exists
  <2> QED
    BY <1>8, <2>1, FilesKept DEF cacheVars, cacheFiles, CacheIInv
<1> QED
  BY <1>1, <1>2, <1>3, <1>4, <1>5, <1>6, <1>7, <1>8 DEF CacheNext, Exhausted

LEMMA CacheInvariance == CacheSpec => []CacheIInv
  BY CacheInitEstablishesIInv, CacheNextKeepsIInv, PTL DEF CacheSpec

\* The variables have their types.
THEOREM CacheTypeCorrect == CacheSpec => []CacheTypeOK
<1>1. CacheIInv => CacheTypeOK
  BY DEF CacheIInv
<1> QED
  BY <1>1, CacheInvariance, PTL

\* Whatever dies, and whenever the machine crashes, the reference is absent
\* or complete: nobody ever finds half of one (publish by rename).
THEOREM NeverHalf == CacheSpec => []AbsentOrComplete
<1>1. CacheIInv => AbsentOrComplete
  BY DEF CacheIInv
<1> QED
  BY <1>1, CacheInvariance, PTL

\* However generators are killed, throw and are started again, only one of
\* them has the temporary file open for writing.
THEOREM OneWriter == CacheSpec => []SoleWriter
<1>1. CacheIInv => SoleWriter
  BY WriterHoldsLock DEF CacheIInv, SoleWriter, Process
<1> QED
  BY <1>1, CacheInvariance, PTL


-----------------------------------------------------------------------------
(* ReferenceCache implements ReferenceStore                                *)

Answers == [p \in Process |-> AnswerOf(p)]

\* What the store is, from the directories a crash can bring back.
Seen(directories) ==
  IF \A d \in directories : d.path = Nothing THEN "absent"
  ELSE IF \A d \in directories : d.path # Nothing THEN "durable" ELSE "published"

LEMMA StoreIsSeen == CacheIInv => StoreState = Seen(recoverable)
  BY DEF CacheIInv, DirectoryInv, AbsentOrComplete, StoreState, Seen, exists

LEMMA ExistsIsSeen == CacheIInv => (exists <=> StoreState # "absent")
  BY StoreIsSeen DEF CacheIInv, DirectoryInv, Seen, exists

\* The answer a process had when it starts over or fails is forgotten; to one
\* that had none nothing happens.
LEMMA ForgetRefines ==
  ASSUME NEW p \in Process, CacheTypeOK, StoreState' = StoreState,
         NEW to, stand' = [stand EXCEPT ![p] = to],
         to \notin {"generated", "reused", "passed"}
  PROVE  Store!Next
<1>1. Answers' = [Answers EXCEPT ![p] = "none"]
  BY DEF Answers, AnswerOf, CacheTypeOK
<1>2. Store!Forget(p)
  BY <1>1 DEF Store!Forget, Answers
<1> QED
  BY <1>2 DEF Store!Next

\* A process with no answer goes on.
LEMMA SilentRefines ==
  ASSUME StoreState' = StoreState, stand' = stand
  PROVE  UNCHANGED Store!vars
<1>1. Answers' = Answers
  BY DEF Answers, AnswerOf
<1> QED
  BY <1>1 DEF Store!vars, Answers

LEMMA StoreInitRefines == CacheInit => Store!Init
<1> SUFFICES ASSUME CacheInit PROVE Store!Init
  OBVIOUS
<1>1. StoreState = "absent"
  BY DEF CacheInit, FilesInit, StoreState, exists
<1>2. [p \in Process |-> AnswerOf(p)] = [p \in Process |-> "none"]
  BY DEF CacheInit, AnswerOf
<1> QED
  BY <1>1, <1>2 DEF Store!Init

LEMMA PublishRefines ==
  ASSUME CacheIInv, CacheIInv', NEW g \in Generator, Publish(g)
  PROVE  Store!Publish
<1>1. /\ g \in Process /\ stand[g] = "synced" /\ stand' = [stand EXCEPT ![g] = "published"]
      /\ directory.tmp # Nothing
      /\ recoverable' = recoverable \cup {[path |-> directory.tmp, tmp |-> Nothing]}
      /\ Writing(g)
  BY DEF Publish, Goto, Process, rename, Relink, temporary, Writing, CacheIInv, FileInv
<1>2. ~exists /\ directory \in recoverable /\ \A d \in recoverable : d.path = Nothing
  BY <1>1 DEF CacheIInv, FileInv, DirectoryInv
<1>3. Seen(recoverable) = "absent" /\ Seen(recoverable') = "published"
  <2> DEFINE published == [path |-> directory.tmp, tmp |-> Nothing]
  <2>1. published.path # Nothing /\ published \in recoverable' /\ directory \in recoverable'
    BY <1>1, <1>2
  <2>2. directory.path = Nothing
    BY <1>2
  <2> HIDE DEF published
  <2> QED
    BY <1>2, <2>1, <2>2 DEF Seen
<1>4. StoreState = "absent" /\ StoreState' = "published"
  <2>1. (CacheIInv => StoreState = Seen(recoverable))'
    BY StoreIsSeen, PTL
  <2> QED
    BY <1>3, <2>1, StoreIsSeen DEF Seen
<1>5. Answers' = Answers
  BY <1>1 DEF Answers, AnswerOf, CacheIInv, CacheTypeOK
<1> QED
  BY <1>4, <1>5 DEF Store!Publish, Answers

LEMMA SyncDirectoryRefines ==
  ASSUME CacheIInv, CacheIInv', NEW g \in Generator, SyncDirectory(g)
  PROVE  Store!Next
<1>1. /\ g \in Process /\ stand[g] = "published" /\ stand' = [stand EXCEPT ![g] = "generated"]
      /\ recoverable' = {directory}
  BY DEF SyncDirectory, Goto, Process, syncDirectory
<1>2. exists /\ directory.path # Nothing
  BY <1>1 DEF CacheIInv, FileInv, exists
<1>3. StoreState # "absent" /\ StoreState' = "durable"
  <2>1. (CacheIInv => StoreState = Seen(recoverable))'
    BY StoreIsSeen, PTL
  <2> QED
    BY <1>1, <1>2, <2>1, ExistsIsSeen DEF Seen
<1>4. Answers' = [Answers EXCEPT ![g] = "generated"]
  BY <1>1 DEF Answers, AnswerOf, CacheIInv, CacheTypeOK
<1>5. Store!ReportGenerated(g)
  BY <1>3, <1>4 DEF Store!ReportGenerated, Answers
<1> QED
  BY <1>1, <1>5 DEF Store!Next

LEMMA CrashRefines == ASSUME CacheIInv, CacheIInv', Crash PROVE Store!Crash
<1>1. /\ stand' = [p \in Process |-> "killed"]
      /\ directory' \in recoverable /\ recoverable' = {directory'}
  BY DEF Crash, CrashFiles
<1>2. StoreState = Seen(recoverable) /\ StoreState' = Seen({directory'})
  <2>1. (CacheIInv => StoreState = Seen(recoverable))'
    BY StoreIsSeen, PTL
  <2> QED
    BY <1>1, <2>1, StoreIsSeen DEF Seen
<1>3. StoreState' \in IF StoreState = "published" THEN {"absent", "durable"} ELSE {StoreState}
  BY <1>1, <1>2 DEF Seen
<1>4. [p \in Process |-> AnswerOf(p)]' = [p \in Process |-> "none"]
  BY <1>1 DEF AnswerOf
<1> QED
  BY <1>3, <1>4 DEF Store!Crash

\* A process has read the reference to the end, or cannot.
LEMMA ReadRefines ==
  ASSUME CacheIInv, NEW p \in Process, Read(p), StoreState' = StoreState
  PROVE  [Store!Next]_(Store!vars)
<1>1. CASE finish(p)
  <2>1. /\ stand[p] = "reading"
        /\ \E end \in {"reused", "passed"} : stand' = [stand EXCEPT ![p] = end]
    BY <1>1 DEF finish, Goto
  <2>2. StoreState # "absent"
    BY <2>1, ExistsIsSeen DEF CacheIInv, FileInv
  <2>3. Answers' = [Answers EXCEPT ![p] = "used"]
    BY <2>1 DEF Answers, AnswerOf, CacheIInv, CacheTypeOK
  <2>4. Store!ReportUsed(p)
    BY <2>2, <2>3 DEF Store!ReportUsed, Answers
  <2> QED
    BY <2>4 DEF Store!Next
<1>2. CASE ReadChunk(p) /\ stand' = stand
  BY <1>2, SilentRefines
<1>3. CASE ReadChunk(p) /\ stand' = [stand EXCEPT ![p] = "rejected"]
  BY <1>3, ForgetRefines DEF CacheIInv
<1> QED
  BY <1>1, <1>2, <1>3 DEF Read, ReadChunk

\* A generator works on the temporary file, or leaves.
LEMMA PrepareRefines ==
  ASSUME CacheIInv, CacheIInv', NEW g \in Generator, Prepare(g)
  PROVE  [Store!Next]_(Store!vars)
<1>1. CASE Publish(g)
  BY <1>1, PublishRefines DEF Store!Next
<1>2. CASE SyncDirectory(g)
  BY <1>2, SyncDirectoryRefines
<1>3. CASE ~Publish(g) /\ ~SyncDirectory(g)
  <2>1. StoreState' = StoreState
    <3>1. Create(g) \/ recoverable' = recoverable
      BY <1>3 DEF Prepare, Reuse, OpenFile, Write, Spill, Flush, Drain, Sync, Failure, Unwind, Unlock,
                  cacheFiles
    <3>2. CASE recoverable' = recoverable
      <4>1. (CacheIInv => StoreState = Seen(recoverable))'
        BY StoreIsSeen, PTL
      <4> QED
        BY <3>2, <4>1, StoreIsSeen DEF Seen
    <3>3. CASE Create(g)
      BY <3>3 DEF Create, truncate, Relink, temporary, StoreState, exists, CacheIInv, CacheTypeOK,
                  FilesTypeOK, Entries
    <3> QED
      BY <3>1, <3>2, <3>3
  <2>2. \/ stand' = stand
        \/ \E to \in Alive \cup {"failed"} : stand' = [stand EXCEPT ![g] = to]
    BY <1>3 DEF Prepare, Reuse, Create, Write, Spill, Flush, Sync, Failure, Unwind, Unlock,
                process, Goto, Alive
  <2> QED
    BY <2>1, <2>2, ForgetRefines, SilentRefines DEF Alive, Process, CacheIInv
<1> QED
  BY <1>1, <1>2, <1>3

\* The cache implements the store: readers find it absent or complete, and a
\* generator reports what no crash can take back.
THEOREM CacheImplementation == CacheSpec => ImplementsStore
<1>1. ASSUME CacheIInv, CacheIInv', [CacheNext]_cacheVars PROVE [Store!Next]_(Store!vars)
  <2>1. ASSUME NEW p \in Process, Read(p) PROVE [Store!Next]_(Store!vars)
    <3>1. StoreState' = StoreState
      BY <2>1 DEF Read, ReadChunk, finish, cacheFiles, StoreState, exists
    <3> QED
      BY <1>1, <2>1, <3>1, ReadRefines
  <2>2. ASSUME NEW g \in Generator, Prepare(g) PROVE [Store!Next]_(Store!vars)
    BY <1>1, <2>2, PrepareRefines
  <2>3. ASSUME NEW p \in Process,
               \/ Kill(p) \/ OpenReader(p) \/ OpenMissing(p) \/ Acquire(p) \/ Busy(p)
        PROVE  [Store!Next]_(Store!vars)
    <3>1. StoreState' = StoreState
      BY <2>3 DEF Kill, OpenReader, OpenFile, OpenMissing, Acquire, Busy, cacheFiles, StoreState, exists
    <3>2. \E to \in Alive \cup {"failed", "killed"} : stand' = [stand EXCEPT ![p] = to]
      BY <2>3 DEF Kill, OpenReader, OpenMissing, Acquire, Busy, StartProcess, Alive
    <3> QED
      BY <1>1, <3>1, <3>2, ForgetRefines DEF Alive, CacheIInv
  <2>4. CASE Crash
    BY <1>1, <2>4, CrashRefines DEF Store!Next
  <2>5. CASE UNCHANGED cacheVars
    <3>1. StoreState' = StoreState /\ stand' = stand
      BY <2>5 DEF cacheVars, cacheFiles, process, StoreState, exists
    <3> QED
      BY <3>1, SilentRefines
  <2> QED
    BY <1>1, <2>1, <2>2, <2>3, <2>4, <2>5 DEF CacheNext, Exhausted, Proceed, Process
<1> QED
  BY <1>1, StoreInitRefines, CacheInvariance, PTL DEF CacheSpec, ImplementsStore, Store!Spec

-----------------------------------------------------------------------------
(***************************************************************************)
(* submit, for any processes that call it and die, any number of jobs, of  *)
(* chains and of jobs that Slurm accepts.                                  *)
(*                                                                         *)
(* Neither property is inductive.  A call decides by what it read when it  *)
(* took the lock: SubmitIInv says what this still tells of Slurm's queue   *)
(* while the call runs (CandidateInv), what the call has done so far       *)
(* (CallInv, ManifestInv), and how the jobs of a pool hang together as     *)
(* long as none is submitted again (LinkInv, PreviousInv).                 *)
(***************************************************************************)

Submitted(j) == \E i \in DOMAIN queue : queue[i].job = j

\* The job that a call submitted last in the pool it is at.
last(c) == previous[c][pool(index[c])]

CallInv ==
  \A c \in Caller : IF at[c] = "out" THEN index[c] = 0 ELSE
    /\ lockOwner = c
    /\ at[c] \in {"sbatch", "reply"} => index[c] \in ManifestJob /\ Ambiguous(index[c])
    /\ at[c] = "sbatch" => Len(queue) < MaxIds /\ known[c][index[c]] # "active"
    /\ at[c] = "reply" => last(c) \in DOMAIN queue /\ queue[last(c)].job = index[c]

ReceiptInv ==
  \A j \in ManifestJob : receipt[j].id # NoId =>
    receipt[j].id \in DOMAIN queue /\ queue[receipt[j].id].job = j

\* Of the jobs a call has before it, those that are active it found active.
CandidateInv ==
  \A c \in Caller, i \in DOMAIN queue : at[c] # "out" /\ NotTerminal(i) =>
    /\ queue[i].job >= index[c] /\ at[c] # "reply" => known[c][queue[i].job] = "active"
    /\ queue[i].job > index[c] => known[c][queue[i].job] = "active"
    /\ queue[i].job = index[c] /\ at[c] = "reply" => i = last(c)

\* No job was submitted twice.
NoneAgain == \A i, k \in DOMAIN queue : queue[i].job = queue[k].job => i = k

\* What a call leaves behind it was submitted at some time; so Slurm's queue
\* begins like the manifest.
ManifestInv ==
  /\ \A j \in ManifestJob : complete[j] => Submitted(j)
  /\ \A c \in Caller, j \in ManifestJob :
       at[c] # "out" /\ (j < index[c] \/ known[c][j] # "none") => Submitted(j)
  /\ NoneAgain => \A i \in DOMAIN queue : queue[i].job = i - 1

SamePool(i, k) == pool(queue[i].job) = pool(queue[k].job)

\* A job depends on the last of its pool that was active, and what has
\* started found those before it ended.
LinkInv ==
  NoneAgain =>
    /\ \A k \in DOMAIN queue : queue[k].after # NoId =>
         queue[k].after \in 1 .. k - 1 /\ SamePool(queue[k].after, k)
    /\ \A i, k \in DOMAIN queue : i < k /\ SamePool(i, k) /\ NotTerminal(i) =>
         i <= queue[k].after /\ queue[k].state = "pending"

\* So will the next one.
PreviousInv ==
  NoneAgain =>
    \A c \in Caller, p \in Pool : at[c] # "out" =>
      /\ previous[c][p] # NoId =>
           previous[c][p] \in DOMAIN queue /\ pool(queue[previous[c][p]].job) = p
      /\ \A i \in DOMAIN queue : pool(queue[i].job) = p /\ NotTerminal(i) =>
           i <= previous[c][p]

SubmitIInv ==
  /\ SubmitTypeOK /\ CallInv /\ ReceiptInv /\ CandidateInv
  /\ NoneForgotten /\ NeverDuplicated
  /\ ManifestInv /\ LinkInv /\ PreviousInv

-----------------------------------------------------------------------------
(* Numbers, queues and chains                                              *)

\* Of the numbers in a bounded set one is the largest.
LEMMA Largest ==
  ASSUME NEW n \in Nat, NEW T \in SUBSET (0 .. n), T # {}
  PROVE  \E x \in T : \A y \in T : y <= x
<1> DEFINE U == {x \in 0 .. n : n - x \in T}
<1>1. U \in SUBSET Nat /\ U # {}
  <2>1. PICK t \in T : TRUE
    OBVIOUS
  <2>2. n - t \in 0 .. n /\ n - (n - t) = t
    OBVIOUS
  <2> QED
    BY <2>1, <2>2
<1>2. PICK u \in U : \A v \in U : u <= v
  <2> HIDE DEF U
  <2> QED
    BY <1>1, Smallest
<1>3. n - u \in T /\ \A t \in T : t <= n - u
  <2> SUFFICES ASSUME NEW t \in T PROVE t <= n - u
    BY <1>2
  <2>1. n - t \in U
    OBVIOUS
  <2> QED
    BY <1>2, <2>1
<1> QED
  BY <1>3

LEMMA PoolOfJob == ASSUME NEW j \in ManifestJob PROVE pool(j) \in Pool
  BY ChainAssumption DEF ManifestJob, Pool, pool

LEMMA QueueOfJobs ==
  ASSUME SubmitTypeOK
  PROVE  /\ DOMAIN queue = 1 .. Len(queue) /\ Len(queue) \in Nat /\ Len(queue) <= MaxIds
         /\ \A i \in DOMAIN queue : queue[i] \in SlurmJob /\ queue[i].job \in ManifestJob
<1>1. /\ Len(queue) \in Nat /\ DOMAIN queue = 1 .. Len(queue)
      /\ queue \in [1 .. Len(queue) -> SlurmJob]
  BY LenProperties DEF SubmitTypeOK
<1>2. ASSUME NEW i \in 1 .. Len(queue)
      PROVE  queue[i] \in SlurmJob /\ queue[i].job \in ManifestJob
  <2>1. queue[i] \in SlurmJob
    BY <1>1
  <2> QED
    BY <2>1 DEF SlurmJob
<1> QED
  BY <1>1, <1>2 DEF SubmitTypeOK

\* A job in the queue changes its state.
LEMMA QueueChanges ==
  ASSUME queue \in Seq(SlurmJob), NEW id \in DOMAIN queue,
         NEW to \in {"pending", "running"} \cup Terminal,
         queue' = [queue EXCEPT ![id].state = to]
  PROVE  /\ queue' \in Seq(SlurmJob)
         /\ Len(queue') = Len(queue) /\ DOMAIN queue' = DOMAIN queue
         /\ \A i \in DOMAIN queue :
              /\ queue'[i].job = queue[i].job
              /\ queue'[i].after = queue[i].after
              /\ queue'[i].state = IF i = id THEN to ELSE queue[i].state
<1>1. queue \in [1 .. Len(queue) -> SlurmJob] /\ Len(queue) \in Nat /\ DOMAIN queue = 1 .. Len(queue)
  BY SeqDef
<1>2. queue[id] \in SlurmJob
  BY <1>1
<1> DEFINE new == [queue[id] EXCEPT !.state = to]
<1>3. new \in SlurmJob /\ new.job = queue[id].job /\ new.after = queue[id].after /\ new.state = to
  BY <1>2 DEF SlurmJob
<1>4. queue' = [queue EXCEPT ![id] = new]
  OBVIOUS
<1> HIDE DEF new
<1>5. queue' \in [1 .. Len(queue) -> SlurmJob]
  BY <1>1, <1>3, <1>4
<1>6. queue' \in Seq(SlurmJob) /\ Len(queue') = Len(queue)
  BY <1>1, <1>5, SeqDef
<1> QED
  BY <1>1, <1>3, <1>4, <1>5, <1>6

\* Slurm accepts a job.
LEMMA QueueGrows ==
  ASSUME queue \in Seq(SlurmJob), NEW new \in SlurmJob, queue' = Append(queue, new)
  PROVE  /\ queue' \in Seq(SlurmJob)
         /\ Len(queue') = Len(queue) + 1
         /\ Len(queue) \in Nat
         /\ DOMAIN queue = 1 .. Len(queue)
         /\ DOMAIN queue' = 1 .. Len(queue) + 1
         /\ \A i \in DOMAIN queue : queue'[i] = queue[i]
         /\ queue'[Len(queue) + 1] = new
  BY AppendProperties, LenProperties

\* What a receipt says of a job in a state that the accounting knows.
LEMMA AccountingKnows ==
  ASSUME ReceiptInv, NEW j \in ManifestJob
  PROVE  /\ Accounting(j) \in {"none", "active", "terminal"}
         /\ Accounting(j) = "active" <=>
              receipt[j].id # NoId /\ NotTerminal(receipt[j].id)
         /\ Accounting(j) # "none" => Submitted(j)
  BY DEF Accounting, ReceiptInv, Submitted

-----------------------------------------------------------------------------
(* The steps                                                               *)

LEMMA InitEstablishesSubmitIInv == SubmitInit => SubmitIInv
<1> SUFFICES ASSUME SubmitInit PROVE SubmitIInv
  OBVIOUS
<1> USE DEF SubmitInit
<1>1. queue \in Seq(SlurmJob) /\ Len(queue) = 0 /\ DOMAIN queue = {}
  BY EmptySeq
<1>2. SubmitTypeOK
  BY <1>1, ChainAssumption, SubmitBoundAssumption DEF SubmitTypeOK, Receipt, Unknown, Unchained, ManifestJob
<1>3. CallInv /\ ReceiptInv /\ CandidateInv /\ NoneForgotten /\ NeverDuplicated
  BY <1>1 DEF CallInv, ReceiptInv, CandidateInv, NoneForgotten, NeverDuplicated
<1>4. ManifestInv /\ LinkInv /\ PreviousInv
  BY <1>1 DEF ManifestInv, LinkInv, PreviousInv
<1> QED
  BY <1>2, <1>3, <1>4 DEF SubmitIInv

\* A job of Slurm's starts, which it may, or ends.
LEMMA SlurmKeepsSubmitIInv ==
  ASSUME SubmitIInv, NEW id \in DOMAIN queue, NEW to \in {"running"} \cup Terminal,
         queue' = [queue EXCEPT ![id].state = to],
         \/ to = "running" /\ queue[id].state = "pending" /\ Eligible(id)
         \/ to \in Terminal /\ queue[id].state = "running",
         complete' \in [ManifestJob -> BOOLEAN],
         \A j \in ManifestJob : complete'[j] => complete[j] \/ j = queue[id].job,
         UNCHANGED <<lockOwner, receipt, call>>
  PROVE  SubmitIInv'
<1> USE DEF SubmitIInv
<1>1. /\ queue' \in Seq(SlurmJob)
      /\ Len(queue') = Len(queue) /\ DOMAIN queue' = DOMAIN queue
      /\ \A i \in DOMAIN queue :
           /\ queue'[i].job = queue[i].job
           /\ queue'[i].after = queue[i].after
           /\ queue'[i].state = IF i = id THEN to ELSE queue[i].state
  BY QueueChanges DEF SubmitTypeOK
<1>2. \A i \in DOMAIN queue : NotTerminal(i)' => NotTerminal(i)
  BY <1>1 DEF NotTerminal, Terminal
<1>3. DOMAIN queue = 1 .. Len(queue) /\ Len(queue) \in Nat
  BY LenProperties DEF SubmitTypeOK
<1>4. SubmitTypeOK'
  BY <1>1 DEF SubmitTypeOK, call
<1>5. CallInv'
  BY <1>1 DEF CallInv, Ambiguous, last, call
<1>6. ReceiptInv'
  BY <1>1 DEF ReceiptInv
<1>7. CandidateInv'
  BY <1>1, <1>2 DEF CandidateInv, last, call
<1>8. NoneForgotten' /\ NeverDuplicated'
  BY <1>1, <1>2 DEF NoneForgotten, NeverDuplicated, Ambiguous
<1>9. \A j : Submitted(j)' <=> Submitted(j)
  BY <1>1 DEF Submitted
<1>10. NoneAgain' <=> NoneAgain
  BY <1>1 DEF NoneAgain
<1>11. ManifestInv'
  <2>1. Submitted(queue[id].job)
    BY DEF Submitted
  <2> QED
    BY <1>1, <1>9, <1>10, <2>1 DEF ManifestInv, call
<1>12. LinkInv'
  <2> SUFFICES ASSUME NoneAgain PROVE LinkInv'
    BY <1>10 DEF LinkInv
  <2>1. \A k \in DOMAIN queue : queue[k].after # NoId =>
          queue[k].after \in 1 .. k - 1 /\ SamePool(queue[k].after, k)
    BY DEF LinkInv
  <2>2. \A i, k \in DOMAIN queue : SamePool(i, k)' <=> SamePool(i, k)
    BY <1>1 DEF SamePool
  <2>3. ASSUME NEW k \in DOMAIN queue, queue[k].after # NoId
        PROVE  queue[k].after \in 1 .. k - 1 /\ SamePool(queue[k].after, k)'
    <3>1. queue[k].after \in 1 .. k - 1 /\ queue[k].after \in DOMAIN queue
      BY <2>1, <2>3, <1>3
    <3>2. SamePool(queue[k].after, k)
      BY <2>1, <2>3
    <3>3. queue'[queue'[k].after].job = queue[queue[k].after].job
      BY <3>1, <1>1
    <3> QED
      BY <3>1, <3>2, <3>3, <1>1 DEF SamePool
  <2>4. ASSUME NEW i \in DOMAIN queue, NEW k \in DOMAIN queue,
               i < k, SamePool(i, k), NotTerminal(i)
        PROVE  i <= queue[k].after /\ queue[k].state = "pending"
    BY <2>4 DEF LinkInv
  <2>5. ASSUME NEW i \in DOMAIN queue, i < id, SamePool(i, id), NotTerminal(i)
        PROVE  FALSE
    <3>1. i <= queue[id].after /\ queue[id].state = "pending"
      BY <2>4, <2>5
    <3>2. queue[id].after # NoId
      BY <3>1, <1>3 DEF NoId
    <3>3. queue[id].after \in DOMAIN queue /\ SamePool(queue[id].after, id)
      BY <2>1, <3>2, <1>3
    <3>4. queue[queue[id].after].state \in Terminal
      BY <3>1, <3>3 DEF Eligible, Terminal
    <3>5. i # queue[id].after /\ queue[queue[id].after].state # "pending"
      BY <2>5, <3>4 DEF NotTerminal, Terminal
    <3>6. i < queue[id].after
      BY <3>1, <3>3, <3>5, <1>3
    <3>7. SamePool(i, queue[id].after)
      BY <2>5, <3>3 DEF SamePool
    <3> QED
      BY <2>4, <2>5, <3>3, <3>5, <3>6, <3>7
  <2>6. ASSUME NEW i \in DOMAIN queue, NEW k \in DOMAIN queue,
               i < k, SamePool(i, k), NotTerminal(i)'
        PROVE  i <= queue'[k].after /\ queue'[k].state = "pending"
    BY <1>1, <1>2, <2>4, <2>5, <2>6
  <2> QED
    BY <1>1, <2>2, <2>3, <2>6 DEF LinkInv
<1>13. PreviousInv'
  BY <1>1, <1>2, <1>10 DEF PreviousInv, call
<1> QED
  BY <1>4, <1>5, <1>6, <1>7, <1>8, <1>11, <1>12, <1>13


\* What a call finds for a chain when nothing is ambiguous.
LEMMA LastActiveIsLast ==
  ASSUME SubmitIInv, \A j \in ManifestJob : ~Ambiguous(j), NEW p \in Pool
  PROVE  /\ LastActive(p) \in Id \cup {NoId}
         /\ LastActive(p) # NoId =>
              LastActive(p) \in DOMAIN queue /\ pool(queue[LastActive(p)].job) = p
         /\ NoneAgain => \A i \in DOMAIN queue :
              pool(queue[i].job) = p /\ NotTerminal(i) => i <= LastActive(p)
<1> USE DEF SubmitIInv
<1>1. /\ DOMAIN queue = 1 .. Len(queue) /\ Len(queue) \in Nat /\ Len(queue) <= MaxIds
      /\ \A i \in DOMAIN queue : queue[i].job \in ManifestJob
  BY QueueOfJobs
<1> DEFINE active == {j \in ManifestJob : pool(j) = p /\ Accounting(j) = "active"}
<1>2. ASSUME NEW i \in DOMAIN queue, pool(queue[i].job) = p, NotTerminal(i)
      PROVE  queue[i].job \in active /\ receipt[queue[i].job].id = i
  <2>1. receipt[queue[i].job].id = i
    BY <1>1, <1>2 DEF NoneForgotten
  <2> QED
    BY <1>1, <1>2, <2>1 DEF Accounting, NoId
<1>3. CASE active = {}
  BY <1>2, <1>3 DEF LastActive
<1>4. CASE active # {}
  <2> DEFINE j == CHOOSE j \in active : \A k \in active : k <= j
  <2>1. j \in active /\ \A k \in active : k <= j
    <3>1. active \in SUBSET (0 .. JobCount) /\ JobCount \in Nat
      BY ChainAssumption DEF ManifestJob
    <3>2. \E k \in active : \A l \in active : l <= k
      <4> HIDE DEF active
      <4> QED
        BY <1>4, <3>1, Largest
    <3> HIDE DEF active
    <3> QED
      BY <3>2
  <2>2. LastActive(p) = receipt[j].id
    BY <1>4 DEF LastActive
  <2> HIDE DEF j
  <2>3. /\ receipt[j].id \in DOMAIN queue /\ queue[receipt[j].id].job = j
        /\ j \in ManifestJob /\ pool(j) = p
    BY <2>1 DEF Accounting, ReceiptInv
  <2>4. ASSUME NoneAgain, NEW i \in DOMAIN queue, pool(queue[i].job) = p, NotTerminal(i)
        PROVE  i <= receipt[j].id
    <3>1. queue[i].job <= queue[receipt[j].id].job
      BY <1>2, <2>1, <2>3, <2>4
    <3>2. queue[i].job = i - 1 /\ queue[receipt[j].id].job = receipt[j].id - 1
      BY <2>3, <2>4 DEF ManifestInv
    <3> QED
      BY <1>1, <2>3, <3>1, <3>2
  <2>5. receipt[j].id \in Id
    BY <1>1, <2>3, SubmitBoundAssumption DEF Id
  <2> HIDE DEF active
  <2> QED
    BY <2>2, <2>3, <2>4, <2>5
<1> QED
  BY <1>3, <1>4

\* One call at a time has the lock.
LEMMA OneCall ==
  ASSUME CallInv, NEW c \in Caller, NEW d \in Caller, at[c] # "out", at[d] # "out"
  PROVE  c = d
  BY DEF CallInv

LEMMA BeginKeepsSubmitIInv == ASSUME SubmitIInv, NEW c \in Caller, BeginCall(c) PROVE SubmitIInv'
<1> USE DEF SubmitIInv
<1>1. /\ at[c] = "out" /\ at' = [at EXCEPT ![c] = "loop"]
      /\ lockOwner = NoCaller /\ lockOwner' = c
      /\ \A j \in ManifestJob : ~Ambiguous(j)
      /\ known' = [known EXCEPT ![c] = [j \in ManifestJob |-> Accounting(j)]]
      /\ previous' = [previous EXCEPT ![c] = [p \in Pool |-> LastActive(p)]]
      /\ UNCHANGED <<receipt, queue, complete, index>>
      /\ \E again \in BOOLEAN : retry' = [retry EXCEPT ![c] = again]
  BY SubmitBoundAssumption DEF BeginCall, LockFree
<1>2. \A d \in Caller : at[d] = "out" /\ index[d] = 0
  BY <1>1, NoCallerAssumption DEF CallInv
<1>3. SubmitTypeOK'
  <2>1. \A j \in ManifestJob : Accounting(j) \in {"none", "active", "terminal"}
    BY AccountingKnows
  <2>2. \A p \in Pool : LastActive(p) \in Id \cup {NoId}
    BY <1>1, LastActiveIsLast
  <2> QED
    BY <1>1, <2>1, <2>2 DEF SubmitTypeOK
<1>4. CallInv'
  BY <1>1, <1>2 DEF CallInv, SubmitTypeOK
<1>5. ReceiptInv' /\ NoneForgotten' /\ NeverDuplicated'
  BY <1>1 DEF ReceiptInv, NoneForgotten, NeverDuplicated, NotTerminal, Ambiguous
<1>6. DOMAIN queue = 1 .. Len(queue) /\ Len(queue) \in Nat
      /\ \A i \in DOMAIN queue : queue[i].job \in ManifestJob
  BY QueueOfJobs
<1>7. CandidateInv'
  <2> SUFFICES ASSUME NEW i \in DOMAIN queue, NotTerminal(i)
               PROVE  known'[c][queue[i].job] = "active"
    BY <1>1, <1>2 DEF CandidateInv, NotTerminal, SubmitTypeOK
  <2>1. receipt[queue[i].job].id = i
    BY <1>1, <1>6 DEF NoneForgotten
  <2>2. Accounting(queue[i].job) = "active"
    BY <1>6, <2>1 DEF Accounting, NoId
  <2> QED
    BY <1>1, <1>6, <2>2 DEF SubmitTypeOK
<1>8. ManifestInv'
  <2>1. \A j \in ManifestJob : known'[c][j] # "none" => Submitted(j)
    BY <1>1, AccountingKnows DEF SubmitTypeOK
  <2> QED
    BY <1>1, <1>2, <2>1 DEF ManifestInv, Submitted, NoneAgain, SubmitTypeOK, ManifestJob
<1>9. LinkInv'
  BY <1>1 DEF LinkInv, NoneAgain, SamePool, NotTerminal
<1>10. PreviousInv'
  <2>1. \A p \in Pool : previous'[c][p] = LastActive(p)
    BY <1>1 DEF SubmitTypeOK
  <2>2. \A p \in Pool :
         /\ LastActive(p) # NoId =>
              LastActive(p) \in DOMAIN queue /\ pool(queue[LastActive(p)].job) = p
         /\ NoneAgain => \A i \in DOMAIN queue :
              pool(queue[i].job) = p /\ NotTerminal(i) => i <= LastActive(p)
    BY <1>1, LastActiveIsLast
  <2> QED
    BY <1>1, <1>2, <2>1, <2>2 DEF PreviousInv, NoneAgain, NotTerminal, SubmitTypeOK
<1> QED
  BY <1>3, <1>4, <1>5, <1>7, <1>8, <1>9, <1>10

\* The job is left alone: it is in the queue, or was.
LEMMA SkipKeepsSubmitIInv == ASSUME SubmitIInv, NEW c \in Caller, SkipJob(c) PROVE SubmitIInv'
<1> USE DEF SubmitIInv
<1>1. /\ at[c] = "loop" /\ index[c] \in ManifestJob /\ Left(c, index[c])
      /\ index' = [index EXCEPT ![c] = @ + 1]
      /\ UNCHANGED <<lockOwner, receipt, queue, complete, at, retry, known, previous>>
  BY ChainAssumption DEF SkipJob, SubmitTypeOK, ManifestJob
<1>2. SubmitTypeOK'
  BY <1>1, ChainAssumption DEF SubmitTypeOK, ManifestJob
<1>3. CallInv'
  BY <1>1 DEF CallInv, Ambiguous, last, SubmitTypeOK
<1>4. ReceiptInv' /\ NoneForgotten' /\ NeverDuplicated' /\ LinkInv' /\ PreviousInv'
  BY <1>1 DEF ReceiptInv, NoneForgotten, NeverDuplicated, NotTerminal, Ambiguous, LinkInv,
              PreviousInv, NoneAgain, SamePool
<1>5. \A i \in DOMAIN queue : queue[i].job \in ManifestJob
  BY QueueOfJobs
<1>6. CandidateInv'
  <2>1. ASSUME NEW d \in Caller, NEW i \in DOMAIN queue, at[d] # "out", NotTerminal(i)
        PROVE  /\ queue[i].job >= index'[d] /\ at[d] # "reply" =>
                    known[d][queue[i].job] = "active"
               /\ queue[i].job > index'[d] => known[d][queue[i].job] = "active"
               /\ queue[i].job = index'[d] /\ at[d] = "reply" => i = last(d)'
    <3>1. /\ queue[i].job >= index[d] /\ at[d] # "reply" => known[d][queue[i].job] = "active"
          /\ queue[i].job > index[d] => known[d][queue[i].job] = "active"
          /\ queue[i].job = index[d] /\ at[d] = "reply" => i = last(d)
      BY <2>1 DEF CandidateInv
    <3>2. /\ queue[i].job \in Int /\ index[d] \in Int
          /\ index'[d] = IF d = c THEN index[d] + 1 ELSE index[d]
      BY <1>1, <1>5 DEF SubmitTypeOK, ManifestJob
    <3>3. CASE d = c
      BY <1>1, <3>1, <3>2, <3>3
    <3>4. CASE d # c
      BY <1>1, <3>1, <3>2, <3>4 DEF last
    <3> QED
      BY <3>3, <3>4
  <2> QED
    BY <1>1, <2>1 DEF CandidateInv, NotTerminal
<1>7. Submitted(index[c])
  BY <1>1 DEF Left, ManifestInv
<1>8. ManifestInv'
  <2>1. \A j : Submitted(j)' <=> Submitted(j)
    BY <1>1 DEF Submitted
  <2>2. ASSUME NEW d \in Caller, NEW j \in ManifestJob, at[d] # "out",
               j < index'[d] \/ known[d][j] # "none"
        PROVE  Submitted(j)
    <3>1. j < index[d] \/ known[d][j] # "none" => Submitted(j)
      BY <2>2 DEF ManifestInv
    <3>2. d = c \/ index'[d] = index[d]
      BY <1>1 DEF SubmitTypeOK
    <3>3. d = c /\ j < index'[d] => j < index[c] \/ j = index[c]
      BY <1>1 DEF SubmitTypeOK, ManifestJob
    <3> QED
      BY <2>2, <3>1, <3>2, <3>3, <1>7
  <2>3. NoneAgain' <=> NoneAgain
    BY <1>1 DEF NoneAgain
  <2> QED
    BY <1>1, <2>1, <2>2, <2>3 DEF ManifestInv
<1> QED
  BY <1>2, <1>3, <1>4, <1>6, <1>8

\* The intent makes the job ambiguous before anybody can run it.
LEMMA IntendKeepsSubmitIInv == ASSUME SubmitIInv, NEW c \in Caller, Intend(c) PROVE SubmitIInv'
<1> USE DEF SubmitIInv
<1>1. /\ at[c] = "loop" /\ index[c] \in ManifestJob /\ known[c][index[c]] # "active"
      /\ Len(queue) < MaxIds
      /\ receipt' = [receipt EXCEPT ![index[c]] = [state |-> "submitting", id |-> NoId]]
      /\ at' = [at EXCEPT ![c] = "sbatch"]
      /\ UNCHANGED <<lockOwner, queue, complete, index, retry, known, previous>>
  BY ChainAssumption DEF Intend, Left, intent, SubmitTypeOK, ManifestJob
<1>2. SubmitTypeOK'
  BY <1>1 DEF SubmitTypeOK, Receipt
<1>3. \A d \in Caller : at[d] # "out" => d = c
  BY <1>1, OneCall
<1>4. Ambiguous(index[c])' /\ \A j \in ManifestJob \ {index[c]} : receipt'[j] = receipt[j]
  BY <1>1 DEF Ambiguous, SubmitTypeOK
<1>5. CallInv'
  BY <1>1, <1>3, <1>4 DEF CallInv, Ambiguous, SubmitTypeOK
<1>6. ReceiptInv'
  BY <1>1 DEF ReceiptInv, SubmitTypeOK
<1>7. \A i \in DOMAIN queue : queue[i].job \in ManifestJob
  BY QueueOfJobs
<1>8. NoneForgotten'
  BY <1>1, <1>4, <1>7 DEF NoneForgotten, NotTerminal, Ambiguous
<1>9. NeverDuplicated' /\ LinkInv'
  BY <1>1 DEF NeverDuplicated, NotTerminal, LinkInv, NoneAgain, SamePool
<1>10. CandidateInv' /\ ManifestInv' /\ PreviousInv'
  BY <1>1 DEF CandidateInv, ManifestInv, PreviousInv, Submitted, NotTerminal, NoneAgain,
              last, SubmitTypeOK
<1> QED
  BY <1>2, <1>5, <1>6, <1>8, <1>9, <1>10

\* The number of the accepted job is recorded.
LEMMA RecordKeepsSubmitIInv == ASSUME SubmitIInv, NEW c \in Caller, Record(c) PROVE SubmitIInv'
<1> USE DEF SubmitIInv
<1>1. /\ at[c] = "reply" /\ at' = [at EXCEPT ![c] = "loop"]
      /\ receipt' = [receipt EXCEPT ![index[c]] = [state |-> "submitted", id |-> last(c)]]
      /\ index' = [index EXCEPT ![c] = @ + 1]
      /\ UNCHANGED <<lockOwner, queue, complete, retry, known, previous>>
  BY DEF Record, last
<1>2. /\ index[c] \in ManifestJob /\ last(c) \in DOMAIN queue /\ queue[last(c)].job = index[c]
  BY <1>1 DEF CallInv
<1>3. /\ DOMAIN queue = 1 .. Len(queue) /\ Len(queue) \in Nat /\ Len(queue) <= MaxIds
      /\ \A i \in DOMAIN queue : queue[i].job \in ManifestJob
  BY QueueOfJobs
<1>4. last(c) \in Id /\ last(c) # NoId
  BY <1>2, <1>3, SubmitBoundAssumption DEF Id, NoId
<1>5. SubmitTypeOK'
  BY <1>1, <1>2, <1>4, ChainAssumption DEF SubmitTypeOK, Receipt, ManifestJob
<1>6. \A d \in Caller : at[d] # "out" => d = c
  BY <1>1, OneCall
<1>7. CallInv'
  BY <1>1, <1>6 DEF CallInv, SubmitTypeOK
<1>8. ReceiptInv'
  BY <1>1, <1>2 DEF ReceiptInv, SubmitTypeOK
<1>9. NoneForgotten'
  <2> SUFFICES ASSUME NEW i \in DOMAIN queue, NotTerminal(i)
               PROVE  Ambiguous(queue[i].job)' \/ receipt'[queue[i].job].id = i
    BY <1>1 DEF NoneForgotten, NotTerminal, Ambiguous
  <2>1. CASE queue[i].job = index[c]
    BY <1>1, <1>2, <2>1 DEF CandidateInv, SubmitTypeOK
  <2>2. CASE queue[i].job # index[c]
    BY <1>1, <1>2, <1>3, <2>2 DEF NoneForgotten, Ambiguous, SubmitTypeOK
  <2> QED
    BY <2>1, <2>2
<1>10. NeverDuplicated' /\ LinkInv' /\ PreviousInv'
  BY <1>1 DEF NeverDuplicated, NotTerminal, LinkInv, PreviousInv, NoneAgain, SamePool, SubmitTypeOK
<1>11. CandidateInv'
  BY <1>1, <1>3, <1>6 DEF CandidateInv, NotTerminal, SubmitTypeOK, ManifestJob
<1>12. Submitted(index[c])
  BY <1>2 DEF Submitted
<1>13. ManifestInv'
  <2>1. \A j : Submitted(j)' <=> Submitted(j)
    BY <1>1 DEF Submitted
  <2>2. /\ \A j \in ManifestJob : complete'[j] => Submitted(j)'
        /\ NoneAgain' => \A i \in DOMAIN queue' : queue'[i].job = i - 1
    BY <1>1, <2>1 DEF ManifestInv, NoneAgain
  <2>3. ASSUME NEW d \in Caller, NEW j \in ManifestJob,
               at'[d] # "out", j < index'[d] \/ known'[d][j] # "none"
        PROVE  Submitted(j)
    <3>1. d = c /\ known' = known
      BY <1>1, <1>6, <2>3 DEF SubmitTypeOK
    <3>2. index'[c] = index[c] + 1 /\ index[c] \in Int /\ j \in Int
      BY <1>1, <1>2 DEF SubmitTypeOK, ManifestJob
    <3>3. j < index[c] \/ j = index[c] \/ known[c][j] # "none"
      BY <2>3, <3>1, <3>2
    <3> QED
      BY <1>1, <1>12, <3>3 DEF ManifestInv
  <2> QED
    BY <2>1, <2>2, <2>3 DEF ManifestInv
<1> QED
  BY <1>5, <1>7, <1>8, <1>9, <1>10, <1>11, <1>13

LEMMA LeaveKeepsSubmitIInv == ASSUME SubmitIInv, NEW c \in Caller, LeaveCall(c) PROVE SubmitIInv'
<1> USE DEF SubmitIInv
<1>1. /\ at' = [at EXCEPT ![c] = "out"] /\ index' = [index EXCEPT ![c] = 0]
      /\ retry' = [retry EXCEPT ![c] = FALSE]
      /\ known' = [known EXCEPT ![c] = Unknown]
      /\ previous' = [previous EXCEPT ![c] = Unchained]
      /\ lockOwner' \in {lockOwner, NoCaller}
      /\ UNCHANGED <<receipt, queue, complete>>
      /\ at[c] # "out"
  BY DEF LeaveCall
<1>2. \A d \in Caller : at'[d] = "out" /\ (d # c => index[d] = 0)
  BY <1>1, OneCall DEF SubmitTypeOK, CallInv
<1>3. SubmitTypeOK'
  BY <1>1, ChainAssumption DEF SubmitTypeOK, Unknown, Unchained
<1>4. CallInv'
  BY <1>1, <1>2 DEF CallInv, SubmitTypeOK
<1>5. ReceiptInv' /\ NoneForgotten' /\ NeverDuplicated' /\ LinkInv'
  BY <1>1 DEF ReceiptInv, NoneForgotten, NeverDuplicated, NotTerminal, Ambiguous, LinkInv,
              NoneAgain, SamePool
<1>6. CandidateInv' /\ ManifestInv' /\ PreviousInv'
  BY <1>1, <1>2 DEF CandidateInv, ManifestInv, PreviousInv, Submitted, NoneAgain
<1> QED
  BY <1>3, <1>4, <1>5, <1>6


\* Slurm accepts a job that nobody else has it run.
LEMMA SbatchKeepsSubmitIInv == ASSUME SubmitIInv, NEW c \in Caller, Sbatch(c) PROVE SubmitIInv'
<1> USE DEF SubmitIInv
<1> DEFINE p == pool(index[c])
<1> DEFINE new == [job |-> index[c], after |-> previous[c][p], state |-> "pending"]
<1>0. PICK k : k = Len(queue) + 1
  OBVIOUS
<1>1. /\ at[c] = "sbatch" /\ at' = [at EXCEPT ![c] = "reply"]
      /\ queue' = Append(queue, new)
      /\ previous' = [previous EXCEPT ![c][p] = Len(queue')]
      /\ UNCHANGED <<lockOwner, receipt, complete, index, retry, known>>
  BY DEF Sbatch
<1>2. /\ index[c] \in ManifestJob /\ Ambiguous(index[c]) /\ Len(queue) < MaxIds
      /\ known[c][index[c]] # "active"
      /\ index[c] \in 0 .. JobCount
  BY <1>1 DEF CallInv, SubmitTypeOK
<1>3. p \in Pool /\ previous[c][p] \in Id \cup {NoId}
  BY <1>2, PoolOfJob DEF SubmitTypeOK
<1>4. new \in SlurmJob
  BY <1>2, <1>3 DEF SlurmJob
<1>5. new.job = index[c] /\ new.after = previous[c][p] /\ new.state = "pending"
  OBVIOUS
<1> HIDE DEF new
<1>6. /\ queue' \in Seq(SlurmJob) /\ Len(queue') = k
      /\ Len(queue) \in Nat /\ DOMAIN queue = 1 .. Len(queue)
      /\ DOMAIN queue' = 1 .. k
      /\ \A i \in DOMAIN queue : queue'[i] = queue[i]
      /\ queue'[k] = new
  BY <1>0, <1>1, <1>4, QueueGrows DEF SubmitTypeOK
<1>7. \A i \in DOMAIN queue : queue[i].job \in ManifestJob
  BY QueueOfJobs
<1>8. /\ \A i \in DOMAIN queue : NotTerminal(i)' <=> NotTerminal(i)
      /\ NotTerminal(k)' /\ queue'[k].job = index[c] /\ queue'[k].state = "pending"
      /\ queue'[k].after = previous[c][p]
      /\ k \in 1 .. MaxIds /\ k # NoId
      /\ DOMAIN queue' = DOMAIN queue \cup {k}
      /\ \A i \in DOMAIN queue : i < k
  BY <1>0, <1>2, <1>5, <1>6, SubmitBoundAssumption DEF NotTerminal, Terminal, NoId
<1>9. /\ previous' = [previous EXCEPT ![c] = [previous[c] EXCEPT ![p] = k]]
      /\ previous'[c][p] = k /\ \A q \in Pool \ {p} : previous'[c][q] = previous[c][q]
      /\ \A d \in Caller \ {c} : previous'[d] = previous[d]
  BY <1>1, <1>3, <1>6 DEF SubmitTypeOK
<1>10. \A d \in Caller : at[d] # "out" => d = c
  BY <1>1, OneCall
<1> HIDE DEF p
<1>11. SubmitTypeOK'
  <2>1. previous' \in [Caller -> [Pool -> Id \cup {NoId}]]
    BY <1>3, <1>8, <1>9 DEF SubmitTypeOK, Id
  <2>2. Len(queue') <= MaxIds
    BY <1>6, <1>8
  <2> QED
    BY <1>1, <1>6, <2>1, <2>2 DEF SubmitTypeOK
<1>12. last(c)' = k
  BY <1>1, <1>9 DEF last, p, pool
<1>13. CallInv'
  BY <1>1, <1>2, <1>8, <1>10, <1>12 DEF CallInv, Ambiguous, SubmitTypeOK
<1>14. ReceiptInv'
  BY <1>1, <1>6, <1>8 DEF ReceiptInv
<1>15. \* No active job does what the new one will.
       \A i \in DOMAIN queue : NotTerminal(i) => queue[i].job # index[c]
  BY <1>1, <1>2 DEF CandidateInv, ManifestJob
<1>16. CandidateInv'
  <2> SUFFICES ASSUME NEW i \in DOMAIN queue', NotTerminal(i)'
               PROVE  /\ queue'[i].job > index[c] => known[c][queue'[i].job] = "active"
                      /\ queue'[i].job = index[c] => i = k
    BY <1>1, <1>10, <1>12 DEF CandidateInv, SubmitTypeOK
  <2>1. CASE i = k
    BY <2>1, <1>2, <1>8
  <2>2. CASE i \in DOMAIN queue
    BY <2>2, <1>1, <1>6, <1>8, <1>15 DEF CandidateInv
  <2> QED
    BY <2>1, <2>2, <1>8
<1>17. NoneForgotten'
  <2> SUFFICES ASSUME NEW i \in DOMAIN queue', NotTerminal(i)'
               PROVE  Ambiguous(queue'[i].job) \/ receipt[queue'[i].job].id = i
    BY <1>1 DEF NoneForgotten, Ambiguous
  <2> QED
    BY <1>2, <1>6, <1>8 DEF NoneForgotten
<1>18. NeverDuplicated'
  BY <1>6, <1>8, <1>15 DEF NeverDuplicated
<1>19. NoneAgain' => /\ NoneAgain
                     /\ \A i \in DOMAIN queue : queue[i].job # index[c]
  BY <1>6, <1>8 DEF NoneAgain
<1>20. \* The queue begins like the manifest, and this job is the next.
       NoneAgain' => index[c] = k - 1
  <2> SUFFICES ASSUME NoneAgain' PROVE index[c] = Len(queue)
    BY <1>0, <1>6
  <2>1. \A i \in DOMAIN queue : queue[i].job = i - 1 /\ queue[i].job # index[c]
    BY <1>19 DEF ManifestInv
  <2>2. ~ (index[c] < Len(queue))
    <3> SUFFICES ASSUME index[c] < Len(queue) PROVE FALSE
      OBVIOUS
    <3>1. index[c] + 1 \in DOMAIN queue /\ index[c] + 1 - 1 = index[c]
      BY <1>2, <1>6
    <3> QED
      BY <2>1, <3>1, <1>2
  <2>3. ~ (Len(queue) < index[c])
    <3> SUFFICES ASSUME Len(queue) < index[c] PROVE FALSE
      OBVIOUS
    <3>1. Len(queue) \in ManifestJob
      BY <1>2, <1>6, ChainAssumption DEF ManifestJob
    <3>2. Submitted(Len(queue))
      BY <1>1, <3>1 DEF ManifestInv
    <3>3. PICK i \in DOMAIN queue : queue[i].job = Len(queue)
      BY <3>2 DEF Submitted
    <3> QED
      BY <2>1, <3>3, <1>6
  <2> QED
    BY <2>2, <2>3, <1>2, <1>6
<1>21. ManifestInv'
  <2>1. \A j : Submitted(j) => Submitted(j)'
    BY <1>6, <1>8 DEF Submitted
  <2>2. \A d \in Caller : at'[d] # "out" <=> at[d] # "out"
    BY <1>1 DEF SubmitTypeOK
  <2>3. NoneAgain' => \A i \in DOMAIN queue' : queue'[i].job = i - 1
    BY <1>6, <1>8, <1>19, <1>20 DEF ManifestInv
  <2> QED
    BY <1>1, <2>1, <2>2, <2>3 DEF ManifestInv
<1>22. \A i \in DOMAIN queue : /\ SamePool(i, k)' <=> pool(queue[i].job) = p
                               /\ \A l \in DOMAIN queue : SamePool(i, l)' <=> SamePool(i, l)
  BY <1>6, <1>8 DEF SamePool, p
<1>23. LinkInv'
  <2> SUFFICES ASSUME NoneAgain' PROVE LinkInv'
    BY DEF LinkInv
  <2>1. /\ previous[c][p] # NoId =>
             previous[c][p] \in DOMAIN queue /\ pool(queue[previous[c][p]].job) = p
        /\ \A i \in DOMAIN queue :
             pool(queue[i].job) = p /\ NotTerminal(i) => i <= previous[c][p]
    BY <1>1, <1>3, <1>19 DEF PreviousInv
  <2>2. ASSUME NEW l \in DOMAIN queue', queue'[l].after # NoId
        PROVE  queue'[l].after \in 1 .. l - 1 /\ pool(queue'[queue'[l].after].job) = pool(queue'[l].job)
    <3>1. CASE l = k
      <4>1. previous[c][p] \in DOMAIN queue /\ pool(queue[previous[c][p]].job) = p
        BY <2>1, <2>2, <3>1, <1>8
      <4>2. previous[c][p] \in 1 .. k - 1
        BY <4>1, <1>0, <1>6
      <4> QED
        BY <3>1, <4>1, <4>2, <1>6, <1>8 DEF p
    <3>2. CASE l \in DOMAIN queue
      <4>1. queue[l].after \in 1 .. l - 1 /\ SamePool(queue[l].after, l)
        BY <2>2, <3>2, <1>6, <1>19 DEF LinkInv
      <4>2. queue[l].after \in DOMAIN queue
        BY <4>1, <3>2, <1>6
      <4> QED
        BY <4>1, <4>2, <3>2, <1>6 DEF SamePool
    <3> QED
      BY <3>1, <3>2, <1>8
  <2>3. ASSUME NEW i \in DOMAIN queue', NEW l \in DOMAIN queue',
               i < l, SamePool(i, l)', NotTerminal(i)'
        PROVE  i <= queue'[l].after /\ queue'[l].state = "pending"
    <3>1. i \in DOMAIN queue
      BY <2>3, <1>0, <1>6
    <3>2. CASE l = k
      BY <2>1, <2>3, <3>1, <3>2, <1>8, <1>22
    <3>3. CASE l \in DOMAIN queue
      BY <2>3, <3>1, <3>3, <1>6, <1>8, <1>19, <1>22 DEF LinkInv
    <3> QED
      BY <3>2, <3>3, <1>8
  <2> QED
    BY <2>2, <2>3 DEF LinkInv, SamePool
<1>24. PreviousInv'
  <2> SUFFICES ASSUME NoneAgain', NEW q \in Pool
               PROVE  /\ previous'[c][q] # NoId =>
                           /\ previous'[c][q] \in DOMAIN queue'
                           /\ pool(queue'[previous'[c][q]].job) = q
                      /\ \A i \in DOMAIN queue' :
                           pool(queue'[i].job) = q /\ NotTerminal(i)' => i <= previous'[c][q]
    BY <1>1, <1>10 DEF PreviousInv, SubmitTypeOK, pool
  <2>1. CASE q = p
    BY <2>1, <1>6, <1>8, <1>9 DEF p
  <2>2. CASE q # p
    BY <2>2, <1>1, <1>6, <1>8, <1>9, <1>19 DEF PreviousInv, p
  <2> QED
    BY <2>1, <2>2
<1> QED
  BY <1>11, <1>13, <1>14, <1>16, <1>17, <1>18, <1>21, <1>23, <1>24


LEMMA NextKeepsSubmitIInv == SubmitIInv /\ [SubmitNext]_submitVars => SubmitIInv'
<1> SUFFICES ASSUME SubmitIInv, [SubmitNext]_submitVars PROVE SubmitIInv'
  OBVIOUS
<1>1. ASSUME NEW id \in Id, SlurmStarts(id) PROVE SubmitIInv'
  <2>1. id \in DOMAIN queue
    BY <1>1, QueueOfJobs, SubmitBoundAssumption DEF SlurmStarts, SubmitIInv, Id
  <2> QED
    BY <1>1, <2>1, SlurmKeepsSubmitIInv DEF SlurmStarts, SubmitIInv, SubmitTypeOK
<1>2. ASSUME NEW id \in Id, SlurmEnds(id) PROVE SubmitIInv'
  <2>1. id \in DOMAIN queue /\ queue[id].job \in ManifestJob
    BY <1>2, QueueOfJobs, SubmitBoundAssumption DEF SlurmEnds, SubmitIInv, Id
  <2>2. PICK to \in Terminal, all \in BOOLEAN :
          /\ queue' = [queue EXCEPT ![id].state = to]
          /\ complete' = [complete EXCEPT ![queue[id].job] = @ \/ all]
    BY <1>2 DEF SlurmEnds
  <2>3. complete' \in [ManifestJob -> BOOLEAN]
    BY <2>1, <2>2 DEF SubmitIInv, SubmitTypeOK
  <2>4. \A j \in ManifestJob : complete'[j] => complete[j] \/ j = queue[id].job
    BY <2>1, <2>2 DEF SubmitIInv, SubmitTypeOK
  <2> QED
    BY <1>2, <2>1, <2>2, <2>3, <2>4, SlurmKeepsSubmitIInv DEF SlurmEnds
<1>3. ASSUME NEW c \in Caller,
             BeginCall(c) \/ SkipJob(c) \/ Intend(c) \/ Sbatch(c) \/ Record(c) \/ LeaveCall(c)
      PROVE  SubmitIInv'
  BY <1>3, BeginKeepsSubmitIInv, SkipKeepsSubmitIInv, IntendKeepsSubmitIInv,
     SbatchKeepsSubmitIInv, RecordKeepsSubmitIInv, LeaveKeepsSubmitIInv
<1>4. CASE UNCHANGED submitVars
  <2>1. /\ NoneAgain' <=> NoneAgain
        /\ \A i : NotTerminal(i)' <=> NotTerminal(i)
        /\ \A j : Submitted(j)' <=> Submitted(j)
        /\ \A j : Ambiguous(j)' <=> Ambiguous(j)
        /\ UNCHANGED <<lockOwner, receipt, queue, complete, at, index, retry, known, previous>>
    BY <1>4 DEF submitVars, call, NoneAgain, NotTerminal, Submitted, Ambiguous
  <2>2. SubmitTypeOK' /\ CallInv' /\ ReceiptInv' /\ CandidateInv'
    BY <2>1 DEF SubmitIInv, SubmitTypeOK, CallInv, ReceiptInv, CandidateInv, last
  <2>3. NoneForgotten' /\ NeverDuplicated' /\ ManifestInv' /\ LinkInv' /\ PreviousInv'
    BY <2>1 DEF SubmitIInv, NoneForgotten, NeverDuplicated, ManifestInv, LinkInv, PreviousInv,
                SamePool
  <2> QED
    BY <2>2, <2>3 DEF SubmitIInv
<1> QED
  BY <1>1, <1>2, <1>3, <1>4 DEF SubmitNext, RefuseCall

LEMMA SubmitInvariance == SubmitSpec => []SubmitIInv
  BY InitEstablishesSubmitIInv, NextKeepsSubmitIInv, PTL DEF SubmitSpec

\* The variables have their types, and a call's loop stays in the manifest.
THEOREM TypeCorrect == SubmitSpec => []SubmitTypeOK
<1>1. SubmitIInv => SubmitTypeOK
  BY DEF SubmitIInv
<1> QED
  BY <1>1, SubmitInvariance, PTL

\* However often submit is called, wherever it dies and whatever Slurm does:
\* no two jobs that are waiting or running do the same work.
THEOREM WorkedOnOnce == SubmitSpec => []NeverDuplicated
<1>1. SubmitIInv => NeverDuplicated
  BY DEF SubmitIInv
<1> QED
  BY <1>1, SubmitInvariance, PTL

\* A job that waits or runs is the one its receipt names, or its receipt says
\* that it may exist.
THEOREM ReceiptsRemember == SubmitSpec => []NoneForgotten
<1>1. SubmitIInv => NoneForgotten
  BY DEF SubmitIInv
<1> QED
  BY <1>1, SubmitInvariance, PTL

\* As long as no job is submitted again, the jobs of a pool run one at a time,
\* whichever calls submitted them and however these ended.
THEOREM ResumedInOrder == SubmitSpec => []ChainsResumed
<1>1. SubmitIInv => ChainsResumed
  <2> SUFFICES ASSUME SubmitIInv, NoneAgain,
                      NEW i \in DOMAIN queue, NEW k \in DOMAIN queue,
                      queue[i].state = "running", queue[k].state = "running",
                      SamePool(i, k)
               PROVE  i = k
    BY DEF ChainsResumed, SequentialChains, NoneAgain, SamePool
  <2>1. NotTerminal(i) /\ NotTerminal(k) /\ SamePool(k, i)
    BY DEF NotTerminal, Terminal, SamePool
  <2>2. ~ (i < k) /\ ~ (k < i)
    BY <2>1 DEF SubmitIInv, LinkInv
  <2> QED
    BY <2>2, QueueOfJobs DEF SubmitIInv
<1> QED
  BY <1>1, SubmitInvariance, PTL

-----------------------------------------------------------------------------
(***************************************************************************)
(* runBenchmark, for any number of ranks, of programs that share a table,  *)
(* of jobs and of products, and of baselines that use the same table.      *)
(*                                                                         *)
(* What a rank returns is recorded because of where the root has been: a   *)
(* rank leaves the broadcast of the verdict after the root has come to it, *)
(* and the root comes to it after it has appended the row (VerdictInv).    *)
(* The table stays readable because what the root found in it still holds  *)
(* when it writes to it (FoundInv, RowsInv).                               *)
(***************************************************************************)

Exit == {"success", "failure"}

Columns == {"trident", "baseline"}

\* Nobody writes the header, and a baseline rows of its own.
Writers == Implementations \cup {"none", "baseline"}

Line ==
  [header : BOOLEAN, columns : Columns, of : Writers,
   job : Nat, status : Exit \cup {"none"}]

\* TableReadable, of any lines.
ReadableLines(lines) ==
  lines # <<>> =>
    /\ lines[1].header
    /\ \A i \in 2 .. Len(lines) : ~lines[i].header /\ lines[i].columns = lines[1].columns
    /\ \A i, k \in 2 .. Len(lines) : i < k => lines[i].job < lines[k].job

\* The last meetings of Program.
Last == Len(Program)

validate == Last - 6
examine == Last - 5
open == Last - 4
append == Last - 3
verdict == Last - 2

\* A rank is through with a meeting.
Past(r, k) == place[r] > k \/ (place[r] = k /\ ~inside[r])

TypeInv ==
  /\ job \in Nat
  /\ implementation \in Implementations
  /\ place \in [JobRank -> 0 .. Last]
  /\ inside \in [JobRank -> BOOLEAN]
  /\ \A r \in JobRank : inside[r] => place[r] # 0
  /\ exitCode \in [JobRank -> Exit]
  /\ outcome \in [JobRank -> Exit \cup {"none", "usage", "running", "aborted", "killed"}]
  /\ newFile \in BOOLEAN
  /\ file \in [exists : BOOLEAN, lines : Seq(Line)]

\* The row of this job says so.
Recorded(status) ==
  \E i \in 1 .. Len(file.lines) :
    file.lines[i] = rowOf("trident", implementation, job, status)

VerdictInv ==
  /\ Past(Root, append) => Recorded(exitCode[Root])
  /\ \A r \in JobRank : Past(r, verdict) =>
       place[Root] >= verdict /\ exitCode[r] = exitCode[Root]

FoundInv ==
  Past(Root, examine) /\ ~Past(Root, append) => newFile = FoundNone /\ Compatible("trident")

RowsInv ==
  \A i \in 2 .. Len(file.lines) :
    /\ file.lines[i].job <= job
    /\ outcome[Root] = "running" /\ ~Past(Root, append) => file.lines[i].job < job

IInv == TypeInv /\ VerdictInv /\ FoundInv /\ RowsInv /\ ReturnedIsRecorded /\ TableReadable

-----------------------------------------------------------------------------
(* The program                                                             *)

\* Where the root works alone, and where it says how.
Alone == {"validate", "examine", "open", "append", "verdict"}

Meetings ==
  [name : {"grid", "shape", "distribution", "blocks", "setup", "setup complete",
           "first gather", "maxima", "warmup", "sample", "timings", "gather",
           "metrics", "close", "finalize"} \cup Alone,
   kind : {"all", "fromRoot", "toRoot", "none"}]

LEMMA RepeatedType ==
  ASSUME NEW n \in Nat, NEW block \in Seq(Meetings), Len(block) \in {1, 2}
  PROVE  /\ Repeated(n, block) \in Seq(Meetings)
         /\ Len(Repeated(n, block)) = n * Len(block)
         /\ \A i \in 1 .. n * Len(block) :
              \E k \in 1 .. Len(block) : Repeated(n, block)[i] = block[k]
<1> DEFINE width == n * Len(block)
<1>1. width \in Nat
  OBVIOUS
<1>2. \A i \in 1 .. width : ((i - 1) % Len(block)) + 1 \in 1 .. Len(block)
  <2> SUFFICES ASSUME NEW i \in 1 .. width
               PROVE  ((i - 1) % Len(block)) + 1 \in 1 .. Len(block)
    OBVIOUS
  <2> QED
    BY <1>1
<1> HIDE DEF width
<1>3. Repeated(n, block) = [i \in 1 .. width |-> block[((i - 1) % Len(block)) + 1]]
  BY DEF Repeated, width
<1>4. \A k \in 1 .. Len(block) : block[k] \in Meetings
  BY ElementOfSeq
<1>5. Repeated(n, block) \in [1 .. width -> Meetings]
  BY <1>2, <1>3, <1>4
<1>6. Repeated(n, block) \in Seq(Meetings) /\ Len(Repeated(n, block)) = width
  BY <1>1, <1>5, SeqDef
<1> QED
  BY <1>2, <1>3, <1>6 DEF width

LEMMA EightMeetings ==
  ASSUME NEW S, NEW a \in S, NEW b \in S, NEW c \in S, NEW d \in S,
         NEW e \in S, NEW f \in S, NEW g \in S, NEW h \in S
  PROVE  <<a, b, c, d, e, f, g, h>> \in Seq(S) /\ Len(<<a, b, c, d, e, f, g, h>>) = 8
  OBVIOUS

LEMMA NineMeetings ==
  ASSUME NEW S, NEW a \in S, NEW b \in S, NEW c \in S, NEW d \in S,
         NEW e \in S, NEW f \in S, NEW g \in S, NEW h \in S, NEW i \in S
  PROVE  <<a, b, c, d, e, f, g, h, i>> \in Seq(S) /\ Len(<<a, b, c, d, e, f, g, h, i>>) = 9
  OBVIOUS

\* Nothing of what the root does alone is in two lists: nor in both together.
LEMMA NothingAlone ==
  ASSUME NEW s \in Seq(Meetings), NEW t \in Seq(Meetings),
         \A i \in 1 .. Len(s) : s[i].name \notin Alone,
         \A i \in 1 .. Len(t) : t[i].name \notin Alone
  PROVE  /\ s \o t \in Seq(Meetings)
         /\ Len(s \o t) = Len(s) + Len(t) /\ Len(s) \in Nat /\ Len(t) \in Nat
         /\ \A i \in 1 .. Len(s \o t) : (s \o t)[i].name \notin Alone
<1>1. /\ s \o t \in Seq(Meetings) /\ Len(s \o t) = Len(s) + Len(t)
      /\ \A i \in 1 .. Len(s) + Len(t) : (s \o t)[i] = IF i <= Len(s) THEN s[i] ELSE t[i - Len(s)]
  BY ConcatProperties
<1>2. Len(s) \in Nat /\ Len(t) \in Nat
  BY LenProperties
<1>3. ASSUME NEW i \in 1 .. Len(s) + Len(t) PROVE (s \o t)[i].name \notin Alone
  <2>1. CASE i <= Len(s)
    BY <2>1, <1>1, <1>2
  <2>2. CASE ~ (i <= Len(s))
    <3>1. i - Len(s) \in 1 .. Len(t) /\ (s \o t)[i] = t[i - Len(s)]
      BY <2>2, <1>1, <1>2
    <3> QED
      BY <3>1
  <2> QED
    BY <2>1, <2>2
<1> QED
  BY <1>1, <1>2, <1>3

LEMMA ProgramEnds ==
  /\ Last \in Nat /\ Last > 9
  /\ Program[validate] = Meeting("validate", "none")
  /\ Program[examine] = Meeting("examine", "none")
  /\ Program[open] = Meeting("open", "none")
  /\ Program[append] = Meeting("append", "none")
  /\ Program[verdict] = Meeting("verdict", "fromRoot")
  /\ \A i \in (1 .. Last) \ {validate, examine, open, append, verdict} :
       Program[i].name \notin Alone
<1> DEFINE start == <<Meeting("grid", "all"), Meeting("shape", "fromRoot"),
                      Meeting("distribution", "all"), Meeting("blocks", "fromRoot"),
                      Meeting("setup", "all"), Meeting("setup complete", "all"),
                      Meeting("first gather", "all"), Meeting("maxima", "toRoot")>>
<1> DEFINE warmups == Repeated(Warmups, <<Meeting("warmup", "all")>>)
<1> DEFINE samples == Repeated(Samples, <<Meeting("sample", "all"), Meeting("timings", "toRoot")>>)
<1> DEFINE end == <<Meeting("gather", "all"), Meeting("metrics", "toRoot"),
                    Meeting("validate", "none"), Meeting("examine", "none"),
                    Meeting("open", "none"), Meeting("append", "none"),
                    Meeting("verdict", "fromRoot"), Meeting("close", "all"),
                    Meeting("finalize", "all")>>
<1>1. /\ start \in Seq(Meetings) /\ Len(start) = 8
      /\ \A i \in 1 .. Len(start) : start[i].name \notin Alone
  <2>1. /\ Meeting("grid", "all") \in Meetings
        /\ Meeting("shape", "fromRoot") \in Meetings
        /\ Meeting("distribution", "all") \in Meetings
        /\ Meeting("blocks", "fromRoot") \in Meetings
        /\ Meeting("setup", "all") \in Meetings
        /\ Meeting("setup complete", "all") \in Meetings
        /\ Meeting("first gather", "all") \in Meetings
        /\ Meeting("maxima", "toRoot") \in Meetings
    BY DEF Meeting, Meetings
  <2>2. start \in Seq(Meetings) /\ Len(start) = 8
    BY <2>1, EightMeetings, Zenon
  <2>3. /\ start[1].name = "grid" /\ start[2].name = "shape"
        /\ start[3].name = "distribution" /\ start[4].name = "blocks"
        /\ start[5].name = "setup" /\ start[6].name = "setup complete"
        /\ start[7].name = "first gather" /\ start[8].name = "maxima"
    BY DEF Meeting
  <2> HIDE DEF start
  <2>4. ASSUME NEW i \in 1 .. 8 PROVE start[i].name \notin Alone
    <3>1. i \in {1, 2, 3, 4, 5, 6, 7, 8}
      OBVIOUS
    <3> QED
      BY <2>3, <3>1 DEF Alone
  <2> QED
    BY <2>2, <2>4
<1>2. /\ warmups \in Seq(Meetings) /\ Len(warmups) \in Nat
      /\ \A i \in 1 .. Len(warmups) : warmups[i].name \notin Alone
  <2> DEFINE block == <<Meeting("warmup", "all")>>
  <2>1. block \in Seq(Meetings) /\ Len(block) = 1 /\ block[1].name \notin Alone
    <3>1. Meeting("warmup", "all") \in Meetings
      BY DEF Meeting, Meetings
    <3>2. block \in Seq(Meetings) /\ Len(block) = 1
      BY <3>1
    <3>3. block[1].name \notin Alone
      BY DEF Meeting, Alone
    <3> QED
      BY <3>2, <3>3
  <2> HIDE DEF block
  <2>2. /\ Repeated(Warmups, block) \in Seq(Meetings)
        /\ Len(Repeated(Warmups, block)) = Warmups * Len(block)
        /\ \A i \in 1 .. Warmups * Len(block) :
             \E k \in 1 .. Len(block) : Repeated(Warmups, block)[i] = block[k]
    BY <2>1, RepeatedType, BoundAssumption
  <2>3. \A i \in 1 .. Len(Repeated(Warmups, block)) :
          Repeated(Warmups, block)[i].name \notin Alone
    <3> SUFFICES ASSUME NEW i \in 1 .. Warmups * Len(block)
                 PROVE  Repeated(Warmups, block)[i].name \notin Alone
      BY <2>2
    <3>1. PICK k \in 1 .. Len(block) : Repeated(Warmups, block)[i] = block[k]
      BY <2>2
    <3>2. k \in 1 .. 1
      BY <2>1
    <3> QED
      BY <2>1, <3>1, <3>2
  <2>4. Len(Repeated(Warmups, block)) \in Nat
    BY <2>2, LenProperties
  <2> QED
    BY <2>2, <2>3, <2>4 DEF block
<1>3. /\ samples \in Seq(Meetings) /\ Len(samples) \in Nat
      /\ \A i \in 1 .. Len(samples) : samples[i].name \notin Alone
  <2> DEFINE block == <<Meeting("sample", "all"), Meeting("timings", "toRoot")>>
  <2>1. /\ block \in Seq(Meetings) /\ Len(block) = 2
        /\ block[1].name \notin Alone /\ block[2].name \notin Alone
    <3>1. Meeting("sample", "all") \in Meetings /\ Meeting("timings", "toRoot") \in Meetings
      BY DEF Meeting, Meetings
    <3>2. block \in Seq(Meetings) /\ Len(block) = 2
      BY <3>1
    <3>3. block[1].name \notin Alone /\ block[2].name \notin Alone
      BY DEF Meeting, Alone
    <3> QED
      BY <3>2, <3>3
  <2> HIDE DEF block
  <2>2. /\ Repeated(Samples, block) \in Seq(Meetings)
        /\ Len(Repeated(Samples, block)) = Samples * Len(block)
        /\ \A i \in 1 .. Samples * Len(block) :
             \E k \in 1 .. Len(block) : Repeated(Samples, block)[i] = block[k]
    BY <2>1, RepeatedType, BoundAssumption
  <2>3. \A i \in 1 .. Len(Repeated(Samples, block)) :
          Repeated(Samples, block)[i].name \notin Alone
    <3> SUFFICES ASSUME NEW i \in 1 .. Samples * Len(block)
                 PROVE  Repeated(Samples, block)[i].name \notin Alone
      BY <2>2
    <3>1. PICK k \in 1 .. Len(block) : Repeated(Samples, block)[i] = block[k]
      BY <2>2
    <3>2. k \in 1 .. 2
      BY <2>1
    <3> QED
      BY <2>1, <3>1, <3>2
  <2>4. Len(Repeated(Samples, block)) \in Nat
    BY <2>2, LenProperties
  <2> QED
    BY <2>2, <2>3, <2>4 DEF block
<1>4. /\ end \in Seq(Meetings) /\ Len(end) = 9
      /\ end[1].name \notin Alone /\ end[2].name \notin Alone
      /\ end[3] = Meeting("validate", "none") /\ end[4] = Meeting("examine", "none")
      /\ end[5] = Meeting("open", "none") /\ end[6] = Meeting("append", "none")
      /\ end[7] = Meeting("verdict", "fromRoot")
      /\ end[8].name \notin Alone /\ end[9].name \notin Alone
  <2>1. /\ Meeting("gather", "all") \in Meetings /\ Meeting("metrics", "toRoot") \in Meetings
        /\ Meeting("validate", "none") \in Meetings /\ Meeting("examine", "none") \in Meetings
        /\ Meeting("open", "none") \in Meetings /\ Meeting("append", "none") \in Meetings
        /\ Meeting("verdict", "fromRoot") \in Meetings
        /\ Meeting("close", "all") \in Meetings /\ Meeting("finalize", "all") \in Meetings
    BY DEF Meeting, Meetings, Alone
  <2>2. end \in Seq(Meetings) /\ Len(end) = 9
    BY <2>1, NineMeetings, Zenon
  <2>3. /\ end[1].name \notin Alone /\ end[2].name \notin Alone
        /\ end[8].name \notin Alone /\ end[9].name \notin Alone
    BY DEF Meeting, Alone
  <2>4. /\ end[3] = Meeting("validate", "none") /\ end[4] = Meeting("examine", "none")
        /\ end[5] = Meeting("open", "none") /\ end[6] = Meeting("append", "none")
        /\ end[7] = Meeting("verdict", "fromRoot")
    OBVIOUS
  <2> QED
    BY <2>2, <2>3, <2>4
<1>5. Program = ((start \o warmups) \o samples) \o end
  BY DEF Program
<1> HIDE DEF start, warmups, samples, end
<1> DEFINE first == start \o warmups
<1> DEFINE before == first \o samples
<1>6. /\ first \in Seq(Meetings) /\ Len(first) \in Nat /\ Len(first) >= 8
      /\ \A i \in 1 .. Len(first) : first[i].name \notin Alone
  <2>1. /\ first \in Seq(Meetings) /\ Len(first) = Len(start) + Len(warmups)
        /\ \A i \in 1 .. Len(first) : first[i].name \notin Alone
    BY <1>1, <1>2, NothingAlone, Zenon
  <2> QED
    BY <2>1, <1>1, <1>2
<1> HIDE DEF first
<1>7. /\ before \in Seq(Meetings) /\ Len(before) \in Nat /\ Len(before) >= 8
      /\ \A i \in 1 .. Len(before) : before[i].name \notin Alone
  BY <1>3, <1>6, NothingAlone
<1>8. Program = before \o end
  BY <1>5 DEF first
<1> HIDE DEF before
<1>9. /\ Last = Len(before) + 9
      /\ \A i \in 1 .. Last :
           Program[i] = IF i <= Len(before) THEN before[i] ELSE end[i - Len(before)]
  <2>1. /\ Len(before \o end) = Len(before) + Len(end)
        /\ \A i \in 1 .. Len(before) + Len(end) :
             (before \o end)[i] = IF i <= Len(before) THEN before[i] ELSE end[i - Len(before)]
    BY <1>4, <1>7, ConcatProperties, Zenon
  <2> QED
    BY <2>1, <1>4, <1>8 DEF Last
<1>10. /\ Program[validate] = Meeting("validate", "none")
       /\ Program[examine] = Meeting("examine", "none")
       /\ Program[open] = Meeting("open", "none")
       /\ Program[append] = Meeting("append", "none")
       /\ Program[verdict] = Meeting("verdict", "fromRoot")
  <2>1. /\ validate = Len(before) + 3 /\ examine = Len(before) + 4 /\ open = Len(before) + 5
        /\ append = Len(before) + 6 /\ verdict = Len(before) + 7
    BY <1>7, <1>9 DEF validate, examine, open, append, verdict
  <2>2. \A k \in 1 .. 9, i \in Int : i = Len(before) + k => Program[i] = end[k]
    BY <1>7, <1>9
  <2>3. /\ validate \in Int /\ examine \in Int /\ open \in Int /\ append \in Int
        /\ verdict \in Int
    BY <2>1, <1>7
  <2>4. /\ Program[validate] = end[3] /\ Program[examine] = end[4] /\ Program[open] = end[5]
        /\ Program[append] = end[6] /\ Program[verdict] = end[7]
    BY <2>1, <2>2, <2>3
  <2> QED
    BY <2>4, <1>4
<1>11. ASSUME NEW i \in (1 .. Last) \ {validate, examine, open, append, verdict}
       PROVE  Program[i].name \notin Alone
  <2>1. CASE i <= Len(before)
    BY <2>1, <1>7, <1>9
  <2>2. CASE ~(i <= Len(before))
    <3>1. i \in {Len(before) + 1, Len(before) + 2, Len(before) + 8, Len(before) + 9}
      BY <2>2, <1>7, <1>9 DEF validate, examine, open, append, verdict
    <3>2. Program[i] \in {end[1], end[2], end[8], end[9]}
      BY <2>2, <3>1, <1>7, <1>9
    <3> QED
      BY <3>2, <1>4
  <2> QED
    BY <2>1, <2>2
<1> QED
  BY <1>7, <1>9, <1>10, <1>11

\* Where a rank is, from the name of the meeting.
LEMMA NamesArePlaces ==
  ASSUME NEW i \in 1 .. Last
  PROVE  /\ Program[i].name = "validate" <=> i = validate
         /\ Program[i].name = "examine" <=> i = examine
         /\ Program[i].name = "open" <=> i = open
         /\ Program[i].name = "append" <=> i = append
         /\ Program[i].name = "verdict" <=> i = verdict
<1>1. /\ Program[validate].name = "validate" /\ Program[examine].name = "examine"
      /\ Program[open].name = "open" /\ Program[append].name = "append"
      /\ Program[verdict].name = "verdict"
  BY ProgramEnds DEF Meeting
<1>2. CASE i \in {validate, examine, open, append, verdict}
  BY <1>1, <1>2
<1>3. CASE i \notin {validate, examine, open, append, verdict}
  <2>1. Program[i].name \notin Alone
    BY <1>3, ProgramEnds
  <2> QED
    BY <1>3, <2>1 DEF Alone
<1> QED
  BY <1>2, <1>3

LEMMA Places ==
  /\ Last \in Nat /\ validate \in Nat \ {0}
  /\ examine = validate + 1 /\ open = validate + 2 /\ append = validate + 3
  /\ verdict = validate + 4 /\ Last = validate + 6
  BY ProgramEnds DEF validate, examine, open, append, verdict

LEMMA AtPlaces ==
  ASSUME TypeInv, NEW r \in JobRank, Running(r), inside[r]
  PROVE  /\ place[r] \in 1 .. Last
         /\ At(r, "validate") <=> place[r] = validate
         /\ At(r, "examine") <=> place[r] = examine
         /\ At(r, "open") <=> place[r] = open
         /\ At(r, "append") <=> place[r] = append
<1>1. place[r] \in 1 .. Last
  BY Places DEF TypeInv
<1> QED
  BY <1>1, NamesArePlaces DEF At

LEMMA RootIsARank == Root \in JobRank
  BY SizeAssumption DEF Root, JobRank

-----------------------------------------------------------------------------
(* The steps                                                               *)

LEMMA InitEstablishesIInv == Init => IInv
<1> SUFFICES ASSUME Init PROVE IInv
  OBVIOUS
<1> USE DEF Init
<1>1. file.lines = <<>> /\ Len(file.lines) = 0 /\ file.lines \in Seq(Line)
  BY EmptySeq
<1>2. TypeInv
  <2>1. <<>> \in Seq(Line)
    BY EmptySeq
  <2>2. file \in [exists : BOOLEAN, lines : Seq(Line)]
    BY <2>1
  <2>3. place \in [JobRank -> 0 .. Last]
    BY Places
  <2>4. exitCode \in [JobRank -> Exit] /\ inside \in [JobRank -> BOOLEAN]
    BY DEF Exit
  <2>5. outcome \in [JobRank -> Exit \cup {"none", "usage", "running", "aborted", "killed"}]
    OBVIOUS
  <2> QED
    BY <2>2, <2>3, <2>4, <2>5 DEF TypeInv
<1>3. \A r \in JobRank : ~Past(r, verdict) /\ ~Past(r, append) /\ ~Past(r, examine)
  BY Places DEF Past
<1>4. VerdictInv /\ FoundInv
  BY <1>3, RootIsARank DEF VerdictInv, FoundInv
<1>5. RowsInv /\ ReturnedIsRecorded /\ TableReadable
  BY <1>1 DEF RowsInv, ReturnedIsRecorded, TableReadable
<1> QED
  BY <1>2, <1>4, <1>5 DEF IInv

\* A job that leaves the table alone leaves what it says alone.
LEMMA TableKept ==
  ASSUME UNCHANGED <<job, implementation>>, file'.lines = file.lines
  PROVE  /\ \A status : Recorded(status)' <=> Recorded(status)
         /\ TableReadable' <=> TableReadable
         /\ FoundNone' <=> FoundNone
         /\ Compatible("trident")' <=> Compatible("trident")
  BY DEF Recorded, TableReadable, FoundNone, Compatible

LEMMA StartJobKeepsIInv == IInv /\ StartJob => IInv'
<1> SUFFICES ASSUME IInv, StartJob PROVE IInv'
  OBVIOUS
<1> USE DEF IInv
<1>1. /\ job' = job + 1 /\ implementation' \in Implementations /\ file' = file
      /\ place' = [r \in JobRank |-> 0] /\ inside' = [r \in JobRank |-> FALSE]
      /\ \E e \in {"running", "usage"} : outcome' = [r \in JobRank |-> e]
      /\ exitCode' = [r \in JobRank |-> "success"] /\ newFile' = FALSE
  BY DEF StartJob, Enters
<1>2. TypeInv'
  <2>1. place' \in [JobRank -> (0 .. Last)']
    BY <1>1, Places DEF Last
  <2>2. exitCode' \in [JobRank -> Exit] /\ inside' \in [JobRank -> BOOLEAN]
    BY <1>1 DEF Exit
  <2>3. outcome' \in [JobRank -> Exit \cup {"none", "usage", "running", "aborted", "killed"}]
    BY <1>1
  <2>4. job' \in Nat /\ file' \in [exists : BOOLEAN, lines : Seq(Line)]
    BY <1>1 DEF TypeInv
  <2>5. \A r \in JobRank : inside'[r] => place'[r] # 0
    BY <1>1
  <2> QED
    BY <1>1, <2>1, <2>2, <2>3, <2>4, <2>5 DEF TypeInv
<1>3. \A r \in JobRank : ~Past(r, verdict)' /\ ~Past(r, append)' /\ ~Past(r, examine)'
  BY <1>1, Places DEF Past, verdict, append, examine, Last
<1>4. VerdictInv' /\ FoundInv'
  BY <1>3, RootIsARank DEF VerdictInv, FoundInv
<1>5. RowsInv'
  <2> SUFFICES ASSUME NEW i \in 2 .. Len(file.lines)
               PROVE  file.lines[i].job <= job + 1 /\ file.lines[i].job < job + 1
    BY <1>1 DEF RowsInv
  <2>1. Len(file.lines) \in Nat
    BY LenProperties DEF TypeInv
  <2>2. i \in 1 .. Len(file.lines)
    BY <2>1
  <2>3. file.lines[i] \in Line
    BY <2>2, ElementOfSeq DEF TypeInv
  <2>4. file.lines[i].job \in Nat /\ file.lines[i].job <= job /\ job \in Nat
    BY <2>3 DEF RowsInv, Line, TypeInv
  <2> QED
    BY <2>4
<1>6. ReturnedIsRecorded' /\ TableReadable'
  BY <1>1 DEF ReturnedIsRecorded, TableReadable
<1> QED
  BY <1>2, <1>4, <1>5, <1>6

\* A rank comes to a meeting: it is through with those it was through with.
LEMMA EnterKeepsIInv == ASSUME IInv, NEW r \in JobRank, Enter(r) PROVE IInv'
<1> USE DEF IInv
<1>1. /\ ~inside[r] /\ place[r] < Last
      /\ place' = [place EXCEPT ![r] = @ + 1] /\ inside' = [inside EXCEPT ![r] = TRUE]
      /\ UNCHANGED <<job, implementation, outcome, aborted, exitCode, newFile, file>>
  BY DEF Enter, Last
<1>2. TypeInv'
  BY <1>1, Places DEF TypeInv, Last
<1>3. ASSUME NEW q \in JobRank, NEW k \in Nat PROVE Past(q, k)' <=> Past(q, k)
  BY <1>1, Places DEF Past, TypeInv
<1>4. \A q \in JobRank : /\ Past(q, verdict)' <=> Past(q, verdict)
                         /\ Past(q, append)' <=> Past(q, append)
                         /\ Past(q, examine)' <=> Past(q, examine)
  BY <1>3, Places DEF verdict, append, examine, Last
<1>5. place'[Root] >= place[Root] /\ place[Root] \in Nat /\ place'[Root] \in Nat
  BY <1>1, RootIsARank, Places DEF TypeInv
<1>6. VerdictInv'
  <2>1. (Past(Root, append) => Recorded(exitCode[Root]))'
    BY <1>1, <1>4, RootIsARank DEF VerdictInv, Recorded
  <2>2. \A q \in JobRank : Past(q, verdict) =>
          place'[Root] >= verdict /\ exitCode[q] = exitCode[Root]
    BY <1>5, Places DEF VerdictInv
  <2> QED
    BY <1>1, <1>4, <2>1, <2>2 DEF VerdictInv, verdict, Last
<1>7. FoundInv' /\ RowsInv'
  BY <1>1, <1>4, RootIsARank DEF FoundInv, RowsInv, FoundNone, Compatible
<1>8. ReturnedIsRecorded' /\ TableReadable'
  BY <1>1 DEF ReturnedIsRecorded, TableReadable
<1> QED
  BY <1>2, <1>6, <1>7, <1>8

\* A rank leaves the verdict after the root has come to it; the root does not
\* leave what it does alone.
LEMMA LeaveKeepsIInv == ASSUME IInv, NEW r \in JobRank, Leave(r) PROVE IInv'
<1> USE DEF IInv
<1>1. /\ inside[r] /\ MayLeave(r) /\ Running(r)
      /\ inside' = [inside EXCEPT ![r] = FALSE]
      /\ UNCHANGED <<job, implementation, place, outcome, aborted, newFile, file>>
  BY DEF Leave
<1>2. place[r] \in 1 .. Last
  BY <1>1, AtPlaces
<1>3. /\ place[r] = verdict => exitCode' = [exitCode EXCEPT ![r] = exitCode[Root]]
      /\ place[r] # verdict => exitCode' = exitCode
  BY <1>2, NamesArePlaces DEF Leave
<1>4. /\ exitCode'[Root] = exitCode[Root]
      /\ \A q \in JobRank \ {r} : exitCode'[q] = exitCode[q]
      /\ exitCode' \in [JobRank -> Exit]
  BY <1>3, RootIsARank DEF TypeInv
<1>5. TypeInv'
  BY <1>1, <1>4 DEF TypeInv
<1>6. ~ (r = Root /\ place[r] \in {examine, append})
  <2>1. Program[examine].kind = "none" /\ Program[append].kind = "none"
    BY ProgramEnds DEF Meeting
  <2> QED
    BY <1>1, <2>1 DEF MayLeave
<1>7. place[r] = verdict => place[Root] >= verdict
  <2>1. Program[verdict].kind = "fromRoot"
    BY ProgramEnds DEF Meeting
  <2> QED
    BY <1>1, <2>1 DEF MayLeave
<1>8. /\ Past(Root, examine)' <=> Past(Root, examine)
      /\ Past(Root, append)' <=> Past(Root, append)
      /\ \A q \in JobRank : Past(q, verdict)' => Past(q, verdict) \/ (q = r /\ place[r] = verdict)
  BY <1>1, <1>6, RootIsARank DEF Past, TypeInv, examine, append, verdict, Last
<1>9. VerdictInv'
  <2>1. (Past(Root, append) => Recorded(exitCode[Root]))'
    BY <1>1, <1>4, <1>8 DEF VerdictInv, Recorded
  <2>2. ASSUME NEW q \in JobRank, Past(q, verdict)'
        PROVE  place[Root] >= verdict /\ exitCode'[q] = exitCode'[Root]
    <3>1. CASE q = r /\ place[r] = verdict
      BY <3>1, <1>3, <1>4, <1>7 DEF TypeInv
    <3>2. CASE Past(q, verdict) /\ ~(q = r /\ place[r] = verdict)
      BY <3>2, <1>3, <1>4 DEF VerdictInv
    <3> QED
      BY <2>2, <3>1, <3>2, <1>8
  <2> QED
    BY <1>1, <2>1, <2>2 DEF VerdictInv, verdict, Last
<1>10. FoundInv' /\ RowsInv'
  BY <1>1, <1>8 DEF FoundInv, RowsInv, FoundNone, Compatible
<1>11. ReturnedIsRecorded' /\ TableReadable'
  BY <1>1 DEF ReturnedIsRecorded, TableReadable
<1> QED
  BY <1>5, <1>9, <1>10, <1>11

\* A process that ends says nothing new of the table, unless it returns.
LEMMA OutcomesKeepIInv ==
  ASSUME IInv,
         UNCHANGED <<job, implementation, place, inside, exitCode, newFile, file>>,
         outcome' \in [JobRank -> Exit \cup {"none", "usage", "running", "aborted", "killed"}],
         \A r \in JobRank : outcome'[r] \in Exit => outcome'[r] = outcome[r] \/ Recorded(outcome'[r]),
         outcome'[Root] = "running" => outcome[Root] = "running"
  PROVE  IInv'
<1> USE DEF IInv
<1>1. TypeInv'
  BY DEF TypeInv, Last
<1>2. /\ VerdictInv'
  BY DEF VerdictInv, Recorded, Past, append, verdict, Last
<1>3. FoundInv' /\ RowsInv'
  BY DEF FoundInv, RowsInv, FoundNone, Compatible, Past, append, examine, Last
<1>4. ReturnedIsRecorded'
  <2>1. \A r \in JobRank : outcome'[r] \in Exit => Recorded(outcome'[r])
    BY DEF ReturnedIsRecorded, Recorded, Exit
  <2> QED
    BY <2>1 DEF ReturnedIsRecorded, Recorded, Exit
<1>5. TableReadable'
  BY DEF TableReadable
<1> QED
  BY <1>1, <1>2, <1>3, <1>4, <1>5

\* A rank that returns has left the broadcast of the verdict.
LEMMA ReturnKeepsIInv == ASSUME IInv, NEW r \in JobRank, Return(r) PROVE IInv'
<1> USE DEF IInv
<1>1. /\ ~inside[r] /\ place[r] = Last
      /\ outcome' = [outcome EXCEPT ![r] = exitCode[r]]
      /\ UNCHANGED <<job, implementation, place, inside, aborted, exitCode, newFile, file>>
  BY DEF Return, Last
<1>2. Recorded(exitCode[r])
  <2>1. Past(r, verdict)
    BY <1>1, Places DEF Past
  <2>2. place[Root] >= verdict /\ exitCode[r] = exitCode[Root]
    BY <2>1 DEF VerdictInv
  <2>3. Past(Root, append)
    <3>1. place[Root] \in Nat
      BY RootIsARank, Places DEF TypeInv
    <3> QED
      BY <2>2, <3>1, Places DEF Past
  <2> QED
    BY <2>2, <2>3 DEF VerdictInv
<1>3. exitCode[r] \in Exit
  BY DEF TypeInv
<1>4. outcome' \in [JobRank -> Exit \cup {"none", "usage", "running", "aborted", "killed"}]
  BY <1>1, <1>3 DEF TypeInv
<1>5. \A q \in JobRank : outcome'[q] \in Exit => outcome'[q] = outcome[q] \/ Recorded(outcome'[q])
  BY <1>1, <1>2 DEF TypeInv
<1>6. outcome'[Root] = "running" => outcome[Root] = "running"
  BY <1>1, <1>3, RootIsARank DEF TypeInv, Exit
<1> QED
  BY <1>1, <1>4, <1>5, <1>6, OutcomesKeepIInv

LEMMA ThrowKeepsIInv ==
  ASSUME IInv, NEW r \in JobRank, Throw(r) \/ AbortArrives(r)
  PROVE  IInv'
<1> USE DEF IInv
<1>1. /\ outcome' = [outcome EXCEPT ![r] = "aborted"]
      /\ UNCHANGED <<job, implementation, place, inside, exitCode, newFile, file>>
  BY DEF Throw, AbortArrives
<1>2. outcome' \in [JobRank -> Exit \cup {"none", "usage", "running", "aborted", "killed"}]
  BY <1>1 DEF TypeInv
<1>3. \A q \in JobRank : outcome'[q] \in Exit => outcome'[q] = outcome[q]
  BY <1>1 DEF TypeInv, Exit
<1>4. outcome'[Root] = "running" => outcome[Root] = "running"
  BY <1>1, RootIsARank DEF TypeInv
<1> QED
  BY <1>1, <1>2, <1>3, <1>4, OutcomesKeepIInv

LEMMA TimeLimitKeepsIInv == IInv /\ TimeLimit => IInv'
<1> SUFFICES ASSUME IInv, TimeLimit PROVE IInv'
  OBVIOUS
<1> USE DEF IInv
<1>1. /\ outcome' = [r \in JobRank |-> IF Running(r) THEN "killed" ELSE outcome[r]]
      /\ UNCHANGED <<job, implementation, place, inside, exitCode, newFile, file>>
  BY DEF TimeLimit
<1>2. outcome' \in [JobRank -> Exit \cup {"none", "usage", "running", "aborted", "killed"}]
  BY <1>1 DEF TypeInv
<1>3. \A q \in JobRank : outcome'[q] \in Exit => outcome'[q] = outcome[q]
  BY <1>1 DEF TypeInv, Exit
<1>4. outcome'[Root] = "running" => outcome[Root] = "running"
  BY <1>1, RootIsARank DEF TypeInv
<1> QED
  BY <1>1, <1>2, <1>3, <1>4, OutcomesKeepIInv

\* Nobody returned before the root came to the verdict.
LEMMA NobodyBefore ==
  ASSUME IInv, Running(Root), place[Root] < verdict
  PROVE  /\ \A r \in JobRank : ~Past(r, verdict)
         /\ place[Root] \in Nat
<1>1. place[Root] \in Nat
  BY RootIsARank, Places DEF IInv, TypeInv
<1> QED
  BY <1>1, Places DEF IInv, VerdictInv

\* What the root does alone gets no rank through with another meeting.
LEMMA AloneKeepsPast ==
  ASSUME TypeInv, UNCHANGED place, inside' = [inside EXCEPT ![Root] = FALSE],
         NEW k \in Nat, place[Root] # k, NEW r \in JobRank
  PROVE  Past(r, k)' <=> Past(r, k)
<1>1. r # Root => inside'[r] = inside[r]
  BY DEF TypeInv
<1>2. place'[r] = place[r]
  OBVIOUS
<1> QED
  BY <1>1, <1>2 DEF Past

LEMMA ValidateKeepsIInv == IInv /\ Validate => IInv'
<1> SUFFICES ASSUME IInv, Validate PROVE IInv'
  OBVIOUS
<1> USE DEF IInv
<1>1. /\ Running(Root) /\ inside[Root] /\ At(Root, "validate")
      /\ \E v \in Exit : exitCode' = [exitCode EXCEPT ![Root] = v]
      /\ inside' = [inside EXCEPT ![Root] = FALSE]
      /\ UNCHANGED <<job, implementation, place, outcome, aborted, newFile, file>>
  BY DEF Validate, At, Done, Exit
<1>2. place[Root] = validate
  BY <1>1, AtPlaces, RootIsARank
<1>3. TypeInv'
  <2>1. exitCode' \in [JobRank -> Exit] /\ inside' \in [JobRank -> BOOLEAN]
    BY <1>1 DEF TypeInv
  <2>2. \A r \in JobRank : inside'[r] => place'[r] # 0
    BY <1>1 DEF TypeInv
  <2> QED
    BY <1>1, <2>1, <2>2 DEF TypeInv, Last
<1>4. \A r \in JobRank : ~Past(r, verdict)
  BY <1>1, <1>2, Places, NobodyBefore
<1>5. /\ ~Past(Root, append) /\ ~Past(Root, append)'
      /\ ~Past(Root, examine) /\ ~Past(Root, examine)'
      /\ \A r \in JobRank : ~Past(r, verdict)'
  <2>1. verdict \in Nat /\ place[Root] # verdict
    BY <1>2, Places
  <2>2. \A r \in JobRank : ~Past(r, verdict)'
    BY <1>1, <1>4, <2>1, AloneKeepsPast DEF verdict, Last
  <2> QED
    BY <1>1, <1>2, <2>2, Places DEF Past, append, examine, Last
<1>6. VerdictInv' /\ FoundInv'
  BY <1>5 DEF VerdictInv, FoundInv
<1>7. RowsInv' /\ ReturnedIsRecorded' /\ TableReadable'
  BY <1>1, <1>5 DEF RowsInv, ReturnedIsRecorded, TableReadable
<1> QED
  BY <1>3, <1>6, <1>7

LEMMA ExamineKeepsIInv == IInv /\ Examine => IInv'
<1> SUFFICES ASSUME IInv, Examine PROVE IInv'
  OBVIOUS
<1> USE DEF IInv
<1>1. /\ Running(Root) /\ inside[Root] /\ At(Root, "examine")
      /\ Compatible("trident") /\ newFile' = FoundNone
      /\ inside' = [inside EXCEPT ![Root] = FALSE]
      /\ UNCHANGED <<job, implementation, place, outcome, aborted, exitCode, file>>
  BY DEF Examine, At, Done
<1>2. place[Root] = examine
  BY <1>1, AtPlaces, RootIsARank
<1>3. TypeInv'
  <2>1. newFile' \in BOOLEAN /\ inside' \in [JobRank -> BOOLEAN]
    BY <1>1 DEF TypeInv, FoundNone
  <2>2. \A r \in JobRank : inside'[r] => place'[r] # 0
    BY <1>1 DEF TypeInv
  <2> QED
    BY <1>1, <2>1, <2>2 DEF TypeInv, Last
<1>4. \A r \in JobRank : ~Past(r, verdict)
  BY <1>1, <1>2, Places, NobodyBefore
<1>5. /\ ~Past(Root, append) /\ ~Past(Root, append)'
      /\ \A r \in JobRank : ~Past(r, verdict)'
  <2>1. verdict \in Nat /\ place[Root] # verdict
    BY <1>2, Places
  <2>2. \A r \in JobRank : ~Past(r, verdict)'
    BY <1>1, <1>4, <2>1, AloneKeepsPast DEF verdict, Last
  <2> QED
    BY <1>1, <1>2, <2>2, Places DEF Past, append, Last
<1>6. VerdictInv' /\ FoundInv'
  BY <1>1, <1>5 DEF VerdictInv, FoundInv, FoundNone, Compatible
<1>7. RowsInv' /\ ReturnedIsRecorded' /\ TableReadable'
  BY <1>1, <1>5 DEF RowsInv, ReturnedIsRecorded, TableReadable
<1> QED
  BY <1>3, <1>6, <1>7

\* What the root found is still there when it opens the table.
LEMMA OpenKeepsIInv == IInv /\ Open => IInv'
<1> SUFFICES ASSUME IInv, Open PROVE IInv'
  OBVIOUS
<1> USE DEF IInv
<1>1. /\ Running(Root) /\ inside[Root] /\ At(Root, "open")
      /\ file' = [file EXCEPT !.exists = TRUE]
      /\ inside' = [inside EXCEPT ![Root] = FALSE]
      /\ UNCHANGED <<job, implementation, place, outcome, aborted, exitCode, newFile>>
  BY DEF Open, At, Done
<1>2. place[Root] = open
  BY <1>1, AtPlaces, RootIsARank
<1>3. file'.lines = file.lines /\ file' \in [exists : BOOLEAN, lines : Seq(Line)]
  BY <1>1 DEF TypeInv
<1>4. TypeInv'
  <2>1. inside' \in [JobRank -> BOOLEAN]
    BY <1>1 DEF TypeInv
  <2>2. \A r \in JobRank : inside'[r] => place'[r] # 0
    BY <1>1 DEF TypeInv
  <2> QED
    BY <1>1, <1>3, <2>1, <2>2 DEF TypeInv, Last
<1>5. \A r \in JobRank : ~Past(r, verdict)
  BY <1>1, <1>2, Places, NobodyBefore
<1>6. /\ ~Past(Root, append) /\ ~Past(Root, append)' /\ Past(Root, examine)
      /\ \A r \in JobRank : ~Past(r, verdict)'
  <2>1. verdict \in Nat /\ place[Root] # verdict
    BY <1>2, Places
  <2>2. \A r \in JobRank : ~Past(r, verdict)'
    BY <1>1, <1>5, <2>1, AloneKeepsPast DEF verdict, Last
  <2> QED
    BY <1>1, <1>2, <2>2, Places DEF Past, append, examine, Last
<1>7. VerdictInv'
  BY <1>6 DEF VerdictInv
<1>8. FoundInv' /\ TableReadable'
  <2>1. /\ FoundNone' <=> FoundNone
        /\ (Compatible("trident")' <=> Compatible("trident"))
        /\ TableReadable'
    BY <1>1, <1>3, TableKept
  <2>2. newFile = FoundNone /\ Compatible("trident")
    BY <1>6 DEF FoundInv
  <2>3. newFile' = FoundNone' /\ Compatible("trident")'
    BY <1>1, <2>1, <2>2 DEF FoundNone
  <2> QED
    BY <2>1, <2>3 DEF FoundInv
<1>9. RowsInv' /\ ReturnedIsRecorded'
  BY <1>1, <1>3, <1>6 DEF RowsInv, ReturnedIsRecorded
<1> QED
  BY <1>4, <1>7, <1>8, <1>9

\* After the row w, the table is what it was, with the header h in front.
Extends(lines, h, w, after) ==
  \E n \in Nat \ {0} :
    /\ Len(lines) \in {n, 0}
    /\ Len(after) = n + 1
    /\ after[n + 1] = w
    /\ after[1] = h
    /\ \A i \in 1 .. Len(lines) : after[i] = lines[i]
    /\ \A i \in 2 .. n : i \in 1 .. Len(lines)

LEMMA AppendedLines ==
  ASSUME NEW lines \in Seq(Line), NEW w \in Line
  PROVE  /\ lines \o <<w>> \in Seq(Line)
         /\ Len(lines \o <<w>>) = Len(lines) + 1
         /\ (lines \o <<w>>)[Len(lines) + 1] = w
         /\ \A i \in 1 .. Len(lines) : (lines \o <<w>>)[i] = lines[i]
<1>1. lines \o <<w>> \in Seq(Line)
  OBVIOUS
<1>2. Len(lines \o <<w>>) = Len(lines) + 1
  OBVIOUS
<1>3. (lines \o <<w>>)[Len(lines) + 1] = w
  OBVIOUS
<1>4. \A i \in 1 .. Len(lines) : (lines \o <<w>>)[i] = lines[i]
  OBVIOUS
<1> QED
  BY <1>1, <1>2, <1>3, <1>4, Zenon

LEMMA LinesAppended ==
  ASSUME NEW lines \in Seq(Line), NEW h \in Line, NEW w \in Line, NEW start, NEW after,
         start = IF lines = <<>> THEN <<h>> ELSE <<>>,
         after = (lines \o start) \o <<w>>,
         lines # <<>> => lines[1] = h
  PROVE  after \in Seq(Line) /\ Len(lines) \in Nat /\ Extends(lines, h, w, after)
<1>1. Len(lines) \in Nat
  BY LenProperties
<1>2. CASE lines = <<>>
  <2> DEFINE one == <<h>>
  <2>1. one \in Seq(Line) /\ Len(one) = 1 /\ one[1] = h
    OBVIOUS
  <2>2. start = one
    BY <1>2
  <2> HIDE DEF one
  <2>3. after = one \o <<w>>
    <3>1. lines \o start = one
      BY <1>2, <2>1, <2>2, ConcatEmptySeq
    <3> QED
      BY <3>1
  <2>4. Len(lines) = 0
    BY <1>2
  <2>5. /\ after \in Seq(Line) /\ Len(after) = Len(one) + 1 /\ after[Len(one) + 1] = w
        /\ \A i \in 1 .. Len(one) : after[i] = one[i]
    <3>1. /\ one \o <<w>> \in Seq(Line) /\ Len(one \o <<w>>) = Len(one) + 1
          /\ (one \o <<w>>)[Len(one) + 1] = w
          /\ \A i \in 1 .. Len(one) : (one \o <<w>>)[i] = one[i]
      BY <2>1, AppendedLines, Zenon
    <3> QED
      BY <3>1, <2>3, Zenon
  <2>6. Len(after) = 1 + 1 /\ after[1 + 1] = w /\ after[1] = h
    <3>1. Len(after) = 1 + 1 /\ after[1 + 1] = w
      BY <2>1, <2>5, Zenon
    <3>2. \A i \in 1 .. 1 : after[i] = one[i]
      BY <2>1, <2>5, Zenon
    <3>3. after[1] = one[1]
      BY <3>2, 1 \in 1 .. 1, Zenon
    <3> QED
      BY <3>1, <3>3, <2>1, Zenon
  <2>7. /\ \A i \in 1 .. Len(lines) : after[i] = lines[i]
        /\ \A i \in 2 .. 1 : i \in 1 .. Len(lines)
        /\ Len(lines) \in {1, 0}
    BY <2>4
  <2>8. Extends(lines, h, w, after)
    BY <2>6, <2>7, 1 \in Nat \ {0}, Zenon DEF Extends
  <2> QED
    BY <1>1, <2>5, <2>8
<1>3. CASE lines # <<>>
  <2>1. after = lines \o <<w>>
    BY <1>3, ConcatEmptySeq
  <2>2. /\ after \in Seq(Line) /\ Len(after) = Len(lines) + 1
        /\ after[Len(lines) + 1] = w
        /\ \A i \in 1 .. Len(lines) : after[i] = lines[i]
    <3>1. /\ lines \o <<w>> \in Seq(Line) /\ Len(lines \o <<w>>) = Len(lines) + 1
          /\ (lines \o <<w>>)[Len(lines) + 1] = w
          /\ \A i \in 1 .. Len(lines) : (lines \o <<w>>)[i] = lines[i]
      BY AppendedLines, Zenon
    <3> QED
      BY <3>1, <2>1, Zenon
  <2>3. Len(lines) # 0
    BY <1>1, <1>3, EmptySeq
  <2>4. after[1] = h
    BY <1>1, <1>3, <2>2, <2>3
  <2>5. \A i \in 2 .. Len(lines) : i \in 1 .. Len(lines)
    BY <1>1
  <2>6. Len(lines) \in Nat \ {0} /\ Len(lines) \in {Len(lines), 0}
    BY <1>1, <2>3
  <2>7. Extends(lines, h, w, after)
    BY <2>2, <2>4, <2>5, <2>6, Zenon DEF Extends
  <2> QED
    BY <1>1, <2>2, <2>7
<1> QED
  BY <1>2, <1>3

\* What a table is after a row under the columns of its header.
LEMMA ExtendedReadable ==
  ASSUME NEW lines \in Seq(Line), NEW h, NEW w, NEW after,
         Len(lines) \in Nat, ReadableLines(lines),
         h.header, ~w.header, w.columns = h.columns, w.job \in Nat,
         lines # <<>> => lines[1] = h,
         \A k \in 2 .. Len(lines) : lines[k].job < w.job,
         Extends(lines, h, w, after)
  PROVE  /\ ReadableLines(after)
         /\ \A k \in 2 .. Len(after) : after[k].job <= w.job
         /\ \E k \in 1 .. Len(after) : after[k] = w
         /\ \A k \in 1 .. Len(lines) : k \in 1 .. Len(after) /\ after[k] = lines[k]
<1>1. PICK n \in Nat \ {0} :
        /\ Len(lines) \in {n, 0}
        /\ Len(after) = n + 1
        /\ after[n + 1] = w
        /\ after[1] = h
        /\ \A k \in 1 .. Len(lines) : after[k] = lines[k]
        /\ \A k \in 2 .. n : k \in 1 .. Len(lines)
  BY DEF Extends
<1>2. ASSUME NEW k \in 2 .. n
      PROVE  /\ k \in 2 .. Len(lines) /\ after[k] = lines[k]
             /\ ~lines[k].header /\ lines[k].columns = h.columns
             /\ lines[k].job < w.job /\ lines[k].job \in Nat
  <2>1. k \in 1 .. Len(lines) /\ k >= 2
    BY <1>1
  <2>2. k \in 2 .. Len(lines) /\ after[k] = lines[k] /\ lines # <<>>
    BY <1>1, <2>1
  <2>3. lines[1] = h
    BY <2>2
  <2>4. ~lines[k].header /\ lines[k].columns = h.columns
    BY <2>2, <2>3 DEF ReadableLines
  <2>5. lines[k] \in Line
    BY <2>1, ElementOfSeq
  <2> QED
    BY <2>2, <2>4, <2>5 DEF Line
<1>3. \A k \in 2 .. Len(after) : k \in 2 .. n \/ k = n + 1
  BY <1>1
<1>4. ReadableLines(after)
  <2>1. \A k \in 2 .. Len(after) : ~after[k].header /\ after[k].columns = after[1].columns
    BY <1>1, <1>2, <1>3
  <2>2. ASSUME NEW k \in 2 .. Len(after), NEW l \in 2 .. Len(after), k < l
        PROVE  after[k].job < after[l].job
    <3>1. k \in 2 .. n
      BY <1>1, <2>2
    <3>2. CASE l = n + 1
      BY <3>1, <3>2, <1>1, <1>2
    <3>3. CASE l \in 2 .. n
      <4>1. /\ k \in 2 .. Len(lines) /\ l \in 2 .. Len(lines) /\ lines # <<>>
            /\ after[k] = lines[k] /\ after[l] = lines[l]
        BY <1>2, <3>1, <3>3
      <4>2. lines[k].job < lines[l].job
        BY <2>2, <4>1 DEF ReadableLines
      <4> QED
        BY <4>1, <4>2
    <3> QED
      BY <3>2, <3>3, <1>3
  <2>3. after[1].header
    BY <1>1
  <2> QED
    BY <2>1, <2>2, <2>3 DEF ReadableLines
<1>5. \A k \in 2 .. Len(after) : after[k].job <= w.job
  BY <1>1, <1>2, <1>3
<1>6. \E k \in 1 .. Len(after) : after[k] = w
  <2>1. n + 1 \in 1 .. Len(after)
    BY <1>1
  <2> QED
    BY <1>1, <2>1
<1>7. \A k \in 1 .. Len(lines) : k \in 1 .. Len(after) /\ after[k] = lines[k]
  BY <1>1
<1> QED
  BY <1>4, <1>5, <1>6, <1>7

\* The lines of the table, with those of a job appended.
WithRow(columns, i, j, status) ==
  (file.lines \o (IF FoundNone THEN <<header(columns)>> ELSE <<>>))
    \o <<rowOf(columns, i, j, status)>>

LEMMA RowAdded ==
  ASSUME NEW columns \in Columns, NEW i \in Writers,
         NEW j \in Nat, NEW status \in Exit,
         file.lines \in Seq(Line), TableReadable, Compatible(columns),
         \A k \in 2 .. Len(file.lines) : file.lines[k].job < j
  PROVE  /\ WithRow(columns, i, j, status) \in Seq(Line)
         /\ ReadableLines(WithRow(columns, i, j, status))
         /\ \A k \in 2 .. Len(WithRow(columns, i, j, status)) :
              WithRow(columns, i, j, status)[k].job <= j
         /\ \E k \in 1 .. Len(WithRow(columns, i, j, status)) :
              WithRow(columns, i, j, status)[k] = rowOf(columns, i, j, status)
         /\ \A k \in 1 .. Len(file.lines) :
              /\ k \in 1 .. Len(WithRow(columns, i, j, status))
              /\ WithRow(columns, i, j, status)[k] = file.lines[k]
<1> DEFINE start == IF FoundNone THEN <<header(columns)>> ELSE <<>>
<1> DEFINE after == WithRow(columns, i, j, status)
<1> DEFINE h == header(columns)
<1> DEFINE w == rowOf(columns, i, j, status)
<1> DEFINE lines == file.lines
<1>1. h \in Line /\ w \in Line
  BY DEF header, rowOf, Line, Writers
<1>2. /\ start = IF lines = <<>> THEN <<h>> ELSE <<>>
      /\ lines # <<>> => lines[1] = h
      /\ after = (lines \o start) \o <<w>>
  <2>1. lines # <<>> => Head(lines) = h
    BY DEF FoundNone, Compatible
  <2>2. lines # <<>> => Head(lines) = lines[1]
    OBVIOUS
  <2> QED
    BY <2>1, <2>2 DEF FoundNone, WithRow
<1>3. h.header /\ h.columns = columns
  BY DEF header
<1>4. ~w.header /\ w.columns = columns /\ w.job = j
  BY DEF rowOf
<1>5. /\ lines \in Seq(Line) /\ ReadableLines(lines)
      /\ \A k \in 2 .. Len(lines) : lines[k].job < j
  BY DEF TableReadable, ReadableLines
<1> HIDE DEF h, w, lines, start, after
<1>6. after \in Seq(Line) /\ Len(lines) \in Nat /\ Extends(lines, h, w, after)
  BY <1>1, <1>2, <1>5, LinesAppended
<1>7. /\ h.header /\ ~w.header /\ w.columns = h.columns /\ w.job \in Nat
      /\ lines # <<>> => lines[1] = h
      /\ \A k \in 2 .. Len(lines) : lines[k].job < w.job
  BY <1>2, <1>3, <1>4, <1>5
<1>8. /\ ReadableLines(after)
      /\ \A k \in 2 .. Len(after) : after[k].job <= w.job
      /\ \E k \in 1 .. Len(after) : after[k] = w
      /\ \A k \in 1 .. Len(lines) : k \in 1 .. Len(after) /\ after[k] = lines[k]
  BY ONLY <1>5, <1>6, <1>7, ExtendedReadable
<1>9. \A k \in 2 .. Len(after) : after[k].job <= j
  BY <1>4, <1>8
<1> QED
  BY <1>6, <1>8, <1>9 DEF w, lines, after

LEMMA AppendRowKeepsIInv == IInv /\ AppendRow => IInv'
<1> SUFFICES ASSUME IInv, AppendRow PROVE IInv'
  OBVIOUS
<1> USE DEF IInv
<1>1. /\ Running(Root) /\ inside[Root] /\ At(Root, "append")
      /\ inside' = [inside EXCEPT ![Root] = FALSE]
      /\ UNCHANGED <<job, implementation, place, outcome, aborted, exitCode, newFile>>
  BY DEF AppendRow, At, Done
<1>2. place[Root] = append
  BY <1>1, AtPlaces, RootIsARank
<1>3. Past(Root, examine) /\ ~Past(Root, append) /\ Past(Root, append)'
  <2>1. Past(Root, examine) /\ ~Past(Root, append)
    BY <1>1, <1>2, Places DEF Past
  <2>2. inside'[Root] = FALSE
    BY <1>1, RootIsARank DEF TypeInv
  <2> QED
    BY <1>1, <1>2, <2>1, <2>2 DEF Past, append, Last
<1>4. \A r \in JobRank : ~Past(r, verdict)'
  <2>1. \A r \in JobRank : ~Past(r, verdict)
    BY <1>1, <1>2, Places, NobodyBefore
  <2>2. verdict \in Nat /\ place[Root] # verdict
    BY <1>2, Places
  <2> QED
    BY <1>1, <2>1, <2>2, AloneKeepsPast DEF verdict, Last
<1>5. newFile = FoundNone /\ Compatible("trident")
  BY <1>3 DEF FoundInv
<1> DEFINE says == exitCode[Root]
<1> DEFINE after == WithRow("trident", implementation, job, says)
<1>6. /\ file.lines \in Seq(Line) /\ file' = [exists |-> file.exists, lines |-> after]
      /\ file.exists \in BOOLEAN
  BY <1>5 DEF TypeInv, AppendRow, WithRow
<1>7. /\ says \in Exit /\ job \in Nat
      /\ implementation \in Writers /\ "trident" \in Columns
  BY RootIsARank DEF TypeInv, Columns, Writers
<1>8. TableReadable /\ Compatible("trident")
  BY <1>5
<1> HIDE DEF says
<1>9. \A k \in 2 .. Len(file.lines) : file.lines[k].job < job
  BY <1>1, <1>3 DEF RowsInv, Running
<1>10. /\ after \in Seq(Line)
       /\ ReadableLines(after)
       /\ \A k \in 2 .. Len(after) : after[k].job <= job
       /\ \E k \in 1 .. Len(after) : after[k] = rowOf("trident", implementation, job, says)
       /\ \A k \in 1 .. Len(file.lines) : k \in 1 .. Len(after) /\ after[k] = file.lines[k]
  BY ONLY <1>6, <1>7, <1>8, <1>9, RowAdded DEF after
<1> HIDE DEF after
<1>11. file'.lines = after /\ file' \in [exists : BOOLEAN, lines : Seq(Line)]
  BY <1>6, <1>10
<1>12. TypeInv'
  <2>1. inside' \in [JobRank -> BOOLEAN]
    BY <1>1 DEF TypeInv
  <2>2. \A r \in JobRank : inside'[r] => place'[r] # 0
    BY <1>1 DEF TypeInv
  <2> QED
    BY <1>1, <1>11, <2>1, <2>2 DEF TypeInv, Last
<1>13. TableReadable'
  BY <1>10, <1>11 DEF TableReadable, ReadableLines
<1>14. RowsInv'
  BY <1>1, <1>3, <1>10, <1>11 DEF RowsInv
<1>15. Recorded(exitCode[Root])' /\ \A status : Recorded(status) => Recorded(status)'
  <2>1. Recorded(exitCode[Root])'
    BY <1>1, <1>10, <1>11 DEF Recorded, rowOf, says
  <2>2. ASSUME NEW status, Recorded(status) PROVE Recorded(status)'
    <3>1. PICK k \in 1 .. Len(file.lines) :
            file.lines[k] = rowOf("trident", implementation, job, status)
      BY <2>2 DEF Recorded
    <3>2. k \in 1 .. Len(after) /\ after[k] = file.lines[k]
      BY <1>10
    <3> QED
      BY <1>1, <1>11, <3>1, <3>2 DEF Recorded, rowOf
  <2> QED
    BY <2>1, <2>2
<1>16. VerdictInv'
  BY <1>4, <1>15 DEF VerdictInv
<1>17. FoundInv'
  BY <1>3 DEF FoundInv
<1>18. ReturnedIsRecorded'
  <2>1. \A r \in JobRank : outcome[r] \in {"success", "failure"} => Recorded(outcome[r])
    BY DEF ReturnedIsRecorded, Recorded
  <2>2. \A r \in JobRank : outcome[r] \in {"success", "failure"} => Recorded(outcome[r])'
    BY <1>1, <1>15, <2>1
  <2> QED
    BY <1>1, <2>2 DEF ReturnedIsRecorded, Recorded
<1> QED
  BY <1>12, <1>13, <1>14, <1>16, <1>17, <1>18

\* A baseline leaves a table as readable, and its own job to nobody.
LEMMA BaselineJobKeepsIInv == IInv /\ BaselineJob => IInv'
<1> SUFFICES ASSUME IInv, BaselineJob PROVE IInv'
  OBVIOUS
<1> USE DEF IInv
<1> DEFINE after == WithRow("baseline", "baseline", job + 1, "success")
<1>1. /\ Compatible("baseline")
      /\ job' = job + 1 /\ implementation' = implementation
      /\ place' = [r \in JobRank |-> 0] /\ inside' = [r \in JobRank |-> FALSE]
      /\ outcome' = [r \in JobRank |-> "none"]
      /\ exitCode' = [r \in JobRank |-> "success"] /\ newFile' = FALSE
      /\ \E lines \in {file.lines, after} : file' = [exists |-> TRUE, lines |-> lines]
  BY DEF BaselineJob, Enters, WithRow
<1>2. /\ file.lines \in Seq(Line) /\ job \in Nat /\ job + 1 \in Nat
      /\ "baseline" \in Columns /\ "baseline" \in Writers
      /\ "success" \in Exit
  BY DEF TypeInv, Columns, Writers, Exit
<1>3. \A k \in 2 .. Len(file.lines) :
        file.lines[k].job < job + 1 /\ file.lines[k].job <= job + 1
  <2> SUFFICES ASSUME NEW k \in 2 .. Len(file.lines)
               PROVE  file.lines[k].job < job + 1 /\ file.lines[k].job <= job + 1
    OBVIOUS
  <2>1. Len(file.lines) \in Nat
    BY <1>2, LenProperties
  <2>2. k \in 1 .. Len(file.lines)
    BY <2>1
  <2>3. file.lines[k] \in Line
    BY <1>2, <2>2, ElementOfSeq
  <2>4. file.lines[k].job \in Nat /\ file.lines[k].job <= job
    BY <2>3 DEF RowsInv, Line
  <2> QED
    BY <1>2, <2>4
<1>4. TableReadable
  OBVIOUS
<1>5. /\ after \in Seq(Line)
      /\ ReadableLines(after)
      /\ \A k \in 2 .. Len(after) : after[k].job <= job + 1
  BY <1>1, <1>2, <1>3, <1>4, RowAdded DEF after
<1> HIDE DEF after
<1>6. ReadableLines(file.lines)
  BY DEF TableReadable, ReadableLines
<1>7. PICK lines \in {file.lines, after} : file' = [exists |-> TRUE, lines |-> lines]
  BY <1>1
<1>8. /\ lines \in Seq(Line) /\ ReadableLines(lines)
      /\ \A k \in 2 .. Len(lines) : lines[k].job <= job + 1
  <2>1. CASE lines = after
    BY <2>1, <1>5
  <2>2. CASE lines = file.lines
    <3>1. \A k \in 2 .. Len(file.lines) : file.lines[k].job <= job + 1
      BY <1>3
    <3> QED
      BY <2>2, <3>1, <1>2, <1>6
  <2> QED
    BY <1>7, <2>1, <2>2
<1>9. file'.lines = lines /\ file' \in [exists : BOOLEAN, lines : Seq(Line)]
  BY <1>7, <1>8
<1>10. TypeInv'
  <2>1. place' \in [JobRank -> (0 .. Last)']
    BY <1>1, Places DEF Last
  <2>2. exitCode' \in [JobRank -> Exit] /\ inside' \in [JobRank -> BOOLEAN]
    BY <1>1 DEF Exit
  <2>3. outcome' \in [JobRank -> Exit \cup {"none", "usage", "running", "aborted", "killed"}]
    BY <1>1
  <2>4. \A r \in JobRank : inside'[r] => place'[r] # 0
    BY <1>1
  <2>5. implementation' \in Implementations
    BY <1>1 DEF TypeInv
  <2> QED
    BY <1>1, <1>2, <1>9, <2>1, <2>2, <2>3, <2>4, <2>5 DEF TypeInv
<1>11. \A r \in JobRank : ~Past(r, verdict)' /\ ~Past(r, append)' /\ ~Past(r, examine)'
  BY <1>1, Places DEF Past, verdict, append, examine, Last
<1>12. VerdictInv' /\ FoundInv'
  BY <1>11, RootIsARank DEF VerdictInv, FoundInv
<1>13. TableReadable'
  BY <1>8, <1>9 DEF TableReadable, ReadableLines
<1>14. ReturnedIsRecorded'
  BY <1>1, RootIsARank DEF ReturnedIsRecorded
<1>15. RowsInv'
  BY <1>1, <1>8, <1>9, RootIsARank DEF RowsInv
<1> QED
  BY <1>10, <1>12, <1>13, <1>14, <1>15

-----------------------------------------------------------------------------

LEMMA StutterKeepsIInv == IInv /\ UNCHANGED vars => IInv'
<1> SUFFICES ASSUME IInv, UNCHANGED vars PROVE IInv'
  OBVIOUS
<1>1. outcome' \in [JobRank -> Exit \cup {"none", "usage", "running", "aborted", "killed"}]
  BY DEF IInv, TypeInv, vars
<1> QED
  BY <1>1, OutcomesKeepIInv DEF vars

LEMMA NextKeepsIInv == IInv /\ [Next]_vars => IInv'
<1> SUFFICES ASSUME IInv, [Next]_vars PROVE IInv'
  OBVIOUS
<1>1. CASE StartJob \/ BaselineJob
  BY <1>1, StartJobKeepsIInv, BaselineJobKeepsIInv
<1>2. CASE RootWork
  BY <1>2, ValidateKeepsIInv, ExamineKeepsIInv, OpenKeepsIInv, AppendRowKeepsIInv,
     ThrowKeepsIInv, RootIsARank DEF RootWork, Refuse
<1>3. ASSUME NEW r \in JobRank, RankStep(r) \/ Throw(r) \/ AbortArrives(r) PROVE IInv'
  BY <1>3, EnterKeepsIInv, LeaveKeepsIInv, ReturnKeepsIInv, ThrowKeepsIInv DEF RankStep
<1>4. CASE TimeLimit
  BY <1>4, TimeLimitKeepsIInv
<1>5. CASE NoMoreJobs \/ UNCHANGED vars
  BY <1>5, StutterKeepsIInv DEF NoMoreJobs
<1> QED
  BY <1>1, <1>2, <1>3, <1>4, <1>5 DEF Next

LEMMA Invariance == Spec => []IInv
<1>1. Init => IInv
  BY InitEstablishesIInv
<1>2. IInv /\ [Next]_vars => IInv'
  BY NextKeepsIInv
<1> QED
  BY <1>1, <1>2, PTL DEF Spec

\* A rank that reports a success or a failure of its job has it in the table:
\* the row of the job is there, and says the same.
THEOREM Recording == Spec => []ReturnedIsRecorded
<1>1. IInv => ReturnedIsRecorded
  BY DEF IInv
<1> QED
  BY <1>1, Invariance, PTL

\* Whichever programs took turns, and whichever jobs were aborted or killed and
\* where, the table has one header, rows of its columns only, and at most one
\* row of a job.
THEOREM Readable == Spec => []TableReadable
<1>1. IInv => TableReadable
  BY DEF IInv
<1> QED
  BY <1>1, Invariance, PTL

-----------------------------------------------------------------------------
(***************************************************************************)
(* run, for any number of attempts, cases and variants.                    *)
(*                                                                         *)
(* The lock of the node count lets one attempt work at a time (AloneInv),  *)
(* so what it found in the tables still holds when it replaces one of them *)
(* (PresentInv, TempInv).  Pilots and probes come first because of the     *)
(* order of the work (FirstOfAll); a check leaves the work only when its   *)
(* row is there, so that a case whose turn it is has been checked          *)
(* (CheckInv).                                                             *)
(***************************************************************************)

\* An attempt is in perform.
Performing(a) == pc[a] \in {"case", "append", "replace"}

check(k, v) == [kind |-> k, variant |-> v, case |-> 0]

\* Cases have numbers, and checks are of variants that have a case to do.
CasesNumbered(todo) == \A o \in todo : o.kind = "main" => o.case # 0

Needed(todo) ==
  \A o \in todo : o.kind # "main" =>
    \E p \in todo : p.kind = "main" /\ p.variant = o.variant

AloneInv == \A a \in Attempt : pc[a] # "out" => holder["execution"] = a

WorkInv ==
  \A a \in Attempt : pc[a] # "out" =>
    CasesNumbered(work[a]) /\ Needed(work[a]) /\ (Performing(a) => work[a] # {})

\* The checks of a case that is still to do are to do or have been recorded.
CheckInv ==
  \A a \in Attempt : pc[a] # "out" =>
    \A o \in work[a] : o.kind = "main" =>
      \A k \in {"pilot", "probe"} :
        check(k, o.variant) \in work[a] \/ Rows(<<k, o.variant>>) # {}

TableInv == \A t \in Table : \A o \in Rows(t) : TableOf(o) = t

\* What perform found is recorded, and what it did not find still is not.
PresentInv ==
  \A a \in Attempt : Performing(a) =>
    /\ \A o \in present[a] : o \in Rows(TableOf(o))
    /\ \A o \in work[a] :
         o.kind = current(a).kind /\ o \notin present[a] => o \notin Rows(TableOf(o))
    /\ pc[a] # "case" => current(a) \notin present[a]

TempInv ==
  \A a \in Attempt : pc[a] = "replace" =>
    temp[a] = Append(table[TableOf(current(a))], current(a))

RunInv ==
  /\ TypeOK
  /\ AloneInv
  /\ WorkInv
  /\ CheckInv
  /\ TableInv
  /\ PresentInv
  /\ TempInv
  /\ OnceAndChecked
  /\ CompleteHasAll

-----------------------------------------------------------------------------
LEMMA FirstCaseNumber ==
  ASSUME NEW W \in SUBSET Observation, CasesNumbered(W), NEW p \in W, p.kind = "main"
  PROVE  FirstCase(W, p.variant) \in 1 .. Cases
<1> DEFINE C == {o.case : o \in {q \in W : q.kind = "main" /\ q.variant = p.variant}}
<1>1. \A o \in W : o.kind = "main" => o.case \in 1 .. Cases
  BY PlanAssumption DEF CasesNumbered, Observation, Case
<1>2. C \in SUBSET Nat /\ C \subseteq 1 .. Cases
  BY <1>1
<1>3. p.case \in C
  OBVIOUS
<1> HIDE DEF C
<1>4. \E c \in C : \A d \in C : c <= d
  BY <1>2, <1>3, Smallest
<1>5. (CHOOSE c \in C : \A d \in C : c <= d) \in C
  BY <1>4
<1> QED
  BY <1>2, <1>5 DEF FirstCase, C

\* The turns of pilots, of probes and of cases.
LEMMA TurnOfKind ==
  ASSUME NEW W \in SUBSET Observation, CasesNumbered(W), Needed(W), NEW o \in W
  PROVE  /\ Turn(W, o) \in Nat
         /\ o.kind \in Kind
         /\ o.kind = "pilot" => Turn(W, o) \in 1 .. Cases
         /\ o.kind = "probe" => Turn(W, o) \in Cases + 1 .. 2 * Cases
         /\ o.kind = "main" => Turn(W, o) \in 2 * Cases + 1 .. 3 * Cases
<1> USE PlanAssumption
<1>1. o.kind \in Kind /\ o.case \in Case \cup {0}
  BY DEF Observation
<1>2. CASE o.kind = "pilot"
  <2>1. FirstCase(W, o.variant) \in 1 .. Cases
    BY <1>2, FirstCaseNumber DEF Needed
  <2> QED
    BY <1>2, <2>1 DEF Turn, Kind
<1>3. CASE o.kind = "probe"
  <2>1. FirstCase(W, o.variant) \in 1 .. Cases
    BY <1>3, FirstCaseNumber DEF Needed
  <2> QED
    BY <1>3, <2>1 DEF Turn, Kind
<1>4. CASE o.kind = "main"
  <2>1. o.case \in 1 .. Cases
    BY <1>1, <1>4 DEF CasesNumbered, Case
  <2>2. Turn(W, o) = 2 * Cases + o.case
    BY <1>4 DEF Turn
  <2> QED
    BY <1>4, <2>1, <2>2 DEF Kind
<1> QED
  BY <1>1, <1>2, <1>3, <1>4 DEF Kind

first(W) == CHOOSE o \in W : \A p \in W : Turn(W, o) <= Turn(W, p)

\* Pilots come first, then probes.
LEMMA FirstOfAll ==
  ASSUME NEW W \in SUBSET Observation, CasesNumbered(W), Needed(W), W # {}
  PROVE  /\ first(W) \in W
         /\ \A p \in W : p.kind = "pilot" => first(W).kind = "pilot"
         /\ \A p \in W : p.kind = "probe" => first(W).kind \in {"pilot", "probe"}
<1> USE PlanAssumption
<1> DEFINE T == {Turn(W, o) : o \in W}
<1>1. T \in SUBSET Nat /\ T # {}
  BY TurnOfKind
<1>2. \E x \in T : \A y \in T : x <= y
  <2> HIDE DEF T
  <2> QED
    BY <1>1, Smallest
<1>3. PICK w \in W : \A y \in T : Turn(W, w) <= y
  BY <1>2
<1>4. \A p \in W : Turn(W, p) \in T
  OBVIOUS
<1>5. \E o \in W : \A p \in W : Turn(W, o) <= Turn(W, p)
  BY <1>3, <1>4
<1>6. first(W) \in W /\ \A p \in W : Turn(W, first(W)) <= Turn(W, p)
  BY <1>5 DEF first
<1>7. ASSUME NEW p \in W, p.kind = "pilot" PROVE first(W).kind = "pilot"
  <2>1. Turn(W, p) \in 1 .. Cases /\ Turn(W, first(W)) \in Nat
    BY <1>6, <1>7, TurnOfKind
  <2>2. Turn(W, first(W)) <= Cases
    BY <1>6, <2>1
  <2>3. first(W).kind # "probe"
    <3> SUFFICES ASSUME first(W).kind = "probe" PROVE FALSE
      OBVIOUS
    <3>1. Turn(W, first(W)) \in Cases + 1 .. 2 * Cases
      BY <1>6, TurnOfKind
    <3> QED
      BY <2>2, <3>1
  <2>4. first(W).kind # "main"
    <3> SUFFICES ASSUME first(W).kind = "main" PROVE FALSE
      OBVIOUS
    <3>1. Turn(W, first(W)) \in 2 * Cases + 1 .. 3 * Cases
      BY <1>6, TurnOfKind
    <3> QED
      BY <2>2, <3>1
  <2>5. first(W).kind \in Kind
    BY <1>6, TurnOfKind
  <2> QED
    BY <2>3, <2>4, <2>5 DEF Kind
<1>8. ASSUME NEW p \in W, p.kind = "probe" PROVE first(W).kind \in {"pilot", "probe"}
  <2>1. Turn(W, p) \in Cases + 1 .. 2 * Cases /\ Turn(W, first(W)) \in Nat
    BY <1>6, <1>8, TurnOfKind
  <2>2. Turn(W, first(W)) <= 2 * Cases
    BY <1>6, <2>1
  <2>3. first(W).kind # "main"
    <3> SUFFICES ASSUME first(W).kind = "main" PROVE FALSE
      OBVIOUS
    <3>1. Turn(W, first(W)) \in 2 * Cases + 1 .. 3 * Cases
      BY <1>6, TurnOfKind
    <3> QED
      BY <2>2, <3>1
  <2>4. first(W).kind \in Kind
    BY <1>6, TurnOfKind
  <2> QED
    BY <2>3, <2>4 DEF Kind
<1> QED
  BY <1>6, <1>7, <1>8

\* When a check is done with, the next one of its kind is the current one.
LEMMA FirstOfRest ==
  ASSUME NEW W \in SUBSET Observation, CasesNumbered(W), Needed(W), W # {},
         first(W).kind # "main",
         NEW p \in W \ {first(W)}, p.kind = first(W).kind
  PROVE  first(W \ {first(W)}).kind = first(W).kind
<1> DEFINE f == first(W)
           V == W \ {f}
<1>1. f \in W /\ f.kind \in Kind /\ f.kind # "main"
  BY FirstOfAll, TurnOfKind
<1>2. V \in SUBSET Observation /\ CasesNumbered(V) /\ V # {}
  BY DEF CasesNumbered
<1>3. Needed(V)
  BY <1>1 DEF Needed
<1>4. /\ first(V) \in V
      /\ \A q \in V : q.kind = "pilot" => first(V).kind = "pilot"
      /\ \A q \in V : q.kind = "probe" => first(V).kind \in {"pilot", "probe"}
  <2> HIDE DEF V
  <2> QED
    BY <1>2, <1>3, FirstOfAll
<1>5. CASE f.kind = "pilot"
  BY <1>4, <1>5
<1>6. CASE f.kind = "probe"
  <2>1. first(V).kind # "pilot"
    <3>1. first(V) \in W
      BY <1>4
    <3> QED
      BY <1>6, <3>1, FirstOfAll
  <2> QED
    BY <1>4, <1>6, <2>1
<1> QED
  BY <1>1, <1>5, <1>6 DEF Kind

LEMMA Appended ==
  ASSUME NEW S, NEW s \in Seq(S), NEW o \in S
  PROVE  /\ Append(s, o) \in Seq(S)
         /\ Range(Append(s, o)) = Range(s) \cup {o}
         /\ IsInjective(s) /\ o \notin Range(s) => IsInjective(Append(s, o))
<1>1. /\ Append(s, o) \in Seq(S)
      /\ DOMAIN Append(s, o) = 1 .. Len(s) + 1
      /\ \A i \in 1 .. Len(s) : Append(s, o)[i] = s[i]
      /\ Append(s, o)[Len(s) + 1] = o
      /\ DOMAIN s = 1 .. Len(s)
      /\ Len(s) \in Nat
  OBVIOUS
<1> DEFINE l == Append(s, o)
<1> HIDE DEF l
<1>2. \A i \in 1 .. Len(s) + 1 : i \in 1 .. Len(s) \/ i = Len(s) + 1
  BY <1>1
<1>3. 1 .. Len(s) \subseteq 1 .. Len(s) + 1 /\ Len(s) + 1 \in 1 .. Len(s) + 1
  BY <1>1
<1>4. Range(l) = Range(s) \cup {o}
  BY <1>1, <1>2, <1>3 DEF Range, l
<1>5. ASSUME IsInjective(s), o \notin Range(s) PROVE IsInjective(l)
  <2>1. \A i \in 1 .. Len(s) : s[i] # o
    BY <1>1, <1>5 DEF Range
  <2>2. \A i, j \in 1 .. Len(s) : s[i] = s[j] => i = j
    BY <1>1, <1>5 DEF IsInjective
  <2> QED
    BY <1>1, <1>2, <2>1, <2>2 DEF IsInjective, l
<1> QED
  BY <1>1, <1>4, <1>5 DEF l

\* The lock of the node count lets one attempt run.
LEMMA RunsAlone ==
  ASSUME RunInv, NEW a \in Attempt, pc[a] # "out"
  PROVE  \A b \in Attempt \ {a} : pc[b] = "out"
BY DEF RunInv, AloneInv

LEMMA CurrentCase ==
  ASSUME RunInv, NEW a \in Attempt, pc[a] # "out", work[a] # {}
  PROVE  /\ current(a) = first(work[a])
         /\ work[a] \in SUBSET Observation /\ CasesNumbered(work[a]) /\ Needed(work[a])
         /\ current(a) \in work[a]
         /\ current(a) \in Observation
         /\ current(a).kind \in Kind
         /\ TableOf(current(a)) \in Table
<1>1. work[a] \in SUBSET Observation /\ CasesNumbered(work[a]) /\ Needed(work[a])
  BY DEF RunInv, TypeOK, WorkInv
<1>2. current(a) = first(work[a])
  BY DEF current, first
<1>3. first(work[a]) \in work[a]
  BY <1>1, FirstOfAll
<1>4. \A o \in Observation : o.kind \in Kind /\ o.variant \in Variant
  BY DEF Observation
<1> QED
  BY <1>1, <1>2, <1>3, <1>4 DEF TableOf, Table

\* When it is a case's turn, its checks have been recorded.
LEMMA CheckedByThen ==
  ASSUME RunInv, NEW a \in Attempt, pc[a] # "out", work[a] # {},
         current(a).kind = "main"
  PROVE  /\ \A o \in work[a] : o.kind = "main"
         /\ Rows(<<"pilot", current(a).variant>>) # {}
         /\ Rows(<<"probe", current(a).variant>>) # {}
<1>1. \A o \in work[a] : o.kind \notin {"pilot", "probe"}
  BY CurrentCase, FirstOfAll
<1>2. \A o \in work[a] : o.kind \in Kind
  BY CurrentCase DEF Observation
<1>3. ASSUME NEW k \in {"pilot", "probe"} PROVE Rows(<<k, current(a).variant>>) # {}
  <2>1. check(k, current(a).variant) \notin work[a]
    BY <1>1, <1>3 DEF check
  <2> QED
    BY <1>3, <2>1, CurrentCase DEF RunInv, CheckInv
<1> QED
  BY <1>1, <1>2, <1>3 DEF Kind

\* What a step does to the tables.
Records(o) ==
  \A t \in Table :
    /\ Rows(t) \subseteq Rows(t)'
    /\ \A q \in Rows(t)' : q \in Rows(t) \/ (q = o /\ t = TableOf(o))

LEMMA AppendRecords ==
  ASSUME RunInv, NEW o \in Observation,
         table' = [table EXCEPT ![TableOf(o)] = Append(table[TableOf(o)], o)],
         o \notin Rows(TableOf(o))
  PROVE  /\ table' \in [Table -> Seq(Observation)]
         /\ NoDuplicate'
         /\ Records(o)
         /\ o \in Rows(TableOf(o))'
<1> DEFINE u == TableOf(o)
<1>1. u \in Table /\ table \in [Table -> Seq(Observation)] /\ table[u] \in Seq(Observation)
  BY DEF TableOf, Table, Observation, RunInv, TypeOK
<1>2. /\ Append(table[u], o) \in Seq(Observation)
      /\ Range(Append(table[u], o)) = Range(table[u]) \cup {o}
      /\ IsInjective(table[u]) => IsInjective(Append(table[u], o))
  BY <1>1, Appended DEF Rows
<1>3. table'[u] = Append(table[u], o) /\ \A t \in Table : t # u => table'[t] = table[t]
  BY <1>1
<1>4. table' \in [Table -> Seq(Observation)]
  BY <1>1, <1>2
<1> HIDE DEF u
<1>5. NoDuplicate'
  BY <1>2, <1>3 DEF NoDuplicate, RunInv, OnceAndChecked
<1>6. o \in Rows(u)' /\ \A q \in Rows(u)' : q \in Rows(u) \/ q = o
  BY <1>2, <1>3 DEF Rows
<1>7. Rows(u) \subseteq Rows(u)'
  BY <1>2, <1>3 DEF Rows
<1>8. \A t \in Table : t # u => Rows(t)' = Rows(t)
  BY <1>3 DEF Rows
<1> QED
  BY <1>4, <1>5, <1>6, <1>7, <1>8 DEF Records, u

\* What was complete stays complete when rows are added.
LEMMA RowsAdded ==
  ASSUME RunInv, \A t \in Table : Rows(t) \subseteq Rows(t)', NEW j \in Job, missing(j) = {}
  PROVE  missing(j)' = {}
<1>1. \A c \in Case : MainCase(c) \in Observation
  BY PlanAssumption DEF MainCase, Observation, Case, Variant, Kind
<1>2. \A o \in Block(j) : TableOf(o) \in Table
  BY <1>1 DEF Block, TableOf, Table, Observation
<1>3. \A o \in Block(j) : o \in Rows(TableOf(o))
  BY DEF missing
<1>4. \A o \in Block(j) : o \in Rows(TableOf(o))'
  BY <1>2, <1>3
<1> QED
  BY <1>4 DEF missing

\* An attempt is done with its case, which may have been recorded.
LEMMA AdvanceStep ==
  ASSUME RunInv, NEW a \in Attempt, Performing(a), Advance(a),
         UNCHANGED <<state, key, starts>>,
         temp' \in [Attempt -> Seq(Observation)],
         table' \in [Table -> Seq(Observation)], NoDuplicate',
         Records(current(a)),
         current(a).kind = "main" \/ current(a) \in Range(table'[TableOf(current(a))])
  PROVE  RunInv'
<1> DEFINE o == current(a)
           rest == work[a] \ {o}
           on == o.kind # "main" /\ \E p \in rest : p.kind = o.kind
<1>1. pc[a] # "out" /\ work[a] # {}
  BY DEF Performing, RunInv, WorkInv
<1>2. /\ o = first(work[a])
      /\ work[a] \in SUBSET Observation /\ CasesNumbered(work[a]) /\ Needed(work[a])
      /\ o \in work[a]
      /\ o \in Observation
      /\ o.kind \in Kind
      /\ TableOf(o) \in Table
  BY <1>1, CurrentCase
<1>3. \A b \in Attempt \ {a} : pc[b] = "out"
  BY <1>1, RunsAlone
<1>4. /\ pc \in [Attempt -> {"out", "next", "case", "append", "replace", "close"}]
      /\ work \in [Attempt -> SUBSET Observation]
      /\ present \in [Attempt -> SUBSET Observation]
      /\ holder \in [Lock -> Attempt \cup {None}]
  BY DEF RunInv, TypeOK
<1>5. /\ work' = [work EXCEPT ![a] = rest]
      /\ pc' = [pc EXCEPT ![a] = IF on THEN "case" ELSE "next"]
      /\ holder' = IF on THEN holder ELSE [holder EXCEPT ![o.kind] = None]
      /\ present' = IF on THEN present ELSE [present EXCEPT ![a] = {}]
  BY DEF Advance
<1>6. /\ \A t \in Table : Rows(t) \subseteq Rows(t)'
      /\ \A t \in Table : \A q \in Rows(t)' : q \in Rows(t) \/ (q = o /\ t = TableOf(o))
  BY DEF Records
<1>7. \A q \in Observation : TableOf(q) \in Table
  BY DEF TableOf, Table, Observation
<1>8. CasesNumbered(rest) /\ rest \in SUBSET Observation
  BY <1>2 DEF CasesNumbered
<1>9. Needed(rest)
  <2>1. CASE o.kind = "main"
    <3>1. \A q \in work[a] : q.kind = "main"
      BY <1>1, <2>1, CheckedByThen
    <3> QED
      BY <3>1 DEF Needed
  <2>2. CASE o.kind # "main"
    BY <1>2, <2>2 DEF Needed
  <2> QED
    BY <2>1, <2>2
<1>10. /\ work'[a] = rest
       /\ pc'[a] = IF on THEN "case" ELSE "next"
       /\ \A b \in Attempt \ {a} : pc'[b] = "out"
       /\ on => present'[a] = present[a]
       /\ holder'["execution"] = holder["execution"]
  <2>1. o.kind # "execution" /\ "execution" \in Lock /\ o.kind \in Lock
    BY <1>2 DEF Kind, Lock
  <2> HIDE DEF o, rest, on
  <2> QED
    BY <1>3, <1>4, <1>5, <2>1
<1>11. on => rest # {} /\ current(a)'.kind = o.kind
  <2> SUFFICES ASSUME on PROVE rest # {} /\ current(a)'.kind = o.kind
    OBVIOUS
  <2>1. PICK p \in rest : p.kind = o.kind
    OBVIOUS
  <2>2. first(rest).kind = o.kind
    BY <1>1, <1>2, <2>1, FirstOfRest
  <2>3. current(a)' = first(work'[a])
    BY DEF current, first, Turn, FirstCase
  <2> QED
    BY <1>10, <2>1, <2>2, <2>3
<1> HIDE DEF on, rest, o
<1>12. TypeOK'
  <2>1. work' \in [Attempt -> SUBSET Observation]
    BY <1>4, <1>5, <1>8
  <2>2. pc' \in [Attempt -> {"out", "next", "case", "append", "replace", "close"}]
    BY <1>4, <1>5
  <2>3. holder' \in [Lock -> Attempt \cup {None}]
    BY <1>4, <1>5
  <2>4. present' \in [Attempt -> SUBSET Observation]
    BY <1>4, <1>5
  <2> QED
    BY <2>1, <2>2, <2>3, <2>4 DEF RunInv, TypeOK
<1>13. AloneInv'
  <2>1. holder["execution"] = a
    BY <1>1 DEF RunInv, AloneInv
  <2> QED
    BY <1>10, <2>1 DEF AloneInv
<1>14. WorkInv'
  <2>1. ASSUME NEW b \in Attempt, pc'[b] # "out"
        PROVE  CasesNumbered(work'[b]) /\ Needed(work'[b]) /\ (Performing(b)' => work'[b] # {})
    <3>1. b = a
      BY <1>10, <2>1
    <3>2. Performing(a)' => on
      BY <1>10 DEF Performing
    <3> QED
      BY <1>8, <1>9, <1>10, <1>11, <3>1, <3>2
  <2>2. \A b \in Attempt : /\ CasesNumbered(work[b])' <=> CasesNumbered(work'[b])
                           /\ Needed(work[b])' <=> Needed(work'[b])
    BY DEF CasesNumbered, Needed
  <2> QED
    BY <2>1, <2>2 DEF WorkInv
<1>15. CheckInv'
  <2>1. ASSUME NEW q \in rest, q.kind = "main", NEW k \in {"pilot", "probe"}
        PROVE  check(k, q.variant) \in rest \/ Rows(<<k, q.variant>>)' # {}
    <3>1. q \in work[a] /\ q \in Observation /\ q.variant \in Variant
      BY <1>2, <1>8, <2>1 DEF rest, Observation
    <3>2. <<k, q.variant>> \in Table
      BY <2>1, <3>1 DEF Table, Kind
    <3>3. check(k, q.variant) \in work[a] \/ Rows(<<k, q.variant>>) # {}
      BY <1>1, <2>1, <3>1 DEF RunInv, CheckInv
    <3>4. CASE Rows(<<k, q.variant>>) # {}
      BY <1>6, <3>2, <3>4
    <3>5. CASE check(k, q.variant) = o
      <4>1. o.kind = k /\ TableOf(o) = <<k, q.variant>> /\ k # "main"
        BY <3>5 DEF check, TableOf
      <4>2. o \in Rows(<<k, q.variant>>)'
        BY <4>1 DEF o, Rows
      <4> QED
        BY <4>2
    <3> QED
      BY <3>3, <3>4, <3>5 DEF rest
  <2> QED
    BY <1>10, <2>1 DEF CheckInv, check
<1>16. TableInv'
  BY <1>6 DEF RunInv, TableInv
<1>17. PresentInv'
  <2>1. ASSUME NEW b \in Attempt, Performing(b)' PROVE b = a /\ on /\ pc'[b] = "case"
    BY <1>10, <2>1 DEF Performing
  <2>2. ASSUME NEW q \in present[a] PROVE q \in Rows(TableOf(q))'
    BY <1>4, <1>6, <1>7, <2>2 DEF RunInv, PresentInv
  <2>3. ASSUME NEW q \in rest, q.kind = o.kind, q \notin present[a]
        PROVE  q \notin Rows(TableOf(q))'
    <3>1. q \in work[a] /\ q # o
      BY <2>3 DEF rest
    <3>2. q \notin Rows(TableOf(q))
      BY <2>3, <3>1 DEF RunInv, PresentInv, o
    <3>3. TableOf(q) \in Table
      BY <1>7, <1>8, <2>3
    <3> QED
      BY <1>6, <3>1, <3>2, <3>3
  <2>4. \A q : TableOf(q)' = TableOf(q)
    BY DEF TableOf
  <2> QED
    BY <1>10, <1>11, <2>1, <2>2, <2>3, <2>4 DEF PresentInv
<1>18. TempInv'
  BY <1>10 DEF TempInv
<1>19. OnceAndChecked'
  <2>1. ASSUME NEW v \in Variant, Rows(<<"main", v>>)' # {}
        PROVE  Rows(<<"pilot", v>>)' # {} /\ Rows(<<"probe", v>>)' # {}
    <3>1. /\ <<"main", v>> \in Table
          /\ <<"pilot", v>> \in Table
          /\ <<"probe", v>> \in Table
      BY DEF Table, Kind
    <3>2. PICK q \in Rows(<<"main", v>>)' : TRUE
      BY <2>1
    <3>3. CASE q \in Rows(<<"main", v>>)
      <4>1. Rows(<<"pilot", v>>) # {} /\ Rows(<<"probe", v>>) # {}
        BY <3>3 DEF RunInv, OnceAndChecked, ChecksFirst
      <4> QED
        BY <1>6, <3>1, <4>1
    <3>4. CASE TableOf(o) = <<"main", v>>
      <4>1. o.kind = "main" /\ o.variant = v
        BY <3>4 DEF TableOf
      <4>2. Rows(<<"pilot", v>>) # {} /\ Rows(<<"probe", v>>) # {}
        BY <1>1, <4>1, CheckedByThen DEF o
      <4> QED
        BY <1>6, <3>1, <4>2
    <3> QED
      BY <1>6, <3>1, <3>2, <3>3, <3>4
  <2> QED
    BY <2>1 DEF OnceAndChecked, ChecksFirst
<1>20. CompleteHasAll'
  BY <1>6, RowsAdded DEF RunInv, CompleteHasAll
<1> QED
  BY <1>12, <1>13, <1>14, <1>15, <1>16, <1>17, <1>18, <1>19, <1>20 DEF RunInv

LEMMA ZeroJob == 0 \in Job
<1>1. 1 \in Case /\ (1 - 1) \div PerJob = 0
  BY PlanAssumption DEF Case
<1> QED
  BY <1>1 DEF Job

LEMMA InitStep ==
  ASSUME RunInit
  PROVE  RunInv
<1> USE PlanAssumption
<1>1. 0 \in Job
  BY ZeroJob
<1>2. \A t \in Table : Rows(t) = {}
  BY DEF RunInit, Rows, Range
<1>3. TypeOK
  BY <1>1 DEF RunInit, TypeOK
<1>4. AloneInv /\ WorkInv /\ CheckInv /\ PresentInv /\ TempInv
  BY DEF RunInit, AloneInv, WorkInv, CheckInv, PresentInv, TempInv, Performing
<1>5. TableInv
  BY <1>2 DEF TableInv
<1>6. OnceAndChecked
  <2>1. NoDuplicate
    BY DEF RunInit, NoDuplicate, IsInjective
  <2>2. \A v \in Variant : <<"main", v>> \in Table
    BY DEF Table, Kind
  <2> QED
    BY <1>2, <2>1, <2>2 DEF OnceAndChecked, ChecksFirst
<1>7. CompleteHasAll
  BY DEF RunInit, CompleteHasAll
<1> QED
  BY <1>3, <1>4, <1>5, <1>6, <1>7 DEF RunInv

\* The plan of an attempt that begins.
LEMMA Planned ==
  ASSUME RunInv, NEW j \in Job
  PROVE  LET todo == missing(j)
             W == checks("pilot", selected(todo)) \cup checks("probe", selected(todo))
                  \cup todo
         IN  /\ W \in SUBSET Observation
             /\ CasesNumbered(W)
             /\ Needed(W)
             /\ \A o \in W : o.kind = "main" =>
                  \A k \in {"pilot", "probe"} : check(k, o.variant) \in W
<1> DEFINE todo == missing(j)
           P == checks("pilot", selected(todo))
           Q == checks("probe", selected(todo))
<1>1. \A o \in todo : \E c \in Case : o = MainCase(c)
  BY DEF missing, Block
<1>2. \A c \in Case : /\ MainCase(c) \in Observation
                      /\ MainCase(c).kind = "main"
                      /\ MainCase(c).case # 0
  BY PlanAssumption DEF MainCase, Observation, Case, Variant, Kind
<1>3. \A o \in todo : o \in Observation /\ o.kind = "main" /\ o.case # 0
  BY <1>1, <1>2
<1> HIDE DEF todo
<1>4. \A o \in todo : check("pilot", o.variant) \in P /\ check("probe", o.variant) \in Q
  BY DEF checks, check, selected
<1>5. ASSUME NEW k \in {"pilot", "probe"}, NEW o \in checks(k, selected(todo))
      PROVE  o \in Observation /\ o.kind = k /\ \E p \in todo : p.variant = o.variant
  <2>1. PICK p \in todo : o = [kind |-> k, variant |-> p.variant, case |-> 0]
    BY DEF checks, selected
  <2>2. p.variant \in Variant
    BY <1>3 DEF Observation
  <2> QED
    BY <1>5, <2>1, <2>2 DEF Observation, Kind
<1>6. \A o \in P \cup Q :
        o \in Observation /\ o.kind # "main" /\ \E p \in todo : p.variant = o.variant
  BY <1>5
<1> HIDE DEF P, Q
<1>7. P \cup Q \cup todo \in SUBSET Observation /\ CasesNumbered(P \cup Q \cup todo)
  BY <1>3, <1>6 DEF CasesNumbered
<1>8. Needed(P \cup Q \cup todo)
  BY <1>3, <1>6 DEF Needed
<1>9. \A o \in P \cup Q \cup todo : o.kind = "main" =>
        \A k \in {"pilot", "probe"} : check(k, o.variant) \in P \cup Q \cup todo
  BY <1>4, <1>6
<1> QED
  BY <1>7, <1>8, <1>9 DEF P, Q, todo

\* Steps that leave the files alone leave the properties alone.
LEMMA SameFiles ==
  ASSUME RunInv, UNCHANGED files
  PROVE  TableInv' /\ OnceAndChecked' /\ CompleteHasAll' /\ \A t : Rows(t)' = Rows(t)
<1>1. \A t : Rows(t)' = Rows(t)
  BY DEF files, Rows
<1>2. TableInv' /\ OnceAndChecked'
  BY <1>1 DEF files, TableInv, OnceAndChecked, NoDuplicate, ChecksFirst, RunInv
<1>3. CompleteHasAll'
  <2>1. state' = state /\ \A j \in Job : missing(j)' = missing(j)
    BY <1>1 DEF files, missing, Block
  <2> QED
    BY <2>1 DEF CompleteHasAll, RunInv
<1> QED
  BY <1>1, <1>2, <1>3

LEMMA SameCurrent ==
  ASSUME UNCHANGED work
  PROVE  \A b : current(b)' = current(b)
BY DEF current, Turn, FirstCase

LEMMA BeginStep ==
  ASSUME RunInv, NEW a \in Attempt, NEW j \in Job, Begin(a, j)
  PROVE  RunInv'
<1> DEFINE todo == missing(j)
           W == checks("pilot", selected(todo)) \cup checks("probe", selected(todo))
                \cup todo
<1>1. /\ Start /\ pc[a] = "out" /\ holder["execution"] = None
      /\ holder' = [holder EXCEPT !["execution"] = a]
      /\ pc' = [pc EXCEPT ![a] = "next"]
      /\ key' = [key EXCEPT ![a] = j]
      /\ work' = [work EXCEPT ![a] = W]
      /\ UNCHANGED <<files, present, temp>>
  BY DEF Begin, Free
<1>2. /\ W \in SUBSET Observation
      /\ CasesNumbered(W)
      /\ Needed(W)
      /\ \A o \in W : o.kind = "main" =>
           \A k \in {"pilot", "probe"} : check(k, o.variant) \in W
  BY Planned
<1> HIDE DEF W
<1>3. /\ pc \in [Attempt -> {"out", "next", "case", "append", "replace", "close"}]
      /\ work \in [Attempt -> SUBSET Observation]
      /\ key \in [Attempt -> Job]
      /\ holder \in [Lock -> Attempt \cup {None}]
      /\ starts \in 0 .. MaxStarts
  BY DEF RunInv, TypeOK
<1>4. \A b \in Attempt \ {a} : pc[b] = "out"
  BY <1>1, NoneAssumption DEF RunInv, AloneInv
<1>5. /\ pc'[a] = "next"
      /\ work'[a] = W
      /\ \A b \in Attempt \ {a} : pc'[b] = "out"
      /\ holder'["execution"] = a
  BY <1>1, <1>3, <1>4 DEF Lock
<1>6. starts' \in 0 .. MaxStarts
  BY <1>1, <1>3, PlanAssumption DEF Start
<1>7. TypeOK'
  <2>1. /\ holder' \in [Lock -> Attempt \cup {None}]
        /\ pc' \in [Attempt -> {"out", "next", "case", "append", "replace", "close"}]
        /\ key' \in [Attempt -> Job]
        /\ work' \in [Attempt -> SUBSET Observation]
    BY <1>1, <1>2, <1>3
  <2> QED
    BY <1>1, <1>6, <2>1 DEF RunInv, TypeOK, files
<1>8. AloneInv' /\ PresentInv' /\ TempInv'
  BY <1>5 DEF AloneInv, PresentInv, TempInv, Performing
<1>9. WorkInv'
  BY <1>2, <1>5 DEF WorkInv, Performing, CasesNumbered, Needed
<1>10. CheckInv'
  BY <1>2, <1>5 DEF CheckInv, check
<1> QED
  BY <1>1, <1>7, <1>8, <1>9, <1>10, SameFiles DEF RunInv

LEMMA BeginEndStep ==
  ASSUME RunInv, NEW a \in Attempt, NEW j \in Job, BeginEnd(a, j)
  PROVE  RunInv'
<1>1. starts' \in 0 .. MaxStarts /\ UNCHANGED <<holder, files, pc, key, work, present, temp>>
  BY PlanAssumption DEF BeginEnd, Start, RunInv, TypeOK
<1>2. TypeOK'
  BY <1>1 DEF RunInv, TypeOK, files
<1>3. \A b : current(b)' = current(b)
  BY <1>1, SameCurrent
<1>4. UNCHANGED table /\ \A t : Rows(t)' = Rows(t)
  BY <1>1, SameFiles DEF files
<1>5. AloneInv'
  BY <1>1 DEF RunInv, AloneInv
<1>6. WorkInv'
  BY <1>1 DEF RunInv, WorkInv, Performing, CasesNumbered, Needed
<1>7. CheckInv'
  BY <1>1, <1>4 DEF RunInv, CheckInv, check
<1>8. PresentInv'
  BY <1>1, <1>3, <1>4 DEF RunInv, PresentInv, Performing, TableOf
<1>9. TempInv'
  BY <1>1, <1>3, <1>4 DEF RunInv, TempInv, TableOf
<1> QED
  BY <1>1, <1>2, <1>5, <1>6, <1>7, <1>8, <1>9, SameFiles DEF RunInv

\* A step of an attempt that leaves its work and the tables alone.
LEMMA WorkingStep ==
  ASSUME RunInv, NEW a \in Attempt, pc[a] # "out",
         UNCHANGED <<table, key, work, starts>>,
         holder' \in [Lock -> Attempt \cup {None}],
         holder'["execution"] = holder["execution"],
         NEW to \in {"case", "append", "replace", "close"},
         pc' = [pc EXCEPT ![a] = to],
         to # "close" => work[a] # {},
         state' \in [Job -> {"absent", "incomplete", "complete"}],
         present' \in [Attempt -> SUBSET Observation],
         temp' \in [Attempt -> Seq(Observation)]
  PROVE  /\ TypeOK' /\ AloneInv' /\ WorkInv' /\ CheckInv' /\ TableInv' /\ OnceAndChecked'
         /\ pc'[a] = to /\ current(a)' = current(a)
         /\ \A b \in Attempt \ {a} : pc'[b] = "out"
         /\ \A t : Rows(t)' = Rows(t)
<1>1. pc \in [Attempt -> {"out", "next", "case", "append", "replace", "close"}]
  BY DEF RunInv, TypeOK
<1>2. pc'[a] = to /\ \A b \in Attempt \ {a} : pc'[b] = "out" /\ pc[b] = "out"
  BY <1>1, RunsAlone
<1>3. \A b : current(b)' = current(b)
  BY SameCurrent
<1>4. \A t : Rows(t)' = Rows(t)
  BY DEF Rows
<1>5. TypeOK'
  <2>1. pc' \in [Attempt -> {"out", "next", "case", "append", "replace", "close"}]
    BY <1>1
  <2> QED
    BY <2>1 DEF RunInv, TypeOK
<1>6. AloneInv'
  BY <1>2 DEF RunInv, AloneInv
<1>7. WorkInv'
  BY <1>2 DEF RunInv, WorkInv, Performing, CasesNumbered, Needed
<1>8. CheckInv'
  BY <1>2, <1>4 DEF RunInv, CheckInv, check
<1>9. TableInv'
  BY <1>4 DEF RunInv, TableInv, TableOf
<1>10. OnceAndChecked'
  BY <1>4 DEF RunInv, OnceAndChecked, NoDuplicate, ChecksFirst
<1> QED
  BY <1>2, <1>3, <1>4, <1>5, <1>6, <1>7, <1>8, <1>9, <1>10

LEMMA SameMissing ==
  ASSUME UNCHANGED table
  PROVE  \A j : missing(j)' = missing(j)
BY DEF missing, Block, Rows

\* What perform finds when it has the lock.
LEMMA PerformStep ==
  ASSUME RunInv, NEW a \in Attempt, Perform(a)
  PROVE  RunInv'
<1> DEFINE kind == current(a).kind
           found == UNION {Rows(<<kind, v>>) : v \in Variant}
<1>1. /\ pc[a] = "next" /\ work[a] # {}
      /\ holder' = [holder EXCEPT ![kind] = a]
      /\ present' = [present EXCEPT ![a] = found]
      /\ state' = IF kind = "main"
                  THEN [state EXCEPT ![key[a]] = "incomplete"] ELSE state
      /\ pc' = [pc EXCEPT ![a] = "case"]
      /\ UNCHANGED <<table, key, work, temp, starts>>
  BY DEF Perform
<1>2. /\ work[a] \in SUBSET Observation
      /\ kind \in Kind
  BY <1>1, CurrentCase
<1>3. /\ holder \in [Lock -> Attempt \cup {None}]
      /\ present \in [Attempt -> SUBSET Observation]
      /\ state \in [Job -> {"absent", "incomplete", "complete"}]
      /\ key[a] \in Job
      /\ temp \in [Attempt -> Seq(Observation)]
      /\ table \in [Table -> Seq(Observation)]
  BY DEF RunInv, TypeOK
<1>4. ASSUME NEW v \in Variant, NEW q \in Rows(<<kind, v>>)
      PROVE  q \in Observation /\ q \in Rows(TableOf(q))
  <2>1. <<kind, v>> \in Table
    BY <1>2 DEF Table
  <2>2. table[<<kind, v>>] \in Seq(Observation)
    BY <1>3, <2>1
  <2>3. q \in Observation
    BY <1>4, <2>2 DEF Rows, Range
  <2> QED
    BY <1>4, <2>1, <2>3 DEF RunInv, TableInv
<1>5. \A q \in found : q \in Observation /\ q \in Rows(TableOf(q))
  BY <1>4
<1>6. \A q \in work[a] : q.kind = kind /\ q \notin found => q \notin Rows(TableOf(q))
  <2> SUFFICES ASSUME NEW q \in work[a], q.kind = kind, q \in Rows(TableOf(q))
               PROVE  q \in found
    OBVIOUS
  <2>1. q.variant \in Variant /\ TableOf(q) = <<kind, q.variant>>
    BY <1>2 DEF Observation, TableOf
  <2> QED
    BY <2>1
<1> HIDE DEF found
<1>7. /\ holder' \in [Lock -> Attempt \cup {None}]
      /\ holder'["execution"] = holder["execution"]
  <2>1. kind # "execution" /\ kind \in Lock /\ "execution" \in Lock
    BY <1>2 DEF Kind, Lock
  <2> HIDE DEF kind
  <2> QED
    BY <1>1, <1>3, <2>1
<1> HIDE DEF kind
<1>8. /\ state' \in [Job -> {"absent", "incomplete", "complete"}]
      /\ \A j \in Job : state'[j] = "complete" => state[j] = "complete"
  BY <1>1, <1>3
<1>9. present' \in [Attempt -> SUBSET Observation] /\ present'[a] = found
  BY <1>1, <1>3, <1>5
<1>10. /\ TypeOK' /\ AloneInv' /\ WorkInv' /\ CheckInv' /\ TableInv' /\ OnceAndChecked'
       /\ pc'[a] = "case" /\ current(a)' = current(a)
       /\ \A b \in Attempt \ {a} : pc'[b] = "out"
       /\ \A t : Rows(t)' = Rows(t)
  BY <1>1, <1>3, <1>7, <1>8, <1>9, WorkingStep
<1>11. PresentInv'
  <2>1. \A q : TableOf(q)' = TableOf(q)
    BY DEF TableOf
  <2> QED
    BY <1>1, <1>5, <1>6, <1>9, <1>10, <2>1 DEF PresentInv, Performing, kind
<1>12. TempInv'
  BY <1>10 DEF TempInv
<1>13. CompleteHasAll'
  BY <1>1, <1>8, SameMissing DEF RunInv, CompleteHasAll
<1> QED
  BY <1>10, <1>11, <1>12, <1>13 DEF RunInv

LEMMA PassStep ==
  ASSUME RunInv, NEW a \in Attempt, Pass(a)
  PROVE  RunInv'
<1>1. /\ pc[a] = "case" /\ current(a) \notin present[a]
      /\ pc' = [pc EXCEPT ![a] = "append"]
      /\ UNCHANGED <<holder, table, state, key, work, present, temp, starts>>
  BY DEF Pass, files, attempt
<1>2. work[a] # {}
  BY <1>1 DEF RunInv, WorkInv, Performing
<1>3. /\ TypeOK' /\ AloneInv' /\ WorkInv' /\ CheckInv' /\ TableInv' /\ OnceAndChecked'
      /\ pc'[a] = "append" /\ current(a)' = current(a)
      /\ \A b \in Attempt \ {a} : pc'[b] = "out"
      /\ \A t : Rows(t)' = Rows(t)
  <2>1. /\ holder' \in [Lock -> Attempt \cup {None}]
        /\ state' \in [Job -> {"absent", "incomplete", "complete"}]
        /\ present' \in [Attempt -> SUBSET Observation]
        /\ temp' \in [Attempt -> Seq(Observation)]
    BY <1>1 DEF RunInv, TypeOK
  <2> QED
    BY <1>1, <1>2, <2>1, WorkingStep
<1>4. PresentInv'
  <2>1. /\ \A o \in present[a] : o \in Rows(TableOf(o))
        /\ \A o \in work[a] :
             o.kind = current(a).kind /\ o \notin present[a] => o \notin Rows(TableOf(o))
    BY <1>1 DEF RunInv, PresentInv, Performing
  <2> QED
    BY <1>1, <1>3, <2>1 DEF PresentInv, Performing, TableOf
<1>5. TempInv'
  BY <1>3 DEF TempInv
<1>6. CompleteHasAll'
  BY <1>1, SameMissing DEF RunInv, CompleteHasAll
<1> QED
  BY <1>3, <1>4, <1>5, <1>6 DEF RunInv

LEMMA WriteStep ==
  ASSUME RunInv, NEW a \in Attempt, WriteTemporary(a)
  PROVE  RunInv'
<1> DEFINE o == current(a)
<1>1. /\ pc[a] = "append"
      /\ temp' = [temp EXCEPT ![a] = Append(table[TableOf(o)], o)]
      /\ pc' = [pc EXCEPT ![a] = "replace"]
      /\ UNCHANGED <<holder, table, state, key, work, present, starts>>
  BY DEF WriteTemporary, opened
<1>2. work[a] # {}
  BY <1>1 DEF RunInv, WorkInv, Performing
<1>3. o \in Observation /\ TableOf(o) \in Table
  BY <1>1, <1>2, CurrentCase
<1> HIDE DEF o
<1>4. /\ temp' \in [Attempt -> Seq(Observation)]
      /\ temp'[a] = Append(table[TableOf(o)], o)
  <2>1. temp \in [Attempt -> Seq(Observation)] /\ table[TableOf(o)] \in Seq(Observation)
    BY <1>3 DEF RunInv, TypeOK
  <2>2. Append(table[TableOf(o)], o) \in Seq(Observation)
    BY <1>3, <2>1, Appended
  <2> QED
    BY <1>1, <2>1, <2>2
<1>5. /\ TypeOK' /\ AloneInv' /\ WorkInv' /\ CheckInv' /\ TableInv' /\ OnceAndChecked'
      /\ pc'[a] = "replace" /\ current(a)' = current(a)
      /\ \A b \in Attempt \ {a} : pc'[b] = "out"
      /\ \A t : Rows(t)' = Rows(t)
  <2>1. /\ holder' \in [Lock -> Attempt \cup {None}]
        /\ state' \in [Job -> {"absent", "incomplete", "complete"}]
        /\ present' \in [Attempt -> SUBSET Observation]
    BY <1>1 DEF RunInv, TypeOK
  <2> QED
    BY <1>1, <1>2, <1>4, <2>1, WorkingStep
<1>6. PresentInv'
  <2>1. /\ \A q \in present[a] : q \in Rows(TableOf(q))
        /\ \A q \in work[a] :
             q.kind = current(a).kind /\ q \notin present[a] => q \notin Rows(TableOf(q))
        /\ current(a) \notin present[a]
    BY <1>1 DEF RunInv, PresentInv, Performing
  <2> QED
    BY <1>1, <1>5, <2>1 DEF PresentInv, Performing, TableOf
<1>7. TempInv'
  <2>1. \A b \in Attempt : pc'[b] = "replace" => b = a
    BY <1>5
  <2> QED
    BY <1>1, <1>4, <1>5, <2>1 DEF TempInv, TableOf, o
<1>8. CompleteHasAll'
  BY <1>1, SameMissing DEF RunInv, CompleteHasAll
<1> QED
  BY <1>5, <1>6, <1>7, <1>8 DEF RunInv

LEMMA FinishStep ==
  ASSUME RunInv, NEW a \in Attempt, Finish(a)
  PROVE  RunInv'
<1>1. /\ pc[a] = "next"
      /\ state' = [state EXCEPT ![key[a]] =
                     IF nothingMissing(key[a]) THEN "complete" ELSE "incomplete"]
      /\ pc' = [pc EXCEPT ![a] = "close"]
      /\ UNCHANGED <<holder, table, key, work, present, temp, starts>>
  BY DEF Finish, attempt
<1>2. /\ state \in [Job -> {"absent", "incomplete", "complete"}]
      /\ key[a] \in Job
  BY DEF RunInv, TypeOK
<1>3. /\ TypeOK' /\ AloneInv' /\ WorkInv' /\ CheckInv' /\ TableInv' /\ OnceAndChecked'
      /\ pc'[a] = "close" /\ current(a)' = current(a)
      /\ \A b \in Attempt \ {a} : pc'[b] = "out"
      /\ \A t : Rows(t)' = Rows(t)
  <2>1. /\ holder' \in [Lock -> Attempt \cup {None}]
        /\ present' \in [Attempt -> SUBSET Observation]
        /\ temp' \in [Attempt -> Seq(Observation)]
    BY <1>1 DEF RunInv, TypeOK
  <2>2. state' \in [Job -> {"absent", "incomplete", "complete"}]
    BY <1>1, <1>2
  <2> QED
    BY <1>1, <2>1, <2>2, WorkingStep
<1>4. PresentInv' /\ TempInv'
  BY <1>3 DEF PresentInv, TempInv, Performing
<1>5. CompleteHasAll'
  <2>1. \A j \in Job : missing(j)' = missing(j)
    BY <1>1, SameMissing
  <2>2. ASSUME NEW j \in Job, state'[j] = "complete" PROVE missing(j) = {}
    BY <1>1, <1>2, <2>2 DEF nothingMissing, RunInv, CompleteHasAll
  <2> QED
    BY <2>1, <2>2 DEF CompleteHasAll
<1> QED
  BY <1>3, <1>4, <1>5 DEF RunInv

\* An attempt that ends, or is ended, takes its locks with it.
LEMMA GoneStep ==
  ASSUME RunInv, NEW a \in Attempt, pc[a] # "out", Gone(a)
  PROVE  RunInv'
<1>1. /\ holder' = [l \in Lock |-> IF holder[l] = a THEN None ELSE holder[l]]
      /\ pc' = [pc EXCEPT ![a] = "out"]
      /\ work' = [work EXCEPT ![a] = {}]
      /\ present' = [present EXCEPT ![a] = {}]
      /\ temp' = [temp EXCEPT ![a] = <<>>]
      /\ key' = [key EXCEPT ![a] = 0]
      /\ UNCHANGED <<files, starts>>
  BY DEF Gone, Released
<1>2. 0 \in Job
  BY ZeroJob
<1>3. TypeOK'
  BY <1>1, <1>2 DEF RunInv, TypeOK, files
<1>4. \A b \in Attempt : pc'[b] = "out"
  BY <1>1, RunsAlone DEF RunInv, TypeOK
<1>5. AloneInv' /\ WorkInv' /\ CheckInv' /\ PresentInv' /\ TempInv'
  BY <1>4 DEF AloneInv, WorkInv, CheckInv, PresentInv, TempInv, Performing
<1> QED
  BY <1>1, <1>3, <1>5, SameFiles DEF RunInv

LEMMA SkipStep ==
  ASSUME RunInv, NEW a \in Attempt, Skip(a)
  PROVE  RunInv'
<1>1. /\ pc[a] = "case" /\ current(a) \in present[a] /\ Advance(a)
      /\ UNCHANGED <<table, state, key, temp, starts>>
  BY DEF Skip, files
<1>2. Performing(a)
  BY <1>1 DEF Performing
<1>3. current(a) \in Range(table'[TableOf(current(a))])
  BY <1>1, <1>2 DEF RunInv, PresentInv, Rows
<1>4. temp' \in [Attempt -> Seq(Observation)] /\ table' \in [Table -> Seq(Observation)]
  BY <1>1 DEF RunInv, TypeOK
<1>5. NoDuplicate' /\ Records(current(a))
  BY <1>1 DEF RunInv, OnceAndChecked, NoDuplicate, Records, Rows
<1> QED
  BY <1>1, <1>2, <1>3, <1>4, <1>5, AdvanceStep

LEMMA FailStep ==
  ASSUME RunInv, NEW a \in Attempt, Fail(a)
  PROVE  RunInv'
<1>1. /\ pc[a] \in {"case", "append", "replace"} /\ current(a).kind = "main" /\ Advance(a)
      /\ temp' = [temp EXCEPT ![a] = <<>>]
      /\ UNCHANGED <<table, state, key, starts>>
  BY DEF Fail, files, continues
<1>2. Performing(a)
  BY <1>1 DEF Performing
<1>3. temp' \in [Attempt -> Seq(Observation)] /\ table' \in [Table -> Seq(Observation)]
  BY <1>1 DEF RunInv, TypeOK
<1>4. NoDuplicate' /\ Records(current(a))
  BY <1>1 DEF RunInv, OnceAndChecked, NoDuplicate, Records, Rows
<1> QED
  BY <1>1, <1>2, <1>3, <1>4, AdvanceStep

\* The row that an attempt replaces a table with, and its case.
LEMMA Replaced ==
  ASSUME RunInv, NEW a \in Attempt, Replace(a)
  PROVE  /\ work[a] # {} /\ current(a) \in Observation
         /\ table' = [table EXCEPT ![TableOf(current(a))] =
                        Append(table[TableOf(current(a))], current(a))]
         /\ current(a) \notin Rows(TableOf(current(a)))
<1>1. /\ pc[a] = "replace"
      /\ table' = [table EXCEPT ![TableOf(current(a))] = temp[a]]
  BY DEF Replace
<1>2. work[a] # {}
  BY <1>1 DEF RunInv, WorkInv, Performing
<1>3. current(a) \in Observation /\ current(a) \in work[a]
  BY <1>1, <1>2, CurrentCase
<1>4. temp[a] = Append(table[TableOf(current(a))], current(a))
  BY <1>1 DEF RunInv, TempInv
<1>5. current(a) \notin Rows(TableOf(current(a)))
  BY <1>1, <1>3 DEF RunInv, PresentInv, Performing
<1> QED
  BY <1>1, <1>2, <1>3, <1>4, <1>5

LEMMA ReplaceStep ==
  ASSUME RunInv, NEW a \in Attempt, Replace(a)
  PROVE  RunInv'
<1> DEFINE o == current(a)
<1>1. /\ pc[a] = "replace" /\ Advance(a)
      /\ temp' = [temp EXCEPT ![a] = <<>>]
      /\ UNCHANGED <<state, key, starts>>
  BY DEF Replace
<1>2. /\ o \in Observation
      /\ table' = [table EXCEPT ![TableOf(o)] = Append(table[TableOf(o)], o)]
      /\ o \notin Rows(TableOf(o))
  BY Replaced
<1> HIDE DEF o
<1>3. /\ table' \in [Table -> Seq(Observation)]
      /\ NoDuplicate'
      /\ Records(o)
      /\ o \in Range(table'[TableOf(o)])
  BY <1>2, AppendRecords DEF Rows
<1>4. temp' \in [Attempt -> Seq(Observation)]
  BY <1>1 DEF RunInv, TypeOK
<1>5. Performing(a)
  BY <1>1 DEF Performing
<1> QED
  BY <1>1, <1>3, <1>4, <1>5, AdvanceStep DEF o

\* The inductive invariant of a campaign's runs.
LEMMA RunInvariance == RunSpec => []RunInv
<1>1. RunInit => RunInv
  BY InitStep
<1>2. RunInv /\ [RunNext]_runVars => RunInv'
  <2> SUFFICES ASSUME RunInv, [RunNext]_runVars PROVE RunInv'
    OBVIOUS
  <2>1. CASE UNCHANGED runVars
    <3>1. UNCHANGED <<holder, table, state, pc, key, work, present, temp, starts>>
      BY <2>1 DEF runVars, files, attempt
    <3>2. TypeOK' /\ AloneInv' /\ CompleteHasAll' /\ OnceAndChecked'
      BY <3>1, SameFiles DEF RunInv, TypeOK, AloneInv, files
    <3>3. WorkInv'
      BY <3>1 DEF RunInv, WorkInv, Performing, CasesNumbered, Needed
    <3>4. \A b : current(b)' = current(b)
      BY <3>1, SameCurrent
    <3>5. CheckInv' /\ TableInv'
      BY <3>1 DEF RunInv, CheckInv, TableInv, TableOf, Rows, check
    <3>6. PresentInv'
      BY <3>1, <3>4 DEF RunInv, PresentInv, Performing, TableOf, Rows
    <3>7. TempInv'
      BY <3>1, <3>4 DEF RunInv, TempInv, TableOf
    <3> QED
      BY <3>2, <3>3, <3>5, <3>6, <3>7 DEF RunInv
  <2>2. CASE AllRun
    BY <2>1, <2>2 DEF AllRun
  <2>3. ASSUME NEW a \in Attempt, Work(a) PROVE RunInv'
    <3>1. CASE Close(a)
      BY <3>1, GoneStep DEF Close
    <3> QED
      BY <2>3, <3>1, PerformStep, SkipStep, PassStep, FailStep, WriteStep, ReplaceStep,
         FinishStep DEF Work
  <2>4. ASSUME NEW a \in Attempt, Stop(a) PROVE RunInv'
    BY <2>4, GoneStep DEF Stop
  <2>5. ASSUME NEW a \in Attempt, NEW j \in Job, Begin(a, j) \/ BeginEnd(a, j)
        PROVE  RunInv'
    BY <2>5, BeginStep, BeginEndStep
  <2> QED
    BY <2>1, <2>2, <2>3, <2>4, <2>5 DEF RunNext
<1> QED
  BY <1>1, <1>2, PTL DEF RunSpec

\* run, perform: whatever attempts are started and however they end, an
\* observation is recorded once, and a case only after the checks of its
\* variant.
THEOREM MeasuredOnce == RunSpec => []OnceAndChecked
BY RunInvariance, PTL DEF RunInv

\* run: the state file says that a job is complete when its cases have rows.
THEOREM CompleteIsComplete == RunSpec => []CompleteHasAll
BY RunInvariance, PTL DEF RunInv

\* atomic_table: an attempt, wherever it dies, loses no row of another one.
THEOREM RowsKept == RunSpec => ObservationsKept
<1>1. RunInv /\ [RunNext]_runVars => [\A t \in Table : Rows(t) \subseteq Rows(t)']_runVars
  <2> SUFFICES ASSUME RunInv, RunNext PROVE \A t \in Table : Rows(t) \subseteq Rows(t)'
    BY DEF runVars
  <2>1. CASE UNCHANGED table
    BY <2>1 DEF Rows
  <2>2. ASSUME NEW a \in Attempt, Replace(a)
        PROVE  \A t \in Table : Rows(t) \subseteq Rows(t)'
    <3> DEFINE o == current(a)
    <3>1. /\ o \in Observation
          /\ table' = [table EXCEPT ![TableOf(o)] = Append(table[TableOf(o)], o)]
          /\ o \notin Rows(TableOf(o))
      BY <2>2, Replaced
    <3> HIDE DEF o
    <3> QED
      BY <3>1, AppendRecords DEF Records
  <2>3. UNCHANGED table \/ \E a \in Attempt : Replace(a)
    <3>1. ASSUME NEW a \in Attempt, Work(a), ~Replace(a) PROVE UNCHANGED table
      BY <3>1 DEF Work, Perform, Skip, Pass, Fail, WriteTemporary, Finish, Close, Gone,
                  Advance, opened, files
    <3>2. ASSUME NEW a \in Attempt, Stop(a) PROVE UNCHANGED table
      BY <3>2 DEF Stop, Gone, files
    <3>3. ASSUME NEW a \in Attempt, NEW j \in Job, Begin(a, j) \/ BeginEnd(a, j)
          PROVE  UNCHANGED table
      BY <3>3 DEF Begin, BeginEnd, files
    <3>4. CASE AllRun
      BY <3>4 DEF AllRun, runVars, files
    <3> QED
      BY <3>1, <3>2, <3>3, <3>4 DEF RunNext
  <2> QED
    BY <2>1, <2>2, <2>3
<1> QED
  BY <1>1, RunInvariance, PTL DEF RunSpec, ObservationsKept

=============================================================================
