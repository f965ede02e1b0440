------------------------- MODULE TridentHybrid_proof -------------------------
(***************************************************************************)
(* The hybrid backend, for every grid, number of products and choice of    *)
(* eager or rendezvous sends.                                              *)
(*                                                                         *)
(* Between an owner and a consumer of its tiles three numbers of products  *)
(* follow one another: the tiles the consumer has asked for (asks), those  *)
(* the owner has sent (answers), those the consumer has received (gets).   *)
(* A consumer asks for the next tile only when it has the last one, so     *)
(* gets <= answers <= asks <= gets + 1: this replaces the barriers of the  *)
(* other backends, and everything claimed of the protocol follows from it. *)
(***************************************************************************)
EXTENDS TridentHybrid, ExecutionPlan_proof, FiniteSetTheorems, SequenceTheorems

InStages(c) == pc[c] \in {"fetching", "compute"}

asks(o, c, op) ==
  IF InStages(c) /\ (\/ When(c, o, op) > stage[c]
                     \/ When(c, o, op) = stage[c] /\ op \in unasked[c])
  THEN generation[c] - 1 ELSE generation[c]

gets(o, c, op) ==
  IF InStages(c) /\ (\/ When(c, o, op) > stage[c]
                     \/ When(c, o, op) = stage[c] /\ <<o, op>> \in posted[c])
  THEN generation[c] - 1 ELSE generation[c]

Answering(o, slot) == service[o] = "sending" /\ serving[o] = slot

answers(o, slot) ==
  IF \/ servedAll(o)
     \/ slot \in consumed[o]
     \/ Answering(o, slot)
  THEN generation[o] ELSE generation[o] - 1

\* What is on its way is the tile of the last answer.
Travelling(o, c, op) ==
  LET messages == channel[<<o, c, op>>] IN
  messages # <<>> =>
    /\ messages[1].eager => messages[1].tile = Tile(o, answers(o, SlotOf(c, op)))
    /\ ~messages[1].eager => Answering(o, SlotOf(c, op))

Between(o, c, op) ==
  /\ requests[o][SlotOf(c, op)] = asks(o, c, op)
  /\ gets(o, c, op) <= answers(o, SlotOf(c, op))
  /\ answers(o, SlotOf(c, op)) <= asks(o, c, op)
  /\ Len(channel[<<o, c, op>>]) = answers(o, SlotOf(c, op)) - gets(o, c, op)
  /\ Travelling(o, c, op)

ProtocolInv ==
  \A o, c \in Rank, op \in Operand : <<o, c, op>> \in Link => Between(o, c, op)

NoSlices == \A c \in Link : c[3] = "slice" => channel[c] = <<>>

\* Where multiply stands.
MainInv ==
  \A r \in Rank :
    /\ active[r] <=> pc[r] \notin {"idle", "closed"}
    /\ active[r] => generation[r] >= 1
    /\ InStages(r) => stage[r] < Side
    /\ pc[r] = "draining" => stage[r] = Side
    /\ \/ input[r] = generation[r]
       \/ pc[r] = "idle" /\ input[r] = generation[r] + 1
    /\ unasked[r] # {} => pc[r] = "fetching"
    /\ posted[r] # {} => pc[r] = "fetching"
    /\ \A op \in unasked[r] : Source(r, stage[r], op) # r
    /\ \A recv \in posted[r] :
         recv[2] \in Operand /\ recv[1] = Source(r, stage[r], recv[2]) /\ recv[1] # r

\* Where the service thread stands.
ServiceInv ==
  \A r \in Rank :
    /\ pc[r] \in {"idle", "closed"} => service[r] = "none"
    /\ servedAll(r) => remaining[r] = 0
    /\ ~servedAll(r) => /\ OwnSlots(r) \subseteq consumed[r]
                        /\ remaining[r] = Cardinality(Slot \ consumed[r])
                        /\ remaining[r] >= 1
    /\ service[r] = "sending" => serving[r] \in Slot \ consumed[r]

\* Tiles of op asked for in this product.
askedOf(r, op) ==
  IF InStages(r)
  THEN stage[r] - (IF When(r, r, op) < stage[r] THEN 1 ELSE 0)
                + (IF When(r, r, op) # stage[r] /\ op \notin unasked[r] THEN 1 ELSE 0)
  ELSE Side - 1

CountInv ==
  \A r \in Rank :
    /\ served[r] = 2 * (Side - 1) * generation[r] - remaining[r]
    /\ published[r] =
         2 * (Side - 1) * (generation[r] - 1) + askedOf(r, "a") + askedOf(r, "b")

TileInv ==
  \A r \in Rank : InStages(r) => \A op \in Operand :
    \/ <<Source(r, stage[r], op), op>> \in posted[r]
    \/ workspace[r][op] = Expected(r, stage[r], op, generation[r])

IInv == TypeOK /\ MainInv /\ ServiceInv /\ ProtocolInv /\ NoSlices /\ CountInv /\ TileInv

-----------------------------------------------------------------------------
(* The grid                                                                *)

LEMMA LinkMeans ==
  ASSUME NEW o \in Rank, NEW c \in Rank, NEW op \in Operand
  PROVE  <<o, c, op>> \in Link <=>
           /\ o # c
           /\ o.nodeRank = c.nodeRank
           /\ IF op = "a" THEN o.row = c.row ELSE o.col = c.col
<1>1. <<o, c, op>> \in Rank \X Rank \X Tag
  BY DEF Tag
<1> QED
  BY <1>1 DEF Link, Operand

LEMMA WhenIs ==
  ASSUME NEW o \in Rank, NEW c \in Rank, NEW op \in Operand, <<o, c, op>> \in Link
  PROVE  /\ When(c, o, op) \in Round
         /\ \A s \in Round : Source(c, s, op) = o <=> s = When(c, o, op)
  BY LinkMeans, OneRound

\* The round in which a rank multiplies its own tile.
LEMMA OwnRound ==
  ASSUME NEW r \in Rank, NEW op \in Operand
  PROVE  /\ When(r, r, op) \in Round /\ When(r, r, op) \in Nat
         /\ \A s \in Round : Source(r, s, op) = r <=> s = When(r, r, op)
<1>1. /\ When(r, r, op) \in Round
      /\ \A s \in Round : Source(r, s, op) = r <=> s = When(r, r, op)
  BY OneRound
<1> QED
  BY <1>1, GridAssumption DEF Round

LEMMA SourceLinks ==
  ASSUME NEW c \in Rank, NEW s \in Round, NEW op \in Operand, Source(c, s, op) # c
  PROVE  Source(c, s, op) \in Rank /\ <<Source(c, s, op), c, op>> \in Link
<1>1. Source(c, s, op) \in Rank
  BY SourceInRank
<1>2. /\ Source(c, s, op).nodeRank = c.nodeRank
      /\ IF op = "a" THEN Source(c, s, op).row = c.row ELSE Source(c, s, op).col = c.col
  BY DEF Source, aSource, bSource, rankAt
<1> QED
  BY <1>1, <1>2, LinkMeans

\* A consumer of an owner has a slot in its window, and that slot to itself.
LEMMA SlotOfConsumer ==
  ASSUME NEW o \in Rank, NEW c \in Rank, NEW op \in Operand, <<o, c, op>> \in Link
  PROVE  /\ SlotOf(c, op) \in Slot \ OwnSlots(o)
         /\ SlotOf(c, op)[1] = op
         /\ Consumer(o, SlotOf(c, op)) = c
         /\ Side # 1
<1>1. /\ o # c /\ o.nodeRank = c.nodeRank
      /\ IF op = "a" THEN o.row = c.row ELSE o.col = c.col
  BY LinkMeans
<1>2. /\ o = rankAt(o.row, o.col, o.nodeRank) /\ c = rankAt(c.row, c.col, c.nodeRank)
      /\ c.row \in Coord /\ c.col \in Coord /\ o.row \in Coord /\ o.col \in Coord
  BY DEF rankAt, Rank
<1>3. IF op = "a" THEN o.col # c.col ELSE o.row # c.row
  BY <1>1, <1>2
<1>4. SlotOf(c, op) = <<op, IF op = "a" THEN c.col ELSE c.row>>
  BY DEF SlotOf
<1>5. SlotOf(c, op) \in Slot /\ SlotOf(c, op)[1] = op
  BY <1>2, <1>4 DEF Slot
<1>6. SlotOf(c, op) \notin OwnSlots(o)
  BY <1>3, <1>4 DEF OwnSlots, Operand
<1>7. Consumer(o, SlotOf(c, op)) = c
  BY <1>1, <1>2, <1>4 DEF Consumer, Operand
<1>8. Side # 1
  BY <1>2, <1>3 DEF Coord
<1> QED
  BY <1>5, <1>6, <1>7, <1>8

LEMMA ConsumerOfSlot ==
  ASSUME NEW o \in Rank, NEW slot \in Slot \ OwnSlots(o)
  PROVE  /\ slot[1] \in Operand /\ Consumer(o, slot) \in Rank
         /\ <<o, Consumer(o, slot), slot[1]>> \in Link
         /\ SlotOf(Consumer(o, slot), slot[1]) = slot
<1>1. /\ slot[1] \in Operand /\ slot[2] \in Coord /\ slot = <<slot[1], slot[2]>>
  BY DEF Slot
<1>2. /\ o.row \in Coord /\ o.col \in Coord /\ o.nodeRank \in 0 .. NodeSize - 1
  BY DEF Rank
<1>3. CASE slot[1] = "a"
  <2>1. Consumer(o, slot) = [row |-> o.row, col |-> slot[2], nodeRank |-> o.nodeRank]
    BY <1>3 DEF Consumer, rankAt
  <2>2. slot[2] # o.col
    BY <1>1, <1>3 DEF OwnSlots
  <2>3. Consumer(o, slot) \in Rank /\ Consumer(o, slot) # o
    BY <1>1, <1>2, <2>1, <2>2 DEF Rank
  <2>4. <<o, Consumer(o, slot), slot[1]>> \in Link
    BY <1>1, <1>3, <2>1, <2>3, LinkMeans
  <2>5. SlotOf(Consumer(o, slot), slot[1]) = slot
    BY <1>1, <1>3, <2>1 DEF SlotOf
  <2> QED
    BY <1>1, <2>3, <2>4, <2>5
<1>4. CASE slot[1] = "b"
  <2>1. Consumer(o, slot) = [row |-> slot[2], col |-> o.col, nodeRank |-> o.nodeRank]
    BY <1>4 DEF Consumer, rankAt
  <2>2. slot[2] # o.row
    BY <1>1, <1>4 DEF OwnSlots
  <2>3. Consumer(o, slot) \in Rank /\ Consumer(o, slot) # o
    BY <1>1, <1>2, <2>1, <2>2 DEF Rank
  <2>4. <<o, Consumer(o, slot), slot[1]>> \in Link
    BY <1>1, <1>4, <2>1, <2>3, LinkMeans
  <2>5. SlotOf(Consumer(o, slot), slot[1]) = slot
    BY <1>1, <1>4, <2>1 DEF SlotOf
  <2> QED
    BY <1>1, <2>3, <2>4, <2>5
<1> QED
  BY <1>1, <1>3, <1>4 DEF Operand

\* One slot for each operand of each other rank of the row or column.
LEMMA NumberOfSlots ==
  /\ IsFiniteSet(Slot)
  /\ \A r \in Rank : Cardinality(Slot \ OwnSlots(r)) = 2 * (Side - 1)
<1>1. IsFiniteSet(Coord) /\ Cardinality(Coord) = Side
  <2>1. /\ IsFiniteSet(0 .. Side - 1)
        /\ Cardinality(0 .. Side - 1) = IF 0 > Side - 1 THEN 0 ELSE (Side - 1) - 0 + 1
    BY GridAssumption, FS_Interval
  <2> QED
    BY <2>1, GridAssumption DEF Coord
<1>2. IsFiniteSet(Operand) /\ Cardinality(Operand) = 2
  <2>1. IsFiniteSet({"b"}) /\ Cardinality({"b"}) = 1
    BY FS_Singleton
  <2>2. /\ IsFiniteSet({"b"} \cup {"a"})
        /\ Cardinality({"b"} \cup {"a"}) = Cardinality({"b"}) + 1
    BY <2>1, FS_AddElement
  <2>3. Operand = {"b"} \cup {"a"}
    BY DEF Operand
  <2> QED
    BY <2>1, <2>2, <2>3
<1>3. IsFiniteSet(Slot) /\ Cardinality(Slot) = 2 * Side
  BY <1>1, <1>2, FS_Product DEF Slot
<1>4. ASSUME NEW r \in Rank PROVE Cardinality(Slot \ OwnSlots(r)) = 2 * (Side - 1)
  <2> DEFINE first == Slot \ {<<"a", r.col>>}
  <2>1. <<"a", r.col>> \in Slot /\ <<"b", r.row>> \in Slot
    BY DEF Slot, Operand, Rank
  <2>2. IsFiniteSet(first) /\ Cardinality(first) = Cardinality(Slot) - 1
    BY <1>3, <2>1, FS_RemoveElement
  <2>3. <<"b", r.row>> \in first
    BY <2>1
  <2>4. Cardinality(first \ {<<"b", r.row>>}) = Cardinality(first) - 1
    BY <2>2, <2>3, FS_RemoveElement
  <2>5. Slot \ OwnSlots(r) = first \ {<<"b", r.row>>}
    BY DEF OwnSlots
  <2> HIDE DEF first
  <2>6. Cardinality(Slot \ OwnSlots(r)) = (2 * Side - 1) - 1
    BY <1>3, <2>2, <2>4, <2>5
  <2> QED
    BY <2>6, GridAssumption
<1> QED
  BY <1>3, <1>4

-----------------------------------------------------------------------------
(* Between an owner and a consumer                                         *)

LEMMA PairNumbers ==
  ASSUME TypeOK, NEW o \in Rank, NEW c \in Rank, NEW op \in Operand
  PROVE  /\ generation[o] \in Nat /\ generation[c] \in Nat
         /\ asks(o, c, op) \in {generation[c] - 1, generation[c]}
         /\ gets(o, c, op) \in {generation[c] - 1, generation[c]}
         /\ answers(o, SlotOf(c, op)) \in {generation[o] - 1, generation[o]}
  BY ProductsAssumption DEF TypeOK, Version, asks, gets, answers

\* A step that leaves all of it alone.
LEMMA BetweenKept ==
  ASSUME NEW o \in Rank, NEW c \in Rank, NEW op \in Operand, Between(o, c, op),
         asks(o, c, op)' = asks(o, c, op),
         gets(o, c, op)' = gets(o, c, op),
         answers(o, SlotOf(c, op))' = answers(o, SlotOf(c, op)),
         Answering(o, SlotOf(c, op)) => Answering(o, SlotOf(c, op))',
         requests'[o][SlotOf(c, op)] = requests[o][SlotOf(c, op)],
         channel'[<<o, c, op>>] = channel[<<o, c, op>>]
  PROVE  Between(o, c, op)'
  BY DEF Between, Travelling

LEMMA InitIInv == Init => IInv
<1> SUFFICES ASSUME Init PROVE IInv
  OBVIOUS
<1> USE DEF Init, MessagesInit
<1>1. TypeOK
  <2>1. 0 \in Version /\ NoTile \in TileOrNone /\ NoSlot \in Slot /\ 0 \in Requests
    BY GridAssumption, ProductsAssumption
    DEF Version, TileOrNone, NoSlot, Slot, Operand, Coord, Requests
  <2>2. 0 \in 0 .. Side /\ 0 \in 0 .. 2 * (Side - 1)
    BY GridAssumption
  <2>3. MessagesTypeOK
    BY DEF MessagesTypeOK
  <2> QED
    BY <2>1, <2>2, <2>3 DEF TypeOK, Location
<1>2. MainInv /\ ServiceInv /\ TileInv /\ NoSlices
  BY DEF MainInv, ServiceInv, TileInv, NoSlices, InStages, servedAll
<1>3. ProtocolInv
  <2> SUFFICES ASSUME NEW o \in Rank, NEW c \in Rank, NEW op \in Operand,
                      <<o, c, op>> \in Link
               PROVE  Between(o, c, op)
    BY DEF ProtocolInv
  <2>1. SlotOf(c, op) \in Slot
    BY SlotOfConsumer
  <2>2. asks(o, c, op) = 0 /\ gets(o, c, op) = 0 /\ answers(o, SlotOf(c, op)) = 0
    BY DEF asks, gets, answers, InStages, servedAll
  <2>3. channel[<<o, c, op>>] = <<>> /\ Len(<<>>) = 0
    OBVIOUS
  <2> QED
    BY <2>1, <2>2, <2>3 DEF Between, Travelling
<1>4. CountInv
  BY GridAssumption DEF CountInv, askedOf, InStages
<1> QED
  BY <1>1, <1>2, <1>3, <1>4 DEF IInv

-----------------------------------------------------------------------------
(* The main thread                                                         *)

LEMMA PrepareStep == ASSUME IInv, NEW r \in Rank, PrepareInputs(r) PROVE IInv'
<1> USE DEF IInv
<1>1. /\ pc[r] = "idle" /\ generation[r] < MaxProducts /\ input[r] = generation[r]
      /\ input' = [input EXCEPT ![r] = @ + 1]
      /\ UNCHANGED <<main, worker, requests, posted, channel>>
  BY DEF PrepareInputs
<1>2. TypeOK'
  BY <1>1, ProductsAssumption DEF TypeOK, MessagesTypeOK, main, worker, Version
<1>3. MainInv'
  BY <1>1 DEF MainInv, TypeOK, main, InStages
<1>4. ServiceInv' /\ NoSlices' /\ CountInv' /\ TileInv'
  BY <1>1 DEF ServiceInv, NoSlices, CountInv, TileInv, main, worker, servedAll, askedOf, InStages
<1>5. ProtocolInv'
  BY <1>1 DEF ProtocolInv, Between, Travelling, asks, gets, answers, Answering, servedAll,
              InStages, main, worker
<1> QED
  BY <1>2, <1>3, <1>4, <1>5

\* What fetch posts: a receive for each tile of another rank.
LEMMA Posted ==
  ASSUME TypeOK, NEW r \in Rank, NEW s \in Round, NEW from, Post(r, from, s),
         input[r] \in Version
  PROVE  /\ pc[r] = from /\ pc' = [pc EXCEPT ![r] = "fetching"]
         /\ unasked' \in [Rank -> SUBSET Operand]
         /\ posted' \in [Rank -> SUBSET (Rank \X Tag)]
         /\ workspace' \in [Rank -> [Operand -> TileOrNone]]
         /\ unasked'[r] = {op \in Operand : Source(r, s, op) # r}
         /\ posted'[r] = {<<Source(r, s, op), op>> : op \in unasked'[r]}
         /\ \A op \in Operand \ unasked'[r] : workspace'[r][op] = Tile(r, input[r])
         /\ \A q \in Rank \ {r} : /\ unasked'[q] = unasked[q]
                                  /\ posted'[q] = posted[q]
                                  /\ workspace'[q] = workspace[q]
<1> DEFINE remote == {op \in Operand : Source(r, s, op) # r}
<1> DEFINE receives == {<<Source(r, s, op), op>> : op \in remote}
<1> DEFINE tiles == [op \in Operand |-> IF op \in remote THEN NoTile ELSE Tile(r, input[r])]
<1>1. /\ pc[r] = from /\ pc' = [pc EXCEPT ![r] = "fetching"]
      /\ workspace' = [workspace EXCEPT ![r] = tiles]
      /\ posted' = [posted EXCEPT ![r] = receives]
      /\ unasked' = [unasked EXCEPT ![r] = remote]
  BY DEF Post, Goto, receiveTiles
<1>2. receives \in SUBSET (Rank \X Tag)
  BY SourceInRank DEF Tag
<1>3. tiles \in [Operand -> TileOrNone]
  BY DEF Tile, TileOrNone
<1>4. remote \in SUBSET Operand
  OBVIOUS
<1>5. \A op \in Operand \ remote : tiles[op] = Tile(r, input[r])
  OBVIOUS
<1> HIDE DEF remote, receives, tiles
<1>6. unasked'[r] = remote /\ posted'[r] = receives /\ workspace'[r] = tiles
  BY <1>1 DEF TypeOK, MessagesTypeOK
<1>7. /\ unasked' \in [Rank -> SUBSET Operand]
      /\ posted' \in [Rank -> SUBSET (Rank \X Tag)]
      /\ workspace' \in [Rank -> [Operand -> TileOrNone]]
  BY <1>1, <1>2, <1>3, <1>4 DEF TypeOK, MessagesTypeOK
<1>8. \A q \in Rank \ {r} : /\ unasked'[q] = unasked[q]
                            /\ posted'[q] = posted[q]
                            /\ workspace'[q] = workspace[q]
  BY <1>1 DEF TypeOK, MessagesTypeOK
<1> QED
  BY <1>1, <1>5, <1>6, <1>7, <1>8 DEF remote, receives

\* The receives and requests of the other ranks, and those of a rank that has
\* begun a fetch.
LEMMA FetchBegun ==
  ASSUME TypeOK, MainInv, NEW r \in Rank, NEW s \in Round, NEW from, Post(r, from, s),
         input[r] \in Version, stage'[r] = s,
         \A q \in Rank \ {r} : stage'[q] = stage[q] /\ generation'[q] = generation[q],
         NEW o \in Rank, NEW c \in Rank, NEW op \in Operand, <<o, c, op>> \in Link
  PROVE  /\ c # r => asks(o, c, op)' = asks(o, c, op) /\ gets(o, c, op)' = gets(o, c, op)
         /\ c = r => /\ asks(o, c, op)' = IF When(c, o, op) >= s
                                          THEN generation'[c] - 1 ELSE generation'[c]
                     /\ gets(o, c, op)' = asks(o, c, op)'
<1>1. CASE c # r
  <2>1. /\ pc'[c] = pc[c] /\ stage'[c] = stage[c] /\ generation'[c] = generation[c]
        /\ unasked'[c] = unasked[c] /\ posted'[c] = posted[c]
    BY <1>1, Posted DEF TypeOK
  <2> QED
    BY <1>1, <2>1 DEF asks, gets, InStages
<1>2. CASE c = r
  <2>1. /\ pc'[c] = "fetching" /\ stage'[c] = s
        /\ unasked'[c] = {p \in Operand : Source(c, s, p) # c}
        /\ posted'[c] = {<<Source(c, s, p), p>> : p \in unasked'[c]}
    BY <1>2, Posted DEF TypeOK
  <2>2. o # c
    BY LinkMeans
  <2>3. When(c, o, op) \in Round /\ (Source(c, s, op) = o <=> s = When(c, o, op))
    BY WhenIs
  <2>4. When(c, o, op) = s => op \in unasked'[c] /\ <<o, op>> \in posted'[c]
    BY <2>1, <2>2, <2>3
  <2>5. When(c, o, op) \in Int /\ s \in Int
    BY <2>3, GridAssumption DEF Round
  <2> QED
    BY <1>2, <2>1, <2>4, <2>5 DEF asks, gets, InStages
<1> QED
  BY <1>1, <1>2

\* What a rank that has begun a fetch knows of itself.
LEMMA FetchOfItself ==
  ASSUME TypeOK, MainInv, NEW r \in Rank, NEW s \in Round, NEW from, Post(r, from, s),
         input[r] \in Version, stage'[r] = s
  PROVE  /\ \A op \in unasked'[r] : Source(r, s, op) # r
         /\ \A recv \in posted'[r] :
              recv[2] \in Operand /\ recv[1] = Source(r, s, recv[2]) /\ recv[1] # r
         /\ \A op \in Operand : \/ <<Source(r, s, op), op>> \in posted'[r]
                                \/ workspace'[r][op] = Expected(r, s, op, input[r])
         /\ \A op \in Operand : op \notin unasked'[r] <=> When(r, r, op) = s
<1>1. /\ unasked'[r] = {op \in Operand : Source(r, s, op) # r}
      /\ posted'[r] = {<<Source(r, s, op), op>> : op \in unasked'[r]}
      /\ \A op \in Operand \ unasked'[r] : workspace'[r][op] = Tile(r, input[r])
  BY Posted
<1>2. \A op \in Operand : Source(r, s, op) = r <=> s = When(r, r, op)
  BY OwnRound, Zenon
<1>3. \A op \in Operand : \/ <<Source(r, s, op), op>> \in posted'[r]
                          \/ workspace'[r][op] = Expected(r, s, op, input[r])
  BY <1>1 DEF Expected
<1> QED
  BY <1>1, <1>2, <1>3

LEMMA BeginStep == ASSUME IInv, NEW r \in Rank, Begin(r) PROVE IInv'
<1> USE DEF IInv
<1>1. /\ ~active[r] /\ input[r] = generation[r] + 1
      /\ generation' = [generation EXCEPT ![r] = @ + 1]
      /\ active' = [active EXCEPT ![r] = TRUE]
      /\ stage' = [stage EXCEPT ![r] = 0]
      /\ Post(r, "idle", 0)
      /\ service' = [service EXCEPT ![r] = IF Side > 1 THEN "polling" ELSE @]
      /\ consumed' = [consumed EXCEPT ![r] = OwnSlots(r)]
      /\ remaining' = [remaining EXCEPT ![r] = 2 * (Side - 1)]
      /\ UNCHANGED <<published, serving, served, input, requests, channel>>
  BY DEF Begin
<1>2. /\ 0 \in Round /\ input[r] \in Version /\ stage'[r] = 0 /\ pc[r] = "idle"
      /\ generation[r] \in Nat /\ generation'[r] = generation[r] + 1
      /\ generation'[r] \in Version /\ generation'[r] = input[r]
      /\ \A q \in Rank \ {r} : stage'[q] = stage[q] /\ generation'[q] = generation[q]
  BY <1>1, Posted, GridAssumption, ProductsAssumption DEF Round, TypeOK, Version
<1>3. /\ pc' = [pc EXCEPT ![r] = "fetching"]
      /\ unasked' \in [Rank -> SUBSET Operand]
      /\ posted' \in [Rank -> SUBSET (Rank \X Tag)]
      /\ workspace' \in [Rank -> [Operand -> TileOrNone]]
      /\ \A q \in Rank \ {r} : /\ unasked'[q] = unasked[q]
                               /\ posted'[q] = posted[q]
                               /\ workspace'[q] = workspace[q]
  BY <1>1, <1>2, Posted
<1>4. /\ \A op \in unasked'[r] : Source(r, 0, op) # r
      /\ \A recv \in posted'[r] :
           recv[2] \in Operand /\ recv[1] = Source(r, 0, recv[2]) /\ recv[1] # r
      /\ \A op \in Operand : \/ <<Source(r, 0, op), op>> \in posted'[r]
                             \/ workspace'[r][op] = Expected(r, 0, op, input[r])
      /\ \A op \in Operand : op \notin unasked'[r] <=> When(r, r, op) = 0
  BY <1>1, <1>2, FetchOfItself
<1>5. TypeOK'
  <2>1. /\ pc' \in [Rank -> Location]
        /\ generation' \in [Rank -> Version]
        /\ stage' \in [Rank -> 0 .. Side]
        /\ active' \in [Rank -> BOOLEAN]
        /\ service' \in [Rank -> {"none", "polling", "sending", "done"}]
    BY <1>1, <1>2, <1>3, GridAssumption DEF TypeOK, Location
  <2>2. consumed' \in [Rank -> SUBSET Slot]
    <3>1. OwnSlots(r) \in SUBSET Slot
      BY DEF OwnSlots, Slot, Operand, Rank
    <3> QED
      BY <1>1, <3>1 DEF TypeOK
  <2>3. remaining' \in [Rank -> 0 .. 2 * (Side - 1)]
    BY <1>1, GridAssumption DEF TypeOK
  <2> QED
    BY <1>1, <1>3, <2>1, <2>2, <2>3 DEF TypeOK, MessagesTypeOK
<1>6. MainInv'
  <2> SUFFICES ASSUME NEW q \in Rank
               PROVE  /\ active'[q] <=> pc'[q] \notin {"idle", "closed"}
                      /\ active'[q] => generation'[q] >= 1
                      /\ pc'[q] \in {"fetching", "compute"} => stage'[q] < Side
                      /\ pc'[q] = "draining" => stage'[q] = Side
                      /\ \/ input[q] = generation'[q]
                         \/ pc'[q] = "idle" /\ input[q] = generation'[q] + 1
                      /\ unasked'[q] # {} => pc'[q] = "fetching"
                      /\ posted'[q] # {} => pc'[q] = "fetching"
                      /\ \A op \in unasked'[q] : Source(q, stage'[q], op) # q
                      /\ \A recv \in posted'[q] :
                           recv[2] \in Operand /\ recv[1] = Source(q, stage'[q], recv[2]) /\ recv[1] # q
    BY <1>1 DEF MainInv, InStages
  <2>1. CASE q = r
    BY <2>1, <1>1, <1>2, <1>3, <1>4, GridAssumption DEF TypeOK
  <2>2. CASE q # r
    <3>1. /\ active'[q] = active[q] /\ pc'[q] = pc[q]
      BY <2>2, <1>1, <1>3 DEF TypeOK
    <3> QED
      BY <2>2, <3>1, <1>2, <1>3 DEF MainInv, InStages
  <2> QED
    BY <2>1, <2>2
<1>7. ServiceInv'
  <2> SUFFICES ASSUME NEW q \in Rank
               PROVE  /\ pc'[q] \in {"idle", "closed"} => service'[q] = "none"
                      /\ service'[q] \in {"none", "done"} => remaining'[q] = 0
                      /\ service'[q] \notin {"none", "done"} =>
                           /\ OwnSlots(q) \subseteq consumed'[q]
                           /\ remaining'[q] = Cardinality(Slot \ consumed'[q])
                           /\ remaining'[q] >= 1
                      /\ service'[q] = "sending" => serving'[q] \in Slot \ consumed'[q]
    BY DEF ServiceInv, servedAll
  <2>1. CASE q = r
    <3>1. /\ service[r] = "none" /\ pc'[r] = "fetching"
          /\ service'[r] = IF Side > 1 THEN "polling" ELSE "none"
          /\ consumed'[r] = OwnSlots(r) /\ remaining'[r] = 2 * (Side - 1)
      BY <1>1, <1>2, <1>3 DEF ServiceInv, TypeOK
    <3>2. CASE Side > 1
      BY <2>1, <3>1, <3>2, NumberOfSlots, GridAssumption
    <3>3. CASE ~(Side > 1)
      BY <2>1, <3>1, <3>3, GridAssumption
    <3> QED
      BY <3>2, <3>3
  <2>2. CASE q # r
    <3>1. /\ pc'[q] = pc[q] /\ service'[q] = service[q] /\ consumed'[q] = consumed[q]
          /\ remaining'[q] = remaining[q] /\ serving'[q] = serving[q]
      BY <2>2, <1>1, <1>3 DEF TypeOK
    <3> QED
      BY <3>1 DEF ServiceInv, servedAll
  <2> QED
    BY <2>1, <2>2
<1>8. ProtocolInv'
  <2> SUFFICES ASSUME NEW o \in Rank, NEW c \in Rank, NEW op \in Operand,
                      <<o, c, op>> \in Link
               PROVE  Between(o, c, op)'
    BY DEF ProtocolInv
  <2>1. Between(o, c, op)
    BY DEF ProtocolInv
  <2>2. asks(o, c, op)' = asks(o, c, op) /\ gets(o, c, op)' = gets(o, c, op)
    <3>1. CASE c # r
      BY <3>1, <1>1, <1>2, FetchBegun
    <3>2. CASE c = r
      <4>1. When(c, o, op) >= 0
        BY WhenIs, GridAssumption DEF Round
      <4>2. asks(o, c, op)' = generation'[c] - 1 /\ gets(o, c, op)' = generation'[c] - 1
        BY <3>2, <4>1, <1>1, <1>2, FetchBegun
      <4>3. asks(o, c, op) = generation[c] /\ gets(o, c, op) = generation[c]
        BY <3>2, <1>2 DEF asks, gets, InStages
      <4> QED
        BY <3>2, <4>2, <4>3, <1>2
    <3> QED
      BY <3>1, <3>2
  <2>3. SlotOf(c, op) \in Slot \ OwnSlots(o) /\ Side # 1
    BY SlotOfConsumer
  <2>4. answers(o, SlotOf(c, op))' = answers(o, SlotOf(c, op))
    <3>1. CASE o # r
      BY <3>1, <1>1 DEF answers, servedAll, Answering, TypeOK
    <3>2. CASE o = r
      <4>1. service[o] = "none" /\ service'[o] = "polling" /\ consumed'[o] = OwnSlots(o)
        <5>1. Side > 1
          BY <2>3, GridAssumption
        <5>2. service[o] = "none"
          BY <3>2, <1>2 DEF ServiceInv
        <5> QED
          BY <3>2, <5>1, <5>2, <1>1 DEF TypeOK
      <4>2. answers(o, SlotOf(c, op)) = generation[o]
        BY <4>1 DEF answers, servedAll
      <4>3. answers(o, SlotOf(c, op))' = generation'[o] - 1
        BY <4>1, <2>3 DEF answers, servedAll, Answering
      <4> QED
        BY <3>2, <4>2, <4>3, <1>2
    <3> QED
      BY <3>1, <3>2
  <2>5. Answering(o, SlotOf(c, op)) => Answering(o, SlotOf(c, op))'
    BY <1>1, <1>2 DEF Answering, ServiceInv, TypeOK
  <2> QED
    BY <1>1, <2>1, <2>2, <2>4, <2>5, BetweenKept
<1>9. NoSlices'
  BY <1>1 DEF NoSlices
<1>10. CountInv'
  <2> SUFFICES ASSUME NEW q \in Rank
               PROVE  /\ served[q] = 2 * (Side - 1) * generation'[q] - remaining'[q]
                      /\ published[q] =
                           2 * (Side - 1) * (generation'[q] - 1) + askedOf(q, "a")' + askedOf(q, "b")'
    BY <1>1 DEF CountInv
  <2>1. CASE q = r
    <3>1. /\ remaining[r] = 0 /\ remaining'[r] = 2 * (Side - 1)
          /\ served[r] = 2 * (Side - 1) * generation[r]
      <4>1. remaining[r] = 0 /\ remaining'[r] = 2 * (Side - 1)
        BY <1>1, <1>2 DEF ServiceInv, servedAll, TypeOK
      <4>2. served[r] = 2 * (Side - 1) * generation[r] - remaining[r]
        BY DEF CountInv
      <4> QED
        BY <4>1, <4>2, <1>2, GridAssumption
    <3>2. published[r] = 2 * (Side - 1) * generation[r]
      <4>1. askedOf(r, "a") = Side - 1 /\ askedOf(r, "b") = Side - 1
        BY <1>2 DEF askedOf, InStages
      <4>2. published[r] = 2 * (Side - 1) * (generation[r] - 1) + askedOf(r, "a") + askedOf(r, "b")
        BY DEF CountInv
      <4> QED
        BY <4>1, <4>2, <1>2, GridAssumption
    <3>3. ASSUME NEW op \in Operand PROVE askedOf(r, op)' = 0
      <4>1. When(r, r, op) \in Nat
        BY OwnRound
      <4>2. pc'[r] = "fetching" /\ stage'[r] = 0
        BY <1>2, <1>3 DEF TypeOK
      <4> QED
        BY <4>1, <4>2, <1>4 DEF askedOf, InStages
    <3>4. askedOf(r, "a")' = 0 /\ askedOf(r, "b")' = 0
      BY <3>3 DEF Operand
    <3> QED
      BY <2>1, <3>1, <3>2, <3>4, <1>2, GridAssumption
  <2>2. CASE q # r
    <3>1. /\ pc'[q] = pc[q] /\ remaining'[q] = remaining[q]
      BY <2>2, <1>1, <1>3 DEF TypeOK
    <3>2. askedOf(q, "a")' = askedOf(q, "a") /\ askedOf(q, "b")' = askedOf(q, "b")
      BY <2>2, <3>1, <1>2, <1>3 DEF askedOf, InStages
    <3> QED
      BY <2>2, <3>1, <3>2, <1>2 DEF CountInv
  <2> QED
    BY <2>1, <2>2
<1>11. TileInv'
  <2> SUFFICES ASSUME NEW q \in Rank, InStages(q)', NEW op \in Operand
               PROVE  \/ <<Source(q, stage'[q], op), op>> \in posted'[q]
                      \/ workspace'[q][op] = Expected(q, stage'[q], op, generation'[q])
    BY DEF TileInv
  <2>1. CASE q = r
    BY <2>1, <1>2, <1>4
  <2>2. CASE q # r
    <3>1. InStages(q)
      BY <2>2, <1>3 DEF InStages, TypeOK
    <3> QED
      BY <2>2, <3>1, <1>2, <1>3 DEF TileInv
  <2> QED
    BY <2>1, <2>2
<1> QED
  BY <1>5, <1>6, <1>7, <1>8, <1>9, <1>10, <1>11

LEMMA ComputeStep == ASSUME IInv, NEW r \in Rank, Compute(r) PROVE IInv'
<1> USE DEF IInv
<1>1. /\ stage[r] + 1 < Side /\ active[r]
      /\ stage' = [stage EXCEPT ![r] = @ + 1]
      /\ Post(r, "compute", stage[r] + 1)
      /\ UNCHANGED <<generation, active, published>>
      /\ UNCHANGED <<worker, input, requests, channel>>
  BY DEF Compute, MoreStages
<1>2. /\ stage[r] + 1 \in Round /\ stage[r] \in Nat /\ input[r] \in Version /\ stage'[r] = stage[r] + 1
      /\ pc[r] = "compute" /\ input[r] = generation[r] /\ generation[r] \in Nat
      /\ \A q \in Rank \ {r} : stage'[q] = stage[q] /\ generation'[q] = generation[q]
  <2>1. pc[r] = "compute"
    BY <1>1 DEF Post, Goto
  <2> QED
    BY <2>1, <1>1, GridAssumption, ProductsAssumption DEF Round, TypeOK, Version, MainInv
<1>3. /\ pc' = [pc EXCEPT ![r] = "fetching"]
      /\ unasked' \in [Rank -> SUBSET Operand]
      /\ posted' \in [Rank -> SUBSET (Rank \X Tag)]
      /\ workspace' \in [Rank -> [Operand -> TileOrNone]]
      /\ \A q \in Rank \ {r} : /\ unasked'[q] = unasked[q]
                               /\ posted'[q] = posted[q]
                               /\ workspace'[q] = workspace[q]
  BY <1>1, <1>2, Posted
<1>4. /\ \A op \in unasked'[r] : Source(r, stage[r] + 1, op) # r
      /\ \A recv \in posted'[r] :
           recv[2] \in Operand /\ recv[1] = Source(r, stage[r] + 1, recv[2]) /\ recv[1] # r
      /\ \A op \in Operand : \/ <<Source(r, stage[r] + 1, op), op>> \in posted'[r]
                             \/ workspace'[r][op] = Expected(r, stage[r] + 1, op, input[r])
      /\ \A op \in Operand : op \notin unasked'[r] <=> When(r, r, op) = stage[r] + 1
  BY <1>1, <1>2, FetchOfItself
<1>5. TypeOK'
  <2>1. pc' \in [Rank -> Location] /\ stage' \in [Rank -> 0 .. Side]
    BY <1>1, <1>2, <1>3, GridAssumption DEF TypeOK, Location
  <2> QED
    BY <1>1, <1>3, <2>1 DEF TypeOK, MessagesTypeOK, worker
<1>6. MainInv'
  <2> SUFFICES ASSUME NEW q \in Rank
               PROVE  /\ active'[q] <=> pc'[q] \notin {"idle", "closed"}
                      /\ active'[q] => generation'[q] >= 1
                      /\ pc'[q] \in {"fetching", "compute"} => stage'[q] < Side
                      /\ pc'[q] = "draining" => stage'[q] = Side
                      /\ \/ input[q] = generation'[q]
                         \/ pc'[q] = "idle" /\ input[q] = generation'[q] + 1
                      /\ unasked'[q] # {} => pc'[q] = "fetching"
                      /\ posted'[q] # {} => pc'[q] = "fetching"
                      /\ \A op \in unasked'[q] : Source(q, stage'[q], op) # q
                      /\ \A recv \in posted'[q] :
                           recv[2] \in Operand /\ recv[1] = Source(q, stage'[q], recv[2]) /\ recv[1] # q
    BY <1>1 DEF MainInv, InStages
  <2>1. CASE q = r
    <3>1. pc'[r] = "fetching" /\ generation'[r] = generation[r] /\ active'[r] = active[r]
      BY <1>1, <1>3 DEF TypeOK
    <3>2. generation[r] >= 1
      BY <1>1 DEF MainInv
    <3> QED
      BY <2>1, <3>1, <3>2, <1>1, <1>2, <1>4
  <2>2. CASE q # r
    <3>1. /\ active'[q] = active[q] /\ pc'[q] = pc[q]
      BY <2>2, <1>1, <1>3 DEF TypeOK
    <3> QED
      BY <2>2, <3>1, <1>2, <1>3 DEF MainInv, InStages
  <2> QED
    BY <2>1, <2>2
<1>7. ServiceInv'
  <2>1. \A q \in Rank : pc'[q] \in {"idle", "closed"} => pc[q] \in {"idle", "closed"}
    BY <1>3 DEF TypeOK
  <2> QED
    BY <2>1, <1>1 DEF ServiceInv, servedAll, worker
<1>8. ProtocolInv'
  <2> SUFFICES ASSUME NEW o \in Rank, NEW c \in Rank, NEW op \in Operand,
                      <<o, c, op>> \in Link
               PROVE  Between(o, c, op)'
    BY DEF ProtocolInv
  <2>1. Between(o, c, op)
    BY DEF ProtocolInv
  <2>2. asks(o, c, op)' = asks(o, c, op) /\ gets(o, c, op)' = gets(o, c, op)
    <3>1. CASE c # r
      BY <3>1, <1>1, <1>2, FetchBegun
    <3>2. CASE c = r
      <4>1. When(c, o, op) \in Int
        BY WhenIs, GridAssumption DEF Round
      <4>2. /\ asks(o, c, op)' = IF When(c, o, op) >= stage[r] + 1 THEN generation'[c] - 1 ELSE generation'[c]
            /\ gets(o, c, op)' = asks(o, c, op)'
        BY <3>2, <1>1, <1>2, FetchBegun
      <4>3. unasked[r] = {} /\ posted[r] = {}
        BY <1>2 DEF MainInv
      <4>4. /\ asks(o, c, op) = IF When(c, o, op) > stage[r] THEN generation[c] - 1 ELSE generation[c]
            /\ gets(o, c, op) = IF When(c, o, op) > stage[r] THEN generation[c] - 1 ELSE generation[c]
        BY <3>2, <4>3, <1>2 DEF asks, gets, InStages
      <4> QED
        BY <4>1, <4>2, <4>4, <1>1, <1>2
    <3> QED
      BY <3>1, <3>2
  <2>3. answers(o, SlotOf(c, op))' = answers(o, SlotOf(c, op))
    BY <1>1 DEF answers, servedAll, Answering, worker
  <2>4. Answering(o, SlotOf(c, op)) => Answering(o, SlotOf(c, op))'
    BY <1>1 DEF Answering, worker
  <2> QED
    BY <1>1, <2>1, <2>2, <2>3, <2>4, BetweenKept
<1>9. NoSlices'
  BY <1>1 DEF NoSlices
<1>10. CountInv'
  <2>1. ASSUME NEW q \in Rank, NEW op \in Operand PROVE askedOf(q, op)' = askedOf(q, op)
    <3>1. CASE q = r
      <4>1. When(r, r, op) \in Nat
        BY OwnRound
      <4>2. pc'[r] = "fetching" /\ stage'[r] = stage[r] + 1
        BY <1>2, <1>3 DEF TypeOK
      <4>3. askedOf(r, op)' = stage[r] + 1 - (IF When(r, r, op) < stage[r] + 1 THEN 1 ELSE 0)
        BY <4>1, <4>2, <1>2, <1>4 DEF askedOf, InStages
      <4>4. unasked[r] = {}
        BY <1>2 DEF MainInv
      <4>5. askedOf(r, op) = stage[r] - (IF When(r, r, op) < stage[r] THEN 1 ELSE 0)
                                      + (IF When(r, r, op) # stage[r] THEN 1 ELSE 0)
        BY <4>4, <1>2 DEF askedOf, InStages
      <4> QED
        BY <3>1, <4>1, <4>3, <4>5, <1>2
    <3>2. CASE q # r
      <4>1. pc'[q] = pc[q]
        BY <3>2, <1>3 DEF TypeOK
      <4> QED
        BY <3>2, <4>1, <1>2, <1>3 DEF askedOf, InStages
    <3> QED
      BY <3>1, <3>2
  <2>2. \A q \in Rank : askedOf(q, "a")' = askedOf(q, "a") /\ askedOf(q, "b")' = askedOf(q, "b")
    BY <2>1 DEF Operand
  <2> QED
    BY <2>2, <1>1 DEF CountInv, worker
<1>11. TileInv'
  <2> SUFFICES ASSUME NEW q \in Rank, InStages(q)', NEW op \in Operand
               PROVE  \/ <<Source(q, stage'[q], op), op>> \in posted'[q]
                      \/ workspace'[q][op] = Expected(q, stage'[q], op, generation'[q])
    BY DEF TileInv
  <2>1. CASE q = r
    BY <2>1, <1>1, <1>2, <1>4
  <2>2. CASE q # r
    <3>1. InStages(q)
      BY <2>2, <1>3 DEF InStages, TypeOK
    <3> QED
      BY <2>2, <3>1, <1>2, <1>3 DEF TileInv
  <2> QED
    BY <2>1, <2>2
<1> QED
  BY <1>5, <1>6, <1>7, <1>8, <1>9, <1>10, <1>11

\* The last stage is computed: every tile of the product was asked for.
LEMMA ComputeLastStep == ASSUME IInv, NEW r \in Rank, ComputeLast(r) PROVE IInv'
<1> USE DEF IInv
<1>1. /\ ~(stage[r] + 1 < Side) /\ active[r] /\ pc[r] = "compute"
      /\ pc' = [pc EXCEPT ![r] = "draining"]
      /\ stage' = [stage EXCEPT ![r] = @ + 1]
      /\ UNCHANGED <<generation, active, workspace, unasked, published>>
      /\ UNCHANGED <<worker, input, requests, posted, channel>>
  BY DEF ComputeLast, MoreStages, Goto
<1>2. stage[r] = Side - 1 /\ stage'[r] = Side /\ unasked[r] = {} /\ posted[r] = {}
  <2>1. unasked[r] = {} /\ posted[r] = {} /\ stage[r] < Side
    BY <1>1 DEF MainInv, InStages
  <2>2. stage[r] = Side - 1
    <3>1. stage[r] \in 0 .. Side
      BY DEF TypeOK
    <3> QED
      BY <3>1, <1>1, <2>1, GridAssumption
  <2>3. stage'[r] = stage[r] + 1
    BY <1>1 DEF TypeOK
  <2> QED
    BY <2>1, <2>2, <2>3, GridAssumption
<1>3. /\ pc'[r] = "draining"
      /\ \A q \in Rank \ {r} : pc'[q] = pc[q] /\ stage'[q] = stage[q]
  BY <1>1 DEF TypeOK
<1>4. TypeOK'
  <2>1. pc' \in [Rank -> Location] /\ stage' \in [Rank -> 0 .. Side]
    BY <1>1, <1>2, GridAssumption DEF TypeOK, Location
  <2> QED
    BY <1>1, <2>1 DEF TypeOK, MessagesTypeOK, worker
<1>5. MainInv'
  BY <1>1, <1>2, <1>3 DEF MainInv, InStages
<1>6. ServiceInv'
  BY <1>1, <1>3 DEF ServiceInv, servedAll, worker
<1>7. ProtocolInv'
  <2> SUFFICES ASSUME NEW o \in Rank, NEW c \in Rank, NEW op \in Operand,
                      <<o, c, op>> \in Link
               PROVE  Between(o, c, op)'
    BY DEF ProtocolInv
  <2>1. Between(o, c, op)
    BY DEF ProtocolInv
  <2>2. asks(o, c, op)' = asks(o, c, op) /\ gets(o, c, op)' = gets(o, c, op)
    <3>1. When(c, o, op) \in Int /\ When(c, o, op) <= Side - 1
      BY WhenIs, GridAssumption DEF Round
    <3> QED
      BY <3>1, <1>1, <1>2, <1>3, GridAssumption DEF asks, gets, InStages
  <2>3. answers(o, SlotOf(c, op))' = answers(o, SlotOf(c, op))
    BY <1>1 DEF answers, servedAll, Answering, worker
  <2>4. Answering(o, SlotOf(c, op)) => Answering(o, SlotOf(c, op))'
    BY <1>1 DEF Answering, worker
  <2> QED
    BY <1>1, <2>1, <2>2, <2>3, <2>4, BetweenKept
<1>8. NoSlices'
  BY <1>1 DEF NoSlices
<1>9. CountInv'
  <2>1. ASSUME NEW q \in Rank, NEW op \in Operand PROVE askedOf(q, op)' = askedOf(q, op)
    <3>1. When(q, q, op) \in Int /\ When(q, q, op) <= Side - 1
      BY OwnRound, GridAssumption DEF Round
    <3> QED
      BY <3>1, <1>1, <1>2, <1>3, GridAssumption DEF askedOf, InStages
  <2>2. \A q \in Rank : askedOf(q, "a")' = askedOf(q, "a") /\ askedOf(q, "b")' = askedOf(q, "b")
    BY <2>1 DEF Operand
  <2> QED
    BY <2>2, <1>1 DEF CountInv, worker
<1>10. TileInv'
  BY <1>1, <1>3 DEF TileInv, InStages
<1> QED
  BY <1>4, <1>5, <1>6, <1>7, <1>8, <1>9, <1>10

\* Steps of the main thread that ask for nothing and receive nothing.
LEMMA MainKeepsProtocol ==
  ASSUME ProtocolInv, NoSlices,
         UNCHANGED <<generation, stage, unasked, requests, posted, channel,
                     serving, consumed>>,
         \A r \in Rank : InStages(r)' <=> InStages(r),
         \A r \in Rank : servedAll(r)' <=> servedAll(r),
         \A r \in Rank : service[r] = "sending" => service'[r] = "sending",
         \A r \in Rank : service'[r] = "sending" => service[r] = "sending"
  PROVE  ProtocolInv' /\ NoSlices'
<1>1. ASSUME NEW o \in Rank, NEW c \in Rank, NEW op \in Operand, <<o, c, op>> \in Link
      PROVE  Between(o, c, op)'
  <2>1. Between(o, c, op)
    BY <1>1 DEF ProtocolInv
  <2>2. asks(o, c, op)' = asks(o, c, op) /\ gets(o, c, op)' = gets(o, c, op)
    BY DEF asks, gets
  <2>3. \A slot : Answering(o, slot)' <=> Answering(o, slot)
    BY DEF Answering
  <2>4. \A slot : answers(o, slot)' = answers(o, slot)
    BY <2>3 DEF answers
  <2> QED
    BY <2>1, <2>2, <2>3, <2>4, BetweenKept
<1> QED
  BY <1>1 DEF ProtocolInv, NoSlices

LEMMA FetchLocalStep == ASSUME IInv, NEW r \in Rank, FetchLocal(r) PROVE IInv'
<1> USE DEF IInv
<1>1. /\ pc[r] = "fetching" /\ pc' = [pc EXCEPT ![r] = "compute"]
      /\ unasked[r] = {} /\ posted[r] = {}
      /\ UNCHANGED <<generation, stage, active, workspace, unasked, published>>
      /\ UNCHANGED <<worker, input, requests, posted, channel>>
  BY DEF FetchLocal, Goto, ReceivesComplete
<1>2. pc'[r] = "compute" /\ \A q \in Rank \ {r} : pc'[q] = pc[q]
  BY <1>1 DEF TypeOK
<1>3. TypeOK'
  BY <1>1 DEF TypeOK, MessagesTypeOK, worker, Location
<1>4. \A q \in Rank : InStages(q)' <=> InStages(q)
  BY <1>1, <1>2 DEF InStages
<1>5. MainInv'
  BY <1>1, <1>2 DEF MainInv, InStages
<1>6. ServiceInv'
  BY <1>1, <1>2 DEF ServiceInv, servedAll, worker
<1>7. ProtocolInv' /\ NoSlices'
  BY <1>1, <1>4, MainKeepsProtocol DEF worker, servedAll
<1>8. CountInv'
  BY <1>1, <1>4 DEF CountInv, askedOf, worker
<1>9. TileInv'
  BY <1>1, <1>4 DEF TileInv
<1> QED
  BY <1>3, <1>5, <1>6, <1>7, <1>8, <1>9

LEMMA FinishLeaveStep == ASSUME IInv, NEW r \in Rank, FinishLeave(r) PROVE IInv'
<1> USE DEF IInv
<1>1. /\ pc[r] = "draining" /\ pc' = [pc EXCEPT ![r] = "idle"]
      /\ servedAll(r)
      /\ service' = [service EXCEPT ![r] = "none"]
      /\ active' = [active EXCEPT ![r] = FALSE]
      /\ UNCHANGED <<generation, stage, workspace, unasked, published>>
      /\ UNCHANGED <<serving, consumed, remaining, served>>
      /\ UNCHANGED <<input, requests, posted, channel>>
  BY DEF FinishLeave, Goto
<1>2. /\ pc'[r] = "idle" /\ service'[r] = "none" /\ ~active'[r]
      /\ \A q \in Rank \ {r} : /\ pc'[q] = pc[q] /\ service'[q] = service[q]
                               /\ active'[q] = active[q]
  BY <1>1 DEF TypeOK
<1>3. TypeOK'
  BY <1>1 DEF TypeOK, MessagesTypeOK, Location
<1>4. \A q \in Rank : InStages(q)' <=> InStages(q)
  BY <1>1, <1>2 DEF InStages
<1>5. MainInv'
  BY <1>1, <1>2 DEF MainInv, InStages
<1>6. ServiceInv'
  BY <1>1, <1>2 DEF ServiceInv, servedAll
<1>7. ProtocolInv' /\ NoSlices'
  BY <1>1, <1>2, <1>4, MainKeepsProtocol DEF servedAll
<1>8. CountInv'
  BY <1>1, <1>4 DEF CountInv, askedOf
<1>9. TileInv'
  BY <1>1, <1>4 DEF TileInv
<1> QED
  BY <1>3, <1>5, <1>6, <1>7, <1>8, <1>9

LEMMA CloseStep == ASSUME IInv, NEW r \in Rank, Close(r) PROVE IInv'
<1> USE DEF IInv
<1>1. /\ pc[r] = "idle" /\ pc' = [pc EXCEPT ![r] = "closed"]
      /\ generation[r] = MaxProducts
      /\ UNCHANGED <<generation, stage, active, workspace, unasked, published>>
      /\ UNCHANGED <<worker, input, requests, posted, channel>>
  BY DEF Close, Goto
<1>2. pc'[r] = "closed" /\ \A q \in Rank \ {r} : pc'[q] = pc[q]
  BY <1>1 DEF TypeOK
<1>3. TypeOK'
  BY <1>1 DEF TypeOK, MessagesTypeOK, worker, Location
<1>4. \A q \in Rank : InStages(q)' <=> InStages(q)
  BY <1>1, <1>2 DEF InStages
<1>5. input[r] = generation[r]
  BY <1>1, ProductsAssumption DEF MainInv, TypeOK, Version
<1>6. MainInv'
  BY <1>1, <1>2, <1>5 DEF MainInv, InStages
<1>7. ServiceInv'
  BY <1>1, <1>2 DEF ServiceInv, servedAll, worker
<1>8. ProtocolInv' /\ NoSlices'
  BY <1>1, <1>4, MainKeepsProtocol DEF worker, servedAll
<1>9. CountInv'
  BY <1>1, <1>4 DEF CountInv, askedOf, worker
<1>10. TileInv'
  BY <1>1, <1>4 DEF TileInv
<1> QED
  BY <1>3, <1>6, <1>7, <1>8, <1>9, <1>10

-----------------------------------------------------------------------------
(* Requests, answers and tiles                                             *)

\* The tiles of g products, the last of them not complete, are requests.
LEMMA CountsAreRequests ==
  ASSUME NEW g \in Version, g >= 1, NEW z \in 0 .. 2 * (Side - 1)
  PROVE  2 * (Side - 1) * (g - 1) + z \in Requests
<1> DEFINE k == 2 * (Side - 1)
<1>1. k \in Nat /\ g \in Nat /\ g <= MaxProducts /\ MaxProducts \in Nat /\ z \in Nat /\ z <= k
  BY GridAssumption, ProductsAssumption DEF Version
<1> HIDE DEF k
<1>2. k * (g - 1) \in Nat /\ k * (MaxProducts - g) \in Nat
  <2>1. g - 1 \in Nat /\ MaxProducts - g \in Nat
    BY <1>1
  <2> QED
    BY <1>1, <2>1
<1>3. k * MaxProducts = k * (MaxProducts - g) + k * (g - 1) + k
  BY <1>1
<1>4. k * (g - 1) + z \in 0 .. k * MaxProducts
  <2>1. k * MaxProducts \in Int
    BY <1>1
  <2> QED
    BY <1>1, <1>2, <1>3, <2>1
<1> QED
  BY <1>4 DEF k, Requests

LEMMA NotifyStep == ASSUME IInv, NEW r \in Rank, Notify(r) PROVE IInv'
<1> USE DEF IInv
<1>1. PICK p \in unasked[r] :
        /\ pc[r] = "fetching"
        /\ requests' = [requests EXCEPT ![Source(r, stage[r], p)][SlotOf(r, p)] = generation[r]]
        /\ published' = [published EXCEPT ![r] = @ + 1]
        /\ unasked' = [unasked EXCEPT ![r] = @ \ {p}]
        /\ UNCHANGED <<pc, generation, stage, active, workspace>>
        /\ UNCHANGED <<worker, input, posted, channel>>
  BY DEF Notify
<1> DEFINE q == Source(r, stage[r], p)
<1>2. /\ p \in Operand /\ stage[r] \in Round /\ stage[r] \in Nat /\ stage[r] < Side
      /\ generation[r] \in Version /\ generation[r] >= 1
  <2>1. p \in Operand /\ generation[r] \in Version /\ stage[r] \in 0 .. Side
    BY <1>1 DEF TypeOK
  <2>2. stage[r] < Side /\ generation[r] >= 1
    BY <1>1 DEF MainInv, InStages
  <2> QED
    BY <2>1, <2>2, GridAssumption DEF Round
<1>3. q # r /\ q \in Rank /\ <<q, r, p>> \in Link
  <2>1. q # r
    BY <1>1 DEF MainInv
  <2> QED
    BY <1>2, <2>1, SourceLinks
<1>4. /\ When(r, q, p) = stage[r]
      /\ \A o \in Rank : <<o, r, p>> \in Link /\ o # q => When(r, o, p) # stage[r]
  BY <1>2, <1>3, WhenIs
<1>5. SlotOf(r, p) \in Slot /\ SlotOf(r, p)[1] = p /\ Consumer(q, SlotOf(r, p)) = r
  BY <1>2, <1>3, SlotOfConsumer
<1> HIDE DEF q
<1>6. /\ requests' = [requests EXCEPT ![q][SlotOf(r, p)] = generation[r]]
  BY <1>1 DEF q
<1>7. /\ unasked'[r] = unasked[r] \ {p} /\ published'[r] = published[r] + 1
      /\ \A c \in Rank \ {r} : unasked'[c] = unasked[c] /\ published'[c] = published[c]
  BY <1>1 DEF TypeOK
<1>8. ASSUME NEW op \in Operand
      PROVE  /\ op = p => askedOf(r, op)' = askedOf(r, op) + 1
             /\ op # p => askedOf(r, op)' = askedOf(r, op)
             /\ askedOf(r, op)' \in 0 .. Side - 1
  <2>1. When(r, r, op) \in Round /\ When(r, r, op) \in Nat /\ When(r, r, op) <= Side - 1
    BY OwnRound, GridAssumption DEF Round
  <2>2. When(r, r, p) # stage[r]
    BY <1>2, <1>3, OwnRound DEF q
  <2>3. /\ askedOf(r, op) = stage[r] - (IF When(r, r, op) < stage[r] THEN 1 ELSE 0)
             + (IF When(r, r, op) # stage[r] /\ op \notin unasked[r] THEN 1 ELSE 0)
        /\ askedOf(r, op)' = stage[r] - (IF When(r, r, op) < stage[r] THEN 1 ELSE 0)
             + (IF When(r, r, op) # stage[r] /\ op \notin unasked'[r] THEN 1 ELSE 0)
    BY <1>1 DEF askedOf, InStages
  <2>4. op \notin unasked'[r] <=> (op \notin unasked[r] \/ op = p)
    BY <1>7
  <2> QED
    BY <1>1, <1>2, <2>1, <2>2, <2>3, <2>4, GridAssumption
<1>9. CountInv'
  <2> SUFFICES ASSUME NEW c \in Rank
               PROVE  published'[c] = 2 * (Side - 1) * (generation[c] - 1)
                                        + askedOf(c, "a")' + askedOf(c, "b")'
    BY <1>1 DEF CountInv, worker
  <2>1. published[c] = 2 * (Side - 1) * (generation[c] - 1) + askedOf(c, "a") + askedOf(c, "b")
    BY DEF CountInv
  <2>2. CASE c = r
    <3>1. askedOf(r, "a")' + askedOf(r, "b")' = askedOf(r, "a") + askedOf(r, "b") + 1
      <4>1. askedOf(r, "a") \in Int /\ askedOf(r, "b") \in Int
        BY <1>2, GridAssumption DEF askedOf
      <4> QED
        BY <1>2, <1>8, <4>1 DEF Operand
    <3>2. /\ askedOf(r, "a") \in Int /\ askedOf(r, "b") \in Int
          /\ askedOf(r, "a")' \in Int /\ askedOf(r, "b")' \in Int
      BY <1>2, <1>8, GridAssumption DEF askedOf, Operand
    <3>3. 2 * (Side - 1) * (generation[r] - 1) \in Int
      BY <1>2, GridAssumption, ProductsAssumption DEF Version
    <3> HIDE DEF askedOf
    <3> QED
      BY <2>1, <2>2, <3>1, <3>2, <3>3, <1>7
  <2>3. CASE c # r
    <3>1. askedOf(c, "a")' = askedOf(c, "a") /\ askedOf(c, "b")' = askedOf(c, "b")
      BY <2>3, <1>1, <1>7 DEF askedOf, InStages
    <3> QED
      BY <2>1, <2>3, <3>1, <1>7
  <2> QED
    BY <2>2, <2>3
<1>10. TypeOK'
  <2>1. requests' \in [Rank -> [Slot -> Version]]
    BY <1>2, <1>3, <1>5, <1>6 DEF TypeOK
  <2>2. published' \in [Rank -> Requests]
    <3>1. published'[r] = 2 * (Side - 1) * (generation[r] - 1) + askedOf(r, "a")' + askedOf(r, "b")'
      BY <1>1, <1>9 DEF CountInv
    <3>2. askedOf(r, "a")' \in 0 .. Side - 1 /\ askedOf(r, "b")' \in 0 .. Side - 1
      BY <1>8 DEF Operand
    <3>3. askedOf(r, "a")' + askedOf(r, "b")' \in 0 .. 2 * (Side - 1)
      BY <3>2, GridAssumption
    <3>4. 2 * (Side - 1) * (generation[r] - 1) + (askedOf(r, "a")' + askedOf(r, "b")') \in Requests
      BY <1>2, <3>3, CountsAreRequests
    <3>5. 2 * (Side - 1) * (generation[r] - 1) \in Int
      BY <1>2, GridAssumption, ProductsAssumption DEF Version
    <3>6. published'[r] \in Requests
      BY <3>1, <3>2, <3>4, <3>5
    <3> QED
      BY <1>1, <3>6 DEF TypeOK
  <2>3. unasked' \in [Rank -> SUBSET Operand]
    BY <1>1 DEF TypeOK
  <2> QED
    BY <1>1, <2>1, <2>2, <2>3 DEF TypeOK, MessagesTypeOK, worker
<1>11. MainInv'
  <2>1. \A c \in Rank : unasked'[c] \subseteq unasked[c]
    BY <1>7
  <2> QED
    BY <1>1, <2>1 DEF MainInv, InStages
<1>12. ServiceInv' /\ NoSlices' /\ TileInv'
  BY <1>1 DEF ServiceInv, NoSlices, TileInv, InStages, servedAll, worker
<1>13. ProtocolInv'
  <2> SUFFICES ASSUME NEW o \in Rank, NEW c \in Rank, NEW op \in Operand,
                      <<o, c, op>> \in Link
               PROVE  Between(o, c, op)'
    BY DEF ProtocolInv
  <2>1. Between(o, c, op)
    BY DEF ProtocolInv
  <2>2. /\ gets(o, c, op)' = gets(o, c, op)
        /\ answers(o, SlotOf(c, op))' = answers(o, SlotOf(c, op))
        /\ Answering(o, SlotOf(c, op))' <=> Answering(o, SlotOf(c, op))
    BY <1>1 DEF gets, answers, Answering, servedAll, InStages, worker
  <2>3. CASE o = q /\ c = r /\ op = p
    <3>1. asks(o, c, op) = generation[r] - 1 /\ asks(o, c, op)' = generation[r]
      BY <2>3, <1>1, <1>2, <1>4, <1>7 DEF asks, InStages
    <3>2. requests'[o][SlotOf(c, op)] = generation[r]
      BY <2>3, <1>3, <1>5, <1>6 DEF TypeOK
    <3>3. /\ gets(o, c, op) <= answers(o, SlotOf(c, op))
          /\ answers(o, SlotOf(c, op)) <= asks(o, c, op)
          /\ Len(channel[<<o, c, op>>]) = answers(o, SlotOf(c, op)) - gets(o, c, op)
          /\ Travelling(o, c, op)
      BY <2>1 DEF Between
    <3>4. generation[r] \in Nat /\ answers(o, SlotOf(c, op)) \in Int
      BY ProductsAssumption DEF TypeOK, Version, answers
    <3>5. answers(o, SlotOf(c, op))' <= asks(o, c, op)'
      BY <2>2, <3>1, <3>3, <3>4
    <3>6. Travelling(o, c, op)'
      BY <1>1, <2>2, <3>3 DEF Travelling
    <3> QED
      BY <1>1, <2>2, <3>1, <3>2, <3>3, <3>5, <3>6 DEF Between
  <2>4. CASE ~(o = q /\ c = r /\ op = p)
    <3>1. asks(o, c, op)' = asks(o, c, op)
      <4>1. CASE c # r
        BY <4>1, <1>1, <1>7 DEF asks, InStages
      <4>2. CASE c = r /\ op # p
        BY <4>2, <1>1, <1>7 DEF asks, InStages
      <4>3. CASE c = r /\ op = p
        BY <4>3, <2>4, <1>1, <1>4 DEF asks, InStages
      <4> QED
        BY <4>1, <4>2, <4>3
    <3>2. ~(o = q /\ SlotOf(c, op) = SlotOf(r, p))
      <4>1. SlotOf(c, op)[1] = op /\ Consumer(o, SlotOf(c, op)) = c
        BY SlotOfConsumer
      <4> QED
        BY <4>1, <1>5, <2>4
    <3>3. requests'[o][SlotOf(c, op)] = requests[o][SlotOf(c, op)]
      <4>1. SlotOf(c, op) \in Slot
        BY SlotOfConsumer
      <4> QED
        BY <4>1, <3>2, <1>3, <1>5, <1>6 DEF TypeOK
    <3> QED
      BY <1>1, <2>1, <2>2, <3>1, <3>3, BetweenKept
  <2> QED
    BY <2>3, <2>4
<1> QED
  BY <1>9, <1>10, <1>11, <1>12, <1>13

LEMMA ServeStep == ASSUME IInv, NEW r \in Rank, Serve(r) PROVE IInv'
<1> USE DEF IInv
<1>1. PICK slot \in Slot \ consumed[r] :
        /\ service[r] = "polling"
        /\ requested(r, slot)
        /\ service' = [service EXCEPT ![r] = "sending"]
        /\ serving' = [serving EXCEPT ![r] = slot]
        /\ sendTiles(r, {<<Consumer(r, slot), slot[1]>>}, SendBuffer(r))
        /\ UNCHANGED <<main, consumed, remaining, served, input, requests, posted>>
  BY DEF Serve
<1> DEFINE q == Consumer(r, slot)
<1> DEFINE p == slot[1]
<1>2. /\ slot \in Slot \ OwnSlots(r) /\ requests[r][slot] = generation[r]
      /\ pc[r] \notin {"idle", "closed"} /\ input[r] = generation[r]
      /\ generation[r] \in Nat /\ input[r] \in Version
  <2>1. OwnSlots(r) \subseteq consumed[r] /\ pc[r] \notin {"idle", "closed"}
    BY <1>1 DEF ServiceInv, servedAll
  <2>2. requests[r][slot] = generation[r]
    BY <1>1 DEF requested, ServedGeneration
  <2>3. generation[r] \in Nat /\ input[r] \in Version
    BY ProductsAssumption DEF TypeOK, Version
  <2> QED
    BY <1>1, <2>1, <2>2, <2>3 DEF MainInv
<1>3. q \in Rank /\ p \in Operand /\ <<r, q, p>> \in Link /\ SlotOf(q, p) = slot
  BY <1>2, ConsumerOfSlot
<1> HIDE DEF q, p
<1>4. /\ service'[r] = "sending" /\ serving'[r] = slot
      /\ \A o \in Rank \ {r} : service'[o] = service[o] /\ serving'[o] = serving[o]
  BY <1>1 DEF TypeOK
<1>5. PICK eager \in SendModes :
        channel' = [c \in Link |->
          IF c[1] = r /\ <<c[2], c[3]>> \in {<<q, p>>}
          THEN Append(channel[c], [eager |-> eager,
                                   tile |-> IF eager THEN SendBuffer(r)[c[3]] ELSE NoTile])
          ELSE channel[c]]
  BY <1>1 DEF sendTiles, q, p
<1> DEFINE message == [eager |-> eager, tile |-> IF eager THEN Tile(r, input[r]) ELSE NoTile]
<1>6. message \in Message
  <2>1. eager \in BOOLEAN
    BY <1>5, SendModesAssumption
  <2>2. Tile(r, input[r]) \in TileOrNone /\ NoTile \in TileOrNone
    BY <1>2 DEF Tile, TileOrNone
  <2> QED
    BY <2>1, <2>2 DEF Message
<1>7. /\ channel'[<<r, q, p>>] = Append(channel[<<r, q, p>>], message)
      /\ \A c \in Link : c # <<r, q, p>> => channel'[c] = channel[c]
      /\ DOMAIN channel' = Link
  <2>1. SendBuffer(r)[p] = Tile(r, input[r])
    BY <1>3 DEF SendBuffer, Tag
  <2>2. \A c \in Link : c = <<c[1], c[2], c[3]>>
    BY DEF Link
  <2>3. channel'[<<r, q, p>>] = Append(channel[<<r, q, p>>], message)
    BY <1>3, <1>5, <2>1
  <2>4. \A c \in Link : c # <<r, q, p>> => channel'[c] = channel[c]
    BY <1>5, <2>2
  <2> QED
    BY <1>5, <2>3, <2>4
<1> HIDE DEF message
<1>8. answers(r, slot) = generation[r] - 1 /\ answers(r, slot)' = generation[r]
  <2>1. answers(r, slot) = generation[r] - 1
    BY <1>1 DEF answers, servedAll, Answering
  <2>2. answers(r, slot)' = generation'[r]
    BY <1>4 DEF answers, Answering
  <2> QED
    BY <1>1, <2>1, <2>2 DEF main
<1>9. /\ channel[<<r, q, p>>] = <<>>
      /\ asks(r, q, p) = generation[r] /\ gets(r, q, p) = generation[r] - 1
  <2>1. /\ requests[r][slot] = asks(r, q, p)
        /\ gets(r, q, p) <= answers(r, slot)
        /\ Len(channel[<<r, q, p>>]) = answers(r, slot) - gets(r, q, p)
    BY <1>3 DEF ProtocolInv, Between
  <2>2. /\ asks(r, q, p) \in {generation[q] - 1, generation[q]}
        /\ gets(r, q, p) \in {generation[q] - 1, generation[q]}
        /\ generation[q] \in Nat
    BY <1>3, PairNumbers
  <2>3. asks(r, q, p) = generation[r]
    BY <2>1, <1>2
  <2>4. gets(r, q, p) = generation[r] - 1
    BY <2>1, <2>2, <2>3, <1>2, <1>8
  <2>5. Len(channel[<<r, q, p>>]) = 0
    BY <2>1, <2>4, <1>2, <1>8
  <2>6. channel[<<r, q, p>>] \in Seq(Message)
    BY <1>3 DEF TypeOK, MessagesTypeOK
  <2> QED
    BY <2>3, <2>4, <2>5, <2>6, EmptySeq
<1>10. TypeOK'
  <2>1. channel' \in [Link -> Seq(Message)]
    <3>1. \A c \in Link : channel[c] \in Seq(Message)
      BY DEF TypeOK, MessagesTypeOK
    <3>2. channel'[<<r, q, p>>] \in Seq(Message)
      BY <1>3, <1>6, <1>7, <3>1
    <3>3. \A c \in Link : channel'[c] \in Seq(Message)
      BY <1>7, <3>1, <3>2
    <3>4. channel' = [c \in Link |-> channel'[c]]
      BY <1>5
    <3> QED
      BY <3>3, <3>4
  <2>2. /\ service' \in [Rank -> {"none", "polling", "sending", "done"}]
        /\ serving' \in [Rank -> Slot]
    BY <1>1 DEF TypeOK
  <2> QED
    BY <1>1, <2>1, <2>2 DEF TypeOK, MessagesTypeOK, main
<1>11. MainInv' /\ CountInv' /\ TileInv'
  BY <1>1 DEF MainInv, CountInv, TileInv, InStages, askedOf, main
<1>12. ServiceInv'
  <2>1. \A o \in Rank : servedAll(o)' <=> servedAll(o)
    BY <1>1, <1>4 DEF servedAll
  <2>2. \A o \in Rank : service'[o] = "none" <=> service[o] = "none"
    BY <1>1, <1>4
  <2>3. \A o \in Rank : service'[o] = "sending" => serving'[o] \in Slot \ consumed[o]
    BY <1>1, <1>4 DEF ServiceInv
  <2> QED
    BY <1>1, <2>1, <2>2, <2>3 DEF ServiceInv, main
<1>13. ProtocolInv'
  <2> SUFFICES ASSUME NEW o \in Rank, NEW c \in Rank, NEW op \in Operand,
                      <<o, c, op>> \in Link
               PROVE  Between(o, c, op)'
    BY DEF ProtocolInv
  <2>1. Between(o, c, op)
    BY DEF ProtocolInv
  <2>2. asks(o, c, op)' = asks(o, c, op) /\ gets(o, c, op)' = gets(o, c, op)
    BY <1>1 DEF asks, gets, InStages, main
  <2>3. CASE <<o, c, op>> = <<r, q, p>>
    <3>1. o = r /\ c = q /\ op = p /\ SlotOf(c, op) = slot
      BY <2>3, <1>3
    <3>2. channel'[<<o, c, op>>] = <<message>>
      BY <3>1, <1>7, <1>9
    <3>3. Len(<<message>>) = 1 /\ <<message>>[1] = message
      OBVIOUS
    <3>4. Answering(o, SlotOf(c, op))'
      BY <3>1, <1>4 DEF Answering
    <3>5. message.eager => message.tile = Tile(o, generation[r])
      BY <3>1, <1>2 DEF message
    <3>6. Travelling(o, c, op)'
      BY <3>1, <3>2, <3>3, <3>4, <3>5, <1>8 DEF Travelling
    <3>7. requests'[o][SlotOf(c, op)] = asks(o, c, op)'
      BY <1>1, <2>1, <2>2 DEF Between
    <3>8. /\ gets(o, c, op)' = generation[r] - 1 /\ asks(o, c, op)' = generation[r]
          /\ answers(o, SlotOf(c, op))' = generation[r]
      BY <3>1, <2>2, <1>8, <1>9
    <3>9. /\ gets(o, c, op)' <= answers(o, SlotOf(c, op))'
          /\ answers(o, SlotOf(c, op))' <= asks(o, c, op)'
          /\ Len(channel'[<<o, c, op>>]) = answers(o, SlotOf(c, op))' - gets(o, c, op)'
      BY <3>2, <3>3, <3>8, <1>2
    <3> QED
      BY <3>6, <3>7, <3>9 DEF Between
  <2>4. CASE <<o, c, op>> # <<r, q, p>>
    <3>1. ~(o = r /\ SlotOf(c, op) = slot)
      <4>1. SlotOf(c, op)[1] = op /\ Consumer(o, SlotOf(c, op)) = c
        BY SlotOfConsumer
      <4> QED
        BY <2>4, <4>1 DEF q, p
    <3>2. Answering(o, SlotOf(c, op))' <=> Answering(o, SlotOf(c, op))
      BY <3>1, <1>1, <1>4 DEF Answering
    <3>3. answers(o, SlotOf(c, op))' = answers(o, SlotOf(c, op))
      <4>1. servedAll(o)' <=> servedAll(o)
        BY <1>1, <1>4 DEF servedAll
      <4> QED
        BY <3>2, <4>1, <1>1 DEF answers, main
    <3> QED
      BY <1>1, <1>7, <2>1, <2>2, <2>4, <3>2, <3>3, BetweenKept
  <2> QED
    BY <2>3, <2>4
<1>14. NoSlices'
  <2>1. p # "slice"
    BY <1>3 DEF Operand
  <2> QED
    BY <2>1, <1>7 DEF NoSlices
<1> QED
  BY <1>10, <1>11, <1>12, <1>13, <1>14

\* The thread is done when there is no slot left to answer.
LEMMA ServedStep == ASSUME IInv, NEW r \in Rank, Served(r) PROVE IInv'
<1> USE DEF IInv
<1>1. /\ service[r] = "sending" /\ SendsComplete(r)
      /\ consumed' = [consumed EXCEPT ![r] = consumed[r] \cup {serving[r]}]
      /\ remaining' = [remaining EXCEPT ![r] = @ - 1]
      /\ served' = [served EXCEPT ![r] = @ + 1]
      /\ service' = [service EXCEPT ![r] = IF remaining[r] > 1 THEN "polling" ELSE "done"]
      /\ serving' = [serving EXCEPT ![r] = NoSlot]
      /\ UNCHANGED <<main, input, requests, posted, channel>>
  BY DEF Served, consumes
<1>2. /\ serving[r] \in Slot \ consumed[r] /\ pc[r] \notin {"idle", "closed"}
      /\ OwnSlots(r) \subseteq consumed[r] /\ remaining[r] >= 1
      /\ remaining[r] = Cardinality(Slot \ consumed[r])
      /\ remaining[r] \in 0 .. 2 * (Side - 1)
  BY <1>1 DEF ServiceInv, servedAll, TypeOK
<1>3. /\ consumed'[r] = consumed[r] \cup {serving[r]} /\ remaining'[r] = remaining[r] - 1
      /\ served'[r] = served[r] + 1
      /\ service'[r] = IF remaining[r] > 1 THEN "polling" ELSE "done"
      /\ \A o \in Rank \ {r} : /\ consumed'[o] = consumed[o] /\ remaining'[o] = remaining[o]
                               /\ service'[o] = service[o] /\ serving'[o] = serving[o]
                               /\ served'[o] = served[o]
  BY <1>1 DEF TypeOK
<1>4. Cardinality(Slot \ consumed'[r]) = remaining[r] - 1
  <2>1. IsFiniteSet(Slot \ consumed[r])
    BY NumberOfSlots, FS_Difference
  <2>2. Cardinality((Slot \ consumed[r]) \ {serving[r]}) = Cardinality(Slot \ consumed[r]) - 1
    BY <1>2, <2>1, FS_RemoveElement
  <2>3. (Slot \ consumed[r]) \ {serving[r]} = Slot \ consumed'[r]
    BY <1>3
  <2> QED
    BY <1>2, <2>2, <2>3
<1>5. remaining[r] = 1 => Slot \ consumed[r] = {serving[r]}
  <2> SUFFICES ASSUME remaining[r] = 1 PROVE Slot \ consumed[r] = {serving[r]}
    OBVIOUS
  <2>1. IsFiniteSet(Slot \ consumed[r])
    BY NumberOfSlots, FS_Difference
  <2>2. \E x : Slot \ consumed[r] = {x}
    BY <1>2, <2>1, FS_Singleton
  <2> QED
    BY <1>2, <2>2
<1>6. CountInv'
  <2> SUFFICES ASSUME NEW c \in Rank
               PROVE  served'[c] = 2 * (Side - 1) * generation[c] - remaining'[c]
    BY <1>1 DEF CountInv, askedOf, InStages, main
  <2>1. served[c] = 2 * (Side - 1) * generation[c] - remaining[c]
    BY DEF CountInv
  <2>2. 2 * (Side - 1) * generation[c] \in Int /\ remaining[c] \in Int
    <3>1. generation[c] \in Int /\ remaining[c] \in Int
      BY ProductsAssumption, GridAssumption DEF TypeOK, Version
    <3> QED
      BY <3>1, GridAssumption
  <2>3. CASE c = r
    BY <2>1, <2>2, <2>3, <1>3
  <2>4. CASE c # r
    BY <2>1, <2>4, <1>3
  <2> QED
    BY <2>3, <2>4
<1>7. TypeOK'
  <2>1. consumed' \in [Rank -> SUBSET Slot]
    BY <1>1, <1>2 DEF TypeOK
  <2>2. remaining' \in [Rank -> 0 .. 2 * (Side - 1)]
    <3>1. remaining[r] - 1 \in 0 .. 2 * (Side - 1)
      BY <1>2, GridAssumption
    <3> QED
      BY <1>1, <3>1 DEF TypeOK
  <2>3. served' \in [Rank -> Requests]
    <3>1. generation[r] \in Version /\ generation[r] >= 1
      BY <1>2 DEF TypeOK, MainInv
    <3>2. served'[r] = 2 * (Side - 1) * generation[r] - remaining'[r]
      BY <1>1, <1>6 DEF CountInv, main
    <3>3. remaining'[r] \in 0 .. 2 * (Side - 1)
      BY <2>2
    <3>4. 2 * (Side - 1) - remaining'[r] \in 0 .. 2 * (Side - 1)
      BY <3>3, GridAssumption
    <3>5. 2 * (Side - 1) * (generation[r] - 1) + (2 * (Side - 1) - remaining'[r]) \in Requests
      BY <3>1, <3>4, CountsAreRequests
    <3>6. 2 * (Side - 1) * (generation[r] - 1) + (2 * (Side - 1) - remaining'[r])
            = 2 * (Side - 1) * generation[r] - remaining'[r]
      <4>1. generation[r] \in Int /\ remaining'[r] \in Int
        BY <3>1, <3>3, GridAssumption, ProductsAssumption DEF Version
      <4> QED
        BY <4>1, GridAssumption
    <3>7. served'[r] \in Requests
      BY <3>2, <3>5, <3>6
    <3> QED
      BY <1>1, <3>7 DEF TypeOK
  <2>4. /\ service' \in [Rank -> {"none", "polling", "sending", "done"}]
        /\ serving' \in [Rank -> Slot]
    <3>1. NoSlot \in Slot
      BY GridAssumption DEF NoSlot, Slot, Operand, Coord
    <3> QED
      BY <1>1, <3>1 DEF TypeOK
  <2> QED
    BY <1>1, <2>1, <2>2, <2>3, <2>4 DEF TypeOK, MessagesTypeOK, main
<1>8. MainInv' /\ TileInv' /\ NoSlices'
  BY <1>1 DEF MainInv, TileInv, NoSlices, InStages, main
<1>9. ServiceInv'
  <2> SUFFICES ASSUME NEW o \in Rank
               PROVE  /\ pc[o] \in {"idle", "closed"} => service'[o] = "none"
                      /\ service'[o] \in {"none", "done"} => remaining'[o] = 0
                      /\ service'[o] \notin {"none", "done"} =>
                           /\ OwnSlots(o) \subseteq consumed'[o]
                           /\ remaining'[o] = Cardinality(Slot \ consumed'[o])
                           /\ remaining'[o] >= 1
                      /\ service'[o] = "sending" => serving'[o] \in Slot \ consumed'[o]
    BY <1>1 DEF ServiceInv, servedAll, main
  <2>1. CASE o = r
    BY <2>1, <1>2, <1>3, <1>4, GridAssumption
  <2>2. CASE o # r
    BY <2>2, <1>3 DEF ServiceInv, servedAll
  <2> QED
    BY <2>1, <2>2
<1>10. ProtocolInv'
  <2> SUFFICES ASSUME NEW o \in Rank, NEW c \in Rank, NEW op \in Operand,
                      <<o, c, op>> \in Link
               PROVE  Between(o, c, op)'
    BY DEF ProtocolInv
  <2>1. Between(o, c, op)
    BY DEF ProtocolInv
  <2>2. asks(o, c, op)' = asks(o, c, op) /\ gets(o, c, op)' = gets(o, c, op)
    BY <1>1 DEF asks, gets, InStages, main
  <2>3. CASE o # r
    <3>1. /\ Answering(o, SlotOf(c, op))' <=> Answering(o, SlotOf(c, op))
          /\ answers(o, SlotOf(c, op))' = answers(o, SlotOf(c, op))
      BY <2>3, <1>1, <1>3 DEF answers, Answering, servedAll, main
    <3> QED
      BY <1>1, <2>1, <2>2, <3>1, BetweenKept
  <2>4. CASE o = r
    <3>1. SlotOf(c, op) \in Slot
      BY SlotOfConsumer
    <3>2. answers(o, SlotOf(c, op))' = answers(o, SlotOf(c, op))
      <4>1. CASE SlotOf(c, op) = serving[r]
        <5>1. answers(o, SlotOf(c, op)) = generation[r]
          BY <2>4, <4>1, <1>1 DEF answers, Answering
        <5>2. answers(o, SlotOf(c, op))' = generation'[r]
          BY <2>4, <4>1, <1>3 DEF answers
        <5> QED
          BY <5>1, <5>2, <1>1 DEF main
      <4>2. CASE SlotOf(c, op) # serving[r] /\ SlotOf(c, op) \in consumed[r]
        <5>1. answers(o, SlotOf(c, op)) = generation[r]
          BY <2>4, <4>2 DEF answers
        <5>2. answers(o, SlotOf(c, op))' = generation'[r]
          BY <2>4, <4>2, <1>3 DEF answers
        <5> QED
          BY <5>1, <5>2, <1>1 DEF main
      <4>3. CASE SlotOf(c, op) # serving[r] /\ SlotOf(c, op) \notin consumed[r]
        <5>1. remaining[r] > 1
          BY <3>1, <4>3, <1>2, <1>5, GridAssumption
        <5>2. answers(o, SlotOf(c, op)) = generation[r] - 1
          BY <2>4, <4>3, <1>1 DEF answers, servedAll, Answering
        <5>3. answers(o, SlotOf(c, op))' = generation'[r] - 1
          BY <2>4, <4>3, <5>1, <1>3 DEF answers, servedAll, Answering
        <5> QED
          BY <5>2, <5>3, <1>1 DEF main
      <4> QED
        BY <4>1, <4>2, <4>3
    <3>3. Travelling(o, c, op)'
      <4>1. channel[<<o, c, op>>] # <<>> => channel[<<o, c, op>>][1].eager
        <5> SUFFICES ASSUME channel[<<o, c, op>>] # <<>> PROVE channel[<<o, c, op>>][1].eager
          OBVIOUS
        <5>1. channel[<<o, c, op>>] \in Seq(Message)
          BY DEF TypeOK, MessagesTypeOK
        <5>2. 1 \in DOMAIN channel[<<o, c, op>>]
          BY <5>1
        <5> QED
          BY <2>4, <5>2, <1>1 DEF SendsComplete
      <4>2. Travelling(o, c, op)
        BY <2>1 DEF Between
      <4> QED
        BY <4>1, <4>2, <3>2, <1>1 DEF Travelling
    <3> QED
      BY <1>1, <2>1, <2>2, <3>2, <3>3 DEF Between
  <2> QED
    BY <2>3, <2>4
<1> QED
  BY <1>6, <1>7, <1>8, <1>9, <1>10

\* A tile on its way is the one the consumer has asked for and waits for.
LEMMA Arriving ==
  ASSUME IInv, NEW o \in Rank, NEW c \in Rank, NEW op \in Operand,
         <<o, c, op>> \in Link, channel[<<o, c, op>>] # <<>>
  PROVE  /\ Len(channel[<<o, c, op>>]) = 1
         /\ channel[<<o, c, op>>] \in Seq(Message)
         /\ answers(o, SlotOf(c, op)) = generation[c]
         /\ asks(o, c, op) = generation[c] /\ gets(o, c, op) = generation[c] - 1
         /\ InStages(c) /\ When(c, o, op) = stage[c]
         /\ <<o, op>> \in posted[c] /\ op \notin unasked[c]
<1> USE DEF IInv
<1>1. channel[<<o, c, op>>] \in Seq(Message)
  BY DEF TypeOK, MessagesTypeOK
<1>2. Len(channel[<<o, c, op>>]) \in Nat /\ Len(channel[<<o, c, op>>]) # 0
  BY <1>1, EmptySeq, LenProperties
<1>3. /\ gets(o, c, op) <= answers(o, SlotOf(c, op))
      /\ answers(o, SlotOf(c, op)) <= asks(o, c, op)
      /\ Len(channel[<<o, c, op>>]) = answers(o, SlotOf(c, op)) - gets(o, c, op)
  BY DEF ProtocolInv, Between
<1>4. /\ generation[c] \in Nat /\ generation[o] \in Nat
      /\ asks(o, c, op) \in {generation[c] - 1, generation[c]}
      /\ gets(o, c, op) \in {generation[c] - 1, generation[c]}
      /\ answers(o, SlotOf(c, op)) \in {generation[o] - 1, generation[o]}
  BY PairNumbers
<1>5. /\ Len(channel[<<o, c, op>>]) = 1 /\ answers(o, SlotOf(c, op)) = generation[c]
      /\ asks(o, c, op) = generation[c] /\ gets(o, c, op) = generation[c] - 1
  BY <1>2, <1>3, <1>4
<1>6. /\ InStages(c)
      /\ \/ When(c, o, op) > stage[c]
         \/ When(c, o, op) = stage[c] /\ <<o, op>> \in posted[c]
  BY <1>4, <1>5 DEF gets
<1>7. ~(\/ When(c, o, op) > stage[c]
        \/ When(c, o, op) = stage[c] /\ op \in unasked[c])
  BY <1>4, <1>5, <1>6 DEF asks
<1> QED
  BY <1>1, <1>5, <1>6, <1>7

LEMMA MatchStep == ASSUME IInv, NEW r \in Rank, Match(r) PROVE IInv'
<1> USE DEF IInv
<1>1. PICK recv \in posted[r] :
        /\ Meet(r, recv)
        /\ workspace' = [workspace EXCEPT ![r][recv[2]] = Received(r, recv, SendBuffer(recv[1]))]
        /\ pc' = [pc EXCEPT ![r] = IF last(r, recv) THEN "compute" ELSE @]
        /\ UNCHANGED <<generation, stage, active, unasked, published>>
        /\ UNCHANGED <<worker, input, requests>>
  BY DEF Match
<1> DEFINE q == recv[1]
<1> DEFINE p == recv[2]
<1>2. /\ pc[r] = "fetching" /\ p \in Operand /\ q = Source(r, stage[r], p) /\ q # r
      /\ recv = <<q, p>> /\ q \in Rank
  <2>1. recv \in Rank \X Tag
    BY DEF TypeOK, MessagesTypeOK
  <2> QED
    BY <2>1 DEF MainInv
<1>3. stage[r] \in Round /\ <<q, r, p>> \in Link
  <2>1. stage[r] \in 0 .. Side /\ stage[r] < Side
    BY <1>2 DEF TypeOK, MainInv, InStages
  <2>2. stage[r] \in Round
    BY <2>1, GridAssumption DEF Round
  <2> QED
    BY <1>2, <2>2, SourceLinks
<1> HIDE DEF q, p
<1>4. /\ channel[<<q, r, p>>] # <<>>
      /\ channel' = [channel EXCEPT ![<<q, r, p>>] = Tail(@)]
      /\ posted' = [posted EXCEPT ![r] = @ \ {recv}]
      /\ workspace' = [workspace EXCEPT ![r][p] = Received(r, recv, SendBuffer(q))]
  BY <1>1 DEF Meet, q, p
<1>5. /\ Len(channel[<<q, r, p>>]) = 1 /\ channel[<<q, r, p>>] \in Seq(Message)
      /\ answers(q, SlotOf(r, p)) = generation[r]
      /\ asks(q, r, p) = generation[r] /\ gets(q, r, p) = generation[r] - 1
      /\ When(r, q, p) = stage[r] /\ p \notin unasked[r]
  BY <1>2, <1>3, <1>4, Arriving
<1>6. Between(q, r, p)
  BY <1>2, <1>3 DEF ProtocolInv
\* What is received is what the stage needs.
<1>7. Received(r, recv, SendBuffer(q)) = Tile(q, generation[r])
  <2> DEFINE message == channel[<<q, r, p>>][1]
  <2>1. Head(channel[<<q, r, p>>]) = message
    BY <1>4, <1>5
  <2>2. Received(r, recv, SendBuffer(q)) = IF message.eager THEN message.tile ELSE Tile(q, input[q])
    <3>1. recv[1] = q /\ recv[2] = p /\ p \in Tag
      BY <1>2 DEF q, p, Tag
    <3>2. SendBuffer(q)[p] = Tile(q, input[q])
      BY <3>1 DEF SendBuffer
    <3> HIDE DEF message
    <3> QED
      BY <2>1, <3>1, <3>2 DEF Received
  <2>3. /\ message.eager => message.tile = Tile(q, generation[r])
        /\ ~message.eager => Answering(q, SlotOf(r, p))
    BY <1>4, <1>5, <1>6 DEF Between, Travelling
  <2> HIDE DEF message
  <2>4. ASSUME ~message.eager PROVE input[q] = generation[r]
    <3>1. service[q] = "sending" /\ serving[q] = SlotOf(r, p)
      BY <2>3, <2>4 DEF Answering
    <3>2. answers(q, SlotOf(r, p)) = generation[q]
      BY <3>1 DEF answers, Answering
    <3>3. input[q] = generation[q]
      BY <3>1, <1>2 DEF MainInv, ServiceInv
    <3> QED
      BY <3>2, <3>3, <1>5
  <2> QED
    BY <2>2, <2>3, <2>4
<1>8. /\ workspace'[r][p] = Expected(r, stage[r], p, generation[r])
      /\ \A op \in Operand \ {p} : workspace'[r][op] = workspace[r][op]
      /\ \A c \in Rank \ {r} : workspace'[c] = workspace[c]
      /\ workspace' \in [Rank -> [Operand -> TileOrNone]]
  <2>1. Tile(q, generation[r]) = Expected(r, stage[r], p, generation[r])
    BY <1>2 DEF Expected, q, p
  <2>2. Tile(q, generation[r]) \in TileOrNone
    BY <1>2 DEF Tile, TileOrNone, TypeOK
  <2>3. workspace' = [workspace EXCEPT ![r][p] = Tile(q, generation[r])]
    BY <1>4, <1>7
  <2> QED
    BY <1>2, <2>1, <2>2, <2>3 DEF TypeOK
<1>9. /\ posted'[r] = posted[r] \ {recv} /\ \A c \in Rank \ {r} : posted'[c] = posted[c]
      /\ posted' \in [Rank -> SUBSET (Rank \X Tag)]
  BY <1>4 DEF TypeOK, MessagesTypeOK
<1>10. /\ channel'[<<q, r, p>>] = <<>>
       /\ \A c \in Link : c # <<q, r, p>> => channel'[c] = channel[c]
       /\ channel' \in [Link -> Seq(Message)]
  <2>1. Tail(channel[<<q, r, p>>]) = <<>>
    <3>1. Tail(channel[<<q, r, p>>]) \in Seq(Message) /\ Len(Tail(channel[<<q, r, p>>])) = 0
      BY <1>4, <1>5, HeadTailProperties
    <3> QED
      BY <3>1, EmptySeq
  <2>2. <<>> \in Seq(Message)
    BY EmptySeq
  <2>3. channel \in [Link -> Seq(Message)]
    BY DEF TypeOK, MessagesTypeOK
  <2> QED
    BY <1>3, <1>4, <2>1, <2>2, <2>3
<1>11. /\ pc'[r] \in {"fetching", "compute"} /\ \A c \in Rank \ {r} : pc'[c] = pc[c]
       /\ pc'[r] = "compute" => unasked[r] = {} /\ posted'[r] = {}
       /\ pc' \in [Rank -> Location]
  BY <1>1, <1>2, <1>9 DEF TypeOK, Location, last
<1>12. \A c \in Rank : InStages(c)' <=> InStages(c)
  BY <1>2, <1>11 DEF InStages
<1>13. TypeOK'
  BY <1>1, <1>8, <1>9, <1>10, <1>11 DEF TypeOK, MessagesTypeOK, worker
<1>14. MainInv'
  <2> SUFFICES ASSUME NEW c \in Rank
               PROVE  /\ active[c] <=> pc'[c] \notin {"idle", "closed"}
                      /\ active[c] => generation[c] >= 1
                      /\ InStages(c) => stage[c] < Side
                      /\ pc'[c] = "draining" => stage[c] = Side
                      /\ \/ input[c] = generation[c]
                         \/ pc'[c] = "idle" /\ input[c] = generation[c] + 1
                      /\ unasked[c] # {} => pc'[c] = "fetching"
                      /\ posted'[c] # {} => pc'[c] = "fetching"
                      /\ \A op \in unasked[c] : Source(c, stage[c], op) # c
                      /\ \A v \in posted'[c] :
                           v[2] \in Operand /\ v[1] = Source(c, stage[c], v[2]) /\ v[1] # c
    BY <1>1, <1>12 DEF MainInv
  <2>1. CASE c = r
    BY <2>1, <1>2, <1>9, <1>11 DEF MainInv
  <2>2. CASE c # r
    BY <2>2, <1>9, <1>11 DEF MainInv
  <2> QED
    BY <2>1, <2>2
<1>15. ServiceInv'
  <2>1. \A c \in Rank : pc'[c] \in {"idle", "closed"} => pc[c] \in {"idle", "closed"}
    BY <1>11
  <2> QED
    BY <2>1, <1>1 DEF ServiceInv, servedAll, worker
<1>16. CountInv'
  BY <1>1, <1>12 DEF CountInv, askedOf, worker
<1>17. NoSlices'
  <2>1. p # "slice"
    BY <1>2 DEF Operand
  <2> QED
    BY <2>1, <1>10 DEF NoSlices
<1>18. TileInv'
  <2> SUFFICES ASSUME NEW c \in Rank, InStages(c), NEW op \in Operand
               PROVE  \/ <<Source(c, stage[c], op), op>> \in posted'[c]
                      \/ workspace'[c][op] = Expected(c, stage[c], op, generation[c])
    BY <1>1, <1>12 DEF TileInv
  <2>1. \/ <<Source(c, stage[c], op), op>> \in posted[c]
        \/ workspace[c][op] = Expected(c, stage[c], op, generation[c])
    BY DEF TileInv
  <2>2. CASE c = r /\ op = p
    BY <2>2, <1>8
  <2>3. CASE c = r /\ op # p
    BY <2>1, <2>3, <1>2, <1>8, <1>9
  <2>4. CASE c # r
    BY <2>1, <2>4, <1>8, <1>9
  <2> QED
    BY <2>2, <2>3, <2>4
<1>19. ProtocolInv'
  <2> SUFFICES ASSUME NEW o \in Rank, NEW c \in Rank, NEW op \in Operand,
                      <<o, c, op>> \in Link
               PROVE  Between(o, c, op)'
    BY DEF ProtocolInv
  <2>1. Between(o, c, op)
    BY DEF ProtocolInv
  <2>2. asks(o, c, op)' = asks(o, c, op)
    BY <1>1, <1>12 DEF asks
  <2>3. /\ answers(o, SlotOf(c, op))' = answers(o, SlotOf(c, op))
        /\ Answering(o, SlotOf(c, op))' <=> Answering(o, SlotOf(c, op))
    BY <1>1 DEF answers, Answering, servedAll, worker
  <2>4. CASE <<o, c, op>> = <<q, r, p>>
    <3>1. o = q /\ c = r /\ op = p
      BY <2>4
    <3>2. <<q, p>> \notin posted'[r]
      BY <1>2, <1>9
    <3>3. gets(o, c, op)' = generation[r]
      <4>1. stage'[r] = stage[r] /\ generation'[r] = generation[r]
        BY <1>1
      <4>2. ~(\/ When(r, q, p) > stage[r]
              \/ When(r, q, p) = stage[r] /\ <<q, p>> \in posted'[r])
        BY <3>2, <1>3, <1>5, GridAssumption DEF Round
      <4> QED
        BY <3>1, <4>1, <4>2 DEF gets
    <3>4. Len(channel'[<<o, c, op>>]) = 0 /\ Travelling(o, c, op)'
      BY <3>1, <1>10 DEF Travelling
    <3>5. generation[r] \in Int
      BY ProductsAssumption DEF TypeOK, Version
    <3>6. requests'[o][SlotOf(c, op)] = asks(o, c, op)'
      BY <2>1, <2>2, <1>1 DEF Between
    <3>7. asks(o, c, op)' = generation[r] /\ answers(o, SlotOf(c, op))' = generation[r]
      BY <2>2, <2>3, <3>1, <1>5
    <3> QED
      BY <3>3, <3>4, <3>5, <3>6, <3>7 DEF Between
  <2>5. CASE <<o, c, op>> # <<q, r, p>>
    <3>1. gets(o, c, op)' = gets(o, c, op)
      <4>1. <<o, op>> \in posted'[c] <=> <<o, op>> \in posted[c]
        BY <2>5, <1>2, <1>9
      <4> QED
        BY <4>1, <1>1, <1>12 DEF gets
    <3> QED
      BY <1>1, <1>10, <2>1, <2>2, <2>3, <2>5, <3>1, BetweenKept
  <2> QED
    BY <2>4, <2>5
<1> QED
  BY <1>13, <1>14, <1>15, <1>16, <1>17, <1>18, <1>19

LEMMA StutterStep == IInv /\ UNCHANGED vars => IInv'
<1> SUFFICES ASSUME IInv, UNCHANGED vars PROVE IInv'
  OBVIOUS
<1> USE DEF IInv
<1>1. /\ pc' = pc /\ generation' = generation /\ stage' = stage /\ active' = active
      /\ workspace' = workspace /\ unasked' = unasked /\ published' = published
  BY DEF vars, main
<1>2. /\ service' = service /\ serving' = serving /\ consumed' = consumed
      /\ remaining' = remaining /\ served' = served
  BY DEF vars, worker
<1>3. input' = input /\ requests' = requests /\ posted' = posted /\ channel' = channel
  BY DEF vars
<1>4. MessagesTypeOK'
  BY <1>3 DEF TypeOK, MessagesTypeOK
<1>5. TypeOK'
  BY <1>1, <1>2, <1>3, <1>4 DEF TypeOK
<1>6. \A r \in Rank : InStages(r)' <=> InStages(r)
  BY <1>1 DEF InStages
<1>7. \A r \in Rank : servedAll(r)' <=> servedAll(r)
  BY <1>2 DEF servedAll
<1>8. MainInv'
  BY <1>1, <1>3, <1>6 DEF MainInv
<1>9. ServiceInv'
  BY <1>1, <1>2, <1>7 DEF ServiceInv
<1>10. ProtocolInv' /\ NoSlices'
  BY <1>1, <1>2, <1>3, <1>6, <1>7, MainKeepsProtocol
<1>11. CountInv'
  BY <1>1, <1>2, <1>6 DEF CountInv, askedOf
<1>12. TileInv'
  BY <1>1, <1>3, <1>6 DEF TileInv
<1> QED
  BY <1>5, <1>8, <1>9, <1>10, <1>11, <1>12

LEMMA NextIInv == IInv /\ [Next]_vars => IInv'
<1> SUFFICES ASSUME IInv, [Next]_vars PROVE IInv'
  OBVIOUS
<1>1. CASE Done \/ UNCHANGED vars
  BY <1>1, StutterStep DEF Done
<1>2. ASSUME NEW r \in Rank, MainStep(r) \/ WorkerStep(r) \/ Notify(r) \/ Match(r)
      PROVE  IInv'
  <2>1. CASE MainStep(r)
    BY <2>1, PrepareStep, BeginStep, FetchLocalStep, ComputeStep, ComputeLastStep,
       FinishLeaveStep, CloseStep DEF MainStep
  <2>2. CASE WorkerStep(r)
    BY <2>2, ServeStep, ServedStep DEF WorkerStep
  <2> QED
    BY <1>2, <2>1, <2>2, NotifyStep, MatchStep
<1> QED
  BY <1>1, <1>2 DEF Next

LEMMA Invariance == Spec => []IInv
  BY InitIInv, NextIInv, PTL DEF Spec

\* On every grid a rank's two threads keep their types.
THEOREM TypeCorrect == Spec => []TypeOK
  BY Invariance, PTL DEF IInv

-----------------------------------------------------------------------------
(* The request slots                                                       *)

LEMMA SlotsMatch == IInv => GenerationsMatch
<1> SUFFICES ASSUME IInv, NEW r \in Rank, service[r] = "polling",
                    NEW slot \in Slot \ consumed[r]
             PROVE  requests[r][slot] <= generation[r]
  BY DEF GenerationsMatch, ServedGeneration
<1> USE DEF IInv
<1>1. ~servedAll(r) /\ ~Answering(r, slot)
  BY DEF servedAll, Answering
<1>2. slot \in Slot \ OwnSlots(r)
  BY <1>1 DEF ServiceInv
<1> DEFINE c == Consumer(r, slot)
<1> DEFINE op == slot[1]
<1>3. /\ op \in Operand /\ c \in Rank /\ <<r, c, op>> \in Link /\ SlotOf(c, op) = slot
  BY <1>2, ConsumerOfSlot
<1> HIDE DEF c, op
<1>4. answers(r, slot) = generation[r] - 1
  BY <1>1 DEF answers
<1>5. /\ requests[r][slot] = asks(r, c, op)
      /\ gets(r, c, op) <= answers(r, slot)
  BY <1>3 DEF ProtocolInv, Between
<1>6. /\ generation[r] \in Nat /\ generation[c] \in Nat
      /\ asks(r, c, op) \in {generation[c] - 1, generation[c]}
      /\ gets(r, c, op) \in {generation[c] - 1, generation[c]}
  BY <1>3, PairNumbers
<1> QED
  BY <1>4, <1>5, <1>6

LEMMA ProductsDrained == IInv => Drained
<1> SUFFICES ASSUME IInv, NEW r \in Rank, pc[r] \in {"idle", "closed"}
             PROVE  /\ \A slot \in Slot \ OwnSlots(r) : requests[r][slot] >= generation[r]
                    /\ published[r] = 2 * (Side - 1) * generation[r]
                    /\ served[r] = published[r]
  BY DEF Drained
<1> USE DEF IInv
<1>1. servedAll(r) /\ remaining[r] = 0 /\ ~InStages(r)
  BY DEF ServiceInv, servedAll, InStages
<1>2. ASSUME NEW slot \in Slot \ OwnSlots(r) PROVE requests[r][slot] >= generation[r]
  <2> DEFINE c == Consumer(r, slot)
  <2> DEFINE op == slot[1]
  <2>1. /\ op \in Operand /\ c \in Rank /\ <<r, c, op>> \in Link /\ SlotOf(c, op) = slot
    BY ConsumerOfSlot
  <2> HIDE DEF c, op
  <2>2. answers(r, slot) = generation[r]
    BY <1>1 DEF answers
  <2>3. /\ requests[r][slot] = asks(r, c, op)
        /\ answers(r, slot) <= asks(r, c, op)
    BY <2>1 DEF ProtocolInv, Between
  <2>4. /\ generation[r] \in Nat /\ generation[c] \in Nat
        /\ asks(r, c, op) \in {generation[c] - 1, generation[c]}
    BY <2>1, PairNumbers
  <2> QED
    BY <2>2, <2>3, <2>4
<1>3. generation[r] \in Int /\ Side \in Int
  BY GridAssumption, ProductsAssumption DEF TypeOK, Version
<1>4. /\ served[r] = 2 * (Side - 1) * generation[r] - 0
      /\ published[r] = 2 * (Side - 1) * (generation[r] - 1) + (Side - 1) + (Side - 1)
  BY <1>1 DEF CountInv, askedOf
<1>5. \A k, g \in Int : k * (g - 1) + k = k * g /\ k * g - 0 = k * g
  OBVIOUS
<1> DEFINE k == 2 * (Side - 1)
<1>6. k \in Int /\ (Side - 1) + (Side - 1) = k
  BY <1>3
<1>7. k * generation[r] \in Int /\ k * (generation[r] - 1) \in Int
  BY <1>3, <1>6
<1>8. served[r] = k * generation[r] /\ published[r] = k * (generation[r] - 1) + k
  <2>1. published[r] = k * (generation[r] - 1) + (Side - 1) + (Side - 1)
    BY <1>4
  <2>2. served[r] = k * generation[r] - 0
    BY <1>4
  <2> HIDE DEF k, IInv
  <2>3. \A x, y \in Int : x + y + y = x + (y + y) /\ x - 0 = x
    OBVIOUS
  <2>4. Side - 1 \in Int
    BY <1>3
  <2>5. k * (generation[r] - 1) + (Side - 1) + (Side - 1) = k * (generation[r] - 1) + k
    BY <1>6, <1>7, <2>3, <2>4
  <2>6. k * generation[r] - 0 = k * generation[r]
    BY <1>7, <2>3, <2>4
  <2> QED
    BY <2>1, <2>2, <2>5, <2>6
<1>9. published[r] = k * generation[r]
  <2> HIDE DEF k
  <2> QED
    BY <1>3, <1>5, <1>6, <1>8
<1> QED
  BY <1>2, <1>8, <1>9

\* On every grid "hybrid request generation mismatch" is never thrown, and
\* finish leaves as many tiles served as asked for.
THEOREM Protocol == Spec => []RequestsAnswered
  BY Invariance, SlotsMatch, ProductsDrained, PTL DEF RequestsAnswered

LEMMA TilesExpected == IInv => NoUnexpectedTile
<1> SUFFICES ASSUME IInv, NEW link \in Link, channel[link] # <<>>
             PROVE  Len(channel[link]) = 1 /\ <<link[1], link[3]>> \in posted[link[2]]
  BY DEF NoUnexpectedTile
<1>1. link[3] # "slice"
  BY DEF IInv, NoSlices
<1>2. /\ link[1] \in Rank /\ link[2] \in Rank /\ link[3] \in Operand
      /\ link = <<link[1], link[2], link[3]>>
  BY <1>1 DEF Link, Tag
<1> QED
  BY <1>2, Arriving

\* On every grid a tile arrives at a receive that is already posted.
THEOREM ReceivesFirst == Spec => []NoUnexpectedTile
  BY Invariance, TilesExpected, PTL

-----------------------------------------------------------------------------
(* The tile exchange                                                       *)

LEMMA SamePlan ==
  /\ Exchange!Rank = Rank
  /\ Exchange!Operand = Operand
  /\ \A r, s, op : Exchange!Source(r, s, op) = Source(r, s, op)
  /\ \A r, s, op, g : Exchange!Expected(r, s, op, g) = Expected(r, s, op, g)
  /\ Exchange!NoTiles = [op \in Operand |-> NoTile]
<1>1. /\ Exchange!Rank = Rank
      /\ Exchange!Operand = Operand
      /\ Exchange!NoTiles = [op \in Operand |-> NoTile]
  BY DEF Exchange!Rank, Rank, Exchange!Coord, Coord, Exchange!Operand,
         Operand, Exchange!NoTiles
<1>2. \A r, s, op : Exchange!Source(r, s, op) = Source(r, s, op)
  BY DEF Exchange!Source, Source, Exchange!aSource, aSource,
         Exchange!bSource, bSource, Exchange!inner, inner,
         Exchange!rankAt, rankAt
<1>3. \A r, s, op, g : Exchange!Expected(r, s, op, g) = Expected(r, s, op, g)
  BY <1>2 DEF Exchange!Expected, Expected, Exchange!Tile, Tile
<1> QED
  BY <1>1, <1>2, <1>3

\* What the exchange sees of the backend's state.
Status == [r \in Rank |-> StatusOf(r)]

NoTilesYet == [op \in Operand |-> NoTile]

TileView == [r \in Rank |-> IF pc[r] = "compute" THEN workspace[r] ELSE NoTilesYet]

\* A rank that computes holds its tiles, and their owners have begun the
\* product: they have answered for it.
LEMMA ComputeReady ==
  ASSUME IInv, NEW r \in Rank, pc[r] = "compute"
  PROVE  /\ workspace[r] = [op \in Operand |-> Expected(r, stage[r], op, generation[r])]
         /\ stage[r] < Side
         /\ \A op \in Operand : input[Source(r, stage[r], op)] >= generation[r]
<1> USE DEF IInv
<1>1. InStages(r) /\ stage[r] \in 0 .. Side /\ stage[r] < Side
  BY DEF InStages, TypeOK, MainInv
<1>2. stage[r] \in Round
  BY <1>1, GridAssumption DEF Round
<1>3. posted[r] = {} /\ unasked[r] = {}
  BY DEF MainInv
<1>4. \A op \in Operand : workspace[r][op] = Expected(r, stage[r], op, generation[r])
  BY <1>1, <1>3 DEF TileInv
<1>5. workspace[r] \in [Operand -> TileOrNone]
  BY DEF TypeOK
<1>6. workspace[r] = [op \in Operand |-> Expected(r, stage[r], op, generation[r])]
  BY <1>4, <1>5
<1>7. ASSUME NEW op \in Operand PROVE input[Source(r, stage[r], op)] >= generation[r]
  <2> DEFINE o == Source(r, stage[r], op)
  <2>1. o \in Rank
    BY <1>2, SourceInRank
  <2>2. /\ generation[r] \in Nat /\ generation[o] \in Nat
        /\ input[o] = generation[o] \/ input[o] = generation[o] + 1
    BY <2>1, ProductsAssumption DEF TypeOK, Version, MainInv
  <2>3. CASE o = r
    BY <2>2, <2>3
  <2>4. CASE o # r
    <3>1. <<o, r, op>> \in Link
      BY <1>2, <2>4, SourceLinks
    <3>2. When(r, o, op) = stage[r]
      BY <1>2, <2>1, <3>1, WhenIs
    <3> HIDE DEF o
    <3>3. gets(o, r, op) = generation[r]
      <4>1. ~(When(r, o, op) > stage[r])
        BY <1>1, <3>2, GridAssumption
      <4> QED
        BY <1>3, <4>1 DEF gets
    <3>4. /\ gets(o, r, op) <= answers(o, SlotOf(r, op))
          /\ answers(o, SlotOf(r, op)) \in {generation[o] - 1, generation[o]}
      BY <2>1, <3>1, PairNumbers DEF ProtocolInv, Between
    <3>5. generation[o] >= generation[r]
      <4> HIDE DEF IInv
      <4> QED
        BY <2>2, <3>3, <3>4
    <3>6. input[o] >= generation[r]
      <4> HIDE DEF IInv
      <4> QED
        BY <2>2, <3>5
    <3> QED
      BY <3>6 DEF o
  <2> QED
    BY <2>3, <2>4
<1> QED
  BY <1>1, <1>6, <1>7

LEMMA InitRefines == Init => Exchange!Init
  BY SamePlan DEF Init, Exchange!Init, StatusOf

LEMMA PrepareRefines ==
  ASSUME IInv, NEW r \in Rank, PrepareInputs(r) PROVE Exchange!Prepare(r)
<1>1. Status' = Status /\ TileView' = TileView
  BY DEF PrepareInputs, main, Status, StatusOf, TileView
<1> QED
  BY <1>1 DEF PrepareInputs, main, Exchange!Prepare, Status, StatusOf, TileView

\* A rank that enters or stays in MPI shows no tiles.
LEMMA Enters ==
  ASSUME IInv, NEW r \in Rank, NEW to, to \in {"fetching", "draining"},
         pc' = [pc EXCEPT ![r] = to],
         \A q \in Rank \ {r} : workspace'[q] = workspace[q]
  PROVE  /\ Status' = [Status EXCEPT ![r] = "active"]
         /\ TileView' = [TileView EXCEPT ![r] = NoTilesYet]
<1>1. pc \in [Rank -> Location]
  BY DEF IInv, TypeOK
<1> QED
  BY <1>1 DEF Status, StatusOf, TileView

LEMMA BeginRefines ==
  ASSUME IInv, NEW r \in Rank, Begin(r) PROVE Exchange!begin(r)
<1>1. /\ input[r] = generation[r] + 1 /\ pc[r] = "idle"
      /\ generation' = [generation EXCEPT ![r] = @ + 1]
      /\ stage' = [stage EXCEPT ![r] = 0]
      /\ pc' = [pc EXCEPT ![r] = "fetching"]
      /\ input' = input
  BY DEF Begin, Post, Goto
<1>2. \A q \in Rank \ {r} : workspace'[q] = workspace[q]
  BY DEF Begin, Post, IInv, TypeOK
<1>3. Status' = [Status EXCEPT ![r] = "active"] /\ TileView' = [TileView EXCEPT ![r] = NoTilesYet]
  BY <1>1, <1>2, Enters
<1>4. Status[r] = "idle" /\ TileView[r] = NoTilesYet
  BY <1>1 DEF Status, StatusOf, TileView
<1>5. TileView' = TileView
  BY <1>3, <1>4 DEF TileView
<1> QED
  BY <1>1, <1>3, <1>4, <1>5 DEF Exchange!begin, Status, TileView, NoTilesYet

LEMMA ConsumeRefines ==
  ASSUME IInv, NEW r \in Rank, Compute(r) \/ ComputeLast(r) PROVE Exchange!Consume(r)
<1>1. /\ pc[r] = "compute"
      /\ stage' = [stage EXCEPT ![r] = @ + 1]
      /\ \E to \in {"fetching", "draining"} : pc' = [pc EXCEPT ![r] = to]
      /\ generation' = generation /\ input' = input
  BY DEF Compute, ComputeLast, Post, Goto
<1>2. \A q \in Rank \ {r} : workspace'[q] = workspace[q]
  BY DEF Compute, ComputeLast, Post, IInv, TypeOK
<1>3. Status' = [Status EXCEPT ![r] = "active"] /\ TileView' = [TileView EXCEPT ![r] = NoTilesYet]
  BY <1>1, <1>2, Enters
<1>4. Status[r] = "compute"
  BY <1>1 DEF Status, StatusOf
<1> QED
  BY <1>1, <1>3, <1>4, SamePlan DEF Exchange!Consume, Status, TileView, NoTilesYet

\* The step that brings a rank from its receives to its product.
LEMMA FetchRefines ==
  ASSUME IInv, IInv', NEW r \in Rank, pc[r] = "fetching",
         pc' = [pc EXCEPT ![r] = "compute"],
         \A q \in Rank \ {r} : workspace'[q] = workspace[q],
         UNCHANGED <<generation, stage, input>>
  PROVE  Exchange!fetch(r)
<1>1. pc'[r] = "compute" /\ pc \in [Rank -> Location]
  BY DEF IInv, TypeOK
<1>2. (/\ workspace[r] = [op \in Operand |-> Expected(r, stage[r], op, generation[r])]
       /\ stage[r] < Side
       /\ \A op \in Operand : input[Source(r, stage[r], op)] >= generation[r])'
  <2>1. (pc[r] = "compute")'
    BY <1>1
  <2> QED
    BY <2>1, ComputeReady, PTL
<1>3. /\ workspace'[r] = [op \in Operand |-> Expected(r, stage[r], op, generation[r])]
      /\ stage[r] < Side
      /\ \A op \in Operand : input[Source(r, stage[r], op)] >= generation[r]
  BY <1>2
<1>4. /\ Status' = [Status EXCEPT ![r] = "compute"]
      /\ TileView' = [TileView EXCEPT ![r] = workspace'[r]]
  BY <1>1 DEF Status, StatusOf, TileView
<1>5. Status[r] = "active"
  BY DEF Status, StatusOf
<1> QED
  BY <1>3, <1>4, <1>5, SamePlan DEF Exchange!fetch, Status, TileView, NoTilesYet

LEMMA FinishRefines ==
  ASSUME IInv, NEW r \in Rank, FinishLeave(r) PROVE Exchange!finish(r)
<1>1. /\ pc[r] = "draining" /\ pc' = [pc EXCEPT ![r] = "idle"] /\ pc \in [Rank -> Location]
      /\ UNCHANGED <<generation, stage, workspace, input>>
  BY DEF FinishLeave, Goto, IInv, TypeOK
<1>2. Status' = [Status EXCEPT ![r] = "idle"] /\ TileView' = TileView
  BY <1>1 DEF Status, StatusOf, TileView
<1>3. Status[r] = "active" /\ stage[r] = Side
  BY <1>1 DEF IInv, MainInv, Status, StatusOf
<1> QED
  BY <1>1, <1>2, <1>3 DEF Exchange!finish, Status, TileView, NoTilesYet

LEMMA CloseRefines ==
  ASSUME IInv, NEW r \in Rank, Close(r) PROVE Exchange!close(r)
<1>1. /\ pc[r] = "idle" /\ pc' = [pc EXCEPT ![r] = "closed"] /\ pc \in [Rank -> Location]
      /\ generation[r] = MaxProducts
      /\ UNCHANGED <<generation, stage, workspace, input>>
  BY DEF Close, Goto, IInv, TypeOK
<1>2. Status' = [Status EXCEPT ![r] = "closed"] /\ TileView' = TileView
  BY <1>1 DEF Status, StatusOf, TileView
<1>3. Status[r] = "idle"
  BY <1>1 DEF Status, StatusOf
<1> QED
  BY <1>1, <1>2, <1>3 DEF Exchange!close, Status, TileView, NoTilesYet

\* Requests, answers and all receives but the last stay inside fetch.
LEMMA HiddenRefines ==
  ASSUME IInv, NEW r \in Rank, pc' = pc, pc[r] # "compute",
         \A p \in Rank \ {r} : workspace'[p] = workspace[p],
         UNCHANGED <<generation, stage, input>>
  PROVE  UNCHANGED Exchange!vars
<1>1. Status' = Status /\ TileView' = TileView
  BY DEF Status, StatusOf, TileView
<1> QED
  BY <1>1 DEF Exchange!vars, Status, TileView, NoTilesYet

LEMMA MatchRefines ==
  ASSUME IInv, IInv', NEW r \in Rank, Match(r)
  PROVE  Exchange!fetch(r) \/ UNCHANGED Exchange!vars
<1>1. PICK recv \in posted[r] :
        /\ workspace' = [workspace EXCEPT ![r][recv[2]] = Received(r, recv, SendBuffer(recv[1]))]
        /\ pc' = [pc EXCEPT ![r] = IF last(r, recv) THEN "compute" ELSE @]
        /\ UNCHANGED <<generation, stage, input>>
  BY DEF Match
<1>2. pc[r] = "fetching" /\ pc \in [Rank -> Location]
  BY <1>1 DEF IInv, MainInv, TypeOK
<1>3. \A q \in Rank \ {r} : workspace'[q] = workspace[q]
  BY <1>1 DEF IInv, TypeOK
<1>4. CASE last(r, recv)
  BY <1>1, <1>2, <1>3, <1>4, FetchRefines
<1>5. CASE ~last(r, recv)
  <2>1. pc' = pc
    BY <1>1, <1>2, <1>5
  <2> QED
    BY <1>1, <1>2, <1>3, <2>1, HiddenRefines
<1> QED
  BY <1>4, <1>5

\* On every grid the hybrid backend implements the tile exchange.
THEOREM Implementation == Spec => ImplementsExchange
<1>1. IInv /\ IInv' /\ [Next]_vars => [Exchange!Next]_(Exchange!vars)
  <2> SUFFICES ASSUME IInv, IInv', [Next]_vars
               PROVE  [Exchange!Next]_(Exchange!vars)
    OBVIOUS
  <2>1. CASE UNCHANGED vars
    <3>1. UNCHANGED <<pc, workspace, generation, stage, input>>
      BY <2>1 DEF vars, main
    <3>2. Status' = Status /\ TileView' = TileView
      BY <3>1 DEF Status, StatusOf, TileView
    <3> QED
      BY <3>1, <3>2 DEF Exchange!vars, Status, TileView, NoTilesYet
  <2>2. ASSUME NEW r \in Rank, MainStep(r) \/ WorkerStep(r) \/ Notify(r) \/ Match(r)
        PROVE  Exchange!Step(r) \/ UNCHANGED Exchange!vars
    <3>1. CASE FetchLocal(r)
      <4>1. /\ pc[r] = "fetching" /\ pc' = [pc EXCEPT ![r] = "compute"]
            /\ UNCHANGED <<generation, stage, input, workspace>>
        BY <3>1 DEF FetchLocal, Goto
      <4>2. Exchange!fetch(r)
        BY <4>1, FetchRefines
      <4> QED
        BY <4>2 DEF Exchange!Step
    <3>2. CASE MainStep(r) /\ ~FetchLocal(r)
      BY <3>2, PrepareRefines, BeginRefines, ConsumeRefines, FinishRefines, CloseRefines
      DEF MainStep, Exchange!Step
    <3>3. CASE WorkerStep(r)
      <4>1. UNCHANGED <<pc, workspace, generation, stage, input>>
        BY <3>3 DEF WorkerStep, Serve, Served, main
      <4>2. Status' = Status /\ TileView' = TileView
        BY <4>1 DEF Status, StatusOf, TileView
      <4> QED
        BY <4>1, <4>2 DEF Exchange!vars, Status, TileView, NoTilesYet
    <3>4. CASE Notify(r)
      <4>1. UNCHANGED <<pc, workspace, generation, stage, input>>
        BY <3>4 DEF Notify
      <4>2. Status' = Status /\ TileView' = TileView
        BY <4>1 DEF Status, StatusOf, TileView
      <4> QED
        BY <4>1, <4>2 DEF Exchange!vars, Status, TileView, NoTilesYet
    <3>5. CASE Match(r)
      BY <3>5, MatchRefines DEF Exchange!Step
    <3> QED
      BY <2>2, <3>1, <3>2, <3>3, <3>4, <3>5
  <2> QED
    BY <2>1, <2>2, SamePlan DEF Next, Done, Exchange!Next
<1> QED
  BY <1>1, InitRefines, Invariance, PTL
  DEF Spec, ImplementsExchange, Exchange!Spec

=============================================================================
