------------------------ MODULE TridentTwoSided_proof ------------------------
(***************************************************************************)
(* The two-sided backend, for every grid, number of products and choice of *)
(* eager or rendezvous sends.                                              *)
(*                                                                         *)
(* Nothing keeps the ranks together and a message names neither its stage  *)
(* nor its product: between two ranks only the order of the messages with  *)
(* one tag tells them apart. So the messages are counted. On the link from *)
(* q to r with a tag, Sent is how many q has sent, by where it stands in   *)
(* its run, Got how many r has received, by where it stands and what it    *)
(* still waits for; the link holds the messages with the numbers from Got  *)
(* + 1 to Sent, and the number of a message tells what it carries. A rank  *)
(* sends a tile to another once per product and a slice of B to its node   *)
(* once per stage, and it waits for what a stage needs before the next; so *)
(* when a receive is posted Got is the number of the message it wants, and *)
(* that is the next to arrive.                                             *)
(***************************************************************************)
EXTENDS TridentTwoSided, ExecutionPlan_proof, SequenceTheorems

Outside(r) == pc[r] \in {"idle", "closed"}

Fetched(r) == pc[r] \in {"assemble", "assembling", "compute"}

\* Slices are sent once per stage.
StageCount(r, counted) ==
  IF Outside(r) THEN Total(product[r], 0)
  ELSE Total(product[r] - 1, stage[r]) + (IF counted THEN 1 ELSE 0)

\* A tile goes to a rank once per product.
ProductCount(r, passed, counted) ==
  IF \/ Outside(r)
     \/ passed < stage[r]
     \/ passed = stage[r] /\ counted
  THEN product[r] ELSE product[r] - 1

\* Messages q has sent to r.
Sent(q, r, tag) ==
  IF tag = "slice" THEN StageCount(q, pc[q] \in {"assembling", "compute"})
  ELSE ProductCount(q, When(r, q, tag), pc[q] # "fetch")

\* Messages r has received from q.
Got(q, r, tag) ==
  IF tag = "slice"
  THEN StageCount(r, pc[r] \in {"assembling", "compute"} /\ <<q, tag>> \notin posted[r])
  ELSE ProductCount(r, When(r, q, tag), pc[r] # "fetch" /\ <<q, tag>> \notin posted[r])

\* What the n-th message of q with this tag is.
Carries(q, tag, n, tile) ==
  IF tag = "slice"
  THEN \A g \in Version, s \in Round : n = Total(g - 1, s) + 1 => tile = Expected(q, s, "b", g)
  ELSE tile = Tile(q, n)

\* q waits in the call that sent it.
Sending(q, r, tag) ==
  IF tag = "slice" THEN pc[q] = "assembling"
  ELSE pc[q] = "waiting" /\ stage[q] = When(r, q, tag)

Between(q, r, tag) ==
  LET messages == channel[<<q, r, tag>>] IN
  /\ Len(messages) = Sent(q, r, tag) - Got(q, r, tag)
  /\ \A i \in DOMAIN messages :
       /\ messages[i].eager => Carries(q, tag, Got(q, r, tag) + i, messages[i].tile)
       /\ ~messages[i].eager => i = Len(messages) /\ Sending(q, r, tag)

ChannelInv == \A c \in Link : Between(c[1], c[2], c[3])

MainInv ==
  \A r \in Rank :
    /\ ~Outside(r) => product[r] >= 1
    /\ ~Outside(r) /\ pc[r] # "fetch" => stage[r] < Side
    /\ \/ input[r] = product[r]
       \/ pc[r] = "idle" /\ input[r] = product[r] + 1
    /\ posted[r] # {} => pc[r] \in {"waiting", "assembling"}
    /\ pc[r] = "waiting" => \A recv \in posted[r] :
         recv[2] \in Operand /\ recv[1] = Source(r, stage[r], recv[2]) /\ recv[1] # r
    /\ pc[r] = "assembling" => \A recv \in posted[r] :
         recv[2] = "slice" /\ recv[1] \in peers(r)

TileInv ==
  \A r \in Rank : pc[r] = "waiting" \/ Fetched(r) => \A op \in Operand :
    \/ <<Source(r, stage[r], op), op>> \in posted[r]
    \/ workspace[r][op] = Expected(r, stage[r], op, product[r])

neighbour(r, k) == rankAt(r.row, r.col, k)

PanelInv ==
  \A r \in Rank : pc[r] \in {"assembling", "compute"} => \A k \in NodeRank :
    \/ <<neighbour(r, k), "slice">> \in posted[r]
    \/ panel[r][k] = Expected(neighbour(r, k), stage[r], "b", product[r])

IInv == TypeOK /\ MainInv /\ ChannelInv /\ TileInv /\ PanelInv

-----------------------------------------------------------------------------
(* The grid                                                                *)

LEMMA LinkMeans ==
  ASSUME NEW c \in Link
  PROVE  /\ c[1] \in Rank /\ c[2] \in Rank /\ c[3] \in Tag
         /\ c = <<c[1], c[2], c[3]>> /\ c[1] # c[2]
         /\ c[3] = "slice" => c[1] \in peers(c[2]) /\ c[2] \in peers(c[1])
         /\ c[3] # "slice" =>
              /\ c[3] \in Operand
              /\ c[1].nodeRank = c[2].nodeRank
              /\ IF c[3] = "a" THEN c[1].row = c[2].row ELSE c[1].col = c[2].col
BY DEF Link, Tag, Operand, peers

\* A tile travels on a link in one round of every product.
LEMMA WhenIs ==
  ASSUME NEW q \in Rank, NEW r \in Rank, NEW op \in Operand, <<q, r, op>> \in Link
  PROVE  /\ When(r, q, op) \in Round
         /\ \A s \in Round : Source(r, s, op) = q <=> s = When(r, q, op)
         /\ \A s \in Round : Target(q, s, op) = r <=> s = When(r, q, op)
<1>1. op # "slice"
  BY DEF Operand
<1>2. /\ q.nodeRank = r.nodeRank
      /\ IF op = "a" THEN q.row = r.row ELSE q.col = r.col
  BY <1>1, LinkMeans
<1>3. /\ When(r, q, op) \in Round
      /\ \A s \in Round : Source(r, s, op) = q <=> s = When(r, q, op)
  BY <1>2, OneRound
<1>4. QED
  BY <1>3, TargetsInvertSources

LEMMA SourceLinks ==
  ASSUME NEW r \in Rank, NEW s \in Round, NEW op \in Operand, Source(r, s, op) # r
  PROVE  /\ Source(r, s, op) \in Rank
         /\ <<Source(r, s, op), r, op>> \in Link
         /\ When(r, Source(r, s, op), op) = s
<1> DEFINE q == Source(r, s, op)
<1>1. q \in Rank
  BY SourceInRank
<1>2. /\ q.nodeRank = r.nodeRank
      /\ IF op = "a" THEN q.row = r.row ELSE q.col = r.col
  BY DEF Source, aSource, bSource, rankAt
<1>3. <<q, r, op>> \in Link
  <2>1. <<q, r, op>> \in Rank \X Rank \X Tag /\ op # "slice"
    BY <1>1 DEF Tag, Operand
  <2>2. QED
    BY <1>1, <1>2, <2>1 DEF Link, Operand
<1>4. QED
  BY <1>1, <1>3, WhenIs

LEMMA PeerLinks ==
  ASSUME NEW r \in Rank, NEW q \in peers(r)
  PROVE  q \in Rank /\ <<q, r, "slice">> \in Link /\ <<r, q, "slice">> \in Link
<1>1. q \in Rank /\ q.row = r.row /\ q.col = r.col /\ q # r
  BY DEF peers
<1>2. /\ <<q, r, "slice">> \in Rank \X Rank \X Tag
      /\ <<r, q, "slice">> \in Rank \X Rank \X Tag
  BY <1>1 DEF Tag
<1>3. QED
  BY <1>1, <1>2 DEF Link

\* A rank's place on its node tells it from its peers.
LEMMA Neighbours ==
  ASSUME NEW r \in Rank, NEW k \in NodeRank
  PROVE  /\ neighbour(r, k) \in Rank
         /\ neighbour(r, k).nodeRank = k
         /\ neighbour(r, k) = r <=> k = r.nodeRank
         /\ k # r.nodeRank => neighbour(r, k) \in peers(r)
         /\ \A q \in peers(r) : neighbour(r, q.nodeRank) = q /\ q.nodeRank \in NodeRank
BY DEF neighbour, rankAt, Rank, NodeRank, peers

-----------------------------------------------------------------------------
(* Between two ranks                                                       *)

LEMMA CountsInt ==
  ASSUME TypeOK, NEW q \in Rank, NEW r \in Rank, NEW tag \in Tag
  PROVE  Sent(q, r, tag) \in Int /\ Got(q, r, tag) \in Int
<1>1. ASSUME NEW p \in Rank
      PROVE  /\ product[p] \in Int /\ product[p] - 1 \in Int /\ stage[p] \in Int
             /\ 0 \in Int
  BY ProductsAssumption, GridAssumption DEF TypeOK, Version
<1>2. ASSUME NEW p \in Rank
      PROVE  /\ Total(product[p], 0) \in Int
             /\ Total(product[p] - 1, stage[p]) \in Int
  BY <1>1, TotalStep, Zenon
<1>3. QED
  BY <1>1, <1>2 DEF Sent, Got, StageCount, ProductCount

LEMMA BetweenKept ==
  ASSUME NEW q \in Rank, NEW r \in Rank, NEW tag \in Tag, Between(q, r, tag),
         Sent(q, r, tag)' = Sent(q, r, tag),
         Got(q, r, tag)' = Got(q, r, tag),
         channel'[<<q, r, tag>>] = channel[<<q, r, tag>>],
         \/ Sending(q, r, tag) => Sending(q, r, tag)'
         \/ \A i \in DOMAIN channel[<<q, r, tag>>] : channel[<<q, r, tag>>][i].eager
  PROVE  Between(q, r, tag)'
BY DEF Between

\* Whatever a waiting sender's buffer holds is the message it has sent last.
LEMMA BufferCarries ==
  ASSUME IInv, NEW q \in Rank, NEW r \in Rank, NEW tag \in Tag,
         <<q, r, tag>> \in Link, Sending(q, r, tag)
  PROVE  Carries(q, tag, Sent(q, r, tag), SendBuffer(q)[tag])
<1>1. CASE tag = "slice"
  <2>0. pc[q] = "assembling"
    BY <1>1 DEF Sending
  <2>1. /\ pc[q] = "assembling" /\ stage[q] \in Round
        /\ product[q] \in Version
    <3>1. stage[q] \in 0 .. Side /\ stage[q] < Side /\ product[q] \in Version
      BY <2>0 DEF IInv, TypeOK, MainInv, Outside
    <3>2. QED
      BY <2>0, <3>1, GridAssumption DEF Round
  <2>2. workspace[q]["b"] = Expected(q, stage[q], "b", product[q])
    <3>1. \A source : <<source, "b">> \notin posted[q]
      BY <2>1 DEF IInv, MainInv
    <3>2. QED
      BY <2>1, <3>1 DEF IInv, TileInv, Fetched, Operand
  <2>3. SendBuffer(q)[tag] = workspace[q]["b"]
    BY <1>1 DEF SendBuffer, Tag
  <2>4. Sent(q, r, tag) = Total(product[q] - 1, stage[q]) + 1
    BY <1>1, <2>1 DEF Sent, StageCount, Outside
  <2>5. ASSUME NEW g \in Version, NEW s \in Round, Sent(q, r, tag) = Total(g - 1, s) + 1
        PROVE  g = product[q] /\ s = stage[q]
    <3>1. /\ g \in Int /\ g - 1 \in Int
          /\ product[q] \in Int /\ product[q] - 1 \in Int
          /\ s \in Int /\ stage[q] \in Int
      BY <2>1, ProductsAssumption, GridAssumption DEF Version, Round
    <3>2. Total(g - 1, s) \in Int /\ Total(product[q] - 1, stage[q]) \in Int
      BY <3>1, TotalStep, Zenon
    <3>3. Total(g - 1, s) = Total(product[q] - 1, stage[q])
      BY <2>4, <2>5, <3>2
    <3>4. g - 1 = product[q] - 1 /\ s = stage[q]
      BY <2>1, <3>1, <3>3, TotalInjective
    <3>5. QED
      BY <3>1, <3>4
  <2>6. QED
    BY <1>1, <2>2, <2>3, <2>5 DEF Carries
<1>2. CASE tag # "slice"
  <2>1. pc[q] = "waiting" /\ stage[q] = When(r, q, tag)
    BY <1>2 DEF Sending
  <2>2. Sent(q, r, tag) = product[q] /\ input[q] = product[q]
    BY <1>2, <2>1 DEF Sent, ProductCount, IInv, MainInv
  <2>3. SendBuffer(q)[tag] = Tile(q, input[q])
    BY <1>2 DEF SendBuffer
  <2>4. QED
    BY <1>2, <2>2, <2>3 DEF Carries
<1>3. QED
  BY <1>1, <1>2

LEMMA InitIInv == Init => IInv
<1> SUFFICES ASSUME Init PROVE IInv
  OBVIOUS
<1> USE DEF Init, MessagesInit
<1>1. TypeOK
  <2>1. 0 \in Version /\ NoTile \in TileOrNone /\ 0 \in 0 .. Side
    BY GridAssumption, ProductsAssumption DEF Version, TileOrNone
  <2>2. MessagesTypeOK
    BY DEF MessagesTypeOK
  <2>3. panel \in [Rank -> [NodeRank -> TileOrNone]]
    BY <2>1 DEF NoPanel
  <2>4. QED
    BY <2>1, <2>2, <2>3 DEF TypeOK, Location
<1>2. MainInv /\ TileInv /\ PanelInv
  BY DEF MainInv, TileInv, PanelInv, Outside, Fetched
<1>3. ChannelInv
  <2> SUFFICES ASSUME NEW c \in Link PROVE Between(c[1], c[2], c[3])
    BY DEF ChannelInv
  <2>1. c[1] \in Rank /\ c[2] \in Rank /\ c = <<c[1], c[2], c[3]>>
    BY LinkMeans
  <2>2. Sent(c[1], c[2], c[3]) = Got(c[1], c[2], c[3])
    BY <2>1 DEF Sent, Got, StageCount, ProductCount, Outside
  <2>3. Sent(c[1], c[2], c[3]) \in Int
    BY <1>1, <2>1, LinkMeans, CountsInt
  <2>4. channel[<<c[1], c[2], c[3]>>] = <<>> /\ Len(<<>>) = 0 /\ DOMAIN <<>> = {}
    BY <2>1
  <2>5. Sent(c[1], c[2], c[3]) - Got(c[1], c[2], c[3]) = 0
    BY <2>2, <2>3
  <2>6. QED
    BY <2>4, <2>5, Zenon DEF Between
<1>4. QED
  BY <1>1, <1>2, <1>3 DEF IInv

-----------------------------------------------------------------------------
(* Steps that neither send nor receive                                     *)

LEMMA SenderKept ==
  ASSUME NEW q \in Rank, NEW r \in Rank, NEW tag \in Tag,
         pc'[q] = pc[q], product'[q] = product[q], stage'[q] = stage[q]
  PROVE  /\ Sent(q, r, tag)' = Sent(q, r, tag)
         /\ Sending(q, r, tag) => Sending(q, r, tag)'
BY DEF Sent, Sending, StageCount, ProductCount, Outside

LEMMA ReceiverKept ==
  ASSUME NEW q \in Rank, NEW r \in Rank, NEW tag \in Tag,
         pc'[r] = pc[r], product'[r] = product[r], stage'[r] = stage[r],
         posted'[r] = posted[r]
  PROVE  Got(q, r, tag)' = Got(q, r, tag)
BY DEF Got, StageCount, ProductCount, Outside

\* A rank that enters or leaves a stage, or a product, has sent and received
\* as much as before.
LEMMA CountsKept ==
  ASSUME IInv, NEW p \in Rank,
         Begin(p) \/ FetchWait(p) \/ AssembleWait(p) \/ Compute(p) \/ Finish(p) \/ Close(p)
  PROVE  /\ StageCount(p, pc[p] \in {"assembling", "compute"})'
              = StageCount(p, pc[p] \in {"assembling", "compute"})
         /\ \A passed \in Round :
              ProductCount(p, passed, pc[p] # "fetch")'
                = ProductCount(p, passed, pc[p] # "fetch")
<1>1. /\ product[p] \in Int /\ stage[p] \in Int
      /\ product[p] - 1 \in Int /\ product[p] + 1 \in Int
      /\ (product[p] - 1) + 1 = product[p]
      /\ (product[p] + 1) - 1 = product[p]
      /\ 0 \in Int
  BY ProductsAssumption, GridAssumption DEF IInv, TypeOK, Version
<1>2. /\ Total(product[p] - 1, stage[p]) \in Int
      /\ Total(product[p] - 1, stage[p] + 1) = Total(product[p] - 1, stage[p]) + 1
      /\ Total((product[p] - 1) + 1, 0) = Total(product[p] - 1, Side)
      /\ Total(product[p], 0) \in Int
  BY <1>1, TotalStep, Zenon
<1>3. CASE Begin(p)
  <2>1. /\ pc[p] = "idle" /\ pc'[p] = "fetch"
        /\ product'[p] = product[p] + 1 /\ stage'[p] = 0
    BY <1>3 DEF Begin, Goto, IInv, TypeOK
  <2>2. \A passed \in Round : ~(passed < 0)
    BY DEF Round
  <2>3. QED
    BY <1>1, <1>2, <2>1, <2>2 DEF StageCount, ProductCount, Outside
<1>4. CASE FetchWait(p) \/ AssembleWait(p)
  <2>1. /\ \/ pc[p] = "waiting" /\ pc'[p] = "assemble"
           \/ pc[p] = "assembling" /\ pc'[p] = "compute"
        /\ product'[p] = product[p] /\ stage'[p] = stage[p]
    BY <1>4 DEF FetchWait, AssembleWait, Goto, IInv, TypeOK
  <2>2. QED
    BY <2>1 DEF StageCount, ProductCount, Outside
<1>5. CASE Compute(p)
  <2>1. /\ pc[p] = "compute" /\ pc'[p] = "fetch"
        /\ product'[p] = product[p] /\ stage'[p] = stage[p] + 1
    BY <1>5 DEF Compute, Goto, IInv, TypeOK
  <2>2. \A passed \in Round : passed < stage[p] + 1 <=> passed < stage[p] \/ passed = stage[p]
    BY <1>1 DEF Round
  <2>3. QED
    BY <1>1, <1>2, <2>1, <2>2 DEF StageCount, ProductCount, Outside
<1>6. CASE Finish(p)
  <2>1. /\ pc[p] = "fetch" /\ pc'[p] = "idle" /\ stage[p] = Side
        /\ product'[p] = product[p] /\ stage'[p] = stage[p]
    BY <1>6 DEF Finish, Goto, IInv, TypeOK
  <2>2. \A passed \in Round : passed < Side
    BY GridAssumption DEF Round
  <2>3. QED
    BY <1>1, <1>2, <2>1, <2>2 DEF StageCount, ProductCount, Outside
<1>7. CASE Close(p)
  <2>1. /\ pc[p] = "idle" /\ pc'[p] = "closed"
        /\ product'[p] = product[p] /\ stage'[p] = stage[p]
    BY <1>7 DEF Close, Goto, IInv, TypeOK
  <2>2. QED
    BY <2>1 DEF StageCount, ProductCount, Outside
<1>8. QED
  BY <1>3, <1>4, <1>5, <1>6, <1>7

\* The steps between the calls of the exchanges: nothing is sent or received.
LEMMA LoopStep ==
  ASSUME IInv, NEW p \in Rank,
         Begin(p) \/ FetchWait(p) \/ AssembleWait(p) \/ Compute(p) \/ Finish(p) \/ Close(p)
  PROVE  IInv'
<1>0. /\ posted[p] = {}
      /\ UNCHANGED <<posted, channel, workspace, panel, input>>
      /\ \A r \in Rank \ {p} : pc'[r] = pc[r] /\ product'[r] = product[r] /\ stage'[r] = stage[r]
  <2>1. posted[p] = {}
    BY DEF Begin, FetchWait, AssembleWait, Compute, Finish, Close, Goto, AllComplete,
           ReceivesComplete, IInv, MainInv
  <2>2. QED
    BY <2>1 DEF Begin, FetchWait, AssembleWait, Compute, Finish, Close, Goto, IInv, TypeOK
<1>1. TypeOK'
  <2>1. pc' \in [Rank -> Location]
    BY DEF Begin, FetchWait, AssembleWait, Compute, Finish, Close, Goto, IInv, TypeOK, Location
  <2>2. product' \in [Rank -> Version]
    <3>1. CASE Begin(p)
      <4>1. product[p] + 1 = input[p] /\ input[p] \in Version
        BY <3>1 DEF Begin, IInv, TypeOK
      <4>2. QED
        BY <3>1, <4>1 DEF Begin, IInv, TypeOK
    <3>2. CASE ~Begin(p)
      BY <3>2 DEF FetchWait, AssembleWait, Compute, Finish, Close, IInv, TypeOK
    <3>3. QED
      BY <3>1, <3>2
  <2>3. stage' \in [Rank -> 0 .. Side]
    <3>1. CASE Begin(p)
      <4>1. 0 \in 0 .. Side
        BY GridAssumption
      <4>2. QED
        BY <3>1, <4>1 DEF Begin, IInv, TypeOK
    <3>2. CASE Compute(p)
      <4>1. stage[p] \in 0 .. Side /\ stage[p] < Side
        BY <3>2 DEF Compute, Goto, IInv, TypeOK, MainInv, Outside
      <4>2. stage[p] + 1 \in 0 .. Side
        BY <4>1, GridAssumption
      <4>3. QED
        BY <3>2, <4>2 DEF Compute, IInv, TypeOK
    <3>3. CASE ~Begin(p) /\ ~Compute(p)
      BY <3>3 DEF FetchWait, AssembleWait, Finish, Close, IInv, TypeOK
    <3>4. QED
      BY <3>1, <3>2, <3>3
  <2>4. MessagesTypeOK'
    BY <1>0 DEF IInv, TypeOK, MessagesTypeOK
  <2>5. QED
    BY <1>0, <2>1, <2>2, <2>3, <2>4 DEF IInv, TypeOK
<1>2. ChannelInv'
  <2> SUFFICES ASSUME NEW c \in Link PROVE Between(c[1], c[2], c[3])'
    BY DEF ChannelInv
  <2> DEFINE q == c[1]
             r == c[2]
             tag == c[3]
  <2>1. /\ q \in Rank /\ r \in Rank /\ tag \in Tag /\ q # r
        /\ <<q, r, tag>> \in Link
        /\ Between(q, r, tag)
    BY LinkMeans DEF IInv, ChannelInv
  <2>2. channel'[<<q, r, tag>>] = channel[<<q, r, tag>>]
    BY <1>0
  <2>3. tag # "slice" => tag \in Operand /\ When(r, q, tag) \in Round
    BY <2>1, WhenIs, LinkMeans
  <2>4. Sent(q, r, tag)' = Sent(q, r, tag)
    <3>1. CASE q = p
      BY <2>3, <3>1, CountsKept DEF Sent
    <3>2. CASE q # p
      BY <1>0, <2>1, <3>2, SenderKept
    <3>3. QED
      BY <3>1, <3>2
  <2>5. Got(q, r, tag)' = Got(q, r, tag)
    <3>1. CASE r = p
      <4>1. posted[r] = {} /\ posted'[r] = {}
        BY <1>0, <3>1
      <4>2. /\ tag = "slice" => Got(q, r, tag) = StageCount(p, pc[p] \in {"assembling", "compute"})
            /\ tag = "slice" => Got(q, r, tag)' = StageCount(p, pc[p] \in {"assembling", "compute"})'
        BY <3>1, <4>1 DEF Got, StageCount, Outside
      <4>3. /\ tag # "slice" => Got(q, r, tag) = ProductCount(p, When(r, q, tag), pc[p] # "fetch")
            /\ tag # "slice" => Got(q, r, tag)' = ProductCount(p, When(r, q, tag), pc[p] # "fetch")'
        BY <3>1, <4>1 DEF Got, ProductCount, Outside
      <4>4. QED
        BY <2>3, <4>2, <4>3, CountsKept
    <3>2. CASE r # p
      BY <1>0, <2>1, <3>2, ReceiverKept
    <3>3. QED
      BY <3>1, <3>2
  <2>6. \/ Sending(q, r, tag) => Sending(q, r, tag)'
        \/ \A i \in DOMAIN channel[<<q, r, tag>>] : channel[<<q, r, tag>>][i].eager
    <3>1. CASE q = p
      <4>1. CASE FetchWait(p) \/ AssembleWait(p)
        BY <2>1, <3>1, <4>1 DEF FetchWait, AssembleWait, AllComplete, SendsComplete
      <4>2. CASE ~(FetchWait(p) \/ AssembleWait(p))
        <5>1. pc[p] \notin {"waiting", "assembling"}
          BY <4>2 DEF Begin, Compute, Finish, Close, Goto
        <5>2. QED
          BY <3>1, <5>1 DEF Sending
      <4>3. QED
        BY <4>1, <4>2
    <3>2. CASE q # p
      BY <1>0, <2>1, <3>2, SenderKept
    <3>3. QED
      BY <3>1, <3>2
  <2> HIDE DEF q, r, tag
  <2>7. Between(q, r, tag)'
    BY <2>1, <2>2, <2>4, <2>5, <2>6, BetweenKept
  <2>8. QED
    BY <2>7 DEF q, r, tag
<1>3. MainInv'
  <2>1. ASSUME NEW r \in Rank \ {p}
        PROVE  /\ pc'[r] = pc[r] /\ product'[r] = product[r] /\ stage'[r] = stage[r]
               /\ posted'[r] = posted[r] /\ input'[r] = input[r]
    BY <1>0
  <2>2. /\ ~Outside(p)' => product'[p] >= 1
        /\ ~Outside(p)' /\ pc'[p] # "fetch" => stage'[p] < Side
        /\ \/ input'[p] = product'[p]
           \/ pc'[p] = "idle" /\ input'[p] = product'[p] + 1
    <3>0. product[p] \in Nat
      BY ProductsAssumption DEF IInv, TypeOK, Version
    <3>1. CASE Begin(p)
      <4>1. pc'[p] = "fetch" /\ input[p] = product[p] + 1 /\ product'[p] = product[p] + 1
        BY <3>1 DEF Begin, Goto, IInv, TypeOK
      <4>2. QED
        BY <1>0, <3>0, <4>1
    <3>2. CASE FetchWait(p) \/ AssembleWait(p) \/ Compute(p)
      <4>1. /\ pc[p] \in {"waiting", "assembling", "compute"}
            /\ pc'[p] \in {"assemble", "compute", "fetch"}
            /\ product'[p] = product[p]
            /\ pc'[p] # "fetch" => stage'[p] = stage[p]
        BY <3>2 DEF FetchWait, AssembleWait, Compute, Goto, IInv, TypeOK
      <4>2. QED
        BY <1>0, <4>1 DEF IInv, MainInv, Outside
    <3>3. CASE Finish(p)
      <4>1. pc[p] = "fetch" /\ pc'[p] = "idle" /\ product'[p] = product[p]
        BY <3>3 DEF Finish, Goto, IInv, TypeOK
      <4>2. QED
        BY <1>0, <4>1 DEF IInv, MainInv, Outside
    <3>4. CASE Close(p)
      <4>1. /\ pc'[p] = "closed" /\ product'[p] = product[p] /\ product[p] = MaxProducts
            /\ input[p] \in 0 .. MaxProducts
        BY <3>4 DEF Close, Goto, IInv, TypeOK, Version
      <4>2. input[p] # product[p] + 1
        BY <4>1, ProductsAssumption
      <4>3. QED
        BY <1>0, <4>1, <4>2 DEF IInv, MainInv, Outside
    <3>5. QED
      BY <3>1, <3>2, <3>3, <3>4
  <2>3. posted'[p] = {}
    BY <1>0
  <2>4. QED
    BY <2>1, <2>2, <2>3 DEF IInv, MainInv, Outside
<1>4. TileInv'
  <2>1. (pc[p] = "waiting" \/ Fetched(p))' => /\ pc[p] = "waiting" \/ Fetched(p)
                                             /\ stage'[p] = stage[p] /\ product'[p] = product[p]
    BY DEF Begin, FetchWait, AssembleWait, Compute, Finish, Close, Goto, IInv, TypeOK, Fetched
  <2>2. QED
    BY <1>0, <2>1 DEF IInv, TileInv, Fetched
<1>5. PanelInv'
  <2>1. (pc[p] \in {"assembling", "compute"})' =>
          pc[p] \in {"assembling", "compute"} /\ stage'[p] = stage[p] /\ product'[p] = product[p]
    BY DEF Begin, FetchWait, AssembleWait, Compute, Finish, Close, Goto, IInv, TypeOK
  <2>2. QED
    BY <1>0, <2>1 DEF IInv, PanelInv
<1>6. QED
  BY <1>1, <1>2, <1>3, <1>4, <1>5 DEF IInv

LEMMA PrepareStep ==
  ASSUME IInv, NEW p \in Rank, PrepareInputs(p) PROVE IInv'
<1> USE DEF PrepareInputs
<1>1. TypeOK'
  <2>1. input[p] \in 0 .. MaxProducts /\ input[p] < MaxProducts
    BY DEF IInv, TypeOK, Version
  <2>2. input[p] + 1 \in Version
    BY <2>1, ProductsAssumption DEF Version
  <2>3. QED
    BY <2>2 DEF IInv, TypeOK, MessagesTypeOK
<1>2. MainInv'
  BY DEF IInv, MainInv, Outside, TypeOK
<1>3. ChannelInv'
  <2>1. ASSUME NEW c \in Link PROVE Between(c[1], c[2], c[3])'
    BY LinkMeans, SenderKept, ReceiverKept, BetweenKept DEF IInv, ChannelInv
  <2>2. QED
    BY <2>1 DEF ChannelInv
<1>4. TileInv' /\ PanelInv'
  BY DEF IInv, TileInv, PanelInv, Fetched
<1>5. QED
  BY <1>1, <1>2, <1>3, <1>4 DEF IInv

-----------------------------------------------------------------------------
(* Sending                                                                 *)

\* The message a call adds to a link is the next of its kind.
LEMMA MessageSent ==
  ASSUME NEW q \in Rank, NEW r \in Rank, NEW tag \in Tag, NEW eager \in BOOLEAN,
         TypeOK, <<q, r, tag>> \in Link, Between(q, r, tag), ~Sending(q, r, tag),
         NEW message \in Message, message.eager = eager,
         channel'[<<q, r, tag>>] = Append(channel[<<q, r, tag>>], message),
         Sent(q, r, tag)' = Sent(q, r, tag) + 1,
         Got(q, r, tag)' = Got(q, r, tag),
         eager => Carries(q, tag, Sent(q, r, tag) + 1, message.tile),
         Sending(q, r, tag)'
  PROVE  Between(q, r, tag)'
<1> DEFINE before == channel[<<q, r, tag>>]
           after == channel'[<<q, r, tag>>]
<1>1. before \in Seq(Message)
  BY DEF TypeOK, MessagesTypeOK
<1>2. /\ Len(before) \in Nat /\ DOMAIN before = 1 .. Len(before)
      /\ after \in Seq(Message)
      /\ Len(after) = Len(before) + 1
      /\ \A i \in 1 .. Len(before) : after[i] = before[i]
      /\ after[Len(before) + 1] = message
  BY <1>1, LenProperties, AppendProperties
<1>3. DOMAIN after = 1 .. Len(before) + 1
  BY <1>2, LenProperties
<1>4. /\ Sent(q, r, tag) \in Int /\ Got(q, r, tag) \in Int
      /\ Len(before) = Sent(q, r, tag) - Got(q, r, tag)
  BY CountsInt DEF Between
<1>5. /\ Len(after) = Sent(q, r, tag)' - Got(q, r, tag)'
      /\ Got(q, r, tag)' + (Len(before) + 1) = Sent(q, r, tag) + 1
  BY <1>2, <1>4
<1>6. ASSUME NEW i \in DOMAIN after
      PROVE  /\ after[i].eager => Carries(q, tag, Got(q, r, tag)' + i, after[i].tile)
             /\ ~after[i].eager => i = Len(after) /\ Sending(q, r, tag)'
  <2>1. CASE i \in 1 .. Len(before)
    <3>1. after[i] = before[i] /\ before[i].eager
      BY <1>2, <2>1 DEF Between
    <3>2. Carries(q, tag, Got(q, r, tag) + i, before[i].tile)
      BY <1>2, <2>1, <3>1 DEF Between
    <3>3. QED
      BY <3>1, <3>2
  <2>2. CASE i = Len(before) + 1
    BY <1>2, <1>5, <2>2
  <2>3. QED
    BY <1>2, <1>3, <1>6, <2>1, <2>2
<1>7. QED
  BY <1>5, <1>6 DEF Between, Carries

LEMMA FetchStep ==
  ASSUME IInv, NEW p \in Rank, Fetch(p) PROVE IInv'
<1> USE DEF Fetch, Goto, MoreStages
<1>0. /\ pc[p] = "fetch" /\ pc'[p] = "waiting" /\ posted[p] = {}
      /\ stage[p] \in Round /\ stage[p] < Side
      /\ input[p] = product[p] /\ product[p] >= 1
      /\ posted'[p] = {<<Source(p, stage[p], op), op>> : op \in RemoteSources(p)}
      /\ UNCHANGED <<product, stage, input, panel>>
      /\ \A r \in Rank \ {p} : /\ pc'[r] = pc[r]
                               /\ posted'[r] = posted[r]
                               /\ workspace'[r] = workspace[r]
  <2>1. stage[p] \in 0 .. Side /\ stage[p] < Side
    BY DEF IInv, TypeOK
  <2>2. stage[p] \in Round
    BY <2>1, GridAssumption DEF Round
  <2>3. /\ pc[p] = "fetch" /\ pc'[p] = "waiting"
        /\ posted' = [posted EXCEPT ![p] =
             {<<Source(p, stage[p], op), op>> : op \in RemoteSources(p)}]
        /\ UNCHANGED <<product, stage, input, panel>>
        /\ \A r \in Rank \ {p} : pc'[r] = pc[r] /\ workspace'[r] = workspace[r]
    BY DEF receiveTiles, IInv, TypeOK
  <2>4. posted \in [Rank -> SUBSET (Rank \X Tag)]
    BY DEF IInv, TypeOK, MessagesTypeOK
  <2>5. posted[p] = {} /\ input[p] = product[p] /\ product[p] >= 1
    BY <2>3 DEF IInv, MainInv, Outside
  <2>6. QED
    BY <2>1, <2>2, <2>3, <2>4, <2>5
<1>1. /\ product[p] \in Int /\ product[p] - 1 \in Int /\ (product[p] - 1) + 1 = product[p]
      /\ product[p] \in Version
  BY ProductsAssumption DEF IInv, TypeOK, Version
<1>2. Tile(p, product[p]) \in TileOrNone /\ NoTile \in TileOrNone
  BY <1>1 DEF Tile, TileOrNone
<1>3. PICK eager \in SendModes : channel' = [c \in Link |->
        IF c[1] = p /\ <<c[2], c[3]>> \in {<<Target(p, stage[p], op), op>> : op \in RemoteTargets(p)}
        THEN Append(channel[c], [eager |-> eager,
                                 tile |-> IF eager THEN SendBuffer(p)[c[3]] ELSE NoTile])
        ELSE channel[c]]
  BY DEF sendTiles
<1>4. eager \in BOOLEAN
  BY SendModesAssumption
<1> DEFINE message == [eager |-> eager, tile |-> IF eager THEN Tile(p, product[p]) ELSE NoTile]
<1>5. message \in Message
  BY <1>2, <1>4 DEF Message
<1>6. ASSUME NEW r \in Rank, NEW tag \in Tag, <<p, r, tag>> \in Link
      PROVE  channel'[<<p, r, tag>>] =
               IF tag # "slice" /\ When(r, p, tag) = stage[p]
               THEN Append(channel[<<p, r, tag>>], message)
               ELSE channel[<<p, r, tag>>]
  <2>1. p # r /\ (tag # "slice" => tag \in Operand)
    BY <1>6, LinkMeans
  <2>2. <<r, tag>> \in {<<Target(p, stage[p], op), op>> : op \in RemoteTargets(p)}
          <=> tag # "slice" /\ When(r, p, tag) = stage[p]
    <3>1. CASE tag = "slice"
      BY <3>1 DEF RemoteTargets, Operand
    <3>2. CASE tag # "slice"
      <4>1. Target(p, stage[p], tag) = r <=> stage[p] = When(r, p, tag)
        BY <1>0, <1>6, <2>1, <3>2, WhenIs
      <4>2. QED
        BY <2>1, <3>2, <4>1 DEF RemoteTargets
    <3>3. QED
      BY <3>1, <3>2
  <2>3. tag # "slice" => SendBuffer(p)[tag] = Tile(p, product[p])
    BY <1>0 DEF SendBuffer
  <2>4. channel'[<<p, r, tag>>] =
          IF <<r, tag>> \in {<<Target(p, stage[p], op), op>> : op \in RemoteTargets(p)}
          THEN Append(channel[<<p, r, tag>>],
                      [eager |-> eager,
                       tile |-> IF eager THEN SendBuffer(p)[tag] ELSE NoTile])
          ELSE channel[<<p, r, tag>>]
    BY <1>3, <1>6
  <2>5. QED
    BY <2>2, <2>3, <2>4
<1>7. ASSUME NEW c \in Link, c[1] # p PROVE channel'[c] = channel[c]
  BY <1>3, <1>7
<1>8. TypeOK'
  <2>1. workspace' \in [Rank -> [Operand -> TileOrNone]]
    BY <1>0, <1>2 DEF IInv, TypeOK
  <2>2. ASSUME NEW op \in RemoteSources(p)
        PROVE  <<Source(p, stage[p], op), op>> \in Rank \X Tag
    BY <1>0, SourceInRank DEF RemoteSources, Tag
  <2>3. posted' \in [Rank -> SUBSET (Rank \X Tag)]
    <3>1. posted'[p] \in SUBSET (Rank \X Tag)
      BY <1>0, <2>2
    <3>2. posted' = [posted EXCEPT ![p] = posted'[p]]
      BY DEF receiveTiles, IInv, TypeOK, MessagesTypeOK
    <3>3. QED
      BY <3>1, <3>2 DEF IInv, TypeOK, MessagesTypeOK
  <2>4. channel' \in [Link -> Seq(Message)]
    <3>1. ASSUME NEW c \in Link PROVE channel'[c] \in Seq(Message)
      <4>1. channel[c] \in Seq(Message)
        BY DEF IInv, TypeOK, MessagesTypeOK
      <4>2. Append(channel[c], message) \in Seq(Message)
        BY <1>5, <4>1, AppendProperties
      <4>3. PICK q \in Rank, r \in Rank, tag \in Tag : c = <<q, r, tag>> /\ c[1] = q
        BY LinkMeans
      <4>4. channel'[c] \in {channel[c], Append(channel[c], message)}
        BY <1>6, <1>7, <4>3
      <4>5. QED
        BY <4>1, <4>2, <4>4
    <3>2. channel' = [c \in Link |-> channel'[c]]
      BY <1>3
    <3>3. QED
      BY <3>1, <3>2
  <2>5. pc' \in [Rank -> Location]
    BY DEF IInv, TypeOK, Location
  <2>6. QED
    BY <1>0, <2>1, <2>3, <2>4, <2>5 DEF IInv, TypeOK, MessagesTypeOK
<1>9. ChannelInv'
  <2> SUFFICES ASSUME NEW c \in Link PROVE Between(c[1], c[2], c[3])'
    BY DEF ChannelInv
  <2>1. PICK q \in Rank, r \in Rank, tag \in Tag : c = <<q, r, tag>> /\ q # r
    BY LinkMeans
  <2>2. Between(q, r, tag) /\ <<q, r, tag>> \in Link /\ c[1] = q /\ c[2] = r /\ c[3] = tag
    BY <2>1 DEF IInv, ChannelInv
  <2>3. tag # "slice" => tag \in Operand /\ When(r, q, tag) \in Round
    BY <2>2, WhenIs, LinkMeans
  <2>4. Got(q, r, tag)' = Got(q, r, tag)
    <3>1. CASE r # p
      BY <1>0, <3>1, ReceiverKept
    <3>2. CASE r = p /\ tag = "slice"
      BY <1>0, <3>2 DEF Got, StageCount, Outside
    <3>3. CASE r = p /\ tag # "slice"
      <4>1. When(p, q, tag) = stage[p] => <<q, tag>> \in posted'[p]
        <5>1. When(p, q, tag) = stage[p] => Source(p, stage[p], tag) = q
          BY <1>0, <2>2, <2>3, <3>3, WhenIs
        <5>2. QED
          BY <1>0, <2>1, <2>3, <3>3, <5>1 DEF RemoteSources
      <4>2. QED
        BY <1>0, <3>3, <4>1 DEF Got, ProductCount, Outside
    <3>4. QED
      BY <3>1, <3>2, <3>3
  <2>5. CASE q # p
    BY <1>0, <1>7, <2>2, <2>4, <2>5, SenderKept, BetweenKept
  <2>6. CASE q = p /\ ~(tag # "slice" /\ When(r, p, tag) = stage[p])
    <3>1. Sent(q, r, tag)' = Sent(q, r, tag)
      BY <1>0, <2>6 DEF Sent, StageCount, ProductCount, Outside
    <3>2. ~Sending(q, r, tag)
      BY <1>0, <2>6 DEF Sending
    <3>3. channel'[<<q, r, tag>>] = channel[<<q, r, tag>>]
      BY <1>6, <2>2, <2>6
    <3>4. QED
      BY <2>2, <2>4, <3>1, <3>2, <3>3, BetweenKept
  <2>7. CASE q = p /\ tag # "slice" /\ When(r, p, tag) = stage[p]
    <3>1. Sent(q, r, tag) = product[p] - 1 /\ Sent(q, r, tag)' = product[p]
      BY <1>0, <2>7, GridAssumption DEF Sent, ProductCount, Outside, Round
    <3>2. ~Sending(q, r, tag) /\ Sending(q, r, tag)'
      BY <1>0, <2>7 DEF Sending
    <3>3. channel'[<<q, r, tag>>] = Append(channel[<<q, r, tag>>], message)
      BY <1>6, <2>2, <2>7
    <3>4. eager => Carries(q, tag, Sent(q, r, tag) + 1, message.tile)
      BY <1>1, <2>7, <3>1 DEF Carries
    <3>5. Sent(q, r, tag)' = Sent(q, r, tag) + 1
      BY <1>1, <3>1
    <3> HIDE DEF message
    <3>6. message.eager = eager
      BY DEF message
    <3>7. Between(q, r, tag)'
      BY <1>4, <1>5, <2>2, <2>4, <3>2, <3>3, <3>4, <3>5, <3>6, MessageSent DEF IInv
    <3>8. QED
      BY <2>2, <3>7
  <2>8. QED
    BY <2>2, <2>5, <2>6, <2>7
<1>10. MainInv'
  <2>1. \A recv \in posted'[p] :
          recv[2] \in Operand /\ recv[1] = Source(p, stage[p], recv[2]) /\ recv[1] # p
    BY <1>0 DEF RemoteSources
  <2>2. ASSUME NEW r \in Rank \ {p}
        PROVE  /\ pc'[r] = pc[r] /\ product'[r] = product[r] /\ stage'[r] = stage[r]
               /\ posted'[r] = posted[r] /\ input'[r] = input[r]
    BY <1>0
  <2>3. QED
    BY <1>0, <2>1, <2>2 DEF IInv, MainInv, Outside
<1>11. TileInv'
  <2>1. ASSUME NEW op \in Operand
        PROVE  \/ <<Source(p, stage[p], op), op>> \in posted'[p]
               \/ workspace'[p][op] = Expected(p, stage[p], op, product[p])
    <3>1. CASE op \in RemoteSources(p)
      BY <1>0, <3>1
    <3>2. CASE op \notin RemoteSources(p)
      BY <1>0, <3>2 DEF IInv, TypeOK, RemoteSources, Expected
    <3>3. QED
      BY <3>1, <3>2
  <2>2. QED
    BY <1>0, <2>1 DEF IInv, TileInv, Fetched
<1>12. PanelInv'
  BY <1>0 DEF IInv, PanelInv
<1>13. QED
  BY <1>8, <1>9, <1>10, <1>11, <1>12 DEF IInv

\* A number of slices tells the stage of which product the last one is of.
LEMMA SliceNumber ==
  ASSUME TypeOK, NEW q \in Rank, stage[q] \in Round,
         NEW g \in Version, NEW s \in Round,
         Total(product[q] - 1, stage[q]) + 1 = Total(g - 1, s) + 1
  PROVE  g = product[q] /\ s = stage[q]
<1>1. /\ g \in Int /\ g - 1 \in Int
      /\ product[q] \in Int /\ product[q] - 1 \in Int
      /\ s \in Int /\ stage[q] \in Int
  BY ProductsAssumption, GridAssumption DEF TypeOK, Version, Round
<1>2. Total(g - 1, s) \in Int /\ Total(product[q] - 1, stage[q]) \in Int
  BY <1>1, TotalStep, Zenon
<1>3. Total(g - 1, s) = Total(product[q] - 1, stage[q])
  BY <1>2
<1>4. g - 1 = product[q] - 1 /\ s = stage[q]
  BY <1>1, <1>3, TotalInjective
<1>5. QED
  BY <1>1, <1>4

LEMMA AssembleStep ==
  ASSUME IInv, NEW p \in Rank, Assemble(p) PROVE IInv'
<1> USE DEF Assemble, Goto
<1>0. /\ pc[p] = "assemble" /\ pc'[p] = "assembling" /\ posted[p] = {}
      /\ stage[p] \in Round /\ stage[p] < Side /\ product[p] >= 1
      /\ posted'[p] = {<<q, "slice">> : q \in peers(p)}
      /\ UNCHANGED <<product, stage, input, workspace>>
      /\ \A r \in Rank \ {p} : /\ pc'[r] = pc[r]
                               /\ posted'[r] = posted[r]
                               /\ panel'[r] = panel[r]
  <2>0. pc[p] = "assemble"
    OBVIOUS
  <2>1. stage[p] \in 0 .. Side /\ stage[p] < Side /\ product[p] >= 1 /\ posted[p] = {}
    BY <2>0 DEF IInv, TypeOK, MainInv, Outside
  <2>2. stage[p] \in Round
    BY <2>1, GridAssumption DEF Round
  <2>3. /\ pc'[p] = "assembling"
        /\ posted' = [posted EXCEPT ![p] = {<<q, "slice">> : q \in peers(p)}]
        /\ UNCHANGED <<product, stage, input, workspace>>
        /\ \A r \in Rank \ {p} : pc'[r] = pc[r] /\ panel'[r] = panel[r]
    BY DEF receiveTiles, IInv, TypeOK
  <2>4. posted \in [Rank -> SUBSET (Rank \X Tag)]
    BY DEF IInv, TypeOK, MessagesTypeOK
  <2>5. QED
    BY <2>0, <2>1, <2>2, <2>3, <2>4
<1>1. /\ product[p] \in Version
      /\ Total(product[p] - 1, stage[p]) \in Int
  <2>1. product[p] - 1 \in Int /\ stage[p] \in Int /\ product[p] \in Version
    BY <1>0, ProductsAssumption, GridAssumption DEF IInv, TypeOK, Version, Round
  <2>2. QED
    BY <2>1, TotalStep, Zenon
<1>2. /\ workspace[p]["b"] = Expected(p, stage[p], "b", product[p])
      /\ workspace[p]["b"] \in TileOrNone
      /\ NoTile \in TileOrNone
  <2>1. "b" \in Operand
    BY DEF Operand
  <2>2. workspace[p]["b"] = Expected(p, stage[p], "b", product[p])
    BY <1>0, <2>1 DEF IInv, TileInv, Fetched
  <2>3. workspace[p]["b"] \in TileOrNone
    BY <2>1 DEF IInv, TypeOK
  <2>4. QED
    BY <2>2, <2>3 DEF TileOrNone
<1>3. PICK eager \in SendModes : channel' = [c \in Link |->
        IF c[1] = p /\ <<c[2], c[3]>> \in {<<q, "slice">> : q \in peers(p)}
        THEN Append(channel[c], [eager |-> eager,
                                 tile |-> IF eager THEN SendBuffer(p)[c[3]] ELSE NoTile])
        ELSE channel[c]]
  BY DEF sendTiles
<1>4. eager \in BOOLEAN
  BY SendModesAssumption
<1> DEFINE message == [eager |-> eager, tile |-> IF eager THEN workspace[p]["b"] ELSE NoTile]
<1>5. message \in Message
  BY <1>2, <1>4 DEF Message
<1>6. ASSUME NEW r \in Rank, NEW tag \in Tag, <<p, r, tag>> \in Link
      PROVE  channel'[<<p, r, tag>>] =
               IF tag = "slice" THEN Append(channel[<<p, r, tag>>], message)
               ELSE channel[<<p, r, tag>>]
  <2>1. <<r, tag>> \in {<<q, "slice">> : q \in peers(p)} <=> tag = "slice"
    BY <1>6, LinkMeans
  <2>2. tag = "slice" => SendBuffer(p)[tag] = workspace[p]["b"]
    BY DEF SendBuffer
  <2>3. channel'[<<p, r, tag>>] =
          IF <<r, tag>> \in {<<q, "slice">> : q \in peers(p)}
          THEN Append(channel[<<p, r, tag>>],
                      [eager |-> eager,
                       tile |-> IF eager THEN SendBuffer(p)[tag] ELSE NoTile])
          ELSE channel[<<p, r, tag>>]
    BY <1>3, <1>6
  <2>4. QED
    BY <2>1, <2>2, <2>3
<1>7. ASSUME NEW c \in Link, c[1] # p PROVE channel'[c] = channel[c]
  BY <1>3, <1>7
<1>8. TypeOK'
  <2>1. panel' \in [Rank -> [NodeRank -> TileOrNone]]
    BY <1>2 DEF IInv, TypeOK, NoPanel
  <2>2. posted' \in [Rank -> SUBSET (Rank \X Tag)]
    <3>1. posted'[p] \in SUBSET (Rank \X Tag)
      BY <1>0 DEF peers, Tag
    <3>2. posted' = [posted EXCEPT ![p] = posted'[p]]
      BY DEF receiveTiles, IInv, TypeOK, MessagesTypeOK
    <3>3. QED
      BY <3>1, <3>2 DEF IInv, TypeOK, MessagesTypeOK
  <2>3. channel' \in [Link -> Seq(Message)]
    <3>1. ASSUME NEW c \in Link PROVE channel'[c] \in Seq(Message)
      <4>1. channel[c] \in Seq(Message)
        BY DEF IInv, TypeOK, MessagesTypeOK
      <4>2. Append(channel[c], message) \in Seq(Message)
        BY <1>5, <4>1, AppendProperties
      <4>3. PICK q \in Rank, r \in Rank, tag \in Tag : c = <<q, r, tag>> /\ c[1] = q
        BY LinkMeans
      <4>4. channel'[c] \in {channel[c], Append(channel[c], message)}
        BY <1>6, <1>7, <4>3
      <4>5. QED
        BY <4>1, <4>2, <4>4
    <3>2. channel' = [c \in Link |-> channel'[c]]
      BY <1>3
    <3>3. QED
      BY <3>1, <3>2
  <2>4. pc' \in [Rank -> Location]
    BY DEF IInv, TypeOK, Location
  <2>5. QED
    BY <1>0, <2>1, <2>2, <2>3, <2>4 DEF IInv, TypeOK, MessagesTypeOK
<1>9. ChannelInv'
  <2> SUFFICES ASSUME NEW c \in Link PROVE Between(c[1], c[2], c[3])'
    BY DEF ChannelInv
  <2>1. PICK q \in Rank, r \in Rank, tag \in Tag : c = <<q, r, tag>> /\ q # r
    BY LinkMeans
  <2>2. Between(q, r, tag) /\ <<q, r, tag>> \in Link /\ c[1] = q /\ c[2] = r /\ c[3] = tag
    BY <2>1 DEF IInv, ChannelInv
  <2>3. Got(q, r, tag)' = Got(q, r, tag)
    <3>1. CASE r # p
      BY <1>0, <3>1, ReceiverKept
    <3>2. CASE r = p /\ tag = "slice"
      <4>1. <<q, tag>> \in posted'[p]
        BY <1>0, <2>2, <3>2, LinkMeans
      <4>2. QED
        BY <1>0, <3>2, <4>1 DEF Got, StageCount, Outside
    <3>3. CASE r = p /\ tag # "slice"
      <4>1. <<q, tag>> \notin posted[p] /\ <<q, tag>> \notin posted'[p]
        BY <1>0, <3>3
      <4>2. QED
        BY <1>0, <3>3, <4>1 DEF Got, ProductCount, Outside
    <3>4. QED
      BY <3>1, <3>2, <3>3
  <2>4. CASE q # p
    BY <1>0, <1>7, <2>2, <2>3, <2>4, SenderKept, BetweenKept
  <2>5. CASE q = p /\ tag # "slice"
    <3>1. Sent(q, r, tag)' = Sent(q, r, tag)
      BY <1>0, <2>5 DEF Sent, ProductCount, Outside
    <3>2. ~Sending(q, r, tag)
      BY <1>0, <2>5 DEF Sending
    <3>3. channel'[<<q, r, tag>>] = channel[<<q, r, tag>>]
      BY <1>6, <2>2, <2>5
    <3>4. QED
      BY <2>2, <2>3, <3>1, <3>2, <3>3, BetweenKept
  <2>6. CASE q = p /\ tag = "slice"
    <3>1. /\ Sent(q, r, tag) = Total(product[p] - 1, stage[p])
          /\ Sent(q, r, tag)' = Total(product[p] - 1, stage[p]) + 1
      BY <1>0, <1>1, <2>6 DEF Sent, StageCount, Outside
    <3>2. ~Sending(q, r, tag) /\ Sending(q, r, tag)'
      BY <1>0, <2>6 DEF Sending
    <3>3. channel'[<<q, r, tag>>] = Append(channel[<<q, r, tag>>], message)
      BY <1>6, <2>2, <2>6
    <3>4. eager => Carries(q, tag, Sent(q, r, tag) + 1, message.tile)
      <4>1. ASSUME NEW g \in Version, NEW s \in Round,
                   Total(product[p] - 1, stage[p]) + 1 = Total(g - 1, s) + 1
            PROVE  workspace[p]["b"] = Expected(p, s, "b", g)
        BY <1>0, <1>2, <4>1, SliceNumber DEF IInv
      <4>2. QED
        BY <2>6, <3>1, <4>1 DEF Carries
    <3>5. Sent(q, r, tag)' = Sent(q, r, tag) + 1
      BY <3>1
    <3> HIDE DEF message
    <3>6. message.eager = eager
      BY DEF message
    <3>7. Between(q, r, tag)'
      BY <1>4, <1>5, <2>2, <2>3, <3>2, <3>3, <3>4, <3>5, <3>6, MessageSent DEF IInv
    <3>8. QED
      BY <2>2, <3>7
  <2>7. QED
    BY <2>2, <2>4, <2>5, <2>6
<1>10. MainInv'
  <2>1. \A recv \in posted'[p] : recv[2] = "slice" /\ recv[1] \in peers(p)
    BY <1>0
  <2>2. ASSUME NEW r \in Rank \ {p}
        PROVE  /\ pc'[r] = pc[r] /\ product'[r] = product[r] /\ stage'[r] = stage[r]
               /\ posted'[r] = posted[r] /\ input'[r] = input[r]
    BY <1>0
  <2>3. QED
    BY <1>0, <2>1, <2>2 DEF IInv, MainInv, Outside
<1>11. TileInv'
  <2>1. \A op \in Operand : workspace[p][op] = Expected(p, stage[p], op, product[p])
    BY <1>0 DEF IInv, TileInv, Fetched
  <2>2. QED
    BY <1>0, <2>1 DEF IInv, TileInv, Fetched
<1>12. PanelInv'
  <2>1. ASSUME NEW k \in NodeRank
        PROVE  \/ <<neighbour(p, k), "slice">> \in posted'[p]
               \/ panel'[p][k] = Expected(neighbour(p, k), stage[p], "b", product[p])
    <3>1. CASE k = p.nodeRank
      <4>1. neighbour(p, k) = p
        BY <3>1, Neighbours
      <4>2. panel'[p][k] = workspace[p]["b"]
        BY <3>1 DEF IInv, TypeOK, NoPanel
      <4>3. QED
        BY <1>2, <4>1, <4>2
    <3>2. CASE k # p.nodeRank
      BY <1>0, <3>2, Neighbours
    <3>3. QED
      BY <3>1, <3>2
  <2>2. QED
    BY <1>0, <2>1 DEF IInv, PanelInv
<1>13. QED
  BY <1>8, <1>9, <1>10, <1>11, <1>12 DEF IInv

-----------------------------------------------------------------------------
(* Receiving                                                               *)

\* A posted receive is one of a link, and counts as not yet received.
LEMMA PostedMeans ==
  ASSUME IInv, NEW p \in Rank, NEW recv \in posted[p]
  PROVE  /\ recv[1] \in Rank /\ recv[2] \in Tag /\ recv = <<recv[1], recv[2]>>
         /\ <<recv[1], p, recv[2]>> \in Link
         /\ stage[p] \in Round /\ product[p] \in Version /\ product[p] >= 1
         /\ IF recv[2] = "slice"
            THEN /\ pc[p] = "assembling" /\ recv[1] \in peers(p)
                 /\ Got(recv[1], p, recv[2]) = Total(product[p] - 1, stage[p])
            ELSE /\ pc[p] = "waiting" /\ recv[2] \in Operand
                 /\ recv[1] = Source(p, stage[p], recv[2])
                 /\ When(p, recv[1], recv[2]) = stage[p]
                 /\ Got(recv[1], p, recv[2]) = product[p] - 1
<1>1. /\ recv \in Rank \X Tag
      /\ pc[p] \in {"waiting", "assembling"}
      /\ stage[p] \in 0 .. Side
      /\ product[p] \in Version
  BY DEF IInv, TypeOK, MessagesTypeOK, MainInv
<1>2. stage[p] < Side /\ product[p] >= 1
  BY <1>1 DEF IInv, MainInv, Outside
<1>3. stage[p] \in Round
  BY <1>1, <1>2, GridAssumption DEF Round
<1>4. recv[1] \in Rank /\ recv[2] \in Tag /\ recv = <<recv[1], recv[2]>>
  BY <1>1
<1>5. /\ product[p] - 1 \in Int /\ stage[p] \in Int
  BY <1>1, <1>3, ProductsAssumption, GridAssumption DEF Version, Round
<1>6. Total(product[p] - 1, stage[p]) \in Int
  BY <1>5, TotalStep, Zenon
<1>7. CASE pc[p] = "assembling"
  <2>1. recv[2] = "slice" /\ recv[1] \in peers(p)
    BY <1>7 DEF IInv, MainInv
  <2>2. Got(recv[1], p, recv[2]) = Total(product[p] - 1, stage[p])
    BY <1>4, <1>6, <1>7, <2>1 DEF Got, StageCount, Outside
  <2>3. QED
    BY <1>1, <1>2, <1>3, <1>4, <1>7, <2>1, <2>2, PeerLinks
<1>8. CASE pc[p] = "waiting"
  <2>1. recv[2] \in Operand /\ recv[1] = Source(p, stage[p], recv[2]) /\ recv[1] # p
    BY <1>8 DEF IInv, MainInv
  <2>2. <<recv[1], p, recv[2]>> \in Link /\ When(p, recv[1], recv[2]) = stage[p]
    BY <1>3, <2>1, SourceLinks
  <2>3. recv[2] # "slice"
    BY <2>1 DEF Operand
  <2>4. ~(stage[p] < stage[p])
    BY <1>5
  <2>5. Got(recv[1], p, recv[2]) = product[p] - 1
    BY <1>4, <1>8, <2>2, <2>3, <2>4 DEF Got, ProductCount, Outside
  <2>6. QED
    BY <1>1, <1>2, <1>3, <1>4, <1>8, <2>1, <2>2, <2>3, <2>5
<1>9. QED
  BY <1>1, <1>7, <1>8

\* No message meets another stage's or another product's receive.
LEMMA ReceivedExpected ==
  ASSUME IInv, NEW p \in Rank, NEW recv \in posted[p],
         channel[<<recv[1], p, recv[2]>>] # <<>>
  PROVE  Received(p, recv, SendBuffer(recv[1])) =
           IF recv[2] = "slice" THEN Expected(recv[1], stage[p], "b", product[p])
           ELSE Expected(p, stage[p], recv[2], product[p])
<1> DEFINE q == recv[1]
           tag == recv[2]
           messages == channel[<<q, p, tag>>]
           tile == Received(p, recv, SendBuffer(q))
<1>1. /\ q \in Rank /\ tag \in Tag /\ <<q, p, tag>> \in Link /\ messages # <<>>
      /\ messages \in Seq(Message)
      /\ Between(q, p, tag)
  <2>1. q \in Rank /\ tag \in Tag /\ <<q, p, tag>> \in Link
    BY PostedMeans
  <2>2. messages \in Seq(Message)
    BY <2>1 DEF IInv, TypeOK, MessagesTypeOK
  <2>3. Between(q, p, tag)
    BY <2>1 DEF IInv, ChannelInv
  <2>4. QED
    BY <2>1, <2>2, <2>3
<1>2. Len(messages) \in Nat \ {0} /\ Head(messages) = messages[1] /\ 1 \in DOMAIN messages
  <2>1. Len(messages) \in Nat \ {0}
    BY <1>1, EmptySeq
  <2>2. DOMAIN messages = 1 .. Len(messages)
    BY <1>1, LenProperties
  <2>3. QED
    BY <1>1, <2>1, <2>2
<1>3. /\ Sent(q, p, tag) \in Int /\ Got(q, p, tag) \in Int
  BY <1>1, CountsInt DEF IInv
<1>4. tile = IF messages[1].eager THEN messages[1].tile ELSE SendBuffer(q)[tag]
  BY <1>2 DEF Received
<1>5. Carries(q, tag, Got(q, p, tag) + 1, tile)
  <2>1. CASE messages[1].eager
    BY <1>1, <1>2, <1>4, <2>1 DEF Between
  <2>2. CASE ~messages[1].eager
    <3>1. Len(messages) = 1 /\ Sending(q, p, tag)
      BY <1>1, <1>2, <2>2 DEF Between
    <3>2. Sent(q, p, tag) = Got(q, p, tag) + 1
      BY <1>1, <1>3, <3>1 DEF Between
    <3>3. Carries(q, tag, Sent(q, p, tag), SendBuffer(q)[tag])
      BY <1>1, <3>1, BufferCarries
    <3>4. QED
      BY <1>4, <2>2, <3>2, <3>3
  <2>3. QED
    BY <2>1, <2>2
<1>6. CASE tag = "slice"
  <2>1. /\ Got(q, p, tag) = Total(product[p] - 1, stage[p])
        /\ stage[p] \in Round /\ product[p] \in Version
    BY <1>6, PostedMeans
  <2>2. QED
    BY <1>5, <1>6, <2>1 DEF Carries
<1>7. CASE tag # "slice"
  <2>1. /\ Got(q, p, tag) = product[p] - 1
        /\ q = Source(p, stage[p], tag)
        /\ product[p] \in Int
    BY <1>7, PostedMeans, ProductsAssumption DEF Version
  <2>2. Got(q, p, tag) + 1 = product[p]
    BY <2>1
  <2>3. QED
    BY <1>5, <1>7, <2>1, <2>2 DEF Carries, Expected
<1>8. QED
  BY <1>6, <1>7

LEMMA MatchStep ==
  ASSUME IInv, NEW p \in Rank, Match(p) PROVE IInv'
<1>0. PICK recv \in posted[p] :
        /\ Meet(p, recv)
        /\ \/ /\ recv[2] \in Operand
              /\ workspace' = [workspace EXCEPT ![p][recv[2]] =
                                 Received(p, recv, SendBuffer(recv[1]))]
              /\ UNCHANGED panel
           \/ /\ recv[2] = "slice"
              /\ panel' = [panel EXCEPT ![p][recv[1].nodeRank] =
                             Received(p, recv, SendBuffer(recv[1]))]
              /\ UNCHANGED workspace
        /\ UNCHANGED <<pc, product, stage, input>>
  BY DEF Match
<1> DEFINE q == recv[1]
           tag == recv[2]
           tile == Received(p, recv, SendBuffer(q))
           c0 == <<q, p, tag>>
<1>1. /\ q \in Rank /\ tag \in Tag /\ recv = <<q, tag>> /\ c0 \in Link
      /\ stage[p] \in Round /\ product[p] \in Version /\ product[p] >= 1
      /\ q # p
  <2>1. c0 \in Link
    BY PostedMeans
  <2>2. c0[1] = q /\ c0[2] = p
    OBVIOUS
  <2>3. c0[1] # c0[2]
    BY <2>1, LinkMeans
  <2>4. QED
    BY <2>1, <2>2, <2>3, PostedMeans
<1>2. /\ channel[c0] # <<>>
      /\ channel' = [channel EXCEPT ![c0] = Tail(@)]
      /\ posted' = [posted EXCEPT ![p] = @ \ {recv}]
  BY <1>0 DEF Meet
<1>3. /\ posted'[p] = posted[p] \ {recv}
      /\ \A r \in Rank \ {p} : posted'[r] = posted[r]
      /\ channel'[c0] = Tail(channel[c0])
      /\ \A c \in Link : c # c0 => channel'[c] = channel[c]
  BY <1>1, <1>2 DEF IInv, TypeOK, MessagesTypeOK
<1>4. tile = IF tag = "slice" THEN Expected(q, stage[p], "b", product[p])
             ELSE Expected(p, stage[p], tag, product[p])
  BY <1>2, ReceivedExpected
<1>5. tile \in TileOrNone
  <2>1. "b" \in Operand /\ (tag # "slice" => tag \in Operand)
    BY <1>1 DEF Tag, Operand
  <2>2. \A r \in Rank, op \in Operand : Expected(r, stage[p], op, product[p]) \in TileOrNone
    BY <1>1, SourceInRank DEF Expected, Tile, TileOrNone
  <2>3. QED
    BY <1>1, <1>4, <2>1, <2>2
<1>6. TypeOK'
  <2>1. /\ channel[c0] \in Seq(Message)
        /\ Tail(channel[c0]) \in Seq(Message)
    <3>1. channel[c0] \in Seq(Message)
      BY <1>1 DEF IInv, TypeOK, MessagesTypeOK
    <3>2. QED
      BY <1>2, <3>1, HeadTailProperties
  <2>2. MessagesTypeOK'
    BY <1>1, <1>2, <2>1 DEF IInv, TypeOK, MessagesTypeOK
  <2>3. workspace' \in [Rank -> [Operand -> TileOrNone]]
    <3>1. CASE UNCHANGED workspace
      BY <3>1 DEF IInv, TypeOK
    <3>2. CASE tag \in Operand /\ workspace' = [workspace EXCEPT ![p][tag] = tile]
      <4> HIDE DEF tile
      <4> QED
        BY <1>5, <3>2 DEF IInv, TypeOK
    <3>3. QED
      BY <1>0, <3>1, <3>2
  <2>4. panel' \in [Rank -> [NodeRank -> TileOrNone]]
    <3>1. CASE UNCHANGED panel
      BY <3>1 DEF IInv, TypeOK
    <3>2. CASE panel' = [panel EXCEPT ![p][q.nodeRank] = tile]
      <4> HIDE DEF tile
      <4> QED
        BY <1>5, <3>2 DEF IInv, TypeOK
    <3>3. QED
      BY <1>0, <3>1, <3>2
  <2>5. QED
    BY <1>0, <2>2, <2>3, <2>4 DEF IInv, TypeOK
<1>7. MainInv'
  BY <1>0, <1>3 DEF IInv, MainInv, Outside
<1>8. ChannelInv'
  <2> SUFFICES ASSUME NEW c \in Link PROVE Between(c[1], c[2], c[3])'
    BY DEF ChannelInv
  <2>1. /\ c[1] \in Rank /\ c[2] \in Rank /\ c[3] \in Tag /\ c = <<c[1], c[2], c[3]>>
        /\ Between(c[1], c[2], c[3])
    BY LinkMeans DEF IInv, ChannelInv
  <2>2. /\ Sent(c[1], c[2], c[3])' = Sent(c[1], c[2], c[3])
        /\ Sending(c[1], c[2], c[3]) => Sending(c[1], c[2], c[3])'
    BY <1>0, <2>1, SenderKept
  <2>3. CASE c # c0
    <3>1. Got(c[1], c[2], c[3])' = Got(c[1], c[2], c[3])
      <4>1. CASE c[2] # p
        BY <1>0, <1>3, <2>1, <4>1, ReceiverKept
      <4>2. CASE c[2] = p
        <5>1. <<c[1], c[3]>> # recv
          BY <1>1, <2>1, <2>3, <4>2
        <5>2. <<c[1], c[3]>> \in posted'[p] <=> <<c[1], c[3]>> \in posted[p]
          BY <1>3, <5>1
        <5>3. QED
          BY <1>0, <4>2, <5>2 DEF Got, StageCount, ProductCount, Outside
      <4>3. QED
        BY <4>1, <4>2
    <3>2. channel'[<<c[1], c[2], c[3]>>] = channel[<<c[1], c[2], c[3]>>]
      BY <1>3, <2>1, <2>3
    <3>3. QED
      BY <2>1, <2>2, <3>1, <3>2, BetweenKept
  <2>4. CASE c = c0
    <3>1. c[1] = q /\ c[2] = p /\ c[3] = tag /\ Between(q, p, tag)
      BY <2>1, <2>4
    <3>2. Got(q, p, tag)' = Got(q, p, tag) + 1
      <4>1. recv \notin posted'[p]
        BY <1>3
      <4>2. CASE tag = "slice"
        <5>1. /\ pc[p] = "assembling"
              /\ Got(q, p, tag) = Total(product[p] - 1, stage[p])
          BY <4>2, PostedMeans
        <5>2. Got(q, p, tag)' = Total(product[p] - 1, stage[p]) + 1
          BY <1>0, <1>1, <4>1, <4>2, <5>1 DEF Got, StageCount, Outside
        <5>3. QED
          BY <5>1, <5>2
      <4>3. CASE tag # "slice"
        <5>1. /\ pc[p] = "waiting" /\ When(p, q, tag) = stage[p]
              /\ Got(q, p, tag) = product[p] - 1
          BY <4>3, PostedMeans
        <5>2. Got(q, p, tag)' = product[p]
          BY <1>0, <1>1, <4>1, <4>3, <5>1 DEF Got, ProductCount, Outside
        <5>3. product[p] \in Int
          BY <1>1, ProductsAssumption DEF Version
        <5>4. QED
          BY <5>1, <5>2, <5>3
      <4>4. QED
        BY <4>2, <4>3
    <3> DEFINE before == channel[c0]
               after == channel'[c0]
    <3>3. before \in Seq(Message) /\ before # <<>> /\ after = Tail(before)
      BY <1>1, <1>2, <1>3 DEF IInv, TypeOK, MessagesTypeOK
    <3>4. /\ Len(before) \in Nat /\ DOMAIN before = 1 .. Len(before)
          /\ after \in Seq(Message)
          /\ Len(after) = Len(before) - 1
          /\ \A i \in 1 .. Len(after) : after[i] = before[i + 1]
      BY <3>3, HeadTailProperties, LenProperties
    <3>5. DOMAIN after = 1 .. Len(after) /\ Len(after) \in Nat
      BY <3>4, LenProperties
    <3>6. /\ Sent(q, p, tag) \in Int /\ Got(q, p, tag) \in Int
          /\ Len(before) = Sent(q, p, tag) - Got(q, p, tag)
      BY <1>1, <3>1, CountsInt DEF IInv, Between
    <3> HIDE DEF before, after
    <3>7. Len(after) = Sent(q, p, tag)' - Got(q, p, tag)'
      BY <2>2, <3>1, <3>2, <3>4, <3>6
    <3>8. ASSUME NEW i \in DOMAIN after
          PROVE  /\ after[i].eager => Carries(q, tag, Got(q, p, tag)' + i, after[i].tile)
                 /\ ~after[i].eager => i = Len(after) /\ Sending(q, p, tag)'
      <4>1. /\ i \in 1 .. Len(after) /\ i + 1 \in DOMAIN before /\ after[i] = before[i + 1]
            /\ i = Len(after) <=> i + 1 = Len(before)
        BY <3>4, <3>5
      <4>2. Got(q, p, tag)' + i = Got(q, p, tag) + (i + 1)
        BY <3>2, <3>6, <4>1
      <4>3. /\ before[i + 1].eager =>
                 Carries(q, tag, Got(q, p, tag) + (i + 1), before[i + 1].tile)
            /\ ~before[i + 1].eager => i + 1 = Len(before) /\ Sending(q, p, tag)
        BY <3>1, <4>1 DEF Between, before
      <4>4. QED
        BY <2>2, <3>1, <4>1, <4>2, <4>3
    <3>9. Between(q, p, tag)'
      BY <3>7, <3>8 DEF Between, Carries, after
    <3>10. QED
      BY <3>1, <3>9
  <2>5. QED
    BY <2>3, <2>4
<1>9. TileInv'
  <2>1. ASSUME NEW r \in Rank, pc[r] = "waiting" \/ Fetched(r), NEW op \in Operand
        PROVE  \/ <<Source(r, stage[r], op), op>> \in posted'[r]
               \/ workspace'[r][op] = Expected(r, stage[r], op, product[r])
    <3>1. \/ <<Source(r, stage[r], op), op>> \in posted[r]
          \/ workspace[r][op] = Expected(r, stage[r], op, product[r])
      BY <2>1 DEF IInv, TileInv
    <3>2. CASE r = p /\ op = tag
      <4>1. tag # "slice"
        BY <3>2 DEF Operand
      <4>2. workspace' = [workspace EXCEPT ![p][tag] = tile]
        BY <1>0, <4>1
      <4> HIDE DEF tile
      <4>3. workspace'[p][tag] = tile
        BY <3>2, <4>2 DEF IInv, TypeOK
      <4>4. QED
        BY <1>4, <3>2, <4>1, <4>3
    <3>3. CASE ~(r = p /\ op = tag)
      <4>1. workspace'[r][op] = workspace[r][op]
        BY <1>0, <3>3 DEF IInv, TypeOK
      <4>2. <<Source(r, stage[r], op), op>> \in posted[r] =>
              <<Source(r, stage[r], op), op>> \in posted'[r]
        BY <1>1, <1>3, <3>3
      <4>3. QED
        BY <3>1, <4>1, <4>2
    <3>4. QED
      BY <3>2, <3>3
  <2>2. QED
    BY <1>0, <2>1 DEF TileInv, Fetched
<1>10. PanelInv'
  <2>1. ASSUME NEW r \in Rank, pc[r] \in {"assembling", "compute"}, NEW k \in NodeRank
        PROVE  \/ <<neighbour(r, k), "slice">> \in posted'[r]
               \/ panel'[r][k] = Expected(neighbour(r, k), stage[r], "b", product[r])
    <3>1. \/ <<neighbour(r, k), "slice">> \in posted[r]
          \/ panel[r][k] = Expected(neighbour(r, k), stage[r], "b", product[r])
      BY <2>1 DEF IInv, PanelInv
    <3>2. CASE r = p /\ tag = "slice" /\ k = q.nodeRank
      <4>1. q \in peers(p)
        BY <3>2, PostedMeans
      <4>2. neighbour(p, k) = q
        BY <3>2, <4>1, Neighbours
      <4>3. panel' = [panel EXCEPT ![p][q.nodeRank] = tile]
        BY <1>0, <3>2 DEF Operand
      <4> HIDE DEF tile
      <4>4. panel'[p][k] = tile
        BY <3>2, <4>3 DEF IInv, TypeOK
      <4>5. QED
        BY <1>4, <3>2, <4>2, <4>4
    <3>3. CASE ~(r = p /\ tag = "slice" /\ k = q.nodeRank)
      <4>1. panel'[r][k] = panel[r][k]
        BY <1>0, <3>3 DEF IInv, TypeOK, Operand
      <4>2. <<neighbour(r, k), "slice">> \in posted[r] =>
              <<neighbour(r, k), "slice">> \in posted'[r]
        <5>1. neighbour(r, k).nodeRank = k
          BY Neighbours
        <5>2. QED
          BY <1>1, <1>3, <3>3, <5>1
      <4>3. QED
        BY <3>1, <4>1, <4>2
    <3>4. QED
      BY <3>2, <3>3
  <2>2. QED
    BY <1>0, <2>1 DEF PanelInv
<1>11. QED
  BY <1>6, <1>7, <1>8, <1>9, <1>10 DEF IInv

LEMMA StutterStep ==
  ASSUME IInv, UNCHANGED vars PROVE IInv'
<1> USE DEF vars
<1>1. TypeOK' /\ MainInv'
  BY DEF IInv, TypeOK, MessagesTypeOK, MainInv, Outside
<1>2. ChannelInv'
  <2>1. ASSUME NEW c \in Link PROVE Between(c[1], c[2], c[3])'
    BY LinkMeans, SenderKept, ReceiverKept, BetweenKept DEF IInv, ChannelInv
  <2>2. QED
    BY <2>1 DEF ChannelInv
<1>3. TileInv' /\ PanelInv'
  BY DEF IInv, TileInv, PanelInv, Fetched
<1>4. QED
  BY <1>1, <1>2, <1>3 DEF IInv

LEMMA NextIInv == IInv /\ [Next]_vars => IInv'
<1> SUFFICES ASSUME IInv, [Next]_vars PROVE IInv'
  OBVIOUS
<1>1. CASE UNCHANGED vars
  BY <1>1, StutterStep
<1>2. ASSUME NEW p \in Rank, Step(p) PROVE IInv'
  BY <1>2, PrepareStep, LoopStep, FetchStep, MatchStep, AssembleStep DEF Step
<1>3. QED
  BY <1>1, <1>2 DEF Next, Done

LEMMA Invariance == Spec => []IInv
BY InitIInv, NextIInv, PTL DEF Spec

-----------------------------------------------------------------------------
\* The panel a stage multiplies is made of the slices its node fetched for that
\* stage of that product, however far the ranks drift apart.
LEMMA PanelFresh == IInv => FreshPanel
<1> SUFFICES ASSUME IInv, NEW r \in Rank, pc[r] = "compute", NEW k \in NodeRank
             PROVE  panel[r][k] = Expected(rankAt(r.row, r.col, k), stage[r], "b", product[r])
  BY DEF FreshPanel
<1>1. posted[r] = {}
  BY DEF IInv, MainInv
<1>2. QED
  BY <1>1 DEF IInv, PanelInv, neighbour

THEOREM Freshness == Spec => []FreshPanel
BY Invariance, PanelFresh, PTL

-----------------------------------------------------------------------------
\* The exchange is stated over the same plan.
LEMMA SamePlan ==
  /\ Exchange!Rank = Rank
  /\ Exchange!Operand = Operand
  /\ \A r, s, op : Exchange!Source(r, s, op) = Source(r, s, op)
  /\ \A r, s, op, g : Exchange!Expected(r, s, op, g) = Expected(r, s, op, g)
  /\ Exchange!NoTiles = [op \in Operand |-> NoTile]
<1>1. /\ Exchange!Rank = Rank
      /\ Exchange!Operand = Operand
      /\ Exchange!NoTiles = [op \in Operand |-> NoTile]
  BY DEF Exchange!Rank, Rank, Exchange!Coord, Coord, Exchange!Operand,
         Operand, Exchange!NoTiles
<1>2. \A r, s, op : Exchange!Source(r, s, op) = Source(r, s, op)
  BY DEF Exchange!Source, Source, Exchange!aSource, aSource,
         Exchange!bSource, bSource, Exchange!inner, inner,
         Exchange!rankAt, rankAt
<1>3. \A r, s, op, g : Exchange!Expected(r, s, op, g) = Expected(r, s, op, g)
  BY <1>2 DEF Exchange!Expected, Expected, Exchange!Tile, Tile
<1>4. QED
  BY <1>1, <1>2, <1>3

LEMMA InitRefines == Init => Exchange!Init
BY SamePlan DEF Init, Exchange!Init, StatusOf

\* What the exchange sees of the backend's state.
Status == [r \in Rank |-> StatusOf(r)]

TileView == [r \in Rank |-> IF StatusOf(r) = "compute" THEN workspace[r]
                            ELSE [op \in Operand |-> NoTile]]

LEMMA PrepareRefines ==
  ASSUME IInv, NEW p \in Rank, PrepareInputs(p) PROVE Exchange!Prepare(p)
<1>1. Status' = Status /\ TileView' = TileView
  BY DEF PrepareInputs, Status, StatusOf, TileView
<1>2. QED
  BY <1>1 DEF PrepareInputs, Exchange!Prepare, Status, StatusOf, TileView

LEMMA BeginRefines ==
  ASSUME IInv, NEW p \in Rank, Begin(p) PROVE Exchange!begin(p)
<1> USE DEF Begin, Goto
<1>1. Status' = [Status EXCEPT ![p] = "active"] /\ TileView' = TileView
  BY DEF IInv, TypeOK, Status, StatusOf, TileView
<1>2. Status[p] = "idle"
  BY DEF Status, StatusOf
<1>3. QED
  BY <1>1, <1>2 DEF Exchange!begin, Status, TileView

\* A source that has sent its tile has prepared this product's inputs.
LEMMA SourcesPrepared ==
  ASSUME IInv, NEW p \in Rank, pc[p] = "waiting", posted[p] = {}, NEW op \in Operand
  PROVE  input[Source(p, stage[p], op)] >= product[p]
<1> DEFINE q == Source(p, stage[p], op)
<1>1. /\ stage[p] \in Round /\ input[p] = product[p] /\ product[p] \in Int
      /\ op \in Tag /\ op # "slice"
  <2>1. stage[p] \in 0 .. Side /\ stage[p] < Side /\ input[p] = product[p]
    BY DEF IInv, TypeOK, MainInv, Outside
  <2>2. QED
    BY <2>1, ProductsAssumption, GridAssumption DEF IInv, TypeOK, Version, Round, Tag, Operand
<1>2. CASE q = p
  BY <1>1, <1>2
<1>3. CASE q # p
  <2>1. q \in Rank /\ <<q, p, op>> \in Link /\ When(p, q, op) = stage[p]
    BY <1>1, <1>3, SourceLinks
  <2>2. Got(q, p, op) = product[p]
    BY <1>1, <2>1 DEF Got, ProductCount, Outside
  <2>3. channel[<<q, p, op>>] \in Seq(Message) /\ Between(q, p, op)
    <3>1. Between(<<q, p, op>>[1], <<q, p, op>>[2], <<q, p, op>>[3])
      BY <2>1, Zenon DEF IInv, ChannelInv
    <3>2. QED
      BY <2>1, <3>1 DEF IInv, TypeOK, MessagesTypeOK
  <2>4. Len(channel[<<q, p, op>>]) \in Nat
    BY <2>3, LenProperties
  <2>5. Sent(q, p, op) >= product[p]
    BY <1>1, <2>1, <2>2, <2>3, <2>4, CountsInt DEF IInv, Between
  <2>6. /\ Sent(q, p, op) \in {product[q], product[q] - 1}
        /\ input[q] \in {product[q], product[q] + 1}
        /\ product[q] \in Int
    <3>1. Sent(q, p, op) \in {product[q], product[q] - 1}
      BY <1>1 DEF Sent, ProductCount
    <3>2. QED
      BY <2>1, <3>1, ProductsAssumption DEF IInv, MainInv, TypeOK, Version
  <2>7. QED
    BY <1>1, <2>5, <2>6
<1>4. QED
  BY <1>2, <1>3

LEMMA FetchRefines ==
  ASSUME IInv, NEW p \in Rank, FetchWait(p) PROVE Exchange!fetch(p)
<1> USE DEF FetchWait, Goto, AllComplete, ReceivesComplete
<1>1. pc[p] = "waiting" /\ posted[p] = {}
  OBVIOUS
<1>2. stage[p] < Side
  BY <1>1 DEF IInv, MainInv, Outside
<1>3. /\ \A op \in Operand : input[Source(p, stage[p], op)] >= product[p]
      /\ workspace[p] = [op \in Operand |-> Expected(p, stage[p], op, product[p])]
  <2>1. \A op \in Operand : workspace[p][op] = Expected(p, stage[p], op, product[p])
    BY <1>1 DEF IInv, TileInv
  <2>2. QED
    BY <1>1, <2>1, SourcesPrepared DEF IInv, TypeOK
<1>4. /\ Status' = [Status EXCEPT ![p] = "compute"]
      /\ TileView' = [TileView EXCEPT ![p] = workspace[p]]
  BY <1>1 DEF IInv, TypeOK, Status, StatusOf, TileView
<1>5. Status[p] = "active"
  BY <1>1 DEF Status, StatusOf
<1>6. /\ \A op \in Exchange!Operand :
           input[Exchange!Source(p, stage[p], op)] >= product[p]
      /\ workspace[p] = [op \in Exchange!Operand |->
                           Exchange!Expected(p, stage[p], op, product[p])]
  BY <1>3, SamePlan
<1>7. QED
  BY <1>2, <1>4, <1>5, <1>6 DEF Exchange!fetch, Status, TileView

LEMMA ConsumeRefines ==
  ASSUME IInv, NEW p \in Rank, Compute(p) PROVE Exchange!Consume(p)
<1> USE DEF Compute, Goto
<1>1. /\ Status' = [Status EXCEPT ![p] = "active"]
      /\ TileView' = [TileView EXCEPT ![p] = [op \in Operand |-> NoTile]]
  BY DEF IInv, TypeOK, Status, StatusOf, TileView
<1>2. Status[p] = "compute"
  BY DEF Status, StatusOf
<1>3. QED
  BY <1>1, <1>2, SamePlan DEF Exchange!Consume, Status, TileView

LEMMA FinishRefines ==
  ASSUME IInv, NEW p \in Rank, Finish(p) PROVE Exchange!finish(p)
<1> USE DEF Finish, Goto
<1>1. Status' = [Status EXCEPT ![p] = "idle"] /\ TileView' = TileView
  BY DEF IInv, TypeOK, Status, StatusOf, TileView
<1>2. Status[p] = "active"
  BY DEF Status, StatusOf
<1>3. QED
  BY <1>1, <1>2 DEF Exchange!finish, Status, TileView

LEMMA CloseRefines ==
  ASSUME IInv, NEW p \in Rank, Close(p) PROVE Exchange!close(p)
<1> USE DEF Close, Goto
<1>1. Status' = [Status EXCEPT ![p] = "closed"] /\ TileView' = TileView
  BY DEF IInv, TypeOK, Status, StatusOf, TileView
<1>2. Status[p] = "idle"
  BY DEF Status, StatusOf
<1>3. QED
  BY <1>1, <1>2 DEF Exchange!close, Status, TileView

\* The other steps stay inside fetch, or follow it inside a stage.
LEMMA HiddenRefines ==
  ASSUME IInv, NEW p \in Rank,
         Fetch(p) \/ Match(p) \/ Assemble(p) \/ AssembleWait(p)
  PROVE  UNCHANGED Exchange!vars
<1>1. Status' = Status /\ TileView' = TileView
  <2>1. CASE Fetch(p)
    BY <2>1 DEF Fetch, Goto, IInv, TypeOK, Status, StatusOf, TileView
  <2>2. CASE Match(p)
    <3>1. PICK recv \in posted[p] :
            /\ \/ recv[2] = "slice" /\ workspace' = workspace
               \/ /\ recv[2] # "slice"
                  /\ \E t : workspace' = [workspace EXCEPT ![p][recv[2]] = t]
            /\ pc' = pc
      BY <2>2 DEF Match, Operand
    <3>2. workspace' = workspace \/ pc[p] = "waiting"
      BY <3>1, PostedMeans
    <3>3. \A r \in Rank : StatusOf(r) = "compute" => workspace'[r] = workspace[r]
      BY <3>1, <3>2 DEF StatusOf, IInv, TypeOK
    <3>4. QED
      BY <3>1, <3>3 DEF Status, StatusOf, TileView
  <2>3. CASE Assemble(p) \/ AssembleWait(p)
    BY <2>3 DEF Assemble, AssembleWait, Goto, IInv, TypeOK, Status, StatusOf, TileView
  <2>4. QED
    BY <2>1, <2>2, <2>3
<1>2. UNCHANGED <<product, stage, input>>
  BY DEF Fetch, Match, Assemble, AssembleWait
<1>3. QED
  BY <1>1, <1>2 DEF Exchange!vars, Status, TileView

LEMMA NextRefines ==
  IInv /\ [Next]_vars => [Exchange!Next]_(Exchange!vars)
<1> SUFFICES ASSUME IInv, [Next]_vars
             PROVE  [Exchange!Next]_(Exchange!vars)
  OBVIOUS
<1>1. CASE UNCHANGED vars
  <2>1. Status' = Status /\ TileView' = TileView
    BY <1>1 DEF vars, Status, StatusOf, TileView
  <2>2. QED
    BY <1>1, <2>1 DEF vars, Exchange!vars, Status, TileView
<1>2. ASSUME NEW p \in Rank, Step(p)
      PROVE  [Exchange!Next]_(Exchange!vars)
  <2>1. Exchange!Step(p) \/ UNCHANGED Exchange!vars
    BY <1>2, PrepareRefines, BeginRefines, FetchRefines, ConsumeRefines,
       FinishRefines, CloseRefines, HiddenRefines DEF Step, Exchange!Step
  <2>2. QED
    BY <2>1, SamePlan DEF Exchange!Next
<1>3. QED
  BY <1>1, <1>2 DEF Next, Done

\* No message meets another stage's or another product's receive: what a stage
\* multiplies is the tiles its plan names, of the product in progress.
THEOREM Implementation == Spec => ImplementsExchange
BY InitRefines, NextRefines, Invariance, PTL
DEF Spec, ImplementsExchange, Exchange!Spec
=============================================================================
