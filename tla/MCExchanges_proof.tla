-------------------------- MODULE MCExchanges_proof --------------------------
(***************************************************************************)
(* The exchanges of tiles that MCExchanges checks on small instances, for  *)
(* every grid, size of a node, number of products and choice of eager or   *)
(* rendezvous sends: the PUT backend is proved here, the two-sided one,    *)
(* which is there twice, in TridentTwoSided_proof.                         *)
(*                                                                         *)
(* PUT. A stage has two barriers and two reasons for them: before the      *)
(* first an owner may not write into a buffer its target still multiplies, *)
(* before the second a rank may not read what is not complete. Ranks are   *)
(* told apart by the barriers they have entered, which the stage a rank is *)
(* at determines (Entered). A barrier lets a rank go when all others have  *)
(* entered it, so whoever has left one (Left) knows how far everybody is:  *)
(* between the two barriers of a stage all are in that stage of that       *)
(* product (SameStage). Only there are puts issued and performed.          *)
(*                                                                         *)
(* The halos of the baselines, the other behaviours of MCExchanges,        *)
(* compute sums over the entries of a block and are not proved about.      *)
(***************************************************************************)
EXTENDS MCExchanges, TLAPS

Plan == INSTANCE ExecutionPlan_proof

NodesProof == INSTANCE TridentTwoSided_proof

PanelProof == INSTANCE TridentTwoSided_proof WITH
  Side <- 1, NodeSize <- PanelSize, MaxProducts <- PanelProducts

\* The instances are of parameters their modules allow.
LEMMA Assumptions ==
  /\ Plan!GridAssumption /\ Plan!ProductsAssumption
  /\ NodesProof!GridAssumption /\ NodesProof!ProductsAssumption
  /\ NodesProof!SendModesAssumption
  /\ PanelProof!GridAssumption /\ PanelProof!ProductsAssumption
  /\ PanelProof!SendModesAssumption
BY GridAssumption, ProductsAssumption, SendModesAssumption
DEF Plan!GridAssumption, Plan!ProductsAssumption,
    NodesProof!GridAssumption, NodesProof!ProductsAssumption, NodesProof!SendModesAssumption,
    PanelProof!GridAssumption, PanelProof!ProductsAssumption, PanelProof!SendModesAssumption

-----------------------------------------------------------------------------
(* The plan of the PUT backend is the one ExecutionPlan_proof is about.     *)

LEMMA PutPlan ==
  /\ Put!Rank = Plan!Rank /\ Put!Round = Plan!Round /\ Put!Operand = Plan!Operand
  /\ \A r, s, op : Put!Source(r, s, op) = Plan!Source(r, s, op)
  /\ \A r, s, op : Put!Target(r, s, op) = Plan!Target(r, s, op)
BY DEF Put!Rank, Plan!Rank, Put!Coord, Plan!Coord, Put!Round, Plan!Round,
       Put!Operand, Plan!Operand, Put!Source, Plan!Source, Put!Target, Plan!Target,
       Put!aSource, Plan!aSource, Put!bSource, Plan!bSource,
       Put!aTarget, Plan!aTarget, Put!bTarget, Plan!bTarget,
       Put!inner, Plan!inner, Put!wrap, Plan!wrap,
       Put!CRemainder, Plan!CRemainder, Put!rankAt, Plan!rankAt

LEMMA PutSourceInRank ==
  ASSUME NEW r \in Put!Rank, NEW s \in Put!Round, NEW op \in Put!Operand
  PROVE  Put!Source(r, s, op) \in Put!Rank
BY Assumptions, PutPlan, Plan!SourceInRank

LEMMA PutTargetInRank ==
  ASSUME NEW r \in Put!Rank, NEW s \in Put!Round, NEW op \in Put!Operand
  PROVE  Put!Target(r, s, op) \in Put!Rank
BY Assumptions, PutPlan, Plan!TargetInRank

LEMMA PutRemoteNeedsNodes ==
  ASSUME NEW r \in Put!Rank, NEW s \in Put!Round, NEW op \in Put!Operand,
         Put!Source(r, s, op) # r
  PROVE  Side # 1
BY Assumptions, PutPlan, Plan!RemoteNeedsNodes

LEMMA PutTargetsInvertSources ==
  ASSUME NEW r \in Put!Rank, NEW q \in Put!Rank, NEW s \in Put!Round,
         NEW op \in Put!Operand
  PROVE  Put!Target(r, s, op) = q <=> Put!Source(q, s, op) = r
BY Assumptions, PutPlan, Plan!TargetsInvertSources

-----------------------------------------------------------------------------
(* The PUT backend                                                         *)

\* Stages a rank has completed.
Stages(r) ==
  IF pc[r] \in {"idle", "closed"} THEN Plan!Total(product[r], 0)
  ELSE Plan!Total(product[r] - 1, nextStage[r])

\* Barriers a rank has entered, from where it stands.
Entered(r) ==
  IF pc[r] = "written" THEN 2 * Stages(r) + 2
  ELSE IF pc[r] \in {"ready", "putting"} THEN 2 * Stages(r) + 1
  ELSE 2 * Stages(r)

\* Barriers it has left: as many were entered by everybody.
Left(r) ==
  IF pc[r] \in {"putting", "written"} THEN 2 * Stages(r) + 1
  ELSE 2 * Stages(r)

InStage(r) == pc[r] \in {"ready", "putting", "written"}

BarrierInv ==
  /\ \A r \in Put!Rank : entered[r] = Entered(r)
  /\ Side # 1 => \A r, q \in Put!Rank : entered[q] >= Left(r)

StageInv ==
  \A r \in Put!Rank :
    /\ pc[r] \notin {"idle", "closed"} => product[r] >= 1
    /\ InStage(r) => nextStage[r] < Side
    /\ pc[r] = "compute" => nextStage[r] >= 1
    /\ active[r] <=> pc[r] \notin {"idle", "closed"}

InputInv ==
  \A r \in Put!Rank :
    \/ input[r] = product[r]
    \/ pc[r] = "idle" /\ input[r] = product[r] + 1

PutOf(r, op) == [op |-> op, target |-> Put!Target(r, nextStage[r], op)]

PutInv ==
  \A r \in Put!Rank : \A put \in puts[r] :
    /\ pc[r] = "putting"
    /\ put.op \in Put!Operand
    /\ put = PutOf(r, put.op)
    /\ put.target # r

\* A tile of the receive buffers has arrived, is on its way, or its owner has
\* yet to pass the barrier.
Arrives(r, op) ==
  LET q == Put!Source(r, nextStage[r], op)
      expected == Put!Expected(r, nextStage[r], op, product[r])
  IN
  \/ q = r /\ private[r][op] = expected /\ public[r][op] = expected
  \/ q # r /\ Left(q) <= 2 * Stages(r)
  \/ q # r /\ input[q] >= product[r] /\ PutOf(q, op) \in puts[q]
  \/ /\ q # r /\ input[q] >= product[r]
     /\ public[r][op] = expected /\ latest[r][op] = "public"

TileInv ==
  \A r \in Put!Rank :
    /\ InStage(r) => \A op \in Put!Operand :
         Arrives(r, op) /\ latest[r][op] # "private"
    /\ pc[r] = "compute" => \A op \in Put!Operand :
         /\ input[Put!Source(r, nextStage[r] - 1, op)] >= product[r]
         /\ private[r][op] = Put!Expected(r, nextStage[r] - 1, op, product[r])

PutIInv ==
  /\ Put!TypeOK
  /\ BarrierInv
  /\ StageInv
  /\ InputInv
  /\ PutInv
  /\ TileInv

LEMMA StagesInt ==
  ASSUME Put!TypeOK, NEW r \in Put!Rank
  PROVE  Stages(r) \in Int
<1>1. /\ product[r] \in Int /\ product[r] - 1 \in Int /\ nextStage[r] \in Int
      /\ 0 \in Int
  BY ProductsAssumption, GridAssumption DEF Put!TypeOK, Put!Version
<1>2. /\ Plan!Total(product[r], 0) \in Int
      /\ Plan!Total(product[r] - 1, nextStage[r]) \in Int
  BY <1>1, Assumptions, Plan!TotalStep, Zenon
<1>3. QED
  BY <1>2 DEF Stages

\* Between the two barriers of a stage every other rank is in that stage.
LEMMA SameStage ==
  ASSUME Put!TypeOK, BarrierInv, StageInv, Side # 1,
         NEW r \in Put!Rank, NEW q \in Put!Rank, pc[r] = "putting"
  PROVE  /\ InStage(q)
         /\ product[q] = product[r] /\ nextStage[q] = nextStage[r]
<1>1. /\ Stages(r) \in Int /\ Stages(q) \in Int
      /\ pc[q] \in Put!Location
  BY StagesInt DEF Put!TypeOK
<1>2. /\ entered[r] = Entered(r) /\ entered[q] = Entered(q)
      /\ entered[q] >= Left(r) /\ entered[r] >= Left(q)
  BY DEF BarrierInv
<1>3. InStage(q) /\ Stages(q) = Stages(r)
  BY <1>1, <1>2 DEF Entered, Left, Put!Location, InStage
<1>4. /\ product[r] - 1 \in Int /\ product[q] - 1 \in Int
      /\ nextStage[r] \in Put!Round /\ nextStage[q] \in Put!Round
  BY <1>3, ProductsAssumption, GridAssumption
  DEF Put!TypeOK, StageInv, InStage, Put!Version, Put!Round
<1>5. Plan!Total(product[r] - 1, nextStage[r]) = Plan!Total(product[q] - 1, nextStage[q])
  BY <1>3 DEF Stages, InStage
<1>6. product[q] - 1 = product[r] - 1 /\ nextStage[q] = nextStage[r]
  BY <1>4, <1>5, Assumptions, PutPlan, Plan!TotalInjective
<1>7. product[q] \in Int /\ product[r] \in Int
  BY ProductsAssumption DEF Put!TypeOK, Put!Version
<1>8. QED
  BY <1>3, <1>6, <1>7

LEMMA InitPutIInv == Put!Init => PutIInv
<1> SUFFICES ASSUME Put!Init PROVE PutIInv
  OBVIOUS
<1>1. Put!TypeOK
  BY GridAssumption, ProductsAssumption
  DEF Put!Init, Put!TypeOK, Put!Version, Put!Location, Put!TileOrNone
<1>2. BarrierInv
  BY GridAssumption DEF Put!Init, BarrierInv, Entered, Left, Stages, Plan!Total
<1>3. StageInv /\ InputInv /\ PutInv /\ TileInv
  BY DEF Put!Init, StageInv, InputInv, PutInv, TileInv, InStage
<1>4. QED
  BY <1>1, <1>2, <1>3 DEF PutIInv

-----------------------------------------------------------------------------
(* One lemma per action.                                                   *)


\* The barriers after a step of p that leaves the stages of the others alone:
\* p enters one (enters), or leaves one that all have entered.
LEMMA BarriersKept ==
  ASSUME Put!TypeOK, BarrierInv, NEW p \in Put!Rank,
         pc' = [pc EXCEPT ![p] = pc'[p]],
         \A r \in Put!Rank \ {p} : Stages(r)' = Stages(r),
         Stages(p)' \in Int,
         \/ entered' = entered
         \/ entered' = [entered EXCEPT ![p] = @ + 1],
         entered'[p] = Entered(p)',
         \/ Left(p)' <= Left(p)
         \/ Side # 1 => \A q \in Put!Rank : entered[q] >= Left(p)'
  PROVE  BarrierInv'
<1>1. \A r \in Put!Rank : /\ Stages(r) \in Int
                          /\ Stages(r)' \in Int
                          /\ entered[r] \in Int
  BY StagesInt DEF Put!TypeOK
<1>2. \A r \in Put!Rank : entered'[r] = Entered(r)'
  BY DEF BarrierInv, Entered, Put!TypeOK
<1>3. \A r \in Put!Rank : entered'[r] >= entered[r]
  <2>1. CASE entered' = entered
    BY <1>1, <2>1
  <2>2. CASE entered' = [entered EXCEPT ![p] = @ + 1]
    BY <1>1, <2>2 DEF Put!TypeOK
  <2>3. QED
    BY <2>1, <2>2
<1>4. \A r \in Put!Rank \ {p} : Left(r)' = Left(r)
  BY DEF Left, Put!TypeOK
<1>5. \A r \in Put!Rank : Left(r) \in Int /\ Left(r)' \in Int /\ entered'[r] \in Int
  BY <1>1 DEF Left, Put!TypeOK
<1>6. ASSUME Side # 1, NEW r \in Put!Rank, NEW q \in Put!Rank
      PROVE  entered'[q] >= Left(r)'
  <2>1. entered[q] >= Left(r)
    BY <1>6 DEF BarrierInv
  <2>2. CASE r = p
    BY <1>1, <1>3, <1>5, <1>6, <2>1, <2>2
  <2>3. CASE r # p
    BY <1>1, <1>3, <1>4, <1>5, <2>1, <2>3
  <2>4. QED
    BY <2>2, <2>3
<1>7. QED
  BY <1>2, <1>6 DEF BarrierInv

LEMMA PrepareStep ==
  ASSUME PutIInv, NEW p \in Put!Rank, Put!PrepareInputs(p) PROVE PutIInv'
<1> USE DEF Put!PrepareInputs, Put!receiver
<1>1. Put!TypeOK'
  BY ProductsAssumption DEF PutIInv, Put!TypeOK, Put!Version
<1>2. BarrierInv' /\ StageInv' /\ PutInv'
  BY DEF PutIInv, BarrierInv, Entered, Left, Stages, StageInv, InStage, PutInv,
         PutOf
<1>3. InputInv'
  BY DEF PutIInv, InputInv, Put!TypeOK
<1>4. TileInv'
  <2>1. \A r \in Put!Rank : input'[r] \in Int /\ input[r] \in Int /\ input'[r] >= input[r]
    BY ProductsAssumption DEF PutIInv, Put!TypeOK, Put!Version
  <2>2. \A r \in Put!Rank : product[r] \in Int
    BY ProductsAssumption DEF PutIInv, Put!TypeOK, Put!Version
  <2>3. ASSUME NEW r \in Put!Rank, InStage(r), NEW op \in Put!Operand, Arrives(r, op)
        PROVE  Arrives(r, op)'
    <3>1. nextStage[r] \in Put!Round
      BY <2>3, GridAssumption DEF PutIInv, StageInv, Put!TypeOK, Put!Round
    <3>2. Put!Source(r, nextStage[r], op) \in Put!Rank
      BY <3>1, PutSourceInRank
    <3>3. QED
      BY <2>1, <2>2, <2>3, <3>2 DEF Arrives, Left, Stages, PutOf
  <2>4. ASSUME NEW r \in Put!Rank, pc[r] = "compute", NEW op \in Put!Operand
        PROVE  input'[Put!Source(r, nextStage[r] - 1, op)] >= product[r]
    <3>1. nextStage[r] - 1 \in Put!Round
      BY <2>4, GridAssumption DEF PutIInv, StageInv, Put!TypeOK, Put!Round
    <3>2. Put!Source(r, nextStage[r] - 1, op) \in Put!Rank
      BY <3>1, PutSourceInRank
    <3>3. QED
      BY <2>1, <2>2, <2>4, <3>2 DEF PutIInv, TileInv
  <2>5. QED
    BY <2>3, <2>4 DEF PutIInv, TileInv, InStage
<1>5. QED
  BY <1>1, <1>2, <1>3, <1>4 DEF PutIInv

\* A tile that arrives still does after a step that leaves its buffer alone,
\* moves nobody through a barrier "receivers ready" and performs no put.
LEMMA ArrivesKept ==
  ASSUME Put!TypeOK, NEW r \in Put!Rank, NEW op \in Put!Operand, nextStage[r] \in Put!Round,
         Arrives(r, op), input' = input,
         product'[r] = product[r], nextStage'[r] = nextStage[r],
         Stages(r)' = Stages(r),
         private'[r][op] = private[r][op], public'[r][op] = public[r][op],
         latest'[r][op] = latest[r][op],
         \A q \in Put!Rank : /\ Left(q)' = Left(q) 
                             /\ PutOf(q, op) \in puts[q] => PutOf(q, op)' \in puts'[q]
  PROVE  Arrives(r, op)'
<1>1. Put!Source(r, nextStage[r], op) \in Put!Rank
  BY PutSourceInRank
<1>2. QED
  BY <1>1 DEF Arrives

\* Where a rank in a stage stands in its product.
LEMMA StageInRound ==
  ASSUME Put!TypeOK, StageInv, NEW r \in Put!Rank, InStage(r)
  PROVE  nextStage[r] \in Put!Round
BY GridAssumption DEF Put!TypeOK, StageInv, Put!Round

LEMMA BeginStep ==
  ASSUME PutIInv, NEW p \in Put!Rank, Put!Begin(p) PROVE PutIInv'
<1> USE DEF Put!Begin, Put!Goto, Put!receiver
<1>0. /\ product[p] \in Nat /\ product'[p] = product[p] + 1
      /\ nextStage'[p] = 0 /\ pc'[p] = "fetch"
      /\ \A r \in Put!Rank \ {p} : product'[r] = product[r] /\ nextStage'[r] = nextStage[r] /\ pc'[r] = pc[r]
  BY ProductsAssumption DEF PutIInv, Put!TypeOK, Put!Version
<1>1. Put!TypeOK'
  BY ProductsAssumption, GridAssumption
  DEF PutIInv, Put!TypeOK, Put!Version, Put!Location
<1>2. \A r \in Put!Rank : Stages(r)' = Stages(r)
  <2>1. product'[p] - 1 = product[p]
    BY <1>0
  <2>2. QED
    BY <1>0, <2>1 DEF Stages
<1>3. BarrierInv'
  <2>1. entered'[p] = Entered(p)'
    BY <1>0, <1>2 DEF PutIInv, BarrierInv, Entered
  <2>2. Left(p)' <= Left(p) /\ Stages(p)' \in Int
    BY <1>0, <1>2, StagesInt DEF PutIInv, Left
  <2>3. pc' = [pc EXCEPT ![p] = pc'[p]] /\ entered' = entered
    BY <1>0
  <2>4. QED
    BY <1>2, <2>1, <2>2, <2>3, BarriersKept DEF PutIInv
<1>4. StageInv' /\ InputInv'
  <2>1. active'[p] /\ \A r \in Put!Rank \ {p} : active'[r] = active[r]
    BY DEF PutIInv, Put!TypeOK
  <2>2. StageInv'
    BY <1>0, <2>1 DEF PutIInv, StageInv, InStage
  <2>3. InputInv'
    BY <1>0 DEF PutIInv, InputInv
  <2>4. QED
    BY <2>2, <2>3
<1>5. PutInv'
  BY <1>0 DEF PutIInv, PutInv, PutOf
<1>6. TileInv'
  <2>1. \A q \in Put!Rank : Left(q)' = Left(q)
    BY <1>0, <1>2 DEF Left
  <2>2. \A q \in Put!Rank, op \in Put!Operand :
          PutOf(q, op) \in puts[q] => PutOf(q, op)' \in puts'[q]
    BY <1>0 DEF PutOf, PutIInv, PutInv
  <2>3. ASSUME NEW r \in Put!Rank, InStage(r)', NEW op \in Put!Operand
        PROVE  Arrives(r, op)' /\ latest'[r][op] # "private"
    <3>1. r # p /\ InStage(r)
      BY <1>0, <2>3 DEF InStage
    <3>2. nextStage[r] \in Put!Round
      BY <3>1, StageInRound DEF PutIInv
    <3>3. Arrives(r, op) /\ latest[r][op] # "private"
      BY <3>1 DEF PutIInv, TileInv
    <3>4. QED
      BY <1>0, <1>2, <2>1, <2>2, <3>1, <3>2, <3>3, ArrivesKept DEF PutIInv
  <2>4. \A r \in Put!Rank : pc'[r] = "compute" => r # p
    BY <1>0
  <2>5. QED
    BY <1>0, <2>3, <2>4 DEF PutIInv, TileInv
<1>7. QED
  BY <1>1, <1>3, <1>4, <1>5, <1>6 DEF PutIInv

LEMMA FetchEnterStep ==
  ASSUME PutIInv, NEW p \in Put!Rank, Put!FetchEnter(p) PROVE PutIInv'
<1> USE DEF Put!FetchEnter, Put!Goto, Put!syncStores, Put!EnterBarrier, Put!MoreStages
<1>0. /\ pc[p] = "fetch" /\ pc'[p] = "ready" /\ nextStage[p] \in Put!Round
      /\ nextStage[p] < Side
      /\ entered'[p] = entered[p] + 1 /\ entered[p] \in Nat
      /\ private'[p] = Put!Stored(p) /\ public'[p] = Put!Stored(p)
      /\ latest'[p] = [op \in Put!Operand |-> "both"]
      /\ \A r \in Put!Rank \ {p} : /\ pc'[r] = pc[r]
                                   /\ private'[r] = private[r]
                                   /\ public'[r] = public[r]
                                   /\ latest'[r] = latest[r]
  BY GridAssumption DEF PutIInv, Put!TypeOK, Put!Round
<1>1. Put!TypeOK'
  <2>1. Put!Stored(p) \in [Put!Operand -> Put!TileOrNone]
    BY DEF PutIInv, Put!TypeOK, Put!Stored, Put!Tile, Put!TileOrNone
  <2>2. private' \in [Put!Rank -> [Put!Operand -> Put!TileOrNone]]
    BY <2>1 DEF PutIInv, Put!TypeOK
  <2>3. public' \in [Put!Rank -> [Put!Operand -> Put!TileOrNone]]
    BY <2>1 DEF PutIInv, Put!TypeOK
  <2>4. QED
    BY <2>2, <2>3 DEF PutIInv, Put!TypeOK, Put!Location
<1>2. \A r \in Put!Rank : Stages(r)' = Stages(r)
  BY <1>0 DEF Stages
<1>3. Stages(p) \in Int
  BY StagesInt DEF PutIInv
<1>4. \A r \in Put!Rank : Left(r)' = Left(r)
  BY <1>0, <1>2 DEF Left
<1>5. BarrierInv'
  <2>1. entered'[p] = Entered(p)'
    BY <1>0, <1>2, <1>3 DEF PutIInv, BarrierInv, Entered
  <2>2. Left(p)' <= Left(p) /\ Stages(p)' \in Int
    BY <1>0, <1>2, <1>3, <1>4 DEF Left
  <2>3. pc' = [pc EXCEPT ![p] = pc'[p]]
    BY <1>0
  <2>4. QED
    BY <1>2, <2>1, <2>2, <2>3, BarriersKept DEF PutIInv
<1>6. StageInv' /\ InputInv' /\ PutInv'
  BY <1>0 DEF PutIInv, StageInv, InStage, InputInv, PutInv, PutOf
<1>7. TileInv'
  <2>1. \A q \in Put!Rank, op \in Put!Operand :
          PutOf(q, op) \in puts[q] => PutOf(q, op)' \in puts'[q]
    BY DEF PutOf
  <2>2. ASSUME NEW r \in Put!Rank \ {p}, InStage(r)', NEW op \in Put!Operand
        PROVE  Arrives(r, op)' /\ latest'[r][op] # "private"
    <3>1. InStage(r)
      BY <1>0, <2>2 DEF InStage
    <3>2. nextStage[r] \in Put!Round
      BY <3>1, StageInRound DEF PutIInv
    <3>3. Arrives(r, op) /\ latest[r][op] # "private"
      BY <3>1 DEF PutIInv, TileInv
    <3>4. QED
      BY <1>0, <1>2, <1>4, <2>1, <3>2, <3>3, ArrivesKept DEF PutIInv
  <2>3. ASSUME NEW op \in Put!Operand
        PROVE  Arrives(p, op)' /\ latest'[p][op] # "private"
    <3> DEFINE q == Put!Source(p, nextStage[p], op)
    <3>1. q \in Put!Rank
      BY <1>0, PutSourceInRank
    <3>2. CASE q = p
      <4>1. input[p] = product[p]
        BY <1>0 DEF PutIInv, InputInv
      <4>2. private'[p][op] = Put!Tile(p, input[p]) /\ public'[p][op] = Put!Tile(p, input[p])
        BY <1>0, <3>2 DEF Put!Stored
      <4>3. QED
        BY <1>0, <3>2, <4>1, <4>2 DEF Arrives, Put!Expected
    <3>3. CASE q # p
      <4>1. Side # 1
        BY <1>0, <3>3, PutRemoteNeedsNodes
      <4>2. entered[p] >= Left(q) /\ entered[p] = 2 * Stages(p)
        BY <1>0, <3>1, <4>1 DEF PutIInv, BarrierInv, Entered
      <4>3. Left(q)' <= 2 * Stages(p)'
        BY <1>2, <1>4, <3>1, <4>2
      <4>4. QED
        BY <1>0, <3>3, <4>3 DEF Arrives
    <3>4. QED
      BY <3>2, <3>3
  <2>4. \A r \in Put!Rank : pc'[r] = "compute" => r # p
    BY <1>0
  <2>5. QED
    BY <1>0, <2>2, <2>3, <2>4 DEF PutIInv, TileInv
<1>8. QED
  BY <1>1, <1>5, <1>6, <1>7 DEF PutIInv

LEMMA FetchPutStep ==
  ASSUME PutIInv, NEW p \in Put!Rank, Put!FetchPut(p) PROVE PutIInv'
<1> USE DEF Put!FetchPut, Put!Goto, Put!receiver, Put!receiversReady, Put!AllEntered
<1>0. /\ pc[p] = "ready" /\ pc'[p] = "putting" /\ nextStage[p] \in Put!Round
      /\ \A r \in Put!Rank \ {p} : pc'[r] = pc[r] /\ puts'[r] = puts[r]
      /\ puts'[p] = {PutOf(p, op) : op \in {o \in Put!Operand : Put!Target(p, nextStage[p], o) # p}}
  BY GridAssumption DEF PutIInv, Put!TypeOK, StageInv, InStage, Put!Round, PutOf
<1>1. Put!TypeOK'
  <2>1. \A op \in Put!Operand : PutOf(p, op) \in Put!Put
    BY <1>0, PutTargetInRank DEF PutOf, Put!Put
  <2>2. puts'[p] \in SUBSET Put!Put
    BY <1>0, <2>1
  <2>3. puts' \in [Put!Rank -> SUBSET Put!Put]
    BY <2>2 DEF PutIInv, Put!TypeOK
  <2>4. QED
    BY <2>3 DEF PutIInv, Put!TypeOK, Put!Location
<1>2. \A r \in Put!Rank : Stages(r)' = Stages(r)
  BY <1>0 DEF Stages
<1>3. Stages(p) \in Int
  BY StagesInt DEF PutIInv
<1>4. \A r \in Put!Rank \ {p} : Left(r)' = Left(r)
  BY <1>0, <1>2 DEF Left
<1>5. BarrierInv'
  <2>1. entered[p] = 2 * Stages(p) + 1
    BY <1>0 DEF PutIInv, BarrierInv, Entered
  <2>2. entered'[p] = Entered(p)'
    BY <1>0, <1>2, <2>1 DEF Entered
  <2>3. Side # 1 => \A q \in Put!Rank : entered[q] >= Left(p)'
    BY <1>0, <1>2, <2>1 DEF Left
  <2>4. pc' = [pc EXCEPT ![p] = pc'[p]] /\ entered' = entered
    BY <1>0
  <2>5. Stages(p)' \in Int
    BY <1>2, <1>3
  <2>6. QED
    BY <1>2, <2>2, <2>3, <2>4, <2>5, BarriersKept DEF PutIInv
<1>6. StageInv' /\ InputInv'
  BY <1>0 DEF PutIInv, StageInv, InStage, InputInv
<1>7. PutInv'
  BY <1>0 DEF PutIInv, PutInv, PutOf
<1>8. TileInv'
  <2>1. ASSUME NEW r \in Put!Rank, InStage(r)', NEW op \in Put!Operand
        PROVE  Arrives(r, op)' /\ latest'[r][op] # "private"
    <3> DEFINE q == Put!Source(r, nextStage[r], op)
    <3>1. InStage(r)
      BY <1>0, <2>1 DEF InStage
    <3>2. nextStage[r] \in Put!Round /\ q \in Put!Rank
      BY <3>1, StageInRound, PutSourceInRank DEF PutIInv
    <3>3. Arrives(r, op) /\ latest[r][op] # "private"
      BY <3>1 DEF PutIInv, TileInv
    <3>4. CASE q # p
      BY <1>0, <1>2, <1>4, <3>2, <3>3, <3>4 DEF Arrives, PutOf
    <3>5. CASE q = p /\ r = p
      BY <1>0, <3>3, <3>5 DEF Arrives
    <3>6. CASE q = p /\ r # p
      <4>1. Side # 1
        BY <3>2, <3>6, PutRemoteNeedsNodes
      <4>2. CASE \E put \in puts[p] : TRUE
        BY <1>0, <4>2 DEF PutIInv, PutInv
      <4>3. CASE Left(p) <= 2 * Stages(r)
        <5>1. InStage(r) /\ product[r] = product[p] /\ nextStage[r] = nextStage[p]
          <6>1. pc[r] \in Put!Location /\ Stages(r) \in Int
            BY StagesInt DEF PutIInv, Put!TypeOK
          <6>2. /\ entered[r] >= entered[p] /\ entered[p] >= Left(r)
                /\ entered[p] = 2 * Stages(p) + 1
                /\ entered[r] = Entered(r)
            BY <1>0, <4>1 DEF PutIInv, BarrierInv, Entered
          <6>3. Stages(r) = Stages(p)
            BY <1>3, <3>1, <6>1, <6>2 DEF Entered, Left, InStage
          <6>4. /\ product[r] - 1 \in Int /\ product[p] - 1 \in Int
                /\ product[r] \in Int /\ product[p] \in Int
            BY ProductsAssumption DEF PutIInv, Put!TypeOK, Put!Version
          <6>5. Plan!Total(product[r] - 1, nextStage[r]) = Plan!Total(product[p] - 1, nextStage[p])
            BY <1>0, <3>1, <6>3 DEF Stages, InStage
          <6>6. product[r] - 1 = product[p] - 1 /\ nextStage[r] = nextStage[p]
            BY <1>0, <3>2, <6>4, <6>5, Assumptions, PutPlan,
               Plan!TotalInjective
          <6>7. QED
            BY <3>1, <6>4, <6>6
        <5>2. Put!Target(p, nextStage[p], op) = r
          BY <1>0, <3>6, <5>1, PutTargetsInvertSources
        <5>3. PutOf(p, op)' \in puts'[p]
          BY <1>0, <3>6, <5>2 DEF PutOf
        <5>4. input[p] = product[p] /\ product[p] \in Int
          BY <1>0, ProductsAssumption DEF PutIInv, InputInv, Put!TypeOK, Put!Version
        <5>5. QED
          BY <3>3, <3>6, <5>1, <5>3, <5>4 DEF Arrives
      <4>4. CASE /\ input[q] >= product[r]
                 /\ public[r][op] = Put!Expected(r, nextStage[r], op, product[r])
                 /\ latest[r][op] = "public"
        BY <3>3, <3>6, <4>4 DEF Arrives
      <4>5. QED
        BY <3>3, <3>6, <4>2, <4>3, <4>4 DEF Arrives
    <3>7. QED
      BY <3>4, <3>5, <3>6
  <2>2. QED
    BY <1>0, <2>1 DEF PutIInv, TileInv
<1>9. QED
  BY <1>1, <1>5, <1>6, <1>7, <1>8 DEF PutIInv

\* Whoever a put in flight goes to is in the same stage, and expects it.
LEMMA PutExpected ==
  ASSUME PutIInv, NEW p \in Put!Rank, NEW put \in puts[p]
  PROVE  /\ pc[p] = "putting" /\ put.op \in Put!Operand /\ put = PutOf(p, put.op)
         /\ put.target \in Put!Rank \ {p}
         /\ InStage(put.target)
         /\ nextStage[put.target] \in Put!Round
         /\ Put!Source(put.target, nextStage[put.target], put.op) = p
         /\ latest[put.target][put.op] # "private"
         /\ Put!Tile(p, input[p]) = Put!Expected(put.target, nextStage[put.target],
                                         put.op, product[put.target])
<1> DEFINE q == put.target
<1>1. /\ pc[p] = "putting" /\ put.op \in Put!Operand /\ put = PutOf(p, put.op)
      /\ q # p /\ q = Put!Target(p, nextStage[p], put.op)
  BY DEF PutIInv, PutInv, PutOf
<1>2. nextStage[p] \in Put!Round
  BY <1>1, StageInRound DEF PutIInv, InStage
<1>3. q \in Put!Rank
  BY <1>1, <1>2, PutTargetInRank
<1>4. Put!Source(q, nextStage[p], put.op) = p
  BY <1>1, <1>2, <1>3, PutTargetsInvertSources
<1>5. Side # 1
  BY <1>1, <1>2, <1>3, <1>4, PutRemoteNeedsNodes
<1>6. InStage(q) /\ product[q] = product[p] /\ nextStage[q] = nextStage[p]
  BY <1>1, <1>3, <1>5, SameStage DEF PutIInv
<1>7. latest[q][put.op] # "private"
  BY <1>1, <1>3, <1>6 DEF PutIInv, TileInv
<1>8. input[p] = product[p]
  BY <1>1 DEF PutIInv, InputInv
<1>9. Put!Tile(p, input[p]) = Put!Expected(q, nextStage[q], put.op, product[q])
  BY <1>4, <1>6, <1>8 DEF Put!Expected
<1>10. QED
  BY <1>1, <1>2, <1>3, <1>4, <1>6, <1>7, <1>9

LEMMA PerformPutStep ==
  ASSUME PutIInv, NEW p \in Put!Rank, Put!PerformPut(p) PROVE PutIInv'
<1>0. PICK put \in puts[p] :
        LET q == put.target
            t == IF latest[q][put.op] = "private" THEN NoTile ELSE Put!Tile(p, input[p])
        IN
        /\ public' = [public EXCEPT ![q][put.op] = t]
        /\ private' \in {private, [private EXCEPT ![q][put.op] = t]}
        /\ latest' = [latest EXCEPT ![q][put.op] = "public"]
        /\ puts' = [puts EXCEPT ![p] = @ \ {put}]
        /\ UNCHANGED <<pc, product, nextStage, active, entered, input>>
  BY DEF Put!PerformPut
<1> DEFINE q == put.target
           t == Put!Tile(p, input[p])
<1>1. /\ pc[p] = "putting" /\ put.op \in Put!Operand /\ put = PutOf(p, put.op)
      /\ q \in Put!Rank \ {p}
      /\ InStage(q)
      /\ nextStage[q] \in Put!Round
      /\ Put!Source(q, nextStage[q], put.op) = p
      /\ latest[q][put.op] # "private"
      /\ t = Put!Expected(q, nextStage[q], put.op, product[q])
  BY PutExpected
<1>2. /\ public' = [public EXCEPT ![q][put.op] = t]
      /\ private' \in {private, [private EXCEPT ![q][put.op] = t]}
      /\ latest' = [latest EXCEPT ![q][put.op] = "public"]
      /\ puts' = [puts EXCEPT ![p] = @ \ {put}]
      /\ UNCHANGED <<pc, product, nextStage, active, entered, input>>
  BY <1>0, <1>1
<1>3. t \in Put!TileOrNone
  BY DEF PutIInv, Put!TypeOK, Put!Tile, Put!TileOrNone
<1> HIDE DEF q, t
<1>4. Put!TypeOK'
  <2>1. public' \in [Put!Rank -> [Put!Operand -> Put!TileOrNone]]
    BY <1>1, <1>2, <1>3 DEF PutIInv, Put!TypeOK
  <2>2. private' \in [Put!Rank -> [Put!Operand -> Put!TileOrNone]]
    <3>1. CASE private' = private
      BY <3>1 DEF PutIInv, Put!TypeOK
    <3>2. CASE private' = [private EXCEPT ![q][put.op] = t]
      BY <1>1, <1>3, <3>2 DEF PutIInv, Put!TypeOK
    <3>3. QED
      BY <1>2, <3>1, <3>2
  <2>3. latest' \in [Put!Rank -> [Put!Operand -> {"both", "private", "public"}]]
    BY <1>1, <1>2 DEF PutIInv, Put!TypeOK
  <2>4. QED
    BY <1>2, <2>1, <2>2, <2>3 DEF PutIInv, Put!TypeOK
<1>5. BarrierInv' /\ StageInv' /\ InputInv'
  BY <1>2 DEF PutIInv, BarrierInv, Entered, Left, Stages, StageInv, InStage,
              InputInv
<1>6. PutInv'
  BY <1>2 DEF PutIInv, PutInv, PutOf, Put!TypeOK
<1>7. \A r \in Put!Rank, op \in Put!Operand : r # q \/ op # put.op =>
        /\ private'[r][op] = private[r][op]
        /\ public'[r][op] = public[r][op]
        /\ latest'[r][op] = latest[r][op]
  BY <1>1, <1>2 DEF PutIInv, Put!TypeOK
<1>8. TileInv'
  <2>1. ASSUME NEW r \in Put!Rank, InStage(r)', NEW op \in Put!Operand
        PROVE  Arrives(r, op)' /\ latest'[r][op] # "private"
    <3>1. InStage(r) /\ nextStage[r] \in Put!Round
      BY <1>2, <2>1, StageInRound DEF PutIInv, InStage
    <3>2. Arrives(r, op) /\ latest[r][op] # "private"
      BY <3>1 DEF PutIInv, TileInv
    <3>3. CASE r = q /\ op = put.op
      <4>1. public'[r][op] = t /\ latest'[r][op] = "public"
        BY <1>1, <1>2, <3>3 DEF PutIInv, Put!TypeOK
      <4>2. input[p] = product[r] /\ product[r] \in Int
        BY <1>1, <3>3, ProductsAssumption
        DEF t, Put!Expected, Put!Tile, PutIInv, Put!TypeOK, Put!Version
      <4>3. QED
        BY <1>1, <1>2, <3>3, <4>1, <4>2 DEF Arrives
    <3>4. CASE r # q \/ op # put.op
      <4> DEFINE s == Put!Source(r, nextStage[r], op)
      <4>1. s \in Put!Rank
        BY <3>1, PutSourceInRank
      <4>2. /\ private'[r][op] = private[r][op]
            /\ public'[r][op] = public[r][op]
            /\ latest'[r][op] = latest[r][op]
        BY <1>7, <3>4
      <4>3. ASSUME s # r, PutOf(s, op) \in puts[s] PROVE PutOf(s, op) \in puts'[s]
        <5>1. CASE s # p
          BY <1>2, <4>1, <4>3, <5>1 DEF PutIInv, Put!TypeOK
        <5>2. CASE s = p /\ op # put.op
          BY <1>1, <1>2, <4>1, <4>3, <5>2 DEF PutIInv, Put!TypeOK, PutOf
        <5>3. CASE s = p /\ op = put.op /\ r # q
          <6>1. pc[p] = "putting" /\ Side # 1
            BY <1>1, <3>1, <4>3, <5>3, PutRemoteNeedsNodes
          <6>2. nextStage[r] = nextStage[p]
            BY <6>1, SameStage DEF PutIInv
          <6>3. Put!Target(p, nextStage[p], op) = r
            BY <3>1, <5>3, <6>2, PutTargetsInvertSources
          <6>4. q = r
            BY <1>1, <5>3, <6>3 DEF PutOf, q
          <6>5. QED
            BY <5>3, <6>4
        <5>4. QED
          BY <3>4, <5>1, <5>2, <5>3
      <4>4. QED
        BY <1>2, <3>2, <4>1, <4>2, <4>3 DEF Arrives, Left, Stages, PutOf
    <3>5. QED
      BY <3>3, <3>4
  <2>2. ASSUME NEW r \in Put!Rank, pc'[r] = "compute", NEW op \in Put!Operand
        PROVE  /\ input'[Put!Source(r, nextStage'[r] - 1, op)] >= product'[r]
               /\ private'[r][op] = Put!Expected(r, nextStage'[r] - 1, op, product'[r])
    <3>1. r # q
      BY <1>1, <1>2, <2>2 DEF InStage
    <3>2. QED
      BY <1>2, <1>7, <2>2, <3>1 DEF PutIInv, TileInv
  <2>3. QED
    BY <2>1, <2>2 DEF TileInv
<1>9. QED
  BY <1>4, <1>5, <1>6, <1>8 DEF PutIInv

LEMMA FetchFlushStep ==
  ASSUME PutIInv, NEW p \in Put!Rank, Put!FetchFlush(p) PROVE PutIInv'
<1> USE DEF Put!FetchFlush, Put!Goto, Put!receiver, Put!EnterBarrier
<1>0. /\ pc[p] = "putting" /\ pc'[p] = "written" /\ puts[p] = {}
      /\ entered'[p] = entered[p] + 1 /\ entered[p] \in Nat
      /\ \A r \in Put!Rank \ {p} : pc'[r] = pc[r]
  BY DEF PutIInv, Put!TypeOK
<1>1. Put!TypeOK'
  BY DEF PutIInv, Put!TypeOK, Put!Location
<1>2. \A r \in Put!Rank : Stages(r)' = Stages(r)
  BY <1>0 DEF Stages
<1>3. Stages(p) \in Int
  BY StagesInt DEF PutIInv
<1>4. \A r \in Put!Rank : Left(r)' = Left(r)
  BY <1>0, <1>2 DEF Left
<1>5. BarrierInv'
  <2>1. entered'[p] = Entered(p)'
    BY <1>0, <1>2, <1>3 DEF PutIInv, BarrierInv, Entered
  <2>2. Left(p)' <= Left(p) /\ Stages(p)' \in Int
    BY <1>0, <1>2, <1>3, <1>4 DEF Left
  <2>3. pc' = [pc EXCEPT ![p] = pc'[p]]
    BY <1>0
  <2>4. QED
    BY <1>2, <2>1, <2>2, <2>3, BarriersKept DEF PutIInv
<1>6. StageInv' /\ InputInv' /\ PutInv'
  BY <1>0 DEF PutIInv, StageInv, InStage, InputInv, PutInv, PutOf
<1>7. TileInv'
  <2>1. \A q \in Put!Rank, op \in Put!Operand :
          PutOf(q, op) \in puts[q] => PutOf(q, op)' \in puts'[q]
    BY DEF PutOf
  <2>2. ASSUME NEW r \in Put!Rank, InStage(r)', NEW op \in Put!Operand
        PROVE  Arrives(r, op)' /\ latest'[r][op] # "private"
    <3>1. InStage(r)
      BY <1>0, <2>2 DEF InStage
    <3>2. nextStage[r] \in Put!Round
      BY <3>1, StageInRound DEF PutIInv
    <3>3. Arrives(r, op) /\ latest[r][op] # "private"
      BY <3>1 DEF PutIInv, TileInv
    <3>4. QED
      BY <1>0, <1>2, <1>4, <2>1, <3>2, <3>3, ArrivesKept DEF PutIInv
  <2>3. QED
    BY <1>0, <2>2 DEF PutIInv, TileInv
<1>8. QED
  BY <1>1, <1>5, <1>6, <1>7 DEF PutIInv

LEMMA FetchLeaveStep ==
  ASSUME PutIInv, NEW p \in Put!Rank, Put!FetchLeave(p) PROVE PutIInv'
<1> USE DEF Put!FetchLeave, Put!Goto, Put!syncReceivers, Put!writersDone, Put!AllEntered
<1>0. /\ pc[p] = "written" /\ pc'[p] = "compute"
      /\ nextStage[p] \in Put!Round /\ nextStage[p] < Side
      /\ nextStage'[p] = nextStage[p] + 1
      /\ private'[p] = Put!Synced(p)
      /\ \A r \in Put!Rank \ {p} : /\ pc'[r] = pc[r]
                                   /\ nextStage'[r] = nextStage[r]
                                   /\ private'[r] = private[r]
                                   /\ public'[r] = public[r]
                                   /\ latest'[r] = latest[r]
  BY GridAssumption DEF PutIInv, Put!TypeOK, StageInv, InStage, Put!Round
<1>1. Put!TypeOK'
  <2>1. Put!Synced(p) \in [Put!Operand -> Put!TileOrNone]
    BY DEF PutIInv, Put!TypeOK, Put!Synced
  <2>2. /\ private' \in [Put!Rank -> [Put!Operand -> Put!TileOrNone]]
        /\ public' \in [Put!Rank -> [Put!Operand -> Put!TileOrNone]]
        /\ latest' \in [Put!Rank -> [Put!Operand -> {"both", "private", "public"}]]
    BY <2>1 DEF PutIInv, Put!TypeOK
  <2>3. nextStage' \in [Put!Rank -> 0 .. Side]
    BY <1>0, GridAssumption DEF PutIInv, Put!TypeOK
  <2>4. QED
    BY <2>2, <2>3 DEF PutIInv, Put!TypeOK, Put!Location
<1>2. \A r \in Put!Rank \ {p} : Stages(r)' = Stages(r)
  BY <1>0 DEF Stages
<1>3. Stages(p) \in Int /\ Stages(p)' = Stages(p) + 1
  <2>1. product[p] - 1 \in Int /\ nextStage[p] \in Int
    BY <1>0, ProductsAssumption DEF PutIInv, Put!TypeOK, Put!Version, Put!Round
  <2>2. Plan!Total(product[p] - 1, nextStage[p] + 1) = Plan!Total(product[p] - 1, nextStage[p]) + 1
    BY <2>1, Assumptions, Plan!TotalStep, Zenon
  <2>3. QED
    BY <1>0, <2>2, StagesInt DEF PutIInv, Stages
<1>4. \A r \in Put!Rank \ {p} : Left(r)' = Left(r)
  BY <1>0, <1>2 DEF Left
<1>5. Left(p) = 2 * Stages(p) + 1 /\ Left(p)' = 2 * Stages(p) + 2
  BY <1>0, <1>3 DEF Left
<1>6. entered[p] = 2 * Stages(p) + 2
  BY <1>0 DEF PutIInv, BarrierInv, Entered
<1>7. BarrierInv'
  <2>1. entered'[p] = Entered(p)'
    BY <1>0, <1>3, <1>6 DEF Entered
  <2>2. Side # 1 => \A q \in Put!Rank : entered[q] >= Left(p)'
    BY <1>5, <1>6
  <2>3. pc' = [pc EXCEPT ![p] = pc'[p]] /\ entered' = entered
    BY <1>0
  <2>4. Stages(p)' \in Int
    BY <1>3
  <2>5. QED
    BY <1>2, <2>1, <2>2, <2>3, <2>4, BarriersKept DEF PutIInv
<1>8. puts[p] = {}
  BY <1>0 DEF PutIInv, PutInv
<1>9. StageInv' /\ InputInv'
  BY <1>0 DEF PutIInv, StageInv, InStage, InputInv, Put!Round
<1>10. PutInv'
  BY <1>0, <1>8 DEF PutIInv, PutInv, PutOf
<1>11. TileInv'
  <2>1. ASSUME NEW r \in Put!Rank, InStage(r)', NEW op \in Put!Operand
        PROVE  Arrives(r, op)' /\ latest'[r][op] # "private"
    <3> DEFINE q == Put!Source(r, nextStage[r], op)
    <3>1. r # p /\ InStage(r) /\ nextStage'[r] = nextStage[r]
      BY <1>0, <2>1 DEF InStage
    <3>2. nextStage[r] \in Put!Round /\ q \in Put!Rank /\ Stages(r) \in Int
      BY <3>1, StageInRound, PutSourceInRank, StagesInt DEF PutIInv
    <3>3. Arrives(r, op) /\ latest[r][op] # "private"
      BY <3>1 DEF PutIInv, TileInv
    <3>4. CASE q # p
      BY <1>0, <1>2, <1>4, <3>1, <3>2, <3>3, <3>4 DEF Arrives, PutOf
    <3>5. CASE q = p
      <4>1. Left(p) <= 2 * Stages(r) => Left(p)' <= 2 * Stages(r)
        BY <1>3, <1>5, <3>2
      <4>2. QED
        BY <1>0, <1>2, <1>8, <3>1, <3>3, <3>5, <4>1 DEF Arrives
    <3>6. QED
      BY <3>4, <3>5
  <2>2. ASSUME NEW op \in Put!Operand
        PROVE  /\ input[Put!Source(p, nextStage[p], op)] >= product[p]
               /\ Put!Synced(p)[op] = Put!Expected(p, nextStage[p], op, product[p])
    <3> DEFINE q == Put!Source(p, nextStage[p], op)
    <3>1. q \in Put!Rank /\ Stages(q) \in Int
      BY <1>0, PutSourceInRank, StagesInt DEF PutIInv
    <3>2. Arrives(p, op) /\ latest[p][op] # "private"
      BY <1>0 DEF PutIInv, TileInv, InStage
    <3>3. CASE q = p
      <4>1. input[p] = product[p] /\ product[p] \in Int
        BY <1>0, ProductsAssumption DEF PutIInv, InputInv, Put!TypeOK, Put!Version
      <4>2. QED
        BY <3>2, <3>3, <4>1 DEF Arrives, Put!Synced
    <3>4. CASE q # p
      <4>1. Side # 1
        BY <1>0, <3>1, <3>4, PutRemoteNeedsNodes
      <4>2. /\ entered[q] >= 2 * Stages(p) + 2
            /\ 2 * Stages(p) + 2 >= Left(q)
            /\ entered[q] = Entered(q)
            /\ pc[q] \in Put!Location
        BY <1>6, <3>1, <4>1 DEF PutIInv, BarrierInv, Put!TypeOK
      <4>3. Left(q) > 2 * Stages(p)
        BY <1>3, <3>1, <4>2 DEF Entered, Left, Put!Location
      <4>4. pc[q] # "putting"
        BY <1>3, <3>1, <4>2 DEF Entered, Left
      <4>5. puts[q] = {}
        BY <3>1, <4>4 DEF PutIInv, PutInv
      <4>6. Left(q) \in Int
        BY <3>1 DEF Left
      <4>7. ~(Left(q) <= 2 * Stages(p))
        BY <1>3, <4>3, <4>6
      <4>8. QED
        BY <3>2, <3>4, <4>5, <4>7 DEF Arrives, Put!Synced
    <3>5. QED
      BY <3>3, <3>4
  <2>3. nextStage'[p] - 1 = nextStage[p]
    BY <1>0 DEF Put!Round
  <2>4. QED
    BY <1>0, <2>1, <2>2, <2>3 DEF PutIInv, TileInv
<1>12. QED
  BY <1>1, <1>7, <1>9, <1>10, <1>11 DEF PutIInv

\* The steps between stages and products disturb no tile.
LEMMA LoopStep ==
  ASSUME PutIInv, NEW p \in Put!Rank, Put!Compute(p) \/ Put!Finish(p) \/ Put!Close(p) PROVE PutIInv'
<1> USE DEF Put!Compute, Put!Finish, Put!Close, Put!Goto, Put!receiver
<1>0. /\ \/ pc[p] = "compute" /\ pc'[p] = "fetch" /\ active' = active
         \/ /\ pc[p] = "fetch" /\ pc'[p] = "idle" /\ nextStage[p] = Side
            /\ active' = [active EXCEPT ![p] = FALSE]
         \/ pc[p] = "idle" /\ pc'[p] = "closed" /\ active' = active
            /\ product[p] = MaxProducts
      /\ pc' = [pc EXCEPT ![p] = pc'[p]]
      /\ \A r \in Put!Rank \ {p} : pc'[r] = pc[r]
      /\ UNCHANGED <<product, nextStage, entered, input, private, public, latest, puts>>
  BY DEF PutIInv, Put!TypeOK
<1>1. Put!TypeOK'
  BY <1>0 DEF PutIInv, Put!TypeOK, Put!Location
<1>2. \A r \in Put!Rank : Stages(r)' = Stages(r)
  <2>1. Plan!Total(product[p], 0) = Plan!Total(product[p] - 1, Side)
    <3>1. product[p] - 1 \in Int /\ (product[p] - 1) + 1 = product[p] /\ 0 \in Int
      BY ProductsAssumption DEF PutIInv, Put!TypeOK, Put!Version
    <3>2. Plan!Total((product[p] - 1) + 1, 0) = Plan!Total(product[p] - 1, Side)
      BY <3>1, Assumptions, Plan!TotalStep, Zenon
    <3>3. QED
      BY <3>1, <3>2
  <2>2. QED
    BY <1>0, <2>1 DEF Stages
<1>3. Stages(p) \in Int
  BY StagesInt DEF PutIInv
<1>4. \A r \in Put!Rank : Left(r)' = Left(r)
  BY <1>0, <1>2 DEF Left
<1>5. BarrierInv'
  <2>1. entered'[p] = Entered(p)'
    BY <1>0, <1>2 DEF PutIInv, BarrierInv, Entered
  <2>2. Left(p)' <= Left(p) /\ Stages(p)' \in Int
    BY <1>0, <1>2, <1>3, <1>4 DEF Left
  <2>3. QED
    BY <1>0, <1>2, <2>1, <2>2, BarriersKept DEF PutIInv
<1>6. StageInv'
  BY <1>0 DEF PutIInv, StageInv, InStage, Put!TypeOK
<1>7. InputInv'
  <2>1. CASE pc[p] = "idle"
    <3>1. input[p] = product[p]
      BY <1>0, <2>1, ProductsAssumption DEF PutIInv, InputInv, Put!TypeOK, Put!Version
    <3>2. QED
      BY <1>0, <3>1 DEF PutIInv, InputInv
  <2>2. CASE pc[p] # "idle"
    BY <1>0, <2>2 DEF PutIInv, InputInv
  <2>3. QED
    BY <2>1, <2>2
<1>8. PutInv'
  BY <1>0 DEF PutIInv, PutInv, PutOf
<1>9. TileInv'
  <2>1. \A q \in Put!Rank, op \in Put!Operand :
          PutOf(q, op) \in puts[q] => PutOf(q, op)' \in puts'[q]
    BY <1>0 DEF PutOf
  <2>2. ASSUME NEW r \in Put!Rank, InStage(r)', NEW op \in Put!Operand
        PROVE  Arrives(r, op)' /\ latest'[r][op] # "private"
    <3>1. InStage(r)
      BY <1>0, <2>2 DEF InStage
    <3>2. nextStage[r] \in Put!Round
      BY <3>1, StageInRound DEF PutIInv
    <3>3. Arrives(r, op) /\ latest[r][op] # "private"
      BY <3>1 DEF PutIInv, TileInv
    <3>4. QED
      BY <1>0, <1>2, <1>4, <2>1, <3>2, <3>3, ArrivesKept DEF PutIInv
  <2>3. QED
    BY <1>0, <2>2 DEF PutIInv, TileInv
<1>10. QED
  BY <1>1, <1>5, <1>6, <1>7, <1>8, <1>9 DEF PutIInv

LEMMA StutterStep ==
  ASSUME PutIInv, UNCHANGED Put!vars PROVE PutIInv'
<1> USE DEF Put!vars, Put!receiver
<1>1. Put!TypeOK'
  BY DEF PutIInv, Put!TypeOK
<1>2. BarrierInv' /\ StageInv' /\ InputInv' /\ PutInv'
  BY DEF PutIInv, BarrierInv, Entered, Left, Stages, StageInv, InStage, InputInv,
         PutInv, PutOf
<1>3. TileInv'
  BY DEF PutIInv, TileInv, InStage, Arrives, Left, Stages, PutOf
<1>4. QED
  BY <1>1, <1>2, <1>3 DEF PutIInv

LEMMA NextPutIInv == PutIInv /\ [Put!Next]_(Put!vars) => PutIInv'
<1> SUFFICES ASSUME PutIInv, [Put!Next]_(Put!vars) PROVE PutIInv'
  OBVIOUS
<1>1. CASE UNCHANGED Put!vars
  BY <1>1, StutterStep
<1>2. ASSUME NEW p \in Put!Rank, Put!Step(p) PROVE PutIInv'
  BY <1>2, PrepareStep, BeginStep, FetchEnterStep, FetchPutStep,
     PerformPutStep, FetchFlushStep, FetchLeaveStep, LoopStep DEF Put!Step
<1>3. QED
  BY <1>1, <1>2 DEF Put!Next, Put!Done

-----------------------------------------------------------------------------
\* The exchange is stated over the same plan.
LEMMA PutSamePlan ==
  /\ Put!Exchange!Rank = Put!Rank
  /\ Put!Exchange!Operand = Put!Operand
  /\ \A r, s, op : Put!Exchange!Source(r, s, op) = Put!Source(r, s, op)
  /\ \A r, s, op, g : Put!Exchange!Expected(r, s, op, g) = Put!Expected(r, s, op, g)
  /\ Put!Exchange!NoTiles = [op \in Put!Operand |-> NoTile]
<1>1. /\ Put!Exchange!Rank = Put!Rank
      /\ Put!Exchange!Operand = Put!Operand
      /\ Put!Exchange!NoTiles = [op \in Put!Operand |-> NoTile]
  BY DEF Put!Exchange!Rank, Put!Rank, Put!Exchange!Coord, Put!Coord, Put!Exchange!Operand,
         Put!Operand, Put!Exchange!NoTiles
<1>2. \A r, s, op : Put!Exchange!Source(r, s, op) = Put!Source(r, s, op)
  BY DEF Put!Exchange!Source, Put!Source, Put!Exchange!aSource, Put!aSource,
         Put!Exchange!bSource, Put!bSource, Put!Exchange!inner, Put!inner,
         Put!Exchange!rankAt, Put!rankAt
<1>3. \A r, s, op, g : Put!Exchange!Expected(r, s, op, g) = Put!Expected(r, s, op, g)
  BY <1>2 DEF Put!Exchange!Expected, Put!Expected, Put!Exchange!Tile, Put!Tile
<1>4. QED
  BY <1>1, <1>2, <1>3

LEMMA PutInitRefines == Put!Init => Put!Exchange!Init
BY PutSamePlan DEF Put!Init, Put!Exchange!Init, Put!StatusOf

\* What the exchange sees of the backend's state.
Status == [r \in Put!Rank |-> Put!StatusOf(r)]

StageView == [r \in Put!Rank |-> IF pc[r] = "compute" THEN nextStage[r] - 1
                             ELSE nextStage[r]]

TileView == [r \in Put!Rank |-> IF pc[r] = "compute" THEN private[r]
                            ELSE [op \in Put!Operand |-> NoTile]]

LEMMA PrepareRefines ==
  ASSUME PutIInv, NEW p \in Put!Rank, Put!PrepareInputs(p) PROVE Put!Exchange!Prepare(p)
<1>1. Status' = Status /\ StageView' = StageView /\ TileView' = TileView
  BY DEF Put!PrepareInputs, Put!receiver, Status, Put!StatusOf, StageView, TileView
<1>2. QED
  BY <1>1 DEF Put!PrepareInputs, Put!Exchange!Prepare, Status, Put!StatusOf, StageView,
              TileView

LEMMA BeginRefines ==
  ASSUME PutIInv, NEW p \in Put!Rank, Put!Begin(p) PROVE Put!Exchange!begin(p)
<1> USE DEF Put!Begin, Put!Goto, Put!receiver
<1>1. /\ Status' = [Status EXCEPT ![p] = "active"]
      /\ StageView' = [StageView EXCEPT ![p] = 0]
      /\ TileView' = TileView
  BY DEF PutIInv, Put!TypeOK, Status, Put!StatusOf, StageView, TileView
<1>2. Status[p] = "idle"
  BY DEF Status, Put!StatusOf
<1>3. QED
  BY <1>1, <1>2 DEF Put!Exchange!begin, Status, StageView, TileView

LEMMA FetchRefines ==
  ASSUME PutIInv, NEW p \in Put!Rank, Put!FetchLeave(p) PROVE Put!Exchange!fetch(p)
<1> USE DEF Put!FetchLeave, Put!Goto, Put!syncReceivers, Put!writersDone
<1>1. /\ pc[p] = "written" /\ pc'[p] = "compute"
      /\ nextStage[p] \in Put!Round /\ nextStage[p] < Side
      /\ nextStage'[p] = nextStage[p] + 1
      /\ \A r \in Put!Rank \ {p} : /\ pc'[r] = pc[r]
                                   /\ nextStage'[r] = nextStage[r]
                                   /\ private'[r] = private[r]
  BY GridAssumption DEF PutIInv, Put!TypeOK, StageInv, InStage, Put!Round
<1>0. nextStage'[p] - 1 = nextStage[p]
  BY <1>1 DEF Put!Round
<1>2. /\ \A op \in Put!Operand : input[Put!Source(p, nextStage[p], op)] >= product[p]
      /\ private'[p] = [op \in Put!Operand |-> Put!Expected(p, nextStage[p], op, product[p])]
  <2>1. TileInv' /\ Put!TypeOK'
    BY FetchLeaveStep DEF PutIInv
  <2>2. \A op \in Put!Operand :
          /\ input[Put!Source(p, nextStage[p], op)] >= product[p]
          /\ private'[p][op] = Put!Expected(p, nextStage[p], op, product[p])
    BY <1>0, <1>1, <2>1 DEF TileInv
  <2>3. QED
    BY <2>1, <2>2 DEF Put!TypeOK
<1>3. /\ Status' = [Status EXCEPT ![p] = "compute"]
      /\ StageView' = StageView
      /\ TileView' = [TileView EXCEPT ![p] = private'[p]]
  BY <1>0, <1>1 DEF PutIInv, Put!TypeOK, Status, Put!StatusOf, StageView, TileView
<1>4. Status[p] = "active" /\ StageView[p] = nextStage[p]
  BY <1>1 DEF Status, Put!StatusOf, StageView
<1>5. /\ \A op \in Put!Exchange!Operand :
           input[Put!Exchange!Source(p, StageView[p], op)] >= product[p]
      /\ private'[p] = [op \in Put!Exchange!Operand |->
                          Put!Exchange!Expected(p, StageView[p], op, product[p])]
  BY <1>2, <1>4, PutSamePlan
<1>6. QED
  BY <1>1, <1>3, <1>4, <1>5 DEF Put!Exchange!fetch, Status, StageView, TileView

LEMMA ConsumeRefines ==
  ASSUME PutIInv, NEW p \in Put!Rank, Put!Compute(p) PROVE Put!Exchange!Consume(p)
<1> USE DEF Put!Compute, Put!Goto, Put!receiver
<1>0. (nextStage[p] - 1) + 1 = nextStage[p]
  BY GridAssumption DEF PutIInv, Put!TypeOK
<1>1. /\ Status' = [Status EXCEPT ![p] = "active"]
      /\ StageView' = [StageView EXCEPT ![p] = @ + 1]
      /\ TileView' = [TileView EXCEPT ![p] = [op \in Put!Operand |-> NoTile]]
  BY <1>0 DEF PutIInv, Put!TypeOK, Status, Put!StatusOf, StageView, TileView
<1>2. Status[p] = "compute"
  BY DEF Status, Put!StatusOf
<1>3. QED
  BY <1>1, <1>2, PutSamePlan DEF Put!Exchange!Consume, Status, StageView, TileView

LEMMA FinishRefines ==
  ASSUME PutIInv, NEW p \in Put!Rank, Put!Finish(p) PROVE Put!Exchange!finish(p)
<1> USE DEF Put!Finish, Put!Goto, Put!receiver
<1>1. /\ Status' = [Status EXCEPT ![p] = "idle"]
      /\ StageView' = StageView
      /\ TileView' = TileView
  BY DEF PutIInv, Put!TypeOK, Status, Put!StatusOf, StageView, TileView
<1>2. Status[p] = "active" /\ StageView[p] = Side
  BY DEF Status, Put!StatusOf, StageView
<1>3. QED
  BY <1>1, <1>2 DEF Put!Exchange!finish, Status, StageView, TileView

LEMMA CloseRefines ==
  ASSUME PutIInv, NEW p \in Put!Rank, Put!Close(p) PROVE Put!Exchange!close(p)
<1> USE DEF Put!Close, Put!Goto, Put!receiver
<1>1. /\ Status' = [Status EXCEPT ![p] = "closed"]
      /\ StageView' = StageView
      /\ TileView' = TileView
  BY DEF PutIInv, Put!TypeOK, Status, Put!StatusOf, StageView, TileView
<1>2. Status[p] = "idle"
  BY DEF Status, Put!StatusOf
<1>3. QED
  BY <1>1, <1>2 DEF Put!Exchange!close, Status, StageView, TileView

\* The other steps stay inside fetch.
LEMMA HiddenRefines ==
  ASSUME PutIInv, NEW p \in Put!Rank,
         Put!FetchEnter(p) \/ Put!FetchPut(p) \/ Put!PerformPut(p) \/ Put!FetchFlush(p)
  PROVE  UNCHANGED Put!Exchange!vars
<1>1. Status' = Status /\ StageView' = StageView /\ TileView' = TileView
  <2>1. CASE Put!FetchEnter(p)
    BY <2>1 DEF Put!FetchEnter, Put!Goto, PutIInv, Put!TypeOK, Status, Put!StatusOf, StageView,
                TileView
  <2>2. CASE Put!FetchPut(p)
    BY <2>2 DEF Put!FetchPut, Put!Goto, Put!receiver, PutIInv, Put!TypeOK, Status, Put!StatusOf,
                StageView, TileView
  <2>3. CASE Put!PerformPut(p)
    <3>1. PICK put \in puts[p] :
            /\ \/ private' = private
               \/ \E t : private' = [private EXCEPT ![put.target][put.op] = t]
            /\ UNCHANGED <<pc, nextStage>>
      BY <2>3 DEF Put!PerformPut
    <3>2. InStage(put.target)
      BY PutExpected
    <3>3. \A r \in Put!Rank : pc[r] = "compute" => private'[r] = private[r]
      BY <3>1, <3>2 DEF InStage, PutIInv, Put!TypeOK
    <3>4. QED
      BY <3>1, <3>3 DEF Status, Put!StatusOf, StageView, TileView
  <2>4. CASE Put!FetchFlush(p)
    BY <2>4 DEF Put!FetchFlush, Put!Goto, Put!receiver, PutIInv, Put!TypeOK, Status, Put!StatusOf,
                StageView, TileView
  <2>5. QED
    BY <2>1, <2>2, <2>3, <2>4
<1>2. UNCHANGED <<product, input>>
  BY DEF Put!FetchEnter, Put!FetchPut, Put!PerformPut, Put!FetchFlush
<1>3. QED
  BY <1>1, <1>2 DEF Put!Exchange!vars, Status, StageView, TileView

LEMMA PutNextRefines ==
  PutIInv /\ [Put!Next]_(Put!vars) => [Put!Exchange!Next]_(Put!Exchange!vars)
<1> SUFFICES ASSUME PutIInv, [Put!Next]_(Put!vars)
             PROVE  [Put!Exchange!Next]_(Put!Exchange!vars)
  OBVIOUS
<1>1. CASE UNCHANGED Put!vars
  <2>1. Status' = Status /\ StageView' = StageView /\ TileView' = TileView
    BY <1>1 DEF Put!vars, Put!receiver, Status, Put!StatusOf, StageView, TileView
  <2>2. QED
    BY <1>1, <2>1 DEF Put!vars, Put!receiver, Put!Exchange!vars, Status, StageView, TileView
<1>2. ASSUME NEW p \in Put!Rank, Put!Step(p)
      PROVE  [Put!Exchange!Next]_(Put!Exchange!vars)
  <2>1. Put!Exchange!Step(p) \/ UNCHANGED Put!Exchange!vars
    BY <1>2, PrepareRefines, BeginRefines, FetchRefines, ConsumeRefines,
       FinishRefines, CloseRefines, HiddenRefines DEF Put!Step, Put!Exchange!Step
  <2>2. QED
    BY <2>1, PutSamePlan DEF Put!Exchange!Next
<1>3. QED
  BY <1>1, <1>2 DEF Put!Next, Put!Done
-----------------------------------------------------------------------------
(* The two-sided backend                                                   *)

\* The exchange between four nodes that TLC checks is the one the proofs are about: both
\* are the same instance of the same module.
LEMMA NodesSame ==
  /\ Nodes!Init <=> NodesProof!Init
  /\ [Nodes!Next]_(Nodes!vars) <=> [NodesProof!Next]_(NodesProof!vars)
  /\ Nodes!FreshPanel <=> NodesProof!FreshPanel
<1> USE DEF
      Nodes!Coord, NodesProof!Coord, Nodes!Rank, NodesProof!Rank,
      Nodes!Operand, NodesProof!Operand, Nodes!rankAt,
      NodesProof!rankAt, Nodes!CRemainder, NodesProof!CRemainder,
      Nodes!wrap, NodesProof!wrap, Nodes!inner, NodesProof!inner,
      Nodes!aSource, NodesProof!aSource, Nodes!bSource,
      NodesProof!bSource, Nodes!aTarget, NodesProof!aTarget,
      Nodes!bTarget, NodesProof!bTarget, Nodes!Source,
      NodesProof!Source, Nodes!Target, NodesProof!Target, Nodes!Tile,
      NodesProof!Tile, Nodes!Expected, NodesProof!Expected,
      Nodes!NodeRank, NodesProof!NodeRank, Nodes!Tag, NodesProof!Tag,
      Nodes!Link, NodesProof!Link, Nodes!receiveTiles,
      NodesProof!receiveTiles, Nodes!sendTiles, NodesProof!sendTiles,
      Nodes!Meet, NodesProof!Meet, Nodes!Received, NodesProof!Received,
      Nodes!ReceivesComplete, NodesProof!ReceivesComplete,
      Nodes!SendsComplete, NodesProof!SendsComplete
<1>1. UNCHANGED Nodes!vars <=> UNCHANGED NodesProof!vars
  BY DEF Nodes!vars, NodesProof!vars
<1>2. Nodes!Init <=> NodesProof!Init
  BY DEF Nodes!Init, NodesProof!Init, Nodes!MessagesInit, NodesProof!MessagesInit,
         Nodes!NoPanel, NodesProof!NoPanel
<1>3. Nodes!FreshPanel <=> NodesProof!FreshPanel
  BY DEF Nodes!FreshPanel, NodesProof!FreshPanel
<1>4. Nodes!Next <=> NodesProof!Next
  BY DEF
      Nodes!NoPanel, NodesProof!NoPanel, Nodes!Goto, NodesProof!Goto,
      Nodes!SendBuffer, NodesProof!SendBuffer, Nodes!Match,
      NodesProof!Match, Nodes!AllComplete, NodesProof!AllComplete,
      Nodes!PrepareInputs, NodesProof!PrepareInputs, Nodes!Begin,
      NodesProof!Begin, Nodes!Compute, NodesProof!Compute,
      Nodes!ComputeSameStage, NodesProof!ComputeSameStage, Nodes!Finish,
      NodesProof!Finish, Nodes!Close, NodesProof!Close,
      Nodes!RemoteSources, NodesProof!RemoteSources,
      Nodes!RemoteTargets, NodesProof!RemoteTargets, Nodes!MoreStages,
      NodesProof!MoreStages, Nodes!Fetch, NodesProof!Fetch,
      Nodes!FetchWait, NodesProof!FetchWait, Nodes!peers,
      NodesProof!peers, Nodes!Assemble, NodesProof!Assemble,
      Nodes!AssembleWait, NodesProof!AssembleWait, Nodes!Step,
      NodesProof!Step, Nodes!Done, NodesProof!Done, Nodes!Next,
      NodesProof!Next, Nodes!AllReceived, NodesProof!AllReceived,
      Nodes!vars, NodesProof!vars
<1>5. QED
  BY <1>1, <1>2, <1>3, <1>4

LEMMA NodesSameExchange ==
  /\ Nodes!Exchange!Init <=> NodesProof!Exchange!Init
  /\ [Nodes!Exchange!Next]_(Nodes!Exchange!vars)
       <=> [NodesProof!Exchange!Next]_(NodesProof!Exchange!vars)
<1> USE DEF
      Nodes!Coord, NodesProof!Coord, Nodes!Rank, NodesProof!Rank,
      Nodes!Operand, NodesProof!Operand, Nodes!StatusOf,
      NodesProof!StatusOf, Nodes!Exchange!Coord,
      NodesProof!Exchange!Coord, Nodes!Exchange!Rank,
      NodesProof!Exchange!Rank, Nodes!Exchange!Operand,
      NodesProof!Exchange!Operand, Nodes!Exchange!rankAt,
      NodesProof!Exchange!rankAt, Nodes!Exchange!inner,
      NodesProof!Exchange!inner, Nodes!Exchange!aSource,
      NodesProof!Exchange!aSource, Nodes!Exchange!bSource,
      NodesProof!Exchange!bSource, Nodes!Exchange!Source,
      NodesProof!Exchange!Source, Nodes!Exchange!Tile,
      NodesProof!Exchange!Tile, Nodes!Exchange!Expected,
      NodesProof!Exchange!Expected, Nodes!Exchange!NoTiles,
      NodesProof!Exchange!NoTiles
<1>1. UNCHANGED Nodes!Exchange!vars <=> UNCHANGED NodesProof!Exchange!vars
  BY DEF Nodes!Exchange!vars, NodesProof!Exchange!vars
<1>2. Nodes!Exchange!Init <=> NodesProof!Exchange!Init
  BY DEF Nodes!Exchange!Init, NodesProof!Exchange!Init
<1>3. Nodes!Exchange!Next <=> NodesProof!Exchange!Next
  BY DEF
      Nodes!Exchange!Prepare, NodesProof!Exchange!Prepare,
      Nodes!Exchange!begin, NodesProof!Exchange!begin,
      Nodes!Exchange!fetch, NodesProof!Exchange!fetch,
      Nodes!Exchange!Consume, NodesProof!Exchange!Consume,
      Nodes!Exchange!finish, NodesProof!Exchange!finish,
      Nodes!Exchange!close, NodesProof!Exchange!close,
      Nodes!Exchange!Step, NodesProof!Exchange!Step,
      Nodes!Exchange!Next, NodesProof!Exchange!Next
<1>4. QED
  BY <1>1, <1>2, <1>3

\* The exchange inside a node that TLC checks is the one the proofs are about: both
\* are the same instance of the same module.
LEMMA PanelSame ==
  /\ Panel!Init <=> PanelProof!Init
  /\ [Panel!Next]_(Panel!vars) <=> [PanelProof!Next]_(PanelProof!vars)
  /\ Panel!FreshPanel <=> PanelProof!FreshPanel
<1> USE DEF
      Panel!Coord, PanelProof!Coord, Panel!Rank, PanelProof!Rank,
      Panel!Operand, PanelProof!Operand, Panel!rankAt,
      PanelProof!rankAt, Panel!CRemainder, PanelProof!CRemainder,
      Panel!wrap, PanelProof!wrap, Panel!inner, PanelProof!inner,
      Panel!aSource, PanelProof!aSource, Panel!bSource,
      PanelProof!bSource, Panel!aTarget, PanelProof!aTarget,
      Panel!bTarget, PanelProof!bTarget, Panel!Source,
      PanelProof!Source, Panel!Target, PanelProof!Target, Panel!Tile,
      PanelProof!Tile, Panel!Expected, PanelProof!Expected,
      Panel!NodeRank, PanelProof!NodeRank, Panel!Tag, PanelProof!Tag,
      Panel!Link, PanelProof!Link, Panel!receiveTiles,
      PanelProof!receiveTiles, Panel!sendTiles, PanelProof!sendTiles,
      Panel!Meet, PanelProof!Meet, Panel!Received, PanelProof!Received,
      Panel!ReceivesComplete, PanelProof!ReceivesComplete,
      Panel!SendsComplete, PanelProof!SendsComplete
<1>1. UNCHANGED Panel!vars <=> UNCHANGED PanelProof!vars
  BY DEF Panel!vars, PanelProof!vars
<1>2. Panel!Init <=> PanelProof!Init
  BY DEF Panel!Init, PanelProof!Init, Panel!MessagesInit, PanelProof!MessagesInit,
         Panel!NoPanel, PanelProof!NoPanel
<1>3. Panel!FreshPanel <=> PanelProof!FreshPanel
  BY DEF Panel!FreshPanel, PanelProof!FreshPanel
<1>4. Panel!Next <=> PanelProof!Next
  BY DEF
      Panel!NoPanel, PanelProof!NoPanel, Panel!Goto, PanelProof!Goto,
      Panel!SendBuffer, PanelProof!SendBuffer, Panel!Match,
      PanelProof!Match, Panel!AllComplete, PanelProof!AllComplete,
      Panel!PrepareInputs, PanelProof!PrepareInputs, Panel!Begin,
      PanelProof!Begin, Panel!Compute, PanelProof!Compute,
      Panel!ComputeSameStage, PanelProof!ComputeSameStage, Panel!Finish,
      PanelProof!Finish, Panel!Close, PanelProof!Close,
      Panel!RemoteSources, PanelProof!RemoteSources,
      Panel!RemoteTargets, PanelProof!RemoteTargets, Panel!MoreStages,
      PanelProof!MoreStages, Panel!Fetch, PanelProof!Fetch,
      Panel!FetchWait, PanelProof!FetchWait, Panel!peers,
      PanelProof!peers, Panel!Assemble, PanelProof!Assemble,
      Panel!AssembleWait, PanelProof!AssembleWait, Panel!Step,
      PanelProof!Step, Panel!Done, PanelProof!Done, Panel!Next,
      PanelProof!Next, Panel!AllReceived, PanelProof!AllReceived,
      Panel!vars, PanelProof!vars
<1>5. QED
  BY <1>1, <1>2, <1>3, <1>4

LEMMA PanelSameExchange ==
  /\ Panel!Exchange!Init <=> PanelProof!Exchange!Init
  /\ [Panel!Exchange!Next]_(Panel!Exchange!vars)
       <=> [PanelProof!Exchange!Next]_(PanelProof!Exchange!vars)
<1> USE DEF
      Panel!Coord, PanelProof!Coord, Panel!Rank, PanelProof!Rank,
      Panel!Operand, PanelProof!Operand, Panel!StatusOf,
      PanelProof!StatusOf, Panel!Exchange!Coord,
      PanelProof!Exchange!Coord, Panel!Exchange!Rank,
      PanelProof!Exchange!Rank, Panel!Exchange!Operand,
      PanelProof!Exchange!Operand, Panel!Exchange!rankAt,
      PanelProof!Exchange!rankAt, Panel!Exchange!inner,
      PanelProof!Exchange!inner, Panel!Exchange!aSource,
      PanelProof!Exchange!aSource, Panel!Exchange!bSource,
      PanelProof!Exchange!bSource, Panel!Exchange!Source,
      PanelProof!Exchange!Source, Panel!Exchange!Tile,
      PanelProof!Exchange!Tile, Panel!Exchange!Expected,
      PanelProof!Exchange!Expected, Panel!Exchange!NoTiles,
      PanelProof!Exchange!NoTiles
<1>1. UNCHANGED Panel!Exchange!vars <=> UNCHANGED PanelProof!Exchange!vars
  BY DEF Panel!Exchange!vars, PanelProof!Exchange!vars
<1>2. Panel!Exchange!Init <=> PanelProof!Exchange!Init
  BY DEF Panel!Exchange!Init, PanelProof!Exchange!Init
<1>3. Panel!Exchange!Next <=> PanelProof!Exchange!Next
  BY DEF
      Panel!Exchange!Prepare, PanelProof!Exchange!Prepare,
      Panel!Exchange!begin, PanelProof!Exchange!begin,
      Panel!Exchange!fetch, PanelProof!Exchange!fetch,
      Panel!Exchange!Consume, PanelProof!Exchange!Consume,
      Panel!Exchange!finish, PanelProof!Exchange!finish,
      Panel!Exchange!close, PanelProof!Exchange!close,
      Panel!Exchange!Step, PanelProof!Exchange!Step,
      Panel!Exchange!Next, PanelProof!Exchange!Next
<1>4. QED
  BY <1>1, <1>2, <1>3

-----------------------------------------------------------------------------
(* The behaviours                                                          *)

\* A behaviour keeps the exchange it began with, and every step of it is one of
\* that exchange.
LEMMA StepOf ==
  [Next]_vars =>
    /\ exchange' = exchange
    /\ exchange = "put" => [Put!Next]_(Put!vars)
    /\ exchange = "nodes" => [NodesProof!Next]_(NodesProof!vars)
    /\ exchange = "panel" => [PanelProof!Next]_(PanelProof!vars)
<1> SUFFICES ASSUME [Next]_vars
             PROVE  /\ exchange' = exchange
                    /\ exchange = "put" => [Put!Next]_(Put!vars)
                    /\ exchange = "nodes" => [Nodes!Next]_(Nodes!vars)
                    /\ exchange = "panel" => [Panel!Next]_(Panel!vars)
  BY NodesSame, PanelSame
<1>1. CASE UNCHANGED vars
  <2>1. /\ UNCHANGED Put!vars
        /\ UNCHANGED Nodes!vars
        /\ UNCHANGED Panel!vars
    BY <1>1 DEF vars, putOnly, twoSidedOnly, Put!vars, Put!receiver,
                Nodes!vars, Panel!vars
  <2>2. QED
    BY <1>1, <2>1 DEF vars
<1>2. CASE Next
  BY <1>2 DEF Next, PutNext, NodesNext, PanelNext,
              TwoSidedRowsNext, GetRowsNext, PutRowsNext
<1>3. QED
  BY <1>1, <1>2

\* The invariant of the exchange the behaviour is about.
TilesInv ==
  /\ exchange = "put" => PutIInv
  /\ exchange = "nodes" => NodesProof!IInv
  /\ exchange = "panel" => PanelProof!IInv

LEMMA TilesInvariance == Spec => []TilesInv
<1>1. Init => TilesInv
  <2> SUFFICES ASSUME Init PROVE TilesInv
    OBVIOUS
  <2>1. /\ exchange = "put" => Put!Init
        /\ exchange = "nodes" => NodesProof!Init
        /\ exchange = "panel" => PanelProof!Init
    BY NodesSame, PanelSame DEF Init
  <2>2. QED
    BY <2>1, Assumptions, InitPutIInv, NodesProof!InitIInv, PanelProof!InitIInv
    DEF TilesInv
<1>2. TilesInv /\ [Next]_vars => TilesInv'
  BY Assumptions, StepOf, NextPutIInv, NodesProof!NextIInv, PanelProof!NextIInv
  DEF TilesInv
<1>3. QED
  BY <1>1, <1>2, PTL DEF Spec

\* The PUT backend implements TileExchange, on every grid: between the barriers
\* of a stage all ranks are in that stage of that product, so no put arrives in
\* a tile that is in use and none is read before it is complete.
THEOREM PutImplementation == Spec => PutImplementsExchange
<1>1. Init => (exchange = "put" => Put!Exchange!Init)
  BY PutInitRefines DEF Init
<1>2. TilesInv /\ [Next]_vars =>
        (exchange = "put" => [Put!Exchange!Next]_(Put!Exchange!vars))
  BY StepOf, PutNextRefines DEF TilesInv
<1>3. QED
  BY <1>1, <1>2, TilesInvariance, PTL DEF Spec, PutImplementsExchange

\* The two-sided backend implements TileExchange, on every grid and on every
\* number of ranks in a node: messages carry no stage and no product, yet none
\* meets another stage's or another product's receive, whichever sends MPI
\* completes before they are received.
THEOREM MessagesImplementation == Spec => MessagesImplementExchange
<1>1. Init => /\ exchange = "nodes" => Nodes!Exchange!Init
              /\ exchange = "panel" => Panel!Exchange!Init
  <2> SUFFICES ASSUME Init
               PROVE  /\ exchange = "nodes" => NodesProof!Exchange!Init
                      /\ exchange = "panel" => PanelProof!Exchange!Init
    BY NodesSameExchange, PanelSameExchange
  <2>1. /\ exchange = "nodes" => NodesProof!Init
        /\ exchange = "panel" => PanelProof!Init
    BY NodesSame, PanelSame DEF Init
  <2>2. QED
    BY <2>1, Assumptions, NodesProof!InitRefines, PanelProof!InitRefines
<1>2. TilesInv /\ [Next]_vars =>
        /\ exchange = "nodes" => [Nodes!Exchange!Next]_(Nodes!Exchange!vars)
        /\ exchange = "panel" => [Panel!Exchange!Next]_(Panel!Exchange!vars)
  <2> SUFFICES ASSUME TilesInv, [Next]_vars
               PROVE  /\ exchange = "nodes" =>
                            [NodesProof!Exchange!Next]_(NodesProof!Exchange!vars)
                      /\ exchange = "panel" =>
                            [PanelProof!Exchange!Next]_(PanelProof!Exchange!vars)
    BY NodesSameExchange, PanelSameExchange
  <2>1. QED
    BY Assumptions, StepOf, NodesProof!NextRefines, PanelProof!NextRefines
    DEF TilesInv
<1>3. QED
  BY <1>1, <1>2, TilesInvariance, PTL DEF Spec, MessagesImplementExchange

\* The panel a rank multiplies is made of the slices its whole node fetched for
\* the same stage of the same product, each in its owner's place, however far
\* the ranks drift apart: the messages that assemble it name neither.
THEOREM PanelsFresh == Spec => []FreshPanel
<1>1. TilesInv => FreshPanel
  BY Assumptions, NodesSame, PanelSame, NodesProof!PanelFresh, PanelProof!PanelFresh
  DEF TilesInv, FreshPanel
<1>2. QED
  BY <1>1, TilesInvariance, PTL
=============================================================================
