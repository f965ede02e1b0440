----------------------------- MODULE GetBackends_proof -----------------------------
(***************************************************************************)
(* Freshness of the two GET backends, for every grid and number of         *)
(* products.                                                               *)
(*                                                                         *)
(* FreshTiles is not inductive: that a read lands on the right version     *)
(* depends on how far its source can be from the reader.  The invariants   *)
(* add what the two barriers enforce, the count each rank has entered and  *)
(* left.  That of the pipeline, which comes first, also has its double     *)
(* buffering: the reads in flight are those of the next stage and fill the *)
(* other pair, so the held pair stays complete.                            *)
(***************************************************************************)
EXTENDS TridentGetPipeline, ExecutionPlan_proof

\* Barriers a rank has entered, from where it stands.
Entered(r) ==
  IF pc[r] \in {"idle", "finishBarrier", "closed"} THEN 2 * product[r]
  ELSE 2 * product[r] - 1

\* Barriers it has left: as many were entered by everybody.
Left(r) ==
  IF pc[r] \in {"idle", "closed"} THEN 2 * product[r]
  ELSE IF pc[r] = "beginBarrier" THEN 2 * product[r] - 2
  ELSE 2 * product[r] - 1

BarrierInv ==
  /\ \A r \in Rank : entered[r] = Entered(r)
  /\ \A r \in Rank : pc[r] \notin {"idle", "closed"} => product[r] >= 1
  /\ Side # 1 => \A r, q \in Rank : entered[q] >= Left(r)

\* The reads of the next stage have been issued.
Reading(r) == pc[r] \in {"fetch", "compute"} /\ nextStage[r] < Side

FlagInv ==
  \A r \in Rank :
    /\ active[r] <=> pc[r] \in {"prime", "fetch", "prefetch", "compute",
                               "finishBarrier"}
    /\ pending[r] <=> Reading(r)

InputInv ==
  \A r \in Rank :
    /\ public[r] = product[r]
    /\ \/ private[r] = product[r]
       \/ pc[r] = "idle" /\ private[r] = product[r] + 1

ReadOf(r, op) == [op |-> op, source |-> Source(r, nextStage[r], op),
                  buffer |-> incoming(r)]

ReadInv ==
  \A r \in Rank : \A rd \in reads[r] :
    /\ Reading(r)
    /\ rd.op \in Operand
    /\ rd = ReadOf(r, rd.op)
    /\ rd.source # r

StageInv ==
  \A r \in Rank :
    /\ pc[r] = "finishBarrier" => nextStage[r] = Side
    /\ pc[r] = "prime" => nextStage[r] = 0
    /\ pc[r] = "prefetch" => nextStage[r] < Side
    /\ pc[r] \in {"prefetch", "compute"} => nextStage[r] >= 1

HeldInv ==
  \A r \in Rank : pc[r] \in {"prefetch", "compute"} =>
    \A op \in Operand :
      memory[r][workspace[r]][op] = Expected(r, Held(r), op, product[r])

IncomingInv ==
  \A r \in Rank : Reading(r) =>
    \A op \in Operand :
      \/ ReadOf(r, op) \in reads[r]
      \/ memory[r][incoming(r)][op] = Expected(r, nextStage[r], op, product[r])

IInv ==
  /\ TypeOK
  /\ BarrierInv
  /\ FlagInv
  /\ InputInv
  /\ ReadInv
  /\ StageInv
  /\ HeldInv
  /\ IncomingInv

\* Inside a product every other rank has entered the same product and not
\* left it: its inputs are the ones of this product, in both copies.
LEMMA SameProduct ==
  ASSUME TypeOK, BarrierInv, InputInv, Side # 1,
         NEW r \in Rank, NEW q \in Rank,
         pc[r] \in {"prime", "fetch", "prefetch", "compute"}
  PROVE  /\ private[q] = product[r]
         /\ public[q] = product[r]
         /\ pc[q] \notin {"idle", "closed"}
<1>1. /\ product[r] \in Nat /\ product[q] \in Nat
      /\ pc[q] \in Location
  BY ProductsAssumption DEF TypeOK, TransportTypeOK, Version
<1>2. /\ entered[r] = 2 * product[r] - 1
      /\ entered[q] = Entered(q)
      /\ entered[r] >= Left(q)
      /\ entered[q] >= 2 * product[r] - 1
  BY DEF BarrierInv, Entered, Left
<1>3. /\ product[q] = product[r]
      /\ pc[q] \notin {"idle", "closed"}
  BY <1>1, <1>2 DEF Entered, Left, Location
<1>4. QED
  BY <1>3 DEF InputInv

LEMMA InitIInv == Init => IInv
<1> SUFFICES ASSUME Init PROVE IInv
  OBVIOUS
<1>1. TypeOK
  BY GridAssumption, ProductsAssumption
  DEF Init, TransportInit, TypeOK, TransportTypeOK, Version, Location,
      TileOrNone, Buffer
<1>2. BarrierInv
  BY DEF Init, TransportInit, BarrierInv, Entered, Left
<1>3. FlagInv /\ InputInv /\ ReadInv /\ StageInv /\ HeldInv /\ IncomingInv
  BY DEF Init, TransportInit, FlagInv, InputInv, ReadInv, Reading, StageInv,
         HeldInv, IncomingInv
<1>4. QED
  BY <1>1, <1>2, <1>3 DEF IInv

-----------------------------------------------------------------------------
(* One lemma per action.                                                   *)

LEMMA PrepareStep ==
  ASSUME IInv, NEW p \in Rank, PrepareInputs(p) PROVE IInv'
<1> USE DEF PrepareInputs, Prepare
<1>1. TypeOK'
  BY ProductsAssumption DEF IInv, TypeOK, TransportTypeOK, Version
<1>2. BarrierInv'
  BY DEF IInv, BarrierInv, Entered, Left
<1>3. FlagInv' /\ ReadInv' /\ StageInv' /\ HeldInv' /\ IncomingInv'
  BY DEF IInv, FlagInv, ReadInv, ReadOf, Reading, incoming, StageInv,
         HeldInv, Held, IncomingInv
<1>4. InputInv'
  BY DEF IInv, InputInv, TypeOK, TransportTypeOK
<1>5. QED
  BY <1>1, <1>2, <1>3, <1>4 DEF IInv

LEMMA BeginEnterStep ==
  ASSUME IInv, NEW p \in Rank, BeginEnter(p) PROVE IInv'
<1> USE DEF BeginEnter, Goto, beginEnter, syncInputs, EnterBarrier
<1>1. TypeOK'
  BY ProductsAssumption
  DEF IInv, TypeOK, TransportTypeOK, Version, Location
<1>2. BarrierInv'
  BY ProductsAssumption
  DEF IInv, BarrierInv, Entered, Left, TypeOK, TransportTypeOK, Version
<1>3. FlagInv' /\ ReadInv' /\ StageInv' /\ HeldInv' /\ IncomingInv'
  BY DEF IInv, FlagInv, ReadInv, ReadOf, Reading, incoming, StageInv,
         HeldInv, Held, IncomingInv, TypeOK, TransportTypeOK
<1>4. InputInv'
  BY DEF IInv, InputInv, TypeOK, TransportTypeOK
<1>5. QED
  BY <1>1, <1>2, <1>3, <1>4 DEF IInv

LEMMA BeginLeaveStep ==
  ASSUME IInv, NEW p \in Rank, BeginLeave(p) PROVE IInv'
<1> USE DEF BeginLeave, Goto, beginLeave, inputsReady
<1>1. TypeOK'
  BY GridAssumption DEF IInv, TypeOK, TransportTypeOK, Location
<1>2. BarrierInv'
  BY ProductsAssumption
  DEF IInv, BarrierInv, Entered, Left, AllEntered, TypeOK, TransportTypeOK,
      Version
<1>3. FlagInv' /\ InputInv'
  BY DEF IInv, FlagInv, Reading, InputInv, TypeOK, TransportTypeOK
<1>4. ReadInv'
  BY DEF IInv, ReadInv, ReadOf, Reading, incoming, TypeOK, TransportTypeOK
<1>5. StageInv' /\ HeldInv'
  BY DEF IInv, StageInv, HeldInv, Held, TypeOK
<1>6. IncomingInv'
  BY DEF IInv, IncomingInv, Reading, ReadOf, incoming, TypeOK
<1>7. QED
  BY <1>1, <1>2, <1>3, <1>4, <1>5, <1>6 DEF IInv

\* Prime and Prefetch issue the reads of the next stage alike.
LEMMA IssueStep ==
  ASSUME IInv, NEW p \in Rank, nextStage[p] < Side,
         startFetch(p, nextStage[p], incoming(p)),
         \/ pc[p] = "prime" /\ pc' = [pc EXCEPT ![p] = "fetch"]
         \/ pc[p] = "prefetch" /\ pc' = [pc EXCEPT ![p] = "compute"],
         UNCHANGED <<nextStage, workspace>>
  PROVE  IInv'
<1> USE DEF startFetch
<1>0. /\ nextStage[p] \in Round
      /\ \A op \in Operand : Source(p, nextStage[p], op) \in Rank
      /\ incoming(p) \in Buffer /\ incoming(p) # workspace[p]
      /\ reads[p] = {}
  <2>1. nextStage[p] \in Round
    BY GridAssumption DEF IInv, TypeOK, Round
  <2>2. \A op \in Operand : Source(p, nextStage[p], op) \in Rank
    BY <2>1, SourceInRank
  <2>3. incoming(p) \in Buffer /\ incoming(p) # workspace[p]
    BY DEF IInv, TypeOK, Buffer, incoming
  <2>4. reads[p] = {}
    BY DEF IInv, ReadInv, Reading
  <2>5. QED
    BY <2>1, <2>2, <2>3, <2>4
<1>1. TypeOK'
  <2>1. reads' \in [Rank -> SUBSET Read]
    BY <1>0 DEF IInv, TypeOK, TransportTypeOK, Read
  <2>2. memory' \in [Rank -> [Buffer -> [Operand -> TileOrNone]]]
    BY <1>0 DEF IInv, TypeOK, TransportTypeOK, Tile, TileOrNone
  <2>3. QED
    BY <2>1, <2>2 DEF IInv, TypeOK, TransportTypeOK, Location
<1>2. BarrierInv'
  BY DEF IInv, BarrierInv, Entered, Left, TypeOK
<1>3. FlagInv' /\ InputInv'
  BY DEF IInv, FlagInv, Reading, InputInv, TypeOK, TransportTypeOK
<1>4. ReadInv'
  BY <1>0 DEF IInv, ReadInv, ReadOf, Reading, incoming, TypeOK,
              TransportTypeOK
<1>5. StageInv'
  BY DEF IInv, StageInv, TypeOK
<1>6. HeldInv'
  BY <1>0 DEF IInv, HeldInv, Held, TypeOK, TransportTypeOK, Buffer
<1>7. IncomingInv'
  <2>1. private[p] = product[p]
    BY DEF IInv, InputInv
  <2>2. \A op \in Operand :
          \/ ReadOf(p, op) \in reads'[p]
          \/ memory'[p][incoming(p)][op]
               = Expected(p, nextStage[p], op, product[p])
    BY <1>0, <2>1 DEF IInv, TypeOK, TransportTypeOK, ReadOf, Expected
  <2>3. \A r \in Rank \ {p} : memory'[r] = memory[r] /\ reads'[r] = reads[r]
    BY DEF IInv, TypeOK, TransportTypeOK
  <2>4. /\ \A r \in Rank : incoming(r)' = incoming(r)
        /\ \A r \in Rank, op \in Operand : ReadOf(r, op)' = ReadOf(r, op)
    BY DEF incoming, ReadOf
  <2>5. \A r \in Rank \ {p} : Reading(r)' => Reading(r)
    BY DEF IInv, TypeOK, Reading
  <2>6. QED
    BY <2>2, <2>3, <2>4, <2>5 DEF IInv, IncomingInv
<1>8. QED
  BY <1>1, <1>2, <1>3, <1>4, <1>5, <1>6, <1>7 DEF IInv

LEMMA PrimeStep ==
  ASSUME IInv, NEW p \in Rank, Prime(p) PROVE IInv'
<1>1. nextStage[p] = 0 /\ nextStage[p] < Side
  BY GridAssumption DEF IInv, StageInv, Prime, Goto
<1>2. QED
  BY <1>1, IssueStep DEF Prime, Goto

LEMMA PrefetchStep ==
  ASSUME IInv, NEW p \in Rank, Prefetch(p) PROVE IInv'
<1>1. nextStage[p] < Side
  BY DEF IInv, StageInv, Prefetch, Goto
<1>2. QED
  BY <1>1, IssueStep DEF Prefetch, Goto

LEMMA LandStep ==
  ASSUME IInv, NEW p \in Rank, Land(p) PROVE IInv'
<1>0. PICK rd \in reads[p] : \E v \in {public[rd.source], private[rd.source]} :
        /\ memory' = [memory EXCEPT ![p][rd.buffer][rd.op] = Tile(rd.source, v)]
        /\ reads' = [reads EXCEPT ![p] = @ \ {rd}]
        /\ UNCHANGED <<product, entered, active, pending, private, public>>
        /\ UNCHANGED <<pc, nextStage, workspace>>
  BY DEF Land, PerformRead
<1>1. PICK v \in {public[rd.source], private[rd.source]} :
        /\ memory' = [memory EXCEPT ![p][rd.buffer][rd.op] = Tile(rd.source, v)]
        /\ reads' = [reads EXCEPT ![p] = @ \ {rd}]
        /\ UNCHANGED <<product, entered, active, pending, private, public>>
        /\ UNCHANGED <<pc, nextStage, workspace>>
  BY <1>0
<1>2. /\ Reading(p) /\ nextStage[p] \in Round
      /\ rd.op \in Operand /\ rd.buffer = incoming(p)
      /\ incoming(p) \in Buffer /\ incoming(p) # workspace[p]
      /\ rd.source \in Rank /\ rd.source # p
      /\ rd.source = Source(p, nextStage[p], rd.op)
      /\ rd = ReadOf(p, rd.op)
  <2>1. /\ Reading(p) /\ rd.op \in Operand
        /\ rd = ReadOf(p, rd.op) /\ rd.source # p
    BY DEF IInv, ReadInv
  <2>2. rd.buffer = incoming(p) /\ rd.source = Source(p, nextStage[p], rd.op)
    BY <2>1 DEF ReadOf
  <2>3. nextStage[p] \in Round
    BY <2>1, GridAssumption DEF IInv, TypeOK, Reading, Round
  <2>4. rd.source \in Rank
    BY <2>1, <2>2, <2>3, SourceInRank
  <2>5. incoming(p) \in Buffer /\ incoming(p) # workspace[p]
    BY DEF IInv, TypeOK, Buffer, incoming
  <2>6. QED
    BY <2>1, <2>2, <2>3, <2>4, <2>5
<1>3. v = product[p]
  <2>1. Side # 1
    BY <1>2, RemoteNeedsNodes
  <2>2. pc[p] \in {"fetch", "compute"}
    BY <1>2 DEF Reading
  <2>3. QED
    BY <1>1, <1>2, <2>1, <2>2, SameProduct DEF IInv
<1>4. TypeOK'
  <2>1. Tile(rd.source, v) \in TileOrNone
    BY <1>2, <1>3 DEF IInv, TypeOK, TransportTypeOK, Tile, TileOrNone
  <2>2. memory' \in [Rank -> [Buffer -> [Operand -> TileOrNone]]]
    BY <1>1, <1>2, <2>1 DEF IInv, TypeOK, TransportTypeOK
  <2>3. QED
    BY <1>1, <2>2 DEF IInv, TypeOK, TransportTypeOK
<1>5. BarrierInv' /\ FlagInv' /\ InputInv' /\ StageInv'
  BY <1>1 DEF IInv, BarrierInv, Entered, Left, FlagInv, Reading, InputInv,
              StageInv
<1>6. ReadInv'
  BY <1>1 DEF IInv, ReadInv, ReadOf, Reading, incoming, TypeOK,
              TransportTypeOK
<1>7. HeldInv'
  BY <1>1, <1>2 DEF IInv, HeldInv, Held, TypeOK, TransportTypeOK, Buffer
<1>8. IncomingInv'
  <2> SUFFICES ASSUME NEW r \in Rank, Reading(r), NEW op \in Operand
               PROVE  \/ ReadOf(r, op) \in reads'[r]
                      \/ memory'[r][incoming(r)][op]
                           = Expected(r, nextStage[r], op, product[r])
    BY <1>1 DEF IncomingInv, Reading, ReadOf, incoming
  <2>1. CASE r = p /\ op = rd.op
    BY <1>1, <1>2, <1>3, <2>1 DEF IInv, TypeOK, TransportTypeOK, Expected
  <2>2. CASE r = p /\ op # rd.op
    <3>1. ReadOf(r, op) # rd
      BY <2>2 DEF ReadOf
    <3>2. memory'[r][incoming(r)][op] = memory[r][incoming(r)][op]
      BY <1>1, <1>2, <2>2 DEF IInv, TypeOK, TransportTypeOK
    <3>3. QED
      BY <1>1, <3>1, <3>2, <2>2 DEF IInv, IncomingInv, TypeOK, TransportTypeOK
  <2>3. CASE r # p
    BY <1>1, <2>3 DEF IInv, IncomingInv, TypeOK, TransportTypeOK
  <2>4. QED
    BY <2>1, <2>2, <2>3
<1>9. QED
  BY <1>4, <1>5, <1>6, <1>7, <1>8 DEF IInv

LEMMA FetchCompleteStep ==
  ASSUME IInv, NEW p \in Rank, FetchComplete(p) PROVE IInv'
<1> USE DEF FetchComplete, completeFetch, flushed, InPlan, swapped,
           advanced
<1>0. /\ nextStage[p] \in Round /\ nextStage[p] + 1 \in 0 .. Side
      /\ nextStage'[p] = nextStage[p] + 1
      /\ incoming(p) \in Buffer /\ workspace'[p] = incoming(p)
      /\ Reading(p) /\ reads[p] = {}
  BY GridAssumption
  DEF IInv, TypeOK, Round, incoming, Buffer, Reading
<1>1. TypeOK'
  BY <1>0 DEF IInv, TypeOK, TransportTypeOK, Location
<1>2. BarrierInv'
  BY DEF IInv, BarrierInv, Entered, Left, TypeOK
<1>3. FlagInv' /\ InputInv'
  BY <1>0 DEF IInv, FlagInv, Reading, InputInv, TypeOK, TransportTypeOK
<1>4. ReadInv'
  <2>1. \A r \in Rank \ {p} : /\ Reading(r) => Reading(r)'
                             /\ \A op \in Operand : ReadOf(r, op)' = ReadOf(r, op)
    BY DEF IInv, TypeOK, Reading, ReadOf, incoming
  <2>2. QED
    BY <1>0, <2>1 DEF IInv, ReadInv
<1>5. StageInv'
  BY <1>0, GridAssumption DEF IInv, StageInv, TypeOK, Round
<1>6. HeldInv'
  <2>1. \A op \in Operand :
          memory[p][incoming(p)][op]
            = Expected(p, nextStage[p], op, product[p])
    BY <1>0 DEF IInv, IncomingInv
  <2>2. Held(p)' = nextStage[p]
    BY <1>0 DEF Held, Round
  <2>3. \A r \in Rank \ {p} : /\ Held(r)' = Held(r) /\ pc'[r] = pc[r]
                             /\ workspace'[r] = workspace[r]
    BY DEF IInv, TypeOK, Held
  <2>4. QED
    BY <1>0, <2>1, <2>2, <2>3 DEF IInv, HeldInv
<1>7. IncomingInv'
  <2>1. ~Reading(p)'
    BY <1>0 DEF Reading, IInv, TypeOK
  <2>2. \A r \in Rank \ {p} :
          /\ Reading(r)' => Reading(r)
          /\ incoming(r)' = incoming(r) /\ nextStage'[r] = nextStage[r]
          /\ \A op \in Operand : ReadOf(r, op)' = ReadOf(r, op)
    BY DEF IInv, TypeOK, Reading, ReadOf, incoming
  <2>3. QED
    BY <2>1, <2>2 DEF IInv, IncomingInv
<1>8. QED
  BY <1>1, <1>2, <1>3, <1>4, <1>5, <1>6, <1>7 DEF IInv

LEMMA ComputeStep ==
  ASSUME IInv, NEW p \in Rank, Compute(p) PROVE IInv'
<1> USE DEF Compute, Goto, transport
<1>1. TypeOK'
  BY DEF IInv, TypeOK, TransportTypeOK, Location
<1>2. BarrierInv'
  BY DEF IInv, BarrierInv, Entered, Left, TypeOK
<1>3. \A r \in Rank :
        /\ Reading(r)' <=> Reading(r)
        /\ incoming(r)' = incoming(r) /\ Held(r)' = Held(r)
        /\ \A op \in Operand : ReadOf(r, op)' = ReadOf(r, op)
  BY DEF IInv, TypeOK, Reading, incoming, Held, ReadOf
<1>4. FlagInv' /\ InputInv' /\ ReadInv' /\ StageInv' /\ HeldInv' /\ IncomingInv'
  BY <1>3 DEF IInv, FlagInv, InputInv, ReadInv, StageInv, HeldInv,
              IncomingInv, TypeOK
<1>5. QED
  BY <1>1, <1>2, <1>4 DEF IInv

LEMMA FinishEnterStep ==
  ASSUME IInv, NEW p \in Rank, FinishEnter(p) PROVE IInv'
<1> USE DEF FinishEnter, Goto, finishEnter, EnterBarrier
<1>1. TypeOK'
  BY DEF IInv, TypeOK, TransportTypeOK, Location
<1>2. BarrierInv'
  BY ProductsAssumption
  DEF IInv, BarrierInv, Entered, Left, TypeOK, TransportTypeOK, Version
<1>3. \A r \in Rank :
        /\ Reading(r)' <=> Reading(r)
        /\ incoming(r)' = incoming(r) /\ Held(r)' = Held(r)
        /\ \A op \in Operand : ReadOf(r, op)' = ReadOf(r, op)
  BY DEF IInv, TypeOK, Reading, incoming, Held, ReadOf
<1>4. FlagInv' /\ InputInv' /\ ReadInv' /\ StageInv' /\ HeldInv' /\ IncomingInv'
  BY <1>3 DEF IInv, FlagInv, InputInv, ReadInv, StageInv, HeldInv,
              IncomingInv, TypeOK
<1>5. QED
  BY <1>1, <1>2, <1>4 DEF IInv

LEMMA FinishLeaveStep ==
  ASSUME IInv, NEW p \in Rank, FinishLeave(p) PROVE IInv'
<1> USE DEF FinishLeave, Goto, finishLeave, readersDone, syncInputs
<1>1. TypeOK'
  BY DEF IInv, TypeOK, TransportTypeOK, Location
<1>2. BarrierInv'
  BY ProductsAssumption
  DEF IInv, BarrierInv, Entered, Left, AllEntered, TypeOK, TransportTypeOK,
      Version
<1>3. \A r \in Rank :
        /\ Reading(r)' <=> Reading(r)
        /\ incoming(r)' = incoming(r) /\ Held(r)' = Held(r)
        /\ \A op \in Operand : ReadOf(r, op)' = ReadOf(r, op)
  BY DEF IInv, TypeOK, Reading, incoming, Held, ReadOf
<1>4. FlagInv' /\ ReadInv' /\ StageInv' /\ HeldInv' /\ IncomingInv'
  BY <1>3 DEF IInv, FlagInv, ReadInv, StageInv, HeldInv, IncomingInv, TypeOK,
              TransportTypeOK
<1>5. InputInv'
  BY DEF IInv, InputInv, TypeOK, TransportTypeOK
<1>6. QED
  BY <1>1, <1>2, <1>4, <1>5 DEF IInv

LEMMA CloseStep ==
  ASSUME IInv, NEW p \in Rank, Close(p) PROVE IInv'
<1> USE DEF Close, Goto, transport
<1>1. TypeOK'
  BY DEF IInv, TypeOK, TransportTypeOK, Location
<1>2. BarrierInv'
  BY DEF IInv, BarrierInv, Entered, Left, TypeOK
<1>3. private[p] = product[p]
  BY ProductsAssumption DEF IInv, InputInv, TypeOK, TransportTypeOK, Version
<1>4. \A r \in Rank :
        /\ Reading(r)' <=> Reading(r)
        /\ incoming(r)' = incoming(r) /\ Held(r)' = Held(r)
        /\ \A op \in Operand : ReadOf(r, op)' = ReadOf(r, op)
  BY DEF IInv, TypeOK, Reading, incoming, Held, ReadOf
<1>5. FlagInv' /\ InputInv' /\ ReadInv' /\ StageInv' /\ HeldInv' /\ IncomingInv'
  BY <1>3, <1>4 DEF IInv, FlagInv, InputInv, ReadInv, StageInv, HeldInv,
                    IncomingInv, TypeOK
<1>6. QED
  BY <1>1, <1>2, <1>5 DEF IInv

LEMMA StutterStep ==
  ASSUME IInv, UNCHANGED vars PROVE IInv'
BY DEF IInv, vars, transport, TypeOK, TransportTypeOK, BarrierInv, Entered,
       Left, FlagInv, InputInv, ReadInv, ReadOf, Reading, incoming, StageInv,
       HeldInv, Held, IncomingInv

LEMMA NextIInv == IInv /\ [Next]_vars => IInv'
<1> SUFFICES ASSUME IInv, [Next]_vars PROVE IInv'
  OBVIOUS
<1>1. CASE UNCHANGED vars
  BY <1>1, StutterStep
<1>2. ASSUME NEW p \in Rank, Step(p) PROVE IInv'
  BY <1>2, PrepareStep, BeginEnterStep, BeginLeaveStep, PrimeStep, LandStep,
     FetchCompleteStep, PrefetchStep, ComputeStep, FinishEnterStep,
     FinishLeaveStep, CloseStep DEF Step
<1>3. QED
  BY <1>1, <1>2 DEF Next, Done

\* IInv holds in every reachable state.
LEMMA Invariance == Spec => []IInv
BY InitIInv, NextIInv, PTL DEF Spec

\* The pipeline's variables keep their types.
THEOREM TypeCorrect == Spec => []TypeOK
<1>1. IInv => TypeOK
  BY DEF IInv
<1>2. QED
  BY <1>1, Invariance, PTL

\* On every grid, for any number of products, the pair held from the swap to
\* the end of the computation is the stage's, though the next one is landing.
THEOREM Freshness == Spec => []FreshTiles
<1>1. IInv => FreshTiles
  BY DEF IInv, HeldInv, FreshTiles
<1>2. QED
  BY <1>1, Invariance, PTL

\* No read in flight ever targets the held pair.
THEOREM DoubleBuffering == Spec => []IncomingApart
<1>1. IInv => IncomingApart
  BY DEF IInv, ReadInv, ReadOf, incoming, IncomingApart, TypeOK, Buffer
<1>2. QED
  BY <1>1, Invariance, PTL

-----------------------------------------------------------------------------

LEMMA PreparedInputsUnread ==
  ASSUME IInv, NEW p \in Rank, PrepareInputs(p),
         NEW q \in Rank, NEW rd \in reads[q]
  PROVE  rd.source # p
<1>1. /\ Reading(q) /\ rd.op \in Operand /\ rd.source # q
      /\ rd.source = Source(q, nextStage[q], rd.op)
  BY DEF IInv, ReadInv, ReadOf
<1>2. nextStage[q] \in Round /\ pc[q] \in {"fetch", "compute"}
  BY <1>1, GridAssumption DEF IInv, TypeOK, Reading, Round
<1>3. pc[rd.source] # "idle"
  BY <1>1, <1>2, SourceInRank, RemoteNeedsNodes, SameProduct DEF IInv
<1>4. QED
  BY <1>3 DEF PrepareInputs

\* On every grid no rank rewrites an input another rank is still reading,
\* prefetched stages included.
THEOREM WritesAwaitReaders == Spec => NoWriteUnderRead
<1> DEFINE A == \A r \in Rank : private'[r] # private[r] =>
                  \A q \in Rank : \A rd \in reads[q] : rd.source # r
<1>1. IInv /\ [Next]_vars => [A]_transport
  <2> SUFFICES ASSUME IInv, [Next]_vars,
                      NEW r \in Rank, private'[r] # private[r],
                      NEW q \in Rank, NEW rd \in reads[q]
               PROVE  rd.source # r
    OBVIOUS
  <2>1. PICK p \in Rank : Step(p)
    BY DEF Next, Done, vars, transport
  <2>2. PrepareInputs(p)
    BY <2>1 DEF Step, BeginEnter, beginEnter, BeginLeave, beginLeave, Prime,
                Prefetch, startFetch, Land, PerformRead, FetchComplete,
                completeFetch, Compute, FinishEnter, finishEnter,
                FinishLeave, finishLeave, Close, transport
  <2>3. p = r
    BY <2>2 DEF PrepareInputs, Prepare, IInv, TypeOK, TransportTypeOK
  <2>4. QED
    BY <2>2, <2>3, PreparedInputsUnread
<1>2. QED
  BY <1>1, Invariance, PTL DEF Spec, NoWriteUnderRead

-----------------------------------------------------------------------------
(* The backend implements TileExchange: fetch hands over at the swap.      *)

\* The exchange is stated over the same plan.
LEMMA SamePlan ==
  /\ Exchange!Rank = Rank
  /\ Exchange!Operand = Operand
  /\ \A r, s, op, g : Exchange!Expected(r, s, op, g) = Expected(r, s, op, g)
  /\ \A r, s, op : Exchange!Source(r, s, op) = Source(r, s, op)
  /\ Exchange!NoTiles = [op \in Operand |-> NoTile]
<1>1. /\ Exchange!Rank = Rank
      /\ Exchange!Operand = Operand
      /\ Exchange!NoTiles = [op \in Operand |-> NoTile]
  BY DEF Exchange!Rank, Rank, Exchange!Coord, Coord, Exchange!Operand,
         Operand, Exchange!NoTiles
<1>2. \A r, s, op : Exchange!Source(r, s, op) = Source(r, s, op)
  BY DEF Exchange!Source, Source, Exchange!aSource, aSource,
         Exchange!bSource, bSource, Exchange!inner, inner,
         Exchange!rankAt, rankAt
<1>3. \A r, s, op, g : Exchange!Expected(r, s, op, g) = Expected(r, s, op, g)
  BY <1>2 DEF Exchange!Expected, Expected, Exchange!Tile, Tile
<1>4. QED
  BY <1>1, <1>2, <1>3

\* What the exchange sees of the backend's state.
Status == [r \in Rank |-> StatusOf(r)]

StageView == [r \in Rank |-> StageOf(r)]

TileView == [r \in Rank |-> IF StatusOf(r) = "compute"
                            THEN memory[r][workspace[r]]
                            ELSE [op \in Operand |-> NoTile]]

LEMMA InitRefines == Init => Exchange!Init
BY SamePlan
DEF Init, TransportInit, Exchange!Init, StatusOf, StageOf

LEMMA PrepareRefines ==
  ASSUME IInv, NEW p \in Rank, PrepareInputs(p) PROVE Exchange!Prepare(p)
<1>1. Status' = Status /\ StageView' = StageView /\ TileView' = TileView
  BY DEF PrepareInputs, Prepare, Status, StatusOf, StageView, StageOf, Held,
         TileView
<1>2. QED
  BY <1>1 DEF PrepareInputs, Prepare, Exchange!Prepare, Status, StatusOf,
              StageView, TileView

LEMMA BeginRefines ==
  ASSUME IInv, NEW p \in Rank, BeginEnter(p) PROVE Exchange!begin(p)
<1> USE DEF BeginEnter, Goto, beginEnter
<1>1. /\ Status' = [Status EXCEPT ![p] = "active"]
      /\ StageView' = [StageView EXCEPT ![p] = 0]
      /\ TileView' = TileView
      /\ Status[p] = "idle"
  BY DEF IInv, TypeOK, Status, StatusOf, StageView, StageOf, Held, TileView
<1>2. QED
  BY <1>1 DEF Exchange!begin, Status, StageView, TileView

LEMMA FetchRefines ==
  ASSUME IInv, NEW p \in Rank, FetchComplete(p) PROVE Exchange!fetch(p)
<1> USE DEF FetchComplete, completeFetch, flushed, InPlan, swapped,
           advanced
<1>1. /\ nextStage[p] \in Round /\ nextStage[p] < Side
      /\ product[p] \in Version
      /\ incoming(p) \in Buffer /\ workspace'[p] = incoming(p)
      /\ nextStage'[p] = nextStage[p] + 1
      /\ pc'[p] \in {"prefetch", "compute"}
  <2>1. nextStage[p] \in Round /\ nextStage[p] < Side
    BY GridAssumption DEF IInv, TypeOK, Round
  <2>2. /\ product[p] \in Version
        /\ nextStage'[p] = nextStage[p] + 1
    BY DEF IInv, TypeOK, TransportTypeOK
  <2>3. incoming(p) \in Buffer /\ workspace'[p] = incoming(p)
    BY DEF IInv, TypeOK, Buffer, incoming
  <2>4. pc'[p] \in {"prefetch", "compute"}
    BY DEF IInv, TypeOK
  <2>5. QED
    BY <2>1, <2>2, <2>3, <2>4
<1>2. \A op \in Operand : private[Source(p, nextStage[p], op)] >= product[p]
  <2> SUFFICES ASSUME NEW op \in Operand
               PROVE  private[Source(p, nextStage[p], op)] = product[p]
    BY ProductsAssumption, <1>1 DEF Version
  <2>1. Source(p, nextStage[p], op) \in Rank
    BY <1>1, SourceInRank
  <2>2. CASE Source(p, nextStage[p], op) = p
    BY <2>2 DEF IInv, InputInv
  <2>3. CASE Source(p, nextStage[p], op) # p
    BY <1>1, <2>1, <2>3, RemoteNeedsNodes, SameProduct DEF IInv
  <2>4. QED
    BY <2>2, <2>3
<1>3. memory'[p][incoming(p)]
        = [op \in Operand |-> Expected(p, nextStage[p], op, product[p])]
  BY <1>1 DEF IInv, IncomingInv, Reading, TypeOK, TransportTypeOK
<1>4. /\ Status' = [Status EXCEPT ![p] = "compute"]
      /\ Status[p] = "active" /\ StageView[p] = nextStage[p]
  BY <1>1 DEF IInv, TypeOK, Status, StatusOf, StageView, StageOf
<1>5. StageView' = StageView
  <2>1. StageOf(p)' = nextStage[p] /\ StageOf(p) = nextStage[p]
    BY <1>1 DEF StageOf, Held, Round
  <2>2. \A r \in Rank \ {p} : StageOf(r)' = StageOf(r)
    BY DEF IInv, TypeOK, StageOf, Held
  <2>3. QED
    BY <2>1, <2>2 DEF StageView
<1>6. TileView' = [TileView EXCEPT ![p] = memory'[p][incoming(p)]]
  BY <1>1 DEF IInv, TypeOK, StatusOf, TileView
<1>7. /\ \A op \in Exchange!Operand :
           private[Exchange!Source(p, StageView[p], op)] >= product[p]
      /\ memory'[p][incoming(p)]
           = [op \in Exchange!Operand |->
                Exchange!Expected(p, StageView[p], op, product[p])]
  BY <1>2, <1>3, <1>4, SamePlan
<1>8. QED
  BY <1>1, <1>4, <1>5, <1>6, <1>7
  DEF Exchange!fetch, Status, StageView, TileView

LEMMA ConsumeRefines ==
  ASSUME IInv, NEW p \in Rank, Compute(p) PROVE Exchange!Consume(p)
<1> USE DEF Compute, Goto, transport
<1>1. /\ Status' = [Status EXCEPT ![p] = "active"]
      /\ Status[p] = "compute"
      /\ TileView' = [TileView EXCEPT ![p] = [op \in Operand |-> NoTile]]
  BY DEF IInv, TypeOK, Status, StatusOf, TileView
<1>2. StageView' = [StageView EXCEPT ![p] = @ + 1]
  <2>1. StageOf(p)' = StageOf(p) + 1
    <3>1. nextStage[p] \in Int
      BY GridAssumption DEF IInv, TypeOK
    <3>2. StageOf(p)' = nextStage[p] /\ StageOf(p) = nextStage[p] - 1
      BY DEF IInv, TypeOK, StageOf, Held
    <3>3. QED
      BY <3>1, <3>2
  <2>2. \A r \in Rank \ {p} : StageOf(r)' = StageOf(r)
    BY DEF IInv, TypeOK, StageOf, Held
  <2>3. QED
    BY <2>1, <2>2 DEF StageView
<1>3. QED
  BY <1>1, <1>2, SamePlan
  DEF Exchange!Consume, Status, StageView, TileView

LEMMA FinishRefines ==
  ASSUME IInv, NEW p \in Rank, FinishLeave(p) PROVE Exchange!finish(p)
<1> USE DEF FinishLeave, Goto, finishLeave, readersDone
<1>1. /\ Status' = [Status EXCEPT ![p] = "idle"]
      /\ StageView' = StageView
      /\ TileView' = TileView
  BY DEF IInv, TypeOK, Status, StatusOf, StageView, StageOf, Held, TileView
<1>2. Status[p] = "active" /\ StageView[p] = Side
  BY DEF IInv, StageInv, Status, StatusOf, StageView, StageOf
<1>3. QED
  BY <1>1, <1>2 DEF Exchange!finish, Status, StageView, TileView

LEMMA CloseRefines ==
  ASSUME IInv, NEW p \in Rank, Close(p) PROVE Exchange!close(p)
<1> USE DEF Close, Goto, transport
<1>1. /\ Status' = [Status EXCEPT ![p] = "closed"]
      /\ Status[p] = "idle"
      /\ StageView' = StageView
      /\ TileView' = TileView
  BY DEF IInv, TypeOK, Status, StatusOf, StageView, StageOf, Held, TileView
<1>2. QED
  BY <1>1 DEF Exchange!close, Status, StageView, TileView

\* The other steps stay inside begin, fetch or finish.
LEMMA HiddenRefines ==
  ASSUME IInv, NEW p \in Rank,
         \/ BeginLeave(p) \/ Prime(p) \/ Prefetch(p) \/ Land(p)
         \/ FinishEnter(p)
  PROVE  UNCHANGED Exchange!vars
<1>1. Status' = Status /\ StageView' = StageView /\ TileView' = TileView
  <2>1. CASE BeginLeave(p)
    BY <2>1 DEF BeginLeave, Goto, beginLeave, IInv, TypeOK, Status, StatusOf,
                StageView, StageOf, Held, TileView
  <2>2. CASE Prime(p)
    <3>1. nextStage[p] = 0
      BY <2>2 DEF Prime, Goto, IInv, StageInv
    <3>2. \A r \in Rank \ {p} : memory'[r] = memory[r]
      BY <2>2 DEF Prime, startFetch, IInv, TypeOK, TransportTypeOK
    <3>3. QED
      BY <2>2, <3>1, <3>2 DEF Prime, Goto, IInv, TypeOK, Status, StatusOf,
                              StageView, StageOf, Held, TileView
  <2>3. CASE Prefetch(p)
    <3>1. \A r \in Rank : memory'[r][workspace[r]] = memory[r][workspace[r]]
      <4>1. incoming(p) \in Buffer /\ incoming(p) # workspace[p]
        BY DEF IInv, TypeOK, Buffer, incoming
      <4>2. QED
        BY <2>3, <4>1 DEF Prefetch, startFetch, IInv, TypeOK, TransportTypeOK
    <3>2. QED
      BY <2>3, <3>1 DEF Prefetch, Goto, IInv, TypeOK, Status, StatusOf,
                        StageView, StageOf, Held, TileView
  <2>4. CASE Land(p)
    <3>1. \A r \in Rank : memory'[r][workspace[r]] = memory[r][workspace[r]]
      <4>1. \A rd \in reads[p] : rd.buffer # workspace[p]
        BY DEF IInv, ReadInv, ReadOf, TypeOK, incoming, Buffer
      <4>2. QED
        BY <2>4, <4>1 DEF Land, PerformRead, IInv, TypeOK, TransportTypeOK
    <3>2. QED
      BY <2>4, <3>1 DEF Land, Status, StatusOf, StageView, StageOf, Held,
                        TileView
  <2>5. CASE FinishEnter(p)
    BY <2>5 DEF FinishEnter, Goto, finishEnter, IInv, TypeOK, Status,
                StatusOf, StageView, StageOf, Held, TileView
  <2>6. QED
    BY <2>1, <2>2, <2>3, <2>4, <2>5
<1>2. UNCHANGED <<product, private>>
  BY DEF BeginLeave, beginLeave, Prime, Prefetch, startFetch, Land,
         PerformRead, FinishEnter, finishEnter
<1>3. QED
  BY <1>1, <1>2 DEF Exchange!vars, Status, StageView, TileView

\* On every grid the GET pipeline implements the tile exchange.
THEOREM Implementation == Spec => ImplementsExchange
<1>1. IInv /\ [Next]_vars => [Exchange!Next]_(Exchange!vars)
  <2> SUFFICES ASSUME IInv, [Next]_vars
               PROVE  [Exchange!Next]_(Exchange!vars)
    OBVIOUS
  <2>1. CASE UNCHANGED vars
    <3>1. Status' = Status /\ StageView' = StageView /\ TileView' = TileView
      BY <2>1 DEF vars, transport, Status, StatusOf, StageView, StageOf,
                  Held, TileView
    <3>2. QED
      BY <2>1, <3>1
      DEF vars, transport, Exchange!vars, Status, StageView, TileView
  <2>2. ASSUME NEW p \in Rank, Step(p)
        PROVE  [Exchange!Next]_(Exchange!vars)
    <3>1. Exchange!Step(p) \/ UNCHANGED Exchange!vars
      BY <2>2, PrepareRefines, BeginRefines, FetchRefines, ConsumeRefines,
         FinishRefines, CloseRefines, HiddenRefines DEF Step, Exchange!Step
    <3>2. QED
      BY <3>1, SamePlan DEF Exchange!Next
  <2>3. QED
    BY <2>1, <2>2 DEF Next, Done
<1>2. QED
  BY <1>1, InitRefines, Invariance, PTL
  DEF Spec, ImplementsExchange, Exchange!Spec

-----------------------------------------------------------------------------
(***************************************************************************)
(* The plain GET backend, which fetches a stage before it computes it.     *)
(***************************************************************************)

VARIABLE stage

Get == INSTANCE TridentGet

LEMMA GetPlan ==
  /\ Get!Rank = Rank /\ Get!Round = Round /\ Get!Operand = Operand
  /\ \A r, s, op : Get!Source(r, s, op) = Source(r, s, op)
BY DEF Get!Rank, Rank, Get!Coord, Coord, Get!Round, Round, Get!Operand, Operand,
       Get!Source, Source, Get!aSource, aSource, Get!bSource, bSource,
       Get!inner, inner, Get!rankAt, rankAt

LEMMA GetSourceInRank ==
  ASSUME NEW r \in Get!Rank, NEW s \in Get!Round, NEW op \in Get!Operand
  PROVE  Get!Source(r, s, op) \in Get!Rank
BY GetPlan, SourceInRank

LEMMA GetRemoteNeedsNodes ==
  ASSUME NEW r \in Get!Rank, NEW s \in Get!Round, NEW op \in Get!Operand,
         Get!Source(r, s, op) # r
  PROVE  Side # 1
BY GetPlan, RemoteNeedsNodes

\* Barriers a rank has entered, from where it stands.
GetEntered(r) ==
  IF pc[r] \in {"idle", "finishBarrier", "closed"} THEN 2 * product[r]
  ELSE 2 * product[r] - 1

\* Barriers it has left: as many were entered by everybody.
GetLeft(r) ==
  IF pc[r] \in {"idle", "closed"} THEN 2 * product[r]
  ELSE IF pc[r] = "beginBarrier" THEN 2 * product[r] - 2
  ELSE 2 * product[r] - 1

GetBarrierInv ==
  /\ \A r \in Get!Rank : entered[r] = GetEntered(r)
  /\ \A r \in Get!Rank : pc[r] \notin {"idle", "closed"} => product[r] >= 1
  /\ Side # 1 => \A r, q \in Get!Rank : entered[q] >= GetLeft(r)

GetFlagInv ==
  \A r \in Get!Rank :
    /\ active[r] <=> pc[r] \in {"fetch", "fetching", "compute", "finishBarrier"}
    /\ pending[r] <=> pc[r] = "fetching"

GetInputInv ==
  \A r \in Get!Rank :
    /\ public[r] = product[r]
    /\ \/ private[r] = product[r]
       \/ pc[r] = "idle" /\ private[r] = product[r] + 1

GetReadOf(r, op) == [op |-> op, source |-> Get!Source(r, stage[r], op), buffer |-> 0]

GetReadInv ==
  \A r \in Get!Rank : \A rd \in reads[r] :
    /\ pc[r] = "fetching"
    /\ rd.op \in Get!Operand
    /\ rd = GetReadOf(r, rd.op)
    /\ rd.source # r

GetTileInv ==
  /\ \A r \in Get!Rank : pc[r] = "finishBarrier" => stage[r] = Side
  /\ \A r \in Get!Rank : pc[r] \in {"fetching", "compute"} =>
    /\ stage[r] < Side
    /\ \A op \in Get!Operand :
         \/ pc[r] = "fetching" /\ GetReadOf(r, op) \in reads[r]
         \/ memory[r][0][op] = Get!Expected(r, stage[r], op, product[r])

GetIInv ==
  /\ Get!TypeOK
  /\ GetBarrierInv
  /\ GetFlagInv
  /\ GetInputInv
  /\ GetReadInv
  /\ GetTileInv

\* Inside a product every other rank has entered the same product and not
\* left it: its inputs are the ones of this product, in both copies.
LEMMA GetSameProduct ==
  ASSUME Get!TypeOK, GetBarrierInv, GetInputInv, Side # 1,
         NEW r \in Get!Rank, NEW q \in Get!Rank,
         pc[r] \in {"fetch", "fetching", "compute"}
  PROVE  /\ private[q] = product[r]
         /\ public[q] = product[r]
         /\ pc[q] \notin {"idle", "closed"}
<1>1. /\ product[r] \in Nat /\ product[q] \in Nat
      /\ pc[q] \in Get!Location
  BY ProductsAssumption DEF Get!TypeOK, Get!TransportTypeOK, Get!Version
<1>2. /\ entered[r] = 2 * product[r] - 1
      /\ entered[q] = GetEntered(q)
      /\ entered[r] >= GetLeft(q)
      /\ entered[q] >= 2 * product[r] - 1
  BY DEF GetBarrierInv, GetEntered, GetLeft
<1>3. /\ product[q] = product[r]
      /\ pc[q] \notin {"idle", "closed"}
  BY <1>1, <1>2 DEF GetEntered, GetLeft, Get!Location
<1>4. QED
  BY <1>3 DEF GetInputInv

LEMMA GetInitIInv == Get!Init => GetIInv
<1> SUFFICES ASSUME Get!Init PROVE GetIInv
  OBVIOUS
<1>1. Get!TypeOK
  BY GridAssumption, ProductsAssumption
  DEF Get!Init, Get!TransportInit, Get!TypeOK, Get!TransportTypeOK, Get!Version, Get!Location,
      Get!TileOrNone, Get!Buffer
<1>2. GetBarrierInv
  BY DEF Get!Init, Get!TransportInit, GetBarrierInv, GetEntered, GetLeft
<1>3. GetFlagInv /\ GetInputInv /\ GetReadInv /\ GetTileInv
  BY DEF Get!Init, Get!TransportInit, GetFlagInv, GetInputInv, GetReadInv, GetTileInv
<1>4. QED
  BY <1>1, <1>2, <1>3 DEF GetIInv

-----------------------------------------------------------------------------
(* One lemma per action.                                                   *)

LEMMA GetPrepareStep ==
  ASSUME GetIInv, NEW p \in Get!Rank, Get!PrepareInputs(p) PROVE GetIInv'
<1>1. Get!TypeOK'
  BY ProductsAssumption
  DEF GetIInv, Get!TypeOK, Get!TransportTypeOK, Get!Version, Get!PrepareInputs, Get!Prepare
<1>2. GetBarrierInv'
  BY DEF GetIInv, GetBarrierInv, GetEntered, GetLeft, Get!PrepareInputs, Get!Prepare
<1>3. GetFlagInv' /\ GetReadInv' /\ GetTileInv'
  BY DEF GetIInv, GetFlagInv, GetReadInv, GetReadOf, GetTileInv, Get!PrepareInputs, Get!Prepare
<1>4. GetInputInv'
  BY DEF GetIInv, GetInputInv, Get!PrepareInputs, Get!Prepare, Get!TypeOK, Get!TransportTypeOK
<1>5. QED
  BY <1>1, <1>2, <1>3, <1>4 DEF GetIInv

LEMMA GetBeginEnterStep ==
  ASSUME GetIInv, NEW p \in Get!Rank, Get!BeginEnter(p) PROVE GetIInv'
<1> USE DEF Get!BeginEnter, Get!Goto, Get!beginEnter, Get!syncInputs, Get!EnterBarrier
<1>1. Get!TypeOK'
  BY ProductsAssumption
  DEF GetIInv, Get!TypeOK, Get!TransportTypeOK, Get!Version, Get!Location
<1>2. GetBarrierInv'
  BY ProductsAssumption
  DEF GetIInv, GetBarrierInv, GetEntered, GetLeft, Get!TypeOK, Get!TransportTypeOK, Get!Version
<1>3. GetFlagInv' /\ GetReadInv' /\ GetTileInv'
  BY DEF GetIInv, GetFlagInv, GetReadInv, GetReadOf, GetTileInv, Get!TypeOK, Get!TransportTypeOK
<1>4. GetInputInv'
  BY DEF GetIInv, GetInputInv, Get!TypeOK, Get!TransportTypeOK
<1>5. QED
  BY <1>1, <1>2, <1>3, <1>4 DEF GetIInv

LEMMA GetBeginLeaveStep ==
  ASSUME GetIInv, NEW p \in Get!Rank, Get!BeginLeave(p) PROVE GetIInv'
<1> USE DEF Get!BeginLeave, Get!Goto, Get!beginLeave, Get!inputsReady
<1>1. Get!TypeOK'
  BY GridAssumption DEF GetIInv, Get!TypeOK, Get!TransportTypeOK, Get!Location
<1>2. GetBarrierInv'
  BY ProductsAssumption
  DEF GetIInv, GetBarrierInv, GetEntered, GetLeft, Get!AllEntered, Get!TypeOK, Get!TransportTypeOK,
      Get!Version
<1>3. GetFlagInv' /\ GetInputInv' /\ GetReadInv' /\ GetTileInv'
  BY DEF GetIInv, GetFlagInv, GetInputInv, GetReadInv, GetReadOf, GetTileInv, Get!TypeOK,
         Get!TransportTypeOK
<1>4. QED
  BY <1>1, <1>2, <1>3 DEF GetIInv

LEMMA GetFetchStartStep ==
  ASSUME GetIInv, NEW p \in Get!Rank, Get!FetchStart(p) PROVE GetIInv'
<1> USE DEF Get!FetchStart, Get!Goto, Get!startFetch, Get!MoreStages
<1>0. /\ stage[p] \in Get!Round
      /\ \A op \in Get!Operand : Get!Source(p, stage[p], op) \in Get!Rank
  BY GridAssumption, GetSourceInRank DEF GetIInv, Get!TypeOK, Get!Round
<1>1. Get!TypeOK'
  <2>1. reads' \in [Get!Rank -> SUBSET Get!Read]
    BY <1>0 DEF GetIInv, Get!TypeOK, Get!TransportTypeOK, Get!Read, Get!Buffer
  <2>2. memory' \in [Get!Rank -> [Get!Buffer -> [Get!Operand -> Get!TileOrNone]]]
    BY <1>0 DEF GetIInv, Get!TypeOK, Get!TransportTypeOK, Get!Buffer, Get!Tile, Get!TileOrNone
  <2>3. QED
    BY <2>1, <2>2 DEF GetIInv, Get!TypeOK, Get!TransportTypeOK, Get!Location
<1>2. GetBarrierInv'
  BY DEF GetIInv, GetBarrierInv, GetEntered, GetLeft, Get!TypeOK
<1>3. GetFlagInv' /\ GetInputInv'
  BY DEF GetIInv, GetFlagInv, GetInputInv, Get!TypeOK, Get!TransportTypeOK
<1>4. GetReadInv'
  BY DEF GetIInv, GetReadInv, GetReadOf, Get!TypeOK, Get!TransportTypeOK
<1>5. GetTileInv'
  <2>1. private[p] = product[p]
    BY DEF GetIInv, GetInputInv
  <2>2. \A op \in Get!Operand :
          \/ GetReadOf(p, op) \in reads'[p]
          \/ memory'[p][0][op] = Get!Expected(p, stage[p], op, product[p])
    BY <2>1 DEF GetIInv, Get!TypeOK, Get!TransportTypeOK, GetReadOf, Get!Expected, Get!Buffer
  <2>3. QED
    BY <1>0, <2>2 DEF GetIInv, GetTileInv, Get!TypeOK, Get!TransportTypeOK, GetReadOf, Get!Round
<1>6. QED
  BY <1>1, <1>2, <1>3, <1>4, <1>5 DEF GetIInv

LEMMA GetLandStep ==
  ASSUME GetIInv, NEW p \in Get!Rank, Get!Land(p) PROVE GetIInv'
<1>0. PICK rd \in reads[p] : \E v \in {public[rd.source], private[rd.source]} :
        /\ memory' = [memory EXCEPT ![p][rd.buffer][rd.op] = Get!Tile(rd.source, v)]
        /\ reads' = [reads EXCEPT ![p] = @ \ {rd}]
        /\ UNCHANGED <<product, entered, active, pending, private, public>>
        /\ UNCHANGED <<pc, stage>>
  BY DEF Get!Land, Get!PerformRead
<1>1. PICK v \in {public[rd.source], private[rd.source]} :
        /\ memory' = [memory EXCEPT ![p][rd.buffer][rd.op] = Get!Tile(rd.source, v)]
        /\ reads' = [reads EXCEPT ![p] = @ \ {rd}]
        /\ UNCHANGED <<product, entered, active, pending, private, public>>
        /\ UNCHANGED <<pc, stage>>
  BY <1>0
<1>2. /\ pc[p] = "fetching" /\ stage[p] \in Get!Round
      /\ rd.op \in Get!Operand /\ rd.buffer = 0
      /\ rd.source \in Get!Rank /\ rd.source # p
      /\ rd.source = Get!Source(p, stage[p], rd.op)
      /\ rd = GetReadOf(p, rd.op)
  BY <1>1, GridAssumption
  DEF GetIInv, GetReadInv, GetReadOf, GetTileInv, Get!TypeOK, Get!TransportTypeOK, Get!Read, Get!Round
<1>3. v = product[p]
  <2>1. Side # 1
    BY <1>2, GetRemoteNeedsNodes
  <2>2. QED
    BY <1>1, <1>2, <2>1, GetSameProduct DEF GetIInv
<1>4. Get!TypeOK'
  <2>1. Get!Tile(rd.source, v) \in Get!TileOrNone
    BY <1>2, <1>3 DEF GetIInv, Get!TypeOK, Get!TransportTypeOK, Get!Tile, Get!TileOrNone
  <2>2. memory' \in [Get!Rank -> [Get!Buffer -> [Get!Operand -> Get!TileOrNone]]]
    BY <1>1, <1>2, <2>1 DEF GetIInv, Get!TypeOK, Get!TransportTypeOK, Get!Buffer
  <2>3. QED
    BY <1>1, <2>2 DEF GetIInv, Get!TypeOK, Get!TransportTypeOK
<1>5. GetBarrierInv' /\ GetFlagInv' /\ GetInputInv'
  BY <1>1 DEF GetIInv, GetBarrierInv, GetEntered, GetLeft, GetFlagInv, GetInputInv
<1>6. GetReadInv'
  BY <1>1 DEF GetIInv, GetReadInv, GetReadOf, Get!TypeOK, Get!TransportTypeOK
<1>7. GetTileInv'
  <2> SUFFICES ASSUME NEW r \in Get!Rank, pc[r] \in {"fetching", "compute"},
                      NEW op \in Get!Operand
               PROVE  \/ pc[r] = "fetching" /\ GetReadOf(r, op) \in reads'[r]
                      \/ memory'[r][0][op]
                           = Get!Expected(r, stage[r], op, product[r])
    BY <1>1 DEF GetIInv, GetTileInv, GetReadOf
  <2>1. CASE r = p /\ op = rd.op
    BY <1>1, <1>2, <1>3, <2>1
    DEF GetIInv, Get!TypeOK, Get!TransportTypeOK, Get!Buffer, Get!Expected
  <2>2. CASE r = p /\ op # rd.op
    <3>1. GetReadOf(r, op) # rd
      BY <2>2 DEF GetReadOf
    <3>2. memory'[r][0][op] = memory[r][0][op]
      BY <1>1, <1>2, <2>2 DEF GetIInv, Get!TypeOK, Get!TransportTypeOK, Get!Buffer
    <3>3. QED
      BY <1>1, <3>1, <3>2, <2>2 DEF GetIInv, GetTileInv, Get!TypeOK, Get!TransportTypeOK
  <2>3. CASE r # p
    BY <1>1, <2>3 DEF GetIInv, GetTileInv, Get!TypeOK, Get!TransportTypeOK
  <2>4. QED
    BY <2>1, <2>2, <2>3
<1>8. QED
  BY <1>4, <1>5, <1>6, <1>7 DEF GetIInv

LEMMA GetFetchCompleteStep ==
  ASSUME GetIInv, NEW p \in Get!Rank, Get!FetchComplete(p) PROVE GetIInv'
<1> USE DEF Get!FetchComplete, Get!Goto, Get!completeFetch, Get!flushed
<1>1. Get!TypeOK'
  BY DEF GetIInv, Get!TypeOK, Get!TransportTypeOK, Get!Location
<1>2. GetBarrierInv'
  BY DEF GetIInv, GetBarrierInv, GetEntered, GetLeft, Get!TypeOK
<1>3. GetFlagInv' /\ GetInputInv' /\ GetReadInv'
  BY DEF GetIInv, GetFlagInv, GetInputInv, GetReadInv, GetReadOf, Get!TypeOK, Get!TransportTypeOK
<1>4. GetTileInv'
  BY DEF GetIInv, GetTileInv, GetReadOf, Get!TypeOK
<1>5. QED
  BY <1>1, <1>2, <1>3, <1>4 DEF GetIInv

LEMMA GetComputeStep ==
  ASSUME GetIInv, NEW p \in Get!Rank, Get!Compute(p) PROVE GetIInv'
<1> USE DEF Get!Compute, Get!Goto, Get!transport
<1>1. Get!TypeOK'
  BY GridAssumption DEF GetIInv, Get!TypeOK, Get!TransportTypeOK, Get!Location, GetTileInv
<1>2. GetBarrierInv'
  BY DEF GetIInv, GetBarrierInv, GetEntered, GetLeft, Get!TypeOK
<1>3. GetFlagInv' /\ GetInputInv' /\ GetReadInv' /\ GetTileInv'
  BY DEF GetIInv, GetFlagInv, GetInputInv, GetReadInv, GetReadOf, GetTileInv, Get!TypeOK
<1>4. QED
  BY <1>1, <1>2, <1>3 DEF GetIInv

LEMMA GetFinishEnterStep ==
  ASSUME GetIInv, NEW p \in Get!Rank, Get!FinishEnter(p) PROVE GetIInv'
<1> USE DEF Get!FinishEnter, Get!Goto, Get!finishEnter, Get!EnterBarrier
<1>1. Get!TypeOK'
  BY DEF GetIInv, Get!TypeOK, Get!TransportTypeOK, Get!Location
<1>2. GetBarrierInv'
  BY ProductsAssumption
  DEF GetIInv, GetBarrierInv, GetEntered, GetLeft, Get!TypeOK, Get!TransportTypeOK, Get!Version
<1>3. GetFlagInv' /\ GetInputInv' /\ GetReadInv' /\ GetTileInv'
  BY DEF GetIInv, GetFlagInv, GetInputInv, GetReadInv, GetReadOf, GetTileInv, Get!TypeOK
<1>4. QED
  BY <1>1, <1>2, <1>3 DEF GetIInv

LEMMA GetFinishLeaveStep ==
  ASSUME GetIInv, NEW p \in Get!Rank, Get!FinishLeave(p) PROVE GetIInv'
<1> USE DEF Get!FinishLeave, Get!Goto, Get!finishLeave, Get!readersDone, Get!syncInputs
<1>1. Get!TypeOK'
  BY DEF GetIInv, Get!TypeOK, Get!TransportTypeOK, Get!Location
<1>2. GetBarrierInv'
  BY ProductsAssumption
  DEF GetIInv, GetBarrierInv, GetEntered, GetLeft, Get!AllEntered, Get!TypeOK, Get!TransportTypeOK,
      Get!Version
<1>3. GetFlagInv' /\ GetInputInv' /\ GetReadInv' /\ GetTileInv'
  BY DEF GetIInv, GetFlagInv, GetInputInv, GetReadInv, GetReadOf, GetTileInv, Get!TypeOK,
         Get!TransportTypeOK
<1>4. QED
  BY <1>1, <1>2, <1>3 DEF GetIInv

LEMMA GetCloseStep ==
  ASSUME GetIInv, NEW p \in Get!Rank, Get!Close(p) PROVE GetIInv'
<1> USE DEF Get!Close, Get!Goto, Get!transport
<1>1. Get!TypeOK'
  BY DEF GetIInv, Get!TypeOK, Get!TransportTypeOK, Get!Location
<1>2. GetBarrierInv'
  BY DEF GetIInv, GetBarrierInv, GetEntered, GetLeft, Get!TypeOK
<1>3. private[p] = product[p]
  BY ProductsAssumption DEF GetIInv, GetInputInv, Get!TypeOK, Get!TransportTypeOK, Get!Version
<1>4. GetFlagInv' /\ GetInputInv' /\ GetReadInv' /\ GetTileInv'
  BY <1>3 DEF GetIInv, GetFlagInv, GetInputInv, GetReadInv, GetReadOf, GetTileInv, Get!TypeOK
<1>5. QED
  BY <1>1, <1>2, <1>4 DEF GetIInv

LEMMA GetStutterStep ==
  ASSUME GetIInv, UNCHANGED Get!vars PROVE GetIInv'
BY DEF GetIInv, Get!vars, Get!transport, Get!TypeOK, Get!TransportTypeOK, GetBarrierInv, GetEntered,
       GetLeft, GetFlagInv, GetInputInv, GetReadInv, GetReadOf, GetTileInv

LEMMA GetNextIInv == GetIInv /\ [Get!Next]_(Get!vars) => GetIInv'
<1> SUFFICES ASSUME GetIInv, [Get!Next]_(Get!vars) PROVE GetIInv'
  OBVIOUS
<1>1. CASE UNCHANGED Get!vars
  BY <1>1, GetStutterStep
<1>2. ASSUME NEW p \in Get!Rank, Get!Step(p) PROVE GetIInv'
  BY <1>2, GetPrepareStep, GetBeginEnterStep, GetBeginLeaveStep, GetFetchStartStep,
     GetLandStep, GetFetchCompleteStep, GetComputeStep, GetFinishEnterStep,
     GetFinishLeaveStep, GetCloseStep DEF Get!Step
<1>3. QED
  BY <1>1, <1>2 DEF Get!Next, Get!Done

\* IInv holds in every reachable state.
LEMMA GetInvariance == Get!Spec => []GetIInv
BY GetInitIInv, GetNextIInv, PTL DEF Get!Spec

\* The GET backend's variables keep their types.
THEOREM GetTypeCorrect == Get!Spec => []Get!TypeOK
<1>1. GetIInv => Get!TypeOK
  BY DEF GetIInv
<1>2. QED
  BY <1>1, GetInvariance, PTL

\* On every grid, for any number of products, a stage is computed from the
\* tiles its sources prepared for that product.
THEOREM GetFreshness == Get!Spec => []Get!FreshTiles
<1>1. GetIInv => Get!FreshTiles
  BY DEF GetIInv, GetTileInv, Get!FreshTiles
<1>2. QED
  BY <1>1, GetInvariance, PTL

-----------------------------------------------------------------------------

LEMMA GetPreparedInputsUnread ==
  ASSUME GetIInv, NEW p \in Get!Rank, Get!PrepareInputs(p),
         NEW q \in Get!Rank, NEW rd \in reads[q]
  PROVE  rd.source # p
<1>1. /\ pc[q] = "fetching" /\ stage[q] \in Get!Round
      /\ rd.op \in Get!Operand /\ rd.source \in Get!Rank /\ rd.source # q
      /\ rd.source = Get!Source(q, stage[q], rd.op)
  BY GridAssumption
  DEF GetIInv, GetReadInv, GetReadOf, GetTileInv, Get!TypeOK, Get!TransportTypeOK, Get!Read, Get!Round
<1>2. pc[rd.source] # "idle"
  BY <1>1, GetRemoteNeedsNodes, GetSameProduct DEF GetIInv
<1>3. QED
  BY <1>2 DEF Get!PrepareInputs

\* On every grid no rank rewrites an input another rank is still reading.
THEOREM GetWritesAwaitReaders == Get!Spec => NoWriteUnderRead
<1> DEFINE A == \A r \in Rank : private'[r] # private[r] =>
                  \A q \in Rank : \A rd \in reads[q] : rd.source # r
<1>1. GetIInv /\ [Get!Next]_(Get!vars) => [A]_transport
  <2> SUFFICES ASSUME GetIInv, [Get!Next]_(Get!vars),
                      NEW r \in Get!Rank, private'[r] # private[r],
                      NEW q \in Get!Rank, NEW rd \in reads[q]
               PROVE  rd.source # r
    BY GetPlan
  <2>1. PICK p \in Get!Rank : Get!Step(p)
    BY DEF Get!Next, Get!Done, Get!vars, Get!transport
  <2>2. Get!PrepareInputs(p)
    BY <2>1 DEF Get!Step, Get!BeginEnter, Get!beginEnter, Get!BeginLeave, Get!beginLeave,
                Get!FetchStart, Get!startFetch, Get!Land, Get!PerformRead, Get!FetchComplete,
                Get!completeFetch, Get!Compute, Get!FinishEnter, Get!finishEnter,
                Get!FinishLeave, Get!finishLeave, Get!Close, Get!transport
  <2>3. p = r
    BY <2>2 DEF Get!PrepareInputs, Get!Prepare, GetIInv, Get!TypeOK, Get!TransportTypeOK
  <2>4. QED
    BY <2>2, <2>3, GetPreparedInputsUnread
<1>2. QED
  BY <1>1, GetInvariance, PTL DEF Get!Spec, NoWriteUnderRead

-----------------------------------------------------------------------------
(* The backend implements TileExchange: each step maps to a step of the    *)
(* exchange or leaves its state alone.                                     *)

\* The exchange is stated over the same plan.
LEMMA GetSamePlan ==
  /\ Get!Exchange!Rank = Get!Rank
  /\ Get!Exchange!Operand = Get!Operand
  /\ \A r, s, op : Get!Exchange!Source(r, s, op) = Get!Source(r, s, op)
  /\ \A r, s, op, g : Get!Exchange!Expected(r, s, op, g) = Get!Expected(r, s, op, g)
  /\ Get!Exchange!NoTiles = [op \in Get!Operand |-> NoTile]
<1>1. /\ Get!Exchange!Rank = Get!Rank
      /\ Get!Exchange!Operand = Get!Operand
      /\ Get!Exchange!NoTiles = [op \in Get!Operand |-> NoTile]
  BY DEF Get!Exchange!Rank, Get!Rank, Get!Exchange!Coord, Get!Coord, Get!Exchange!Operand,
         Get!Operand, Get!Exchange!NoTiles
<1>2. \A r, s, op : Get!Exchange!Source(r, s, op) = Get!Source(r, s, op)
  BY DEF Get!Exchange!Source, Get!Source, Get!Exchange!aSource, Get!aSource,
         Get!Exchange!bSource, Get!bSource, Get!Exchange!inner, Get!inner,
         Get!Exchange!rankAt, Get!rankAt
<1>3. \A r, s, op, g : Get!Exchange!Expected(r, s, op, g) = Get!Expected(r, s, op, g)
  BY <1>2 DEF Get!Exchange!Expected, Get!Expected, Get!Exchange!Tile, Get!Tile
<1>4. QED
  BY <1>1, <1>2, <1>3

LEMMA GetInitRefines == Get!Init => Get!Exchange!Init
BY GetSamePlan DEF Get!Init, Get!TransportInit, Get!Exchange!Init, Get!StatusOf

\* What the exchange sees of the backend's state.
GetStatus == [r \in Get!Rank |-> Get!StatusOf(r)]

GetStageView == [r \in Get!Rank |-> IF pc[r] = "beginBarrier" THEN 0 ELSE stage[r]]

GetTileView == [r \in Get!Rank |-> IF pc[r] = "compute" THEN memory[r][0]
                            ELSE [op \in Get!Operand |-> NoTile]]

LEMMA GetPrepareRefines ==
  ASSUME GetIInv, NEW p \in Get!Rank, Get!PrepareInputs(p) PROVE Get!Exchange!Prepare(p)
<1>1. GetStatus' = GetStatus /\ GetStageView' = GetStageView /\ GetTileView' = GetTileView
  BY DEF Get!PrepareInputs, Get!Prepare, GetStatus, Get!StatusOf, GetStageView, GetTileView
<1>2. QED
  BY <1>1 DEF Get!PrepareInputs, Get!Prepare, Get!Exchange!Prepare, GetStatus, Get!StatusOf,
              GetStageView, GetTileView

LEMMA GetBeginRefines ==
  ASSUME GetIInv, NEW p \in Get!Rank, Get!BeginEnter(p) PROVE Get!Exchange!begin(p)
BY DEF GetIInv, Get!TypeOK, Get!TransportTypeOK, Get!BeginEnter, Get!Goto, Get!beginEnter,
       Get!Exchange!begin, Get!StatusOf

LEMMA GetFetchRefines ==
  ASSUME GetIInv, NEW p \in Get!Rank, Get!FetchComplete(p) PROVE Get!Exchange!fetch(p)
<1> USE DEF Get!FetchComplete, Get!Goto, Get!completeFetch, Get!flushed
<1>1. stage[p] \in Get!Round /\ stage[p] < Side /\ product[p] \in Get!Version
  BY GridAssumption DEF GetIInv, Get!TypeOK, Get!TransportTypeOK, GetTileInv, Get!Round
<1>2. \A op \in Get!Operand : private[Get!Source(p, stage[p], op)] >= product[p]
  <2> SUFFICES ASSUME NEW op \in Get!Operand
               PROVE  private[Get!Source(p, stage[p], op)] = product[p]
    BY ProductsAssumption, <1>1 DEF Get!Version
  <2>1. Get!Source(p, stage[p], op) \in Get!Rank
    BY <1>1, GetSourceInRank
  <2>2. CASE Get!Source(p, stage[p], op) = p
    BY <2>2 DEF GetIInv, GetInputInv
  <2>3. CASE Get!Source(p, stage[p], op) # p
    BY <1>1, <2>1, <2>3, GetRemoteNeedsNodes, GetSameProduct DEF GetIInv
  <2>4. QED
    BY <2>2, <2>3
<1>3. memory'[p][0] = [op \in Get!Operand |-> Get!Expected(p, stage[p], op, product[p])]
  BY DEF GetIInv, GetTileInv, Get!TypeOK, Get!TransportTypeOK, Get!Buffer
<1>4. /\ GetStatus' = [GetStatus EXCEPT ![p] = "compute"]
      /\ GetStageView' = GetStageView
      /\ GetTileView' = [GetTileView EXCEPT ![p] = memory'[p][0]]
  BY DEF GetIInv, Get!TypeOK, GetStatus, Get!StatusOf, GetStageView, GetTileView
<1>5. GetStatus[p] = "active" /\ GetStageView[p] = stage[p]
  BY DEF GetStatus, Get!StatusOf, GetStageView
<1>6. /\ \A op \in Get!Exchange!Operand :
           private[Get!Exchange!Source(p, GetStageView[p], op)] >= product[p]
      /\ memory'[p][0] = [op \in Get!Exchange!Operand |->
                            Get!Exchange!Expected(p, GetStageView[p], op, product[p])]
  BY <1>2, <1>3, <1>5, GetSamePlan
<1>7. QED
  BY <1>1, <1>4, <1>5, <1>6
  DEF Get!Exchange!fetch, GetStatus, GetStageView, GetTileView

LEMMA GetConsumeRefines ==
  ASSUME GetIInv, NEW p \in Get!Rank, Get!Compute(p) PROVE Get!Exchange!Consume(p)
<1> USE DEF Get!Compute, Get!Goto, Get!transport
<1>1. /\ GetStatus' = [GetStatus EXCEPT ![p] = "active"]
      /\ GetStageView' = [GetStageView EXCEPT ![p] = @ + 1]
      /\ GetTileView' = [GetTileView EXCEPT ![p] = [op \in Get!Operand |-> NoTile]]
  BY DEF GetIInv, Get!TypeOK, GetStatus, Get!StatusOf, GetStageView, GetTileView
<1>2. GetStatus[p] = "compute"
  BY DEF GetStatus, Get!StatusOf
<1>3. QED
  BY <1>1, <1>2, GetSamePlan
  DEF Get!Exchange!Consume, GetStatus, GetStageView, GetTileView

LEMMA GetFinishRefines ==
  ASSUME GetIInv, NEW p \in Get!Rank, Get!FinishLeave(p) PROVE Get!Exchange!finish(p)
<1> USE DEF Get!FinishLeave, Get!Goto, Get!finishLeave, Get!readersDone
<1>1. /\ GetStatus' = [GetStatus EXCEPT ![p] = "idle"]
      /\ GetStageView' = GetStageView
      /\ GetTileView' = GetTileView
  BY DEF GetIInv, Get!TypeOK, GetStatus, Get!StatusOf, GetStageView, GetTileView
<1>2. GetStatus[p] = "active" /\ GetStageView[p] = Side
  BY DEF GetIInv, GetTileInv, GetStatus, Get!StatusOf, GetStageView
<1>3. QED
  BY <1>1, <1>2
  DEF Get!Exchange!finish, GetStatus, GetStageView, GetTileView

LEMMA GetCloseRefines ==
  ASSUME GetIInv, NEW p \in Get!Rank, Get!Close(p) PROVE Get!Exchange!close(p)
BY DEF GetIInv, Get!TypeOK, Get!TransportTypeOK, Get!Close, Get!Goto, Get!transport,
       Get!Exchange!close, Get!StatusOf

\* The other steps stay inside begin, fetch or finish.
LEMMA GetHiddenRefines ==
  ASSUME GetIInv, NEW p \in Get!Rank,
         Get!BeginLeave(p) \/ Get!FetchStart(p) \/ Get!Land(p) \/ Get!FinishEnter(p)
  PROVE  UNCHANGED Get!Exchange!vars
<1>1. GetStatus' = GetStatus /\ GetStageView' = GetStageView /\ GetTileView' = GetTileView
  <2>1. CASE Get!BeginLeave(p)
    BY <2>1 DEF Get!BeginLeave, Get!Goto, Get!beginLeave, GetIInv, Get!TypeOK, GetStatus, Get!StatusOf,
                GetStageView, GetTileView
  <2>2. CASE Get!FetchStart(p)
    BY <2>2 DEF Get!FetchStart, Get!Goto, Get!startFetch, GetIInv, Get!TypeOK, Get!TransportTypeOK,
                GetStatus, Get!StatusOf, GetStageView, GetTileView
  <2>3. CASE Get!Land(p)
    <3>1. \A r \in Get!Rank \ {p} : memory'[r] = memory[r]
      BY <2>3 DEF Get!Land, Get!PerformRead, GetIInv, Get!TypeOK, Get!TransportTypeOK
    <3>2. pc[p] # "compute"
      BY <2>3 DEF Get!Land, Get!PerformRead, GetIInv, GetReadInv
    <3>3. QED
      BY <2>3, <3>1, <3>2 DEF Get!Land, GetStatus, Get!StatusOf, GetStageView, GetTileView
  <2>4. CASE Get!FinishEnter(p)
    BY <2>4 DEF Get!FinishEnter, Get!Goto, Get!finishEnter, GetIInv, Get!TypeOK, GetStatus,
                Get!StatusOf, GetStageView, GetTileView
  <2>5. QED
    BY <2>1, <2>2, <2>3, <2>4
<1>2. UNCHANGED <<product, private>>
  BY DEF Get!BeginLeave, Get!beginLeave, Get!FetchStart, Get!startFetch, Get!Land, Get!PerformRead,
         Get!FinishEnter, Get!finishEnter
<1>3. QED
  BY <1>1, <1>2 DEF Get!Exchange!vars, GetStatus, GetStageView, GetTileView

\* On every grid the GET backend implements the tile exchange.
THEOREM GetImplementation == Get!Spec => Get!ImplementsExchange
<1>1. GetIInv /\ [Get!Next]_(Get!vars) => [Get!Exchange!Next]_(Get!Exchange!vars)
  <2> SUFFICES ASSUME GetIInv, [Get!Next]_(Get!vars)
               PROVE  [Get!Exchange!Next]_(Get!Exchange!vars)
    OBVIOUS
  <2>1. CASE UNCHANGED Get!vars
    <3>1. GetStatus' = GetStatus /\ GetStageView' = GetStageView /\ GetTileView' = GetTileView
      BY <2>1 DEF Get!vars, Get!transport, GetStatus, Get!StatusOf, GetStageView, GetTileView
    <3>2. QED
      BY <2>1, <3>1
      DEF Get!vars, Get!transport, Get!Exchange!vars, GetStatus, GetStageView, GetTileView
  <2>2. ASSUME NEW p \in Get!Rank, Get!Step(p)
        PROVE  [Get!Exchange!Next]_(Get!Exchange!vars)
    <3>1. Get!Exchange!Step(p) \/ UNCHANGED Get!Exchange!vars
      BY <2>2, GetPrepareRefines, GetBeginRefines, GetFetchRefines, GetConsumeRefines,
         GetFinishRefines, GetCloseRefines, GetHiddenRefines DEF Get!Step, Get!Exchange!Step
    <3>2. QED
      BY <3>1, GetSamePlan DEF Get!Exchange!Next
  <2>3. QED
    BY <2>1, <2>2 DEF Get!Next, Get!Done
<1>2. QED
  BY <1>1, GetInitRefines, GetInvariance, PTL
  DEF Get!Spec, Get!ImplementsExchange, Get!Exchange!Spec

=============================================================================
