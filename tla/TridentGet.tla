----------------------------- MODULE TridentGet -----------------------------
(***************************************************************************)
(* multiply with GetInterNodeExchange: a stage's reads are issued and      *)
(* flushed before the stage is computed.                                   *)
(***************************************************************************)
EXTENDS RmaGet

VARIABLES
  pc,      \* [Rank -> where multiply and the backend stand]
  stage    \* [Rank -> the stage of plan.stages multiply is at]

vars == <<transport, pc, stage>>

Location == {"idle", "beginBarrier", "fetch", "fetching", "compute",
             "finishBarrier", "closed"}

TypeOK ==
  /\ TransportTypeOK
  /\ pc \in [Rank -> Location]
  /\ stage \in [Rank -> 0 .. Side]

Init ==
  /\ TransportInit
  /\ pc = [r \in Rank |-> "idle"]
  /\ stage = [r \in Rank |-> 0]

Goto(r, from, to) ==
  /\ pc[r] = from
  /\ pc' = [pc EXCEPT ![r] = to]

-----------------------------------------------------------------------------

PrepareInputs(r) ==
  /\ pc[r] = "idle"
  /\ Prepare(r)
  /\ UNCHANGED <<pc, stage>>

BeginEnter(r) ==
  /\ Goto(r, "idle", "beginBarrier")
  /\ beginEnter(r)
  /\ UNCHANGED stage

BeginLeave(r) ==
  /\ Goto(r, "beginBarrier", "fetch")
  /\ beginLeave(r)
  /\ stage' = [stage EXCEPT ![r] = 0]

MoreStages(r) == stage[r] < Side

\* fetch: both halves of the transport's fetch, into the workspace.
FetchStart(r) ==
  /\ Goto(r, "fetch", "fetching")
  /\ MoreStages(r)
  /\ startFetch(r, stage[r], 0)
  /\ UNCHANGED stage

FetchComplete(r) ==
  /\ Goto(r, "fetching", "compute")
  /\ completeFetch(r)
  /\ UNCHANGED stage

\* Slip: the loop stays at its stage.
ComputeSameStage(r) ==
  /\ Goto(r, "compute", "fetch")
  /\ UNCHANGED <<transport, stage>>

\* assemble and addProduct read the workspace; the loop goes on.
Compute(r) ==
  /\ Goto(r, "compute", "fetch")
  /\ stage' = [stage EXCEPT ![r] = @ + 1]
  /\ UNCHANGED transport

FinishEnter(r) ==
  /\ Goto(r, "fetch", "finishBarrier")
  /\ stage[r] = Side
  /\ finishEnter(r)
  /\ UNCHANGED stage

FinishLeave(r) ==
  /\ Goto(r, "finishBarrier", "idle")
  /\ finishLeave(r)
  /\ UNCHANGED stage

Close(r) ==
  /\ Goto(r, "idle", "closed")
  /\ ~active[r]
  /\ product[r] = MaxProducts
  /\ UNCHANGED <<transport, stage>>

Land(r) ==
  /\ PerformRead(r)
  /\ UNCHANGED <<pc, stage>>

Step(r) ==
  \/ PrepareInputs(r) \/ BeginEnter(r) \/ BeginLeave(r)
  \/ FetchStart(r) \/ Land(r) \/ FetchComplete(r) \/ Compute(r)
  \/ FinishEnter(r) \/ FinishLeave(r) \/ Close(r)

\* The run is over; everything else that stops is a deadlock.
Done ==
  /\ \A r \in Rank : pc[r] = "closed"
  /\ UNCHANGED vars

Next == Done \/ \E r \in Rank : Step(r)

\* Every rank is a running process and MPI completes issued reads.
Fairness == \A r \in Rank : WF_vars(Step(r))

Spec == Init /\ [][Next]_vars

FairSpec == Spec /\ Fairness

-----------------------------------------------------------------------------
(* Properties                                                              *)

\* While a stage is computed the workspace holds, for both operands, the
\* tile of the plan's source as that source prepared it for this product,
\* though inputs are rewritten in place and reads land whenever they like.
FreshTiles ==
  \A r \in Rank : pc[r] = "compute" =>
    \A op \in Operand :
      memory[r][0][op] = Expected(r, stage[r], op, product[r])

\* Every rank completes all its products and closes: the barriers of begin and
\* finish meet, however far apart the ranks are when they come to them.
AllClose == <>(\A r \in Rank : pc[r] = "closed")

\* The backend implements TileExchange: no rank observes more than it allows.
StatusOf(r) ==
  IF pc[r] \in {"idle", "compute", "closed"} THEN pc[r] ELSE "active"

Exchange == INSTANCE TileExchange WITH
  status <- [r \in Rank |-> StatusOf(r)],
  stage <- [r \in Rank |-> IF pc[r] = "beginBarrier" THEN 0 ELSE stage[r]],
  version <- private,
  tile <- [r \in Rank |-> IF pc[r] = "compute" THEN memory[r][0]
                          ELSE [op \in Operand |-> NoTile]]

ImplementsExchange == Exchange!Spec

=============================================================================
