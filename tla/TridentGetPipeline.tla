------------------------- MODULE TridentGetPipeline -------------------------
(***************************************************************************)
(* multiply with PipelinedGetInterNodeExchange: while stage s is computed  *)
(* from the workspace, the reads of stage s + 1 land in the incoming pair. *)
(***************************************************************************)
EXTENDS RmaGet

VARIABLES
  pc,         \* [Rank -> where multiply and the backend stand]
  nextStage,  \* [Rank -> nextStage_, the next stage fetch will hand over]
  workspace   \* [Rank -> buffer pair held by the workspace]

vars == <<transport, pc, nextStage, workspace>>

Location == {"idle", "beginBarrier", "prime", "fetch", "prefetch", "compute",
             "finishBarrier", "closed"}

TypeOK ==
  /\ TransportTypeOK
  /\ pc \in [Rank -> Location]
  /\ nextStage \in [Rank -> 0 .. Side]
  /\ workspace \in [Rank -> Buffer]

Init ==
  /\ TransportInit
  /\ pc = [r \in Rank |-> "idle"]
  /\ nextStage = [r \in Rank |-> 0]
  /\ workspace = [r \in Rank |-> 0]

Goto(r, from, to) ==
  /\ pc[r] = from
  /\ pc' = [pc EXCEPT ![r] = to]

\* Slip: the next stage is prefetched into the pair being computed from.
incomingWorkspace(r) == workspace[r]

incoming(r) == 1 - workspace[r]

-----------------------------------------------------------------------------

PrepareInputs(r) ==
  /\ pc[r] = "idle"
  /\ Prepare(r)
  /\ UNCHANGED <<pc, nextStage, workspace>>

BeginEnter(r) ==
  /\ Goto(r, "idle", "beginBarrier")
  /\ beginEnter(r)
  /\ UNCHANGED <<nextStage, workspace>>

BeginLeave(r) ==
  /\ Goto(r, "beginBarrier", "prime")
  /\ beginLeave(r)
  /\ nextStage' = [nextStage EXCEPT ![r] = 0]
  /\ UNCHANGED workspace

\* The rest of begin: the first stage's reads (a plan has Side >= 1 stages).
Prime(r) ==
  /\ Goto(r, "prime", "fetch")
  /\ startFetch(r, 0, incoming(r))
  /\ UNCHANGED <<nextStage, workspace>>

InPlan(next) == next < Side

swapped(r) == incoming(r)

\* Slip: nextStage_ is not advanced.
advancedNot(r) == nextStage[r]

advanced(r) == nextStage[r] + 1

\* fetch: flush, then swap the two pairs.
FetchComplete(r) ==
  /\ pc[r] = "fetch"
  /\ InPlan(nextStage[r])
  /\ completeFetch(r)
  /\ workspace' = [workspace EXCEPT ![r] = swapped(r)]
  /\ nextStage' = [nextStage EXCEPT ![r] = advanced(r)]
  /\ pc' = [pc EXCEPT ![r] =
              IF InPlan(advanced(r)) THEN "prefetch" ELSE "compute"]

\* The rest of fetch: the next stage's reads.
Prefetch(r) ==
  /\ Goto(r, "prefetch", "compute")
  /\ startFetch(r, nextStage[r], incoming(r))
  /\ UNCHANGED <<nextStage, workspace>>

\* assemble and addProduct read the workspace; the loop goes on.
Compute(r) ==
  /\ Goto(r, "compute", "fetch")
  /\ UNCHANGED <<transport, nextStage, workspace>>

FinishEnter(r) ==
  /\ Goto(r, "fetch", "finishBarrier")
  /\ nextStage[r] = Side
  /\ finishEnter(r)
  /\ UNCHANGED <<nextStage, workspace>>

FinishLeave(r) ==
  /\ Goto(r, "finishBarrier", "idle")
  /\ finishLeave(r)
  /\ UNCHANGED <<nextStage, workspace>>

Close(r) ==
  /\ Goto(r, "idle", "closed")
  /\ ~active[r]
  /\ product[r] = MaxProducts
  /\ UNCHANGED <<transport, nextStage, workspace>>

Land(r) ==
  /\ PerformRead(r)
  /\ UNCHANGED <<pc, nextStage, workspace>>

Step(r) ==
  \/ PrepareInputs(r) \/ BeginEnter(r) \/ BeginLeave(r) \/ Prime(r)
  \/ FetchComplete(r) \/ Land(r) \/ Prefetch(r) \/ Compute(r)
  \/ FinishEnter(r) \/ FinishLeave(r) \/ Close(r)

\* The run is over; everything else that stops is a deadlock.
Done ==
  /\ \A r \in Rank : pc[r] = "closed"
  /\ UNCHANGED vars

Next == Done \/ \E r \in Rank : Step(r)

\* Every rank is a running process and MPI completes issued reads.
Fairness == \A r \in Rank : WF_vars(Step(r))

Spec == Init /\ [][Next]_vars

FairSpec == Spec /\ Fairness

-----------------------------------------------------------------------------
(* Properties                                                              *)

\* The stage the workspace holds, from the end of its flush to the end of
\* its computation.
Held(r) == nextStage[r] - 1

\* From the swap to the end of the computation the workspace holds, for both
\* operands, the tile of the plan's source as prepared for this product; the
\* reads of the next stage land meanwhile.
FreshTiles ==
  \A r \in Rank : pc[r] \in {"prefetch", "compute"} =>
    \A op \in Operand :
      memory[r][workspace[r]][op] = Expected(r, Held(r), op, product[r])

\* A read in flight never targets the pair being computed from.
IncomingApart ==
  \A r \in Rank : \A rd \in reads[r] : rd.buffer # workspace[r]

\* Every rank completes all its products and closes.
AllClose == <>(\A r \in Rank : pc[r] = "closed")

\* The backend implements TileExchange: no rank observes more than it allows.
StatusOf(r) ==
  CASE pc[r] \in {"idle", "closed"} -> pc[r]
    [] pc[r] \in {"prefetch", "compute"} -> "compute"
    [] OTHER -> "active"

StageOf(r) ==
  CASE pc[r] \in {"beginBarrier", "prime"} -> 0
    [] pc[r] \in {"prefetch", "compute"} -> Held(r)
    [] OTHER -> nextStage[r]

Exchange == INSTANCE TileExchange WITH
  status <- [r \in Rank |-> StatusOf(r)],
  stage <- [r \in Rank |-> StageOf(r)],
  version <- private,
  tile <- [r \in Rank |-> IF StatusOf(r) = "compute"
                          THEN memory[r][workspace[r]]
                          ELSE [op \in Operand |-> NoTile]]

ImplementsExchange == Exchange!Spec

=============================================================================
