----------------------------- MODULE TridentPut -----------------------------
(***************************************************************************)
(* multiply with PutInterNodeExchange: in every stage the owners write     *)
(* their tiles into the receivers' exposed workspace.  There is no barrier *)
(* between products; each stage has two, "receivers ready" before the puts *)
(* and "writers done" after their flushes.                                 *)
(*                                                                         *)
(* The receive buffers have a private copy (the owner's loads and stores)  *)
(* and a public one (remote puts).  MPI_Win_sync makes them equal to the   *)
(* one written last; a put into a buffer whose own stores have not been    *)
(* synchronised leaves it undefined.  An MPI_Put is performed at any       *)
(* moment between its issue and the end of the flush.  A call whose check  *)
(* would throw is not enabled.                                             *)
(***************************************************************************)
EXTENDS ExecutionPlan

VARIABLES
  pc,         \* [Rank -> where multiply and the backend stand]
  product,    \* [Rank -> number of the product in progress, or last finished]
  nextStage,  \* [Rank -> nextStage_, stages handed over in this product]
  active,     \* [Rank -> active_]
  entered,    \* [Rank -> barriers of grid.world the rank has entered]
  input,      \* [Rank -> version of the rank's own tiles]
  private,    \* [Rank -> [Operand -> tile the owner's loads see]]
  public,     \* [Rank -> [Operand -> tile remote puts write]]
  latest,     \* [Rank -> [Operand -> the copy written last]]
  puts        \* [Rank -> puts issued and not yet performed]

receiver == <<private, public, latest>>

vars == <<pc, product, nextStage, active, entered, input, receiver, puts>>

Location ==
  {"idle", "fetch", "ready", "putting", "written", "compute", "closed"}

Put == [op : Operand, target : Rank]

TypeOK ==
  /\ pc \in [Rank -> Location]
  /\ product \in [Rank -> Version]
  /\ nextStage \in [Rank -> 0 .. Side]
  /\ active \in [Rank -> BOOLEAN]
  /\ entered \in [Rank -> Nat]
  /\ input \in [Rank -> Version]
  /\ private \in [Rank -> [Operand -> TileOrNone]]
  /\ public \in [Rank -> [Operand -> TileOrNone]]
  /\ latest \in [Rank -> [Operand -> {"both", "private", "public"}]]
  /\ puts \in [Rank -> SUBSET Put]

Init ==
  /\ pc = [r \in Rank |-> "idle"]
  /\ product = [r \in Rank |-> 0]
  /\ nextStage = [r \in Rank |-> 0]
  /\ active = [r \in Rank |-> FALSE]
  /\ entered = [r \in Rank |-> 0]
  /\ input = [r \in Rank |-> 0]
  /\ private = [r \in Rank |-> [op \in Operand |-> NoTile]]
  /\ public = [r \in Rank |-> [op \in Operand |-> NoTile]]
  /\ latest = [r \in Rank |-> [op \in Operand |-> "both"]]
  /\ puts = [r \in Rank |-> {}]

Goto(r, from, to) ==
  /\ pc[r] = from
  /\ pc' = [pc EXCEPT ![r] = to]

-----------------------------------------------------------------------------
(* MPI                                                                     *)

\* MPI_Barrier: a rank leaves the barrier it entered last once every rank
\* has entered as many.  With one node the backend has no barrier.
AllEntered(r) == Side = 1 \/ \A q \in Rank : entered[q] >= entered[r]

EnterBarrier(r) == entered' = [entered EXCEPT ![r] = @ + 1]

\* MPI_Win_sync of both receive windows.
Synced(r) == [op \in Operand |-> IF latest[r][op] = "public" THEN public[r][op]
                                                            ELSE private[r][op]]

syncReceivers(r) ==
  /\ private' = [private EXCEPT ![r] = Synced(r)]
  /\ public' = [public EXCEPT ![r] = Synced(r)]
  /\ latest' = [latest EXCEPT ![r] = [op \in Operand |-> "both"]]

\* An issued MPI_Put is performed; where the memory model keeps no copy apart
\* the owner's loads see it at once.
PerformPut(r) ==
  \E put \in puts[r] :
    LET q == put.target
        t == IF latest[q][put.op] = "private" THEN NoTile ELSE Tile(r, input[r])
    IN
    /\ public' = [public EXCEPT ![q][put.op] = t]
    /\ private' \in {private, [private EXCEPT ![q][put.op] = t]}
    /\ latest' = [latest EXCEPT ![q][put.op] = "public"]
    /\ puts' = [puts EXCEPT ![r] = @ \ {put}]
    /\ UNCHANGED <<pc, product, nextStage, active, entered, input>>

-----------------------------------------------------------------------------
(* The caller                                                              *)

\* Outside a product the caller rewrites its inputs in place.
PrepareInputs(r) ==
  /\ pc[r] = "idle"
  /\ product[r] < MaxProducts
  /\ input[r] = product[r]
  /\ input' = [input EXCEPT ![r] = @ + 1]
  /\ UNCHANGED <<pc, product, nextStage, active, entered, receiver, puts>>

\* assemble and addProduct read the workspace; the loop goes on.
Compute(r) ==
  /\ Goto(r, "compute", "fetch")
  /\ UNCHANGED <<product, nextStage, active, entered, input, receiver, puts>>

-----------------------------------------------------------------------------
(* PutInterNodeExchange                                                    *)

Begin(r) ==
  /\ Goto(r, "idle", "fetch")
  /\ ~active[r]
  /\ input[r] = product[r] + 1
  /\ product' = [product EXCEPT ![r] = @ + 1]
  /\ nextStage' = [nextStage EXCEPT ![r] = 0]
  /\ active' = [active EXCEPT ![r] = TRUE]
  /\ UNCHANGED <<entered, input, receiver, puts>>

\* The stage's own stores into the workspace: a resize, and the local tiles.
Stored(r) ==
  [op \in Operand |-> IF Source(r, nextStage[r], op) = r THEN Tile(r, input[r])
                                                         ELSE NoTile]

\* Slip: the stores are not synchronised.
syncStoresSkipped(r) ==
  /\ latest' = [latest EXCEPT ![r] = [op \in Operand |-> "private"]]
  /\ UNCHANGED public

\* syncReceivers, right after the stores.
syncStores(r) ==
  /\ public' = [public EXCEPT ![r] = Stored(r)]
  /\ latest' = [latest EXCEPT ![r] = [op \in Operand |-> "both"]]

MoreStages(r) == nextStage[r] < Side

\* fetch, up to the barrier "receivers ready".
FetchEnter(r) ==
  /\ Goto(r, "fetch", "ready")
  /\ active[r]
  /\ MoreStages(r)
  /\ private' = [private EXCEPT ![r] = Stored(r)]
  /\ syncStores(r)
  /\ EnterBarrier(r)
  /\ UNCHANGED <<product, nextStage, active, input, puts>>

receiversReady(r) == AllEntered(r)

\* fetch, past the barrier: the puts are issued.
FetchPut(r) ==
  /\ Goto(r, "ready", "putting")
  /\ receiversReady(r)
  /\ puts' = [puts EXCEPT ![r] =
       {[op |-> op, target |-> Target(r, nextStage[r], op)] :
          op \in {o \in Operand : Target(r, nextStage[r], o) # r}}]
  /\ UNCHANGED <<product, nextStage, active, entered, input, receiver>>

\* fetch, flushed and up to the barrier "writers done".
FetchFlush(r) ==
  /\ Goto(r, "putting", "written")
  /\ puts[r] = {}
  /\ EnterBarrier(r)
  /\ UNCHANGED <<product, nextStage, active, input, receiver, puts>>

writersDone(r) == AllEntered(r)

\* fetch, past the second barrier.
FetchLeave(r) ==
  /\ Goto(r, "written", "compute")
  /\ writersDone(r)
  /\ syncReceivers(r)
  /\ nextStage' = [nextStage EXCEPT ![r] = @ + 1]
  /\ UNCHANGED <<product, active, entered, input, puts>>

Finish(r) ==
  /\ Goto(r, "fetch", "idle")
  /\ active[r]
  /\ nextStage[r] = Side
  /\ active' = [active EXCEPT ![r] = FALSE]
  /\ UNCHANGED <<product, nextStage, entered, input, receiver, puts>>

Close(r) ==
  /\ Goto(r, "idle", "closed")
  /\ ~active[r]
  /\ product[r] = MaxProducts
  /\ UNCHANGED <<product, nextStage, active, entered, input, receiver, puts>>

Step(r) ==
  \/ PrepareInputs(r) \/ Begin(r) \/ FetchEnter(r) \/ FetchPut(r)
  \/ PerformPut(r) \/ FetchFlush(r) \/ FetchLeave(r) \/ Compute(r)
  \/ Finish(r) \/ Close(r)

\* The run is over; everything else that stops is a deadlock.
Done ==
  /\ \A r \in Rank : pc[r] = "closed"
  /\ UNCHANGED vars

Next == Done \/ \E r \in Rank : Step(r)

Spec == Init /\ [][Next]_vars

-----------------------------------------------------------------------------
(* Properties                                                              *)

\* The backend implements TileExchange, without a barrier between products.
StatusOf(r) ==
  IF pc[r] \in {"idle", "compute", "closed"} THEN pc[r] ELSE "active"

Exchange == INSTANCE TileExchange WITH
  status <- [r \in Rank |-> StatusOf(r)],
  stage <- [r \in Rank |-> IF pc[r] = "compute" THEN nextStage[r] - 1
                           ELSE nextStage[r]],
  version <- input,
  tile <- [r \in Rank |-> IF pc[r] = "compute" THEN private[r]
                          ELSE [op \in Operand |-> NoTile]]

ImplementsExchange == Exchange!Spec

=============================================================================
