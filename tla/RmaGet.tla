------------------------------- MODULE RmaGet -------------------------------
(***************************************************************************)
(* GetTileTransport: every rank exposes its input tiles in MPI windows and *)
(* reads the tiles it needs.  This module has the transport's state and    *)
(* its operations; TridentGet and TridentGetPipeline are its two clients.  *)
(*                                                                         *)
(* A window has a private copy (the owner's loads and stores) and a public *)
(* one (remote accesses), made equal by MPI_Win_sync.  An MPI_Get is       *)
(* performed at any moment between its issue and the end of the flush; it  *)
(* reads the public copy, or the private one where the memory model keeps  *)
(* no copy apart.  A call whose check would throw is not enabled, so a     *)
(* caller that breaks the lifecycle shows as a deadlock.                   *)
(***************************************************************************)
EXTENDS ExecutionPlan

VARIABLES
  product,   \* [Rank -> number of the product in progress, or last finished]
  entered,   \* [Rank -> barriers of grid.world the rank has entered]
  active,    \* [Rank -> active_]
  pending,   \* [Rank -> pending_]
  private,   \* [Rank -> version of a and b in the owner's own copy]
  public,    \* [Rank -> version of a and b in the copy remote reads see]
  reads,     \* [Rank -> reads issued and not yet performed]
  memory     \* [Rank -> [Buffer -> [Operand -> tile]]], the tile buffers

transport ==
  <<product, entered, active, pending, private, public, reads, memory>>

\* Two pairs of tile buffers; the plain backend only uses the first.
Buffer == {0, 1}

Read == [op : Operand, source : Rank, buffer : Buffer]

TransportTypeOK ==
  /\ product \in [Rank -> Version]
  /\ entered \in [Rank -> Nat]
  /\ active \in [Rank -> BOOLEAN]
  /\ pending \in [Rank -> BOOLEAN]
  /\ private \in [Rank -> Version]
  /\ public \in [Rank -> Version]
  /\ reads \in [Rank -> SUBSET Read]
  /\ memory \in [Rank -> [Buffer -> [Operand -> TileOrNone]]]

TransportInit ==
  /\ product = [r \in Rank |-> 0]
  /\ entered = [r \in Rank |-> 0]
  /\ active = [r \in Rank |-> FALSE]
  /\ pending = [r \in Rank |-> FALSE]
  /\ private = [r \in Rank |-> 0]
  /\ public = [r \in Rank |-> 0]
  /\ reads = [r \in Rank |-> {}]
  /\ memory = [r \in Rank |-> [c \in Buffer |-> [op \in Operand |-> NoTile]]]

-----------------------------------------------------------------------------
(* MPI                                                                     *)

\* MPI_Barrier: a rank leaves the barrier it entered last once every rank
\* has entered as many.  With one node the transport has no barrier.
AllEntered(r) == Side = 1 \/ \A q \in Rank : entered[q] >= entered[r]

EnterBarrier(r) == entered' = [entered EXCEPT ![r] = @ + 1]

\* An issued MPI_Get is performed: it moves the tile the source holds now.
PerformRead(r) ==
  \E rd \in reads[r] : \E v \in {public[rd.source], private[rd.source]} :
    /\ memory' = [memory EXCEPT ![r][rd.buffer][rd.op] = Tile(rd.source, v)]
    /\ reads' = [reads EXCEPT ![r] = @ \ {rd}]
    /\ UNCHANGED <<product, entered, active, pending, private, public>>

-----------------------------------------------------------------------------
(* The caller                                                              *)

\* Outside a product the caller rewrites its exposed inputs in place.
Prepare(r) ==
  /\ ~active[r]
  /\ product[r] < MaxProducts
  /\ private[r] = product[r]
  /\ private' = [private EXCEPT ![r] = @ + 1]
  /\ UNCHANGED <<product, entered, active, pending, public, reads, memory>>

-----------------------------------------------------------------------------
(* GetTileTransport                                                        *)

\* Slip: the public copy is left as it was.
syncInputsSkipped(r) == UNCHANGED public

syncInputs(r) == public' = [public EXCEPT ![r] = private[r]]

\* begin, up to the barrier "inputs ready".
beginEnter(r) ==
  /\ ~active[r]
  /\ private[r] = product[r] + 1
  /\ product' = [product EXCEPT ![r] = @ + 1]
  /\ syncInputs(r)
  /\ EnterBarrier(r)
  /\ UNCHANGED <<active, pending, private, reads, memory>>

\* Slip: begin does not wait for the other ranks' inputs.
inputsReadySkipped(r) == entered[r] > 0

\* The barrier "inputs ready".
inputsReady(r) == AllEntered(r)

\* begin, past the barrier.
beginLeave(r) ==
  /\ inputsReady(r)
  /\ active' = [active EXCEPT ![r] = TRUE]
  /\ UNCHANGED <<product, entered, pending, private, public, reads, memory>>

\* Local tiles are copied at once; remote ones are read later, into buffers
\* whose contents are undefined until then.
startFetch(r, s, buffer) ==
  /\ active[r]
  /\ ~pending[r]
  /\ memory' = [memory EXCEPT ![r][buffer] =
       [op \in Operand |-> IF Source(r, s, op) = r THEN Tile(r, private[r])
                                                   ELSE NoTile]]
  /\ reads' = [reads EXCEPT ![r] = @ \cup
       {[op |-> op, source |-> Source(r, s, op), buffer |-> buffer] :
          op \in {o \in Operand : Source(r, s, o) # r}}]
  /\ pending' = [pending EXCEPT ![r] = TRUE]
  /\ UNCHANGED <<product, entered, active, private, public>>

\* The flushes return once every read of this rank has been performed.
flushed(r) == reads[r] = {}

completeFetch(r) ==
  /\ active[r]
  /\ pending[r]
  /\ flushed(r)
  /\ pending' = [pending EXCEPT ![r] = FALSE]
  /\ UNCHANGED <<product, entered, active, private, public, reads, memory>>

\* finish, up to the barrier "readers done".
finishEnter(r) ==
  /\ active[r]
  /\ ~pending[r]
  /\ EnterBarrier(r)
  /\ UNCHANGED <<product, active, pending, private, public, reads, memory>>

\* Slip: finish does not wait for the other ranks' readers.
readersDoneSkipped(r) == entered[r] > 0

\* The barrier "readers done".
readersDone(r) == AllEntered(r)

finishLeave(r) ==
  /\ readersDone(r)
  /\ syncInputs(r)
  /\ active' = [active EXCEPT ![r] = FALSE]
  /\ UNCHANGED <<product, entered, pending, private, reads, memory>>

-----------------------------------------------------------------------------

\* No exposed input changes while some rank still has a read of it in flight,
\* prefetched or not: what finish's barrier is there for.
NoWriteUnderRead ==
  [][\A r \in Rank : private'[r] # private[r] =>
       \A q \in Rank : \A rd \in reads[q] : rd.source # r]_transport

=============================================================================
