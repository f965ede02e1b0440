--------------------------- MODULE TridentHybrid ---------------------------
(***************************************************************************)
(* multiply with HybridInterNodeExchange: a consumer posts its receives,   *)
(* then writes the product's generation into a request slot of the owner;  *)
(* a service thread of the owner polls its slots and sends the tiles.      *)
(* There is no barrier anywhere, and no slot is ever reset.                *)
(*                                                                         *)
(* A rank is two threads: multiply (pc) and serve (service).  A local step *)
(* runs together with the MPI call that follows it.  A request             *)
(* reaches the owner's window at any moment, but MPI only promises it      *)
(* while the owner's main thread is inside a blocking call: the service    *)
(* thread's polling of its own window need not make progress.              *)
(***************************************************************************)
EXTENDS TileMessages

VARIABLES
  pc,          \* [Rank -> where multiply and the backend stand]
  generation,  \* [Rank -> generation_, the product in progress or finished]
  stage,       \* [Rank -> the stage of plan.stages multiply is at]
  active,      \* [Rank -> active_]
  input,       \* [Rank -> version of the rank's own tiles]
  workspace,   \* [Rank -> [Operand -> tile]]
  unasked,     \* [Rank -> operands of this stage still to be requested]
  requests,    \* [Rank -> [Slot -> generation last requested]], the window
  published,   \* [Rank -> published_]
  service,     \* [Rank -> where the service thread stands]
  serving,     \* [Rank -> slot being answered]
  consumed,    \* [Rank -> slots answered, or never used, in this product]
  remaining,   \* [Rank -> slots still to be answered]
  served       \* [Rank -> served_]

main == <<pc, generation, stage, active, workspace, unasked, published>>

worker == <<service, serving, consumed, remaining, served>>

vars == <<main, worker, input, requests, posted, channel>>

Location == {"idle", "fetching", "compute", "draining", "closed"}

\* One slot per operand and consumer: the consumer's column for A tiles, its
\* row for B tiles.
Slot == Operand \X Coord

NoSlot == <<"a", 0>>

Requests == 0 .. 2 * (Side - 1) * MaxProducts

TypeOK ==
  /\ pc \in [Rank -> Location]
  /\ generation \in [Rank -> Version]
  /\ stage \in [Rank -> 0 .. Side]
  /\ active \in [Rank -> BOOLEAN]
  /\ input \in [Rank -> Version]
  /\ workspace \in [Rank -> [Operand -> TileOrNone]]
  /\ unasked \in [Rank -> SUBSET Operand]
  /\ requests \in [Rank -> [Slot -> Version]]
  /\ published \in [Rank -> Requests]
  /\ service \in [Rank -> {"none", "polling", "sending", "done"}]
  /\ serving \in [Rank -> Slot]
  /\ consumed \in [Rank -> SUBSET Slot]
  /\ remaining \in [Rank -> 0 .. 2 * (Side - 1)]
  /\ served \in [Rank -> Requests]
  /\ MessagesTypeOK

\* The constructor's own accumulate and barrier leave every slot zero.
Init ==
  /\ pc = [r \in Rank |-> "idle"]
  /\ generation = [r \in Rank |-> 0]
  /\ stage = [r \in Rank |-> 0]
  /\ active = [r \in Rank |-> FALSE]
  /\ input = [r \in Rank |-> 0]
  /\ workspace = [r \in Rank |-> [op \in Operand |-> NoTile]]
  /\ unasked = [r \in Rank |-> {}]
  /\ requests = [r \in Rank |-> [slot \in Slot |-> 0]]
  /\ published = [r \in Rank |-> 0]
  /\ service = [r \in Rank |-> "none"]
  /\ serving = [r \in Rank |-> NoSlot]
  /\ consumed = [r \in Rank |-> {}]
  /\ remaining = [r \in Rank |-> 0]
  /\ served = [r \in Rank |-> 0]
  /\ MessagesInit

Goto(r, from, to) ==
  /\ pc[r] = from
  /\ pc' = [pc EXCEPT ![r] = to]

-----------------------------------------------------------------------------
(* The caller                                                              *)

\* Outside a product the caller rewrites its inputs in place.
PrepareInputs(r) ==
  /\ pc[r] = "idle"
  /\ generation[r] < MaxProducts
  /\ input[r] = generation[r]
  /\ input' = [input EXCEPT ![r] = @ + 1]
  /\ UNCHANGED <<main, worker, requests, posted, channel>>

-----------------------------------------------------------------------------
(* HybridInterNodeExchange, main thread                                    *)

OwnSlots(r) == {<<"a", r.col>>, <<"b", r.row>>}

\* fetch of stage s, up to the requests: local copies and receives.
Post(r, from, s) ==
  LET remote == {op \in Operand : Source(r, s, op) # r} IN
  /\ Goto(r, from, "fetching")
  /\ workspace' = [workspace EXCEPT ![r] =
       [op \in Operand |-> IF op \in remote THEN NoTile ELSE Tile(r, input[r])]]
  /\ receiveTiles(r, {<<Source(r, s, op), op>> : op \in remote})
  /\ unasked' = [unasked EXCEPT ![r] = remote]

\* begin, which starts the service thread if there is more than one node,
\* and the first fetch.
Begin(r) ==
  /\ ~active[r]
  /\ input[r] = generation[r] + 1
  /\ generation' = [generation EXCEPT ![r] = @ + 1]
  /\ active' = [active EXCEPT ![r] = TRUE]
  /\ stage' = [stage EXCEPT ![r] = 0]
  /\ Post(r, "idle", 0)
  /\ service' = [service EXCEPT ![r] = IF Side > 1 THEN "polling" ELSE @]
  /\ consumed' = [consumed EXCEPT ![r] = OwnSlots(r)]
  /\ remaining' = [remaining EXCEPT ![r] = 2 * (Side - 1)]
  /\ UNCHANGED <<published, serving, served, input, requests, channel>>

MoreStages(r) == stage[r] + 1 < Side

\* assemble and addProduct read the workspace; the next fetch begins.
Compute(r) ==
  /\ MoreStages(r)
  /\ active[r]
  /\ stage' = [stage EXCEPT ![r] = @ + 1]
  /\ Post(r, "compute", stage[r] + 1)
  /\ UNCHANGED <<generation, active, published>>
  /\ UNCHANGED <<worker, input, requests, channel>>

\* The last stage is computed; finish waits for the service thread's message.
ComputeLast(r) ==
  /\ ~MoreStages(r)
  /\ Goto(r, "compute", "draining")
  /\ active[r]
  /\ stage' = [stage EXCEPT ![r] = @ + 1]
  /\ UNCHANGED <<generation, active, workspace, unasked, published>>
  /\ UNCHANGED <<worker, input, requests, posted, channel>>

SlotOf(r, op) == <<op, IF op = "a" THEN r.col ELSE r.row>>

\* notify: A before B; the flush returns once the owner's slot is written.
Notify(r) ==
  \E op \in unasked[r] :
    /\ pc[r] = "fetching"
    /\ "a" \in unasked[r] => op = "a"
    /\ requests' = [requests EXCEPT
         ![Source(r, stage[r], op)][SlotOf(r, op)] = generation[r]]
    /\ published' = [published EXCEPT ![r] = @ + 1]
    /\ unasked' = [unasked EXCEPT ![r] = @ \ {op}]
    /\ UNCHANGED <<pc, generation, stage, active, workspace>>
    /\ UNCHANGED <<worker, input, posted, channel>>

\* The service thread has sent its message, or was never started.
servedAll(r) == service[r] \in {"done", "none"}

\* finish, the message received and the thread joined.
FinishLeave(r) ==
  /\ Goto(r, "draining", "idle")
  /\ servedAll(r)
  /\ service' = [service EXCEPT ![r] = "none"]
  /\ active' = [active EXCEPT ![r] = FALSE]
  /\ UNCHANGED <<generation, stage, workspace, unasked, published>>
  /\ UNCHANGED <<serving, consumed, remaining, served>>
  /\ UNCHANGED <<input, requests, posted, channel>>

Close(r) ==
  /\ Goto(r, "idle", "closed")
  /\ ~active[r]
  /\ generation[r] = MaxProducts
  /\ UNCHANGED <<generation, stage, active, workspace, unasked, published>>
  /\ UNCHANGED <<worker, input, requests, posted, channel>>

-----------------------------------------------------------------------------
(* HybridInterNodeExchange, service thread                                 *)

\* The generation the thread was started with.
ServedGeneration(r) == generation[r]

Consumer(r, slot) ==
  IF slot[1] = "a" THEN rankAt(r.row, slot[2], r.nodeRank)
                   ELSE rankAt(slot[2], r.col, r.nodeRank)

\* What a send of r reads.
SendBuffer(r) == [tag \in Tag |-> Tile(r, input[r])]

\* Slip: a slot of an older generation counts as a request.
requestedEver(r, slot) == requests[r][slot] <= ServedGeneration(r)

requested(r, slot) == requests[r][slot] = ServedGeneration(r)

\* A poll that finds a request of this generation; one that finds an older
\* generation changes nothing, one that finds a newer one aborts.
Serve(r) ==
  \E slot \in Slot \ consumed[r] :
    /\ service[r] = "polling"
    /\ requested(r, slot)
    /\ service' = [service EXCEPT ![r] = "sending"]
    /\ serving' = [serving EXCEPT ![r] = slot]
    /\ sendTiles(r, {<<Consumer(r, slot), slot[1]>>}, SendBuffer(r))
    /\ UNCHANGED <<main, consumed, remaining, served, input, requests, posted>>

\* Slip: the slot is not marked consumed.
consumesNothing(r) == consumed[r]

consumes(r) == consumed[r] \cup {serving[r]}

\* The sends are complete; after the last one the thread tells finish.
Served(r) ==
  /\ service[r] = "sending"
  /\ SendsComplete(r)
  /\ consumed' = [consumed EXCEPT ![r] = consumes(r)]
  /\ remaining' = [remaining EXCEPT ![r] = @ - 1]
  /\ served' = [served EXCEPT ![r] = @ + 1]
  /\ service' = [service EXCEPT ![r] =
                  IF remaining[r] > 1 THEN "polling" ELSE "done"]
  /\ serving' = [serving EXCEPT ![r] = NoSlot]
  /\ UNCHANGED <<main, input, requests, posted, channel>>

\* fetch of local tiles only: waitAll has nothing to wait for.
FetchLocal(r) ==
  /\ Goto(r, "fetching", "compute")
  /\ unasked[r] = {}
  /\ ReceivesComplete(r)
  /\ UNCHANGED <<generation, stage, active, workspace, unasked, published>>
  /\ UNCHANGED <<worker, input, requests, posted, channel>>

\* Slip: one tile is enough for waitAll.
lastAny(r, recv) == unasked[r] = {}

\* recv is all that waitAll still waits for.
last(r, recv) == unasked[r] = {} /\ posted[r] = {recv}

\* A posted receive takes its tile; after the last one waitAll returns.
Match(r) ==
  \E recv \in posted[r] :
    /\ Meet(r, recv)
    /\ workspace' = [workspace EXCEPT ![r][recv[2]] =
                      Received(r, recv, SendBuffer(recv[1]))]
    /\ pc' = [pc EXCEPT ![r] = IF last(r, recv) THEN "compute" ELSE @]
    /\ UNCHANGED <<generation, stage, active, unasked, published>>
    /\ UNCHANGED <<worker, input, requests>>

-----------------------------------------------------------------------------

MainStep(r) ==
  \/ PrepareInputs(r) \/ Begin(r) \/ FetchLocal(r) \/ Compute(r)
  \/ ComputeLast(r) \/ FinishLeave(r) \/ Close(r)

WorkerStep(r) == Serve(r) \/ Served(r)

\* The run is over; everything else that stops is a deadlock.
Done ==
  /\ \A r \in Rank : pc[r] = "closed"
  /\ UNCHANGED vars

Next ==
  \/ Done
  \/ \E r \in Rank : MainStep(r) \/ WorkerStep(r) \/ Notify(r) \/ Match(r)

\* Slip: fetch spins on its tiles outside MPI.
InMpiFinishOnly(r) == pc[r] = "draining"

\* The main thread is inside a blocking MPI call that progresses the window.
InMpi(r) == pc[r] \in {"fetching", "draining"}

\* The next request of r reaches an owner that makes MPI progress.
Reaches(r) ==
  /\ \E op \in unasked[r] :
       ("a" \in unasked[r] => op = "a") /\ InMpi(Source(r, stage[r], op))
  /\ Notify(r)

\* Some thread of some rank runs whenever one can, and MPI meets posted
\* receives; a request only has to reach an owner whose main thread is inside
\* MPI.  No rank is promised more: none can go on for ever without the others.
\* Each of these steps changes one of the variables of the subscript.
Fairness ==
  WF_<<pc, input, service, posted, unasked>>(
    \E r \in Rank : MainStep(r) \/ WorkerStep(r) \/ Match(r) \/ Reaches(r))

Spec == Init /\ [][Next]_vars

FairSpec == Spec /\ Fairness

-----------------------------------------------------------------------------
(* Properties                                                              *)

\* "hybrid request generation mismatch" is never thrown: a consumer gets to
\* its next product only after the slot it will overwrite was answered, and
\* the owner does not look at that slot again in this product.
GenerationsMatch ==
  \A r \in Rank : service[r] = "polling" =>
    \A slot \in Slot \ consumed[r] : requests[r][slot] <= ServedGeneration(r)

\* Receives are posted before the request is published: a tile never waits
\* for its receive, however fast the owner.
NoUnexpectedTile ==
  \A c \in Link : channel[c] # <<>> =>
    Len(channel[c]) = 1 /\ <<c[1], c[3]>> \in posted[c[2]]

\* When a product is over, every other rank of the row and column has asked
\* for this rank's tiles of the product, and as many were asked for as served.
Drained ==
  \A r \in Rank : pc[r] \in {"idle", "closed"} =>
    /\ \A slot \in Slot \ OwnSlots(r) : requests[r][slot] >= generation[r]
    /\ published[r] = 2 * (Side - 1) * generation[r]
    /\ served[r] = published[r]

\* The protocol on the request slots, which are never reset.
RequestsAnswered == GenerationsMatch /\ Drained

\* Every rank completes all its products and closes, even if polling a rank's
\* own window never makes progress for its peers.
AllClose == <>(\A r \in Rank : pc[r] = "closed")

\* The backend implements TileExchange: no rank observes more than it allows.
StatusOf(r) ==
  IF pc[r] \in {"idle", "compute", "closed"} THEN pc[r] ELSE "active"

Exchange == INSTANCE TileExchange WITH
  status <- [r \in Rank |-> StatusOf(r)],
  product <- generation,
  version <- input,
  tile <- [r \in Rank |-> IF pc[r] = "compute" THEN workspace[r]
                          ELSE [op \in Operand |-> NoTile]]

ImplementsExchange == Exchange!Spec

=============================================================================
