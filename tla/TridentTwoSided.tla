-------------------------- MODULE TridentTwoSided --------------------------
(***************************************************************************)
(* multiply with TwoSidedInterNodeExchange and TwoSidedIntraNodeExchange:  *)
(* only point-to-point messages, no barrier anywhere.  Ranks drift apart   *)
(* as far as the messages they wait for let them.                          *)
(***************************************************************************)
EXTENDS TileMessages

VARIABLES
  pc,         \* [Rank -> where multiply and the exchanges stand]
  product,    \* [Rank -> number of the product in progress, or last finished]
  stage,      \* [Rank -> the stage of plan.stages multiply is at]
  input,      \* [Rank -> version of the rank's own tiles]
  workspace,  \* [Rank -> [Operand -> tile]]
  panel       \* [Rank -> [node rank -> B slice assembled from it]]

vars == <<pc, product, stage, input, workspace, panel, posted, channel>>

Location == {"idle", "fetch", "waiting", "assemble", "assembling", "compute",
             "closed"}

NodeRank == 0 .. NodeSize - 1

TypeOK ==
  /\ pc \in [Rank -> Location]
  /\ product \in [Rank -> Version]
  /\ stage \in [Rank -> 0 .. Side]
  /\ input \in [Rank -> Version]
  /\ workspace \in [Rank -> [Operand -> TileOrNone]]
  /\ panel \in [Rank -> [NodeRank -> TileOrNone]]
  /\ MessagesTypeOK

NoPanel == [k \in NodeRank |-> NoTile]

Init ==
  /\ pc = [r \in Rank |-> "idle"]
  /\ product = [r \in Rank |-> 0]
  /\ stage = [r \in Rank |-> 0]
  /\ input = [r \in Rank |-> 0]
  /\ workspace = [r \in Rank |-> [op \in Operand |-> NoTile]]
  /\ panel = [r \in Rank |-> NoPanel]
  /\ MessagesInit

Goto(r, from, to) ==
  /\ pc[r] = from
  /\ pc' = [pc EXCEPT ![r] = to]

-----------------------------------------------------------------------------
(* MPI                                                                     *)

\* What a send of r reads, by its tag.
SendBuffer(r) ==
  [tag \in Tag |-> IF tag = "slice" THEN workspace[r]["b"]
                                    ELSE Tile(r, input[r])]

\* A posted receive takes its tile.
Match(r) ==
  \E recv \in posted[r] :
    LET tile == Received(r, recv, SendBuffer(recv[1])) IN
    /\ Meet(r, recv)
    /\ \/ /\ recv[2] \in Operand
          /\ workspace' = [workspace EXCEPT ![r][recv[2]] = tile]
          /\ UNCHANGED panel
       \/ /\ recv[2] = "slice"
          /\ panel' = [panel EXCEPT ![r][recv[1].nodeRank] = tile]
          /\ UNCHANGED workspace
    /\ UNCHANGED <<pc, product, stage, input>>

\* Slip: only the receives are waited for.
AllReceived(r) == ReceivesComplete(r)

\* waitAll: no receive is open and every send has completed.
AllComplete(r) == ReceivesComplete(r) /\ SendsComplete(r)

-----------------------------------------------------------------------------
(* The caller                                                              *)

\* Outside a product the caller rewrites its inputs in place.
PrepareInputs(r) ==
  /\ pc[r] = "idle"
  /\ product[r] < MaxProducts
  /\ input[r] = product[r]
  /\ input' = [input EXCEPT ![r] = @ + 1]
  /\ UNCHANGED <<pc, product, stage, workspace, panel, posted, channel>>

\* begin does nothing in this backend; the loop starts.
Begin(r) ==
  /\ Goto(r, "idle", "fetch")
  /\ input[r] = product[r] + 1
  /\ product' = [product EXCEPT ![r] = @ + 1]
  /\ stage' = [stage EXCEPT ![r] = 0]
  /\ UNCHANGED <<input, workspace, panel, posted, channel>>

\* Slip: the loop stays at its stage.
ComputeSameStage(r) ==
  /\ Goto(r, "compute", "fetch")
  /\ UNCHANGED <<product, stage, input, workspace, panel, posted, channel>>

\* addProduct reads workspace.a and the panel; the loop goes on.
Compute(r) ==
  /\ Goto(r, "compute", "fetch")
  /\ stage' = [stage EXCEPT ![r] = @ + 1]
  /\ UNCHANGED <<product, input, workspace, panel, posted, channel>>

\* finish does nothing in this backend.
Finish(r) ==
  /\ Goto(r, "fetch", "idle")
  /\ stage[r] = Side
  /\ UNCHANGED <<product, stage, input, workspace, panel, posted, channel>>

Close(r) ==
  /\ Goto(r, "idle", "closed")
  /\ product[r] = MaxProducts
  /\ UNCHANGED <<product, stage, input, workspace, panel, posted, channel>>

-----------------------------------------------------------------------------
(* TwoSidedInterNodeExchange                                               *)

RemoteSources(r) == {op \in Operand : Source(r, stage[r], op) # r}

RemoteTargets(r) == {op \in Operand : Target(r, stage[r], op) # r}

MoreStages(r) == stage[r] < Side

\* fetch, up to waitAll: local copies, receives, sends.
Fetch(r) ==
  /\ Goto(r, "fetch", "waiting")
  /\ MoreStages(r)
  /\ workspace' = [workspace EXCEPT ![r] =
       [op \in Operand |-> IF op \in RemoteSources(r) THEN NoTile
                                                      ELSE Tile(r, input[r])]]
  /\ receiveTiles(r,
       {<<Source(r, stage[r], op), op>> : op \in RemoteSources(r)})
  /\ sendTiles(r,
       {<<Target(r, stage[r], op), op>> : op \in RemoteTargets(r)},
       SendBuffer(r))
  /\ UNCHANGED <<product, stage, input, panel>>

FetchWait(r) ==
  /\ Goto(r, "waiting", "assemble")
  /\ AllComplete(r)
  /\ UNCHANGED <<product, stage, input, workspace, panel, posted, channel>>

-----------------------------------------------------------------------------
(* TwoSidedIntraNodeExchange                                               *)

peers(r) == {q \in Rank : q.row = r.row /\ q.col = r.col /\ q # r}

\* assemble, up to waitAll: the own slice, receives and sends.
Assemble(r) ==
  /\ Goto(r, "assemble", "assembling")
  /\ panel' = [panel EXCEPT ![r] =
                [NoPanel EXCEPT ![r.nodeRank] = workspace[r]["b"]]]
  /\ receiveTiles(r, {<<q, "slice">> : q \in peers(r)})
  /\ sendTiles(r, {<<q, "slice">> : q \in peers(r)}, SendBuffer(r))
  /\ UNCHANGED <<product, stage, input, workspace>>

AssembleWait(r) ==
  /\ Goto(r, "assembling", "compute")
  /\ AllComplete(r)
  /\ UNCHANGED <<product, stage, input, workspace, panel, posted, channel>>

-----------------------------------------------------------------------------

Step(r) ==
  \/ PrepareInputs(r) \/ Begin(r) \/ Fetch(r) \/ Match(r) \/ FetchWait(r)
  \/ Assemble(r) \/ AssembleWait(r) \/ Compute(r) \/ Finish(r) \/ Close(r)

\* The run is over; everything else that stops is a deadlock.
Done ==
  /\ \A r \in Rank : pc[r] = "closed"
  /\ UNCHANGED vars

Next == Done \/ \E r \in Rank : Step(r)

Spec == Init /\ [][Next]_vars

-----------------------------------------------------------------------------
(* Properties                                                              *)

\* The panel of a stage is made of the slices all ranks of the node fetched
\* for that stage of that product, each in its owner's place.
FreshPanel ==
  \A r \in Rank : pc[r] = "compute" =>
    \A k \in NodeRank :
      panel[r][k] = Expected(rankAt(r.row, r.col, k), stage[r], "b", product[r])

\* The backend implements TileExchange: no message meets another stage's or
\* another product's receive.
StatusOf(r) ==
  CASE pc[r] \in {"idle", "closed"} -> pc[r]
    [] pc[r] \in {"assemble", "assembling", "compute"} -> "compute"
    [] OTHER -> "active"

Exchange == INSTANCE TileExchange WITH
  status <- [r \in Rank |-> StatusOf(r)],
  version <- input,
  tile <- [r \in Rank |-> IF StatusOf(r) = "compute" THEN workspace[r]
                          ELSE [op \in Operand |-> NoTile]]

ImplementsExchange == Exchange!Spec

=============================================================================
