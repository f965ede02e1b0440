---------------------------- MODULE TileExchange ----------------------------
(***************************************************************************)
(* What an InterNodeExchange promises the product loop, whatever carries   *)
(* the tiles.                                                              *)
(*                                                                         *)
(* Every rank computes a sequence of products over the same plan.  Between *)
(* two products its caller may rewrite the input tiles in place, so the    *)
(* inputs of product g are their version g.  Whichever rank runs ahead,    *)
(* the tiles stage s of product g works on are version g of the tiles of   *)
(* the plan's sources: never an older one, never the next one.             *)
(*                                                                         *)
(* The backends (two-sided, GET, GET pipeline, PUT, hybrid) implement this *)
(* module; how far ranks may drift apart is up to each of them.            *)
(***************************************************************************)
EXTENDS ExecutionPlan

VARIABLES
  status,    \* [Rank -> Status]
  product,   \* [Rank -> number of the product in progress, or last finished]
  stage,     \* [Rank -> stages consumed in this product]
  version,   \* [Rank -> version of the rank's own input tiles]
  tile       \* [Rank -> [Operand -> tile the current stage works on]]

vars == <<status, product, stage, version, tile>>

Status == {"idle", "active", "compute", "closed"}

NoTiles == [op \in Operand |-> NoTile]

TypeOK ==
  /\ status \in [Rank -> Status]
  /\ product \in [Rank -> Version]
  /\ stage \in [Rank -> 0 .. Side]
  /\ version \in [Rank -> Version]
  /\ tile \in [Rank -> [Operand -> TileOrNone]]

Init ==
  /\ status = [r \in Rank |-> "idle"]
  /\ product = [r \in Rank |-> 0]
  /\ stage = [r \in Rank |-> 0]
  /\ version = [r \in Rank |-> 0]
  /\ tile = [r \in Rank |-> NoTiles]

\* The caller fills in the inputs of the next product.
Prepare(r) ==
  /\ status[r] = "idle"
  /\ product[r] < MaxProducts
  /\ version[r] = product[r]
  /\ version' = [version EXCEPT ![r] = @ + 1]
  /\ UNCHANGED <<status, product, stage, tile>>

begin(r) ==
  /\ status[r] = "idle"
  /\ version[r] = product[r] + 1
  /\ status' = [status EXCEPT ![r] = "active"]
  /\ product' = [product EXCEPT ![r] = @ + 1]
  /\ stage' = [stage EXCEPT ![r] = 0]
  /\ UNCHANGED <<version, tile>>

\* The sources must have reached this product; they may have gone past it.
fetch(r) ==
  /\ status[r] = "active"
  /\ stage[r] < Side
  /\ \A op \in Operand :
       version[Source(r, stage[r], op)] >= product[r]
  /\ tile' = [tile EXCEPT ![r] =
               [op \in Operand |-> Expected(r, stage[r], op, product[r])]]
  /\ status' = [status EXCEPT ![r] = "compute"]
  /\ UNCHANGED <<product, stage, version>>

\* assemble and addProduct have read the tiles of the stage.
Consume(r) ==
  /\ status[r] = "compute"
  /\ status' = [status EXCEPT ![r] = "active"]
  /\ stage' = [stage EXCEPT ![r] = @ + 1]
  /\ tile' = [tile EXCEPT ![r] = NoTiles]
  /\ UNCHANGED <<product, version>>

finish(r) ==
  /\ status[r] = "active"
  /\ stage[r] = Side
  /\ status' = [status EXCEPT ![r] = "idle"]
  /\ UNCHANGED <<product, stage, version, tile>>

close(r) ==
  /\ status[r] = "idle"
  /\ product[r] = MaxProducts
  /\ status' = [status EXCEPT ![r] = "closed"]
  /\ UNCHANGED <<product, stage, version, tile>>

Step(r) ==
  Prepare(r) \/ begin(r) \/ fetch(r) \/ Consume(r) \/ finish(r) \/ close(r)

Next == \E r \in Rank : Step(r)

Spec == Init /\ [][Next]_vars

=============================================================================
