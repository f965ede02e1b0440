---------------------------- MODULE ProcessGrid ----------------------------
(***************************************************************************)
(* How the ranks of a job find their place in the square grid of nodes,    *)
(* wherever the launcher put them.                                         *)
(*                                                                         *)
(* Every step is a collective all ranks take together; what each of them   *)
(* decides from its own node is kept apart.  The other modules name a rank *)
(* by its place.                                                           *)
(***************************************************************************)
EXTENDS Integers, FiniteSets

CONSTANTS
  RankCounts,   \* sizes of the job
  MaxHosts      \* bound: physical nodes the launcher uses

ASSUME RankCountsAssumption == RankCounts \subseteq Nat \ {0}

VARIABLES
  size,              \* ranks in the world
  host,              \* [rank -> the physical node it runs on]
  logicalNodeSize,   \* --logical-node-size, 0 when it is not given
  phase,             \* how far the constructor is
  refused,           \* the ranks that threw
  node,              \* [rank -> ranks of its node communicator]
  coordinateRanks,   \* [number of a place -> rank]
  row, col           \* [rank -> its node's place]

gridVars == <<size, host, logicalNodeSize, phase, refused, node, coordinateRanks,
             row, col>>

Ranks == 0 .. size - 1

\* Hosts are numbered in the order of their first rank.
Numbered(h) ==
  \A p \in DOMAIN h : h[p] = 0 \/ \E q \in DOMAIN h : q < p /\ h[q] = h[p] - 1

GridInit ==
  /\ size \in RankCounts
  /\ host \in {h \in [0 .. size - 1 -> 0 .. MaxHosts - 1] : Numbered(h)}
  /\ logicalNodeSize \in 0 .. size
  /\ phase = "split"
  /\ refused = {}
  /\ node = [p \in Ranks |-> {}]
  /\ coordinateRanks = <<>>
  /\ row = [p \in Ranks |-> 0]
  /\ col = [p \in Ranks |-> 0]

-----------------------------------------------------------------------------

\* MPI_Comm_split_type: the ranks that share memory.
shared(p) == {q \in Ranks : host[q] = host[p]}

RefusesLogicalSize(p) ==
  \/ size % logicalNodeSize # 0
  \/ Cardinality(shared(p)) # size

SplitNode ==
  /\ phase = "split"
  /\ IF logicalNodeSize # 0
     THEN /\ refused' = {p \in Ranks : RefusesLogicalSize(p)}
          /\ node' = [p \in Ranks |->
               {q \in Ranks : q \div logicalNodeSize = p \div logicalNodeSize}]
     ELSE /\ node' = [p \in Ranks |-> shared(p)]
          /\ UNCHANGED refused
  /\ phase' = IF refused' = {} THEN "sizes" ELSE "refused"
  /\ UNCHANGED <<size, host, logicalNodeSize, coordinateRanks, row, col>>

\* node_size, and nodeRank: both communicators are ordered by world rank.
nodeSize(p) == Cardinality(node[p])

nodeRank(p) == Cardinality({q \in node[p] : q < p})

nodeCount(p) == size \div nodeSize(p)

\* The integer square root.
side(p) == CHOOSE s \in 0 .. size : s * s <= nodeCount(p) /\ (s + 1) * (s + 1) > nodeCount(p)

\* Slip: a rank looks at its own node only.
CompareOwnSize ==
  /\ phase = "sizes"
  /\ refused' = {p \in Ranks : side(p) * side(p) # nodeCount(p)}
  /\ phase' = IF refused' = {} THEN "leaders" ELSE "refused"
  /\ UNCHANGED <<size, host, logicalNodeSize, node, coordinateRanks, row, col>>

\* MPI_Allreduce tells every rank the smallest and the largest node.
CompareSizes ==
  /\ phase = "sizes"
  /\ refused' = {p \in Ranks : \/ \E q, t \in Ranks : nodeSize(q) # nodeSize(t)
                               \/ side(p) * side(p) # nodeCount(p)}
  /\ phase' = IF refused' = {} THEN "leaders" ELSE "refused"
  /\ UNCHANGED <<size, host, logicalNodeSize, node, coordinateRanks, row, col>>

\* The lowest rank of a node, as MPI_Bcast and MPI_Allgather tell everyone.
leader(p) == CHOOSE q \in node[p] : \A t \in node[p] : q <= t

\* Slip: nodes are numbered as if their ranks followed each other.
nodeIdByBlocks(p) == leader(p) \div nodeSize(p)

\* The place of the leader among all of them in order.
nodeId(p) == Cardinality({leader(q) : q \in {t \in Ranks : leader(t) < leader(p)}})

Place ==
  /\ phase = "leaders"
  /\ phase' = "built"
  /\ coordinateRanks' =
       [n \in Ranks |->
         LET held == {p \in Ranks : nodeId(p) * nodeSize(p) + nodeRank(p) = n}
         IN IF held = {} THEN 0 ELSE CHOOSE p \in held : \A q \in held : q <= p]
  /\ row' = [p \in Ranks |-> nodeId(p) \div side(p)]
  /\ col' = [p \in Ranks |-> nodeId(p) % side(p)]
  /\ UNCHANGED <<size, host, logicalNodeSize, refused, node>>

Stopped == phase \in {"built", "refused"} /\ UNCHANGED gridVars

GridNext == SplitNode \/ CompareSizes \/ Place \/ Stopped

GridSpec == GridInit /\ [][GridNext]_gridVars

-----------------------------------------------------------------------------

rankAt(p, i, j, k) == coordinateRanks[(i * side(p) + j) * nodeSize(p) + k]

\* However the launcher spread the ranks: a rank is found at its own place,
\* every place of the grid is somebody's, and the ranks of one place of the
\* grid of nodes are those of one node.
EveryRankInItsPlace ==
  phase = "built" =>
    \A p \in Ranks :
      /\ row[p] < side(p)
      /\ rankAt(p, row[p], col[p], nodeRank(p)) = p
      /\ {rankAt(p, row[p], col[p], k) : k \in 0 .. nodeSize(p) - 1} = node[p]
      /\ \A q \in Ranks : rankAt(p, row[q], col[q], nodeRank(q)) = q

\* A job no grid fits is refused by all its ranks, not by some of them while
\* the others wait in the next collective.
NobodyRefusesAlone == refused \in {{}, Ranks}

=============================================================================
