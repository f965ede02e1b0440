--------------------------- MODULE ExecutionPlan ---------------------------
(***************************************************************************)
(* The process grid and the stage plan every Trident backend executes.     *)
(*                                                                         *)
(* Side * Side nodes of NodeSize ranks each.  A rank is its coordinates    *)
(* (grid.row, grid.col, grid.nodeRank).  At round s a rank multiplies the  *)
(* A tile of aSource by the B panel whose slice it takes from bSource,     *)
(* and hands its own tiles to aTarget and bTarget.                         *)
(***************************************************************************)
EXTENDS Integers

CONSTANTS
  Side,         \* nodes per grid row and per grid column
  NodeSize,     \* ranks per node
  MaxProducts,  \* bound: products every rank computes before it closes
  NoTile        \* what a buffer holds that no complete tile was written to

ASSUME GridAssumption ==
  /\ Side \in Nat \ {0}
  /\ NodeSize \in Nat \ {0}

ASSUME ProductsAssumption == MaxProducts \in Nat

Coord == 0 .. Side - 1

Rank == [row : Coord, col : Coord, nodeRank : 0 .. NodeSize - 1]

Round == 0 .. Side - 1

Operand == {"a", "b"}

\* ProcessGrid::rankAt: the grid position stands for its rank number.
rankAt(i, j, k) == [row |-> i, col |-> j, nodeRank |-> k]

\* The number rankAt computes; coordinateRanks is laid out in this order.
RankNumber(r) == (r.row * Side + r.col) * NodeSize + r.nodeRank

-----------------------------------------------------------------------------
(* preparePlan                                                             *)

\* C++ integer remainder truncates toward zero.
CRemainder(value, size) ==
  IF value >= 0 THEN value % size ELSE -((-value) % size)

wrap(value, size) == (CRemainder(value, size) + size) % size

inner(r, s) == (r.row + r.col + s) % Side

aSource(r, s) == rankAt(r.row, inner(r, s), r.nodeRank)

bSource(r, s) == rankAt(inner(r, s), r.col, r.nodeRank)

aTarget(r, s) == rankAt(r.row, wrap(r.col - r.row - s, Side), r.nodeRank)

bTarget(r, s) == rankAt(wrap(r.row - r.col - s, Side), r.col, r.nodeRank)

Source(r, s, op) == IF op = "a" THEN aSource(r, s) ELSE bSource(r, s)

Target(r, s, op) == IF op = "a" THEN aTarget(r, s) ELSE bTarget(r, s)

-----------------------------------------------------------------------------
(* Contents of a tile: whose input it is, and which version of it.         *)

Tile(owner, version) == [owner |-> owner, version |-> version]

\* Inputs are rewritten in place between products, so the inputs of product
\* g are their version g.
Version == 0 .. MaxProducts

TileOrNone == [owner : Rank, version : Version] \cup {NoTile}

\* What stage s of product g must multiply at rank r.
Expected(r, s, op, g) == Tile(Source(r, s, op), g)

=============================================================================
