------------------------ MODULE ExecutionPlan_proof ------------------------
(***************************************************************************)
(* What preparePlan promises for every grid size.                          *)
(***************************************************************************)
EXTENDS ExecutionPlan, TLAPS

\* A remainder by a positive size is a coordinate.
LEMMA Remainder ==
  ASSUME NEW x \in Int, NEW n \in Nat \ {0}
  PROVE  x % n \in 0 .. n - 1
OBVIOUS

\* The sums preparePlan reduces are below three grid sides.
LEMMA RemainderShift ==
  ASSUME NEW n \in Nat \ {0}, NEW x \in 0 .. 3 * n - 1
  PROVE  x % n = IF x < n THEN x ELSE IF x < 2 * n THEN x - n ELSE x - 2 * n
OBVIOUS

\* wrap brings a difference of coordinates, which may be negative, back to
\* the coordinate it is congruent to.
LEMMA WrapShift ==
  ASSUME NEW n \in Nat \ {0}, NEW x \in -(2 * n) + 1 .. n - 1
  PROVE  wrap(x, n) = IF x >= 0 THEN x ELSE IF x >= -n THEN x + n ELSE x + 2 * n
<1>1. CASE x >= 0
  BY <1>1, RemainderShift DEF wrap, CRemainder
<1>2. CASE x < 0
  <2>1. -x \in 0 .. 3 * n - 1
    BY <1>2
  <2>2. CRemainder(x, n) = IF -x < n THEN x ELSE x + n
    BY <1>2, <2>1, RemainderShift DEF CRemainder
  <2>3. CRemainder(x, n) + n \in 0 .. 3 * n - 1
    BY <1>2, <2>2
  <2>4. QED
    BY <1>2, <2>2, <2>3, RemainderShift DEF wrap
<1>3. QED
  BY <1>1, <1>2

\* Every source and every target of the plan is a rank of the grid.
LEMMA SourceInRank ==
  ASSUME NEW r \in Rank, NEW s \in Round, NEW op \in Operand
  PROVE  Source(r, s, op) \in Rank
<1>1. inner(r, s) \in Coord
  <2> DEFINE x == r.row + r.col + s
  <2>1. x \in Int /\ Side \in Nat \ {0}
    BY GridAssumption DEF Rank, Coord, Round
  <2> HIDE DEF x
  <2>2. x % Side \in 0 .. Side - 1
    BY <2>1, Remainder
  <2>3. QED
    BY <2>2 DEF inner, Coord, x
<1>2. QED
  BY <1>1 DEF Source, aSource, bSource, rankAt, Rank, Coord, Operand

LEMMA TargetInRank ==
  ASSUME NEW r \in Rank, NEW s \in Round, NEW op \in Operand
  PROVE  Target(r, s, op) \in Rank
<1>1. \A x \in Int : wrap(x, Side) \in Coord
  BY GridAssumption, Remainder DEF wrap, CRemainder, Coord
<1>2. QED
  BY <1>1 DEF Target, aTarget, bTarget, rankAt, Rank, Coord, Round

\* On a one-node grid every source is the rank itself.
LEMMA RemoteNeedsNodes ==
  ASSUME NEW r \in Rank, NEW s \in Round, NEW op \in Operand,
         Source(r, s, op) # r
  PROVE  Side # 1
<1> SUFFICES ASSUME Side = 1 PROVE Source(r, s, op) = r
  OBVIOUS
<1>1. \A q \in Rank : q.row = 0 /\ q.col = 0
  BY DEF Rank, Coord
<1>2. /\ Source(r, s, op) \in Rank
      /\ Source(r, s, op).nodeRank = r.nodeRank
  BY SourceInRank DEF Source, aSource, bSource, rankAt
<1>3. QED
  BY <1>1, <1>2 DEF Rank

\* preparePlan computes the senders and the receivers of a round separately;
\* they agree: r sends an operand to q exactly when q takes it from r.  So a
\* round gives every receive buffer one writer and every owner one consumer.
THEOREM TargetsInvertSources ==
  ASSUME NEW r \in Rank, NEW q \in Rank, NEW s \in Round, NEW op \in Operand
  PROVE  Target(r, s, op) = q <=> Source(q, s, op) = r
<1> DEFINE n == Side
<1>0. /\ n \in Nat \ {0}
      /\ r.row \in 0 .. n - 1 /\ r.col \in 0 .. n - 1
      /\ q.row \in 0 .. n - 1 /\ q.col \in 0 .. n - 1
      /\ s \in 0 .. n - 1
  BY GridAssumption DEF Rank, Coord, Round
<1>1. \A x \in 0 .. n - 1, y \in 0 .. n - 1, z \in 0 .. n - 1 :
        wrap(x - y - s, n) = z <=> (y + z + s) % n = x
  <2> SUFFICES ASSUME NEW x \in 0 .. n - 1, NEW y \in 0 .. n - 1,
                      NEW z \in 0 .. n - 1
               PROVE  wrap(x - y - s, n) = z <=> (y + z + s) % n = x
    OBVIOUS
  <2> DEFINE d == x - y - s
             e == y + z + s
  <2>1. d \in -(2 * n) + 1 .. n - 1 /\ e \in 0 .. 3 * n - 1
    BY <1>0
  <2>2. wrap(d, n) = IF d >= 0 THEN d ELSE IF d >= -n THEN d + n ELSE d + 2 * n
    BY <1>0, <2>1, WrapShift
  <2>3. e % n = IF e < n THEN e ELSE IF e < 2 * n THEN e - n ELSE e - 2 * n
    BY <1>0, <2>1, RemainderShift
  <2>4. QED
    BY <1>0, <2>2, <2>3
<1>2. CASE op = "a"
  <2>1. Source(q, s, op) = r <=>
          q.row = r.row /\ q.nodeRank = r.nodeRank
            /\ (q.row + q.col + s) % n = r.col
    BY <1>2 DEF Source, aSource, inner, rankAt, Rank
  <2>2. Target(r, s, op) = q <=>
          q.row = r.row /\ q.nodeRank = r.nodeRank
            /\ wrap(r.col - r.row - s, n) = q.col
    BY <1>2 DEF Target, aTarget, rankAt, Rank
  <2>3. wrap(r.col - r.row - s, n) = q.col <=> (r.row + q.col + s) % n = r.col
    BY <1>0, <1>1
  <2>4. QED
    BY <2>1, <2>2, <2>3
<1>3. CASE op = "b"
  <2>1. Source(q, s, op) = r <=>
          q.col = r.col /\ q.nodeRank = r.nodeRank
            /\ (q.row + q.col + s) % n = r.row
    BY <1>3 DEF Source, bSource, inner, rankAt, Rank
  <2>2. Target(r, s, op) = q <=>
          q.col = r.col /\ q.nodeRank = r.nodeRank
            /\ wrap(r.row - r.col - s, n) = q.row
    BY <1>3 DEF Target, bTarget, rankAt, Rank
  <2>3. wrap(r.row - r.col - s, n) = q.row <=> (r.col + q.row + s) % n = r.row
    BY <1>0, <1>1
  <2>4. (q.row + r.col + s) % n = (r.col + q.row + s) % n
    BY <1>0
  <2>5. QED
    BY <2>1, <2>2, <2>3, <2>4
<1>4. QED
  BY <1>2, <1>3 DEF Operand

\* Over the rounds of a product a rank multiplies every inner block exactly
\* once: the product is complete and no contribution is added twice.
THEOREM RoundsCoverInnerBlocks ==
  ASSUME NEW r \in Rank, NEW i \in Coord
  PROVE  \E s \in Round : /\ inner(r, s) = i
                          /\ \A t \in Round : inner(r, t) = i => t = s
<1> DEFINE n == Side
           base == r.row + r.col
           d == i - base
           s0 == IF d >= 0 THEN d ELSE IF d >= -n THEN d + n ELSE d + 2 * n
<1>1. /\ n \in Nat \ {0} /\ i \in 0 .. n - 1
      /\ r.row \in 0 .. n - 1 /\ r.col \in 0 .. n - 1
  BY GridAssumption DEF Rank, Coord
<1>2. \A t \in 0 .. n - 1 :
        inner(r, t) = IF base + t < n THEN base + t
                      ELSE IF base + t < 2 * n THEN base + t - n
                      ELSE base + t - 2 * n
  <2> SUFFICES ASSUME NEW t \in 0 .. n - 1
               PROVE  inner(r, t) = IF base + t < n THEN base + t
                                    ELSE IF base + t < 2 * n THEN base + t - n
                                    ELSE base + t - 2 * n
    OBVIOUS
  <2>1. PICK x \in 0 .. 3 * n - 1 : x = base + t
    BY <1>1
  <2>2. inner(r, t) = x % n
    BY <2>1 DEF inner
  <2>3. x % n = IF x < n THEN x ELSE IF x < 2 * n THEN x - n ELSE x - 2 * n
    BY <1>1, <2>1, RemainderShift
  <2>4. QED
    BY <1>1, <2>1, <2>2, <2>3
<1>3. s0 \in 0 .. n - 1
  BY <1>1
<1>4. inner(r, s0) = i
  BY <1>1, <1>2, <1>3
<1>5. \A t \in 0 .. n - 1 : inner(r, t) = i => t = s0
  BY <1>1, <1>2
<1>6. QED
  BY <1>3, <1>4, <1>5 DEF Round

-----------------------------------------------------------------------------
\* The round in which c takes the tile op of o.
When(c, o, op) == CHOOSE s \in Round : Source(c, s, op) = o

\* A rank takes each tile of its row and its column in one round.
LEMMA OneRound ==
  ASSUME NEW o \in Rank, NEW c \in Rank, NEW op \in Operand,
         o.nodeRank = c.nodeRank,
         IF op = "a" THEN o.row = c.row ELSE o.col = c.col
  PROVE  /\ When(c, o, op) \in Round
         /\ \A s \in Round : Source(c, s, op) = o <=> s = When(c, o, op)
<1> DEFINE i == IF op = "a" THEN o.col ELSE o.row
<1>2. \A s \in Round : Source(c, s, op) = o <=> inner(c, s) = i
  BY DEF Source, aSource, bSource, rankAt, Rank, Operand
<1>3. PICK s \in Round : inner(c, s) = i /\ \A t \in Round : inner(c, t) = i => t = s
  <2>1. i \in Coord
    BY DEF Rank
  <2> QED
    BY <2>1, RoundsCoverInnerBlocks
<1>4. \A t \in Round : Source(c, t, op) = o <=> t = s
  BY <1>2, <1>3
<1> HIDE DEF i
<1> QED
  BY <1>4 DEF When

-----------------------------------------------------------------------------
\* The number of stage s of product g + 1, over all products.
Total(g, s) == Side * g + s

\* The last stage of a product ends where the first of the next begins.
LEMMA TotalStep ==
  ASSUME NEW g \in Int, NEW s \in Int
  PROVE  /\ Total(g, s) \in Int
         /\ Total(g, s + 1) = Total(g, s) + 1
         /\ Total(g + 1, 0) = Total(g, Side)
BY GridAssumption DEF Total

\* The number of a stage tells its product and its place there.
LEMMA TotalInjective ==
  ASSUME NEW g \in Int, NEW h \in Int, NEW s \in Round, NEW t \in Round,
         Total(g, s) = Total(h, t)
  PROVE  g = h /\ s = t
<1> DEFINE n == Side
<1>1. n \in Nat \ {0} /\ s \in 0 .. n - 1 /\ t \in 0 .. n - 1
  BY GridAssumption DEF Round
<1>2. n * g + s = n * h + t
  BY DEF Total
<1>3. \A x \in Int, y \in Int : x >= y + 1 => n * x >= n * y + n
  <2> SUFFICES ASSUME NEW x \in Int, NEW y \in Int, x >= y + 1
               PROVE  n * x >= n * y + n
    OBVIOUS
  <2>1. PICK d \in Nat : x = y + 1 + d
    <3>1. x - y - 1 \in Nat /\ x = y + 1 + (x - y - 1)
      OBVIOUS
    <3>2. QED
      BY <3>1
  <2>2. n * x = n * y + n + n * d
    BY <1>1, <2>1
  <2>3. n * d >= 0
    BY <1>1
  <2>4. n * y \in Int /\ n * d \in Int
    BY <1>1
  <2>5. QED
    BY <1>1, <2>2, <2>3, <2>4
<1>4. n * g \in Int /\ n * h \in Int
  BY <1>1
<1> HIDE DEF n
<1>5. ~(g >= h + 1)
  BY <1>1, <1>2, <1>3, <1>4
<1>6. ~(h >= g + 1)
  BY <1>1, <1>2, <1>3, <1>4
<1>7. g = h
  BY <1>5, <1>6
<1>8. QED
  BY <1>1, <1>2, <1>4, <1>7

=============================================================================
