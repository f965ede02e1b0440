------------------------ MODULE BaselineProduct_proof ------------------------
(***************************************************************************)
(* For all matrices, bounds and numbers of ranks: the verdict of the       *)
(* validation is right in both directions (Judgement), and what a baseline *)
(* program puts together is the product, without ever failing a check of   *)
(* its own (BaselineIInvGivesProduct, a theorem of MCAlgorithms_proof).    *)
(*                                                                         *)
(* What the rows hold is defined by recursion over rows and entries, which *)
(* is why the recursion steps of Csr are functions: that such a function   *)
(* exists, and what follows for all its arguments, is shown with a least   *)
(* counterexample (FirstFailure, Iterated) instead of an induction rule.   *)
(* SumIs and FlattenIs turn SumOf and FlattenSeq into functions that obey  *)
(* their recursion; AscendingIs says that Ascending sorts.                 *)
(*                                                                         *)
(* The invariant of the verdict (VerdictIInv) follows the merge: the       *)
(* coordinates judged so far are all those of the rows before and, in the  *)
(* row at hand, the columns either side has passed, and rejected counts    *)
(* the ones among them that are off.                                       *)
(*                                                                         *)
(* The invariant of the product (BaselineIInv) names every block: the cut  *)
(* of A and of B a rank holds once it has received it, its share of the    *)
(* result, what of them is still on the wire, and the shares rank 0 has    *)
(* appended, whose rows are those of the serial product (ResultRow).       *)
(***************************************************************************)
EXTENDS BaselineProduct, FullValidation, FiniteSetTheorems, NaturalsInduction,
        SequenceTheorems, WellFoundedInduction, TLAPS

-----------------------------------------------------------------------------
(* Numbers, sums and sequences                                             *)

\* A set of numbers that is not empty has a least one.
LEMMA FirstFailure ==
  ASSUME NEW T \in SUBSET Nat, T # {}
  PROVE  \E n \in T : \A m \in T : n <= m
<1>1. PICK n \in T : \A m \in T : ~(<<m, n>> \in OpToRel(<, Nat))
  BY NatLessThanWellFounded, WFMin
<1>2. \A m \in T : ~(m < n)
  BY <1>1 DEF OpToRel
<1>3. QED
  BY <1>2

IsIteration(f, first, step, n) ==
  f = [k \in 0 .. n |-> IF k = 0 THEN first ELSE step[<<k, f[k - 1]>>]]

\* A step that stays in S may be repeated.
LEMMA Iterated ==
  ASSUME NEW S, NEW first \in S, NEW step, NEW N \in Nat,
         \A k \in 1 .. N, v \in S : step[<<k, v>>] \in S
  PROVE  \E f : /\ IsIteration(f, first, step, N)
                /\ \A k \in 0 .. N : f[k] \in S
<1> DEFINE Good(n) == \E f : /\ IsIteration(f, first, step, n)
                             /\ \A k \in 0 .. n : f[k] \in S
           T == {n \in 0 .. N : ~Good(n)}
<1>0. SUFFICES ASSUME T # {} PROVE FALSE
  OBVIOUS
<1>1. PICK n \in T : \A m \in T : n <= m
  <2>1. T \in SUBSET Nat
    OBVIOUS
  <2> HIDE DEF T
  <2>2. QED
    BY <1>0, <2>1, FirstFailure
<1>n. n \in 0 .. N /\ ~Good(n)
  OBVIOUS
<1>2. n # 0
  <2> DEFINE f == [k \in 0 .. 0 |-> first]
  <2>1. f = [k \in 0 .. 0 |-> IF k = 0 THEN first ELSE step[<<k, f[k - 1]>>]]
    OBVIOUS
  <2>2. Good(0)
    BY <2>1 DEF IsIteration
  <2>3. QED
    BY <1>n, <2>2
<1>3. PICK f : IsIteration(f, first, step, n - 1) /\ \A k \in 0 .. n - 1 : f[k] \in S
  <2>1. n - 1 \in 0 .. N /\ ~(n <= n - 1)
    BY <1>n, <1>2
  <2>2. n - 1 \notin T
    BY <2>1, <1>1
  <2>3. Good(n - 1)
    BY <2>1, <2>2
  <2>4. QED
    BY <2>3
<1> DEFINE g == [k \in 0 .. n |-> IF k = n THEN step[<<n, f[n - 1]>>] ELSE f[k]]
<1>4. \A k \in 0 .. n - 1 : f[k] = IF k = 0 THEN first ELSE step[<<k, f[k - 1]>>]
  BY <1>3 DEF IsIteration
<1>5. ASSUME NEW k \in 0 .. n
      PROVE  g[k] = IF k = 0 THEN first ELSE step[<<k, g[k - 1]>>]
  <2>1. CASE k = n
    <3>1. n - 1 \in 0 .. n /\ n - 1 # n
      BY <1>n, <1>2
    <3>2. QED
      BY <2>1, <3>1, <1>2
  <2>2. CASE k # n
    <3>1. k \in 0 .. n - 1 /\ (k # 0 => k - 1 \in 0 .. n /\ k - 1 # n)
      BY <2>2, <1>n
    <3>2. QED
      BY <2>2, <3>1, <1>4
  <2>3. QED
    BY <2>1, <2>2
<1>6. ASSUME NEW k \in 0 .. n
      PROVE  g[k] \in S
  <2>1. f[n - 1] \in S /\ step[<<n, f[n - 1]>>] \in S
    BY <1>3, <1>2, <1>n
  <2>2. k # n => f[k] \in S
    BY <1>3, <1>n
  <2>3. QED
    BY <2>1, <2>2
<1>7. g = [k \in 0 .. n |-> IF k = 0 THEN first ELSE step[<<k, g[k - 1]>>]]
  BY <1>5
<1>8. QED
  <2>1. IsIteration(g, first, step, n)
    BY <1>7 DEF IsIteration
  <2>2. \A k \in 0 .. n : g[k] \in S
    BY <1>6
  <2>3. Good(n)
    BY <2>1, <2>2
  <2>4. QED
    BY <2>3, <1>n

-----------------------------------------------------------------------------
(* Sums                                                                    *)

IsSum(f, s) ==
  /\ f[0] = 0
  /\ \A k \in 1 .. Len(s) : f[k] = f[k - 1] + s[k]
  /\ \A k \in 0 .. Len(s) : f[k] \in Int

LEMMA SumIs ==
  ASSUME NEW s \in Seq(Int)
  PROVE  \E f : IsSum(f, s) /\ SumOf(s) = f[Len(s)]
<1> DEFINE n == Len(s)
           step == [p \in (1 .. n) \X Int |-> p[2] + s[p[1]]]
           rec(f) == [k \in 0 .. n |-> IF k = 0 THEN 0 ELSE f[k - 1] + s[k]]
           sum == CHOOSE f : f = rec(f)
<1>0. n \in Nat /\ \A k \in 1 .. n : s[k] \in Int
  OBVIOUS
<1>1. \A k \in 1 .. n, v \in Int : step[<<k, v>>] = v + s[k]
  OBVIOUS
<1>2. PICK f : IsIteration(f, 0, step, n) /\ \A k \in 0 .. n : f[k] \in Int
  <2> HIDE DEF step, n
  <2>1. ASSUME NEW k \in 1 .. n, NEW v \in Int PROVE step[<<k, v>>] \in Int
    BY <1>0, <1>1
  <2>2. 0 \in Int /\ n \in Nat
    BY <1>0
  <2>3. QED
    BY ONLY <2>1, <2>2, Iterated, Zenon
<1> HIDE DEF step
<1>3. f = rec(f)
  <2>1. f = [k \in 0 .. n |-> IF k = 0 THEN 0 ELSE step[<<k, f[k - 1]>>]]
    BY <1>2 DEF IsIteration
  <2>2. ASSUME NEW k \in 0 .. n
        PROVE (IF k = 0 THEN 0 ELSE step[<<k, f[k - 1]>>]) = IF k = 0 THEN 0 ELSE f[k - 1] + s[k]
    <3>1. CASE k = 0
      BY <3>1
    <3>2. CASE k # 0
      <4>1. k \in 1 .. n /\ f[k - 1] \in Int
        BY <1>0, <1>2, <3>2
      <4>2. QED
        BY <1>1, <4>1, <3>2
    <3>3. QED
      BY <3>1, <3>2
  <2>3. QED
    BY <2>1, <2>2
<1>4. sum = rec(sum)
  <2> HIDE DEF rec
  <2>1. QED
    BY <1>3
<1>5. IsSum(sum, s)
  <2>1. sum[0] = 0 /\ \A k \in 1 .. n : sum[k] = sum[k - 1] + s[k]
    <3>1. \A k \in 0 .. n : sum[k] = IF k = 0 THEN 0 ELSE sum[k - 1] + s[k]
      BY <1>4
    <3> HIDE DEF sum
    <3>2. QED
      BY <1>0, <3>1
  <2> DEFINE T == {k \in 0 .. n : sum[k] \notin Int}
  <2>2. CASE T # {}
    <3> HIDE DEF sum
    <3>1. PICK k \in T : \A m \in T : k <= m
      <4>1. T \in SUBSET Nat
        OBVIOUS
      <4> HIDE DEF T
      <4>2. QED
        BY <2>2, <4>1, FirstFailure
    <3>2. k # 0
      BY <2>1
    <3>3. k - 1 \in 0 .. n /\ k - 1 \notin T /\ k \in 1 .. n
      BY <3>1, <3>2
    <3>4. sum[k - 1] \in Int
      BY <3>3
    <3>5. QED
      BY <3>4, <3>3, <2>1, <1>0
  <2>3. CASE T = {}
    BY <2>1, <2>3 DEF IsSum
  <2>4. QED
    BY <2>2, <2>3
<1>6. SumOf(s) = sum[n]
  BY DEF SumOf
<1>7. QED
  BY <1>5, <1>6

\* Where one term counts, it is the sum.
LEMMA SumOfOne ==
  ASSUME NEW s \in Seq(Int), NEW p \in 1 .. Len(s),
         \A k \in 1 .. Len(s) : k # p => s[k] = 0
  PROVE  SumOf(s) = s[p]
<1>1. PICK f : IsSum(f, s) /\ SumOf(s) = f[Len(s)]
  BY SumIs
<1> DEFINE T == {k \in 0 .. Len(s) : f[k] # IF k < p THEN 0 ELSE s[p]}
<1>2. CASE T # {}
  <2>1. PICK k \in T : \A m \in T : k <= m
    <3>1. T \in SUBSET Nat
      OBVIOUS
    <3> HIDE DEF T
    <3>2. QED
      BY <1>2, <3>1, FirstFailure
  <2>2. k # 0
    BY <1>1 DEF IsSum
  <2>3. k - 1 \in 0 .. Len(s) /\ k - 1 \notin T /\ k \in 1 .. Len(s)
    BY <2>1, <2>2
  <2>4. f[k - 1] = (IF k - 1 < p THEN 0 ELSE s[p]) /\ f[k] = f[k - 1] + s[k]
    BY <2>3, <1>1 DEF IsSum
  <2>5. s[k] \in Int /\ s[p] \in Int
    BY <2>3
  <2>6. QED
    BY <2>1, <2>3, <2>4, <2>5
<1>3. CASE T = {}
  BY <1>1, <1>3
<1>4. QED
  BY <1>2, <1>3

LEMMA SumOfNone ==
  ASSUME NEW s \in Seq(Int), \A k \in 1 .. Len(s) : s[k] = 0
  PROVE  SumOf(s) = 0
<1>1. CASE Len(s) = 0
  BY <1>1, SumIs DEF IsSum
<1>2. CASE Len(s) # 0
  BY <1>2, SumOfOne
<1>3. QED
  BY <1>1, <1>2

-----------------------------------------------------------------------------
(* Entries                                                                 *)

Entry == [column : Nat, value : Int]

LEMMA ColumnSumTerms ==
  ASSUME NEW entries \in Seq(Entry), NEW column
  PROVE  [i \in DOMAIN entries |->
            IF entries[i].column = column THEN entries[i].value ELSE 0] \in Seq(Int)
<1>1. ASSUME NEW i \in DOMAIN entries PROVE entries[i].value \in Int
  <2>1. entries[i] \in Entry
    OBVIOUS
  <2>2. QED
    BY <2>1 DEF Entry
<1>2. DOMAIN entries = 1 .. Len(entries) /\ Len(entries) \in Nat
  OBVIOUS
<1>3. QED
  BY <1>1, <1>2

\* A column that one entry has adds up to its value.
LEMMA ColumnSumOfOne ==
  ASSUME NEW entries \in Seq(Entry), NEW p \in DOMAIN entries,
         \A i \in DOMAIN entries : i # p => entries[i].column # entries[p].column
  PROVE  ColumnSum(entries, entries[p].column) = entries[p].value
<1> DEFINE s == [i \in DOMAIN entries |->
              IF entries[i].column = entries[p].column THEN entries[i].value ELSE 0]
<1>1. /\ s \in Seq(Int) /\ Len(s) = Len(entries) /\ p \in 1 .. Len(s)
      /\ s[p] = entries[p].value
      /\ \A k \in 1 .. Len(s) : k # p => s[k] = 0
  <2>1. s \in Seq(Int)
    BY ColumnSumTerms
  <2>2. DOMAIN s = 1 .. Len(entries) /\ Len(entries) \in Nat
    OBVIOUS
  <2>3. Len(s) = Len(entries)
    BY <2>1, <2>2
  <2>4. QED
    BY <2>1, <2>2, <2>3
<1> HIDE DEF s
<1>2. SumOf(s) = s[p]
  BY <1>1, SumOfOne
<1>3. QED
  BY <1>1, <1>2 DEF ColumnSum, s

LEMMA ColumnSumOfNone ==
  ASSUME NEW entries \in Seq(Entry), NEW column,
         \A i \in DOMAIN entries : entries[i].column # column
  PROVE  ColumnSum(entries, column) = 0
<1> DEFINE s == [i \in DOMAIN entries |->
              IF entries[i].column = column THEN entries[i].value ELSE 0]
<1>1. s \in Seq(Int) /\ \A k \in 1 .. Len(s) : s[k] = 0
  <2>1. s \in Seq(Int)
    BY ColumnSumTerms
  <2>2. DOMAIN s = 1 .. Len(entries) /\ Len(entries) \in Nat
    OBVIOUS
  <2>3. QED
    BY <2>1, <2>2
<1> HIDE DEF s
<1>2. SumOf(s) = 0
  BY <1>1, SumOfNone
<1>3. QED
  BY <1>2 DEF ColumnSum, s

LEMMA ColumnSumInt ==
  ASSUME NEW entries \in Seq(Entry), NEW column
  PROVE  ColumnSum(entries, column) \in Int
<1> DEFINE s == [i \in DOMAIN entries |->
              IF entries[i].column = column THEN entries[i].value ELSE 0]
<1>1. s \in Seq(Int)
  BY ColumnSumTerms
<1> HIDE DEF s
<1>2. SumOf(s) \in Int
  <2>1. PICK f : IsSum(f, s) /\ SumOf(s) = f[Len(s)]
    BY <1>1, SumIs
  <2>2. Len(s) \in 0 .. Len(s)
    BY <1>1
  <2>3. QED
    BY <2>1, <2>2 DEF IsSum
<1>3. QED
  BY <1>2 DEF ColumnSum, s

-----------------------------------------------------------------------------
(* Sequences one after the other                                           *)

\* f[k] is made of the first k of the sequences.
IsFlat(f, ss) ==
  /\ f[0] = <<>>
  /\ \A k \in 1 .. Len(ss) : f[k] = f[k - 1] \o ss[k]

LEMMA FlattenIs ==
  ASSUME NEW T, NEW ss \in Seq(Seq(T))
  PROVE  \E f : /\ IsFlat(f, ss)
                /\ \A k \in 0 .. Len(ss) : f[k] \in Seq(T)
                /\ FlattenSeq(ss) = f[Len(ss)]
<1> DEFINE n == Len(ss)
           step == [p \in (1 .. n) \X Seq(T) |-> p[2] \o ss[p[1]]]
           rec(f) == [k \in 1 .. n |-> IF k = 1 THEN ss[k] ELSE f[k - 1] \o ss[k]]
           flat == CHOOSE f : f = rec(f)
<1>0. n \in Nat /\ \A k \in 1 .. n : ss[k] \in Seq(T)
  OBVIOUS
<1>1. \A k \in 1 .. n, v \in Seq(T) : step[<<k, v>>] = v \o ss[k]
  OBVIOUS
<1>2. PICK g : IsIteration(g, <<>>, step, n) /\ \A k \in 0 .. n : g[k] \in Seq(T)
  <2> HIDE DEF step, n
  <2>1. ASSUME NEW k \in 1 .. n, NEW v \in Seq(T) PROVE step[<<k, v>>] \in Seq(T)
    <3>1. ss[k] \in Seq(T) /\ step[<<k, v>>] = v \o ss[k]
      BY <1>0, <1>1
    <3>2. QED
      BY <3>1, ConcatProperties
  <2>2. <<>> \in Seq(T) /\ n \in Nat
    BY <1>0
  <2>3. QED
    BY ONLY <2>1, <2>2, Iterated, Zenon
<1>3. IsFlat(g, ss)
  <2> HIDE DEF step
  <2>1. \A k \in 0 .. n : g[k] = IF k = 0 THEN <<>> ELSE step[<<k, g[k - 1]>>]
    BY <1>2 DEF IsIteration
  <2>2. ASSUME NEW k \in 1 .. n PROVE g[k] = g[k - 1] \o ss[k]
    <3>1. k \in 0 .. n /\ k # 0 /\ k - 1 \in 0 .. n
      BY <1>0
    <3>2. QED
      BY <3>1, <2>1, <1>1, <1>2
  <2>3. g[0] = <<>>
    <3>1. 0 \in 0 .. n
      BY <1>0
    <3>2. QED
      BY <2>1, <3>1
  <2>4. QED
    BY <2>2, <2>3 DEF IsFlat
<1> HIDE DEF step
<1>4. CASE n = 0
  <2>1. FlattenSeq(ss) = ss /\ ss = <<>>
    BY <1>4 DEF FlattenSeq
  <2>2. QED
    BY <2>1, <1>2, <1>3, <1>4 DEF IsFlat
<1>5. CASE n # 0
  <2>1. [k \in 1 .. n |-> g[k]] = rec([k \in 1 .. n |-> g[k]])
    <3>1. ASSUME NEW k \in 1 .. n
          PROVE  g[k] = IF k = 1 THEN ss[k] ELSE g[k - 1] \o ss[k]
      <4>1. CASE k = 1
        <5>1. g[k - 1] = <<>> /\ ss[k] \in Seq(T)
          BY <1>0, <1>3, <4>1 DEF IsFlat
        <5>2. g[k] = g[k - 1] \o ss[k]
          BY <1>3 DEF IsFlat
        <5>3. QED
          BY <5>1, <5>2, <4>1
      <4>2. CASE k # 1
        BY <4>2, <1>3 DEF IsFlat
      <4>3. QED
        BY <4>1, <4>2
    <3>2. \A k \in 1 .. n : k # 1 => k - 1 \in 1 .. n
      BY <1>0
    <3>3. QED
      BY <3>1, <3>2
  <2>2. flat = rec(flat)
    <3> HIDE DEF rec
    <3>1. QED
      BY <2>1
  <2>3. \A k \in 1 .. n : flat[k] = IF k = 1 THEN ss[k] ELSE flat[k - 1] \o ss[k]
    BY <2>2
  <2> HIDE DEF flat
  <2> DEFINE W == {k \in 1 .. n : flat[k] # g[k]}
  <2>4. CASE W # {}
    <3>1. PICK k \in W : \A m \in W : k <= m
      <4>1. W \in SUBSET Nat
        OBVIOUS
      <4> HIDE DEF W
      <4>2. QED
        BY <2>4, <4>1, FirstFailure
    <3>2. k # 1
      <4> SUFFICES ASSUME k = 1 PROVE FALSE
        OBVIOUS
      <4>1. g[k - 1] = <<>> /\ ss[k] \in Seq(T)
        BY <1>0, <1>3 DEF IsFlat
      <4>2. g[k] = g[k - 1] \o ss[k]
        BY <1>3 DEF IsFlat
      <4>3. flat[k] = ss[k]
        BY <2>3
      <4>4. QED
        BY <3>1, <4>1, <4>2, <4>3
    <3>3. k \in 1 .. n /\ k - 1 \in 1 .. n /\ k - 1 \notin W
      <4>1. k \in 1 .. n
        BY <3>1
      <4>2. k - 1 \in 1 .. n /\ ~(k <= k - 1)
        BY ONLY <4>1, <3>2, <1>0
      <4> HIDE DEF W
      <4>3. k - 1 \notin W
        BY ONLY <3>1, <4>2
      <4>4. QED
        BY ONLY <4>1, <4>2, <4>3
    <3>4. flat[k] = flat[k - 1] \o ss[k] /\ g[k] = g[k - 1] \o ss[k]
      BY <3>2, <3>3, <2>3, <1>3 DEF IsFlat
    <3>5. QED
      BY <3>1, <3>3, <3>4
  <2>5. CASE W = {}
    <3>1. flat[n] = g[n]
      BY <2>5, <1>0, <1>5
    <3>2. FlattenSeq(ss) = flat[n]
      BY <1>5 DEF FlattenSeq, flat
    <3>3. QED
      BY <3>1, <3>2, <1>2, <1>3
  <2>6. QED
    BY <2>4, <2>5
<1>6. QED
  BY <1>4, <1>5

LEMMA FlattenType ==
  ASSUME NEW T, NEW ss \in Seq(Seq(T))
  PROVE  FlattenSeq(ss) \in Seq(T)
BY FlattenIs

-----------------------------------------------------------------------------
(* Sets of numbers                                                         *)

Below(S, x) == {y \in S : y < x}

\* Counting what is below a member numbers a set of numbers from zero.
LEMMA Counted ==
  ASSUME NEW S \in SUBSET Nat, IsFiniteSet(S)
  PROVE  /\ Cardinality(S) \in Nat
         /\ \A x \in S : Cardinality(Below(S, x)) \in 0 .. Cardinality(S) - 1
         /\ \A x, y \in S : Cardinality(Below(S, x)) = Cardinality(Below(S, y)) => x = y
         /\ \A k \in 0 .. Cardinality(S) - 1 : \E x \in S : Cardinality(Below(S, x)) = k
<1>1. Cardinality(S) \in Nat
  BY FS_CardinalityType
<1>2. ASSUME NEW x \in S
      PROVE  IsFiniteSet(Below(S, x)) /\ Cardinality(Below(S, x)) \in 0 .. Cardinality(S) - 1
  <2>1. IsFiniteSet(S \ {x}) /\ Cardinality(S \ {x}) = Cardinality(S) - 1
    BY FS_RemoveElement
  <2>2. Below(S, x) \in SUBSET (S \ {x})
    BY DEF Below
  <2>3. IsFiniteSet(Below(S, x)) /\ Cardinality(Below(S, x)) <= Cardinality(S \ {x})
    BY <2>1, <2>2, FS_Subset
  <2>4. Cardinality(Below(S, x)) \in Nat
    BY <2>3, FS_CardinalityType
  <2> QED
    BY <1>1, <2>1, <2>3, <2>4
<1>3. ASSUME NEW x \in S, NEW y \in S, x < y
      PROVE  Cardinality(Below(S, x)) < Cardinality(Below(S, y))
  <2>1. x \notin Below(S, x)
    BY DEF Below
  <2>2. Cardinality(Below(S, x) \cup {x}) = Cardinality(Below(S, x)) + 1
    BY <1>2, <2>1, FS_AddElement
  <2>3. Below(S, x) \cup {x} \in SUBSET Below(S, y)
    <3>1. \A z \in S : z \in Nat
      OBVIOUS
    <3>2. \A z \in S : z < x => z < y
      BY <1>3, <3>1
    <3> QED
      BY <1>3, <3>2 DEF Below
  <2>4. Cardinality(Below(S, x) \cup {x}) <= Cardinality(Below(S, y))
    BY <1>2, <2>3, FS_Subset
  <2>5. Cardinality(Below(S, x)) \in Int /\ Cardinality(Below(S, y)) \in Int
    BY <1>2
  <2> QED
    BY <2>2, <2>4, <2>5
<1>4. ASSUME NEW x \in S, NEW y \in S, Cardinality(Below(S, x)) = Cardinality(Below(S, y))
      PROVE  x = y
  <2>1. ~ (x < y) /\ ~ (y < x)
    <3>1. Cardinality(Below(S, x)) \in Int
      BY <1>2
    <3> QED
      BY <1>3, <1>4, <3>1
  <2>2. x \in Nat /\ y \in Nat
    OBVIOUS
  <2> QED
    BY <2>1, <2>2
<1>5. ASSUME NEW k \in 0 .. Cardinality(S) - 1
      PROVE  \E x \in S : Cardinality(Below(S, x)) = k
  <2> DEFINE n == 0 .. Cardinality(S) - 1
  <2> DEFINE f == [x \in S |-> Cardinality(Below(S, x))]
  <2>1. f \in [S -> n] /\ \A x, y \in S : f[x] = f[y] => x = y
    BY <1>2, <1>4
  <2>2. IsFiniteSet(n) /\ Cardinality(n) = Cardinality(S)
    <3>1. /\ IsFiniteSet(0 .. Cardinality(S) - 1)
          /\ Cardinality(0 .. Cardinality(S) - 1) =
               IF 0 > Cardinality(S) - 1 THEN 0 ELSE Cardinality(S) - 1 - 0 + 1
      <4>1. 0 \in Int /\ Cardinality(S) - 1 \in Int
        BY <1>1
      <4> QED
        BY <4>1, FS_Interval, Zenon
    <3> QED
      BY <1>1, <3>1
  <2>3. k \in n
    OBVIOUS
  <2>4. \A x \in S : f[x] = Cardinality(Below(S, x))
    OBVIOUS
  <2> HIDE DEF f, n
  <2>5. f \in Injection(S, n)
    BY <2>1 DEF Injection, IsInjective
  <2>6. f \in Surjection(S, n)
    BY <2>2, <2>5, FS_Injection
  <2> QED
    BY <2>3, <2>4, <2>6 DEF Surjection
<1> QED
  BY <1>1, <1>2, <1>4, <1>5

\* Ascending lists the members in order.
LEMMA AscendingIs ==
  ASSUME NEW S \in SUBSET Nat, IsFiniteSet(S)
  PROVE  /\ Cardinality(S) \in Nat
         /\ Ascending(S) \in [1 .. Cardinality(S) -> S]
         /\ \A i, j \in 1 .. Cardinality(S) : i < j => Ascending(S)[i] < Ascending(S)[j]
         /\ \A x \in S : \E i \in 1 .. Cardinality(S) : Ascending(S)[i] = x
<1>0. \A x, y \in S : Cardinality(Below(S, x)) = Cardinality(Below(S, y)) => x = y
  BY ONLY S \in SUBSET Nat, IsFiniteSet(S), Counted
<1> DEFINE n == Cardinality(S)
           A == Ascending(S)
<1>1. n \in Nat
  BY Counted
<1>2. A = [i \in 1 .. n |-> CHOOSE x \in S : Cardinality(Below(S, x)) = i - 1]
  BY DEF Ascending, Below
<1>3. ASSUME NEW i \in 1 .. n
      PROVE  A[i] \in S /\ Cardinality(Below(S, A[i])) = i - 1
  <2>1. i - 1 \in 0 .. n - 1
    BY <1>1
  <2>2. \E x \in S : Cardinality(Below(S, x)) = i - 1
    BY <2>1, Counted
  <2>3. A[i] = CHOOSE x \in S : Cardinality(Below(S, x)) = i - 1
    BY <1>2
  <2> HIDE DEF A
  <2>4. QED
    BY <2>2, <2>3
<1>4. ASSUME NEW i \in 1 .. n, NEW j \in 1 .. n, i < j
      PROVE  A[i] < A[j]
  <2> HIDE DEF A
  <2>1. A[i] \in S /\ A[j] \in S /\ A[i] \in Nat /\ A[j] \in Nat
    BY <1>3
  <2>a. Cardinality(Below(S, A[i])) = i - 1 /\ Cardinality(Below(S, A[j])) = j - 1
    BY <1>3
  <2>b. A[i] # A[j]
    <3>1. i - 1 # j - 1
      BY <1>1, <1>4
    <3>2. QED
      BY <2>a, <3>1
  <2>2. CASE A[j] < A[i]
    <3>1. Below(S, A[j]) \in SUBSET Below(S, A[i])
      <4>1. ASSUME NEW y \in S, y < A[j] PROVE y < A[i]
        BY <2>1, <2>2, <4>1
      <4>2. QED
        BY <4>1 DEF Below
    <3>2. IsFiniteSet(Below(S, A[i]))
      <4>1. Below(S, A[i]) \in SUBSET S
        BY DEF Below
      <4>2. QED
        BY <4>1, FS_Subset
    <3>3. Cardinality(Below(S, A[j])) <= Cardinality(Below(S, A[i]))
      BY <3>1, <3>2, FS_Subset
    <3>4. QED
      BY <3>3, <2>a, <1>1, <1>4
  <2>3. QED
    BY <2>1, <2>b, <2>2
<1>5. ASSUME NEW x \in S
      PROVE  \E i \in 1 .. n : A[i] = x
  <2>1. Cardinality(Below(S, x)) \in 0 .. n - 1
    BY Counted
  <2>2. PICK i \in 1 .. n : Cardinality(Below(S, x)) = i - 1
    <3>1. Cardinality(Below(S, x)) + 1 \in 1 .. n
      BY <2>1, <1>1
    <3>2. Cardinality(Below(S, x)) = (Cardinality(Below(S, x)) + 1) - 1
      BY <2>1
    <3>3. QED
      BY <3>1, <3>2
  <2>3. A[i] \in S /\ Cardinality(Below(S, A[i])) = Cardinality(Below(S, x))
    BY <2>2, <1>3
  <2> HIDE DEF A
  <2>4. A[i] = x
    BY <1>0, <2>3
  <2>5. QED
    BY <2>4
<1>6. A \in [1 .. n -> S]
  BY <1>2, <1>3
<1>7. QED
  BY <1>1, <1>4, <1>5, <1>6

-----------------------------------------------------------------------------
(* The verdict                                                             *)

Valid ==
  /\ validNumericCsr(input.a, FALSE)
  /\ validNumericCsr(input.b, FALSE)
  /\ validNumericCsr(input.result, TRUE)
  /\ input.a.cols = input.b.rows
  /\ input.result.rows = input.a.rows
  /\ input.result.cols = input.b.cols

\* The columns of a row are in order.
InOrder(row) == \A p, q \in DOMAIN row : p < q => row[p].column < row[q].column

-----------------------------------------------------------------------------
(* Rows of a matrix that was accepted                                      *)

EntryBelow(n) == [column : 0 .. n - 1, value : Int]

LEMMA RowType ==
  ASSUME NEW m \in AnyCsr, ValidOffsets(m), NEW k \in 0 .. m.rows - 1, ColumnsInRange(m, k)
  PROVE  /\ Row(m, k) \in Seq(EntryBelow(m.cols))
         /\ Row(m, k) \in Seq(Entry)
         /\ Len(Row(m, k)) = RowLength(m, k)
<1> DEFINE first == m.rowPtr[k + 1]
           n == m.rowPtr[k + 2] - m.rowPtr[k + 1]
           row == Row(m, k)
<1>1. /\ m.rows \in Int /\ m.cols \in Int
      /\ m.rowPtr \in Seq(Int) /\ m.columns \in Seq(Int) /\ m.values \in Seq(Int)
  BY DEF AnyCsr
<1>2. /\ 0 <= first /\ first <= m.rowPtr[k + 2] /\ m.rowPtr[k + 2] <= Len(m.values)
      /\ Len(m.rowPtr) = m.rows + 1 /\ Len(m.columns) = Len(m.values)
  BY DEF ValidOffsets, OffsetsInRange, Nnz
<1>3. k + 1 \in 1 .. Len(m.rowPtr) /\ k + 2 \in 1 .. Len(m.rowPtr)
  BY <1>1, <1>2
<1>4. first \in Int /\ m.rowPtr[k + 2] \in Int
  <2> DEFINE s == m.rowPtr
  <2>1. s \in Seq(Int) /\ k + 1 \in 1 .. Len(s) /\ k + 2 \in 1 .. Len(s)
    BY <1>1, <1>3
  <2> HIDE DEF s
  <2>2. s[k + 1] \in Int /\ s[k + 2] \in Int
    BY <2>1, ElementOfSeq
  <2>3. QED
    BY <2>2 DEF s
<1> DEFINE last == m.rowPtr[k + 2]
<1>5. n \in Nat /\ row = [i \in 1 .. n |-> [column |-> m.columns[first + i],
                                           value  |-> m.values[first + i]]]
  BY <1>2, <1>4 DEF Row
<1>6. ASSUME NEW i \in 1 .. n
      PROVE  row[i] \in EntryBelow(m.cols) /\ row[i] \in Entry
  <2>1. first + i \in 1 .. Len(m.values) /\ first + i \in 1 .. Len(m.columns)
    <3>1. last \in Int /\ first \in Int /\ 0 <= first /\ last <= Len(m.values)
          /\ i \in 1 .. last - first
      BY <1>2, <1>4
    <3>2. Len(m.values) \in Int /\ Len(m.columns) = Len(m.values)
      BY <1>1, <1>2
    <3> HIDE DEF first, last
    <3>3. QED
      BY <3>1, <3>2
  <2>2. m.columns[first + i] \in Int /\ m.values[first + i] \in Int
    <3> DEFINE columns == m.columns
               values == m.values
               at == first + i
    <3>1. columns \in Seq(Int) /\ values \in Seq(Int) /\ at \in 1 .. Len(columns)
          /\ at \in 1 .. Len(values)
      BY <1>1, <2>1
    <3> HIDE DEF columns, values, at
    <3>2. columns[at] \in Int /\ values[at] \in Int
      BY <3>1, ElementOfSeq
    <3>3. QED
      BY <3>2 DEF columns, values, at
  <2>3. row[i] = [column |-> m.columns[first + i], value |-> m.values[first + i]]
    BY <1>5
  <2>4. row[i].column \in 0 .. m.cols - 1
    BY <1>5 DEF ColumnsInRange
  <2> HIDE DEF row, first
  <2>5. QED
    BY <1>1, <2>2, <2>3, <2>4 DEF EntryBelow, Entry
<1>7. QED
  <2> HIDE DEF row, first, n
  <2>1. row \in Seq(EntryBelow(m.cols)) /\ row \in Seq(Entry) /\ Len(row) = n
    <3>1. DOMAIN row = 1 .. n /\ row = [i \in 1 .. n |-> row[i]]
      BY <1>5
    <3>2. QED
      BY <1>5, <1>6, <3>1
  <2>2. QED
    BY <2>1 DEF RowLength, row, n

\* Neighbours in order are all there is to check.
LEMMA OrderIs ==
  ASSUME NEW row \in Seq(Entry)
  PROVE  InOrder(row)
           <=> \A p \in DOMAIN row : p > 1 => row[p - 1].column < row[p].column
<1>1. DOMAIN row = 1 .. Len(row) /\ Len(row) \in Nat
  OBVIOUS
<1>2. \A p \in DOMAIN row : row[p].column \in Nat
  <2>1. \A p \in DOMAIN row : row[p] \in Entry
    OBVIOUS
  <2>2. QED
    BY <2>1 DEF Entry
<1>3. ASSUME InOrder(row), NEW p \in DOMAIN row, p > 1
      PROVE  row[p - 1].column < row[p].column
  <2>1. p - 1 \in DOMAIN row /\ p - 1 < p
    BY <1>1, <1>3
  <2>2. QED
    BY <2>1, <1>3 DEF InOrder
<1>4. ASSUME \A p \in DOMAIN row : p > 1 => row[p - 1].column < row[p].column,
             NEW p \in DOMAIN row
      PROVE  \A q \in DOMAIN row : p < q => row[p].column < row[q].column
  <2> DEFINE T == {q \in DOMAIN row : p < q /\ ~(row[p].column < row[q].column)}
  <2>1. CASE T # {}
    <3>1. PICK q \in T : \A r \in T : q <= r
      <4>1. T \in SUBSET Nat
        BY <1>1
      <4> HIDE DEF T
      <4>2. QED
        BY <2>1, <4>1, FirstFailure
    <3>2. q - 1 \in DOMAIN row /\ q - 1 \notin T /\ q > 1 /\ q - 1 >= p
      BY <3>1, <1>1
    <3>3. row[q - 1].column < row[q].column
      BY <3>2, <1>4
    <3>4. row[p].column <= row[q - 1].column
      BY <3>2, <1>1, <1>2
    <3>5. row[p].column \in Nat /\ row[q].column \in Nat /\ row[q - 1].column \in Nat
      BY <3>2, <1>2
    <3>6. QED
      BY <3>1, <3>3, <3>4, <3>5
  <2>2. CASE T = {}
    BY <2>2
  <2>3. QED
    BY <2>1, <2>2
<1>5. QED
  BY <1>3, <1>4 DEF InOrder

\* The value at a coordinate is the entry's there.
LEMMA ValueOfRow ==
  ASSUME NEW row \in Seq(Entry), InOrder(row)
  PROVE  /\ \A p \in DOMAIN row : ColumnSum(row, row[p].column) = row[p].value
         /\ \A column : (\A p \in DOMAIN row : row[p].column # column)
                          => ColumnSum(row, column) = 0
<1>1. DOMAIN row = 1 .. Len(row) /\ \A p \in DOMAIN row : row[p].column \in Nat
  <2>1. \A p \in DOMAIN row : row[p] \in Entry
    OBVIOUS
  <2>2. QED
    BY <2>1 DEF Entry
<1>2. ASSUME NEW p \in DOMAIN row
      PROVE  ColumnSum(row, row[p].column) = row[p].value
  <2>1. \A i \in DOMAIN row : i # p => row[i].column # row[p].column
    BY <1>1 DEF InOrder
  <2>2. QED
    BY <2>1, ColumnSumOfOne
<1>3. QED
  BY <1>2, ColumnSumOfNone

-----------------------------------------------------------------------------
(* A row of the product                                                    *)

\* The columns of the products of a row.
Touched(k) == {ProductsOf(k)[i].column : i \in DOMAIN ProductsOf(k)}

LEMMA ProductsType ==
  ASSUME input \in Inputs, Valid, NEW k \in 0 .. input.a.rows - 1
  PROVE  ProductsOf(k) \in Seq(EntryBelow(input.b.cols))
<1> DEFINE aRow == Row(input.a, k)
           T == EntryBelow(input.b.cols)
           terms(p) == [t \in DOMAIN Row(input.b, aRow[p].column) |->
              [column |-> Row(input.b, aRow[p].column)[t].column,
               value  |-> aRow[p].value * Row(input.b, aRow[p].column)[t].value]]
           ss == [p \in DOMAIN aRow |-> terms(p)]
<1>1. /\ input.a \in AnyCsr /\ input.b \in AnyCsr
      /\ ValidOffsets(input.a) /\ ValidOffsets(input.b)
      /\ \A r \in 0 .. input.a.rows - 1 : ColumnsInRange(input.a, r)
      /\ \A r \in 0 .. input.b.rows - 1 : ColumnsInRange(input.b, r)
      /\ input.a.cols = input.b.rows
  BY InputsAssumption DEF Valid, validNumericCsr
<1>2. aRow \in Seq(EntryBelow(input.a.cols))
  BY <1>1, RowType
<1>3. ASSUME NEW p \in DOMAIN aRow
      PROVE  terms(p) \in Seq(T)
  <2> DEFINE r == aRow[p].column
             bRow == Row(input.b, r)
  <2>1. r \in 0 .. input.b.rows - 1 /\ aRow[p].value \in Int
    <3>1. aRow[p] \in EntryBelow(input.a.cols)
      BY <1>2
    <3>2. QED
      BY <3>1, <1>1 DEF EntryBelow
  <2> HIDE DEF aRow
  <2>2. bRow \in Seq(T)
    BY <1>1, <2>1, RowType
  <2> HIDE DEF T, r
  <2>3. ASSUME NEW t \in DOMAIN bRow
        PROVE  [column |-> bRow[t].column, value |-> aRow[p].value * bRow[t].value] \in T
    <3>1. bRow[t] \in T
      BY <2>2
    <3>2. QED
      BY <3>1, <2>1 DEF T, EntryBelow
  <2>4. DOMAIN bRow = 1 .. Len(bRow) /\ Len(bRow) \in Nat
    BY <2>2
  <2> HIDE DEF bRow
  <2>5. [t \in DOMAIN bRow |->
           [column |-> bRow[t].column, value |-> aRow[p].value * bRow[t].value]] \in Seq(T)
    BY <2>3, <2>4
  <2>6. QED
    BY <2>5 DEF bRow, r
<1>4. ss \in Seq(Seq(T))
  <2>1. DOMAIN aRow = 1 .. Len(aRow) /\ Len(aRow) \in Nat
    BY <1>2
  <2> HIDE DEF aRow, terms, T
  <2>2. QED
    BY <1>3, <2>1
<1>5. ProductsOf(k) = FlattenSeq(ss)
  BY DEF ProductsOf, scalarProducts
<1>6. QED
  <2> HIDE DEF ss, T
  <2>1. FlattenSeq(ss) \in Seq(T)
    BY <1>4, FlattenType
  <2>2. QED
    BY <1>5, <2>1 DEF T

LEMMA CellsAre ==
  ASSUME input \in Inputs, Valid, NEW k \in 0 .. input.a.rows - 1
  PROVE  LET row == buildFullRow(k) IN
         /\ Len(row) \in Nat /\ DOMAIN row = 1 .. Len(row)
         /\ \A i \in DOMAIN row :
              /\ row[i].column \in 0 .. input.b.cols - 1
              /\ row[i].reference = ColumnSum(ProductsOf(k), row[i].column)
              /\ row[i].bound = coordinateBound(Terms(ProductsOf(k), row[i].column))
         /\ InOrder(row)
         /\ \A i \in DOMAIN ProductsOf(k) :
              \E j \in DOMAIN row : row[j].column = ProductsOf(k)[i].column
<1> DEFINE products == ProductsOf(k)
           S == Touched(k)
           row == buildFullRow(k)
           n == Cardinality(S)
<1>1. /\ products \in Seq(EntryBelow(input.b.cols))
      /\ DOMAIN products = 1 .. Len(products) /\ Len(products) \in Nat
  BY ProductsType
<1>2. \A i \in DOMAIN products : products[i].column \in 0 .. input.b.cols - 1
  <2>1. \A i \in DOMAIN products : products[i] \in EntryBelow(input.b.cols)
    BY <1>1
  <2> HIDE DEF products
  <2>2. QED
    BY <2>1 DEF EntryBelow
<1>3. input.b.cols \in Int
  BY InputsAssumption DEF AnyCsr
<1>4. S \in SUBSET (0 .. input.b.cols - 1) /\ IsFiniteSet(0 .. input.b.cols - 1)
  <2>1. S \in SUBSET (0 .. input.b.cols - 1)
    BY <1>2 DEF Touched
  <2>2. 0 \in Int /\ input.b.cols - 1 \in Int
    BY <1>3
  <2>3. QED
    BY <2>1, <2>2, FS_Interval
<1>5. S \in SUBSET Nat /\ IsFiniteSet(S)
  <2>1. IsFiniteSet(S)
    BY <1>4, FS_Subset
  <2>2. QED
    BY <2>1, <1>3, <1>4
<1>6. /\ n \in Nat
      /\ Ascending(S) \in [1 .. n -> S]
      /\ \A i, j \in 1 .. n : i < j => Ascending(S)[i] < Ascending(S)[j]
      /\ \A x \in S : \E i \in 1 .. n : Ascending(S)[i] = x
  BY <1>5, AscendingIs
<1>7. row = [i \in 1 .. n |->
               [column    |-> Ascending(S)[i],
                reference |-> ColumnSum(products, Ascending(S)[i]),
                bound     |-> coordinateBound(Terms(products, Ascending(S)[i]))]]
  <2>1. accumulated(products) = [column \in S |-> ColumnSum(products, column)]
    BY DEF accumulated, Touched
  <2>2. DOMAIN accumulated(products) = S
    BY <2>1
  <2>3. DOMAIN Ascending(S) = 1 .. n
    BY <1>6
  <2>4. \A i \in 1 .. n : accumulated(products)[Ascending(S)[i]] = ColumnSum(products, Ascending(S)[i])
    BY <2>1, <1>6
  <2>5. row = [i \in DOMAIN Ascending(S) |->
               [column    |-> Ascending(S)[i],
                reference |-> accumulated(products)[Ascending(S)[i]],
                bound     |-> coordinateBound(Terms(products, Ascending(S)[i]))]]
    BY <2>2 DEF buildFullRow
  <2> HIDE DEF row, products, S, n
  <2>6. QED
    BY <2>3, <2>4, <2>5
<1> HIDE DEF row, products, S, n
<1>8. Len(row) = n /\ DOMAIN row = 1 .. n
  BY <1>6, <1>7
<1>9. ASSUME NEW i \in 1 .. n
      PROVE  /\ row[i].column = Ascending(S)[i] /\ Ascending(S)[i] \in S
             /\ row[i].reference = ColumnSum(products, Ascending(S)[i])
             /\ row[i].bound = coordinateBound(Terms(products, Ascending(S)[i]))
  BY <1>6, <1>7
<1>10. InOrder(row)
  BY <1>6, <1>8, <1>9 DEF InOrder
<1>11. ASSUME NEW i \in DOMAIN products
       PROVE  \E j \in DOMAIN row : row[j].column = products[i].column
  <2>1. products[i].column \in S
    BY DEF S, products, Touched
  <2>2. QED
    BY <2>1, <1>6, <1>8, <1>9
<1>12. QED
  BY <1>4, <1>6, <1>8, <1>9, <1>10, <1>11 DEF row, products

-----------------------------------------------------------------------------
(* One coordinate                                                          *)

LEMMA StoredIs ==
  ASSUME input \in Inputs, Valid, NEW k \in 0 .. input.a.rows - 1
  PROVE  LET row == Row(input.result, k) IN
         /\ row \in Seq(Entry) /\ Len(row) = RowLength(input.result, k)
         /\ DOMAIN row = 1 .. Len(row) /\ Len(row) \in Nat
         /\ \A p \in DOMAIN row : /\ row[p].column \in 0 .. input.b.cols - 1
                                 /\ row[p].value \in Int
         /\ InOrder(row)
<1> DEFINE row == Row(input.result, k)
<1>1. /\ input.result \in AnyCsr /\ ValidOffsets(input.result)
      /\ k \in 0 .. input.result.rows - 1 /\ ColumnsInRange(input.result, k)
      /\ \A p \in DOMAIN row : p > 1 => row[p - 1].column < row[p].column
      /\ input.result.cols = input.b.cols
  BY InputsAssumption DEF Valid, validNumericCsr
<1>2. /\ row \in Seq(EntryBelow(input.b.cols)) /\ row \in Seq(Entry)
      /\ Len(row) = RowLength(input.result, k)
  BY <1>1, RowType
<1> HIDE DEF row
<1>3. DOMAIN row = 1 .. Len(row) /\ Len(row) \in Nat
  BY <1>2
<1>4. \A p \in DOMAIN row : /\ row[p].column \in 0 .. input.b.cols - 1
                          /\ row[p].value \in Int
  <2>1. \A p \in DOMAIN row : row[p] \in EntryBelow(input.b.cols)
    BY <1>2
  <2>2. QED
    BY <2>1 DEF EntryBelow
<1>5. InOrder(row)
  BY <1>1, <1>2, OrderIs
<1>6. QED
  BY <1>2, <1>3, <1>4, <1>5 DEF row

LEMMA TermsNat ==
  ASSUME input \in Inputs, Valid, NEW k \in 0 .. input.a.rows - 1, NEW column
  PROVE  /\ Terms(ProductsOf(k), column) \in Nat
         /\ (\A i \in DOMAIN ProductsOf(k) : ProductsOf(k)[i].column # column)
              => Terms(ProductsOf(k), column) = 0
<1> DEFINE products == ProductsOf(k)
           S == {i \in DOMAIN products : products[i].column = column}
<1>1. DOMAIN products = 1 .. Len(products) /\ Len(products) \in Nat
  BY ProductsType
<1> HIDE DEF products
<1>2. IsFiniteSet(S) /\ Cardinality(S) \in Nat
  <2>1. IsFiniteSet(1 .. Len(products))
    BY <1>1, FS_Interval
  <2>2. S \in SUBSET (1 .. Len(products))
    BY <1>1
  <2>3. QED
    BY <2>1, <2>2, FS_Subset, FS_CardinalityType
<1>3. (\A i \in DOMAIN products : products[i].column # column) => Cardinality(S) = 0
  <2> SUFFICES ASSUME \A i \in DOMAIN products : products[i].column # column
               PROVE  Cardinality(S) = 0
    OBVIOUS
  <2>1. S = {}
    OBVIOUS
  <2>2. QED
    BY <2>1, FS_EmptySet
<1>4. QED
  BY <1>2, <1>3 DEF Terms, products

Difference(v, reference, bound) ==
  bound # Unavailable /\ v - reference <= bound /\ reference - v <= bound

LEMMA OffIs ==
  ASSUME input \in Inputs, Valid, NEW k \in 0 .. input.a.rows - 1, NEW column
  PROVE  Off(<<k, column>>)
           <=> ~Difference(ColumnSum(Row(input.result, k), column),
                           ColumnSum(ProductsOf(k), column),
                           coordinateBound(Terms(ProductsOf(k), column)))
<1> DEFINE v == ColumnSum(Row(input.result, k), column)
           reference == ColumnSum(ProductsOf(k), column)
           bound == coordinateBound(Terms(ProductsOf(k), column))
<1>1. v \in Int
  BY StoredIs, ColumnSumInt
<1>2. reference \in Int
  <2>1. ProductsOf(k) \in Seq(Entry)
    <3>1. EntryBelow(input.b.cols) \in SUBSET Entry
      <4>1. input.b.cols \in Int
        BY InputsAssumption DEF AnyCsr
      <4>2. QED
        BY <4>1 DEF EntryBelow, Entry
    <3>2. ProductsOf(k) \in Seq(EntryBelow(input.b.cols))
      BY ProductsType
    <3>3. QED
      BY <3>1, <3>2
  <2>2. QED
    BY <2>1, ColumnSumInt
<1>3. bound \in Int
  <2>1. Terms(ProductsOf(k), column) \in Int
    BY TermsNat
  <2>2. QED
    BY <2>1, BoundsAssumption DEF coordinateBound, Unavailable
<1>4. Off(<<k, column>>)
        <=> bound = Unavailable \/ v - reference > bound \/ -(v - reference) > bound
  BY DEF Off, ValueAt
<1> HIDE DEF v, reference, bound
<1>5. QED
  BY <1>1, <1>2, <1>3, <1>4 DEF Difference, v, reference, bound

LEMMA JudgedRight ==
  ASSUME input \in Inputs, Valid, NEW k \in 0 .. input.a.rows - 1, NEW column
  PROVE  LET row == Row(input.result, k)
             cell == buildFullRow(k)
             stored == \E p \in DOMAIN row : row[p].column = column
             wanted == \E j \in DOMAIN cell : cell[j].column = column
         IN
         /\ ~stored /\ ~wanted => ~Off(<<k, column>>)
         /\ \A p \in DOMAIN row : row[p].column = column /\ ~wanted =>
              (Off(<<k, column>>) <=> ~accepted(row[p].value, NoCell(column)))
         /\ \A j \in DOMAIN cell : cell[j].column = column /\ ~stored =>
              (Off(<<k, column>>) <=> ~accepted(0, cell[j]))
         /\ \A p \in DOMAIN row, j \in DOMAIN cell :
              row[p].column = column /\ cell[j].column = column =>
              (Off(<<k, column>>) <=> ~accepted(row[p].value, cell[j]))
<1> DEFINE row == Row(input.result, k)
           cell == buildFullRow(k)
           stored == \E p \in DOMAIN row : row[p].column = column
           wanted == \E j \in DOMAIN cell : cell[j].column = column
           v == ColumnSum(row, column)
           reference == ColumnSum(ProductsOf(k), column)
           bound == coordinateBound(Terms(ProductsOf(k), column))
<1>1. Off(<<k, column>>) <=> ~Difference(v, reference, bound)
  BY OffIs
<1>2. /\ \A p \in DOMAIN row : row[p].column = column => v = row[p].value
      /\ ~stored => v = 0
  <2>1. row \in Seq(Entry) /\ InOrder(row)
    BY StoredIs
  <2> HIDE DEF row
  <2>2. QED
    BY <2>1, ValueOfRow
<1>3. \A j \in DOMAIN cell : cell[j].column = column =>
        reference = cell[j].reference /\ bound = cell[j].bound
  BY CellsAre
<1>4. ~wanted => reference = 0 /\ bound = 0
  <2> SUFFICES ASSUME ~wanted PROVE reference = 0 /\ bound = 0
    OBVIOUS
  <2>1. \A i \in DOMAIN ProductsOf(k) : ProductsOf(k)[i].column # column
    BY CellsAre
  <2>2. Terms(ProductsOf(k), column) = 0
    BY <2>1, TermsNat
  <2>3. ProductsOf(k) \in Seq(Entry)
    <3>1. EntryBelow(input.b.cols) \in SUBSET Entry
      <4>1. input.b.cols \in Int
        BY InputsAssumption DEF AnyCsr
      <4>2. QED
        BY <4>1 DEF EntryBelow, Entry
    <3>2. ProductsOf(k) \in Seq(EntryBelow(input.b.cols))
      BY ProductsType
    <3>3. QED
      BY <3>1, <3>2
  <2>4. reference = 0
    BY <2>1, <2>3, ColumnSumOfNone
  <2>5. QED
    BY <2>2, <2>4 DEF coordinateBound
<1> HIDE DEF row, cell, v, reference, bound
<1>5. QED
  BY <1>1, <1>2, <1>3, <1>4
  DEF Difference, accepted, NoCell, Unavailable, row, cell
-----------------------------------------------------------------------------
(* The verdict                                                             *)

OffCoordinates == {at \in Coordinates : Off(at)}

WrongRows ==
  {k \in 0 .. input.a.rows - 1 : nonZeros(buildFullRow(k)) # RowLength(input.result, k)}

\* The coordinates of the rows before k, and those of row k in columns C.
Reached(k, C) == {at \in Coordinates : at[1] < k \/ (at[1] = k /\ at[2] \in C)}

\* The columns of the row at hand that were judged.
SeenColumns ==
  {Stored[p].column : p \in 1 .. actual - 1} \cup {cells[p].column : p \in 1 .. expected - 1}

\* A row is half merged: what was taken from one side is before the next of
\* the other.
HalfMerged ==
  /\ currentRow < input.a.rows
  /\ cells = buildFullRow(currentRow)
  /\ actual \in 1 .. Len(Stored) + 1
  /\ expected \in 1 .. Len(cells) + 1
  /\ expected <= Len(cells) =>
       \A p \in 1 .. actual - 1 : Stored[p].column < cells[expected].column
  /\ actual <= Len(Stored) =>
       \A p \in 1 .. expected - 1 : cells[p].column < Stored[actual].column

\* What was counted so far.
Tallied(columns, rows) ==
  /\ Valid
  /\ currentRow \in 0 .. input.a.rows
  /\ passed = FALSE
  /\ rejected = Cardinality(Reached(currentRow, columns) \cap OffCoordinates)
  /\ rowNnzMismatches = Cardinality((0 .. rows - 1) \cap WrongRows)

Verdict ==
  IF Valid
  THEN /\ rejected = Cardinality(OffCoordinates)
       /\ passed = (rejected = 0)
       /\ rowNnzMismatches = Cardinality(WrongRows)
  ELSE ~passed

VerdictIInv ==
  /\ input \in Inputs
  /\ judging \in {"check", "row", "merge", "done"}
  /\ judging = "check" =>
       currentRow = 0 /\ rejected = 0 /\ rowNnzMismatches = 0 /\ passed = FALSE
  /\ judging = "row" => Tallied({}, currentRow)
  /\ judging = "merge" => HalfMerged /\ Tallied(SeenColumns, currentRow + 1)
  /\ judging = "done" => Verdict

-----------------------------------------------------------------------------

\* Everything that does not change.
LEMMA SameInput ==
  ASSUME UNCHANGED input
  PROVE  /\ Valid' = Valid
         /\ Coordinates' = Coordinates
         /\ OffCoordinates' = OffCoordinates
         /\ WrongRows' = WrongRows
         /\ \A k : (buildFullRow(k))' = buildFullRow(k)
         /\ \A k, C : (Reached(k, C))' = Reached(k, C)
<1>1. \A k : (ProductsOf(k))' = ProductsOf(k)
  BY DEF ProductsOf, scalarProducts
<1>2. \A k : (buildFullRow(k))' = buildFullRow(k)
  BY <1>1 DEF buildFullRow
<1>3. Coordinates' = Coordinates
  BY DEF Coordinates
<1>4. \A at : (Off(at))' = Off(at)
  BY <1>1 DEF Off
<1>5. OffCoordinates' = OffCoordinates
  BY <1>3, <1>4 DEF OffCoordinates
<1>6. WrongRows' = WrongRows
  BY <1>2 DEF WrongRows
<1>7. Valid' = Valid
  BY DEF Valid
<1>8. \A k, C : (Reached(k, C))' = Reached(k, C)
  BY <1>3 DEF Reached
<1>9. QED
  BY <1>2, <1>3, <1>5, <1>6, <1>7, <1>8

\* Counting one more.
LEMMA CountMore ==
  ASSUME NEW R, NEW A, IsFiniteSet(R), NEW x, x \notin R
  PROVE  /\ Cardinality(R \cap A) \in Nat
         /\ Cardinality((R \cup {x}) \cap A)
              = Cardinality(R \cap A) + (IF x \in A THEN 1 ELSE 0)
<1>1. IsFiniteSet(R \cap A) /\ Cardinality(R \cap A) \in Nat
  <2>1. R \cap A \in SUBSET R
    OBVIOUS
  <2>2. QED
    BY <2>1, FS_Subset, FS_CardinalityType
<1>2. CASE x \in A
  <2>1. (R \cup {x}) \cap A = (R \cap A) \cup {x} /\ x \notin R \cap A
    BY <1>2
  <2>2. Cardinality((R \cap A) \cup {x}) = Cardinality(R \cap A) + 1
    BY <1>1, <2>1, FS_AddElement
  <2>3. QED
    BY <1>1, <1>2, <2>1, <2>2
<1>3. CASE x \notin A
  <2>1. (R \cup {x}) \cap A = R \cap A
    BY <1>3
  <2>2. Cardinality((R \cup {x}) \cap A) = Cardinality(R \cap A)
    BY <2>1
  <2> HIDE <2>1
  <2>3. QED
    BY <1>1, <1>3, <2>2
<1>4. QED
  BY <1>2, <1>3

LEMMA Dimensions ==
  ASSUME input \in Inputs, Valid
  PROVE  input.a.rows \in Nat /\ input.b.cols \in Nat
BY InputsAssumption DEF AnyCsr, Valid, validNumericCsr, ValidOffsets

LEMMA ReachedFinite ==
  ASSUME input \in Inputs, Valid, NEW k, NEW C
  PROVE  IsFiniteSet(Reached(k, C))
<1>1. IsFiniteSet(Coordinates)
  <2> DEFINE R == 0 .. input.a.rows - 1
             S == 0 .. input.b.cols - 1
  <2>1. IsFiniteSet(R) /\ IsFiniteSet(S)
    <3>1. 0 \in Int /\ input.a.rows - 1 \in Int /\ input.b.cols - 1 \in Int
      BY Dimensions
    <3>2. QED
      BY <3>1, FS_Interval
  <2> HIDE DEF R, S
  <2>2. IsFiniteSet(R \X S)
    BY <2>1, FS_Product
  <2>3. QED
    BY <2>2 DEF Coordinates, R, S
<1>2. Reached(k, C) \in SUBSET Coordinates
  BY DEF Reached
<1>3. QED
  BY <1>1, <1>2, FS_Subset

\* One more coordinate of the row at hand.
LEMMA ReachOne ==
  ASSUME input \in Inputs, Valid, NEW k \in 0 .. input.a.rows - 1, NEW C,
         NEW column \in 0 .. input.b.cols - 1, column \notin C
  PROVE  /\ Cardinality(Reached(k, C) \cap OffCoordinates) \in Nat
         /\ Cardinality(Reached(k, C \cup {column}) \cap OffCoordinates)
              = Cardinality(Reached(k, C) \cap OffCoordinates)
                + (IF Off(<<k, column>>) THEN 1 ELSE 0)
<1> DEFINE at == <<k, column>>
<1>1. at \in Coordinates
  BY DEF Coordinates
<1>2. at \notin Reached(k, C)
  BY Dimensions DEF Reached
<1>3. Reached(k, C \cup {column}) = Reached(k, C) \cup {at}
  <2>1. \A c \in Coordinates : c = <<c[1], c[2]>> /\ c[1] \in Int
    BY Dimensions DEF Coordinates
  <2>2. ASSUME NEW c \in Reached(k, C \cup {column})
        PROVE  c \in Reached(k, C) \cup {at}
    BY <2>1, <2>2 DEF Reached
  <2>3. ASSUME NEW c \in Reached(k, C) \cup {at}
        PROVE  c \in Reached(k, C \cup {column})
    BY <1>1 DEF Reached
  <2>4. QED
    BY <2>2, <2>3
<1>4. at \in OffCoordinates <=> Off(at)
  BY <1>1 DEF OffCoordinates
<1> HIDE DEF at
<1>5. /\ Cardinality(Reached(k, C) \cap OffCoordinates) \in Nat
      /\ Cardinality((Reached(k, C) \cup {at}) \cap OffCoordinates)
           = Cardinality(Reached(k, C) \cap OffCoordinates)
             + (IF at \in OffCoordinates THEN 1 ELSE 0)
  BY <1>2, ReachedFinite, CountMore
<1>6. QED
  BY <1>3, <1>4, <1>5 DEF at

\* What neither side stores is not off: a merged row is a row reached.
LEMMA ReachRow ==
  ASSUME input \in Inputs, Valid, NEW k \in 0 .. input.a.rows - 1, NEW C,
         \A p \in DOMAIN Row(input.result, k) : Row(input.result, k)[p].column \in C,
         \A p \in DOMAIN buildFullRow(k) : buildFullRow(k)[p].column \in C
  PROVE  Reached(k, C) \cap OffCoordinates = Reached(k + 1, {}) \cap OffCoordinates
<1>1. \A c \in Coordinates : /\ c = <<c[1], c[2]>> /\ c[1] \in Int
                             /\ c[2] \in 0 .. input.b.cols - 1
  BY Dimensions DEF Coordinates
<1>2. k \in Int
  BY Dimensions
<1>3. ASSUME NEW c \in Coordinates, c[1] = k, c[2] \notin C
      PROVE  ~Off(c)
  <2>1. c = <<k, c[2]>>
    BY <1>1, <1>3
  <2>2. ~\E p \in DOMAIN Row(input.result, k) : Row(input.result, k)[p].column = c[2]
    BY <1>3
  <2>3. ~\E p \in DOMAIN buildFullRow(k) : buildFullRow(k)[p].column = c[2]
    BY <1>3
  <2>4. ~Off(<<k, c[2]>>)
    BY <2>2, <2>3, JudgedRight
  <2>5. QED
    BY <2>1, <2>4
<1>4. ASSUME NEW c \in OffCoordinates
      PROVE  c \in Reached(k, C) <=> c \in Reached(k + 1, {})
  <2>1. c \in Coordinates /\ Off(c)
    BY DEF OffCoordinates
  <2>2. c[1] \in Int
    BY <1>1, <2>1
  <2>3. c[1] = k => c[2] \in C
    BY <1>3, <2>1
  <2>4. QED
    BY <1>2, <2>1, <2>2, <2>3 DEF Reached
<1>5. QED
  BY <1>4

-----------------------------------------------------------------------------
(* The merge                                                               *)

LEMMA AtMerge ==
  ASSUME VerdictIInv, judging = "merge"
  PROVE  /\ input \in Inputs /\ Valid /\ currentRow \in 0 .. input.a.rows - 1
         /\ Stored = Row(input.result, currentRow)
         /\ DOMAIN Stored = 1 .. Len(Stored) /\ Len(Stored) \in Nat
         /\ \A p \in DOMAIN Stored : Stored[p].column \in 0 .. input.b.cols - 1
         /\ InOrder(Stored)
         /\ cells = buildFullRow(currentRow)
         /\ DOMAIN cells = 1 .. Len(cells) /\ Len(cells) \in Nat
         /\ \A p \in DOMAIN cells : cells[p].column \in 0 .. input.b.cols - 1
         /\ InOrder(cells)
<1>1. input \in Inputs /\ Valid /\ currentRow \in 0 .. input.a.rows - 1
  BY Dimensions DEF VerdictIInv, HalfMerged, Tallied
<1>2. cells = buildFullRow(currentRow)
  BY DEF VerdictIInv, HalfMerged
<1>3. Stored = Row(input.result, currentRow)
  BY DEF Stored
<1>4. QED
  BY <1>1, <1>2, <1>3, StoredIs, CellsAre

\* One coordinate is judged.
LEMMA JudgeKeepsVerdict ==
  ASSUME VerdictIInv, judging = "merge", NEW column \in 0 .. input.b.cols - 1,
         column \notin SeenColumns,
         SeenColumns' = SeenColumns \cup {column},
         rejected' = rejected + (IF Off(<<currentRow, column>>) THEN 1 ELSE 0),
         HalfMerged',
         UNCHANGED <<input, judging, currentRow, rowNnzMismatches, passed>>
  PROVE  VerdictIInv'
<1>1. input \in Inputs /\ Valid /\ currentRow \in 0 .. input.a.rows - 1
  BY AtMerge
<1>2. Tallied(SeenColumns, currentRow + 1)
  BY DEF VerdictIInv
<1>3. Cardinality(Reached(currentRow, SeenColumns \cup {column}) \cap OffCoordinates)
        = Cardinality(Reached(currentRow, SeenColumns) \cap OffCoordinates)
          + (IF Off(<<currentRow, column>>) THEN 1 ELSE 0)
  BY <1>1, ReachOne
<1>4. /\ Valid' = Valid /\ OffCoordinates' = OffCoordinates /\ WrongRows' = WrongRows
      /\ \A k, C : (Reached(k, C))' = Reached(k, C)
  BY SameInput
<1>5. rejected' = Cardinality(Reached(currentRow, SeenColumns \cup {column}) \cap OffCoordinates)
  BY <1>2, <1>3 DEF Tallied
<1>6. (Tallied(SeenColumns, currentRow + 1))'
  BY <1>2, <1>4, <1>5 DEF Tallied
<1>7. QED
  BY <1>1, <1>6 DEF VerdictIInv

\* The next stored column comes before the next cell: no cell has it.
LEMMA NextStored ==
  ASSUME VerdictIInv, judging = "merge", actual <= Len(Stored),
         expected <= Len(cells) => Stored[actual].column < cells[expected].column
  PROVE  /\ actual \in DOMAIN Stored
         /\ Stored[actual].column \in 0 .. input.b.cols - 1
         /\ Stored[actual].column \notin SeenColumns
         /\ \A j \in DOMAIN cells : cells[j].column # Stored[actual].column
<1>1. HalfMerged
  BY DEF VerdictIInv
<1>2. actual \in DOMAIN Stored /\ actual \in Nat /\ expected \in Nat
  BY <1>1, AtMerge DEF HalfMerged
<1>3. Stored[actual].column \in 0 .. input.b.cols - 1 /\ input.b.cols \in Nat
  BY <1>2, AtMerge, Dimensions
<1>4. ASSUME NEW p \in 1 .. actual - 1
      PROVE  Stored[p].column # Stored[actual].column
  <2>1. p \in DOMAIN Stored /\ p < actual
    BY <1>2, AtMerge
  <2>2. Stored[p].column < Stored[actual].column /\ Stored[p].column \in Int
    BY <1>2, <1>3, <2>1, AtMerge DEF InOrder
  <2>3. QED
    BY <1>3, <2>2
<1>5. ASSUME NEW j \in DOMAIN cells
      PROVE  cells[j].column # Stored[actual].column
  <2>1. j \in 1 .. Len(cells) /\ cells[j].column \in Int /\ Len(cells) \in Nat
    BY <1>3, AtMerge
  <2>2. CASE j < expected
    BY <1>1, <1>2, <1>3, <2>1, <2>2 DEF HalfMerged
  <2>3. CASE j >= expected
    <3>1. expected \in DOMAIN cells /\ Stored[actual].column < cells[expected].column
      BY <1>1, <2>1, <2>3, AtMerge DEF HalfMerged
    <3>2. cells[expected].column \in Int /\ cells[expected].column <= cells[j].column
      <4>1. cells[expected].column \in Int
        BY <1>3, <3>1, AtMerge
      <4>2. CASE j = expected
        BY <4>1, <4>2
      <4>3. CASE j # expected
        <5>1. expected < j
          BY <1>2, <2>1, <2>3, <4>3
        <5>2. cells[expected].column < cells[j].column
          BY <3>1, <5>1, AtMerge DEF InOrder
        <5>3. QED
          BY <2>1, <4>1, <5>2
      <4>4. QED
        BY <4>2, <4>3
    <3>3. QED
      BY <1>3, <2>1, <3>1, <3>2
  <2>4. QED
    BY <1>2, <2>1, <2>2, <2>3
<1>6. \A p \in 1 .. expected - 1 : p \in DOMAIN cells
  BY <1>1, <1>2, AtMerge DEF HalfMerged
<1>7. QED
  BY <1>2, <1>3, <1>4, <1>5, <1>6 DEF SeenColumns

\* The next cell comes no later: a stored entry with its column is the next.
LEMMA NextCell ==
  ASSUME VerdictIInv, judging = "merge", expected <= Len(cells),
         actual <= Len(Stored) => Stored[actual].column >= cells[expected].column
  PROVE  /\ expected \in DOMAIN cells
         /\ cells[expected].column \in 0 .. input.b.cols - 1
         /\ cells[expected].column \notin SeenColumns
         /\ \A p \in DOMAIN Stored : Stored[p].column = cells[expected].column => p = actual
<1>1. HalfMerged
  BY DEF VerdictIInv
<1>2. expected \in DOMAIN cells /\ actual \in Nat /\ expected \in Nat
  BY <1>1, AtMerge DEF HalfMerged
<1>3. cells[expected].column \in 0 .. input.b.cols - 1 /\ input.b.cols \in Nat
  BY <1>2, AtMerge, Dimensions
<1>4. ASSUME NEW p \in 1 .. expected - 1
      PROVE  cells[p].column # cells[expected].column
  <2>1. p \in DOMAIN cells /\ p < expected
    BY <1>2, AtMerge
  <2>2. cells[p].column < cells[expected].column /\ cells[p].column \in Int
    BY <1>2, <1>3, <2>1, AtMerge DEF InOrder
  <2>3. QED
    BY <1>3, <2>2
<1>5. ASSUME NEW p \in DOMAIN Stored, p # actual
      PROVE  Stored[p].column # cells[expected].column
  <2>1. p \in 1 .. Len(Stored) /\ Stored[p].column \in Int /\ Len(Stored) \in Nat
    BY <1>3, AtMerge
  <2>2. CASE p < actual
    BY <1>1, <1>2, <1>3, <2>1, <2>2 DEF HalfMerged
  <2>3. CASE p > actual
    <3>1. actual \in DOMAIN Stored /\ Stored[actual].column >= cells[expected].column
      BY <1>1, <2>1, <2>3, AtMerge DEF HalfMerged
    <3>2. Stored[actual].column \in Int /\ Stored[actual].column < Stored[p].column
      BY <1>2, <1>3, <2>1, <2>3, <3>1, AtMerge DEF InOrder
    <3>3. QED
      BY <1>3, <2>1, <3>1, <3>2
  <2>4. QED
    BY <1>2, <1>5, <2>1, <2>2, <2>3
<1>6. \A p \in 1 .. actual - 1 : p \in DOMAIN Stored /\ p # actual
  BY <1>1, <1>2, AtMerge DEF HalfMerged
<1>7. QED
  BY <1>2, <1>3, <1>4, <1>5, <1>6 DEF SeenColumns

LEMMA OnlyStoredKeepsVerdict == VerdictIInv /\ OnlyStored => VerdictIInv'
<1> SUFFICES ASSUME VerdictIInv, OnlyStored PROVE VerdictIInv'
  OBVIOUS
<1> DEFINE column == Stored[actual].column
<1>1. /\ judging = "merge" /\ actual <= Len(Stored)
      /\ expected <= Len(cells) => Stored[actual].column < cells[expected].column
  BY DEF OnlyStored
<1>2. /\ actual \in DOMAIN Stored
      /\ column \in 0 .. input.b.cols - 1
      /\ column \notin SeenColumns
      /\ \A j \in DOMAIN cells : cells[j].column # column
  BY <1>1, NextStored
<1>3. Off(<<currentRow, column>>) <=> ~accepted(Stored[actual].value, NoCell(column))
  BY <1>1, <1>2, AtMerge, JudgedRight
<1>4. rejected' = rejected + (IF Off(<<currentRow, column>>) THEN 1 ELSE 0)
  BY <1>3 DEF OnlyStored, Judge
<1>5. /\ HalfMerged /\ actual \in Nat /\ expected \in Nat
      /\ actual' = actual + 1 /\ expected' = expected /\ cells' = cells
  BY <1>1, AtMerge DEF VerdictIInv, HalfMerged, OnlyStored
<1>6. UNCHANGED <<input, judging, currentRow, rowNnzMismatches, passed>>
  BY DEF OnlyStored
<1>7. Stored' = Stored
  BY <1>6 DEF Stored
<1>8. SeenColumns' = SeenColumns \cup {column}
  <2>1. 1 .. actual' - 1 = (1 .. actual - 1) \cup {actual}
    BY <1>2, <1>5, AtMerge, <1>1
  <2>2. QED
    BY <1>5, <1>7, <2>1 DEF SeenColumns
<1>9. HalfMerged'
  <2>1. buildFullRow(currentRow)' = buildFullRow(currentRow)
    BY <1>6, SameInput
  <2>2. actual' \in 1 .. Len(Stored) + 1
    BY <1>1, <1>2, <1>5, AtMerge
  <2>3. ASSUME expected <= Len(cells), NEW p \in 1 .. actual' - 1
        PROVE  Stored[p].column < cells[expected].column
    BY <1>1, <1>5, <2>3 DEF HalfMerged
  <2>4. ASSUME actual' <= Len(Stored), NEW p \in 1 .. expected - 1
        PROVE  cells[p].column < Stored[actual'].column
    <3>1. cells[p].column < Stored[actual].column
      BY <1>1, <1>5 DEF HalfMerged
    <3>2. /\ actual' \in DOMAIN Stored /\ actual < actual'
          /\ p \in DOMAIN cells
      BY <1>1, <1>2, <1>5, <2>4, AtMerge DEF HalfMerged
    <3>3. Stored[actual].column < Stored[actual'].column
      BY <1>1, <1>2, <3>2, AtMerge DEF InOrder
    <3>4. /\ Stored[actual].column \in Int /\ Stored[actual'].column \in Int
          /\ cells[p].column \in Int
      BY <1>1, <1>2, <3>2, AtMerge, Dimensions
    <3> HIDE DEF column
    <3>5. QED
      BY <3>1, <3>3, <3>4
  <2>5. QED
    BY <1>5, <1>6, <1>7, <2>1, <2>2, <2>3, <2>4 DEF HalfMerged
<1>10. QED
  BY <1>1, <1>2, <1>4, <1>6, <1>8, <1>9, JudgeKeepsVerdict

LEMMA ExpectedKeepsVerdict == VerdictIInv /\ Expected => VerdictIInv'
<1> SUFFICES ASSUME VerdictIInv, Expected PROVE VerdictIInv'
  OBVIOUS
<1> DEFINE column == cells[expected].column
           same == actual <= Len(Stored) /\ Stored[actual].column = column
<1>1. /\ judging = "merge" /\ expected <= Len(cells)
      /\ actual <= Len(Stored) => Stored[actual].column >= cells[expected].column
  BY DEF Expected
<1>2. /\ expected \in DOMAIN cells
      /\ column \in 0 .. input.b.cols - 1
      /\ column \notin SeenColumns
      /\ \A p \in DOMAIN Stored : Stored[p].column = column => p = actual
  BY <1>1, NextCell
<1>3. /\ HalfMerged /\ actual \in Nat /\ expected \in Nat
      /\ actual \in 1 .. Len(Stored) + 1 /\ Len(Stored) \in Nat
      /\ expected' = expected + 1 /\ cells' = cells
      /\ actual' = (IF same THEN actual + 1 ELSE actual)
  BY <1>1, AtMerge DEF VerdictIInv, HalfMerged, Expected
<1>4. same => actual \in DOMAIN Stored
  BY <1>1, <1>3, AtMerge
<1>5. rejected' = rejected + (IF Off(<<currentRow, column>>) THEN 1 ELSE 0)
  <2>1. CASE same
    <3>1. Off(<<currentRow, column>>) <=> ~accepted(Stored[actual].value, cells[expected])
      BY <1>1, <1>2, <1>4, <2>1, AtMerge, JudgedRight
    <3>2. QED
      BY <2>1, <3>1 DEF Expected, Judge
  <2>2. CASE ~same
    <3>1. ~\E p \in DOMAIN Stored : Stored[p].column = column
      <4>1. actual \in DOMAIN Stored => actual <= Len(Stored)
        BY <1>1, <1>3, AtMerge
      <4>2. QED
        BY <1>2, <2>2, <4>1
    <3>2. Off(<<currentRow, column>>) <=> ~accepted(0, cells[expected])
      BY <1>1, <1>2, <3>1, AtMerge, JudgedRight
    <3>3. QED
      BY <2>2, <3>2 DEF Expected, Judge
  <2>3. QED
    BY <2>1, <2>2
<1>6. UNCHANGED <<input, judging, currentRow, rowNnzMismatches, passed>>
  BY DEF Expected
<1>7. Stored' = Stored
  BY <1>6 DEF Stored
<1>8. SeenColumns' = SeenColumns \cup {column}
  <2>1. 1 .. expected' - 1 = (1 .. expected - 1) \cup {expected}
    BY <1>1, <1>2, <1>3, AtMerge
  <2>2. CASE same
    <3>1. 1 .. actual' - 1 = (1 .. actual - 1) \cup {actual}
      BY <1>3, <1>4, <2>2
    <3>2. QED
      BY <1>3, <1>7, <2>1, <2>2, <3>1 DEF SeenColumns
  <2>3. CASE ~same
    BY <1>3, <1>7, <2>1, <2>3 DEF SeenColumns
  <2>4. QED
    BY <2>2, <2>3
<1>9. HalfMerged'
  <2>1. buildFullRow(currentRow)' = buildFullRow(currentRow)
    BY <1>6, SameInput
  <2>2. /\ actual' \in 1 .. Len(Stored) + 1
        /\ expected' \in 1 .. Len(cells) + 1
    BY <1>1, <1>2, <1>3, <1>4, AtMerge
  <2>3. ASSUME expected' <= Len(cells), NEW p \in 1 .. actual' - 1
        PROVE  Stored[p].column < cells[expected'].column
    <3>1. expected' \in DOMAIN cells /\ expected < expected'
      BY <1>1, <1>2, <1>3, <2>3, AtMerge
    <3>2. cells[expected].column < cells[expected'].column
      BY <1>1, <1>2, <3>1, AtMerge DEF InOrder
    <3>3. p \in DOMAIN Stored
      BY <1>1, <1>3, <1>4, AtMerge
    <3>4. Stored[p].column <= cells[expected].column
      <4>1. CASE p \in 1 .. actual - 1
        <5>1. Stored[p].column < cells[expected].column
          BY <1>1, <1>3, <4>1 DEF HalfMerged
        <5>2. Stored[p].column \in Int /\ cells[expected].column \in Int
          BY <1>1, <1>2, <3>3, AtMerge, Dimensions
        <5> HIDE DEF column, same
        <5>3. QED
          BY <5>1, <5>2
      <4>2. CASE p = actual /\ same
        BY <1>1, <1>2, <4>2, AtMerge, Dimensions
      <4>3. QED
        BY <1>3, <2>3, <4>1, <4>2
    <3>5. /\ Stored[p].column \in Int /\ cells[expected].column \in Int
          /\ cells[expected'].column \in Int
      BY <1>1, <1>2, <3>1, <3>3, AtMerge, Dimensions
    <3> HIDE DEF column, same
    <3>6. QED
      BY <3>2, <3>4, <3>5
  <2>4. ASSUME actual' <= Len(Stored), NEW p \in 1 .. expected' - 1
        PROVE  cells[p].column < Stored[actual'].column
    <3>1. actual' \in DOMAIN Stored /\ p \in DOMAIN cells
      BY <1>1, <1>2, <1>3, <1>4, <2>4, AtMerge
    <3>2. cells[expected].column < Stored[actual'].column
      <4>1. CASE same
        <5>1. actual' \in DOMAIN Stored /\ actual < actual'
          BY <1>3, <3>1, <4>1
        <5>2. Stored[actual].column < Stored[actual'].column
          BY <1>1, <1>4, <4>1, <5>1, AtMerge DEF InOrder
        <5>3. QED
          BY <4>1, <5>2
      <4>2. CASE ~same
        <5>1. actual' = actual /\ Stored[actual].column >= cells[expected].column
              /\ Stored[actual].column # cells[expected].column
          BY <1>1, <1>3, <2>4, <4>2
        <5>2. Stored[actual].column \in Int /\ cells[expected].column \in Int
          BY <1>1, <1>2, <3>1, <5>1, AtMerge, Dimensions
        <5> HIDE DEF column, same
        <5>3. QED
          BY <5>1, <5>2
      <4>3. QED
        BY <4>1, <4>2
    <3>3. cells[p].column <= cells[expected].column
      <4>1. CASE p = expected
        BY <1>1, <1>2, <4>1, AtMerge, Dimensions
      <4>2. CASE p < expected
        <5>1. cells[p].column < cells[expected].column
          BY <1>1, <1>2, <3>1, <4>2, AtMerge DEF InOrder
        <5>2. cells[p].column \in Int /\ cells[expected].column \in Int
          BY <1>1, <1>2, <3>1, AtMerge, Dimensions
        <5> HIDE DEF column, same
        <5>3. QED
          BY <5>1, <5>2
      <4>3. QED
        BY <1>3, <2>4, <4>1, <4>2
    <3>4. /\ Stored[actual'].column \in Int /\ cells[expected].column \in Int
          /\ cells[p].column \in Int
      BY <1>1, <1>2, <3>1, AtMerge, Dimensions
    <3> HIDE DEF column, same
    <3>5. QED
      BY <3>2, <3>3, <3>4
  <2>5. QED
    BY <1>3, <1>6, <1>7, <2>1, <2>2, <2>3, <2>4 DEF HalfMerged
<1>10. QED
  BY <1>1, <1>2, <1>5, <1>6, <1>8, <1>9, JudgeKeepsVerdict

LEMMA CheckKeepsVerdict == VerdictIInv /\ Check => VerdictIInv'
<1> SUFFICES ASSUME VerdictIInv, Check PROVE VerdictIInv'
  OBVIOUS
<1>1. /\ judging = "check" /\ input \in Inputs
      /\ currentRow = 0 /\ rejected = 0 /\ rowNnzMismatches = 0 /\ passed = FALSE
      /\ judging' = (IF Valid THEN "row" ELSE "done")
      /\ UNCHANGED <<input, currentRow, rejected, rowNnzMismatches, passed>>
  BY DEF VerdictIInv, Check, Valid
<1>2. Valid' = Valid
  BY <1>1, SameInput
<1>3. CASE Valid
  <2>1. Reached(0, {}) = {}
    BY Dimensions, <1>1, <1>3 DEF Reached, Coordinates
  <2>2. (Reached(0, {}))' = Reached(0, {}) /\ WrongRows' = WrongRows
    BY <1>1, SameInput
  <2>3. Cardinality({}) = 0
    BY FS_EmptySet
  <2>4. 0 .. currentRow' - 1 = {}
    BY <1>1
  <2>5. Cardinality((Reached(0, {}))' \cap OffCoordinates') = 0
    BY <2>1, <2>2, <2>3
  <2>6. Cardinality((0 .. currentRow' - 1) \cap WrongRows') = 0
    BY <2>3, <2>4
  <2>7. (Tallied({}, currentRow))'
    BY <1>1, <1>2, <1>3, <2>5, <2>6, Dimensions DEF Tallied
  <2>8. QED
    BY <1>1, <1>3, <2>7 DEF VerdictIInv
<1>4. CASE ~Valid
  BY <1>1, <1>2, <1>4 DEF VerdictIInv, Verdict
<1>5. QED
  BY <1>3, <1>4

LEMMA BeginRowKeepsVerdict == VerdictIInv /\ BeginRow => VerdictIInv'
<1> SUFFICES ASSUME VerdictIInv, BeginRow PROVE VerdictIInv'
  OBVIOUS
<1> DEFINE k == currentRow
           wrong == IF k \in WrongRows THEN 1 ELSE 0
<1>1. /\ judging = "row" /\ input \in Inputs /\ Tallied({}, k) /\ Valid
      /\ k \in 0 .. input.a.rows - 1 /\ k \in Nat
      /\ cells' = buildFullRow(k) /\ actual' = 1 /\ expected' = 1
      /\ judging' = "merge"
      /\ UNCHANGED <<input, currentRow, rejected, passed>>
  BY Dimensions DEF VerdictIInv, BeginRow, Tallied
<1>2. rowNnzMismatches' = rowNnzMismatches + wrong
  <2>1. k \in WrongRows <=> RowLength(input.result, k) # nonZeros(cells')
    BY <1>1 DEF WrongRows
  <2>2. QED
    BY <2>1 DEF BeginRow
<1>3. /\ Valid' = Valid /\ OffCoordinates' = OffCoordinates /\ WrongRows' = WrongRows
      /\ \A r : (buildFullRow(r))' = buildFullRow(r)
      /\ \A r, C : (Reached(r, C))' = Reached(r, C)
  BY <1>1, SameInput
<1>4. SeenColumns' = {}
  <2>1. 1 .. actual' - 1 = {} /\ 1 .. expected' - 1 = {}
    BY <1>1
  <2>2. QED
    BY <2>1 DEF SeenColumns
<1>5. rowNnzMismatches' = Cardinality((0 .. k) \cap WrongRows)
  <2>1. (0 .. k) = (0 .. k - 1) \cup {k} /\ k \notin 0 .. k - 1
    BY <1>1
  <2>2. IsFiniteSet(0 .. k - 1)
    <3>1. 0 \in Int /\ k - 1 \in Int
      BY <1>1
    <3>2. QED
      BY <3>1, FS_Interval
  <2>3. Cardinality(((0 .. k - 1) \cup {k}) \cap WrongRows)
          = Cardinality((0 .. k - 1) \cap WrongRows) + wrong
    BY <2>1, <2>2, CountMore
  <2>4. rowNnzMismatches = Cardinality((0 .. k - 1) \cap WrongRows)
    BY <1>1 DEF Tallied
  <2>5. QED
    BY <1>2, <2>1, <2>3, <2>4
<1>6. (Tallied(SeenColumns, currentRow + 1))'
  <2>1. rejected' = Cardinality(Reached(k, {}) \cap OffCoordinates)
    BY <1>1 DEF Tallied
  <2>2. 0 .. (currentRow + 1)' - 1 = 0 .. k
    BY <1>1
  <2>3. QED
    BY <1>1, <1>3, <1>4, <1>5, <2>1, <2>2 DEF Tallied
<1>7. HalfMerged'
  <2>1. cells' = (buildFullRow(currentRow))'
    BY <1>1, <1>3
  <2>2. Len(cells') \in Nat
    BY <1>1, CellsAre
  <2>3. Len(Stored') \in Nat
    <3>1. Stored' = Row(input.result, k)
      BY <1>1 DEF Stored
    <3>2. QED
      BY <1>1, <3>1, StoredIs
  <2>4. 1 .. actual' - 1 = {} /\ 1 .. expected' - 1 = {}
    BY <1>1
  <2>5. actual' \in 1 .. Len(Stored') + 1 /\ expected' \in 1 .. Len(cells') + 1
    BY <1>1, <2>2, <2>3
  <2>6. currentRow' < (input.a.rows)'
    BY <1>1, Dimensions
  <2>7. QED
    BY <2>1, <2>4, <2>5, <2>6 DEF HalfMerged
<1>8. QED
  BY <1>1, <1>6, <1>7 DEF VerdictIInv

LEMMA EndRowKeepsVerdict == VerdictIInv /\ EndRow => VerdictIInv'
<1> SUFFICES ASSUME VerdictIInv, EndRow PROVE VerdictIInv'
  OBVIOUS
<1> DEFINE k == currentRow
<1>1. /\ judging = "merge" /\ judging' = "row" /\ input \in Inputs
      /\ HalfMerged /\ Tallied(SeenColumns, k + 1) /\ Valid
      /\ k \in 0 .. input.a.rows - 1 /\ k + 1 \in 0 .. input.a.rows
      /\ currentRow' = k + 1
      /\ UNCHANGED <<input, rejected, rowNnzMismatches, passed>>
  BY Dimensions DEF VerdictIInv, EndRow, Tallied, HalfMerged
<1>2. /\ Valid' = Valid /\ OffCoordinates' = OffCoordinates /\ WrongRows' = WrongRows
      /\ \A r, C : (Reached(r, C))' = Reached(r, C)
  BY <1>1, SameInput
<1>3. /\ \A p \in DOMAIN Stored : Stored[p].column \in SeenColumns
      /\ \A p \in DOMAIN cells : cells[p].column \in SeenColumns
  <2>1. /\ actual \in 1 .. Len(Stored) + 1 /\ actual > Len(Stored)
        /\ expected \in 1 .. Len(cells) + 1 /\ expected > Len(cells)
    BY DEF VerdictIInv, EndRow, HalfMerged
  <2>2. DOMAIN Stored = 1 .. actual - 1 /\ DOMAIN cells = 1 .. expected - 1
    BY <1>1, <2>1, AtMerge
  <2>3. QED
    BY <2>2 DEF SeenColumns
<1>4. Reached(k, SeenColumns) \cap OffCoordinates = Reached(k + 1, {}) \cap OffCoordinates
  BY <1>1, <1>3, AtMerge, ReachRow
<1>5. rejected' = Cardinality(Reached(k + 1, {}) \cap OffCoordinates)
  BY <1>1, <1>4 DEF Tallied
<1>6. (Tallied({}, currentRow))'
  BY <1>1, <1>2, <1>5 DEF Tallied
<1>7. QED
  BY <1>1, <1>6 DEF VerdictIInv

LEMMA FinishKeepsVerdict == VerdictIInv /\ Finish => VerdictIInv'
<1> SUFFICES ASSUME VerdictIInv, Finish PROVE VerdictIInv'
  OBVIOUS
<1>1. /\ judging = "row" /\ judging' = "done" /\ input \in Inputs
      /\ Tallied({}, currentRow) /\ Valid
      /\ currentRow = input.a.rows
      /\ passed' = (rejected = 0)
      /\ UNCHANGED <<input, rejected, rowNnzMismatches>>
  BY DEF VerdictIInv, Finish, Tallied
<1>2. /\ Valid' = Valid /\ OffCoordinates' = OffCoordinates /\ WrongRows' = WrongRows
  BY <1>1, SameInput
<1>3. Reached(currentRow, {}) \cap OffCoordinates = OffCoordinates
  BY <1>1, Dimensions DEF Reached, OffCoordinates, Coordinates
<1>4. (0 .. currentRow - 1) \cap WrongRows = WrongRows
  BY <1>1 DEF WrongRows
<1>5. Verdict'
  BY <1>1, <1>2, <1>3, <1>4 DEF Verdict, Tallied
<1>6. QED
  BY <1>1, <1>5 DEF VerdictIInv

\* The code looks at neighbours only; the promise speaks of any two columns.
LEMMA ValidIs ==
  ASSUME input \in Inputs
  PROVE  Valid <=>
    /\ validNumericCsr(input.a, FALSE)
    /\ validNumericCsr(input.b, FALSE)
    /\ validNumericCsr(input.result, FALSE)
    /\ \A k \in 0 .. input.result.rows - 1 :
         \A p, q \in DOMAIN Row(input.result, k) :
           p < q => Row(input.result, k)[p].column < Row(input.result, k)[q].column
    /\ input.a.cols = input.b.rows
    /\ input.result.rows = input.a.rows
    /\ input.result.cols = input.b.cols
<1> DEFINE m == input.result
<1>1. m \in AnyCsr
  BY InputsAssumption
<1>2. ASSUME validNumericCsr(m, FALSE), NEW k \in 0 .. m.rows - 1
      PROVE  (\A p, q \in DOMAIN Row(m, k) : p < q => Row(m, k)[p].column < Row(m, k)[q].column)
               <=> \A p \in DOMAIN Row(m, k) :
                     p > 1 => Row(m, k)[p - 1].column < Row(m, k)[p].column
  <2>1. ValidOffsets(m) /\ ColumnsInRange(m, k)
    BY <1>2 DEF validNumericCsr
  <2>2. Row(m, k) \in Seq(Entry)
    BY <1>1, <2>1, RowType
  <2>3. QED
    BY <2>2, OrderIs DEF InOrder
<1>3. validNumericCsr(m, TRUE)
        <=> /\ validNumericCsr(m, FALSE)
            /\ \A k \in 0 .. m.rows - 1 : \A p \in DOMAIN Row(m, k) :
                 p > 1 => Row(m, k)[p - 1].column < Row(m, k)[p].column
  BY DEF validNumericCsr
<1>4. QED
  BY <1>2, <1>3 DEF Valid

LEMMA VerdictIInvBegins == ValidationInit => VerdictIInv
BY DEF ValidationInit, VerdictIInv

LEMMA VerdictIInvStays ==
  ASSUME VerdictIInv, [ValidationNext]_validationVars
  PROVE  VerdictIInv'
<1>1. CASE Check
  BY <1>1, CheckKeepsVerdict
<1>2. CASE BeginRow
  BY <1>2, BeginRowKeepsVerdict
<1>3. CASE OnlyStored
  BY <1>3, OnlyStoredKeepsVerdict
<1>4. CASE Expected
  BY <1>4, ExpectedKeepsVerdict
<1>5. CASE EndRow
  BY <1>5, EndRowKeepsVerdict
<1>6. CASE Finish
  BY <1>6, FinishKeepsVerdict
<1>7. CASE UNCHANGED validationVars
  <2>1. /\ UNCHANGED <<input, judging, currentRow, cells, actual, expected, rejected,
                      rowNnzMismatches, passed>>
    BY <1>7 DEF validationVars
  <2>2. /\ Valid' = Valid /\ OffCoordinates' = OffCoordinates /\ WrongRows' = WrongRows
        /\ \A r : (buildFullRow(r))' = buildFullRow(r)
        /\ \A r, C : (Reached(r, C))' = Reached(r, C)
    BY <2>1, SameInput
  <2>3. Stored' = Stored
    BY <2>1 DEF Stored
  <2>4. SeenColumns' = SeenColumns
    BY <2>1, <2>3 DEF SeenColumns
  <2>5. HalfMerged' = HalfMerged
    BY <2>1, <2>2, <2>3 DEF HalfMerged
  <2>6. \A C, rows : (Tallied(C, rows))' = Tallied(C, rows)
    BY <2>1, <2>2 DEF Tallied
  <2>7. Verdict' = Verdict
    BY <2>1, <2>2 DEF Verdict
  <2>8. QED
    BY <2>1, <2>4, <2>5, <2>6, <2>7 DEF VerdictIInv
<1>8. QED
  BY <1>1, <1>2, <1>3, <1>4, <1>5, <1>6, <1>7 DEF ValidationNext, Judged

\* At the end the verdict is the one of the coordinates.
LEMMA VerdictIInvJudges == VerdictIInv => VerdictIsComponentwise
<1> SUFFICES ASSUME VerdictIInv, judging = "done" PROVE VerdictIsComponentwise
  BY DEF VerdictIsComponentwise
<1>1. input \in Inputs /\ Verdict
  BY DEF VerdictIInv
<1>2. comparePartialReference = Cardinality(WrongRows)
  BY DEF comparePartialReference, buildPartialReference, WrongRows
<1>3. Cardinality(OffCoordinates) = Cardinality({at \in Coordinates : Off(at)})
  BY DEF OffCoordinates
<1>4. QED
  BY <1>1, <1>2, <1>3, ValidIs DEF Verdict, VerdictIsComponentwise

\* For every input, whatever its matrices contain: the verdict is the one of
\* the coordinates, each judged once.
THEOREM Judgement == ValidationSpec => []VerdictIsComponentwise
BY VerdictIInvBegins, VerdictIInvStays, VerdictIInvJudges, PTL DEF ValidationSpec

-----------------------------------------------------------------------------
(* Partial sums                                                            *)

\* Functions that agree at zero, and at a number if they do before it.
LEMMA Agree ==
  ASSUME NEW f, NEW g, NEW N \in Nat, f[0] = g[0],
         \A k \in 1 .. N : f[k - 1] = g[k - 1] => f[k] = g[k]
  PROVE  \A k \in 0 .. N : f[k] = g[k]
<1> DEFINE T == {k \in 0 .. N : f[k] # g[k]}
<1>1. CASE T # {}
  <2>1. PICK k \in T : \A m \in T : k <= m
    <3>1. T \in SUBSET Nat
      OBVIOUS
    <3> HIDE DEF T
    <3>2. QED
      BY <1>1, <3>1, FirstFailure
  <2>2. k # 0
    OBVIOUS
  <2>3. k - 1 \in 0 .. N /\ k - 1 \notin T /\ k \in 1 .. N
    BY <2>1, <2>2
  <2>4. QED
    BY <2>1, <2>3
<1>2. CASE T = {}
  BY <1>2
<1>3. QED
  BY <1>1, <1>2

\* The sum of the first n.
SumUp(s, n) == SumOf([i \in 1 .. n |-> s[i]])

Ints(s, N) == \A i \in 1 .. N : s[i] \in Int

LEMMA SumRec ==
  ASSUME NEW s, NEW N \in Nat, Ints(s, N)
  PROVE  /\ SumUp(s, 0) = 0
         /\ \A n \in 1 .. N : SumUp(s, n) = SumUp(s, n - 1) + s[n]
         /\ \A n \in 0 .. N : SumUp(s, n) \in Int
<1> DEFINE t(n) == [i \in 1 .. n |-> s[i]]
<1>1. \A n \in 0 .. N : /\ t(n) \in Seq(Int) /\ Len(t(n)) = n
                        /\ \A i \in 1 .. n : t(n)[i] = s[i]
  BY DEF Ints
<1>2. PICK f : IsSum(f, t(N)) /\ SumOf(t(N)) = f[Len(t(N))]
  <2>1. t(N) \in Seq(Int)
    BY <1>1
  <2> HIDE DEF t
  <2>2. QED
    BY <2>1, SumIs
<1>3. ASSUME NEW n \in 0 .. N
      PROVE  SumOf(t(n)) = f[n]
  <2>1. PICK g : IsSum(g, t(n)) /\ SumOf(t(n)) = g[Len(t(n))]
    <3>1. t(n) \in Seq(Int)
      BY <1>1
    <3> HIDE DEF t
    <3>2. QED
      BY <3>1, SumIs
  <2>2. g[0] = f[0]
    BY <1>2, <2>1 DEF IsSum
  <2>3. ASSUME NEW k \in 1 .. n, g[k - 1] = f[k - 1]
        PROVE  g[k] = f[k]
    <3>1. g[k] = g[k - 1] + s[k]
      <4> HIDE DEF t
      <4>1. QED
        BY <1>1, <2>1 DEF IsSum
    <3>2. f[k] = f[k - 1] + s[k]
      <4>1. k \in 1 .. N
        OBVIOUS
      <4> HIDE DEF t
      <4>2. QED
        BY <1>1, <1>2, <4>1 DEF IsSum
    <3>3. QED
      BY <2>3, <3>1, <3>2
  <2>4. \A k \in 0 .. n : g[k] = f[k]
    <3> HIDE DEF t
    <3>1. QED
      BY <2>2, <2>3, Agree
  <2>5. QED
    BY <1>1, <2>1, <2>4
<1>4. /\ f[0] = 0
      /\ \A k \in 1 .. N : f[k] = f[k - 1] + s[k]
      /\ \A k \in 0 .. N : f[k] \in Int
  <2>1. Len(t(N)) = N /\ \A i \in 1 .. N : t(N)[i] = s[i]
    BY <1>1
  <2> HIDE DEF t
  <2>2. QED
    BY <1>2, <2>1 DEF IsSum
<1>5. \A n \in 0 .. N : SumUp(s, n) = f[n]
  BY <1>3 DEF SumUp
<1> HIDE DEF t
<1>6. \A n \in 1 .. N : n - 1 \in 0 .. N /\ n \in 0 .. N
  OBVIOUS
<1>7. QED
  BY <1>4, <1>5, <1>6

LEMMA SumOfSeq ==
  ASSUME NEW s \in Seq(Int)
  PROVE  /\ SumOf(s) = SumUp(s, Len(s))
         /\ Ints(s, Len(s)) /\ Len(s) \in Nat
         /\ SumOf(s) \in Int
<1>1. s = [i \in 1 .. Len(s) |-> s[i]] /\ Len(s) \in Nat /\ Ints(s, Len(s))
  BY DEF Ints
<1>2. SumOf(s) = SumUp(s, Len(s))
  BY <1>1 DEF SumUp
<1>3. QED
  BY <1>1, <1>2, SumRec

\* What is summed decides the sum.
LEMMA SumSame ==
  ASSUME NEW s, NEW t, NEW N, \A i \in 1 .. N : s[i] = t[i]
  PROVE  SumUp(s, N) = SumUp(t, N)
<1>1. [i \in 1 .. N |-> s[i]] = [i \in 1 .. N |-> t[i]]
  OBVIOUS
<1>2. QED
  BY <1>1 DEF SumUp

LEMMA SumAdd ==
  ASSUME NEW s, NEW t, NEW u, NEW N \in Nat, Ints(s, N), Ints(t, N),
         \A i \in 1 .. N : u[i] = s[i] + t[i]
  PROVE  SumUp(u, N) = SumUp(s, N) + SumUp(t, N)
<1> DEFINE f == [n \in 0 .. N |-> SumUp(u, n)]
           g == [n \in 0 .. N |-> SumUp(s, n) + SumUp(t, n)]
<1>1. Ints(u, N)
  BY DEF Ints
<1>2. f[0] = g[0]
  BY <1>1, SumRec
<1>3. ASSUME NEW k \in 1 .. N, f[k - 1] = g[k - 1]
      PROVE  f[k] = g[k]
  <2>1. k - 1 \in 0 .. N /\ k \in 0 .. N
    OBVIOUS
  <2>2. /\ SumUp(u, k) = SumUp(u, k - 1) + u[k]
        /\ SumUp(s, k) = SumUp(s, k - 1) + s[k]
        /\ SumUp(t, k) = SumUp(t, k - 1) + t[k]
    BY <1>1, SumRec
  <2>3. /\ s[k] \in Int /\ t[k] \in Int /\ u[k] = s[k] + t[k]
        /\ SumUp(s, k - 1) \in Int /\ SumUp(t, k - 1) \in Int
    BY <2>1, SumRec DEF Ints
  <2>4. SumUp(u, k - 1) = SumUp(s, k - 1) + SumUp(t, k - 1)
    BY <1>3, <2>1
  <2>5. SumUp(u, k) = SumUp(s, k) + SumUp(t, k)
    BY <2>2, <2>3, <2>4
  <2>6. QED
    BY <2>1, <2>5
<1> HIDE DEF f, g
<1>4. \A k \in 0 .. N : f[k] = g[k]
  BY <1>2, <1>3, Agree
<1>5. N \in 0 .. N
  OBVIOUS
<1>6. QED
  BY <1>4, <1>5 DEF f, g

LEMMA SumScaled ==
  ASSUME NEW s, NEW u, NEW N \in Nat, Ints(s, N), NEW c \in Int,
         \A i \in 1 .. N : u[i] = c * s[i]
  PROVE  SumUp(u, N) = c * SumUp(s, N)
<1> DEFINE f == [n \in 0 .. N |-> SumUp(u, n)]
           g == [n \in 0 .. N |-> c * SumUp(s, n)]
<1>1. Ints(u, N)
  BY DEF Ints
<1>2. f[0] = g[0]
  BY <1>1, SumRec
<1>3. ASSUME NEW k \in 1 .. N, f[k - 1] = g[k - 1]
      PROVE  f[k] = g[k]
  <2>1. k - 1 \in 0 .. N /\ k \in 0 .. N
    OBVIOUS
  <2>2. /\ SumUp(u, k) = SumUp(u, k - 1) + u[k]
        /\ SumUp(s, k) = SumUp(s, k - 1) + s[k]
    BY <1>1, SumRec
  <2>3. s[k] \in Int /\ u[k] = c * s[k] /\ SumUp(s, k - 1) \in Int
    BY <2>1, SumRec DEF Ints
  <2>4. SumUp(u, k - 1) = c * SumUp(s, k - 1)
    BY <1>3, <2>1
  <2>5. c * (SumUp(s, k - 1) + s[k]) = c * SumUp(s, k - 1) + c * s[k]
    BY <2>3
  <2>6. SumUp(u, k) = c * SumUp(s, k)
    BY <2>2, <2>3, <2>4, <2>5
  <2>7. QED
    BY <2>1, <2>6
<1> HIDE DEF f, g
<1>4. \A k \in 0 .. N : f[k] = g[k]
  BY <1>2, <1>3, Agree
<1>5. N \in 0 .. N
  OBVIOUS
<1>6. QED
  BY <1>4, <1>5 DEF f, g

\* u is a stretch of s.
Stretch(u, n, s, first) == \A i \in 1 .. n : u[i] = s[first + i]

\* The sum of a stretch is the difference of the sums at its ends.
LEMMA SumSegment ==
  ASSUME NEW s, NEW N \in Nat, Ints(s, N), NEW u, NEW first \in Nat, NEW n \in Nat,
         NEW last \in 0 .. N, last = first + n, Stretch(u, n, s, first)
  PROVE  SumUp(u, n) = SumUp(s, last) - SumUp(s, first)
<1> DEFINE f == [k \in 0 .. n |-> SumUp(u, k)]
           g == [k \in 0 .. n |-> SumUp(s, first + k) - SumUp(s, first)]
<1>0. \A k \in 0 .. n : SumUp(s, first + k) \in Int
  <2>1. \A k \in 0 .. n : first + k \in 0 .. N
    OBVIOUS
  <2>2. QED
    BY <2>1, SumRec
<1>1. Ints(u, n)
  <2>1. \A i \in 1 .. n : first + i \in 1 .. N
    OBVIOUS
  <2>2. QED
    BY <2>1 DEF Ints, Stretch
<1>2. f[0] = g[0]
  <2>1. SumUp(s, first) \in Int /\ first + 0 = first
    BY <1>0
  <2>2. QED
    BY <1>1, <2>1, SumRec
<1>3. ASSUME NEW k \in 1 .. n, f[k - 1] = g[k - 1]
      PROVE  f[k] = g[k]
  <2>1. k - 1 \in 0 .. n /\ k \in 0 .. n /\ first + k \in 1 .. N /\ first + (k - 1) = first + k - 1
    OBVIOUS
  <2>2. /\ SumUp(u, k) = SumUp(u, k - 1) + u[k]
        /\ SumUp(s, first + k) = SumUp(s, first + k - 1) + s[first + k]
    BY <1>1, <2>1, SumRec
  <2>3. /\ u[k] = s[first + k] /\ s[first + k] \in Int
        /\ SumUp(s, first + (k - 1)) \in Int /\ SumUp(s, first + 0) \in Int
    BY <1>0, <2>1 DEF Ints, Stretch
  <2>4. SumUp(u, k - 1) = SumUp(s, first + (k - 1)) - SumUp(s, first)
    BY <1>3, <2>1
  <2>5. SumUp(u, k) = SumUp(s, first + k) - SumUp(s, first)
    BY <2>1, <2>2, <2>3, <2>4
  <2>6. QED
    BY <2>1, <2>5
<1> HIDE DEF f, g
<1>4. \A k \in 0 .. n : f[k] = g[k]
  <2>1. n \in Nat
    OBVIOUS
  <2>2. QED
    BY ONLY <2>1, <1>2, <1>3, Agree
<1>5. n \in 0 .. n
  OBVIOUS
<1>6. QED
  BY <1>4, <1>5 DEF f, g

\* Differences add up to the difference of the ends.
LEMMA Telescope ==
  ASSUME NEW p, NEW s, NEW N \in Nat, \A k \in 0 .. N : p[k] \in Int,
         \A k \in 1 .. N : s[k] = p[k] - p[k - 1]
  PROVE  SumUp(s, N) = p[N] - p[0]
<1> DEFINE f == [n \in 0 .. N |-> SumUp(s, n)]
           g == [n \in 0 .. N |-> p[n] - p[0]]
<1>1. Ints(s, N)
  BY DEF Ints
<1>2. f[0] = g[0]
  <2>1. p[0] \in Int
    OBVIOUS
  <2>2. QED
    BY <1>1, <2>1, SumRec
<1>3. ASSUME NEW k \in 1 .. N, f[k - 1] = g[k - 1]
      PROVE  f[k] = g[k]
  <2>1. k - 1 \in 0 .. N /\ k \in 0 .. N /\ 0 \in 0 .. N
    OBVIOUS
  <2>2. SumUp(s, k) = SumUp(s, k - 1) + s[k]
    BY <1>1, SumRec
  <2>3. s[k] = p[k] - p[k - 1] /\ p[k] \in Int /\ p[k - 1] \in Int /\ p[0] \in Int
    BY <2>1
  <2>4. SumUp(s, k - 1) = p[k - 1] - p[0]
    BY <1>3, <2>1
  <2>5. SumUp(s, k) = p[k] - p[0]
    BY <2>2, <2>3, <2>4
  <2>6. QED
    BY <2>1, <2>5
<1> HIDE DEF f, g
<1>4. \A k \in 0 .. N : f[k] = g[k]
  BY <1>2, <1>3, Agree
<1>5. N \in 0 .. N
  OBVIOUS
<1>6. QED
  BY <1>4, <1>5 DEF f, g

\* Rows then columns, or columns then rows.
LEMMA SumExchange ==
  ASSUME NEW M, NEW P \in Nat, NEW N \in Nat,
         \A i \in 1 .. P, j \in 1 .. N : M[<<i, j>>] \in Int
  PROVE  SumUp([i \in 1 .. P |-> SumUp([j \in 1 .. N |-> M[<<i, j>>]], N)], P)
           = SumUp([j \in 1 .. N |-> SumUp([i \in 1 .. P |-> M[<<i, j>>]], P)], N)
<1> DEFINE row(i) == [j \in 1 .. N |-> M[<<i, j>>]]
           col(j) == [i \in 1 .. P |-> M[<<i, j>>]]
           rows == [i \in 1 .. P |-> SumUp(row(i), N)]
           cols(n) == [j \in 1 .. N |-> SumUp(col(j), n)]
           f == [n \in 0 .. P |-> SumUp(rows, n)]
           g == [n \in 0 .. P |-> SumUp(cols(n), N)]
<1>1. \A i \in 1 .. P : Ints(row(i), N)
  BY DEF Ints
<1>2. \A j \in 1 .. N : Ints(col(j), P)
  BY DEF Ints
<1>3. Ints(rows, P)
  <2>1. ASSUME NEW i \in 1 .. P PROVE SumUp(row(i), N) \in Int
    <3>1. Ints(row(i), N) /\ N \in 0 .. N
      BY <1>1
    <3> HIDE DEF row
    <3>2. QED
      BY <3>1, SumRec
  <2>2. QED
    BY <2>1 DEF Ints
<1>4. \A n \in 0 .. P : Ints(cols(n), N)
  <2>1. ASSUME NEW n \in 0 .. P, NEW j \in 1 .. N PROVE SumUp(col(j), n) \in Int
    <3>1. Ints(col(j), P)
      BY <1>2
    <3> HIDE DEF col
    <3>2. QED
      BY <3>1, SumRec
  <2>2. QED
    BY <2>1 DEF Ints
<1>5. f[0] = g[0]
  <2>1. SumUp(rows, 0) = 0
    <3> HIDE DEF rows
    <3>1. QED
      BY <1>3, SumRec
  <2>2. \A j \in 1 .. N : cols(0)[j] = 0
    <3>1. ASSUME NEW j \in 1 .. N PROVE SumUp(col(j), 0) = 0
      <4>1. Ints(col(j), P)
        BY <1>2
      <4> HIDE DEF col
      <4>2. QED
        BY <4>1, SumRec
    <3> HIDE DEF col
    <3>2. QED
      BY <3>1
  <2>3. SumUp(cols(0), N) = 0
    <3> DEFINE z == [j \in 1 .. N |-> cols(0)[j]]
    <3>1. z \in Seq(Int) /\ Len(z) = N /\ \A j \in 1 .. Len(z) : z[j] = 0
      <4> HIDE DEF cols
      <4>1. QED
        BY <2>2
    <3>2. SumOf(z) = 0
      <4> HIDE DEF z
      <4>1. QED
        BY <3>1, SumOfNone
    <3>3. QED
      BY <3>2 DEF SumUp
  <2>4. QED
    BY <2>1, <2>3
<1>6. ASSUME NEW k \in 1 .. P, f[k - 1] = g[k - 1]
      PROVE  f[k] = g[k]
  <2>1. k - 1 \in 0 .. P /\ k \in 0 .. P
    OBVIOUS
  <2>2. SumUp(rows, k) = SumUp(rows, k - 1) + SumUp(row(k), N)
    <3>1. rows[k] = SumUp(row(k), N)
      OBVIOUS
    <3> HIDE DEF rows, row
    <3>2. QED
      BY <1>3, <3>1, SumRec
  <2>3. \A j \in 1 .. N : cols(k)[j] = cols(k - 1)[j] + row(k)[j]
    <3>1. ASSUME NEW j \in 1 .. N
          PROVE  SumUp(col(j), k) = SumUp(col(j), k - 1) + row(k)[j]
      <4>1. Ints(col(j), P) /\ col(j)[k] = row(k)[j]
        BY <1>2
      <4> HIDE DEF col, row
      <4>2. QED
        BY <4>1, SumRec
    <3> HIDE DEF row, col
    <3>2. QED
      BY <3>1
  <2>4. SumUp(cols(k), N) = SumUp(cols(k - 1), N) + SumUp(row(k), N)
    <3>1. Ints(cols(k - 1), N) /\ Ints(row(k), N)
      BY <1>1, <1>4, <2>1
    <3> HIDE DEF cols, row
    <3>2. QED
      BY <2>3, <3>1, SumAdd
  <2>5. f[k - 1] = SumUp(rows, k - 1) /\ g[k - 1] = SumUp(cols(k - 1), N)
        /\ f[k] = SumUp(rows, k) /\ g[k] = SumUp(cols(k), N)
    BY <2>1
  <2> HIDE DEF f, g, rows, cols, row
  <2>6. QED
    BY <1>6, <2>2, <2>4, <2>5
<1>7. P \in 0 .. P
  OBVIOUS
<1>8. f[P] = g[P]
  <2> HIDE DEF f, g
  <2>1. QED
    BY <1>5, <1>6, <1>7, Agree
<1>9. QED
  BY <1>7, <1>8

-----------------------------------------------------------------------------
(* Where rows begin                                                        *)

\* Offsets of n rows among as many entries as the last one says.
IsPointer(ptr, n, last) ==
  /\ ptr \in Seq(Int) /\ Len(ptr) = n + 1
  /\ ptr[1] = 0 /\ ptr[n + 1] = last
  /\ \A k \in 1 .. n : ptr[k] <= ptr[k + 1]

LEMMA PointerMonotone ==
  ASSUME NEW ptr, NEW n \in Nat, NEW last, IsPointer(ptr, n, last)
  PROVE  /\ last \in Nat
         /\ \A i, j \in 1 .. n + 1 : i <= j => ptr[i] <= ptr[j]
         /\ \A i \in 1 .. n + 1 : ptr[i] \in 0 .. last
<1>1. \A i \in 1 .. n + 1 : ptr[i] \in Int
  BY ElementOfSeq DEF IsPointer
<1>2. ASSUME NEW i \in 1 .. n + 1
      PROVE  \A j \in 1 .. n + 1 : i <= j => ptr[i] <= ptr[j]
  <2> DEFINE T == {j \in 1 .. n + 1 : i <= j /\ ~(ptr[i] <= ptr[j])}
  <2>1. CASE T # {}
    <3>1. PICK j \in T : \A k \in T : j <= k
      <4>1. T \in SUBSET Nat
        OBVIOUS
      <4> HIDE DEF T
      <4>2. QED
        BY <2>1, <4>1, FirstFailure
    <3>2. j # i
      BY <1>1
    <3>3. j - 1 \in 1 .. n /\ j - 1 \in 1 .. n + 1 /\ i <= j - 1 /\ j - 1 \notin T
      BY <3>1, <3>2
    <3>4. ptr[i] <= ptr[j - 1] /\ ptr[j - 1] <= ptr[j - 1 + 1] /\ j - 1 + 1 = j
      BY <3>3 DEF IsPointer
    <3>5. ptr[i] \in Int /\ ptr[j - 1] \in Int /\ ptr[j] \in Int
      BY <1>1, <3>3
    <3>6. ptr[i] <= ptr[j]
      BY <3>4, <3>5
    <3>7. QED
      BY <3>6
  <2>2. CASE T = {}
    BY <2>2
  <2>3. QED
    BY <2>1, <2>2
<1>3. ASSUME NEW i \in 1 .. n + 1
      PROVE  ptr[i] \in 0 .. last
  <2>1. 1 \in 1 .. n + 1 /\ n + 1 \in 1 .. n + 1 /\ 1 <= i /\ i <= n + 1
    OBVIOUS
  <2>2. ptr[1] <= ptr[i] /\ ptr[i] <= ptr[n + 1]
    BY <1>2, <2>1
  <2>3. QED
    BY <1>1, <2>1, <2>2 DEF IsPointer
<1>4. last \in Nat
  <2>1. 1 \in 1 .. n + 1 /\ n + 1 \in 1 .. n + 1
    OBVIOUS
  <2>2. ptr[1] <= ptr[n + 1] /\ ptr[n + 1] \in Int
    BY <1>1, <1>2, <2>1
  <2>3. QED
    BY <2>2 DEF IsPointer
<1>5. QED
  BY <1>2, <1>3, <1>4

\* Every entry lies in a row.
LEMMA PointerWithin ==
  ASSUME NEW ptr, NEW n \in Nat, NEW last, IsPointer(ptr, n, last), NEW i \in 1 .. last
  PROVE  \E k \in 1 .. n : ptr[k] < i /\ i <= ptr[k + 1]
<1> DEFINE T == {k \in 1 .. n + 1 : i <= ptr[k]}
<1>0. last \in Nat /\ \A k \in 1 .. n + 1 : ptr[k] \in 0 .. last
  BY PointerMonotone
<1>1. PICK j \in T : \A k \in T : j <= k
  <2>1. T \in SUBSET Nat /\ T # {}
    <3>1. n + 1 \in 1 .. n + 1 /\ i <= ptr[n + 1]
      BY <1>0 DEF IsPointer
    <3>2. QED
      BY <3>1
  <2> HIDE DEF T
  <2>2. QED
    BY <2>1, FirstFailure
<1>2. j # 1
  BY <1>0 DEF IsPointer
<1>3. j - 1 \in 1 .. n /\ j - 1 \in 1 .. n + 1 /\ j - 1 + 1 = j /\ j - 1 \notin T
  BY <1>1, <1>2
<1>4. ptr[j - 1] < i
  BY <1>0, <1>3
<1>5. QED
  BY <1>3, <1>4

LEMMA PointerOf ==
  ASSUME NEW m \in AnyCsr, ValidOffsets(m)
  PROVE  /\ m.rows \in Nat /\ m.cols \in Nat
         /\ Nnz(m) \in Nat
         /\ IsPointer(m.rowPtr, m.rows, Nnz(m))
         /\ m.columns \in Seq(Int) /\ m.values \in Seq(Int)
         /\ Len(m.columns) = Nnz(m) /\ Len(m.values) = Nnz(m)
<1>1. /\ m.rows \in Int /\ m.cols \in Int
      /\ m.rowPtr \in Seq(Int) /\ m.columns \in Seq(Int) /\ m.values \in Seq(Int)
  BY DEF AnyCsr
<1>2. m.rows \in Nat /\ m.cols \in Nat
  BY <1>1 DEF ValidOffsets
<1>3. Len(m.columns) = Nnz(m) /\ Len(m.values) = Nnz(m) /\ Nnz(m) \in Nat
  <2>1. Len(m.columns) = Nnz(m) /\ Len(m.values) = Nnz(m)
    BY DEF ValidOffsets, Nnz
  <2>2. Len(m.values) \in Nat
    <3> DEFINE s == m.values
    <3>1. s \in Seq(Int)
      BY <1>1
    <3> HIDE DEF s
    <3>2. Len(s) \in Nat
      BY <3>1
    <3>3. QED
      BY <3>2 DEF s
  <2>3. QED
    BY <2>1, <2>2
<1>4. ASSUME NEW k \in 1 .. m.rows
      PROVE  m.rowPtr[k] <= m.rowPtr[k + 1]
  <2>1. k - 1 \in 0 .. m.rows - 1 /\ k - 1 + 1 = k /\ k - 1 + 2 = k + 1
    BY <1>2
  <2>2. OffsetsInRange(m, k - 1)
    BY <2>1 DEF ValidOffsets
  <2>3. QED
    BY <2>1, <2>2 DEF OffsetsInRange
<1>5. QED
  BY <1>1, <1>2, <1>3, <1>4 DEF IsPointer, ValidOffsets

LEMMA ValidOffsetsFrom ==
  ASSUME NEW m \in AnyCsr, m.rows \in Nat, m.cols \in Nat,
         IsPointer(m.rowPtr, m.rows, Nnz(m)), Len(m.columns) = Nnz(m)
  PROVE  ValidOffsets(m)
<1>1. ASSUME NEW k \in 0 .. m.rows - 1
      PROVE  OffsetsInRange(m, k)
  <2>1. k + 1 \in 1 .. m.rows /\ k + 1 \in 1 .. m.rows + 1 /\ k + 2 \in 1 .. m.rows + 1
        /\ (k + 1) + 1 = k + 2
    OBVIOUS
  <2>2. m.rowPtr[k + 1] \in 0 .. Nnz(m) /\ m.rowPtr[k + 2] \in 0 .. Nnz(m)
    BY <2>1, PointerMonotone
  <2>3. m.rowPtr[k + 1] <= m.rowPtr[k + 2]
    BY <2>1 DEF IsPointer
  <2>4. QED
    BY <2>2, <2>3 DEF OffsetsInRange
<1>2. QED
  BY <1>1 DEF ValidOffsets, IsPointer

\* A row, entry by entry.
LEMMA RowIs ==
  ASSUME NEW m \in AnyCsr, ValidOffsets(m), NEW k \in 0 .. m.rows - 1
  PROVE  /\ RowLength(m, k) \in Nat
         /\ DOMAIN Row(m, k) = 1 .. RowLength(m, k)
         /\ Len(Row(m, k)) = RowLength(m, k)
         /\ \A i \in 1 .. RowLength(m, k) :
              /\ m.rowPtr[k + 1] + i \in 1 .. Nnz(m)
              /\ Row(m, k)[i] = [column |-> m.columns[m.rowPtr[k + 1] + i],
                                 value  |-> m.values[m.rowPtr[k + 1] + i]]
<1> DEFINE first == m.rowPtr[k + 1]
           last == m.rowPtr[k + 2]
<1>1. m.rows \in Nat /\ Nnz(m) \in Nat /\ IsPointer(m.rowPtr, m.rows, Nnz(m))
  BY PointerOf
<1>2. first \in 0 .. Nnz(m) /\ last \in 0 .. Nnz(m) /\ first <= last
  <2>1. k + 1 \in 1 .. m.rows + 1 /\ k + 2 \in 1 .. m.rows + 1 /\ k + 1 <= k + 2
    BY <1>1
  <2>2. QED
    BY <1>1, <2>1, PointerMonotone
<1>3. Row(m, k) = [i \in 1 .. last - first |-> [column |-> m.columns[first + i],
                                                value  |-> m.values[first + i]]]
  BY DEF Row
<1>4. RowLength(m, k) = last - first
  BY DEF RowLength
<1>5. \A i \in 1 .. last - first : first + i \in 1 .. Nnz(m)
  <2> HIDE DEF first, last
  <2>1. QED
    BY <1>1, <1>2
<1> HIDE DEF first, last
<1>6. last - first \in Nat
  BY <1>1, <1>2
<1>7. QED
  BY <1>3, <1>4, <1>5, <1>6 DEF first

\* The rows determine the matrix.
LEMMA SameRows ==
  ASSUME NEW m \in AnyCsr, NEW n \in AnyCsr, ValidOffsets(m), ValidOffsets(n),
         m.rows = n.rows, m.cols = n.cols,
         \A k \in 0 .. m.rows - 1 : Row(m, k) = Row(n, k)
  PROVE  m = n
<1>1. /\ m.rows \in Nat
      /\ IsPointer(m.rowPtr, m.rows, Nnz(m)) /\ IsPointer(n.rowPtr, m.rows, Nnz(n))
      /\ m.columns \in Seq(Int) /\ m.values \in Seq(Int)
      /\ n.columns \in Seq(Int) /\ n.values \in Seq(Int)
      /\ Len(m.columns) = Nnz(m) /\ Len(m.values) = Nnz(m)
      /\ Len(n.columns) = Nnz(n) /\ Len(n.values) = Nnz(n)
  BY PointerOf
<1>2. \A k \in 1 .. m.rows + 1 : m.rowPtr[k] \in Int /\ n.rowPtr[k] \in Int
  BY <1>1, ElementOfSeq DEF IsPointer
<1> DEFINE f == [k \in 0 .. m.rows |-> m.rowPtr[k + 1]]
           g == [k \in 0 .. m.rows |-> n.rowPtr[k + 1]]
<1>3. f[0] = g[0]
  BY <1>1 DEF IsPointer
<1>4. ASSUME NEW k \in 1 .. m.rows, f[k - 1] = g[k - 1]
      PROVE  f[k] = g[k]
  <2>1. k - 1 \in 0 .. m.rows - 1 /\ k - 1 \in 0 .. m.rows /\ k \in 0 .. m.rows
        /\ k - 1 + 1 = k /\ k - 1 + 2 = k + 1
        /\ k \in 1 .. m.rows + 1 /\ k + 1 \in 1 .. m.rows + 1
    BY <1>1
  <2>2. RowLength(m, k - 1) = RowLength(n, k - 1)
    <3>1. Len(Row(m, k - 1)) = RowLength(m, k - 1)
      BY <2>1, RowIs
    <3>2. Len(Row(n, k - 1)) = RowLength(n, k - 1)
      BY <2>1, RowIs
    <3>3. QED
      BY <2>1, <3>1, <3>2
  <2>3. m.rowPtr[k + 1] - m.rowPtr[k] = n.rowPtr[k + 1] - n.rowPtr[k]
    BY <2>1, <2>2 DEF RowLength
  <2>4. m.rowPtr[k] = n.rowPtr[k]
    BY <1>4, <2>1
  <2>5. m.rowPtr[k + 1] = n.rowPtr[k + 1]
    BY <1>2, <2>1, <2>3, <2>4
  <2>6. QED
    BY <2>1, <2>5
<1>5. \A k \in 0 .. m.rows : f[k] = g[k]
  <2> HIDE DEF f, g
  <2>1. m.rows \in Nat
    BY <1>1
  <2>2. QED
    BY ONLY <2>1, <1>3, <1>4, Agree
<1>6. \A k \in 1 .. m.rows + 1 : m.rowPtr[k] = n.rowPtr[k]
  <2>1. ASSUME NEW k \in 1 .. m.rows + 1 PROVE m.rowPtr[k] = n.rowPtr[k]
    <3>1. k - 1 \in 0 .. m.rows /\ k - 1 + 1 = k
      BY <1>1
    <3>2. f[k - 1] = g[k - 1]
      BY <1>5, <3>1
    <3>3. QED
      BY <3>1, <3>2
  <2>2. QED
    BY <2>1
<1> HIDE DEF f, g
<1>7. m.rowPtr = n.rowPtr
  <2> DEFINE s == m.rowPtr
             t == n.rowPtr
  <2>1. s \in Seq(Int) /\ t \in Seq(Int) /\ Len(s) = m.rows + 1 /\ Len(t) = m.rows + 1
        /\ \A k \in 1 .. m.rows + 1 : s[k] = t[k]
    BY <1>1, <1>6 DEF IsPointer
  <2> HIDE DEF s, t
  <2>2. s = t
    BY <2>1, SeqEqual
  <2>3. QED
    BY <2>2 DEF s, t
<1>8. Nnz(m) = Nnz(n)
  BY <1>1, <1>7 DEF IsPointer
<1>9. ASSUME NEW i \in 1 .. Nnz(m)
      PROVE  m.columns[i] = n.columns[i] /\ m.values[i] = n.values[i]
  <2>1. PICK k \in 1 .. m.rows : m.rowPtr[k] < i /\ i <= m.rowPtr[k + 1]
    BY <1>1, PointerWithin
  <2>2. k - 1 \in 0 .. m.rows - 1 /\ k - 1 + 1 = k /\ k - 1 + 2 = k + 1
        /\ k \in 1 .. m.rows + 1 /\ k + 1 \in 1 .. m.rows + 1
    BY <1>1
  <2> DEFINE p == i - m.rowPtr[k]
  <2>3. p \in 1 .. RowLength(m, k - 1) /\ m.rowPtr[k] + p = i
    <3>1. RowLength(m, k - 1) = m.rowPtr[k + 1] - m.rowPtr[k]
      BY <2>2 DEF RowLength
    <3>2. m.rowPtr[k] \in Int /\ m.rowPtr[k + 1] \in Int /\ Nnz(m) \in Nat
      BY <1>2, <2>2, PointerOf
    <3>3. QED
      BY <2>1, <3>1, <3>2
  <2>4. Row(m, k - 1)[p] = [column |-> m.columns[i], value |-> m.values[i]]
    BY <2>2, <2>3, RowIs
  <2>5. Row(n, k - 1)[p] = [column |-> n.columns[i], value |-> n.values[i]]
    <3>1. RowLength(n, k - 1) = RowLength(m, k - 1)
      BY <1>7 DEF RowLength
    <3>2. QED
      BY <1>7, <2>2, <2>3, <3>1, RowIs
  <2>6. Row(m, k - 1) = Row(n, k - 1)
    BY <2>2
  <2>7. QED
    BY <2>4, <2>5, <2>6
<1>10. m.columns = n.columns /\ m.values = n.values
  <2> DEFINE s == m.columns
             t == n.columns
             u == m.values
             v == n.values
  <2>1. /\ s \in Seq(Int) /\ t \in Seq(Int) /\ u \in Seq(Int) /\ v \in Seq(Int)
        /\ Len(s) = Len(t) /\ Len(u) = Len(v) /\ Len(s) = Nnz(m) /\ Len(u) = Nnz(m)
        /\ \A i \in 1 .. Nnz(m) : s[i] = t[i] /\ u[i] = v[i]
    BY <1>1, <1>8, <1>9
  <2> HIDE DEF s, t, u, v
  <2>2. s = t /\ u = v
    BY <2>1, SeqEqual
  <2>3. QED
    BY <2>2 DEF s, t, u, v
<1>11. /\ m = [rows |-> m.rows, cols |-> m.cols, rowPtr |-> m.rowPtr,
                columns |-> m.columns, values |-> m.values]
       /\ n = [rows |-> n.rows, cols |-> n.cols, rowPtr |-> n.rowPtr,
                columns |-> n.columns, values |-> n.values]
  BY DEF AnyCsr
<1>12. QED
  BY <1>7, <1>10, <1>11, Zenon

-----------------------------------------------------------------------------
(* A matrix from its rows                                                  *)

\* A sequence of numbers from what is below each of them.
LEMMA OffsetsAre ==
  ASSUME NEW s \in Seq(Int)
  PROVE  \E f : /\ IsSum(f, s)
                /\ Offsets(s) = [k \in 1 .. Len(s) + 1 |-> f[k - 1]]
<1> DEFINE n == Len(s)
           rec(f) == [k \in 0 .. n |-> IF k = 0 THEN 0 ELSE f[k - 1] + s[k]]
           sum == CHOOSE f : f = rec(f)
<1>0. n \in Nat
  OBVIOUS
<1>1. PICK f : IsSum(f, s)
  BY SumIs
<1> DEFINE g == [k \in 0 .. n |-> f[k]]
<1>2. g = rec(g)
  <2>1. ASSUME NEW k \in 0 .. n
        PROVE  g[k] = IF k = 0 THEN 0 ELSE g[k - 1] + s[k]
    <3>1. k # 0 => k \in 1 .. n /\ k - 1 \in 0 .. n
      BY <1>0
    <3>2. QED
      BY <1>1, <3>1 DEF IsSum
  <2>2. QED
    BY <2>1
<1>3. sum = rec(sum)
  <2> HIDE DEF rec, g
  <2>1. QED
    BY <1>2
<1>4. \A k \in 0 .. n : sum[k] = g[k]
  <2>1. \A k \in 0 .. n : sum[k] = IF k = 0 THEN 0 ELSE sum[k - 1] + s[k]
    BY <1>3
  <2>2. \A k \in 0 .. n : g[k] = IF k = 0 THEN 0 ELSE g[k - 1] + s[k]
    BY <1>2
  <2> HIDE DEF sum, g, rec, n
  <2>3. sum[0] = g[0]
    <3>1. 0 \in 0 .. n
      BY <1>0
    <3>2. QED
      BY <2>1, <2>2, <3>1
  <2>4. ASSUME NEW k \in 1 .. n, sum[k - 1] = g[k - 1]
        PROVE  sum[k] = g[k]
    <3>1. k \in 0 .. n /\ k # 0
      BY <1>0
    <3>2. QED
      BY <2>1, <2>2, <2>4, <3>1
  <2>5. QED
    BY ONLY <1>0, <2>3, <2>4, Agree
<1>5. Offsets(s) = [k \in 1 .. n + 1 |-> sum[k - 1]]
  BY DEF Offsets
<1>6. \A k \in 1 .. n + 1 : sum[k - 1] = f[k - 1]
  <2>1. \A k \in 1 .. n + 1 : k - 1 \in 0 .. n
    BY <1>0
  <2>2. \A k \in 0 .. n : g[k] = f[k]
    OBVIOUS
  <2> HIDE DEF sum, g, n
  <2>3. QED
    BY <1>4, <2>1, <2>2
<1>7. QED
  <2> HIDE DEF sum, g
  <2>1. QED
    BY <1>1, <1>5, <1>6

\* Where the parts of a flattened sequence are.
LEMMA FlatParts ==
  ASSUME NEW T, NEW ss \in Seq(Seq(T)), NEW f, IsSum(f, [k \in DOMAIN ss |-> Len(ss[k])])
  PROVE  /\ FlattenSeq(ss) \in Seq(T)
         /\ Len(FlattenSeq(ss)) = f[Len(ss)]
         /\ \A k \in 1 .. Len(ss) : /\ f[k - 1] \in Nat /\ f[k] = f[k - 1] + Len(ss[k])
                                    /\ f[k] <= f[Len(ss)]
                                    /\ \A i \in 1 .. Len(ss[k]) :
                                         FlattenSeq(ss)[f[k - 1] + i] = ss[k][i]
<1> DEFINE n == Len(ss)
<1>0. /\ n \in Nat /\ DOMAIN ss = 1 .. n
      /\ \A k \in 1 .. n : ss[k] \in Seq(T) /\ Len(ss[k]) \in Nat
  OBVIOUS
<1>1. /\ f[0] = 0
      /\ \A k \in 1 .. n : f[k] = f[k - 1] + Len(ss[k])
      /\ \A k \in 0 .. n : f[k] \in Int
  <2> DEFINE lengths == [k \in DOMAIN ss |-> Len(ss[k])]
  <2>1. Len(lengths) = n /\ \A k \in 1 .. n : lengths[k] = Len(ss[k])
    BY <1>0
  <2> HIDE DEF lengths
  <2>2. QED
    BY <2>1 DEF IsSum, lengths
<1>2. PICK g : /\ IsFlat(g, ss)
               /\ \A k \in 0 .. n : g[k] \in Seq(T)
               /\ FlattenSeq(ss) = g[n]
  BY FlattenIs
<1> HIDE DEF n
<1>3. \A k \in 1 .. n : g[k] = g[k - 1] \o ss[k] /\ k - 1 \in 0 .. n /\ k \in 0 .. n
  <2>1. \A k \in 1 .. n : g[k] = g[k - 1] \o ss[k]
    BY ONLY <1>2 DEF IsFlat, n
  <2>2. \A k \in 1 .. n : k - 1 \in 0 .. n /\ k \in 0 .. n
    BY ONLY <1>0
  <2>3. QED
    BY ONLY <2>1, <2>2
<1>4. \A k \in 0 .. n : Len(g[k]) = f[k]
  <2> DEFINE l == [k \in 0 .. n |-> Len(g[k])]
             r == [k \in 0 .. n |-> f[k]]
  <2>1. l[0] = r[0]
    BY <1>0, <1>1, <1>2 DEF IsFlat
  <2>2. ASSUME NEW k \in 1 .. n, l[k - 1] = r[k - 1]
        PROVE  l[k] = r[k]
    <3>1. g[k - 1] \in Seq(T) /\ ss[k] \in Seq(T) /\ k - 1 \in 0 .. n /\ k \in 0 .. n
      BY <1>0, <1>2, <1>3
    <3>2. Len(g[k]) = Len(g[k - 1]) + Len(ss[k])
      <4>1. g[k] = g[k - 1] \o ss[k]
        BY ONLY <1>3, k \in 1 .. n
      <4>2. Len(g[k - 1] \o ss[k]) = Len(g[k - 1]) + Len(ss[k])
        BY ONLY <3>1, ConcatProperties
      <4>3. QED
        BY ONLY <4>1, <4>2
    <3>3. QED
      BY <1>1, <2>2, <3>1, <3>2
  <2>3. \A k \in 0 .. n : l[k] = r[k]
    <3>1. n \in Nat
      BY <1>0
    <3> HIDE DEF l, r
    <3>2. QED
      BY ONLY <3>1, <2>1, <2>2, Agree
  <2>4. QED
    BY <2>3
<1>5. \A k \in 0 .. n : f[k] \in Nat
  <2>1. \A k \in 0 .. n : Len(g[k]) \in Nat
    BY <1>2
  <2>2. QED
    BY <2>1, <1>4
<1>6. ASSUME NEW k \in 0 .. n
      PROVE  \A j \in k .. n : f[k] <= f[j] /\ \A i \in 1 .. f[k] : g[j][i] = g[k][i]
  <2> DEFINE P(j) == f[k] <= f[j] /\ \A i \in 1 .. f[k] : g[j][i] = g[k][i]
             W == {j \in k .. n : ~P(j)}
  <2>1. CASE W # {}
    <3>1. PICK j \in W : \A i \in W : j <= i
      <4>1. W \in SUBSET Nat
        OBVIOUS
      <4> HIDE DEF W
      <4>2. QED
        BY <2>1, <4>1, FirstFailure
    <3>2. j # k
      BY <1>5
    <3>3. j - 1 \in k .. n /\ j - 1 \in 0 .. n /\ j \in 1 .. n /\ ~(j <= j - 1)
      <4> HIDE DEF P
      <4>1. j \in k .. n /\ n \in Nat /\ k \in 0 .. n
        BY <1>0
      <4>2. QED
        BY <3>2, <4>1
    <3>4. P(j - 1)
      <4> HIDE DEF P
      <4>1. j - 1 \notin W
        BY <3>1, <3>3
      <4>2. QED
        BY <3>3, <4>1
    <3> DEFINE s == g[j - 1]
               t == ss[j]
    <3>5. g[j] = s \o t /\ s \in Seq(T) /\ t \in Seq(T) /\ Len(s) = f[j - 1]
      <4>1. g[j] = s \o t
        BY <1>3, <3>3
      <4>2. s \in Seq(T) /\ Len(s) = f[j - 1]
        BY <1>2, <1>4, <3>3
      <4>3. t \in Seq(T)
        BY <1>0, <3>3
      <4>4. QED
        BY <4>1, <4>2, <4>3
    <3>6. /\ f[j] = f[j - 1] + Len(t) /\ Len(t) \in Nat
          /\ f[j - 1] \in Nat /\ f[k] \in Nat /\ f[k] <= f[j - 1]
      <4>1. f[j] = f[j - 1] + Len(t) /\ f[j - 1] \in Nat /\ f[k] \in Nat
        BY <1>1, <1>5, <3>3
      <4>2. Len(t) \in Nat
        BY <3>5
      <4>3. f[k] <= f[j - 1]
        BY <3>4
      <4>4. QED
        BY <4>1, <4>2, <4>3
    <3>7. ASSUME NEW i \in 1 .. f[k]
          PROVE  g[j][i] = g[k][i]
      <4>1. s[i] = g[k][i]
        BY <3>4
      <4> HIDE DEF s, t
      <4>2. i \in 1 .. Len(s) + Len(t) /\ i <= Len(s)
        BY <3>5, <3>6
      <4>3. (s \o t)[i] = s[i]
        BY <3>5, <4>2, ConcatProperties
      <4>4. QED
        BY <3>5, <4>1, <4>3
    <3>8. f[k] <= f[j]
      BY <3>6
    <3>9. QED
      BY <3>7, <3>8
  <2>2. CASE W = {}
    BY <2>2
  <2>3. QED
    BY <2>1, <2>2
<1>7. ASSUME NEW k \in 1 .. n
      PROVE  /\ f[k - 1] \in Nat /\ f[k] = f[k - 1] + Len(ss[k])
             /\ f[k] <= f[n]
             /\ \A i \in 1 .. Len(ss[k]) : g[n][f[k - 1] + i] = ss[k][i]
  <2>1. k - 1 \in 0 .. n /\ k \in 0 .. n /\ n \in k .. n
    BY <1>0
  <2>2. f[k - 1] \in Nat /\ f[k] = f[k - 1] + Len(ss[k]) /\ Len(ss[k]) \in Nat
    BY <1>0, <1>1, <1>5, <2>1
  <2>3. f[k] <= f[n] /\ \A i \in 1 .. f[k] : g[n][i] = g[k][i]
    BY <1>6, <2>1
  <2>4. ASSUME NEW i \in 1 .. Len(ss[k])
        PROVE  g[n][f[k - 1] + i] = ss[k][i]
    <3>1. /\ g[k] = g[k - 1] \o ss[k]
          /\ g[k - 1] \in Seq(T) /\ ss[k] \in Seq(T) /\ Len(g[k - 1]) = f[k - 1]
      BY <1>0, <1>2, <1>3, <1>4, <2>1
    <3>2. f[k - 1] + i \in 1 .. f[k] /\ f[k - 1] + i \in 1 .. f[k - 1] + Len(ss[k])
          /\ ~(f[k - 1] + i <= f[k - 1]) /\ f[k - 1] + i - f[k - 1] = i
      BY <2>2
    <3>3. g[k][f[k - 1] + i] = ss[k][i]
      <4> DEFINE s == g[k - 1]
                 t == ss[k]
                 p == f[k - 1] + i
      <4>1. /\ g[k] = s \o t /\ s \in Seq(T) /\ t \in Seq(T)
            /\ p \in 1 .. Len(s) + Len(t) /\ ~(p <= Len(s)) /\ p - Len(s) = i
        BY <3>1, <3>2
      <4> HIDE DEF s, t, p
      <4>2. (s \o t)[p] = t[i]
        BY <4>1, ConcatProperties
      <4>3. QED
        BY <4>1, <4>2 DEF p, t
    <3>4. QED
      BY <2>3, <3>2, <3>3
  <2>5. QED
    BY <2>2, <2>3, <2>4
<1>8. n \in 0 .. n
  BY <1>0
<1>9. QED
  BY <1>2, <1>4, <1>7, <1>8 DEF n

LEMMA CsrMatrixIs ==
  ASSUME NEW ss \in Seq(Seq(Entry)), NEW cols \in Nat
  PROVE  /\ CsrMatrix(ss, cols) \in AnyCsr
         /\ ValidOffsets(CsrMatrix(ss, cols))
         /\ CsrMatrix(ss, cols).rows = Len(ss)
         /\ CsrMatrix(ss, cols).cols = cols
         /\ \A k \in 1 .. Len(ss) : Row(CsrMatrix(ss, cols), k - 1) = ss[k]
<1> DEFINE n == Len(ss)
           lengths == [k \in DOMAIN ss |-> Len(ss[k])]
           entries == FlattenSeq(ss)
           columns == [i \in DOMAIN entries |-> entries[i].column]
           values == [i \in DOMAIN entries |-> entries[i].value]
           ptr == Offsets(lengths)
           m == CsrMatrix(ss, cols)
<1>0. n \in Nat /\ DOMAIN ss = 1 .. n
  OBVIOUS
<1>1. \A k \in 1 .. n : ss[k] \in Seq(Entry) /\ Len(ss[k]) \in Nat
  OBVIOUS
<1>2. lengths \in Seq(Int) /\ Len(lengths) = n
  BY <1>0, <1>1
<1>3. PICK f : IsSum(f, lengths) /\ ptr = [k \in 1 .. n + 1 |-> f[k - 1]]
  <2> HIDE DEF lengths, n
  <2>1. QED
    BY <1>2, OffsetsAre
<1>4. /\ entries \in Seq(Entry) /\ Len(entries) = f[n]
      /\ \A k \in 1 .. n : /\ f[k - 1] \in Nat /\ f[k] = f[k - 1] + Len(ss[k])
                           /\ f[k] <= f[n]
                           /\ \A i \in 1 .. Len(ss[k]) : entries[f[k - 1] + i] = ss[k][i]
  BY <1>3, FlatParts
<1>5. /\ m.rows = n /\ m.cols = cols /\ m.rowPtr = ptr
      /\ m.columns = columns /\ m.values = values
      /\ m = [rows |-> n, cols |-> cols, rowPtr |-> ptr, columns |-> columns, values |-> values]
  BY DEF CsrMatrix
<1> HIDE DEF m, entries, n
<1>6. /\ DOMAIN entries = 1 .. f[n] /\ f[n] \in Nat
      /\ \A i \in 1 .. f[n] : /\ entries[i].column \in Nat /\ entries[i].value \in Int
                              /\ entries[i] = [column |-> entries[i].column, value |-> entries[i].value]
  <2>1. DOMAIN entries = 1 .. Len(entries) /\ Len(entries) \in Nat
    BY <1>4
  <2>2. \A i \in 1 .. f[n] : entries[i] \in Entry
    BY <1>4, <2>1
  <2>3. QED
    BY <1>4, <2>1, <2>2 DEF Entry
<1>7. /\ columns \in Seq(Int) /\ values \in Seq(Int)
      /\ Len(columns) = f[n] /\ Len(values) = f[n]
  <2>1. columns = [i \in 1 .. f[n] |-> entries[i].column] /\ f[n] \in Nat
    BY <1>6
  <2>2. values = [i \in 1 .. f[n] |-> entries[i].value]
    BY <1>6
  <2>3. \A i \in 1 .. f[n] : entries[i].column \in Int /\ entries[i].value \in Int
    <3>1. \A i \in 1 .. f[n] : entries[i].column \in Nat /\ entries[i].value \in Int
      BY <1>6
    <3>2. QED
      BY ONLY <3>1, <2>1
  <2>4. columns \in [1 .. f[n] -> Int] /\ values \in [1 .. f[n] -> Int]
    <3> HIDE DEF columns, values
    <3>1. QED
      BY <2>1, <2>2, <2>3
  <2> HIDE DEF columns, values
  <2>5. QED
    <3>1. \A s, N : N \in Nat /\ s \in [1 .. N -> Int] => s \in Seq(Int) /\ Len(s) = N
      OBVIOUS
    <3>2. QED
      BY ONLY <2>1, <2>4, <3>1, Zenon
<1>8. IsPointer(ptr, n, f[n])
  <2>1. f[0] = 0 /\ \A k \in 0 .. n : f[k] \in Int
    <3> HIDE DEF lengths
    <3>1. QED
      BY <1>2, <1>3 DEF IsSum
  <2>2. \A k \in 1 .. n + 1 : k - 1 \in 0 .. n
    BY <1>0
  <2>3. ptr \in Seq(Int) /\ Len(ptr) = n + 1
    <3> HIDE DEF ptr
    <3>1. QED
      BY <1>0, <1>3, <2>1, <2>2
  <2>4. ASSUME NEW k \in 1 .. n PROVE ptr[k] <= ptr[k + 1]
    <3>1. k \in 1 .. n + 1 /\ k + 1 \in 1 .. n + 1 /\ k + 1 - 1 = k
      BY <1>0
    <3>2. ptr[k] = f[k - 1] /\ ptr[k + 1] = f[k]
      <4> HIDE DEF ptr
      <4>1. QED
        BY <1>3, <3>1
    <3>3. f[k - 1] \in Nat /\ f[k] = f[k - 1] + Len(ss[k]) /\ Len(ss[k]) \in Nat
      BY <1>0, <1>1, <1>4 DEF n
    <3> HIDE DEF ptr
    <3>4. QED
      BY <3>2, <3>3
  <2>5. 1 \in 1 .. n + 1 /\ n + 1 \in 1 .. n + 1 /\ n + 1 - 1 = n /\ 1 - 1 = 0
    BY <1>0
  <2>6. ptr[1] = 0 /\ ptr[n + 1] = f[n]
    <3> HIDE DEF ptr
    <3>1. \A k \in 1 .. n + 1 : ptr[k] = f[k - 1]
      BY <1>3
    <3>2. n \in Nat /\ f[0] = 0
      BY <1>0, <2>1
    <3>3. QED
      BY ONLY <3>1, <3>2
  <2> HIDE DEF ptr
  <2>7. QED
    BY <2>3, <2>4, <2>6 DEF IsPointer
<1> HIDE DEF ptr, columns, values, lengths
<1>9. m \in AnyCsr
  BY <1>0, <1>5, <1>7, <1>8 DEF AnyCsr, IsPointer
<1>10. ValidOffsets(m)
  <2>1. Nnz(m) = f[n]
    BY <1>5, <1>7 DEF Nnz
  <2>2. QED
    BY <1>0, <1>5, <1>7, <1>8, <1>9, <2>1, ValidOffsetsFrom
<1>11. ASSUME NEW k \in 1 .. n
       PROVE  Row(m, k - 1) = ss[k]
  <2>1. k \in 1 .. n + 1 /\ k + 1 \in 1 .. n + 1 /\ k + 1 - 1 = k /\ k - 1 + 2 = k + 1 /\ k - 1 + 1 = k
        /\ k - 1 \in 0 .. n - 1
    BY <1>0
  <2>2. ptr[k] = f[k - 1] /\ ptr[k + 1] = f[k]
    BY <1>3, <2>1
  <2>3. f[k - 1] \in Nat /\ f[k] = f[k - 1] + Len(ss[k]) /\ Len(ss[k]) \in Nat /\ f[k] <= f[n]
        /\ ss[k] \in Seq(Entry)
    BY <1>1, <1>4 DEF n
  <2>4. RowLength(m, k - 1) = Len(ss[k])
    BY <1>5, <2>1, <2>2, <2>3 DEF RowLength
  <2>5. ASSUME NEW i \in 1 .. Len(ss[k])
        PROVE  Row(m, k - 1)[i] = ss[k][i]
    <3> DEFINE p == f[k - 1] + i
    <3>1. p \in 1 .. f[n]
      BY <1>6, <2>3
    <3>2. Row(m, k - 1)[i] = [column |-> m.columns[p], value |-> m.values[p]]
      <4>1. m.rowPtr[k - 1 + 1] = f[k - 1] /\ i \in 1 .. RowLength(m, k - 1)
            /\ k - 1 \in 0 .. m.rows - 1
        BY <1>5, <2>1, <2>2, <2>4
      <4>2. Row(m, k - 1)[i] = [column |-> m.columns[m.rowPtr[k - 1 + 1] + i],
                                value  |-> m.values[m.rowPtr[k - 1 + 1] + i]]
        BY <1>9, <1>10, <4>1, RowIs
      <4>3. QED
        BY <4>1, <4>2
    <3>3. entries[p] = ss[k][i]
      BY <1>4
    <3> HIDE DEF p
    <3>4. m.columns[p] = entries[p].column /\ m.values[p] = entries[p].value
      BY <1>5, <1>6, <3>1 DEF columns, values
    <3>5. QED
      BY <1>6, <3>1, <3>2, <3>3, <3>4
  <2>6. DOMAIN Row(m, k - 1) = 1 .. Len(ss[k])
    BY <1>5, <1>9, <1>10, <2>1, <2>4, RowIs
  <2>7. Row(m, k - 1) = [i \in 1 .. Len(ss[k]) |-> Row(m, k - 1)[i]]
    BY <2>6 DEF Row
  <2>8. ss[k] = [i \in 1 .. Len(ss[k]) |-> ss[k][i]]
    BY <2>3
  <2>9. QED
    BY <2>5, <2>7, <2>8
<1>12. QED
  BY <1>5, <1>9, <1>10, <1>11 DEF m, n

-----------------------------------------------------------------------------
(* Rows of the product                                                     *)

LEMMA RowParts ==
  ASSUME NEW T, NEW s \in Seq(T)
  PROVE  DOMAIN s = 1 .. Len(s) /\ Len(s) \in Nat /\ \A i \in 1 .. Len(s) : s[i] \in T
OBVIOUS

LEMMA BelowIsEntry ==
  ASSUME NEW cols \in Int, NEW s \in Seq(EntryBelow(cols))
  PROVE  s \in Seq(Entry)
<1>1. EntryBelow(cols) \subseteq Entry
  BY DEF EntryBelow, Entry
<1> HIDE DEF EntryBelow, Entry
<1>2. QED
  BY <1>1

\* A row as the program stores results: sorted, each column once, no zeros.
Tidy(row) == InOrder(row) /\ \A i \in DOMAIN row : row[i].value # 0

\* A row of the result has the sums of its products, in order and without zeros.
LEMMA FinishedIs ==
  ASSUME NEW cols \in Int, NEW products \in Seq(EntryBelow(cols))
  PROVE  /\ finishedRow(accumulated(products)) \in Seq(EntryBelow(cols))
         /\ finishedRow(accumulated(products)) \in Seq(Entry)
         /\ Tidy(finishedRow(accumulated(products)))
         /\ \A c : ColumnSum(finishedRow(accumulated(products)), c) = ColumnSum(products, c)
<1> DEFINE S == {products[i].column : i \in DOMAIN products}
           T == {c \in S : ColumnSum(products, c) # 0}
           n == Cardinality(T)
           row == finishedRow(accumulated(products))
<1>1. /\ DOMAIN products = 1 .. Len(products) /\ Len(products) \in Nat
      /\ \A i \in DOMAIN products : products[i] \in EntryBelow(cols)
  BY RowParts
<1>2. \A i \in DOMAIN products : products[i].column \in 0 .. cols - 1
  BY <1>1 DEF EntryBelow
<1>3. products \in Seq(Entry)
  BY BelowIsEntry
<1>4. T \in SUBSET (0 .. cols - 1) /\ IsFiniteSet(0 .. cols - 1) /\ 0 .. cols - 1 \in SUBSET Nat
  <2>1. T \in SUBSET (0 .. cols - 1)
    BY <1>2
  <2>2. 0 \in Int /\ cols - 1 \in Int
    OBVIOUS
  <2>3. QED
    BY <2>1, <2>2, FS_Interval
<1>5. T \in SUBSET Nat /\ IsFiniteSet(T)
  <2> HIDE DEF T
  <2>1. IsFiniteSet(T)
    BY <1>4, FS_Subset
  <2>2. QED
    BY <1>4, <2>1
<1>6. /\ n \in Nat
      /\ Ascending(T) \in [1 .. n -> T]
      /\ \A i, j \in 1 .. n : i < j => Ascending(T)[i] < Ascending(T)[j]
      /\ \A x \in T : \E i \in 1 .. n : Ascending(T)[i] = x
  <2> HIDE DEF T
  <2>1. QED
    BY <1>5, AscendingIs
<1>7. row = [i \in 1 .. n |-> [column |-> Ascending(T)[i],
                               value |-> ColumnSum(products, Ascending(T)[i])]]
  <2> DEFINE acc == accumulated(products)
  <2>1. acc = [c \in S |-> ColumnSum(products, c)]
    BY DEF accumulated
  <2> HIDE DEF acc
  <2>2. {c \in DOMAIN acc : acc[c] # 0} = T
    BY <2>1
  <2>3. row = [i \in DOMAIN Ascending(T) |-> [column |-> Ascending(T)[i],
                                              value |-> acc[Ascending(T)[i]]]]
    BY <2>2 DEF finishedRow, acc
  <2>4. DOMAIN Ascending(T) = 1 .. n
    BY <1>6
  <2>5. \A i \in 1 .. n : acc[Ascending(T)[i]] = ColumnSum(products, Ascending(T)[i])
    <3>1. T \subseteq S
      OBVIOUS
    <3>2. \A i \in 1 .. n : Ascending(T)[i] \in S
      BY <1>6, <3>1
    <3> HIDE DEF T, S, n
    <3>3. QED
      BY <2>1, <3>2
  <2> HIDE DEF row, T, n
  <2>6. QED
    BY <2>3, <2>4, <2>5
<1>8. \A c : ColumnSum(products, c) \in Int
  BY <1>3, ColumnSumInt
<1>9. \A c \in T : c \in 0 .. cols - 1
  BY <1>4
<1>10. \A c : c \notin T => ColumnSum(products, c) = 0
  <2>1. ASSUME NEW c, c \notin T PROVE ColumnSum(products, c) = 0
    <3>1. CASE c \in S
      BY <2>1, <3>1
    <3>2. CASE c \notin S
      <4>1. \A i \in DOMAIN products : products[i].column # c
        BY <3>2
      <4>2. QED
        BY <1>3, <4>1, ColumnSumOfNone
    <3>3. QED
      BY <3>1, <3>2
  <2>2. QED
    BY <2>1
<1> HIDE DEF row, T, n, S
<1>11. DOMAIN row = 1 .. n /\ Len(row) = n
  BY <1>6, <1>7
<1>12. ASSUME NEW i \in 1 .. n
       PROVE  /\ row[i] \in EntryBelow(cols)
              /\ row[i].column = Ascending(T)[i] /\ row[i].column \in T
              /\ row[i].value = ColumnSum(products, row[i].column)
  <2>1. row[i] = [column |-> Ascending(T)[i], value |-> ColumnSum(products, Ascending(T)[i])]
    BY <1>7
  <2>2. Ascending(T)[i] \in T
    BY <1>6
  <2>3. QED
    BY <1>8, <1>9, <2>1, <2>2 DEF EntryBelow
<1>13. row \in Seq(EntryBelow(cols))
  <2>1. row = [i \in 1 .. n |-> row[i]]
    BY <1>7
  <2> DEFINE E == EntryBelow(cols)
  <2>2. \A i \in 1 .. n : row[i] \in E
    BY <1>12
  <2> HIDE DEF E
  <2>3. row \in Seq(E)
    BY <1>6, <2>1, <2>2
  <2>4. QED
    BY <2>3 DEF E
<1>14. row \in Seq(Entry)
  BY <1>13, BelowIsEntry
<1>15. InOrder(row)
  BY <1>6, <1>11, <1>12 DEF InOrder
<1>16. ASSUME NEW c
       PROVE  ColumnSum(row, c) = ColumnSum(products, c)
  <2>1. CASE c \in T
    <3>1. PICK i \in 1 .. n : Ascending(T)[i] = c
      BY <1>6, <2>1
    <3>2. row[i].column = c /\ row[i].value = ColumnSum(products, c) /\ i \in DOMAIN row
      BY <1>11, <1>12, <3>1
    <3>3. ColumnSum(row, row[i].column) = row[i].value
      BY <1>14, <1>15, <3>2, ValueOfRow
    <3>4. QED
      BY <3>2, <3>3
  <2>2. CASE c \notin T
    <3>1. \A i \in DOMAIN row : row[i].column # c
      BY <1>11, <1>12, <2>2
    <3>2. ColumnSum(row, c) = 0
      BY <1>14, <3>1, ColumnSumOfNone
    <3>3. QED
      BY <1>10, <2>2, <3>2
  <2>3. QED
    BY <2>1, <2>2
<1>17. \A i \in DOMAIN row : row[i].value # 0
  <2>1. \A c \in T : ColumnSum(products, c) # 0
    BY DEF T
  <2>2. QED
    BY <1>11, <1>12, <2>1
<1>18. QED
  BY <1>13, <1>14, <1>15, <1>16, <1>17 DEF row, Tidy

\* What is added to a column at a place.
TermsIn(entries, c) ==
  [i \in 1 .. Len(entries) |-> IF entries[i].column = c THEN entries[i].value ELSE 0]

LEMMA TermsAre ==
  ASSUME NEW entries \in Seq(Entry), NEW c
  PROVE  /\ Len(entries) \in Nat
         /\ Ints(TermsIn(entries, c), Len(entries))
         /\ ColumnSum(entries, c) = SumUp(TermsIn(entries, c), Len(entries))
         /\ \A i \in 1 .. Len(entries) :
              TermsIn(entries, c)[i] = IF entries[i].column = c THEN entries[i].value ELSE 0
<1> DEFINE n == Len(entries)
           t == TermsIn(entries, c)
<1>1. n \in Nat /\ DOMAIN entries = 1 .. n /\ \A i \in 1 .. n : entries[i] \in Entry
  BY RowParts
<1>2. \A i \in 1 .. n : t[i] = IF entries[i].column = c THEN entries[i].value ELSE 0
  BY DEF TermsIn
<1>3. Ints(t, n)
  <2>1. \A i \in 1 .. n : entries[i].value \in Int
    BY <1>1 DEF Entry
  <2>2. QED
    BY <1>2, <2>1 DEF Ints
<1>4. ColumnSum(entries, c) = SumOf([i \in 1 .. n |-> IF entries[i].column = c THEN entries[i].value ELSE 0])
  BY <1>1 DEF ColumnSum
<1>5. [i \in 1 .. n |-> t[i]] = [i \in 1 .. n |-> IF entries[i].column = c THEN entries[i].value ELSE 0]
  BY <1>2
<1>6. ColumnSum(entries, c) = SumUp(t, n)
  BY <1>4, <1>5 DEF SumUp
<1>7. QED
  BY <1>1, <1>2, <1>3, <1>6

\* What sequences add up to in a column is what they do one after the other.
LEMMA ColumnSumOfFlat ==
  ASSUME NEW ss \in Seq(Seq(Entry)), NEW c
  PROVE  ColumnSum(FlattenSeq(ss), c)
           = SumUp([p \in 1 .. Len(ss) |-> ColumnSum(ss[p], c)], Len(ss))
<1> DEFINE n == Len(ss)
           flat == FlattenSeq(ss)
           lengths == [k \in DOMAIN ss |-> Len(ss[k])]
           s == TermsIn(flat, c)
           sums == [p \in 1 .. n |-> ColumnSum(ss[p], c)]
<1>1. /\ n \in Nat /\ DOMAIN ss = 1 .. n
      /\ \A k \in 1 .. n : ss[k] \in Seq(Entry)
  BY RowParts
<1>2. lengths \in Seq(Int)
  <2>1. \A k \in 1 .. n : Len(ss[k]) \in Int
    BY <1>1
  <2> HIDE DEF n
  <2>2. QED
    BY <1>1, <2>1
<1>3. PICK f : IsSum(f, lengths)
  <2> HIDE DEF lengths
  <2>1. QED
    BY <1>2, SumIs
<1>4. /\ flat \in Seq(Entry) /\ Len(flat) = f[n]
      /\ \A k \in 1 .. n : /\ f[k - 1] \in Nat /\ f[k] = f[k - 1] + Len(ss[k])
                           /\ f[k] <= f[n]
                           /\ \A i \in 1 .. Len(ss[k]) : flat[f[k - 1] + i] = ss[k][i]
  BY <1>3, FlatParts
<1>5. f[0] = 0
  BY <1>3 DEF IsSum
<1> HIDE DEF flat, lengths, n
<1>6. /\ f[n] \in Nat /\ Ints(s, f[n]) /\ ColumnSum(flat, c) = SumUp(s, f[n])
      /\ \A i \in 1 .. f[n] : s[i] = IF flat[i].column = c THEN flat[i].value ELSE 0
  BY <1>4, TermsAre
<1> HIDE DEF s
<1>7. ASSUME NEW k \in 1 .. n
      PROVE  sums[k] = SumUp(s, f[k]) - SumUp(s, f[k - 1])
  <2> DEFINE e == ss[k]
             u == TermsIn(e, c)
             l == Len(e)
  <2>1. /\ l \in Nat /\ ColumnSum(e, c) = SumUp(u, l)
        /\ \A i \in 1 .. l : u[i] = IF e[i].column = c THEN e[i].value ELSE 0
    BY <1>1, TermsAre
  <2>2. /\ f[k - 1] \in Nat /\ f[k] = f[k - 1] + l /\ f[k] <= f[n]
        /\ \A i \in 1 .. l : flat[f[k - 1] + i] = e[i]
    BY <1>4
  <2>3. sums[k] = ColumnSum(e, c)
    OBVIOUS
  <2> HIDE DEF e, u, l, sums
  <2>4. ASSUME NEW i \in 1 .. l PROVE u[i] = s[f[k - 1] + i]
    <3>1. f[k - 1] + i \in 1 .. f[n]
      BY <1>6, <2>1, <2>2
    <3>2. s[f[k - 1] + i] = IF flat[f[k - 1] + i].column = c THEN flat[f[k - 1] + i].value ELSE 0
      BY <1>6, <3>1
    <3>3. QED
      BY <2>1, <2>2, <3>2
  <2>5. SumUp(u, l) = SumUp(s, f[k - 1] + l) - SumUp(s, f[k - 1])
    <3> DEFINE first == f[k - 1]
               last == f[k - 1] + l
               N == f[n]
    <3>1. /\ last \in 0 .. N /\ last = first + l
          /\ N \in Nat /\ Ints(s, N) /\ first \in Nat /\ l \in Nat /\ first + l <= N
          /\ Stretch(u, l, s, first)
      BY <1>6, <2>1, <2>2, <2>4 DEF Stretch
    <3> HIDE DEF first, last, N
    <3>2. SumUp(u, l) = SumUp(s, last) - SumUp(s, first)
      BY <3>1, SumSegment
    <3>3. QED
      BY <3>2 DEF first, last
  <2>6. QED
    BY <2>1, <2>2, <2>3, <2>5
<1> HIDE DEF sums
<1>8. \A k \in 0 .. n : f[k] \in 0 .. f[n]
  <2>1. ASSUME NEW k \in 0 .. n PROVE f[k] \in 0 .. f[n]
    <3>1. CASE k = 0
      BY <1>5, <1>6, <3>1
    <3>2. CASE k # 0
      <4>1. k \in 1 .. n
        BY <1>1, <3>2
      <4>2. ss[k] \in Seq(Entry)
        BY <1>1, <4>1
      <4>3. Len(ss[k]) \in Nat
        BY <4>2, RowParts
      <4>4. f[k - 1] \in Nat /\ f[k] = f[k - 1] + Len(ss[k]) /\ f[k] <= f[n]
        BY <1>4, <4>1
      <4> DEFINE l == Len(ss[k])
      <4>5. l \in Nat /\ f[k - 1] \in Nat /\ f[k] = f[k - 1] + l /\ f[k] <= f[n] /\ f[n] \in Nat
        BY <1>6, <4>3, <4>4
      <4> HIDE DEF l
      <4>6. QED
        BY ONLY <4>5
    <3>3. QED
      BY <3>1, <3>2
  <2>2. QED
    BY <2>1
<1> DEFINE p == [k \in 0 .. n |-> SumUp(s, f[k])]
<1>9. \A k \in 0 .. n : p[k] \in Int
  <2>1. \A i \in 0 .. f[n] : SumUp(s, i) \in Int
    BY <1>6, SumRec
  <2>2. QED
    BY <1>8, <2>1
<1>10. \A k \in 1 .. n : sums[k] = p[k] - p[k - 1]
  <2>1. ASSUME NEW k \in 1 .. n PROVE sums[k] = p[k] - p[k - 1]
    <3>1. k \in 0 .. n /\ k - 1 \in 0 .. n
      BY <1>1
    <3>2. p[k] = SumUp(s, f[k]) /\ p[k - 1] = SumUp(s, f[k - 1])
      BY <3>1
    <3> HIDE DEF p
    <3>3. QED
      BY <1>7, <3>2
  <2>2. QED
    BY <2>1
<1>11. p[n] = SumUp(s, f[n]) /\ p[0] = 0
  <2>1. n \in 0 .. n /\ 0 \in 0 .. n
    BY <1>1
  <2>2. SumUp(s, 0) = 0
    BY <1>6, SumRec
  <2>3. QED
    BY <1>5, <2>1, <2>2
<1>12. SumUp(sums, n) = p[n] - p[0]
  <2> HIDE DEF p
  <2>1. QED
    BY ONLY <1>1, <1>9, <1>10, Telescope
<1>13. p[n] \in Int
  <2>1. n \in 0 .. n
    BY <1>1
  <2> HIDE DEF p
  <2>2. QED
    BY <1>9, <2>1
<1>14. SumUp(sums, n) = ColumnSum(flat, c)
  <2> HIDE DEF p
  <2>1. QED
    BY <1>6, <1>11, <1>12, <1>13
<1>15. QED
  BY <1>14 DEF sums, flat, n

-----------------------------------------------------------------------------
(* The product of two matrices                                             *)

LEMMA MultipliableIs ==
  ASSUME NEW x, NEW y, Multipliable(x, y)
  PROVE  /\ x \in AnyCsr /\ y \in AnyCsr /\ ValidOffsets(x) /\ ValidOffsets(y)
         /\ x.cols = y.rows
         /\ x.rows \in Nat /\ y.rows \in Nat /\ y.cols \in Nat
         /\ \A k \in 0 .. x.rows - 1 : /\ Row(x, k) \in Seq(EntryBelow(y.rows))
                                       /\ Row(x, k) \in Seq(Entry)
         /\ \A k \in 0 .. y.rows - 1 : /\ Row(y, k) \in Seq(EntryBelow(y.cols))
                                       /\ Row(y, k) \in Seq(Entry)
<1>1. /\ x \in AnyCsr /\ y \in AnyCsr /\ ValidOffsets(x) /\ ValidOffsets(y)
      /\ \A r \in 0 .. x.rows - 1 : ColumnsInRange(x, r)
      /\ \A r \in 0 .. y.rows - 1 : ColumnsInRange(y, r)
      /\ x.cols = y.rows
  BY DEF Multipliable, validNumericCsr
<1>2. x.rows \in Nat /\ y.rows \in Nat /\ y.cols \in Nat
  BY <1>1, PointerOf
<1>3. QED
  BY <1>1, <1>2, RowType

Scaled(v, row) ==
  [t \in DOMAIN row |-> [column |-> row[t].column, value |-> v * row[t].value]]

LEMMA ScaledIs ==
  ASSUME NEW cols \in Int, NEW v \in Int, NEW row \in Seq(EntryBelow(cols))
  PROVE  /\ Scaled(v, row) \in Seq(EntryBelow(cols))
         /\ \A c : ColumnSum(Scaled(v, row), c) = v * ColumnSum(row, c)
<1> DEFINE n == Len(row)
           u == Scaled(v, row)
           E == EntryBelow(cols)
<1>1. n \in Nat /\ DOMAIN row = 1 .. n /\ \A i \in 1 .. n : row[i] \in E
  BY RowParts
<1>2. u = [t \in 1 .. n |-> [column |-> row[t].column, value |-> v * row[t].value]]
  BY <1>1 DEF Scaled
<1> HIDE DEF u, n
<1>3. ASSUME NEW i \in 1 .. n
      PROVE  /\ u[i] \in E /\ u[i].column = row[i].column
             /\ u[i].value = v * row[i].value /\ row[i].value \in Int
  <2>1. u[i] = [column |-> row[i].column, value |-> v * row[i].value]
    BY <1>2
  <2>2. row[i].column \in 0 .. cols - 1 /\ row[i].value \in Int
    BY <1>1 DEF EntryBelow
  <2>3. v * row[i].value \in Int
    BY <2>2
  <2>4. QED
    BY <2>1, <2>2, <2>3 DEF EntryBelow
<1>4. u \in Seq(E) /\ Len(u) = n
  <2> HIDE DEF E
  <2>1. u = [i \in 1 .. n |-> u[i]]
    BY <1>2
  <2>2. QED
    BY <1>1, <1>3, <2>1
<1>5. u \in Seq(Entry) /\ row \in Seq(Entry)
  BY <1>4, BelowIsEntry
<1>6. ASSUME NEW c
      PROVE  ColumnSum(u, c) = v * ColumnSum(row, c)
  <2> DEFINE s == TermsIn(row, c)
             t == TermsIn(u, c)
  <2>1. /\ Ints(s, n) /\ ColumnSum(row, c) = SumUp(s, n)
        /\ \A i \in 1 .. n : s[i] = IF row[i].column = c THEN row[i].value ELSE 0
    BY <1>5, TermsAre DEF n
  <2>2. /\ ColumnSum(u, c) = SumUp(t, n)
        /\ \A i \in 1 .. n : t[i] = IF u[i].column = c THEN u[i].value ELSE 0
    BY <1>4, <1>5, TermsAre
  <2> HIDE DEF s, t
  <2>3. \A i \in 1 .. n : t[i] = v * s[i]
    BY <1>3, <2>1, <2>2
  <2>4. SumUp(t, n) = v * SumUp(s, n)
    BY <1>1, <2>1, <2>3, SumScaled
  <2>5. QED
    BY <2>1, <2>2, <2>4
<1>7. QED
  BY <1>4, <1>6 DEF u

\* The products of a row, and what each of its entries contributes.
ProductsIn(x, y, k) == scalarProducts(Row(x, k), LAMBDA r : Row(y, r))

Summands(x, y, k) ==
  [p \in 1 .. Len(Row(x, k)) |-> Scaled(Row(x, k)[p].value, Row(y, Row(x, k)[p].column))]

\* What the p-th entry adds to a column.
Contributes(x, y, k, p) ==
  \A c : ColumnSum(Summands(x, y, k)[p], c)
           = Row(x, k)[p].value * ColumnSum(Row(y, Row(x, k)[p].column), c)

LEMMA SummandsAre ==
  ASSUME NEW x, NEW y, Multipliable(x, y), NEW k \in 0 .. x.rows - 1
  PROVE  /\ ProductsIn(x, y, k) = FlattenSeq(Summands(x, y, k))
         /\ Summands(x, y, k) \in Seq(Seq(EntryBelow(y.cols)))
         /\ Summands(x, y, k) \in Seq(Seq(Entry))
         /\ Len(Summands(x, y, k)) = Len(Row(x, k)) /\ Len(Row(x, k)) \in Nat
         /\ \A p \in 1 .. Len(Row(x, k)) :
              /\ Row(x, k)[p].column \in 0 .. y.rows - 1
              /\ Row(x, k)[p].value \in Int
              /\ Contributes(x, y, k, p)
<1> DEFINE row == Row(x, k)
           n == Len(row)
           T == EntryBelow(y.cols)
           ss == Summands(x, y, k)
<1>1. /\ y.cols \in Int
      /\ row \in Seq(EntryBelow(y.rows)) /\ row \in Seq(Entry)
      /\ \A r \in 0 .. y.rows - 1 : Row(y, r) \in Seq(T)
  BY MultipliableIs
<1>2. n \in Nat /\ DOMAIN row = 1 .. n /\ \A p \in 1 .. n : row[p] \in EntryBelow(y.rows)
  <2> HIDE DEF row
  <2>1. QED
    BY <1>1, RowParts
<1>3. \A p \in 1 .. n : row[p].column \in 0 .. y.rows - 1 /\ row[p].value \in Int
  BY <1>2 DEF EntryBelow
<1>4. ss = [p \in 1 .. n |-> Scaled(row[p].value, Row(y, row[p].column))]
  BY DEF Summands
<1>5. ProductsIn(x, y, k) = FlattenSeq(ss)
  <2>1. ProductsIn(x, y, k)
          = FlattenSeq([p \in DOMAIN row |->
              [t \in DOMAIN Row(y, row[p].column) |->
                [column |-> Row(y, row[p].column)[t].column,
                 value  |-> row[p].value * Row(y, row[p].column)[t].value]]])
    BY DEF ProductsIn, scalarProducts
  <2>2. ss = [p \in DOMAIN row |->
              [t \in DOMAIN Row(y, row[p].column) |->
                [column |-> Row(y, row[p].column)[t].column,
                 value  |-> row[p].value * Row(y, row[p].column)[t].value]]]
    BY <1>2, <1>4 DEF Scaled
  <2>3. QED
    BY <2>1, <2>2
<1> HIDE DEF ss, n, row
<1>6. ASSUME NEW p \in 1 .. n
      PROVE  /\ ss[p] \in Seq(T)
             /\ \A c : ColumnSum(ss[p], c) = row[p].value * ColumnSum(Row(y, row[p].column), c)
  <2> DEFINE v == row[p].value
             bRow == Row(y, row[p].column)
  <2>1. v \in Int /\ bRow \in Seq(T) /\ ss[p] = Scaled(v, bRow)
    BY <1>1, <1>3, <1>4
  <2> HIDE DEF v, bRow
  <2>2. /\ Scaled(v, bRow) \in Seq(T)
        /\ \A c : ColumnSum(Scaled(v, bRow), c) = v * ColumnSum(bRow, c)
    BY <1>1, <2>1, ScaledIs
  <2>3. QED
    BY <2>1, <2>2 DEF v, bRow
<1>7. ss \in Seq(Seq(T)) /\ Len(ss) = n
  <2> HIDE DEF T
  <2>1. ss = [p \in 1 .. n |-> ss[p]]
    BY <1>4
  <2>2. QED
    BY <1>2, <1>6, <2>1
<1>8. ss \in Seq(Seq(Entry))
  <2>1. \A p \in 1 .. n : ss[p] \in Seq(Entry)
    BY <1>1, <1>6, BelowIsEntry
  <2>2. ss = [p \in 1 .. n |-> ss[p]]
    BY <1>4
  <2>3. QED
    BY <1>2, <2>1, <2>2
<1>9. QED
  BY <1>2, <1>3, <1>5, <1>6, <1>7, <1>8 DEF ss, n, row, Contributes

LEMMA ProductsInType ==
  ASSUME NEW x, NEW y, Multipliable(x, y), NEW k \in 0 .. x.rows - 1
  PROVE  ProductsIn(x, y, k) \in Seq(EntryBelow(y.cols))
<1> DEFINE ss == Summands(x, y, k)
           T == EntryBelow(y.cols)
<1>1. ProductsIn(x, y, k) = FlattenSeq(ss) /\ ss \in Seq(Seq(T))
  BY SummandsAre
<1> HIDE DEF ss, T
<1>2. FlattenSeq(ss) \in Seq(T)
  BY <1>1, FlattenType
<1>3. QED
  BY <1>1, <1>2 DEF T

\* By the columns of x, or by the entries of a row: the same sum.
LEMMA ProductValue ==
  ASSUME NEW x, NEW y, Multipliable(x, y), NEW k \in 0 .. x.rows - 1, NEW c
  PROVE  ColumnSum(ProductsIn(x, y, k), c)
           = SumOf([j \in 1 .. y.rows |-> ValueAt(x, k, j - 1) * ValueAt(y, j - 1, c)])
<1> DEFINE row == Row(x, k)
           n == Len(row)
           N == y.rows
           ss == Summands(x, y, k)
           V(j) == ColumnSum(Row(y, j - 1), c)
           M == [at \in (1 .. n) \X (1 .. N) |->
                  IF row[at[1]].column = at[2] - 1 THEN row[at[1]].value * V(at[2]) ELSE 0]
           byEntry == [p \in 1 .. n |-> SumUp([j \in 1 .. N |-> M[<<p, j>>]], N)]
           byColumn == [j \in 1 .. N |-> SumUp([p \in 1 .. n |-> M[<<p, j>>]], n)]
<1>1. /\ ProductsIn(x, y, k) = FlattenSeq(ss)
      /\ ss \in Seq(Seq(Entry)) /\ Len(ss) = n /\ n \in Nat
      /\ \A p \in 1 .. n :
           /\ row[p].column \in 0 .. N - 1
           /\ row[p].value \in Int
           /\ ColumnSum(ss[p], c) = row[p].value * ColumnSum(Row(y, row[p].column), c)
  <2>1. /\ ProductsIn(x, y, k) = FlattenSeq(ss)
        /\ ss \in Seq(Seq(Entry)) /\ Len(ss) = n /\ n \in Nat
        /\ \A p \in 1 .. n :
             /\ row[p].column \in 0 .. N - 1
             /\ row[p].value \in Int
             /\ \A d : ColumnSum(ss[p], d) = row[p].value * ColumnSum(Row(y, row[p].column), d)
    <3>1. /\ ProductsIn(x, y, k) = FlattenSeq(ss)
          /\ ss \in Seq(Seq(Entry)) /\ Len(ss) = n /\ n \in Nat
      BY SummandsAre
    <3>2. ASSUME NEW p \in 1 .. n
          PROVE  /\ row[p].column \in 0 .. N - 1
                 /\ row[p].value \in Int
      BY SummandsAre
    <3>3. ASSUME NEW p \in 1 .. n, NEW d
          PROVE  ColumnSum(ss[p], d) = row[p].value * ColumnSum(Row(y, row[p].column), d)
      <4>1. Contributes(x, y, k, p)
        BY SummandsAre
      <4>2. QED
        BY <4>1 DEF Contributes
    <3> HIDE DEF row, n, N, ss
    <3>4. QED
      BY <3>1, <3>2, <3>3
  <2> HIDE DEF row, n, N, ss
  <2>2. QED
    BY <2>1
<1>2. /\ N \in Nat /\ row \in Seq(Entry)
      /\ \A j \in 0 .. N - 1 : Row(y, j) \in Seq(Entry)
  BY MultipliableIs
<1>3. \A j \in 1 .. N : V(j) \in Int
  <2>1. ASSUME NEW j \in 1 .. N PROVE V(j) \in Int
    <3>1. Row(y, j - 1) \in Seq(Entry)
      BY <1>2
    <3>2. QED
      BY <3>1, ColumnSumInt
  <2>2. QED
    BY <2>1
<1> HIDE DEF row, n, N, ss, V
<1>4. \A p \in 1 .. n, j \in 1 .. N :
        M[<<p, j>>] = IF row[p].column = j - 1 THEN row[p].value * V(j) ELSE 0
  OBVIOUS
<1> HIDE DEF M
<1>5. \A p \in 1 .. n, j \in 1 .. N : M[<<p, j>>] \in Int
  <2>1. ASSUME NEW p \in 1 .. n, NEW j \in 1 .. N PROVE M[<<p, j>>] \in Int
    <3> DEFINE v == row[p].value * V(j)
    <3>1. v \in Int
      BY <1>1, <1>3
    <3>2. M[<<p, j>>] = IF row[p].column = j - 1 THEN v ELSE 0
      BY <1>4
    <3> HIDE DEF v
    <3>3. QED
      BY <3>1, <3>2
  <2>2. QED
    BY <2>1
<1>6. SumUp(byEntry, n) = SumUp(byColumn, N)
  BY ONLY <1>1, <1>2, <1>5, SumExchange
<1>7. ASSUME NEW p \in 1 .. n
      PROVE  byEntry[p] = ColumnSum(ss[p], c)
  <2> DEFINE q == row[p].column + 1
             t == [j \in 1 .. N |-> M[<<p, j>>]]
  <2>1. q \in 1 .. N /\ q - 1 = row[p].column
    <3> DEFINE e == row[p].column
    <3>1. e \in 0 .. N - 1 /\ N \in Nat
      BY <1>1, <1>2
    <3> HIDE DEF e
    <3>2. e + 1 \in 1 .. N /\ (e + 1) - 1 = e
      BY ONLY <3>1
    <3>3. QED
      BY <3>2 DEF e
  <2> HIDE DEF q
  <2>2. /\ t \in Seq(Int) /\ Len(t) = N
        /\ \A j \in 1 .. N : t[j] = IF row[p].column = j - 1 THEN row[p].value * V(j) ELSE 0
    BY <1>2, <1>4, <1>5
  <2>3. byEntry[p] = SumUp(t, N) /\ SumUp(t, N) = SumOf(t)
    <3>1. [j \in 1 .. N |-> t[j]] = t
      OBVIOUS
    <3>2. byEntry[p] = SumUp(t, N)
      OBVIOUS
    <3> HIDE DEF t, byEntry
    <3>3. QED
      BY <3>1, <3>2 DEF SumUp
  <2> HIDE DEF t, byEntry
  <2>4. \A j \in 1 .. N : j # q => t[j] = 0
    <3>1. \A j \in 1 .. N : j # q => row[p].column # j - 1
      BY <1>2, <2>1
    <3>2. QED
      BY <2>2, <3>1
  <2>5. SumOf(t) = t[q]
    BY <2>1, <2>2, <2>4, SumOfOne
  <2>6. t[q] = row[p].value * V(q)
    BY <2>1, <2>2
  <2>7. V(q) = ColumnSum(Row(y, row[p].column), c)
    BY <2>1 DEF V
  <2>8. QED
    BY <1>1, <2>3, <2>5, <2>6, <2>7
<1>8. ASSUME NEW j \in 1 .. N
      PROVE  byColumn[j] = ColumnSum(row, j - 1) * V(j)
  <2> DEFINE s == TermsIn(row, j - 1)
             u == [p \in 1 .. n |-> M[<<p, j>>]]
             v == V(j)
  <2>1. /\ Ints(s, n) /\ ColumnSum(row, j - 1) = SumUp(s, n)
        /\ \A p \in 1 .. n : s[p] = IF row[p].column = j - 1 THEN row[p].value ELSE 0
    BY <1>2, TermsAre DEF n
  <2>2. \A p \in 1 .. n : u[p] = IF row[p].column = j - 1 THEN row[p].value * v ELSE 0
    BY <1>4
  <2>3. byColumn[j] = SumUp(u, n)
    OBVIOUS
  <2>4. v \in Int /\ SumUp(s, n) \in Int
    <3>1. n \in 0 .. n
      BY <1>1
    <3> HIDE DEF s
    <3>2. QED
      BY <1>1, <1>3, <2>1, <3>1, SumRec
  <2> HIDE DEF s, u, v, byColumn
  <2>5. \A p \in 1 .. n : u[p] = v * s[p]
    <3>1. \A p \in 1 .. n : row[p].value * v = v * row[p].value
      BY <1>1, <2>4
    <3>2. QED
      BY <2>1, <2>2, <2>4, <3>1
  <2>6. SumUp(u, n) = v * SumUp(s, n)
    BY <1>1, <2>1, <2>4, <2>5, SumScaled
  <2>7. v * SumUp(s, n) = SumUp(s, n) * v
    BY <2>4
  <2>8. QED
    BY <2>1, <2>3, <2>6, <2>7 DEF v
<1>9. ColumnSum(FlattenSeq(ss), c) = SumUp([p \in 1 .. n |-> ColumnSum(ss[p], c)], n)
  BY <1>1, ColumnSumOfFlat
<1>10. [p \in 1 .. n |-> ColumnSum(ss[p], c)] = byEntry
  <2>1. byEntry = [p \in 1 .. n |-> byEntry[p]]
    OBVIOUS
  <2> HIDE DEF byEntry
  <2>2. QED
    BY <1>7, <2>1
<1>11. SumUp(byColumn, N) = SumOf([j \in 1 .. N |-> ValueAt(x, k, j - 1) * ValueAt(y, j - 1, c)])
  <2>1. \A j \in 1 .. N : byColumn[j] = ValueAt(x, k, j - 1) * ValueAt(y, j - 1, c)
    BY <1>8 DEF ValueAt, V, row
  <2> HIDE DEF byColumn
  <2>2. [j \in 1 .. N |-> byColumn[j]]
          = [j \in 1 .. N |-> ValueAt(x, k, j - 1) * ValueAt(y, j - 1, c)]
    BY <2>1
  <2>3. QED
    BY <2>2 DEF SumUp
<1>12. QED
  <2> HIDE DEF byEntry, byColumn
  <2>1. QED
    BY <1>1, <1>6, <1>9, <1>10, <1>11 DEF N

\* A row of the product, as every program computes it.
ResultRow(x, y, k) == finishedRow(accumulated(ProductsIn(x, y, k)))

LEMMA ResultRowIs ==
  ASSUME NEW x, NEW y, Multipliable(x, y), NEW k \in 0 .. x.rows - 1
  PROVE  /\ ResultRow(x, y, k) \in Seq(Entry)
         /\ ResultRow(x, y, k) \in Seq(EntryBelow(y.cols))
         /\ Tidy(ResultRow(x, y, k))
         /\ \A c : ColumnSum(ResultRow(x, y, k), c)
              = SumOf([j \in 1 .. y.rows |-> ValueAt(x, k, j - 1) * ValueAt(y, j - 1, c)])
<1>1. y.cols \in Int
  BY MultipliableIs
<1>2. ProductsIn(x, y, k) \in Seq(EntryBelow(y.cols))
  BY ProductsInType
<1> DEFINE products == ProductsIn(x, y, k)
<1>3. /\ ResultRow(x, y, k) \in Seq(Entry)
      /\ ResultRow(x, y, k) \in Seq(EntryBelow(y.cols))
      /\ Tidy(ResultRow(x, y, k))
      /\ \A c : ColumnSum(ResultRow(x, y, k), c) = ColumnSum(products, c)
  BY <1>1, <1>2, FinishedIs DEF ResultRow
<1>4. QED
  BY <1>3, ProductValue

\* The serial program computes the product.
LEMMA SerialIs ==
  ASSUME NEW x, NEW y, Multipliable(x, y)
  PROVE  /\ serialSpgemm(x, y) \in AnyCsr
         /\ ValidOffsets(serialSpgemm(x, y))
         /\ serialSpgemm(x, y).rows = x.rows
         /\ serialSpgemm(x, y).cols = y.cols
         /\ \A k \in 0 .. x.rows - 1 : Row(serialSpgemm(x, y), k) = ResultRow(x, y, k)
         /\ IsProduct(serialSpgemm(x, y), x, y)
<1> DEFINE n == x.rows
           ss == [k \in 1 .. n |-> ResultRow(x, y, k - 1)]
           c == serialSpgemm(x, y)
<1>1. n \in Nat /\ y.cols \in Nat
  BY MultipliableIs
<1>2. ASSUME NEW k \in 1 .. n PROVE ResultRow(x, y, k - 1) \in Seq(Entry)
  <2>1. k - 1 \in 0 .. x.rows - 1
    BY <1>1
  <2>2. QED
    BY <2>1, ResultRowIs
<1>3. c = CsrMatrix(ss, y.cols)
  BY DEF serialSpgemm, ResultRow, ProductsIn
<1> HIDE DEF c
<1>4. ss \in Seq(Seq(Entry)) /\ Len(ss) = n /\ \A k \in 1 .. n : ss[k] = ResultRow(x, y, k - 1)
  <2> HIDE DEF n
  <2>1. QED
    BY <1>1, <1>2
<1> HIDE DEF ss
<1>5. /\ c \in AnyCsr /\ ValidOffsets(c) /\ c.rows = n /\ c.cols = y.cols
      /\ \A k \in 1 .. n : Row(c, k - 1) = ss[k]
  BY <1>1, <1>3, <1>4, CsrMatrixIs
<1>6. ASSUME NEW k \in 0 .. n - 1 PROVE Row(c, k) = ResultRow(x, y, k)
  <2>1. k + 1 \in 1 .. n /\ k + 1 - 1 = k
    BY <1>1
  <2> HIDE DEF n
  <2>4. \A i \in 1 .. n : Row(c, i - 1) = ResultRow(x, y, i - 1)
    BY ONLY <1>4, <1>5
  <2>2. Row(c, k + 1 - 1) = ResultRow(x, y, k + 1 - 1)
    BY ONLY <2>4, <2>1
  <2>3. QED
    BY <2>1, <2>2
<1>7. IsProduct(c, x, y)
  <2>1. ASSUME NEW k \in 0 .. x.rows - 1, NEW column
        PROVE  ValueAt(c, k, column)
                 = SumOf([j \in 1 .. y.rows |-> ValueAt(x, k, j - 1) * ValueAt(y, j - 1, column)])
    <3>1. ValueAt(c, k, column) = ColumnSum(ResultRow(x, y, k), column)
      BY <1>6 DEF ValueAt
    <3>2. QED
      BY <3>1, ResultRowIs
  <2>2. QED
    BY <1>5, <2>1 DEF IsProduct
<1>8. QED
  BY <1>5, <1>6, <1>7 DEF c, n

-----------------------------------------------------------------------------
(* Rows in order, without zeros                                            *)

\* Sequences by their elements.
LEMMA SeqBy ==
  ASSUME NEW S, NEW n \in Nat, NEW s, s = [k \in 1 .. n |-> s[k]],
         \A k \in 1 .. n : s[k] \in S
  PROVE  s \in Seq(S) /\ Len(s) = n /\ DOMAIN s = 1 .. n
OBVIOUS

-----------------------------------------------------------------------------
(* Tidy rows                                                               *)

SameSums(s, t) == \A c \in Nat : ColumnSum(s, c) = ColumnSum(t, c)

\* What a tidy row stores, one with the same sums stores as well.
LEMMA TidyStores ==
  ASSUME NEW s \in Seq(Entry), NEW t \in Seq(Entry), Tidy(s), Tidy(t), SameSums(s, t)
  PROVE  \A i \in 1 .. Len(s) : \E j \in 1 .. Len(t) : t[j] = s[i]
<1> SUFFICES ASSUME NEW i \in 1 .. Len(s)
             PROVE  \E j \in 1 .. Len(t) : t[j] = s[i]
  OBVIOUS
<1>1. /\ DOMAIN s = 1 .. Len(s) /\ DOMAIN t = 1 .. Len(t)
      /\ \A k \in 1 .. Len(s) : s[k] \in Entry
      /\ \A k \in 1 .. Len(t) : t[k] \in Entry
  BY RowParts
<1>2. InOrder(s) /\ InOrder(t)
  BY DEF Tidy
<1>3. ColumnSum(s, s[i].column) = s[i].value /\ s[i].value # 0 /\ s[i].column \in Nat
  <2>1. s[i].value # 0
    BY <1>1 DEF Tidy
  <2>2. s[i].column \in Nat
    BY <1>1 DEF Entry
  <2>3. QED
    BY <1>1, <1>2, <2>1, <2>2, ValueOfRow
<1>4. ColumnSum(t, s[i].column) = s[i].value
  BY <1>3 DEF SameSums
<1>5. PICK j \in DOMAIN t : t[j].column = s[i].column
  BY <1>2, <1>3, <1>4, ValueOfRow
<1>6. ColumnSum(t, t[j].column) = t[j].value
  BY <1>2, ValueOfRow
<1>7. t[j].value = s[i].value
  BY <1>4, <1>5, <1>6
<1>8. t[j] = s[i]
  <2>1. t[j] \in Entry /\ s[i] \in Entry
    BY <1>1, <1>5
  <2>2. \A e, f \in Entry : e.column = f.column /\ e.value = f.value => e = f
    <3>1. \A e \in Entry : e = [column |-> e.column, value |-> e.value]
      BY DEF Entry
    <3> SUFFICES ASSUME NEW e \in Entry, NEW f \in Entry,
                        e.column = f.column, e.value = f.value
                 PROVE  e = f
      OBVIOUS
    <3>2. /\ e = [column |-> e.column, value |-> e.value]
          /\ f = [column |-> f.column, value |-> f.value]
      BY <3>1
    <3>3. QED
      BY <3>2
  <2>3. QED
    BY <1>5, <1>7, <2>1, <2>2
<1>9. QED
  BY <1>1, <1>8

Begins(s, t) == \A i \in 1 .. Len(s) : i <= Len(t) /\ s[i] = t[i]

LEMMA TidyBegins ==
  ASSUME NEW s \in Seq(Entry), NEW t \in Seq(Entry), Tidy(s), Tidy(t), SameSums(s, t)
  PROVE  Begins(s, t)
<1> DEFINE T == {i \in 1 .. Len(s) : ~(i <= Len(t) /\ s[i] = t[i])}
<1>1. /\ DOMAIN s = 1 .. Len(s) /\ DOMAIN t = 1 .. Len(t)
      /\ Len(s) \in Nat /\ Len(t) \in Nat
      /\ \A k \in 1 .. Len(s) : s[k].column \in Nat
      /\ \A k \in 1 .. Len(t) : t[k].column \in Nat
  <2>1. /\ DOMAIN s = 1 .. Len(s) /\ DOMAIN t = 1 .. Len(t)
        /\ Len(s) \in Nat /\ Len(t) \in Nat
        /\ \A k \in 1 .. Len(s) : s[k] \in Entry
        /\ \A k \in 1 .. Len(t) : t[k] \in Entry
    BY RowParts
  <2>2. \A e \in Entry : e.column \in Nat
    BY DEF Entry
  <2>3. QED
    BY <2>1, <2>2
<1>2. /\ \A i \in 1 .. Len(s) : \E j \in 1 .. Len(t) : t[j] = s[i]
      /\ \A i \in 1 .. Len(t) : \E j \in 1 .. Len(s) : s[j] = t[i]
  <2>1. SameSums(t, s)
    BY DEF SameSums
  <2>2. QED
    BY <2>1, TidyStores
<1>3. /\ \A p, q \in 1 .. Len(s) : p < q => s[p].column < s[q].column
      /\ \A p, q \in 1 .. Len(t) : p < q => t[p].column < t[q].column
  BY <1>1 DEF Tidy, InOrder
<1>4. T \in SUBSET Nat
  OBVIOUS
<1>5. ASSUME NEW i \in T, \A m \in T : i <= m
      PROVE  FALSE
  <2>1. i \in 1 .. Len(s) /\ ~(i <= Len(t) /\ s[i] = t[i])
    OBVIOUS
  <2>2. ASSUME NEW m \in 1 .. i - 1 PROVE m \in 1 .. Len(s) /\ m \in 1 .. Len(t) /\ s[m] = t[m]
    <3>1. m \in 1 .. Len(s) /\ ~(i <= m)
      BY <2>1
    <3>2. m \notin T
      BY <1>5, <3>1
    <3>3. QED
      BY <1>1, <3>1, <3>2
  <2> HIDE DEF T
  <2>3. PICK j \in 1 .. Len(t) : t[j] = s[i]
    BY <1>2, <2>1
  <2>4. ~(j < i)
    <3>1. SUFFICES ASSUME j < i PROVE FALSE
      OBVIOUS
    <3>2. j \in 1 .. i - 1
      BY <2>1, <2>3, <3>1
    <3>3. s[j] = s[i] /\ j \in 1 .. Len(s)
      BY <2>2, <2>3, <3>2
    <3>4. s[j].column < s[i].column /\ s[i].column \in Nat
      BY <1>1, <1>3, <2>1, <3>1, <3>3
    <3>5. QED
      BY <3>3, <3>4
  <2>5. i < j /\ i \in 1 .. Len(t)
    BY <1>1, <2>1, <2>3, <2>4
  <2>6. t[i].column < s[i].column
    BY <1>3, <2>3, <2>5
  <2>7. PICK k \in 1 .. Len(s) : s[k] = t[i]
    BY <1>2, <2>5
  <2>8. ~(k < i)
    <3>1. SUFFICES ASSUME k < i PROVE FALSE
      OBVIOUS
    <3>2. k \in 1 .. i - 1
      BY <2>1, <2>7, <3>1
    <3>3. t[k] = t[i] /\ k \in 1 .. Len(t)
      BY <2>2, <2>7, <3>2
    <3>4. t[k].column < t[i].column /\ t[i].column \in Nat
      BY <1>1, <1>3, <2>5, <3>1, <3>3
    <3>5. QED
      BY <3>3, <3>4
  <2>9. k = i \/ i < k
    BY <2>1, <2>7, <2>8
  <2>10. s[i].column \in Nat /\ s[k].column \in Nat /\ t[i].column \in Nat
    BY <1>1, <2>1, <2>5, <2>7
  <2>11. ~(s[k].column < s[i].column)
    BY <1>3, <2>1, <2>7, <2>9, <2>10
  <2>12. QED
    BY <2>6, <2>7, <2>11
<1>6. T = {}
  <2> HIDE DEF T
  <2>1. T # {} => \E n \in T : \A m \in T : n <= m
    BY <1>4, FirstFailure
  <2>2. QED
    BY <1>5, <2>1
<1>7. QED
  BY <1>6 DEF Begins

\* A tidy row is determined by what its columns add up to.
LEMMA TidySame ==
  ASSUME NEW s \in Seq(Entry), NEW t \in Seq(Entry), Tidy(s), Tidy(t), SameSums(s, t)
  PROVE  s = t
<1>1. Begins(s, t) /\ Begins(t, s)
  <2>1. SameSums(t, s)
    BY DEF SameSums
  <2>2. QED
    BY <2>1, TidyBegins
<1>2. Len(s) \in Nat /\ Len(t) \in Nat
  BY RowParts
<1>3. Len(s) = Len(t)
  <2>1. Len(s) # 0 => Len(s) <= Len(t)
    BY <1>1, <1>2 DEF Begins
  <2>2. Len(t) # 0 => Len(t) <= Len(s)
    BY <1>1, <1>2 DEF Begins
  <2>3. QED
    BY <1>2, <2>1, <2>2
<1>4. \A i \in 1 .. Len(s) : s[i] = t[i]
  BY <1>1 DEF Begins
<1>5. QED
  BY <1>3, <1>4

-----------------------------------------------------------------------------
(* Sums over ranks and blocks                                              *)

\* A sum with one term.
LEMMA SumSingle ==
  ASSUME NEW s, NEW N \in Nat, NEW k \in 1 .. N, s[k] \in Int,
         \A i \in 1 .. N : i # k => s[i] = 0
  PROVE  SumUp(s, N) = s[k]
<1> DEFINE t == [i \in 1 .. N |-> s[i]]
<1>1. \A i \in 1 .. N : s[i] \in Int
  OBVIOUS
<1>2. t \in Seq(Int) /\ Len(t) = N /\ \A i \in 1 .. N : t[i] = s[i]
  BY <1>1
<1>3. SumUp(s, N) = SumOf(t)
  BY DEF SumUp
<1> HIDE DEF t
<1>4. k \in 1 .. Len(t) /\ \A i \in 1 .. Len(t) : i # k => t[i] = 0
  BY <1>2
<1>5. SumOf(t) = t[k]
  BY <1>2, <1>4, SumOfOne
<1>6. QED
  BY <1>2, <1>3, <1>5

LEMMA SumZero ==
  ASSUME NEW s, NEW N \in Nat, \A i \in 1 .. N : s[i] = 0
  PROVE  SumUp(s, N) = 0
<1> DEFINE t == [i \in 1 .. N |-> s[i]]
<1>1. t \in Seq(Int) /\ Len(t) = N /\ \A i \in 1 .. N : t[i] = 0
  OBVIOUS
<1>2. SumUp(s, N) = SumOf(t)
  BY DEF SumUp
<1> HIDE DEF t
<1>3. QED
  BY <1>1, <1>2, SumOfNone

\* f picks each number up to P once.
OneToOne(f, N, P) ==
  /\ \A i \in 1 .. N : f[i] \in 1 .. P
  /\ \A j \in 1 .. P : \E i \in 1 .. N : f[i] = j /\ \A h \in 1 .. N : f[h] = j => h = i

\* The order of the terms does not matter.
LEMMA SumPermuted ==
  ASSUME NEW s, NEW N \in Nat, NEW P \in Nat, NEW f, Ints(s, P), OneToOne(f, N, P)
  PROVE  SumUp([i \in 1 .. N |-> s[f[i]]], N) = SumUp(s, P)
<1> DEFINE M == [ij \in (1 .. N) \X (1 .. P) |-> IF f[ij[1]] = ij[2] THEN s[ij[2]] ELSE 0]
           L(i) == [j \in 1 .. P |-> M[<<i, j>>]]
           R(j) == [i \in 1 .. N |-> M[<<i, j>>]]
<1>1. \A i \in 1 .. N, j \in 1 .. P : M[<<i, j>>] = IF f[i] = j THEN s[j] ELSE 0
  OBVIOUS
<1>2. \A i \in 1 .. N, j \in 1 .. P : M[<<i, j>>] \in Int
  <2>1. ASSUME NEW i \in 1 .. N, NEW j \in 1 .. P PROVE M[<<i, j>>] \in Int
    <3>1. s[j] \in Int
      BY DEF Ints
    <3>2. M[<<i, j>>] = IF f[i] = j THEN s[j] ELSE 0
      BY <1>1
    <3> HIDE DEF M
    <3>3. QED
      BY <3>1, <3>2
  <2>2. QED
    BY <2>1
<1>3. \A i \in 1 .. N : \A j \in 1 .. P : L(i)[j] = IF f[i] = j THEN s[j] ELSE 0
  BY <1>1
<1>4. \A j \in 1 .. P : \A i \in 1 .. N : R(j)[i] = IF f[i] = j THEN s[j] ELSE 0
  BY <1>1
<1>5. SumUp([i \in 1 .. N |-> SumUp(L(i), P)], N) = SumUp([j \in 1 .. P |-> SumUp(R(j), N)], P)
  <2> HIDE DEF M
  <2>1. QED
    BY <1>2, SumExchange
<1> HIDE DEF M, L, R
<1>6. ASSUME NEW i \in 1 .. N PROVE SumUp(L(i), P) = s[f[i]]
  <2> DEFINE k == f[i]
             l == L(i)
  <2>1. k \in 1 .. P
    BY DEF OneToOne
  <2>2. s[k] \in Int
    BY <2>1 DEF Ints
  <2>3. \A j \in 1 .. P : l[j] = IF j = k THEN s[k] ELSE 0
    BY <1>3
  <2> HIDE DEF k, l
  <2>4. SumUp(l, P) = l[k]
    BY <2>1, <2>2, <2>3, SumSingle
  <2>5. QED
    BY <2>1, <2>3, <2>4 DEF k, l
<1>7. ASSUME NEW j \in 1 .. P PROVE SumUp(R(j), N) = s[j]
  <2>1. PICK k \in 1 .. N : f[k] = j /\ \A h \in 1 .. N : f[h] = j => h = k
    BY DEF OneToOne
  <2> DEFINE l == R(j)
  <2>2. s[j] \in Int
    BY DEF Ints
  <2>3. \A i \in 1 .. N : l[i] = IF i = k THEN s[j] ELSE 0
    BY <1>4, <2>1
  <2> HIDE DEF l
  <2>4. SumUp(l, N) = l[k]
    BY <2>2, <2>3, SumSingle
  <2>5. QED
    BY <2>3, <2>4 DEF l
<1>8. SumUp([i \in 1 .. N |-> SumUp(L(i), P)], N) = SumUp([i \in 1 .. N |-> s[f[i]]], N)
  <2> DEFINE x == [i \in 1 .. N |-> SumUp(L(i), P)]
             y == [i \in 1 .. N |-> s[f[i]]]
  <2>1. \A i \in 1 .. N : x[i] = y[i]
    BY <1>6
  <2> HIDE DEF x, y
  <2>2. SumUp(x, N) = SumUp(y, N)
    BY <2>1, SumSame
  <2>3. QED
    BY <2>2 DEF x, y
<1>9. SumUp([j \in 1 .. P |-> SumUp(R(j), N)], P) = SumUp(s, P)
  <2> DEFINE x == [j \in 1 .. P |-> SumUp(R(j), N)]
  <2>1. \A j \in 1 .. P : x[j] = s[j]
    BY <1>7
  <2> HIDE DEF x
  <2>2. SumUp(x, P) = SumUp(s, P)
    BY <2>1, SumSame
  <2>3. QED
    BY <2>2 DEF x
<1>10. QED
  BY <1>5, <1>8, <1>9

-----------------------------------------------------------------------------
(* Rows put together                                                       *)

\* Sequences put one after the other are as long as all of them.
LEMMA FlatLength ==
  ASSUME NEW T, NEW ss \in Seq(Seq(T))
  PROVE  Len(FlattenSeq(ss)) = SumUp([k \in 1 .. Len(ss) |-> Len(ss[k])], Len(ss))
<1> DEFINE n == Len(ss)
           lengths == [k \in DOMAIN ss |-> Len(ss[k])]
<1>1. n \in Nat /\ DOMAIN ss = 1 .. n /\ \A k \in 1 .. n : ss[k] \in Seq(T)
  BY RowParts
<1>2. lengths \in Seq(Int) /\ Len(lengths) = n
  <2>1. \A k \in 1 .. n : Len(ss[k]) \in Int
    BY <1>1
  <2> HIDE DEF n
  <2>2. QED
    BY <1>1, <2>1
<1>3. lengths = [k \in 1 .. n |-> Len(ss[k])]
  BY <1>1
<1> HIDE DEF lengths
<1>4. PICK f : IsSum(f, lengths) /\ SumOf(lengths) = f[Len(lengths)]
  BY <1>2, SumIs
<1>5. Len(FlattenSeq(ss)) = f[n]
  BY <1>4, FlatParts DEF lengths
<1>6. SumOf(lengths) = SumUp(lengths, n)
  BY <1>2, SumOfSeq
<1>7. QED
  BY <1>2, <1>3, <1>4, <1>5, <1>6

\* Rows put one after the other add up.
LEMMA ColumnSumOfTwo ==
  ASSUME NEW s \in Seq(Entry), NEW t \in Seq(Entry), NEW c
  PROVE  ColumnSum(s \o t, c) = ColumnSum(s, c) + ColumnSum(t, c)
<1> DEFINE m == Len(s)
           n == Len(t)
           x == TermsIn(s, c)
           y == TermsIn(t, c)
           z == TermsIn(s \o t, c)
<1>1. /\ m \in Nat /\ n \in Nat
      /\ s \o t \in Seq(Entry) /\ Len(s \o t) = m + n
      /\ \A i \in 1 .. m : (s \o t)[i] = s[i]
      /\ \A i \in 1 .. n : (s \o t)[m + i] = t[i]
  BY RowParts
<1>2. /\ Ints(x, m) /\ ColumnSum(s, c) = SumUp(x, m)
      /\ \A i \in 1 .. m : x[i] = IF s[i].column = c THEN s[i].value ELSE 0
  BY TermsAre
<1>3. /\ Ints(y, n) /\ ColumnSum(t, c) = SumUp(y, n)
      /\ \A i \in 1 .. n : y[i] = IF t[i].column = c THEN t[i].value ELSE 0
  BY TermsAre
<1>4. /\ Ints(z, m + n) /\ ColumnSum(s \o t, c) = SumUp(z, m + n)
      /\ \A i \in 1 .. m + n : z[i] = IF (s \o t)[i].column = c THEN (s \o t)[i].value ELSE 0
  <2> DEFINE st == s \o t
             N == m + n
  <2>1. st \in Seq(Entry) /\ Len(st) = N /\ z = TermsIn(st, c)
    BY <1>1
  <2> HIDE DEF st, N, z
  <2>2. /\ Ints(z, N) /\ ColumnSum(st, c) = SumUp(z, N)
        /\ \A i \in 1 .. N : z[i] = IF st[i].column = c THEN st[i].value ELSE 0
    BY <2>1, TermsAre
  <2>3. QED
    BY <2>2 DEF st, N
<1> HIDE DEF x, y, z, m, n
<1>5. \A i \in 1 .. m : z[i] = x[i]
  <2>1. \A i \in 1 .. m : i \in 1 .. m + n
    BY <1>1
  <2>2. QED
    BY <1>1, <1>2, <1>4, <2>1
<1>6. Stretch(y, n, z, m)
  <2>1. \A i \in 1 .. n : m + i \in 1 .. m + n
    BY <1>1
  <2>2. \A i \in 1 .. n : y[i] = z[m + i]
    BY <1>1, <1>3, <1>4, <2>1
  <2>3. QED
    BY <2>2 DEF Stretch
<1>7. SumUp(z, m) = SumUp(x, m)
  BY <1>5, SumSame
<1>8. SumUp(y, n) = SumUp(z, m + n) - SumUp(z, m)
  <2> DEFINE last == m + n
  <2>1. last \in Nat /\ last \in 0 .. last /\ last = m + n /\ Ints(z, last)
    BY <1>1, <1>4
  <2> HIDE DEF last
  <2>2. SumUp(y, n) = SumUp(z, last) - SumUp(z, m)
    BY <1>1, <1>6, <2>1, SumSegment
  <2>3. QED
    BY <2>2 DEF last
<1>9. SumUp(z, m) \in Int /\ SumUp(z, m + n) \in Int
  <2>1. m + n \in Nat /\ m \in 0 .. m + n /\ m + n \in 0 .. m + n
    BY <1>1
  <2>2. QED
    BY <1>4, <2>1, SumRec
<1>10. QED
  BY <1>2, <1>3, <1>4, <1>7, <1>8, <1>9

-----------------------------------------------------------------------------
(* Cutting and appending                                                   *)

\* What the copy of a stretch of an array holds.
LEMMA StretchIs ==
  ASSUME NEW T, NEW s \in Seq(T), NEW first \in Nat, NEW last \in Nat,
         first <= last, last <= Len(s)
  PROVE  /\ SubSeq(s, first + 1, last) \in Seq(T)
         /\ Len(SubSeq(s, first + 1, last)) = last - first
         /\ \A i \in 1 .. last - first : SubSeq(s, first + 1, last)[i] = s[first + i]
<1>1. first + 1 \in 1 .. Len(s) + 1 /\ last \in 0 .. Len(s)
  OBVIOUS
<1>2. /\ SubSeq(s, first + 1, last) \in Seq(T)
      /\ Len(SubSeq(s, first + 1, last)) =
           IF first + 1 <= last THEN last - (first + 1) + 1 ELSE 0
      /\ \A i \in 1 .. last - (first + 1) + 1 :
           SubSeq(s, first + 1, last)[i] = s[first + 1 + i - 1]
  BY ONLY <1>1, s \in Seq(T), SubSeqProperties
<1>3. last - (first + 1) + 1 = last - first /\ (first + 1 > last => last - first = 0)
  OBVIOUS
<1>4. \A i \in 1 .. last - first : first + 1 + i - 1 = first + i
  OBVIOUS
<1>5. QED
  BY <1>2, <1>3, <1>4

LEMMA ConcatParts ==
  ASSUME NEW S, NEW s \in Seq(S), NEW t \in Seq(S)
  PROVE  /\ Len(s) \in Nat /\ Len(t) \in Nat
         /\ s \o t \in Seq(S) /\ Len(s \o t) = Len(s) + Len(t)
         /\ \A i \in 1 .. Len(s) : (s \o t)[i] = s[i]
         /\ \A i \in 1 .. Len(t) : (s \o t)[Len(s) + i] = t[i]
<1> DEFINE n == Len(s)
           o == Len(t)
<1>1. n \in Nat /\ o \in Nat
  OBVIOUS
<1>2. /\ s \o t \in Seq(S) /\ Len(s \o t) = n + o
      /\ \A i \in 1 .. n + o : (s \o t)[i] = IF i <= n THEN s[i] ELSE t[i - n]
  BY ConcatProperties
<1> HIDE DEF n, o
<1>3. \A i \in 1 .. n : i \in 1 .. n + o /\ i <= n
  BY <1>1
<1>4. ASSUME NEW i \in 1 .. o PROVE (s \o t)[n + i] = t[i]
  <2>1. n + i \in 1 .. n + o /\ ~(n + i <= n) /\ n + i - n = i
    BY <1>1
  <2> DEFINE c == s \o t
  <2>2. \A k \in 1 .. n + o : c[k] = IF k <= n THEN s[k] ELSE t[k - n]
    BY <1>2
  <2> HIDE DEF c
  <2>3. PICK j : j = n + i
    OBVIOUS
  <2>4. c[j] = t[i]
    <3>1. j \in 1 .. n + o /\ ~(j <= n) /\ j - n = i
      BY <1>1, <2>3
    <3>2. QED
      BY ONLY <2>2, <3>1
  <2>5. QED
    BY <2>3, <2>4 DEF c
<1>5. QED
  BY <1>1, <1>2, <1>3, <1>4 DEF n, o

\* The pointer p of n rows and x entries, continued with that of o more rows.
Continued(c, p, n, x, q, o) ==
  /\ c \in Seq(Int) /\ Len(c) = n + 1 + o
  /\ \A i \in 1 .. n + 1 : c[i] = p[i]
  /\ \A k \in 1 .. o : c[n + 1 + k] = x + q[k + 1]

LEMMA PointerAppend ==
  ASSUME NEW p, NEW n \in Nat, NEW x, IsPointer(p, n, x),
         NEW q, NEW o \in Nat, NEW y, IsPointer(q, o, y),
         NEW c, Continued(c, p, n, x, q, o)
  PROVE  /\ IsPointer(c, n + o, x + y)
         /\ \A i \in 1 .. n + 1 : c[i] = p[i]
         /\ \A i \in 1 .. o + 1 : c[n + i] = x + q[i]
<1>1. /\ x \in Nat /\ y \in Nat
      /\ \A i \in 1 .. n + 1 : p[i] \in Int
      /\ \A i \in 1 .. o + 1 : q[i] \in Int
  <2>1. x \in Nat /\ \A i \in 1 .. n + 1 : p[i] \in 0 .. x
    BY PointerMonotone
  <2>2. y \in Nat /\ \A i \in 1 .. o + 1 : q[i] \in 0 .. y
    BY PointerMonotone
  <2>3. 0 .. x \subseteq Int /\ 0 .. y \subseteq Int
    BY <2>1, <2>2
  <2>4. QED
    BY <2>1, <2>2, <2>3
<1>4. /\ p \in Seq(Int) /\ Len(p) = n + 1 /\ p[1] = 0 /\ p[n + 1] = x
      /\ q[1] = 0 /\ q[o + 1] = y
  BY DEF IsPointer
<1> DEFINE m == n + 1
<1>5. /\ c \in Seq(Int) /\ Len(c) = m + o
      /\ \A i \in 1 .. m : c[i] = p[i]
      /\ \A i \in 1 .. o : c[m + i] = x + q[i + 1]
  BY DEF Continued
<1>6. ASSUME NEW i \in 1 .. o + 1
      PROVE  c[n + i] = x + q[i]
  <2>1. CASE i = 1
    <3>1. c[n + 1] = x
      BY <1>4, <1>5
    <3>2. QED
      BY <2>1, <3>1, <1>1, <1>4
  <2>2. CASE i # 1
    <3>1. i - 1 \in 1 .. o /\ m + (i - 1) = n + i /\ i - 1 + 1 = i
      BY <2>2
    <3>2. c[m + (i - 1)] = x + q[i - 1 + 1]
      BY <1>5, <3>1
    <3>3. QED
      BY <3>1, <3>2
  <2>3. QED
    BY <2>1, <2>2
<1>7. \A i \in 1 .. n + 1 : c[i] = p[i]
  BY <1>5
<1>8. ASSUME NEW k \in 1 .. n + o
      PROVE  c[k] <= c[k + 1]
  <2>1. CASE k <= n
    <3>1. k \in 1 .. n /\ k \in 1 .. n + 1 /\ k + 1 \in 1 .. n + 1
      BY <2>1
    <3>2. p[k] <= p[k + 1] /\ c[k] = p[k] /\ c[k + 1] = p[k + 1]
      BY <1>7, <3>1 DEF IsPointer
    <3>3. QED
      BY <3>2
  <2>2. CASE ~(k <= n)
    <3> DEFINE i == k - n
    <3>1. i \in 1 .. o /\ i \in 1 .. o + 1 /\ i + 1 \in 1 .. o + 1 /\ n + i = k /\ n + (i + 1) = k + 1
      BY <2>2
    <3> HIDE DEF i
    <3>2. q[i] <= q[i + 1] /\ q[i] \in Int /\ q[i + 1] \in Int
      BY <1>1, <3>1 DEF IsPointer
    <3>3. c[n + i] = x + q[i] /\ c[n + (i + 1)] = x + q[i + 1]
      BY <1>6, <3>1
    <3>4. c[k] = x + q[i] /\ c[k + 1] = x + q[i + 1]
      BY <3>1, <3>3
    <3>5. QED
      BY <1>1, <3>2, <3>4
  <2>3. QED
    BY <2>1, <2>2
<1>9. c[1] = 0 /\ c[n + o + 1] = x + y
  <2>1. 1 \in 1 .. n + 1 /\ o + 1 \in 1 .. o + 1 /\ n + (o + 1) = n + o + 1
    OBVIOUS
  <2>2. c[1] = p[1] /\ c[n + (o + 1)] = x + q[o + 1]
    BY <1>6, <1>7, <2>1
  <2>3. QED
    BY <1>4, <2>1, <2>2
<1>10. Len(c) = n + o + 1
  BY <1>5
<1>11. IsPointer(c, n + o, x + y)
  BY <1>5, <1>8, <1>9, <1>10 DEF IsPointer
<1>12. QED
  BY <1>6, <1>7, <1>11

LEMMA PointerSlice ==
  ASSUME NEW p, NEW N \in Nat, NEW x, IsPointer(p, N, x),
         NEW at \in Nat, NEW n \in Nat, at + n <= N,
         NEW q, q = [k \in 1 .. n + 1 |-> p[at + k] - p[at + 1]]
  PROVE  IsPointer(q, n, p[at + n + 1] - p[at + 1])
<1>1. \A k \in 1 .. n + 1 : at + k \in 1 .. N + 1
  OBVIOUS
<1>2. at + 1 \in 1 .. N + 1
  OBVIOUS
<1>3. \A i \in 1 .. N + 1 : p[i] \in Int
  BY PointerMonotone
<1>4. \A k \in 1 .. n + 1 : p[at + k] \in Int /\ p[at + 1] \in Int
  BY <1>1, <1>2, <1>3
<1> DEFINE first == p[at + 1]
<1>5. /\ q \in Seq(Int) /\ Len(q) = n + 1
      /\ \A k \in 1 .. n + 1 : q[k] = p[at + k] - first
  <2>1. q = [k \in 1 .. n + 1 |-> p[at + k] - first]
    OBVIOUS
  <2>2. \A k \in 1 .. n + 1 : p[at + k] - first \in Int
    BY <1>4
  <2>3. n + 1 \in Nat
    OBVIOUS
  <2> DEFINE l == n + 1
             v == [k \in 1 .. n + 1 |-> p[at + k] - first]
  <2> HIDE DEF first
  <2>4. \A k \in 1 .. l : v[k] \in Int /\ v[k] = p[at + k] - first
    BY <2>2
  <2>5. v \in Seq(Int) /\ Len(v) = l
    BY <2>2, <2>3
  <2>6. QED
    BY <2>1, <2>4, <2>5
<1>6. ASSUME NEW k \in 1 .. n PROVE q[k] <= q[k + 1]
  <2>1. /\ k \in 1 .. n + 1 /\ k + 1 \in 1 .. n + 1 /\ at + k \in 1 .. N
        /\ at + k + 1 = at + (k + 1)
    OBVIOUS
  <2>2. p[at + k] <= p[at + k + 1]
    BY <2>1 DEF IsPointer
  <2>3. p[at + k] <= p[at + (k + 1)]
    BY <2>1, <2>2
  <2>4. q[k] = p[at + k] - first /\ q[k + 1] = p[at + (k + 1)] - first
    BY <1>5, <2>1
  <2>5. p[at + k] \in Int /\ p[at + (k + 1)] \in Int /\ first \in Int
    BY <1>4, <2>1
  <2> HIDE DEF first
  <2>6. QED
    BY <2>3, <2>4, <2>5
<1>7. q[1] = 0 /\ q[n + 1] = p[at + n + 1] - first
  <2>1. 1 \in 1 .. n + 1 /\ n + 1 \in 1 .. n + 1 /\ at + (n + 1) = at + n + 1
    OBVIOUS
  <2>2. q[1] = first - first /\ q[n + 1] = p[at + (n + 1)] - first /\ first \in Int
    BY <1>4, <1>5, <2>1
  <2> HIDE DEF first
  <2>3. QED
    BY <2>1, <2>2
<1>8. QED
  BY <1>5, <1>6, <1>7 DEF IsPointer

LEMMA RowEqual ==
  ASSUME NEW m, NEW n, NEW k, NEW l, RowLength(m, k) = RowLength(n, l),
         \A i \in 1 .. RowLength(m, k) :
           /\ m.columns[m.rowPtr[k + 1] + i] = n.columns[n.rowPtr[l + 1] + i]
           /\ m.values[m.rowPtr[k + 1] + i] = n.values[n.rowPtr[l + 1] + i]
  PROVE  Row(m, k) = Row(n, l)
BY DEF Row, RowLength

LEMMA SliceIs ==
  ASSUME NEW m \in AnyCsr, ValidOffsets(m), NEW block,
         block.firstRow \in Nat, block.rows \in Nat,
         block.firstRow + block.rows <= m.rows
  PROVE  /\ sliceRows(m, block) \in AnyCsr
         /\ ValidOffsets(sliceRows(m, block))
         /\ sliceRows(m, block).rows = block.rows
         /\ sliceRows(m, block).cols = m.cols
         /\ Nnz(sliceRows(m, block))
              = m.rowPtr[block.firstRow + block.rows + 1] - m.rowPtr[block.firstRow + 1]
         /\ \A k \in 0 .. block.rows - 1 :
              Row(sliceRows(m, block), k) = Row(m, block.firstRow + k)
<1> DEFINE at == block.firstRow
           n == block.rows
           s == sliceRows(m, block)
           first == m.rowPtr[at + 1]
           last == m.rowPtr[at + n + 1]
           ptr == [k \in 1 .. n + 1 |-> m.rowPtr[at + k] - first]
           columns == SubSeq(m.columns, first + 1, last)
           values == SubSeq(m.values, first + 1, last)
<1>1. /\ m.rows \in Nat /\ m.cols \in Nat /\ Nnz(m) \in Nat
      /\ IsPointer(m.rowPtr, m.rows, Nnz(m))
      /\ m.columns \in Seq(Int) /\ m.values \in Seq(Int)
      /\ Len(m.columns) = Nnz(m) /\ Len(m.values) = Nnz(m)
  BY PointerOf
<1>2. s = [rows |-> n, cols |-> m.cols, rowPtr |-> ptr, columns |-> columns, values |-> values]
  BY DEF sliceRows
<1> HIDE DEF ptr, columns, values
<1>3. /\ s.rows = n /\ s.cols = m.cols /\ s.rowPtr = ptr
      /\ s.columns = columns /\ s.values = values
  BY <1>2
<1> HIDE DEF s
<1>4. at \in Nat /\ n \in Nat /\ at + n <= m.rows
  OBVIOUS
<1> HIDE DEF at, n
<1>5. \A k \in 1 .. n + 1 : at + k \in 1 .. m.rows + 1
  BY <1>1, <1>4
<1>6. /\ \A i \in 1 .. m.rows + 1 : m.rowPtr[i] \in 0 .. Nnz(m)
      /\ \A i, j \in 1 .. m.rows + 1 : i <= j => m.rowPtr[i] <= m.rowPtr[j]
  BY <1>1, PointerMonotone
<1>7. first \in 0 .. Nnz(m) /\ last \in 0 .. Nnz(m) /\ first <= last
  <2>1. at + 1 \in 1 .. m.rows + 1 /\ at + n + 1 \in 1 .. m.rows + 1 /\ at + 1 <= at + n + 1
    BY <1>1, <1>4
  <2>2. QED
    BY <1>6, <2>1
<1> USE DEF ptr, columns, values
<1>8. /\ columns \in Seq(Int) /\ Len(columns) = last - first
      /\ values \in Seq(Int) /\ Len(values) = last - first
      /\ \A i \in 1 .. last - first : /\ columns[i] = m.columns[first + i]
                                      /\ values[i] = m.values[first + i]
  <2> DEFINE c == m.columns
             v == m.values
  <2>1. c \in Seq(Int) /\ v \in Seq(Int) /\ Len(c) = Nnz(m) /\ Len(v) = Nnz(m)
    BY <1>1
  <2> HIDE DEF c, v, first, last
  <2>2. first + 1 \in 1 .. Len(c) + 1 /\ last \in 0 .. Len(c) /\ first \in Int
        /\ last - first \in Nat /\ first \in Nat /\ last \in Nat /\ first <= last
        /\ last <= Len(c) /\ last <= Len(v)
    BY <1>1, <1>7, <2>1
  <2>3. /\ SubSeq(c, first + 1, last) \in Seq(Int)
        /\ Len(SubSeq(c, first + 1, last)) = last - first
        /\ \A i \in 1 .. last - first : SubSeq(c, first + 1, last)[i] = c[first + i]
    BY ONLY <2>1, <2>2, StretchIs
  <2>4. /\ SubSeq(v, first + 1, last) \in Seq(Int)
        /\ Len(SubSeq(v, first + 1, last)) = last - first
        /\ \A i \in 1 .. last - first : SubSeq(v, first + 1, last)[i] = v[first + i]
    BY ONLY <2>1, <2>2, StretchIs
  <2>5. QED
    BY <2>3, <2>4 DEF c, v
<1>9. IsPointer(ptr, n, last - first)
  <2> DEFINE p == m.rowPtr
             N == m.rows
  <2>1. /\ N \in Nat /\ IsPointer(p, N, Nnz(m)) /\ at \in Nat /\ n \in Nat /\ at + n <= N
        /\ ptr = [k \in 1 .. n + 1 |-> p[at + k] - p[at + 1]]
    BY <1>1, <1>4
  <2> HIDE DEF p, N, ptr
  <2>2. IsPointer(ptr, n, p[at + n + 1] - p[at + 1])
    BY <2>1, PointerSlice
  <2>3. QED
    BY <2>2 DEF p
<1>10. s \in AnyCsr
  <2> HIDE DEF ptr, columns, values
  <2>1. ptr \in Seq(Int)
    BY <1>9 DEF IsPointer
  <2>2. QED
    BY <1>1, <1>2, <1>4, <1>8, <2>1 DEF AnyCsr
<1>11. Nnz(s) = last - first
  <2> HIDE DEF ptr, columns, values, first, last
  <2>1. QED
    BY <1>3, <1>8 DEF Nnz
<1>12. ValidOffsets(s)
  <2> HIDE DEF ptr, columns, values, first, last
  <2>1. QED
    BY <1>1, <1>3, <1>4, <1>8, <1>9, <1>10, <1>11, ValidOffsetsFrom
<1>13. ASSUME NEW k \in 0 .. n - 1
       PROVE  Row(s, k) = Row(m, at + k)
  <2>1. /\ k + 1 \in 1 .. n + 1 /\ k + 2 \in 1 .. n + 1
        /\ at + (k + 1) = at + k + 1 /\ at + (k + 2) = at + k + 2
        /\ at + k + 1 \in 1 .. m.rows + 1 /\ at + k + 2 \in 1 .. m.rows + 1
        /\ at + 1 \in 1 .. m.rows + 1 /\ at + n + 1 \in 1 .. m.rows + 1
        /\ at + 1 <= at + k + 1 /\ at + k + 2 <= at + n + 1
    BY <1>1, <1>4
  <2>2. s.rowPtr[k + 1] = m.rowPtr[at + k + 1] - first /\ s.rowPtr[k + 2] = m.rowPtr[at + k + 2] - first
    BY <1>3, <2>1
  <2>3. /\ m.rowPtr[at + k + 1] \in 0 .. Nnz(m) /\ m.rowPtr[at + k + 2] \in 0 .. Nnz(m)
        /\ first <= m.rowPtr[at + k + 1] /\ m.rowPtr[at + k + 2] <= last
    BY <1>6, <2>1
  <2> HIDE DEF first, last
  <2>4. RowLength(s, k) = RowLength(m, at + k)
    BY <1>1, <1>7, <2>2, <2>3 DEF RowLength
  <2>5. ASSUME NEW i \in 1 .. RowLength(s, k)
        PROVE  /\ s.columns[s.rowPtr[k + 1] + i] = m.columns[m.rowPtr[at + k + 1] + i]
               /\ s.values[s.rowPtr[k + 1] + i] = m.values[m.rowPtr[at + k + 1] + i]
    <3> DEFINE p == s.rowPtr[k + 1] + i
    <3>1. i \in 1 .. m.rowPtr[at + k + 2] - m.rowPtr[at + k + 1]
      BY <2>4 DEF RowLength
    <3>2. p \in 1 .. last - first /\ first + p = m.rowPtr[at + k + 1] + i
      <4> DEFINE u == m.rowPtr[at + k + 1]
                 v == m.rowPtr[at + k + 2]
      <4>1. /\ u \in Int /\ v \in Int /\ first \in Int /\ last \in Int
            /\ first <= u /\ v <= last /\ i \in 1 .. v - u /\ p = u - first + i
        BY <1>1, <1>7, <2>2, <2>3, <3>1
      <4> HIDE DEF u, v, p
      <4>2. p \in 1 .. last - first /\ first + p = u + i
        BY <4>1
      <4>3. QED
        BY <4>2 DEF u
    <3> HIDE DEF p, columns, values
    <3>3. QED
      BY <1>3, <1>8, <3>2 DEF p
  <2>6. QED
    BY <2>4, <2>5, RowEqual
<1>14. QED
  BY <1>3, <1>10, <1>11, <1>12, <1>13 DEF s, at, n

LEMMA AppendIs ==
  ASSUME NEW r \in AnyCsr, ValidOffsets(r), NEW block \in AnyCsr, ValidOffsets(block)
  PROVE  /\ appendCsrBlock(r, block) \in AnyCsr
         /\ ValidOffsets(appendCsrBlock(r, block))
         /\ appendCsrBlock(r, block).rows = r.rows + block.rows
         /\ appendCsrBlock(r, block).cols = block.cols
         /\ Nnz(appendCsrBlock(r, block)) = Nnz(r) + Nnz(block)
         /\ \A k \in 0 .. r.rows - 1 : Row(appendCsrBlock(r, block), k) = Row(r, k)
         /\ \A k \in 0 .. block.rows - 1 :
              Row(appendCsrBlock(r, block), r.rows + k) = Row(block, k)
<1> DEFINE c == appendCsrBlock(r, block)
           more == [k \in 1 .. block.rows |-> Last(r.rowPtr) + block.rowPtr[k + 1]]
           ptr == r.rowPtr \o more
           columns == r.columns \o block.columns
           values == r.values \o block.values
<1>1. /\ r.rows \in Nat /\ r.cols \in Nat /\ Nnz(r) \in Nat
      /\ IsPointer(r.rowPtr, r.rows, Nnz(r))
      /\ r.columns \in Seq(Int) /\ r.values \in Seq(Int)
      /\ Len(r.columns) = Nnz(r) /\ Len(r.values) = Nnz(r)
  BY PointerOf
<1>2. /\ block.rows \in Nat /\ block.cols \in Nat /\ Nnz(block) \in Nat
      /\ IsPointer(block.rowPtr, block.rows, Nnz(block))
      /\ block.columns \in Seq(Int) /\ block.values \in Seq(Int)
      /\ Len(block.columns) = Nnz(block) /\ Len(block.values) = Nnz(block)
  BY PointerOf
<1>3. /\ c = [rows |-> r.rows + block.rows, cols |-> block.cols, rowPtr |-> ptr,
              columns |-> columns, values |-> values]
      /\ c.rows = r.rows + block.rows /\ c.cols = block.cols /\ c.rowPtr = ptr
      /\ c.columns = columns /\ c.values = values
  BY DEF appendCsrBlock
<1> HIDE DEF c
<1>4. /\ \A i \in 1 .. r.rows + 1 : r.rowPtr[i] \in 0 .. Nnz(r)
      /\ \A i \in 1 .. block.rows + 1 : block.rowPtr[i] \in 0 .. Nnz(block)
  BY <1>1, <1>2, PointerMonotone
<1>5. Last(r.rowPtr) = Nnz(r)
  BY <1>1 DEF Last, IsPointer
<1>6. /\ IsPointer(ptr, r.rows + block.rows, Nnz(r) + Nnz(block))
      /\ \A i \in 1 .. r.rows + 1 : ptr[i] = r.rowPtr[i]
      /\ \A i \in 1 .. block.rows + 1 : ptr[r.rows + i] = Nnz(r) + block.rowPtr[i]
  <2> DEFINE p == r.rowPtr
             q == block.rowPtr
             n == r.rows
             o == block.rows
  <2>1. /\ n \in Nat /\ IsPointer(p, n, Nnz(r)) /\ o \in Nat /\ IsPointer(q, o, Nnz(block))
        /\ more = [k \in 1 .. o |-> Nnz(r) + q[k + 1]]
    BY <1>1, <1>2, <1>5
  <2> DEFINE x == Nnz(r)
             y == Nnz(block)
  <2>2. /\ n \in Nat /\ IsPointer(p, n, x) /\ o \in Nat /\ IsPointer(q, o, y)
        /\ Continued(ptr, p, n, x, q, o)
    <3>1. /\ n \in Nat /\ IsPointer(p, n, x) /\ o \in Nat /\ IsPointer(q, o, y)
          /\ ptr = p \o more
          /\ more = [k \in 1 .. o |-> x + q[k + 1]]
          /\ \A i \in 1 .. o + 1 : q[i] \in 0 .. y
          /\ x \in Nat /\ y \in Nat
      BY <1>1, <1>2, <1>4, <2>1
    <3> HIDE DEF p, q, n, o, more, x, y, ptr
    <3>2. \A k \in 1 .. o : x + q[k + 1] \in Int
      <4>1. \A k \in 1 .. o : k + 1 \in 1 .. o + 1
        BY <3>1
      <4>2. QED
        BY <3>1, <4>1
    <3>3. more \in Seq(Int) /\ Len(more) = o /\ \A k \in 1 .. o : more[k] = x + q[k + 1]
      BY <3>1, <3>2
    <3>4. p \in Seq(Int) /\ Len(p) = n + 1
      BY <3>1 DEF IsPointer
    <3>5. p \in Seq(Int) /\ more \in Seq(Int)
      BY <3>3, <3>4
    <3>6. /\ p \o more \in Seq(Int) /\ Len(p \o more) = Len(p) + Len(more)
          /\ \A i \in 1 .. Len(p) : (p \o more)[i] = p[i]
          /\ \A i \in 1 .. Len(more) : (p \o more)[Len(p) + i] = more[i]
      BY ONLY <3>5, ConcatParts
    <3>7. /\ ptr \in Seq(Int) /\ Len(ptr) = n + 1 + o
          /\ \A i \in 1 .. n + 1 : ptr[i] = p[i]
          /\ \A i \in 1 .. o : ptr[n + 1 + i] = more[i]
      BY <3>1, <3>3, <3>4, <3>6
    <3>8. Continued(ptr, p, n, x, q, o)
      BY <3>3, <3>7 DEF Continued
    <3>9. QED
      BY <3>1, <3>8
  <2> HIDE DEF p, q, n, o, more, x, y, ptr
  <2>3. /\ IsPointer(ptr, n + o, x + y)
        /\ \A i \in 1 .. n + 1 : ptr[i] = p[i]
        /\ \A i \in 1 .. o + 1 : ptr[n + i] = x + q[i]
    BY ONLY <2>2, PointerAppend
  <2>4. QED
    BY <2>3 DEF p, q, n, o, x, y
<1> HIDE DEF ptr
<1>7. /\ columns \in Seq(Int) /\ Len(columns) = Nnz(r) + Nnz(block)
      /\ \A i \in 1 .. Nnz(r) : columns[i] = r.columns[i]
      /\ \A i \in 1 .. Nnz(block) : columns[Nnz(r) + i] = block.columns[i]
  <2> DEFINE s == r.columns
             t == block.columns
             n == Nnz(r)
             o == Nnz(block)
  <2>1. /\ s \in Seq(Int) /\ t \in Seq(Int) /\ n = Len(s) /\ o = Len(t)
    BY <1>1, <1>2
  <2> HIDE DEF s, t, n, o
  <2>2. /\ s \o t \in Seq(Int) /\ Len(s \o t) = Len(s) + Len(t)
        /\ \A i \in 1 .. Len(s) : (s \o t)[i] = s[i]
        /\ \A i \in 1 .. Len(t) : (s \o t)[Len(s) + i] = t[i]
    BY ONLY <2>1, ConcatParts
  <2>3. /\ s \o t \in Seq(Int) /\ Len(s \o t) = n + o
        /\ \A i \in 1 .. n : (s \o t)[i] = s[i]
        /\ \A i \in 1 .. o : (s \o t)[n + i] = t[i]
    BY <2>1, <2>2
  <2>4. QED
    BY <2>3 DEF s, t, n, o
<1>8. /\ values \in Seq(Int) /\ Len(values) = Nnz(r) + Nnz(block)
      /\ \A i \in 1 .. Nnz(r) : values[i] = r.values[i]
      /\ \A i \in 1 .. Nnz(block) : values[Nnz(r) + i] = block.values[i]
  <2> DEFINE s == r.values
             t == block.values
             n == Nnz(r)
             o == Nnz(block)
  <2>1. /\ s \in Seq(Int) /\ t \in Seq(Int) /\ n = Len(s) /\ o = Len(t)
    BY <1>1, <1>2
  <2> HIDE DEF s, t, n, o
  <2>2. /\ s \o t \in Seq(Int) /\ Len(s \o t) = Len(s) + Len(t)
        /\ \A i \in 1 .. Len(s) : (s \o t)[i] = s[i]
        /\ \A i \in 1 .. Len(t) : (s \o t)[Len(s) + i] = t[i]
    BY ONLY <2>1, ConcatParts
  <2>3. /\ s \o t \in Seq(Int) /\ Len(s \o t) = n + o
        /\ \A i \in 1 .. n : (s \o t)[i] = s[i]
        /\ \A i \in 1 .. o : (s \o t)[n + i] = t[i]
    BY <2>1, <2>2
  <2>4. QED
    BY <2>3 DEF s, t, n, o
<1> HIDE DEF columns, values
<1>9. c \in AnyCsr /\ Nnz(c) = Nnz(r) + Nnz(block)
  <2>1. ptr \in Seq(Int)
    BY <1>6 DEF IsPointer
  <2>2. r.rows + block.rows \in Int /\ block.cols \in Int
    BY <1>1, <1>2
  <2>3. c \in AnyCsr
    BY <1>3, <1>7, <1>8, <2>1, <2>2 DEF AnyCsr
  <2>4. QED
    BY <1>3, <1>8, <2>3 DEF Nnz
<1>11. ValidOffsets(c)
  <2>1. c.rows \in Nat /\ c.cols \in Nat
    BY <1>1, <1>2, <1>3
  <2>2. QED
    BY <1>3, <1>6, <1>7, <1>9, <2>1, ValidOffsetsFrom
<1>12. ASSUME NEW k \in 0 .. r.rows - 1
       PROVE  Row(c, k) = Row(r, k)
  <2>1. k + 1 \in 1 .. r.rows + 1 /\ k + 2 \in 1 .. r.rows + 1
    BY <1>1
  <2>2. c.rowPtr[k + 1] = r.rowPtr[k + 1] /\ c.rowPtr[k + 2] = r.rowPtr[k + 2]
    BY <1>3, <1>6, <2>1
  <2>3. RowLength(c, k) = RowLength(r, k)
    BY <2>2 DEF RowLength
  <2>4. ASSUME NEW i \in 1 .. RowLength(c, k)
        PROVE  /\ c.columns[c.rowPtr[k + 1] + i] = r.columns[r.rowPtr[k + 1] + i]
               /\ c.values[c.rowPtr[k + 1] + i] = r.values[r.rowPtr[k + 1] + i]
    <3> DEFINE p == r.rowPtr[k + 1] + i
    <3>1. p \in 1 .. Nnz(r)
      BY <2>3, RowIs
    <3>2. c.rowPtr[k + 1] + i = p
      BY <2>2
    <3> HIDE DEF p
    <3>3. QED
      BY <1>3, <1>7, <1>8, <3>1, <3>2 DEF p
  <2>5. QED
    BY <2>3, <2>4, RowEqual
<1>13. ASSUME NEW k \in 0 .. block.rows - 1
       PROVE  Row(c, r.rows + k) = Row(block, k)
  <2>1. /\ k + 1 \in 1 .. block.rows + 1 /\ k + 2 \in 1 .. block.rows + 1
        /\ r.rows + (k + 1) = r.rows + k + 1 /\ r.rows + (k + 2) = r.rows + k + 2
    <3> DEFINE n == r.rows
    <3>1. n \in Nat /\ block.rows \in Nat
      BY <1>1, <1>2
    <3> HIDE DEF n
    <3>2. n + (k + 1) = n + k + 1 /\ n + (k + 2) = n + k + 2
      BY <3>1
    <3>3. QED
      BY <3>1, <3>2 DEF n
  <2>2. /\ c.rowPtr[r.rows + k + 1] = Nnz(r) + block.rowPtr[k + 1]
        /\ c.rowPtr[r.rows + k + 2] = Nnz(r) + block.rowPtr[k + 2]
    BY <1>3, <1>6, <2>1
  <2>3. block.rowPtr[k + 1] \in Int /\ block.rowPtr[k + 2] \in Int
    BY <1>2, <1>4, <2>1
  <2>4. RowLength(c, r.rows + k) = RowLength(block, k)
    BY <1>1, <2>2, <2>3 DEF RowLength
  <2>5. ASSUME NEW i \in 1 .. RowLength(block, k)
        PROVE  /\ c.columns[c.rowPtr[r.rows + k + 1] + i] = block.columns[block.rowPtr[k + 1] + i]
               /\ c.values[c.rowPtr[r.rows + k + 1] + i] = block.values[block.rowPtr[k + 1] + i]
    <3> DEFINE p == block.rowPtr[k + 1] + i
    <3>1. p \in 1 .. Nnz(block)
      BY RowIs
    <3>2. c.rowPtr[r.rows + k + 1] + i = Nnz(r) + p
      BY <1>1, <2>2, <2>3
    <3> HIDE DEF p
    <3>3. QED
      BY <1>3, <1>7, <1>8, <3>1, <3>2 DEF p
  <2>6. QED
    BY <2>4, <2>5, RowEqual
<1>14. QED
  BY <1>3, <1>9, <1>11, <1>12, <1>13 DEF c

-----------------------------------------------------------------------------
(* Cuts by rows                                                            *)

\* Where the k-th of c blocks begins.
Start(n, c, k) == k * (n \div c) + (IF k < n % c THEN k ELSE n % c)

\* The blocks of a partition begin with row 0, end with the last row, and each
\* ends where the next begins.
LEMMA PartitionIs ==
  ASSUME NEW n \in Nat, NEW c \in Nat \ {0}
  PROVE  /\ Start(n, c, 0) = 0 /\ Start(n, c, c) = n
         /\ \A k \in 0 .. c : Start(n, c, k) \in 0 .. n
         /\ \A k \in 0 .. c - 1 :
              /\ partitionRows(n, c)[k].firstRow = Start(n, c, k)
              /\ partitionRows(n, c)[k].rows \in Nat
              /\ Start(n, c, k + 1) = Start(n, c, k) + partitionRows(n, c)[k].rows
<1> DEFINE base == n \div c
           rest == n % c
<1>1. c \in Nat \ {0}
  OBVIOUS
<1>2. base \in Nat /\ rest \in 0 .. c - 1 /\ n = base * c + rest
  BY <1>1
<1>3. \A k \in Nat : k * base \in Nat /\ (k + 1) * base = k * base + base
  BY <1>2
<1>4. \A k : Start(n, c, k) = k * base + (IF k < rest THEN k ELSE rest)
  BY DEF Start
<1>5. \A k \in 0 .. c - 1 :
        /\ partitionRows(n, c)[k].firstRow = k * base + (IF k < rest THEN k ELSE rest)
        /\ partitionRows(n, c)[k].rows = base + (IF k < rest THEN 1 ELSE 0)
  BY DEF partitionRows, BlockRows
<1> HIDE DEF base, rest
<1>6. Start(n, c, 0) = 0
  BY <1>2, <1>4
<1>7. Start(n, c, c) = n
  <2>1. c * base = base * c
    BY <1>1, <1>2
  <2>2. QED
    BY <1>1, <1>2, <1>4, <2>1
<1>8. \A k \in 0 .. c : Start(n, c, k) \in 0 .. n
  <2> SUFFICES ASSUME NEW k \in 0 .. c PROVE Start(n, c, k) \in 0 .. n
    OBVIOUS
  <2>1. k \in Nat /\ k * base \in Nat
    BY <1>1, <1>3
  <2>2. k * base <= base * c
    <3>1. PICK j \in Nat : c = k + j
      <4>1. c - k \in Nat /\ c = k + (c - k)
        BY <1>1
      <4>2. QED
        BY <4>1
    <3>2. base * (k + j) = k * base + base * j /\ base * j \in Nat
      BY <1>2, <2>1, <3>1
    <3>3. QED
      BY <2>1, <3>1, <3>2
  <2>3. base * c \in Nat
    BY <1>1, <1>2
  <2>4. QED
    BY <1>2, <1>4, <2>1, <2>2, <2>3
<1>9. \A k \in 0 .. c - 1 :
        /\ partitionRows(n, c)[k].rows \in Nat
        /\ Start(n, c, k + 1) = Start(n, c, k) + partitionRows(n, c)[k].rows
  <2> SUFFICES ASSUME NEW k \in 0 .. c - 1
               PROVE  /\ partitionRows(n, c)[k].rows \in Nat
                      /\ Start(n, c, k + 1) = Start(n, c, k) + partitionRows(n, c)[k].rows
    OBVIOUS
  <2>1. k \in Nat /\ k < c
    BY <1>1
  <2>2. k * base \in Nat /\ (k + 1) * base = k * base + base
    BY <1>3, <2>1
  <2>3. QED
    BY <1>2, <1>4, <1>5, <2>1, <2>2
<1> QED
  BY <1>1, <1>4, <1>5, <1>6, <1>7, <1>8, <1>9

\* The beginnings of blocks ascend.
LEMMA StartsAscend ==
  ASSUME NEW n \in Nat, NEW c \in Nat \ {0}
  PROVE  /\ \A i, j \in 0 .. c : i <= j => Start(n, c, i) <= Start(n, c, j)
         /\ \A row \in 0 .. n - 1 : \E k \in 0 .. c - 1 :
              Start(n, c, k) <= row /\ row < Start(n, c, k + 1)
<1> DEFINE ptr == [k \in 1 .. c + 1 |-> Start(n, c, k - 1)]
<1>1. /\ Start(n, c, 0) = 0 /\ Start(n, c, c) = n
      /\ \A k \in 0 .. c : Start(n, c, k) \in 0 .. n
      /\ \A k \in 0 .. c - 1 : Start(n, c, k) <= Start(n, c, k + 1)
  <2>1. \A k \in 0 .. c - 1 : Start(n, c, k) \in Int
    <3>1. \A k \in 0 .. c : Start(n, c, k) \in 0 .. n
      BY PartitionIs
    <3>2. \A k \in 0 .. c - 1 : k \in 0 .. c
      OBVIOUS
    <3>3. QED
      BY <3>1, <3>2
  <2>2. \A k \in 0 .. c - 1 : Start(n, c, k) <= Start(n, c, k + 1)
    <3>1. ASSUME NEW k \in 0 .. c - 1
          PROVE  Start(n, c, k) <= Start(n, c, k + 1)
      <4>1. /\ partitionRows(n, c)[k].rows \in Nat
            /\ Start(n, c, k + 1) = Start(n, c, k) + partitionRows(n, c)[k].rows
        BY PartitionIs
      <4>2. Start(n, c, k) \in Int
        BY <2>1
      <4>3. QED
        BY <4>1, <4>2
    <3>2. QED
      BY <3>1
  <2>3. QED
    BY <2>2, PartitionIs
<1>2. \A k \in 1 .. c + 1 : ptr[k] = Start(n, c, k - 1) /\ k - 1 \in 0 .. c
  OBVIOUS
<1>3. \A k \in 0 .. c : ptr[k + 1] = Start(n, c, k) /\ k + 1 \in 1 .. c + 1
  OBVIOUS
<1>4. ptr \in Seq(Int) /\ Len(ptr) = c + 1
  BY <1>1
<1> HIDE DEF ptr
<1>5. IsPointer(ptr, c, n)
  <2>1. ptr[1] = 0 /\ ptr[c + 1] = n
    <3>1. 0 \in 0 .. c /\ c \in 0 .. c /\ 0 + 1 = 1
      OBVIOUS
    <3>2. ptr[0 + 1] = Start(n, c, 0) /\ ptr[c + 1] = Start(n, c, c)
      BY <1>3, <3>1
    <3>3. QED
      BY <1>1, <3>1, <3>2
  <2>2. \A k \in 1 .. c : ptr[k] <= ptr[k + 1]
    <3>1. ASSUME NEW k \in 1 .. c PROVE ptr[k] <= ptr[k + 1]
      <4>1. k - 1 \in 0 .. c - 1 /\ k \in 0 .. c /\ k - 1 + 1 = k /\ k \in 1 .. c + 1
        OBVIOUS
      <4>2. Start(n, c, k - 1) <= Start(n, c, k - 1 + 1)
        BY <1>1, <4>1
      <4>3. ptr[k] = Start(n, c, k - 1) /\ ptr[k + 1] = Start(n, c, k)
        BY <1>2, <1>3, <4>1
      <4>4. QED
        BY <4>1, <4>2, <4>3
    <3>2. QED
      BY <3>1
  <2>3. QED
    BY <1>4, <2>1, <2>2 DEF IsPointer
<1>6. \A i, j \in 0 .. c : i <= j => Start(n, c, i) <= Start(n, c, j)
  <2>1. ASSUME NEW i \in 0 .. c, NEW j \in 0 .. c, i <= j
        PROVE  Start(n, c, i) <= Start(n, c, j)
    <3>1. i + 1 \in 1 .. c + 1 /\ j + 1 \in 1 .. c + 1 /\ i + 1 <= j + 1
      BY <2>1
    <3>2. ptr[i + 1] <= ptr[j + 1]
      BY <1>5, <3>1, PointerMonotone
    <3>3. QED
      BY <1>3, <3>2
  <2>2. QED
    BY <2>1
<1>7. ASSUME NEW row \in 0 .. n - 1
      PROVE  \E k \in 0 .. c - 1 : Start(n, c, k) <= row /\ row < Start(n, c, k + 1)
  <2>1. row + 1 \in 1 .. n
    OBVIOUS
  <2>2. PICK k \in 1 .. c : ptr[k] < row + 1 /\ row + 1 <= ptr[k + 1]
    BY <1>5, <2>1, PointerWithin
  <2>3. k - 1 \in 0 .. c - 1 /\ k - 1 + 1 = k /\ k \in 1 .. c + 1 /\ k \in 0 .. c /\ k - 1 \in 0 .. c
    OBVIOUS
  <2>4. ptr[k] = Start(n, c, k - 1) /\ ptr[k + 1] = Start(n, c, k)
    BY <1>2, <1>3, <2>3
  <2>5. Start(n, c, k - 1) \in Int /\ Start(n, c, k) \in Int
    BY <1>1, <2>3
  <2>6. Start(n, c, k - 1) <= row /\ row < Start(n, c, k - 1 + 1)
    BY <2>2, <2>3, <2>4, <2>5
  <2>7. QED
    BY <2>3, <2>6
<1>8. QED
  BY <1>6, <1>7

\* Every row is in one block.
LEMMA InOneBlock ==
  ASSUME NEW n \in Nat, NEW c \in Nat \ {0}, NEW row \in 0 .. n - 1
  PROVE  \E k \in 0 .. c - 1 :
           /\ row \in RowsOf(partitionRows(n, c)[k])
           /\ \A j \in 0 .. c - 1 : row \in RowsOf(partitionRows(n, c)[j]) => j = k
<1>1. PICK k \in 0 .. c - 1 : Start(n, c, k) <= row /\ row < Start(n, c, k + 1)
  BY StartsAscend
<1>2. ASSUME NEW j \in 0 .. c - 1
      PROVE  row \in RowsOf(partitionRows(n, c)[j])
               <=> Start(n, c, j) <= row /\ row < Start(n, c, j + 1)
  <2>1. /\ partitionRows(n, c)[j].firstRow = Start(n, c, j)
        /\ partitionRows(n, c)[j].rows \in Nat
        /\ Start(n, c, j + 1) = Start(n, c, j) + partitionRows(n, c)[j].rows
    BY PartitionIs
  <2>2. j \in 0 .. c
    OBVIOUS
  <2>3. Start(n, c, j) \in 0 .. n
    BY <2>2, PartitionIs
  <2>4. QED
    BY <2>1, <2>3 DEF RowsOf
<1>3. ASSUME NEW j \in 0 .. c - 1, Start(n, c, j) <= row, row < Start(n, c, j + 1), j # k
      PROVE  FALSE
  <2>1. /\ j \in 0 .. c /\ k \in 0 .. c /\ j + 1 \in 0 .. c /\ k + 1 \in 0 .. c
        /\ (j + 1 <= k \/ k + 1 <= j)
    BY <1>3
  <2>2. \A i \in 0 .. c : Start(n, c, i) \in Int
    BY PartitionIs
  <2>3. (j + 1 <= k => Start(n, c, j + 1) <= Start(n, c, k))
        /\ (k + 1 <= j => Start(n, c, k + 1) <= Start(n, c, j))
    BY <2>1, StartsAscend
  <2>4. /\ Start(n, c, j) \in Int /\ Start(n, c, k) \in Int
        /\ Start(n, c, j + 1) \in Int /\ Start(n, c, k + 1) \in Int
    BY <2>1, <2>2
  <2>5. QED
    BY <1>1, <1>3, <2>1, <2>3, <2>4
<1>4. QED
  BY <1>1, <1>2, <1>3

\* Where the block of rank k begins.
Begin(n, k) == Start(n, Ranks, k)

\* The blocks of the ranks.
LEMMA CutsAre ==
  ASSUME NEW n \in Nat
  PROVE  /\ Ranks \in Nat \ {0}
         /\ Begin(n, 0) = 0 /\ Begin(n, Ranks) = n
         /\ \A k \in 0 .. Ranks : Begin(n, k) \in 0 .. n
         /\ \A k \in Rank :
              /\ partitionRows(n, Ranks)[k].firstRow = Begin(n, k)
              /\ partitionRows(n, Ranks)[k].rows \in Nat
              /\ Begin(n, k + 1) = Begin(n, k) + partitionRows(n, Ranks)[k].rows
<1>1. Ranks \in Nat \ {0}
  BY RanksAssumption
<1> QED
  BY <1>1, PartitionIs DEF Begin, Rank

\* Every row has an owner, whose block holds it.
LEMMA OwnerIs ==
  ASSUME NEW n \in Nat, NEW row \in 0 .. n - 1
  PROVE  /\ ownerOfRow(row, partitionRows(n, Ranks)) \in Rank
         /\ row \in RowsOf(partitionRows(n, Ranks)[ownerOfRow(row, partitionRows(n, Ranks))])
<1> DEFINE blocks == partitionRows(n, Ranks)
           owners == {rank \in DOMAIN blocks : row \in RowsOf(blocks[rank])}
<1>1. Ranks \in Nat \ {0} /\ Rank = 0 .. Ranks - 1
  BY RanksAssumption DEF Rank
<1>2. DOMAIN blocks = Rank
  BY DEF partitionRows, Rank
<1>3. owners # {}
  <2>1. \E k \in Rank : row \in RowsOf(blocks[k])
    BY <1>1, InOneBlock
  <2> HIDE DEF blocks
  <2>2. QED
    BY <1>2, <2>1
<1>4. owners \in SUBSET Nat
  BY <1>1, <1>2
<1> HIDE DEF blocks
<1>5. \E k \in owners : \A other \in owners : k <= other
  BY <1>3, <1>4, FirstFailure
<1>6. ownerOfRow(row, blocks) = CHOOSE rank \in owners : \A other \in owners : rank <= other
  BY <1>3 DEF ownerOfRow
<1> HIDE DEF owners
<1>7. ownerOfRow(row, blocks) \in owners
  BY <1>5, <1>6
<1>8. QED
  BY <1>2, <1>7 DEF owners, blocks

-----------------------------------------------------------------------------

\* What of a matrix is on the wire: nothing of an empty array.
Shown(m, part) == IF Parts(m)[part] = <<>> THEN <<>> ELSE <<Parts(m)[part]>>

Payloads == Seq(Seq(Int))

LEMMA PartsAre ==
  ASSUME NEW m \in AnyCsr, ValidOffsets(m)
  PROVE  /\ Parts(m)["header"] = <<m.rows, m.cols, Nnz(m)>>
         /\ Parts(m)["rowPtr"] = m.rowPtr
         /\ Parts(m)["columns"] = m.columns
         /\ Parts(m)["values"] = m.values
         /\ Shown(m, "header") = << <<m.rows, m.cols, Nnz(m)>> >>
         /\ Shown(m, "rowPtr") = <<m.rowPtr>>
         /\ Shown(m, "columns") = IF Nnz(m) = 0 THEN <<>> ELSE <<m.columns>>
         /\ Shown(m, "values") = IF Nnz(m) = 0 THEN <<>> ELSE <<m.values>>
         /\ \A part \in Part : Shown(m, part) \in Payloads
<1>1. /\ m.rows \in Nat /\ m.cols \in Nat /\ Nnz(m) \in Nat
      /\ m.rowPtr \in Seq(Int) /\ Len(m.rowPtr) = m.rows + 1
      /\ m.columns \in Seq(Int) /\ m.values \in Seq(Int)
      /\ Len(m.columns) = Nnz(m) /\ Len(m.values) = Nnz(m)
  BY PointerOf DEF IsPointer
<1>2. /\ Parts(m)["header"] = <<m.rows, m.cols, Nnz(m)>>
      /\ Parts(m)["rowPtr"] = m.rowPtr
      /\ Parts(m)["columns"] = m.columns
      /\ Parts(m)["values"] = m.values
  BY DEF Parts
<1>3. <<m.rows, m.cols, Nnz(m)>> # <<>> /\ <<m.rows, m.cols, Nnz(m)>> \in Seq(Int)
  BY <1>1
<1>4. m.rowPtr # <<>>
  BY <1>1
<1>5. m.columns = <<>> <=> Nnz(m) = 0
  BY <1>1, EmptySeq
<1>6. m.values = <<>> <=> Nnz(m) = 0
  BY <1>1, EmptySeq
<1>7. /\ Shown(m, "header") = << <<m.rows, m.cols, Nnz(m)>> >>
      /\ Shown(m, "rowPtr") = <<m.rowPtr>>
      /\ Shown(m, "columns") = IF Nnz(m) = 0 THEN <<>> ELSE <<m.columns>>
      /\ Shown(m, "values") = IF Nnz(m) = 0 THEN <<>> ELSE <<m.values>>
  BY <1>2, <1>3, <1>4, <1>5, <1>6 DEF Shown
<1>8. \A part \in Part : Shown(m, part) \in Payloads
  <2>1. \A x \in Seq(Int) : <<x>> \in Payloads
    BY DEF Payloads
  <2>2. <<>> \in Payloads
    BY DEF Payloads
  <2>3. QED
    BY <1>1, <1>3, <1>7, <2>1, <2>2 DEF Part
<1> QED
  BY <1>2, <1>7, <1>8

\* A matrix and what follows it on the links of one way to or from a rank.
Ahead(way, r, m, rest) ==
  \A part \in Part : /\ rest[part] \in Payloads
                     /\ wire[<<way, r, part>>] = Shown(m, part) \o rest[part]

LEMMA HeadAndTail ==
  ASSUME NEW x \in Seq(Int), NEW s \in Payloads
  PROVE  /\ <<x>> \o s # <<>> /\ Head(<<x>> \o s) = x /\ Tail(<<x>> \o s) = s
         /\ <<>> \o s = s
BY DEF Payloads

\* The receiver finds the matrix, and takes it off the links and no more.
LEMMA Delivers ==
  ASSUME NEW way, NEW r, NEW m \in AnyCsr, ValidOffsets(m), NEW rest, Ahead(way, r, m, rest)
  PROVE  /\ Arrived(way, r)
         /\ Received(way, r) = m
         /\ \A part \in Part : <<way, r, part>> \in DOMAIN wire =>
              Taken(way, r)[<<way, r, part>>] = rest[part]
<1> DEFINE header == <<m.rows, m.cols, Nnz(m)>>
<1>1. /\ m.rows \in Nat /\ m.cols \in Nat /\ Nnz(m) \in Nat
      /\ m.rowPtr \in Seq(Int) /\ Len(m.rowPtr) = m.rows + 1
      /\ m.columns \in Seq(Int) /\ m.values \in Seq(Int)
      /\ Len(m.columns) = Nnz(m) /\ Len(m.values) = Nnz(m)
  BY PointerOf DEF IsPointer
<1>2. header \in Seq(Int) /\ header[1] = m.rows /\ header[2] = m.cols /\ header[3] = Nnz(m)
      /\ Len(header) = 3
  BY <1>1
<1>3. /\ \A part \in Part : rest[part] \in Payloads
      /\ rest["header"] \in Payloads /\ rest["rowPtr"] \in Payloads
      /\ rest["columns"] \in Payloads /\ rest["values"] \in Payloads
  BY DEF Ahead, Part
<1>4. /\ wire[<<way, r, "header">>] = <<header>> \o rest["header"]
      /\ wire[<<way, r, "rowPtr">>] = <<m.rowPtr>> \o rest["rowPtr"]
      /\ Nnz(m) = 0 => /\ wire[<<way, r, "columns">>] = rest["columns"]
                       /\ wire[<<way, r, "values">>] = rest["values"]
      /\ Nnz(m) # 0 => /\ wire[<<way, r, "columns">>] = <<m.columns>> \o rest["columns"]
                       /\ wire[<<way, r, "values">>] = <<m.values>> \o rest["values"]
  <2> HIDE DEF header
  <2>1. /\ Shown(m, "header") = <<header>>
        /\ Shown(m, "rowPtr") = <<m.rowPtr>>
        /\ Shown(m, "columns") = IF Nnz(m) = 0 THEN <<>> ELSE <<m.columns>>
        /\ Shown(m, "values") = IF Nnz(m) = 0 THEN <<>> ELSE <<m.values>>
    BY PartsAre DEF header
  <2>2. \A part \in Part : <<>> \o rest[part] = rest[part]
    BY <1>2, <1>3, HeadAndTail
  <2>3. QED
    BY <2>1, <2>2 DEF Ahead, Part
<1> HIDE DEF header
<1>5. /\ Head(wire[<<way, r, "header">>]) = header /\ wire[<<way, r, "header">>] # <<>>
      /\ Tail(wire[<<way, r, "header">>]) = rest["header"]
  BY <1>2, <1>3, <1>4, HeadAndTail DEF Part
<1>6. /\ Head(wire[<<way, r, "rowPtr">>]) = m.rowPtr /\ wire[<<way, r, "rowPtr">>] # <<>>
      /\ Tail(wire[<<way, r, "rowPtr">>]) = rest["rowPtr"]
  <2>1. QED
    BY ONLY <1>1, <1>3, <1>4, HeadAndTail
<1>7. ASSUME Nnz(m) # 0
      PROVE  /\ Head(wire[<<way, r, "columns">>]) = m.columns
             /\ wire[<<way, r, "columns">>] # <<>>
             /\ Tail(wire[<<way, r, "columns">>]) = rest["columns"]
             /\ Head(wire[<<way, r, "values">>]) = m.values
             /\ wire[<<way, r, "values">>] # <<>>
             /\ Tail(wire[<<way, r, "values">>]) = rest["values"]
  <2>1. /\ wire[<<way, r, "columns">>] = <<m.columns>> \o rest["columns"]
        /\ wire[<<way, r, "values">>] = <<m.values>> \o rest["values"]
    BY <1>4, <1>7
  <2>2. /\ Head(wire[<<way, r, "columns">>]) = m.columns
        /\ wire[<<way, r, "columns">>] # <<>>
        /\ Tail(wire[<<way, r, "columns">>]) = rest["columns"]
    BY ONLY <1>1, <1>3, <2>1, HeadAndTail
  <2>3. /\ Head(wire[<<way, r, "values">>]) = m.values
        /\ wire[<<way, r, "values">>] # <<>>
        /\ Tail(wire[<<way, r, "values">>]) = rest["values"]
    BY ONLY <1>1, <1>3, <2>1, HeadAndTail
  <2>4. QED
    BY <2>2, <2>3
<1>8. Announced(way, r) = [header |-> 3, rowPtr |-> m.rows + 1,
                           columns |-> Nnz(m), values |-> Nnz(m)]
  BY <1>2, <1>5 DEF Announced
<1>9. Arrived(way, r)
  <2>1. /\ Announced(way, r)["header"] = 3 /\ Announced(way, r)["rowPtr"] = m.rows + 1
        /\ Announced(way, r)["columns"] = Nnz(m) /\ Announced(way, r)["values"] = Nnz(m)
    BY <1>8
  <2>2. ASSUME NEW part \in Part, Announced(way, r)[part] > 0
        PROVE  /\ wire[<<way, r, part>>] # <<>>
               /\ Len(Head(wire[<<way, r, part>>])) = Announced(way, r)[part]
    <3>1. CASE part = "header"
      BY <1>2, <1>5, <2>1, <3>1
    <3>2. CASE part = "rowPtr"
      BY <1>1, <1>6, <2>1, <3>2
    <3>3. CASE part = "columns"
      BY <1>1, <1>7, <2>1, <2>2, <3>3
    <3>4. CASE part = "values"
      BY <1>1, <1>7, <2>1, <2>2, <3>4
    <3>5. QED
      BY <3>1, <3>2, <3>3, <3>4 DEF Part
  <2>3. QED
    BY <1>5, <2>2 DEF Arrived
<1>10. Received(way, r) = m
  <2>1. Received(way, r)
          = [rows |-> header[1], cols |-> header[2],
             rowPtr |-> IF m.rows + 1 = 0 THEN <<>> ELSE Head(wire[<<way, r, "rowPtr">>]),
             columns |-> IF Nnz(m) = 0 THEN <<>> ELSE Head(wire[<<way, r, "columns">>]),
             values |-> IF Nnz(m) = 0 THEN <<>> ELSE Head(wire[<<way, r, "values">>])]
    BY <1>5, <1>8 DEF Received
  <2>2. m.rowPtr = IF m.rows + 1 = 0 THEN <<>> ELSE Head(wire[<<way, r, "rowPtr">>])
    BY <1>1, <1>6
  <2>3. m.columns = IF Nnz(m) = 0 THEN <<>> ELSE Head(wire[<<way, r, "columns">>])
    BY <1>1, <1>7, EmptySeq
  <2>4. m.values = IF Nnz(m) = 0 THEN <<>> ELSE Head(wire[<<way, r, "values">>])
    BY <1>1, <1>7, EmptySeq
  <2>5. m = [rows |-> m.rows, cols |-> m.cols, rowPtr |-> m.rowPtr,
             columns |-> m.columns, values |-> m.values]
    BY DEF AnyCsr
  <2>6. QED
    BY <1>2, <2>1, <2>2, <2>3, <2>4, <2>5
<1>11. ASSUME NEW part \in Part, <<way, r, part>> \in DOMAIN wire
       PROVE  Taken(way, r)[<<way, r, part>>] = rest[part]
  <2>1. Taken(way, r)[<<way, r, part>>]
          = IF Announced(way, r)[part] > 0 THEN Tail(wire[<<way, r, part>>])
                                           ELSE wire[<<way, r, part>>]
    BY <1>11 DEF Taken
  <2>2. /\ Announced(way, r)["header"] = 3 /\ Announced(way, r)["rowPtr"] = m.rows + 1
        /\ Announced(way, r)["columns"] = Nnz(m) /\ Announced(way, r)["values"] = Nnz(m)
    BY <1>8
  <2>3. CASE part = "header"
    BY <1>5, <2>1, <2>2, <2>3
  <2>4. CASE part = "rowPtr"
    BY <1>1, <1>6, <2>1, <2>2, <2>4
  <2>5. CASE part = "columns"
    BY <1>1, <1>4, <1>7, <2>1, <2>2, <2>5
  <2>6. CASE part = "values"
    BY <1>1, <1>4, <1>7, <2>1, <2>2, <2>6
  <2>7. QED
    BY <2>3, <2>4, <2>5, <2>6 DEF Part
<1> QED
  BY <1>9, <1>10, <1>11

-----------------------------------------------------------------------------
(* Shares of the product                                                   *)

\* The rows of rank r, of A or of B.
Cut(m, r) == sliceRows(m, partitionRows(m.rows, Ranks)[r])

LEMMA CutIs ==
  ASSUME NEW m \in AnyCsr, ValidOffsets(m), NEW r \in Rank
  PROVE  /\ Cut(m, r) \in AnyCsr /\ ValidOffsets(Cut(m, r))
         /\ Cut(m, r).rows = partitionRows(m.rows, Ranks)[r].rows
         /\ Cut(m, r).cols = m.cols
         /\ Nnz(Cut(m, r)) = m.rowPtr[Begin(m.rows, r + 1) + 1] - m.rowPtr[Begin(m.rows, r) + 1]
         /\ \A k \in 0 .. partitionRows(m.rows, Ranks)[r].rows - 1 :
              Row(Cut(m, r), k) = Row(m, Begin(m.rows, r) + k)
<1> DEFINE block == partitionRows(m.rows, Ranks)[r]
<1>1. m.rows \in Nat
  BY PointerOf
<1>2. /\ block.firstRow = Begin(m.rows, r) /\ block.rows \in Nat
      /\ Begin(m.rows, r + 1) = Begin(m.rows, r) + block.rows
  BY <1>1, CutsAre
<1>3. Begin(m.rows, r) \in 0 .. m.rows /\ Begin(m.rows, r + 1) \in 0 .. m.rows
  <2>1. Ranks \in Nat
    BY CutsAre, <1>1
  <2>2. r \in 0 .. Ranks /\ r + 1 \in 0 .. Ranks
    BY <2>1 DEF Rank
  <2>3. QED
    BY <1>1, <2>2, CutsAre
<1>4. Cut(m, r) = sliceRows(m, block)
  BY DEF Cut
<1> HIDE DEF block
<1>5. block.firstRow \in Nat /\ block.firstRow + block.rows <= m.rows
  BY <1>1, <1>2, <1>3
<1>6. /\ sliceRows(m, block) \in AnyCsr
      /\ ValidOffsets(sliceRows(m, block))
      /\ sliceRows(m, block).rows = block.rows
      /\ sliceRows(m, block).cols = m.cols
      /\ Nnz(sliceRows(m, block))
           = m.rowPtr[block.firstRow + block.rows + 1] - m.rowPtr[block.firstRow + 1]
      /\ \A k \in 0 .. block.rows - 1 :
           Row(sliceRows(m, block), k) = Row(m, block.firstRow + k)
  BY <1>2, <1>5, SliceIs
<1> QED
  BY <1>2, <1>4, <1>6 DEF block

\* The rows of the result of rank r.
Share(x, y, r) ==
  CsrMatrix([k \in 1 .. partitionRows(x.rows, Ranks)[r].rows |->
              ResultRow(x, y, Begin(x.rows, r) + (k - 1))], y.cols)

LEMMA ShareIs ==
  ASSUME NEW x, NEW y, Multipliable(x, y), NEW r \in Rank
  PROVE  /\ Share(x, y, r) \in AnyCsr /\ ValidOffsets(Share(x, y, r))
         /\ Share(x, y, r).rows = partitionRows(x.rows, Ranks)[r].rows
         /\ Share(x, y, r).cols = y.cols
         /\ \A k \in 0 .. partitionRows(x.rows, Ranks)[r].rows - 1 :
              Row(Share(x, y, r), k) = ResultRow(x, y, Begin(x.rows, r) + k)
<1> DEFINE n == partitionRows(x.rows, Ranks)[r].rows
           first == Begin(x.rows, r)
           ss == [k \in 1 .. n |-> ResultRow(x, y, first + (k - 1))]
<1>1. x.rows \in Nat /\ y.cols \in Nat
  BY MultipliableIs
<1>2. n \in Nat /\ Begin(x.rows, r + 1) = first + n
  BY <1>1, CutsAre
<1>3. first \in 0 .. x.rows /\ Begin(x.rows, r + 1) \in 0 .. x.rows
  <2>1. Ranks \in Nat
    BY CutsAre, <1>1
  <2>2. r \in 0 .. Ranks /\ r + 1 \in 0 .. Ranks
    BY <2>1 DEF Rank
  <2>3. QED
    BY <1>1, <2>2, CutsAre
<1>4. Share(x, y, r) = CsrMatrix(ss, y.cols)
  BY DEF Share
<1> HIDE DEF n, first
<1>5. ASSUME NEW k \in 1 .. n PROVE ResultRow(x, y, first + (k - 1)) \in Seq(Entry)
  <2>1. first + (k - 1) \in 0 .. x.rows - 1
    BY <1>1, <1>2, <1>3
  <2>2. QED
    BY <2>1, ResultRowIs
<1>6. ss \in Seq(Seq(Entry)) /\ Len(ss) = n
      /\ \A k \in 1 .. n : ss[k] = ResultRow(x, y, first + (k - 1))
  BY <1>2, <1>5
<1> HIDE DEF ss
<1>7. /\ Share(x, y, r) \in AnyCsr /\ ValidOffsets(Share(x, y, r))
      /\ Share(x, y, r).rows = n /\ Share(x, y, r).cols = y.cols
      /\ \A k \in 1 .. n : Row(Share(x, y, r), k - 1) = ss[k]
  BY <1>1, <1>4, <1>6, CsrMatrixIs
<1>8. ASSUME NEW k \in 0 .. n - 1
      PROVE  Row(Share(x, y, r), k) = ResultRow(x, y, first + k)
  <2> DEFINE h == k + 1
  <2>1. h \in 1 .. n /\ h - 1 = k
    BY <1>2
  <2> HIDE DEF h
  <2>2. Row(Share(x, y, r), h - 1) = ss[h] /\ ss[h] = ResultRow(x, y, first + (h - 1))
    BY <1>6, <1>7, <2>1
  <2>3. QED
    BY <2>1, <2>2
<1> QED
  BY <1>7, <1>8 DEF n, first

\* What a rank computes from its rows and the others' rows of B.
LEMMA MultiplyIs ==
  ASSUME Multipliable(a, b), NEW r \in Rank, localA[r] = Cut(a, r),
         \A q \in Rank : localB[q] = Cut(b, q)
  PROVE  spgemm(r) = Share(a, b, r)
<1> DEFINE n == partitionRows(a.rows, Ranks)[r].rows
           first == Begin(a.rows, r)
<1>1. /\ a \in AnyCsr /\ b \in AnyCsr /\ ValidOffsets(a) /\ ValidOffsets(b)
      /\ a.rows \in Nat /\ b.rows \in Nat /\ b.cols \in Nat
      /\ \A k \in 0 .. a.rows - 1 : Row(a, k) \in Seq(EntryBelow(b.rows))
  BY MultipliableIs
<1>2. n \in Nat /\ Begin(a.rows, r + 1) = first + n
  BY <1>1, CutsAre
<1>3. first \in 0 .. a.rows /\ Begin(a.rows, r + 1) \in 0 .. a.rows
  <2>1. Ranks \in Nat
    BY CutsAre, <1>1
  <2>2. r \in 0 .. Ranks /\ r + 1 \in 0 .. Ranks
    BY <2>1 DEF Rank
  <2>3. QED
    BY <1>1, <2>2, CutsAre
<1>4. /\ localA[r].rows = n
      /\ \A k \in 0 .. n - 1 : Row(localA[r], k) = Row(a, first + k)
  BY <1>1, CutIs
<1>5. localB[r].cols = b.cols
  BY <1>1, CutIs
<1>6. ASSUME NEW row \in 0 .. b.rows - 1
      PROVE  bRowOfOwner(row) = Row(b, row)
  <2> DEFINE owner == ownerOfRow(row, bRowBlocks)
             block == bRowBlocks[owner]
  <2>1. owner \in Rank /\ row \in RowsOf(block)
    BY <1>1, OwnerIs DEF bRowBlocks
  <2>2. bRowOfOwner(row) = Row(localB[owner], row - block.firstRow)
    BY DEF bRowOfOwner
  <2> HIDE DEF owner
  <2>3. block = partitionRows(b.rows, Ranks)[owner]
    BY DEF bRowBlocks
  <2> HIDE DEF block
  <2>4. block.firstRow = Begin(b.rows, owner) /\ block.rows \in Nat
    BY <1>1, <2>1, <2>3, CutsAre
  <2>5. Begin(b.rows, owner) \in Nat
    <3>1. Ranks \in Nat
      BY <1>1, CutsAre
    <3>2. owner \in 0 .. Ranks
      BY <2>1, <3>1 DEF Rank
    <3>3. Begin(b.rows, owner) \in 0 .. b.rows
      BY <1>1, <3>2, CutsAre
    <3>4. QED
      BY <3>3
  <2>6. row - block.firstRow \in 0 .. block.rows - 1
        /\ Begin(b.rows, owner) + (row - block.firstRow) = row
    BY <2>1, <2>4, <2>5 DEF RowsOf
  <2>7. localB[owner] = Cut(b, owner)
    BY <2>1
  <2>8. \A k \in 0 .. block.rows - 1 :
          Row(Cut(b, owner), k) = Row(b, Begin(b.rows, owner) + k)
    BY <1>1, <2>1, <2>3, CutIs
  <2>9. Row(localB[owner], row - block.firstRow)
          = Row(b, Begin(b.rows, owner) + (row - block.firstRow))
    BY <2>6, <2>7, <2>8
  <2>10. QED
    BY <2>2, <2>6, <2>9
<1> HIDE DEF n, first
<1>7. ASSUME NEW k \in 1 .. n
      PROVE  scalarProducts(Row(localA[r], k - 1), bRowOfOwner)
               = ProductsIn(a, b, first + (k - 1))
  <2> DEFINE row == Row(a, first + (k - 1))
             len == Len(row)
  <2>1. k - 1 \in 0 .. n - 1 /\ first + (k - 1) \in 0 .. a.rows - 1
    BY <1>1, <1>2, <1>3
  <2>2. Row(localA[r], k - 1) = row
    BY <1>4, <2>1
  <2>3. row \in Seq(EntryBelow(b.rows))
    BY <1>1, <2>1
  <2>4. ProductsIn(a, b, first + (k - 1))
          = FlattenSeq([p \in DOMAIN row |->
              [t \in DOMAIN Row(b, row[p].column) |->
                [column |-> Row(b, row[p].column)[t].column,
                 value  |-> row[p].value * Row(b, row[p].column)[t].value]]])
    BY DEF ProductsIn, scalarProducts
  <2> HIDE DEF row
  <2>5. scalarProducts(row, bRowOfOwner)
          = FlattenSeq([p \in DOMAIN row |->
              [t \in DOMAIN bRowOfOwner(row[p].column) |->
                [column |-> bRowOfOwner(row[p].column)[t].column,
                 value  |-> row[p].value * bRowOfOwner(row[p].column)[t].value]]])
    BY DEF scalarProducts
  <2>6. ASSUME NEW p \in DOMAIN row
        PROVE  bRowOfOwner(row[p].column) = Row(b, row[p].column)
    <3>1. row[p] \in EntryBelow(b.rows)
      BY <2>3
    <3>2. row[p].column \in 0 .. b.rows - 1
      BY <3>1 DEF EntryBelow
    <3>3. QED
      BY <1>6, <3>2
  <2>7. [p \in DOMAIN row |->
          [t \in DOMAIN bRowOfOwner(row[p].column) |->
            [column |-> bRowOfOwner(row[p].column)[t].column,
             value  |-> row[p].value * bRowOfOwner(row[p].column)[t].value]]]
        = [p \in DOMAIN row |->
            [t \in DOMAIN Row(b, row[p].column) |->
              [column |-> Row(b, row[p].column)[t].column,
               value  |-> row[p].value * Row(b, row[p].column)[t].value]]]
    BY <2>6
  <2>8. QED
    BY <2>2, <2>4, <2>5, <2>7
<1>8. ASSUME NEW k \in 1 .. n
      PROVE  finishedRow(accumulated(scalarProducts(Row(localA[r], k - 1), bRowOfOwner)))
               = ResultRow(a, b, first + (k - 1))
  BY <1>7 DEF ResultRow
<1>9. spgemm(r) = CsrMatrix([k \in 1 .. n |->
                     finishedRow(accumulated(
                       scalarProducts(Row(localA[r], k - 1), bRowOfOwner)))], b.cols)
  BY <1>4, <1>5 DEF spgemm
<1>10. Share(a, b, r) = CsrMatrix([k \in 1 .. n |-> ResultRow(a, b, first + (k - 1))], b.cols)
  BY DEF Share, n, first
<1>11. [k \in 1 .. n |-> finishedRow(accumulated(
                           scalarProducts(Row(localA[r], k - 1), bRowOfOwner)))]
         = [k \in 1 .. n |-> ResultRow(a, b, first + (k - 1))]
  BY <1>8
<1> QED
  BY <1>9, <1>10, <1>11

-----------------------------------------------------------------------------

\* The entries of the blocks of a matrix are as many as its own.
LEMMA NnzOfCuts ==
  ASSUME NEW m \in AnyCsr, ValidOffsets(m), NEW local, \A r \in Rank : local[r] = Cut(m, r)
  PROVE  nnzOfRanks(local) = Nnz(m)
<1> DEFINE p == [k \in 0 .. Ranks |-> m.rowPtr[Begin(m.rows, k) + 1]]
           s == [k \in 1 .. Ranks |-> Nnz(local[k - 1])]
<1>1. m.rows \in Nat /\ Nnz(m) \in Nat /\ IsPointer(m.rowPtr, m.rows, Nnz(m))
  BY PointerOf
<1>2. /\ Ranks \in Nat
      /\ Begin(m.rows, 0) = 0 /\ Begin(m.rows, Ranks) = m.rows
      /\ \A k \in 0 .. Ranks : Begin(m.rows, k) \in 0 .. m.rows
  BY <1>1, CutsAre
<1>3. \A k \in 0 .. Ranks : p[k] \in Int
  <2>1. \A i \in 1 .. m.rows + 1 : m.rowPtr[i] \in 0 .. Nnz(m)
    BY <1>1, PointerMonotone
  <2>2. \A k \in 0 .. Ranks : Begin(m.rows, k) + 1 \in 1 .. m.rows + 1
    BY <1>1, <1>2
  <2>3. QED
    BY <1>1, <2>1, <2>2
<1>4. \A k \in 1 .. Ranks : s[k] = p[k] - p[k - 1]
  <2> SUFFICES ASSUME NEW k \in 1 .. Ranks PROVE s[k] = p[k] - p[k - 1]
    OBVIOUS
  <2>1. k - 1 \in Rank /\ k - 1 + 1 = k /\ k - 1 \in 0 .. Ranks /\ k \in 0 .. Ranks
    BY <1>2 DEF Rank
  <2>2. Nnz(Cut(m, k - 1)) = m.rowPtr[Begin(m.rows, k - 1 + 1) + 1] - m.rowPtr[Begin(m.rows, k - 1) + 1]
    BY <2>1, CutIs
  <2>3. QED
    BY <2>1, <2>2
<1>5. p[Ranks] = Nnz(m) /\ p[0] = 0
  <2>1. 0 \in 0 .. Ranks /\ Ranks \in 0 .. Ranks
    BY <1>2
  <2>2. QED
    BY <1>1, <1>2, <2>1 DEF IsPointer
<1>6. nnzOfRanks(local) = SumUp(s, Ranks)
  <2>1. [i \in 1 .. Ranks |-> s[i]] = s
    OBVIOUS
  <2>2. QED
    BY <2>1 DEF nnzOfRanks, SumUp
<1> HIDE DEF p, s
<1>7. SumUp(s, Ranks) = p[Ranks] - p[0]
  BY <1>2, <1>3, <1>4, Telescope
<1> QED
  BY <1>1, <1>5, <1>6, <1>7

\* The products each entry of A takes, and how many the first of them take.
WorkOf(x, y) == [i \in 1 .. Nnz(x) |-> RowLength(y, x.columns[i])]

WorkUpTo(x, y, row) == SumUp(WorkOf(x, y), x.rowPtr[row + 1])

LEMMA WorkIs ==
  ASSUME NEW x, NEW y, Multipliable(x, y)
  PROVE  /\ Ints(WorkOf(x, y), Nnz(x)) /\ Nnz(x) \in Nat
         /\ \A row \in 0 .. x.rows : /\ x.rowPtr[row + 1] \in 0 .. Nnz(x)
                                      /\ WorkUpTo(x, y, row) \in Int
         /\ WorkUpTo(x, y, 0) = 0
         /\ WorkUpTo(x, y, x.rows) = scalarMultiplicationCount(x, y)
<1>1. /\ x \in AnyCsr /\ y \in AnyCsr /\ ValidOffsets(x) /\ ValidOffsets(y)
      /\ x.rows \in Nat /\ y.rows \in Nat
      /\ \A k \in 0 .. x.rows - 1 : Row(x, k) \in Seq(EntryBelow(y.rows))
  BY MultipliableIs
<1>2. /\ Nnz(x) \in Nat /\ IsPointer(x.rowPtr, x.rows, Nnz(x))
      /\ x.columns \in Seq(Int) /\ Len(x.columns) = Nnz(x)
  BY <1>1, PointerOf
<1>3. ASSUME NEW i \in 1 .. Nnz(x) PROVE x.columns[i] \in 0 .. y.rows - 1
  <2>1. PICK k \in 1 .. x.rows : x.rowPtr[k] < i /\ i <= x.rowPtr[k + 1]
    BY <1>1, <1>2, PointerWithin
  <2>2. k - 1 \in 0 .. x.rows - 1 /\ k - 1 + 1 = k /\ k - 1 + 2 = k + 1
    BY <1>1
  <2>3. x.rowPtr[k] \in Int /\ x.rowPtr[k + 1] \in Int
    <3>1. k \in 1 .. x.rows + 1 /\ k + 1 \in 1 .. x.rows + 1
      BY <1>1
    <3>2. QED
      BY <1>2, <3>1 DEF IsPointer
  <2> DEFINE t == i - x.rowPtr[k]
  <2>4. t \in 1 .. RowLength(x, k - 1) /\ x.rowPtr[k] + t = i
    BY <2>1, <2>2, <2>3 DEF RowLength
  <2>5. /\ DOMAIN Row(x, k - 1) = 1 .. RowLength(x, k - 1)
        /\ Row(x, k - 1)[t] = [column |-> x.columns[x.rowPtr[k - 1 + 1] + t],
                               value  |-> x.values[x.rowPtr[k - 1 + 1] + t]]
    <3> HIDE DEF t
    <3>1. QED
      BY <1>1, <2>2, <2>4, RowIs
  <2>6. Row(x, k - 1)[t] \in EntryBelow(y.rows)
    <3> HIDE DEF t
    <3>1. Row(x, k - 1) \in Seq(EntryBelow(y.rows))
      BY <1>1, <2>2
    <3>2. Len(Row(x, k - 1)) = RowLength(x, k - 1)
      BY <1>1, <2>2, RowIs
    <3>3. QED
      BY ONLY <2>4, <3>1, <3>2, RowParts
  <2>7. Row(x, k - 1)[t].column = x.columns[i]
    BY <2>2, <2>4, <2>5
  <2>8. QED
    BY <2>6, <2>7 DEF EntryBelow
<1>4. Ints(WorkOf(x, y), Nnz(x))
  <2>1. ASSUME NEW i \in 1 .. Nnz(x) PROVE RowLength(y, x.columns[i]) \in Int
    <3>1. RowLength(y, x.columns[i]) \in Nat
      BY <1>1, <1>3, RowIs
    <3>2. QED
      BY <3>1
  <2>2. QED
    BY <2>1 DEF Ints, WorkOf
<1>5. \A row \in 0 .. x.rows : x.rowPtr[row + 1] \in 0 .. Nnz(x)
  <2>1. \A i \in 1 .. x.rows + 1 : x.rowPtr[i] \in 0 .. Nnz(x)
    BY <1>1, <1>2, PointerMonotone
  <2>2. \A row \in 0 .. x.rows : row + 1 \in 1 .. x.rows + 1
    BY <1>1
  <2>3. QED
    BY <2>1, <2>2
<1>6. \A n \in 0 .. Nnz(x) : SumUp(WorkOf(x, y), n) \in Int
  BY <1>2, <1>4, SumRec
<1>7. SumUp(WorkOf(x, y), 0) = 0
  BY <1>2, <1>4, SumRec
<1>8. x.rowPtr[0 + 1] = 0 /\ x.rowPtr[x.rows + 1] = Nnz(x)
  BY <1>2 DEF IsPointer
<1>9. SumUp(WorkOf(x, y), Nnz(x)) = scalarMultiplicationCount(x, y)
  <2>1. DOMAIN x.columns = 1 .. Nnz(x)
    BY <1>2
  <2>2. [i \in 1 .. Nnz(x) |-> WorkOf(x, y)[i]]
          = [p \in DOMAIN x.columns |-> RowLength(y, x.columns[p])]
    BY <2>1 DEF WorkOf
  <2>3. QED
    BY <2>2 DEF SumUp, scalarMultiplicationCount
<1> QED
  BY <1>2, <1>4, <1>5, <1>6, <1>7, <1>8, <1>9 DEF WorkUpTo

\* The products the entries of one row take.
LEMMA WorkOfRow ==
  ASSUME NEW x, NEW y, Multipliable(x, y), NEW row \in 0 .. x.rows - 1
  PROVE  SumOf([p \in DOMAIN Row(x, row) |-> RowLength(y, Row(x, row)[p].column)])
           = WorkUpTo(x, y, row + 1) - WorkUpTo(x, y, row)
<1> DEFINE n == RowLength(x, row)
           first == x.rowPtr[row + 1]
           last == x.rowPtr[row + 2]
           u == [p \in 1 .. n |-> RowLength(y, Row(x, row)[p].column)]
           w == WorkOf(x, y)
<1>1. x \in AnyCsr /\ ValidOffsets(x) /\ x.rows \in Nat
  BY MultipliableIs
<1>2. Ints(w, Nnz(x)) /\ Nnz(x) \in Nat
  BY WorkIs
<1>3. first \in 0 .. Nnz(x) /\ last \in 0 .. Nnz(x)
  <2>1. row \in 0 .. x.rows /\ row + 1 \in 0 .. x.rows /\ row + 1 + 1 = row + 2
    BY <1>1
  <2>2. x.rowPtr[row + 1 + 1] \in 0 .. Nnz(x) /\ x.rowPtr[row + 1] \in 0 .. Nnz(x)
    BY <2>1, WorkIs
  <2>3. QED
    BY <2>1, <2>2
<1>4. /\ n \in Nat /\ DOMAIN Row(x, row) = 1 .. n
      /\ \A i \in 1 .. n : /\ first + i \in 1 .. Nnz(x)
                            /\ Row(x, row)[i].column = x.columns[first + i]
  <2>1. /\ n \in Nat /\ DOMAIN Row(x, row) = 1 .. n
        /\ \A i \in 1 .. n :
             /\ first + i \in 1 .. Nnz(x)
             /\ Row(x, row)[i] = [column |-> x.columns[first + i], value |-> x.values[first + i]]
    BY <1>1, RowIs
  <2>2. QED
    BY <2>1
<1>5. last = first + n /\ first \in Nat
  <2>1. n = last - first
    BY DEF RowLength
  <2>2. QED
    BY <1>2, <1>3, <2>1
<1>6. Stretch(u, n, w, first)
  <2> SUFFICES ASSUME NEW i \in 1 .. n PROVE u[i] = w[first + i]
    BY DEF Stretch
  <2>1. w[first + i] = RowLength(y, x.columns[first + i])
    BY <1>4 DEF WorkOf
  <2>2. QED
    BY <1>4, <2>1
<1>7. SumOf([p \in DOMAIN Row(x, row) |-> RowLength(y, Row(x, row)[p].column)]) = SumUp(u, n)
  <2>1. [p \in DOMAIN Row(x, row) |-> RowLength(y, Row(x, row)[p].column)] = u
    BY <1>4
  <2>2. [i \in 1 .. n |-> u[i]] = u
    OBVIOUS
  <2>3. QED
    BY <2>1, <2>2 DEF SumUp
<1>8. WorkUpTo(x, y, row + 1) = SumUp(w, last) /\ WorkUpTo(x, y, row) = SumUp(w, first)
  <2>1. row + 1 + 1 = row + 2
    BY <1>1
  <2>2. QED
    BY <2>1 DEF WorkUpTo
<1> HIDE DEF u, w, n, first, last
<1>9. SumUp(u, n) = SumUp(w, last) - SumUp(w, first)
  BY <1>2, <1>3, <1>4, <1>5, <1>6, SumSegment
<1> QED
  BY <1>7, <1>8, <1>9

\* The ranks' products add up to those of the serial program.
LEMMA WorkAgrees ==
  ASSUME Multipliable(a, b)
  PROVE  SumOf([k \in 1 .. Ranks |-> rowPartitionWork(outputBlocks[k - 1])])
           = scalarMultiplicationCount(a, b)
<1> DEFINE p == [k \in 0 .. Ranks |-> WorkUpTo(a, b, Begin(a.rows, k))]
           s == [k \in 1 .. Ranks |-> rowPartitionWork(outputBlocks[k - 1])]
<1>1. a.rows \in Nat
  BY MultipliableIs
<1>2. /\ Ranks \in Nat
      /\ Begin(a.rows, 0) = 0 /\ Begin(a.rows, Ranks) = a.rows
      /\ \A k \in 0 .. Ranks : Begin(a.rows, k) \in 0 .. a.rows
  BY <1>1, CutsAre
<1>3. \A k \in 0 .. Ranks : p[k] \in Int
  BY <1>2, WorkIs
<1>4. ASSUME NEW r \in Rank
      PROVE  rowPartitionWork(outputBlocks[r])
               = WorkUpTo(a, b, Begin(a.rows, r + 1)) - WorkUpTo(a, b, Begin(a.rows, r))
  <2> DEFINE block == outputBlocks[r]
             n == block.rows
             first == Begin(a.rows, r)
             q == [k \in 0 .. n |-> WorkUpTo(a, b, first + k)]
             t == [k \in 1 .. n |->
                    SumOf([i \in DOMAIN Row(a, first + k - 1) |->
                            RowLength(b, Row(a, first + k - 1)[i].column)])]
  <2>1. block.firstRow = first /\ n \in Nat /\ Begin(a.rows, r + 1) = first + n
    BY <1>1, CutsAre DEF outputBlocks
  <2>2. first \in 0 .. a.rows /\ Begin(a.rows, r + 1) \in 0 .. a.rows
    <3>1. r \in 0 .. Ranks /\ r + 1 \in 0 .. Ranks
      BY <1>2 DEF Rank
    <3>2. QED
      BY <1>2, <3>1
  <2>3. rowPartitionWork(block) = SumOf(t)
    BY <2>1 DEF rowPartitionWork
  <2> HIDE DEF block, n, first
  <2>4. [i \in 1 .. n |-> t[i]] = t
    OBVIOUS
  <2>5. \A k \in 0 .. n : q[k] \in Int
    <3>1. \A k \in 0 .. n : first + k \in 0 .. a.rows
      BY <1>1, <2>1, <2>2
    <3>2. QED
      BY <3>1, WorkIs
  <2>6. \A k \in 1 .. n : t[k] = q[k] - q[k - 1]
    <3> SUFFICES ASSUME NEW k \in 1 .. n PROVE t[k] = q[k] - q[k - 1]
      OBVIOUS
    <3>1. /\ first + k - 1 \in 0 .. a.rows - 1 /\ first + k - 1 + 1 = first + k
          /\ first + (k - 1) = first + k - 1 /\ k - 1 \in 0 .. n /\ k \in 0 .. n
      BY <1>1, <2>1, <2>2
    <3>2. t[k] = WorkUpTo(a, b, first + k - 1 + 1) - WorkUpTo(a, b, first + k - 1)
      BY <3>1, WorkOfRow
    <3>3. QED
      BY <3>1, <3>2
  <2>7. /\ q[n] = WorkUpTo(a, b, Begin(a.rows, r + 1))
        /\ q[0] = WorkUpTo(a, b, Begin(a.rows, r))
    <3>1. 0 \in 0 .. n /\ n \in 0 .. n /\ first + 0 = first
      BY <2>1, <2>2
    <3>2. QED
      BY <2>1, <3>1 DEF first
  <2>8. SumOf(t) = SumUp(t, n)
    BY <2>4 DEF SumUp
  <2> HIDE DEF q, t
  <2>9. SumUp(t, n) = q[n] - q[0]
    BY <2>1, <2>5, <2>6, Telescope
  <2>10. QED
    BY <2>3, <2>7, <2>8, <2>9 DEF block
<1>5. \A k \in 1 .. Ranks : s[k] = p[k] - p[k - 1]
  <2> SUFFICES ASSUME NEW k \in 1 .. Ranks PROVE s[k] = p[k] - p[k - 1]
    OBVIOUS
  <2>1. k - 1 \in Rank /\ k - 1 + 1 = k /\ k - 1 \in 0 .. Ranks /\ k \in 0 .. Ranks
    BY <1>2 DEF Rank
  <2>2. rowPartitionWork(outputBlocks[k - 1])
          = WorkUpTo(a, b, Begin(a.rows, k - 1 + 1)) - WorkUpTo(a, b, Begin(a.rows, k - 1))
    BY <1>4, <2>1
  <2>3. QED
    BY <2>1, <2>2
<1>6. p[Ranks] = scalarMultiplicationCount(a, b) /\ p[0] = 0
  <2>1. 0 \in 0 .. Ranks /\ Ranks \in 0 .. Ranks
    BY <1>2
  <2>2. QED
    BY <1>2, <2>1, WorkIs
<1>7. SumOf(s) = SumUp(s, Ranks)
  <2>1. [i \in 1 .. Ranks |-> s[i]] = s
    OBVIOUS
  <2>2. QED
    BY <2>1 DEF SumUp
<1>8. s = [k \in 1 .. Ranks |-> rowPartitionWork(outputBlocks[k - 1])]
  OBVIOUS
<1>9. scalarMultiplicationCount(a, b) \in Int
  BY <1>1, <1>2, <1>3, <1>6
<1> HIDE DEF p, s
<1>10. SumUp(s, Ranks) = p[Ranks] - p[0]
  BY <1>2, <1>3, <1>5, Telescope
<1> QED
  BY <1>6, <1>7, <1>8, <1>9, <1>10

-----------------------------------------------------------------------------
(* A baseline product                                                      *)

\* The first blocks of the result, put together.
NnzOfShares == [k \in 1 .. Ranks |-> Nnz(Share(a, b, k - 1))]

Gathered(c, n) ==
  /\ c \in AnyCsr /\ ValidOffsets(c)
  /\ c.rows = Begin(a.rows, n)
  /\ \A k \in 0 .. c.rows - 1 : Row(c, k) = ResultRow(a, b, k)
  /\ Nnz(c) = SumUp(NnzOfShares, n)

LEMMA NnzOfSharesIs ==
  ASSUME Multipliable(a, b)
  PROVE  Ints(NnzOfShares, Ranks) /\ Ranks \in Nat \ {0}
<1>1. Ranks \in Nat \ {0}
  BY RanksAssumption
<1>2. ASSUME NEW k \in 1 .. Ranks PROVE NnzOfShares[k] \in Int
  <2>1. k - 1 \in Rank
    BY <1>1 DEF Rank
  <2>2. Share(a, b, k - 1) \in AnyCsr /\ ValidOffsets(Share(a, b, k - 1))
    BY <2>1, ShareIs
  <2>3. Nnz(Share(a, b, k - 1)) \in Nat
    BY <2>2, PointerOf
  <2>4. QED
    BY <2>3 DEF NnzOfShares
<1> QED
  BY <1>1, <1>2 DEF Ints

LEMMA GatheredNone ==
  ASSUME Multipliable(a, b)
  PROVE  Gathered(NoMatrix, 0)
<1>1. <<>> \in Seq(Seq(Entry)) /\ Len(<<>>) = 0 /\ 0 \in Nat
  OBVIOUS
<1>2. /\ NoMatrix \in AnyCsr /\ ValidOffsets(NoMatrix) /\ NoMatrix.rows = 0
  BY <1>1, CsrMatrixIs DEF NoMatrix
<1>3. Begin(a.rows, 0) = 0
  BY MultipliableIs, CutsAre
<1>4. Nnz(NoMatrix) = 0
  <2>1. IsPointer(NoMatrix.rowPtr, 0, Nnz(NoMatrix))
    BY <1>2, PointerOf
  <2>2. QED
    BY <2>1 DEF IsPointer
<1>5. SumUp(NnzOfShares, 0) = 0
  BY NnzOfSharesIs, SumRec
<1> QED
  BY <1>2, <1>3, <1>4, <1>5 DEF Gathered

LEMMA GatheredMore ==
  ASSUME Multipliable(a, b), NEW c, NEW r \in Rank, Gathered(c, r)
  PROVE  /\ Gathered(appendCsrBlock(c, Share(a, b, r)), r + 1)
         /\ appendCsrBlock(c, Share(a, b, r)).cols = b.cols
<1> DEFINE block == Share(a, b, r)
           d == appendCsrBlock(c, block)
           n == partitionRows(a.rows, Ranks)[r].rows
<1>1. /\ block \in AnyCsr /\ ValidOffsets(block) /\ block.rows = n /\ block.cols = b.cols
      /\ \A k \in 0 .. n - 1 : Row(block, k) = ResultRow(a, b, Begin(a.rows, r) + k)
  BY ShareIs
<1>2. /\ c \in AnyCsr /\ ValidOffsets(c) /\ c.rows = Begin(a.rows, r)
      /\ \A k \in 0 .. c.rows - 1 : Row(c, k) = ResultRow(a, b, k)
      /\ Nnz(c) = SumUp(NnzOfShares, r)
  BY DEF Gathered
<1>3. n \in Nat /\ Begin(a.rows, r + 1) = Begin(a.rows, r) + n
  BY MultipliableIs, CutsAre
<1>4. c.rows \in Nat
  BY <1>2, PointerOf
<1>5. SumUp(NnzOfShares, r + 1) = SumUp(NnzOfShares, r) + Nnz(block)
  <2>1. r \in Int /\ r + 1 \in 1 .. Ranks /\ r + 1 - 1 = r
    BY RanksAssumption DEF Rank
  <2>2. \A k \in 1 .. Ranks : SumUp(NnzOfShares, k) = SumUp(NnzOfShares, k - 1) + NnzOfShares[k]
    BY NnzOfSharesIs, SumRec
  <2>3. \A k \in 1 .. Ranks : NnzOfShares[k] = Nnz(Share(a, b, k - 1))
    BY DEF NnzOfShares
  <2>4. NnzOfShares[r + 1] = Nnz(Share(a, b, r))
    BY <2>1, <2>3
  <2>5. SumUp(NnzOfShares, r + 1) = SumUp(NnzOfShares, r) + NnzOfShares[r + 1]
    BY <2>1, <2>2
  <2>6. QED
    BY <2>4, <2>5
<1> HIDE DEF block, n
<1>6. /\ d \in AnyCsr /\ ValidOffsets(d) /\ d.rows = c.rows + block.rows
      /\ d.cols = block.cols /\ Nnz(d) = Nnz(c) + Nnz(block)
      /\ \A k \in 0 .. c.rows - 1 : Row(d, k) = Row(c, k)
      /\ \A k \in 0 .. block.rows - 1 : Row(d, c.rows + k) = Row(block, k)
  BY <1>1, <1>2, AppendIs
<1> HIDE DEF d
<1>7. ASSUME NEW k \in 0 .. d.rows - 1 PROVE Row(d, k) = ResultRow(a, b, k)
  <2>1. CASE k < c.rows
    <3>1. k \in 0 .. c.rows - 1
      BY <1>1, <1>3, <1>4, <1>6, <2>1
    <3>2. QED
      BY <1>2, <1>6, <3>1
  <2>2. CASE k >= c.rows
    <3>1. k - c.rows \in 0 .. n - 1 /\ c.rows + (k - c.rows) = k
      BY <1>1, <1>3, <1>4, <1>6, <2>2
    <3>2. Row(d, c.rows + (k - c.rows)) = Row(block, k - c.rows)
      BY <1>1, <1>6, <3>1
    <3>3. Row(block, k - c.rows) = ResultRow(a, b, c.rows + (k - c.rows))
      BY <1>1, <1>2, <3>1
    <3>4. QED
      BY <3>1, <3>2, <3>3
  <2>3. QED
    BY <1>1, <1>3, <1>4, <1>6, <2>1, <2>2
<1>8. d.rows = Begin(a.rows, r + 1) /\ Nnz(d) = SumUp(NnzOfShares, r + 1) /\ d.cols = b.cols
  BY <1>1, <1>2, <1>3, <1>5, <1>6
<1>9. Gathered(d, r + 1)
  BY <1>6, <1>7, <1>8 DEF Gathered
<1> QED
  BY <1>8, <1>9 DEF d, block

LEMMA GatheredAll ==
  ASSUME Multipliable(a, b), NEW c, Gathered(c, Ranks), c.cols = b.cols
  PROVE  /\ c = serialSpgemm(a, b)
         /\ IsProduct(c, a, b)
<1> DEFINE d == serialSpgemm(a, b)
<1>1. /\ d \in AnyCsr /\ ValidOffsets(d) /\ d.rows = a.rows /\ d.cols = b.cols
      /\ \A k \in 0 .. a.rows - 1 : Row(d, k) = ResultRow(a, b, k)
      /\ IsProduct(d, a, b)
  BY SerialIs
<1>2. /\ c \in AnyCsr /\ ValidOffsets(c) /\ c.rows = a.rows
      /\ \A k \in 0 .. c.rows - 1 : Row(c, k) = ResultRow(a, b, k)
  BY MultipliableIs, CutsAre DEF Gathered
<1> HIDE DEF d
<1>3. \A k \in 0 .. c.rows - 1 : Row(c, k) = Row(d, k)
  BY <1>1, <1>2
<1>4. c.rows = d.rows /\ c.cols = d.cols
  BY <1>1, <1>2
<1>5. c = d
  BY <1>1, <1>2, <1>3, <1>4, SameRows
<1> QED
  BY <1>1, <1>5 DEF d

\* The counts rank 0 collects are those of the blocks.
LEMMA CountsAgree ==
  ASSUME Multipliable(a, b), Gathered(globalC, Ranks),
         \A r \in Rank : /\ localA[r] = Cut(a, r) /\ localB[r] = Cut(b, r)
                         /\ localC[r] = Share(a, b, r)
  PROVE  metricsAgree
<1>1. a \in AnyCsr /\ b \in AnyCsr /\ ValidOffsets(a) /\ ValidOffsets(b)
  BY MultipliableIs
<1>2. nnzOfRanks(localA) = Nnz(a) /\ nnzOfRanks(localB) = Nnz(b)
  BY <1>1, NnzOfCuts
<1>3. nnzOfRanks(localC) = Nnz(globalC)
  <2>1. \A k \in 1 .. Ranks : k - 1 \in Rank
    BY RanksAssumption DEF Rank
  <2>2. [k \in 1 .. Ranks |-> Nnz(localC[k - 1])] = [i \in 1 .. Ranks |-> NnzOfShares[i]]
    BY <2>1 DEF NnzOfShares
  <2>3. QED
    BY <2>2 DEF nnzOfRanks, SumUp, Gathered
<1> QED
  BY <1>2, <1>3, WorkAgrees DEF metricsAgree

-----------------------------------------------------------------------------

Distributing(r) == pc[r] \in {"distributeA", "distributeB"}

PlaceInv ==
  /\ pc \in [Rank -> {"distributeA", "distributeB", "multiply", "gather", "receive", "done"}]
  /\ \A r \in Peer : pc[r] # "receive"
  /\ pc[0] = "distributeA" => \A r \in Rank : pc[r] = "distributeA"
  /\ pc[0] = "distributeB" => \A r \in Rank : Distributing(r)
  /\ \A r \in Rank : pc[r] \in {"gather", "receive", "done"} =>
       \A q \in Rank : ~Distributing(q)
  /\ nextPeer \in 1 .. Ranks
  /\ \A r \in 1 .. nextPeer - 1 : pc[r] = "done"
  /\ nextPeer # 1 => pc[0] \in {"receive", "done"}
  /\ pc[0] = "done" => nextPeer = Ranks

BlocksInv ==
  /\ DOMAIN localA = Rank /\ DOMAIN localB = Rank /\ DOMAIN localC = Rank
  /\ \A r \in Rank :
       /\ pc[r] # "distributeA" => localA[r] = Cut(a, r)
       /\ ~Distributing(r) => localB[r] = Cut(b, r)
       /\ pc[r] \in {"gather", "receive", "done"} => localC[r] = Share(a, b, r)

APending(r) == r # 0 /\ pc[0] # "distributeA" /\ pc[r] = "distributeA"

BPending(r) == r # 0 /\ ~Distributing(0) /\ Distributing(r)

CPending(r) == r # 0 /\ pc[r] = "done" /\ nextPeer <= r

DueA(r, part) == IF APending(r) THEN Shown(Cut(a, r), part) ELSE <<>>

DueB(r, part) == IF BPending(r) THEN Shown(Cut(b, r), part) ELSE <<>>

DueC(r, part) == IF CPending(r) THEN Shown(Share(a, b, r), part) ELSE <<>>

OnWire(r, part) ==
  /\ wire[<<"out", r, part>>] = DueA(r, part) \o DueB(r, part)
  /\ wire[<<"back", r, part>>] = DueC(r, part)

WireInv ==
  /\ DOMAIN wire = Way \X Rank \X Part
  /\ \A r \in Rank, part \in Part : OnWire(r, part)

GatherInv ==
  pc[0] \in {"receive", "done"} => Gathered(globalC, nextPeer) /\ globalC.cols = b.cols

BaselineIInv ==
  /\ Multipliable(a, b)
  /\ PlaceInv
  /\ BlocksInv
  /\ WireInv
  /\ GatherInv

-----------------------------------------------------------------------------

LEMMA DueType ==
  ASSUME Multipliable(a, b), NEW r \in Rank, NEW part \in Part
  PROVE  /\ Cut(a, r) \in AnyCsr /\ ValidOffsets(Cut(a, r))
         /\ Cut(b, r) \in AnyCsr /\ ValidOffsets(Cut(b, r))
         /\ Share(a, b, r) \in AnyCsr /\ ValidOffsets(Share(a, b, r))
         /\ DueA(r, part) \in Payloads /\ DueB(r, part) \in Payloads
         /\ DueC(r, part) \in Payloads
<1>1. a \in AnyCsr /\ b \in AnyCsr /\ ValidOffsets(a) /\ ValidOffsets(b)
  BY MultipliableIs
<1>2. Cut(a, r) \in AnyCsr /\ ValidOffsets(Cut(a, r))
  BY <1>1, CutIs
<1>3. Cut(b, r) \in AnyCsr /\ ValidOffsets(Cut(b, r))
  BY <1>1, CutIs
<1>4. Share(a, b, r) \in AnyCsr /\ ValidOffsets(Share(a, b, r))
  BY ShareIs
<1>5. /\ Shown(Cut(a, r), part) \in Payloads /\ Shown(Cut(b, r), part) \in Payloads
      /\ Shown(Share(a, b, r), part) \in Payloads
  BY <1>2, <1>3, <1>4, PartsAre
<1>6. <<>> \in Payloads
  BY DEF Payloads
<1> QED
  BY <1>2, <1>3, <1>4, <1>5, <1>6 DEF DueA, DueB, DueC

LEMMA Joined ==
  ASSUME NEW s \in Payloads
  PROVE  s \o <<>> = s /\ <<>> \o s = s
BY DEF Payloads

LEMMA NothingJoined == <<>> \o <<>> = <<>>
OBVIOUS

\* The wire with a matrix more for each of the peers.
WithSent(w, way, peers, matrixFor) ==
  /\ DOMAIN w = Way \X Rank \X Part
  /\ \A v \in Way, r \in Rank, part \in Part :
       w[<<v, r, part>>] =
         IF v = way /\ r \in peers /\ Parts(matrixFor[r])[part] # <<>>
         THEN Append(wire[<<v, r, part>>], Parts(matrixFor[r])[part])
         ELSE wire[<<v, r, part>>]

LEMMA SentIs ==
  ASSUME NEW way, NEW peers, NEW matrixFor, DOMAIN wire = Way \X Rank \X Part
  PROVE  WithSent(Sent(way, peers, matrixFor), way, peers, matrixFor)
<1> DEFINE w == Sent(way, peers, matrixFor)
<1>1. DOMAIN w = Way \X Rank \X Part
  BY DEF Sent
<1>2. ASSUME NEW v \in Way, NEW r \in Rank, NEW part \in Part
      PROVE  w[<<v, r, part>>] =
               IF v = way /\ r \in peers /\ Parts(matrixFor[r])[part] # <<>>
               THEN Append(wire[<<v, r, part>>], Parts(matrixFor[r])[part])
               ELSE wire[<<v, r, part>>]
  <2>1. <<v, r, part>> \in DOMAIN wire
    OBVIOUS
  <2>2. QED
    BY <2>1 DEF Sent
<1> QED
  BY <1>1, <1>2 DEF WithSent

\* The wire with the same on every link but those of one way to or from one
\* rank.
OthersKept(w, way, peer) ==
  /\ DOMAIN w = Way \X Rank \X Part
  /\ \A v \in Way, r \in Rank, part \in Part :
       v # way \/ r # peer => w[<<v, r, part>>] = wire[<<v, r, part>>]

LEMMA TakenIs ==
  ASSUME NEW way, NEW peer, DOMAIN wire = Way \X Rank \X Part
  PROVE  OthersKept(Taken(way, peer), way, peer)
<1> DEFINE w == Taken(way, peer)
<1>1. DOMAIN w = Way \X Rank \X Part
  BY DEF Taken
<1>2. ASSUME NEW v \in Way, NEW r \in Rank, NEW part \in Part, v # way \/ r # peer
      PROVE  w[<<v, r, part>>] = wire[<<v, r, part>>]
  <2>1. <<v, r, part>> \in DOMAIN wire
    OBVIOUS
  <2>2. QED
    BY <1>2, <2>1 DEF Taken
<1> QED
  BY <1>1, <1>2 DEF OthersKept

LEMMA SentAppends ==
  ASSUME NEW m \in AnyCsr, ValidOffsets(m), NEW part \in Part, NEW s \in Payloads
  PROVE  (IF Parts(m)[part] # <<>> THEN Append(s, Parts(m)[part]) ELSE s)
           = s \o Shown(m, part)
<1>1. CASE Parts(m)[part] = <<>>
  BY <1>1, Joined DEF Shown
<1>2. CASE Parts(m)[part] # <<>>
  <2>1. Shown(m, part) = <<Parts(m)[part]>> /\ Shown(m, part) \in Payloads
    BY <1>2, PartsAre DEF Shown
  <2>2. Parts(m)[part] \in Seq(Int)
    <3>1. m.rowPtr \in Seq(Int) /\ m.columns \in Seq(Int) /\ m.values \in Seq(Int)
          /\ <<m.rows, m.cols, Nnz(m)>> \in Seq(Int)
      BY PointerOf DEF IsPointer
    <3>2. QED
      BY <3>1, PartsAre DEF Part
  <2>3. ASSUME NEW x \in Seq(Int) PROVE Append(s, x) = s \o <<x>>
    BY DEF Payloads
  <2>4. QED
    BY <1>2, <2>1, <2>2, <2>3
<1> QED
  BY <1>1, <1>2

LEMMA PlacesAre ==
  ASSUME PlaceInv
  PROVE  /\ 0 \in Rank /\ Ranks \in Nat \ {0}
         /\ \A r \in Rank : r \in Int /\ (r # 0 <=> r \in Peer)
         /\ DOMAIN pc = Rank
BY RanksAssumption DEF PlaceInv, Rank, Peer

LEMMA BaselineInitEstablishesIInv ==
  ASSUME Init, \A p \in Products : Multipliable(p.a, p.b)
  PROVE  BaselineIInv
<1>1. 0 \in Rank /\ Ranks \in Nat \ {0}
  BY RanksAssumption DEF Rank
<1>2. Multipliable(a, b)
  BY DEF Init
<1>3. pc = [r \in Rank |-> "distributeA"] /\ nextPeer = 1
  BY DEF Init
<1>4. PlaceInv
  <2>1. pc \in [Rank -> {"distributeA", "distributeB", "multiply", "gather", "receive", "done"}]
        /\ pc[0] = "distributeA" /\ \A r \in Rank : pc[r] = "distributeA"
    BY <1>1, <1>3
  <2>2. nextPeer \in 1 .. Ranks /\ 1 .. nextPeer - 1 = {}
    BY <1>1, <1>3
  <2>3. QED
    BY <1>1, <1>3, <2>1, <2>2 DEF PlaceInv, Peer
<1>5. BlocksInv
  BY <1>3 DEF Init, BlocksInv, Distributing
<1>6. WireInv
  <2>1. DOMAIN wire = Way \X Rank \X Part
    BY DEF Init, NothingInFlight
  <2>2. ASSUME NEW r \in Rank, NEW part \in Part PROVE OnWire(r, part)
    <3>1. ~APending(r) /\ ~BPending(r) /\ ~CPending(r)
      BY <1>1, <1>3 DEF APending, BPending, CPending, Distributing
    <3>2. wire[<<"out", r, part>>] = <<>> /\ wire[<<"back", r, part>>] = <<>>
      BY DEF Init, NothingInFlight, Way
    <3>3. QED
      BY <3>1, <3>2, NothingJoined DEF OnWire, DueA, DueB, DueC
  <2>3. QED
    BY <2>1, <2>2 DEF WireInv
<1>7. GatherInv
  BY <1>1, <1>3 DEF GatherInv
<1> QED
  BY <1>2, <1>4, <1>5, <1>6, <1>7 DEF BaselineIInv

-----------------------------------------------------------------------------

\* What no step changes.
LEMMA SameOperands ==
  ASSUME UNCHANGED <<a, b>>
  PROVE  /\ Multipliable(a, b)' <=> Multipliable(a, b)
         /\ \A r : Cut(a, r)' = Cut(a, r) /\ Cut(b, r)' = Cut(b, r)
                   /\ Share(a, b, r)' = Share(a, b, r)
         /\ \A c, n : Gathered(c, n)' = Gathered(c, n)
<1>1. Multipliable(a, b)' <=> Multipliable(a, b)
  OBVIOUS
<1>2. \A r : Cut(a, r)' = Cut(a, r) /\ Cut(b, r)' = Cut(b, r)
            /\ Share(a, b, r)' = Share(a, b, r)
  OBVIOUS
<1>3. NnzOfShares' = NnzOfShares
  BY DEF NnzOfShares
<1>4. \A c, n : Gathered(c, n)' = Gathered(c, n)
  BY <1>3 DEF Gathered
<1> QED
  BY <1>1, <1>2, <1>4

\* A step that leaves the links and what is due on them alone.
LEMMA WireKept ==
  ASSUME WireInv, UNCHANGED <<wire, a, b>>,
         \A r \in Rank : /\ (APending(r)' <=> APending(r))
                         /\ (BPending(r)' <=> BPending(r))
                         /\ (CPending(r)' <=> CPending(r))
  PROVE  WireInv'
<1>1. ASSUME NEW r \in Rank, NEW part \in Part PROVE OnWire(r, part)'
  <2>1. /\ APending(r)' <=> APending(r)
        /\ BPending(r)' <=> BPending(r)
        /\ CPending(r)' <=> CPending(r)
    OBVIOUS
  <2>2. DueA(r, part)' = DueA(r, part)
    BY <2>1 DEF DueA
  <2>3. DueB(r, part)' = DueB(r, part)
    BY <2>1 DEF DueB
  <2>4. DueC(r, part)' = DueC(r, part)
    BY <2>1 DEF DueC
  <2>5. OnWire(r, part)
    BY DEF WireInv
  <2>6. QED
    BY <2>2, <2>3, <2>4, <2>5 DEF OnWire
<1> QED
  BY <1>1 DEF WireInv

LEMMA DistributeAKeepsIInv == BaselineIInv /\ DistributeA => BaselineIInv'
<1> SUFFICES ASSUME BaselineIInv, DistributeA PROVE BaselineIInv'
  OBVIOUS
<1>1. Multipliable(a, b) /\ PlaceInv /\ BlocksInv /\ WireInv /\ GatherInv
  BY DEF BaselineIInv
<1>2. /\ 0 \in Rank /\ DOMAIN pc = Rank
      /\ \A r \in Rank : r # 0 <=> r \in Peer
  BY <1>1, PlacesAre
<1>3. /\ pc[0] = "distributeA" /\ pc' = [pc EXCEPT ![0] = "distributeB"]
      /\ wire' = Sent("out", Peer, Slices(a, outputBlocks))
      /\ localA' = [localA EXCEPT ![0] = Slices(a, outputBlocks)[0]]
      /\ UNCHANGED <<a, b, localB, localC, nextPeer, globalC>>
  BY DEF DistributeA, Goto
<1>4. \A r \in Rank : Slices(a, outputBlocks)[r] = Cut(a, r)
  BY DEF Slices, Cut, outputBlocks
<1>5. /\ \A r \in Rank : pc[r] = "distributeA"
      /\ pc'[0] = "distributeB" /\ \A r \in Peer : pc'[r] = "distributeA"
      /\ DOMAIN pc' = Rank
  BY <1>1, <1>2, <1>3 DEF PlaceInv, Peer
<1>6. Multipliable(a, b)'
  BY <1>1, <1>3
<1>7. PlaceInv'
  BY <1>1, <1>2, <1>3, <1>5 DEF PlaceInv, Distributing, Peer
<1>8. BlocksInv'
  BY <1>1, <1>2, <1>3, <1>4, <1>5 DEF BlocksInv, Distributing, Peer
<1>9. WireInv'
  <2>1. WithSent(wire', "out", Peer, Slices(a, outputBlocks))
    <3>1. DOMAIN wire = Way \X Rank \X Part
      BY <1>1 DEF WireInv
    <3>2. WithSent(Sent("out", Peer, Slices(a, outputBlocks)),
                   "out", Peer, Slices(a, outputBlocks))
      BY <3>1, SentIs
    <3>3. QED
      BY <1>3, <3>2
  <2>2. ASSUME NEW r \in Rank, NEW part \in Part PROVE OnWire(r, part)'
    <3>1. OnWire(r, part)
      BY <1>1 DEF WireInv
    <3>2. ~APending(r) /\ ~BPending(r) /\ ~CPending(r)
      BY <1>2, <1>5 DEF APending, BPending, CPending, Distributing
    <3>3. wire[<<"out", r, part>>] = <<>> /\ wire[<<"back", r, part>>] = <<>>
      BY <3>1, <3>2, NothingJoined DEF OnWire, DueA, DueB, DueC
    <3>4. /\ APending(r)' <=> r \in Peer
          /\ ~BPending(r)' /\ ~CPending(r)'
      BY <1>2, <1>5 DEF APending, BPending, CPending, Distributing
    <3>5. wire'[<<"back", r, part>>] = <<>>
      BY <2>1, <3>3 DEF WithSent, Way
    <3>6. DueB(r, part)' = <<>> /\ DueC(r, part)' = <<>>
      BY <3>4 DEF DueB, DueC
    <3>7. DueA(r, part)' = IF r \in Peer THEN Shown(Cut(a, r), part) ELSE <<>>
      BY <1>3, <3>4 DEF DueA
    <3>8. wire'[<<"out", r, part>>] = IF r \in Peer THEN Shown(Cut(a, r), part) ELSE <<>>
      <4>1. CASE r \in Peer
        <5>1. wire'[<<"out", r, part>>]
                = IF Parts(Cut(a, r))[part] # <<>>
                  THEN Append(<<>>, Parts(Cut(a, r))[part]) ELSE <<>>
          BY <1>4, <2>1, <3>3, <4>1 DEF WithSent, Way
        <5>2. Cut(a, r) \in AnyCsr /\ ValidOffsets(Cut(a, r)) /\ <<>> \in Payloads
          BY <1>1, DueType DEF Payloads
        <5>3. wire'[<<"out", r, part>>] = <<>> \o Shown(Cut(a, r), part)
          BY <5>1, <5>2, SentAppends
        <5>4. Shown(Cut(a, r), part) \in Payloads
          BY <5>2, PartsAre
        <5>5. QED
          BY <4>1, <5>3, <5>4, Joined
      <4>2. CASE r \notin Peer
        BY <2>1, <3>3, <4>2 DEF WithSent, Way
      <4>3. QED
        BY <4>1, <4>2
    <3>9. wire'[<<"out", r, part>>] \in Payloads
      <4>1. Shown(Cut(a, r), part) \in Payloads /\ <<>> \in Payloads
        BY <1>1, DueType, PartsAre DEF Payloads
      <4>2. QED
        BY <3>8, <4>1
    <3>10. wire'[<<"out", r, part>>] \o <<>> = wire'[<<"out", r, part>>]
      BY <3>9, Joined
    <3>11. QED
      BY <3>5, <3>6, <3>7, <3>8, <3>10 DEF OnWire
  <2>3. QED
    BY <2>1, <2>2 DEF WireInv, WithSent
<1>10. GatherInv'
  BY <1>5 DEF GatherInv
<1> QED
  BY <1>6, <1>7, <1>8, <1>9, <1>10 DEF BaselineIInv

LEMMA DistributeBKeepsIInv == BaselineIInv /\ DistributeB => BaselineIInv'
<1> SUFFICES ASSUME BaselineIInv, DistributeB PROVE BaselineIInv'
  OBVIOUS
<1>1. Multipliable(a, b) /\ PlaceInv /\ BlocksInv /\ WireInv /\ GatherInv
  BY DEF BaselineIInv
<1>2. /\ 0 \in Rank /\ DOMAIN pc = Rank
      /\ \A r \in Rank : r # 0 <=> r \in Peer
  BY <1>1, PlacesAre
<1>3. /\ pc[0] = "distributeB" /\ pc' = [pc EXCEPT ![0] = "multiply"]
      /\ wire' = Sent("out", Peer, Slices(b, bRowBlocks))
      /\ localB' = [localB EXCEPT ![0] = Slices(b, bRowBlocks)[0]]
      /\ UNCHANGED <<a, b, localA, localC, nextPeer, globalC>>
  BY DEF DistributeB, Goto
<1>4. \A r \in Rank : Slices(b, bRowBlocks)[r] = Cut(b, r)
  BY DEF Slices, Cut, bRowBlocks
<1>5. /\ \A r \in Rank : Distributing(r)
      /\ pc'[0] = "multiply" /\ \A r \in Peer : pc'[r] = pc[r]
      /\ DOMAIN pc' = Rank
  BY <1>1, <1>2, <1>3 DEF PlaceInv, Peer
<1>6. Multipliable(a, b)'
  BY <1>1, <1>3
<1>7. PlaceInv'
  BY <1>1, <1>2, <1>3, <1>5 DEF PlaceInv, Distributing, Peer
<1>8. BlocksInv'
  BY <1>1, <1>2, <1>3, <1>4, <1>5 DEF BlocksInv, Distributing, Peer
<1>9. WireInv'
  <2>1. WithSent(wire', "out", Peer, Slices(b, bRowBlocks))
    <3>1. DOMAIN wire = Way \X Rank \X Part
      BY <1>1 DEF WireInv
    <3>2. WithSent(Sent("out", Peer, Slices(b, bRowBlocks)),
                   "out", Peer, Slices(b, bRowBlocks))
      BY <3>1, SentIs
    <3>3. QED
      BY <1>3, <3>2
  <2>2. ASSUME NEW r \in Rank, NEW part \in Part PROVE OnWire(r, part)'
    <3>1. OnWire(r, part)
      BY <1>1 DEF WireInv
    <3>2. ~BPending(r) /\ ~CPending(r)
      BY <1>2, <1>3, <1>5 DEF BPending, CPending, Distributing
    <3>3. DueA(r, part) \in Payloads
      BY <1>1, DueType
    <3>4. /\ wire[<<"out", r, part>>] = DueA(r, part)
          /\ wire[<<"back", r, part>>] = <<>>
      BY <3>1, <3>2, <3>3, Joined DEF OnWire, DueB, DueC
    <3>5. /\ APending(r)' <=> APending(r)
          /\ BPending(r)' <=> r \in Peer
          /\ ~CPending(r)'
      BY <1>2, <1>3, <1>5 DEF APending, BPending, CPending, Distributing
    <3>6. DueA(r, part)' = DueA(r, part)
      BY <1>3, <3>5 DEF DueA
    <3>7. DueB(r, part)' = IF r \in Peer THEN Shown(Cut(b, r), part) ELSE <<>>
      BY <1>3, <3>5 DEF DueB
    <3>8. DueC(r, part)' = <<>>
      BY <3>5 DEF DueC
    <3>9. wire'[<<"back", r, part>>] = <<>>
      BY <2>1, <3>4 DEF WithSent, Way
    <3>10. wire'[<<"out", r, part>>] = DueA(r, part) \o DueB(r, part)'
      <4>1. CASE r \in Peer
        <5>1. wire'[<<"out", r, part>>]
                = IF Parts(Cut(b, r))[part] # <<>>
                  THEN Append(DueA(r, part), Parts(Cut(b, r))[part]) ELSE DueA(r, part)
          BY <1>4, <2>1, <3>4, <4>1 DEF WithSent, Way
        <5>2. Cut(b, r) \in AnyCsr /\ ValidOffsets(Cut(b, r))
          BY <1>1, DueType
        <5>3. wire'[<<"out", r, part>>] = DueA(r, part) \o Shown(Cut(b, r), part)
          BY <3>3, <5>1, <5>2, SentAppends
        <5>4. QED
          BY <3>7, <4>1, <5>3
      <4>2. CASE r \notin Peer
        <5>1. wire'[<<"out", r, part>>] = DueA(r, part)
          BY <2>1, <3>4, <4>2 DEF WithSent, Way
        <5>2. QED
          BY <3>3, <3>7, <4>2, <5>1, Joined
      <4>3. QED
        BY <4>1, <4>2
    <3>11. QED
      BY <3>6, <3>8, <3>9, <3>10 DEF OnWire
  <2>3. QED
    BY <2>1, <2>2 DEF WireInv, WithSent
<1>10. GatherInv'
  BY <1>5 DEF GatherInv
<1> QED
  BY <1>6, <1>7, <1>8, <1>9, <1>10 DEF BaselineIInv

\* A block of A that arrived is the rank's, and what follows it is of B.
LEMMA ArrivedA ==
  ASSUME BaselineIInv, NEW r \in Rank, r # 0, pc[r] = "distributeA", Arrived("out", r)
  PROVE  /\ APending(r)
         /\ Received("out", r) = Cut(a, r)
         /\ \A part \in Part : Taken("out", r)[<<"out", r, part>>] = DueB(r, part)
<1>1. Multipliable(a, b) /\ WireInv
  BY DEF BaselineIInv
<1>2. \A part \in Part : wire[<<"out", r, part>>] = DueA(r, part) \o DueB(r, part)
  BY <1>1 DEF WireInv, OnWire
<1>3. APending(r)
  <2> SUFFICES ASSUME ~APending(r) PROVE FALSE
    OBVIOUS
  <2>1. ~BPending(r)
    BY DEF APending, BPending, Distributing
  <2>2. wire[<<"out", r, "header">>] = <<>>
    BY <1>2, <2>1, NothingJoined DEF DueA, DueB, Part
  <2>3. QED
    BY <2>2 DEF Arrived
<1>4. Cut(a, r) \in AnyCsr /\ ValidOffsets(Cut(a, r))
      /\ \A part \in Part : DueB(r, part) \in Payloads
  <2>1. "header" \in Part
    BY DEF Part
  <2>2. QED
    BY <1>1, <2>1, DueType
<1> DEFINE rest == [part \in Part |-> DueB(r, part)]
<1>5. Ahead("out", r, Cut(a, r), rest)
  BY <1>2, <1>3, <1>4 DEF Ahead, DueA
<1>6. \A part \in Part : rest[part] = DueB(r, part)
  OBVIOUS
<1> HIDE DEF rest
<1>7. /\ Received("out", r) = Cut(a, r)
      /\ \A part \in Part : <<"out", r, part>> \in DOMAIN wire =>
           Taken("out", r)[<<"out", r, part>>] = rest[part]
  BY <1>4, <1>5, Delivers
<1>8. \A part \in Part : <<"out", r, part>> \in DOMAIN wire
  BY <1>1 DEF WireInv, Way
<1> QED
  BY <1>3, <1>6, <1>7, <1>8

LEMMA ArrivedB ==
  ASSUME BaselineIInv, NEW r \in Rank, r # 0, pc[r] = "distributeB", Arrived("out", r)
  PROVE  /\ BPending(r)
         /\ Received("out", r) = Cut(b, r)
         /\ \A part \in Part : Taken("out", r)[<<"out", r, part>>] = <<>>
<1>1. Multipliable(a, b) /\ WireInv
  BY DEF BaselineIInv
<1>2. ~APending(r)
  BY DEF APending
<1>3. \A part \in Part : DueB(r, part) \in Payloads
  BY <1>1, DueType
<1>4. \A part \in Part : wire[<<"out", r, part>>] = DueB(r, part)
  <2> SUFFICES ASSUME NEW part \in Part PROVE wire[<<"out", r, part>>] = DueB(r, part)
    OBVIOUS
  <2>1. wire[<<"out", r, part>>] = <<>> \o DueB(r, part)
    BY <1>1, <1>2 DEF WireInv, OnWire, DueA
  <2>2. QED
    BY <1>3, <2>1, Joined
<1>5. BPending(r)
  <2> SUFFICES ASSUME ~BPending(r) PROVE FALSE
    OBVIOUS
  <2>1. wire[<<"out", r, "header">>] = <<>>
    BY <1>4 DEF DueB, Part
  <2>2. QED
    BY <2>1 DEF Arrived
<1>6. Cut(b, r) \in AnyCsr /\ ValidOffsets(Cut(b, r))
  <2>1. "header" \in Part
    BY DEF Part
  <2>2. QED
    BY <1>1, <2>1, DueType
<1> DEFINE rest == [part \in Part |-> <<>>]
<1>7. Ahead("out", r, Cut(b, r), rest)
  <2>1. <<>> \in Payloads
    BY DEF Payloads
  <2>2. ASSUME NEW part \in Part
        PROVE  wire[<<"out", r, part>>] = Shown(Cut(b, r), part) \o <<>>
    <3>1. wire[<<"out", r, part>>] = Shown(Cut(b, r), part)
      BY <1>4, <1>5 DEF DueB
    <3>2. Shown(Cut(b, r), part) \in Payloads
      BY <1>6, PartsAre
    <3>3. QED
      BY <3>1, <3>2, Joined
  <2>3. QED
    BY <2>1, <2>2 DEF Ahead
<1>8. \A part \in Part : rest[part] = <<>>
  OBVIOUS
<1> HIDE DEF rest
<1>9. /\ Received("out", r) = Cut(b, r)
      /\ \A part \in Part : <<"out", r, part>> \in DOMAIN wire =>
           Taken("out", r)[<<"out", r, part>>] = rest[part]
  BY <1>6, <1>7, Delivers
<1>10. \A part \in Part : <<"out", r, part>> \in DOMAIN wire
  BY <1>1 DEF WireInv, Way
<1> QED
  BY <1>5, <1>8, <1>9, <1>10

LEMMA ArrivedC ==
  ASSUME BaselineIInv, NEW r \in Rank, r # 0, nextPeer <= r, Arrived("back", r)
  PROVE  /\ CPending(r)
         /\ Received("back", r) = Share(a, b, r)
         /\ \A part \in Part : Taken("back", r)[<<"back", r, part>>] = <<>>
<1>1. Multipliable(a, b) /\ WireInv
  BY DEF BaselineIInv
<1>2. \A part \in Part : wire[<<"back", r, part>>] = DueC(r, part)
  BY <1>1 DEF WireInv, OnWire
<1>3. CPending(r)
  <2> SUFFICES ASSUME ~CPending(r) PROVE FALSE
    OBVIOUS
  <2>1. wire[<<"back", r, "header">>] = <<>>
    BY <1>2 DEF DueC, Part
  <2>2. QED
    BY <2>1 DEF Arrived
<1>4. Share(a, b, r) \in AnyCsr /\ ValidOffsets(Share(a, b, r))
  <2>1. "header" \in Part
    BY DEF Part
  <2>2. QED
    BY <1>1, <2>1, DueType
<1> DEFINE rest == [part \in Part |-> <<>>]
<1>5. Ahead("back", r, Share(a, b, r), rest)
  <2>1. <<>> \in Payloads
    BY DEF Payloads
  <2>2. ASSUME NEW part \in Part
        PROVE  wire[<<"back", r, part>>] = Shown(Share(a, b, r), part) \o <<>>
    <3>1. wire[<<"back", r, part>>] = Shown(Share(a, b, r), part)
      BY <1>2, <1>3 DEF DueC
    <3>2. Shown(Share(a, b, r), part) \in Payloads
      BY <1>4, PartsAre
    <3>3. QED
      BY <3>1, <3>2, Joined
  <2>3. QED
    BY <2>1, <2>2 DEF Ahead
<1>6. \A part \in Part : rest[part] = <<>>
  OBVIOUS
<1> HIDE DEF rest
<1>7. /\ Received("back", r) = Share(a, b, r)
      /\ \A part \in Part : <<"back", r, part>> \in DOMAIN wire =>
           Taken("back", r)[<<"back", r, part>>] = rest[part]
  BY <1>4, <1>5, Delivers
<1>8. \A part \in Part : <<"back", r, part>> \in DOMAIN wire
  BY <1>1 DEF WireInv, Way
<1> QED
  BY <1>3, <1>6, <1>7, <1>8

LEMMA ReceiveAKeepsIInv ==
  ASSUME BaselineIInv, NEW r \in Rank, ReceiveA(r)
  PROVE  BaselineIInv'
<1>1. Multipliable(a, b) /\ PlaceInv /\ BlocksInv /\ WireInv /\ GatherInv
  BY DEF BaselineIInv
<1>2. /\ 0 \in Rank /\ DOMAIN pc = Rank
      /\ \A q \in Rank : q # 0 <=> q \in Peer
  BY <1>1, PlacesAre
<1>3. /\ r # 0 /\ pc[r] = "distributeA" /\ pc' = [pc EXCEPT ![r] = "distributeB"]
      /\ Arrived("out", r)
      /\ localA' = [localA EXCEPT ![r] = Received("out", r)]
      /\ wire' = Taken("out", r)
      /\ UNCHANGED <<a, b, localB, localC, nextPeer, globalC>>
  BY DEF ReceiveA, Goto
<1>4. /\ APending(r)
      /\ Received("out", r) = Cut(a, r)
      /\ \A part \in Part : wire'[<<"out", r, part>>] = DueB(r, part)
  BY <1>3, ArrivedA
<1>5. /\ pc'[r] = "distributeB" /\ \A q \in Rank : q # r => pc'[q] = pc[q]
      /\ DOMAIN pc' = Rank
  BY <1>2, <1>3
<1>6. Multipliable(a, b)'
  BY <1>1, <1>3
<1>7. PlaceInv'
  <2>1. pc' \in [Rank -> {"distributeA", "distributeB", "multiply", "gather", "receive", "done"}]
    BY <1>1, <1>3 DEF PlaceInv
  <2>2. pc'[0] = pc[0] /\ pc[0] # "distributeA"
    BY <1>2, <1>3, <1>4, <1>5 DEF APending
  <2>3. \A q \in Rank : /\ (Distributing(q)' <=> Distributing(q))
                        /\ (pc'[q] \in {"gather", "receive", "done"}
                              <=> pc[q] \in {"gather", "receive", "done"})
    BY <1>3, <1>5 DEF Distributing
  <2>4. \A q \in 1 .. nextPeer - 1 : q \in Rank /\ pc[q] = "done" /\ q # r
    BY <1>1, <1>3, RanksAssumption DEF PlaceInv, Rank
  <2>5. QED
    BY <1>1, <1>2, <1>3, <1>5, <2>1, <2>2, <2>3, <2>4 DEF PlaceInv, Peer
<1>8. BlocksInv'
  BY <1>1, <1>2, <1>3, <1>4, <1>5 DEF BlocksInv, Distributing
<1>9. WireInv'
  <2>1. OthersKept(wire', "out", r)
    <3>1. DOMAIN wire = Way \X Rank \X Part
      BY <1>1 DEF WireInv
    <3>2. QED
      BY <1>3, <3>1, TakenIs
  <2>2. ASSUME NEW q \in Rank, NEW part \in Part PROVE OnWire(q, part)'
    <3>1. OnWire(q, part)
      BY <1>1 DEF WireInv
    <3>2. wire'[<<"back", q, part>>] = wire[<<"back", q, part>>]
      BY <2>1 DEF OthersKept, Way
    <3>3. CPending(q)' <=> CPending(q)
      BY <1>3, <1>5 DEF CPending
    <3>4. DueC(q, part)' = DueC(q, part)
      BY <1>3, <3>3 DEF DueC
    <3>5. CASE q = r
      <4>1. ~APending(r)' /\ (BPending(r)' <=> BPending(r))
        BY <1>2, <1>3, <1>5 DEF APending, BPending, Distributing
      <4>2. DueA(r, part)' = <<>>
        BY <4>1 DEF DueA
      <4>3. DueB(r, part)' = DueB(r, part)
        BY <1>3, <4>1 DEF DueB
      <4>4. <<>> \o DueB(r, part) = DueB(r, part)
        BY <1>1, DueType, Joined
      <4>5. QED
        BY <1>4, <3>1, <3>2, <3>4, <3>5, <4>2, <4>3, <4>4 DEF OnWire
    <3>6. CASE q # r
      <4>1. (APending(q)' <=> APending(q)) /\ (BPending(q)' <=> BPending(q))
        BY <1>2, <1>3, <1>5, <3>6 DEF APending, BPending, Distributing
      <4>2. DueA(q, part)' = DueA(q, part)
        BY <1>3, <4>1 DEF DueA
      <4>3. DueB(q, part)' = DueB(q, part)
        BY <1>3, <4>1 DEF DueB
      <4>4. wire'[<<"out", q, part>>] = wire[<<"out", q, part>>]
        BY <2>1, <3>6 DEF OthersKept, Way
      <4>5. QED
        BY <3>1, <3>2, <3>4, <4>2, <4>3, <4>4 DEF OnWire
    <3>7. QED
      BY <3>5, <3>6
  <2>3. QED
    BY <2>1, <2>2 DEF WireInv, OthersKept
<1>10. GatherInv'
  <2>1. Gathered(globalC, nextPeer)' = Gathered(globalC, nextPeer)
    <3>1. NnzOfShares' = NnzOfShares
      BY <1>3 DEF NnzOfShares
    <3>2. QED
      BY <1>3, <3>1 DEF Gathered
  <2>2. QED
    BY <1>1, <1>2, <1>3, <1>5, <2>1 DEF GatherInv
<1> QED
  BY <1>6, <1>7, <1>8, <1>9, <1>10 DEF BaselineIInv

LEMMA ReceiveBKeepsIInv ==
  ASSUME BaselineIInv, NEW r \in Rank, ReceiveB(r)
  PROVE  BaselineIInv'
<1>1. Multipliable(a, b) /\ PlaceInv /\ BlocksInv /\ WireInv /\ GatherInv
  BY DEF BaselineIInv
<1>2. /\ 0 \in Rank /\ DOMAIN pc = Rank
      /\ \A q \in Rank : q # 0 <=> q \in Peer
  BY <1>1, PlacesAre
<1>3. /\ r # 0 /\ pc[r] = "distributeB" /\ pc' = [pc EXCEPT ![r] = "multiply"]
      /\ Arrived("out", r)
      /\ localB' = [localB EXCEPT ![r] = Received("out", r)]
      /\ wire' = Taken("out", r)
      /\ UNCHANGED <<a, b, localA, localC, nextPeer, globalC>>
  BY DEF ReceiveB, Goto
<1>4. /\ BPending(r)
      /\ Received("out", r) = Cut(b, r)
      /\ \A part \in Part : wire'[<<"out", r, part>>] = <<>>
  BY <1>3, ArrivedB
<1>5. /\ pc'[r] = "multiply" /\ \A q \in Rank : q # r => pc'[q] = pc[q]
      /\ DOMAIN pc' = Rank
  BY <1>2, <1>3
<1>6. Multipliable(a, b)'
  BY <1>1, <1>3
<1>7. PlaceInv'
  <2>1. pc' \in [Rank -> {"distributeA", "distributeB", "multiply", "gather", "receive", "done"}]
    BY <1>1, <1>3 DEF PlaceInv
  <2>2. pc'[0] = pc[0] /\ pc[0] \notin {"distributeA", "distributeB"}
    BY <1>2, <1>3, <1>4, <1>5 DEF BPending, Distributing
  <2>3. \A q \in Rank : /\ (Distributing(q)' => Distributing(q))
                        /\ (pc'[q] \in {"gather", "receive", "done"}
                              => pc[q] \in {"gather", "receive", "done"})
    BY <1>3, <1>5 DEF Distributing
  <2>4. \A q \in 1 .. nextPeer - 1 : q \in Rank /\ pc[q] = "done" /\ q # r
    BY <1>1, <1>3, RanksAssumption DEF PlaceInv, Rank
  <2>5. QED
    BY <1>1, <1>2, <1>3, <1>5, <2>1, <2>2, <2>3, <2>4 DEF PlaceInv, Peer
<1>8. BlocksInv'
  BY <1>1, <1>2, <1>3, <1>4, <1>5 DEF BlocksInv, Distributing
<1>9. WireInv'
  <2>1. OthersKept(wire', "out", r)
    <3>1. DOMAIN wire = Way \X Rank \X Part
      BY <1>1 DEF WireInv
    <3>2. QED
      BY <1>3, <3>1, TakenIs
  <2>2. ASSUME NEW q \in Rank, NEW part \in Part PROVE OnWire(q, part)'
    <3>1. OnWire(q, part)
      BY <1>1 DEF WireInv
    <3>2. wire'[<<"back", q, part>>] = wire[<<"back", q, part>>]
      BY <2>1 DEF OthersKept, Way
    <3>3. CPending(q)' <=> CPending(q)
      BY <1>3, <1>5 DEF CPending
    <3>4. DueC(q, part)' = DueC(q, part)
      BY <1>3, <3>3 DEF DueC
    <3>5. CASE q = r
      <4>1. ~APending(r)' /\ ~BPending(r)'
        BY <1>2, <1>3, <1>5 DEF APending, BPending, Distributing
      <4>2. DueA(r, part)' = <<>> /\ DueB(r, part)' = <<>>
        BY <4>1 DEF DueA, DueB
      <4>3. QED
        BY <1>4, <3>1, <3>2, <3>4, <3>5, <4>2, NothingJoined DEF OnWire
    <3>6. CASE q # r
      <4>1. (APending(q)' <=> APending(q)) /\ (BPending(q)' <=> BPending(q))
        BY <1>2, <1>3, <1>5, <3>6 DEF APending, BPending, Distributing
      <4>2. DueA(q, part)' = DueA(q, part)
        BY <1>3, <4>1 DEF DueA
      <4>3. DueB(q, part)' = DueB(q, part)
        BY <1>3, <4>1 DEF DueB
      <4>4. wire'[<<"out", q, part>>] = wire[<<"out", q, part>>]
        BY <2>1, <3>6 DEF OthersKept, Way
      <4>5. QED
        BY <3>1, <3>2, <3>4, <4>2, <4>3, <4>4 DEF OnWire
    <3>7. QED
      BY <3>5, <3>6
  <2>3. QED
    BY <2>1, <2>2 DEF WireInv, OthersKept
<1>10. GatherInv'
  <2>1. Gathered(globalC, nextPeer)' = Gathered(globalC, nextPeer)
    <3>1. NnzOfShares' = NnzOfShares
      BY <1>3 DEF NnzOfShares
    <3>2. QED
      BY <1>3, <3>1 DEF Gathered
  <2>2. QED
    BY <1>1, <1>2, <1>3, <1>5, <2>1 DEF GatherInv
<1> QED
  BY <1>6, <1>7, <1>8, <1>9, <1>10 DEF BaselineIInv

LEMMA MultiplyKeepsIInv ==
  ASSUME BaselineIInv, NEW r \in Rank, Multiply(r)
  PROVE  BaselineIInv'
<1>1. Multipliable(a, b) /\ PlaceInv /\ BlocksInv /\ WireInv /\ GatherInv
  BY DEF BaselineIInv
<1>2. /\ 0 \in Rank /\ DOMAIN pc = Rank
      /\ \A q \in Rank : q # 0 <=> q \in Peer
  BY <1>1, PlacesAre
<1>3. /\ pc[r] = "multiply" /\ pc' = [pc EXCEPT ![r] = "gather"]
      /\ \A q \in Rank : ~Distributing(q)
      /\ localC' = [localC EXCEPT ![r] = spgemm(r)]
      /\ UNCHANGED <<wire, a, b, localA, localB, nextPeer, globalC>>
  BY DEF Multiply, Goto, Distributing
<1>4. spgemm(r) = Share(a, b, r)
  <2>1. localA[r] = Cut(a, r) /\ \A q \in Rank : localB[q] = Cut(b, q)
    BY <1>1, <1>3 DEF BlocksInv
  <2>2. QED
    BY <1>1, <2>1, MultiplyIs
<1>5. /\ pc'[r] = "gather" /\ \A q \in Rank : q # r => pc'[q] = pc[q]
      /\ DOMAIN pc' = Rank
  BY <1>2, <1>3
<1>6. Multipliable(a, b)'
  BY <1>1, <1>3
<1>7. \A q \in Rank : ~Distributing(q)'
  BY <1>3, <1>5 DEF Distributing
<1>8. PlaceInv'
  <2>1. pc' \in [Rank -> {"distributeA", "distributeB", "multiply", "gather", "receive", "done"}]
    BY <1>1, <1>3 DEF PlaceInv
  <2>2. \A q \in 1 .. nextPeer - 1 : q \in Rank /\ pc[q] = "done" /\ q # r
    BY <1>1, <1>3, RanksAssumption DEF PlaceInv, Rank
  <2>3. pc'[0] \notin {"distributeA", "distributeB"}
    BY <1>2, <1>7 DEF Distributing
  <2>4. r = 0 => nextPeer = 1 /\ pc'[0] = "gather"
    BY <1>1, <1>3, <1>5 DEF PlaceInv
  <2>5. r # 0 => pc'[0] = pc[0]
    BY <1>2, <1>5
  <2>6. \A q \in Peer : pc'[q] # "receive"
    BY <1>1, <1>5 DEF PlaceInv, Peer
  <2>7. nextPeer' \in 1 .. Ranks /\ \A q \in 1 .. nextPeer' - 1 : pc'[q] = "done"
    BY <1>1, <1>3, <1>5, <2>2 DEF PlaceInv
  <2>8. /\ nextPeer' # 1 => pc'[0] \in {"receive", "done"}
        /\ pc'[0] = "done" => nextPeer' = Ranks
    BY <1>1, <1>3, <2>4, <2>5 DEF PlaceInv
  <2>9. QED
    BY <1>7, <2>1, <2>3, <2>6, <2>7, <2>8 DEF PlaceInv
<1>9. BlocksInv'
  BY <1>1, <1>2, <1>3, <1>4, <1>5 DEF BlocksInv, Distributing
<1>10. WireInv'
  <2>1. ASSUME NEW q \in Rank
        PROVE  /\ (APending(q)' <=> APending(q))
               /\ (BPending(q)' <=> BPending(q))
               /\ (CPending(q)' <=> CPending(q))
    <3>1. ~Distributing(q) /\ ~Distributing(q)' /\ (pc'[q] = "done" <=> pc[q] = "done")
      BY <1>3, <1>5, <1>7
    <3>2. QED
      BY <1>3, <3>1 DEF APending, BPending, CPending, Distributing
  <2>2. QED
    BY <1>1, <1>3, <2>1, WireKept
<1>11. GatherInv'
  <2>1. Gathered(globalC, nextPeer)' = Gathered(globalC, nextPeer)
    <3>1. NnzOfShares' = NnzOfShares
      BY <1>3 DEF NnzOfShares
    <3>2. QED
      BY <1>3, <3>1 DEF Gathered
  <2>2. pc'[0] \in {"receive", "done"} => pc[0] \in {"receive", "done"}
    BY <1>2, <1>5
  <2>3. QED
    BY <1>1, <1>3, <2>1, <2>2 DEF GatherInv
<1> QED
  BY <1>6, <1>8, <1>9, <1>10, <1>11 DEF BaselineIInv

LEMMA SendResultKeepsIInv ==
  ASSUME BaselineIInv, NEW r \in Rank, SendResult(r)
  PROVE  BaselineIInv'
<1>1. Multipliable(a, b) /\ PlaceInv /\ BlocksInv /\ WireInv /\ GatherInv
  BY DEF BaselineIInv
<1>2. /\ 0 \in Rank /\ DOMAIN pc = Rank
      /\ \A q \in Rank : q \in Int /\ (q # 0 <=> q \in Peer)
  BY <1>1, PlacesAre
<1>3. /\ r # 0 /\ pc[r] = "gather" /\ pc' = [pc EXCEPT ![r] = "done"]
      /\ wire' = Sent("back", {r}, localC)
      /\ UNCHANGED <<a, b, localA, localB, localC, nextPeer, globalC>>
  BY DEF SendResult, Goto
<1>4. localC[r] = Share(a, b, r)
  BY <1>1, <1>3 DEF BlocksInv
<1>5. /\ pc'[r] = "done" /\ \A q \in Rank : q # r => pc'[q] = pc[q]
      /\ DOMAIN pc' = Rank /\ pc'[0] = pc[0]
  BY <1>2, <1>3
<1>6. Multipliable(a, b)'
  BY <1>1, <1>3
<1>7. \A q \in Rank : ~Distributing(q) /\ ~Distributing(q)'
  BY <1>1, <1>3, <1>5 DEF Distributing, PlaceInv
<1>8. PlaceInv'
  <2>1. pc' \in [Rank -> {"distributeA", "distributeB", "multiply", "gather", "receive", "done"}]
    BY <1>1, <1>3 DEF PlaceInv
  <2>2. \A q \in 1 .. nextPeer - 1 : q \in Rank /\ pc[q] = "done" /\ q # r
    BY <1>1, <1>3, RanksAssumption DEF PlaceInv, Rank
  <2>3. pc'[0] \notin {"distributeA", "distributeB"}
    BY <1>2, <1>7 DEF Distributing
  <2>4. \A q \in Peer : pc'[q] # "receive"
    BY <1>1, <1>5 DEF PlaceInv, Peer
  <2>5. nextPeer' \in 1 .. Ranks /\ \A q \in 1 .. nextPeer' - 1 : pc'[q] = "done"
    BY <1>1, <1>3, <1>5, <2>2 DEF PlaceInv
  <2>6. /\ nextPeer' # 1 => pc'[0] \in {"receive", "done"}
        /\ pc'[0] = "done" => nextPeer' = Ranks
    BY <1>1, <1>3, <1>5 DEF PlaceInv
  <2>7. QED
    BY <1>7, <2>1, <2>3, <2>4, <2>5, <2>6 DEF PlaceInv
<1>9. BlocksInv'
  BY <1>1, <1>2, <1>3, <1>4, <1>5 DEF BlocksInv, Distributing
<1>10. WireInv'
  <2>1. WithSent(wire', "back", {r}, localC)
    <3>1. DOMAIN wire = Way \X Rank \X Part
      BY <1>1 DEF WireInv
    <3>2. WithSent(Sent("back", {r}, localC), "back", {r}, localC)
      BY <3>1, SentIs
    <3>3. QED
      BY <1>3, <3>2
  <2>2. nextPeer <= r
    <3>1. nextPeer \in Int /\ \A q \in 1 .. nextPeer - 1 : pc[q] = "done"
      BY <1>1 DEF PlaceInv
    <3>2. r \in Int /\ r >= 1
      BY <1>3, RanksAssumption DEF Rank
    <3>3. QED
      BY <1>3, <3>1, <3>2
  <2>3. ASSUME NEW q \in Rank, NEW part \in Part PROVE OnWire(q, part)'
    <3>1. OnWire(q, part)
      BY <1>1 DEF WireInv
    <3>2. wire'[<<"out", q, part>>] = wire[<<"out", q, part>>]
      BY <2>1 DEF WithSent, Way
    <3>3. ~APending(q) /\ ~APending(q)' /\ ~BPending(q) /\ ~BPending(q)'
      BY <1>7 DEF APending, BPending, Distributing
    <3>4. /\ DueA(q, part) = <<>> /\ DueA(q, part)' = <<>>
          /\ DueB(q, part) = <<>> /\ DueB(q, part)' = <<>>
      BY <3>3 DEF DueA, DueB
    <3>5. CASE q = r
      <4>1. ~CPending(r) /\ CPending(r)'
        BY <1>3, <1>5, <2>2 DEF CPending
      <4>2. DueC(r, part) = <<>> /\ DueC(r, part)' = Shown(Share(a, b, r), part)
        BY <1>3, <4>1 DEF DueC
      <4>3. wire'[<<"back", r, part>>]
              = IF Parts(Share(a, b, r))[part] # <<>>
                THEN Append(<<>>, Parts(Share(a, b, r))[part]) ELSE <<>>
        <5>1. wire[<<"back", r, part>>] = <<>>
          BY <3>1, <3>5, <4>2 DEF OnWire
        <5>2. wire'[<<"back", r, part>>]
                = IF Parts(localC[r])[part] # <<>>
                  THEN Append(wire[<<"back", r, part>>], Parts(localC[r])[part])
                  ELSE wire[<<"back", r, part>>]
          BY <2>1 DEF WithSent, Way
        <5>3. QED
          BY <1>4, <5>1, <5>2
      <4>4. Share(a, b, r) \in AnyCsr /\ ValidOffsets(Share(a, b, r)) /\ <<>> \in Payloads
        BY <1>1, DueType DEF Payloads
      <4>5. wire'[<<"back", r, part>>] = <<>> \o Shown(Share(a, b, r), part)
        BY <4>3, <4>4, SentAppends
      <4>6. Shown(Share(a, b, r), part) \in Payloads
        BY <4>4, PartsAre
      <4>7. wire'[<<"back", r, part>>] = DueC(r, part)'
        BY <4>2, <4>5, <4>6, Joined
      <4>8. QED
        BY <3>1, <3>2, <3>4, <3>5, <4>7 DEF OnWire
    <3>6. CASE q # r
      <4>1. CPending(q)' <=> CPending(q)
        BY <1>3, <1>5, <3>6 DEF CPending
      <4>2. DueC(q, part)' = DueC(q, part)
        BY <1>3, <4>1 DEF DueC
      <4>3. wire'[<<"back", q, part>>] = wire[<<"back", q, part>>]
        BY <2>1, <3>6 DEF WithSent, Way
      <4>4. QED
        BY <3>1, <3>2, <3>4, <4>2, <4>3 DEF OnWire
    <3>7. QED
      BY <3>5, <3>6
  <2>4. QED
    BY <2>1, <2>3 DEF WireInv, WithSent
<1>11. GatherInv'
  <2>1. Gathered(globalC, nextPeer)' = Gathered(globalC, nextPeer)
    <3>1. NnzOfShares' = NnzOfShares
      BY <1>3 DEF NnzOfShares
    <3>2. QED
      BY <1>3, <3>1 DEF Gathered
  <2>2. QED
    BY <1>1, <1>3, <1>5, <2>1 DEF GatherInv
<1> QED
  BY <1>6, <1>8, <1>9, <1>10, <1>11 DEF BaselineIInv

LEMMA AppendOwnKeepsIInv == BaselineIInv /\ AppendOwn => BaselineIInv'
<1> SUFFICES ASSUME BaselineIInv, AppendOwn PROVE BaselineIInv'
  OBVIOUS
<1>1. Multipliable(a, b) /\ PlaceInv /\ BlocksInv /\ WireInv /\ GatherInv
  BY DEF BaselineIInv
<1>2. /\ 0 \in Rank /\ DOMAIN pc = Rank
      /\ \A q \in Rank : q \in Int /\ (q # 0 <=> q \in Peer)
  BY <1>1, PlacesAre
<1>3. /\ pc[0] = "gather"
      /\ UNCHANGED <<wire, a, b, localA, localB, localC, nextPeer>>
  BY DEF AppendOwn
<1>4. localC[0] = Share(a, b, 0) /\ nextPeer = 1
  BY <1>1, <1>2, <1>3 DEF BlocksInv, PlaceInv
<1>5. ~unexpectedShape(localC[0], outputBlocks[0])
  <2>1. /\ Share(a, b, 0).rows = partitionRows(a.rows, Ranks)[0].rows
        /\ Share(a, b, 0).cols = b.cols
    BY <1>1, <1>2, ShareIs
  <2>2. QED
    BY <1>4, <2>1 DEF unexpectedShape, outputBlocks
<1>6. pc' = [pc EXCEPT ![0] = "receive"] /\ globalC' = appendCsrBlock(NoMatrix, localC[0])
  BY <1>5 DEF AppendOwn
<1>7. /\ pc'[0] = "receive" /\ \A q \in Peer : pc'[q] = pc[q]
      /\ DOMAIN pc' = Rank
  BY <1>2, <1>6 DEF Peer
<1>8. Multipliable(a, b)'
  BY <1>1, <1>3
<1>9. \A q \in Rank : ~Distributing(q) /\ ~Distributing(q)'
  BY <1>1, <1>2, <1>3, <1>7 DEF Distributing, PlaceInv
<1>10. PlaceInv'
  <2>1. pc' \in [Rank -> {"distributeA", "distributeB", "multiply", "gather", "receive", "done"}]
    BY <1>1, <1>6 DEF PlaceInv
  <2>2. nextPeer' \in 1 .. Ranks /\ \A q \in 1 .. nextPeer' - 1 : pc'[q] = "done"
    BY <1>1, <1>3, <1>4 DEF PlaceInv
  <2>3. QED
    BY <1>1, <1>3, <1>4, <1>7, <1>9, <2>1, <2>2 DEF PlaceInv
<1>11. BlocksInv'
  BY <1>1, <1>2, <1>3, <1>7 DEF BlocksInv, Distributing
<1>12. WireInv'
  <2>1. ASSUME NEW q \in Rank
        PROVE  /\ (APending(q)' <=> APending(q))
               /\ (BPending(q)' <=> BPending(q))
               /\ (CPending(q)' <=> CPending(q))
    BY <1>2, <1>3, <1>7, <1>9 DEF APending, BPending, CPending, Distributing
  <2>2. QED
    BY <1>1, <1>3, <2>1, WireKept
<1>13. GatherInv'
  <2>1. Gathered(NoMatrix, 0)
    BY <1>1, GatheredNone
  <2>2. /\ Gathered(appendCsrBlock(NoMatrix, Share(a, b, 0)), 0 + 1)
        /\ appendCsrBlock(NoMatrix, Share(a, b, 0)).cols = b.cols
    BY <1>1, <1>2, <2>1, GatheredMore
  <2>3. Gathered(globalC', nextPeer) /\ globalC'.cols = b.cols
    BY <1>4, <1>6, <2>2
  <2>4. Gathered(globalC, nextPeer)' = Gathered(globalC', nextPeer)
    <3>1. NnzOfShares' = NnzOfShares
      BY <1>3 DEF NnzOfShares
    <3>2. QED
      BY <1>3, <3>1 DEF Gathered
  <2>5. QED
    BY <1>3, <2>3, <2>4 DEF GatherInv
<1> QED
  BY <1>8, <1>10, <1>11, <1>12, <1>13 DEF BaselineIInv

LEMMA AppendPeerKeepsIInv == BaselineIInv /\ AppendPeer => BaselineIInv'
<1> SUFFICES ASSUME BaselineIInv, AppendPeer PROVE BaselineIInv'
  OBVIOUS
<1>1. Multipliable(a, b) /\ PlaceInv /\ BlocksInv /\ WireInv /\ GatherInv
  BY DEF BaselineIInv
<1>2. /\ 0 \in Rank /\ DOMAIN pc = Rank /\ Ranks \in Nat
      /\ \A q \in Rank : q \in Int /\ (q # 0 <=> q \in Peer)
  BY <1>1, PlacesAre
<1>3. /\ pc[0] = "receive" /\ nextPeer < Ranks
      /\ Arrived("back", nextPeer)
      /\ wire' = Taken("back", nextPeer)
      /\ UNCHANGED <<a, b, localA, localB, localC>>
  BY DEF AppendPeer
<1>4. nextPeer \in 1 .. Ranks /\ nextPeer \in Rank /\ nextPeer # 0 /\ nextPeer <= nextPeer
  BY <1>1, <1>2, <1>3 DEF PlaceInv, Rank
<1>5. /\ CPending(nextPeer)
      /\ Received("back", nextPeer) = Share(a, b, nextPeer)
      /\ \A part \in Part : wire'[<<"back", nextPeer, part>>] = <<>>
  BY <1>3, <1>4, ArrivedC
<1>6. ~unexpectedShape(Received("back", nextPeer), outputBlocks[nextPeer])
  <2>1. /\ Share(a, b, nextPeer).rows = partitionRows(a.rows, Ranks)[nextPeer].rows
        /\ Share(a, b, nextPeer).cols = b.cols
    BY <1>1, <1>4, ShareIs
  <2>2. QED
    BY <1>5, <2>1 DEF unexpectedShape, outputBlocks
<1>7. /\ nextPeer' = nextPeer + 1 /\ pc' = pc
      /\ globalC' = appendCsrBlock(globalC, Share(a, b, nextPeer))
  BY <1>5, <1>6 DEF AppendPeer
<1>8. Multipliable(a, b)'
  BY <1>1, <1>3
<1>9. PlaceInv'
  <2>1. nextPeer' \in 1 .. Ranks
    BY <1>2, <1>3, <1>4, <1>7
  <2>2. \A q \in 1 .. nextPeer' - 1 : pc'[q] = "done"
    <3>1. pc[nextPeer] = "done"
      BY <1>5 DEF CPending
    <3>2. \A q \in 1 .. nextPeer' - 1 : q \in 1 .. nextPeer - 1 \/ q = nextPeer
      BY <1>4, <1>7
    <3>3. QED
      BY <1>1, <1>7, <3>1, <3>2 DEF PlaceInv
  <2>3. QED
    BY <1>1, <1>3, <1>7, <2>1, <2>2 DEF PlaceInv, Distributing
<1>10. BlocksInv'
  BY <1>1, <1>3, <1>7 DEF BlocksInv, Distributing
<1>11. WireInv'
  <2>1. OthersKept(wire', "back", nextPeer)
    <3>1. DOMAIN wire = Way \X Rank \X Part
      BY <1>1 DEF WireInv
    <3>2. QED
      BY <1>3, <3>1, TakenIs
  <2>2. ASSUME NEW q \in Rank, NEW part \in Part PROVE OnWire(q, part)'
    <3>1. OnWire(q, part)
      BY <1>1 DEF WireInv
    <3>2. wire'[<<"out", q, part>>] = wire[<<"out", q, part>>]
      BY <2>1 DEF OthersKept, Way
    <3>3. (APending(q)' <=> APending(q)) /\ (BPending(q)' <=> BPending(q))
      BY <1>7 DEF APending, BPending, Distributing
    <3>4. DueA(q, part)' = DueA(q, part)
      BY <1>3, <3>3 DEF DueA
    <3>5. DueB(q, part)' = DueB(q, part)
      BY <1>3, <3>3 DEF DueB
    <3>6. wire'[<<"back", q, part>>] = DueC(q, part)'
      <4>1. CASE q = nextPeer
        <5>1. ~CPending(q)'
          BY <1>4, <1>7, <4>1 DEF CPending
        <5>2. QED
          BY <1>5, <4>1, <5>1 DEF DueC
      <4>2. CASE q # nextPeer
        <5>1. CPending(q)' <=> CPending(q)
          BY <1>2, <1>4, <1>7, <4>2 DEF CPending
        <5>2. DueC(q, part)' = DueC(q, part)
          BY <1>3, <5>1 DEF DueC
        <5>3. wire'[<<"back", q, part>>] = wire[<<"back", q, part>>]
          BY <2>1, <4>2 DEF OthersKept, Way
        <5>4. QED
          BY <3>1, <5>2, <5>3 DEF OnWire
      <4>3. QED
        BY <4>1, <4>2
    <3>7. QED
      BY <3>1, <3>2, <3>4, <3>5, <3>6 DEF OnWire
  <2>3. QED
    BY <2>1, <2>2 DEF WireInv, OthersKept
<1>12. GatherInv'
  <2>1. Gathered(globalC, nextPeer)
    BY <1>1, <1>3 DEF GatherInv
  <2>2. /\ Gathered(appendCsrBlock(globalC, Share(a, b, nextPeer)), nextPeer + 1)
        /\ appendCsrBlock(globalC, Share(a, b, nextPeer)).cols = b.cols
    BY <1>1, <1>4, <2>1, GatheredMore
  <2>3. Gathered(globalC', nextPeer') /\ globalC'.cols = b.cols
    BY <1>7, <2>2
  <2>4. Gathered(globalC, nextPeer)' = Gathered(globalC', nextPeer')
    <3>1. NnzOfShares' = NnzOfShares
      BY <1>3 DEF NnzOfShares
    <3>2. QED
      BY <1>3, <3>1 DEF Gathered
  <2>5. QED
    BY <1>3, <2>3, <2>4 DEF GatherInv
<1> QED
  BY <1>8, <1>9, <1>10, <1>11, <1>12 DEF BaselineIInv

LEMMA CollectMetricsKeepsIInv == BaselineIInv /\ CollectMetrics => BaselineIInv'
<1> SUFFICES ASSUME BaselineIInv, CollectMetrics PROVE BaselineIInv'
  OBVIOUS
<1>1. Multipliable(a, b) /\ PlaceInv /\ BlocksInv /\ WireInv /\ GatherInv
  BY DEF BaselineIInv
<1>2. /\ 0 \in Rank /\ DOMAIN pc = Rank /\ Ranks \in Nat \ {0}
      /\ \A q \in Rank : q \in Int /\ (q # 0 <=> q \in Peer)
  BY <1>1, PlacesAre
<1>3. /\ pc[0] = "receive" /\ nextPeer = Ranks
      /\ pc' = [pc EXCEPT ![0] = IF metricsAgree THEN "done" ELSE "failed"]
      /\ UNCHANGED <<wire, a, b, localA, localB, localC, nextPeer, globalC>>
  BY DEF CollectMetrics
<1>4. \A q \in Peer : pc[q] = "done"
  <2>1. \A q \in 1 .. Ranks - 1 : pc[q] = "done"
    BY <1>1, <1>3 DEF PlaceInv
  <2>2. \A q \in Peer : q \in 1 .. Ranks - 1
    BY <1>2 DEF Peer, Rank
  <2>3. QED
    BY <2>1, <2>2
<1>5. metricsAgree
  <2>1. Gathered(globalC, Ranks)
    BY <1>1, <1>3 DEF GatherInv
  <2>2. \A r \in Rank : pc[r] \in {"receive", "done"}
    BY <1>2, <1>3, <1>4
  <2>3. \A r \in Rank : /\ localA[r] = Cut(a, r) /\ localB[r] = Cut(b, r)
                        /\ localC[r] = Share(a, b, r)
    BY <1>1, <2>2 DEF BlocksInv, Distributing
  <2>4. QED
    BY <1>1, <2>1, <2>3, CountsAgree
<1>6. pc' = [pc EXCEPT ![0] = "done"]
  BY <1>3, <1>5
<1>7. /\ pc'[0] = "done" /\ \A q \in Peer : pc'[q] = pc[q]
      /\ DOMAIN pc' = Rank
  BY <1>2, <1>6 DEF Peer
<1>8. Multipliable(a, b)'
  BY <1>1, <1>3
<1>9. \A q \in Rank : ~Distributing(q) /\ ~Distributing(q)'
  BY <1>2, <1>3, <1>4, <1>7 DEF Distributing
<1>10. PlaceInv'
  <2>1. pc' \in [Rank -> {"distributeA", "distributeB", "multiply", "gather", "receive", "done"}]
    BY <1>1, <1>6 DEF PlaceInv
  <2>2. nextPeer' \in 1 .. Ranks /\ \A q \in 1 .. nextPeer' - 1 : pc'[q] = "done"
    <3>1. \A q \in 1 .. Ranks - 1 : q \in Peer
      BY <1>2 DEF Peer, Rank
    <3>2. QED
      BY <1>1, <1>3, <1>4, <1>7, <3>1 DEF PlaceInv
  <2>3. QED
    BY <1>1, <1>3, <1>7, <1>9, <2>1, <2>2 DEF PlaceInv
<1>11. BlocksInv'
  BY <1>1, <1>2, <1>3, <1>7 DEF BlocksInv, Distributing
<1>12. WireInv'
  <2>1. ASSUME NEW q \in Rank
        PROVE  /\ (APending(q)' <=> APending(q))
               /\ (BPending(q)' <=> BPending(q))
               /\ (CPending(q)' <=> CPending(q))
    BY <1>2, <1>3, <1>7, <1>9 DEF APending, BPending, CPending, Distributing
  <2>2. QED
    BY <1>1, <1>3, <2>1, WireKept
<1>13. GatherInv'
  <2>1. Gathered(globalC, nextPeer)' = Gathered(globalC, nextPeer)
    <3>1. NnzOfShares' = NnzOfShares
      BY <1>3 DEF NnzOfShares
    <3>2. QED
      BY <1>3, <3>1 DEF Gathered
  <2>2. QED
    BY <1>1, <1>3, <2>1 DEF GatherInv
<1> QED
  BY <1>8, <1>10, <1>11, <1>12, <1>13 DEF BaselineIInv

LEMMA StutterKeepsIInv == BaselineIInv /\ UNCHANGED vars => BaselineIInv'
<1> SUFFICES ASSUME BaselineIInv, UNCHANGED vars PROVE BaselineIInv'
  OBVIOUS
<1>1. UNCHANGED <<wire, a, b, pc, localA, localB, localC, nextPeer, globalC>>
  BY DEF vars
<1>2. Multipliable(a, b)'
  BY <1>1 DEF BaselineIInv
<1>3. PlaceInv'
  BY <1>1 DEF BaselineIInv, PlaceInv, Distributing
<1>4. BlocksInv'
  BY <1>1 DEF BaselineIInv, BlocksInv, Distributing
<1>5. WireInv'
  <2>1. ASSUME NEW q \in Rank
        PROVE  /\ (APending(q)' <=> APending(q))
               /\ (BPending(q)' <=> BPending(q))
               /\ (CPending(q)' <=> CPending(q))
    BY <1>1 DEF APending, BPending, CPending, Distributing
  <2>2. QED
    BY <1>1, <2>1, WireKept DEF BaselineIInv
<1>6. GatherInv'
  <2>1. Gathered(globalC, nextPeer)' = Gathered(globalC, nextPeer)
    <3>1. NnzOfShares' = NnzOfShares
      BY <1>1 DEF NnzOfShares
    <3>2. QED
      BY <1>1, <3>1 DEF Gathered
  <2>2. QED
    BY <1>1, <2>1 DEF BaselineIInv, GatherInv
<1> QED
  BY <1>2, <1>3, <1>4, <1>5, <1>6 DEF BaselineIInv

LEMMA BaselineNextKeepsIInv == BaselineIInv /\ [Next]_vars => BaselineIInv'
<1> SUFFICES ASSUME BaselineIInv, [Next]_vars PROVE BaselineIInv'
  OBVIOUS
<1>1. CASE DistributeA
  BY <1>1, DistributeAKeepsIInv
<1>2. CASE DistributeB
  BY <1>2, DistributeBKeepsIInv
<1>3. ASSUME NEW r \in Rank, ReceiveA(r) PROVE BaselineIInv'
  BY <1>3, ReceiveAKeepsIInv
<1>4. ASSUME NEW r \in Rank, ReceiveB(r) PROVE BaselineIInv'
  BY <1>4, ReceiveBKeepsIInv
<1>5. ASSUME NEW r \in Rank, Multiply(r) PROVE BaselineIInv'
  BY <1>5, MultiplyKeepsIInv
<1>6. ASSUME NEW r \in Rank, SendResult(r) PROVE BaselineIInv'
  BY <1>6, SendResultKeepsIInv
<1>7. CASE AppendOwn
  BY <1>7, AppendOwnKeepsIInv
<1>8. CASE AppendPeer
  BY <1>8, AppendPeerKeepsIInv
<1>9. CASE CollectMetrics
  BY <1>9, CollectMetricsKeepsIInv
<1>10. CASE Stopped
  BY <1>10, StutterKeepsIInv DEF Stopped
<1>11. CASE UNCHANGED vars
  BY <1>11, StutterKeepsIInv
<1> QED
  BY <1>1, <1>2, <1>3, <1>4, <1>5, <1>6, <1>7, <1>8, <1>9, <1>10, <1>11 DEF Next

LEMMA BaselineIInvGivesProduct == BaselineIInv => GatheredIsProduct /\ NeverFails
<1> SUFFICES ASSUME BaselineIInv PROVE GatheredIsProduct /\ NeverFails
  OBVIOUS
<1>1. Multipliable(a, b) /\ PlaceInv /\ GatherInv
  BY DEF BaselineIInv
<1>2. 0 \in Rank
  BY <1>1, PlacesAre
<1>3. NeverFails
  BY <1>1, <1>2 DEF PlaceInv, NeverFails
<1>4. GatheredIsProduct
  <2> SUFFICES ASSUME pc[0] = "done"
               PROVE  IsProduct(globalC, a, b) /\ globalC = serialSpgemm(a, b)
    BY DEF GatheredIsProduct
  <2>1. Gathered(globalC, Ranks) /\ globalC.cols = b.cols
    BY <1>1 DEF PlaceInv, GatherInv
  <2>2. QED
    BY <1>1, <2>1, GatheredAll
<1> QED
  BY <1>3, <1>4

=============================================================================
