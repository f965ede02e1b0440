-------------------------- MODULE MCAlgorithms_proof --------------------------
(***************************************************************************)
(* For all matrices, numbers of ranks and sizes of the grid: what rank 0   *)
(* of a Trident program puts together is the product a serial program      *)
(* computes (TridentProductIsRight), the checks of its shapes and counts   *)
(* hold (TridentChecksHold), and the same of a baseline program            *)
(* (BaselineProductIsRight) and of the verdict (VerdictsAreRight).         *)
(*                                                                         *)
(* The argument about a Trident program has four parts.                    *)
(*  - The grid: every row lies in one row of nodes and with one of their   *)
(*    ranks, every column in one column of nodes (RowHolders,              *)
(*    ColumnHolders), and a rank's number is taken once (RankListIs), so   *)
(*    that sums over ranks are sums over rows and columns (GridSum).       *)
(*  - The panel: the slices of a node, put one after the other with the    *)
(*    offsets every rank plans from their sizes, are the rows of B's block *)
(*    (PanelIs).                                                           *)
(*  - The stages: each inner block comes up in one stage (InnerOnce), and  *)
(*    what the stages add up to in a coordinate is the coordinate of the   *)
(*    product (GainsAddUp), so that a rank's result is its tile of the     *)
(*    serial product (ResultTileIs).                                       *)
(*  - The gather: the tiles come in the order of the ranks, which is the   *)
(*    order of the columns inside a row (OwnedBefore), so that each row is *)
(*    collected in order (GathersMore) and sorting changes nothing         *)
(*    (SortedStays).                                                       *)
(* Two rows without zeros that are in order and add up to the same in      *)
(* every column are the same row (TidySame), which is how coordinates      *)
(* become rows.  TridentIInv says what ranks hold at every step.           *)
(***************************************************************************)
EXTENDS MCAlgorithms, BaselineProduct_proof

-----------------------------------------------------------------------------
(* The Trident program uses the matrices and blocks of the other programs. *)

\* The sums and offsets of TridentProduct are those of Csr.
LEMMA TridentSums ==
  /\ \A s : Trident!SumOf(s) = SumOf(s)
  /\ \A s : Trident!FlattenSeq(s) = FlattenSeq(s)
  /\ \A s : Trident!Offsets(s) = Offsets(s)
  /\ \A s : Trident!Last(s) = Last(s)
  /\ \A s : Trident!Front(s) = Front(s)
BY DEF Trident!SumOf, SumOf, Trident!FlattenSeq, FlattenSeq, Trident!Offsets, Offsets,
       Trident!Last, Last, Trident!Front, Front

\* Its rows and matrices are those of Csr.
LEMMA TridentRows ==
  /\ \A m : Trident!Nnz(m) = Nnz(m)
  /\ \A m, row : Trident!Row(m, row) = Row(m, row)
  /\ \A m, row : Trident!RowLength(m, row) = RowLength(m, row)
  /\ \A rows, cols : Trident!CsrMatrix(rows, cols) = CsrMatrix(rows, cols)
  /\ Trident!NoMatrix = NoMatrix
<1>1. /\ \A m : Trident!Nnz(m) = Nnz(m)
      /\ \A m, row : Trident!Row(m, row) = Row(m, row)
      /\ \A m, row : Trident!RowLength(m, row) = RowLength(m, row)
  BY DEF Trident!Nnz, Nnz, Trident!Row, Row, Trident!RowLength, RowLength
<1>2. \A rows, cols : Trident!CsrMatrix(rows, cols) = CsrMatrix(rows, cols)
  BY TridentSums DEF Trident!CsrMatrix, CsrMatrix
<1>3. Trident!NoMatrix = NoMatrix
  BY <1>2 DEF Trident!NoMatrix, NoMatrix
<1> QED
  BY <1>1, <1>2, <1>3

\* Its rows of the result are those of Csr.
LEMMA TridentFinishes ==
  /\ \A s, c : Trident!ColumnSum(s, c) = ColumnSum(s, c)
  /\ \A s : Trident!accumulated(s) = accumulated(s)
  /\ \A s : Trident!Ascending(s) = Ascending(s)
  /\ \A s : Trident!finishedRow(s) = finishedRow(s)
<1>1. \A s, c : Trident!ColumnSum(s, c) = ColumnSum(s, c)
  BY TridentSums DEF Trident!ColumnSum, ColumnSum
<1>2. \A s : Trident!accumulated(s) = accumulated(s)
  BY <1>1 DEF Trident!accumulated, accumulated
<1>3. \A s : Trident!Ascending(s) = Ascending(s)
  BY DEF Trident!Ascending, Ascending, Trident!Cardinality, Cardinality
<1>4. \A s : Trident!finishedRow(s) = finishedRow(s)
  BY <1>3 DEF Trident!finishedRow, finishedRow
<1> QED
  BY <1>1, <1>2, <1>3, <1>4

\* Its blocks are those of RowBlocks.
LEMMA TridentBlocks ==
  /\ \A n, c : Trident!partitionRows(n, c) = partitionRows(n, c)
  /\ \A block : Trident!RowsOf(block) = RowsOf(block)
BY DEF Trident!partitionRows, partitionRows, Trident!BlockRows, BlockRows,
       Trident!RowsOf, RowsOf

\* The products of a row, as a Trident program computes them.
TridentProductsIn(x, y, k) ==
  Trident!scalarProducts(Row(x, k), LAMBDA row : Trident!Row(y, row))

\* Its products are those of Csr.
LEMMA TridentProducts ==
  /\ \A x, y, k : TridentProductsIn(x, y, k) = ProductsIn(x, y, k)
  /\ \A x, y : Trident!serialSpgemm(x, y) = serialSpgemm(x, y)
  /\ \A c, x, y : Trident!IsProduct(c, x, y) <=> IsProduct(c, x, y)
  /\ \A x, y : Trident!scalarMultiplicationCount(x, y) = scalarMultiplicationCount(x, y)
<1>1. ASSUME NEW x, NEW y, NEW k
      PROVE  TridentProductsIn(x, y, k) = ProductsIn(x, y, k)
  BY TridentSums, TridentRows
  DEF TridentProductsIn, Trident!scalarProducts, scalarProducts, ProductsIn
<1>2. ASSUME NEW x, NEW y
      PROVE  Trident!serialSpgemm(x, y) = serialSpgemm(x, y)
  BY TridentSums, TridentRows, TridentFinishes
  DEF Trident!serialSpgemm, serialSpgemm, Trident!scalarProducts, scalarProducts
<1>3. \A x, y : Trident!scalarMultiplicationCount(x, y) = scalarMultiplicationCount(x, y)
  BY TridentSums, TridentRows DEF Trident!scalarMultiplicationCount, scalarMultiplicationCount
<1>4. \A c, x, y : Trident!IsProduct(c, x, y) <=> IsProduct(c, x, y)
  <2>1. \A m, row, column : Trident!ValueAt(m, row, column) = ValueAt(m, row, column)
    BY TridentRows, TridentFinishes DEF Trident!ValueAt, ValueAt
  <2>2. QED
    BY <2>1, TridentSums DEF Trident!IsProduct, IsProduct
<1> QED
  BY <1>1, <1>2, <1>3, <1>4

-----------------------------------------------------------------------------
(* Rows of a tile                                                          *)

\* Entries inside a block of columns.
EntryIn(cols) == [column : RowsOf(cols), value : Int]

IsBlock(block) == block.firstRow \in Nat /\ block.rows \in Nat

\* Counting columns from elsewhere moves the sums with them.
LEMMA RenumberedIs ==
  ASSUME NEW row \in Seq(Entry), NEW d \in Int, \A i \in 1 .. Len(row) : row[i].column + d \in Nat
  PROVE  /\ Trident!renumbered(row, d) \in Seq(Entry)
         /\ Len(Trident!renumbered(row, d)) = Len(row)
         /\ \A i \in 1 .. Len(row) : /\ Trident!renumbered(row, d)[i].column = row[i].column + d
                                     /\ Trident!renumbered(row, d)[i].value = row[i].value
         /\ \A c \in Int : ColumnSum(Trident!renumbered(row, d), c + d) = ColumnSum(row, c)
<1> DEFINE u == Trident!renumbered(row, d)
           n == Len(row)
<1>1. n \in Nat /\ DOMAIN row = 1 .. n /\ \A i \in 1 .. n : row[i] \in Entry
  BY RowParts
<1>2. u = [i \in 1 .. n |-> [row[i] EXCEPT !.column = @ + d]]
  BY <1>1 DEF Trident!renumbered
<1> HIDE DEF u, n
<1>3. ASSUME NEW i \in 1 .. n
      PROVE  /\ u[i] \in Entry /\ u[i].column = row[i].column + d
             /\ u[i].value = row[i].value /\ row[i].column \in Int
  <2>1. u[i] = [row[i] EXCEPT !.column = @ + d]
    BY <1>2
  <2>2. row[i] \in Entry /\ row[i].column + d \in Nat
    BY <1>1 DEF n
  <2>3. /\ row[i] = [column |-> row[i].column, value |-> row[i].value]
        /\ row[i].column \in Int /\ row[i].value \in Int
    BY <2>2 DEF Entry
  <2>4. u[i] = [column |-> row[i].column + d, value |-> row[i].value]
    BY <2>1, <2>3
  <2>5. QED
    BY <2>2, <2>3, <2>4 DEF Entry
<1>4. u \in Seq(Entry) /\ Len(u) = n
  <2> DEFINE E == Entry
  <2>1. \A i \in 1 .. n : u[i] \in E
    BY <1>3
  <2> HIDE DEF E
  <2>2. u = [i \in 1 .. n |-> u[i]]
    BY <1>2
  <2>3. u \in Seq(E) /\ Len(u) = n
    BY <1>1, <2>1, <2>2
  <2>4. QED
    BY <2>3 DEF E
<1>5. ASSUME NEW c \in Int
      PROVE  ColumnSum(u, c + d) = ColumnSum(row, c)
  <2> DEFINE s == TermsIn(row, c)
             t == TermsIn(u, c + d)
  <2>1. /\ ColumnSum(row, c) = SumUp(s, n)
        /\ \A i \in 1 .. n : s[i] = IF row[i].column = c THEN row[i].value ELSE 0
    BY TermsAre DEF n
  <2>2. /\ ColumnSum(u, c + d) = SumUp(t, n)
        /\ \A i \in 1 .. n : t[i] = IF u[i].column = c + d THEN u[i].value ELSE 0
    BY <1>4, TermsAre
  <2> HIDE DEF s, t
  <2>3. \A i \in 1 .. n : t[i] = s[i]
    <3>1. ASSUME NEW i \in 1 .. n PROVE t[i] = s[i]
      <4>1. u[i].column = c + d <=> row[i].column = c
        <5>1. u[i].column = row[i].column + d /\ row[i].column \in Int
          BY <1>3
        <5>2. QED
          BY <5>1
      <4>2. QED
        BY <1>3, <2>1, <2>2, <4>1
    <3>2. QED
      BY <3>1
  <2>4. SumUp(t, n) = SumUp(s, n)
    BY <2>3, SumSame
  <2>5. QED
    BY <2>1, <2>2, <2>4
<1>6. QED
  BY <1>3, <1>4, <1>5 DEF u, n

\* A cut keeps what lies inside, and what it adds up to.
LEMMA CutRowIs ==
  ASSUME NEW row \in Seq(Entry), NEW cols, IsBlock(cols)
  PROVE  /\ Trident!cutRow(row, cols) \in Seq(EntryIn(cols))
         /\ Trident!cutRow(row, cols) \in Seq(Entry)
         /\ \A c : ColumnSum(Trident!cutRow(row, cols), c)
                     = IF c \in RowsOf(cols) THEN ColumnSum(row, c) ELSE 0
         /\ Len(Trident!cutRow(row, cols))
              = SumUp([p \in 1 .. Len(row) |-> IF row[p].column \in RowsOf(cols) THEN 1 ELSE 0],
                      Len(row))
<1> DEFINE n == Len(row)
           ss == [p \in 1 .. n |-> IF row[p].column \in RowsOf(cols) THEN <<row[p]>> ELSE <<>>]
           cut == FlattenSeq(ss)
<1>1. n \in Nat /\ DOMAIN row = 1 .. n /\ \A i \in 1 .. n : row[i] \in Entry
  BY RowParts
<1>2. Trident!cutRow(row, cols) = cut
  BY <1>1, TridentSums, TridentBlocks DEF Trident!cutRow
<1>3. ASSUME NEW p \in 1 .. n, row[p].column \in RowsOf(cols)
      PROVE  row[p] \in EntryIn(cols)
  BY <1>1, <1>3 DEF EntryIn, Entry
<1>4. \A p \in 1 .. n : /\ row[p].column \in RowsOf(cols) => ss[p] = <<row[p]>>
                        /\ row[p].column \notin RowsOf(cols) => ss[p] = <<>>
  OBVIOUS
<1> HIDE DEF cut, n
<1>5. ss \in Seq(Seq(EntryIn(cols))) /\ ss \in Seq(Seq(Entry)) /\ Len(ss) = n
  <2> DEFINE E == EntryIn(cols)
             F == Entry
  <2>1. \A p \in 1 .. n : ss[p] \in Seq(E) /\ ss[p] \in Seq(F)
    <3>1. ASSUME NEW p \in 1 .. n PROVE ss[p] \in Seq(E) /\ ss[p] \in Seq(F)
      <4>1. CASE row[p].column \in RowsOf(cols)
        <5>1. ss[p] = <<row[p]>> /\ row[p] \in E /\ row[p] \in F
          BY <1>1, <1>3, <1>4, <4>1
        <5> HIDE DEF E, F, ss
        <5>2. QED
          BY <5>1
      <4>2. CASE row[p].column \notin RowsOf(cols)
        <5>1. ss[p] = <<>>
          BY <1>4, <4>2
        <5> HIDE DEF E, F, ss
        <5>2. QED
          BY <5>1
      <4>3. QED
        BY <4>1, <4>2
    <3>2. QED
      BY <3>1
  <2>2. ss = [p \in 1 .. n |-> ss[p]]
    OBVIOUS
  <2> HIDE DEF E, F, ss
  <2>3. ss \in Seq(Seq(E)) /\ ss \in Seq(Seq(F)) /\ Len(ss) = n
    BY <1>1, <2>1, <2>2
  <2>4. QED
    BY <2>3 DEF E, F
<1> HIDE DEF ss
<1>6. cut \in Seq(EntryIn(cols)) /\ cut \in Seq(Entry)
  <2> DEFINE E == EntryIn(cols)
             F == Entry
  <2>1. ss \in Seq(Seq(E)) /\ ss \in Seq(Seq(F))
    BY <1>5
  <2> HIDE DEF E, F
  <2>2. FlattenSeq(ss) \in Seq(E) /\ FlattenSeq(ss) \in Seq(F)
    BY <2>1, FlattenType
  <2>3. QED
    BY <2>2 DEF cut, E, F
<1>7. ASSUME NEW c
      PROVE  ColumnSum(cut, c) = IF c \in RowsOf(cols) THEN ColumnSum(row, c) ELSE 0
  <2> DEFINE t == [p \in 1 .. n |-> ColumnSum(ss[p], c)]
             s == TermsIn(row, c)
  <2>1. ColumnSum(cut, c) = SumUp(t, n)
    BY <1>5, ColumnSumOfFlat DEF cut
  <2>2. /\ ColumnSum(row, c) = SumUp(s, n) /\ Ints(s, n)
        /\ \A i \in 1 .. n : s[i] = IF row[i].column = c THEN row[i].value ELSE 0
    BY TermsAre DEF n
  <2> HIDE DEF s
  <2>3. ASSUME NEW p \in 1 .. n
        PROVE  t[p] = IF row[p].column \in RowsOf(cols) THEN s[p] ELSE 0
    <3>1. CASE row[p].column \in RowsOf(cols)
      <4>1. ss[p] = <<row[p]>> /\ row[p] \in Entry
        BY <1>1, <1>4, <3>1
      <4> DEFINE e == row[p]
                 one == <<e>>
      <4>2. one \in Seq(Entry) /\ Len(one) = 1 /\ one[1] = e /\ DOMAIN one = {1}
        BY <4>1
      <4>3. e.value \in Int
        BY <4>1 DEF Entry
      <4>4. ColumnSum(one, c) = IF e.column = c THEN e.value ELSE 0
        <5> HIDE DEF one, e
        <5>1. CASE e.column = c
          <6>1. 1 \in DOMAIN one /\ \A i \in DOMAIN one : i # 1 => one[i].column # one[1].column
            BY <4>2
          <6>2. ColumnSum(one, one[1].column) = one[1].value
            BY <4>2, <6>1, ColumnSumOfOne
          <6>3. QED
            BY <4>2, <5>1, <6>2
        <5>2. CASE e.column # c
          <6>1. \A i \in DOMAIN one : one[i].column # c
            BY <4>2, <5>2
          <6>2. ColumnSum(one, c) = 0
            BY <4>2, <6>1, ColumnSumOfNone
          <6>3. QED
            BY <5>2, <6>2
        <5>3. QED
          BY <5>1, <5>2
      <4>5. t[p] = ColumnSum(one, c)
        BY <4>1
      <4> HIDE DEF one, t
      <4>6. QED
        BY <2>2, <3>1, <4>4, <4>5
    <3>2. CASE row[p].column \notin RowsOf(cols)
      <4>1. ss[p] = <<>>
        BY <1>4, <3>2
      <4>2. ColumnSum(<<>>, c) = 0
        <5>1. <<>> \in Seq(Entry) /\ \A i \in DOMAIN <<>> : <<>>[i].column # c
          OBVIOUS
        <5>2. QED
          BY <5>1, ColumnSumOfNone
      <4>3. t[p] = 0
        BY <4>1, <4>2
      <4> HIDE DEF t
      <4>4. QED
        BY <3>2, <4>3
    <3>3. QED
      BY <3>1, <3>2
  <2> HIDE DEF t
  <2>4. CASE c \in RowsOf(cols)
    <3>1. \A p \in 1 .. n : t[p] = s[p]
      BY <2>2, <2>3, <2>4
    <3>2. SumUp(t, n) = SumUp(s, n)
      BY <3>1, SumSame
    <3>3. QED
      BY <2>1, <2>2, <2>4, <3>2
  <2>5. CASE c \notin RowsOf(cols)
    <3>1. \A p \in 1 .. n : t[p] = 0
      BY <2>2, <2>3, <2>5
    <3>2. SumUp(t, n) = 0
      BY <1>1, <3>1, SumZero
    <3>3. QED
      BY <2>1, <2>5, <3>2
  <2>6. QED
    BY <2>4, <2>5
<1>8. Len(cut) = SumUp([p \in 1 .. n |-> IF row[p].column \in RowsOf(cols) THEN 1 ELSE 0], n)
  <2> DEFINE x == [p \in 1 .. n |-> Len(ss[p])]
             y == [p \in 1 .. n |-> IF row[p].column \in RowsOf(cols) THEN 1 ELSE 0]
  <2>1. Len(cut) = SumUp(x, n)
    <3> DEFINE F == Entry
    <3>1. ss \in Seq(Seq(F)) /\ Len(ss) = n
      BY <1>5
    <3> HIDE DEF F
    <3>2. QED
      BY <3>1, FlatLength DEF cut
  <2>2. \A p \in 1 .. n : x[p] = y[p]
    <3>1. ASSUME NEW p \in 1 .. n PROVE x[p] = y[p]
      <4>1. CASE row[p].column \in RowsOf(cols)
        <5>1. ss[p] = <<row[p]>>
          BY <1>4, <4>1
        <5>2. QED
          BY <4>1, <5>1
      <4>2. CASE row[p].column \notin RowsOf(cols)
        <5>1. ss[p] = <<>>
          BY <1>4, <4>2
        <5>2. QED
          BY <4>2, <5>1
      <4>3. QED
        BY <4>1, <4>2
    <3>2. QED
      BY <3>1
  <2> HIDE DEF x, y
  <2>3. SumUp(x, n) = SumUp(y, n)
    BY <2>2, SumSame
  <2>4. QED
    BY <2>1, <2>3 DEF y
<1>9. QED
  BY <1>2, <1>6, <1>7, <1>8 DEF n

-----------------------------------------------------------------------------
(* Slices                                                                  *)

IsPart(m, block) ==
  /\ IsBlock(block.rows) /\ IsBlock(block.cols)
  /\ block.rows.firstRow + block.rows.rows <= m.rows
  /\ block.cols.firstRow + block.cols.rows <= m.cols

\* Entries of a row inside the columns.
Inside(row, cols) ==
  SumUp([p \in 1 .. Len(row) |-> IF row[p].column \in RowsOf(cols) THEN 1 ELSE 0], Len(row))

\* A row of a slice: what the row of the matrix holds inside, counted from the
\* first column.
SliceRow(row, cols) == Trident!renumbered(Trident!cutRow(row, cols), -cols.firstRow)

\* A row of a tile: its entries, and what they add up to in the tile's columns.
LEMMA SliceRowIs ==
  ASSUME NEW row \in Seq(Entry), NEW cols, IsBlock(cols)
  PROVE  /\ SliceRow(row, cols) \in Seq(EntryBelow(cols.rows))
         /\ SliceRow(row, cols) \in Seq(Entry)
         /\ \A c \in 0 .. cols.rows - 1 :
              ColumnSum(SliceRow(row, cols), c) = ColumnSum(row, cols.firstRow + c)
         /\ Len(SliceRow(row, cols)) = Inside(row, cols)
<1> DEFINE cut == Trident!cutRow(row, cols)
           d == -cols.firstRow
           u == SliceRow(row, cols)
           n == Len(cut)
<1>1. /\ cut \in Seq(EntryIn(cols)) /\ cut \in Seq(Entry)
      /\ \A c : ColumnSum(cut, c) = IF c \in RowsOf(cols) THEN ColumnSum(row, c) ELSE 0
      /\ n = Inside(row, cols)
  BY CutRowIs DEF Inside
<1>2. cols.firstRow \in Nat /\ cols.rows \in Nat /\ d \in Int
  BY DEF IsBlock
<1>3. u = Trident!renumbered(cut, d)
  BY DEF SliceRow
<1> HIDE DEF cut, u
<1>4. n \in Nat /\ \A i \in 1 .. n : cut[i] \in EntryIn(cols)
  <2> DEFINE E == EntryIn(cols)
  <2>1. cut \in Seq(E)
    BY <1>1
  <2> HIDE DEF E
  <2>2. n \in Nat /\ \A i \in 1 .. n : cut[i] \in E
    BY <2>1, RowParts
  <2>3. QED
    BY <2>2 DEF E
<1> HIDE DEF n
<1>5. \A i \in 1 .. n : /\ cut[i].column + d \in 0 .. cols.rows - 1
                        /\ cut[i].value \in Int
  <2>1. ASSUME NEW i \in 1 .. n
        PROVE  cut[i].column + d \in 0 .. cols.rows - 1 /\ cut[i].value \in Int
    <3>1. cut[i].column \in cols.firstRow .. cols.firstRow + cols.rows - 1 /\ cut[i].value \in Int
      BY <1>4 DEF EntryIn, RowsOf
    <3> DEFINE f == cols.firstRow
               w == cols.rows
               x == cut[i].column
    <3>2. f \in Nat /\ w \in Nat /\ x \in f .. f + w - 1
      BY <1>2, <3>1
    <3> HIDE DEF f, w, x
    <3>3. x + (-f) \in 0 .. w - 1
      BY ONLY <3>2
    <3>4. QED
      BY <3>1, <3>3 DEF f, w, x
  <2>2. QED
    BY <2>1
<1>6. /\ u \in Seq(Entry) /\ Len(u) = n
      /\ \A i \in 1 .. n : u[i].column = cut[i].column + d /\ u[i].value = cut[i].value
      /\ \A c \in Int : ColumnSum(u, c + d) = ColumnSum(cut, c)
  <2>1. \A i \in 1 .. Len(cut) : cut[i].column + d \in Nat
    BY <1>2, <1>5 DEF n
  <2> HIDE DEF d
  <2>2. QED
    BY <1>1, <1>2, <1>3, <2>1, RenumberedIs DEF n
<1>7. u \in Seq(EntryBelow(cols.rows))
  <2> DEFINE E == EntryBelow(cols.rows)
  <2>1. \A i \in 1 .. n : u[i] \in E
    <3>1. ASSUME NEW i \in 1 .. n PROVE u[i] \in E
      <4>1. u[i] \in Entry
        BY <1>6, RowParts
      <4>2. u[i] = [column |-> u[i].column, value |-> u[i].value]
        BY <4>1 DEF Entry
      <4>3. u[i].column \in 0 .. cols.rows - 1 /\ u[i].value \in Int
        BY <1>5, <1>6
      <4>4. QED
        BY <4>2, <4>3 DEF EntryBelow
    <3>2. QED
      BY <3>1
  <2>2. u = [i \in 1 .. n |-> u[i]]
    BY <1>6
  <2> HIDE DEF E
  <2>3. u \in Seq(E)
    BY <1>4, <2>1, <2>2
  <2>4. QED
    BY <2>3 DEF E
<1>8. ASSUME NEW c \in 0 .. cols.rows - 1
      PROVE  ColumnSum(u, c) = ColumnSum(row, cols.firstRow + c)
  <2> DEFINE g == cols.firstRow + c
  <2>1. g \in Int /\ g + d = c /\ g \in RowsOf(cols)
    BY <1>2 DEF RowsOf
  <2> HIDE DEF g, d
  <2>2. ColumnSum(u, g + d) = ColumnSum(cut, g)
    BY <1>6, <2>1
  <2>3. ColumnSum(cut, g) = ColumnSum(row, g)
    BY <1>1, <2>1
  <2>4. QED
    BY <2>1, <2>2, <2>3 DEF g
<1>9. QED
  BY <1>1, <1>6, <1>7, <1>8 DEF u

Readable(m) == m \in AnyCsr /\ validNumericCsr(m, FALSE)

\* What a valid matrix is.
LEMMA ReadableIs ==
  ASSUME NEW m, Readable(m)
  PROVE  /\ m \in AnyCsr /\ ValidOffsets(m)
         /\ m.rows \in Nat /\ m.cols \in Nat /\ Nnz(m) \in Nat
         /\ \A k \in 0 .. m.rows - 1 : /\ Row(m, k) \in Seq(EntryBelow(m.cols))
                                       /\ Row(m, k) \in Seq(Entry)
                                       /\ Len(Row(m, k)) = RowLength(m, k)
                                       /\ RowLength(m, k) \in Nat
<1>1. m \in AnyCsr /\ ValidOffsets(m) /\ \A k \in 0 .. m.rows - 1 : ColumnsInRange(m, k)
  BY DEF Readable, validNumericCsr
<1>2. QED
  BY <1>1, PointerOf, RowType, RowIs

\* A matrix whose rows fit can be read.
LEMMA CsrMatrixReadable ==
  ASSUME NEW cols \in Nat, NEW ss \in Seq(Seq(EntryBelow(cols)))
  PROVE  /\ Readable(CsrMatrix(ss, cols))
         /\ CsrMatrix(ss, cols).rows = Len(ss)
         /\ CsrMatrix(ss, cols).cols = cols
         /\ \A k \in 1 .. Len(ss) : Row(CsrMatrix(ss, cols), k - 1) = ss[k]
         /\ \A k \in 0 .. Len(ss) - 1 : Row(CsrMatrix(ss, cols), k) = ss[k + 1]
<1> DEFINE m == CsrMatrix(ss, cols)
           n == Len(ss)
<1>0. n \in Nat /\ \A k \in 1 .. n : ss[k] \in Seq(EntryBelow(cols))
  <2> DEFINE E == Seq(EntryBelow(cols))
  <2>1. ss \in Seq(E)
    OBVIOUS
  <2> HIDE DEF E
  <2>2. n \in Nat /\ \A k \in 1 .. n : ss[k] \in E
    BY <2>1, RowParts
  <2>3. QED
    BY <2>2 DEF E
<1> HIDE DEF n
<1>1. ss \in Seq(Seq(Entry)) /\ Len(ss) = n
  <2> DEFINE E == Seq(Entry)
             S == Seq(EntryBelow(cols))
  <2>1. \A k \in 1 .. n : ss[k] \in E
    BY <1>0, BelowIsEntry
  <2>2. ss \in Seq(S)
    OBVIOUS
  <2> HIDE DEF E, S
  <2>3. DOMAIN ss = 1 .. n /\ ss = [k \in 1 .. n |-> ss[k]]
    BY <2>2 DEF n
  <2>4. n \in Nat /\ ss = [k \in 1 .. n |-> ss[k]]
    BY <1>0, <2>3
  <2>6. ss \in Seq(E)
    BY <2>1, <2>4, SeqBy
  <2>5. QED
    BY <2>6 DEF E, n
<1>2. /\ m \in AnyCsr /\ ValidOffsets(m) /\ m.rows = n /\ m.cols = cols
      /\ \A k \in 1 .. n : Row(m, k - 1) = ss[k]
  BY <1>1, CsrMatrixIs
<1> HIDE DEF m
<1>3. \A k \in 0 .. n - 1 : Row(m, k) = ss[k + 1]
  <2>1. ASSUME NEW k \in 0 .. n - 1 PROVE Row(m, k) = ss[k + 1]
    <3>1. k + 1 \in 1 .. n /\ k + 1 - 1 = k
      BY <1>0
    <3>2. Row(m, k + 1 - 1) = ss[k + 1]
      BY ONLY <1>2, <3>1
    <3>3. QED
      BY <3>1, <3>2
  <2>2. QED
    BY <2>1
<1>4. \A k \in 0 .. m.rows - 1 : ColumnsInRange(m, k)
  <2>1. ASSUME NEW k \in 0 .. n - 1, NEW p \in DOMAIN Row(m, k)
        PROVE  Row(m, k)[p].column \in 0 .. cols - 1
    <3> DEFINE s == Row(m, k)
    <3>1. s \in Seq(EntryBelow(cols))
      <4>1. k + 1 \in 1 .. n
        BY <1>0
      <4>2. QED
        BY <1>0, <1>3, <4>1
    <3>2. p \in DOMAIN s
      OBVIOUS
    <3> HIDE DEF s
    <3>3. s[p] \in EntryBelow(cols)
      BY <3>1, <3>2, RowParts
    <3>4. s[p].column \in 0 .. cols - 1
      BY <3>3 DEF EntryBelow
    <3>5. QED
      BY <3>4 DEF s
  <2>2. QED
    BY <1>2, <2>1 DEF ColumnsInRange
<1>5. Readable(m)
  BY <1>2, <1>4 DEF Readable, validNumericCsr
<1>6. QED
  BY <1>2, <1>3, <1>5 DEF m, n

\* A slice holds what the matrix holds inside its block.
LEMMA SliceBlockIs ==
  ASSUME NEW m, Readable(m), NEW block, IsPart(m, block)
  PROVE  /\ Readable(Trident!sliceBlock(m, block))
         /\ Trident!sliceBlock(m, block).rows = block.rows.rows
         /\ Trident!sliceBlock(m, block).cols = block.cols.rows
         /\ \A k \in 0 .. block.rows.rows - 1 :
              /\ block.rows.firstRow + k \in 0 .. m.rows - 1
              /\ Row(Trident!sliceBlock(m, block), k)
                   = SliceRow(Row(m, block.rows.firstRow + k), block.cols)
<1> DEFINE n == block.rows.rows
           first == block.rows.firstRow
           cols == block.cols
           s == Trident!sliceBlock(m, block)
           ss == [k \in 1 .. n |-> SliceRow(Row(m, first + k - 1), cols)]
<1>1. n \in Nat /\ first \in Nat /\ cols.rows \in Nat /\ IsBlock(cols) /\ first + n <= m.rows
  BY DEF IsPart, IsBlock
<1>2. s = CsrMatrix(ss, cols.rows)
  BY TridentRows DEF Trident!sliceBlock, SliceRow
<1> HIDE DEF s
<1>3. m.rows \in Nat /\ \A k \in 0 .. m.rows - 1 : Row(m, k) \in Seq(Entry)
  BY ReadableIs
<1> HIDE DEF n, first, cols
<1>4. \A k \in 1 .. n : ss[k] \in Seq(EntryBelow(cols.rows))
  <2>1. ASSUME NEW k \in 1 .. n
        PROVE  SliceRow(Row(m, first + k - 1), cols) \in Seq(EntryBelow(cols.rows))
    <3>1. first + k - 1 \in 0 .. m.rows - 1
      BY <1>1, <1>3
    <3>2. QED
      BY <1>1, <1>3, <3>1, SliceRowIs
  <2>2. QED
    BY <2>1
<1>5. ss = [k \in 1 .. n |-> ss[k]]
  OBVIOUS
<1>6. \A k \in 0 .. n - 1 : /\ first + k \in 0 .. m.rows - 1
                            /\ ss[k + 1] = SliceRow(Row(m, first + k), cols)
  <2>1. ASSUME NEW k \in 0 .. n - 1
        PROVE  /\ first + k \in 0 .. m.rows - 1
               /\ ss[k + 1] = SliceRow(Row(m, first + k), cols)
    <3>1. k + 1 \in 1 .. n /\ first + (k + 1) - 1 = first + k /\ first + k \in 0 .. m.rows - 1
      BY <1>1, <1>3
    <3>2. ss[k + 1] = SliceRow(Row(m, first + (k + 1) - 1), cols)
      BY <3>1
    <3>3. QED
      BY <3>1, <3>2
  <2>2. QED
    BY <2>1
<1> HIDE DEF ss
<1>7. /\ Readable(s) /\ s.rows = n /\ s.cols = cols.rows
      /\ \A k \in 0 .. n - 1 : Row(s, k) = ss[k + 1]
  <2> DEFINE w == cols.rows
             S == Seq(EntryBelow(w))
  <2>1. w \in Nat /\ s = CsrMatrix(ss, w)
    BY <1>1, <1>2
  <2>2. ss \in Seq(S) /\ Len(ss) = n
    <3>1. \A k \in 1 .. n : ss[k] \in S
      BY <1>4
    <3> HIDE DEF S
    <3>2. QED
      BY <1>1, <1>5, <3>1
  <2> HIDE DEF w
  <2>3. QED
    BY <2>1, <2>2, CsrMatrixReadable DEF w
<1>8. QED
  BY <1>6, <1>7 DEF s, n, first, cols

-----------------------------------------------------------------------------
(* The blocks of a grid                                                    *)

\* Where a rank stands in the grid.
LEMMA PlaceIs ==
  ASSUME NEW r \in Trident!Rank
  PROVE  /\ Side \in Nat \ {0} /\ NodeSize \in Nat \ {0}
         /\ r.row \in 0 .. Side - 1 /\ r.col \in 0 .. Side - 1
         /\ r.nodeRank \in 0 .. NodeSize - 1
BY SidesAssumption DEF Trident!Rank, Trident!Coord

\* The rank at a place stands there.
LEMMA PlaceOf ==
  ASSUME NEW i \in 0 .. Side - 1, NEW j \in 0 .. Side - 1, NEW k \in 0 .. NodeSize - 1
  PROVE  /\ Trident!rankAt(i, j, k) \in Trident!Rank
         /\ Trident!rankAt(i, j, k).row = i
         /\ Trident!rankAt(i, j, k).col = j
         /\ Trident!rankAt(i, j, k).nodeRank = k
BY DEF Trident!rankAt, Trident!Rank, Trident!Coord

\* A rank is the one at its place.
LEMMA PlaceFrom ==
  ASSUME NEW r \in Trident!Rank
  PROVE  r = Trident!rankAt(r.row, r.col, r.nodeRank)
BY DEF Trident!rankAt, Trident!Rank, Trident!Coord

\* Two ranks at a place are one.
LEMMA SamePlace ==
  ASSUME NEW r \in Trident!Rank, NEW q \in Trident!Rank,
         r.row = q.row, r.col = q.col, r.nodeRank = q.nodeRank
  PROVE  r = q
<1>1. r = Trident!rankAt(r.row, r.col, r.nodeRank) /\ q = Trident!rankAt(q.row, q.col, q.nodeRank)
  BY PlaceFrom
<1>2. QED
  BY <1>1

\* The row of nodes, and the row of ranks within it.
NodeRows(rows, i) == partitionRows(rows, Side)[i]
RankRows(rows, i, k) == partitionRows(NodeRows(rows, i).rows, NodeSize)[k]

\* A rank's block: its part of a node's rows, and the columns of its node.
LEMMA MatrixBlockIs ==
  ASSUME NEW rows \in Nat, NEW cols \in Nat, NEW r \in Trident!Rank
  PROVE  LET block == Trident!matrixBlock(rows, cols, r)
         IN /\ IsBlock(block.rows) /\ IsBlock(block.cols)
            /\ block.rows.firstRow + block.rows.rows <= rows
            /\ block.cols.firstRow + block.cols.rows <= cols
            /\ block.rows.rows = RankRows(rows, r.row, r.nodeRank).rows
            /\ block.rows.firstRow
                 = NodeRows(rows, r.row).firstRow + RankRows(rows, r.row, r.nodeRank).firstRow
            /\ block.cols = NodeRows(cols, r.col)
            /\ IsBlock(NodeRows(rows, r.row)) /\ IsBlock(RankRows(rows, r.row, r.nodeRank))
            /\ RankRows(rows, r.row, r.nodeRank).firstRow + RankRows(rows, r.row, r.nodeRank).rows
                 <= NodeRows(rows, r.row).rows
<1> DEFINE i == r.row
           j == r.col
           k == r.nodeRank
           coarse == NodeRows(rows, i)
           local == RankRows(rows, i, k)
           wide == NodeRows(cols, j)
           block == Trident!matrixBlock(rows, cols, r)
<1>1. /\ Side \in Nat \ {0} /\ NodeSize \in Nat \ {0}
      /\ i \in 0 .. Side - 1 /\ j \in 0 .. Side - 1 /\ k \in 0 .. NodeSize - 1
  BY PlaceIs
<1>2. /\ block.rows.firstRow = coarse.firstRow + local.firstRow
      /\ block.rows.rows = local.rows
      /\ block.cols = wide
  BY TridentBlocks DEF Trident!matrixBlock, NodeRows, RankRows
<1> HIDE DEF i, j, k, block
<1>3. ASSUME NEW n \in Nat, NEW c \in Nat \ {0}, NEW x \in 0 .. c - 1
      PROVE  /\ IsBlock(partitionRows(n, c)[x])
             /\ partitionRows(n, c)[x].firstRow + partitionRows(n, c)[x].rows <= n
  <2>1. x \in 0 .. c /\ x + 1 \in 0 .. c
    OBVIOUS
  <2>2. /\ partitionRows(n, c)[x].firstRow = Start(n, c, x)
        /\ partitionRows(n, c)[x].rows \in Nat
        /\ Start(n, c, x + 1) = Start(n, c, x) + partitionRows(n, c)[x].rows
    BY PartitionIs
  <2>3. Start(n, c, x) \in 0 .. n /\ Start(n, c, x + 1) \in 0 .. n
    BY <2>1, PartitionIs
  <2>4. QED
    BY <2>2, <2>3 DEF IsBlock
<1>4. /\ IsBlock(coarse) /\ coarse.firstRow + coarse.rows <= rows
      /\ IsBlock(wide) /\ wide.firstRow + wide.rows <= cols
  BY <1>1, <1>3 DEF NodeRows
<1>5. IsBlock(local) /\ local.firstRow + local.rows <= coarse.rows
  <2>1. coarse.rows \in Nat
    BY <1>4 DEF IsBlock
  <2>2. QED
    BY <1>1, <1>3, <2>1 DEF RankRows
<1> HIDE DEF coarse, local, wide
<1>6. /\ IsBlock(block.rows) /\ IsBlock(block.cols)
      /\ block.rows.firstRow + block.rows.rows <= rows
      /\ block.cols.firstRow + block.cols.rows <= cols
  BY <1>2, <1>4, <1>5 DEF IsBlock
<1>7. QED
  BY <1>2, <1>4, <1>5, <1>6 DEF block, coarse, local, wide, i, j, k

\* The tile of a rank.
Tile(m, r) == Trident!sliceBlock(m, Trident!matrixBlock(m.rows, m.cols, r))

\* A tile holds the rows of its block, cut and renumbered.
LEMMA TileIs ==
  ASSUME NEW m, Readable(m), NEW r \in Trident!Rank
  PROVE  LET block == Trident!matrixBlock(m.rows, m.cols, r)
         IN /\ IsPart(m, block)
            /\ Readable(Tile(m, r))
            /\ Tile(m, r).rows = block.rows.rows
            /\ Tile(m, r).cols = block.cols.rows
            /\ \A k \in 0 .. block.rows.rows - 1 :
                 /\ block.rows.firstRow + k \in 0 .. m.rows - 1
                 /\ Row(Tile(m, r), k) = SliceRow(Row(m, block.rows.firstRow + k), block.cols)
<1> DEFINE block == Trident!matrixBlock(m.rows, m.cols, r)
<1>1. m.rows \in Nat /\ m.cols \in Nat
  BY ReadableIs
<1>2. IsPart(m, block)
  BY <1>1, MatrixBlockIs DEF IsPart
<1> HIDE DEF block
<1>3. QED
  BY <1>2, SliceBlockIs DEF block, Tile

\* The ranks that hold a row, or a column.
HoldsRow(rows, cols, r, row) == row \in RowsOf(Trident!matrixBlock(rows, cols, r).rows)
HoldsColumn(rows, cols, r, column) == column \in RowsOf(Trident!matrixBlock(rows, cols, r).cols)

RowHeldAt(rows, cols, row, i, k) ==
  \A r \in Trident!Rank : HoldsRow(rows, cols, r, row) <=> r.row = i /\ r.nodeRank = k

\* A row is held in one row of nodes, by the ranks of one node rank.
LEMMA RowHolders ==
  ASSUME NEW rows \in Nat, NEW cols \in Nat, NEW row \in 0 .. rows - 1
  PROVE  \E i \in 0 .. Side - 1, k \in 0 .. NodeSize - 1 : RowHeldAt(rows, cols, row, i, k)
<1>1. Side \in Nat \ {0} /\ NodeSize \in Nat \ {0}
  BY SidesAssumption
<1>2. PICK i \in 0 .. Side - 1 :
        /\ row \in RowsOf(NodeRows(rows, i))
        /\ \A j \in 0 .. Side - 1 : row \in RowsOf(NodeRows(rows, j)) => j = i
  BY <1>1, InOneBlock DEF NodeRows
<1> DEFINE coarse == NodeRows(rows, i)
           n == coarse.rows
           x == row - coarse.firstRow
<1>3. IsBlock(coarse)
  <2>1. i \in 0 .. Side
    BY <1>1
  <2>2. /\ coarse.firstRow = Start(rows, Side, i) /\ coarse.rows \in Nat
        /\ Start(rows, Side, i) \in 0 .. rows
    BY <1>1, <2>1, PartitionIs DEF NodeRows
  <2>3. QED
    BY <2>2 DEF IsBlock
<1>4. n \in Nat /\ x \in 0 .. n - 1
  BY <1>2, <1>3 DEF IsBlock, RowsOf
<1>5. PICK k \in 0 .. NodeSize - 1 :
        /\ x \in RowsOf(RankRows(rows, i, k))
        /\ \A j \in 0 .. NodeSize - 1 : x \in RowsOf(RankRows(rows, i, j)) => j = k
  <2> HIDE DEF x
  <2>1. QED
    BY <1>1, <1>4, InOneBlock DEF RankRows
<1>6. ASSUME NEW r \in Trident!Rank
      PROVE  HoldsRow(rows, cols, r, row) <=> r.row = i /\ r.nodeRank = k
  <2> DEFINE block == Trident!matrixBlock(rows, cols, r)
             c == NodeRows(rows, r.row)
             l == RankRows(rows, r.row, r.nodeRank)
  <2>1. /\ r.row \in 0 .. Side - 1 /\ r.nodeRank \in 0 .. NodeSize - 1
    BY PlaceIs
  <2>2. /\ block.rows.rows = l.rows /\ block.rows.firstRow = c.firstRow + l.firstRow
        /\ IsBlock(c) /\ IsBlock(l) /\ l.firstRow + l.rows <= c.rows
    BY MatrixBlockIs
  <2> HIDE DEF block
  <2>3. HoldsRow(rows, cols, r, row) <=> row \in RowsOf(block.rows)
    BY DEF HoldsRow, block
  <2> DEFINE f == c.firstRow
             g == l.firstRow
             h == l.rows
             w == c.rows
  <2>4. /\ f \in Nat /\ g \in Nat /\ h \in Nat /\ w \in Nat /\ g + h <= w /\ row \in Int
        /\ (row \in RowsOf(block.rows) <=> row \in f + g .. f + g + h - 1)
        /\ (row \in RowsOf(c) <=> row \in f .. f + w - 1)
        /\ (row - f \in RowsOf(l) <=> row - f \in g .. g + h - 1)
    BY <2>2 DEF IsBlock, RowsOf
  <2>5. row \in RowsOf(block.rows) <=> row \in RowsOf(c) /\ row - f \in RowsOf(l)
    <3> HIDE DEF f, g, h, w
    <3>1. row \in f + g .. f + g + h - 1 <=> row \in f .. f + w - 1 /\ row - f \in g .. g + h - 1
      BY ONLY <2>4
    <3>2. QED
      BY <2>4, <3>1
  <2>6. row \in RowsOf(c) <=> r.row = i
    BY <1>2, <2>1
  <2>7. r.row = i => (row - f \in RowsOf(l) <=> r.nodeRank = k)
    BY <1>5, <2>1
  <2>8. QED
    BY <2>3, <2>5, <2>6, <2>7
<1>7. RowHeldAt(rows, cols, row, i, k)
  BY <1>6 DEF RowHeldAt
<1>8. QED
  BY <1>7

ColumnHeldAt(rows, cols, column, j) ==
  \A r \in Trident!Rank : HoldsColumn(rows, cols, r, column) <=> r.col = j

\* A column is held in one column of nodes.
LEMMA ColumnHolders ==
  ASSUME NEW rows \in Nat, NEW cols \in Nat, NEW column \in 0 .. cols - 1
  PROVE  \E j \in 0 .. Side - 1 : ColumnHeldAt(rows, cols, column, j)
<1>1. Side \in Nat \ {0}
  BY SidesAssumption
<1>2. PICK j \in 0 .. Side - 1 :
        /\ column \in RowsOf(NodeRows(cols, j))
        /\ \A i \in 0 .. Side - 1 : column \in RowsOf(NodeRows(cols, i)) => i = j
  BY <1>1, InOneBlock DEF NodeRows
<1>3. ASSUME NEW r \in Trident!Rank
      PROVE  HoldsColumn(rows, cols, r, column) <=> r.col = j
  <2>1. r.col \in 0 .. Side - 1
    BY PlaceIs
  <2>2. Trident!matrixBlock(rows, cols, r).cols = NodeRows(cols, r.col)
    BY MatrixBlockIs
  <2>3. QED
    BY <1>2, <2>1, <2>2 DEF HoldsColumn
<1>4. ColumnHeldAt(rows, cols, column, j)
  BY <1>3 DEF ColumnHeldAt
<1>5. QED
  BY <1>4

-----------------------------------------------------------------------------
(* The numbers of the ranks                                                *)

\* A number in base c has one way to be written.
LEMMA OneWayToWrite ==
  ASSUME NEW c \in Nat \ {0}, NEW x \in Int, NEW y \in Int,
         NEW u \in 0 .. c - 1, NEW v \in 0 .. c - 1, x * c + u = y * c + v
  PROVE  x = y /\ u = v
<1>1. ASSUME NEW p \in Int, NEW q \in Int, NEW s \in 0 .. c - 1, NEW t \in 0 .. c - 1,
             p * c + s = q * c + t
      PROVE  ~(p < q)
  <2>1. SUFFICES ASSUME p < q PROVE FALSE
    OBVIOUS
  <2>2. PICK d \in Nat : q = p + 1 + d
    <3>1. q - p - 1 \in Nat /\ q = p + 1 + (q - p - 1)
      BY <2>1
    <3>2. QED
      BY <3>1
  <2>3. q * c = p * c + c + d * c
    BY <2>2
  <2>4. d * c >= 0
    <3>1. d * c \in Nat
      OBVIOUS
    <3>2. QED
      BY <3>1
  <2> DEFINE w == p * c
             z == d * c
  <2>5. w \in Int /\ z \in Int
    OBVIOUS
  <2>6. w + s = w + c + z + t /\ z >= 0
    BY <1>1, <2>3, <2>4
  <2> HIDE DEF w, z
  <2>7. QED
    BY <2>5, <2>6
<1>2. ~(x < y)
  BY <1>1
<1>3. ~(y < x)
  BY <1>1
<1>4. x = y
  BY <1>2, <1>3
<1>5. u = v
  <2> DEFINE w == x * c
  <2>1. w \in Int /\ w + u = w + v
    BY <1>4
  <2> HIDE DEF w
  <2>2. QED
    BY <2>1
<1>6. QED
  BY <1>4, <1>5

\* A number from its quotient and its remainder.
LEMMA DigitsOf ==
  ASSUME NEW n \in Nat, NEW c \in Nat \ {0}
  PROVE  n \div c \in Nat /\ n % c \in 0 .. c - 1 /\ n = (n \div c) * c + (n % c)
OBVIOUS

\* Both are in range when the number is.
LEMMA DigitsAre ==
  ASSUME NEW c \in Nat \ {0}, NEW d \in Nat, NEW m \in 0 .. d * c - 1
  PROVE  /\ m % c \in 0 .. c - 1
         /\ m \div c \in 0 .. d - 1
         /\ m = (m \div c) * c + (m % c)
<1> DEFINE q == m \div c
           u == m % c
<1>2. m \in Nat /\ m < d * c
  <2>1. d * c \in Int
    OBVIOUS
  <2>2. QED
    BY <2>1
<1>3. q \in Int /\ u \in 0 .. c - 1 /\ m = q * c + u
  BY <1>2, DigitsOf
<1> HIDE DEF q, u
<1>4. q >= 0
  <2>1. SUFFICES ASSUME q < 0 PROVE FALSE
    BY <1>3
  <2>2. PICK e \in Nat : q = -1 - e
    <3>1. -1 - q \in Nat /\ q = -1 - (-1 - q)
      BY <1>3, <2>1
    <3>2. QED
      BY <3>1
  <2>3. q * c = -c - e * c /\ e * c \in Nat
    BY <2>2
  <2> DEFINE w == q * c
             z == e * c
  <2>4. w = -c - z /\ z \in Nat /\ m = w + u
    BY <1>3, <2>3
  <2> HIDE DEF w, z
  <2>5. QED
    BY <1>2, <1>3, <2>4
<1>5. q < d
  <2>1. SUFFICES ASSUME q >= d PROVE FALSE
    BY <1>3
  <2>2. PICK e \in Nat : q = d + e
    <3>1. q - d \in Nat /\ q = d + (q - d)
      BY <1>3, <2>1
    <3>2. QED
      BY <3>1
  <2>3. q * c = d * c + e * c /\ e * c \in Nat /\ d * c \in Nat
    BY <2>2
  <2> DEFINE w == q * c
             z == e * c
             x == d * c
  <2>4. w = x + z /\ z \in Nat /\ x \in Nat /\ m = w + u /\ m < x
    BY <1>2, <1>3, <2>3
  <2> HIDE DEF w, z, x
  <2>5. QED
    BY <1>2, <1>3, <2>4
<1>6. q \in 0 .. d - 1
  BY <1>3, <1>4, <1>5
<1>7. /\ u \in 0 .. c - 1
      /\ q \in 0 .. d - 1
      /\ m = q * c + u
  BY <1>3, <1>6
<1>8. QED
  BY ONLY <1>7, Zenon DEF q, u

\* How many ranks there are.
Places == Side * Side * NodeSize

\* No two ranks have a number, and inside a row numbers ascend with columns.
LEMMA NumberIs ==
  ASSUME NEW r \in Trident!Rank
  PROVE  /\ Trident!RankNumber(r) \in 0 .. Places - 1
         /\ \A q \in Trident!Rank : Trident!RankNumber(q) = Trident!RankNumber(r) => q = r
         /\ \A q \in Trident!Rank :
              q.row = r.row /\ q.nodeRank = r.nodeRank
              /\ Trident!RankNumber(q) < Trident!RankNumber(r) => q.col < r.col
<1> DEFINE number(q) == (q.row * Side + q.col) * NodeSize + q.nodeRank
<1>1. \A q : Trident!RankNumber(q) = number(q)
  BY DEF Trident!RankNumber
<1>2. Side \in Nat \ {0} /\ NodeSize \in Nat \ {0}
  BY PlaceIs
<1>3. ASSUME NEW q \in Trident!Rank
      PROVE  /\ q.row \in 0 .. Side - 1 /\ q.col \in 0 .. Side - 1
             /\ q.nodeRank \in 0 .. NodeSize - 1
             /\ q.row * Side + q.col \in 0 .. Side * Side - 1
  <2>1. /\ q.row \in 0 .. Side - 1 /\ q.col \in 0 .. Side - 1
        /\ q.nodeRank \in 0 .. NodeSize - 1
    BY PlaceIs
  <2> DEFINE i == q.row
             j == q.col
             x == i * Side
  <2>2. i \in 0 .. Side - 1 /\ j \in 0 .. Side - 1
    BY <2>1
  <2> HIDE DEF i, j
  <2>3. x \in Nat /\ x <= Side * Side - Side /\ Side * Side \in Nat
    <3>1. PICK e \in Nat : Side = i + 1 + e
      <4>1. Side - i - 1 \in Nat /\ Side = i + 1 + (Side - i - 1)
        BY <1>2, <2>2
      <4>2. QED
        BY <4>1
    <3>2. Side * Side = i * Side + Side + e * Side /\ e * Side \in Nat /\ i * Side \in Nat
      BY <1>2, <2>2, <3>1
    <3>3. QED
      BY <1>2, <3>2
  <2> HIDE DEF x
  <2>4. x + j \in 0 .. Side * Side - 1
    <3> DEFINE z == Side * Side
    <3>1. z \in Nat /\ x <= z - Side
      BY <2>3
    <3> HIDE DEF z
    <3>2. x + j \in 0 .. z - 1
      BY <1>2, <2>2, <2>3, <3>1
    <3>3. QED
      BY <3>2 DEF z
  <2>5. QED
    BY <2>1, <2>4 DEF x, i, j
<1>4. number(r) \in 0 .. Places - 1
  <2> DEFINE x == r.row * Side + r.col
             k == r.nodeRank
             z == Side * Side
             w == x * NodeSize
  <2>1. x \in 0 .. z - 1 /\ z \in Nat /\ k \in 0 .. NodeSize - 1
    BY <1>2, <1>3
  <2> HIDE DEF x, k, z
  <2>2. PICK e \in Nat : z = x + 1 + e
    <3>1. z - x - 1 \in Nat /\ z = x + 1 + (z - x - 1)
      BY <2>1
    <3>2. QED
      BY <3>1
  <2>3. z * NodeSize = x * NodeSize + NodeSize + e * NodeSize
        /\ e * NodeSize \in Nat /\ x * NodeSize \in Nat
    BY <1>2, <2>1, <2>2
  <2> DEFINE y == z * NodeSize
             v == e * NodeSize
  <2>4. y = w + NodeSize + v /\ v \in Nat /\ w \in Nat
    BY <2>3
  <2> HIDE DEF y, v, w
  <2>5. w + k \in 0 .. y - 1
    BY <1>2, <2>1, <2>4
  <2>6. QED
    BY <2>5 DEF y, w, x, k, z, Places
<1>5. ASSUME NEW q \in Trident!Rank, number(q) = number(r)
      PROVE  q = r
  <2>1. /\ q.row * Side + q.col \in Int /\ r.row * Side + r.col \in Int
        /\ q.nodeRank \in 0 .. NodeSize - 1 /\ r.nodeRank \in 0 .. NodeSize - 1
    BY <1>3
  <2> DEFINE x == q.row * Side + q.col
             y == r.row * Side + r.col
  <2>2. x * NodeSize + q.nodeRank = y * NodeSize + r.nodeRank
    BY <1>5
  <2>3. x \in Int /\ y \in Int
    BY <2>1
  <2> HIDE DEF x, y
  <2>4. x = y /\ q.nodeRank = r.nodeRank
    BY <1>2, <2>1, <2>2, <2>3, OneWayToWrite
  <2>5. q.row * Side + q.col = r.row * Side + r.col
    BY <2>4 DEF x, y
  <2>6. /\ q.row \in Int /\ r.row \in Int
        /\ q.col \in 0 .. Side - 1 /\ r.col \in 0 .. Side - 1
    BY <1>3
  <2>7. q.row = r.row /\ q.col = r.col
    BY <1>2, <2>5, <2>6, OneWayToWrite
  <2>8. QED
    BY <2>4, <2>7, SamePlace
<1>6. ASSUME NEW q \in Trident!Rank, q.row = r.row, q.nodeRank = r.nodeRank, number(q) < number(r)
      PROVE  q.col < r.col
  <2> DEFINE i == r.row
             k == r.nodeRank
             j == r.col
             l == q.col
             x == i * Side
  <2>1. i \in Int /\ j \in Int /\ l \in Int /\ k \in Int
    BY <1>3
  <2>2. (x + l) * NodeSize + k < (x + j) * NodeSize + k
    BY <1>6
  <2> HIDE DEF i, j, k, l
  <2>3. x \in Int
    BY <1>2, <2>1
  <2> HIDE DEF x
  <2>4. SUFFICES ASSUME l >= j PROVE FALSE
    BY <2>1 DEF l, j
  <2>5. PICK e \in Nat : l = j + e
    <3>1. l - j \in Nat /\ l = j + (l - j)
      BY <2>1, <2>4
    <3>2. QED
      BY <3>1
  <2>6. (x + l) * NodeSize = (x + j) * NodeSize + e * NodeSize /\ e * NodeSize \in Nat
    BY <1>2, <2>1, <2>3, <2>5
  <2> DEFINE w == (x + l) * NodeSize
             y == (x + j) * NodeSize
             v == e * NodeSize
  <2>7. w = y + v /\ v \in Nat /\ w + k < y + k /\ y \in Int
    BY <1>2, <2>1, <2>2, <2>3, <2>6
  <2> HIDE DEF w, y, v
  <2>8. QED
    BY <2>1, <2>7
<1>7. QED
  BY <1>1, <1>4, <1>5, <1>6

\* Every number is some rank's.
LEMMA NumberTaken ==
  ASSUME NEW m \in 0 .. Places - 1
  PROVE  \E r \in Trident!Rank : Trident!RankNumber(r) = m
<1>1. Side \in Nat \ {0} /\ NodeSize \in Nat \ {0}
  BY SidesAssumption
<1> DEFINE z == Side * Side
           q == m \div NodeSize
           k == m % NodeSize
           i == q \div Side
           j == q % Side
<1>2. z \in Nat /\ m \in 0 .. z * NodeSize - 1
  BY <1>1 DEF Places
<1>3. k \in 0 .. NodeSize - 1 /\ q \in 0 .. z - 1 /\ m = q * NodeSize + k
  <2> HIDE DEF z
  <2>1. QED
    BY <1>1, <1>2, DigitsAre
<1>4. j \in 0 .. Side - 1 /\ i \in 0 .. Side - 1 /\ q = i * Side + j
  <2> HIDE DEF q
  <2>1. q \in 0 .. Side * Side - 1
    BY <1>3
  <2>2. QED
    BY <1>1, <2>1, DigitsAre
<1> HIDE DEF z, q, k, i, j
<1> DEFINE r == Trident!rankAt(i, j, k)
<1>5. r \in Trident!Rank /\ r.row = i /\ r.col = j /\ r.nodeRank = k
  BY <1>3, <1>4, PlaceOf
<1>6. Trident!RankNumber(r) = m
  BY <1>3, <1>4, <1>5 DEF Trident!RankNumber
<1>7. QED
  BY <1>5, <1>6

\* The list of ranks is the ranks by number.
LEMMA RankListIs ==
  /\ Places \in Nat
  /\ Len(Trident!RankList) = Places /\ DOMAIN Trident!RankList = 1 .. Places
  /\ \A n \in 1 .. Places : /\ Trident!RankList[n] \in Trident!Rank
                            /\ Trident!RankNumber(Trident!RankList[n]) = n - 1
  /\ \A r \in Trident!Rank : /\ Trident!RankNumber(r) + 1 \in 1 .. Places
                             /\ Trident!RankList[Trident!RankNumber(r) + 1] = r
<1>1. Places \in Nat
  BY SidesAssumption DEF Places
<1>2. Trident!RankList
        = [n \in 1 .. Places |-> CHOOSE r \in Trident!Rank : Trident!RankNumber(r) = n - 1]
  BY DEF Trident!RankList, Places
<1>3. Len(Trident!RankList) = Places /\ DOMAIN Trident!RankList = 1 .. Places
  BY <1>1, <1>2
<1>4. ASSUME NEW n \in 1 .. Places
      PROVE  /\ Trident!RankList[n] \in Trident!Rank
             /\ Trident!RankNumber(Trident!RankList[n]) = n - 1
  <2>1. n - 1 \in 0 .. Places - 1
    BY <1>1
  <2>2. \E r \in Trident!Rank : Trident!RankNumber(r) = n - 1
    BY <2>1, NumberTaken
  <2>3. Trident!RankList[n] = CHOOSE r \in Trident!Rank : Trident!RankNumber(r) = n - 1
    BY <1>2
  <2>4. QED
    BY <2>2, <2>3
<1>5. ASSUME NEW r \in Trident!Rank
      PROVE  /\ Trident!RankNumber(r) + 1 \in 1 .. Places
             /\ Trident!RankList[Trident!RankNumber(r) + 1] = r
  <2> DEFINE m == Trident!RankNumber(r)
  <2>1. m \in 0 .. Places - 1
    BY NumberIs
  <2>2. /\ \A q \in Trident!Rank : Trident!RankNumber(q) = m => q = r
    BY NumberIs
  <2> DEFINE n == m + 1
  <2> HIDE DEF m
  <2>3. n \in 1 .. Places /\ n - 1 = m
    BY <1>1, <2>1
  <2> HIDE DEF n
  <2>4. /\ Trident!RankList[n] \in Trident!Rank
        /\ Trident!RankNumber(Trident!RankList[n]) = m
    BY <1>4, <2>3
  <2>5. n \in 1 .. Places /\ Trident!RankList[n] = r
    BY <2>2, <2>3, <2>4
  <2>6. QED
    BY <2>5 DEF m, n
<1>6. QED
  BY <1>1, <1>3, <1>4, <1>5

-----------------------------------------------------------------------------
(* Sums over a grid                                                        *)

\* What a stretch of the terms adds up to, as a sum over all of them.
LEMMA SumInside ==
  ASSUME NEW s, NEW N \in Nat, Ints(s, N), NEW first \in Nat, NEW n \in Nat, first + n <= N,
         NEW u, Stretch(u, n, s, first),
         NEW t, \A i \in 1 .. N : t[i] = IF i \in first + 1 .. first + n THEN s[i] ELSE 0
  PROVE  SumUp(u, n) = SumUp(t, N)
<1> DEFINE mid == first + n
           rest == N - mid
           z == [i \in 1 .. rest |-> t[mid + i]]
<1>1. mid \in 0 .. N /\ rest \in Nat /\ N = mid + rest /\ first \in 0 .. N
  OBVIOUS
<1>2. \A i \in 1 .. N : /\ i \in first + 1 .. mid => t[i] = s[i]
                        /\ i \notin first + 1 .. mid => t[i] = 0
  OBVIOUS
<1>3. Ints(t, N)
  BY <1>2 DEF Ints
<1>4. SumUp(t, first) = 0
  <2>1. \A i \in 1 .. first : t[i] = 0
    BY <1>1, <1>2
  <2>2. QED
    BY <2>1, SumZero
<1>5. SumUp(u, n) = SumUp(t, mid) - SumUp(t, first)
  <2>1. Stretch(u, n, t, first)
    <3>1. ASSUME NEW i \in 1 .. n PROVE u[i] = t[first + i]
      <4>1. first + i \in 1 .. N /\ first + i \in first + 1 .. mid
        OBVIOUS
      <4>2. QED
        BY <1>2, <4>1 DEF Stretch
    <3>2. QED
      BY <3>1 DEF Stretch
  <2> HIDE DEF mid
  <2>2. mid = first + n
    BY DEF mid
  <2>3. QED
    BY <1>1, <1>3, <2>1, <2>2, SumSegment
<1>6. SumUp(z, rest) = SumUp(t, N) - SumUp(t, mid)
  <2>1. Stretch(z, rest, t, mid)
    BY DEF Stretch
  <2> HIDE DEF mid, rest, z
  <2>2. mid \in Nat /\ N \in 0 .. N
    BY <1>1
  <2>3. QED
    BY <1>1, <1>3, <2>1, <2>2, SumSegment
<1>7. SumUp(z, rest) = 0
  <2>1. \A i \in 1 .. rest : z[i] = 0
    <3>1. ASSUME NEW i \in 1 .. rest PROVE z[i] = 0
      <4>1. mid + i \in 1 .. N /\ mid + i \notin first + 1 .. mid
        OBVIOUS
      <4>2. t[mid + i] = 0
        BY <1>2, <4>1
      <4>3. QED
        BY <4>2
    <3>2. QED
      BY <3>1
  <2> HIDE DEF rest, z
  <2>2. QED
    BY <1>1, <2>1, SumZero
<1>8. \A i \in 0 .. N : SumUp(t, i) \in Int
  BY <1>3, SumRec
<1> HIDE DEF mid, rest, z
<1>9. SumUp(t, mid) \in Int /\ SumUp(t, first) \in Int /\ SumUp(t, N) \in Int
  BY <1>1, <1>8
<1>10. SumUp(u, n) = SumUp(t, mid)
  BY ONLY <1>4, <1>5, <1>9
<1>11. SumUp(t, N) = SumUp(t, mid)
  BY ONLY <1>6, <1>7, <1>9
<1>12. QED
  BY <1>10, <1>11

\* What the rows of a rank add up to, row by row.
RowsTotal(G, rows, cols, r) ==
  SumUp([k \in 1 .. Trident!matrixBlock(rows, cols, r).rows.rows |->
          G[<<Trident!matrixBlock(rows, cols, r).rows.firstRow + k, r.col + 1>>]],
        Trident!matrixBlock(rows, cols, r).rows.rows)

GridInts(G, rows) == \A row \in 1 .. rows, j \in 1 .. Side : G[<<row, j>>] \in Int

\* Where a row of the matrix counts in the total of a rank.
Counted1(G, rows, cols, r, row) ==
  IF HoldsRow(rows, cols, r, row - 1) THEN G[<<row, r.col + 1>>] ELSE 0

\* A sum over the rows of a block is one over all rows.
LEMMA RowsTotalIs ==
  ASSUME NEW rows \in Nat, NEW cols \in Nat, NEW G, GridInts(G, rows), NEW r \in Trident!Rank
  PROVE  /\ RowsTotal(G, rows, cols, r)
              = SumUp([row \in 1 .. rows |-> Counted1(G, rows, cols, r, row)], rows)
         /\ \A row \in 1 .. rows : Counted1(G, rows, cols, r, row) \in Int
<1> DEFINE block == Trident!matrixBlock(rows, cols, r)
           first == block.rows.firstRow
           n == block.rows.rows
           j == r.col + 1
           u == [k \in 1 .. n |-> G[<<first + k, j>>]]
           s == [row \in 1 .. rows |-> G[<<row, j>>]]
           t == [row \in 1 .. rows |-> Counted1(G, rows, cols, r, row)]
<1>1. first \in Nat /\ n \in Nat /\ first + n <= rows
  <2>1. IsBlock(block.rows) /\ first + n <= rows
    BY MatrixBlockIs
  <2>2. QED
    BY <2>1 DEF IsBlock
<1>2. j \in 1 .. Side
  BY PlaceIs
<1>3. \A row : HoldsRow(rows, cols, r, row) <=> row \in first .. first + n - 1
  BY DEF HoldsRow, RowsOf
<1>4. \A row : Counted1(G, rows, cols, r, row) = IF row - 1 \in first .. first + n - 1 THEN G[<<row, j>>] ELSE 0
  BY <1>3 DEF Counted1
<1>5. RowsTotal(G, rows, cols, r) = SumUp(u, n)
  BY DEF RowsTotal
<1> HIDE DEF block, first, n, j
<1>6. Ints(s, rows)
  BY <1>2 DEF Ints, GridInts
<1>7. Stretch(u, n, s, first)
  <2>1. ASSUME NEW k \in 1 .. n PROVE u[k] = s[first + k]
    <3>1. first + k \in 1 .. rows
      BY <1>1
    <3>2. QED
      BY <3>1
  <2>2. QED
    BY <2>1 DEF Stretch
<1>8. \A row \in 1 .. rows : t[row] = IF row \in first + 1 .. first + n THEN s[row] ELSE 0
  <2>1. ASSUME NEW row \in 1 .. rows
        PROVE  t[row] = IF row \in first + 1 .. first + n THEN s[row] ELSE 0
    <3>1. row - 1 \in first .. first + n - 1 <=> row \in first + 1 .. first + n
      BY <1>1
    <3>2. QED
      BY <1>4, <3>1
  <2>2. QED
    BY <2>1
<1>9. \A row \in 1 .. rows : Counted1(G, rows, cols, r, row) \in Int
  <2>1. \A row \in 1 .. rows : G[<<row, j>>] \in Int
    BY <1>2 DEF GridInts
  <2>2. ASSUME NEW row \in 1 .. rows PROVE Counted1(G, rows, cols, r, row) \in Int
    <3>1. \/ Counted1(G, rows, cols, r, row) = G[<<row, j>>]
          \/ Counted1(G, rows, cols, r, row) = 0
      BY <1>4
    <3>2. G[<<row, j>>] \in Int /\ 0 \in Int
      BY <2>1
    <3>3. QED
      BY ONLY <3>1, <3>2
  <2>3. QED
    BY <2>2
<1> HIDE DEF u, s, t
<1>10. SumUp(u, n) = SumUp(t, rows)
  BY <1>1, <1>6, <1>7, <1>8, SumInside
<1>11. QED
  BY <1>5, <1>9, <1>10 DEF t

\* Over all ranks every row counts once in each column of nodes.
LEMMA RowOverRanks ==
  ASSUME NEW rows \in Nat, NEW cols \in Nat, NEW G, GridInts(G, rows), NEW row \in 1 .. rows
  PROVE  SumUp([n \in 1 .. Places |->
                 Counted1(G, rows, cols, Trident!RankList[n], row)], Places)
           = SumUp([j \in 1 .. Side |-> G[<<row, j>>]], Side)
<1> DEFINE R(n) == Trident!RankList[n]
           x == row - 1
           s == [n \in 1 .. Places |-> Counted1(G, rows, cols, R(n), row)]
           g == [j \in 1 .. Side |-> G[<<row, j>>]]
<1>1. x \in 0 .. rows - 1
  OBVIOUS
<1>2. PICK i \in 0 .. Side - 1, k \in 0 .. NodeSize - 1 : RowHeldAt(rows, cols, x, i, k)
  <2> HIDE DEF x
  <2>1. rows \in Nat /\ cols \in Nat /\ x \in 0 .. rows - 1
    BY <1>1
  <2>2. QED
    BY ONLY <2>1, RowHolders
<1>3. /\ Places \in Nat /\ Side \in Nat
      /\ \A n \in 1 .. Places : R(n) \in Trident!Rank /\ R(n).col + 1 \in 1 .. Side
  <2>1. Places \in Nat /\ \A n \in 1 .. Places : R(n) \in Trident!Rank
    BY RankListIs
  <2>2. Side \in Nat
    BY SidesAssumption
  <2>3. \A r \in Trident!Rank : r.col + 1 \in 1 .. Side
    BY PlaceIs
  <2>4. QED
    BY <2>1, <2>2, <2>3
<1> DEFINE at(j) == Trident!RankNumber(Trident!rankAt(i, j - 1, k)) + 1
<1>4. ASSUME NEW j \in 1 .. Side
      PROVE  /\ at(j) \in 1 .. Places
             /\ R(at(j)).row = i /\ R(at(j)).nodeRank = k /\ R(at(j)).col + 1 = j
             /\ \A n \in 1 .. Places :
                  R(n).row = i /\ R(n).nodeRank = k /\ R(n).col + 1 = j => n = at(j)
  <2> DEFINE q == Trident!rankAt(i, j - 1, k)
  <2>1. q \in Trident!Rank /\ q.row = i /\ q.col = j - 1 /\ q.nodeRank = k
    <3>1. j - 1 \in 0 .. Side - 1
      BY <1>3
    <3>2. QED
      BY <3>1, PlaceOf
  <2>2. Trident!RankNumber(q) + 1 \in 1 .. Places /\ R(Trident!RankNumber(q) + 1) = q
    BY <2>1, RankListIs
  <2>3. at(j) \in 1 .. Places /\ R(at(j)) = q
    BY <2>2
  <2> HIDE DEF q
  <2>4. ASSUME NEW n \in 1 .. Places,
               R(n).row = i, R(n).nodeRank = k, R(n).col + 1 = j
        PROVE  n = at(j)
    <3>1. R(n) \in Trident!Rank /\ Trident!RankNumber(R(n)) = n - 1
      BY RankListIs
    <3>2. R(n).col = q.col
      <4>1. R(n).col \in Int
        BY <3>1, PlaceIs
      <4>2. QED
        BY <2>1, <2>4, <4>1
    <3>3. R(n) = q
      BY <2>1, <2>4, <3>1, <3>2, SamePlace
    <3>4. at(j) = Trident!RankNumber(q) + 1
      BY DEF q
    <3>5. QED
      BY <3>1, <3>3, <3>4
  <2>5. q.col + 1 = j
    BY <2>1
  <2> HIDE DEF at
  <2>6. QED
    BY <2>1, <2>3, <2>4, <2>5
<1> HIDE DEF at
<1> DEFINE M == [p \in (1 .. Places) \X (1 .. Side) |-> IF p[1] = at(p[2]) THEN g[p[2]] ELSE 0]
<1>5. \A n \in 1 .. Places, j \in 1 .. Side : M[<<n, j>>] = IF n = at(j) THEN g[j] ELSE 0
  OBVIOUS
<1>6. \A j \in 1 .. Side : g[j] \in Int
  BY DEF GridInts
<1>7. \A n \in 1 .. Places, j \in 1 .. Side : M[<<n, j>>] \in Int
  <2>1. ASSUME NEW n \in 1 .. Places, NEW j \in 1 .. Side
        PROVE  M[<<n, j>>] \in Int
    <3>1. M[<<n, j>>] = g[j] \/ M[<<n, j>>] = 0
      BY <1>5
    <3>2. g[j] \in Int /\ 0 \in Int
      BY <1>6
    <3> HIDE DEF M, g
    <3>3. QED
      BY ONLY <3>1, <3>2
  <2>2. QED
    BY <2>1
<1>8. \A n \in 1 .. Places :
        s[n] = IF R(n).row = i /\ R(n).nodeRank = k THEN g[R(n).col + 1] ELSE 0
  <2>1. ASSUME NEW n \in 1 .. Places
        PROVE  s[n] = IF R(n).row = i /\ R(n).nodeRank = k THEN g[R(n).col + 1] ELSE 0
    <3>1. R(n) \in Trident!Rank /\ R(n).col + 1 \in 1 .. Side
      BY <1>3
    <3>2. s[n] = IF HoldsRow(rows, cols, R(n), x) THEN G[<<row, R(n).col + 1>>] ELSE 0
      BY DEF Counted1
    <3>3. g[R(n).col + 1] = G[<<row, R(n).col + 1>>]
      BY <3>1
    <3>4. QED
      BY <1>2, <3>1, <3>2, <3>3 DEF RowHeldAt
  <2>2. QED
    BY <2>1
<1> HIDE DEF R, g, s, M
<1>9. ASSUME NEW n \in 1 .. Places
      PROVE  SumUp([j \in 1 .. Side |-> M[<<n, j>>]], Side) = s[n]
  <2> DEFINE t == [j \in 1 .. Side |-> M[<<n, j>>]]
             h == R(n).col + 1
  <2>1. h \in 1 .. Side
    BY <1>3
  <2>2. \A j \in 1 .. Side : t[j] = IF n = at(j) THEN g[j] ELSE 0
    BY <1>5
  <2>3. CASE R(n).row = i /\ R(n).nodeRank = k
    <3>1. n = at(h)
      BY <1>4, <2>1, <2>3
    <3>2. \A j \in 1 .. Side : j # h => t[j] = 0
      <4>1. ASSUME NEW j \in 1 .. Side, j # h PROVE t[j] = 0
        <5>1. n # at(j)
          BY <1>4, <4>1
        <5>2. QED
          BY <2>2, <5>1
      <4>2. QED
        BY <4>1
    <3>3. t[h] = g[h] /\ t[h] \in Int
      BY <1>6, <2>1, <2>2, <3>1
    <3>4. s[n] = g[h]
      BY <1>8, <2>3
    <3> HIDE DEF t, h
    <3>5. SumUp(t, Side) = t[h]
      BY <1>3, <2>1, <3>2, <3>3, SumSingle
    <3>6. QED
      BY <3>3, <3>4, <3>5 DEF t
  <2>4. CASE ~(R(n).row = i /\ R(n).nodeRank = k)
    <3>1. \A j \in 1 .. Side : t[j] = 0
      <4>1. ASSUME NEW j \in 1 .. Side PROVE t[j] = 0
        <5>1. n # at(j)
          BY <1>4, <2>4
        <5>2. QED
          BY <2>2, <5>1
      <4>2. QED
        BY <4>1
    <3>2. s[n] = 0
      BY <1>8, <2>4
    <3> HIDE DEF t, h
    <3>3. SumUp(t, Side) = 0
      BY <1>3, <3>1, SumZero
    <3>4. QED
      BY <3>2, <3>3 DEF t
  <2>5. QED
    BY <2>3, <2>4
<1>10. ASSUME NEW j \in 1 .. Side
       PROVE  SumUp([n \in 1 .. Places |-> M[<<n, j>>]], Places) = g[j]
  <2> DEFINE t == [n \in 1 .. Places |-> M[<<n, j>>]]
  <2>1. \A n \in 1 .. Places : t[n] = IF n = at(j) THEN g[j] ELSE 0
    BY <1>5
  <2>2. at(j) \in 1 .. Places
    BY <1>4
  <2>3. t[at(j)] = g[j] /\ t[at(j)] \in Int /\ \A n \in 1 .. Places : n # at(j) => t[n] = 0
    BY <1>6, <2>1, <2>2
  <2> HIDE DEF t
  <2>4. SumUp(t, Places) = t[at(j)]
    BY <1>3, <2>2, <2>3, SumSingle
  <2>5. QED
    BY <2>3, <2>4 DEF t
<1>11. SumUp([n \in 1 .. Places |-> SumUp([j \in 1 .. Side |-> M[<<n, j>>]], Side)], Places)
         = SumUp([j \in 1 .. Side |-> SumUp([n \in 1 .. Places |-> M[<<n, j>>]], Places)], Side)
  BY <1>3, <1>7, SumExchange
<1> DEFINE byRank == [n \in 1 .. Places |-> SumUp([j \in 1 .. Side |-> M[<<n, j>>]], Side)]
           byColumn == [j \in 1 .. Side |-> SumUp([n \in 1 .. Places |-> M[<<n, j>>]], Places)]
<1>12. SumUp(byRank, Places) = SumUp(s, Places)
  <2>1. \A n \in 1 .. Places : byRank[n] = s[n]
    BY <1>9
  <2> HIDE DEF byRank
  <2>2. QED
    BY <2>1, SumSame
<1>13. SumUp(byColumn, Side) = SumUp(g, Side)
  <2>1. \A j \in 1 .. Side : byColumn[j] = g[j]
    BY <1>10
  <2> HIDE DEF byColumn
  <2>2. QED
    BY <2>1, SumSame
<1>14. SumUp(s, Places) = SumUp(g, Side)
  BY <1>11, <1>12, <1>13
<1>15. QED
  BY <1>14 DEF s, g, R

-----------------------------------------------------------------------------
(* Counts of entries                                                       *)

\* Over the whole grid.
LEMMA GridSum ==
  ASSUME NEW rows \in Nat, NEW cols \in Nat, NEW G, GridInts(G, rows)
  PROVE  SumUp([n \in 1 .. Places |-> RowsTotal(G, rows, cols, Trident!RankList[n])], Places)
           = SumUp([row \in 1 .. rows |-> SumUp([j \in 1 .. Side |-> G[<<row, j>>]], Side)], rows)
<1> DEFINE term(n, row) == Counted1(G, rows, cols, Trident!RankList[n], row)
           M == [p \in (1 .. Places) \X (1 .. rows) |-> term(p[1], p[2])]
           u == [n \in 1 .. Places |-> RowsTotal(G, rows, cols, Trident!RankList[n])]
           v == [row \in 1 .. rows |-> SumUp([j \in 1 .. Side |-> G[<<row, j>>]], Side)]
           x == [n \in 1 .. Places |-> SumUp([row \in 1 .. rows |-> M[<<n, row>>]], rows)]
           y == [row \in 1 .. rows |-> SumUp([n \in 1 .. Places |-> M[<<n, row>>]], Places)]
<1>1. Places \in Nat /\ \A n \in 1 .. Places : Trident!RankList[n] \in Trident!Rank
  BY RankListIs
<1>2. \A n \in 1 .. Places, row \in 1 .. rows : M[<<n, row>>] = term(n, row)
  OBVIOUS
<1>3. ASSUME NEW n \in 1 .. Places
      PROVE  /\ u[n] = SumUp([row \in 1 .. rows |-> term(n, row)], rows)
             /\ \A row \in 1 .. rows : term(n, row) \in Int
  <2>1. Trident!RankList[n] \in Trident!Rank
    BY <1>1
  <2>2. u[n] = RowsTotal(G, rows, cols, Trident!RankList[n])
    OBVIOUS
  <2> HIDE DEF u
  <2>3. QED
    BY <2>1, <2>2, RowsTotalIs
<1>4. ASSUME NEW row \in 1 .. rows
      PROVE  v[row] = SumUp([n \in 1 .. Places |-> term(n, row)], Places)
  <2>1. v[row] = SumUp([j \in 1 .. Side |-> G[<<row, j>>]], Side)
    OBVIOUS
  <2> HIDE DEF v
  <2>2. QED
    BY <2>1, RowOverRanks
<1> HIDE DEF term, M, u, v
<1>5. ASSUME NEW n \in 1 .. Places
      PROVE  x[n] = u[n]
  <2> DEFINE s == [row \in 1 .. rows |-> M[<<n, row>>]]
             t == [row \in 1 .. rows |-> term(n, row)]
  <2>1. \A row \in 1 .. rows : s[row] = t[row]
    BY <1>2
  <2>2. x[n] = SumUp(s, rows) /\ u[n] = SumUp(t, rows)
    BY <1>3
  <2> HIDE DEF s, t, x
  <2>3. SumUp(s, rows) = SumUp(t, rows)
    BY <2>1, SumSame
  <2>4. QED
    BY <2>2, <2>3
<1>6. ASSUME NEW row \in 1 .. rows
      PROVE  y[row] = v[row]
  <2> DEFINE s == [n \in 1 .. Places |-> M[<<n, row>>]]
             t == [n \in 1 .. Places |-> term(n, row)]
  <2>1. \A n \in 1 .. Places : s[n] = t[n]
    BY <1>2
  <2>2. y[row] = SumUp(s, Places) /\ v[row] = SumUp(t, Places)
    BY <1>4
  <2> HIDE DEF s, t, y
  <2>3. SumUp(s, Places) = SumUp(t, Places)
    BY <2>1, SumSame
  <2>4. QED
    BY <2>2, <2>3
<1>7. \A n \in 1 .. Places, row \in 1 .. rows : M[<<n, row>>] \in Int
  BY <1>2, <1>3
<1>8. SumUp(x, Places) = SumUp(y, rows)
  BY <1>1, <1>7, SumExchange
<1> HIDE DEF x, y
<1>9. SumUp(x, Places) = SumUp(u, Places)
  BY <1>5, SumSame
<1>10. SumUp(y, rows) = SumUp(v, rows)
  BY <1>6, SumSame
<1>11. SumUp(u, Places) = SumUp(v, rows)
  BY <1>8, <1>9, <1>10
<1>12. QED
  BY <1>11 DEF u, v

-----------------------------------------------------------------------------
(* Entries of the tiles                                                    *)

Ones(n) == [p \in 1 .. n |-> 1]

\* Ones add up to their number.
LEMMA SumOfOnes ==
  ASSUME NEW n \in Nat
  PROVE  SumUp(Ones(n), n) = n
<1> DEFINE p == [k \in 0 .. n |-> k]
           s == Ones(n)
<1>1. /\ \A k \in 0 .. n : p[k] \in Int
      /\ \A k \in 1 .. n : s[k] = p[k] - p[k - 1]
      /\ p[n] - p[0] = n
  BY DEF Ones
<1> HIDE DEF p, s
<1>2. SumUp(s, n) = p[n] - p[0]
  BY <1>1, Telescope
<1>3. QED
  BY <1>1, <1>2 DEF s

InsideTerms(row, cols) ==
  [p \in 1 .. Len(row) |-> IF row[p].column \in RowsOf(cols) THEN 1 ELSE 0]

\* The entries of a row inside some columns, counted as a sum.
LEMMA InsideIs ==
  ASSUME NEW row \in Seq(Entry), NEW cols
  PROVE  /\ Inside(row, cols) = SumUp(InsideTerms(row, cols), Len(row))
         /\ Ints(InsideTerms(row, cols), Len(row)) /\ Len(row) \in Nat
         /\ Inside(row, cols) \in Int
<1>1. Len(row) \in Nat
  OBVIOUS
<1>2. Inside(row, cols) = SumUp(InsideTerms(row, cols), Len(row))
  BY DEF Inside, InsideTerms
<1>3. Ints(InsideTerms(row, cols), Len(row))
  BY DEF Ints, InsideTerms
<1>4. SumUp(InsideTerms(row, cols), Len(row)) \in Int
  <2>1. Len(row) \in 0 .. Len(row)
    BY <1>1
  <2>2. QED
    BY <1>1, <1>3, <2>1, SumRec
<1>5. QED
  BY <1>1, <1>2, <1>3, <1>4

\* Every entry of a row lies in one column of the grid.
LEMMA InsideSum ==
  ASSUME NEW cols \in Nat, NEW row \in Seq(EntryBelow(cols))
  PROVE  SumUp([j \in 1 .. Side |-> Inside(row, NodeRows(cols, j - 1))], Side) = Len(row)
<1> DEFINE n == Len(row)
           T(j) == InsideTerms(row, NodeRows(cols, j - 1))
           M == [p \in (1 .. Side) \X (1 .. n) |-> T(p[1])[p[2]]]
           u == [j \in 1 .. Side |-> Inside(row, NodeRows(cols, j - 1))]
           x == [j \in 1 .. Side |-> SumUp([p \in 1 .. n |-> M[<<j, p>>]], n)]
           y == [p \in 1 .. n |-> SumUp([j \in 1 .. Side |-> M[<<j, p>>]], Side)]
<1>1. Side \in Nat \ {0} /\ n \in Nat
  BY SidesAssumption
<1>2. row \in Seq(Entry)
  BY BelowIsEntry
<1>3. \A p \in 1 .. n : row[p].column \in 0 .. cols - 1
  <2> DEFINE E == EntryBelow(cols)
  <2>1. row \in Seq(E)
    OBVIOUS
  <2> HIDE DEF E
  <2>2. \A p \in 1 .. n : row[p] \in E
    BY <2>1, RowParts
  <2>3. QED
    BY <2>2 DEF E, EntryBelow
<1>4. \A j \in 1 .. Side, p \in 1 .. n : M[<<j, p>>] = T(j)[p]
  OBVIOUS
<1>5. \A j \in 1 .. Side, p \in 1 .. n :
        T(j)[p] = IF row[p].column \in RowsOf(NodeRows(cols, j - 1)) THEN 1 ELSE 0
  BY DEF InsideTerms
<1>6. \A j \in 1 .. Side : /\ u[j] = SumUp(T(j), n)
                           /\ \A p \in 1 .. n : T(j)[p] \in Int
  <2>1. ASSUME NEW j \in 1 .. Side
        PROVE  u[j] = SumUp(T(j), n) /\ \A p \in 1 .. n : T(j)[p] \in Int
    <3>1. Inside(row, NodeRows(cols, j - 1)) = SumUp(T(j), n) /\ Ints(T(j), n)
      BY <1>2, InsideIs
    <3>2. u[j] = Inside(row, NodeRows(cols, j - 1))
      OBVIOUS
    <3> HIDE DEF T, u, n
    <3>3. QED
      BY <3>1, <3>2 DEF Ints
  <2>2. QED
    BY <2>1
<1> HIDE DEF n, T, M, u
<1>7. ASSUME NEW j \in 1 .. Side
      PROVE  x[j] = u[j]
  <2> DEFINE s == [p \in 1 .. n |-> M[<<j, p>>]]
             t == T(j)
  <2>1. \A p \in 1 .. n : s[p] = t[p]
    BY <1>4
  <2>2. x[j] = SumUp(s, n) /\ u[j] = SumUp(t, n)
    BY <1>6
  <2> HIDE DEF s, t, x
  <2>3. SumUp(s, n) = SumUp(t, n)
    BY <2>1, SumSame
  <2>4. QED
    BY <2>2, <2>3
<1>8. ASSUME NEW p \in 1 .. n
      PROVE  y[p] = 1
  <2> DEFINE s == [j \in 1 .. Side |-> M[<<j, p>>]]
             c == row[p].column
  <2>1. \A j \in 1 .. Side : s[j] = IF c \in RowsOf(NodeRows(cols, j - 1)) THEN 1 ELSE 0
    BY <1>4, <1>5
  <2>2. y[p] = SumUp(s, Side)
    OBVIOUS
  <2>3. c \in 0 .. cols - 1
    BY <1>3
  <2> HIDE DEF s, c, y
  <2>4. PICK k \in 0 .. Side - 1 :
          /\ c \in RowsOf(NodeRows(cols, k))
          /\ \A j \in 0 .. Side - 1 : c \in RowsOf(NodeRows(cols, j)) => j = k
    BY <1>1, <2>3, InOneBlock DEF NodeRows
  <2> DEFINE h == k + 1
  <2>5. h \in 1 .. Side /\ h - 1 = k
    BY <1>1
  <2> HIDE DEF h
  <2>6. s[h] = 1
    BY <2>1, <2>4, <2>5
  <2>7. \A j \in 1 .. Side : j # h => s[j] = 0
    <3>1. ASSUME NEW j \in 1 .. Side, j # h PROVE s[j] = 0
      <4> DEFINE i == j - 1
      <4>1. i \in 0 .. Side - 1 /\ i # k
        BY <1>1, <2>5, <3>1
      <4>2. s[j] = IF c \in RowsOf(NodeRows(cols, i)) THEN 1 ELSE 0
        BY <2>1
      <4> HIDE DEF i
      <4>3. QED
        BY <2>4, <4>1, <4>2
    <3>2. QED
      BY <3>1
  <2>8. SumUp(s, Side) = s[h]
    BY <1>1, <2>5, <2>6, <2>7, SumSingle
  <2>9. QED
    BY <2>2, <2>6, <2>8
<1>9. \A j \in 1 .. Side, p \in 1 .. n : M[<<j, p>>] \in Int
  BY <1>4, <1>6
<1>10. SumUp(x, Side) = SumUp(y, n)
  <2>1. Side \in Nat /\ n \in Nat
    BY <1>1
  <2>2. QED
    BY <1>9, <2>1, SumExchange
<1> HIDE DEF x, y
<1>11. SumUp(x, Side) = SumUp(u, Side)
  BY <1>7, SumSame
<1>12. SumUp(y, n) = n
  <2> DEFINE o == Ones(n)
  <2>1. \A p \in 1 .. n : o[p] = 1
    BY DEF Ones
  <2>2. \A p \in 1 .. n : y[p] = o[p]
    BY <1>8, <2>1
  <2>3. SumUp(o, n) = n
    BY <1>1, SumOfOnes
  <2> HIDE DEF o
  <2>4. SumUp(y, n) = SumUp(o, n)
    BY <2>2, SumSame
  <2>5. QED
    BY <2>3, <2>4
<1>13. SumUp(u, Side) = n
  BY <1>10, <1>11, <1>12
<1>14. QED
  BY <1>13 DEF u, n

\* The entries of a matrix, row by row.
LEMMA NnzByRows ==
  ASSUME NEW m, Readable(m)
  PROVE  Nnz(m) = SumUp([k \in 1 .. m.rows |-> Len(Row(m, k - 1))], m.rows)
<1> DEFINE p == [k \in 0 .. m.rows |-> m.rowPtr[k + 1]]
           s == [k \in 1 .. m.rows |-> Len(Row(m, k - 1))]
           n == m.rows
<1>1. m \in AnyCsr /\ ValidOffsets(m) /\ n \in Nat
  BY ReadableIs
<1>2. IsPointer(m.rowPtr, n, Nnz(m)) /\ Nnz(m) \in Nat
  BY <1>1, PointerOf
<1>3. \A k \in 0 .. n : p[k] = m.rowPtr[k + 1] /\ p[k] \in Int
  <2>1. ASSUME NEW k \in 0 .. n PROVE p[k] = m.rowPtr[k + 1] /\ p[k] \in Int
    <3>1. k + 1 \in 1 .. n + 1
      BY <1>1
    <3>2. m.rowPtr[k + 1] \in 0 .. Nnz(m)
      BY <1>1, <1>2, <3>1, PointerMonotone
    <3>3. QED
      BY <1>2, <3>2
  <2>2. QED
    BY <2>1
<1>4. ASSUME NEW k \in 1 .. n PROVE s[k] = p[k] - p[k - 1]
  <2> DEFINE h == k - 1
  <2>1. h \in 0 .. n - 1 /\ h \in 0 .. n /\ k \in 0 .. n /\ h + 2 = k + 1 /\ h + 1 = k
    BY <1>1
  <2>2. s[k] = Len(Row(m, h))
    OBVIOUS
  <2> HIDE DEF h, s
  <2>3. Len(Row(m, h)) = RowLength(m, h)
    BY <2>1, ReadableIs
  <2>4. p[k] = m.rowPtr[k + 1] /\ p[h] = m.rowPtr[h + 1]
    BY <1>3, <2>1
  <2>5. RowLength(m, h) = m.rowPtr[k + 1] - m.rowPtr[h + 1]
    BY <2>1 DEF RowLength
  <2>6. s[k] = p[k] - p[h]
    BY <2>2, <2>3, <2>4, <2>5
  <2>7. QED
    BY <2>6 DEF h
<1>5. p[n] = Nnz(m) /\ p[0] = 0
  BY <1>1, <1>2, <1>3 DEF IsPointer
<1> HIDE DEF p, s, n
<1>6. SumUp(s, n) = p[n] - p[0]
  BY <1>1, <1>3, <1>4, Telescope
<1>7. QED
  BY <1>2, <1>5, <1>6 DEF s, n

\* The tiles hold every entry of the matrix once.
LEMMA TilesHoldAll ==
  ASSUME NEW m, Readable(m)
  PROVE  SumUp([n \in 1 .. Places |-> Nnz(Tile(m, Trident!RankList[n]))], Places) = Nnz(m)
<1> DEFINE rows == m.rows
           cols == m.cols
           G == [p \in (1 .. rows) \X (1 .. Side) |-> Inside(Row(m, p[1] - 1), NodeRows(cols, p[2] - 1))]
           u == [n \in 1 .. Places |-> Nnz(Tile(m, Trident!RankList[n]))]
           x == [n \in 1 .. Places |-> RowsTotal(G, rows, cols, Trident!RankList[n])]
           y == [row \in 1 .. rows |-> SumUp([j \in 1 .. Side |-> G[<<row, j>>]], Side)]
           z == [k \in 1 .. rows |-> Len(Row(m, k - 1))]
<1>1. /\ rows \in Nat /\ cols \in Nat
      /\ \A k \in 0 .. rows - 1 : Row(m, k) \in Seq(EntryBelow(cols)) /\ Row(m, k) \in Seq(Entry)
  BY ReadableIs
<1>2. \A row \in 1 .. rows, j \in 1 .. Side :
        G[<<row, j>>] = Inside(Row(m, row - 1), NodeRows(cols, j - 1))
  OBVIOUS
<1> HIDE DEF rows, cols, G
<1>3. GridInts(G, rows)
  <2>1. ASSUME NEW row \in 1 .. rows, NEW j \in 1 .. Side PROVE G[<<row, j>>] \in Int
    <3>1. row - 1 \in 0 .. rows - 1
      BY <1>1
    <3>2. Row(m, row - 1) \in Seq(Entry)
      BY <1>1, <3>1
    <3>3. Inside(Row(m, row - 1), NodeRows(cols, j - 1)) \in Int
      BY <3>2, InsideIs
    <3>4. QED
      BY <1>2, <3>3
  <2>2. QED
    BY <2>1 DEF GridInts
<1>4. ASSUME NEW r \in Trident!Rank
      PROVE  Nnz(Tile(m, r)) = RowsTotal(G, rows, cols, r)
  <2> DEFINE t == Tile(m, r)
             block == Trident!matrixBlock(rows, cols, r)
             first == block.rows.firstRow
             n == block.rows.rows
             s == [k \in 1 .. n |-> Len(Row(t, k - 1))]
             g == [k \in 1 .. n |-> G[<<first + k, r.col + 1>>]]
  <2>1. /\ IsPart(m, block) /\ Readable(t) /\ t.rows = n
        /\ \A k \in 0 .. n - 1 :
             /\ first + k \in 0 .. m.rows - 1
             /\ Row(t, k) = SliceRow(Row(m, first + k), block.cols)
    BY TileIs DEF rows, cols
  <2>2. block.cols = NodeRows(cols, r.col)
    BY <1>1, MatrixBlockIs
  <2>3. first \in Nat /\ n \in Nat /\ IsBlock(block.cols)
    BY <2>1 DEF IsPart, IsBlock
  <2>4. r.col + 1 \in 1 .. Side /\ r.col + 1 - 1 = r.col
    BY PlaceIs
  <2>5. Nnz(t) = SumUp(s, n)
    BY <2>1, NnzByRows
  <2> HIDE DEF t
  <2>6. \A k \in 1 .. n : s[k] = g[k]
    <3>1. ASSUME NEW k \in 1 .. n PROVE s[k] = g[k]
      <4> DEFINE h == k - 1
                 row == Row(m, first + h)
                 place == first + k
      <4>1. h \in 0 .. n - 1
        BY <2>3
      <4>2. Row(t, h) = SliceRow(row, block.cols) /\ first + h \in 0 .. rows - 1
        BY <2>1, <4>1 DEF rows
      <4>3. row \in Seq(Entry)
        BY <1>1, <4>2
      <4>4. place \in 1 .. rows /\ place - 1 = first + h
        <5>1. k \in 1 .. n
          OBVIOUS
        <5> HIDE DEF first, n
        <5>2. QED
          BY <1>1, <2>3, <4>2, <5>1
      <4>5. s[k] = Len(Row(t, h)) /\ g[k] = G[<<place, r.col + 1>>]
        OBVIOUS
      <4>6. Row(m, place - 1) = row
        BY <4>4
      <4> HIDE DEF h, row, place, s, g, block, first, n
      <4>7. Len(Row(t, h)) = Inside(row, block.cols)
        BY <2>3, <4>2, <4>3, SliceRowIs
      <4>8. G[<<place, r.col + 1>>] = Inside(row, block.cols)
        <5> DEFINE j == r.col + 1
        <5>1. j \in 1 .. Side /\ j - 1 = r.col
          BY <2>4, PlaceIs
        <5> HIDE DEF j
        <5>2. G[<<place, j>>] = Inside(Row(m, place - 1), NodeRows(cols, j - 1))
          BY <1>2, <4>4, <5>1
        <5>3. QED
          BY <2>2, <4>6, <5>1, <5>2 DEF j
      <4>9. QED
        BY <4>5, <4>7, <4>8
    <3>2. QED
      BY <3>1
  <2>7. RowsTotal(G, rows, cols, r) = SumUp(g, n)
    BY DEF RowsTotal
  <2> HIDE DEF s, g, block, first, n
  <2>8. SumUp(s, n) = SumUp(g, n)
    BY <2>6, SumSame
  <2>9. QED
    BY <2>5, <2>7, <2>8 DEF t
<1>5. ASSUME NEW row \in 1 .. rows PROVE y[row] = z[row]
  <2> DEFINE h == row - 1
             s == [j \in 1 .. Side |-> G[<<row, j>>]]
             t == [j \in 1 .. Side |-> Inside(Row(m, h), NodeRows(cols, j - 1))]
  <2>1. h \in 0 .. rows - 1
    BY <1>1
  <2>2. Row(m, h) \in Seq(EntryBelow(cols))
    BY <1>1, <2>1
  <2>3. \A j \in 1 .. Side : s[j] = t[j]
    BY <1>2
  <2>4. y[row] = SumUp(s, Side) /\ z[row] = Len(Row(m, h))
    OBVIOUS
  <2>5. SumUp(t, Side) = Len(Row(m, h))
    <3> HIDE DEF h
    <3>1. QED
      BY <1>1, <2>2, InsideSum
  <2> HIDE DEF s, t, y, z, h
  <2>6. SumUp(s, Side) = SumUp(t, Side)
    BY <2>3, SumSame
  <2>7. QED
    BY <2>4, <2>5, <2>6
<1>6. \A n \in 1 .. Places : u[n] = x[n]
  <2>1. ASSUME NEW n \in 1 .. Places PROVE u[n] = x[n]
    <3>1. Trident!RankList[n] \in Trident!Rank
      BY RankListIs
    <3>2. u[n] = Nnz(Tile(m, Trident!RankList[n])) /\ x[n] = RowsTotal(G, rows, cols, Trident!RankList[n])
      OBVIOUS
    <3> HIDE DEF u, x
    <3>3. QED
      BY <1>4, <3>1, <3>2
  <2>2. QED
    BY <2>1
<1>7. SumUp(x, Places) = SumUp(y, rows)
  BY <1>1, <1>3, GridSum
<1>8. SumUp(z, rows) = Nnz(m)
  BY NnzByRows DEF rows
<1> HIDE DEF u, x, y, z
<1>9. SumUp(u, Places) = SumUp(x, Places)
  BY <1>6, SumSame
<1>10. SumUp(y, rows) = SumUp(z, rows)
  BY <1>5, SumSame
<1>11. SumUp(u, Places) = Nnz(m)
  BY <1>7, <1>8, <1>9, <1>10
<1>12. QED
  BY <1>11 DEF u

-----------------------------------------------------------------------------
(* Products counted                                                        *)

\* How often the condition of a count holds.
LEMMA CountIs ==
  ASSUME NEW n \in Nat, NEW t, \A p \in 1 .. n : t[p] \in {0, 1}
  PROVE  /\ Cardinality({p \in 1 .. n : t[p] = 1}) = SumUp(t, n)
         /\ SumUp(t, n) \in Nat
<1> DEFINE C == [k \in 0 .. n |-> Cardinality({p \in 1 .. k : t[p] = 1})]
           S == [k \in 0 .. n |-> SumUp(t, k)]
           H(k) == {p \in 1 .. k : t[p] = 1}
<1>1. Ints(t, n)
  BY DEF Ints
<1>2. /\ SumUp(t, 0) = 0
      /\ \A k \in 1 .. n : SumUp(t, k) = SumUp(t, k - 1) + t[k]
      /\ \A k \in 0 .. n : SumUp(t, k) \in Int
  BY <1>1, SumRec
<1>3. \A k \in 0 .. n : IsFiniteSet(H(k)) /\ Cardinality(H(k)) \in Nat
  <2>1. ASSUME NEW k \in 0 .. n PROVE IsFiniteSet(H(k))
    <3>1. IsFiniteSet(1 .. k)
      BY FS_Interval
    <3>2. H(k) \subseteq 1 .. k
      OBVIOUS
    <3> HIDE DEF H
    <3>3. QED
      BY <3>1, <3>2, FS_Subset
  <2> HIDE DEF H
  <2>2. QED
    BY <2>1, FS_CardinalityType
<1>4. H(0) = {}
  OBVIOUS
<1>5. ASSUME NEW k \in 1 .. n
      PROVE  Cardinality(H(k)) = Cardinality(H(k - 1)) + t[k]
  <2> DEFINE h == k - 1
  <2>1. h \in 0 .. n /\ k = h + 1 /\ h \in Nat
    OBVIOUS
  <2> HIDE DEF h
  <2>2. CASE t[k] = 1
    <3>1. H(k) = H(h) \cup {k} /\ k \notin H(h)
      BY <2>1, <2>2
    <3> HIDE DEF H
    <3>2. Cardinality(H(k)) = Cardinality(H(h)) + 1
      BY <1>3, <2>1, <3>1, FS_AddElement
    <3>3. QED
      BY <2>2, <3>2 DEF h
  <2>3. CASE t[k] # 1
    <3>1. H(k) = H(h)
      BY <2>1, <2>3
    <3>2. t[k] = 0
      BY <2>3
    <3>3. Cardinality(H(h)) \in Nat
      BY <1>3, <2>1
    <3> HIDE DEF H
    <3>4. QED
      BY <3>1, <3>2, <3>3 DEF h
  <2>4. QED
    BY <2>2, <2>3
<1>6. \A k \in 0 .. n : C[k] = Cardinality(H(k)) /\ S[k] = SumUp(t, k)
  OBVIOUS
<1> HIDE DEF C, S, H
<1>7. C[0] = S[0]
  <2>1. 0 \in 0 .. n
    OBVIOUS
  <2>2. Cardinality(H(0)) = 0
    BY <1>4, FS_EmptySet
  <2>3. QED
    BY <1>2, <1>6, <2>1, <2>2
<1>8. \A k \in 1 .. n : C[k - 1] = S[k - 1] => C[k] = S[k]
  <2>1. ASSUME NEW k \in 1 .. n, C[k - 1] = S[k - 1] PROVE C[k] = S[k]
    <3>1. k \in 0 .. n /\ k - 1 \in 0 .. n
      OBVIOUS
    <3>2. C[k] = C[k - 1] + t[k]
      BY <1>5, <1>6, <3>1
    <3>3. S[k] = S[k - 1] + t[k]
      BY <1>2, <1>6, <3>1
    <3>4. QED
      BY <2>1, <3>2, <3>3
  <2>2. QED
    BY <2>1
<1>9. \A k \in 0 .. n : C[k] = S[k]
  BY <1>7, <1>8, Agree
<1>10. Cardinality(H(n)) = SumUp(t, n) /\ Cardinality(H(n)) \in Nat
  BY <1>3, <1>6, <1>9
<1>11. QED
  BY <1>10 DEF H

\* rowDegree counts them.
LEMMA DegreeIs ==
  ASSUME NEW row \in Seq(Entry), NEW cols
  PROVE  Trident!rowDegree(row, cols) = Inside(row, cols)
<1> DEFINE n == Len(row)
           t == InsideTerms(row, cols)
<1>1. n \in Nat /\ DOMAIN row = 1 .. n
  BY RowParts
<1>2. \A p \in 1 .. n : /\ t[p] \in {0, 1}
                        /\ t[p] = 1 <=> row[p].column \in RowsOf(cols)
  BY DEF InsideTerms
<1> HIDE DEF t
<1>3. {p \in DOMAIN row : row[p].column \in RowsOf(cols)} = {p \in 1 .. n : t[p] = 1}
  BY <1>1, <1>2
<1>4. Trident!rowDegree(row, cols)
        = Cardinality({p \in DOMAIN row : row[p].column \in RowsOf(cols)})
  BY TridentBlocks DEF Trident!rowDegree, Trident!Cardinality, Cardinality
<1>5. Cardinality({p \in 1 .. n : t[p] = 1}) = SumUp(t, n)
  <2> HIDE DEF n
  <2>1. QED
    BY <1>1, <1>2, CountIs
<1>6. Inside(row, cols) = SumUp(t, n)
  BY InsideIs DEF t
<1>7. QED
  BY <1>3, <1>4, <1>5, <1>6

-----------------------------------------------------------------------------
(* The products of the ranks                                               *)

\* The products a row of x takes in a column of the grid.
WorkInside(x, y, row, cols) ==
  SumUp([p \in 1 .. Len(Row(x, row)) |-> Inside(Row(y, Row(x, row)[p].column), cols)],
        Len(Row(x, row)))

\* The work of a row inside some columns, as the program counts it.
LEMMA WorkInsideIs ==
  ASSUME NEW x, NEW y, Multipliable(x, y), NEW row \in 0 .. x.rows - 1, NEW cols
  PROVE  /\ WorkInside(x, y, row, cols) \in Int
         /\ SumOf([p \in DOMAIN Row(x, row) |->
                    Trident!rowDegree(Row(y, Row(x, row)[p].column), cols)])
              = WorkInside(x, y, row, cols)
<1> DEFINE line == Row(x, row)
           n == Len(line)
           s == [p \in 1 .. n |-> Trident!rowDegree(Row(y, line[p].column), cols)]
           t == [p \in 1 .. n |-> Inside(Row(y, line[p].column), cols)]
<1>1. /\ line \in Seq(EntryBelow(y.rows))
      /\ \A k \in 0 .. y.rows - 1 : Row(y, k) \in Seq(Entry)
  BY MultipliableIs
<1>2. DOMAIN line = 1 .. n /\ n \in Nat /\ \A p \in 1 .. n : line[p].column \in 0 .. y.rows - 1
  <2> DEFINE E == EntryBelow(y.rows)
  <2>1. line \in Seq(E)
    BY <1>1
  <2> HIDE DEF E, line
  <2>2. DOMAIN line = 1 .. n /\ n \in Nat /\ \A p \in 1 .. n : line[p] \in E
    BY <2>1, RowParts
  <2>3. QED
    BY <2>2 DEF E, EntryBelow
<1>3. WorkInside(x, y, row, cols) = SumUp(t, n)
  BY DEF WorkInside
<1>4. SumOf([p \in DOMAIN line |-> Trident!rowDegree(Row(y, line[p].column), cols)])
        = SumUp(s, n)
  BY <1>2 DEF SumUp
<1> HIDE DEF line, n
<1>5. ASSUME NEW p \in 1 .. n
      PROVE  s[p] = t[p] /\ t[p] \in Int
  <2> DEFINE row1 == Row(y, line[p].column)
  <2>1. row1 \in Seq(Entry)
    BY <1>1, <1>2
  <2>2. s[p] = Trident!rowDegree(row1, cols) /\ t[p] = Inside(row1, cols)
    OBVIOUS
  <2> HIDE DEF row1, s, t
  <2>3. QED
    BY <2>1, <2>2, DegreeIs, InsideIs
<1> HIDE DEF s, t
<1>6. SumUp(s, n) = SumUp(t, n)
  BY <1>5, SumSame
<1>7. SumUp(t, n) \in Int
  <2>1. Ints(t, n) /\ n \in 0 .. n
    BY <1>2, <1>5 DEF Ints
  <2>2. QED
    BY <1>2, <2>1, SumRec
<1>8. QED
  BY <1>3, <1>4, <1>6, <1>7 DEF line

\* Over the columns of the grid it takes all products of the row.
LEMMA WorkAcross ==
  ASSUME NEW x, NEW y, Multipliable(x, y), NEW row \in 0 .. x.rows - 1
  PROVE  SumUp([j \in 1 .. Side |-> WorkInside(x, y, row, NodeRows(y.cols, j - 1))], Side)
           = WorkUpTo(x, y, row + 1) - WorkUpTo(x, y, row)
<1> DEFINE line == Row(x, row)
           n == Len(line)
           cols == y.cols
           other(p) == Row(y, line[p].column)
           M == [q \in (1 .. Side) \X (1 .. n) |->
                  Inside(other(q[2]), NodeRows(cols, q[1] - 1))]
           u == [j \in 1 .. Side |-> WorkInside(x, y, row, NodeRows(cols, j - 1))]
           v == [j \in 1 .. Side |-> SumUp([p \in 1 .. n |-> M[<<j, p>>]], n)]
           w == [p \in 1 .. n |-> SumUp([j \in 1 .. Side |-> M[<<j, p>>]], Side)]
           z == [p \in 1 .. n |-> RowLength(y, line[p].column)]
<1>1. /\ line \in Seq(EntryBelow(y.rows)) /\ Side \in Nat /\ cols \in Nat
      /\ y \in AnyCsr /\ ValidOffsets(y)
      /\ \A k \in 0 .. y.rows - 1 : Row(y, k) \in Seq(EntryBelow(cols)) /\ Row(y, k) \in Seq(Entry)
  BY MultipliableIs, SidesAssumption
<1>2. DOMAIN line = 1 .. n /\ n \in Nat /\ \A p \in 1 .. n : line[p].column \in 0 .. y.rows - 1
  <2> DEFINE E == EntryBelow(y.rows)
  <2>1. line \in Seq(E)
    BY <1>1
  <2> HIDE DEF E, line
  <2>2. DOMAIN line = 1 .. n /\ n \in Nat /\ \A p \in 1 .. n : line[p] \in E
    BY <2>1, RowParts
  <2>3. QED
    BY <2>2 DEF E, EntryBelow
<1>3. \A j \in 1 .. Side, p \in 1 .. n : M[<<j, p>>] = Inside(other(p), NodeRows(cols, j - 1))
  OBVIOUS
<1>4. \A j \in 1 .. Side :
        u[j] = SumUp([p \in 1 .. n |-> Inside(other(p), NodeRows(cols, j - 1))], n)
  BY DEF WorkInside
<1>5. WorkUpTo(x, y, row + 1) - WorkUpTo(x, y, row) = SumUp(z, n)
  <2>1. SumOf([p \in DOMAIN line |-> RowLength(y, line[p].column)])
          = WorkUpTo(x, y, row + 1) - WorkUpTo(x, y, row)
    BY WorkOfRow
  <2>2. SumOf([p \in DOMAIN line |-> RowLength(y, line[p].column)]) = SumUp(z, n)
    BY <1>2 DEF SumUp
  <2>3. QED
    BY <2>1, <2>2
<1>6. \A p \in 1 .. n : /\ other(p) \in Seq(EntryBelow(cols))
                        /\ other(p) \in Seq(Entry)
                        /\ z[p] = Len(other(p))
  <2>1. ASSUME NEW p \in 1 .. n
        PROVE  /\ other(p) \in Seq(EntryBelow(cols)) /\ other(p) \in Seq(Entry)
               /\ z[p] = Len(other(p))
    <3> DEFINE c == line[p].column
    <3>1. c \in 0 .. y.rows - 1
      BY <1>2
    <3>2. z[p] = RowLength(y, c) /\ other(p) = Row(y, c)
      OBVIOUS
    <3> HIDE DEF c, z, other
    <3>3. Len(Row(y, c)) = RowLength(y, c)
      BY <1>1, <3>1, RowIs
    <3>4. QED
      BY <1>1, <3>1, <3>2, <3>3
  <2>2. QED
    BY <2>1
<1> HIDE DEF line, n, cols, M, u, z, other
<1>7. ASSUME NEW j \in 1 .. Side PROVE v[j] = u[j]
  <2> DEFINE s == [p \in 1 .. n |-> M[<<j, p>>]]
             t == [p \in 1 .. n |-> Inside(other(p), NodeRows(cols, j - 1))]
  <2>1. \A p \in 1 .. n : s[p] = t[p]
    BY <1>3
  <2>2. v[j] = SumUp(s, n) /\ u[j] = SumUp(t, n)
    BY <1>4
  <2> HIDE DEF s, t, v
  <2>3. SumUp(s, n) = SumUp(t, n)
    BY <2>1, SumSame
  <2>4. QED
    BY <2>2, <2>3
<1>8. ASSUME NEW p \in 1 .. n PROVE w[p] = z[p]
  <2> DEFINE s == [j \in 1 .. Side |-> M[<<j, p>>]]
             t == [j \in 1 .. Side |-> Inside(other(p), NodeRows(cols, j - 1))]
             o == other(p)
  <2>1. \A j \in 1 .. Side : s[j] = t[j]
    BY <1>3
  <2>2. w[p] = SumUp(s, Side)
    OBVIOUS
  <2>3. o \in Seq(EntryBelow(cols)) /\ z[p] = Len(o)
    BY <1>6
  <2>4. SumUp(t, Side) = Len(o)
    <3>1. SumUp([j \in 1 .. Side |-> Inside(o, NodeRows(cols, j - 1))], Side) = Len(o)
      <4> HIDE DEF o
      <4>1. QED
        BY <1>1, <2>3, InsideSum
    <3>2. QED
      BY <3>1
  <2> HIDE DEF s, t, w, o
  <2>5. SumUp(s, Side) = SumUp(t, Side)
    BY <2>1, SumSame
  <2>6. QED
    BY <2>2, <2>3, <2>4, <2>5
<1>9. \A j \in 1 .. Side, p \in 1 .. n : M[<<j, p>>] \in Int
  BY <1>3, <1>6, InsideIs
<1>10. SumUp(v, Side) = SumUp(w, n)
  BY <1>1, <1>2, <1>9, SumExchange
<1> HIDE DEF v, w
<1>11. SumUp(v, Side) = SumUp(u, Side)
  BY <1>7, SumSame
<1>12. SumUp(w, n) = SumUp(z, n)
  BY <1>8, SumSame
<1>13. SumUp(u, Side) = WorkUpTo(x, y, row + 1) - WorkUpTo(x, y, row)
  BY <1>5, <1>10, <1>11, <1>12
<1>14. QED
  BY <1>13 DEF u, cols

\* The counts of the ranks add up to that of the serial program.
LEMMA WorkOverRanks ==
  ASSUME Multipliable(a, b)
  PROVE  SumUp([n \in 1 .. Places |-> Trident!scalarProductsOf(Trident!RankList[n])], Places)
           = scalarMultiplicationCount(a, b)
<1> DEFINE rows == a.rows
           cols == b.cols
           G == [p \in (1 .. rows) \X (1 .. Side) |->
                  WorkInside(a, b, p[1] - 1, NodeRows(cols, p[2] - 1))]
           u == [n \in 1 .. Places |-> Trident!scalarProductsOf(Trident!RankList[n])]
           x == [n \in 1 .. Places |-> RowsTotal(G, rows, cols, Trident!RankList[n])]
           y == [row \in 1 .. rows |-> SumUp([j \in 1 .. Side |-> G[<<row, j>>]], Side)]
           q == [k \in 0 .. rows |-> WorkUpTo(a, b, k)]
           z == [row \in 1 .. rows |-> q[row] - q[row - 1]]
<1>1. rows \in Nat /\ cols \in Nat
  BY MultipliableIs
<1>2. \A row \in 1 .. rows, j \in 1 .. Side :
        G[<<row, j>>] = WorkInside(a, b, row - 1, NodeRows(cols, j - 1))
  OBVIOUS
<1>3. /\ \A k \in 0 .. rows : q[k] \in Int
      /\ q[0] = 0 /\ q[rows] = scalarMultiplicationCount(a, b)
      /\ \A k \in 0 .. rows : q[k] = WorkUpTo(a, b, k)
  <2>1. 0 \in 0 .. rows /\ rows \in 0 .. rows
    BY <1>1
  <2>2. QED
    BY <2>1, WorkIs
<1>4. \A k \in 0 .. rows - 1 : \A block :
        /\ WorkInside(a, b, k, block) \in Int
        /\ SumOf([p \in DOMAIN Row(a, k) |->
                   Trident!rowDegree(Row(b, Row(a, k)[p].column), block)])
             = WorkInside(a, b, k, block)
  BY WorkInsideIs
<1> HIDE DEF rows, cols, G, q
<1>5. GridInts(G, rows)
  <2>1. ASSUME NEW row \in 1 .. rows, NEW j \in 1 .. Side PROVE G[<<row, j>>] \in Int
    <3>1. row - 1 \in 0 .. rows - 1
      BY <1>1
    <3>2. WorkInside(a, b, row - 1, NodeRows(cols, j - 1)) \in Int
      BY <1>4, <3>1
    <3>3. QED
      BY <1>2, <3>2
  <2>2. QED
    BY <2>1 DEF GridInts
<1>6. ASSUME NEW r \in Trident!Rank
      PROVE  Trident!scalarProductsOf(r) = RowsTotal(G, rows, cols, r)
  <2> DEFINE block == Trident!matrixBlock(rows, cols, r)
             first == block.rows.firstRow
             n == block.rows.rows
             j == r.col + 1
             s == [k \in 1 .. n |->
                    SumOf([p \in DOMAIN Row(a, first + k - 1) |->
                      Trident!rowDegree(Row(b, Row(a, first + k - 1)[p].column), block.cols)])]
             g == [k \in 1 .. n |-> G[<<first + k, j>>]]
  <2>1. /\ IsBlock(block.rows) /\ first + n <= rows /\ block.cols = NodeRows(cols, r.col)
    BY <1>1, MatrixBlockIs
  <2>2. first \in Nat /\ n \in Nat
    BY <2>1 DEF IsBlock
  <2>3. j \in 1 .. Side /\ j - 1 = r.col
    BY PlaceIs
  <2>4. Trident!scalarProductsOf(r) = SumUp(s, n)
    <3>1. Trident!scalarProductsOf(r) = SumOf(s)
      BY TridentSums, TridentRows DEF Trident!scalarProductsOf, rows, cols
    <3>2. SumUp(s, n) = SumOf(s)
      BY DEF SumUp
    <3>3. QED
      BY <3>1, <3>2
  <2>5. \A k \in 1 .. n : s[k] = g[k]
    <3>1. ASSUME NEW k \in 1 .. n PROVE s[k] = g[k]
      <4> DEFINE h == first + k - 1
                 place == first + k
                 degrees == SumOf([p \in DOMAIN Row(a, h) |->
                              Trident!rowDegree(Row(b, Row(a, h)[p].column), block.cols)])
      <4>1. s[k] = degrees /\ g[k] = G[<<place, j>>]
        OBVIOUS
      <4>2. k \in 1 .. n
        OBVIOUS
      <4>3. h \in 0 .. rows - 1 /\ place \in 1 .. rows /\ place - 1 = h
        <5> HIDE DEF first, n
        <5>1. first + n <= rows
          BY <2>1
        <5>2. QED
          BY <1>1, <2>2, <4>2, <5>1
      <4> HIDE DEF h, place, s, g, first, n, block, j
      <4>4. degrees = WorkInside(a, b, h, block.cols)
        BY <1>4, <4>3
      <4>5. G[<<place, j>>] = WorkInside(a, b, place - 1, NodeRows(cols, j - 1))
        BY <1>2, <2>3, <4>3
      <4>6. WorkInside(a, b, place - 1, NodeRows(cols, j - 1)) = WorkInside(a, b, h, block.cols)
        BY <2>1, <2>3, <4>3
      <4> HIDE DEF degrees
      <4>7. QED
        BY <4>1, <4>4, <4>5, <4>6
    <3>2. QED
      BY <3>1
  <2>6. RowsTotal(G, rows, cols, r) = SumUp(g, n)
    BY DEF RowsTotal
  <2> HIDE DEF s, g, block, first, n
  <2>7. SumUp(s, n) = SumUp(g, n)
    BY <2>5, SumSame
  <2>8. QED
    BY <2>4, <2>6, <2>7
<1>7. ASSUME NEW row \in 1 .. rows PROVE y[row] = z[row]
  <2> DEFINE h == row - 1
             s == [j \in 1 .. Side |-> G[<<row, j>>]]
             t == [j \in 1 .. Side |-> WorkInside(a, b, h, NodeRows(cols, j - 1))]
  <2>1. h \in 0 .. rows - 1 /\ row = h + 1 /\ h \in 0 .. rows /\ row \in 0 .. rows
    BY <1>1
  <2>2. \A j \in 1 .. Side : s[j] = t[j]
    BY <1>2
  <2>3. y[row] = SumUp(s, Side) /\ z[row] = q[row] - q[h]
    OBVIOUS
  <2>4. SumUp(t, Side) = WorkUpTo(a, b, h + 1) - WorkUpTo(a, b, h)
    <3> HIDE DEF h
    <3>1. h \in 0 .. a.rows - 1
      BY <2>1 DEF rows
    <3>2. QED
      BY <3>1, WorkAcross DEF cols
  <2> HIDE DEF s, t, y, z, h
  <2>5. SumUp(s, Side) = SumUp(t, Side)
    BY <2>2, SumSame
  <2>6. q[row] = WorkUpTo(a, b, h + 1) /\ q[h] = WorkUpTo(a, b, h)
    BY <1>3, <2>1
  <2>7. QED
    BY <2>3, <2>4, <2>5, <2>6
<1>8. \A n \in 1 .. Places : u[n] = x[n]
  <2>1. ASSUME NEW n \in 1 .. Places PROVE u[n] = x[n]
    <3>1. Trident!RankList[n] \in Trident!Rank
      BY RankListIs
    <3>2. /\ u[n] = Trident!scalarProductsOf(Trident!RankList[n])
          /\ x[n] = RowsTotal(G, rows, cols, Trident!RankList[n])
      OBVIOUS
    <3> HIDE DEF u, x
    <3>3. QED
      BY <1>6, <3>1, <3>2
  <2>2. QED
    BY <2>1
<1>9. SumUp(x, Places) = SumUp(y, rows)
  BY <1>1, <1>5, GridSum
<1>10. SumUp(z, rows) = q[rows] - q[0]
  <2>1. \A k \in 1 .. rows : z[k] = q[k] - q[k - 1]
    OBVIOUS
  <2> HIDE DEF z
  <2>2. QED
    BY <1>1, <1>3, <2>1, Telescope
<1>11. q[rows] \in Int /\ q[rows] - q[0] = q[rows]
  <2>1. rows \in 0 .. rows
    BY <1>1
  <2>2. QED
    BY <1>3, <2>1
<1> HIDE DEF u, x, y, z
<1>12. SumUp(u, Places) = SumUp(x, Places)
  BY <1>8, SumSame
<1>13. SumUp(y, rows) = SumUp(z, rows)
  BY <1>7, SumSame
<1>14. SumUp(u, Places) = scalarMultiplicationCount(a, b)
  BY <1>3, <1>9, <1>10, <1>11, <1>12, <1>13
<1>15. QED
  BY <1>14 DEF u

-----------------------------------------------------------------------------
(* Panels                                                                  *)

\* f adds up K counts.
AddsUp(f, counts, K) ==
  /\ f[0] = 0
  /\ \A k \in 1 .. K : counts[k] \in Nat /\ f[k] = f[k - 1] + counts[k]
  /\ \A k \in 0 .. K : f[k] \in Nat /\ f[k] <= f[K]

\* Every place falls into one part.
LEMMA AddsUpWithin ==
  ASSUME NEW K \in Nat, NEW f, NEW counts, AddsUp(f, counts, K), NEW x \in 1 .. f[K]
  PROVE  \E k \in 1 .. K : \E i \in 1 .. counts[k] : x = f[k - 1] + i
<1> DEFINE ptr == [k \in 1 .. K + 1 |-> f[k - 1]]
           last == f[K]
<1>1. ptr \in Seq(Int) /\ Len(ptr) = K + 1
  <2>1. \A k \in 1 .. K + 1 : f[k - 1] \in Int
    <3>1. ASSUME NEW k \in 1 .. K + 1 PROVE f[k - 1] \in Int
      <4>1. k - 1 \in 0 .. K
        OBVIOUS
      <4>2. QED
        BY <4>1 DEF AddsUp
    <3>2. QED
      BY <3>1
  <2>2. QED
    BY <2>1
<1>2. \A k \in 0 .. K : ptr[k + 1] = f[k]
  OBVIOUS
<1>3. \A k \in 1 .. K : ptr[k] = f[k - 1]
  OBVIOUS
<1> HIDE DEF ptr
<1>4. ptr[1] = 0 /\ ptr[K + 1] = last
  <2>1. 0 \in 0 .. K /\ K \in 0 .. K
    OBVIOUS
  <2>2. QED
    BY <1>2, <2>1 DEF AddsUp
<1>5. \A k \in 1 .. K : ptr[k] <= ptr[k + 1]
  <2>1. ASSUME NEW k \in 1 .. K PROVE ptr[k] <= ptr[k + 1]
    <3>1. k \in 0 .. K /\ k - 1 \in 0 .. K
      OBVIOUS
    <3>2. f[k] = f[k - 1] + counts[k] /\ counts[k] \in Nat /\ f[k - 1] \in Nat
      BY <3>1 DEF AddsUp
    <3>3. QED
      BY <1>2, <1>3, <3>1, <3>2
  <2>2. QED
    BY <2>1
<1>6. IsPointer(ptr, K, last)
  BY <1>1, <1>4, <1>5 DEF IsPointer
<1>7. PICK k \in 1 .. K : ptr[k] < x /\ x <= ptr[k + 1]
  <2>1. x \in 1 .. last
    OBVIOUS
  <2> HIDE DEF last
  <2>2. QED
    BY <1>6, <2>1, PointerWithin
<1> DEFINE i == x - f[k - 1]
<1>8. k \in 0 .. K /\ k - 1 \in 0 .. K
  OBVIOUS
<1>9. f[k - 1] < x /\ x <= f[k]
  BY <1>2, <1>3, <1>7, <1>8
<1>10. f[k] = f[k - 1] + counts[k] /\ counts[k] \in Nat /\ f[k - 1] \in Nat
  BY <1>8 DEF AddsUp
<1>11. i \in 1 .. counts[k] /\ x = f[k - 1] + i
  BY <1>9, <1>10
<1> HIDE DEF i
<1>12. QED
  BY <1>11

\* Pointers of slices, one after the other.
Stacked(p, f, g, q, counts, K) ==
  \A k \in 1 .. K : \A i \in 1 .. counts[k] : p[f[k - 1] + i] = q[k][i] + g[k - 1]

\* At the end of a slice the stack's row pointer counts the entries so far.
LEMMA StackEnds ==
  ASSUME NEW K \in Nat, NEW f, NEW g, NEW rc, NEW nn, NEW q, NEW p,
         AddsUp(f, rc, K), AddsUp(g, nn, K),
         \A k \in 1 .. K : IsPointer(q[k], rc[k], nn[k]),
         p[f[K] + 1] = g[K], Stacked(p, f, g, q, rc, K)
  PROVE  \A k \in 0 .. K : p[f[k] + 1] = g[k]
<1> DEFINE F == [h \in 0 .. K |-> p[f[K - h] + 1]]
           G == [h \in 0 .. K |-> g[K - h]]
<1>1. \A h \in 0 .. K : F[h] = p[f[K - h] + 1] /\ G[h] = g[K - h]
  OBVIOUS
<1> HIDE DEF F, G
<1>2. F[0] = G[0]
  <2>1. 0 \in 0 .. K /\ K - 0 = K
    OBVIOUS
  <2>2. F[0] = p[f[K - 0] + 1] /\ G[0] = g[K - 0]
    BY <1>1, <2>1
  <2>3. QED
    BY <2>1, <2>2
<1>3. \A h \in 1 .. K : F[h - 1] = G[h - 1] => F[h] = G[h]
  <2>1. ASSUME NEW h \in 1 .. K, F[h - 1] = G[h - 1] PROVE F[h] = G[h]
    <3> DEFINE k == K - h
               m == k + 1
    <3>1. /\ k \in 0 .. K /\ m \in 1 .. K /\ m - 1 = k /\ m = K - (h - 1)
          /\ h - 1 \in 0 .. K /\ h \in 0 .. K /\ m \in 0 .. K
      OBVIOUS
    <3>2. F[h] = p[f[k] + 1] /\ G[h] = g[k]
      BY <1>1, <3>1
    <3>3. p[f[m] + 1] = g[m]
      BY <1>1, <2>1, <3>1
    <3> HIDE DEF k, m
    <3>4. /\ rc[m] \in Nat /\ f[m] = f[k] + rc[m] /\ f[k] \in Nat
          /\ nn[m] \in Nat /\ g[m] = g[k] + nn[m] /\ g[k] \in Nat
      BY <3>1 DEF AddsUp
    <3>5. /\ q[m][1] = 0 /\ q[m][rc[m] + 1] = nn[m]
      BY <3>1 DEF IsPointer
    <3>6. CASE rc[m] = 0
      <4>1. nn[m] = 0
        BY <3>5, <3>6
      <4>2. f[m] = f[k] /\ g[m] = g[k]
        BY <3>4, <3>6, <4>1
      <4>3. QED
        BY <3>2, <3>3, <4>2
    <3>7. CASE rc[m] # 0
      <4>1. 1 \in 1 .. rc[m]
        BY <3>4, <3>7
      <4>2. p[f[m - 1] + 1] = q[m][1] + g[m - 1]
        BY <3>1, <4>1 DEF Stacked
      <4>3. p[f[k] + 1] = g[k]
        BY <3>1, <3>4, <3>5, <4>2
      <4>4. QED
        BY <3>2, <4>3
    <3>8. QED
      BY <3>6, <3>7
  <2>2. QED
    BY <2>1
<1>4. \A h \in 0 .. K : F[h] = G[h]
  BY <1>2, <1>3, Agree
<1>5. ASSUME NEW k \in 0 .. K PROVE p[f[k] + 1] = g[k]
  <2> DEFINE h == K - k
  <2>1. h \in 0 .. K /\ K - h = k
    OBVIOUS
  <2> HIDE DEF h
  <2>2. p[f[K - h] + 1] = g[K - h]
    BY <1>1, <1>4, <2>1
  <2>3. QED
    BY <2>1, <2>2
<1>6. QED
  BY <1>5

\* The rebased row pointers of the slices, put together, are one row pointer.
LEMMA StackPointer ==
  ASSUME NEW K \in Nat, NEW f, NEW g, NEW rc, NEW nn, NEW q, NEW p,
         AddsUp(f, rc, K), AddsUp(g, nn, K),
         \A k \in 1 .. K : IsPointer(q[k], rc[k], nn[k]),
         p \in Seq(Int), Len(p) = f[K] + 1,
         p[f[K] + 1] = g[K], Stacked(p, f, g, q, rc, K)
  PROVE  /\ IsPointer(p, f[K], g[K])
         /\ \A k \in 1 .. K : \A i \in 1 .. rc[k] + 1 : p[f[k - 1] + i] = g[k - 1] + q[k][i]
<1>1. \A k \in 0 .. K : p[f[k] + 1] = g[k]
  BY StackEnds
<1>2. \A k \in 1 .. K :
        /\ k - 1 \in 0 .. K /\ k \in 0 .. K
        /\ rc[k] \in Nat /\ f[k] = f[k - 1] + rc[k] /\ f[k - 1] \in Nat
        /\ nn[k] \in Nat /\ g[k] = g[k - 1] + nn[k] /\ g[k - 1] \in Nat
  <2>1. ASSUME NEW k \in 1 .. K
        PROVE  /\ k - 1 \in 0 .. K /\ k \in 0 .. K
               /\ rc[k] \in Nat /\ f[k] = f[k - 1] + rc[k] /\ f[k - 1] \in Nat
               /\ nn[k] \in Nat /\ g[k] = g[k - 1] + nn[k] /\ g[k - 1] \in Nat
    <3>1. k - 1 \in 0 .. K /\ k \in 0 .. K
      OBVIOUS
    <3>2. QED
      BY <3>1 DEF AddsUp
  <2>2. QED
    BY <2>1
<1>3. ASSUME NEW k \in 1 .. K
      PROVE  /\ q[k] \in Seq(Int) /\ Len(q[k]) = rc[k] + 1
             /\ q[k][1] = 0 /\ q[k][rc[k] + 1] = nn[k]
             /\ \A i \in 1 .. rc[k] : q[k][i] <= q[k][i + 1]
             /\ \A i \in 1 .. rc[k] + 1 : q[k][i] \in Int
  <2>1. IsPointer(q[k], rc[k], nn[k])
    OBVIOUS
  <2> DEFINE s == q[k]
             n == rc[k]
  <2>2. s \in Seq(Int) /\ Len(s) = n + 1
    BY <2>1 DEF IsPointer
  <2> HIDE DEF s, n
  <2>3. \A i \in 1 .. n + 1 : s[i] \in Int
    BY <2>2
  <2>4. QED
    BY <2>1, <2>2, <2>3 DEF IsPointer, s, n
<1>4. ASSUME NEW k \in 1 .. K, NEW i \in 1 .. rc[k] + 1
      PROVE  p[f[k - 1] + i] = g[k - 1] + q[k][i]
  <2>1. CASE i \in 1 .. rc[k]
    <3>1. p[f[k - 1] + i] = q[k][i] + g[k - 1]
      BY <2>1 DEF Stacked
    <3>2. q[k][i] \in Int /\ g[k - 1] \in Int
      BY <1>2, <1>3
    <3>3. QED
      BY <3>1, <3>2
  <2>2. CASE i = rc[k] + 1
    <3>1. f[k - 1] + i = f[k] + 1
      <4>1. rc[k] \in Nat /\ f[k] = f[k - 1] + rc[k] /\ f[k - 1] \in Nat
        BY <1>2
      <4>2. QED
        BY ONLY <2>2, <4>1
    <3>2. p[f[k] + 1] = g[k]
      BY <1>1, <1>2
    <3>3. q[k][i] = nn[k] /\ g[k] = g[k - 1] + nn[k]
      BY <1>2, <1>3, <2>2
    <3>4. QED
      BY <3>1, <3>2, <3>3
  <2>3. QED
    BY <1>2, <2>1, <2>2
<1> DEFINE N == f[K]
<1>5. N \in Nat /\ p[1] = 0
  <2>1. 0 \in 0 .. K /\ K \in 0 .. K
    OBVIOUS
  <2>2. p[f[0] + 1] = g[0]
    BY <1>1, <2>1
  <2>3. f[0] = 0 /\ g[0] = 0 /\ f[K] \in Nat
    BY <2>1 DEF AddsUp
  <2>4. QED
    BY <2>2, <2>3
<1>6. ASSUME NEW x \in 1 .. N PROVE p[x] <= p[x + 1]
  <2>0. PICK k \in 1 .. K : \E i \in 1 .. rc[k] : x = f[k - 1] + i
    BY AddsUpWithin
  <2>1. PICK i \in 1 .. rc[k] : x = f[k - 1] + i
    BY <2>0
  <2> DEFINE j == i + 1
  <2>2. i \in 1 .. rc[k] + 1 /\ j \in 1 .. rc[k] + 1 /\ x + 1 = f[k - 1] + j
    <3>1. rc[k] \in Nat /\ f[k - 1] \in Nat /\ i \in 1 .. rc[k]
      BY <1>2
    <3>2. QED
      BY ONLY <2>1, <3>1
  <2>3. q[k][i] <= q[k][j] /\ q[k][i] \in Int /\ q[k][j] \in Int
    BY <1>3, <2>2
  <2> HIDE DEF j
  <2>4. p[x] = g[k - 1] + q[k][i] /\ p[x + 1] = g[k - 1] + q[k][j]
    BY <1>4, <2>1, <2>2
  <2>5. g[k - 1] \in Int
    BY <1>2
  <2>6. QED
    BY <2>3, <2>4, <2>5
<1>7. IsPointer(p, f[K], g[K])
  BY <1>5, <1>6 DEF IsPointer
<1>8. QED
  BY <1>4, <1>7

\* The offsets of parts are the sums of their lengths.
LEMMA OffsetsAddUp ==
  ASSUME NEW counts \in Seq(Nat)
  PROVE  \E f : /\ AddsUp(f, counts, Len(counts))
                /\ IsSum(f, counts)
                /\ Last(Offsets(counts)) = f[Len(counts)]
                /\ \A k \in 1 .. Len(counts) : Front(Offsets(counts))[k] = f[k - 1]
<1> DEFINE K == Len(counts)
           o == Offsets(counts)
<1>1. K \in Nat /\ counts \in Seq(Int) /\ \A k \in 1 .. K : counts[k] \in Nat
  OBVIOUS
<1>2. PICK f : IsSum(f, counts) /\ o = [k \in 1 .. K + 1 |-> f[k - 1]]
  <2> HIDE DEF o
  <2>1. \E f : IsSum(f, counts) /\ Offsets(counts) = [k \in 1 .. Len(counts) + 1 |-> f[k - 1]]
    BY <1>1, OffsetsAre
  <2>2. QED
    BY <2>1 DEF o
<1>3. /\ f[0] = 0
      /\ \A k \in 1 .. K : f[k] = f[k - 1] + counts[k]
      /\ \A k \in 0 .. K : f[k] \in Int
  BY <1>2 DEF IsSum
<1> HIDE DEF o, K
<1>4. o \in Seq(Int) /\ Len(o) = K + 1 /\ \A k \in 1 .. K + 1 : o[k] = f[k - 1]
  <2>1. \A k \in 1 .. K + 1 : f[k - 1] \in Int
    <3>1. ASSUME NEW k \in 1 .. K + 1 PROVE f[k - 1] \in Int
      <4>1. k - 1 \in 0 .. K
        BY <1>1
      <4>2. QED
        BY <1>3, <4>1
    <3>2. QED
      BY <3>1
  <2>2. QED
    BY <1>1, <1>2, <2>1
<1>5. \A k \in 0 .. K : k + 1 \in 1 .. K + 1 /\ o[k + 1] = f[k]
  <2>1. ASSUME NEW k \in 0 .. K PROVE k + 1 \in 1 .. K + 1 /\ o[k + 1] = f[k]
    <3> DEFINE h == k + 1
    <3>1. h \in 1 .. K + 1 /\ h - 1 = k
      BY <1>1
    <3> HIDE DEF h
    <3>2. o[h] = f[k]
      BY <1>4, <3>1
    <3>3. QED
      BY <3>1, <3>2 DEF h
  <2>2. QED
    BY <2>1
<1>6. IsPointer(o, K, f[K])
  <2>1. o[1] = 0 /\ o[K + 1] = f[K]
    <3>1. 0 \in 0 .. K /\ K \in 0 .. K /\ 0 + 1 = 1
      BY <1>1
    <3>2. o[0 + 1] = f[0] /\ o[K + 1] = f[K]
      BY ONLY <1>5, <3>1
    <3>3. QED
      BY <1>3, <3>1, <3>2
  <2>2. ASSUME NEW k \in 1 .. K PROVE o[k] <= o[k + 1]
    <3>1. k \in 0 .. K /\ k - 1 \in 0 .. K /\ k \in 1 .. K + 1
      BY <1>1
    <3>2. f[k] = f[k - 1] + counts[k] /\ counts[k] \in Nat /\ f[k - 1] \in Int
      BY <1>1, <1>3, <3>1
    <3>3. o[k] = f[k - 1] /\ o[k + 1] = f[k]
      BY <1>4, <1>5, <3>1
    <3>4. QED
      BY <3>2, <3>3
  <2>3. QED
    BY <1>4, <2>1, <2>2 DEF IsPointer
<1>7. \A k \in 0 .. K : f[k] \in Nat /\ f[k] <= f[K]
  <2>1. /\ f[K] \in Nat
        /\ \A i \in 1 .. K + 1 : o[i] \in 0 .. f[K]
    BY <1>1, <1>6, PointerMonotone
  <2>2. ASSUME NEW k \in 0 .. K PROVE f[k] \in Nat /\ f[k] <= f[K]
    <3>1. f[k] \in 0 .. f[K]
      BY <1>5, <2>1
    <3>2. QED
      BY <2>1, <3>1
  <2>3. QED
    BY <2>2
<1>8. AddsUp(f, counts, K)
  BY <1>1, <1>3, <1>7 DEF AddsUp
<1>9. Last(o) = f[K]
  <2>1. K \in 0 .. K
    BY <1>1
  <2>2. QED
    BY <1>4, <1>5, <2>1 DEF Last
<1>10. ASSUME NEW k \in 1 .. K PROVE Front(o)[k] = f[k - 1]
  <2>1. Front(o) = SubSeq(o, 1, K)
    BY <1>1, <1>4 DEF Front
  <2>2. k \in 1 .. K + 1
    BY <1>1
  <2>3. Front(o)[k] = o[k]
    BY <1>1, <1>4, <2>1, <2>2
  <2>4. QED
    BY <1>4, <2>2, <2>3
<1>11. QED
  BY <1>2, <1>8, <1>9, <1>10 DEF o, K

\* Slices as wide as the panel they make up.
IsStack(slices, K, w) ==
  /\ slices = [k \in 1 .. K |-> slices[k]]
  /\ \A k \in 1 .. K : Readable(slices[k]) /\ slices[k].cols = w

RowCounts(slices, K) == [k \in 1 .. K |-> slices[k].rows]
NnzCounts(slices, K) == [k \in 1 .. K |-> Nnz(slices[k])]

\* The stage plans these slices.
PlansStack(st, slices, K, w) ==
  /\ st.rowCounts = RowCounts(slices, K)
  /\ st.nnzOffsets = Front(Offsets(NnzCounts(slices, K)))
  /\ st.panel.rows = Last(Offsets(RowCounts(slices, K)))
  /\ st.panel.nnz = Last(Offsets(NnzCounts(slices, K)))
  /\ st.panel.cols = w

\* What a stack of slices is.
LEMMA StackIs ==
  ASSUME NEW K \in Nat, NEW w, NEW slices, IsStack(slices, K, w)
  PROVE  /\ RowCounts(slices, K) \in Seq(Nat) /\ Len(RowCounts(slices, K)) = K
         /\ NnzCounts(slices, K) \in Seq(Nat) /\ Len(NnzCounts(slices, K)) = K
         /\ DOMAIN slices = 1 .. K
         /\ \A k \in 1 .. K :
              /\ slices[k] \in AnyCsr /\ ValidOffsets(slices[k]) /\ slices[k].rows \in Nat
              /\ RowCounts(slices, K)[k] = slices[k].rows
              /\ NnzCounts(slices, K)[k] = Nnz(slices[k])
              /\ IsPointer(slices[k].rowPtr, slices[k].rows, Nnz(slices[k]))
              /\ slices[k].columns \in Seq(Int) /\ Len(slices[k].columns) = Nnz(slices[k])
              /\ slices[k].values \in Seq(Int) /\ Len(slices[k].values) = Nnz(slices[k])
<1>1. /\ DOMAIN slices = 1 .. K
      /\ \A k \in 1 .. K : Readable(slices[k])
  BY DEF IsStack
<1>2. ASSUME NEW k \in 1 .. K
      PROVE  /\ slices[k] \in AnyCsr /\ ValidOffsets(slices[k])
             /\ slices[k].rows \in Nat /\ Nnz(slices[k]) \in Nat
             /\ IsPointer(slices[k].rowPtr, slices[k].rows, Nnz(slices[k]))
             /\ slices[k].columns \in Seq(Int) /\ Len(slices[k].columns) = Nnz(slices[k])
             /\ slices[k].values \in Seq(Int) /\ Len(slices[k].values) = Nnz(slices[k])
  <2> DEFINE m == slices[k]
  <2>1. Readable(m)
    BY <1>1
  <2> HIDE DEF m
  <2>2. m \in AnyCsr /\ ValidOffsets(m)
    BY <2>1, ReadableIs
  <2>3. QED
    BY <2>2, PointerOf DEF m
<1>3. /\ RowCounts(slices, K) \in Seq(Nat) /\ Len(RowCounts(slices, K)) = K
      /\ NnzCounts(slices, K) \in Seq(Nat) /\ Len(NnzCounts(slices, K)) = K
  <2>1. \A k \in 1 .. K : slices[k].rows \in Nat /\ Nnz(slices[k]) \in Nat
    BY <1>2
  <2>2. QED
    BY <2>1 DEF RowCounts, NnzCounts
<1>4. \A k \in 1 .. K : /\ RowCounts(slices, K)[k] = slices[k].rows
                        /\ NnzCounts(slices, K)[k] = Nnz(slices[k])
  BY DEF RowCounts, NnzCounts
<1>5. QED
  BY <1>1, <1>2, <1>3, <1>4

\* What the parts flattened hold, and where.
Flattened(flat, parts, f, K) ==
  \A k \in 1 .. K : \A i \in 1 .. Len(parts[k]) : flat[f[k - 1] + i] = parts[k][i]

IsParted(parts, counts, K, T) ==
  /\ parts = [k \in 1 .. K |-> parts[k]]
  /\ \A k \in 1 .. K : parts[k] \in Seq(T) /\ Len(parts[k]) = counts[k]

\* Parts of these sizes, put together.
LEMMA FlattenedIs ==
  ASSUME NEW T, NEW K \in Nat, NEW counts \in Seq(Nat), Len(counts) = K,
         NEW f, IsSum(f, counts), NEW parts, IsParted(parts, counts, K, T)
  PROVE  /\ FlattenSeq(parts) \in Seq(T)
         /\ Len(FlattenSeq(parts)) = f[K]
         /\ Flattened(FlattenSeq(parts), parts, f, K)
<1> DEFINE U == Seq(T)
           lengths == [k \in DOMAIN parts |-> Len(parts[k])]
<1>0. /\ parts = [k \in 1 .. K |-> parts[k]]
      /\ \A k \in 1 .. K : parts[k] \in Seq(T) /\ Len(parts[k]) = counts[k]
  BY DEF IsParted
<1>1. \A k \in 1 .. K : parts[k] \in U
  BY <1>0
<1>2. parts \in Seq(U) /\ Len(parts) = K /\ DOMAIN parts = 1 .. K
  <2> HIDE DEF U
  <2>1. QED
    BY <1>0, <1>1, SeqBy
<1>3. lengths = counts
  <2>1. \A k \in 1 .. K : lengths[k] = counts[k]
    BY <1>0, <1>2
  <2>2. DOMAIN counts = 1 .. K /\ counts = [k \in 1 .. K |-> counts[k]]
    OBVIOUS
  <2>3. lengths = [k \in 1 .. K |-> Len(parts[k])]
    BY <1>2
  <2>4. QED
    BY <2>1, <2>2, <2>3
<1>4. IsSum(f, lengths)
  <2> HIDE DEF lengths
  <2>1. QED
    BY <1>3
<1>5. /\ FlattenSeq(parts) \in Seq(T)
      /\ Len(FlattenSeq(parts)) = f[Len(parts)]
      /\ \A k \in 1 .. Len(parts) : \A i \in 1 .. Len(parts[k]) :
           FlattenSeq(parts)[f[k - 1] + i] = parts[k][i]
  <2>1. parts \in Seq(Seq(T)) /\ IsSum(f, [k \in DOMAIN parts |-> Len(parts[k])])
    BY <1>2, <1>4
  <2>2. QED
    BY ONLY <2>1, FlatParts
<1>6. QED
  BY <1>2, <1>5 DEF Flattened

\* The rows of the slices, one slice after the other.
StackRows(m, slices, f, K) ==
  \A k \in 1 .. K : \A i \in 0 .. slices[k].rows - 1 :
    f[k - 1] + i \in 0 .. f[K] - 1 /\ Row(m, f[k - 1] + i) = Row(slices[k], i)

\* An assembled panel is the stack of its slices.
LEMMA AssembleIs ==
  ASSUME NEW K \in Nat, NEW w \in Nat, NEW slices, IsStack(slices, K, w),
         NEW st, PlansStack(st, slices, K, w)
  PROVE  \E f : /\ IsSum(f, RowCounts(slices, K)) /\ AddsUp(f, RowCounts(slices, K), K)
                /\ Readable(Trident!assemble(st, slices))
                /\ Trident!assemble(st, slices).rows = f[K]
                /\ Trident!assemble(st, slices).cols = w
                /\ StackRows(Trident!assemble(st, slices), slices, f, K)
<1> DEFINE rc == RowCounts(slices, K)
           nn == NnzCounts(slices, K)
           q == [k \in 1 .. K |-> slices[k].rowPtr]
           pc1 == [k \in 1 .. K |-> slices[k].columns]
           pv == [k \in 1 .. K |-> slices[k].values]
           m == Trident!assemble(st, slices)
<1>1. /\ rc \in Seq(Nat) /\ Len(rc) = K
      /\ nn \in Seq(Nat) /\ Len(nn) = K
      /\ DOMAIN slices = 1 .. K
      /\ \A k \in 1 .. K :
           /\ slices[k] \in AnyCsr /\ ValidOffsets(slices[k]) /\ slices[k].rows \in Nat
           /\ rc[k] = slices[k].rows /\ nn[k] = Nnz(slices[k])
           /\ IsPointer(q[k], rc[k], nn[k])
           /\ pc1[k] \in Seq(Int) /\ Len(pc1[k]) = nn[k]
           /\ pv[k] \in Seq(Int) /\ Len(pv[k]) = nn[k]
  BY StackIs
<1>2. /\ st.rowCounts = rc /\ st.nnzOffsets = Front(Offsets(nn))
      /\ st.panel.rows = Last(Offsets(rc)) /\ st.panel.nnz = Last(Offsets(nn))
      /\ st.panel.cols = w
  BY DEF PlansStack
<1>a. /\ \A k \in 1 .. K : q[k] = slices[k].rowPtr
      /\ q = [k \in 1 .. K |-> q[k]]
      /\ pc1 = [k \in 1 .. K |-> pc1[k]] /\ pv = [k \in 1 .. K |-> pv[k]]
  OBVIOUS
<1>b. \A k \in 1 .. K : pc1[k] = slices[k].columns /\ pv[k] = slices[k].values
  OBVIOUS
<1>c. m = [rows    |-> st.panel.rows,
           cols    |-> st.panel.cols,
           rowPtr  |-> FlattenSeq([k \in DOMAIN slices |->
                         [i \in 1 .. st.rowCounts[k] |-> slices[k].rowPtr[i] + st.nnzOffsets[k]]])
                       \o <<st.panel.nnz>>,
           columns |-> FlattenSeq([k \in DOMAIN slices |-> slices[k].columns]),
           values  |-> FlattenSeq([k \in DOMAIN slices |-> slices[k].values])]
  BY TridentSums DEF Trident!assemble
<1>d. /\ pc1 = [k \in DOMAIN slices |-> slices[k].columns]
      /\ pv = [k \in DOMAIN slices |-> slices[k].values]
  BY <1>1
<1> HIDE DEF rc, nn, q, pc1, pv, m
<1>3. PICK f : /\ AddsUp(f, rc, K) /\ IsSum(f, rc) /\ Last(Offsets(rc)) = f[K]
  BY <1>1, OffsetsAddUp
<1>4. PICK g : /\ AddsUp(g, nn, K) /\ IsSum(g, nn) /\ Last(Offsets(nn)) = g[K]
               /\ \A k \in 1 .. K : Front(Offsets(nn))[k] = g[k - 1]
  BY <1>1, OffsetsAddUp
<1>5. /\ f[K] \in Nat /\ g[K] \in Nat
      /\ \A k \in 1 .. K : /\ f[k - 1] \in Nat /\ g[k - 1] \in Nat
                           /\ f[k] = f[k - 1] + rc[k] /\ g[k] = g[k - 1] + nn[k]
                           /\ rc[k] \in Nat /\ nn[k] \in Nat
                           /\ f[k] <= f[K] /\ g[k] <= g[K]
  <2>1. K \in 0 .. K
    OBVIOUS
  <2>2. \A k \in 1 .. K : k - 1 \in 0 .. K /\ k \in 0 .. K
    OBVIOUS
  <2>3. QED
    BY <1>3, <1>4, <2>1, <2>2 DEF AddsUp
<1> DEFINE ss == [k \in 1 .. K |-> [i \in 1 .. rc[k] |-> q[k][i] + g[k - 1]]]
           body == FlattenSeq(ss)
           ptr == body \o <<g[K]>>
           cs == FlattenSeq(pc1)
           vs == FlattenSeq(pv)
<1>6. m = [rows |-> f[K], cols |-> w, rowPtr |-> ptr, columns |-> cs, values |-> vs]
  <2> DEFINE tt == [k \in DOMAIN slices |->
                     [i \in 1 .. st.rowCounts[k] |-> slices[k].rowPtr[i] + st.nnzOffsets[k]]]
  <2>1. tt = ss
    <3>1. \A k \in 1 .. K : tt[k] = ss[k]
      BY <1>1, <1>2, <1>4, <1>a
    <3>2. tt = [k \in 1 .. K |-> tt[k]] /\ ss = [k \in 1 .. K |-> ss[k]]
      BY <1>1
    <3> HIDE DEF tt, ss
    <3>3. [k \in 1 .. K |-> tt[k]] = [k \in 1 .. K |-> ss[k]]
      BY <3>1
    <3>4. QED
      BY <3>2, <3>3
  <2> HIDE DEF ss
  <2>2. m = [rows    |-> st.panel.rows,
             cols    |-> st.panel.cols,
             rowPtr  |-> FlattenSeq(tt) \o <<st.panel.nnz>>,
             columns |-> FlattenSeq(pc1),
             values  |-> FlattenSeq(pv)]
    BY <1>c, <1>d
  <2> HIDE DEF tt
  <2>3. QED
    BY <1>2, <1>3, <1>4, <2>1, <2>2
<1>7. \A k \in 1 .. K : /\ ss[k] \in Seq(Int) /\ Len(ss[k]) = rc[k]
                        /\ \A i \in 1 .. rc[k] : ss[k][i] = q[k][i] + g[k - 1]
  <2>1. ASSUME NEW k \in 1 .. K
        PROVE  /\ ss[k] \in Seq(Int) /\ Len(ss[k]) = rc[k]
               /\ \A i \in 1 .. rc[k] : ss[k][i] = q[k][i] + g[k - 1]
    <3> DEFINE n == rc[k]
               p == q[k]
               d == g[k - 1]
    <3>1. n \in Nat /\ d \in Nat /\ IsPointer(p, n, nn[k])
      BY <1>1, <1>5
    <3>2. ss[k] = [i \in 1 .. n |-> p[i] + d]
      OBVIOUS
    <3> HIDE DEF n, p, d, ss
    <3>3. \A i \in 1 .. n : p[i] \in Int
      <4>1. p \in Seq(Int) /\ Len(p) = n + 1
        BY <3>1 DEF IsPointer
      <4>2. QED
        BY <3>1, <4>1
    <3>4. \A i \in 1 .. n : p[i] + d \in Int
      BY <3>1, <3>3
    <3>5. ss[k] \in Seq(Int) /\ Len(ss[k]) = n /\ \A i \in 1 .. n : ss[k][i] = p[i] + d
      BY <3>1, <3>2, <3>4
    <3>6. QED
      BY <3>5 DEF n, p, d
  <2>2. QED
    BY <2>1
<1>8. ss = [k \in 1 .. K |-> ss[k]]
  OBVIOUS
<1> HIDE DEF ss
<1>9. body \in Seq(Int) /\ Len(body) = f[K] /\ Flattened(body, ss, f, K)
  <2>1. \A k \in 1 .. K : ss[k] \in Seq(Int) /\ Len(ss[k]) = rc[k]
    BY <1>7
  <2>2. K \in Nat /\ rc \in Seq(Nat) /\ Len(rc) = K /\ IsSum(f, rc)
    BY <1>1, <1>3
  <2>a. IsParted(ss, rc, K, Int)
    BY <1>8, <2>1, <2>2 DEF IsParted
  <2>3. /\ FlattenSeq(ss) \in Seq(Int) /\ Len(FlattenSeq(ss)) = f[K]
        /\ Flattened(FlattenSeq(ss), ss, f, K)
    BY ONLY <2>2, <2>a, FlattenedIs
  <2>4. QED
    BY <2>3
<1>10. cs \in Seq(Int) /\ Len(cs) = g[K] /\ Flattened(cs, pc1, g, K)
  <2>1. \A k \in 1 .. K : pc1[k] \in Seq(Int) /\ Len(pc1[k]) = nn[k]
    BY <1>1
  <2>2. K \in Nat /\ nn \in Seq(Nat) /\ Len(nn) = K /\ IsSum(g, nn)
    BY <1>1, <1>4
  <2>a. IsParted(pc1, nn, K, Int)
    BY <1>a, <2>1 DEF IsParted
  <2>3. /\ FlattenSeq(pc1) \in Seq(Int) /\ Len(FlattenSeq(pc1)) = g[K]
        /\ Flattened(FlattenSeq(pc1), pc1, g, K)
    BY ONLY <2>2, <2>a, FlattenedIs
  <2>4. QED
    BY <2>3
<1>11. vs \in Seq(Int) /\ Len(vs) = g[K] /\ Flattened(vs, pv, g, K)
  <2>1. \A k \in 1 .. K : pv[k] \in Seq(Int) /\ Len(pv[k]) = nn[k]
    BY <1>1
  <2>2. K \in Nat /\ nn \in Seq(Nat) /\ Len(nn) = K /\ IsSum(g, nn)
    BY <1>1, <1>4
  <2>a. IsParted(pv, nn, K, Int)
    BY <1>a, <2>1 DEF IsParted
  <2>3. /\ FlattenSeq(pv) \in Seq(Int) /\ Len(FlattenSeq(pv)) = g[K]
        /\ Flattened(FlattenSeq(pv), pv, g, K)
    BY ONLY <2>2, <2>a, FlattenedIs
  <2>4. QED
    BY <2>3
<1> HIDE DEF body, cs, vs
<1>12. /\ ptr \in Seq(Int) /\ Len(ptr) = f[K] + 1
       /\ ptr[f[K] + 1] = g[K]
       /\ \A i \in 1 .. f[K] : ptr[i] = body[i]
  <2> DEFINE one == <<g[K]>>
  <2>1. one \in Seq(Int) /\ Len(one) = 1 /\ one[1] = g[K] /\ 1 \in 1 .. Len(one)
    BY <1>5
  <2> HIDE DEF one
  <2>2. /\ Len(body \o one) = Len(body) + 1 /\ body \o one \in Seq(Int)
        /\ \A i \in 1 .. Len(body) : (body \o one)[i] = body[i]
        /\ (body \o one)[Len(body) + 1] = one[1]
    <3>1. body \in Seq(Int) /\ one \in Seq(Int)
      BY <1>9, <2>1
    <3>2. /\ Len(body \o one) = Len(body) + Len(one) /\ body \o one \in Seq(Int)
          /\ \A i \in 1 .. Len(body) : (body \o one)[i] = body[i]
          /\ \A i \in 1 .. Len(one) : (body \o one)[Len(body) + i] = one[i]
      BY ONLY <3>1, ConcatParts
    <3>3. (body \o one)[Len(body) + 1] = one[1]
      BY <2>1, <3>2
    <3>4. QED
      BY <2>1, <3>2, <3>3
  <2>3. QED
    BY <1>9, <2>1, <2>2 DEF one
<1> HIDE DEF ptr
<1>13. Stacked(ptr, f, g, q, rc, K)
  <2>1. ASSUME NEW k \in 1 .. K, NEW i \in 1 .. rc[k]
        PROVE  ptr[f[k - 1] + i] = q[k][i] + g[k - 1]
    <3>1. body[f[k - 1] + i] = ss[k][i] /\ ss[k][i] = q[k][i] + g[k - 1]
      BY <1>7, <1>9 DEF Flattened
    <3>2. f[k - 1] + i \in 1 .. f[K]
      <4>1. f[k - 1] \in Nat /\ rc[k] \in Nat /\ f[k] = f[k - 1] + rc[k] /\ f[k] <= f[K] /\ f[K] \in Nat
        BY <1>5
      <4>2. i \in 1 .. rc[k]
        OBVIOUS
      <4>3. QED
        BY ONLY <4>1, <4>2
    <3>3. QED
      BY <1>12, <3>1, <3>2
  <2>2. QED
    BY <2>1 DEF Stacked
<1>14. /\ IsPointer(ptr, f[K], g[K])
       /\ \A k \in 1 .. K : \A i \in 1 .. rc[k] + 1 : ptr[f[k - 1] + i] = g[k - 1] + q[k][i]
  <2>1. \A k \in 1 .. K : IsPointer(q[k], rc[k], nn[k])
    BY <1>1
  <2>2. QED
    BY <1>3, <1>4, <1>12, <1>13, <2>1, StackPointer
<1>15. /\ m \in AnyCsr /\ m.rows = f[K] /\ m.cols = w /\ m.rowPtr = ptr
       /\ m.columns = cs /\ m.values = vs /\ Nnz(m) = g[K]
  BY <1>5, <1>6, <1>10, <1>11, <1>12 DEF AnyCsr, Nnz
<1>16. ValidOffsets(m)
  <2>1. Len(m.columns) = Nnz(m)
    BY <1>10, <1>15
  <2>2. m.rows \in Nat /\ m.cols \in Nat /\ IsPointer(m.rowPtr, m.rows, Nnz(m))
    BY <1>5, <1>14, <1>15
  <2>3. QED
    BY <1>15, <2>1, <2>2, ValidOffsetsFrom
<1>17. ASSUME NEW k \in 1 .. K, NEW i \in 0 .. slices[k].rows - 1
       PROVE  /\ f[k - 1] + i \in 0 .. f[K] - 1
              /\ Row(m, f[k - 1] + i) = Row(slices[k], i)
  <2> DEFINE s == slices[k]
             at == f[k - 1]
             d == g[k - 1]
             x == i + 1
             y == i + 2
  <2>1. /\ at \in Nat /\ d \in Nat /\ rc[k] \in Nat /\ f[k] = at + rc[k] /\ f[k] <= f[K]
        /\ f[K] \in Nat /\ rc[k] = s.rows /\ nn[k] = Nnz(s) /\ nn[k] \in Nat
        /\ s \in AnyCsr /\ ValidOffsets(s) /\ q[k] = s.rowPtr
    BY <1>1, <1>5, <1>a
  <2>2. i \in 0 .. rc[k] - 1
    BY <2>1
  <2>3. x \in 1 .. rc[k] + 1 /\ y \in 1 .. rc[k] + 1 /\ at + i \in 0 .. f[K] - 1 /\ i \in Nat
    <3> HIDE DEF at
    <3>1. QED
      BY <2>1, <2>2
  <2>4. ptr[at + x] = d + q[k][x] /\ ptr[at + y] = d + q[k][y]
    BY <1>14, <2>3
  <2>5. at + x = at + i + 1 /\ at + y = at + i + 2
    <3> HIDE DEF at
    <3>1. QED
      BY <2>1, <2>3
  <2>6. m.rowPtr[at + i + 1] = d + s.rowPtr[i + 1] /\ m.rowPtr[at + i + 2] = d + s.rowPtr[i + 2]
    BY <1>15, <2>1, <2>4, <2>5
  <2> DEFINE b0 == s.rowPtr[i + 1]
             b1 == s.rowPtr[i + 2]
             n == RowLength(s, i)
  <2>7. /\ n \in Nat
        /\ \A j \in 1 .. n : b0 + j \in 1 .. Nnz(s)
    BY <2>1, <2>2, RowIs
  <2>8. b0 \in Int /\ b1 \in Int /\ n = b1 - b0
    <3>1. IsPointer(q[k], rc[k], nn[k])
      BY <1>1
    <3>2. q[k][x] \in 0 .. nn[k] /\ q[k][y] \in 0 .. nn[k]
      BY <2>1, <2>3, <3>1, PointerMonotone
    <3>3. q[k][x] = b0 /\ q[k][y] = b1
      BY <2>1
    <3>4. QED
      BY <2>1, <3>2, <3>3 DEF RowLength
  <2>9. RowLength(m, at + i) = n
    <3>1. RowLength(m, at + i) = m.rowPtr[at + i + 2] - m.rowPtr[at + i + 1]
      BY DEF RowLength
    <3> HIDE DEF b0, b1, n, d, at
    <3>2. m.rowPtr[at + i + 1] = d + b0 /\ m.rowPtr[at + i + 2] = d + b1
      BY <2>6 DEF b0, b1
    <3>3. QED
      BY <2>1, <2>8, <3>1, <3>2
  <2>10. ASSUME NEW j \in 1 .. n
         PROVE  /\ m.columns[m.rowPtr[at + i + 1] + j] = s.columns[s.rowPtr[i + 1] + j]
                /\ m.values[m.rowPtr[at + i + 1] + j] = s.values[s.rowPtr[i + 1] + j]
    <3> DEFINE h == b0 + j
    <3>1. h \in 1 .. nn[k]
      BY <2>1, <2>7
    <3>2. /\ Len(pc1[k]) = nn[k] /\ Len(pv[k]) = nn[k]
          /\ pc1[k] = s.columns /\ pv[k] = s.values
      BY <1>1, <1>b
    <3>3. cs[d + h] = pc1[k][h] /\ vs[d + h] = pv[k][h]
      <4> HIDE DEF h, d
      <4>1. h \in 1 .. Len(pc1[k]) /\ h \in 1 .. Len(pv[k])
        BY <3>1, <3>2
      <4>2. QED
        BY <1>10, <1>11, <4>1 DEF Flattened, d
    <3>4. m.rowPtr[at + i + 1] + j = d + h
      <4>1. m.rowPtr[at + i + 1] = d + b0
        BY <2>6
      <4>2. j \in Int /\ d \in Int /\ b0 \in Int
        BY <2>1, <2>7, <2>8
      <4> HIDE DEF b0, d, at
      <4>3. QED
        BY ONLY <4>1, <4>2 DEF h
    <3>5. QED
      BY <1>15, <3>2, <3>3, <3>4
  <2>11. Row(m, at + i) = Row(s, i)
    <3> DEFINE l == at + i
    <3>1. RowLength(m, l) = RowLength(s, i)
      BY <2>9
    <3>2. \A j \in 1 .. RowLength(m, l) :
            /\ m.columns[m.rowPtr[l + 1] + j] = s.columns[s.rowPtr[i + 1] + j]
            /\ m.values[m.rowPtr[l + 1] + j] = s.values[s.rowPtr[i + 1] + j]
      BY <2>9, <2>10
    <3> HIDE DEF l, s
    <3>3. Row(m, l) = Row(s, i)
      BY <3>1, <3>2, RowEqual
    <3>4. QED
      BY <3>3 DEF l, s
  <2>12. QED
    BY <2>3, <2>11
<1>18. StackRows(m, slices, f, K)
  BY <1>17 DEF StackRows
<1>19. ASSUME NEW x \in 0 .. f[K] - 1
       PROVE  ColumnsInRange(m, x)
  <2> DEFINE y == x + 1
  <2>1. y \in 1 .. f[K] /\ y - 1 = x
    BY <1>5
  <2> HIDE DEF y
  <2>2. PICK k \in 1 .. K : \E i \in 1 .. rc[k] : y = f[k - 1] + i
    BY <1>3, <2>1, AddsUpWithin
  <2>3. PICK i \in 1 .. rc[k] : y = f[k - 1] + i
    BY <2>2
  <2> DEFINE h == i - 1
             s == slices[k]
  <2>4. h \in 0 .. s.rows - 1 /\ x = f[k - 1] + h
    <3>1. f[k - 1] \in Nat /\ rc[k] \in Nat /\ rc[k] = s.rows /\ i \in 1 .. rc[k]
      BY <1>1, <1>5
    <3>2. QED
      BY ONLY <2>1, <2>3, <3>1
  <2>5. Row(m, x) = Row(s, h)
    BY <1>17, <2>4
  <2>6. Readable(s) /\ s.cols = w
    BY DEF IsStack
  <2> HIDE DEF s, h
  <2>7. ColumnsInRange(s, h)
    BY <2>4, <2>6 DEF Readable, validNumericCsr
  <2>8. QED
    BY <1>15, <2>5, <2>6, <2>7 DEF ColumnsInRange
<1>20. Readable(m)
  BY <1>15, <1>16, <1>19 DEF Readable, validNumericCsr
<1>21. QED
  BY <1>3, <1>15, <1>18, <1>20 DEF m, rc

\* The slices the ranks of a node hold.
NodeSlices(y, i, j) == [k \in 1 .. NodeSize |-> Tile(y, Trident!rankAt(i, j, k - 1))]

\* The row of y that is the h-th of the node's k-th slice.
PlaceOfRow(y, i, k, h) ==
  NodeRows(y.rows, i).firstRow + RankRows(y.rows, i, k - 1).firstRow + h

\* The slices of the ranks of a node are a stack.
LEMMA NodeSlicesAre ==
  ASSUME NEW y, Readable(y), NEW i \in 0 .. Side - 1, NEW j \in 0 .. Side - 1
  PROVE  /\ NodeSize \in Nat \ {0} /\ IsBlock(NodeRows(y.rows, i)) /\ IsBlock(NodeRows(y.cols, j))
         /\ IsStack(NodeSlices(y, i, j), NodeSize, NodeRows(y.cols, j).rows)
         /\ \A k \in 1 .. NodeSize :
              /\ NodeSlices(y, i, j)[k].rows = RankRows(y.rows, i, k - 1).rows
              /\ IsBlock(RankRows(y.rows, i, k - 1))
              /\ \A h \in 0 .. RankRows(y.rows, i, k - 1).rows - 1 :
                   /\ PlaceOfRow(y, i, k, h) \in 0 .. y.rows - 1
                   /\ Row(NodeSlices(y, i, j)[k], h)
                        = SliceRow(Row(y, PlaceOfRow(y, i, k, h)), NodeRows(y.cols, j))
<1>1. Side \in Nat \ {0} /\ NodeSize \in Nat \ {0} /\ y.rows \in Nat /\ y.cols \in Nat
  BY SidesAssumption, ReadableIs
<1>2. ASSUME NEW k \in 1 .. NodeSize
      PROVE  /\ Readable(NodeSlices(y, i, j)[k])
             /\ NodeSlices(y, i, j)[k].cols = NodeRows(y.cols, j).rows
             /\ NodeSlices(y, i, j)[k].rows = RankRows(y.rows, i, k - 1).rows
             /\ IsBlock(NodeRows(y.rows, i)) /\ IsBlock(RankRows(y.rows, i, k - 1))
             /\ IsBlock(NodeRows(y.cols, j))
             /\ \A h \in 0 .. RankRows(y.rows, i, k - 1).rows - 1 :
                  /\ PlaceOfRow(y, i, k, h) \in 0 .. y.rows - 1
                  /\ Row(NodeSlices(y, i, j)[k], h)
                       = SliceRow(Row(y, PlaceOfRow(y, i, k, h)), NodeRows(y.cols, j))
  <2> DEFINE l == k - 1
             r == Trident!rankAt(i, j, l)
             block == Trident!matrixBlock(y.rows, y.cols, r)
             t == Tile(y, r)
             c == NodeRows(y.rows, i)
             d == RankRows(y.rows, i, l)
  <2>1. l \in 0 .. NodeSize - 1
    BY <1>1
  <2> HIDE DEF l
  <2>2. r \in Trident!Rank /\ r.row = i /\ r.col = j /\ r.nodeRank = l
    BY <2>1, PlaceOf
  <2>3. NodeSlices(y, i, j)[k] = t
    BY DEF NodeSlices, l
  <2> HIDE DEF r
  <2>4. /\ block.rows.rows = d.rows
        /\ block.rows.firstRow = c.firstRow + d.firstRow
        /\ block.cols = NodeRows(y.cols, j)
        /\ IsBlock(c) /\ IsBlock(d) /\ IsBlock(block.cols)
    BY <1>1, <2>2, MatrixBlockIs
  <2>5. /\ Readable(t) /\ t.rows = block.rows.rows /\ t.cols = block.cols.rows
        /\ \A h \in 0 .. block.rows.rows - 1 :
             /\ block.rows.firstRow + h \in 0 .. y.rows - 1
             /\ Row(t, h) = SliceRow(Row(y, block.rows.firstRow + h), block.cols)
    BY <2>2, TileIs
  <2>6. \A h : PlaceOfRow(y, i, k, h) = c.firstRow + d.firstRow + h
    BY DEF PlaceOfRow, l
  <2> HIDE DEF block, t, c, d
  <2>7. /\ Readable(t) /\ t.cols = NodeRows(y.cols, j).rows /\ t.rows = d.rows
        /\ IsBlock(c) /\ IsBlock(d) /\ IsBlock(NodeRows(y.cols, j))
        /\ \A h \in 0 .. d.rows - 1 :
             /\ PlaceOfRow(y, i, k, h) \in 0 .. y.rows - 1
             /\ Row(t, h) = SliceRow(Row(y, PlaceOfRow(y, i, k, h)), NodeRows(y.cols, j))
    BY <2>4, <2>5, <2>6
  <2>8. QED
    BY <2>3, <2>7 DEF c, d, l
<1>3. NodeSlices(y, i, j) = [k \in 1 .. NodeSize |-> NodeSlices(y, i, j)[k]]
  BY DEF NodeSlices
<1>4. IsStack(NodeSlices(y, i, j), NodeSize, NodeRows(y.cols, j).rows)
  BY <1>2, <1>3 DEF IsStack
<1>5. 1 \in 1 .. NodeSize
  BY <1>1
<1>6. QED
  BY <1>1, <1>2, <1>4, <1>5

\* A panel: the node's rows of y, in one column of the grid.
IsPanel(p, y, i, j) ==
  /\ Readable(p)
  /\ p.rows = NodeRows(y.rows, i).rows
  /\ p.cols = NodeRows(y.cols, j).rows
  /\ \A x \in 0 .. p.rows - 1 :
       /\ NodeRows(y.rows, i).firstRow + x \in 0 .. y.rows - 1
       /\ Row(p, x) = SliceRow(Row(y, NodeRows(y.rows, i).firstRow + x), NodeRows(y.cols, j))

\* The counts of the slices add up to where the ranks' rows begin.
LEMMA SlicesAddUp ==
  ASSUME NEW y, Readable(y), NEW i \in 0 .. Side - 1, NEW j \in 0 .. Side - 1,
         NEW f, IsSum(f, RowCounts(NodeSlices(y, i, j), NodeSize))
  PROVE  /\ f[NodeSize] = NodeRows(y.rows, i).rows
         /\ \A k \in 1 .. NodeSize : f[k - 1] = RankRows(y.rows, i, k - 1).firstRow
<1> DEFINE n == NodeRows(y.rows, i).rows
           K == NodeSize
           counts == RowCounts(NodeSlices(y, i, j), NodeSize)
           S == [k \in 0 .. K |-> Start(n, K, k)]
<1>1. /\ K \in Nat \ {0} /\ n \in Nat
      /\ IsStack(NodeSlices(y, i, j), NodeSize, NodeRows(y.cols, j).rows)
      /\ \A k \in 1 .. K : NodeSlices(y, i, j)[k].rows = RankRows(y.rows, i, k - 1).rows
  <2> HIDE DEF n, counts, S
  <2>1. IsBlock(NodeRows(y.rows, i))
    BY NodeSlicesAre
  <2>2. n \in Nat
    BY <2>1 DEF IsBlock, n
  <2>3. K \in Nat \ {0} /\ IsStack(NodeSlices(y, i, j), NodeSize, NodeRows(y.cols, j).rows)
    BY NodeSlicesAre
  <2>4. \A k \in 1 .. K : NodeSlices(y, i, j)[k].rows = RankRows(y.rows, i, k - 1).rows
    BY NodeSlicesAre
  <2>5. QED
    BY <2>2, <2>3, <2>4
<1>2. Len(counts) = K /\ \A k \in 1 .. K : counts[k] = RankRows(y.rows, i, k - 1).rows
  <2>1. Len(counts) = K
    <3> DEFINE slices == NodeSlices(y, i, j)
               w == NodeRows(y.cols, j).rows
    <3>1. IsStack(slices, K, w) /\ K \in Nat
      BY <1>1
    <3> HIDE DEF slices, w, K, n, S, counts
    <3>2. Len(RowCounts(slices, K)) = K
      BY ONLY <3>1, StackIs
    <3>3. QED
      BY <3>2 DEF slices, K, counts
  <2>2. \A k \in 1 .. K : counts[k] = NodeSlices(y, i, j)[k].rows
    BY DEF RowCounts
  <2>3. QED
    BY <1>1, <2>1, <2>2
<1>3. f[0] = 0 /\ \A k \in 1 .. K : f[k] = f[k - 1] + counts[k]
  BY <1>2 DEF IsSum
<1>4. \A k \in 0 .. K - 1 :
        /\ RankRows(y.rows, i, k).firstRow = Start(n, K, k)
        /\ Start(n, K, k + 1) = Start(n, K, k) + RankRows(y.rows, i, k).rows
  BY <1>1, PartitionIs DEF RankRows
<1>5. Start(n, K, 0) = 0 /\ Start(n, K, K) = n
  BY <1>1, PartitionIs
<1>6. \A k \in 0 .. K : S[k] = Start(n, K, k)
  OBVIOUS
<1> HIDE DEF n, K, counts, S
<1>7. \A k \in 1 .. K : f[k - 1] = S[k - 1] => f[k] = S[k]
  <2>1. ASSUME NEW k \in 1 .. K, f[k - 1] = S[k - 1] PROVE f[k] = S[k]
    <3> DEFINE h == k - 1
    <3>1. h \in 0 .. K - 1 /\ h + 1 = k /\ h \in 0 .. K /\ k \in 0 .. K
      BY <1>1
    <3>2. f[k] = f[h] + counts[k] /\ counts[k] = RankRows(y.rows, i, h).rows /\ f[h] = S[h]
      BY <1>2, <1>3, <2>1
    <3> HIDE DEF h
    <3>3. Start(n, K, k) = Start(n, K, h) + RankRows(y.rows, i, h).rows
      BY <1>4, <3>1
    <3>4. QED
      BY <1>6, <3>1, <3>2, <3>3
  <2>2. QED
    BY <2>1
<1>8. \A k \in 0 .. K : f[k] = S[k]
  <2>1. f[0] = S[0]
    <3>1. 0 \in 0 .. K
      BY <1>1
    <3>2. QED
      BY <1>3, <1>5, <1>6, <3>1
  <2>2. K \in Nat
    BY <1>1
  <2>3. QED
    BY <1>7, <2>1, <2>2, Agree
<1>9. f[K] = n
  <2>1. K \in 0 .. K
    BY <1>1
  <2>2. QED
    BY <1>5, <1>6, <1>8, <2>1
<1>10. ASSUME NEW k \in 1 .. K PROVE f[k - 1] = RankRows(y.rows, i, k - 1).firstRow
  <2> DEFINE h == k - 1
  <2>1. h \in 0 .. K - 1 /\ h \in 0 .. K
    BY <1>1
  <2> HIDE DEF h
  <2>2. f[h] = RankRows(y.rows, i, h).firstRow
    BY <1>4, <1>6, <1>8, <2>1
  <2>3. QED
    BY <2>2 DEF h
<1>11. QED
  BY <1>9, <1>10 DEF K, n

\* The panel a rank assembles holds the rows of the node's block of B.
LEMMA PanelIs ==
  ASSUME NEW y, Readable(y), NEW i \in 0 .. Side - 1, NEW j \in 0 .. Side - 1,
         NEW st, PlansStack(st, NodeSlices(y, i, j), NodeSize, NodeRows(y.cols, j).rows)
  PROVE  IsPanel(Trident!assemble(st, NodeSlices(y, i, j)), y, i, j)
<1> DEFINE slices == NodeSlices(y, i, j)
           p == Trident!assemble(st, slices)
           w == NodeRows(y.cols, j).rows
           K == NodeSize
           base == NodeRows(y.rows, i).firstRow
           rc == RowCounts(slices, K)
<1>1. /\ K \in Nat \ {0} /\ IsBlock(NodeRows(y.rows, i)) /\ IsBlock(NodeRows(y.cols, j))
      /\ IsStack(slices, K, w)
      /\ \A k \in 1 .. K :
              /\ slices[k].rows = RankRows(y.rows, i, k - 1).rows
              /\ IsBlock(RankRows(y.rows, i, k - 1))
              /\ \A h \in 0 .. RankRows(y.rows, i, k - 1).rows - 1 :
                   /\ PlaceOfRow(y, i, k, h) \in 0 .. y.rows - 1
                   /\ Row(slices[k], h) = SliceRow(Row(y, PlaceOfRow(y, i, k, h)), NodeRows(y.cols, j))
  BY NodeSlicesAre
<1>2. w \in Nat /\ base \in Nat /\ K \in Nat
  BY <1>1 DEF IsBlock
<1>3. PICK f : /\ IsSum(f, rc) /\ AddsUp(f, rc, K) /\ Readable(p) /\ p.rows = f[K] /\ p.cols = w
               /\ StackRows(p, slices, f, K)
  <2> HIDE DEF slices, w
  <2>1. PlansStack(st, slices, K, w)
    BY DEF slices, w
  <2>2. \E f : /\ IsSum(f, RowCounts(slices, K)) /\ AddsUp(f, RowCounts(slices, K), K)
               /\ Readable(Trident!assemble(st, slices))
               /\ Trident!assemble(st, slices).rows = f[K]
               /\ Trident!assemble(st, slices).cols = w
               /\ StackRows(Trident!assemble(st, slices), slices, f, K)
    BY <1>1, <1>2, <2>1, AssembleIs
  <2>3. QED
    BY <2>2
<1>4. /\ f[K] = NodeRows(y.rows, i).rows
      /\ \A k \in 1 .. K : f[k - 1] = RankRows(y.rows, i, k - 1).firstRow
  BY <1>3, SlicesAddUp
<1>5. \A k \in 1 .. K : rc[k] = slices[k].rows /\ rc[k] \in Nat /\ f[k - 1] \in Nat
  <2>1. \A k \in 1 .. K : rc[k] = slices[k].rows /\ k - 1 \in 0 .. K
    BY <1>2 DEF RowCounts
  <2>2. QED
    BY <1>3, <2>1 DEF AddsUp
<1>a. \A k \in 1 .. K : \A h : PlaceOfRow(y, i, k, h) = base + f[k - 1] + h
  BY <1>4 DEF PlaceOfRow
<1>b. f[K] \in Nat
  BY <1>1, <1>4 DEF IsBlock
<1> HIDE DEF slices, p, w, K, base, rc
<1>6. ASSUME NEW x \in 0 .. f[K] - 1
      PROVE  /\ base + x \in 0 .. y.rows - 1
             /\ Row(p, x) = SliceRow(Row(y, base + x), NodeRows(y.cols, j))
  <2> DEFINE z == x + 1
  <2>1. z \in 1 .. f[K] /\ z - 1 = x
    BY <1>b
  <2> HIDE DEF z
  <2>2. PICK k \in 1 .. K : \E e \in 1 .. rc[k] : z = f[k - 1] + e
    BY <1>2, <1>3, <2>1, AddsUpWithin
  <2>3. PICK e \in 1 .. rc[k] : z = f[k - 1] + e
    BY <2>2
  <2> DEFINE h == e - 1
  <2>4. h \in 0 .. slices[k].rows - 1 /\ x = f[k - 1] + h /\ base + f[k - 1] + h = base + x
    <3>1. f[k - 1] \in Nat /\ rc[k] \in Nat /\ rc[k] = slices[k].rows /\ e \in 1 .. rc[k] /\ base \in Nat
      BY <1>2, <1>5
    <3>2. QED
      BY ONLY <2>1, <2>3, <3>1
  <2> HIDE DEF h
  <2>5. Row(p, x) = Row(slices[k], h)
    BY <1>3, <2>4 DEF StackRows
  <2>6. /\ PlaceOfRow(y, i, k, h) \in 0 .. y.rows - 1
        /\ Row(slices[k], h) = SliceRow(Row(y, PlaceOfRow(y, i, k, h)), NodeRows(y.cols, j))
    BY <1>1, <2>4
  <2>7. PlaceOfRow(y, i, k, h) = base + x
    BY <1>a, <2>4
  <2>8. QED
    BY <2>5, <2>6, <2>7
<1>7. IsPanel(p, y, i, j)
  BY <1>3, <1>4, <1>6 DEF IsPanel, w, base
<1>8. QED
  BY <1>7 DEF p, slices

-----------------------------------------------------------------------------
(* Plans                                                                   *)

\* Every rank holds its tile.
HoldsTiles(m, local) == \A q \in Trident!Rank : local[q] = Tile(m, q)

\* Where the blocks a rank multiplies at a stage are.
LEMMA InnerIs ==
  ASSUME NEW r \in Trident!Rank, NEW s \in 0 .. Side - 1
  PROVE  /\ Trident!inner(r, s) \in 0 .. Side - 1
         /\ Trident!aSource(r, s) \in Trident!Rank
         /\ Trident!aSource(r, s).row = r.row
         /\ Trident!aSource(r, s).col = Trident!inner(r, s)
         /\ Trident!aSource(r, s).nodeRank = r.nodeRank
         /\ \A k \in 0 .. NodeSize - 1 :
              /\ Trident!rankAt(Trident!inner(r, s), r.col, k) \in Trident!Rank
              /\ Trident!bSource(Trident!rankAt(r.row, r.col, k), s)
                   = Trident!rankAt(Trident!inner(r, s), r.col, k)
<1> DEFINE i == Trident!inner(r, s)
           n == r.row + r.col + s
<1>1. /\ Side \in Nat \ {0} /\ r.row \in 0 .. Side - 1 /\ r.col \in 0 .. Side - 1
      /\ r.nodeRank \in 0 .. NodeSize - 1
  BY PlaceIs
<1>2. n \in Nat /\ i = n % Side
  BY <1>1 DEF Trident!inner
<1>3. i \in 0 .. Side - 1
  <2> HIDE DEF n, i
  <2>1. QED
    BY <1>1, <1>2, DigitsOf
<1>4. Trident!aSource(r, s) = Trident!rankAt(r.row, i, r.nodeRank)
  BY DEF Trident!aSource
<1>5. ASSUME NEW k \in 0 .. NodeSize - 1
      PROVE  /\ Trident!rankAt(i, r.col, k) \in Trident!Rank
             /\ Trident!bSource(Trident!rankAt(r.row, r.col, k), s) = Trident!rankAt(i, r.col, k)
  <2> DEFINE q == Trident!rankAt(r.row, r.col, k)
  <2>1. q.row = r.row /\ q.col = r.col /\ q.nodeRank = k
    BY <1>1, PlaceOf
  <2> HIDE DEF q
  <2>2. Trident!bSource(q, s) = Trident!rankAt(Trident!inner(q, s), q.col, q.nodeRank)
    BY DEF Trident!bSource
  <2>3. Trident!inner(q, s) = i
    BY <2>1 DEF Trident!inner
  <2>4. Trident!rankAt(i, r.col, k) \in Trident!Rank
    BY <1>1, <1>3, PlaceOf
  <2>5. QED
    BY <2>1, <2>2, <2>3, <2>4 DEF q
<1> HIDE DEF i
<1>6. /\ Trident!rankAt(r.row, i, r.nodeRank) \in Trident!Rank
      /\ Trident!rankAt(r.row, i, r.nodeRank).row = r.row
      /\ Trident!rankAt(r.row, i, r.nodeRank).col = i
      /\ Trident!rankAt(r.row, i, r.nodeRank).nodeRank = r.nodeRank
  BY <1>1, <1>3, PlaceOf
<1>7. QED
  BY <1>3, <1>4, <1>5, <1>6 DEF i

\* What a rank plans for a stage is how the slices of one node stack.
LEMMA StagePlan ==
  ASSUME Readable(b), HoldsTiles(b, localB), NEW r \in Trident!Rank, NEW s \in 0 .. Side - 1
  PROVE  /\ PlansStack(Trident!stageOf(r, s), NodeSlices(b, Trident!inner(r, s), r.col),
                       NodeSize, NodeRows(b.cols, r.col).rows)
         /\ [k \in 1 .. NodeSize |->
              localB[Trident!bSource(Trident!rankAt(r.row, r.col, k - 1), s)]]
              = NodeSlices(b, Trident!inner(r, s), r.col)
         /\ \A k \in 1 .. NodeSize :
              localB[Trident!PanelSources(r, s)[k]] = NodeSlices(b, Trident!inner(r, s), r.col)[k]
         /\ localB[r].cols = NodeRows(b.cols, r.col).rows
<1> DEFINE i == Trident!inner(r, s)
           slices == NodeSlices(b, i, r.col)
           sources == Trident!PanelSources(r, s)
           K == NodeSize
           rc == [k \in DOMAIN sources |-> localB[sources[k]].rows]
           nn == [k \in DOMAIN sources |-> Nnz(localB[sources[k]])]
<1>1. K \in Nat \ {0} /\ r.col \in 0 .. Side - 1
  BY PlaceIs
<1>2. /\ i \in 0 .. Side - 1
      /\ \A k \in 0 .. K - 1 :
              /\ Trident!rankAt(i, r.col, k) \in Trident!Rank
              /\ Trident!bSource(Trident!rankAt(r.row, r.col, k), s) = Trident!rankAt(i, r.col, k)
  BY InnerIs
<1>3. /\ sources = [k \in 1 .. K |-> Trident!rankAt(i, r.col, k - 1)]
      /\ slices = [k \in 1 .. K |-> Tile(b, Trident!rankAt(i, r.col, k - 1))]
  BY DEF Trident!PanelSources, NodeSlices
<1>4. ASSUME NEW k \in 1 .. K
      PROVE  /\ localB[sources[k]] = slices[k]
             /\ localB[Trident!bSource(Trident!rankAt(r.row, r.col, k - 1), s)] = slices[k]
  <2> DEFINE h == k - 1
  <2>1. h \in 0 .. K - 1
    BY <1>1
  <2>2. sources[k] = Trident!rankAt(i, r.col, h) /\ slices[k] = Tile(b, Trident!rankAt(i, r.col, h))
    BY <1>3
  <2> HIDE DEF h, i, sources, slices
  <2>3. localB[Trident!rankAt(i, r.col, h)] = Tile(b, Trident!rankAt(i, r.col, h))
    BY <1>2, <2>1 DEF HoldsTiles
  <2>4. Trident!bSource(Trident!rankAt(r.row, r.col, h), s) = Trident!rankAt(i, r.col, h)
    BY <1>2, <2>1
  <2>5. QED
    BY <2>2, <2>3, <2>4 DEF h
<1>5. localB[r].cols = NodeRows(b.cols, r.col).rows
  <2>1. localB[r] = Tile(b, r)
    BY DEF HoldsTiles
  <2>2. Tile(b, r).cols = Trident!matrixBlock(b.rows, b.cols, r).cols.rows
    BY TileIs
  <2>3. Trident!matrixBlock(b.rows, b.cols, r).cols = NodeRows(b.cols, r.col)
    <3>1. b.rows \in Nat /\ b.cols \in Nat
      BY ReadableIs
    <3>2. QED
      BY <3>1, MatrixBlockIs
  <2>4. QED
    BY <2>1, <2>2, <2>3
<1>6. DOMAIN sources = 1 .. K
  BY <1>3
<1>7. rc = RowCounts(slices, K) /\ nn = NnzCounts(slices, K)
  <2> HIDE DEF sources, slices, K
  <2>1. QED
    BY <1>4, <1>6 DEF RowCounts, NnzCounts
<1>8. Trident!stageOf(r, s)
        = [rowCounts  |-> rc,
           rowOffsets |-> Front(Offsets(rc)),
           nnzOffsets |-> Front(Offsets(nn)),
           panel      |-> [rows |-> Last(Offsets(rc)),
                           nnz  |-> Last(Offsets(nn)),
                           cols |-> localB[r].cols]]
  <2>1. Trident!stageOf(r, s)
        = [rowCounts  |-> rc,
           rowOffsets |-> Trident!Front(Trident!Offsets(rc)),
           nnzOffsets |-> Trident!Front(Trident!Offsets([k \in DOMAIN sources |-> Trident!Nnz(localB[sources[k]])])),
           panel      |-> [rows |-> Trident!Last(Trident!Offsets(rc)),
                           nnz  |-> Trident!Last(Trident!Offsets([k \in DOMAIN sources |-> Trident!Nnz(localB[sources[k]])])),
                           cols |-> localB[r].cols]]
    BY DEF Trident!stageOf
  <2>2. [k \in DOMAIN sources |-> Trident!Nnz(localB[sources[k]])] = nn
    BY TridentRows
  <2> HIDE DEF rc, nn
  <2>3. QED
    BY <2>1, <2>2, TridentSums
<1> HIDE DEF rc, nn, slices, sources
<1>9. PlansStack(Trident!stageOf(r, s), slices, K, NodeRows(b.cols, r.col).rows)
  BY <1>5, <1>7, <1>8 DEF PlansStack
<1>10. [k \in 1 .. K |-> localB[Trident!bSource(Trident!rankAt(r.row, r.col, k - 1), s)]] = slices
  BY <1>3, <1>4
<1>11. QED
  BY <1>4, <1>5, <1>9, <1>10 DEF slices, sources

\* The shape of a tile, from its place.
LEMMA TileShape ==
  ASSUME NEW m, Readable(m), NEW r \in Trident!Rank
  PROVE  /\ Readable(Tile(m, r))
         /\ Tile(m, r).rows = RankRows(m.rows, r.row, r.nodeRank).rows
         /\ Tile(m, r).cols = NodeRows(m.cols, r.col).rows
<1>1. m.rows \in Nat /\ m.cols \in Nat
  BY ReadableIs
<1>2. LET block == Trident!matrixBlock(m.rows, m.cols, r)
      IN /\ Readable(Tile(m, r))
         /\ Tile(m, r).rows = block.rows.rows
         /\ Tile(m, r).cols = block.cols.rows
  BY TileIs
<1>3. LET block == Trident!matrixBlock(m.rows, m.cols, r)
      IN /\ block.rows.rows = RankRows(m.rows, r.row, r.nodeRank).rows
         /\ block.cols = NodeRows(m.cols, r.col)
  BY <1>1, MatrixBlockIs
<1>4. QED
  BY <1>2, <1>3

\* What preparePlan checks holds for the tiles of matrices that can be
\* multiplied.
LEMMA PlannableIs ==
  ASSUME Multipliable(a, b), b.rows <= MaxDimension,
         HoldsTiles(a, localA), HoldsTiles(b, localB),
         NEW r \in Trident!Rank, NEW s \in 0 .. Side - 1
  PROVE  Trident!plannable(r, s)
<1> DEFINE i == Trident!inner(r, s)
           slices == NodeSlices(b, i, r.col)
           K == NodeSize
           st == Trident!stageOf(r, s)
           w == NodeRows(b.cols, r.col).rows
           q == Trident!aSource(r, s)
<1>1. Readable(a) /\ Readable(b) /\ a.cols = b.rows
  BY DEF Multipliable, Readable
<1>2. a.rows \in Nat /\ a.cols \in Nat /\ b.rows \in Nat /\ b.cols \in Nat
  BY <1>1, ReadableIs
<1>3. /\ i \in 0 .. Side - 1 /\ q \in Trident!Rank
      /\ q.row = r.row /\ q.col = i /\ q.nodeRank = r.nodeRank
      /\ r.col \in 0 .. Side - 1
  BY InnerIs, PlaceIs
<1>4. /\ PlansStack(st, slices, K, w)
      /\ \A k \in 1 .. K : localB[Trident!PanelSources(r, s)[k]] = slices[k]
  BY <1>1, StagePlan
<1>5. IsStack(slices, K, w) /\ K \in Nat
  BY <1>1, <1>3, NodeSlicesAre
<1>6. /\ Tile(a, q).rows = RankRows(a.rows, q.row, q.nodeRank).rows
      /\ Tile(a, q).cols = NodeRows(a.cols, q.col).rows
      /\ Tile(a, r).rows = RankRows(a.rows, r.row, r.nodeRank).rows
  BY <1>1, <1>3, TileShape
<1>7. localA[q] = Tile(a, q) /\ localA[r] = Tile(a, r)
  BY <1>3 DEF HoldsTiles
<1>8. st.panel.rows = NodeRows(b.rows, i).rows
  <2> HIDE DEF i, slices, K, st, w
  <2>1. RowCounts(slices, K) \in Seq(Nat) /\ Len(RowCounts(slices, K)) = K
    BY <1>5, StackIs
  <2>2. PICK f : /\ IsSum(f, RowCounts(slices, K))
                 /\ Last(Offsets(RowCounts(slices, K))) = f[Len(RowCounts(slices, K))]
    BY <2>1, OffsetsAddUp
  <2>3. f[K] = NodeRows(b.rows, i).rows
    BY <1>1, <1>3, <2>2, SlicesAddUp DEF slices, K
  <2>4. st.panel.rows = Last(Offsets(RowCounts(slices, K)))
    BY <1>4 DEF PlansStack
  <2>5. QED
    BY <2>1, <2>2, <2>3, <2>4
<1>9. NodeRows(b.rows, i).rows <= MaxDimension
  <2> HIDE DEF i
  <2>1. Side \in Nat \ {0} /\ MaxDimension \in Nat /\ i \in 0 .. Side - 1
    BY <1>3, SidesAssumption, DimensionAssumption
  <2>2. /\ \A k \in 0 .. Side : Start(b.rows, Side, k) \in 0 .. b.rows
        /\ \A k \in 0 .. Side - 1 :
              /\ partitionRows(b.rows, Side)[k].rows \in Nat
              /\ Start(b.rows, Side, k + 1) = Start(b.rows, Side, k) + partitionRows(b.rows, Side)[k].rows
    BY <1>2, <2>1, PartitionIs
  <2>3. /\ Start(b.rows, Side, i) \in 0 .. b.rows /\ Start(b.rows, Side, i + 1) \in 0 .. b.rows
        /\ NodeRows(b.rows, i).rows \in Nat
        /\ Start(b.rows, Side, i + 1) = Start(b.rows, Side, i) + NodeRows(b.rows, i).rows
    BY <2>1, <2>2 DEF NodeRows
  <2>4. QED
    BY <1>2, <2>1, <2>3
<1>10. \A k \in 1 .. K : localB[Trident!PanelSources(r, s)[k]].cols = w
  BY <1>4, <1>5 DEF IsStack
<1>11. st.panel.cols = w
  BY <1>4 DEF PlansStack
<1>12. localA[q].rows = localA[r].rows /\ localA[q].cols = NodeRows(b.rows, i).rows
  BY <1>1, <1>3, <1>6, <1>7
<1> HIDE DEF i, slices, w
<1>13. QED
  BY <1>8, <1>9, <1>10, <1>11, <1>12 DEF Trident!plannable, st, q, K

-----------------------------------------------------------------------------
(* Stages                                                                  *)

\* Where the rows of a tile begin.
FirstRow(rows, r) ==
  NodeRows(rows, r.row).firstRow + RankRows(rows, r.row, r.nodeRank).firstRow

\* The rows of a tile are parts of rows of the matrix.
LEMMA TileRows ==
  ASSUME NEW m, Readable(m), NEW r \in Trident!Rank
  PROVE  /\ FirstRow(m.rows, r) \in Nat
         /\ \A k \in 0 .. Tile(m, r).rows - 1 :
              /\ FirstRow(m.rows, r) + k \in 0 .. m.rows - 1
              /\ Row(Tile(m, r), k) = SliceRow(Row(m, FirstRow(m.rows, r) + k), NodeRows(m.cols, r.col))
         /\ FirstRow(m.rows, r) + Tile(m, r).rows <= m.rows
<1>1. m.rows \in Nat /\ m.cols \in Nat
  BY ReadableIs
<1> DEFINE block == Trident!matrixBlock(m.rows, m.cols, r)
<1>2. /\ Tile(m, r).rows = block.rows.rows
      /\ \A k \in 0 .. block.rows.rows - 1 :
           /\ block.rows.firstRow + k \in 0 .. m.rows - 1
           /\ Row(Tile(m, r), k) = SliceRow(Row(m, block.rows.firstRow + k), block.cols)
  BY TileIs
<1>3. /\ IsBlock(block.rows)
      /\ block.rows.firstRow + block.rows.rows <= m.rows
      /\ block.rows.firstRow
           = NodeRows(m.rows, r.row).firstRow + RankRows(m.rows, r.row, r.nodeRank).firstRow
      /\ block.cols = NodeRows(m.cols, r.col)
  BY <1>1, MatrixBlockIs
<1>4. FirstRow(m.rows, r) = block.rows.firstRow /\ block.rows.firstRow \in Nat
  BY <1>3 DEF FirstRow, IsBlock
<1> HIDE DEF block
<1>5. QED
  BY <1>2, <1>3, <1>4

\* The summands of a value of the product.
ValueTerms(x, y, row, column) ==
  [h \in 1 .. y.rows |-> ValueAt(x, row, h - 1) * ValueAt(y, h - 1, column)]

\* The values of a valid matrix are integers.
LEMMA ValuesAre ==
  ASSUME NEW m, Readable(m), NEW row \in 0 .. m.rows - 1, NEW column
  PROVE  ValueAt(m, row, column) \in Int
<1>1. Row(m, row) \in Seq(Entry)
  BY ReadableIs
<1>2. QED
  BY <1>1, ColumnSumInt DEF ValueAt

\* A coordinate of the product is a sum of terms.
LEMMA TermsOfProduct ==
  ASSUME NEW x, NEW y, Multipliable(x, y), NEW row \in 0 .. x.rows - 1, NEW column
  PROVE  /\ y.rows \in Nat /\ Ints(ValueTerms(x, y, row, column), y.rows)
         /\ SumOf([j \in 1 .. y.rows |-> ValueAt(x, row, j - 1) * ValueAt(y, j - 1, column)])
              = SumUp(ValueTerms(x, y, row, column), y.rows)
<1> DEFINE t == ValueTerms(x, y, row, column)
<1>1. Readable(x) /\ Readable(y) /\ y.rows \in Nat
  BY MultipliableIs DEF Multipliable, Readable
<1>2. \A h \in 1 .. y.rows : t[h] = ValueAt(x, row, h - 1) * ValueAt(y, h - 1, column)
  BY DEF ValueTerms
<1>3. ASSUME NEW h \in 1 .. y.rows PROVE t[h] \in Int
  <2> DEFINE g == h - 1
  <2>1. g \in 0 .. y.rows - 1
    BY <1>1
  <2>2. t[h] = ValueAt(x, row, g) * ValueAt(y, g, column)
    BY <1>2
  <2> HIDE DEF t, g
  <2>3. ValueAt(x, row, g) \in Int /\ ValueAt(y, g, column) \in Int
    BY <1>1, <2>1, ValuesAre
  <2>4. QED
    BY <2>2, <2>3
<1>4. t = [j \in 1 .. y.rows |-> t[j]]
  BY DEF ValueTerms
<1>5. SumOf([j \in 1 .. y.rows |-> ValueAt(x, row, j - 1) * ValueAt(y, j - 1, column)])
        = SumUp(t, y.rows)
  BY <1>4 DEF SumUp, ValueTerms
<1>6. QED
  BY <1>1, <1>2, <1>3, <1>5 DEF Ints

\* What a stage adds to a value: the summands its inner block stands for.
Gain(x, y, row, column, i) ==
  SumUp(ValueTerms(x, y, row, column), Start(y.rows, Side, i + 1))
    - SumUp(ValueTerms(x, y, row, column), Start(y.rows, Side, i))

\* A stage multiplies an inner block of A by that block of B.
LEMMA StageFits ==
  ASSUME NEW x, NEW y, Multipliable(x, y), NEW q \in Trident!Rank, NEW j \in 0 .. Side - 1,
         NEW p, IsPanel(p, y, q.col, j)
  PROVE  Multipliable(Tile(x, q), p) /\ p.cols = NodeRows(y.cols, j).rows /\ p.cols \in Nat
<1>1. Readable(x) /\ x.cols = y.rows
  BY DEF Multipliable, Readable
<1>2. Readable(Tile(x, q)) /\ Tile(x, q).cols = NodeRows(x.cols, q.col).rows
  BY <1>1, TileShape
<1>3. /\ Readable(p) /\ p.rows = NodeRows(y.rows, q.col).rows
      /\ p.cols = NodeRows(y.cols, j).rows
  BY DEF IsPanel
<1>4. p.cols \in Nat
  BY <1>3, ReadableIs
<1>5. QED
  BY <1>1, <1>2, <1>3, <1>4 DEF Multipliable, Readable

\* What a stage adds to a coordinate: the terms of its inner block.
LEMMA StageSum ==
  ASSUME NEW x, NEW y, Multipliable(x, y), NEW q \in Trident!Rank, NEW j \in 0 .. Side - 1,
         NEW p, IsPanel(p, y, q.col, j), NEW k \in 0 .. Tile(x, q).rows - 1,
         NEW c \in 0 .. NodeRows(y.cols, j).rows - 1
  PROVE  ColumnSum(ProductsIn(Tile(x, q), p, k), c)
           = Gain(x, y, FirstRow(x.rows, q) + k, NodeRows(y.cols, j).firstRow + c, q.col)
<1> DEFINE t == Tile(x, q)
           row == FirstRow(x.rows, q) + k
           column == NodeRows(y.cols, j).firstRow + c
           i == q.col
           n == y.rows
           u == [h \in 1 .. p.rows |-> ValueAt(t, k, h - 1) * ValueAt(p, h - 1, c)]
           first == Start(n, Side, i)
<1>1. /\ Readable(x) /\ Readable(y) /\ x.cols = n /\ n \in Nat
      /\ x.rows \in Nat /\ y.cols \in Nat
  BY MultipliableIs DEF Multipliable, Readable
<1>2. Multipliable(t, p) /\ p.cols = NodeRows(y.cols, j).rows
  BY StageFits
<1>3. Side \in Nat \ {0} /\ i \in 0 .. Side - 1
  BY PlaceIs
<1>4. ColumnSum(ProductsIn(t, p, k), c) = SumUp(u, p.rows)
  <2>1. ColumnSum(ProductsIn(t, p, k), c)
          = SumOf([h \in 1 .. p.rows |-> ValueAt(t, k, h - 1) * ValueAt(p, h - 1, c)])
    <3> HIDE DEF t
    <3>1. k \in 0 .. t.rows - 1
      BY DEF t
    <3>2. QED
      BY <1>2, <3>1, ProductValue
  <2>2. u = [h \in 1 .. p.rows |-> u[h]]
    OBVIOUS
  <2>3. QED
    BY <2>1, <2>2 DEF SumUp
<1>5. row \in 0 .. x.rows - 1 /\ Row(t, k) = SliceRow(Row(x, row), NodeRows(x.cols, i))
  BY <1>1, TileRows
<1>6. /\ p.rows = NodeRows(n, i).rows
      /\ \A h \in 0 .. p.rows - 1 :
           /\ NodeRows(n, i).firstRow + h \in 0 .. n - 1
           /\ Row(p, h) = SliceRow(Row(y, NodeRows(n, i).firstRow + h), NodeRows(y.cols, j))
  BY DEF IsPanel
<1>7. /\ NodeRows(n, i).firstRow = first /\ NodeRows(n, i).rows \in Nat
      /\ Start(n, Side, i + 1) = first + NodeRows(n, i).rows
      /\ first \in 0 .. n /\ Start(n, Side, i + 1) \in 0 .. n
  <2> HIDE DEF i, n
  <2>1. /\ \A z \in 0 .. Side : Start(n, Side, z) \in 0 .. n
        /\ \A z \in 0 .. Side - 1 :
              /\ partitionRows(n, Side)[z].firstRow = Start(n, Side, z)
              /\ partitionRows(n, Side)[z].rows \in Nat
              /\ Start(n, Side, z + 1) = Start(n, Side, z) + partitionRows(n, Side)[z].rows
    BY <1>1, <1>3, PartitionIs
  <2>2. i \in 0 .. Side /\ i + 1 \in 0 .. Side
    BY <1>3
  <2>3. QED
    BY <1>3, <2>1, <2>2 DEF NodeRows
<1>8. IsBlock(NodeRows(n, i)) /\ IsBlock(NodeRows(y.cols, j))
  BY <1>1, <1>3, NodeSlicesAre
<1>9. Ints(ValueTerms(x, y, row, column), n)
  <2> HIDE DEF row, column
  <2>1. row \in 0 .. x.rows - 1
    BY <1>5
  <2>2. QED
    BY <2>1, TermsOfProduct
<1>10. ASSUME NEW h \in 1 .. p.rows PROVE u[h] = ValueTerms(x, y, row, column)[first + h]
  <2> DEFINE g == h - 1
             e == first + g
             z == first + h
  <2>1. g \in 0 .. p.rows - 1 /\ g \in 0 .. NodeRows(n, i).rows - 1
    BY <1>6, <1>7
  <2>2. u[h] = ValueAt(t, k, g) * ValueAt(p, g, c)
    OBVIOUS
  <2>3. z \in 1 .. n /\ z - 1 = e /\ e \in 0 .. n - 1
    <3> HIDE DEF first, n, i
    <3>1. h \in 1 .. NodeRows(n, i).rows
      BY <1>6
    <3>2. QED
      BY <1>1, <1>7, <3>1
  <2> HIDE DEF t, row, column, i, n, u, first, g
  <2>4. ValueAt(t, k, g) = ValueAt(x, row, e)
    <3>1. Row(x, row) \in Seq(Entry)
      BY <1>1, <1>5, ReadableIs
    <3>2. ColumnSum(SliceRow(Row(x, row), NodeRows(n, i)), g) = ColumnSum(Row(x, row), NodeRows(n, i).firstRow + g)
      BY <1>8, <2>1, <3>1, SliceRowIs
    <3>3. Row(t, k) = SliceRow(Row(x, row), NodeRows(n, i))
      BY <1>1, <1>5
    <3>4. QED
      BY <1>7, <3>2, <3>3 DEF ValueAt
  <2>5. ValueAt(p, g, c) = ValueAt(y, e, column)
    <3>1. e \in 0 .. n - 1 /\ Row(p, g) = SliceRow(Row(y, e), NodeRows(y.cols, j))
      BY <1>6, <1>7, <2>1
    <3> HIDE DEF e
    <3>2. Row(y, e) \in Seq(Entry)
      BY <1>1, <3>1, ReadableIs DEF n
    <3>3. ColumnSum(SliceRow(Row(y, e), NodeRows(y.cols, j)), c)
            = ColumnSum(Row(y, e), NodeRows(y.cols, j).firstRow + c)
      BY <1>8, <3>2, SliceRowIs
    <3>4. QED
      BY <3>1, <3>3 DEF ValueAt, column
  <2> HIDE DEF z, e
  <2>6. ValueTerms(x, y, row, column)[z] = ValueAt(x, row, e) * ValueAt(y, e, column)
    <3>1. ValueTerms(x, y, row, column)[z] = ValueAt(x, row, z - 1) * ValueAt(y, z - 1, column)
      BY <2>3 DEF ValueTerms, n
    <3>2. QED
      BY <2>3, <3>1
  <2>7. u[h] = ValueTerms(x, y, row, column)[z]
    BY <2>2, <2>4, <2>5, <2>6
  <2>8. QED
    BY <2>7 DEF z
<1>11. SumUp(u, p.rows) = SumUp(ValueTerms(x, y, row, column), Start(n, Side, i + 1))
                           - SumUp(ValueTerms(x, y, row, column), first)
  <2>1. Stretch(u, p.rows, ValueTerms(x, y, row, column), first)
    BY <1>10 DEF Stretch
  <2> HIDE DEF row, column, i, n, u, first
  <2>2. first \in Nat /\ p.rows \in Nat /\ Start(n, Side, i + 1) = first + p.rows
    BY <1>1, <1>6, <1>7
  <2>3. QED
    BY <1>1, <1>7, <1>9, <2>1, <2>2, SumSegment
<1>12. QED
  BY <1>4, <1>11 DEF Gain

-----------------------------------------------------------------------------
(* The rounds of a rank                                                    *)

\* A remainder, from the number it is congruent to.
LEMMA RemainderFrom ==
  ASSUME NEW n \in Nat \ {0}, NEW k \in Int, NEW c \in 0 .. n - 1, NEW v \in Nat, v = k * n + c
  PROVE  v % n = c
<1> DEFINE d == v \div n
           m == v % n
<1>1. d \in Nat /\ m \in 0 .. n - 1 /\ v = d * n + m
  BY DigitsOf
<1> HIDE DEF d, m
<1>2. d \in Int /\ d * n + m = k * n + c
  BY <1>1
<1>3. m = c
  <2>1. m \in 0 .. n - 1
    BY <1>1
  <2>2. d = k /\ m = c
    BY <1>2, <2>1, OneWayToWrite
  <2>3. QED
    BY <2>2
<1>4. QED
  BY <1>3 DEF m

\* Numbers closer than the divisor have different remainders.
LEMMA RemaindersDiffer ==
  ASSUME NEW n \in Nat \ {0}, NEW x \in Nat, NEW s \in 0 .. n - 1, NEW t \in 0 .. n - 1,
         (x + s) % n = (x + t) % n
  PROVE  s = t
<1> DEFINE d == (x + s) \div n
           e == (x + t) \div n
           m == (x + s) % n
<1>1. d \in Nat /\ m \in 0 .. n - 1 /\ x + s = d * n + m
  <2>1. x + s \in Nat
    OBVIOUS
  <2> HIDE DEF d, m
  <2>2. QED
    BY <2>1, DigitsOf DEF d, m
<1>2. e \in Nat /\ x + t = e * n + m
  <2>1. x + t \in Nat
    OBVIOUS
  <2>2. x + t = e * n + ((x + t) % n) /\ e \in Nat
    BY <2>1, DigitsOf
  <2>3. QED
    BY <2>2
<1> HIDE DEF d, e, m
<1> DEFINE g == d - e
<1>3. g \in Int
  BY <1>1, <1>2
<1>4. 0 * n + s = g * n + t
  <2>1. g * n = d * n - e * n
    BY <1>1, <1>2
  <2> HIDE DEF g
  <2> DEFINE dn == d * n
             en == e * n
             gn == g * n
  <2>2. dn \in Int /\ en \in Int
    BY <1>1, <1>2
  <2>3. x + s = dn + m /\ x + t = en + m /\ gn = dn - en /\ m \in Int
    BY <1>1, <1>2, <2>1
  <2> HIDE DEF dn, en, gn
  <2>4. s = gn + t
    BY <2>2, <2>3
  <2>5. 0 * n + s = s
    OBVIOUS
  <2>6. QED
    BY <2>4, <2>5 DEF gn
<1> HIDE DEF g
<1>5. QED
  BY <1>3, <1>4, OneWayToWrite

\* Every remainder is taken among as many numbers in a row.
LEMMA RemainderTaken ==
  ASSUME NEW n \in Nat \ {0}, NEW x \in Nat, NEW c \in 0 .. n - 1
  PROVE  \E s \in 0 .. n - 1 : (x + s) % n = c
<1> DEFINE d == x \div n
           m == x % n
<1>1. d \in Nat /\ m \in 0 .. n - 1 /\ x = d * n + m
  BY DigitsOf
<1> HIDE DEF d, m
<1>2. CASE m <= c
  <2> DEFINE s == c - m
             v == x + s
  <2>1. s \in 0 .. n - 1 /\ v \in Nat
    BY <1>1, <1>2
  <2>2. v = d * n + c
    <3> DEFINE dn == d * n
    <3>1. dn \in Int
      BY <1>1
    <3>2. x = dn + m
      BY <1>1
    <3> HIDE DEF dn
    <3>3. v = dn + c
      BY <1>1, <3>1, <3>2
    <3>4. QED
      BY <3>3 DEF dn
  <2> HIDE DEF v
  <2>3. v % n = c
    BY <1>1, <2>1, <2>2, RemainderFrom
  <2>4. QED
    BY <2>1, <2>3 DEF v
<1>3. CASE c < m
  <2> DEFINE s == c - m + n
             v == x + s
             e == d + 1
  <2>1. s \in 0 .. n - 1 /\ v \in Nat /\ e \in Int
    BY <1>1, <1>3
  <2>2. v = e * n + c
    <3> DEFINE dn == d * n
    <3>1. dn \in Int /\ e * n = dn + n
      BY <1>1
    <3>2. x = dn + m
      BY <1>1
    <3> HIDE DEF dn, e
    <3>3. v = dn + n + c
      BY <1>1, <3>1, <3>2
    <3>4. QED
      BY <3>1, <3>3
  <2> HIDE DEF v, e
  <2>3. v % n = c
    BY <2>1, <2>2, RemainderFrom
  <2>4. QED
    BY <2>1, <2>3 DEF v
<1>4. QED
  BY <1>1, <1>2, <1>3

\* The inner block of each stage, from 1.
InnerOf(r) == [s \in 1 .. Side |-> Trident!inner(r, s - 1) + 1]

\* Over its stages a rank meets every inner block once.
LEMMA InnerOnce ==
  ASSUME NEW r \in Trident!Rank
  PROVE  Side \in Nat \ {0} /\ OneToOne(InnerOf(r), Side, Side)
<1> DEFINE x == r.row + r.col
           n == Side
           f == InnerOf(r)
<1>1. Side \in Nat \ {0} /\ x \in Nat
  BY PlaceIs
<1>2. ASSUME NEW s \in 1 .. n PROVE f[s] = ((x + (s - 1)) % n) + 1
  BY DEF InnerOf, Trident!inner
<1> HIDE DEF f, x
<1>3. ASSUME NEW i \in 1 .. n PROVE f[i] \in 1 .. n
  <2> DEFINE v == x + (i - 1)
             m == v % n
  <2>1. v \in Nat
    BY <1>1
  <2> HIDE DEF v
  <2>2. m \in 0 .. n - 1
    BY <1>1, <2>1, DigitsOf
  <2>3. f[i] = m + 1
    BY <1>2 DEF v
  <2> HIDE DEF m
  <2>4. QED
    BY <1>1, <2>2, <2>3
<1>4. ASSUME NEW j \in 1 .. n
      PROVE  \E i \in 1 .. n : f[i] = j /\ \A h \in 1 .. n : f[h] = j => h = i
  <2> DEFINE c == j - 1
  <2>1. c \in 0 .. n - 1
    BY <1>1
  <2> HIDE DEF c
  <2>2. PICK s \in 0 .. n - 1 : (x + s) % n = c
    BY <1>1, <2>1, RemainderTaken
  <2> DEFINE i == s + 1
  <2>3. i \in 1 .. n /\ i - 1 = s
    BY <1>1
  <2> HIDE DEF i
  <2>4. f[i] = j
    <3>1. f[i] = ((x + s) % n) + 1
      BY <1>2, <2>3
    <3>2. QED
      BY <1>1, <2>2, <3>1 DEF c
  <2>5. ASSUME NEW h \in 1 .. n, f[h] = j PROVE h = i
    <3> DEFINE t == h - 1
               m == (x + t) % n
    <3>1. t \in 0 .. n - 1 /\ x + t \in Nat
      BY <1>1
    <3>2. f[h] = m + 1
      BY <1>2
    <3> HIDE DEF t
    <3>3. m \in 0 .. n - 1
      BY <1>1, <3>1, DigitsOf
    <3>4. m = c
      <4> HIDE DEF m
      <4>1. QED
        BY <1>1, <2>5, <3>2, <3>3 DEF c
    <3>5. t = s
      BY <1>1, <2>2, <3>1, <3>4, RemaindersDiffer
    <3>6. h = s + 1
      BY <1>1, <3>5 DEF t
    <3>7. QED
      BY <3>6 DEF i
  <2>6. QED
    BY <2>3, <2>4, <2>5
<1>5. OneToOne(f, n, n)
  BY <1>3, <1>4 DEF OneToOne
<1>6. QED
  BY <1>1, <1>5 DEF f

\* What the stages add to a value of a rank, one after the other.
Gains(x, y, row, column, r) ==
  [s \in 1 .. Side |-> Gain(x, y, row, column, Trident!inner(r, s - 1))]

\* Over all stages they add up to the value.
LEMMA GainsAddUp ==
  ASSUME NEW x, NEW y, Multipliable(x, y), NEW row \in 0 .. x.rows - 1, NEW column,
         NEW r \in Trident!Rank
  PROVE  /\ Ints(Gains(x, y, row, column, r), Side) /\ Side \in Nat
         /\ SumUp(Gains(x, y, row, column, r), Side) = SumUp(ValueTerms(x, y, row, column), y.rows)
<1> DEFINE T == ValueTerms(x, y, row, column)
           n == y.rows
           P == [k \in 0 .. Side |-> SumUp(T, Start(n, Side, k))]
           D == [k \in 1 .. Side |-> P[k] - P[k - 1]]
           f == InnerOf(r)
           G == Gains(x, y, row, column, r)
<1>1. Side \in Nat \ {0} /\ OneToOne(f, Side, Side) /\ Side \in Nat
  BY InnerOnce
<1>2. n \in Nat /\ Ints(T, n)
  BY TermsOfProduct
<1>3. /\ Start(n, Side, 0) = 0 /\ Start(n, Side, Side) = n
      /\ \A k \in 0 .. Side : Start(n, Side, k) \in 0 .. n
  BY <1>1, <1>2, PartitionIs
<1>4. SumUp(T, 0) = 0 /\ \A k \in 0 .. n : SumUp(T, k) \in Int
  BY <1>2, SumRec
<1>5. \A k \in 0 .. Side : P[k] \in Int
  BY <1>3, <1>4
<1>6. P[0] = 0 /\ P[Side] = SumUp(T, n)
  BY <1>1, <1>3, <1>4
<1>7. \A k \in 1 .. Side : D[k] = P[k] - P[k - 1]
  OBVIOUS
<1>8. Ints(D, Side)
  <2>1. ASSUME NEW k \in 1 .. Side PROVE D[k] \in Int
    <3> DEFINE h == k - 1
    <3>1. h \in 0 .. Side /\ k \in 0 .. Side
      BY <1>1
    <3>2. D[k] = P[k] - P[h]
      OBVIOUS
    <3> HIDE DEF D, P, h
    <3>3. QED
      BY <1>5, <3>1, <3>2
  <2>2. QED
    BY <2>1 DEF Ints
<1>9. SumUp(D, Side) = P[Side] - P[0]
  <2> HIDE DEF D, P
  <2>1. QED
    BY <1>1, <1>5, <1>7, Telescope
<1>10. ASSUME NEW s \in 1 .. Side PROVE G[s] = D[f[s]]
  <2> DEFINE z == s - 1
             i == Trident!inner(r, z)
             k == i + 1
  <2>1. z \in 0 .. Side - 1
    BY <1>1
  <2>2. G[s] = Gain(x, y, row, column, i)
    BY DEF Gains
  <2>3. f[s] = k
    BY DEF InnerOf
  <2> HIDE DEF z
  <2>4. i \in 0 .. Side - 1
    BY <2>1, InnerIs
  <2> HIDE DEF i
  <2>5. k \in 1 .. Side /\ k \in 0 .. Side /\ k - 1 = i /\ i \in 0 .. Side
    BY <1>1, <2>4
  <2>6. Gain(x, y, row, column, i) = P[k] - P[i]
    BY <2>5 DEF Gain
  <2> HIDE DEF G, f, k, P
  <2>7. D[k] = P[k] - P[i]
    BY <1>7, <2>5
  <2>8. QED
    BY <2>2, <2>3, <2>6, <2>7
<1>11. SumUp(G, Side) = SumUp(D, Side)
  <2> HIDE DEF D, f, G
  <2>1. SumUp([s \in 1 .. Side |-> D[f[s]]], Side) = SumUp(D, Side)
    BY <1>1, <1>8, SumPermuted
  <2>2. SumUp(G, Side) = SumUp([s \in 1 .. Side |-> D[f[s]]], Side)
    <3> DEFINE E == [s \in 1 .. Side |-> D[f[s]]]
    <3>1. \A s \in 1 .. Side : G[s] = E[s]
      BY <1>10
    <3> HIDE DEF E
    <3>2. SumUp(G, Side) = SumUp(E, Side)
      BY <3>1, SumSame
    <3>3. QED
      BY <3>2 DEF E
  <2>3. QED
    BY <2>1, <2>2
<1>12. Ints(G, Side)
  <2> HIDE DEF D, f, G
  <2>1. \A s \in 1 .. Side : f[s] \in 1 .. Side
    BY <1>1 DEF OneToOne
  <2>2. QED
    BY <1>8, <1>10, <2>1 DEF Ints
<1>13. QED
  <2>1. SumUp(T, n) \in Int
    BY <1>2, <1>4
  <2> HIDE DEF P, D, T, G
  <2>2. SumUp(G, Side) = SumUp(T, n)
    BY <1>6, <1>9, <1>11, <2>1
  <2>3. QED
    BY <1>1, <1>12, <2>2 DEF G, T, n

-----------------------------------------------------------------------------
(* What a rank adds up                                                     *)

\* The column of the product a column of a rank's tile stands for.
ColumnAt(y, r, c) == NodeRows(y.cols, r.col).firstRow + c

\* What a row of the accumulator holds after some stages.
Added(entries, x, y, r, k, n) ==
  /\ entries \in Seq(EntryBelow(NodeRows(y.cols, r.col).rows))
  /\ \A c \in 0 .. NodeRows(y.cols, r.col).rows - 1 :
       ColumnSum(entries, c)
         = SumUp(Gains(x, y, FirstRow(x.rows, r) + (k - 1), ColumnAt(y, r, c), r), n)

ListOf(s, N) == s = [k \in 1 .. N |-> s[k]]

Accumulates(acc, x, y, r, n) ==
  /\ ListOf(acc, Tile(x, r).rows)
  /\ \A k \in 1 .. Tile(x, r).rows : Added(acc[k], x, y, r, k, n)

Extends(longer, acc, t, p, N) ==
  \A k \in 1 .. N : longer[k] = acc[k] \o ProductsIn(t, p, k - 1)

\* addProduct adds a row's products behind those before.
LEMMA AddProductIs ==
  ASSUME NEW acc, NEW N, ListOf(acc, N), NEW t, NEW p
  PROVE  /\ ListOf(Trident!addProduct(acc, t, p), N)
         /\ Extends(Trident!addProduct(acc, t, p), acc, t, p, N)
<1>1. DOMAIN acc = 1 .. N
  BY DEF ListOf
<1>2. Trident!addProduct(acc, t, p) = [k \in 1 .. N |-> acc[k] \o ProductsIn(t, p, k - 1)]
  BY <1>1, TridentSums, TridentRows
  DEF Trident!addProduct, Trident!scalarProducts, scalarProducts, ProductsIn
<1>3. QED
  BY <1>2 DEF ListOf, Extends

\* Before any stage nothing has been added.
LEMMA AddedNone ==
  ASSUME NEW x, NEW y, Multipliable(x, y), NEW r \in Trident!Rank, NEW k \in 1 .. Tile(x, r).rows
  PROVE  Added(<<>>, x, y, r, k, 0)
<1> DEFINE w == NodeRows(y.cols, r.col).rows
<1>1. Readable(x) /\ x.rows \in Nat
  BY MultipliableIs DEF Multipliable, Readable
<1> DEFINE g == k - 1
           row == FirstRow(x.rows, r) + g
<1>2. row \in 0 .. x.rows - 1
  <2>1. Tile(x, r).rows \in Nat
    BY <1>1, TileShape, ReadableIs
  <2>2. g \in 0 .. Tile(x, r).rows - 1
    BY <2>1
  <2> HIDE DEF g
  <2>3. QED
    BY <1>1, <2>2, TileRows
<1>3. ASSUME NEW c \in 0 .. w - 1
      PROVE  ColumnSum(<<>>, c) = SumUp(Gains(x, y, row, ColumnAt(y, r, c), r), 0)
  <2> HIDE DEF row
  <2> DEFINE column == ColumnAt(y, r, c)
  <2> HIDE DEF column
  <2>1. Ints(Gains(x, y, row, column, r), Side) /\ Side \in Nat
    BY <1>2, GainsAddUp
  <2>2. SumUp(Gains(x, y, row, column, r), 0) = 0
    BY <2>1, SumRec
  <2>3. <<>> \in Seq(Entry) /\ DOMAIN <<>> = {}
    OBVIOUS
  <2>4. ColumnSum(<<>>, c) = 0
    BY <2>3, ColumnSumOfNone
  <2>5. QED
    BY <2>2, <2>4 DEF column
<1>4. <<>> \in Seq(EntryBelow(w))
  OBVIOUS
<1>5. QED
  BY <1>3, <1>4 DEF Added

\* A stage adds its gain to every coordinate of a row.
LEMMA AddedMore ==
  ASSUME NEW x, NEW y, Multipliable(x, y), NEW r \in Trident!Rank, NEW k \in 1 .. Tile(x, r).rows,
         NEW n \in 0 .. Side - 1, NEW entries, Added(entries, x, y, r, k, n),
         NEW p, IsPanel(p, y, Trident!inner(r, n), r.col)
  PROVE  Added(entries \o ProductsIn(Tile(x, Trident!aSource(r, n)), p, k - 1), x, y, r, k, n + 1)
<1> DEFINE w == NodeRows(y.cols, r.col).rows
           g == k - 1
           row == FirstRow(x.rows, r) + g
           q == Trident!aSource(r, n)
           i == Trident!inner(r, n)
           more == ProductsIn(Tile(x, q), p, g)
           z == n + 1
<1>1. /\ Readable(x) /\ x.rows \in Nat
  BY MultipliableIs DEF Multipliable, Readable
<1>2. /\ q \in Trident!Rank /\ q.row = r.row /\ q.col = i /\ q.nodeRank = r.nodeRank
      /\ r.col \in 0 .. Side - 1 /\ Side \in Nat \ {0}
  BY InnerIs, PlaceIs
<1> HIDE DEF q, i
<1>3. /\ Tile(x, r).rows = Tile(x, q).rows /\ Tile(x, r).rows \in Nat
      /\ FirstRow(x.rows, q) = FirstRow(x.rows, r)
  <2>1. Tile(x, r).rows = RankRows(x.rows, r.row, r.nodeRank).rows /\ Readable(Tile(x, r))
    BY <1>1, TileShape
  <2>2. Tile(x, q).rows = RankRows(x.rows, q.row, q.nodeRank).rows
    BY <1>1, <1>2, TileShape
  <2>3. Tile(x, r).rows \in Nat
    BY <2>1, ReadableIs
  <2>4. QED
    BY <1>2, <2>1, <2>2, <2>3 DEF FirstRow
<1>4. g \in 0 .. Tile(x, r).rows - 1
  BY <1>3
<1>5. z \in 1 .. Side /\ z - 1 = n
  BY <1>2
<1> HIDE DEF g
<1>6. row \in 0 .. x.rows - 1
  BY <1>1, <1>4, TileRows
<1>7. IsPanel(p, y, q.col, r.col)
  BY <1>2 DEF i
<1>8. Multipliable(Tile(x, q), p) /\ p.cols = w
  BY <1>2, <1>7, StageFits
<1>9. more \in Seq(EntryBelow(w)) /\ more \in Seq(Entry)
  <2>1. more \in Seq(EntryBelow(p.cols))
    BY <1>3, <1>4, <1>8, ProductsInType
  <2>2. p.cols \in Int
    BY <1>2, <1>7, StageFits
  <2>3. QED
    BY <1>8, <2>1, <2>2, BelowIsEntry
<1>10. w \in Int
  BY <1>2, <1>7, <1>8, StageFits
<1>11. entries \in Seq(EntryBelow(w)) /\ entries \in Seq(Entry)
  <2>1. entries \in Seq(EntryBelow(w))
    BY DEF Added
  <2> HIDE DEF w
  <2>2. QED
    BY <1>10, <2>1, BelowIsEntry
<1>12. entries \o more \in Seq(EntryBelow(w))
  BY <1>9, <1>11, ConcatParts
<1>13. ASSUME NEW c \in 0 .. w - 1
       PROVE  ColumnSum(entries \o more, c) = SumUp(Gains(x, y, row, ColumnAt(y, r, c), r), z)
  <2> DEFINE column == ColumnAt(y, r, c)
             G == Gains(x, y, row, column, r)
  <2>1. ColumnSum(entries, c) = SumUp(G, n)
    BY DEF Added, g
  <2>2. ColumnSum(more, c) = Gain(x, y, row, column, i)
    <3> HIDE DEF w
    <3>1. ColumnSum(more, c)
            = Gain(x, y, FirstRow(x.rows, q) + g, NodeRows(y.cols, r.col).firstRow + c, q.col)
      <4>1. g \in 0 .. Tile(x, q).rows - 1
        BY <1>3, <1>4
      <4>2. c \in 0 .. NodeRows(y.cols, r.col).rows - 1
        BY DEF w
      <4>3. QED
        BY <1>2, <1>7, <4>1, <4>2, StageSum
    <3>2. QED
      BY <1>2, <1>3, <3>1 DEF ColumnAt
  <2>3. G[z] = Gain(x, y, row, column, i)
    BY <1>5 DEF Gains, i
  <2>4. Ints(G, Side) /\ Side \in Nat
    <3> HIDE DEF row, column
    <3>1. QED
      BY <1>6, GainsAddUp
  <2> HIDE DEF G, column, row, more
  <2>5. SumUp(G, z) = SumUp(G, n) + G[z]
    <3>1. \A m \in 1 .. Side : SumUp(G, m) = SumUp(G, m - 1) + G[m]
      BY <2>4, SumRec
    <3> HIDE DEF z
    <3>2. QED
      BY <1>5, <3>1
  <2>6. ColumnSum(entries \o more, c) = ColumnSum(entries, c) + ColumnSum(more, c)
    BY <1>9, <1>11, ColumnSumOfTwo
  <2>7. QED
    BY <2>1, <2>2, <2>3, <2>5, <2>6 DEF G, column
<1> HIDE DEF more, z
<1>14. Added(entries \o more, x, y, r, k, z)
  BY <1>12, <1>13 DEF Added, g
<1>15. QED
  BY <1>14 DEF more, z, q, g

\* A stage adds what its inner block stands for.
LEMMA AccumulatesNone ==
  ASSUME NEW x, NEW y, Multipliable(x, y), NEW r \in Trident!Rank
  PROVE  Accumulates([k \in 1 .. Tile(x, r).rows |-> <<>>], x, y, r, 0)
BY AddedNone DEF Accumulates, ListOf

\* A stage adds its gain to every coordinate of a tile.
LEMMA AccumulatesMore ==
  ASSUME NEW x, NEW y, Multipliable(x, y), NEW r \in Trident!Rank, NEW n \in 0 .. Side - 1,
         NEW acc, Accumulates(acc, x, y, r, n),
         NEW p, IsPanel(p, y, Trident!inner(r, n), r.col)
  PROVE  Accumulates(Trident!addProduct(acc, Tile(x, Trident!aSource(r, n)), p), x, y, r, n + 1)
<1> DEFINE N == Tile(x, r).rows
           t == Tile(x, Trident!aSource(r, n))
           new == Trident!addProduct(acc, t, p)
<1>1. ListOf(acc, N) /\ \A k \in 1 .. N : Added(acc[k], x, y, r, k, n)
  BY DEF Accumulates
<1>2. ListOf(new, N) /\ Extends(new, acc, t, p, N)
  BY <1>1, AddProductIs
<1>3. ASSUME NEW k \in 1 .. N PROVE Added(new[k], x, y, r, k, n + 1)
  <2>1. Added(acc[k], x, y, r, k, n)
    BY <1>1
  <2>2. Added(acc[k] \o ProductsIn(t, p, k - 1), x, y, r, k, n + 1)
    BY <2>1, AddedMore
  <2>3. QED
    BY <1>2, <2>2 DEF Extends
<1> HIDE DEF new
<1>4. Accumulates(new, x, y, r, n + 1)
  BY <1>2, <1>3 DEF Accumulates
<1>5. QED
  BY <1>4 DEF new

\* Sums of lengths ascend.
LEMMA SumsAscend ==
  ASSUME NEW K \in Nat, NEW f, NEW counts, AddsUp(f, counts, K)
  PROVE  \A i, j \in 0 .. K : i <= j => f[i] <= f[j]
<1> DEFINE ptr == [k \in 1 .. K + 1 |-> f[k - 1]]
<1>1. \A k \in 0 .. K : f[k] \in Nat /\ ptr[k + 1] = f[k]
  <2>1. ASSUME NEW k \in 0 .. K PROVE f[k] \in Nat /\ ptr[k + 1] = f[k]
    <3> DEFINE h == k + 1
    <3>1. h \in 1 .. K + 1 /\ h - 1 = k
      OBVIOUS
    <3> HIDE DEF h
    <3>2. ptr[h] = f[k]
      BY <3>1
    <3>3. QED
      BY <3>2 DEF AddsUp, h
  <2>2. QED
    BY <2>1
<1>2. ASSUME NEW k \in 1 .. K + 1 PROVE ptr[k] \in Int
  <2> DEFINE h == k - 1
  <2>1. h \in 0 .. K /\ h + 1 = k
    OBVIOUS
  <2> HIDE DEF h, ptr
  <2>2. f[h] \in Nat /\ ptr[h + 1] = f[h]
    BY <1>1, <2>1
  <2>3. ptr[k] = f[h]
    BY <2>1, <2>2
  <2>4. QED
    BY <2>2, <2>3
<1>3. ptr \in Seq(Int) /\ Len(ptr) = K + 1
  BY <1>2
<1>4. ASSUME NEW k \in 1 .. K PROVE ptr[k] <= ptr[k + 1]
  <2> DEFINE h == k - 1
  <2>1. h \in 0 .. K /\ h + 1 = k /\ k \in 0 .. K
    OBVIOUS
  <2>2. counts[k] \in Nat /\ f[k] = f[h] + counts[k]
    BY DEF AddsUp
  <2> HIDE DEF h, ptr
  <2>3. ptr[k] = f[h] /\ ptr[k + 1] = f[k] /\ f[h] \in Nat
    BY <1>1, <2>1
  <2>4. QED
    BY <2>2, <2>3
<1>5. ptr[1] = 0 /\ ptr[K + 1] = f[K]
  <2>1. 0 \in 0 .. K /\ K \in 0 .. K /\ f[0] = 0
    BY DEF AddsUp
  <2> HIDE DEF ptr
  <2>2. QED
    BY <1>1, <2>1
<1> HIDE DEF ptr
<1>6. IsPointer(ptr, K, f[K])
  BY <1>3, <1>4, <1>5 DEF IsPointer
<1>7. \A i, j \in 1 .. K + 1 : i <= j => ptr[i] <= ptr[j]
  BY <1>6, PointerMonotone
<1>8. ASSUME NEW i \in 0 .. K, NEW j \in 0 .. K, i <= j PROVE f[i] <= f[j]
  <2> DEFINE g == i + 1
             h == j + 1
  <2>1. g \in 1 .. K + 1 /\ h \in 1 .. K + 1 /\ g <= h
    BY <1>8
  <2> HIDE DEF g, h
  <2>2. ptr[g] <= ptr[h]
    BY <1>7, <2>1
  <2>3. QED
    BY <1>1, <2>2 DEF g, h
<1>9. QED
  BY <1>8

\* The positions a cut keeps, and where they come from.
LEMMA CutPlaces ==
  ASSUME NEW row \in Seq(Entry), NEW cols, IsBlock(cols)
  PROVE  \E from : \A i \in 1 .. Len(Trident!cutRow(row, cols)) :
           /\ from[i] \in 1 .. Len(row)
           /\ Trident!cutRow(row, cols)[i] = row[from[i]]
           /\ \A j \in 1 .. Len(Trident!cutRow(row, cols)) : i < j => from[i] < from[j]
<1> DEFINE n == Len(row)
           ss == [p \in 1 .. n |-> IF row[p].column \in RowsOf(cols) THEN <<row[p]>> ELSE <<>>]
           cut == FlattenSeq(ss)
           lens == [p \in DOMAIN ss |-> Len(ss[p])]
<1>1. n \in Nat /\ DOMAIN row = 1 .. n /\ \A i \in 1 .. n : row[i] \in Entry
  BY RowParts
<1>2. Trident!cutRow(row, cols) = cut
  BY <1>1, TridentSums, TridentBlocks DEF Trident!cutRow
<1>3. ASSUME NEW p \in 1 .. n
      PROVE  /\ ss[p] \in Seq(Entry)
             /\ Len(ss[p]) = 0 \/ (Len(ss[p]) = 1 /\ ss[p][1] = row[p])
  <2>1. ss[p] = <<row[p]>> \/ ss[p] = <<>>
    OBVIOUS
  <2> DEFINE e == row[p]
  <2>2. e \in Entry
    BY <1>1
  <2>3. ss[p] = <<e>> \/ ss[p] = <<>>
    BY <2>1
  <2> DEFINE part == ss[p]
             E == Entry
  <2>4. (part = <<e>> \/ part = <<>>) /\ e \in E
    BY <2>2, <2>3
  <2> HIDE DEF ss, e, part, E
  <2>5. CASE part = <<e>>
    <3>1. part \in Seq(E) /\ Len(part) = 1 /\ part[1] = e
      BY ONLY <2>4, <2>5
    <3>2. QED
      BY <3>1 DEF e, part, E
  <2>6. CASE part = <<>>
    <3>1. part \in Seq(E) /\ Len(part) = 0
      BY ONLY <2>6
    <3>2. ss[p] \in Seq(Entry)
      BY <3>1 DEF part, E
    <3>3. Len(ss[p]) = 0
      BY <3>1 DEF part
    <3>4. QED
      BY <3>2, <3>3
  <2>7. QED
    BY <2>4, <2>5, <2>6
<1>4. ss \in Seq(Seq(Entry)) /\ Len(ss) = n /\ DOMAIN ss = 1 .. n
  <2> DEFINE F == Seq(Entry)
  <2>1. \A p \in 1 .. n : ss[p] \in F
    BY <1>3
  <2>2. ss = [p \in 1 .. n |-> ss[p]]
    OBVIOUS
  <2> HIDE DEF F, ss
  <2>3. QED
    BY <1>1, <2>1, <2>2 DEF F
<1> HIDE DEF ss, n
<1>5. /\ lens \in Seq(Nat) /\ Len(lens) = n
      /\ \A p \in 1 .. n : lens[p] = Len(ss[p])
  <2>1. \A p \in 1 .. n : lens[p] = Len(ss[p]) /\ lens[p] \in Nat
    <3>1. ASSUME NEW p \in 1 .. n PROVE lens[p] = Len(ss[p]) /\ lens[p] \in Nat
      <4>1. lens[p] = Len(ss[p])
        BY <1>4
      <4> HIDE DEF lens
      <4>2. QED
        BY <1>3, <4>1
    <3>2. QED
      BY <3>1
  <2>2. lens = [p \in 1 .. n |-> lens[p]]
    BY <1>4
  <2> HIDE DEF lens
  <2>3. QED
    BY <1>1, <2>1, <2>2
<1> HIDE DEF lens
<1>6. PICK f : AddsUp(f, lens, n) /\ IsSum(f, lens)
  BY <1>5, OffsetsAddUp
<1>7. IsParted(ss, lens, n, Entry)
  <2>1. ss = [k \in 1 .. n |-> ss[k]]
    BY <1>4
  <2>2. \A k \in 1 .. n : ss[k] \in Seq(Entry) /\ Len(ss[k]) = lens[k]
    BY <1>3, <1>5
  <2>3. QED
    BY <2>1, <2>2 DEF IsParted
<1>8. Len(cut) = f[n] /\ Flattened(cut, ss, f, n)
  <2> DEFINE F == Entry
  <2>1. IsParted(ss, lens, n, F)
    BY <1>7
  <2> HIDE DEF F
  <2>2. QED
    BY <1>1, <1>5, <1>6, <2>1, FlattenedIs
<1> HIDE DEF cut
<1>9. \A i, j \in 0 .. n : i <= j => f[i] <= f[j]
  BY <1>1, <1>6, SumsAscend
<1>a. \A k \in 1 .. n : f[k] = f[k - 1] + lens[k] /\ f[k - 1] \in Nat
  <2>1. ASSUME NEW k \in 1 .. n PROVE f[k] = f[k - 1] + lens[k] /\ f[k - 1] \in Nat
    <3> DEFINE h == k - 1
    <3>1. h \in 0 .. n
      BY <1>1
    <3> HIDE DEF h
    <3>2. f[h] \in Nat
      BY <1>6, <3>1 DEF AddsUp
    <3>3. f[k] = f[k - 1] + lens[k]
      BY <1>6 DEF AddsUp
    <3>4. QED
      BY <3>2, <3>3 DEF h
  <2>2. QED
    BY <2>1
<1> DEFINE Kept(i, k) == k \in 1 .. n /\ i = f[k - 1] + 1 /\ f[k] = i
           from == [i \in 1 .. f[n] |-> CHOOSE k : Kept(i, k)]
<1>b. ASSUME NEW k \in 1 .. n
      PROVE  /\ lens[k] = 0 \/ lens[k] = 1
             /\ lens[k] = 1 => ss[k][1] = row[k] /\ cut[f[k - 1] + 1] = row[k]
  <2>1. lens[k] = Len(ss[k]) /\ (Len(ss[k]) = 0 \/ (Len(ss[k]) = 1 /\ ss[k][1] = row[k]))
    BY <1>3, <1>5
  <2>2. ASSUME lens[k] = 1 PROVE cut[f[k - 1] + 1] = ss[k][1]
    <3>1. 1 \in 1 .. Len(ss[k])
      BY <2>1, <2>2
    <3>2. QED
      BY <1>8, <3>1 DEF Flattened
  <2>3. QED
    BY <2>1, <2>2
<1>10. ASSUME NEW i \in 1 .. f[n] PROVE Kept(i, from[i]) /\ cut[i] = row[from[i]]
  <2>1. PICK k \in 1 .. n : \E z \in 1 .. lens[k] : i = f[k - 1] + z
    BY <1>1, <1>6, AddsUpWithin
  <2>2. PICK z \in 1 .. lens[k] : i = f[k - 1] + z
    BY <2>1
  <2>3. lens[k] = 1 /\ z = 1
    <3> DEFINE L == lens[k]
    <3>1. L = 0 \/ L = 1
      BY <1>b
    <3>2. z \in 1 .. L
      OBVIOUS
    <3> HIDE DEF L
    <3>3. L = 1 /\ z = 1
      BY ONLY <3>1, <3>2
    <3>4. QED
      BY <3>3 DEF L
  <2>5. Kept(i, k)
    BY <1>a, <2>2, <2>3
  <2>6. from[i] = CHOOSE m : Kept(i, m)
    OBVIOUS
  <2>7. Kept(i, from[i])
    <3> HIDE DEF Kept, from
    <3>1. QED
      BY <2>5, <2>6
  <2> DEFINE m == from[i]
  <2> HIDE DEF from
  <2>8. m \in 1 .. n /\ i = f[m - 1] + 1 /\ f[m] = i
    BY <2>7
  <2> HIDE DEF m
  <2>9. lens[m] = 1
    <3>1. f[m] = f[m - 1] + lens[m] /\ f[m - 1] \in Nat /\ (lens[m] = 0 \/ lens[m] = 1)
      BY <1>a, <1>b, <2>8
    <3>2. QED
      BY <2>8, <3>1
  <2>10. cut[f[m - 1] + 1] = row[m]
    BY <1>b, <2>8, <2>9
  <2>11. cut[i] = row[m]
    BY <2>8, <2>10
  <2>12. QED
    BY <2>7, <2>11 DEF m
<1> HIDE DEF from
<1>11. ASSUME NEW i \in 1 .. f[n], NEW j \in 1 .. f[n], i < j PROVE from[i] < from[j]
  <2> DEFINE p == from[i]
             q == from[j]
  <2>1. /\ p \in 1 .. n /\ i = f[p - 1] + 1 /\ f[p] = i
        /\ q \in 1 .. n /\ j = f[q - 1] + 1 /\ f[q] = j
    BY <1>10
  <2> HIDE DEF p, q
  <2>2. p \in 0 .. n /\ q \in 0 .. n /\ p \in Int /\ q \in Int
    BY <2>1
  <2>3. ASSUME q <= p PROVE FALSE
    <3>1. f[q] <= f[p]
      BY <1>9, <2>2, <2>3
    <3>2. QED
      BY <1>11, <2>1, <3>1
  <2>4. p < q
    BY <2>2, <2>3
  <2>5. QED
    BY <2>4 DEF p, q
<1>12. \A i \in 1 .. Len(Trident!cutRow(row, cols)) :
         /\ from[i] \in 1 .. Len(row)
         /\ Trident!cutRow(row, cols)[i] = row[from[i]]
         /\ \A j \in 1 .. Len(Trident!cutRow(row, cols)) : i < j => from[i] < from[j]
  BY <1>2, <1>8, <1>10, <1>11 DEF n
<1>13. QED
  BY <1>12

-----------------------------------------------------------------------------
(* A rank's result                                                         *)

\* Renumbered columns keep their order.
LEMMA SliceTidy ==
  ASSUME NEW row \in Seq(Entry), Tidy(row), NEW cols, IsBlock(cols)
  PROVE  Tidy(SliceRow(row, cols))
<1> DEFINE cut == Trident!cutRow(row, cols)
           d == -cols.firstRow
           u == SliceRow(row, cols)
           n == Len(cut)
<1>1. cut \in Seq(EntryIn(cols)) /\ cut \in Seq(Entry)
  BY CutRowIs
<1>2. cols.firstRow \in Nat /\ cols.rows \in Nat /\ d \in Int
  BY DEF IsBlock
<1>3. u = Trident!renumbered(cut, d)
  BY DEF SliceRow
<1>4. PICK from : \A i \in 1 .. n :
           /\ from[i] \in 1 .. Len(row)
           /\ cut[i] = row[from[i]]
           /\ \A j \in 1 .. n : i < j => from[i] < from[j]
  BY CutPlaces
<1> HIDE DEF cut, u
<1>5. n \in Nat /\ \A i \in 1 .. n : cut[i] \in EntryIn(cols)
  <2> DEFINE E == EntryIn(cols)
  <2>1. cut \in Seq(E)
    BY <1>1
  <2> HIDE DEF E
  <2>2. n \in Nat /\ \A i \in 1 .. n : cut[i] \in E
    BY <2>1, RowParts
  <2>3. QED
    BY <2>2 DEF E
<1> HIDE DEF n
<1>6. \A i \in 1 .. n : cut[i].column + d \in Nat /\ cut[i].column \in Int
  <2>1. ASSUME NEW i \in 1 .. n
        PROVE  cut[i].column + d \in Nat /\ cut[i].column \in Int
    <3>1. cut[i].column \in cols.firstRow .. cols.firstRow + cols.rows - 1
      BY <1>5 DEF EntryIn, RowsOf
    <3> DEFINE f == cols.firstRow
               w == cols.rows
               x == cut[i].column
    <3>2. f \in Nat /\ w \in Nat /\ x \in f .. f + w - 1
      BY <1>2, <3>1
    <3> HIDE DEF f, w, x
    <3>3. x + (-f) \in Nat /\ x \in Int
      BY ONLY <3>2
    <3>4. QED
      BY <3>3 DEF f, x
  <2>2. QED
    BY <2>1
<1>7. /\ Len(u) = n /\ DOMAIN u = 1 .. n
      /\ \A i \in 1 .. n : u[i].column = cut[i].column + d /\ u[i].value = cut[i].value
  <2>1. \A i \in 1 .. Len(cut) : cut[i].column + d \in Nat
    BY <1>6 DEF n
  <2> HIDE DEF d
  <2>2. /\ u \in Seq(Entry) /\ Len(u) = n
        /\ \A i \in 1 .. n : u[i].column = cut[i].column + d /\ u[i].value = cut[i].value
    BY <1>1, <1>2, <1>3, <2>1, RenumberedIs DEF n
  <2>3. DOMAIN u = 1 .. Len(u)
    BY <2>2, RowParts
  <2>4. QED
    BY <2>2, <2>3
<1>8. DOMAIN row = 1 .. Len(row) /\ Len(row) \in Nat
  BY RowParts
<1> HIDE DEF d
<1>9. ASSUME NEW i \in 1 .. n, NEW j \in 1 .. n, i < j PROVE u[i].column < u[j].column
  <2>1. from[i] \in DOMAIN row /\ from[j] \in DOMAIN row /\ from[i] < from[j]
    BY <1>4, <1>8, <1>9
  <2>2. row[from[i]].column < row[from[j]].column
    BY <2>1 DEF Tidy, InOrder
  <2>3. cut[i].column < cut[j].column /\ cut[i].column \in Int /\ cut[j].column \in Int
    BY <1>4, <1>6, <2>2
  <2>4. u[i].column = cut[i].column + d /\ u[j].column = cut[j].column + d
    BY <1>7
  <2>5. QED
    BY <1>2, <2>3, <2>4
<1>10. ASSUME NEW i \in 1 .. n PROVE u[i].value # 0
  <2>1. from[i] \in DOMAIN row /\ cut[i] = row[from[i]]
    BY <1>4, <1>8
  <2>2. QED
    BY <1>7, <2>1 DEF Tidy
<1>11. QED
  BY <1>7, <1>9, <1>10 DEF Tidy, InOrder, u

\* The product of the serial program can be cut in its turn.
LEMMA SerialReadable ==
  ASSUME NEW x, NEW y, Multipliable(x, y)
  PROVE  /\ Readable(serialSpgemm(x, y))
         /\ serialSpgemm(x, y).rows = x.rows
         /\ serialSpgemm(x, y).cols = y.cols
         /\ x.rows \in Nat /\ y.cols \in Nat
         /\ \A k \in 0 .. x.rows - 1 : Row(serialSpgemm(x, y), k) = ResultRow(x, y, k)
<1> DEFINE ss == [k \in 1 .. x.rows |-> ResultRow(x, y, k - 1)]
           w == y.cols
           E == EntryBelow(w)
<1>1. x.rows \in Nat /\ w \in Nat
  BY MultipliableIs
<1>2. serialSpgemm(x, y) = CsrMatrix(ss, w)
  BY DEF serialSpgemm, ResultRow, ProductsIn
<1>3. ASSUME NEW k \in 1 .. x.rows PROVE ss[k] \in Seq(E)
  <2> DEFINE h == k - 1
  <2>1. h \in 0 .. x.rows - 1
    BY <1>1
  <2>2. ss[k] = ResultRow(x, y, h)
    OBVIOUS
  <2> HIDE DEF h, ss
  <2>3. ResultRow(x, y, h) \in Seq(E)
    BY <2>1, ResultRowIs
  <2>4. QED
    BY <2>2, <2>3
<1>4. ss \in Seq(Seq(E)) /\ Len(ss) = x.rows
  <2> DEFINE F == Seq(E)
  <2>1. \A k \in 1 .. x.rows : ss[k] \in F
    BY <1>3
  <2>2. ss = [k \in 1 .. x.rows |-> ss[k]]
    OBVIOUS
  <2> HIDE DEF F, ss
  <2>3. QED
    BY <1>1, <2>1, <2>2 DEF F
<1> HIDE DEF ss, w
<1>5. Readable(CsrMatrix(ss, w))
  BY <1>1, <1>4, CsrMatrixReadable
<1>6. QED
  BY <1>1, <1>2, <1>5, SerialIs DEF w

\* After the last stage the accumulator of a rank holds its tile of the
\* product.
LEMMA ResultTileIs ==
  ASSUME NEW x, NEW y, Multipliable(x, y), NEW r \in Trident!Rank,
         NEW acc, Accumulates(acc, x, y, r, Side)
  PROVE  CsrMatrix([k \in DOMAIN acc |-> finishedRow(accumulated(acc[k]))],
                   NodeRows(y.cols, r.col).rows)
           = Tile(serialSpgemm(x, y), r)
<1> DEFINE c == serialSpgemm(x, y)
           t == Tile(c, r)
           N == Tile(x, r).rows
           cols == NodeRows(y.cols, r.col)
           w == cols.rows
           E == EntryBelow(w)
           ss == [k \in DOMAIN acc |-> finishedRow(accumulated(acc[k]))]
           m == CsrMatrix(ss, w)
           first == FirstRow(x.rows, r)
<1>1. /\ Readable(c) /\ c.rows = x.rows /\ c.cols = y.cols /\ x.rows \in Nat /\ y.cols \in Nat
      /\ \A k \in 0 .. x.rows - 1 : Row(c, k) = ResultRow(x, y, k)
  BY SerialReadable
<1>2. Readable(x)
  BY DEF Multipliable, Readable
<1>3. IsBlock(cols)
  <2>1. r.col \in 0 .. Side - 1
    BY PlaceIs
  <2>2. QED
    BY <1>1, <2>1, NodeSlicesAre
<1>4. w \in Nat /\ cols.firstRow \in Nat
  BY <1>3 DEF IsBlock
<1>5. DOMAIN acc = 1 .. N /\ \A k \in 1 .. N : Added(acc[k], x, y, r, k, Side)
  BY DEF Accumulates, ListOf
<1> HIDE DEF cols
<1>6. N \in Nat /\ N = RankRows(x.rows, r.row, r.nodeRank).rows
  <2>1. Readable(Tile(x, r)) /\ N = RankRows(x.rows, r.row, r.nodeRank).rows
    BY <1>2, TileShape
  <2>2. QED
    BY <2>1, ReadableIs
<1>7. Readable(t) /\ t.rows = N /\ t.cols = w
  <2> HIDE DEF c
  <2>1. /\ Readable(t) /\ t.rows = RankRows(c.rows, r.row, r.nodeRank).rows
        /\ t.cols = NodeRows(c.cols, r.col).rows
    BY <1>1, TileShape
  <2>2. QED
    BY <1>1, <1>6, <2>1 DEF cols
<1>8. ASSUME NEW k \in 1 .. N
      PROVE  /\ finishedRow(accumulated(acc[k])) \in Seq(E)
             /\ finishedRow(accumulated(acc[k])) \in Seq(Entry)
             /\ Tidy(finishedRow(accumulated(acc[k])))
             /\ \A z : ColumnSum(finishedRow(accumulated(acc[k])), z) = ColumnSum(acc[k], z)
  <2>1. acc[k] \in Seq(E)
    BY <1>5 DEF Added, cols
  <2>2. w \in Int
    BY <1>4
  <2> HIDE DEF w
  <2>3. QED
    BY <2>1, <2>2, FinishedIs
<1> DEFINE s(k) == finishedRow(accumulated(acc[k]))
<1>9. \A k \in 1 .. N : ss[k] = s(k)
  BY <1>5
<1>10. ss \in Seq(Seq(E)) /\ Len(ss) = N
  <2> DEFINE F == Seq(E)
  <2>1. \A k \in 1 .. N : ss[k] \in F
    BY <1>8, <1>9
  <2>2. ss = [k \in 1 .. N |-> ss[k]]
    BY <1>5
  <2>3. N \in Nat
    BY <1>6
  <2> HIDE DEF F, ss, N
  <2>4. ss \in Seq(F) /\ Len(ss) = N
    BY ONLY <2>1, <2>2, <2>3, SeqBy
  <2>5. QED
    BY <2>4 DEF F
<1> HIDE DEF ss
<1>11. /\ Readable(m) /\ m.rows = N /\ m.cols = w
       /\ \A k \in 0 .. N - 1 : Row(m, k) = ss[k + 1]
  <2> HIDE DEF w
  <2>1. QED
    BY <1>4, <1>10, CsrMatrixReadable
<1> HIDE DEF m, t, c
<1>12. ASSUME NEW k \in 0 .. N - 1 PROVE Row(m, k) = Row(t, k)
  <2> DEFINE h == k + 1
             row == first + k
             e == s(h)
             g == SliceRow(ResultRow(x, y, row), cols)
  <2>1. h \in 1 .. N /\ h - 1 = k
    BY <1>6
  <2>2. row \in 0 .. x.rows - 1
    <3> HIDE DEF N
    <3>1. N = Tile(x, r).rows
      BY DEF N
    <3>2. QED
      BY <1>2, <3>1, TileRows
  <2>3. Row(m, k) = e
    BY <1>9, <1>11, <2>1
  <2>4. Row(t, k) = g
    <3>1. /\ FirstRow(c.rows, r) + k \in 0 .. c.rows - 1
          /\ Row(t, k) = SliceRow(Row(c, FirstRow(c.rows, r) + k), NodeRows(c.cols, r.col))
      BY <1>1, <1>7, TileRows DEF t
    <3>2. Row(c, row) = ResultRow(x, y, row)
      BY <1>1, <2>2
    <3>3. QED
      BY <1>1, <3>1, <3>2 DEF cols
  <2> HIDE DEF h, row
  <2>5. /\ ResultRow(x, y, row) \in Seq(Entry)
        /\ Tidy(ResultRow(x, y, row))
        /\ \A z : ColumnSum(ResultRow(x, y, row), z)
             = SumOf([j \in 1 .. y.rows |-> ValueAt(x, row, j - 1) * ValueAt(y, j - 1, z)])
    BY <2>2, ResultRowIs
  <2>6. /\ g \in Seq(E) /\ g \in Seq(Entry) /\ Tidy(g)
        /\ \A z \in 0 .. w - 1 : ColumnSum(g, z) = ColumnSum(ResultRow(x, y, row), cols.firstRow + z)
    BY <1>3, <2>5, SliceRowIs, SliceTidy
  <2>7. e \in Seq(E) /\ e \in Seq(Entry) /\ Tidy(e) /\ \A z : ColumnSum(e, z) = ColumnSum(acc[h], z)
    BY <1>8, <2>1
  <2> HIDE DEF e, g
  <2>8. ASSUME NEW z \in Nat PROVE ColumnSum(e, z) = ColumnSum(g, z)
    <3>1. CASE z \in 0 .. w - 1
      <4> DEFINE column == cols.firstRow + z
      <4>1. ColumnSum(acc[h], z) = SumUp(Gains(x, y, row, column, r), Side)
        <5>1. Added(acc[h], x, y, r, h, Side)
          BY <1>5, <2>1
        <5>2. ColumnSum(acc[h], z)
                = SumUp(Gains(x, y, FirstRow(x.rows, r) + (h - 1), ColumnAt(y, r, z), r), Side)
          BY <3>1, <5>1 DEF Added, cols
        <5>3. ColumnAt(y, r, z) = column
          BY DEF ColumnAt, cols
        <5>4. QED
          BY <2>1, <5>2, <5>3 DEF row
      <4> HIDE DEF column
      <4>2. SumUp(Gains(x, y, row, column, r), Side) = SumUp(ValueTerms(x, y, row, column), y.rows)
        BY <2>2, GainsAddUp
      <4>3. ColumnSum(ResultRow(x, y, row), column) = SumUp(ValueTerms(x, y, row, column), y.rows)
        <5>1. SumOf([j \in 1 .. y.rows |-> ValueAt(x, row, j - 1) * ValueAt(y, j - 1, column)])
                = SumUp(ValueTerms(x, y, row, column), y.rows)
          BY <2>2, TermsOfProduct
        <5>2. QED
          BY <2>5, <5>1
      <4>4. ColumnSum(g, z) = ColumnSum(ResultRow(x, y, row), column)
        BY <2>6, <3>1 DEF column
      <4>5. QED
        BY <2>7, <4>1, <4>2, <4>3, <4>4
    <3>2. CASE z \notin 0 .. w - 1
      <4>1. ASSUME NEW v \in Seq(E), v \in Seq(Entry) PROVE ColumnSum(v, z) = 0
        <5>1. ASSUME NEW i \in DOMAIN v PROVE v[i].column # z
          <6> HIDE DEF E
          <6>1. v[i] \in E
            BY <4>1, RowParts
          <6>2. v[i].column \in 0 .. w - 1
            BY <6>1 DEF E, EntryBelow
          <6>3. QED
            BY <3>2, <6>2
        <5>2. QED
          BY <4>1, <5>1, ColumnSumOfNone
      <4>2. QED
        BY <2>6, <2>7, <4>1
    <3>3. QED
      BY <3>1, <3>2
  <2>9. e = g
    <3>1. SameSums(e, g)
      BY <2>8 DEF SameSums
    <3>2. QED
      BY <2>6, <2>7, <3>1, TidySame
  <2>10. QED
    BY <2>3, <2>4, <2>9
<1>13. m = t
  <2>1. m \in AnyCsr /\ ValidOffsets(m) /\ t \in AnyCsr /\ ValidOffsets(t)
    BY <1>7, <1>11, ReadableIs
  <2>2. \A k \in 0 .. m.rows - 1 : Row(m, k) = Row(t, k)
    BY <1>11, <1>12
  <2>3. QED
    BY <1>7, <1>11, <2>1, <2>2, SameRows
<1>14. QED
  BY <1>13 DEF m, t, c, cols, ss

-----------------------------------------------------------------------------
(* What rank 0 collects                                                    *)

\* A tidy row goes on with a tidy row of greater columns.
LEMMA TidyConcat ==
  ASSUME NEW s \in Seq(Entry), NEW t \in Seq(Entry), Tidy(s), Tidy(t),
         \A i \in 1 .. Len(s), j \in 1 .. Len(t) : s[i].column < t[j].column
  PROVE  Tidy(s \o t)
<1> DEFINE u == s \o t
           n == Len(s)
           m == Len(t)
<1>1. /\ n \in Nat /\ m \in Nat /\ u \in Seq(Entry) /\ Len(u) = n + m
      /\ \A i \in 1 .. n : u[i] = s[i]
      /\ \A i \in 1 .. m : u[n + i] = t[i]
  <2> DEFINE E == Entry
  <2>1. s \in Seq(E) /\ t \in Seq(E)
    OBVIOUS
  <2> HIDE DEF E
  <2>2. QED
    BY <2>1, ConcatParts DEF E
<1>2. DOMAIN s = 1 .. n /\ DOMAIN t = 1 .. m /\ DOMAIN u = 1 .. n + m
  BY <1>1, RowParts
<1> HIDE DEF u, n, m
<1>3. ASSUME NEW i \in 1 .. n + m
      PROVE  \/ i \in 1 .. n /\ u[i] = s[i]
             \/ i - n \in 1 .. m /\ u[i] = t[i - n]
  <2>1. CASE i <= n
    <3>1. i \in 1 .. n
      BY <1>1, <2>1
    <3>2. QED
      BY <1>1, <3>1
  <2>2. CASE i > n
    <3> DEFINE j == i - n
    <3>1. j \in 1 .. m /\ n + j = i
      BY <1>1, <2>2
    <3> HIDE DEF j
    <3>2. u[n + j] = t[j]
      BY <1>1, <3>1
    <3>3. QED
      BY <3>1, <3>2 DEF j
  <2>3. QED
    BY <1>1, <2>1, <2>2
<1>4. ASSUME NEW i \in 1 .. n + m PROVE u[i].value # 0
  <2>1. CASE i \in 1 .. n /\ u[i] = s[i]
    BY <1>2, <2>1 DEF Tidy
  <2>2. CASE i - n \in 1 .. m /\ u[i] = t[i - n]
    BY <1>2, <2>2 DEF Tidy
  <2>3. QED
    BY <1>3, <2>1, <2>2
<1>5. ASSUME NEW i \in 1 .. n + m, NEW j \in 1 .. n + m, i < j
      PROVE  u[i].column < u[j].column
  <2>1. CASE j \in 1 .. n /\ u[j] = s[j]
    <3>1. i \in 1 .. n
      BY <1>1, <1>5, <2>1
    <3>2. u[i] = s[i]
      BY <1>1, <3>1
    <3>3. s[i].column < s[j].column
      BY <1>2, <1>5, <2>1, <3>1 DEF Tidy, InOrder
    <3>4. QED
      BY <2>1, <3>2, <3>3
  <2>2. CASE j - n \in 1 .. m /\ u[j] = t[j - n]
    <3>1. CASE i \in 1 .. n /\ u[i] = s[i]
      BY <2>2, <3>1 DEF n, m
    <3>2. CASE i - n \in 1 .. m /\ u[i] = t[i - n]
      <4>1. i - n < j - n
        BY <1>1, <1>5
      <4>2. t[i - n].column < t[j - n].column
        BY <1>2, <2>2, <3>2, <4>1 DEF Tidy, InOrder
      <4>3. QED
        BY <2>2, <3>2, <4>2
    <3>3. QED
      BY <1>3, <3>1, <3>2
  <2>3. QED
    BY <1>3, <2>1, <2>2
<1>6. QED
  BY <1>2, <1>4, <1>5 DEF Tidy, InOrder, u

\* The part of a row a tile stands for, in its own columns again.
PartOf(row, cols) == Trident!renumbered(SliceRow(row, cols), cols.firstRow)

\* The part of a row a tile gives back, in the matrix's columns again.
LEMMA PartIs ==
  ASSUME NEW C \in Nat, NEW row \in Seq(EntryBelow(C)), Tidy(row), NEW cols, IsBlock(cols),
         cols.firstRow + cols.rows <= C
  PROVE  /\ PartOf(row, cols) \in Seq(EntryBelow(C))
         /\ PartOf(row, cols) \in Seq(Entry)
         /\ Tidy(PartOf(row, cols))
         /\ \A i \in 1 .. Len(PartOf(row, cols)) : PartOf(row, cols)[i].column \in RowsOf(cols)
         /\ \A z \in Nat : ColumnSum(PartOf(row, cols), z)
                             = IF z \in RowsOf(cols) THEN ColumnSum(row, z) ELSE 0
<1> DEFINE d == cols.firstRow
           w == cols.rows
           s == SliceRow(row, cols)
           u == PartOf(row, cols)
           n == Len(s)
<1>1. d \in Nat /\ w \in Nat
  BY DEF IsBlock
<1>2. row \in Seq(Entry)
  BY BelowIsEntry
<1>3. /\ s \in Seq(EntryBelow(w)) /\ s \in Seq(Entry) /\ Tidy(s)
      /\ \A c \in 0 .. w - 1 : ColumnSum(s, c) = ColumnSum(row, d + c)
  BY <1>2, SliceRowIs, SliceTidy
<1> HIDE DEF s
<1>4. /\ n \in Nat /\ DOMAIN s = 1 .. n
      /\ \A i \in 1 .. n : s[i].column \in 0 .. w - 1 /\ s[i].value \in Int
  <2> DEFINE E == EntryBelow(w)
  <2>1. s \in Seq(E)
    BY <1>3
  <2> HIDE DEF E
  <2>2. n \in Nat /\ DOMAIN s = 1 .. n /\ \A i \in 1 .. n : s[i] \in E
    BY <2>1, RowParts
  <2>3. QED
    BY <2>2 DEF E, EntryBelow
<1> HIDE DEF n
<1>5. /\ u \in Seq(Entry) /\ Len(u) = n
      /\ \A i \in 1 .. n : u[i].column = s[i].column + d /\ u[i].value = s[i].value
      /\ \A c \in Int : ColumnSum(u, c + d) = ColumnSum(s, c)
  <2>1. \A i \in 1 .. Len(s) : s[i].column + d \in Nat
    BY <1>1, <1>4 DEF n
  <2>2. u = Trident!renumbered(s, d)
    BY DEF PartOf, s
  <2>3. d \in Int
    BY <1>1
  <2> HIDE DEF d, u
  <2>4. QED
    BY <1>3, <2>1, <2>2, <2>3, RenumberedIs DEF n
<1>6. DOMAIN u = 1 .. n
  BY <1>5, RowParts
<1> HIDE DEF u
<1>7. ASSUME NEW i \in 1 .. n
      PROVE  u[i].column \in RowsOf(cols) /\ u[i].column \in 0 .. C - 1 /\ u[i].value \in Int
  <2> DEFINE x == s[i].column
  <2>1. x \in 0 .. w - 1 /\ u[i].column = x + d /\ u[i].value = s[i].value /\ s[i].value \in Int
    BY <1>4, <1>5
  <2>2. d + w <= C
    OBVIOUS
  <2> HIDE DEF x, d, w
  <2>3. x + d \in d .. d + w - 1 /\ x + d \in 0 .. C - 1
    BY <1>1, <2>1, <2>2
  <2>4. QED
    BY <2>1, <2>3 DEF RowsOf, d, w
<1>8. u \in Seq(EntryBelow(C))
  <2> DEFINE E == EntryBelow(C)
  <2>1. \A i \in 1 .. n : u[i] \in E
    <3>1. ASSUME NEW i \in 1 .. n PROVE u[i] \in E
      <4>1. u[i] \in Entry
        BY <1>5, <1>6
      <4>2. u[i] = [column |-> u[i].column, value |-> u[i].value]
        BY <4>1 DEF Entry
      <4>3. u[i].column \in 0 .. C - 1 /\ u[i].value \in Int
        BY <1>7
      <4>4. QED
        BY <4>2, <4>3 DEF EntryBelow
    <3>2. QED
      BY <3>1
  <2>2. u = [i \in 1 .. n |-> u[i]]
    BY <1>5, <1>6
  <2> HIDE DEF E
  <2>3. u \in Seq(E)
    BY <1>4, <2>1, <2>2
  <2>4. QED
    BY <2>3 DEF E
<1>9. Tidy(u)
  <2>1. ASSUME NEW i \in 1 .. n, NEW j \in 1 .. n, i < j PROVE u[i].column < u[j].column
    <3>1. s[i].column < s[j].column
      BY <1>3, <1>4, <2>1 DEF Tidy, InOrder
    <3>2. s[i].column \in Int /\ s[j].column \in Int /\ d \in Int
      BY <1>1, <1>4
    <3>3. u[i].column = s[i].column + d /\ u[j].column = s[j].column + d
      BY <1>5
    <3> HIDE DEF d
    <3>4. QED
      BY <3>1, <3>2, <3>3
  <2>2. \A i \in 1 .. n : u[i].value # 0
    BY <1>3, <1>4, <1>5 DEF Tidy
  <2>3. QED
    BY <1>6, <2>1, <2>2 DEF Tidy, InOrder
<1>10. ASSUME NEW z \in Nat
       PROVE  ColumnSum(u, z) = IF z \in RowsOf(cols) THEN ColumnSum(row, z) ELSE 0
  <2>1. CASE z \in RowsOf(cols)
    <3> DEFINE c == z - d
    <3>1. c \in 0 .. w - 1 /\ c \in Int /\ c + d = z /\ d + c = z
      <4>1. z \in d .. d + w - 1
        BY <2>1 DEF RowsOf
      <4> HIDE DEF d, w
      <4>2. QED
        BY <1>1, <4>1
    <3> HIDE DEF c
    <3>2. ColumnSum(u, c + d) = ColumnSum(s, c) /\ ColumnSum(s, c) = ColumnSum(row, d + c)
      BY <1>3, <1>5, <3>1
    <3>3. QED
      BY <2>1, <3>1, <3>2
  <2>2. CASE z \notin RowsOf(cols)
    <3>1. \A i \in DOMAIN u : u[i].column # z
      BY <1>6, <1>7, <2>2
    <3>2. ColumnSum(u, z) = 0
      BY <1>5, <3>1, ColumnSumOfNone
    <3>3. QED
      BY <2>2, <3>2
  <2>3. QED
    BY <2>1, <2>2
<1>11. \A i \in 1 .. Len(u) : u[i].column \in RowsOf(cols)
  BY <1>5, <1>7
<1>12. QED
  BY <1>5, <1>8, <1>9, <1>10, <1>11 DEF u

\* A place of the result is some rank's that has been collected.
Owned(rows, cols, row, z, n) ==
  \E q \in Trident!Rank : /\ HoldsRow(rows, cols, q, row) /\ HoldsColumn(rows, cols, q, z)
                          /\ Trident!RankNumber(q) < n

\* The ranks that hold a row are collected from left to right.
LEMMA OwnedBefore ==
  ASSUME NEW rows \in Nat, NEW cols \in Nat, NEW row \in 0 .. rows - 1, NEW z \in 0 .. cols - 1,
         NEW q \in Trident!Rank, HoldsRow(rows, cols, q, row),
         Owned(rows, cols, row, z, Trident!RankNumber(q))
  PROVE  z < NodeRows(cols, q.col).firstRow
<1>1. PICK p \in Trident!Rank : /\ HoldsRow(rows, cols, p, row) /\ HoldsColumn(rows, cols, p, z)
                                /\ Trident!RankNumber(p) < Trident!RankNumber(q)
  BY DEF Owned
<1>2. PICK i \in 0 .. Side - 1 : \E k \in 0 .. NodeSize - 1 : RowHeldAt(rows, cols, row, i, k)
  BY RowHolders
<1>3. PICK k \in 0 .. NodeSize - 1 : RowHeldAt(rows, cols, row, i, k)
  BY <1>2
<1>4. q.row = i /\ q.nodeRank = k /\ p.row = i /\ p.nodeRank = k
  BY <1>1, <1>3 DEF RowHeldAt
<1>5. p.col < q.col
  BY <1>1, <1>4, NumberIs
<1>6. /\ Side \in Nat \ {0} /\ p.col \in 0 .. Side - 1 /\ q.col \in 0 .. Side - 1
  BY PlaceIs
<1>7. z \in RowsOf(NodeRows(cols, p.col))
  <2>1. Trident!matrixBlock(rows, cols, p).cols = NodeRows(cols, p.col)
    BY MatrixBlockIs
  <2>2. QED
    BY <1>1, <2>1 DEF HoldsColumn
<1> DEFINE j == p.col
           h == p.col + 1
           l == q.col
<1>8. j \in 0 .. Side - 1 /\ h \in 0 .. Side /\ l \in 0 .. Side /\ l \in 0 .. Side - 1 /\ h <= l
  BY <1>5, <1>6
<1>9. /\ \A u \in 0 .. Side : Start(cols, Side, u) \in 0 .. cols
      /\ \A u \in 0 .. Side - 1 :
              /\ partitionRows(cols, Side)[u].firstRow = Start(cols, Side, u)
              /\ partitionRows(cols, Side)[u].rows \in Nat
              /\ Start(cols, Side, u + 1) = Start(cols, Side, u) + partitionRows(cols, Side)[u].rows
  BY <1>6, PartitionIs
<1>10. \A u, v \in 0 .. Side : u <= v => Start(cols, Side, u) <= Start(cols, Side, v)
  BY <1>6, StartsAscend
<1>11. z \in NodeRows(cols, j).firstRow .. NodeRows(cols, j).firstRow + NodeRows(cols, j).rows - 1
  BY <1>7 DEF RowsOf
<1>12. Start(cols, Side, h) <= Start(cols, Side, l)
  <2> HIDE DEF h, l
  <2>1. QED
    BY <1>8, <1>10
<1>13. NodeRows(cols, l).firstRow = Start(cols, Side, l)
  <2> HIDE DEF l
  <2>1. QED
    BY <1>8, <1>9 DEF NodeRows
<1>14. /\ NodeRows(cols, j).firstRow = Start(cols, Side, j)
       /\ NodeRows(cols, j).rows \in Nat
       /\ Start(cols, Side, h) = Start(cols, Side, j) + NodeRows(cols, j).rows
  <2> HIDE DEF j
  <2>1. h = j + 1
    BY DEF j
  <2> HIDE DEF h
  <2>2. QED
    BY <1>8, <1>9, <2>1 DEF NodeRows
<1>15. /\ Start(cols, Side, j) \in Int /\ Start(cols, Side, h) \in Int /\ Start(cols, Side, l) \in Int
  <2> HIDE DEF j, h, l
  <2>1. j \in 0 .. Side
    BY <1>6, <1>8
  <2>2. QED
    BY <1>8, <1>9, <2>1
<1> HIDE DEF j, h
<1>16. z < Start(cols, Side, l)
  BY <1>11, <1>12, <1>14, <1>15
<1>17. QED
  BY <1>13, <1>16 DEF l

\* One more rank.
LEMMA OwnedNext ==
  ASSUME NEW rows, NEW cols, NEW row, NEW z, NEW q \in Trident!Rank
  PROVE  Owned(rows, cols, row, z, Trident!RankNumber(q) + 1)
           <=> \/ Owned(rows, cols, row, z, Trident!RankNumber(q))
               \/ HoldsRow(rows, cols, q, row) /\ HoldsColumn(rows, cols, q, z)
<1> DEFINE n == Trident!RankNumber(q)
<1>1. n \in Int /\ \A p \in Trident!Rank : Trident!RankNumber(p) \in Int
  <2>1. Places \in Nat
    BY RankListIs
  <2>2. \A p \in Trident!Rank : Trident!RankNumber(p) \in 0 .. Places - 1
    BY NumberIs
  <2>3. QED
    BY <2>1, <2>2
<1>2. \A p \in Trident!Rank : Trident!RankNumber(p) = n => p = q
  BY NumberIs
<1>3. \A p \in Trident!Rank : Trident!RankNumber(p) < n + 1 <=> Trident!RankNumber(p) < n \/ p = q
  <2> HIDE DEF n
  <2>1. ASSUME NEW p \in Trident!Rank
        PROVE  Trident!RankNumber(p) < n + 1 <=> Trident!RankNumber(p) < n \/ Trident!RankNumber(p) = n
    BY <1>1
  <2>2. Trident!RankNumber(q) = n
    BY DEF n
  <2>3. QED
    BY <1>2, <2>1, <2>2
<1> HIDE DEF n
<1>4. Owned(rows, cols, row, z, n + 1)
        <=> \/ Owned(rows, cols, row, z, n)
            \/ HoldsRow(rows, cols, q, row) /\ HoldsColumn(rows, cols, q, z)
  BY <1>3 DEF Owned
<1>5. QED
  BY <1>4 DEF n

\* Before any rank no coordinate has been collected.
LEMMA OwnedNone ==
  ASSUME NEW rows, NEW cols, NEW row, NEW z
  PROVE  ~Owned(rows, cols, row, z, 0)
<1>1. Places \in Nat /\ \A p \in Trident!Rank : Trident!RankNumber(p) \in 0 .. Places - 1
  BY RankListIs, NumberIs
<1>2. \A p \in Trident!Rank : ~(Trident!RankNumber(p) < 0)
  BY <1>1
<1>3. QED
  BY <1>2 DEF Owned

\* After all ranks every coordinate has been.
LEMMA OwnedAll ==
  ASSUME NEW rows \in Nat, NEW cols \in Nat, NEW row \in 0 .. rows - 1, NEW z \in 0 .. cols - 1
  PROVE  Owned(rows, cols, row, z, Places)
<1>1. PICK i \in 0 .. Side - 1 : \E k \in 0 .. NodeSize - 1 : RowHeldAt(rows, cols, row, i, k)
  BY RowHolders
<1>2. PICK k \in 0 .. NodeSize - 1 : RowHeldAt(rows, cols, row, i, k)
  BY <1>1
<1>3. PICK j \in 0 .. Side - 1 : ColumnHeldAt(rows, cols, z, j)
  BY ColumnHolders
<1> DEFINE q == Trident!rankAt(i, j, k)
<1>4. q \in Trident!Rank /\ q.row = i /\ q.col = j /\ q.nodeRank = k
  BY PlaceOf
<1> HIDE DEF q
<1>5. HoldsRow(rows, cols, q, row) /\ HoldsColumn(rows, cols, q, z)
  BY <1>2, <1>3, <1>4 DEF RowHeldAt, ColumnHeldAt
<1>6. Trident!RankNumber(q) < Places
  <2>1. Trident!RankNumber(q) \in 0 .. Places - 1 /\ Places \in Nat
    BY <1>4, NumberIs, RankListIs
  <2>2. QED
    BY <2>1
<1>7. QED
  BY <1>4, <1>5, <1>6 DEF Owned

RowsTidy(m) == \A k \in 0 .. m.rows - 1 : Tidy(Row(m, k))

\* What rank 0 has of a row of the matrix m after some ranks.
Gathers(entries, m, row, n) ==
  /\ entries \in Seq(EntryBelow(m.cols))
  /\ Tidy(entries)
  /\ \A z \in 0 .. m.cols - 1 :
       ColumnSum(entries, z)
         = IF Owned(m.rows, m.cols, row, z, n) THEN ColumnSum(Row(m, row), z) ELSE 0

GathersRows(rows, m, n) ==
  /\ ListOf(rows, m.rows)
  /\ \A k \in 1 .. m.rows : Gathers(rows[k], m, k - 1, n)

\* What has been stored was a collected rank's.
LEMMA StoredIsOwned ==
  ASSUME NEW m, Readable(m), NEW row, NEW n, NEW entries, Gathers(entries, m, row, n),
         NEW i \in 1 .. Len(entries)
  PROVE  /\ entries[i].column \in 0 .. m.cols - 1
         /\ Owned(m.rows, m.cols, row, entries[i].column, n)
<1> DEFINE E == EntryBelow(m.cols)
           z == entries[i].column
<1>1. entries \in Seq(E) /\ Tidy(entries)
  BY DEF Gathers
<1>2. m.cols \in Int
  BY ReadableIs
<1>3. entries \in Seq(Entry)
  BY <1>1, <1>2, BelowIsEntry
<1>4. DOMAIN entries = 1 .. Len(entries) /\ Len(entries) \in Nat /\ entries[i] \in E
  <2> HIDE DEF E
  <2>1. QED
    BY <1>1, RowParts
<1>5. z \in 0 .. m.cols - 1
  BY <1>4 DEF EntryBelow
<1>6. entries[i].value # 0
  BY <1>1, <1>4 DEF Tidy
<1>7. ASSUME NEW j \in DOMAIN entries, j # i PROVE entries[j].column # entries[i].column
  <2>1. j \in 1 .. Len(entries) /\ i \in 1 .. Len(entries)
    BY <1>4
  <2>2. entries[j] \in E
    <3> HIDE DEF E
    <3>1. QED
      BY <1>1, <2>1, RowParts
  <2>3. entries[j].column \in Int /\ entries[i].column \in Int
    BY <1>2, <1>4, <2>2 DEF EntryBelow
  <2>4. CASE i < j
    <3>1. entries[i].column < entries[j].column
      BY <1>1, <1>4, <2>4 DEF Tidy, InOrder
    <3>2. QED
      BY <2>3, <3>1
  <2>5. CASE j < i
    <3>1. entries[j].column < entries[i].column
      BY <1>1, <1>4, <2>5 DEF Tidy, InOrder
    <3>2. QED
      BY <2>3, <3>1
  <2>6. QED
    BY <1>7, <2>1, <2>4, <2>5
<1>8. ColumnSum(entries, z) = entries[i].value
  BY <1>3, <1>4, <1>7, ColumnSumOfOne
<1> HIDE DEF z
<1>9. Owned(m.rows, m.cols, row, z, n)
  BY <1>5, <1>6, <1>8 DEF Gathers
<1>10. QED
  BY <1>5, <1>9 DEF z

\* The next rank holds none of the row.
LEMMA GathersSame ==
  ASSUME NEW m, NEW row, NEW q \in Trident!Rank, NEW entries,
         Gathers(entries, m, row, Trident!RankNumber(q)), ~HoldsRow(m.rows, m.cols, q, row)
  PROVE  Gathers(entries, m, row, Trident!RankNumber(q) + 1)
<1>1. \A z : Owned(m.rows, m.cols, row, z, Trident!RankNumber(q) + 1)
               <=> Owned(m.rows, m.cols, row, z, Trident!RankNumber(q))
  BY OwnedNext
<1>2. QED
  BY <1>1 DEF Gathers

\* The next rank holds some of it.
LEMMA GathersMore ==
  ASSUME NEW m, Readable(m), RowsTidy(m), NEW row \in 0 .. m.rows - 1,
         NEW q \in Trident!Rank, NEW entries, Gathers(entries, m, row, Trident!RankNumber(q)),
         HoldsRow(m.rows, m.cols, q, row)
  PROVE  Gathers(entries \o PartOf(Row(m, row), NodeRows(m.cols, q.col)), m, row,
                 Trident!RankNumber(q) + 1)
<1> DEFINE n == Trident!RankNumber(q)
           cols == NodeRows(m.cols, q.col)
           more == PartOf(Row(m, row), cols)
           C == m.cols
           all == entries \o more
<1>1. m.rows \in Nat /\ C \in Nat /\ Row(m, row) \in Seq(EntryBelow(C)) /\ Tidy(Row(m, row))
  BY ReadableIs DEF RowsTidy
<1>2. IsBlock(cols) /\ cols.firstRow + cols.rows <= C /\ Trident!matrixBlock(m.rows, m.cols, q).cols = cols
  BY <1>1, MatrixBlockIs
<1>3. /\ more \in Seq(EntryBelow(C)) /\ more \in Seq(Entry) /\ Tidy(more)
      /\ \A i \in 1 .. Len(more) : more[i].column \in RowsOf(cols)
      /\ \A z \in Nat : ColumnSum(more, z)
                             = IF z \in RowsOf(cols) THEN ColumnSum(Row(m, row), z) ELSE 0
  <2> HIDE DEF cols, C
  <2>1. QED
    BY <1>1, <1>2, PartIs
<1>4. entries \in Seq(EntryBelow(C)) /\ Tidy(entries) /\ entries \in Seq(Entry)
  <2>1. entries \in Seq(EntryBelow(C)) /\ Tidy(entries)
    BY DEF Gathers
  <2>2. C \in Int
    BY <1>1
  <2> HIDE DEF C
  <2>3. QED
    BY <2>1, <2>2, BelowIsEntry
<1>5. \A z : HoldsColumn(m.rows, C, q, z) <=> z \in RowsOf(cols)
  BY <1>2 DEF HoldsColumn
<1>6. \A z \in 0 .. C - 1 : Owned(m.rows, C, row, z, n) => z < cols.firstRow
  BY <1>1, OwnedBefore
<1>7. \A z : Owned(m.rows, C, row, z, n + 1) <=> Owned(m.rows, C, row, z, n) \/ z \in RowsOf(cols)
  BY <1>5, OwnedNext
<1>8. \A i \in 1 .. Len(entries) : /\ entries[i].column \in 0 .. C - 1
                                   /\ Owned(m.rows, C, row, entries[i].column, n)
  BY StoredIsOwned
<1> HIDE DEF more, cols, n
<1>9. \A i \in 1 .. Len(entries), j \in 1 .. Len(more) : entries[i].column < more[j].column
  <2>1. ASSUME NEW i \in 1 .. Len(entries), NEW j \in 1 .. Len(more)
        PROVE  entries[i].column < more[j].column
    <3> DEFINE z == entries[i].column
               v == more[j].column
    <3>1. z \in 0 .. C - 1 /\ Owned(m.rows, C, row, z, n)
      BY <1>8
    <3>2. v \in RowsOf(cols)
      BY <1>3
    <3> HIDE DEF z, v
    <3>3. z < cols.firstRow
      BY <1>6, <3>1
    <3>4. v \in cols.firstRow .. cols.firstRow + cols.rows - 1 /\ cols.firstRow \in Nat /\ cols.rows \in Nat
      BY <1>2, <3>2 DEF RowsOf, IsBlock
    <3>5. z < v
      BY <1>1, <3>1, <3>3, <3>4
    <3>6. QED
      BY <3>5 DEF z, v
  <2>2. QED
    BY <2>1
<1>10. Tidy(all)
  BY <1>3, <1>4, <1>9, TidyConcat
<1>11. all \in Seq(EntryBelow(C))
  BY <1>3, <1>4, ConcatParts
<1>12. ASSUME NEW z \in 0 .. C - 1
       PROVE  ColumnSum(all, z)
                = IF Owned(m.rows, C, row, z, n + 1) THEN ColumnSum(Row(m, row), z) ELSE 0
  <2>1. ColumnSum(all, z) = ColumnSum(entries, z) + ColumnSum(more, z)
    BY <1>3, <1>4, ColumnSumOfTwo
  <2>2. ColumnSum(entries, z) = IF Owned(m.rows, C, row, z, n) THEN ColumnSum(Row(m, row), z) ELSE 0
    BY DEF Gathers, n
  <2>3. z \in Nat /\ ColumnSum(more, z) = IF z \in RowsOf(cols) THEN ColumnSum(Row(m, row), z) ELSE 0
    <3>1. z \in Nat
      BY <1>1
    <3>2. QED
      BY <1>3, <3>1
  <2>4. ColumnSum(Row(m, row), z) \in Int
    <3>1. Row(m, row) \in Seq(Entry)
      BY ReadableIs
    <3>2. QED
      BY <3>1, ColumnSumInt
  <2>5. ~(Owned(m.rows, C, row, z, n) /\ z \in RowsOf(cols))
    <3>1. ASSUME Owned(m.rows, C, row, z, n), z \in RowsOf(cols) PROVE FALSE
      <4>1. z < cols.firstRow
        BY <1>6, <3>1
      <4>2. z \in cols.firstRow .. cols.firstRow + cols.rows - 1 /\ cols.firstRow \in Nat /\ cols.rows \in Nat
        BY <1>2, <3>1 DEF RowsOf, IsBlock
      <4>3. QED
        BY <2>3, <4>1, <4>2
    <3>2. QED
      BY <3>1
  <2>6. Owned(m.rows, C, row, z, n + 1) <=> Owned(m.rows, C, row, z, n) \/ z \in RowsOf(cols)
    BY <1>7
  <2> HIDE DEF C, all
  <2>7. QED
    BY <2>1, <2>2, <2>3, <2>4, <2>5, <2>6
<1> HIDE DEF all
<1>13. Gathers(all, m, row, n + 1)
  BY <1>10, <1>11, <1>12 DEF Gathers
<1>14. QED
  BY <1>13 DEF all, more, cols, n

\* A row that has been gathered from all ranks is the row.
LEMMA GatheredRow ==
  ASSUME NEW m, Readable(m), RowsTidy(m), NEW row \in 0 .. m.rows - 1,
         NEW entries, Gathers(entries, m, row, Places)
  PROVE  entries = Row(m, row)
<1> DEFINE t == Row(m, row)
           E == EntryBelow(m.cols)
<1>1. m.rows \in Nat /\ m.cols \in Nat /\ t \in Seq(E) /\ t \in Seq(Entry) /\ Tidy(t)
  BY ReadableIs DEF RowsTidy
<1>2. entries \in Seq(E) /\ Tidy(entries) /\ entries \in Seq(Entry)
  <2>1. entries \in Seq(E) /\ Tidy(entries)
    BY DEF Gathers
  <2>2. m.cols \in Int
    BY <1>1
  <2>3. QED
    BY <2>1, <2>2, BelowIsEntry
<1> HIDE DEF t
<1>3. ASSUME NEW z \in Nat PROVE ColumnSum(entries, z) = ColumnSum(t, z)
  <2>1. CASE z \in 0 .. m.cols - 1
    <3>1. Owned(m.rows, m.cols, row, z, Places)
      BY <1>1, <2>1, OwnedAll
    <3>2. QED
      BY <2>1, <3>1 DEF Gathers, t
  <2>2. CASE z \notin 0 .. m.cols - 1
    <3>1. ASSUME NEW v \in Seq(E), v \in Seq(Entry) PROVE ColumnSum(v, z) = 0
      <4>1. ASSUME NEW i \in DOMAIN v PROVE v[i].column # z
        <5> HIDE DEF E
        <5>1. v[i] \in E
          BY <3>1, RowParts
        <5>2. v[i].column \in 0 .. m.cols - 1
          BY <5>1 DEF E, EntryBelow
        <5>3. QED
          BY <2>2, <5>2
      <4>2. QED
        BY <3>1, <4>1, ColumnSumOfNone
    <3>2. QED
      BY <1>1, <1>2, <3>1
  <2>3. QED
    BY <2>1, <2>2
<1>4. SameSums(entries, t)
  BY <1>3 DEF SameSums
<1>5. entries = t
  BY <1>1, <1>2, <1>4, TidySame
<1>6. QED
  BY <1>5 DEF t

-----------------------------------------------------------------------------
(* What rank 0 puts together                                               *)

\* Before any rank, rank 0 has nothing of a row.
LEMMA GathersNone ==
  ASSUME NEW m, Readable(m), NEW row
  PROVE  Gathers(<<>>, m, row, 0)
<1> DEFINE E == EntryBelow(m.cols)
<1>1. <<>> \in Seq(E) /\ <<>> \in Seq(Entry)
  OBVIOUS
<1>2. Tidy(<<>>)
  <2>1. DOMAIN <<>> = {}
    OBVIOUS
  <2>2. QED
    BY <2>1 DEF Tidy, InOrder
<1>3. \A z : ColumnSum(<<>>, z) = 0
  <2>1. DOMAIN <<>> = {}
    OBVIOUS
  <2>2. QED
    BY <1>1, <2>1, ColumnSumOfNone
<1>4. QED
  BY <1>1, <1>2, <1>3, OwnedNone DEF Gathers

\* Before any rank, rank 0 has nothing of any row.
LEMMA GathersRowsNone ==
  ASSUME NEW m, Readable(m)
  PROVE  GathersRows([k \in 1 .. m.rows |-> <<>>], m, 0)
<1> DEFINE s == [k \in 1 .. m.rows |-> <<>>]
<1>1. ListOf(s, m.rows)
  BY DEF ListOf
<1>2. ASSUME NEW k \in 1 .. m.rows PROVE Gathers(s[k], m, k - 1, 0)
  BY GathersNone
<1>3. QED
  BY <1>1, <1>2 DEF GathersRows

\* A row with the tile's row added to it, when the tile has one there.
LEMMA WithBlockRow ==
  ASSUME NEW rows, NEW N, ListOf(rows, N), NEW h \in 1 .. N, NEW m, NEW block,
         NEW k, k = h - 1 - block.rows.firstRow
  PROVE  Trident!withBlock(rows, m, block)[h]
           = IF k \in 0 .. m.rows - 1
             THEN rows[h] \o Trident!renumbered(Row(m, k), block.cols.firstRow)
             ELSE rows[h]
<1>1. DOMAIN rows = 1 .. N
  BY DEF ListOf
<1>2. QED
  BY <1>1, TridentRows DEF Trident!withBlock

\* Rank 0 has as many rows as before.
LEMMA WithBlockList ==
  ASSUME NEW rows, NEW N, ListOf(rows, N), NEW m, NEW block
  PROVE  ListOf(Trident!withBlock(rows, m, block), N)
<1>1. DOMAIN rows = 1 .. N
  BY DEF ListOf
<1>2. QED
  BY <1>1 DEF ListOf, Trident!withBlock

\* What rank 0 has of a row once it has put the next rank's tile in place.
LEMMA GatheredNext ==
  ASSUME NEW m, Readable(m), RowsTidy(m), NEW q \in Trident!Rank, NEW rows,
         GathersRows(rows, m, Trident!RankNumber(q)), NEW h \in 1 .. m.rows
  PROVE  Gathers(Trident!withBlock(rows, Tile(m, q), Trident!matrixBlock(m.rows, m.cols, q))[h],
                 m, h - 1, Trident!RankNumber(q) + 1)
<1> DEFINE block == Trident!matrixBlock(m.rows, m.cols, q)
           t == Tile(m, q)
           row == h - 1
           first == block.rows.firstRow
           k == row - first
           new == Trident!withBlock(rows, t, block)[h]
           cols == NodeRows(m.cols, q.col)
<1>1. m.rows \in Nat /\ m.cols \in Nat
  BY ReadableIs
<1>2. row \in 0 .. m.rows - 1
  BY <1>1
<1>3. /\ IsBlock(block.rows) /\ block.cols = cols
  BY <1>1, MatrixBlockIs
<1>4. first \in Nat /\ block.rows.rows \in Nat
  BY <1>3 DEF IsBlock
<1>5. /\ t.rows = block.rows.rows
      /\ \A i \in 0 .. block.rows.rows - 1 :
           Row(t, i) = SliceRow(Row(m, first + i), block.cols)
  BY TileIs
<1>6. Gathers(rows[h], m, row, Trident!RankNumber(q)) /\ ListOf(rows, m.rows)
  BY DEF GathersRows
<1>7. new = IF k \in 0 .. t.rows - 1
            THEN rows[h] \o Trident!renumbered(Row(t, k), block.cols.firstRow)
            ELSE rows[h]
  <2> HIDE DEF t, block
  <2>1. QED
    BY <1>6, WithBlockRow
<1>8. HoldsRow(m.rows, m.cols, q, row) <=> row \in RowsOf(block.rows)
  BY DEF HoldsRow
<1> HIDE DEF block, t, row, first, new
<1>9. row \in RowsOf(block.rows) <=> k \in 0 .. block.rows.rows - 1
  <2>1. RowsOf(block.rows) = first .. first + block.rows.rows - 1
    BY DEF RowsOf, first
  <2>2. row \in Int
    BY <1>1, <1>2
  <2>3. QED
    BY <1>4, <2>1, <2>2
<1>10. CASE HoldsRow(m.rows, m.cols, q, row)
  <2>1. k \in 0 .. block.rows.rows - 1
    BY <1>8, <1>9, <1>10
  <2>2. first + k = row
    BY <1>1, <1>2, <1>4
  <2>3. Row(t, k) = SliceRow(Row(m, row), cols)
    BY <1>3, <1>5, <2>1, <2>2
  <2>4. new = rows[h] \o PartOf(Row(m, row), cols)
    BY <1>3, <1>5, <1>7, <2>1, <2>3 DEF PartOf
  <2> HIDE DEF cols
  <2>5. Gathers(rows[h] \o PartOf(Row(m, row), cols), m, row, Trident!RankNumber(q) + 1)
    BY <1>2, <1>6, <1>10, GathersMore DEF cols
  <2>6. QED
    BY <2>4, <2>5 DEF new, row, t, block
<1>11. CASE ~HoldsRow(m.rows, m.cols, q, row)
  <2>1. new = rows[h]
    BY <1>5, <1>7, <1>8, <1>9, <1>11
  <2>2. Gathers(rows[h], m, row, Trident!RankNumber(q) + 1)
    BY <1>6, <1>11, GathersSame
  <2>3. QED
    BY <2>1, <2>2 DEF new, row, t, block
<1>12. QED
  BY <1>10, <1>11

\* Rank 0 has one rank's entries more once it has put its tile in place.
LEMMA GathersRowsMore ==
  ASSUME NEW m, Readable(m), RowsTidy(m), NEW n \in 0 .. Places - 1, NEW rows,
         GathersRows(rows, m, n)
  PROVE  LET q == Trident!RankList[n + 1]
         IN GathersRows(Trident!withBlock(rows, Tile(m, q), Trident!matrixBlock(m.rows, m.cols, q)),
                        m, n + 1)
<1> DEFINE q == Trident!RankList[n + 1]
           new == Trident!withBlock(rows, Tile(m, q), Trident!matrixBlock(m.rows, m.cols, q))
<1>1. q \in Trident!Rank /\ Trident!RankNumber(q) = n
  <2>1. n + 1 \in 1 .. Places /\ (n + 1) - 1 = n
    BY RankListIs
  <2>2. QED
    BY <2>1, RankListIs
<1> HIDE DEF q
<1>2. ListOf(new, m.rows)
  BY WithBlockList DEF GathersRows
<1>3. ASSUME NEW h \in 1 .. m.rows PROVE Gathers(new[h], m, h - 1, n + 1)
  BY <1>1, GatheredNext
<1>4. GathersRows(new, m, n + 1)
  BY <1>2, <1>3 DEF GathersRows
<1>5. QED
  BY <1>4 DEF q

\* Once it has every rank's, it has the rows of the matrix.
LEMMA RowsGathered ==
  ASSUME NEW m, Readable(m), RowsTidy(m), NEW rows, GathersRows(rows, m, Places)
  PROVE  ListOf(rows, m.rows) /\ \A k \in 1 .. m.rows : rows[k] = Row(m, k - 1)
<1>1. ASSUME NEW k \in 1 .. m.rows PROVE rows[k] = Row(m, k - 1)
  <2>1. k - 1 \in 0 .. m.rows - 1
    BY ReadableIs
  <2>2. Gathers(rows[k], m, k - 1, Places)
    BY DEF GathersRows
  <2>3. QED
    BY <2>1, <2>2, GatheredRow
<1>2. QED
  BY <1>1 DEF GathersRows

\* Sorting leaves a sorted row as it is.
LEMMA SortedStays ==
  ASSUME NEW row \in Seq(Entry), InOrder(row)
  PROVE  Trident!sortedRow(row) = row
<1> DEFINE N == Len(row)
           D == 1 .. N
<1>1. N \in Nat /\ DOMAIN row = D
  BY RowParts
<1>2. \A i \in D : row[i].column \in Nat /\ row[i].value \in Int
  <2>1. \A i \in D : row[i] \in Entry
    BY RowParts
  <2>2. QED
    BY <2>1 DEF Entry
<1>3. \A i, j \in D : i < j => row[i].column < row[j].column
  BY <1>1 DEF InOrder
<1> HIDE DEF D
<1>4. ASSUME NEW p \in D PROVE Trident!placeOf(row, p) = p
  <2> DEFINE T == {j \in DOMAIN row : /\ Trident!inOrder(row[j], row[p])
                                      /\ row[j] = row[p] => j <= p}
  <2>1. ASSUME NEW j \in D
        PROVE  Trident!inOrder(row[j], row[p]) /\ (row[j] = row[p] => j <= p) <=> j <= p
    <3>1. j \in Int /\ p \in Int
      BY <1>1 DEF D
    <3>2. row[j].column \in Int /\ row[p].column \in Int
      BY <1>2, <2>1
    <3>3. CASE j < p
      <4>1. row[j].column < row[p].column
        BY <1>3, <2>1, <3>3
      <4>2. QED
        BY <3>1, <3>3, <4>1 DEF Trident!inOrder
    <3>4. CASE j = p
      <4>1. row[p].value \in Int
        BY <1>2
      <4>2. QED
        BY <3>1, <3>2, <3>4, <4>1 DEF Trident!inOrder
    <3>5. CASE p < j
      <4>1. row[p].column < row[j].column
        BY <1>3, <2>1, <3>5
      <4>2. ~(row[j].column < row[p].column) /\ row[j].column # row[p].column
        BY <3>2, <4>1
      <4>3. ~Trident!inOrder(row[j], row[p])
        BY <4>2 DEF Trident!inOrder
      <4>4. QED
        BY <3>1, <3>5, <4>3
    <3>6. QED
      BY <3>1, <3>3, <3>4, <3>5
  <2>2. T = 1 .. p
    <3>1. T = {j \in D : j <= p}
      BY <1>1, <2>1
    <3>2. {j \in D : j <= p} = 1 .. p
      BY <1>1 DEF D
    <3>3. QED
      BY <3>1, <3>2
  <2>3. Trident!placeOf(row, p) = Cardinality(T)
    BY DEF Trident!placeOf, Trident!Cardinality, Cardinality
  <2>4. p \in Nat /\ p - 1 + 1 = p
    BY <1>1 DEF D
  <2> HIDE DEF T
  <2>5. Cardinality(1 .. p) = p
    <3>1. 1 \in Int /\ p \in Int
      BY <2>4
    <3>2. Cardinality(1 .. p) = IF 1 > p THEN 0 ELSE p - 1 + 1
      BY <3>1, FS_Interval
    <3>3. 1 <= p
      BY <1>1 DEF D
    <3>4. QED
      BY <2>4, <3>2, <3>3
  <2>6. QED
    BY <2>2, <2>3, <2>5
<1>5. ASSUME NEW i \in D PROVE (CHOOSE p \in DOMAIN row : Trident!placeOf(row, p) = i) = i
  BY <1>1, <1>4
<1>6. row = [i \in D |-> row[i]]
  BY <1>1
<1>7. Trident!sortedRow(row) = [i \in D |-> row[i]]
  <2>1. Trident!sortedRow(row)
          = [i \in DOMAIN row |-> row[CHOOSE p \in DOMAIN row : Trident!placeOf(row, p) = i]]
    BY DEF Trident!sortedRow
  <2>2. QED
    BY <1>1, <1>5, <2>1
<1>8. QED
  BY <1>6, <1>7

\* A matrix is the one its rows make.
LEMMA MatrixOfRows ==
  ASSUME NEW m, Readable(m), NEW ss, ListOf(ss, m.rows),
         \A k \in 1 .. m.rows : ss[k] = Row(m, k - 1)
  PROVE  CsrMatrix(ss, m.cols) = m
<1> DEFINE N == m.rows
           E == EntryBelow(m.cols)
           F == Seq(E)
           c == CsrMatrix(ss, m.cols)
<1>1. /\ m \in AnyCsr /\ ValidOffsets(m) /\ N \in Nat /\ m.cols \in Nat
      /\ \A k \in 0 .. N - 1 : Row(m, k) \in F
  BY ReadableIs
<1>2. ASSUME NEW k \in 1 .. N PROVE ss[k] \in F
  <2>1. k - 1 \in 0 .. N - 1
    BY <1>1
  <2>2. QED
    BY <1>1, <2>1
<1>3. ss \in Seq(F) /\ Len(ss) = N
  <2> HIDE DEF F, N
  <2>1. ss = [k \in 1 .. N |-> ss[k]]
    BY DEF ListOf, N
  <2>2. QED
    BY ONLY <1>1, <1>2, <2>1, SeqBy
<1>4. /\ Readable(c) /\ c.rows = N /\ c.cols = m.cols
      /\ \A k \in 0 .. N - 1 : Row(c, k) = ss[k + 1]
  BY <1>1, <1>3, CsrMatrixReadable
<1> HIDE DEF c
<1>5. c \in AnyCsr /\ ValidOffsets(c)
  BY <1>4, ReadableIs
<1>6. ASSUME NEW k \in 0 .. m.rows - 1 PROVE Row(c, k) = Row(m, k)
  <2>1. k + 1 \in 1 .. m.rows /\ (k + 1) - 1 = k
    BY <1>1
  <2>2. QED
    BY <1>4, <2>1
<1>7. c = m
  BY <1>1, <1>4, <1>5, <1>6, SameRows
<1>8. QED
  BY <1>7 DEF c

\* What rank 0 makes of the rows it has collected.
LEMMA CollectedIs ==
  ASSUME NEW m, Readable(m), RowsTidy(m), NEW rows, GathersRows(rows, m, Places)
  PROVE  Trident!CsrMatrix([k \in DOMAIN rows |-> Trident!sortedRow(rows[k])], m.cols) = m
<1> DEFINE ss == [k \in DOMAIN rows |-> Trident!sortedRow(rows[k])]
<1>1. ListOf(rows, m.rows) /\ \A k \in 1 .. m.rows : rows[k] = Row(m, k - 1)
  BY RowsGathered
<1>2. DOMAIN rows = 1 .. m.rows
  BY <1>1 DEF ListOf
<1>3. ListOf(ss, m.rows)
  BY <1>2 DEF ListOf
<1>4. ASSUME NEW k \in 1 .. m.rows PROVE ss[k] = Row(m, k - 1)
  <2>1. k - 1 \in 0 .. m.rows - 1
    BY ReadableIs
  <2>2. Row(m, k - 1) \in Seq(Entry)
    BY <2>1, ReadableIs
  <2>3. InOrder(Row(m, k - 1))
    BY <2>1 DEF RowsTidy, Tidy
  <2>4. ss[k] = Trident!sortedRow(Row(m, k - 1))
    BY <1>1, <1>2
  <2>5. QED
    BY <2>2, <2>3, <2>4, SortedStays
<1> HIDE DEF ss
<1>5. CsrMatrix(ss, m.cols) = m
  BY <1>3, <1>4, MatrixOfRows
<1>6. QED
  BY <1>5, TridentRows DEF ss

-----------------------------------------------------------------------------
(* A Trident product                                                       *)

\* The rows of the serial product are in order and without zeros.
LEMMA SerialRowsTidy ==
  ASSUME NEW x, NEW y, Multipliable(x, y)
  PROVE  RowsTidy(serialSpgemm(x, y))
<1>1. /\ serialSpgemm(x, y).rows = x.rows
      /\ \A k \in 0 .. x.rows - 1 : Row(serialSpgemm(x, y), k) = ResultRow(x, y, k)
  BY SerialReadable
<1>2. ASSUME NEW k \in 0 .. x.rows - 1 PROVE Tidy(ResultRow(x, y, k))
  BY ResultRowIs
<1>3. QED
  BY <1>1, <1>2 DEF RowsTidy

\* The tiles all ranks hold of a matrix have its entries.
LEMMA NnzOfTiles ==
  ASSUME NEW m, Readable(m), NEW tiles, HoldsTiles(m, tiles)
  PROVE  Trident!nnzOfRanks(tiles) = Nnz(m)
<1> DEFINE t == [n \in 1 .. Places |-> Nnz(Tile(m, Trident!RankList[n]))]
<1>1. SumUp(t, Places) = Nnz(m)
  BY TilesHoldAll
<1>2. SumUp(t, Places) = SumOf(t)
  <2>1. [i \in 1 .. Places |-> t[i]] = t
    OBVIOUS
  <2>2. QED
    BY <2>1 DEF SumUp
<1>3. DOMAIN Trident!RankList = 1 .. Places
      /\ \A n \in 1 .. Places : Trident!RankList[n] \in Trident!Rank
  BY RankListIs
<1>4. [n \in DOMAIN Trident!RankList |-> Trident!Nnz(tiles[Trident!RankList[n]])] = t
  BY <1>3, TridentRows DEF HoldsTiles
<1>5. Trident!nnzOfRanks(tiles)
        = Trident!SumOf([n \in DOMAIN Trident!RankList |-> Trident!Nnz(tiles[Trident!RankList[n]])])
  BY DEF Trident!nnzOfRanks, Trident!OnAllRanks
<1> HIDE DEF t
<1>6. QED
  BY <1>1, <1>2, <1>4, <1>5, TridentSums

\* The program's own checks of its counts hold.
LEMMA MetricsAgree ==
  ASSUME Multipliable(a, b), HoldsTiles(a, localA), HoldsTiles(b, localB),
         HoldsTiles(serialSpgemm(a, b), localC), result = serialSpgemm(a, b)
  PROVE  Trident!metricsAgree
<1>1. Readable(a) /\ Readable(b)
  BY DEF Multipliable, Readable
<1>2. Readable(serialSpgemm(a, b))
  BY SerialReadable
<1>3. Trident!nnzOfRanks(localA) = Trident!Nnz(a)
  BY <1>1, NnzOfTiles, TridentRows
<1>4. Trident!nnzOfRanks(localB) = Trident!Nnz(b)
  BY <1>1, NnzOfTiles, TridentRows
<1>5. Trident!nnzOfRanks(localC) = Trident!Nnz(result)
  BY <1>2, NnzOfTiles, TridentRows
<1>6. Trident!SumOf([n \in DOMAIN Trident!RankList |-> Trident!scalarProductsOf(Trident!RankList[n])])
        = Trident!scalarMultiplicationCount(a, b)
  <2> DEFINE t == [n \in 1 .. Places |-> Trident!scalarProductsOf(Trident!RankList[n])]
  <2>1. SumUp(t, Places) = scalarMultiplicationCount(a, b)
    BY WorkOverRanks
  <2>2. SumUp(t, Places) = SumOf(t)
    <3>1. [i \in 1 .. Places |-> t[i]] = t
      OBVIOUS
    <3>2. QED
      BY <3>1 DEF SumUp
  <2>3. DOMAIN Trident!RankList = 1 .. Places
    BY RankListIs
  <2>4. QED
    BY <2>1, <2>2, <2>3, TridentSums, TridentProducts
<1>7. QED
  BY <1>3, <1>4, <1>5, <1>6 DEF Trident!metricsAgree, Trident!OnAllRanks

\* What the ranks plan of every stage is what its slices need.
Planned(st, y) ==
  \A r \in Trident!Rank : \A s \in 0 .. Side - 1 :
    PlansStack(st[r][s], NodeSlices(y, Trident!inner(r, s), r.col), NodeSize,
               NodeRows(y.cols, r.col).rows)

\* Every rank has added up the first n stages.
AccumulateAll(acc, x, y, n) == \A r \in Trident!Rank : Accumulates(acc[r], x, y, r, n)

\* The strengthening: what each rank and rank 0 hold at every step, said of
\* the operands alone.
TridentIInv ==
  /\ Multipliable(a, b) /\ b.rows <= MaxDimension
  /\ pc \in {"distribute", "plan", "multiply", "gather", "metrics", "done"}
  /\ pc # "distribute" => HoldsTiles(a, localA) /\ HoldsTiles(b, localB)
  /\ pc = "multiply" => /\ stage \in 0 .. Side
                        /\ Planned(stages, b)
                        /\ AccumulateAll(accumulator, a, b, stage)
  /\ pc \in {"gather", "metrics", "done"} => HoldsTiles(serialSpgemm(a, b), localC)
  /\ pc = "gather" => /\ stage \in 0 .. Places
                      /\ GathersRows(collected, serialSpgemm(a, b), stage)
  /\ pc \in {"metrics", "done"} => result = serialSpgemm(a, b)

\* The strengthening at the start and after every action.
LEMMA TridentInitEstablishesIInv ==
  ASSUME Trident!Init
  PROVE  TridentIInv
<1>1. Multipliable(a, b) /\ b.rows <= MaxDimension
  BY OperandsAssumption, DimensionAssumption DEF Trident!Init
<1>2. QED
  BY <1>1 DEF Trident!Init, TridentIInv

LEMMA DistributeKeepsTrident ==
  ASSUME TridentIInv, Trident!Distribute
  PROVE  TridentIInv'
<1>1. pc = "distribute" /\ pc' = "plan" /\ a' = a /\ b' = b
  BY DEF Trident!Distribute
<1>2. HoldsTiles(a, localA')
  BY DEF HoldsTiles, Tile, Trident!Distribute
<1>3. HoldsTiles(b, localB')
  BY DEF HoldsTiles, Tile, Trident!Distribute
<1>4. QED
  BY <1>1, <1>2, <1>3 DEF TridentIInv

LEMMA PreparePlanKeepsTrident ==
  ASSUME TridentIInv, Trident!PreparePlan
  PROVE  TridentIInv'
<1>1. /\ pc = "plan" /\ a' = a /\ b' = b /\ localA' = localA /\ localB' = localB
      /\ stage' = 0
  BY DEF Trident!PreparePlan
<1>2. /\ Multipliable(a, b) /\ b.rows <= MaxDimension
      /\ HoldsTiles(a, localA) /\ HoldsTiles(b, localB)
  BY <1>1 DEF TridentIInv
<1>3. Readable(b)
  BY <1>2 DEF Multipliable, Readable
<1>4. Trident!Round = 0 .. Side - 1
  BY DEF Trident!Round
<1>5. \A r \in Trident!Rank, s \in Trident!Round : Trident!plannable(r, s)
  BY <1>2, <1>4, PlannableIs
<1>6. /\ pc' = "multiply"
      /\ stages' = [r \in Trident!Rank |-> [s \in Trident!Round |-> Trident!stageOf(r, s)]]
      /\ accumulator' = [r \in Trident!Rank |-> [k \in 1 .. localA[r].rows |-> <<>>]]
  BY <1>5 DEF Trident!PreparePlan
<1>7. Planned(stages', b)
  <2>1. ASSUME NEW r \in Trident!Rank, NEW s \in 0 .. Side - 1
        PROVE  PlansStack(Trident!stageOf(r, s), NodeSlices(b, Trident!inner(r, s), r.col),
                          NodeSize, NodeRows(b.cols, r.col).rows)
    BY <1>2, <1>3, StagePlan
  <2>2. QED
    BY <1>4, <1>6, <2>1 DEF Planned
<1>8. AccumulateAll(accumulator', a, b, 0)
  <2>1. ASSUME NEW r \in Trident!Rank
        PROVE  Accumulates(accumulator'[r], a, b, r, 0)
    <3>1. accumulator'[r] = [k \in 1 .. Tile(a, r).rows |-> <<>>]
      BY <1>2, <1>6 DEF HoldsTiles
    <3>2. QED
      BY <1>2, <3>1, AccumulatesNone
  <2>2. QED
    BY <2>1 DEF AccumulateAll
<1>9. 0 \in 0 .. Side
  BY SidesAssumption
<1>10. QED
  BY <1>1, <1>2, <1>6, <1>7, <1>8, <1>9 DEF TridentIInv

LEMMA MultiplyStageKeepsTrident ==
  ASSUME TridentIInv, Trident!MultiplyStage
  PROVE  TridentIInv'
<1>1. /\ pc = "multiply" /\ pc' = pc /\ a' = a /\ b' = b /\ localA' = localA /\ localB' = localB
      /\ stages' = stages /\ stage' = stage + 1 /\ stage < Side
      /\ accumulator' = [r \in Trident!Rank |->
           Trident!addProduct(accumulator[r], localA[Trident!aSource(r, stage)],
                              Trident!panelOf(r))]
  BY DEF Trident!MultiplyStage
<1>2. /\ Multipliable(a, b) /\ b.rows <= MaxDimension
      /\ HoldsTiles(a, localA) /\ HoldsTiles(b, localB)
      /\ stage \in 0 .. Side /\ Planned(stages, b) /\ AccumulateAll(accumulator, a, b, stage)
  BY <1>1 DEF TridentIInv
<1>3. Readable(b)
  BY <1>2 DEF Multipliable, Readable
<1>4. stage \in 0 .. Side - 1 /\ stage + 1 \in 0 .. Side
  BY <1>1, <1>2, SidesAssumption
<1>5. ASSUME NEW r \in Trident!Rank
      PROVE  Accumulates(accumulator'[r], a, b, r, stage + 1)
  <2>1. IsPanel(Trident!panelOf(r), b, Trident!inner(r, stage), r.col)
    <3>1. Trident!panelOf(r)
            = Trident!assemble(stages[r][stage], NodeSlices(b, Trident!inner(r, stage), r.col))
      <4>1. [k \in 1 .. NodeSize |->
              localB[Trident!bSource(Trident!rankAt(r.row, r.col, k - 1), stage)]]
              = NodeSlices(b, Trident!inner(r, stage), r.col)
        BY <1>2, <1>3, <1>4, StagePlan
      <4>2. QED
        BY <4>1 DEF Trident!panelOf
    <3>2. PlansStack(stages[r][stage], NodeSlices(b, Trident!inner(r, stage), r.col), NodeSize,
                     NodeRows(b.cols, r.col).rows)
      BY <1>2, <1>4 DEF Planned
    <3>3. Trident!inner(r, stage) \in 0 .. Side - 1 /\ r.col \in 0 .. Side - 1
      BY <1>4, InnerIs, PlaceIs
    <3>4. QED
      BY <1>3, <3>1, <3>2, <3>3, PanelIs
  <2>2. localA[Trident!aSource(r, stage)] = Tile(a, Trident!aSource(r, stage))
    BY <1>2, <1>4, InnerIs DEF HoldsTiles
  <2>3. Accumulates(accumulator[r], a, b, r, stage)
    BY <1>2 DEF AccumulateAll
  <2>4. accumulator'[r]
          = Trident!addProduct(accumulator[r], Tile(a, Trident!aSource(r, stage)),
                               Trident!panelOf(r))
    BY <1>1, <2>2
  <2>5. QED
    BY <1>2, <1>4, <2>1, <2>3, <2>4, AccumulatesMore
<1>6. AccumulateAll(accumulator', a, b, stage + 1)
  BY <1>5 DEF AccumulateAll
<1>7. QED
  BY <1>1, <1>2, <1>4, <1>6 DEF TridentIInv

LEMMA FinishKeepsTrident ==
  ASSUME TridentIInv, Trident!Finish
  PROVE  TridentIInv'
<1>1. /\ pc = "multiply" /\ pc' = "gather" /\ a' = a /\ b' = b
      /\ localA' = localA /\ localB' = localB
      /\ stage = Side /\ stage' = 0
      /\ collected' = [row \in 1 .. a.rows |-> <<>>]
      /\ localC' = [r \in Trident!Rank |->
           Trident!CsrMatrix([k \in DOMAIN accumulator[r] |->
                               Trident!finishedRow(Trident!accumulated(accumulator[r][k]))],
                             localB[r].cols)]
  BY DEF Trident!Finish
<1>2. /\ Multipliable(a, b) /\ b.rows <= MaxDimension
      /\ HoldsTiles(a, localA) /\ HoldsTiles(b, localB)
      /\ AccumulateAll(accumulator, a, b, Side)
  BY <1>1 DEF TridentIInv
<1>3. Readable(b)
  BY <1>2 DEF Multipliable, Readable
<1>4. HoldsTiles(serialSpgemm(a, b), localC')
  <2>1. ASSUME NEW r \in Trident!Rank
        PROVE  localC'[r] = Tile(serialSpgemm(a, b), r)
    <3>1. localB[r].cols = NodeRows(b.cols, r.col).rows
      BY <1>2, <1>3, TileShape DEF HoldsTiles
    <3>2. localC'[r] = CsrMatrix([k \in DOMAIN accumulator[r] |->
                                   finishedRow(accumulated(accumulator[r][k]))],
                                 NodeRows(b.cols, r.col).rows)
      BY <1>1, <3>1, TridentRows, TridentFinishes
    <3>3. Accumulates(accumulator[r], a, b, r, Side)
      BY <1>2 DEF AccumulateAll
    <3>4. QED
      BY <1>2, <3>2, <3>3, ResultTileIs
  <2>2. QED
    BY <2>1 DEF HoldsTiles
<1>5. GathersRows(collected', serialSpgemm(a, b), 0)
  <2>1. Readable(serialSpgemm(a, b)) /\ serialSpgemm(a, b).rows = a.rows
    BY <1>2, SerialReadable
  <2>2. QED
    BY <1>1, <2>1, GathersRowsNone
<1>6. 0 \in 0 .. Places
  BY RankListIs
<1>7. QED
  BY <1>1, <1>2, <1>4, <1>5, <1>6 DEF TridentIInv

LEMMA CollectTileKeepsTrident ==
  ASSUME TridentIInv, Trident!CollectTile
  PROVE  TridentIInv'
<1> DEFINE c == serialSpgemm(a, b)
           q == Trident!RankList[stage + 1]
           block == Trident!matrixBlock(a.rows, b.cols, q)
<1>1. /\ pc = "gather" /\ a' = a /\ b' = b
      /\ localA' = localA /\ localB' = localB /\ localC' = localC
      /\ stage < Len(Trident!RankList)
  BY DEF Trident!CollectTile
<1>2. /\ Multipliable(a, b) /\ b.rows <= MaxDimension
      /\ HoldsTiles(a, localA) /\ HoldsTiles(b, localB) /\ HoldsTiles(c, localC)
      /\ stage \in 0 .. Places /\ GathersRows(collected, c, stage)
  BY <1>1 DEF TridentIInv
<1>3. stage \in 0 .. Places - 1 /\ stage + 1 \in 0 .. Places /\ stage + 1 \in 1 .. Places
  <2>1. Len(Trident!RankList) = Places /\ Places \in Nat
    BY RankListIs
  <2>2. QED
    BY <1>1, <1>2, <2>1
<1>4. q \in Trident!Rank
  BY <1>3, RankListIs
<1>5. Readable(c) /\ RowsTidy(c) /\ c.rows = a.rows /\ c.cols = b.cols
  BY <1>2, SerialReadable, SerialRowsTidy
<1> HIDE DEF c
<1>6. localC[q] = Tile(c, q)
  BY <1>2, <1>4 DEF HoldsTiles
<1>7. localC[q].rows = block.rows.rows /\ localC[q].cols = block.cols.rows
  BY <1>4, <1>5, <1>6, TileIs
<1>8. pc' = pc /\ stage' = stage + 1 /\ collected' = Trident!withBlock(collected, localC[q], block)
  BY <1>7 DEF Trident!CollectTile
<1>9. GathersRows(collected', c, stage + 1)
  BY <1>2, <1>3, <1>5, <1>6, <1>8, GathersRowsMore
<1>10. QED
  BY <1>1, <1>2, <1>3, <1>8, <1>9 DEF TridentIInv, c

LEMMA SortRowsKeepsTrident ==
  ASSUME TridentIInv, Trident!SortRows
  PROVE  TridentIInv'
<1> DEFINE c == serialSpgemm(a, b)
<1>1. /\ pc = "gather" /\ pc' = "metrics" /\ a' = a /\ b' = b
      /\ localA' = localA /\ localB' = localB /\ localC' = localC
      /\ stage = Len(Trident!RankList)
      /\ result' = Trident!CsrMatrix([row \in DOMAIN collected |->
                                       Trident!sortedRow(collected[row])], b.cols)
  BY DEF Trident!SortRows
<1>2. /\ Multipliable(a, b) /\ b.rows <= MaxDimension
      /\ HoldsTiles(a, localA) /\ HoldsTiles(b, localB) /\ HoldsTiles(c, localC)
      /\ GathersRows(collected, c, stage)
  BY <1>1 DEF TridentIInv
<1>3. stage = Places
  BY <1>1, RankListIs
<1>4. Readable(c) /\ RowsTidy(c) /\ c.cols = b.cols
  BY <1>2, SerialReadable, SerialRowsTidy
<1> HIDE DEF c
<1>5. result' = c
  BY <1>1, <1>2, <1>3, <1>4, CollectedIs
<1>6. QED
  BY <1>1, <1>2, <1>5 DEF TridentIInv, c

LEMMA CollectMetricsKeepsTrident ==
  ASSUME TridentIInv, Trident!CollectMetrics
  PROVE  TridentIInv'
<1>1. /\ pc = "metrics" /\ a' = a /\ b' = b /\ result' = result
      /\ localA' = localA /\ localB' = localB /\ localC' = localC
      /\ pc' = IF Trident!metricsAgree THEN "done" ELSE "failed"
  BY DEF Trident!CollectMetrics
<1>2. /\ Multipliable(a, b) /\ b.rows <= MaxDimension
      /\ HoldsTiles(a, localA) /\ HoldsTiles(b, localB)
      /\ HoldsTiles(serialSpgemm(a, b), localC) /\ result = serialSpgemm(a, b)
  BY <1>1 DEF TridentIInv
<1>3. pc' = "done"
  BY <1>1, <1>2, MetricsAgree
<1>4. QED
  BY <1>1, <1>2, <1>3 DEF TridentIInv

LEMMA TridentNextKeepsIInv ==
  ASSUME TridentIInv, [Trident!Next]_(Trident!vars)
  PROVE  TridentIInv'
<1>1. CASE Trident!Distribute
  BY <1>1, DistributeKeepsTrident
<1>2. CASE Trident!PreparePlan
  BY <1>2, PreparePlanKeepsTrident
<1>3. CASE Trident!MultiplyStage
  BY <1>3, MultiplyStageKeepsTrident
<1>4. CASE Trident!Finish
  BY <1>4, FinishKeepsTrident
<1>5. CASE Trident!CollectTile
  BY <1>5, CollectTileKeepsTrident
<1>6. CASE Trident!SortRows
  BY <1>6, SortRowsKeepsTrident
<1>7. CASE Trident!CollectMetrics
  BY <1>7, CollectMetricsKeepsTrident
<1>8. CASE UNCHANGED Trident!vars
  BY <1>8 DEF Trident!vars, TridentIInv
<1>9. QED
  BY <1>1, <1>2, <1>3, <1>4, <1>5, <1>6, <1>7, <1>8 DEF Trident!Next, Trident!Stopped

\* The strengthening gives what the program promises.
LEMMA TridentIInvGives ==
  ASSUME TridentIInv
  PROVE  Trident!GatheredIsProduct /\ Trident!NeverFails
<1>1. pc # "failed"
  BY DEF TridentIInv
<1>2. ASSUME pc = "done"
      PROVE  Trident!IsProduct(result, a, b) /\ result = Trident!serialSpgemm(a, b)
  <2>1. Multipliable(a, b) /\ result = serialSpgemm(a, b)
    BY <1>2 DEF TridentIInv
  <2>2. IsProduct(serialSpgemm(a, b), a, b)
    BY <2>1, SerialIs
  <2>3. QED
    BY <2>1, <2>2, TridentProducts
<1>3. QED
  BY <1>1, <1>2 DEF Trident!GatheredIsProduct, Trident!NeverFails

\* The strengthening holds at every step of a Trident program.
LEMMA TridentIInvHolds ==
  AlgorithmsSpec => [](program = "trident" => TridentIInv)
<1> DEFINE IInv == program = "trident" => TridentIInv
<1>1. AlgorithmsInit => IInv
  BY TridentInitEstablishesIInv DEF AlgorithmsInit
<1>2. IInv /\ [AlgorithmsNext]_algorithmsVars => IInv'
  <2> SUFFICES ASSUME IInv, [AlgorithmsNext]_algorithmsVars, program' = "trident"
               PROVE  TridentIInv'
    OBVIOUS
  <2>1. CASE TridentNext
    BY <2>1, TridentNextKeepsIInv DEF TridentNext
  <2>2. CASE BaselineNext \/ ReaderNext \/ ResultNext
    BY <2>2 DEF BaselineNext, ReaderNext, ResultNext
  <2>3. CASE UNCHANGED algorithmsVars
    <3>1. program = "trident" /\ UNCHANGED Trident!vars
      BY <2>3 DEF algorithmsVars, operands, tridentOnly, Trident!vars
    <3>2. QED
      BY <3>1, TridentNextKeepsIInv
  <2> QED
    BY <2>1, <2>2, <2>3 DEF AlgorithmsNext
<1> QED
  BY <1>1, <1>2, PTL DEF AlgorithmsSpec

\* However many nodes and ranks there are and however rows and columns divide
\* among them, a Trident program puts together exactly the product a serial
\* program computes: the two cuts of the grid, the skewed order of the stages,
\* the panels made of slices and the renumbered columns fit.
THEOREM TridentProductIsRight == AlgorithmsSpec => []TridentGathersProduct
<1>1. (program = "trident" => TridentIInv) => TridentGathersProduct
  BY TridentIInvGives DEF TridentGathersProduct
<1> QED
  BY <1>1, TridentIInvHolds, PTL

\* No check of shapes and counts ever stops a Trident program on matrices it
\* accepted.
THEOREM TridentChecksHold == AlgorithmsSpec => []TridentNeverFails
<1>1. (program = "trident" => TridentIInv) => TridentNeverFails
  BY TridentIInvGives DEF TridentNeverFails
<1> QED
  BY <1>1, TridentIInvHolds, PTL

-----------------------------------------------------------------------------
(* The theorems                                                            *)

\* The strengthening holds at every step of a baseline program.
LEMMA BaselineIInvHolds ==
  AlgorithmsSpec => [](program = "baseline" => BaselineIInv)
<1> DEFINE IInv == program = "baseline" => BaselineIInv
<1>1. AlgorithmsInit => IInv
  BY BaselineInitEstablishesIInv, OperandsAssumption DEF AlgorithmsInit
<1>2. IInv /\ [AlgorithmsNext]_algorithmsVars => IInv'
  <2> SUFFICES ASSUME IInv, [AlgorithmsNext]_algorithmsVars, program' = "baseline"
               PROVE  BaselineIInv'
    OBVIOUS
  <2>1. CASE BaselineNext
    BY <2>1, BaselineNextKeepsIInv DEF BaselineNext
  <2>2. CASE TridentNext \/ ReaderNext \/ ResultNext
    BY <2>2 DEF TridentNext, ReaderNext, ResultNext
  <2>3. CASE UNCHANGED algorithmsVars
    <3>1. program = "baseline" /\ UNCHANGED vars
      BY <2>3 DEF algorithmsVars, operands, baselineOnly, vars
    <3>2. QED
      BY <3>1, BaselineNextKeepsIInv
  <2> QED
    BY <2>1, <2>2, <2>3 DEF AlgorithmsNext
<1> QED
  BY <1>1, <1>2, PTL DEF AlgorithmsSpec

\* However many ranks there are and however the rows divide among them, a
\* baseline puts together exactly the product a serial program computes, and
\* none of its checks of shapes and counts ever stops it.
THEOREM BaselineProductIsRight == AlgorithmsSpec => []BaselineGathersProduct
<1>1. (program = "baseline" => BaselineIInv) => BaselineGathersProduct
  BY BaselineIInvGivesProduct DEF BaselineGathersProduct
<1> QED
  BY <1>1, BaselineIInvHolds, PTL

\* The validation judges nothing while another program runs.
VerdictsApart ==
  IF program = "validation" THEN VerdictIInv ELSE judging = Unused

\* For every input, whatever its matrices contain: the verdict is the one of
\* the coordinates, each judged once.
THEOREM VerdictsAreRight == AlgorithmsSpec => []VerdictIsComponentwise
<1>1. AlgorithmsInit => VerdictsApart
  BY VerdictIInvBegins DEF AlgorithmsInit, NoValidation, VerdictsApart
<1>2. VerdictsApart /\ [AlgorithmsNext]_algorithmsVars => VerdictsApart'
  <2> SUFFICES ASSUME VerdictsApart, [AlgorithmsNext]_algorithmsVars PROVE VerdictsApart'
    OBVIOUS
  <2>1. CASE ResultNext
    <3>1. program = "validation" /\ program' = "validation" /\ [ValidationNext]_validationVars
      BY <2>1 DEF ResultNext
    <3>2. QED
      BY <3>1, VerdictIInvStays DEF VerdictsApart
  <2>2. CASE TridentNext \/ BaselineNext \/ ReaderNext
    <3>1. program # "validation" /\ program' = program /\ judging' = judging
      BY <2>2 DEF TridentNext, BaselineNext, ReaderNext, validationVars
    <3>2. QED
      BY <3>1 DEF VerdictsApart
  <2>3. CASE UNCHANGED algorithmsVars
    <3>1. program' = program /\ judging' = judging /\ [ValidationNext]_validationVars
      BY <2>3 DEF algorithmsVars, validationVars
    <3>2. QED
      BY <3>1, VerdictIInvStays DEF VerdictsApart
  <2>4. QED
    BY <2>1, <2>2, <2>3 DEF AlgorithmsNext
<1>3. VerdictsApart => VerdictIsComponentwise
  <2>1. CASE program = "validation"
    BY <2>1, VerdictIInvJudges DEF VerdictsApart
  <2>2. CASE program # "validation"
    BY <2>2, UnusedAssumption DEF VerdictsApart, VerdictIsComponentwise
  <2>3. QED
    BY <2>1, <2>2
<1>4. QED
  BY <1>1, <1>2, <1>3, PTL DEF AlgorithmsSpec

=============================================================================
