-------------------------------- MODULE Csr --------------------------------
(***************************************************************************)
(* Sparse matrices by rows, and their product as the program computes it   *)
(* serially.  The columns of a row come in any order and may repeat, and   *)
(* a value may be zero.                                                    *)
(*                                                                         *)
(* Values are integers: sums do not depend on the order of their terms,    *)
(* and what is lost in rounding is not modelled.                           *)
(***************************************************************************)
EXTENDS RowBlocks, SequencesExt

\* Offsets of parts with these lengths, one after the other: the k-th part
\* begins at the k-th offset.
Offsets(lengths) ==
  LET sum[k \in 0 .. Len(lengths)] == IF k = 0 THEN 0 ELSE sum[k - 1] + lengths[k]
  IN [k \in 1 .. Len(lengths) + 1 |-> sum[k - 1]]

\* The matrix with these rows, each a sequence of entries.
CsrMatrix(rows, cols) ==
  LET entries == FlattenSeq(rows)
  IN [rows    |-> Len(rows),
      cols    |-> cols,
      rowPtr  |-> Offsets([k \in DOMAIN rows |-> Len(rows[k])]),
      columns |-> [i \in DOMAIN entries |-> entries[i].column],
      values  |-> [i \in DOMAIN entries |-> entries[i].value]]

NoMatrix == CsrMatrix(<<>>, 0)

Nnz(m) == Len(m.values)

\* The entries of a row; rows count from 0 as in the program.
Row(m, row) ==
  [i \in 1 .. m.rowPtr[row + 2] - m.rowPtr[row + 1] |->
    [column |-> m.columns[m.rowPtr[row + 1] + i],
     value  |-> m.values[m.rowPtr[row + 1] + i]]]

RowLength(m, row) == m.rowPtr[row + 2] - m.rowPtr[row + 1]

-----------------------------------------------------------------------------
(* The product                                                             *)

SumOf(numbers) ==
  LET sum[k \in 0 .. Len(numbers)] == IF k = 0 THEN 0 ELSE sum[k - 1] + numbers[k]
  IN sum[Len(numbers)]

\* The products of a row of A with the rows of B its columns name.
scalarProducts(aRow, BRow(_)) ==
  FlattenSeq([p \in DOMAIN aRow |->
    LET bRow == BRow(aRow[p].column)
    IN [t \in DOMAIN bRow |-> [column |-> bRow[t].column,
                               value  |-> aRow[p].value * bRow[t].value]]])

\* What entries add up to in a column.
ColumnSum(entries, column) ==
  SumOf([i \in DOMAIN entries |->
          IF entries[i].column = column THEN entries[i].value ELSE 0])

\* [column -> the sum of what was added to it]
accumulated(products) ==
  [column \in {products[i].column : i \in DOMAIN products} |->
    ColumnSum(products, column)]

\* A finite set of numbers, sorted.
Ascending(S) ==
  [i \in 1 .. Cardinality(S) |->
    CHOOSE n \in S : Cardinality({m \in S : m < n}) = i - 1]

\* The row of the result: sorted by column, without the sums that are zero.
finishedRow(accumulator) ==
  LET touched == {column \in DOMAIN accumulator : accumulator[column] # 0}
      sorted  == Ascending(touched)
  IN [i \in DOMAIN sorted |->
       [column |-> sorted[i], value |-> accumulator[sorted[i]]]]

serialSpgemm(a, b) ==
  CsrMatrix([k \in 1 .. a.rows |->
              finishedRow(accumulated(
                scalarProducts(Row(a, k - 1), LAMBDA row : Row(b, row))))],
            b.cols)

\* The product of matrices, coordinate by coordinate.
ValueAt(m, row, column) == ColumnSum(Row(m, row), column)

IsProduct(c, a, b) ==
  /\ c.rows = a.rows
  /\ c.cols = b.cols
  /\ \A row \in 0 .. a.rows - 1 : \A column \in 0 .. b.cols - 1 :
       ValueAt(c, row, column)
         = SumOf([k \in 1 .. b.rows |->
                   ValueAt(a, row, k - 1) * ValueAt(b, k - 1, column)])

\* How many products it takes.
scalarMultiplicationCount(a, b) ==
  SumOf([p \in DOMAIN a.columns |-> RowLength(b, a.columns[p])])

=============================================================================
