--------------------------- MODULE FullValidation ---------------------------
(***************************************************************************)
(* How a gathered result is judged: against each row of the product, built *)
(* again and merged with the row of the result, or (partial validation) by *)
(* the lengths of its rows only.                                           *)
(*                                                                         *)
(* Values are integers, so the serial sum and the reference agree and a    *)
(* bound stands for what rounding may add: nothing without terms, Slack    *)
(* for each of them, and no bound at all beyond MaxTerms.                  *)
(***************************************************************************)
EXTENDS Csr

CONSTANTS
  Inputs,     \* records of the operands a and b, and the result to judge
  Slack,      \* tolerated error per term
  MaxTerms    \* with more of them there is no bound

\* The five members of a CsrMatrix, whatever they contain.
AnyCsr ==
  [rows : Int, cols : Int, rowPtr : Seq(Int), columns : Seq(Int), values : Seq(Int)]

ASSUME InputsAssumption ==
  \A i \in Inputs : i.a \in AnyCsr /\ i.b \in AnyCsr /\ i.result \in AnyCsr

ASSUME BoundsAssumption == Slack \in Int /\ MaxTerms \in Int

Unavailable == -1

VARIABLES
  input,
  judging,            \* "check", "row", "merge", "done"
  currentRow,         \* the row at hand
  cells,              \* what it should be, by columns
  actual,             \* the next entry of the result
  expected,           \* the next cell
  rejected,           \* coordinates that are off
  rowNnzMismatches,   \* rows that are too long or too short
  passed

validationVars == <<input, judging, currentRow, cells, actual, expected, rejected,
                    rowNnzMismatches, passed>>

ValidationInit ==
  /\ input \in Inputs
  /\ judging = "check"
  /\ currentRow = 0
  /\ cells = <<>>
  /\ actual = 0
  /\ expected = 0
  /\ rejected = 0
  /\ rowNnzMismatches = 0
  /\ passed = FALSE

OffsetsInRange(m, k) ==
  /\ 0 <= m.rowPtr[k + 1]
  /\ m.rowPtr[k + 1] <= m.rowPtr[k + 2]
  /\ m.rowPtr[k + 2] <= Nnz(m)

ValidOffsets(m) ==
  /\ m.rows >= 0 /\ m.cols >= 0
  /\ Len(m.rowPtr) = m.rows + 1
  /\ Len(m.columns) = Nnz(m)
  /\ m.rowPtr[1] = 0
  /\ m.rowPtr[m.rows + 1] = Nnz(m)
  /\ \A k \in 0 .. m.rows - 1 : OffsetsInRange(m, k)

ColumnsInRange(m, k) ==
  \A p \in DOMAIN Row(m, k) : Row(m, k)[p].column \in 0 .. m.cols - 1

\* Slip: the order of the columns is not looked at.
validNumericCsrUnordered(m, ordered) ==
  ValidOffsets(m) /\ \A k \in 0 .. m.rows - 1 : ColumnsInRange(m, k)

validNumericCsr(m, ordered) ==
  /\ ValidOffsets(m)
  /\ \A k \in 0 .. m.rows - 1 :
       /\ ColumnsInRange(m, k)
       /\ ordered => \A p \in DOMAIN Row(m, k) :
            p > 1 => Row(m, k)[p - 1].column < Row(m, k)[p].column

\* Operands the validation builds a reference for.
Multipliable(x, y) ==
  /\ x \in AnyCsr /\ y \in AnyCsr
  /\ validNumericCsr(x, FALSE) /\ validNumericCsr(y, FALSE)
  /\ x.cols = y.rows

Check ==
  /\ judging = "check"
  /\ judging' = IF /\ validNumericCsr(input.a, FALSE)
                   /\ validNumericCsr(input.b, FALSE)
                   /\ validNumericCsr(input.result, TRUE)
                   /\ input.a.cols = input.b.rows
                   /\ input.result.rows = input.a.rows
                   /\ input.result.cols = input.b.cols
                THEN "row" ELSE "done"
  /\ UNCHANGED <<input, currentRow, cells, actual, expected, rejected,
                 rowNnzMismatches, passed>>

coordinateBound(terms) ==
  IF terms = 0 THEN 0 ELSE IF terms > MaxTerms THEN Unavailable ELSE Slack * terms

\* The products that add up to a row.
ProductsOf(k) == scalarProducts(Row(input.a, k), LAMBDA r : Row(input.b, r))

Terms(products, column) ==
  Cardinality({i \in DOMAIN products : products[i].column = column})

buildFullRow(k) ==
  LET products    == ProductsOf(k)
      accumulator == accumulated(products)
      sorted      == Ascending(DOMAIN accumulator)
  IN [i \in DOMAIN sorted |->
       [column    |-> sorted[i],
        reference |-> accumulator[sorted[i]],
        bound     |-> coordinateBound(Terms(products, sorted[i]))]]

nonZeros(row) == Cardinality({i \in DOMAIN row : row[i].reference # 0})

BeginRow ==
  /\ judging = "row"
  /\ currentRow < input.a.rows
  /\ cells' = buildFullRow(currentRow)
  /\ rowNnzMismatches' =
       rowNnzMismatches
       + (IF RowLength(input.result, currentRow) # nonZeros(cells') THEN 1 ELSE 0)
  /\ actual' = 1
  /\ expected' = 1
  /\ judging' = "merge"
  /\ UNCHANGED <<input, currentRow, rejected, passed>>

Stored == Row(input.result, currentRow)

accepted(v, cell) ==
  /\ cell.bound # Unavailable
  /\ v - cell.reference <= cell.bound
  /\ cell.reference - v <= cell.bound

NoCell(column) == [column |-> column, reference |-> 0, bound |-> 0]

Judge(v, cell) == rejected' = rejected + (IF accepted(v, cell) THEN 0 ELSE 1)

\* The entry comes before the next cell: nothing is expected there.
OnlyStored ==
  /\ judging = "merge"
  /\ actual <= Len(Stored)
  /\ expected <= Len(cells) => Stored[actual].column < cells[expected].column
  /\ Judge(Stored[actual].value, NoCell(Stored[actual].column))
  /\ actual' = actual + 1
  /\ UNCHANGED <<input, judging, currentRow, cells, expected, rowNnzMismatches, passed>>

Expected ==
  /\ judging = "merge"
  /\ expected <= Len(cells)
  /\ actual <= Len(Stored) => Stored[actual].column >= cells[expected].column
  /\ IF actual <= Len(Stored) /\ Stored[actual].column = cells[expected].column
     THEN /\ Judge(Stored[actual].value, cells[expected])
          /\ actual' = actual + 1
     ELSE /\ Judge(0, cells[expected])
          /\ UNCHANGED actual
  /\ expected' = expected + 1
  /\ UNCHANGED <<input, judging, currentRow, cells, rowNnzMismatches, passed>>

EndRow ==
  /\ judging = "merge"
  /\ actual > Len(Stored)
  /\ expected > Len(cells)
  /\ currentRow' = currentRow + 1
  /\ judging' = "row"
  /\ UNCHANGED <<input, cells, actual, expected, rejected, rowNnzMismatches, passed>>

Finish ==
  /\ judging = "row"
  /\ currentRow = input.a.rows
  /\ passed' = (rejected = 0)
  /\ judging' = "done"
  /\ UNCHANGED <<input, currentRow, cells, actual, expected, rejected, rowNnzMismatches>>

Judged == judging = "done" /\ UNCHANGED validationVars

ValidationNext == Check \/ BeginRow \/ OnlyStored \/ Expected \/ EndRow \/ Finish \/ Judged

ValidationSpec == ValidationInit /\ [][ValidationNext]_validationVars

-----------------------------------------------------------------------------
(* Partial validation                                                      *)

buildPartialReference == [k \in 0 .. input.a.rows - 1 |-> nonZeros(buildFullRow(k))]

comparePartialReference ==
  LET rowNnz == buildPartialReference
  IN Cardinality({k \in DOMAIN rowNnz : rowNnz[k] # RowLength(input.result, k)})

-----------------------------------------------------------------------------

Coordinates == (0 .. input.a.rows - 1) \X (0 .. input.b.cols - 1)

\* The result differs from the product by more than its terms may cost.
Off(at) ==
  LET products == ProductsOf(at[1])
      error    == ValueAt(input.result, at[1], at[2]) - ColumnSum(products, at[2])
      bound    == coordinateBound(Terms(products, at[2]))
  IN bound = Unavailable \/ error > bound \/ -error > bound

\* The merge judges every coordinate once, the ones only one side stores
\* against zero: it passes a result exactly when no coordinate is off, rejects
\* as many as there are, and never passes a row whose columns are out of
\* order or repeated.  It counts the rows of the wrong length as the partial
\* validation does.
VerdictIsComponentwise ==
  judging = "done" =>
    IF /\ validNumericCsr(input.a, FALSE)
       /\ validNumericCsr(input.b, FALSE)
       /\ validNumericCsr(input.result, FALSE)
       /\ \A k \in 0 .. input.result.rows - 1 :
            \A p, q \in DOMAIN Row(input.result, k) :
              p < q => Row(input.result, k)[p].column < Row(input.result, k)[q].column
       /\ input.a.cols = input.b.rows
       /\ input.result.rows = input.a.rows
       /\ input.result.cols = input.b.cols
    THEN /\ rejected = Cardinality({at \in Coordinates : Off(at)})
         /\ passed = (rejected = 0)
         /\ rowNnzMismatches = comparePartialReference
    ELSE ~passed

=============================================================================
