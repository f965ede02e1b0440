----------------------------- MODULE CsrInputs ------------------------------
(***************************************************************************)
(* Pairs of matrices for TLC: rows that are empty, unsorted, or name a     *)
(* column twice, stored zeros, and sums that cancel.                       *)
(***************************************************************************)
EXTENDS Csr

LOCAL e(c, v) == [column |-> c, value |-> v]

\* Rows over three columns.
LOCAL ARows ==
  {<<>>, <<e(1, 1)>>, <<e(2, 1), e(0, -1)>>, <<e(0, 2), e(0, 1), e(1, 3)>>}

LOCAL SmallBRows == {<<>>, <<e(1, 2), e(0, 0)>>, <<e(0, 1), e(1, 2)>>}

LOCAL SquareAs ==
  {CsrMatrix(<<x, y, x, z>>, 3) : x, y, z \in ARows}

LOCAL SquareBs ==
  {CsrMatrix(<<x, y, x>>, 2) : x, y \in SmallBRows}

\* Fewer rows than ranks, on either side.
LOCAL FlatAs == {CsrMatrix(<<x, x>>, 3) : x \in ARows}

MCProducts ==
  {[a |-> m, b |-> n] : m \in SquareAs \union FlatAs, n \in SquareBs}
  \union
  {[a |-> CsrMatrix(<<<<e(1, 1), e(0, 1)>>>>, 2), b |-> CsrMatrix(<<x, y>>, 2)] :
     x, y \in SmallBRows}

=============================================================================
