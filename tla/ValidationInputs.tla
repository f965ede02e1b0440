-------------------------- MODULE ValidationInputs --------------------------
(***************************************************************************)
(* Operands and results for TLC: results of one row by three columns and   *)
(* of two rows by two, right and wrong, with up to three terms at a        *)
(* coordinate; and matrices that are none.                                 *)
(***************************************************************************)
EXTENDS Csr

LOCAL e(c, v) == [column |-> c, value |-> v]

LOCAL Rows(cols, values, n) ==
  UNION {[1 .. k -> {e(c, v) : c \in 0 .. cols - 1, v \in values}] : k \in 0 .. n}

\* One term, two that add up, two that cancel, three (no bound), none.
LOCAL ARows ==
  {<<e(0, 1)>>, <<e(1, 1), e(0, 1)>>, <<e(0, 1), e(0, -1)>>,
   <<e(0, 1), e(1, 1), e(0, 1)>>, <<>>}

LOCAL B2 == CsrMatrix(<<<<e(1, 1)>>, <<e(0, 2), e(1, 1)>>>>, 2)

LOCAL B3 == CsrMatrix(<<<<e(2, 3), e(0, 1)>>, <<e(2, 0)>>>>, 3)

\* Matrices the checks refuse: offsets that decrease or are too few, a column
\* outside, a column missing.
LOCAL Broken ==
  {[B2 EXCEPT !.rowPtr = <<0, 4, 3>>], [B2 EXCEPT !.rowPtr = <<0, 3>>],
   [B2 EXCEPT !.columns[1] = 2], [B2 EXCEPT !.columns = <<1, 0>>]}

MCResults ==
  {[a |-> CsrMatrix(<<x>>, 2), b |-> B3, result |-> CsrMatrix(<<y>>, 3)] :
     x \in ARows, y \in Rows(3, {1, 3}, 3)}
  \union
  {[a |-> CsrMatrix(<<x, z>>, 2), b |-> B2, result |-> CsrMatrix(<<y, t>>, 2)] :
     x, z \in ARows, y, t \in Rows(2, {0, 2}, 2)}
  \union
  {[a |-> CsrMatrix(<<x>>, 2), b |-> B2, result |-> CsrMatrix(<<<<>>, y>>, 2)] :
     x \in ARows, y \in Rows(2, {2}, 1)}
  \union
  {[a |-> B2, b |-> B2, result |-> m] : m \in Broken}
  \union
  {[a |-> m, b |-> B2, result |-> B2] : m \in Broken}
=============================================================================
