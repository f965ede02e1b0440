----------------------------- MODULE FileInputs -----------------------------
(***************************************************************************)
(* Files for TLC: matrices of two rows, files of up to four lines, with    *)
(* any single line and with up to four that are well formed.               *)
(***************************************************************************)
EXTENDS Integers

LOCAL Comment == [comment |-> TRUE]

LOCAL Entry(r, c, v) == [row |-> r, column |-> c, value |-> v]

\* With indices out of range in either direction and stored zeros.
LOCAL AnyLines ==
  {Comment} \union {Entry(r, c, v) : r \in 1 .. 3, c \in 0 .. 2, v \in {0, 2}}

LOCAL GoodLines ==
  {Comment} \union {Entry(r, c, r + c) : r \in 1 .. 2, c \in 1 .. 2}

MCFiles ==
  [field    : {"real", "pattern"},
   symmetry : {"general", "symmetric", "skew-symmetric"},
   rows     : {2},
   cols     : {0, 2, 3},
   declared : 0 .. 3,
   lines    : UNION {[1 .. n -> AnyLines] : n \in 0 .. 1}
              \union UNION {[1 .. n -> GoodLines] : n \in 2 .. 4}]
=============================================================================
