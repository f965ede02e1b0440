----------------------------- MODULE HaloInputs -----------------------------
(***************************************************************************)
(* Matrices for checking the halo of three ranks.  Four rows of B divide   *)
(* into 2, 1 and 1; seven leave gaps between the rows a rank asks for; two *)
(* leave the last rank without any.  Rows of B may be empty, and A may     *)
(* name rows several times, in any order, or not at all.                   *)
(***************************************************************************)
EXTENDS Integers, Sequences

\* Rows of B counted from 0.
LOCAL Lengths(s) == [row \in 0 .. Len(s) - 1 |-> s[row + 1]]

LOCAL PerRank3(first, second, third) ==
  [r \in 0 .. 2 |-> <<first, second, third>>[r + 1]]

LOCAL InputsWith(lengths, firsts, seconds, thirds) ==
  {[bRows |-> Len(nnz), nnz |-> Lengths(nnz), columns |-> PerRank3(a, b, c)] :
     nnz \in lengths, a \in firsts, b \in seconds, c \in thirds}

MCInputs ==
  InputsWith({<<1, 2, 0, 1>>, <<2, 0, 1, 2>>, <<0, 0, 0, 0>>},
             {<<3, 2, 3, 0>>, <<>>}, {<<0, 3, 1>>, <<2>>}, {<<1, 0, 1>>, <<>>})
  \union
  InputsWith({<<1, 2, 1, 0, 1, 1, 2>>}, {<<6, 3>>}, {<<2, 0>>}, {<<4, 0, 2>>})
  \union
  InputsWith({<<2, 1>>, <<0, 1>>}, {<<1, 1>>}, {<<>>, <<0>>}, {<<1, 0>>, <<0>>})

=============================================================================
