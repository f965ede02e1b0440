---------------------------- MODULE CsrMessages ----------------------------
(***************************************************************************)
(* A matrix on its way between rank 0 and another rank: four messages with *)
(* tags of their own, where an array without elements is no message.  The  *)
(* receiver sizes its arrays from the header.                              *)
(***************************************************************************)
EXTENDS Csr

CONSTANT
  Ranks   \* MPI ranks, numbered from 0

ASSUME RanksAssumption == Ranks \in Nat \ {0}

VARIABLE
  wire   \* [<<way, peer, part>> -> payloads in flight]

Rank == 0 .. Ranks - 1

\* Out from rank 0, or back to it.
Way == {"out", "back"}

Part == {"header", "rowPtr", "columns", "values"}

NothingInFlight == [link \in Way \X Rank \X Part |-> <<>>]

Parts(m) ==
  [header  |-> <<m.rows, m.cols, Nnz(m)>>,
   rowPtr  |-> m.rowPtr,
   columns |-> m.columns,
   values  |-> m.values]

\* The wire after matrixFor[peer] left for every peer in peers.
Sent(way, peers, matrixFor) ==
  [link \in DOMAIN wire |->
    IF link[1] = way /\ link[2] \in peers /\ Parts(matrixFor[link[2]])[link[3]] # <<>>
    THEN Append(wire[link], Parts(matrixFor[link[2]])[link[3]])
    ELSE wire[link]]

\* What the next matrix from the peer announces.
Announced(way, peer) ==
  LET header == Head(wire[<<way, peer, "header">>])
  IN [header |-> 3, rowPtr |-> header[1] + 1,
      columns |-> header[3], values |-> header[3]]

\* The header is there, and every array it announces.
Arrived(way, peer) ==
  /\ wire[<<way, peer, "header">>] # <<>>
  /\ \A part \in Part : Announced(way, peer)[part] > 0 =>
       /\ wire[<<way, peer, part>>] # <<>>
       /\ Len(Head(wire[<<way, peer, part>>])) = Announced(way, peer)[part]

Received(way, peer) ==
  LET header == Head(wire[<<way, peer, "header">>])
      array(part) == IF Announced(way, peer)[part] = 0 THEN <<>>
                     ELSE Head(wire[<<way, peer, part>>])
  IN [rows    |-> header[1],
      cols    |-> header[2],
      rowPtr  |-> array("rowPtr"),
      columns |-> array("columns"),
      values  |-> array("values")]

\* The wire after the peer's next matrix was received.
Taken(way, peer) ==
  [link \in DOMAIN wire |->
    IF link[1] = way /\ link[2] = peer /\ Announced(way, peer)[link[3]] > 0
    THEN Tail(wire[link]) ELSE wire[link]]

=============================================================================
