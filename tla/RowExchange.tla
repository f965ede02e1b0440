---------------------------- MODULE RowExchange ----------------------------
(***************************************************************************)
(* What the halo exchange of a row-partitioned baseline promises the local *)
(* product, whatever carries the rows.                                     *)
(*                                                                         *)
(* The ranks compute the same product in rounds.  Nobody starts a round    *)
(* before everybody has finished the round before, so that a sample times  *)
(* one product.  From the first row it looks up to the last, the product   *)
(* of a rank finds under each column of its block of A the row of B that   *)
(* the column names, as its owner holds it.                                *)
(***************************************************************************)
EXTENDS Integers, Sequences

CONSTANTS
  Ranks,       \* MPI ranks, numbered from 0
  MaxRounds,   \* bound: products every rank computes
  NoRows       \* what a rank that does not multiply looks up

VARIABLES
  input,   \* the matrices, see RowHalo
  round,   \* [rank -> rounds it has started]
  status,  \* [rank -> Status]
  rows     \* [rank -> [column of A -> row of B], or NoRows]

vars == <<input, round, status, rows>>

Status == {"waiting", "exchange", "multiply", "done"}

Rank == 0 .. Ranks - 1

\* An entry of B is named by its row and its place in the row.
RowOfB(row) == [i \in 1 .. input.nnz[row] |-> <<row, i>>]

Needed(r) ==
  [column \in {input.columns[r][i] : i \in DOMAIN input.columns[r]} |->
    RowOfB(column)]

Init ==
  /\ round = [r \in Rank |-> 0]
  /\ status = [r \in Rank |-> "waiting"]
  /\ rows = [r \in Rank |-> NoRows]

Start(r) ==
  /\ status[r] = "waiting"
  /\ round[r] < MaxRounds
  /\ \A q \in Rank : \/ round[q] > round[r]
                     \/ round[q] = round[r] /\ status[q] = "waiting"
  /\ round' = [round EXCEPT ![r] = @ + 1]
  /\ status' = [status EXCEPT ![r] = "exchange"]
  /\ UNCHANGED <<input, rows>>

Look(r) ==
  /\ status[r] = "exchange"
  /\ status' = [status EXCEPT ![r] = "multiply"]
  /\ rows' = [rows EXCEPT ![r] = Needed(r)]
  /\ UNCHANGED <<input, round>>

Product(r) ==
  /\ status[r] = "multiply"
  /\ status' = [status EXCEPT ![r] = "waiting"]
  /\ rows' = [rows EXCEPT ![r] = NoRows]
  /\ UNCHANGED <<input, round>>

Close(r) ==
  /\ status[r] = "waiting"
  /\ round[r] = MaxRounds
  /\ status' = [status EXCEPT ![r] = "done"]
  /\ UNCHANGED <<input, round, rows>>

Next == \E r \in Rank : Start(r) \/ Look(r) \/ Product(r) \/ Close(r)

Spec == Init /\ [][Next]_vars

=============================================================================
