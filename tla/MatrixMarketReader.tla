------------------------- MODULE MatrixMarketReader -------------------------
(***************************************************************************)
(* readMatrixMarket: the entries of a coordinate file, mirrored where its  *)
(* symmetry says so, brought into rows by counting.                        *)
(*                                                                         *)
(* A line is a comment (blank ones too) or an entry whose indices count    *)
(* from one.  Text that does not parse is left out.                        *)
(***************************************************************************)
EXTENDS Csr

CONSTANT Files   \* the files to read

Comment == [comment |-> TRUE]

VARIABLES
  file,          \* the one that is read
  pc,            \* "size", "entries", "rest", "count", "place", "done", "failed"
  next,          \* the line getline returns next
  entry,         \* entries read
  entriesList,   \* what they stand for, mirrored
  cursor,        \* [row -> where its next entry goes]
  matrix

vars == <<file, pc, next, entry, entriesList, cursor, matrix>>

Init ==
  /\ file \in Files
  /\ pc = "size"
  /\ next = 1
  /\ entry = 0
  /\ entriesList = <<>>
  /\ cursor = <<>>
  /\ matrix = NoMatrix

mirrored == file.symmetry # "general"

Fail == pc' = "failed" /\ UNCHANGED <<file, next, entry, entriesList, cursor, matrix>>

ReadSize ==
  /\ pc = "size"
  /\ IF \/ file.rows <= 0 \/ file.cols <= 0 \/ file.declared < 0
        \/ mirrored /\ file.rows # file.cols
     THEN Fail
     ELSE /\ pc' = "entries"
          /\ UNCHANGED <<file, next, entry, entriesList, cursor, matrix>>

SkipComment ==
  /\ pc \in {"entries", "rest"}
  /\ next <= Len(file.lines)
  /\ file.lines[next] = Comment
  /\ next' = next + 1
  /\ UNCHANGED <<file, pc, entry, entriesList, cursor, matrix>>

Line == file.lines[next]

\* A pattern has no values: its entries are ones.
value == IF file.field = "pattern" THEN 1 ELSE Line.value

Refused ==
  \/ Line.row \notin 1 .. file.rows
  \/ Line.column \notin 1 .. file.cols
  \/ file.symmetry = "skew-symmetric" /\ Line.row = Line.column /\ value # 0

At(row, column, v) == [row |-> row, column |-> column, value |-> v]

\* Slip: an entry of the diagonal is mirrored too.
standsForTwice(row, column) ==
  <<At(row, column, value)>>
  \o IF mirrored
     THEN <<At(column, row, IF file.symmetry = "skew-symmetric" THEN -value ELSE value)>>
     ELSE <<>>

standsFor(row, column) ==
  <<At(row, column, value)>>
  \o IF mirrored /\ row # column
     THEN <<At(column, row, IF file.symmetry = "skew-symmetric" THEN -value ELSE value)>>
     ELSE <<>>

ReadEntry ==
  /\ pc = "entries"
  /\ entry < file.declared
  /\ next <= Len(file.lines)
  /\ Line # Comment
  /\ IF Refused THEN Fail
     ELSE /\ entriesList' = entriesList \o standsFor(Line.row - 1, Line.column - 1)
          /\ entry' = entry + 1
          /\ next' = next + 1
          /\ UNCHANGED <<file, pc, cursor, matrix>>

EntriesEndEarly ==
  /\ pc = "entries"
  /\ entry < file.declared
  /\ next > Len(file.lines)
  /\ Fail

EntriesRead ==
  /\ pc = "entries"
  /\ entry = file.declared
  /\ pc' = "rest"
  /\ UNCHANGED <<file, next, entry, entriesList, cursor, matrix>>

ReadRest ==
  /\ pc = "rest"
  /\ \/ next <= Len(file.lines) /\ Line # Comment /\ Fail
     \/ /\ next > Len(file.lines)
        /\ pc' = "count"
        /\ UNCHANGED <<file, next, entry, entriesList, cursor, matrix>>

Count ==
  /\ pc = "count"
  /\ LET lengths == [k \in 1 .. file.rows |->
                      Cardinality({i \in DOMAIN entriesList : entriesList[i].row = k - 1})]
     IN /\ matrix' = [rows    |-> file.rows,
                      cols    |-> file.cols,
                      rowPtr  |-> Offsets(lengths),
                      columns |-> [i \in DOMAIN entriesList |-> 0],
                      values  |-> [i \in DOMAIN entriesList |-> 0]]
        /\ cursor' = Offsets(lengths)
  /\ pc' = "place"
  /\ entry' = 0
  /\ UNCHANGED <<file, next, entriesList>>

Place ==
  /\ pc = "place"
  /\ entry < Len(entriesList)
  /\ LET e == entriesList[entry + 1]
         position == cursor[e.row + 1]
     IN /\ cursor' = [cursor EXCEPT ![e.row + 1] = @ + 1]
        /\ matrix' = [matrix EXCEPT !.columns[position + 1] = e.column,
                                    !.values[position + 1] = e.value]
  /\ entry' = entry + 1
  /\ UNCHANGED <<file, pc, next, entriesList>>

Return ==
  /\ pc = "place"
  /\ entry = Len(entriesList)
  /\ pc' = "done"
  /\ UNCHANGED <<file, next, entry, entriesList, cursor, matrix>>

Returned == pc \in {"done", "failed"} /\ UNCHANGED vars

Next ==
  \/ ReadSize \/ SkipComment \/ ReadEntry \/ EntriesEndEarly \/ EntriesRead
  \/ ReadRest \/ Count \/ Place \/ Return \/ Returned

Spec == Init /\ [][Next]_vars

-----------------------------------------------------------------------------

Entries == {i \in DOMAIN file.lines : file.lines[i] # Comment}

Stored(i) == IF file.field = "pattern" THEN 1 ELSE file.lines[i].value

\* What a line says of a coordinate, counted from one.
Says(i, row, column) ==
  LET line == file.lines[i] IN
  IF line.row = row /\ line.column = column THEN Stored(i)
  ELSE IF line.row = column /\ line.column = row
  THEN CASE file.symmetry = "general" -> 0
         [] file.symmetry = "symmetric" -> Stored(i)
         [] file.symmetry = "skew-symmetric" -> -Stored(i)
  ELSE 0

\* What the file says of it.
Written(row, column) ==
  SumOf([i \in DOMAIN file.lines |->
    IF i \in Entries THEN Says(i, row, column) ELSE 0])

Sound ==
  /\ file.rows > 0 /\ file.cols > 0
  /\ Cardinality(Entries) = file.declared
  /\ file.symmetry # "general" => file.rows = file.cols
  /\ \A i \in Entries :
       /\ file.lines[i].row \in 1 .. file.rows
       /\ file.lines[i].column \in 1 .. file.cols
       /\ file.symmetry = "skew-symmetric" /\ file.lines[i].row = file.lines[i].column
            => Stored(i) = 0

\* The reader accepts the files that keep their own promises and no others,
\* and the matrix it returns has at each coordinate what the file says of it,
\* with every stored entry in the row its offsets delimit.
ReadsWhatIsWritten ==
  /\ pc = "failed" => ~Sound
  /\ pc = "done" =>
       /\ Sound
       /\ cursor = [k \in 1 .. file.rows + 1 |->
                     matrix.rowPtr[IF k <= file.rows THEN k + 1 ELSE k]]
       /\ \A row \in 1 .. file.rows : \A column \in 1 .. file.cols :
            ValueAt(matrix, row - 1, column - 1) = Written(row, column)

=============================================================================
