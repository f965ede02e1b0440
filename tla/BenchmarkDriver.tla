--------------------------- MODULE BenchmarkDriver ---------------------------
(***************************************************************************)
(* One benchmark program after another, as runBenchmark drives the ranks   *)
(* from one collective to the next and the root records the result in a    *)
(* table that outlives the job.                                            *)
(*                                                                         *)
(* A rank may throw wherever it is: the job is aborted, but the other      *)
(* ranks go on until the abort reaches them.  What happens inside the      *)
(* products is left to the modules of the backends.  All Trident programs  *)
(* write the same columns; a baseline between two jobs writes others, and  *)
(* is one step here.                                                       *)
(***************************************************************************)
EXTENDS Integers, Sequences

CONSTANTS
  Size,              \* ranks of a job
  Implementations,   \* the Trident programs that share the table
  Jobs,              \* bound: jobs, one after another, of baselines too
  Warmups, Samples   \* bounds: products before and under measurement

ASSUME SizeAssumption == Size \in Nat \ {0}

ASSUME BoundAssumption == Jobs \in Nat /\ Warmups \in Nat /\ Samples \in Nat

VARIABLES
  job,              \* the number of the job
  implementation,   \* of the job
  place,            \* [rank -> how many meetings of Program it has come to]
  inside,           \* [rank -> it is in the one it came to last]
  outcome,          \* [rank -> "running", or how its process ended]
  aborted,          \* some rank called MPI_Abort
  exitCode,         \* [rank -> its variable exitCode]
  newFile,          \* writeRecord found no table
  file              \* the table: whether it exists, and its lines

vars == <<job, implementation, place, inside, outcome, aborted, exitCode,
          newFile, file>>

JobRank == 0 .. Size - 1

Root == 0

Meeting(name, kind) == [name |-> name, kind |-> kind]

Repeated(n, block) ==
  [i \in 1 .. n * Len(block) |-> block[((i - 1) % Len(block)) + 1]]

\* Where the ranks meet, and where the root works alone ("none").
Program ==
  <<Meeting("grid", "all"), Meeting("shape", "fromRoot"),
    Meeting("distribution", "all"), Meeting("blocks", "fromRoot"),
    Meeting("setup", "all"), Meeting("setup complete", "all"),
    Meeting("first gather", "all"), Meeting("maxima", "toRoot")>>
  \o Repeated(Warmups, <<Meeting("warmup", "all")>>)
  \o Repeated(Samples, <<Meeting("sample", "all"), Meeting("timings", "toRoot")>>)
  \o <<Meeting("gather", "all"), Meeting("metrics", "toRoot"),
       Meeting("validate", "none"), Meeting("examine", "none"),
       Meeting("open", "none"), Meeting("append", "none"),
       Meeting("verdict", "fromRoot"), Meeting("close", "all"),
       Meeting("finalize", "all")>>

Running(r) == outcome[r] = "running"

Ended == \A r \in JobRank : ~Running(r)

At(r, name) == Running(r) /\ inside[r] /\ Program[place[r]].name = name

Enters(e) ==
  /\ place' = [r \in JobRank |-> 0]
  /\ inside' = [r \in JobRank |-> FALSE]
  /\ outcome' = [r \in JobRank |-> e]
  /\ exitCode' = [r \in JobRank |-> "success"]
  /\ aborted' = FALSE
  /\ newFile' = FALSE

Init ==
  /\ job = 0
  /\ implementation \in Implementations
  /\ place = [r \in JobRank |-> 0]
  /\ inside = [r \in JobRank |-> FALSE]
  /\ outcome = [r \in JobRank |-> "none"]
  /\ exitCode = [r \in JobRank |-> "success"]
  /\ aborted = FALSE
  /\ newFile = FALSE
  /\ file = [exists |-> FALSE, lines |-> <<>>]

-----------------------------------------------------------------------------

Enter(r) ==
  /\ Running(r)
  /\ ~inside[r]
  /\ place[r] < Len(Program)
  /\ place' = [place EXCEPT ![r] = @ + 1]
  /\ inside' = [inside EXCEPT ![r] = TRUE]
  /\ UNCHANGED <<job, implementation, outcome, aborted, exitCode, newFile, file>>

\* When MPI lets a rank out of the collective it is in.
MayLeave(r) ==
  LET kind == Program[place[r]].kind IN
  \/ kind = "all" /\ \A q \in JobRank : place[q] >= place[r]
  \/ kind = "fromRoot" /\ place[Root] >= place[r]
  \/ kind = "toRoot" /\ (r = Root => \A q \in JobRank : place[q] >= place[r])
  \/ kind = "none" /\ r # Root

Leave(r) ==
  /\ Running(r)
  /\ inside[r]
  /\ MayLeave(r)
  /\ inside' = [inside EXCEPT ![r] = FALSE]
  /\ exitCode' = IF Program[place[r]].name = "verdict"
                 THEN [exitCode EXCEPT ![r] = exitCode[Root]] ELSE exitCode
  /\ UNCHANGED <<job, implementation, place, outcome, aborted, newFile, file>>

Return(r) ==
  /\ Running(r)
  /\ ~inside[r]
  /\ place[r] = Len(Program)
  /\ outcome' = [outcome EXCEPT ![r] = exitCode[r]]
  /\ UNCHANGED <<job, implementation, place, inside, aborted, exitCode, newFile, file>>

-----------------------------------------------------------------------------

Done(r) == inside' = [inside EXCEPT ![r] = FALSE]

Validate ==
  /\ At(Root, "validate")
  /\ \E verdict \in {"success", "failure"} :
       exitCode' = [exitCode EXCEPT ![Root] = verdict]
  /\ Done(Root)
  /\ UNCHANGED <<job, implementation, place, outcome, aborted, newFile, file>>

\* The lines of a table: the names of the columns, and rows written under them.
header(columns) ==
  [header |-> TRUE, columns |-> columns, of |-> "none", job |-> 0, status |-> "none"]

rowOf(columns, i, j, status) ==
  [header |-> FALSE, columns |-> columns, of |-> i, job |-> j, status |-> status]

\* A table that exists and is empty is as good as none.
FoundNone == file.lines = <<>>

\* Slip: rows are added to whatever is there.
CompatibleAlways(columns) == TRUE

\* Only the header is compared: Trident programs accept each other's tables.
Compatible(columns) == ~FoundNone => Head(file.lines) = header(columns)

Examine ==
  /\ At(Root, "examine")
  /\ Compatible("trident")
  /\ newFile' = FoundNone
  /\ Done(Root)
  /\ UNCHANGED <<job, implementation, place, outcome, aborted, exitCode, file>>

\* The table is created before anything is written to it.
Open ==
  /\ At(Root, "open")
  /\ file' = [file EXCEPT !.exists = TRUE]
  /\ Done(Root)
  /\ UNCHANGED <<job, implementation, place, outcome, aborted, exitCode, newFile>>

\* Slip: nobody asks whether the row could be written.
AppendRowUnchecked ==
  /\ At(Root, "append")
  /\ Done(Root)
  /\ UNCHANGED <<job, implementation, place, outcome, aborted, exitCode, newFile, file>>

AppendRow ==
  /\ At(Root, "append")
  /\ file' = [file EXCEPT !.lines =
       @ \o (IF newFile THEN <<header("trident")>> ELSE <<>>)
         \o <<rowOf("trident", implementation, job, exitCode[Root])>>]
  /\ Done(Root)
  /\ UNCHANGED <<job, implementation, place, outcome, aborted, exitCode, newFile>>

-----------------------------------------------------------------------------

\* Slip: the exception ends the program of the rank that met it.
ThrowReturns(r) ==
  /\ Running(r)
  /\ outcome' = [outcome EXCEPT ![r] = "failure"]
  /\ UNCHANGED <<job, implementation, place, inside, aborted, exitCode, newFile, file>>

\* An exception, an incompatible table and a failing MPI call alike.
Throw(r) ==
  /\ Running(r)
  /\ aborted' = TRUE
  /\ outcome' = [outcome EXCEPT ![r] = "aborted"]
  /\ UNCHANGED <<job, implementation, place, inside, exitCode, newFile, file>>

\* A table with other columns makes the root throw for sure.
Refuse == At(Root, "examine") /\ ~Compatible("trident") /\ Throw(Root)

\* The abort reaches a rank.
AbortArrives(r) ==
  /\ aborted
  /\ Running(r)
  /\ outcome' = [outcome EXCEPT ![r] = "aborted"]
  /\ UNCHANGED <<job, implementation, place, inside, aborted, exitCode, newFile, file>>

\* The time limit of the job.
TimeLimit ==
  /\ ~Ended
  /\ outcome' = [r \in JobRank |-> IF Running(r) THEN "killed" ELSE outcome[r]]
  /\ UNCHANGED <<job, implementation, place, inside, aborted, exitCode, newFile, file>>

-----------------------------------------------------------------------------

\* All ranks parse the same arguments, before MPI_Init.
StartJob ==
  /\ Ended
  /\ job < Jobs
  /\ job' = job + 1
  /\ implementation' \in Implementations
  /\ \E parsed \in {"running", "usage"} : Enters(parsed)
  /\ UNCHANGED file

\* A baseline runs instead.  It refuses a table with other columns as Trident
\* does, and may be stopped when it has created the table and written nothing.
BaselineJob ==
  /\ Ended
  /\ job < Jobs
  /\ Compatible("baseline")
  /\ job' = job + 1
  /\ Enters("none")
  /\ \E lines \in
       {file.lines,
        file.lines \o (IF FoundNone THEN <<header("baseline")>> ELSE <<>>)
          \o <<rowOf("baseline", "baseline", job + 1, "success")>>} :
       file' = [exists |-> TRUE, lines |-> lines]
  /\ UNCHANGED implementation

NoMoreJobs == Ended /\ job = Jobs /\ UNCHANGED vars

RootWork == Validate \/ Examine \/ Open \/ AppendRow \/ Refuse

RankStep(r) == Enter(r) \/ Leave(r) \/ Return(r)

Next ==
  \/ StartJob
  \/ BaselineJob
  \/ RootWork
  \/ \E r \in JobRank : RankStep(r) \/ Throw(r) \/ AbortArrives(r)
  \/ TimeLimit
  \/ NoMoreJobs

\* Every rank keeps running, and an abort arrives.  Nothing need fail.
Fairness ==
  /\ WF_vars(RootWork)
  /\ \A r \in JobRank : WF_vars(RankStep(r)) /\ WF_vars(AbortArrives(r))

Spec == Init /\ [][Next]_vars /\ Fairness

-----------------------------------------------------------------------------

\* Whatever fails and where, no rank is left waiting for one that is gone.
AllEnd == \A r \in JobRank : outcome[r] = "running" ~> outcome[r] # "running"

\* What a rank returns is in the table: no rank reports a success whose row
\* was never written or says something else.
ReturnedIsRecorded ==
  \A r \in JobRank : outcome[r] \in {"success", "failure"} =>
    \E i \in 1 .. Len(file.lines) :
      file.lines[i] = rowOf("trident", implementation, job, outcome[r])

\* The table starts with a header, has no other, and every row was written
\* under the columns this header names, whichever programs took turns and
\* wherever they were killed; a job has at most one row.
TableReadable ==
  LET lines == file.lines IN
  lines # <<>> =>
    /\ lines[1].header
    /\ \A i \in 2 .. Len(lines) : ~lines[i].header /\ lines[i].columns = lines[1].columns
    /\ \A i, k \in 2 .. Len(lines) : i < k => lines[i].job < lines[k].job

=============================================================================
