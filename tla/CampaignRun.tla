----------------------------- MODULE CampaignRun -----------------------------
(***************************************************************************)
(* run: a job of a campaign measures the cases of its block that no        *)
(* earlier attempt has accepted and appends a row for each to the table    *)
(* of its variant.  All attempts here are for one node count and share     *)
(* its tables.  First, a pilot and a cached probe of each variant that the *)
(* attempt needs have to pass; their rows go to tables of their own.       *)
(*                                                                         *)
(* An attempt may fail, time out or be killed at any step.  The kernel     *)
(* then releases its locks; the files stay as they are.                    *)
(***************************************************************************)
EXTENDS Naturals, Sequences, Functions

CONSTANTS
  Attempt,    \* processes that execute run
  None,       \* no process
  Cases,      \* number of cases of the node count
  PerJob,     \* cases_per_job
  Variants,   \* number of variants
  MaxStarts   \* bound: attempts that are started

ASSUME NoneAssumption == None \notin Attempt

ASSUME PlanAssumption ==
  /\ Cases \in Nat \ {0}
  /\ PerJob \in Nat \ {0}
  /\ Variants \in Nat \ {0}
  /\ MaxStarts \in Nat

VARIABLES
  holder,  \* [Lock -> its owner]
  table,   \* [Table -> rows of the TSV file]
  state,   \* [Job -> what state/KEY.json says]
  pc,      \* [Attempt -> where it stands]
  key,     \* [Attempt -> its --key]
  work,    \* [Attempt -> what is left: pilots, probes, missing cases]
  present, \* [Attempt -> rows that perform found]
  temp,    \* [Attempt -> rows of its temporary file]
  starts   \* attempts started so far

files == <<table, state>>

attempt == <<key, work, present, temp, starts>>

runVars == <<holder, files, pc, attempt>>

Kind == {"pilot", "probe", "main"}

Variant == 0 .. Variants - 1

Case == 1 .. Cases

\* What is measured, and at the same time its row.  Pilots and probes are
\* one product each.
Observation == [kind : Kind, variant : Variant, case : Case \cup {0}]

Table == Kind \X Variant

TableOf(o) == <<o.kind, o.variant>>

\* perform locks the output root, run the whole node count.
Lock == Kind \cup {"execution"}

Job == {(c - 1) \div PerJob : c \in Case}

\* Cases run through the products, and through the variants of each.
MainCase(c) == [kind |-> "main", variant |-> (c - 1) % Variants, case |-> c]

Block(j) == {MainCase(c) : c \in {d \in Case : (d - 1) \div PerJob = j}}

TypeOK ==
  /\ holder \in [Lock -> Attempt \cup {None}]
  /\ table \in [Table -> Seq(Observation)]
  /\ state \in [Job -> {"absent", "incomplete", "complete"}]
  /\ pc \in [Attempt -> {"out", "next", "case", "append", "replace", "close"}]
  /\ key \in [Attempt -> Job]
  /\ work \in [Attempt -> SUBSET Observation]
  /\ present \in [Attempt -> SUBSET Observation]
  /\ temp \in [Attempt -> Seq(Observation)]
  /\ starts \in 0 .. MaxStarts

RunInit ==
  /\ holder = [l \in Lock |-> None]
  /\ table = [t \in Table |-> <<>>]
  /\ state = [j \in Job |-> "absent"]
  /\ pc = [a \in Attempt |-> "out"]
  /\ key = [a \in Attempt |-> 0]
  /\ work = [a \in Attempt |-> {}]
  /\ present = [a \in Attempt |-> {}]
  /\ temp = [a \in Attempt |-> <<>>]
  /\ starts = 0

-----------------------------------------------------------------------------

Rows(t) == Range(table[t])

missing(j) == {o \in Block(j) : o \notin Rows(TableOf(o))}

selected(todo) == {o.variant : o \in todo}

checks(kind, variants) == {[kind |-> kind, variant |-> v, case |-> 0] : v \in variants}

\* The first case of a variant that is still to do.
FirstCase(todo, v) ==
  LET cases == {o.case : o \in {p \in todo : p.kind = "main" /\ p.variant = v}}
  IN  CHOOSE c \in cases : \A d \in cases : c <= d

\* Pilots come before probes and probes before cases; variants are checked in
\* the order of their first cases.
Turn(todo, o) ==
  CASE o.kind = "pilot" -> FirstCase(todo, o.variant)
    [] o.kind = "probe" -> Cases + FirstCase(todo, o.variant)
    [] o.kind = "main"  -> 2 * Cases + o.case

\* What run is at.
current(a) ==
  CHOOSE o \in work[a] : \A p \in work[a] : Turn(work[a], o) <= Turn(work[a], p)

\* Slip: the lock is not asked for.
FreeNeverAsked(l) == TRUE

\* flock with LOCK_NB.
Free(l) == holder[l] = None

Start == starts < MaxStarts /\ starts' = starts + 1

Begin(a, j) ==
  LET todo == missing(j) IN
  /\ Start
  /\ pc[a] = "out"
  /\ Free("execution")
  /\ todo # {}
  /\ holder' = [holder EXCEPT !["execution"] = a]
  /\ pc' = [pc EXCEPT ![a] = "next"]
  /\ key' = [key EXCEPT ![a] = j]
  /\ work' = [work EXCEPT ![a] = checks("pilot", selected(todo))
                                 \cup checks("probe", selected(todo)) \cup todo]
  /\ UNCHANGED <<files, present, temp>>

\* Another job of the node count runs, or nothing is missing.
BeginEnd(a, j) ==
  /\ Start
  /\ pc[a] = "out"
  /\ ~Free("execution") \/ missing(j) = {}
  /\ UNCHANGED <<holder, files, pc, key, work, present, temp>>

\* perform, for the pilots, for the probes and for every missing case: what
\* has been accepted is read under the lock.
Perform(a) ==
  /\ pc[a] = "next"
  /\ work[a] # {}
  /\ LET kind == current(a).kind IN
       /\ Free(kind)
       /\ holder' = [holder EXCEPT ![kind] = a]
       /\ present' = [present EXCEPT ![a] =
                        UNION {Rows(<<kind, v>>) : v \in Variant}]
       /\ state' = IF kind = "main"
                   THEN [state EXCEPT ![key[a]] = "incomplete"] ELSE state
  /\ pc' = [pc EXCEPT ![a] = "case"]
  /\ UNCHANGED <<table, key, work, temp, starts>>

\* The case is done with.  perform goes on with the next pilot or probe, and
\* returns after the last one and after every other case.
Advance(a) ==
  LET o == current(a)
      rest == work[a] \ {o}
      on == o.kind # "main" /\ \E p \in rest : p.kind = o.kind
  IN  /\ work' = [work EXCEPT ![a] = rest]
      /\ pc' = [pc EXCEPT ![a] = IF on THEN "case" ELSE "next"]
      /\ holder' = IF on THEN holder ELSE [holder EXCEPT ![o.kind] = None]
      /\ present' = IF on THEN present ELSE [present EXCEPT ![a] = {}]

Skip(a) ==
  /\ pc[a] = "case"
  /\ current(a) \in present[a]
  /\ Advance(a)
  /\ UNCHANGED <<files, key, temp, starts>>

\* The launch finishes and validates.
Pass(a) ==
  /\ pc[a] = "case"
  /\ current(a) \notin present[a]
  /\ pc' = [pc EXCEPT ![a] = "append"]
  /\ UNCHANGED <<holder, files, attempt>>

\* The launch, the check of its result or the writing of the table fails.  A
\* failed case is noted; a failed pilot or probe ends the run (see Stop).
continues(o) == o.kind = "main"

Fail(a) ==
  /\ \/ pc[a] = "case" /\ current(a) \notin present[a]
     \/ pc[a] \in {"append", "replace"}
  /\ continues(current(a))
  /\ Advance(a)
  /\ temp' = [temp EXCEPT ![a] = <<>>]
  /\ UNCHANGED <<files, key, starts>>

\* Slip: the table is rewritten in place.
openedInPlace(t) == table' = [table EXCEPT ![t] = <<>>]

\* A temporary file is opened.
opened(t) == UNCHANGED table

\* atomic_table: the table is read and written to the temporary file.
WriteTemporary(a) ==
  LET o == current(a) IN
  /\ pc[a] = "append"
  /\ temp' = [temp EXCEPT ![a] = Append(table[TableOf(o)], o)]
  /\ opened(TableOf(o))
  /\ pc' = [pc EXCEPT ![a] = "replace"]
  /\ UNCHANGED <<holder, state, key, work, present, starts>>

\* os.replace.
Replace(a) ==
  /\ pc[a] = "replace"
  /\ table' = [table EXCEPT ![TableOf(current(a))] = temp[a]]
  /\ temp' = [temp EXCEPT ![a] = <<>>]
  /\ Advance(a)
  /\ UNCHANGED <<state, key, starts>>

\* Slip: a run that got to its end is complete.
nothingMissingAssumed(j) == TRUE

nothingMissing(j) == missing(j) = {}

\* The last state file: complete or not.
Finish(a) ==
  /\ pc[a] = "next"
  /\ work[a] = {}
  /\ state' = [state EXCEPT ![key[a]] =
                 IF nothingMissing(key[a]) THEN "complete" ELSE "incomplete"]
  /\ pc' = [pc EXCEPT ![a] = "close"]
  /\ UNCHANGED <<holder, table, attempt>>

\* Slip: a lock is a file its owner has to remove.
ReleasedByHand(a) == holder

Released(a) == [l \in Lock |-> IF holder[l] = a THEN None ELSE holder[l]]

\* The locks go with the process.
Gone(a) ==
  /\ holder' = Released(a)
  /\ pc' = [pc EXCEPT ![a] = "out"]
  /\ work' = [work EXCEPT ![a] = {}]
  /\ present' = [present EXCEPT ![a] = {}]
  /\ temp' = [temp EXCEPT ![a] = <<>>]
  /\ key' = [key EXCEPT ![a] = 0]
  /\ UNCHANGED <<files, starts>>

Close(a) == pc[a] = "close" /\ Gone(a)

\* A failed check, an error, the time limit or a kill.
Stop(a) == pc[a] \notin {"out", "close"} /\ Gone(a)

Work(a) ==
  \/ Perform(a) \/ Skip(a) \/ Pass(a) \/ Fail(a) \/ WriteTemporary(a) \/ Replace(a)
  \/ Finish(a) \/ Close(a)

\* The bound is reached.
AllRun ==
  /\ starts = MaxStarts
  /\ \A a \in Attempt : pc[a] = "out"
  /\ UNCHANGED runVars

RunNext ==
  \/ AllRun
  \/ \E a \in Attempt :
       Work(a) \/ Stop(a) \/ \E j \in Job : Begin(a, j) \/ BeginEnd(a, j)

RunSpec == RunInit /\ [][RunNext]_runVars

FairSpec == RunSpec /\ \A a \in Attempt : WF_runVars(Work(a))

-----------------------------------------------------------------------------
(* Properties                                                              *)

\* No observation is recorded twice: every later attempt would refuse the
\* table for it.
NoDuplicate == \A t \in Table : IsInjective(table[t])

\* No attempt, whenever it dies, loses what another one has recorded.
ObservationsKept == [][\A t \in Table : Rows(t) \subseteq Rows(t)']_runVars

\* A job that is reported as complete is, for good.
CompleteHasAll == \A j \in Job : state[j] = "complete" => missing(j) = {}

\* A variant is only measured after its pilot and its cached probe passed.
ChecksFirst ==
  \A v \in Variant : Rows(<<"main", v>>) # {} =>
    Rows(<<"pilot", v>>) # {} /\ Rows(<<"probe", v>>) # {}

\* What the tables hold can be taken as measured, whoever wrote it and when.
OnceAndChecked == NoDuplicate /\ ChecksFirst

\* Dead or alive, an attempt does not keep the node count from the next one.
ExecutionReleased ==
  \A a \in Attempt : holder["execution"] = a ~> holder["execution"] # a

=============================================================================
