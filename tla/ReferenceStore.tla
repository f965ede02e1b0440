--------------------------- MODULE ReferenceStore ---------------------------
(***************************************************************************)
(* What a reference cache promises for one key, to the processes that      *)
(* prepare the reference and to those that validate against it.            *)
(*                                                                         *)
(* The reference is absent or complete: no state is in between and no use  *)
(* fails halfway.  A machine crash may take back a publication, but never  *)
(* one that a generator has reported as its own.                           *)
(***************************************************************************)
CONSTANTS Process

VARIABLES
  store,   \* "absent", "published" or "durable"
  answer   \* [Process -> what the process was told in its last run]

vars == <<store, answer>>

Answer == {"none", "generated", "used"}

Init ==
  /\ store = "absent"
  /\ answer = [p \in Process |-> "none"]

\* A process starts over, fails or is killed: it was told nothing.
Forget(p) ==
  /\ answer' = [answer EXCEPT ![p] = "none"]
  /\ UNCHANGED store

Publish ==
  /\ store = "absent"
  /\ store' = "published"
  /\ UNCHANGED answer

Secure ==
  /\ store = "published"
  /\ store' = "durable"
  /\ UNCHANGED answer

\* A generator reports its publication once no crash can undo it.
ReportGenerated(p) ==
  /\ store # "absent"
  /\ store' = "durable"
  /\ answer' = [answer EXCEPT ![p] = "generated"]

\* A process has read and checked the whole reference.
ReportUsed(p) ==
  /\ store # "absent"
  /\ answer' = [answer EXCEPT ![p] = "used"]
  /\ UNCHANGED store

\* Everyone is gone; the crash settles whether the publication survived.
Crash ==
  /\ store' \in (IF store = "published" THEN {"absent", "durable"} ELSE {store})
  /\ answer' = [p \in Process |-> "none"]

Next ==
  \/ Publish \/ Secure \/ Crash
  \/ \E p \in Process : Forget(p) \/ ReportGenerated(p) \/ ReportUsed(p)

Spec == Init /\ [][Next]_vars

=============================================================================
