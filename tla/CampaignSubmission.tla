------------------------- MODULE CampaignSubmission -------------------------
(***************************************************************************)
(* submit: a campaign's jobs are given to Slurm, in chains of jobs that    *)
(* depend on each other (one chain for each node count, or Parallelism of  *)
(* them for the references).  A receipt per job says what was submitted;   *)
(* calls exclude each other by a lock, and may die between any two steps.  *)
(***************************************************************************)
EXTENDS Naturals, Sequences

CONSTANTS
  Caller,       \* processes that call submit
  NoCaller,     \* no process
  JobCount,     \* number of jobs, in the order of the manifest
  Parallelism,  \* number of chains
  Retries,      \* allowed values of --retry-failed
  MaxIds        \* bound: jobs that Slurm accepts

ASSUME NoCallerAssumption == NoCaller \notin Caller

ASSUME ChainAssumption == Parallelism \in Nat \ {0} /\ JobCount \in Nat

ASSUME SubmitBoundAssumption == MaxIds \in Nat /\ Retries \subseteq BOOLEAN

VARIABLES
  lockOwner, \* owner of the submission lock
  receipt,   \* [Job -> submission/KEY.json]
  queue,     \* Slurm's jobs, by number
  complete,  \* [Job -> nothing of the job is missing]
  at,        \* [Caller -> where it stands]
  index,     \* [Caller -> the job its loop is at]
  retry,     \* [Caller -> its --retry-failed]
  known,     \* [Caller -> [Job -> what accounting said of its last job]]
  previous   \* [Caller -> [Pool -> the job its next one depends on]]

call == <<at, index, retry, known, previous>>

submitVars == <<lockOwner, receipt, queue, complete, call>>

ManifestJob == 0 .. JobCount - 1

Pool == 0 .. Parallelism - 1

pool(j) == j % Parallelism

NoId == 0

Id == 1 .. MaxIds

\* Only the receipt of a submitted job has a number.
Receipt == [state : {"absent", "submitting"}, id : {NoId}]
           \cup [state : {"submitted"}, id : Id]

Terminal == {"succeeded", "unsuccessful"}

SlurmJob == [job : ManifestJob, after : Id \cup {NoId},
             state : {"pending", "running"} \cup Terminal]

SubmitTypeOK ==
  /\ lockOwner \in Caller \cup {NoCaller}
  /\ receipt \in [ManifestJob -> Receipt]
  /\ queue \in Seq(SlurmJob) /\ Len(queue) <= MaxIds
  /\ complete \in [ManifestJob -> BOOLEAN]
  /\ at \in [Caller -> {"out", "loop", "sbatch", "reply"}]
  /\ index \in [Caller -> 0 .. JobCount]
  /\ retry \in [Caller -> BOOLEAN]
  /\ known \in [Caller -> [ManifestJob -> {"none", "active", "terminal"}]]
  /\ previous \in [Caller -> [Pool -> Id \cup {NoId}]]

\* Before a call has asked accounting.
Unknown == [j \in ManifestJob |-> "none"]

Unchained == [p \in Pool |-> NoId]

SubmitInit ==
  /\ lockOwner = NoCaller
  /\ receipt = [j \in ManifestJob |-> [state |-> "absent", id |-> NoId]]
  /\ queue = <<>>
  /\ complete = [j \in ManifestJob |-> FALSE]
  /\ at = [c \in Caller |-> "out"]
  /\ index = [c \in Caller |-> 0]
  /\ retry = [c \in Caller |-> FALSE]
  /\ known = [c \in Caller |-> Unknown]
  /\ previous = [c \in Caller |-> Unchained]

-----------------------------------------------------------------------------
(* Slurm                                                                   *)

\* Slip: --dependency=afterok.
EligibleAfterSuccess(id) ==
  \A k \in DOMAIN queue : k = queue[id].after => queue[k].state = "succeeded"

\* --dependency=afterany.
Eligible(id) ==
  \A k \in DOMAIN queue : k = queue[id].after => queue[k].state \in Terminal

SlurmStarts(id) ==
  /\ id <= Len(queue)
  /\ queue[id].state = "pending"
  /\ Eligible(id)
  /\ queue' = [queue EXCEPT ![id].state = "running"]
  /\ UNCHANGED <<lockOwner, receipt, complete, call>>

\* A job ends.  It succeeds when nothing of it is missing any more; one that
\* fails or times out may have got as far.
SlurmEnds(id) ==
  /\ id <= Len(queue)
  /\ queue[id].state = "running"
  /\ \E state \in Terminal, all \in BOOLEAN :
       /\ state = "succeeded" => all
       /\ queue' = [queue EXCEPT ![id].state = state]
       /\ complete' = [complete EXCEPT ![queue[id].job] = @ \/ all]
  /\ UNCHANGED <<lockOwner, receipt, call>>

-----------------------------------------------------------------------------
(* submit                                                                  *)

LockFree == lockOwner = NoCaller

\* Slip: an interrupted submission counts as none.
AmbiguousIgnored(j) == FALSE

\* A receipt without a job number: whether sbatch ran is not known.
Ambiguous(j) == receipt[j].state # "absent" /\ receipt[j].id = NoId

\* Slip: only a running job counts as active.
StillActive(id) == queue[id].state = "running"

\* Accounting knows every submitted job, or the call fails.
NotTerminal(id) == queue[id].state \notin Terminal

Accounting(j) ==
  IF receipt[j].id = NoId THEN "none"
  ELSE IF NotTerminal(receipt[j].id) THEN "active" ELSE "terminal"

\* The last job of the pool, in the order of the manifest, that is active.
LastActive(p) ==
  LET active == {j \in ManifestJob : pool(j) = p /\ Accounting(j) = "active"}
  IN  IF active = {} THEN NoId
      ELSE receipt[CHOOSE j \in active : \A k \in active : k <= j].id

BeginCall(c) ==
  /\ at[c] = "out"
  /\ LockFree
  /\ \A j \in ManifestJob : ~Ambiguous(j)
  /\ lockOwner' = c
  /\ at' = [at EXCEPT ![c] = "loop"]
  /\ \E again \in Retries : retry' = [retry EXCEPT ![c] = again]
  /\ known' = [known EXCEPT ![c] = [j \in ManifestJob |-> Accounting(j)]]
  /\ previous' = [previous EXCEPT ![c] = [p \in Pool |-> LastActive(p)]]
  /\ UNCHANGED <<receipt, queue, complete, index>>

\* An ambiguous receipt: the call ends with an error.
RefuseCall(c) ==
  /\ at[c] = "out"
  /\ \E j \in ManifestJob : Ambiguous(j)
  /\ UNCHANGED submitVars

\* The job is left alone: active, complete, or terminal without retry.
Left(c, j) ==
  \/ known[c][j] = "active"
  \/ complete[j]
  \/ known[c][j] = "terminal" /\ ~retry[c]

SkipJob(c) ==
  /\ at[c] = "loop"
  /\ index[c] < JobCount
  /\ Left(c, index[c])
  /\ index' = [index EXCEPT ![c] = @ + 1]
  /\ UNCHANGED <<lockOwner, receipt, queue, complete, at, retry, known, previous>>

\* Slip: the number of the job before is left in the receipt.
intentKeepsNumber(j) == [state |-> "submitting", id |-> receipt[j].id]

intent(j) == [state |-> "submitting", id |-> NoId]

\* The intent is written before sbatch is called.
Intend(c) ==
  /\ at[c] = "loop"
  /\ index[c] < JobCount
  /\ ~Left(c, index[c])
  /\ Len(queue) < MaxIds
  /\ receipt' = [receipt EXCEPT ![index[c]] = intent(index[c])]
  /\ at' = [at EXCEPT ![c] = "sbatch"]
  /\ UNCHANGED <<lockOwner, queue, complete, index, retry, known, previous>>

\* Slurm accepts the job.
Sbatch(c) ==
  LET p == pool(index[c]) IN
  /\ at[c] = "sbatch"
  /\ queue' = Append(queue, [job |-> index[c], after |-> previous[c][p],
                             state |-> "pending"])
  /\ previous' = [previous EXCEPT ![c][p] = Len(queue')]
  /\ at' = [at EXCEPT ![c] = "reply"]
  /\ UNCHANGED <<lockOwner, receipt, complete, index, retry, known>>

\* The reply is read and the job number recorded.
Record(c) ==
  /\ at[c] = "reply"
  /\ receipt' = [receipt EXCEPT ![index[c]] =
       [state |-> "submitted", id |-> previous[c][pool(index[c])]]]
  /\ index' = [index EXCEPT ![c] = @ + 1]
  /\ at' = [at EXCEPT ![c] = "loop"]
  /\ UNCHANGED <<lockOwner, queue, complete, retry, known, previous>>

\* The call returns, fails or is killed; the lock goes with the process.
LeaveCall(c) ==
  /\ at[c] # "out"
  /\ lockOwner' = IF lockOwner = c THEN NoCaller ELSE lockOwner
  /\ at' = [at EXCEPT ![c] = "out"]
  /\ index' = [index EXCEPT ![c] = 0]
  /\ retry' = [retry EXCEPT ![c] = FALSE]
  /\ known' = [known EXCEPT ![c] = Unknown]
  /\ previous' = [previous EXCEPT ![c] = Unchained]
  /\ UNCHANGED <<receipt, queue, complete>>

SubmitNext ==
  \/ \E id \in Id : SlurmStarts(id) \/ SlurmEnds(id)
  \/ \E c \in Caller :
       BeginCall(c) \/ RefuseCall(c) \/ SkipJob(c) \/ Intend(c) \/ Sbatch(c)
       \/ Record(c) \/ LeaveCall(c)

SubmitSpec == SubmitInit /\ [][SubmitNext]_submitVars

\* Slurm starts what it can start and ends what it runs (jobs have a limit).
FairSubmitSpec ==
  SubmitSpec /\ \A id \in Id : WF_submitVars(SlurmStarts(id)) /\ WF_submitVars(SlurmEnds(id))

-----------------------------------------------------------------------------
(* Properties                                                              *)

\* No two active jobs do the same work, whoever died when.
NeverDuplicated ==
  \A i, k \in DOMAIN queue :
    NotTerminal(i) /\ NotTerminal(k) /\ queue[i].job = queue[k].job => i = k

\* Slurm runs no job that its receipt does not name or leave ambiguous.
NoneForgotten ==
  \A i \in DOMAIN queue : NotTerminal(i) =>
    Ambiguous(queue[i].job) \/ receipt[queue[i].job].id = i

\* A failed job does not block those after it: whatever is submitted ends.
ChainsProgress ==
  \A id \in Id :
    (id \in DOMAIN queue /\ NotTerminal(id)) ~> (id \in DOMAIN queue /\ ~NotTerminal(id))

\* The jobs of a pool run one at a time.
SequentialChains ==
  \A i, k \in DOMAIN queue :
    /\ queue[i].state = "running" /\ queue[k].state = "running"
    /\ pool(queue[i].job) = pool(queue[k].job)
    => i = k

\* The jobs of a pool run one at a time as long as none was submitted again,
\* whoever died on the way: a call that resumes a chain finds its last active
\* job.  Once a job in the middle was retried this no longer holds, see
\* SequentialChains.
ChainsResumed ==
  (\A i, k \in DOMAIN queue : queue[i].job = queue[k].job => i = k)
    => SequentialChains

=============================================================================
