--------------------------- MODULE ReferenceCache ---------------------------
(***************************************************************************)
(* A cache of Full or Partial references, for one key.  Generators         *)
(* (prepareFullReferenceFile, preparePartialReference) exclude each other  *)
(* by a lock, write a temporary file and publish it by a rename;           *)
(* validations (FullReferenceReader, readPartialReference) read the        *)
(* published file without the lock.  A Full reference is written chunk by  *)
(* chunk, from the header to the checksum, a Partial one at once.          *)
(*                                                                         *)
(* Any step of a generator may throw, any process may be killed between    *)
(* two steps and the machine may crash.                                    *)
(***************************************************************************)
EXTENDS CacheFiles

CONSTANTS
  Reader,      \* processes that validate a product
  MaxStarted,   \* bound: how often processes are started
  MaxCrashes   \* bound: crashes of the machine

ASSUME ProcessAssumption == Generator \cap Reader = {}

ASSUME StartsAssumption == MaxStarted \in Nat /\ MaxCrashes \in Nat

VARIABLES
  stand,       \* [Process -> where it stands, or how it ended]
  handle,     \* [Process -> inode it has open]
  next,     \* [Process -> chunks read, or given to fwrite]
  flushed,  \* [Process -> of them, those that stdio gave to the kernel]
  startCount,   \* processes started so far
  crashes   \* crashes so far

process == <<stand, handle, next, flushed>>

bounds == <<startCount, crashes>>

cacheVars == <<cacheFiles, process, bounds>>

Process == Generator \cup Reader

\* "failed": not started yet, or told that the reference is missing, busy or
\* cannot be written.
Outcome == {"generated", "reused", "passed", "rejected", "failed", "killed"}

Alive == {"locked", "writing", "flushed", "synced", "published", "unwind",
          "reading"}

CacheTypeOK ==
  /\ FilesTypeOK
  /\ stand \in [Process -> Outcome \cup Alive]
  /\ handle \in [Process -> Inode \cup {Nothing}]
  /\ next \in [Process -> 0 .. Chunks]
  /\ flushed \in [Process -> 0 .. Chunks]
  /\ startCount \in 0 .. MaxStarted
  /\ crashes \in 0 .. MaxCrashes

CacheInit ==
  /\ FilesInit
  /\ stand = [p \in Process |-> "failed"]
  /\ handle = [p \in Process |-> Nothing]
  /\ next = [p \in Process |-> 0]
  /\ flushed = [p \in Process |-> 0]
  /\ startCount = 0
  /\ crashes = 0

Goto(p, from, to) ==
  /\ stand[p] = from
  /\ stand' = [stand EXCEPT ![p] = to]

\* A process is started; it may have been before.
StartProcess(p, to) ==
  /\ stand[p] \in Outcome
  /\ keeper # p
  /\ startCount < MaxStarted
  /\ startCount' = startCount + 1
  /\ stand' = [stand EXCEPT ![p] = to]
  /\ UNCHANGED crashes

\* Its file is closed, and nothing is left in a buffer.
CloseFile(p) ==
  /\ handle' = [handle EXCEPT ![p] = Nothing]
  /\ next' = [next EXCEPT ![p] = 0]
  /\ flushed' = [flushed EXCEPT ![p] = 0]

-----------------------------------------------------------------------------
(* Reading, in validations and in generators                               *)

OpenFile(p) ==
  /\ handle' = [handle EXCEPT ![p] = directory.path]
  /\ UNCHANGED <<cacheFiles, next, flushed>>

OpenReader(r) ==
  /\ StartProcess(r, "reading")
  /\ exists
  /\ OpenFile(r)

OpenMissing(r) ==
  /\ StartProcess(r, "failed")
  /\ ~exists
  /\ UNCHANGED <<cacheFiles, handle, next, flushed>>

\* The header, a row or the checksum; a truncated or corrupt file is rejected.
ReadChunk(p) ==
  /\ stand[p] = "reading"
  /\ next[p] < Chunks
  /\ IF next[p] + 1 \in content[handle[p]]
     THEN next' = [next EXCEPT ![p] = @ + 1] /\ UNCHANGED <<stand, handle, flushed>>
     ELSE stand' = [stand EXCEPT ![p] = "rejected"] /\ CloseFile(p)
  /\ UNCHANGED <<cacheFiles, bounds>>

finish(p) ==
  /\ Goto(p, "reading", IF p \in Generator THEN "reused" ELSE "passed")
  /\ next[p] = Chunks
  /\ CloseFile(p)
  /\ UNCHANGED <<cacheFiles, bounds>>

-----------------------------------------------------------------------------
(* Generators                                                              *)

\* flock with LOCK_NB.
Unlocked == keeper = Nothing

Acquire(g) ==
  /\ StartProcess(g, "locked")
  /\ Unlocked
  /\ keeper' = g
  /\ UNCHANGED <<directory, recoverable, content, durable, handle, next, flushed>>

Busy(g) ==
  /\ StartProcess(g, "failed")
  /\ ~Unlocked
  /\ UNCHANGED <<cacheFiles, handle, next, flushed>>

\* The reference exists: it is read to the end before it is reported.
Reuse(g) ==
  /\ Goto(g, "locked", "reading")
  /\ exists
  /\ OpenFile(g)
  /\ UNCHANGED bounds

Create(g) ==
  /\ Goto(g, "locked", "writing")
  /\ ~exists
  /\ \E i \in Inode :
       /\ truncate(i)
       /\ handle' = [handle EXCEPT ![g] = i]
  /\ UNCHANGED <<keeper, next, flushed, bounds>>

\* fwrite of the header, of a row or of the checksum.
Write(g) ==
  /\ stand[g] = "writing"
  /\ next[g] < Chunks
  /\ next' = [next EXCEPT ![g] = @ + 1]
  /\ UNCHANGED <<cacheFiles, stand, handle, flushed, bounds>>

\* stdio gives what it has buffered to the kernel.
Drain(g) ==
  /\ content' = [content EXCEPT ![handle[g]] = @ \cup (flushed[g] + 1 .. next[g])]
  /\ UNCHANGED <<keeper, directory, recoverable, durable, bounds>>

\* The buffer was full.
Spill(g) ==
  /\ stand[g] = "writing"
  /\ flushed[g] < next[g]
  /\ Drain(g)
  /\ flushed' = [flushed EXCEPT ![g] = next[g]]
  /\ UNCHANGED <<stand, handle, next>>

Flush(g) ==
  /\ Goto(g, "writing", "flushed")
  /\ next[g] = Chunks
  /\ Drain(g)
  /\ flushed' = [flushed EXCEPT ![g] = next[g]]
  /\ UNCHANGED <<handle, next>>

Sync(g) ==
  /\ Goto(g, "flushed", "synced")
  /\ syncFile(handle[g])
  /\ UNCHANGED <<keeper, directory, recoverable, content, handle, next, flushed,
                 bounds>>

\* fclose and the rename.
Publish(g) ==
  /\ Goto(g, "synced", "published")
  /\ rename
  /\ CloseFile(g)
  /\ UNCHANGED <<keeper, content, durable, bounds>>

SyncDirectory(g) ==
  /\ Goto(g, "published", "generated")
  /\ syncDirectory
  /\ UNCHANGED <<keeper, directory, content, durable, handle, next, flushed,
                 bounds>>

\* A step before that throws: disk full, quota, an input or a sync error.
Failure(g) ==
  /\ stand[g] \in {"locked", "writing", "flushed", "synced", "published"}
  /\ stand' = [stand EXCEPT ![g] = "unwind"]
  /\ UNCHANGED <<cacheFiles, handle, next, flushed, bounds>>

\* Unwinding closes the file first: stdio still writes what it can.
Unwind(g) ==
  /\ Goto(g, "unwind", "failed")
  /\ \/ handle[g] # Nothing /\ Drain(g)
     \/ UNCHANGED <<cacheFiles, bounds>>
  /\ CloseFile(g)

\* Slip: the lock is destroyed before the file.
LeavesEarly(g) == stand[g] \in (Outcome \ {"killed"}) \cup {"unwind"}

\* Where the lock's destructor runs: the file is closed.
Leaves(g) == stand[g] \in Outcome \ {"killed"}

Unlock(g) ==
  /\ keeper = g
  /\ Leaves(g)
  /\ keeper' = Nothing
  /\ UNCHANGED <<directory, recoverable, content, durable, process, bounds>>

-----------------------------------------------------------------------------
(* Deaths                                                                  *)

\* The kernel releases the lock of a dead process.
OwnerAfter(p) == IF keeper = p THEN Nothing ELSE keeper

\* A kill loses what stdio has buffered.
Kill(p) ==
  /\ stand[p] \in Alive
  /\ stand' = [stand EXCEPT ![p] = "killed"]
  /\ CloseFile(p)
  /\ keeper' = OwnerAfter(p)
  /\ UNCHANGED <<directory, recoverable, content, durable, bounds>>

Crash ==
  /\ crashes < MaxCrashes
  /\ crashes' = crashes + 1
  /\ CrashFiles
  /\ stand' = [p \in Process |-> "killed"]
  /\ handle' = [p \in Process |-> Nothing]
  /\ next' = [p \in Process |-> 0]
  /\ flushed' = [p \in Process |-> 0]
  /\ UNCHANGED startCount

Prepare(g) ==
  \/ Reuse(g) \/ Create(g) \/ Write(g) \/ Spill(g) \/ Flush(g)
  \/ Sync(g) \/ Publish(g) \/ SyncDirectory(g)
  \/ Failure(g) \/ Unwind(g) \/ Unlock(g)

Read(p) == ReadChunk(p) \/ finish(p)

Proceed(p) == Read(p) \/ (p \in Generator /\ Prepare(p))

\* The bounds are reached; everything else that stops is a deadlock.
Exhausted ==
  /\ startCount = MaxStarted
  /\ \A p \in Process : stand[p] \in Outcome
  /\ UNCHANGED cacheVars

CacheNext ==
  \/ Exhausted
  \/ \E p \in Process : Proceed(p) \/ Kill(p)
  \/ \E g \in Generator : Acquire(g) \/ Busy(g)
  \/ \E r \in Reader : OpenReader(r) \/ OpenMissing(r)
  \/ Crash

CacheSpec == CacheInit /\ [][CacheNext]_cacheVars

\* A process that was started runs on; nobody has to start one or kill one.
FairCacheSpec == CacheSpec /\ \A p \in Process : WF_cacheVars(Proceed(p))

-----------------------------------------------------------------------------
(* Properties                                                              *)

\* Whatever dies and whenever the machine crashes, P is absent or complete:
\* an incomplete P would block the key for ever, since nobody repairs it.
AbsentOrComplete ==
  \A d \in recoverable \cup {directory} : d.path # Nothing =>
    content[d.path] = Chunk /\ durable[d.path] = Chunk

\* One process at a time has the temporary file open for writing, its
\* unwinding included.
Writing(g) == handle[g] # Nothing /\ stand[g] # "reading"

SoleWriter ==
  \A g, h \in Generator : Writing(g) /\ Writing(h) => g = h

\* The cache implements ReferenceStore.
StoreState ==
  CASE ~exists -> "absent"
    [] exists /\ content[directory.path] # Chunk -> "broken"
    [] OTHER -> IF \A d \in recoverable : d.path # Nothing THEN "durable"
                                                            ELSE "published"

AnswerOf(p) ==
  CASE stand[p] = "generated" -> "generated"
    [] stand[p] \in {"reused", "passed"} -> "used"
    [] OTHER -> "none"

Store == INSTANCE ReferenceStore WITH
  store <- StoreState,
  answer <- [p \in Process |-> AnswerOf(p)]

ImplementsStore == Store!Spec

=============================================================================
