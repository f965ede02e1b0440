----------------------------- MODULE CacheFiles -----------------------------
(***************************************************************************)
(* The files of one cached reference, P, P.tmp and P.lock, and what POSIX  *)
(* says of them when processes die and when the machine crashes.           *)
(*                                                                         *)
(* A file is the set of its chunks that are in place; P is complete when   *)
(* it has them all.  A chunk's bytes are a function of the cache key, so   *)
(* two writers of one entry write the same chunk.  The kernel writes back  *)
(* unsynchronised changes at any moment and in any order: a machine crash  *)
(* leaves of a file anything between what fsync secured and what was       *)
(* written, and of the directory one of its states since its last fsync.   *)
(***************************************************************************)
EXTENDS Naturals, FiniteSets

CONSTANTS
  Generator,  \* processes that prepare the reference
  Inode,      \* inodes
  Nothing,       \* no process, no inode
  Chunks      \* number of chunks of a complete reference

ASSUME ChunksAssumption == Chunks \in Nat \ {0}

ASSUME NothingAssumption == Nothing \notin Inode /\ Nothing \notin Generator

VARIABLES
  keeper,       \* owner of the flock on P.lock
  directory,    \* the directory, as processes see it
  recoverable,  \* the directories a crash can leave
  content,      \* [Inode -> chunks in place, as processes see them]
  durable       \* [Inode -> chunks secured by the last fsync]

cacheFiles == <<keeper, directory, recoverable, content, durable>>

Chunk == 1 .. Chunks

Entries == [path : Inode \cup {Nothing}, tmp : Inode \cup {Nothing}]

FilesTypeOK ==
  /\ keeper \in Generator \cup {Nothing}
  /\ directory \in Entries
  /\ recoverable \in SUBSET Entries
  /\ content \in [Inode -> SUBSET Chunk]
  /\ durable \in [Inode -> SUBSET Chunk]

FilesInit ==
  /\ keeper = Nothing
  /\ directory = [path |-> Nothing, tmp |-> Nothing]
  /\ recoverable = {directory}
  /\ content = [i \in Inode |-> {}]
  /\ durable = [i \in Inode |-> {}]

exists == directory.path # Nothing

\* A change of the directory.
Relink(entries) ==
  /\ directory' = entries
  /\ recoverable' = recoverable \cup {entries}

temporary == "tmp"

\* fopen(P.tmp, "wb"): a new inode, or the one left there, truncated.
truncate(i) ==
  /\ IF directory[temporary] # Nothing
     THEN /\ i = directory[temporary]
          /\ UNCHANGED <<directory, recoverable, durable>>
     ELSE /\ \A d \in recoverable : d.path # i /\ d.tmp # i
          /\ Relink([directory EXCEPT ![temporary] = i])
          /\ durable' = [durable EXCEPT ![i] = {}]
  /\ content' = [content EXCEPT ![i] = {}]

\* rename(P.tmp, P).
rename ==
  /\ directory[temporary] # Nothing
  /\ Relink([path |-> directory[temporary], tmp |-> Nothing])

\* Slip: the file is renamed without its fsync.
syncFileSkipped(i) == UNCHANGED durable

syncFile(i) == durable' = [durable EXCEPT ![i] = content[i]]

\* Slip: the directory is not synchronised.
syncDirectorySkipped == UNCHANGED recoverable

syncDirectory == recoverable' = {directory}

\* The machine crashes and comes back: every process is gone, and the lock.
CrashFiles ==
  /\ keeper' = Nothing
  /\ directory' \in recoverable
  /\ recoverable' = {directory'}
  /\ content' \in [Inode -> SUBSET Chunk]
  /\ \A i \in Inode :
       /\ durable[i] \cap content[i] \subseteq content'[i]
       /\ content'[i] \subseteq durable[i] \cup content[i]
  /\ durable' = content'

=============================================================================
