------------------------------- MODULE RwLock -------------------------------
(***************************************************************************)
(* The reader-writer spin lock z_rwlock_t (zcl/threading/locking.c), which *)
(* guards the hash table of the cache and each of its buckets.             *)
(*                                                                         *)
(* The state word is a reader count (bits 0-30) and a writer flag (bit     *)
(* 31).  A writer takes the flag first and then waits for the readers to   *)
(* go; the compare-and-swap loops that cannot succeed spin.  Releasing     *)
(* WRITE stores zero in the whole word.                                    *)
(***************************************************************************)
EXTENDS Naturals, FiniteSets

CONSTANTS
  RwThreads,
  MaxCount   \* Z_RWLOCK_NUM_READERS_MASK, 2^31 - 1 in the code

ASSUME RwLockAssumption ==
  /\ MaxCount \in Nat \ {0}
  /\ IsFiniteSet(RwThreads)
  /\ Cardinality(RwThreads) <= MaxCount

VARIABLES
  count,    \* lock->state & Z_RWLOCK_NUM_READERS_MASK
  writer,   \* lock->state & Z_RWLOCK_WRITE_FLAG
  rwpc      \* "out", "reading", "draining" (flag taken, readers still there),
            \* "writing"

rwvars == <<count, writer, rwpc>>

\* z_rwlock_init.
RwInit ==
  /\ count = 0
  /\ writer = FALSE
  /\ rwpc = [t \in RwThreads |-> "out"]

\* Fault: readers are let in until the writer has the lock.
ReadLockWhileDraining(t) ==
  /\ rwpc[t] = "out"
  /\ \A u \in RwThreads : rwpc[u] # "writing"
  /\ count' = count + 1
  /\ UNCHANGED writer
  /\ rwpc' = [rwpc EXCEPT ![t] = "reading"]

\* z_rwlock_read_lock and z_rwlock_try_read_lock: both succeed on a word
\* without the flag; under the flag the first spins and the second returns 0.
\* Adding one to a full count carries into the flag.
ReadLock(t) ==
  /\ rwpc[t] = "out"
  /\ ~writer
  /\ count' = IF count = MaxCount THEN 0 ELSE count + 1
  /\ writer' = (count = MaxCount)
  /\ rwpc' = [rwpc EXCEPT ![t] = "reading"]

\* z_rwlock_read_unlock: the subtraction borrows from the flag when the
\* count is zero.
ReadUnlock(t) ==
  /\ rwpc[t] = "reading"
  /\ count' = IF count = 0 THEN MaxCount ELSE count - 1
  /\ writer' = IF count = 0 THEN ~writer ELSE writer
  /\ rwpc' = [rwpc EXCEPT ![t] = "out"]

\* Fault: the flag is stored over the word.
TakeFlagOverwrites(t) ==
  /\ rwpc[t] = "out"
  /\ ~writer
  /\ writer' = TRUE
  /\ count' = 0
  /\ rwpc' = [rwpc EXCEPT ![t] = "draining"]

\* z_rwlock_write_lock and z_rwlock_try_write_lock: the flag is taken beside
\* the readers; under the flag the first spins and the second returns 0.
TakeFlag(t) ==
  /\ rwpc[t] = "out"
  /\ ~writer
  /\ writer' = TRUE
  /\ rwpc' = [rwpc EXCEPT ![t] = "draining"]
  /\ UNCHANGED count

\* Fault: the pending reads are not waited for.
DrainedAtOnce(t) ==
  /\ rwpc[t] = "draining"
  /\ rwpc' = [rwpc EXCEPT ![t] = "writing"]
  /\ UNCHANGED <<count, writer>>

\* The loop that waits for the pending reads ends.
Drained(t) ==
  /\ rwpc[t] = "draining"
  /\ count = 0
  /\ rwpc' = [rwpc EXCEPT ![t] = "writing"]
  /\ UNCHANGED <<count, writer>>

\* z_rwlock_write_unlock: lock->state = 0.
WriteUnlock(t) ==
  /\ rwpc[t] = "writing"
  /\ count' = 0
  /\ writer' = FALSE
  /\ rwpc' = [rwpc EXCEPT ![t] = "out"]

RwNext ==
  \E t \in RwThreads :
    \/ ReadLock(t) \/ ReadUnlock(t) \/ TakeFlag(t) \/ Drained(t)
    \/ WriteUnlock(t)

RwSpec == RwInit /\ [][RwNext]_rwvars

\* Lock holders run on and release; nobody has to take the lock.
RwFairSpec ==
  /\ RwSpec
  /\ \A t \in RwThreads : /\ WF_rwvars(ReadUnlock(t)) /\ WF_rwvars(Drained(t))
                          /\ WF_rwvars(WriteUnlock(t))

-----------------------------------------------------------------------------
\* The types of the word and of the threads.
RwTypeOK ==
  /\ count \in 0 .. MaxCount
  /\ writer \in BOOLEAN
  /\ rwpc \in [RwThreads -> {"out", "reading", "draining", "writing"}]

\* A writer excludes every other writer and, once z_rwlock_write_lock has
\* returned, every reader.
Exclusive ==
  \A t, u \in RwThreads :
    t # u => /\ rwpc[t] = "writing" => rwpc[u] = "out"
             /\ rwpc[t] = "draining" => rwpc[u] \in {"out", "reading"}

\* z_rwlock_write_unlock overwrites the whole word, and yet it never drops a
\* reader from the count: the readers counted are the readers there are.
CountIsReaders == count = Cardinality({t \in RwThreads : rwpc[t] = "reading"})

\* New readers stay out once the flag is taken, so a writer that waits for
\* the pending reads gets the lock (the loop of z_rwlock_write_lock ends).
WriterDrains == \A t \in RwThreads : rwpc[t] = "draining" ~> rwpc[t] = "writing"
=============================================================================
