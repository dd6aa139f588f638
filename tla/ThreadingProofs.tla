-------------------------- MODULE ThreadingProofs --------------------------
(***************************************************************************)
(* Proofs about the threading layer: the ticket lock, for every number of  *)
(* threads up to the number of tickets; the reader-writer lock, for every  *)
(* number of threads that the reader count can hold; and the dispatcher's  *)
(* global context, for every number of workers and tasks, whatever the     *)
(* tasks wait for.                                                         *)
(***************************************************************************)
EXTENDS Ticket, RwLock, GlobalCtx, FiniteSetTheorems, WellFoundedInduction,
        SequenceTheorems, TLAPS

-----------------------------------------------------------------------------
(* The ticket lock.  Mutual exclusion is not inductive: nothing in it      *)
(* prevents two threads from holding the same ticket.  The invariant says  *)
(* that the tickets that are out are the consecutive numbers from          *)
(* now_serving on, modulo the wrap, in the order in which the threads drew *)
(* them.                                                                   *)

\* k tickets after ticket n, for k up to the wrap.
After(n, k) == IF n + k < Wrap THEN n + k ELSE n + k - Wrap

\* The threads with a ticket are those in order, once each.
Queued ==
  /\ \A t \in Threads :
       pc[t] # "out" => \E i \in 1 .. Len(order) : order[i] = t
  /\ \A i \in 1 .. Len(order) : pc[order[i]] # "out"
  /\ \A i, j \in 1 .. Len(order) : order[i] = order[j] => i = j

\* The tickets that are out are consecutive.
Consecutive ==
  /\ \A i \in 1 .. Len(order) : mine[order[i]] = After(serving, i - 1)
  /\ next = After(serving, Len(order))

HolderFirst == \A t \in Threads : pc[t] = "in" => Len(order) > 0 /\ order[1] = t

TicketIInv == TypeOK /\ Queued /\ Consecutive /\ HolderFirst

-----------------------------------------------------------------------------
\* A queue without repetition is no longer than the number of threads, so
\* that no two tickets that are out are equal modulo the wrap.
LEMMA QueueBound ==
  ASSUME NEW q \in Seq(Threads),
         \A i, j \in 1 .. Len(q) : q[i] = q[j] => i = j
  PROVE  Len(q) <= Wrap
<1>1. q \in Injection(1 .. Len(q), Threads)
  BY DEF Injection, IsInjective
<1>2. Cardinality(1 .. Len(q)) <= Cardinality(Threads)
  BY <1>1, TicketAssumption, FS_Injection
<1>3. Cardinality(1 .. Len(q)) = Len(q)
  <2>1. Len(q) \in Nat /\ Len(q) \in Int
    BY LenProperties
  <2>2. Cardinality(1 .. Len(q)) = IF 1 > Len(q) THEN 0 ELSE Len(q) - 1 + 1
    BY <2>1, FS_Interval
  <2>. QED  BY <2>1, <2>2
<1>4. Cardinality(Threads) \in Nat
  BY TicketAssumption, FS_CardinalityType
<1>. QED  BY <1>2, <1>3, <1>4, TicketAssumption

\* One more ticket is the next one, and stays below the wrap.
LEMMA IncAfter ==
  ASSUME NEW n \in 0 .. Wrap - 1, NEW k \in Nat, k + 1 <= Wrap
  PROVE  /\ Inc(n) \in 0 .. Wrap - 1
         /\ Inc(After(n, k)) = After(n, k + 1)
BY TicketAssumption DEF Inc, After

LEMMA InitTicketIInv == Init => TicketIInv
BY TicketAssumption
DEF Init, TicketIInv, TypeOK, Queued, Consecutive, HolderFirst, After

LEMMA DrawStep ==
  ASSUME TicketIInv, NEW t \in Threads, Draw(t) PROVE TicketIInv'
<1>. USE TicketAssumption DEF TicketIInv, TypeOK, Draw
<1>0. Len(order) \in Nat
  BY LenProperties
<1>1. /\ order' \in Seq(Threads) /\ Len(order') = Len(order) + 1
      /\ \A i \in 1 .. Len(order) : order'[i] = order[i]
      /\ order'[Len(order) + 1] = t
  BY AppendProperties
<1>2. \A i \in 1 .. Len(order) : order[i] # t /\ order[i] \in Threads
  BY DEF Queued
<1>3. Queued'
  <2>1. ASSUME NEW u \in Threads, pc'[u] # "out"
        PROVE  \E i \in 1 .. Len(order') : order'[i] = u
    BY <1>0, <1>1, <2>1 DEF Queued
  <2>2. \A i \in 1 .. Len(order') : pc'[order'[i]] # "out"
    BY <1>0, <1>1, <1>2 DEF Queued
  <2>3. \A i, j \in 1 .. Len(order') : order'[i] = order'[j] => i = j
    BY <1>0, <1>1, <1>2 DEF Queued
  <2>. QED  BY <2>1, <2>2, <2>3 DEF Queued
<1>4. Len(order') <= Wrap
  <2>1. \A i, j \in 1 .. Len(order') : order'[i] = order'[j] => i = j
    BY <1>3 DEF Queued
  <2>. QED  BY <1>1, <2>1, QueueBound
<1>5. TypeOK'
  BY <1>1 DEF Inc
<1>6. Consecutive'
  <2>1. next' = After(serving, Len(order) + 1)
    <3>1. serving \in 0 .. Wrap - 1 /\ Len(order) \in Nat
      OBVIOUS
    <3>2. next' = Inc(After(serving, Len(order)))
      BY DEF Consecutive
    <3>. QED  BY <1>1, <1>4, <3>1, <3>2, IncAfter
  <2>2. mine'[t] = After(serving, Len(order))
    BY DEF Consecutive
  <2>3. \A i \in 1 .. Len(order) : mine'[order[i]] = After(serving, i - 1)
    BY <1>2 DEF Consecutive
  <2>. QED  BY <1>1, <2>1, <2>2, <2>3 DEF Consecutive
<1>7. HolderFirst'
  BY <1>1 DEF HolderFirst
<1>. QED  BY <1>3, <1>5, <1>6, <1>7

LEMMA EnterStep ==
  ASSUME TicketIInv, NEW t \in Threads, Enter(t) PROVE TicketIInv'
<1>. USE TicketAssumption DEF TicketIInv, TypeOK, Enter
<1>1. PICK i \in 1 .. Len(order) : order[i] = t
  BY DEF Queued
<1>2. Len(order) <= Wrap
  BY QueueBound DEF Queued
<1>3. i = 1
  <2>1. After(serving, i - 1) = serving
    BY <1>1 DEF Consecutive
  <2>2. serving \in Nat /\ serving < Wrap /\ i \in Nat /\ i <= Wrap
    BY <1>1, <1>2, LenProperties
  <2>. QED  BY <2>1, <2>2 DEF After
<1>4. HolderFirst'
  BY <1>1, <1>3 DEF HolderFirst
<1>5. TypeOK'
  OBVIOUS
<1>6. Queued'
  BY DEF Queued
<1>7. Consecutive'
  BY DEF Consecutive
<1>. QED  BY <1>4, <1>5, <1>6, <1>7

LEMMA StickStep ==
  ASSUME TicketIInv, NEW t \in Threads, Stick(t) PROVE TicketIInv'
BY DEF TicketIInv, TypeOK, Queued, Consecutive, HolderFirst, Stick

LEMMA LeaveStep ==
  ASSUME TicketIInv, NEW t \in Threads, Leave(t) PROVE TicketIInv'
<1>. USE TicketAssumption DEF TicketIInv, TypeOK, Leave
<1>1. Len(order) > 0 /\ order[1] = t /\ order # <<>>
  BY DEF HolderFirst
<1>2. /\ order' \in Seq(Threads) /\ Len(order') = Len(order) - 1
      /\ \A i \in 1 .. Len(order') : order'[i] = order[i + 1]
  BY <1>1, HeadTailProperties
<1>3. \A i \in 1 .. Len(order') : order'[i] # t /\ order'[i] \in Threads
  BY <1>1, <1>2 DEF Queued
<1>4. Queued'
  <2>1. ASSUME NEW u \in Threads, pc'[u] # "out"
        PROVE  \E i \in 1 .. Len(order') : order'[i] = u
    <3>1. u # t /\ pc[u] # "out"
      BY <2>1
    <3>2. PICK j \in 1 .. Len(order) : order[j] = u
      BY <3>1 DEF Queued
    <3>3. j - 1 \in 1 .. Len(order') /\ order'[j - 1] = u
      BY <1>1, <1>2, <3>1, <3>2
    <3>. QED  BY <3>3
  <2>2. \A i \in 1 .. Len(order') : pc'[order'[i]] # "out"
    BY <1>2, <1>3 DEF Queued
  <2>3. ASSUME NEW i \in 1 .. Len(order'), NEW j \in 1 .. Len(order'),
               order'[i] = order'[j]
        PROVE  i = j
    <3>1. i + 1 \in 1 .. Len(order) /\ j + 1 \in 1 .. Len(order)
      BY <1>2, LenProperties
    <3>2. order[i + 1] = order[j + 1]
      BY <1>2, <2>3
    <3>3. i + 1 = j + 1
      BY <3>1, <3>2 DEF Queued
    <3>. QED  BY <3>3
  <2>. QED  BY <2>1, <2>2, <2>3 DEF Queued
<1>5. Len(order) <= Wrap
  BY QueueBound DEF Queued
<1>6. TypeOK'
  <2>1. serving' \in 0 .. Wrap - 1
    BY DEF Inc
  <2>. QED  BY <1>2, <2>1
<1>7. Consecutive'
  <2>0. Len(order) \in Nat /\ serving \in Nat /\ serving < Wrap
    BY LenProperties
  <2>1. ASSUME NEW k \in Nat, k < Wrap
        PROVE  After(serving', k) = After(serving, k + 1)
    BY <2>0, <2>1 DEF After, Inc
  <2>2. next' = After(serving', Len(order'))
    BY <1>1, <1>2, <1>5, <2>0, <2>1 DEF Consecutive
  <2>3. ASSUME NEW i \in 1 .. Len(order')
        PROVE  mine'[order'[i]] = After(serving', i - 1)
    <3>1. i + 1 \in 1 .. Len(order) /\ order'[i] = order[i + 1]
      BY <1>2, <2>0
    <3>2. mine[order[i + 1]] = After(serving, (i + 1) - 1)
      BY <3>1 DEF Consecutive
    <3>3. After(serving', i - 1) = After(serving, (i - 1) + 1)
      BY <1>5, <2>0, <2>1, <3>1
    <3>. QED  BY <3>1, <3>2, <3>3
  <2>. QED  BY <2>2, <2>3 DEF Consecutive
<1>8. HolderFirst'
  BY <1>1 DEF HolderFirst
<1>. QED  BY <1>4, <1>6, <1>7, <1>8

\* The tickets that are out stay consecutive in every state.
THEOREM TicketInductive == Spec => []TicketIInv
<1>1. TicketIInv /\ [Next]_vars => TicketIInv'
  <2>1. CASE UNCHANGED vars
    BY <2>1 DEF vars, TicketIInv, TypeOK, Queued, Consecutive, HolderFirst
  <2>. QED  BY <2>1, DrawStep, EnterStep, StickStep, LeaveStep DEF Next
<1>. QED  BY <1>1, InitTicketIInv, PTL DEF Spec

\* One thread at a time holds a ticket lock that no more threads use than it
\* has tickets, in every build.
THEOREM TicketMutex == Spec => []MutualExclusion
<1>1. TicketIInv => MutualExclusion
  BY DEF TicketIInv, HolderFirst, MutualExclusion
<1>. QED  BY <1>1, TicketInductive, PTL

\* The lock is granted in the order of the tickets.
THEOREM TicketFifo == Spec => []FirstComeFirstServed
<1>1. TicketIInv => FirstComeFirstServed
  BY DEF TicketIInv, TypeOK, HolderFirst, FirstComeFirstServed
<1>. QED  BY <1>1, TicketInductive, PTL

-----------------------------------------------------------------------------
(* The reader-writer lock.                                                 *)

Reading == {t \in RwThreads : rwpc[t] = "reading"}

Owns(t) == rwpc[t] \in {"draining", "writing"}

\* The flag has one owner and the count is that of the readers; Exclusive
\* alone does not say what the word is when nobody has the lock.
RwIInv ==
  /\ RwTypeOK
  /\ count = Cardinality(Reading)
  /\ writer <=> \E t \in RwThreads : Owns(t)
  /\ \A t, u \in RwThreads : Owns(t) /\ Owns(u) => t = u
  /\ \A t \in RwThreads : rwpc[t] = "writing" => count = 0

\* Counting the readers: there is room for one more, and none is negative.
LEMMA CountReaders ==
  /\ Reading = {} <=> Cardinality(Reading) = 0
  /\ \A t \in RwThreads : t \notin Reading =>
       /\ Cardinality(Reading) < MaxCount
       /\ Cardinality(Reading \cup {t}) = Cardinality(Reading) + 1
  /\ \A t \in Reading :
       /\ Cardinality(Reading) > 0
       /\ Cardinality(Reading \ {t}) = Cardinality(Reading) - 1
<1>1. \A S \in SUBSET RwThreads : /\ IsFiniteSet(S)
                                /\ Cardinality(S) \in Nat
                                /\ Cardinality(S) <= Cardinality(RwThreads)
  BY RwLockAssumption, FS_Subset, FS_CardinalityType
<1>2. Reading \in SUBSET RwThreads /\ Cardinality(RwThreads) \in Nat
  BY RwLockAssumption, FS_CardinalityType DEF Reading
<1>3. Reading = {} <=> Cardinality(Reading) = 0
  BY <1>1, <1>2, FS_EmptySet
<1>4. ASSUME NEW t \in RwThreads, t \notin Reading
      PROVE  /\ Cardinality(Reading) < MaxCount
             /\ Cardinality(Reading \cup {t}) = Cardinality(Reading) + 1
  <2>1. Cardinality(Reading \cup {t}) = Cardinality(Reading) + 1
    BY <1>1, <1>2, <1>4, FS_AddElement
  <2>2. Reading \cup {t} \in SUBSET RwThreads
    BY <1>2
  <2>. QED  BY <1>1, <1>2, <2>1, <2>2, RwLockAssumption
<1>5. ASSUME NEW t \in Reading
      PROVE  /\ Cardinality(Reading) > 0
             /\ Cardinality(Reading \ {t}) = Cardinality(Reading) - 1
  <2>1. Cardinality(Reading \ {t}) = Cardinality(Reading) - 1
    BY <1>1, <1>2, FS_RemoveElement
  <2>2. Cardinality(Reading \ {t}) \in Nat /\ Cardinality(Reading) \in Nat
    BY <1>1, <1>2
  <2>. QED  BY <2>1, <2>2
<1>. QED  BY <1>3, <1>4, <1>5

LEMMA InitRwIInv == RwInit => RwIInv
<1>. SUFFICES ASSUME RwInit PROVE RwIInv
  OBVIOUS
<1>1. Reading = {}
  BY DEF RwInit, Reading
<1>2. RwTypeOK
  <2>1. count \in 0 .. MaxCount
    BY RwLockAssumption DEF RwInit
  <2>. QED  BY <2>1 DEF RwInit, RwTypeOK
<1>3. count = Cardinality(Reading)
  <2>1. Cardinality({}) = 0
    BY FS_EmptySet
  <2>. QED  BY <1>1, <2>1 DEF RwInit
<1>4. ~writer /\ \A t \in RwThreads : ~Owns(t)
  BY DEF RwInit, Owns
<1>. QED  BY <1>2, <1>3, <1>4 DEF RwIInv, RwInit

LEMMA RwIInvStep == RwIInv /\ [RwNext]_rwvars => RwIInv'
<1>. SUFFICES ASSUME RwIInv, [RwNext]_rwvars PROVE RwIInv'
  OBVIOUS
<1>. USE RwLockAssumption DEF RwIInv, RwTypeOK, Owns
<1>1. ASSUME NEW t \in RwThreads, ReadLock(t) PROVE RwIInv'
  <2>1. Reading' = Reading \cup {t} /\ t \notin Reading
    BY <1>1 DEF ReadLock, Reading
  <2>. QED  BY <1>1, <2>1, CountReaders DEF ReadLock
<1>2. ASSUME NEW t \in RwThreads, ReadUnlock(t) PROVE RwIInv'
  <2>1. Reading' = Reading \ {t} /\ t \in Reading
    BY <1>2 DEF ReadUnlock, Reading
  <2>. QED  BY <1>2, <2>1, CountReaders DEF ReadUnlock
<1>3. ASSUME NEW t \in RwThreads, TakeFlag(t) PROVE RwIInv'
  <2>1. Reading' = Reading
    BY <1>3 DEF TakeFlag, Reading
  <2>. QED  BY <1>3, <2>1 DEF TakeFlag
<1>4. ASSUME NEW t \in RwThreads, Drained(t) PROVE RwIInv'
  <2>1. Reading' = Reading
    BY <1>4 DEF Drained, Reading
  <2>. QED  BY <1>4, <2>1 DEF Drained
<1>5. ASSUME NEW t \in RwThreads, WriteUnlock(t) PROVE RwIInv'
  <2>1. Reading' = Reading
    BY <1>5 DEF WriteUnlock, Reading
  <2>. QED  BY <1>5, <2>1 DEF WriteUnlock
<1>6. CASE UNCHANGED rwvars
  <2>1. Reading' = Reading
    BY <1>6 DEF rwvars, Reading
  <2>. QED  BY <1>6, <2>1 DEF rwvars
<1>. QED  BY <1>1, <1>2, <1>3, <1>4, <1>5, <1>6 DEF RwNext

\* The invariant holds of every state of the lock.
THEOREM RwInductive == RwSpec => []RwIInv
BY InitRwIInv, RwIInvStep, PTL DEF RwSpec

\* A writer excludes the other writers, and the readers once they are gone.
THEOREM RwLockExclusive == RwSpec => []Exclusive
<1>1. RwIInv => Exclusive
  <2>. SUFFICES ASSUME RwIInv, NEW t \in RwThreads, NEW u \in RwThreads, t # u
                PROVE  /\ rwpc[t] = "writing" => rwpc[u] = "out"
                       /\ rwpc[t] = "draining" => rwpc[u] \in {"out", "reading"}
    BY DEF Exclusive
  <2>1. Owns(t) => rwpc[u] \in {"out", "reading"}
    BY DEF RwIInv, RwTypeOK, Owns
  <2>2. rwpc[t] = "writing" => rwpc[u] # "reading"
    BY CountReaders DEF RwIInv, Reading
  <2>. QED  BY <2>1, <2>2 DEF Owns
<1>. QED  BY <1>1, RwInductive, PTL

\* The readers counted are the readers there are: storing zero in the word
\* at z_rwlock_write_unlock never drops one.
THEOREM RwLockCount == RwSpec => []CountIsReaders
<1>1. RwIInv => CountIsReaders
  BY DEF RwIInv, CountIsReaders, Reading
<1>. QED  BY <1>1, RwInductive, PTL

-----------------------------------------------------------------------------
(* The global context: no task is lost, copied or run twice, and none      *)
(* waits in the dispatcher while every worker sleeps.                      *)

QueuedTasks == {queue[i] : i \in DOMAIN queue}
Running == {w \in Workers : job[w] # NoTask}
Jobs == {job[w] : w \in Workers} \ {NoTask}

\* The places of a task do not overlap, and the queue and the workers have
\* it once.
Apart ==
  /\ \A i, j \in DOMAIN queue : queue[i] = queue[j] => i = j
  /\ \A v, w \in Workers : job[v] = job[w] /\ job[v] # NoTask => v = w
  /\ \A t \in Tasks :
       /\ t \in QueuedTasks => t \notin pending \cup parked \cup done \cup Jobs
       /\ t \in pending => t \notin parked \cup done \cup Jobs
       /\ t \in parked => t \notin done \cup Jobs
       /\ t \in done => t \notin Jobs

\* Two tasks never have the same itime, so a push into the tree replaces
\* nothing.
Stamped ==
  /\ \A t \in Held : itime[t] < reqId
  /\ \A t, u \in Held : itime[t] = itime[u] => t = u

\* A worker has a task exactly while it runs it.
Busy == \A w \in Workers : wpc[w] = "exec" <=> job[w] # NoTask

\* A worker ends only after the shutdown.
Staying == ~closed => \A w \in Workers : wpc[w] \notin {"leave", "gone"}

PlacesCount ==
  Len(queue) + Cardinality(pending) + Cardinality(parked) + Cardinality(done)
    + Cardinality(Running)

\* The inductive invariant.
GlobalIInv ==
  /\ GlobalTypeOK
  /\ Apart
  /\ Stamped
  /\ Busy
  /\ Staying
  /\ Cardinality(Held) = reqId
  /\ PlacesCount = reqId
  /\ NoticedWork

WorkerStates == {"top", "fetch", "asleep", "woken", "exec", "leave", "gone"}

-----------------------------------------------------------------------------
(* Operators                                                               *)

\* The tree gives its task of least itime (__cpu_ctx_fetch_task): there is
\* one, since itimes are naturals.
LEMMA OldestIsPending ==
  ASSUME GlobalTypeOK, pending # {}
  PROVE  Oldest \in pending
<1>. DEFINE R == {p \in Nat \X Nat : p[1] < p[2]}
            T == {itime[t] : t \in pending}
<1>1. T \subseteq Nat /\ T # {}
  BY DEF GlobalTypeOK
<1>2. PICK n \in T : \A m \in T : ~(<<m, n>> \in R)
  <2>1. IsWellFoundedOn(R, Nat)
    BY NatLessThanWellFounded DEF OpToRel
  <2>. HIDE DEF T, R
  <2>. QED BY <1>1, <2>1, WFMin
<1>3. \A m \in T : ~(m < n)
  BY <1>1, <1>2
<1>4. PICK t \in pending : itime[t] = n
  BY <1>2
<1>5. ASSUME NEW u \in pending PROVE itime[t] <= itime[u]
  <2>1. itime[u] \in T /\ itime[u] \in Nat /\ n \in Nat
    BY <1>1
  <2>2. ~(itime[u] < n)
    BY <1>3, <2>1
  <2>. QED BY <1>4, <2>1, <2>2
<1>. QED BY <1>5 DEF Oldest

\* A signal wakes one sleeping worker if there is one, and touches no other
\* (z_wait_cond_signal).
LEMMA SignalWakes ==
  ASSUME NEW f \in [Workers -> WorkerStates], NEW g \in Signal(f)
  PROVE  /\ g \in [Workers -> WorkerStates]
         /\ \A w \in Workers : g[w] = f[w] \/ (f[w] = "asleep" /\ g[w] = "woken")
         /\ (\E w \in Workers : f[w] = "asleep")
               => \E w \in Workers : g[w] = "woken"
  BY DEF Signal, WorkerStates

LEMMA BroadcastWakes ==
  ASSUME NEW f \in [Workers -> WorkerStates], NEW g \in Broadcast(f)
  PROVE  /\ g \in [Workers -> WorkerStates]
         /\ \A w \in Workers : g[w] = f[w] \/ (f[w] = "asleep" /\ g[w] = "woken")
  BY DEF Broadcast, WorkerStates

\* As no two held tasks share an itime, a push into the tree adds the tasks
\* and frees none (z_task_tree_push).
LEMMA PushedAdds ==
  ASSUME Stamped, NEW T \in SUBSET Held, T \cap pending = {}, pending \subseteq Held
  PROVE  Pushed(T) = pending \cup T
  BY DEF Pushed, Stamped

LEMMA SeqIsFunction ==
  ASSUME NEW S, NEW s \in Seq(S)
  PROVE  Len(s) \in Nat /\ s \in [1 .. Len(s) -> S]
  OBVIOUS

\* The places of the tasks are finite sets.
LEMMA PlacesFinite ==
  ASSUME GlobalTypeOK
  PROVE  /\ IsFiniteSet(pending) /\ Cardinality(pending) \in Nat
         /\ IsFiniteSet(parked) /\ Cardinality(parked) \in Nat
         /\ IsFiniteSet(done) /\ Cardinality(done) \in Nat
         /\ IsFiniteSet(Running) /\ Cardinality(Running) \in Nat
         /\ IsFiniteSet(Held) /\ Cardinality(Held) \in Nat
         /\ Len(queue) \in Nat
<1>1. pending \in SUBSET Tasks /\ parked \in SUBSET Tasks /\ done \in SUBSET Tasks
      /\ Running \in SUBSET Workers
  BY DEF GlobalTypeOK, Running
<1>2. Held \in SUBSET Tasks
  BY DEF GlobalTypeOK, Held
<1>3. IsFiniteSet(Tasks) /\ IsFiniteSet(Workers)
  BY GlobalCtxAssumption
<1>4. Len(queue) \in Nat
  BY DEF GlobalTypeOK
<1>. QED BY <1>1, <1>2, <1>3, <1>4, FS_Subset, FS_CardinalityType

-----------------------------------------------------------------------------
(* Where the tasks are                                                     *)

\* What the counts and the places are after a step.
Placed ==
  /\ Apart
  /\ Stamped
  /\ Cardinality(Held) = reqId
  /\ PlacesCount = reqId

LEMMA HeldIs ==
  /\ Held = pending \cup parked \cup done \cup QueuedTasks \cup Jobs
  /\ Held' = pending' \cup parked' \cup done' \cup QueuedTasks' \cup Jobs'
  BY DEF Held, QueuedTasks, Jobs

\* A step that moves no task.
LEMMA PlacedStays ==
  ASSUME Placed, UNCHANGED <<taskVars, job>>
  PROVE  Placed'
  BY DEF Placed, Apart, Stamped, Held, PlacesCount, QueuedTasks, Running, Jobs, taskVars

\* A step in which held tasks move from place to place: nothing is lost or
\* copied, so the itimes and the number of held tasks stay.
LEMMA MovedStamped ==
  ASSUME Stamped, Cardinality(Held) = reqId, Held' = Held, UNCHANGED <<itime, reqId>>
  PROVE  Stamped' /\ (Cardinality(Held) = reqId)'
  BY DEF Stamped

\* A worker takes the oldest task of the tree.
LEMMA FetchPending ==
  ASSUME GlobalTypeOK, Placed, NEW w \in Workers, job[w] = NoTask,
         pending # {},
         job' = [job EXCEPT ![w] = Oldest],
         pending' = pending \ {Oldest},
         UNCHANGED <<queue, itime, reqId, parked, done>>
  PROVE  Placed'
<1>1. PICK t \in pending : t = Oldest
  BY OldestIsPending
<1>2. t \in Tasks /\ t # NoTask /\ t \notin Jobs
  BY <1>1, GlobalCtxAssumption DEF GlobalTypeOK, Placed, Apart
<1>3. QueuedTasks' = QueuedTasks /\ Jobs' = Jobs \cup {t} /\ Running' = Running \cup {w}
      /\ pending' = pending \ {t}
  BY <1>1, <1>2 DEF GlobalTypeOK, QueuedTasks, Jobs, Running
<1>4. Apart'
  <2>1. (\A i, j \in DOMAIN queue : queue[i] = queue[j] => i = j)'
    BY DEF Placed, Apart
  <2>2. (\A u, v \in Workers : job[u] = job[v] /\ job[u] # NoTask => u = v)'
    BY <1>1, <1>2 DEF Placed, Apart, GlobalTypeOK, Jobs
  <2>. QED BY <1>1, <1>2, <1>3, <2>1, <2>2 DEF Placed, Apart
<1>5. Held' = Held
  BY <1>1, <1>3, HeldIs
<1>6. Cardinality(pending') = Cardinality(pending) - 1
      /\ Cardinality(Running') = Cardinality(Running) + 1
  <2>1. Cardinality(pending \ {t}) = Cardinality(pending) - 1
    BY PlacesFinite, FS_RemoveElement
  <2>2. w \notin Running
    BY DEF Running
  <2>3. Cardinality(Running \cup {w}) = Cardinality(Running) + 1
    BY <2>2, PlacesFinite, FS_AddElement
  <2>. QED BY <1>3, <2>1, <2>3
<1>7. (PlacesCount = reqId)'
  <2>1. PlacesCount' = Len(queue) + Cardinality(pending') + Cardinality(parked)
                    + Cardinality(done) + Cardinality(Running')
    BY DEF PlacesCount
  <2>2. PlacesCount = reqId
    BY DEF Placed
  <2>3. PlacesCount' = PlacesCount
    BY SMTT(60), <1>6, <2>1, PlacesFinite DEF PlacesCount
  <2>. QED BY <2>2, <2>3
<1>. QED BY <1>4, <1>5, <1>7, MovedStamped DEF Placed

\* A worker takes the oldest new task.
LEMMA FetchQueued ==
  ASSUME GlobalTypeOK, Placed, NEW w \in Workers, job[w] = NoTask,
         queue # <<>>,
         job' = [job EXCEPT ![w] = Head(queue)],
         queue' = Tail(queue),
         UNCHANGED <<pending, itime, reqId, parked, done>>
  PROVE  Placed'
<1>. DEFINE t == Head(queue)
<1>1. /\ Len(queue) \in Nat \ {0} /\ queue \in [1 .. Len(queue) -> Tasks]
      /\ t = queue[1]
      /\ Len(queue') = Len(queue) - 1
      /\ queue' \in [1 .. Len(queue) - 1 -> Tasks]
      /\ \A i \in 1 .. Len(queue) - 1 : queue'[i] = queue[i + 1]
  <2>1. queue \in Seq(Tasks)
    BY DEF GlobalTypeOK
  <2>2. Tail(queue) \in Seq(Tasks) /\ Len(Tail(queue)) = Len(queue) - 1
        /\ \A i \in 1 .. Len(Tail(queue)) : Tail(queue)[i] = queue[i + 1]
    BY <2>1, HeadTailProperties
  <2>3. Len(queue) \in Nat \ {0} /\ queue \in [1 .. Len(queue) -> Tasks] /\ t = queue[1]
    BY <2>1
  <2>4. Tail(queue) \in [1 .. Len(Tail(queue)) -> Tasks]
    BY <2>2, SeqIsFunction
  <2>. QED BY <2>2, <2>3, <2>4
<1>2. t \in QueuedTasks /\ t \in Tasks /\ t # NoTask /\ t \notin Jobs
  BY <1>1, GlobalCtxAssumption DEF Placed, Apart, QueuedTasks
<1>3. QueuedTasks' = QueuedTasks \ {t}
  <2>1. \A i, j \in 1 .. Len(queue) : queue[i] = queue[j] => i = j
    BY <1>1 DEF Placed, Apart
  <2>2. ASSUME NEW u \in QueuedTasks' PROVE u \in QueuedTasks \ {t}
    <3>1. PICK i \in 1 .. Len(queue) - 1 : u = queue'[i]
      BY <1>1 DEF QueuedTasks
    <3>2. i + 1 \in 1 .. Len(queue) /\ u = queue[i + 1] /\ i + 1 # 1 /\ 1 \in 1 .. Len(queue)
      BY <1>1, <3>1
    <3>3. u # t
      BY <1>1, <2>1, <3>2
    <3>. QED BY <1>1, <3>2, <3>3 DEF QueuedTasks
  <2>3. ASSUME NEW u \in QueuedTasks, u # t PROVE u \in QueuedTasks'
    <3>1. PICK i \in 1 .. Len(queue) : u = queue[i]
      BY <1>1 DEF QueuedTasks
    <3>2. i - 1 \in 1 .. Len(queue) - 1 /\ queue'[i - 1] = queue[(i - 1) + 1] /\ (i - 1) + 1 = i
      BY <1>1, <2>3, <3>1
    <3>3. i - 1 \in DOMAIN queue' /\ u = queue'[i - 1]
      BY <1>1, <3>1, <3>2
    <3>. QED BY <3>3 DEF QueuedTasks
  <2>. QED BY <2>2, <2>3
<1>4. Jobs' = Jobs \cup {t} /\ Running' = Running \cup {w}
  BY <1>2 DEF GlobalTypeOK, Jobs, Running
<1>5. Apart'
  <2>1. (\A i, j \in DOMAIN queue : queue[i] = queue[j] => i = j)'
    <3>1. \A i, j \in 1 .. Len(queue) : queue[i] = queue[j] => i = j
      BY <1>1 DEF Placed, Apart
    <3>2. ASSUME NEW i \in 1 .. Len(queue) - 1, NEW j \in 1 .. Len(queue) - 1,
                 queue'[i] = queue'[j]
          PROVE  i = j
      <4>1. i + 1 \in 1 .. Len(queue) /\ j + 1 \in 1 .. Len(queue)
            /\ queue[i + 1] = queue[j + 1]
        BY <1>1, <3>2
      <4>. QED BY <3>1, <4>1
    <3>. QED BY <1>1, <3>2
  <2>2. (\A u, v \in Workers : job[u] = job[v] /\ job[u] # NoTask => u = v)'
    BY <1>2 DEF Placed, Apart, GlobalTypeOK, Jobs
  <2>. QED BY <1>2, <1>3, <1>4, <2>1, <2>2 DEF Placed, Apart
<1>6. Held' = Held
  BY <1>2, <1>3, <1>4, HeldIs
<1>7. (PlacesCount = reqId)'
  <2>1. Cardinality(Running') = Cardinality(Running) + 1
    <3>1. w \notin Running
      BY DEF Running
    <3>. QED BY <1>4, <3>1, PlacesFinite, FS_AddElement
  <2>2. PlacesCount' = Len(queue') + Cardinality(pending) + Cardinality(parked)
                    + Cardinality(done) + Cardinality(Running')
    BY DEF PlacesCount
  <2>3. PlacesCount' = PlacesCount
    BY <1>1, <2>1, <2>2, PlacesFinite DEF PlacesCount
  <2>. QED BY <2>3 DEF Placed
<1>. QED BY <1>5, <1>6, <1>7, MovedStamped DEF Placed

\* z_global_add_task gives the task the next itime, behind all the others.
LEMMA AddedPlaced ==
  ASSUME GlobalTypeOK, Placed, NEW t \in Tasks, t \notin Held,
         itime' = [itime EXCEPT ![t] = reqId],
         reqId' = reqId + 1,
         queue' = Append(queue, t),
         UNCHANGED <<pending, parked, done, job>>
  PROVE  Placed'
<1>1. /\ Len(queue) \in Nat /\ queue \in [1 .. Len(queue) -> Tasks]
      /\ Len(queue') = Len(queue) + 1
      /\ queue' \in [1 .. Len(queue) + 1 -> Tasks]
      /\ \A i \in 1 .. Len(queue) : queue'[i] = queue[i]
      /\ queue'[Len(queue) + 1] = t
      /\ reqId \in Nat
  <2>1. queue \in Seq(Tasks) /\ reqId \in Nat
    BY DEF GlobalTypeOK
  <2>2. /\ Append(queue, t) \in Seq(Tasks) /\ Len(Append(queue, t)) = Len(queue) + 1
        /\ \A i \in 1 .. Len(queue) : Append(queue, t)[i] = queue[i]
        /\ Append(queue, t)[Len(queue) + 1] = t
    BY <2>1, AppendProperties
  <2>3. Len(queue) \in Nat /\ queue \in [1 .. Len(queue) -> Tasks]
    BY <2>1
  <2>4. Append(queue, t) \in [1 .. Len(Append(queue, t)) -> Tasks]
    BY <2>2, SeqIsFunction
  <2>. QED BY <2>1, <2>2, <2>3, <2>4
<1>2. t \notin QueuedTasks /\ t \notin pending \cup parked \cup done \cup Jobs
  BY HeldIs
<1>3. QueuedTasks' = QueuedTasks \cup {t} /\ Jobs' = Jobs /\ Running' = Running
  <2>1. DOMAIN queue' = DOMAIN queue \cup {Len(queue) + 1}
    BY <1>1
  <2>2. \A i \in DOMAIN queue : queue'[i] = queue[i]
    BY <1>1
  <2>. QED BY <1>1, <2>1, <2>2 DEF QueuedTasks, Jobs, Running
<1>4. Apart'
  <2>1. (\A i, j \in DOMAIN queue : queue[i] = queue[j] => i = j)'
    <3>1. \A i, j \in 1 .. Len(queue) : queue[i] = queue[j] => i = j
      BY <1>1 DEF Placed, Apart
    <3>2. \A i \in 1 .. Len(queue) : queue[i] # t
      BY <1>1, <1>2 DEF QueuedTasks
    <3>. QED BY <1>1, <3>1, <3>2
  <2>. QED BY <1>2, <1>3, <2>1 DEF Placed, Apart
<1>5. Held' = Held \cup {t}
  BY <1>3, HeldIs
<1>6. Stamped'
  <2>1. Held \subseteq Tasks
    BY DEF GlobalTypeOK, Held
  <2>2. \A u \in Held : itime'[u] = itime[u] /\ itime[u] \in Nat
    BY <2>1 DEF GlobalTypeOK
  <2>3. itime'[t] = reqId
    BY DEF GlobalTypeOK
  <2>. QED BY <1>1, <1>5, <2>2, <2>3 DEF Stamped, Placed
<1>7. (Cardinality(Held) = reqId)'
  BY <1>5, PlacesFinite, FS_AddElement DEF Placed
<1>8. (PlacesCount = reqId)'
  <2>1. PlacesCount' = Len(queue') + Cardinality(pending) + Cardinality(parked)
                    + Cardinality(done) + Cardinality(Running)
    BY <1>3 DEF PlacesCount
  <2>2. PlacesCount' = PlacesCount + 1
    BY <1>1, <2>1, PlacesFinite DEF PlacesCount
  <2>. QED BY <2>2 DEF Placed
<1>. QED BY <1>4, <1>6, <1>7, <1>8 DEF Placed

\* A worker gives up its task t, which is put into the tree with the parked
\* tasks F, or is put among the parked or the completed ones.
LEMMA LeftJob ==
  ASSUME GlobalTypeOK, Placed, NEW w \in Workers, job[w] # NoTask,
         job' = [job EXCEPT ![w] = NoTask],
         NEW F \in SUBSET parked,
         \/ done' = done \cup {job[w]} /\ pending' = Pushed(F) /\ parked' = parked \ F
         \/ parked' = parked \cup {job[w]} /\ UNCHANGED <<pending, done>>
         \/ pending' = Pushed({job[w]}) /\ UNCHANGED <<parked, done>>,
         UNCHANGED <<queue, itime, reqId>>
  PROVE  Placed' /\ GlobalTypeOK!2' /\ GlobalTypeOK!5' /\ GlobalTypeOK!6'
<1>. DEFINE t == job[w]
<1>1. t \in Tasks /\ t \in Jobs /\ t # NoTask
  BY GlobalCtxAssumption DEF GlobalTypeOK, Jobs
<1>2. \A u \in Tasks : u \in Jobs => u \notin pending \cup parked \cup done \cup QueuedTasks
  BY DEF Placed, Apart
<1>3. \A u \in Workers : u # w => job[u] # t
  BY <1>1 DEF Placed, Apart
<1>4. Jobs' = Jobs \ {t} /\ Running' = Running \ {w} /\ QueuedTasks' = QueuedTasks
  BY <1>1, <1>3 DEF Jobs, Running, QueuedTasks, GlobalTypeOK
<1>5. Pushed(F) = pending \cup F
  <2>1. F \in SUBSET Held /\ pending \subseteq Held
    BY HeldIs
  <2>2. F \cap pending = {}
    BY DEF Placed, Apart, GlobalTypeOK
  <2>. QED BY <2>1, <2>2, PushedAdds DEF Placed
<1>6. Pushed({t}) = pending \cup {t}
  <2>1. {t} \in SUBSET Held /\ pending \subseteq Held
    BY <1>1, HeldIs
  <2>. QED BY <1>1, <1>2, <2>1, PushedAdds DEF Placed
<1>7. \/ done' = done \cup {t} /\ pending' = pending \cup F /\ parked' = parked \ F
      \/ parked' = parked \cup {t} /\ pending' = pending /\ done' = done
      \/ pending' = pending \cup {t} /\ parked' = parked /\ done' = done
  BY <1>5, <1>6
<1>8. Apart'
  <2>1. (\A i, j \in DOMAIN queue : queue[i] = queue[j] => i = j)'
    BY DEF Placed, Apart
  <2>2. (\A u, v \in Workers : job[u] = job[v] /\ job[u] # NoTask => u = v)'
    BY DEF Placed, Apart, GlobalTypeOK
  <2>. QED BY <1>1, <1>2, <1>4, <1>7, <2>1, <2>2 DEF Placed, Apart
<1>9. Held' = Held
  BY <1>1, <1>4, <1>7, HeldIs
<1>10. (PlacesCount = reqId)'
  <2>1. Cardinality(Running') = Cardinality(Running) - 1
    <3>1. w \in Running
      BY DEF Running
    <3>. QED BY <1>4, <3>1, PlacesFinite, FS_RemoveElement
  <2>2. PlacesCount' = Len(queue) + Cardinality(pending') + Cardinality(parked')
                    + Cardinality(done') + Cardinality(Running')
    BY DEF PlacesCount
  <2>3. /\ Cardinality(pending) \in Nat /\ Cardinality(parked) \in Nat
        /\ Cardinality(done) \in Nat /\ Cardinality(Running) \in Nat
        /\ Len(queue) \in Nat
        /\ PlacesCount = Len(queue) + Cardinality(pending) + Cardinality(parked)
                      + Cardinality(done) + Cardinality(Running)
    BY PlacesFinite DEF PlacesCount
  <2>4. t \notin pending /\ t \notin parked /\ t \notin done
    BY <1>1, <1>2
  <2>5. PlacesCount' = PlacesCount
    <3>1. CASE done' = done \cup {t} /\ pending' = pending \cup F /\ parked' = parked \ F
      <4>1. Cardinality(done') = Cardinality(done) + 1
        BY <2>4, <3>1, PlacesFinite, FS_AddElement
      <4>2. IsFiniteSet(F) /\ Cardinality(F) \in Nat
        BY PlacesFinite, FS_Subset, FS_CardinalityType
      <4>3. pending \cap F = {} /\ parked \cap F = F
        BY DEF Placed, Apart, GlobalTypeOK
      <4>4. Cardinality(pending') = Cardinality(pending) + Cardinality(F) - Cardinality(pending \cap F)
        BY <3>1, <4>2, PlacesFinite, FS_Union
      <4>5. Cardinality(parked') = Cardinality(parked) - Cardinality(parked \cap F)
        BY <3>1, PlacesFinite, FS_Difference
      <4>6. Cardinality(pending \cap F) = 0 /\ Cardinality(parked \cap F) = Cardinality(F)
        BY <4>3, FS_EmptySet
      <4>. QED BY SMTT(60), <2>1, <2>2, <4>1, <4>2, <4>4, <4>5, <4>6, <2>3
    <3>2. CASE parked' = parked \cup {t} /\ pending' = pending /\ done' = done
      <4>1. Cardinality(parked') = Cardinality(parked) + 1
        BY <2>4, <3>2, PlacesFinite, FS_AddElement
      <4>2. Cardinality(pending') = Cardinality(pending) /\ Cardinality(done') = Cardinality(done)
        BY <3>2
      <4>. QED BY SMTT(60), <2>1, <2>2, <4>1, <4>2, <2>3
    <3>3. CASE pending' = pending \cup {t} /\ parked' = parked /\ done' = done
      <4>1. Cardinality(pending') = Cardinality(pending) + 1
        BY <2>4, <3>3, PlacesFinite, FS_AddElement
      <4>2. Cardinality(parked') = Cardinality(parked) /\ Cardinality(done') = Cardinality(done)
        BY <3>3
      <4>. QED BY SMTT(60), <2>1, <2>2, <4>1, <4>2, <2>3
    <3>. QED BY <1>7, <3>1, <3>2, <3>3
  <2>. QED BY <2>5 DEF Placed
<1>. QED BY <1>1, <1>7, <1>8, <1>9, <1>10, MovedStamped DEF Placed, GlobalTypeOK

-----------------------------------------------------------------------------
(* The workers                                                             *)

\* What the workers are at: GlobalIInv is this and where the tasks are.
Manned == Busy /\ Staying /\ NoticedWork

\* A step in which one worker goes on, and others are at most woken: it does
\* not fall asleep, or there is nothing to fetch.
LEMMA OneGoesOn ==
  ASSUME wpc \in [Workers -> WorkerStates], Manned, NEW w \in Workers,
         wpc' \in [Workers -> WorkerStates],
         \A v \in Workers \ {w} :
           wpc'[v] = wpc[v] \/ (wpc[v] = "asleep" /\ wpc'[v] = "woken"),
         \A v \in Workers \ {w} : job'[v] = job[v],
         wpc'[w] = "exec" <=> job'[w] # NoTask,
         closed' = closed,
         \/ wpc'[w] \notin {"asleep", "leave", "gone"}
         \/ wpc'[w] = "asleep" /\ pending' = {} /\ queue' = <<>>
         \/ closed
  PROVE  Manned'
<1>1. Busy'
  BY DEF Manned, Busy
<1>2. Staying'
  BY DEF Manned, Staying
<1>3. NoticedWork'
  BY DEF Manned, NoticedWork
<1>. QED BY <1>1, <1>2, <1>3 DEF Manned

\* The same when no worker goes on by itself: a task is announced, a worker
\* wakes up, or the context is shut down.
LEMMA OthersGoOn ==
  ASSUME wpc \in [Workers -> WorkerStates], Manned,
         wpc' \in [Workers -> WorkerStates],
         \A v \in Workers :
           wpc'[v] = wpc[v] \/ (wpc[v] = "asleep" /\ wpc'[v] = "woken"),
         job' = job,
         (closed' = closed) \/ closed',
         \/ closed'
         \/ pending' = pending /\ queue' = queue
         \/ \E v \in Workers : wpc'[v] \notin {"asleep", "gone"}
  PROVE  Manned'
<1>1. Busy'
  BY DEF Manned, Busy
<1>2. Staying'
  BY DEF Manned, Staying
<1>3. NoticedWork'
  BY DEF Manned, NoticedWork
<1>. QED BY <1>1, <1>2, <1>3 DEF Manned

LEMMA GlobalInvIs == GlobalIInv <=> GlobalTypeOK /\ Placed /\ Manned
  BY DEF GlobalIInv, Placed, Manned

LEMMA RetireTyped ==
  ASSUME GlobalTypeOK, Retire
  PROVE  /\ waiting' \in 0 .. Cardinality(Workers) + 1
         /\ closer' \in {"open", "waiting", "joining", "closed"}
<1>1. Cardinality(Workers) \in Nat
  BY GlobalCtxAssumption, FS_CardinalityType
<1>. QED BY <1>1 DEF GlobalTypeOK, Retire

-----------------------------------------------------------------------------
(* The inductive invariant                                                 *)

LEMMA InitGlobalIInv == GlobalInit => GlobalIInv
<1>. SUFFICES ASSUME GlobalInit PROVE GlobalIInv
  OBVIOUS
<1>1. Cardinality(Workers) \in Nat
  BY GlobalCtxAssumption, FS_CardinalityType
<1>2. GlobalTypeOK
  <2>1. queue \in Seq(Tasks) /\ 0 \in 0 .. Cardinality(Workers) + 1
    BY <1>1 DEF GlobalInit
  <2>. QED BY <2>1 DEF GlobalInit, GlobalTypeOK
<1>3. Held = {} /\ QueuedTasks = {} /\ Jobs = {} /\ Running = {}
  BY DEF GlobalInit, Held, QueuedTasks, Jobs, Running
<1>4. Apart /\ Stamped
  BY <1>3 DEF GlobalInit, Apart, Stamped
<1>5. Cardinality({}) = 0 /\ Len(queue) = 0
  BY FS_EmptySet DEF GlobalInit
<1>6. Cardinality(Held) = reqId /\ PlacesCount = reqId
  BY <1>3, <1>5 DEF GlobalInit, PlacesCount
<1>7. Manned
  BY DEF GlobalInit, Manned, Busy, Staying, NoticedWork
<1>. QED BY <1>2, <1>4, <1>6, <1>7 DEF GlobalIInv, Manned

LEMMA AddTaskKeeps ==
  ASSUME GlobalIInv, NEW t \in Tasks, AddTask(t)
  PROVE  GlobalIInv'
<1>. USE GlobalInvIs DEF GlobalIInv
<1>1. wpc \in [Workers -> WorkerStates]
  BY DEF GlobalTypeOK, WorkerStates
<1>2. /\ wpc' \in [Workers -> WorkerStates]
      /\ \A v \in Workers :
           wpc'[v] = wpc[v] \/ (wpc[v] = "asleep" /\ wpc'[v] = "woken")
      /\ (\E v \in Workers : wpc[v] = "asleep") => \E v \in Workers : wpc'[v] = "woken"
  BY <1>1, SignalWakes DEF AddTask
<1>3. GlobalTypeOK'
  BY <1>2, AppendProperties DEF AddTask, GlobalTypeOK, WorkerStates
<1>4. Placed'
  BY AddedPlaced DEF AddTask
<1>5. closed' \/ \E v \in Workers : wpc'[v] \notin {"asleep", "gone"}
  BY <1>2, GlobalCtxAssumption DEF AddTask, Manned, Staying
<1>6. Manned'
  BY <1>1, <1>2, <1>5, OthersGoOn DEF AddTask
<1>. QED BY <1>3, <1>4, <1>6 DEF Placed, Manned

\* Fetching, before or after the wait.
LEMMA FetchKeeps ==
  ASSUME GlobalIInv, NEW w \in Workers, wpc[w] \in {"fetch", "woken"}, FetchTask(w),
         UNCHANGED <<itime, reqId, parked, done, closed, waiting, closer>>
  PROVE  GlobalIInv'
<1>. USE GlobalInvIs
<1>1. wpc \in [Workers -> WorkerStates] /\ job[w] = NoTask
  BY DEF GlobalTypeOK, WorkerStates, Manned, Busy
<1>2. Placed' /\ GlobalTypeOK' /\ job'[w] # NoTask
  <2>1. CASE /\ pending # {}
             /\ job' = [job EXCEPT ![w] = Oldest]
             /\ pending' = pending \ {Oldest}
             /\ UNCHANGED queue
    <3>1. Placed'
      BY <1>1, <2>1, FetchPending
    <3>2. Oldest \in Tasks
      BY <2>1, OldestIsPending DEF GlobalTypeOK
    <3>. QED BY <2>1, <3>1, <3>2, GlobalCtxAssumption DEF FetchTask, GlobalTypeOK
  <2>2. CASE /\ pending = {}
             /\ queue # <<>>
             /\ job' = [job EXCEPT ![w] = Head(queue)]
             /\ queue' = Tail(queue)
             /\ UNCHANGED pending
    <3>1. Placed'
      BY <1>1, <2>2, FetchQueued
    <3>2. Head(queue) \in Tasks /\ queue' \in Seq(Tasks)
      BY <2>2, HeadTailProperties DEF GlobalTypeOK
    <3>. QED BY <2>2, <3>1, <3>2, GlobalCtxAssumption DEF FetchTask, GlobalTypeOK
  <2>. QED BY <2>1, <2>2 DEF FetchTask
<1>3. Manned'
  <2>1. wpc' \in [Workers -> WorkerStates] /\ wpc'[w] = "exec"
        /\ \A v \in Workers \ {w} : wpc'[v] = wpc[v] /\ job'[v] = job[v]
    BY <1>1 DEF FetchTask, WorkerStates, GlobalTypeOK
  <2>. QED BY <1>1, <1>2, <2>1, OneGoesOn
<1>. QED BY <1>2, <1>3 DEF GlobalIInv, Placed, Manned

\* Completing, parking and going back to the tree.
LEMMA GiveUpKeeps ==
  ASSUME GlobalIInv, NEW w \in Workers, Complete(w) \/ Park(w) \/ Readd(w)
  PROVE  GlobalIInv'
<1>. USE GlobalInvIs
<1>1. wpc \in [Workers -> WorkerStates] /\ job[w] # NoTask
  BY DEF GlobalTypeOK, WorkerStates, Manned, Busy, Complete, Park, Readd
<1>. DEFINE free == IF Complete(w)
                    THEN {u \in parked : Needs[u] \cap Begun \subseteq {job[w]}} ELSE {}
<1>2. /\ job' = [job EXCEPT ![w] = NoTask]
      /\ free \in SUBSET parked
      /\ \/ done' = done \cup {job[w]} /\ pending' = Pushed(free) /\ parked' = parked \ free
         \/ parked' = parked \cup {job[w]} /\ UNCHANGED <<pending, done>>
         \/ pending' = Pushed({job[w]}) /\ UNCHANGED <<parked, done>>
      /\ UNCHANGED <<queue, itime, reqId>>
      /\ UNCHANGED <<closed, waiting, closer>>
  BY DEF Complete, Park, Readd
<1>. HIDE DEF free
<1>3. Placed' /\ pending' \subseteq Tasks /\ parked' \subseteq Tasks /\ done' \subseteq Tasks
  BY <1>1, <1>2, LeftJob
<1>4. /\ wpc' \in [Workers -> WorkerStates]
      /\ wpc'[w] = "top"
      /\ \A v \in Workers \ {w} :
           wpc'[v] = wpc[v] \/ (wpc[v] = "asleep" /\ wpc'[v] = "woken")
  <2>. DEFINE top == [wpc EXCEPT ![w] = "top"]
  <2>1. wpc' \in {top} \cup Signal(top) \cup Broadcast(top)
    BY DEF Complete, Park, Readd
  <2>2. top \in [Workers -> WorkerStates] /\ top[w] = "top"
        /\ \A v \in Workers \ {w} : top[v] = wpc[v]
    BY <1>1 DEF WorkerStates
  <2>. HIDE DEF top
  <2>. QED BY <2>1, <2>2, SignalWakes, BroadcastWakes
<1>5. GlobalTypeOK'
  BY <1>2, <1>3, <1>4 DEF GlobalTypeOK, WorkerStates
<1>6. job'[w] = NoTask /\ \A v \in Workers \ {w} : job'[v] = job[v]
  BY <1>2 DEF GlobalTypeOK
<1>7. Manned'
  BY <1>1, <1>2, <1>4, <1>6, OneGoesOn
<1>. QED BY <1>3, <1>5, <1>7 DEF GlobalIInv, Placed, Manned

\* The other steps of a worker move no task.
LEMMA WorkKeeps ==
  ASSUME GlobalIInv, NEW w \in Workers, Work(w) \/ WakeUp(w)
  PROVE  GlobalIInv'
<1>. USE GlobalInvIs
<1>1. CASE Complete(w) \/ Park(w) \/ Readd(w)
  BY <1>1, GiveUpKeeps
<1>2. CASE Fetch(w)
  BY <1>2, FetchKeeps DEF Fetch
<1>3. CASE Resume(w) /\ FetchTask(w)
  BY <1>3, FetchKeeps DEF Resume
<1>4. CASE \/ Top(w) \/ FetchClosed(w) \/ Sleep(w) \/ LeaveLoop(w)
           \/ Resume(w) /\ ~FetchTask(w)
  <2>1. wpc \in [Workers -> WorkerStates]
    BY DEF GlobalTypeOK, WorkerStates
  <2>2. /\ UNCHANGED <<taskVars, job>> /\ closed' = closed
        /\ job[w] = NoTask
        /\ wpc' \in [Workers -> WorkerStates] /\ wpc'[w] # "exec"
        /\ \A v \in Workers \ {w} : wpc'[v] = wpc[v]
        /\ \/ wpc'[w] \notin {"asleep", "leave", "gone"}
           \/ wpc'[w] = "asleep" /\ pending' = {} /\ queue' = <<>>
           \/ closed
    BY <1>4, <2>1 DEF Top, FetchClosed, Sleep, LeaveLoop, Resume, WorkerStates,
                      Manned, Busy, Staying, taskVars
  <2>3. GlobalTypeOK'
    <3>1. waiting' \in 0 .. Cardinality(Workers) + 1
          /\ closer' \in {"open", "waiting", "joining", "closed"}
      BY <1>4, RetireTyped DEF Top, FetchClosed, Sleep, LeaveLoop, Resume, GlobalTypeOK
    <3>. QED BY <2>2, <3>1 DEF GlobalTypeOK, taskVars, WorkerStates
  <2>4. Placed'
    BY <2>2, PlacedStays
  <2>5. Manned'
    BY <2>1, <2>2, OneGoesOn
  <2>. QED BY <2>3, <2>4, <2>5 DEF GlobalIInv, Placed, Manned
<1>5. CASE WakeUp(w)
  <2>1. wpc \in [Workers -> WorkerStates]
    BY DEF GlobalTypeOK, WorkerStates
  <2>2. /\ UNCHANGED <<taskVars, job>> /\ closed' = closed
        /\ wpc' \in [Workers -> WorkerStates]
        /\ \A v \in Workers :
             wpc'[v] = wpc[v] \/ (wpc[v] = "asleep" /\ wpc'[v] = "woken")
    BY <1>5, <2>1 DEF WakeUp, WorkerStates
  <2>3. GlobalTypeOK'
    BY <1>5, <2>2 DEF WakeUp, GlobalTypeOK, taskVars, WorkerStates
  <2>4. Placed'
    BY <2>2, PlacedStays
  <2>5. Manned'
    BY <2>1, <2>2, OthersGoOn DEF taskVars
  <2>. QED BY <2>3, <2>4, <2>5 DEF GlobalIInv, Placed, Manned
<1>. QED BY <1>1, <1>2, <1>3, <1>4, <1>5 DEF Work

\* The shutdown.
LEMMA ShutdownKeeps ==
  ASSUME GlobalIInv, Stop \/ Close \/ CloserWakesUp \/ Join
  PROVE  GlobalIInv'
<1>. USE GlobalInvIs
<1>1. wpc \in [Workers -> WorkerStates]
  BY DEF GlobalTypeOK, WorkerStates
<1>2. /\ UNCHANGED <<taskVars, job>> /\ (closed' = closed \/ closed')
      /\ closed' \in BOOLEAN /\ waiting' = waiting
      /\ closer' \in {"open", "waiting", "joining", "closed"}
      /\ wpc' = wpc \/ wpc' \in Broadcast(wpc)
  BY DEF Stop, Close, CloserWakesUp, Join, GlobalTypeOK
<1>3. /\ wpc' \in [Workers -> WorkerStates]
      /\ \A v \in Workers :
           wpc'[v] = wpc[v] \/ (wpc[v] = "asleep" /\ wpc'[v] = "woken")
  BY <1>1, <1>2, BroadcastWakes
<1>4. GlobalTypeOK'
  BY <1>2, <1>3 DEF GlobalTypeOK, taskVars, WorkerStates
<1>5. Placed'
  BY <1>2, PlacedStays
<1>6. Manned'
  BY <1>1, <1>2, <1>3, OthersGoOn DEF taskVars
<1>. QED BY <1>4, <1>5, <1>6 DEF GlobalIInv, Placed, Manned

LEMMA NextGlobalIInv == GlobalIInv /\ [GlobalNext]_gvars => GlobalIInv'
<1>. SUFFICES ASSUME GlobalIInv, [GlobalNext]_gvars PROVE GlobalIInv'
  OBVIOUS
<1>1. CASE UNCHANGED gvars
  <2>1. GlobalTypeOK' /\ Manned'
    BY <1>1 DEF GlobalIInv, gvars, taskVars, GlobalTypeOK, Manned, Busy, Staying, NoticedWork
  <2>2. Placed'
    BY <1>1, GlobalInvIs, PlacedStays DEF gvars
  <2>. QED BY <2>1, <2>2 DEF GlobalIInv, Placed, Manned
<1>. QED
  BY <1>1, AddTaskKeeps, WorkKeeps, ShutdownKeeps DEF GlobalNext

-----------------------------------------------------------------------------
(* The theorems                                                            *)

LEMMA GlobalInvariance == GlobalSpec => []GlobalIInv
  BY InitGlobalIInv, NextGlobalIInv, PTL DEF GlobalSpec

\* With any number of workers and tasks: a worker has a task exactly while it
\* runs it, so one that waits or has ended holds none; a worker ends only
\* after the shutdown; and no two tasks of the context have the same itime,
\* so that z_task_tree_push, which frees the task whose itime it meets again,
\* frees none.
THEOREM WorkersInPlace == GlobalSpec => [](GlobalTypeOK /\ Busy /\ Staying /\ Stamped)
<1>1. GlobalIInv => GlobalTypeOK /\ Busy /\ Staying /\ Stamped
  BY DEF GlobalIInv
<1>. QED BY <1>1, GlobalInvariance, PTL

\* No task that was given to z_global_add_task is lost, and none is in two
\* places or run by two workers at once, with any number of workers and
\* tasks (OnePlace).
THEOREM NoTaskLost == GlobalSpec => []OnePlace
<1>1. GlobalIInv => OnePlace
  BY DEF GlobalIInv, OnePlace, PlacesCount, Running
<1>. QED BY <1>1, GlobalInvariance, PTL

\* While tasks wait in the dispatcher and it is not shut down, some worker
\* is on its way to them: no wake-up is lost, although a list of tasks is
\* announced with one signal (NoticedWork).
THEOREM WorkIsNoticed == GlobalSpec => []NoticedWork
<1>1. GlobalIInv => NoticedWork
  BY DEF GlobalIInv
<1>. QED BY <1>1, GlobalInvariance, PTL
=============================================================================
