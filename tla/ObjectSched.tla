---------------------------- MODULE ObjectSched ----------------------------
(***************************************************************************)
(* The object scheduler (raleighsl/core/object.c) on one object: client    *)
(* tasks that read or write it, and transactions that lock it to apply or  *)
(* revert their atoms (raleighsl/core/transaction.c), all synchronised by  *)
(* the object's z_task_rwcsem_t (zcl/core/global/task.c) and by its        *)
(* pending_txn_id.                                                         *)
(*                                                                         *)
(* Tasks run on worker threads.  A task the dispatcher holds is            *)
(* "runnable" and any worker may pick it at any time: every order the      *)
(* dispatcher can produce, with any number of workers, is a behaviour of   *)
(* this module.  Between two accesses to state another thread uses, a task *)
(* rests at a value of pc:                                                 *)
(*   "idle"      not submitted          "parked"   in a wait queue         *)
(*   "runnable"  in the dispatcher      "exec"     running under hold      *)
(*   "checked"   before try_acquire     "flag"     write done, no flag yet *)
(*   "parking"   refused, not queued    "switch"   before try_switch       *)
(*   "flagging"  (transaction) pending_txn_id set, LOCK flag not           *)
(*   "release"   before the release     "wake"     word released           *)
(*   "finish"    completed, to notify   "done"                             *)
(*                                                                         *)
(* The plug's functions are abstracted to what they mean to the scheduler: *)
(* a write fails (LOCKED_KEY, CAS mismatch, ...) or leaves an uncommitted  *)
(* mutation ("dirty"), a commit publishes it.                              *)
(***************************************************************************)
EXTENDS RwcSem, FiniteSets

CONSTANTS
  Readers,   \* tasks submitted by raleighsl_exec_read
  Writers,   \* tasks submitted by raleighsl_exec_write
  Txns,      \* transactions whose groups contain the object
  NoTxn      \* pending_txn_id == 0

Clients == Readers \cup Writers
Tasks == Clients \cup Txns

ASSUME TasksAssumption ==
  /\ IsFiniteSet(Tasks)
  /\ Cardinality(Tasks) <= MaxReaders
  /\ Readers \cap Writers = {}
  /\ Clients \cap Txns = {}
  /\ NoTxn \notin Tasks

VARIABLES
  word,        \* object->rwcsem.lock
  waitq,       \* readq, writeq, commitq, lockq: only ever drained whole
               \* into a tree ordered by itime, so each is a set
  opened,      \* raleighsl_object_is_open
  pendingTxn,  \* object->pending_txn_id
  balance,     \* object->requires_balancing
  dirty,       \* a mutation waits for its commit in the object
  pc, 
  sched,       \* task->state
  hold,        \* the operation the task holds the semaphore for
  func,        \* task->args[2]: the client's function or __balance_func
  complete,    \* is_complete
  seen,        \* the state z_rwcsem_release returned to the task
  wiped        \* history: a WRITE was given up while readers were counted

vars == <<word, waitq, opened, pendingTxn, balance, dirty,
          pc, sched, hold, func, complete, seen, wiped>>

\* __sched_state_rwc_op, and the operation of the transaction scheduler.
Op(st) == IF st = "OPEN" THEN "WRITE" ELSE st

\* task->flags: what the task does once the object is open.
Flag(t) == IF t \in Readers THEN "READ" ELSE "WRITE"

Init ==
  /\ word = Zero
  /\ waitq = [op \in Ops |-> {}]
  /\ opened = FALSE
  /\ pendingTxn = NoTxn
  /\ balance = FALSE
  /\ dirty = FALSE
  /\ pc = [t \in Tasks |-> "idle"]
  /\ sched = [t \in Tasks |-> "OPEN"]
  /\ hold = [t \in Tasks |-> "NONE"]
  /\ func = [t \in Tasks |-> "client"]
  /\ complete = [t \in Tasks |-> FALSE]
  /\ seen = [t \in Tasks |-> Zero]
  /\ wiped = FALSE

-----------------------------------------------------------------------------
\* The creation of the object by the semantic layer, which takes no lock of
\* the object.
Create ==
  /\ ~opened
  /\ opened' = TRUE
  /\ UNCHANGED <<word, waitq, pendingTxn, balance, dirty, pc, sched, hold,
                 func, complete, seen, wiped>>

\* raleighsl_exec_read, raleighsl_exec_write.
Submit(t) ==
  /\ pc[t] = "idle"
  /\ pc' = [pc EXCEPT ![t] = "runnable"]
  /\ UNCHANGED <<word, waitq, opened, pendingTxn, balance, dirty, sched, hold,
                 func, complete, seen, wiped>>

\* A worker runs the task up to z_task_rwcsem_acquire: an open object is not
\* opened again, and a task that is not committing goes back to the
\* dispatcher while a transaction is pending on the object.
Check(t) ==
  LET st == IF sched[t] = "OPEN" /\ opened THEN Flag(t) ELSE sched[t]
  IN  /\ pc[t] = "runnable"
      /\ sched' = [sched EXCEPT ![t] = st]
      /\ pc' = [pc EXCEPT ![t] =
                  IF st \notin {"COMMIT", "LOCK"} /\ pendingTxn # NoTxn
                  THEN "runnable" ELSE "checked"]
      /\ UNCHANGED <<word, waitq, opened, pendingTxn, balance, dirty, hold,
                     func, complete, seen, wiped>>

\* z_task_rwcsem_acquire returns 0.
Acquire(t) ==
  /\ pc[t] = "checked"
  /\ Granted(Op(sched[t]), word)
  /\ word' = Acquired(Op(sched[t]), word)
  /\ hold' = [hold EXCEPT ![t] = Op(sched[t])]
  /\ pc' = [pc EXCEPT ![t] = "exec"]
  /\ UNCHANGED <<waitq, opened, pendingTxn, balance, dirty, sched, func,
                 complete, seen, wiped>>

\* z_rwcsem_try_acquire returned 0; the wait queue is not locked yet.
Refuse(t) ==
  /\ pc[t] = "checked"
  /\ Refused(Op(sched[t]), word)
  /\ pc' = [pc EXCEPT ![t] = "parking"]
  /\ UNCHANGED <<word, waitq, opened, pendingTxn, balance, dirty, sched, hold,
                 func, complete, seen, wiped>>

\* __task_rwcsem_add under wlock.
Park(t) ==
  /\ pc[t] = "parking"
  /\ waitq' = [waitq EXCEPT ![Op(sched[t])] = @ \cup {t}]
  /\ pc' = [pc EXCEPT ![t] = "parked"]
  /\ UNCHANGED <<word, opened, pendingTxn, balance, dirty, sched, hold, func,
                 complete, seen, wiped>>

-----------------------------------------------------------------------------
\* OBJECT_SCHED_OPEN: no plug implements open, so raleighsl_object_open
\* succeeds only on an object that was created in the meantime.  The switch
\* from WRITE to WRITE is refused without a look at the word.
ExecOpen(t) ==
  /\ pc[t] = "exec" /\ sched[t] = "OPEN"
  /\ \/ /\ opened
        /\ complete' = [complete EXCEPT ![t] = FALSE]
        /\ sched' = [sched EXCEPT ![t] = Flag(t)]
        /\ pc' = [pc EXCEPT ![t] = IF Flag(t) = "READ" THEN "switch"
                                   ELSE "release"]
     \/ /\ ~opened
        /\ complete' = [complete EXCEPT ![t] = TRUE]
        /\ pc' = [pc EXCEPT ![t] = "release"]
        /\ UNCHANGED sched
  /\ UNCHANGED <<word, waitq, opened, pendingTxn, balance, dirty, hold, func,
                 seen, wiped>>

\* z_rwcsem_try_switch (WRITE, READ).
SwitchRead(t) ==
  /\ pc[t] = "switch" /\ sched[t] = "READ"
  /\ \/ /\ SwitchReadRefused(word)
        /\ pc' = [pc EXCEPT ![t] = "release"]
        /\ UNCHANGED <<word, hold, wiped>>
     \/ /\ SwitchReadGranted(word)
        /\ word' = SwitchedRead
        /\ hold' = [hold EXCEPT ![t] = "READ"]
        /\ wiped' = (wiped \/ word.readers > 0)
        /\ pc' = [pc EXCEPT ![t] = "exec"]
  /\ UNCHANGED <<waitq, opened, pendingTxn, balance, dirty, sched, func,
                 complete, seen>>

\* OBJECT_SCHED_READ.
ExecRead(t) ==
  /\ pc[t] = "exec" /\ sched[t] = "READ"
  /\ complete' = [complete EXCEPT ![t] = TRUE]
  /\ pc' = [pc EXCEPT ![t] = "release"]
  /\ UNCHANGED <<word, waitq, opened, pendingTxn, balance, dirty, sched, hold,
                 func, seen, wiped>>

\* OBJECT_SCHED_WRITE: the plug's function fails, or it leaves a mutation to
\* commit.  A client's write may leave the object in need of balancing.
ExecWrite(t) ==
  /\ pc[t] = "exec" /\ sched[t] = "WRITE"
  /\ \/ /\ complete' = [complete EXCEPT ![t] = TRUE]
        /\ pc' = [pc EXCEPT ![t] = "release"]
        /\ UNCHANGED <<dirty, balance>>
     \/ /\ complete' = [complete EXCEPT ![t] = FALSE]
        /\ dirty' = TRUE
        /\ balance' \in IF func[t] = "client" THEN BOOLEAN ELSE {balance}
        /\ pc' = [pc EXCEPT ![t] = "flag"]
  /\ UNCHANGED <<word, waitq, opened, pendingTxn, sched, hold, func, seen,
                 wiped>>

\* Fault: the flag that announces the commit is not set.
NoCommitFlag(t) ==
  /\ pc[t] = "flag"
  /\ sched' = [sched EXCEPT ![t] = "COMMIT"]
  /\ pc' = [pc EXCEPT ![t] = "switch"]
  /\ UNCHANGED <<word, waitq, opened, pendingTxn, balance, dirty, hold, func,
                 complete, seen, wiped>>

\* z_rwcsem_set_commit_flag after a successful write.
SetCommitFlag(t) ==
  /\ pc[t] = "flag"
  /\ word' = SetCommit(word)
  /\ sched' = [sched EXCEPT ![t] = "COMMIT"]
  /\ pc' = [pc EXCEPT ![t] = "switch"]
  /\ UNCHANGED <<waitq, opened, pendingTxn, balance, dirty, hold, func,
                 complete, seen, wiped>>

\* z_rwcsem_try_switch (WRITE, COMMIT): with no reader left the writer goes
\* on to commit, otherwise it gives up WRITE and queues for COMMIT.
SwitchCommit(t) ==
  /\ pc[t] = "switch" /\ sched[t] = "COMMIT"
  /\ \/ /\ SwitchCommitGranted(word)
        /\ hold' = [hold EXCEPT ![t] = "COMMIT"]
        /\ pc' = [pc EXCEPT ![t] = "exec"]
     \/ /\ ~SwitchCommitGranted(word)
        /\ pc' = [pc EXCEPT ![t] = "release"]
        /\ UNCHANGED hold
  /\ UNCHANGED <<word, waitq, opened, pendingTxn, balance, dirty, sched, func,
                 complete, seen, wiped>>

\* OBJECT_SCHED_COMMIT: raleighsl_object_commit.
ExecCommit(t) ==
  /\ pc[t] = "exec" /\ sched[t] = "COMMIT"
  /\ dirty' = FALSE
  /\ balance' = (balance /\ func[t] = "client")
  /\ complete' = [complete EXCEPT ![t] = TRUE]
  /\ pc' = [pc EXCEPT ![t] = "release"]
  /\ UNCHANGED <<word, waitq, opened, pendingTxn, sched, hold, func, seen,
                 wiped>>

-----------------------------------------------------------------------------
\* Fault: the pending id of another transaction is overwritten.
BarrierOverwrites(x) ==
  /\ pc[x] = "idle"
  /\ opened
  /\ pendingTxn' = x
  /\ pc' = [pc EXCEPT ![x] = "flagging"]
  /\ UNCHANGED <<word, waitq, opened, balance, dirty, sched, hold, func,
                 complete, seen, wiped>>

\* __txn_mgr_acquire_barrier, on this object: the pending id, then the flag.
Barrier(x) ==
  /\ pc[x] = "idle"
  /\ opened
  /\ pendingTxn = NoTxn
  /\ pendingTxn' = x
  /\ pc' = [pc EXCEPT ![x] = "flagging"]
  /\ UNCHANGED <<word, waitq, opened, balance, dirty, sched, hold, func,
                 complete, seen, wiped>>

SetLockFlag(x) ==
  /\ pc[x] = "flagging"
  /\ word' = SetLock(word)
  /\ sched' = [sched EXCEPT ![x] = "LOCK"]
  /\ pc' = [pc EXCEPT ![x] = "checked"]
  /\ UNCHANGED <<waitq, opened, pendingTxn, balance, dirty, hold, func,
                 complete, seen, wiped>>

\* TXN_SCHED_WRITE and TXN_SCHED_COMMIT: the atoms are applied or reverted
\* and raleighsl_object_commit is called.
ExecTxn(x) ==
  /\ pc[x] = "exec" /\ sched[x] = "LOCK"
  /\ dirty' = FALSE
  /\ complete' = [complete EXCEPT ![x] = TRUE]
  /\ pc' = [pc EXCEPT ![x] = "release"]
  /\ UNCHANGED <<word, waitq, opened, pendingTxn, balance, sched, hold, func,
                 seen, wiped>>

-----------------------------------------------------------------------------
\* z_task_rwcsem_release, the word.
Release(t) ==
  LET s == Released(hold[t], word)
  IN  /\ pc[t] = "release"
      /\ word' = s
      /\ seen' = [seen EXCEPT ![t] = s]
      /\ hold' = [hold EXCEPT ![t] = "NONE"]
      /\ wiped' = (wiped \/ (hold[t] = "WRITE" /\ word.readers > 0))
      /\ pc' = [pc EXCEPT ![t] = "wake"]
      /\ UNCHANGED <<waitq, opened, pendingTxn, balance, dirty, sched, func,
                     complete>>

\* z_task_rwcsem_release, the queues: the state the release returned decides
\* which ones are drained to the dispatcher, with the task if it goes on.
Wake(t) ==
  LET woken == UNION {waitq[op] : op \in {o \in Ops : Wakes(o, seen[t])}}
  IN  /\ pc[t] = "wake"
      /\ waitq' = [op \in Ops |-> waitq[op] \ woken]
      /\ pc' = [u \in Tasks |->
                  IF u = t THEN IF complete[t] THEN "finish" ELSE "runnable"
                  ELSE IF u \in woken THEN "runnable" ELSE pc[u]]
      /\ UNCHANGED <<word, opened, pendingTxn, balance, dirty, sched, hold,
                     func, complete, seen, wiped>>

\* The end of __sched_object_task_exec: the client is notified, and after a
\* commit the task may go back to the dispatcher to balance the object.
FinishClient(t) ==
  /\ pc[t] = "finish"
  /\ \/ /\ sched[t] = "COMMIT" /\ balance
        /\ sched' = [sched EXCEPT ![t] = "OPEN"]
        /\ func' = [func EXCEPT ![t] = "balance"]
        /\ pc' = [pc EXCEPT ![t] = "runnable"]
     \/ /\ ~(sched[t] = "COMMIT" /\ balance)
        /\ pc' = [pc EXCEPT ![t] = "done"]
        /\ UNCHANGED <<sched, func>>
  /\ UNCHANGED <<word, waitq, opened, pendingTxn, balance, dirty, hold,
                 complete, seen, wiped>>

\* Fault: the pending id stays.
FinishTxnPending(x) ==
  /\ pc[x] = "finish"
  /\ pc' = [pc EXCEPT ![x] = "done"]
  /\ UNCHANGED <<word, waitq, opened, pendingTxn, balance, dirty, sched, hold,
                 func, complete, seen, wiped>>

\* The end of __txn_mgr_release_locks: the pending id is cleared last.
FinishTxn(x) ==
  /\ pc[x] = "finish"
  /\ pendingTxn' = NoTxn
  /\ pc' = [pc EXCEPT ![x] = "done"]
  /\ UNCHANGED <<word, waitq, opened, balance, dirty, sched, hold, func,
                 complete, seen, wiped>>

-----------------------------------------------------------------------------
\* What a worker does for the task once the dispatcher has it.
Semaphore(t) ==
  \/ Check(t) \/ Acquire(t) \/ Refuse(t) \/ Park(t) \/ Release(t) \/ Wake(t)

ClientStep(t) ==
  \/ ExecOpen(t) \/ SwitchRead(t) \/ ExecRead(t) \/ ExecWrite(t)
  \/ SetCommitFlag(t) \/ SwitchCommit(t) \/ ExecCommit(t) \/ FinishClient(t)

TxnStep(x) == SetLockFlag(x) \/ ExecTxn(x) \/ FinishTxn(x)

Next ==
  \/ Create
  \/ \E t \in Clients : Submit(t)
  \/ \E x \in Txns : Barrier(x)
  \/ \E t \in Tasks : Semaphore(t)
  \/ \E t \in Clients : ClientStep(t)
  \/ \E x \in Txns : TxnStep(x)

Spec == Init /\ [][Next]_vars

\* Workers do not stop while the dispatcher holds a task or they run one;
\* clients need not submit anything.
Fairness ==
  /\ \A t \in Tasks : WF_vars(Semaphore(t))
  /\ \A t \in Clients : WF_vars(ClientStep(t))
  /\ \A x \in Txns : WF_vars(TxnStep(x))

FairSpec == Spec /\ Fairness

-----------------------------------------------------------------------------
\* The type of the state; the word stays a word whatever its history.
TypeOK ==
  /\ word \in Word
  /\ waitq \in [Ops -> SUBSET Tasks]
  /\ opened \in BOOLEAN
  /\ pendingTxn \in Txns \cup {NoTxn}
  /\ balance \in BOOLEAN
  /\ dirty \in BOOLEAN
  /\ pc \in [Tasks -> {"idle", "runnable", "checked", "parking", "parked",
                       "exec", "flag", "switch", "flagging", "release",
                       "wake", "finish", "done"}]
  /\ sched \in [Tasks -> {"OPEN", "READ", "WRITE", "COMMIT", "LOCK"}]
  /\ hold \in [Tasks -> Ops \cup {"NONE"}]
  /\ func \in [Tasks -> {"client", "balance"}]
  /\ complete \in [Tasks -> BOOLEAN]
  /\ seen \in [Tasks -> Word]
  /\ wiped \in BOOLEAN

Exclusive == {"WRITE", "COMMIT", "LOCK"}

\* As long as no WRITE has been given up under a reader, a writer, a
\* committer and a transaction exclude one another, and a commit or a
\* transaction excludes the readers: the plug's commit, apply and revert
\* never run beside another access to the object.
Exclusion ==
  ~wiped =>
    /\ \A t, u \in Tasks :
         t # u /\ hold[t] \in Exclusive => hold[u] \notin Exclusive
    /\ \A t, u \in Tasks :
         hold[t] \in {"COMMIT", "LOCK"} => hold[u] # "READ"

\* "let a commit finish before a transaction will begin": when a
\* transaction holds the object, no mutation of an earlier write waits for
\* its commit (__sched_object_task_exec, __sched_txn_task_exec), as long as
\* no WRITE has been given up under a reader, which drops it from the count.
CommitBeforeTxn ==
  ~wiped => \A x \in Txns : hold[x] = "LOCK" => ~dirty

\* A write function runs only on an object whose last mutation has been
\* committed: between a successful write and its commit the COMMIT flag
\* keeps every other writer out, also when the switch to COMMIT is refused,
\* because a transaction has flagged LOCK or a reader was inside and has left
\* since, and the task gives WRITE up and comes back for its commit.  Claimed
\* as long as no WRITE has been given up while a reader is inside.
WriteOnCommitted ==
  ~wiped => \A t \in Clients :
              pc[t] = "exec" /\ hold[t] = "WRITE" => ~dirty

\* The assertion of __txn_mgr_release_locks ("unlocking the wrong
\* transaction"): from the barrier to the end of the release the pending id
\* is that of the transaction at work.
RightTxn ==
  \A x \in Txns : pc[x] \notin {"idle", "done"} => pendingTxn = x

\* When every submitted task has been answered, the semaphore is back to
\* zero, no task waits, nothing is left uncommitted and no transaction is
\* pending: no chain of operations leaks a reader, a flag or a barrier, as
\* long as no WRITE has been given up while a reader is inside (an ordinary
\* write beside a reader then leaks the count).
QuiescentClean ==
  (\A t \in Tasks : pc[t] \in {"idle", "done"}) /\ ~wiped =>
    /\ word = Zero
    /\ \A op \in Ops : waitq[op] = {}
    /\ ~dirty
    /\ pendingTxn = NoTxn

-----------------------------------------------------------------------------
\* z_task_rwcsem_release, "Wake up the waiting tasks": a task that was put
\* in a wait queue of the semaphore is eventually taken out of it.
WaitersWake == \A t \in Tasks : pc[t] = "parked" ~> pc[t] # "parked"
=============================================================================
