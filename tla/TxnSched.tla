------------------------------ MODULE TxnSched ------------------------------
(***************************************************************************)
(* Transactions over several number objects: the transaction manager       *)
(* (raleighsl/core/transaction.c) with the object scheduler                *)
(* (raleighsl/core/object.c) and the number plug.                          *)
(*                                                                         *)
(* Clients are sequential: a client sends its next request when the last   *)
(* one has been answered.  Each request is served by a task of its own.    *)
(* The task of a client that has been answered still gives back what it    *)
(* holds of the transaction, beside the client's next request.             *)
(*                                                                         *)
(* The steps are coarser than in ObjectSched, which has every access to    *)
(* one object apart: here a refused task enters the wait queue in the same *)
(* step, a write sets the COMMIT flag and tries the switch in the same     *)
(* step, and a release wakes the waiters in the same step.  Each step of   *)
(* the commit that touches another object or another lock is still a step  *)
(* of its own.  The objects exist and are open.                            *)
(***************************************************************************)
EXTENDS RwcSem, Number, Sequences, FiniteSets, Functions

CONSTANTS
  Objects,
  Txns,
  Clients,
  Scripts,  \* workloads: [Clients -> sequence of sets of requests], what
            \* each client may send as its first, second... request
  Nobody    \* no task

\* A request: kind "GET", "PUT" (with a call f of the number), "COMMIT" or
\* "ROLLBACK"; the object, and the transaction or NoTxn.
Tasks == UNION {{c} \X (1 .. Len(s[c])) : c \in Clients, s \in Scripts}

Requests ==
  UNION {UNION Range(s[c]) : c \in Clients, s \in Scripts}

ASSUME ScriptAssumption ==
  /\ NoTxn \notin Txns
  /\ Nobody \notin Tasks
  /\ IsFiniteSet(Tasks)
  /\ Cardinality(Tasks) <= MaxReaders
  /\ \A r \in Requests :
       \/ r.kind \in {"GET", "PUT"} /\ r.obj \in Objects
                                     /\ r.txn \in Txns \cup {NoTxn}
       \/ r.kind \in {"COMMIT", "ROLLBACK"} /\ r.txn \in Txns

VARIABLES
  word, waitq, pending, num,               \* of each object
  tword, tqueue, tstate, group, refs,      \* of each transaction
  cached,    \* the transactions in txn_mgr->cache
  mgr,       \* the task that has txn_mgr->lock, or Nobody
  req, pc, sched, hold, idx, ctype, errno, value, answered,   \* of each task
  script,    \* the workload at hand
  late,      \* history: a transaction was joined after it had ended
  wiped      \* history: a WRITE was given up while readers were counted

objVars == <<word, waitq, pending, num>>
txnVars == <<tword, tqueue, tstate, group, refs, cached>>
taskVars == <<req, pc, sched, hold, idx, ctype, errno, value, answered>>
hist == <<script, late, wiped>>
vars == <<objVars, txnVars, mgr, taskVars, hist>>

Obj(t) == req[t].obj
Txn(t) == req[t].txn
Groups(t) == group[Txn(t)]
Here(t) == Groups(t)[idx[t]]

NoRequest == [kind |-> "NONE"]

Init ==
  /\ word = [o \in Objects |-> Zero]
  /\ waitq = [o \in Objects |-> [op \in Ops |-> {}]]
  /\ pending = [o \in Objects |-> NoTxn]
  /\ num = [o \in Objects |-> Created]
  /\ tword = [x \in Txns |-> Zero]
  /\ tqueue = [x \in Txns |-> {}]
  /\ tstate = [x \in Txns |-> "NONE"]
  /\ group = [x \in Txns |-> <<>>]
  /\ refs = [x \in Txns |-> 0]
  /\ cached = {}
  /\ mgr = Nobody
  /\ req = [t \in Tasks |-> NoRequest]
  /\ pc = [t \in Tasks |-> "new"]
  /\ sched = [t \in Tasks |-> "NONE"]
  /\ hold = [t \in Tasks |-> "NONE"]
  /\ idx = [t \in Tasks |-> 1]
  /\ ctype = [t \in Tasks |-> "NONE"]
  /\ errno = [t \in Tasks |-> "PENDING"]
  /\ value = [t \in Tasks |-> 0]
  /\ answered = {}
  /\ script \in Scripts
  /\ late = FALSE
  /\ wiped = FALSE

\* The transactions that the clients of the workload begin.
Begun == {r.txn : r \in UNION {UNION Range(script[c]) : c \in Clients}} \ {NoTxn}

-----------------------------------------------------------------------------
\* Fault: the cache and the commit to come share one reference.
BeginOneRef(x) ==
  /\ tstate[x] = "NONE"
  /\ tstate' = [tstate EXCEPT ![x] = "WAIT_COMMIT"]
  /\ refs' = [refs EXCEPT ![x] = 1]
  /\ cached' = cached \cup {x}
  /\ UNCHANGED <<objVars, tword, tqueue, group, mgr, taskVars, hist>>

\* raleighsl_transaction_create: one reference for the commit to come and
\* one for the cache.
Begin(x) ==
  /\ tstate[x] = "NONE"
  /\ tstate' = [tstate EXCEPT ![x] = "WAIT_COMMIT"]
  /\ refs' = [refs EXCEPT ![x] = 2]
  /\ cached' = cached \cup {x}
  /\ UNCHANGED <<objVars, tword, tqueue, group, mgr, taskVars, hist>>

\* The client may send its next request.
Turn(t) == pc[t] = "new" /\ (t[2] > 1 => <<t[1], t[2] - 1>> \in answered)

Ended(x) == tstate[x] \in {"COMMITTED", "ROLLEDBACK"}

\* The request fails before a task is made.
Reject(t, e) ==
  /\ errno' = [errno EXCEPT ![t] = e]
  /\ answered' = answered \cup {t}
  /\ pc' = [pc EXCEPT ![t] = "done"]

\* raleighsl_exec_read and raleighsl_exec_write, up to the cache lookup of
\* raleighsl_transaction_acquire.
Submit(t, r) ==
  /\ Turn(t)
  /\ r.kind \in {"GET", "PUT"}
  /\ req' = [req EXCEPT ![t] = r]
  /\ sched' = [sched EXCEPT ![t] = IF r.kind = "GET" THEN "READ" ELSE "WRITE"]
  /\ \/ /\ r.txn = NoTxn
        /\ pc' = [pc EXCEPT ![t] = "ready"]
        /\ UNCHANGED <<refs, errno, answered>>
     \/ /\ r.txn \in cached
        /\ refs' = [refs EXCEPT ![r.txn] = @ + 1]
        /\ pc' = [pc EXCEPT ![t] = "looked"]
        /\ UNCHANGED <<errno, answered>>
     \/ /\ r.txn \in Txns \ cached
        /\ Reject(t, "TXN_NOT_FOUND")
        /\ UNCHANGED refs
  /\ UNCHANGED <<objVars, tword, tqueue, tstate, group, cached, mgr, hold, idx,
                 ctype, value, hist>>

\* The rest of raleighsl_transaction_acquire.  When a commit has closed the
\* transaction in the meantime, the reference of the lookup is not given
\* back.
JoinTxn(t) ==
  LET x == Txn(t)
  IN  /\ pc[t] = "looked"
      /\ \/ /\ Granted("READ", tword[x])
            /\ tword' = [tword EXCEPT ![x] = Acquired("READ", @)]
            /\ pc' = [pc EXCEPT ![t] = "ready"]
            /\ late' = (late \/ Ended(x))
            /\ UNCHANGED <<errno, answered>>
         \/ /\ Refused("READ", tword[x])
            /\ Reject(t, "TXN_CLOSED")
            /\ UNCHANGED <<tword, late>>
      /\ UNCHANGED <<objVars, tqueue, tstate, group, refs, cached, mgr, req,
                     sched, hold, idx, ctype, value, script, wiped>>

\* __txn_commit_task up to z_cache_remove, which gives up the reference of
\* the cache.
SubmitEnd(t, r) ==
  /\ Turn(t)
  /\ r.kind \in {"COMMIT", "ROLLBACK"}
  /\ req' = [req EXCEPT ![t] = r]
  /\ ctype' = [ctype EXCEPT ![t] = IF r.kind = "COMMIT" THEN "APPLY"
                                   ELSE "REVERT"]
  /\ \/ /\ r.txn \in cached
        /\ cached' = cached \ {r.txn}
        /\ refs' = [refs EXCEPT ![r.txn] = @ - 1]
        /\ pc' = [pc EXCEPT ![t] = "closing"]
        /\ UNCHANGED <<errno, answered>>
     \/ /\ r.txn \notin cached
        /\ Reject(t, "TXN_NOT_FOUND")
        /\ UNCHANGED <<refs, cached>>
  /\ UNCHANGED <<objVars, tword, tqueue, tstate, group, mgr, sched, hold, idx,
                 value, hist>>

\* The rest of __txn_commit_task: the COMMIT flag closes the transaction.
CloseTxn(t) ==
  /\ pc[t] = "closing"
  /\ tword' = [tword EXCEPT ![Txn(t)] = SetCommit(@)]
  /\ sched' = [sched EXCEPT ![t] = "ACQUIRE"]
  /\ pc' = [pc EXCEPT ![t] = "ready"]
  /\ UNCHANGED <<objVars, tqueue, tstate, group, refs, cached, mgr, req, hold,
                 idx, ctype, errno, value, answered, hist>>

-----------------------------------------------------------------------------
\* __sched_object_task_exec sees no pending transaction, or is committing.
\* Otherwise the task goes back to the dispatcher as it is.
Check(t) ==
  /\ pc[t] = "ready"
  /\ sched[t] \in {"READ", "WRITE", "COMMIT"}
  /\ sched[t] = "COMMIT" \/ pending[Obj(t)] = NoTxn
  /\ pc' = [pc EXCEPT ![t] = "checked"]
  /\ UNCHANGED <<objVars, txnVars, mgr, req, sched, hold, idx, ctype, errno,
                 value, answered, hist>>

\* z_task_rwcsem_acquire on the object.
Take(t) ==
  LET o == Obj(t)
  IN  /\ pc[t] = "checked"
      /\ \/ /\ Granted(sched[t], word[o])
            /\ word' = [word EXCEPT ![o] = Acquired(sched[t], @)]
            /\ hold' = [hold EXCEPT ![t] = sched[t]]
            /\ pc' = [pc EXCEPT ![t] = "run"]
            /\ UNCHANGED waitq
         \/ /\ Refused(sched[t], word[o])
            /\ waitq' = [waitq EXCEPT ![o][sched[t]] = @ \cup {t}]
            /\ pc' = [pc EXCEPT ![t] = "parked"]
            /\ UNCHANGED <<word, hold>>
      /\ UNCHANGED <<pending, num, txnVars, mgr, req, sched, idx, ctype, errno,
                     value, answered, hist>>

\* OBJECT_SCHED_READ: raleighsl_number_get.
Read(t) ==
  /\ pc[t] = "run" /\ sched[t] = "READ"
  /\ value' = [value EXCEPT ![t] = Get(num[Obj(t)], Txn(t))]
  /\ errno' = [errno EXCEPT ![t] = "NONE"]
  /\ pc' = [pc EXCEPT ![t] = "release"]
  /\ UNCHANGED <<objVars, txnVars, mgr, req, sched, hold, idx, ctype, answered,
                 hist>>

\* OBJECT_SCHED_WRITE fails: the transaction must not commit any more.
WriteFails(t) ==
  LET e == Errno(num[Obj(t)], Txn(t), req[t].f)
  IN  /\ pc[t] = "run" /\ sched[t] = "WRITE"
      /\ e # "NONE"
      /\ errno' = [errno EXCEPT ![t] = e]
      /\ tstate' = IF Txn(t) = NoTxn THEN tstate
                   ELSE [tstate EXCEPT ![Txn(t)] = "DONT_COMMIT"]
      /\ pc' = [pc EXCEPT ![t] = "release"]
      /\ UNCHANGED <<objVars, tword, tqueue, group, refs, cached, mgr, req,
                     sched, hold, idx, ctype, value, answered, hist>>

\* OBJECT_SCHED_WRITE succeeds: raleighsl_transaction_add may have put the
\* object in the transaction's groups, the COMMIT flag is set and the task
\* goes on to the commit if no reader is left.
Write(t) ==
  LET o == Obj(t)
      x == Txn(t)
      n == num[o]
      s == SetCommit(word[o])
  IN  /\ pc[t] = "run" /\ sched[t] = "WRITE"
      /\ Errno(n, x, req[t].f) = "NONE"
      /\ ~Traps(n.write, req[t].f)
      /\ num' = [num EXCEPT ![o] = Mutate(n, x, req[t].f)]
      /\ value' = [value EXCEPT ![t] = Mutate(n, x, req[t].f).write]
      /\ group' = IF AddsAtom(n, x)
                  THEN [group EXCEPT ![x] = Append(@, o)] ELSE group
      /\ word' = [word EXCEPT ![o] = s]
      /\ sched' = [sched EXCEPT ![t] = "COMMIT"]
      /\ IF SwitchCommitGranted(s)
         THEN hold' = [hold EXCEPT ![t] = "COMMIT"] /\ UNCHANGED pc
         ELSE pc' = [pc EXCEPT ![t] = "release"] /\ UNCHANGED hold
      /\ UNCHANGED <<waitq, pending, tword, tqueue, tstate, refs, cached, mgr,
                     req, idx, ctype, errno, answered, hist>>

\* OBJECT_SCHED_COMMIT: raleighsl_object_commit.
Publish(t) ==
  /\ pc[t] = "run" /\ sched[t] = "COMMIT"
  /\ num' = [num EXCEPT ![Obj(t)] = Commit(@)]
  /\ errno' = [errno EXCEPT ![t] = "NONE"]
  /\ pc' = [pc EXCEPT ![t] = "release"]
  /\ UNCHANGED <<word, waitq, pending, txnVars, mgr, req, sched, hold, idx,
                 ctype, value, answered, hist>>

\* The tasks that a release of the object o to the word s takes from its
\* queues, and what is left in them.
Woken(o, s) == UNION {waitq[o][op] : op \in {p \in Ops : Wakes(p, s)}}
Drained(o, s) ==
  [waitq EXCEPT ![o] = [op \in Ops |-> IF Wakes(op, s) THEN {} ELSE @[op]]]

\* z_task_rwcsem_release: the task has its errno, or goes on as "COMMIT".
Release(t) ==
  LET o == Obj(t)
      s == Released(hold[t], word[o])
  IN  /\ pc[t] = "release"
      /\ word' = [word EXCEPT ![o] = s]
      /\ waitq' = Drained(o, s)
      /\ pc' = [u \in Tasks |->
                  IF u = t THEN IF errno[t] = "PENDING" THEN "ready"
                                ELSE "notify"
                  ELSE IF u \in Woken(o, s) THEN "ready" ELSE pc[u]]
      /\ hold' = [hold EXCEPT ![t] = "NONE"]
      /\ wiped' = (wiped \/ (hold[t] = "WRITE" /\ word[o].readers > 0))
      /\ UNCHANGED <<pending, num, txnVars, mgr, req, sched, idx, ctype, errno,
                     value, answered, script, late>>

\* The client is notified, before the transaction is given back.
Notify(t) ==
  /\ pc[t] = "notify"
  /\ answered' = answered \cup {t}
  /\ pc' = [pc EXCEPT ![t] = IF Txn(t) = NoTxn THEN "done" ELSE "leave"]
  /\ UNCHANGED <<objVars, txnVars, mgr, req, sched, hold, idx, ctype, errno,
                 value, hist>>

\* raleighsl_transaction_release: z_rwcsem_release_read, which wakes nobody.
LeaveTxn(t) ==
  /\ pc[t] = "leave"
  /\ tword' = [tword EXCEPT ![Txn(t)] = Released("READ", @)]
  /\ pc' = [pc EXCEPT ![t] = "unref"]
  /\ UNCHANGED <<objVars, tqueue, tstate, group, refs, cached, mgr, req, sched,
                 hold, idx, ctype, errno, value, answered, hist>>

\* z_cache_release of the transaction.
Unref(t) ==
  /\ pc[t] = "unref"
  /\ refs' = [refs EXCEPT ![Txn(t)] = @ - 1]
  /\ pc' = [pc EXCEPT ![t] = "done"]
  /\ UNCHANGED <<objVars, tword, tqueue, tstate, group, cached, mgr, req,
                 sched, hold, idx, ctype, errno, value, answered, hist>>

-----------------------------------------------------------------------------
\* TXN_SCHED_ACQUIRE: z_task_rwcsem_acquire on the transaction.
TakeTxn(t) ==
  LET x == Txn(t)
  IN  /\ pc[t] = "ready" /\ sched[t] = "ACQUIRE"
      /\ \/ /\ Granted("COMMIT", tword[x])
            /\ tword' = [tword EXCEPT ![x] = Acquired("COMMIT", @)]
            /\ sched' = [sched EXCEPT ![t] = "BARRIER"]
            /\ UNCHANGED <<tqueue, pc>>
         \/ /\ Refused("COMMIT", tword[x])
            /\ tqueue' = [tqueue EXCEPT ![x] = @ \cup {t}]
            /\ pc' = [pc EXCEPT ![t] = "parked"]
            /\ UNCHANGED <<tword, sched>>
      /\ UNCHANGED <<objVars, tstate, group, refs, cached, mgr, req, hold, idx,
                     ctype, errno, value, answered, hist>>

\* __txn_mgr_acquire_barrier finds every object of the transaction free.
\* Otherwise the task goes back to the dispatcher as it is.
Barrier(t) ==
  /\ pc[t] = "ready" /\ sched[t] = "BARRIER"
  /\ mgr = Nobody
  /\ \A i \in DOMAIN Groups(t) : pending[Groups(t)[i]] = NoTxn
  /\ mgr' = t
  /\ pc' = [pc EXCEPT ![t] = "flagging"]
  /\ UNCHANGED <<objVars, txnVars, req, sched, hold, idx, ctype, errno, value,
                 answered, hist>>

\* The loop that marks the objects, one turn: pending id and LOCK flag.
MarkObject(t) ==
  /\ pc[t] = "flagging"
  /\ idx[t] <= Len(Groups(t))
  /\ pending' = [pending EXCEPT ![Here(t)] = Txn(t)]
  /\ word' = [word EXCEPT ![Here(t)] = SetLock(@)]
  /\ idx' = [idx EXCEPT ![t] = @ + 1]
  /\ UNCHANGED <<waitq, num, txnVars, mgr, req, pc, sched, hold, ctype, errno,
                 value, answered, hist>>

\* Fault: the loop stops before the last object.
BarrierUpEarly(t) ==
  /\ pc[t] = "flagging"
  /\ idx[t] >= Len(Groups(t))
  /\ mgr' = Nobody
  /\ sched' = [sched EXCEPT ![t] = "LOCK"]
  /\ idx' = [idx EXCEPT ![t] = 1]
  /\ pc' = [pc EXCEPT ![t] = "ready"]
  /\ UNCHANGED <<objVars, txnVars, req, hold, ctype, errno, value, answered,
                 hist>>

\* The end of the barrier: txn_mgr->lock is released.
BarrierUp(t) ==
  /\ pc[t] = "flagging"
  /\ idx[t] > Len(Groups(t))
  /\ mgr' = Nobody
  /\ sched' = [sched EXCEPT ![t] = "LOCK"]
  /\ idx' = [idx EXCEPT ![t] = 1]
  /\ pc' = [pc EXCEPT ![t] = "ready"]
  /\ UNCHANGED <<objVars, txnVars, req, hold, ctype, errno, value, answered,
                 hist>>

\* TXN_SCHED_LOCK, one turn: a task that is refused comes back to this group.
LockObject(t) ==
  LET o == Here(t)
  IN  /\ pc[t] = "ready" /\ sched[t] = "LOCK"
      /\ idx[t] <= Len(Groups(t))
      /\ \/ /\ Granted("LOCK", word[o])
            /\ word' = [word EXCEPT ![o] = Acquired("LOCK", @)]
            /\ idx' = [idx EXCEPT ![t] = @ + 1]
            /\ UNCHANGED <<waitq, pc>>
         \/ /\ Refused("LOCK", word[o])
            /\ waitq' = [waitq EXCEPT ![o]["LOCK"] = @ \cup {t}]
            /\ pc' = [pc EXCEPT ![t] = "parked"]
            /\ UNCHANGED <<word, idx>>
      /\ UNCHANGED <<pending, num, txnVars, mgr, req, sched, hold, ctype,
                     errno, value, answered, hist>>

\* TXN_SCHED_WRITE: "Revert instead of committing, if an error occurred".
Decide(t) ==
  /\ pc[t] = "ready" /\ sched[t] = "LOCK"
  /\ idx[t] > Len(Groups(t))
  /\ ctype' = [ctype EXCEPT ![t] =
                 IF tstate[Txn(t)] = "DONT_COMMIT" THEN "REVERT" ELSE @]
  /\ idx' = [idx EXCEPT ![t] = 1]
  /\ pc' = [pc EXCEPT ![t] = "atoms"]
  /\ UNCHANGED <<objVars, txnVars, mgr, req, sched, hold, errno, value,
                 answered, hist>>

\* One object's atom is applied or reverted.
DoAtom(t) ==
  /\ pc[t] = "atoms"
  /\ idx[t] <= Len(Groups(t))
  /\ num' = [num EXCEPT ![Here(t)] =
               IF ctype[t] = "APPLY" THEN Apply(@) ELSE Revert(@)]
  /\ idx' = [idx EXCEPT ![t] = @ + 1]
  /\ UNCHANGED <<word, waitq, pending, txnVars, mgr, req, pc, sched, hold,
                 ctype, errno, value, answered, hist>>

\* TXN_SCHED_COMMIT: raleighsl_object_commit on every object, which the
\* transaction holds; then the state of the transaction and its errno, and
\* txn_mgr->lock for __txn_mgr_release_locks.  The test of DONT_COMMIT
\* after the commit is on the type that Decide has changed.
Complete(t) ==
  LET x == Txn(t)
      mine == {Groups(t)[i] : i \in DOMAIN Groups(t)}
  IN  /\ pc[t] = "atoms"
      /\ idx[t] > Len(Groups(t))
      /\ mgr = Nobody
      /\ mgr' = t
      /\ num' = [o \in Objects |-> IF o \in mine THEN Commit(num[o])
                                   ELSE num[o]]
      /\ errno' = [errno EXCEPT ![t] =
                     IF ctype[t] = "APPLY" /\ tstate[x] = "DONT_COMMIT"
                     THEN "TXN_ROLLEDBACK" ELSE "NONE"]
      /\ tstate' = [tstate EXCEPT ![x] =
                      IF ctype[t] = "APPLY" /\ tstate[x] # "DONT_COMMIT"
                      THEN "COMMITTED" ELSE "ROLLEDBACK"]
      /\ idx' = [idx EXCEPT ![t] = 1]
      /\ pc' = [pc EXCEPT ![t] = "unlocking"]
      /\ UNCHANGED <<word, waitq, pending, tword, tqueue, group, refs, cached,
                     req, sched, hold, ctype, value, answered, hist>>

\* __txn_mgr_release_locks, one turn.
UnlockObject(t) ==
  LET o == Here(t)
      s == Released("LOCK", word[o])
  IN  /\ pc[t] = "unlocking"
      /\ idx[t] <= Len(Groups(t))
      /\ word' = [word EXCEPT ![o] = s]
      /\ waitq' = Drained(o, s)
      /\ pc' = [u \in Tasks |-> IF u \in Woken(o, s) THEN "ready" ELSE pc[u]]
      /\ pending' = [pending EXCEPT ![o] = NoTxn]
      /\ idx' = [idx EXCEPT ![t] = @ + 1]
      /\ UNCHANGED <<num, txnVars, mgr, req, sched, hold, ctype, errno, value,
                     answered, hist>>

\* The end of __sched_txn_task_exec: txn_mgr->lock and the COMMIT of the
\* transaction are released and the client is notified.
FinishEnd(t) ==
  LET x == Txn(t)
      s == Released("COMMIT", tword[x])
  IN  /\ pc[t] = "unlocking"
      /\ idx[t] > Len(Groups(t))
      /\ mgr' = Nobody
      /\ tword' = [tword EXCEPT ![x] = s]
      /\ tqueue' = [tqueue EXCEPT ![x] = IF Wakes("COMMIT", s) THEN {} ELSE @]
      /\ answered' = answered \cup {t}
      /\ pc' = [u \in Tasks |->
                  IF u = t THEN "unref"
                  ELSE IF u \in tqueue[x] /\ Wakes("COMMIT", s) THEN "ready"
                  ELSE pc[u]]
      /\ UNCHANGED <<objVars, tstate, group, refs, cached, req, sched, hold,
                     idx, ctype, errno, value, hist>>

-----------------------------------------------------------------------------
\* What the server and its workers do for a request.
Serve(t) ==
  \/ JoinTxn(t) \/ CloseTxn(t)
  \/ Check(t) \/ Take(t) \/ Read(t) \/ WriteFails(t) \/ Write(t)
  \/ Publish(t) \/ Release(t) \/ Notify(t) \/ LeaveTxn(t) \/ Unref(t)
  \/ TakeTxn(t) \/ Barrier(t) \/ MarkObject(t) \/ BarrierUp(t)
  \/ LockObject(t) \/ Decide(t) \/ DoAtom(t) \/ Complete(t)
  \/ UnlockObject(t) \/ FinishEnd(t)

Next ==
  \/ \E x \in Begun : Begin(x)
  \/ \E t \in Tasks :
       /\ t[2] \in DOMAIN script[t[1]]
       /\ \E r \in script[t[1]][t[2]] : Submit(t, r) \/ SubmitEnd(t, r)
  \/ \E t \in Tasks : Serve(t)

Spec == Init /\ [][Next]_vars

\* The workers go on while they have a task.
FairSpec == Spec /\ \A t \in Tasks : WF_vars(Serve(t))

-----------------------------------------------------------------------------
Steps == {"new", "looked", "closing", "ready", "checked", "parked", "run",
          "release", "notify", "leave", "unref", "flagging", "atoms",
          "unlocking", "done"}

Scheds == {"NONE", "READ", "WRITE", "COMMIT", "ACQUIRE", "BARRIER", "LOCK"}

TxnStates == {"NONE", "WAIT_COMMIT", "DONT_COMMIT", "COMMITTED", "ROLLEDBACK"}

Errnos == {"PENDING", "NONE", "TXN_NOT_FOUND", "TXN_CLOSED", "TXN_ROLLEDBACK",
           "TXN_LOCKED_OPERATION", "DATA_CAS", "NUMBER_DIVMOD_BYZERO"}

NumbersOK ==
  /\ num = [o \in Objects |-> num[o]]
  /\ \A o \in Objects :
       /\ num[o] = [read |-> num[o].read, write |-> num[o].write,
                   owner |-> num[o].owner]
       /\ num[o].owner \in Txns \cup {NoTxn}

\* The shape of the state, whatever the values of the numbers are.
ShapeOK ==
  /\ word \in [Objects -> Word]
  /\ waitq \in [Objects -> [Ops -> SUBSET Tasks]]
  /\ pending \in [Objects -> Txns \cup {NoTxn}]
  /\ NumbersOK
  /\ tword \in [Txns -> Word]
  /\ tqueue \in [Txns -> SUBSET Tasks]
  /\ tstate \in [Txns -> TxnStates]
  /\ group \in [Txns -> Seq(Objects)]
  /\ refs \in [Txns -> Int]
  /\ cached \subseteq Txns
  /\ mgr \in Tasks \cup {Nobody}
  /\ req \in [Tasks -> Requests \cup {NoRequest}]
  /\ pc \in [Tasks -> Steps]
  /\ sched \in [Tasks -> Scheds]
  /\ hold \in [Tasks -> Ops \cup {"NONE"}]
  /\ idx \in [Tasks -> Nat]
  /\ ctype \in [Tasks -> {"NONE", "APPLY", "REVERT"}]
  /\ errno \in [Tasks -> Errnos]
  /\ answered \subseteq Tasks
  /\ script \in Scripts
  /\ late \in BOOLEAN
  /\ wiped \in BOOLEAN

\* The types of the state: its shape, and values that fit the width.
TypeOK ==
  /\ ShapeOK
  /\ \A o \in Objects : num[o].read \in Ints /\ num[o].write \in Ints
  /\ refs \in [Txns -> Nat]
  /\ value \in [Tasks -> Ints]

-----------------------------------------------------------------------------
\* A WRITE was given up under a reader, whom the word then no longer counts,
\* or a transaction that has ended was joined, because the cache had it when
\* it was looked up and its READ lock is free again after the commit.
Broken == wiped \/ late

\* A task that ends x has chosen to apply or to revert, and is at it.
Settling(x, how) ==
  \E t \in Tasks : pc[t] = "atoms" /\ Txn(t) = x /\ ctype[t] = how

\* The abstract store.  A transaction has ended once the task that ends it
\* has chosen between apply and revert, with every object locked.
Status(x) ==
  IF tstate[x] = "COMMITTED" \/ (~Ended(x) /\ Settling(x, "APPLY"))
  THEN "committed"
  ELSE IF tstate[x] = "ROLLEDBACK" \/ (~Ended(x) /\ Settling(x, "REVERT"))
  THEN "rolledback"
  ELSE "open"

Locker(o) ==
  IF num[o].owner # NoTxn /\ Status(num[o].owner) = "open"
  THEN num[o].owner ELSE NoTxn

Stored(o) ==
  IF num[o].owner # NoTxn /\ Status(num[o].owner) = "committed"
  THEN num[o].write ELSE num[o].read

Staged(o) == IF Locker(o) # NoTxn THEN num[o].write ELSE Stored(o)

Store ==
  INSTANCE TxnStore WITH
    Initial <- Created.write,
    Calls <- {r.f : r \in {q \in Requests : q.kind = "PUT"}},
    Eval <- Result,
    store <- [o \in Objects |-> Stored(o)],
    locker <- [o \in Objects |-> Locker(o)],
    staged <- [o \in Objects |-> Staged(o)],
    status <- [x \in Txns |-> Status(x)]

\* The transactions are atomic: every step of the manager, the scheduler and
\* the plug is a step of the abstract store or none, so that a commit
\* publishes the writes of a transaction on all its objects at once, a
\* rollback undoes them all at once, and no write is lost.  It is claimed
\* until the history is Broken.
RefinesStore ==
  Store!Init /\ [][Broken' \/ UNCHANGED Store!vars \/ Store!Next]_(Store!vars)

\* A read sees the value its own transaction staged, and otherwise the
\* committed value of the abstract store: never half of a commit that is
\* being applied to several objects (__sched_txn_task_exec against
\* raleighsl_number_get).
ReadsCommitted ==
  [][\A t \in Tasks :
       ~Broken /\ Read(t) =>
         value'[t] = IF Txn(t) # NoTxn /\ Locker(Obj(t)) = Txn(t)
                     THEN Staged(Obj(t)) ELSE Stored(Obj(t))]_vars

\* From the barrier on, every object of the transaction that is not unlocked
\* yet carries its id: the barrier was put on all the objects or on none,
\* no operation in flight adds an object after it, and the assertion
\* "unlocking the wrong transaction" of __txn_mgr_release_locks holds.
BarrierHeld ==
  \A t \in Tasks :
    sched[t] = "LOCK" /\ pc[t] \in {"ready", "parked", "atoms", "unlocking"} =>
      \A i \in DOMAIN Groups(t) :
        (pc[t] = "unlocking" => i >= idx[t]) => pending[Groups(t)[i]] = Txn(t)

\* On numbers, a transaction never waits for an object whose last write
\* waits for its own commit: the LOCK and COMMIT flags, which block each
\* other for good, are never set together (raleighsl_number_set and the
\* others refuse to write what a transaction owns).
NoFlagClash ==
  ~wiped => \A o \in Objects : ~({"COMMIT", "LOCK"} \subseteq word[o].flags)

\* A number is owned by a transaction exactly while its atom is in the
\* groups of that transaction and neither applied nor reverted: no number
\* stays locked by a transaction that has ended, and no ended or foreign
\* transaction works on a number.
OwnedIffAtom ==
  ~late => \A o \in Objects, x \in Txns :
    num[o].owner = x <=>
      /\ ~Ended(x)
      /\ \E i \in DOMAIN group[x] :
           /\ group[x][i] = o
           /\ \A t \in Tasks : pc[t] = "atoms" /\ Txn(t) = x => i >= idx[t]

\* A task that still uses its transaction holds a reference to it, so the
\* cache has not freed it ("Entry already unreferenced").
NoUseAfterFree ==
  \A t \in Tasks :
    pc[t] \notin {"new", "done"} /\ Txn(t) # NoTxn => refs[Txn(t)] > 0

-----------------------------------------------------------------------------
\* errno.c, TXN_ROLLEDBACK "rolledback due to errors": a client whose commit
\* is answered without an errno has its transaction committed.
CommitTold ==
  \A t \in answered :
    req[t].kind = "COMMIT" /\ errno[t] = "NONE" => tstate[Txn(t)] = "COMMITTED"

\* The commit of a transaction that a sequential client has worked in is
\* answered (test_number.py: number.inc(txn_1.txn_id), txn_1.commit()).
CommitAnswered == \A t \in Tasks : pc[t] = "closing" ~> t \in answered
=============================================================================
