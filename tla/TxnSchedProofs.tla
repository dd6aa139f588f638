--------------------------- MODULE TxnSchedProofs ---------------------------
(***************************************************************************)
(* Proofs about the transactions over several objects, for any finite set  *)
(* of tasks, any workloads, any number of objects and transactions.        *)
(*                                                                         *)
(* The invariant is built in layers, each proved with those before it:     *)
(*   Control    where each task can be, and with what;                     *)
(*   EndsOnce   a transaction is ended by one task at most;                *)
(*   Counted    every task that uses a transaction has a reference to it;  *)
(*   TxnLocked  the word of a transaction counts the tasks inside it, and  *)
(*              the task that has closed it is alone;                      *)
(*   Grouped    the groups of a transaction name an object once, own what  *)
(*              they name, and carry the barrier of the task that ends it. *)
(* The second half goes on with the objects and the abstract store.        *)
(***************************************************************************)
EXTENDS TxnSched, FiniteSetTheorems, SequenceTheorems, TLAPS

IsOp(t) == req[t].kind \in {"GET", "PUT"}
IsEnd(t) == req[t].kind \in {"COMMIT", "ROLLBACK"}

\* Where a task of raleighsl_exec_read or raleighsl_exec_write can be.
OpOK(t) ==
  /\ pc[t] \in {"looked", "ready", "checked", "parked", "run", "release",
                "notify", "leave", "unref", "done"}
  /\ sched[t] \in IF req[t].kind = "GET" THEN {"READ"} ELSE {"WRITE", "COMMIT"}
  /\ pc[t] \in {"looked", "leave", "unref"} => Txn(t) # NoTxn
  /\ pc[t] = "looked" => sched[t] # "COMMIT"
  /\ hold[t] # "NONE" <=> pc[t] \in {"run", "release"}
  /\ pc[t] = "run" => hold[t] = sched[t]
  /\ pc[t] = "release" =>
       /\ hold[t] \in {"READ", "WRITE", "COMMIT"}
       /\ hold[t] = "READ" <=> sched[t] = "READ"
       /\ hold[t] = "COMMIT" => sched[t] = "COMMIT"
       /\ errno[t] = "PENDING" <=> hold[t] = "WRITE" /\ sched[t] = "COMMIT"
  /\ pc[t] \in {"looked", "ready", "checked", "parked", "run"} =>
       errno[t] = "PENDING"

\* Where a task of __txn_commit_task can be.
EndOK(t) ==
  /\ pc[t] \in {"closing", "ready", "parked", "flagging", "atoms",
                "unlocking", "unref", "done"}
  /\ hold[t] = "NONE"
  /\ pc[t] = "closing" => sched[t] = "NONE"
  /\ pc[t] = "ready" => sched[t] \in {"ACQUIRE", "BARRIER", "LOCK"}
  /\ pc[t] = "parked" => sched[t] \in {"ACQUIRE", "LOCK"}
  /\ pc[t] = "flagging" => sched[t] = "BARRIER"
  /\ pc[t] \in {"atoms", "unlocking", "unref"} => sched[t] = "LOCK"
  /\ sched[t] \in {"NONE", "ACQUIRE"} \/ (sched[t] = "BARRIER" /\ pc[t] = "ready")
       => idx[t] = 1
  /\ idx[t] >= 1
  /\ ctype[t] \in {"APPLY", "REVERT"}
  /\ errno[t] \in {"PENDING", "NONE", "TXN_NOT_FOUND", "TXN_ROLLEDBACK"}
  /\ errno[t] = "TXN_NOT_FOUND" => pc[t] = "done"
  /\ pc[t] \in {"closing", "ready", "parked", "flagging", "atoms"} =>
       errno[t] = "PENDING"

TaskOK(t) ==
  /\ pc[t] = "new" =>
       /\ sched[t] = "NONE" /\ hold[t] = "NONE" /\ errno[t] = "PENDING"
       /\ idx[t] = 1
  /\ pc[t] = "new" <=> req[t] = NoRequest
  /\ pc[t] # "new" => (IsOp(t) /\ OpOK(t)) \/ (IsEnd(t) /\ EndOK(t))

QueueOK ==
  /\ \A o \in Objects, op \in Ops : \A t \in waitq[o][op] :
       /\ pc[t] = "parked"
       /\ IsOp(t) => Obj(t) = o /\ sched[t] = op
       /\ IsEnd(t) => /\ sched[t] = "LOCK" /\ op = "LOCK"
                      /\ idx[t] \in DOMAIN Groups(t) /\ Here(t) = o
  /\ \A x \in Txns : \A t \in tqueue[x] :
       pc[t] = "parked" /\ IsEnd(t) /\ sched[t] = "ACQUIRE" /\ Txn(t) = x

\* txn_mgr->lock is held by the one task that marks or unlocks objects.
ManagerOK == \A t \in Tasks : mgr = t <=> pc[t] \in {"flagging", "unlocking"}

Control == ShapeOK /\ (\A t \in Tasks : TaskOK(t)) /\ QueueOK /\ ManagerOK

-----------------------------------------------------------------------------
\* t ends the transaction x: it has taken x out of the cache.
Ender(t, x) == IsEnd(t) /\ Txn(t) = x /\ errno[t] # "TXN_NOT_FOUND"

\* The tasks that use x, and those between the acquire and the release of it.
Users(x) == {t \in Tasks : pc[t] \notin {"new", "done"} /\ Txn(t) = x}
InTxn(t, x) ==
  /\ IsOp(t) /\ Txn(t) = x
  /\ pc[t] \in {"ready", "checked", "parked", "run", "release", "notify", "leave"}
Inside(x) == {t \in Tasks : InTxn(t, x)}

\* t has closed x and not finished; t has it to itself.
Closing(t, x) ==
  Ender(t, x) /\ pc[t] \in {"ready", "parked", "flagging", "atoms", "unlocking"}
Alone(t, x) == Closing(t, x) /\ sched[t] \in {"BARRIER", "LOCK"}

EndsOnce ==
  \A x \in Txns :
    /\ \A t, u \in Tasks : Ender(t, x) /\ Ender(u, x) => t = u
    /\ x \in cached => \A t \in Tasks : ~Ender(t, x)
    /\ tstate[x] = "NONE" =>
         /\ x \notin cached /\ group[x] = <<>>
         /\ \A t \in Tasks : ~Ender(t, x) /\ t \notin Users(x)

Counted ==
  \A x \in Txns :
    refs[x] >= Cardinality(Users(x)) + (IF x \in cached THEN 2 ELSE 0)

\* The word of the transaction x is that of the tasks in it.
TxnWordOK(x) ==
  /\ tword[x].readers = Cardinality(Inside(x))
  /\ "LOCK" \notin tword[x].flags
  /\ "COMMIT" \in tword[x].flags <=> \E t \in Tasks : Closing(t, x)
  /\ "WRITE" \in tword[x].flags <=> \E t \in Tasks : Alone(t, x)
  /\ "WRITE" \in tword[x].flags => tword[x].readers = 0

TxnLocked == \A x \in Txns : TxnWordOK(x)

-----------------------------------------------------------------------------
\* The end of x has got past the atoms; has given everything back.
Past(x, P) == \E t \in Tasks : Ender(t, x) /\ pc[t] \in P

\* The atom i of x is still to be applied or reverted.
Todo(x, i) ==
  /\ ~Past(x, {"unlocking", "unref", "done"})
  /\ \A t \in Tasks : Ender(t, x) /\ pc[t] = "atoms" => i >= idx[t]

GroupsOnce ==
  \A x \in Txns :
    ~Past(x, {"unref", "done"}) =>
      \A i, j \in DOMAIN group[x] : group[x][i] = group[x][j] => i = j

AtomOwned ==
  \A x \in Txns : \A i \in DOMAIN group[x] :
    Todo(x, i) => num[group[x][i]].owner = x

\* t has marked the object i of its transaction, and not unlocked it.
MarkedAt(t, i) ==
  \/ pc[t] = "flagging" /\ i < idx[t]
  \/ pc[t] \in {"ready", "parked", "atoms"} /\ sched[t] = "LOCK"
  \/ pc[t] = "unlocking" /\ i >= idx[t]

MarksHeld ==
  \A t \in Tasks : IsEnd(t) =>
    \A i \in DOMAIN Groups(t) :
      /\ MarkedAt(t, i) => pending[Groups(t)[i]] = Txn(t)
      /\ pc[t] = "flagging" /\ i >= idx[t] => pending[Groups(t)[i]] = NoTxn

-----------------------------------------------------------------------------
\* The operations of the semaphore keep its state word a word.
LEMMA WordOps ==
  ASSUME NEW s \in Word
  PROVE  /\ \A op \in Ops : Acquired(op, s) \in Word /\ Released(op, s) \in Word
         /\ SetCommit(s) \in Word
         /\ SetLock(s) \in Word
<1>. USE MaxReadersAssumption
<1>1. \A F \in SUBSET Flags : /\ Only(F) \in Word
                             /\ CarryInto(F) \in SUBSET Flags
                             /\ BorrowFrom(F) \in SUBSET Flags
  BY DEF Only, Word, Flags, CarryInto, BorrowFrom
<1>2. s.readers \in 0 .. MaxReaders /\ s.flags \in SUBSET Flags
  BY DEF Word
<1>3. \A f \in Flags : WithFlag(s, f) \in Word
  BY <1>2 DEF WithFlag, Word
<1>4. PlusOne(s) \in Word /\ MinusOne(s) \in Word
  BY <1>1, <1>2 DEF PlusOne, MinusOne, Word
<1>5. \A op \in Ops : Acquired(op, s) \in Word
  BY <1>1, <1>3, <1>4 DEF Acquired, Ops, Flags
<1>6. \A op \in Ops : Released(op, s) \in Word
  BY <1>1, <1>2, <1>4 DEF Released, Ops, Flags, Zero, Word
<1>. QED  BY <1>3, <1>5, <1>6 DEF SetCommit, SetLock, Flags

\* What is sent comes from the workload, and what its assumption says of it.
LEMMA FromScript ==
  ASSUME NEW s \in Scripts, NEW c \in Clients, NEW r \in UNION Range(s[c])
  PROVE  r \in Requests
<1>1. UNION Range(s[c]) \in {UNION Range(q[d]) : d \in Clients, q \in Scripts}
  OBVIOUS
<1>2. Requests = UNION {UNION Range(q[d]) : d \in Clients, q \in Scripts}
  BY DEF Requests
<1>. DEFINE U == {UNION Range(q[d]) : d \in Clients, q \in Scripts}
<1>3. UNION Range(s[c]) \in U
  BY <1>1
<1>. HIDE DEF U
<1>4. r \in UNION U
  BY <1>3
<1>. QED  BY <1>2, <1>4 DEF U

LEMMA Sent ==
  ASSUME ShapeOK, NEW t \in Tasks, t[2] \in DOMAIN script[t[1]],
         NEW r \in script[t[1]][t[2]]
  PROVE  r \in Requests
<1>1. t[1] \in Clients
  BY DEF Tasks
<1>2. script \in Scripts
  BY DEF ShapeOK
<1>3. r \in UNION Range(script[t[1]])
  BY DEF Range
<1>. QED  BY <1>1, <1>2, <1>3, FromScript

LEMMA RequestKinds ==
  ASSUME NEW r \in Requests
  PROVE  /\ r.kind \in {"GET", "PUT", "COMMIT", "ROLLBACK"}
         /\ r.kind \in {"GET", "PUT"} =>
              r.obj \in Objects /\ r.txn \in Txns \cup {NoTxn}
         /\ r.kind \in {"COMMIT", "ROLLBACK"} => r.txn \in Txns
         /\ r # NoRequest
<1>1. NoRequest.kind = "NONE"
  BY DEF NoRequest
<1>. QED  BY <1>1, ScriptAssumption

\* The steps of a task: a request is sent, or a worker serves it.
Sends(t, r) == Submit(t, r) \/ SubmitEnd(t, r)

LEMMA StepCases ==
  ASSUME ShapeOK, [Next]_vars
  PROVE  \/ \E x \in Txns : Begin(x)
         \/ \E t \in Tasks, r \in Requests : Sends(t, r)
         \/ \E t \in Tasks : Serve(t)
         \/ UNCHANGED vars
<1>1. Begun \subseteq Txns
  <2>. SUFFICES ASSUME NEW c \in Clients, NEW r \in UNION Range(script[c]),
                       r.txn # NoTxn
                PROVE  r.txn \in Txns
    BY DEF Begun
  <2>1. script \in Scripts
    BY DEF ShapeOK
  <2>2. r \in Requests
    BY <2>1, FromScript
  <2>. QED  BY <2>2, RequestKinds
<1>2. ASSUME NEW t \in Tasks, t[2] \in DOMAIN script[t[1]],
             NEW r \in script[t[1]][t[2]], Sends(t, r)
      PROVE  \E u \in Tasks, q \in Requests : Sends(u, q)
  BY <1>2, Sent
<1>. QED  BY <1>1, <1>2 DEF Next, Sends

\* What a commit of the plug leaves of a number.
LEMMA CommitShape ==
  ASSUME NEW n, n = [read |-> n.read, write |-> n.write, owner |-> n.owner]
  PROVE  /\ Commit(n) = [read |-> Commit(n).read, write |-> Commit(n).write,
                         owner |-> Commit(n).owner]
         /\ Commit(n).write = n.write
         /\ Commit(n).owner = n.owner
         /\ Commit(n).read = IF n.owner = NoTxn THEN n.write ELSE n.read
BY DEF Commit

\* What the shape and the control give for a task that has been sent.
LEMMA TaskFacts ==
  ASSUME ShapeOK, NEW t \in Tasks, TaskOK(t), pc[t] # "new"
  PROVE  /\ req[t] \in Requests
         /\ IsOp(t) => Obj(t) \in Objects /\ Txn(t) \in Txns \cup {NoTxn}
         /\ IsEnd(t) => Txn(t) \in Txns
         /\ IsOp(t) <=> ~IsEnd(t)
         /\ IsOp(t) => OpOK(t)
         /\ IsEnd(t) => EndOK(t)
<1>1. req[t] \in Requests
  BY DEF ShapeOK, TaskOK
<1>2. /\ IsOp(t) => Obj(t) \in Objects /\ Txn(t) \in Txns \cup {NoTxn}
      /\ IsEnd(t) => Txn(t) \in Txns
      /\ IsOp(t) <=> ~IsEnd(t)
  BY <1>1, RequestKinds DEF IsOp, IsEnd, Obj, Txn
<1>3. (IsOp(t) /\ OpOK(t)) \/ (IsEnd(t) /\ EndOK(t))
  BY DEF TaskOK
<1>. QED  BY <1>1, <1>2, <1>3

\* The transaction of a task that is at a step of a transaction, and the
\* object that a task is about to work on.
LEMMA TaskTxn ==
  ASSUME ShapeOK, NEW t \in Tasks, TaskOK(t)
  PROVE  /\ pc[t] \in {"looked", "closing", "leave", "unref", "flagging",
                       "atoms", "unlocking"} => Txn(t) \in Txns
         /\ pc[t] = "ready" /\ sched[t] \in {"ACQUIRE", "BARRIER", "LOCK"} =>
              Txn(t) \in Txns
         /\ pc[t] \in {"checked", "run", "release"} =>
              /\ IsOp(t) /\ Obj(t) \in Objects /\ Txn(t) \in Txns \cup {NoTxn}
              /\ sched[t] \in {"READ", "WRITE", "COMMIT"}
              /\ pc[t] # "checked" => hold[t] \in {"READ", "WRITE", "COMMIT"}
BY TaskFacts DEF OpOK, EndOK, IsOp

LEMMA TaskHere ==
  ASSUME ShapeOK, NEW t \in Tasks, TaskOK(t),
         \/ pc[t] = "ready" /\ sched[t] = "LOCK"
         \/ pc[t] \in {"flagging", "atoms", "unlocking"},
         idx[t] <= Len(Groups(t))
  PROVE  Here(t) \in Objects /\ idx[t] \in DOMAIN Groups(t)
<1>1. Txn(t) \in Txns /\ idx[t] >= 1 /\ idx[t] \in Nat
  BY TaskFacts DEF OpOK, EndOK, ShapeOK
<1>2. Groups(t) \in Seq(Objects)
  BY <1>1 DEF Groups, ShapeOK
<1>. QED  BY <1>1, <1>2 DEF Here

\* Every step keeps the shape.
LEMMA ShapeStep == Control /\ [Next]_vars => ShapeOK'
<1>. SUFFICES ASSUME Control, [Next]_vars PROVE ShapeOK'
  OBVIOUS
<1>. USE DEF objVars, txnVars, taskVars, hist
<1>0. ShapeOK /\ (\A t \in Tasks : TaskOK(t))
  BY DEF Control
<1>w. /\ word \in [Objects -> Word] /\ tword \in [Txns -> Word]
      /\ \A s \in Word, op \in Ops :
           /\ Acquired(op, s) \in Word /\ Released(op, s) \in Word
           /\ SetCommit(s) \in Word /\ SetLock(s) \in Word
  BY <1>0, WordOps DEF ShapeOK
<1>q. /\ waitq \in [Objects -> [Ops -> SUBSET Tasks]]
      /\ tqueue \in [Txns -> SUBSET Tasks]
  BY <1>0 DEF ShapeOK
<1>t. /\ pc \in [Tasks -> Steps] /\ sched \in [Tasks -> Scheds]
      /\ hold \in [Tasks -> Ops \cup {"NONE"}] /\ idx \in [Tasks -> Nat]
      /\ errno \in [Tasks -> Errnos] /\ answered \subseteq Tasks
      /\ req \in [Tasks -> Requests \cup {NoRequest}]
      /\ ctype \in [Tasks -> {"NONE", "APPLY", "REVERT"}]
      /\ mgr \in Tasks \cup {Nobody}
  BY <1>0 DEF ShapeOK
<1>x. /\ tstate \in [Txns -> TxnStates] /\ group \in [Txns -> Seq(Objects)]
      /\ refs \in [Txns -> Int] /\ cached \subseteq Txns
  BY <1>0 DEF ShapeOK
<1>n. NumbersOK /\ (num' = num => NumbersOK')
  BY <1>0 DEF NumbersOK, ShapeOK
<1>1. ASSUME NEW x \in Txns, Begin(x) PROVE ShapeOK'
  <2>1. /\ tstate' \in [Txns -> TxnStates] /\ refs' \in [Txns -> Int]
        /\ cached' \subseteq Txns
    BY <1>1, <1>x DEF Begin, TxnStates
  <2>. QED  BY <1>0, <1>1, <1>n, <2>1 DEF Begin, ShapeOK
<1>2. ASSUME NEW t \in Tasks, NEW r \in Requests, Submit(t, r) PROVE ShapeOK'
  <2>1. pc' \in [Tasks -> Steps] /\ errno' \in [Tasks -> Errnos]
    BY <1>2, <1>t DEF Submit, Reject, Steps, Errnos
  <2>2. refs' \in [Txns -> Int] /\ answered' \subseteq Tasks
    BY <1>2, <1>t, <1>x DEF Submit, Reject
  <2>3. /\ req' \in [Tasks -> Requests \cup {NoRequest}]
        /\ sched' \in [Tasks -> Scheds]
    BY <1>2, <1>t DEF Submit, Scheds
  <2>4. UNCHANGED <<objVars, tword, tqueue, tstate, group, cached, mgr, hold,
                    idx, ctype, value, hist>>
    BY <1>2 DEF Submit
  <2>. QED  BY <1>0, <1>n, <2>1, <2>2, <2>3, <2>4 DEF ShapeOK
<1>3. ASSUME NEW t \in Tasks, NEW r \in Requests, SubmitEnd(t, r)
      PROVE  ShapeOK'
  <2>1. pc' \in [Tasks -> Steps] /\ errno' \in [Tasks -> Errnos]
    BY <1>3, <1>t DEF SubmitEnd, Reject, Steps, Errnos
  <2>2. /\ refs' \in [Txns -> Int] /\ answered' \subseteq Tasks
        /\ cached' \subseteq Txns
    BY <1>3, <1>t, <1>x DEF SubmitEnd, Reject
  <2>3. /\ req' \in [Tasks -> Requests \cup {NoRequest}]
        /\ ctype' \in [Tasks -> {"NONE", "APPLY", "REVERT"}]
    BY <1>3, <1>t DEF SubmitEnd
  <2>4. UNCHANGED <<objVars, tword, tqueue, tstate, group, mgr, sched, hold,
                    idx, value, hist>>
    BY <1>3 DEF SubmitEnd
  <2>. QED  BY <1>0, <1>n, <2>1, <2>2, <2>3, <2>4 DEF ShapeOK
<1>4. ASSUME NEW t \in Tasks, JoinTxn(t) PROVE ShapeOK'
  <2>1. Txn(t) \in Txns
    BY <1>0, <1>4, TaskTxn DEF JoinTxn
  <2>2. tword' \in [Txns -> Word] /\ late' \in BOOLEAN
    <3>1. tword' \in [Txns -> Word]
      BY <1>4, <1>w, <2>1 DEF JoinTxn, Ops
    <3>2. late \in BOOLEAN
      BY <1>0 DEF ShapeOK
    <3>3. late' = late \/ late' = (late \/ Ended(Txn(t)))
      BY <1>4 DEF JoinTxn
    <3>. QED  BY <3>1, <3>2, <3>3
  <2>3. /\ pc' \in [Tasks -> Steps] /\ errno' \in [Tasks -> Errnos]
        /\ answered' \subseteq Tasks
    BY <1>4, <1>t DEF JoinTxn, Reject, Steps, Errnos
  <2>4. UNCHANGED <<objVars, tqueue, tstate, group, refs, cached, mgr, req,
                    sched, hold, idx, ctype, value, script, wiped>>
    BY <1>4 DEF JoinTxn
  <2>. QED  BY <1>0, <1>n, <2>2, <2>3, <2>4 DEF ShapeOK
<1>5. ASSUME NEW t \in Tasks, CloseTxn(t) PROVE ShapeOK'
  <2>1. Txn(t) \in Txns
    BY <1>0, <1>5, TaskTxn DEF CloseTxn
  <2>2. /\ tword' \in [Txns -> Word] /\ pc' \in [Tasks -> Steps]
        /\ sched' \in [Tasks -> Scheds]
    BY <1>5, <1>w, <1>t, <2>1 DEF CloseTxn, Steps, Scheds, Ops
  <2>3. UNCHANGED <<objVars, tqueue, tstate, group, refs, cached, mgr, req,
                    hold, idx, ctype, errno, value, answered, hist>>
    BY <1>5 DEF CloseTxn
  <2>. QED  BY <1>0, <1>n, <2>2, <2>3 DEF ShapeOK
<1>6. ASSUME NEW t \in Tasks, Check(t) PROVE ShapeOK'
  <2>1. pc' \in [Tasks -> Steps]
    BY <1>6, <1>t DEF Check, Steps
  <2>. QED  BY <1>0, <1>6, <1>n, <2>1 DEF ShapeOK, Check
<1>7. ASSUME NEW t \in Tasks, Take(t) PROVE ShapeOK'
  <2>1. Obj(t) \in Objects /\ sched[t] \in Ops
    BY <1>0, <1>7, TaskTxn DEF Take, Ops
  <2>2. word' \in [Objects -> Word]
    BY <1>7, <1>w, <2>1 DEF Take
  <2>3. waitq' \in [Objects -> [Ops -> SUBSET Tasks]]
    <3>1. CASE waitq' = waitq
      BY <1>q, <3>1
    <3>2. CASE waitq' = [waitq EXCEPT ![Obj(t)][sched[t]] = @ \cup {t}]
      BY <1>q, <2>1, <3>2
    <3>. QED  BY <1>7, <3>1, <3>2 DEF Take
  <2>4. pc' \in [Tasks -> Steps] /\ hold' \in [Tasks -> Ops \cup {"NONE"}]
    BY <1>7, <1>t, <2>1 DEF Take, Steps
  <2>5. UNCHANGED <<pending, num, txnVars, mgr, req, sched, idx, ctype, errno,
                    value, answered, hist>>
    BY <1>7 DEF Take
  <2>. QED  BY <1>0, <1>n, <2>2, <2>3, <2>4, <2>5 DEF ShapeOK
<1>8. ASSUME NEW t \in Tasks, Read(t) PROVE ShapeOK'
  <2>1. pc' \in [Tasks -> Steps] /\ errno' \in [Tasks -> Errnos]
    BY <1>8, <1>t DEF Read, Steps, Errnos
  <2>. QED  BY <1>0, <1>8, <1>n, <2>1 DEF ShapeOK, Read
<1>9. ASSUME NEW t \in Tasks, WriteFails(t) PROVE ShapeOK'
  <2>1. Txn(t) \in Txns \cup {NoTxn}
    BY <1>0, <1>9, TaskTxn DEF WriteFails
  <2>2. Errno(num[Obj(t)], Txn(t), req[t].f) \in Errnos
    BY DEF Errno, Errnos
  <2>3. pc' \in [Tasks -> Steps] /\ errno' \in [Tasks -> Errnos]
    BY <1>9, <1>t, <2>2 DEF WriteFails, Steps
  <2>4. tstate' \in [Txns -> TxnStates]
    BY <1>9, <1>x, <2>1 DEF WriteFails, TxnStates
  <2>5. UNCHANGED <<objVars, tword, tqueue, group, refs, cached, mgr, req,
                    sched, hold, idx, ctype, value, answered, hist>>
    BY <1>9 DEF WriteFails
  <2>. QED  BY <1>0, <1>n, <2>3, <2>4, <2>5 DEF ShapeOK
<1>10. ASSUME NEW t \in Tasks, Write(t) PROVE ShapeOK'
  <2>1. Obj(t) \in Objects /\ Txn(t) \in Txns \cup {NoTxn}
    BY <1>0, <1>10, TaskTxn DEF Write
  <2>2. word' \in [Objects -> Word]
    BY <1>10, <1>w, <2>1 DEF Write, Ops
  <2>3. group' \in [Txns -> Seq(Objects)]
    BY <1>10, <1>x, <2>1 DEF Write, AddsAtom
  <2>4. NumbersOK'
    BY <1>10, <1>n, <2>1 DEF Write, Mutate, NumbersOK
  <2>5. /\ pc' \in [Tasks -> Steps] /\ hold' \in [Tasks -> Ops \cup {"NONE"}]
        /\ sched' \in [Tasks -> Scheds]
    BY <1>10, <1>t DEF Write, Steps, Scheds, Ops
  <2>6. UNCHANGED <<waitq, pending, tword, tqueue, tstate, refs, cached, mgr,
                    req, idx, ctype, errno, answered, hist>>
    BY <1>10 DEF Write
  <2>. QED  BY <1>0, <2>2, <2>3, <2>4, <2>5, <2>6 DEF ShapeOK
<1>11. ASSUME NEW t \in Tasks, Publish(t) PROVE ShapeOK'
  <2>1. Obj(t) \in Objects
    BY <1>0, <1>11, TaskTxn DEF Publish
  <2>2. NumbersOK'
    <3>1. num' = [num EXCEPT ![Obj(t)] = Commit(num[Obj(t)])]
      BY <1>11 DEF Publish
    <3>2. \A o \in Objects :
            num'[o] = IF o = Obj(t) THEN Commit(num[o]) ELSE num[o]
      BY <1>n, <2>1, <3>1 DEF NumbersOK
    <3>3. num' = [o \in Objects |-> num'[o]]
      BY <1>n, <2>1, <3>1 DEF NumbersOK
    <3>4. ASSUME NEW o \in Objects
          PROVE  /\ num'[o] = [read |-> num'[o].read, write |-> num'[o].write,
                               owner |-> num'[o].owner]
                 /\ num'[o].owner \in Txns \cup {NoTxn}
      BY <1>n, <3>2, CommitShape DEF NumbersOK
    <3>. QED  BY <3>3, <3>4 DEF NumbersOK
  <2>3. pc' \in [Tasks -> Steps] /\ errno' \in [Tasks -> Errnos]
    BY <1>11, <1>t DEF Publish, Steps, Errnos
  <2>. QED  BY <1>0, <1>11, <2>2, <2>3 DEF ShapeOK, Publish
<1>12. ASSUME NEW t \in Tasks, Release(t) PROVE ShapeOK'
  <2>1. Obj(t) \in Objects /\ hold[t] \in Ops
    BY <1>0, <1>12, TaskTxn DEF Release, Ops
  <2>2. word' \in [Objects -> Word]
    BY <1>12, <1>w, <2>1 DEF Release
  <2>3. waitq' \in [Objects -> [Ops -> SUBSET Tasks]]
    BY <1>12, <1>q, <2>1 DEF Release, Drained
  <2>4. pc' \in [Tasks -> Steps]
    BY <1>12, <1>t DEF Release, Steps
  <2>5. hold' \in [Tasks -> Ops \cup {"NONE"}] /\ wiped' \in BOOLEAN
    BY <1>12, <1>t, <1>0 DEF Release, ShapeOK
  <2>6. UNCHANGED <<pending, num, txnVars, mgr, req, sched, idx, ctype, errno,
                    value, answered, script, late>>
    BY <1>12 DEF Release
  <2>. QED  BY <1>0, <1>n, <2>2, <2>3, <2>4, <2>5, <2>6 DEF ShapeOK
<1>13. ASSUME NEW t \in Tasks, Notify(t) PROVE ShapeOK'
  <2>1. pc' \in [Tasks -> Steps] /\ answered' \subseteq Tasks
    BY <1>13, <1>t DEF Notify, Steps
  <2>. QED  BY <1>0, <1>13, <1>n, <2>1 DEF ShapeOK, Notify
<1>14. ASSUME NEW t \in Tasks, LeaveTxn(t) PROVE ShapeOK'
  <2>1. Txn(t) \in Txns
    BY <1>0, <1>14, TaskTxn DEF LeaveTxn
  <2>2. tword' \in [Txns -> Word] /\ pc' \in [Tasks -> Steps]
    BY <1>14, <1>w, <1>t, <2>1 DEF LeaveTxn, Steps, Ops
  <2>. QED  BY <1>0, <1>14, <1>n, <2>2 DEF ShapeOK, LeaveTxn
<1>15. ASSUME NEW t \in Tasks, Unref(t) PROVE ShapeOK'
  <2>1. refs' \in [Txns -> Int] /\ pc' \in [Tasks -> Steps]
    <3>1. refs' \in [Txns -> Int]
      <4>1. Txn(t) \in Txns /\ refs[Txn(t)] - 1 \in Int
        BY <1>0, <1>15, <1>x, TaskTxn DEF Unref
      <4>. QED  BY <1>15, <1>x, <4>1 DEF Unref
    <3>2. pc' \in [Tasks -> Steps]
      BY <1>15, <1>t DEF Unref, Steps
    <3>. QED  BY <3>1, <3>2
  <2>. QED  BY <1>0, <1>15, <1>n, <2>1 DEF ShapeOK, Unref
<1>16. ASSUME NEW t \in Tasks, TakeTxn(t) PROVE ShapeOK'
  <2>1. Txn(t) \in Txns
    BY <1>0, <1>16, TaskTxn DEF TakeTxn
  <2>2. tword' \in [Txns -> Word]
    BY <1>16, <1>w, <2>1 DEF TakeTxn, Ops
  <2>3. tqueue' \in [Txns -> SUBSET Tasks]
    BY <1>16, <1>q DEF TakeTxn
  <2>4. pc' \in [Tasks -> Steps] /\ sched' \in [Tasks -> Scheds]
    BY <1>16, <1>t DEF TakeTxn, Steps, Scheds
  <2>5. UNCHANGED <<objVars, tstate, group, refs, cached, mgr, req, hold, idx,
                    ctype, errno, value, answered, hist>>
    BY <1>16 DEF TakeTxn
  <2>. QED  BY <1>0, <1>n, <2>2, <2>3, <2>4, <2>5 DEF ShapeOK
<1>17. ASSUME NEW t \in Tasks, Barrier(t) PROVE ShapeOK'
  <2>1. pc' \in [Tasks -> Steps] /\ mgr' \in Tasks \cup {Nobody}
    BY <1>17, <1>t DEF Barrier, Steps
  <2>. QED  BY <1>0, <1>17, <1>n, <2>1 DEF ShapeOK, Barrier
<1>18. ASSUME NEW t \in Tasks, MarkObject(t) PROVE ShapeOK'
  <2>1. Txn(t) \in Txns /\ Here(t) \in Objects
    BY <1>0, <1>18, TaskTxn, TaskHere DEF MarkObject
  <2>2. word' \in [Objects -> Word] /\ idx' \in [Tasks -> Nat]
    BY <1>18, <1>w, <1>t, <2>1 DEF MarkObject, Ops
  <2>3. pending' \in [Objects -> Txns \cup {NoTxn}]
    BY <1>0, <1>18, <2>1 DEF MarkObject, ShapeOK
  <2>. QED  BY <1>0, <1>18, <1>n, <2>2, <2>3 DEF ShapeOK, MarkObject
<1>19. ASSUME NEW t \in Tasks, BarrierUp(t) PROVE ShapeOK'
  <2>1. /\ pc' \in [Tasks -> Steps] /\ mgr' \in Tasks \cup {Nobody}
        /\ sched' \in [Tasks -> Scheds] /\ idx' \in [Tasks -> Nat]
    BY <1>19, <1>t DEF BarrierUp, Steps, Scheds
  <2>. QED  BY <1>0, <1>19, <1>n, <2>1 DEF ShapeOK, BarrierUp
<1>20. ASSUME NEW t \in Tasks, LockObject(t) PROVE ShapeOK'
  <2>1. Here(t) \in Objects
    BY <1>0, <1>20, TaskHere DEF LockObject
  <2>2. word' \in [Objects -> Word]
    BY <1>20, <1>w, <2>1 DEF LockObject, Ops
  <2>3. waitq' \in [Objects -> [Ops -> SUBSET Tasks]]
    <3>1. CASE waitq' = waitq
      BY <1>q, <3>1
    <3>2. CASE waitq' = [waitq EXCEPT ![Here(t)]["LOCK"] = @ \cup {t}]
      BY <1>q, <2>1, <3>2 DEF Ops
    <3>. QED  BY <1>20, <3>1, <3>2 DEF LockObject
  <2>4. pc' \in [Tasks -> Steps] /\ idx' \in [Tasks -> Nat]
    <3>1. pc' \in [Tasks -> Steps]
      <4>1. pc' = pc \/ pc' = [pc EXCEPT ![t] = "parked"]
        BY <1>20 DEF LockObject
      <4>. QED  BY <1>t, <4>1 DEF Steps
    <3>2. idx' \in [Tasks -> Nat]
      BY <1>20, <1>t DEF LockObject
    <3>. QED  BY <3>1, <3>2
  <2>5. UNCHANGED <<pending, num, txnVars, mgr, req, sched, hold, ctype, errno,
                    value, answered, hist>>
    BY <1>20 DEF LockObject
  <2>. QED  BY <1>0, <1>n, <2>2, <2>3, <2>4, <2>5 DEF ShapeOK
<1>21. ASSUME NEW t \in Tasks, Decide(t) PROVE ShapeOK'
  <2>1. /\ pc' \in [Tasks -> Steps] /\ idx' \in [Tasks -> Nat]
        /\ ctype' \in [Tasks -> {"NONE", "APPLY", "REVERT"}]
    BY <1>21, <1>t DEF Decide, Steps
  <2>. QED  BY <1>0, <1>21, <1>n, <2>1 DEF ShapeOK, Decide
<1>22. ASSUME NEW t \in Tasks, DoAtom(t) PROVE ShapeOK'
  <2>1. Here(t) \in Objects
    BY <1>0, <1>22, TaskHere DEF DoAtom
  <2>2. NumbersOK'
    BY <1>22, <1>n, <2>1 DEF DoAtom, Apply, Revert, NumbersOK
  <2>3. idx' \in [Tasks -> Nat]
    BY <1>22, <1>t DEF DoAtom
  <2>4. UNCHANGED <<word, waitq, pending, txnVars, mgr, req, pc, sched, hold,
                    ctype, errno, value, answered, hist>>
    BY <1>22 DEF DoAtom
  <2>. QED  BY <1>0, <2>2, <2>3, <2>4 DEF ShapeOK
<1>23. ASSUME NEW t \in Tasks, Complete(t) PROVE ShapeOK'
  <2>1. NumbersOK'
    <3>1. /\ \A o \in Objects : num'[o] \in {num[o], Commit(num[o])}
          /\ num' = [o \in Objects |-> num'[o]]
      BY <1>23 DEF Complete
    <3>2. ASSUME NEW o \in Objects
          PROVE  /\ num'[o] = [read |-> num'[o].read, write |-> num'[o].write,
                               owner |-> num'[o].owner]
                 /\ num'[o].owner \in Txns \cup {NoTxn}
      <4>1. CASE num'[o] = num[o]
        BY <1>n, <4>1 DEF NumbersOK
      <4>2. CASE num'[o] = Commit(num[o])
        BY <1>n, <4>2, CommitShape DEF NumbersOK
      <4>. QED  BY <3>1, <4>1, <4>2
    <3>. QED  BY <3>1, <3>2 DEF NumbersOK
  <2>2. tstate' \in [Txns -> TxnStates] /\ errno' \in [Tasks -> Errnos]
    BY <1>23, <1>x, <1>t DEF Complete, TxnStates, Errnos
  <2>3. /\ pc' \in [Tasks -> Steps] /\ idx' \in [Tasks -> Nat]
        /\ mgr' \in Tasks \cup {Nobody}
    BY <1>23, <1>t DEF Complete, Steps
  <2>4. UNCHANGED <<word, waitq, pending, tword, tqueue, group, refs, cached,
                    req, sched, hold, ctype, value, answered, hist>>
    BY <1>23 DEF Complete
  <2>. QED  BY <1>0, <2>1, <2>2, <2>3, <2>4 DEF ShapeOK
<1>24. ASSUME NEW t \in Tasks, UnlockObject(t) PROVE ShapeOK'
  <2>1. Here(t) \in Objects
    BY <1>0, <1>24, TaskHere DEF UnlockObject
  <2>2. word' \in [Objects -> Word]
    BY <1>24, <1>w, <2>1 DEF UnlockObject, Ops
  <2>3. waitq' \in [Objects -> [Ops -> SUBSET Tasks]]
    BY <1>24, <1>q, <2>1 DEF UnlockObject, Drained
  <2>4. pc' \in [Tasks -> Steps] /\ idx' \in [Tasks -> Nat]
    BY <1>24, <1>t DEF UnlockObject, Steps
  <2>5. pending' \in [Objects -> Txns \cup {NoTxn}]
    BY <1>0, <1>24, <2>1 DEF UnlockObject, ShapeOK
  <2>6. UNCHANGED <<num, txnVars, mgr, req, sched, hold, ctype, errno, value,
                    answered, hist>>
    BY <1>24 DEF UnlockObject
  <2>. QED  BY <1>0, <1>n, <2>2, <2>3, <2>4, <2>5, <2>6 DEF ShapeOK
<1>25. ASSUME NEW t \in Tasks, FinishEnd(t) PROVE ShapeOK'
  <2>1. Txn(t) \in Txns
    BY <1>0, <1>25, TaskTxn DEF FinishEnd
  <2>2. tword' \in [Txns -> Word] /\ tqueue' \in [Txns -> SUBSET Tasks]
    BY <1>25, <1>w, <1>q, <2>1 DEF FinishEnd, Ops
  <2>3. /\ pc' \in [Tasks -> Steps] /\ answered' \subseteq Tasks
        /\ mgr' \in Tasks \cup {Nobody}
    BY <1>25, <1>t DEF FinishEnd, Steps
  <2>4. UNCHANGED <<objVars, tstate, group, refs, cached, req, sched, hold,
                    idx, ctype, errno, value, hist>>
    BY <1>25 DEF FinishEnd
  <2>. QED  BY <1>0, <1>n, <2>2, <2>3, <2>4 DEF ShapeOK
<1>26. CASE UNCHANGED vars
  BY <1>0, <1>26, <1>n DEF vars, ShapeOK
<1>. QED
  BY <1>0, StepCases, <1>1, <1>2, <1>3, <1>4, <1>5, <1>6, <1>7, <1>8, <1>9,
     <1>10, <1>11, <1>12, <1>13, <1>14, <1>15, <1>16, <1>17, <1>18, <1>19,
     <1>20, <1>21, <1>22, <1>23, <1>24, <1>25, <1>26 DEF Sends, Serve

-----------------------------------------------------------------------------
\* What a step of one task does to another: it may wake it.
Same(u) ==
  /\ req'[u] = req[u] /\ sched'[u] = sched[u] /\ hold'[u] = hold[u]
  /\ idx'[u] = idx[u] /\ ctype'[u] = ctype[u] /\ errno'[u] = errno[u]
  /\ pc'[u] = pc[u] \/ (pc[u] = "parked" /\ pc'[u] = "ready")

\* What a step does to the task that takes it.
Moves(t, p, s, h, i, c, e) ==
  /\ pc'[t] = p /\ sched'[t] = s /\ hold'[t] = h
  /\ idx'[t] = i /\ ctype'[t] = c /\ errno'[t] = e

Walks(t, p) == Moves(t, p, sched[t], hold[t], idx[t], ctype[t], errno[t])

LEMMA WokenParked ==
  ASSUME Control, NEW o \in Objects, NEW s, NEW u \in Woken(o, s)
  PROVE  pc[u] = "parked"
<1>1. PICK op \in Ops : u \in waitq[o][op]
  BY DEF Woken
<1>. QED  BY <1>1 DEF Control, QueueOK

LEMMA Frames ==
  ASSUME Control, NEW t \in Tasks, NEW u \in Tasks, u # t,
         Serve(t) \/ \E r \in Requests : Sends(t, r)
  PROVE  Same(u)
<1>. USE DEF txnVars, objVars, taskVars, hist
<1>0. ShapeOK /\ TaskOK(t)
  BY DEF Control
<1>t. /\ pc \in [Tasks -> Steps] /\ sched \in [Tasks -> Scheds]
      /\ hold \in [Tasks -> Ops \cup {"NONE"}] /\ idx \in [Tasks -> Nat]
      /\ errno \in [Tasks -> Errnos]
      /\ req \in [Tasks -> Requests \cup {NoRequest}]
      /\ ctype \in [Tasks -> {"NONE", "APPLY", "REVERT"}]
  BY <1>0 DEF ShapeOK
<1>1. ASSUME NEW r \in Requests, Sends(t, r) PROVE Same(u)
  BY <1>1, <1>t DEF Sends, Submit, SubmitEnd, Reject, Same
<1>2. CASE JoinTxn(t) \/ CloseTxn(t) \/ Check(t) \/ Take(t) \/ Read(t)
  BY <1>2, <1>t DEF JoinTxn, CloseTxn, Check, Take, Read, Reject, Same
<1>3. CASE WriteFails(t) \/ Write(t) \/ Publish(t)
  BY <1>3, <1>t DEF WriteFails, Write, Publish, Same
<1>4. CASE Notify(t) \/ LeaveTxn(t) \/ Unref(t) \/ TakeTxn(t)
  BY <1>4, <1>t DEF Notify, LeaveTxn, Unref, TakeTxn, Same
<1>5. CASE Barrier(t) \/ MarkObject(t) \/ BarrierUp(t) \/ LockObject(t)
  BY <1>5, <1>t DEF Barrier, MarkObject, BarrierUp, LockObject, Same
<1>6. CASE Decide(t) \/ DoAtom(t) \/ Complete(t)
  BY <1>6, <1>t DEF Decide, DoAtom, Complete, Same
<1>7. CASE Release(t)
  <2>1. Obj(t) \in Objects
    BY <1>0, <1>7, TaskTxn DEF Release
  <2>2. u \in Woken(Obj(t), Released(hold[t], word[Obj(t)])) => pc[u] = "parked"
    BY <2>1, WokenParked
  <2>. QED  BY <1>7, <1>t, <2>2 DEF Release, Same
<1>8. CASE UnlockObject(t)
  <2>1. Here(t) \in Objects
    BY <1>0, <1>8, TaskHere DEF UnlockObject
  <2>2. u \in Woken(Here(t), Released("LOCK", word[Here(t)])) => pc[u] = "parked"
    BY <2>1, WokenParked
  <2>. QED  BY <1>8, <1>t, <2>2 DEF UnlockObject, Same
<1>9. CASE FinishEnd(t)
  <2>1. Txn(t) \in Txns
    BY <1>0, <1>9, TaskTxn DEF FinishEnd
  <2>2. u \in tqueue[Txn(t)] => pc[u] = "parked"
    BY <2>1 DEF Control, QueueOK
  <2>. QED  BY <1>9, <1>t, <2>2 DEF FinishEnd, Same
<1>. QED
  BY <1>1, <1>2, <1>3, <1>4, <1>5, <1>6, <1>7, <1>8, <1>9 DEF Serve

\* The local effect of each step.
LEMMA LocalTypes ==
  ASSUME Control
  PROVE  /\ pc \in [Tasks -> Steps] /\ sched \in [Tasks -> Scheds]
         /\ hold \in [Tasks -> Ops \cup {"NONE"}] /\ idx \in [Tasks -> Nat]
         /\ errno \in [Tasks -> Errnos]
         /\ req \in [Tasks -> Requests \cup {NoRequest}]
         /\ ctype \in [Tasks -> {"NONE", "APPLY", "REVERT"}]
BY DEF Control, ShapeOK

LEMMA SubmitMoves ==
  ASSUME Control, NEW t \in Tasks, NEW r \in Requests, Submit(t, r)
  PROVE  /\ pc[t] = "new" /\ r.kind \in {"GET", "PUT"} /\ req'[t] = r
         /\ LET s == IF r.kind = "GET" THEN "READ" ELSE "WRITE"
            IN  \/ r.txn = NoTxn
                  /\ Moves(t, "ready", s, hold[t], idx[t], ctype[t], errno[t])
                \/ r.txn \in cached
                  /\ Moves(t, "looked", s, hold[t], idx[t], ctype[t], errno[t])
                \/ r.txn \in Txns \ cached
                  /\ Moves(t, "done", s, hold[t], idx[t], ctype[t],
                           "TXN_NOT_FOUND")
BY LocalTypes DEF Submit, Turn, Reject, Moves

LEMMA SubmitEndMoves ==
  ASSUME Control, NEW t \in Tasks, NEW r \in Requests, SubmitEnd(t, r)
  PROVE  /\ pc[t] = "new" /\ r.kind \in {"COMMIT", "ROLLBACK"} /\ req'[t] = r
         /\ \E c \in {"APPLY", "REVERT"} :
              \/ r.txn \in cached
                /\ Moves(t, "closing", sched[t], hold[t], idx[t], c, errno[t])
              \/ r.txn \notin cached
                /\ Moves(t, "done", sched[t], hold[t], idx[t], c,
                         "TXN_NOT_FOUND")
BY LocalTypes DEF SubmitEnd, Turn, Reject, Moves

LEMMA JoinTxnMoves ==
  ASSUME Control, NEW t \in Tasks, JoinTxn(t)
  PROVE  /\ req' = req
         /\ pc[t] = "looked"
         /\ \/ Granted("READ", tword[Txn(t)]) /\ Walks(t, "ready")
            \/ Moves(t, "done", sched[t], hold[t], idx[t], ctype[t], "TXN_CLOSED")
BY LocalTypes DEF JoinTxn, Reject, Walks, Moves

LEMMA CloseTxnMoves ==
  ASSUME Control, NEW t \in Tasks, CloseTxn(t)
  PROVE  /\ req' = req
         /\ pc[t] = "closing"
         /\ Moves(t, "ready", "ACQUIRE", hold[t], idx[t], ctype[t], errno[t])
BY LocalTypes DEF CloseTxn, Moves

LEMMA CheckMoves ==
  ASSUME Control, NEW t \in Tasks, Check(t)
  PROVE  /\ req' = req
         /\ pc[t] = "ready" /\ sched[t] \in {"READ", "WRITE", "COMMIT"}
         /\ Walks(t, "checked")
BY LocalTypes DEF Check, Walks, Moves

LEMMA TakeMoves ==
  ASSUME Control, NEW t \in Tasks, Take(t)
  PROVE  /\ req' = req
         /\ pc[t] = "checked"
         /\ \/ Granted(sched[t], word[Obj(t)])
              /\ Moves(t, "run", sched[t], sched[t], idx[t], ctype[t], errno[t])
            \/ Refused(sched[t], word[Obj(t)]) /\ Walks(t, "parked")
BY LocalTypes DEF Take, Walks, Moves

LEMMA ReadMoves ==
  ASSUME Control, NEW t \in Tasks, Read(t)
  PROVE  /\ req' = req
         /\ pc[t] = "run" /\ sched[t] = "READ"
         /\ Moves(t, "release", sched[t], hold[t], idx[t], ctype[t], "NONE")
BY LocalTypes DEF Read, Moves

LEMMA WriteFailsMoves ==
  ASSUME Control, NEW t \in Tasks, WriteFails(t)
  PROVE  /\ req' = req
         /\ pc[t] = "run" /\ sched[t] = "WRITE"
         /\ \E e \in Errnos \ {"PENDING", "NONE", "TXN_NOT_FOUND"} :
              Moves(t, "release", sched[t], hold[t], idx[t], ctype[t], e)
BY LocalTypes DEF WriteFails, Errno, Errnos, Moves

LEMMA WriteMoves ==
  ASSUME Control, NEW t \in Tasks, Write(t)
  PROVE  /\ req' = req
         /\ pc[t] = "run" /\ sched[t] = "WRITE"
         /\ \/ SwitchCommitGranted(SetCommit(word[Obj(t)]))
              /\ Moves(t, "run", "COMMIT", "COMMIT", idx[t], ctype[t], errno[t])
            \/ ~SwitchCommitGranted(SetCommit(word[Obj(t)]))
              /\ Moves(t, "release", "COMMIT", hold[t], idx[t], ctype[t], errno[t])
BY LocalTypes DEF Write, Moves

LEMMA PublishMoves ==
  ASSUME Control, NEW t \in Tasks, Publish(t)
  PROVE  /\ req' = req
         /\ pc[t] = "run" /\ sched[t] = "COMMIT"
         /\ Moves(t, "release", sched[t], hold[t], idx[t], ctype[t], "NONE")
BY LocalTypes DEF Publish, Moves

LEMMA ReleaseMoves ==
  ASSUME Control, NEW t \in Tasks, Release(t)
  PROVE  /\ req' = req
         /\ pc[t] = "release"
         /\ Moves(t, IF errno[t] = "PENDING" THEN "ready" ELSE "notify",
                  sched[t], "NONE", idx[t], ctype[t], errno[t])
BY LocalTypes DEF Release, Moves

LEMMA NotifyMoves ==
  ASSUME Control, NEW t \in Tasks, Notify(t)
  PROVE  /\ req' = req
         /\ pc[t] = "notify"
         /\ Walks(t, IF Txn(t) = NoTxn THEN "done" ELSE "leave")
BY LocalTypes DEF Notify, Walks, Moves

LEMMA LeaveTxnMoves ==
  ASSUME Control, NEW t \in Tasks, LeaveTxn(t)
  PROVE  /\ req' = req
         /\ pc[t] = "leave" /\ Walks(t, "unref")
BY LocalTypes DEF LeaveTxn, Walks, Moves

LEMMA UnrefMoves ==
  ASSUME Control, NEW t \in Tasks, Unref(t)
  PROVE  /\ req' = req
         /\ pc[t] = "unref" /\ Walks(t, "done")
BY LocalTypes DEF Unref, Walks, Moves

LEMMA TakeTxnMoves ==
  ASSUME Control, NEW t \in Tasks, TakeTxn(t)
  PROVE  /\ req' = req
         /\ pc[t] = "ready" /\ sched[t] = "ACQUIRE"
         /\ \/ Granted("COMMIT", tword[Txn(t)])
              /\ Moves(t, "ready", "BARRIER", hold[t], idx[t], ctype[t], errno[t])
            \/ Refused("COMMIT", tword[Txn(t)]) /\ Walks(t, "parked")
BY LocalTypes DEF TakeTxn, Walks, Moves

LEMMA BarrierMoves ==
  ASSUME Control, NEW t \in Tasks, Barrier(t)
  PROVE  /\ req' = req
         /\ pc[t] = "ready" /\ sched[t] = "BARRIER" /\ Walks(t, "flagging")
BY LocalTypes DEF Barrier, Walks, Moves

LEMMA MarkObjectMoves ==
  ASSUME Control, NEW t \in Tasks, MarkObject(t)
  PROVE  /\ req' = req
         /\ pc[t] = "flagging" /\ idx[t] <= Len(Groups(t))
         /\ Moves(t, pc[t], sched[t], hold[t], idx[t] + 1, ctype[t], errno[t])
BY LocalTypes DEF MarkObject, Moves

LEMMA BarrierUpMoves ==
  ASSUME Control, NEW t \in Tasks, BarrierUp(t)
  PROVE  /\ req' = req
         /\ pc[t] = "flagging" /\ idx[t] > Len(Groups(t))
         /\ Moves(t, "ready", "LOCK", hold[t], 1, ctype[t], errno[t])
BY LocalTypes DEF BarrierUp, Moves

LEMMA LockObjectMoves ==
  ASSUME Control, NEW t \in Tasks, LockObject(t)
  PROVE  /\ req' = req
         /\ pc[t] = "ready" /\ sched[t] = "LOCK" /\ idx[t] <= Len(Groups(t))
         /\ \/ Granted("LOCK", word[Here(t)])
              /\ Moves(t, pc[t], sched[t], hold[t], idx[t] + 1, ctype[t], errno[t])
            \/ Refused("LOCK", word[Here(t)]) /\ Walks(t, "parked")
BY LocalTypes DEF LockObject, Walks, Moves

LEMMA DecideMoves ==
  ASSUME Control, NEW t \in Tasks, Decide(t)
  PROVE  /\ req' = req
         /\ pc[t] = "ready" /\ sched[t] = "LOCK" /\ idx[t] > Len(Groups(t))
         /\ \E c \in {ctype[t], "REVERT"} :
              Moves(t, "atoms", sched[t], hold[t], 1, c, errno[t])
BY LocalTypes DEF Decide, Moves

LEMMA DoAtomMoves ==
  ASSUME Control, NEW t \in Tasks, DoAtom(t)
  PROVE  /\ req' = req
         /\ pc[t] = "atoms" /\ idx[t] <= Len(Groups(t))
         /\ Moves(t, pc[t], sched[t], hold[t], idx[t] + 1, ctype[t], errno[t])
BY LocalTypes DEF DoAtom, Moves

LEMMA CompleteMoves ==
  ASSUME Control, NEW t \in Tasks, Complete(t)
  PROVE  /\ req' = req
         /\ pc[t] = "atoms" /\ idx[t] > Len(Groups(t))
         /\ \E e \in {"NONE", "TXN_ROLLEDBACK"} :
              Moves(t, "unlocking", sched[t], hold[t], 1, ctype[t], e)
BY LocalTypes DEF Complete, Moves

LEMMA UnlockObjectMoves ==
  ASSUME Control, NEW t \in Tasks, UnlockObject(t)
  PROVE  /\ req' = req
         /\ pc[t] = "unlocking" /\ idx[t] <= Len(Groups(t))
         /\ Moves(t, pc[t], sched[t], hold[t], idx[t] + 1, ctype[t], errno[t])
<1>1. t \notin Woken(Here(t), Released("LOCK", word[Here(t)]))
  BY WokenParked, TaskHere DEF UnlockObject, Control
<1>. QED  BY <1>1, LocalTypes DEF UnlockObject, Moves

LEMMA FinishEndMoves ==
  ASSUME Control, NEW t \in Tasks, FinishEnd(t)
  PROVE  /\ req' = req
         /\ pc[t] = "unlocking" /\ idx[t] > Len(Groups(t))
         /\ Walks(t, "unref")
BY LocalTypes DEF FinishEnd, Walks, Moves

\* A task keeps to the places of its kind.
LEMMA SameOK ==
  ASSUME NEW u \in Tasks, TaskOK(u), Same(u)
  PROVE  TaskOK(u)'
<1>1. /\ IsOp(u)' <=> IsOp(u)
      /\ IsEnd(u)' <=> IsEnd(u)
      /\ Txn(u)' = Txn(u)
  BY DEF IsOp, IsEnd, Txn, Same
<1>2. CASE pc[u] = "new"
  BY <1>2 DEF TaskOK, Same
<1>3. CASE pc[u] # "new"
  <2>1. IsOp(u) /\ OpOK(u) => OpOK(u)'
    BY <1>1 DEF OpOK, Same
  <2>2. IsEnd(u) /\ EndOK(u) => EndOK(u)'
    BY DEF EndOK, Same
  <2>3. pc'[u] # "new" /\ req'[u] # NoRequest
    <3>1. req[u] # NoRequest
      BY <1>3 DEF TaskOK
    <3>. QED  BY <1>3, <3>1 DEF Same
  <2>. QED  BY <1>1, <1>3, <2>1, <2>2, <2>3 DEF TaskOK
<1>. QED  BY <1>2, <1>3

LEMMA TaskStep ==
  ASSUME Control, NEW t \in Tasks,
         Serve(t) \/ \E r \in Requests : Sends(t, r)
  PROVE  TaskOK(t)'
<1>0. TaskOK(t) /\ idx[t] \in Nat /\ ctype[t] \in {"NONE", "APPLY", "REVERT"}
  BY LocalTypes DEF Control
<1>. USE DEF TaskOK, OpOK, EndOK, IsOp, IsEnd, Txn, Moves, Walks
<1>1. ASSUME NEW r \in Requests, Submit(t, r) PROVE TaskOK(t)'
  <2>1. r # NoRequest /\ NoTxn \notin Txns /\ cached \subseteq Txns
    BY RequestKinds, ScriptAssumption DEF Control, ShapeOK
  <2>. QED  BY <1>0, <1>1, <2>1, SubmitMoves
<1>2. ASSUME NEW r \in Requests, SubmitEnd(t, r) PROVE TaskOK(t)'
  BY <1>0, <1>2, SubmitEndMoves, RequestKinds
<1>3. CASE JoinTxn(t)
  BY <1>0, <1>3, JoinTxnMoves
<1>4. CASE CloseTxn(t)
  BY <1>0, <1>4, CloseTxnMoves
<1>5. CASE Check(t)
  BY <1>0, <1>5, CheckMoves
<1>6. CASE Take(t)
  BY <1>0, <1>6, TakeMoves
<1>7. CASE Read(t)
  BY <1>0, <1>7, ReadMoves
<1>8. CASE WriteFails(t)
  BY <1>0, <1>8, WriteFailsMoves DEF Errnos
<1>9. CASE Write(t)
  BY <1>0, <1>9, WriteMoves
<1>10. CASE Publish(t)
  BY <1>0, <1>10, PublishMoves
<1>11. CASE Release(t)
  BY <1>0, <1>11, ReleaseMoves
<1>12. CASE Notify(t)
  BY <1>0, <1>12, NotifyMoves
<1>13. CASE LeaveTxn(t)
  BY <1>0, <1>13, LeaveTxnMoves
<1>14. CASE Unref(t)
  BY <1>0, <1>14, UnrefMoves
<1>15. CASE TakeTxn(t)
  BY <1>0, <1>15, TakeTxnMoves
<1>16. CASE Barrier(t)
  BY <1>0, <1>16, BarrierMoves
<1>17. CASE MarkObject(t)
  BY <1>0, <1>17, MarkObjectMoves
<1>18. CASE BarrierUp(t)
  BY <1>0, <1>18, BarrierUpMoves
<1>19. CASE LockObject(t)
  BY <1>0, <1>19, LockObjectMoves
<1>20. CASE Decide(t)
  BY <1>0, <1>20, DecideMoves
<1>21. CASE DoAtom(t)
  BY <1>0, <1>21, DoAtomMoves
<1>22. CASE Complete(t)
  BY <1>0, <1>22, CompleteMoves
<1>23. CASE UnlockObject(t)
  BY <1>0, <1>23, UnlockObjectMoves
<1>24. CASE FinishEnd(t)
  BY <1>0, <1>24, FinishEndMoves
<1>. QED  BY <1>1, <1>2, <1>3, <1>4, <1>5, <1>6, <1>7, <1>8, <1>9, <1>10,
     <1>11, <1>12, <1>13, <1>14, <1>15, <1>16, <1>17, <1>18, <1>19, <1>20, <1>21,
     <1>22, <1>23, <1>24 DEF Serve, Sends

-----------------------------------------------------------------------------
\* The groups of a transaction only grow, and only by a write in it.
LEMMA GroupsUnchanged ==
  ASSUME NEW t \in Tasks, ~Write(t), Serve(t) \/ \E r \in Requests : Sends(t, r)
  PROVE  group' = group
<1>. USE DEF txnVars
<1>1. CASE \E r \in Requests : Sends(t, r)
  BY <1>1 DEF Sends, Submit, SubmitEnd
<1>2. CASE JoinTxn(t) \/ CloseTxn(t) \/ Check(t) \/ Take(t) \/ Read(t)
           \/ WriteFails(t) \/ Publish(t) \/ Release(t)
  BY <1>2 DEF JoinTxn, CloseTxn, Check, Take, Read, WriteFails, Publish, Release
<1>3. CASE Notify(t) \/ LeaveTxn(t) \/ Unref(t) \/ TakeTxn(t) \/ Barrier(t)
           \/ MarkObject(t) \/ BarrierUp(t)
  BY <1>3 DEF Notify, LeaveTxn, Unref, TakeTxn, Barrier, MarkObject, BarrierUp
<1>4. CASE LockObject(t) \/ Decide(t) \/ DoAtom(t) \/ Complete(t)
           \/ UnlockObject(t) \/ FinishEnd(t)
  BY <1>4 DEF LockObject, Decide, DoAtom, Complete, UnlockObject, FinishEnd
<1>. QED  BY <1>1, <1>2, <1>3, <1>4 DEF Serve

LEMMA GroupsGrow ==
  ASSUME Control, NEW t \in Tasks, NEW x \in Txns,
         Serve(t) \/ \E r \in Requests : Sends(t, r)
  PROVE  /\ group'[x] = group[x] \/ \E o \in Objects : group'[x] = Append(group[x], o)
         /\ \A i \in DOMAIN group[x] :
              i \in DOMAIN group'[x] /\ group'[x][i] = group[x][i]
<1>1. group \in [Txns -> Seq(Objects)] /\ TaskOK(t) /\ ShapeOK
  BY DEF Control, ShapeOK
<1>2. CASE Write(t)
  <2>1. Obj(t) \in Objects /\ Txn(t) \in Txns \cup {NoTxn}
    BY <1>1, <1>2, TaskTxn DEF Write
  <2>2. group'[x] = group[x] \/ \E o \in Objects : group'[x] = Append(group[x], o)
    BY <1>1, <1>2, <2>1 DEF Write, AddsAtom
  <2>. QED  BY <1>1, <2>2
<1>3. CASE ~Write(t)
  BY <1>3, GroupsUnchanged
<1>. QED  BY <1>2, <1>3

\* A task in a queue that stays in it stays as it is there.
LEMMA QueuedStays ==
  ASSUME Control, NEW u \in Tasks, Same(u), pc'[u] = pc[u],
         \A x \in Txns : \A i \in DOMAIN group[x] :
           i \in DOMAIN group'[x] /\ group'[x][i] = group[x][i]
  PROVE  /\ \A o \in Objects, op \in Ops : u \in waitq[o][op] =>
              /\ pc'[u] = "parked"
              /\ IsOp(u)' => Obj(u)' = o /\ sched'[u] = op
              /\ IsEnd(u)' => /\ sched'[u] = "LOCK" /\ op = "LOCK"
                              /\ idx'[u] \in DOMAIN Groups(u)' /\ Here(u)' = o
         /\ \A x \in Txns : u \in tqueue[x] =>
              /\ pc'[u] = "parked" /\ IsEnd(u)' /\ sched'[u] = "ACQUIRE"
              /\ Txn(u)' = x
<1>1. pc[u] # "new" /\ IsEnd(u) => Txn(u) \in Txns
  BY TaskFacts DEF Control
<1>2. IsEnd(u)' = IsEnd(u) /\ IsOp(u)' = IsOp(u) /\ Txn(u)' = Txn(u) /\ Obj(u)' = Obj(u)
  BY DEF IsEnd, IsOp, Txn, Obj, Same
<1>3. pc[u] # "new" /\ IsEnd(u) /\ idx[u] \in DOMAIN Groups(u) =>
        idx'[u] \in DOMAIN Groups(u)' /\ Here(u)' = Here(u)
  BY <1>1, <1>2 DEF Groups, Here, Same, Txn
<1>. QED  BY <1>2, <1>3 DEF Control, QueueOK, Same

LEMMA QueueStep ==
  ASSUME Control, NEW t \in Tasks,
         Serve(t) \/ \E r \in Requests : Sends(t, r)
  PROVE  QueueOK'
<1>. USE DEF txnVars, objVars, taskVars, hist
<1>0. /\ ShapeOK /\ TaskOK(t) /\ pc \in [Tasks -> Steps]
      /\ waitq \in [Objects -> [Ops -> SUBSET Tasks]]
      /\ tqueue \in [Txns -> SUBSET Tasks]
  BY DEF Control, ShapeOK
<1>a. ASSUME NEW u \in Tasks, u # t, pc'[u] = pc[u]
      PROVE  /\ \A o \in Objects, op \in Ops : u \in waitq[o][op] =>
                  /\ pc'[u] = "parked"
                  /\ IsOp(u)' => Obj(u)' = o /\ sched'[u] = op
                  /\ IsEnd(u)' => /\ sched'[u] = "LOCK" /\ op = "LOCK"
                                  /\ idx'[u] \in DOMAIN Groups(u)'
                                  /\ Here(u)' = o
             /\ \A x \in Txns : u \in tqueue[x] =>
                  /\ pc'[u] = "parked" /\ IsEnd(u)' /\ sched'[u] = "ACQUIRE"
                  /\ Txn(u)' = x
  BY <1>a, Frames, GroupsGrow, QueuedStays
<1>b. pc[t] # "parked" =>
        /\ \A o \in Objects, op \in Ops : t \notin waitq[o][op]
        /\ \A x \in Txns : t \notin tqueue[x]
  BY DEF Control, QueueOK
<1>c. ASSUME pc[t] # "parked", UNCHANGED <<waitq, tqueue>>,
             \A u \in Tasks : u # t => pc'[u] = pc[u]
      PROVE  QueueOK'
  BY <1>0, <1>a, <1>b, <1>c DEF QueueOK
<1>1. ASSUME NEW r \in Requests, Sends(t, r) PROVE QueueOK'
  BY <1>0, <1>1, <1>c DEF Sends, Submit, SubmitEnd, Turn, Reject
<1>2. CASE JoinTxn(t) \/ CloseTxn(t) \/ Check(t) \/ Read(t) \/ WriteFails(t)
  BY <1>0, <1>2, <1>c DEF JoinTxn, CloseTxn, Check, Read, WriteFails, Reject
<1>3. CASE Write(t) \/ Publish(t) \/ Notify(t) \/ LeaveTxn(t) \/ Unref(t)
  BY <1>0, <1>3, <1>c DEF Write, Publish, Notify, LeaveTxn, Unref
<1>4. CASE Barrier(t) \/ MarkObject(t) \/ BarrierUp(t) \/ Decide(t) \/ DoAtom(t)
           \/ Complete(t)
  BY <1>0, <1>4, <1>c DEF Barrier, MarkObject, BarrierUp, Decide, DoAtom, Complete
<1>5. CASE Take(t)
  <2>1. /\ pc[t] = "checked" /\ IsOp(t) /\ Obj(t) \in Objects /\ sched[t] \in Ops
        /\ tqueue' = tqueue /\ req' = req /\ sched' = sched
        /\ \A u \in Tasks : u # t => pc'[u] = pc[u]
    BY <1>0, <1>5, TaskTxn DEF Take, Ops
  <2>2. CASE waitq' = waitq
    BY <1>c, <2>1, <2>2
  <2>3. CASE /\ waitq' = [waitq EXCEPT ![Obj(t)][sched[t]] = @ \cup {t}]
             /\ pc' = [pc EXCEPT ![t] = "parked"]
    <3>1. \A o \in Objects, op \in Ops : \A u \in waitq'[o][op] :
            u \in waitq[o][op] \/ (u = t /\ o = Obj(t) /\ op = sched[t])
      BY <1>0, <2>1, <2>3
    <3>2. /\ pc'[t] = "parked" /\ IsOp(t)' /\ ~IsEnd(t)'
          /\ Obj(t)' = Obj(t) /\ sched'[t] = sched[t]
      BY <1>0, <2>1, <2>3 DEF IsOp, IsEnd, Obj
    <3>. QED  BY <1>0, <1>a, <1>b, <2>1, <3>1, <3>2 DEF QueueOK
  <2>. QED  BY <1>5, <2>2, <2>3 DEF Take
<1>6. CASE LockObject(t)
  <2>1. /\ pc[t] = "ready" /\ IsEnd(t) /\ Here(t) \in Objects
        /\ idx[t] \in DOMAIN Groups(t) /\ sched[t] = "LOCK"
        /\ tqueue' = tqueue /\ req' = req /\ sched' = sched /\ group' = group
        /\ \A u \in Tasks : u # t => pc'[u] = pc[u]
    <3>1. IsEnd(t)
      BY <1>0, <1>6, TaskFacts DEF LockObject, OpOK
    <3>. QED  BY <1>0, <1>6, <3>1, TaskHere DEF LockObject
  <2>2. CASE waitq' = waitq
    BY <1>c, <2>1, <2>2
  <2>3. CASE /\ waitq' = [waitq EXCEPT ![Here(t)]["LOCK"] = @ \cup {t}]
             /\ pc' = [pc EXCEPT ![t] = "parked"] /\ idx' = idx
    <3>1. \A o \in Objects, op \in Ops : \A u \in waitq'[o][op] :
            u \in waitq[o][op] \/ (u = t /\ o = Here(t) /\ op = "LOCK")
      <4>1. waitq \in [Objects -> [Ops -> SUBSET Tasks]]
        BY <1>0 DEF ShapeOK
      <4>. QED  BY <2>1, <2>3, <4>1 DEF Ops
    <3>2. /\ pc'[t] = "parked" /\ ~IsOp(t)' /\ Here(t)' = Here(t)
          /\ idx'[t] \in DOMAIN Groups(t)' /\ sched'[t] = "LOCK"
      BY <1>0, <2>1, <2>3 DEF IsOp, IsEnd, Here, Groups, Txn
    <3>3. ASSUME NEW o \in Objects, NEW op \in Ops, NEW u \in waitq'[o][op]
          PROVE  /\ pc'[u] = "parked"
                 /\ IsOp(u)' => Obj(u)' = o /\ sched'[u] = op
                 /\ IsEnd(u)' => /\ sched'[u] = "LOCK" /\ op = "LOCK"
                                 /\ idx'[u] \in DOMAIN Groups(u)' /\ Here(u)' = o
      <4>1. CASE u = t
        BY <1>b, <2>1, <3>1, <3>2, <4>1
      <4>2. CASE u # t
        BY <1>0, <1>a, <2>1, <3>1, <4>2
      <4>. QED  BY <4>1, <4>2
    <3>4. \A x \in Txns : \A u \in tqueue'[x] :
            pc'[u] = "parked" /\ IsEnd(u)' /\ sched'[u] = "ACQUIRE" /\ Txn(u)' = x
      BY <1>0, <1>a, <1>b, <2>1
    <3>. QED  BY <3>3, <3>4 DEF QueueOK
  <2>. QED  BY <1>6, <2>2, <2>3 DEF LockObject
<1>7. CASE TakeTxn(t)
  <2>1. /\ pc[t] = "ready" /\ IsEnd(t) /\ Txn(t) \in Txns /\ sched[t] = "ACQUIRE"
        /\ waitq' = waitq /\ req' = req
        /\ \A u \in Tasks : u # t => pc'[u] = pc[u]
    <3>1. IsEnd(t)
      BY <1>0, <1>7, TaskFacts DEF TakeTxn, OpOK
    <3>. QED  BY <1>0, <1>7, <3>1, TaskTxn DEF TakeTxn
  <2>2. CASE tqueue' = tqueue
    BY <1>c, <2>1, <2>2
  <2>3. CASE /\ tqueue' = [tqueue EXCEPT ![Txn(t)] = @ \cup {t}]
             /\ pc' = [pc EXCEPT ![t] = "parked"] /\ sched' = sched
    <3>1. \A x \in Txns : \A u \in tqueue'[x] :
            u \in tqueue[x] \/ (u = t /\ x = Txn(t))
      BY <1>0, <2>1, <2>3
    <3>2. /\ pc'[t] = "parked" /\ IsEnd(t)' /\ Txn(t)' = Txn(t)
          /\ sched'[t] = "ACQUIRE"
      BY <1>0, <2>1, <2>3 DEF IsEnd, Txn
    <3>3. \A o \in Objects, op \in Ops : \A u \in waitq'[o][op] :
            u \in waitq[o][op] /\ u \in Tasks /\ u # t /\ pc'[u] = pc[u]
      BY <1>0, <1>b, <2>1
    <3>4. \A x \in Txns : \A u \in tqueue[x] :
            u \in Tasks /\ u # t /\ pc'[u] = pc[u]
      BY <1>0, <1>b, <2>1
    <3>. QED  BY <1>a, <3>1, <3>2, <3>3, <3>4 DEF QueueOK
  <2>. QED  BY <1>7, <2>2, <2>3 DEF TakeTxn
<1>d. ASSUME NEW o \in Objects, NEW s, waitq' = Drained(o, s), tqueue' = tqueue,
             pc[t] # "parked",
             \A u \in Tasks : u # t =>
               pc'[u] = IF u \in Woken(o, s) THEN "ready" ELSE pc[u]
      PROVE  QueueOK'
  <2>1. ASSUME NEW p \in Objects, NEW op \in Ops, NEW u \in waitq'[p][op]
        PROVE  u \in waitq[p][op] /\ u \in Tasks /\ u # t /\ u \notin Woken(o, s)
    <3>1. u \in waitq[p][op] /\ (p = o => ~Wakes(op, s))
      BY <1>0, <1>d, <2>1 DEF Drained
    <3>2. u \in Tasks /\ u # t
      BY <1>0, <1>b, <1>d, <3>1
    <3>3. \A q \in Ops : u \in waitq[o][q] => p = o /\ op = q
      <4>1. IsOp(u) \/ IsEnd(u)
        BY <3>1, <3>2, TaskFacts DEF Control, QueueOK
      <4>. QED  BY <3>1, <4>1 DEF Control, QueueOK
    <3>4. u \notin Woken(o, s)
      BY <3>1, <3>3 DEF Woken
    <3>. QED  BY <3>1, <3>2, <3>4
  <2>2. ASSUME NEW x \in Txns, NEW u \in tqueue'[x]
        PROVE  u \in tqueue[x] /\ u \in Tasks /\ u # t /\ u \notin Woken(o, s)
    <3>1. u \in tqueue[x] /\ u \in Tasks /\ u # t
      BY <1>0, <1>b, <1>d, <2>2
    <3>2. \A q \in Ops : u \notin waitq[o][q]
      BY <3>1 DEF Control, QueueOK
    <3>. QED  BY <3>1, <3>2 DEF Woken
  <2>3. \A u \in Tasks : u # t /\ u \notin Woken(o, s) => pc'[u] = pc[u]
    BY <1>d
  <2>. QED  BY <1>a, <2>1, <2>2, <2>3 DEF QueueOK
<1>8. CASE Release(t)
  <2>1. Obj(t) \in Objects
    BY <1>0, <1>8, TaskTxn DEF Release
  <2>. QED  BY <1>d, <1>8, <2>1 DEF Release
<1>9. CASE UnlockObject(t)
  <2>1. Here(t) \in Objects
    BY <1>0, <1>9, TaskHere DEF UnlockObject
  <2>. QED  BY <1>d, <1>9, <2>1 DEF UnlockObject
<1>10. CASE FinishEnd(t)
  <2>0. Txn(t) \in Txns /\ pc[t] # "parked" /\ waitq' = waitq
    BY <1>0, <1>10, TaskTxn DEF FinishEnd
  <2>1. ASSUME NEW p \in Objects, NEW op \in Ops, NEW u \in waitq'[p][op]
        PROVE  u \in waitq[p][op] /\ u \in Tasks /\ u # t /\ pc'[u] = pc[u]
    <3>1. u \in waitq[p][op] /\ u \in Tasks /\ u # t
      BY <1>0, <1>b, <2>0, <2>1
    <3>2. u \notin tqueue[Txn(t)]
      BY <3>1, <2>0, TaskFacts DEF Control, QueueOK
    <3>. QED  BY <1>10, <3>1, <3>2 DEF FinishEnd
  <2>2. ASSUME NEW x \in Txns, NEW u \in tqueue'[x]
        PROVE  u \in tqueue[x] /\ u \in Tasks /\ u # t /\ pc'[u] = pc[u]
    <3>1. u \in tqueue[x] /\ u \in Tasks /\ u # t
      BY <1>0, <1>10, <1>b, <2>0, <2>2 DEF FinishEnd
    <3>2. CASE x = Txn(t)
      BY <1>0, <1>10, <2>2, <3>1, <3>2 DEF FinishEnd
    <3>3. CASE x # Txn(t)
      <4>1. u \notin tqueue[Txn(t)]
        BY <3>1, <3>3, <2>0 DEF Control, QueueOK
      <4>. QED  BY <1>10, <3>1, <4>1 DEF FinishEnd
    <3>. QED  BY <3>2, <3>3
  <2>. QED  BY <1>a, <2>1, <2>2 DEF QueueOK
<1>. QED
  BY <1>1, <1>2, <1>3, <1>4, <1>5, <1>6, <1>7, <1>8, <1>9, <1>10 DEF Serve

LEMMA ManagerStep ==
  ASSUME Control, NEW t \in Tasks,
         Serve(t) \/ \E r \in Requests : Sends(t, r)
  PROVE  ManagerOK'
<1>. USE DEF txnVars, objVars, taskVars, hist, ManagerOK
<1>0. TaskOK(t) /\ ManagerOK /\ Nobody \notin Tasks
  BY ScriptAssumption DEF Control
<1>a. \A u \in Tasks : u # t =>
        (pc'[u] \in {"flagging", "unlocking"} <=> pc[u] \in {"flagging", "unlocking"})
  BY Frames DEF Same
<1>b. ASSUME mgr' = mgr,
             pc'[t] \in {"flagging", "unlocking"} <=> pc[t] \in {"flagging", "unlocking"}
      PROVE  ManagerOK'
  BY <1>0, <1>a, <1>b
<1>. USE DEF Moves, Walks
<1>1. ASSUME NEW r \in Requests, Sends(t, r) PROVE ManagerOK'
  BY <1>b, <1>1, SubmitMoves, SubmitEndMoves DEF Sends, Submit, SubmitEnd
<1>2. CASE JoinTxn(t) \/ CloseTxn(t) \/ Check(t) \/ Take(t)
  BY <1>b, <1>2, JoinTxnMoves, CloseTxnMoves, CheckMoves, TakeMoves
     DEF JoinTxn, CloseTxn, Check, Take
<1>3. CASE Read(t) \/ WriteFails(t) \/ Write(t) \/ Publish(t)
  BY <1>b, <1>3, ReadMoves, WriteFailsMoves, WriteMoves, PublishMoves
     DEF Read, WriteFails, Write, Publish
<1>4. CASE Release(t) \/ Notify(t) \/ LeaveTxn(t) \/ Unref(t)
  BY <1>b, <1>4, ReleaseMoves, NotifyMoves, LeaveTxnMoves, UnrefMoves
     DEF Release, Notify, LeaveTxn, Unref
<1>5. CASE TakeTxn(t) \/ MarkObject(t) \/ LockObject(t) \/ Decide(t)
  BY <1>b, <1>5, TakeTxnMoves, MarkObjectMoves, LockObjectMoves, DecideMoves
     DEF TakeTxn, MarkObject, LockObject, Decide
<1>6. CASE DoAtom(t) \/ UnlockObject(t)
  BY <1>b, <1>6, DoAtomMoves, UnlockObjectMoves DEF DoAtom, UnlockObject
<1>7. CASE Barrier(t) \/ Complete(t)
  BY <1>0, <1>a, <1>7, BarrierMoves, CompleteMoves DEF Barrier, Complete
<1>8. CASE BarrierUp(t) \/ FinishEnd(t)
  BY <1>0, <1>a, <1>8, BarrierUpMoves, FinishEndMoves DEF BarrierUp, FinishEnd
<1>. QED
  BY <1>1, <1>2, <1>3, <1>4, <1>5, <1>6, <1>7, <1>8 DEF Serve

LEMMA ControlStep == Control /\ [Next]_vars => Control'
<1>. SUFFICES ASSUME Control, [Next]_vars PROVE Control'
  OBVIOUS
<1>0. ShapeOK /\ ShapeOK'
  BY ShapeStep DEF Control
<1>1. ASSUME NEW t \in Tasks, Serve(t) \/ \E r \in Requests : Sends(t, r)
      PROVE  Control'
  <2>1. \A u \in Tasks : TaskOK(u)'
    <3>1. TaskOK(t)'
      BY <1>1, TaskStep
    <3>2. \A u \in Tasks : u # t => TaskOK(u)'
      BY <1>1, Frames, SameOK DEF Control
    <3>. QED  BY <3>1, <3>2
  <2>. QED  BY <1>0, <1>1, <2>1, QueueStep, ManagerStep DEF Control
<1>2. CASE UNCHANGED <<objVars, tqueue, group, mgr, taskVars>>
  <2>1. \A u \in Tasks : TaskOK(u)'
    BY <1>2, SameOK DEF Control, Same, taskVars
  <2>2. QueueOK' /\ ManagerOK'
    BY <1>2 DEF Control, QueueOK, ManagerOK, taskVars, objVars, IsOp, IsEnd,
                Obj, Txn, Groups, Here
  <2>. QED  BY <1>0, <2>1, <2>2 DEF Control
<1>3. ASSUME NEW x \in Txns, Begin(x) PROVE Control'
  BY <1>2, <1>3 DEF Begin
<1>4. CASE UNCHANGED vars
  BY <1>2, <1>4 DEF vars, txnVars
<1>. QED  BY <1>0, <1>1, <1>3, <1>4, StepCases

LEMMA InitControl == Init => Control
<1>. SUFFICES ASSUME Init PROVE Control
  OBVIOUS
<1>1. ShapeOK
  <2>1. Zero \in Word
    BY MaxReadersAssumption DEF Zero, Word
  <2>2. NumbersOK
    BY DEF Init, NumbersOK, Created
  <2>3. /\ \A x \in Txns : <<>> \in Seq(Objects)
        /\ pc \in [Tasks -> Steps] /\ sched \in [Tasks -> Scheds]
        /\ tstate \in [Txns -> TxnStates] /\ errno \in [Tasks -> Errnos]
    BY DEF Init, Steps, Scheds, TxnStates, Errnos
  <2>4. /\ word \in [Objects -> Word] /\ tword \in [Txns -> Word]
        /\ waitq \in [Objects -> [Ops -> SUBSET Tasks]]
        /\ pending \in [Objects -> Txns \cup {NoTxn}]
        /\ tqueue \in [Txns -> SUBSET Tasks] /\ refs \in [Txns -> Int]
    BY <2>1 DEF Init
  <2>5. group \in [Txns -> Seq(Objects)]
    BY DEF Init
  <2>6. /\ req \in [Tasks -> Requests \cup {NoRequest}]
        /\ hold \in [Tasks -> Ops \cup {"NONE"}] /\ idx \in [Tasks -> Nat]
        /\ ctype \in [Tasks -> {"NONE", "APPLY", "REVERT"}]
    BY DEF Init
  <2>7. /\ cached \subseteq Txns /\ mgr \in Tasks \cup {Nobody}
        /\ answered \subseteq Tasks /\ script \in Scripts
        /\ late \in BOOLEAN /\ wiped \in BOOLEAN
    BY DEF Init
  <2>. QED  BY <2>2, <2>3, <2>4, <2>5, <2>6, <2>7 DEF ShapeOK
<1>2. \A t \in Tasks : TaskOK(t)
  BY DEF Init, TaskOK
<1>3. QueueOK /\ ManagerOK
  BY ScriptAssumption DEF Init, QueueOK, ManagerOK
<1>. QED  BY <1>1, <1>2, <1>3 DEF Control

-----------------------------------------------------------------------------
\* Counting tasks.
LEMMA CountTasks ==
  /\ \A S \in SUBSET Tasks :
       /\ IsFiniteSet(S) /\ Cardinality(S) \in Nat
       /\ Cardinality(S) <= MaxReaders
       /\ Cardinality(S) = 0 <=> S = {}
  /\ \A S \in SUBSET Tasks, t \in Tasks :
       /\ t \notin S => Cardinality(S \cup {t}) = Cardinality(S) + 1
       /\ t \in S => Cardinality(S \ {t}) = Cardinality(S) - 1
  /\ \A S \in SUBSET Tasks : \A T \in SUBSET S : Cardinality(T) <= Cardinality(S)
  /\ \A S \in SUBSET Tasks : \A t \in S : S # {t} => Cardinality(S) > 1
<1>0. IsFiniteSet(Tasks) /\ Cardinality(Tasks) <= MaxReaders /\ MaxReaders \in Nat
  BY ScriptAssumption, MaxReadersAssumption
<1>1. ASSUME NEW S \in SUBSET Tasks
      PROVE  /\ IsFiniteSet(S) /\ Cardinality(S) \in Nat
             /\ Cardinality(S) <= MaxReaders
             /\ Cardinality(S) = 0 <=> S = {}
  <2>1. IsFiniteSet(S) /\ Cardinality(S) <= Cardinality(Tasks)
    BY <1>0, FS_Subset
  <2>2. Cardinality(S) \in Nat /\ Cardinality(Tasks) \in Nat
    BY <1>0, <2>1, FS_CardinalityType
  <2>. QED  BY <1>0, <2>1, <2>2, FS_EmptySet
<1>2. ASSUME NEW S \in SUBSET Tasks, NEW t \in Tasks
      PROVE  /\ t \notin S => Cardinality(S \cup {t}) = Cardinality(S) + 1
             /\ t \in S => Cardinality(S \ {t}) = Cardinality(S) - 1
  BY <1>1, FS_AddElement, FS_RemoveElement
<1>3. ASSUME NEW S \in SUBSET Tasks, NEW T \in SUBSET S
      PROVE  Cardinality(T) <= Cardinality(S)
  BY <1>1, FS_Subset
<1>4. ASSUME NEW S \in SUBSET Tasks, NEW t \in S, S # {t}
      PROVE  Cardinality(S) > 1
  <2>1. Cardinality(S \ {t}) = Cardinality(S) - 1 /\ S \ {t} # {}
    BY <1>2, <1>4
  <2>2. Cardinality(S \ {t}) \in Nat /\ Cardinality(S \ {t}) # 0
    BY <1>1, <2>1
  <2>. QED  BY <1>1, <2>1, <2>2
<1>. QED  BY <1>1, <1>2, <1>3, <1>4

\* A step of the workers changes no request; nobody becomes the one who ends
\* a transaction and nobody joins its users.
LEMMA ServeRoles ==
  ASSUME Control, NEW t \in Tasks, Serve(t)
  PROVE  /\ req' = req
         /\ pc[t] # "new" /\ pc'[t] # "new"
         /\ \A u \in Tasks : /\ IsOp(u)' <=> IsOp(u)
                             /\ IsEnd(u)' <=> IsEnd(u)
                             /\ Txn(u)' = Txn(u) /\ Obj(u)' = Obj(u)
         /\ \A u \in Tasks, x \in Txns : Ender(u, x)' <=> Ender(u, x)
         /\ \A x \in Txns : Users(x)' = Users(x) \/ Users(x)' = Users(x) \ {t}
<1>. USE DEF Moves, Walks
<1>0. TaskOK(t) /\ ShapeOK
  BY DEF Control
<1>a. /\ req' = req /\ pc[t] \notin {"new", "done"} /\ pc'[t] # "new"
      /\ errno'[t] = "TXN_NOT_FOUND" <=> errno[t] = "TXN_NOT_FOUND"
  <2>0. pc[t] # "new" /\ errno[t] = "TXN_NOT_FOUND" => pc[t] \notin
          {"looked", "ready", "checked", "parked", "run", "closing", "flagging", "atoms"}
    BY <1>0, TaskFacts DEF OpOK, EndOK
  <2>1. CASE JoinTxn(t) \/ CloseTxn(t) \/ Check(t) \/ Take(t)
    BY <2>0, <2>1, JoinTxnMoves, CloseTxnMoves, CheckMoves, TakeMoves
  <2>2. CASE Read(t) \/ WriteFails(t) \/ Write(t) \/ Publish(t)
    BY <2>0, <2>2, ReadMoves, WriteFailsMoves, WriteMoves, PublishMoves
  <2>3. CASE Release(t) \/ Notify(t) \/ LeaveTxn(t) \/ Unref(t)
    BY <2>0, <2>3, ReleaseMoves, NotifyMoves, LeaveTxnMoves, UnrefMoves
  <2>4. CASE TakeTxn(t) \/ MarkObject(t) \/ LockObject(t) \/ Decide(t)
    BY <2>0, <2>4, TakeTxnMoves, MarkObjectMoves, LockObjectMoves, DecideMoves
  <2>5. CASE DoAtom(t) \/ UnlockObject(t) \/ Barrier(t)
    BY <2>0, <2>5, DoAtomMoves, UnlockObjectMoves, BarrierMoves
  <2>6. CASE BarrierUp(t) \/ Complete(t) \/ FinishEnd(t)
    BY <2>0, <2>6, BarrierUpMoves, CompleteMoves, FinishEndMoves
  <2>. QED  BY <2>1, <2>2, <2>3, <2>4, <2>5, <2>6 DEF Serve
<1>b. \A u \in Tasks : /\ IsOp(u)' <=> IsOp(u)
                       /\ IsEnd(u)' <=> IsEnd(u)
                       /\ Txn(u)' = Txn(u) /\ Obj(u)' = Obj(u)
  BY <1>a DEF IsOp, IsEnd, Txn, Obj
<1>c. \A u \in Tasks : u # t => Same(u)
  BY Frames
<1>d. \A u \in Tasks, x \in Txns : Ender(u, x)' <=> Ender(u, x)
  <2>1. \A u \in Tasks : errno'[u] = "TXN_NOT_FOUND" <=> errno[u] = "TXN_NOT_FOUND"
    BY <1>a, <1>c DEF Same
  <2>. QED  BY <1>b, <2>1 DEF Ender
<1>e. ASSUME NEW x \in Txns
      PROVE  Users(x)' = Users(x) \/ Users(x)' = Users(x) \ {t}
  <2>1. \A u \in Tasks : u # t => (u \in Users(x)' <=> u \in Users(x))
    BY <1>b, <1>c DEF Users, Same
  <2>2. t \in Users(x)' => t \in Users(x)
    BY <1>a, <1>b DEF Users
  <2>3. Users(x) \subseteq Tasks /\ Users(x)' \subseteq Tasks
    BY DEF Users
  <2>. QED  BY <2>1, <2>2, <2>3
<1>. QED  BY <1>a, <1>b, <1>c, <1>d, <1>e

\* A request that is sent: its task joins the users of its transaction, or
\* takes it out of the cache to end it, and in both cases it was cached.
LEMMA SendRoles ==
  ASSUME Control, NEW t \in Tasks, NEW r \in Requests, Sends(t, r)
  PROVE  /\ \A u \in Tasks : u # t => /\ IsOp(u)' <=> IsOp(u)
                                      /\ IsEnd(u)' <=> IsEnd(u)
                                      /\ Txn(u)' = Txn(u) /\ Obj(u)' = Obj(u)
                                      /\ \A x \in Txns : Ender(u, x)' <=> Ender(u, x)
         /\ ~IsOp(t) /\ ~IsEnd(t) /\ (\A x \in Txns : ~Ender(t, x) /\ t \notin Users(x))
         /\ \A x \in Txns :
              \/ /\ Users(x)' = Users(x) /\ ~Ender(t, x)'
                 /\ refs'[x] = refs[x] /\ (x \in cached' <=> x \in cached)
              \/ /\ x \in cached /\ x \in cached' /\ ~Ender(t, x)'
                 /\ Users(x)' = Users(x) \cup {t} /\ refs'[x] = refs[x] + 1
              \/ /\ x \in cached /\ x \notin cached' /\ Ender(t, x)'
                 /\ Users(x)' = Users(x) \cup {t} /\ refs'[x] = refs[x] - 1
<1>0. TaskOK(t) /\ ShapeOK /\ refs \in [Txns -> Int] /\ cached \subseteq Txns
      /\ NoTxn \notin Txns
  BY ScriptAssumption DEF Control, ShapeOK
<1>1. \A u \in Tasks : u # t => Same(u)
  BY Frames
<1>2. \A u \in Tasks : u # t => /\ IsOp(u)' <=> IsOp(u)
                                /\ IsEnd(u)' <=> IsEnd(u)
                                /\ Txn(u)' = Txn(u) /\ Obj(u)' = Obj(u)
                                /\ \A x \in Txns : Ender(u, x)' <=> Ender(u, x)
  BY <1>1 DEF IsOp, IsEnd, Txn, Obj, Same, Ender
<1>3. pc[t] = "new" /\ req[t].kind = "NONE"
  <2>1. pc[t] = "new"
    BY SubmitMoves, SubmitEndMoves DEF Sends
  <2>. QED  BY <1>0, <2>1 DEF TaskOK, NoRequest
<1>4. ~IsOp(t) /\ ~IsEnd(t) /\ (\A x \in Txns : ~Ender(t, x) /\ t \notin Users(x))
  BY <1>3 DEF IsOp, IsEnd, Ender, Users
<1>5. \A x \in Txns, u \in Tasks : u # t => (u \in Users(x)' <=> u \in Users(x))
  BY <1>1, <1>2 DEF Users, Same
<1>6. \A x \in Txns : Users(x) \subseteq Tasks /\ Users(x)' \subseteq Tasks
  BY DEF Users
<1>7. ASSUME NEW x \in Txns, Submit(t, r)
      PROVE  \/ /\ Users(x)' = Users(x) /\ ~Ender(t, x)'
                /\ refs'[x] = refs[x] /\ (x \in cached' <=> x \in cached)
             \/ /\ x \in cached /\ x \in cached' /\ ~Ender(t, x)'
                /\ Users(x)' = Users(x) \cup {t} /\ refs'[x] = refs[x] + 1
  <2>1. req'[t] = r /\ ~Ender(t, x)' /\ cached' = cached
    BY <1>7, SubmitMoves DEF Ender, IsEnd, Submit
  <2>2. t \in Users(x)' <=> pc'[t] # "done" /\ r.txn = x
    BY <1>7, <2>1, SubmitMoves DEF Users, Txn, Moves
  <2>3. CASE r.txn = x /\ x \in cached
    <3>0. x # NoTxn
      BY ScriptAssumption
    <3>1. pc'[t] # "done" /\ refs'[x] = refs[x] + 1
      <4>1. refs' = [refs EXCEPT ![x] = @ + 1] /\ pc' = [pc EXCEPT ![t] = "looked"]
        BY <1>7, <2>3, <3>0 DEF Submit
      <4>. QED  BY <1>0, <4>1, LocalTypes
    <3>. QED  BY <1>4, <1>5, <1>6, <2>1, <2>2, <2>3, <3>1
  <2>4. CASE ~(r.txn = x /\ x \in cached)
    <3>0. x # NoTxn
      BY ScriptAssumption
    <3>1. refs'[x] = refs[x]
      <4>1. refs' = refs \/ (r.txn # x /\ refs' = [refs EXCEPT ![r.txn] = @ + 1])
        BY <1>7, <2>4 DEF Submit
      <4>. QED  BY <1>0, <4>1
    <3>2. r.txn = x => pc'[t] = "done"
      <4>1. r.txn = x => pc' = [pc EXCEPT ![t] = "done"]
        BY <1>7, <2>4, <3>0 DEF Submit, Reject
      <4>. QED  BY <4>1, LocalTypes
    <3>3. t \notin Users(x)' /\ refs'[x] = refs[x]
      BY <2>2, <3>1, <3>2
    <3>. QED  BY <1>4, <1>5, <1>6, <2>1, <3>3
  <2>. QED  BY <2>3, <2>4
<1>8. ASSUME NEW x \in Txns, SubmitEnd(t, r)
      PROVE  \/ /\ Users(x)' = Users(x) /\ ~Ender(t, x)'
                /\ refs'[x] = refs[x] /\ (x \in cached' <=> x \in cached)
             \/ /\ x \in cached /\ x \notin cached' /\ Ender(t, x)'
                /\ Users(x)' = Users(x) \cup {t} /\ refs'[x] = refs[x] - 1
  <2>1. req'[t] = r /\ r.kind \in {"COMMIT", "ROLLBACK"} /\ errno[t] = "PENDING"
    BY <1>0, <1>3, <1>8, SubmitEndMoves DEF TaskOK
  <2>2. CASE r.txn = x /\ x \in cached
    <3>1. /\ pc'[t] = "closing" /\ errno'[t] = "PENDING" /\ cached' = cached \ {x}
          /\ refs'[x] = refs[x] - 1
      BY <1>0, <1>8, <2>1, <2>2, SubmitEndMoves DEF SubmitEnd, Moves
    <3>2. Ender(t, x)' /\ t \in Users(x)'
      BY <2>1, <2>2, <3>1 DEF Ender, IsEnd, Users, Txn
    <3>. QED  BY <1>4, <1>5, <1>6, <2>2, <3>1, <3>2
  <2>3. CASE ~(r.txn = x /\ x \in cached)
    <3>1. /\ refs'[x] = refs[x] /\ (x \in cached' <=> x \in cached)
          /\ r.txn = x => pc'[t] = "done" /\ errno'[t] = "TXN_NOT_FOUND"
      <4>1. /\ refs' = refs \/ (r.txn # x /\ refs' = [refs EXCEPT ![r.txn] = @ - 1])
            /\ cached' = cached \/ (r.txn # x /\ cached' = cached \ {r.txn})
            /\ r.txn = x => r.txn \notin cached
        BY <1>8, <2>3 DEF SubmitEnd
      <4>2. r.txn = x => pc'[t] = "done" /\ errno'[t] = "TXN_NOT_FOUND"
        BY <1>8, <4>1, SubmitEndMoves DEF Moves
      <4>. QED  BY <1>0, <4>1, <4>2
    <3>2. ~Ender(t, x)' /\ t \notin Users(x)'
      BY <2>1, <3>1 DEF Ender, Users, Txn
    <3>. QED  BY <1>4, <1>5, <1>6, <3>1, <3>2
  <2>. QED  BY <2>2, <2>3
<1>. QED  BY <1>2, <1>4, <1>7, <1>8 DEF Sends

\* A transaction is ended by one task, which has taken it out of the cache,
\* and nothing is done in one that does not exist yet.
LEMMA EndsOnceStep ==
  ASSUME Control, EndsOnce, [Next]_vars
  PROVE  EndsOnce'
<1>. USE DEF txnVars, objVars, taskVars, hist
<1>0. ShapeOK /\ tstate \in [Txns -> TxnStates] /\ group \in [Txns -> Seq(Objects)]
      /\ cached \subseteq Txns
  BY DEF Control, ShapeOK
<1>1. ASSUME NEW t \in Tasks, Serve(t) PROVE EndsOnce'
  <2>1. cached' = cached
    <3>1. CASE JoinTxn(t) \/ CloseTxn(t) \/ Check(t) \/ Take(t) \/ Read(t)
               \/ WriteFails(t) \/ Write(t) \/ Publish(t) \/ Release(t)
      BY <3>1 DEF JoinTxn, CloseTxn, Check, Take, Read, WriteFails, Write,
                  Publish, Release
    <3>2. CASE Notify(t) \/ LeaveTxn(t) \/ Unref(t) \/ TakeTxn(t) \/ Barrier(t)
               \/ MarkObject(t) \/ BarrierUp(t)
      BY <3>2 DEF Notify, LeaveTxn, Unref, TakeTxn, Barrier, MarkObject, BarrierUp
    <3>3. CASE LockObject(t) \/ Decide(t) \/ DoAtom(t) \/ Complete(t)
               \/ UnlockObject(t) \/ FinishEnd(t)
      BY <3>3 DEF LockObject, Decide, DoAtom, Complete, UnlockObject, FinishEnd
    <3>. QED  BY <1>1, <3>1, <3>2, <3>3 DEF Serve
  <2>2. \A x \in Txns : tstate'[x] = "NONE" => tstate[x] = "NONE"
    <3>1. CASE JoinTxn(t) \/ CloseTxn(t) \/ Check(t) \/ Take(t) \/ Read(t)
               \/ WriteFails(t) \/ Write(t) \/ Publish(t) \/ Release(t)
      BY <1>0, <3>1 DEF JoinTxn, CloseTxn, Check, Take, Read, WriteFails, Write,
                  Publish, Release
    <3>2. CASE Notify(t) \/ LeaveTxn(t) \/ Unref(t) \/ TakeTxn(t) \/ Barrier(t)
               \/ MarkObject(t) \/ BarrierUp(t)
      BY <3>2 DEF Notify, LeaveTxn, Unref, TakeTxn, Barrier, MarkObject, BarrierUp
    <3>3. CASE LockObject(t) \/ Decide(t) \/ DoAtom(t) \/ Complete(t)
               \/ UnlockObject(t) \/ FinishEnd(t)
      BY <1>0, <3>3 DEF LockObject, Decide, DoAtom, Complete, UnlockObject, FinishEnd
    <3>. QED  BY <1>1, <3>1, <3>2, <3>3 DEF Serve
  <2>3. ASSUME NEW x \in Txns, tstate[x] = "NONE" PROVE group'[x] = group[x]
    <3>1. t \notin Users(x)
      BY <2>3 DEF EndsOnce
    <3>2. Write(t) => Txn(t) # x
      BY <3>1 DEF Users, Write
    <3>3. CASE Write(t)
      BY <1>0, <3>2, <3>3 DEF Write
    <3>4. CASE ~Write(t)
      BY <1>1, <3>4, GroupsUnchanged
    <3>. QED  BY <3>3, <3>4
  <2>4. /\ \A u \in Tasks, x \in Txns : Ender(u, x)' <=> Ender(u, x)
        /\ \A x \in Txns : Users(x)' \subseteq Users(x)
    BY <1>1, ServeRoles
  <2>. QED  BY <2>1, <2>2, <2>3, <2>4 DEF EndsOnce
<1>2. ASSUME NEW t \in Tasks, NEW r \in Requests, Sends(t, r) PROVE EndsOnce'
  <2>1. tstate' = tstate /\ group' = group
    BY <1>2 DEF Sends, Submit, SubmitEnd
  <2>2. SUFFICES ASSUME NEW x \in Txns
        PROVE /\ \A u, v \in Tasks : Ender(u, x)' /\ Ender(v, x)' => u = v
              /\ x \in cached' => \A u \in Tasks : ~Ender(u, x)'
              /\ tstate'[x] = "NONE" =>
                   /\ x \notin cached' /\ group'[x] = <<>>
                   /\ \A u \in Tasks : ~Ender(u, x)' /\ u \notin Users(x)'
    BY DEF EndsOnce
  <2>3. \A u \in Tasks : u # t => (Ender(u, x)' <=> Ender(u, x))
    BY <1>2, SendRoles
  <2>4. CASE Users(x)' = Users(x) /\ ~Ender(t, x)' /\ (x \in cached' <=> x \in cached)
    BY <2>1, <2>3, <2>4 DEF EndsOnce
  <2>5. CASE x \in cached /\ x \in cached' /\ ~Ender(t, x)'
    BY <2>1, <2>3, <2>5 DEF EndsOnce
  <2>6. CASE x \in cached /\ x \notin cached' /\ Ender(t, x)'
    BY <2>1, <2>3, <2>6 DEF EndsOnce
  <2>. QED  BY <1>2, <2>4, <2>5, <2>6, SendRoles
<1>3. ASSUME NEW x \in Txns, Begin(x) PROVE EndsOnce'
  <2>1. /\ \A u \in Tasks, y \in Txns : Ender(u, y)' <=> Ender(u, y)
        /\ \A y \in Txns : Users(y)' = Users(y)
    BY <1>3 DEF Begin, Ender, IsEnd, Txn, Users
  <2>2. /\ tstate' = [tstate EXCEPT ![x] = "WAIT_COMMIT"]
        /\ cached' = cached \cup {x} /\ group' = group /\ tstate[x] = "NONE"
    BY <1>3 DEF Begin
  <2>. QED  BY <1>0, <2>1, <2>2 DEF EndsOnce
<1>4. CASE UNCHANGED vars
  BY <1>4 DEF vars, EndsOnce, Ender, IsEnd, Txn, Users
<1>. QED  BY <1>0, <1>1, <1>2, <1>3, <1>4, StepCases

\* A reference for each user, and two for the cache.
LEMMA CountedStep ==
  ASSUME Control, EndsOnce, Counted, [Next]_vars
  PROVE  Counted'
<1>. USE DEF txnVars, objVars, taskVars, hist
<1>0. ShapeOK /\ refs \in [Txns -> Int] /\ cached \subseteq Txns
  BY DEF Control, ShapeOK
<1>a. \A x \in Txns : Users(x) \in SUBSET Tasks
  BY DEF Users
<1>1. ASSUME NEW t \in Tasks, Serve(t) PROVE Counted'
  <2>1. CASE Unref(t)
    <3>1. pc[t] = "unref" /\ pc'[t] = "done" /\ Txn(t) \in Txns /\ cached' = cached
      BY <1>0, <2>1, UnrefMoves, TaskTxn DEF Moves, Walks, Unref, Control
    <3>2. ASSUME NEW x \in Txns
          PROVE  refs'[x] >= Cardinality(Users(x)') + (IF x \in cached' THEN 2 ELSE 0)
      <4>1. CASE x = Txn(t)
        <5>1. t \in Users(x) /\ t \notin Users(x)'
          BY <1>1, <3>1, <4>1 DEF Users
        <5>2. Users(x)' = Users(x) \ {t}
          BY <1>1, <5>1, ServeRoles
        <5>3. refs'[x] = refs[x] - 1
          BY <1>0, <2>1, <4>1 DEF Unref
        <5>4. Cardinality(Users(x)') = Cardinality(Users(x)) - 1
          BY <1>a, <5>1, <5>2, CountTasks
        <5>5. Cardinality(Users(x)) \in Nat
          BY <1>a, CountTasks
        <5>. QED  BY <1>0, <3>1, <5>3, <5>4, <5>5 DEF Counted
      <4>2. CASE x # Txn(t)
        <5>1. Users(x)' = Users(x) \/ Users(x)' = Users(x) \ {t}
          BY <1>1, ServeRoles
        <5>2. t \notin Users(x)
          BY <4>2 DEF Users
        <5>3. refs'[x] = refs[x]
          BY <1>0, <2>1, <4>2 DEF Unref
        <5>4. Users(x)' = Users(x)
          BY <5>1, <5>2
        <5>. QED  BY <3>1, <5>3, <5>4 DEF Counted
      <4>. QED  BY <4>1, <4>2
    <3>. QED  BY <3>2 DEF Counted
  <2>2. CASE ~Unref(t)
    <3>1. refs' = refs /\ cached' = cached
      <4>1. CASE JoinTxn(t) \/ CloseTxn(t) \/ Check(t) \/ Take(t) \/ Read(t)
                 \/ WriteFails(t) \/ Write(t) \/ Publish(t) \/ Release(t)
        BY <4>1 DEF JoinTxn, CloseTxn, Check, Take, Read, WriteFails, Write,
                    Publish, Release
      <4>2. CASE Notify(t) \/ LeaveTxn(t) \/ TakeTxn(t) \/ Barrier(t)
                 \/ MarkObject(t) \/ BarrierUp(t)
        BY <4>2 DEF Notify, LeaveTxn, TakeTxn, Barrier, MarkObject, BarrierUp
      <4>3. CASE LockObject(t) \/ Decide(t) \/ DoAtom(t) \/ Complete(t)
                 \/ UnlockObject(t) \/ FinishEnd(t)
        BY <4>3 DEF LockObject, Decide, DoAtom, Complete, UnlockObject, FinishEnd
      <4>. QED  BY <1>1, <2>2, <4>1, <4>2, <4>3 DEF Serve
    <3>2. ASSUME NEW x \in Txns
          PROVE  refs'[x] >= Cardinality(Users(x)') + (IF x \in cached' THEN 2 ELSE 0)
      <4>1. Users(x)' \subseteq Users(x)
        BY <1>1, ServeRoles
      <4>2. /\ Cardinality(Users(x)') <= Cardinality(Users(x))
            /\ Cardinality(Users(x)) \in Nat /\ Cardinality(Users(x)') \in Nat
        BY <1>a, <4>1, CountTasks
      <4>. QED  BY <1>0, <3>1, <4>2 DEF Counted
    <3>. QED  BY <3>2 DEF Counted
  <2>. QED  BY <2>1, <2>2
<1>2. ASSUME NEW t \in Tasks, NEW r \in Requests, Sends(t, r) PROVE Counted'
  <2>1. ASSUME NEW x \in Txns
        PROVE  refs'[x] >= Cardinality(Users(x)') + (IF x \in cached' THEN 2 ELSE 0)
    <3>1. /\ refs[x] >= Cardinality(Users(x)) + (IF x \in cached THEN 2 ELSE 0)
          /\ t \notin Users(x) /\ refs[x] \in Int /\ Cardinality(Users(x)) \in Nat
      BY <1>0, <1>2, <1>a, SendRoles, CountTasks DEF Counted
    <3>2. Cardinality(Users(x) \cup {t}) = Cardinality(Users(x)) + 1
      BY <1>a, <3>1, CountTasks
    <3>3. \/ Users(x)' = Users(x) /\ refs'[x] = refs[x] /\ (x \in cached' <=> x \in cached)
          \/ /\ x \in cached /\ x \in cached'
             /\ Users(x)' = Users(x) \cup {t} /\ refs'[x] = refs[x] + 1
          \/ /\ x \in cached /\ x \notin cached'
             /\ Users(x)' = Users(x) \cup {t} /\ refs'[x] = refs[x] - 1
      BY <1>2, SendRoles
    <3>4. CASE Users(x)' = Users(x) /\ refs'[x] = refs[x]
               /\ (x \in cached' <=> x \in cached)
      BY <3>1, <3>4
    <3>5. CASE x \in cached /\ x \in cached'
               /\ Users(x)' = Users(x) \cup {t} /\ refs'[x] = refs[x] + 1
      <4>1. Cardinality(Users(x)') = Cardinality(Users(x)) + 1
        BY <3>2, <3>5
      <4>. QED  BY <3>1, <3>5, <4>1
    <3>6. CASE x \in cached /\ x \notin cached'
               /\ Users(x)' = Users(x) \cup {t} /\ refs'[x] = refs[x] - 1
      <4>1. Cardinality(Users(x)') = Cardinality(Users(x)) + 1
        BY <3>2, <3>6
      <4>. QED  BY <3>1, <3>6, <4>1
    <3>. QED  BY <3>3, <3>4, <3>5, <3>6
  <2>. QED  BY <2>1 DEF Counted
<1>3. ASSUME NEW x \in Txns, Begin(x) PROVE Counted'
  <2>1. \A y \in Txns : Users(y)' = Users(y)
    BY <1>3 DEF Begin, Txn, Users
  <2>2. Users(x) = {}
    BY <1>3 DEF Begin, EndsOnce, Users
  <2>3. Cardinality(Users(x)) = 0
    BY <1>a, <2>2, CountTasks
  <2>4. refs' = [refs EXCEPT ![x] = 2] /\ cached' = cached \cup {x}
    BY <1>3 DEF Begin
  <2>. QED  BY <1>0, <2>1, <2>3, <2>4 DEF Counted
<1>4. CASE UNCHANGED vars
  BY <1>4 DEF vars, Counted, Txn, Users
<1>. QED  BY <1>0, <1>1, <1>2, <1>3, <1>4, StepCases

-----------------------------------------------------------------------------
\* Who is inside a transaction, who closes it and who has it alone: only five
\* steps change that, each for its own task.
LEMMA OtherInside ==
  ASSUME Control, NEW t \in Tasks, NEW u \in Tasks, u # t, NEW x \in Txns,
         Serve(t) \/ \E r \in Requests : Sends(t, r)
  PROVE  /\ InTxn(u, x)' <=> InTxn(u, x)
         /\ Closing(u, x)' <=> Closing(u, x)
         /\ Alone(u, x)' <=> Alone(u, x)
<1>1. Same(u)
  BY Frames
<1>2. IsOp(u)' = IsOp(u) /\ IsEnd(u)' = IsEnd(u) /\ Txn(u)' = Txn(u)
  BY <1>1 DEF IsOp, IsEnd, Txn, Same
<1>3. Ender(u, x)' <=> Ender(u, x)
  BY <1>1, <1>2 DEF Ender, Same
<1>. QED  BY <1>1, <1>2, <1>3 DEF InTxn, Closing, Alone, Same

LEMMA QuietInside ==
  ASSUME Control, NEW t \in Tasks, NEW x \in Txns,
         \/ \E r \in Requests : Sends(t, r)
         \/ /\ Serve(t)
            /\ ~(JoinTxn(t) \/ CloseTxn(t) \/ LeaveTxn(t) \/ TakeTxn(t) \/ FinishEnd(t))
  PROVE  /\ tword' = tword
         /\ InTxn(t, x)' <=> InTxn(t, x)
         /\ Closing(t, x)' <=> Closing(t, x)
         /\ Alone(t, x)' <=> Alone(t, x)
<1>. USE DEF txnVars, objVars, taskVars, hist, InTxn, Closing, Alone
<1>0. TaskOK(t) /\ ShapeOK /\ NoTxn \notin Txns /\ cached \subseteq Txns
  BY ScriptAssumption DEF Control, ShapeOK
<1>1. ASSUME NEW r \in Requests, Sends(t, r)
      PROVE  /\ tword' = tword
             /\ InTxn(t, x)' <=> InTxn(t, x)
             /\ Closing(t, x)' <=> Closing(t, x)
             /\ Alone(t, x)' <=> Alone(t, x)
  <2>1. tword' = tword
    BY <1>1 DEF Sends, Submit, SubmitEnd
  <2>2. ~InTxn(t, x) /\ ~Closing(t, x) /\ ~Alone(t, x)
    BY <1>1, SendRoles
  <2>3. CASE Submit(t, r)
    <3>1. ~IsEnd(t)' /\ (pc'[t] \in {"looked", "done"} \/ Txn(t)' = NoTxn)
      BY <2>3, SubmitMoves DEF Moves, IsEnd, Txn
    <3>. QED  BY <1>0, <2>1, <2>2, <3>1 DEF Ender
  <2>4. CASE SubmitEnd(t, r)
    <3>1. ~IsOp(t)' /\ pc'[t] \in {"closing", "done"}
      BY <2>4, SubmitEndMoves DEF Moves, IsOp
    <3>. QED  BY <2>1, <2>2, <3>1
  <2>. QED  BY <1>1, <2>3, <2>4 DEF Sends
<1>a. ASSUME Serve(t)
      PROVE  /\ IsOp(t)' <=> IsOp(t)
             /\ IsEnd(t)' <=> IsEnd(t)
             /\ Txn(t)' = Txn(t)
             /\ Ender(t, x)' <=> Ender(t, x)
             /\ IsOp(t) \/ IsEnd(t)
             /\ IsOp(t) => ~IsEnd(t) /\ OpOK(t)
             /\ IsEnd(t) => EndOK(t)
  BY <1>0, <1>a, ServeRoles, TaskFacts
<1>b. Ender(t, x) => IsEnd(t)
  BY DEF Ender
<1>. USE DEF Moves, Walks, OpOK, EndOK
<1>2. CASE Check(t) \/ Take(t) \/ Read(t) \/ WriteFails(t)
  <2>1. tword' = tword
    BY <1>2 DEF Check, Take, Read, WriteFails
  <2>2. Serve(t)
    BY <1>2 DEF Serve
  <2>. QED  BY <1>2, <1>a, <1>b, <2>1, <2>2, CheckMoves, TakeMoves, ReadMoves,
               WriteFailsMoves
<1>3. CASE Write(t) \/ Publish(t) \/ Release(t) \/ Notify(t) \/ Unref(t)
  <2>1. tword' = tword
    BY <1>3 DEF Write, Publish, Release, Notify, Unref
  <2>2. Serve(t)
    BY <1>3 DEF Serve
  <2>. QED  BY <1>0, <1>3, <1>a, <1>b, <2>1, <2>2, WriteMoves, PublishMoves,
               ReleaseMoves, NotifyMoves, UnrefMoves
<1>4. CASE Barrier(t) \/ MarkObject(t) \/ BarrierUp(t) \/ LockObject(t)
  <2>1. tword' = tword
    BY <1>4 DEF Barrier, MarkObject, BarrierUp, LockObject
  <2>2. Serve(t)
    BY <1>4 DEF Serve
  <2>. QED  BY <1>4, <1>a, <1>b, <2>1, <2>2, BarrierMoves, MarkObjectMoves,
               BarrierUpMoves, LockObjectMoves
<1>5. CASE Decide(t) \/ DoAtom(t) \/ Complete(t) \/ UnlockObject(t)
  <2>1. tword' = tword
    BY <1>5 DEF Decide, DoAtom, Complete, UnlockObject
  <2>2. Serve(t)
    BY <1>5 DEF Serve
  <2>. QED  BY <1>5, <1>a, <1>b, <2>1, <2>2, DecideMoves, DoAtomMoves,
               CompleteMoves, UnlockObjectMoves
<1>. QED  BY <1>1, <1>2, <1>3, <1>4, <1>5 DEF Serve

LEMMA TxnWordSame ==
  ASSUME NEW x \in Txns, TxnWordOK(x), tword'[x] = tword[x],
         \A u \in Tasks : /\ InTxn(u, x)' <=> InTxn(u, x)
                          /\ Closing(u, x)' <=> Closing(u, x)
                          /\ Alone(u, x)' <=> Alone(u, x)
  PROVE  TxnWordOK(x)'
<1>1. Inside(x)' = Inside(x)
  BY DEF Inside
<1>. QED  BY <1>1 DEF TxnWordOK

LEMMA TxnLockedStep ==
  ASSUME Control, EndsOnce, TxnLocked, [Next]_vars
  PROVE  TxnLocked'
<1>. USE DEF txnVars, objVars, taskVars, hist
<1>0. ShapeOK /\ tword \in [Txns -> Word] /\ \A t \in Tasks : TaskOK(t)
  BY DEF Control, ShapeOK
<1>a. \A x \in Txns :
        /\ tword[x].readers \in 0 .. MaxReaders /\ tword[x].flags \subseteq Flags
        /\ Inside(x) \in SUBSET Tasks /\ TxnWordOK(x)
  BY <1>0 DEF Word, Inside, TxnLocked
<1>s. ASSUME NEW t \in Tasks, Serve(t) \/ \E r \in Requests : Sends(t, r),
             NEW x \in Txns, NEW y \in Txns, tword' = [tword EXCEPT ![x] = tword'[x]],
             y # x,
             /\ InTxn(t, y)' <=> InTxn(t, y)
             /\ Closing(t, y)' <=> Closing(t, y)
             /\ Alone(t, y)' <=> Alone(t, y)
      PROVE  TxnWordOK(y)'
  <2>1. tword'[y] = tword[y]
    BY <1>0, <1>s
  <2>2. \A u \in Tasks : /\ InTxn(u, y)' <=> InTxn(u, y)
                         /\ Closing(u, y)' <=> Closing(u, y)
                         /\ Alone(u, y)' <=> Alone(u, y)
    BY <1>s, OtherInside
  <2>. QED  BY <1>a, <2>1, <2>2, TxnWordSame
<1>1. ASSUME NEW t \in Tasks,
             \/ \E r \in Requests : Sends(t, r)
             \/ /\ Serve(t)
                /\ ~(JoinTxn(t) \/ CloseTxn(t) \/ LeaveTxn(t) \/ TakeTxn(t) \/ FinishEnd(t))
      PROVE  TxnLocked'
  <2>1. ASSUME NEW x \in Txns PROVE TxnWordOK(x)'
    <3>1. \A u \in Tasks : /\ InTxn(u, x)' <=> InTxn(u, x)
                           /\ Closing(u, x)' <=> Closing(u, x)
                           /\ Alone(u, x)' <=> Alone(u, x)
      BY <1>1, OtherInside, QuietInside
    <3>2. tword' = tword
      BY <1>1, QuietInside
    <3>. QED  BY <1>a, <3>1, <3>2, TxnWordSame
  <2>. QED  BY <2>1 DEF TxnLocked
<1>2. ASSUME NEW t \in Tasks, Serve(t),
             JoinTxn(t) \/ CloseTxn(t) \/ LeaveTxn(t) \/ TakeTxn(t) \/ FinishEnd(t)
      PROVE  TxnLocked'
  <2>. DEFINE x == Txn(t)
  <2>0. /\ x \in Txns /\ Txn(t)' = x /\ TxnWordOK(x)
        /\ IsOp(t)' <=> IsOp(t)
        /\ IsEnd(t)' <=> IsEnd(t)
        /\ Ender(t, x)' <=> Ender(t, x)
        /\ IsOp(t) \/ IsEnd(t)
        /\ IsOp(t) => ~IsEnd(t) /\ OpOK(t)
        /\ IsEnd(t) => EndOK(t)
    <3>1. x \in Txns
      BY <1>0, <1>2, TaskTxn DEF JoinTxn, CloseTxn, LeaveTxn, TakeTxn, FinishEnd
    <3>. QED  BY <1>0, <1>2, <1>a, <3>1, ServeRoles, TaskFacts
  <2>1. \A u \in Tasks : u # t => /\ InTxn(u, x)' <=> InTxn(u, x)
                                  /\ Closing(u, x)' <=> Closing(u, x)
                                  /\ Alone(u, x)' <=> Alone(u, x)
    BY <1>2, <2>0, OtherInside
  <2>2. \A y \in Txns : y # x => TxnWordOK(y)'
    <3>1. ASSUME NEW y \in Txns, y # x
          PROVE  ~InTxn(t, y) /\ ~InTxn(t, y)' /\ ~Closing(t, y) /\ ~Closing(t, y)'
                 /\ ~Alone(t, y) /\ ~Alone(t, y)'
      BY <2>0, <3>1 DEF InTxn, Closing, Alone, Ender
    <3>2. tword' = [tword EXCEPT ![x] = tword'[x]]
      <4>1. \E s \in {tword[x], Acquired("READ", tword[x]), SetCommit(tword[x]),
                      Released("READ", tword[x]), Acquired("COMMIT", tword[x]),
                      Released("COMMIT", tword[x])} : tword' = [tword EXCEPT ![x] = s]
        BY <1>0, <1>2, <2>0 DEF JoinTxn, CloseTxn, LeaveTxn, TakeTxn, FinishEnd
      <4>. QED  BY <1>0, <2>0, <4>1
    <3>. QED  BY <1>2, <1>s, <2>0, <3>1, <3>2
  <2>. DEFINE s == tword[x]
  <2>3. /\ s.readers \in 0 .. MaxReaders /\ s.flags \subseteq Flags
        /\ s.readers = Cardinality(Inside(x)) /\ Inside(x) \in SUBSET Tasks
        /\ Inside(x)' \in SUBSET Tasks
        /\ s = [readers |-> s.readers, flags |-> s.flags]
    BY <1>0, <1>a, <2>0 DEF TxnWordOK, Inside, Word
  <2>4. t \in Inside(x) <=> InTxn(t, x)
    BY DEF Inside
  <2>5. /\ InTxn(t, x)' <=> InTxn(t, x) => Inside(x)' = Inside(x)
        /\ InTxn(t, x)' /\ ~InTxn(t, x) => Inside(x)' = Inside(x) \cup {t}
        /\ ~InTxn(t, x)' /\ InTxn(t, x) => Inside(x)' = Inside(x) \ {t}
    BY <2>1 DEF Inside
  <2>6. TxnWordOK(x)'
    <3>1. CASE JoinTxn(t)
      <4>1. pc[t] = "looked" /\ IsOp(t) /\ ~InTxn(t, x)
        BY <2>0, <3>1 DEF JoinTxn, EndOK, InTxn
      <4>2. ~Closing(t, x) /\ ~Closing(t, x)' /\ ~Alone(t, x) /\ ~Alone(t, x)'
        BY <2>0, <4>1 DEF Closing, Alone, Ender
      <4>3. CASE Granted("READ", s) /\ Walks(t, "ready")
                 /\ tword' = [tword EXCEPT ![x] = Acquired("READ", @)]
        <5>1. InTxn(t, x)' /\ Inside(x)' = Inside(x) \cup {t}
          BY <2>0, <2>5, <4>1, <4>3 DEF InTxn, Walks, Moves
        <5>2. /\ Cardinality(Inside(x)') = Cardinality(Inside(x)) + 1
              /\ Cardinality(Inside(x)') <= MaxReaders
          BY <2>3, <2>4, <4>1, <5>1, CountTasks
        <5>3. s.flags \subseteq {"WRITE"} /\ "COMMIT" \notin s.flags
          BY <4>3 DEF Granted
        <5>4. "WRITE" \notin s.flags
          BY <2>0, <5>3 DEF TxnWordOK, Alone
        <5>5. tword'[x] = [readers |-> s.readers + 1, flags |-> s.flags]
          <6>1. s.readers < MaxReaders
            BY <2>3, <5>2, MaxReadersAssumption
          <6>. QED  BY <1>0, <2>0, <4>3, <6>1 DEF Acquired, PlusOne
        <5>. QED  BY <2>0, <2>1, <2>3, <4>2, <5>2, <5>4, <5>5 DEF TxnWordOK
      <4>4. CASE pc'[t] = "done" /\ tword' = tword
        <5>1. ~InTxn(t, x)'
          BY <4>4 DEF InTxn
        <5>. QED  BY <2>0, <2>1, <4>1, <4>2, <4>4, <5>1, TxnWordSame
      <4>5. \/ Granted("READ", s) /\ Walks(t, "ready")
               /\ tword' = [tword EXCEPT ![x] = Acquired("READ", @)]
            \/ pc'[t] = "done" /\ tword' = tword
        BY <3>1, LocalTypes DEF JoinTxn, Reject, Walks, Moves
      <4>. QED  BY <4>3, <4>4, <4>5
    <3>2. CASE CloseTxn(t)
      <4>1. pc[t] = "closing" /\ IsEnd(t) /\ ~InTxn(t, x) /\ ~InTxn(t, x)' /\ Ender(t, x)
        BY <2>0, <3>2 DEF CloseTxn, OpOK, EndOK, InTxn, Ender
      <4>2. Closing(t, x)' /\ ~Alone(t, x) /\ ~Alone(t, x)'
        BY <2>0, <3>2, <4>1, CloseTxnMoves DEF Closing, Alone, Moves
      <4>3. tword'[x] = [readers |-> s.readers, flags |-> s.flags \cup {"COMMIT"}]
        BY <1>0, <2>0, <3>2 DEF CloseTxn, SetCommit, WithFlag
      <4>. QED  BY <2>0, <2>1, <2>3, <2>5, <4>1, <4>2, <4>3 DEF TxnWordOK
    <3>3. CASE LeaveTxn(t)
      <4>1. pc[t] = "leave" /\ IsOp(t) /\ InTxn(t, x) /\ ~InTxn(t, x)'
        BY <2>0, <3>3, LeaveTxnMoves DEF EndOK, InTxn, Moves, Walks
      <4>2. ~Closing(t, x) /\ ~Closing(t, x)' /\ ~Alone(t, x) /\ ~Alone(t, x)'
        BY <2>0, <4>1 DEF Closing, Alone, Ender
      <4>3. Inside(x)' = Inside(x) \ {t} /\ t \in Inside(x)
        BY <2>4, <2>5, <4>1
      <4>4. /\ Cardinality(Inside(x)') = Cardinality(Inside(x)) - 1
            /\ Cardinality(Inside(x)) > 0
        BY <2>3, <4>3, CountTasks
      <4>5. tword'[x] = [readers |-> s.readers - 1, flags |-> s.flags]
        BY <1>0, <2>0, <2>3, <3>3, <4>4 DEF LeaveTxn, Released, MinusOne
      <4>6. "WRITE" \notin s.flags
        BY <2>0, <2>3, <4>4 DEF TxnWordOK
      <4>. QED  BY <2>0, <2>1, <2>3, <4>2, <4>4, <4>5, <4>6 DEF TxnWordOK
    <3>4. CASE TakeTxn(t)
      <4>1. /\ pc[t] = "ready" /\ sched[t] = "ACQUIRE" /\ IsEnd(t)
            /\ ~InTxn(t, x) /\ ~InTxn(t, x)' /\ Ender(t, x)
            /\ Closing(t, x) /\ ~Alone(t, x)
        BY <2>0, <3>4 DEF TakeTxn, OpOK, EndOK, InTxn, Ender, Closing, Alone
      <4>2. CASE Granted("COMMIT", s) /\ pc'[t] = "ready" /\ sched'[t] = "BARRIER"
                 /\ tword' = [tword EXCEPT ![x] = Acquired("COMMIT", @)]
        <5>1. Closing(t, x)' /\ Alone(t, x)'
          BY <2>0, <4>1, <4>2 DEF Closing, Alone
        <5>2. s = Only({"COMMIT"}) /\ tword'[x] = Only({"COMMIT", "WRITE"})
          BY <1>0, <2>0, <4>2 DEF Granted, Acquired
        <5>3. Inside(x)' = Inside(x)
          BY <2>5, <4>1
        <5>. QED  BY <2>0, <2>1, <2>3, <5>1, <5>2, <5>3 DEF TxnWordOK, Only
      <4>3. CASE pc'[t] = "parked" /\ tword' = tword /\ sched'[t] = sched[t]
        <5>1. Closing(t, x)' /\ ~Alone(t, x)'
          BY <2>0, <4>1, <4>3 DEF Closing, Alone
        <5>. QED  BY <2>0, <2>1, <4>1, <4>3, <5>1, TxnWordSame
      <4>4. \/ Granted("COMMIT", s) /\ pc'[t] = "ready" /\ sched'[t] = "BARRIER"
               /\ tword' = [tword EXCEPT ![x] = Acquired("COMMIT", @)]
            \/ pc'[t] = "parked" /\ tword' = tword /\ sched'[t] = sched[t]
        BY <3>4, LocalTypes DEF TakeTxn
      <4>. QED  BY <4>2, <4>3, <4>4
    <3>5. CASE FinishEnd(t)
      <4>1. /\ IsEnd(t) /\ ~InTxn(t, x) /\ ~InTxn(t, x)' /\ Ender(t, x)
            /\ Closing(t, x) /\ Alone(t, x) /\ pc'[t] = "unref"
        BY <2>0, <3>5, FinishEndMoves
           DEF FinishEnd, OpOK, EndOK, InTxn, Ender, Closing, Alone, Moves, Walks
      <4>2. ~Closing(t, x)' /\ ~Alone(t, x)'
        BY <4>1 DEF Closing, Alone
      <4>3. \A u \in Tasks : u # t => ~Closing(u, x) /\ ~Alone(u, x)
        BY <2>0, <4>1 DEF EndsOnce, Closing, Alone
      <4>4. s.readers = 0 /\ tword'[x] = Only({})
        <5>1. s.readers = 0 /\ s.flags \cap {"LOCK"} = {}
          BY <2>0, <4>1 DEF TxnWordOK
        <5>. QED  BY <1>0, <2>0, <3>5, <5>1 DEF FinishEnd, Released
      <4>5. Inside(x)' = Inside(x)
        BY <2>5, <4>1
      <4>6. \A u \in Tasks : ~Closing(u, x)' /\ ~Alone(u, x)'
        BY <2>1, <4>2, <4>3
      <4>7. tword'[x].readers = Cardinality(Inside(x)') /\ tword'[x].flags = {}
        <5>1. tword'[x].readers = 0 /\ tword'[x].flags = {}
          BY <4>4 DEF Only
        <5>2. Cardinality(Inside(x)) = 0
          BY <2>3, <4>4
        <5>. QED  BY <4>5, <5>1, <5>2
      <4>. QED  BY <2>0, <4>4, <4>6, <4>7 DEF TxnWordOK
    <3>. QED  BY <1>2, <3>1, <3>2, <3>3, <3>4, <3>5
  <2>. QED  BY <2>0, <2>2, <2>6 DEF TxnLocked
<1>3. CASE UNCHANGED <<tword, taskVars>>
  <2>1. \A u \in Tasks, x \in Txns : /\ InTxn(u, x)' <=> InTxn(u, x)
                                     /\ Closing(u, x)' <=> Closing(u, x)
                                     /\ Alone(u, x)' <=> Alone(u, x)
    BY <1>3 DEF InTxn, Closing, Alone, Ender, IsOp, IsEnd, Txn
  <2>. QED  BY <1>3, <2>1, TxnWordSame DEF TxnLocked
<1>4. ASSUME NEW x \in Txns, Begin(x) PROVE TxnLocked'
  BY <1>3, <1>4 DEF Begin
<1>5. CASE UNCHANGED vars
  BY <1>3, <1>5 DEF vars
<1>. QED  BY <1>0, <1>1, <1>2, <1>4, <1>5, StepCases

\* Whoever has a transaction alone is alone in it, and is the one who ends it.
LEMMA AloneInside ==
  ASSUME Control, EndsOnce, TxnLocked, NEW t \in Tasks, NEW x \in Txns, Alone(t, x)
  PROVE  \A u \in Tasks : ~InTxn(u, x) /\ (Ender(u, x) => u = t)
<1>1. tword[x].readers = 0 /\ tword[x].readers = Cardinality(Inside(x))
  BY DEF TxnLocked, TxnWordOK
<1>2. Inside(x) \in SUBSET Tasks
  BY DEF Inside
<1>3. Inside(x) = {}
  BY <1>1, <1>2, CountTasks
<1>. QED  BY <1>3 DEF Inside, Alone, Closing, EndsOnce

-----------------------------------------------------------------------------
\* From the barrier on, a task has its transaction alone.
InBarrier(t) ==
  \/ pc[t] \in {"flagging", "atoms", "unlocking"}
  \/ pc[t] \in {"ready", "parked"} /\ sched[t] = "LOCK"

LEMMA BarrierAlone ==
  ASSUME Control, NEW t \in Tasks, InBarrier(t)
  PROVE  /\ IsEnd(t) /\ EndOK(t) /\ Txn(t) \in Txns
         /\ Alone(t, Txn(t)) /\ Ender(t, Txn(t))
<1>1. pc[t] # "new" /\ TaskOK(t) /\ ShapeOK
  BY DEF Control, InBarrier
<1>2. IsEnd(t) /\ EndOK(t) /\ Txn(t) \in Txns
  BY <1>1, TaskFacts DEF OpOK, InBarrier
<1>. QED  BY <1>2 DEF EndOK, InBarrier, Alone, Closing, Ender

LEMMA BarrierExcludes ==
  ASSUME Control, EndsOnce, TxnLocked, NEW t \in Tasks, NEW u \in Tasks,
         InBarrier(u)
  PROVE  /\ ~InTxn(t, Txn(u))
         /\ InBarrier(t) /\ Txn(t) = Txn(u) => t = u
BY BarrierAlone, AloneInside

\* The end of a transaction only goes forward.
LEMMA PastStays ==
  ASSUME Control, NEW t \in Tasks, NEW x \in Txns,
         Serve(t) \/ \E r \in Requests : Sends(t, r)
  PROVE  /\ \A P \in {{"unref", "done"}, {"unlocking", "unref", "done"}} :
              Past(x, P) => Past(x, P)'
         /\ \A i \in Nat : Todo(x, i)' => Todo(x, i)
<1>1. ASSUME NEW u \in Tasks, Ender(u, x)
      PROVE  /\ Ender(u, x)'
             /\ pc[u] \in {"unref", "done"} => pc'[u] \in {"unref", "done"}
             /\ pc[u] \in {"unlocking", "unref", "done"} =>
                  pc'[u] \in {"unlocking", "unref", "done"}
             /\ pc[u] = "atoms" => \/ pc'[u] \in {"unlocking", "unref", "done"}
                                   \/ /\ pc'[u] = "atoms"
                                      /\ idx'[u] \in {idx[u], idx[u] + 1}
  <2>0. idx \in [Tasks -> Nat]
    BY LocalTypes
  <2>1. CASE u # t
    <3>1. Same(u)
      BY <2>1, Frames
    <3>. QED  BY <1>1, <2>0, <3>1 DEF Same, Ender, IsEnd, Txn
  <2>2. CASE u = t
    <3>1. Serve(t)
      BY <1>1, <2>2, SendRoles
    <3>2. Ender(u, x)'
      BY <1>1, <2>2, <3>1, ServeRoles
    <3>3. CASE pc[t] \in {"unlocking", "unref", "done"}
      <4>1. Unref(t) \/ UnlockObject(t) \/ FinishEnd(t)
        BY <3>1, <3>3 DEF Serve, JoinTxn, CloseTxn, Check, Take, Read,
           WriteFails, Write, Publish, Release, Notify, LeaveTxn, TakeTxn,
           Barrier, MarkObject, BarrierUp, LockObject, Decide, DoAtom, Complete
      <4>2. pc'[t] = pc[t] \/ pc'[t] \in {"unref", "done"}
        BY <4>1, UnrefMoves, UnlockObjectMoves, FinishEndMoves DEF Moves, Walks
      <4>3. pc[t] = "unref" => pc'[t] \in {"unref", "done"}
        BY <4>1, UnrefMoves, UnlockObjectMoves, FinishEndMoves DEF Moves, Walks
      <4>. QED  BY <2>2, <3>2, <3>3, <4>2, <4>3
    <3>4. CASE pc[t] = "atoms"
      <4>1. DoAtom(t) \/ Complete(t)
        BY <3>1, <3>4 DEF Serve, JoinTxn, CloseTxn, Check, Take, Read,
           WriteFails, Write, Publish, Release, Notify, LeaveTxn, TakeTxn,
           Barrier, MarkObject, BarrierUp, LockObject, Decide, Unref,
           UnlockObject, FinishEnd
      <4>2. \/ pc'[t] = "atoms" /\ idx'[t] = idx[t] + 1
            \/ pc'[t] = "unlocking"
        BY <3>4, <4>1, DoAtomMoves, CompleteMoves DEF Moves
      <4>. QED  BY <2>2, <3>2, <3>4, <4>2
    <3>. QED  BY <2>2, <3>2, <3>3, <3>4
  <2>. QED  BY <2>1, <2>2
<1>2. \A P \in {{"unref", "done"}, {"unlocking", "unref", "done"}} :
        Past(x, P) => Past(x, P)'
  BY <1>1 DEF Past
<1>3. ASSUME NEW i \in Nat, Todo(x, i)' PROVE Todo(x, i)
  <2>1. ~Past(x, {"unlocking", "unref", "done"})
    BY <1>2, <1>3 DEF Todo
  <2>2. ASSUME NEW u \in Tasks, Ender(u, x), pc[u] = "atoms" PROVE i >= idx[u]
    <3>1. pc'[u] \notin {"unlocking", "unref", "done"}
      BY <1>1, <1>3, <2>2 DEF Todo, Past
    <3>2. i >= idx'[u] /\ idx'[u] \in {idx[u], idx[u] + 1}
      BY <1>1, <1>3, <2>2, <3>1 DEF Todo
    <3>3. idx[u] \in Nat
      BY LocalTypes
    <3>. QED  BY <3>2, <3>3
  <2>. QED  BY <2>1, <2>2 DEF Todo
<1>. QED  BY <1>2, <1>3

\* The owner of a number changes when it is written and when its atom is done.
LEMMA OwnersStay ==
  ASSUME Control, NEW t \in Tasks, ~Write(t), ~DoAtom(t),
         Serve(t) \/ \E r \in Requests : Sends(t, r)
  PROVE  \A o \in Objects : num'[o].owner = num[o].owner
<1>. USE DEF objVars
<1>0. NumbersOK /\ ShapeOK /\ TaskOK(t)
  BY DEF Control, ShapeOK
<1>1. CASE \E r \in Requests : Sends(t, r)
  BY <1>1 DEF Sends, Submit, SubmitEnd
<1>2. CASE JoinTxn(t) \/ CloseTxn(t) \/ Check(t) \/ Take(t) \/ Read(t)
           \/ WriteFails(t) \/ Release(t)
  BY <1>2 DEF JoinTxn, CloseTxn, Check, Take, Read, WriteFails, Release
<1>3. CASE Notify(t) \/ LeaveTxn(t) \/ Unref(t) \/ TakeTxn(t) \/ Barrier(t)
           \/ MarkObject(t) \/ BarrierUp(t)
  BY <1>3 DEF Notify, LeaveTxn, Unref, TakeTxn, Barrier, MarkObject, BarrierUp
<1>4. CASE LockObject(t) \/ Decide(t) \/ UnlockObject(t) \/ FinishEnd(t)
  BY <1>4 DEF LockObject, Decide, UnlockObject, FinishEnd
<1>5. CASE Publish(t) \/ Complete(t)
  <2>1. \A o \in Objects : num'[o] = num[o] \/ num'[o] = Commit(num[o])
    <3>1. CASE Publish(t)
      BY <1>0, <3>1, TaskTxn DEF Publish, NumbersOK
    <3>2. CASE Complete(t)
      BY <3>2 DEF Complete
    <3>. QED  BY <1>5, <3>1, <3>2
  <2>. QED  BY <1>0, <2>1, CommitShape DEF NumbersOK
<1>. QED  BY <1>1, <1>2, <1>3, <1>4, <1>5 DEF Serve

\* What a write and an atom do to the owners and the groups.
LEMMA WriteOwner ==
  ASSUME Control, NEW t \in Tasks, Write(t)
  PROVE  /\ IsOp(t) /\ Obj(t) \in Objects /\ Txn(t) \in Txns \cup {NoTxn}
         /\ num[Obj(t)].owner \in {NoTxn, Txn(t)}
         /\ num'[Obj(t)].owner = Txn(t)
         /\ \A o \in Objects : o # Obj(t) => num'[o] = num[o]
         /\ \A x \in Txns : x # Txn(t) => group'[x] = group[x]
         /\ Txn(t) \in Txns =>
              /\ InTxn(t, Txn(t))
              /\ num[Obj(t)].owner = Txn(t) => group' = group
              /\ num[Obj(t)].owner # Txn(t) =>
                   group'[Txn(t)] = Append(group[Txn(t)], Obj(t))
         /\ Txn(t) = NoTxn => group' = group
         /\ num'[Obj(t)].read = num[Obj(t)].read
         /\ num'[Obj(t)].write = Result(num[Obj(t)].write, req[t].f)
         /\ UNCHANGED <<pending, req>>
<1>0. /\ NumbersOK /\ ShapeOK /\ TaskOK(t) /\ group \in [Txns -> Seq(Objects)]
      /\ NoTxn \notin Txns
  BY ScriptAssumption DEF Control, ShapeOK
<1>1. IsOp(t) /\ Obj(t) \in Objects /\ Txn(t) \in Txns \cup {NoTxn}
  BY <1>0, TaskTxn DEF Write
<1>2. num[Obj(t)].owner \in {NoTxn, Txn(t)}
  BY DEF Write, Errno
<1>3. /\ num'[Obj(t)] = Mutate(num[Obj(t)], Txn(t), req[t].f)
      /\ \A o \in Objects : o # Obj(t) => num'[o] = num[o]
  BY <1>0, <1>1 DEF Write, NumbersOK
<1>4. /\ num'[Obj(t)].owner = Txn(t) /\ num'[Obj(t)].read = num[Obj(t)].read
      /\ num'[Obj(t)].write = Result(num[Obj(t)].write, req[t].f)
  BY <1>3 DEF Mutate
<1>5. Txn(t) \in Txns => InTxn(t, Txn(t))
  BY <1>1 DEF InTxn, Write
<1>6. /\ \A x \in Txns : x # Txn(t) => group'[x] = group[x]
      /\ Txn(t) = NoTxn => group' = group
      /\ Txn(t) \in Txns =>
           /\ num[Obj(t)].owner = Txn(t) => group' = group
           /\ num[Obj(t)].owner # Txn(t) =>
                group'[Txn(t)] = Append(group[Txn(t)], Obj(t))
  <2>1. group' = IF Txn(t) # NoTxn /\ num[Obj(t)].owner # Txn(t)
                 THEN [group EXCEPT ![Txn(t)] = Append(@, Obj(t))] ELSE group
    <3>1. group' = IF AddsAtom(num[Obj(t)], Txn(t))
                   THEN [group EXCEPT ![Txn(t)] = Append(@, Obj(t))] ELSE group
      BY DEF Write
    <3>. QED  BY <3>1 DEF AddsAtom
  <2>. QED  BY <1>0, <2>1
<1>. QED  BY <1>1, <1>2, <1>3, <1>4, <1>5, <1>6 DEF Write

LEMMA DoAtomOwner ==
  ASSUME Control, NEW t \in Tasks, DoAtom(t)
  PROVE  /\ InBarrier(t) /\ Txn(t) \in Txns /\ Here(t) \in Objects
         /\ idx[t] \in DOMAIN group[Txn(t)] /\ Here(t) = group[Txn(t)][idx[t]]
         /\ num'[Here(t)].owner = NoTxn
         /\ num'[Here(t)].write = num'[Here(t)].read
         /\ num'[Here(t)].read = IF ctype[t] = "APPLY" THEN num[Here(t)].write
                                 ELSE num[Here(t)].read
         /\ \A o \in Objects : o # Here(t) => num'[o] = num[o]
         /\ pc[t] = "atoms" /\ pc' = pc /\ idx'[t] = idx[t] + 1
         /\ UNCHANGED <<pending, req, group>>
<1>. USE DEF txnVars
<1>0. NumbersOK /\ ShapeOK /\ TaskOK(t)
  BY DEF Control, ShapeOK
<1>1. /\ InBarrier(t) /\ Txn(t) \in Txns /\ Here(t) \in Objects
      /\ idx[t] \in DOMAIN group[Txn(t)] /\ Here(t) = group[Txn(t)][idx[t]]
  BY <1>0, TaskTxn, TaskHere DEF DoAtom, InBarrier, Groups, Here
<1>2. /\ num'[Here(t)] = IF ctype[t] = "APPLY" THEN Apply(num[Here(t)])
                         ELSE Revert(num[Here(t)])
      /\ \A o \in Objects : o # Here(t) => num'[o] = num[o]
  BY <1>0, <1>1 DEF DoAtom, NumbersOK
<1>3. /\ num'[Here(t)].owner = NoTxn
      /\ num'[Here(t)].write = num'[Here(t)].read
      /\ num'[Here(t)].read = IF ctype[t] = "APPLY" THEN num[Here(t)].write
                              ELSE num[Here(t)].read
  BY <1>2 DEF Apply, Revert
<1>. QED  BY <1>1, <1>2, <1>3, DoAtomMoves DEF DoAtom, Moves

Grouped == GroupsOnce /\ AtomOwned /\ MarksHeld

LEMMA GroupsOnceStep ==
  ASSUME Control, EndsOnce, TxnLocked, Grouped, NEW t \in Tasks,
         Serve(t) \/ \E r \in Requests : Sends(t, r)
  PROVE  GroupsOnce'
<1>0. group \in [Txns -> Seq(Objects)] /\ NoTxn \notin Txns
  BY ScriptAssumption DEF Control, ShapeOK
<1>. SUFFICES ASSUME NEW x \in Txns, ~Past(x, {"unref", "done"})',
                     NEW i \in DOMAIN group'[x], NEW j \in DOMAIN group'[x],
                     group'[x][i] = group'[x][j]
              PROVE  i = j
  BY DEF GroupsOnce
<1>1. ~Past(x, {"unref", "done"})
  BY PastStays
<1>2. CASE group'[x] = group[x]
  BY <1>1, <1>2 DEF Grouped, GroupsOnce
<1>3. CASE group'[x] # group[x]
  <2>1. Write(t)
    BY <1>3, GroupsUnchanged
  <2>2. x = Txn(t)
    BY <1>3, <2>1, WriteOwner
  <2>3. /\ InTxn(t, x) /\ Obj(t) \in Objects /\ num[Obj(t)].owner # x
        /\ group'[x] = Append(group[x], Obj(t))
    BY <1>3, <2>1, <2>2, WriteOwner
  <2>4. \A k \in DOMAIN group[x] : group[x][k] # Obj(t)
    <3>1. ASSUME NEW k \in DOMAIN group[x] PROVE Todo(x, k)
      <4>1. ASSUME NEW u \in Tasks, Ender(u, x)
            PROVE  pc[u] \notin {"unlocking", "unref", "done", "atoms"}
        <5>1. pc[u] \notin {"unref", "done"}
          BY <1>1, <4>1 DEF Past
        <5>2. ~InBarrier(u)
          BY <2>3, <4>1, BarrierExcludes DEF Ender
        <5>. QED  BY <5>1, <5>2 DEF InBarrier
      <4>. QED  BY <4>1 DEF Todo, Past
    <3>. QED  BY <2>3, <3>1 DEF Grouped, AtomOwned
  <2>5. /\ group[x] \in Seq(Objects)
        /\ \A k, l \in DOMAIN group[x] : group[x][k] = group[x][l] => k = l
    BY <1>0, <1>1 DEF Grouped, GroupsOnce
  <2>. QED  BY <2>3, <2>4, <2>5
<1>. QED  BY <1>2, <1>3

LEMMA AtomOwnedStep ==
  ASSUME Control, EndsOnce, TxnLocked, Grouped, NEW t \in Tasks,
         Serve(t) \/ \E r \in Requests : Sends(t, r)
  PROVE  AtomOwned'
<1>0. group \in [Txns -> Seq(Objects)] /\ NoTxn \notin Txns
  BY ScriptAssumption DEF Control, ShapeOK
<1>. SUFFICES ASSUME NEW x \in Txns, NEW i \in DOMAIN group'[x], Todo(x, i)'
              PROVE  num'[group'[x][i]].owner = x
  BY DEF AtomOwned
<1>a. \A k \in DOMAIN group[x] : group[x][k] \in Objects /\ k \in Nat
  BY <1>0
<1>b. i \in DOMAIN group[x] =>
        /\ Todo(x, i) /\ group'[x][i] = group[x][i]
        /\ group[x][i] \in Objects /\ num[group[x][i]].owner = x
  BY <1>a, PastStays, GroupsGrow DEF Grouped, AtomOwned
<1>1. CASE ~Write(t) /\ ~DoAtom(t)
  <2>1. group' = group /\ \A o \in Objects : num'[o].owner = num[o].owner
    BY <1>1, GroupsUnchanged, OwnersStay
  <2>. QED  BY <1>b, <2>1
<1>2. CASE Write(t)
  <2>1. CASE i \in DOMAIN group[x]
    BY <1>0, <1>2, <1>b, <2>1, WriteOwner
  <2>2. CASE i \notin DOMAIN group[x]
    <3>1. x = Txn(t) /\ group'[x] = Append(group[x], Obj(t))
      BY <1>2, <2>2, WriteOwner
    <3>2. group'[x][i] = Obj(t)
      BY <1>0, <1>2, <2>2, <3>1, WriteOwner
    <3>. QED  BY <1>2, <3>1, <3>2, WriteOwner
  <2>. QED  BY <2>1, <2>2
<1>3. CASE DoAtom(t)
  <2>1. /\ group' = group /\ InBarrier(t) /\ Txn(t) \in Txns
        /\ idx[t] \in DOMAIN group[Txn(t)] /\ Here(t) = group[Txn(t)][idx[t]]
    BY <1>3, DoAtomOwner
  <2>2. Ender(t, Txn(t)) /\ pc[t] = "atoms" /\ pc'[t] = "atoms" /\ idx'[t] = idx[t] + 1
    BY <1>3, <2>1, BarrierAlone, DoAtomOwner
  <2>3. Ender(t, Txn(t))' /\ Txn(t)' = Txn(t)
    BY <1>3, <2>1, <2>2, ServeRoles DEF Serve
  <2>4. \A u \in Tasks : Ender(u, Txn(t)) => u = t
    BY <2>1, <2>2 DEF EndsOnce
  <2>5. Todo(Txn(t), idx[t])
    <3>1. idx[t] \in Nat
      BY LocalTypes
    <3>. QED  BY <2>2, <2>4, <3>1 DEF Todo, Past
  <2>6. num[Here(t)].owner = Txn(t)
    BY <2>1, <2>5 DEF Grouped, AtomOwned
  <2>7. CASE x = Txn(t)
    <3>1. i # idx[t]
      <4>1. i >= idx[t] + 1
        BY <2>2, <2>3, <2>7 DEF Todo
      <4>2. idx[t] \in Nat /\ i \in Nat
        BY <1>a, <2>1, LocalTypes
      <4>. QED  BY <4>1, <4>2
    <3>2. ~Past(x, {"unref", "done"})
      BY <2>2, <2>4, <2>7 DEF Past
    <3>3. group[x][i] # Here(t)
      BY <2>1, <2>7, <3>1, <3>2 DEF Grouped, GroupsOnce
    <3>. QED  BY <1>3, <1>b, <2>1, <3>3, DoAtomOwner
  <2>8. CASE x # Txn(t)
    <3>1. group[x][i] # Here(t)
      BY <1>b, <2>1, <2>6, <2>8
    <3>. QED  BY <1>3, <1>b, <2>1, <3>1, DoAtomOwner
  <2>. QED  BY <2>7, <2>8
<1>. QED  BY <1>1, <1>2, <1>3

\* The steps after which a task is in the barrier.
LEMMA IntoBarrier ==
  ASSUME Control, NEW t \in Tasks, InBarrier(t)',
         Serve(t) \/ \E r \in Requests : Sends(t, r)
  PROVE  /\ \/ Barrier(t) \/ MarkObject(t) \/ BarrierUp(t) \/ LockObject(t)
            \/ Decide(t) \/ DoAtom(t) \/ Complete(t) \/ UnlockObject(t)
         /\ IsEnd(t) /\ EndOK(t) /\ Txn(t) \in Txns
         /\ req' = req /\ group' = group
         /\ InBarrier(t) \/ Barrier(t)
<1>0. ShapeOK /\ TaskOK(t)
  BY DEF Control
<1>1. ASSUME NEW r \in Requests, Sends(t, r) PROVE FALSE
  <2>1. sched[t] = "NONE"
    BY <1>0, <1>1, SubmitMoves, SubmitEndMoves DEF Sends, TaskOK
  <2>. QED  BY <1>1, <2>1, SubmitMoves, SubmitEndMoves DEF Sends, Moves, InBarrier
<1>2. ~JoinTxn(t) /\ ~CloseTxn(t) /\ ~Check(t) /\ ~Take(t)
  <2>1. JoinTxn(t) => sched[t] # "LOCK"
    BY <1>0, JoinTxnMoves, TaskFacts DEF OpOK, EndOK
  <2>2. Take(t) => sched[t] # "LOCK"
    BY <1>0, TakeMoves, TaskTxn
  <2>. QED  BY <2>1, <2>2, JoinTxnMoves, CloseTxnMoves, CheckMoves, TakeMoves
               DEF Moves, Walks, InBarrier
<1>3. ~Read(t) /\ ~WriteFails(t) /\ ~Write(t) /\ ~Publish(t) /\ ~Release(t)
  <2>1. Release(t) => sched[t] # "LOCK"
    BY <1>0, ReleaseMoves, TaskTxn
  <2>. QED  BY <2>1, ReadMoves, WriteFailsMoves, WriteMoves, PublishMoves,
               ReleaseMoves DEF Moves, Walks, InBarrier
<1>4. ~Notify(t) /\ ~LeaveTxn(t) /\ ~Unref(t) /\ ~TakeTxn(t) /\ ~FinishEnd(t)
  BY NotifyMoves, LeaveTxnMoves, UnrefMoves, TakeTxnMoves, FinishEndMoves
     DEF Moves, Walks, InBarrier
<1>5. \/ Barrier(t) \/ MarkObject(t) \/ BarrierUp(t) \/ LockObject(t)
      \/ Decide(t) \/ DoAtom(t) \/ Complete(t) \/ UnlockObject(t)
  BY <1>1, <1>2, <1>3, <1>4 DEF Serve
<1>6. group' = group
  BY <1>3, GroupsUnchanged
<1>7. /\ InBarrier(t) \/ (pc[t] = "ready" /\ sched[t] = "BARRIER")
      /\ req' = req /\ (InBarrier(t) \/ Barrier(t))
  BY <1>5, BarrierMoves, MarkObjectMoves, BarrierUpMoves, LockObjectMoves,
     DecideMoves, DoAtomMoves, CompleteMoves, UnlockObjectMoves DEF InBarrier
<1>8. IsEnd(t) /\ EndOK(t) /\ Txn(t) \in Txns
  BY <1>0, <1>7, TaskFacts DEF OpOK, InBarrier
<1>. QED  BY <1>5, <1>6, <1>7, <1>8

\* Only the manager's task marks and unmarks objects.
LEMMA PendingStays ==
  ASSUME NEW t \in Tasks, ~MarkObject(t), ~UnlockObject(t),
         Serve(t) \/ \E r \in Requests : Sends(t, r)
  PROVE  pending' = pending
<1>. USE DEF objVars
<1>1. CASE \E r \in Requests : Sends(t, r)
  BY <1>1 DEF Sends, Submit, SubmitEnd
<1>2. CASE JoinTxn(t) \/ CloseTxn(t) \/ Check(t) \/ Take(t) \/ Read(t)
           \/ WriteFails(t) \/ Release(t) \/ Write(t) \/ Publish(t)
  BY <1>2 DEF JoinTxn, CloseTxn, Check, Take, Read, WriteFails, Release, Write,
              Publish
<1>3. CASE Notify(t) \/ LeaveTxn(t) \/ Unref(t) \/ TakeTxn(t) \/ Barrier(t)
           \/ BarrierUp(t)
  BY <1>3 DEF Notify, LeaveTxn, Unref, TakeTxn, Barrier, BarrierUp
<1>4. CASE LockObject(t) \/ Decide(t) \/ DoAtom(t) \/ Complete(t) \/ FinishEnd(t)
  BY <1>4 DEF LockObject, Decide, DoAtom, Complete, FinishEnd
<1>. QED  BY <1>1, <1>2, <1>3, <1>4 DEF Serve

\* The marks of one task.
MarksOf(u) ==
  \A i \in DOMAIN Groups(u) :
    /\ MarkedAt(u, i) => pending[Groups(u)[i]] = Txn(u)
    /\ pc[u] = "flagging" /\ i >= idx[u] => pending[Groups(u)[i]] = NoTxn

\* A step of another task leaves the marks of a task alone.
LEMMA OtherMarks ==
  ASSUME Control, EndsOnce, TxnLocked, Grouped, NEW t \in Tasks,
         NEW u \in Tasks, u # t, InBarrier(u),
         Serve(t) \/ \E r \in Requests : Sends(t, r)
  PROVE  MarksOf(u)'
<1>0. /\ ShapeOK /\ TaskOK(t) /\ ManagerOK /\ group \in [Txns -> Seq(Objects)]
      /\ pending \in [Objects -> Txns \cup {NoTxn}] /\ NoTxn \notin Txns
  BY ScriptAssumption DEF Control, ShapeOK
<1>1. Same(u)
  BY Frames
<1>2. IsEnd(u) /\ Txn(u) \in Txns /\ Txn(u)' = Txn(u)
  BY <1>1, BarrierAlone DEF Same, Txn
<1>3. Groups(u)' = Groups(u)
  <2>1. CASE Write(t)
    <3>1. Txn(t) # Txn(u)
      BY <1>2, <2>1, BarrierExcludes, WriteOwner
    <3>. QED  BY <1>2, <2>1, <3>1, WriteOwner DEF Groups
  <2>2. CASE ~Write(t)
    BY <1>2, <2>2, GroupsUnchanged DEF Groups
  <2>. QED  BY <2>1, <2>2
<1>4. \A i : /\ MarkedAt(u, i)' <=> MarkedAt(u, i)
             /\ pc'[u] = "flagging" /\ i >= idx'[u] <=> pc[u] = "flagging" /\ i >= idx[u]
  BY <1>1 DEF Same, MarkedAt
<1>5. MarksOf(u) /\ \A i \in DOMAIN Groups(u) : Groups(u)[i] \in Objects
  <2>1. MarksOf(u)
    BY <1>2 DEF Grouped, MarksHeld, MarksOf
  <2>. QED  BY <1>0, <1>2, <2>1 DEF Groups
<1>6. CASE pending' = pending
  BY <1>2, <1>3, <1>4, <1>5, <1>6 DEF MarksOf
<1>7. CASE MarkObject(t) \/ UnlockObject(t)
  <2>1. /\ InBarrier(t) /\ idx[t] <= Len(Groups(t))
        /\ pc[t] \in {"flagging", "unlocking"}
    BY <1>7, MarkObjectMoves, UnlockObjectMoves DEF InBarrier
  <2>2. Here(t) \in Objects /\ idx[t] \in DOMAIN Groups(t)
    BY <1>0, <2>1, TaskHere
  <2>3. pc[u] # "flagging"
    BY <1>0, <2>1 DEF ManagerOK
  <2>4. IsEnd(t) /\ Txn(t) \in Txns /\ idx[t] \in Nat
    BY <2>1, BarrierAlone, LocalTypes
  <2>5. pending[Here(t)] # Txn(u)
    <3>1. CASE MarkObject(t)
      <4>1. pending[Here(t)] = NoTxn
        BY <2>2, <2>4, <3>1, MarkObjectMoves DEF Grouped, MarksHeld, Here
      <4>. QED  BY <1>0, <1>2, <4>1
    <3>2. CASE UnlockObject(t)
      <4>1. MarkedAt(t, idx[t])
        BY <2>4, <3>2, UnlockObjectMoves DEF MarkedAt
      <4>2. pending[Here(t)] = Txn(t)
        BY <2>2, <2>4, <4>1 DEF Grouped, MarksHeld, Here
      <4>. QED  BY <2>1, <4>2, BarrierExcludes
    <3>. QED  BY <1>7, <3>1, <3>2
  <2>6. \A o \in Objects : o # Here(t) => pending'[o] = pending[o]
    BY <1>0, <1>7 DEF MarkObject, UnlockObject
  <2>7. ASSUME NEW i \in DOMAIN Groups(u), MarkedAt(u, i)
        PROVE  pending'[Groups(u)[i]] = Txn(u)
    BY <1>5, <2>5, <2>6, <2>7 DEF MarksOf
  <2>. QED  BY <1>2, <1>3, <1>4, <2>3, <2>7 DEF MarksOf
<1>. QED  BY <1>6, <1>7, PendingStays

\* A step of the barrier keeps the marks of its own task.
LEMMA OwnMarks ==
  ASSUME Control, EndsOnce, TxnLocked, Grouped, NEW t \in Tasks, InBarrier(t)',
         Serve(t) \/ \E r \in Requests : Sends(t, r)
  PROVE  MarksOf(t)'
<1>0. /\ ShapeOK /\ TaskOK(t) /\ group \in [Txns -> Seq(Objects)]
      /\ pending \in [Objects -> Txns \cup {NoTxn}] /\ NoTxn \notin Txns
  BY ScriptAssumption DEF Control, ShapeOK
<1>1. IsEnd(t) /\ EndOK(t) /\ Txn(t) \in Txns
  BY IntoBarrier
<1>2. Txn(t)' = Txn(t) /\ Groups(t)' = Groups(t)
  BY IntoBarrier DEF Txn, Groups
<1>3. /\ idx[t] \in Nat /\ idx[t] >= 1 /\ Len(Groups(t)) \in Nat
      /\ \A i \in DOMAIN Groups(t) :
           i \in Nat /\ i <= Len(Groups(t)) /\ i >= 1 /\ Groups(t)[i] \in Objects
  BY <1>0, <1>1, LocalTypes DEF Groups, EndOK
<1>4. MarksOf(t)
  BY <1>1 DEF Grouped, MarksHeld, MarksOf
<1>5. CASE Barrier(t)
  <2>1. \A i \in DOMAIN Groups(t) : pending[Groups(t)[i]] = NoTxn
    BY <1>5 DEF Barrier
  <2>2. pc'[t] = "flagging" /\ idx'[t] = 1
    BY <1>1, <1>5, BarrierMoves DEF Walks, Moves, EndOK
  <2>3. pending' = pending
    BY <1>5 DEF Barrier, objVars
  <2>4. \A i \in DOMAIN Groups(t) : ~MarkedAt(t, i)'
    BY <1>3, <2>2 DEF MarkedAt
  <2>. QED  BY <1>2, <2>1, <2>3, <2>4 DEF MarksOf
<1>6. CASE MarkObject(t) \/ UnlockObject(t)
  <2>1. /\ idx[t] <= Len(Groups(t)) /\ pc[t] \in {"flagging", "unlocking"}
        /\ pc'[t] = pc[t] /\ idx'[t] = idx[t] + 1 /\ sched'[t] = sched[t]
        /\ MarkObject(t) => pc[t] = "flagging"
        /\ UnlockObject(t) => pc[t] = "unlocking"
    BY <1>6, MarkObjectMoves, UnlockObjectMoves DEF Moves
  <2>2. Here(t) \in Objects /\ idx[t] \in DOMAIN Groups(t)
    BY <1>0, <2>1, TaskHere
  <2>3. /\ \A o \in Objects : o # Here(t) => pending'[o] = pending[o]
        /\ MarkObject(t) => pending'[Here(t)] = Txn(t)
    BY <1>0, <1>6, <2>2 DEF MarkObject, UnlockObject
  <2>4. \A i \in DOMAIN Groups(t) : i # idx[t] => Groups(t)[i] # Here(t)
    <3>1. InBarrier(t) /\ ~Past(Txn(t), {"unref", "done"})
      <4>1. InBarrier(t)
        BY <2>1 DEF InBarrier
      <4>2. \A u \in Tasks : Ender(u, Txn(t)) => u = t
        BY <1>1, <4>1, BarrierAlone DEF EndsOnce
      <4>. QED  BY <2>1, <4>1, <4>2 DEF Past
    <3>2. \A i, j \in DOMAIN Groups(t) : Groups(t)[i] = Groups(t)[j] => i = j
      BY <1>1, <3>1 DEF Grouped, GroupsOnce, Groups
    <3>. QED  BY <2>2, <3>2 DEF Here
  <2>5. ASSUME NEW i \in DOMAIN Groups(t), MarkedAt(t, i)'
        PROVE  pending'[Groups(t)[i]] = Txn(t)
    <3>1. CASE MarkObject(t) /\ i = idx[t]
      BY <2>3, <3>1 DEF Here
    <3>2. CASE i # idx[t]
      <4>1. MarkedAt(t, i)
        BY <1>3, <2>1, <2>5, <3>2 DEF MarkedAt
      <4>. QED  BY <1>3, <1>4, <2>3, <2>4, <3>2, <4>1 DEF MarksOf
    <3>3. CASE UnlockObject(t) /\ i = idx[t]
      BY <1>3, <2>1, <2>5, <3>3 DEF MarkedAt
    <3>. QED  BY <1>6, <3>1, <3>2, <3>3
  <2>6. ASSUME NEW i \in DOMAIN Groups(t), pc'[t] = "flagging", i >= idx'[t]
        PROVE  pending'[Groups(t)[i]] = NoTxn
    <3>1. i # idx[t] /\ i >= idx[t] /\ pc[t] = "flagging"
      BY <1>3, <2>1, <2>6
    <3>. QED  BY <1>3, <1>4, <2>3, <2>4, <3>1 DEF MarksOf
  <2>. QED  BY <1>2, <2>5, <2>6 DEF MarksOf
<1>7. CASE BarrierUp(t) \/ LockObject(t) \/ Decide(t) \/ DoAtom(t) \/ Complete(t)
  <2>1. pending' = pending
    BY <1>7 DEF BarrierUp, LockObject, Decide, DoAtom, Complete, objVars
  <2>2. \A i \in DOMAIN Groups(t) : MarkedAt(t, i)
    <3>1. CASE BarrierUp(t)
      BY <1>3, <3>1, BarrierUpMoves DEF MarkedAt
    <3>2. CASE LockObject(t) \/ Decide(t) \/ DoAtom(t) \/ Complete(t)
      <4>1. (pc[t] = "ready" /\ sched[t] = "LOCK") \/ pc[t] = "atoms"
        BY <3>2, LockObjectMoves, DecideMoves, DoAtomMoves, CompleteMoves
      <4>2. CASE pc[t] = "ready" /\ sched[t] = "LOCK"
        BY <4>2 DEF MarkedAt
      <4>3. CASE pc[t] = "atoms"
        BY <1>1, <4>3 DEF MarkedAt, EndOK
      <4>. QED  BY <4>1, <4>2, <4>3
    <3>. QED  BY <1>7, <3>1, <3>2
  <2>3. pc'[t] # "flagging"
    BY <1>7, BarrierUpMoves, LockObjectMoves, DecideMoves, DoAtomMoves,
       CompleteMoves DEF Moves, Walks
  <2>. QED  BY <1>2, <1>4, <2>1, <2>2, <2>3 DEF MarksOf
<1>. QED  BY <1>5, <1>6, <1>7, IntoBarrier

LEMMA MarksHeldStep ==
  ASSUME Control, EndsOnce, TxnLocked, Grouped, NEW t \in Tasks,
         Serve(t) \/ \E r \in Requests : Sends(t, r)
  PROVE  MarksHeld'
<1>1. ASSUME NEW u \in Tasks, InBarrier(u)' PROVE MarksOf(u)'
  <2>1. CASE u = t
    BY <1>1, <2>1, OwnMarks
  <2>2. CASE u # t
    <3>1. InBarrier(u)
      BY <1>1, <2>2, Frames DEF InBarrier, Same
    <3>. QED  BY <2>2, <3>1, OtherMarks
  <2>. QED  BY <2>1, <2>2
<1>2. ASSUME NEW u \in Tasks, ~InBarrier(u)' PROVE MarksOf(u)'
  BY <1>2 DEF MarksOf, MarkedAt, InBarrier
<1>. QED  BY <1>1, <1>2 DEF MarksHeld, MarksOf

LEMMA GroupedStep ==
  ASSUME Control, EndsOnce, TxnLocked, Grouped, [Next]_vars
  PROVE  Grouped'
<1>0. ShapeOK
  BY DEF Control
<1>1. ASSUME NEW t \in Tasks, Serve(t) \/ \E r \in Requests : Sends(t, r)
      PROVE  Grouped'
  BY <1>1, GroupsOnceStep, AtomOwnedStep, MarksHeldStep DEF Grouped
<1>2. CASE UNCHANGED <<num, pending, group, taskVars>>
  <2>1. \A u \in Tasks : /\ IsEnd(u)' <=> IsEnd(u)
                         /\ Txn(u)' = Txn(u) /\ Groups(u)' = Groups(u)
                         /\ \A x \in Txns : Ender(u, x)' <=> Ender(u, x)
                         /\ \A i : MarkedAt(u, i)' <=> MarkedAt(u, i)
    BY <1>2 DEF IsEnd, Txn, Groups, Ender, MarkedAt, taskVars
  <2>2. pc' = pc /\ idx' = idx
    BY <1>2 DEF taskVars
  <2>3. /\ \A x \in Txns : \A P : Past(x, P)' <=> Past(x, P)
        /\ \A x \in Txns : \A i : Todo(x, i)' <=> Todo(x, i)
    BY <2>1, <2>2 DEF Past, Todo
  <2>4. GroupsOnce'
    BY <1>2, <2>3 DEF Grouped, GroupsOnce
  <2>5. AtomOwned'
    BY <1>2, <2>3 DEF Grouped, AtomOwned
  <2>6. MarksHeld'
    BY <1>2, <2>1, <2>2 DEF Grouped, MarksHeld
  <2>. QED  BY <2>4, <2>5, <2>6 DEF Grouped
<1>3. ASSUME NEW x \in Txns, Begin(x) PROVE Grouped'
  BY <1>2, <1>3 DEF Begin, objVars, taskVars
<1>4. CASE UNCHANGED vars
  BY <1>2, <1>4 DEF vars, objVars, txnVars, taskVars
<1>. QED  BY <1>0, <1>1, <1>3, <1>4, StepCases

-----------------------------------------------------------------------------
\* The invariant up to the barrier.
Base == Control /\ EndsOnce /\ Counted /\ TxnLocked /\ Grouped

LEMMA InitBase == Init => Base
<1>. SUFFICES ASSUME Init PROVE Base
  OBVIOUS
<1>1. Control
  BY InitControl
<1>2. \A t \in Tasks : /\ ~IsOp(t) /\ ~IsEnd(t) /\ pc[t] = "new"
                       /\ \A x \in Txns : ~Ender(t, x) /\ ~InTxn(t, x)
  <2>1. NoRequest.kind = "NONE"
    BY DEF NoRequest
  <2>2. \A t \in Tasks : req[t] = NoRequest /\ pc[t] = "new"
    BY DEF Init
  <2>. QED  BY <2>1, <2>2 DEF IsOp, IsEnd, Ender, InTxn
<1>3. \A x \in Txns : Users(x) = {} /\ Inside(x) = {}
  BY <1>2 DEF Users, Inside
<1>4. \A x \in Txns : Cardinality(Users(x)) = 0 /\ Cardinality(Inside(x)) = 0
  BY <1>3, CountTasks
<1>5. EndsOnce
  BY <1>2, <1>3 DEF EndsOnce, Init
<1>6. Counted
  BY <1>4 DEF Counted, Init
<1>7. TxnLocked
  <2>1. \A x \in Txns : tword[x].readers = 0 /\ tword[x].flags = {}
    BY DEF Init, Zero, Only
  <2>2. \A t \in Tasks, x \in Txns : ~Closing(t, x) /\ ~Alone(t, x)
    BY <1>2 DEF Closing, Alone
  <2>. QED  BY <1>4, <2>1, <2>2 DEF TxnLocked, TxnWordOK
<1>8. Grouped
  <2>1. \A x \in Txns : DOMAIN group[x] = {}
    BY DEF Init
  <2>. QED  BY <1>2, <2>1 DEF Grouped, GroupsOnce, AtomOwned, MarksHeld
<1>. QED  BY <1>1, <1>5, <1>6, <1>7, <1>8 DEF Base

LEMMA BaseStep == Base /\ [Next]_vars => Base'
BY ControlStep, EndsOnceStep, CountedStep, TxnLockedStep, GroupedStep DEF Base

LEMMA BaseInvariant == Spec => []Base
BY InitBase, BaseStep, PTL DEF Spec

\* Type correctness: every variable keeps its shape.
THEOREM TxnShape == Spec => []ShapeOK
<1>1. Base => ShapeOK
  BY DEF Base, Control
<1>. QED  BY <1>1, BaseInvariant, PTL

\* A task that uses a transaction has a reference to it, however many tasks
\* join, leave and end it: the cache has not freed it under the task.
THEOREM NeverFreed == Spec => []NoUseAfterFree
<1>1. Base => NoUseAfterFree
  <2>. SUFFICES ASSUME Base, NEW t \in Tasks, pc[t] \notin {"new", "done"},
                       Txn(t) # NoTxn
                PROVE  refs[Txn(t)] > 0
    BY DEF NoUseAfterFree
  <2>1. Txn(t) \in Txns
    BY TaskFacts DEF Base, Control
  <2>2. t \in Users(Txn(t)) /\ Users(Txn(t)) \in SUBSET Tasks
    BY DEF Users
  <2>3. Cardinality(Users(Txn(t))) \in Nat /\ Cardinality(Users(Txn(t))) # 0
    BY <2>2, CountTasks
  <2>4. refs[Txn(t)] \in Int /\ refs[Txn(t)] >= Cardinality(Users(Txn(t)))
    <3>1. refs[Txn(t)] \in Int
      BY <2>1 DEF Base, Control, ShapeOK
    <3>2. refs[Txn(t)] >= Cardinality(Users(Txn(t))) + (IF Txn(t) \in cached THEN 2 ELSE 0)
      BY <2>1 DEF Base, Counted
    <3>. QED  BY <2>3, <3>1, <3>2
  <2>. QED  BY <2>3, <2>4
<1>. QED  BY <1>1, BaseInvariant, PTL

\* From the barrier to the unlock, every object of the transaction carries
\* its id.
THEOREM BarrierStays == Spec => []BarrierHeld
<1>1. Base => BarrierHeld
  <2>. SUFFICES ASSUME Base, NEW t \in Tasks, sched[t] = "LOCK",
                       pc[t] \in {"ready", "parked", "atoms", "unlocking"},
                       NEW i \in DOMAIN Groups(t),
                       pc[t] = "unlocking" => i >= idx[t]
                PROVE  pending[Groups(t)[i]] = Txn(t)
    BY DEF BarrierHeld
  <2>1. InBarrier(t) /\ MarkedAt(t, i)
    BY DEF InBarrier, MarkedAt
  <2>2. IsEnd(t)
    BY <2>1, BarrierAlone DEF Base
  <2>. QED  BY <2>1, <2>2 DEF Base, Grouped, MarksHeld
<1>. QED  BY <1>1, BaseInvariant, PTL

-----------------------------------------------------------------------------
(***************************************************************************)
(* The locks of the objects, the owners of the numbers and the abstract    *)
(* store, on top of the layers above.  The layers here:                    *)
(*   Consistent  the word of an object is that of the tasks that hold it,  *)
(*               until a WRITE has been given up under a reader (wiped);   *)
(*   Ending      whose atom a number still waits for, until a transaction  *)
(*               has been joined after its end (late);                     *)
(*   Deciding    what is applied has not been refused;                     *)
(*   Clean       what is written outside the transactions and not          *)
(*               published is the work of one task.                        *)
(***************************************************************************)

\* t, which ends a transaction, has put the barrier on o and not taken it off.
Marked(t, o) == IsEnd(t) /\ \E i \in DOMAIN Groups(t) : Groups(t)[i] = o /\ MarkedAt(t, i)

\* t has the lock of the object i of its transaction.
LockedAt(t, i) ==
  \/ pc[t] \in {"ready", "parked"} /\ sched[t] = "LOCK" /\ i < idx[t]
  \/ pc[t] = "atoms"
  \/ pc[t] = "unlocking" /\ i >= idx[t]
Locked(t, o) == IsEnd(t) /\ \E i \in DOMAIN Groups(t) : Groups(t)[i] = o /\ LockedAt(t, i)

\* Who holds o, and who has set the COMMIT flag of it.
Reading(o) == {t \in Tasks : IsOp(t) /\ Obj(t) = o /\ hold[t] = "READ"}
Writing(t, o) == IsOp(t) /\ Obj(t) = o /\ hold[t] \in {"WRITE", "COMMIT"}
Publishing(t, o) == Writing(t, o) /\ hold[t] = "COMMIT"
Excl(t, o) == Writing(t, o) \/ Locked(t, o)
Committing(t, o) ==
  /\ IsOp(t) /\ Obj(t) = o /\ sched[t] = "COMMIT"
  /\ pc[t] \in {"ready", "checked", "parked", "run", "release"}

\* The word of o says who holds it.
WordMatches(o) ==
  /\ word[o].readers = Cardinality(Reading(o))
  /\ "WRITE" \in word[o].flags <=> \E t \in Tasks : Excl(t, o)
  /\ "COMMIT" \in word[o].flags <=> \E t \in Tasks : Committing(t, o)
  /\ "LOCK" \in word[o].flags <=> \E t \in Tasks : Marked(t, o)

\* Who may hold o together.
OneOwner(o) ==
  \A t, u \in Tasks :
    /\ Excl(t, o) /\ Excl(u, o) => t = u
    /\ Committing(t, o) /\ Committing(u, o) => t = u
    /\ Excl(t, o) /\ Committing(u, o) => t = u
    /\ ~(Marked(t, o) /\ Committing(u, o))
    /\ Locked(t, o) \/ Publishing(t, o) => u \notin Reading(o)

\* The task that commits o has written it, and nobody has since.
CommitterOwns(o) == \A t \in Tasks : Committing(t, o) => num[o].owner = Txn(t)

ObjectOK(o) == WordMatches(o) /\ OneOwner(o) /\ CommitterOwns(o)

Consistent == \A o \in Objects : ObjectOK(o)

-----------------------------------------------------------------------------
\* A transaction has its final state from the end of its atoms on.
InsideOpen ==
  \A x \in Txns : Ended(x) <=> Past(x, {"unlocking", "unref", "done"})
\* Nobody is in a transaction that has been given back.
NobodyLate ==
  \A x \in Txns : Past(x, {"unref", "done"}) => Inside(x) = {}

\* A number is owned by a transaction that has still to settle it.
OwnerHasAtom ==
  \A o \in Objects, x \in Txns :
    num[o].owner = x => \E i \in DOMAIN group[x] : group[x][i] = o /\ Todo(x, i)

\* Without a weakness, what has been written outside the transactions and not
\* published is the work of the task that commits the object.
Clean ==
  \A o \in Objects : num[o].owner = NoTxn =>
    \/ num[o].write = num[o].read
    \/ \E t \in Tasks :
         /\ Committing(t, o) /\ errno[t] = "PENDING" /\ req[t].kind = "PUT"
         /\ num[o].write = Result(num[o].read, req[t].f)

\* A transaction that is being applied has not been refused.
Deciding ==
  \A t \in Tasks : pc[t] = "atoms" /\ ctype[t] = "APPLY" => tstate[Txn(t)] # "DONT_COMMIT"

-----------------------------------------------------------------------------
\* The roles of the task u on the object o are what they were.
RolesKept(u, o) ==
  /\ u \in Reading(o)' <=> u \in Reading(o)
  /\ Writing(u, o)' <=> Writing(u, o)
  /\ Publishing(u, o)' <=> Publishing(u, o)
  /\ Committing(u, o)' <=> Committing(u, o)
  /\ Committing(u, o)' => Txn(u)' = Txn(u)
  /\ Marked(u, o)' <=> Marked(u, o)
  /\ Locked(u, o)' <=> Locked(u, o)

LEMMA ObjectFrame ==
  ASSUME NEW o \in Objects, ObjectOK(o), word'[o] = word[o],
         num'[o].owner = num[o].owner, \A u \in Tasks : RolesKept(u, o)
  PROVE  ObjectOK(o)'
<1>1. Reading(o)' = Reading(o)
  BY DEF Reading, RolesKept
<1>2. \A u \in Tasks : Excl(u, o)' <=> Excl(u, o)
  BY DEF RolesKept, Excl
<1>3. WordMatches(o)'
  BY <1>1, <1>2 DEF ObjectOK, WordMatches, RolesKept
<1>4. OneOwner(o)'
  BY <1>1, <1>2 DEF ObjectOK, OneOwner, RolesKept
<1>5. CommitterOwns(o)'
  BY DEF ObjectOK, CommitterOwns, RolesKept
<1>. QED  BY <1>3, <1>4, <1>5 DEF ObjectOK

\* How the roles exclude and imply each other.
LEMMA RoleFacts ==
  ASSUME Control, NEW u \in Tasks, NEW o \in Objects
  PROVE  /\ Locked(u, o) => Marked(u, o)
         /\ Publishing(u, o) => Committing(u, o) /\ Writing(u, o)
         /\ Marked(u, o) => InBarrier(u) /\ IsEnd(u) /\ ~IsOp(u)
         /\ Writing(u, o) => IsOp(u) /\ u \notin Reading(o) /\ ~Locked(u, o)
         /\ Committing(u, o) => u \notin Reading(o) /\ IsOp(u)
<1>0. TaskOK(u) /\ ShapeOK
  BY DEF Control
<1>1. Marked(u, o) => InBarrier(u) /\ IsEnd(u) /\ ~IsOp(u)
  BY DEF Marked, MarkedAt, InBarrier, IsEnd, IsOp
<1>2. Locked(u, o) => Marked(u, o)
  <2>. SUFFICES ASSUME Locked(u, o) PROVE Marked(u, o)
    OBVIOUS
  <2>1. PICK i \in DOMAIN Groups(u) : Groups(u)[i] = o /\ LockedAt(u, i) /\ IsEnd(u)
    BY DEF Locked
  <2>2. InBarrier(u)
    BY <2>1 DEF LockedAt, InBarrier
  <2>3. EndOK(u)
    BY <2>2, BarrierAlone
  <2>4. MarkedAt(u, i)
    BY <2>1, <2>3 DEF LockedAt, MarkedAt, EndOK
  <2>. QED  BY <2>1, <2>4 DEF Marked
<1>3. Writing(u, o) => /\ IsOp(u) /\ u \notin Reading(o) /\ ~Locked(u, o)
                       /\ Publishing(u, o) => Committing(u, o)
  <2>. SUFFICES ASSUME Writing(u, o)
                PROVE  /\ IsOp(u) /\ u \notin Reading(o) /\ ~Locked(u, o)
                       /\ Publishing(u, o) => Committing(u, o)
    OBVIOUS
  <2>1. IsOp(u) /\ ~IsEnd(u) /\ hold[u] \in {"WRITE", "COMMIT"} /\ Obj(u) = o
    BY DEF Writing, IsOp, IsEnd
  <2>2. pc[u] # "new"
    BY <1>0, <2>1 DEF TaskOK
  <2>3. OpOK(u)
    BY <1>0, <2>1, <2>2, TaskFacts
  <2>. QED  BY <2>1, <2>3 DEF OpOK, Publishing, Committing, Reading, Locked
<1>4. Committing(u, o) => u \notin Reading(o) /\ IsOp(u)
  <2>. SUFFICES ASSUME Committing(u, o) PROVE u \notin Reading(o) /\ IsOp(u)
    OBVIOUS
  <2>1. IsOp(u) /\ sched[u] = "COMMIT" /\ pc[u] # "new"
    BY DEF Committing
  <2>2. OpOK(u)
    BY <1>0, <2>1, TaskFacts
  <2>. QED  BY <2>1, <2>2 DEF OpOK, Reading
<1>. QED  BY <1>1, <1>2, <1>3, <1>4 DEF Publishing

LEMMA OtherGroups ==
  ASSUME Control, EndsOnce, TxnLocked, NEW t \in Tasks, NEW u \in Tasks, u # t,
         InBarrier(u), Serve(t) \/ \E r \in Requests : Sends(t, r)
  PROVE  Groups(u)' = Groups(u) /\ Txn(u)' = Txn(u)
<1>1. Txn(u) \in Txns /\ Txn(u)' = Txn(u)
  BY Frames, BarrierAlone DEF Same, Txn
<1>2. CASE Write(t)
  <2>1. Txn(t) # Txn(u)
    BY <1>1, <1>2, BarrierExcludes, WriteOwner
  <2>. QED  BY <1>1, <1>2, <2>1, WriteOwner DEF Groups
<1>3. CASE ~Write(t)
  BY <1>1, <1>3, GroupsUnchanged DEF Groups
<1>. QED  BY <1>1, <1>2, <1>3

LEMMA OtherRoles ==
  ASSUME Control, EndsOnce, TxnLocked, NEW t \in Tasks, NEW u \in Tasks, u # t,
         NEW o \in Objects, Serve(t) \/ \E r \in Requests : Sends(t, r)
  PROVE  RolesKept(u, o)
<1>1. Same(u)
  BY Frames
<1>2. /\ IsOp(u)' <=> IsOp(u)
      /\ IsEnd(u)' <=> IsEnd(u)
      /\ Obj(u)' = Obj(u) /\ Txn(u)' = Txn(u)
  BY <1>1 DEF Same, IsOp, IsEnd, Obj, Txn
<1>3. /\ u \in Reading(o)' <=> u \in Reading(o)
      /\ Writing(u, o)' <=> Writing(u, o)
      /\ Publishing(u, o)' <=> Publishing(u, o)
  BY <1>1, <1>2 DEF Reading, Writing, Publishing, Same
<1>4. Committing(u, o)' <=> Committing(u, o)
  BY <1>1, <1>2 DEF Committing, Same
<1>5. \A i : /\ MarkedAt(u, i)' <=> MarkedAt(u, i)
             /\ LockedAt(u, i)' <=> LockedAt(u, i)
             /\ MarkedAt(u, i) \/ LockedAt(u, i) => InBarrier(u)
  BY <1>1 DEF Same, MarkedAt, LockedAt, InBarrier
<1>6. CASE InBarrier(u)
  <2>1. Groups(u)' = Groups(u)
    BY <1>6, OtherGroups
  <2>2. (Marked(u, o)' <=> Marked(u, o)) /\ (Locked(u, o)' <=> Locked(u, o))
    BY <1>2, <1>5, <2>1 DEF Marked, Locked
  <2>. QED  BY <1>2, <1>3, <1>4, <2>2 DEF RolesKept
<1>7. CASE ~InBarrier(u)
  <2>1. ~Marked(u, o) /\ ~Locked(u, o) /\ ~Marked(u, o)' /\ ~Locked(u, o)'
    BY <1>5, <1>7 DEF Marked, Locked
  <2>. QED  BY <1>2, <1>3, <1>4, <2>1 DEF RolesKept
<1>. QED  BY <1>6, <1>7

\* The roles of a task of an operation are those of what it holds and of the
\* commit it is at; those of a task that ends a transaction are its marks.
LEMMA OpRoles ==
  ASSUME NEW t \in Tasks, IsOp(t), IsOp(t)', Obj(t)' = Obj(t), Txn(t)' = Txn(t),
         NEW o \in Objects,
         \/ o # Obj(t)
         \/ /\ hold'[t] = hold[t]
            /\ Committing(t, o)' <=> Committing(t, o)
  PROVE  RolesKept(t, o)
<1>1. ~IsEnd(t) /\ ~IsEnd(t)'
  BY DEF IsOp, IsEnd
<1>2. ~Marked(t, o) /\ ~Locked(t, o) /\ ~Marked(t, o)' /\ ~Locked(t, o)'
  BY <1>1 DEF Marked, Locked
<1>3. CASE o # Obj(t)
  BY <1>2, <1>3 DEF RolesKept, Reading, Writing, Publishing, Committing
<1>4. CASE hold'[t] = hold[t] /\ (Committing(t, o)' <=> Committing(t, o))
  BY <1>2, <1>4 DEF RolesKept, Reading, Writing, Publishing
<1>. QED  BY <1>3, <1>4

LEMMA EndRoles ==
  ASSUME NEW t \in Tasks, ~IsOp(t), ~IsOp(t)', NEW o \in Objects,
         Marked(t, o)' <=> Marked(t, o), Locked(t, o)' <=> Locked(t, o)
  PROVE  RolesKept(t, o)
BY DEF RolesKept, Reading, Writing, Publishing, Committing

\* The steps that are about no object's word, for the task that takes them.
LEMMA QuietRoles ==
  ASSUME Control, NEW t \in Tasks, NEW o \in Objects,
         Serve(t) \/ \E r \in Requests : Sends(t, r),
         ~(Take(t) \/ Write(t) \/ Release(t)),
         ~(MarkObject(t) \/ LockObject(t) \/ UnlockObject(t))
  PROVE  RolesKept(t, o) /\ word' = word
<1>. USE DEF objVars
<1>0. ShapeOK /\ TaskOK(t) /\ group \in [Txns -> Seq(Objects)]
  BY DEF Control, ShapeOK
<1>1. ASSUME NEW r \in Requests, Sends(t, r) PROVE RolesKept(t, o) /\ word' = word
  <2>1. ~IsOp(t) /\ ~IsEnd(t) /\ sched[t] = "NONE" /\ hold[t] = "NONE"
    BY <1>0, <1>1, SubmitMoves, SubmitEndMoves, SendRoles DEF Sends, TaskOK
  <2>2. /\ hold'[t] = "NONE" /\ sched'[t] # "COMMIT"
        /\ pc'[t] \in {"ready", "looked", "done", "closing"}
        /\ sched'[t] # "LOCK"
    BY <1>1, <2>1, SubmitMoves, SubmitEndMoves DEF Sends, Moves
  <2>3. /\ t \notin Reading(o)' /\ ~Writing(t, o)' /\ ~Publishing(t, o)'
        /\ ~Committing(t, o)' /\ ~Marked(t, o)' /\ ~Locked(t, o)'
    BY <2>2 DEF Reading, Writing, Publishing, Committing, Marked, MarkedAt,
                Locked, LockedAt
  <2>4. /\ t \notin Reading(o) /\ ~Writing(t, o) /\ ~Publishing(t, o)
        /\ ~Committing(t, o) /\ ~Marked(t, o) /\ ~Locked(t, o)
    BY <2>1 DEF Reading, Writing, Publishing, Committing, Marked, Locked
  <2>5. word' = word
    BY <1>1 DEF Sends, Submit, SubmitEnd
  <2>. QED  BY <2>3, <2>4, <2>5 DEF RolesKept
<1>2. ASSUME Serve(t)
      PROVE  /\ pc[t] # "new" /\ Txn(t)' = Txn(t) /\ Obj(t)' = Obj(t)
             /\ IsOp(t)' <=> IsOp(t)
             /\ IsEnd(t)' <=> IsEnd(t)
             /\ IsOp(t) <=> ~IsEnd(t)
             /\ IsOp(t) => OpOK(t)
             /\ IsEnd(t) => EndOK(t) /\ Txn(t) \in Txns
  BY <1>0, <1>2, ServeRoles, TaskFacts
<1>3. CASE IsOp(t) /\ Serve(t)
  <2>0. OpOK(t)
    BY <1>2, <1>3
  <2>1. CASE JoinTxn(t) \/ Check(t) \/ Read(t) \/ WriteFails(t) \/ Publish(t)
    <3>1. /\ hold'[t] = hold[t] /\ sched'[t] = sched[t]
          /\ \/ sched[t] # "COMMIT"
             \/ /\ pc[t] \in {"ready", "checked", "parked", "run", "release"}
                /\ pc'[t] \in {"ready", "checked", "parked", "run", "release"}
      BY <2>0, <2>1, JoinTxnMoves, CheckMoves, ReadMoves, WriteFailsMoves,
         PublishMoves DEF Moves, Walks, OpOK
    <3>2. Committing(t, o)' <=> Committing(t, o)
      BY <1>2, <1>3, <3>1 DEF Committing
    <3>3. word' = word
      BY <2>1 DEF JoinTxn, Check, Read, WriteFails, Publish
    <3>. QED  BY <1>2, <1>3, <3>1, <3>2, <3>3, OpRoles
  <2>2. CASE Notify(t) \/ LeaveTxn(t) \/ Unref(t)
    <3>1. /\ hold'[t] = hold[t]
          /\ pc[t] \in {"notify", "leave", "unref"}
          /\ pc'[t] \in {"leave", "unref", "done"}
      BY <2>2, NotifyMoves, LeaveTxnMoves, UnrefMoves DEF Moves, Walks
    <3>2. ~Committing(t, o)' /\ ~Committing(t, o)
      BY <3>1 DEF Committing
    <3>3. word' = word
      BY <2>2 DEF Notify, LeaveTxn, Unref
    <3>. QED  BY <1>2, <1>3, <3>1, <3>2, <3>3, OpRoles
  <2>3. ~CloseTxn(t) /\ ~TakeTxn(t) /\ ~Barrier(t) /\ ~BarrierUp(t)
    BY <2>0 DEF CloseTxn, TakeTxn, Barrier, BarrierUp, OpOK
  <2>4. ~Decide(t) /\ ~DoAtom(t) /\ ~Complete(t) /\ ~FinishEnd(t)
    BY <2>0 DEF Decide, DoAtom, Complete, FinishEnd, OpOK
  <2>. QED  BY <1>3, <2>1, <2>2, <2>3, <2>4 DEF Serve
<1>4. CASE IsEnd(t) /\ Serve(t)
  <2>0. /\ EndOK(t) /\ Txn(t) \in Txns /\ ~IsOp(t) /\ ~IsOp(t)'
        /\ Groups(t)' = Groups(t)
        /\ \A i \in DOMAIN Groups(t) : i \in Nat /\ i >= 1 /\ i <= Len(Groups(t))
        /\ Len(Groups(t)) \in Nat /\ idx[t] \in Nat
    <3>1. EndOK(t) /\ Txn(t) \in Txns /\ ~IsOp(t) /\ ~IsOp(t)' /\ Txn(t)' = Txn(t)
      BY <1>2, <1>4
    <3>2. group' = group
      BY <1>4, GroupsUnchanged
    <3>. QED  BY <1>0, <3>1, <3>2, LocalTypes DEF Groups
  <2>r. (\A i \in DOMAIN Groups(t) : /\ MarkedAt(t, i)' <=> MarkedAt(t, i)
                                     /\ LockedAt(t, i)' <=> LockedAt(t, i))
         => RolesKept(t, o)
    <3>. SUFFICES ASSUME \A i \in DOMAIN Groups(t) :
                           /\ MarkedAt(t, i)' <=> MarkedAt(t, i)
                           /\ LockedAt(t, i)' <=> LockedAt(t, i)
                  PROVE  RolesKept(t, o)
      OBVIOUS
    <3>1. (Marked(t, o)' <=> Marked(t, o)) /\ (Locked(t, o)' <=> Locked(t, o))
      BY <1>2, <1>4, <2>0 DEF Marked, Locked
    <3>. QED  BY <2>0, <3>1, EndRoles
  <2>1. CASE CloseTxn(t) \/ TakeTxn(t) \/ Barrier(t) \/ Unref(t)
    <3>1. /\ pc[t] \in {"closing", "ready", "unref"}
          /\ pc[t] = "ready" => sched[t] # "LOCK"
          /\ pc'[t] \in {"ready", "parked", "flagging", "done"}
          /\ pc'[t] = "flagging" => idx'[t] = 1
          /\ pc'[t] \in {"ready", "parked"} => sched'[t] # "LOCK"
      BY <2>0, <2>1, CloseTxnMoves, TakeTxnMoves, BarrierMoves, UnrefMoves
         DEF Moves, Walks, EndOK
    <3>2. \A i \in DOMAIN Groups(t) : /\ ~MarkedAt(t, i) /\ ~LockedAt(t, i)
                                      /\ ~MarkedAt(t, i)' /\ ~LockedAt(t, i)'
      BY <2>0, <3>1 DEF MarkedAt, LockedAt
    <3>3. word' = word
      BY <2>1 DEF CloseTxn, TakeTxn, Barrier, Unref
    <3>. QED  BY <2>r, <3>2, <3>3
  <2>2. CASE BarrierUp(t)
    <3>1. /\ pc[t] = "flagging" /\ idx[t] > Len(Groups(t))
          /\ pc'[t] = "ready" /\ sched'[t] = "LOCK" /\ idx'[t] = 1
      BY <2>2, BarrierUpMoves DEF Moves
    <3>2. \A i \in DOMAIN Groups(t) : /\ MarkedAt(t, i) /\ ~LockedAt(t, i)
                                      /\ MarkedAt(t, i)' /\ ~LockedAt(t, i)'
      BY <2>0, <3>1 DEF MarkedAt, LockedAt
    <3>3. word' = word
      BY <2>2 DEF BarrierUp
    <3>. QED  BY <2>r, <3>2, <3>3
  <2>3. CASE Decide(t) \/ DoAtom(t) \/ Complete(t)
    <3>1. /\ sched[t] = "LOCK" /\ sched'[t] = "LOCK"
          /\ pc[t] = "atoms" \/ (pc[t] = "ready" /\ idx[t] > Len(Groups(t)))
          /\ pc'[t] = "atoms" \/ (pc'[t] = "unlocking" /\ idx'[t] = 1)
      BY <2>0, <2>3, DecideMoves, DoAtomMoves, CompleteMoves DEF Moves, EndOK
    <3>2. \A i \in DOMAIN Groups(t) : /\ MarkedAt(t, i) /\ LockedAt(t, i)
                                      /\ MarkedAt(t, i)' /\ LockedAt(t, i)'
      BY <2>0, <3>1 DEF MarkedAt, LockedAt
    <3>3. word' = word
      BY <2>3 DEF Decide, DoAtom, Complete
    <3>. QED  BY <2>r, <3>2, <3>3
  <2>4. CASE FinishEnd(t)
    <3>1. /\ pc[t] = "unlocking" /\ idx[t] > Len(Groups(t)) /\ pc'[t] = "unref"
      BY <2>4, FinishEndMoves DEF Moves, Walks
    <3>2. \A i \in DOMAIN Groups(t) : /\ ~MarkedAt(t, i) /\ ~LockedAt(t, i)
                                      /\ ~MarkedAt(t, i)' /\ ~LockedAt(t, i)'
      BY <2>0, <3>1 DEF MarkedAt, LockedAt
    <3>3. word' = word
      BY <2>4 DEF FinishEnd
    <3>. QED  BY <2>r, <3>2, <3>3
  <2>5. ~JoinTxn(t) /\ ~Check(t) /\ ~Read(t) /\ ~WriteFails(t) /\ ~Publish(t)
    BY <2>0 DEF JoinTxn, Check, Read, WriteFails, Publish, EndOK
  <2>6. ~Notify(t) /\ ~LeaveTxn(t)
    BY <2>0 DEF Notify, LeaveTxn, EndOK
  <2>. QED  BY <1>4, <2>1, <2>2, <2>3, <2>4, <2>5, <2>6 DEF Serve
<1>. QED  BY <1>1, <1>2, <1>3, <1>4

\* An operation concerns the word of its own object only.
LEMMA Elsewhere ==
  ASSUME Control, EndsOnce, TxnLocked, Consistent, NEW t \in Tasks,
         Take(t) \/ Write(t) \/ Release(t), NEW o \in Objects, o # Obj(t)
  PROVE  ObjectOK(o)'
<1>0. /\ word \in [Objects -> Word] /\ ShapeOK /\ TaskOK(t)
      /\ Serve(t) /\ pc[t] \in {"checked", "run", "release"}
  BY DEF Control, ShapeOK, Serve, Take, Write, Release
<1>1. IsOp(t) /\ IsOp(t)' /\ Obj(t)' = Obj(t) /\ Txn(t)' = Txn(t)
  BY <1>0, TaskTxn, ServeRoles
<1>2. \A u \in Tasks : RolesKept(u, o)
  <2>1. RolesKept(t, o)
    BY <1>1, OpRoles
  <2>. QED  BY <1>0, <2>1, OtherRoles
<1>3. word'[o] = word[o]
  BY <1>0 DEF Take, Write, Release
<1>4. num'[o].owner = num[o].owner
  <2>1. CASE Write(t)
    BY <2>1, WriteOwner
  <2>2. CASE Take(t) \/ Release(t)
    BY <2>2 DEF Take, Release
  <2>. QED  BY <2>1, <2>2
<1>. QED  BY <1>2, <1>3, <1>4, ObjectFrame DEF Consistent

LEMMA TakeStep ==
  ASSUME Control, EndsOnce, TxnLocked, Consistent, NEW t \in Tasks, Take(t)
  PROVE  Consistent'
<1>o. PICK o \in Objects : o = Obj(t)
  BY TaskTxn DEF Control, Take
<1>. DEFINE w == word[o]
<1>0. /\ word \in [Objects -> Word] /\ ShapeOK /\ TaskOK(t) /\ Serve(t)
      /\ pc[t] = "checked"
  BY DEF Control, ShapeOK, Serve, Take
<1>1. /\ IsOp(t) /\ IsOp(t)' /\ Obj(t)' = o /\ Obj(t) = o
      /\ Txn(t)' = Txn(t) /\ ~IsEnd(t) /\ ~IsEnd(t)'
      /\ sched[t] \in {"READ", "WRITE", "COMMIT"} /\ hold[t] = "NONE"
  BY <1>o, <1>0, TaskTxn, TaskFacts, ServeRoles DEF OpOK
<1>2. \A u \in Tasks : u # t => RolesKept(u, o)
  BY <1>0, <1>1, OtherRoles
<1>3. ObjectOK(o) /\ w \in Word
  BY <1>0, <1>1 DEF Consistent
<1>4. num'[o].owner = num[o].owner
  BY DEF Take
<1>5. /\ t \notin Reading(o) /\ ~Writing(t, o) /\ ~Publishing(t, o)
      /\ Committing(t, o) <=> sched[t] = "COMMIT"
      /\ ~Marked(t, o) /\ ~Locked(t, o) /\ ~Marked(t, o)' /\ ~Locked(t, o)'
  BY <1>0, <1>1 DEF Reading, Writing, Publishing, Committing, Marked, Locked
<1>. SUFFICES ObjectOK(o)'
  BY <1>1, Elsewhere DEF Consistent
<1>6. CASE Walks(t, "parked") /\ word' = word
  <2>1. Committing(t, o)' <=> Committing(t, o)
    BY <1>0, <1>1, <1>6 DEF Committing, Walks, Moves
  <2>2. RolesKept(t, o)
    BY <1>1, <1>6, <2>1, OpRoles DEF Walks, Moves
  <2>. QED  BY <1>1, <1>2, <1>3, <1>4, <1>6, <2>2, ObjectFrame
<1>7. CASE /\ Granted(sched[t], w) /\ word'[o] = Acquired(sched[t], w)
           /\ Moves(t, "run", sched[t], sched[t], idx[t], ctype[t], errno[t])
  <2>1. /\ t \in Reading(o)' <=> sched[t] = "READ"
        /\ Writing(t, o)' <=> sched[t] \in {"WRITE", "COMMIT"}
        /\ Publishing(t, o)' <=> sched[t] = "COMMIT"
        /\ Committing(t, o)' <=> sched[t] = "COMMIT"
    BY <1>1, <1>7 DEF Moves, Reading, Writing, Publishing, Committing
  <2>2. Reading(o) \in SUBSET Tasks /\ Reading(o)' \in SUBSET Tasks
    BY DEF Reading
  <2>3. \A u \in Tasks : u # t =>
          /\ u \in Reading(o)' <=> u \in Reading(o)
          /\ Excl(u, o)' <=> Excl(u, o)
    BY <1>2 DEF RolesKept, Excl
  <2>4. CommitterOwns(o)'
    BY <1>1, <1>2, <1>3, <1>4, <1>5, <2>1 DEF ObjectOK, CommitterOwns, RolesKept
  <2>5. ~Excl(t, o)
    BY <1>5 DEF Excl
  <2>6. /\ w.readers = Cardinality(Reading(o))
        /\ "WRITE" \in w.flags <=> \E u \in Tasks : Excl(u, o)
        /\ "COMMIT" \in w.flags <=> \E u \in Tasks : Committing(u, o)
        /\ "LOCK" \in w.flags <=> \E u \in Tasks : Marked(u, o)
    BY <1>3 DEF ObjectOK, WordMatches
  <2>7. CASE sched[t] = "READ"
    <3>1. w.flags \subseteq {"WRITE"}
      BY <1>7, <2>7 DEF Granted
    <3>2. Reading(o)' = Reading(o) \cup {t}
      BY <2>1, <2>2, <2>3, <2>7
    <3>3. /\ Cardinality(Reading(o)') = Cardinality(Reading(o)) + 1
          /\ Cardinality(Reading(o)') <= MaxReaders
          /\ Cardinality(Reading(o)) \in Nat
      BY <1>5, <2>2, <3>2, CountTasks
    <3>4. word'[o] = [readers |-> w.readers + 1, flags |-> w.flags]
      BY <1>7, <2>6, <2>7, <3>3, MaxReadersAssumption DEF Acquired, PlusOne
    <3>5. \A u \in Tasks : /\ Excl(u, o)' <=> Excl(u, o)
                           /\ Committing(u, o)' <=> Committing(u, o)
                           /\ Marked(u, o)' <=> Marked(u, o)
      BY <1>2, <1>5, <2>1, <2>3, <2>5, <2>7 DEF RolesKept, Excl
    <3>6. WordMatches(o)'
      BY <2>6, <3>3, <3>4, <3>5 DEF WordMatches
    <3>7. \A u \in Tasks : /\ ~Committing(u, o) /\ ~Marked(u, o)
                           /\ ~Locked(u, o)' /\ ~Publishing(u, o)'
      <4>1. \A u \in Tasks : /\ ~Committing(u, o) /\ ~Marked(u, o)
        BY <2>6, <3>1
      <4>2. \A u \in Tasks : ~Locked(u, o) /\ ~Publishing(u, o)
        BY <1>1, <4>1, RoleFacts
      <4>. QED  BY <1>2, <1>5, <2>1, <2>7, <4>1, <4>2 DEF RolesKept
    <3>8. OneOwner(o)'
      BY <1>3, <3>5, <3>7 DEF ObjectOK, OneOwner
    <3>. QED  BY <2>4, <3>6, <3>8 DEF ObjectOK
  <2>8. CASE sched[t] = "WRITE"
    <3>1. w.flags = {} /\ word'[o] = [readers |-> w.readers, flags |-> {"WRITE"}]
      BY <1>7, <2>8 DEF Granted, Acquired, WithFlag
    <3>2. \A u \in Tasks : ~Excl(u, o) /\ ~Committing(u, o) /\ ~Marked(u, o)
      BY <2>6, <3>1
    <3>3. Reading(o)' = Reading(o)
      BY <1>5, <2>1, <2>2, <2>3, <2>8
    <3>4. \A u \in Tasks : /\ Excl(u, o)' <=> u = t
                           /\ ~Committing(u, o)' /\ ~Marked(u, o)'
                           /\ ~Locked(u, o)' /\ ~Publishing(u, o)'
      <4>1. Excl(t, o)'
        BY <2>1, <2>8 DEF Excl
      <4>2. \A u \in Tasks : ~Locked(u, o) /\ ~Publishing(u, o)
        BY <1>1, <3>2, RoleFacts
      <4>. QED  BY <1>2, <1>5, <2>1, <2>3, <2>8, <3>2, <4>1, <4>2 DEF RolesKept
    <3>5. WordMatches(o)'
      BY <2>6, <3>1, <3>3, <3>4 DEF WordMatches
    <3>6. OneOwner(o)'
      BY <3>4 DEF OneOwner
    <3>. QED  BY <2>4, <3>5, <3>6 DEF ObjectOK
  <2>9. CASE sched[t] = "COMMIT"
    <3>1. w = Only({"COMMIT"}) /\ word'[o] = Only({"COMMIT", "WRITE"})
      BY <1>7, <2>9 DEF Granted, Acquired
    <3>2. /\ w.readers = 0 /\ w.flags = {"COMMIT"}
          /\ word'[o].readers = 0 /\ word'[o].flags = {"COMMIT", "WRITE"}
      BY <3>1 DEF Only
    <3>3. \A u \in Tasks : ~Excl(u, o) /\ ~Marked(u, o)
      BY <2>6, <3>2
    <3>4. Reading(o) = {}
      BY <2>2, <2>6, <3>2, CountTasks
    <3>5. Reading(o)' = Reading(o)
      BY <1>5, <2>1, <2>2, <2>3, <2>9
    <3>6. \A u \in Tasks : /\ Excl(u, o)' <=> u = t
                           /\ Committing(u, o)' <=> Committing(u, o)
                           /\ ~Marked(u, o)'
      <4>1. Excl(t, o)'
        BY <2>1, <2>9 DEF Excl
      <4>. QED  BY <1>2, <1>5, <2>1, <2>3, <2>9, <3>3, <4>1 DEF RolesKept
    <3>7. WordMatches(o)'
      BY <2>6, <3>2, <3>5, <3>6 DEF WordMatches
    <3>8. \A u \in Tasks : Committing(u, o) <=> u = t
      BY <1>3, <1>5, <2>9 DEF ObjectOK, OneOwner
    <3>9. OneOwner(o)'
      BY <3>4, <3>5, <3>6, <3>8 DEF OneOwner
    <3>. QED  BY <2>4, <3>7, <3>9 DEF ObjectOK
  <2>. QED  BY <1>1, <2>7, <2>8, <2>9
<1>8. \/ Walks(t, "parked") /\ word' = word
      \/ /\ Granted(sched[t], w) /\ word'[o] = Acquired(sched[t], w)
         /\ Moves(t, "run", sched[t], sched[t], idx[t], ctype[t], errno[t])
  <2>1. CASE Refused(sched[t], w) /\ UNCHANGED <<word, hold>>
             /\ pc' = [pc EXCEPT ![t] = "parked"]
    <3>1. word' = word
      BY <2>1
    <3>2. Walks(t, "parked")
      BY <2>1, LocalTypes DEF Take, Walks, Moves
    <3>. QED  BY <3>1, <3>2
  <2>2. CASE Granted(sched[t], w) /\ word' = [word EXCEPT ![o] = Acquired(sched[t], @)]
             /\ hold' = [hold EXCEPT ![t] = sched[t]]
             /\ pc' = [pc EXCEPT ![t] = "run"]
    <3>1. word'[o] = Acquired(sched[t], w)
      BY <1>0, <2>2
    <3>2. Moves(t, "run", sched[t], sched[t], idx[t], ctype[t], errno[t])
      BY <2>2, LocalTypes DEF Take, Moves
    <3>. QED  BY <2>2, <3>1, <3>2
  <2>. QED  BY <1>o, <2>1, <2>2 DEF Take
<1>. QED  BY <1>6, <1>7, <1>8

\* Nobody writes an object that the barrier of a transaction has reached.
LEMMA WriterUnmarked ==
  ASSUME Control, EndsOnce, TxnLocked, Grouped, NEW t \in Tasks, Write(t),
         NEW o \in Objects, o = Obj(t), ObjectOK(o), NEW u \in Tasks
  PROVE  ~Marked(u, o)
<1>. SUFFICES ASSUME Marked(u, o) PROVE FALSE
  OBVIOUS
<1>0. ShapeOK /\ TaskOK(t) /\ pc[t] = "run" /\ sched[t] = "WRITE" /\ NoTxn \notin Txns
  BY ScriptAssumption DEF Control, Write
<1>1. IsOp(t) /\ hold[t] = "WRITE" /\ Txn(t) \in Txns \cup {NoTxn}
  BY <1>0, TaskFacts, TaskTxn DEF OpOK
<1>2. InBarrier(u) /\ IsEnd(u) /\ ~IsOp(u)
  BY RoleFacts
<1>3. PICK i \in DOMAIN Groups(u) : Groups(u)[i] = o /\ MarkedAt(u, i)
  BY DEF Marked
<1>4. Txn(u) \in Txns /\ Ender(u, Txn(u)) /\ EndOK(u)
  BY <1>2, BarrierAlone
<1>5. ~Locked(u, o)
  <2>1. Excl(t, o) /\ (Locked(u, o) => Excl(u, o))
    BY <1>1 DEF Excl, Writing
  <2>. QED  BY <1>1, <1>2, <2>1 DEF ObjectOK, OneOwner
<1>6. /\ pc[u] # "unlocking" /\ pc[u] \notin {"unref", "done"}
      /\ pc[u] # "atoms"
  BY <1>2, <1>3, <1>5 DEF Locked, LockedAt, MarkedAt, InBarrier
<1>7. Todo(Txn(u), i)
  <2>1. \A v \in Tasks : Ender(v, Txn(u)) => v = u
    BY <1>4 DEF EndsOnce
  <2>. QED  BY <1>6, <2>1 DEF Todo, Past
<1>8. num[o].owner = Txn(u)
  BY <1>3, <1>4, <1>7 DEF Grouped, AtomOwned, Groups
<1>9. Txn(t) = Txn(u)
  BY <1>0, <1>4, <1>8, WriteOwner
<1>. QED  BY <1>2, <1>4, <1>9, BarrierExcludes, WriteOwner

LEMMA WriteStep ==
  ASSUME Control, EndsOnce, TxnLocked, Grouped, Consistent, NEW t \in Tasks, Write(t)
  PROVE  Consistent'
<1>o. PICK o \in Objects : o = Obj(t)
  BY TaskTxn DEF Control, Write
<1>. DEFINE w == word[o]
<1>0. /\ word \in [Objects -> Word] /\ ShapeOK /\ TaskOK(t) /\ Serve(t)
      /\ pc[t] = "run" /\ sched[t] = "WRITE"
  BY DEF Control, ShapeOK, Serve, Write
<1>1. /\ IsOp(t) /\ IsOp(t)' /\ Obj(t)' = o /\ Obj(t) = o
      /\ Txn(t)' = Txn(t) /\ ~IsEnd(t) /\ ~IsEnd(t)' /\ hold[t] = "WRITE"
  BY <1>o, <1>0, TaskTxn, TaskFacts, ServeRoles DEF OpOK
<1>2. \A u \in Tasks : u # t => RolesKept(u, o)
  BY <1>0, OtherRoles
<1>3. ObjectOK(o) /\ w \in Word /\ w.flags \in SUBSET Flags
  BY <1>0 DEF Consistent, Word
<1>. SUFFICES ObjectOK(o)'
  BY <1>1, Elsewhere DEF Consistent
<1>4. \A u \in Tasks : ~Marked(u, o)
  BY <1>o, <1>3, WriterUnmarked
<1>5. /\ \A u \in Tasks : Excl(u, o) <=> u = t
      /\ \A u \in Tasks : ~Committing(u, o) /\ ~Locked(u, o) /\ ~Publishing(u, o)
  <2>1. Excl(t, o) /\ ~Committing(t, o)
    BY <1>0, <1>1 DEF Excl, Writing, Committing
  <2>2. \A u \in Tasks : (Excl(u, o) <=> u = t) /\ ~Committing(u, o)
    BY <1>3, <2>1 DEF ObjectOK, OneOwner
  <2>. QED  BY <1>4, <2>2, RoleFacts
<1>6. w.flags = {"WRITE"} /\ w.readers = Cardinality(Reading(o))
  <2>1. /\ "WRITE" \in w.flags /\ "COMMIT" \notin w.flags /\ "LOCK" \notin w.flags
        /\ w.readers = Cardinality(Reading(o))
    BY <1>3, <1>4, <1>5 DEF ObjectOK, WordMatches
  <2>. QED  BY <1>3, <2>1 DEF Flags
<1>7. word'[o].readers = w.readers /\ word'[o].flags = {"WRITE", "COMMIT"}
  <2>1. word'[o] = SetCommit(w)
    BY <1>o, <1>0 DEF Write
  <2>. QED  BY <1>6, <2>1 DEF SetCommit, WithFlag
<1>8. /\ hold'[t] \in {"WRITE", "COMMIT"} /\ sched'[t] = "COMMIT"
      /\ pc'[t] \in {"run", "release"}
      /\ hold'[t] = "COMMIT" => word'[o] = Only({"COMMIT", "WRITE"})
  <2>1. word'[o] = SetCommit(word[Obj(t)])
    BY <1>o, <1>0 DEF Write
  <2>. QED  BY <1>0, <1>1, <2>1, WriteMoves DEF Moves, SwitchCommitGranted
<1>9. /\ t \notin Reading(o)' /\ t \notin Reading(o) /\ Writing(t, o)'
      /\ Committing(t, o)' /\ ~Marked(t, o)' /\ ~Locked(t, o)'
      /\ Publishing(t, o)' => word'[o] = Only({"COMMIT", "WRITE"})
  BY <1>1, <1>8 DEF Reading, Writing, Committing, Marked, Locked, Publishing
<1>10. Reading(o)' = Reading(o) /\ Reading(o) \in SUBSET Tasks
  BY <1>2, <1>9 DEF RolesKept, Reading
<1>11. \A u \in Tasks : /\ Excl(u, o)' <=> u = t
                        /\ Committing(u, o)' <=> u = t
                        /\ ~Marked(u, o)' /\ ~Locked(u, o)'
                        /\ Publishing(u, o)' => u = t
  BY <1>2, <1>4, <1>5, <1>9 DEF RolesKept, Excl
<1>12. WordMatches(o)'
  BY <1>6, <1>7, <1>10, <1>11 DEF WordMatches
<1>13. Publishing(t, o)' => Reading(o)' = {}
  <2>. SUFFICES ASSUME Publishing(t, o)' PROVE Reading(o) = {}
    BY <1>10
  <2>1. word'[o].readers = 0
    BY <1>9 DEF Only
  <2>. QED  BY <1>6, <1>7, <1>10, <2>1, CountTasks
<1>14. OneOwner(o)'
  BY <1>11, <1>13 DEF OneOwner
<1>15. CommitterOwns(o)'
  BY <1>1, <1>11, WriteOwner DEF CommitterOwns
<1>. QED  BY <1>12, <1>14, <1>15 DEF ObjectOK

LEMMA ReleaseStep ==
  ASSUME Control, EndsOnce, TxnLocked, Consistent, NEW t \in Tasks, Release(t),
         ~wiped'
  PROVE  Consistent'
<1>o. PICK o \in Objects : o = Obj(t)
  BY TaskTxn DEF Control, Release
<1>. DEFINE w == word[o]
<1>0. /\ word \in [Objects -> Word] /\ ShapeOK /\ TaskOK(t) /\ Serve(t)
      /\ pc[t] = "release"
  BY DEF Control, ShapeOK, Serve, Release
<1>1. /\ IsOp(t) /\ IsOp(t)' /\ Obj(t)' = o /\ Obj(t) = o
      /\ Txn(t)' = Txn(t) /\ ~IsEnd(t) /\ ~IsEnd(t)' /\ OpOK(t)
  BY <1>o, <1>0, TaskTxn, TaskFacts, ServeRoles
<1>2. \A u \in Tasks : u # t => RolesKept(u, o)
  BY <1>0, OtherRoles
<1>3. ObjectOK(o) /\ w \in Word /\ w.flags \in SUBSET Flags /\ w.readers \in Nat
  BY <1>0 DEF Consistent, Word
<1>. SUFFICES ObjectOK(o)'
  BY <1>1, Elsewhere DEF Consistent
<1>4. word'[o] = Released(hold[t], w) /\ num'[o].owner = num[o].owner
  BY <1>o, <1>0 DEF Release
<1>5. /\ hold[t] \in {"READ", "WRITE", "COMMIT"} /\ hold'[t] = "NONE"
      /\ sched'[t] = sched[t]
      /\ pc'[t] = IF errno[t] = "PENDING" THEN "ready" ELSE "notify"
      /\ hold[t] = "READ" <=> sched[t] = "READ"
      /\ hold[t] = "COMMIT" => sched[t] = "COMMIT" /\ errno[t] # "PENDING"
      /\ hold[t] = "WRITE" => (sched[t] = "COMMIT" <=> errno[t] = "PENDING")
  BY <1>0, <1>1, ReleaseMoves DEF OpOK, Moves
<1>6. /\ t \notin Reading(o)' /\ ~Writing(t, o)' /\ ~Publishing(t, o)'
      /\ ~Marked(t, o)' /\ ~Locked(t, o)' /\ ~Marked(t, o) /\ ~Locked(t, o)
      /\ Committing(t, o) <=> sched[t] = "COMMIT"
      /\ Committing(t, o)' <=> sched[t] = "COMMIT" /\ hold[t] = "WRITE"
      /\ t \in Reading(o) <=> hold[t] = "READ"
      /\ Excl(t, o) <=> hold[t] # "READ"
      /\ ~Excl(t, o)'
  BY <1>0, <1>1, <1>5 DEF Reading, Writing, Publishing, Marked, Locked, Committing, Excl
<1>7. Reading(o) \in SUBSET Tasks /\ Reading(o)' = Reading(o) \ {t}
  BY <1>2, <1>6 DEF RolesKept, Reading
<1>8. \A u \in Tasks : u # t => (Excl(u, o)' <=> Excl(u, o))
  BY <1>2 DEF RolesKept, Excl
<1>9. CommitterOwns(o)'
  BY <1>1, <1>2, <1>3, <1>4, <1>6 DEF ObjectOK, CommitterOwns, RolesKept
<1>10. OneOwner(o)'
  <2>1. \A u \in Tasks : /\ Excl(u, o)' => Excl(u, o)
                         /\ Committing(u, o)' => Committing(u, o)
                         /\ Marked(u, o)' => Marked(u, o)
                         /\ Locked(u, o)' => Locked(u, o)
                         /\ Publishing(u, o)' => Publishing(u, o)
                         /\ u \in Reading(o)' => u \in Reading(o)
    BY <1>2, <1>6, <1>7, <1>8 DEF RolesKept
  <2>. QED  BY <1>3, <2>1 DEF ObjectOK, OneOwner
<1>11. /\ w.readers = Cardinality(Reading(o))
       /\ "WRITE" \in w.flags <=> \E u \in Tasks : Excl(u, o)
       /\ "COMMIT" \in w.flags <=> \E u \in Tasks : Committing(u, o)
       /\ "LOCK" \in w.flags <=> \E u \in Tasks : Marked(u, o)
  BY <1>3 DEF ObjectOK, WordMatches
<1>12. \A u \in Tasks : Marked(u, o)' <=> Marked(u, o)
  BY <1>2, <1>6 DEF RolesKept
<1>13. CASE hold[t] = "READ"
  <2>1. Cardinality(Reading(o)') = w.readers - 1 /\ w.readers # 0
    BY <1>6, <1>7, <1>11, <1>13, CountTasks
  <2>2. word'[o] = [readers |-> w.readers - 1, flags |-> w.flags]
    BY <1>3, <1>4, <1>13, <2>1 DEF Released, MinusOne
  <2>3. \A u \in Tasks : /\ Excl(u, o)' <=> Excl(u, o)
                         /\ Committing(u, o)' <=> Committing(u, o)
    BY <1>2, <1>5, <1>6, <1>8, <1>13 DEF RolesKept
  <2>4. WordMatches(o)'
    BY <1>11, <1>12, <2>1, <2>2, <2>3 DEF WordMatches
  <2>. QED  BY <1>9, <1>10, <2>4 DEF ObjectOK
<1>14. CASE hold[t] # "READ"
  <2>1. \A u \in Tasks : ~Excl(u, o)'
    BY <1>3, <1>6, <1>8, <1>14 DEF ObjectOK, OneOwner
  <2>2. Reading(o) = {} /\ Reading(o)' = {}
    <3>1. CASE hold[t] = "WRITE"
      <4>1. ~(w.readers > 0)
        BY <1>o, <3>1 DEF Release
      <4>. QED  BY <1>3, <1>7, <1>11, <4>1, CountTasks
    <3>2. CASE hold[t] = "COMMIT"
      <4>1. Publishing(t, o)
        BY <1>1, <3>2 DEF Publishing, Writing
      <4>. QED  BY <1>3, <1>7, <4>1 DEF ObjectOK, OneOwner
    <3>. QED  BY <1>5, <1>14, <3>1, <3>2
  <2>3. Cardinality(Reading(o)') = 0
    BY <1>7, <2>2, CountTasks
  <2>4. CASE hold[t] = "WRITE"
    <3>1. word'[o] = Only(w.flags \cap {"LOCK", "COMMIT"})
      BY <1>4, <2>4 DEF Released
    <3>2. /\ word'[o].readers = 0 /\ "WRITE" \notin word'[o].flags
          /\ "LOCK" \in word'[o].flags <=> "LOCK" \in w.flags
          /\ "COMMIT" \in word'[o].flags <=> "COMMIT" \in w.flags
      BY <3>1 DEF Only
    <3>3. \A u \in Tasks : Committing(u, o)' <=> Committing(u, o)
      BY <1>2, <1>6, <2>4 DEF RolesKept
    <3>4. WordMatches(o)'
      BY <1>11, <1>12, <2>1, <2>3, <3>2, <3>3 DEF WordMatches
    <3>. QED  BY <1>9, <1>10, <3>4 DEF ObjectOK
  <2>5. CASE hold[t] = "COMMIT"
    <3>1. word'[o] = Only(w.flags \cap {"LOCK"})
      BY <1>4, <2>5 DEF Released
    <3>2. /\ word'[o].readers = 0 /\ "WRITE" \notin word'[o].flags
          /\ "LOCK" \in word'[o].flags <=> "LOCK" \in w.flags
          /\ "COMMIT" \notin word'[o].flags
      BY <3>1 DEF Only
    <3>3. \A u \in Tasks : ~Committing(u, o)'
      BY <1>2, <1>3, <1>5, <1>6, <2>5 DEF RolesKept, ObjectOK, OneOwner
    <3>4. WordMatches(o)'
      BY <1>11, <1>12, <2>1, <2>3, <3>2, <3>3 DEF WordMatches
    <3>. QED  BY <1>9, <1>10, <3>4 DEF ObjectOK
  <2>. QED  BY <1>5, <1>14, <2>4, <2>5
<1>. QED  BY <1>13, <1>14

\* What the three loops over the objects of a transaction have in common.
LEMMA LoopFacts ==
  ASSUME Control, EndsOnce, TxnLocked, Grouped, NEW t \in Tasks,
         MarkObject(t) \/ LockObject(t) \/ UnlockObject(t)
  PROVE  /\ InBarrier(t) /\ IsEnd(t) /\ IsEnd(t)' /\ ~IsOp(t) /\ ~IsOp(t)'
         /\ Txn(t) \in Txns /\ Txn(t)' = Txn(t) /\ Ender(t, Txn(t))
         /\ Groups(t)' = Groups(t)
         /\ idx[t] \in DOMAIN Groups(t) /\ Here(t) = Groups(t)[idx[t]]
         /\ Here(t) \in Objects /\ idx[t] \in Nat
         /\ \A i \in DOMAIN Groups(t) : i \in Nat /\ (Groups(t)[i] = Here(t) <=> i = idx[t])
         /\ \A o \in Objects : num'[o].owner = num[o].owner
         /\ sched'[t] = sched[t]
         /\ \/ pc[t] = "flagging" /\ MarkObject(t)
            \/ pc[t] = "ready" /\ sched[t] = "LOCK" /\ LockObject(t)
            \/ pc[t] = "unlocking" /\ UnlockObject(t)
<1>0. ShapeOK /\ TaskOK(t) /\ Serve(t) /\ group \in [Txns -> Seq(Objects)]
  BY DEF Control, ShapeOK, Serve
<1>1. /\ InBarrier(t) /\ idx[t] <= Len(Groups(t)) /\ sched'[t] = sched[t]
      /\ \/ pc[t] = "flagging" /\ MarkObject(t)
         \/ pc[t] = "ready" /\ sched[t] = "LOCK" /\ LockObject(t)
         \/ pc[t] = "unlocking" /\ UnlockObject(t)
  BY MarkObjectMoves, LockObjectMoves, UnlockObjectMoves DEF InBarrier, Moves, Walks
<1>2. IsEnd(t) /\ Txn(t) \in Txns /\ Ender(t, Txn(t)) /\ ~IsOp(t)
  BY <1>1, BarrierAlone DEF IsEnd, IsOp
<1>3. IsEnd(t)' /\ ~IsOp(t)' /\ Txn(t)' = Txn(t)
  BY <1>0, <1>2, ServeRoles
<1>4. Groups(t)' = Groups(t)
  BY <1>3 DEF MarkObject, LockObject, UnlockObject, txnVars, Groups
<1>5. /\ idx[t] \in DOMAIN Groups(t) /\ Here(t) = Groups(t)[idx[t]]
      /\ Here(t) \in Objects /\ idx[t] \in Nat
  BY <1>0, <1>1, TaskHere, LocalTypes DEF Here
<1>6. ~Past(Txn(t), {"unref", "done"})
  <2>1. \A u \in Tasks : Ender(u, Txn(t)) => u = t
    BY <1>2 DEF EndsOnce
  <2>. QED  BY <1>1, <2>1 DEF Past
<1>7. \A i \in DOMAIN Groups(t) : i \in Nat /\ (Groups(t)[i] = Here(t) <=> i = idx[t])
  BY <1>0, <1>2, <1>5, <1>6 DEF Grouped, GroupsOnce, Groups
<1>8. \A o \in Objects : num'[o].owner = num[o].owner
  BY DEF MarkObject, LockObject, UnlockObject
<1>. QED  BY <1>1, <1>2, <1>3, <1>4, <1>5, <1>7, <1>8

\* A turn of a loop concerns the word of its object only.
LEMMA ElsewhereTxn ==
  ASSUME Control, EndsOnce, TxnLocked, Grouped, Consistent, NEW t \in Tasks,
         MarkObject(t) \/ LockObject(t) \/ UnlockObject(t),
         NEW o \in Objects, o # Here(t)
  PROVE  ObjectOK(o)'
<1>0. Serve(t) /\ word \in [Objects -> Word]
  BY DEF Serve, Control, ShapeOK
<1>1. ASSUME NEW i \in DOMAIN Groups(t), i # idx[t]
      PROVE  /\ MarkedAt(t, i)' <=> MarkedAt(t, i)
             /\ LockedAt(t, i)' <=> LockedAt(t, i)
  <2>1. i \in Nat /\ idx[t] \in Nat
    BY <1>1, LoopFacts
  <2>2. \/ pc'[t] = pc[t] /\ idx'[t] = idx[t] + 1 /\ sched'[t] = sched[t]
        \/ /\ pc[t] = "ready" /\ pc'[t] = "parked" /\ idx'[t] = idx[t]
           /\ sched'[t] = sched[t]
    BY MarkObjectMoves, LockObjectMoves, UnlockObjectMoves DEF Moves, Walks
  <2>. QED  BY <1>1, <2>1, <2>2 DEF MarkedAt, LockedAt
<1>2. (Marked(t, o)' <=> Marked(t, o)) /\ (Locked(t, o)' <=> Locked(t, o))
  <2>1. IsEnd(t) /\ IsEnd(t)' /\ Groups(t)' = Groups(t)
    BY LoopFacts
  <2>2. \A i \in DOMAIN Groups(t) : Groups(t)[i] = o => i # idx[t]
    BY LoopFacts
  <2>. QED  BY <1>1, <2>1, <2>2 DEF Marked, Locked
<1>3. RolesKept(t, o)
  BY <1>2, LoopFacts, EndRoles
<1>4. word'[o] = word[o]
  BY <1>0 DEF MarkObject, LockObject, UnlockObject
<1>5. num'[o].owner = num[o].owner
  BY LoopFacts
<1>6. \A u \in Tasks : RolesKept(u, o)
  BY <1>0, <1>3, OtherRoles
<1>. QED  BY <1>4, <1>5, <1>6, ObjectFrame DEF Consistent

\* An object of a transaction alone is committed by nobody.
LEMMA NoCommitter ==
  ASSUME Control, EndsOnce, TxnLocked, Grouped, NEW t \in Tasks, NEW o \in Objects,
         MarkObject(t), o = Here(t), ObjectOK(o), NEW u \in Tasks
  PROVE  ~Committing(u, o)
<1>. SUFFICES ASSUME Committing(u, o) PROVE FALSE
  OBVIOUS
<1>1. /\ InBarrier(t) /\ Txn(t) \in Txns /\ Ender(t, Txn(t)) /\ pc[t] = "flagging"
      /\ idx[t] \in DOMAIN Groups(t) /\ Here(t) = Groups(t)[idx[t]]
  BY LoopFacts, MarkObjectMoves
<1>2. Todo(Txn(t), idx[t])
  <2>1. \A v \in Tasks : Ender(v, Txn(t)) => v = t
    BY <1>1 DEF EndsOnce
  <2>. QED  BY <1>1, <2>1 DEF Todo, Past
<1>3. num[o].owner = Txn(t)
  BY <1>1, <1>2 DEF Grouped, AtomOwned, Groups
<1>4. Txn(u) = Txn(t)
  BY <1>3 DEF ObjectOK, CommitterOwns
<1>5. InTxn(u, Txn(t))
  BY <1>4 DEF Committing, InTxn
<1>. QED  BY <1>1, <1>5, BarrierExcludes

LEMMA MarkObjectStep ==
  ASSUME Control, EndsOnce, TxnLocked, Grouped, Consistent, NEW t \in Tasks,
         MarkObject(t)
  PROVE  Consistent'
<1>o. PICK o \in Objects : o = Here(t)
  BY LoopFacts
<1>0. /\ word \in [Objects -> Word] /\ Serve(t) /\ ObjectOK(o)
  BY DEF Control, ShapeOK, Serve, Consistent
<1>. SUFFICES ObjectOK(o)'
  BY <1>o, ElsewhereTxn DEF Consistent
<1>1. \A u \in Tasks : u # t => RolesKept(u, o)
  BY <1>0, OtherRoles
<1>2. /\ pc[t] = "flagging" /\ pc'[t] = "flagging" /\ idx'[t] = idx[t] + 1
      /\ idx[t] \in Nat
  BY MarkObjectMoves, LoopFacts DEF Moves
<1>3. Marked(t, o)' /\ ~Locked(t, o) /\ ~Locked(t, o)'
  <2>. PICK k \in DOMAIN Groups(t) : k = idx[t]
    BY LoopFacts
  <2>1. MarkedAt(t, k)'
    BY <1>2 DEF MarkedAt
  <2>2. \A i : ~LockedAt(t, i) /\ ~LockedAt(t, i)'
    BY <1>2 DEF LockedAt
  <2>. QED  BY <1>o, <2>1, <2>2, LoopFacts DEF Marked, Locked
<1>4. /\ t \notin Reading(o) /\ ~Writing(t, o) /\ ~Publishing(t, o)
      /\ ~Committing(t, o) /\ t \notin Reading(o)' /\ ~Writing(t, o)'
      /\ ~Publishing(t, o)' /\ ~Committing(t, o)'
  BY LoopFacts DEF Reading, Writing, Publishing, Committing
<1>5. word'[o].readers = word[o].readers /\ word'[o].flags = word[o].flags \cup {"LOCK"}
  <2>1. word'[o] = SetLock(word[o])
    BY <1>o, <1>0 DEF MarkObject
  <2>. QED  BY <2>1 DEF SetLock, WithFlag
<1>6. Reading(o)' = Reading(o)
  BY <1>1, <1>4 DEF RolesKept, Reading
<1>7. \A u \in Tasks : /\ Excl(u, o)' <=> Excl(u, o)
                       /\ Locked(u, o)' <=> Locked(u, o)
                       /\ Publishing(u, o)' <=> Publishing(u, o)
                       /\ ~Committing(u, o) /\ ~Committing(u, o)'
  <2>1. \A u \in Tasks : ~Committing(u, o)
    BY <1>o, <1>0, NoCommitter
  <2>. QED  BY <1>1, <1>3, <1>4, <2>1 DEF RolesKept, Excl
<1>8. WordMatches(o)'
  BY <1>0, <1>3, <1>5, <1>6, <1>7 DEF ObjectOK, WordMatches
<1>9. OneOwner(o)'
  BY <1>0, <1>6, <1>7 DEF ObjectOK, OneOwner
<1>10. CommitterOwns(o)'
  BY <1>7 DEF CommitterOwns
<1>. QED  BY <1>8, <1>9, <1>10 DEF ObjectOK

LEMMA LockObjectStep ==
  ASSUME Control, EndsOnce, TxnLocked, Grouped, Consistent, NEW t \in Tasks,
         LockObject(t)
  PROVE  Consistent'
<1>o. PICK o \in Objects : o = Here(t)
  BY LoopFacts
<1>0. /\ word \in [Objects -> Word] /\ Serve(t) /\ ObjectOK(o)
      /\ pc[t] = "ready" /\ sched[t] = "LOCK" /\ idx[t] \in Nat
  BY LoopFacts, LockObjectMoves DEF Control, ShapeOK, Serve, Consistent
<1>. SUFFICES ObjectOK(o)'
  BY <1>o, ElsewhereTxn DEF Consistent
<1>1. \A u \in Tasks : u # t => RolesKept(u, o)
  BY <1>0, OtherRoles
<1>2. num'[o].owner = num[o].owner
  BY LoopFacts
<1>3. CASE Walks(t, "parked") /\ word' = word
  <2>1. \A i : /\ MarkedAt(t, i)' <=> MarkedAt(t, i)
               /\ LockedAt(t, i)' <=> LockedAt(t, i)
    BY <1>0, <1>3 DEF MarkedAt, LockedAt, Walks, Moves
  <2>2. (Marked(t, o)' <=> Marked(t, o)) /\ (Locked(t, o)' <=> Locked(t, o))
    BY <2>1, LoopFacts DEF Marked, Locked
  <2>3. RolesKept(t, o)
    BY <2>2, LoopFacts, EndRoles
  <2>. QED  BY <1>0, <1>1, <1>2, <1>3, <2>3, ObjectFrame
<1>4. CASE /\ word[o] = Only({"LOCK"}) /\ word'[o] = Only({"LOCK", "WRITE"})
           /\ Moves(t, pc[t], sched[t], hold[t], idx[t] + 1, ctype[t], errno[t])
  <2>1. /\ word[o].readers = 0 /\ word[o].flags = {"LOCK"}
        /\ word'[o].readers = 0 /\ word'[o].flags = {"LOCK", "WRITE"}
    BY <1>4 DEF Only
  <2>2. Reading(o) \in SUBSET Tasks /\ word[o].readers = Cardinality(Reading(o))
    BY <1>0 DEF ObjectOK, WordMatches, Reading
  <2>3. Reading(o) = {}
    BY <2>1, <2>2, CountTasks
  <2>4. \A u \in Tasks : ~Excl(u, o) /\ ~Committing(u, o)
    BY <1>0, <2>1 DEF ObjectOK, WordMatches
  <2>5. /\ t \notin Reading(o)' /\ ~Committing(t, o)'
    BY LoopFacts DEF Reading, Committing
  <2>6. Marked(t, o) /\ Marked(t, o)' /\ Locked(t, o)'
    <3>. PICK k \in DOMAIN Groups(t) : k = idx[t]
      BY LoopFacts
    <3>1. MarkedAt(t, k) /\ MarkedAt(t, k)' /\ LockedAt(t, k)'
      BY <1>0, <1>4 DEF MarkedAt, LockedAt, Moves
    <3>. QED  BY <1>o, <3>1, LoopFacts DEF Marked, Locked
  <2>7. Reading(o)' = Reading(o)
    BY <1>1, <2>3, <2>5 DEF RolesKept, Reading
  <2>8. \A u \in Tasks : /\ Excl(u, o)' <=> u = t
                         /\ Marked(u, o)' <=> Marked(u, o)
                         /\ ~Committing(u, o)'
    <3>1. \A u \in Tasks : u # t => /\ Excl(u, o)' <=> Excl(u, o)
                                    /\ Marked(u, o)' <=> Marked(u, o)
                                    /\ Committing(u, o)' <=> Committing(u, o)
      BY <1>1 DEF RolesKept, Excl
    <3>2. Excl(t, o)'
      BY <2>6 DEF Excl
    <3>. QED  BY <2>4, <2>5, <2>6, <3>1, <3>2
  <2>9. WordMatches(o)'
    BY <1>0, <2>1, <2>2, <2>7, <2>8 DEF ObjectOK, WordMatches
  <2>10. OneOwner(o)'
    BY <2>3, <2>7, <2>8 DEF OneOwner
  <2>11. CommitterOwns(o)'
    BY <2>8 DEF CommitterOwns
  <2>. QED  BY <2>9, <2>10, <2>11 DEF ObjectOK
<1>5. CASE /\ Refused("LOCK", word[Here(t)]) /\ UNCHANGED <<word, idx>>
           /\ pc' = [pc EXCEPT ![t] = "parked"]
  <2>1. Walks(t, "parked") /\ word' = word
    BY <1>5, LocalTypes DEF LockObject, Walks, Moves
  <2>. QED  BY <1>3, <2>1
<1>6. CASE /\ Granted("LOCK", word[Here(t)]) /\ UNCHANGED <<waitq, pc>>
           /\ word' = [word EXCEPT ![Here(t)] = Acquired("LOCK", @)]
           /\ idx' = [idx EXCEPT ![t] = @ + 1]
  <2>1. word[o] = Only({"LOCK"}) /\ word'[o] = Only({"LOCK", "WRITE"})
    BY <1>o, <1>0, <1>6 DEF Granted, Acquired
  <2>2. Moves(t, pc[t], sched[t], hold[t], idx[t] + 1, ctype[t], errno[t])
    BY <1>6, LocalTypes DEF LockObject, Moves
  <2>. QED  BY <1>4, <2>1, <2>2
<1>. QED  BY <1>5, <1>6 DEF LockObject

LEMMA UnlockObjectStep ==
  ASSUME Control, EndsOnce, TxnLocked, Grouped, Consistent, NEW t \in Tasks,
         UnlockObject(t)
  PROVE  Consistent'
<1>o. PICK o \in Objects : o = Here(t)
  BY LoopFacts
<1>0. /\ word \in [Objects -> Word] /\ Serve(t) /\ ObjectOK(o)
      /\ pc[t] = "unlocking" /\ pc'[t] = "unlocking" /\ idx'[t] = idx[t] + 1
      /\ idx[t] \in Nat /\ InBarrier(t)
  BY LoopFacts, UnlockObjectMoves DEF Control, ShapeOK, Serve, Consistent, Moves
<1>. SUFFICES ObjectOK(o)'
  BY <1>o, ElsewhereTxn DEF Consistent
<1>1. \A u \in Tasks : u # t => RolesKept(u, o)
  BY <1>0, OtherRoles
<1>2. Locked(t, o) /\ Marked(t, o) /\ ~Locked(t, o)' /\ ~Marked(t, o)'
  <2>1. MarkedAt(t, idx[t]) /\ LockedAt(t, idx[t])
    BY <1>0 DEF MarkedAt, LockedAt
  <2>. PICK k \in DOMAIN Groups(t) : k = idx[t]
    BY LoopFacts
  <2>2. ~MarkedAt(t, k)' /\ ~LockedAt(t, k)'
    BY <1>0 DEF MarkedAt, LockedAt
  <2>3. \A i \in DOMAIN Groups(t) : Groups(t)[i] = o => i = idx[t]
    BY <1>o, LoopFacts
  <2>. QED  BY <1>o, <2>1, <2>2, <2>3, LoopFacts DEF Marked, Locked
<1>3. \A u \in Tasks : Marked(u, o) => u = t
  <2>. SUFFICES ASSUME NEW u \in Tasks, Marked(u, o) PROVE u = t
    OBVIOUS
  <2>1. pending[o] = Txn(t) /\ pending[o] = Txn(u)
    BY <1>2 DEF Grouped, MarksHeld, Marked
  <2>. QED  BY <1>0, <2>1, RoleFacts, BarrierExcludes
<1>4. /\ Reading(o) = {} /\ Reading(o) \in SUBSET Tasks
      /\ \A u \in Tasks : ~Committing(u, o) /\ (Excl(u, o) <=> u = t)
  BY <1>0, <1>2 DEF ObjectOK, OneOwner, Reading, Excl
<1>5. /\ t \notin Reading(o)' /\ ~Committing(t, o)' /\ ~Excl(t, o)'
  BY <1>2, LoopFacts DEF Reading, Committing, Excl, Writing
<1>6. Reading(o)' = {}
  BY <1>1, <1>4, <1>5 DEF RolesKept, Reading
<1>7. \A u \in Tasks : ~Excl(u, o)' /\ ~Marked(u, o)' /\ ~Committing(u, o)'
  <2>1. \A u \in Tasks : u # t => /\ Excl(u, o)' <=> Excl(u, o)
                                  /\ Marked(u, o)' <=> Marked(u, o)
                                  /\ Committing(u, o)' <=> Committing(u, o)
    BY <1>1 DEF RolesKept, Excl
  <2>. QED  BY <1>2, <1>3, <1>4, <1>5, <2>1
<1>8. word'[o].readers = 0 /\ word'[o].flags = {}
  <2>1. word'[o] = Zero
    BY <1>o, <1>0 DEF UnlockObject, Released
  <2>. QED  BY <2>1 DEF Zero
<1>9. Cardinality(Reading(o)') = 0
  BY <1>4, <1>6, CountTasks
<1>10. WordMatches(o)'
  BY <1>7, <1>8, <1>9 DEF WordMatches
<1>11. OneOwner(o)' /\ CommitterOwns(o)'
  BY <1>6, <1>7 DEF OneOwner, CommitterOwns
<1>. QED  BY <1>10, <1>11 DEF ObjectOK

LEMMA AtomStep ==
  ASSUME Control, EndsOnce, TxnLocked, Grouped, Consistent, NEW t \in Tasks,
         DoAtom(t)
  PROVE  Consistent'
<1>0. Serve(t)
  BY DEF Serve
<1>. SUFFICES ASSUME NEW o \in Objects PROVE ObjectOK(o)'
  BY DEF Consistent
<1>1. word' = word /\ \A u \in Tasks : RolesKept(u, o)
  <2>1. RolesKept(t, o) /\ word' = word
    <3>1. pc[t] = "atoms"
      BY DEF DoAtom
    <3>2. /\ ~Take(t) /\ ~Write(t) /\ ~Release(t)
          /\ ~MarkObject(t) /\ ~LockObject(t) /\ ~UnlockObject(t)
      BY <3>1 DEF Take, Write, Release, MarkObject, LockObject, UnlockObject
    <3>. QED  BY <1>0, <3>2, QuietRoles
  <2>. QED  BY <1>0, <2>1, OtherRoles
<1>2. ObjectOK(o)
  BY DEF Consistent
<1>3. CASE o # Here(t)
  <2>1. num'[o].owner = num[o].owner
    BY <1>3, DoAtomOwner
  <2>. QED  BY <1>1, <1>2, <2>1, ObjectFrame
<1>4. CASE o = Here(t)
  <2>1. Marked(t, o)
    <3>1. InBarrier(t) /\ pc[t] = "atoms"
      BY DoAtomOwner
    <3>2. IsEnd(t) /\ MarkedAt(t, idx[t])
      BY <3>1, BarrierAlone DEF MarkedAt, EndOK
    <3>. QED  BY <1>4, <3>2, DoAtomOwner DEF Marked, Groups
  <2>2. \A u \in Tasks : ~Committing(u, o)
    BY <1>2, <2>1 DEF ObjectOK, OneOwner
  <2>3. Reading(o)' = Reading(o)
    BY <1>1 DEF Reading, RolesKept
  <2>4. \A u \in Tasks : Excl(u, o)' <=> Excl(u, o)
    BY <1>1 DEF RolesKept, Excl
  <2>5. WordMatches(o)'
    BY <1>1, <1>2, <2>3, <2>4 DEF ObjectOK, WordMatches, RolesKept
  <2>6. OneOwner(o)'
    BY <1>1, <1>2, <2>3, <2>4 DEF ObjectOK, OneOwner, RolesKept
  <2>7. CommitterOwns(o)'
    BY <1>1, <2>2 DEF CommitterOwns, RolesKept
  <2>. QED  BY <2>5, <2>6, <2>7 DEF ObjectOK
<1>. QED  BY <1>3, <1>4

\* Only a release gives up a WRITE under a reader.
LEMMA WipedStays ==
  ASSUME [Next]_vars, ShapeOK, ~wiped'
  PROVE  ~wiped
<1>1. ASSUME NEW t \in Tasks, ~Release(t), Serve(t) \/ \E r \in Requests : Sends(t, r)
      PROVE  wiped' = wiped
  <2>. USE DEF hist
  <2>1. CASE \E r \in Requests : Sends(t, r)
    BY <2>1 DEF Sends, Submit, SubmitEnd
  <2>2. CASE JoinTxn(t) \/ CloseTxn(t) \/ Check(t) \/ Take(t) \/ Read(t)
             \/ WriteFails(t) \/ Write(t) \/ Publish(t)
    BY <2>2 DEF JoinTxn, CloseTxn, Check, Take, Read, WriteFails, Write, Publish
  <2>3. CASE Notify(t) \/ LeaveTxn(t) \/ Unref(t) \/ TakeTxn(t) \/ Barrier(t)
             \/ MarkObject(t) \/ BarrierUp(t)
    BY <2>3 DEF Notify, LeaveTxn, Unref, TakeTxn, Barrier, MarkObject, BarrierUp
  <2>4. CASE LockObject(t) \/ Decide(t) \/ DoAtom(t) \/ Complete(t)
             \/ UnlockObject(t) \/ FinishEnd(t)
    BY <2>4 DEF LockObject, Decide, DoAtom, Complete, UnlockObject, FinishEnd
  <2>. QED  BY <1>1, <2>1, <2>2, <2>3, <2>4 DEF Serve
<1>2. ASSUME NEW t \in Tasks, Release(t) PROVE ~wiped
  BY <1>2 DEF Release
<1>3. CASE (\E x \in Txns : Begin(x)) \/ UNCHANGED vars
  BY <1>3 DEF Begin, hist, vars
<1>. QED  BY <1>1, <1>2, <1>3, StepCases

LEMMA ConsistentStep ==
  ASSUME Base, Consistent, [Next]_vars, ~wiped'
  PROVE  Consistent'
<1>0. Control /\ EndsOnce /\ TxnLocked /\ Grouped /\ ShapeOK
  BY DEF Base, Control
<1>1. ASSUME NEW t \in Tasks, Serve(t) \/ \E r \in Requests : Sends(t, r)
      PROVE  Consistent'
  <2>1. CASE Take(t) \/ Write(t) \/ Release(t)
    BY <1>0, <2>1, TakeStep, WriteStep, ReleaseStep
  <2>2. CASE MarkObject(t) \/ LockObject(t) \/ UnlockObject(t) \/ DoAtom(t)
    BY <1>0, <2>2, MarkObjectStep, LockObjectStep, UnlockObjectStep, AtomStep
  <2>3. CASE /\ ~(Take(t) \/ Write(t) \/ Release(t)) /\ ~DoAtom(t)
             /\ ~(MarkObject(t) \/ LockObject(t) \/ UnlockObject(t))
    <3>. SUFFICES ASSUME NEW o \in Objects PROVE ObjectOK(o)'
      BY DEF Consistent
    <3>1. RolesKept(t, o) /\ word' = word
      BY <1>0, <1>1, <2>3, QuietRoles
    <3>2. \A u \in Tasks : RolesKept(u, o)
      BY <1>0, <1>1, <3>1, OtherRoles
    <3>3. num'[o].owner = num[o].owner
      BY <1>0, <1>1, <2>3, OwnersStay
    <3>. QED  BY <3>1, <3>2, <3>3, ObjectFrame DEF Consistent
  <2>. QED  BY <2>1, <2>2, <2>3
<1>2. CASE UNCHANGED <<word, num, group, taskVars>>
  <2>. SUFFICES ASSUME NEW o \in Objects PROVE ObjectOK(o)'
    BY DEF Consistent
  <2>1. \A u \in Tasks : RolesKept(u, o)
    BY <1>2 DEF RolesKept, taskVars, Reading, Writing, Publishing, Committing,
       Marked, MarkedAt, Locked, LockedAt, Groups, Txn, Obj, IsOp, IsEnd
  <2>. QED  BY <1>2, <2>1, ObjectFrame DEF Consistent
<1>3. ASSUME NEW x \in Txns, Begin(x) PROVE Consistent'
  BY <1>2, <1>3 DEF Begin, objVars, taskVars
<1>4. CASE UNCHANGED vars
  BY <1>2, <1>4 DEF vars, objVars, txnVars, taskVars
<1>. QED  BY <1>0, <1>1, <1>3, <1>4, StepCases

LEMMA InitConsistent == Init => Consistent
<1>. SUFFICES ASSUME Init, NEW o \in Objects PROVE ObjectOK(o)
  BY DEF Consistent
<1>1. \A u \in Tasks : ~IsOp(u) /\ ~IsEnd(u)
  <2>1. NoRequest.kind = "NONE"
    BY DEF NoRequest
  <2>. QED  BY <2>1 DEF Init, IsOp, IsEnd
<1>2. /\ Reading(o) = {}
      /\ \A u \in Tasks : ~Excl(u, o) /\ ~Committing(u, o) /\ ~Marked(u, o)
                          /\ ~Locked(u, o) /\ ~Publishing(u, o)
  BY <1>1 DEF Reading, Excl, Writing, Publishing, Committing, Marked, Locked
<1>3. Cardinality(Reading(o)) = 0
  BY <1>2, CountTasks
<1>4. word[o].readers = 0 /\ word[o].flags = {}
  BY DEF Init, Zero
<1>5. WordMatches(o)
  BY <1>2, <1>3, <1>4 DEF WordMatches
<1>. QED  BY <1>2, <1>5 DEF ObjectOK, OneOwner, CommitterOwns

\* The LOCK and COMMIT flags, which wait for each other for good, are never
\* set together on an object, as long as no WRITE was given up under a reader.
THEOREM FlagsApart == Spec => []NoFlagClash
<1>. DEFINE Inv == Base /\ (~wiped => Consistent)
<1>1. Init => Inv
  BY InitBase, InitConsistent
<1>2. Inv /\ [Next]_vars => Inv'
  <2>. SUFFICES ASSUME Inv, [Next]_vars PROVE Inv'
    OBVIOUS
  <2>1. Base'
    BY BaseStep
  <2>2. ~wiped' => Consistent'
    <3>. SUFFICES ASSUME ~wiped' PROVE Consistent'
      OBVIOUS
    <3>1. ~wiped
      BY WipedStays DEF Base, Control
    <3>. QED  BY <3>1, ConsistentStep
  <2>. QED  BY <2>1, <2>2
<1>3. Inv => NoFlagClash
  <2>. SUFFICES ASSUME Inv, ~wiped, NEW o \in Objects,
                       {"COMMIT", "LOCK"} \subseteq word[o].flags
                PROVE  FALSE
    BY DEF NoFlagClash
  <2>1. WordMatches(o) /\ OneOwner(o)
    BY DEF Consistent, ObjectOK
  <2>2. PICK t, u \in Tasks : Committing(t, o) /\ Marked(u, o)
    BY <2>1 DEF WordMatches
  <2>. QED  BY <2>1, <2>2 DEF OneOwner
<1>. QED  BY <1>1, <1>2, <1>3, PTL DEF Spec

-----------------------------------------------------------------------------
\* How the end of a transaction gets past its atoms, and past its locks.
LEMMA PastGrows ==
  ASSUME Control, NEW t \in Tasks, NEW x \in Txns,
         Serve(t) \/ \E r \in Requests : Sends(t, r)
  PROVE  /\ Past(x, {"unref", "done"})' /\ ~Past(x, {"unref", "done"}) =>
              FinishEnd(t) /\ Ender(t, x)
         /\ (Past(x, {"unlocking", "unref", "done"})'
               /\ ~Past(x, {"unlocking", "unref", "done"})) =>
              Complete(t) /\ Ender(t, x)
<1>0. ShapeOK /\ TaskOK(t)
  BY DEF Control
<1>1. ASSUME NEW u \in Tasks, Ender(u, x)', pc'[u] \in {"unlocking", "unref", "done"}
      PROVE  /\ Ender(u, x)
             /\ \/ pc'[u] = pc[u]
                \/ u = t /\ FinishEnd(t) /\ pc[t] = "unlocking"
                \/ pc[u] = "unref" /\ pc'[u] = "done"
                \/ u = t /\ Complete(t) /\ pc'[u] = "unlocking"
  <2>1. CASE u # t
    <3>1. Same(u)
      BY <2>1, Frames
    <3>. QED  BY <1>1, <3>1 DEF Same, Ender, IsEnd, Txn
  <2>2. CASE u = t /\ Serve(t)
    <3>1. Ender(t, x)
      BY <1>1, <2>2, ServeRoles
    <3>2. pc[t] # "new" /\ IsEnd(t) /\ EndOK(t)
      BY <1>0, <2>2, <3>1, ServeRoles, TaskFacts DEF Ender
    <3>3. CASE JoinTxn(t) \/ Read(t) \/ WriteFails(t) \/ Write(t) \/ Publish(t)
               \/ Release(t) \/ Notify(t) \/ LeaveTxn(t) \/ Take(t)
      BY <3>2, <3>3 DEF JoinTxn, Read, WriteFails, Write, Publish, Release,
                        Notify, LeaveTxn, Take, EndOK
    <3>4. CASE CloseTxn(t) \/ Check(t) \/ TakeTxn(t) \/ Barrier(t)
               \/ BarrierUp(t) \/ Decide(t)
      BY <1>1, <2>2, <3>4, CloseTxnMoves, CheckMoves, TakeTxnMoves,
         BarrierMoves, BarrierUpMoves, DecideMoves DEF Moves, Walks
    <3>5. CASE MarkObject(t) \/ LockObject(t) \/ DoAtom(t) \/ UnlockObject(t)
      BY <1>1, <2>2, <3>1, <3>5, MarkObjectMoves, LockObjectMoves,
         DoAtomMoves, UnlockObjectMoves DEF Moves, Walks
    <3>6. CASE Unref(t) \/ Complete(t) \/ FinishEnd(t)
      BY <2>2, <3>1, <3>6, UnrefMoves, CompleteMoves, FinishEndMoves
         DEF Moves, Walks
    <3>. QED  BY <2>2, <3>3, <3>4, <3>5, <3>6 DEF Serve
  <2>3. ASSUME NEW r \in Requests, u = t, Sends(t, r) PROVE FALSE
    <3>1. CASE Submit(t, r)
      <4>1. ~IsEnd(t)'
        BY <3>1, SubmitMoves DEF IsEnd
      <4>. QED  BY <1>1, <2>3, <4>1 DEF Ender
    <3>2. CASE SubmitEnd(t, r)
      <4>1. pc'[t] = "closing" \/ errno'[t] = "TXN_NOT_FOUND"
        BY <3>2, SubmitEndMoves DEF Moves
      <4>. QED  BY <1>1, <2>3, <4>1 DEF Ender
    <3>. QED  BY <2>3, <3>1, <3>2 DEF Sends
  <2>. QED  BY <2>1, <2>2, <2>3
<1>2. ASSUME Past(x, {"unref", "done"})', ~Past(x, {"unref", "done"})
      PROVE  FinishEnd(t) /\ Ender(t, x)
  <2>1. PICK u \in Tasks : Ender(u, x)' /\ pc'[u] \in {"unref", "done"}
    BY <1>2 DEF Past
  <2>. QED  BY <1>1, <1>2, <2>1 DEF Past
<1>3. ASSUME Past(x, {"unlocking", "unref", "done"})',
             ~Past(x, {"unlocking", "unref", "done"})
      PROVE  Complete(t) /\ Ender(t, x)
  <2>1. PICK u \in Tasks : Ender(u, x)' /\ pc'[u] \in {"unlocking", "unref", "done"}
    BY <1>3 DEF Past
  <2>. QED  BY <1>1, <1>3, <2>1 DEF Past
<1>. QED  BY <1>2, <1>3

\* An atom stays to be done until it is done.
LEMMA TodoStays ==
  ASSUME Control, NEW t \in Tasks, NEW x \in Txns, NEW i \in DOMAIN group[x],
         Todo(x, i), ~DoAtom(t) \/ Txn(t) # x \/ i # idx[t],
         Serve(t) \/ \E r \in Requests : Sends(t, r)
  PROVE  Todo(x, i)'
<1>0. /\ group \in [Txns -> Seq(Objects)] /\ i \in Nat /\ i >= 1 /\ i <= Len(group[x])
      /\ Len(group[x]) \in Nat
  BY DEF Control, ShapeOK
<1>1. ~Past(x, {"unlocking", "unref", "done"})'
  <2>. SUFFICES ASSUME Past(x, {"unlocking", "unref", "done"})' PROVE FALSE
    OBVIOUS
  <2>1. Complete(t) /\ Ender(t, x)
    BY PastGrows DEF Todo
  <2>2. i >= idx[t] /\ idx[t] > Len(group[x]) /\ idx[t] \in Nat
    BY <2>1, CompleteMoves, LocalTypes DEF Todo, Ender, Groups
  <2>. QED  BY <1>0, <2>2
<1>2. ASSUME NEW u \in Tasks, Ender(u, x)', pc'[u] = "atoms" PROVE i >= idx'[u]
  <2>1. CASE u # t
    <3>1. Same(u)
      BY <2>1, Frames
    <3>2. Ender(u, x) /\ pc[u] = "atoms"
      BY <1>2, <3>1 DEF Same, Ender, IsEnd, Txn
    <3>. QED  BY <3>1, <3>2 DEF Same, Todo
  <2>2. CASE u = t
    <3>1. InBarrier(t)'
      BY <1>2, <2>2 DEF InBarrier
    <3>2. CASE Decide(t)
      BY <1>0, <2>2, <3>2, DecideMoves DEF Moves
    <3>3. CASE DoAtom(t)
      <4>1. Ender(t, x) /\ Txn(t) = x
        <5>1. Serve(t)
          BY <3>3 DEF Serve
        <5>. QED  BY <1>2, <2>2, <5>1, ServeRoles DEF Ender
      <4>2. pc[t] = "atoms" /\ idx'[t] = idx[t] + 1 /\ idx[t] \in Nat /\ i # idx[t]
        BY <3>3, <4>1, DoAtomMoves, LocalTypes DEF Moves
      <4>3. i >= idx[t]
        BY <4>1, <4>2 DEF Todo
      <4>. QED  BY <1>0, <2>2, <4>2, <4>3
    <3>4. CASE Barrier(t) \/ MarkObject(t) \/ BarrierUp(t) \/ LockObject(t)
               \/ Complete(t) \/ UnlockObject(t)
      BY <1>2, <2>2, <3>4, BarrierMoves, MarkObjectMoves, BarrierUpMoves,
         LockObjectMoves, CompleteMoves, UnlockObjectMoves DEF Moves, Walks
    <3>. QED  BY <3>1, <3>2, <3>3, <3>4, IntoBarrier
  <2>. QED  BY <2>1, <2>2
<1>. QED  BY <1>1, <1>2 DEF Todo

\* Who is in a transaction when a step of t begins or ends.
Ending == InsideOpen /\ NobodyLate /\ OwnerHasAtom

\* A task in a transaction works before the end of it, unless it came late.
LEMMA InsideBefore ==
  ASSUME Control, EndsOnce, TxnLocked, NobodyLate, NEW t \in Tasks,
         NEW x \in Txns, InTxn(t, x), NEW u \in Tasks, Ender(u, x)
  PROVE  pc[u] \notin {"flagging", "atoms", "unlocking", "unref", "done"}
<1>1. ~InBarrier(u)
  BY BarrierExcludes DEF Ender
<1>2. pc[u] \notin {"unref", "done"}
  BY DEF NobodyLate, Past, Inside
<1>. QED  BY <1>1, <1>2 DEF InBarrier

LEMMA TstateStays ==
  ASSUME NEW t \in Tasks, ~WriteFails(t), ~Complete(t),
         Serve(t) \/ \E r \in Requests : Sends(t, r)
  PROVE  tstate' = tstate
<1>. USE DEF txnVars
<1>1. CASE \E r \in Requests : Sends(t, r)
  BY <1>1 DEF Sends, Submit, SubmitEnd
<1>2. CASE JoinTxn(t) \/ CloseTxn(t) \/ Check(t) \/ Take(t) \/ Read(t)
           \/ Write(t) \/ Publish(t) \/ Release(t)
  BY <1>2 DEF JoinTxn, CloseTxn, Check, Take, Read, Write, Publish, Release
<1>3. CASE Notify(t) \/ LeaveTxn(t) \/ Unref(t) \/ TakeTxn(t) \/ Barrier(t)
           \/ MarkObject(t) \/ BarrierUp(t)
  BY <1>3 DEF Notify, LeaveTxn, Unref, TakeTxn, Barrier, MarkObject, BarrierUp
<1>4. CASE LockObject(t) \/ Decide(t) \/ DoAtom(t) \/ UnlockObject(t) \/ FinishEnd(t)
  BY <1>4 DEF LockObject, Decide, DoAtom, UnlockObject, FinishEnd
<1>. QED  BY <1>1, <1>2, <1>3, <1>4 DEF Serve

LEMMA InsideOpenStep ==
  ASSUME Control, EndsOnce, TxnLocked, Ending, NEW t \in Tasks,
         Serve(t) \/ \E r \in Requests : Sends(t, r)
  PROVE  InsideOpen'
<1>0. ShapeOK /\ TaskOK(t) /\ tstate \in [Txns -> TxnStates]
  BY DEF Control, ShapeOK
<1>. SUFFICES ASSUME NEW x \in Txns
              PROVE  Ended(x)' <=> Past(x, {"unlocking", "unref", "done"})'
  BY DEF InsideOpen
<1>. DEFINE P == {"unlocking", "unref", "done"}
<1>1. Ended(x) <=> Past(x, P)
  BY DEF Ending, InsideOpen
<1>2. CASE Complete(t)
  <2>1. /\ InBarrier(t) /\ Serve(t) /\ pc'[t] = "unlocking"
    BY <1>2, CompleteMoves DEF InBarrier, Serve, Moves
  <2>2. Txn(t) \in Txns /\ Ender(t, Txn(t))
    BY <2>1, BarrierAlone
  <2>3. Ender(t, Txn(t))' /\ Txn(t)' = Txn(t)
    BY <2>1, <2>2, ServeRoles DEF Ender
  <2>4. CASE x = Txn(t)
    <3>1. Ended(x)'
      BY <1>0, <1>2, <2>4 DEF Complete, Ended
    <3>2. Past(x, P)'
      BY <2>1, <2>3, <2>4 DEF Past
    <3>. QED  BY <3>1, <3>2
  <2>5. CASE x # Txn(t)
    <3>1. Ended(x)' <=> Ended(x)
      BY <1>0, <1>2, <2>5 DEF Complete, Ended
    <3>2. Past(x, P)' <=> Past(x, P)
      BY <2>1, <2>5, PastStays, PastGrows DEF Ender
    <3>. QED  BY <1>1, <3>1, <3>2
  <2>. QED  BY <2>4, <2>5
<1>3. CASE ~Complete(t)
  <2>1. Past(x, P)' <=> Past(x, P)
    BY <1>3, PastStays, PastGrows
  <2>2. CASE WriteFails(t) /\ x = Txn(t)
    <3>1. InTxn(t, x)
      BY <1>0, <2>2, TaskTxn DEF WriteFails, InTxn
    <3>2. ~Past(x, P)
      BY <3>1, InsideBefore DEF Past, Ending
    <3>3. ~Ended(x)'
      BY <1>0, <2>2, ScriptAssumption DEF WriteFails, Ended
    <3>. QED  BY <2>1, <3>2, <3>3
  <2>3. CASE ~(WriteFails(t) /\ x = Txn(t))
    <3>1. tstate'[x] = tstate[x]
      BY <1>0, <1>3, <2>3, TstateStays DEF WriteFails
    <3>. QED  BY <1>1, <2>1, <3>1 DEF Ended
  <2>. QED  BY <2>2, <2>3
<1>. QED  BY <1>2, <1>3

LEMMA NobodyLateStep ==
  ASSUME Control, EndsOnce, TxnLocked, Ending, NEW t \in Tasks, ~late', ~late,
         Serve(t) \/ \E r \in Requests : Sends(t, r)
  PROVE  NobodyLate'
<1>. SUFFICES ASSUME NEW x \in Txns, Past(x, {"unref", "done"})',
                     NEW u \in Tasks, InTxn(u, x)'
              PROVE  FALSE
  BY DEF NobodyLate, Inside
<1>1. CASE InTxn(u, x)
  <2>1. ~Past(x, {"unref", "done"})
    BY <1>1 DEF Ending, NobodyLate, Inside
  <2>2. FinishEnd(t) /\ Ender(t, x)
    BY <2>1, PastGrows
  <2>3. InBarrier(t) /\ Txn(t) = x
    BY <2>2, FinishEndMoves DEF InBarrier, Ender
  <2>. QED  BY <1>1, <2>3, BarrierExcludes
<1>2. CASE ~InTxn(u, x)
  <2>1. u = t
    BY <1>2, OtherInside
  <2>2. JoinTxn(t) \/ CloseTxn(t) \/ LeaveTxn(t) \/ TakeTxn(t) \/ FinishEnd(t)
    BY <1>2, <2>1, QuietInside
  <2>3. CASE JoinTxn(t)
    <3>1. pc'[t] = "ready" /\ Txn(t) = x /\ Serve(t)
      <4>1. Serve(t)
        BY <2>3 DEF Serve
      <4>. QED  BY <2>1, <2>3, <4>1, JoinTxnMoves, ServeRoles DEF InTxn, Moves, Walks
    <3>2. ~Ended(x)
      <4>1. pc \in [Tasks -> Steps]
        BY LocalTypes
      <4>2. late' = (late \/ Ended(Txn(t)))
        BY <2>3, <3>1, <4>1 DEF JoinTxn, Reject
      <4>. QED  BY <3>1, <4>2
    <3>3. ~Past(x, {"unref", "done"})
      BY <3>2 DEF Ending, InsideOpen, Past
    <3>4. FinishEnd(t)
      BY <3>3, PastGrows
    <3>. QED  BY <2>3, <3>4 DEF JoinTxn, FinishEnd
  <2>4. CASE CloseTxn(t) \/ TakeTxn(t) \/ FinishEnd(t)
    <3>1. Serve(t) /\ pc[t] \in {"closing", "ready", "unlocking"}
          /\ (pc[t] = "ready" => sched[t] = "ACQUIRE")
      BY <2>4 DEF Serve, CloseTxn, TakeTxn, FinishEnd
    <3>2. ~IsOp(t)
      BY <3>1, TaskFacts DEF Control, OpOK
    <3>3. ~IsOp(t)'
      BY <3>1, <3>2, ServeRoles
    <3>. QED  BY <2>1, <3>3 DEF InTxn
  <2>5. CASE LeaveTxn(t)
    BY <2>1, <2>5, LeaveTxnMoves DEF InTxn, Moves, Walks
  <2>. QED  BY <2>2, <2>3, <2>4, <2>5
<1>. QED  BY <1>1, <1>2

LEMMA OwnerHasAtomStep ==
  ASSUME Control, EndsOnce, TxnLocked, Ending, NEW t \in Tasks,
         Serve(t) \/ \E r \in Requests : Sends(t, r)
  PROVE  OwnerHasAtom'
<1>0. group \in [Txns -> Seq(Objects)] /\ NoTxn \notin Txns /\ idx \in [Tasks -> Nat]
  BY ScriptAssumption, LocalTypes DEF Control, ShapeOK
<1>. SUFFICES ASSUME NEW o \in Objects, NEW x \in Txns, num'[o].owner = x
              PROVE  \E i \in DOMAIN group'[x] : group'[x][i] = o /\ Todo(x, i)'
  BY DEF OwnerHasAtom
<1>1. CASE num[o].owner = x
  <2>1. PICK i \in DOMAIN group[x] : group[x][i] = o /\ Todo(x, i)
    BY <1>1 DEF Ending, OwnerHasAtom
  <2>2. ~DoAtom(t) \/ Txn(t) # x \/ i # idx[t]
    <3>. SUFFICES ASSUME DoAtom(t), Txn(t) = x, i = idx[t] PROVE FALSE
      OBVIOUS
    <3>1. Here(t) = o /\ num'[Here(t)].owner = NoTxn
      BY <2>1, DoAtomOwner
    <3>. QED  BY <1>0, <3>1
  <2>3. Todo(x, i)'
    BY <2>1, <2>2, TodoStays
  <2>4. i \in DOMAIN group'[x] /\ group'[x][i] = o
    BY <2>1, GroupsGrow
  <2>. QED  BY <2>3, <2>4
<1>2. CASE num[o].owner # x
  <2>1. Write(t) \/ DoAtom(t)
    BY <1>2, OwnersStay
  <2>2. ~DoAtom(t)
    <3>. SUFFICES ASSUME DoAtom(t) PROVE FALSE
      OBVIOUS
    <3>1. num'[o].owner = NoTxn \/ num'[o] = num[o]
      BY DoAtomOwner
    <3>. QED  BY <1>0, <1>2, <3>1
  <2>3. Write(t) /\ o = Obj(t) /\ x = Txn(t)
    BY <1>2, <2>1, <2>2, WriteOwner
  <2>4. InTxn(t, x) /\ group'[x] = Append(group[x], o)
    BY <1>2, <2>3, WriteOwner
  <2>. DEFINE k == Len(group[x]) + 1
  <2>5. k \in DOMAIN group'[x] /\ group'[x][k] = o
    BY <1>0, <2>4
  <2>6. ASSUME NEW u \in Tasks, Ender(u, x)'
        PROVE  pc'[u] \notin {"unlocking", "unref", "done", "atoms"}
    <3>1. u # t
      <4>1. Serve(t)
        BY <2>3 DEF Serve
      <4>. QED  BY <2>4, <2>6, <4>1, ServeRoles DEF Ender, InTxn, IsOp, IsEnd
    <3>2. Same(u)
      BY <3>1, Frames
    <3>3. Ender(u, x)
      BY <2>6, <3>2 DEF Same, Ender, IsEnd, Txn
    <3>. QED  BY <2>4, <3>2, <3>3, InsideBefore DEF Same, Ending
  <2>7. \A i : Todo(x, i)'
    BY <2>6 DEF Todo, Past
  <2>. QED  BY <2>5, <2>7
<1>. QED  BY <1>1, <1>2

\* Once a transaction has been joined late, the history says so for good.
LEMMA LateStays ==
  ASSUME [Next]_vars, ShapeOK, ~late'
  PROVE  ~late
<1>1. ASSUME NEW t \in Tasks, ~JoinTxn(t), Serve(t) \/ \E r \in Requests : Sends(t, r)
      PROVE  late' = late
  <2>. USE DEF hist
  <2>1. CASE \E r \in Requests : Sends(t, r)
    BY <2>1 DEF Sends, Submit, SubmitEnd
  <2>2. CASE CloseTxn(t) \/ Check(t) \/ Take(t) \/ Read(t) \/ WriteFails(t)
             \/ Write(t) \/ Publish(t) \/ Release(t)
    BY <2>2 DEF CloseTxn, Check, Take, Read, WriteFails, Write, Publish, Release
  <2>3. CASE Notify(t) \/ LeaveTxn(t) \/ Unref(t) \/ TakeTxn(t) \/ Barrier(t)
             \/ MarkObject(t) \/ BarrierUp(t)
    BY <2>3 DEF Notify, LeaveTxn, Unref, TakeTxn, Barrier, MarkObject, BarrierUp
  <2>4. CASE LockObject(t) \/ Decide(t) \/ DoAtom(t) \/ Complete(t)
             \/ UnlockObject(t) \/ FinishEnd(t)
    BY <2>4 DEF LockObject, Decide, DoAtom, Complete, UnlockObject, FinishEnd
  <2>. QED  BY <1>1, <2>1, <2>2, <2>3, <2>4 DEF Serve
<1>2. ASSUME NEW t \in Tasks, JoinTxn(t) PROVE ~late
  BY <1>2 DEF JoinTxn
<1>3. CASE (\E x \in Txns : Begin(x)) \/ UNCHANGED vars
  BY <1>3 DEF Begin, hist, vars
<1>. QED  BY <1>1, <1>2, <1>3, StepCases

LEMMA EndingStep ==
  ASSUME Base, Ending, [Next]_vars, ~late, ~late'
  PROVE  Ending'
<1>0. Control /\ EndsOnce /\ TxnLocked /\ ShapeOK /\ tstate \in [Txns -> TxnStates]
  BY DEF Base, Control, ShapeOK
<1>1. ASSUME NEW t \in Tasks, Serve(t) \/ \E r \in Requests : Sends(t, r)
      PROVE  Ending'
  BY <1>0, <1>1, InsideOpenStep, NobodyLateStep, OwnerHasAtomStep DEF Ending
<1>2. ASSUME UNCHANGED <<num, group, taskVars>>,
             \A x \in Txns : Ended(x)' <=> Ended(x)
      PROVE  Ending'
  <2>1. /\ \A u \in Tasks, x \in Txns : (Ender(u, x)' <=> Ender(u, x))
                                        /\ (InTxn(u, x)' <=> InTxn(u, x))
        /\ pc' = pc /\ idx' = idx
    BY <1>2 DEF Ender, InTxn, IsOp, IsEnd, Txn, taskVars
  <2>2. /\ \A x \in Txns : \A P : Past(x, P)' <=> Past(x, P)
        /\ \A x \in Txns : \A i : Todo(x, i)' <=> Todo(x, i)
        /\ \A x \in Txns : Inside(x)' = Inside(x)
    BY <2>1 DEF Past, Todo, Inside
  <2>3. InsideOpen' /\ NobodyLate'
    BY <1>2, <2>2 DEF Ending, InsideOpen, NobodyLate
  <2>4. OwnerHasAtom'
    BY <1>2, <2>2 DEF Ending, OwnerHasAtom
  <2>. QED  BY <2>3, <2>4 DEF Ending
<1>3. ASSUME NEW x \in Txns, Begin(x) PROVE Ending'
  <2>1. \A y \in Txns : Ended(y)' <=> Ended(y)
    BY <1>0, <1>3 DEF Begin, Ended
  <2>. QED  BY <1>2, <1>3, <2>1 DEF Begin, objVars, taskVars
<1>4. CASE UNCHANGED vars
  BY <1>2, <1>4 DEF vars, objVars, txnVars, taskVars, Ended
<1>. QED  BY <1>0, <1>1, <1>3, <1>4, StepCases

LEMMA InitEnding == Init => Ending
<1>. SUFFICES ASSUME Init PROVE Ending
  OBVIOUS
<1>1. \A t \in Tasks : ~IsOp(t) /\ ~IsEnd(t)
  <2>1. NoRequest.kind = "NONE"
    BY DEF NoRequest
  <2>. QED  BY <2>1 DEF Init, IsOp, IsEnd
<1>2. \A x \in Txns : \A P : ~Past(x, P) /\ ~Ended(x)
  BY <1>1 DEF Past, Ender, Ended, Init
<1>3. OwnerHasAtom
  <2>1. \A o \in Objects : num[o].owner = NoTxn
    BY DEF Init, Created
  <2>. QED  BY <2>1, ScriptAssumption DEF OwnerHasAtom
<1>. QED  BY <1>2, <1>3 DEF Ending, InsideOpen, NobodyLate

LEMMA EndingInvariant == Spec => [](Base /\ (~late => Ending))
<1>1. Init => Base /\ (~late => Ending)
  BY InitBase, InitEnding
<1>2. Base /\ (~late => Ending) /\ [Next]_vars => (Base /\ (~late => Ending))'
  <2>. SUFFICES ASSUME Base, ~late => Ending, [Next]_vars
                PROVE  Base' /\ (~late' => Ending')
    OBVIOUS
  <2>1. Base'
    BY BaseStep
  <2>2. ASSUME ~late' PROVE Ending'
    <3>1. ~late
      BY <2>2, LateStays DEF Base, Control
    <3>. QED  BY <2>2, <3>1, EndingStep
  <2>. QED  BY <2>1, <2>2
<1>. QED  BY <1>1, <1>2, PTL DEF Spec

\* A number is owned by a transaction exactly while its atom is in the groups
\* of that transaction and still to be done, until a transaction that has
\* ended is joined.
THEOREM OwnersHaveAtoms == Spec => []OwnedIffAtom
<1>1. Base /\ (~late => Ending) => OwnedIffAtom
  <2>. SUFFICES ASSUME Base, ~late, Ending, NEW o \in Objects, NEW x \in Txns
                PROVE  num[o].owner = x <=>
                         /\ ~Ended(x)
                         /\ \E i \in DOMAIN group[x] :
                              /\ group[x][i] = o
                              /\ \A t \in Tasks :
                                   pc[t] = "atoms" /\ Txn(t) = x => i >= idx[t]
    BY DEF OwnedIffAtom
  <2>1. ASSUME NEW t \in Tasks, pc[t] = "atoms"
        PROVE  Ender(t, x) <=> Txn(t) = x
    <3>1. InBarrier(t)
      BY <2>1 DEF InBarrier
    <3>2. Ender(t, Txn(t))
      BY <3>1, BarrierAlone DEF Base
    <3>. QED  BY <3>2 DEF Ender
  <2>2. \A i : Todo(x, i) <=>
          /\ ~Ended(x)
          /\ \A t \in Tasks : pc[t] = "atoms" /\ Txn(t) = x => i >= idx[t]
    BY <2>1 DEF Todo, Ending, InsideOpen
  <2>3. num[o].owner = x <=> \E i \in DOMAIN group[x] : group[x][i] = o /\ Todo(x, i)
    BY DEF Ending, OwnerHasAtom, Base, Grouped, AtomOwned
  <2>. QED  BY <2>2, <2>3
<1>. QED  BY <1>1, EndingInvariant, PTL

-----------------------------------------------------------------------------
LEMMA SendsNew ==
  ASSUME NEW t \in Tasks, NEW r \in Requests, Sends(t, r)
  PROVE  pc[t] = "new"
BY DEF Sends, Submit, SubmitEnd, Turn

\* A task begins with the atoms of its transaction by Decide and is through
\* with them by Complete.
LEMMA AtomsStep ==
  ASSUME Control, NEW t \in Tasks, NEW u \in Tasks,
         Serve(t) \/ \E r \in Requests : Sends(t, r)
  PROVE  /\ pc'[u] = "atoms" =>
              \/ u = t /\ Decide(t)
              \/ /\ pc[u] = "atoms" /\ ctype'[u] = ctype[u] /\ Txn(u)' = Txn(u)
                 /\ ~Decide(t) \/ u # t
         /\ pc[u] = "atoms" =>
              \/ u = t /\ Complete(t)
              \/ pc'[u] = "atoms" /\ ctype'[u] = ctype[u] /\ Txn(u)' = Txn(u)
<1>1. CASE u # t
  <2>1. Same(u)
    BY <1>1, Frames
  <2>. QED  BY <1>1, <2>1 DEF Same, Txn
<1>2. CASE u = t /\ pc'[t] = "atoms"
  <2>1. InBarrier(t)'
    BY <1>2 DEF InBarrier
  <2>2. \/ Barrier(t) \/ MarkObject(t) \/ BarrierUp(t) \/ LockObject(t)
        \/ Decide(t) \/ DoAtom(t) \/ Complete(t) \/ UnlockObject(t)
    BY <2>1, IntoBarrier
  <2>3. Decide(t) \/ DoAtom(t)
    BY <1>2, <2>2, BarrierMoves, MarkObjectMoves, BarrierUpMoves,
       LockObjectMoves, CompleteMoves, UnlockObjectMoves DEF Moves, Walks
  <2>. QED  BY <1>2, <2>3, DoAtomMoves, DecideMoves DEF Moves, Txn
<1>3. CASE u = t /\ pc[t] = "atoms"
  <2>1. Serve(t)
    BY <1>3, SendsNew
  <2>2. DoAtom(t) \/ Complete(t)
    BY <1>3, <2>1 DEF Serve, JoinTxn, CloseTxn, Check, Take, Read, WriteFails,
       Write, Publish, Release, Notify, LeaveTxn, Unref, TakeTxn, Barrier,
       MarkObject, BarrierUp, LockObject, Decide, UnlockObject, FinishEnd
  <2>. QED  BY <1>3, <2>2, DoAtomMoves, DecideMoves, CompleteMoves DEF Moves, Txn
<1>. QED  BY <1>1, <1>2, <1>3

LEMMA AtomsAlone ==
  ASSUME Control, EndsOnce, TxnLocked, NEW t \in Tasks, pc[t] = "atoms"
  PROVE  /\ InBarrier(t) /\ IsEnd(t) /\ Txn(t) \in Txns /\ Ender(t, Txn(t))
         /\ ctype[t] \in {"APPLY", "REVERT"} /\ sched[t] = "LOCK"
         /\ \A u \in Tasks : Ender(u, Txn(t)) => u = t
         /\ \A u \in Tasks : ~InTxn(u, Txn(t))
<1>1. InBarrier(t)
  BY DEF InBarrier
<1>2. /\ IsEnd(t) /\ EndOK(t) /\ Txn(t) \in Txns
      /\ Alone(t, Txn(t)) /\ Ender(t, Txn(t))
  BY <1>1, BarrierAlone
<1>. QED  BY <1>1, <1>2, AloneInside DEF EndOK

LEMMA DecidingStep ==
  ASSUME Base, Deciding, [Next]_vars
  PROVE  Deciding'
<1>0. Control /\ EndsOnce /\ TxnLocked /\ ShapeOK /\ tstate \in [Txns -> TxnStates]
  BY DEF Base, Control, ShapeOK
<1>1. ASSUME NEW x \in Txns, Begin(x) PROVE Deciding'
  <2>1. UNCHANGED <<pc, ctype, req>> /\ tstate' = [tstate EXCEPT ![x] = "WAIT_COMMIT"]
    BY <1>1 DEF Begin, taskVars
  <2>2. \A u \in Tasks : tstate'[Txn(u)] = "DONT_COMMIT" => tstate[Txn(u)] = "DONT_COMMIT"
    BY <1>0, <2>1
  <2>. QED  BY <2>1, <2>2 DEF Deciding, Txn
<1>2. ASSUME NEW t \in Tasks, Serve(t) \/ \E r \in Requests : Sends(t, r)
      PROVE  Deciding'
  <2>. SUFFICES ASSUME NEW u \in Tasks, pc'[u] = "atoms", ctype'[u] = "APPLY"
                PROVE  tstate'[Txn(u)'] # "DONT_COMMIT"
    BY DEF Deciding, Txn
  <2>1. CASE u = t /\ Decide(t)
    <3>1. ctype \in [Tasks -> {"NONE", "APPLY", "REVERT"}]
      BY <1>0 DEF ShapeOK
    <3>2. tstate[Txn(t)] # "DONT_COMMIT"
      BY <2>1, <3>1 DEF Decide
    <3>3. tstate' = tstate /\ req' = req
      BY <2>1 DEF Decide, txnVars
    <3>. QED  BY <2>1, <3>2, <3>3 DEF Txn
  <2>2. CASE pc[u] = "atoms" /\ ctype'[u] = ctype[u] /\ Txn(u)' = Txn(u)
    <3>1. tstate[Txn(u)] # "DONT_COMMIT" /\ Txn(u) \in Txns /\ ~InTxn(t, Txn(u))
      BY <1>0, <2>2, AtomsAlone DEF Deciding
    <3>2. CASE WriteFails(t)
      <4>1. Txn(t) # Txn(u)
        BY <1>0, <3>1, <3>2, TaskTxn DEF WriteFails, InTxn, Control
      <4>. QED  BY <1>0, <2>2, <3>1, <3>2, <4>1 DEF WriteFails
    <3>3. CASE Complete(t)
      BY <1>0, <2>2, <3>1, <3>3 DEF Complete
    <3>4. CASE ~WriteFails(t) /\ ~Complete(t)
      BY <1>2, <2>2, <3>1, <3>4, TstateStays
    <3>. QED  BY <3>2, <3>3, <3>4
  <2>. QED  BY <1>0, <1>2, <2>1, <2>2, AtomsStep
<1>3. CASE UNCHANGED vars
  BY <1>3 DEF vars, txnVars, taskVars, Deciding, Txn
<1>. QED  BY <1>0, <1>1, <1>2, <1>3, StepCases

-----------------------------------------------------------------------------
\* The status of a transaction changes when its end is decided.

\* A transaction that somebody works in is open.
LEMMA InsideIsOpen ==
  ASSUME Control, EndsOnce, TxnLocked, Ending, NEW t \in Tasks, NEW x \in Txns,
         InTxn(t, x)
  PROVE  ~Ended(x) /\ Status(x) = "open"
<1>1. ~Past(x, {"unlocking", "unref", "done"})
  BY InsideBefore DEF Ending, Past
<1>2. ~Ended(x)
  BY <1>1 DEF Ending, InsideOpen
<1>3. \A how : ~Settling(x, how)
  BY AtomsAlone DEF Settling
<1>. QED  BY <1>2, <1>3 DEF Status, Ended

LEMMA AtomsStatus ==
  ASSUME Control, EndsOnce, TxnLocked, Ending, NEW t \in Tasks, pc[t] = "atoms"
  PROVE  /\ ~Ended(Txn(t))
         /\ \A how : Settling(Txn(t), how) <=> ctype[t] = how
         /\ Status(Txn(t)) = IF ctype[t] = "APPLY" THEN "committed" ELSE "rolledback"
<1>1. /\ Txn(t) \in Txns /\ Ender(t, Txn(t)) /\ ctype[t] \in {"APPLY", "REVERT"}
      /\ \A u \in Tasks : Ender(u, Txn(t)) => u = t
  BY AtomsAlone
<1>2. ~Past(Txn(t), {"unlocking", "unref", "done"})
  BY <1>1 DEF Past
<1>3. ~Ended(Txn(t))
  BY <1>1, <1>2 DEF Ending, InsideOpen
<1>4. ASSUME NEW u \in Tasks, pc[u] = "atoms", Txn(u) = Txn(t) PROVE u = t
  <2>1. Ender(u, Txn(u))
    BY <1>4, AtomsAlone
  <2>. QED  BY <1>1, <1>4, <2>1
<1>5. \A how : Settling(Txn(t), how) <=> ctype[t] = how
  BY <1>4 DEF Settling
<1>. QED  BY <1>1, <1>3, <1>5 DEF Status, Ended

LEMMA StatusStays ==
  ASSUME Base, Ending, Deciding, NEW t \in Tasks, ~Decide(t),
         Serve(t) \/ \E r \in Requests : Sends(t, r), NEW x \in Txns
  PROVE  Status(x)' = Status(x)
<1>0. Control /\ EndsOnce /\ TxnLocked /\ tstate \in [Txns -> TxnStates]
  BY DEF Base, Control, ShapeOK
<1>1. CASE Complete(t) /\ x = Txn(t)
  <2>1. /\ pc[t] = "atoms" /\ ctype[t] \in {"APPLY", "REVERT"}
        /\ ctype[t] = "APPLY" => tstate[x] # "DONT_COMMIT"
    BY <1>0, <1>1, AtomsAlone DEF Complete, Deciding
  <2>2. tstate'[x] = IF ctype[t] = "APPLY" THEN "COMMITTED" ELSE "ROLLEDBACK"
    BY <1>0, <1>1, <2>1 DEF Complete
  <2>3. Status(x)' = IF ctype[t] = "APPLY" THEN "committed" ELSE "rolledback"
    BY <2>2 DEF Status, Ended
  <2>. QED  BY <1>0, <1>1, <2>1, <2>3, AtomsStatus
<1>2. CASE ~(Complete(t) /\ x = Txn(t))
  <2>1. ASSUME NEW how PROVE Settling(x, how)' <=> Settling(x, how)
    <3>1. ASSUME NEW u \in Tasks
          PROVE  (pc[u] = "atoms" /\ Txn(u) = x /\ ctype[u] = how)' <=>
                 (pc[u] = "atoms" /\ Txn(u) = x /\ ctype[u] = how)
      BY <1>0, <1>2, AtomsStep
    <3>. QED  BY <3>1 DEF Settling
  <2>2. CASE WriteFails(t) /\ x = Txn(t)
    <3>1. InTxn(t, x)
      BY <1>0, <2>2, TaskTxn DEF WriteFails, InTxn, Control
    <3>2. ~Ended(x)
      BY <1>0, <3>1, InsideIsOpen
    <3>3. ~Ended(x)'
      BY <1>0, <2>2, ScriptAssumption DEF WriteFails, Ended
    <3>. QED  BY <2>1, <3>2, <3>3 DEF Status, Ended
  <2>3. CASE ~(WriteFails(t) /\ x = Txn(t))
    <3>1. CASE WriteFails(t)
      BY <1>0, <2>1, <2>3, <3>1 DEF WriteFails, Status, Ended
    <3>2. CASE Complete(t)
      BY <1>0, <1>2, <2>1, <3>2 DEF Complete, Status, Ended
    <3>3. CASE ~WriteFails(t) /\ ~Complete(t)
      BY <2>1, <3>3, TstateStays DEF Status, Ended
    <3>. QED  BY <3>1, <3>2, <3>3
  <2>. QED  BY <2>2, <2>3
<1>. QED  BY <1>1, <1>2

LEMMA StatusBegin ==
  ASSUME Base, NEW y \in Txns, Begin(y), NEW x \in Txns
  PROVE  Status(x)' = Status(x)
<1>1. /\ tstate \in [Txns -> TxnStates] /\ tstate[y] = "NONE"
      /\ tstate' = [tstate EXCEPT ![y] = "WAIT_COMMIT"]
      /\ pc' = pc /\ ctype' = ctype /\ req' = req
  BY DEF Base, Control, ShapeOK, Begin, taskVars
<1>2. \A how : Settling(x, how)' <=> Settling(x, how)
  BY <1>1 DEF Settling, Txn
<1>. QED  BY <1>1, <1>2 DEF Status, Ended

\* Before the decision nobody has settled the transaction.
LEMMA StatusDecide ==
  ASSUME Base, Ending, NEW t \in Tasks, Decide(t)
  PROVE  /\ Txn(t) \in Txns
         /\ Status(Txn(t)) = "open"
         /\ \/ \A x \in Txns : Status(x)' = IF x = Txn(t) THEN "committed" ELSE Status(x)
            \/ \A x \in Txns : Status(x)' = IF x = Txn(t) THEN "rolledback" ELSE Status(x)
<1>0. Control /\ EndsOnce /\ TxnLocked /\ ShapeOK /\ Serve(t)
  BY DEF Base, Control, Serve
<1>1. pc[t] = "ready" /\ sched[t] = "LOCK" /\ InBarrier(t)
  BY DEF Decide, InBarrier
<1>2. Txn(t) \in Txns /\ Ender(t, Txn(t)) /\ EndOK(t)
  BY <1>0, <1>1, BarrierAlone
<1>3. \A u \in Tasks : Ender(u, Txn(t)) => u = t
  BY <1>2 DEF Base, EndsOnce
<1>4. \A how : ~Settling(Txn(t), how)
  BY <1>0, <1>1, <1>3, AtomsAlone DEF Settling
<1>5. ~Ended(Txn(t))
  <2>1. ~Past(Txn(t), {"unlocking", "unref", "done"})
    BY <1>1, <1>3 DEF Past
  <2>. QED  BY <1>2, <2>1 DEF Ending, InsideOpen
<1>6. Status(Txn(t)) = "open"
  BY <1>4, <1>5 DEF Status, Ended
<1>7. tstate' = tstate /\ req' = req /\ pc'[t] = "atoms"
  BY <1>0 DEF Decide, txnVars, ShapeOK
<1>8. ctype'[t] \in {"APPLY", "REVERT"}
  <2>1. ctype \in [Tasks -> {"NONE", "APPLY", "REVERT"}]
    BY <1>0 DEF ShapeOK
  <2>. QED  BY <1>2, <2>1 DEF Decide, EndOK
<1>9. PICK c \in {"APPLY", "REVERT"} : c = ctype'[t]
  BY <1>8
<1>10. ASSUME NEW x \in Txns, NEW how
       PROVE  Settling(x, how)' <=> IF x = Txn(t) THEN how = c ELSE Settling(x, how)
  <2>1. \A u \in Tasks : Txn(u)' = Txn(u)
    BY <1>7 DEF Txn
  <2>2. ASSUME NEW u \in Tasks, u # t
        PROVE  /\ (pc'[u] = "atoms" <=> pc[u] = "atoms")
               /\ pc[u] = "atoms" => ctype'[u] = ctype[u]
    BY <1>0, <2>2, AtomsStep
  <2>3. pc[t] # "atoms"
    BY <1>1
  <2>4. CASE x = Txn(t)
    BY <1>4, <1>7, <1>9, <2>1, <2>2, <2>4 DEF Settling
  <2>5. CASE x # Txn(t)
    BY <2>1, <2>2, <2>3, <2>5 DEF Settling
  <2>. QED  BY <2>4, <2>5
<1>11. ASSUME NEW x \in Txns
       PROVE  Status(x)' = IF x = Txn(t)
                           THEN IF c = "APPLY" THEN "committed" ELSE "rolledback"
                           ELSE Status(x)
  <2>1. Ended(x)' <=> Ended(x)
    BY <1>7 DEF Ended
  <2>2. CASE x = Txn(t)
    BY <1>5, <1>7, <1>10, <2>1, <2>2 DEF Status, Ended
  <2>3. CASE x # Txn(t)
    BY <1>7, <1>10, <2>1, <2>3 DEF Status
  <2>. QED  BY <2>2, <2>3
<1>. QED  BY <1>2, <1>6, <1>9, <1>11

-----------------------------------------------------------------------------
\* The task that commits an object is at it until it publishes.
LEMMA CommitterStays ==
  ASSUME Control, EndsOnce, TxnLocked, NEW t \in Tasks, NEW u \in Tasks,
         Serve(t) \/ \E r \in Requests : Sends(t, r),
         NEW o \in Objects, Committing(u, o), errno[u] = "PENDING",
         ~(u = t /\ Publish(t))
  PROVE  Committing(u, o)' /\ errno'[u] = "PENDING" /\ req'[u] = req[u]
<1>1. CASE u # t
  <2>1. Same(u) /\ RolesKept(u, o)
    BY <1>1, Frames, OtherRoles
  <2>. QED  BY <2>1 DEF Same, RolesKept
<1>2. CASE u = t
  <2>1. Serve(t)
    BY <1>2, SendsNew DEF Committing
  <2>2. Check(t) \/ Take(t) \/ Release(t)
    BY <1>2, <2>1 DEF Serve, Committing, JoinTxn, CloseTxn, Read, WriteFails,
       Write, Notify, LeaveTxn, Unref, TakeTxn, Barrier, MarkObject, BarrierUp,
       LockObject, Decide, DoAtom, Complete, UnlockObject, FinishEnd
  <2>3. /\ req' = req /\ sched'[t] = sched[t] /\ errno'[t] = errno[t]
        /\ pc'[t] \in {"checked", "run", "parked", "ready"}
    BY <1>2, <2>2, CheckMoves, TakeMoves, ReleaseMoves DEF Walks, Moves
  <2>. QED  BY <1>2, <2>3 DEF Committing, IsOp, Obj
<1>. QED  BY <1>1, <1>2

\* What is not published of o is the work of u.
Unpublished(u, o) ==
  /\ Committing(u, o) /\ errno[u] = "PENDING" /\ req[u].kind = "PUT"
  /\ num[o].write = Result(num[o].read, req[u].f)

\* The task that has the WRITE of a number finds it settled.
LEMMA WriterFindsClean ==
  ASSUME Base, Consistent, Clean, NEW t \in Tasks, Write(t),
         num[Obj(t)].owner = NoTxn
  PROVE  num[Obj(t)].write = num[Obj(t)].read
<1>1. TaskOK(t) /\ ShapeOK /\ pc[t] = "run" /\ sched[t] = "WRITE"
  BY DEF Base, Control, Write
<1>2. IsOp(t) /\ OpOK(t) /\ Obj(t) \in Objects
  BY <1>1, TaskFacts, TaskTxn
<1>3. Excl(t, Obj(t)) /\ ~Committing(t, Obj(t))
  BY <1>1, <1>2 DEF OpOK, Excl, Writing, Committing
<1>4. \A u \in Tasks : ~Committing(u, Obj(t))
  BY <1>2, <1>3 DEF Consistent, ObjectOK, OneOwner
<1>. QED  BY <1>2, <1>4 DEF Clean

\* The task that ends a transaction finds its objects settled.
LEMMA EnderFindsClean ==
  ASSUME Base, Consistent, Clean, NEW t \in Tasks, Complete(t),
         NEW i \in DOMAIN Groups(t), num[Groups(t)[i]].owner = NoTxn
  PROVE  num[Groups(t)[i]].write = num[Groups(t)[i]].read
<1>1. pc[t] = "atoms" /\ IsEnd(t) /\ sched[t] = "LOCK" /\ Txn(t) \in Txns
  BY AtomsAlone DEF Base, Complete
<1>2. PICK o \in Objects : o = Groups(t)[i]
  <2>1. group \in [Txns -> Seq(Objects)]
    BY DEF Base, Control, ShapeOK
  <2>. QED  BY <1>1, <2>1 DEF Groups
<1>3. Marked(t, o)
  BY <1>1, <1>2 DEF Marked, MarkedAt
<1>4. \A u \in Tasks : ~Committing(u, o)
  BY <1>3 DEF Consistent, ObjectOK, OneOwner
<1>. QED  BY <1>2, <1>4 DEF Clean

\* The numbers change by Write, Publish, DoAtom and Complete.
LEMMA NumbersStay ==
  ASSUME NEW t \in Tasks, ~Write(t), ~Publish(t), ~DoAtom(t), ~Complete(t),
         Serve(t) \/ \E r \in Requests : Sends(t, r)
  PROVE  num' = num
BY DEF Serve, Sends, JoinTxn, CloseTxn, Check, Take, Read, WriteFails, Release,
   Notify, LeaveTxn, Unref, TakeTxn, Barrier, MarkObject, BarrierUp, LockObject,
   Decide, UnlockObject, FinishEnd, Submit, SubmitEnd, objVars

LEMMA PublishNumber ==
  ASSUME Base, NEW t \in Tasks, Publish(t)
  PROVE  /\ IsOp(t) /\ Obj(t) \in Objects /\ Committing(t, Obj(t))
         /\ num'[Obj(t)] = Commit(num[Obj(t)])
         /\ \A o \in Objects : o # Obj(t) => num'[o] = num[o]
<1>1. TaskOK(t) /\ ShapeOK /\ NumbersOK /\ pc[t] = "run" /\ sched[t] = "COMMIT"
  BY DEF Base, Control, ShapeOK, Publish
<1>2. IsOp(t) /\ Obj(t) \in Objects
  BY <1>1, TaskFacts, TaskTxn
<1>. QED  BY <1>1, <1>2 DEF Committing, Publish, NumbersOK

LEMMA NumberShape ==
  ASSUME Base, NEW o \in Objects
  PROVE  /\ num[o] = [read |-> num[o].read, write |-> num[o].write,
                      owner |-> num[o].owner]
         /\ num[o].owner \in Txns \cup {NoTxn}
BY DEF Base, Control, ShapeOK, NumbersOK

\* With the numbers settled, the last commit of a transaction changes none.
LEMMA CompleteNumbers ==
  ASSUME Base, Consistent, Clean, NEW t \in Tasks, Complete(t), NEW o \in Objects
  PROVE  num'[o] = num[o]
<1>1. CASE \E i \in DOMAIN Groups(t) : Groups(t)[i] = o
  <2>1. num'[o] = Commit(num[o])
    BY <1>1 DEF Complete
  <2>2. CASE num[o].owner = NoTxn
    <3>1. num[o].write = num[o].read
      BY <1>1, <2>2, EnderFindsClean
    <3>. QED  BY <2>1, <3>1, NumberShape DEF Commit
  <2>3. CASE num[o].owner # NoTxn
    BY <2>1, <2>3 DEF Commit
  <2>. QED  BY <2>2, <2>3
<1>2. CASE ~\E i \in DOMAIN Groups(t) : Groups(t)[i] = o
  BY <1>2 DEF Complete
<1>. QED  BY <1>1, <1>2

LEMMA CleanStep ==
  ASSUME Base, Consistent, Clean, [Next]_vars
  PROVE  Clean'
<1>0. Control /\ EndsOnce /\ TxnLocked /\ ShapeOK
  BY DEF Base, Control
<1>1. ASSUME NEW x \in Txns, Begin(x) PROVE Clean'
  BY <1>1 DEF Begin, objVars, taskVars, Clean, Committing, IsOp, Obj
<1>2. ASSUME NEW t \in Tasks, Serve(t) \/ \E r \in Requests : Sends(t, r)
      PROVE  Clean'
  <2>. SUFFICES ASSUME NEW o \in Objects, num'[o].owner = NoTxn
                PROVE  num'[o].write = num'[o].read \/ \E u \in Tasks : Unpublished(u, o)'
    BY DEF Clean, Unpublished
  <2>1. CASE num'[o] = num[o] /\ ~(Publish(t) /\ Obj(t) = o)
    <3>1. CASE num[o].write = num[o].read
      BY <2>1, <3>1
    <3>2. ASSUME NEW u \in Tasks, Unpublished(u, o) PROVE Unpublished(u, o)'
      <4>1. ~(u = t /\ Publish(t))
        BY <2>1, <3>2 DEF Unpublished, Committing
      <4>2. Committing(u, o)' /\ errno'[u] = "PENDING" /\ req'[u] = req[u]
        BY <1>0, <1>2, <3>2, <4>1, CommitterStays DEF Unpublished
      <4>. QED  BY <2>1, <3>2, <4>2 DEF Unpublished
    <3>. QED  BY <2>1, <3>1, <3>2 DEF Clean, Unpublished
  <2>2. CASE Write(t) /\ o = Obj(t)
    <3>1. /\ IsOp(t) /\ num'[o].owner = Txn(t) /\ num[o].owner \in {NoTxn, Txn(t)}
          /\ num'[o].read = num[o].read
          /\ num'[o].write = Result(num[o].write, req[t].f)
      BY <1>0, <2>2, WriteOwner
    <3>2. num[o].write = num[o].read
      BY <2>2, <3>1, WriterFindsClean
    <3>3. /\ req' = req /\ pc[t] = "run" /\ sched[t] = "WRITE" /\ sched'[t] = "COMMIT"
          /\ pc'[t] \in {"run", "release"} /\ errno'[t] = errno[t]
      BY <1>0, <2>2, WriteMoves DEF Moves
    <3>4. OpOK(t)
      BY <1>0, <3>1, <3>3, TaskFacts DEF Control
    <3>5. req[t].kind = "PUT" /\ errno[t] = "PENDING"
      BY <3>1, <3>3, <3>4 DEF OpOK, IsOp
    <3>6. Committing(t, o)'
      BY <2>2, <3>1, <3>3 DEF Committing, IsOp, Obj
    <3>. QED  BY <3>1, <3>2, <3>3, <3>5, <3>6 DEF Unpublished
  <2>3. CASE Publish(t) /\ o = Obj(t)
    <3>1. num'[o] = Commit(num[o])
      BY <2>3, PublishNumber
    <3>2. num[o] = [read |-> num[o].read, write |-> num[o].write, owner |-> num[o].owner]
      BY NumberShape
    <3>3. /\ Commit(num[o]).write = num[o].write /\ Commit(num[o]).owner = num[o].owner
          /\ Commit(num[o]).read = IF num[o].owner = NoTxn THEN num[o].write
                                   ELSE num[o].read
      BY <3>2, CommitShape
    <3>. QED  BY <3>1, <3>3
  <2>4. CASE DoAtom(t) /\ o = Here(t)
    BY <1>0, <2>4, DoAtomOwner
  <2>5. num'[o] = num[o] \/ (Write(t) /\ o = Obj(t)) \/ (Publish(t) /\ o = Obj(t))
          \/ (DoAtom(t) /\ o = Here(t))
    <3>1. CASE Write(t)
      BY <1>0, <3>1, WriteOwner
    <3>2. CASE Publish(t)
      BY <3>2, PublishNumber
    <3>3. CASE DoAtom(t)
      BY <1>0, <3>3, DoAtomOwner
    <3>4. CASE Complete(t)
      BY <3>4, CompleteNumbers
    <3>. QED  BY <1>2, <3>1, <3>2, <3>3, <3>4, NumbersStay
  <2>. QED  BY <2>1, <2>2, <2>3, <2>4, <2>5
<1>3. CASE UNCHANGED vars
  BY <1>3 DEF vars, objVars, taskVars, Clean, Committing, IsOp, Obj
<1>. QED  BY <1>0, <1>1, <1>2, <1>3, StepCases

-----------------------------------------------------------------------------
\* The invariant of the abstract store.
StoreInv ==
  /\ Base /\ Deciding
  /\ ~wiped => Consistent /\ Clean
  /\ ~late => Ending

LEMMA InitStoreInv == Init => StoreInv
<1>. SUFFICES ASSUME Init PROVE StoreInv
  OBVIOUS
<1>1. Deciding
  BY DEF Init, Deciding
<1>2. Clean
  BY DEF Init, Clean, Created
<1>. QED  BY <1>1, <1>2, InitBase, InitConsistent, InitEnding DEF StoreInv

LEMMA StoreInvStep == StoreInv /\ [Next]_vars => StoreInv'
<1>. SUFFICES ASSUME StoreInv, [Next]_vars PROVE StoreInv'
  OBVIOUS
<1>0. Base /\ ShapeOK
  BY DEF StoreInv, Base, Control
<1>1. Base' /\ Deciding'
  BY BaseStep, DecidingStep DEF StoreInv
<1>2. ASSUME ~wiped' PROVE Consistent' /\ Clean'
  <2>1. Consistent /\ Clean
    BY <1>0, <1>2, WipedStays DEF StoreInv
  <2>. QED  BY <1>0, <1>2, <2>1, ConsistentStep, CleanStep
<1>3. ASSUME ~late' PROVE Ending'
  <2>1. Ending /\ ~late
    BY <1>0, <1>3, LateStays DEF StoreInv
  <2>. QED  BY <1>0, <1>3, <2>1, EndingStep
<1>. QED  BY <1>1, <1>2, <1>3 DEF StoreInv

LEMMA StoreInvariant == Spec => []StoreInv
BY InitStoreInv, StoreInvStep, PTL DEF Spec

\* A number whose transaction is being applied, or has committed, has no
\* reader.
LEMMA ReadersSeeCommitted ==
  ASSUME Base, Consistent, Ending, NEW t \in Tasks, NEW o \in Objects,
         t \in Reading(o)
  PROVE  Stored(o) = num[o].read
<1>. SUFFICES ASSUME num[o].owner # NoTxn, Status(num[o].owner) = "committed"
              PROVE  FALSE
  BY DEF Stored
<1>1. PICK x \in Txns : x = num[o].owner
  BY NumberShape
<1>2. PICK i \in DOMAIN group[x] : group[x][i] = o /\ Todo(x, i)
  BY <1>1 DEF Ending, OwnerHasAtom
<1>3. ~Ended(x)
  BY <1>2 DEF Todo, Ending, InsideOpen
<1>4. PICK u \in Tasks : pc[u] = "atoms" /\ Txn(u) = x
  BY <1>1, <1>3 DEF Status, Ended, Settling
<1>5. IsEnd(u)
  BY <1>4, AtomsAlone DEF Base
<1>6. Locked(u, o)
  BY <1>2, <1>4, <1>5 DEF Locked, LockedAt, Groups
<1>. QED  BY <1>6 DEF Consistent, ObjectOK, OneOwner

\* Every task has a place for what it reads.
ValuePlaces == DOMAIN value = Tasks

LEMMA ValuesKept == Spec => []ValuePlaces
<1>1. Init => ValuePlaces
  BY DEF Init, ValuePlaces
<1>2. ValuePlaces /\ StoreInv /\ [Next]_vars => ValuePlaces'
  <2>. SUFFICES ASSUME DOMAIN value = Tasks, StoreInv, [Next]_vars
                PROVE  DOMAIN value' = Tasks
    BY DEF ValuePlaces
  <2>0. ShapeOK
    BY DEF StoreInv, Base, Control
  <2>1. ASSUME NEW x \in Txns, Begin(x) PROVE DOMAIN value' = Tasks
    BY <2>1 DEF Begin, taskVars
  <2>2. ASSUME NEW t \in Tasks, NEW r \in Requests, Sends(t, r)
        PROVE  DOMAIN value' = Tasks
    BY <2>2 DEF Sends, Submit, SubmitEnd
  <2>3. ASSUME NEW t \in Tasks, Serve(t) PROVE DOMAIN value' = Tasks
    <3>1. CASE Read(t) \/ Write(t)
      BY <3>1 DEF Read, Write
    <3>2. CASE ~Read(t) /\ ~Write(t)
      BY <2>3, <3>2 DEF Serve, taskVars, JoinTxn, CloseTxn, Check, Take,
         WriteFails, Publish, Release, Notify, LeaveTxn, Unref, TakeTxn, Barrier,
         MarkObject, BarrierUp, LockObject, Decide, DoAtom, Complete,
         UnlockObject, FinishEnd
    <3>. QED  BY <3>1, <3>2
  <2>4. CASE UNCHANGED vars
    BY <2>4 DEF vars, taskVars
  <2>. QED  BY <2>0, <2>1, <2>2, <2>3, <2>4, StepCases
<1>. QED  BY <1>1, <1>2, StoreInvariant, PTL DEF Spec

LEMMA ReadValue ==
  ASSUME StoreInv, ~Broken, ValuePlaces, NEW t \in Tasks, Read(t)
  PROVE  value'[t] = IF Txn(t) # NoTxn /\ Locker(Obj(t)) = Txn(t)
                     THEN Staged(Obj(t)) ELSE Stored(Obj(t))
<1>0. /\ Base /\ Consistent /\ Ending /\ Control /\ EndsOnce /\ TxnLocked
      /\ ShapeOK /\ TaskOK(t)
  BY DEF StoreInv, Broken, Base, Control
<1>1. pc[t] = "run" /\ sched[t] = "READ"
  BY DEF Read
<1>2. /\ IsOp(t) /\ OpOK(t) /\ Obj(t) \in Objects /\ Txn(t) \in Txns \cup {NoTxn}
  BY <1>0, <1>1, TaskFacts, TaskTxn
<1>3. t \in Reading(Obj(t))
  BY <1>1, <1>2 DEF OpOK, Reading
<1>4. value'[t] = Get(num[Obj(t)], Txn(t))
  BY DEF Read, ValuePlaces
<1>5. CASE Txn(t) # NoTxn /\ num[Obj(t)].owner = Txn(t)
  <2>1. InTxn(t, Txn(t))
    BY <1>1, <1>2 DEF InTxn
  <2>2. Status(Txn(t)) = "open"
    BY <1>0, <1>2, <1>5, <2>1, InsideIsOpen
  <2>. QED  BY <1>4, <1>5, <2>2 DEF Get, Locker, Staged
<1>6. CASE ~(Txn(t) # NoTxn /\ num[Obj(t)].owner = Txn(t))
  <2>1. ~(Txn(t) # NoTxn /\ Locker(Obj(t)) = Txn(t))
    BY <1>6 DEF Locker
  <2>2. Stored(Obj(t)) = num[Obj(t)].read
    BY <1>0, <1>2, <1>3, ReadersSeeCommitted
  <2>. QED  BY <1>4, <1>6, <2>1, <2>2 DEF Get
<1>. QED  BY <1>5, <1>6

\* A read sees what its own transaction staged and otherwise the committed
\* value, never half of a commit that is being applied (ReadsCommitted).
THEOREM ReadersSeeTheStore == Spec => ReadsCommitted
<1>1. StoreInv /\ ValuePlaces /\ [Next]_vars =>
        [\A t \in Tasks :
           ~Broken /\ Read(t) =>
             value'[t] = IF Txn(t) # NoTxn /\ Locker(Obj(t)) = Txn(t)
                         THEN Staged(Obj(t)) ELSE Stored(Obj(t))]_vars
  BY ReadValue
<1>. QED  BY <1>1, StoreInvariant, ValuesKept, PTL DEF Spec, ReadsCommitted

-----------------------------------------------------------------------------
\* The steps of the manager, the scheduler and the plug as steps of the store.

\* A number that does not change while no status does.
LEMMA ViewStays ==
  ASSUME Base, NEW o \in Objects, num'[o] = num[o],
         \A x \in Txns : Status(x)' = Status(x)
  PROVE  Stored(o)' = Stored(o) /\ Locker(o)' = Locker(o) /\ Staged(o)' = Staged(o)
<1>1. PICK y \in Txns \cup {NoTxn} : y = num[o].owner
  BY NumberShape
<1>2. y # NoTxn => Status(num[o].owner)' = Status(num[o].owner)
  BY <1>1
<1>3. Locker(o)' = Locker(o) /\ Stored(o)' = Stored(o)
  BY <1>1, <1>2 DEF Locker, Stored
<1>. QED  BY <1>3 DEF Staged

LEMMA StoreStutters ==
  ASSUME \A x \in Txns : Status(x)' = Status(x),
         \A o \in Objects : /\ Stored(o)' = Stored(o) /\ Locker(o)' = Locker(o)
                            /\ Staged(o)' = Staged(o)
  PROVE  UNCHANGED Store!vars
<1>1. [o \in Objects |-> Stored(o)]' = [o \in Objects |-> Stored(o)]
  OBVIOUS
<1>2. [o \in Objects |-> Locker(o)]' = [o \in Objects |-> Locker(o)]
  OBVIOUS
<1>3. [o \in Objects |-> Staged(o)]' = [o \in Objects |-> Staged(o)]
  OBVIOUS
<1>4. [x \in Txns |-> Status(x)]' = [x \in Txns |-> Status(x)]
  OBVIOUS
<1>. QED  BY <1>1, <1>2, <1>3, <1>4 DEF Store!vars

LEMMA CallSent ==
  ASSUME ShapeOK, NEW t \in Tasks, TaskOK(t), pc[t] # "new", req[t].kind = "PUT"
  PROVE  req[t].f \in {r.f : r \in {q \in Requests : q.kind = "PUT"}}
BY TaskFacts

\* A write on behalf of x works on what x has staged, and a write outside
\* the transactions is not seen until it is published.
LEMMA RefineWrite ==
  ASSUME Base, Consistent, Clean, Ending, Deciding, NEW t \in Tasks, Write(t)
  PROVE  UNCHANGED Store!vars \/ Store!Next
<1>0. Control /\ EndsOnce /\ TxnLocked /\ ShapeOK /\ TaskOK(t) /\ Serve(t)
  BY DEF Base, Control, Serve
<1>1. pc[t] = "run" /\ sched[t] = "WRITE" /\ ~Decide(t)
  BY DEF Write, Decide
<1>2. \A x \in Txns : Status(x)' = Status(x)
  BY <1>0, <1>1, StatusStays
<1>3. PICK o \in Objects : o = Obj(t)
  BY <1>0, <1>1, TaskTxn
<1>4. PICK x \in Txns \cup {NoTxn} : x = Txn(t)
  BY <1>0, <1>1, TaskTxn
<1>5. /\ num[o].owner \in {NoTxn, x} /\ num'[o].owner = x
      /\ num'[o].read = num[o].read
      /\ num'[o].write = Result(num[o].write, req[t].f)
      /\ \A p \in Objects : p # o => num'[p] = num[p]
  BY <1>0, <1>3, <1>4, WriteOwner
<1>6. \A p \in Objects : p # o =>
        Stored(p)' = Stored(p) /\ Locker(p)' = Locker(p) /\ Staged(p)' = Staged(p)
  BY <1>2, <1>5, ViewStays
<1>7. CASE x = NoTxn
  <2>1. Stored(o)' = Stored(o) /\ Locker(o)' = Locker(o)
    BY <1>5, <1>7 DEF Stored, Locker
  <2>2. Staged(o)' = Staged(o)
    BY <1>5, <1>7, <2>1 DEF Staged, Locker
  <2>. QED  BY <1>2, <1>6, <2>1, <2>2, StoreStutters
<1>8. CASE x \in Txns
  <2>1. x # NoTxn
    BY <1>8, ScriptAssumption
  <2>2. InTxn(t, x)
    BY <1>0, <1>1, <1>4, TaskTxn DEF InTxn
  <2>3. Status(x) = "open" /\ Status(x)' = "open"
    BY <1>0, <1>2, <1>8, <2>2, InsideIsOpen
  <2>4. Locker(o) \in {NoTxn, x} /\ Locker(o)' = x
    BY <1>5, <2>1, <2>3 DEF Locker
  <2>5. Stored(o) = num[o].read /\ Stored(o)' = Stored(o)
    BY <1>5, <2>1, <2>3 DEF Stored
  <2>6. Staged(o) = num[o].write
    <3>1. CASE num[o].owner = x
      BY <2>1, <2>3, <3>1 DEF Staged, Locker
    <3>2. CASE num[o].owner = NoTxn
      <4>1. num[o].write = num[o].read
        BY <1>3, <3>2, WriterFindsClean
      <4>. QED  BY <2>5, <3>2, <4>1 DEF Staged, Locker
    <3>. QED  BY <1>5, <3>1, <3>2
  <2>7. Staged(o)' = Result(Staged(o), req[t].f)
    BY <1>5, <2>1, <2>4, <2>6 DEF Staged
  <2>8. req[t].f \in {r.f : r \in {q \in Requests : q.kind = "PUT"}}
    <3>1. OpOK(t) /\ IsOp(t)
      BY <1>0, <1>1, TaskFacts, TaskTxn
    <3>2. req[t].kind = "PUT"
      BY <1>1, <3>1 DEF OpOK, IsOp
    <3>. QED  BY <1>0, <1>1, <3>2, CallSent
  <2>9. Store!TxnWrite(x, o, req[t].f)
    <3>1. [p \in Objects |-> Locker(p)]' =
            [[p \in Objects |-> Locker(p)] EXCEPT ![o] = x]
      BY <1>6, <2>4
    <3>2. [p \in Objects |-> Staged(p)]' =
            [[p \in Objects |-> Staged(p)] EXCEPT ![o] = Result(@, req[t].f)]
      BY <1>6, <2>7
    <3>3. [p \in Objects |-> Stored(p)]' = [p \in Objects |-> Stored(p)]
      BY <1>6, <2>5
    <3>4. [y \in Txns |-> Status(y)]' = [y \in Txns |-> Status(y)]
      BY <1>2
    <3>. QED  BY <1>8, <2>3, <2>4, <3>1, <3>2, <3>3, <3>4 DEF Store!TxnWrite
  <2>. QED  BY <1>8, <2>8, <2>9 DEF Store!Next
<1>. QED  BY <1>7, <1>8

\* The commit of a write outside the transactions is the write of the store.
LEMMA RefinePublish ==
  ASSUME Base, Consistent, Clean, Ending, Deciding, NEW t \in Tasks, Publish(t)
  PROVE  UNCHANGED Store!vars \/ Store!Next
<1>0. Control /\ EndsOnce /\ TxnLocked /\ ShapeOK /\ TaskOK(t) /\ Serve(t)
  BY DEF Base, Control, Serve
<1>1. pc[t] = "run" /\ sched[t] = "COMMIT" /\ ~Decide(t)
  BY DEF Publish, Decide
<1>2. \A x \in Txns : Status(x)' = Status(x)
  BY <1>0, <1>1, StatusStays
<1>3. PICK o \in Objects : o = Obj(t)
  BY PublishNumber
<1>4. /\ Committing(t, o) /\ num'[o] = Commit(num[o])
      /\ \A p \in Objects : p # o => num'[p] = num[p]
  BY <1>3, PublishNumber
<1>5. \A p \in Objects : p # o =>
        Stored(p)' = Stored(p) /\ Locker(p)' = Locker(p) /\ Staged(p)' = Staged(p)
  BY <1>2, <1>4, ViewStays
<1>6. CASE num'[o] = num[o]
  BY <1>2, <1>5, <1>6, ViewStays, StoreStutters
<1>7. CASE num'[o] # num[o]
  <2>1. num[o].owner = NoTxn /\ num[o].write # num[o].read
    BY <1>4, <1>7, NumberShape DEF Commit
  <2>2. PICK u \in Tasks : Unpublished(u, o)
    BY <2>1 DEF Clean, Unpublished
  <2>3. u = t
    BY <1>4, <2>2 DEF Unpublished, Consistent, ObjectOK, OneOwner
  <2>4. req[t].kind = "PUT" /\ num[o].write = Result(num[o].read, req[t].f)
    BY <2>2, <2>3 DEF Unpublished
  <2>5. num'[o].owner = NoTxn /\ num'[o].read = num[o].write
    <3>1. num[o] = [read |-> num[o].read, write |-> num[o].write, owner |-> num[o].owner]
      BY NumberShape
    <3>. QED  BY <1>4, <2>1, <3>1, CommitShape
  <2>6. /\ Locker(o) = NoTxn /\ Locker(o)' = NoTxn
        /\ Stored(o) = num[o].read /\ Stored(o)' = num[o].write
    BY <2>1, <2>5 DEF Locker, Stored
  <2>7. Staged(o)' = num[o].write
    BY <2>6 DEF Staged
  <2>8. req[t].f \in {r.f : r \in {q \in Requests : q.kind = "PUT"}}
    BY <1>0, <1>1, <2>4, CallSent
  <2>9. Store!Write(o, req[t].f)
    <3>1. [p \in Objects |-> Locker(p)]' = [p \in Objects |-> Locker(p)]
      BY <1>5, <2>6
    <3>2. [p \in Objects |-> Stored(p)]' =
            [[p \in Objects |-> Stored(p)] EXCEPT ![o] = Result(@, req[t].f)]
      BY <1>5, <2>4, <2>6
    <3>3. [p \in Objects |-> Staged(p)]' =
            [[p \in Objects |-> Staged(p)] EXCEPT
               ![o] = Result([p \in Objects |-> Stored(p)][o], req[t].f)]
      BY <1>5, <2>4, <2>6, <2>7
    <3>4. [y \in Txns |-> Status(y)]' = [y \in Txns |-> Status(y)]
      BY <1>2
    <3>. QED  BY <2>6, <3>1, <3>2, <3>3, <3>4 DEF Store!Write
  <2>. QED  BY <2>8, <2>9 DEF Store!Next
<1>. QED  BY <1>6, <1>7

\* An atom makes true what the decision has promised of its number.
LEMMA RefineAtom ==
  ASSUME Base, Ending, Deciding, NEW t \in Tasks, DoAtom(t)
  PROVE  UNCHANGED Store!vars
<1>0. Control /\ EndsOnce /\ TxnLocked /\ ShapeOK /\ TaskOK(t) /\ Serve(t)
  BY DEF Base, Control, Serve
<1>1. pc[t] = "atoms" /\ ~Decide(t)
  BY DEF DoAtom, Decide
<1>2. \A x \in Txns : Status(x)' = Status(x)
  BY <1>0, <1>1, StatusStays
<1>3. PICK o \in Objects : o = Here(t)
  BY <1>0, DoAtomOwner
<1>4. PICK x \in Txns : x = Txn(t)
  BY <1>0, DoAtomOwner
<1>5. /\ num'[o].owner = NoTxn
      /\ num'[o].read = IF ctype[t] = "APPLY" THEN num[o].write ELSE num[o].read
      /\ \A p \in Objects : p # o => num'[p] = num[p]
      /\ idx[t] \in DOMAIN group[x] /\ o = group[x][idx[t]]
  BY <1>0, <1>3, <1>4, DoAtomOwner
<1>6. x # NoTxn
  BY ScriptAssumption
<1>7. num[o].owner = x
  <2>1. idx[t] \in Nat /\ Ender(t, x) /\ \A u \in Tasks : Ender(u, x) => u = t
    BY <1>0, <1>1, <1>4, AtomsAlone, LocalTypes
  <2>2. Todo(x, idx[t])
    BY <1>1, <2>1 DEF Todo, Past
  <2>. QED  BY <1>5, <2>2 DEF Base, Grouped, AtomOwned
<1>8. Status(x) = IF ctype[t] = "APPLY" THEN "committed" ELSE "rolledback"
  BY <1>0, <1>1, <1>4, AtomsStatus
<1>9. /\ Locker(o) = NoTxn /\ Locker(o)' = NoTxn
      /\ Stored(o)' = Stored(o)
  BY <1>5, <1>6, <1>7, <1>8 DEF Locker, Stored
<1>10. Staged(o)' = Staged(o)
  BY <1>9 DEF Staged
<1>11. \A p \in Objects : p # o =>
        Stored(p)' = Stored(p) /\ Locker(p)' = Locker(p) /\ Staged(p)' = Staged(p)
  BY <1>2, <1>5, ViewStays
<1>. QED  BY <1>2, <1>9, <1>10, <1>11, StoreStutters

\* The decision is the end of the transaction, on all its numbers at once.
LEMMA RefineDecide ==
  ASSUME Base, Ending, NEW t \in Tasks, Decide(t)
  PROVE  Store!Next
<1>1. PICK x \in Txns : x = Txn(t)
  BY StatusDecide
<1>2. PICK how \in {"committed", "rolledback"} :
        \A y \in Txns : Status(y)' = IF y = x THEN how ELSE Status(y)
  BY <1>1, StatusDecide
<1>3. Status(x) = "open" /\ x # NoTxn
  BY <1>1, StatusDecide, ScriptAssumption
<1>4. num' = num
  BY DEF Decide, objVars
<1>5. ASSUME NEW o \in Objects
      PROVE  /\ Locker(o)' = IF Locker(o) = x THEN NoTxn ELSE Locker(o)
             /\ Stored(o)' = IF Locker(o) = x /\ how = "committed" THEN Staged(o)
                             ELSE Stored(o)
             /\ Staged(o)' = IF Locker(o) = x
                             THEN IF how = "committed" THEN Staged(o) ELSE Stored(o)
                             ELSE Staged(o)
  <2>1. PICK y \in Txns \cup {NoTxn} : y = num[o].owner
    BY NumberShape
  <2>2. y = num'[o].owner
    BY <1>4, <2>1
  <2>3. CASE y = x
    <3>1. /\ Locker(o) = x /\ Stored(o) = num[o].read /\ Staged(o) = num[o].write
      BY <1>3, <2>1, <2>3 DEF Locker, Stored, Staged
    <3>2. Locker(o)' = NoTxn /\ Stored(o)' = IF how = "committed" THEN num[o].write
                                             ELSE num[o].read
      <4>1. Status(num[o].owner)' = how
        BY <1>2, <2>2, <2>3
      <4>. QED  BY <1>3, <1>4, <2>2, <2>3, <4>1 DEF Locker, Stored
    <3>3. Staged(o)' = Stored(o)'
      BY <3>2 DEF Staged
    <3>. QED  BY <3>1, <3>2, <3>3
  <2>4. CASE y # x
    <3>1. Locker(o) # x
      BY <1>3, <2>1, <2>4 DEF Locker
    <3>2. y # NoTxn => Status(num[o].owner)' = Status(num[o].owner)
      BY <1>2, <2>1, <2>2, <2>4
    <3>3. Locker(o)' = Locker(o) /\ Stored(o)' = Stored(o)
      BY <1>4, <2>1, <3>2 DEF Locker, Stored
    <3>4. Staged(o)' = Staged(o)
      BY <1>4, <3>3 DEF Staged
    <3>. QED  BY <3>1, <3>3, <3>4
  <2>. QED  BY <2>3, <2>4
<1>6. [y \in Txns |-> Status(y)]' = [[y \in Txns |-> Status(y)] EXCEPT ![x] = how]
  BY <1>2
<1>7. CASE how = "committed"
  <2>1. Store!Commit(x)
    BY <1>3, <1>5, <1>6, <1>7 DEF Store!Commit, Store!End
  <2>. QED  BY <2>1 DEF Store!Next
<1>8. CASE how = "rolledback"
  <2>1. Store!Rollback(x)
    BY <1>3, <1>5, <1>6, <1>8 DEF Store!Rollback, Store!End
  <2>. QED  BY <2>1 DEF Store!Next
<1>. QED  BY <1>7, <1>8

\* The transactions are atomic (RefinesStore): until the history is broken,
\* every step is a step of the abstract store or none.
THEOREM TransactionsAreAtomic == Spec => RefinesStore
<1>1. Init => Store!Init
  <2>. SUFFICES ASSUME Init PROVE Store!Init
    OBVIOUS
  <2>1. \A o \in Objects : /\ Stored(o) = Created.write /\ Locker(o) = NoTxn
                           /\ Staged(o) = Created.write
    BY DEF Init, Stored, Locker, Staged, Created
  <2>2. \A x \in Txns : Status(x) = "open"
    BY DEF Init, Status, Settling, Ended
  <2>. QED  BY <2>1, <2>2 DEF Store!Init
<1>2. StoreInv /\ [Next]_vars =>
        [Broken' \/ UNCHANGED Store!vars \/ Store!Next]_(Store!vars)
  <2>. SUFFICES ASSUME StoreInv, [Next]_vars, ~Broken'
                PROVE  UNCHANGED Store!vars \/ Store!Next
    OBVIOUS
  <2>0. /\ Base /\ ShapeOK /\ Deciding /\ Consistent /\ Clean /\ Ending
    <3>1. Base /\ ShapeOK /\ Deciding
      BY DEF StoreInv, Base, Control
    <3>2. ~wiped /\ ~late
      BY <3>1, WipedStays, LateStays DEF Broken
    <3>. QED  BY <3>1, <3>2 DEF StoreInv
  <2>1. ASSUME NEW x \in Txns, Begin(x) PROVE UNCHANGED Store!vars
    <3>1. num' = num
      BY <2>1 DEF Begin, objVars
    <3>. QED  BY <2>0, <2>1, <3>1, StatusBegin, ViewStays, StoreStutters
  <2>2. ASSUME NEW t \in Tasks, Serve(t) \/ \E r \in Requests : Sends(t, r)
        PROVE  UNCHANGED Store!vars \/ Store!Next
    <3>1. CASE Write(t)
      BY <2>0, <3>1, RefineWrite
    <3>2. CASE Publish(t)
      BY <2>0, <3>2, RefinePublish
    <3>3. CASE DoAtom(t)
      BY <2>0, <3>3, RefineAtom
    <3>4. CASE Decide(t)
      BY <2>0, <3>4, RefineDecide
    <3>5. CASE ~Write(t) /\ ~Publish(t) /\ ~DoAtom(t) /\ ~Decide(t)
      <4>1. \A o \in Objects : num'[o] = num[o]
        BY <2>0, <2>2, <3>5, NumbersStay, CompleteNumbers
      <4>2. \A x \in Txns : Status(x)' = Status(x)
        BY <2>0, <2>2, <3>5, StatusStays
      <4>. QED  BY <2>0, <4>1, <4>2, ViewStays, StoreStutters
    <3>. QED  BY <3>1, <3>2, <3>3, <3>4, <3>5
  <2>3. CASE UNCHANGED vars
    <3>1. UNCHANGED <<num, tstate, pc, req, ctype>>
      BY <2>3 DEF vars, objVars, txnVars, taskVars
    <3>2. \A x \in Txns : Status(x)' = Status(x)
      BY <3>1 DEF Status, Settling, Ended, Txn
    <3>. QED  BY <2>0, <3>1, <3>2, ViewStays, StoreStutters
  <2>. QED  BY <2>0, <2>1, <2>2, <2>3, StepCases
<1>. QED  BY <1>1, <1>2, StoreInvariant, PTL DEF Spec, RefinesStore
=============================================================================
