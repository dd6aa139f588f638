------------------------ MODULE ObjectSchedProofs ------------------------
(***************************************************************************)
(* Proofs about ObjectSched, for any finite sets of tasks and any width of *)
(* the reader count that holds them all.                                   *)
(*                                                                         *)
(* The safety properties of ObjectSched are not inductive: they speak of   *)
(* what tasks hold, while the actions test the semaphore's word.  The      *)
(* inductive invariant IInv ties the two together, for as long as no WRITE *)
(* has been given up under a reader (wiped = FALSE):                       *)
(*   - the reader count is the number of tasks that hold READ;             *)
(*   - each flag of the word has exactly one owner among the tasks.        *)
(***************************************************************************)
EXTENDS ObjectSched, FiniteSetTheorems, TLAPS

Resting == {"idle", "runnable", "checked", "parking", "parked", "flagging",
            "wake", "finish", "done"}

\* Where a client task can be, with what task->state and what hold.
ClientOK(t) ==
  /\ sched[t] \in {"OPEN", Flag(t), "COMMIT"}
  /\ sched[t] = "COMMIT" => t \in Writers
  /\ pc[t] # "flagging"
  /\ pc[t] \in Resting => hold[t] = "NONE"
  /\ pc[t] = "idle" => sched[t] = "OPEN"
  /\ pc[t] = "exec" => hold[t] = Op(sched[t])
  /\ pc[t] = "flag" => hold[t] = "WRITE" /\ sched[t] = "WRITE"
  /\ pc[t] = "switch" => hold[t] = "WRITE" /\ sched[t] \in {"READ", "COMMIT"}
  /\ pc[t] = "release" => /\ hold[t] \in {"READ", "WRITE", "COMMIT"}
                          /\ hold[t] = "READ" => sched[t] = "READ"
                          /\ hold[t] = "COMMIT" <=>
                               sched[t] = "COMMIT" /\ complete[t]
  /\ pc[t] \in {"flag", "switch"} => ~complete[t]
  /\ pc[t] = "finish" => complete[t]

ClientControl == \A t \in Clients : ClientOK(t)

\* The same for a transaction.
TxnOK(x) ==
  /\ pc[x] \notin {"flag", "switch"}
  /\ sched[x] = IF pc[x] \in {"idle", "flagging"} THEN "OPEN" ELSE "LOCK"
  /\ pc[x] \in Resting => hold[x] = "NONE"
  /\ pc[x] \in {"exec", "release"} => hold[x] = "LOCK"
  /\ pc[x] \in {"release", "wake"} => complete[x]

TxnControl == \A x \in Txns : TxnOK(x)

\* A task in a wait queue is parked, and waits for the operation of that
\* queue.
QueueControl ==
  \A op \in Ops : \A t \in waitq[op] : pc[t] = "parked" /\ Op(sched[t]) = op

\* pending_txn_id names the one transaction between barrier and release.
OneTxn ==
  /\ RightTxn
  /\ \A x \in Txns : pendingTxn = x => pc[x] \notin {"idle", "done"}

\* What holds in every reachable state, whatever happened to the word.
Control == TypeOK /\ ClientControl /\ TxnControl /\ QueueControl /\ OneTxn

-----------------------------------------------------------------------------
ReadHolders == {t \in Tasks : hold[t] = "READ"}

\* The tasks that answer for the COMMIT flag and for the LOCK flag.
Committing(t) ==
  /\ sched[t] = "COMMIT"
  /\ pc[t] \notin {"finish", "done"}
  /\ ~(pc[t] = "wake" /\ complete[t])

Locking(x) == pc[x] \notin {"idle", "flagging", "wake", "finish", "done"}

\* A client's mutation is in the object, not committed yet.
Mutated(t) ==
  \/ pc[t] = "flag"
  \/ Committing(t) /\ ~(pc[t] = "release" /\ complete[t])

\* The word counts the readers, and its flags are those of their owners.
WordMatches ==
  /\ word.readers = Cardinality(ReadHolders)
  /\ "WRITE" \in word.flags <=> \E t \in Tasks : hold[t] \in Exclusive
  /\ "COMMIT" \in word.flags <=> \E t \in Clients : Committing(t)
  /\ "LOCK" \in word.flags <=> \E x \in Txns : Locking(x)

\* One task holds the object exclusively, one commits, and they are the same
\* task when both are there.
OneOwner ==
  /\ \A t, u \in Tasks :
       hold[t] \in Exclusive /\ hold[u] \in Exclusive => t = u
  /\ \A t, u \in Clients : Committing(t) /\ Committing(u) => t = u
  /\ \A t \in Tasks, u \in Clients :
       hold[t] \in Exclusive /\ Committing(u) => t = u

NoReader ==
  \A t, u \in Tasks : hold[t] \in {"COMMIT", "LOCK"} => hold[u] # "READ"

DirtyOwned == dirty => \E t \in Clients : Mutated(t)

Consistent == WordMatches /\ OneOwner /\ NoReader /\ DirtyOwned

IInv == Control /\ (~wiped => Consistent)

-----------------------------------------------------------------------------
\* The operations of the semaphore keep its state word a word.
LEMMA WordOps ==
  ASSUME NEW s \in Word, NEW op \in Ops
  PROVE  /\ Acquired(op, s) \in Word
         /\ Released(op, s) \in Word
         /\ SetCommit(s) \in Word
         /\ SetLock(s) \in Word
         /\ SwitchedRead \in Word
         /\ Zero \in Word
<1>. USE MaxReadersAssumption
<1>1. \A F \in SUBSET Flags : /\ Only(F) \in Word
                             /\ CarryInto(F) \in SUBSET Flags
                             /\ BorrowFrom(F) \in SUBSET Flags
  BY DEF Only, Word, Flags, CarryInto, BorrowFrom
<1>2. s.readers \in 0 .. MaxReaders /\ s.flags \in SUBSET Flags
  BY DEF Word
<1>3. \A f \in Flags : WithFlag(s, f) \in Word
  BY <1>2 DEF WithFlag, Word
<1>4. PlusOne(s) \in Word
  BY <1>1, <1>2 DEF PlusOne, Word
<1>5. MinusOne(s) \in Word
  BY <1>1, <1>2 DEF MinusOne, Word
<1>6. Acquired(op, s) \in Word
  BY <1>1, <1>3, <1>4 DEF Acquired, Ops, Flags
<1>7. Released(op, s) \in Word
  BY <1>1, <1>2, <1>5 DEF Released, Ops, Flags, Zero, Word
<1>8. SetCommit(s) \in Word /\ SetLock(s) \in Word
  BY <1>3 DEF SetCommit, SetLock, Flags
<1>9. SwitchedRead \in Word /\ Zero \in Word
  BY DEF SwitchedRead, Zero, Word
<1>. QED  BY <1>6, <1>7, <1>8, <1>9

LEMMA InitControl == Init => Control
<1>. SUFFICES ASSUME Init PROVE Control
  OBVIOUS
<1>1. TypeOK
  <2>1. Zero \in Word
    BY MaxReadersAssumption DEF Zero, Word
  <2>. QED  BY <2>1 DEF Init, TypeOK, Ops
<1>2. ClientControl
  BY DEF Init, ClientControl, ClientOK, Clients, Tasks, Resting
<1>3. TxnControl
  BY DEF Init, TxnControl, TxnOK, Tasks, Resting
<1>4. QueueControl
  BY DEF Init, QueueControl
<1>5. OneTxn
  BY TasksAssumption DEF Init, OneTxn, RightTxn, Tasks
<1>. QED  BY <1>1, <1>2, <1>3, <1>4, <1>5 DEF Control

\* The kinds of tasks are distinct.
LEMMA Kinds ==
  /\ \A t \in Clients : t \in Tasks /\ t \notin Txns
  /\ \A x \in Txns : x \in Tasks /\ x \notin Clients
  /\ \A t \in Readers : t \notin Writers
  /\ NoTxn \notin Txns
BY TasksAssumption DEF Clients, Tasks

\* The operation of a task that queues for the semaphore, and of one that
\* releases it.
LEMMA OpTypes ==
  ASSUME Control, NEW t \in Tasks
  PROVE  /\ Op(sched[t]) \in Ops
         /\ pc[t] = "release" => hold[t] \in Ops
         /\ t \in Clients => Flag(t) \in {"READ", "WRITE"}
BY DEF Control, TypeOK, ClientControl, ClientOK, TxnControl, TxnOK, Op, Ops,
       Flag, Tasks


\* Every step keeps the type.
LEMMA TypeStep == Control /\ [Next]_vars => TypeOK'
<1>. SUFFICES ASSUME Control, [Next]_vars PROVE TypeOK'
  OBVIOUS
<1>. USE DEF Control, TypeOK
<1>1. CASE Create
  BY <1>1, Kinds DEF Create
<1>2. ASSUME NEW t \in Tasks, Check(t) PROVE TypeOK'
  BY <1>2, Kinds, OpTypes DEF Check, Flag
<1>3. ASSUME NEW t \in Tasks, Acquire(t) PROVE TypeOK'
  BY <1>3, Kinds, WordOps, OpTypes DEF Acquire
<1>4. ASSUME NEW t \in Tasks, Refuse(t) PROVE TypeOK'
  BY <1>4, Kinds DEF Refuse
<1>5. ASSUME NEW t \in Tasks, Park(t) PROVE TypeOK'
  BY <1>5, Kinds DEF Park
<1>6. ASSUME NEW t \in Tasks, Release(t) PROVE TypeOK'
  BY <1>6, Kinds, WordOps, OpTypes DEF Release
<1>7. ASSUME NEW t \in Tasks, Wake(t) PROVE TypeOK'
  BY <1>7, Kinds DEF Wake
<1>8. ASSUME NEW t \in Clients, Submit(t) PROVE TypeOK'
  BY <1>8, Kinds DEF Submit
<1>9. ASSUME NEW t \in Clients, ExecOpen(t) PROVE TypeOK'
  <2>1. t \in Tasks /\ Flag(t) \in {"READ", "WRITE"}
    BY Kinds, OpTypes
  <2>2. complete' \in [Tasks -> BOOLEAN]
    BY <1>9, <2>1 DEF ExecOpen
  <2>3. sched' \in [Tasks -> {"OPEN", "READ", "WRITE", "COMMIT", "LOCK"}]
    BY <1>9, <2>1 DEF ExecOpen
  <2>4. \E p \in {"switch", "release"} : pc' = [pc EXCEPT ![t] = p]
    BY <1>9 DEF ExecOpen
  <2>. QED  BY <1>9, <2>1, <2>2, <2>3, <2>4 DEF ExecOpen
<1>10. ASSUME NEW t \in Clients, SwitchRead(t) PROVE TypeOK'
  <2>1. t \in Tasks /\ SwitchedRead \in Word
    BY Kinds, WordOps DEF Ops
  <2>2. CASE word' = word /\ hold' = hold /\ wiped' = wiped
    BY <1>10, <2>1, <2>2 DEF SwitchRead
  <2>3. CASE /\ word' = SwitchedRead /\ hold' = [hold EXCEPT ![t] = "READ"]
             /\ wiped' = (wiped \/ word.readers > 0)
    BY <1>10, <2>1, <2>3 DEF SwitchRead, Ops
  <2>. QED  BY <1>10, <2>2, <2>3 DEF SwitchRead
<1>11. ASSUME NEW t \in Clients, ExecRead(t) PROVE TypeOK'
  BY <1>11, Kinds DEF ExecRead
<1>12. ASSUME NEW t \in Clients, ExecWrite(t) PROVE TypeOK'
  <2>1. t \in Tasks
    BY Kinds
  <2>2. /\ dirty' \in BOOLEAN /\ balance' \in BOOLEAN
        /\ complete' \in [Tasks -> BOOLEAN]
    BY <1>12, <2>1 DEF ExecWrite
  <2>. QED  BY <1>12, <2>1, <2>2 DEF ExecWrite
<1>13. ASSUME NEW t \in Clients, SetCommitFlag(t) PROVE TypeOK'
  BY <1>13, Kinds, WordOps DEF SetCommitFlag, Ops
<1>14. ASSUME NEW t \in Clients, SwitchCommit(t) PROVE TypeOK'
  BY <1>14, Kinds DEF SwitchCommit, Ops
<1>15. ASSUME NEW t \in Clients, ExecCommit(t) PROVE TypeOK'
  BY <1>15, Kinds DEF ExecCommit
<1>16. ASSUME NEW t \in Clients, FinishClient(t) PROVE TypeOK'
  BY <1>16, Kinds DEF FinishClient
<1>17. ASSUME NEW t \in Txns, Barrier(t) PROVE TypeOK'
  BY <1>17, Kinds DEF Barrier
<1>18. ASSUME NEW t \in Txns, SetLockFlag(t) PROVE TypeOK'
  BY <1>18, Kinds, WordOps DEF SetLockFlag, Ops
<1>19. ASSUME NEW t \in Txns, ExecTxn(t) PROVE TypeOK'
  BY <1>19, Kinds DEF ExecTxn
<1>20. ASSUME NEW t \in Txns, FinishTxn(t) PROVE TypeOK'
  BY <1>20, Kinds DEF FinishTxn
<1>21. CASE UNCHANGED vars
  BY <1>21 DEF vars
<1>. QED
    BY <1>1, <1>2, <1>3, <1>4, <1>5, <1>6, <1>7, <1>8, <1>9, <1>10, <1>11,
     <1>12, <1>13, <1>14, <1>15, <1>16, <1>17, <1>18, <1>19, <1>20, <1>21 DEF
     Next, Semaphore, ClientStep, TxnStep

\* Every step keeps the control state of the client tasks.
LEMMA ClientControlStep == Control /\ [Next]_vars => ClientControl'
<1>. SUFFICES ASSUME Control, [Next]_vars PROVE ClientControl'
  OBVIOUS
<1>. USE DEF Control, TypeOK, ClientControl, ClientOK, Resting
<1>1. CASE Create
  BY <1>1, Kinds DEF Create
<1>2. ASSUME NEW t \in Tasks, Check(t) PROVE ClientControl'
  BY <1>2, Kinds DEF Check, Op, Flag
<1>3. ASSUME NEW t \in Tasks, Acquire(t) PROVE ClientControl'
  BY <1>3, Kinds DEF Acquire, Op, Flag
<1>4. ASSUME NEW t \in Tasks, Refuse(t) PROVE ClientControl'
  BY <1>4, Kinds DEF Refuse
<1>5. ASSUME NEW t \in Tasks, Park(t) PROVE ClientControl'
  BY <1>5, Kinds DEF Park
<1>6. ASSUME NEW t \in Tasks, Release(t) PROVE ClientControl'
  BY <1>6, Kinds DEF Release
<1>7. ASSUME NEW t \in Tasks, Wake(t) PROVE ClientControl'
  BY <1>7, Kinds DEF Wake, QueueControl
<1>8. ASSUME NEW t \in Clients, Submit(t) PROVE ClientControl'
  BY <1>8, Kinds DEF Submit
<1>9. ASSUME NEW t \in Clients, ExecOpen(t) PROVE ClientControl'
  BY <1>9, Kinds DEF ExecOpen, Op, Flag
<1>10. ASSUME NEW t \in Clients, SwitchRead(t) PROVE ClientControl'
  BY <1>10, Kinds DEF SwitchRead, Op, Flag
<1>11. ASSUME NEW t \in Clients, ExecRead(t) PROVE ClientControl'
  BY <1>11, Kinds DEF ExecRead, Op, Flag
<1>12. ASSUME NEW t \in Clients, ExecWrite(t) PROVE ClientControl'
  BY <1>12, Kinds DEF ExecWrite, Op, Flag
<1>13. ASSUME NEW t \in Clients, SetCommitFlag(t) PROVE ClientControl'
  BY <1>13, Kinds DEF SetCommitFlag, Op, Flag, Clients
<1>14. ASSUME NEW t \in Clients, SwitchCommit(t) PROVE ClientControl'
  BY <1>14, Kinds DEF SwitchCommit, Op, Flag
<1>15. ASSUME NEW t \in Clients, ExecCommit(t) PROVE ClientControl'
  BY <1>15, Kinds DEF ExecCommit, Op, Flag
<1>16. ASSUME NEW t \in Clients, FinishClient(t) PROVE ClientControl'
  BY <1>16, Kinds DEF FinishClient
<1>17. ASSUME NEW t \in Txns, Barrier(t) PROVE ClientControl'
  BY <1>17, Kinds DEF Barrier
<1>18. ASSUME NEW t \in Txns, SetLockFlag(t) PROVE ClientControl'
  BY <1>18, Kinds DEF SetLockFlag
<1>19. ASSUME NEW t \in Txns, ExecTxn(t) PROVE ClientControl'
  BY <1>19, Kinds DEF ExecTxn
<1>20. ASSUME NEW t \in Txns, FinishTxn(t) PROVE ClientControl'
  BY <1>20, Kinds DEF FinishTxn
<1>21. CASE UNCHANGED vars
  BY <1>21 DEF vars
<1>. QED
    BY <1>1, <1>2, <1>3, <1>4, <1>5, <1>6, <1>7, <1>8, <1>9, <1>10, <1>11,
     <1>12, <1>13, <1>14, <1>15, <1>16, <1>17, <1>18, <1>19, <1>20, <1>21 DEF
     Next, Semaphore, ClientStep, TxnStep

\* Every step keeps the control state of the transactions.
LEMMA TxnControlStep == Control /\ [Next]_vars => TxnControl'
<1>. SUFFICES ASSUME Control, [Next]_vars PROVE TxnControl'
  OBVIOUS
<1>. USE DEF Control, TypeOK, TxnControl, TxnOK, Resting
<1>1. CASE Create
  BY <1>1, Kinds DEF Create
<1>2. ASSUME NEW t \in Tasks, Check(t) PROVE TxnControl'
  BY <1>2, Kinds DEF Check
<1>3. ASSUME NEW t \in Tasks, Acquire(t) PROVE TxnControl'
  BY <1>3, Kinds DEF Acquire, Op
<1>4. ASSUME NEW t \in Tasks, Refuse(t) PROVE TxnControl'
  BY <1>4, Kinds DEF Refuse
<1>5. ASSUME NEW t \in Tasks, Park(t) PROVE TxnControl'
  BY <1>5, Kinds DEF Park
<1>6. ASSUME NEW t \in Tasks, Release(t) PROVE TxnControl'
  BY <1>6, Kinds DEF Release
<1>7. ASSUME NEW t \in Tasks, Wake(t) PROVE TxnControl'
  BY <1>7, Kinds DEF Wake, QueueControl
<1>8. ASSUME NEW t \in Clients, Submit(t) PROVE TxnControl'
  BY <1>8, Kinds DEF Submit
<1>9. ASSUME NEW t \in Clients, ExecOpen(t) PROVE TxnControl'
  BY <1>9, Kinds DEF ExecOpen
<1>10. ASSUME NEW t \in Clients, SwitchRead(t) PROVE TxnControl'
  BY <1>10, Kinds DEF SwitchRead
<1>11. ASSUME NEW t \in Clients, ExecRead(t) PROVE TxnControl'
  BY <1>11, Kinds DEF ExecRead
<1>12. ASSUME NEW t \in Clients, ExecWrite(t) PROVE TxnControl'
  BY <1>12, Kinds DEF ExecWrite
<1>13. ASSUME NEW t \in Clients, SetCommitFlag(t) PROVE TxnControl'
  BY <1>13, Kinds DEF SetCommitFlag
<1>14. ASSUME NEW t \in Clients, SwitchCommit(t) PROVE TxnControl'
  BY <1>14, Kinds DEF SwitchCommit
<1>15. ASSUME NEW t \in Clients, ExecCommit(t) PROVE TxnControl'
  BY <1>15, Kinds DEF ExecCommit
<1>16. ASSUME NEW t \in Clients, FinishClient(t) PROVE TxnControl'
  BY <1>16, Kinds DEF FinishClient
<1>17. ASSUME NEW t \in Txns, Barrier(t) PROVE TxnControl'
  BY <1>17, Kinds DEF Barrier
<1>18. ASSUME NEW t \in Txns, SetLockFlag(t) PROVE TxnControl'
  BY <1>18, Kinds DEF SetLockFlag
<1>19. ASSUME NEW t \in Txns, ExecTxn(t) PROVE TxnControl'
  BY <1>19, Kinds DEF ExecTxn
<1>20. ASSUME NEW t \in Txns, FinishTxn(t) PROVE TxnControl'
  BY <1>20, Kinds DEF FinishTxn
<1>21. CASE UNCHANGED vars
  BY <1>21 DEF vars
<1>. QED
    BY <1>1, <1>2, <1>3, <1>4, <1>5, <1>6, <1>7, <1>8, <1>9, <1>10, <1>11,
     <1>12, <1>13, <1>14, <1>15, <1>16, <1>17, <1>18, <1>19, <1>20, <1>21 DEF
     Next, Semaphore, ClientStep, TxnStep

\* Every step keeps the wait queues in order.
LEMMA QueueControlStep == Control /\ [Next]_vars => QueueControl'
<1>. SUFFICES ASSUME Control, [Next]_vars PROVE QueueControl'
  OBVIOUS
<1>. USE DEF Control, TypeOK, QueueControl, Tasks
<1>1. CASE Create
  BY <1>1, Kinds DEF Create
<1>2. ASSUME NEW t \in Tasks, Check(t) PROVE QueueControl'
  BY <1>2, Kinds DEF Check
<1>3. ASSUME NEW t \in Tasks, Acquire(t) PROVE QueueControl'
  BY <1>3, Kinds DEF Acquire
<1>4. ASSUME NEW t \in Tasks, Refuse(t) PROVE QueueControl'
  BY <1>4, Kinds DEF Refuse
<1>5. ASSUME NEW t \in Tasks, Park(t) PROVE QueueControl'
  BY <1>5, Kinds DEF Park
<1>6. ASSUME NEW t \in Tasks, Release(t) PROVE QueueControl'
  BY <1>6, Kinds DEF Release
<1>7. ASSUME NEW t \in Tasks, Wake(t) PROVE QueueControl'
  BY <1>7, Kinds DEF Wake
<1>8. ASSUME NEW t \in Clients, Submit(t) PROVE QueueControl'
  BY <1>8, Kinds DEF Submit
<1>9. ASSUME NEW t \in Clients, ExecOpen(t) PROVE QueueControl'
  BY <1>9, Kinds DEF ExecOpen
<1>10. ASSUME NEW t \in Clients, SwitchRead(t) PROVE QueueControl'
  BY <1>10, Kinds DEF SwitchRead
<1>11. ASSUME NEW t \in Clients, ExecRead(t) PROVE QueueControl'
  BY <1>11, Kinds DEF ExecRead
<1>12. ASSUME NEW t \in Clients, ExecWrite(t) PROVE QueueControl'
  BY <1>12, Kinds DEF ExecWrite
<1>13. ASSUME NEW t \in Clients, SetCommitFlag(t) PROVE QueueControl'
  BY <1>13, Kinds DEF SetCommitFlag
<1>14. ASSUME NEW t \in Clients, SwitchCommit(t) PROVE QueueControl'
  BY <1>14, Kinds DEF SwitchCommit
<1>15. ASSUME NEW t \in Clients, ExecCommit(t) PROVE QueueControl'
  BY <1>15, Kinds DEF ExecCommit
<1>16. ASSUME NEW t \in Clients, FinishClient(t) PROVE QueueControl'
  BY <1>16, Kinds DEF FinishClient
<1>17. ASSUME NEW t \in Txns, Barrier(t) PROVE QueueControl'
  BY <1>17, Kinds DEF Barrier
<1>18. ASSUME NEW t \in Txns, SetLockFlag(t) PROVE QueueControl'
  BY <1>18, Kinds DEF SetLockFlag
<1>19. ASSUME NEW t \in Txns, ExecTxn(t) PROVE QueueControl'
  BY <1>19, Kinds DEF ExecTxn
<1>20. ASSUME NEW t \in Txns, FinishTxn(t) PROVE QueueControl'
  BY <1>20, Kinds DEF FinishTxn
<1>21. CASE UNCHANGED vars
  BY <1>21 DEF vars
<1>. QED
    BY <1>1, <1>2, <1>3, <1>4, <1>5, <1>6, <1>7, <1>8, <1>9, <1>10, <1>11,
     <1>12, <1>13, <1>14, <1>15, <1>16, <1>17, <1>18, <1>19, <1>20, <1>21 DEF
     Next, Semaphore, ClientStep, TxnStep

\* Every step keeps pending_txn_id the one transaction at work.
LEMMA OneTxnStep == Control /\ [Next]_vars => OneTxn'
<1>. SUFFICES ASSUME Control, [Next]_vars PROVE OneTxn'
  OBVIOUS
<1>. USE DEF Control, TypeOK, OneTxn, RightTxn
<1>1. CASE Create
  BY <1>1, Kinds DEF Create
<1>2. ASSUME NEW t \in Tasks, Check(t) PROVE OneTxn'
  BY <1>2, Kinds DEF Check
<1>3. ASSUME NEW t \in Tasks, Acquire(t) PROVE OneTxn'
  BY <1>3, Kinds DEF Acquire
<1>4. ASSUME NEW t \in Tasks, Refuse(t) PROVE OneTxn'
  BY <1>4, Kinds DEF Refuse
<1>5. ASSUME NEW t \in Tasks, Park(t) PROVE OneTxn'
  BY <1>5, Kinds DEF Park
<1>6. ASSUME NEW t \in Tasks, Release(t) PROVE OneTxn'
  BY <1>6, Kinds DEF Release
<1>7. ASSUME NEW t \in Tasks, Wake(t) PROVE OneTxn'
  BY <1>7, Kinds DEF Wake, QueueControl
<1>8. ASSUME NEW t \in Clients, Submit(t) PROVE OneTxn'
  BY <1>8, Kinds DEF Submit
<1>9. ASSUME NEW t \in Clients, ExecOpen(t) PROVE OneTxn'
  BY <1>9, Kinds DEF ExecOpen
<1>10. ASSUME NEW t \in Clients, SwitchRead(t) PROVE OneTxn'
  BY <1>10, Kinds DEF SwitchRead
<1>11. ASSUME NEW t \in Clients, ExecRead(t) PROVE OneTxn'
  BY <1>11, Kinds DEF ExecRead
<1>12. ASSUME NEW t \in Clients, ExecWrite(t) PROVE OneTxn'
  BY <1>12, Kinds DEF ExecWrite
<1>13. ASSUME NEW t \in Clients, SetCommitFlag(t) PROVE OneTxn'
  BY <1>13, Kinds DEF SetCommitFlag
<1>14. ASSUME NEW t \in Clients, SwitchCommit(t) PROVE OneTxn'
  BY <1>14, Kinds DEF SwitchCommit
<1>15. ASSUME NEW t \in Clients, ExecCommit(t) PROVE OneTxn'
  BY <1>15, Kinds DEF ExecCommit
<1>16. ASSUME NEW t \in Clients, FinishClient(t) PROVE OneTxn'
  BY <1>16, Kinds DEF FinishClient
<1>17. ASSUME NEW t \in Txns, Barrier(t) PROVE OneTxn'
  BY <1>17, Kinds DEF Barrier
<1>18. ASSUME NEW t \in Txns, SetLockFlag(t) PROVE OneTxn'
  BY <1>18, Kinds DEF SetLockFlag
<1>19. ASSUME NEW t \in Txns, ExecTxn(t) PROVE OneTxn'
  BY <1>19, Kinds DEF ExecTxn
<1>20. ASSUME NEW t \in Txns, FinishTxn(t) PROVE OneTxn'
  BY <1>20, Kinds DEF FinishTxn
<1>21. CASE UNCHANGED vars
  BY <1>21 DEF vars
<1>. QED
    BY <1>1, <1>2, <1>3, <1>4, <1>5, <1>6, <1>7, <1>8, <1>9, <1>10, <1>11,
     <1>12, <1>13, <1>14, <1>15, <1>16, <1>17, <1>18, <1>19, <1>20, <1>21 DEF
     Next, Semaphore, ClientStep, TxnStep

-----------------------------------------------------------------------------
LEMMA ControlStep == Control /\ [Next]_vars => Control'
BY TypeStep, ClientControlStep, TxnControlStep, QueueControlStep, OneTxnStep
   DEF Control

\* Counting the readers: no carry into the flags and no borrow from them.
LEMMA CountReaders ==
  ASSUME TypeOK
  PROVE  /\ Cardinality(ReadHolders) \in 0 .. MaxReaders
         /\ \A t \in Tasks : hold[t] # "READ" =>
              /\ Cardinality(ReadHolders) < MaxReaders
              /\ Cardinality(ReadHolders \cup {t}) =
                   Cardinality(ReadHolders) + 1
         /\ \A t \in ReadHolders :
              /\ Cardinality(ReadHolders) > 0
              /\ Cardinality(ReadHolders \ {t}) =
                   Cardinality(ReadHolders) - 1
         /\ ReadHolders = {} <=> Cardinality(ReadHolders) = 0
<1>1. IsFiniteSet(Tasks) /\ Cardinality(Tasks) <= MaxReaders
  BY TasksAssumption
<1>2. \A S \in SUBSET Tasks : /\ IsFiniteSet(S)
                             /\ Cardinality(S) \in Nat
                             /\ Cardinality(S) <= Cardinality(Tasks)
  BY <1>1, FS_Subset, FS_CardinalityType
<1>3. ReadHolders \in SUBSET Tasks
  BY DEF ReadHolders
<1>4. MaxReaders \in Nat /\ Cardinality(Tasks) \in Nat
  BY <1>1, FS_CardinalityType, MaxReadersAssumption
<1>5. Cardinality(ReadHolders) \in 0 .. MaxReaders
  BY <1>1, <1>2, <1>3, <1>4
<1>6. ASSUME NEW t \in Tasks, hold[t] # "READ"
      PROVE  /\ Cardinality(ReadHolders) < MaxReaders
             /\ Cardinality(ReadHolders \cup {t}) =
                  Cardinality(ReadHolders) + 1
  <2>1. t \notin ReadHolders /\ ReadHolders \cup {t} \in SUBSET Tasks
    BY <1>6, <1>3 DEF ReadHolders
  <2>2. Cardinality(ReadHolders \cup {t}) = Cardinality(ReadHolders) + 1
    BY <1>2, <1>3, <2>1, FS_AddElement
  <2>. QED  BY <1>1, <1>2, <1>3, <1>4, <2>1, <2>2
<1>7. ASSUME NEW t \in ReadHolders
      PROVE  /\ Cardinality(ReadHolders) > 0
             /\ Cardinality(ReadHolders \ {t}) =
                  Cardinality(ReadHolders) - 1
  <2>1. Cardinality(ReadHolders \ {t}) = Cardinality(ReadHolders) - 1
    BY <1>2, <1>3, FS_RemoveElement
  <2>2. Cardinality(ReadHolders \ {t}) \in Nat
    BY <1>2, <1>3
  <2>. QED  BY <1>2, <1>3, <2>1, <2>2
<1>8. ReadHolders = {} <=> Cardinality(ReadHolders) = 0
  BY <1>2, <1>3, FS_EmptySet
<1>. QED  BY <1>5, <1>6, <1>7, <1>8

\* A step that leaves the word and the holds alone, and keeps the owners of
\* the flags and of a mutation.
LEMMA Frame ==
  ASSUME Consistent,
         word' = word, hold' = hold,
         \A t \in Clients : Committing(t)' <=> Committing(t),
         \A x \in Txns : Locking(x)' <=> Locking(x),
         dirty' => \E t \in Clients : Mutated(t)'
  PROVE  Consistent'
<1>1. ReadHolders' = ReadHolders
  BY DEF ReadHolders
<1>2. WordMatches'
  BY <1>1 DEF Consistent, WordMatches
<1>3. OneOwner'
  BY DEF Consistent, OneOwner
<1>4. NoReader'
  BY DEF Consistent, NoReader
<1>. QED  BY <1>2, <1>3, <1>4 DEF Consistent, DirtyOwned

\* The steps that touch neither the word nor what the tasks hold.
LEMMA QuietStep ==
  ASSUME Control, Consistent,
         \/ Create \/ UNCHANGED vars
         \/ \E t \in Tasks : Check(t) \/ Refuse(t) \/ Park(t) \/ Wake(t)
         \/ \E t \in Clients : \/ Submit(t) \/ ExecOpen(t) \/ ExecRead(t)
                              \/ ExecWrite(t) \/ ExecCommit(t)
                              \/ FinishClient(t)
         \/ \E x \in Txns : Barrier(x) \/ ExecTxn(x) \/ FinishTxn(x)
  PROVE  Consistent'
<1>. DEFINE Same == /\ \A t \in Clients : Committing(t)' <=> Committing(t)
                    /\ \A x \in Txns : Locking(x)' <=> Locking(x)
                    /\ dirty' => \E t \in Clients : Mutated(t)'
<1>. USE DEF Control, TypeOK, ClientControl, ClientOK, TxnControl, TxnOK,
             Resting, Committing, Locking, Mutated, Consistent, DirtyOwned
<1>1. CASE Create
  BY <1>1, Frame DEF Create
<1>2. CASE UNCHANGED vars
  BY <1>2, Frame DEF vars
<1>3. ASSUME NEW t \in Tasks, Check(t) PROVE Consistent'
  <2>1. word' = word /\ hold' = hold
    BY <1>3 DEF Check
  <2>2. Same
    BY <1>3, Kinds DEF Check, Flag, Op
  <2>. QED  BY <2>1, <2>2, Frame
<1>4. ASSUME NEW t \in Tasks, Refuse(t) PROVE Consistent'
  <2>1. word' = word /\ hold' = hold
    BY <1>4 DEF Refuse
  <2>2. Same
    BY <1>4, Kinds DEF Refuse
  <2>. QED  BY <2>1, <2>2, Frame
<1>5. ASSUME NEW t \in Tasks, Park(t) PROVE Consistent'
  <2>1. word' = word /\ hold' = hold
    BY <1>5 DEF Park
  <2>2. Same
    BY <1>5, Kinds DEF Park
  <2>. QED  BY <2>1, <2>2, Frame
<1>6. ASSUME NEW t \in Tasks, Wake(t) PROVE Consistent'
  <2>1. word' = word /\ hold' = hold
    BY <1>6 DEF Wake
  <2>2. Same
    BY <1>6, Kinds DEF Wake, QueueControl
  <2>. QED  BY <2>1, <2>2, Frame
<1>7. ASSUME NEW t \in Clients, Submit(t) PROVE Consistent'
  <2>1. word' = word /\ hold' = hold
    BY <1>7 DEF Submit
  <2>2. Same
    BY <1>7, Kinds DEF Submit
  <2>. QED  BY <2>1, <2>2, Frame
<1>8. ASSUME NEW t \in Clients, ExecOpen(t) PROVE Consistent'
  <2>1. word' = word /\ hold' = hold
    BY <1>8 DEF ExecOpen
  <2>2. Same
    BY <1>8, Kinds DEF ExecOpen, Flag, Op
  <2>. QED  BY <2>1, <2>2, Frame
<1>9. ASSUME NEW t \in Clients, ExecRead(t) PROVE Consistent'
  <2>1. word' = word /\ hold' = hold
    BY <1>9 DEF ExecRead
  <2>2. Same
    BY <1>9, Kinds DEF ExecRead
  <2>. QED  BY <2>1, <2>2, Frame
<1>10. ASSUME NEW t \in Clients, ExecWrite(t) PROVE Consistent'
  <2>1. word' = word /\ hold' = hold
    BY <1>10 DEF ExecWrite
  <2>2. Same
    BY <1>10, Kinds DEF ExecWrite
  <2>. QED  BY <2>1, <2>2, Frame
<1>11. ASSUME NEW t \in Clients, ExecCommit(t) PROVE Consistent'
  <2>1. word' = word /\ hold' = hold
    BY <1>11 DEF ExecCommit
  <2>2. Same
    BY <1>11, Kinds DEF ExecCommit
  <2>. QED  BY <2>1, <2>2, Frame
<1>12. ASSUME NEW t \in Clients, FinishClient(t) PROVE Consistent'
  <2>1. word' = word /\ hold' = hold
    BY <1>12 DEF FinishClient
  <2>2. Same
    BY <1>12, Kinds DEF FinishClient
  <2>. QED  BY <2>1, <2>2, Frame
<1>13. ASSUME NEW x \in Txns, Barrier(x) PROVE Consistent'
  <2>1. word' = word /\ hold' = hold
    BY <1>13 DEF Barrier
  <2>2. Same
    BY <1>13, Kinds DEF Barrier
  <2>. QED  BY <2>1, <2>2, Frame
<1>14. ASSUME NEW x \in Txns, ExecTxn(x) PROVE Consistent'
  <2>1. word' = word /\ hold' = hold
    BY <1>14 DEF ExecTxn
  <2>2. Same
    BY <1>14, Kinds DEF ExecTxn
  <2>. QED  BY <2>1, <2>2, Frame
<1>15. ASSUME NEW x \in Txns, FinishTxn(x) PROVE Consistent'
  <2>1. word' = word /\ hold' = hold
    BY <1>15 DEF FinishTxn
  <2>2. Same
    BY <1>15, Kinds DEF FinishTxn
  <2>. QED  BY <2>1, <2>2, Frame
<1>. QED
  BY <1>1, <1>2, <1>3, <1>4, <1>5, <1>6, <1>7, <1>8, <1>9, <1>10, <1>11, <1>12, <1>13, <1>14, <1>15

\* What Control says of the tasks in the terms of Consistent.
LEMMA Owners ==
  ASSUME Control
  PROVE  /\ \A t \in Tasks : hold[t] \in Ops \cup {"NONE"}
         /\ \A t \in Clients : hold[t] # "LOCK"
         /\ \A x \in Txns : hold[x] \in {"LOCK", "NONE"}
         /\ \A x \in Txns : hold[x] = "LOCK" => Locking(x)
         /\ \A x, y \in Txns : Locking(x) /\ Locking(y) => x = y
         /\ \A t \in Clients : hold[t] = "COMMIT" => Committing(t)
BY Kinds DEF Control, TypeOK, ClientControl, ClientOK, TxnControl, TxnOK,
     OneTxn, RightTxn, Op, Flag, Ops, Resting, Committing, Locking

\* The three steps that only set a flag, or only test the word.
LEMMA SetCommitFlagStep ==
  ASSUME Control, Consistent, NEW t \in Clients, SetCommitFlag(t)
  PROVE  Consistent'
<1>. USE DEF Control, TypeOK, ClientControl, ClientOK, SetCommitFlag
<1>1. /\ hold[t] = "WRITE" /\ ~Committing(t) /\ Committing(t)' /\ Mutated(t)'
      /\ \A u \in Clients \ {t} : Committing(u)' <=> Committing(u)
      /\ \A x \in Txns : Locking(x)' <=> Locking(x)
  BY Kinds DEF Committing, Locking, Mutated
<1>2. /\ hold' = hold /\ ReadHolders' = ReadHolders
      /\ word'.readers = word.readers
      /\ word'.flags = word.flags \cup {"COMMIT"}
  BY DEF SetCommit, WithFlag, ReadHolders
<1>3. \A u \in Clients : ~Committing(u)
  BY <1>1, Kinds DEF Consistent, OneOwner, Exclusive
<1>4. WordMatches'
  BY <1>1, <1>2, Kinds DEF Consistent, WordMatches, Exclusive
<1>5. OneOwner'
  BY <1>1, <1>2, <1>3, Kinds DEF Consistent, OneOwner, Exclusive
<1>6. NoReader' /\ DirtyOwned'
  BY <1>1, <1>2 DEF Consistent, NoReader, DirtyOwned
<1>. QED  BY <1>4, <1>5, <1>6 DEF Consistent

LEMMA SetLockFlagStep ==
  ASSUME Control, Consistent, NEW x \in Txns, SetLockFlag(x)
  PROVE  Consistent'
<1>. USE DEF Control, TypeOK, TxnControl, TxnOK, SetLockFlag
<1>1. /\ Locking(x)'
      /\ \A y \in Txns \ {x} : Locking(y)' <=> Locking(y)
      /\ \A t \in Clients : (Committing(t)' <=> Committing(t))
                            /\ (Mutated(t)' <=> Mutated(t))
  BY Kinds DEF Committing, Locking, Mutated
<1>2. /\ hold' = hold /\ ReadHolders' = ReadHolders
      /\ word'.readers = word.readers
      /\ word'.flags = word.flags \cup {"LOCK"}
  BY DEF SetLock, WithFlag, ReadHolders
<1>3. WordMatches'
  BY <1>1, <1>2 DEF Consistent, WordMatches
<1>4. OneOwner' /\ NoReader' /\ DirtyOwned'
  BY <1>1, <1>2 DEF Consistent, OneOwner, NoReader, DirtyOwned
<1>. QED  BY <1>3, <1>4 DEF Consistent

LEMMA SwitchCommitStep ==
  ASSUME Control, Consistent, NEW t \in Clients, SwitchCommit(t)
  PROVE  Consistent'
<1>. USE DEF Control, TypeOK, ClientControl, ClientOK, SwitchCommit
<1>1. /\ hold[t] = "WRITE" /\ Committing(t)
      /\ \A u \in Clients : (Committing(u)' <=> Committing(u))
                            /\ (Mutated(u)' <=> Mutated(u))
      /\ \A x \in Txns : Locking(x)' <=> Locking(x)
  BY Kinds DEF Committing, Locking, Mutated
<1>2. CASE ~SwitchCommitGranted(word)
  BY <1>1, <1>2, Frame DEF Consistent, DirtyOwned
<1>3. CASE SwitchCommitGranted(word)
  <2>1. /\ word' = word /\ hold' = [hold EXCEPT ![t] = "COMMIT"]
        /\ word.readers = 0
    BY <1>3, <1>1 DEF SwitchCommitGranted, Only
  <2>2. ReadHolders' = ReadHolders /\ ReadHolders = {}
    BY <1>1, <2>1, CountReaders, Kinds
    DEF ReadHolders, Consistent, WordMatches
  <2>3. \A u \in Tasks : hold'[u] \in Exclusive <=> hold[u] \in Exclusive
    BY <1>1, <2>1, Kinds DEF Exclusive
  <2>4. WordMatches'
    BY <1>1, <2>1, <2>2, <2>3 DEF Consistent, WordMatches
  <2>5. OneOwner'
    BY <1>1, <2>3 DEF Consistent, OneOwner
  <2>6. NoReader'
    BY <2>2 DEF ReadHolders, NoReader
  <2>. QED  BY <1>1, <2>4, <2>5, <2>6 DEF Consistent, DirtyOwned
<1>. QED  BY <1>2, <1>3

\* The steps that take the semaphore, give it up, or trade WRITE for READ.
LEMMA AcquireStep ==
  ASSUME Control, Consistent, NEW t \in Tasks, Acquire(t)
  PROVE  Consistent'
<1>. DEFINE op == Op(sched[t])
<1>1. /\ hold[t] = "NONE"
      /\ \A u \in Clients : (Committing(u)' <=> Committing(u))
                            /\ (Mutated(u)' <=> Mutated(u))
      /\ \A x \in Txns : Locking(x)' <=> Locking(x)
  BY Kinds DEF Acquire, Control, TypeOK, ClientControl, ClientOK, TxnControl,
       TxnOK, Resting, Tasks, Committing, Locking, Mutated
<1>2. /\ Granted(op, word) /\ word' = Acquired(op, word)
      /\ hold' = [hold EXCEPT ![t] = op] /\ hold \in [Tasks -> Ops \cup {"NONE"}]
      /\ op \in Ops
  BY OpTypes DEF Acquire, Control, TypeOK
<1>3. /\ op = "COMMIT" => t \in Clients /\ Committing(t)
      /\ op = "LOCK" => t \in Txns /\ Locking(t)
      /\ t \in Txns => op = "LOCK"
  BY Kinds DEF Acquire, Control, ClientControl, ClientOK, TxnControl, TxnOK,
       Op, Flag, Tasks, Committing, Locking
<1>4. DirtyOwned'
  BY <1>1 DEF Acquire, Consistent, DirtyOwned
<1>5. CASE op = "READ"
  <2>1. word.flags \subseteq {"WRITE"} /\ word' = PlusOne(word)
    BY <1>2, <1>5 DEF Granted, Acquired
  <2>2. ReadHolders' = ReadHolders \cup {t}
    BY <1>2, <1>5 DEF ReadHolders
  <2>3. /\ word'.readers = Cardinality(ReadHolders')
        /\ word'.flags = word.flags
    BY <1>1, <2>1, <2>2, CountReaders
    DEF PlusOne, Consistent, WordMatches, Control
  <2>4. \A u \in Tasks : hold'[u] \in Exclusive <=> hold[u] \in Exclusive
    BY <1>1, <1>2, <1>5 DEF Exclusive
  <2>5. WordMatches'
    BY <1>1, <2>3, <2>4 DEF Consistent, WordMatches
  <2>6. OneOwner'
    BY <1>1, <2>4 DEF Consistent, OneOwner
  <2>7. \A u \in Tasks : hold[u] \notin {"COMMIT", "LOCK"}
    BY <2>1, Owners DEF Consistent, WordMatches, Tasks
  <2>8. NoReader'
    BY <1>2, <1>5, <2>7 DEF NoReader
  <2>. QED  BY <1>4, <2>5, <2>6, <2>8 DEF Consistent
<1>6. CASE op = "WRITE"
  <2>1. word.flags = {} /\ word' = WithFlag(word, "WRITE")
    BY <1>2, <1>6 DEF Granted, Acquired
  <2>2. /\ \A u \in Tasks : hold[u] \notin Exclusive
        /\ \A u \in Clients : ~Committing(u)
        /\ \A x \in Txns : ~Locking(x)
    BY <2>1 DEF Consistent, WordMatches
  <2>3. ReadHolders' = ReadHolders
    BY <1>1, <1>2, <1>6 DEF ReadHolders
  <2>4. WordMatches'
    BY <1>1, <1>2, <1>6, <2>1, <2>2, <2>3
    DEF Consistent, WordMatches, WithFlag, Exclusive
  <2>5. OneOwner' /\ NoReader'
    BY <1>1, <1>2, <1>6, <2>2 DEF OneOwner, NoReader, Exclusive
  <2>. QED  BY <1>4, <2>4, <2>5 DEF Consistent
<1>7. CASE op \in {"COMMIT", "LOCK"}
  <2>1. /\ word = Only({op}) /\ word' = Only({op, "WRITE"})
    BY <1>2, <1>7 DEF Granted, Acquired
  <2>2. word.readers = 0 /\ word.flags = {op}
        /\ word'.readers = 0 /\ word'.flags = {op, "WRITE"}
    BY <2>1 DEF Only
  <2>3. \A u \in Tasks : hold[u] \notin Exclusive
    BY <1>7, <2>2 DEF Consistent, WordMatches
  <2>4. ReadHolders = {}
    BY <2>2, CountReaders DEF Consistent, WordMatches, Control
  <2>5. ReadHolders' = ReadHolders
    BY <1>1, <1>2, <1>7 DEF ReadHolders
  <2>6. WordMatches'
    <3>1. word'.readers = Cardinality(ReadHolders')
      BY <2>2, <2>5 DEF Consistent, WordMatches
    <3>2. \E u \in Tasks : hold'[u] \in Exclusive
      BY <1>2, <1>7 DEF Exclusive
    <3>. QED  BY <1>1, <1>7, <2>2, <3>1, <3>2 DEF Consistent, WordMatches
  <2>7. OneOwner'
    <3>1. \A u \in Tasks : hold'[u] \in Exclusive => u = t
      BY <1>2, <2>3
    <3>2. \A u \in Clients : Committing(u) => op = "COMMIT" /\ u = t
      BY <1>3, <1>7, <2>2 DEF Consistent, WordMatches, OneOwner
    <3>. QED  BY <1>1, <3>1, <3>2 DEF OneOwner
  <2>8. NoReader'
    BY <2>4, <2>5 DEF NoReader, ReadHolders
  <2>. QED  BY <1>4, <2>6, <2>7, <2>8 DEF Consistent
<1>. QED  BY <1>2, <1>5, <1>6, <1>7 DEF Ops

LEMMA SwitchReadStep ==
  ASSUME Control, Consistent, NEW t \in Clients, SwitchRead(t), ~wiped'
  PROVE  Consistent'
<1>. USE DEF Control, TypeOK, ClientControl, ClientOK, SwitchRead
<1>1. /\ hold[t] = "WRITE" /\ ~Committing(t)
      /\ \A u \in Clients : (Committing(u)' <=> Committing(u))
                            /\ (Mutated(u)' <=> Mutated(u))
      /\ \A x \in Txns : Locking(x)' <=> Locking(x)
  BY Kinds DEF Committing, Locking, Mutated
<1>2. DirtyOwned'
  BY <1>1 DEF Consistent, DirtyOwned
<1>3. CASE SwitchReadRefused(word) /\ UNCHANGED <<word, hold>>
  BY <1>1, <1>2, <1>3, Frame DEF DirtyOwned
<1>4. CASE /\ SwitchReadGranted(word) /\ word' = SwitchedRead
           /\ hold' = [hold EXCEPT ![t] = "READ"] /\ ~(word.readers > 0)
  <2>1. ReadHolders = {}
    BY <1>4, CountReaders DEF Consistent, WordMatches
  <2>2. ReadHolders' = ReadHolders \cup {t}
    BY <1>4, Kinds DEF ReadHolders
  <2>3. word'.readers = Cardinality(ReadHolders') /\ word'.flags = {}
    BY <1>1, <1>4, <2>1, <2>2, CountReaders, Kinds DEF SwitchedRead
  <2>4. \A u \in Tasks : hold'[u] \notin Exclusive
    BY <1>1, <1>4, Kinds DEF Consistent, OneOwner, Exclusive
  <2>5. (\A u \in Clients : ~Committing(u)) /\ (\A x \in Txns : ~Locking(x))
    BY <1>4 DEF SwitchReadGranted, Consistent, WordMatches
  <2>6. WordMatches'
    BY <1>1, <2>3, <2>4, <2>5 DEF WordMatches
  <2>7. OneOwner' /\ NoReader'
    BY <1>1, <2>4, <2>5 DEF OneOwner, NoReader, Exclusive
  <2>. QED  BY <1>2, <2>6, <2>7 DEF Consistent
<1>. QED  BY <1>3, <1>4

LEMMA ReleaseStep ==
  ASSUME Control, Consistent, NEW t \in Tasks, Release(t), ~wiped'
  PROVE  Consistent'
<1>1. /\ word' = Released(hold[t], word)
      /\ hold' = [hold EXCEPT ![t] = "NONE"]
      /\ hold \in [Tasks -> Ops \cup {"NONE"}] /\ word \in Word
      /\ hold[t] \in Ops
      /\ hold[t] = "WRITE" => ~(word.readers > 0)
      /\ dirty' = dirty
  BY OpTypes DEF Release, Control, TypeOK
<1>2. /\ \A u \in Clients : u # t => (Committing(u)' <=> Committing(u))
                                   /\ (Mutated(u)' <=> Mutated(u))
      /\ \A x \in Txns : x # t => (Locking(x)' <=> Locking(x))
  BY Kinds DEF Release, Control, TypeOK, Committing, Mutated, Locking
<1>3. /\ t \in Clients =>
           /\ hold[t] \in {"READ", "WRITE"} =>
                (Committing(t)' <=> Committing(t)) /\ (Mutated(t)' <=> Mutated(t))
           /\ hold[t] = "COMMIT" => Committing(t) /\ ~Committing(t)' /\ ~Mutated(t)
      /\ t \in Txns => hold[t] = "LOCK" /\ ~Locking(t)'
      /\ t \in Clients => hold[t] # "LOCK" /\ t \notin Txns
  BY Kinds DEF Release, Control, TypeOK, ClientControl, ClientOK, TxnControl,
       TxnOK, Committing, Mutated, Locking
<1>4. \A u \in Clients : Mutated(u) => hold[u] = "WRITE" \/ Committing(u)
  BY DEF Control, ClientControl, ClientOK, Mutated
<1>5. DirtyOwned'
  <2>1. CASE t \in Clients /\ hold[t] = "COMMIT"
    <3>1. ~dirty
      BY <1>3, <1>4, <2>1, Kinds
      DEF Consistent, DirtyOwned, OneOwner, Exclusive
    <3>. QED  BY <1>1, <3>1 DEF DirtyOwned
  <2>2. CASE ~(t \in Clients /\ hold[t] = "COMMIT")
    <3>1. \A u \in Clients : Mutated(u) => Mutated(u)'
      BY <1>1, <1>2, <1>3, <2>2 DEF Ops
    <3>. QED  BY <1>1, <3>1 DEF Consistent, DirtyOwned
  <2>. QED  BY <2>1, <2>2
<1>6. NoReader'
  BY <1>1 DEF Consistent, NoReader
<1>7. CASE hold[t] = "READ"
  <2>1. t \in ReadHolders /\ ReadHolders' = ReadHolders \ {t}
    BY <1>1, <1>7 DEF ReadHolders
  <2>2. word' = MinusOne(word)
    BY <1>1, <1>7 DEF Released
  <2>3. /\ word'.readers = Cardinality(ReadHolders')
        /\ word'.flags = word.flags
    BY <2>1, <2>2, CountReaders
    DEF MinusOne, Consistent, WordMatches, Control
  <2>4. \A u \in Tasks : hold'[u] \in Exclusive <=> hold[u] \in Exclusive
    BY <1>1, <1>7 DEF Exclusive
  <2>5. /\ \A u \in Clients : Committing(u)' <=> Committing(u)
        /\ \A x \in Txns : Locking(x)' <=> Locking(x)
    BY <1>2, <1>3, <1>7
  <2>6. WordMatches' /\ OneOwner'
    BY <2>3, <2>4, <2>5 DEF Consistent, WordMatches, OneOwner
  <2>. QED  BY <1>5, <1>6, <2>6 DEF Consistent
<1>8. CASE hold[t] \in Exclusive
  <2>1. ReadHolders' = ReadHolders
    BY <1>1, <1>8 DEF ReadHolders, Exclusive
  <2>2. ReadHolders = {}
    BY <1>1, <1>8, CountReaders
    DEF Consistent, WordMatches, NoReader, ReadHolders, Control, Exclusive
  <2>3. \A u \in Tasks : hold'[u] \notin Exclusive
    BY <1>1, <1>8 DEF Consistent, OneOwner, Exclusive
  <2>4. \A u \in Clients : Committing(u) => u = t
    BY <1>8 DEF Consistent, OneOwner
  <2>5. WordMatches'
    <3>1. word'.readers = 0 /\ Cardinality(ReadHolders') = 0
      BY <1>1, <1>8, <2>1, <2>2, FS_EmptySet
      DEF Released, Only, Zero, Exclusive
    <3>2. /\ "WRITE" \notin word'.flags
          /\ hold[t] = "WRITE" =>
               word'.flags = word.flags \cap {"LOCK", "COMMIT"}
          /\ hold[t] = "COMMIT" => word'.flags = word.flags \cap {"LOCK"}
          /\ hold[t] = "LOCK" => word'.flags = {}
      BY <1>1, <1>8 DEF Released, Only, Zero, Exclusive
    <3>3. hold[t] = "LOCK" =>
            /\ t \in Txns
            /\ \A x \in Txns : ~Locking(x)'
            /\ \A u \in Clients : ~Committing(u)'
      BY <1>2, <1>3, <2>4, Owners, Kinds DEF Tasks
    <3>4. t \in Clients => \A x \in Txns : Locking(x)' <=> Locking(x)
      BY <1>2, <1>3
    <3>5. CASE hold[t] = "LOCK"
      BY <2>3, <3>1, <3>2, <3>3, <3>5 DEF WordMatches
    <3>6. CASE t \in Clients /\ hold[t] = "WRITE"
      BY <1>2, <1>3, <2>3, <3>1, <3>2, <3>4, <3>6 DEF Consistent, WordMatches
    <3>7. CASE t \in Clients /\ hold[t] = "COMMIT"
      BY <1>2, <1>3, <2>3, <2>4, <3>1, <3>2, <3>4, <3>7
      DEF Consistent, WordMatches
    <3>. QED  BY <1>3, <1>8, <3>5, <3>6, <3>7 DEF Exclusive, Tasks
  <2>6. OneOwner'
    BY <1>2, <2>3, <2>4 DEF OneOwner
  <2>. QED  BY <1>5, <1>6, <2>5, <2>6 DEF Consistent
<1>. QED  BY <1>1, <1>7, <1>8 DEF Ops, Exclusive

-----------------------------------------------------------------------------
LEMMA InitIInv == Init => IInv
<1>. SUFFICES ASSUME Init PROVE IInv
  OBVIOUS
<1>1. Control
  BY InitControl
<1>2. /\ \A t \in Tasks : hold[t] = "NONE"
      /\ \A t \in Clients : ~Committing(t)
      /\ \A x \in Txns : ~Locking(x)
  BY Kinds DEF Init, Committing, Locking
<1>3. ReadHolders = {}
  BY <1>2 DEF ReadHolders
<1>4. WordMatches
  BY <1>2, <1>3, FS_EmptySet DEF WordMatches, Init, Zero, Exclusive
<1>5. OneOwner /\ NoReader /\ DirtyOwned
  BY <1>2 DEF OneOwner, NoReader, DirtyOwned, Init, Exclusive
<1>. QED  BY <1>1, <1>4, <1>5 DEF IInv, Consistent

\* Once a WRITE has been given up under a reader, that stays so.
LEMMA WipedStays == TypeOK /\ [Next]_vars /\ ~wiped' => ~wiped
BY DEF TypeOK, Next, vars, Semaphore, ClientStep, TxnStep, Create, Submit,
       Check, Acquire, Refuse, Park, ExecOpen, SwitchRead, ExecRead,
       ExecWrite, SetCommitFlag, SwitchCommit, ExecCommit, Barrier,
       SetLockFlag, ExecTxn, Release, Wake, FinishClient, FinishTxn

\* IInv is inductive.
LEMMA IInvStep == IInv /\ [Next]_vars => IInv'
<1>. SUFFICES ASSUME IInv, [Next]_vars PROVE IInv'
  OBVIOUS
<1>1. Control /\ Control'
  BY ControlStep DEF IInv
<1>2. ASSUME ~wiped' PROVE Consistent'
  <2>1. Consistent
    BY <1>1, <1>2, WipedStays DEF IInv, Control
  <2>. QED
    BY <1>1, <1>2, <2>1, QuietStep, SetCommitFlagStep, SetLockFlagStep,
       SwitchCommitStep, SwitchReadStep, AcquireStep, ReleaseStep
    DEF Next, Semaphore, ClientStep, TxnStep
<1>. QED  BY <1>1, <1>2 DEF IInv

\* The inductive invariant holds of every state of the object scheduler.
THEOREM Inductive == Spec => []IInv
BY InitIInv, IInvStep, PTL DEF Spec

\* Type correctness: in particular every release of the semaphore is that of
\* an operation the task holds, and the word stays a word.
THEOREM TypeCorrect == Spec => []TypeOK
<1>1. IInv => TypeOK
  BY DEF IInv, Control
<1>. QED  BY <1>1, Inductive, PTL

\* Writers, committers and transactions exclude one another, and commits and
\* transactions exclude the readers, until a WRITE is given up under a
\* reader.
THEOREM ExclusionHolds == Spec => []Exclusion
<1>1. IInv => Exclusion
  BY DEF IInv, Consistent, OneOwner, NoReader, Exclusion
<1>. QED  BY <1>1, Inductive, PTL

\* A transaction that holds the object finds no mutation that an earlier
\* write has still to commit, until a WRITE is given up under a reader.
THEOREM CommitBeforeTxnHolds == Spec => []CommitBeforeTxn
<1>1. IInv => CommitBeforeTxn
  <2>. SUFFICES ASSUME Control, Consistent, NEW x \in Txns, hold[x] = "LOCK",
                       dirty
                PROVE  FALSE
    BY DEF IInv, CommitBeforeTxn
  <2>1. PICK t \in Clients : Mutated(t)
    BY DEF Consistent, DirtyOwned
  <2>2. hold[t] = "WRITE" \/ Committing(t)
    BY <2>1 DEF Control, ClientControl, ClientOK, Mutated
  <2>. QED  BY <2>2, Kinds DEF Consistent, OneOwner, Exclusive
<1>. QED  BY <1>1, Inductive, PTL

\* A write function runs on an object whose last mutation is committed, until
\* a WRITE is given up under a reader.
THEOREM WriteOnCommittedHolds == Spec => []WriteOnCommitted
<1>1. IInv => WriteOnCommitted
  <2>. SUFFICES ASSUME Control, Consistent, NEW t \in Clients,
                       pc[t] = "exec", hold[t] = "WRITE", dirty
                PROVE  FALSE
    BY DEF IInv, WriteOnCommitted
  <2>1. PICK u \in Clients : Mutated(u)
    BY DEF Consistent, DirtyOwned
  <2>2. u = t
    BY <2>1, Kinds DEF Control, ClientControl, ClientOK, Mutated, Consistent,
         OneOwner, Exclusive
  <2>. QED
    BY <2>1, <2>2 DEF Control, ClientControl, ClientOK, Mutated, Committing, Op
<1>. QED  BY <1>1, Inductive, PTL

\* The assertion of __txn_mgr_release_locks never fails.
THEOREM RightTxnHolds == Spec => []RightTxn
<1>1. IInv => RightTxn
  BY DEF IInv, Control, OneTxn
<1>. QED  BY <1>1, Inductive, PTL

\* When every submitted task has been answered, nothing is left behind: no
\* reader, no flag, no waiter, no mutation and no pending transaction, unless
\* a WRITE has been given up under a reader.
THEOREM QuiescentCleanHolds == Spec => []QuiescentClean
<1>1. IInv => QuiescentClean
  <2>. SUFFICES ASSUME Control, Consistent,
                       \A t \in Tasks : pc[t] \in {"idle", "done"}
                PROVE  /\ word = Zero
                       /\ \A op \in Ops : waitq[op] = {}
                       /\ ~dirty
                       /\ pendingTxn = NoTxn
    BY DEF IInv, QuiescentClean
  <2>1. /\ \A t \in Clients : ~Committing(t) /\ ~Mutated(t) /\ hold[t] = "NONE"
        /\ \A x \in Txns : ~Locking(x) /\ hold[x] = "NONE"
    BY Kinds DEF Control, ClientControl, ClientOK, TxnControl, TxnOK, Resting,
         Committing, Mutated, Locking
  <2>2. ReadHolders = {}
    BY <2>1 DEF ReadHolders, Tasks
  <2>3. word.readers = 0 /\ word.flags = {}
    <3>1. word.flags \subseteq Flags
      BY DEF Control, TypeOK, Word
    <3>. QED  BY <2>1, <2>2, <3>1, FS_EmptySet
              DEF Consistent, WordMatches, Flags, Exclusive, Tasks
  <2>4. word = Zero
    BY <2>3 DEF Zero, Control, TypeOK, Word
  <2>5. \A op \in Ops : waitq[op] = {}
    BY DEF Control, TypeOK, QueueControl
  <2>6. ~dirty
    BY <2>1 DEF Consistent, DirtyOwned
  <2>7. pendingTxn = NoTxn
    BY Kinds DEF Control, TypeOK, OneTxn
  <2>. QED  BY <2>4, <2>5, <2>6, <2>7
<1>. QED  BY <1>1, Inductive, PTL
=============================================================================
