------------------------------- MODULE Deque -------------------------------
(***************************************************************************)
(* The deque object (raleighsl/objects/deque/deque.c) under the object     *)
(* scheduler, seen from its clients: every call runs alone on the deque    *)
(* (ObjectSched shows that it does), a write that succeeds is followed by  *)
(* the commit of the object, and the end of a transaction applies or       *)
(* reverts its atoms in the order they were added and commits the object.  *)
(*                                                                         *)
(* A doubly linked list is a sequence from its head.  A pointer to a node  *)
(* is the entry, Null, or DqEnd for the head of the list itself.  Following  *)
(* a pointer to an entry that has been freed is undefined: the deque is    *)
(* then corrupt, and what it does later is not followed.                   *)
(***************************************************************************)
EXTENDS Naturals, SequencesExt

CONSTANTS
  Entries,   \* the memory of the entries: each is allocated once
  DqTxns,
  DqNoTxn,     \* txn_id == 0
  Null,
  DqEnd        \* &(deque->data)

ASSUME DequeAssumption ==
  /\ IsFiniteSet(Entries)
  /\ DqNoTxn \notin DqTxns
  /\ Null # DqEnd /\ {Null, DqEnd} \cap Entries = {}
  /\ Null \notin DqTxns \cup {DqNoTxn}

Sides == {"front", "back"}
Other(s) == IF s = "front" THEN "back" ELSE "front"

VARIABLES
  data,      \* the entries of deque->data
  side,      \* of each side: pending_*, removed_* and the txn_id of its atom
  atoms,     \* of each transaction: the sides whose atom it has
  dqStatus,  \* of each transaction: "open", "failed" (DONT_COMMIT),
             \* "committed", "rolledback"
  dqAnswer,  \* [errno, entry]: what the last call answered
  author,    \* history: who pushed the entry, Null before it is allocated
  corrupt,   \* a pointer to a freed entry has been followed
  dqBroken   \* history: one of the weaknesses below has been met

dqvars == <<data, side, atoms, dqStatus, dqAnswer, author, corrupt, dqBroken>>

\* __object_create.
DqInit ==
  /\ data = <<>>
  /\ side = [s \in Sides |->
               [pending |-> <<>>, removed |-> Null, owner |-> DqNoTxn]]
  /\ atoms = [x \in DqTxns |-> <<>>]
  /\ dqStatus = [x \in DqTxns |-> "open"]
  /\ dqAnswer = [errno |-> "NONE", entry |-> Null]
  /\ author = [e \in Entries |-> Null]
  /\ corrupt = FALSE
  /\ dqBroken = FALSE

-----------------------------------------------------------------------------
\* The entries d, seen from the side s.
From(s, d) == IF s = "front" THEN d ELSE Reverse(d)

Place(e, d) == CHOOSE i \in DOMAIN d : d[i] = e

\* The loop that unlinks what was removed on the side, d seen from there.
Unlinked(r, d) ==
  CASE r = Null -> d
    [] r = DqEnd  -> <<>>
    [] OTHER    -> SubSeq(d, Place(r, d), Len(d))

\* Fault: the pushes are linked before the removed entries are unlinked.
MergedFirst(s, f, d) ==
  From(s, Unlinked(f[s].removed, f[s].pending \o From(s, d)))

\* The commit of one side: unlink what was popped, link what was pushed.
\* The lists are walked from their oldest push, so they keep their order.
Merged(s, f, d) == From(s, f[s].pending \o Unlinked(f[s].removed, From(s, d)))

\* The loop would not meet the entry it stops at.
Lost(s, f, d) == f[s].owner = DqNoTxn /\ f[s].removed \notin {Null, DqEnd} \cup Range(d)

\* __object_commit, on the sides f: only what no transaction holds.
CommitObject(f) ==
  LET front == IF f["front"].owner = DqNoTxn THEN Merged("front", f, data)
               ELSE data
      both == IF f["back"].owner = DqNoTxn THEN Merged("back", f, front)
              ELSE front
  IN  IF Lost("front", f, data) \/ Lost("back", f, front)
      THEN /\ corrupt' = TRUE
           /\ UNCHANGED <<data, side>>
      ELSE /\ data' = both
           /\ side' = [s \in Sides |->
                         IF f[s].owner = DqNoTxn
                         THEN [f[s] EXCEPT !.pending = <<>>, !.removed = Null]
                         ELSE f[s]]
           /\ UNCHANGED corrupt

-----------------------------------------------------------------------------
DqOpen(x) == ~corrupt /\ (x \in DqTxns => dqStatus[x] \in {"open", "failed"})

\* "Verify that no other transaction is holding the operation-lock".
Locked(x, s) == side[s].owner \notin {DqNoTxn, x}

\* The call answers an errno; a transaction must not commit any more.
DqFail(x, e) ==
  /\ dqAnswer' = [errno |-> e, entry |-> Null]
  /\ dqStatus' = IF x = DqNoTxn THEN dqStatus ELSE [dqStatus EXCEPT ![x] = "failed"]
  /\ UNCHANGED <<data, side, atoms, author, corrupt, dqBroken>>

Refuse(x, s) ==
  /\ DqOpen(x)
  /\ Locked(x, s)
  /\ DqFail(x, "TXN_LOCKED_OPERATION")

\* The pointer at the end of the list will cover entries that nobody popped:
\* the commit of the other side links new ones before it is used.
Covers(s, f) ==
  LET o == Other(s)
  IN  /\ f[s].removed = DqEnd
      /\ f[o].owner = DqNoTxn /\ f[o].pending # <<>>
      /\ s = "back" \/ f[s].owner # DqNoTxn

\* The entry a pointer refers to is unlinked.
Dangles(s, f, d) == f[s].removed \in Entries \ Range(d)

\* Every call that succeeds ends with raleighsl_object_commit.
DqSucceed(f, e, weak) ==
  /\ CommitObject(f)
  /\ dqAnswer' = [errno |-> "NONE", entry |-> e]
  /\ dqBroken' = \/ dqBroken \/ weak \/ corrupt'
                 \/ \E s \in Sides : Covers(s, f) \/ Dangles(s, side', data')

\* Fault: the atom of the side is not added to the transaction.
NewAtomsNone(x, s) == atoms

\* raleighsl_transaction_add, for the first push of the transaction here.
NewAtoms(x, s) ==
  IF x # DqNoTxn /\ side[s].owner # x
  THEN [atoms EXCEPT ![x] = Append(@, s)] ELSE atoms

\* raleighsl_deque_push.  The free entries are alike: any of them is taken.
Push(x, s) ==
  LET free == {e \in Entries : author[e] = Null}
      entry == CHOOSE e \in free : TRUE
  IN  /\ DqOpen(x)
      /\ ~Locked(x, s)
      /\ free # {}
      /\ author' = [author EXCEPT ![entry] = x]
      /\ atoms' = NewAtoms(x, s)
      /\ DqSucceed([side EXCEPT ![s].pending = <<entry>> \o @, ![s].owner = x],
                 Null, FALSE)
      /\ UNCHANGED dqStatus

\* raleighsl_deque_pop: the last push that waits on this side.
PopPending(x, s) ==
  /\ DqOpen(x)
  /\ ~Locked(x, s)
  /\ side[s].pending # <<>>
  /\ DqSucceed([side EXCEPT ![s].pending = Tail(@)],
             Head(side[s].pending), FALSE)
  /\ UNCHANGED <<atoms, dqStatus, author>>

\* Something is left of the list on this side, whatever the other took.
HasData(s) == side[s].removed # DqEnd /\ data # <<>>

\* raleighsl_deque_pop: the next entry of the list, which is unlinked by the
\* commit.  The transaction has the side from now on, but no atom of it.
\* It is weak when the side was free, and when the other side has removed
\* the entry before.
PopData(x, s) ==
  LET d == From(s, data)
      o == side[Other(s)].removed
      r == side[s].removed
      i == IF r = Null THEN 1 ELSE Place(r, d)
      next == IF i = Len(d) THEN DqEnd ELSE d[i + 1]
      gone == CASE o = Null -> 0 [] o = DqEnd -> Len(d)
                [] o \in Range(d) -> Len(d) - Place(o, d) [] OTHER -> Len(d)
  IN  /\ DqOpen(x)
      /\ ~Locked(x, s)
      /\ side[s].pending = <<>>
      /\ HasData(s)
      /\ IF r \notin {Null} \cup Range(d)
         THEN /\ corrupt' = TRUE
              /\ dqBroken' = TRUE
              /\ UNCHANGED <<data, side, dqAnswer>>
         ELSE DqSucceed([side EXCEPT ![s].removed = next, ![s].owner = x], d[i],
                      \/ x # DqNoTxn /\ side[s].owner # x
                      \/ i + gone > Len(d))
      /\ UNCHANGED <<atoms, dqStatus, author>>

\* raleighsl_deque_pop: the first push that waits on the other side.  Whose
\* it is is not verified.
PopOther(x, s) ==
  LET o == Other(s)
      p == side[o].pending
  IN  /\ DqOpen(x)
      /\ ~Locked(x, s)
      /\ side[s].pending = <<>>
      /\ ~HasData(s)
      /\ p # <<>>
      /\ DqSucceed([side EXCEPT ![o].pending = SubSeq(p, 1, Len(p) - 1)],
                 p[Len(p)], side[o].owner # x)
      /\ UNCHANGED <<atoms, dqStatus, author>>

NoItems(x, s) ==
  /\ DqOpen(x)
  /\ ~Locked(x, s)
  /\ side[s].pending = <<>> /\ ~HasData(s) /\ side[Other(s)].pending = <<>>
  /\ DqFail(x, "DATA_NO_ITEMS")

-----------------------------------------------------------------------------
\* __object_apply.
ApplyAtom(f, s) == [f EXCEPT ![s].owner = DqNoTxn]

\* __object_revert.  The side is found by the id of the transaction, not by
\* the atom: when one transaction has both sides, the atom of the back
\* reverts the front.
RevertAtom(f, s) ==
  LET t == IF f[s].owner = f["front"].owner THEN "front" ELSE "back"
  IN  [f EXCEPT ![t].pending = <<>>, ![t].removed = Null, ![s].owner = DqNoTxn]

\* __sched_txn_task_exec on this object, if the transaction has an atom of it.
EndTxn(x, f, how, weak) ==
  /\ ~corrupt
  /\ dqStatus' = [dqStatus EXCEPT ![x] = how]
  /\ IF atoms[x] = <<>>
     THEN /\ dqAnswer' = [errno |-> "NONE", entry |-> Null]
          /\ UNCHANGED <<data, side, corrupt, dqBroken>>
     ELSE DqSucceed(f, Null, weak)
  /\ UNCHANGED <<atoms, author>>

\* The atoms are applied, or reverted, in the order they were added.
AtomsApplied(x) ==
  IF Len(atoms[x]) = 2 THEN ApplyAtom(ApplyAtom(side, atoms[x][1]), atoms[x][2])
  ELSE ApplyAtom(side, atoms[x][1])

AtomsReverted(x) ==
  IF Len(atoms[x]) = 2 THEN RevertAtom(RevertAtom(side, atoms[x][1]), atoms[x][2])
  ELSE RevertAtom(side, atoms[x][1])

DqCommitTxn(x) ==
  /\ dqStatus[x] = "open"
  /\ EndTxn(x, AtomsApplied(x), "committed", FALSE)

DqRollbackTxn(x) ==
  /\ dqStatus[x] \in {"open", "failed"}
  /\ EndTxn(x, AtomsReverted(x), "rolledback",
            atoms[x] = <<"back", "front">>)

DqNext ==
  \/ \E x \in DqTxns \cup {DqNoTxn}, s \in Sides :
       \/ Push(x, s) \/ Refuse(x, s) \/ PopPending(x, s)
       \/ PopData(x, s) \/ PopOther(x, s) \/ NoItems(x, s)
  \/ \E x \in DqTxns : DqCommitTxn(x) \/ DqRollbackTxn(x)

DqSpec == DqInit /\ [][DqNext]_dqvars

-----------------------------------------------------------------------------
\* The types of the state; a transaction has an atom of each side at most.
DqTypeOK ==
  /\ data \in Seq(Entries)
  /\ side \in [Sides -> [pending : Seq(Entries),
                         removed : Entries \cup {Null, DqEnd},
                         owner : DqTxns \cup {DqNoTxn}]]
  /\ atoms \in [DqTxns -> UNION {[1 .. n -> Sides] : n \in 0 .. 2}]
  /\ dqStatus \in [DqTxns -> {"open", "failed", "committed", "rolledback"}]
  /\ dqAnswer \in [errno : {"NONE", "TXN_LOCKED_OPERATION", "DATA_NO_ITEMS"},
                 entry : Entries \cup {Null}]
  /\ author \in [Entries -> DqTxns \cup {DqNoTxn, Null}]
  /\ corrupt \in BOOLEAN
  /\ dqBroken \in BOOLEAN

\* A side is held exactly by the transactions that have its atom and have
\* not ended, so that their end frees it (raleighsl_deque_push, _pop against
\* __object_apply and __object_revert).
HeldIffAtom ==
  ~dqBroken => \A s \in Sides, x \in DqTxns :
    side[s].owner = x <=>
      dqStatus[x] \in {"open", "failed"} /\ s \in Range(atoms[x])

\* The deque as a double-ended queue with transactions.
Taken(s) ==
  LET r == side[s].removed
      d == From(s, data)
  IN  CASE r = Null -> 0
        [] r = DqEnd -> Len(d)
        [] r \in Range(d) -> Place(r, d) - 1
        [] OTHER -> Len(d)

Queue ==
  INSTANCE TxnDeque WITH
    Txns <- DqTxns, NoTxn <- DqNoTxn,
    items <- data, answer <- dqAnswer,
    locker <- [s \in Sides |-> side[s].owner],
    staged <- [s \in Sides |-> side[s].pending],
    taken <- [s \in Sides |-> Taken(s)],
    status <- [x \in DqTxns |-> IF dqStatus[x] = "failed" THEN "open"
                              ELSE dqStatus[x]]

\* Until one of the weaknesses is met, the deque is a double-ended queue
\* whose ends transactions lock, change and publish or restore as a whole:
\* every pop answers the entry that is first from its side, of what is
\* committed and its own.
RefinesQueue ==
  Queue!Init /\ [][UNCHANGED dqvars \/ Queue!Next \/ dqBroken']_(Queue!vars)

-----------------------------------------------------------------------------
\* What a rolled back transaction has pushed is not in the deque
\* (test_deque.py: deque.push_back('F', txn_2.txn_id), txn_2.rollback()).
RollbackDrops ==
  \A e \in Range(data) :
    author[e] \in DqTxns => dqStatus[author[e]] # "rolledback"
=============================================================================
