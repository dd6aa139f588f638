-------------------------------- MODULE SSet --------------------------------
(***************************************************************************)
(* The sorted set object (raleighsl/objects/sset/sset.c) under the object  *)
(* scheduler.  A call that writes is one step with the commit of the       *)
(* object that follows it (ObjectSched shows that nothing but reads comes  *)
(* between); the balance of the set is a task of its own, which any number *)
(* of calls may precede.                                                   *)
(*                                                                         *)
(* A set is a tree of nodes; a node holds a block (written by a balance),  *)
(* the items written since, and the locks of the open transactions.  A     *)
(* node is found by the first key of its block, 0 for the node without     *)
(* one, so that key stands for the pointer to the node.  A pointer to what *)
(* has been freed is not followed further: the set is then corrupt.        *)
(*                                                                         *)
(* Memory is never exhausted; keys and values have one size, so sizes are  *)
(* counted in items.                                                       *)
(***************************************************************************)
EXTENDS Naturals, SequencesExt

CONSTANTS
  Keys, Vals, Txns,
  NoTxn,       \* txn_id == 0
  Absent,      \* no item
  Deleted,     \* an item that is a delete marker
  SyncSize,    \* __SSET_SYNC_SIZE, in items
  BlockSize,   \* __SSET_BLOCK_SIZE, in items
  MaxPending,  \* bound: balance tasks that wait
  MaxAtoms,    \* bound: atoms of a transaction
  MaxAfter     \* bound: steps after a weakness has been met

ASSUME SSetAssumption ==
  /\ Keys \subseteq Nat \ {0} /\ IsFiniteSet(Keys)
  /\ NoTxn \notin Txns /\ {Absent, Deleted} \cap Vals = {} /\ Absent # Deleted
  /\ SyncSize \in Nat \ {0} /\ BlockSize \in Nat \ {0} /\ {MaxPending, MaxAtoms, MaxAfter} \subseteq Nat

VARIABLES
  nodes,     \* the nodes of the tree, by the first key of their block
  group,     \* of each transaction: the list of its atoms
  status,    \* of each transaction: "open", "failed" (DONT_COMMIT),
             \* "committed", "rolledback"
  balance,   \* object->requires_balancing
  pending,   \* the balance tasks that are scheduled
  reach,     \* the transactions whose list leads to a freed atom
  tails,     \* the transactions whose list has a freed atom as its tail
  corrupt,   \* freed memory has been followed, or an assertion has failed
  broken     \* history: 0, or the number of steps since one of the
             \* weaknesses of the code has been met

vars == <<nodes, group, status, balance, pending, reach, tails, corrupt,
          broken>>

Nothing(v) == [k \in Keys |-> v]
Free == [txn |-> NoTxn]

\* __sset_node_alloc: a node around the block b.
NewNode(b) ==
  [blk |-> b, mem |-> Nothing(Absent), locks |-> Nothing(Free), buf |-> 0]

\* __object_create.
Init ==
  /\ nodes = [n \in {0} |-> NewNode(Nothing(Absent))]
  /\ group = [x \in Txns |-> <<>>]
  /\ status = [x \in Txns |-> "open"]
  /\ balance = FALSE
  /\ pending = 0
  /\ reach = {} /\ tails = {}
  /\ corrupt = FALSE
  /\ broken = 0

-----------------------------------------------------------------------------
(* Looking up.                                                             *)

\* Fault: the last node, whatever the key.
FloorLast(k) == Max(DOMAIN nodes)

\* __sset_node_lookup: the last node that begins at k or before, else the
\* first one (z_tree_iter_seek_le).
Floor(k) ==
  LET upTo == {b \in DOMAIN nodes : b <= k}
  IN  IF upTo # {} THEN Max(upTo) ELSE Min(DOMAIN nodes)

Lock(k) == nodes[Floor(k)].locks[k]

\* What the node's memory and block say of the key, whatever is locked.
Visible(nd, k) ==
  CASE nd.mem[k] = Deleted -> Absent
    [] nd.mem[k] = Absent  -> nd.blk[k]
    [] OTHER               -> nd.mem[k]

\* __sset_node_mem_search, stop_if_has_txn.
Found(k) == Lock(k) # Free \/ Visible(nodes[Floor(k)], k) # Absent

\* __sset_txn_key_locked.
Locked(x, k) == Lock(k).txn \notin {NoTxn, x}

\* Fault: the block is searched before the items written since.
GetBlockFirst(x, k) ==
  LET nd == nodes[Floor(k)]
  IN  IF nd.blk[k] # Absent THEN nd.blk[k] ELSE Visible(nd, k)

\* raleighsl_sset_get: the value, or Absent for KEY_NOT_FOUND.  The search
\* does not stop at the lock of the key, and leaves the item of the lock in
\* the entry when it is the block that has the key.
Get(x, k) ==
  LET nd == nodes[Floor(k)]
      l == nd.locks[k]
      seen == IF nd.mem[k] # Absent THEN nd.mem[k] ELSE nd.blk[k]
  IN  CASE l = Free           -> Visible(nd, k)
        [] l # Free /\ l.txn = x -> IF seen # Absent THEN seen ELSE l.val
        [] l # Free /\ l.txn # x -> nd.mem[k]

-----------------------------------------------------------------------------
(* Scanning: a node's locks of the transaction, its items and its block    *)
(* are merged; of entries with one key the first of them counts.           *)

\* The keys of S in their order.
InOrder(S) ==
  CHOOSE s \in SetToSeqs(S) : \A i, j \in DOMAIN s : i < j => s[i] < s[j]

\* z_map_iterator_seek_to over a tree (seek_le) and over a block.
SeekTree(S, k, incl) ==
  LET upTo == {s \in S : s <= k}
  IN  IF incl /\ upTo # {} THEN {s \in S : s >= Max(upTo)}
      ELSE {s \in S : s > k}

SeekBlock(S, k, incl) == {s \in S : s > k \/ (incl /\ s = k)}

\* The keys that the iterators of a node run over: __sset_mem_iterator, the
\* bucket's, and __sset_txn_iterator, which skips the locks of others.
MemKeys(nd) == {k \in Keys : nd.mem[k] # Absent}

BlockKeys(nd) == {k \in Keys : nd.blk[k] # Absent}

OwnLocks(nd, x) == {k \in Keys : nd.locks[k] # Free /\ nd.locks[k].txn = x}

\* Fault: the delete markers are not skipped.
NodeScanMarkers(n, x, k, incl) ==
  LET nd == nodes[n]
      M == SeekTree(MemKeys(nd), k, incl)
      B == SeekBlock(BlockKeys(nd), k, incl)
      val(i) == IF i \in M THEN nd.mem[i] ELSE nd.blk[i]
  IN  [i \in 1 .. Cardinality(M \cup B) |->
         LET s == InOrder(M \cup B) IN <<s[i], val(s[i])>>]

\* __sset_node_iter_open, __sset_node_iter_next over z_map_merger_next.
NodeScan(n, x, k, incl) ==
  LET nd == nodes[n]
      L == SeekTree(OwnLocks(nd, x), k, incl)
      M == SeekTree(MemKeys(nd), k, incl)
      B == SeekBlock(BlockKeys(nd), k, incl)
      val(i) == CASE i \in L -> nd.locks[i].val
                  [] i \in M \ L -> nd.mem[i]
                  [] OTHER -> nd.blk[i]
      live == {i \in L \cup M \cup B : val(i) # Deleted}
      s == InOrder(live)
  IN  [i \in DOMAIN s |-> <<s[i], val(s[i])>>]

\* raleighsl_sset_scan from the key k (0: from the first), without the count
\* that cuts it.
Scan(x, k, incl) ==
  LET first == IF k = 0 THEN Min(DOMAIN nodes) ELSE Floor(k)
      rest == InOrder({n \in DOMAIN nodes : n > first})
  IN  NodeScan(first, x, k, incl)
        \o FlattenSeq([i \in DOMAIN rest |-> NodeScan(rest[i], x, 0, FALSE)])

-----------------------------------------------------------------------------
(* The atoms of the transactions.                                          *)

Atom(x, n, type, k, v) ==
  [txn |-> x, node |-> n, type |-> type, key |-> k, val |-> v]

\* Fault: the lock is left in the node.
AppliedLocked(nd, a) == [nd EXCEPT !.mem[a.key] = a.val]

\* __sset_txn_apply.  A transaction's atom detaches the lock of its key,
\* whosever it is.  A remove takes the item of the key away, and leaves its
\* marker only when there was none.
Applied(nd, a) ==
  LET unlocked == IF a.txn = NoTxn THEN nd
                  ELSE [nd EXCEPT !.locks[a.key] = Free]
  IN  IF a.type = "REMOVE"
      THEN [unlocked EXCEPT !.mem[a.key] = IF @ = Absent THEN Deleted
                                           ELSE Absent]
      ELSE [unlocked EXCEPT !.mem[a.key] = a.val,
                            !.buf = Min({SyncSize, @ + 1})]

\* The item that a remove takes away had covered the block's.
Uncovers(nd, a) ==
  a.type = "REMOVE" /\ nd.mem[a.key] # Absent /\ nd.blk[a.key] # Absent

\* __sset_txn_revert: the lock of the key is detached.
Reverted(nd, a) == [nd EXCEPT !.locks[a.key] = Free]

\* __sset_txn_attach: the atom becomes the lock of its key.
Attached(nd, a) == [nd EXCEPT !.locks[a.key] = a]

OnNode(how, ns, a) ==
  [ns EXCEPT ![a.node] = CASE how = "committed"  -> Applied(@, a)
                           [] how = "rolledback" -> Reverted(@, a)
                           [] how = "attached"   -> Attached(@, a)]

\* The nodes after the atoms of the list, one after the other.
OnNodes(how, as) ==
  LET after[i \in 0 .. Len(as)] ==
        IF i = 0 THEN nodes ELSE OnNode(how, after[i - 1], as[i])
  IN  after[Len(as)]

\* The step is or follows one that meets a weakness.
Meets(weak) == broken' = IF weak \/ broken > 0 THEN broken + 1 ELSE 0

Running == ~corrupt /\ broken <= MaxAfter

Open(x) == Running /\ (x \in Txns => status[x] \in {"open", "failed"})

\* The call fails: a transaction must not commit any more.
Fail(x) ==
  /\ status' = IF x = NoTxn THEN status ELSE [status EXCEPT ![x] = "failed"]
  /\ Meets(FALSE)
  /\ UNCHANGED <<nodes, group, balance, pending, reach, tails, corrupt>>

\* The end of a task whose commit has run: a balance is scheduled while the
\* object requires one.
Sched(flag) ==
  /\ balance' = flag
  /\ flag => pending < MaxPending
  /\ pending' = IF flag THEN pending + 1 ELSE pending

\* __sset_txn_add and the commit, outside transactions: the atoms are applied.
Write(as, flag) ==
  /\ nodes' = OnNodes("committed", as)
  /\ Meets(Len(as) = 1 /\ Uncovers(nodes[as[1].node], as[1]))
  /\ Sched(flag)
  /\ UNCHANGED <<group, status, reach, tails, corrupt>>

\* __sset_txn_add and the commit, in a transaction: the atoms are appended to
\* its list and attached as locks.  An atom that is attached over another one
\* of its key frees it (__do_insert_lookup).  An append after a freed tail
\* writes to freed memory.
TxnWrite(x, as, flag) ==
  /\ Len(group[x] \o as) <= MaxAtoms
  /\ group' = [group EXCEPT ![x] = @ \o as]
  /\ nodes' = OnNodes("attached", as)
  /\ reach' = IF Len(as) > 1 THEN reach \cup {x} ELSE reach
  /\ corrupt' = (x \in tails)
  /\ Meets(corrupt' \/ Len(as) > 1)
  /\ Sched(flag)
  /\ UNCHANGED <<status, tails>>

Add(x, as, flag) ==
  IF x = NoTxn THEN Write(as, flag) ELSE TxnWrite(x, as, flag)

\* raleighsl_transaction_replace of a by new, which is empty for a removal.
\* The first atom is its own predecessor, so it is linked to the new one
\* instead of replaced, and the tail is never moved.
Replaced(x, a, new) ==
  LET g == group[x]
      i == CHOOSE j \in DOMAIN g : g[j] = a
  IN  /\ group' = [group EXCEPT ![x] =
                     IF i = 1 THEN <<a>> \o new \o Tail(g)
                     ELSE SubSeq(g, 1, i - 1) \o new \o SubSeq(g, i + 1, Len(g))]
      /\ Len(group'[x]) <= MaxAtoms
      /\ reach' = IF i = 1 THEN reach \cup {x} ELSE reach
      /\ tails' = IF i = Len(g) THEN tails \cup {x} ELSE tails

\* __sset_txn_update and the commit: the transaction writes a key that it has
\* locked.  The new atom takes the place of the old one in the list; the
\* commit reverts the old one and does not attach the new one.
TxnUpdate(x, a, type, v) ==
  LET res == CASE type = "REMOVE" -> "REMOVE"
               [] type # "REMOVE" /\ a.type = "REMOVE" -> "UPDATE"
               [] OTHER -> "INSERT"
      b == Atom(x, a.node, res, a.key, v)
  IN  /\ IF a \in Range(group[x])
         THEN /\ Replaced(x, a, IF res = "REMOVE" THEN <<>> ELSE <<b>>)
              /\ UNCHANGED corrupt
         ELSE corrupt' = TRUE /\ UNCHANGED <<group, reach, tails>>
      /\ nodes' = OnNode("rolledback", nodes, a)
      /\ Meets(TRUE)
      /\ Sched(balance)
      /\ UNCHANGED status

-----------------------------------------------------------------------------
(* The calls.                                                              *)

Full(n) == nodes[n].buf >= SyncSize

\* raleighsl_sset_insert.
Insert(x, k, v, allow) ==
  LET n == Floor(k)
  IN  /\ Open(x)
      /\ ~Locked(x, k)
      /\ Found(k) => allow
      /\ IF Lock(k) # Free THEN TxnUpdate(x, Lock(k), "INSERT", v)
         ELSE Add(x, <<Atom(x, n, "INSERT", k, v)>>, Full(n))

InsertFails(x, k, allow) ==
  /\ Open(x)
  /\ Found(k)
  /\ Locked(x, k) \/ ~allow
  /\ Fail(x)

\* raleighsl_sset_remove.
RemoveKey(x, k) ==
  /\ Open(x)
  /\ Found(k)
  /\ ~Locked(x, k)
  /\ IF Lock(k) # Free THEN TxnUpdate(x, Lock(k), "REMOVE", Deleted)
     ELSE Add(x, <<Atom(x, Floor(k), "REMOVE", k, Deleted)>>, balance)

\* raleighsl_sset_update: a remove and an insert in one call.  The insert does
\* not see the remove, which is committed after it.  On a key that the
\* transaction has locked both replace the same atom, which is then freed twice.
Update(x, k, v) ==
  LET n == Floor(k)
  IN  /\ Open(x)
      /\ Found(k)
      /\ ~Locked(x, k)
      /\ IF Lock(k) # Free
         THEN /\ corrupt' = TRUE /\ Meets(TRUE)
              /\ UNCHANGED <<nodes, group, status, balance, pending, reach, tails>>
         ELSE Add(x, <<Atom(x, n, "REMOVE", k, Deleted),
                       Atom(x, n, "INSERT", k, v)>>, Full(n))

RemoveFails(x, k) ==
  /\ Open(x)
  /\ ~Found(k) \/ Locked(x, k)
  /\ Fail(x)

\* __sched_txn_task_exec on the set: __object_apply or __object_revert of
\* every atom, then __object_commit.
EndTxn(x, how, weak) ==
  /\ Running
  /\ status' = [status EXCEPT ![x] = how]
  /\ corrupt' = (x \in reach)
  /\ nodes' = IF x \in reach THEN nodes ELSE OnNodes(how, group[x])
  /\ group' = [group EXCEPT ![x] = <<>>]
  /\ Meets(weak)
  /\ reach' = reach \ {x} /\ tails' = tails \ {x}
  /\ UNCHANGED <<balance, pending>>

CommitTxn(x) ==
  /\ status[x] = "open"
  /\ EndTxn(x, "committed",
            \E i \in DOMAIN group[x] :
              LET a == group[x][i]
              IN  x \notin reach /\ Uncovers(nodes[a.node], a))

RollbackTxn(x) ==
  /\ status[x] \in {"open", "failed"}
  /\ EndTxn(x, "rolledback", FALSE)

\* Fault: what does not fit the first block is forgotten.
BlocksFirst(n) ==
  LET s == NodeScan(n, NoTxn, 0, FALSE)
  IN  IF s = <<>> THEN {} ELSE {SubSeq(s, 1, Min({BlockSize, Len(s)}))}

\* __sset_node_balance: the contents of the node, cut into blocks.
Blocks(n) ==
  LET s == NodeScan(n, NoTxn, 0, FALSE)
  IN  {SubSeq(s, i * BlockSize + 1, Min({(i + 1) * BlockSize, Len(s)})) :
         i \in {j \in 0 .. Len(s) : j * BlockSize < Len(s)}}

\* __sset_block_create, and __sset_block_add of each entry.
BlockOf(s) ==
  [k \in Keys |-> IF \E i \in DOMAIN s : s[i][1] = k
                   THEN s[CHOOSE i \in DOMAIN s : s[i][1] = k][2] ELSE Absent]

\* __object_balance and the commit: the nodes that are full are replaced by
\* a node for each of their blocks.  Their locks are freed with them.
\* Without a node left the next call finds none, and asserts.
Balance ==
  LET full == {n \in DOMAIN nodes : Full(n)}
      blks == UNION {Blocks(n) : n \in full}
      starts == {s[1][1] : s \in blks}
      next == [b \in starts \cup (DOMAIN nodes \ full) |->
                 IF b \in starts THEN NewNode(BlockOf(CHOOSE s \in blks : s[1][1] = b))
                 ELSE nodes[b]]
  IN  /\ Running
      /\ pending > 0
      /\ pending' = pending - 1
      /\ balance' = FALSE
      /\ corrupt' = (DOMAIN next = {})
      /\ nodes' = IF corrupt' THEN nodes ELSE next
      /\ reach' = reach \cup {x \in Txns : \E a \in Range(group[x]) : a.node \in full}
      /\ Meets(corrupt' \/ reach' # reach)
      /\ UNCHANGED <<group, status, tails>>

Next ==
  \/ \E x \in Txns \cup {NoTxn}, k \in Keys :
       \/ \E v \in Vals, allow \in BOOLEAN : Insert(x, k, v, allow)
       \/ \E allow \in BOOLEAN : InsertFails(x, k, allow)
       \/ \E v \in Vals : Update(x, k, v)
       \/ RemoveKey(x, k) \/ RemoveFails(x, k)
  \/ \E x \in Txns : CommitTxn(x) \/ RollbackTxn(x)
  \/ Balance

Spec == Init /\ [][Next]_vars

-----------------------------------------------------------------------------
Items == Vals \cup {Absent, Deleted}
Atoms ==
  [txn : Txns, node : Keys \cup {0}, type : {"INSERT", "UPDATE", "REMOVE"},
   key : Keys, val : Vals \cup {Deleted}]

\* The types of the state.
TypeOK ==
  /\ DOMAIN nodes \subseteq Keys \cup {0}
  /\ \A n \in DOMAIN nodes :
       /\ nodes[n].mem \in [Keys -> Items]
       /\ nodes[n].blk \in [Keys -> Vals \cup {Absent}]
       /\ nodes[n].locks \in [Keys -> Atoms \cup {Free}]
       /\ nodes[n].buf \in 0 .. SyncSize
  /\ \A x \in Txns : Range(group[x]) \subseteq Atoms
  /\ status \in [Txns -> {"open", "failed", "committed", "rolledback"}]
  /\ balance \in BOOLEAN /\ corrupt \in BOOLEAN
  /\ broken \in 0 .. MaxAfter + 1
  /\ pending \in 0 .. MaxPending
  /\ reach \subseteq Txns /\ tails \subseteq Txns

\* Whatever is balanced and in whichever order, a node holds only keys that a
\* lookup sends to it, so nothing it holds is out of reach; the first key of
\* its block is the key it is found by (__sset_node_lookup, __object_balance).
RangesHold ==
  \A n \in DOMAIN nodes :
    /\ n # 0 => n = Min(BlockKeys(nodes[n]))
    /\ \A k \in Keys :
         \/ nodes[n].mem[k] # Absent \/ nodes[n].blk[k] # Absent
         \/ nodes[n].locks[k] # Free
         => Floor(k) = n

\* Until a weakness is met, a key is locked exactly by the transaction whose
\* list has its atom, and once, so the end of the transaction frees it
\* (__sset_txn_add, __sset_txn_commit against __object_apply, __object_revert).
LockedIffAtom ==
  broken = 0 => \A k \in Keys, x \in Txns :
    /\ {i \in DOMAIN group[x] : group[x][i].key = k}
         = {i \in DOMAIN group[x] : group[x][i] = Lock(k)}
    /\ OwnLocks(nodes[Floor(k)], x) \cap {k} # {} =>
         Cardinality({i \in DOMAIN group[x] : group[x][i].key = k}) = 1

\* The set as a store of keys with transactions.
Committed == [k \in Keys |-> Visible(nodes[Floor(k)], k)]
Staged(k) ==
  IF Lock(k) = Free THEN Committed[k]
  ELSE IF Lock(k).type = "REMOVE" THEN Absent ELSE Lock(k).val

Put(v, f) == f

Store ==
  INSTANCE TxnStore WITH
    Objects <- Keys, Initial <- Absent, Calls <- Vals \cup {Absent},
    Eval <- Put,
    store <- Committed,
    locker <- [k \in Keys |-> Lock(k).txn],
    staged <- [k \in Keys |-> Staged(k)],
    status <- [x \in Txns |-> IF status[x] = "failed" THEN "open"
                              ELSE status[x]]

\* Until a weakness is met the set is a store in which transactions lock the
\* keys they write, publish their writes as a whole or drop them; a balance,
\* which takes a task of those pending, changes nothing of it.
RefinesStore ==
  /\ Store!Init
  /\ [][\/ broken' > 0
        \/ UNCHANGED Store!vars
        \/ Store!Next /\ pending' >= pending]_(Store!vars)

View(x) == [k \in Keys |-> IF Lock(k).txn = x /\ x # NoTxn THEN Staged(k)
                           ELSE Committed[k]]

\* The lock leads the search astray: it ends at the item under the
\* reader's own write, at the marker or at the block under another's.
Astray(x, k) ==
  LET nd == nodes[Floor(k)]
  IN  IF Lock(k) = Free THEN FALSE
      ELSE IF Lock(k).txn = x
           THEN \/ nd.mem[k] # Absent \/ nd.blk[k] # Absent
                \/ Lock(k).type = "REMOVE"
           ELSE nd.mem[k] = Deleted \/ (nd.mem[k] = Absent /\ nd.blk[k] # Absent)

\* A get answers what is committed, and to a transaction the keys it has
\* inserted, across every balance and whatever others have locked, unless a
\* lock leads it astray (raleighsl_sset_get).
GetAgrees ==
  broken = 0 => \A x \in Txns \cup {NoTxn}, k \in Keys :
    Astray(x, k) \/ Get(x, k) = View(x)[k]

\* A scan answers every key of the reader's view after the one it starts at,
\* once and in order, however the set is cut into nodes (raleighsl_sset_scan).
\* From a key the locks of the reader are compared as if they were items
\* (__sset_txn_iter_seek), which is undefined: that is left out.
ScanAgrees ==
  broken = 0 => \A x \in Txns \cup {NoTxn}, k \in Keys \cup {0} :
    (k = 0 \/ OwnLocks(nodes[Floor(k)], x) = {}) =>
      LET keys == {i \in Keys : i > k /\ View(x)[i] # Absent}
          s == InOrder(keys)
      IN  Scan(x, k, FALSE) = [i \in DOMAIN s |-> <<s[i], View(x)[s[i]]>>]

\* However the set is cut into nodes, nothing is out of reach, and a get and a
\* scan answer what the reader is to see of the store.
ReadsAgree == RangesHold /\ GetAgrees /\ ScanAgrees
=============================================================================
