# A verification development of RaleighFS

RaleighFS is a C server that keeps named objects (numbers, deques, sorted
sets) in memory, lets clients read and write them over an RPC protocol, and
groups writes in transactions.  This directory holds TLA+ models of its core,
the TLC runs that check them on small instances, and TLAPS proofs for every
size.  Paths below are relative to `src/` inside the repository, as in
`raleighsl/core/object.c`.

* `PROJECT.json` lists the components, the runs with their properties, the
  mutants, the lines each definition models, the hazards and the theorems.
* `*.tla` without prefix model a component; `MC*.tla` give the constants of one
  or several components their values; `*Proofs.tla` hold the theorems.
* To repeat a run: `tlc -workers 2 -config Txn.cfg MCTxnSched`.  To repeat the
  proofs of a module: `tlapm ObjectSchedProofs.tla`.

## 1. Inventory

### The layers

```
 clients (raleigh-client, raleigh-monitor)
    |  rpc messages
 server (raleigh-server): one handler per rpc, submits a task per request
    |  raleighsl_exec_{create,unlink,rename,read,write}, _transaction_commit...
 raleighsl/core: semantic, object, transaction, obj-cache, journal, plugins
    |  plug calls                        |  tasks, semaphores
 raleighsl/objects, semantics, devices   |
    |                                    |
 zcl: task dispatcher, rwc semaphore, ticket, rwlock, cache, containers,
      ring buffer, ipc, io poll, coding, readers, memory
```

A request is turned into a task.  The dispatcher (`zcl/core/global`) owns a
fixed set of worker threads, one per cpu.  A task is a state machine driven by
the function `__sched_object_task_exec` (or `__sched_semantic_task_exec`,
`__sched_txn_task_exec`): a worker runs it until it completes, goes back to
the dispatcher, or enters the wait queue of a read/write/commit semaphore.

### Components, their state, their operations

| component | state | operations | what makes it correct |
|---|---|---|---|
| ticket lock | `next_ticket`, `now_serving` (16 bits) | acquire, release | mutual exclusion, order of arrival, progress |
| rwlock | one word: reader count and writer flag | read/write lock, try, unlock | a writer is alone; the count is exact; a writer drains the readers |
| rwc semaphore | one word: 29 bits of readers, WRITE, COMMIT and LOCK flags | try_acquire, try_switch, release, set flags | see the object scheduler |
| object scheduler | semaphore, four wait queues, `pending_txn_id`, `requires_balancing`, task states | open, read, write, commit, balance, park, wake | exclusion; a commit finishes before a transaction or another write starts; nothing leaks; waiters wake |
| transaction manager | per transaction: semaphore, state, atom groups, references; one ticket lock; cache of transactions | create, acquire, add, release, commit, rollback, barrier | atomicity over several objects, read-committed, no use after free, answers |
| number object | `read`, `write`, owner | get, set, cas, add, mul, div; apply, revert, commit | arithmetic at a fixed width; a store with one cell |
| deque object | two sides with pending pushes, counts of removed entries, owner of each side, the data | push, pop, front/back; apply, revert, commit | a double-ended queue with transactions on each side |
| sorted set object | skip list of nodes, per node: txn locks, in-memory changes, a packed block | insert, update, pop, get, scan; apply, revert, commit, balance | an ordered map with transactions per key |
| semantic layer (flat), file system, plugins | names to object ids, semaphore; the layers that are loaded | create, lookup, unlink, rename; create, open, close | a name leads to at most one object; all layers or none |
| cache (LRU, 2Q) | hash table, lists, sizes, references | lookup, try_insert, release, remove, reclaim | references and sizes exact, memory freed once |
| dispatcher | queue of new tasks, tree of pending tasks, workers, counters of waiting threads | add, fetch, wait, close | no task lost or run twice; work is noticed; close returns |
| task queues, trees | linked lists, AVL tree by `itime` | push, pop, drain | keep all tasks |
| ring buffer, frames, echo, redis | ring indices and bytes; two rings per redis client | fetch, dump, push, pop; parse; answer | bytes leave in order and once, however they are cut |
| poll loop, rpc, answer queue | interest in events, nodes of slots, counters | accept, read, push, flush, hang-up, stop | a request is answered once, in the end |
| coding, slices, readers | none (pure) | encode, decode, fetch, tokenise | decode after encode is the identity, over any cut |
| containers (AVL, skip list, hash map, bucket, merger) | the structure | insert, remove, lookup, iterate, seek | agree with a set or a map |
| evaluator | none (pure) | parse, evaluate | a predicate means what its operators say |
| memory, hash, strings, metrics, B-tree, compressors, clients | | | not modelled (section 5) |

The complete list, with sources and status, is in `PROJECT.json` under
`components`.

### How the components meet

* **Shared words.**  Each object, each transaction and the semantic layer own
  one rwc semaphore.  A task that is refused is linked in one of its queues; the
  task that releases reads the word it left and drains the queues that word
  admits into the dispatcher.
* **Two-phase writes.**  A write runs under WRITE beside readers, sets the
  COMMIT flag, and switches to COMMIT when the readers have left.  When it
  cannot switch it releases WRITE and waits for COMMIT as any other task.
* **Transactions.**  A write in a transaction leaves an atom in the
  transaction's groups (one per object).  The commit task waits for all
  operations in the transaction, puts its id in `pending_txn_id` of all its
  objects (all or none, under the manager's ticket lock), locks them one by
  one, applies or reverts the atoms, commits the objects, and releases.
* **References.**  Objects and transactions live in caches.  A request takes a
  reference at the lookup and gives it back when it has been answered.

### What is hard here

Refusal and parking are two steps under two locks; `pending_txn_id` is read
without one; a release decides from a word that may have changed; the answer to
a client is sent before its resources are given back; the cache gives up its
locks between two halves of an operation; counters wrap or only grow.  The
`hazards` of `PROJECT.json` name the line of each of these and the property
that watches it.

## 2. The modules

| module | models | abstracts |
|---|---|---|
| `RwcSem` | `z_rwcsem_*` of `zcl/threading/locking.{h,c}`: the word and each operation on it as an operator | the word is a record of a count and a set of flags |
| `ObjectSched` | `raleighsl/core/object.c` with `zcl/core/global/task.c`: any number of readers, writers and transactions on one object, one step per access to shared state | the plug: a write fails or leaves a mutation, a commit publishes it; queues are sets because they are drained whole into a tree |
| `Ticket` | `zcl/threading/ticket.{h,c}`; a debug build and an optimised one, where the racy read of `now_serving` may be hoisted out of the loop | |
| `RwLock` | `zcl/threading/locking.c` (the rwlock part) with the carry and borrow of its arithmetic | spins are disabled guards |
| `Number` | `raleighsl/objects/number/number.c`: every write function, apply, revert and commit as operators on a record, at a width of `Bits` | 128 bit arithmetic stays exact and is wrapped at the end, as the C code's conversions do |
| `NumberObj` | the number as its clients see it, between two calls | the scheduling (`ObjectSched`) |
| `TxnStore` | the abstract specification: committed values, a lock per object, staged values, atomic commit and rollback | |
| `TxnDeque` | the abstract specification of a deque whose ends transactions lock | |
| `Deque` | `raleighsl/objects/deque/deque.c`: push and pop with their pointers into the list, apply, revert, commit | the scheduling; the payload of an entry; a list is a sequence, a pointer an entry |
| `TxnSched` | `raleighsl/core/transaction.c` over several numbers, with the object scheduler, the dispatcher and the transactions' references | coarser steps than `ObjectSched` on one object (see its header) |
| `GlobalCtx` | `zcl/core/global/global.c`: workers, queue, tree, condition variables, stop and close | what a task does: it completes, waits in a wait queue (`Needs`), or returns to the tree while another one is under way (`Yields`); who waits for whom is a constant, without circles (`WaitsAssumption`) |
| `Cache` | `zcl/tools/cache/cache.c` with the callbacks of `obj-cache.c` (2Q) and `transaction.c` (LRU) | the hash table is a set; a bucket's lock makes one step |
| `SSet` | `raleighsl/objects/sset/sset.c` with replace and remove of atoms in `transaction.c`: nodes, blocks, items, locks, commit queues, balance | sizes are counted in items; the bytes of a block (`Bucket`) |
| `Namespace` | the abstract specification of names that lead to objects | |
| `Semantic` | `core/semantic.c`, `flat.c`, `filesystem.c`, `plugins.c`: names, objects in the cache, layers and their unload, plugins, with failing steps | the root set is a map with a queue of uncommitted entries |
| `RingBuf` | `zcl/io/buffers/ringbuf.c` as operators | |
| `Connections` | the frame parser of `ipc-msg.c` and `echo.c` on a ring; a read gives any number of bytes | a byte is a message and a place in it |
| `Redis` | `raleigh-server/redis.c` on two rings | words have two bytes; the tokens of a ring that wraps are those of its bytes in a row (`WordsExact`) |
| `RpcCalls` | `raleighsl.c` and `stats.c`: a table of every call, what it schedules, checks, answers at once or refuses, and answers | the values in the answers |
| `RpcServer` | a connection: `iopoll.c`, `iopoll-epoll.c`, `ipc.c`, the answer queue of `ipc-msg.c`, shutdown of `main.c` | a request's work is one step of a worker; the bytes of an answer |
| `AvlTree`, `SkipList`, `OpenHashMap`, `Bucket` | the containers of `zcl/tools` as operators, rotations, levels, probes and prefixes included | pointers are keys or subtrees |
| `Containers` | those containers as machines beside a set or map that says what they should hold | |
| `ByteBuffers`, `Wire` | `buffer.c`, `slice.c`; integers, fields, heads, readers and tokens as bytes | integers of four bytes at most |
| `Evaluator` | `expr-parser.c`, `expr-eval.c` on tokens | the lexer's characters; floats and strings |
| `Algorithms` | the buffers, messages, words and predicates as machines, with `Containers` | |

`MCThreading`, `MCObjects` and `MCIo` put components that do not call each
other into one run: they extend them, a variable `part` names the one that
runs, and the others stay in their first state.  That is why the components
prefix the names of their specifications (`RwInit`, `GlobalNext`, `DqSpec`,
`FsSpec`...): the properties of a run are the very definitions that the
theorems are about.  `MCIo` alone instantiates one of them, `Connections`,
whose rings are not those of `Redis` and which no theorem is about.

Composition: `ObjectSched` and `TxnSched` extend `RwcSem`; `TxnSched` and
`NumberObj` extend `Number`; both instantiate `TxnStore` with a refinement
mapping, and so do `SSet` (a store with a cell for each key), `Deque` with
`TxnDeque` and `Semantic` with `Namespace`.  `Connections` and `Redis` extend
`RingBuf`; `RpcServer` extends `RpcCalls`; `Algorithms` extends `Containers`,
`Wire` and `Evaluator`.  `ObjectSched` takes the dispatcher as "any runnable task may run
next", of which `GlobalCtx` shows that a task is never lost and, without a
shutdown, runs again unless an older one keeps going back to the tree for it
(`Overtaken` below).

The correspondence of single definitions is the `map` of `PROJECT.json`.  An
operator whose comment starts with "Fault:" is a plausible mistake in the
definition that follows it; no specification uses it.  It shows that the
property named with it under `mutants` can fail.

History variables (`wiped`, `late`, `order`, `author`, `dqBroken`, `fsBroken`,
`broken`, `pings`, `plain`) are written and never decide what an action does.  In `RpcServer`,
`Containers` and `Algorithms` a variable `fate` names the place where the code
leaves what it is meant for (memory that is gone, a slot that was not set, a wake-up that is about to be
taken back), set by the step that does it and never by the property that would
fail; such
a state has no successors, because what the program does next is undefined.

## 3. The runs

### What passes

| run | configuration | states | checks |
|---|---|---|---|
| `object_safety` | 1 reader, 2 writers, 2 transactions on one object | 3.1 million | until a WRITE is given up under a reader: exclusion, commit before transaction, write on a committed object, nothing leaks at rest; always: the "unlocking the wrong transaction" assertion |
| `threading` | ticket: 3 threads and 3 tickets, debug and optimised; rwlock: 3 threads and a count that just holds them; dispatcher: 2 workers, 4 tasks, added in any order, that wait for one another in two wait queues and in the tree | 0.18 million | mutual exclusion, order of arrival, progress in a debug build; exact count, a writer drains; no task lost or doubled, work is noticed, tasks complete unless one is overtaken by an older one that yields to it, close returns |
| `txn` | 2 objects, 2 transactions, 3 clients, three workloads | 0.36 million | refinement of `TxnStore`, read-committed, the barrier, no LOCK/COMMIT clash, ownership, no use after free |
| `objects` | a number of 3 bits with five operands; a deque of 3 entries, each with 2 transactions and calls outside them; 2 names and 3 object ids; 2 threads on an LRU cache and on a 2Q cache of capacity 2 with 3 ids, one of them allocated three times; the transactions (also names and threads of the other parts) are symmetric | 0.6 million | refinement of `TxnStore`, `TxnDeque`, `Namespace`; quotient and remainder; a side is held exactly while its atom is; all layers or none; names lead to objects that exist; exact references, usage and queues |
| `sset` | 2 keys, 2 values, 2 transactions, blocks of one item | 0.7 million | refinement of `TxnStore` per key; the nodes' ranges are disjoint and cover; locks belong to open transactions; get and scan agree with the store |
| `io` | 3 messages through a ring of 4 bytes; 3 requests, 1 worker, nodes of 2 slots; 3 redis commands through rings of 16 bytes | 0.65 million | the ring holds what was read and not used; frames and echo exact; no request answered twice; the answer queue exact, requests answered in the end and the interest in write events kept, until one of the places under *Answers* below; redis answers whole, bulks not lost between reads |
| `algorithms` | trees of 7 keys, skip lists of 4 keys and 3 levels, hash maps of 8 slots, blocks of 28 bytes, buffers and slices of 4 bytes, messages cut in any two pieces, all predicates of the bounded grammar | 0.1 million | the containers agree with sets and maps, blocks read and search as sorted maps, the merger merges, buffers and slices hold what was put in, messages and words read back, the parser ends, what it builds groups and guards as it should |

Several properties are conjunctions of named parts, one for each component of a
run or each claim about one structure (`CacheExact` of references, usage and
queues, `AnswersExact`, `MapsExact`, `CodingExact`...): the parts are defined,
with their comments, just before them.

*Why the bounds are enough.*  In `object_safety` two writers and two
transactions are the least that make a task of each kind wait for another of
its own kind, and one reader is enough to make a writer lose its switch; the
proofs lift the properties to any number.  In `txn` the workloads are a
transaction over two objects beside two clients without one (half-applied
commits, failed writes), two transactions that meet on two objects in opposite
orders (deadlock, mutual refusal), and two clients in one transaction (each can
end it under the other).  Each allows several requests at each place, which TLC
chooses.  Numbers of two bits are enough there, because at most two increments
reach one.  In `threading` as many threads as tickets exist, so both counters
meet again after a wrap; two wait queues are what makes the dispatcher choose
between signal and broadcast, and two tasks in one of them are announced by
one signal; the task `d` waits for `a` and yields
to `b`, which may be newer and wait for `a` too.
In `objects` capacity 2 makes `Kin` and `Kout` one, so every list
of the cache overflows; three deque entries let a list of two be popped from
both ends while an end has a push that waits.  In `sset` two keys and blocks of
one item make a balance split, merge and empty nodes.  In `io` a ring of four
bytes wraps with every message and fills with some; two slots make a third
answer start a node; a redis ring of sixteen holds two answers, and the third
is cut.  In `algorithms` seven keys give trees of height four, in which both
rotations happen at inner nodes.

*Deadlock* is not an error in these runs: a request is answered and no other
comes, the bounds on inputs are used up, or the optimised build of the ticket
lock spins.  What must go on is stated as a liveness property.

### What TLC refutes

Five runs state what the repository says of the program and show that the code
does something else.  Each is a finding in `PROJECT.json`.

* `object_wakeup` / `WaitersWake`.  `z_task_rwcsem_acquire` tries the word and
  links the refused task later, under another lock.  A release in between finds
  empty queues.  With two writers the second may wait for ever.
* `txn_commit_told` / `CommitTold`.  A commit that is turned into a rollback
  because a write failed is answered without an error: the branch that would set
  `TXN_ROLLEDBACK` tests the commit type after it has been changed.
* `txn_commit_answered` / `CommitAnswered`.  An operation is answered before it
  leaves its transaction, and it leaves with a plain `z_rwcsem_release_read`,
  which does not look at the transaction's queue.  The commit that the client
  sends next may be refused, parked, and never woken.
* `deque_rollback` / `RollbackDrops`.  `__object_revert` finds the side to clear
  by the id of the transaction and tests the front first.  When a transaction
  has pushed on the back and then on the front, the atom of the back clears the
  front and frees the back, and the commit publishes what was rolled back.
* `lists_mean` / `ListsMean`.  The parser's comments write `a IN (1, 2, 3)` as
  a chain of OR and `a BETWEEN x AND y` as an AND of two comparisons.  The table
  of `expr-eval.c` computes OR as `&&` and AND as `||`, so a list answers what
  its first comparison answers.

### Weaknesses the safety properties step around

Some properties hold only until a known weakness has struck.  The models
contain the weakness; a history variable or a state predicate marks it.

* `wiped`.  Giving up WRITE by a full release stores a word without readers
  (`z_rwcsem_release_write`, `try_switch` to READ).  Readers that run beside
  the writer are then not counted, and when they leave the count is one too
  low.  `Exclusion`, `CommitBeforeTxn`, `WriteOnCommitted`, `QuiescentClean`,
  `NoFlagClash`, `RefinesStore` and `ReadsCommitted` are claimed for histories
  where this has not happened: of a write beside readers they say nothing once
  it has been given up.  What may come of it is in the model: the decrement of a
  reader that is not counted borrows from the flags and turns the WRITE of the
  next writer into readers; a second writer gets in, the first one's release
  clears what the second one has, and a transaction gets LOCK while a mutation
  waits for its commit.  `TypeOK` and `RightTxn` hold in all of them.
* `late`.  `raleighsl_transaction_acquire` looks a transaction up and joins it
  in two steps.  When the transaction commits in between, the READ lock is free
  again and the operation works in a transaction that has ended: its object
  stays locked by it.  `OwnedIffAtom`, `RefinesStore` and `ReadsCommitted` are
  claimed until then.  `NoUseAfterFree` holds in all histories.
* `Stray` (`Cache`).  An entry can be linked in a list after it has left the
  table, or without ever having been in it: `z_cache_try_insert` calls the
  policy's insert for the loser of a race too, and a removed entry is marked
  evicted only after the policy lock has been given back, so that an update can
  link it again.  Its memory is freed while it is linked.  The properties are
  claimed until then.
* `dqBroken` (`Deque`).  Besides the rollback above: a transaction whose first
  operation on a side is a pop holds the side without an atom, so its end does
  not free it; a pop that finds nothing on its side takes what another
  transaction has pushed on the other; and the two pointers of the removed
  entries, which do not know of each other, may cross, be left on an entry that
  the other side's commit has freed, or cover entries that it has linked since
  (one transaction that pops everything from the back and pushes on the front
  loses its push in the commit).  `HeldIffAtom` and `RefinesQueue` are claimed
  until one of these has happened.
* LOCK and COMMIT are refused while the other is flagged.  `NoFlagClash` shows
  that numbers never get there; an object whose plug lets a write succeed
  beside a transaction's atoms would.
* Tasks that are queued when the dispatcher closes are dropped.
  `TasksComplete` therefore ends with the shutdown.  It also ends with
  `Overtaken`: a task that meets the pending id of a transaction goes back into
  the tree (`object.c:194`), which gives out the task of least `itime`.  When the
  transaction's commit task is newer and in the tree too, woken from a wait
  queue, the older one is fetched, goes back and is fetched again, and the
  commit may never run.  The instance reaches this; `TasksComplete` says that
  every other wait ends.
* With `a1in` under its threshold and `am` empty the 2Q reclaim loops under its
  spin lock until another thread changes that.

Where the code runs into undefined behaviour or breaks its own structure, the
models stop (`fate`) or mark the state (`dqBroken`, `fsBroken`, `broken`,
`corrupt`, `crashed`), and the
properties are claimed until then.  What they meet:

* *Sorted set.*  A remove of a key that is both in memory and in a block
  uncovers the block's value (`sset.c:930`).  A transaction that writes a key it
  has locked: the new atom is not attached, and replacing the first or the last
  atom of a list leaves the head or the tail on a freed one
  (`transaction.c:474`); an update attaches two atoms of one key, which are freed
  twice.  A balance frees nodes with the locks of other transactions, and
  balances that race removes can empty the tree.  A get is led astray by a lock:
  the reader's own write is hidden by a committed item, another's lock hides a
  key that is only in a block.  A scan from a key that is included starts at
  the floor of the key.  Not reached by the model: an entry larger than a block
  makes the balance loop for ever.
* *Names.*  Create and rename of a name that exists answer NONE.  A create,
  rename or unlink that fails half way (the object, the other name, the cache
  find no memory) leaves queued entries, which the commit of the next call
  publishes.  To unregister a plugin that is not there, and a read or write that
  finds no memory for its object, dereference NULL.  An
  object that the cache has evicted has no plug; unlink and a second eviction
  dereference it.
* *Ring and frames.*  A full ring reads as an empty one (`ringbuf.c:67`): the
  frame parser then closes or stalls, the echo service closes.  A malformed head
  is accepted when its body is there (`ipc-msg.c:307`).  The ring's size is
  rounded to eight, not to a power of two.
* *Redis.*  A word that is cut by two reads closes the connection.  One command
  is carried out for each read, so a second one that came with it waits for more
  bytes; an inline command takes the words behind it, those of other commands
  too, for its arguments, without a bound on their number.  The answer to quit is
  never written.
* *Answers.*  `__ipc_outbuf_add` reads the tail outside the lock and takes the
  slot, the count and the slot's content in three sections, so two answers can
  share a slot and an unset slot be written; `__ipc_outbuf_flush` bounds its loop
  by 64 where a node has 16 slots, its bookkeeping after a partial write is
  wrong, and its `set_writable` races a push: a thread that asks for the write
  event between the flush's read of the count, which is 0, and its use has its
  wake-up taken back, and its answer sleeps.  A
  hang-up frees the client while tasks hold it.  A failed accept closes the
  listening socket, which main frees again.  `server_info` has no handler.  Main
  frees the file system before the workers stop.
* *Containers.*  Detaching the largest node of a tree reads behind the root
  pointer; less-than of the skip list includes the key, so that an iterator's step
  back stays where it is (the test that expects "Key 4" after "Key 5",
  `tests/zcl/test-skip-list.c:202`, is compiled out) and `SkipExact` says nothing
  of it; a cleared skip list keeps dangling pointers; the hash
  map never decrements its size, its probes do not cover all slots, so that a
  put may be refused, which its caller is told, and a resize may drop entries,
  which nobody is told, and a pop of a missing key dereferences NULL; the search
  in a block looks at a byte behind a key that is a prefix of the one sought.
* *Buffers and readers.*  Inserting a buffer's own bytes reads freed memory
  after it has grown.  A slice that has a first piece and room puts a prepended
  piece behind the others; a trim leaves gaps that hide the pieces behind them
  from length, equals and the reader.  A fetch over two pieces that ends with the
  last byte reads the length of a piece behind them (`iovec.c:92`), and goes on
  for as long as it finds zeros there; `WireExact` says that no other fetch does,
  and claims nothing of its end.  A field without bytes is read back as one
  of eight.
* *Evaluator.*  `a - b * c - d` is grouped as `a - ((b * c) - d)`; a query that
  ends in an operator or in the comma of a list never ends; errors are never
  reported.

### Fairness

Workers are threads of the operating system: one that can take a step takes it
eventually, and that is all the specifications say of `ObjectSched`, `TxnSched`
(`Serve`), `GlobalCtx` (`Work`), `Ticket` (`Enter`, `Leave`) and `RwLock`
(`ReadUnlock`, `Drained`, `WriteUnlock`).  Each is weak fairness: a spinning
thread that sees its turn only sometimes is not promised anything, but in
`Ticket` and `RwLock` the turn, once there, stays.  In `MCThreading` the
fairness is that of each thread's step.  In `MCIo` the poll thread and each
worker go on, and the polling is level-triggered (`iopoll-epoll.c` sets no
`EPOLLET`): what can be read is read in the end, and a write event comes as long
as one is wanted and the socket takes bytes.  Nothing is assumed of clients, of
who adds tasks or closes the dispatcher, of spurious wake-ups, of how many bytes
a read or a write moves, or of which thread gets a lock.

## 4. The proofs

All theorems are checked by tlapm with Z3, Zenon and LS4; nothing is assumed
beyond the named `ASSUME`s, which TLC evaluates in the runs.

* **`ObjectSchedProofs`**: for any finite sets of readers, writers and
  transactions no larger than the count of the word can hold
  (`TasksAssumption`): `TypeCorrect`, `ExclusionHolds`, `CommitBeforeTxnHolds`,
  `WriteOnCommittedHolds`, `RightTxnHolds`, `QuiescentCleanHolds`; all but the
  first and `RightTxnHolds` until a WRITE is given up under a reader (`wiped`).

  The invariant is `IInv == Control /\ (~wiped => Consistent)`.  `Control`
  says, for each place a task can be, what it holds, which state of the
  scheduler it is in and in which queue it waits; it holds in every history and
  gives `RightTxn` and the type.  `Consistent` ties the word to the tasks:
  the count is the number of tasks that hold READ, each flag is set exactly when
  a task holds it or has announced it (`WordMatches`), there is at most one
  owner (`OneOwner`), no reader beside COMMIT or LOCK (`NoReader`), and an
  uncommitted mutation belongs to a task on its way to COMMIT (`DirtyOwned`).
  Exclusion alone is not inductive: without the count, the release of a
  writer could be one that a reader was using.  The proof has one lemma per
  action and one step per conjunct that the action can disturb; cardinality
  enters only through lemmas about adding and removing one reader.
* **`ThreadingProofs`**, the ticket lock: `TicketMutex`, `TicketFifo` for any wrap
  not smaller than the number of threads.  `IInv == TypeOK /\ Queued /\
  Consecutive /\ HolderFirst`: the threads with tickets are those in `order`,
  their tickets are consecutive from `now_serving` modulo the wrap, and the
  holder is first.  That the queue is no longer than the number of threads makes
  tickets distinct.  The reader/writer lock: `RwLockExclusive`, `RwLockCount` for
  any threads up to the count's limit: the count is exact, at most one thread
  owns the flag, and there is no reader beside "writing" (`RwIInv`).
  The dispatcher: `WorkersInPlace`, `NoTaskLost` (`OnePlace`) and
  `WorkIsNoticed` (`NoticedWork`) for any finite sets of workers, tasks and wait
  queues.  `OnePlace` only counts tasks; the invariant says where they are.  The
  queue, the tree, the wait queues, the workers and what is done hold different
  tasks (`Apart`); each task has an `itime` below the counter and no two the
  same, so that a push into the tree replaces nothing (`Stamped`); a worker has
  a task exactly when it executes one (`Busy`); workers end only after the
  shutdown (`Staying`).  There are as many tasks as were added.  `NoticedWork` is
  inductive with these: a worker goes to sleep only after it has seen an empty
  queue and an empty tree under the lock, and each list of tasks that a release
  hands over is announced by one signal, which wakes a worker that looks again
  before it sleeps.
* **`FilesystemProofs`**, the number: `NumberSettled` and `NumberImplementsStore` for any
  width, operands and transactions.  `IInv == Shape /\ Settled`, with `Shape`
  the type without the widths, which the refinement does not need.
  The names: `FsTypes`, `NamesLeadAlways` (`NamesLead`) and
  `ImplementsNamespace` (`RefinesNamespace`) for any names and any number of
  object ids.  That the layers are all there or none rests on the
  branches of a failing load: what each unloads (`Undone`) is what was loaded
  before it (`Before`).  `IInv == FsTypeOK /\ AllOrNone /\ OneNameEach /\ Spent`: that an
  id in use has been spent keeps a create from giving out one that another name
  leads to.  Create, unlink and rename are the steps of the namespace; open,
  touch, eviction and what fails as a whole are stutters; a step that fails half
  way sets `fsBroken`.
  The cache: `CacheStaysExact` (`CacheExact`) for both policies and any threads,
  entries, ids and capacity.
  `CacheIInv == Control /\ Fresh /\ Lists /\ (~closing /\ ~Stray => Exact)`.  The
  first three hold in every history: where a thread is and what it holds there;
  an entry that has not been allocated is nowhere; an entry has one link, and
  with 2Q it is in the list that its state names, a1in is as long as its size
  and am no shorter.  `Exact` holds until an entry strays: an entry that came
  too late is known to its thread only (`LateAlone`); one thread makes an entry
  and one takes it out (`OneEach`); the references are one of the cache, one of
  each thread that uses the entry and one of a transaction that has not ended
  (`Referred`); the usage counts the entries that have been counted in and not
  freed (`UsageCounts`); a list is longer than its size by the entry that is
  being evicted (`Queued`).  `CacheExact` alone is not inductive: a release
  frees an entry when its count says so, and without `OneEach` two threads could
  give up the one reference of the cache.  `StrayStays` shows that an entry that
  has strayed stays linked until the cache is freed, so that what has been exact
  before a step may be assumed whenever nothing strays after it.  The proof of
  `PolicyUpdate` found two branches of the model that were open at once, for an
  entry that is already in the list it goes to; they are now exclusive, as in
  `__q2_insert`.
* **`TxnSchedProofs`**: `TxnShape`, `NeverFreed` (`NoUseAfterFree`) and
  `BarrierStays` (`BarrierHeld`) for any finite sets of objects, transactions
  and tasks, in *all* histories, the weak ones included.  `Base` has five layers,
  each preserved with the help of those before it: `Control` (for each place of
  a task what it holds and works on), `EndsOnce` (at most one task gets past the
  state of a transaction that it ends), `Counted` (a transaction has a reference for each task that uses it and
  two more while the cache has it), `TxnLocked` (the transaction's semaphore
  counts the tasks inside, COMMIT is flagged while a task closes it, and WRITE
  is held when that task is alone), `Grouped` (a transaction's groups name each
  object once, own the numbers whose atoms are still to be done, and are marked
  as far as the barrier has come).
  `NeverFreed` is `Counted`; `BarrierStays` is `Grouped`, which needs the rest:
  without `EndsOnce` a second ender could take back the marks of the first.
  In its second half, on top of `Base`: `FlagsApart` (`NoFlagClash`),
  `OwnersHaveAtoms` (`OwnedIffAtom`), `ReadersSeeTheStore` (`ReadsCommitted`) and
  `TransactionsAreAtomic` (`RefinesStore`).  Until `wiped`, `Consistent` ties the
  word of each object to the roles of the tasks on it, as in
  `ObjectSchedProofs`, and `Clean` says that an object nobody owns has a value to
  commit only while one task is on its way to commit it.  Until `late`, `Ending`
  says that nobody works in a transaction that has ended, and that an owner has
  an atom.  `Deciding` keeps the answer of a commit from changing while its
  atoms are applied.  In the mapping a transaction is committed when its ender
  decides, although its atoms are applied one by one later: what a reader sees
  in between is the store because the barrier keeps readers away.  So a write in
  a transaction is the store's `TxnWrite`, the publication of a plain write its
  `Write`, the decision its `Commit` or `Rollback`, and all other steps
  stutter.
* **`DequeProofs`**: `DequeTypes`, `SidesAreFreed` (`HeldIffAtom`) and
  `DequeIsAQueue` (`RefinesQueue`) for any entries and transactions.  `HeldInv`
  has both directions of `HeldIffAtom`, of which one holds until the deque is
  corrupt and the other only until a weakness is met, because of the pop that
  takes a side without an atom.  For the refinement `QueueOK` adds that a free
  side has nothing to commit (`SettledSides`), that the entries of the list and
  of the two lists of pushes are all different (`FreshIn`) and have been
  allocated, and that each pointer to the next entry to remove has passed as
  many entries as were popped, and the two have not met (`Pointing`).  The heart
  is `CommitMerges`: the two loops of `__object_commit`, one after the other,
  unlink exactly the entries popped at both ends and link the pushes in their
  order, although the first loop changes the list that the pointer of the second
  was set in.  It rests on lemmas about cutting, reversing and joining
  sequences without repetitions.

* **`SSetProofs`**: `SetTypes` and `SetLocksHaveAtoms` (`LockedIffAtom`) for any
  keys, values and transactions, and any sizes of nodes and blocks.
  `IInv == Shape /\ RangesHold /\ LocksHome /\ AtomsHome /\ Sound`.  The first
  four hold in every history, broken or not: a key has its item, its block entry
  and its lock only in the node that a lookup of it finds, a lock is for its own
  node and key, and the atoms of a list that can still be followed are for the
  node that a lookup finds.  `Sound` holds until a weakness is met: an atom of a
  list is the lock of its key and the only one of that key, a remove carries the
  marker and a write a value (`Listed`), a list is of a transaction that has not
  ended (`Unended`), and a lock is in the list of its transaction (`Owned`).
  `LockedIffAtom` alone is not inductive: the end of a transaction walks its list
  and frees the locks of the keys *in the nodes that the atoms name*, so these
  must be the nodes of the keys (`AtomsHome`), and no two atoms may be for one key
  (`Listed`).  A call or an end is an iteration over its atoms: what one atom
  does, and what the other atoms leave alone, are shown by induction on the
  place in the list (`Iterates`, `RunLeaves`).  A balance is a recut: the new
  nodes start at keys of the old ones, and each key goes with its item to the
  node that now finds it (`BlocksAre`, `Recut`).
  On top of this invariant, `SetImplementsStore` (`RefinesStore`) and
  `SetReadsAgree` (`ReadsAgree`).  An insert, update or remove outside
  transactions is the store's `Write`, in one its `TxnWrite`; the end of a
  transaction is `Commit` or `Rollback`, because after its atoms, one by one,
  every key it locked shows the staged value or the one before (`EndShows`), and
  the others are as they were; a balance and a failing call stutter.  For
  reads, a get follows the four places it looks at; a scan is the list of the
  reader's keys in order (`Lists`), of which there is only one (`ListsUnique`).
  The merge of locks, items and block gives that list for one node
  (`MergedIs`, `NodeLists`); that the ranges of the nodes follow one another
  makes the lists of the nodes join to that of the set (`ListsJoin`,
  `FlattenLists`, `ScanRest`).  The proof of `GetAgrees` found two branches of
  the model's `Get` that were open at once, between which `CASE` may choose
  freely; they are now exclusive, in the order of the code's returns.
* **`RpcServerProofs`**: `AnswersAreExact` (`AnswersExact`) for any workers,
  number of slots in a node and number of requests (`RpcAssumption`): no request
  is answered twice; until a thread has used a slot, a tail or a count that had
  gone stale, or a connection that was freed, the slots of the output queue are
  the answers in the order they were counted, and queued answers have the
  attention of the poll loop.  The invariant says what a thread holds between
  the three sections of `__ipc_outbuf_add`: a place in the queue (`Places`), an
  answer that nobody else has (`Held`), that is in no slot (`InSlots`), not yet
  sent (`InSent`) and not counted (`InQueue`).  `Window` says that while one node
  makes the queue, its slots from `offset` on are the counted answers, but for
  those that a thread still fills and those that the flush has written and not
  settled; outside the window all slots are empty.  `Interest` is the promise to
  epoll.  `Clients` and `Counts` tie the queue to the life of the connection and
  to its counter.  Without the exact window a flush could count as written an
  answer whose slot is not filled.
* **`RedisProofs`**: `RedisStaysExact` (`RedisExact`) for every size of the rings
  and any number of commands (`RedisAssumption`).  A ring is reduced to the piece
  of a byte sequence that it holds (`RingHolds`): what a fetch, a push and a skip
  do to that piece is shown once (`FetchHolds`, `SkipHolds`, `DumpHolds`), laps and
  full rings included, and used for both rings.  What the parser does with bytes
  it can read anything from is bounded (`ProcessedSafe`: it skips no more than is
  there, and pongs only for a ping that it skips), and for pieces of bulks it is
  exact (`ProcessedBulk`, `BulkRead`).  `RdInv` adds to `RedisExact` that the
  stream is laid out as the commands were sent (`RdSent`), that there are no more
  pings than have been skipped (`RdPending`), that what is not yet written of the
  answers is in the ring, all of it unless the ring is full (`Owed`), and that a
  good bulk is skipped as a whole or up to its last separator, which then stands
  before the next (`RdOrder`).  Without the last a read could begin inside a bulk.

*Assumptions.*  The constants of each module have a named `ASSUME`: sets are
finite where the code counts their members, the markers (`NoTxn`, `Null`,
`DqEnd`, `NoTask`...) are not among the values they mark the absence of, and a
counter is wide enough for the tasks or entries that it counts.  Tasks of the
dispatcher do not wait for one another in a circle, which is for the locks to
keep and is used by no theorem.  In the cache of
transactions an entry's id is its own.

*Only model-checked.*  The liveness properties (`LocksServe`, `DispatchEnds`,
`FramesArrive`, `Answered`), which are out of the prover's reach; the arithmetic
of `DivMod` and the ranges of numbers at a width, which need induction over the
powers of two; what recursive operators compute, and so `BytesExact`,
`MapsExact`, `BlockExact`, `BuffersExact`, `CodingExact`, `QueriesMean` and the
other properties of `Connections`, `Containers`, `Algorithms` and the modules
they extend.

## 5. What is not modelled, and what remains

Left out of the modelled parts: the read that yields (`SCHED_YIELD`, which no
read function returns), failed allocations outside `Semantic`, `RpcCalls` and the hash
map's refusals, the statistics of the cache and of
the poll loop, its timer and user events, kqueue (the same interface as epoll),
`z_v_reader_search` (called by nothing), floats and strings of the evaluator.

Not modelled:

* flow and bitmap: bitmap has only stubs, and flow never updates its size, so a
  second append replaces the first and there is no sequence of calls to check;
* the journal (its lists are never written), the block cache and the memory
  device (a life cycle without operations);
* the B-tree (experimental, used by nothing; `node-fixed.c` names a type that is
  not declared), the rpc map (only in the C client), the compressors (LZ4 is
  third-party code and nothing of the server calls them), the array (filled and
  read once), the lock-based atomics (no user);
* hash functions, number parsing and formatting, metrics, debug output, the
  memory allocators, sockets as system calls, the clients and the monitor, build
  configuration.

Of the safety properties of the runs, those named under *Only model-checked*
have no theorem; of the code, the list above has no model.
