------------------------------- MODULE Cache -------------------------------
(***************************************************************************)
(* The cache (zcl/tools/cache/cache.c) as its two users drive it: the      *)
(* objects in a 2Q cache (raleighsl/core/obj-cache.c), the transactions in *)
(* an LRU cache whose evict callback always refuses                        *)
(* (raleighsl/core/transaction.c).                                         *)
(*                                                                         *)
(* The hash table is a set of entries: what happens under the lock of a    *)
(* bucket is one step, and a resize changes no content.  What happens      *)
(* under the spin lock of the policy is one step, except that the reclaim  *)
(* of 2Q, which gives up references on the way, has one step per turn.     *)
(* A doubly linked list is a sequence from its head.  An entry that is     *)
(* freed keeps its fields.  The statistics hit and miss are left out.      *)
(***************************************************************************)
EXTENDS Integers, SequencesExt

CONSTANTS
  Threads,
  CacheEntries,  \* the memory of the entries: each is allocated once
  Oid,           \* the id of each entry, under either policy
  Capacity,
  MaxUint,       \* of the uint32_t counts
  None

Policies == {"LRU", "2Q"}

\* Transactions have ids of their own; a count holds all entries.
ASSUME CacheAssumption ==
  /\ IsFiniteSet(Threads) /\ IsFiniteSet(CacheEntries)
  /\ DOMAIN Oid = Policies
  /\ \A p \in Policies : DOMAIN Oid[p] \subseteq CacheEntries
  /\ \A e, f \in DOMAIN Oid["LRU"] : Oid["LRU"][e] = Oid["LRU"][f] => e = f
  /\ Capacity \in Nat
  /\ MaxUint \in Nat /\ Cardinality(CacheEntries) <= MaxUint
  /\ None \notin Threads \cup CacheEntries

Queues == {"LRU", "AM", "A1IN", "A1OUT"}
Sized == {"AM", "A1IN", "A1OUT"}
CacheIds == UNION {Range(Oid[p]) : p \in Policies}
Kin == 1
Kout == Capacity \div 2

VARIABLES
  policy,    \* cache->policy
  table,     \* the entries in the hash table
  refs,      \* of each entry
  state,     \* of each entry: "NONE" before it is allocated, "NEW",
             \* "EVICTED", or the queue it is in
  queue,     \* of each queue, its entries
  size,      \* am_size, a1in_size, a1out_size
  usage,
  freed,     \* the entries whose memory has been freed
  lock,      \* the thread in the reclaim of 2Q, or None
  pc, oid,   \* of each thread, with the id it looks for
  cur,       \* the entry it has been given, or works on
  aux,       \* its new entry that came too late, or the entry it evicts
  closing    \* z_cache_free has begun

entryVars == <<table, refs, state, queue, size, usage, freed, lock>>
threadVars == <<pc, oid, cur, aux>>
cvars == <<policy, entryVars, threadVars, closing>>

CacheInit ==
  /\ policy \in Policies
  /\ table = {}
  /\ refs = [e \in CacheEntries |-> 0]
  /\ state = [e \in CacheEntries |-> "NONE"]
  /\ queue = [n \in Queues |-> <<>>]
  /\ size = [n \in Sized |-> 0]
  /\ usage = 0
  /\ freed = {}
  /\ lock = None
  /\ pc = [t \in Threads |-> "idle"]
  /\ oid = [t \in Threads |-> None]
  /\ cur = [t \in Threads |-> None]
  /\ aux = [t \in Threads |-> None]
  /\ closing = FALSE

-----------------------------------------------------------------------------
Linked(e) == \E n \in Queues : e \in Range(queue[n])

\* z_dlink_del of the entry's only link, then z_dlink_add to the head of n.
Without(s, e) ==
  IF e \in Range(s) THEN RemoveAt(s, CHOOSE i \in DOMAIN s : s[i] = e) ELSE s
Detached(e) == [n \in Queues |-> Without(queue[n], e)]
MoveTo(n, e) == [Detached(e) EXCEPT ![n] = <<e>> \o @]

Inc(k) == IF k = MaxUint THEN 0 ELSE k + 1
Dec(k) == IF k = 0 THEN MaxUint ELSE k - 1

\* The queue into which __lru_insert and __q2_insert put an entry.
Home(e) ==
  CASE policy = "LRU" -> "LRU"
    [] policy = "2Q" /\ state[e] \in {"AM", "A1OUT"} -> "AM"
    [] OTHER -> "A1IN"

\* __policy_lru_update and __policy_2q_update.
PolicyUpdate(e) ==
  /\ lock = None
  /\ IF state[e] = "EVICTED" THEN UNCHANGED <<queue, size, state>>
     ELSE /\ queue' = MoveTo(Home(e), e)
          /\ size' = IF state[e] = Home(e) THEN size
                     ELSE [n \in Sized |-> CASE n = Home(e) -> Inc(size[n])
                                             [] n = state[e] -> Dec(size[n])
                                             [] OTHER -> size[n]]
          /\ state' = [state EXCEPT ![e] = Home(e)]

\* Fault: every release lowers the usage.
ReleaseCountsAll(e) ==
  /\ refs' = [refs EXCEPT ![e] = @ - 1]
  /\ usage' = Dec(usage)
  /\ freed' = IF refs[e] = 1 THEN freed \cup {e} ELSE freed

\* z_cache_release: the last reference frees the entry.
Release(e) ==
  /\ refs' = [refs EXCEPT ![e] = @ - 1]
  /\ usage' = IF refs[e] = 1 THEN Dec(usage) ELSE usage
  /\ freed' = IF refs[e] = 1 THEN freed \cup {e} ELSE freed

Goto(t, label) == pc' = [pc EXCEPT ![t] = label]

-----------------------------------------------------------------------------
\* The thread t is creating the transaction e: nobody else knows its id yet.
Creating(t, e) ==
  policy = "LRU" /\ pc[t] \in {"insert", "count"} /\ cur[t] = e

Known(k) == \A t \in Threads, e \in CacheEntries : Creating(t, e) => Oid[policy][e] # k

\* z_cache_lookup of k up to the policy: __htable_lookup.  A transaction
\* that is not found is the end of the operation; an object is allocated.
CacheLookup(t, k) ==
  LET found == {e \in table : Oid[policy][e] = k}
  IN  /\ pc[t] = "idle"
      /\ ~closing
      /\ Known(k)
      /\ oid' = [oid EXCEPT ![t] = k]
      /\ \/ \E e \in found :
              /\ refs' = [refs EXCEPT ![e] = @ + 1]
              /\ cur' = [cur EXCEPT ![t] = e]
              /\ Goto(t, "update")
         \/ /\ found = {}
            /\ policy = "2Q"
            /\ Goto(t, "alloc")
            /\ UNCHANGED <<refs, cur>>
      /\ UNCHANGED <<table, state, queue, size, usage, freed, lock, aux,
                     closing>>

\* The rest of z_cache_lookup.
Update(t) ==
  /\ pc[t] = "update"
  /\ PolicyUpdate(cur[t])
  /\ Goto(t, "using")
  /\ UNCHANGED <<table, refs, usage, freed, lock, oid, cur, aux, closing>>

\* z_cache_try_insert of a new entry up to the policy: __htable_try_insert.
\* The entry is the object of raleighsl_obj_cache_get, which was not found,
\* or a new transaction, whose id nobody has used.
TryInsert(t, e) ==
  LET found == {f \in table : Oid[policy][f] = Oid[policy][e]}
  IN  /\ e \in DOMAIN Oid[policy] /\ state[e] = "NONE"
      /\ ~closing
      /\ \/ policy = "2Q" /\ pc[t] = "alloc" /\ oid[t] = Oid[policy][e]
         \/ policy = "LRU" /\ pc[t] = "idle"
      /\ state' = [state EXCEPT ![e] = "NEW"]
      /\ \/ \E old \in found :
              /\ refs' = [refs EXCEPT ![e] = 1, ![old] = @ + 1]
              /\ cur' = [cur EXCEPT ![t] = old]
              /\ aux' = [aux EXCEPT ![t] = e]
              /\ Goto(t, "late")
              /\ UNCHANGED table
         \/ /\ found = {}
            /\ table' = table \cup {e}
            /\ refs' = [refs EXCEPT ![e] = 2]
            /\ cur' = [cur EXCEPT ![t] = e]
            /\ Goto(t, "insert")
            /\ UNCHANGED aux
      /\ UNCHANGED <<queue, size, usage, freed, lock, oid, closing>>

\* z_cache_try_insert has found an entry: the policy is told of the new one.
LateUpdate(t) ==
  /\ pc[t] = "late"
  /\ PolicyUpdate(aux[t])
  /\ Goto(t, "discard")
  /\ UNCHANGED <<table, refs, usage, freed, lock, oid, cur, aux, closing>>

\* raleighsl_obj_cache_get frees the object that came too late.
Discard(t) ==
  /\ pc[t] = "discard"
  /\ freed' = freed \cup {aux[t]}
  /\ aux' = [aux EXCEPT ![t] = None]
  /\ Goto(t, "using")
  /\ UNCHANGED <<table, refs, state, queue, size, usage, lock, oid, cur,
                 closing>>

\* z_cache_try_insert has put the entry in the table: the policy's insert.
Insert(t) ==
  /\ pc[t] = "insert"
  /\ PolicyUpdate(cur[t])
  /\ Goto(t, "count")
  /\ UNCHANGED <<table, refs, usage, freed, lock, oid, cur, aux, closing>>

\* The usage.  With LRU the reclaim that follows ends at the first entry,
\* which the callback refuses to evict, and the transaction is on its own.
Count(t) ==
  /\ pc[t] = "count"
  /\ usage' = Inc(usage)
  /\ IF policy = "LRU"
     THEN Goto(t, "idle") /\ cur' = [cur EXCEPT ![t] = None]
     ELSE Goto(t, "reclaim") /\ UNCHANGED cur
  /\ UNCHANGED <<table, refs, state, queue, size, freed, lock, oid, aux,
                 closing>>

-----------------------------------------------------------------------------
\* __policy_2q_reclaim takes the lock.
BeginReclaim(t) ==
  /\ pc[t] = "reclaim"
  /\ lock = None
  /\ lock' = t
  /\ Goto(t, "loop")
  /\ UNCHANGED <<table, refs, state, queue, size, usage, freed, oid, cur, aux,
                 closing>>

Full == usage > Capacity /\ size["A1IN"] > 0

\* Fault: an entry that is paged out keeps the state of a1in.
PageOutAsA1in(t) ==
  LET e == Last(queue["A1IN"])
      moved == MoveTo("A1OUT", e)
      long == Inc(size["A1OUT"]) > Kout
  IN  /\ pc[t] = "loop"
      /\ Full
      /\ size["A1IN"] > Kin
      /\ queue' = moved
      /\ size' = [size EXCEPT !["A1IN"] = Dec(@),
                              !["A1OUT"] = IF long THEN @ ELSE Inc(@)]
      /\ aux' = [aux EXCEPT ![t] = IF long THEN Last(moved["A1OUT"]) ELSE None]
      /\ Goto(t, IF long THEN "evict" ELSE "loop")
      /\ UNCHANGED <<table, refs, state, usage, freed, lock, oid, cur,
                     closing>>

\* __q2_reclaim, a turn that takes the tail of a1in to the head of a1out,
\* and goes on to evict the tail of a1out when that is too long.
PageOut(t) ==
  LET e == Last(queue["A1IN"])
      moved == MoveTo("A1OUT", e)
      long == Inc(size["A1OUT"]) > Kout
  IN  /\ pc[t] = "loop"
      /\ Full
      /\ size["A1IN"] > Kin
      /\ queue' = moved
      /\ state' = [state EXCEPT ![e] = "A1OUT"]
      /\ size' = [size EXCEPT !["A1IN"] = Dec(@),
                              !["A1OUT"] = IF long THEN @ ELSE Inc(@)]
      /\ aux' = [aux EXCEPT ![t] = IF long THEN Last(moved["A1OUT"]) ELSE None]
      /\ Goto(t, IF long THEN "evict" ELSE "loop")
      /\ UNCHANGED <<table, refs, usage, freed, lock, oid, cur, closing>>

\* A turn that evicts the tail of am.  With am empty too the loop goes round
\* until a release elsewhere lowers the usage.
TakeAm(t) ==
  /\ pc[t] = "loop"
  /\ Full
  /\ size["A1IN"] <= Kin
  /\ size["AM"] > 0
  /\ size' = [size EXCEPT !["AM"] = Dec(@)]
  /\ aux' = [aux EXCEPT ![t] = Last(queue["AM"])]
  /\ Goto(t, "evict")
  /\ UNCHANGED <<table, refs, state, queue, usage, freed, lock, oid, cur,
                 closing>>

\* The loop is left and the lock given back.
EndReclaim(t) ==
  /\ lock' = None
  /\ aux' = [aux EXCEPT ![t] = None]
  /\ Goto(t, "using")

StopReclaim(t) ==
  /\ pc[t] = "loop"
  /\ ~Full
  /\ EndReclaim(t)
  /\ UNCHANGED <<table, refs, state, queue, size, usage, freed, oid, cur,
                 closing>>

\* __entry_reclaim: an entry that is in the table leaves it and its queue,
\* whoever uses it, and one that is not ends the reclaim.
EntryReclaim(t) ==
  /\ pc[t] = "evict"
  /\ \/ /\ aux[t] \in table
        /\ table' = table \ {aux[t]}
        /\ queue' = Detached(aux[t])
        /\ Goto(t, "drop")
        /\ UNCHANGED <<lock, aux>>
     \/ /\ aux[t] \notin table
        /\ EndReclaim(t)
        /\ UNCHANGED <<table, queue>>
  /\ UNCHANGED <<refs, state, size, usage, freed, oid, cur, closing>>

\* Fault: the cache keeps its reference to an entry that it evicts.
DropKeeps(t) ==
  /\ pc[t] = "drop"
  /\ aux' = [aux EXCEPT ![t] = None]
  /\ Goto(t, "loop")
  /\ UNCHANGED <<table, refs, state, queue, size, usage, freed, lock, oid, cur,
                 closing>>

\* __entry_reclaim gives up the reference of the cache.
Drop(t) ==
  /\ pc[t] = "drop"
  /\ Release(aux[t])
  /\ aux' = [aux EXCEPT ![t] = None]
  /\ Goto(t, "loop")
  /\ UNCHANGED <<table, state, queue, size, lock, oid, cur, closing>>

-----------------------------------------------------------------------------
\* z_cache_remove of a transaction, which its commit does: the entry leaves
\* the table...
RemoveTxn(t, k) ==
  /\ pc[t] = "idle"
  /\ ~closing
  /\ policy = "LRU"
  /\ Known(k)
  /\ \E e \in table :
       /\ Oid[policy][e] = k
       /\ table' = table \ {e}
       /\ cur' = [cur EXCEPT ![t] = e]
  /\ Goto(t, "unlink")
  /\ UNCHANGED <<refs, state, queue, size, usage, freed, lock, oid, aux,
                 closing>>

\* ...then the queue, in __policy_lru_remove...
UnlinkLru(t) ==
  /\ pc[t] = "unlink"
  /\ queue' = Detached(cur[t])
  /\ Goto(t, "unref")
  /\ UNCHANGED <<table, refs, state, size, usage, freed, lock, oid, cur, aux,
                 closing>>

\* ...which gives up the reference of the cache...
Unref(t) ==
  /\ pc[t] = "unref"
  /\ Release(cur[t])
  /\ Goto(t, "mark")
  /\ UNCHANGED <<table, state, queue, size, lock, oid, cur, aux, closing>>

\* ...and only then is marked.
Mark(t) ==
  /\ pc[t] = "mark"
  /\ state' = [state EXCEPT ![cur[t]] = "EVICTED"]
  /\ Goto(t, "using")
  /\ UNCHANGED <<table, refs, queue, size, usage, freed, lock, oid, cur, aux,
                 closing>>

\* z_cache_release by whoever has looked the entry up, created or removed it.
GiveBack(t) ==
  /\ pc[t] = "using"
  /\ Release(cur[t])
  /\ cur' = [cur EXCEPT ![t] = None]
  /\ Goto(t, "idle")
  /\ UNCHANGED <<table, state, queue, size, lock, oid, aux, closing>>

-----------------------------------------------------------------------------
\* z_cache_free, when no thread uses the cache.
CacheFree ==
  /\ ~closing
  /\ \A t \in Threads : pc[t] = "idle"
  /\ closing' = TRUE
  /\ UNCHANGED <<entryVars, threadVars>>

\* The policy's destroy, one entry: am, then a1out, then a1in.
DestroyOrder == IF policy = "LRU" THEN <<"LRU">> ELSE <<"AM", "A1OUT", "A1IN">>

Destroy ==
  /\ closing
  /\ \E i \in DOMAIN DestroyOrder :
       LET n == DestroyOrder[i]
       IN  /\ queue[n] # <<>>
           /\ \A j \in 1 .. i - 1 : queue[DestroyOrder[j]] = <<>>
           /\ Release(Head(queue[n]))
           /\ queue' = [queue EXCEPT ![n] = Tail(@)]
  /\ UNCHANGED <<table, state, size, lock, threadVars, closing>>

-----------------------------------------------------------------------------
Step(t) ==
  \/ Update(t) \/ LateUpdate(t) \/ Discard(t) \/ Insert(t) \/ Count(t)
  \/ BeginReclaim(t) \/ PageOut(t) \/ TakeAm(t) \/ StopReclaim(t)
  \/ EntryReclaim(t) \/ Drop(t) \/ UnlinkLru(t) \/ Unref(t) \/ Mark(t)
  \/ GiveBack(t)

CacheNext ==
  /\ \/ \E t \in Threads, k \in CacheIds : CacheLookup(t, k) \/ RemoveTxn(t, k)
     \/ \E t \in Threads, e \in CacheEntries : TryInsert(t, e)
     \/ \E t \in Threads : Step(t)
     \/ CacheFree \/ Destroy
  /\ UNCHANGED policy

CacheSpec == CacheInit /\ [][CacheNext]_cvars

-----------------------------------------------------------------------------
\* The types of the state.
CacheTypeOK ==
  /\ policy \in Policies
  /\ table \subseteq CacheEntries
  /\ refs \in [CacheEntries -> Int]
  /\ state \in [CacheEntries -> {"NONE", "NEW", "EVICTED"} \cup Queues]
  /\ queue \in [Queues -> Seq(CacheEntries)]
  /\ size \in [Sized -> 0 .. MaxUint]
  /\ usage \in 0 .. MaxUint
  /\ freed \subseteq CacheEntries
  /\ lock \in Threads \cup {None}
  /\ pc \in [Threads -> {"idle", "update", "alloc", "late", "discard",
                         "insert", "count", "reclaim", "loop", "evict",
                         "drop", "unlink", "unref", "mark", "using"}]
  /\ oid \in [Threads -> CacheIds \cup {None}]
  /\ cur \in [Threads -> CacheEntries \cup {None}]
  /\ aux \in [Threads -> CacheEntries \cup {None}]
  /\ closing \in BOOLEAN

\* The thread t keeps e alive.
Holds(t, e) == cur[t] = e /\ pc[t] \notin {"idle", "alloc"}

\* The cache keeps e alive: it is in the table, or a thread is taking it out.
Owned(e) ==
  \/ e \in table
  \/ \E t \in Threads :
       \/ pc[t] \in {"unlink", "unref"} /\ cur[t] = e
       \/ pc[t] = "drop" /\ aux[t] = e

\* The commit to come keeps the transaction e alive.
Unended(e) ==
  policy = "LRU" /\ e \in table /\ \A t \in Threads : ~Creating(t, e)

\* An entry is in a queue that is no longer in the table, or never was.  It
\* is linked when its memory is freed, and what the lists do from then on is
\* undefined.
Stray ==
  \E e \in CacheEntries : Linked(e) /\ ~Owned(e)

Bit(b) == IF b THEN 1 ELSE 0

\* A reference is counted for the cache, one for every thread that uses the
\* entry and one for the commit to come of a transaction in the table; the
\* memory is freed when the last one is given up and not before.
RefsExact ==
  ~closing /\ ~Stray =>
    \A e \in CacheEntries :
      state[e] # "NONE" /\ ~(\E t \in Threads : aux[t] = e /\ ~Owned(e)) =>
        /\ refs[e] = Bit(Owned(e)) + Cardinality({t \in Threads : Holds(t, e)})
                       + Bit(Unended(e))
        /\ e \in freed <=> refs[e] = 0

\* The usage is the number of the entries that have been counted and not
\* freed, also those that were evicted and are still in use; it does not
\* run below zero although it is counted after the entry can be found.
UsageExact ==
  ~closing /\ ~Stray =>
    usage = Cardinality(
      {e \in CacheEntries :
         /\ state[e] # "NONE" /\ e \notin freed
         /\ ~\E t \in Threads : \/ cur[t] = e /\ pc[t] \in {"insert", "count"}
                                \/ aux[t] = e /\ pc[t] \in {"late", "discard"}})

\* Outside the reclaim and before anything strays, the sizes are those of
\* the queues, every entry of the table is in the queue that its state
\* names, and none is in two.
QueuesExact ==
  lock = None /\ ~closing /\ ~Stray =>
    /\ \A n \in Queues \cap Sized : size[n] = Len(queue[n])
    /\ \A n \in Queues : \A i \in DOMAIN queue[n] :
         /\ state[queue[n][i]] = n
         /\ \A j \in DOMAIN queue[n] : queue[n][i] = queue[n][j] => i = j
    /\ \A e \in table :
         Linked(e) \/ \E t \in Threads : pc[t] = "insert" /\ cur[t] = e

\* Until an entry strays, the reference counts are exact, the usage is that
\* of the entries that are held, and the queues, their sizes and the states of
\* the entries agree (z_cache_lookup, z_cache_try_insert, z_cache_release,
\* z_cache_remove and the reclaim of both policies).
CacheExact == CacheTypeOK /\ RefsExact /\ UsageExact /\ QueuesExact
=============================================================================
