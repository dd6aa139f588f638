---------------------------- MODULE OpenHashMap ----------------------------
(***************************************************************************)
(* The hash map with open addressing (zcl/tools/map/hashmap.c and          *)
(* hashmap-open.c): a table of capacity slots, each Free or                *)
(* [hash, key, val], and size, the number of puts that took a free slot.   *)
(* refused are the keys whose put has answered that there is no slot since *)
(* the operation began.                                                    *)
(***************************************************************************)
EXTENDS Integers, Sequences, FiniteSetsExt, Functions, Bitwise

CONSTANTS HashOf,     \* the hash of each key
          Capacity    \* the initial capacity
Free == [hash |-> 0]

HashEmpty ==
  [capacity |-> Capacity, slots |-> [i \in 0 .. Capacity - 1 |-> Free], size |-> 0,
   refused |-> {}]

\* z_ilog2
Log2(n) == CHOOSE e \in 0 .. 8 : 2^e <= n /\ n < 2^(e + 1)

\* The mask takes the low bits of i, the last five at most in the tables
\* here; 16 bits of it are kept.
Masked(m, i) == (i % 32) & (m.capacity - 1)

\* __entry_probe: the slots to look at, in order.
RECURSIVE ProbeFrom(_, _, _, _)
ProbeFrom(m, i, p, count) ==
  LET j == (5 * i + p + 1) % 2^16
  IN  IF count = 0 THEN <<>>
      ELSE <<Masked(m, j)>> \o ProbeFrom(m, j, p \div 2^Log2(m.capacity), count - 1)

Probe(m, hash) == <<Masked(m, hash)>> \o ProbeFrom(m, hash, hash, m.capacity)

Match(e, key) == e # Free /\ e.hash = HashOf[key] /\ e.key = key

\* The first place of a sequence of slots with a property, 0 without one.
FirstPlace(places, P(_)) ==
  LET ok == {i \in DOMAIN places : P(places[i])}
  IN  IF ok = {} THEN 0 ELSE CHOOSE i \in ok : \A j \in ok : i <= j

\* Fault: the first free slot is taken at once.
ChosenFree(m, key) ==
  LET places == Probe(m, HashOf[key])
  IN  FirstPlace(places, LAMBDA i : m.slots[i] = Free)

\* __open_hash_map_put: the slot of the key, or else the first free one on
\* the way; 0 when there is neither.
Chosen(m, key) ==
  LET places == Probe(m, HashOf[key])
      own == FirstPlace(places, LAMBDA i : Match(m.slots[i], key))
  IN  IF own # 0 THEN own ELSE FirstPlace(places, LAMBDA i : m.slots[i] = Free)

PutIn(m, key, val) ==
  LET i == Chosen(m, key)
      at == Probe(m, HashOf[key])[i]
      e == [hash |-> HashOf[key], key |-> key, val |-> val]
  IN  CASE i = 0 -> [m EXCEPT !.refused = @ \cup {key}]
        [] i # 0 /\ m.slots[at] = Free ->
             [m EXCEPT !.slots[at] = e, !.size = @ + 1]
        [] OTHER -> [m EXCEPT !.slots[at] = e]

\* __open_hash_map_resize: the entries are put again, from the last slot to
\* the first, and counted again; what their put answers is not looked at.
RECURSIVE Refilled(_, _, _)
Refilled(new, old, i) ==
  IF i < 0 THEN new
  ELSE LET e == old.slots[i]
       IN  Refilled(IF e = Free THEN new ELSE PutIn(new, e.key, e.val), old, i - 1)

Resized(m, capacity) ==
  Refilled([capacity |-> capacity, slots |-> [i \in 0 .. capacity - 1 |-> Free],
            size |-> m.size, refused |-> {}], m, m.capacity - 1)

\* z_hash_map_put answers what its last put does.
HashPut(m, key, val) ==
  IF Chosen(m, key) # 0 THEN PutIn([m EXCEPT !.refused = {}], key, val)
  ELSE PutIn(Resized(m, 2 * m.size), key, val)

\* __node_lookup: the slot of the key, -1 without one.
HashFind(m, key) ==
  LET places == Probe(m, HashOf[key])
      i == FirstPlace(places, LAMBDA p : Match(m.slots[p], key))
  IN  IF i = 0 THEN -1 ELSE places[i]

\* __open_hash_map_pop: size stays.
HashPop(m, key) == [m EXCEPT !.slots[HashFind(m, key)] = Free]

\* z_hash_map_clear: as many slots as were counted, from the first.
HashClear(m) ==
  [m EXCEPT !.size = 0,
            !.slots = [i \in DOMAIN @ |-> IF i < m.size THEN Free ELSE @[i]]]

\* __open_hash_map_iter_next, _prev and the plug calls over them: the next
\* slot in use to the right and to the left; capacity and -1 are the ends.
HashNext(m, i) ==
  Min({m.capacity} \cup {j \in DOMAIN m.slots : j > i /\ m.slots[j] # Free})
HashPrev(m, i) ==
  Max({-1} \cup {j \in DOMAIN m.slots : j < i /\ m.slots[j] # Free})

RECURSIVE HashWalk(_, _)
HashWalk(m, i) ==
  IF HashNext(m, i) = m.capacity THEN <<>>
  ELSE <<m.slots[HashNext(m, i)].key>> \o HashWalk(m, HashNext(m, i))

\* From __hash_map_begin on.
HashKeys(m) == Range(HashWalk(m, -1))
=============================================================================
