----------------------------- MODULE Containers -----------------------------
(***************************************************************************)
(* The containers of zcl/tools as sequential machines: each behaviour      *)
(* takes one container (kind), applies its operations to it (body) and     *)
(* keeps beside it what a caller expects it to hold (ref).  The invariants *)
(* compare the two.                                                        *)
(*                                                                         *)
(* fate is what has gone wrong for good; no operation follows it.          *)
(***************************************************************************)
EXTENDS AvlTree, SkipList, OpenHashMap, Bucket

CONSTANTS Keys,        \* the keys of the AVL tree
          SkipKeys,    \* the keys of the skip list
          HashKeyset,  \* the keys of the hash map
          ByteKeys,    \* the keys of a bucket, in order
          Vals,
          TreeVals,    \* [Keys -> SUBSET Vals]: the values of each key of the tree
          MaxSize      \* bound on the size a hash map counts

VARIABLES kind, body, ref, fate
vars == <<kind, body, ref, fate>>

Nothing == [k \in {} |-> 0]
With(f, k, v) == (k :> v) @@ f
Without(f, k) == Restrict(f, DOMAIN f \ {k})

\* Sequences of <<key, val>> in key order: what an iterator may run through.
Runs(i) == {[j \in 1 .. Cardinality(S) |-> <<SetToSortSeq(S, <)[j], i>>] : S \in SUBSET (1 .. 3)}

Init ==
  /\ fate = "none"
  /\ \/ kind = "avl" /\ body = Leaf /\ ref = Nothing
     \/ kind = "skip" /\ body = SkipEmpty /\ ref = Nothing
     \/ kind = "hash" /\ body = HashEmpty /\ ref = Nothing
     \/ kind = "bucket" /\ body = BucketEmpty /\ ref = <<>>
     \/ /\ kind = "merge"
        /\ \E a \in Runs(1), b \in Runs(2), c \in Runs(3), skip \in BOOLEAN :
             body = [iters |-> <<a, b, c>>, skip |-> skip, left |-> <<a, b, c>>]
        /\ ref = <<>>

Sound(k) == kind = k /\ fate = "none" /\ UNCHANGED kind

-----------------------------------------------------------------------------
(* The AVL tree                                                            *)

AvlPut(k, v) ==
  /\ Sound("avl") /\ UNCHANGED fate
  /\ body' = Attach(body, k, v).t
  /\ ref' = With(ref, k, v)

AvlDetach(k) ==
  /\ Sound("avl") /\ UNCHANGED fate
  /\ body' = Detach(body, k).t
  /\ ref' = Without(ref, k)

\* z_avl16_detach_min; an empty tree is not given to it.
AvlDetachMin ==
  /\ Sound("avl") /\ UNCHANGED fate
  /\ ~IsLeaf(body)
  /\ body' = WithoutFirst(body).t
  /\ ref' = Without(ref, Min(DOMAIN ref))

(* The skip list                                                           *)

SkipListPut(k, v, height) ==
  /\ Sound("skip") /\ UNCHANGED fate
  /\ body' = SkipPut(body, k, v, height)
  /\ ref' = With(ref, k, v)

SkipListRemove(k) ==
  /\ Sound("skip") /\ UNCHANGED fate
  /\ body' = SkipRemove(body, k)
  /\ ref' = Without(ref, k)

\* z_skip_list_clear frees the nodes: the head still points at them, and
\* size still counts them.
SkipListClear ==
  /\ Sound("skip")
  /\ fate' = IF body.size = 0 THEN "none" ELSE "dangling"
  /\ ref' = Nothing
  /\ UNCHANGED body

(* The hash map                                                            *)

\* The caller is told when there is no slot for its key; nobody is told of an
\* entry that the resize has found no slot for.
HashMapPut(k, v) ==
  LET new == HashPut(body, k, v)
  IN  /\ Sound("hash")
      /\ body.size < MaxSize
      /\ body' = new
      /\ ref' = IF k \in new.refused THEN ref ELSE With(ref, k, v)
      /\ fate' = IF new.refused \subseteq {k} THEN "none" ELSE "lost"

\* A key that is not there: the entry the lookup did not find is cleared.
HashMapPop(k) ==
  /\ Sound("hash")
  /\ IF HashFind(body, k) = -1
     THEN fate' = "null" /\ UNCHANGED <<body, ref>>
     ELSE body' = HashPop(body, k) /\ ref' = Without(ref, k) /\ UNCHANGED fate

\* As many slots are visited as puts were counted: the walk may leave the
\* table, or end before the last slot in use.
HashMapClear ==
  LET used == {i \in DOMAIN body.slots : body.slots[i] # Free}
  IN  /\ Sound("hash")
      /\ body' = HashClear(body)
      /\ ref' = Nothing
      /\ fate' = CASE body.size > body.capacity -> "overrun"
                   [] body.size <= body.capacity /\ (\E i \in used : i >= body.size) -> "kept"
                   [] OTHER -> "none"

(* The bucket, filled in key order and then read                           *)

BlockAppend(k, v) ==
  /\ Sound("bucket") /\ UNCHANGED fate
  /\ \A i \in DOMAIN ref : KeyBefore(ref[i].key, ByteKeys[k])
  /\ body' = BucketAppend(body, ByteKeys[k], v)
  /\ ref' = IF Fits(body, ByteKeys[k])
            THEN Append(ref, [key |-> ByteKeys[k], val |-> v, deleted |-> FALSE]) ELSE ref

BlockRemove(i) ==
  /\ Sound("bucket") /\ UNCHANGED fate
  /\ body' = BucketRemove(body, i)
  /\ ref' = [ref EXCEPT ![i].deleted = TRUE]

(* The merger: ref collects what z_map_merger_next returns                 *)

MergerNext ==
  LET i == MergeSmall(body.left, body.skip)
  IN  /\ Sound("merge") /\ UNCHANGED fate
      /\ i # 0
      /\ ref' = Append(ref, Scan(body.left, body.skip).iters[i][1])
      /\ body' = [body EXCEPT !.left = MergeNext(@, body.skip)]

\* Two values for the first key are enough to see one replaced.
HashVals(k) == IF k = 1 THEN Vals ELSE {1}

Next ==
  \/ \E k \in Keys : \E v \in TreeVals[k] : AvlPut(k, v)
  \/ \E k \in Keys : AvlDetach(k)
  \/ AvlDetachMin
  \/ \E k \in SkipKeys, v \in Vals, h \in 1 .. MaxHeight : SkipListPut(k, v, h)
  \/ \E k \in SkipKeys : SkipListRemove(k)
  \/ SkipListClear
  \/ \E k \in HashKeyset : \E v \in HashVals(k) : HashMapPut(k, v)
  \/ \E k \in HashKeyset : HashMapPop(k)
  \/ HashMapClear
  \/ \E k \in DOMAIN ByteKeys, v \in Vals : BlockAppend(k, v)
  \/ \E i \in DOMAIN ref : BlockRemove(i)
  \/ MergerNext

Spec == Init /\ [][Next]_vars

-----------------------------------------------------------------------------
(* Properties                                                              *)

\* The AVL tree is ordered and balanced, and its balances are exact.
RECURSIVE Height(_)
Height(t) == IF IsLeaf(t) THEN 0 ELSE 1 + Max({Height(t.child[d]) : d \in Dirs})

RECURSIVE InOrder(_)
InOrder(t) ==
  IF IsLeaf(t) THEN <<>> ELSE InOrder(t.child[0]) \o <<t>> \o InOrder(t.child[1])

RECURSIVE Balanced(_)
Balanced(t) ==
  IsLeaf(t) \/ /\ t.bal = Height(t.child[1]) - Height(t.child[0])
               /\ t.bal \in -1 .. 1
               /\ \A d \in Dirs : Balanced(t.child[d])

\* The tree of tree-avl.c stays balanced, with exact balances, through any
\* puts and removals, and holds in order what was put and not removed.
AvlExact ==
  kind = "avl" =>
    /\ Balanced(body)
    /\ LET nodes == InOrder(body)
       IN  /\ [i \in DOMAIN nodes |-> nodes[i].key] = SetToSortSeq(DOMAIN ref, <)
           /\ \A i \in DOMAIN nodes : nodes[i].val = ref[nodes[i].key]

KeyAt(way) == LastNode(way).key
Least(S) == IF S = {} THEN 0 ELSE Min(S)
Most(S) == IF S = {} THEN 0 ELSE Max(S)

\* The lookups and iterators of tree.c find, for every key, the node of that
\* key and its neighbours in key order; a seek to the left of all nodes stops
\* at the first.
AvlSeeks ==
  kind = "avl" =>
    \A k \in Keys :
      LET ge == SeekGe(body, k)
          le == SeekLe(body, k)
          before == {j \in DOMAIN ref : j <= k}
      IN  /\ Lookup(body, k).key = IF k \in DOMAIN ref THEN k ELSE 0
          /\ Ceil(body, k).key = Least({j \in DOMAIN ref : j >= k})
          /\ Floor(body, k).key = IF before = {} THEN Least(DOMAIN ref) ELSE Max(before)
          /\ KeyAt(Traverse(ge, 1)) = Least({j \in DOMAIN ref : j > KeyAt(ge) /\ ge # <<>>})
          /\ KeyAt(Traverse(le, 0)) = Most({j \in DOMAIN ref : j < KeyAt(le)})

\* A skip list holds what was put and not removed: each level in use is a
\* part of the one below, the lowest one has all nodes, no level above the
\* ones in use has any, and the searches that start at the top agree with it.
\* Of the step back of an iterator nothing is said: it stays at its node
\* (__skip_list_prev).
SkipExact ==
  kind = "skip" /\ fate = "none" =>
    /\ SkipLevel(body, 0) = DOMAIN ref
    /\ body.vals = ref
    /\ body.size = Cardinality(DOMAIN ref)
    /\ \A l \in 1 .. MaxHeight - 1 :
         /\ SkipLevel(body, l) \subseteq SkipLevel(body, l - 1)
         /\ l >= body.levels => SkipLevel(body, l) = {}
    /\ \A k \in SkipKeys :
         /\ SkipEq(body, k) = (IF k \in DOMAIN ref THEN k ELSE SkipNil)
         /\ ref # Nothing => SkipLess(body, k) = Most({j \in DOMAIN ref : j <= k})
         /\ SkipGreater(body, k) =
              IF \E j \in DOMAIN ref : j > k THEN Least({j \in DOMAIN ref : j > k}) ELSE SkipNil
    /\ SkipMax(body) = IF ref = Nothing THEN SkipNil ELSE Max(DOMAIN ref)

\* The hash map holds each key whose put was not refused once, with the last
\* value put, whatever was popped on its way and however often the table was
\* replaced; until the put of an entry that a resize moves is refused
\* (__open_hash_map_resize does not look at it), an absent key is popped, or a
\* clear ends before the last slot in use.
HashExact ==
  kind = "hash" /\ fate = "none" =>
    /\ HashKeys(body) = DOMAIN ref
    /\ Len(HashWalk(body, -1)) = Cardinality(DOMAIN ref)
    /\ \A k \in DOMAIN ref :
         LET i == HashFind(body, k)
         IN  body.slots[i].val = ref[k] /\ HashNext(body, HashPrev(body, i)) = i

Live == SelectSeq(ref, LAMBDA e : ~e.deleted)

\* Reading a block back gives the keys and values that were written and not
\* removed, in order: the prefixes left out are put back, over removed
\* entries too, and a seek starts at the first key not before the one given.
BlockReads ==
  kind = "bucket" =>
    LET all == [i \in DOMAIN Live |-> <<Live[i].key, Live[i].val>>]
    IN  /\ BucketIter(body) = all
        /\ \A k \in DOMAIN ByteKeys :
             BucketSeek(body, ByteKeys[k]) =
               SelectSeq(all, LAMBDA e : e[1] = ByteKeys[k] \/ KeyBefore(ByteKeys[k], e[1]))

IsProperPrefix(s, t) == s # t /\ Shared(s, t) = Len(s)

\* A block is searched without being decoded.  No key is found that is not
\* in it, and a key that is in it is found, as long as no key of the block
\* is the start of the one searched for.
BlockSearches ==
  kind = "bucket" =>
    \A k \in DOMAIN ByteKeys :
      LET key == ByteKeys[k]
          held == \E i \in DOMAIN Live : Live[i].key = key
          clash == \E i \in DOMAIN ref : IsProperPrefix(ref[i].key, key)
          answers == BucketSearch(body, key)
      IN  /\ ~held => "found" \notin answers
          /\ held /\ ~clash => answers = {"found"}

\* The merger returns the entries of its iterators in key order; with
\* skip_equals each key once, from the first iterator that has it, and
\* without it as often as there are iterators that have it.
MergerExact ==
  kind = "merge" =>
    LET Has(i) == {body.iters[i][j][1] : j \in DOMAIN body.iters[i]}
        Owners(k) == {i \in DOMAIN body.iters : k \in Has(i)}
        All == UNION {Has(i) : i \in DOMAIN body.iters}
        OfKey(k) == IF body.skip THEN <<<<k, Min(Owners(k))>>>>
                    ELSE [j \in 1 .. Cardinality(Owners(k)) |->
                            <<k, SetToSortSeq(Owners(k), <)[j]>>]
        want == FlattenSeq([j \in 1 .. Cardinality(All) |-> OfKey(SetToSortSeq(All, <)[j])])
    IN  /\ IsPrefix(ref, want)
        /\ MergeSmall(body.left, body.skip) = 0 => ref = want
=============================================================================
