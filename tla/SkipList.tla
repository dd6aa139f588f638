------------------------------ MODULE SkipList ------------------------------
(***************************************************************************)
(* The skip list (zcl/tools/map/skiplist.c).  A node is named by its key;  *)
(* SkipHead is the head, SkipNil the end of a level.  A list is a record   *)
(*   next:   of the head and of each node, the next node on each level     *)
(*   vals:   the data of each node                                         *)
(*   levels: the levels in use        size: the number of nodes            *)
(***************************************************************************)
EXTENDS Integers, Functions, TLC

CONSTANT MaxHeight   \* Z_SKIP_LIST_MAX_HEIGHT
SkipHead == 0
SkipNil == -1

SkipEmpty ==
  [next |-> (SkipHead :> [l \in 0 .. MaxHeight - 1 |-> SkipNil]),
   vals |-> [k \in {} |-> 0], levels |-> 1, size |-> 0]

\* The nodes before key, by level, found from the top level down: p advances
\* on a level for as long as the next node is before the key.
RECURSIVE Advance(_, _, _, _)
Advance(s, p, l, key) ==
  LET n == s.next[p][l]
  IN  IF n # SkipNil /\ n < key THEN Advance(s, n, l, key) ELSE p

RECURSIVE PathFrom(_, _, _, _)
PathFrom(s, p, l, key) ==
  LET q == Advance(s, p, l, key)
  IN  IF l = 0 THEN 0 :> q ELSE (l :> q) @@ PathFrom(s, q, l - 1, key)

\* __skip_find_path, with the levels the list does not use yet.
Path(s, key) ==
  PathFrom(s, SkipHead, s.levels - 1, key) @@ [l \in s.levels .. MaxHeight - 1 |-> SkipHead]

Equals(s, key) == s.next[Path(s, key)[0]][0] = key

\* Fault: the top level of the node is left out.
LinkedLow(s, key, height) ==
  LET prev == Path(s, key)
      after == [l \in 0 .. height - 1 |-> s.next[prev[l]][l]]
  IN  (key :> after)
        @@ [p \in DOMAIN s.next |->
              [l \in DOMAIN s.next[p] |->
                 IF l < height - 1 /\ prev[l] = p THEN key ELSE s.next[p][l]]]

Linked(s, key, height) ==
  LET prev == Path(s, key)
      after == [l \in 0 .. height - 1 |-> s.next[prev[l]][l]]
  IN  (key :> after)
        @@ [p \in DOMAIN s.next |->
              [l \in DOMAIN s.next[p] |->
                 IF l < height /\ prev[l] = p THEN key ELSE s.next[p][l]]]

\* z_skip_list_put of a node of this height: equal keys swap their data.
SkipPut(s, key, val, height) ==
  IF Equals(s, key) THEN [s EXCEPT !.vals[key] = val]
  ELSE [next |-> Linked(s, key, height),
        vals |-> (key :> val) @@ s.vals,
        levels |-> IF height > s.levels THEN height ELSE s.levels,
        size |-> s.size + 1]

SkipUnlinked(s, key) ==
  LET prev == Path(s, key)
  IN  [p \in DOMAIN s.next \ {key} |->
         [l \in DOMAIN s.next[p] |->
            IF l < s.levels /\ prev[l] = p /\ s.next[p][l] = key
            THEN s.next[key][l] ELSE s.next[p][l]]]

\* Empty levels are given up from the top.
RECURSIVE Lowered(_, _)
Lowered(next, levels) ==
  IF levels > 1 /\ next[SkipHead][levels - 1] = SkipNil THEN Lowered(next, levels - 1) ELSE levels

\* z_skip_list_remove_custom, z_skip_list_detach
SkipRemove(s, key) ==
  IF ~Equals(s, key) THEN s
  ELSE LET next == SkipUnlinked(s, key)
       IN  [next |-> next, vals |-> Restrict(s.vals, DOMAIN s.vals \ {key}),
            levels |-> Lowered(next, s.levels), size |-> s.size - 1]

-----------------------------------------------------------------------------
(* __skip_node_lookup: a level is followed past equal keys too, unless     *)
(* they end the search.  SkipNil where the code returns NULL.                  *)

RECURSIVE Follow(_, _, _, _)
Follow(s, p, l, key) ==
  LET n == s.next[p][l]
  IN  IF n # SkipNil /\ n <= key THEN Follow(s, n, l, key) ELSE p

RECURSIVE FollowDown(_, _, _, _)
FollowDown(s, p, l, key) ==
  LET q == Follow(s, p, l, key)
  IN  IF l = 0 THEN q ELSE FollowDown(s, q, l - 1, key)

SkipEq(s, key) ==
  IF FollowDown(s, SkipHead, s.levels - 1, key) = key THEN key ELSE SkipNil

\* z_skip_node_less and _less_eq alike: the last node not behind the key.
\* Before all nodes it is the head, and NULL when there are none.
SkipLess(s, key) ==
  LET p == FollowDown(s, SkipHead, s.levels - 1, key)
  IN  IF p = SkipHead /\ s.next[SkipHead][0] = SkipNil THEN SkipNil ELSE p

\* __skip_list_seek for the first key behind the given one.
SkipGreater(s, key) ==
  LET p == SkipLess(s, key) IN IF p = SkipNil THEN SkipNil ELSE s.next[p][0]

\* __skip_list_prev: less of a node is the node itself.
SkipPrev(s, n) == IF n = SkipNil THEN SkipNil ELSE SkipLess(s, n)

RECURSIVE LevelFrom(_, _, _)
LevelFrom(s, p, l) == IF p = SkipNil THEN {} ELSE {p} \cup LevelFrom(s, s.next[p][l], l)

\* __skip_list_begin and _next on level 0, and the same on the others.
SkipLevel(s, l) == LevelFrom(s, s.next[SkipHead][l], l)

\* __skip_node_max
RECURSIVE LastOf(_, _, _)
LastOf(s, p, l) ==
  CASE s.next[p][l] # SkipNil -> LastOf(s, s.next[p][l], l)
    [] s.next[p][l] = SkipNil /\ l > 0 -> LastOf(s, p, l - 1)
    [] OTHER -> IF p = SkipHead THEN SkipNil ELSE p
SkipMax(s) == LastOf(s, SkipHead, s.levels - 1)
=============================================================================
