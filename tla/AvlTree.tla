------------------------------ MODULE AvlTree ------------------------------
(***************************************************************************)
(* The AVL tree of the task queues, the expression variables and the       *)
(* transactions (zcl/tools/tree/tree-avl.c) and its iterators (tree.c).    *)
(* A tree is Leaf or a node [key, val, bal, child] with children 0 and 1.  *)
(*                                                                         *)
(* The code keeps the directions of its way down on a stack and repairs    *)
(* the nodes of that way; here a recursion returns, with the new subtree,  *)
(* whether its height has changed.                                         *)
(***************************************************************************)
EXTENDS Integers, Sequences

Leaf == [key |-> 0]
IsLeaf(t) == t = Leaf
Dirs == {0, 1}
Sign(d) == 2 * d - 1

Node(key, val) == [key |-> key, val |-> val, bal |-> 0, child |-> [d \in Dirs |-> Leaf]]

\* The child to go to for a key: child[cmp < 0].
Way(t, key) == IF t.key < key THEN 1 ELSE 0

-----------------------------------------------------------------------------
(* Rotations: y is too deep on side d.                                     *)

Double(y, x, w, d) ==
  [w EXCEPT !.bal = 0,
            !.child[d] = [x EXCEPT !.child[1 - d] = w.child[d],
                                   !.bal = IF w.bal = -Sign(d) THEN Sign(d) ELSE 0],
            !.child[1 - d] = [y EXCEPT !.child[d] = w.child[1 - d],
                                       !.bal = IF w.bal = Sign(d) THEN -Sign(d) ELSE 0]]

\* A child in balance (only a removal meets one) leaves the height as it was.
Single(y, x, d) ==
  LET b == IF x.bal = 0 THEN Sign(d) ELSE 0
  IN  [x EXCEPT !.bal = -b,
                !.child[1 - d] = [y EXCEPT !.child[d] = x.child[1 - d], !.bal = b]]

Rotated(y, d) ==
  LET x == y.child[d]
  IN  IF x.bal = -Sign(d) THEN Double(y, x, x.child[1 - d], d) ELSE Single(y, x, d)

-----------------------------------------------------------------------------
(* __avl_attach                                                            *)

Grown(y, d, sub) ==
  LET z == [y EXCEPT !.child[d] = sub.t]
      b == y.bal + Sign(d)
  IN  CASE ~sub.changed -> [t |-> z, changed |-> FALSE]
        [] sub.changed /\ b \in {-2, 2} -> [t |-> Rotated(z, d), changed |-> FALSE]
        [] OTHER -> [t |-> [z EXCEPT !.bal = b], changed |-> b # 0]

\* An equal key is replaced by the new node, in its place.
RECURSIVE Attach(_, _, _)
Attach(t, key, val) ==
  IF IsLeaf(t) THEN [t |-> Node(key, val), changed |-> TRUE]
  ELSE IF t.key = key THEN [t |-> [t EXCEPT !.val = val], changed |-> FALSE]
  ELSE Grown(t, Way(t, key), Attach(t.child[Way(t, key)], key, val))

-----------------------------------------------------------------------------
(* __avl_detach, __avl_detach_edge                                         *)

\* Fault: the way up ends at every rotation.
ShrunkEnds(y, d, sub) ==
  LET z == [y EXCEPT !.child[d] = sub.t]
      b == y.bal - Sign(d)
  IN  CASE ~sub.changed -> [t |-> z, changed |-> FALSE]
        [] sub.changed /\ b \in {-2, 2} -> [t |-> Rotated(z, 1 - d), changed |-> FALSE]
        [] OTHER -> [t |-> [z EXCEPT !.bal = b], changed |-> b = 0]

Shrunk(y, d, sub) ==
  LET z == [y EXCEPT !.child[d] = sub.t]
      b == y.bal - Sign(d)
  IN  CASE ~sub.changed -> [t |-> z, changed |-> FALSE]
        [] sub.changed /\ b \in {-2, 2} ->
             [t |-> Rotated(z, 1 - d), changed |-> y.child[1 - d].bal # 0]
        [] OTHER -> [t |-> [z EXCEPT !.bal = b], changed |-> b = 0]

RECURSIVE First(_)
First(t) == IF IsLeaf(t.child[0]) THEN t ELSE First(t.child[0])

RECURSIVE WithoutFirst(_)
WithoutFirst(t) ==
  IF IsLeaf(t.child[0]) THEN [t |-> t.child[1], changed |-> TRUE]
  ELSE Shrunk(t, 0, WithoutFirst(t.child[0]))

\* A node with a right child makes way for its successor, which takes its
\* place and its balance.
Unlinked(p) ==
  LET s == First(p.child[1])
  IN  IF IsLeaf(p.child[1]) THEN [t |-> p.child[0], changed |-> TRUE]
      ELSE Shrunk([p EXCEPT !.key = s.key, !.val = s.val], 1, WithoutFirst(p.child[1]))

RECURSIVE Detach(_, _)
Detach(t, key) ==
  CASE IsLeaf(t) -> [t |-> t, changed |-> FALSE]
    [] ~IsLeaf(t) /\ t.key = key -> Unlinked(t)
    [] OTHER -> Shrunk(t, Way(t, key), Detach(t.child[Way(t, key)], key))

-----------------------------------------------------------------------------
(* Lookups and iterators.  An iterator is the way to its node: the nodes   *)
(* passed, then the node itself; <<>> has no node.                         *)

RECURSIVE Lookup(_, _)
Lookup(t, key) ==
  IF IsLeaf(t) \/ t.key = key THEN t ELSE Lookup(t.child[Way(t, key)], key)

\* Fault: one step up is taken for enough.
UpOne(way, d) == IF Len(way) <= 1 THEN <<>> ELSE SubSeq(way, 1, Len(way) - 1)

\* Up from the end of a way, past the nodes whose child d it comes from.
RECURSIVE Up(_, _)
Up(way, d) ==
  IF Len(way) <= 1 THEN <<>>
  ELSE IF way[Len(way) - 1].child[d] = way[Len(way)]
       THEN Up(SubSeq(way, 1, Len(way) - 1), d)
       ELSE SubSeq(way, 1, Len(way) - 1)

\* Down the children d, as far as there are any.
RECURSIVE Down(_, _, _)
Down(way, t, d) == IF IsLeaf(t) THEN way ELSE Down(Append(way, t), t.child[d], d)

\* __tree_iter_lookup_near: the first node not before the key (d = 1), the
\* last one not behind it (d = 0).
RECURSIVE Near(_, _, _, _)
Near(way, t, key, d) ==
  LET here == Append(way, t)
      past == IF d = 1 THEN t.key > key ELSE t.key < key
      next == t.child[IF past THEN 1 - d ELSE d]
  IN  CASE IsLeaf(t) -> <<>>
        [] ~IsLeaf(t) /\ t.key = key -> here
        [] ~IsLeaf(t) /\ t.key # key /\ ~IsLeaf(next) -> Near(here, next, key, d)
        [] ~IsLeaf(t) /\ t.key # key /\ IsLeaf(next) ->
             IF past THEN here ELSE Up(here, d)

SeekGe(t, key) == Near(<<>>, t, key, 1)

\* A key before all others finds the first node.
SeekLe(t, key) ==
  LET way == Near(<<>>, t, key, 0)
  IN  IF way = <<>> THEN Down(<<>>, t, 0) ELSE way

LastNode(way) == IF way = <<>> THEN Leaf ELSE way[Len(way)]
Floor(t, key) == LastNode(SeekLe(t, key))
Ceil(t, key) == LastNode(SeekGe(t, key))

\* __tree_iter_traverse: z_tree_iter_next (d = 1), z_tree_iter_prev (d = 0).
Traverse(way, d) ==
  LET t == way[Len(way)]
  IN  CASE way = <<>> -> way
        [] way # <<>> /\ ~IsLeaf(t.child[d]) -> Down(way, t.child[d], 1 - d)
        [] OTHER -> Up(way, d)
=============================================================================
