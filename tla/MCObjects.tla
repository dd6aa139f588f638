----------------------------- MODULE MCObjects -----------------------------
(***************************************************************************)
(* The objects and what keeps them, for TLC: a number, a deque, the names  *)
(* of the semantic layer, and the cache of the objects and transactions.   *)
(* None of them calls another inside a call; a behaviour runs the one that *)
(* part names, and the others stay in their first state.                   *)
(***************************************************************************)
EXTENDS NumberObj, Deque, Semantic, Cache

CONSTANTS e1, e2, e3, e4, e5, k1, k2, k3

VARIABLE part

\* The least value of three bits, zero and both signs.
Operands == {-4, -1, 0, 2, 3}

\* Transactions have an id of their own.  Of the objects, one can be
\* allocated three times.
Ids ==
  "LRU" :> (e1 :> k1 @@ e2 :> k2)
  @@ "2Q" :> (e1 :> k1 @@ e2 :> k1 @@ e3 :> k1 @@ e4 :> k2 @@ e5 :> k3)

allVars == <<part, vars, dqvars, svars, cvars>>

\* The transactions, the names and the threads are pairs of the same two
\* values in the configuration; in none of the parts does one of them differ
\* from the other.
Alike == Permutations(Txns)

AllInit ==
  /\ part \in {"number", "deque", "semantic", "cache"}
  /\ Init /\ DqInit /\ FsInit /\ CacheInit
  /\ part # "cache" => policy = "LRU"   \* one first state of each of the others

AllNext ==
  \/ part = "number" /\ Next /\ UNCHANGED <<part, dqvars, svars, cvars>>
  \/ part = "deque" /\ DqNext /\ UNCHANGED <<part, vars, svars, cvars>>
  \/ part = "semantic" /\ FsNext /\ UNCHANGED <<part, vars, dqvars, cvars>>
  \/ part = "cache" /\ CacheNext /\ UNCHANGED <<part, vars, dqvars, svars>>

AllSpec == AllInit /\ [][AllNext]_allVars
=============================================================================
