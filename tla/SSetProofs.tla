----------------------------- MODULE SSetProofs -----------------------------
(***************************************************************************)
(* Proofs about the sorted set (SSet), for any keys, values, transactions  *)
(* and sizes: its inductive invariant; that its locks are the atoms of its *)
(* transactions; that until a weakness is met it implements the store of   *)
(* TxnStore, and answers what its readers are to see of that store.        *)
(*                                                                         *)
(* The inductive invariant IInv says where things are: a key is only in    *)
(* the node that a lookup of it finds (RangesHold), a lock and an atom are *)
(* for that node (LocksHome, AtomsHome), and the locks and the atoms of    *)
(* the lists are the same (Sound).  What a call or an end does to the      *)
(* nodes is an iteration over its atoms (Iterates, RunLeaves); what a      *)
(* balance does is a recut of the keys of its nodes (BlocksAre, Recut).    *)
(* A scan is shown to be the list of the reader's keys in order (Lists),   *)
(* of which there is only one: that of a node is (NodeLists), and lists of *)
(* keys that come one after the other join to one (ListsJoin,              *)
(* FlattenLists).                                                          *)
(***************************************************************************)
EXTENDS SSet, FiniteSetTheorems, WellFoundedInduction, SequenceTheorems, TLAPS

NodeRec ==
  [blk : [Keys -> Vals \cup {Absent}], mem : [Keys -> Items],
   locks : [Keys -> Atoms \cup {Free}], buf : 0 .. SyncSize]

\* The atoms of transactions, and those of writes outside them.
AnyAtom ==
  [txn : Txns \cup {NoTxn}, node : Keys \cup {0},
   type : {"INSERT", "UPDATE", "REMOVE"}, key : Keys, val : Vals \cup {Deleted}]

Shape ==
  /\ DOMAIN nodes \subseteq Keys \cup {0} /\ DOMAIN nodes # {}
  /\ nodes \in [DOMAIN nodes -> NodeRec]
  /\ group \in [Txns -> Seq(Atoms)]
  /\ status \in [Txns -> {"open", "failed", "committed", "rolledback"}]
  /\ balance \in BOOLEAN /\ corrupt \in BOOLEAN
  /\ broken \in 0 .. MaxAfter + 1 /\ pending \in 0 .. MaxPending
  /\ reach \subseteq Txns /\ tails \subseteq Txns

\* The key has an item, an entry of the block or a lock in the node.
Has(n, k) ==
  \/ nodes[n].mem[k] # Absent \/ nodes[n].blk[k] # Absent
  \/ nodes[n].locks[k] # Free

\* A lock is an atom for its node and key.
LocksHome ==
  \A n \in DOMAIN nodes, k \in Keys :
    nodes[n].locks[k] # Free =>
      nodes[n].locks[k].node = n /\ nodes[n].locks[k].key = k

\* The atoms of a list that can be followed are for the node that a lookup
\* of their key finds.
AtomsHome ==
  \A x \in Txns : x \notin reach => \A i \in DOMAIN group[x] :
    /\ group[x][i].node \in DOMAIN nodes
    /\ Floor(group[x][i].key) = group[x][i].node

\* A remove carries the delete marker, another atom a value.
Meant(a) == IF a.type = "REMOVE" THEN a.val = Deleted ELSE a.val \in Vals

\* An atom of a list is the lock of its key, and the list has no other.
Listed ==
  \A x \in Txns : \A i \in DOMAIN group[x] :
    /\ group[x][i].txn = x
    /\ nodes[group[x][i].node].locks[group[x][i].key] = group[x][i]
    /\ Meant(group[x][i])
    /\ \A j \in DOMAIN group[x] : group[x][i].key = group[x][j].key => i = j

\* A list is of a transaction that has not ended.
Unended ==
  \A x \in Txns : group[x] # <<>> => status[x] \in {"open", "failed"}

\* A lock is an atom of the list of its transaction.
Owned ==
  \A n \in DOMAIN nodes, k \in Keys :
    nodes[n].locks[k] # Free =>
      \E i \in DOMAIN group[nodes[n].locks[k].txn] :
        group[nodes[n].locks[k].txn][i] = nodes[n].locks[k]

\* Until a weakness is met the lists can be followed, and the atoms of the
\* lists are the locks.
Sound ==
  broken = 0 =>
    ~corrupt /\ reach = {} /\ tails = {} /\ Listed /\ Unended /\ Owned

\* The inductive invariant.
IInv == Shape /\ RangesHold /\ LocksHome /\ AtomsHome /\ Sound

-----------------------------------------------------------------------------
(* Sets of naturals: the least and the greatest element, and the order.    *)

\* A set of naturals has a least element.
LEMMA LeastNat ==
  ASSUME NEW S, S \subseteq Nat, S # {}
  PROVE  \E m \in S : \A n \in S : m <= n
<1>. DEFINE R == {p \in Nat \X Nat : p[1] < p[2]}
<1>1. IsWellFoundedOn(R, Nat)
  BY NatLessThanWellFounded DEF OpToRel
<1>2. PICK m \in S : \A n \in S : ~(<<n, m>> \in R)
  <2>. HIDE DEF R
  <2>. QED BY <1>1, WFMin
<1>3. \A n \in S : n \in Nat /\ m \in Nat /\ ~(n < m)
  BY <1>2
<1>. QED BY <1>3

\* Of the finite sets of naturals in a set there is a smallest one.
LEMMA LeastSet ==
  ASSUME NEW S, IsFiniteSet(S), NEW B, \A T \in B : T \subseteq S, B # {}
  PROVE  \E T \in B : \A U \in B : U \subseteq T => U = T
<1>. DEFINE C == {Cardinality(T) : T \in B}
<1>1. \A T \in B : IsFiniteSet(T) /\ Cardinality(T) \in Nat
  <2>. SUFFICES ASSUME NEW T \in B PROVE IsFiniteSet(T) /\ Cardinality(T) \in Nat
    OBVIOUS
  <2>1. T \in SUBSET S
    OBVIOUS
  <2>. QED BY <2>1, FS_Subset, FS_CardinalityType
<1>2. PICK c \in C : \A d \in C : c <= d
  <2>1. C \subseteq Nat /\ C # {}
    BY <1>1
  <2>. HIDE DEF C
  <2>. QED BY <2>1, LeastNat
<1>3. PICK T \in B : c = Cardinality(T)
  BY <1>2
<1>4. ASSUME NEW U \in B, U \subseteq T PROVE U = T
  <2>1. Cardinality(T) <= Cardinality(U) /\ Cardinality(U) <= Cardinality(T)
    BY <1>1, <1>2, <1>3, <1>4, FS_Subset
  <2>2. Cardinality(T) = Cardinality(U)
    BY <1>1, <2>1
  <2>. QED BY <1>1, <1>4, <2>2, FS_Subset
<1>. QED BY <1>4

\* A finite set of naturals has a greatest element.
LEMMA GreatestNat ==
  ASSUME NEW S, S \subseteq Nat, IsFiniteSet(S), S # {}
  PROVE  \E m \in S : \A n \in S : n <= m
<1>. DEFINE B == {T \in SUBSET S : T # {} /\ ~\E m \in T : \A n \in T : n <= m}
<1>. SUFFICES ASSUME B # {} PROVE FALSE
  OBVIOUS
<1>1. PICK T \in B : \A U \in B : U \subseteq T => U = T
  <2>1. \A T \in B : T \subseteq S
    OBVIOUS
  <2>2. PICK C : C = B
    OBVIOUS
  <2>3. (\A T \in C : T \subseteq S) /\ C # {}
    BY <2>1, <2>2
  <2>4. \E T \in C : \A U \in C : U \subseteq T => U = T
    BY <2>3, LeastSet
  <2>. QED BY <2>2, <2>4
<1>2. PICK x \in T : TRUE
  OBVIOUS
<1>3. T \ {x} \notin B /\ T \ {x} \subseteq S /\ x \in Nat
  BY <1>1, <1>2
<1>4. CASE T \ {x} = {}
  <2>1. \A n \in T : n <= x
    BY <1>3, <1>4
  <2>. QED BY <1>2, <2>1
<1>5. CASE T \ {x} # {}
  <2>1. PICK m \in T \ {x} : \A n \in T \ {x} : n <= m
    BY <1>3, <1>5
  <2>2. m \in Nat
    BY <1>3, <2>1
  <2>3. CASE x <= m
    <3>1. \A n \in T : n <= m
      BY <2>1, <2>3
    <3>. QED BY <2>1, <3>1
  <2>4. CASE ~(x <= m)
    <3>1. \A n \in T : n \in Nat
      OBVIOUS
    <3>2. \A n \in T : n <= x
      BY <1>3, <2>1, <2>2, <2>4, <3>1
    <3>. QED BY <1>2, <3>2
  <2>. QED BY <2>3, <2>4
<1>. QED BY <1>4, <1>5

LEMMA MaxMinIs ==
  ASSUME NEW S, S \subseteq Nat, IsFiniteSet(S), S # {}
  PROVE  /\ Max(S) \in S /\ \A n \in S : n <= Max(S)
         /\ Min(S) \in S /\ \A n \in S : Min(S) <= n
<1>1. \E m \in S : \A n \in S : m >= n
  BY GreatestNat
<1>2. \E m \in S : \A n \in S : m <= n
  BY LeastNat
<1>3. Max(S) \in S /\ \A n \in S : Max(S) >= n
  BY <1>1 DEF Max
<1>4. Min(S) \in S /\ \A n \in S : Min(S) <= n
  BY <1>2 DEF Min
<1>. QED BY <1>3, <1>4

Increasing(s) == \A i, j \in DOMAIN s : i < j => s[i] < s[j]

\* The keys can be put in order.
LEMMA OrderExists ==
  ASSUME NEW S, S \subseteq Nat, IsFiniteSet(S)
  PROVE  \E s \in SetToSeqs(S) : Increasing(s)
<1>. DEFINE B == {T \in SUBSET S : ~\E s \in SetToSeqs(T) : Increasing(s)}
<1>. SUFFICES ASSUME B # {} PROVE FALSE
  OBVIOUS
<1>1. PICK T \in B : \A U \in B : U \subseteq T => U = T
  <2>1. \A T \in B : T \subseteq S
    OBVIOUS
  <2>2. PICK C : C = B
    OBVIOUS
  <2>3. (\A T \in C : T \subseteq S) /\ C # {}
    BY <2>1, <2>2
  <2>4. \E T \in C : \A U \in C : U \subseteq T => U = T
    BY <2>3, LeastSet
  <2>. QED BY <2>2, <2>4
<1>2. IsFiniteSet(T) /\ Cardinality(T) \in Nat /\ T \subseteq Nat
  BY FS_Subset, FS_CardinalityType
<1>3. CASE T = {}
  <2>1. Cardinality(T) = 0
    BY <1>3, FS_EmptySet
  <2>2. PICK s : s = [i \in 1 .. Cardinality(T) |-> i]
    OBVIOUS
  <2>3. DOMAIN s = {} /\ s \in [1 .. Cardinality(T) -> T]
    BY <1>3, <2>1, <2>2
  <2>4. s \in SetToSeqs(T) /\ Increasing(s)
    BY <2>1, <2>3 DEF SetToSeqs, Increasing
  <2>. QED BY <2>4
<1>4. CASE T # {}
  <2>1. PICK m \in T : \A n \in T : n <= m
    BY <1>2, <1>4, GreatestNat
  <2>2. PICK s \in SetToSeqs(T \ {m}) : Increasing(s)
    <3>1. T \ {m} \notin B /\ T \ {m} \in SUBSET S
      BY <1>1, <2>1
    <3>. QED BY <3>1
  <2>3. PICK c \in Nat : c = Cardinality(T \ {m}) /\ Cardinality(T) = c + 1
    <3>1. IsFiniteSet(T \ {m}) /\ Cardinality(T \ {m}) = Cardinality(T) - 1
      BY <1>2, <2>1, FS_RemoveElement
    <3>2. Cardinality(T \ {m}) \in Nat
      BY <3>1, FS_CardinalityType
    <3>. QED BY <1>2, <3>1, <3>2
  <2>4. s \in [1 .. c -> T \ {m}] /\ \A i, j \in 1 .. c : i # j => s[i] # s[j]
    BY <2>2, <2>3 DEF SetToSeqs
  <2>5. PICK t : t = [i \in 1 .. c + 1 |-> IF i = c + 1 THEN m ELSE s[i]]
    OBVIOUS
  <2>6. \A i \in 1 .. c + 1 : i # c + 1 => i \in 1 .. c
    BY <2>3
  <2>7. /\ t \in [1 .. c + 1 -> T]
        /\ \A i, j \in 1 .. c + 1 : i # j => t[i] # t[j]
    BY <2>1, <2>4, <2>5, <2>6
  <2>8. t \in SetToSeqs(T)
    BY <2>3, <2>7 DEF SetToSeqs
  <2>9. ASSUME NEW i \in 1 .. c + 1, NEW j \in 1 .. c + 1, i < j PROVE t[i] < t[j]
    <3>1. /\ i \in 1 .. c /\ t[i] = s[i] /\ s[i] \in T /\ s[i] # m
          /\ s[i] \in Nat /\ m \in Nat
      <4>1. i # c + 1
        BY <2>3, <2>9
      <4>2. i \in 1 .. c /\ t[i] = s[i] /\ s[i] \in T \ {m}
        BY <2>4, <2>5, <2>6, <4>1
      <4>. QED BY <1>2, <2>1, <4>2
    <3>2. CASE j = c + 1
      BY <2>1, <2>3, <2>5, <3>1, <3>2
    <3>3. CASE j # c + 1
      <4>1. j \in 1 .. c /\ t[j] = s[j]
        BY <2>5, <2>6, <3>3
      <4>. QED BY <2>2, <2>4, <2>9, <3>1, <4>1 DEF Increasing
    <3>. QED BY <3>2, <3>3
  <2>10. Increasing(t)
    BY <2>7, <2>9 DEF Increasing
  <2>. QED BY <2>8, <2>10
<1>. QED BY <1>3, <1>4

\* What the order is: every key, once.
LEMMA InOrderIs ==
  ASSUME NEW S, S \subseteq Nat, IsFiniteSet(S)
  PROVE  /\ InOrder(S) \in Seq(S) /\ Len(InOrder(S)) = Cardinality(S)
         /\ Cardinality(S) \in Nat
         /\ DOMAIN InOrder(S) = 1 .. Cardinality(S)
         /\ Increasing(InOrder(S))
         /\ \A k \in S : \E i \in DOMAIN InOrder(S) : InOrder(S)[i] = k
<1>1. InOrder(S) = CHOOSE s \in SetToSeqs(S) : Increasing(s)
  BY DEF InOrder, Increasing
<1>2. InOrder(S) \in SetToSeqs(S) /\ Increasing(InOrder(S))
  BY <1>1, OrderExists
<1>3. PICK s : s = InOrder(S)
  OBVIOUS
<1>4. PICK c \in Nat : c = Cardinality(S)
  BY FS_CardinalityType
<1>5. s \in [1 .. c -> S] /\ \A i, j \in 1 .. c : i # j => s[i] # s[j]
  BY <1>2, <1>3, <1>4 DEF SetToSeqs
<1>6. s \in Seq(S) /\ Len(s) = c
  BY <1>5
<1>7. Cardinality(1 .. c) = c
  BY FS_Interval
<1>8. s \in Injection(1 .. c, S)
  BY <1>5 DEF Injection, IsInjective
<1>9. s \in Surjection(1 .. c, S)
  BY <1>4, <1>7, <1>8, FS_Injection
<1>10. \A k \in S : \E i \in 1 .. c : s[i] = k
  BY <1>9 DEF Surjection
<1>. QED BY <1>2, <1>3, <1>4, <1>5, <1>6, <1>10

-----------------------------------------------------------------------------
(* Where a lookup leads.                                                   *)

\* __sset_node_lookup among the nodes that begin at D.
Seek(D, k) ==
  LET upTo == {b \in D : b <= k} IN IF upTo # {} THEN Max(upTo) ELSE Min(D)

LEMMA FloorIsSeek ==
  ASSUME NEW k
  PROVE  Floor(k) = Seek(DOMAIN nodes, k) /\ Floor(k)' = Seek(DOMAIN nodes', k)
BY DEF Floor, Seek

LEMMA SeekIs ==
  ASSUME NEW D, D \subseteq Nat, IsFiniteSet(D), D # {}, NEW k \in Nat
  PROVE  /\ Seek(D, k) \in D /\ Seek(D, k) \in Nat
         /\ \A n \in D : n <= k => n <= Seek(D, k) /\ Seek(D, k) <= k
         /\ (\A n \in D : ~(n <= k)) => \A n \in D : Seek(D, k) <= n
<1>. DEFINE upTo == {b \in D : b <= k}
<1>1. upTo \in SUBSET D /\ upTo \subseteq Nat
  OBVIOUS
<1>2. IsFiniteSet(upTo)
  BY <1>1, FS_Subset
<1>3. Seek(D, k) = IF upTo # {} THEN Max(upTo) ELSE Min(D)
  BY DEF Seek
<1>4. CASE upTo # {}
  <2>1. Max(upTo) \in upTo /\ \A n \in upTo : n <= Max(upTo)
    <3>. HIDE DEF upTo
    <3>. QED BY <1>1, <1>2, <1>4, MaxMinIs
  <2>. QED BY <1>3, <1>4, <2>1
<1>5. CASE upTo = {}
  <2>1. Min(D) \in D /\ \A n \in D : Min(D) <= n
    BY MaxMinIs
  <2>. QED BY <1>3, <1>5, <2>1
<1>. QED BY <1>4, <1>5

LEMMA SeekUnique ==
  ASSUME NEW D, D \subseteq Nat, IsFiniteSet(D), NEW k \in Nat, NEW n \in D,
         \/ n <= k /\ \A m \in D : m <= k => m <= n
         \/ (\A m \in D : ~(m <= k)) /\ \A m \in D : n <= m
  PROVE  Seek(D, k) = n
<1>1. Seek(D, k) \in D /\ Seek(D, k) \in Nat /\ n \in Nat
  BY SeekIs
<1>2. CASE n <= k /\ \A m \in D : m <= k => m <= n
  <2>1. n <= Seek(D, k) /\ Seek(D, k) <= k
    BY <1>2, SeekIs
  <2>2. Seek(D, k) <= n
    BY <1>1, <1>2, <2>1
  <2>. QED BY <1>1, <2>1, <2>2
<1>3. CASE (\A m \in D : ~(m <= k)) /\ \A m \in D : n <= m
  <2>1. Seek(D, k) <= n
    BY <1>3, SeekIs
  <2>2. n <= Seek(D, k)
    BY <1>1, <1>3
  <2>. QED BY <1>1, <2>1, <2>2
<1>. QED BY <1>2, <1>3

\* Of the beginnings P of new nodes b is the last that a lookup of k may find.
Leads(D, P, k, b) ==
  /\ Seek(D, k) = Seek(D, b) /\ b <= k
  /\ \A c \in P : Seek(D, c) = Seek(D, k) /\ c <= k => c <= b

Recuts(D, F, P, E) ==
  /\ D \subseteq Nat /\ IsFiniteSet(D) /\ D # {} /\ F \subseteq D
  /\ P \subseteq Nat /\ IsFiniteSet(P) /\ \A b \in P : Seek(D, b) \in F
  /\ \A m : m \in E <=> (m \in P \/ (m \in D /\ m \notin F))

\* What a balance does to the lookups: the nodes that begin at F are replaced
\* by the ones that begin at P, at keys that led to nodes of F.
LEMMA Recut ==
  ASSUME NEW D, NEW F, NEW P, NEW E, Recuts(D, F, P, E)
  PROVE  /\ E \subseteq Nat /\ IsFiniteSet(E)
         /\ \A b \in P : b \notin D \ F
         /\ \A k \in Nat : Seek(D, k) \notin F => Seek(E, k) = Seek(D, k)
         /\ \A k \in Nat, b \in P : Leads(D, P, k, b) => Seek(E, k) = b
<1>. USE DEF Recuts
<1>1. E \subseteq Nat
  OBVIOUS
<1>2. IsFiniteSet(E)
  <2>1. IsFiniteSet(P \cup (D \ F))
    BY FS_Difference, FS_Union
  <2>2. E = P \cup (D \ F)
    OBVIOUS
  <2>. QED BY <2>1, <2>2
<1>a. \A k \in Nat :
        /\ Seek(D, k) \in D /\ Seek(D, k) \in Nat
        /\ \A n \in D : n <= k => n <= Seek(D, k) /\ Seek(D, k) <= k
        /\ (\A n \in D : ~(n <= k)) => \A n \in D : Seek(D, k) <= n
  BY SeekIs
<1>b. ASSUME NEW k \in Nat, NEW n \in D,
             \/ n <= k /\ \A m \in D : m <= k => m <= n
             \/ (\A m \in D : ~(m <= k)) /\ \A m \in D : n <= m
      PROVE  Seek(D, k) = n
  BY <1>b, SeekUnique, ZenonT(60)
<1>c. ASSUME NEW k \in Nat, NEW n \in E,
             \/ n <= k /\ \A m \in E : m <= k => m <= n
             \/ (\A m \in E : ~(m <= k)) /\ \A m \in E : n <= m
      PROVE  Seek(E, k) = n
  BY <1>1, <1>2, <1>c, SeekUnique
<1>3. ASSUME NEW n \in D PROVE Seek(D, n) = n
  <2>1. n \in Nat /\ n <= n
    BY <1>3
  <2>. QED BY <1>b, <2>1
<1>4. \A b \in P : b \notin D \ F
  BY <1>3
<1>5. ASSUME NEW k \in Nat, Seek(D, k) \notin F
      PROVE  Seek(E, k) = Seek(D, k)
  <2>1. PICK n \in D : n = Seek(D, k) /\ n \in Nat /\ n \in E /\ n \notin F
    BY <1>a, <1>5
  <2>2. CASE n <= k
    <3>1. \A m \in D : m <= k => m <= n
      BY <1>a, <2>1
    <3>2. ASSUME NEW b \in P, b <= k PROVE b <= n
      <4>0. b \in Nat /\ Seek(D, b) \in F
        OBVIOUS
      <4>1. SUFFICES ASSUME ~(b <= n) PROVE FALSE
        OBVIOUS
      <4>2. n <= b
        BY <2>1, <4>0, <4>1
      <4>3. n <= Seek(D, b) /\ Seek(D, b) <= b /\ Seek(D, b) \in D /\ Seek(D, b) \in Nat
        BY <1>a, <4>0, <4>2
      <4>4. Seek(D, b) <= k
        BY <3>2, <4>0, <4>3
      <4>5. Seek(D, b) <= n
        BY <3>1, <4>3, <4>4
      <4>6. Seek(D, b) = n
        BY <2>1, <4>3, <4>5
      <4>. QED BY <2>1, <4>0, <4>6
    <3>3. \A m \in E : m <= k => m <= n
      BY <3>1, <3>2
    <3>. QED BY <1>c, <2>1, <2>2, <3>3
  <2>3. CASE ~(n <= k)
    <3>1. \A m \in D : ~(m <= k)
      BY <1>a, <2>1, <2>3
    <3>2. \A m \in D : n <= m
      BY <1>a, <2>1, <3>1
    <3>3. ASSUME NEW b \in P PROVE n <= b /\ ~(b <= k)
      <4>0. b \in Nat /\ Seek(D, b) \in F
        OBVIOUS
      <4>1. SUFFICES ASSUME ~(n <= b) PROVE FALSE
        BY <2>1, <2>3, <4>0
      <4>2. \A m \in D : ~(m <= b)
        BY <2>1, <3>2, <4>0, <4>1
      <4>3. Seek(D, b) = n
        BY <1>b, <2>1, <3>2, <4>0, <4>2
      <4>. QED BY <2>1, <4>0, <4>3
    <3>4. (\A m \in E : ~(m <= k)) /\ \A m \in E : n <= m
      BY <3>1, <3>2, <3>3
    <3>. QED BY <1>c, <2>1, <3>4
  <2>. QED BY <2>2, <2>3
<1>6. ASSUME NEW k \in Nat, NEW b \in P, Seek(D, k) = Seek(D, b), b <= k,
             \A c \in P : Seek(D, c) = Seek(D, k) /\ c <= k => c <= b
      PROVE  Seek(E, k) = b
  <2>0. b \in Nat /\ b \in E
    OBVIOUS
  <2>1. PICK n \in D : n = Seek(D, k) /\ n = Seek(D, b) /\ n \in Nat /\ n \in F
    BY <1>a, <1>6
  <2>2. ASSUME NEW m \in D, m \notin F, m <= k PROVE m <= b
    <3>0. m \in Nat
      OBVIOUS
    <3>1. m <= n /\ n <= k
      BY <1>a, <2>1, <2>2
    <3>2. CASE n <= b
      BY <2>0, <2>1, <3>0, <3>1, <3>2
    <3>3. CASE ~(n <= b)
      <4>1. \A j \in D : ~(j <= b)
        BY <1>a, <2>0, <2>1, <3>3
      <4>2. n <= m
        BY <1>a, <2>0, <2>1, <4>1
      <4>. QED BY <2>1, <2>2, <3>0, <3>1, <4>2
    <3>. QED BY <3>2, <3>3
  <2>3. ASSUME NEW c \in P, c <= k, ~(c <= b) PROVE FALSE
    <3>0. c \in Nat /\ b <= c
      BY <2>0, <2>3
    <3>1. Seek(D, c) # n
      BY <1>6, <2>1, <2>3
    <3>2. PICK q \in D : q = Seek(D, c) /\ q \in Nat
      BY <1>a, <3>0
    <3>3. CASE n <= b
      <4>1. n <= c
        BY <2>0, <2>1, <3>0, <3>3
      <4>2. n <= q /\ q <= c
        BY <1>a, <3>0, <3>2, <4>1
      <4>3. q <= k
        BY <2>3, <3>0, <3>2, <4>2
      <4>4. q <= n
        BY <1>a, <2>1, <4>3
      <4>. QED BY <2>1, <3>1, <3>2, <4>2, <4>4
    <3>4. CASE ~(n <= b)
      <4>1. \A j \in D : ~(j <= b) 
        BY <1>a, <2>0, <2>1, <3>4
      <4>2. \A j \in D : n <= j
        BY <1>a, <2>0, <2>1, <4>1
      <4>3. CASE n <= c
        <5>1. n <= q /\ q <= c
          BY <1>a, <3>0, <3>2, <4>3
        <5>2. q <= k
          BY <2>3, <3>0, <3>2, <5>1
        <5>3. q <= n
          BY <1>a, <2>1, <5>2
        <5>. QED BY <2>1, <3>1, <3>2, <5>1, <5>3
      <4>4. CASE ~(n <= c)
        <5>1. \A j \in D : ~(j <= c)
          BY <2>1, <3>0, <4>2, <4>4
        <5>2. q <= n
          BY <1>a, <3>0, <3>2, <5>1
        <5>. QED BY <2>1, <3>1, <3>2, <4>2, <5>2
      <4>. QED BY <4>3, <4>4
    <3>. QED BY <3>3, <3>4
  <2>4. \A m \in E : m <= k => m <= b
    BY <2>2, <2>3
  <2>. QED BY <1>c, <1>6, <2>0, <2>4
<1>. QED BY <1>1, <1>2, <1>4, <1>5, <1>6 DEF Leads

-----------------------------------------------------------------------------
(* What an atom does to its node.                                          *)

\* The item of the key after the atom is applied (__sset_txn_apply).
MemAfter(m, a) ==
  IF a.type = "REMOVE" THEN (IF m = Absent THEN Deleted ELSE Absent) ELSE a.val

LockAfter(how, l, a) ==
  CASE how = "attached" -> a
    [] how = "rolledback" -> Free
    [] how = "committed" -> IF a.txn = NoTxn THEN l ELSE Free

Hows == {"committed", "rolledback", "attached"}

LEMMA MinOfTwo ==
  ASSUME NEW a \in Nat, NEW b \in Nat
  PROVE  Min({a, b}) \in Nat /\ Min({a, b}) <= a
<1>1. \E x \in {a, b} : \A y \in {a, b} : x <= y
  OBVIOUS
<1>2. Min({a, b}) \in {a, b} /\ \A y \in {a, b} : Min({a, b}) <= y
  BY <1>1 DEF Min
<1>. QED BY <1>2

\* The node as the fields say.
Changed(how, nd, a, new) ==
  /\ new \in NodeRec /\ new.blk = nd.blk
  /\ \A k \in Keys : k # a.key =>
       new.mem[k] = nd.mem[k] /\ new.locks[k] = nd.locks[k]
  /\ new.locks[a.key] = LockAfter(how, nd.locks[a.key], a)
  /\ new.mem[a.key] = IF how = "committed" THEN MemAfter(nd.mem[a.key], a)
                      ELSE nd.mem[a.key]

LEMMA RevertedIs ==
  ASSUME NEW nd \in NodeRec, NEW a \in AnyAtom
  PROVE  Changed("rolledback", nd, a, Reverted(nd, a))
<1>1. a.key \in Keys
  BY DEF AnyAtom
<1>. QED BY <1>1 DEF Changed, Reverted, NodeRec, LockAfter

LEMMA AttachedIs ==
  ASSUME NEW nd \in NodeRec, NEW a \in Atoms
  PROVE  Changed("attached", nd, a, Attached(nd, a))
<1>1. a.key \in Keys
  BY DEF Atoms
<1>. QED BY <1>1 DEF Changed, Attached, NodeRec, LockAfter

LEMMA AppliedIs ==
  ASSUME NEW nd \in NodeRec, NEW a \in AnyAtom
  PROVE  Changed("committed", nd, a, Applied(nd, a))
<1>1. /\ a.key \in Keys /\ a.val \in Items /\ a.type \in {"INSERT", "UPDATE", "REMOVE"}
      /\ Absent \in Items /\ Deleted \in Items
  BY DEF AnyAtom, Items
<1>2. PICK u : u = IF a.txn = NoTxn THEN nd ELSE [nd EXCEPT !.locks[a.key] = Free]
  OBVIOUS
<1>3. /\ u \in NodeRec /\ u.blk = nd.blk /\ u.mem = nd.mem
      /\ \A k \in Keys : k # a.key => u.locks[k] = nd.locks[k]
      /\ u.locks[a.key] = LockAfter("committed", nd.locks[a.key], a)
  BY <1>1, <1>2 DEF NodeRec, LockAfter
<1>4. CASE a.type = "REMOVE"
  <2>1. Applied(nd, a) = [u EXCEPT !.mem[a.key] = IF @ = Absent THEN Deleted ELSE Absent]
    BY <1>2, <1>4 DEF Applied
  <2>. QED BY <1>1, <1>3, <1>4, <2>1 DEF Changed, NodeRec, MemAfter
<1>5. CASE a.type # "REMOVE"
  <2>1. Applied(nd, a) = [u EXCEPT !.mem[a.key] = a.val,
                                   !.buf = Min({SyncSize, @ + 1})]
    BY <1>2, <1>5 DEF Applied
  <2>2. Min({SyncSize, u.buf + 1}) \in 0 .. SyncSize
    <3>1. u.buf + 1 \in Nat /\ SyncSize \in Nat
      BY <1>3, SSetAssumption DEF NodeRec
    <3>. QED BY <3>1, MinOfTwo
  <2>3. PICK m \in 0 .. SyncSize : m = Min({SyncSize, u.buf + 1})
    BY <2>2
  <2>4. PICK w : w = [u EXCEPT !.mem[a.key] = a.val]
    OBVIOUS
  <2>5. /\ w \in NodeRec /\ w.blk = nd.blk /\ w.locks = u.locks
        /\ w.mem[a.key] = a.val /\ \A k \in Keys : k # a.key => w.mem[k] = nd.mem[k]
    BY <1>1, <1>3, <2>4 DEF NodeRec
  <2>6. Applied(nd, a) = [w EXCEPT !.buf = m]
    BY <1>3, <2>1, <2>3, <2>4 DEF NodeRec
  <2>7. /\ Applied(nd, a) \in NodeRec /\ Applied(nd, a).blk = w.blk
        /\ Applied(nd, a).mem = w.mem /\ Applied(nd, a).locks = w.locks
    BY <2>3, <2>5, <2>6 DEF NodeRec
  <2>. QED BY <1>3, <1>5, <2>5, <2>7 DEF Changed, MemAfter
<1>. QED BY <1>4, <1>5

LEMMA OnNodeIs ==
  ASSUME NEW D, NEW ns \in [D -> NodeRec], NEW a \in AnyAtom, a.node \in D,
         NEW how \in Hows, how = "attached" => a \in Atoms
  PROVE  /\ OnNode(how, ns, a) \in [D -> NodeRec]
         /\ \A n \in D : n # a.node => OnNode(how, ns, a)[n] = ns[n]
         /\ Changed(how, ns[a.node], a, OnNode(how, ns, a)[a.node])
<1>1. PICK nd : nd = CASE how = "committed"  -> Applied(ns[a.node], a)
                       [] how = "rolledback" -> Reverted(ns[a.node], a)
                       [] how = "attached"   -> Attached(ns[a.node], a)
  OBVIOUS
<1>2. OnNode(how, ns, a) = [ns EXCEPT ![a.node] = nd]
  BY <1>1 DEF OnNode
<1>3. Changed(how, ns[a.node], a, nd)
  BY <1>1, AppliedIs, RevertedIs, AttachedIs DEF Hows
<1>4. nd \in NodeRec
  BY <1>3 DEF Changed
<1>. QED BY <1>2, <1>3, <1>4

-----------------------------------------------------------------------------
(* What the atoms of a list do, one after the other.                       *)

\* A step after the other can be taken.
LEMMA Iterates ==
  ASSUME NEW T, NEW s0 \in T, NEW n \in Nat, NEW F \in [1 .. n -> [T -> T]]
  PROVE  \E g \in [0 .. n -> T] :
           g[0] = s0 /\ \A i \in 1 .. n : g[i] = F[i][g[i - 1]]
<1>. DEFINE Good(m) == \E g \in [0 .. m -> T] :
                         g[0] = s0 /\ \A i \in 1 .. m : g[i] = F[i][g[i - 1]]
            B == {m \in 0 .. n : ~Good(m)}
<1>. SUFFICES ASSUME B # {} PROVE FALSE
  <2>1. n \in 0 .. n
    OBVIOUS
  <2>. QED BY <2>1
<1>1. PICK m \in B : \A k \in B : m <= k
  <2>1. PICK C : C = B
    OBVIOUS
  <2>2. C \subseteq Nat /\ C # {}
    BY <2>1
  <2>3. \E m \in C : \A k \in C : m <= k
    BY <2>2, LeastNat
  <2>. QED BY <2>1, <2>3
<1>2. m \in Nat /\ m <= n /\ ~Good(m)
  <2>1. m \in 0 .. n /\ ~Good(m)
    BY <1>1
  <2>. HIDE DEF Good
  <2>. QED BY <2>1
<1>3. m # 0
  <2>1. PICK g : g = [i \in 0 .. 0 |-> s0]
    OBVIOUS
  <2>2. g \in [0 .. 0 -> T] /\ g[0] = s0 /\ \A i \in 1 .. 0 : FALSE
    BY <2>1
  <2>3. Good(0)
    BY <2>2
  <2>. QED BY <1>2, <2>3
<1>4. m - 1 \in 0 .. n /\ m \in 1 .. n
  BY <1>2, <1>3
<1>5. m - 1 \notin B
  <2>1. ~(m <= m - 1)
    BY <1>2
  <2>. QED BY <1>1, <2>1
<1>6. PICK g \in [0 .. m - 1 -> T] :
        g[0] = s0 /\ \A i \in 1 .. m - 1 : g[i] = F[i][g[i - 1]]
  BY <1>4, <1>5
<1>7. PICK h : h = [i \in 0 .. m |-> IF i = m THEN F[m][g[m - 1]] ELSE g[i]]
  OBVIOUS
<1>8. /\ \A i \in 0 .. m : i # m => i \in 0 .. m - 1
      /\ \A i \in 1 .. m : i - 1 \in 0 .. m - 1 /\ i - 1 # m /\ i - 1 \in 0 .. m
      /\ \A i \in 1 .. m : i # m => i \in 1 .. m - 1
      /\ m - 1 \in 0 .. m - 1 /\ 0 \in 0 .. m /\ m \in 0 .. m
  BY <1>2, <1>3
<1>9. F[m][g[m - 1]] \in T
  BY <1>4, <1>6, <1>8
<1>10. h \in [0 .. m -> T]
  BY <1>6, <1>7, <1>8, <1>9
<1>11. h[0] = s0 /\ \A i \in 1 .. m : h[i] = F[i][h[i - 1]]
  <2>1. h[0] = s0
    BY <1>3, <1>6, <1>7, <1>8
  <2>2. ASSUME NEW i \in 1 .. m PROVE h[i] = F[i][h[i - 1]]
    <3>1. h[i - 1] = g[i - 1] /\ i \in 0 .. m
      BY <1>7, <1>8
    <3>2. CASE i = m
      BY <1>7, <1>8, <3>1, <3>2
    <3>3. CASE i # m
      <4>1. i \in 1 .. m - 1 /\ h[i] = g[i]
        BY <1>7, <1>8, <3>1, <3>3
      <4>. QED BY <1>6, <3>1, <4>1
    <3>. QED BY <3>2, <3>3
  <2>. QED BY <2>1, <2>2
<1>12. Good(m)
  BY <1>10, <1>11
<1>. QED BY <1>2, <1>12

\* The list can be done on the nodes ns.
Doable(D, ns, how, as) ==
  /\ ns \in [D -> NodeRec] /\ as \in Seq(AnyAtom) /\ how \in Hows
  /\ \A i \in DOMAIN as : as[i].node \in D /\ (how = "attached" => as[i] \in Atoms)

\* f[i] is what the nodes are after the first i atoms.
Runs(f, ns, how, as) ==
  f = [i \in 0 .. Len(as) |-> IF i = 0 THEN ns ELSE OnNode(how, f[i - 1], as[i])]

LEMMA RunExists ==
  ASSUME NEW D, NEW ns, NEW how, NEW as, Doable(D, ns, how, as)
  PROVE  \E f : Runs(f, ns, how, as)
<1>1. PICK n \in Nat : n = Len(as) /\ DOMAIN as = 1 .. n /\ \A i \in 1 .. n : as[i] \in AnyAtom
  BY LenProperties DEF Doable
<1>2. PICK T : T = [D -> NodeRec]
  OBVIOUS
<1>3. PICK F : F = [i \in 1 .. n |-> [s \in T |-> OnNode(how, s, as[i])]]
  OBVIOUS
<1>4. F \in [1 .. n -> [T -> T]]
  <2>1. ASSUME NEW i \in 1 .. n, NEW s \in T PROVE OnNode(how, s, as[i]) \in T
    BY <1>1, <1>2, OnNodeIs DEF Doable
  <2>. QED BY <1>3, <2>1
<1>5. ns \in T
  BY <1>2 DEF Doable
<1>6. PICK g \in [0 .. n -> T] : g[0] = ns /\ \A i \in 1 .. n : g[i] = F[i][g[i - 1]]
  BY <1>4, <1>5, Iterates, SMTT(30)
<1>7. ASSUME NEW i \in 0 .. n
      PROVE  g[i] = IF i = 0 THEN ns ELSE OnNode(how, g[i - 1], as[i])
  <2>1. CASE i = 0
    BY <1>6, <2>1
  <2>2. CASE i # 0
    <3>1. i \in 1 .. n /\ i - 1 \in 0 .. n
      BY <1>7, <2>2
    <3>2. g[i - 1] \in T
      BY <1>6, <3>1
    <3>. QED BY <1>3, <1>6, <2>2, <3>1, <3>2
  <2>. QED BY <2>1, <2>2
<1>8. Runs(g, ns, how, as)
  BY <1>1, <1>6, <1>7 DEF Runs
<1>. QED BY <1>8

Ran(D, ns, how, as, f, n) ==
  /\ n = Len(as) /\ DOMAIN as = 1 .. n /\ f[0] = ns
  /\ \A i \in 1 .. n : i - 1 \in 0 .. n /\ f[i] = OnNode(how, f[i - 1], as[i])
  /\ \A i \in 0 .. n : f[i] \in [D -> NodeRec]

LEMMA RunIs ==
  ASSUME NEW D, NEW ns, NEW how, NEW as, Doable(D, ns, how, as),
         NEW f, Runs(f, ns, how, as)
  PROVE  \E n \in Nat : Ran(D, ns, how, as, f, n)
<1>1. PICK n \in Nat : n = Len(as) /\ DOMAIN as = 1 .. n /\ \A i \in 1 .. n : as[i] \in AnyAtom
  BY LenProperties DEF Doable
<1>2. f[0] = ns /\ \A i \in 1 .. n : i - 1 \in 0 .. n /\ f[i] = OnNode(how, f[i - 1], as[i])
  <2>1. f = [i \in 0 .. n |-> IF i = 0 THEN ns ELSE OnNode(how, f[i - 1], as[i])]
    BY <1>1 DEF Runs
  <2>2. ASSUME NEW i \in 0 .. n
        PROVE  f[i] = IF i = 0 THEN ns ELSE OnNode(how, f[i - 1], as[i])
    BY <2>1
  <2>3. 0 \in 0 .. n /\ \A i \in 1 .. n : i \in 0 .. n /\ i # 0 /\ i - 1 \in 0 .. n
    OBVIOUS
  <2>. QED BY <2>2, <2>3
<1>. DEFINE B == {i \in 0 .. n : f[i] \notin [D -> NodeRec]}
<1>3. B = {}
  <2>. SUFFICES ASSUME B # {} PROVE FALSE
    OBVIOUS
  <2>1. PICK m \in B : \A k \in B : m <= k
    <3>1. PICK C : C = B
      OBVIOUS
    <3>2. C \subseteq Nat /\ C # {}
      BY <3>1
    <3>3. \E m \in C : \A k \in C : m <= k
      BY <3>2, LeastNat
    <3>. QED BY <3>1, <3>3
  <2>2. m # 0
    BY <1>2 DEF Doable
  <2>3. m \in 1 .. n /\ m - 1 \in 0 .. n /\ m - 1 \notin B
    BY <2>1, <2>2
  <2>4. f[m - 1] \in [D -> NodeRec]
    BY <2>3
  <2>5. f[m] = OnNode(how, f[m - 1], as[m]) /\ as[m] \in AnyAtom
    BY <1>1, <1>2, <2>3
  <2>6. OnNode(how, f[m - 1], as[m]) \in [D -> NodeRec]
    BY <1>1, <2>3, <2>4, <2>5, OnNodeIs DEF Doable
  <2>. QED BY <2>5, <2>6
<1>4. Ran(D, ns, how, as, f, n)
  BY <1>1, <1>2, <1>3 DEF Ran
<1>. QED BY <1>4

LEMMA OnNodesRuns ==
  ASSUME NEW how, NEW as, Doable(DOMAIN nodes, nodes, how, as)
  PROVE  \E f : Runs(f, nodes, how, as) /\ OnNodes(how, as) = f[Len(as)]
<1>1. PICK ns, D : ns = nodes /\ D = DOMAIN nodes
  OBVIOUS
<1>2. \E f : Runs(f, ns, how, as)
  BY <1>1, RunExists
<1>3. PICK f : f = CHOOSE g : g = [i \in 0 .. Len(as) |->
                  IF i = 0 THEN nodes ELSE OnNode(how, g[i - 1], as[i])]
  OBVIOUS
<1>4. OnNodes(how, as) = f[Len(as)]
  BY <1>3 DEF OnNodes
<1>5. \E g : g = [i \in 0 .. Len(as) |->
                  IF i = 0 THEN nodes ELSE OnNode(how, g[i - 1], as[i])]
  BY <1>1, <1>2 DEF Runs
<1>6. f = [i \in 0 .. Len(as) |-> IF i = 0 THEN nodes ELSE OnNode(how, f[i - 1], as[i])]
  BY <1>3, <1>5
<1>. QED BY <1>4, <1>6 DEF Runs

\* A set of numbers with 0 and with the successors has all up to n.
LEMMA UpTo ==
  ASSUME NEW n \in Nat, NEW G, 0 \in G, \A i \in 1 .. n : i - 1 \in G => i \in G
  PROVE  \A i \in 0 .. n : i \in G
<1>. SUFFICES ASSUME NEW j \in 0 .. n, j \notin G PROVE FALSE
  OBVIOUS
<1>1. PICK C : C = {i \in 0 .. n : i \notin G}
  OBVIOUS
<1>2. C \subseteq Nat /\ C # {}
  BY <1>1
<1>3. PICK m \in C : \A k \in C : m <= k
  BY <1>2, LeastNat
<1>4. m \in Nat /\ m <= n /\ m \notin G /\ m # 0
  BY <1>1, <1>3
<1>5. m \in 1 .. n /\ m - 1 \in 0 .. n /\ ~(m <= m - 1)
  BY <1>4
<1>6. m - 1 \notin C
  BY <1>3, <1>5
<1>. QED BY <1>1, <1>4, <1>5, <1>6

\* Where none of the first i atoms is, nothing has changed; a lock is an old
\* one or an atom of the list.
Kept(D, ns, as, i, new) ==
  \A n \in D :
    /\ new[n].blk = ns[n].blk
    /\ \A k \in Keys :
         /\ (\A j \in 1 .. i : as[j].node # n \/ as[j].key # k) =>
              new[n].mem[k] = ns[n].mem[k] /\ new[n].locks[k] = ns[n].locks[k]
         /\ \/ new[n].locks[k] = ns[n].locks[k] \/ new[n].locks[k] = Free
            \/ \E j \in 1 .. i : /\ as[j].node = n /\ as[j].key = k
                                 /\ new[n].locks[k] = as[j]

\* Where one of them is, alone of its key, it has done what it does.
DoneAt(ns, how, as, i, new) ==
  \A j \in 1 .. i :
    /\ new[as[j].node].locks[as[j].key]
         = LockAfter(how, ns[as[j].node].locks[as[j].key], as[j])
    /\ new[as[j].node].mem[as[j].key]
         = IF how = "committed" THEN MemAfter(ns[as[j].node].mem[as[j].key], as[j])
           ELSE ns[as[j].node].mem[as[j].key]

LEMMA AtomTyped ==
  ASSUME NEW D, NEW ns, NEW how, NEW as, Doable(D, ns, how, as), NEW i \in DOMAIN as
  PROVE  /\ i \in Nat /\ i \in 1 .. i /\ \A j \in 1 .. i : j # i => j \in 1 .. i - 1
         /\ as[i] \in AnyAtom /\ as[i].node \in D /\ how \in Hows
         /\ (how = "attached" => as[i] \in Atoms)
<1>1. PICK n \in Nat : n = Len(as) /\ DOMAIN as = 1 .. n
  BY LenProperties DEF Doable
<1>2. i \in 1 .. n
  BY <1>1
<1>3. as[i] \in AnyAtom
  BY <1>1, <1>2, LenProperties DEF Doable
<1>4. i \in Nat /\ i \in 1 .. i /\ \A j \in 1 .. i : j # i => j \in 1 .. i - 1
  BY <1>2
<1>. QED BY <1>3, <1>4 DEF Doable

LEMMA KeptStep ==
  ASSUME NEW D, NEW ns, NEW how, NEW as, Doable(D, ns, how, as),
         NEW i \in DOMAIN as, NEW old \in [D -> NodeRec],
         Kept(D, ns, as, i - 1, old)
  PROVE  Kept(D, ns, as, i, OnNode(how, old, as[i]))
<1>0. i \in Nat /\ i \in 1 .. i /\ \A j \in 1 .. i : j # i => j \in 1 .. i - 1
  BY AtomTyped
<1>1. /\ as[i] \in AnyAtom /\ as[i].node \in D /\ how \in Hows
      /\ (how = "attached" => as[i] \in Atoms)
  BY AtomTyped
<1>2. PICK a, new : a = as[i] /\ new = OnNode(how, old, a)
  OBVIOUS
<1>3. /\ \A n \in D : n # a.node => new[n] = old[n]
      /\ Changed(how, old[a.node], a, new[a.node])
  <2>1. a \in AnyAtom /\ a.node \in D /\ (how = "attached" => a \in Atoms)
    BY <1>1, <1>2
  <2>2. /\ \A n \in D : n # a.node => OnNode(how, old, a)[n] = old[n]
        /\ Changed(how, old[a.node], a, OnNode(how, old, a)[a.node])
    BY <1>1, <2>1, OnNodeIs
  <2>. QED BY <1>2, <2>2
<1>4. \A j \in 1 .. i - 1 : j \in 1 .. i
  BY <1>0
<1>5. ASSUME NEW n \in D
      PROVE  new[n].blk = ns[n].blk
  BY <1>3 DEF Changed, Kept
<1>6. ASSUME NEW n \in D, NEW k \in Keys,
             \A j \in 1 .. i : as[j].node # n \/ as[j].key # k
      PROVE  new[n].mem[k] = ns[n].mem[k] /\ new[n].locks[k] = ns[n].locks[k]
  <2>1. a.node # n \/ a.key # k
    BY <1>0, <1>2, <1>6
  <2>2. new[n].mem[k] = old[n].mem[k] /\ new[n].locks[k] = old[n].locks[k]
    BY <1>3, <2>1 DEF Changed
  <2>3. \A j \in 1 .. i - 1 : as[j].node # n \/ as[j].key # k
    BY <1>4, <1>6
  <2>. QED BY <2>2, <2>3 DEF Kept
<1>7. ASSUME NEW n \in D, NEW k \in Keys
      PROVE  \/ new[n].locks[k] = ns[n].locks[k] \/ new[n].locks[k] = Free
             \/ \E j \in 1 .. i : /\ as[j].node = n /\ as[j].key = k
                                  /\ new[n].locks[k] = as[j]
  <2>1. \/ old[n].locks[k] = ns[n].locks[k] \/ old[n].locks[k] = Free
        \/ \E j \in 1 .. i - 1 : /\ as[j].node = n /\ as[j].key = k
                                 /\ old[n].locks[k] = as[j]
    BY DEF Kept
  <2>2. CASE a.node # n \/ a.key # k
    <3>1. new[n].locks[k] = old[n].locks[k]
      BY <1>3, <2>2 DEF Changed
    <3>. QED BY <1>4, <2>1, <3>1
  <2>3. CASE a.node = n /\ a.key = k
    <3>1. new[n].locks[k] = LockAfter(how, old[n].locks[k], a)
      BY <1>3, <2>3 DEF Changed
    <3>2. \/ new[n].locks[k] = old[n].locks[k] \/ new[n].locks[k] = Free
          \/ new[n].locks[k] = a
      BY <1>1, <3>1 DEF LockAfter, Hows
    <3>. QED BY <1>0, <1>2, <1>4, <2>1, <2>3, <3>2
  <2>. QED BY <2>2, <2>3
<1>8. ASSUME NEW n \in D, NEW k \in Keys
      PROVE  /\ (\A j \in 1 .. i : as[j].node # n \/ as[j].key # k) =>
                  new[n].mem[k] = ns[n].mem[k] /\ new[n].locks[k] = ns[n].locks[k]
             /\ \/ new[n].locks[k] = ns[n].locks[k] \/ new[n].locks[k] = Free
                \/ \E j \in 1 .. i : /\ as[j].node = n /\ as[j].key = k
                                     /\ new[n].locks[k] = as[j]
  BY <1>6, <1>7, ZenonT(60)
<1>9. Kept(D, ns, as, i, new)
  BY <1>5, <1>8 DEF Kept
<1>. QED BY <1>2, <1>9

LEMMA DoneStep ==
  ASSUME NEW D, NEW ns, NEW how, NEW as, Doable(D, ns, how, as),
         \A j, l \in DOMAIN as : as[j].key = as[l].key => j = l,
         NEW i \in DOMAIN as, NEW old \in [D -> NodeRec],
         Kept(D, ns, as, i - 1, old), DoneAt(ns, how, as, i - 1, old)
  PROVE  DoneAt(ns, how, as, i, OnNode(how, old, as[i]))
<1>0. /\ i \in Nat /\ i \in 1 .. i /\ \A j \in 1 .. i : j # i => j \in 1 .. i - 1
      /\ \A j \in 1 .. i : j \in DOMAIN as
      /\ \A j \in 1 .. i - 1 : j # i /\ j \in DOMAIN as
  <2>1. PICK n \in Nat : n = Len(as) /\ DOMAIN as = 1 .. n
    BY LenProperties DEF Doable
  <2>2. i \in 1 .. n
    BY <2>1
  <2>3. /\ i \in Nat /\ i \in 1 .. i /\ \A j \in 1 .. i : j # i => j \in 1 .. i - 1
        /\ \A j \in 1 .. i : j \in 1 .. n
        /\ \A j \in 1 .. i - 1 : j # i /\ j \in 1 .. n
    BY <2>2
  <2>. QED BY <2>1, <2>3
<1>1. /\ as[i] \in AnyAtom /\ as[i].node \in D /\ how \in Hows
      /\ (how = "attached" => as[i] \in Atoms)
  BY AtomTyped
<1>a. as[i].key \in Keys
  BY <1>1 DEF AnyAtom
<1>2. PICK a, new : a = as[i] /\ new = OnNode(how, old, a)
  OBVIOUS
<1>3. /\ \A n \in D : n # a.node => new[n] = old[n]
      /\ Changed(how, old[a.node], a, new[a.node])
  <2>1. a \in AnyAtom /\ a.node \in D /\ (how = "attached" => a \in Atoms)
    BY <1>1, <1>2
  <2>2. /\ \A n \in D : n # a.node => OnNode(how, old, a)[n] = old[n]
        /\ Changed(how, old[a.node], a, OnNode(how, old, a)[a.node])
    BY <1>1, <2>1, OnNodeIs
  <2>. QED BY <1>2, <2>2
<1>4. ASSUME NEW j \in 1 .. i - 1
      PROVE  /\ new[as[j].node].locks[as[j].key] = old[as[j].node].locks[as[j].key]
             /\ new[as[j].node].mem[as[j].key] = old[as[j].node].mem[as[j].key]
  <2>1. as[j].key # a.key
    BY <1>0, <1>2, <1>4
  <2>2. as[j].node \in D /\ as[j].key \in Keys
    <3>1. j \in DOMAIN as
      BY <1>0, <1>4
    <3>2. as[j] \in AnyAtom /\ as[j].node \in D
      BY <3>1, AtomTyped
    <3>. QED BY <3>2 DEF AnyAtom
  <2>. QED BY <1>3, <2>1, <2>2 DEF Changed
<1>5. /\ old[a.node].locks[a.key] = ns[a.node].locks[a.key]
      /\ old[a.node].mem[a.key] = ns[a.node].mem[a.key]
  <2>1. \A j \in 1 .. i - 1 : as[j].key # a.key
    BY <1>0, <1>2
  <2>. QED BY <1>1, <1>2, <1>a, <2>1, ZenonT(60) DEF Kept
<1>6. ASSUME NEW j \in 1 .. i
      PROVE  /\ new[as[j].node].locks[as[j].key]
                  = LockAfter(how, ns[as[j].node].locks[as[j].key], as[j])
             /\ new[as[j].node].mem[as[j].key]
                  = IF how = "committed"
                    THEN MemAfter(ns[as[j].node].mem[as[j].key], as[j])
                    ELSE ns[as[j].node].mem[as[j].key]
  <2>1. CASE j = i
    BY <1>2, <1>3, <1>5, <2>1 DEF Changed
  <2>2. CASE j # i
    <3>1. j \in 1 .. i - 1
      BY <1>0, <2>2
    <3>. QED BY <1>4, <3>1 DEF DoneAt
  <2>. QED BY <2>1, <2>2
<1>7. DoneAt(ns, how, as, i, new)
  BY <1>6 DEF DoneAt
<1>. QED BY <1>2, <1>7

LEMMA RunLeaves ==
  ASSUME NEW D, NEW ns, NEW how, NEW as, Doable(D, ns, how, as),
         NEW f, Runs(f, ns, how, as)
  PROVE  /\ f[Len(as)] \in [D -> NodeRec]
         /\ Kept(D, ns, as, Len(as), f[Len(as)])
         /\ (\A j, l \in DOMAIN as : as[j].key = as[l].key => j = l) =>
              DoneAt(ns, how, as, Len(as), f[Len(as)])
<1>1. PICK n \in Nat : Ran(D, ns, how, as, f, n)
  BY RunIs
<1>3. /\ n = Len(as) /\ DOMAIN as = 1 .. n /\ f[0] = ns
      /\ \A i \in 1 .. n : i - 1 \in 0 .. n /\ f[i] = OnNode(how, f[i - 1], as[i])
      /\ \A i \in 0 .. n : f[i] \in [D -> NodeRec]
  BY <1>1 DEF Ran
<1>4. PICK G : G = {i \in 0 .. n : Kept(D, ns, as, i, f[i])}
  OBVIOUS
<1>7. n \in 0 .. n /\ 0 \in 0 .. n /\ \A i \in 1 .. n : i \in 0 .. n
  OBVIOUS
<1>5. \A i \in 0 .. n : i \in G
  <2>1. 0 \in G
    <3>1. Kept(D, ns, as, 0, f[0])
      BY <1>3 DEF Kept
    <3>. QED BY <1>4, <1>7, <3>1
  <2>2. ASSUME NEW i \in 1 .. n, i - 1 \in G PROVE i \in G
    <3>1. Kept(D, ns, as, i - 1, f[i - 1]) /\ f[i - 1] \in [D -> NodeRec]
      BY <1>3, <1>4, <2>2
    <3>2. i \in DOMAIN as /\ f[i] = OnNode(how, f[i - 1], as[i])
      BY <1>3
    <3>3. PICK old \in [D -> NodeRec] : old = f[i - 1]
      BY <3>1
    <3>4. Kept(D, ns, as, i - 1, old)
      BY <3>1, <3>3
    <3>5. Kept(D, ns, as, i, OnNode(how, old, as[i]))
      BY <3>2, <3>4, KeptStep
    <3>6. Kept(D, ns, as, i, f[i])
      BY <3>2, <3>3, <3>5
    <3>. QED BY <1>4, <1>7, <3>6
  <2>. QED BY <2>1, <2>2, UpTo
<1>6. ASSUME \A j, l \in DOMAIN as : as[j].key = as[l].key => j = l
      PROVE  DoneAt(ns, how, as, n, f[n])
  <2>0. PICK H : H = {i \in 0 .. n : DoneAt(ns, how, as, i, f[i])}
    OBVIOUS
  <2>1. 0 \in H
    <3>1. DoneAt(ns, how, as, 0, f[0])
      BY DEF DoneAt
    <3>. QED BY <1>7, <2>0, <3>1
  <2>2. ASSUME NEW i \in 1 .. n, i - 1 \in H PROVE i \in H
    <3>1. i - 1 \in 0 .. n /\ f[i - 1] \in [D -> NodeRec]
      BY <1>3
    <3>2. Kept(D, ns, as, i - 1, f[i - 1]) /\ DoneAt(ns, how, as, i - 1, f[i - 1])
      BY <1>4, <1>5, <2>0, <2>2, <3>1
    <3>3. i \in DOMAIN as /\ f[i] = OnNode(how, f[i - 1], as[i])
      BY <1>3
    <3>4. PICK old \in [D -> NodeRec] : old = f[i - 1]
      BY <3>1
    <3>5. Kept(D, ns, as, i - 1, old) /\ DoneAt(ns, how, as, i - 1, old)
      BY <3>2, <3>4
    <3>6. DoneAt(ns, how, as, i, OnNode(how, old, as[i]))
      BY <1>6, <3>3, <3>5, DoneStep
    <3>7. DoneAt(ns, how, as, i, f[i])
      BY <3>3, <3>4, <3>6
    <3>. QED BY <1>7, <2>0, <3>7
  <2>3. \A i \in 0 .. n : i \in H
    BY <2>1, <2>2, UpTo
  <2>. QED BY <1>7, <2>0, <2>3
<1>8. Kept(D, ns, as, n, f[n]) /\ f[n] \in [D -> NodeRec]
  BY <1>3, <1>4, <1>5, <1>7
<1>. QED BY <1>3, <1>6, <1>8

LEMMA ListLeaves ==
  ASSUME NEW how, NEW as, Doable(DOMAIN nodes, nodes, how, as)
  PROVE  /\ OnNodes(how, as) \in [DOMAIN nodes -> NodeRec]
         /\ Kept(DOMAIN nodes, nodes, as, Len(as), OnNodes(how, as))
         /\ (\A j, l \in DOMAIN as : as[j].key = as[l].key => j = l) =>
              DoneAt(nodes, how, as, Len(as), OnNodes(how, as))
<1>1. PICK ns, D : ns = nodes /\ D = DOMAIN nodes
  OBVIOUS
<1>2. Doable(D, ns, how, as)
  BY <1>1
<1>3. PICK f : Runs(f, nodes, how, as) /\ OnNodes(how, as) = f[Len(as)]
  BY OnNodesRuns
<1>4. Runs(f, ns, how, as)
  BY <1>1, <1>3
<1>5. /\ f[Len(as)] \in [D -> NodeRec]
      /\ Kept(D, ns, as, Len(as), f[Len(as)])
      /\ (\A j, l \in DOMAIN as : as[j].key = as[l].key => j = l) =>
           DoneAt(ns, how, as, Len(as), f[Len(as)])
  BY <1>2, <1>4, RunLeaves
<1>. QED BY <1>1, <1>3, <1>5

-----------------------------------------------------------------------------
(* The nodes and the lookups of a state.                                   *)

LEMMA Assumed ==
  /\ \A k \in Keys : k \in Nat /\ k # 0
  /\ IsFiniteSet(Keys \cup {0}) /\ Keys \cup {0} \subseteq Nat
  /\ \A D : D \subseteq Keys \cup {0} => IsFiniteSet(D) /\ D \subseteq Nat
<1>1. IsFiniteSet(Keys \cup {0})
  BY SSetAssumption, FS_AddElement
<1>2. ASSUME NEW D, D \subseteq Keys \cup {0} PROVE IsFiniteSet(D) /\ D \subseteq Nat
  <2>1. D \in SUBSET (Keys \cup {0})
    BY <1>2
  <2>2. IsFiniteSet(D)
    BY <1>1, <2>1, FS_Subset
  <2>. QED BY <1>2, <2>2, SSetAssumption
<1>3. \A k \in Keys : k \in Nat /\ k # 0
  BY SSetAssumption
<1>. QED BY <1>1, <1>2, <1>3

LEMMA AtomNotFree ==
  ASSUME NEW a \in Atoms
  PROVE  a # Free /\ a.txn \in Txns /\ a.txn # NoTxn /\ a.key \in Keys /\ a \in AnyAtom
BY SSetAssumption DEF Atoms, Free, AnyAtom

LEMMA Lookups ==
  ASSUME Shape
  PROVE  /\ \A k \in Keys : Floor(k) \in DOMAIN nodes
         /\ \A n \in DOMAIN nodes : nodes[n] \in NodeRec
         /\ \A k \in Keys : nodes[Floor(k)] \in NodeRec
         /\ \A n \in DOMAIN nodes, k \in Keys : nodes[n].locks[k] \in Atoms \cup {Free}
<1>1. PICK D : D = DOMAIN nodes /\ D # {} /\ D \subseteq Nat /\ IsFiniteSet(D)
  BY Assumed DEF Shape
<1>2. ASSUME NEW k \in Keys PROVE Floor(k) \in DOMAIN nodes
  <2>1. Seek(D, k) \in D
    BY <1>1, Assumed, SeekIs
  <2>. QED BY <1>1, <2>1, FloorIsSeek
<1>3. \A n \in DOMAIN nodes : nodes[n] \in NodeRec
  BY DEF Shape
<1>4. \A n \in DOMAIN nodes, k \in Keys : nodes[n].locks[k] \in Atoms \cup {Free}
  BY <1>3 DEF NodeRec
<1>. QED BY <1>2, <1>3, <1>4

LEMMA FloorSame ==
  ASSUME DOMAIN nodes' = DOMAIN nodes
  PROVE  \A k : Floor(k)' = Floor(k)
BY FloorIsSeek

\* Atoms for the nodes that lookups of their keys find leave what a node has
\* in reach.
LEMMA HomeKept ==
  ASSUME Shape, RangesHold, LocksHome, NEW as, NEW m,
         nodes' \in [DOMAIN nodes -> NodeRec],
         Kept(DOMAIN nodes, nodes, as, m, nodes'),
         \A i \in 1 .. m : Floor(as[i].key) = as[i].node
  PROVE  DOMAIN nodes' = DOMAIN nodes /\ RangesHold' /\ LocksHome'
<1>1. DOMAIN nodes' = DOMAIN nodes
  OBVIOUS
<1>2. \A k : Floor(k)' = Floor(k)
  BY <1>1, FloorSame
<1>3. ASSUME NEW n \in DOMAIN nodes, n # 0
      PROVE  n = Min(BlockKeys(nodes[n]))'
  <2>1. nodes'[n].blk = nodes[n].blk
    BY DEF Kept
  <2>2. BlockKeys(nodes[n])' = BlockKeys(nodes[n])
    BY <2>1 DEF BlockKeys
  <2>3. n = Min(BlockKeys(nodes[n]))
    BY <1>3 DEF RangesHold
  <2>. QED BY <2>2, <2>3
<1>4. ASSUME NEW n \in DOMAIN nodes, NEW k \in Keys,
             \/ nodes'[n].mem[k] # Absent \/ nodes'[n].blk[k] # Absent
             \/ nodes'[n].locks[k] # Free
      PROVE  Floor(k)' = n
  <2>0. nodes'[n].blk = nodes[n].blk
    BY DEF Kept
  <2>1. CASE \A j \in 1 .. m : as[j].node # n \/ as[j].key # k
    <3>1. nodes'[n].mem[k] = nodes[n].mem[k] /\ nodes'[n].locks[k] = nodes[n].locks[k]
      BY <2>1 DEF Kept
    <3>2. Floor(k) = n
      BY <1>4, <2>0, <3>1 DEF RangesHold
    <3>. QED BY <1>2, <3>2
  <2>2. CASE \E j \in 1 .. m : as[j].node = n /\ as[j].key = k
    BY <1>2, <2>2
  <2>. QED BY <2>1, <2>2
<1>5. RangesHold'
  BY <1>1, <1>3, <1>4 DEF RangesHold
<1>6. ASSUME NEW n \in DOMAIN nodes, NEW k \in Keys, nodes'[n].locks[k] # Free
      PROVE  nodes'[n].locks[k].node = n /\ nodes'[n].locks[k].key = k
  <2>1. \/ nodes'[n].locks[k] = nodes[n].locks[k]
        \/ \E j \in 1 .. m : /\ as[j].node = n /\ as[j].key = k
                             /\ nodes'[n].locks[k] = as[j]
    BY <1>6 DEF Kept
  <2>2. CASE nodes'[n].locks[k] = nodes[n].locks[k]
    <3>1. PICK l : l = nodes[n].locks[k]
      OBVIOUS
    <3>2. l.node = n /\ l.key = k
      BY <1>6, <2>2, <3>1 DEF LocksHome
    <3>. QED BY <2>2, <3>1, <3>2
  <2>3. CASE \E j \in 1 .. m : /\ as[j].node = n /\ as[j].key = k
                              /\ nodes'[n].locks[k] = as[j]
    BY <2>3
  <2>. QED BY <2>1, <2>2, <2>3
<1>7. LocksHome'
  BY <1>1, <1>6 DEF LocksHome
<1>. QED BY <1>1, <1>5, <1>7

-----------------------------------------------------------------------------
(* The steps preserve the invariant.                                       *)

LEMMA InitIInv == Init => IInv
<1>. SUFFICES ASSUME Init PROVE IInv
  OBVIOUS
<1>0. PICK nd : nd = NewNode(Nothing(Absent))
  OBVIOUS
<1>1. nodes = [n \in {0} |-> nd]
  BY <1>0 DEF Init
<1>2. /\ nd \in NodeRec
      /\ \A k \in Keys : nd.mem[k] = Absent /\ nd.blk[k] = Absent /\ nd.locks[k] = Free
  BY <1>0, SSetAssumption DEF NewNode, Nothing, NodeRec, Items
<1>3. DOMAIN nodes = {0} /\ nodes[0] = nd
  BY <1>1
<1>4. Shape
  <2>1. group \in [Txns -> Seq(Atoms)]
    BY EmptySeq DEF Init
  <2>2. nodes \in [DOMAIN nodes -> NodeRec]
    BY <1>1, <1>2
  <2>3. 0 \in 0 .. MaxAfter + 1 /\ 0 \in 0 .. MaxPending
    BY SSetAssumption
  <2>. QED BY <1>3, <2>1, <2>2, <2>3 DEF Init, Shape
<1>5. RangesHold /\ LocksHome
  BY <1>2, <1>3 DEF RangesHold, LocksHome
<1>6. AtomsHome
  BY DEF Init, AtomsHome
<1>7. Sound
  BY <1>2, <1>3 DEF Init, Sound, Listed, Unended, Owned
<1>. QED BY <1>4, <1>5, <1>6, <1>7 DEF IInv

LEMMA Counted ==
  ASSUME Shape, Running
  PROVE  /\ broken \in Nat /\ broken + 1 \in 0 .. MaxAfter + 1 /\ broken + 1 # 0
         /\ 0 \in 0 .. MaxAfter + 1 /\ (broken > 0 <=> broken # 0)
BY SSetAssumption DEF Shape, Running

\* The state without the nodes and the lists is the same.
LEMMA HomeSame ==
  ASSUME RangesHold, LocksHome, AtomsHome, nodes' = nodes, group' = group,
         reach \subseteq reach'
  PROVE  RangesHold' /\ LocksHome' /\ AtomsHome'
<1>1. \A k : Floor(k)' = Floor(k)
  BY FloorSame
<1>2. RangesHold'
  BY <1>1 DEF RangesHold, BlockKeys
<1>3. LocksHome'
  BY DEF LocksHome
<1>4. AtomsHome'
  BY <1>1 DEF AtomsHome
<1>. QED BY <1>2, <1>3, <1>4

LEMMA FailIInv ==
  ASSUME IInv, NEW x \in Txns \cup {NoTxn}, Open(x), Fail(x)
  PROVE  IInv'
<1>0. Shape /\ Running
  BY DEF IInv, Open
<1>1. broken' \in 0 .. MaxAfter + 1 /\ (broken' = 0 => broken = 0)
  BY <1>0, Counted DEF Fail, Meets
<1>2. Shape'
  BY <1>0, <1>1 DEF Shape, Fail
<1>3. RangesHold' /\ LocksHome' /\ AtomsHome'
  BY HomeSame DEF IInv, Fail
<1>4. ASSUME NEW y \in Txns, status[y] \in {"open", "failed"}
      PROVE  status'[y] \in {"open", "failed"}
  BY <1>0, <1>4 DEF Fail, Shape
<1>5. Sound'
  BY <1>1, <1>4 DEF IInv, Sound, Fail, Listed, Unended, Owned
<1>. QED BY <1>2, <1>3, <1>5 DEF IInv

\* A step that leaves everything but the count and the tasks meets a weakness.
LEMMA UpdateCorruptIInv ==
  ASSUME IInv, Running, corrupt' = TRUE, Meets(TRUE),
         UNCHANGED <<nodes, group, status, balance, pending, reach, tails>>
  PROVE  IInv'
<1>0. Shape
  BY DEF IInv
<1>1. broken' \in 0 .. MaxAfter + 1 /\ broken' # 0
  BY <1>0, Counted DEF Meets
<1>2. Shape'
  BY <1>0, <1>1 DEF Shape
<1>3. RangesHold' /\ LocksHome' /\ AtomsHome'
  BY HomeSame DEF IInv
<1>4. Sound'
  BY <1>1 DEF Sound
<1>. QED BY <1>2, <1>3, <1>4 DEF IInv

\* The tasks and the flag after a write.
LEMMA Scheduled ==
  ASSUME Shape, NEW flag \in BOOLEAN, Sched(flag)
  PROVE  balance' \in BOOLEAN /\ pending' \in 0 .. MaxPending
BY SSetAssumption DEF Shape, Sched

\* The atoms of a call, for the key k.
Call(x, k, as) ==
  /\ as \in Seq(AnyAtom)
  /\ \A i \in DOMAIN as : as[i].txn = x /\ as[i].key = k /\ as[i].node = Floor(k)

LEMMA CallDoable ==
  ASSUME Shape, NEW x \in Txns \cup {NoTxn}, NEW k \in Keys, NEW as, Call(x, k, as),
         NEW how \in Hows, how = "attached" => x \in Txns
  PROVE  /\ Doable(DOMAIN nodes, nodes, how, as)
         /\ \E n \in Nat : n = Len(as) /\ DOMAIN as = 1 .. n
         /\ \A i \in DOMAIN as : as[i] \in AnyAtom
<1>1. \A i \in DOMAIN as : as[i] \in AnyAtom
  BY LenProperties DEF Call
<1>2. \E n \in Nat : n = Len(as) /\ DOMAIN as = 1 .. n
  BY LenProperties DEF Call
<1>3. ASSUME NEW i \in DOMAIN as
      PROVE  as[i].node \in DOMAIN nodes /\ (how = "attached" => as[i] \in Atoms)
  <2>1. as[i].node \in DOMAIN nodes
    BY Lookups DEF Call
  <2>2. ASSUME how = "attached" PROVE as[i] \in Atoms
    BY <1>1, <2>2 DEF Call, AnyAtom, Atoms
  <2>. QED BY <2>1, <2>2
<1>4. nodes \in [DOMAIN nodes -> NodeRec] /\ as \in Seq(AnyAtom)
  BY DEF Shape, Call
<1>. QED BY <1>1, <1>2, <1>3, <1>4 DEF Doable

OneOf(as, l) == \E i \in DOMAIN as : l = as[i]

\* What the atoms of a call do.
LEMMA CallLeaves ==
  ASSUME IInv, NEW x \in Txns \cup {NoTxn}, NEW k \in Keys, NEW as, Call(x, k, as),
         NEW how \in Hows, how = "attached" => x \in Txns,
         nodes' = OnNodes(how, as)
  PROVE  /\ nodes' \in [DOMAIN nodes -> NodeRec] /\ DOMAIN nodes' = DOMAIN nodes
         /\ RangesHold' /\ LocksHome'
         /\ \A n \in DOMAIN nodes : nodes'[n].blk = nodes[n].blk
         /\ \A n \in DOMAIN nodes, j \in Keys : n # Floor(k) \/ j # k =>
              nodes'[n].mem[j] = nodes[n].mem[j] /\ nodes'[n].locks[j] = nodes[n].locks[j]
         /\ \/ nodes'[Floor(k)].locks[k] = nodes[Floor(k)].locks[k]
            \/ nodes'[Floor(k)].locks[k] = Free
            \/ OneOf(as, nodes'[Floor(k)].locks[k])
<1>0. Shape /\ RangesHold /\ LocksHome
  BY DEF IInv
<1>1. Doable(DOMAIN nodes, nodes, how, as)
  BY <1>0, CallDoable
<1>2. PICK m \in Nat : m = Len(as) /\ DOMAIN as = 1 .. m
  BY <1>0, CallDoable
<1>3. nodes' \in [DOMAIN nodes -> NodeRec] /\ Kept(DOMAIN nodes, nodes, as, m, nodes')
  BY <1>1, <1>2, ListLeaves
<1>4. \A i \in 1 .. m : as[i].key = k /\ as[i].node = Floor(k) /\ Floor(as[i].key) = as[i].node
  BY <1>2 DEF Call
<1>5. DOMAIN nodes' = DOMAIN nodes /\ RangesHold' /\ LocksHome'
  BY <1>0, <1>3, <1>4, HomeKept
<1>6. \A n \in DOMAIN nodes : nodes'[n].blk = nodes[n].blk
  BY <1>3 DEF Kept
<1>7. ASSUME NEW n \in DOMAIN nodes, NEW j \in Keys, n # Floor(k) \/ j # k
      PROVE  nodes'[n].mem[j] = nodes[n].mem[j] /\ nodes'[n].locks[j] = nodes[n].locks[j]
  <2>1. \A i \in 1 .. m : as[i].node # n \/ as[i].key # j
    BY <1>4, <1>7
  <2>. QED BY <1>3, <2>1 DEF Kept
<1>8. \/ nodes'[Floor(k)].locks[k] = nodes[Floor(k)].locks[k]
      \/ nodes'[Floor(k)].locks[k] = Free
      \/ OneOf(as, nodes'[Floor(k)].locks[k])
  <2>1. Floor(k) \in DOMAIN nodes
    BY <1>0, Lookups
  <2>. QED BY <1>2, <1>3, <2>1 DEF Kept, OneOf
<1>. QED BY <1>3, <1>5, <1>6, <1>7, <1>8

LEMMA WriteLeaves ==
  ASSUME IInv, NEW k \in Keys, Lock(k) = Free, NEW as, Call(NoTxn, k, as),
         nodes' = OnNodes("committed", as)
  PROVE  \A n \in DOMAIN nodes, j \in Keys : nodes'[n].locks[j] = nodes[n].locks[j]
<1>0. Shape /\ "committed" \in Hows /\ NoTxn \in Txns \cup {NoTxn}
  BY DEF IInv, Hows
<1>1. nodes' \in [DOMAIN nodes -> NodeRec]
  BY <1>0, CallLeaves
<1>a. \A n \in DOMAIN nodes, j \in Keys : n # Floor(k) \/ j # k =>
        nodes'[n].locks[j] = nodes[n].locks[j]
  BY <1>0, CallLeaves
<1>b. \/ nodes'[Floor(k)].locks[k] = nodes[Floor(k)].locks[k]
      \/ nodes'[Floor(k)].locks[k] = Free
      \/ OneOf(as, nodes'[Floor(k)].locks[k])
  BY <1>0, CallLeaves
<1>2. Floor(k) \in DOMAIN nodes
  BY <1>0, Lookups
<1>3. nodes'[Floor(k)].locks[k] \in Atoms \cup {Free}
  <2>1. nodes'[Floor(k)] \in NodeRec
    BY <1>1, <1>2
  <2>2. PICK nd \in NodeRec : nd = nodes'[Floor(k)]
    BY <2>1
  <2>3. nd.locks[k] \in Atoms \cup {Free}
    BY DEF NodeRec
  <2>. QED BY <2>2, <2>3
<1>4. \A i \in DOMAIN as : as[i] \notin Atoms
  BY SSetAssumption DEF Call, Atoms
<1>5. nodes'[Floor(k)].locks[k] = Free /\ nodes[Floor(k)].locks[k] = Free
  BY <1>b, <1>3, <1>4 DEF Lock, OneOf
<1>. QED BY <1>a, <1>5

LEMMA WriteIInv ==
  ASSUME IInv, Running, NEW k \in Keys, Lock(k) = Free, NEW as, Call(NoTxn, k, as),
         NEW flag \in BOOLEAN, Write(as, flag)
  PROVE  IInv'
<1>0. Shape /\ "committed" \in Hows /\ NoTxn \in Txns \cup {NoTxn}
  BY DEF IInv, Hows
<1>1. nodes' = OnNodes("committed", as)
  BY DEF Write
<1>2. nodes' \in [DOMAIN nodes -> NodeRec] /\ DOMAIN nodes' = DOMAIN nodes
  BY <1>0, <1>1, CallLeaves
<1>3. RangesHold' /\ LocksHome'
  BY <1>0, <1>1, CallLeaves
<1>4. \A n \in DOMAIN nodes, j \in Keys : nodes'[n].locks[j] = nodes[n].locks[j]
  BY <1>1, WriteLeaves
<1>5. broken' \in 0 .. MaxAfter + 1 /\ (broken' = 0 => broken = 0)
  BY <1>0, Counted DEF Write, Meets
<1>6. Shape'
  <2>1. balance' \in BOOLEAN /\ pending' \in 0 .. MaxPending
    BY <1>0, Scheduled DEF Write
  <2>. QED BY <1>0, <1>2, <1>5, <2>1 DEF Shape, Write
<1>7. AtomsHome'
  BY <1>2, FloorSame DEF IInv, AtomsHome, Write
<1>8. ASSUME broken' = 0 PROVE Listed' /\ Unended' /\ Owned'
  <2>1. broken = 0 /\ UNCHANGED <<group, status>> /\ reach = {}
    BY <1>5, <1>8 DEF Write, IInv, Sound
  <2>2. Listed /\ Unended /\ Owned
    BY <2>1 DEF IInv, Sound
  <2>3. ASSUME NEW x \in Txns, NEW i \in DOMAIN group[x]
        PROVE  nodes'[group[x][i].node].locks[group[x][i].key] = group[x][i]
    <3>1. nodes[group[x][i].node].locks[group[x][i].key] = group[x][i]
      BY <2>2 DEF Listed
    <3>2. group[x][i] \in Atoms
      BY <1>0, LenProperties DEF Shape
    <3>3. group[x][i].node \in DOMAIN nodes
      BY <2>1 DEF IInv, AtomsHome
    <3>. QED BY <1>4, <3>1, <3>2, <3>3, AtomNotFree
  <2>4. Listed'
    BY <2>1, <2>2, <2>3 DEF Listed
  <2>5. Unended'
    BY <2>1, <2>2 DEF Unended
  <2>6. Owned'
    <3>. SUFFICES ASSUME NEW n \in DOMAIN nodes, NEW j \in Keys, nodes'[n].locks[j] # Free
                  PROVE  \E i \in DOMAIN group[nodes'[n].locks[j].txn] :
                           group[nodes'[n].locks[j].txn][i] = nodes'[n].locks[j]
      BY <1>2, <2>1 DEF Owned
    <3>1. nodes'[n].locks[j] = nodes[n].locks[j]
      BY <1>4
    <3>. QED BY <2>2, <3>1 DEF Owned
  <2>. QED BY <2>4, <2>5, <2>6
<1>9. Sound'
  BY <1>5, <1>8 DEF IInv, Sound, Write
<1>. QED BY <1>3, <1>6, <1>7, <1>9 DEF IInv

\* The elements of two lists in one: c is where those of the second are.
Joined(s, t, c, st) ==
  /\ \A i \in DOMAIN s : i \in DOMAIN st /\ st[i] = s[i]
  /\ \A j \in DOMAIN t : c[j] \in DOMAIN st /\ st[c[j]] = t[j]
  /\ \A i \in DOMAIN st : i \in DOMAIN s \/ \E j \in DOMAIN t : i = c[j]

LEMMA ConcatIs ==
  ASSUME NEW S, NEW s \in Seq(S), NEW t \in Seq(S)
  PROVE  s \o t \in Seq(S) /\ \E c : Joined(s, t, c, s \o t)
<1>1. PICK m \in Nat, n \in Nat : m = Len(s) /\ n = Len(t)
  BY LenProperties
<1>2. DOMAIN s = 1 .. m /\ DOMAIN t = 1 .. n
  BY <1>1, LenProperties
<1>3. /\ s \o t \in Seq(S) /\ Len(s \o t) = m + n
      /\ \A i \in 1 .. m + n : (s \o t)[i] = IF i <= m THEN s[i] ELSE t[i - m]
  BY <1>1, ConcatProperties
<1>4. DOMAIN (s \o t) = 1 .. m + n
  BY <1>3, LenProperties
<1>5. PICK c, st : c = [j \in 1 .. n |-> m + j] /\ st = s \o t
  OBVIOUS
<1>6. \A i \in 1 .. m : i \in 1 .. m + n /\ st[i] = s[i]
  BY <1>3, <1>5
<1>7. ASSUME NEW j \in 1 .. n PROVE c[j] \in 1 .. m + n /\ st[c[j]] = t[j]
  <2>1. m + j \in 1 .. m + n /\ ~(m + j <= m) /\ (m + j) - m = j /\ c[j] = m + j
    BY <1>5
  <2>. QED BY <1>3, <1>5, <2>1
<1>8. ASSUME NEW i \in 1 .. m + n PROVE i \in 1 .. m \/ \E j \in 1 .. n : i = c[j]
  <2>1. CASE i <= m
    BY <2>1
  <2>2. CASE ~(i <= m)
    <3>1. i - m \in 1 .. n /\ i = m + (i - m)
      BY <2>2
    <3>. QED BY <1>5, <3>1
  <2>. QED BY <2>1, <2>2
<1>9. Joined(s, t, c, st)
  <2>1. DOMAIN st = 1 .. m + n
    BY <1>4, <1>5
  <2>. QED BY <1>2, <1>6, <1>7, <1>8, <2>1 DEF Joined
<1>. QED BY <1>3, <1>5, <1>9

\* A key that is not locked has no atom in a list.
LEMMA FreeUnlisted ==
  ASSUME IInv, broken = 0, NEW k \in Keys, Lock(k) = Free,
         NEW x \in Txns, NEW i \in DOMAIN group[x]
  PROVE  group[x][i].key # k /\ group[x][i].node \in DOMAIN nodes /\ group[x][i] \in Atoms
<1>1. group[x][i] \in Atoms
  BY LenProperties DEF IInv, Shape
<1>2. reach = {} /\ Listed
  BY DEF IInv, Sound
<1>3. /\ group[x][i].node \in DOMAIN nodes
      /\ Floor(group[x][i].key) = group[x][i].node
  BY <1>2 DEF IInv, AtomsHome
<1>4. ASSUME group[x][i].key = k PROVE FALSE
  <2>1. Lock(k) = group[x][i]
    BY <1>2, <1>3, <1>4 DEF Listed, Lock
  <2>. QED BY <1>1, <2>1, AtomNotFree
<1>. QED BY <1>1, <1>3, <1>4

\* A call with one atom locks its key.
LEMMA CallLocks ==
  ASSUME IInv, NEW x \in Txns, NEW k \in Keys, NEW as, Call(x, k, as),
         ~(Len(as) > 1), nodes' = OnNodes("attached", as)
  PROVE  /\ \A i \in DOMAIN as : nodes'[Floor(k)].locks[k] = as[i]
         /\ \A i, j \in DOMAIN as : i = j
<1>0. Shape /\ "attached" \in Hows /\ x \in Txns \cup {NoTxn}
  BY DEF IInv, Hows
<1>1. Doable(DOMAIN nodes, nodes, "attached", as)
  BY <1>0, CallDoable
<1>2. PICK m \in Nat : m = Len(as) /\ DOMAIN as = 1 .. m
  BY <1>0, CallDoable
<1>3. \A i, j \in DOMAIN as : i = j
  <2>1. ~(m > 1)
    BY <1>2
  <2>2. \A i, j \in 1 .. m : i = j
    BY <2>1
  <2>. QED BY <1>2, <2>2
<1>4. DoneAt(nodes, "attached", as, m, nodes')
  BY <1>1, <1>2, <1>3, ListLeaves
<1>5. ASSUME NEW i \in DOMAIN as PROVE nodes'[Floor(k)].locks[k] = as[i]
  <2>1. as[i].key = k /\ as[i].node = Floor(k) /\ i \in 1 .. m
    BY <1>2 DEF Call
  <2>. QED BY <1>4, <2>1 DEF DoneAt, LockAfter
<1>. QED BY <1>3, <1>5

LEMMA TxnWriteSound ==
  ASSUME IInv, NEW x \in Txns, Open(x), NEW k \in Keys, Lock(k) = Free, NEW as,
         Call(x, k, as), \A i \in DOMAIN as : Meant(as[i]),
         NEW flag \in BOOLEAN, TxnWrite(x, as, flag), broken = 0, ~(Len(as) > 1)
  PROVE  Listed' /\ Unended' /\ Owned'
<1>0. /\ Shape /\ Listed /\ Unended /\ Owned
      /\ "attached" \in Hows /\ x \in Txns \cup {NoTxn}
  BY DEF IInv, Sound, Hows
<1>1. nodes' = OnNodes("attached", as)
  BY DEF TxnWrite
<1>2. nodes' \in [DOMAIN nodes -> NodeRec] /\ DOMAIN nodes' = DOMAIN nodes
  BY <1>0, <1>1, CallLeaves
<1>3. \A n \in DOMAIN nodes, j \in Keys : n # Floor(k) \/ j # k =>
        nodes'[n].locks[j] = nodes[n].locks[j]
  BY <1>0, <1>1, CallLeaves
<1>4. \/ nodes'[Floor(k)].locks[k] = nodes[Floor(k)].locks[k]
      \/ nodes'[Floor(k)].locks[k] = Free
      \/ OneOf(as, nodes'[Floor(k)].locks[k])
  BY <1>0, <1>1, CallLeaves
<1>5. /\ \A i \in DOMAIN as : nodes'[Floor(k)].locks[k] = as[i]
      /\ \A i, j \in DOMAIN as : i = j
  BY <1>1, CallLocks
<1>6. PICK g, ng : g = group[x] /\ ng = g \o as
  OBVIOUS
<1>7. g \in Seq(AnyAtom) /\ as \in Seq(AnyAtom)
  <2>1. g \in Seq(Atoms)
    BY <1>0, <1>6 DEF Shape
  <2>2. \A a \in Atoms : a \in AnyAtom
    BY AtomNotFree
  <2>3. PICK m \in Nat : g \in [1 .. m -> Atoms]
    BY <2>1
  <2>4. g \in [1 .. m -> AnyAtom]
    BY <2>2, <2>3
  <2>5. g \in Seq(AnyAtom)
    BY <2>4
  <2>. QED BY <2>5 DEF Call
<1>b. PICK c : Joined(g, as, c, ng)
  <2>1. \E c : Joined(g, as, c, g \o as)
    BY <1>7, ConcatIs
  <2>. QED BY <1>6, <2>1
<1>8. /\ \A i \in DOMAIN g : i \in DOMAIN ng /\ ng[i] = g[i]
      /\ \A j \in DOMAIN as : c[j] \in DOMAIN ng /\ ng[c[j]] = as[j]
      /\ \A i \in DOMAIN ng : i \in DOMAIN g \/ \E j \in DOMAIN as : i = c[j]
  BY <1>b DEF Joined
<1>9. group' = [group EXCEPT ![x] = ng] /\ UNCHANGED status
  BY <1>6 DEF TxnWrite
<1>a. group'[x] = ng /\ \A y \in Txns : y # x => group'[y] = group[y]
  BY <1>0, <1>9 DEF Shape
<1>10. ASSUME NEW y \in Txns, NEW i \in DOMAIN group[y]
       PROVE  /\ group[y][i].key # k
              /\ nodes'[group[y][i].node].locks[group[y][i].key] = group[y][i]
  <2>1. group[y][i].key # k /\ group[y][i].node \in DOMAIN nodes /\ group[y][i] \in Atoms
    BY FreeUnlisted
  <2>2. group[y][i].key \in Keys
    BY <2>1, AtomNotFree
  <2>. QED BY <1>0, <1>3, <2>1, <2>2 DEF Listed
<1>c. ASSUME NEW i \in DOMAIN g
      PROVE  /\ g[i].txn = x /\ nodes'[g[i].node].locks[g[i].key] = g[i]
             /\ Meant(g[i])
             /\ g[i].key # k
             /\ \A j \in DOMAIN g : g[i].key = g[j].key => i = j
  <2>1. i \in DOMAIN group[x] /\ group[x][i] = g[i]
    BY <1>6
  <2>2. g[i].key # k /\ nodes'[g[i].node].locks[g[i].key] = g[i]
    BY <1>10, <2>1
  <2>3. /\ g[i].txn = x /\ Meant(g[i])
        /\ \A j \in DOMAIN group[x] : g[i].key = group[x][j].key => i = j
    BY <1>0, <2>1 DEF Listed
  <2>. QED BY <1>6, <2>2, <2>3
<1>11. ASSUME NEW i \in DOMAIN ng
       PROVE  /\ ng[i].txn = x /\ nodes'[ng[i].node].locks[ng[i].key] = ng[i]
              /\ Meant(ng[i])
              /\ \A j \in DOMAIN ng : ng[i].key = ng[j].key => i = j
  <2>1. CASE i \in DOMAIN g
    <3>1. /\ ng[i].txn = x /\ nodes'[ng[i].node].locks[ng[i].key] = ng[i]
          /\ Meant(ng[i])
          /\ ng[i].key # k
      BY <1>8, <1>c, <2>1
    <3>2. ASSUME NEW j \in DOMAIN ng, ng[i].key = ng[j].key PROVE i = j
      <4>1. CASE j \in DOMAIN g
        BY <1>8, <1>c, <2>1, <3>2, <4>1
      <4>2. CASE \E l \in DOMAIN as : j = c[l]
        <5>0. PICK l \in DOMAIN as : j = c[l]
          BY <4>2
        <5>1. ng[j] = as[l] /\ as[l].key = k
          BY <1>8, <5>0 DEF Call
        <5>. QED BY <3>1, <3>2, <5>1
      <4>. QED BY <1>8, <4>1, <4>2
    <3>. QED BY <3>1, <3>2
  <2>2. CASE \E l \in DOMAIN as : i = c[l]
    <3>0. PICK l \in DOMAIN as : i = c[l]
      BY <2>2
    <3>1. ng[i] = as[l] /\ as[l].key = k /\ as[l].node = Floor(k) /\ as[l].txn = x
      BY <1>8, <3>0 DEF Call
    <3>2. ASSUME NEW j \in DOMAIN ng, ng[i].key = ng[j].key PROVE i = j
      <4>1. CASE j \in DOMAIN g
        BY <1>8, <1>c, <3>1, <3>2, <4>1
      <4>2. CASE \E h \in DOMAIN as : j = c[h]
        BY <1>5, <3>0, <4>2
      <4>. QED BY <1>8, <4>1, <4>2
    <3>3. nodes'[ng[i].node].locks[ng[i].key] = ng[i]
      BY <1>5, <3>1
    <3>. QED BY <3>1, <3>2, <3>3
  <2>. QED BY <1>8, <2>1, <2>2
<1>12. Listed'
  <2>. SUFFICES ASSUME NEW y \in Txns, NEW i \in DOMAIN group'[y]
                PROVE  /\ group'[y][i].txn = y
                       /\ nodes'[group'[y][i].node].locks[group'[y][i].key] = group'[y][i]
                       /\ Meant(group'[y][i])
                       /\ \A j \in DOMAIN group'[y] :
                            group'[y][i].key = group'[y][j].key => i = j
    BY DEF Listed
  <2>1. CASE y = x
    BY <1>11, <1>a, <2>1
  <2>2. CASE y # x
    <3>1. group'[y] = group[y]
      BY <1>a, <2>2
    <3>. QED BY <1>0, <1>10, <3>1 DEF Listed
  <2>. QED BY <2>1, <2>2
<1>13. Unended'
  <2>1. status[x] \in {"open", "failed"}
    BY DEF Open
  <2>. QED BY <1>0, <1>9, <1>a, <2>1 DEF Unended
<1>14. Owned'
  <2>. SUFFICES ASSUME NEW n \in DOMAIN nodes, NEW j \in Keys, nodes'[n].locks[j] # Free
                PROVE  \E i \in DOMAIN group'[nodes'[n].locks[j].txn] :
                         group'[nodes'[n].locks[j].txn][i] = nodes'[n].locks[j]
    BY <1>2 DEF Owned
  <2>0. PICK l : l = nodes'[n].locks[j]
    OBVIOUS
  <2>1. CASE n # Floor(k) \/ j # k
    <3>1. l = nodes[n].locks[j] /\ l # Free
      BY <1>3, <2>0, <2>1
    <3>2. l \in Atoms
      BY <1>0, <3>1, Lookups
    <3>3. PICK i \in DOMAIN group[l.txn] : group[l.txn][i] = l
      BY <1>0, <3>1 DEF Owned
    <3>4. l.txn \in Txns
      BY <3>2, AtomNotFree
    <3>5. i \in DOMAIN group'[l.txn] /\ group'[l.txn][i] = l
      <4>1. CASE l.txn = x
        BY <1>6, <1>8, <1>a, <3>3, <4>1
      <4>2. CASE l.txn # x
        BY <1>a, <3>3, <3>4, <4>2
      <4>. QED BY <4>1, <4>2
    <3>. QED BY <2>0, <3>5
  <2>2. CASE n = Floor(k) /\ j = k
    <3>1. OneOf(as, l)
      BY <1>4, <2>0, <2>2 DEF Lock
    <3>2. PICK h \in DOMAIN as : l = as[h]
      BY <3>1 DEF OneOf
    <3>3. l.txn = x
      BY <3>2 DEF Call
    <3>4. c[h] \in DOMAIN ng /\ ng[c[h]] = l
      BY <1>8, <3>2
    <3>5. \E i \in DOMAIN group'[l.txn] : group'[l.txn][i] = l
      BY <1>a, <3>3, <3>4
    <3>. QED BY <2>0, <3>5
  <2>. QED BY <2>1, <2>2
<1>. QED BY <1>12, <1>13, <1>14

LEMMA InSeq ==
  ASSUME NEW S, NEW m \in Nat, NEW b \in [1 .. m -> S]
  PROVE  b \in Seq(S)
OBVIOUS

LEMMA OneSeq ==
  ASSUME NEW S, NEW b \in S
  PROVE  <<>> \in Seq(S) /\ <<b>> \in Seq(S)
OBVIOUS

LEMMA TxnWriteIInv ==
  ASSUME IInv, NEW x \in Txns, Open(x), NEW k \in Keys, Lock(k) = Free, NEW as,
         Call(x, k, as), \A i \in DOMAIN as : Meant(as[i]),
         NEW flag \in BOOLEAN, TxnWrite(x, as, flag)
  PROVE  IInv'
<1>0. Shape /\ Running /\ "attached" \in Hows /\ x \in Txns \cup {NoTxn}
  BY DEF IInv, Open, Hows
<1>1. nodes' = OnNodes("attached", as)
  BY DEF TxnWrite
<1>2. nodes' \in [DOMAIN nodes -> NodeRec] /\ DOMAIN nodes' = DOMAIN nodes
  BY <1>0, <1>1, CallLeaves
<1>3. RangesHold' /\ LocksHome'
  BY <1>0, <1>1, CallLeaves
<1>4. /\ broken' \in 0 .. MaxAfter + 1
      /\ broken' = 0 => broken = 0 /\ ~corrupt' /\ ~(Len(as) > 1)
  BY <1>0, Counted DEF TxnWrite, Meets
<1>5. PICK g, ng : g = group[x] /\ ng = g \o as
  OBVIOUS
<1>6. g \in Seq(Atoms) /\ as \in Seq(Atoms)
  <2>1. PICK m \in Nat : m = Len(as) /\ DOMAIN as = 1 .. m
    BY <1>0, CallDoable
  <2>2. \A i \in 1 .. m : as[i] \in Atoms
    <3>1. Doable(DOMAIN nodes, nodes, "attached", as)
      BY <1>0, CallDoable
    <3>. QED BY <2>1, <3>1 DEF Doable
  <2>3. as = [i \in 1 .. m |-> as[i]]
    <3>1. as \in [1 .. m -> AnyAtom]
      BY <2>1, LenProperties DEF Call
    <3>. QED BY <3>1
  <2>4. as \in [1 .. m -> Atoms]
    BY <2>2, <2>3
  <2>5. as \in Seq(Atoms)
    BY <2>4, InSeq
  <2>. QED BY <1>0, <1>5, <2>5 DEF Shape
<1>7. ng \in Seq(Atoms)
  BY <1>5, <1>6, ConcatProperties
<1>8. PICK c : Joined(g, as, c, ng)
  <2>1. \E c : Joined(g, as, c, g \o as)
    BY <1>6, ConcatIs
  <2>. QED BY <1>5, <2>1
<1>9. group' = [group EXCEPT ![x] = ng]
  BY <1>5 DEF TxnWrite
<1>a. group'[x] = ng /\ \A y \in Txns : y # x => group'[y] = group[y]
  BY <1>0, <1>9 DEF Shape
<1>10. Shape'
  <2>1. balance' \in BOOLEAN /\ pending' \in 0 .. MaxPending
    BY <1>0, Scheduled DEF TxnWrite
  <2>2. group' \in [Txns -> Seq(Atoms)]
    BY <1>0, <1>7, <1>9 DEF Shape
  <2>3. reach' \subseteq Txns /\ UNCHANGED <<status, tails>>
    BY <1>0 DEF Shape, TxnWrite
  <2>4. corrupt' \in BOOLEAN
    <3>1. corrupt' = (x \in tails)
      BY DEF TxnWrite
    <3>2. (x \in tails) \in BOOLEAN
      OBVIOUS
    <3>. QED BY <3>1, <3>2
  <2>. QED BY <1>0, <1>2, <1>4, <2>1, <2>2, <2>3, <2>4 DEF Shape
<1>11. AtomsHome'
  <2>. SUFFICES ASSUME NEW y \in Txns, y \notin reach', NEW i \in DOMAIN group'[y]
                PROVE  /\ group'[y][i].node \in DOMAIN nodes
                       /\ Floor(group'[y][i].key) = group'[y][i].node
    BY <1>2, FloorSame DEF AtomsHome
  <2>0. y \notin reach
    BY DEF TxnWrite
  <2>h. \A l \in DOMAIN group[y] : /\ group[y][l].node \in DOMAIN nodes
                                   /\ Floor(group[y][l].key) = group[y][l].node
    BY <2>0 DEF IInv, AtomsHome
  <2>1. CASE y # x
    BY <1>a, <2>h, <2>1
  <2>2. CASE y = x
    <3>0. group'[y] = ng /\ group[y] = g
      BY <1>5, <1>a, <2>2
    <3>1. CASE i \in DOMAIN g
      <4>1. group'[y][i] = group[y][i] /\ i \in DOMAIN group[y]
        BY <1>8, <3>0, <3>1 DEF Joined
      <4>. QED BY <2>h, <4>1
    <3>2. CASE i \notin DOMAIN g
      <4>1. PICK j \in DOMAIN as : i = c[j]
        BY <1>8, <3>0, <3>2 DEF Joined
      <4>2. group'[y][i] = as[j]
        BY <1>8, <3>0, <4>1 DEF Joined
      <4>3. as[j].key = k /\ as[j].node = Floor(k) /\ Floor(k) \in DOMAIN nodes
        BY <1>0, Lookups DEF Call
      <4>. QED BY <4>2, <4>3
    <3>. QED BY <3>1, <3>2
  <2>. QED BY <2>1, <2>2
<1>12. Sound'
  <2>. SUFFICES ASSUME broken' = 0 PROVE Sound'
    BY DEF Sound
  <2>1. broken = 0 /\ ~corrupt' /\ ~(Len(as) > 1)
    BY <1>4
  <2>2. Listed' /\ Unended' /\ Owned'
    BY <2>1, TxnWriteSound
  <2>3. reach' = {} /\ tails' = {}
    BY <2>1 DEF TxnWrite, IInv, Sound
  <2>. QED BY <2>1, <2>2, <2>3 DEF Sound
<1>. QED BY <1>3, <1>10, <1>11, <1>12 DEF IInv

\* The lists that a replacement makes.
LEMMA ReplacedIn ==
  ASSUME NEW U, NEW g \in Seq(U), NEW new \in Seq(U), NEW a \in U, NEW i \in DOMAIN g
  PROVE  (IF i = 1 THEN <<a>> \o new \o Tail(g)
          ELSE SubSeq(g, 1, i - 1) \o new \o SubSeq(g, i + 1, Len(g))) \in Seq(U)
<1>1. PICK n \in Nat : n = Len(g) /\ DOMAIN g = 1 .. n
  BY LenProperties
<1>2. i \in 1 .. n
  BY <1>1
<1>3. \A s, t \in Seq(U) : s \o t \in Seq(U)
  BY ConcatProperties
<1>4. CASE i = 1
  <2>1. g # <<>>
    BY <1>1, <1>2
  <2>2. Tail(g) \in Seq(U)
    BY <2>1, HeadTailProperties
  <2>3. <<a>> \in Seq(U)
    OBVIOUS
  <2>. QED BY <1>3, <1>4, <2>2, <2>3
<1>5. CASE i # 1
  <2>1. SubSeq(g, 1, i - 1) \in Seq(U)
    <3>1. \A j \in 1 .. i - 1 : j \in 1 .. n
      BY <1>2
    <3>. QED BY <1>1, <1>2, <3>1, SubSeqProperties
  <2>2. SubSeq(g, i + 1, Len(g)) \in Seq(U)
    BY <1>1, <1>2, SubSeqProperties
  <2>. QED BY <1>3, <1>5, <2>1, <2>2
<1>. QED BY <1>4, <1>5

LEMMA OneKept ==
  ASSUME NEW D, NEW ns \in [D -> NodeRec], NEW a \in AnyAtom, a.node \in D,
         NEW how \in Hows, how = "attached" => a \in Atoms
  PROVE  \E as : as[1] = a /\ Kept(D, ns, as, 1, OnNode(how, ns, a))
<1>1. PICK as : as = <<a>>
  OBVIOUS
<1>2. as \in Seq(AnyAtom) /\ DOMAIN as = {1} /\ as[1] = a /\ Len(as) = 1
  BY <1>1
<1>3. Doable(D, ns, how, as) /\ 1 \in DOMAIN as
  BY <1>2 DEF Doable
<1>4. Kept(D, ns, as, 1 - 1, ns)
  BY DEF Kept
<1>5. Kept(D, ns, as, 1, OnNode(how, ns, as[1]))
  BY <1>3, <1>4, KeptStep
<1>. QED BY <1>2, <1>5

\* The lists after a replacement.
LEMMA ReplacedLists ==
  ASSUME Shape, AtomsHome, NEW x \in Txns, NEW a \in Atoms, a \in Range(group[x]),
         NEW b \in Atoms, b.node = a.node, b.key = a.key,
         a.node \in DOMAIN nodes, Floor(a.key) = a.node,
         NEW new \in {<<>>, <<b>>}, Replaced(x, a, new)
  PROVE  /\ group' \in [Txns -> Seq(Atoms)] /\ reach \subseteq reach'
         /\ reach' \subseteq Txns /\ tails' \subseteq Txns
         /\ \A y \in Txns : y \notin reach' => \A i \in DOMAIN group'[y] :
              /\ group'[y][i].node \in DOMAIN nodes
              /\ Floor(group'[y][i].key) = group'[y][i].node
<1>1. PICK g, i : g = group[x] /\ i = CHOOSE j \in DOMAIN g : g[j] = a
  OBVIOUS
<1>2. g \in Seq(Atoms) /\ i \in DOMAIN g
  BY <1>1 DEF Shape, Range
<1>3. PICK ng : ng = IF i = 1 THEN <<a>> \o new \o Tail(g)
                     ELSE SubSeq(g, 1, i - 1) \o new \o SubSeq(g, i + 1, Len(g))
  OBVIOUS
<1>4. group' = [group EXCEPT ![x] = ng]
  BY <1>1, <1>3 DEF Replaced
<1>5. reach \subseteq reach' /\ reach' \subseteq Txns /\ tails' \subseteq Txns
  <2>1. reach' = reach \/ reach' = reach \cup {x}
    BY DEF Replaced
  <2>2. tails' = tails \/ tails' = tails \cup {x}
    BY DEF Replaced
  <2>. QED BY <2>1, <2>2 DEF Shape
<1>6. ASSUME NEW U, a \in U, b \in U, g \in Seq(U) PROVE ng \in Seq(U)
  <2>1. new \in Seq(U)
    BY <1>6, OneSeq
  <2>. QED BY <1>2, <1>3, <1>6, <2>1, ReplacedIn
<1>7. group' \in [Txns -> Seq(Atoms)]
  BY <1>2, <1>4, <1>6 DEF Shape
<1>8. ASSUME NEW y \in Txns, y \notin reach', NEW j \in DOMAIN group'[y]
      PROVE  /\ group'[y][j].node \in DOMAIN nodes
             /\ Floor(group'[y][j].key) = group'[y][j].node
  <2>0. y \notin reach
    BY <1>5, <1>8
  <2>1. CASE y # x
    <3>1. group'[y] = group[y]
      BY <1>4, <2>1 DEF Shape
    <3>. QED BY <1>8, <2>0, <3>1 DEF AtomsHome
  <2>2. CASE y = x
    <3>1. PICK U : U = {c \in Atoms : c.node \in DOMAIN nodes /\ Floor(c.key) = c.node}
      OBVIOUS
    <3>2. a \in U /\ b \in U
      BY <3>1
    <3>3. PICK n \in Nat : DOMAIN g = 1 .. n /\ g \in [1 .. n -> Atoms]
      BY <1>2, LenProperties
    <3>4. ASSUME NEW l \in 1 .. n PROVE g[l] \in U
      <4>1. g[l].node \in DOMAIN nodes /\ Floor(g[l].key) = g[l].node
        BY <1>1, <2>0, <2>2, <3>3 DEF AtomsHome
      <4>. QED BY <3>1, <3>3, <4>1
    <3>5. g \in [1 .. n -> U]
      BY <3>3, <3>4
    <3>6. ng \in Seq(U)
      BY <1>6, <3>2, <3>5, InSeq
    <3>7. group'[y] = ng
      BY <1>4, <2>2 DEF Shape
    <3>8. group'[y][j] \in U
      BY <1>8, <3>6, <3>7, LenProperties
    <3>. QED BY <3>1, <3>8
  <2>. QED BY <2>1, <2>2
<1>. QED BY <1>5, <1>7, <1>8

LEMMA TxnUpdateIInv ==
  ASSUME IInv, NEW x \in Txns \cup {NoTxn}, Open(x), NEW k \in Keys, ~Locked(x, k),
         NEW a, a = Lock(k), a # Free, NEW type \in {"INSERT", "REMOVE"},
         NEW v \in Vals \cup {Deleted}, TxnUpdate(x, a, type, v)
  PROVE  IInv'
<1>0. Shape /\ RangesHold /\ LocksHome /\ AtomsHome /\ Running
  BY DEF IInv, Open
<1>1. Floor(k) \in DOMAIN nodes /\ a \in Atoms
  BY <1>0, Lookups DEF Lock
<1>2. a.node = Floor(k) /\ a.key = k
  BY <1>0, <1>1 DEF LocksHome, Lock
<1>3. a.txn = x /\ x \in Txns /\ a \in AnyAtom
  BY <1>1, AtomNotFree DEF Locked
<1>4. broken' \in 0 .. MaxAfter + 1 /\ broken' # 0
  BY <1>0, Counted DEF TxnUpdate, Meets
<1>5. Sound'
  BY <1>4 DEF Sound
<1>6. nodes' = OnNode("rolledback", nodes, a)
  BY DEF TxnUpdate
<1>7. PICK ns, D : ns = nodes /\ D = DOMAIN nodes
  OBVIOUS
<1>8. ns \in [D -> NodeRec] /\ a.node \in D /\ "rolledback" \in Hows
  BY <1>0, <1>1, <1>2, <1>7 DEF Shape, Hows
<1>9. OnNode("rolledback", ns, a) \in [D -> NodeRec]
  BY <1>3, <1>8, OnNodeIs
<1>10. PICK as : as[1] = a /\ Kept(D, ns, as, 1, OnNode("rolledback", ns, a))
  BY <1>3, <1>8, OneKept
<1>11. nodes' \in [DOMAIN nodes -> NodeRec] /\ Kept(DOMAIN nodes, nodes, as, 1, nodes')
  BY <1>6, <1>7, <1>9, <1>10
<1>12. DOMAIN nodes' = DOMAIN nodes /\ RangesHold' /\ LocksHome'
  <2>1. \A i \in 1 .. 1 : Floor(as[i].key) = as[i].node
    <3>1. Floor(a.key) = a.node
      BY <1>2
    <3>2. \A i \in 1 .. 1 : i = 1
      OBVIOUS
    <3>. QED BY <1>10, <3>1, <3>2
  <2>. QED BY <1>0, <1>11, <2>1, HomeKept
<1>13. /\ group' \in [Txns -> Seq(Atoms)]
       /\ reach' \subseteq Txns /\ tails' \subseteq Txns
       /\ \A y \in Txns : y \notin reach' => \A i \in DOMAIN group'[y] :
            /\ group'[y][i].node \in DOMAIN nodes
            /\ Floor(group'[y][i].key) = group'[y][i].node
  <2>1. CASE a \in Range(group[x])
    <3>1. PICK res : res = CASE type = "REMOVE" -> "REMOVE"
                             [] type # "REMOVE" /\ a.type = "REMOVE" -> "UPDATE"
                             [] OTHER -> "INSERT"
      OBVIOUS
    <3>2. res \in {"INSERT", "UPDATE", "REMOVE"}
      BY <3>1
    <3>3. PICK b : b = Atom(x, a.node, res, a.key, v)
      OBVIOUS
    <3>4. b \in Atoms /\ b.node = a.node /\ b.key = a.key
      BY <1>1, <1>3, <3>2, <3>3 DEF Atom, Atoms
    <3>5. PICK new \in {<<>>, <<b>>} : new = IF res = "REMOVE" THEN <<>> ELSE <<b>>
      OBVIOUS
    <3>6. Replaced(x, a, new)
      BY <2>1, <3>1, <3>3, <3>5 DEF TxnUpdate
    <3>. QED BY <1>0, <1>1, <1>2, <1>3, <2>1, <3>4, <3>6, ReplacedLists
  <2>2. CASE a \notin Range(group[x])
    <3>1. UNCHANGED <<group, reach, tails>>
      BY <2>2 DEF TxnUpdate
    <3>. QED BY <1>0, <3>1 DEF Shape, AtomsHome
  <2>. QED BY <2>1, <2>2
<1>14. AtomsHome'
  BY <1>12, <1>13, FloorSame DEF AtomsHome
<1>15. Shape'
  <2>1. balance' \in BOOLEAN /\ pending' \in 0 .. MaxPending
    <3>1. PICK flag : flag = balance
      OBVIOUS
    <3>2. Sched(flag) /\ flag \in BOOLEAN
      BY <1>0, <3>1 DEF TxnUpdate, Shape, Sched
    <3>. QED BY <1>0, <3>2, Scheduled
  <2>2. corrupt' \in BOOLEAN /\ UNCHANGED status
    BY <1>0 DEF TxnUpdate, Shape
  <2>. QED BY <1>0, <1>4, <1>11, <1>12, <1>13, <2>1, <2>2 DEF Shape
<1>. QED BY <1>5, <1>12, <1>14, <1>15 DEF IInv

\* What the end of a transaction does to the nodes.
LEMMA EndLeaves ==
  ASSUME IInv, NEW x \in Txns, x \notin reach, NEW how \in {"committed", "rolledback"},
         nodes' = OnNodes(how, group[x])
  PROVE  /\ nodes' \in [DOMAIN nodes -> NodeRec] /\ DOMAIN nodes' = DOMAIN nodes
         /\ RangesHold' /\ LocksHome'
         /\ \E g, m : /\ g = group[x] /\ DOMAIN g = 1 .. m
                      /\ Kept(DOMAIN nodes, nodes, g, m, nodes')
                      /\ broken = 0 => DoneAt(nodes, how, g, m, nodes')
<1>0. Shape /\ RangesHold /\ LocksHome /\ AtomsHome /\ how \in Hows /\ how # "attached"
  BY DEF IInv, Hows
<1>1. PICK g : g = group[x]
  OBVIOUS
<1>2. g \in Seq(Atoms)
  BY <1>0, <1>1 DEF Shape
<1>3. PICK m \in Nat : m = Len(g) /\ DOMAIN g = 1 .. m /\ g \in [1 .. m -> Atoms]
  BY <1>2, LenProperties
<1>4. g \in Seq(AnyAtom)
  <2>1. g \in [1 .. m -> AnyAtom]
    BY <1>3, AtomNotFree
  <2>. QED BY <2>1, InSeq
<1>5. \A i \in DOMAIN g : g[i].node \in DOMAIN nodes /\ Floor(g[i].key) = g[i].node
  BY <1>0, <1>1 DEF AtomsHome
<1>6. Doable(DOMAIN nodes, nodes, how, g)
  BY <1>0, <1>4, <1>5 DEF Doable, Shape
<1>7. nodes' = OnNodes(how, g)
  BY <1>1
<1>8. nodes' \in [DOMAIN nodes -> NodeRec] /\ Kept(DOMAIN nodes, nodes, g, m, nodes')
  BY <1>3, <1>6, <1>7, ListLeaves
<1>9. DOMAIN nodes' = DOMAIN nodes /\ RangesHold' /\ LocksHome'
  BY <1>0, <1>3, <1>5, <1>8, HomeKept
<1>10. ASSUME broken = 0 PROVE DoneAt(nodes, how, g, m, nodes')
  <2>1. \A i, j \in DOMAIN g : g[i].key = g[j].key => i = j
    BY <1>1, <1>10 DEF IInv, Sound, Listed
  <2>. QED BY <1>3, <1>6, <1>7, <2>1, ListLeaves
<1>. QED BY <1>1, <1>3, <1>8, <1>9, <1>10

\* Two lists have no key in common, and the end of a transaction frees what
\* it has locked and nothing else.
LEMMA EndLocks ==
  ASSUME IInv, broken = 0, NEW x \in Txns, NEW how \in {"committed", "rolledback"},
         nodes' = OnNodes(how, group[x])
  PROVE  \A n \in DOMAIN nodes, k \in Keys :
           /\ nodes[n].locks[k] # Free /\ nodes[n].locks[k].txn = x =>
                nodes'[n].locks[k] = Free
           /\ ~(nodes[n].locks[k] # Free /\ nodes[n].locks[k].txn = x) =>
                /\ nodes'[n].locks[k] = nodes[n].locks[k]
                /\ nodes'[n].mem[k] = nodes[n].mem[k]
<1>0. /\ Shape /\ LocksHome /\ AtomsHome /\ reach = {} /\ Listed /\ Owned
      /\ x \notin reach
  BY DEF IInv, Sound
<1>1. PICK g, m : /\ g = group[x] /\ DOMAIN g = 1 .. m
                  /\ Kept(DOMAIN nodes, nodes, g, m, nodes')
                  /\ DoneAt(nodes, how, g, m, nodes')
  BY <1>0, EndLeaves
<1>2. ASSUME NEW i \in DOMAIN g
      PROVE  /\ g[i] \in Atoms /\ g[i] # Free /\ g[i].txn = x /\ x # NoTxn
             /\ nodes[g[i].node].locks[g[i].key] = g[i]
  <2>1. g \in Seq(Atoms)
    BY <1>0, <1>1 DEF Shape
  <2>2. g[i] \in Atoms
    BY <2>1, LenProperties
  <2>3. g[i].txn = x /\ nodes[g[i].node].locks[g[i].key] = g[i]
    BY <1>0, <1>1 DEF Listed
  <2>. QED BY <2>2, <2>3, AtomNotFree
<1>3. ASSUME NEW n \in DOMAIN nodes, NEW k \in Keys,
             nodes[n].locks[k] # Free, nodes[n].locks[k].txn = x
      PROVE  nodes'[n].locks[k] = Free
  <2>0. nodes[n].locks[k].node = n /\ nodes[n].locks[k].key = k
    BY <1>0, <1>3 DEF LocksHome
  <2>1. PICK i \in DOMAIN g : g[i] = nodes[n].locks[k]
    BY <1>0, <1>1, <1>3 DEF Owned
  <2>2. g[i].node = n /\ g[i].key = k /\ i \in 1 .. m
    BY <1>1, <2>0, <2>1, SMTT(30)
  <2>3. nodes'[n].locks[k] = LockAfter(how, nodes[n].locks[k], g[i])
    BY <1>1, <2>2 DEF DoneAt
  <2>. QED BY <1>2, <2>3 DEF LockAfter
<1>4. ASSUME NEW n \in DOMAIN nodes, NEW k \in Keys,
             ~(nodes[n].locks[k] # Free /\ nodes[n].locks[k].txn = x)
      PROVE  /\ nodes'[n].locks[k] = nodes[n].locks[k]
             /\ nodes'[n].mem[k] = nodes[n].mem[k]
  <2>1. \A j \in 1 .. m : g[j].node # n \/ g[j].key # k
    BY <1>1, <1>2, <1>4
  <2>. QED BY <1>1, <2>1 DEF Kept
<1>. QED BY <1>3, <1>4

LEMMA EndIInv ==
  ASSUME IInv, NEW x \in Txns, NEW how \in {"committed", "rolledback"},
         NEW weak \in BOOLEAN, EndTxn(x, how, weak)
  PROVE  IInv'
<1>0. Shape /\ Running /\ RangesHold /\ LocksHome /\ AtomsHome
  BY DEF IInv, EndTxn
<1>1. broken' \in 0 .. MaxAfter + 1 /\ (broken' = 0 => broken = 0)
  BY <1>0, Counted DEF EndTxn, Meets
<1>2. nodes' \in [DOMAIN nodes -> NodeRec] /\ DOMAIN nodes' = DOMAIN nodes
  <2>1. CASE x \in reach
    BY <1>0, <2>1 DEF EndTxn, Shape
  <2>2. CASE x \notin reach
    BY <2>2, EndLeaves DEF EndTxn
  <2>. QED BY <2>1, <2>2
<1>3. RangesHold' /\ LocksHome'
  <2>1. CASE x \in reach
    <3>1. nodes' = nodes
      BY <2>1 DEF EndTxn
    <3>2. \A k : Floor(k)' = Floor(k)
      BY <1>2, FloorSame
    <3>3. RangesHold'
      BY <1>0, <3>1, <3>2 DEF RangesHold, BlockKeys
    <3>4. LocksHome'
      BY <1>0, <3>1 DEF LocksHome
    <3>. QED BY <3>3, <3>4
  <2>2. CASE x \notin reach
    BY <2>2, EndLeaves DEF EndTxn
  <2>. QED BY <2>1, <2>2
<1>4. group' = [group EXCEPT ![x] = <<>>]
  BY DEF EndTxn
<1>5. group'[x] = <<>> /\ \A y \in Txns : y # x => group'[y] = group[y]
  BY <1>0, <1>4 DEF Shape
<1>6. Shape'
  <2>1. group' \in [Txns -> Seq(Atoms)]
    BY <1>0, <1>4, EmptySeq DEF Shape
  <2>2. corrupt' \in BOOLEAN
    <3>1. corrupt' = (x \in reach)
      BY DEF EndTxn
    <3>2. (x \in reach) \in BOOLEAN
      OBVIOUS
    <3>. QED BY <3>1, <3>2
  <2>3. /\ status' \in [Txns -> {"open", "failed", "committed", "rolledback"}]
        /\ reach' \subseteq Txns /\ tails' \subseteq Txns
        /\ UNCHANGED <<balance, pending>>
    BY <1>0 DEF EndTxn, Shape
  <2>. QED BY <1>0, <1>1, <1>2, <2>1, <2>2, <2>3 DEF Shape
<1>7. AtomsHome'
  <2>. SUFFICES ASSUME NEW y \in Txns, y \notin reach', NEW i \in DOMAIN group'[y]
                PROVE  /\ group'[y][i].node \in DOMAIN nodes
                       /\ Floor(group'[y][i].key) = group'[y][i].node
    BY <1>2, FloorSame DEF AtomsHome
  <2>1. y # x
    BY <1>5
  <2>2. y \notin reach /\ group'[y] = group[y]
    BY <1>5, <2>1 DEF EndTxn
  <2>. QED BY <1>0, <2>2 DEF AtomsHome
<1>8. ASSUME broken' = 0 PROVE Listed' /\ Unended' /\ Owned' /\ ~corrupt' /\ reach' = {} /\ tails' = {}
  <2>0. broken = 0 /\ reach = {} /\ tails = {} /\ Listed /\ Unended /\ Owned
    BY <1>1, <1>8 DEF IInv, Sound
  <2>1. nodes' = OnNodes(how, group[x])
    BY <2>0 DEF EndTxn
  <2>2. \A n \in DOMAIN nodes, k \in Keys :
          /\ nodes[n].locks[k] # Free /\ nodes[n].locks[k].txn = x =>
               nodes'[n].locks[k] = Free
          /\ ~(nodes[n].locks[k] # Free /\ nodes[n].locks[k].txn = x) =>
               nodes'[n].locks[k] = nodes[n].locks[k]
    BY <2>0, <2>1, EndLocks
  <2>3. ASSUME NEW y \in Txns, y # x, NEW i \in DOMAIN group[y]
        PROVE  nodes'[group[y][i].node].locks[group[y][i].key] = group[y][i]
    <3>1. group[y][i] \in Atoms
      BY <1>0, LenProperties DEF Shape
    <3>2. group[y][i].txn = y /\ nodes[group[y][i].node].locks[group[y][i].key] = group[y][i]
      BY <2>0 DEF Listed
    <3>3. group[y][i].node \in DOMAIN nodes /\ group[y][i].key \in Keys
      BY <1>0, <2>0, <3>1, AtomNotFree DEF AtomsHome
    <3>. QED BY <2>2, <2>3, <3>2, <3>3
  <2>4. Listed'
    <3>. SUFFICES ASSUME NEW y \in Txns, NEW i \in DOMAIN group'[y]
                  PROVE  /\ group'[y][i].txn = y
                         /\ nodes'[group'[y][i].node].locks[group'[y][i].key] = group'[y][i]
                         /\ Meant(group'[y][i])
                         /\ \A j \in DOMAIN group'[y] :
                              group'[y][i].key = group'[y][j].key => i = j
      BY DEF Listed
    <3>1. y # x
      BY <1>5
    <3>2. group'[y] = group[y]
      BY <1>5, <3>1
    <3>. QED BY <2>0, <2>3, <3>1, <3>2 DEF Listed
  <2>5. Unended'
    <3>1. \A y \in Txns : y # x => status'[y] = status[y]
      BY <1>0 DEF EndTxn, Shape
    <3>. QED BY <1>5, <2>0, <3>1 DEF Unended
  <2>6. Owned'
    <3>. SUFFICES ASSUME NEW n \in DOMAIN nodes, NEW j \in Keys, nodes'[n].locks[j] # Free
                  PROVE  \E i \in DOMAIN group'[nodes'[n].locks[j].txn] :
                           group'[nodes'[n].locks[j].txn][i] = nodes'[n].locks[j]
      BY <1>2 DEF Owned
    <3>0. PICK l : l = nodes[n].locks[j]
      OBVIOUS
    <3>1. nodes'[n].locks[j] = l /\ l # Free /\ l.txn # x
      BY <2>2, <3>0
    <3>2. l.txn \in Txns
      BY <1>0, <3>0, <3>1, Lookups, AtomNotFree
    <3>3. \E i \in DOMAIN group[l.txn] : group[l.txn][i] = l
      BY <2>0, <3>0, <3>1 DEF Owned
    <3>4. group'[l.txn] = group[l.txn]
      BY <1>5, <3>1, <3>2
    <3>. QED BY <3>1, <3>3, <3>4
  <2>7. ~corrupt' /\ reach' = {} /\ tails' = {}
    BY <2>0 DEF EndTxn
  <2>. QED BY <2>4, <2>5, <2>6, <2>7
<1>9. Sound'
  BY <1>8 DEF Sound
<1>. QED BY <1>3, <1>6, <1>7, <1>9 DEF IInv

-----------------------------------------------------------------------------
(* How a balance cuts a node into blocks.                                  *)

\* The keys of the node that are not deleted.
Live(nd) == {k \in Keys : Visible(nd, k) # Absent}

LEMMA VisibleIs ==
  ASSUME NEW nd \in NodeRec, NEW k \in Keys
  PROVE  /\ Visible(nd, k) \in Vals \cup {Absent}
         /\ nd.mem[k] = Absent => Visible(nd, k) = nd.blk[k]
         /\ nd.mem[k] # Absent /\ nd.mem[k] # Deleted => Visible(nd, k) = nd.mem[k]
         /\ nd.mem[k] = Deleted => Visible(nd, k) = Absent
         /\ nd.blk[k] # Deleted /\ Absent # Deleted
<1>1. nd.mem[k] \in Vals \cup {Absent, Deleted} /\ nd.blk[k] \in Vals \cup {Absent}
  BY DEF NodeRec, Items
<1>2. Absent # Deleted /\ Deleted \notin Vals
  BY SSetAssumption
<1>. QED BY <1>1, <1>2 DEF Visible

\* The scan that a balance runs over a node: what is not deleted, in order.
LEMMA NodeScanIs ==
  ASSUME Shape, NEW n \in DOMAIN nodes, NEW nd, nd = nodes[n]
  PROVE  NodeScan(n, NoTxn, 0, FALSE)
           = [i \in DOMAIN InOrder(Live(nd)) |->
                <<InOrder(Live(nd))[i], Visible(nd, InOrder(Live(nd))[i])>>]
<1>0. nd \in NodeRec
  BY Lookups
<1>1. OwnLocks(nd, NoTxn) = {}
  <2>1. ASSUME NEW k \in Keys, nd.locks[k] # Free PROVE nd.locks[k].txn # NoTxn
    <3>1. nd.locks[k] \in Atoms
      BY <1>0, <2>1 DEF NodeRec
    <3>. QED BY <3>1, AtomNotFree
  <2>. QED BY <2>1 DEF OwnLocks
<1>2. ASSUME NEW S, S \subseteq Keys
      PROVE  SeekTree(S, 0, FALSE) = S /\ SeekBlock(S, 0, FALSE) = S
  <2>1. \A k \in S : k > 0
    BY <1>2, Assumed
  <2>. QED BY <2>1 DEF SeekTree, SeekBlock
<1>3. /\ SeekTree(OwnLocks(nd, NoTxn), 0, FALSE) = {}
      /\ SeekTree(MemKeys(nd), 0, FALSE) = MemKeys(nd)
      /\ SeekBlock(BlockKeys(nd), 0, FALSE) = BlockKeys(nd)
  <2>1. MemKeys(nd) \subseteq Keys /\ BlockKeys(nd) \subseteq Keys
    BY DEF MemKeys, BlockKeys
  <2>. QED BY <1>1, <1>2, <2>1
<1>. DEFINE val(i) == CASE i \in {} -> nd.locks[i].val
                        [] i \in MemKeys(nd) \ {} -> nd.mem[i]
                        [] OTHER -> nd.blk[i]
            live == {i \in {} \cup MemKeys(nd) \cup BlockKeys(nd) : val(i) # Deleted}
<1>4. NodeScan(n, NoTxn, 0, FALSE)
        = [i \in DOMAIN InOrder(live) |-> <<InOrder(live)[i], val(InOrder(live)[i])>>]
  BY <1>3 DEF NodeScan
<1>5. \A i : val(i) = IF i \in MemKeys(nd) THEN nd.mem[i] ELSE nd.blk[i]
  OBVIOUS
<1>6. ASSUME NEW k \in Keys
      PROVE  /\ k \in live <=> k \in Live(nd)
             /\ k \in Live(nd) => val(k) = Visible(nd, k)
  <2>1. k \in MemKeys(nd) <=> nd.mem[k] # Absent
    BY DEF MemKeys
  <2>2. k \in BlockKeys(nd) <=> nd.blk[k] # Absent
    BY DEF BlockKeys
  <2>3. k \in Live(nd) <=> Visible(nd, k) # Absent
    BY DEF Live
  <2>4. k \in live <=> (nd.mem[k] # Absent \/ nd.blk[k] # Absent) /\ val(k) # Deleted
    BY <2>1, <2>2
  <2>5. val(k) = IF nd.mem[k] # Absent THEN nd.mem[k] ELSE nd.blk[k]
    BY <1>5, <2>1
  <2>. HIDE DEF val, live
  <2>. QED BY <1>0, <2>3, <2>4, <2>5, VisibleIs
<1>7. live = Live(nd)
  <2>1. live \subseteq Keys /\ Live(nd) \subseteq Keys
    BY DEF MemKeys, BlockKeys, Live
  <2>. HIDE DEF live
  <2>. QED BY <1>6, <2>1
<1>8. \A i \in DOMAIN InOrder(Live(nd)) : InOrder(Live(nd))[i] \in Live(nd)
  <2>1. Live(nd) \subseteq Keys
    BY DEF Live
  <2>2. Live(nd) \subseteq Nat /\ IsFiniteSet(Live(nd))
    BY <2>1, Assumed
  <2>3. InOrder(Live(nd)) \in Seq(Live(nd))
    BY <2>2, InOrderIs
  <2>. QED BY <2>3, LenProperties
<1>9. \A i \in DOMAIN InOrder(Live(nd)) :
        val(InOrder(Live(nd))[i]) = Visible(nd, InOrder(Live(nd))[i])
  <2>1. Live(nd) \subseteq Keys
    BY DEF Live
  <2>. HIDE DEF val
  <2>. QED BY <1>6, <1>8, <2>1
<1>. HIDE DEF val, live
<1>. QED BY <1>4, <1>7, <1>9

\* Where the blocks of a list begin and end.
LEMMA Multiples ==
  ASSUME NEW B \in Nat \ {0}, NEW i \in Nat
  PROVE  /\ i * B \in Nat /\ (i + 1) * B = i * B + B
         /\ \A j \in Nat : j <= i => j * B <= i * B
<1>1. i * B \in Nat /\ (i + 1) * B = i * B + B
  OBVIOUS
<1>2. ASSUME NEW j \in Nat, j <= i PROVE j * B <= i * B
  <2>1. PICK d \in Nat : i = j + d
    <3>1. i - j \in Nat /\ i = j + (i - j)
      BY <1>2
    <3>. QED BY <3>1
  <2>2. (j + d) * B = j * B + d * B /\ d * B \in Nat /\ j * B \in Nat
    OBVIOUS
  <2>. QED BY <2>1, <2>2
<1>. QED BY <1>1, <1>2

LEMMA CutAt ==
  ASSUME NEW B \in Nat \ {0}, NEW len \in Nat, NEW p \in 1 .. len
  PROVE  \E i \in 0 .. len :
           /\ i * B < len /\ i * B < p /\ p <= i * B + B
           /\ \A j \in Nat : j * B < p => j * B <= i * B
<1>. DEFINE S == {i \in Nat : p <= i * B + B}
<1>1. S # {}
  <2>1. p * B \in Nat /\ p <= p * B + B
    <3>1. 1 <= B /\ p \in Nat
      OBVIOUS
    <3>2. PICK d \in Nat : B = 1 + d
      <4>1. B - 1 \in Nat /\ B = 1 + (B - 1)
        BY <3>1
      <4>. QED BY <4>1
    <3>3. p * (1 + d) = p + p * d /\ p * d \in Nat
      BY <3>1
    <3>. QED BY <3>1, <3>2, <3>3
  <2>2. p \in Nat
    OBVIOUS
  <2>. QED BY <2>1, <2>2
<1>2. PICK i \in S : \A j \in S : i <= j
  <2>1. PICK T : T = S
    OBVIOUS
  <2>2. T \subseteq Nat /\ T # {}
    BY <1>1, <2>1
  <2>3. \E i \in T : \A j \in T : i <= j
    BY <2>2, LeastNat
  <2>. QED BY <2>1, <2>3
<1>3. i \in Nat /\ i * B \in Nat /\ p <= i * B + B
  BY Multiples
<1>4. i * B < p
  <2>1. CASE i = 0
    BY <2>1
  <2>2. CASE i # 0
    <3>1. i - 1 \in Nat /\ ~(i <= i - 1)
      BY <1>3, <2>2
    <3>2. i - 1 \notin S
      BY <1>2, <3>1
    <3>3. ~(p <= (i - 1) * B + B)
      BY <3>1, <3>2
    <3>4. (i - 1) * B + B = i * B
      <4>1. ((i - 1) + 1) * B = (i - 1) * B + B
        BY <3>1, Multiples
      <4>2. (i - 1) + 1 = i
        BY <1>3
      <4>. QED BY <4>1, <4>2
    <3>. QED BY <1>3, <3>3, <3>4
  <2>. QED BY <2>1, <2>2
<1>5. i * B < len /\ i <= i * B
  <2>1. i * B < len
    BY <1>3, <1>4
  <2>2. i <= i * B
    <3>2. PICK d \in Nat : B = 1 + d
      <4>1. B - 1 \in Nat /\ B = 1 + (B - 1)
        OBVIOUS
      <4>. QED BY <4>1
    <3>3. i * (1 + d) = i + i * d /\ i * d \in Nat
      BY <1>3
    <3>. QED BY <1>3, <3>2, <3>3
  <2>. QED BY <2>1, <2>2
<1>6. i \in 0 .. len
  BY <1>3, <1>5
<1>7. ASSUME NEW j \in Nat, j * B < p PROVE j * B <= i * B
  <2>1. CASE j <= i
    BY <1>3, <2>1, Multiples
  <2>2. CASE ~(j <= i)
    <3>1. i + 1 <= j /\ i + 1 \in Nat
      BY <1>3, <2>2
    <3>2. (i + 1) * B <= j * B /\ j * B \in Nat
      BY <3>1, Multiples
    <3>3. (i + 1) * B = i * B + B
      BY <1>3, Multiples
    <3>4. p <= j * B
      BY <1>3, <3>2, <3>3
    <3>. QED BY <1>7, <3>2, <3>4
  <2>. QED BY <2>1, <2>2
<1>. QED BY <1>3, <1>4, <1>5, <1>6, <1>7

\* The block with number i of the list q, with B entries a block.
BlockAt(q, len, B, i, b) ==
  /\ 1 \in DOMAIN b /\ b[1] = q[i * B + 1]
  /\ \A t \in DOMAIN b : \E p \in 1 .. len :
       i * B < p /\ p <= i * B + B /\ b[t] = q[p]
  /\ \A p \in 1 .. len : i * B < p /\ p <= i * B + B => \E t \in DOMAIN b : b[t] = q[p]

LEMMA BlockIs ==
  ASSUME NEW S, NEW len \in Nat, NEW q \in [1 .. len -> S], NEW B \in Nat \ {0},
         NEW i \in Nat, i * B < len
  PROVE  BlockAt(q, len, B, i, SubSeq(q, i * B + 1, Min({(i + 1) * B, len})))
<1>1. PICK m \in Nat : m = i * B /\ (i + 1) * B = m + B /\ m < len
  BY Multiples
<1>2. PICK h : h = Min({m + B, len})
  OBVIOUS
<1>3. h \in {m + B, len} /\ h <= m + B /\ h <= len
  <2>1. \E x \in {m + B, len} : \A y \in {m + B, len} : x <= y
    BY <1>1
  <2>. QED BY <1>2, <2>1 DEF Min
<1>4. h \in Nat /\ m + 1 <= h
  BY <1>1, <1>3
<1>5. PICK b : b = SubSeq(q, m + 1, h)
  OBVIOUS
<1>6. /\ b \in Seq(S) /\ Len(b) = h - m
      /\ \A t \in 1 .. h - m : b[t] = q[m + t]
  <2>1. \A t \in m + 1 .. h : q[t] \in S
    BY <1>1, <1>3, <1>4
  <2>2. m + 1 \in Int /\ h \in Int /\ m + 1 <= h
    BY <1>1, <1>4
  <2>3. /\ SubSeq(q, m + 1, h) \in Seq(S)
        /\ Len(SubSeq(q, m + 1, h)) = IF m + 1 <= h THEN h - (m + 1) + 1 ELSE 0
        /\ \A t \in 1 .. h - (m + 1) + 1 : SubSeq(q, m + 1, h)[t] = q[(m + 1) + t - 1]
    BY <2>1, <2>2, SubSeqProperties
  <2>4. h - (m + 1) + 1 = h - m /\ \A t \in 1 .. h - m : (m + 1) + t - 1 = m + t
    BY <1>1, <1>4
  <2>. QED BY <1>5, <2>2, <2>3, <2>4
<1>7. DOMAIN b = 1 .. h - m
  BY <1>6, LenProperties
<1>8. 1 \in DOMAIN b /\ b[1] = q[m + 1]
  BY <1>1, <1>4, <1>6, <1>7
<1>9. ASSUME NEW t \in DOMAIN b
      PROVE  \E p \in 1 .. len : m < p /\ p <= m + B /\ b[t] = q[p]
  <2>1. t \in 1 .. h - m
    BY <1>7
  <2>2. m + t \in 1 .. len /\ m < m + t /\ m + t <= m + B
    BY <1>1, <1>3, <1>4, <2>1
  <2>. QED BY <1>6, <2>1, <2>2
<1>10. ASSUME NEW p \in 1 .. len, m < p, p <= m + B
       PROVE  \E t \in DOMAIN b : b[t] = q[p]
  <2>1. p <= h
    BY <1>1, <1>3, <1>10
  <2>2. p - m \in 1 .. h - m /\ m + (p - m) = p
    BY <1>1, <1>4, <1>10, <2>1
  <2>. QED BY <1>6, <1>7, <2>2
<1>11. BlockAt(q, len, B, i, b)
  BY <1>1, <1>8, <1>9, <1>10 DEF BlockAt
<1>. QED BY <1>1, <1>2, <1>5, <1>11

\* The blocks Bs hold what the node has, cut where their first keys are.
CutInto(nd, Bs) ==
  /\ \A b \in Bs : /\ 1 \in DOMAIN b
                   /\ \A t \in DOMAIN b :
                        /\ b[t][1] \in Live(nd) /\ b[t][2] = Visible(nd, b[t][1])
                        /\ b[1][1] <= b[t][1]
  /\ \A k \in Live(nd) : \E b \in Bs : \E t \in DOMAIN b : b[t][1] = k
  /\ \A b, c \in Bs : \A t \in DOMAIN b : c[1][1] <= b[t][1] => c[1][1] <= b[1][1]
  /\ \A b, c \in Bs : b[1][1] = c[1][1] => b = c

LEMMA BlocksAre ==
  ASSUME Shape, NEW n \in DOMAIN nodes
  PROVE  CutInto(nodes[n], Blocks(n))
<1>0. PICK nd \in NodeRec : nd = nodes[n]
  BY Lookups
<1>1. PICK L : L = Live(nd)
  OBVIOUS
<1>2. PICK o : o = InOrder(L)
  OBVIOUS
<1>3. L \subseteq Keys /\ L \subseteq Nat /\ IsFiniteSet(L)
  <2>1. L \subseteq Keys
    BY <1>1 DEF Live
  <2>. QED BY <2>1, Assumed
<1>4. PICK len \in Nat : DOMAIN o = 1 .. len /\ o \in [1 .. len -> L]
  <2>1. /\ o \in Seq(L) /\ Cardinality(L) \in Nat /\ DOMAIN o = 1 .. Cardinality(L)
    BY <1>2, <1>3, InOrderIs
  <2>2. \A i \in DOMAIN o : o[i] \in L
    BY <2>1, LenProperties
  <2>3. o = [i \in DOMAIN o |-> o[i]]
    BY <2>1
  <2>. QED BY <2>1, <2>2, <2>3
<1>5. /\ \A i, j \in 1 .. len : i < j => o[i] < o[j]
      /\ \A k \in L : \E i \in 1 .. len : o[i] = k
  BY <1>2, <1>3, <1>4, InOrderIs DEF Increasing
<1>6. PICK q : q = NodeScan(n, NoTxn, 0, FALSE)
  OBVIOUS
<1>7. q = [i \in 1 .. len |-> <<o[i], Visible(nd, o[i])>>]
  <2>1. q = [i \in DOMAIN InOrder(Live(nd)) |->
                <<InOrder(Live(nd))[i], Visible(nd, InOrder(Live(nd))[i])>>]
    <3>1. NodeScan(n, NoTxn, 0, FALSE)
            = [i \in DOMAIN InOrder(Live(nd)) |->
                <<InOrder(Live(nd))[i], Visible(nd, InOrder(Live(nd))[i])>>]
      BY <1>0, NodeScanIs, ZenonT(60)
    <3>. QED BY <1>6, <3>1
  <2>. QED BY <1>1, <1>2, <1>4, <2>1
<1>8. /\ \A i \in 1 .. len : q[i][1] = o[i] /\ q[i][2] = Visible(nd, o[i])
      /\ DOMAIN q = 1 .. len /\ q \in [1 .. len -> {q[i] : i \in 1 .. len}]
  BY <1>7
<1>9. Len(q) = len
  <2>1. q \in Seq({q[i] : i \in 1 .. len})
    BY <1>8, InSeq
  <2>2. Len(q) \in Nat /\ DOMAIN q = 1 .. Len(q)
    BY <2>1, LenProperties
  <2>. QED BY <1>8, <2>2
<1>10. PICK B \in Nat \ {0} : B = BlockSize
  BY SSetAssumption
<1>11. PICK N : N = {j \in 0 .. len : j * B < len}
  OBVIOUS
<1>12. PICK Bs : Bs = Blocks(n)
  OBVIOUS
<1>13. Bs = {SubSeq(q, i * B + 1, Min({(i + 1) * B, len})) : i \in N}
  BY <1>6, <1>9, <1>10, <1>11, <1>12 DEF Blocks
<1>14. \A i \in N : i \in Nat /\ i * B \in Nat /\ i * B < len
  BY <1>11
<1>15. \A i \in N : BlockAt(q, len, B, i, SubSeq(q, i * B + 1, Min({(i + 1) * B, len})))
  BY <1>8, <1>14, BlockIs
<1>16. ASSUME NEW b \in Bs
       PROVE  \E m \in Nat : /\ m < len /\ 1 \in DOMAIN b /\ b[1] = q[m + 1]
                             /\ \A t \in DOMAIN b : \E p \in 1 .. len :
                                  m < p /\ p <= m + B /\ b[t] = q[p]
                             /\ b = SubSeq(q, m + 1, Min({m + B, len}))
                             /\ \E i \in N : m = i * B
  <2>1. PICK i \in N : b = SubSeq(q, i * B + 1, Min({(i + 1) * B, len}))
    BY <1>13
  <2>2. PICK m \in Nat : m = i * B /\ (i + 1) * B = m + B /\ m < len
    BY <1>14, Multiples
  <2>3. BlockAt(q, len, B, i, b)
    BY <1>15, <2>1
  <2>4. /\ 1 \in DOMAIN b /\ b[1] = q[m + 1]
        /\ \A t \in DOMAIN b : \E p \in 1 .. len : m < p /\ p <= m + B /\ b[t] = q[p]
    BY <2>2, <2>3 DEF BlockAt
  <2>5. b = SubSeq(q, m + 1, Min({m + B, len}))
    BY <2>1, <2>2
  <2>. QED BY <2>2, <2>4, <2>5
<1>17. \A i, j \in 1 .. len :
         /\ i <= j => o[i] <= o[j] 
         /\ o[i] <= o[j] => i <= j
         /\ o[i] \in L /\ o[i] \in Nat
  <2>. SUFFICES ASSUME NEW i \in 1 .. len, NEW j \in 1 .. len
                PROVE  /\ i <= j => o[i] <= o[j]
                       /\ o[i] <= o[j] => i <= j
                       /\ o[i] \in L /\ o[i] \in Nat
    OBVIOUS
  <2>1. o[i] \in L /\ o[i] \in Nat /\ o[j] \in Nat
    BY <1>3, <1>4
  <2>2. (i < j => o[i] < o[j]) /\ (j < i => o[j] < o[i])
    BY <1>5
  <2>. QED BY <2>1, <2>2
<1>18. ASSUME NEW b \in Bs
       PROVE  /\ 1 \in DOMAIN b
              /\ \A t \in DOMAIN b :
                   /\ b[t][1] \in L /\ b[t][2] = Visible(nd, b[t][1])
                   /\ b[1][1] <= b[t][1]
  <2>1. PICK m \in Nat : /\ m < len /\ 1 \in DOMAIN b /\ b[1] = q[m + 1]
                         /\ \A t \in DOMAIN b : \E p \in 1 .. len :
                              m < p /\ p <= m + B /\ b[t] = q[p]
    BY <1>16
  <2>2. ASSUME NEW t \in DOMAIN b
        PROVE  /\ b[t][1] \in L /\ b[t][2] = Visible(nd, b[t][1])
               /\ b[1][1] <= b[t][1]
    <3>1. PICK p \in 1 .. len : m < p /\ b[t] = q[p]
      BY <2>1
    <3>2. m + 1 \in 1 .. len /\ m + 1 <= p
      BY <2>1, <3>1
    <3>3. b[t][1] = o[p] /\ b[t][2] = Visible(nd, o[p]) /\ b[1][1] = o[m + 1]
      BY <1>8, <2>1, <3>1, <3>2
    <3>. QED BY <1>17, <3>2, <3>3
  <2>. QED BY <2>1, <2>2
<1>19. ASSUME NEW k \in L PROVE \E b \in Bs : \E t \in DOMAIN b : b[t][1] = k
  <2>1. PICK p \in 1 .. len : o[p] = k
    BY <1>5
  <2>2. PICK i \in 0 .. len : i * B < len /\ i * B < p /\ p <= i * B + B
    BY CutAt
  <2>3. i \in N
    BY <1>11, <2>2
  <2>4. PICK b \in Bs : BlockAt(q, len, B, i, b)
    BY <1>13, <1>15, <2>3
  <2>5. PICK t \in DOMAIN b : b[t] = q[p]
    BY <2>2, <2>4 DEF BlockAt
  <2>. QED BY <1>8, <2>1, <2>5, SMTT(30)
<1>20. ASSUME NEW b \in Bs, NEW c \in Bs, NEW t \in DOMAIN b, c[1][1] <= b[t][1]
       PROVE  c[1][1] <= b[1][1]
  <2>1. PICK m \in Nat : /\ m < len /\ b[1] = q[m + 1]
                         /\ \A u \in DOMAIN b : \E p \in 1 .. len :
                              m < p /\ p <= m + B /\ b[u] = q[p]
                         /\ \E i \in N : m = i * B
    BY <1>16
  <2>2. PICK l \in Nat : l < len /\ c[1] = q[l + 1] /\ \E j \in N : l = j * B
    BY <1>16
  <2>3. PICK p \in 1 .. len : m < p /\ p <= m + B /\ b[t] = q[p]
    BY <2>1
  <2>4. m + 1 \in 1 .. len /\ l + 1 \in 1 .. len
    BY <2>1, <2>2
  <2>5. c[1][1] = o[l + 1] /\ b[1][1] = o[m + 1] /\ b[t][1] = o[p]
    BY <1>8, <2>1, <2>2, <2>3, <2>4
  <2>6. l + 1 <= p
    BY <1>17, <1>20, <2>4, <2>5
  <2>7. l <= m
    <3>1. PICK i \in N, j \in N : m = i * B /\ l = j * B
      BY <2>1, <2>2
    <3>2. i \in Nat /\ j \in Nat
      BY <1>14
    <3>3. CASE j <= i
      BY <3>1, <3>2, <3>3, Multiples
    <3>4. CASE ~(j <= i)
      <4>1. i + 1 <= j /\ i + 1 \in Nat
        BY <3>2, <3>4
      <4>2. (i + 1) * B <= j * B
        BY <3>2, <4>1, Multiples
      <4>3. (i + 1) * B = i * B + B
        BY <3>2, Multiples
      <4>4. m + B <= l
        BY <3>1, <4>2, <4>3
      <4>. QED BY <2>3, <2>6, <4>4
    <3>. QED BY <3>3, <3>4
  <2>8. l + 1 <= m + 1
    BY <2>7
  <2>. QED BY <1>17, <2>4, <2>5, <2>8
<1>21. ASSUME NEW b \in Bs, NEW c \in Bs, b[1][1] = c[1][1] PROVE b = c
  <2>1. PICK m \in Nat : /\ m < len /\ b[1] = q[m + 1]
                         /\ b = SubSeq(q, m + 1, Min({m + B, len}))
    BY <1>16
  <2>2. PICK l \in Nat : /\ l < len /\ c[1] = q[l + 1]
                         /\ c = SubSeq(q, l + 1, Min({l + B, len}))
    BY <1>16
  <2>3. m + 1 \in 1 .. len /\ l + 1 \in 1 .. len
    BY <2>1, <2>2
  <2>4. o[m + 1] = o[l + 1]
    BY <1>8, <1>21, <2>1, <2>2, <2>3
  <2>5. o[m + 1] \in Nat
    BY <1>17, <2>3
  <2>6. m + 1 <= l + 1 /\ l + 1 <= m + 1
    BY <1>17, <2>3, <2>4, <2>5
  <2>7. m = l
    BY <2>6
  <2>. QED BY <2>1, <2>2, <2>7
<1>22. CutInto(nd, Bs)
  BY <1>1, <1>18, <1>19, <1>20, <1>21 DEF CutInto
<1>. QED BY <1>0, <1>12, <1>22

\* The node around a block: it has the block's keys as they were, and nothing
\* that was written since.
LEMMA FreshNode ==
  ASSUME NEW nd \in NodeRec, NEW Bs, CutInto(nd, Bs), NEW s \in Bs,
         NEW new, new = NewNode(BlockOf(s))
  PROVE  /\ new \in NodeRec /\ new.buf = 0
         /\ \A k \in Keys : new.mem[k] = Absent /\ new.locks[k] = Free
         /\ \A t \in DOMAIN s : new.blk[s[t][1]] = Visible(nd, s[t][1])
         /\ \A k \in Keys : new.blk[k] # Absent => \E t \in DOMAIN s : s[t][1] = k
         /\ s[1][1] = Min(BlockKeys(new))
<1>1. /\ 1 \in DOMAIN s
      /\ \A t \in DOMAIN s : /\ s[t][1] \in Live(nd) /\ s[t][2] = Visible(nd, s[t][1])
                             /\ s[1][1] <= s[t][1]
  BY DEF CutInto
<1>2. \A t \in DOMAIN s : s[t][1] \in Keys /\ Visible(nd, s[t][1]) # Absent
  BY <1>1 DEF Live
<1>3. ASSUME NEW k \in Keys
      PROVE  BlockOf(s)[k] = IF \E t \in DOMAIN s : s[t][1] = k THEN Visible(nd, k) ELSE Absent
  <2>1. CASE \E t \in DOMAIN s : s[t][1] = k
    <3>1. PICK t \in DOMAIN s : t = CHOOSE i \in DOMAIN s : s[i][1] = k
      BY <2>1
    <3>2. s[t][1] = k
      BY <2>1, <3>1
    <3>3. BlockOf(s)[k] = s[t][2]
      BY <2>1, <3>1 DEF BlockOf
    <3>. QED BY <1>1, <2>1, <3>2, <3>3
  <2>2. CASE ~\E t \in DOMAIN s : s[t][1] = k
    BY <2>2 DEF BlockOf
  <2>. QED BY <2>1, <2>2
<1>4. BlockOf(s) \in [Keys -> Vals \cup {Absent}]
  <2>1. \A k \in Keys : BlockOf(s)[k] \in Vals \cup {Absent}
    BY <1>3, VisibleIs
  <2>2. BlockOf(s) = [k \in Keys |-> BlockOf(s)[k]]
    BY DEF BlockOf
  <2>. QED BY <2>1, <2>2
<1>5. /\ new.blk = BlockOf(s) /\ new.buf = 0
      /\ \A k \in Keys : new.mem[k] = Absent /\ new.locks[k] = Free
  BY DEF NewNode, Nothing
<1>6. new \in NodeRec
  <2>1. 0 \in 0 .. SyncSize /\ Absent \in Items
    BY SSetAssumption DEF Items
  <2>2. Nothing(Absent) \in [Keys -> Items] /\ Nothing(Free) \in [Keys -> Atoms \cup {Free}]
    BY <2>1 DEF Nothing
  <2>. QED BY <1>4, <2>1, <2>2 DEF NewNode, NodeRec
<1>7. \A t \in DOMAIN s : new.blk[s[t][1]] = Visible(nd, s[t][1])
  BY <1>2, <1>3, <1>5
<1>8. \A k \in Keys : new.blk[k] # Absent => \E t \in DOMAIN s : s[t][1] = k
  BY <1>3, <1>5
<1>9. s[1][1] = Min(BlockKeys(new))
  <2>1. PICK K : K = BlockKeys(new)
    OBVIOUS
  <2>2. K \subseteq Keys /\ s[1][1] \in K /\ \A k \in K : s[1][1] <= k
    <3>1. K = {k \in Keys : new.blk[k] # Absent}
      BY <2>1 DEF BlockKeys
    <3>2. s[1][1] \in K
      BY <1>1, <1>2, <1>7, <3>1
    <3>3. ASSUME NEW k \in K PROVE s[1][1] <= k
      <4>1. PICK t \in DOMAIN s : s[t][1] = k
        BY <1>8, <3>1
      <4>. QED BY <1>1, <4>1
    <3>. QED BY <3>1, <3>2, <3>3
  <2>3. K \subseteq Nat /\ IsFiniteSet(K) /\ K # {}
    BY <2>2, Assumed
  <2>4. Min(K) \in K /\ \A k \in K : Min(K) <= k
    BY <2>3, MaxMinIs
  <2>5. s[1][1] <= Min(K) /\ Min(K) <= s[1][1] /\ Min(K) \in Nat /\ s[1][1] \in Nat
    BY <2>2, <2>3, <2>4
  <2>6. s[1][1] = Min(K)
    BY <2>5
  <2>. QED BY <2>1, <2>6
<1>. QED BY <1>5, <1>6, <1>7, <1>8, <1>9

-----------------------------------------------------------------------------
(* The balance.                                                            *)

Fulls == {n \in DOMAIN nodes : Full(n)}
Blks == UNION {Blocks(n) : n \in Fulls}
Starts == {s[1][1] : s \in Blks}
NextNodes ==
  [b \in Starts \cup (DOMAIN nodes \ Fulls) |->
     IF b \in Starts THEN NewNode(BlockOf(CHOOSE s \in Blks : s[1][1] = b))
     ELSE nodes[b]]

LEMMA BalanceDoes ==
  ASSUME Balance
  PROVE  /\ Running /\ pending > 0 /\ pending' = pending - 1 /\ balance' = FALSE
         /\ corrupt' = (DOMAIN NextNodes = {})
         /\ nodes' = IF corrupt' THEN nodes ELSE NextNodes
         /\ reach' = reach \cup {x \in Txns : \E a \in Range(group[x]) : a.node \in Fulls}
         /\ Meets(corrupt' \/ reach' # reach)
         /\ UNCHANGED <<group, status, tails>>
BY DEF Balance, Fulls, Blks, Starts, NextNodes

\* A key that a node shows is one that a lookup sends to it.
LEMMA LiveHome ==
  ASSUME Shape, RangesHold, NEW n \in DOMAIN nodes, NEW k \in Live(nodes[n])
  PROVE  k \in Keys /\ Floor(k) = n
<1>1. k \in Keys /\ Visible(nodes[n], k) # Absent
  BY DEF Live
<1>2. nodes[n].mem[k] # Absent \/ nodes[n].blk[k] # Absent
  BY <1>1 DEF Visible
<1>. QED BY <1>1, <1>2 DEF RangesHold

LEMMA OfBlock ==
  ASSUME Shape, RangesHold, NEW s \in Blks
  PROVE  \E n \in Fulls : /\ n \in DOMAIN nodes /\ s \in Blocks(n) /\ 1 \in DOMAIN s
                          /\ CutInto(nodes[n], Blocks(n))
                          /\ \A t \in DOMAIN s :
                               /\ s[t][1] \in Keys /\ Floor(s[t][1]) = n
                               /\ s[1][1] <= s[t][1]
<1>1. PICK n \in Fulls : s \in Blocks(n)
  BY DEF Blks
<1>2. n \in DOMAIN nodes
  BY <1>1 DEF Fulls
<1>3. CutInto(nodes[n], Blocks(n))
  BY <1>2, BlocksAre
<1>4. /\ 1 \in DOMAIN s
      /\ \A t \in DOMAIN s : s[t][1] \in Live(nodes[n]) /\ s[1][1] <= s[t][1]
  BY <1>1, <1>3 DEF CutInto
<1>5. \A t \in DOMAIN s : s[t][1] \in Keys /\ Floor(s[t][1]) = n
  BY <1>2, <1>4, LiveHome
<1>. QED BY <1>1, <1>2, <1>3, <1>4, <1>5

LEMMA Recutting ==
  ASSUME Shape, RangesHold
  PROVE  /\ DOMAIN NextNodes = Starts \cup (DOMAIN nodes \ Fulls)
         /\ Starts \subseteq Keys /\ DOMAIN NextNodes \subseteq Keys \cup {0}
         /\ \A m \in Starts : m \notin DOMAIN nodes \ Fulls
         /\ \A k \in Keys : Floor(k) \notin Fulls => Seek(DOMAIN NextNodes, k) = Floor(k)
         /\ \A s \in Blks : \A t \in DOMAIN s : Seek(DOMAIN NextNodes, s[t][1]) = s[1][1]
         /\ \A s, r \in Blks : s[1][1] = r[1][1] => s = r
<1>1. DOMAIN NextNodes = Starts \cup (DOMAIN nodes \ Fulls)
  BY DEF NextNodes
<1>2. Starts \subseteq Keys
  <2>. SUFFICES ASSUME NEW s \in Blks PROVE s[1][1] \in Keys
    BY DEF Starts
  <2>. QED BY OfBlock
<1>3. DOMAIN NextNodes \subseteq Keys \cup {0}
  BY <1>1, <1>2 DEF Shape
<1>4. PICK D, F, P, E : D = DOMAIN nodes /\ F = Fulls /\ P = Starts /\ E = DOMAIN NextNodes
  OBVIOUS
<1>5. /\ D \subseteq Nat /\ IsFiniteSet(D) /\ D # {} /\ F \subseteq D
      /\ P \subseteq Nat /\ IsFiniteSet(P)
  <2>1. D \subseteq Keys \cup {0} /\ P \subseteq Keys \cup {0} /\ D # {} /\ F \subseteq D
    BY <1>2, <1>4 DEF Shape, Fulls
  <2>. QED BY <2>1, Assumed
<1>6. \A k : Floor(k) = Seek(D, k)
  BY <1>4, FloorIsSeek
<1>7. \A b \in P : Seek(D, b) \in F
  <2>. SUFFICES ASSUME NEW s \in Blks PROVE Floor(s[1][1]) \in Fulls
    BY <1>4, <1>6 DEF Starts
  <2>. QED BY OfBlock
<1>8. \A m : m \in E <=> (m \in P \/ (m \in D /\ m \notin F))
  BY <1>1, <1>4
<1>9. /\ \A b \in P : b \notin D \ F
      /\ \A k \in Nat : Seek(D, k) \notin F => Seek(E, k) = Seek(D, k)
      /\ \A k \in Nat, b \in P : Leads(D, P, k, b) => Seek(E, k) = b
  <2>1. Recuts(D, F, P, E)
    BY <1>5, <1>7, <1>8 DEF Recuts
  <2>. QED BY <2>1, Recut
<1>10. ASSUME NEW s \in Blks, NEW t \in DOMAIN s
       PROVE  Seek(DOMAIN NextNodes, s[t][1]) = s[1][1]
  <2>1. PICK n \in Fulls : /\ n \in DOMAIN nodes /\ s \in Blocks(n) /\ 1 \in DOMAIN s
                           /\ CutInto(nodes[n], Blocks(n))
                           /\ \A u \in DOMAIN s :
                                /\ s[u][1] \in Keys /\ Floor(s[u][1]) = n
                                /\ s[1][1] <= s[u][1]
    BY OfBlock
  <2>2. PICK k, b : k = s[t][1] /\ b = s[1][1]
    OBVIOUS
  <2>3. k \in Keys /\ k \in Nat /\ b \in P /\ b <= k /\ Seek(D, k) = n /\ Seek(D, b) = n
    <3>1. k \in Keys /\ b <= k /\ Floor(k) = n /\ Floor(b) = n
      BY <2>1, <2>2
    <3>2. b \in P
      BY <1>4, <2>2 DEF Starts
    <3>. QED BY <1>6, <3>1, <3>2, Assumed
  <2>4. ASSUME NEW r \in Blks, Seek(D, r[1][1]) = n, r[1][1] <= k PROVE r[1][1] <= b
    <3>1. Floor(r[1][1]) = n
      BY <1>6, <2>4
    <3>2. r \in Blocks(n)
      BY <3>1, OfBlock
    <3>. QED BY <2>1, <2>2, <2>4, <3>2 DEF CutInto
  <2>5. \A c \in P : Seek(D, c) = Seek(D, k) /\ c <= k => c <= b
    BY <1>4, <2>3, <2>4 DEF Starts
  <2>6. Seek(E, k) = b
    BY <1>9, <2>3, <2>5 DEF Leads
  <2>. QED BY <1>4, <2>2, <2>6
<1>11. ASSUME NEW s \in Blks, NEW r \in Blks, s[1][1] = r[1][1] PROVE s = r
  <2>1. PICK n \in Fulls : /\ s \in Blocks(n) /\ CutInto(nodes[n], Blocks(n))
                           /\ Floor(s[1][1]) = n
    BY OfBlock
  <2>2. r \in Blocks(n)
    BY <1>11, <2>1, OfBlock
  <2>. QED BY <1>11, <2>1, <2>2 DEF CutInto
<1>12. \A k \in Keys : Floor(k) \notin Fulls => Seek(DOMAIN NextNodes, k) = Floor(k)
  <2>. SUFFICES ASSUME NEW k \in Keys, Floor(k) \notin Fulls
                PROVE  Seek(DOMAIN NextNodes, k) = Floor(k)
    OBVIOUS
  <2>1. k \in Nat /\ Seek(D, k) \notin F
    BY <1>4, <1>6, Assumed
  <2>2. Seek(E, k) = Seek(D, k)
    BY <1>9, <2>1, SMTT(30)
  <2>. QED BY <1>4, <1>6, <2>2
<1>. QED BY <1>1, <1>2, <1>3, <1>4, <1>9, <1>10, <1>11, <1>12

\* The nodes that a balance makes.
LEMMA MadeNodes ==
  ASSUME Shape, RangesHold, NEW n \in Starts
  PROVE  /\ NextNodes[n] \in NodeRec /\ n = Min(BlockKeys(NextNodes[n]))
         /\ \A k \in Keys : NextNodes[n].mem[k] = Absent /\ NextNodes[n].locks[k] = Free
         /\ \A k \in Keys : NextNodes[n].blk[k] # Absent =>
              /\ Seek(DOMAIN NextNodes, k) = n /\ Floor(k) \in Fulls
              /\ NextNodes[n].blk[k] = Visible(nodes[Floor(k)], k)
         /\ \E s \in Blks : /\ n = s[1][1]
                            /\ \A t \in DOMAIN s : NextNodes[n].blk[s[t][1]]
                                                     = Visible(nodes[Floor(s[t][1])], s[t][1])
<1>1. PICK s \in Blks : n = s[1][1]
  BY DEF Starts
<1>2. (CHOOSE r \in Blks : r[1][1] = n) = s
  <2>1. \A r \in Blks : r[1][1] = n => r = s
    BY <1>1, Recutting
  <2>. QED BY <1>1, <2>1
<1>3. NextNodes[n] = NewNode(BlockOf(s))
  BY <1>2 DEF NextNodes
<1>4. PICK m \in Fulls : /\ m \in DOMAIN nodes /\ s \in Blocks(m)
                         /\ CutInto(nodes[m], Blocks(m))
                         /\ \A t \in DOMAIN s : s[t][1] \in Keys /\ Floor(s[t][1]) = m
  BY OfBlock
<1>5a. PICK nd \in NodeRec : nd = nodes[m]
  BY <1>4, Lookups
<1>5b. PICK Bs : Bs = Blocks(m)
  OBVIOUS
<1>5. nd = nodes[m] /\ Bs = Blocks(m)
  BY <1>5a, <1>5b
<1>6. PICK new : new = NextNodes[n]
  OBVIOUS
<1>7. /\ new \in NodeRec
      /\ \A k \in Keys : new.mem[k] = Absent /\ new.locks[k] = Free
      /\ \A t \in DOMAIN s : new.blk[s[t][1]] = Visible(nd, s[t][1])
      /\ \A k \in Keys : new.blk[k] # Absent => \E t \in DOMAIN s : s[t][1] = k
      /\ s[1][1] = Min(BlockKeys(new))
  <2>1. CutInto(nd, Bs) /\ s \in Bs /\ new = NewNode(BlockOf(s))
    BY <1>3, <1>4, <1>5, <1>6
  <2>. QED BY <2>1, FreshNode
<1>8. ASSUME NEW k \in Keys, new.blk[k] # Absent
      PROVE  /\ Seek(DOMAIN NextNodes, k) = n /\ Floor(k) \in Fulls
             /\ new.blk[k] = Visible(nodes[Floor(k)], k)
  <2>1. PICK t \in DOMAIN s : s[t][1] = k
    BY <1>7, <1>8
  <2>2. Floor(k) = m /\ new.blk[k] = Visible(nd, k)
    BY <1>4, <1>7, <2>1
  <2>3. Seek(DOMAIN NextNodes, k) = n
    BY <1>1, <2>1, Recutting
  <2>. QED BY <1>4, <1>5, <2>2, <2>3
<1>9. \A t \in DOMAIN s : new.blk[s[t][1]] = Visible(nodes[Floor(s[t][1])], s[t][1])
  BY <1>4, <1>5, <1>7
<1>. QED BY <1>1, <1>6, <1>7, <1>8, <1>9

LEMMA LeftNodes ==
  ASSUME Shape, RangesHold, NEW n \in DOMAIN NextNodes, n \notin Starts
  PROVE  NextNodes[n] = nodes[n] /\ n \in DOMAIN nodes /\ n \notin Fulls
BY DEF NextNodes

LEMMA LeftNode ==
  ASSUME Shape, RangesHold, NEW n \in DOMAIN nodes, n \notin Fulls
  PROVE  NextNodes[n] = nodes[n] /\ n \in DOMAIN NextNodes /\ n \notin Starts
<1>1. n \notin Starts
  BY Recutting
<1>. QED BY <1>1 DEF NextNodes

\* A key that was shown is in the block that a lookup finds now.
LEMMA MovedKey ==
  ASSUME Shape, RangesHold, NEW k \in Keys, Floor(k) \in Fulls,
         Visible(nodes[Floor(k)], k) # Absent
  PROVE  /\ Seek(DOMAIN NextNodes, k) \in Starts
         /\ NextNodes[Seek(DOMAIN NextNodes, k)].blk[k] = Visible(nodes[Floor(k)], k)
<1>1. PICK n \in Fulls : n = Floor(k)
  OBVIOUS
<1>2. n \in DOMAIN nodes
  BY DEF Fulls
<1>3. k \in Live(nodes[n])
  BY <1>1 DEF Live
<1>4. PICK s \in Blocks(n) : \E t \in DOMAIN s : s[t][1] = k
  BY <1>2, <1>3, BlocksAre DEF CutInto
<1>5. PICK t \in DOMAIN s : s[t][1] = k
  BY <1>4
<1>6. s \in Blks
  BY DEF Blks
<1>7. Seek(DOMAIN NextNodes, k) = s[1][1] /\ s[1][1] \in Starts
  BY <1>5, <1>6, Recutting DEF Starts
<1>8. PICK r \in Blks : /\ s[1][1] = r[1][1]
                        /\ \A u \in DOMAIN r : NextNodes[s[1][1]].blk[r[u][1]]
                                                 = Visible(nodes[Floor(r[u][1])], r[u][1])
  BY <1>7, MadeNodes
<1>9. r = s
  BY <1>6, <1>8, Recutting
<1>. QED BY <1>5, <1>7, <1>8, <1>9

\* What a balance leaves: the nodes hold what lookups find, and every key is
\* shown as it was.
LEMMA BalanceLeaves ==
  ASSUME IInv, nodes' = NextNodes, DOMAIN NextNodes # {}
  PROVE  /\ DOMAIN nodes' \subseteq Keys \cup {0} /\ nodes' \in [DOMAIN nodes' -> NodeRec]
         /\ RangesHold' /\ LocksHome'
         /\ \A n \in DOMAIN nodes, k \in Keys : n \notin Fulls /\ Floor(k) = n =>
              n \in DOMAIN nodes' /\ nodes'[n] = nodes[n] /\ Floor(k)' = n
         /\ \A n \in DOMAIN nodes', k \in Keys : nodes'[n].locks[k] # Free =>
              n \in DOMAIN nodes /\ n \notin Fulls /\ nodes'[n] = nodes[n]
<1>0. Shape /\ RangesHold /\ LocksHome
  BY DEF IInv
<1>1. PICK E : E = DOMAIN NextNodes
  OBVIOUS
<1>2. \A k : Floor(k)' = Seek(E, k)
  BY <1>1, FloorIsSeek
<1>3. \A n \in DOMAIN NextNodes : NextNodes[n] \in NodeRec
  <2>. SUFFICES ASSUME NEW n \in DOMAIN NextNodes PROVE NextNodes[n] \in NodeRec
    OBVIOUS
  <2>1. CASE n \in Starts
    BY <1>0, <2>1, MadeNodes
  <2>2. CASE n \notin Starts
    BY <1>0, <2>2, LeftNodes, Lookups
  <2>. QED BY <2>1, <2>2
<1>4. NextNodes \in [DOMAIN NextNodes -> NodeRec]
  <2>1. NextNodes = [n \in DOMAIN NextNodes |-> NextNodes[n]]
    BY DEF NextNodes
  <2>. QED BY <1>3, <2>1
<1>5. ASSUME NEW n \in DOMAIN NextNodes
      PROVE  /\ n # 0 => n = Min(BlockKeys(NextNodes[n]))
             /\ \A k \in Keys :
                  \/ NextNodes[n].mem[k] # Absent \/ NextNodes[n].blk[k] # Absent
                  \/ NextNodes[n].locks[k] # Free
                  => Seek(E, k) = n
  <2>1. CASE n \in Starts
    BY <1>0, <1>1, <2>1, MadeNodes
  <2>2. CASE n \notin Starts
    <3>1. NextNodes[n] = nodes[n] /\ n \in DOMAIN nodes /\ n \notin Fulls
      BY <1>0, <2>2, LeftNodes
    <3>2. n # 0 => n = Min(BlockKeys(nodes[n]))
      BY <1>0, <3>1 DEF RangesHold
    <3>3. ASSUME NEW k \in Keys, \/ nodes[n].mem[k] # Absent \/ nodes[n].blk[k] # Absent
                                 \/ nodes[n].locks[k] # Free
          PROVE  Seek(E, k) = n
      <4>1. Floor(k) = n
        BY <1>0, <3>1, <3>3 DEF RangesHold
      <4>. QED BY <1>0, <1>1, <3>1, <4>1, Recutting
    <3>. QED BY <3>1, <3>2, <3>3
  <2>. QED BY <2>1, <2>2
<1>6. RangesHold'
  <2>1. \A n \in DOMAIN nodes' :
          /\ n # 0 => n = Min(BlockKeys(nodes'[n]))
          /\ \A k \in Keys :
               \/ nodes'[n].mem[k] # Absent \/ nodes'[n].blk[k] # Absent
               \/ nodes'[n].locks[k] # Free
               => Floor(k)' = n
    BY <1>2, <1>5
  <2>. QED BY <2>1 DEF RangesHold
<1>7. ASSUME NEW n \in DOMAIN NextNodes, NEW k \in Keys, NextNodes[n].locks[k] # Free
      PROVE  n \in DOMAIN nodes /\ n \notin Fulls /\ NextNodes[n] = nodes[n]
  <2>1. n \notin Starts
    BY <1>0, <1>7, MadeNodes
  <2>. QED BY <1>0, <2>1, LeftNodes
<1>8. LocksHome'
  BY <1>0, <1>7 DEF LocksHome
<1>9. ASSUME NEW n \in DOMAIN nodes, NEW k \in Keys, n \notin Fulls, Floor(k) = n
      PROVE  n \in DOMAIN nodes' /\ nodes'[n] = nodes[n] /\ Floor(k)' = n
  BY <1>0, <1>1, <1>2, <1>9, LeftNode, Recutting
<1>10. DOMAIN nodes' \subseteq Keys \cup {0}
  BY <1>0, Recutting
<1>. QED BY <1>4, <1>6, <1>7, <1>8, <1>9, <1>10

\* Until a weakness is met the nodes that a balance replaces have no locks.
LEMMA FullsUnlocked ==
  ASSUME IInv, broken = 0,
         reach = reach \cup {x \in Txns : \E a \in Range(group[x]) : a.node \in Fulls}
  PROVE  /\ \A x \in Txns : \A i \in DOMAIN group[x] : group[x][i].node \notin Fulls
         /\ \A n \in Fulls, k \in Keys : nodes[n].locks[k] = Free
<1>0. Shape /\ LocksHome /\ Owned /\ reach = {}
  BY DEF IInv, Sound
<1>1. ASSUME NEW x \in Txns, NEW i \in DOMAIN group[x]
      PROVE  group[x][i].node \notin Fulls
  <2>1. group[x][i] \in Range(group[x])
    BY DEF Range
  <2>. QED BY <1>0, <2>1
<1>2. ASSUME NEW n \in Fulls, NEW k \in Keys, nodes[n].locks[k] # Free PROVE FALSE
  <2>1. PICK l : l = nodes[n].locks[k]
    OBVIOUS
  <2>2. n \in DOMAIN nodes
    BY DEF Fulls
  <2>3. l.node = n /\ l.txn \in Txns
    BY <1>0, <1>2, <2>1, <2>2, Lookups, AtomNotFree DEF LocksHome
  <2>4. PICK i \in DOMAIN group[l.txn] : group[l.txn][i] = l
    BY <1>0, <1>2, <2>1, <2>2 DEF Owned
  <2>. QED BY <1>1, <2>3, <2>4
<1>. QED BY <1>1, <1>2

LEMMA BalanceIInv ==
  ASSUME IInv, Balance
  PROVE  IInv'
<1>0. /\ Running /\ pending > 0 /\ pending' = pending - 1 /\ balance' = FALSE
      /\ corrupt' = (DOMAIN NextNodes = {})
      /\ nodes' = IF corrupt' THEN nodes ELSE NextNodes
      /\ reach' = reach \cup {x \in Txns : \E a \in Range(group[x]) : a.node \in Fulls}
      /\ Meets(corrupt' \/ reach' # reach)
      /\ UNCHANGED <<group, status, tails>>
  BY BalanceDoes
<1>1. Shape /\ RangesHold /\ LocksHome /\ AtomsHome
  BY DEF IInv
<1>2. broken' \in 0 .. MaxAfter + 1 /\ (broken' = 0 => broken = 0 /\ ~corrupt' /\ reach' = reach)
  BY <1>0, <1>1, Counted DEF Meets
<1>3. corrupt' \in BOOLEAN
  <2>1. (DOMAIN NextNodes = {}) \in BOOLEAN
    OBVIOUS
  <2>. QED BY <1>0, <2>1
<1>4. pending' \in 0 .. MaxPending /\ reach \subseteq reach' /\ reach' \subseteq Txns
  <2>1. pending' \in 0 .. MaxPending
    BY <1>0, <1>1, SSetAssumption DEF Shape
  <2>2. reach \subseteq reach' /\ reach' \subseteq Txns
    BY <1>0, <1>1 DEF Shape
  <2>. QED BY <2>1, <2>2
<1>5. CASE corrupt'
  <2>1. nodes' = nodes /\ group' = group
    BY <1>0, <1>5
  <2>2. RangesHold' /\ LocksHome' /\ AtomsHome'
    BY <1>1, <1>4, <2>1, HomeSame
  <2>3. Shape'
    BY <1>0, <1>1, <1>2, <1>3, <1>4, <2>1 DEF Shape
  <2>4. Sound'
    BY <1>2, <1>5 DEF Sound
  <2>. QED BY <2>2, <2>3, <2>4 DEF IInv
<1>6. CASE ~corrupt'
  <2>0. nodes' = NextNodes /\ DOMAIN NextNodes # {}
    BY <1>0, <1>6
  <2>1. DOMAIN nodes' \subseteq Keys \cup {0} /\ nodes' \in [DOMAIN nodes' -> NodeRec]
    BY <2>0, BalanceLeaves
  <2>2. RangesHold' /\ LocksHome'
    BY <2>0, BalanceLeaves
  <2>3. \A n \in DOMAIN nodes, k \in Keys : n \notin Fulls /\ Floor(k) = n =>
          n \in DOMAIN nodes' /\ nodes'[n] = nodes[n] /\ Floor(k)' = n
    BY <2>0, BalanceLeaves
  <2>4. \A n \in DOMAIN nodes', k \in Keys : nodes'[n].locks[k] # Free =>
          n \in DOMAIN nodes /\ n \notin Fulls /\ nodes'[n] = nodes[n]
    BY <2>0, BalanceLeaves
  <2>5. Shape'
    BY <1>0, <1>1, <1>2, <1>3, <1>4, <2>0, <2>1 DEF Shape
  <2>6. ASSUME NEW x \in Txns, NEW i \in DOMAIN group[x], x \notin reach'
        PROVE  /\ group[x][i].node \in DOMAIN nodes
               /\ nodes'[group[x][i].node] = nodes[group[x][i].node]
               /\ group[x][i].node \in DOMAIN nodes'
               /\ Floor(group[x][i].key)' = group[x][i].node
    <3>1. /\ group[x][i].node \in DOMAIN nodes
          /\ Floor(group[x][i].key) = group[x][i].node
      BY <1>1, <1>4, <2>6 DEF AtomsHome
    <3>2. group[x][i].node \notin Fulls
      <4>1. group[x][i] \in Range(group[x])
        BY DEF Range
      <4>. QED BY <1>0, <2>6, <4>1
    <3>3. group[x][i].key \in Keys
      <4>1. group[x][i] \in Atoms
        BY <1>1, LenProperties DEF Shape
      <4>. QED BY <4>1, AtomNotFree
    <3>4. PICK k \in Keys, n \in DOMAIN nodes : k = group[x][i].key /\ n = group[x][i].node
      BY <3>1, <3>3
    <3>5. n \in DOMAIN nodes' /\ nodes'[n] = nodes[n] /\ Floor(k)' = n
      BY <2>3, <3>1, <3>2, <3>4
    <3>6. group' = group
      BY <1>0
    <3>7. Floor(group[x][i].key)' = Floor(k)'
      BY <3>4, <3>6
    <3>. QED BY <3>4, <3>5, <3>7
  <2>7. AtomsHome'
    BY <1>0, <2>6 DEF AtomsHome
  <2>8. ASSUME broken' = 0 PROVE Listed' /\ Unended' /\ Owned' /\ reach' = {} /\ tails' = {}
    <3>0. broken = 0 /\ Listed /\ Unended /\ Owned /\ reach' = {} /\ tails' = {}
      BY <1>0, <1>2, <2>8 DEF IInv, Sound
    <3>1. Listed'
      <4>0. group' = group
        BY <1>0
      <4>. SUFFICES ASSUME NEW y \in Txns, NEW i \in DOMAIN group[y]
                    PROVE  /\ group[y][i].txn = y
                           /\ nodes'[group[y][i].node].locks[group[y][i].key] = group[y][i]
                           /\ Meant(group[y][i])
                           /\ \A j \in DOMAIN group[y] :
                                group[y][i].key = group[y][j].key => i = j
        BY <4>0 DEF Listed
      <4>1. nodes'[group[y][i].node] = nodes[group[y][i].node]
        BY <2>6, <3>0
      <4>2. /\ group[y][i].txn = y
            /\ nodes[group[y][i].node].locks[group[y][i].key] = group[y][i]
            /\ Meant(group[y][i])
            /\ \A j \in DOMAIN group[y] : group[y][i].key = group[y][j].key => i = j
        BY <3>0, Zenon DEF Listed
      <4>. QED BY <4>1, <4>2, Zenon
    <3>2. Unended'
      BY <1>0, <3>0 DEF Unended
    <3>3. Owned'
      <4>0. group' = group
        BY <1>0
      <4>. SUFFICES ASSUME NEW n \in DOMAIN nodes', NEW j \in Keys, nodes'[n].locks[j] # Free
                    PROVE  \E i \in DOMAIN group[nodes'[n].locks[j].txn] :
                             group[nodes'[n].locks[j].txn][i] = nodes'[n].locks[j]
        BY <4>0 DEF Owned
      <4>1. n \in DOMAIN nodes /\ nodes'[n] = nodes[n]
        BY <2>4
      <4>2. PICK l : l = nodes[n].locks[j]
        OBVIOUS
      <4>3. \E i \in DOMAIN group[nodes[n].locks[j].txn] :
              group[nodes[n].locks[j].txn][i] = nodes[n].locks[j]
        BY <3>0, <4>1 DEF Owned
      <4>4. \E i \in DOMAIN group[l.txn] : group[l.txn][i] = l
        BY <4>2, <4>3
      <4>5. l = nodes'[n].locks[j]
        BY <4>1, <4>2
      <4>. QED BY <4>4, <4>5
    <3>. QED BY <3>0, <3>1, <3>2, <3>3
  <2>9. Sound'
    BY <1>6, <2>8 DEF Sound
  <2>. QED BY <2>2, <2>5, <2>7, <2>9 DEF IInv
<1>. QED BY <1>5, <1>6

\* The atoms of the calls are for the node that a lookup of the key finds.
LEMMA AtomsOfCall ==
  ASSUME Shape, NEW x \in Txns \cup {NoTxn}, NEW k \in Keys,
         NEW t1 \in {"INSERT", "REMOVE"}, NEW v1 \in Vals \cup {Deleted},
         NEW t2 \in {"INSERT", "REMOVE"}, NEW v2 \in Vals \cup {Deleted},
         NEW n, n = Floor(k)
  PROVE  /\ Call(x, k, <<Atom(x, n, t1, k, v1)>>)
         /\ Call(x, k, <<Atom(x, n, t1, k, v1), Atom(x, n, t2, k, v2)>>)
<1>1. n \in Keys \cup {0}
  BY Lookups DEF Shape
<1>2. PICK a, b : a = Atom(x, n, t1, k, v1) /\ b = Atom(x, n, t2, k, v2)
  OBVIOUS
<1>3. /\ a \in AnyAtom /\ a.txn = x /\ a.key = k /\ a.node = n
      /\ b \in AnyAtom /\ b.txn = x /\ b.key = k /\ b.node = n
  BY <1>1, <1>2 DEF Atom, AnyAtom
<1>4. Call(x, k, <<a>>)
  BY <1>3 DEF Call
<1>5. Call(x, k, <<a, b>>)
  BY <1>3 DEF Call
<1>. QED BY <1>2, <1>4, <1>5

LEMMA AddIInv ==
  ASSUME IInv, NEW x \in Txns \cup {NoTxn}, Open(x), NEW k \in Keys, Lock(k) = Free,
         NEW as, Call(x, k, as), \A i \in DOMAIN as : Meant(as[i]),
         NEW flag \in BOOLEAN, Add(x, as, flag)
  PROVE  IInv'
<1>0. Running
  BY DEF Open
<1>1. CASE x = NoTxn
  BY <1>0, <1>1, WriteIInv DEF Add
<1>2. CASE x # NoTxn
  BY <1>2, TxnWriteIInv DEF Add
<1>. QED BY <1>1, <1>2

LEMMA InsertIInv ==
  ASSUME IInv, NEW x \in Txns \cup {NoTxn}, NEW k \in Keys, NEW v \in Vals,
         NEW allow \in BOOLEAN, Insert(x, k, v, allow)
  PROVE  IInv'
<1>0. Shape /\ Open(x) /\ ~Locked(x, k)
  BY DEF IInv, Insert
<1>1. CASE Lock(k) # Free
  <2>1. PICK a : a = Lock(k)
    OBVIOUS
  <2>2. TxnUpdate(x, a, "INSERT", v)
    BY <1>1, <2>1 DEF Insert
  <2>. QED BY <1>0, <1>1, <2>1, <2>2, TxnUpdateIInv
<1>2. CASE Lock(k) = Free
  <2>1. PICK n : n = Floor(k)
    OBVIOUS
  <2>2. PICK as : as = <<Atom(x, n, "INSERT", k, v)>>
    OBVIOUS
  <2>3. PICK flag \in BOOLEAN : flag = Full(n)
    <3>1. Full(n) \in BOOLEAN
      BY DEF Full
    <3>. QED BY <3>1
  <2>4. Add(x, as, flag)
    BY <1>2, <2>1, <2>2, <2>3 DEF Insert
  <2>5. Call(x, k, as)
    BY <1>0, <2>1, <2>2, AtomsOfCall
  <2>6. \A i \in DOMAIN as : Meant(as[i])
    BY <2>2 DEF Atom, Meant
  <2>. QED BY <1>0, <1>2, <2>4, <2>5, <2>6, AddIInv
<1>. QED BY <1>1, <1>2

LEMMA RemoveIInv ==
  ASSUME IInv, NEW x \in Txns \cup {NoTxn}, NEW k \in Keys, RemoveKey(x, k)
  PROVE  IInv'
<1>0. Shape /\ Open(x) /\ ~Locked(x, k)
  BY DEF IInv, RemoveKey
<1>1. CASE Lock(k) # Free
  <2>1. PICK a : a = Lock(k)
    OBVIOUS
  <2>2. TxnUpdate(x, a, "REMOVE", Deleted)
    BY <1>1, <2>1 DEF RemoveKey
  <2>. QED BY <1>0, <1>1, <2>1, <2>2, TxnUpdateIInv
<1>2. CASE Lock(k) = Free
  <2>1. PICK n : n = Floor(k)
    OBVIOUS
  <2>2. PICK as : as = <<Atom(x, n, "REMOVE", k, Deleted)>>
    OBVIOUS
  <2>3. PICK flag \in BOOLEAN : flag = balance
    BY <1>0 DEF Shape
  <2>4. Add(x, as, flag)
    BY <1>2, <2>1, <2>2, <2>3 DEF RemoveKey
  <2>5. Call(x, k, as)
    BY <1>0, <2>1, <2>2, AtomsOfCall
  <2>6. \A i \in DOMAIN as : Meant(as[i])
    BY <2>2 DEF Atom, Meant
  <2>. QED BY <1>0, <1>2, <2>4, <2>5, <2>6, AddIInv
<1>. QED BY <1>1, <1>2

LEMMA UpdateIInv ==
  ASSUME IInv, NEW x \in Txns \cup {NoTxn}, NEW k \in Keys, NEW v \in Vals, Update(x, k, v)
  PROVE  IInv'
<1>0. Shape /\ Open(x) /\ Running /\ ~Locked(x, k)
  BY DEF IInv, Update, Open
<1>1. CASE Lock(k) # Free
  BY <1>0, <1>1, UpdateCorruptIInv DEF Update
<1>2. CASE Lock(k) = Free
  <2>1. PICK n : n = Floor(k)
    OBVIOUS
  <2>2. PICK as : as = <<Atom(x, n, "REMOVE", k, Deleted), Atom(x, n, "INSERT", k, v)>>
    OBVIOUS
  <2>3. PICK flag \in BOOLEAN : flag = Full(n)
    <3>1. Full(n) \in BOOLEAN
      BY DEF Full
    <3>. QED BY <3>1
  <2>4. Add(x, as, flag)
    BY <1>2, <2>1, <2>2, <2>3 DEF Update
  <2>5. Call(x, k, as)
    BY <1>0, <2>1, <2>2, AtomsOfCall
  <2>6. \A i \in DOMAIN as : Meant(as[i])
    <3>1. DOMAIN as = {1, 2} /\ Meant(as[1]) /\ Meant(as[2])
      BY <2>2 DEF Atom, Meant
    <3>. QED BY <3>1
  <2>. QED BY <1>0, <1>2, <2>4, <2>5, <2>6, AddIInv
<1>. QED BY <1>1, <1>2

LEMMA CommitIInv ==
  ASSUME IInv, NEW x \in Txns, CommitTxn(x) \/ RollbackTxn(x)
  PROVE  IInv'
<1>1. CASE CommitTxn(x)
  <2>1. PICK weak \in BOOLEAN :
          weak = \E i \in DOMAIN group[x] :
                   LET a == group[x][i]
                   IN  x \notin reach /\ Uncovers(nodes[a.node], a)
    OBVIOUS
  <2>2. EndTxn(x, "committed", weak)
    BY <1>1, <2>1 DEF CommitTxn
  <2>. QED BY <2>2, EndIInv
<1>2. CASE RollbackTxn(x)
  <2>1. PICK weak \in BOOLEAN : weak = FALSE
    OBVIOUS
  <2>2. EndTxn(x, "rolledback", weak)
    BY <1>2, <2>1 DEF RollbackTxn
  <2>. QED BY <2>2, EndIInv
<1>. QED BY <1>1, <1>2

LEMMA NextIInv == IInv /\ [Next]_vars => IInv'
<1>. SUFFICES ASSUME IInv, [Next]_vars PROVE IInv'
  OBVIOUS
<1>1. ASSUME NEW x \in Txns \cup {NoTxn}, NEW k \in Keys, NEW v \in Vals,
             NEW allow \in BOOLEAN, Insert(x, k, v, allow)
      PROVE  IInv'
  BY <1>1, InsertIInv
<1>2. ASSUME NEW x \in Txns \cup {NoTxn}, NEW k \in Keys, NEW allow \in BOOLEAN,
             InsertFails(x, k, allow)
      PROVE  IInv'
  BY <1>2, FailIInv DEF InsertFails
<1>3. ASSUME NEW x \in Txns \cup {NoTxn}, NEW k \in Keys, NEW v \in Vals, Update(x, k, v)
      PROVE  IInv'
  BY <1>3, UpdateIInv
<1>4. ASSUME NEW x \in Txns \cup {NoTxn}, NEW k \in Keys, RemoveKey(x, k)
      PROVE  IInv'
  BY <1>4, RemoveIInv
<1>5. ASSUME NEW x \in Txns \cup {NoTxn}, NEW k \in Keys, RemoveFails(x, k)
      PROVE  IInv'
  BY <1>5, FailIInv DEF RemoveFails
<1>6. ASSUME NEW x \in Txns, CommitTxn(x) \/ RollbackTxn(x)
      PROVE  IInv'
  BY <1>6, CommitIInv
<1>7. CASE Balance
  BY <1>7, BalanceIInv
<1>8. CASE UNCHANGED vars
  <2>1. UNCHANGED <<nodes, group, status, balance, pending, reach, tails, corrupt, broken>>
    BY <1>8 DEF vars
  <2>2. RangesHold' /\ LocksHome' /\ AtomsHome'
    BY <2>1, HomeSame DEF IInv
  <2>3. Shape' /\ Sound'
    BY <2>1 DEF IInv, Shape, Sound, Listed, Unended, Owned
  <2>. QED BY <2>2, <2>3 DEF IInv
<1>. QED BY <1>1, <1>2, <1>3, <1>4, <1>5, <1>6, <1>7, <1>8 DEF Next

LEMMA SetInvariant == Spec => []IInv
<1>. QED BY InitIInv, NextIInv, PTL DEF Spec

\* The types of the state of the set.
THEOREM SetTypes == Spec => []TypeOK
<1>1. IInv => TypeOK
  <2>. SUFFICES ASSUME IInv PROVE TypeOK
    OBVIOUS
  <2>0. Shape
    BY DEF IInv
  <2>1. ASSUME NEW n \in DOMAIN nodes
        PROVE  /\ nodes[n].mem \in [Keys -> Items]
               /\ nodes[n].blk \in [Keys -> Vals \cup {Absent}]
               /\ nodes[n].locks \in [Keys -> Atoms \cup {Free}]
               /\ nodes[n].buf \in 0 .. SyncSize
    BY <2>0 DEF Shape, NodeRec
  <2>2. ASSUME NEW x \in Txns PROVE Range(group[x]) \subseteq Atoms
    <3>1. group[x] \in Seq(Atoms)
      BY <2>0 DEF Shape
    <3>2. \A i \in DOMAIN group[x] : group[x][i] \in Atoms
      BY <3>1, LenProperties
    <3>. QED BY <3>2 DEF Range
  <2>. QED BY <2>0, <2>1, <2>2 DEF TypeOK, Shape
<1>. QED BY <1>1, SetInvariant, PTL

LEMMA LockedIffAtomHolds == IInv => LockedIffAtom
<1>. SUFFICES ASSUME IInv, broken = 0, NEW k \in Keys, NEW x \in Txns
              PROVE  /\ {i \in DOMAIN group[x] : group[x][i].key = k}
                          = {i \in DOMAIN group[x] : group[x][i] = Lock(k)}
                     /\ OwnLocks(nodes[Floor(k)], x) \cap {k} # {} =>
                          Cardinality({i \in DOMAIN group[x] : group[x][i].key = k}) = 1
  BY DEF LockedIffAtom
<1>0. /\ Shape /\ LocksHome /\ AtomsHome /\ Listed /\ Owned /\ reach = {}
      /\ Floor(k) \in DOMAIN nodes
  <2>1. Shape
    BY DEF IInv
  <2>. QED BY <2>1, Lookups DEF IInv, Sound
<1>1. ASSUME NEW i \in DOMAIN group[x]
      PROVE  group[x][i].key = k <=> group[x][i] = Lock(k)
  <2>1. group[x][i] \in Atoms
    BY <1>0, LenProperties DEF Shape
  <2>2. ASSUME group[x][i].key = k PROVE group[x][i] = Lock(k)
    BY <1>0, <2>2 DEF Listed, AtomsHome, Lock
  <2>3. ASSUME group[x][i] = Lock(k) PROVE group[x][i].key = k
    <3>1. Lock(k) # Free
      BY <2>1, <2>3, AtomNotFree
    <3>. QED BY <1>0, <2>3, <3>1 DEF LocksHome, Lock
  <2>. QED BY <2>2, <2>3
<1>2. PICK I : I = {i \in DOMAIN group[x] : group[x][i].key = k}
  OBVIOUS
<1>3. ASSUME OwnLocks(nodes[Floor(k)], x) \cap {k} # {} PROVE Cardinality(I) = 1
  <2>1. Lock(k) # Free /\ Lock(k).txn = x
    BY <1>3 DEF OwnLocks, Lock
  <2>2. PICK i \in DOMAIN group[x] : group[x][i] = Lock(k)
    BY <1>0, <2>1 DEF Owned, Lock
  <2>3. group[x][i].key = k
    BY <1>1, <2>2
  <2>4. I = {i}
    BY <1>0, <1>2, <2>3 DEF Listed
  <2>. QED BY <2>4, FS_Singleton
<1>. QED BY <1>1, <1>2, <1>3

\* Until a weakness is met, a key is locked exactly by the transaction whose
\* list has its atom, once (__sset_txn_add, __sset_txn_commit, __object_apply,
\* __object_revert, __object_balance): the end of a transaction leaves no lock
\* behind and frees none of another.
THEOREM SetLocksHaveAtoms == Spec => []LockedIffAtom
<1>. QED BY SetInvariant, LockedIffAtomHolds, PTL

-----------------------------------------------------------------------------
(* The set implements a store with transactions.                           *)

Shown(k) == Visible(nodes[Floor(k)], k)
OpenOr(x) == IF status[x] = "failed" THEN "open" ELSE status[x]

LEMMA StoreIs ==
  /\ Committed = [k \in Keys |-> Shown(k)]
  /\ Committed' = [k \in Keys |-> Shown(k)']
  /\ \A k \in Keys : /\ Staged(k) = IF Lock(k) = Free THEN Shown(k)
                                    ELSE IF Lock(k).type = "REMOVE" THEN Absent ELSE Lock(k).val
                     /\ Staged(k)' = IF Lock(k)' = Free THEN Shown(k)'
                                     ELSE IF Lock(k)'.type = "REMOVE" THEN Absent
                                          ELSE Lock(k)'.val
BY DEF Committed, Staged, Shown

LEMMA StoreSame ==
  ASSUME \A k \in Keys : Shown(k)' = Shown(k) /\ Lock(k)' = Lock(k),
         \A x \in Txns : OpenOr(x)' = OpenOr(x)
  PROVE  UNCHANGED Store!vars
<1>1. Committed' = Committed
  BY StoreIs
<1>2. [k \in Keys |-> Lock(k).txn]' = [k \in Keys |-> Lock(k).txn]
  OBVIOUS
<1>3. [k \in Keys |-> Staged(k)]' = [k \in Keys |-> Staged(k)]
  BY StoreIs
<1>4. [x \in Txns |-> IF status[x] = "failed" THEN "open" ELSE status[x]]'
        = [x \in Txns |-> IF status[x] = "failed" THEN "open" ELSE status[x]]
  BY DEF OpenOr
<1>. QED BY <1>1, <1>2, <1>3, <1>4 DEF Store!vars

LEMMA InitRefines == Init => Store!Init
<1>. SUFFICES ASSUME Init PROVE Store!Init
  OBVIOUS
<1>0. IInv
  BY InitIInv
<1>1. nodes = [n \in {0} |-> NewNode(Nothing(Absent))]
  BY DEF Init
<1>2. PICK nd : nd = NewNode(Nothing(Absent))
  OBVIOUS
<1>3. ASSUME NEW k \in Keys PROVE Shown(k) = Absent /\ Lock(k) = Free /\ Staged(k) = Absent
  <2>1. Floor(k) \in DOMAIN nodes
    BY <1>0, Lookups DEF IInv
  <2>2. nodes[Floor(k)] = nd
    BY <1>1, <1>2, <2>1
  <2>3. nd.mem[k] = Absent /\ nd.blk[k] = Absent /\ nd.locks[k] = Free
    BY <1>2 DEF NewNode, Nothing
  <2>4. Visible(nd, k) = Absent
    BY <2>3, SSetAssumption DEF Visible
  <2>5. Shown(k) = Absent /\ Lock(k) = Free
    BY <2>2, <2>3, <2>4 DEF Shown, Lock
  <2>. QED BY <2>5, StoreIs
<1>4. Committed = [k \in Keys |-> Absent]
  BY <1>3, StoreIs
<1>5. [k \in Keys |-> Lock(k).txn] = [k \in Keys |-> NoTxn]
  BY <1>3 DEF Free
<1>6. [k \in Keys |-> Staged(k)] = Committed
  BY <1>3, <1>4
<1>7. [x \in Txns |-> IF status[x] = "failed" THEN "open" ELSE status[x]]
        = [x \in Txns |-> "open"]
  BY DEF Init
<1>. QED BY <1>4, <1>5, <1>6, <1>7 DEF Store!Init

LEMMA FailRefines ==
  ASSUME IInv, NEW x \in Txns \cup {NoTxn}, Open(x), Fail(x)
  PROVE  UNCHANGED Store!vars
<1>1. nodes' = nodes
  BY DEF Fail
<1>2. \A k : Floor(k)' = Floor(k)
  BY <1>1, FloorSame
<1>3. \A k \in Keys : Shown(k)' = Shown(k) /\ Lock(k)' = Lock(k)
  BY <1>1, <1>2 DEF Shown, Lock
<1>4. ASSUME NEW y \in Txns PROVE OpenOr(y)' = OpenOr(y)
  BY DEF IInv, Shape, Fail, Open, OpenOr
<1>. QED BY <1>3, <1>4, StoreSame

LEMMA BalanceRefines ==
  ASSUME IInv, Balance, broken' = 0
  PROVE  UNCHANGED Store!vars
<1>0. /\ Running /\ corrupt' = (DOMAIN NextNodes = {})
      /\ nodes' = IF corrupt' THEN nodes ELSE NextNodes
      /\ reach' = reach \cup {x \in Txns : \E a \in Range(group[x]) : a.node \in Fulls}
      /\ Meets(corrupt' \/ reach' # reach)
      /\ UNCHANGED <<group, status, tails>>
  BY BalanceDoes
<1>1. Shape /\ RangesHold
  BY DEF IInv
<1>2. broken = 0 /\ ~corrupt' /\ reach' = reach
  BY <1>0, <1>1, Counted DEF Meets
<1>3. nodes' = NextNodes /\ DOMAIN NextNodes # {}
  BY <1>0, <1>2
<1>4. /\ nodes' \in [DOMAIN nodes' -> NodeRec] /\ RangesHold'
  BY <1>3, BalanceLeaves
<1>5. \A n \in DOMAIN nodes, k \in Keys : n \notin Fulls /\ Floor(k) = n =>
        n \in DOMAIN nodes' /\ nodes'[n] = nodes[n] /\ Floor(k)' = n
  BY <1>3, BalanceLeaves
<1>6. \A n \in DOMAIN nodes', k \in Keys : nodes'[n].locks[k] # Free =>
        n \in DOMAIN nodes /\ n \notin Fulls /\ nodes'[n] = nodes[n]
  BY <1>3, BalanceLeaves
<1>7. \A n \in Fulls, k \in Keys : nodes[n].locks[k] = Free
  BY <1>0, <1>2, FullsUnlocked
<1>8. ASSUME NEW k \in Keys PROVE Shown(k)' = Shown(k) /\ Lock(k)' = Lock(k)
  <2>0. Floor(k) \in DOMAIN nodes
    BY <1>1, Lookups
  <2>1. CASE Floor(k) \notin Fulls
    <3>1. nodes'[Floor(k)] = nodes[Floor(k)] /\ Floor(k)' = Floor(k)
      BY <1>5, <2>0, <2>1
    <3>. QED BY <3>1 DEF Shown, Lock
  <2>2. CASE Floor(k) \in Fulls
    <3>1. PICK m : m = Floor(k)'
      OBVIOUS
    <3>2. m = Seek(DOMAIN NextNodes, k)
      BY <1>3, <3>1, FloorIsSeek
    <3>3. m \in DOMAIN NextNodes
      <4>1. PICK E : E = DOMAIN NextNodes
        OBVIOUS
      <4>2. E # {} /\ E \subseteq Nat /\ IsFiniteSet(E)
        BY <1>1, <1>3, <4>1, Recutting, Assumed
      <4>3. Seek(E, k) \in E
        BY <4>2, Assumed, SeekIs
      <4>. QED BY <3>2, <4>1, <4>3
    <3>4. Lock(k)' = nodes'[m].locks[k] /\ Shown(k)' = Visible(nodes'[m], k)
      BY <3>1 DEF Lock, Shown
    <3>5. nodes'[m] \in NodeRec /\ m \in DOMAIN nodes'
      BY <1>3, <1>4, <3>3
    <3>6. m \in DOMAIN nodes /\ m \notin Fulls /\ nodes'[m] = nodes[m] =>
            /\ nodes'[m].mem[k] = Absent /\ nodes'[m].blk[k] = Absent
            /\ nodes'[m].locks[k] = Free
      BY <1>1, <2>2 DEF RangesHold
    <3>7. Lock(k)' = Free
      BY <1>6, <3>4, <3>5, <3>6
    <3>8. Lock(k) = Free
      BY <1>7, <2>2 DEF Lock
    <3>9. CASE Shown(k) # Absent
      <4>1. m \in Starts /\ NextNodes[m].blk[k] = Shown(k)
        BY <1>1, <2>2, <3>2, <3>9, MovedKey DEF Shown
      <4>2. NextNodes[m].mem[k] = Absent
        BY <1>1, <4>1, MadeNodes
      <4>3. Visible(nodes'[m], k) = nodes'[m].blk[k]
        BY <1>3, <3>5, <4>2, VisibleIs
      <4>. QED BY <1>3, <3>4, <3>7, <3>8, <4>1, <4>3
    <3>10. CASE Shown(k) = Absent
      <4>1. CASE m \in Starts
        <5>1. /\ NextNodes[m].mem[k] = Absent
              /\ NextNodes[m].blk[k] # Absent => NextNodes[m].blk[k] = Shown(k)
          BY <1>1, <4>1, MadeNodes DEF Shown
        <5>2. Visible(nodes'[m], k) = nodes'[m].blk[k]
          BY <1>3, <3>5, <5>1, VisibleIs
        <5>. QED BY <1>3, <3>4, <3>7, <3>8, <3>10, <5>1, <5>2
      <4>2. CASE m \notin Starts
        <5>1. nodes'[m].mem[k] = Absent /\ nodes'[m].blk[k] = Absent
          BY <1>1, <1>3, <3>3, <3>6, <4>2, LeftNodes
        <5>2. Visible(nodes'[m], k) = Absent
          BY <3>5, <5>1, VisibleIs
        <5>. QED BY <3>4, <3>7, <3>8, <3>10, <5>2
      <4>. QED BY <4>1, <4>2
    <3>. QED BY <3>9, <3>10
  <2>. QED BY <2>1, <2>2
<1>9. \A x \in Txns : OpenOr(x)' = OpenOr(x)
  BY <1>0 DEF OpenOr
<1>. QED BY <1>8, <1>9, StoreSame

LEMMA LastIn ==
  ASSUME NEW n \in Nat \ {0}
  PROVE  n \in 1 .. n /\ n - 1 \in 0 .. n
OBVIOUS

\* The last atom of a list that inserts leaves its value.
LEMMA LastInsert ==
  ASSUME NEW as, Doable(DOMAIN nodes, nodes, "committed", as),
         NEW n \in Nat \ {0}, n = Len(as), as[n].type # "REMOVE"
  PROVE  OnNodes("committed", as)[as[n].node].mem[as[n].key] = as[n].val
<1>1. PICK ns, D : ns = nodes /\ D = DOMAIN nodes
  OBVIOUS
<1>2. Doable(D, ns, "committed", as)
  BY <1>1
<1>3. PICK f : Runs(f, nodes, "committed", as) /\ OnNodes("committed", as) = f[Len(as)]
  BY OnNodesRuns
<1>4. Runs(f, ns, "committed", as)
  BY <1>1, <1>3
<1>5. PICK m \in Nat : Ran(D, ns, "committed", as, f, m)
  BY <1>2, <1>4, RunIs
<1>6. m = n /\ DOMAIN as = 1 .. n
  BY <1>5 DEF Ran
<1>7. n \in 1 .. n /\ n - 1 \in 0 .. n
  BY LastIn
<1>8. f[n] = OnNode("committed", f[n - 1], as[n]) /\ f[n - 1] \in [D -> NodeRec]
  BY <1>5, <1>6, <1>7 DEF Ran
<1>9. n \in DOMAIN as
  BY <1>6, <1>7
<1>10. as[n] \in AnyAtom /\ as[n].node \in D /\ "committed" \in Hows
  BY <1>2, <1>9, AtomTyped
<1>a. PICK a : a = as[n]
  OBVIOUS
<1>b. PICK old \in [D -> NodeRec] : old = f[n - 1]
  BY <1>8
<1>11. a = as[n] /\ old = f[n - 1]
  BY <1>a, <1>b
<1>12. Changed("committed", old[a.node], a, OnNode("committed", old, a)[a.node])
  <2>1. a \in AnyAtom /\ a.node \in D /\ "committed" \in Hows /\ "committed" # "attached"
    BY <1>10, <1>11
  <2>. QED BY <2>1, OnNodeIs
<1>13. OnNode("committed", old, a)[a.node].mem[a.key] = a.val
  BY <1>11, <1>12, ZenonT(60) DEF Changed, MemAfter
<1>. QED BY <1>3, <1>8, <1>11, <1>13

LEMMA OneAtom ==
  ASSUME NEW how, NEW a, NEW as, as = <<a>>, Doable(DOMAIN nodes, nodes, how, as)
  PROVE  /\ OnNodes(how, as)[a.node].locks[a.key]
              = LockAfter(how, nodes[a.node].locks[a.key], a)
         /\ OnNodes(how, as)[a.node].mem[a.key]
              = IF how = "committed" THEN MemAfter(nodes[a.node].mem[a.key], a)
                ELSE nodes[a.node].mem[a.key]
<1>1. DOMAIN as = {1} /\ as[1] = a /\ Len(as) = 1
  OBVIOUS
<1>2. DoneAt(nodes, how, as, Len(as), OnNodes(how, as))
  BY <1>1, ListLeaves
<1>3. 1 \in 1 .. Len(as)
  BY <1>1
<1>. QED BY <1>1, <1>2, <1>3 DEF DoneAt

\* Outside the key of the call everything is as it was.
LEMMA CallElsewhere ==
  ASSUME IInv, NEW x \in Txns \cup {NoTxn}, NEW k \in Keys, NEW as, Call(x, k, as),
         NEW how \in Hows, how = "attached" => x \in Txns, nodes' = OnNodes(how, as)
  PROVE  /\ \A j \in Keys : j # k => Shown(j)' = Shown(j) /\ Lock(j)' = Lock(j)
         /\ \A j : Floor(j)' = Floor(j)
         /\ nodes'[Floor(k)] \in NodeRec /\ nodes'[Floor(k)].blk = nodes[Floor(k)].blk
<1>0. Shape
  BY DEF IInv
<1>1. nodes' \in [DOMAIN nodes -> NodeRec] /\ DOMAIN nodes' = DOMAIN nodes
  BY CallLeaves
<1>2. \A n \in DOMAIN nodes : nodes'[n].blk = nodes[n].blk
  BY CallLeaves
<1>3. \A n \in DOMAIN nodes, j \in Keys : n # Floor(k) \/ j # k =>
        nodes'[n].mem[j] = nodes[n].mem[j] /\ nodes'[n].locks[j] = nodes[n].locks[j]
  BY CallLeaves
<1>4. \A j : Floor(j)' = Floor(j)
  BY <1>1, FloorSame
<1>5. ASSUME NEW j \in Keys, j # k PROVE Shown(j)' = Shown(j) /\ Lock(j)' = Lock(j)
  <2>1. Floor(j) \in DOMAIN nodes /\ Floor(j)' = Floor(j)
    BY <1>0, <1>4, Lookups
  <2>2. PICK n \in DOMAIN nodes : n = Floor(j)
    BY <2>1
  <2>3. /\ nodes'[n].mem[j] = nodes[n].mem[j] /\ nodes'[n].locks[j] = nodes[n].locks[j]
        /\ nodes'[n].blk[j] = nodes[n].blk[j]
    BY <1>2, <1>3, <1>5
  <2>4. Visible(nodes'[n], j) = Visible(nodes[n], j)
    BY <2>3 DEF Visible
  <2>5. Shown(j)' = Visible(nodes'[n], j) /\ Lock(j)' = nodes'[n].locks[j]
    BY <2>1, <2>2 DEF Shown, Lock
  <2>. QED BY <2>2, <2>3, <2>4, <2>5 DEF Shown, Lock
<1>6. Floor(k) \in DOMAIN nodes
  BY <1>0, Lookups
<1>. QED BY <1>1, <1>2, <1>4, <1>5, <1>6

\* A write outside the transactions shows the value it has been called with.
LEMMA WriteShows ==
  ASSUME IInv, NEW k \in Keys, Lock(k) = Free, NEW as, Call(NoTxn, k, as),
         nodes' = OnNodes("committed", as), NEW w,
         \/ \E a : /\ as = <<a>> /\ a.type = "REMOVE" /\ w = Absent
                   /\ ~Uncovers(nodes[Floor(k)], a)
         \/ \E n \in Nat \ {0} : n = Len(as) /\ as[n].type # "REMOVE" /\ as[n].val = w /\ w \in Vals
  PROVE  Shown(k)' = w /\ \A j \in Keys : Lock(j)' = Lock(j)
<1>0. Shape /\ "committed" \in Hows /\ NoTxn \in Txns \cup {NoTxn} /\ "committed" # "attached"
  BY DEF IInv, Hows
<1>1. Doable(DOMAIN nodes, nodes, "committed", as)
  BY <1>0, CallDoable
<1>a. PICK n \in DOMAIN nodes : n = Floor(k)
  BY <1>0, Lookups
<1>b. PICK nd \in NodeRec : nd = nodes[n]
  BY <1>0, Lookups
<1>2. n = Floor(k) /\ nd = nodes[n] /\ n \in DOMAIN nodes
  BY <1>a, <1>b
<1>3. \A j : Floor(j)' = Floor(j)
  BY <1>0, CallElsewhere
<1>4. PICK new \in NodeRec : new = nodes'[n] /\ new.blk = nd.blk
  BY <1>0, <1>2, CallElsewhere
<1>5. Shown(k)' = Visible(new, k)
  BY <1>2, <1>3, <1>4 DEF Shown
<1>6. ASSUME NEW j \in Keys PROVE Lock(j)' = Lock(j)
  <2>1. \A m \in DOMAIN nodes, i \in Keys : nodes'[m].locks[i] = nodes[m].locks[i]
    BY WriteLeaves
  <2>2. Floor(j) \in DOMAIN nodes /\ Floor(j)' = Floor(j)
    BY <1>0, <1>3, Lookups
  <2>. QED BY <2>1, <2>2, ZenonT(60) DEF Lock
<1>7. CASE \E a : /\ as = <<a>> /\ a.type = "REMOVE" /\ w = Absent
                  /\ ~Uncovers(nodes[Floor(k)], a)
  <2>1. PICK a : /\ as = <<a>> /\ a.type = "REMOVE" /\ w = Absent
                 /\ ~Uncovers(nodes[Floor(k)], a)
    BY <1>7
  <2>2. a.key = k /\ a.node = n
    <3>1. 1 \in DOMAIN as /\ as[1] = a
      BY <2>1
    <3>. QED BY <1>2, <3>1 DEF Call
  <2>3. nodes'[a.node].mem[a.key] = MemAfter(nodes[a.node].mem[a.key], a)
    BY <1>1, <2>1, OneAtom
  <2>4. new.mem[k] = IF nd.mem[k] = Absent THEN Deleted ELSE Absent
    BY <1>2, <1>4, <2>1, <2>2, <2>3 DEF MemAfter
  <2>5. nd.mem[k] # Absent => nd.blk[k] = Absent
    BY <1>2, <2>1, <2>2 DEF Uncovers
  <2>6. Visible(new, k) = Absent
    BY <1>4, <2>4, <2>5, VisibleIs, ZenonT(60)
  <2>. QED BY <1>5, <1>6, <2>1, <2>6
<1>8. CASE \E m \in Nat \ {0} : m = Len(as) /\ as[m].type # "REMOVE" /\ as[m].val = w /\ w \in Vals
  <2>1. PICK m \in Nat \ {0} : m = Len(as) /\ as[m].type # "REMOVE" /\ as[m].val = w /\ w \in Vals
    BY <1>8
  <2>2. as[m].key = k /\ as[m].node = n
    <3>1. PICK l \in Nat : l = Len(as) /\ DOMAIN as = 1 .. l
      BY <1>0, CallDoable
    <3>2. m \in DOMAIN as
      BY <2>1, <3>1, LastIn
    <3>. QED BY <1>2, <3>2 DEF Call
  <2>3. nodes'[n].mem[k] = w
    BY <1>1, <2>1, <2>2, LastInsert
  <2>4. w # Absent /\ w # Deleted
    BY <2>1, SSetAssumption
  <2>5. Visible(new, k) = w
    BY <1>4, <2>3, <2>4, VisibleIs
  <2>. QED BY <1>5, <1>6, <2>5
<1>. QED BY <1>7, <1>8

\* So it is a write of the store.
LEMMA WriteRefines ==
  ASSUME IInv, NEW k \in Keys, Lock(k) = Free, NEW as, Call(NoTxn, k, as),
         NEW flag \in BOOLEAN, Write(as, flag), NEW w \in Vals \cup {Absent},
         \/ \E a : /\ as = <<a>> /\ a.type = "REMOVE" /\ w = Absent
                   /\ ~Uncovers(nodes[Floor(k)], a)
         \/ \E n \in Nat \ {0} : n = Len(as) /\ as[n].type # "REMOVE" /\ as[n].val = w /\ w \in Vals
  PROVE  Store!Next /\ pending' >= pending
<1>0. "committed" \in Hows /\ NoTxn \in Txns \cup {NoTxn} /\ "committed" # "attached"
  BY DEF Hows
<1>1. nodes' = OnNodes("committed", as) /\ UNCHANGED status
  BY DEF Write
<1>2. Shown(k)' = w /\ \A j \in Keys : Lock(j)' = Lock(j)
  BY <1>1, WriteShows
<1>3. \A j \in Keys : j # k => Shown(j)' = Shown(j)
  BY <1>0, <1>1, CallElsewhere
<1>4. Committed' = [Committed EXCEPT ![k] = w]
  BY <1>2, <1>3, StoreIs
<1>5. [j \in Keys |-> Lock(j).txn]' = [j \in Keys |-> Lock(j).txn]
  BY <1>2
<1>6. [j \in Keys |-> Lock(j).txn][k] = NoTxn
  BY DEF Free
<1>7. \A j \in Keys : Staged(j)' = IF j = k THEN w ELSE Staged(j)
  BY <1>2, <1>3, StoreIs
<1>8. [j \in Keys |-> Staged(j)]' = [[j \in Keys |-> Staged(j)] EXCEPT ![k] = w]
  BY <1>7
<1>9. Store!Write(k, w)
  BY <1>1, <1>4, <1>5, <1>6, <1>8 DEF Store!Write, Put
<1>10. pending' >= pending
  BY DEF Write, Sched, IInv, Shape
<1>. QED BY <1>9, <1>10 DEF Store!Next

\* A write of a transaction is one of the store.
LEMMA TxnWriteRefines ==
  ASSUME IInv, NEW x \in Txns, Open(x), NEW k \in Keys, Lock(k) = Free,
         NEW a, NEW as, as = <<a>>, Call(x, k, as),
         NEW flag \in BOOLEAN, TxnWrite(x, as, flag), NEW w \in Vals \cup {Absent},
         w = IF a.type = "REMOVE" THEN Absent ELSE a.val
  PROVE  Store!Next /\ pending' >= pending
<1>0. Shape /\ "attached" \in Hows /\ x \in Txns \cup {NoTxn} /\ "attached" # "committed"
  BY DEF IInv, Hows
<1>1. nodes' = OnNodes("attached", as) /\ UNCHANGED status
  BY DEF TxnWrite
<1>2. \A j \in Keys : j # k => Shown(j)' = Shown(j) /\ Lock(j)' = Lock(j)
  BY <1>0, <1>1, CallElsewhere
<1>3. \A j : Floor(j)' = Floor(j)
  BY <1>0, <1>1, CallElsewhere
<1>4. PICK n \in DOMAIN nodes : n = Floor(k)
  BY <1>0, Lookups
<1>5. nodes'[n].blk = nodes[n].blk
  BY <1>0, <1>1, <1>4, CallElsewhere
<1>6. a.key = k /\ a.node = n /\ a.txn = x /\ a \in Atoms
  <2>1. 1 \in DOMAIN as /\ as[1] = a
    OBVIOUS
  <2>2. Doable(DOMAIN nodes, nodes, "attached", as)
    BY <1>0, CallDoable
  <2>. QED BY <1>4, <2>1, <2>2 DEF Call, Doable
<1>7. nodes'[n].locks[k] = a /\ nodes'[n].mem[k] = nodes[n].mem[k]
  <2>1. Doable(DOMAIN nodes, nodes, "attached", as)
    BY <1>0, CallDoable
  <2>. QED BY <1>0, <1>1, <1>6, <2>1, OneAtom DEF LockAfter
<1>8. Lock(k)' = a /\ Shown(k)' = Shown(k)
  <2>1. Visible(nodes'[n], k) = Visible(nodes[n], k)
    BY <1>5, <1>7 DEF Visible
  <2>2. Shown(k)' = Visible(nodes'[n], k) /\ Lock(k)' = nodes'[n].locks[k]
    BY <1>3, <1>4 DEF Shown, Lock
  <2>. QED BY <1>4, <1>7, <2>1, <2>2 DEF Shown
<1>9. a # Free
  BY <1>6, AtomNotFree
<1>10. Committed' = Committed
  BY <1>2, <1>8, StoreIs
<1>11. [j \in Keys |-> Lock(j).txn]' = [[j \in Keys |-> Lock(j).txn] EXCEPT ![k] = x]
  BY <1>2, <1>6, <1>8
<1>12. [j \in Keys |-> Lock(j).txn][k] = NoTxn
  BY DEF Free
<1>13. \A j \in Keys : Staged(j)' = IF j = k THEN w ELSE Staged(j)
  BY <1>2, <1>8, <1>9, StoreIs
<1>14. [j \in Keys |-> Staged(j)]' = [[j \in Keys |-> Staged(j)] EXCEPT ![k] = w]
  BY <1>13
<1>15. [y \in Txns |-> IF status[y] = "failed" THEN "open" ELSE status[y]][x] = "open"
  BY DEF Open
<1>16. Store!TxnWrite(x, k, w)
  BY <1>1, <1>10, <1>11, <1>12, <1>14, <1>15 DEF Store!TxnWrite, Put
<1>17. pending' >= pending
  BY DEF TxnWrite, Sched, IInv, Shape
<1>. QED BY <1>16, <1>17 DEF Store!Next

\* What the end of a transaction shows of a key.
LEMMA EndShows ==
  ASSUME IInv, broken = 0, NEW x \in Txns, NEW how \in {"committed", "rolledback"},
         nodes' = OnNodes(how, group[x]),
         how = "committed" => \A i \in DOMAIN group[x] :
           ~Uncovers(nodes[group[x][i].node], group[x][i]),
         NEW k \in Keys
  PROVE  /\ Lock(k).txn = x => /\ Lock(k)' = Free
                               /\ Shown(k)' = IF how = "committed" THEN Staged(k) ELSE Shown(k)
         /\ Lock(k).txn # x => Lock(k)' = Lock(k) /\ Shown(k)' = Shown(k)
<1>0. /\ Shape /\ LocksHome /\ AtomsHome /\ reach = {} /\ Listed /\ Owned
      /\ x \notin reach
  BY DEF IInv, Sound
<1>1. nodes' \in [DOMAIN nodes -> NodeRec] /\ DOMAIN nodes' = DOMAIN nodes
  BY <1>0, EndLeaves
<1>2. \A j : Floor(j)' = Floor(j)
  BY <1>1, FloorSame
<1>3. PICK n \in DOMAIN nodes : n = Floor(k)
  BY <1>0, Lookups
<1>4. PICK nd \in NodeRec : nd = nodes[n]
  BY <1>0, Lookups
<1>5. PICK new \in NodeRec : new = nodes'[n]
  BY <1>1
<1>6. PICK g, m : /\ g = group[x] /\ DOMAIN g = 1 .. m
                  /\ Kept(DOMAIN nodes, nodes, g, m, nodes')
                  /\ DoneAt(nodes, how, g, m, nodes')
  BY <1>0, EndLeaves
<1>7. new.blk = nd.blk
  BY <1>4, <1>5, <1>6 DEF Kept
<1>8. Lock(k) = nd.locks[k] /\ Lock(k)' = new.locks[k]
  BY <1>2, <1>3, <1>4, <1>5 DEF Lock
<1>9. Shown(k) = Visible(nd, k) /\ Shown(k)' = Visible(new, k)
  BY <1>2, <1>3, <1>4, <1>5 DEF Shown
<1>10. CASE Lock(k).txn # x
  <2>1. new.locks[k] = nd.locks[k] /\ new.mem[k] = nd.mem[k]
    BY <1>3, <1>4, <1>5, <1>8, <1>10, EndLocks
  <2>2. Visible(new, k) = Visible(nd, k)
    BY <1>7, <2>1 DEF Visible
  <2>. QED BY <1>8, <1>9, <1>10, <2>1, <2>2
<1>11. CASE Lock(k).txn = x
  <2>1. Lock(k) # Free
    BY <1>11, SSetAssumption DEF Free
  <2>2. Lock(k)' = Free
    BY <1>3, <1>4, <1>5, <1>8, <1>11, <2>1, EndLocks
  <2>3. PICK a : a = Lock(k)
    OBVIOUS
  <2>4. a.node = n /\ a.key = k
    BY <1>0, <1>4, <1>8, <2>1, <2>3 DEF LocksHome
  <2>5. PICK i \in DOMAIN g : g[i] = a
    <3>1. nodes[n].locks[k] = a /\ a # Free /\ a.txn = x
      BY <1>4, <1>8, <1>11, <2>1, <2>3
    <3>2. \E i \in DOMAIN group[x] : group[x][i] = nodes[n].locks[k]
      BY <1>0, <3>1, SMTT(30) DEF Owned
    <3>. QED BY <1>6, <3>1, <3>2
  <2>6. new.mem[k] = IF how = "committed" THEN MemAfter(nd.mem[k], a) ELSE nd.mem[k]
    BY <1>4, <1>5, <1>6, <2>4, <2>5 DEF DoneAt
  <2>7. CASE how # "committed"
    <3>1. Visible(new, k) = Visible(nd, k)
      BY <1>7, <2>6, <2>7 DEF Visible
    <3>. QED BY <1>9, <1>11, <2>2, <2>7, <3>1
  <2>8. CASE how = "committed"
    <3>1. ~Uncovers(nd, a)
      BY <1>4, <1>6, <2>4, <2>5, <2>8
    <3>2. Meant(a)
      BY <1>0, <1>6, <2>5 DEF Listed
    <3>3. Staged(k) = IF a.type = "REMOVE" THEN Absent ELSE a.val
      BY <2>1, <2>3, StoreIs
    <3>4. CASE a.type = "REMOVE"
      <4>1. new.mem[k] = IF nd.mem[k] = Absent THEN Deleted ELSE Absent
        BY <2>6, <2>8, <3>4 DEF MemAfter
      <4>2. nd.mem[k] # Absent => nd.blk[k] = Absent
        BY <2>4, <3>1, <3>4 DEF Uncovers
      <4>3. Visible(new, k) = Absent
        BY <1>7, <4>1, <4>2, VisibleIs
      <4>. QED BY <1>9, <1>11, <2>2, <2>8, <3>3, <3>4, <4>3
    <3>5. CASE a.type # "REMOVE"
      <4>1. new.mem[k] = a.val /\ a.val \in Vals
        BY <2>6, <2>8, <3>2, <3>5 DEF MemAfter, Meant
      <4>2. a.val # Absent /\ a.val # Deleted
        BY <4>1, SSetAssumption
      <4>3. Visible(new, k) = a.val
        BY <4>1, <4>2, VisibleIs
      <4>. QED BY <1>9, <1>11, <2>2, <2>8, <3>3, <3>5, <4>3
    <3>. QED BY <3>4, <3>5
  <2>. QED BY <2>7, <2>8
<1>. QED BY <1>10, <1>11

\* The end of a transaction is its end in the store.
LEMMA EndRefines ==
  ASSUME IInv, NEW x \in Txns, NEW how \in {"committed", "rolledback"},
         status[x] \in {"open", "failed"}, NEW weak \in BOOLEAN, EndTxn(x, how, weak),
         how = "committed" /\ ~weak => \A i \in DOMAIN group[x] :
           x \in reach \/ ~Uncovers(nodes[group[x][i].node], group[x][i]),
         broken' = 0
  PROVE  Store!Next /\ pending' >= pending
<1>0. Shape /\ Running
  BY DEF IInv, EndTxn
<1>1. broken = 0 /\ ~weak
  BY <1>0, Counted DEF EndTxn, Meets
<1>2. reach = {} /\ nodes' = OnNodes(how, group[x])
  BY <1>1 DEF IInv, Sound, EndTxn
<1>3. how = "committed" => \A i \in DOMAIN group[x] :
        ~Uncovers(nodes[group[x][i].node], group[x][i])
  BY <1>1, <1>2
<1>4. \A k \in Keys :
        /\ Lock(k).txn = x => /\ Lock(k)' = Free
                              /\ Shown(k)' = IF how = "committed" THEN Staged(k) ELSE Shown(k)
        /\ Lock(k).txn # x => Lock(k)' = Lock(k) /\ Shown(k)' = Shown(k)
  BY <1>1, <1>2, <1>3, EndShows
<1>5. [k \in Keys |-> Lock(k).txn]'
        = [k \in Keys |-> IF [j \in Keys |-> Lock(j).txn][k] = x THEN NoTxn
                          ELSE [j \in Keys |-> Lock(j).txn][k]]
  BY <1>4 DEF Free
<1>6. \A k \in Keys :
        Staged(k)' = IF Lock(k).txn = x THEN Shown(k)' ELSE Staged(k)
  BY <1>4, StoreIs
<1>7. [y \in Txns |-> IF status[y] = "failed" THEN "open" ELSE status[y]][x] = "open"
  OBVIOUS
<1>8. [y \in Txns |-> IF status[y] = "failed" THEN "open" ELSE status[y]]'
        = [[y \in Txns |-> IF status[y] = "failed" THEN "open" ELSE status[y]] EXCEPT ![x] = how]
  <2>1. status' = [status EXCEPT ![x] = how]
    BY DEF EndTxn
  <2>2. \A y \in Txns : status'[y] = IF y = x THEN how ELSE status[y]
    BY <1>0, <2>1 DEF Shape
  <2>. QED BY <2>2
<1>9. pending' >= pending
  BY <1>0 DEF EndTxn, Shape
<1>10. CASE how = "committed"
  <2>1. Committed' = [k \in Keys |-> IF [j \in Keys |-> Lock(j).txn][k] = x
                                     THEN [j \in Keys |-> Staged(j)][k] ELSE Committed[k]]
    BY <1>4, <1>10, StoreIs
  <2>2. [k \in Keys |-> Staged(k)]'
          = [k \in Keys |-> IF [j \in Keys |-> Lock(j).txn][k] = x
                            THEN [j \in Keys |-> Staged(j)][k]
                            ELSE [j \in Keys |-> Staged(j)][k]]
    BY <1>4, <1>6, <1>10
  <2>3. Store!Commit(x)
    BY <1>5, <1>7, <1>8, <1>10, <2>1, <2>2 DEF Store!Commit, Store!End
  <2>. QED BY <1>9, <2>3 DEF Store!Next
<1>11. CASE how = "rolledback"
  <2>1. Committed' = [k \in Keys |-> IF [j \in Keys |-> Lock(j).txn][k] = x
                                     THEN Committed[k] ELSE Committed[k]]
    BY <1>4, <1>11, StoreIs
  <2>2. [k \in Keys |-> Staged(k)]'
          = [k \in Keys |-> IF [j \in Keys |-> Lock(j).txn][k] = x
                            THEN Committed[k]
                            ELSE [j \in Keys |-> Staged(j)][k]]
    BY <1>4, <1>6, <1>11, StoreIs
  <2>3. Store!Rollback(x)
    BY <1>5, <1>7, <1>8, <1>11, <2>1, <2>2 DEF Store!Rollback, Store!End
  <2>. QED BY <1>9, <2>3 DEF Store!Next
<1>. QED BY <1>10, <1>11

\* What a step may do to the store the set is: nothing, one step of it that
\* gives no balance task back, or anything once a weakness has been met.
StoreStep ==
  \/ broken' > 0
  \/ UNCHANGED Store!vars
  \/ Store!Next /\ pending' >= pending

\* A step that meets a weakness is counted.
LEMMA MetIsCounted ==
  ASSUME Shape, Running, Meets(TRUE)
  PROVE  broken' > 0
BY Counted DEF Meets

LEMMA InsertRefines ==
  ASSUME IInv, NEW x \in Txns \cup {NoTxn}, NEW k \in Keys, NEW v \in Vals,
         NEW allow \in BOOLEAN, Insert(x, k, v, allow)
  PROVE  StoreStep
<1>0. Shape /\ Open(x) /\ Running
  BY DEF IInv, Insert, Open
<1>1. CASE Lock(k) # Free
  <2>1. Meets(TRUE)
    BY <1>1 DEF Insert, TxnUpdate
  <2>. QED BY <1>0, <2>1, MetIsCounted DEF StoreStep
<1>2. CASE Lock(k) = Free
  <2>1. PICK n : n = Floor(k)
    OBVIOUS
  <2>2. PICK a : a = Atom(x, n, "INSERT", k, v)
    OBVIOUS
  <2>3. PICK as : as = <<a>>
    OBVIOUS
  <2>4. PICK flag \in BOOLEAN : flag = Full(n)
    <3>1. Full(n) \in BOOLEAN
      BY DEF Full
    <3>. QED BY <3>1
  <2>5. Add(x, as, flag)
    BY <1>2, <2>1, <2>2, <2>3, <2>4 DEF Insert
  <2>6. Call(x, k, as)
    BY <1>0, <2>1, <2>2, <2>3, AtomsOfCall
  <2>7. a.type # "REMOVE" /\ a.val = v
    BY <2>2 DEF Atom
  <2>8. CASE x = NoTxn
    <3>1. Write(as, flag) /\ Call(NoTxn, k, as)
      BY <2>5, <2>6, <2>8 DEF Add
    <3>2. \E i \in Nat \ {0} : i = Len(as) /\ as[i].type # "REMOVE" /\ as[i].val = v /\ v \in Vals
      BY <2>3, <2>7
    <3>. QED BY <1>2, <3>1, <3>2, WriteRefines DEF StoreStep
  <2>9. CASE x # NoTxn
    <3>1. x \in Txns /\ TxnWrite(x, as, flag)
      BY <2>5, <2>9 DEF Add
    <3>2. v = IF a.type = "REMOVE" THEN Absent ELSE a.val
      BY <2>7
    <3>3. v \in Vals \cup {Absent}
      OBVIOUS
    <3>. QED BY <1>0, <1>2, <2>3, <2>6, <3>1, <3>2, <3>3, TxnWriteRefines DEF StoreStep
  <2>. QED BY <2>8, <2>9
<1>. QED BY <1>1, <1>2

LEMMA RemoveRefines ==
  ASSUME IInv, NEW x \in Txns \cup {NoTxn}, NEW k \in Keys, RemoveKey(x, k)
  PROVE  StoreStep
<1>0. Shape /\ Open(x) /\ Running
  BY DEF IInv, RemoveKey, Open
<1>1. CASE Lock(k) # Free
  <2>1. Meets(TRUE)
    BY <1>1 DEF RemoveKey, TxnUpdate
  <2>. QED BY <1>0, <2>1, MetIsCounted DEF StoreStep
<1>2. CASE Lock(k) = Free
  <2>1. PICK n : n = Floor(k)
    OBVIOUS
  <2>2. PICK a : a = Atom(x, n, "REMOVE", k, Deleted)
    OBVIOUS
  <2>3. PICK as : as = <<a>>
    OBVIOUS
  <2>4. PICK flag \in BOOLEAN : flag = balance
    BY <1>0 DEF Shape
  <2>5. Add(x, as, flag)
    BY <1>2, <2>1, <2>2, <2>3, <2>4 DEF RemoveKey
  <2>6. Call(x, k, as)
    BY <1>0, <2>1, <2>2, <2>3, AtomsOfCall
  <2>7. a.type = "REMOVE" /\ a.node = n
    BY <2>2 DEF Atom
  <2>8. PICK w \in Vals \cup {Absent} : w = Absent
    OBVIOUS
  <2>9. CASE x = NoTxn
    <3>1. Write(as, flag) /\ Call(NoTxn, k, as)
      BY <2>5, <2>6, <2>9 DEF Add
    <3>2. CASE Uncovers(nodes[n], a)
      <4>1. Len(as) = 1 /\ as[1] = a
        BY <2>3
      <4>2. Len(as) = 1 /\ Uncovers(nodes[as[1].node], as[1])
        BY <2>7, <3>2, <4>1
      <4>3. Meets(TRUE)
        BY <3>1, <4>2 DEF Write, Meets
      <4>. QED BY <1>0, <4>3, MetIsCounted DEF StoreStep
    <3>3. CASE ~Uncovers(nodes[n], a)
      <4>1. \E b : /\ as = <<b>> /\ b.type = "REMOVE" /\ w = Absent
                   /\ ~Uncovers(nodes[Floor(k)], b)
        BY <2>1, <2>3, <2>7, <2>8, <3>3
      <4>. QED BY <1>2, <3>1, <4>1, WriteRefines DEF StoreStep
    <3>. QED BY <3>2, <3>3
  <2>10. CASE x # NoTxn
    <3>1. x \in Txns /\ TxnWrite(x, as, flag)
      BY <2>5, <2>10 DEF Add
    <3>2. w = IF a.type = "REMOVE" THEN Absent ELSE a.val
      BY <2>7, <2>8
    <3>. QED BY <1>0, <1>2, <2>3, <2>6, <3>1, <3>2, TxnWriteRefines DEF StoreStep
  <2>. QED BY <2>9, <2>10
<1>. QED BY <1>1, <1>2

LEMMA UpdateRefines ==
  ASSUME IInv, NEW x \in Txns \cup {NoTxn}, NEW k \in Keys, NEW v \in Vals, Update(x, k, v)
  PROVE  StoreStep
<1>0. Shape /\ Open(x) /\ Running
  BY DEF IInv, Update, Open
<1>1. CASE Lock(k) # Free
  <2>1. Meets(TRUE)
    BY <1>1 DEF Update
  <2>. QED BY <1>0, <2>1, MetIsCounted DEF StoreStep
<1>2. CASE Lock(k) = Free
  <2>1. PICK n : n = Floor(k)
    OBVIOUS
  <2>2. PICK a, b : a = Atom(x, n, "REMOVE", k, Deleted) /\ b = Atom(x, n, "INSERT", k, v)
    OBVIOUS
  <2>3. PICK as : as = <<a, b>>
    OBVIOUS
  <2>4. PICK flag \in BOOLEAN : flag = Full(n)
    <3>1. Full(n) \in BOOLEAN
      BY DEF Full
    <3>. QED BY <3>1
  <2>5. Add(x, as, flag)
    BY <1>2, <2>1, <2>2, <2>3, <2>4 DEF Update
  <2>6. Call(x, k, as)
    BY <1>0, <2>1, <2>2, <2>3, AtomsOfCall
  <2>7. b.type # "REMOVE" /\ b.val = v
    BY <2>2 DEF Atom
  <2>8. Len(as) = 2 /\ as[2] = b
    BY <2>3
  <2>9. CASE x = NoTxn
    <3>1. Write(as, flag) /\ Call(NoTxn, k, as)
      BY <2>5, <2>6, <2>9 DEF Add
    <3>2. \E i \in Nat \ {0} : i = Len(as) /\ as[i].type # "REMOVE" /\ as[i].val = v /\ v \in Vals
      <4>1. 2 \in Nat \ {0} /\ 2 = Len(as) /\ as[2].type # "REMOVE" /\ as[2].val = v
        BY <2>7, <2>8
      <4>. QED BY <4>1
    <3>. QED BY <1>2, <3>1, <3>2, WriteRefines DEF StoreStep
  <2>10. CASE x # NoTxn
    <3>1. TxnWrite(x, as, flag)
      BY <2>5, <2>10 DEF Add
    <3>2. Len(as) > 1
      BY <2>8
    <3>3. Meets(TRUE)
      BY <3>1, <3>2 DEF TxnWrite, Meets
    <3>. QED BY <1>0, <3>3, MetIsCounted DEF StoreStep
  <2>. QED BY <2>9, <2>10
<1>. QED BY <1>1, <1>2

LEMMA CommitRefines ==
  ASSUME IInv, NEW x \in Txns, CommitTxn(x) \/ RollbackTxn(x), broken' = 0
  PROVE  StoreStep
<1>1. CASE CommitTxn(x)
  <2>1. PICK weak \in BOOLEAN :
          weak = \E i \in DOMAIN group[x] :
                   LET a == group[x][i]
                   IN  x \notin reach /\ Uncovers(nodes[a.node], a)
    OBVIOUS
  <2>2. EndTxn(x, "committed", weak) /\ status[x] \in {"open", "failed"}
    BY <1>1, <2>1 DEF CommitTxn
  <2>3. ~weak => \A i \in DOMAIN group[x] :
           x \in reach \/ ~Uncovers(nodes[group[x][i].node], group[x][i])
    BY <2>1
  <2>. QED BY <2>2, <2>3, EndRefines DEF StoreStep
<1>2. CASE RollbackTxn(x)
  <2>1. PICK weak \in BOOLEAN : weak = FALSE
    OBVIOUS
  <2>2. EndTxn(x, "rolledback", weak) /\ status[x] \in {"open", "failed"}
    BY <1>2, <2>1 DEF RollbackTxn
  <2>. QED BY <2>2, EndRefines DEF StoreStep
<1>. QED BY <1>1, <1>2

LEMMA NextRefines == IInv /\ [Next]_vars => StoreStep
<1>. SUFFICES ASSUME IInv, [Next]_vars PROVE StoreStep
  OBVIOUS
<1>0. broken' = 0 \/ broken' > 0
  <2>1. Shape'
    BY NextIInv DEF IInv
  <2>. QED BY <2>1 DEF Shape
<1>1. ASSUME NEW x \in Txns \cup {NoTxn}, NEW k \in Keys, NEW v \in Vals,
             NEW allow \in BOOLEAN, Insert(x, k, v, allow)
      PROVE  StoreStep
  BY <1>1, InsertRefines
<1>2. ASSUME NEW x \in Txns \cup {NoTxn}, NEW k \in Keys, NEW allow \in BOOLEAN,
             InsertFails(x, k, allow)
      PROVE  StoreStep
  BY <1>2, FailRefines DEF InsertFails, StoreStep
<1>3. ASSUME NEW x \in Txns \cup {NoTxn}, NEW k \in Keys, NEW v \in Vals, Update(x, k, v)
      PROVE  StoreStep
  BY <1>3, UpdateRefines
<1>4. ASSUME NEW x \in Txns \cup {NoTxn}, NEW k \in Keys, RemoveKey(x, k)
      PROVE  StoreStep
  BY <1>4, RemoveRefines
<1>5. ASSUME NEW x \in Txns \cup {NoTxn}, NEW k \in Keys, RemoveFails(x, k)
      PROVE  StoreStep
  BY <1>5, FailRefines DEF RemoveFails, StoreStep
<1>6. ASSUME NEW x \in Txns, CommitTxn(x) \/ RollbackTxn(x)
      PROVE  StoreStep
  BY <1>0, <1>6, CommitRefines DEF StoreStep
<1>7. CASE Balance
  BY <1>0, <1>7, BalanceRefines DEF StoreStep
<1>8. CASE UNCHANGED vars
  <2>1. nodes' = nodes /\ status' = status
    BY <1>8 DEF vars
  <2>2. \A k : Floor(k)' = Floor(k)
    BY <2>1, FloorSame
  <2>3. \A k \in Keys : Shown(k)' = Shown(k) /\ Lock(k)' = Lock(k)
    BY <2>1, <2>2 DEF Shown, Lock
  <2>4. \A y \in Txns : OpenOr(y)' = OpenOr(y)
    BY <2>1 DEF OpenOr
  <2>. QED BY <2>3, <2>4, StoreSame DEF StoreStep
<1>. QED BY <1>1, <1>2, <1>3, <1>4, <1>5, <1>6, <1>7, <1>8 DEF Next

\* Until a weakness is met the set, nodes, blocks, locks and lists of atoms,
\* implements the store with transactions of TxnStore: a call writes its key or
\* locks it for its transaction, an end publishes or drops what the
\* transaction has staged as a whole, a balance shows nothing
\* (raleighsl_sset_insert, update, remove, __object_apply, __object_revert,
\* __object_commit, __object_balance).
THEOREM SetImplementsStore == Spec => RefinesStore
<1>1. IInv /\ [Next]_vars =>
        [\/ broken' > 0
         \/ UNCHANGED Store!vars
         \/ Store!Next /\ pending' >= pending]_(Store!vars)
  BY NextRefines DEF StoreStep
<1>. QED BY <1>1, InitRefines, SetInvariant, PTL DEF Spec, RefinesStore

-----------------------------------------------------------------------------
(* What a reader is answered.                                              *)

\* A get of the set answers what its reader is to see of the store, unless a
\* lock leads it astray.
LEMMA GetAgreesHolds == IInv => GetAgrees
<1>. SUFFICES ASSUME IInv, broken = 0, NEW x \in Txns \cup {NoTxn}, NEW k \in Keys,
                     ~Astray(x, k)
              PROVE  Get(x, k) = View(x)[k]
  BY DEF GetAgrees
<1>0. Shape /\ Listed /\ Owned
  BY DEF IInv, Sound
<1>1. PICK n \in DOMAIN nodes : n = Floor(k)
  BY <1>0, Lookups
<1>2. PICK nd \in NodeRec : nd = nodes[n]
  BY <1>0, Lookups
<1>3. Lock(k) = nd.locks[k] /\ Shown(k) = Visible(nd, k)
  BY <1>1, <1>2 DEF Lock, Shown
<1>4. PICK l : l = nd.locks[k]
  OBVIOUS
<1>5. View(x)[k] = IF l.txn = x /\ x # NoTxn THEN Staged(k) ELSE Shown(k)
  BY <1>3, <1>4, StoreIs DEF View
<1>6. CASE l = Free
  <2>1. l.txn = NoTxn
    BY <1>6 DEF Free
  <2>2. Get(x, k) = Visible(nd, k)
    BY <1>1, <1>2, <1>4, <1>6 DEF Get
  <2>. QED BY <1>3, <1>5, <2>1, <2>2
<1>7. CASE l # Free
  <2>1. l \in Atoms
    BY <1>4, <1>7 DEF NodeRec
  <2>2. l.txn # NoTxn
    BY <2>1, SSetAssumption DEF Atoms
  <2>3. CASE l.txn = x
    <3>1. nd.mem[k] = Absent /\ nd.blk[k] = Absent /\ l.type # "REMOVE"
      BY <1>1, <1>2, <1>3, <1>4, <1>7, <2>3 DEF Astray
    <3>2. Get(x, k) = l.val
      BY <1>1, <1>2, <1>4, <1>7, <2>3, <3>1 DEF Get
    <3>3. Staged(k) = l.val
      BY <1>3, <1>4, <1>7, <3>1, StoreIs
    <3>. QED BY <1>5, <2>2, <2>3, <3>2, <3>3
  <2>4. CASE l.txn # x
    <3>1. nd.mem[k] # Deleted /\ (nd.mem[k] = Absent => nd.blk[k] = Absent)
      BY <1>1, <1>2, <1>3, <1>4, <1>7, <2>4 DEF Astray
    <3>2. Get(x, k) = nd.mem[k]
      BY <1>1, <1>2, <1>4, <1>7, <2>4 DEF Get
    <3>3. Visible(nd, k) = nd.mem[k]
      BY <3>1, VisibleIs
    <3>. QED BY <1>3, <1>5, <2>4, <3>2, <3>3
  <2>. QED BY <2>3, <2>4
<1>. QED BY <1>6, <1>7

-----------------------------------------------------------------------------
(* What a scan lists.                                                      *)

\* t lists the keys of S in order, each once and with what f says of it.
Pairs(f, S) == {<<k, f[k]>> : k \in S}
Lists(t, f, S) ==
  /\ t \in Seq(Pairs(f, S))
  /\ \A i, j \in DOMAIN t : i < j => t[i][1] < t[j][1]
  /\ \A k \in S : \E i \in DOMAIN t : t[i][1] = k

LEMMA ListIs ==
  ASSUME NEW t, NEW f, NEW S, Lists(t, f, S)
  PROVE  \E n \in Nat : /\ Len(t) = n /\ DOMAIN t = 1 .. n
                        /\ t \in [1 .. n -> Pairs(f, S)]
                        /\ \A i \in 1 .. n : t[i][1] \in S /\ t[i] = <<t[i][1], f[t[i][1]]>>
                        /\ \A i, j \in 1 .. n : i < j => t[i][1] < t[j][1]
                        /\ \A k \in S : \E i \in 1 .. n : t[i][1] = k
<1>1. PICK n \in Nat : /\ n = Len(t) /\ DOMAIN t = 1 .. n
                       /\ t \in [1 .. n -> Pairs(f, S)]
  BY LenProperties DEF Lists
<1>2. ASSUME NEW i \in 1 .. n PROVE t[i][1] \in S /\ t[i] = <<t[i][1], f[t[i][1]]>>
  <2>1. t[i] \in Pairs(f, S)
    BY <1>1
  <2>. QED BY <2>1 DEF Pairs
<1>3. /\ \A i, j \in 1 .. n : i < j => t[i][1] < t[j][1]
      /\ \A k \in S : \E i \in 1 .. n : t[i][1] = k
  BY <1>1 DEF Lists
<1>. QED BY <1>1, <1>2, <1>3

\* The keys of S in their order are such a list.
LEMMA OrderLists ==
  ASSUME NEW f, NEW S, S \subseteq Nat, IsFiniteSet(S), NEW t,
         t = [i \in DOMAIN InOrder(S) |-> <<InOrder(S)[i], f[InOrder(S)[i]]>>]
  PROVE  Lists(t, f, S)
<1>1. PICK s : s = InOrder(S)
  OBVIOUS
<1>2. PICK n \in Nat : /\ DOMAIN s = 1 .. n /\ \A i \in 1 .. n : s[i] \in S
                       /\ Increasing(s) /\ \A k \in S : \E i \in 1 .. n : s[i] = k
  <2>1. /\ s \in Seq(S) /\ Cardinality(S) \in Nat /\ DOMAIN s = 1 .. Cardinality(S)
        /\ Increasing(s) /\ \A k \in S : \E i \in DOMAIN s : s[i] = k
    BY <1>1, InOrderIs
  <2>2. \A i \in DOMAIN s : s[i] \in S
    BY <2>1, LenProperties
  <2>. QED BY <2>1, <2>2
<1>3. t = [i \in 1 .. n |-> <<s[i], f[s[i]]>>]
  BY <1>1, <1>2
<1>4. \A i \in 1 .. n : t[i][1] = s[i] /\ t[i] = <<s[i], f[s[i]]>>
  BY <1>3
<1>5. t \in [1 .. n -> Pairs(f, S)]
  <2>1. \A i \in 1 .. n : <<s[i], f[s[i]]>> \in Pairs(f, S)
    BY <1>2 DEF Pairs
  <2>. QED BY <1>3, <2>1
<1>6. t \in Seq(Pairs(f, S)) /\ DOMAIN t = 1 .. n
  BY <1>5, InSeq
<1>. QED BY <1>2, <1>4, <1>6, SMTT(30) DEF Lists, Increasing

\* t has the n elements of S in their order.
Ordered(t, n, S) ==
  /\ \A i \in 1 .. n : t[i] \in S
  /\ \A i, j \in 1 .. n : i < j => t[i] < t[j]
  /\ \A k \in S : \E i \in 1 .. n : t[i] = k

SameStart(t, u, n, m) == n <= m /\ \A i \in 1 .. n : t[i] = u[i]

\* There is one such order: one is not longer than the other.
LEMMA ListStarts ==
  ASSUME NEW S, S \subseteq Nat, NEW t, NEW u, NEW n \in Nat, NEW m \in Nat,
         Ordered(t, n, S), Ordered(u, m, S)
  PROVE  SameStart(t, u, n, m)
<1>. USE DEF Ordered
<1>1. PICK B : B = {i \in 1 .. n : ~(i <= m /\ t[i] = u[i])}
  OBVIOUS
<1>2. B = {}
  <2>. SUFFICES ASSUME B # {} PROVE FALSE
    OBVIOUS
  <2>1. B \subseteq Nat
    BY <1>1
  <2>2. PICK i \in B : \A j \in B : i <= j
    BY <2>1, LeastNat
  <2>3. i \in 1 .. n /\ ~(i <= m /\ t[i] = u[i])
    BY <1>1, <2>2
  <2>4. ASSUME NEW j \in 1 .. n, j < i PROVE j \in 1 .. m /\ t[j] = u[j]
    <3>1. j \notin B
      BY <2>2, <2>3, <2>4
    <3>. QED BY <1>1, <3>1
  <2>5. PICK j \in 1 .. m : u[j] = t[i]
    BY <2>3
  <2>6. \A k \in 1 .. n : t[k] \in Nat
    OBVIOUS
  <2>7. \A k \in 1 .. m : u[k] \in Nat
    OBVIOUS
  <2>8. ~(j < i)
    <3>. SUFFICES ASSUME j < i PROVE FALSE
      OBVIOUS
    <3>1. j \in 1 .. n
      BY <2>3, <2>5
    <3>2. t[j] = u[j] /\ t[j] < t[i]
      BY <2>3, <2>4, <3>1
    <3>. QED BY <2>3, <2>5, <2>6, <3>2
  <2>9. j # i
    BY <2>3, <2>5
  <2>10. i \in 1 .. m /\ i < j
    BY <2>3, <2>8, <2>9
  <2>11. u[i] < t[i]
    BY <2>5, <2>10
  <2>12. PICK l \in 1 .. n : t[l] = u[i]
    BY <2>10
  <2>13. ~(i < l) /\ l # i
    BY <2>3, <2>6, <2>11, <2>12
  <2>14. l < i
    BY <2>3, <2>13
  <2>15. l \in 1 .. m /\ t[l] = u[l]
    BY <2>4, <2>14
  <2>16. u[l] < u[i]
    BY <2>10, <2>14, <2>15
  <2>. QED BY <2>7, <2>10, <2>12, <2>15, <2>16
<1>3. \A i \in 1 .. n : i <= m /\ t[i] = u[i]
  BY <1>1, <1>2
<1>4. n <= m
  <2>1. CASE n = 0
    BY <2>1
  <2>2. CASE n # 0
    <3>1. n \in 1 .. n
      BY <2>2
    <3>. QED BY <1>3, <3>1
  <2>. QED BY <2>1, <2>2
<1>. QED BY <1>3, <1>4 DEF SameStart

LEMMA ListsUnique ==
  ASSUME NEW f, NEW S, S \subseteq Nat, NEW t, NEW u, Lists(t, f, S), Lists(u, f, S)
  PROVE  t = u
<1>1. PICK n \in Nat : /\ Len(t) = n /\ DOMAIN t = 1 .. n
                       /\ t \in [1 .. n -> Pairs(f, S)]
                       /\ \A i \in 1 .. n : t[i][1] \in S /\ t[i] = <<t[i][1], f[t[i][1]]>>
                       /\ \A i, j \in 1 .. n : i < j => t[i][1] < t[j][1]
                       /\ \A k \in S : \E i \in 1 .. n : t[i][1] = k
  BY ListIs
<1>2. PICK m \in Nat : /\ Len(u) = m /\ DOMAIN u = 1 .. m
                       /\ u \in [1 .. m -> Pairs(f, S)]
                       /\ \A i \in 1 .. m : u[i][1] \in S /\ u[i] = <<u[i][1], f[u[i][1]]>>
                       /\ \A i, j \in 1 .. m : i < j => u[i][1] < u[j][1]
                       /\ \A k \in S : \E i \in 1 .. m : u[i][1] = k
  BY ListIs
<1>3. PICK a, b : a = [i \in 1 .. n |-> t[i][1]] /\ b = [i \in 1 .. m |-> u[i][1]]
  OBVIOUS
<1>4. /\ \A i \in 1 .. n : a[i] = t[i][1]
      /\ \A i \in 1 .. m : b[i] = u[i][1]
  BY <1>3
<1>5a. Ordered(a, n, S)
  BY <1>1, <1>4 DEF Ordered
<1>5b. Ordered(b, m, S)
  BY <1>2, <1>4 DEF Ordered
<1>6a. SameStart(a, b, n, m)
  BY <1>5a, <1>5b, ListStarts
<1>7a. SameStart(b, a, m, n)
  BY <1>5a, <1>5b, ListStarts
<1>6. n <= m /\ \A i \in 1 .. n : a[i] = b[i]
  BY <1>6a DEF SameStart
<1>7. m <= n
  BY <1>7a DEF SameStart
<1>8. m = n
  BY <1>6, <1>7
<1>9. \A i \in 1 .. n : t[i] = u[i]
  <2>1. ASSUME NEW i \in 1 .. n PROVE t[i] = u[i]
    <3>1. t[i][1] = u[i][1]
      BY <1>4, <1>6, <1>8
    <3>2. t[i] = <<t[i][1], f[t[i][1]]>>
      BY <1>1
    <3>3. u[i] = <<u[i][1], f[u[i][1]]>>
      BY <1>2, <1>8
    <3>. QED BY <3>1, <3>2, <3>3
  <2>. QED BY <2>1
<1>. QED BY <1>1, <1>2, <1>8, <1>9

\* A list after another whose keys come before.
LEMMA ListsJoin ==
  ASSUME NEW f, NEW S, NEW T, NEW t, NEW u, Lists(t, f, S), Lists(u, f, T),
         S \subseteq Nat, T \subseteq Nat, \A a \in S, b \in T : a < b,
         NEW U, U = S \cup T
  PROVE  Lists(t \o u, f, U)
<1>1. PICK n \in Nat : /\ Len(t) = n /\ DOMAIN t = 1 .. n
                       /\ t \in [1 .. n -> Pairs(f, S)]
                       /\ \A i \in 1 .. n : t[i][1] \in S /\ t[i] = <<t[i][1], f[t[i][1]]>>
                       /\ \A i, j \in 1 .. n : i < j => t[i][1] < t[j][1]
                       /\ \A k \in S : \E i \in 1 .. n : t[i][1] = k
  BY ListIs
<1>2. PICK m \in Nat : /\ Len(u) = m /\ DOMAIN u = 1 .. m
                       /\ u \in [1 .. m -> Pairs(f, T)]
                       /\ \A i \in 1 .. m : u[i][1] \in T /\ u[i] = <<u[i][1], f[u[i][1]]>>
                       /\ \A i, j \in 1 .. m : i < j => u[i][1] < u[j][1]
                       /\ \A k \in T : \E i \in 1 .. m : u[i][1] = k
  BY ListIs, SMTT(30)
<1>3. t \in Seq(Pairs(f, U)) /\ u \in Seq(Pairs(f, U))
  <2>1. Pairs(f, S) \subseteq Pairs(f, U) /\ Pairs(f, T) \subseteq Pairs(f, U)
    BY DEF Pairs
  <2>2. t \in [1 .. n -> Pairs(f, U)] /\ u \in [1 .. m -> Pairs(f, U)]
    BY <1>1, <1>2, <2>1
  <2>. QED BY <2>2, InSeq
<1>4. PICK w : w = t \o u
  OBVIOUS
<1>5. /\ w \in Seq(Pairs(f, U)) /\ Len(w) = n + m
      /\ \A i \in 1 .. n + m : w[i] = IF i <= n THEN t[i] ELSE u[i - n]
  <2>1. /\ t \o u \in Seq(Pairs(f, U)) /\ Len(t \o u) = Len(t) + Len(u)
        /\ \A i \in 1 .. Len(t) + Len(u) :
             (t \o u)[i] = IF i <= Len(t) THEN t[i] ELSE u[i - Len(t)]
    BY <1>3, ConcatProperties
  <2>2. Len(t) = n /\ Len(u) = m
    BY <1>1, <1>2
  <2>. QED BY <1>4, <2>1, <2>2
<1>6. DOMAIN w = 1 .. n + m
  BY <1>5, LenProperties
<1>7. ASSUME NEW i \in 1 .. n + m, NEW j \in 1 .. n + m, i < j PROVE w[i][1] < w[j][1]
  <2>1. CASE j <= n
    <3>1. i \in 1 .. n /\ j \in 1 .. n /\ w[i] = t[i] /\ w[j] = t[j]
      BY <1>5, <1>7, <2>1
    <3>. QED BY <1>1, <1>7, <3>1
  <2>2. CASE ~(j <= n) /\ i <= n
    <3>1. i \in 1 .. n /\ j - n \in 1 .. m /\ w[i] = t[i] /\ w[j] = u[j - n]
      BY <1>5, <1>7, <2>2
    <3>. QED BY <1>1, <1>2, <3>1
  <2>3. CASE ~(i <= n)
    <3>1. /\ i - n \in 1 .. m /\ j - n \in 1 .. m /\ i - n < j - n
          /\ w[i] = u[i - n] /\ w[j] = u[j - n]
      BY <1>5, <1>7, <2>3
    <3>. QED BY <1>2, <3>1
  <2>. QED BY <2>1, <2>2, <2>3
<1>8. ASSUME NEW k \in U PROVE \E i \in 1 .. n + m : w[i][1] = k
  <2>1. CASE k \in S
    <3>1. PICK i \in 1 .. n : t[i][1] = k
      BY <1>1, <2>1
    <3>2. i \in 1 .. n + m /\ w[i] = t[i]
      BY <1>5
    <3>. QED BY <3>1, <3>2
  <2>2. CASE k \in T
    <3>1. PICK i \in 1 .. m : u[i][1] = k
      BY <1>2, <2>2
    <3>2. n + i \in 1 .. n + m /\ ~(n + i <= n) /\ (n + i) - n = i
      OBVIOUS
    <3>3. w[n + i] = u[i]
      BY <1>5, <3>2
    <3>. QED BY <3>1, <3>2, <3>3
  <2>. QED BY <2>1, <2>2
<1>9. Lists(w, f, U)
  BY <1>5, <1>6, <1>7, <1>8 DEF Lists
<1>. QED BY <1>4, <1>9

LEMMA ListsEmpty ==
  ASSUME NEW f
  PROVE  Lists(<<>>, f, {})
<1>1. <<>> \in Seq(Pairs(f, {})) /\ DOMAIN <<>> = {}
  OBVIOUS
<1>. QED BY <1>1 DEF Lists

\* What FlattenSeq makes of lists that come one after the other.
FlatUpTo(q, n, g) ==
  g = [i \in 1 .. n |-> IF i = 1 THEN q[i] ELSE g[i - 1] \o q[i]]

Iterable(T, e, n, F) == e \in T /\ n \in Nat /\ F \in [1 .. n -> [T -> T]]
Iterated(T, e, n, F, g) ==
  g \in [0 .. n -> T] /\ g[0] = e /\ \A i \in 1 .. n : g[i] = F[i][g[i - 1]]

LEMMA Iteration ==
  ASSUME NEW T, NEW e, NEW n, NEW F, Iterable(T, e, n, F)
  PROVE  \E g : Iterated(T, e, n, F, g)
<1>1. e \in T /\ n \in Nat /\ F \in [1 .. n -> [T -> T]]
  BY DEF Iterable
<1>2. \E g \in [0 .. n -> T] : g[0] = e /\ \A i \in 1 .. n : g[i] = F[i][g[i - 1]]
  BY <1>1, Iterates, SMTT(30)
<1>. QED BY <1>2 DEF Iterated

Appendable(T, e, n, q) ==
  e \in T /\ n \in Nat /\ \A i \in 1 .. n, s \in T : s \o q[i] \in T
Appended(T, e, n, q, h) ==
  h \in [0 .. n -> T] /\ h[0] = e /\ \A i \in 1 .. n : h[i] = h[i - 1] \o q[i]

LEMMA Appends ==
  ASSUME NEW T, NEW e, NEW n, NEW q, Appendable(T, e, n, q)
  PROVE  \E h : Appended(T, e, n, q, h)
<1>0. e \in T /\ n \in Nat /\ \A i \in 1 .. n, s \in T : s \o q[i] \in T
  BY DEF Appendable
<1>1. PICK F : F = [i \in 1 .. n |-> [s \in T |-> s \o q[i]]]
  OBVIOUS
<1>2. Iterable(T, e, n, F)
  BY <1>0, <1>1 DEF Iterable
<1>3. PICK h : Iterated(T, e, n, F, h)
  BY <1>2, Iteration
<1>4. ASSUME NEW i \in 1 .. n PROVE h[i] = h[i - 1] \o q[i]
  <2>1. i - 1 \in 0 .. n
    BY <1>0
  <2>2. h[i - 1] \in T
    BY <1>3, <2>1 DEF Iterated
  <2>3. h[i] = F[i][h[i - 1]]
    BY <1>3 DEF Iterated
  <2>. QED BY <1>1, <2>2, <2>3
<1>. QED BY <1>3, <1>4 DEF Iterated, Appended

LEMMA FlatExists ==
  ASSUME NEW V, NEW n \in Nat, NEW q \in [1 .. n -> Seq(V)]
  PROVE  \E g : FlatUpTo(q, n, g)
<1>1. PICK T : T = Seq(V)
  OBVIOUS
<1>2. PICK e \in T : e = <<>>
  BY <1>1, EmptySeq
<1>3. \A i \in 1 .. n, s \in T : s \o q[i] \in T
  <2>1. ASSUME NEW i \in 1 .. n, NEW s \in T PROVE s \o q[i] \in T
    <3>1. s \in Seq(V) /\ q[i] \in Seq(V)
      BY <1>1
    <3>2. s \o q[i] \in Seq(V)
      BY <3>1, ConcatProperties
    <3>. QED BY <1>1, <3>2
  <2>. QED BY <2>1
<1>4. Appendable(T, e, n, q)
  BY <1>3 DEF Appendable
<1>5a. PICK h : Appended(T, e, n, q, h)
  BY <1>4, Appends
<1>5. h[0] = e /\ \A i \in 1 .. n : h[i] = h[i - 1] \o q[i]
  BY <1>5a DEF Appended
<1>6. ASSUME NEW i \in 1 .. n PROVE h[i] = IF i = 1 THEN q[i] ELSE h[i - 1] \o q[i]
  <2>1. i - 1 \in 0 .. n /\ (i = 1 => i - 1 = 0)
    OBVIOUS
  <2>3. h[i] = h[i - 1] \o q[i]
    BY <1>5
  <2>4. <<>> \o q[i] = q[i]
    <3>1. q[i] \in Seq(V)
      OBVIOUS
    <3>. QED BY <3>1, ConcatEmptySeq
  <2>5. CASE i = 1
    <3>1. h[i - 1] = <<>>
      BY <1>2, <1>5, <2>1, <2>5
    <3>. QED BY <2>3, <2>4, <2>5, <3>1
  <2>6. CASE i # 1
    BY <2>3, <2>6
  <2>. QED BY <2>5, <2>6
<1>7. PICK g : g = [i \in 1 .. n |-> h[i]]
  OBVIOUS
<1>8. ASSUME NEW i \in 1 .. n PROVE g[i] = IF i = 1 THEN q[i] ELSE g[i - 1] \o q[i]
  <2>1. CASE i = 1
    BY <1>6, <1>7, <2>1
  <2>2. CASE i # 1
    <3>1. i - 1 \in 1 .. n
      BY <2>2
    <3>. QED BY <1>6, <1>7, <2>2, <3>1
  <2>. QED BY <2>1, <2>2
<1>9. g = [i \in 1 .. n |-> IF i = 1 THEN q[i] ELSE g[i - 1] \o q[i]]
  BY <1>7, <1>8
<1>. QED BY <1>9 DEF FlatUpTo

\* The sets C[1], C[2], ... come one after the other.
Apart(C, n) ==
  /\ \A i \in 1 .. n : C[i] \subseteq Nat
  /\ \A i, j \in 1 .. n : i < j => \A a \in C[i], b \in C[j] : a < b
UpToSet(C, i) == UNION {C[j] : j \in 1 .. i}

LEMMA FlatLists ==
  ASSUME NEW f, NEW n \in Nat, NEW q, DOMAIN q = 1 .. n, NEW C, Apart(C, n),
         \A i \in 1 .. n : Lists(q[i], f, C[i]), NEW g, FlatUpTo(q, n, g)
  PROVE  \A i \in 1 .. n : Lists(g[i], f, UpToSet(C, i))
<1>1. ASSUME NEW i \in 1 .. n PROVE g[i] = IF i = 1 THEN q[i] ELSE g[i - 1] \o q[i]
  <2>1. g = [j \in 1 .. n |-> IF j = 1 THEN q[j] ELSE g[j - 1] \o q[j]]
    BY DEF FlatUpTo
  <2>. QED BY <2>1
<1>2. PICK G : G = {i \in 0 .. n : i = 0 \/ Lists(g[i], f, UpToSet(C, i))}
  OBVIOUS
<1>3. 0 \in G
  BY <1>2
<1>4. ASSUME NEW i \in 1 .. n, i - 1 \in G PROVE i \in G
  <2>0. i \in 0 .. n /\ i \in Nat /\ Lists(q[i], f, C[i])
    OBVIOUS
  <2>1. CASE i = 1
    <3>1. UpToSet(C, 1) = C[1]
      <4>1. 1 .. 1 = {1}
        OBVIOUS
      <4>. QED BY <4>1 DEF UpToSet
    <3>2. g[1] = q[1]
      BY <1>1, <2>1
    <3>3. Lists(g[i], f, UpToSet(C, i))
      BY <2>0, <2>1, <3>1, <3>2
    <3>. QED BY <1>2, <2>0, <3>3
  <2>2. CASE i # 1
    <3>1. PICK p : p = i - 1 /\ p \in 1 .. n /\ p < i /\ p \in Nat
      BY <2>0, <2>2
    <3>2. Lists(g[p], f, UpToSet(C, p))
      BY <1>2, <1>4, <3>1
    <3>3. PICK S, T, U : S = UpToSet(C, p) /\ T = C[i] /\ U = UpToSet(C, i)
      OBVIOUS
    <3>4. \A j \in 1 .. i : j # i => j \in 1 .. p
      BY <2>0, <3>1
    <3>5. \A j \in 1 .. p : j \in 1 .. i /\ j \in 1 .. n /\ j < i
      BY <2>0, <3>1
    <3>6. U = S \cup T
      <4>1. i \in 1 .. i
        BY <2>0
      <4>. QED BY <3>3, <3>4, <3>5, <4>1 DEF UpToSet
    <3>7. S \subseteq Nat /\ T \subseteq Nat
      BY <3>3, <3>5 DEF Apart, UpToSet
    <3>8. \A a \in S, b \in T : a < b
      BY <3>3, <3>5 DEF Apart, UpToSet
    <3>9. PICK t, u : t = g[p] /\ u = q[i]
      OBVIOUS
    <3>10. Lists(t, f, S) /\ Lists(u, f, T)
      BY <2>0, <3>2, <3>3, <3>9
    <3>11. Lists(t \o u, f, U)
      BY <3>6, <3>7, <3>8, <3>10, ListsJoin
    <3>12. g[i] = t \o u
      BY <1>1, <2>2, <3>1, <3>9
    <3>13. Lists(g[i], f, UpToSet(C, i))
      BY <3>3, <3>11, <3>12
    <3>. QED BY <1>2, <2>0, <3>13
  <2>. QED BY <2>1, <2>2
<1>5. \A i \in 0 .. n : i \in G
  BY <1>3, <1>4, UpTo
<1>6. \A i \in 1 .. n : i \in 0 .. n /\ i # 0
  OBVIOUS
<1>. QED BY <1>2, <1>5, <1>6

LEMMA FlattenLists ==
  ASSUME NEW f, NEW n \in Nat, NEW q, q = [i \in 1 .. n |-> q[i]], NEW C, Apart(C, n),
         \A i \in 1 .. n : Lists(q[i], f, C[i]),
         NEW S, S = UpToSet(C, n)
  PROVE  Lists(FlattenSeq(q), f, S)
<1>1. PICK V : V = Pairs(f, S)
  OBVIOUS
<1>2. q \in [1 .. n -> Seq(V)]
  <2>1. ASSUME NEW i \in 1 .. n PROVE q[i] \in Seq(V)
    <3>1. C[i] \subseteq S
      BY DEF UpToSet
    <3>2. Pairs(f, C[i]) \subseteq V
      BY <1>1, <3>1 DEF Pairs
    <3>3. PICK m \in Nat : q[i] \in [1 .. m -> Pairs(f, C[i])]
      <4>1. q[i] \in Seq(Pairs(f, C[i]))
        BY DEF Lists
      <4>. QED BY <4>1, LenProperties
    <3>4. q[i] \in [1 .. m -> V]
      BY <3>2, <3>3
    <3>. QED BY <3>4, InSeq
  <2>. QED BY <2>1
<1>3. q \in Seq(Seq(V)) /\ DOMAIN q = 1 .. n
  <2>1. PICK W : W = Seq(V)
    OBVIOUS
  <2>2. q \in [1 .. n -> W]
    BY <1>2, <2>1
  <2>3. q \in Seq(W)
    BY <2>2, InSeq
  <2>. QED BY <1>2, <2>1, <2>3
<1>4. Len(q) = n
  <2>1. Len(q) \in Nat /\ DOMAIN q = 1 .. Len(q)
    BY <1>3, LenProperties
  <2>. QED BY <1>3, <2>1
<1>5. CASE n = 0
  <2>1. FlattenSeq(q) = q /\ q = <<>>
    BY <1>3, <1>4, <1>5 DEF FlattenSeq
  <2>2. S = {}
    <3>1. 1 .. 0 = {}
      OBVIOUS
    <3>. QED BY <1>5, <3>1 DEF UpToSet
  <2>. QED BY <2>1, <2>2, ListsEmpty
<1>6. CASE n # 0
  <2>1. PICK g : g = CHOOSE h : h = [i \in 1 .. n |-> IF i = 1 THEN q[i] ELSE h[i - 1] \o q[i]]
    OBVIOUS
  <2>2. FlattenSeq(q) = g[n]
    BY <1>4, <1>6, <2>1 DEF FlattenSeq
  <2>3. \E h : FlatUpTo(q, n, h)
    BY <1>2, FlatExists, ZenonT(60)
  <2>4. FlatUpTo(q, n, g)
    BY <2>1, <2>3, ZenonT(60) DEF FlatUpTo
  <2>5. n \in 1 .. n
    BY <1>6
  <2>6. Lists(g[n], f, UpToSet(C, n))
    BY <1>3, <2>4, <2>5, FlatLists
  <2>. QED BY <2>2, <2>6
<1>. QED BY <1>5, <1>6

-----------------------------------------------------------------------------
\* A later key leads to no earlier node.
LEMMA SeekGrows ==
  ASSUME NEW D, D \subseteq Nat, IsFiniteSet(D), D # {}, NEW k \in Nat, NEW j \in Nat, k <= j
  PROVE  Seek(D, k) <= Seek(D, j)
<1>1. /\ Seek(D, k) \in D /\ Seek(D, k) \in Nat
      /\ (\A n \in D : ~(n <= k)) => \A n \in D : Seek(D, k) <= n
      /\ \A n \in D : n <= k => Seek(D, k) <= k
  BY SeekIs
<1>2. /\ Seek(D, j) \in D /\ Seek(D, j) \in Nat
      /\ \A n \in D : n <= j => n <= Seek(D, j)
  BY SeekIs
<1>3. CASE \A n \in D : ~(n <= k)
  BY <1>1, <1>2, <1>3
<1>4. CASE \E n \in D : n <= k
  <2>1. Seek(D, k) <= k
    BY <1>1, <1>4
  <2>2. Seek(D, k) <= j
    BY <1>1, <2>1
  <2>. QED BY <1>1, <1>2, <2>2
<1>. QED BY <1>3, <1>4

LEMMA LaterKeys ==
  ASSUME Shape, NEW i \in Keys \cup {0}, NEW j \in Keys \cup {0}
  PROVE  /\ Floor(i) \in DOMAIN nodes /\ Floor(i) \in Nat /\ Floor(j) \in Nat
         /\ i <= j => Floor(i) <= Floor(j)
         /\ Floor(i) < Floor(j) => i < j
<1>1. PICK D : D = DOMAIN nodes /\ D # {} /\ D \subseteq Nat /\ IsFiniteSet(D)
  BY Assumed DEF Shape
<1>2. i \in Nat /\ j \in Nat
  BY Assumed
<1>3. Floor(i) = Seek(D, i) /\ Floor(j) = Seek(D, j)
  BY <1>1, FloorIsSeek
<1>4. Seek(D, i) \in D /\ Seek(D, i) \in Nat /\ Seek(D, j) \in Nat
  BY <1>1, <1>2, SeekIs
<1>5. i <= j => Seek(D, i) <= Seek(D, j)
  BY <1>1, <1>2, SeekGrows
<1>6. j <= i => Seek(D, j) <= Seek(D, i)
  BY <1>1, <1>2, SeekGrows
<1>7. Seek(D, i) < Seek(D, j) => i < j
  BY <1>2, <1>4, <1>6
<1>. QED BY <1>1, <1>3, <1>4, <1>5, <1>7

\* The value of a key that the merger of a node's iterators gives.
Merged(nd, x, k) ==
  IF k \in OwnLocks(nd, x) THEN nd.locks[k].val
  ELSE IF nd.mem[k] # Absent THEN nd.mem[k] ELSE nd.blk[k]

\* A key of a node, in what its reader sees and in what the merger gives.
LEMMA MergedIs ==
  ASSUME IInv, broken = 0, NEW x \in Txns \cup {NoTxn}, NEW n \in DOMAIN nodes,
         NEW nd, nd = nodes[n], NEW k \in Keys
  PROVE  LET has == k \in OwnLocks(nd, x) \/ nd.mem[k] # Absent \/ nd.blk[k] # Absent
         IN  /\ (has /\ Merged(nd, x, k) # Deleted) <=> (Floor(k) = n /\ View(x)[k] # Absent)
             /\ Floor(k) = n /\ View(x)[k] # Absent => Merged(nd, x, k) = View(x)[k]
<1>0. Shape /\ RangesHold /\ Listed /\ Owned /\ nd \in NodeRec
  <2>1. Shape
    BY DEF IInv
  <2>. QED BY <2>1, Lookups DEF IInv, Sound
<1>1. Absent # Deleted /\ Absent \notin Vals /\ Deleted \notin Vals
  BY SSetAssumption
<1>2. PICK l : l = nd.locks[k]
  OBVIOUS
<1>3. l \in Atoms \cup {Free}
  BY <1>0, <1>2 DEF NodeRec
<1>4. k \in OwnLocks(nd, x) <=> l # Free /\ l.txn = x
  BY <1>2 DEF OwnLocks
<1>5. PICK v : v = View(x)[k]
  OBVIOUS
<1>6. Floor(k) = n => Lock(k) = l /\ Shown(k) = Visible(nd, k)
  BY <1>2 DEF Lock, Shown
<1>7. v = IF Lock(k).txn = x /\ x # NoTxn THEN Staged(k) ELSE Shown(k)
  BY <1>5, StoreIs DEF View
<1>8. CASE l # Free /\ l.txn = x
  <2>1. Floor(k) = n
    BY <1>0, <1>2, <1>8 DEF RangesHold
  <2>2. l \in Atoms /\ x # NoTxn
    <3>1. l \in Atoms
      BY <1>3, <1>8
    <3>. QED BY <1>8, <3>1, AtomNotFree
  <2>3. v = IF l.type = "REMOVE" THEN Absent ELSE l.val
    <3>1. Lock(k) = l
      BY <1>6, <2>1
    <3>2. Staged(k) = IF l.type = "REMOVE" THEN Absent ELSE l.val
      BY <1>8, <3>1, StoreIs
    <3>. QED BY <1>7, <1>8, <2>2, <3>1, <3>2
  <2>4. Meant(l)
    <3>1. \E i \in DOMAIN group[nodes[n].locks[k].txn] :
            group[nodes[n].locks[k].txn][i] = nodes[n].locks[k]
      BY <1>0, <1>2, <1>8, SMTT(30) DEF Owned
    <3>2. PICK i \in DOMAIN group[x] : group[x][i] = l
      BY <1>2, <1>8, <3>1
    <3>3. x \in Txns
      BY <2>2
    <3>. QED BY <1>0, <3>2, <3>3 DEF Listed
  <2>5. Merged(nd, x, k) = l.val
    BY <1>2, <1>4, <1>8 DEF Merged
  <2>6. (l.val # Deleted <=> v # Absent) /\ (v # Absent => l.val = v)
    BY <1>1, <2>3, <2>4 DEF Meant
  <2>. QED BY <1>4, <1>5, <1>8, <2>1, <2>5, <2>6
<1>9. CASE ~(l # Free /\ l.txn = x)
  <2>1. Merged(nd, x, k) = IF nd.mem[k] # Absent THEN nd.mem[k] ELSE nd.blk[k]
    BY <1>4, <1>9 DEF Merged
  <2>2. CASE Floor(k) # n
    <3>1. nd.mem[k] = Absent /\ nd.blk[k] = Absent
      BY <1>0, <2>2 DEF RangesHold
    <3>. QED BY <1>4, <1>9, <2>2, <3>1
  <2>3. CASE Floor(k) = n
    <3>1. ~(l.txn = x /\ x # NoTxn)
      BY <1>9 DEF Free
    <3>2. v = Visible(nd, k)
      BY <1>6, <1>7, <2>3, <3>1
    <3>3. /\ nd.mem[k] = Absent => v = nd.blk[k]
          /\ nd.mem[k] # Absent /\ nd.mem[k] # Deleted => v = nd.mem[k]
          /\ nd.mem[k] = Deleted => v = Absent
          /\ nd.blk[k] # Deleted
      BY <1>0, <3>2, VisibleIs
    <3>. QED BY <1>1, <1>4, <1>5, <1>9, <2>1, <2>3, <3>3
  <2>. QED BY <2>2, <2>3
<1>. QED BY <1>8, <1>9

\* The scan of a node lists the keys after k that a lookup sends to it.
LEMMA NodeLists ==
  ASSUME IInv, broken = 0, NEW x \in Txns \cup {NoTxn}, NEW k \in Keys \cup {0},
         NEW n \in DOMAIN nodes, NEW f, f = View(x), NEW S,
         S = {i \in Keys : Floor(i) = n /\ i > k /\ f[i] # Absent}
  PROVE  Lists(NodeScan(n, x, k, FALSE), f, S)
<1>1. PICK nd : nd = nodes[n]
  OBVIOUS
<1>2. PICK L, M, B : /\ L = {i \in OwnLocks(nd, x) : i > k}
                     /\ M = {i \in MemKeys(nd) : i > k}
                     /\ B = {i \in BlockKeys(nd) : i > k}
  OBVIOUS
<1>3. /\ SeekTree(OwnLocks(nd, x), k, FALSE) = L
      /\ SeekTree(MemKeys(nd), k, FALSE) = M
      /\ SeekBlock(BlockKeys(nd), k, FALSE) = B
  BY <1>2 DEF SeekTree, SeekBlock
<1>. DEFINE val(i) == CASE i \in L -> nd.locks[i].val
                        [] i \in M \ L -> nd.mem[i]
                        [] OTHER -> nd.blk[i]
            live == {i \in L \cup M \cup B : val(i) # Deleted}
<1>4. NodeScan(n, x, k, FALSE)
        = [i \in DOMAIN InOrder(live) |-> <<InOrder(live)[i], val(InOrder(live)[i])>>]
  BY <1>1, <1>3, ZenonT(60) DEF NodeScan
<1>5. \A i : val(i) = IF i \in L THEN nd.locks[i].val ELSE IF i \in M THEN nd.mem[i] ELSE nd.blk[i]
  OBVIOUS
<1>6. ASSUME NEW i \in Keys, i > k
      PROVE  /\ val(i) = Merged(nd, x, i)
             /\ i \in live <=> /\ i \in OwnLocks(nd, x) \/ nd.mem[i] # Absent \/ nd.blk[i] # Absent
                               /\ Merged(nd, x, i) # Deleted
  <2>1. /\ i \in L <=> i \in OwnLocks(nd, x)
        /\ i \in M <=> nd.mem[i] # Absent
        /\ i \in B <=> nd.blk[i] # Absent
    BY <1>2, <1>6 DEF MemKeys, BlockKeys
  <2>2. val(i) = Merged(nd, x, i)
    <3>. HIDE DEF val
    <3>. QED BY <1>5, <2>1 DEF Merged
  <2>3. i \in live <=> (i \in L \/ i \in M \/ i \in B) /\ val(i) # Deleted
    OBVIOUS
  <2>. HIDE DEF val, live
  <2>. QED BY <2>1, <2>2, <2>3
<1>7. live \subseteq Keys /\ \A i \in live : i > k
  BY <1>2 DEF OwnLocks, MemKeys, BlockKeys
<1>. HIDE DEF val, live
<1>8. ASSUME NEW i \in Keys, i > k
      PROVE  (i \in live <=> i \in S) /\ (i \in S => val(i) = f[i])
  BY <1>1, <1>6, <1>8, MergedIs
<1>9. live = S
  BY <1>7, <1>8
<1>10. PICK s : s = InOrder(S)
  OBVIOUS
<1>11. S \subseteq Nat /\ IsFiniteSet(S)
  <2>1. S \subseteq Keys
    OBVIOUS
  <2>. QED BY <2>1, Assumed
<1>12. \A i \in DOMAIN s : s[i] \in S
  <2>1. s \in Seq(S)
    BY <1>10, <1>11, InOrderIs
  <2>. QED BY <2>1, LenProperties
<1>13. \A i \in DOMAIN s : val(s[i]) = f[s[i]]
  <2>1. ASSUME NEW i \in DOMAIN s PROVE val(s[i]) = f[s[i]]
    <3>1. s[i] \in S
      BY <1>12
    <3>2. s[i] \in Keys /\ s[i] > k
      BY <3>1
    <3>. QED BY <1>8, <3>1, <3>2
  <2>. QED BY <2>1
<1>14. PICK t : t = NodeScan(n, x, k, FALSE)
  OBVIOUS
<1>15. t = [i \in DOMAIN s |-> <<s[i], f[s[i]]>>]
  BY <1>4, <1>9, <1>10, <1>13, <1>14
<1>16. Lists(t, f, S)
  BY <1>10, <1>11, <1>15, OrderLists
<1>. QED BY <1>14, <1>16

\* The node a scan from k begins at: the keys after k lead to it or to later
\* nodes, and every key of a later node is after k.
LEMMA ScanBegins ==
  ASSUME Shape, NEW k \in Keys \cup {0}, NEW n,
         n = IF k = 0 THEN Min(DOMAIN nodes) ELSE Floor(k)
  PROVE  /\ n \in DOMAIN nodes /\ n \in Nat
         /\ \A i \in Keys : i > k => Floor(i) = n \/ Floor(i) > n
         /\ \A i \in Keys : Floor(i) > n => i > k
<1>1. PICK D : D = DOMAIN nodes /\ D # {} /\ D \subseteq Nat /\ IsFiniteSet(D)
  BY Assumed DEF Shape
<1>2. \A i \in Keys : i \in Nat /\ i > 0 /\ Floor(i) \in D /\ Floor(i) \in Nat
  BY <1>1, Assumed, LaterKeys
<1>3. CASE k = 0
  <2>1. n \in D /\ \A m \in D : n <= m
    BY <1>1, <1>3, MaxMinIs
  <2>2. n \in Nat
    BY <1>1, <2>1
  <2>. QED BY <1>1, <1>2, <1>3, <2>1, <2>2
<1>4. CASE k # 0
  <2>1. n = Floor(k) /\ n \in D /\ n \in Nat /\ k \in Nat
    BY <1>1, <1>4, Assumed, LaterKeys
  <2>2. ASSUME NEW i \in Keys, i > k PROVE Floor(i) = n \/ Floor(i) > n
    <3>1. Floor(k) <= Floor(i)
      BY <1>2, <2>1, <2>2, LaterKeys
    <3>. QED BY <1>2, <2>1, <3>1
  <2>3. ASSUME NEW i \in Keys, Floor(i) > n PROVE i > k
    <3>1. Floor(k) < Floor(i)
      BY <1>2, <2>1, <2>3
    <3>2. k < i
      BY <3>1, LaterKeys
    <3>. QED BY <1>2, <2>1, <3>2
  <2>. QED BY <1>1, <2>1, <2>2, <2>3
<1>. QED BY <1>3, <1>4

\* The nodes after the one a scan begins at, in the order of the tree.
LEMMA ScanRest ==
  ASSUME IInv, broken = 0, NEW x \in Txns \cup {NoTxn}, NEW f, f = View(x),
         NEW n \in Nat, NEW rest, rest = InOrder({m \in DOMAIN nodes : m > n}), NEW T,
         T = {i \in Keys : Floor(i) > n /\ f[i] # Absent}
  PROVE  Lists(FlattenSeq([i \in DOMAIN rest |-> NodeScan(rest[i], x, 0, FALSE)]), f, T)
<1>0. Shape
  BY DEF IInv
<1>1. PICK R : R = {m \in DOMAIN nodes : m > n} /\ R \subseteq Nat /\ IsFiniteSet(R)
  <2>1. PICK R : R = {m \in DOMAIN nodes : m > n}
    OBVIOUS
  <2>2. R \subseteq Keys \cup {0}
    BY <1>0, <2>1 DEF Shape
  <2>. QED BY <2>1, <2>2, Assumed
<1>2. PICK c \in Nat : /\ DOMAIN rest = 1 .. c /\ \A i \in 1 .. c : rest[i] \in R
                       /\ \A i, j \in 1 .. c : i < j => rest[i] < rest[j]
                       /\ \A m \in R : \E i \in 1 .. c : rest[i] = m
  <2>0. rest = InOrder(R)
    BY <1>1
  <2>1. /\ rest \in Seq(R) /\ Cardinality(R) \in Nat /\ DOMAIN rest = 1 .. Cardinality(R)
        /\ Increasing(rest) /\ \A m \in R : \E i \in DOMAIN rest : rest[i] = m
    <3>1. R \subseteq Nat /\ IsFiniteSet(R)
      BY <1>1
    <3>. QED BY <2>0, <3>1, InOrderIs
  <2>2. \A i \in DOMAIN rest : rest[i] \in R
    BY <2>1, LenProperties
  <2>. QED BY <2>1, <2>2, ZenonT(60) DEF Increasing
<1>3. PICK q : q = [i \in DOMAIN rest |-> NodeScan(rest[i], x, 0, FALSE)]
  OBVIOUS
<1>4. PICK C : C = [i \in 1 .. c |-> {j \in Keys : Floor(j) = rest[i] /\ j > 0 /\ f[j] # Absent}]
  OBVIOUS
<1>5. \A i \in 1 .. c :
        C[i] = {j \in Keys : Floor(j) = rest[i] /\ j > 0 /\ f[j] # Absent}
  BY <1>4
<1>6. q = [i \in 1 .. c |-> q[i]]
  BY <1>2, <1>3
<1>7. ASSUME NEW i \in 1 .. c PROVE Lists(q[i], f, C[i])
  <2>1. PICK m \in DOMAIN nodes : m = rest[i]
    BY <1>1, <1>2
  <2>2. PICK S : S = C[i]
    OBVIOUS
  <2>3. S = {j \in Keys : Floor(j) = m /\ j > 0 /\ f[j] # Absent}
    BY <1>5, <2>1, <2>2
  <2>4. PICK z \in Keys \cup {0} : z = 0
    OBVIOUS
  <2>5. S = {j \in Keys : Floor(j) = m /\ j > z /\ f[j] # Absent}
    BY <2>3, <2>4
  <2>6. Lists(NodeScan(m, x, z, FALSE), f, S)
    BY <2>5, NodeLists
  <2>7. q[i] = NodeScan(m, x, z, FALSE)
    BY <1>2, <1>3, <2>1, <2>4
  <2>. QED BY <2>2, <2>6, <2>7
<1>8. Apart(C, c)
  <2>1. \A i \in 1 .. c : C[i] \subseteq Nat
    BY <1>5, Assumed
  <2>2. ASSUME NEW i \in 1 .. c, NEW j \in 1 .. c, i < j, NEW a \in C[i], NEW b \in C[j]
        PROVE  a < b
    <3>1. a \in Keys /\ b \in Keys /\ Floor(a) = rest[i] /\ Floor(b) = rest[j]
      BY <1>5, <2>2
    <3>2. rest[i] < rest[j]
      BY <1>2, <2>2
    <3>3. Floor(a) < Floor(b)
      BY <3>1, <3>2
    <3>. QED BY <1>0, <3>1, <3>3, LaterKeys
  <2>. QED BY <2>1, <2>2 DEF Apart
<1>9. T = UpToSet(C, c)
  <2>1. ASSUME NEW j \in T PROVE \E i \in 1 .. c : j \in C[i]
    <3>1. j \in Keys /\ Floor(j) \in R /\ j > 0 /\ f[j] # Absent
      BY <1>0, <1>1, Assumed, Lookups
    <3>2. PICK i \in 1 .. c : rest[i] = Floor(j)
      BY <1>2, <3>1
    <3>. QED BY <1>5, <3>1, <3>2
  <2>2. ASSUME NEW i \in 1 .. c, NEW j \in C[i] PROVE j \in T
    <3>1. j \in Keys /\ Floor(j) = rest[i] /\ f[j] # Absent /\ rest[i] \in R
      BY <1>2, <1>5
    <3>. QED BY <1>1, <3>1
  <2>. QED BY <2>1, <2>2 DEF UpToSet
<1>10. Lists(FlattenSeq(q), f, T)
  BY <1>6, <1>7, <1>8, <1>9, FlattenLists
<1>. QED BY <1>3, <1>10

LEMMA ScanAgreesHolds == IInv => ScanAgrees
<1>. SUFFICES ASSUME IInv, broken = 0, NEW x \in Txns \cup {NoTxn}, NEW k \in Keys \cup {0}
              PROVE  LET keys == {i \in Keys : i > k /\ View(x)[i] # Absent}
                         s == InOrder(keys)
                     IN  Scan(x, k, FALSE) = [i \in DOMAIN s |-> <<s[i], View(x)[s[i]]>>]
  BY DEF ScanAgrees
<1>0. Shape
  BY DEF IInv
<1>1. PICK f : f = View(x)
  OBVIOUS
<1>2. PICK n : n = IF k = 0 THEN Min(DOMAIN nodes) ELSE Floor(k)
  OBVIOUS
<1>3. /\ n \in DOMAIN nodes /\ n \in Nat
      /\ \A i \in Keys : i > k => Floor(i) = n \/ Floor(i) > n
      /\ \A i \in Keys : Floor(i) > n => i > k
  BY <1>0, <1>2, ScanBegins
<1>4. PICK rest : rest = InOrder({m \in DOMAIN nodes : m > n})
  OBVIOUS
<1>5. PICK t, u : /\ t = NodeScan(n, x, k, FALSE)
                  /\ u = FlattenSeq([i \in DOMAIN rest |-> NodeScan(rest[i], x, 0, FALSE)])
  OBVIOUS
<1>6. Scan(x, k, FALSE) = t \o u
  BY <1>2, <1>4, <1>5 DEF Scan
<1>7. PICK S, T, U : /\ S = {i \in Keys : Floor(i) = n /\ i > k /\ f[i] # Absent}
                     /\ T = {i \in Keys : Floor(i) > n /\ f[i] # Absent}
                     /\ U = {i \in Keys : i > k /\ f[i] # Absent}
  OBVIOUS
<1>8. Lists(t, f, S)
  BY <1>1, <1>3, <1>5, <1>7, NodeLists
<1>9. Lists(u, f, T)
  BY <1>1, <1>3, <1>4, <1>5, <1>7, ScanRest, ZenonT(60)
<1>10. U = S \cup T
  BY <1>3, <1>7
<1>11. S \subseteq Nat /\ T \subseteq Nat /\ U \subseteq Nat /\ IsFiniteSet(U)
  <2>1. S \subseteq Keys /\ T \subseteq Keys /\ U \subseteq Keys
    BY <1>7
  <2>. QED BY <2>1, Assumed
<1>12. \A a \in S, b \in T : a < b
  <2>1. ASSUME NEW a \in S, NEW b \in T PROVE a < b
    <3>1. a \in Keys /\ b \in Keys /\ Floor(a) = n /\ Floor(b) > n
      BY <1>7
    <3>2. Floor(b) \in Nat
      BY <1>0, <3>1, LaterKeys
    <3>3. Floor(a) < Floor(b)
      BY <1>3, <3>1, <3>2
    <3>. QED BY <1>0, <3>1, <3>3, LaterKeys
  <2>. QED BY <2>1
<1>13. Lists(t \o u, f, U)
  BY <1>8, <1>9, <1>10, <1>11, <1>12, ListsJoin
<1>14. PICK w : w = [i \in DOMAIN InOrder(U) |-> <<InOrder(U)[i], f[InOrder(U)[i]]>>]
  OBVIOUS
<1>15. Lists(w, f, U)
  BY <1>11, <1>14, OrderLists
<1>16. PICK tu : tu = t \o u
  OBVIOUS
<1>17. tu = w
  <2>1. Lists(tu, f, U)
    BY <1>13, <1>16
  <2>. QED BY <1>11, <1>15, <2>1, ListsUnique
<1>18. U = {i \in Keys : i > k /\ View(x)[i] # Absent}
  BY <1>1, <1>7
<1>. QED BY <1>1, <1>6, <1>14, <1>16, <1>17, <1>18

\* Until a weakness is met, however balances have cut the set into nodes:
\* nothing is out of reach of a lookup, a get answers what its reader is to see
\* of the store (but for a key whose lock leads the search astray), and a scan
\* answers every key of the reader's view after the one it starts at, once and
\* in order (raleighsl_sset_get, raleighsl_sset_scan, __sset_node_lookup).
THEOREM SetReadsAgree == Spec => []ReadsAgree
<1>1. IInv => ReadsAgree
  BY GetAgreesHolds, ScanAgreesHolds DEF IInv, ReadsAgree
<1>. QED BY <1>1, SetInvariant, PTL

=============================================================================
