-------------------------- MODULE FilesystemProofs --------------------------
(***************************************************************************)
(* Proofs about what a client of the filesystem names and writes: the      *)
(* number object, for every width, set of transactions and set of          *)
(* operands, implements the one-object store; the semantic layer, for all  *)
(* sets of names and labels and any number of objects, loads its layers    *)
(* all or none, leads names to objects of their own, and implements the    *)
(* namespace; the cache, for any threads, entries and capacity, under both *)
(* policies, counts references and usage exactly and keeps its lists in    *)
(* agreement until an entry strays.                                        *)
(***************************************************************************)
EXTENDS NumberObj, Semantic, Cache, FiniteSetTheorems, WellFoundedInduction,
        SequenceTheorems, TLAPS

-----------------------------------------------------------------------------
(* The number object.                                                      *)

\* The shape of the state, whatever the values are.
NumShape ==
  /\ num = [read |-> num.read, write |-> num.write, owner |-> num.owner]
  /\ num.owner \in Txns \cup {NoTxn}
  /\ status \in [Txns -> {"open", "committed", "rolledback"}]

\* The number is settled between two calls and keeps its shape; the two
\* support each other, because an owner's status has to be defined.
NumIInv == NumShape /\ Settled

LEMMA InitNumIInv == Init => NumIInv
BY NumberObjAssumption DEF Init, NumIInv, NumShape, Settled, Created

\* What a successful call and its commit leave.
LEMMA WriteShape ==
  ASSUME NEW x, NEW f, Write(x, f)
  PROVE  /\ num'.write = Result(num.write, f)
         /\ num'.owner = x
         /\ num'.read = IF x = NoTxn THEN Result(num.write, f) ELSE num.read
         /\ num' = [read |-> num'.read, write |-> num'.write,
                    owner |-> num'.owner]
  BY DEF Write, Commit, Mutate

LEMMA NextNumIInv == NumIInv /\ [Next]_vars => NumIInv'
<1>. SUFFICES ASSUME NumIInv, [Next]_vars PROVE NumIInv'
  OBVIOUS
<1>. USE NumberObjAssumption DEF NumIInv, NumShape, Settled
<1>1. ASSUME NEW x \in Txns \cup {NoTxn}, Read(x) PROVE NumIInv'
  BY <1>1 DEF Read
<1>2. ASSUME NEW x \in Txns \cup {NoTxn}, NEW f \in Calls, Fail(x, f)
      PROVE  NumIInv'
  BY <1>2 DEF Fail
<1>3. ASSUME NEW x \in Txns \cup {NoTxn}, NEW f \in Calls, Write(x, f)
      PROVE  NumIInv'
  BY <1>3, WriteShape DEF Write, Open
<1>4. ASSUME NEW x \in Txns, CommitTxn(x) PROVE NumIInv'
  BY <1>4 DEF CommitTxn, Ended, Apply, Commit
<1>5. ASSUME NEW x \in Txns, RollbackTxn(x) PROVE NumIInv'
  BY <1>5 DEF RollbackTxn, Ended, Revert, Commit
<1>6. CASE UNCHANGED vars
  BY <1>6 DEF vars
<1>. QED
  BY <1>1, <1>2, <1>3, <1>4, <1>5, <1>6 DEF Next

\* The number is settled between any two calls: no value waits for a commit
\* without an owner, and no ended transaction owns the number.
THEOREM NumberSettled == Spec => []Settled
<1>1. Spec => []NumIInv
  BY InitNumIInv, NextNumIInv, PTL DEF Spec
<1>. QED
  BY <1>1, PTL DEF NumIInv

-----------------------------------------------------------------------------
\* The calls that are evaluated are calls of the store.
LEMMA Evaluated ==
  ASSUME NEW x, NEW f \in Calls, Errno(num, x, f) = "NONE"
  PROVE  f \in {g \in Calls : g.op # "div" \/ g.arg # 0}
  BY DEF Errno

LEMMA RefineWrite ==
  ASSUME NumIInv, NEW x \in Txns \cup {NoTxn}, NEW f \in Calls, Write(x, f)
  PROVE  Store!Next
<1>1. Errno(num, x, f) = "NONE" /\ num.owner \in {NoTxn, x}
  BY DEF Write, Errno
<1>2. CASE x = NoTxn
  <2>1. num.read = num.write
    BY <1>1, <1>2 DEF NumIInv, Settled
  <2>2. Store!Write("number", f)
    BY <1>1, <1>2, <2>1, WriteShape DEF Store!Write, Write
  <2>. QED
    BY <1>1, <2>2, Evaluated DEF Store!Next
<1>3. CASE x \in Txns
  <2>1. x # NoTxn
    BY <1>3, NumberObjAssumption
  <2>2. Store!TxnWrite(x, "number", f)
    BY <1>1, <1>3, <2>1, WriteShape DEF Store!TxnWrite, Write, Open
  <2>. QED
    BY <1>1, <1>3, <2>2, Evaluated DEF Store!Next
<1>. QED
  BY <1>2, <1>3

LEMMA RefineEnd ==
  ASSUME NumIInv, NEW x \in Txns
  PROVE  /\ CommitTxn(x) => Store!Commit(x)
         /\ RollbackTxn(x) => Store!Rollback(x)
<1>. USE NumberObjAssumption DEF NumIInv, NumShape, Settled, Store!End
<1>1. CommitTxn(x) => Store!Commit(x)
  BY DEF CommitTxn, Ended, Apply, Commit, Store!Commit
<1>2. RollbackTxn(x) => Store!Rollback(x)
  BY DEF RollbackTxn, Ended, Revert, Commit, Store!Rollback
<1>. QED
  BY <1>1, <1>2

\* A number under the scheduler implements the abstract store with one
\* object (RefinesStore): reads and failures are stutters, a write outside
\* the transactions and a write inside one are the writes of the store, the
\* end of a transaction is its commit or rollback.
THEOREM NumberImplementsStore == Spec => RefinesStore
<1>1. Init => Store!Init
  BY DEF Init, Store!Init, Created
<1>2. NumIInv /\ [Next]_vars => [Store!Next]_(Store!vars)
  <2>. SUFFICES ASSUME NumIInv, [Next]_vars PROVE [Store!Next]_(Store!vars)
    OBVIOUS
  <2>1. ASSUME NEW x \in Txns \cup {NoTxn}, Read(x)
        PROVE  [Store!Next]_(Store!vars)
    BY <2>1 DEF Read, Store!vars
  <2>2. ASSUME NEW x \in Txns \cup {NoTxn}, NEW f \in Calls, Fail(x, f)
        PROVE  [Store!Next]_(Store!vars)
    BY <2>2 DEF Fail, Store!vars
  <2>3. ASSUME NEW x \in Txns \cup {NoTxn}, NEW f \in Calls, Write(x, f)
        PROVE  [Store!Next]_(Store!vars)
    BY <2>3, RefineWrite
  <2>4. ASSUME NEW x \in Txns, CommitTxn(x) \/ RollbackTxn(x)
        PROVE  [Store!Next]_(Store!vars)
    BY <2>4, RefineEnd DEF Store!Next
  <2>5. CASE UNCHANGED vars
    BY <2>5 DEF vars, Store!vars
  <2>. QED
    BY <2>1, <2>2, <2>3, <2>4, <2>5 DEF Next
<1>3. NumIInv /\ [Next]_vars => [UNCHANGED vars \/ Store!Next]_(Store!vars)
  BY <1>2
<1>4. Spec => []NumIInv
  BY InitNumIInv, NextNumIInv, PTL DEF Spec
<1>. QED
  BY <1>1, <1>3, <1>4, PTL DEF Spec, RefinesStore

-----------------------------------------------------------------------------
(* The semantic layer.                                                     *)

Entries == Names \X (Oids \cup {NoOid})

\* An id that has been given to a name is not given again.
Spent == ~fsBroken => \A n \in Names : root[n] # NoOid => root[n] <= used

\* The inductive invariant.
FsIInv == FsTypeOK /\ AllOrNone /\ OneNameEach /\ Spent

-----------------------------------------------------------------------------
(* The commit of the root                                                  *)

LEMMA LayersAre == ToSet(Layers) = {"format", "space", "semantic"}
  BY DEF ToSet, Layers

LEMMA EmptyTyped == ASSUME NEW S PROVE <<>> \in Seq(S)
  OBVIOUS

\* A set of places in a sequence has a last one.
LEMMA LastOf ==
  ASSUME NEW n \in Nat, NEW W, W \subseteq 1 .. n, W # {}
  PROVE  \E i \in W : \A j \in W : j <= i
<1>. DEFINE R == {p \in Nat \X Nat : p[1] < p[2]}
            T == {n - i : i \in W}
<1>1. T \subseteq Nat /\ T # {}
  <2>1. \A i \in W : i \in 1 .. n
    OBVIOUS
  <2>2. \A i \in W : n - i \in Nat
    BY <2>1
  <2>. QED BY <2>2
<1>2. PICK d \in T : \A m \in T : ~(<<m, d>> \in R)
  <2>1. IsWellFoundedOn(R, Nat)
    BY NatLessThanWellFounded DEF OpToRel
  <2>. HIDE DEF T, R
  <2>. QED BY <1>1, <2>1, WFMin
<1>3. PICK i \in W : d = n - i
  BY <1>2
<1>4. ASSUME NEW j \in W PROVE j <= i
  <2>1. n - j \in T /\ n - j \in Nat /\ d \in Nat
    BY <1>1
  <2>2. ~(n - j < d)
    BY <1>2, <2>1
  <2>. QED BY <1>3, <2>2
<1>. QED BY <1>4

\* A commit leaves names that lead to ids or nowhere.
LEMMA CommittedTyped ==
  ASSUME root \in [Names -> Oids \cup {NoOid}], NEW q \in Seq(Entries)
  PROVE  Committed(q) \in [Names -> Oids \cup {NoOid}]
<1>. SUFFICES ASSUME NEW n \in Names PROVE Committed(q)[n] \in Oids \cup {NoOid}
  BY DEF Committed
<1>. DEFINE W == {i \in DOMAIN q : q[i][1] = n}
<1>1. CASE W = {}
  BY <1>1 DEF Committed
<1>2. CASE W # {}
  <2>1. Len(q) \in Nat /\ W \subseteq 1 .. Len(q)
    OBVIOUS
  <2>2. \E i \in W : \A j \in W : j <= i
    BY <1>2, <2>1, LastOf
  <2>3. PICK i \in W : i = CHOOSE k \in W : \A j \in W : j <= k
    BY <2>2
  <2>4. q[i][2] \in Oids \cup {NoOid}
    BY DEF Entries
  <2>5. Committed(q)[n] = q[i][2]
    BY <1>2, <2>3 DEF Committed
  <2>. QED BY <2>4, <2>5
<1>. QED BY <1>1, <1>2

\* What a call commits on an empty queue.
LEMMA CommittedNothing ==
  ASSUME root \in [Names -> Oids \cup {NoOid}]
  PROVE  Committed(<<>> \o <<>>) = root
  BY DEF Committed

LEMMA CommittedOne ==
  ASSUME root \in [Names -> Oids \cup {NoOid}], NEW m \in Names, NEW v
  PROVE  Committed(<<>> \o <<<<m, v>>>>) = [root EXCEPT ![m] = v]
<1>. DEFINE q == <<>> \o <<<<m, v>>>>
<1>1. q = <<<<m, v>>>> /\ DOMAIN q = {1} /\ q[1] = <<m, v>>
  OBVIOUS
<1>2. ASSUME NEW n \in Names PROVE Committed(q)[n] = [root EXCEPT ![m] = v][n]
  <2>. DEFINE W == {i \in DOMAIN q : q[i][1] = n}
  <2>1. CASE n = m
    <3>1. W = {1}
      BY <1>1, <2>1
    <3>2. (CHOOSE i \in W : \A j \in W : j <= i) = 1
      BY <3>1
    <3>. QED BY <1>1, <2>1, <3>1, <3>2 DEF Committed
  <2>2. CASE n # m
    <3>1. W = {}
      BY <1>1, <2>2
    <3>. QED BY <2>2, <3>1 DEF Committed
  <2>. QED BY <2>1, <2>2
<1>. QED BY <1>2 DEF Committed

LEMMA CommittedTwo ==
  ASSUME root \in [Names -> Oids \cup {NoOid}],
         NEW m \in Names, NEW n \in Names, m # n, NEW u, NEW v
  PROVE  Committed(<<>> \o <<<<m, u>>, <<n, v>>>>) =
           [k \in Names |-> IF k = m THEN u ELSE IF k = n THEN v ELSE root[k]]
<1>. DEFINE q == <<>> \o <<<<m, u>>, <<n, v>>>>
<1>1. DOMAIN q = {1, 2} /\ q[1] = <<m, u>> /\ q[2] = <<n, v>>
  OBVIOUS
<1>2. ASSUME NEW k \in Names
      PROVE  Committed(q)[k] = IF k = m THEN u ELSE IF k = n THEN v ELSE root[k]
  <2>. DEFINE W == {i \in DOMAIN q : q[i][1] = k}
  <2>1. CASE k = m
    <3>1. W = {1}
      BY <1>1, <2>1
    <3>2. (CHOOSE i \in W : \A j \in W : j <= i) = 1
      BY <3>1
    <3>. QED BY <1>1, <2>1, <3>1, <3>2 DEF Committed
  <2>2. CASE k = n
    <3>1. W = {2}
      BY <1>1, <2>2
    <3>2. (CHOOSE i \in W : \A j \in W : j <= i) = 2
      BY <3>1
    <3>. QED BY <1>1, <2>2, <3>1, <3>2 DEF Committed
  <2>3. CASE k # m /\ k # n
    <3>1. W = {}
      BY <1>1, <2>3
    <3>. QED BY <2>3, <3>1 DEF Committed
  <2>. QED BY <2>1, <2>2, <2>3
<1>. QED BY <1>2 DEF Committed

-----------------------------------------------------------------------------
(* The inductive invariant                                                 *)

LEMMA InitFsIInv == FsInit => FsIInv
<1>. SUFFICES ASSUME FsInit PROVE FsIInv
  OBVIOUS
<1>1. FsTypeOK
  <2>1. rootQueue \in Seq(Names \X (Oids \cup {NoOid}))
    BY EmptyTyped DEF FsInit
  <2>2. used \in 0 .. MaxOids
    BY SemanticAssumption DEF FsInit
  <2>. QED BY <2>1, <2>2 DEF FsInit, FsTypeOK
<1>2. AllOrNone /\ OneNameEach /\ Spent
  BY DEF FsInit, AllOrNone, OneNameEach, Spent
<1>. QED BY <1>1, <1>2 DEF FsIInv

\* Making, opening and closing the file system.
LEMMA LayersKeep ==
  ASSUME FsIInv,
         \/ \E fails \in {"none"} \cup ToSet(Layers) : FsCreate(fails) \/ FsOpen(fails)
         \/ Close
  PROVE  FsIInv'
<1>1. UNCHANGED <<plugs, root, rootQueue, objs, used, crashed, fsBroken>>
  BY DEF FsCreate, FsOpen, Start, Close
<1>2. \A fails \in ToSet(Layers) : LoadedUpTo(fails) = {}
  <2>1. Before("format") = {} /\ Before("space") = {"format"}
        /\ Before("semantic") = {"format", "space"}
    BY DEF Before, Layers
  <2>. QED BY <2>1, LayersAre DEF LoadedUpTo, Undone
<1>3. LoadedUpTo("none") = ToSet(Layers) /\ "none" \notin ToSet(Layers)
  BY LayersAre DEF LoadedUpTo
<1>4. FsTypeOK' /\ AllOrNone'
  BY <1>1, <1>2, <1>3 DEF FsIInv, FsTypeOK, AllOrNone, FsCreate, FsOpen, Start, Close
<1>. QED BY <1>1, <1>4 DEF FsIInv, OneNameEach, Spent

\* Calls that change neither the names nor the layers: those that only
\* answer, and those that put a new object into the cache.
LEMMA NamesStay ==
  ASSUME FsIInv, UNCHANGED <<fsState, loaded, root, rootQueue, used>>,
         plugs' \subseteq Labels, crashed' \in BOOLEAN, fsBroken' \in BOOLEAN,
         fsBroken => fsBroken',
         objs' \in [Oids -> {"none", "blank", "failed", "open"}],
         fsBroken' \/ \A o \in Oids : objs[o] = "open" => objs'[o] = "open"
  PROVE  FsIInv'
<1>1. FsTypeOK' /\ AllOrNone'
  BY DEF FsIInv, FsTypeOK, AllOrNone
<1>2. OneNameEach' /\ Spent'
  BY SemanticAssumption DEF FsIInv, FsTypeOK, OneNameEach, Spent
<1>. QED BY <1>1, <1>2 DEF FsIInv

LEMMA CachedKeeps ==
  ASSUME FsTypeOK, NEW o \in Oids
  PROVE  /\ Cached(o) \in [Oids -> {"none", "blank", "failed", "open"}]
         /\ \A p \in Oids : objs[p] = "open" => Cached(o)[p] = "open"
  BY DEF FsTypeOK, Cached

LEMMA ShortCallsKeep ==
  ASSUME FsIInv,
         \/ \E l \in Labels :
              (\E fails \in {"none", "memory"} : Plug(l, fails)) \/ Unplug(l) \/ NoPlugin(l)
         \/ \E n \in Names :
              \/ \E fails \in {"none", "cache"} : OpenName(n, fails)
              \/ NotFound("unlink", n) \/ NotFound("rename", n)
              \/ NoMemory("unlink", n) \/ NoMemory("rename", n)
         \/ \E o \in Oids : Touch(o) \/ Evict(o)
  PROVE  FsIInv'
<1>. USE DEF FsIInv
<1>0. rootQueue \o <<>> = rootQueue
  BY DEF FsTypeOK
<1>1. ASSUME NEW l \in Labels, NEW fails \in {"none", "memory"},
             Plug(l, fails) \/ Unplug(l) \/ NoPlugin(l)
      PROVE  FsIInv'
  <2>1. /\ plugs' \subseteq Labels /\ crashed' \in BOOLEAN
        /\ UNCHANGED <<fsState, loaded, root, rootQueue, objs, used, fsBroken>>
    BY <1>0, <1>1 DEF Plug, Unplug, NoPlugin, FailWith, FsTypeOK
  <2>. QED BY <2>1, NamesStay DEF FsTypeOK
<1>2. ASSUME NEW n \in Names, NEW fails \in {"none", "cache"}, OpenName(n, fails)
      PROVE  FsIInv'
  <2>1. Lookup(n) # NoOid => Lookup(n) \in Oids
    BY DEF FsTypeOK, Lookup
  <2>2. /\ objs' \in [Oids -> {"none", "blank", "failed", "open"}]
        /\ \A o \in Oids : objs[o] = "open" => objs'[o] = "open"
    BY <1>2, <2>1, CachedKeeps DEF OpenName, FsTypeOK
  <2>. QED BY <1>2, <2>2, NamesStay DEF OpenName, FsTypeOK
<1>3. ASSUME NEW n \in Names, NEW call, NotFound(call, n) \/ NoMemory(call, n)
      PROVE  FsIInv'
  BY <1>0, <1>3, NamesStay DEF NotFound, NoMemory, FailWith, FsTypeOK
<1>4. ASSUME NEW o \in Oids, Touch(o) PROVE FsIInv'
  <2>1. /\ UNCHANGED <<fsState, loaded, plugs, root, rootQueue, used, fsBroken>>
        /\ crashed' \in BOOLEAN /\ objs' \in {objs, Cached(o)}
    BY <1>4 DEF Touch, FsTypeOK
  <2>2. /\ objs' \in [Oids -> {"none", "blank", "failed", "open"}]
        /\ \A p \in Oids : objs[p] = "open" => objs'[p] = "open"
    BY <2>1, CachedKeeps DEF FsTypeOK
  <2>. QED BY <2>1, <2>2, NamesStay DEF FsTypeOK
<1>5. ASSUME NEW o \in Oids, Evict(o) PROVE FsIInv'
  BY <1>5, NamesStay DEF Evict, FsTypeOK
<1>. QED BY <1>1, <1>2, <1>3, <1>4, <1>5

\* A call that fails half way leaves a write on the queue, and breaks.
LEMMA HalfWayKeeps ==
  ASSUME FsIInv, NEW e \in Entries, rootQueue' = rootQueue \o <<e>>,
         fsBroken' = TRUE, UNCHANGED <<fsState, loaded, plugs, root, crashed>>,
         used' \in 0 .. MaxOids,
         objs' \in [Oids -> {"none", "blank", "failed", "open"}]
  PROVE  FsIInv'
<1>1. rootQueue' \in Seq(Entries)
  BY DEF FsIInv, FsTypeOK, Entries
<1>. QED BY <1>1 DEF FsIInv, FsTypeOK, AllOrNone, OneNameEach, Spent, Entries

LEMMA CreateKeeps ==
  ASSUME FsIInv, NEW n \in Names, NEW l \in Labels,
         NEW fails \in {"none", "insert", "object", "cache"}, Create(n, l, fails)
  PROVE  FsIInv'
<1>. USE DEF FsIInv
<1>1. used + 1 \in Oids /\ used' = used + 1 /\ used' \in 0 .. MaxOids /\ root[n] = NoOid
      /\ used \in Nat
  BY SemanticAssumption DEF Create, FsTypeOK, Oids, Lookup
<1>2. CASE fails = "insert"
  <2>1. UNCHANGED <<fsState, loaded, plugs, root, objs, crashed, fsBroken>>
    BY <1>2 DEF Create, FailWith
  <2>2. rootQueue' = rootQueue
    BY <1>2 DEF Create, FailWith, FsTypeOK
  <2>3. FsTypeOK' /\ AllOrNone' /\ OneNameEach'
    BY <1>1, <2>1, <2>2 DEF FsTypeOK, AllOrNone, OneNameEach
  <2>4. Spent'
    BY <1>1, <2>1, SemanticAssumption DEF FsTypeOK, Spent, Oids
  <2>. QED BY <2>3, <2>4
<1>3. CASE fails \in {"object", "cache"}
  <2>1. <<n, used + 1>> \in Entries
    BY <1>1 DEF Entries
  <2>2. objs' \in [Oids -> {"none", "blank", "failed", "open"}]
    BY <1>3 DEF Create, Made, FsTypeOK
  <2>. QED BY <1>1, <1>3, <2>1, <2>2, HalfWayKeeps DEF Create, FailWith, Addition
<1>4. CASE fails = "none"
  <2>1. /\ root' = Committed(rootQueue \o <<<<n, used + 1>>>>) /\ rootQueue' = <<>>
        /\ objs' = [objs EXCEPT ![used + 1] = "open"]
        /\ UNCHANGED <<fsState, loaded, plugs, crashed, fsBroken>>
    BY <1>4 DEF Create, Succeed, Addition, Made
  <2>2. <<n, used + 1>> \in Entries
    BY <1>1 DEF Entries
  <2>3. root' \in [Names -> Oids \cup {NoOid}]
    <3>1. rootQueue \o <<<<n, used + 1>>>> \in Seq(Entries)
      BY <2>2 DEF FsTypeOK, Entries
    <3>. QED BY <2>1, <3>1, CommittedTyped DEF FsTypeOK
  <2>4. FsTypeOK' /\ AllOrNone'
    <3>1. rootQueue' \in Seq(Names \X (Oids \cup {NoOid}))
      BY <2>1, EmptyTyped
    <3>2. objs' \in [Oids -> {"none", "blank", "failed", "open"}]
      BY <2>1 DEF FsTypeOK
    <3>3. UNCHANGED <<fsState, loaded, plugs, crashed, fsBroken>>
      BY <2>1
    <3>. QED BY <1>1, <2>3, <3>1, <3>2, <3>3 DEF FsTypeOK, AllOrNone
  <2>5. ASSUME ~fsBroken PROVE root' = [root EXCEPT ![n] = used + 1]
    BY <2>1, <2>5, CommittedOne DEF OneNameEach, FsTypeOK
  <2>6. Spent'
    <3>. SUFFICES ASSUME ~fsBroken, NEW m \in Names, root'[m] # NoOid
                  PROVE  root'[m] <= used'
      BY <2>1 DEF Spent
    <3>1. root'[m] = IF m = n THEN used + 1 ELSE root[m]
      BY <2>5 DEF FsTypeOK
    <3>2. m # n => root[m] <= used /\ root[m] \in Nat
      BY <3>1 DEF Spent, FsTypeOK, Oids
    <3>. QED BY <1>1, <3>1, <3>2
  <2>7. OneNameEach'
    <3>. SUFFICES ASSUME ~fsBroken PROVE OneNameEach'
      BY <2>1 DEF OneNameEach
    <3>1. \A m \in Names : root[m] # NoOid => root[m] # used + 1
      BY <1>1, SemanticAssumption DEF Spent, FsTypeOK, Oids
    <3>2. \A m \in Names : root'[m] = IF m = n THEN used + 1 ELSE root[m]
      BY <2>5 DEF FsTypeOK
    <3>3. \A m \in Names : root[m] # NoOid => root[m] \in Oids
      BY DEF FsTypeOK
    <3>4. \A o \in Oids : objs'[o] = IF o = used + 1 THEN "open" ELSE objs[o]
      BY <2>1 DEF FsTypeOK
    <3>5. rootQueue' = <<>>
      BY <2>1
    <3>6. \A m \in Names : root'[m] # NoOid => objs'[root'[m]] = "open"
      BY <1>1, <3>2, <3>3, <3>4 DEF OneNameEach
    <3>7. \A m, k \in Names : root'[m] = root'[k] => m = k \/ root'[m] = NoOid
      BY <3>1, <3>2 DEF OneNameEach
    <3>. QED BY <3>5, <3>6, <3>7 DEF OneNameEach
  <2>. QED BY <2>4, <2>6, <2>7
<1>. QED BY <1>2, <1>3, <1>4

\* What a call commits that gives no name a new object: a name dropped, one
\* moved, or nothing.
LEMMA CommitKeeps ==
  ASSUME FsIInv, NEW es \in Seq(Entries), rootQueue' = <<>>,
         root' = Committed(rootQueue \o es),
         UNCHANGED <<fsState, loaded, plugs, used, fsBroken>>, crashed' \in BOOLEAN,
         objs' \in [Oids -> {"none", "blank", "failed", "open"}],
         \A o \in Oids : objs[o] = "open" => objs'[o] = "open",
         NEW f, f \in [Names -> Oids \cup {NoOid}], ~fsBroken => root' = f,
         \A n \in Names : f[n] # NoOid => \E m \in Names : f[n] = root[m],
         fsBroken \/ \A m, n \in Names : f[m] = f[n] => m = n \/ f[m] = NoOid
  PROVE  FsIInv'
<1>. USE DEF FsIInv
<1>1. root' \in [Names -> Oids \cup {NoOid}]
  <2>1. rootQueue \o es \in Seq(Entries)
    BY DEF FsTypeOK, Entries
  <2>. QED BY <2>1, CommittedTyped DEF FsTypeOK
<1>2. FsTypeOK' /\ AllOrNone'
  <2>1. rootQueue' \in Seq(Names \X (Oids \cup {NoOid}))
    BY EmptyTyped
  <2>. QED BY <1>1, <2>1 DEF FsTypeOK, AllOrNone
<1>3. Spent'
  <2>. SUFFICES ASSUME ~fsBroken, NEW n \in Names, f[n] # NoOid PROVE f[n] <= used
    BY DEF Spent
  <2>. QED BY DEF Spent
<1>4. OneNameEach'
  <2>. SUFFICES ASSUME ~fsBroken PROVE OneNameEach'
    BY DEF OneNameEach
  <2>1. ASSUME NEW n \in Names, f[n] # NoOid PROVE objs'[f[n]] = "open"
    BY <2>1 DEF OneNameEach
  <2>2. root' = f
    OBVIOUS
  <2>. QED BY <2>1, <2>2 DEF OneNameEach
<1>. QED BY <1>2, <1>3, <1>4

LEMMA PresentKeeps ==
  ASSUME FsIInv, NEW call, NEW n \in Names, Present(call, n)
  PROVE  FsIInv'
<1>1. ~fsBroken => root' = root
  BY CommittedNothing DEF Present, Succeed, FsIInv, OneNameEach, FsTypeOK
<1>2. /\ rootQueue' = <<>> /\ root' = Committed(rootQueue \o <<>>)
      /\ UNCHANGED <<fsState, loaded, plugs, used, fsBroken, crashed, objs>>
  BY DEF Present, Succeed
<1>3. root \in [Names -> Oids \cup {NoOid}] /\ crashed \in BOOLEAN
      /\ objs \in [Oids -> {"none", "blank", "failed", "open"}]
      /\ <<>> \in Seq(Entries)
  BY EmptyTyped DEF FsIInv, FsTypeOK
<1>4. fsBroken \/ \A m, k \in Names : root[m] = root[k] => m = k \/ root[m] = NoOid
  BY DEF FsIInv, OneNameEach
<1>. QED BY <1>1, <1>2, <1>3, <1>4, CommitKeeps

LEMMA UnlinkKeeps ==
  ASSUME FsIInv, NEW n \in Names, NEW fails \in {"none", "cache"}, Unlink(n, fails)
  PROVE  FsIInv'
<1>0. CASE fails = "cache"
  <2>1. Removal(n) \in Entries
    BY DEF Removal, Entries
  <2>2. /\ rootQueue' = rootQueue \o <<Removal(n)>> /\ fsBroken' = TRUE
        /\ UNCHANGED <<fsState, loaded, plugs, root, objs, used, crashed>>
    BY <1>0 DEF Unlink, FailWith
  <2>. QED BY <2>1, <2>2, HalfWayKeeps DEF FsIInv, FsTypeOK
<1>. SUFFICES ASSUME fails = "none" PROVE FsIInv'
  BY <1>0
<1>1. /\ Lookup(n) \in Oids /\ root \in [Names -> Oids \cup {NoOid}]
      /\ fsBroken \/ \A m, k \in Names : root[m] = root[k] => m = k \/ root[m] = NoOid
  BY DEF FsIInv, FsTypeOK, Unlink, Lookup, OneNameEach
<1>2. /\ objs' \in [Oids -> {"none", "blank", "failed", "open"}]
      /\ \A o \in Oids : objs[o] = "open" => objs'[o] = "open"
  BY <1>1, CachedKeeps DEF FsIInv, Unlink
<1>3. UNCHANGED <<fsState, loaded, plugs, used, fsBroken>> /\ crashed' \in BOOLEAN
  BY DEF Unlink, FsIInv, FsTypeOK
<1>4. CASE UNCHANGED <<root, rootQueue>>
  BY <1>2, <1>3, <1>4, NamesStay DEF FsIInv, FsTypeOK
<1>5. CASE Succeed("unlink", <<Removal(n)>>)
  <2>. DEFINE f == [root EXCEPT ![n] = NoOid]
  <2>1. /\ f \in [Names -> Oids \cup {NoOid}]
        /\ \A m \in Names : f[m] # NoOid => \E k \in Names : f[m] = root[k]
        /\ fsBroken \/ \A m, k \in Names : f[m] = f[k] => m = k \/ f[m] = NoOid
    BY <1>1
  <2>2. <<Removal(n)>> \in Seq(Entries)
    BY DEF Removal, Entries
  <2>3. ASSUME ~fsBroken PROVE root' = f
    BY <1>5, <2>3, CommittedOne DEF Succeed, Removal, FsIInv, OneNameEach, FsTypeOK
  <2>4. rootQueue' = <<>> /\ root' = Committed(rootQueue \o <<Removal(n)>>)
    BY <1>5 DEF Succeed
  <2>. HIDE DEF f
  <2>. QED BY <1>2, <1>3, <2>1, <2>2, <2>3, <2>4, CommitKeeps
<1>. QED BY <1>4, <1>5 DEF Unlink

LEMMA RenameKeepsInv ==
  ASSUME FsIInv, NEW m \in Names, NEW n \in Names, NEW fails \in {"none", "insert"},
         Rename(m, n, fails)
  PROVE  FsIInv'
<1>1. /\ Lookup(m) \in Oids /\ Lookup(m) = root[m] /\ root[n] = NoOid /\ m # n
      /\ root \in [Names -> Oids \cup {NoOid}]
      /\ fsBroken \/ \A k, l \in Names : root[k] = root[l] => k = l \/ root[k] = NoOid
  BY SemanticAssumption DEF FsIInv, FsTypeOK, Rename, Lookup, OneNameEach
<1>2. /\ UNCHANGED <<fsState, loaded, plugs, objs, used, crashed>> /\ crashed \in BOOLEAN
      /\ objs \in [Oids -> {"none", "blank", "failed", "open"}] /\ used \in 0 .. MaxOids
  BY DEF Rename, FsIInv, FsTypeOK
<1>3. CASE fails = "insert"
  <2>1. Removal(m) \in Entries
    BY DEF Removal, Entries
  <2>2. rootQueue' = rootQueue \o <<Removal(m)>> /\ root' = root /\ fsBroken' = TRUE
    BY <1>3 DEF Rename, FailWith
  <2>. QED BY <1>2, <2>1, <2>2, HalfWayKeeps
<1>4. CASE fails = "none"
  <2>. DEFINE f == [k \in Names |->
                      IF k = m THEN NoOid ELSE IF k = n THEN root[m] ELSE root[k]]
  <2>1. /\ f \in [Names -> Oids \cup {NoOid}]
        /\ \A k \in Names : f[k] = IF k = m THEN NoOid ELSE IF k = n THEN root[m] ELSE root[k]
    BY <1>1
  <2>2. /\ \A k \in Names : f[k] # NoOid => \E l \in Names : f[k] = root[l]
        /\ fsBroken \/ \A k, l \in Names : f[k] = f[l] => k = l \/ f[k] = NoOid
    BY <1>1, <2>1
  <2>3. <<Removal(m), Addition(n, Lookup(m))>> \in Seq(Entries)
    BY <1>1 DEF Removal, Addition, Entries
  <2>4. /\ rootQueue' = <<>> /\ fsBroken' = fsBroken
        /\ root' = Committed(rootQueue \o <<Removal(m), Addition(n, Lookup(m))>>)
    BY <1>4 DEF Rename, Succeed
  <2>5. ASSUME ~fsBroken PROVE root' = f
    <3>1. rootQueue = <<>>
      BY <2>5 DEF FsIInv, OneNameEach
    <3>2. Committed(<<>> \o <<<<m, NoOid>>, <<n, root[m]>>>>) = f
      BY <1>1, CommittedTwo
    <3>. HIDE DEF f
    <3>. QED BY <1>1, <2>4, <3>1, <3>2 DEF Removal, Addition
  <2>. HIDE DEF f
  <2>. QED BY <1>2, <2>1, <2>2, <2>3, <2>4, <2>5, CommitKeeps
<1>. QED BY <1>3, <1>4

LEMMA NextFsIInv == FsIInv /\ [FsNext]_svars => FsIInv'
<1>. SUFFICES ASSUME FsIInv, [FsNext]_svars PROVE FsIInv'
  OBVIOUS
<1>1. CASE UNCHANGED svars
  BY <1>1 DEF FsIInv, svars, FsTypeOK, AllOrNone, OneNameEach, Spent
<1>2. CASE FsNext
  BY <1>2, LayersKeep, ShortCallsKeep, CreateKeeps, PresentKeeps, UnlinkKeeps, RenameKeepsInv
     DEF FsNext
<1>. QED BY <1>1, <1>2

-----------------------------------------------------------------------------
(* The theorems                                                            *)

LEMMA FsInvariance == FsSpec => []FsIInv
  BY InitFsIInv, NextFsIInv, PTL DEF FsSpec

\* The state of the file system and its names keeps its types.
THEOREM FsTypes == FsSpec => []FsTypeOK
<1>1. FsIInv => FsTypeOK
  BY DEF FsIInv
<1>. QED BY <1>1, FsInvariance, PTL

\* The layers are loaded all or none, and until a call fails half way every
\* name leads to an open object of its own (NamesLead).
THEOREM NamesLeadAlways == FsSpec => []NamesLead
<1>1. FsIInv => NamesLead
  BY DEF FsIInv, NamesLead
<1>. QED BY <1>1, FsInvariance, PTL

-----------------------------------------------------------------------------
(* The refinement                                                          *)

\* A weakness that has been met is not forgotten.
LEMMA BrokenStays == [FsNext]_svars /\ fsBroken => fsBroken'
<1>. SUFFICES ASSUME [FsNext]_svars, fsBroken PROVE fsBroken'
  OBVIOUS
<1>0. CASE UNCHANGED svars
  BY <1>0 DEF svars
<1>1. ASSUME NEW fails, FsCreate(fails) \/ FsOpen(fails) \/ Close PROVE fsBroken'
  BY <1>1 DEF FsCreate, FsOpen, Start, Close
<1>2. ASSUME NEW l, NEW fails, Plug(l, fails) \/ Unplug(l) \/ NoPlugin(l) PROVE fsBroken'
  BY <1>2 DEF Plug, Unplug, NoPlugin
<1>3. ASSUME NEW n, NEW call, NotFound(call, n) \/ NoMemory(call, n) \/ Present(call, n)
      PROVE  fsBroken'
  BY <1>3 DEF NotFound, NoMemory, Present
<1>4. ASSUME NEW n, NEW l, NEW fails, Create(n, l, fails) PROVE fsBroken'
  BY <1>4 DEF Create
<1>5. ASSUME NEW m, NEW n, NEW fails,
             OpenName(n, fails) \/ Unlink(n, fails) \/ Rename(m, n, fails)
      PROVE  fsBroken'
  BY <1>5 DEF OpenName, Unlink, Rename
<1>6. ASSUME NEW o, Touch(o) \/ Evict(o) PROVE fsBroken'
  BY <1>6 DEF Touch, Evict
<1>. QED BY <1>0, <1>1, <1>2, <1>3, <1>4, <1>5, <1>6 DEF FsNext

\* A step before that is a step of the namespace: a create gives a free name
\* a new id, an unlink drops one, a rename moves one, and nothing else
\* touches the names.
LEMMA StepRefines ==
  ASSUME FsIInv, FsNext, ~fsBroken'
  PROVE  Names0!Next \/ UNCHANGED <<root, used>>
<1>1. ~fsBroken /\ rootQueue = <<>> /\ root \in [Names -> Oids \cup {NoOid}]
  BY BrokenStays DEF FsIInv, OneNameEach, FsTypeOK
<1>2. ASSUME NEW n \in Names, NEW l \in Labels,
             NEW fails \in {"none", "insert", "object", "cache"}, Create(n, l, fails)
      PROVE  Names0!Next
  <2>1. used' = used + 1 /\ root[n] = NoOid /\ fails \notin {"object", "cache"}
    BY <1>2 DEF Create, Lookup
  <2>2. CASE fails = "insert"
    BY <1>2, <2>1, <2>2 DEF Create, FailWith, Names0!Next, Names0!Skipped
  <2>3. CASE fails = "none"
    <3>1. root' = Committed(<<>> \o <<<<n, used + 1>>>>)
      BY <1>1, <1>2, <2>3 DEF Create, Succeed, Addition
    <3>2. Committed(<<>> \o <<<<n, used + 1>>>>) = [root EXCEPT ![n] = used + 1]
      BY <1>1, CommittedOne
    <3>3. Names0!Made(n)
      BY <2>1, <3>1, <3>2 DEF Names0!Made
    <3>. QED BY <3>3 DEF Names0!Next
  <2>. QED BY <2>1, <2>2, <2>3
<1>3. ASSUME NEW n \in Names, NEW call, Present(call, n)
      PROVE  UNCHANGED <<root, used>>
  BY <1>1, <1>3, CommittedNothing DEF Present, Succeed
<1>4. ASSUME NEW n \in Names, NEW fails \in {"none", "cache"}, Unlink(n, fails)
      PROVE  Names0!Next \/ UNCHANGED <<root, used>>
  <2>1. root[n] # NoOid /\ used' = used
    BY <1>4 DEF Unlink, Lookup
  <2>2. CASE Succeed("unlink", <<Removal(n)>>)
    <3>1. root' = Committed(<<>> \o <<<<n, NoOid>>>>)
      BY <1>1, <2>2 DEF Succeed, Removal
    <3>2. Committed(<<>> \o <<<<n, NoOid>>>>) = [root EXCEPT ![n] = NoOid]
      BY <1>1, CommittedOne
    <3>3. Names0!Dropped(n)
      BY <2>1, <3>1, <3>2 DEF Names0!Dropped
    <3>. QED BY <3>3 DEF Names0!Next
  <2>. QED BY <1>4, <2>1, <2>2 DEF Unlink
<1>5. ASSUME NEW m \in Names, NEW n \in Names, NEW fails \in {"none", "insert"},
             Rename(m, n, fails)
      PROVE  Names0!Next
  <2>1. root[m] # NoOid /\ root[n] = NoOid /\ m # n /\ used' = used /\ fails = "none"
    BY <1>5 DEF Rename, Lookup
  <2>2. root' = Committed(<<>> \o <<<<m, NoOid>>, <<n, root[m]>>>>)
    BY <1>1, <1>5, <2>1 DEF Rename, Succeed, Removal, Addition, Lookup
  <2>3. root' = [k \in Names |-> IF k = m THEN NoOid ELSE IF k = n THEN root[m] ELSE root[k]]
    BY <1>1, <2>1, <2>2, CommittedTwo
  <2>4. root' = [root EXCEPT ![n] = root[m], ![m] = NoOid]
    BY <1>1, <2>1, <2>3
  <2>5. Names0!Moved(m, n)
    BY <2>1, <2>4 DEF Names0!Moved
  <2>. QED BY <2>5 DEF Names0!Next
<1>6. CASE \/ \E fails \in {"none"} \cup ToSet(Layers) : FsCreate(fails) \/ FsOpen(fails)
           \/ Close
           \/ \E l \in Labels :
                (\E fails \in {"none", "memory"} : Plug(l, fails)) \/ Unplug(l) \/ NoPlugin(l)
           \/ \E n \in Names :
                \/ \E fails \in {"none", "cache"} : OpenName(n, fails)
                \/ NotFound("unlink", n) \/ NotFound("rename", n)
                \/ NoMemory("unlink", n) \/ NoMemory("rename", n)
           \/ \E o \in Oids : Touch(o) \/ Evict(o)
  BY <1>6 DEF FsCreate, FsOpen, Start, Close, Plug, Unplug, NoPlugin, FailWith, OpenName,
              NotFound, NoMemory, Touch, Evict
<1>. QED BY <1>2, <1>3, <1>4, <1>5, <1>6 DEF FsNext

\* Until a call fails half way, the semantic layer implements the namespace
\* (RefinesNamespace): a name gets a new object, gives it up or passes it on
\* as a whole, and no object has two names or comes back.
THEOREM ImplementsNamespace == FsSpec => RefinesNamespace
<1>1. FsInit => Names0!Init
  BY DEF FsInit, Names0!Init
<1>2. FsIInv /\ [FsNext]_svars
        => [UNCHANGED svars \/ Names0!Next \/ fsBroken']_<<root, used>>
  BY StepRefines DEF svars
<1>. QED BY <1>1, <1>2, FsInvariance, PTL DEF FsSpec, RefinesNamespace

-----------------------------------------------------------------------------
(* The cache.                                                              *)

\* Each entry of a list is there once.
Once(s) == \A i, j \in DOMAIN s : s[i] = s[j] => i = j

InQueue(n) == Range(queue[n])

\* Where a thread is, it has an entry, a second one, the lock.
Control ==
  /\ CacheTypeOK
  /\ \A t \in Threads :
       /\ cur[t] = None <=> pc[t] \in {"idle", "alloc"}
       /\ aux[t] = None <=> pc[t] \notin {"late", "discard", "evict", "drop"}
       /\ lock = t <=> pc[t] \in {"loop", "evict", "drop"}
       /\ policy = "LRU" => pc[t] \in {"idle", "update", "insert", "count",
                                       "unlink", "unref", "mark", "using"}
       /\ policy = "2Q" => pc[t] \notin {"unlink", "unref", "mark"}
  /\ closing => \A t \in Threads : pc[t] = "idle"

\* An entry that has not been allocated is nowhere.
Fresh ==
  /\ table \subseteq DOMAIN Oid[policy]
  /\ \A e \in CacheEntries : state[e] = "NONE" =>
       /\ e \notin table /\ e \notin freed /\ ~Linked(e)
       /\ \A t \in Threads : cur[t] # e /\ aux[t] # e

\* The lists in every history: an entry has one link.  With LRU the lists of
\* 2Q are empty and an entry that is being removed is not in the table; with
\* 2Q an entry is in the list that its state names, that of a1in always, and
\* am is no shorter than its size.
LruLists ==
  policy = "LRU" =>
    /\ \A n \in Sized : queue[n] = <<>> /\ size[n] = 0
    /\ \A e \in CacheEntries : state[e] \in {"NONE", "NEW", "LRU", "EVICTED"}
    /\ \A e \in table : state[e] # "EVICTED"
    /\ \A t \in Threads : pc[t] \in {"unlink", "unref", "mark"} => cur[t] \notin table

Q2Lists ==
  policy = "2Q" =>
    /\ queue["LRU"] = <<>>
    /\ \A e \in CacheEntries : state[e] \notin {"LRU", "EVICTED"}
    /\ \A n \in Queues : \A e \in InQueue(n) : state[e] = n
    /\ \A e \in CacheEntries : state[e] = "A1IN" => e \in InQueue("A1IN")
    /\ size["A1IN"] = Len(queue["A1IN"])
    /\ size["AM"] <= Len(queue["AM"])
    /\ \A t \in Threads : pc[t] = "evict" =>
         /\ state[aux[t]] \in {"AM", "A1OUT"}
         /\ aux[t] \in InQueue(state[aux[t]])
         /\ state[aux[t]] = "AM" => size["AM"] < Len(queue["AM"])

Lists ==
  ~closing => (\A n \in Queues : Once(queue[n])) /\ LruLists /\ Q2Lists

-----------------------------------------------------------------------------
(* Until an entry strays.                                                  *)

\* The entry came too late, and nobody but its thread knows of it.
Late(e) == \E t \in Threads : pc[t] = "late" /\ aux[t] = e

LateAlone ==
  \A t \in Threads :
    /\ pc[t] # "discard"
    /\ pc[t] = "late" =>
         /\ state[aux[t]] = "NEW" /\ aux[t] \notin table /\ aux[t] \notin freed
         /\ \A u \in Threads : cur[u] # aux[t] /\ (u # t => aux[u] # aux[t])

Making == {"insert", "count"}
Taking == {"unlink", "unref", "mark"}

\* An entry is made by one thread and taken out by one.
OneEach ==
  /\ \A t, u \in Threads :
       pc[t] \in Making /\ pc[u] \in Making /\ cur[t] = cur[u] => t = u
  /\ \A t, u \in Threads :
       pc[t] \in Taking /\ pc[u] \in Taking /\ cur[t] = cur[u] => t = u
  /\ \A t \in Threads : policy = "LRU" /\ pc[t] \in Making => cur[t] \in table
  /\ \A t \in Threads : pc[t] = "drop" => aux[t] \notin table

Users(e) == {t \in Threads : cur[t] = e}

Referred ==
  \A e \in CacheEntries : state[e] # "NONE" /\ ~Late(e) =>
    /\ refs[e] = Bit(Owned(e)) + Cardinality(Users(e)) + Bit(Unended(e))
    /\ e \in freed <=> refs[e] = 0

\* The entries that have been counted and not freed.
InUse ==
  {e \in CacheEntries :
     /\ state[e] # "NONE" /\ e \notin freed /\ ~Late(e)
     /\ \A t \in Threads : pc[t] \in Making => cur[t] # e}

UsageCounts == usage = Cardinality(InUse)

\* The list of n is longer than its size by the entry that is evicted.
Evicting(n) == \E t \in Threads : pc[t] = "evict" /\ state[aux[t]] = n

Queued ==
  /\ \A n \in Queues : \A e \in InQueue(n) : state[e] = n
  /\ \A n \in Sized : size[n] + Bit(Evicting(n)) = Len(queue[n])
  /\ \A e \in table :
       \/ Linked(e)
       \/ state[e] = "NEW" /\ \E t \in Threads : pc[t] = "insert" /\ cur[t] = e

Exact == LateAlone /\ OneEach /\ Referred /\ UsageCounts /\ Queued

CacheIInv == Control /\ Fresh /\ Lists /\ (~closing /\ ~Stray => Exact)

-----------------------------------------------------------------------------
(* Lists, counts and numbers.                                              *)

\* A place before the one that is removed, or from it on.
LEMMA Apart ==
  ASSUME NEW n \in Nat, NEW i \in 1 .. n, NEW j \in 1 .. n - 1
  PROVE  /\ j < i => j \in 1 .. i - 1 /\ j <= i - 1
         /\ ~(j < i) => /\ j - (i - 1) \in 1 .. n - i /\ ~(j <= i - 1)
                        /\ i + (j - (i - 1)) = j + 1
OBVIOUS

LEMMA WithoutIs ==
  ASSUME NEW S, NEW s \in Seq(S), Once(s), NEW e
  PROVE  /\ Without(s, e) \in Seq(S) /\ Once(Without(s, e))
         /\ Range(Without(s, e)) = Range(s) \ {e}
         /\ Len(Without(s, e)) = IF e \in Range(s) THEN Len(s) - 1 ELSE Len(s)
<1>1. CASE e \notin Range(s)
  BY <1>1 DEF Without, Range
<1>2. CASE e \in Range(s)
  <2>1. PICK i \in DOMAIN s : s[i] = e /\ Without(s, e) = RemoveAt(s, i)
    BY <1>2 DEF Without, Range
  <2>. DEFINE w == Without(s, e)
  <2>2. /\ w \in Seq(S) /\ Len(w) = Len(s) - 1
        /\ \A j \in 1 .. Len(w) : w[j] = IF j < i THEN s[j] ELSE s[j + 1]
    <3>. DEFINE a == SubSeq(s, 1, i - 1)  b == SubSeq(s, i + 1, Len(s))
    <3>0. i \in 1 .. Len(s)
      OBVIOUS
    <3>1. /\ a \in Seq(S) /\ Len(a) = i - 1
          /\ \A j \in 1 .. i - 1 : a[j] = s[j]
      BY <3>0
    <3>2. /\ b \in Seq(S) /\ Len(b) = Len(s) - i
          /\ \A j \in 1 .. Len(s) - i : b[j] = s[i + j]
      BY <3>0
    <3>3. w = a \o b
      BY <2>1 DEF RemoveAt
    <3>. HIDE DEF a, b, w
    <3>4. w \in Seq(S) /\ Len(w) = Len(s) - 1
      BY <3>0, <3>1, <3>2, <3>3
    <3>5. ASSUME NEW j \in 1 .. Len(w) PROVE w[j] = IF j < i THEN s[j] ELSE s[j + 1]
      <4>0. /\ Len(s) \in Nat /\ i \in 1 .. Len(s) /\ j \in 1 .. Len(s) - 1
            /\ Len(a) + Len(b) = Len(s) - 1
        <5>1. Len(s) \in Nat
          BY LenProperties
        <5>2. j \in 1 .. Len(s) - 1
          BY <3>4, Zenon
        <5>3. \A m \in Nat : \A x \in 1 .. m : (x - 1) + (m - x) = m - 1
          OBVIOUS
        <5>4. Len(a) + Len(b) = (i - 1) + (Len(s) - i)
          BY <3>1, <3>2, Zenon
        <5>. QED BY <3>0, <5>1, <5>2, <5>3, <5>4, Zenon
      <4>a. w[j] = IF j <= Len(a) THEN a[j] ELSE b[j - Len(a)]
        <5>1. j \in 1 .. Len(a) + Len(b)
          BY <4>0, Zenon
        <5>. QED BY <3>1, <3>2, <3>3, <5>1, ConcatProperties, Zenon
      <4>b. w[j] = IF j <= i - 1 THEN a[j] ELSE b[j - (i - 1)]
        BY <3>1, <4>a, Zenon
      <4>1. CASE j < i
        <5>1. j \in 1 .. i - 1 /\ j <= i - 1
          BY <4>0, <4>1, Apart
        <5>. QED BY <3>1, <4>1, <4>b, <5>1, Zenon
      <4>2. CASE ~(j < i)
        <5>1. /\ j - (i - 1) \in 1 .. Len(s) - i /\ ~(j <= i - 1)
              /\ i + (j - (i - 1)) = j + 1
          BY <4>0, <4>2, Apart
        <5>2. w[j] = b[j - (i - 1)]
          BY <4>b, <5>1, Zenon
        <5>3. b[j - (i - 1)] = s[i + (j - (i - 1))]
          BY <3>2, <5>1, Zenon
        <5>. QED BY <4>2, <5>1, <5>2, <5>3, Zenon
      <4>. QED BY <4>1, <4>2, Zenon
    <3>. QED BY <3>4, <3>5 DEF w
  <2>. HIDE DEF w
  <2>3. Once(w)
    <3>. SUFFICES ASSUME NEW j \in 1 .. Len(w), NEW k \in 1 .. Len(w), w[j] = w[k]
                  PROVE  j = k
      BY <2>2 DEF Once
    <3>. DEFINE p(x) == IF x < i THEN x ELSE x + 1
    <3>1. w[j] = s[p(j)] /\ w[k] = s[p(k)]
      BY <2>2
    <3>2. p(j) \in DOMAIN s /\ p(k) \in DOMAIN s
      BY <2>2
    <3>3. p(j) = p(k)
      BY <3>1, <3>2 DEF Once
    <3>. QED BY <3>3, <2>1
  <2>4. ASSUME NEW f \in Range(w) PROVE f \in Range(s) \ {e}
    BY <2>1, <2>2, <2>4 DEF Range, Once
  <2>5. ASSUME NEW f \in Range(s), f # e PROVE f \in Range(w)
    <3>1. PICK k \in 1 .. Len(s) : s[k] = f
      BY DEF Range
    <3>2. CASE k < i
      BY <3>1, <3>2, <2>1, <2>2 DEF Range
    <3>3. CASE k > i
      <4>1. k - 1 \in 1 .. Len(w) /\ w[k - 1] = f
        BY <3>1, <3>3, <2>1, <2>2
      <4>. QED BY <4>1, <2>2 DEF Range
    <3>. QED BY <3>1, <3>2, <3>3, <2>1, <2>5
  <2>. QED BY <2>2, <2>3, <2>4, <2>5, <1>2 DEF w
<1>. QED BY <1>1, <1>2

LEMMA PushIs ==
  ASSUME NEW S, NEW s \in Seq(S), Once(s), NEW e \in S, e \notin Range(s)
  PROVE  /\ <<e>> \o s \in Seq(S) /\ Once(<<e>> \o s)
         /\ Range(<<e>> \o s) = Range(s) \cup {e}
         /\ Len(<<e>> \o s) = Len(s) + 1
<1>. DEFINE w == <<e>> \o s
<1>1. /\ w \in Seq(S) /\ Len(w) = Len(s) + 1 /\ w[1] = e
      /\ \A j \in 1 .. Len(w) : j > 1 => w[j] = s[j - 1]
  OBVIOUS
<1>. HIDE DEF w
<1>2. Once(w)
  BY <1>1 DEF Once, Range
<1>3. \A f \in Range(w) : f \in Range(s) \cup {e}
  BY <1>1 DEF Range
<1>4. ASSUME NEW f \in Range(s) PROVE f \in Range(w)
  <2>1. PICK k \in 1 .. Len(s) : s[k] = f
    BY DEF Range
  <2>2. k + 1 \in 1 .. Len(w) /\ w[k + 1] = f
    BY <2>1, <1>1
  <2>3. k + 1 \in DOMAIN w
    BY <2>2, <1>1
  <2>. QED BY <2>2, <2>3 DEF Range
<1>5. e \in Range(w)
  BY <1>1 DEF Range
<1>. QED BY <1>1, <1>2, <1>3, <1>4, <1>5 DEF w

\* A list without repetitions is no longer than the set of its entries.
LEMMA OnceShort ==
  ASSUME NEW s \in Seq(CacheEntries), Once(s)
  PROVE  Len(s) <= Cardinality(CacheEntries) /\ Len(s) <= MaxUint
<1>1. s \in Injection(1 .. Len(s), CacheEntries)
  BY DEF Once, Injection, IsInjective
<1>2. IsFiniteSet(1 .. Len(s)) /\ Cardinality(1 .. Len(s)) = Len(s)
  <2>1. Len(s) \in Nat
    OBVIOUS
  <2>. HIDE DEF Once
  <2>2. /\ IsFiniteSet(1 .. Len(s))
        /\ Cardinality(1 .. Len(s)) = IF 1 > Len(s) THEN 0 ELSE Len(s) - 1 + 1
    BY <2>1, FS_Interval
  <2>. QED BY <2>1, <2>2
<1>3. Cardinality(1 .. Len(s)) <= Cardinality(CacheEntries)
  BY <1>1, CacheAssumption, FS_Injection
<1>. QED
  BY <1>2, <1>3, CacheAssumption, FS_CardinalityType

QueueType == queue \in [Queues -> Seq(CacheEntries)]
AllOnce == \A n \in Queues : Once(queue[n])

LEMMA DetachedIs ==
  ASSUME QueueType, AllOnce, NEW e, NEW q, q = Detached(e)
  PROVE  /\ q \in [Queues -> Seq(CacheEntries)]
         /\ \A n \in Queues :
              /\ Once(q[n]) /\ Range(q[n]) = InQueue(n) \ {e}
              /\ Len(q[n]) = IF e \in InQueue(n) THEN Len(queue[n]) - 1
                             ELSE Len(queue[n])
<1>1. ASSUME NEW n \in Queues
      PROVE  /\ q[n] \in Seq(CacheEntries) /\ Once(q[n])
             /\ Range(q[n]) = InQueue(n) \ {e}
             /\ Len(q[n]) = IF e \in InQueue(n) THEN Len(queue[n]) - 1
                             ELSE Len(queue[n])
  <2>1. q[n] = Without(queue[n], e)
    BY DEF Detached
  <2>2. queue[n] \in Seq(CacheEntries) /\ Once(queue[n])
    BY DEF QueueType, AllOnce
  <2>. QED BY <2>1, <2>2, WithoutIs DEF InQueue
<1>2. q = [n \in Queues |-> q[n]]
  BY DEF Detached
<1>. QED BY <1>1, <1>2

LEMMA MoveIs ==
  ASSUME QueueType, AllOnce, NEW e \in CacheEntries, NEW m \in Queues
  PROVE  /\ MoveTo(m, e) \in [Queues -> Seq(CacheEntries)]
         /\ \A n \in Queues :
              /\ Once(MoveTo(m, e)[n])
              /\ Range(MoveTo(m, e)[n]) = IF n = m THEN InQueue(n) \cup {e}
                                         ELSE InQueue(n) \ {e}
              /\ Len(MoveTo(m, e)[n]) = IF n = m THEN IF e \in InQueue(n) THEN Len(queue[n]) ELSE Len(queue[n]) + 1
                                        ELSE IF e \in InQueue(n) THEN Len(queue[n]) - 1 ELSE Len(queue[n])
<1>. DEFINE d == Detached(e)
            q == MoveTo(m, e)
<1>1. /\ d \in [Queues -> Seq(CacheEntries)]
      /\ \A n \in Queues :
              /\ Once(d[n]) /\ Range(d[n]) = InQueue(n) \ {e}
              /\ Len(d[n]) = IF e \in InQueue(n) THEN Len(queue[n]) - 1
                             ELSE Len(queue[n])
  BY DetachedIs
<1>2. q = [d EXCEPT ![m] = <<e>> \o @]
  BY DEF MoveTo
<1>. HIDE DEF d, q
<1>3. q = [n \in Queues |-> IF n = m THEN <<e>> \o d[m] ELSE d[n]]
  BY <1>1, <1>2
<1>4. /\ <<e>> \o d[m] \in Seq(CacheEntries) /\ Once(<<e>> \o d[m])
      /\ Range(<<e>> \o d[m]) = Range(d[m]) \cup {e}
      /\ Len(<<e>> \o d[m]) = Len(d[m]) + 1
  <2>1. d[m] \in Seq(CacheEntries) /\ Once(d[m]) /\ e \notin Range(d[m])
    BY <1>1
  <2>. QED BY <2>1, PushIs
<1>5. ASSUME NEW n \in Queues
      PROVE  /\ q[n] \in Seq(CacheEntries) /\ Once(q[n])
             /\ Range(q[n]) = IF n = m THEN InQueue(n) \cup {e} ELSE InQueue(n) \ {e}
             /\ Len(q[n]) = IF n = m THEN IF e \in InQueue(n) THEN Len(queue[n]) ELSE Len(queue[n]) + 1
                            ELSE IF e \in InQueue(n) THEN Len(queue[n]) - 1 ELSE Len(queue[n])
  <2>1. Len(queue[n]) \in Nat
    BY DEF QueueType
  <2>2. CASE n = m
    <3>1. q[n] = <<e>> \o d[m]
      BY <1>3, <2>2
    <3>2. Range(q[n]) = InQueue(n) \cup {e}
      BY <3>1, <1>4, <1>1, <2>2
    <3>3. Len(d[n]) = IF e \in InQueue(n) THEN Len(queue[n]) - 1 ELSE Len(queue[n])
      BY <1>1
    <3>4. Len(q[n]) = Len(d[n]) + 1
      BY <3>1, <1>4, <2>2
    <3>5. Len(q[n]) = IF e \in InQueue(n) THEN Len(queue[n]) ELSE Len(queue[n]) + 1
      BY <3>3, <3>4, <2>1
    <3>6. q[n] \in Seq(CacheEntries) /\ Once(q[n])
      BY <3>1, <1>4
    <3>. QED BY <3>2, <3>5, <3>6, <2>2
  <2>3. CASE n # m
    <3>1. q[n] = d[n]
      BY <1>3, <2>3
    <3>. QED BY <3>1, <1>1, <2>1, <2>3
  <2>. QED BY <2>2, <2>3
<1>6. q = [n \in Queues |-> q[n]]
  BY <1>3
<1>. QED BY <1>5, <1>6 DEF q

LEMMA LinkedIs == \A e : Linked(e) <=> \E n \in Queues : e \in InQueue(n)
BY DEF Linked, InQueue

\* The tail of a list that is not empty.
LEMMA LastIs ==
  ASSUME NEW n \in Queues, queue \in [Queues -> Seq(CacheEntries)],
         Len(queue[n]) > 0
  PROVE  Last(queue[n]) \in InQueue(n) /\ Last(queue[n]) \in CacheEntries
<1>1. queue[n] \in Seq(CacheEntries)
  OBVIOUS
<1>2. Len(queue[n]) \in DOMAIN queue[n]
  BY <1>1
<1>. QED BY <1>1, <1>2 DEF Last, InQueue, Range

LEMMA IncDec ==
  ASSUME NEW k \in 0 .. MaxUint
  PROVE  /\ Inc(k) \in 0 .. MaxUint /\ Dec(k) \in 0 .. MaxUint
         /\ k < MaxUint => Inc(k) = k + 1
         /\ k > 0 => Dec(k) = k - 1
BY CacheAssumption DEF Inc, Dec

-----------------------------------------------------------------------------
(* The threads.                                                            *)

\* An update or insert of the policy, unless the entry is evicted.
LEMMA PolicyIs ==
  ASSUME CacheTypeOK, AllOnce, NEW e \in CacheEntries, PolicyUpdate(e),
         state[e] # "EVICTED"
  PROVE  /\ lock = None /\ Home(e) \in Queues
         /\ queue' \in [Queues -> Seq(CacheEntries)]
         /\ state' = [state EXCEPT ![e] = Home(e)]
         /\ size' \in [Sized -> 0 .. MaxUint]
         /\ \A n \in Sized :
              size'[n] = IF state[e] = Home(e) THEN size[n]
                         ELSE IF n = Home(e) THEN Inc(size[n])
                         ELSE IF n = state[e] THEN Dec(size[n]) ELSE size[n]
         /\ \A n \in Queues :
              /\ Once(queue'[n])
              /\ InQueue(n)' = IF n = Home(e) THEN InQueue(n) \cup {e}
                               ELSE InQueue(n) \ {e}
              /\ Len(queue'[n]) = IF n = Home(e) THEN IF e \in InQueue(n) THEN Len(queue[n]) ELSE Len(queue[n]) + 1
                                  ELSE IF e \in InQueue(n) THEN Len(queue[n]) - 1 ELSE Len(queue[n])
<1>1. Home(e) \in Queues
  BY DEF Home, Queues
<1>2. /\ lock = None /\ queue' = MoveTo(Home(e), e)
      /\ state' = [state EXCEPT ![e] = Home(e)]
      /\ size' = IF state[e] = Home(e) THEN size
                 ELSE [n \in Sized |-> CASE n = Home(e) -> Inc(size[n])
                                         [] n = state[e] -> Dec(size[n])
                                         [] OTHER -> size[n]]
  BY DEF PolicyUpdate
<1>3. /\ queue' \in [Queues -> Seq(CacheEntries)]
      /\ \A n \in Queues :
              /\ Once(queue'[n])
              /\ Range(queue'[n]) = IF n = Home(e) THEN InQueue(n) \cup {e} ELSE InQueue(n) \ {e}
              /\ Len(queue'[n]) = IF n = Home(e) THEN IF e \in InQueue(n) THEN Len(queue[n]) ELSE Len(queue[n]) + 1
                                  ELSE IF e \in InQueue(n) THEN Len(queue[n]) - 1 ELSE Len(queue[n])
  <2>1. QueueType
    BY DEF CacheTypeOK, QueueType
  <2>2. queue' = MoveTo(Home(e), e)
    BY <1>2
  <2>3. /\ MoveTo(Home(e), e) \in [Queues -> Seq(CacheEntries)]
        /\ \A n \in Queues :
             /\ Once(MoveTo(Home(e), e)[n])
             /\ Range(MoveTo(Home(e), e)[n]) = IF n = Home(e) THEN InQueue(n) \cup {e}
                                               ELSE InQueue(n) \ {e}
             /\ Len(MoveTo(Home(e), e)[n]) = IF n = Home(e) THEN IF e \in InQueue(n) THEN Len(queue[n]) ELSE Len(queue[n]) + 1
                                             ELSE IF e \in InQueue(n) THEN Len(queue[n]) - 1 ELSE Len(queue[n])
    BY <1>1, <2>1, MoveIs
  <2>. QED BY <2>2, <2>3
<1>4. ASSUME NEW n \in Sized
      PROVE  size[n] \in 0 .. MaxUint /\ Inc(size[n]) \in 0 .. MaxUint
             /\ Dec(size[n]) \in 0 .. MaxUint
  <2>1. size[n] \in 0 .. MaxUint
    BY DEF CacheTypeOK
  <2>. QED BY <2>1, IncDec
<1>5. size' \in [Sized -> 0 .. MaxUint]
  <2>1. CASE state[e] = Home(e)
    BY <2>1, <1>2 DEF CacheTypeOK
  <2>2. CASE state[e] # Home(e)
    BY <2>2, <1>2, <1>4
  <2>. QED BY <2>1, <2>2
<1>. QED BY <1>1, <1>2, <1>3, <1>5 DEF InQueue

LEMMA PolicyTypes ==
  ASSUME CacheTypeOK, AllOnce, NEW e \in CacheEntries, PolicyUpdate(e)
  PROVE  /\ queue' \in [Queues -> Seq(CacheEntries)]
         /\ size' \in [Sized -> 0 .. MaxUint]
         /\ state' \in [CacheEntries -> {"NONE", "NEW", "EVICTED"} \cup Queues]
         /\ lock = None
<1>1. CASE state[e] = "EVICTED"
  BY <1>1 DEF PolicyUpdate, CacheTypeOK
<1>2. CASE state[e] # "EVICTED"
  <2>1. /\ lock = None /\ Home(e) \in Queues
        /\ queue' \in [Queues -> Seq(CacheEntries)]
        /\ state' = [state EXCEPT ![e] = Home(e)]
        /\ size' \in [Sized -> 0 .. MaxUint]
    BY <1>2, PolicyIs
  <2>. QED BY <2>1 DEF CacheTypeOK
<1>. QED BY <1>1, <1>2

\* What a release of references leaves to its types.
LEMMA ReleaseTypes ==
  ASSUME CacheTypeOK, NEW e \in CacheEntries, Release(e)
  PROVE  /\ refs' \in [CacheEntries -> Int] /\ usage' \in 0 .. MaxUint
         /\ freed' \subseteq CacheEntries
<1>1. Dec(usage) \in 0 .. MaxUint
  BY IncDec DEF CacheTypeOK
<1>. QED BY <1>1 DEF Release, CacheTypeOK

\* The tails that the reclaim takes.
LEMMA TakeIs ==
  ASSUME CacheTypeOK, Q2Lists, policy = "2Q"
  PROVE  /\ size["AM"] > 0 =>
              Last(queue["AM"]) \in InQueue("AM") /\ Last(queue["AM"]) \in CacheEntries
         /\ size["A1IN"] > 0 =>
              Last(queue["A1IN"]) \in InQueue("A1IN") /\ Last(queue["A1IN"]) \in CacheEntries
<1>1. "AM" \in Queues /\ "A1IN" \in Queues /\ "AM" \in Sized /\ "A1IN" \in Sized
  BY DEF Queues, Sized
<1>2. /\ queue \in [Queues -> Seq(CacheEntries)]
      /\ size["AM"] \in Nat /\ size["A1IN"] \in Nat
      /\ Len(queue["AM"]) \in Nat /\ Len(queue["A1IN"]) \in Nat
  BY <1>1 DEF CacheTypeOK
<1>3. size["AM"] <= Len(queue["AM"]) /\ size["A1IN"] = Len(queue["A1IN"])
  BY DEF Q2Lists
<1>. QED BY <1>1, <1>2, <1>3, LastIs

\* A turn that takes the tail e of a1in to a1out, and f is evicted next.
LEMMA PageIs ==
  ASSUME Control, Lists, NEW t \in Threads, PageOut(t)
  PROVE  /\ pc[t] = "loop" /\ policy = "2Q" /\ ~closing
         /\ queue' \in [Queues -> Seq(CacheEntries)]
         /\ size' \in [Sized -> 0 .. MaxUint]
         /\ state' \in [CacheEntries -> {"NONE", "NEW", "EVICTED"} \cup Queues]
         /\ size["A1IN"] > 1
         /\ \E e \in InQueue("A1IN"), f \in CacheEntries :
              /\ e \in CacheEntries
              /\ state' = [state EXCEPT ![e] = "A1OUT"]
              /\ f \in InQueue("A1OUT") \cup {e}
              /\ size'["A1IN"] = Dec(size["A1IN"]) /\ size'["AM"] = size["AM"]
              /\ \/ /\ pc' = [pc EXCEPT ![t] = "evict"]
                    /\ aux' = [aux EXCEPT ![t] = f]
                    /\ size'["A1OUT"] = size["A1OUT"]
                 \/ /\ pc' = pc /\ aux' = aux
                    /\ size'["A1OUT"] = Inc(size["A1OUT"])
              /\ \A n \in Queues :
                   /\ Once(queue'[n])
                   /\ InQueue(n)' = IF n = "A1OUT" THEN InQueue(n) \cup {e}
                                    ELSE InQueue(n) \ {e}
                   /\ Len(queue'[n]) = IF n = "A1OUT" THEN IF e \in InQueue(n) THEN Len(queue[n]) ELSE Len(queue[n]) + 1
                                       ELSE IF e \in InQueue(n) THEN Len(queue[n]) - 1 ELSE Len(queue[n])
         /\ UNCHANGED <<table, refs, usage, freed, lock, oid, cur, closing>>
<1>. DEFINE e == Last(queue["A1IN"])
            q == queue'
            long == Inc(size["A1OUT"]) > Kout
            f == Last(queue'["A1OUT"])
<1>1. /\ pc[t] = "loop" /\ size["A1IN"] > 1
      /\ queue' = MoveTo("A1OUT", e)
      /\ state' = [state EXCEPT ![e] = "A1OUT"]
      /\ size' = [size EXCEPT !["A1IN"] = Dec(@),
                              !["A1OUT"] = IF long THEN @ ELSE Inc(@)]
      /\ aux' = [aux EXCEPT ![t] = IF long THEN f ELSE None]
      /\ pc' = [pc EXCEPT ![t] = IF long THEN "evict" ELSE "loop"]
      /\ UNCHANGED <<table, refs, usage, freed, lock, oid, cur, closing>>
  BY DEF PageOut, Goto, Kin
<1>2. policy = "2Q" /\ ~closing /\ AllOnce /\ Q2Lists
  BY <1>1 DEF Control, CacheTypeOK, Policies, Lists, AllOnce
<1>3. e \in InQueue("A1IN") /\ e \in CacheEntries
  <2>1. size["A1IN"] > 0
    BY <1>1 DEF Control, CacheTypeOK, Sized
  <2>. QED BY <2>1, <1>2, TakeIs DEF Control
<1>4. "A1IN" \in Sized /\ "A1OUT" \in Sized /\ "A1OUT" \in Queues /\ "A1IN" \in Queues
  BY DEF Sized, Queues
<1>. HIDE DEF e, long, f
<1>5. /\ q \in [Queues -> Seq(CacheEntries)]
      /\ \A n \in Queues :
           /\ Once(q[n])
           /\ Range(q[n]) = IF n = "A1OUT" THEN InQueue(n) \cup {e} ELSE InQueue(n) \ {e}
           /\ Len(q[n]) = IF n = "A1OUT" THEN IF e \in InQueue(n) THEN Len(queue[n]) ELSE Len(queue[n]) + 1
                          ELSE IF e \in InQueue(n) THEN Len(queue[n]) - 1 ELSE Len(queue[n])
  <2>1. QueueType
    BY DEF QueueType, Control, CacheTypeOK
  <2>2. queue' = MoveTo("A1OUT", e)
    BY <1>1
  <2>3. /\ MoveTo("A1OUT", e) \in [Queues -> Seq(CacheEntries)]
        /\ \A n \in Queues :
             /\ Once(MoveTo("A1OUT", e)[n])
             /\ Range(MoveTo("A1OUT", e)[n]) = IF n = "A1OUT" THEN InQueue(n) \cup {e}
                                               ELSE InQueue(n) \ {e}
             /\ Len(MoveTo("A1OUT", e)[n]) = IF n = "A1OUT" THEN IF e \in InQueue(n) THEN Len(queue[n]) ELSE Len(queue[n]) + 1
                                             ELSE IF e \in InQueue(n) THEN Len(queue[n]) - 1 ELSE Len(queue[n])
    BY <1>2, <1>3, <1>4, <2>1, MoveIs
  <2>. QED BY <2>2, <2>3
<1>6. /\ \A n \in Queues :
           /\ Once(queue'[n])
           /\ InQueue(n)' = IF n = "A1OUT" THEN InQueue(n) \cup {e} ELSE InQueue(n) \ {e}
           /\ Len(queue'[n]) = IF n = "A1OUT" THEN IF e \in InQueue(n) THEN Len(queue[n]) ELSE Len(queue[n]) + 1
                               ELSE IF e \in InQueue(n) THEN Len(queue[n]) - 1 ELSE Len(queue[n])
      /\ queue' \in [Queues -> Seq(CacheEntries)]
  BY <1>5 DEF InQueue, q
<1>. HIDE DEF q
<1>7. f \in InQueue("A1OUT") \cup {e} /\ f \in CacheEntries
  <2>1. e \in Range(queue'["A1OUT"])
    BY <1>6, <1>4 DEF InQueue
  <2>2. queue'["A1OUT"] \in Seq(CacheEntries)
    BY <1>6, <1>4
  <2>3. Len(queue'["A1OUT"]) \in DOMAIN queue'["A1OUT"]
    BY <2>1, <2>2 DEF Range
  <2>4. f \in Range(queue'["A1OUT"]) /\ f \in CacheEntries
    BY <2>2, <2>3 DEF f, Last, Range
  <2>. QED BY <2>4, <1>6, <1>4 DEF InQueue
<1>8. size' \in [Sized -> 0 .. MaxUint]
  <2>1. \A n \in Sized : size[n] \in 0 .. MaxUint
    BY DEF Control, CacheTypeOK
  <2>2. \A n \in Sized : Inc(size[n]) \in 0 .. MaxUint /\ Dec(size[n]) \in 0 .. MaxUint
    BY <2>1, IncDec
  <2>. QED BY <1>1, <1>4, <2>1, <2>2 DEF Control, CacheTypeOK
<1>9. state' \in [CacheEntries -> {"NONE", "NEW", "EVICTED"} \cup Queues]
  BY <1>1, <1>3, <1>4 DEF Control, CacheTypeOK
<1>10. ASSUME ~long PROVE pc' = pc /\ aux' = aux
  <2>1. aux[t] = None
    BY <1>1 DEF Control
  <2>. QED BY <1>10, <1>1, <2>1 DEF Control, CacheTypeOK
<1>11. size'["A1IN"] = Dec(size["A1IN"]) /\ size'["AM"] = size["AM"]
  BY <1>1, <1>4 DEF Control, CacheTypeOK, Sized
<1>12. \/ /\ pc' = [pc EXCEPT ![t] = "evict"]
          /\ aux' = [aux EXCEPT ![t] = f]
          /\ size'["A1OUT"] = size["A1OUT"]
       \/ /\ pc' = pc /\ aux' = aux
          /\ size'["A1OUT"] = Inc(size["A1OUT"])
  <2>1. size'["A1OUT"] = IF long THEN size["A1OUT"] ELSE Inc(size["A1OUT"])
    BY <1>1, <1>4 DEF Control, CacheTypeOK
  <2>. QED BY <1>1, <1>10, <2>1
<1>. QED BY <1>1, <1>2, <1>3, <1>6, <1>7, <1>8, <1>9, <1>11, <1>12

\* A step of one thread leaves what the others hold, and who has the lock
\* unless it is that thread.
LEMMA ControlStep ==
  ASSUME Control, policy' = policy, NEW t \in Threads, CacheTypeOK',
         \A u \in Threads : u # t =>
           /\ pc'[u] = pc[u] /\ cur'[u] = cur[u] /\ aux'[u] = aux[u]
           /\ lock' = u <=> lock = u,
         cur'[t] = None <=> pc'[t] \in {"idle", "alloc"},
         aux'[t] = None <=> pc'[t] \notin {"late", "discard", "evict", "drop"},
         lock' = t <=> pc'[t] \in {"loop", "evict", "drop"},
         policy = "LRU" => pc'[t] \in {"idle", "update", "insert", "count",
                                       "unlink", "unref", "mark", "using"},
         policy = "2Q" => pc'[t] \notin {"unlink", "unref", "mark"},
         ~closing'
  PROVE  Control'
<1>1. ASSUME NEW u \in Threads
      PROVE  /\ cur'[u] = None <=> pc'[u] \in {"idle", "alloc"}
             /\ aux'[u] = None <=> pc'[u] \notin {"late", "discard", "evict", "drop"}
             /\ lock' = u <=> pc'[u] \in {"loop", "evict", "drop"}
             /\ policy = "LRU" => pc'[u] \in {"idle", "update", "insert", "count",
                                              "unlink", "unref", "mark", "using"}
             /\ policy = "2Q" => pc'[u] \notin {"unlink", "unref", "mark"}
  <2>1. CASE u = t
    BY <2>1
  <2>2. CASE u # t
    BY <2>2 DEF Control
  <2>. QED BY <2>1, <2>2
<1>. QED BY <1>1 DEF Control

LEMMA NextControl ==
  ASSUME Control, Fresh, Lists, CacheNext
  PROVE  Control'
<1>. USE CacheAssumption
<1>0. policy' = policy
  BY DEF CacheNext
<1>. DEFINE Ctl == Control'
<1>a. ASSUME NEW t \in Threads, pc[t] # "idle" PROVE ~closing /\ AllOnce
  BY <1>a DEF Control, Lists, AllOnce
<1>b. ASSUME NEW t \in Threads, pc[t] \notin {"idle", "alloc"}
      PROVE  cur[t] \in CacheEntries
  BY <1>b DEF Control, CacheTypeOK
<1>c. ASSUME NEW t \in Threads, pc[t] \in {"late", "discard", "evict", "drop"}
      PROVE  aux[t] \in CacheEntries
  BY <1>c DEF Control, CacheTypeOK
<1>1. ASSUME NEW t \in Threads, NEW k \in CacheIds, CacheLookup(t, k) PROVE Ctl
  <2>1. ASSUME NEW e \in table, refs' = [refs EXCEPT ![e] = @ + 1],
               cur' = [cur EXCEPT ![t] = e], pc' = [pc EXCEPT ![t] = "update"]
        PROVE  Ctl
    BY <1>0, <1>1, <2>1 DEF Control, CacheTypeOK, CacheLookup
  <2>2. ASSUME policy = "2Q", pc' = [pc EXCEPT ![t] = "alloc"], UNCHANGED <<refs, cur>>
        PROVE  Ctl
    BY <1>0, <1>1, <2>2 DEF Control, CacheTypeOK, CacheLookup
  <2>. QED BY <1>1, <2>1, <2>2 DEF CacheLookup, Goto
<1>2. ASSUME NEW t \in Threads, NEW k \in CacheIds, RemoveTxn(t, k) PROVE Ctl
  BY <1>0, <1>2 DEF Control, CacheTypeOK, RemoveTxn, Goto
<1>3. ASSUME NEW t \in Threads, NEW e \in CacheEntries, TryInsert(t, e) PROVE Ctl
  <2>0. /\ ~closing /\ e \in DOMAIN Oid[policy] /\ state[e] = "NONE"
        /\ (policy = "2Q" /\ pc[t] = "alloc") \/ (policy = "LRU" /\ pc[t] = "idle")
        /\ state' = [state EXCEPT ![e] = "NEW"]
        /\ UNCHANGED <<queue, size, usage, freed, lock, oid, closing>>
    <3>1. (policy = "2Q" /\ pc[t] = "alloc") \/ (policy = "LRU" /\ pc[t] = "idle")
      BY <1>3 DEF TryInsert
    <3>. QED BY <1>3, <3>1 DEF TryInsert
  <2>1. ASSUME NEW old \in table, Oid[policy][old] = Oid[policy][e],
               refs' = [refs EXCEPT ![e] = 1, ![old] = @ + 1],
               cur' = [cur EXCEPT ![t] = old], aux' = [aux EXCEPT ![t] = e],
               pc' = [pc EXCEPT ![t] = "late"], UNCHANGED table
        PROVE  Ctl
    <3>1. policy = "2Q"
      BY <2>0, <2>1 DEF Fresh, Control, CacheTypeOK
    <3>. QED BY <1>0, <2>0, <2>1, <3>1 DEF Control, CacheTypeOK
  <2>2. ASSUME table' = table \cup {e}, refs' = [refs EXCEPT ![e] = 2],
               cur' = [cur EXCEPT ![t] = e], pc' = [pc EXCEPT ![t] = "insert"],
               UNCHANGED aux
        PROVE  Ctl
    BY <1>0, <2>0, <2>2 DEF Control, CacheTypeOK
  <2>. QED BY <1>3, <2>1, <2>2 DEF TryInsert, Goto
<1>4. ASSUME NEW t \in Threads, Update(t) PROVE Ctl
  BY <1>0, <1>4, <1>a, <1>b, PolicyTypes DEF Control, CacheTypeOK, Update, Goto
<1>5. ASSUME NEW t \in Threads, LateUpdate(t) PROVE Ctl
  BY <1>0, <1>5, <1>a, <1>c, PolicyTypes DEF Control, CacheTypeOK, LateUpdate, Goto
<1>6. ASSUME NEW t \in Threads, Discard(t) PROVE Ctl
  BY <1>0, <1>6, <1>c DEF Control, CacheTypeOK, Discard, Goto
<1>7. ASSUME NEW t \in Threads, Insert(t) PROVE Ctl
  BY <1>0, <1>7, <1>a, <1>b, PolicyTypes DEF Control, CacheTypeOK, Insert, Goto
<1>8. ASSUME NEW t \in Threads, Count(t) PROVE Ctl
  <2>1. Inc(usage) \in 0 .. MaxUint
    BY IncDec DEF Control, CacheTypeOK
  <2>2. policy \in {"LRU", "2Q"} /\ pc[t] = "count" /\ ~closing
    BY <1>8, <1>a DEF Control, CacheTypeOK, Policies, Count
  <2>3. /\ usage' = Inc(usage)
        /\ UNCHANGED <<table, refs, state, queue, size, freed, lock, oid, aux, closing>>
    BY <1>8 DEF Count
  <2>4. lock # t /\ aux[t] = None /\ cur[t] # None
    BY <2>2 DEF Control
  <2>5. CASE policy = "LRU"
    <3>1. pc' = [pc EXCEPT ![t] = "idle"] /\ cur' = [cur EXCEPT ![t] = None]
      BY <1>8, <2>5 DEF Count, Goto
    <3>2. CacheTypeOK'
      BY <1>0, <2>1, <2>3, <3>1 DEF Control, CacheTypeOK
    <3>3. /\ pc'[t] = "idle" /\ cur'[t] = None
          /\ \A u \in Threads : u # t => pc'[u] = pc[u] /\ cur'[u] = cur[u]
      BY <3>1 DEF Control, CacheTypeOK
    <3>. QED BY <1>0, <2>2, <2>3, <2>4, <2>5, <3>2, <3>3, ControlStep
  <2>6. CASE policy = "2Q"
    <3>1. pc' = [pc EXCEPT ![t] = "reclaim"] /\ cur' = cur
      BY <1>8, <2>6 DEF Count, Goto
    <3>2. CacheTypeOK'
      BY <1>0, <2>1, <2>3, <3>1 DEF Control, CacheTypeOK
    <3>3. pc'[t] = "reclaim" /\ \A u \in Threads : u # t => pc'[u] = pc[u]
      BY <3>1 DEF Control, CacheTypeOK
    <3>. QED BY <1>0, <2>2, <2>3, <2>4, <2>6, <3>1, <3>2, <3>3, ControlStep
  <2>. QED BY <2>2, <2>5, <2>6
<1>9. ASSUME NEW t \in Threads, BeginReclaim(t) PROVE Ctl
  BY <1>0, <1>9 DEF Control, CacheTypeOK, BeginReclaim, Goto
<1>10. ASSUME NEW t \in Threads, PageOut(t) PROVE Ctl
  <2>1. /\ pc[t] = "loop"
        /\ queue' \in [Queues -> Seq(CacheEntries)]
        /\ size' \in [Sized -> 0 .. MaxUint]
        /\ state' \in [CacheEntries -> {"NONE", "NEW", "EVICTED"} \cup Queues]
        /\ UNCHANGED <<table, refs, usage, freed, lock, oid, cur, closing>>
        /\ \/ /\ pc' = [pc EXCEPT ![t] = "evict"]
              /\ \E f \in CacheEntries : aux' = [aux EXCEPT ![t] = f]
           \/ pc' = pc /\ aux' = aux
    BY <1>10, <1>a, PageIs DEF Control
  <2>2. CASE pc' = pc /\ aux' = aux
    BY <1>0, <2>1, <2>2 DEF Control, CacheTypeOK
  <2>3. ASSUME NEW f \in CacheEntries, aux' = [aux EXCEPT ![t] = f],
               pc' = [pc EXCEPT ![t] = "evict"]
        PROVE  Ctl
    BY <1>0, <2>1, <2>3 DEF Control, CacheTypeOK
  <2>. QED BY <2>1, <2>2, <2>3
<1>11. ASSUME NEW t \in Threads, TakeAm(t) PROVE Ctl
  <2>1. "AM" \in Sized /\ "AM" \in Queues /\ size["AM"] \in 0 .. MaxUint
    BY DEF Control, CacheTypeOK, Sized, Queues
  <2>2. Dec(size["AM"]) \in 0 .. MaxUint
    BY <2>1, IncDec
  <2>3. Last(queue["AM"]) \in CacheEntries
    <3>1. pc[t] = "loop" /\ size["AM"] > 0
      BY <1>11 DEF TakeAm
    <3>2. policy = "2Q" /\ Q2Lists
      BY <3>1, <1>a DEF Control, CacheTypeOK, Policies, Lists
    <3>. QED BY <3>1, <3>2, TakeIs DEF Control
  <2>. QED BY <1>0, <1>11, <2>1, <2>2, <2>3 DEF Control, CacheTypeOK, TakeAm, Goto
<1>12. ASSUME NEW t \in Threads, StopReclaim(t) PROVE Ctl
  BY <1>0, <1>12 DEF Control, CacheTypeOK, StopReclaim, EndReclaim, Goto
<1>13. ASSUME NEW t \in Threads, EntryReclaim(t) PROVE Ctl
  <2>1. CASE aux[t] \in table
    <3>1. Detached(aux[t]) \in [Queues -> Seq(CacheEntries)]
      BY <1>a, <1>13, DetachedIs DEF Control, CacheTypeOK, QueueType, EntryReclaim
    <3>2. /\ pc[t] = "evict" /\ pc' = [pc EXCEPT ![t] = "drop"]
          /\ table' = table \ {aux[t]} /\ queue' = Detached(aux[t])
          /\ UNCHANGED <<lock, aux, refs, state, size, usage, freed, oid, cur, closing>>
      BY <1>13, <2>1 DEF EntryReclaim, Goto
    <3>3. /\ lock = t /\ aux[t] # None /\ cur[t] # None /\ ~closing
          /\ policy # "LRU"
      BY <3>2 DEF Control
    <3>4. CacheTypeOK'
      BY <1>0, <3>1, <3>2 DEF Control, CacheTypeOK
    <3>5. pc'[t] = "drop" /\ \A u \in Threads : u # t => pc'[u] = pc[u]
      BY <3>2 DEF Control, CacheTypeOK
    <3>. QED BY <1>0, <3>2, <3>3, <3>4, <3>5, ControlStep
  <2>2. CASE aux[t] \notin table
    <3>1. /\ pc[t] = "evict" /\ lock' = None /\ aux' = [aux EXCEPT ![t] = None]
          /\ pc' = [pc EXCEPT ![t] = "using"]
          /\ UNCHANGED <<table, queue, refs, state, size, usage, freed, oid, cur, closing>>
      BY <1>13, <2>2 DEF EntryReclaim, EndReclaim, Goto
    <3>. QED BY <1>0, <3>1 DEF Control, CacheTypeOK
  <2>. QED BY <2>1, <2>2
<1>14. ASSUME NEW t \in Threads, Drop(t) PROVE Ctl
  BY <1>0, <1>14, <1>c, ReleaseTypes DEF Control, CacheTypeOK, Drop, Goto
<1>15. ASSUME NEW t \in Threads, UnlinkLru(t) PROVE Ctl
  <2>1. Detached(cur[t]) \in [Queues -> Seq(CacheEntries)]
    BY <1>a, <1>15, DetachedIs DEF Control, CacheTypeOK, QueueType, UnlinkLru
  <2>. QED BY <1>0, <1>15, <2>1 DEF Control, CacheTypeOK, UnlinkLru, Goto
<1>16. ASSUME NEW t \in Threads, Unref(t) PROVE Ctl
  BY <1>0, <1>16, <1>b, ReleaseTypes DEF Control, CacheTypeOK, Unref, Goto
<1>17. ASSUME NEW t \in Threads, Mark(t) PROVE Ctl
  BY <1>0, <1>17, <1>b DEF Control, CacheTypeOK, Mark, Goto
<1>18. ASSUME NEW t \in Threads, GiveBack(t) PROVE Ctl
  BY <1>0, <1>18, <1>b, ReleaseTypes DEF Control, CacheTypeOK, GiveBack, Goto
<1>19. ASSUME CacheFree PROVE Ctl
  BY <1>0, <1>19 DEF Control, CacheTypeOK, CacheFree, entryVars, threadVars
<1>20. ASSUME Destroy PROVE Ctl
  <2>1. PICK n \in Queues : /\ queue[n] # <<>> /\ Release(Head(queue[n]))
                            /\ queue' = [queue EXCEPT ![n] = Tail(@)]
    <3>1. \A i \in DOMAIN DestroyOrder : DestroyOrder[i] \in Queues
      BY DEF DestroyOrder, Queues
    <3>. QED BY <1>20, <3>1 DEF Destroy
  <2>2. Head(queue[n]) \in CacheEntries /\ Tail(queue[n]) \in Seq(CacheEntries)
    BY <2>1 DEF Control, CacheTypeOK
  <2>3. /\ refs' \in [CacheEntries -> Int] /\ usage' \in 0 .. MaxUint
        /\ freed' \subseteq CacheEntries
    BY <2>1, <2>2, ReleaseTypes DEF Control
  <2>. QED BY <1>0, <1>20, <2>1, <2>2, <2>3 DEF Control, CacheTypeOK, Destroy, threadVars
<1>. QED
  BY <1>1, <1>2, <1>3, <1>4, <1>5, <1>6, <1>7, <1>8, <1>9, <1>10, <1>11, <1>12,
     <1>13, <1>14, <1>15, <1>16, <1>17, <1>18, <1>19, <1>20 DEF CacheNext, Step

-----------------------------------------------------------------------------
(* What is linked, and what has not been allocated.                        *)

LEMMA LinkedSame ==
  ASSUME UNCHANGED queue
  PROVE  \A e : Linked(e)' <=> Linked(e)
BY DEF Linked

\* What the policy links.
LEMMA PolicyLinks ==
  ASSUME CacheTypeOK, AllOnce, NEW e \in CacheEntries, PolicyUpdate(e)
  PROVE  \A f : Linked(f)' <=> Linked(f) \/ (f = e /\ state[e] # "EVICTED")
<1>1. CASE state[e] = "EVICTED"
  BY <1>1, LinkedSame DEF PolicyUpdate
<1>2. CASE state[e] # "EVICTED"
  <2>1. /\ Home(e) \in Queues
        /\ \A n \in Queues : InQueue(n)' = IF n = Home(e) THEN InQueue(n) \cup {e}
                                           ELSE InQueue(n) \ {e}
    BY <1>2, PolicyIs
  <2>2. \A f : Linked(f)' <=> \E n \in Queues : f \in InQueue(n)'
    BY DEF Linked, InQueue
  <2>. QED BY <1>2, <2>1, <2>2, LinkedIs
<1>. QED BY <1>1, <1>2

LEMMA PageLinks ==
  ASSUME Control, Lists, NEW t \in Threads, PageOut(t)
  PROVE  \A f : Linked(f)' <=> Linked(f)
<1>1. PICK e \in InQueue("A1IN") :
        \A n \in Queues : InQueue(n)' = IF n = "A1OUT" THEN InQueue(n) \cup {e}
                                        ELSE InQueue(n) \ {e}
  BY PageIs
<1>2. \A f : Linked(f)' <=> \E n \in Queues : f \in InQueue(n)'
  BY DEF Linked, InQueue
<1>3. "A1IN" \in Queues /\ "A1OUT" \in Queues
  BY DEF Queues
<1>. QED BY <1>1, <1>2, <1>3, LinkedIs

LEMMA DetachLinks ==
  ASSUME CacheTypeOK, AllOnce, NEW e, queue' = Detached(e)
  PROVE  \A f : Linked(f)' <=> Linked(f) /\ f # e
<1>1. \A n \in Queues : Range(Detached(e)[n]) = InQueue(n) \ {e}
  BY DetachedIs DEF CacheTypeOK, QueueType
<1>2. \A f : Linked(f)' <=> \E n \in Queues : f \in Range(Detached(e)[n])
  BY DEF Linked
<1>. QED BY <1>1, <1>2, LinkedIs

\* The entry of a thread that has one is allocated.
LEMMA Having ==
  ASSUME Control, Fresh, NEW t \in Threads
  PROVE  /\ pc[t] \notin {"idle", "alloc"} =>
              cur[t] \in CacheEntries /\ state[cur[t]] # "NONE"
         /\ pc[t] \in {"late", "discard", "evict", "drop"} =>
              aux[t] \in CacheEntries /\ state[aux[t]] # "NONE"
         /\ pc[t] # "idle" => ~closing
BY DEF Control, CacheTypeOK, Fresh

LEMMA NextFresh ==
  ASSUME Control, Fresh, Lists, CacheNext
  PROVE  Fresh'
<1>0. policy' = policy
  BY DEF CacheNext
<1>. DEFINE F == Fresh'
<1>a. ASSUME NEW t \in Threads, pc[t] # "idle" PROVE ~closing /\ AllOnce
  BY <1>a DEF Control, Lists, AllOnce
<1>t. CacheTypeOK
  BY DEF Control
<1>1. ASSUME NEW t \in Threads, NEW k \in CacheIds, CacheLookup(t, k) PROVE F
  <2>1. \A e : Linked(e)' <=> Linked(e)
    BY <1>1, LinkedSame DEF CacheLookup
  <2>. QED BY <1>0, <1>1, <1>t, <2>1 DEF Fresh, CacheTypeOK, CacheLookup, Goto
<1>2. ASSUME NEW t \in Threads, NEW k \in CacheIds, RemoveTxn(t, k) PROVE F
  <2>1. \A e : Linked(e)' <=> Linked(e)
    BY <1>2, LinkedSame DEF RemoveTxn
  <2>. QED BY <1>0, <1>2, <1>t, <2>1 DEF Fresh, CacheTypeOK, RemoveTxn, Goto
<1>3. ASSUME NEW t \in Threads, NEW e \in CacheEntries, TryInsert(t, e) PROVE F
  <2>1. \A f : Linked(f)' <=> Linked(f)
    BY <1>3, LinkedSame DEF TryInsert
  <2>. QED BY <1>0, <1>3, <1>t, <2>1 DEF Fresh, CacheTypeOK, TryInsert, Goto
<1>4. ASSUME NEW t \in Threads, NEW e \in CacheEntries, state[e] # "NONE",
             PolicyUpdate(e), pc[t] # "idle",
             UNCHANGED <<table, freed, cur, aux>>
      PROVE  F
  <2>1. \A f : Linked(f)' => Linked(f) \/ f = e
    BY <1>4, <1>a, <1>t, PolicyLinks
  <2>2. \A f \in CacheEntries : state'[f] = "NONE" => state[f] = "NONE"
    BY <1>4, <1>t DEF PolicyUpdate, CacheTypeOK, Home
  <2>. QED BY <1>0, <1>4, <2>1, <2>2 DEF Fresh
<1>5. ASSUME NEW t \in Threads, Update(t) \/ Insert(t) PROVE F
  BY <1>4, <1>5, Having DEF Update, Insert
<1>6. ASSUME NEW t \in Threads, LateUpdate(t) PROVE F
  BY <1>4, <1>6, Having DEF LateUpdate
<1>7. ASSUME NEW t \in Threads, Discard(t) PROVE F
  <2>1. \A e : Linked(e)' <=> Linked(e)
    BY <1>7, LinkedSame DEF Discard
  <2>2. None \notin CacheEntries
    BY CacheAssumption
  <2>. QED BY <1>0, <1>7, <1>t, <2>1, <2>2, Having DEF Fresh, CacheTypeOK, Discard, Goto
<1>8. ASSUME NEW t \in Threads, Count(t) PROVE F
  <2>1. \A e : Linked(e)' <=> Linked(e)
    BY <1>8, LinkedSame DEF Count
  <2>2. None \notin CacheEntries
    BY CacheAssumption
  <2>. QED BY <1>0, <1>8, <1>t, <2>1, <2>2 DEF Fresh, CacheTypeOK, Count, Goto
<1>9. ASSUME NEW t \in Threads, BeginReclaim(t) PROVE F
  <2>1. \A e : Linked(e)' <=> Linked(e)
    BY <1>9, LinkedSame DEF BeginReclaim
  <2>. QED BY <1>0, <1>9, <2>1 DEF Fresh, BeginReclaim
<1>10. ASSUME NEW t \in Threads, PageOut(t) PROVE F
  <2>1. \A f : Linked(f)' <=> Linked(f)
    BY <1>10, PageLinks
  <2>2. PICK e \in CacheEntries, f \in CacheEntries :
          /\ state' = [state EXCEPT ![e] = "A1OUT"]
          /\ e \in InQueue("A1IN") /\ f \in InQueue("A1OUT") \cup {e}
          /\ aux' = [aux EXCEPT ![t] = f] \/ aux' = aux
    BY <1>10, PageIs
  <2>3. Linked(f)
    BY <2>2, LinkedIs DEF Queues
  <2>4. UNCHANGED <<table, freed, cur>>
    BY <1>10, PageIs
  <2>. QED BY <1>0, <1>t, <2>1, <2>2, <2>3, <2>4 DEF Fresh, CacheTypeOK
<1>11. ASSUME NEW t \in Threads, TakeAm(t) PROVE F
  <2>1. \A e : Linked(e)' <=> Linked(e)
    BY <1>11, LinkedSame DEF TakeAm
  <2>2. Linked(Last(queue["AM"]))
    <3>1. pc[t] = "loop" /\ size["AM"] > 0
      BY <1>11 DEF TakeAm
    <3>2. policy = "2Q" /\ Q2Lists
      BY <3>1, <1>a DEF Control, CacheTypeOK, Policies, Lists
    <3>. QED BY <3>1, <3>2, <1>t, TakeIs, LinkedIs DEF Queues
  <2>. QED BY <1>0, <1>t, <1>11, <2>1, <2>2 DEF Fresh, CacheTypeOK, TakeAm
<1>12. ASSUME NEW t \in Threads, StopReclaim(t) PROVE F
  <2>1. \A e : Linked(e)' <=> Linked(e)
    BY <1>12, LinkedSame DEF StopReclaim
  <2>2. None \notin CacheEntries
    BY CacheAssumption
  <2>. QED BY <1>0, <1>t, <1>12, <2>1, <2>2 DEF Fresh, CacheTypeOK, StopReclaim, EndReclaim
<1>13. ASSUME NEW t \in Threads, EntryReclaim(t) PROVE F
  <2>1. \A e : Linked(e)' => Linked(e)
    BY <1>13, <1>a, <1>t, LinkedSame, DetachLinks DEF EntryReclaim
  <2>2. None \notin CacheEntries
    BY CacheAssumption
  <2>3. /\ table' \subseteq table /\ UNCHANGED <<freed, state, cur>>
        /\ aux' = aux \/ aux' = [aux EXCEPT ![t] = None]
    BY <1>13 DEF EntryReclaim, EndReclaim
  <2>. QED BY <1>0, <1>t, <2>1, <2>2, <2>3 DEF Fresh, CacheTypeOK
<1>14. ASSUME NEW t \in Threads, NEW e \in CacheEntries, state[e] # "NONE", Release(e),
              UNCHANGED <<table, queue, state>>,
              cur' = cur \/ cur' = [cur EXCEPT ![t] = None],
              aux' = aux \/ aux' = [aux EXCEPT ![t] = None]
       PROVE  F
  <2>1. \A f : Linked(f)' <=> Linked(f)
    BY <1>14, LinkedSame
  <2>2. None \notin CacheEntries
    BY CacheAssumption
  <2>3. freed' \subseteq freed \cup {e}
    BY <1>14 DEF Release
  <2>. QED BY <1>0, <1>t, <1>14, <2>1, <2>2, <2>3 DEF Fresh, CacheTypeOK
<1>15. ASSUME NEW t \in Threads, Drop(t) PROVE F
  BY <1>14, <1>15, Having DEF Drop
<1>16. ASSUME NEW t \in Threads, UnlinkLru(t) PROVE F
  <2>1. \A e : Linked(e)' => Linked(e)
    BY <1>16, <1>a, <1>t, DetachLinks DEF UnlinkLru
  <2>. QED BY <1>0, <1>16, <2>1 DEF Fresh, UnlinkLru
<1>17. ASSUME NEW t \in Threads, Unref(t) PROVE F
  BY <1>14, <1>17, Having DEF Unref
<1>18. ASSUME NEW t \in Threads, Mark(t) PROVE F
  <2>1. \A e : Linked(e)' <=> Linked(e)
    BY <1>18, LinkedSame DEF Mark
  <2>. QED BY <1>0, <1>t, <1>18, <2>1 DEF Fresh, CacheTypeOK, Mark
<1>19. ASSUME NEW t \in Threads, GiveBack(t) PROVE F
  BY <1>14, <1>19, Having DEF GiveBack
<1>20. ASSUME CacheFree PROVE F
  <2>1. \A e : Linked(e)' <=> Linked(e)
    BY <1>20, LinkedSame DEF CacheFree, entryVars
  <2>. QED BY <1>0, <1>20, <2>1 DEF Fresh, CacheFree, entryVars, threadVars
<1>21. ASSUME Destroy PROVE F
  <2>1. PICK n \in Queues : /\ queue[n] # <<>> /\ Release(Head(queue[n]))
                            /\ queue' = [queue EXCEPT ![n] = Tail(@)]
    <3>1. \A i \in DOMAIN DestroyOrder : DestroyOrder[i] \in Queues
      BY DEF DestroyOrder, Queues
    <3>. QED BY <1>21, <3>1 DEF Destroy
  <2>. DEFINE e == Head(queue[n])
  <2>2. queue \in [Queues -> Seq(CacheEntries)]
    BY <1>t DEF CacheTypeOK
  <2>3. e \in InQueue(n) /\ Range(queue'[n]) \subseteq InQueue(n)
    <3>1. queue[n] \in Seq(CacheEntries) /\ queue'[n] = Tail(queue[n])
      BY <2>1, <2>2
    <3>2. Len(Tail(queue[n])) = Len(queue[n]) - 1 /\ Len(queue[n]) > 0
          /\ \A i \in 1 .. Len(Tail(queue[n])) : Tail(queue[n])[i] = queue[n][i + 1]
      BY <2>1, <3>1
    <3>3. \A i \in DOMAIN Tail(queue[n]) : i + 1 \in DOMAIN queue[n]
      BY <3>1, <3>2
    <3>4. \A i \in DOMAIN Tail(queue[n]) : Tail(queue[n])[i] = queue[n][i + 1]
      BY <3>1, <3>2
    <3>5. 1 \in DOMAIN queue[n] /\ e = queue[n][1]
      BY <2>1, <3>1, <3>2
    <3>. QED BY <3>1, <3>3, <3>4, <3>5 DEF InQueue, Range
  <2>4. Linked(e) /\ \A f : Linked(f)' => Linked(f)
    <3>1. \A f : Linked(f)' <=> \E m \in Queues : f \in Range(queue'[m])
      BY DEF Linked
    <3>2. \A m \in Queues : m # n => Range(queue'[m]) = InQueue(m)
      BY <2>1, <2>2 DEF InQueue
    <3>. QED BY <2>3, <3>1, <3>2, LinkedIs
  <2>. HIDE DEF e
  <2>5. freed' \subseteq freed \cup {e} /\ UNCHANGED <<table, state, cur, aux>>
    BY <1>21, <2>1 DEF Release, Destroy, threadVars, e
  <2>. QED BY <1>0, <2>4, <2>5 DEF Fresh
<1>. QED
  BY <1>1, <1>2, <1>3, <1>5, <1>6, <1>7, <1>8, <1>9, <1>10, <1>11, <1>12,
     <1>13, <1>15, <1>16, <1>17, <1>18, <1>19, <1>20, <1>21 DEF CacheNext, Step

-----------------------------------------------------------------------------
(* The lists in every history.                                             *)

\* Threads and the table change, the lists do not.
LEMMA ListsSame ==
  ASSUME Control, Fresh, Lists, ~closing, UNCHANGED <<policy, queue, size>>,
         NEW t \in Threads, NEW p, pc' = [pc EXCEPT ![t] = p],
         p \notin {"evict", "unlink", "unref", "mark"},
         \A u \in Threads : u # t => cur'[u] = cur[u] /\ aux'[u] = aux[u],
         UNCHANGED <<table, state>>
  PROVE  Lists'
<1>1. Control /\ CacheTypeOK /\ LruLists /\ Q2Lists
  BY DEF Lists, Control
<1>2. \A n \in Queues : Once(queue'[n])
  BY DEF Lists
<1>3. \A u \in Threads : pc'[u] \in {"evict", "unlink", "unref", "mark"} =>
        pc[u] = pc'[u] /\ cur'[u] = cur[u] /\ aux'[u] = aux[u]
  BY <1>1 DEF CacheTypeOK
<1>4. LruLists'
  BY <1>1, <1>3 DEF LruLists
<1>5. Q2Lists'
  BY <1>1, <1>3 DEF Q2Lists, InQueue
<1>. QED BY <1>2, <1>4, <1>5 DEF Lists

\* An update or insert of the policy.
LEMMA PolicyLists ==
  ASSUME Control, Fresh, Lists, ~closing, NEW e \in CacheEntries, state[e] # "NONE",
         PolicyUpdate(e), policy' = policy, UNCHANGED <<table, cur, aux>>,
         NEW t \in Threads, NEW p, pc' = [pc EXCEPT ![t] = p],
         p \notin {"evict", "unlink", "unref", "mark"}
  PROVE  Lists'
<1>1. CASE state[e] = "EVICTED"
  BY <1>1, ListsSame DEF PolicyUpdate
<1>2. CASE state[e] # "EVICTED"
  <2>. DEFINE h == Home(e)
  <2>1. CacheTypeOK /\ AllOnce /\ LruLists /\ Q2Lists
    BY DEF Lists, Control, AllOnce
  <2>2. /\ lock = None /\ h \in Queues
        /\ queue' \in [Queues -> Seq(CacheEntries)]
        /\ state' = [state EXCEPT ![e] = h]
    BY <1>2, <2>1, PolicyIs
  <2>s. \A n \in Sized :
              size'[n] = IF state[e] = h THEN size[n]
                         ELSE IF n = h THEN Inc(size[n])
                         ELSE IF n = state[e] THEN Dec(size[n]) ELSE size[n]
    BY <1>2, <2>1, PolicyIs
  <2>o. \A n \in Queues : Once(queue'[n])
    BY <1>2, <2>1, PolicyIs
  <2>r. \A n \in Queues : InQueue(n)' = IF n = h THEN InQueue(n) \cup {e}
                                        ELSE InQueue(n) \ {e}
    BY <1>2, <2>1, PolicyIs
  <2>n. \A n \in Queues :
          Len(queue'[n]) = IF n = h THEN IF e \in InQueue(n) THEN Len(queue[n]) ELSE Len(queue[n]) + 1
                           ELSE IF e \in InQueue(n) THEN Len(queue[n]) - 1 ELSE Len(queue[n])
    BY <1>2, <2>1, PolicyIs
  <2>h. /\ policy = "LRU" => h = "LRU"
        /\ policy = "2Q" => h = IF state[e] \in {"AM", "A1OUT"} THEN "AM" ELSE "A1IN"
    BY DEF Home
  <2>. HIDE DEF h
  <2>3. \A u \in Threads : pc'[u] \in {"evict", "unlink", "unref", "mark"} =>
          pc[u] = pc'[u]
    BY <2>1 DEF CacheTypeOK
  <2>4. \A f \in CacheEntries : state'[f] = IF f = e THEN h ELSE state[f]
    BY <2>1, <2>2 DEF CacheTypeOK
  <2>5. LruLists'
    <3>. SUFFICES ASSUME policy = "LRU" PROVE LruLists'
      BY DEF LruLists
    <3>1. h = "LRU"
      BY <2>h
    <3>2. /\ \A n \in Sized : queue[n] = <<>> /\ size[n] = 0
          /\ state[e] \in {"NEW", "LRU"}
      BY <1>2, <2>1 DEF LruLists
    <3>3. ASSUME NEW n \in Sized PROVE queue'[n] = <<>> /\ size'[n] = 0
      <4>1. n \in Queues /\ n # "LRU" /\ n # "NEW" /\ Len(queue[n]) = 0
        BY <3>2 DEF Sized, Queues
      <4>2. e \notin InQueue(n)
        BY <3>2 DEF InQueue, Range
      <4>3. Len(queue'[n]) = 0 /\ queue'[n] \in Seq(CacheEntries)
        BY <2>2, <2>n, <3>1, <4>1, <4>2
      <4>4. size'[n] = size[n]
        BY <2>s, <3>1, <3>2, <4>1
      <4>. QED BY <3>2, <4>3, <4>4
    <3>4. \A f \in table : f \in CacheEntries
      BY <2>1 DEF CacheTypeOK
    <3>. QED BY <2>1, <2>3, <2>4, <3>1, <3>3, <3>4 DEF LruLists
  <2>6. Q2Lists'
    <3>. SUFFICES ASSUME policy = "2Q" PROVE Q2Lists'
      BY DEF Q2Lists
    <3>q. "LRU" \in Queues /\ "AM" \in Queues /\ "A1IN" \in Queues /\ "A1OUT" \in Queues
      BY DEF Queues
    <3>z. "AM" \in Sized /\ "A1IN" \in Sized /\ "A1OUT" \in Sized
      BY DEF Sized
    <3>0. /\ queue["LRU"] = <<>>
          /\ \A f \in CacheEntries : state[f] \notin {"LRU", "EVICTED"}
          /\ \A n \in Queues : \A f \in InQueue(n) : state[f] = n
          /\ \A f \in CacheEntries : state[f] = "A1IN" => f \in InQueue("A1IN")
          /\ size["A1IN"] = Len(queue["A1IN"])
          /\ size["AM"] <= Len(queue["AM"])
      BY <2>1 DEF Q2Lists
    <3>1. h = IF state[e] \in {"AM", "A1OUT"} THEN "AM" ELSE "A1IN"
      BY <2>h
    <3>2. state[e] \in {"NEW", "AM", "A1IN", "A1OUT"}
      BY <2>1, <3>0 DEF CacheTypeOK, Queues
    <3>3. queue'["LRU"] = <<>>
      <4>1. e \notin InQueue("LRU") /\ Len(queue["LRU"]) = 0
        BY <3>0 DEF InQueue, Range
      <4>2. Len(queue'["LRU"]) = 0 /\ queue'["LRU"] \in Seq(CacheEntries)
        BY <2>2, <2>n, <3>q, <3>1, <4>1
      <4>. QED BY <4>2
    <3>4. \A n \in Queues : \A f \in InQueue(n)' : f \in CacheEntries /\ state'[f] = n
      <4>. SUFFICES ASSUME NEW n \in Queues, NEW f \in InQueue(n)'
                    PROVE  f \in CacheEntries /\ state'[f] = n
        OBVIOUS
      <4>1. queue'[n] \in Seq(CacheEntries)
        BY <2>2
      <4>2. f \in CacheEntries
        BY <4>1 DEF InQueue, Range
      <4>. QED BY <2>r, <2>4, <3>0, <4>2
    <3>5. \A f \in CacheEntries : state'[f] = "A1IN" => f \in InQueue("A1IN")'
      BY <2>r, <2>4, <3>0, <3>q, <3>1
    <3>6. \A n \in Queues : Len(queue'[n]) \in 0 .. MaxUint
      <4>. SUFFICES ASSUME NEW n \in Queues PROVE Len(queue'[n]) \in 0 .. MaxUint
        OBVIOUS
      <4>1. queue'[n] \in Seq(CacheEntries) /\ Once(queue'[n])
        BY <2>2, <2>o
      <4>2. Len(queue'[n]) \in Nat /\ Len(queue'[n]) <= MaxUint
        BY <4>1, OnceShort
      <4>. QED BY <4>2, CacheAssumption
    <3>7. /\ size["AM"] \in 0 .. MaxUint /\ size["A1IN"] \in 0 .. MaxUint
          /\ Len(queue["AM"]) \in Nat /\ Len(queue["A1IN"]) \in Nat /\ MaxUint \in Nat
      BY <2>1, <3>q, <3>z, CacheAssumption DEF CacheTypeOK
    <3>8. size'["A1IN"] = Len(queue'["A1IN"])
      <4>1. CASE state[e] = "A1IN"
        <5>1. e \in InQueue("A1IN") /\ h = "A1IN"
          BY <4>1, <3>0, <3>1
        <5>2. Len(queue'["A1IN"]) = Len(queue["A1IN"])
          BY <5>1, <2>n, <3>q
        <5>3. size'["A1IN"] = size["A1IN"]
          BY <5>1, <4>1, <2>s, <3>z
        <5>. QED BY <5>2, <5>3, <3>0, <3>7
      <4>2. CASE state[e] = "NEW"
        <5>1. e \notin InQueue("A1IN") /\ h = "A1IN"
          BY <4>2, <3>0, <3>1, <3>q
        <5>2. Len(queue'["A1IN"]) = Len(queue["A1IN"]) + 1
          BY <5>1, <2>n, <3>q, <3>7
        <5>3. size'["A1IN"] = Inc(size["A1IN"])
          BY <5>1, <4>2, <2>s, <3>z
        <5>4. size["A1IN"] < MaxUint
          BY <5>2, <3>6, <3>0, <3>7, <3>q
        <5>. QED BY <5>2, <5>3, <5>4, <3>0, <3>7, IncDec
      <4>3. CASE state[e] \in {"AM", "A1OUT"}
        <5>1. e \notin InQueue("A1IN") /\ h = "AM"
          BY <4>3, <3>0, <3>1, <3>q
        <5>2. Len(queue'["A1IN"]) = Len(queue["A1IN"])
          BY <5>1, <2>n, <3>q, <3>7
        <5>3. size'["A1IN"] = size["A1IN"]
          BY <5>1, <4>3, <2>s, <3>z
        <5>. QED BY <5>2, <5>3, <3>0
      <4>. QED BY <3>2, <4>1, <4>2, <4>3
    <3>9. size'["AM"] <= Len(queue'["AM"])
      <4>1. CASE state[e] = "AM"
        <5>2. Len(queue'["AM"]) >= Len(queue["AM"])
          BY <4>1, <3>1, <2>n, <3>q, <3>7
        <5>3. size'["AM"] = size["AM"]
          BY <4>1, <3>1, <2>s, <3>z
        <5>. QED BY <5>2, <5>3, <3>0, <3>6, <3>7, <3>q
      <4>2. CASE state[e] = "A1OUT"
        <5>1. e \notin InQueue("AM") /\ h = "AM"
          BY <4>2, <3>0, <3>1, <3>q
        <5>2. Len(queue'["AM"]) = Len(queue["AM"]) + 1
          BY <5>1, <2>n, <3>q, <3>7
        <5>3. size'["AM"] = Inc(size["AM"])
          BY <5>1, <4>2, <2>s, <3>z
        <5>4. size["AM"] < MaxUint
          BY <5>2, <3>6, <3>0, <3>7, <3>q
        <5>5. Inc(size["AM"]) = size["AM"] + 1
          BY <5>4, <3>7, IncDec
        <5>. QED BY <5>2, <5>3, <5>5, <3>0, <3>7
      <4>3. CASE state[e] \in {"NEW", "A1IN"}
        <5>1. e \notin InQueue("AM") /\ h = "A1IN"
          BY <4>3, <3>0, <3>1, <3>q
        <5>2. Len(queue'["AM"]) = Len(queue["AM"])
          BY <5>1, <2>n, <3>q, <3>7
        <5>3. size'["AM"] = size["AM"]
          BY <5>1, <4>3, <2>s, <3>z
        <5>. QED BY <5>2, <5>3, <3>0
      <4>. QED BY <3>2, <4>1, <4>2, <4>3
    <3>10. \A u \in Threads : pc'[u] # "evict"
      <4>1. \A u \in Threads : pc[u] # "evict"
        BY <2>2, CacheAssumption DEF Control
      <4>. QED BY <4>1, <2>3
    <3>11. \A f \in CacheEntries : state'[f] \notin {"LRU", "EVICTED"}
      BY <2>4, <3>0, <3>1
    <3>. QED BY <3>3, <3>4, <3>5, <3>8, <3>9, <3>10, <3>11 DEF Q2Lists
  <2>. QED BY <2>5, <2>6, <2>o DEF Lists
<1>. QED BY <1>1, <1>2

\* With LRU, an entry is made or taken out, or is marked.
LEMMA LruStep ==
  ASSUME Lists, ~closing, policy = "LRU", policy' = policy, UNCHANGED size,
         \A n \in Queues : Once(queue'[n]),
         \A n \in Sized : queue'[n] = <<>>,
         \A e \in CacheEntries : state'[e] \in {"NONE", "NEW", "LRU", "EVICTED"},
         \A e \in table' : state'[e] # "EVICTED",
         \A u \in Threads : pc'[u] \in {"unlink", "unref", "mark"} => cur'[u] \notin table'
  PROVE  Lists'
<1>1. LruLists'
  BY DEF Lists, LruLists
<1>2. Q2Lists'
  BY DEF Q2Lists
<1>. QED BY <1>1, <1>2 DEF Lists

LEMMA PageLists ==
  ASSUME Control, Lists, NEW t \in Threads, PageOut(t), policy' = policy
  PROVE  Lists'
<1>1. /\ pc[t] = "loop" /\ policy = "2Q" /\ ~closing /\ size["A1IN"] > 1
      /\ queue' \in [Queues -> Seq(CacheEntries)]
  BY PageIs
<1>2. PICK e \in InQueue("A1IN"), f \in CacheEntries :
              /\ e \in CacheEntries
              /\ state' = [state EXCEPT ![e] = "A1OUT"]
              /\ f \in InQueue("A1OUT") \cup {e}
              /\ size'["A1IN"] = Dec(size["A1IN"]) /\ size'["AM"] = size["AM"]
              /\ \/ /\ pc' = [pc EXCEPT ![t] = "evict"]
                    /\ aux' = [aux EXCEPT ![t] = f]
                    /\ size'["A1OUT"] = size["A1OUT"]
                 \/ /\ pc' = pc /\ aux' = aux
                    /\ size'["A1OUT"] = Inc(size["A1OUT"])
              /\ \A n \in Queues :
                   /\ Once(queue'[n])
                   /\ InQueue(n)' = IF n = "A1OUT" THEN InQueue(n) \cup {e}
                                    ELSE InQueue(n) \ {e}
                   /\ Len(queue'[n]) = IF n = "A1OUT" THEN IF e \in InQueue(n) THEN Len(queue[n]) ELSE Len(queue[n]) + 1
                                       ELSE IF e \in InQueue(n) THEN Len(queue[n]) - 1 ELSE Len(queue[n])
  BY PageIs
<1>q. "LRU" \in Queues /\ "AM" \in Queues /\ "A1IN" \in Queues /\ "A1OUT" \in Queues
  BY DEF Queues
<1>3. CacheTypeOK /\ Q2Lists
  BY <1>1 DEF Control, Lists
<1>4. /\ queue["LRU"] = <<>>
      /\ \A g \in CacheEntries : state[g] \notin {"LRU", "EVICTED"}
      /\ \A n \in Queues : \A g \in InQueue(n) : state[g] = n
      /\ \A g \in CacheEntries : state[g] = "A1IN" => g \in InQueue("A1IN")
      /\ size["A1IN"] = Len(queue["A1IN"])
      /\ size["AM"] <= Len(queue["AM"])
  BY <1>1, <1>3 DEF Q2Lists
<1>r. \A n \in Queues : InQueue(n)' = IF n = "A1OUT" THEN InQueue(n) \cup {e}
                                      ELSE InQueue(n) \ {e}
  BY <1>2
<1>n. \A n \in Queues : Len(queue'[n]) = IF n = "A1OUT" THEN IF e \in InQueue(n) THEN Len(queue[n]) ELSE Len(queue[n]) + 1
                                         ELSE IF e \in InQueue(n) THEN Len(queue[n]) - 1 ELSE Len(queue[n])
  BY <1>2
<1>5. state[e] = "A1IN" /\ \A g \in CacheEntries : state'[g] = IF g = e THEN "A1OUT" ELSE state[g]
  BY <1>2, <1>3, <1>4, <1>q DEF CacheTypeOK
<1>6. queue'["LRU"] = <<>>
  <2>1. e \notin InQueue("LRU") /\ Len(queue["LRU"]) = 0
    BY <1>4 DEF InQueue, Range
  <2>2. Len(queue'["LRU"]) = 0 /\ queue'["LRU"] \in Seq(CacheEntries)
    BY <1>1, <1>n, <1>q, <2>1
  <2>. QED BY <2>2
<1>7. \A n \in Queues : \A g \in InQueue(n)' : state'[g] = n
  <2>. SUFFICES ASSUME NEW n \in Queues, NEW g \in InQueue(n)'
                PROVE  state'[g] = n
    OBVIOUS
  <2>1. queue'[n] \in Seq(CacheEntries)
    BY <1>1
  <2>2. g \in CacheEntries
    BY <2>1 DEF InQueue, Range
  <2>. QED BY <1>r, <1>5, <1>4, <2>2
<1>8. \A g \in CacheEntries : state'[g] = "A1IN" => g \in InQueue("A1IN")'
  BY <1>r, <1>4, <1>5, <1>q
<1>9. /\ Len(queue["AM"]) \in Nat /\ Len(queue["A1IN"]) \in Nat
      /\ size["A1IN"] \in 0 .. MaxUint /\ size["AM"] \in Nat
  BY <1>3, <1>q DEF CacheTypeOK, Sized
<1>10. size'["A1IN"] = Len(queue'["A1IN"])
  <2>1. Dec(size["A1IN"]) = size["A1IN"] - 1
    BY <1>1, <1>9, IncDec
  <2>2. Len(queue'["A1IN"]) = Len(queue["A1IN"]) - 1
    BY <1>2, <1>n, <1>q
  <2>. QED BY <1>2, <1>4, <2>1, <2>2
<1>11. size'["AM"] <= Len(queue'["AM"])
  <2>1. e \notin InQueue("AM")
    BY <1>4, <1>5, <1>q
  <2>. QED BY <1>2, <1>4, <1>n, <1>q, <2>1
<1>12. ASSUME NEW u \in Threads, pc'[u] = "evict"
       PROVE  state'[aux'[u]] = "A1OUT" /\ aux'[u] \in InQueue("A1OUT")'
  <2>1. u = t /\ aux'[u] = f
    <3>1. \A v \in Threads : pc[v] # "evict"
      BY <1>1 DEF Control
    <3>. QED BY <1>12, <1>2, <1>3, <3>1 DEF CacheTypeOK
  <2>. QED BY <2>1, <1>2, <1>4, <1>5, <1>r, <1>q
<1>13. \A g \in CacheEntries : state'[g] \notin {"LRU", "EVICTED"}
  BY <1>4, <1>5
<1>14. Q2Lists'
  BY <1>6, <1>7, <1>8, <1>10, <1>11, <1>12, <1>13 DEF Q2Lists
<1>15. LruLists'
  BY <1>1 DEF LruLists
<1>. QED BY <1>2, <1>14, <1>15 DEF Lists

LEMMA TakeLists ==
  ASSUME Control, Lists, NEW t \in Threads, TakeAm(t), policy' = policy
  PROVE  Lists'
<1>1. /\ pc[t] = "loop" /\ size["AM"] > 0
      /\ size' = [size EXCEPT !["AM"] = Dec(@)]
      /\ aux' = [aux EXCEPT ![t] = Last(queue["AM"])]
      /\ pc' = [pc EXCEPT ![t] = "evict"]
      /\ UNCHANGED <<table, state, queue, cur, closing>>
  BY DEF TakeAm, Goto
<1>2. policy = "2Q" /\ ~closing /\ CacheTypeOK /\ Q2Lists
  BY <1>1 DEF Control, CacheTypeOK, Policies, Lists
<1>3. /\ size["AM"] \in 0 .. MaxUint /\ Len(queue["AM"]) \in Nat
      /\ size'["AM"] = Dec(size["AM"]) /\ size'["A1IN"] = size["A1IN"]
  BY <1>1, <1>2 DEF CacheTypeOK, Sized, Queues
<1>4. size'["AM"] < Len(queue["AM"])
  <2>1. Dec(size["AM"]) = size["AM"] - 1
    BY <1>1, <1>3, IncDec
  <2>. QED BY <1>2, <1>3, <2>1 DEF Q2Lists
<1>5. ASSUME NEW u \in Threads, pc'[u] = "evict"
      PROVE  state'[aux'[u]] = "AM" /\ aux'[u] \in InQueue("AM")'
  <2>1. u = t /\ aux'[u] = Last(queue["AM"])
    <3>1. \A v \in Threads : pc[v] # "evict"
      BY <1>1 DEF Control
    <3>. QED BY <1>5, <1>1, <1>2, <3>1 DEF CacheTypeOK
  <2>2. Last(queue["AM"]) \in InQueue("AM")
    BY <1>1, <1>2, TakeIs
  <2>. QED BY <2>1, <2>2, <1>1, <1>2 DEF Q2Lists, InQueue, Queues
<1>6. Q2Lists'
  <2>1. /\ queue["LRU"] = <<>>
        /\ \A g \in CacheEntries : state[g] \notin {"LRU", "EVICTED"}
        /\ \A n \in Queues : \A g \in InQueue(n) : state[g] = n
        /\ \A g \in CacheEntries : state[g] = "A1IN" => g \in InQueue("A1IN")
        /\ size["A1IN"] = Len(queue["A1IN"])
    BY <1>2 DEF Q2Lists
  <2>2. \A n : InQueue(n)' = InQueue(n)
    BY <1>1 DEF InQueue
  <2>3. size'["AM"] <= Len(queue'["AM"]) /\ size'["AM"] < Len(queue'["AM"])
    <3>1. size'["AM"] \in Int
      BY <1>3, IncDec
    <3>. QED BY <1>1, <1>3, <1>4, <3>1
  <2>4. \A u \in Threads : pc'[u] = "evict" =>
         /\ state'[aux'[u]] \in {"AM", "A1OUT"}
         /\ aux'[u] \in Range(queue'[state'[aux'[u]]])
         /\ state'[aux'[u]] = "AM" => size'["AM"] < Len(queue'["AM"])
    BY <1>5, <2>3 DEF InQueue
  <2>5. /\ \A n \in Queues : \A g \in Range(queue'[n]) : state'[g] = n
        /\ \A g \in CacheEntries : state'[g] = "A1IN" => g \in Range(queue'["A1IN"])
    BY <1>1, <2>1 DEF InQueue
  <2>. QED BY <1>1, <1>3, <2>1, <2>3, <2>4, <2>5 DEF Q2Lists, InQueue
<1>7. LruLists'
  BY <1>2 DEF LruLists
<1>8. \A n \in Queues : Once(queue'[n])
  BY <1>1, <1>2 DEF Lists
<1>. QED BY <1>6, <1>7, <1>8 DEF Lists

LEMMA ReclaimLists ==
  ASSUME Control, Lists, NEW t \in Threads, EntryReclaim(t), aux[t] \in table,
         policy' = policy
  PROVE  Lists'
<1>. DEFINE e == aux[t]
<1>1. /\ pc[t] = "evict" /\ pc' = [pc EXCEPT ![t] = "drop"]
      /\ queue' = Detached(e)
      /\ UNCHANGED <<state, size, cur, aux, closing>>
  BY DEF EntryReclaim, Goto
<1>2. policy = "2Q" /\ ~closing /\ CacheTypeOK /\ Q2Lists /\ AllOnce
  BY <1>1 DEF Control, CacheTypeOK, Policies, Lists, AllOnce
<1>q. "LRU" \in Queues /\ "AM" \in Queues /\ "A1IN" \in Queues /\ "A1OUT" \in Queues
  BY DEF Queues
<1>a. /\ Detached(e) \in [Queues -> Seq(CacheEntries)]
      /\ \A n \in Queues :
              /\ Once(Detached(e)[n]) /\ Range(Detached(e)[n]) = InQueue(n) \ {e}
              /\ Len(Detached(e)[n]) = IF e \in InQueue(n) THEN Len(queue[n]) - 1
                                       ELSE Len(queue[n])
  BY <1>2, DetachedIs DEF QueueType, CacheTypeOK
<1>3. /\ queue' \in [Queues -> Seq(CacheEntries)]
      /\ \A n \in Queues :
              /\ Once(queue'[n]) /\ InQueue(n)' = InQueue(n) \ {e}
              /\ Len(queue'[n]) = IF e \in InQueue(n) THEN Len(queue[n]) - 1
                                  ELSE Len(queue[n])
  BY <1>1, <1>a DEF InQueue
<1>. HIDE DEF e
<1>4. /\ queue["LRU"] = <<>>
      /\ \A g \in CacheEntries : state[g] \notin {"LRU", "EVICTED"}
      /\ \A n \in Queues : \A g \in InQueue(n) : state[g] = n
      /\ \A g \in CacheEntries : state[g] = "A1IN" => g \in InQueue("A1IN")
      /\ size["A1IN"] = Len(queue["A1IN"])
      /\ size["AM"] <= Len(queue["AM"])
      /\ state[e] \in {"AM", "A1OUT"}
      /\ state[e] = "AM" => size["AM"] < Len(queue["AM"])
  BY <1>1, <1>2 DEF Q2Lists, e
<1>5. e \notin InQueue("LRU") /\ e \notin InQueue("A1IN")
      /\ (state[e] = "A1OUT" => e \notin InQueue("AM"))
  BY <1>4, <1>q
<1>6. queue'["LRU"] = <<>>
  <2>1. Len(queue["LRU"]) = 0
    BY <1>4
  <2>2. Len(queue'["LRU"]) = 0 /\ queue'["LRU"] \in Seq(CacheEntries)
    BY <1>3, <1>5, <1>q, <2>1
  <2>. QED BY <2>2
<1>7. /\ Len(queue["AM"]) \in Nat /\ size["AM"] \in Nat
  BY <1>2, <1>q DEF CacheTypeOK, Sized
<1>8. size'["AM"] <= Len(queue'["AM"])
  <2>1. CASE e \in InQueue("AM")
    <3>1. Len(queue'["AM"]) = Len(queue["AM"]) - 1
      BY <2>1, <1>3, <1>q
    <3>. QED BY <3>1, <2>1, <1>1, <1>4, <1>5, <1>7
  <2>2. CASE e \notin InQueue("AM")
    BY <2>2, <1>1, <1>3, <1>4, <1>q
  <2>. QED BY <2>1, <2>2
<1>9. size'["A1IN"] = Len(queue'["A1IN"])
  BY <1>1, <1>3, <1>4, <1>5, <1>q
<1>10. \A u \in Threads : pc'[u] # "evict"
  <2>1. \A v \in Threads : pc[v] = "evict" => v = t
    BY <1>1 DEF Control
  <2>. QED BY <2>1, <1>1, <1>2 DEF CacheTypeOK
<1>11. \A n \in Queues : \A g \in InQueue(n)' : state'[g] = n
  BY <1>1, <1>3, <1>4
<1>12. \A g \in CacheEntries : state'[g] = "A1IN" => g \in InQueue("A1IN")'
  BY <1>1, <1>3, <1>4, <1>q
<1>13. Q2Lists'
  BY <1>1, <1>4, <1>6, <1>8, <1>9, <1>10, <1>11, <1>12 DEF Q2Lists
<1>14. LruLists'
  BY <1>2 DEF LruLists
<1>. QED BY <1>3, <1>13, <1>14 DEF Lists

LEMMA NextLists ==
  ASSUME Control, Fresh, Lists, CacheNext
  PROVE  Lists'
<1>0. policy' = policy
  BY DEF CacheNext
<1>. DEFINE G == Lists'
<1>t. CacheTypeOK
  BY DEF Control
<1>a. ASSUME NEW t \in Threads, pc[t] # "idle" PROVE ~closing
  BY <1>a DEF Control
<1>b. ASSUME ~closing PROVE AllOnce /\ LruLists /\ Q2Lists
  BY <1>b DEF Lists, AllOnce
<1>1. ASSUME NEW t \in Threads, NEW k \in CacheIds, CacheLookup(t, k) PROVE G
  <2>1. /\ ~closing /\ UNCHANGED <<table, state, queue, size>>
        /\ \E p \in {"update", "alloc"} : pc' = [pc EXCEPT ![t] = p]
        /\ \A u \in Threads : u # t => cur'[u] = cur[u] /\ aux'[u] = aux[u]
    BY <1>1, <1>t DEF CacheLookup, Goto, CacheTypeOK
  <2>. QED BY <2>1, <1>0, ListsSame
<1>2. ASSUME NEW t \in Threads, NEW k \in CacheIds, RemoveTxn(t, k) PROVE G
  <2>1. PICK e \in table : table' = table \ {e} /\ cur' = [cur EXCEPT ![t] = e]
    BY <1>2 DEF RemoveTxn
  <2>2. /\ ~closing /\ policy = "LRU" /\ pc' = [pc EXCEPT ![t] = "unlink"]
        /\ UNCHANGED <<state, queue, size>>
    BY <1>2 DEF RemoveTxn, Goto
  <2>3. \A u \in Threads : pc'[u] \in {"unlink", "unref", "mark"} => cur'[u] \notin table'
    BY <1>b, <1>t, <2>1, <2>2 DEF LruLists, CacheTypeOK
  <2>4. /\ \A f \in CacheEntries : state'[f] \in {"NONE", "NEW", "LRU", "EVICTED"}
        /\ \A f \in table' : state'[f] # "EVICTED"
        /\ \A n \in Sized : queue'[n] = <<>>
    BY <1>b, <2>1, <2>2 DEF LruLists
  <2>5. \A n \in Queues : Once(queue'[n])
    BY <1>b, <2>2 DEF AllOnce
  <2>. QED BY <1>0, <2>2, <2>3, <2>4, <2>5, LruStep
<1>3. ASSUME NEW t \in Threads, NEW e \in CacheEntries, TryInsert(t, e) PROVE G
  <2>1. /\ ~closing /\ state[e] = "NONE" /\ state' = [state EXCEPT ![e] = "NEW"]
        /\ UNCHANGED <<queue, size>> /\ table' \subseteq table \cup {e}
        /\ \E p \in {"late", "insert"} : pc' = [pc EXCEPT ![t] = p]
        /\ \A u \in Threads : u # t => cur'[u] = cur[u] /\ aux'[u] = aux[u]
    BY <1>3, <1>t DEF TryInsert, Goto, CacheTypeOK
  <2>2. \A u \in Threads : pc'[u] \in {"evict", "unlink", "unref", "mark"} =>
          u # t /\ pc'[u] = pc[u]
    BY <2>1, <1>t DEF CacheTypeOK
  <2>3. /\ \A f \in CacheEntries : state'[f] = IF f = e THEN "NEW" ELSE state[f]
        /\ ~Linked(e) /\ \A u \in Threads : cur[u] # e /\ aux[u] # e
        /\ e \notin table
    BY <2>1, <1>t DEF CacheTypeOK, Fresh
  <2>4. \A n \in Queues : Once(queue'[n])
    BY <1>b, <2>1 DEF AllOnce
  <2>5. LruLists'
    <3>. SUFFICES ASSUME policy = "LRU" PROVE LruLists'
      BY <1>0 DEF LruLists
    <3>1. \A u \in Threads : pc'[u] \in {"unlink", "unref", "mark"} => cur'[u] \notin table'
      BY <1>b, <2>1, <2>2, <2>3 DEF LruLists
    <3>2. table \subseteq CacheEntries
      BY <1>t DEF CacheTypeOK
    <3>. QED BY <1>0, <1>b, <2>1, <2>3, <3>1, <3>2 DEF LruLists
  <2>6. Q2Lists'
    <3>. SUFFICES ASSUME policy = "2Q" PROVE Q2Lists'
      BY <1>0 DEF Q2Lists
    <3>1. \A n \in Queues : \A f \in InQueue(n)' : f \in InQueue(n) /\ f \in CacheEntries /\ f # e
      <4>. SUFFICES ASSUME NEW n \in Queues, NEW f \in InQueue(n)'
                    PROVE  f \in InQueue(n) /\ f \in CacheEntries /\ f # e
        OBVIOUS
      <4>1. f \in InQueue(n)
        BY <2>1 DEF InQueue
      <4>2. queue[n] \in Seq(CacheEntries)
        BY <1>t DEF CacheTypeOK
      <4>. QED BY <4>1, <4>2, <2>3, LinkedIs DEF InQueue, Range
    <3>2. \A u \in Threads : pc'[u] = "evict" => aux'[u] = aux[u] /\ aux[u] \in CacheEntries /\ aux[u] # e
      BY <1>t, <2>1, <2>2, <2>3, Having
    <3>3. \A n : InQueue(n)' = InQueue(n)
      BY <2>1 DEF InQueue
    <3>4. \A n \in Queues : \A f \in InQueue(n)' : state'[f] = n
      BY <3>1, <2>1, <2>3, <1>b DEF Q2Lists
    <3>5. ASSUME NEW u \in Threads, pc'[u] = "evict"
          PROVE  /\ state'[aux'[u]] \in {"AM", "A1OUT"}
                 /\ aux'[u] \in Range(queue'[state'[aux'[u]]])
                 /\ state'[aux'[u]] = "AM" => size'["AM"] < Len(queue'["AM"])
      <4>1. state'[aux'[u]] = state[aux[u]] /\ pc[u] = "evict" /\ aux'[u] = aux[u]
        BY <3>2, <3>5, <2>2, <2>3
      <4>2. /\ state[aux[u]] \in {"AM", "A1OUT"}
            /\ aux[u] \in InQueue(state[aux[u]])
            /\ state[aux[u]] = "AM" => size["AM"] < Len(queue["AM"])
        BY <4>1, <2>1, <1>b DEF Q2Lists
      <4>. QED BY <4>1, <4>2, <2>1 DEF InQueue
    <3>6. /\ queue["LRU"] = <<>>
          /\ \A g \in CacheEntries : state[g] \notin {"LRU", "EVICTED"}
          /\ \A g \in CacheEntries : state[g] = "A1IN" => g \in InQueue("A1IN")
          /\ size["A1IN"] = Len(queue["A1IN"]) /\ size["AM"] <= Len(queue["AM"])
      BY <2>1, <1>b DEF Q2Lists
    <3>7. /\ \A g \in CacheEntries : state'[g] \notin {"LRU", "EVICTED"}
          /\ \A g \in CacheEntries : state'[g] = "A1IN" => g \in InQueue("A1IN")'
      BY <2>3, <3>3, <3>6
    <3>. QED BY <2>1, <3>4, <3>5, <3>6, <3>7 DEF Q2Lists, InQueue
  <2>. QED BY <2>4, <2>5, <2>6 DEF Lists
<1>4. ASSUME NEW t \in Threads, Update(t) PROVE G
  BY <1>0, <1>a, <1>4, Having, PolicyLists DEF Update, Goto
<1>5. ASSUME NEW t \in Threads, LateUpdate(t) PROVE G
  BY <1>0, <1>a, <1>5, Having, PolicyLists DEF LateUpdate, Goto
<1>6. ASSUME NEW t \in Threads, Insert(t) PROVE G
  BY <1>0, <1>a, <1>6, Having, PolicyLists DEF Insert, Goto
<1>7. ASSUME NEW t \in Threads, pc[t] # "idle", UNCHANGED <<table, state, queue, size>>,
             NEW p, pc' = [pc EXCEPT ![t] = p], p \notin {"evict", "unlink", "unref", "mark"},
             cur' = cur \/ cur' = [cur EXCEPT ![t] = None],
             aux' = aux \/ aux' = [aux EXCEPT ![t] = None]
      PROVE  G
  <2>1. \A u \in Threads : u # t => cur'[u] = cur[u] /\ aux'[u] = aux[u]
    BY <1>7, <1>t DEF CacheTypeOK
  <2>. QED BY <1>0, <1>a, <1>7, <2>1, ListsSame
<1>8. ASSUME NEW t \in Threads, Discard(t) PROVE G
  BY <1>7, <1>8 DEF Discard, Goto
<1>9. ASSUME NEW t \in Threads, Count(t) PROVE G
  BY <1>7, <1>9 DEF Count, Goto
<1>10. ASSUME NEW t \in Threads, BeginReclaim(t) PROVE G
  BY <1>7, <1>10 DEF BeginReclaim, Goto
<1>11. ASSUME NEW t \in Threads, StopReclaim(t) PROVE G
  BY <1>7, <1>11 DEF StopReclaim, EndReclaim, Goto
<1>12. ASSUME NEW t \in Threads, Drop(t) PROVE G
  BY <1>7, <1>12 DEF Drop, Goto
<1>13. ASSUME NEW t \in Threads, GiveBack(t) PROVE G
  BY <1>7, <1>13 DEF GiveBack, Goto
<1>14. ASSUME NEW t \in Threads, EntryReclaim(t) PROVE G
  <2>1. CASE aux[t] \in table
    BY <1>0, <1>14, <2>1, ReclaimLists
  <2>2. CASE aux[t] \notin table
    BY <1>7, <1>14, <2>2 DEF EntryReclaim, EndReclaim, Goto
  <2>. QED BY <2>1, <2>2
<1>15. ASSUME NEW t \in Threads, NEW p \in {"unref", "mark", "using"},
              pc[t] \in {"unlink", "unref", "mark"}, pc' = [pc EXCEPT ![t] = p],
              UNCHANGED <<table, cur, size>>, UNCHANGED queue \/ queue' = Detached(cur[t]),
              UNCHANGED state \/ state' = [state EXCEPT ![cur[t]] = "EVICTED"]
       PROVE  G
  <2>1. policy = "LRU" /\ ~closing
    BY <1>15, <1>t DEF Control, CacheTypeOK, Policies
  <2>2. AllOnce /\ LruLists
    BY <1>b, <2>1
  <2>3. (\A n \in Queues : Once(queue'[n])) /\ \A n \in Sized : queue'[n] = <<>>
    <3>1. CASE UNCHANGED queue
      BY <3>1, <2>1, <2>2 DEF AllOnce, LruLists
    <3>2. CASE queue' = Detached(cur[t])
      <4>1. \A n \in Queues : Once(Detached(cur[t])[n])
        BY <1>t, <2>2, DetachedIs DEF CacheTypeOK, QueueType
      <4>2. ASSUME NEW n \in Sized PROVE Detached(cur[t])[n] = <<>>
        <5>1. n \in Queues
          BY DEF Sized, Queues
        <5>2. queue[n] = <<>>
          BY <2>1, <2>2 DEF LruLists
        <5>. QED BY <5>1, <5>2 DEF Detached, Without, Range
      <4>. QED BY <3>2, <4>1, <4>2
    <3>. QED BY <1>15, <3>1, <3>2
  <2>4. cur[t] \notin table
    BY <1>15, <2>1, <2>2 DEF LruLists
  <2>5. /\ \A f \in CacheEntries : state'[f] \in {"NONE", "NEW", "LRU", "EVICTED"}
        /\ \A f \in table' : state'[f] # "EVICTED"
    BY <1>15, <1>t, <2>1, <2>2, <2>4 DEF LruLists, CacheTypeOK
  <2>6. \A u \in Threads : pc'[u] \in {"unlink", "unref", "mark"} => cur'[u] \notin table'
    BY <1>15, <1>t, <2>1, <2>2 DEF LruLists, CacheTypeOK
  <2>. QED BY <1>0, <1>15, <2>1, <2>3, <2>5, <2>6, LruStep
<1>16. ASSUME NEW t \in Threads, UnlinkLru(t) PROVE G
  BY <1>15, <1>16 DEF UnlinkLru, Goto
<1>17. ASSUME NEW t \in Threads, Unref(t) PROVE G
  BY <1>15, <1>17 DEF Unref, Goto
<1>18. ASSUME NEW t \in Threads, Mark(t) PROVE G
  BY <1>15, <1>18 DEF Mark, Goto
<1>19. ASSUME CacheFree \/ Destroy PROVE G
  BY <1>19 DEF CacheFree, Destroy, Lists
<1>. QED
  BY <1>0, <1>1, <1>2, <1>3, <1>4, <1>5, <1>6, <1>8, <1>9, <1>10, <1>11, <1>12,
     <1>13, <1>14, <1>16, <1>17, <1>18, <1>19, PageLists, TakeLists
     DEF CacheNext, Step

-----------------------------------------------------------------------------
(* One thread's step, seen from an entry.                                  *)

\* The other threads stay as they are.
Others(t) ==
  \A u \in Threads \ {t} : pc'[u] = pc[u] /\ cur'[u] = cur[u] /\ aux'[u] = aux[u]

\* The thread t takes e out.
Takes(t, e) ==
  \/ pc[t] \in {"unlink", "unref"} /\ cur[t] = e
  \/ pc[t] = "drop" /\ aux[t] = e

LEMMA OwnedIs == \A e : Owned(e) <=> e \in table \/ \E t \in Threads : Takes(t, e)
BY DEF Owned, Takes

LEMMA OwnedIsNext ==
  \A e : Owned(e)' <=> e \in table' \/ \E t \in Threads : Takes(t, e)'
BY DEF Owned, Takes

LEMMA OthersTake ==
  ASSUME NEW t \in Threads, Others(t)
  PROVE  \A u \in Threads : u # t => \A e : Takes(u, e)' <=> Takes(u, e)
BY DEF Others, Takes

\* Nothing else than an insert makes the cache own an entry.
LEMMA OwnedFewer ==
  ASSUME NEW t \in Threads, Others(t), table' \subseteq table,
         \A e : Takes(t, e)' => Owned(e)
  PROVE  \A e : Owned(e)' => Owned(e)
BY OwnedIs, OwnedIsNext, OthersTake

\* An entry that has strayed is in its list until the cache is freed.
LEMMA StrayStays ==
  ASSUME Control, Fresh, Lists, CacheNext, Stray, ~closing'
  PROVE  Stray'
<1>0. PICK e \in CacheEntries : Linked(e) /\ ~Owned(e)
  BY DEF Stray
<1>t. CacheTypeOK
  BY DEF Control
<1>a. ASSUME NEW t \in Threads, pc[t] # "idle" PROVE AllOnce
  BY <1>a DEF Control, Lists, AllOnce
<1>. SUFFICES Linked(e)' /\ ~Owned(e)'
  BY DEF Stray
<1>. DEFINE G == Linked(e)' /\ ~Owned(e)'
<1>b. ASSUME NEW t \in Threads, Others(t), table' \subseteq table,
             \A f : Takes(t, f)' => Owned(f), Linked(e)'
      PROVE  G
  BY <1>b, <1>0, OwnedFewer
<1>c. ASSUME NEW t \in Threads, NEW p, pc' = [pc EXCEPT ![t] = p],
             p \notin {"unlink", "unref", "drop"},
             table' \subseteq table, Linked(e)',
             cur' = cur \/ (\E x : cur' = [cur EXCEPT ![t] = x]),
             aux' = aux \/ (\E x : aux' = [aux EXCEPT ![t] = x])
      PROVE  G
  <2>1. Others(t) /\ pc'[t] = p
    BY <1>c, <1>t DEF Others, CacheTypeOK
  <2>2. \A f : ~Takes(t, f)'
    BY <1>c, <2>1 DEF Takes
  <2>. QED BY <1>b, <1>c, <2>1, <2>2
<1>1. ASSUME NEW t \in Threads, NEW k \in CacheIds, CacheLookup(t, k) PROVE G
  <2>1. Linked(e)'
    BY <1>0, <1>1, LinkedSame DEF CacheLookup
  <2>. QED BY <1>c, <1>1, <2>1 DEF CacheLookup, Goto
<1>2. ASSUME NEW t \in Threads, NEW k \in CacheIds, RemoveTxn(t, k) PROVE G
  <2>1. Linked(e)'
    BY <1>0, <1>2, LinkedSame DEF RemoveTxn
  <2>2. PICK f \in table : table' = table \ {f} /\ cur' = [cur EXCEPT ![t] = f]
                           /\ pc' = [pc EXCEPT ![t] = "unlink"] /\ aux' = aux
    BY <1>2 DEF RemoveTxn, Goto
  <2>3. Others(t) /\ cur'[t] = f /\ pc'[t] = "unlink"
    BY <2>2, <1>t DEF Others, CacheTypeOK
  <2>4. \A g : Takes(t, g)' => Owned(g)
    BY <2>2, <2>3, OwnedIs DEF Takes
  <2>. QED BY <1>b, <2>1, <2>2, <2>3, <2>4
<1>3. ASSUME NEW t \in Threads, NEW f \in CacheEntries, TryInsert(t, f) PROVE G
  <2>1. Linked(e)'
    BY <1>0, <1>3, LinkedSame DEF TryInsert
  <2>2. e # f
    BY <1>0, <1>3 DEF TryInsert, Fresh
  <2>3. Others(t) /\ pc'[t] \in {"late", "insert"} /\ table' \subseteq table \cup {f}
    BY <1>3, <1>t DEF TryInsert, Goto, Others, CacheTypeOK
  <2>4. ~Takes(t, e)'
    BY <2>3 DEF Takes
  <2>. QED BY <1>0, <2>1, <2>2, <2>3, <2>4, OwnedIs, OwnedIsNext, OthersTake
<1>4. ASSUME NEW t \in Threads, Update(t) PROVE G
  <2>1. Linked(e)'
    BY <1>0, <1>4, <1>a, <1>t, Having, PolicyLinks DEF Update
  <2>. QED BY <1>c, <1>4, <2>1 DEF Update, Goto
<1>5. ASSUME NEW t \in Threads, LateUpdate(t) PROVE G
  <2>1. Linked(e)'
    BY <1>0, <1>5, <1>a, <1>t, Having, PolicyLinks DEF LateUpdate
  <2>. QED BY <1>c, <1>5, <2>1 DEF LateUpdate, Goto
<1>6. ASSUME NEW t \in Threads, Insert(t) PROVE G
  <2>1. Linked(e)'
    BY <1>0, <1>6, <1>a, <1>t, Having, PolicyLinks DEF Insert
  <2>. QED BY <1>c, <1>6, <2>1 DEF Insert, Goto
<1>7. ASSUME NEW t \in Threads, Discard(t) PROVE G
  <2>1. Linked(e)'
    BY <1>0, <1>7, LinkedSame DEF Discard
  <2>. QED BY <1>c, <1>7, <2>1 DEF Discard, Goto
<1>8. ASSUME NEW t \in Threads, Count(t) PROVE G
  <2>1. Linked(e)'
    BY <1>0, <1>8, LinkedSame DEF Count
  <2>. QED BY <1>c, <1>8, <2>1 DEF Count, Goto
<1>9. ASSUME NEW t \in Threads, BeginReclaim(t) PROVE G
  <2>1. Linked(e)'
    BY <1>0, <1>9, LinkedSame DEF BeginReclaim
  <2>. QED BY <1>c, <1>9, <2>1 DEF BeginReclaim, Goto
<1>10. ASSUME NEW t \in Threads, PageOut(t) PROVE G
  <2>1. Linked(e)'
    BY <1>0, <1>10, PageLinks
  <2>2. UNCHANGED <<table, cur>>
    BY <1>10 DEF PageOut
  <2>3. pc' = [pc EXCEPT ![t] = "evict"] \/ pc' = [pc EXCEPT ![t] = "loop"]
    BY <1>10 DEF PageOut, Goto
  <2>4. \E x : aux' = [aux EXCEPT ![t] = x]
    BY <1>10 DEF PageOut
  <2>. QED BY <1>c, <2>1, <2>2, <2>3, <2>4
<1>11. ASSUME NEW t \in Threads, TakeAm(t) PROVE G
  <2>1. Linked(e)'
    BY <1>0, <1>11, LinkedSame DEF TakeAm
  <2>. QED BY <1>c, <1>11, <2>1 DEF TakeAm, Goto
<1>12. ASSUME NEW t \in Threads, StopReclaim(t) PROVE G
  <2>1. Linked(e)'
    BY <1>0, <1>12, LinkedSame DEF StopReclaim
  <2>. QED BY <1>c, <1>12, <2>1 DEF StopReclaim, EndReclaim, Goto
<1>13. ASSUME NEW t \in Threads, EntryReclaim(t) PROVE G
  <2>1. CASE aux[t] \in table
    <3>1. /\ queue' = Detached(aux[t]) /\ table' \subseteq table /\ UNCHANGED <<cur, aux>>
          /\ pc' = [pc EXCEPT ![t] = "drop"] /\ pc[t] = "evict"
      BY <1>13, <2>1 DEF EntryReclaim, Goto
    <3>2. aux[t] # e
      BY <1>0, <2>1, OwnedIs
    <3>3. Linked(e)'
      BY <1>0, <1>a, <1>t, <3>1, <3>2, DetachLinks
    <3>4. Others(t) /\ pc'[t] = "drop"
      BY <3>1, <1>t DEF Others, CacheTypeOK
    <3>5. \A g : Takes(t, g)' => Owned(g)
      BY <2>1, <3>1, <3>4, OwnedIs DEF Takes
    <3>. QED BY <1>b, <3>1, <3>3, <3>4, <3>5
  <2>2. CASE aux[t] \notin table
    <3>1. Linked(e)'
      BY <1>0, <1>13, <2>2, LinkedSame DEF EntryReclaim
    <3>. QED BY <1>c, <1>13, <2>2, <3>1 DEF EntryReclaim, EndReclaim, Goto
  <2>. QED BY <2>1, <2>2
<1>14. ASSUME NEW t \in Threads, Drop(t) PROVE G
  <2>1. Linked(e)'
    BY <1>0, <1>14, LinkedSame DEF Drop
  <2>. QED BY <1>c, <1>14, <2>1 DEF Drop, Goto
<1>15. ASSUME NEW t \in Threads, UnlinkLru(t) PROVE G
  <2>1. /\ queue' = Detached(cur[t]) /\ UNCHANGED <<table, cur, aux>>
        /\ pc' = [pc EXCEPT ![t] = "unref"] /\ pc[t] = "unlink"
    BY <1>15 DEF UnlinkLru, Goto
  <2>2. Takes(t, cur[t])
    BY <2>1 DEF Takes
  <2>3. Linked(e)'
    BY <1>0, <1>a, <1>t, <2>1, <2>2, OwnedIs, DetachLinks
  <2>4. Others(t) /\ pc'[t] = "unref"
    BY <2>1, <1>t DEF Others, CacheTypeOK
  <2>5. \A g : Takes(t, g)' => Takes(t, g)
    BY <2>1, <2>4 DEF Takes
  <2>. QED BY <1>b, <2>1, <2>3, <2>4, <2>5, OwnedIs
<1>16. ASSUME NEW t \in Threads, Unref(t) PROVE G
  <2>1. Linked(e)'
    BY <1>0, <1>16, LinkedSame DEF Unref
  <2>. QED BY <1>c, <1>16, <2>1 DEF Unref, Goto
<1>17. ASSUME NEW t \in Threads, Mark(t) PROVE G
  <2>1. Linked(e)'
    BY <1>0, <1>17, LinkedSame DEF Mark
  <2>. QED BY <1>c, <1>17, <2>1 DEF Mark, Goto
<1>18. ASSUME NEW t \in Threads, GiveBack(t) PROVE G
  <2>1. Linked(e)'
    BY <1>0, <1>18, LinkedSame DEF GiveBack
  <2>. QED BY <1>c, <1>18, <2>1 DEF GiveBack, Goto
<1>19. ASSUME CacheFree \/ Destroy PROVE G
  BY <1>19 DEF CacheFree, Destroy
<1>. QED
  BY <1>1, <1>2, <1>3, <1>4, <1>5, <1>6, <1>7, <1>8, <1>9, <1>10, <1>11, <1>12,
     <1>13, <1>14, <1>15, <1>16, <1>17, <1>18, <1>19 DEF CacheNext, Step

-----------------------------------------------------------------------------
(* The counts.                                                             *)

\* The entry f is to the thread t what it was.
SameRole(t, f) ==
  /\ (cur'[t] = f) <=> (cur[t] = f)
  /\ Takes(t, f)' <=> Takes(t, f)
  /\ (pc'[t] = "late" /\ aux'[t] = f) <=> (pc[t] = "late" /\ aux[t] = f)
  /\ (pc'[t] \in Making /\ cur'[t] = f) <=> (pc[t] \in Making /\ cur[t] = f)

\* The references to one entry.
Ref(e) ==
  state[e] # "NONE" /\ ~Late(e) =>
    /\ refs[e] = Bit(Owned(e)) + Cardinality(Users(e)) + Bit(Unended(e))
    /\ e \in freed <=> refs[e] = 0

LEMMA UsersCount ==
  \A e : IsFiniteSet(Users(e)) /\ Cardinality(Users(e)) \in Nat
<1>. TAKE e
<1>1. Users(e) \subseteq Threads /\ IsFiniteSet(Threads)
  BY CacheAssumption DEF Users
<1>. QED BY <1>1, FS_Subset, FS_CardinalityType

\* A thread is given e, or gives it back.
LEMMA UsersStep ==
  ASSUME NEW t \in Threads, Others(t), NEW e
  PROVE  /\ (cur'[t] = e <=> cur[t] = e) => Users(e)' = Users(e)
         /\ cur'[t] = e /\ cur[t] # e =>
              Cardinality(Users(e)') = Cardinality(Users(e)) + 1
         /\ cur'[t] # e /\ cur[t] = e =>
              Cardinality(Users(e)') = Cardinality(Users(e)) - 1
<1>1. ASSUME cur'[t] = e <=> cur[t] = e PROVE Users(e)' = Users(e)
  BY <1>1 DEF Others, Users
<1>2. ASSUME cur'[t] = e, cur[t] # e
      PROVE  Cardinality(Users(e)') = Cardinality(Users(e)) + 1
  <2>1. Users(e)' = Users(e) \cup {t} /\ t \notin Users(e)
    BY <1>2 DEF Others, Users
  <2>2. Cardinality(Users(e) \cup {t}) = Cardinality(Users(e)) + 1
    BY <2>1, UsersCount, FS_AddElement
  <2>. QED BY <2>1, <2>2
<1>3. ASSUME cur'[t] # e, cur[t] = e
      PROVE  Cardinality(Users(e)') = Cardinality(Users(e)) - 1
  <2>1. Users(e)' = Users(e) \ {t} /\ t \in Users(e)
    BY <1>3 DEF Others, Users
  <2>2. Cardinality(Users(e) \ {t}) = Cardinality(Users(e)) - 1
    BY <2>1, UsersCount, FS_RemoveElement
  <2>. QED BY <2>1, <2>2
<1>. QED BY <1>1, <1>2, <1>3

\* A thread with e is one, and two threads are two.
LEMMA UsersMany ==
  ASSUME NEW t \in Threads, NEW e, cur[t] = e
  PROVE  /\ Cardinality(Users(e)) >= 1
         /\ \A u \in Threads : u # t /\ cur[u] = e => Cardinality(Users(e)) >= 2
<1>1. t \in Users(e)
  BY DEF Users
<1>2. Cardinality(Users(e) \ {t}) = Cardinality(Users(e)) - 1
      /\ IsFiniteSet(Users(e) \ {t})
  BY <1>1, UsersCount, FS_RemoveElement
<1>3. Cardinality(Users(e) \ {t}) \in Nat
  BY <1>2, FS_CardinalityType
<1>4. ASSUME NEW u \in Threads, u # t, cur[u] = e PROVE Cardinality(Users(e)) >= 2
  <2>1. u \in Users(e) \ {t}
    BY <1>4 DEF Users
  <2>2. Cardinality(Users(e) \ {t}) # 0
    BY <1>2, <2>1, FS_EmptySet
  <2>. QED BY <1>2, <1>3, <2>2, UsersCount
<1>. QED BY <1>2, <1>3, <1>4, UsersCount

LEMMA SameRef ==
  ASSUME NEW t \in Threads, Others(t), policy' = policy, NEW f \in CacheEntries,
         SameRole(t, f), f \in table' <=> f \in table, f \in freed' <=> f \in freed,
         refs'[f] = refs[f], (state'[f] = "NONE") <=> (state[f] = "NONE")
  PROVE  /\ Ref(f) => Ref(f)'
         /\ f \in InUse' <=> f \in InUse
         /\ Owned(f)' <=> Owned(f)
         /\ Late(f)' <=> Late(f)
<1>1. Owned(f)' <=> Owned(f)
  BY OwnedIs, OwnedIsNext, OthersTake DEF SameRole
<1>2. Late(f)' <=> Late(f)
  BY DEF SameRole, Late, Others
<1>3. Unended(f)' <=> Unended(f)
  <2>1. \A u \in Threads : Creating(u, f)' <=> Creating(u, f)
    BY DEF SameRole, Creating, Making, Others
  <2>. QED BY <2>1 DEF Unended
<1>4. Users(f)' = Users(f)
  BY UsersStep DEF SameRole
<1>5. f \in InUse' <=> f \in InUse
  <2>1. (\A u \in Threads : pc'[u] \in Making => cur'[u] # f)
          <=> (\A u \in Threads : pc[u] \in Making => cur[u] # f)
    BY DEF SameRole, Others
  <2>. QED BY <1>2, <2>1 DEF InUse
<1>6. ASSUME Ref(f) PROVE Ref(f)'
  BY <1>1, <1>2, <1>3, <1>4, <1>6 DEF Ref, Bit
<1>. QED BY <1>1, <1>2, <1>5, <1>6

LEMMA ReferredIs == Referred <=> \A e \in CacheEntries : Ref(e)
BY DEF Referred, Ref

LEMMA ReferredIsNext == Referred' <=> \A e \in CacheEntries : Ref(e)'
BY DEF Referred, Ref

\* Nothing is counted.
LEMMA QuietRefs ==
  ASSUME NEW t \in Threads, Others(t), policy' = policy,
         \A f \in CacheEntries : SameRole(t, f),
         \A f \in CacheEntries : (state'[f] = "NONE") <=> (state[f] = "NONE"),
         UNCHANGED <<table, refs, usage, freed>>, Referred, UsageCounts
  PROVE  Referred' /\ UsageCounts'
<1>1. \A f \in CacheEntries : (Ref(f) => Ref(f)') /\ (f \in InUse' <=> f \in InUse)
  BY SameRef
<1>2. InUse' = InUse
  BY <1>1 DEF InUse
<1>. QED BY <1>1, <1>2, ReferredIs, ReferredIsNext DEF UsageCounts

\* Only e may be counted.
LEMMA CountRefs ==
  ASSUME NEW t \in Threads, Others(t), policy' = policy, NEW e \in CacheEntries,
         \A f \in CacheEntries \ {e} :
           /\ SameRole(t, f) /\ (f \in table' <=> f \in table)
           /\ (f \in freed' <=> f \in freed) /\ refs'[f] = refs[f]
           /\ (state'[f] = "NONE") <=> (state[f] = "NONE"),
         Referred, Ref(e)'
  PROVE  Referred' /\ InUse' \ {e} = InUse \ {e}
<1>1. \A f \in CacheEntries \ {e} : (Ref(f) => Ref(f)') /\ (f \in InUse' <=> f \in InUse)
  BY SameRef
<1>2. InUse' \ {e} = InUse \ {e}
  BY <1>1 DEF InUse
<1>. QED BY <1>1, <1>2, ReferredIs, ReferredIsNext

LEMMA CountUsage ==
  ASSUME NEW e \in CacheEntries, InUse' \ {e} = InUse \ {e}, UsageCounts,
         usage \in 0 .. MaxUint,
         \/ (e \in InUse' <=> e \in InUse) /\ usage' = usage
         \/ e \in InUse' /\ e \notin InUse /\ usage' = Inc(usage)
         \/ e \notin InUse' /\ e \in InUse /\ usage' = Dec(usage)
  PROVE  UsageCounts'
<1>1. InUse \subseteq CacheEntries /\ InUse' \subseteq CacheEntries
  BY DEF InUse
<1>2. /\ IsFiniteSet(InUse) /\ IsFiniteSet(InUse')
      /\ Cardinality(InUse) \in Nat /\ Cardinality(InUse') \in Nat
      /\ Cardinality(InUse') <= MaxUint
  <2>1. /\ IsFiniteSet(InUse) /\ IsFiniteSet(InUse')
        /\ Cardinality(InUse') <= Cardinality(CacheEntries)
    BY <1>1, CacheAssumption, FS_Subset
  <2>. QED BY <2>1, CacheAssumption, FS_CardinalityType
<1>3. CASE (e \in InUse' <=> e \in InUse) /\ usage' = usage
  <2>1. InUse' = InUse
    BY <1>3
  <2>. QED BY <2>1, <1>3 DEF UsageCounts
<1>4. CASE e \in InUse' /\ e \notin InUse /\ usage' = Inc(usage)
  <2>1. InUse' = InUse \cup {e}
    BY <1>4
  <2>2. Cardinality(InUse \cup {e}) = Cardinality(InUse) + 1
    BY <1>2, <1>4, FS_AddElement
  <2>3. usage < MaxUint
    BY <1>2, <2>1, <2>2, CacheAssumption DEF UsageCounts
  <2>4. Inc(usage) = usage + 1
    BY <2>3, IncDec
  <2>. QED BY <1>4, <2>1, <2>2, <2>4 DEF UsageCounts
<1>5. CASE e \notin InUse' /\ e \in InUse /\ usage' = Dec(usage)
  <2>1. InUse' = InUse \ {e}
    BY <1>5
  <2>2. Cardinality(InUse \ {e}) = Cardinality(InUse) - 1
    BY <1>2, <1>5, FS_RemoveElement
  <2>3. usage > 0
    BY <1>2, <2>1, <2>2 DEF UsageCounts
  <2>4. Dec(usage) = usage - 1
    BY <2>3, IncDec
  <2>. QED BY <1>5, <2>1, <2>2, <2>4 DEF UsageCounts
<1>. QED BY <1>3, <1>4, <1>5

-----------------------------------------------------------------------------
(* The threads with the entries they make and take out, and the lists.     *)

LEMMA AloneStep ==
  ASSUME NEW t \in Threads, Others(t), LateAlone,
         pc'[t] \notin {"late", "discard"},
         \A u \in Threads \ {t} : pc[u] = "late" =>
           /\ state'[aux[u]] = state[aux[u]]
           /\ aux[u] \notin table' /\ aux[u] \notin freed'
           /\ cur'[t] # aux[u] /\ aux'[t] # aux[u]
  PROVE  LateAlone'
BY DEF Others, LateAlone

LEMMA OneEachStep ==
  ASSUME NEW t \in Threads, Others(t), OneEach, policy' = policy,
         pc'[t] \in Making => pc[t] \in Making /\ cur'[t] = cur[t],
         pc'[t] \in Taking => pc[t] \in Taking /\ cur'[t] = cur[t],
         table' \subseteq table, pc'[t] = "drop" => aux'[t] \notin table',
         \A u \in Threads : policy = "LRU" /\ pc[u] \in Making => cur[u] \in table'
  PROVE  OneEach'
<1>1. /\ \A u, v \in Threads :
           pc[u] \in Making /\ pc[v] \in Making /\ cur[u] = cur[v] => u = v
      /\ \A u, v \in Threads :
           pc[u] \in Taking /\ pc[v] \in Taking /\ cur[u] = cur[v] => u = v
      /\ \A u \in Threads : pc[u] = "drop" => aux[u] \notin table
  BY DEF OneEach
<1>2. \A u \in Threads : pc'[u] \in Making => pc[u] \in Making /\ cur'[u] = cur[u]
  BY DEF Others
<1>3. \A u \in Threads : pc'[u] \in Taking => pc[u] \in Taking /\ cur'[u] = cur[u]
  BY DEF Others
<1>4. \A u \in Threads : pc'[u] = "drop" => aux'[u] \notin table'
  BY <1>1 DEF Others
<1>5. /\ \A u, v \in Threads :
           pc'[u] \in Making /\ pc'[v] \in Making /\ cur'[u] = cur'[v] => u = v
      /\ \A u, v \in Threads :
           pc'[u] \in Taking /\ pc'[v] \in Taking /\ cur'[u] = cur'[v] => u = v
      /\ \A u \in Threads : policy' = "LRU" /\ pc'[u] \in Making => cur'[u] \in table'
  BY <1>1, <1>2, <1>3
<1>. QED BY <1>4, <1>5 DEF OneEach

\* The lists and their sizes stay as they are.
LEMMA QueuedStep ==
  ASSUME NEW t \in Threads, Others(t), CacheTypeOK, Queued, UNCHANGED <<queue, size>>,
         pc[t] \notin {"evict", "insert"}, pc'[t] # "evict",
         \A f \in table' \ table : state'[f] = "NEW" /\ pc'[t] = "insert" /\ cur'[t] = f,
         \A f \in CacheEntries :
           Linked(f) \/ f \in table \/ (\E u \in Threads : pc[u] = "evict" /\ aux[u] = f)
             => state'[f] = state[f],
         \A u \in Threads : pc[u] = "evict" => aux[u] \in CacheEntries
  PROVE  Queued'
<1>1. \A n \in Queues : \A e \in InQueue(n) : e \in CacheEntries /\ Linked(e)
  <2>. SUFFICES ASSUME NEW n \in Queues, NEW e \in InQueue(n)
                PROVE  e \in CacheEntries /\ Linked(e)
    OBVIOUS
  <2>1. queue[n] \in Seq(CacheEntries)
    BY DEF CacheTypeOK
  <2>. QED BY <2>1, LinkedIs DEF InQueue, Range
<1>2. \A n \in Queues : \A e \in InQueue(n)' : state'[e] = n
  <2>1. \A n : InQueue(n)' = InQueue(n)
    BY DEF InQueue
  <2>. QED BY <1>1, <2>1 DEF Queued
<1>3. \A n \in Sized : Evicting(n)' <=> Evicting(n)
  <2>1. \A u \in Threads : (pc'[u] = "evict") <=> (pc[u] = "evict")
    BY DEF Others
  <2>2. \A u \in Threads : pc[u] = "evict" => aux'[u] = aux[u]
    BY DEF Others
  <2>3. \A u \in Threads : pc[u] = "evict" => state'[aux[u]] = state[aux[u]]
    OBVIOUS
  <2>4. \A n \in Sized : Evicting(n)' <=> \E u \in Threads : pc'[u] = "evict" /\ state'[aux'[u]] = n
    BY DEF Evicting
  <2>. QED BY <2>1, <2>2, <2>3, <2>4 DEF Evicting
<1>4. \A n \in Sized : size'[n] + Bit(Evicting(n)') = Len(queue'[n])
  BY <1>3 DEF Queued, Bit
<1>5. ASSUME NEW e \in table'
      PROVE  \/ Linked(e)'
             \/ state'[e] = "NEW" /\ \E u \in Threads : pc'[u] = "insert" /\ cur'[u] = e
  <2>1. CASE e \notin table
    BY <1>5, <2>1
  <2>2. CASE e \in table
    <3>1. e \in CacheEntries /\ state'[e] = state[e]
      BY <2>2 DEF CacheTypeOK
    <3>2. Linked(e)' <=> Linked(e)
      BY LinkedSame
    <3>3. \A u \in Threads : pc[u] = "insert" => pc'[u] = "insert" /\ cur'[u] = cur[u]
      BY DEF Others
    <3>. QED BY <2>2, <3>1, <3>2, <3>3 DEF Queued
  <2>. QED BY <2>1, <2>2
<1>. QED BY <1>2, <1>4, <1>5 DEF Queued

-----------------------------------------------------------------------------
(* What each step does to the exact state.                                 *)

Given == Control /\ Fresh /\ Lists /\ ~closing /\ ~Stray /\ Exact

LEMMA GivenIs ==
  ASSUME Given
  PROVE  /\ Control /\ CacheTypeOK /\ Fresh /\ AllOnce /\ LruLists /\ Q2Lists
         /\ LateAlone /\ OneEach /\ Referred /\ UsageCounts /\ Queued
         /\ \A u \in Threads : pc[u] = "evict" => aux[u] \in CacheEntries
         /\ usage \in 0 .. MaxUint
BY Having DEF Given, Control, CacheTypeOK, Lists, AllOnce, Exact

LEMMA RefOf ==
  ASSUME Referred, NEW e \in CacheEntries, state[e] # "NONE", ~Late(e)
  PROVE  /\ refs[e] = Bit(Owned(e)) + Cardinality(Users(e)) + Bit(Unended(e))
         /\ e \in freed <=> refs[e] = 0
         /\ Cardinality(Users(e)) \in Nat
BY UsersCount DEF Referred

\* Nobody's entry came too late.
LEMMA NotLate ==
  ASSUME LateAlone, NEW e
  PROVE  /\ e \in table => ~Late(e)
         /\ (\E u \in Threads : cur[u] = e) => ~Late(e)
BY DEF LateAlone, Late

\* A thread moves on and nothing else changes.
LEMMA QuietExact ==
  ASSUME Given, NEW t \in Threads, NEW p,
         policy' = policy, pc' = [pc EXCEPT ![t] = p],
         UNCHANGED <<table, refs, state, queue, size, usage, freed, cur>>,
         aux'[t] = aux[t], \A u \in Threads \ {t} : aux'[u] = aux[u],
         pc[t] \in {"idle", "update", "reclaim", "loop"},
         p \in {"alloc", "loop", "using"}
  PROVE  Exact'
<1>1. /\ Control /\ CacheTypeOK /\ LateAlone /\ OneEach /\ Referred /\ UsageCounts /\ Queued
      /\ \A u \in Threads : pc[u] = "evict" => aux[u] \in CacheEntries
  BY GivenIs
<1>2. Others(t) /\ pc'[t] = p /\ cur'[t] = cur[t]
  BY <1>1 DEF Others, CacheTypeOK
<1>3. \A f \in CacheEntries : SameRole(t, f)
  BY <1>2 DEF SameRole, Takes, Making
<1>4. Referred' /\ UsageCounts'
  BY <1>1, <1>2, <1>3, QuietRefs
<1>5. aux[t] = None
  BY <1>1 DEF Control
<1>6. LateAlone'
  <2>1. \A u \in Threads : pc[u] = "late" => aux[u] # None
    BY <1>1 DEF Control
  <2>. QED BY <1>1, <1>2, <1>5, <2>1, AloneStep DEF LateAlone
<1>7. OneEach'
  BY <1>1, <1>2, OneEachStep DEF OneEach, Making, Taking
<1>8. Queued'
  BY <1>1, <1>2, QueuedStep
<1>. QED BY <1>4, <1>6, <1>7, <1>8 DEF Exact

\* An entry of the table is found.
LEMMA FoundExact ==
  ASSUME Given, NEW t \in Threads, NEW e \in table, policy' = policy,
         pc[t] = "idle", refs' = [refs EXCEPT ![e] = @ + 1],
         cur' = [cur EXCEPT ![t] = e], pc' = [pc EXCEPT ![t] = "update"],
         UNCHANGED <<table, state, queue, size, usage, freed, aux>>
  PROVE  Exact'
<1>1. /\ Control /\ CacheTypeOK /\ LateAlone /\ OneEach /\ Referred /\ UsageCounts /\ Queued
      /\ Fresh /\ usage \in 0 .. MaxUint
      /\ \A u \in Threads : pc[u] = "evict" => aux[u] \in CacheEntries
  BY GivenIs
<1>2. Others(t) /\ pc'[t] = "update" /\ cur'[t] = e /\ e \in CacheEntries
  BY <1>1 DEF Others, CacheTypeOK
<1>3. cur[t] = None /\ None \notin CacheEntries /\ aux[t] = None
  BY <1>1, CacheAssumption DEF Control
<1>4. \A f \in CacheEntries \ {e} : SameRole(t, f)
  BY <1>2, <1>3 DEF SameRole, Takes, Making
<1>5. /\ state[e] # "NONE" /\ Owned(e) /\ ~Late(e)
  BY <1>1, OwnedIs, NotLate DEF Fresh, CacheTypeOK
<1>6. /\ Owned(e)' /\ ~Late(e)' /\ (Unended(e)' <=> Unended(e))
  <2>1. Owned(e)'
    BY OwnedIsNext
  <2>2. ~Late(e)'
    BY <1>2, <1>5 DEF Late, Others
  <2>3. \A u \in Threads : Creating(u, e)' <=> Creating(u, e)
    BY <1>2, <1>3 DEF Creating, Others
  <2>. QED BY <2>1, <2>2, <2>3 DEF Unended
<1>7. Cardinality(Users(e)') = Cardinality(Users(e)) + 1
  BY <1>2, <1>3, UsersStep
<1>8. Ref(e)'
  <2>1. refs'[e] = refs[e] + 1
    BY <1>1, <1>2 DEF CacheTypeOK
  <2>. QED BY <1>1, <1>2, <1>5, <1>6, <1>7, <2>1, RefOf DEF Ref, Bit
<1>9. Referred' /\ InUse' \ {e} = InUse \ {e}
  <2>1. \A f \in CacheEntries \ {e} : refs'[f] = refs[f]
    BY <1>1 DEF CacheTypeOK
  <2>. QED BY <1>1, <1>2, <1>4, <1>8, <2>1, CountRefs
<1>10. UsageCounts'
  <2>1. e \in InUse' <=> e \in InUse
    <3>1. \A u \in Threads : (pc'[u] \in Making /\ cur'[u] = e) <=> (pc[u] \in Making /\ cur[u] = e)
      BY <1>2, <1>3 DEF Others, Making
    <3>. QED BY <1>5, <1>6, <3>1 DEF InUse
  <2>. QED BY <1>1, <1>2, <1>9, <2>1, CountUsage
<1>11. LateAlone'
  <2>1. \A u \in Threads : pc[u] = "late" => aux[u] # None
    BY <1>1 DEF Control
  <2>. QED BY <1>1, <1>2, <1>3, <2>1, AloneStep DEF LateAlone
<1>12. OneEach'
  BY <1>1, <1>2, OneEachStep DEF OneEach, Making, Taking
<1>13. Queued'
  BY <1>1, <1>2, QueuedStep
<1>. QED BY <1>9, <1>10, <1>11, <1>12, <1>13 DEF Exact

LEMMA RemoveExact ==
  ASSUME Given, NEW t \in Threads, NEW k, RemoveTxn(t, k), policy' = policy
  PROVE  Exact'
<1>1. /\ Control /\ CacheTypeOK /\ LateAlone /\ OneEach /\ Referred /\ UsageCounts /\ Queued
      /\ Fresh /\ LruLists /\ usage \in 0 .. MaxUint
      /\ \A u \in Threads : pc[u] = "evict" => aux[u] \in CacheEntries
  BY GivenIs
<1>0. PICK e \in table : Oid[policy][e] = k /\ table' = table \ {e} /\ cur' = [cur EXCEPT ![t] = e]
  BY DEF RemoveTxn
<1>a. /\ pc[t] = "idle" /\ policy = "LRU" /\ Known(k)
      /\ pc' = [pc EXCEPT ![t] = "unlink"]
      /\ UNCHANGED <<refs, state, queue, size, usage, freed, aux>>
  BY DEF RemoveTxn, Goto
<1>2. Others(t) /\ pc'[t] = "unlink" /\ cur'[t] = e /\ e \in CacheEntries /\ aux'[t] = aux[t]
  BY <1>0, <1>1, <1>a DEF Others, CacheTypeOK
<1>3. cur[t] = None /\ None \notin CacheEntries /\ aux[t] = None
  BY <1>1, <1>a, CacheAssumption DEF Control
<1>4. \A f \in CacheEntries \ {e} : SameRole(t, f)
  BY <1>2, <1>3, <1>a DEF SameRole, Takes, Making
<1>5. /\ state[e] # "NONE" /\ Owned(e) /\ ~Late(e) /\ Unended(e)
  <2>1. \A u \in Threads : ~Creating(u, e)
    BY <1>0, <1>2, <1>a DEF Known
  <2>. QED BY <1>0, <1>1, <1>a, <1>2, <2>1, OwnedIs, NotLate DEF Fresh, Unended
<1>6. /\ Owned(e)' /\ ~Late(e)' /\ ~Unended(e)'
  <2>1. Takes(t, e)'
    BY <1>2 DEF Takes
  <2>2. ~Late(e)'
    BY <1>2, <1>5 DEF Late, Others
  <2>. QED BY <1>0, <2>1, <2>2, OwnedIsNext DEF Unended
<1>7. Cardinality(Users(e)') = Cardinality(Users(e)) + 1
  BY <1>2, <1>3, UsersStep
<1>8. Ref(e)'
  BY <1>1, <1>2, <1>5, <1>6, <1>7, <1>a, RefOf DEF Ref, Bit
<1>9. Referred' /\ InUse' \ {e} = InUse \ {e}
  BY <1>0, <1>1, <1>2, <1>4, <1>8, <1>a, CountRefs
<1>10. UsageCounts'
  <2>1. e \in InUse' <=> e \in InUse
    <3>1. \A u \in Threads : (pc'[u] \in Making /\ cur'[u] = e) <=> (pc[u] \in Making /\ cur[u] = e)
      BY <1>2, <1>3 DEF Others, Making
    <3>. QED BY <1>a, <1>5, <1>6, <3>1 DEF InUse
  <2>. QED BY <1>1, <1>2, <1>9, <1>a, <2>1, CountUsage
<1>11. LateAlone'
  <2>1. \A u \in Threads : pc[u] = "late" => aux[u] # None
    BY <1>1 DEF Control
  <2>. QED BY <1>0, <1>1, <1>2, <1>3, <1>a, <2>1, AloneStep DEF LateAlone
<1>12. OneEach'
  <2>1. \A u \in Threads : pc[u] \in Taking => cur[u] \notin table
    BY <1>1, <1>a DEF LruLists, Taking
  <2>2. \A u \in Threads : pc[u] \in Making => cur[u] \in table /\ cur[u] # e
    BY <1>0, <1>1, <1>2, <1>a DEF OneEach, Known, Creating, Making
  <2>3. \A u \in Threads : pc'[u] \in Making => pc[u] \in Making /\ cur'[u] = cur[u]
    BY <1>2 DEF Others, Making
  <2>4. \A u \in Threads : pc'[u] \in Taking => u = t \/ (pc[u] \in Taking /\ cur'[u] = cur[u])
    BY <1>2 DEF Others
  <2>5. \A u \in Threads : pc'[u] # "drop"
    BY <1>1, <1>2, <1>a DEF Control, Others
  <2>6. \A u, v \in Threads : pc'[u] \in Making /\ pc'[v] \in Making /\ cur'[u] = cur'[v] => u = v
    BY <1>1, <2>3 DEF OneEach
  <2>7. \A u, v \in Threads : pc'[u] \in Taking /\ pc'[v] \in Taking /\ cur'[u] = cur'[v] => u = v
    BY <1>0, <1>1, <1>2, <2>1, <2>4 DEF OneEach
  <2>8. \A u \in Threads : pc'[u] \in Making => cur'[u] \in table'
    BY <1>0, <2>2, <2>3
  <2>. QED BY <2>5, <2>6, <2>7, <2>8 DEF OneEach
<1>13. Queued'
  BY <1>0, <1>1, <1>2, <1>a, QueuedStep
<1>. QED BY <1>9, <1>10, <1>11, <1>12, <1>13 DEF Exact

\* An entry of the table has the id of the new one, which is late.
LEMMA LateExact ==
  ASSUME Given, NEW t \in Threads, NEW e \in CacheEntries, NEW old \in table,
         policy' = policy, pc[t] \in {"idle", "alloc"}, state[e] = "NONE",
         state' = [state EXCEPT ![e] = "NEW"],
         refs' = [refs EXCEPT ![e] = 1, ![old] = @ + 1],
         cur' = [cur EXCEPT ![t] = old], aux' = [aux EXCEPT ![t] = e],
         pc' = [pc EXCEPT ![t] = "late"],
         UNCHANGED <<table, queue, size, usage, freed>>
  PROVE  Exact'
<1>1. /\ Control /\ CacheTypeOK /\ LateAlone /\ OneEach /\ Referred /\ UsageCounts /\ Queued
      /\ Fresh /\ usage \in 0 .. MaxUint
      /\ \A u \in Threads : pc[u] = "evict" => aux[u] \in CacheEntries
  BY GivenIs
<1>2. Others(t) /\ pc'[t] = "late" /\ cur'[t] = old /\ aux'[t] = e /\ old \in CacheEntries
  BY <1>1 DEF Others, CacheTypeOK
<1>3. cur[t] = None /\ None \notin CacheEntries /\ aux[t] = None
  BY <1>1, CacheAssumption DEF Control
<1>4. /\ e \notin table /\ e \notin freed /\ ~Linked(e) /\ old # e
      /\ \A u \in Threads : cur[u] # e /\ aux[u] # e
  BY <1>1 DEF Fresh
<1>5. \A f \in CacheEntries : state'[f] = IF f = e THEN "NEW" ELSE state[f]
  BY <1>1 DEF CacheTypeOK
<1>6. \A f \in CacheEntries : refs'[f] = IF f = old THEN refs[f] + 1 ELSE IF f = e THEN 1 ELSE refs[f]
  BY <1>1, <1>4 DEF CacheTypeOK
<1>7. state[old] # "NONE" /\ Owned(old) /\ ~Late(old)
  BY <1>1, <1>2, OwnedIs, NotLate DEF Fresh
<1>8. Owned(old)' /\ ~Late(old)' /\ (Unended(old)' <=> Unended(old))
  <2>1. Owned(old)'
    BY OwnedIsNext
  <2>2. ~Late(old)'
    BY <1>2, <1>4, <1>7 DEF Late, Others
  <2>3. \A u \in Threads : Creating(u, old)' <=> Creating(u, old)
    BY <1>2, <1>3 DEF Creating, Others
  <2>. QED BY <2>1, <2>2, <2>3 DEF Unended
<1>9. Cardinality(Users(old)') = Cardinality(Users(old)) + 1
  BY <1>2, <1>3, UsersStep
<1>10. Ref(old)'
  <2>1. /\ refs[old] = Bit(Owned(old)) + Cardinality(Users(old)) + Bit(Unended(old))
        /\ old \in freed <=> refs[old] = 0
        /\ Cardinality(Users(old)) \in Nat
    BY <1>1, <1>2, <1>7, RefOf
  <2>2. refs'[old] = refs[old] + 1
    BY <1>2, <1>6
  <2>. QED BY <1>7, <1>8, <1>9, <2>1, <2>2 DEF Ref, Bit
<1>11. Late(e)'
  BY <1>2 DEF Late
<1>12. Ref(e)'
  BY <1>11 DEF Ref
<1>13. ASSUME NEW f \in CacheEntries, f # e, f # old
       PROVE  (Ref(f) => Ref(f)') /\ (f \in InUse' <=> f \in InUse)
  <2>1. SameRole(t, f)
    BY <1>2, <1>3, <1>13 DEF SameRole, Takes, Making
  <2>. QED BY <1>2, <1>5, <1>6, <1>13, <2>1, SameRef
<1>14. Referred'
  BY <1>1, <1>10, <1>12, <1>13, ReferredIs, ReferredIsNext
<1>15. e \notin InUse' /\ e \notin InUse
  BY <1>11 DEF InUse
<1>16. old \in InUse' <=> old \in InUse
  <2>1. \A u \in Threads : (pc'[u] \in Making /\ cur'[u] = old) <=> (pc[u] \in Making /\ cur[u] = old)
    BY <1>2, <1>3 DEF Others, Making
  <2>. QED BY <1>4, <1>5, <1>7, <1>8, <2>1 DEF InUse
<1>17. UsageCounts'
  <2>1. InUse' = InUse
    BY <1>13, <1>15, <1>16 DEF InUse
  <2>. QED BY <1>1, <2>1 DEF UsageCounts
<1>18. LateAlone'
  <2>1. ASSUME NEW u \in Threads, u # t, pc[u] = "late"
        PROVE  /\ state[aux[u]] = "NEW" /\ aux[u] \notin table /\ aux[u] \notin freed
               /\ aux[u] # e /\ aux[u] # old /\ aux[u] \in CacheEntries
               /\ \A v \in Threads : cur[v] # aux[u] /\ (v # u => aux[v] # aux[u])
    BY <1>1, <1>4, <2>1, Having DEF LateAlone
  <2>2. ASSUME NEW u \in Threads, u # t, pc'[u] = "late"
        PROVE  /\ state'[aux'[u]] = "NEW" /\ aux'[u] \notin table' /\ aux'[u] \notin freed'
               /\ \A v \in Threads : cur'[v] # aux'[u] /\ (v # u => aux'[v] # aux'[u])
    <3>1. pc[u] = "late" /\ aux'[u] = aux[u]
      BY <1>2, <2>2 DEF Others
    <3>2. \A v \in Threads : cur'[v] # aux[u] /\ (v # u => aux'[v] # aux[u])
      BY <1>2, <2>1, <2>2, <3>1 DEF Others
    <3>. QED BY <1>5, <2>1, <2>2, <3>1, <3>2
  <2>3. /\ state'[e] = "NEW" /\ e \notin table' /\ e \notin freed'
        /\ \A v \in Threads : cur'[v] # e /\ (v # t => aux'[v] # e)
    BY <1>2, <1>4, <1>5 DEF Others
  <2>4. \A u \in Threads : pc'[u] # "discard"
    BY <1>1, <1>2 DEF Others, LateAlone
  <2>. QED BY <1>2, <2>2, <2>3, <2>4 DEF LateAlone
<1>19. OneEach'
  BY <1>1, <1>2, OneEachStep DEF OneEach, Making, Taking
<1>20. Queued'
  <2>1. \A f \in CacheEntries :
          Linked(f) \/ f \in table \/ (\E u \in Threads : pc[u] = "evict" /\ aux[u] = f)
            => state'[f] = state[f]
    BY <1>4, <1>5
  <2>. QED BY <1>1, <1>2, <2>1, QueuedStep
<1>. QED BY <1>14, <1>17, <1>18, <1>19, <1>20 DEF Exact

\* The new entry is put in the table.
LEMMA NewExact ==
  ASSUME Given, NEW t \in Threads, NEW e \in CacheEntries,
         policy' = policy, pc[t] \in {"idle", "alloc"}, state[e] = "NONE",
         state' = [state EXCEPT ![e] = "NEW"], refs' = [refs EXCEPT ![e] = 2],
         table' = table \cup {e}, cur' = [cur EXCEPT ![t] = e],
         pc' = [pc EXCEPT ![t] = "insert"],
         UNCHANGED <<queue, size, usage, freed, aux>>
  PROVE  Exact'
<1>1. /\ Control /\ CacheTypeOK /\ LateAlone /\ OneEach /\ Referred /\ UsageCounts /\ Queued
      /\ Fresh /\ usage \in 0 .. MaxUint
      /\ \A u \in Threads : pc[u] = "evict" => aux[u] \in CacheEntries
  BY GivenIs
<1>2. Others(t) /\ pc'[t] = "insert" /\ cur'[t] = e /\ aux'[t] = aux[t]
  BY <1>1 DEF Others, CacheTypeOK
<1>3. cur[t] = None /\ None \notin CacheEntries /\ aux[t] = None
  BY <1>1, CacheAssumption DEF Control
<1>4. /\ e \notin table /\ e \notin freed /\ ~Linked(e)
      /\ \A u \in Threads : cur[u] # e /\ aux[u] # e
  BY <1>1 DEF Fresh
<1>5. \A f \in CacheEntries : /\ state'[f] = IF f = e THEN "NEW" ELSE state[f]
                              /\ refs'[f] = IF f = e THEN 2 ELSE refs[f]
  BY <1>1 DEF CacheTypeOK
<1>6. \A f \in CacheEntries \ {e} : SameRole(t, f)
  BY <1>2, <1>3 DEF SameRole, Takes, Making
<1>7. Owned(e)' /\ ~Late(e)' /\ ~Unended(e)'
  <2>1. Owned(e)'
    BY OwnedIsNext
  <2>2. ~Late(e)'
    BY <1>2, <1>4 DEF Late, Others
  <2>3. policy = "LRU" => Creating(t, e)'
    BY <1>2 DEF Creating
  <2>. QED BY <2>1, <2>2, <2>3 DEF Unended
<1>8. Cardinality(Users(e)') = 1
  <2>1. Users(e)' = {t}
    BY <1>2, <1>4 DEF Users, Others
  <2>. QED BY <2>1, FS_Singleton
<1>9. Ref(e)'
  BY <1>4, <1>5, <1>7, <1>8 DEF Ref, Bit
<1>10. Referred' /\ InUse' \ {e} = InUse \ {e}
  BY <1>1, <1>2, <1>5, <1>6, <1>9, CountRefs
<1>11. UsageCounts'
  <2>1. e \notin InUse /\ e \notin InUse'
    BY <1>2 DEF InUse, Making
  <2>. QED BY <1>1, <1>10, <2>1, CountUsage
<1>12. LateAlone'
  <2>1. \A u \in Threads : pc[u] = "late" => aux[u] # None /\ aux[u] \in CacheEntries /\ aux[u] # e
    BY <1>1, <1>3, <1>4, Having
  <2>. QED BY <1>1, <1>2, <1>3, <1>5, <2>1, AloneStep DEF LateAlone
<1>13. OneEach'
  <2>1. \A u \in Threads : pc'[u] \in Making => u = t \/ (pc[u] \in Making /\ cur'[u] = cur[u])
    BY <1>2 DEF Others
  <2>2. \A u \in Threads : pc'[u] \in Taking => pc[u] \in Taking /\ cur'[u] = cur[u]
    BY <1>2 DEF Others, Taking
  <2>3. \A u \in Threads : pc'[u] = "drop" => aux'[u] \notin table'
    BY <1>1, <1>2, <1>4 DEF Others, OneEach
  <2>4. \A u, v \in Threads : pc'[u] \in Making /\ pc'[v] \in Making /\ cur'[u] = cur'[v] => u = v
    BY <1>1, <1>2, <1>4, <2>1 DEF OneEach
  <2>5. \A u, v \in Threads : pc'[u] \in Taking /\ pc'[v] \in Taking /\ cur'[u] = cur'[v] => u = v
    BY <1>1, <2>2 DEF OneEach
  <2>6. \A u \in Threads : policy' = "LRU" /\ pc'[u] \in Making => cur'[u] \in table'
    BY <1>1, <1>2, <2>1 DEF OneEach
  <2>. QED BY <2>3, <2>4, <2>5, <2>6 DEF OneEach
<1>14. Queued'
  <2>1. \A f \in CacheEntries :
          Linked(f) \/ f \in table \/ (\E u \in Threads : pc[u] = "evict" /\ aux[u] = f)
            => state'[f] = state[f]
    BY <1>4, <1>5
  <2>2. \A f \in table' \ table : state'[f] = "NEW" /\ pc'[t] = "insert" /\ cur'[t] = f
    BY <1>2, <1>5
  <2>. QED BY <1>1, <1>2, <2>1, <2>2, QueuedStep
<1>. QED BY <1>10, <1>11, <1>12, <1>13, <1>14 DEF Exact

LEMMA CountExact ==
  ASSUME Given, NEW t \in Threads, Count(t), policy' = policy
  PROVE  Exact'
<1>1. /\ Control /\ CacheTypeOK /\ LateAlone /\ OneEach /\ Referred /\ UsageCounts /\ Queued
      /\ Fresh /\ usage \in 0 .. MaxUint
      /\ \A u \in Threads : pc[u] = "evict" => aux[u] \in CacheEntries
  BY GivenIs
<1>a. /\ pc[t] = "count" /\ usage' = Inc(usage)
      /\ UNCHANGED <<table, refs, state, queue, size, freed, aux>>
      /\ \/ /\ policy = "LRU" /\ pc' = [pc EXCEPT ![t] = "idle"]
            /\ cur' = [cur EXCEPT ![t] = None]
         \/ policy # "LRU" /\ pc' = [pc EXCEPT ![t] = "reclaim"] /\ cur' = cur
  BY DEF Count, Goto
<1>e. PICK e \in CacheEntries : e = cur[t] /\ state[e] # "NONE"
  BY <1>1, <1>a, Having
<1>2. /\ Others(t) /\ pc'[t] \in {"idle", "reclaim"} /\ aux'[t] = aux[t]
      /\ (policy = "LRU" => cur'[t] = None) /\ (policy # "LRU" => cur'[t] = e)
  BY <1>1, <1>a, <1>e DEF Others, CacheTypeOK
<1>3. e \in CacheEntries /\ state[e] # "NONE" /\ None \notin CacheEntries /\ aux[t] = None
  BY <1>1, <1>a, <1>e, CacheAssumption DEF Control
<1>4. \A f \in CacheEntries \ {e} : SameRole(t, f)
  BY <1>e, <1>2, <1>3, <1>a DEF SameRole, Takes, Making
<1>5. ~Late(e) /\ (policy = "LRU" => e \in table /\ Owned(e)) /\ ~Unended(e)
  <2>1. ~Late(e)
    BY <1>e, <1>1, NotLate
  <2>2. policy = "LRU" => e \in table
    BY <1>e, <1>1, <1>a DEF OneEach, Making
  <2>3. policy = "LRU" => Creating(t, e)
    BY <1>e, <1>a DEF Creating
  <2>. QED BY <2>1, <2>2, <2>3, OwnedIs DEF Unended
<1>6. Cardinality(Users(e)) >= 1
  BY <1>e, UsersMany
<1>7. \A u \in Threads : pc'[u] \in Making => cur'[u] # e
  BY <1>e, <1>1, <1>2, <1>a DEF Others, OneEach, Making
<1>8. /\ ~Late(e)' /\ (Owned(e)' <=> Owned(e))
      /\ Unended(e)' <=> policy = "LRU"
  <2>1. ~Late(e)'
    BY <1>2, <1>5 DEF Late, Others
  <2>2. ~Takes(t, e) /\ ~Takes(t, e)'
    BY <1>2, <1>a DEF Takes
  <2>3. Owned(e)' <=> Owned(e)
    BY <1>2, <1>a, <2>2, OwnedIs, OwnedIsNext, OthersTake
  <2>4. \A u \in Threads : ~Creating(u, e)'
    BY <1>7 DEF Creating, Making
  <2>. QED BY <1>5, <1>a, <2>1, <2>3, <2>4 DEF Unended
<1>9. /\ policy = "LRU" => Cardinality(Users(e)') = Cardinality(Users(e)) - 1
      /\ policy # "LRU" => Users(e)' = Users(e)
  BY <1>e, <1>2, <1>3, UsersStep
<1>10. Ref(e)'
  BY <1>1, <1>3, <1>5, <1>6, <1>8, <1>9, <1>a, RefOf DEF Ref, Bit
<1>11. Referred' /\ InUse' \ {e} = InUse \ {e}
  BY <1>1, <1>2, <1>3, <1>4, <1>10, <1>a, CountRefs
<1>12. UsageCounts'
  <2>1. e \notin freed
    BY <1>1, <1>3, <1>5, <1>6, RefOf DEF Bit
  <2>2. e \in InUse'
    BY <1>3, <1>7, <1>8, <1>a, <2>1 DEF InUse
  <2>3. e \notin InUse
    BY <1>e, <1>a DEF InUse, Making
  <2>. QED BY <1>1, <1>3, <1>11, <1>a, <2>2, <2>3, CountUsage
<1>13. LateAlone'
  <2>1. \A u \in Threads : pc[u] = "late" => aux[u] # None /\ cur'[t] # aux[u]
    BY <1>e, <1>1, <1>2, <1>3 DEF Control, LateAlone
  <2>. QED BY <1>1, <1>2, <1>3, <1>a, <2>1, AloneStep DEF LateAlone
<1>14. OneEach'
  BY <1>1, <1>2, <1>a, OneEachStep DEF OneEach, Making, Taking
<1>15. Queued'
  BY <1>1, <1>2, <1>a, QueuedStep
<1>. QED BY <1>11, <1>12, <1>13, <1>14, <1>15 DEF Exact

\* What the policy does to the lists of an entry that the cache owns.
LEMMA PolicyQueued ==
  ASSUME Given, Lists', ~closing', NEW t \in Threads, NEW e \in CacheEntries, NEW p,
         policy' = policy, cur[t] = e, pc[t] # "idle", PolicyUpdate(e),
         state[e] # "EVICTED", state[e] # "NONE", Owned(e),
         pc' = [pc EXCEPT ![t] = p], p \in {"using", "count"},
         UNCHANGED <<table, cur, aux>>
  PROVE  Queued'
<1>1. /\ Control /\ CacheTypeOK /\ AllOnce /\ Queued
      /\ \A u \in Threads : pc[u] = "evict" => aux[u] \in CacheEntries
  BY GivenIs
<1>. DEFINE h == Home(e)
<1>2. /\ lock = None /\ h \in Queues
      /\ queue' \in [Queues -> Seq(CacheEntries)]
      /\ state' = [state EXCEPT ![e] = h]
  BY <1>1, PolicyIs
<1>s. \A n \in Sized :
         size'[n] = IF state[e] = h THEN size[n]
                    ELSE IF n = h THEN Inc(size[n])
                    ELSE IF n = state[e] THEN Dec(size[n]) ELSE size[n]
  BY <1>1, PolicyIs
<1>o. \A n \in Queues : Once(queue'[n])
  BY <1>1, PolicyIs
<1>r. \A n \in Queues : InQueue(n)' = IF n = h THEN InQueue(n) \cup {e} ELSE InQueue(n) \ {e}
  BY <1>1, PolicyIs
<1>n. \A n \in Queues :
        Len(queue'[n]) = IF n = h THEN IF e \in InQueue(n) THEN Len(queue[n]) ELSE Len(queue[n]) + 1
                         ELSE IF e \in InQueue(n) THEN Len(queue[n]) - 1 ELSE Len(queue[n])
  BY <1>1, PolicyIs
<1>l. \A f : Linked(f)' <=> Linked(f) \/ f = e
  BY <1>1, PolicyLinks
<1>. HIDE DEF h
<1>3. Others(t) /\ pc'[t] = p
  BY <1>1 DEF Others, CacheTypeOK
<1>4. \A u \in Threads : pc[u] \notin {"evict", "drop"} /\ pc'[u] # "evict"
  <2>1. \A u \in Threads : pc[u] \notin {"evict", "drop"}
    BY <1>1, <1>2, CacheAssumption DEF Control
  <2>. QED BY <1>3, <2>1 DEF Others
<1>5. \A n : ~Evicting(n) /\ ~Evicting(n)'
  BY <1>4 DEF Evicting
<1>6. \A f \in CacheEntries : state'[f] = IF f = e THEN h ELSE state[f]
  BY <1>1, <1>2 DEF CacheTypeOK
<1>7. \A n \in Queues : \A f \in InQueue(n)' : state'[f] = n
  <2>. SUFFICES ASSUME NEW n \in Queues, NEW f \in InQueue(n)' PROVE state'[f] = n
    OBVIOUS
  <2>1. queue'[n] \in Seq(CacheEntries)
    BY <1>2
  <2>2. f \in CacheEntries
    BY <2>1 DEF InQueue, Range
  <2>3. \A g \in InQueue(n) : state[g] = n
    BY <1>1 DEF Queued
  <2>. QED BY <1>6, <1>r, <2>2, <2>3
<1>8. ASSUME NEW n \in Sized PROVE size'[n] = Len(queue'[n])
  <2>q. n \in Queues /\ n # "LRU"
    BY DEF Sized, Queues
  <2>1. CASE policy = "LRU"
    <3>1. queue'[n] = <<>> /\ size'[n] = 0
      BY <2>1 DEF Lists, LruLists
    <3>. QED BY <3>1
  <2>2. CASE policy # "LRU"
    <3>1. e \in table
      <4>1. \A u \in Threads : ~Takes(u, e)
        BY <1>1, <1>4, <2>2 DEF Takes, Control, CacheTypeOK, Policies
      <4>. QED BY <4>1, OwnedIs
    <3>2. Linked(e) \/ state[e] = "NEW"
      BY <1>1, <3>1 DEF Queued
    <3>3. e \in InQueue(n) <=> state[e] = n
      <4>1. \A m \in Queues : e \in InQueue(m) => state[e] = m
        BY <1>1 DEF Queued
      <4>2. state[e] = n => Linked(e)
        BY <2>q, <3>2 DEF Queues
      <4>. QED BY <2>q, <4>1, <4>2, LinkedIs
    <3>4. size[n] = Len(queue[n])
      <4>1. size[n] + Bit(Evicting(n)) = Len(queue[n]) /\ size[n] \in Nat
        BY <1>1 DEF Queued, CacheTypeOK
      <4>. QED BY <1>5, <4>1 DEF Bit
    <3>5. size[n] \in 0 .. MaxUint
      BY <1>1 DEF CacheTypeOK
    <3>6. Len(queue'[n]) \in Nat /\ Len(queue'[n]) <= MaxUint
      <4>1. queue'[n] \in Seq(CacheEntries) /\ Once(queue'[n])
        BY <1>2, <1>o, <2>q
      <4>. QED BY <4>1, OnceShort
    <3>7. CASE state[e] = h
      <4>1. Len(queue'[n]) = Len(queue[n])
        BY <1>n, <2>q, <3>3, <3>7
      <4>. QED BY <1>s, <3>4, <3>7, <4>1
    <3>8. CASE state[e] # h /\ n = h
      <4>1. Len(queue'[n]) = Len(queue[n]) + 1
        BY <1>n, <2>q, <3>3, <3>8
      <4>2. Inc(size[n]) = size[n] + 1
        <5>1. size[n] < MaxUint
          BY <3>4, <3>5, <3>6, <4>1, CacheAssumption
        <5>. QED BY <3>5, <5>1, IncDec
      <4>. QED BY <1>s, <3>4, <3>8, <4>1, <4>2
    <3>9. CASE state[e] # h /\ n # h /\ n = state[e]
      <4>1. Len(queue'[n]) = Len(queue[n]) - 1
        BY <1>n, <2>q, <3>3, <3>9
      <4>2. Dec(size[n]) = size[n] - 1
        BY <3>4, <3>5, <3>6, <4>1, IncDec
      <4>. QED BY <1>s, <3>4, <3>9, <4>1, <4>2
    <3>10. CASE state[e] # h /\ n # h /\ n # state[e]
      <4>1. Len(queue'[n]) = Len(queue[n])
        BY <1>n, <2>q, <3>3, <3>10
      <4>. QED BY <1>s, <3>4, <3>10, <4>1
    <3>. QED BY <3>7, <3>8, <3>9, <3>10
  <2>. QED BY <2>1, <2>2
<1>9. \A n \in Sized : size'[n] + Bit(Evicting(n)') = Len(queue'[n])
  <2>. SUFFICES ASSUME NEW n \in Sized PROVE size'[n] + Bit(Evicting(n)') = Len(queue'[n])
    OBVIOUS
  <2>1. n \in Queues
    BY DEF Sized, Queues
  <2>2. Len(queue'[n]) \in Nat
    BY <1>2, <2>1
  <2>. QED BY <1>5, <1>8, <2>2 DEF Bit
<1>10. ASSUME NEW f \in table'
       PROVE  \/ Linked(f)'
              \/ state'[f] = "NEW" /\ \E u \in Threads : pc'[u] = "insert" /\ cur'[u] = f
  <2>1. CASE f = e
    BY <2>1, <1>l
  <2>2. CASE f # e
    <3>1. f \in CacheEntries /\ state'[f] = state[f]
      BY <1>1, <1>6, <2>2 DEF CacheTypeOK
    <3>2. \A u \in Threads : pc[u] = "insert" /\ cur[u] = f => pc'[u] = "insert" /\ cur'[u] = f
      BY <1>3, <2>2 DEF Others
    <3>. QED BY <1>1, <1>l, <3>1, <3>2 DEF Queued
  <2>. QED BY <2>1, <2>2
<1>. QED BY <1>7, <1>9, <1>10 DEF Queued

LEMMA PolicyExact ==
  ASSUME Given, Lists', ~closing', ~Stray', NEW t \in Threads, policy' = policy,
         PolicyUpdate(cur[t]),
         \/ pc[t] = "update" /\ pc' = [pc EXCEPT ![t] = "using"]
         \/ pc[t] = "insert" /\ pc' = [pc EXCEPT ![t] = "count"],
         UNCHANGED <<table, refs, usage, freed, cur, aux>>
  PROVE  Exact'
<1>1. /\ Control /\ CacheTypeOK /\ LateAlone /\ OneEach /\ Referred /\ UsageCounts /\ Queued
      /\ Fresh /\ AllOnce /\ LruLists /\ Q2Lists
  BY GivenIs
<1>e. PICK e \in CacheEntries : e = cur[t] /\ state[e] # "NONE"
  BY <1>1, Having
<1>2. CASE state[e] = "EVICTED"
  <2>1. UNCHANGED <<queue, size, state>>
    BY <1>2, <1>e DEF PolicyUpdate
  <2>2. pc[t] # "insert"
    <3>1. policy = "LRU"
      BY <1>1, <1>2 DEF Q2Lists, CacheTypeOK, Policies
    <3>. QED BY <1>1, <1>2, <1>e, <3>1 DEF OneEach, LruLists, Making
  <2>. QED BY <2>1, <2>2, QuietExact
<1>3. CASE state[e] # "EVICTED"
  <2>1. PICK p \in {"using", "count"} : pc' = [pc EXCEPT ![t] = p] /\ (p = "count" <=> pc[t] = "insert")
    OBVIOUS
  <2>2. Others(t) /\ pc'[t] = p /\ cur'[t] = cur[t] /\ aux'[t] = aux[t]
    BY <1>1, <2>1 DEF Others, CacheTypeOK
  <2>3. \A f \in CacheEntries : SameRole(t, f)
    BY <2>1, <2>2 DEF SameRole, Takes, Making
  <2>4. Home(e) \in Queues /\ state' = [state EXCEPT ![e] = Home(e)]
    BY <1>1, <1>3, <1>e, PolicyIs
  <2>5. \A f \in CacheEntries : /\ (state'[f] = "NONE") <=> (state[f] = "NONE")
                                /\ f # e => state'[f] = state[f]
    BY <1>1, <1>e, <2>4 DEF CacheTypeOK, Queues
  <2>6. Referred' /\ UsageCounts'
    BY <1>1, <2>2, <2>3, <2>5, QuietRefs
  <2>7. Owned(e)
    <3>1. Linked(e)'
      BY <1>1, <1>3, <1>e, PolicyLinks
    <3>2. Owned(e)'
      BY <3>1 DEF Stray
    <3>. QED BY <2>2, <2>3, <2>5, <3>2, SameRef
  <2>8. Queued'
    BY <1>3, <1>e, <2>1, <2>7, PolicyQueued
  <2>9. aux[t] = None
    BY <1>1 DEF Control
  <2>10. LateAlone'
    <3>1. \A u \in Threads : pc[u] = "late" => aux[u] # None /\ aux[u] # e /\ aux[u] \in CacheEntries
      BY <1>1, <1>e, Having, CacheAssumption DEF LateAlone
    <3>. QED BY <1>1, <1>e, <2>2, <2>5, <2>9, <3>1, AloneStep DEF LateAlone
  <2>11. OneEach'
    <3>1. \A u \in Threads : policy = "LRU" /\ pc[u] \in Making => cur[u] \in table'
      BY <1>1 DEF OneEach
    <3>2. pc'[t] \in Making => pc[t] \in Making
      BY <2>1, <2>2 DEF Making
    <3>3. pc'[t] \notin Taking /\ pc'[t] # "drop"
      BY <2>1, <2>2 DEF Taking
    <3>. QED BY <1>1, <2>2, <3>1, <3>2, <3>3, OneEachStep
  <2>. QED BY <2>6, <2>8, <2>10, <2>11 DEF Exact
<1>. QED BY <1>2, <1>3

\* The policy is told of an entry that came too late, which strays.
LEMMA LateStrays ==
  ASSUME Given, NEW t \in Threads, LateUpdate(t)
  PROVE  Stray'
<1>1. /\ Control /\ CacheTypeOK /\ LateAlone /\ Fresh /\ AllOnce
  BY GivenIs
<1>2. /\ pc[t] = "late" /\ PolicyUpdate(aux[t]) /\ pc' = [pc EXCEPT ![t] = "discard"]
      /\ UNCHANGED <<table, cur, aux>>
  BY DEF LateUpdate, Goto
<1>3. PICK e \in CacheEntries : e = aux[t]
  BY <1>1, <1>2, Having
<1>4. /\ state[e] = "NEW" /\ e \notin table
      /\ \A u \in Threads : cur[u] # e /\ (u # t => aux[u] # e)
  BY <1>1, <1>2, <1>3 DEF LateAlone
<1>5. Linked(e)'
  BY <1>1, <1>2, <1>3, <1>4, PolicyLinks
<1>6. pc'[t] = "discard"
  BY <1>1, <1>2 DEF CacheTypeOK
<1>7. \A u \in Threads : ~Takes(u, e)'
  BY <1>2, <1>4, <1>6 DEF Takes
<1>. QED BY <1>2, <1>4, <1>5, <1>7, OwnedIsNext DEF Stray

\* The thread t in the reclaim is alone there.
LEMMA Alone ==
  ASSUME Control, NEW t \in Threads, pc[t] \in {"loop", "evict", "drop"}
  PROVE  policy = "2Q" /\ \A u \in Threads : pc[u] \in {"loop", "evict", "drop"} => u = t
BY DEF Control, CacheTypeOK, Policies

\* Sizes of lists, with the entry that is evicted.
LEMMA SizeIs ==
  ASSUME Given, NEW n \in Sized
  PROVE  /\ n \in Queues /\ Len(queue[n]) \in Nat /\ size[n] \in 0 .. MaxUint
         /\ Evicting(n) => size[n] = Len(queue[n]) - 1
         /\ ~Evicting(n) => size[n] = Len(queue[n])
<1>1. n \in Queues
  BY DEF Sized, Queues
<1>2. CacheTypeOK /\ Queued
  BY GivenIs
<1>3. Len(queue[n]) \in Nat /\ size[n] \in 0 .. MaxUint
  BY <1>1, <1>2 DEF CacheTypeOK
<1>4. size[n] + Bit(Evicting(n)) = Len(queue[n])
  BY <1>2 DEF Queued
<1>. QED BY <1>1, <1>3, <1>4 DEF Bit

LEMMA PageExact ==
  ASSUME Given, NEW t \in Threads, PageOut(t), policy' = policy
  PROVE  Exact'
<1>1. /\ Control /\ CacheTypeOK /\ LateAlone /\ OneEach /\ Referred /\ UsageCounts /\ Queued
      /\ Lists
  BY GivenIs DEF Given
<1>2. /\ pc[t] = "loop" /\ size["A1IN"] > 1
      /\ queue' \in [Queues -> Seq(CacheEntries)]
      /\ UNCHANGED <<table, refs, usage, freed, cur>>
  BY <1>1, PageIs
<1>3. PICK e \in InQueue("A1IN"), f \in CacheEntries :
              /\ e \in CacheEntries
              /\ state' = [state EXCEPT ![e] = "A1OUT"]
              /\ f \in InQueue("A1OUT") \cup {e}
              /\ size'["A1IN"] = Dec(size["A1IN"]) /\ size'["AM"] = size["AM"]
              /\ \/ /\ pc' = [pc EXCEPT ![t] = "evict"]
                    /\ aux' = [aux EXCEPT ![t] = f]
                    /\ size'["A1OUT"] = size["A1OUT"]
                 \/ /\ pc' = pc /\ aux' = aux
                    /\ size'["A1OUT"] = Inc(size["A1OUT"])
              /\ \A n \in Queues :
                   /\ Once(queue'[n])
                   /\ InQueue(n)' = IF n = "A1OUT" THEN InQueue(n) \cup {e}
                                    ELSE InQueue(n) \ {e}
                   /\ Len(queue'[n]) = IF n = "A1OUT" THEN IF e \in InQueue(n) THEN Len(queue[n]) ELSE Len(queue[n]) + 1
                                       ELSE IF e \in InQueue(n) THEN Len(queue[n]) - 1 ELSE Len(queue[n])
  BY <1>1, PageIs
<1>r. \A n \in Queues : InQueue(n)' = IF n = "A1OUT" THEN InQueue(n) \cup {e} ELSE InQueue(n) \ {e}
  BY <1>3
<1>n. \A n \in Queues : Len(queue'[n]) = IF n = "A1OUT" THEN IF e \in InQueue(n) THEN Len(queue[n]) ELSE Len(queue[n]) + 1
                                         ELSE IF e \in InQueue(n) THEN Len(queue[n]) - 1 ELSE Len(queue[n])
  BY <1>3
<1>q. /\ "AM" \in Queues /\ "A1IN" \in Queues /\ "A1OUT" \in Queues
      /\ "AM" \in Sized /\ "A1IN" \in Sized /\ "A1OUT" \in Sized
  BY DEF Queues, Sized
<1>4. /\ Others(t) /\ pc'[t] \in {"loop", "evict"} /\ (pc'[t] = "evict" => aux'[t] = f)
      /\ (pc'[t] = "loop" => aux'[t] = aux[t]) /\ cur'[t] = cur[t]
  BY <1>1, <1>2, <1>3 DEF Others, CacheTypeOK
<1>5. \A g \in CacheEntries : state'[g] = IF g = e THEN "A1OUT" ELSE state[g]
  BY <1>1, <1>3 DEF CacheTypeOK
<1>6. /\ \A n \in Queues : \A g \in InQueue(n) : state[g] = n
      /\ state[e] = "A1IN" /\ state'[f] = "A1OUT" /\ state[f] \in {"A1OUT", "A1IN"}
  BY <1>1, <1>3, <1>5, <1>q DEF Queued
<1>7. aux[t] = None /\ None \notin CacheEntries
  BY <1>1, <1>2, CacheAssumption DEF Control
<1>8. \A g \in CacheEntries : SameRole(t, g)
  BY <1>2, <1>4, <1>7 DEF SameRole, Takes, Making
<1>9. Referred' /\ UsageCounts'
  BY <1>1, <1>2, <1>4, <1>5, <1>6, <1>8, QuietRefs
<1>10. LateAlone'
  <2>1. ASSUME NEW u \in Threads, pc[u] = "late"
        PROVE  /\ aux[u] # None /\ aux[u] \in CacheEntries /\ state[aux[u]] = "NEW"
               /\ aux[u] # e /\ aux[u] # f
    BY <1>1, <1>6, <1>7, <2>1, Having DEF LateAlone, Given
  <2>. QED BY <1>1, <1>2, <1>4, <1>5, <1>7, <2>1, AloneStep DEF LateAlone
<1>11. OneEach'
  BY <1>1, <1>2, <1>4, OneEachStep DEF OneEach, Making, Taking
<1>12. Queued'
  <2>1. \A u \in Threads : pc[u] # "evict" /\ (pc'[u] = "evict" => u = t)
    BY <1>1, <1>2, <1>4, Alone DEF Others
  <2>2. \A n : ~Evicting(n)
    BY <2>1 DEF Evicting
  <2>3. \A n : Evicting(n)' <=> (n = "A1OUT" /\ pc'[t] = "evict")
    BY <1>4, <1>6, <2>1 DEF Evicting
  <2>4. /\ size["AM"] = Len(queue["AM"]) /\ size["A1IN"] = Len(queue["A1IN"])
        /\ size["A1OUT"] = Len(queue["A1OUT"])
        /\ size["A1IN"] \in 0 .. MaxUint /\ size["A1OUT"] \in 0 .. MaxUint
        /\ size["AM"] \in Nat
    BY <1>q, <2>2, SizeIs
  <2>5. e \notin InQueue("AM") /\ e \notin InQueue("A1OUT")
    BY <1>6, <1>q
  <2>6. size'["AM"] = Len(queue'["AM"])
    BY <1>3, <1>n, <1>q, <2>4, <2>5
  <2>7. size'["A1IN"] = Len(queue'["A1IN"])
    <3>1. Dec(size["A1IN"]) = size["A1IN"] - 1
      <4>1. size["A1IN"] > 0 /\ size["A1IN"] \in 0 .. MaxUint
        BY <1>2, <2>4
      <4>. QED BY <4>1, IncDec
    <3>. QED BY <1>3, <1>n, <1>q, <2>4, <3>1
  <2>8. Len(queue'["A1OUT"]) = Len(queue["A1OUT"]) + 1
    BY <1>n, <1>q, <2>5
  <2>9. size["A1OUT"] < MaxUint
    <3>1. queue'["A1OUT"] \in Seq(CacheEntries) /\ Once(queue'["A1OUT"])
      BY <1>2, <1>3, <1>q
    <3>2. Len(queue'["A1OUT"]) <= MaxUint
      BY <3>1, OnceShort
    <3>. QED BY <2>4, <2>8, <3>2, CacheAssumption
  <2>10. size'["A1OUT"] = IF pc'[t] = "evict" THEN size["A1OUT"] ELSE size["A1OUT"] + 1
    <3>1. Inc(size["A1OUT"]) = size["A1OUT"] + 1
      BY <2>4, <2>9, IncDec
    <3>. QED BY <1>1, <1>2, <1>3, <3>1 DEF CacheTypeOK
  <2>11. \A n \in Sized : size'[n] + Bit(Evicting(n)') = Len(queue'[n])
    <3>1. size'["AM"] + Bit(Evicting("AM")') = Len(queue'["AM"])
      <4>1. ~Evicting("AM")'
        BY <2>3
      <4>. QED BY <1>3, <2>4, <2>6, <4>1 DEF Bit
    <3>2. size'["A1IN"] + Bit(Evicting("A1IN")') = Len(queue'["A1IN"])
      <4>1. ~Evicting("A1IN")'
        BY <2>3
      <4>2. Len(queue'["A1IN"]) \in Nat
        BY <1>2, <1>q
      <4>. QED BY <2>7, <4>1, <4>2 DEF Bit
    <3>3. size'["A1OUT"] + Bit(Evicting("A1OUT")') = Len(queue'["A1OUT"])
      <4>1. Evicting("A1OUT")' <=> pc'[t] = "evict"
        BY <2>3
      <4>2. CASE pc'[t] = "evict"
        BY <2>4, <2>8, <2>10, <4>1, <4>2 DEF Bit
      <4>3. CASE pc'[t] # "evict"
        <5>1. Bit(Evicting("A1OUT")') = 0 /\ size'["A1OUT"] = size["A1OUT"] + 1
          BY <2>10, <4>1, <4>3 DEF Bit
        <5>. QED BY <2>4, <2>8, <5>1
      <4>. QED BY <4>2, <4>3
    <3>. QED BY <3>1, <3>2, <3>3 DEF Sized
  <2>12. \A n \in Queues : \A g \in InQueue(n)' : state'[g] = n
    <3>. SUFFICES ASSUME NEW n \in Queues, NEW g \in InQueue(n)' PROVE state'[g] = n
      OBVIOUS
    <3>1. queue'[n] \in Seq(CacheEntries)
      BY <1>2
    <3>2. g \in CacheEntries
      BY <3>1 DEF InQueue, Range
    <3>. QED BY <1>5, <1>6, <1>r, <3>2
  <2>13. ASSUME NEW g \in table'
         PROVE  \/ Linked(g)'
                \/ state'[g] = "NEW" /\ \E u \in Threads : pc'[u] = "insert" /\ cur'[u] = g
    <3>1. g \in table /\ g \in CacheEntries
      BY <1>1, <1>2 DEF CacheTypeOK
    <3>2. Linked(g)' <=> Linked(g)
      BY <1>1, PageLinks
    <3>3. \A u \in Threads : pc[u] = "insert" /\ cur[u] = g => pc'[u] = "insert" /\ cur'[u] = g
      BY <1>2, <1>4 DEF Others
    <3>4. state[g] = "NEW" => state'[g] = "NEW"
      BY <1>5, <1>6, <3>1
    <3>. QED BY <1>1, <3>1, <3>2, <3>3, <3>4 DEF Queued
  <2>. QED BY <2>11, <2>12, <2>13 DEF Queued
<1>. QED BY <1>9, <1>10, <1>11, <1>12 DEF Exact

LEMMA TakeExact ==
  ASSUME Given, NEW t \in Threads, TakeAm(t), policy' = policy
  PROVE  Exact'
<1>1. /\ Control /\ CacheTypeOK /\ LateAlone /\ OneEach /\ Referred /\ UsageCounts /\ Queued
      /\ Q2Lists
  BY GivenIs
<1>2. /\ pc[t] = "loop" /\ size["AM"] > 0 /\ size' = [size EXCEPT !["AM"] = Dec(@)]
      /\ aux' = [aux EXCEPT ![t] = Last(queue["AM"])] /\ pc' = [pc EXCEPT ![t] = "evict"]
      /\ UNCHANGED <<table, refs, state, queue, usage, freed, cur>>
  BY DEF TakeAm, Goto
<1>3. PICK f \in CacheEntries : f = Last(queue["AM"]) /\ f \in InQueue("AM")
  BY <1>1, <1>2, Alone, TakeIs
<1>q. "AM" \in Queues /\ "AM" \in Sized
  BY DEF Queues, Sized
<1>4. Others(t) /\ pc'[t] = "evict" /\ aux'[t] = f /\ cur'[t] = cur[t]
  BY <1>1, <1>2, <1>3 DEF Others, CacheTypeOK
<1>5. state[f] = "AM"
  BY <1>1, <1>3, <1>q DEF Queued
<1>6. \A g \in CacheEntries : SameRole(t, g)
  BY <1>2, <1>4 DEF SameRole, Takes, Making
<1>7. Referred' /\ UsageCounts'
  BY <1>1, <1>2, <1>4, <1>6, QuietRefs
<1>8. LateAlone'
  <2>1. \A u \in Threads : pc[u] = "late" => aux[u] # f
    BY <1>1, <1>5 DEF LateAlone
  <2>. QED BY <1>1, <1>2, <1>4, <2>1, AloneStep DEF LateAlone
<1>9. OneEach'
  BY <1>1, <1>2, <1>4, OneEachStep DEF OneEach, Making, Taking
<1>10. Queued'
  <2>1. \A u \in Threads : pc[u] # "evict" /\ (pc'[u] = "evict" => u = t)
    BY <1>1, <1>2, <1>4, Alone DEF Others
  <2>2. \A n : ~Evicting(n)
    BY <2>1 DEF Evicting
  <2>3. \A n : Evicting(n)' <=> n = "AM"
    BY <1>2, <1>4, <1>5, <2>1 DEF Evicting
  <2>4. ASSUME NEW n \in Sized PROVE size'[n] + Bit(Evicting(n)') = Len(queue'[n])
    <3>1. size[n] = Len(queue[n]) /\ size[n] \in 0 .. MaxUint
      BY <2>2, SizeIs
    <3>2. CASE n = "AM"
      <4>1. Dec(size[n]) = size[n] - 1
        BY <1>2, <3>1, <3>2, IncDec
      <4>2. size'[n] = size[n] - 1
        BY <1>1, <1>2, <3>2, <4>1, <1>q DEF CacheTypeOK
      <4>3. Evicting(n)'
        BY <2>3, <3>2
      <4>. QED BY <1>2, <3>1, <4>2, <4>3 DEF Bit
    <3>3. CASE n # "AM"
      <4>1. size'[n] = size[n]
        BY <1>1, <1>2, <3>3 DEF CacheTypeOK
      <4>2. ~Evicting(n)'
        BY <2>3, <3>3
      <4>. QED BY <1>2, <3>1, <4>1, <4>2 DEF Bit
    <3>. QED BY <3>2, <3>3
  <2>5. \A n \in Queues : \A g \in InQueue(n)' : state'[g] = n
    BY <1>1, <1>2 DEF Queued, InQueue
  <2>6. \A g : Linked(g)' <=> Linked(g)
    BY <1>2, LinkedSame
  <2>7. \A u \in Threads : pc[u] = "insert" => pc'[u] = "insert" /\ cur'[u] = cur[u]
    BY <1>2, <1>4 DEF Others
  <2>8. ASSUME NEW g \in table'
        PROVE  \/ Linked(g)'
               \/ state'[g] = "NEW" /\ \E u \in Threads : pc'[u] = "insert" /\ cur'[u] = g
    <3>1. \/ Linked(g)
          \/ state[g] = "NEW" /\ \E u \in Threads : pc[u] = "insert" /\ cur[u] = g
      BY <1>1, <1>2 DEF Queued
    <3>. QED BY <1>2, <2>6, <2>7, <3>1
  <2>. QED BY <2>4, <2>5, <2>8 DEF Queued
<1>. QED BY <1>7, <1>8, <1>9, <1>10 DEF Exact

LEMMA ReclaimExact ==
  ASSUME Given, NEW t \in Threads, EntryReclaim(t), policy' = policy
  PROVE  Exact'
<1>1. /\ Control /\ CacheTypeOK /\ LateAlone /\ OneEach /\ Referred /\ UsageCounts /\ Queued
      /\ Fresh /\ Q2Lists /\ AllOnce /\ usage \in 0 .. MaxUint
  BY GivenIs
<1>2. pc[t] = "evict"
  BY DEF EntryReclaim
<1>3. policy = "2Q" /\ \A u \in Threads : pc[u] \in {"loop", "evict", "drop"} => u = t
  BY <1>1, <1>2, Alone
<1>e. PICK e \in CacheEntries : e = aux[t] /\ state[e] # "NONE"
  BY <1>1, <1>2, Having
<1>4. state[e] \in {"AM", "A1OUT"} /\ e \in InQueue(state[e]) /\ Linked(e)
  <2>1. state[e] \in {"AM", "A1OUT"} /\ e \in InQueue(state[e])
    BY <1>1, <1>2, <1>3, <1>e DEF Q2Lists
  <2>. QED BY <2>1, LinkedIs DEF Queues
<1>5. e \in table
  <2>1. Owned(e)
    BY <1>4 DEF Given, Stray
  <2>2. \A u \in Threads : ~Takes(u, e)
    BY <1>1, <1>2, <1>3 DEF Takes, Control
  <2>. QED BY <2>1, <2>2, OwnedIs
<1>a. /\ table' = table \ {e} /\ queue' = Detached(e) /\ pc' = [pc EXCEPT ![t] = "drop"]
      /\ UNCHANGED <<refs, state, size, usage, freed, cur, aux>>
  BY <1>e, <1>5 DEF EntryReclaim, Goto
<1>6. Others(t) /\ pc'[t] = "drop" /\ aux'[t] = e /\ cur'[t] = cur[t]
  BY <1>1, <1>a, <1>e DEF Others, CacheTypeOK
<1>7. \A f \in CacheEntries \ {e} : SameRole(t, f)
  BY <1>2, <1>6, <1>e, <1>a DEF SameRole, Takes, Making
<1>8. Owned(e) /\ ~Late(e) /\ Owned(e)' /\ ~Late(e)' /\ ~Unended(e) /\ ~Unended(e)'
  <2>1. Takes(t, e)'
    BY <1>6 DEF Takes
  <2>2. Owned(e) /\ ~Late(e) /\ Owned(e)'
    BY <1>1, <1>5, <2>1, OwnedIs, OwnedIsNext, NotLate
  <2>3. ~Late(e)'
    BY <1>6, <2>2 DEF Late, Others
  <2>. QED BY <1>3, <2>2, <2>3 DEF Unended
<1>9. Users(e)' = Users(e)
  BY <1>6, UsersStep
<1>10. Ref(e)'
  BY <1>1, <1>a, <1>e, <1>8, <1>9, RefOf DEF Ref, Bit
<1>11. Referred' /\ InUse' \ {e} = InUse \ {e}
  BY <1>1, <1>a, <1>6, <1>7, <1>10, CountRefs
<1>12. UsageCounts'
  <2>1. e \in InUse' <=> e \in InUse
    <3>1. \A u \in Threads : (pc'[u] \in Making /\ cur'[u] = e) <=> (pc[u] \in Making /\ cur[u] = e)
      BY <1>2, <1>6 DEF Others, Making
    <3>. QED BY <1>a, <1>8, <3>1 DEF InUse
  <2>. QED BY <1>1, <1>a, <1>11, <2>1, CountUsage
<1>13. LateAlone'
  <2>1. \A u \in Threads \ {t} : pc[u] = "late" => aux[u] # e
    BY <1>1, <1>5 DEF LateAlone
  <2>. QED BY <1>1, <1>a, <1>6, <2>1, AloneStep DEF LateAlone
<1>14. OneEach'
  BY <1>1, <1>2, <1>3, <1>a, <1>6, OneEachStep DEF OneEach, Making, Taking
<1>15. Queued'
  <2>a. /\ Detached(e) \in [Queues -> Seq(CacheEntries)]
        /\ \A n \in Queues :
              /\ Once(Detached(e)[n]) /\ Range(Detached(e)[n]) = InQueue(n) \ {e}
              /\ Len(Detached(e)[n]) = IF e \in InQueue(n) THEN Len(queue[n]) - 1
                                       ELSE Len(queue[n])
    BY <1>1, DetachedIs DEF QueueType, CacheTypeOK
  <2>1. \A n \in Queues :
              /\ InQueue(n)' = InQueue(n) \ {e}
              /\ Len(queue'[n]) = IF e \in InQueue(n) THEN Len(queue[n]) - 1 ELSE Len(queue[n])
    BY <1>a, <2>a DEF InQueue
  <2>2. \A n \in Queues : \A f \in InQueue(n) : state[f] = n
    BY <1>1 DEF Queued
  <2>3. \A n : Evicting(n) <=> n = state[e]
    BY <1>2, <1>3, <1>e DEF Evicting
  <2>4. \A n : ~Evicting(n)'
    <3>1. \A u \in Threads : pc'[u] # "evict"
      BY <1>3, <1>6 DEF Others
    <3>. QED BY <3>1 DEF Evicting
  <2>5. ASSUME NEW n \in Sized PROVE size'[n] + Bit(Evicting(n)') = Len(queue'[n])
    <3>1. /\ n \in Queues /\ Len(queue[n]) \in Nat /\ size[n] \in 0 .. MaxUint
          /\ Evicting(n) => size[n] = Len(queue[n]) - 1
          /\ ~Evicting(n) => size[n] = Len(queue[n])
      BY SizeIs
    <3>2. e \in InQueue(n) <=> n = state[e]
      BY <1>4, <2>2, <3>1
    <3>3. size[n] = Len(queue'[n])
      BY <2>1, <2>3, <3>1, <3>2
    <3>4. Bit(Evicting(n)') = 0
      BY <2>4 DEF Bit
    <3>. QED BY <1>a, <3>1, <3>3, <3>4
  <2>6. \A n \in Queues : \A f \in InQueue(n)' : state'[f] = n
    BY <1>a, <2>1, <2>2
  <2>7. ASSUME NEW f \in table'
        PROVE  \/ Linked(f)'
               \/ state'[f] = "NEW" /\ \E u \in Threads : pc'[u] = "insert" /\ cur'[u] = f
    <3>1. f \in table /\ f # e
      BY <1>a
    <3>2. \/ Linked(f)
          \/ state[f] = "NEW" /\ \E u \in Threads : pc[u] = "insert" /\ cur[u] = f
      BY <1>1, <3>1 DEF Queued
    <3>3. Linked(f) => Linked(f)'
      BY <1>1, <1>a, <3>1, DetachLinks
    <3>4. \A u \in Threads : pc[u] = "insert" => pc'[u] = "insert" /\ cur'[u] = cur[u]
      BY <1>2, <1>6 DEF Others
    <3>. QED BY <1>a, <3>2, <3>3, <3>4
  <2>. QED BY <2>5, <2>6, <2>7 DEF Queued
<1>. QED BY <1>11, <1>12, <1>13, <1>14, <1>15 DEF Exact

\* A reference is given up, and with the last one the entry.
LEMMA ReleaseRefs ==
  ASSUME Given, NEW t \in Threads, Others(t), policy' = policy,
         NEW e \in CacheEntries, Release(e), state[e] # "NONE", ~Late(e), ~Late(e)',
         UNCHANGED <<table, state>>, \A f \in CacheEntries \ {e} : SameRole(t, f),
         \A u \in Threads : (pc'[u] \in Making /\ cur'[u] = e) <=> (pc[u] \in Making /\ cur[u] = e),
         refs[e] = 1 => \A u \in Threads : pc[u] \in Making => cur[u] # e,
         Cardinality(Users(e)') \in Nat,
         Bit(Owned(e)') + Cardinality(Users(e)') + Bit(Unended(e)')
           = Bit(Owned(e)) + Cardinality(Users(e)) + Bit(Unended(e)) - 1
  PROVE  /\ Referred' /\ UsageCounts'
         /\ \A f \in freed' : f = e \/ f \in freed
<1>1. /\ CacheTypeOK /\ Referred /\ UsageCounts /\ usage \in 0 .. MaxUint
  BY GivenIs
<1>2. /\ refs[e] = Bit(Owned(e)) + Cardinality(Users(e)) + Bit(Unended(e))
      /\ e \in freed <=> refs[e] = 0
      /\ Cardinality(Users(e)) \in Nat
  BY <1>1, RefOf
<1>3. /\ refs'[e] = refs[e] - 1 /\ \A f \in CacheEntries \ {e} : refs'[f] = refs[f]
      /\ usage' = IF refs[e] = 1 THEN Dec(usage) ELSE usage
      /\ freed' = IF refs[e] = 1 THEN freed \cup {e} ELSE freed
  BY <1>1 DEF Release, CacheTypeOK
<1>4. refs[e] \in Int /\ refs'[e] = Bit(Owned(e)') + Cardinality(Users(e)') + Bit(Unended(e)')
      /\ refs'[e] >= 0
  BY <1>2, <1>3 DEF Bit
<1>5. e \notin freed /\ (e \in freed' <=> refs[e] = 1)
  BY <1>2, <1>3, <1>4
<1>6. Ref(e)'
  <2>1. e \in freed' <=> refs'[e] = 0
    BY <1>3, <1>4, <1>5
  <2>. QED BY <1>4, <2>1 DEF Ref
<1>7. \A f \in CacheEntries \ {e} : f \in freed' <=> f \in freed
  BY <1>3
<1>8. Referred' /\ InUse' \ {e} = InUse \ {e}
  BY <1>1, <1>3, <1>6, <1>7, CountRefs
<1>9. UsageCounts'
  <2>1. CASE refs[e] = 1
    <3>1. e \in InUse /\ e \notin InUse'
      BY <1>5, <2>1 DEF InUse
    <3>. QED BY <1>1, <1>3, <1>8, <2>1, <3>1, CountUsage
  <2>2. CASE refs[e] # 1
    <3>1. e \in InUse <=> e \in InUse'
      BY <1>3, <2>2 DEF InUse
    <3>. QED BY <1>1, <1>3, <1>8, <2>2, <3>1, CountUsage
  <2>. QED BY <2>1, <2>2
<1>. QED BY <1>3, <1>8, <1>9

LEMMA DropExact ==
  ASSUME Given, NEW t \in Threads, Drop(t), policy' = policy
  PROVE  Exact'
<1>1. /\ Control /\ CacheTypeOK /\ LateAlone /\ OneEach /\ Referred /\ Queued /\ Fresh
      /\ \A u \in Threads : pc[u] = "evict" => aux[u] \in CacheEntries
  BY GivenIs
<1>2. /\ pc[t] = "drop" /\ Release(aux[t]) /\ aux' = [aux EXCEPT ![t] = None]
      /\ pc' = [pc EXCEPT ![t] = "loop"] /\ UNCHANGED <<table, state, queue, size, cur>>
  BY DEF Drop, Goto
<1>3. policy = "2Q" /\ \A u \in Threads : pc[u] \in {"loop", "evict", "drop"} => u = t
  BY <1>1, <1>2, Alone
<1>e. PICK e \in CacheEntries : e = aux[t] /\ state[e] # "NONE"
  BY <1>1, <1>2, Having
<1>4. Others(t) /\ pc'[t] = "loop" /\ aux'[t] = None /\ cur'[t] = cur[t]
  BY <1>1, <1>2 DEF Others, CacheTypeOK
<1>5. \A f \in CacheEntries \ {e} : SameRole(t, f)
  BY <1>2, <1>4, <1>e DEF SameRole, Takes, Making
<1>6. Owned(e) /\ ~Owned(e)' /\ e \notin table
  <2>1. Takes(t, e) /\ ~Takes(t, e)'
    BY <1>2, <1>4, <1>e DEF Takes
  <2>2. \A u \in Threads : u # t => ~Takes(u, e)
    BY <1>1, <1>3 DEF Takes, Control
  <2>3. e \notin table
    BY <1>1, <1>2, <1>e DEF OneEach
  <2>. QED BY <1>2, <1>4, <2>1, <2>2, <2>3, OwnedIs, OwnedIsNext, OthersTake
<1>7. ~Late(e) /\ ~Late(e)' /\ ~Unended(e) /\ ~Unended(e)' /\ Users(e)' = Users(e)
  <2>1. ~Late(e)
    BY <1>1, <1>2, <1>e DEF LateAlone, Late
  <2>2. ~Late(e)'
    BY <1>4, <2>1 DEF Late, Others
  <2>3. Users(e)' = Users(e)
    BY <1>4, UsersStep
  <2>. QED BY <1>3, <2>1, <2>2, <2>3 DEF Unended
<1>8. refs[e] = 1 + Cardinality(Users(e)) /\ Cardinality(Users(e)) \in Nat
  BY <1>1, <1>e, <1>6, <1>7, RefOf DEF Bit
<1>9. refs[e] = 1 => \A u \in Threads : pc[u] \in Making => cur[u] # e
  BY <1>8, UsersMany
<1>10. /\ Referred' /\ UsageCounts' /\ \A f \in freed' : f = e \/ f \in freed
  <2>1. \A u \in Threads : (pc'[u] \in Making /\ cur'[u] = e) <=> (pc[u] \in Making /\ cur[u] = e)
    BY <1>2, <1>4 DEF Others, Making
  <2>2. Bit(Owned(e)') + Cardinality(Users(e)') + Bit(Unended(e)')
          = Bit(Owned(e)) + Cardinality(Users(e)) + Bit(Unended(e)) - 1
    BY <1>6, <1>7, <1>8 DEF Bit
  <2>. QED BY <1>2, <1>4, <1>5, <1>7, <1>8, <1>9, <1>e, <2>1, <2>2, ReleaseRefs
<1>11. LateAlone'
  <2>1. \A u \in Threads : pc[u] = "late" => aux[u] # None /\ aux[u] # e
    BY <1>1, <1>7 DEF Late, Control
  <2>. QED BY <1>1, <1>2, <1>4, <1>10, <2>1, AloneStep DEF LateAlone
<1>12. OneEach'
  BY <1>1, <1>2, <1>4, OneEachStep DEF OneEach, Making, Taking
<1>13. Queued'
  BY <1>1, <1>2, <1>4, QueuedStep
<1>. QED BY <1>10, <1>11, <1>12, <1>13 DEF Exact

LEMMA GiveExact ==
  ASSUME Given, NEW t \in Threads, GiveBack(t), policy' = policy
  PROVE  Exact'
<1>1. /\ Control /\ CacheTypeOK /\ LateAlone /\ OneEach /\ Referred /\ Queued /\ Fresh
      /\ \A u \in Threads : pc[u] = "evict" => aux[u] \in CacheEntries
  BY GivenIs
<1>2. /\ pc[t] = "using" /\ Release(cur[t]) /\ cur' = [cur EXCEPT ![t] = None]
      /\ pc' = [pc EXCEPT ![t] = "idle"] /\ UNCHANGED <<table, state, queue, size, aux>>
  BY DEF GiveBack, Goto
<1>e. PICK e \in CacheEntries : e = cur[t] /\ state[e] # "NONE"
  BY <1>1, <1>2, Having
<1>3. None \notin CacheEntries /\ aux[t] = None
  BY <1>1, <1>2, CacheAssumption DEF Control
<1>4. Others(t) /\ pc'[t] = "idle" /\ cur'[t] = None /\ aux'[t] = aux[t]
  BY <1>1, <1>2 DEF Others, CacheTypeOK
<1>5. \A f \in CacheEntries \ {e} : SameRole(t, f)
  BY <1>2, <1>3, <1>4, <1>e DEF SameRole, Takes, Making
<1>6. ~Late(e) /\ ~Late(e)' /\ (Owned(e)' <=> Owned(e)) /\ (Unended(e)' <=> Unended(e))
  <2>1. ~Late(e)
    BY <1>1, <1>e, NotLate
  <2>2. ~Late(e)'
    BY <1>4, <2>1 DEF Late, Others
  <2>3. ~Takes(t, e) /\ ~Takes(t, e)'
    BY <1>2, <1>4 DEF Takes
  <2>4. Owned(e)' <=> Owned(e)
    BY <1>2, <1>4, <2>3, OwnedIs, OwnedIsNext, OthersTake
  <2>5. \A u \in Threads : Creating(u, e)' <=> Creating(u, e)
    BY <1>2, <1>4 DEF Creating, Others
  <2>. QED BY <1>2, <2>1, <2>2, <2>4, <2>5 DEF Unended
<1>7. /\ Cardinality(Users(e)') = Cardinality(Users(e)) - 1
      /\ Cardinality(Users(e)) >= 1 /\ Cardinality(Users(e)) \in Nat
      /\ \A u \in Threads : u # t /\ cur[u] = e => Cardinality(Users(e)) >= 2
  BY <1>3, <1>4, <1>e, UsersStep, UsersMany, UsersCount
<1>8. refs[e] >= Cardinality(Users(e))
  BY <1>1, <1>e, <1>6, RefOf DEF Bit
<1>9. refs[e] = 1 => \A u \in Threads : pc[u] \in Making => cur[u] # e
  BY <1>2, <1>7, <1>8 DEF Making
<1>10. /\ Referred' /\ UsageCounts' /\ \A f \in freed' : f = e \/ f \in freed
  <2>1. \A u \in Threads : (pc'[u] \in Making /\ cur'[u] = e) <=> (pc[u] \in Making /\ cur[u] = e)
    BY <1>2, <1>4 DEF Others, Making
  <2>2. Bit(Owned(e)') + Cardinality(Users(e)') + Bit(Unended(e)')
          = Bit(Owned(e)) + Cardinality(Users(e)) + Bit(Unended(e)) - 1
    BY <1>6, <1>7 DEF Bit
  <2>3. Cardinality(Users(e)') \in Nat
    BY <1>7
  <2>. QED BY <1>2, <1>4, <1>5, <1>6, <1>9, <1>e, <2>1, <2>2, <2>3, ReleaseRefs
<1>11. LateAlone'
  <2>1. \A u \in Threads : pc[u] = "late" => aux[u] # None /\ aux[u] # e
    BY <1>1, <1>6 DEF Late, Control
  <2>. QED BY <1>1, <1>2, <1>3, <1>4, <1>10, <2>1, AloneStep DEF LateAlone
<1>12. OneEach'
  BY <1>1, <1>2, <1>4, OneEachStep DEF OneEach, Making, Taking
<1>13. Queued'
  BY <1>1, <1>2, <1>4, QueuedStep
<1>. QED BY <1>10, <1>11, <1>12, <1>13 DEF Exact

\* The thread t removes the transaction e, alone.
LEMMA Removing ==
  ASSUME Given, NEW t \in Threads, pc[t] \in Taking
  PROVE  /\ policy = "LRU" /\ cur[t] \notin table /\ cur[t] \in CacheEntries
         /\ state[cur[t]] # "NONE" /\ aux[t] = None
         /\ \A u \in Threads : pc[u] \notin {"late", "discard", "loop", "evict", "drop"}
         /\ \A u \in Threads : u # t => ~Takes(u, cur[t])
<1>1. Control /\ CacheTypeOK /\ LruLists /\ OneEach /\ Fresh
  BY GivenIs
<1>2. policy = "LRU"
  BY <1>1 DEF Control, CacheTypeOK, Policies, Taking
<1>3. \A u \in Threads : pc[u] \notin {"late", "discard", "loop", "evict", "drop"}
  BY <1>1, <1>2 DEF Control
<1>4. \A u \in Threads : u # t => ~Takes(u, cur[t])
  BY <1>1, <1>3 DEF Takes, OneEach, Taking
<1>5. cur[t] \notin table
  BY <1>1, <1>2 DEF LruLists, Taking
<1>6. cur[t] \in CacheEntries /\ state[cur[t]] # "NONE"
  BY <1>1, Having DEF Taking
<1>7. aux[t] = None
  BY <1>1, <1>3 DEF Control
<1>. QED BY <1>2, <1>3, <1>4, <1>5, <1>6, <1>7

LEMMA UnlinkExact ==
  ASSUME Given, Lists', ~closing', NEW t \in Threads, UnlinkLru(t), policy' = policy
  PROVE  Exact'
<1>1. /\ Control /\ CacheTypeOK /\ LateAlone /\ OneEach /\ Referred /\ UsageCounts /\ Queued
      /\ AllOnce
  BY GivenIs
<1>2. /\ pc[t] = "unlink" /\ queue' = Detached(cur[t]) /\ pc' = [pc EXCEPT ![t] = "unref"]
      /\ UNCHANGED <<table, refs, state, size, usage, freed, cur, aux>>
  BY DEF UnlinkLru, Goto
<1>3. /\ policy = "LRU" /\ cur[t] \notin table /\ aux[t] = None
      /\ \A u \in Threads : pc[u] \notin {"late", "discard", "loop", "evict", "drop"}
  BY <1>2, Removing DEF Taking
<1>4. Others(t) /\ pc'[t] = "unref" /\ cur'[t] = cur[t] /\ aux'[t] = aux[t]
  BY <1>1, <1>2 DEF Others, CacheTypeOK
<1>5. \A f \in CacheEntries : SameRole(t, f)
  BY <1>2, <1>4 DEF SameRole, Takes, Making
<1>6. Referred' /\ UsageCounts'
  BY <1>1, <1>2, <1>4, <1>5, QuietRefs
<1>7. LateAlone'
  BY <1>1, <1>3, <1>4, AloneStep
<1>8. OneEach'
  BY <1>1, <1>2, <1>4, OneEachStep DEF OneEach, Making, Taking
<1>9. Queued'
  <2>1. \A n \in Queues : Range(Detached(cur[t])[n]) = InQueue(n) \ {cur[t]}
    BY <1>1, DetachedIs DEF QueueType, CacheTypeOK
  <2>2. \A n \in Queues : \A f \in InQueue(n)' : state'[f] = n
    BY <1>1, <1>2, <2>1 DEF InQueue, Queued
  <2>3. \A n \in Sized : queue'[n] = <<>> /\ size'[n] = 0
    BY <1>3 DEF Lists, LruLists
  <2>4. \A n : ~Evicting(n)'
    BY <1>3, <1>4 DEF Evicting, Others
  <2>5. \A n \in Sized : size'[n] + Bit(Evicting(n)') = Len(queue'[n])
    BY <2>3, <2>4 DEF Bit
  <2>6. ASSUME NEW f \in table'
        PROVE  \/ Linked(f)'
               \/ state'[f] = "NEW" /\ \E u \in Threads : pc'[u] = "insert" /\ cur'[u] = f
    <3>1. f \in table /\ f # cur[t]
      BY <1>2, <1>3
    <3>2. \/ Linked(f)
          \/ state[f] = "NEW" /\ \E u \in Threads : pc[u] = "insert" /\ cur[u] = f
      BY <1>1, <3>1 DEF Queued
    <3>3. Linked(f) => Linked(f)'
      BY <1>1, <1>2, <3>1, DetachLinks
    <3>4. \A u \in Threads : pc[u] = "insert" => pc'[u] = "insert" /\ cur'[u] = cur[u]
      BY <1>2, <1>4 DEF Others
    <3>. QED BY <1>2, <3>2, <3>3, <3>4
  <2>. QED BY <2>2, <2>5, <2>6 DEF Queued
<1>. QED BY <1>6, <1>7, <1>8, <1>9 DEF Exact

LEMMA UnrefExact ==
  ASSUME Given, NEW t \in Threads, Unref(t), policy' = policy
  PROVE  Exact'
<1>1. /\ Control /\ CacheTypeOK /\ LateAlone /\ OneEach /\ Referred /\ Queued /\ Fresh
  BY GivenIs
<1>2. /\ pc[t] = "unref" /\ Release(cur[t]) /\ pc' = [pc EXCEPT ![t] = "mark"]
      /\ UNCHANGED <<table, state, queue, size, cur, aux>>
  BY DEF Unref, Goto
<1>e. PICK e \in CacheEntries :
        /\ e = cur[t] /\ state[e] # "NONE" /\ e \notin table
        /\ \A u \in Threads : u # t => ~Takes(u, e)
  BY <1>2, Removing DEF Taking
<1>3. /\ aux[t] = None
      /\ \A u \in Threads : pc[u] \notin {"late", "discard", "loop", "evict", "drop"}
  BY <1>2, Removing DEF Taking
<1>4. Others(t) /\ pc'[t] = "mark" /\ cur'[t] = cur[t] /\ aux'[t] = aux[t]
  BY <1>1, <1>2 DEF Others, CacheTypeOK
<1>5. \A f \in CacheEntries \ {e} : SameRole(t, f)
  BY <1>2, <1>4, <1>e DEF SameRole, Takes, Making
<1>6. Owned(e) /\ ~Owned(e)' /\ ~Late(e) /\ ~Late(e)' /\ ~Unended(e) /\ ~Unended(e)'
  <2>1. Takes(t, e) /\ ~Takes(t, e)'
    BY <1>2, <1>4, <1>e DEF Takes
  <2>2. Owned(e) /\ ~Owned(e)'
    BY <1>2, <1>4, <1>e, <2>1, OwnedIs, OwnedIsNext, OthersTake
  <2>3. ~Late(e) /\ ~Late(e)'
    BY <1>3, <1>4 DEF Late, Others
  <2>. QED BY <1>2, <1>e, <2>2, <2>3 DEF Unended
<1>7. Users(e)' = Users(e) /\ Cardinality(Users(e)) >= 1 /\ Cardinality(Users(e)) \in Nat
  BY <1>4, <1>e, UsersStep, UsersMany, UsersCount
<1>8. refs[e] = 1 + Cardinality(Users(e))
  BY <1>1, <1>e, <1>6, <1>7, RefOf DEF Bit
<1>9. refs[e] # 1
  BY <1>7, <1>8
<1>10. Referred' /\ UsageCounts'
  <2>1. \A u \in Threads : (pc'[u] \in Making /\ cur'[u] = e) <=> (pc[u] \in Making /\ cur[u] = e)
    BY <1>2, <1>4 DEF Others, Making
  <2>2. Bit(Owned(e)') + Cardinality(Users(e)') + Bit(Unended(e)')
          = Bit(Owned(e)) + Cardinality(Users(e)) + Bit(Unended(e)) - 1
    BY <1>6, <1>7 DEF Bit
  <2>. QED BY <1>2, <1>4, <1>5, <1>6, <1>7, <1>9, <1>e, <2>1, <2>2, ReleaseRefs
<1>11. LateAlone'
  BY <1>1, <1>3, <1>4, AloneStep
<1>12. OneEach'
  BY <1>1, <1>2, <1>4, OneEachStep DEF OneEach, Making, Taking
<1>13. Queued'
  BY <1>1, <1>2, <1>3, <1>4, QueuedStep
<1>. QED BY <1>10, <1>11, <1>12, <1>13 DEF Exact

LEMMA MarkExact ==
  ASSUME Given, NEW t \in Threads, Mark(t), policy' = policy
  PROVE  Exact'
<1>1. /\ Control /\ CacheTypeOK /\ LateAlone /\ OneEach /\ Referred /\ UsageCounts /\ Queued
      /\ Fresh
  BY GivenIs
<1>2. /\ pc[t] = "mark" /\ state' = [state EXCEPT ![cur[t]] = "EVICTED"]
      /\ pc' = [pc EXCEPT ![t] = "using"]
      /\ UNCHANGED <<table, refs, queue, size, usage, freed, cur, aux>>
  BY DEF Mark, Goto
<1>e. PICK e \in CacheEntries :
        /\ e = cur[t] /\ state[e] # "NONE" /\ e \notin table
        /\ \A u \in Threads : u # t => ~Takes(u, e)
  BY <1>2, Removing DEF Taking
<1>3. /\ aux[t] = None
      /\ \A u \in Threads : pc[u] \notin {"late", "discard", "loop", "evict", "drop"}
  BY <1>2, Removing DEF Taking
<1>4. Others(t) /\ pc'[t] = "using" /\ cur'[t] = cur[t] /\ aux'[t] = aux[t]
  BY <1>1, <1>2 DEF Others, CacheTypeOK
<1>5. \A f \in CacheEntries : SameRole(t, f)
  BY <1>2, <1>4 DEF SameRole, Takes, Making
<1>6. \A f \in CacheEntries : state'[f] = IF f = e THEN "EVICTED" ELSE state[f]
  BY <1>1, <1>2, <1>e DEF CacheTypeOK
<1>7. Referred' /\ UsageCounts'
  BY <1>1, <1>2, <1>4, <1>5, <1>6, <1>e, QuietRefs
<1>8. LateAlone'
  BY <1>1, <1>3, <1>4, AloneStep
<1>9. OneEach'
  BY <1>1, <1>2, <1>4, OneEachStep DEF OneEach, Making, Taking
<1>10. ~Linked(e)
  <2>1. ~Takes(t, e)
    BY <1>2 DEF Takes
  <2>2. ~Owned(e)
    BY <1>e, <2>1, OwnedIs
  <2>. QED BY <2>2 DEF Given, Stray
<1>11. Queued'
  BY <1>1, <1>2, <1>3, <1>4, <1>6, <1>10, <1>e, QueuedStep
<1>. QED BY <1>7, <1>8, <1>9, <1>11 DEF Exact

-----------------------------------------------------------------------------
LEMMA NextExact ==
  ASSUME CacheIInv, CacheNext, ~closing', ~Stray'
  PROVE  Exact'
<1>1. Control /\ Fresh /\ Lists /\ policy' = policy /\ Lists'
  BY NextLists DEF CacheIInv, CacheNext
<1>2. ~closing
  <2>1. ASSUME closing PROVE closing'
    <3>1. \A t \in Threads : pc[t] = "idle"
      BY <1>1, <2>1 DEF Control
    <3>2. Destroy
      BY <2>1, <3>1 DEF CacheNext, Step, CacheLookup, RemoveTxn, TryInsert, Update, LateUpdate,
           Discard, Insert, Count, BeginReclaim, PageOut, TakeAm, StopReclaim, EntryReclaim,
           Drop, UnlinkLru, Unref, Mark, GiveBack, CacheFree
    <3>. QED BY <2>1, <3>2 DEF Destroy
  <2>. QED BY <2>1
<1>3. Given
  BY <1>1, <1>2, StrayStays DEF Given, CacheIInv
<1>4. LateAlone /\ CacheTypeOK
  BY <1>3, GivenIs
<1>5. ASSUME NEW t \in Threads, NEW k \in CacheIds, CacheLookup(t, k) PROVE Exact'
  <2>1. /\ pc[t] = "idle" /\ UNCHANGED <<table, state, queue, size, usage, freed, aux>>
    BY <1>5 DEF CacheLookup
  <2>2. ASSUME NEW e \in table, refs' = [refs EXCEPT ![e] = @ + 1],
               cur' = [cur EXCEPT ![t] = e], pc' = [pc EXCEPT ![t] = "update"]
        PROVE  Exact'
    BY <1>1, <1>3, <2>1, <2>2, FoundExact
  <2>3. ASSUME pc' = [pc EXCEPT ![t] = "alloc"], UNCHANGED <<refs, cur>> PROVE Exact'
    BY <1>1, <1>3, <2>1, <2>3, QuietExact
  <2>. QED BY <1>5, <2>2, <2>3 DEF CacheLookup, Goto
<1>6. ASSUME NEW t \in Threads, NEW k \in CacheIds, RemoveTxn(t, k) PROVE Exact'
  BY <1>1, <1>3, <1>6, RemoveExact
<1>7. ASSUME NEW t \in Threads, NEW e \in CacheEntries, TryInsert(t, e) PROVE Exact'
  <2>1. /\ pc[t] \in {"idle", "alloc"} /\ state[e] = "NONE"
        /\ state' = [state EXCEPT ![e] = "NEW"]
        /\ UNCHANGED <<queue, size, usage, freed>>
    BY <1>7 DEF TryInsert
  <2>2. ASSUME NEW old \in table, refs' = [refs EXCEPT ![e] = 1, ![old] = @ + 1],
               cur' = [cur EXCEPT ![t] = old], aux' = [aux EXCEPT ![t] = e],
               pc' = [pc EXCEPT ![t] = "late"], UNCHANGED table
        PROVE  Exact'
    BY <1>1, <1>3, <2>1, <2>2, LateExact
  <2>3. ASSUME table' = table \cup {e}, refs' = [refs EXCEPT ![e] = 2],
               cur' = [cur EXCEPT ![t] = e], pc' = [pc EXCEPT ![t] = "insert"],
               UNCHANGED aux
        PROVE  Exact'
    BY <1>1, <1>3, <2>1, <2>3, NewExact
  <2>. QED BY <1>7, <2>2, <2>3 DEF TryInsert, Goto
<1>8. ASSUME NEW t \in Threads, Update(t) PROVE Exact'
  BY <1>1, <1>3, <1>8, PolicyExact DEF Update, Goto
<1>9. ASSUME NEW t \in Threads, Insert(t) PROVE Exact'
  BY <1>1, <1>3, <1>9, PolicyExact DEF Insert, Goto
<1>10. ASSUME NEW t \in Threads, LateUpdate(t) PROVE Exact'
  BY <1>3, <1>10, LateStrays
<1>11. ASSUME NEW t \in Threads, Discard(t) PROVE Exact'
  BY <1>4, <1>11 DEF Discard, LateAlone
<1>12. ASSUME NEW t \in Threads, BeginReclaim(t) PROVE Exact'
  BY <1>1, <1>3, <1>12, QuietExact DEF BeginReclaim, Goto
<1>13. ASSUME NEW t \in Threads, StopReclaim(t) PROVE Exact'
  <2>1. /\ pc[t] = "loop" /\ pc' = [pc EXCEPT ![t] = "using"]
        /\ aux' = [aux EXCEPT ![t] = None]
        /\ UNCHANGED <<table, refs, state, queue, size, usage, freed, cur>>
    BY <1>13 DEF StopReclaim, EndReclaim, Goto
  <2>2. aux[t] = None
    BY <1>1, <2>1 DEF Control
  <2>3. aux'[t] = aux[t] /\ \A u \in Threads \ {t} : aux'[u] = aux[u]
    BY <1>4, <2>1, <2>2 DEF CacheTypeOK
  <2>. QED BY <1>1, <1>3, <2>1, <2>3, QuietExact
<1>14. ASSUME NEW t \in Threads, Count(t) PROVE Exact'
  BY <1>1, <1>3, <1>14, CountExact
<1>15. ASSUME NEW t \in Threads, PageOut(t) PROVE Exact'
  BY <1>1, <1>3, <1>15, PageExact
<1>16. ASSUME NEW t \in Threads, TakeAm(t) PROVE Exact'
  BY <1>1, <1>3, <1>16, TakeExact
<1>17. ASSUME NEW t \in Threads, EntryReclaim(t) PROVE Exact'
  BY <1>1, <1>3, <1>17, ReclaimExact
<1>18. ASSUME NEW t \in Threads, Drop(t) PROVE Exact'
  BY <1>1, <1>3, <1>18, DropExact
<1>19. ASSUME NEW t \in Threads, UnlinkLru(t) PROVE Exact'
  BY <1>1, <1>3, <1>19, UnlinkExact
<1>20. ASSUME NEW t \in Threads, Unref(t) PROVE Exact'
  BY <1>1, <1>3, <1>20, UnrefExact
<1>21. ASSUME NEW t \in Threads, Mark(t) PROVE Exact'
  BY <1>1, <1>3, <1>21, MarkExact
<1>22. ASSUME NEW t \in Threads, GiveBack(t) PROVE Exact'
  BY <1>1, <1>3, <1>22, GiveExact
<1>23. ASSUME CacheFree \/ Destroy PROVE Exact'
  BY <1>2, <1>23 DEF CacheFree, Destroy
<1>. QED
  BY <1>5, <1>6, <1>7, <1>8, <1>9, <1>10, <1>11, <1>12, <1>13, <1>14, <1>15, <1>16,
     <1>17, <1>18, <1>19, <1>20, <1>21, <1>22, <1>23 DEF CacheNext, Step

LEMMA InitCache == CacheInit => CacheIInv
<1>. SUFFICES ASSUME CacheInit PROVE CacheIInv
  OBVIOUS
<1>. USE DEF CacheInit
<1>1. Control
  <2>1. queue \in [Queues -> Seq(CacheEntries)] /\ size \in [Sized -> 0 .. MaxUint]
        /\ usage \in 0 .. MaxUint
    BY CacheAssumption
  <2>2. CacheTypeOK
    <3>1. /\ refs \in [CacheEntries -> Int]
          /\ state \in [CacheEntries -> {"NONE", "NEW", "EVICTED"} \cup Queues]
          /\ table \subseteq CacheEntries /\ freed \subseteq CacheEntries
      OBVIOUS
    <3>2. /\ pc \in [Threads -> {"idle", "update", "alloc", "late", "discard",
                         "insert", "count", "reclaim", "loop", "evict",
                         "drop", "unlink", "unref", "mark", "using"}]
          /\ oid \in [Threads -> CacheIds \cup {None}]
      OBVIOUS
    <3>3. /\ cur \in [Threads -> CacheEntries \cup {None}]
          /\ aux \in [Threads -> CacheEntries \cup {None}]
          /\ lock \in Threads \cup {None} /\ closing \in BOOLEAN
          /\ policy \in Policies
      OBVIOUS
    <3>. HIDE DEF CacheInit
    <3>. QED BY <2>1, <3>1, <3>2, <3>3 DEF CacheTypeOK
  <2>. QED BY <2>2, CacheAssumption DEF Control, Policies
<1>2. \A n \in Queues : InQueue(n) = {} /\ queue[n] = <<>>
  BY DEF InQueue, Range
<1>3. \A e : ~Linked(e)
  BY <1>2, LinkedIs
<1>4. Fresh
  BY <1>3, CacheAssumption DEF Fresh
<1>5. Sized \subseteq Queues /\ "LRU" \in Queues /\ "AM" \in Queues /\ "A1IN" \in Queues
      /\ "A1IN" \in Sized /\ "AM" \in Sized
  BY DEF Sized, Queues
<1>6. Lists
  <2>1. \A n \in Queues : Once(queue[n])
    BY <1>2 DEF Once
  <2>2. LruLists
    BY <1>2, <1>5 DEF LruLists
  <2>3. Q2Lists
    BY <1>2, <1>5 DEF Q2Lists
  <2>. QED BY <2>1, <2>2, <2>3 DEF Lists
<1>7. LateAlone /\ OneEach
  BY DEF LateAlone, OneEach, Making, Taking
<1>8. Referred
  BY DEF Referred
<1>9. UsageCounts
  <2>1. InUse = {}
    BY DEF InUse
  <2>. QED BY <2>1, FS_EmptySet DEF UsageCounts
<1>10. Queued
  <2>1. \A n : ~Evicting(n)
    BY DEF Evicting
  <2>2. \A n \in Sized : size[n] + Bit(Evicting(n)) = Len(queue[n])
    BY <1>2, <1>5, <2>1 DEF Bit
  <2>. QED BY <1>2, <2>2 DEF Queued
<1>. QED BY <1>1, <1>4, <1>6, <1>7, <1>8, <1>9, <1>10 DEF CacheIInv, Exact

LEMMA StutterCache == CacheIInv /\ UNCHANGED cvars => CacheIInv'
<1>. SUFFICES ASSUME CacheIInv, UNCHANGED cvars PROVE CacheIInv'
  OBVIOUS
<1>. USE DEF cvars, entryVars, threadVars
<1>1. Control'
  BY DEF CacheIInv, Control, CacheTypeOK
<1>2. Fresh'
  BY DEF CacheIInv, Fresh, Linked
<1>3. Lists'
  BY DEF CacheIInv, Lists, LruLists, Q2Lists, InQueue
<1>4. Stray' <=> Stray
  BY DEF Stray, Linked, Owned
<1>5. ASSUME LateAlone /\ OneEach PROVE LateAlone' /\ OneEach'
  BY <1>5 DEF LateAlone, OneEach
<1>6. ASSUME Referred PROVE Referred'
  <2>1. ASSUME NEW e
        PROVE  /\ Late(e)' = Late(e) /\ Users(e)' = Users(e)
               /\ Owned(e)' = Owned(e) /\ Unended(e)' = Unended(e)
    <3>1. Late(e)' = Late(e)
      BY DEF Late
    <3>2. Users(e)' = Users(e)
      BY DEF Users
    <3>3. Owned(e)' = Owned(e)
      BY DEF Owned
    <3>4. Unended(e)' = Unended(e)
      BY DEF Unended, Creating
    <3>. QED BY <3>1, <3>2, <3>3, <3>4
  <2>. QED BY <1>6, <2>1 DEF Referred
<1>7. ASSUME UsageCounts PROVE UsageCounts'
  BY <1>7 DEF UsageCounts, InUse, Late
<1>8. ASSUME Queued PROVE Queued'
  BY <1>8 DEF Queued, Evicting, Linked, InQueue
<1>. QED BY <1>1, <1>2, <1>3, <1>4, <1>5, <1>6, <1>7, <1>8 DEF CacheIInv, Exact

LEMMA CacheIsExact == CacheIInv => CacheExact
<1>. SUFFICES ASSUME CacheIInv PROVE CacheExact
  OBVIOUS
<1>0. Control /\ CacheTypeOK /\ Fresh
  BY DEF CacheIInv, Control
<1>. SUFFICES ASSUME ~closing, ~Stray PROVE RefsExact /\ UsageExact /\ QueuesExact
  BY <1>0 DEF CacheExact, RefsExact, UsageExact, QueuesExact
<1>1. Given
  BY DEF CacheIInv, Given
<1>2. LateAlone /\ Referred /\ UsageCounts /\ Queued /\ AllOnce
  BY <1>1, GivenIs
<1>3. RefsExact
  <2>. SUFFICES ASSUME NEW e \in CacheEntries, state[e] # "NONE",
                       ~(\E t \in Threads : aux[t] = e /\ ~Owned(e))
                PROVE  /\ refs[e] = Bit(Owned(e)) + Cardinality({t \in Threads : Holds(t, e)})
                                      + Bit(Unended(e))
                       /\ e \in freed <=> refs[e] = 0
    BY DEF RefsExact
  <2>1. ~Late(e)
    <3>1. ASSUME NEW t \in Threads, pc[t] = "late", aux[t] = e PROVE ~Owned(e)
      <4>1. e \notin table /\ \A u \in Threads : cur[u] # e /\ (u # t => aux[u] # e)
        BY <1>2, <3>1 DEF LateAlone
      <4>. QED BY <3>1, <4>1, OwnedIs DEF Takes
    <3>. QED BY <3>1 DEF Late
  <2>2. {t \in Threads : Holds(t, e)} = Users(e)
    BY <1>0, CacheAssumption DEF Holds, Users, Control
  <2>. QED BY <1>2, <2>1, <2>2, RefOf
<1>4. UsageExact
  <2>1. InUse = {e \in CacheEntries :
                   /\ state[e] # "NONE" /\ e \notin freed
                   /\ ~\E t \in Threads : \/ cur[t] = e /\ pc[t] \in {"insert", "count"}
                                          \/ aux[t] = e /\ pc[t] \in {"late", "discard"}}
    <3>1. \A t \in Threads : pc[t] # "discard"
      BY <1>2 DEF LateAlone
    <3>. QED BY <3>1 DEF InUse, Late, Making
  <2>. QED BY <1>2, <2>1 DEF UsageExact, UsageCounts
<1>5. QueuesExact
  <2>. SUFFICES ASSUME lock = None
                PROVE  /\ \A n \in Queues \cap Sized : size[n] = Len(queue[n])
                       /\ \A n \in Queues : \A i \in DOMAIN queue[n] :
                            /\ state[queue[n][i]] = n
                            /\ \A j \in DOMAIN queue[n] : queue[n][i] = queue[n][j] => i = j
                       /\ \A e \in table :
                            Linked(e) \/ \E t \in Threads : pc[t] = "insert" /\ cur[t] = e
    BY DEF QueuesExact
  <2>1. \A n : ~Evicting(n)
    BY <1>0, CacheAssumption DEF Evicting, Control
  <2>2. \A n \in Sized : size[n] = Len(queue[n])
    BY <1>1, <2>1, SizeIs
  <2>3. \A n \in Queues : \A i \in DOMAIN queue[n] : state[queue[n][i]] = n
    BY <1>2 DEF Queued, InQueue, Range
  <2>4. \A n \in Queues : \A i, j \in DOMAIN queue[n] : queue[n][i] = queue[n][j] => i = j
    BY <1>2 DEF AllOnce, Once
  <2>. QED BY <1>2, <2>2, <2>3, <2>4 DEF Queued
<1>. QED BY <1>3, <1>4, <1>5

\* Whatever the threads, the entries, their ids and the capacity, until an
\* entry strays the cache counts its references and its usage exactly, frees
\* an entry with its last reference and not before, and its lists, their
\* sizes and the states of the entries agree (z_cache_lookup,
\* z_cache_try_insert, z_cache_release, z_cache_remove, both reclaims).
THEOREM CacheStaysExact == CacheSpec => []CacheExact
<1>1. CacheInit => CacheIInv
  BY InitCache
<1>2. CacheIInv /\ [CacheNext]_cvars => CacheIInv'
  <2>. SUFFICES ASSUME CacheIInv, [CacheNext]_cvars PROVE CacheIInv'
    OBVIOUS
  <2>1. CASE UNCHANGED cvars
    BY <2>1, StutterCache
  <2>2. CASE CacheNext
    <3>1. Control /\ Fresh /\ Lists
      BY DEF CacheIInv
    <3>2. Control' /\ Fresh' /\ Lists'
      BY <2>2, <3>1, NextControl, NextFresh, NextLists
    <3>3. ~closing' /\ ~Stray' => Exact'
      BY <2>2, NextExact
    <3>. QED BY <3>2, <3>3 DEF CacheIInv
  <2>. QED BY <2>1, <2>2
<1>. QED BY <1>1, <1>2, CacheIsExact, PTL DEF CacheSpec
=============================================================================
