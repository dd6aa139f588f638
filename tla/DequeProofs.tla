---------------------------- MODULE DequeProofs ----------------------------
(***************************************************************************)
(* Proofs about the deque object, for any entries and transactions.        *)
(***************************************************************************)
EXTENDS Deque, SequenceTheorems, TLAPS

\* A transaction has an atom of each side at most.
AtomLists ==
  {<<>>, <<"front">>, <<"back">>, <<"front", "back">>, <<"back", "front">>}

SidesType ==
  [Sides -> [pending : Seq(Entries),
             removed : Entries \cup {Null, DqEnd},
             owner : DqTxns \cup {DqNoTxn}]]

Typed ==
  /\ data \in Seq(Entries)
  /\ side \in SidesType
  /\ atoms \in [DqTxns -> AtomLists]
  /\ dqStatus \in [DqTxns -> {"open", "failed", "committed", "rolledback"}]
  /\ dqAnswer \in [errno : {"NONE", "TXN_LOCKED_OPERATION", "DATA_NO_ITEMS"},
                   entry : Entries \cup {Null}]
  /\ author \in [Entries -> DqTxns \cup {DqNoTxn, Null}]
  /\ corrupt \in BOOLEAN
  /\ dqBroken \in BOOLEAN

Alive(x) == dqStatus[x] \in {"open", "failed"}

\* A side is held by the transaction that has its atom.
AtomsHold ==
  \A x \in DqTxns, s \in Sides :
    Alive(x) /\ s \in Range(atoms[x]) => side[s].owner = x

\* Who holds a side has its atom: what a pop without one breaks.
HoldersHave ==
  \A x \in DqTxns, s \in Sides :
    side[s].owner = x => Alive(x) /\ s \in Range(atoms[x])

\* The inductive invariant.
HeldInv ==
  /\ Typed
  /\ corrupt => dqBroken
  /\ ~corrupt => AtomsHold
  /\ ~dqBroken => HoldersHave

-----------------------------------------------------------------------------
(* Operators                                                               *)

LEMMA Two == /\ "front" \in Sides /\ "back" \in Sides /\ "front" # "back"
             /\ \A s \in Sides : Other(s) \in Sides /\ Other(s) # s
                                 /\ (s = "front" \/ s = "back")
  BY DEF Sides, Other

\* Seen from a side the list has the same entries.
LEMMA FromTyped ==
  ASSUME NEW s \in Sides, NEW d \in Seq(Entries)
  PROVE  /\ From(s, d) \in Seq(Entries)
         /\ Len(From(s, d)) = Len(d)
         /\ DOMAIN From(s, d) = 1 .. Len(d)
         /\ \A i \in 1 .. Len(d) :
              From(s, d)[i] = IF s = "front" THEN d[i] ELSE d[Len(d) - i + 1]
<1>1. CASE s = "front"
  BY <1>1 DEF From
<1>2. CASE s # "front"
  <2>1. From(s, d) = [i \in 1 .. Len(d) |-> d[Len(d) - i + 1]]
    BY <1>2 DEF From, Reverse
  <2>2. \A i \in 1 .. Len(d) : Len(d) - i + 1 \in 1 .. Len(d)
    OBVIOUS
  <2>3. \A i \in 1 .. Len(d) : d[Len(d) - i + 1] \in Entries
    BY <2>2
  <2>. QED  BY <1>2, <2>1, <2>3
<1>. QED  BY <1>1, <1>2

LEMMA FromRange ==
  ASSUME NEW s \in Sides, NEW d \in Seq(Entries)
  PROVE  Range(From(s, d)) = Range(d)
<1>1. CASE s = "front"
  BY <1>1 DEF From
<1>2. CASE s # "front"
  <2>1. \A i \in 1 .. Len(d) : Len(d) - i + 1 \in 1 .. Len(d)
                               /\ Len(d) - (Len(d) - i + 1) + 1 = i
    OBVIOUS
  <2>2. \A e : e \in Range(d) <=> \E i \in 1 .. Len(d) : d[i] = e
    BY DEF Range
  <2>3. \A e : e \in Range(From(s, d)) <=> \E i \in 1 .. Len(d) : d[Len(d) - i + 1] = e
    <3>1. DOMAIN From(s, d) = 1 .. Len(d)
      BY FromTyped
    <3>2. \A i \in 1 .. Len(d) : From(s, d)[i] = d[Len(d) - i + 1]
      BY <1>2, FromTyped
    <3>3. \A e : e \in Range(From(s, d)) <=> \E i \in 1 .. Len(d) : From(s, d)[i] = e
      BY <3>1 DEF Range
    <3>. QED  BY <3>2, <3>3
  <2>4. \A e : e \in Range(From(s, d)) <=> e \in Range(d)
    BY <2>1, <2>2, <2>3
  <2>. QED  BY <2>4
<1>. QED  BY <1>1, <1>2

LEMMA PlaceIs ==
  ASSUME NEW d \in Seq(Entries), NEW e \in Range(d)
  PROVE  Place(e, d) \in 1 .. Len(d) /\ d[Place(e, d)] = e
<1>1. \E i \in DOMAIN d : d[i] = e
  BY DEF Range
<1>. QED  BY <1>1 DEF Place

LEMMA UnlinkedTyped ==
  ASSUME NEW d \in Seq(Entries), NEW r, r \in {Null, DqEnd} \cup Range(d)
  PROVE  Unlinked(r, d) \in Seq(Entries)
<1>1. CASE r = Null
  BY <1>1 DEF Unlinked
<1>2. CASE r # Null /\ r = DqEnd
  BY <1>2 DEF Unlinked
<1>3. CASE r \notin {Null, DqEnd}
  <2>1. Unlinked(r, d) = SubSeq(d, Place(r, d), Len(d))
    BY <1>3 DEF Unlinked
  <2>2. Place(r, d) \in 1 .. Len(d)
    BY <1>3, PlaceIs
  <2>. QED  BY <2>1, <2>2, SubSeqProperties
<1>. QED  BY <1>1, <1>2, <1>3

LEMMA MergedTyped ==
  ASSUME NEW s \in Sides, NEW f \in SidesType, NEW d \in Seq(Entries),
         f[s].removed \in {Null, DqEnd} \cup Range(d)
  PROVE  Merged(s, f, d) \in Seq(Entries)
<1>1. f[s].pending \in Seq(Entries)
  BY DEF SidesType
<1>2. Unlinked(f[s].removed, From(s, d)) \in Seq(Entries)
  BY FromTyped, FromRange, UnlinkedTyped
<1>3. f[s].pending \o Unlinked(f[s].removed, From(s, d)) \in Seq(Entries)
  BY <1>1, <1>2, ConcatProperties
<1>. QED  BY <1>3, FromTyped DEF Merged

\* The commit of the object keeps who holds its sides.
LEMMA CommitKeeps ==
  ASSUME Typed, NEW f \in SidesType, CommitObject(f)
  PROVE  /\ data' \in Seq(Entries)
         /\ side' \in SidesType
         /\ corrupt' \in BOOLEAN
         /\ ~corrupt' => \A s \in Sides : side'[s].owner = f[s].owner
<1>. DEFINE front == IF f["front"].owner = DqNoTxn THEN Merged("front", f, data)
                     ELSE data
            both == IF f["back"].owner = DqNoTxn THEN Merged("back", f, front)
                    ELSE front
<1>0. data \in Seq(Entries) /\ side \in SidesType /\ corrupt \in BOOLEAN
  BY DEF Typed
<1>1. CASE Lost("front", f, data) \/ Lost("back", f, front)
  <2>1. corrupt' = TRUE /\ data' = data /\ side' = side
    BY <1>1 DEF CommitObject
  <2>. QED  BY <1>0, <2>1
<1>2. CASE ~(Lost("front", f, data) \/ Lost("back", f, front))
  <2>1. /\ data' = both /\ corrupt' = corrupt
        /\ side' = [s \in Sides |->
                         IF f[s].owner = DqNoTxn
                         THEN [f[s] EXCEPT !.pending = <<>>, !.removed = Null]
                         ELSE f[s]]
    BY <1>2 DEF CommitObject
  <2>2. front \in Seq(Entries)
    BY <1>0, <1>2, MergedTyped, Two DEF Lost
  <2>3. both \in Seq(Entries)
    BY <1>2, <2>2, MergedTyped, Two DEF Lost
  <2>4. \A s \in Sides : side'[s] \in [pending : Seq(Entries),
             removed : Entries \cup {Null, DqEnd},
             owner : DqTxns \cup {DqNoTxn}] /\ side'[s].owner = f[s].owner
    <3>. TAKE s \in Sides
    <3>1. f[s] \in [pending : Seq(Entries), removed : Entries \cup {Null, DqEnd},
                    owner : DqTxns \cup {DqNoTxn}]
      BY DEF SidesType
    <3>2. side'[s] = IF f[s].owner = DqNoTxn
                     THEN [f[s] EXCEPT !.pending = <<>>, !.removed = Null]
                     ELSE f[s]
      BY <2>1
    <3>3. <<>> \in Seq(Entries)
      OBVIOUS
    <3>4. CASE f[s].owner = DqNoTxn
      <4>1. side'[s] = [f[s] EXCEPT !.pending = <<>>, !.removed = Null]
        BY <3>2, <3>4
      <4>. QED  BY <3>1, <3>3, <4>1
    <3>5. CASE f[s].owner # DqNoTxn
      BY <3>1, <3>2, <3>5
    <3>. QED  BY <3>4, <3>5
  <2>5. side' \in SidesType
    BY <2>1, <2>4 DEF SidesType
  <2>. QED  BY <1>0, <2>1, <2>3, <2>4, <2>5
<1>. QED  BY <1>1, <1>2

\* What a call that succeeds leaves, whatever it has done to the sides.
LEMMA SucceedKeeps ==
  ASSUME Typed, NEW f \in SidesType, NEW e \in Entries \cup {Null}, NEW weak,
         DqSucceed(f, e, weak)
  PROVE  /\ data' \in Seq(Entries)
         /\ side' \in SidesType
         /\ corrupt' \in BOOLEAN
         /\ dqBroken' \in BOOLEAN
         /\ dqAnswer' \in [errno : {"NONE", "TXN_LOCKED_OPERATION", "DATA_NO_ITEMS"},
                           entry : Entries \cup {Null}]
         /\ corrupt' \/ weak \/ dqBroken => dqBroken'
         /\ ~corrupt' => \A s \in Sides : side'[s].owner = f[s].owner
<1>1. CommitObject(f)
  BY DEF DqSucceed
<1>2. dqAnswer' = [errno |-> "NONE", entry |-> e]
  BY DEF DqSucceed
<1>3. dqBroken' = (\/ dqBroken \/ weak \/ corrupt'
                   \/ \E s \in Sides : Covers(s, f) \/ Dangles(s, side', data'))
  BY DEF DqSucceed
<1>4. dqBroken' \in BOOLEAN /\ (corrupt' \/ weak \/ dqBroken => dqBroken')
  BY <1>3
<1>. QED  BY <1>1, <1>2, <1>4, CommitKeeps

LEMMA RangeOf ==
  /\ Range(<<>>) = {}
  /\ Range(<<"front">>) = {"front"} /\ Range(<<"back">>) = {"back"}
  /\ Range(<<"front", "back">>) = Sides /\ Range(<<"back", "front">>) = Sides
<1>1. Range(<<>>) = {}
  BY DEF Range
<1>2. Range(<<"front">>) = {"front"} /\ Range(<<"back">>) = {"back"}
  BY DEF Range
<1>3. Range(<<"front", "back">>) = Sides
  BY DEF Range, Sides
<1>4. Range(<<"back", "front">>) = Sides
  BY DEF Range, Sides
<1>. QED  BY <1>1, <1>2, <1>3, <1>4

LEMMA AppendTo ==
  ASSUME NEW S, NEW a \in S, NEW b \in S
  PROVE  Append(<<a>>, b) = <<a, b>>
<1>1. <<a>> \in Seq(S) /\ <<a, b>> \in Seq(S) /\ Len(<<a>>) = 1 /\ Len(<<a, b>>) = 2
  OBVIOUS
<1>2. Append(<<a>>, b) \in Seq(S) /\ Len(Append(<<a>>, b)) = 2
  BY <1>1
<1>3. Append(<<a>>, b)[1] = a /\ Append(<<a>>, b)[2] = b
  BY <1>1
<1>4. <<a, b>>[1] = a /\ <<a, b>>[2] = b
  OBVIOUS
<1>5. \A i \in 1 .. 2 : i = 1 \/ i = 2
  OBVIOUS
<1>6. \A i \in 1 .. 2 : Append(<<a>>, b)[i] = <<a, b>>[i]
  BY <1>3, <1>4, <1>5
<1>. QED  BY <1>1, <1>2, <1>6, SeqEqual

LEMMA AppendAtom ==
  ASSUME NEW a \in AtomLists, NEW s \in Sides, s \notin Range(a)
  PROVE  Append(a, s) \in AtomLists /\ Range(Append(a, s)) = Range(a) \cup {s}
<1>1. CASE a = <<>>
  BY <1>1, RangeOf DEF AtomLists, Sides
<1>2. CASE a = <<"front">>
  <2>1. s = "back"
    BY <1>2, RangeOf DEF Sides
  <2>2. Append(a, s) = <<"front", "back">>
    BY <1>2, <2>1, AppendTo, Two
  <2>3. Range(a) \cup {s} = Sides
    BY <1>2, <2>1, RangeOf DEF Sides
  <2>. QED  BY <2>2, <2>3, RangeOf DEF AtomLists
<1>3. CASE a = <<"back">>
  <2>1. s = "front"
    BY <1>3, RangeOf DEF Sides
  <2>2. Append(a, s) = <<"back", "front">>
    BY <1>3, <2>1, AppendTo, Two
  <2>3. Range(a) \cup {s} = Sides
    BY <1>3, <2>1, RangeOf DEF Sides
  <2>. QED  BY <2>2, <2>3, RangeOf DEF AtomLists
<1>4. CASE Range(a) = Sides
  BY <1>4
<1>. QED  BY <1>1, <1>2, <1>3, <1>4, RangeOf DEF AtomLists

-----------------------------------------------------------------------------
(* The steps                                                               *)

\* A call works on a side that is free or its own.
LEMMA NotLocked ==
  ASSUME Typed, NEW x \in DqTxns \cup {DqNoTxn}, NEW s \in Sides, ~Locked(x, s)
  PROVE  side[s].owner \in {DqNoTxn, x}
  BY DEF Locked

LEMMA PushHeld ==
  ASSUME HeldInv, NEW x \in DqTxns \cup {DqNoTxn}, NEW s \in Sides, Push(x, s)
  PROVE  HeldInv'
<1>. DEFINE free == {e \in Entries : author[e] = Null}
            entry == CHOOSE e \in free : TRUE
            f == [side EXCEPT ![s].pending = <<entry>> \o @, ![s].owner = x]
<1>0. Typed /\ ~corrupt /\ AtomsHold
  BY DEF HeldInv, Push, DqOpen
<1>1. /\ free # {} /\ author' = [author EXCEPT ![entry] = x] /\ atoms' = NewAtoms(x, s)
      /\ DqSucceed(f, Null, FALSE) /\ dqStatus' = dqStatus /\ ~Locked(x, s)
      /\ (x \in DqTxns => Alive(x))
  BY DEF Push, DqOpen, Alive
<1>2. entry \in Entries
  BY <1>1
<1>. HIDE DEF entry, free
<1>3. f \in SidesType
  <2>1. side[s] \in [pending : Seq(Entries), removed : Entries \cup {Null, DqEnd},
                     owner : DqTxns \cup {DqNoTxn}]
    BY <1>0 DEF Typed, SidesType
  <2>2. <<entry>> \o side[s].pending \in Seq(Entries)
    BY <1>2, <2>1
  <2>. QED  BY <1>0, <2>1, <2>2 DEF Typed, SidesType
<1>4. \A u \in Sides : f[u].owner = IF u = s THEN x ELSE side[u].owner
  BY <1>0 DEF Typed, SidesType
<1>. HIDE DEF f
<1>5. /\ data' \in Seq(Entries) /\ side' \in SidesType /\ corrupt' \in BOOLEAN
      /\ dqBroken' \in BOOLEAN
      /\ dqAnswer' \in [errno : {"NONE", "TXN_LOCKED_OPERATION", "DATA_NO_ITEMS"},
                         entry : Entries \cup {Null}]
      /\ corrupt' \/ dqBroken => dqBroken'
      /\ ~corrupt' => \A u \in Sides : side'[u].owner = f[u].owner
  BY <1>0, <1>1, <1>3, SucceedKeeps
<1>6. author' \in [Entries -> DqTxns \cup {DqNoTxn, Null}]
  BY <1>0, <1>1, <1>2 DEF Typed
<1>7. /\ atoms' \in [DqTxns -> AtomLists]
      /\ \A y \in DqTxns :
           /\ \A u \in Sides : u \in Range(atoms[y]) => u \in Range(atoms'[y])
           /\ \A u \in Sides : u \in Range(atoms'[y]) => u \in Range(atoms[y])
                                                         \/ (y = x /\ u = s)
      /\ x \in DqTxns /\ ~dqBroken => s \in Range(atoms'[x])
  <2>1. CASE x # DqNoTxn /\ side[s].owner # x
    <3>1. atoms' = [atoms EXCEPT ![x] = Append(@, s)] /\ x \in DqTxns
      BY <1>1, <2>1 DEF NewAtoms
    <3>2. atoms \in [DqTxns -> AtomLists]
      BY <1>0 DEF Typed
    <3>3. s \notin Range(atoms[x])
      BY <1>0, <1>1, <2>1, <3>1 DEF AtomsHold
    <3>4. Append(atoms[x], s) \in AtomLists
          /\ Range(Append(atoms[x], s)) = Range(atoms[x]) \cup {s}
      BY <3>1, <3>2, <3>3, AppendAtom
    <3>5. \A y \in DqTxns : atoms'[y] = IF y = x THEN Append(atoms[x], s) ELSE atoms[y]
      BY <3>1, <3>2
    <3>6. atoms' \in [DqTxns -> AtomLists]
      BY <3>1, <3>2, <3>4
    <3>. QED  BY <3>1, <3>4, <3>5, <3>6
  <2>2. CASE x = DqNoTxn
    BY <1>0, <1>1, <2>2, DequeAssumption DEF NewAtoms, Typed
  <2>3. CASE x # DqNoTxn /\ side[s].owner = x
    <3>1. atoms' = atoms /\ x \in DqTxns
      BY <1>1, <2>3 DEF NewAtoms
    <3>2. ~dqBroken => s \in Range(atoms[x])
      BY <2>3, <3>1 DEF HeldInv, HoldersHave
    <3>. QED  BY <1>0, <3>1, <3>2 DEF Typed
  <2>. QED  BY <2>1, <2>2, <2>3
<1>8. Typed'
  BY <1>0, <1>1, <1>5, <1>6, <1>7 DEF Typed
<1>9. side[s].owner \in {DqNoTxn, x}
  BY <1>0, <1>1, NotLocked
<1>10. ASSUME ~corrupt' PROVE AtomsHold'
  <2>. SUFFICES ASSUME NEW y \in DqTxns, NEW u \in Sides, Alive(y)', u \in Range(atoms'[y])
                PROVE  side'[u].owner = y
    BY DEF AtomsHold
  <2>1. side'[u].owner = IF u = s THEN x ELSE side[u].owner
    BY <1>4, <1>5, <1>10
  <2>2. CASE u \in Range(atoms[y])
    <3>1. side[u].owner = y
      BY <1>0, <1>1, <2>2 DEF AtomsHold, Alive
    <3>. QED  BY <1>9, <2>1, <3>1, DequeAssumption
  <2>3. CASE y = x /\ u = s
    BY <2>1, <2>3
  <2>. QED  BY <1>7, <2>2, <2>3
<1>11. ASSUME ~dqBroken' PROVE HoldersHave'
  <2>. SUFFICES ASSUME NEW y \in DqTxns, NEW u \in Sides, side'[u].owner = y
                PROVE  Alive(y)' /\ u \in Range(atoms'[y])
    BY DEF HoldersHave
  <2>1. side'[u].owner = IF u = s THEN x ELSE side[u].owner
    BY <1>4, <1>5, <1>11
  <2>2. ~dqBroken /\ HoldersHave
    BY <1>5, <1>11 DEF HeldInv
  <2>3. CASE u = s
    BY <1>1, <1>7, <2>1, <2>2, <2>3 DEF Alive
  <2>4. CASE u # s
    BY <1>1, <1>7, <2>1, <2>2, <2>4 DEF HoldersHave, Alive
  <2>. QED  BY <2>3, <2>4
<1>. QED  BY <1>5, <1>8, <1>10, <1>11 DEF HeldInv

\* A pop changes no atoms: the side is the caller's, or the deque is broken.
LEMMA PopHeld ==
  ASSUME HeldInv, NEW f \in SidesType, NEW e \in Entries \cup {Null}, NEW weak,
         ~corrupt, DqSucceed(f, e, weak), UNCHANGED <<atoms, dqStatus, author>>,
         \A s \in Sides : \/ f[s].owner = side[s].owner
                          \/ side[s].owner = DqNoTxn /\ weak
  PROVE  HeldInv'
<1>1. Typed /\ AtomsHold /\ (~dqBroken => HoldersHave)
  BY DEF HeldInv
<1>2. /\ data' \in Seq(Entries) /\ side' \in SidesType /\ corrupt' \in BOOLEAN
      /\ dqBroken' \in BOOLEAN
      /\ dqAnswer' \in [errno : {"NONE", "TXN_LOCKED_OPERATION", "DATA_NO_ITEMS"},
                         entry : Entries \cup {Null}]
      /\ corrupt' \/ weak \/ dqBroken => dqBroken'
      /\ ~corrupt' => \A u \in Sides : side'[u].owner = f[u].owner
  BY <1>1, SucceedKeeps
<1>3. Typed'
  BY <1>1, <1>2 DEF Typed
<1>4. ASSUME ~corrupt' PROVE AtomsHold'
  BY <1>1, <1>2, <1>4, DequeAssumption DEF AtomsHold, Alive
<1>5. ASSUME ~dqBroken' PROVE HoldersHave'
  BY <1>1, <1>2, <1>5 DEF HoldersHave, Alive
<1>. QED  BY <1>2, <1>3, <1>4, <1>5 DEF HeldInv

LEMMA PopPendingHeld ==
  ASSUME HeldInv, NEW x \in DqTxns \cup {DqNoTxn}, NEW s \in Sides, PopPending(x, s)
  PROVE  HeldInv'
<1>. DEFINE f == [side EXCEPT ![s].pending = Tail(@)]
<1>1. side[s] \in [pending : Seq(Entries), removed : Entries \cup {Null, DqEnd},
                   owner : DqTxns \cup {DqNoTxn}]
  BY DEF HeldInv, Typed, SidesType
<1>2. side[s].pending # <<>>
  BY DEF PopPending
<1>3. Tail(side[s].pending) \in Seq(Entries) /\ Head(side[s].pending) \in Entries
  BY <1>1, <1>2
<1>4. f \in SidesType
  BY <1>1, <1>3 DEF HeldInv, Typed, SidesType
<1>5. \A u \in Sides : f[u].owner = side[u].owner
  BY DEF HeldInv, Typed, SidesType
<1>6. DqSucceed(f, Head(side[s].pending), FALSE)
  BY DEF PopPending
<1>7. UNCHANGED <<atoms, dqStatus, author>> /\ ~corrupt
  BY DEF PopPending, DqOpen
<1>. QED  BY <1>3, <1>4, <1>5, <1>6, <1>7, PopHeld

LEMMA PopDataHeld ==
  ASSUME HeldInv, NEW x \in DqTxns \cup {DqNoTxn}, NEW s \in Sides, PopData(x, s)
  PROVE  HeldInv'
<1>. DEFINE d == From(s, data)
            o == side[Other(s)].removed
            r == side[s].removed
            i == IF r = Null THEN 1 ELSE Place(r, d)
            next == IF i = Len(d) THEN DqEnd ELSE d[i + 1]
            gone == CASE o = Null -> 0 [] o = DqEnd -> Len(d)
                      [] o \in Range(d) -> Len(d) - Place(o, d) [] OTHER -> Len(d)
            f == [side EXCEPT ![s].removed = next, ![s].owner = x]
            weak == \/ x # DqNoTxn /\ side[s].owner # x
                    \/ i + gone > Len(d)
<1>1. /\ Typed /\ AtomsHold /\ ~corrupt /\ ~Locked(x, s) /\ HasData(s)
      /\ UNCHANGED <<atoms, dqStatus, author>>
  BY DEF HeldInv, PopData, DqOpen
<1>2. side[s] \in [pending : Seq(Entries), removed : Entries \cup {Null, DqEnd},
                   owner : DqTxns \cup {DqNoTxn}]
  BY <1>1 DEF Typed, SidesType
<1>3. CASE r \notin {Null} \cup Range(d)
  <2>1. corrupt' = TRUE /\ dqBroken' = TRUE /\ UNCHANGED <<data, side, dqAnswer>>
    BY <1>3 DEF PopData
  <2>2. Typed'
    BY <1>1, <2>1 DEF Typed
  <2>. QED  BY <2>1, <2>2 DEF HeldInv
<1>4. CASE r \in {Null} \cup Range(d)
  <2>1. DqSucceed(f, d[i], weak)
    BY <1>4 DEF PopData
  <2>2. data \in Seq(Entries) /\ d \in Seq(Entries) /\ Len(d) = Len(data) /\ Len(d) > 0
    <3>1. data \in Seq(Entries) /\ data # <<>>
      BY <1>1 DEF Typed, HasData
    <3>2. Len(data) > 0
      BY <3>1
    <3>. QED  BY <3>1, <3>2, FromTyped
  <2>. HIDE DEF d
  <2>3. i \in 1 .. Len(d)
    <3>1. CASE r = Null
      BY <2>2, <3>1
    <3>2. CASE r # Null /\ r \in Range(d)
      BY <2>2, <3>2, PlaceIs
    <3>. QED  BY <1>4, <3>1, <3>2
  <2>. HIDE DEF i
  <2>4. d[i] \in Entries /\ next \in Entries \cup {DqEnd}
    BY <2>2, <2>3
  <2>. HIDE DEF next, gone
  <2>5. f \in SidesType
    BY <1>1, <1>2, <2>4 DEF Typed, SidesType
  <2>6. \A u \in Sides : f[u].owner = IF u = s THEN x ELSE side[u].owner
    BY <1>1 DEF Typed, SidesType
  <2>7. side[s].owner \in {DqNoTxn, x}
    BY <1>1, NotLocked
  <2>8. \A u \in Sides : \/ f[u].owner = side[u].owner
                         \/ side[u].owner = DqNoTxn /\ weak
    BY <2>6, <2>7
  <2>. HIDE DEF f, weak
  <2>. QED  BY <1>1, <2>1, <2>4, <2>5, <2>8, PopHeld
<1>. QED  BY <1>3, <1>4

LEMMA PopOtherHeld ==
  ASSUME HeldInv, NEW x \in DqTxns \cup {DqNoTxn}, NEW s \in Sides, PopOther(x, s)
  PROVE  HeldInv'
<1>. DEFINE o == Other(s)
            p == side[o].pending
            f == [side EXCEPT ![o].pending = SubSeq(p, 1, Len(p) - 1)]
<1>1. side[o] \in [pending : Seq(Entries), removed : Entries \cup {Null, DqEnd},
                   owner : DqTxns \cup {DqNoTxn}]
  BY Two DEF HeldInv, Typed, SidesType
<1>2. p \in Seq(Entries) /\ p # <<>>
  BY <1>1 DEF PopOther
<1>3. SubSeq(p, 1, Len(p) - 1) \in Seq(Entries) /\ p[Len(p)] \in Entries
  <2>1. Len(p) \in 1 .. Len(p)
    BY <1>2
  <2>2. \A i \in 1 .. Len(p) - 1 : p[i] \in Entries
    BY <1>2
  <2>. QED  BY <1>2, <2>1, <2>2
<1>4. DqSucceed(f, p[Len(p)], side[o].owner # x)
  BY DEF PopOther
<1>5. UNCHANGED <<atoms, dqStatus, author>> /\ ~corrupt
  BY DEF PopOther, DqOpen
<1>6. side \in SidesType /\ o \in Sides
  BY Two DEF HeldInv, Typed
<1>. HIDE DEF o, p
<1>7. f \in SidesType
  BY <1>1, <1>3, <1>6 DEF SidesType
<1>8. \A u \in Sides : f[u].owner = side[u].owner
  BY <1>6 DEF SidesType
<1>. QED  BY <1>3, <1>4, <1>5, <1>7, <1>8, PopHeld

\* A call that fails changes the answer, and dooms its transaction.
LEMMA FailHeld ==
  ASSUME HeldInv, NEW x \in DqTxns \cup {DqNoTxn},
         NEW e \in {"TXN_LOCKED_OPERATION", "DATA_NO_ITEMS"}, DqOpen(x), DqFail(x, e)
  PROVE  HeldInv'
<1>1. UNCHANGED <<data, side, atoms, author, corrupt, dqBroken>>
  BY DEF DqFail
<1>2. dqAnswer' \in [errno : {"NONE", "TXN_LOCKED_OPERATION", "DATA_NO_ITEMS"},
                     entry : Entries \cup {Null}]
  BY DEF DqFail
<1>3. /\ dqStatus' \in [DqTxns -> {"open", "failed", "committed", "rolledback"}]
      /\ \A y \in DqTxns : Alive(y)' <=> Alive(y)
  <2>1. CASE x = DqNoTxn
    BY <2>1 DEF DqFail, HeldInv, Typed, Alive
  <2>2. CASE x # DqNoTxn
    BY <2>2 DEF DqFail, HeldInv, Typed, Alive, DqOpen
  <2>. QED  BY <2>1, <2>2
<1>4. Typed'
  BY <1>1, <1>2, <1>3 DEF HeldInv, Typed
<1>. QED  BY <1>1, <1>3, <1>4 DEF HeldInv, AtomsHold, HoldersHave

\* One atom applied or reverted frees its side and no other.
LEMMA ApplyFrees ==
  ASSUME NEW f \in SidesType, NEW s \in Sides
  PROVE  /\ ApplyAtom(f, s) \in SidesType
         /\ \A u \in Sides :
              ApplyAtom(f, s)[u].owner = IF u = s THEN DqNoTxn ELSE f[u].owner
  BY DEF ApplyAtom, SidesType

LEMMA RevertFrees ==
  ASSUME NEW f \in SidesType, NEW s \in Sides
  PROVE  /\ RevertAtom(f, s) \in SidesType
         /\ \A u \in Sides :
              RevertAtom(f, s)[u].owner = IF u = s THEN DqNoTxn ELSE f[u].owner
<1>. DEFINE t == IF f[s].owner = f["front"].owner THEN "front" ELSE "back"
            g == [f EXCEPT ![t].pending = <<>>, ![t].removed = Null]
<1>1. t \in Sides /\ RevertAtom(f, s) = ApplyAtom(g, s)
  BY Two DEF RevertAtom, ApplyAtom
<1>. HIDE DEF t
<1>2. g \in SidesType /\ \A u \in Sides : g[u].owner = f[u].owner
  <2>. DEFINE R == [pending : Seq(Entries), removed : Entries \cup {Null, DqEnd},
                    owner : DqTxns \cup {DqNoTxn}]
  <2>1. <<>> \in Seq(Entries)
    OBVIOUS
  <2>2. f \in [Sides -> R]
    BY DEF SidesType
  <2>3. g \in [Sides -> R]
    <3>1. f[t] \in R
      BY <1>1, <2>2
    <3>2. [f[t] EXCEPT !.pending = <<>>, !.removed = Null] \in R
      BY <2>1, <3>1
    <3>3. g = [f EXCEPT ![t] = [f[t] EXCEPT !.pending = <<>>, !.removed = Null]]
      BY <1>1, <2>2
    <3>. HIDE DEF R
    <3>. QED  BY <2>2, <3>2, <3>3
  <2>4. \A u \in Sides : g[u].owner = f[u].owner
    BY <1>1, <2>2
  <2>. QED  BY <2>3, <2>4 DEF SidesType
<1>. HIDE DEF g
<1>3. /\ ApplyAtom(g, s) \in SidesType
      /\ \A u \in Sides :
           ApplyAtom(g, s)[u].owner = IF u = s THEN DqNoTxn ELSE g[u].owner
  BY <1>2, ApplyFrees
<1>. QED  BY <1>1, <1>2, <1>3

\* The atoms of a transaction free the sides it has atoms of.
LEMMA AtomsFree ==
  ASSUME Typed, NEW x \in DqTxns, atoms[x] # <<>>
  PROVE  /\ AtomsApplied(x) \in SidesType /\ AtomsReverted(x) \in SidesType
         /\ \A u \in Sides :
              /\ AtomsApplied(x)[u].owner =
                   IF u \in Range(atoms[x]) THEN DqNoTxn ELSE side[u].owner
              /\ AtomsReverted(x)[u].owner =
                   IF u \in Range(atoms[x]) THEN DqNoTxn ELSE side[u].owner
<1>1. side \in SidesType /\ atoms[x] \in AtomLists
  BY DEF Typed
<1>2. ASSUME NEW s \in Sides, atoms[x] = <<s>>, Range(atoms[x]) = {s}
      PROVE  /\ AtomsApplied(x) \in SidesType /\ AtomsReverted(x) \in SidesType
             /\ \A u \in Sides :
                  /\ AtomsApplied(x)[u].owner =
                       IF u \in Range(atoms[x]) THEN DqNoTxn ELSE side[u].owner
                  /\ AtomsReverted(x)[u].owner =
                       IF u \in Range(atoms[x]) THEN DqNoTxn ELSE side[u].owner
  <2>1. Len(atoms[x]) = 1 /\ atoms[x][1] = s
    BY <1>2
  <2>2. AtomsApplied(x) = ApplyAtom(side, s) /\ AtomsReverted(x) = RevertAtom(side, s)
    BY <2>1 DEF AtomsApplied, AtomsReverted
  <2>3. \A u \in Sides : u \in Range(atoms[x]) <=> u = s
    BY <1>2
  <2>4. /\ ApplyAtom(side, s) \in SidesType /\ RevertAtom(side, s) \in SidesType
        /\ \A u \in Sides :
             /\ ApplyAtom(side, s)[u].owner = IF u = s THEN DqNoTxn ELSE side[u].owner
             /\ RevertAtom(side, s)[u].owner = IF u = s THEN DqNoTxn ELSE side[u].owner
    BY <1>1, ApplyFrees, RevertFrees
  <2>. QED  BY <2>2, <2>3, <2>4
<1>3. ASSUME NEW s \in Sides, NEW t \in Sides, atoms[x] = <<s, t>>,
             Range(atoms[x]) = Sides, s # t
      PROVE  /\ AtomsApplied(x) \in SidesType /\ AtomsReverted(x) \in SidesType
             /\ \A u \in Sides :
                  /\ AtomsApplied(x)[u].owner =
                       IF u \in Range(atoms[x]) THEN DqNoTxn ELSE side[u].owner
                  /\ AtomsReverted(x)[u].owner =
                       IF u \in Range(atoms[x]) THEN DqNoTxn ELSE side[u].owner
  <2>1. Len(atoms[x]) = 2 /\ atoms[x][1] = s /\ atoms[x][2] = t
    BY <1>3
  <2>2. /\ AtomsApplied(x) = ApplyAtom(ApplyAtom(side, s), t)
        /\ AtomsReverted(x) = RevertAtom(RevertAtom(side, s), t)
    BY <2>1 DEF AtomsApplied, AtomsReverted
  <2>3. ApplyAtom(side, s) \in SidesType /\ RevertAtom(side, s) \in SidesType
    BY <1>1, ApplyFrees, RevertFrees
  <2>4. AtomsApplied(x) \in SidesType /\ AtomsReverted(x) \in SidesType
    BY <2>2, <2>3, ApplyFrees, RevertFrees
  <2>5. \A u \in Sides : u = s \/ u = t
    BY <1>3 DEF Sides
  <2>6. \A u \in Sides : AtomsApplied(x)[u].owner = DqNoTxn
    <3>. DEFINE g == ApplyAtom(side, s)
    <3>1. g[s].owner = DqNoTxn
      BY <1>1, ApplyFrees
    <3>2. g \in SidesType /\ AtomsApplied(x) = ApplyAtom(g, t)
      BY <2>2, <2>3
    <3>. HIDE DEF g
    <3>3. \A u \in Sides : AtomsApplied(x)[u].owner = IF u = t THEN DqNoTxn ELSE g[u].owner
      BY <3>2, ApplyFrees
    <3>. QED  BY <2>5, <3>1, <3>3
  <2>7. \A u \in Sides : AtomsReverted(x)[u].owner = DqNoTxn
    <3>. DEFINE g == RevertAtom(side, s)
    <3>1. g[s].owner = DqNoTxn
      BY <1>1, RevertFrees
    <3>2. g \in SidesType /\ AtomsReverted(x) = RevertAtom(g, t)
      BY <2>2, <2>3
    <3>. HIDE DEF g
    <3>3. \A u \in Sides : AtomsReverted(x)[u].owner = IF u = t THEN DqNoTxn ELSE g[u].owner
      BY <3>2, RevertFrees
    <3>. QED  BY <2>5, <3>1, <3>3
  <2>. QED  BY <1>3, <2>4, <2>6, <2>7
<1>. QED  BY <1>1, <1>2, <1>3, RangeOf, Two DEF AtomLists

LEMMA EndHeld ==
  ASSUME HeldInv, NEW x \in DqTxns, NEW f, NEW how \in {"committed", "rolledback"},
         NEW weak, EndTxn(x, f, how, weak), Alive(x),
         atoms[x] # <<>> => /\ f \in SidesType
                            /\ \A u \in Sides : f[u].owner =
                                 IF u \in Range(atoms[x]) THEN DqNoTxn ELSE side[u].owner
  PROVE  HeldInv'
<1>1. /\ Typed /\ ~corrupt /\ AtomsHold /\ UNCHANGED <<atoms, author>>
      /\ dqStatus' = [dqStatus EXCEPT ![x] = how] /\ (~dqBroken => HoldersHave)
  BY DEF HeldInv, EndTxn
<1>2. /\ dqStatus' \in [DqTxns -> {"open", "failed", "committed", "rolledback"}]
      /\ \A y \in DqTxns : Alive(y)' <=> Alive(y) /\ y # x
  BY <1>1 DEF Typed, Alive
<1>3. CASE atoms[x] = <<>>
  <2>1. /\ dqAnswer' = [errno |-> "NONE", entry |-> Null]
        /\ UNCHANGED <<data, side, corrupt, dqBroken>>
    BY <1>3 DEF EndTxn
  <2>2. Typed'
    BY <1>1, <1>2, <2>1 DEF Typed
  <2>3. AtomsHold'
    BY <1>1, <1>2, <2>1 DEF AtomsHold
  <2>4. ~dqBroken' => HoldersHave'
    <3>1. Range(atoms[x]) = {}
      BY <1>3, RangeOf
    <3>. QED  BY <1>1, <1>2, <2>1, <3>1 DEF HoldersHave
  <2>. QED  BY <1>1, <2>1, <2>2, <2>3, <2>4 DEF HeldInv
<1>4. CASE atoms[x] # <<>>
  <2>1. DqSucceed(f, Null, weak)
    BY <1>4 DEF EndTxn
  <2>2. /\ data' \in Seq(Entries) /\ side' \in SidesType /\ corrupt' \in BOOLEAN
        /\ dqBroken' \in BOOLEAN
        /\ dqAnswer' \in [errno : {"NONE", "TXN_LOCKED_OPERATION", "DATA_NO_ITEMS"},
                           entry : Entries \cup {Null}]
        /\ corrupt' \/ weak \/ dqBroken => dqBroken'
        /\ ~corrupt' => \A u \in Sides : side'[u].owner = f[u].owner
    BY <1>1, <1>4, <2>1, SucceedKeeps
  <2>3. Typed'
    BY <1>1, <1>2, <2>2 DEF Typed
  <2>4. ~corrupt' => \A u \in Sides : side'[u].owner =
                          IF u \in Range(atoms[x]) THEN DqNoTxn ELSE side[u].owner
    BY <1>4, <2>2
  <2>5. ASSUME ~corrupt' PROVE AtomsHold'
    <3>. SUFFICES ASSUME NEW y \in DqTxns, NEW u \in Sides, Alive(y), y # x,
                         u \in Range(atoms[y])
                  PROVE  side'[u].owner = y
      BY <1>1, <1>2 DEF AtomsHold
    <3>1. side[u].owner = y
      BY <1>1 DEF AtomsHold
    <3>2. u \notin Range(atoms[x])
      BY <1>1, <3>1 DEF AtomsHold
    <3>. QED  BY <2>4, <2>5, <3>1, <3>2
  <2>6. ASSUME ~dqBroken' PROVE HoldersHave'
    <3>. SUFFICES ASSUME NEW y \in DqTxns, NEW u \in Sides, side'[u].owner = y
                  PROVE  Alive(y) /\ y # x /\ u \in Range(atoms[y])
      BY <1>1, <1>2 DEF HoldersHave
    <3>1. u \notin Range(atoms[x]) /\ side[u].owner = y
      BY <2>2, <2>4, <2>6, DequeAssumption
    <3>2. HoldersHave
      BY <1>1, <2>2, <2>6
    <3>. QED  BY <3>1, <3>2 DEF HoldersHave
  <2>. QED  BY <2>2, <2>3, <2>5, <2>6 DEF HeldInv
<1>. QED  BY <1>3, <1>4

LEMMA InitHeld == DqInit => HeldInv
<1>. SUFFICES ASSUME DqInit PROVE HeldInv
  OBVIOUS
<1>1. <<>> \in Seq(Entries) /\ <<>> \in AtomLists
  BY DEF AtomLists
<1>2. side \in SidesType /\ \A s \in Sides : side[s].owner = DqNoTxn
  BY <1>1 DEF DqInit, SidesType
<1>3. Typed
  BY <1>1, <1>2 DEF DqInit, Typed
<1>4. \A x \in DqTxns : Range(atoms[x]) = {}
  BY RangeOf DEF DqInit
<1>5. AtomsHold /\ HoldersHave
  BY <1>2, <1>4, DequeAssumption DEF AtomsHold, HoldersHave
<1>. QED  BY <1>3, <1>5 DEF HeldInv, DqInit

LEMMA NextHeld == HeldInv /\ [DqNext]_dqvars => HeldInv'
<1>. SUFFICES ASSUME HeldInv, [DqNext]_dqvars PROVE HeldInv'
  OBVIOUS
<1>1. ASSUME NEW x \in DqTxns \cup {DqNoTxn}, NEW s \in Sides, Refuse(x, s)
      PROVE  HeldInv'
  BY <1>1, FailHeld DEF Refuse
<1>2. ASSUME NEW x \in DqTxns \cup {DqNoTxn}, NEW s \in Sides, NoItems(x, s)
      PROVE  HeldInv'
  BY <1>2, FailHeld DEF NoItems
<1>3. ASSUME NEW x \in DqTxns, DqCommitTxn(x) PROVE HeldInv'
  <2>1. EndTxn(x, AtomsApplied(x), "committed", FALSE) /\ Alive(x) /\ Typed
    BY <1>3 DEF DqCommitTxn, Alive, HeldInv
  <2>. QED  BY <2>1, AtomsFree, EndHeld
<1>4. ASSUME NEW x \in DqTxns, DqRollbackTxn(x) PROVE HeldInv'
  <2>1. /\ EndTxn(x, AtomsReverted(x), "rolledback", atoms[x] = <<"back", "front">>)
        /\ Alive(x) /\ Typed
    BY <1>4 DEF DqRollbackTxn, Alive, HeldInv
  <2>. QED  BY <2>1, AtomsFree, EndHeld
<1>5. CASE UNCHANGED dqvars
  BY <1>5 DEF dqvars, HeldInv, Typed, AtomsHold, HoldersHave, Alive
<1>. QED  BY <1>1, <1>2, <1>3, <1>4, <1>5, PushHeld, PopPendingHeld, PopDataHeld,
             PopOtherHeld DEF DqNext

LEMMA HeldInvariant == DqSpec => []HeldInv
  BY InitHeld, NextHeld, PTL DEF DqSpec

\* The state of the deque keeps its types (DqTypeOK).
THEOREM DequeTypes == DqSpec => []DqTypeOK
<1>1. AtomLists \subseteq UNION {[1 .. n -> Sides] : n \in 0 .. 2}
  <2>1. <<>> \in [1 .. 0 -> Sides]
    OBVIOUS
  <2>2. \A s \in Sides : <<s>> \in [1 .. 1 -> Sides]
    OBVIOUS
  <2>3. \A s, t \in Sides : <<s, t>> \in [1 .. 2 -> Sides]
    OBVIOUS
  <2>. QED  BY <2>1, <2>2, <2>3, Two DEF AtomLists
<1>2. HeldInv => DqTypeOK
  BY <1>1 DEF HeldInv, Typed, SidesType, DqTypeOK
<1>. QED  BY <1>2, HeldInvariant, PTL

\* A side is held exactly by the transactions that have its atom and have not
\* ended, so that their end frees it, until a weakness is met (HeldIffAtom).
THEOREM SidesAreFreed == DqSpec => []HeldIffAtom
<1>1. HeldInv => HeldIffAtom
  BY DEF HeldInv, HeldIffAtom, AtomsHold, HoldersHave, Alive
<1>. QED  BY <1>1, HeldInvariant, PTL

-----------------------------------------------------------------------------
(* The lists                                                               *)

\* The pointer r of a side has passed the first n entries of d from there.
Passed(s, r, d, n) ==
  /\ n \in 0 .. Len(d)
  /\ r = Null => n = 0
  /\ r = DqEnd => n = Len(d)
  /\ r \notin {Null, DqEnd} => n < Len(d) /\ r = From(s, d)[n + 1]

Once(d) == \A i, j \in DOMAIN d : d[i] = d[j] => i = j

\* What is left of d when m entries are gone at the front and n at the back.
Cut(d, m, n) == SubSeq(d, m + 1, Len(d) - n)

LEMMA CutIs ==
  ASSUME NEW d \in Seq(Entries), NEW m \in Nat, NEW n \in Nat, m + n <= Len(d)
  PROVE  /\ Cut(d, m, n) \in Seq(Entries)
         /\ Len(Cut(d, m, n)) = Len(d) - m - n
         /\ \A i \in 1 .. Len(d) - m - n : Cut(d, m, n)[i] = d[m + i]
<1>1. Len(d) \in Nat /\ m + 1 \in Int /\ Len(d) - n \in Int
  OBVIOUS
<1>2. \A i \in m + 1 .. Len(d) - n : d[i] \in Entries
  <2>1. \A i \in m + 1 .. Len(d) - n : i \in 1 .. Len(d)
    BY <1>1
  <2>. QED  BY <2>1
<1>3. /\ Cut(d, m, n) \in Seq(Entries)
      /\ Len(Cut(d, m, n)) = IF m + 1 <= Len(d) - n THEN (Len(d) - n) - (m + 1) + 1 ELSE 0
      /\ \A i \in 1 .. (Len(d) - n) - (m + 1) + 1 : Cut(d, m, n)[i] = d[(m + 1) + i - 1]
  BY <1>1, <1>2, SubSeqProperties DEF Cut
<1>4. Len(Cut(d, m, n)) = Len(d) - m - n
  BY <1>1, <1>3
<1>5. (Len(d) - n) - (m + 1) + 1 = Len(d) - m - n
  BY <1>1
<1>6. \A i \in 1 .. Len(d) - m - n : (m + 1) + i - 1 = m + i
  BY <1>1
<1>. QED  BY <1>3, <1>4, <1>5, <1>6

LEMMA CutFront ==
  ASSUME NEW d \in Seq(Entries), NEW n \in Nat, n <= Len(d)
  PROVE  /\ Cut(d, n, 0) \in Seq(Entries)
         /\ Len(Cut(d, n, 0)) = Len(d) - n
         /\ \A i \in 1 .. Len(d) - n : Cut(d, n, 0)[i] = d[n + i]
<1>1. 0 \in Nat /\ n + 0 <= Len(d) /\ Len(d) - n - 0 = Len(d) - n
  OBVIOUS
<1>2. /\ Cut(d, n, 0) \in Seq(Entries) /\ Len(Cut(d, n, 0)) = Len(d) - n - 0
      /\ \A i \in 1 .. Len(d) - n - 0 : Cut(d, n, 0)[i] = d[n + i]
  BY <1>1, CutIs, Zenon
<1>. QED  BY <1>1, <1>2

LEMMA ConcatIs ==
  ASSUME NEW p \in Seq(Entries), NEW q \in Seq(Entries)
  PROVE  /\ p \o q \in Seq(Entries)
         /\ Len(p \o q) = Len(p) + Len(q)
         /\ \A i \in 1 .. Len(p) + Len(q) :
              (p \o q)[i] = IF i <= Len(p) THEN p[i] ELSE q[i - Len(p)]
  BY ConcatProperties

LEMMA ReverseIs ==
  ASSUME NEW d \in Seq(Entries)
  PROVE  /\ Reverse(d) \in Seq(Entries)
         /\ Len(Reverse(d)) = Len(d)
         /\ \A i \in 1 .. Len(d) : Reverse(d)[i] = d[Len(d) - i + 1]
  BY FromTyped, Two DEF From

\* In a list without repetitions an entry has one place.
LEMMA PlaceOnce ==
  ASSUME NEW d \in Seq(Entries), Once(d), NEW i \in 1 .. Len(d)
  PROVE  d[i] \in Range(d) /\ Place(d[i], d) = i
<1>1. d[i] \in Range(d) /\ DOMAIN d = 1 .. Len(d)
  BY DEF Range
<1>2. Place(d[i], d) \in 1 .. Len(d) /\ d[Place(d[i], d)] = d[i]
  BY <1>1, PlaceIs
<1>. QED  BY <1>1, <1>2 DEF Once

LEMMA FromOnce ==
  ASSUME NEW s \in Sides, NEW d \in Seq(Entries), Once(d)
  PROVE  Once(From(s, d))
<1>. SUFFICES ASSUME NEW i \in 1 .. Len(d), NEW j \in 1 .. Len(d),
                     From(s, d)[i] = From(s, d)[j]
              PROVE  i = j
  BY FromTyped DEF Once
<1>1. CASE s = "front"
  BY <1>1 DEF From, Once
<1>2. CASE s # "front"
  <2>1. d[Len(d) - i + 1] = d[Len(d) - j + 1]
    BY <1>2, FromTyped
  <2>2. Len(d) - i + 1 \in DOMAIN d /\ Len(d) - j + 1 \in DOMAIN d
    OBVIOUS
  <2>3. Len(d) - i + 1 = Len(d) - j + 1
    BY <2>1, <2>2 DEF Once
  <2>. QED  BY <2>3
<1>. QED  BY <1>1, <1>2

\* The place of a pointer, seen from its side.
LEMMA PassedPlace ==
  ASSUME NEW s \in Sides, NEW d \in Seq(Entries), Once(d), NEW n,
         NEW r, r \notin {Null, DqEnd}, Passed(s, r, d, n)
  PROVE  /\ n \in 0 .. Len(d) - 1
         /\ r \in Range(d)
         /\ Place(r, From(s, d)) = n + 1
<1>1. n \in 0 .. Len(d) /\ n < Len(d) /\ r = From(s, d)[n + 1]
  BY DEF Passed
<1>2. n + 1 \in 1 .. Len(From(s, d))
  BY <1>1, FromTyped
<1>3. Place(From(s, d)[n + 1], From(s, d)) = n + 1 /\ From(s, d)[n + 1] \in Range(From(s, d))
  BY <1>2, FromTyped, FromOnce, PlaceOnce
<1>. QED  BY <1>1, <1>3, FromRange

\* A pointer that does not dangle has passed some entries.
LEMMA PassesSome ==
  ASSUME NEW s \in Sides, NEW d \in Seq(Entries),
         NEW r, r \in {Null, DqEnd} \cup Range(d)
  PROVE  \E n \in Nat : Passed(s, r, d, n)
<1>1. CASE r = Null
  BY <1>1, DequeAssumption DEF Passed
<1>2. CASE r = DqEnd
  BY <1>2, DequeAssumption DEF Passed
<1>3. CASE r \notin {Null, DqEnd}
  <2>. DEFINE p == Place(r, From(s, d))
  <2>1. p \in 1 .. Len(d) /\ From(s, d)[p] = r
    BY <1>3, FromTyped, FromRange, PlaceIs
  <2>. HIDE DEF p
  <2>2. p - 1 \in Nat /\ Passed(s, r, d, p - 1)
    BY <1>3, <2>1 DEF Passed
  <2>. QED  BY <2>2
<1>. QED  BY <1>1, <1>2, <1>3

LEMMA UnlinkedIs ==
  ASSUME NEW s \in Sides, NEW d \in Seq(Entries), Once(d),
         NEW r, r \in {Null, DqEnd} \cup Range(d), NEW n, Passed(s, r, d, n)
  PROVE  Unlinked(r, From(s, d)) = Cut(From(s, d), n, 0)
<1>0. From(s, d) \in Seq(Entries) /\ Len(From(s, d)) = Len(d) /\ Len(d) \in Nat
  BY FromTyped
<1>1. CASE r = Null
  <2>1. n = 0
    BY <1>1 DEF Passed
  <2>2. Unlinked(r, From(s, d)) = From(s, d)
    BY <1>1, DequeAssumption DEF Unlinked
  <2>3. SubSeq(From(s, d), 1, Len(From(s, d))) = From(s, d)
    BY <1>0, SubSeqFull
  <2>. QED  BY <1>0, <2>1, <2>2, <2>3 DEF Cut
<1>2. CASE r = DqEnd
  <2>1. n = Len(d) /\ r # Null
    BY <1>2, DequeAssumption DEF Passed
  <2>2. Unlinked(r, From(s, d)) = <<>>
    BY <1>2, <2>1 DEF Unlinked
  <2>3. SubSeq(From(s, d), Len(d) + 1, Len(d)) = <<>>
    BY <1>0, SubSeqEmpty
  <2>. QED  BY <1>0, <2>1, <2>2, <2>3 DEF Cut
<1>3. CASE r \notin {Null, DqEnd}
  <2>1. n \in 0 .. Len(d) - 1 /\ Place(r, From(s, d)) = n + 1
    BY <1>3, PassedPlace
  <2>2. Unlinked(r, From(s, d)) = SubSeq(From(s, d), n + 1, Len(From(s, d)))
    BY <1>3, <2>1 DEF Unlinked
  <2>3. Len(From(s, d)) - 0 = Len(From(s, d))
    BY <1>0
  <2>. QED  BY <2>2, <2>3 DEF Cut
<1>. QED  BY <1>1, <1>2, <1>3

\* The commit of the front and of the back, in places.
LEMMA MergedFront ==
  ASSUME NEW f \in SidesType, NEW d \in Seq(Entries), Once(d),
         f["front"].removed \in {Null, DqEnd} \cup Range(d),
         NEW n, Passed("front", f["front"].removed, d, n)
  PROVE  Merged("front", f, d) = f["front"].pending \o Cut(d, n, 0)
<1>1. From("front", d) = d
  BY DEF From
<1>2. Unlinked(f["front"].removed, From("front", d)) = Cut(From("front", d), n, 0)
  BY UnlinkedIs, Two
<1>. QED  BY <1>1, <1>2 DEF Merged, From

LEMMA MergedBack ==
  ASSUME NEW f \in SidesType, NEW d \in Seq(Entries), Once(d),
         f["back"].removed \in {Null, DqEnd} \cup Range(d),
         NEW n \in Nat, Passed("back", f["back"].removed, d, n)
  PROVE  Merged("back", f, d) = Cut(d, 0, n) \o Reverse(f["back"].pending)
<1>. DEFINE p == f["back"].pending
            c == Cut(Reverse(d), n, 0)
            w == Cut(d, 0, n)
<1>1. /\ p \in Seq(Entries) /\ Len(p) \in Nat /\ Len(d) \in Nat /\ n <= Len(d)
  BY Two DEF SidesType, Passed
<1>2. Merged("back", f, d) = Reverse(p \o c)
  <2>1. \A z : From("back", z) = Reverse(z)
    BY DEF From
  <2>2. Unlinked(f["back"].removed, From("back", d)) = Cut(From("back", d), n, 0)
    BY UnlinkedIs, Two
  <2>. QED  BY <2>1, <2>2 DEF Merged
<1>3. /\ c \in Seq(Entries) /\ Len(c) = Len(d) - n
      /\ \A i \in 1 .. Len(d) - n : c[i] = d[Len(d) - n - i + 1]
  <2>. DEFINE e == Reverse(d)
  <2>1. /\ e \in Seq(Entries) /\ Len(e) = Len(d) /\ c = Cut(e, n, 0)
        /\ \A i \in 1 .. Len(d) : e[i] = d[Len(d) - i + 1]
    BY ReverseIs
  <2>. HIDE DEF e, c
  <2>2. /\ c \in Seq(Entries) /\ Len(c) = Len(d) - n
        /\ \A i \in 1 .. Len(d) - n : c[i] = e[n + i]
    <3>1. n <= Len(e)
      BY <1>1, <2>1
    <3>2. /\ Cut(e, n, 0) \in Seq(Entries) /\ Len(Cut(e, n, 0)) = Len(e) - n
          /\ \A i \in 1 .. Len(e) - n : Cut(e, n, 0)[i] = e[n + i]
      BY <2>1, <3>1, CutFront
    <3>. QED  BY <2>1, <3>2
  <2>3. \A i \in 1 .. Len(d) - n : n + i \in 1 .. Len(d)
                                   /\ Len(d) - (n + i) + 1 = Len(d) - n - i + 1
    BY <1>1
  <2>4. \A i \in 1 .. Len(d) - n : e[n + i] = d[Len(d) - n - i + 1]
    BY <2>1, <2>3
  <2>. QED  BY <2>2, <2>4
<1>4. /\ w \in Seq(Entries) /\ Len(w) = Len(d) - n
      /\ \A i \in 1 .. Len(d) - n : w[i] = d[i]
  BY <1>1, CutIs
<1>. HIDE DEF p, c, w
<1>. DEFINE L == Len(p) + (Len(d) - n)
<1>5. /\ p \o c \in Seq(Entries) /\ Len(p \o c) = L
      /\ \A i \in 1 .. L : (p \o c)[i] = IF i <= Len(p) THEN p[i] ELSE c[i - Len(p)]
  <2>1. /\ p \o c \in Seq(Entries) /\ Len(p \o c) = Len(p) + Len(c)
        /\ \A i \in 1 .. Len(p) + Len(c) : (p \o c)[i] =
                             IF i <= Len(p) THEN p[i] ELSE c[i - Len(p)]
    BY <1>1, <1>3, ConcatIs
  <2>. QED  BY <1>3, <2>1
<1>6. /\ Reverse(p \o c) \in Seq(Entries) /\ Len(Reverse(p \o c)) = L
      /\ \A i \in 1 .. L : Reverse(p \o c)[i] = (p \o c)[L - i + 1]
  <2>. DEFINE e == p \o c
  <2>1. e \in Seq(Entries) /\ Len(e) = L
    BY <1>5
  <2>. HIDE DEF e, L
  <2>2. /\ Reverse(e) \in Seq(Entries) /\ Len(Reverse(e)) = Len(e)
        /\ \A i \in 1 .. Len(e) : Reverse(e)[i] = e[Len(e) - i + 1]
    BY <2>1, ReverseIs
  <2>. QED  BY <2>1, <2>2 DEF e
<1>7. /\ Reverse(p) \in Seq(Entries) /\ Len(Reverse(p)) = Len(p)
      /\ \A i \in 1 .. Len(p) : Reverse(p)[i] = p[Len(p) - i + 1]
  BY <1>1, ReverseIs
<1>8. /\ w \o Reverse(p) \in Seq(Entries) /\ Len(w \o Reverse(p)) = L
      /\ \A i \in 1 .. L : (w \o Reverse(p))[i] =
                             IF i <= Len(d) - n THEN w[i] ELSE Reverse(p)[i - (Len(d) - n)]
  <2>. DEFINE q == Reverse(p)
  <2>1. q \in Seq(Entries) /\ Len(q) = Len(p)
    BY <1>7
  <2>. HIDE DEF q
  <2>2. /\ w \o q \in Seq(Entries) /\ Len(w \o q) = Len(w) + Len(q)
        /\ \A i \in 1 .. Len(w) + Len(q) : (w \o q)[i] =
                             IF i <= Len(w) THEN w[i] ELSE q[i - Len(w)]
    BY <1>4, <2>1, ConcatIs
  <2>3. Len(w) + Len(q) = L
    BY <1>1, <1>4, <2>1
  <2>. QED  BY <1>4, <2>2, <2>3 DEF q
<1>9. ASSUME NEW i \in 1 .. L PROVE Reverse(p \o c)[i] = (w \o Reverse(p))[i]
  <2>1. L - i + 1 \in 1 .. L
    BY <1>1, <1>9
  <2>2. Reverse(p \o c)[i] = IF L - i + 1 <= Len(p) THEN p[L - i + 1]
                             ELSE c[L - i + 1 - Len(p)]
    <3>1. Reverse(p \o c)[i] = (p \o c)[L - i + 1]
      BY <1>6, <1>9
    <3>2. (p \o c)[L - i + 1] = IF L - i + 1 <= Len(p) THEN p[L - i + 1]
                               ELSE c[L - i + 1 - Len(p)]
      <4>. DEFINE q == p \o c
      <4>1. \A j \in 1 .. L : q[j] = IF j <= Len(p) THEN p[j] ELSE c[j - Len(p)]
        BY <1>5
      <4>2. L \in Nat
        BY <1>1
      <4>. HIDE DEF q, L
      <4>3. q[L - i + 1] = IF L - i + 1 <= Len(p) THEN p[L - i + 1]
                           ELSE c[L - i + 1 - Len(p)]
        BY <1>9, <2>1, <4>1, <4>2
      <4>. QED  BY <4>3, Zenon DEF q
    <3>. QED  BY <3>1, <3>2, Zenon
  <2>3. CASE i <= Len(d) - n
    <3>1. /\ ~(L - i + 1 <= Len(p)) /\ i \in 1 .. Len(d) - n
          /\ L - i + 1 - Len(p) \in 1 .. Len(d) - n
          /\ Len(d) - n - (L - i + 1 - Len(p)) + 1 = i
      BY <1>1, <2>3
    <3>2. c[L - i + 1 - Len(p)] = d[i]
      BY <1>3, <3>1
    <3>. QED  BY <1>4, <1>8, <2>2, <2>3, <3>1, <3>2
  <2>4. CASE ~(i <= Len(d) - n)
    <3>1. /\ L - i + 1 <= Len(p) /\ i - (Len(d) - n) \in 1 .. Len(p)
          /\ Len(p) - (i - (Len(d) - n)) + 1 = L - i + 1
      BY <1>1, <2>4
    <3>2. Reverse(p)[i - (Len(d) - n)] = p[L - i + 1]
      BY <1>7, <3>1
    <3>. QED  BY <1>8, <2>2, <2>4, <3>1, <3>2
  <2>. QED  BY <2>3, <2>4
<1>10. Reverse(p \o c) = w \o Reverse(p)
  <2>. HIDE DEF L
  <2>. QED  BY <1>6, <1>8, <1>9, SeqEqual
<1>. QED  BY <1>2, <1>10 DEF p, w

\* A pointer of the back keeps its place when the front is committed, unless
\* its entry is gone.
LEMMA BackKeeps ==
  ASSUME NEW d \in Seq(Entries), Once(d), NEW p \in Seq(Entries),
         Range(p) \cap Range(d) = {}, NEW a \in Nat, NEW b \in Nat,
         a + b <= Len(d), NEW r, Passed("back", r, d, b),
         r \in {Null, DqEnd} \cup Range(p \o Cut(d, a, 0)), r = DqEnd => p = <<>>
  PROVE  Passed("back", r, p \o Cut(d, a, 0), b)
<1>. DEFINE c == Cut(d, a, 0)
            D == p \o c
<1>0. /\ Len(d) \in Nat /\ Len(p) \in Nat /\ a <= Len(d)
  OBVIOUS
<1>1. /\ c \in Seq(Entries) /\ Len(c) = Len(d) - a
      /\ \A i \in 1 .. Len(d) - a : c[i] = d[a + i]
  BY <1>0, CutFront
<1>. HIDE DEF c
<1>2. /\ D \in Seq(Entries) /\ Len(D) = Len(p) + (Len(d) - a)
      /\ \A i \in 1 .. Len(p) + (Len(d) - a) :
           D[i] = IF i <= Len(p) THEN p[i] ELSE c[i - Len(p)]
  <2>1. /\ D \in Seq(Entries) /\ Len(D) = Len(p) + Len(c)
        /\ \A i \in 1 .. Len(p) + Len(c) :
             D[i] = IF i <= Len(p) THEN p[i] ELSE c[i - Len(p)]
    BY <1>1, ConcatIs
  <2>. HIDE DEF D
  <2>. QED  BY <1>1, <2>1
<1>3. r \in {Null, DqEnd} \cup Range(D)
  BY DEF c
<1>. HIDE DEF D
<1>4. CASE r = Null
  <2>1. b = 0
    BY <1>4 DEF Passed
  <2>. QED  BY <1>0, <1>2, <1>4, <2>1, DequeAssumption DEF Passed, D, c
<1>5. CASE r = DqEnd
  <2>1. b = Len(d) /\ p = <<>> /\ Len(p) = 0
    BY <1>5 DEF Passed
  <2>2. Len(D) = b
    BY <1>0, <1>2, <2>1
  <2>. QED  BY <1>5, <2>2, DequeAssumption DEF Passed, D, c
<1>6. CASE r \notin {Null, DqEnd}
  <2>1. b < Len(d) /\ r = From("back", d)[b + 1]
    BY <1>6 DEF Passed
  <2>2. Len(d) - b \in 1 .. Len(d) /\ r = d[Len(d) - b]
    <3>1. b + 1 \in 1 .. Len(d) /\ Len(d) - (b + 1) + 1 = Len(d) - b
      BY <1>0, <2>1
    <3>2. From("back", d)[b + 1] = d[Len(d) - (b + 1) + 1]
      BY <3>1, FromTyped, Two
    <3>. QED  BY <1>0, <2>1, <3>1, <3>2
  <2>3. r \in Range(d)
    BY <2>2 DEF Range
  <2>4. PICK i \in 1 .. Len(D) : D[i] = r
    BY <1>2, <1>3, <1>6 DEF Range
  <2>5. ~(i <= Len(p))
    <3>1. \A j \in 1 .. Len(p) : p[j] \in Range(p)
      BY DEF Range
    <3>. QED  BY <1>0, <1>2, <2>3, <2>4, <3>1
  <2>6. i - Len(p) \in 1 .. Len(d) - a /\ a + (i - Len(p)) \in 1 .. Len(d)
    BY <1>0, <1>2, <2>4, <2>5
  <2>7. d[a + (i - Len(p))] = r
    BY <1>1, <1>2, <2>4, <2>5, <2>6
  <2>8. a + (i - Len(p)) = Len(d) - b
    <3>1. DOMAIN d = 1 .. Len(d)
      OBVIOUS
    <3>. QED  BY <2>2, <2>6, <2>7, <3>1 DEF Once
  <2>9. b < Len(D) /\ i = Len(D) - (b + 1) + 1 /\ b + 1 \in 1 .. Len(D)
    BY <1>0, <1>2, <2>4, <2>6, <2>8, SMTT(30)
  <2>10. From("back", D)[b + 1] = r
    BY <1>2, <2>4, <2>9, FromTyped, Two
  <2>. QED  BY <1>2, <1>6, <2>9, <2>10 DEF Passed, D, c
<1>. QED  BY <1>4, <1>5, <1>6

\* A pointer of the front, when the back is committed.
LEMMA FrontKeeps ==
  ASSUME NEW d \in Seq(Entries), Once(d), NEW q \in Seq(Entries),
         Range(q) \cap Range(d) = {}, NEW a \in Nat, NEW b \in Nat,
         a + b <= Len(d), NEW r, Passed("front", r, d, a),
         r \in {Null, DqEnd} \cup Range(Cut(d, 0, b) \o q), r = DqEnd => q = <<>>
  PROVE  Passed("front", r, Cut(d, 0, b) \o q, a)
<1>. DEFINE c == Cut(d, 0, b)
            D == c \o q
<1>0. /\ Len(d) \in Nat /\ Len(q) \in Nat /\ b <= Len(d)
  OBVIOUS
<1>1. /\ c \in Seq(Entries) /\ Len(c) = Len(d) - b
      /\ \A i \in 1 .. Len(d) - b : c[i] = d[i]
  BY <1>0, CutIs
<1>. HIDE DEF c
<1>2. /\ D \in Seq(Entries) /\ Len(D) = (Len(d) - b) + Len(q)
      /\ \A i \in 1 .. (Len(d) - b) + Len(q) :
           D[i] = IF i <= Len(d) - b THEN c[i] ELSE q[i - (Len(d) - b)]
  <2>1. /\ D \in Seq(Entries) /\ Len(D) = Len(c) + Len(q)
        /\ \A i \in 1 .. Len(c) + Len(q) :
             D[i] = IF i <= Len(c) THEN c[i] ELSE q[i - Len(c)]
    BY <1>1, ConcatIs
  <2>. HIDE DEF D
  <2>. QED  BY <1>1, <2>1
<1>3. r \in {Null, DqEnd} \cup Range(D)
  BY DEF c
<1>. HIDE DEF D
<1>4. CASE r = Null
  <2>1. a = 0
    BY <1>4 DEF Passed
  <2>. QED  BY <1>0, <1>2, <1>4, <2>1, DequeAssumption DEF Passed, D, c
<1>5. CASE r = DqEnd
  <2>1. a = Len(d) /\ q = <<>> /\ Len(q) = 0
    BY <1>5 DEF Passed
  <2>2. Len(D) = a
    BY <1>0, <1>2, <2>1
  <2>. QED  BY <1>5, <2>2, DequeAssumption DEF Passed, D, c
<1>6. CASE r \notin {Null, DqEnd}
  <2>1. a < Len(d) /\ r = d[a + 1] /\ a + 1 \in 1 .. Len(d)
    BY <1>0, <1>6 DEF Passed, From
  <2>2. r \in Range(d)
    BY <2>1 DEF Range
  <2>3. PICK i \in 1 .. Len(D) : D[i] = r
    BY <1>2, <1>3, <1>6 DEF Range
  <2>4. i <= Len(d) - b
    <3>1. \A j \in 1 .. Len(q) : q[j] \in Range(q)
      BY DEF Range
    <3>2. ~(i <= Len(d) - b) => i - (Len(d) - b) \in 1 .. Len(q)
      BY <1>0, <1>2, <2>3, SMTT(30)
    <3>. QED  BY <1>2, <2>2, <2>3, <3>1, <3>2
  <2>5. i \in 1 .. Len(d) - b /\ i \in 1 .. Len(d) /\ d[i] = r
    BY <1>0, <1>1, <1>2, <2>3, <2>4, SMTT(30)
  <2>6. i = a + 1
    <3>1. DOMAIN d = 1 .. Len(d)
      OBVIOUS
    <3>. QED  BY <2>1, <2>5, <3>1 DEF Once
  <2>7. a < Len(D) /\ D[a + 1] = r
    BY <1>2, <2>3, <2>6
  <2>. QED  BY <1>2, <1>6, <2>7, SMTT(30) DEF Passed, From, D, c
<1>. QED  BY <1>4, <1>5, <1>6

LEMMA CutBehind ==
  ASSUME NEW d \in Seq(Entries), NEW p \in Seq(Entries),
         NEW a \in Nat, NEW b \in Nat, a + b <= Len(d)
  PROVE  Cut(p \o Cut(d, a, 0), 0, b) = p \o Cut(d, a, b)
<1>. DEFINE c == Cut(d, a, 0)
            D == p \o c
            e == Cut(d, a, b)
            L == Len(p) + (Len(d) - a - b)
<1>0. /\ Len(d) \in Nat /\ Len(p) \in Nat /\ a <= Len(d)
  OBVIOUS
<1>1. /\ c \in Seq(Entries) /\ Len(c) = Len(d) - a
      /\ \A i \in 1 .. Len(d) - a : c[i] = d[a + i]
  BY <1>0, CutFront
<1>2. /\ e \in Seq(Entries) /\ Len(e) = Len(d) - a - b
      /\ \A i \in 1 .. Len(d) - a - b : e[i] = d[a + i]
  BY CutIs
<1>. HIDE DEF c, e
<1>3. /\ D \in Seq(Entries) /\ Len(D) = Len(p) + (Len(d) - a)
      /\ \A i \in 1 .. Len(p) + (Len(d) - a) :
           D[i] = IF i <= Len(p) THEN p[i] ELSE c[i - Len(p)]
  <2>1. /\ D \in Seq(Entries) /\ Len(D) = Len(p) + Len(c)
        /\ \A i \in 1 .. Len(p) + Len(c) :
             D[i] = IF i <= Len(p) THEN p[i] ELSE c[i - Len(p)]
    BY <1>1, ConcatIs
  <2>. HIDE DEF D
  <2>. QED  BY <1>1, <2>1
<1>4. /\ p \o e \in Seq(Entries) /\ Len(p \o e) = L
      /\ \A i \in 1 .. L : (p \o e)[i] = IF i <= Len(p) THEN p[i] ELSE e[i - Len(p)]
  <2>1. /\ p \o e \in Seq(Entries) /\ Len(p \o e) = Len(p) + Len(e)
        /\ \A i \in 1 .. Len(p) + Len(e) :
             (p \o e)[i] = IF i <= Len(p) THEN p[i] ELSE e[i - Len(p)]
    BY <1>2, ConcatIs
  <2>2. Len(p) + Len(e) = L
    BY <1>2
  <2>. HIDE DEF L
  <2>. QED  BY <2>1, <2>2
<1>. HIDE DEF D
<1>5. /\ Cut(D, 0, b) \in Seq(Entries) /\ Len(Cut(D, 0, b)) = L
      /\ \A i \in 1 .. L : Cut(D, 0, b)[i] = D[i]
  <2>1. 0 \in Nat /\ 0 + b <= Len(D) /\ Len(D) - 0 - b = L
    BY <1>0, <1>3
  <2>2. /\ Cut(D, 0, b) \in Seq(Entries) /\ Len(Cut(D, 0, b)) = Len(D) - 0 - b
        /\ \A i \in 1 .. Len(D) - 0 - b : Cut(D, 0, b)[i] = D[0 + i]
    BY <1>3, <2>1, CutIs, ZenonT(60)
  <2>3. \A i \in 1 .. L : 0 + i = i
    OBVIOUS
  <2>. QED  BY <2>1, <2>2, <2>3
<1>6. ASSUME NEW i \in 1 .. L PROVE D[i] = (p \o e)[i]
  <2>1. CASE i <= Len(p)
    <3>1. i \in 1 .. Len(p) + (Len(d) - a)
      BY <1>0, <1>6, <2>1
    <3>. QED  BY <1>3, <1>4, <1>6, <2>1, <3>1
  <2>2. CASE ~(i <= Len(p))
    <3>1. /\ i - Len(p) \in 1 .. Len(d) - a - b /\ i - Len(p) \in 1 .. Len(d) - a
          /\ i \in 1 .. Len(p) + (Len(d) - a)
      BY <1>0, <1>6, <2>2
    <3>. QED  BY <1>1, <1>2, <1>3, <1>4, <1>6, <2>2, <3>1
  <2>. QED  BY <2>1, <2>2
<1>7. Cut(D, 0, b) = p \o e
  <2>. HIDE DEF L
  <2>. QED  BY <1>4, <1>5, <1>6, SeqEqual
<1>. QED  BY <1>7 DEF D, c, e

LEMMA Neutral ==
  ASSUME NEW d \in Seq(Entries)
  PROVE  /\ Cut(d, 0, 0) = d /\ <<>> \o d = d /\ d \o <<>> = d
         /\ Reverse(<<>>) = <<>> /\ <<>> \in Seq(Entries)
<1>1. Cut(d, 0, 0) = d
  <2>1. 0 + 1 = 1 /\ Len(d) - 0 = Len(d)
    OBVIOUS
  <2>. QED  BY <2>1, SubSeqFull DEF Cut
<1>2. <<>> \in Seq(Entries) /\ Len(<<>>) = 0
  OBVIOUS
<1>3. Reverse(<<>>) \in Seq(Entries) /\ Len(Reverse(<<>>)) = 0
  BY <1>2, ReverseIs
<1>4. Reverse(<<>>) = <<>>
  BY <1>3
<1>. QED  BY <1>1, <1>2, <1>4, ConcatEmptySeq

\* The entries of the lists are different ones.
FreshIn(f, d) ==
  /\ Once(d)
  /\ \A u \in Sides : Once(f[u].pending) /\ Range(f[u].pending) \cap Range(d) = {}
  /\ Range(f["front"].pending) \cap Range(f["back"].pending) = {}

LEMMA ConcatOnce ==
  ASSUME NEW p \in Seq(Entries), NEW q \in Seq(Entries), Once(p), Once(q),
         Range(p) \cap Range(q) = {}
  PROVE  Once(p \o q) /\ Range(p \o q) = Range(p) \cup Range(q)
<1>0. /\ Len(p) \in Nat /\ Len(q) \in Nat
      /\ DOMAIN p = 1 .. Len(p) /\ DOMAIN q = 1 .. Len(q)
  OBVIOUS
<1>1. /\ p \o q \in Seq(Entries) /\ DOMAIN (p \o q) = 1 .. Len(p) + Len(q)
      /\ \A i \in 1 .. Len(p) + Len(q) :
           (p \o q)[i] = IF i <= Len(p) THEN p[i] ELSE q[i - Len(p)]
  BY ConcatIs
<1>2. ASSUME NEW i \in 1 .. Len(p) + Len(q)
      PROVE  /\ i <= Len(p) => i \in DOMAIN p
             /\ ~(i <= Len(p)) => i - Len(p) \in DOMAIN q
  BY <1>0
<1>3. /\ \A i \in DOMAIN p : p[i] \in Range(p)
      /\ \A i \in DOMAIN q : q[i] \in Range(q)
  BY DEF Range
<1>4. ASSUME NEW i \in 1 .. Len(p) + Len(q), NEW j \in 1 .. Len(p) + Len(q),
             (p \o q)[i] = (p \o q)[j]
      PROVE  i = j
  <2>1. CASE i <= Len(p) /\ j <= Len(p)
    <3>1. p[i] = p[j] /\ i \in DOMAIN p /\ j \in DOMAIN p
      BY <1>1, <1>2, <1>4, <2>1
    <3>. QED  BY <3>1 DEF Once
  <2>2. CASE ~(i <= Len(p)) /\ ~(j <= Len(p))
    <3>1. q[i - Len(p)] = q[j - Len(p)] /\ i - Len(p) \in DOMAIN q /\ j - Len(p) \in DOMAIN q
      BY <1>1, <1>2, <1>4, <2>2
    <3>2. i - Len(p) = j - Len(p)
      BY <3>1 DEF Once
    <3>. QED  BY <1>0, <1>4, <3>2
  <2>3. CASE i <= Len(p) /\ ~(j <= Len(p))
    <3>1. p[i] = q[j - Len(p)] /\ i \in DOMAIN p /\ j - Len(p) \in DOMAIN q
      BY <1>1, <1>2, <1>4, <2>3
    <3>. QED  BY <1>3, <3>1
  <2>4. CASE ~(i <= Len(p)) /\ j <= Len(p)
    <3>1. p[j] = q[i - Len(p)] /\ j \in DOMAIN p /\ i - Len(p) \in DOMAIN q
      BY <1>1, <1>2, <1>4, <2>4
    <3>. QED  BY <1>3, <3>1
  <2>. QED  BY <2>1, <2>2, <2>3, <2>4
<1>5. Once(p \o q)
  BY <1>1, <1>4 DEF Once
<1>. QED  BY <1>5, RangeConcatenation

LEMMA CutOnce ==
  ASSUME NEW d \in Seq(Entries), Once(d), NEW m \in Nat, NEW n \in Nat, m + n <= Len(d)
  PROVE  Once(Cut(d, m, n)) /\ Range(Cut(d, m, n)) \subseteq Range(d)
<1>. DEFINE c == Cut(d, m, n)
<1>1. /\ c \in Seq(Entries) /\ DOMAIN c = 1 .. Len(d) - m - n
      /\ \A i \in 1 .. Len(d) - m - n : c[i] = d[m + i]
  BY CutIs
<1>2. DOMAIN d = 1 .. Len(d) /\ \A i \in 1 .. Len(d) - m - n : m + i \in 1 .. Len(d)
  OBVIOUS
<1>. HIDE DEF c
<1>3. ASSUME NEW i \in 1 .. Len(d) - m - n, NEW j \in 1 .. Len(d) - m - n, c[i] = c[j]
      PROVE  i = j
  <2>1. m + i = m + j
    BY <1>1, <1>2, <1>3 DEF Once
  <2>. QED  BY <2>1
<1>4. Once(c)
  BY <1>1, <1>3 DEF Once
<1>5. Range(c) \subseteq Range(d)
  BY <1>1, <1>2 DEF Range
<1>. QED  BY <1>4, <1>5 DEF c

LEMMA ReverseOnce ==
  ASSUME NEW d \in Seq(Entries), Once(d)
  PROVE  Once(Reverse(d)) /\ Range(Reverse(d)) = Range(d)
<1>1. From("back", d) = Reverse(d)
  BY DEF From
<1>. QED  BY <1>1, FromOnce, FromRange, Two

\* What a commit of the object publishes of a side, and how much it unlinks;
\* what stays passed.
Part(f, u) == IF f[u].owner = DqNoTxn THEN f[u].pending ELSE <<>>
Gone(f, u, n) == IF f[u].owner = DqNoTxn THEN n ELSE 0
Still(f, u, n) == IF f[u].owner = DqNoTxn THEN 0 ELSE n

CommittedSides(f) ==
  [s \in Sides |-> IF f[s].owner = DqNoTxn
                   THEN [f[s] EXCEPT !.pending = <<>>, !.removed = Null] ELSE f[s]]

\* What is published, all of it.
Published(f, d, a, b) ==
  (Part(f, "front") \o Cut(d, Gone(f, "front", a), Gone(f, "back", b)))
    \o Reverse(Part(f, "back"))

LEMMA PublishedFresh ==
  ASSUME NEW f \in SidesType, NEW d \in Seq(Entries), FreshIn(f, d),
         NEW a \in Nat, NEW b \in Nat, a + b <= Len(d)
  PROVE  LET P == Published(f, d, a, b)
         IN  /\ P \in Seq(Entries)
             /\ Len(P) = Len(Part(f, "front")) + (Len(d) - Gone(f, "front", a)
                           - Gone(f, "back", b)) + Len(Part(f, "back"))
             /\ FreshIn(CommittedSides(f), P)
             /\ Range(P) \subseteq Range(d) \cup Range(f["front"].pending)
                                    \cup Range(f["back"].pending)
<1>. DEFINE p == Part(f, "front")
            q == Part(f, "back")
            m == Gone(f, "front", a)
            n == Gone(f, "back", b)
            c == Cut(d, m, n)
            z == Reverse(q)
            g == CommittedSides(f)
<1>0. /\ f["front"].pending \in Seq(Entries) /\ f["back"].pending \in Seq(Entries)
      /\ Once(f["front"].pending) /\ Once(f["back"].pending) /\ Once(d)
  BY Two DEF SidesType, FreshIn
<1>1. <<>> \in Seq(Entries) /\ Once(<<>>) /\ Range(<<>>) = {}
  BY RangeOf DEF Once
<1>2. /\ p \in Seq(Entries) /\ Once(p) /\ Range(p) \subseteq Range(f["front"].pending)
      /\ q \in Seq(Entries) /\ Once(q) /\ Range(q) \subseteq Range(f["back"].pending)
  BY <1>0, <1>1 DEF Part
<1>3. m \in Nat /\ n \in Nat /\ m + n <= Len(d)
  BY DEF Gone
<1>. HIDE DEF p, q, m, n
<1>4. /\ c \in Seq(Entries) /\ Len(c) = Len(d) - m - n
      /\ Once(c) /\ Range(c) \subseteq Range(d)
  BY <1>0, <1>3, CutIs, CutOnce
<1>5. z \in Seq(Entries) /\ Len(z) = Len(q) /\ Once(z) /\ Range(z) = Range(q)
  BY <1>2, ReverseIs, ReverseOnce
<1>. HIDE DEF c, z
<1>6. /\ Range(f["front"].pending) \cap Range(d) = {}
      /\ Range(f["back"].pending) \cap Range(d) = {}
      /\ Range(f["front"].pending) \cap Range(f["back"].pending) = {}
  BY Two DEF FreshIn
<1>. DEFINE w == p \o c
<1>7. /\ w \in Seq(Entries) /\ Len(w) = Len(p) + Len(c)
      /\ Once(w) /\ Range(w) = Range(p) \cup Range(c)
  <2>1. Range(p) \cap Range(c) = {}
    BY <1>2, <1>4, <1>6
  <2>2. w \in Seq(Entries) /\ Len(w) = Len(p) + Len(c)
    BY <1>2, <1>4, ConcatIs
  <2>. QED  BY <1>2, <1>4, <2>1, <2>2, ConcatOnce
<1>. HIDE DEF w
<1>8. /\ w \o z \in Seq(Entries) /\ Len(w \o z) = Len(w) + Len(z)
      /\ Once(w \o z) /\ Range(w \o z) = Range(w) \cup Range(z)
  <2>1. Range(w) \cap Range(z) = {}
    BY <1>2, <1>4, <1>5, <1>6, <1>7
  <2>2. w \o z \in Seq(Entries) /\ Len(w \o z) = Len(w) + Len(z)
    BY <1>5, <1>7, ConcatIs
  <2>. QED  BY <1>5, <1>7, <2>1, <2>2, ConcatOnce
<1>9. Published(f, d, a, b) = w \o z
  BY DEF Published, p, q, m, n, c, z, w
<1>10. Len(w \o z) = Len(p) + (Len(d) - m - n) + Len(q)
  BY <1>4, <1>5, <1>7, <1>8
<1>11. Range(w \o z) = Range(p) \cup Range(c) \cup Range(q)
  BY <1>5, <1>7, <1>8
<1>12. \A u \in Sides : g[u].pending = IF f[u].owner = DqNoTxn THEN <<>> ELSE f[u].pending
  <2>. TAKE u \in Sides
  <2>1. g[u] = IF f[u].owner = DqNoTxn
               THEN [f[u] EXCEPT !.pending = <<>>, !.removed = Null] ELSE f[u]
    BY DEF CommittedSides
  <2>2. f[u] \in [pending : Seq(Entries), removed : Entries \cup {Null, DqEnd},
                  owner : DqTxns \cup {DqNoTxn}]
    BY DEF SidesType
  <2>. QED  BY <2>1, <2>2
<1>. HIDE DEF g
<1>13. FreshIn(g, w \o z)
  <2>1. /\ f["front"].owner = DqNoTxn => g["front"].pending = <<>>
        /\ f["front"].owner # DqNoTxn => g["front"].pending = f["front"].pending /\ p = <<>>
    BY <1>12, Two DEF p, Part
  <2>2. /\ f["back"].owner = DqNoTxn => g["back"].pending = <<>>
        /\ f["back"].owner # DqNoTxn => g["back"].pending = f["back"].pending /\ q = <<>>
    BY <1>12, Two DEF q, Part
  <2>3. Once(g["front"].pending) /\ Range(g["front"].pending) \cap Range(w \o z) = {}
    BY <1>0, <1>1, <1>2, <1>4, <1>6, <1>11, <2>1
  <2>4. Once(g["back"].pending) /\ Range(g["back"].pending) \cap Range(w \o z) = {}
    BY <1>0, <1>1, <1>2, <1>4, <1>6, <1>11, <2>2
  <2>5. Range(g["front"].pending) \cap Range(g["back"].pending) = {}
    BY <1>1, <1>6, <2>1, <2>2
  <2>. QED  BY <1>8, <2>3, <2>4, <2>5, Two DEF FreshIn
<1>14. Range(w \o z) \subseteq Range(d) \cup Range(f["front"].pending)
                                 \cup Range(f["back"].pending)
  BY <1>2, <1>4, <1>11
<1>. QED  BY <1>8, <1>9, <1>10, <1>13, <1>14 DEF p, q, m, n, g

\* The commit of the object, when it meets no weakness: both sides at once.
LEMMA CommitMerges ==
  ASSUME Typed, NEW f \in SidesType, FreshIn(f, data), NEW a \in Nat, NEW b \in Nat,
         Passed("front", f["front"].removed, data, a),
         Passed("back", f["back"].removed, data, b), a + b <= Len(data),
         CommitObject(f), ~corrupt',
         \A u \in Sides : ~Covers(u, f) /\ ~Dangles(u, side', data')
  PROVE  /\ data' = Published(f, data, a, b)
         /\ side' = CommittedSides(f)
         /\ Passed("front", side'["front"].removed, data', Still(f, "front", a))
         /\ Passed("back", side'["back"].removed, data', Still(f, "back", b))
<1>. DEFINE p == Part(f, "front")
            q == Part(f, "back")
            m == Gone(f, "front", a)
            n == Gone(f, "back", b)
            front == IF f["front"].owner = DqNoTxn THEN Merged("front", f, data)
                     ELSE data
            both == IF f["back"].owner = DqNoTxn THEN Merged("back", f, front)
                    ELSE front
            rf == f["front"].removed
            rb == f["back"].removed
<1>0. data \in Seq(Entries) /\ Len(data) \in Nat /\ Once(data)
  BY DEF Typed, FreshIn
<1>1. ~Lost("front", f, data) /\ ~Lost("back", f, front)
  BY DEF CommitObject
<1>2. data' = both /\ side' = CommittedSides(f)
  BY <1>1 DEF CommitObject, CommittedSides
<1>3. \A u \in Sides :
        /\ f[u] \in [pending : Seq(Entries), removed : Entries \cup {Null, DqEnd},
                     owner : DqTxns \cup {DqNoTxn}]
        /\ side'[u] = IF f[u].owner = DqNoTxn
                      THEN [f[u] EXCEPT !.pending = <<>>, !.removed = Null] ELSE f[u]
  BY <1>2 DEF SidesType, CommittedSides
<1>4. \A u \in Sides : side'[u].removed = IF f[u].owner = DqNoTxn THEN Null ELSE f[u].removed
  BY <1>3
<1>5. \A u \in Sides : f[u].pending \in Seq(Entries)
                       /\ f[u].removed \in Entries \cup {Null, DqEnd}
  BY <1>3
<1>6. /\ Range(f["front"].pending) \cap Range(data) = {}
      /\ Range(f["back"].pending) \cap Range(data) = {}
  BY Two DEF FreshIn
<1>7. front = p \o Cut(data, m, 0) /\ Once(front) /\ front \in Seq(Entries)
      /\ (f["front"].owner # DqNoTxn => front = data)
  <2>1. CASE f["front"].owner = DqNoTxn
    <3>1. rf \in {Null, DqEnd} \cup Range(data)
      BY <1>1, <2>1 DEF Lost
    <3>2. front = f["front"].pending \o Cut(data, a, 0)
      BY <1>0, <2>1, <3>1, MergedFront
    <3>3. a <= Len(data) /\ a + 0 <= Len(data) /\ 0 \in Nat
      BY <1>0
    <3>4. /\ Cut(data, a, 0) \in Seq(Entries) /\ Once(Cut(data, a, 0))
          /\ Range(Cut(data, a, 0)) \subseteq Range(data)
      BY <1>0, <3>3, CutFront, CutOnce
    <3>5. Once(f["front"].pending) /\ f["front"].pending \in Seq(Entries)
      BY <1>5, Two DEF FreshIn
    <3>. HIDE DEF front
    <3>6. Once(front) /\ front \in Seq(Entries)
      BY <1>6, <3>2, <3>4, <3>5, ConcatOnce, ConcatIs
    <3>. QED  BY <2>1, <3>2, <3>6 DEF Part, Gone
  <2>2. CASE f["front"].owner # DqNoTxn
    <3>1. front = data /\ p = <<>> /\ m = 0
      BY <2>2 DEF Part, Gone
    <3>. QED  BY <1>0, <3>1, Neutral
  <2>. QED  BY <2>1, <2>2
<1>. HIDE DEF front
<1>8. rb \in {Null, DqEnd} \cup Range(front)
  <2>1. CASE f["back"].owner = DqNoTxn
    BY <1>1, <2>1 DEF Lost
  <2>2. CASE f["back"].owner # DqNoTxn
    <3>1. data' = front /\ side'["back"].removed = rb
      BY <1>2, <1>4, <2>2, Two
    <3>2. ~Dangles("back", side', data')
      BY Two
    <3>. QED  BY <1>5, <3>1, <3>2, Two DEF Dangles
  <2>. QED  BY <2>1, <2>2
<1>9. Passed("back", rb, front, b)
  <2>1. CASE f["front"].owner = DqNoTxn
    <3>1. front = f["front"].pending \o Cut(data, a, 0)
      BY <1>7, <2>1 DEF Part, Gone
    <3>2. rb = DqEnd => f["front"].pending = <<>>
      BY <2>1, Two DEF Covers, Other
    <3>3. f["front"].pending \in Seq(Entries)
      BY <1>5, Two
    <3>. QED  BY <1>0, <1>6, <1>8, <3>1, <3>2, <3>3, BackKeeps
  <2>2. CASE f["front"].owner # DqNoTxn
    BY <1>7, <2>2
  <2>. QED  BY <2>1, <2>2
<1>10. both = Cut(front, 0, n) \o Reverse(q)
  <2>1. CASE f["back"].owner = DqNoTxn
    <3>1. both = Cut(front, 0, b) \o Reverse(f["back"].pending)
      BY <1>7, <1>8, <1>9, <2>1, MergedBack
    <3>. QED  BY <2>1, <3>1 DEF Part, Gone
  <2>2. CASE f["back"].owner # DqNoTxn
    <3>1. both = front /\ q = <<>> /\ n = 0
      BY <2>2 DEF Part, Gone
    <3>. QED  BY <1>7, <3>1, Neutral, ZenonT(60)
  <2>. QED  BY <2>1, <2>2
<1>11. data' = Published(f, data, a, b)
  <2>1. p \in Seq(Entries) /\ m \in Nat /\ n \in Nat /\ m + n <= Len(data)
    BY <1>0, <1>5, Two DEF Part, Gone
  <2>. HIDE DEF p, m, n
  <2>2. Cut(p \o Cut(data, m, 0), 0, n) = p \o Cut(data, m, n)
    BY <1>0, <2>1, CutBehind, SMTT(30)
  <2>. QED  BY <1>2, <1>7, <1>10, <2>2 DEF Published, p, q, m, n
<1>12. Passed("back", side'["back"].removed, data', Still(f, "back", b))
  <2>1. CASE f["back"].owner = DqNoTxn
    <3>1. side'["back"].removed = Null /\ Still(f, "back", b) = 0
      BY <1>4, <2>1, Two DEF Still
    <3>2. data' \in Seq(Entries)
      BY CommitKeeps
    <3>. QED  BY <3>1, <3>2, DequeAssumption DEF Passed
  <2>2. CASE f["back"].owner # DqNoTxn
    <3>1. side'["back"].removed = rb /\ Still(f, "back", b) = b /\ data' = front
      BY <1>2, <1>4, <2>2, Two DEF Still
    <3>. QED  BY <1>9, <3>1
  <2>. QED  BY <2>1, <2>2
<1>13. Passed("front", side'["front"].removed, data', Still(f, "front", a))
  <2>1. CASE f["front"].owner = DqNoTxn
    <3>1. side'["front"].removed = Null /\ Still(f, "front", a) = 0
      BY <1>4, <2>1, Two DEF Still
    <3>2. data' \in Seq(Entries)
      BY CommitKeeps
    <3>. QED  BY <3>1, <3>2, DequeAssumption DEF Passed
  <2>2. CASE f["front"].owner # DqNoTxn /\ f["back"].owner # DqNoTxn
    <3>1. side'["front"].removed = rf /\ Still(f, "front", a) = a /\ data' = data
      BY <1>2, <1>4, <1>7, <2>2, Two DEF Still
    <3>. QED  BY <3>1
  <2>3. CASE f["front"].owner # DqNoTxn /\ f["back"].owner = DqNoTxn
    <3>. DEFINE z == Reverse(f["back"].pending)
    <3>1. side'["front"].removed = rf /\ Still(f, "front", a) = a
      BY <1>4, <2>3, Two DEF Still
    <3>2. data' = Cut(data, 0, b) \o z
      BY <1>2, <1>7, <1>10, <2>3 DEF Part, Gone
    <3>3. z \in Seq(Entries) /\ Range(z) = Range(f["back"].pending)
      <4>1. f["back"].pending \in Seq(Entries) /\ Once(f["back"].pending)
        BY <1>5, Two DEF FreshIn
      <4>. QED  BY <4>1, ReverseIs, ReverseOnce
    <3>4. rf = DqEnd => z = <<>>
      <4>1. rf = DqEnd => f["back"].pending = <<>>
        BY <2>3, Two DEF Covers, Other
      <4>. QED  BY <1>0, <4>1, Neutral
    <3>. HIDE DEF z
    <3>5. rf \in {Null, DqEnd} \cup Range(data')
      <4>1. ~Dangles("front", side', data')
        BY Two
      <4>. QED  BY <1>5, <3>1, <4>1, Two DEF Dangles
    <3>. QED  BY <1>0, <1>6, <3>1, <3>2, <3>3, <3>4, <3>5, FrontKeeps
  <2>. QED  BY <2>1, <2>2, <2>3
<1>. QED  BY <1>2, <1>11, <1>12, <1>13

-----------------------------------------------------------------------------
(* The queue                                                               *)

\* A side that is free has nothing to commit.
SettledSides ==
  \A u \in Sides :
    side[u].owner = DqNoTxn => side[u].pending = <<>> /\ side[u].removed = Null

InUse(f, d) == Range(d) \cup Range(f["front"].pending) \cup Range(f["back"].pending)

\* Every pointer knows its place, and the two have not crossed.
Pointing ==
  /\ \A u \in Sides : Passed(u, side[u].removed, data, Taken(u))
  /\ Taken("front") + Taken("back") <= Len(data)

QueueOK ==
  /\ SettledSides
  /\ FreshIn(side, data)
  /\ \A e \in InUse(side, data) : author[e] # Null
  /\ Pointing

\* The inductive invariant for the refinement.
QueueInv == HeldInv /\ (~dqBroken => QueueOK)

TakenOf(s, r, d) ==
  CASE r = Null -> 0
    [] r = DqEnd -> Len(From(s, d))
    [] r \in Range(From(s, d)) -> Place(r, From(s, d)) - 1
    [] OTHER -> Len(From(s, d))

LEMMA TakenIs ==
  ASSUME NEW s \in Sides, NEW d \in Seq(Entries), Once(d), NEW n,
         NEW r \in Entries \cup {Null, DqEnd}, Passed(s, r, d, n)
  PROVE  TakenOf(s, r, d) = n
<1>1. CASE r = Null
  <2>1. n = 0 /\ r # DqEnd /\ r \notin Entries
    BY <1>1, DequeAssumption DEF Passed
  <2>2. r \notin Range(From(s, d))
    BY <2>1, FromRange, FromTyped DEF Range
  <2>. QED  BY <1>1, <2>1, <2>2 DEF TakenOf
<1>2. CASE r = DqEnd
  <2>1. n = Len(d) /\ r # Null /\ r \notin Entries
    BY <1>2, DequeAssumption DEF Passed
  <2>2. r \notin Range(From(s, d))
    BY <2>1, FromRange, FromTyped DEF Range
  <2>3. Len(From(s, d)) = n
    BY <2>1, FromTyped
  <2>. QED  BY <1>2, <2>1, <2>2, <2>3 DEF TakenOf
<1>3. CASE r \notin {Null, DqEnd}
  <2>1. n \in 0 .. Len(d) - 1 /\ r \in Range(From(s, d)) /\ Place(r, From(s, d)) = n + 1
    BY <1>3, PassedPlace, FromRange
  <2>2. TakenOf(s, r, d) = Place(r, From(s, d)) - 1
    BY <1>3, <2>1 DEF TakenOf
  <2>. QED  BY <2>1, <2>2
<1>. QED  BY <1>1, <1>2, <1>3

\* What a call that succeeds and meets no weakness does to the lists.
LEMMA Call ==
  ASSUME HeldInv, NEW f \in SidesType, NEW e, NEW weak, DqSucceed(f, e, weak),
         ~dqBroken', NEW n \in [Sides -> Nat], FreshIn(f, data),
         \A u \in Sides : Passed(u, f[u].removed, data, n[u]),
         n["front"] + n["back"] <= Len(data),
         \A x \in InUse(f, data) : author'[x] # Null
  PROVE  /\ ~weak
         /\ data' = Published(f, data, n["front"], n["back"])
         /\ \A u \in Sides :
              /\ side'[u].owner = f[u].owner
              /\ side'[u].pending = IF f[u].owner = DqNoTxn THEN <<>> ELSE f[u].pending
              /\ Taken(u)' = Still(f, u, n[u])
         /\ QueueOK'
<1>0. Typed /\ data \in Seq(Entries) /\ Len(data) \in Nat
  BY DEF HeldInv, Typed
<1>1. /\ CommitObject(f) /\ ~weak /\ ~corrupt'
      /\ \A u \in Sides : ~Covers(u, f) /\ ~Dangles(u, side', data')
  BY DEF DqSucceed
<1>2. n["front"] \in Nat /\ n["back"] \in Nat
  BY Two
<1>3. Passed("front", f["front"].removed, data, n["front"])
      /\ Passed("back", f["back"].removed, data, n["back"])
  BY Two
<1>4. /\ data' = Published(f, data, n["front"], n["back"])
      /\ side' = CommittedSides(f)
      /\ Passed("front", side'["front"].removed, data', Still(f, "front", n["front"]))
      /\ Passed("back", side'["back"].removed, data', Still(f, "back", n["back"]))
  BY <1>0, <1>1, <1>2, <1>3, CommitMerges
<1>5. /\ data' \in Seq(Entries)
      /\ Len(data') = Len(Part(f, "front")) + (Len(data) - Gone(f, "front", n["front"])
                        - Gone(f, "back", n["back"])) + Len(Part(f, "back"))
      /\ FreshIn(side', data')
      /\ Range(data') \subseteq InUse(f, data)
  BY <1>0, <1>2, <1>4, PublishedFresh DEF InUse
<1>6. \A u \in Sides :
        /\ f[u] \in [pending : Seq(Entries), removed : Entries \cup {Null, DqEnd},
                     owner : DqTxns \cup {DqNoTxn}]
        /\ side'[u] = IF f[u].owner = DqNoTxn
                      THEN [f[u] EXCEPT !.pending = <<>>, !.removed = Null] ELSE f[u]
  BY <1>4 DEF SidesType, CommittedSides
<1>7. \A u \in Sides :
        /\ side'[u].owner = f[u].owner
        /\ side'[u].pending = IF f[u].owner = DqNoTxn THEN <<>> ELSE f[u].pending
        /\ side'[u].removed = IF f[u].owner = DqNoTxn THEN Null ELSE f[u].removed
  BY <1>6
<1>8. \A u \in Sides : Passed(u, side'[u].removed, data', Still(f, u, n[u]))
  BY <1>4, Two
<1>9. \A u \in Sides : side'[u].removed \in Entries \cup {Null, DqEnd}
  BY <1>6, <1>7
<1>10. ASSUME NEW u \in Sides PROVE Taken(u)' = Still(f, u, n[u])
  <2>1. Taken(u)' = TakenOf(u, side'[u].removed, data')
    BY DEF Taken, TakenOf
  <2>2. Once(data')
    BY <1>5 DEF FreshIn
  <2>. QED  BY <1>5, <1>8, <1>9, <1>10, <2>1, <2>2, TakenIs
<1>11. Pointing'
  <2>1. \A u \in Sides : Passed(u, side[u].removed, data, Taken(u))'
    <3>. TAKE u \in Sides
    <3>1. Passed(u, side'[u].removed, data', Taken(u)')
      BY <1>8, <1>10
    <3>. QED  BY <3>1 DEF Passed
  <2>2. Taken("front")' = Still(f, "front", n["front"])
        /\ Taken("back")' = Still(f, "back", n["back"])
    BY <1>10, Two
  <2>3. Len(Part(f, "front")) \in Nat /\ Len(Part(f, "back")) \in Nat
    <3>1. Part(f, "front") \in Seq(Entries) /\ Part(f, "back") \in Seq(Entries)
      <4>1. \A u \in Sides : f[u].pending \in Seq(Entries)
        BY DEF SidesType
      <4>2. <<>> \in Seq(Entries)
        OBVIOUS
      <4>. QED  BY <4>1, <4>2, Two DEF Part
    <3>. QED  BY <3>1
  <2>4. Still(f, "front", n["front"]) + Still(f, "back", n["back"]) <= Len(data')
    BY <1>0, <1>2, <1>5, <2>3, SMTT(30) DEF Still, Gone
  <2>. QED  BY <2>1, <2>2, <2>4 DEF Pointing
<1>12. SettledSides'
  BY <1>7 DEF SettledSides
<1>13. \A x \in InUse(side', data') : author'[x] # Null
  <2>1. /\ Range(side'["front"].pending) \subseteq InUse(f, data)
        /\ Range(side'["back"].pending) \subseteq InUse(f, data)
    BY <1>7, RangeOf, Two DEF InUse
  <2>2. InUse(side', data') \subseteq InUse(f, data)
    BY <1>5, <2>1 DEF InUse
  <2>. QED  BY <2>2
<1>14. QueueOK'
  <2>1. (\A x \in InUse(side, data) : author[x] # Null)'
    BY <1>13 DEF InUse
  <2>2. FreshIn(side, data)'
    BY <1>5 DEF FreshIn, Once
  <2>. QED  BY <1>11, <1>12, <2>1, <2>2 DEF QueueOK
<1>. QED  BY <1>1, <1>4, <1>7, <1>10, <1>14

-----------------------------------------------------------------------------
(* The refinement                                                          *)

\* A side that a commit of the object leaves alone.
Idle(f, u) ==
  f[u].owner = DqNoTxn => f[u].pending = <<>> /\ f[u].removed = Null

LEMMA IdleParts ==
  ASSUME NEW f, NEW u \in Sides, Idle(f, u), NEW d, NEW n, Passed(u, f[u].removed, d, n)
  PROVE  Part(f, u) = <<>> /\ Gone(f, u, n) = 0 /\ Still(f, u, n) = n
  BY DEF Idle, Part, Gone, Still, Passed

LEMMA Untouched ==
  ASSUME NEW f, NEW d \in Seq(Entries), NEW n,
         \A u \in Sides : Idle(f, u) /\ Passed(u, f[u].removed, d, n[u])
  PROVE  /\ Published(f, d, n["front"], n["back"]) = d
         /\ \A u \in Sides : Still(f, u, n[u]) = n[u]
<1>1. /\ Part(f, "front") = <<>> /\ Gone(f, "front", n["front"]) = 0
      /\ Part(f, "back") = <<>> /\ Gone(f, "back", n["back"]) = 0
  BY IdleParts, Two
<1>2. \A u \in Sides : Still(f, u, n[u]) = n[u]
  BY IdleParts
<1>3. (<<>> \o Cut(d, 0, 0)) \o Reverse(<<>>) = d
  BY Neutral
<1>. QED  BY <1>1, <1>2, <1>3 DEF Published

\* The numbers of the pointers.
Numbers == [u \in Sides |-> Taken(u)]

LEMMA NumbersAre ==
  ASSUME QueueOK, Typed
  PROVE  /\ Numbers \in [Sides -> Nat]
         /\ \A u \in Sides : /\ Numbers[u] = Taken(u) /\ Taken(u) \in Nat
                             /\ Taken(u) <= Len(data)
                             /\ Passed(u, side[u].removed, data, Numbers[u])
         /\ Numbers["front"] + Numbers["back"] <= Len(data)
<1>1. Len(data) \in Nat
  BY DEF Typed
<1>2. \A u \in Sides : /\ Numbers[u] = Taken(u)
                       /\ Passed(u, side[u].removed, data, Taken(u))
  BY DEF Numbers, QueueOK, Pointing
<1>3. \A u \in Sides : Taken(u) \in Nat /\ Taken(u) <= Len(data)
  BY <1>1, <1>2 DEF Passed
<1>4. Numbers \in [Sides -> Nat]
  BY <1>3 DEF Numbers
<1>5. Taken("front") + Taken("back") <= Len(data)
  BY DEF QueueOK, Pointing
<1>. QED  BY <1>2, <1>3, <1>4, <1>5, Two

\* The abstract variables at a side and at a transaction.
LEMMA AbstractState ==
  /\ Queue!Sides = Sides
  /\ \A s \in Sides : Queue!Other(s) = Other(s)
  BY DEF Queue!Sides, Sides, Queue!Other, Other

LEMMA MayIs ==
  ASSUME Typed, NEW x \in DqTxns \cup {DqNoTxn}, NEW s \in Sides, DqOpen(x)
  PROVE  /\ Queue!May(x, s) <=> ~Locked(x, s)
         /\ x \in DqTxns => [y \in DqTxns |-> IF dqStatus[y] = "failed" THEN "open"
                                              ELSE dqStatus[y]][x] = "open"
<1>1. x \in DqTxns => [y \in DqTxns |-> IF dqStatus[y] = "failed" THEN "open"
                                        ELSE dqStatus[y]][x] = "open"
  BY DEF DqOpen, Typed
<1>2. [u \in Sides |-> side[u].owner][s] = side[s].owner
  OBVIOUS
<1>. QED  BY <1>1, <1>2 DEF Queue!May, Locked

\* Any entry list of one.
LEMMA OneEntry ==
  ASSUME NEW e \in Entries
  PROVE  /\ <<e>> \in Seq(Entries) /\ Len(<<e>>) = 1 /\ <<e>>[1] = e
         /\ Once(<<e>>) /\ Range(<<e>>) = {e} /\ Reverse(<<e>>) = <<e>>
<1>1. <<e>> \in Seq(Entries) /\ Len(<<e>>) = 1 /\ <<e>>[1] = e /\ DOMAIN <<e>> = 1 .. 1
  OBVIOUS
<1>2. \A i \in 1 .. 1 : i = 1
  OBVIOUS
<1>3. Once(<<e>>)
  BY <1>1, <1>2 DEF Once
<1>4. Range(<<e>>) = {e}
  BY <1>1, <1>2 DEF Range
<1>5. /\ Reverse(<<e>>) \in Seq(Entries) /\ Len(Reverse(<<e>>)) = 1
      /\ \A i \in 1 .. 1 : Reverse(<<e>>)[i] = <<e>>[1 - i + 1]
  BY <1>1, ReverseIs
<1>6. \A i \in 1 .. 1 : Reverse(<<e>>)[i] = <<e>>[i]
  BY <1>2, <1>5
<1>7. Reverse(<<e>>) = <<e>>
  BY <1>1, <1>5, <1>6, SeqEqual
<1>. QED  BY <1>1, <1>3, <1>4, <1>7

\* The abstract steps are steps of the queue.
LEMMA AbstractStep ==
  ASSUME NEW x \in DqTxns \cup {DqNoTxn}, NEW s \in Sides
  PROVE  /\ \A e \in Entries : Queue!Push(x, s, e) => Queue!Next
         /\ Queue!PopStaged(x, s) => Queue!Next
         /\ Queue!PopItem(x, s) => Queue!Next
         /\ Queue!PopOther(x, s) => Queue!Next
         /\ Queue!Locked(x, s) => Queue!Next
         /\ Queue!NoItems(x, s) => Queue!Next
  BY AbstractState DEF Queue!Next

LEMMA AbstractEnd ==
  ASSUME NEW x \in DqTxns
  PROVE  (Queue!Commit(x) => Queue!Next) /\ (Queue!Rollback(x) => Queue!Next)
  BY DEF Queue!Next

\* raleighsl_deque_push is a push of the queue.
LEMMA PushQueue ==
  ASSUME HeldInv, QueueOK, ~dqBroken', NEW x \in DqTxns \cup {DqNoTxn}, NEW s \in Sides,
         Push(x, s)
  PROVE  QueueOK' /\ Queue!Next
<1>. DEFINE free == {e \in Entries : author[e] = Null}
            taken == CHOOSE e \in free : TRUE
            n == Numbers
<1>0. Typed /\ data \in Seq(Entries) /\ side \in SidesType
  BY DEF HeldInv, Typed
<1>a. free # {}
  BY DEF Push
<1>2. PICK entry \in Entries : entry = taken /\ author[entry] = Null
  BY <1>a
<1>. DEFINE f == [side EXCEPT ![s].pending = <<entry>> \o @, ![s].owner = x]
<1>1. /\ author' = [author EXCEPT ![entry] = x]
      /\ DqSucceed(f, Null, FALSE) /\ dqStatus' = dqStatus /\ ~Locked(x, s) /\ DqOpen(x)
  BY <1>2 DEF Push
<1>. HIDE DEF taken, free
<1>3. side[s].owner \in {DqNoTxn, x}
  BY <1>0, <1>1, NotLocked
<1>4. \A u \in Sides :
        /\ f[u].pending = IF u = s THEN <<entry>> \o side[s].pending ELSE side[u].pending
        /\ f[u].removed = side[u].removed
        /\ f[u].owner = IF u = s THEN x ELSE side[u].owner
  BY <1>0 DEF SidesType
<1>5. \A u \in Sides : side[u].pending \in Seq(Entries)
  BY <1>0 DEF SidesType
<1>6. f \in SidesType
  <2>1. side[s] \in [pending : Seq(Entries), removed : Entries \cup {Null, DqEnd},
                     owner : DqTxns \cup {DqNoTxn}]
    BY <1>0 DEF SidesType
  <2>2. <<entry>> \o side[s].pending \in Seq(Entries)
    BY <1>2, <1>5, OneEntry, ConcatIs
  <2>. QED  BY <1>0, <2>1, <2>2 DEF SidesType
<1>. HIDE DEF f
<1>7. /\ FreshIn(side, data) /\ entry \notin InUse(side, data)
      /\ \A e \in InUse(side, data) : author[e] # Null
  BY <1>2 DEF QueueOK
<1>8. Once(f[s].pending) /\ Range(f[s].pending) = {entry} \cup Range(side[s].pending)
  <2>1. Once(side[s].pending) /\ entry \notin Range(side[s].pending)
    BY <1>7, Two DEF FreshIn, InUse
  <2>2. /\ <<entry>> \in Seq(Entries) /\ Once(<<entry>>) /\ Range(<<entry>>) = {entry}
    BY <1>2, OneEntry
  <2>3. Range(<<entry>>) \cap Range(side[s].pending) = {}
    BY <2>1, <2>2
  <2>4. /\ Once(<<entry>> \o side[s].pending)
        /\ Range(<<entry>> \o side[s].pending) = Range(<<entry>>) \cup Range(side[s].pending)
    BY <1>5, <2>1, <2>2, <2>3, ConcatOnce
  <2>5. f[s].pending = <<entry>> \o side[s].pending
    BY <1>4
  <2>. QED  BY <2>2, <2>4, <2>5
<1>9. FreshIn(f, data)
  <2>1. \A u \in Sides : Range(f[u].pending) \subseteq {entry} \cup Range(side[u].pending)
                         /\ (u # s => Range(f[u].pending) = Range(side[u].pending))
    BY <1>4, <1>8
  <2>2. \A u \in Sides : Once(f[u].pending)
    BY <1>4, <1>7, <1>8 DEF FreshIn
  <2>3. \A u \in Sides : Range(f[u].pending) \cap Range(data) = {}
    BY <1>7, <2>1 DEF FreshIn, InUse
  <2>4. Range(f["front"].pending) \cap Range(f["back"].pending) = {}
    <3>1. entry \notin Range(side["front"].pending) /\ entry \notin Range(side["back"].pending)
      BY <1>7 DEF InUse
    <3>2. "front" # s \/ "back" # s
      BY Two
    <3>. QED  BY <1>7, <2>1, <3>1, <3>2, Two DEF FreshIn
  <2>. QED  BY <1>7, <2>2, <2>3, <2>4 DEF FreshIn
<1>10. \A e \in InUse(f, data) : author'[e] # Null
  <2>1. InUse(f, data) \subseteq {entry} \cup InUse(side, data)
    BY <1>4, <1>8, Two DEF InUse
  <2>2. InUse(side, data) \subseteq Entries
    <3>1. Range(data) \subseteq Entries
      BY <1>0 DEF Range
    <3>2. \A u \in Sides : Range(side[u].pending) \subseteq Entries
      BY <1>5 DEF Range
    <3>. QED  BY <3>1, <3>2, Two DEF InUse
  <2>3. author \in [Entries -> DqTxns \cup {DqNoTxn, Null}]
    BY <1>0 DEF Typed
  <2>4. x # Null
    BY DequeAssumption
  <2>5. \A e \in Entries : author'[e] = IF e = entry THEN x ELSE author[e]
    BY <1>1, <2>3
  <2>6. \A e \in InUse(side, data) : e \in Entries /\ author[e] # Null
    BY <1>7, <2>2
  <2>7. \A e \in InUse(f, data) : e = entry \/ e \in InUse(side, data)
    BY <2>1
  <2>. QED  BY <1>2, <2>4, <2>5, <2>6, <2>7
<1>11. /\ n \in [Sides -> Nat] /\ n["front"] + n["back"] <= Len(data)
       /\ \A u \in Sides : /\ Passed(u, f[u].removed, data, n[u])
                           /\ n[u] = Taken(u)
  BY <1>0, <1>4, NumbersAre
<1>. HIDE DEF n
<1>12. /\ data' = Published(f, data, n["front"], n["back"])
       /\ \A u \in Sides :
            /\ side'[u].owner = f[u].owner
            /\ side'[u].pending = IF f[u].owner = DqNoTxn THEN <<>> ELSE f[u].pending
            /\ Taken(u)' = Still(f, u, n[u])
       /\ QueueOK'
  BY <1>1, <1>6, <1>9, <1>10, <1>11, Call
<1>13. \A u \in Sides : u # s => Idle(f, u)
  BY <1>4 DEF QueueOK, SettledSides, Idle
<1>14. \A u \in Sides : side'[u].owner = IF u = s THEN x ELSE side[u].owner
  BY <1>4, <1>12
<1>15. [u \in Sides |-> side'[u].owner] = [[u \in Sides |-> side[u].owner] EXCEPT ![s] = x]
  BY <1>14
<1>16. dqAnswer' = [errno |-> "NONE", entry |-> Null]
  BY <1>1 DEF DqSucceed
<1>17. Queue!May(x, s)
  BY <1>0, <1>1, MayIs
<1>18. CASE x # DqNoTxn
  <2>1. \A u \in Sides : Idle(f, u)
    BY <1>4, <1>13, <1>18 DEF Idle
  <2>2. /\ data' = data
        /\ \A u \in Sides : Taken(u)' = Taken(u)
    BY <1>0, <1>11, <1>12, <2>1, Untouched
  <2>3. \A u \in Sides : side'[u].pending = f[u].pending
    BY <1>12, <2>1 DEF Idle
  <2>4. [u \in Sides |-> side'[u].pending] =
          [[u \in Sides |-> side[u].pending] EXCEPT ![s] = <<entry>> \o side[s].pending]
    BY <1>4, <2>3
  <2>5. [u \in Sides |-> Taken(u)'] = [u \in Sides |-> Taken(u)]
    BY <2>2
  <2>6. Queue!Push(x, s, entry)
    BY <1>1, <1>15, <1>16, <1>17, <1>18, <2>2, <2>4, <2>5 DEF Queue!Push, Queue!Says
  <2>. QED  BY <1>2, <1>12, <2>6, AbstractStep
<1>19. CASE x = DqNoTxn
  <2>1. side[s].owner = DqNoTxn /\ side[s].pending = <<>> /\ side[s].removed = Null
    BY <1>3, <1>19 DEF QueueOK, SettledSides
  <2>2. f[s].owner = DqNoTxn /\ f[s].pending = <<entry>> /\ n[s] = 0
    <3>1. <<entry>> \o <<>> = <<entry>>
      BY <1>2, OneEntry, Neutral
    <3>2. Passed(s, Null, data, n[s])
      BY <1>4, <1>11, <2>1
    <3>. QED  BY <1>4, <1>19, <2>1, <3>1, <3>2 DEF Passed
  <2>3. Part(f, s) = <<entry>> /\ Gone(f, s, n[s]) = 0 /\ Still(f, s, n[s]) = n[s]
    BY <2>2 DEF Part, Gone, Still
  <2>4. \A u \in Sides : u # s => Part(f, u) = <<>> /\ Gone(f, u, n[u]) = 0
                                  /\ Still(f, u, n[u]) = n[u]
    <3>. SUFFICES ASSUME NEW u \in Sides, u # s
                  PROVE  Part(f, u) = <<>> /\ Gone(f, u, n[u]) = 0 /\ Still(f, u, n[u]) = n[u]
      OBVIOUS
    <3>1. Idle(f, u) /\ Passed(u, f[u].removed, data, n[u])
      BY <1>11, <1>13
    <3>. QED  BY <3>1, IdleParts
  <2>5. \A u \in Sides : Taken(u)' = Taken(u)
    BY <1>11, <1>12, <2>3, <2>4
  <2>6. \A u \in Sides : side'[u].pending = side[u].pending
    BY <1>4, <1>12, <1>13, <2>1, <2>2 DEF Idle
  <2>7. data' = IF s = "front" THEN <<entry>> \o data ELSE Append(data, entry)
    <3>1. /\ Cut(data, 0, 0) = data /\ <<>> \o data = data
          /\ Reverse(<<>>) = <<>> /\ Reverse(<<entry>>) = <<entry>>
          /\ (<<entry>> \o data) \o <<>> = <<entry>> \o data
      <4>1. <<entry>> \o data \in Seq(Entries) /\ Reverse(<<entry>>) = <<entry>>
        BY <1>0, <1>2, OneEntry, ConcatIs
      <4>. QED  BY <1>0, <4>1, Neutral
    <3>2. CASE s = "front"
      <4>1. /\ Part(f, "front") = <<entry>> /\ Gone(f, "front", n["front"]) = 0
            /\ Part(f, "back") = <<>> /\ Gone(f, "back", n["back"]) = 0
        BY <2>3, <2>4, <3>2, Two
      <4>. QED  BY <1>12, <3>1, <3>2, <4>1 DEF Published
    <3>3. CASE s = "back"
      <4>1. /\ Part(f, "back") = <<entry>> /\ Gone(f, "back", n["back"]) = 0
            /\ Part(f, "front") = <<>> /\ Gone(f, "front", n["front"]) = 0
        BY <2>3, <2>4, <3>3, Two
      <4>2. data' = data \o <<entry>>
        BY <1>12, <3>1, <3>3, <4>1 DEF Published
      <4>3. Append(data, entry) = data \o <<entry>>
        BY <1>0, <1>2, AppendIsConcat
      <4>. QED  BY <3>3, <4>2, <4>3, Two
    <3>. QED  BY <3>2, <3>3, Two
  <2>8. /\ [u \in Sides |-> side'[u].pending] = [u \in Sides |-> side[u].pending]
        /\ [u \in Sides |-> Taken(u)'] = [u \in Sides |-> Taken(u)]
    BY <2>5, <2>6
  <2>9. Queue!Push(x, s, entry)
    BY <1>1, <1>15, <1>16, <1>17, <1>19, <2>7, <2>8 DEF Queue!Push, Queue!Says
  <2>. QED  BY <1>2, <1>12, <2>9, AbstractStep
<1>. QED  BY <1>18, <1>19

\* A part of a list of pushes.
LEMMA PartOnce ==
  ASSUME NEW p \in Seq(Entries), p # <<>>, Once(p)
  PROVE  /\ Tail(p) \in Seq(Entries) /\ Once(Tail(p)) /\ Range(Tail(p)) \subseteq Range(p)
         /\ SubSeq(p, 1, Len(p) - 1) \in Seq(Entries) /\ Once(SubSeq(p, 1, Len(p) - 1))
         /\ Range(SubSeq(p, 1, Len(p) - 1)) \subseteq Range(p)
<1>1. Len(p) \in Nat /\ Len(p) > 0
  OBVIOUS
<1>2. 1 \in Nat /\ 0 \in Nat /\ 1 + 0 <= Len(p) /\ 0 + 1 <= Len(p)
  BY <1>1
<1>3. Tail(p) = Cut(p, 1, 0)
  <2>1. 1 + 1 = 2 /\ Len(p) - 0 = Len(p)
    BY <1>1
  <2>. QED  BY <2>1, TailIsSubSeq DEF Cut
<1>4. SubSeq(p, 1, Len(p) - 1) = Cut(p, 0, 1)
  BY DEF Cut
<1>. QED  BY <1>2, <1>3, <1>4, CutIs, CutOnce, ZenonT(60)

\* The pushes that wait have become fewer: the lists stay apart.
LEMMA Fewer ==
  ASSUME QueueOK, NEW f,
         \A u \in Sides : Once(f[u].pending) /\ Range(f[u].pending) \subseteq Range(side[u].pending)
  PROVE  FreshIn(f, data) /\ \A e \in InUse(f, data) : author[e] # Null
<1>1. FreshIn(side, data) /\ \A e \in InUse(side, data) : author[e] # Null
  BY DEF QueueOK
<1>2. /\ Range(f["front"].pending) \subseteq Range(side["front"].pending)
      /\ Range(f["back"].pending) \subseteq Range(side["back"].pending)
  BY Two
<1>3. FreshIn(f, data)
  <2>1. \A u \in Sides : Range(f[u].pending) \cap Range(data) = {}
    BY <1>1 DEF FreshIn
  <2>2. Range(f["front"].pending) \cap Range(f["back"].pending) = {}
    BY <1>1, <1>2 DEF FreshIn
  <2>. QED  BY <1>1, <2>1, <2>2 DEF FreshIn
<1>4. InUse(f, data) \subseteq InUse(side, data)
  BY <1>2 DEF InUse
<1>. QED  BY <1>1, <1>3, <1>4

\* A call after which there is nothing to commit.
LEMMA IdleCall ==
  ASSUME HeldInv, QueueOK, NEW f \in SidesType, NEW e, NEW weak, DqSucceed(f, e, weak),
         ~dqBroken', author' = author,
         \A u \in Sides : Once(f[u].pending) /\ Range(f[u].pending) \subseteq Range(side[u].pending),
         \A u \in Sides : Idle(f, u),
         NEW n \in [Sides -> Nat], \A u \in Sides : Passed(u, f[u].removed, data, n[u]),
         n["front"] + n["back"] <= Len(data)
  PROVE  /\ ~weak /\ data' = data /\ QueueOK'
         /\ \A u \in Sides : /\ side'[u].owner = f[u].owner
                             /\ side'[u].pending = f[u].pending
                             /\ Taken(u)' = n[u]
<1>1. FreshIn(f, data) /\ \A x \in InUse(f, data) : author'[x] # Null
  BY Fewer
<1>2. /\ ~weak /\ QueueOK'
      /\ data' = Published(f, data, n["front"], n["back"])
      /\ \A u \in Sides :
           /\ side'[u].owner = f[u].owner
           /\ side'[u].pending = IF f[u].owner = DqNoTxn THEN <<>> ELSE f[u].pending
           /\ Taken(u)' = Still(f, u, n[u])
  BY <1>1, Call
<1>3. data \in Seq(Entries)
  BY DEF HeldInv, Typed
<1>4. data' = data /\ \A u \in Sides : Still(f, u, n[u]) = n[u]
  BY <1>2, <1>3, Untouched
<1>5. \A u \in Sides : side'[u].pending = f[u].pending
  BY <1>2 DEF Idle
<1>. QED  BY <1>2, <1>4, <1>5

LEMMA PopPendingQueue ==
  ASSUME HeldInv, QueueOK, ~dqBroken', NEW x \in DqTxns \cup {DqNoTxn}, NEW s \in Sides,
         PopPending(x, s)
  PROVE  QueueOK' /\ Queue!Next
<1>. DEFINE p == side[s].pending
            f == [side EXCEPT ![s].pending = Tail(@)]
            n == Numbers
<1>0. Typed /\ data \in Seq(Entries) /\ side \in SidesType
  BY DEF HeldInv, Typed
<1>1. /\ DqSucceed(f, Head(p), FALSE) /\ UNCHANGED <<atoms, dqStatus, author>>
      /\ p # <<>> /\ ~Locked(x, s) /\ DqOpen(x)
  BY DEF PopPending
<1>2. p \in Seq(Entries) /\ Once(p)
  BY <1>0 DEF SidesType, QueueOK, FreshIn
<1>3. Tail(p) \in Seq(Entries) /\ Once(Tail(p)) /\ Range(Tail(p)) \subseteq Range(p)
  BY <1>1, <1>2, PartOnce
<1>4. \A u \in Sides :
        /\ f[u].pending = IF u = s THEN Tail(p) ELSE side[u].pending
        /\ f[u].removed = side[u].removed
        /\ f[u].owner = side[u].owner
  BY <1>0 DEF SidesType
<1>5. f \in SidesType
  <2>1. side[s] \in [pending : Seq(Entries), removed : Entries \cup {Null, DqEnd},
                     owner : DqTxns \cup {DqNoTxn}]
    BY <1>0 DEF SidesType
  <2>. QED  BY <1>0, <1>3, <2>1 DEF SidesType
<1>. HIDE DEF f
<1>6. \A u \in Sides : Once(f[u].pending) /\ Range(f[u].pending) \subseteq Range(side[u].pending)
  BY <1>3, <1>4 DEF QueueOK, FreshIn
<1>7. side[s].owner # DqNoTxn
  BY <1>1 DEF QueueOK, SettledSides
<1>8. \A u \in Sides : Idle(f, u)
  BY <1>4, <1>7 DEF QueueOK, SettledSides, Idle
<1>9. /\ n \in [Sides -> Nat] /\ n["front"] + n["back"] <= Len(data)
      /\ \A u \in Sides : Passed(u, f[u].removed, data, n[u]) /\ n[u] = Taken(u)
  BY <1>0, <1>4, NumbersAre
<1>. HIDE DEF n
<1>10. /\ data' = data /\ QueueOK'
       /\ \A u \in Sides : /\ side'[u].owner = f[u].owner
                           /\ side'[u].pending = f[u].pending
                           /\ Taken(u)' = n[u]
  BY <1>1, <1>5, <1>6, <1>8, <1>9, IdleCall, ZenonT(60)
<1>11. /\ [u \in Sides |-> side'[u].owner] = [u \in Sides |-> side[u].owner]
       /\ [u \in Sides |-> Taken(u)'] = [u \in Sides |-> Taken(u)]
       /\ [u \in Sides |-> side'[u].pending] =
            [[u \in Sides |-> side[u].pending] EXCEPT ![s] = Tail(p)]
  BY <1>4, <1>9, <1>10
<1>12. dqAnswer' = [errno |-> "NONE", entry |-> Head(p)]
  BY <1>1 DEF DqSucceed
<1>13. Queue!May(x, s) /\ [u \in Sides |-> side[u].pending][s] = p
  BY <1>0, <1>1, MayIs
<1>14. Queue!PopStaged(x, s)
  BY <1>1, <1>10, <1>11, <1>12, <1>13 DEF Queue!PopStaged, Queue!Says
<1>. QED  BY <1>10, <1>14, AbstractStep

LEMMA LeftIs ==
  ASSUME Typed, QueueOK
  PROVE  /\ Queue!Left = Cut(data, Taken("front"), Taken("back"))
         /\ Queue!Left \in Seq(Entries)
         /\ Len(Queue!Left) = Len(data) - Taken("front") - Taken("back")
         /\ \A i \in 1 .. Len(data) - Taken("front") - Taken("back") :
              Queue!Left[i] = data[Taken("front") + i]
<1>1. [u \in Sides |-> Taken(u)]["front"] = Taken("front")
      /\ [u \in Sides |-> Taken(u)]["back"] = Taken("back")
  BY Two
<1>2. Queue!Left = Cut(data, Taken("front"), Taken("back"))
  BY <1>1 DEF Queue!Left, Cut
<1>3. /\ Taken("front") \in Nat /\ Taken("back") \in Nat
      /\ Taken("front") + Taken("back") <= Len(data) /\ data \in Seq(Entries)
  BY NumbersAre, Two DEF Typed
<1>4. /\ Cut(data, Taken("front"), Taken("back")) \in Seq(Entries)
      /\ Len(Cut(data, Taken("front"), Taken("back")))
           = Len(data) - Taken("front") - Taken("back")
      /\ \A i \in 1 .. Len(data) - Taken("front") - Taken("back") :
           Cut(data, Taken("front"), Taken("back"))[i] = data[Taken("front") + i]
  BY <1>3, CutIs
<1>. QED  BY <1>2, <1>4

LEMMA NothingLeft ==
  ASSUME Typed, QueueOK, NEW s \in Sides, ~HasData(s)
  PROVE  Queue!Left = <<>>
<1>1. /\ Taken("front") \in Nat /\ Taken("back") \in Nat /\ Len(data) \in Nat
      /\ Taken("front") + Taken("back") <= Len(data)
  BY NumbersAre, Two DEF Typed
<1>2. CASE data = <<>>
  <2>1. Len(data) = 0
    BY <1>2
  <2>2. Len(Queue!Left) = 0 /\ Queue!Left \in Seq(Entries)
    BY <1>1, <2>1, LeftIs
  <2>. QED  BY <2>2
<1>3. CASE side[s].removed = DqEnd
  <2>1. Taken(s) = Len(data)
    BY <1>3 DEF QueueOK, Pointing, Passed
  <2>2. Len(data) - Taken("front") - Taken("back") = 0
    <3>1. CASE s = "front"
      <4>1. Taken("front") = Len(data)
        BY <2>1, <3>1
      <4>. QED  BY <1>1, <4>1
    <3>2. CASE s = "back"
      <4>1. Taken("back") = Len(data)
        BY <2>1, <3>2
      <4>. QED  BY <1>1, <4>1
    <3>. QED  BY <3>1, <3>2, Two
  <2>3. Len(Queue!Left) = 0 /\ Queue!Left \in Seq(Entries)
    BY <2>2, LeftIs
  <2>. QED  BY <2>3
<1>. QED  BY <1>2, <1>3 DEF HasData

LEMMA PopOtherQueue ==
  ASSUME HeldInv, QueueOK, ~dqBroken', NEW x \in DqTxns \cup {DqNoTxn}, NEW s \in Sides,
         PopOther(x, s)
  PROVE  QueueOK' /\ Queue!Next
<1>. DEFINE o == Other(s)
            p == side[o].pending
            w == SubSeq(p, 1, Len(p) - 1)
            f == [side EXCEPT ![o].pending = w]
            n == Numbers
<1>0. Typed /\ data \in Seq(Entries) /\ side \in SidesType /\ o \in Sides /\ o # s
  BY Two DEF HeldInv, Typed
<1>1. /\ DqSucceed(f, p[Len(p)], side[o].owner # x) /\ UNCHANGED <<atoms, dqStatus, author>>
      /\ p # <<>> /\ ~Locked(x, s) /\ DqOpen(x) /\ side[s].pending = <<>> /\ ~HasData(s)
  BY DEF PopOther
<1>. HIDE DEF o
<1>2. p \in Seq(Entries) /\ Once(p)
  BY <1>0 DEF SidesType, QueueOK, FreshIn
<1>3. w \in Seq(Entries) /\ Once(w) /\ Range(w) \subseteq Range(p)
  BY <1>1, <1>2, PartOnce
<1>. HIDE DEF w
<1>4. \A u \in Sides :
        /\ f[u].pending = IF u = o THEN w ELSE side[u].pending
        /\ f[u].removed = side[u].removed
        /\ f[u].owner = side[u].owner
  BY <1>0 DEF SidesType
<1>5. f \in SidesType
  <2>1. side[o] \in [pending : Seq(Entries), removed : Entries \cup {Null, DqEnd},
                     owner : DqTxns \cup {DqNoTxn}]
    BY <1>0 DEF SidesType
  <2>. QED  BY <1>0, <1>3, <2>1 DEF SidesType
<1>. HIDE DEF f
<1>6. \A u \in Sides : Once(f[u].pending) /\ Range(f[u].pending) \subseteq Range(side[u].pending)
  BY <1>3, <1>4 DEF QueueOK, FreshIn
<1>7. side[o].owner # DqNoTxn
  BY <1>0, <1>1 DEF QueueOK, SettledSides
<1>8. \A u \in Sides : Idle(f, u)
  BY <1>4, <1>7 DEF QueueOK, SettledSides, Idle
<1>9. /\ n \in [Sides -> Nat] /\ n["front"] + n["back"] <= Len(data)
      /\ \A u \in Sides : Passed(u, f[u].removed, data, n[u]) /\ n[u] = Taken(u)
  BY <1>0, <1>4, NumbersAre
<1>. HIDE DEF n
<1>10. /\ data' = data /\ QueueOK' /\ ~(side[o].owner # x)
       /\ \A u \in Sides : /\ side'[u].owner = f[u].owner
                           /\ side'[u].pending = f[u].pending
                           /\ Taken(u)' = n[u]
  BY <1>1, <1>5, <1>6, <1>8, <1>9, IdleCall, ZenonT(60)
<1>11. /\ [u \in Sides |-> side'[u].owner] = [u \in Sides |-> side[u].owner]
       /\ [u \in Sides |-> Taken(u)'] = [u \in Sides |-> Taken(u)]
       /\ [u \in Sides |-> side'[u].pending] =
            [[u \in Sides |-> side[u].pending] EXCEPT ![o] = w]
  BY <1>4, <1>9, <1>10, ZenonT(60)
<1>12. dqAnswer' = [errno |-> "NONE", entry |-> p[Len(p)]]
  BY <1>1 DEF DqSucceed
<1>13. /\ Queue!May(x, s) /\ [u \in Sides |-> side[u].pending][s] = <<>>
       /\ [u \in Sides |-> side[u].pending][o] = p
       /\ [u \in Sides |-> side[u].owner][o] = x /\ x \in DqTxns
       /\ Queue!Other(s) = o /\ Queue!Left = <<>>
  <2>1. Queue!May(x, s)
    BY <1>0, <1>1, MayIs
  <2>2. Queue!Left = <<>>
    BY <1>0, <1>1, NothingLeft
  <2>3. Queue!Other(s) = o
    BY AbstractState DEF o
  <2>. QED  BY <1>0, <1>1, <1>7, <1>10, <2>1, <2>2, <2>3
<1>14. Queue!PopOther(x, s)
  BY <1>1, <1>10, <1>11, <1>12, <1>13 DEF Queue!PopOther, Queue!Says, w
<1>. QED  BY <1>10, <1>14, AbstractStep

LEMMA FailQueue ==
  ASSUME HeldInv, QueueOK, NEW x \in DqTxns \cup {DqNoTxn}, NEW s \in Sides,
         Refuse(x, s) \/ NoItems(x, s)
  PROVE  QueueOK' /\ Queue!Next
<1>0. Typed /\ DqOpen(x)
  BY DEF HeldInv, Refuse, NoItems
<1>1. PICK e \in {"TXN_LOCKED_OPERATION", "DATA_NO_ITEMS"} : DqFail(x, e)
  BY DEF Refuse, NoItems
<1>2. /\ UNCHANGED <<data, side, atoms, author, corrupt, dqBroken>>
      /\ dqStatus' = IF x = DqNoTxn THEN dqStatus ELSE [dqStatus EXCEPT ![x] = "failed"]
  BY <1>1 DEF DqFail
<1>3. \A u \in Sides : Taken(u)' = Taken(u)
  BY <1>2 DEF Taken
<1>4. QueueOK'
  <2>1. SettledSides' /\ FreshIn(side, data)'
        /\ (\A z \in InUse(side, data) : author[z] # Null)'
    BY <1>2 DEF QueueOK, SettledSides, FreshIn, InUse, Once
  <2>2. Pointing'
    BY <1>2, <1>3, Two DEF QueueOK, Pointing, Passed
  <2>. QED  BY <2>1, <2>2 DEF QueueOK
<1>5. [y \in DqTxns |-> IF dqStatus[y] = "failed" THEN "open" ELSE dqStatus[y]]'
        = [y \in DqTxns |-> IF dqStatus[y] = "failed" THEN "open" ELSE dqStatus[y]]
  <2>1. \A y \in DqTxns : (IF dqStatus'[y] = "failed" THEN "open" ELSE dqStatus'[y])
                            = IF dqStatus[y] = "failed" THEN "open" ELSE dqStatus[y]
    BY <1>0, <1>2 DEF Typed, DqOpen
  <2>. QED  BY <2>1
<1>6. /\ [u \in Sides |-> side'[u].owner] = [u \in Sides |-> side[u].owner]
      /\ [u \in Sides |-> Taken(u)'] = [u \in Sides |-> Taken(u)]
      /\ [u \in Sides |-> side'[u].pending] = [u \in Sides |-> side[u].pending]
  BY <1>2, <1>3
<1>7. CASE Refuse(x, s)
  <2>1. Locked(x, s) /\ dqAnswer' = [errno |-> "TXN_LOCKED_OPERATION", entry |-> Null]
    BY <1>7 DEF Refuse, DqFail
  <2>2. ~Queue!May(x, s)
    BY <1>0, <2>1, MayIs
  <2>3. Queue!Locked(x, s)
    BY <1>0, <1>2, <1>5, <1>6, <2>1, <2>2, MayIs DEF Queue!Locked, Queue!Says
  <2>. QED  BY <1>4, <2>3, AbstractStep
<1>8. CASE NoItems(x, s)
  <2>1. /\ ~Locked(x, s) /\ dqAnswer' = [errno |-> "DATA_NO_ITEMS", entry |-> Null]
        /\ side[s].pending = <<>> /\ ~HasData(s) /\ side[Other(s)].pending = <<>>
    BY <1>8 DEF NoItems, DqFail
  <2>2. Queue!May(x, s) /\ Queue!Left = <<>>
    BY <1>0, <2>1, MayIs, NothingLeft
  <2>3. /\ [u \in Sides |-> side[u].pending][s] = <<>>
        /\ [u \in Sides |-> side[u].pending][Queue!Other(s)] = <<>>
    BY <2>1, AbstractState, Two
  <2>4. Queue!NoItems(x, s)
    BY <1>2, <1>5, <1>6, <2>1, <2>2, <2>3 DEF Queue!NoItems, Queue!Says
  <2>. QED  BY <1>4, <2>4, AbstractStep
<1>. QED  BY <1>7, <1>8

\* The list from the other side.
LEMMA SeenFromOther ==
  ASSUME NEW s \in Sides, NEW d \in Seq(Entries), NEW i \in 1 .. Len(d)
  PROVE  /\ Len(d) - i + 1 \in 1 .. Len(d)
         /\ From(Other(s), d)[i] = From(s, d)[Len(d) - i + 1]
<1>1. Len(d) \in Nat /\ Len(d) - i + 1 \in 1 .. Len(d) /\ Len(d) - (Len(d) - i + 1) + 1 = i
  OBVIOUS
<1>2. CASE s = "front"
  <2>1. Other(s) = "back" /\ Other(s) # "front"
    BY <1>2 DEF Other
  <2>2. From(Other(s), d)[i] = d[Len(d) - i + 1]
    BY <2>1, FromTyped, Two
  <2>. QED  BY <1>1, <1>2, <2>2, FromTyped
<1>3. CASE s = "back"
  <2>1. Other(s) = "front" /\ s # "front"
    BY <1>3 DEF Other
  <2>2. From(Other(s), d)[i] = d[i]
    BY <2>1, FromTyped, Two
  <2>. QED  BY <1>1, <2>1, <2>2, FromTyped
<1>. QED  BY <1>2, <1>3, Two

\* raleighsl_deque_pop's next entry: one more than the side has passed.
LEMMA NextIs ==
  ASSUME Typed, QueueOK, NEW s \in Sides, HasData(s)
  PROVE  LET d == From(s, data)
             r == side[s].removed
             i == IF r = Null THEN 1 ELSE Place(r, d)
         IN  i = Taken(s) + 1 /\ i \in 1 .. Len(data) /\ r \in {Null} \cup Range(d)
<1>. DEFINE d == From(s, data)
            r == side[s].removed
            i == IF r = Null THEN 1 ELSE Place(r, d)
<1>0. data \in Seq(Entries) /\ Len(data) \in Nat /\ Len(data) > 0 /\ Once(data)
  <2>1. data \in Seq(Entries) /\ data # <<>>
    BY DEF Typed, HasData
  <2>. QED  BY <2>1 DEF QueueOK, FreshIn
<1>1. Passed(s, r, data, Taken(s)) /\ r # DqEnd
  BY DEF QueueOK, Pointing, HasData
<1>2. CASE r = Null
  <2>1. Taken(s) = 0
    BY <1>1, <1>2 DEF Passed
  <2>. QED  BY <1>0, <1>2, <2>1
<1>3. CASE r # Null
  <2>1. Taken(s) \in 0 .. Len(data) - 1 /\ r \in Range(data) /\ Place(r, d) = Taken(s) + 1
    BY <1>0, <1>1, <1>3, PassedPlace
  <2>2. r \in Range(d)
    BY <1>0, <2>1, FromRange
  <2>3. Taken(s) + 1 \in 1 .. Len(data)
    BY <1>0, <2>1
  <2>. QED  BY <1>3, <2>1, <2>2, <2>3
<1>. QED  BY <1>2, <1>3

\* How many entries the other side has passed, seen from this one.
LEMMA GoneIs ==
  ASSUME Typed, QueueOK, NEW s \in Sides
  PROVE  LET d == From(s, data)
             o == side[Other(s)].removed
         IN  Taken(Other(s)) = CASE o = Null -> 0 [] o = DqEnd -> Len(d)
                                 [] o \in Range(d) -> Len(d) - Place(o, d)
                                 [] OTHER -> Len(d)
<1>. DEFINE d == From(s, data)
            o == side[Other(s)].removed
            n == Taken(Other(s))
            gone == CASE o = Null -> 0 [] o = DqEnd -> Len(d)
                      [] o \in Range(d) -> Len(d) - Place(o, d) [] OTHER -> Len(d)
<1>0. /\ data \in Seq(Entries) /\ Len(data) \in Nat /\ Once(data) /\ d \in Seq(Entries)
      /\ Len(d) = Len(data) /\ Once(d) /\ Range(d) = Range(data)
  BY FromTyped, FromOnce, FromRange DEF Typed, QueueOK, FreshIn
<1>1. Passed(Other(s), o, data, n) /\ Other(s) \in Sides
  BY Two DEF QueueOK, Pointing
<1>2. Range(d) \subseteq Entries
  BY <1>0 DEF Range
<1>3. CASE o = Null
  <2>1. n = 0 /\ o # DqEnd /\ o \notin Range(d)
    BY <1>1, <1>2, <1>3, DequeAssumption DEF Passed
  <2>. QED  BY <1>3, <2>1
<1>4. CASE o = DqEnd
  <2>1. n = Len(data) /\ o # Null /\ o \notin Range(d)
    BY <1>1, <1>2, <1>4, DequeAssumption DEF Passed
  <2>. QED  BY <1>0, <1>4, <2>1
<1>5. CASE o \notin {Null, DqEnd}
  <2>1. n \in 0 .. Len(data) /\ n < Len(data) /\ o = From(Other(s), data)[n + 1]
    BY <1>1, <1>5 DEF Passed
  <2>2. n + 1 \in 1 .. Len(data) /\ Len(data) - (n + 1) + 1 = Len(data) - n
    BY <1>0, <2>1
  <2>3. Len(data) - n \in 1 .. Len(d) /\ o = d[Len(data) - n]
    BY <1>0, <2>1, <2>2, SeenFromOther
  <2>4. o \in Range(d) /\ Place(o, d) = Len(data) - n
    BY <1>0, <2>3, PlaceOnce
  <2>. HIDE DEF d, o, n
  <2>5. gone = Len(d) - Place(o, d)
    BY <1>5, <2>4
  <2>6. gone = n
    BY <1>0, <2>1, <2>4, <2>5
  <2>. QED  BY <2>6 DEF d, o, n
<1>. QED  BY <1>3, <1>4, <1>5

\* What is next from a side is the first of what is left, seen from there.
LEMMA AnswerIs ==
  ASSUME Typed, QueueOK, NEW s \in Sides, Taken(s) + 1 + Taken(Other(s)) <= Len(data)
  PROVE  /\ Queue!Left # <<>>
         /\ From(s, data)[Taken(s) + 1]
              = IF s = "front" THEN Head(Queue!Left) ELSE Queue!Left[Len(Queue!Left)]
<1>. DEFINE a == Taken("front")
            b == Taken("back")
            L == Queue!Left
<1>0. data \in Seq(Entries) /\ Len(data) \in Nat /\ a \in Nat /\ b \in Nat
  BY NumbersAre, Two DEF Typed
<1>1. /\ L \in Seq(Entries) /\ Len(L) = Len(data) - a - b
      /\ \A i \in 1 .. Len(data) - a - b : L[i] = data[a + i]
  BY LeftIs
<1>2. a + b + 1 <= Len(data)
  <2>1. CASE s = "front"
    <3>1. Taken(s) = a /\ Taken(Other(s)) = b
      BY <2>1 DEF Other
    <3>. HIDE DEF a, b
    <3>. QED  BY <1>0, <3>1
  <2>2. CASE s = "back"
    <3>1. Taken(s) = b /\ Taken(Other(s)) = a
      BY <2>2 DEF Other
    <3>. HIDE DEF a, b
    <3>. QED  BY <1>0, <3>1
  <2>. QED  BY <2>1, <2>2, Two
<1>. HIDE DEF a, b, L
<1>3. Len(L) > 0 /\ 1 \in 1 .. Len(data) - a - b /\ Len(data) - a - b \in 1 .. Len(data) - a - b
      /\ a + (Len(data) - a - b) = Len(data) - b /\ L # <<>>
  <2>1. Len(L) > 0
    BY <1>0, <1>1, <1>2
  <2>2. L # <<>>
    BY <2>1
  <2>. QED  BY <1>0, <1>2, <2>1, <2>2
<1>4. CASE s = "front"
  <2>1. Head(L) = data[a + 1]
    BY <1>1, <1>3
  <2>2. From(s, data)[a + 1] = data[a + 1]
    BY <1>4 DEF From
  <2>. QED  BY <1>3, <1>4, <2>1, <2>2 DEF a, L
<1>5. CASE s = "back"
  <2>1. L[Len(L)] = data[Len(data) - b]
    BY <1>1, <1>3
  <2>2. b + 1 \in 1 .. Len(data) /\ Len(data) - (b + 1) + 1 = Len(data) - b
    BY <1>0, <1>2
  <2>3. From(s, data)[b + 1] = data[Len(data) - b]
    BY <1>0, <1>5, <2>2, FromTyped, Two
  <2>. QED  BY <1>3, <1>5, <2>1, <2>3, Two DEF b, L
<1>. QED  BY <1>4, <1>5, Two

\* raleighsl_deque_pop of the list is a pop of the queue.
LEMMA PopDataQueue ==
  ASSUME HeldInv, QueueOK, ~dqBroken', NEW x \in DqTxns \cup {DqNoTxn}, NEW s \in Sides,
         PopData(x, s)
  PROVE  QueueOK' /\ Queue!Next
<1>. DEFINE d == From(s, data)
            o == side[Other(s)].removed
            r == side[s].removed
            i == IF r = Null THEN 1 ELSE Place(r, d)
            next == IF i = Len(d) THEN DqEnd ELSE d[i + 1]
            gone == CASE o = Null -> 0 [] o = DqEnd -> Len(d)
                      [] o \in Range(d) -> Len(d) - Place(o, d) [] OTHER -> Len(d)
            f == [side EXCEPT ![s].removed = next, ![s].owner = x]
            weak == \/ x # DqNoTxn /\ side[s].owner # x
                    \/ i + gone > Len(d)
            n == [Numbers EXCEPT ![s] = @ + 1]
<1>0. Typed /\ data \in Seq(Entries) /\ Len(data) \in Nat /\ side \in SidesType
  BY DEF HeldInv, Typed
<1>1. /\ UNCHANGED <<atoms, dqStatus, author>>
      /\ ~Locked(x, s) /\ DqOpen(x) /\ side[s].pending = <<>> /\ HasData(s)
  BY DEF PopData
<1>2. i = Taken(s) + 1 /\ i \in 1 .. Len(data) /\ r \in {Null} \cup Range(d)
  BY <1>0, <1>1, NextIs
<1>3. DqSucceed(f, d[i], weak)
  BY <1>2 DEF PopData
<1>4. ~weak
  BY <1>3 DEF DqSucceed
<1>5. gone = Taken(Other(s))
  BY <1>0, GoneIs
<1>6. d \in Seq(Entries) /\ Len(d) = Len(data)
  BY <1>0, FromTyped
<1>7. Taken(s) \in Nat /\ Taken(Other(s)) \in Nat
  BY <1>0, NumbersAre, Two
<1>. HIDE DEF d, gone, i
<1>8. Taken(s) + 1 + Taken(Other(s)) <= Len(data)
  BY <1>0, <1>2, <1>4, <1>5, <1>6, <1>7
<1>9. next \in Entries \cup {DqEnd} /\ Passed(s, next, data, Taken(s) + 1)
  <2>1. CASE i = Len(d)
    BY <1>0, <1>2, <1>6, <2>1, DequeAssumption DEF Passed
  <2>2. CASE i # Len(d)
    <3>1. i + 1 \in 1 .. Len(d) /\ i < Len(data) /\ i \in 0 .. Len(data)
      BY <1>0, <1>2, <1>6, <2>2
    <3>2. next = d[i + 1] /\ d[i + 1] \in Entries
      BY <1>6, <2>2, <3>1
    <3>3. next # Null /\ next # DqEnd
      BY <3>2, DequeAssumption
    <3>. QED  BY <1>2, <3>1, <3>2, <3>3 DEF Passed, d
  <2>. QED  BY <2>1, <2>2
<1>. HIDE DEF next
<1>10. \A u \in Sides :
        /\ f[u].pending = side[u].pending
        /\ f[u].removed = IF u = s THEN next ELSE side[u].removed
        /\ f[u].owner = IF u = s THEN x ELSE side[u].owner
  BY <1>0 DEF SidesType
<1>11. f \in SidesType
  <2>1. side[s] \in [pending : Seq(Entries), removed : Entries \cup {Null, DqEnd},
                     owner : DqTxns \cup {DqNoTxn}]
    BY <1>0 DEF SidesType
  <2>. QED  BY <1>0, <1>9, <2>1 DEF SidesType
<1>12. side[s].owner = x
  <2>1. side[s].owner \in {DqNoTxn, x}
    BY <1>0, <1>1, NotLocked
  <2>. QED  BY <1>4, <2>1
<1>. HIDE DEF f, weak
<1>13. /\ n \in [Sides -> Nat]
       /\ \A u \in Sides : n[u] = IF u = s THEN Taken(s) + 1 ELSE Taken(u)
  BY <1>0, <1>7, NumbersAre
<1>. HIDE DEF n
<1>14. \A u \in Sides : Passed(u, f[u].removed, data, n[u])
  <2>1. \A u \in Sides : Passed(u, side[u].removed, data, Taken(u))
    BY DEF QueueOK, Pointing
  <2>. QED  BY <1>9, <1>10, <1>13, <2>1
<1>15. n["front"] + n["back"] <= Len(data)
  <2>1. CASE s = "front"
    <3>1. n["front"] = Taken(s) + 1 /\ n["back"] = Taken(Other(s))
      BY <1>13, <2>1, Two DEF Other
    <3>. QED  BY <1>0, <1>7, <1>8, <3>1
  <2>2. CASE s = "back"
    <3>1. n["back"] = Taken(s) + 1 /\ n["front"] = Taken(Other(s))
      BY <1>13, <2>2, Two DEF Other
    <3>. QED  BY <1>0, <1>7, <1>8, <3>1
  <2>. QED  BY <2>1, <2>2, Two
<1>16. \A u \in Sides : Once(f[u].pending) /\ Range(f[u].pending) \subseteq Range(side[u].pending)
  BY <1>10 DEF QueueOK, FreshIn
<1>17. dqAnswer' = [errno |-> "NONE", entry |-> IF s = "front" THEN Head(Queue!Left)
                                               ELSE Queue!Left[Len(Queue!Left)]]
       /\ Queue!Left # <<>>
  <2>1. dqAnswer' = [errno |-> "NONE", entry |-> d[i]]
    BY <1>3 DEF DqSucceed
  <2>. QED  BY <1>0, <1>2, <1>8, <2>1, AnswerIs DEF d
<1>18. Queue!May(x, s) /\ [u \in Sides |-> side[u].pending][s] = <<>>
  BY <1>0, <1>1, MayIs
<1>19. \A u \in Sides : u # s => Idle(f, u)
  BY <1>10 DEF QueueOK, SettledSides, Idle
<1>20. CASE x \in DqTxns
  <2>1. x # DqNoTxn
    BY <1>20, DequeAssumption
  <2>2. \A u \in Sides : Idle(f, u)
    BY <1>10, <1>19, <2>1 DEF Idle
  <2>3. /\ data' = data /\ QueueOK'
        /\ \A u \in Sides : /\ side'[u].owner = f[u].owner
                            /\ side'[u].pending = f[u].pending
                            /\ Taken(u)' = n[u]
    BY <1>1, <1>3, <1>11, <1>13, <1>14, <1>15, <1>16, <2>2, IdleCall
  <2>4. /\ [u \in Sides |-> side'[u].owner] = [[u \in Sides |-> side[u].owner] EXCEPT ![s] = x]
        /\ [u \in Sides |-> Taken(u)'] =
             [[u \in Sides |-> Taken(u)] EXCEPT ![s] = @ + 1]
        /\ [u \in Sides |-> side'[u].pending] = [u \in Sides |-> side[u].pending]
    BY <1>10, <1>12, <1>13, <2>3, ZenonT(60)
  <2>5. Queue!PopItem(x, s)
    BY <1>1, <1>17, <1>18, <2>1, <2>3, <2>4 DEF Queue!PopItem, Queue!Says
  <2>. QED  BY <2>3, <2>5, AbstractStep
<1>21. CASE x = DqNoTxn
  <2>1. side[s].removed = Null /\ Taken(s) = 0
    <3>1. side[s].removed = Null
      BY <1>12, <1>21 DEF QueueOK, SettledSides
    <3>. QED  BY <3>1 DEF QueueOK, Pointing, Passed
  <2>2. n[s] = 1
    BY <1>13, <2>1
  <2>3. FreshIn(f, data) /\ \A e \in InUse(f, data) : author'[e] # Null
    BY <1>1, <1>16, Fewer
  <2>4. /\ data' = Published(f, data, n["front"], n["back"]) /\ QueueOK'
        /\ \A u \in Sides :
             /\ side'[u].owner = f[u].owner
             /\ side'[u].pending = IF f[u].owner = DqNoTxn THEN <<>> ELSE f[u].pending
             /\ Taken(u)' = Still(f, u, n[u])
    BY <1>3, <1>11, <1>13, <1>14, <1>15, <2>3, Call
  <2>5. Part(f, s) = <<>> /\ Gone(f, s, n[s]) = 1 /\ Still(f, s, n[s]) = 0
    BY <1>1, <1>10, <1>21, <2>2 DEF Part, Gone, Still
  <2>6. \A u \in Sides : u # s => Part(f, u) = <<>> /\ Gone(f, u, n[u]) = 0
                                  /\ Still(f, u, n[u]) = n[u]
    BY <1>14, <1>19, IdleParts
  <2>7. \A u \in Sides : Taken(u)' = Taken(u)
    BY <1>13, <2>1, <2>4, <2>5, <2>6
  <2>8. \A u \in Sides : side'[u].pending = side[u].pending /\ side'[u].owner = side[u].owner
    BY <1>1, <1>10, <1>12, <1>19, <2>4 DEF Idle
  <2>9. data' = IF s = "front" THEN Tail(data) ELSE SubSeq(data, 1, Len(data) - 1)
    <3>1. /\ Cut(data, 1, 0) = Tail(data) /\ Cut(data, 0, 1) = SubSeq(data, 1, Len(data) - 1)
          /\ Cut(data, 1, 0) \in Seq(Entries) /\ Cut(data, 0, 1) \in Seq(Entries)
      <4>1. data # <<>> /\ Len(data) > 0
        BY <1>0, <1>2
      <4>2. 1 + 1 = 2 /\ Len(data) - 0 = Len(data) /\ 0 + 1 = 1
            /\ 1 + 0 <= Len(data) /\ 0 + 1 <= Len(data)
        BY <1>0, <4>1
      <4>3. Cut(data, 1, 0) = Tail(data) /\ Cut(data, 0, 1) = SubSeq(data, 1, Len(data) - 1)
        BY <1>0, <4>1, <4>2, TailIsSubSeq DEF Cut
      <4>4. 1 \in Nat /\ 0 \in Nat
        OBVIOUS
      <4>. QED  BY <1>0, <4>2, <4>3, <4>4, CutIs
    <3>2. \A w \in Seq(Entries) : (<<>> \o w) \o Reverse(<<>>) = w
      BY Neutral
    <3>3. CASE s = "front"
      <4>1. /\ Part(f, "front") = <<>> /\ Gone(f, "front", n["front"]) = 1
            /\ Part(f, "back") = <<>> /\ Gone(f, "back", n["back"]) = 0
        BY <2>5, <2>6, <3>3, Two
      <4>. QED  BY <2>4, <3>1, <3>2, <3>3, <4>1 DEF Published
    <3>4. CASE s = "back"
      <4>1. /\ Part(f, "front") = <<>> /\ Gone(f, "front", n["front"]) = 0
            /\ Part(f, "back") = <<>> /\ Gone(f, "back", n["back"]) = 1
        BY <2>5, <2>6, <3>4, Two
      <4>. QED  BY <2>4, <3>1, <3>2, <3>4, <4>1, Two DEF Published
    <3>. QED  BY <3>3, <3>4, Two
  <2>10. /\ [u \in Sides |-> side'[u].owner] = [[u \in Sides |-> side[u].owner] EXCEPT ![s] = x]
         /\ [u \in Sides |-> Taken(u)'] = [u \in Sides |-> Taken(u)]
         /\ [u \in Sides |-> side'[u].pending] = [u \in Sides |-> side[u].pending]
    BY <1>12, <2>7, <2>8
  <2>11. Queue!PopItem(x, s)
    BY <1>1, <1>17, <1>18, <1>21, <2>9, <2>10 DEF Queue!PopItem, Queue!Says
  <2>. QED  BY <2>4, <2>11, AbstractStep
<1>. QED  BY <1>20, <1>21

\* The sides a transaction holds are the sides it has atoms of.
LEMMA AtomsAre ==
  ASSUME HeldInv, ~dqBroken, NEW x \in DqTxns, Alive(x), NEW u \in Sides
  PROVE  u \in Range(atoms[x]) <=> side[u].owner = x
  BY DEF HeldInv, AtomsHold, HoldersHave

\* __object_apply changes who holds a side, and nothing else.
LEMMA AppliedKeeps ==
  ASSUME Typed, NEW x \in DqTxns, atoms[x] # <<>>, NEW u \in Sides
  PROVE  /\ AtomsApplied(x)[u].pending = side[u].pending
         /\ AtomsApplied(x)[u].removed = side[u].removed
<1>1. side \in SidesType /\ atoms[x] \in AtomLists
  BY DEF Typed
<1>2. \A g \in SidesType, s \in Sides :
        /\ ApplyAtom(g, s) \in SidesType
        /\ ApplyAtom(g, s)[u].pending = g[u].pending
        /\ ApplyAtom(g, s)[u].removed = g[u].removed
  <2>. TAKE g \in SidesType, s \in Sides
  <2>1. ApplyAtom(g, s) \in SidesType
    BY ApplyFrees
  <2>2. /\ ApplyAtom(g, s)[u].pending = g[u].pending
        /\ ApplyAtom(g, s)[u].removed = g[u].removed
    BY DEF ApplyAtom, SidesType
  <2>. QED  BY <2>1, <2>2
<1>3. \A s \in Sides : atoms[x] = <<s>> => AtomsApplied(x) = ApplyAtom(side, s)
  BY DEF AtomsApplied
<1>4. \A s, t \in Sides :
        atoms[x] = <<s, t>> => AtomsApplied(x) = ApplyAtom(ApplyAtom(side, s), t)
  BY DEF AtomsApplied
<1>5. CASE atoms[x] \in {<<"front">>, <<"back">>}
  <2>1. PICK s \in Sides : atoms[x] = <<s>>
    BY <1>5, Two
  <2>2. AtomsApplied(x) = ApplyAtom(side, s)
    BY <1>3, <2>1
  <2>. QED  BY <1>1, <1>2, <2>2
<1>6. CASE atoms[x] \in {<<"front", "back">>, <<"back", "front">>}
  <2>1. PICK s \in Sides, t \in Sides : atoms[x] = <<s, t>>
    BY <1>6, Two
  <2>2. AtomsApplied(x) = ApplyAtom(ApplyAtom(side, s), t)
    BY <1>4, <2>1
  <2>. QED  BY <1>1, <1>2, <2>2
<1>. QED  BY <1>1, <1>5, <1>6 DEF AtomLists

\* One atom reverted, of a side whose holder has no other: the side is empty.
LEMMA RevertClears ==
  ASSUME NEW g \in SidesType, NEW s \in Sides,
         s = "front" \/ g["front"].owner # g["back"].owner, NEW u \in Sides
  PROVE  /\ RevertAtom(g, s)[u].pending = IF u = s THEN <<>> ELSE g[u].pending
         /\ RevertAtom(g, s)[u].removed = IF u = s THEN Null ELSE g[u].removed
<1>1. (IF g[s].owner = g["front"].owner THEN "front" ELSE "back") = s
  <2>1. CASE s = "front"
    BY <2>1
  <2>2. CASE s = "back"
    <3>0. s # "front"
      BY <2>2, Two
    <3>1. g[s].owner # g["front"].owner
      BY <2>2, <3>0
    <3>. QED  BY <2>2, <3>1, Zenon
  <2>. QED  BY <2>1, <2>2, Two
<1>2. RevertAtom(g, s) = [g EXCEPT ![s].pending = <<>>, ![s].removed = Null, ![s].owner = DqNoTxn]
  BY <1>1 DEF RevertAtom
<1>. QED  BY <1>2 DEF SidesType

\* __object_revert empties the sides of the transaction, and no other, unless
\* the atom of the back comes before the atom of the front.
LEMMA RevertedClears ==
  ASSUME HeldInv, ~dqBroken, NEW x \in DqTxns, Alive(x), atoms[x] # <<>>,
         atoms[x] # <<"back", "front">>, NEW u \in Sides
  PROVE  /\ AtomsReverted(x)[u].pending =
              IF side[u].owner = x THEN <<>> ELSE side[u].pending
         /\ AtomsReverted(x)[u].removed =
              IF side[u].owner = x THEN Null ELSE side[u].removed
<1>1. Typed /\ side \in SidesType /\ atoms[x] \in AtomLists
  BY DEF HeldInv, Typed
<1>2. \A v \in Sides : v \in Range(atoms[x]) <=> side[v].owner = x
  BY AtomsAre
<1>3. \A s \in Sides : atoms[x] = <<s>> => AtomsReverted(x) = RevertAtom(side, s)
  BY DEF AtomsReverted
<1>4. CASE atoms[x] = <<"front">>
  <2>1. \A v \in Sides : side[v].owner = x <=> v = "front"
    BY <1>2, <1>4, RangeOf
  <2>2. AtomsReverted(x) = RevertAtom(side, "front")
    BY <1>3, <1>4, Two
  <2>. QED  BY <1>1, <2>1, <2>2, RevertClears, Two
<1>5. CASE atoms[x] = <<"back">>
  <2>1. \A v \in Sides : side[v].owner = x <=> v = "back"
    BY <1>2, <1>5, RangeOf
  <2>2. AtomsReverted(x) = RevertAtom(side, "back")
    BY <1>3, <1>5, Two
  <2>3. side["front"].owner # side["back"].owner
    BY <2>1, Two
  <2>. QED  BY <1>1, <2>1, <2>2, <2>3, RevertClears, Two
<1>6. CASE atoms[x] = <<"front", "back">>
  <2>. DEFINE g == RevertAtom(side, "front")
  <2>1. \A v \in Sides : side[v].owner = x
    BY <1>2, <1>6, RangeOf
  <2>2. AtomsReverted(x) = RevertAtom(g, "back")
    BY <1>6 DEF AtomsReverted
  <2>3. g \in SidesType
        /\ \A v \in Sides : g[v].owner = IF v = "front" THEN DqNoTxn ELSE side[v].owner
    BY <1>1, RevertFrees, Two
  <2>4. \A v \in Sides :
          /\ g[v].pending = IF v = "front" THEN <<>> ELSE side[v].pending
          /\ g[v].removed = IF v = "front" THEN Null ELSE side[v].removed
    BY <1>1, RevertClears, Two
  <2>. HIDE DEF g
  <2>5. g["front"].owner # g["back"].owner
    BY <2>1, <2>3, Two, DequeAssumption
  <2>6. \A v \in Sides :
          /\ AtomsReverted(x)[v].pending = IF v = "back" THEN <<>> ELSE g[v].pending
          /\ AtomsReverted(x)[v].removed = IF v = "back" THEN Null ELSE g[v].removed
    BY <2>2, <2>3, <2>5, RevertClears, Two
  <2>. QED  BY <2>1, <2>4, <2>6, Two
<1>. QED  BY <1>1, <1>4, <1>5, <1>6 DEF AtomLists

\* The end of a transaction gives up its ends of the queue.
LEMMA GivesUp ==
  ASSUME Typed, NEW x \in DqTxns, Alive(x), NEW how \in {"committed", "rolledback"},
         dqStatus' = [dqStatus EXCEPT ![x] = how],
         dqAnswer' = [errno |-> "NONE", entry |-> Null],
         \A u \in Sides :
           /\ side'[u].owner = IF side[u].owner = x THEN DqNoTxn ELSE side[u].owner
           /\ side'[u].pending = IF side[u].owner = x THEN <<>> ELSE side[u].pending
           /\ Taken(u)' = IF side[u].owner = x THEN 0 ELSE Taken(u)
  PROVE  Queue!GiveUp(x, how)
<1>. DEFINE st == [y \in DqTxns |-> IF dqStatus[y] = "failed" THEN "open" ELSE dqStatus[y]]
            lk == [u \in Sides |-> side[u].owner]
            sg == [u \in Sides |-> side[u].pending]
            tk == [u \in Sides |-> Taken(u)]
<1>1. st[x] = "open"
  BY DEF Alive
<1>2. st' = [st EXCEPT ![x] = how]
  <2>1. \A y \in DqTxns : dqStatus'[y] = IF y = x THEN how ELSE dqStatus[y]
    BY DEF Typed
  <2>2. how # "failed"
    OBVIOUS
  <2>. QED  BY <2>1, <2>2, Zenon
<1>3. lk' = [u \in Sides |-> IF lk[u] = x THEN DqNoTxn ELSE lk[u]]
  OBVIOUS
<1>4. sg' = [u \in Sides |-> IF lk[u] = x THEN <<>> ELSE sg[u]]
  OBVIOUS
<1>5. tk' = [u \in Sides |-> IF lk[u] = x THEN 0 ELSE tk[u]]
  OBVIOUS
<1>. QED  BY <1>1, <1>2, <1>3, <1>4, <1>5, AbstractState DEF Queue!GiveUp, Queue!Says

\* What a transaction has staged at a side, and how much it has popped there.
Staged(x, u) == IF side[u].owner = x THEN side[u].pending ELSE <<>>
Popped(x, u) == IF side[u].owner = x THEN Taken(u) ELSE 0

LEMMA CommitsAll ==
  ASSUME Typed, NEW x \in DqTxns, Queue!GiveUp(x, "committed"),
         data' = (Staged(x, "front") \o Cut(data, Popped(x, "front"), Popped(x, "back")))
                   \o Reverse(Staged(x, "back"))
  PROVE  Queue!Commit(x)
<1>. DEFINE lk == [u \in Sides |-> side[u].owner]
            sg == [u \in Sides |-> side[u].pending]
            tk == [u \in Sides |-> Taken(u)]
            Mine(u, f, none) == IF lk[u] = x THEN f[u] ELSE none
            b == Mine("back", sg, <<>>)
<1>1. /\ Mine("front", sg, <<>>) = Staged(x, "front") /\ b = Staged(x, "back")
      /\ Mine("front", tk, 0) = Popped(x, "front") /\ Mine("back", tk, 0) = Popped(x, "back")
  BY Two DEF Staged, Popped
<1>2. Staged(x, "back") \in Seq(Entries)
  <2>1. side["back"].pending \in Seq(Entries) /\ <<>> \in Seq(Entries)
    BY Two DEF Typed, SidesType
  <2>. QED  BY <2>1 DEF Staged
<1>3. [i \in 1 .. Len(b) |-> b[Len(b) + 1 - i]] = Reverse(b)
  <2>1. b \in Seq(Entries)
    BY <1>1, <1>2
  <2>. HIDE DEF b
  <2>2. \A i \in 1 .. Len(b) : Len(b) + 1 - i = (Len(b) - i) + 1
    BY <2>1, SMTT(30)
  <2>. QED  BY <2>2 DEF Reverse
<1>. HIDE DEF Mine
<1>4. data' = Mine("front", sg, <<>>)
                \o SubSeq(data, Mine("front", tk, 0) + 1, Len(data) - Mine("back", tk, 0))
                \o [i \in 1 .. Len(b) |-> b[Len(b) + 1 - i]]
  BY <1>1, <1>3 DEF Cut
<1>. QED  BY <1>4, Zenon DEF Queue!Commit, Mine

\* What nobody holds is settled: an end that x holds is the only one it frees.
LEMMA EmptyEnd ==
  ASSUME HeldInv, QueueOK, ~dqBroken, NEW x \in DqTxns, Alive(x), atoms[x] = <<>>,
         NEW how \in {"committed", "rolledback"},
         dqStatus' = [dqStatus EXCEPT ![x] = how],
         dqAnswer' = [errno |-> "NONE", entry |-> Null],
         UNCHANGED <<data, side, author>>
  PROVE  /\ QueueOK' /\ Queue!GiveUp(x, how)
         /\ \A u \in Sides : side[u].owner # x
<1>1. \A u \in Sides : side[u].owner # x
  BY AtomsAre, RangeOf
<1>2. \A u \in Sides : Taken(u)' = Taken(u)
  BY DEF Taken
<1>3. QueueOK'
  <2>1. SettledSides' /\ FreshIn(side, data)'
        /\ (\A z \in InUse(side, data) : author[z] # Null)'
    BY DEF QueueOK, SettledSides, FreshIn, InUse, Once
  <2>2. Pointing'
    BY <1>2, Two DEF QueueOK, Pointing, Passed
  <2>. QED  BY <2>1, <2>2 DEF QueueOK
<1>4. Queue!GiveUp(x, how)
  <2>1. \A u \in Sides :
           /\ side'[u].owner = IF side[u].owner = x THEN DqNoTxn ELSE side[u].owner
           /\ side'[u].pending = IF side[u].owner = x THEN <<>> ELSE side[u].pending
           /\ Taken(u)' = IF side[u].owner = x THEN 0 ELSE Taken(u)
    BY <1>1, <1>2
  <2>2. Typed
    BY DEF HeldInv
  <2>. QED  BY <2>1, <2>2, GivesUp
<1>. QED  BY <1>1, <1>3, <1>4

\* The commit of a transaction publishes both its ends in one step.
LEMMA CommitQueue ==
  ASSUME HeldInv, QueueOK, ~dqBroken, ~dqBroken', NEW x \in DqTxns, DqCommitTxn(x)
  PROVE  QueueOK' /\ Queue!Next
<1>. DEFINE f == AtomsApplied(x)
            n == Numbers
<1>0. Typed /\ data \in Seq(Entries) /\ Alive(x)
  BY DEF HeldInv, Typed, DqCommitTxn, Alive
<1>1. EndTxn(x, f, "committed", FALSE)
  BY DEF DqCommitTxn
<1>2. dqStatus' = [dqStatus EXCEPT ![x] = "committed"] /\ UNCHANGED <<atoms, author>>
  BY <1>1 DEF EndTxn
<1>3. CASE atoms[x] = <<>>
  <2>1. dqAnswer' = [errno |-> "NONE", entry |-> Null] /\ UNCHANGED <<data, side, author>>
    BY <1>1, <1>3 DEF EndTxn
  <2>2. QueueOK' /\ Queue!GiveUp(x, "committed") /\ \A u \in Sides : side[u].owner # x
    BY <1>0, <1>2, <1>3, <2>1, EmptyEnd
  <2>3. \A u \in Sides : Staged(x, u) = <<>> /\ Popped(x, u) = 0
    BY <2>2 DEF Staged, Popped
  <2>4. data = (<<>> \o Cut(data, 0, 0)) \o Reverse(<<>>)
    BY <1>0, Neutral
  <2>5. Queue!Commit(x)
    BY <1>0, <2>1, <2>2, <2>3, <2>4, Two, CommitsAll
  <2>. QED  BY <2>2, <2>5, AbstractEnd
<1>4. CASE atoms[x] # <<>>
  <2>1. DqSucceed(f, Null, FALSE)
    BY <1>1, <1>4 DEF EndTxn
  <2>2. dqAnswer' = [errno |-> "NONE", entry |-> Null]
    BY <2>1 DEF DqSucceed
  <2>3. f \in SidesType /\ \A u \in Sides :
          /\ f[u].owner = IF side[u].owner = x THEN DqNoTxn ELSE side[u].owner
          /\ f[u].pending = side[u].pending
          /\ f[u].removed = side[u].removed
    BY <1>0, <1>4, AtomsFree, AtomsAre, AppliedKeeps
  <2>. HIDE DEF f
  <2>4. FreshIn(f, data) /\ \A e \in InUse(f, data) : author'[e] # Null
    <3>1. \A u \in Sides : Once(f[u].pending)
                           /\ Range(f[u].pending) \subseteq Range(side[u].pending)
      BY <2>3 DEF QueueOK, FreshIn
    <3>. QED  BY <1>2, <3>1, Fewer
  <2>5. /\ n \in [Sides -> Nat] /\ n["front"] + n["back"] <= Len(data)
        /\ \A u \in Sides : Passed(u, f[u].removed, data, n[u]) /\ n[u] = Taken(u)
    BY <1>0, <2>3, NumbersAre
  <2>. HIDE DEF n
  <2>6. /\ data' = Published(f, data, n["front"], n["back"]) /\ QueueOK'
        /\ \A u \in Sides :
             /\ side'[u].owner = f[u].owner
             /\ side'[u].pending = IF f[u].owner = DqNoTxn THEN <<>> ELSE f[u].pending
             /\ Taken(u)' = Still(f, u, n[u])
    BY <2>1, <2>3, <2>4, <2>5, Call
  <2>7. \A u \in Sides : side[u].owner = DqNoTxn => side[u].pending = <<>> /\ Taken(u) = 0
    BY DEF QueueOK, SettledSides, Pointing, Passed
  <2>8. \A u \in Sides :
          /\ Part(f, u) = Staged(x, u) /\ Gone(f, u, n[u]) = Popped(x, u)
          /\ Still(f, u, n[u]) = IF side[u].owner = x THEN 0 ELSE Taken(u)
    BY <2>3, <2>5, <2>7 DEF Part, Gone, Still, Staged, Popped
  <2>9. data' = (Staged(x, "front") \o Cut(data, Popped(x, "front"), Popped(x, "back")))
                  \o Reverse(Staged(x, "back"))
    BY <2>6, <2>8, Two DEF Published
  <2>10. \A u \in Sides :
           /\ side'[u].owner = IF side[u].owner = x THEN DqNoTxn ELSE side[u].owner
           /\ side'[u].pending = IF side[u].owner = x THEN <<>> ELSE side[u].pending
           /\ Taken(u)' = IF side[u].owner = x THEN 0 ELSE Taken(u)
    BY <2>3, <2>6, <2>7, <2>8
  <2>11. Queue!GiveUp(x, "committed")
    BY <1>0, <1>2, <2>2, <2>10, GivesUp
  <2>12. Queue!Commit(x)
    BY <1>0, <2>9, <2>11, CommitsAll
  <2>. QED  BY <2>6, <2>12, AbstractEnd
<1>. QED  BY <1>3, <1>4

\* The rollback of a transaction restores both its ends in one step.
LEMMA RollbackQueue ==
  ASSUME HeldInv, QueueOK, ~dqBroken, ~dqBroken', NEW x \in DqTxns, DqRollbackTxn(x)
  PROVE  QueueOK' /\ Queue!Next
<1>. DEFINE f == AtomsReverted(x)
            n == [u \in Sides |-> IF side[u].owner = x THEN 0 ELSE Taken(u)]
<1>0. Typed /\ data \in Seq(Entries) /\ Alive(x) /\ Len(data) \in Nat
  BY DEF HeldInv, Typed, DqRollbackTxn, Alive
<1>1. EndTxn(x, f, "rolledback", atoms[x] = <<"back", "front">>)
  BY DEF DqRollbackTxn
<1>2. dqStatus' = [dqStatus EXCEPT ![x] = "rolledback"] /\ UNCHANGED <<atoms, author>>
  BY <1>1 DEF EndTxn
<1>3. CASE atoms[x] = <<>>
  <2>1. dqAnswer' = [errno |-> "NONE", entry |-> Null] /\ UNCHANGED <<data, side, author>>
    BY <1>1, <1>3 DEF EndTxn
  <2>2. QueueOK' /\ Queue!GiveUp(x, "rolledback")
    BY <1>0, <1>2, <1>3, <2>1, EmptyEnd
  <2>3. Queue!Rollback(x)
    BY <2>1, <2>2 DEF Queue!Rollback
  <2>. QED  BY <2>2, <2>3, AbstractEnd
<1>4. CASE atoms[x] # <<>>
  <2>1. DqSucceed(f, Null, atoms[x] = <<"back", "front">>)
    BY <1>1, <1>4 DEF EndTxn
  <2>2. dqAnswer' = [errno |-> "NONE", entry |-> Null] /\ atoms[x] # <<"back", "front">>
    BY <2>1 DEF DqSucceed
  <2>3. f \in SidesType /\ \A u \in Sides :
          /\ f[u].owner = IF side[u].owner = x THEN DqNoTxn ELSE side[u].owner
          /\ f[u].pending = IF side[u].owner = x THEN <<>> ELSE side[u].pending
          /\ f[u].removed = IF side[u].owner = x THEN Null ELSE side[u].removed
    BY <1>0, <1>4, <2>2, AtomsFree, AtomsAre, RevertedClears
  <2>. HIDE DEF f
  <2>4. \A u \in Sides : Once(f[u].pending)
                         /\ Range(f[u].pending) \subseteq Range(side[u].pending)
    <3>1. Once(<<>>) /\ Range(<<>>) = {}
      BY RangeOf DEF Once
    <3>. QED  BY <2>3, <3>1 DEF QueueOK, FreshIn
  <2>5. \A u \in Sides : Idle(f, u)
    BY <2>3 DEF QueueOK, SettledSides, Idle
  <2>6. \A u \in Sides : Taken(u) \in Nat /\ Passed(u, side[u].removed, data, Taken(u))
    BY <1>0, NumbersAre DEF QueueOK, Pointing
  <2>7. /\ n \in [Sides -> Nat]
        /\ \A u \in Sides : n[u] = IF side[u].owner = x THEN 0 ELSE Taken(u)
    BY <2>6
  <2>. HIDE DEF n
  <2>8. \A u \in Sides : Passed(u, f[u].removed, data, n[u])
    <3>. TAKE u \in Sides
    <3>1. CASE side[u].owner = x
      BY <1>0, <2>3, <2>7, <3>1, DequeAssumption DEF Passed
    <3>2. CASE side[u].owner # x
      BY <2>3, <2>6, <2>7, <3>2
    <3>. QED  BY <3>1, <3>2
  <2>9. n["front"] + n["back"] <= Len(data)
    <3>1. /\ Taken("front") + Taken("back") <= Len(data)
          /\ Taken("front") \in Nat /\ Taken("back") \in Nat
      BY <2>6, Two DEF QueueOK, Pointing
    <3>2. /\ n["front"] = 0 \/ n["front"] = Taken("front")
          /\ n["back"] = 0 \/ n["back"] = Taken("back")
      BY <2>7, Two
    <3>. QED  BY <1>0, <3>1, <3>2
  <2>10. /\ data' = data /\ QueueOK'
         /\ \A u \in Sides : /\ side'[u].owner = f[u].owner
                             /\ side'[u].pending = f[u].pending
                             /\ Taken(u)' = n[u]
    BY <1>2, <2>1, <2>3, <2>4, <2>5, <2>7, <2>8, <2>9, IdleCall
  <2>11. \A u \in Sides :
           /\ side'[u].owner = IF side[u].owner = x THEN DqNoTxn ELSE side[u].owner
           /\ side'[u].pending = IF side[u].owner = x THEN <<>> ELSE side[u].pending
           /\ Taken(u)' = IF side[u].owner = x THEN 0 ELSE Taken(u)
    BY <2>3, <2>7, <2>10
  <2>12. Queue!GiveUp(x, "rolledback")
    BY <1>0, <1>2, <2>2, <2>11, GivesUp
  <2>13. Queue!Rollback(x)
    BY <2>10, <2>12 DEF Queue!Rollback
  <2>. QED  BY <2>10, <2>13, AbstractEnd
<1>. QED  BY <1>3, <1>4

\* A deque that has met a weakness has met it for good.
LEMMA StaysBroken == dqBroken /\ DqNext => dqBroken'
<1>. SUFFICES ASSUME dqBroken, DqNext PROVE dqBroken'
  OBVIOUS
<1>1. \A f, e, weak : DqSucceed(f, e, weak) => dqBroken'
  BY DEF DqSucceed
<1>2. \A x, e : DqFail(x, e) => dqBroken'
  BY DEF DqFail
<1>3. ASSUME NEW x \in DqTxns \cup {DqNoTxn}, NEW s \in Sides,
             \/ Push(x, s) \/ Refuse(x, s) \/ PopPending(x, s)
             \/ PopOther(x, s) \/ NoItems(x, s)
      PROVE  dqBroken'
  BY <1>3 DEF Push, Refuse, PopPending, PopOther, NoItems, DqSucceed, DqFail
<1>4. ASSUME NEW x \in DqTxns \cup {DqNoTxn}, NEW s \in Sides, PopData(x, s)
      PROVE  dqBroken'
  BY <1>4 DEF PopData, DqSucceed
<1>5. ASSUME NEW x \in DqTxns, DqCommitTxn(x) \/ DqRollbackTxn(x) PROVE dqBroken'
  BY <1>5 DEF DqCommitTxn, DqRollbackTxn, EndTxn, DqSucceed
<1>. QED  BY <1>3, <1>4, <1>5 DEF DqNext

\* Every step is a step of the queue, or meets a weakness.
LEMMA StepQueue ==
  ASSUME QueueInv, DqNext
  PROVE  QueueInv' /\ (Queue!Next \/ dqBroken')
<1>1. HeldInv'
  BY NextHeld DEF QueueInv
<1>2. ASSUME ~dqBroken' PROVE QueueOK' /\ Queue!Next
  <2>1. HeldInv /\ ~dqBroken /\ QueueOK
    BY <1>2, StaysBroken DEF QueueInv
  <2>2. ASSUME NEW x \in DqTxns \cup {DqNoTxn}, NEW s \in Sides,
               \/ Push(x, s) \/ Refuse(x, s) \/ PopPending(x, s)
               \/ PopData(x, s) \/ PopOther(x, s) \/ NoItems(x, s)
        PROVE  QueueOK' /\ Queue!Next
    BY <1>2, <2>1, <2>2, PushQueue, FailQueue, PopPendingQueue, PopDataQueue, PopOtherQueue
  <2>3. ASSUME NEW x \in DqTxns, DqCommitTxn(x) \/ DqRollbackTxn(x)
        PROVE  QueueOK' /\ Queue!Next
    BY <1>2, <2>1, <2>3, CommitQueue, RollbackQueue
  <2>. QED  BY <2>2, <2>3 DEF DqNext
<1>. QED  BY <1>1, <1>2 DEF QueueInv

LEMMA InitQueue == DqInit => QueueInv /\ Queue!Init
<1>. SUFFICES ASSUME DqInit PROVE QueueInv /\ Queue!Init
  OBVIOUS
<1>1. /\ data = <<>> /\ Range(<<>>) = {} /\ Once(<<>>) /\ Len(data) = 0
      /\ \A u \in Sides : side[u].pending = <<>> /\ side[u].removed = Null
                          /\ side[u].owner = DqNoTxn
  BY RangeOf DEF DqInit, Once
<1>2. \A u \in Sides : Taken(u) = 0 /\ Passed(u, side[u].removed, data, 0)
  <2>. TAKE u \in Sides
  <2>1. Passed(u, side[u].removed, data, 0) /\ data \in Seq(Entries) /\ Once(data)
        /\ side[u].removed \in Entries \cup {Null, DqEnd}
    BY <1>1, DequeAssumption DEF Passed
  <2>2. TakenOf(u, side[u].removed, data) = 0
    BY <2>1, TakenIs
  <2>. QED  BY <2>1, <2>2 DEF Taken, TakenOf
<1>3. QueueOK
  <2>1. SettledSides /\ FreshIn(side, data)
    BY <1>1, Two DEF SettledSides, FreshIn
  <2>2. InUse(side, data) = {}
    BY <1>1, Two DEF InUse
  <2>3. Pointing
    BY <1>1, <1>2, Two DEF Pointing
  <2>. QED  BY <2>1, <2>2, <2>3 DEF QueueOK
<1>4. Queue!Init
  <2>1. /\ [u \in Sides |-> side[u].owner] = [u \in Sides |-> DqNoTxn]
        /\ [u \in Sides |-> side[u].pending] = [u \in Sides |-> <<>>]
        /\ [u \in Sides |-> Taken(u)] = [u \in Sides |-> 0]
    BY <1>1, <1>2
  <2>2. [x \in DqTxns |-> IF dqStatus[x] = "failed" THEN "open" ELSE dqStatus[x]]
          = [x \in DqTxns |-> "open"]
    BY DEF DqInit
  <2>. QED  BY <1>1, <2>1, <2>2, AbstractState DEF Queue!Init, DqInit
<1>. QED  BY <1>3, <1>4, InitHeld DEF QueueInv

LEMMA StutterQueue == QueueInv /\ UNCHANGED dqvars => QueueInv'
<1>. SUFFICES ASSUME QueueInv, UNCHANGED dqvars PROVE QueueInv'
  OBVIOUS
<1>1. HeldInv'
  BY NextHeld DEF QueueInv
<1>2. UNCHANGED <<data, side, author, dqBroken>>
  BY DEF dqvars
<1>3. \A u \in Sides : Taken(u)' = Taken(u)
  BY <1>2 DEF Taken
<1>4. ASSUME QueueOK PROVE QueueOK'
  <2>1. SettledSides' /\ FreshIn(side, data)'
        /\ (\A z \in InUse(side, data) : author[z] # Null)'
    BY <1>2, <1>4 DEF QueueOK, SettledSides, FreshIn, InUse, Once
  <2>2. Pointing'
    BY <1>2, <1>3, <1>4, Two DEF QueueOK, Pointing, Passed
  <2>. QED  BY <2>1, <2>2 DEF QueueOK
<1>. QED  BY <1>1, <1>2, <1>4 DEF QueueInv

\* Until a weakness is met the deque is a double-ended queue whose ends
\* transactions lock, change, and publish or restore as a whole
\* (RefinesQueue): raleighsl_deque_push and _pop, __object_apply,
\* __object_revert and __object_commit against TxnDeque.
THEOREM DequeIsAQueue == DqSpec => RefinesQueue
<1>1. DqInit => QueueInv /\ Queue!Init
  BY InitQueue
<1>2. QueueInv /\ [DqNext]_dqvars => QueueInv'
  BY StepQueue, StutterQueue
<1>3. QueueInv /\ [DqNext]_dqvars =>
        [UNCHANGED dqvars \/ Queue!Next \/ dqBroken']_(Queue!vars)
  BY StepQueue
<1>. QED  BY <1>1, <1>2, <1>3, PTL DEF DqSpec, RefinesQueue
=============================================================================
