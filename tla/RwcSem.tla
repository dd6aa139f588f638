------------------------------- MODULE RwcSem -------------------------------
(***************************************************************************)
(* The state word of z_rwcsem_t (zcl/threading/locking.{h,c}) and the      *)
(* operations on it.                                                       *)
(*                                                                         *)
(* The code packs a reader count (bits 0-28) and the flags WRITE (bit 29), *)
(* COMMIT (bit 30) and LOCK (bit 31) in one uint32_t.  Here the word is a  *)
(* record of the two parts.  Adding and subtracting one stays arithmetic   *)
(* on the whole word: a carry out of the count, or a borrow into it,       *)
(* ripples through the flags.                                              *)
(*                                                                         *)
(* Every operation of the code is a z_atomic_cas_loop: it evaluates its    *)
(* body on the current word and retries until the compare-and-swap         *)
(* succeeds, so it takes effect atomically on one value of the word.  For  *)
(* an acquire there are three outcomes on a word s:                        *)
(*   Granted(op, s)   the CAS succeeds and the word becomes Acquired(op,s);*)
(*   Refused(op, s)   the body returns 0;                                  *)
(*   neither          expval has masked out a bit that is set, the CAS     *)
(*                    keeps failing and the thread spins.                  *)
(***************************************************************************)
EXTENDS Naturals

CONSTANT MaxReaders   \* Z_RWCSEM_READERS_MASK, 2^29 - 1 in the code

ASSUME MaxReadersAssumption == MaxReaders \in Nat \ {0}

Flags == {"WRITE", "COMMIT", "LOCK"}

Ops == {"READ", "WRITE", "COMMIT", "LOCK"}

Word == [readers : 0 .. MaxReaders, flags : SUBSET Flags]

Zero == [readers |-> 0, flags |-> {}]

\* The word with the flags F set and no reader.
Only(F) == [readers |-> 0, flags |-> F]

WithFlag(s, f) == [readers |-> s.readers, flags |-> s.flags \cup {f}]

-----------------------------------------------------------------------------
\* The three flags seen as a number, WRITE its lowest bit, plus one.
CarryInto(F) ==
  IF "WRITE" \notin F THEN F \cup {"WRITE"}
  ELSE IF "COMMIT" \notin F THEN (F \ {"WRITE"}) \cup {"COMMIT"}
  ELSE IF "LOCK" \notin F THEN {"LOCK"}
  ELSE {}

\* The same number minus one.
BorrowFrom(F) ==
  IF "WRITE" \in F THEN F \ {"WRITE"}
  ELSE IF "COMMIT" \in F THEN (F \ {"COMMIT"}) \cup {"WRITE"}
  ELSE IF "LOCK" \in F THEN {"COMMIT", "WRITE"}
  ELSE Flags

PlusOne(s) ==
  IF s.readers < MaxReaders
  THEN [readers |-> s.readers + 1, flags |-> s.flags]
  ELSE [readers |-> 0, flags |-> CarryInto(s.flags)]

\* Fault: the subtraction does not borrow from the flags.
MinusOneNoBorrow(s) == [readers |-> s.readers - 1, flags |-> s.flags]

MinusOne(s) ==
  IF s.readers > 0
  THEN [readers |-> s.readers - 1, flags |-> s.flags]
  ELSE [readers |-> MaxReaders, flags |-> BorrowFrom(s.flags)]

-----------------------------------------------------------------------------
\* z_rwcsem_try_acquire returns 0.
Refused(op, s) ==
  CASE op = "READ"   -> "COMMIT" \in s.flags
    [] op = "WRITE"  -> s.flags \cap {"COMMIT", "WRITE"} # {}
    [] op = "COMMIT" -> s # Only({"COMMIT"})
    [] op = "LOCK"   -> s # Only({"LOCK"})

\* Fault: a reader is let in beside a commit.
GrantedBesideCommit(op, s) ==
  CASE op = "READ"   -> s.flags \subseteq {"WRITE", "COMMIT"}
    [] op = "WRITE"  -> s.flags = {}
    [] op = "COMMIT" -> s = Only({"COMMIT"})
    [] op = "LOCK"   -> s = Only({"LOCK"})

\* Fault: a transaction does not wait for a commit that is due.
GrantedBeforeCommit(op, s) ==
  CASE op = "READ"   -> s.flags \subseteq {"WRITE"}
    [] op = "WRITE"  -> s.flags = {}
    [] op = "COMMIT" -> s = Only({"COMMIT"})
    [] op = "LOCK"   -> s.readers = 0 /\ "WRITE" \notin s.flags

\* z_rwcsem_try_acquire can swap the word: it is the expected value.
Granted(op, s) ==
  CASE op = "READ"   -> s.flags \subseteq {"WRITE"}
    [] op = "WRITE"  -> s.flags = {}
    [] op = "COMMIT" -> s = Only({"COMMIT"})
    [] op = "LOCK"   -> s = Only({"LOCK"})

Acquired(op, s) ==
  CASE op = "READ"   -> PlusOne(s)
    [] op = "WRITE"  -> WithFlag(s, "WRITE")
    [] op = "COMMIT" -> Only({"COMMIT", "WRITE"})
    [] op = "LOCK"   -> Only({"LOCK", "WRITE"})

\* The word z_rwcsem_release leaves, which is also the state it returns.
\* Releasing WRITE keeps the LOCK and COMMIT bits and nothing else: the
\* reader count goes with the WRITE flag.
Released(op, s) ==
  CASE op = "READ"   -> MinusOne(s)
    [] op = "WRITE"  -> Only(s.flags \cap {"LOCK", "COMMIT"})
    [] op = "COMMIT" -> Only(s.flags \cap {"LOCK"})
    [] op = "LOCK"   -> Zero

SetCommit(s) == WithFlag(s, "COMMIT")

SetLock(s) == WithFlag(s, "LOCK")

\* z_rwcsem_try_switch from WRITE to READ: refused under COMMIT, spinning
\* under LOCK, otherwise the word becomes one reader.
SwitchReadRefused(s) == "COMMIT" \in s.flags
SwitchReadGranted(s) == s.flags \subseteq {"WRITE"}
SwitchedRead == [readers |-> 1, flags |-> {}]

\* z_rwcsem_try_switch from WRITE to COMMIT only tests the word.
SwitchCommitGranted(s) == s = Only({"COMMIT", "WRITE"})

\* z_rwcsem_is_readable, _is_writable, _is_committable and _is_lockable:
\* a release that left the word s wakes the tasks waiting for op.
Wakes(op, s) ==
  CASE op = "READ"   -> s.flags \subseteq {"WRITE"}
    [] op = "WRITE"  -> s.flags = {}
    [] op = "COMMIT" -> s.flags \subseteq {"COMMIT"} /\ s.readers = 0
    [] op = "LOCK"   -> s.flags \subseteq {"LOCK"} /\ s.readers = 0
=============================================================================
