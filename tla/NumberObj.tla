----------------------------- MODULE NumberObj -----------------------------
(***************************************************************************)
(* One number under the object scheduler, seen from its clients: every     *)
(* call runs alone on the number (ObjectSched shows that it does), a write *)
(* that succeeds is followed by the commit of the object, and the end of a *)
(* transaction applies or reverts the number's atom and commits.           *)
(*                                                                         *)
(* The module is where the arithmetic of the plug is checked for every     *)
(* call and where the number is shown to implement the abstract store.     *)
(***************************************************************************)
EXTENDS Number

CONSTANTS
  Txns,
  Args      \* the operands the clients use

ASSUME NumberObjAssumption ==
  /\ NoTxn \notin Txns
  /\ Args \subseteq Ints

\* The calls of the write functions.
Calls ==
  [op : {"set", "add", "mul", "div"}, arg : Args]
    \cup [op : {"cas"}, arg : Args, new : Args]

VARIABLES
  num,      \* the number
  status,   \* of each transaction: "open", "committed", "rolledback"
  answer    \* [errno, value, mod]: what the last call answered

vars == <<num, status, answer>>

Silence == [errno |-> "NONE", value |-> 0, mod |-> 0]

Init ==
  /\ num = Created
  /\ status = [x \in Txns |-> "open"]
  /\ answer = Silence

Open(x) == x \in Txns => status[x] = "open"

\* raleighsl_number_get.
Read(x) ==
  /\ Open(x)
  /\ answer' = [Silence EXCEPT !.value = Get(num, x)]
  /\ UNCHANGED <<num, status>>

\* A write function that returns an errno.  A failed compare-and-swap tells
\* the value it has found.
Fail(x, f) ==
  /\ Open(x)
  /\ Errno(num, x, f) # "NONE"
  /\ answer' = [errno |-> Errno(num, x, f),
                value |-> IF Errno(num, x, f) = "DATA_CAS" THEN num.write ELSE 0,
                mod |-> 0]
  /\ UNCHANGED <<num, status>>

\* A write function that succeeds, then raleighsl_object_commit.
Write(x, f) ==
  /\ Open(x)
  /\ Errno(num, x, f) = "NONE"
  /\ ~Traps(num.write, f)
  /\ num' = Commit(Mutate(num, x, f))
  /\ answer' = [errno |-> "NONE",
                value |-> CASE f.op = "set" -> 0
                            [] f.op = "cas" -> num.write
                            [] OTHER        -> Result(num.write, f),
                mod |-> IF f.op = "div" THEN Remainder(num.write, f.arg) ELSE 0]
  /\ UNCHANGED status

\* The end of a transaction: its atom, if it has one here, is applied or
\* reverted, and the object is committed.
Ended(x, n) == IF num.owner = x THEN Commit(n) ELSE num

CommitTxn(x) ==
  /\ status[x] = "open"
  /\ status' = [status EXCEPT ![x] = "committed"]
  /\ num' = Ended(x, Apply(num))
  /\ answer' = Silence

\* A rollback, or the commit of a transaction one of whose writes failed.
RollbackTxn(x) ==
  /\ status[x] = "open"
  /\ status' = [status EXCEPT ![x] = "rolledback"]
  /\ num' = Ended(x, Revert(num))
  /\ answer' = Silence

Next ==
  \/ \E x \in Txns \cup {NoTxn} : Read(x)
  \/ \E x \in Txns \cup {NoTxn}, f \in Calls : Fail(x, f) \/ Write(x, f)
  \/ \E x \in Txns : CommitTxn(x) \/ RollbackTxn(x)

Spec == Init /\ [][Next]_vars

-----------------------------------------------------------------------------
\* The types: every value has the width.
TypeOK ==
  /\ num \in [read : Ints, write : Ints, owner : Txns \cup {NoTxn}]
  /\ status \in [Txns -> {"open", "committed", "rolledback"}]
  /\ answer \in [errno : {"NONE", "NUMBER_DIVMOD_BYZERO",
                          "TXN_LOCKED_OPERATION", "DATA_CAS"},
                 value : Ints, mod : Ints]

\* Between two calls nothing waits for a commit: without an owner the two
\* values agree, and an owner is a transaction that has not ended
\* (__object_apply, __object_revert and __object_commit together).
Settled ==
  /\ num.owner = NoTxn => num.read = num.write
  /\ num.owner # NoTxn => status[num.owner] = "open"

\* raleighsl_number_div answers a quotient and a remainder that make up the
\* value it has found, the remainder smaller than the divisor and never of
\* the other sign than the dividend.
DivMod ==
  [][UNCHANGED vars \/ \A x \in Txns \cup {NoTxn}, f \in [op : {"div"}, arg : Args] :
       Write(x, f) =>
         /\ num.write = answer'.value * f.arg + answer'.mod
         /\ Magnitude(answer'.mod) < Magnitude(f.arg)
         /\ answer'.mod # 0 => Sign(answer'.mod) = Sign(num.write)]_vars

Store ==
  INSTANCE TxnStore WITH
    Objects <- {"number"}, Initial <- 0, Eval <- Result,
    Calls <- {f \in Calls : f.op # "div" \/ f.arg # 0},
    store  <- [o \in {"number"} |-> num.read],
    locker <- [o \in {"number"} |-> num.owner],
    staged <- [o \in {"number"} |-> num.write],
    status <- status

\* The number is a store with one object: a transaction locks it, works on
\* its own copy and publishes or drops it, and a call outside the
\* transactions is atomic.  (This is Store!Spec.  The steps that leave the
\* number alone are named first: in a run with other parts most steps do.)
RefinesStore == Store!Init /\ [][UNCHANGED vars \/ Store!Next]_(Store!vars)
=============================================================================
