------------------------------ MODULE TxnStore ------------------------------
(***************************************************************************)
(* What the transaction manager and the number objects promise together:   *)
(* a store of committed values; transactions that lock the objects they    *)
(* write and stage new values; a commit that publishes everything a        *)
(* transaction staged in one step, a rollback that drops it in one step.   *)
(***************************************************************************)
CONSTANTS
  Objects, Txns, NoTxn,
  Initial,      \* the value of a new object
  Calls,        \* the calls of the write functions
  Eval(_, _)    \* Eval(v, f): what the call f makes of the value v

VARIABLES
  store,    \* the committed value of each object
  locker,   \* the transaction that locks the object, or NoTxn
  staged,   \* what the locker has written, the committed value otherwise
  status    \* of each transaction: "open", "committed", "rolledback"

vars == <<store, locker, staged, status>>

Init ==
  /\ store = [o \in Objects |-> Initial]
  /\ locker = [o \in Objects |-> NoTxn]
  /\ staged = store
  /\ status = [x \in Txns |-> "open"]

\* A write outside every transaction works on the committed value.
Write(o, f) ==
  /\ locker[o] = NoTxn
  /\ store' = [store EXCEPT ![o] = Eval(@, f)]
  /\ staged' = [staged EXCEPT ![o] = Eval(store[o], f)]
  /\ UNCHANGED <<locker, status>>

\* A write of the transaction x works on what x has staged.
TxnWrite(x, o, f) ==
  /\ status[x] = "open"
  /\ locker[o] \in {NoTxn, x}
  /\ locker' = [locker EXCEPT ![o] = x]
  /\ staged' = [staged EXCEPT ![o] = Eval(@, f)]
  /\ UNCHANGED <<store, status>>

\* The objects that x locks are given up, with the values F of them.
End(x, F, how) ==
  /\ status[x] = "open"
  /\ status' = [status EXCEPT ![x] = how]
  /\ locker' = [o \in Objects |-> IF locker[o] = x THEN NoTxn ELSE locker[o]]
  /\ store' = [o \in Objects |-> IF locker[o] = x THEN F[o] ELSE store[o]]
  /\ staged' = [o \in Objects |-> IF locker[o] = x THEN F[o] ELSE staged[o]]

Commit(x) == End(x, staged, "committed")

Rollback(x) == End(x, store, "rolledback")

Next ==
  \/ \E o \in Objects, f \in Calls : Write(o, f)
  \/ \E x \in Txns, o \in Objects, f \in Calls : TxnWrite(x, o, f)
  \/ \E x \in Txns : Commit(x) \/ Rollback(x)

Spec == Init /\ [][Next]_vars
=============================================================================
