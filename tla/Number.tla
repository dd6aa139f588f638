------------------------------- MODULE Number -------------------------------
(***************************************************************************)
(* The number object (raleighsl/objects/number/number.c): a read value     *)
(* that everybody sees, a write value, and the transaction that owns the   *)
(* write value, if any.                                                    *)
(*                                                                         *)
(* The functions below are the plug's functions as the object scheduler    *)
(* calls them: a READ function leaves the number alone, a WRITE function   *)
(* returns an errno and, when that is NONE, the mutated number.            *)
(*                                                                         *)
(* Values are signed integers of a fixed width.  Sums and products that    *)
(* leave the width wrap, which is what the compiled int64_t code does.     *)
(***************************************************************************)
EXTENDS Integers

CONSTANTS
  Bits,     \* 64 in the code
  NoTxn     \* txn_id == 0, a call outside every transaction

ASSUME BitsAssumption == Bits \in Nat \ {0}

MinInt == -(2 ^ (Bits - 1))
MaxInt == 2 ^ (Bits - 1) - 1
Ints == MinInt .. MaxInt

\* The value of the width that is congruent to v.
Truncate(v) == ((v - MinInt) % (2 ^ Bits)) + MinInt

Magnitude(v) == IF v < 0 THEN -v ELSE v
Sign(v) == IF v < 0 THEN -1 ELSE 1

\* The C operator /: the quotient is rounded towards zero.
Quotient(v, d) == Sign(v) * Sign(d) * (Magnitude(v) \div Magnitude(d))

\* Fault: the remainder is never negative.
RemainderPositive(v, d) == Magnitude(v) % Magnitude(d)

\* The C operator %: the remainder has the sign of the dividend.
Remainder(v, d) == Sign(v) * (Magnitude(v) % Magnitude(d))

\* The quotient does not fit and the process dies of the division.
Traps(v, f) == f.op = "div" /\ f.arg = -1 /\ v = MinInt

\* __object_create.
Created == [read |-> 0, write |-> 0, owner |-> NoTxn]

-----------------------------------------------------------------------------
\* Fault: the write value is shown to everybody.
GetUncommitted(n, x) == n.write

\* raleighsl_number_get, on behalf of the transaction x.
Get(n, x) == IF x # NoTxn /\ n.owner = x THEN n.write ELSE n.read

\* A call [op, arg, new]: the write value that it leaves.
Result(v, f) ==
  CASE f.op = "set" -> f.arg
    [] f.op = "cas" -> f.new
    [] f.op = "add" -> Truncate(v + f.arg)
    [] f.op = "mul" -> Truncate(v * f.arg)
    [] f.op = "div" -> Truncate(Quotient(v, f.arg))

\* Fault: a number that another transaction owns can be written.
ErrnoNoOwner(n, x, f) ==
  IF f.op = "div" /\ f.arg = 0 THEN "NUMBER_DIVMOD_BYZERO"
  ELSE IF f.op = "cas" /\ n.write # f.arg THEN "DATA_CAS"
  ELSE "NONE"

\* The errno of raleighsl_number_set, _cas, _add, _mul and _div, whose tests
\* come in this order: a division by zero is reported even on a number that
\* another transaction owns.
Errno(n, x, f) ==
  IF f.op = "div" /\ f.arg = 0 THEN "NUMBER_DIVMOD_BYZERO"
  ELSE IF n.owner # NoTxn /\ n.owner # x THEN "TXN_LOCKED_OPERATION"
  ELSE IF f.op = "cas" /\ n.write # f.arg THEN "DATA_CAS"
  ELSE "NONE"

\* The number after a call that succeeds.
Mutate(n, x, f) ==
  [read |-> n.read, write |-> Result(n.write, f), owner |-> x]

\* The call adds the number's atom to the transaction.
AddsAtom(n, x) == x # NoTxn /\ n.owner # x

-----------------------------------------------------------------------------
\* __object_apply, on the number's atom.
Apply(n) == [read |-> n.write, write |-> n.write, owner |-> NoTxn]

\* Fault: a reverted number keeps its owner.
RevertOwned(n) == [read |-> n.read, write |-> n.read, owner |-> n.owner]

\* __object_revert, on the number's atom.
Revert(n) == [read |-> n.read, write |-> n.read, owner |-> NoTxn]

\* Fault: the write value of a transaction is published.
CommitOwned(n) == [n EXCEPT !.read = n.write]

\* __object_commit publishes the write value unless a transaction owns it.
Commit(n) == IF n.owner = NoTxn THEN [n EXCEPT !.read = n.write] ELSE n
=============================================================================
