----------------------------- MODULE MCTxnSched -----------------------------
(* TxnSched with the workloads of the runs. *)
EXTENDS TxnSched, TLC

CONSTANTS o1, o2, x1, x2, c1, c2, c3

\* Calls of the number: an increment, and a compare-and-swap that fails.
Inc == [op |-> "add", arg |-> 1, new |-> 0]
BadCas == [op |-> "cas", arg |-> -1, new |-> 0]

GetReq(o, x) == [kind |-> "GET", obj |-> o, txn |-> x]
PutReq(o, x, f) == [kind |-> "PUT", obj |-> o, txn |-> x, f |-> f]
CommitReq(x) == [kind |-> "COMMIT", txn |-> x]
EndReqs(x) == {CommitReq(x), [kind |-> "ROLLBACK", txn |-> x]}

\* A transaction on two objects beside two clients that work on the same
\* objects without one.
Beside ==
  c1 :> << {PutReq(o1, x1, Inc)},
           {PutReq(o2, x1, Inc), PutReq(o2, x1, BadCas)},
           EndReqs(x1) >>
  @@ c2 :> << {GetReq(o1, NoTxn)}, {GetReq(o2, NoTxn)} >>
  @@ c3 :> << {PutReq(o1, NoTxn, Inc)} >>

\* Two transactions that meet on both objects in opposite orders.
Contend ==
  c1 :> << {PutReq(o1, x1, Inc)}, {PutReq(o2, x1, Inc)}, EndReqs(x1) >>
  @@ c2 :> << {PutReq(o2, x2, Inc)}, {PutReq(o1, x2, Inc)}, {CommitReq(x2)} >>
  @@ c3 :> << >>

\* Two clients in one transaction: each may end it under the other.
Shared ==
  c1 :> << {GetReq(o1, x1), PutReq(o1, x1, Inc)}, EndReqs(x1) >>
  @@ c2 :> << {GetReq(o1, x1), PutReq(o2, x1, Inc)}, EndReqs(x1) >>
  @@ c3 :> << >>

\* One client, one transaction.
Sequential ==
  c1 :> << {PutReq(o1, x1, Inc), PutReq(o1, x1, BadCas)},
           {CommitReq(x1)} >>
  @@ c2 :> << >> @@ c3 :> << >>

Workloads == {Beside, Contend, Shared}
SequentialOnly == {Sequential}
=============================================================================
