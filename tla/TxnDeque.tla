------------------------------ MODULE TxnDeque ------------------------------
(***************************************************************************)
(* What a deque object promises: a sequence of items whose two ends can be *)
(* locked by transactions.  A transaction stages the pushes and pops of    *)
(* the ends it has locked; a commit publishes them in one step, a rollback *)
(* drops them in one step.  A call without a transaction is atomic.        *)
(***************************************************************************)
EXTENDS Naturals, Sequences

CONSTANTS Entries, Txns, NoTxn, Null

Sides == {"front", "back"}

VARIABLES
  items,    \* the committed entries, from the front
  locker,   \* of each end: the transaction that has locked it, or NoTxn
  staged,   \* of each end: what its locker has pushed, the latest first
  taken,    \* of each end: how many items its locker has popped
  status,   \* of each transaction: "open", "committed", "rolledback"
  answer    \* [errno, entry]: what the last call answered

vars == <<items, locker, staged, taken, status, answer>>

Other(s) == IF s = "front" THEN "back" ELSE "front"

Init ==
  /\ items = <<>>
  /\ locker = [s \in Sides |-> NoTxn]
  /\ staged = [s \in Sides |-> <<>>]
  /\ taken = [s \in Sides |-> 0]
  /\ status = [x \in Txns |-> "open"]
  /\ answer = [errno |-> "NONE", entry |-> Null]

Says(errno, e) == answer' = [errno |-> errno, entry |-> e]

\* The items that neither locker has popped.
Left == SubSeq(items, taken["front"] + 1, Len(items) - taken["back"])

May(x, s) ==
  /\ x \in Txns => status[x] = "open"
  /\ locker[s] \in {NoTxn, x}

Push(x, s, e) ==
  /\ May(x, s)
  /\ IF x = NoTxn
     THEN /\ items' = IF s = "front" THEN <<e>> \o items ELSE Append(items, e)
          /\ UNCHANGED staged
     ELSE /\ staged' = [staged EXCEPT ![s] = <<e>> \o @]
          /\ UNCHANGED items
  /\ locker' = [locker EXCEPT ![s] = x]
  /\ Says("NONE", Null)
  /\ UNCHANGED <<taken, status>>

\* The transaction takes back its own last push on this end.
PopStaged(x, s) ==
  /\ May(x, s)
  /\ staged[s] # <<>>
  /\ staged' = [staged EXCEPT ![s] = Tail(@)]
  /\ Says("NONE", Head(staged[s]))
  /\ UNCHANGED <<items, locker, taken, status>>

PopItem(x, s) ==
  /\ May(x, s)
  /\ staged[s] = <<>>
  /\ Left # <<>>
  /\ Says("NONE", IF s = "front" THEN Head(Left) ELSE Left[Len(Left)])
  /\ IF x = NoTxn
     THEN /\ items' = IF s = "front" THEN Tail(items)
                      ELSE SubSeq(items, 1, Len(items) - 1)
          /\ UNCHANGED taken
     ELSE /\ taken' = [taken EXCEPT ![s] = @ + 1]
          /\ UNCHANGED items
  /\ locker' = [locker EXCEPT ![s] = x]
  /\ UNCHANGED <<staged, status>>

\* Nothing else is left: the transaction takes its own first push on the
\* other end.
PopOther(x, s) ==
  LET o == Other(s)
  IN  /\ May(x, s)
      /\ staged[s] = <<>> /\ Left = <<>>
      /\ x \in Txns /\ locker[o] = x /\ staged[o] # <<>>
      /\ staged' = [staged EXCEPT ![o] = SubSeq(@, 1, Len(@) - 1)]
      /\ Says("NONE", staged[o][Len(staged[o])])
      /\ UNCHANGED <<items, locker, taken, status>>

Locked(x, s) ==
  /\ x \in Txns => status[x] = "open"
  /\ ~May(x, s)
  /\ Says("TXN_LOCKED_OPERATION", Null)
  /\ UNCHANGED <<items, locker, staged, taken, status>>

NoItems(x, s) ==
  /\ May(x, s)
  /\ staged[s] = <<>> /\ Left = <<>>
  /\ x = NoTxn \/ locker[Other(s)] # x \/ staged[Other(s)] = <<>>
  /\ Says("DATA_NO_ITEMS", Null)
  /\ UNCHANGED <<items, locker, staged, taken, status>>

\* The ends that x has locked are given up.
GiveUp(x, how) ==
  /\ status[x] = "open"
  /\ status' = [status EXCEPT ![x] = how]
  /\ locker' = [s \in Sides |-> IF locker[s] = x THEN NoTxn ELSE locker[s]]
  /\ staged' = [s \in Sides |-> IF locker[s] = x THEN <<>> ELSE staged[s]]
  /\ taken' = [s \in Sides |-> IF locker[s] = x THEN 0 ELSE taken[s]]
  /\ Says("NONE", Null)

Commit(x) ==
  LET Mine(s, f, none) == IF locker[s] = x THEN f[s] ELSE none
  IN  /\ GiveUp(x, "committed")
      /\ items' = Mine("front", staged, <<>>)
                    \o SubSeq(items, Mine("front", taken, 0) + 1,
                              Len(items) - Mine("back", taken, 0))
                    \o LET b == Mine("back", staged, <<>>)
                       IN  [i \in 1 .. Len(b) |-> b[Len(b) + 1 - i]]

Rollback(x) == GiveUp(x, "rolledback") /\ UNCHANGED items

Next ==
  \/ \E x \in Txns \cup {NoTxn}, s \in Sides :
       \/ \E e \in Entries : Push(x, s, e)
       \/ PopStaged(x, s) \/ PopItem(x, s) \/ PopOther(x, s)
       \/ Locked(x, s) \/ NoItems(x, s)
  \/ \E x \in Txns : Commit(x) \/ Rollback(x)

Spec == Init /\ [][Next]_vars
=============================================================================
