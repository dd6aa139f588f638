------------------------------- MODULE Ticket -------------------------------
(***************************************************************************)
(* The ticket lock z_ticket_t (zcl/threading/ticket.{h,c}), which guards   *)
(* the transaction manager and the atom list of each transaction.          *)
(*                                                                         *)
(* next_ticket and now_serving are uint16_t and wrap.  The loop of         *)
(* z_ticket_acquire reads now_serving through a plain pointer while the    *)
(* holder writes it: a data race.  A debug build reads it in every turn of *)
(* the loop; an optimised one may read it once, and a thread that is not   *)
(* served at that moment then spins for ever.                              *)
(***************************************************************************)
EXTENDS Naturals, Sequences, FiniteSets

CONSTANTS
  Threads,
  Wrap         \* 2^16 in the code

ASSUME TicketAssumption ==
  /\ Wrap \in Nat \ {0}
  /\ IsFiniteSet(Threads)
  /\ Cardinality(Threads) <= Wrap

VARIABLES
  build,     \* "debug" or "optimised": the loop reads now_serving once
  next,      \* next_ticket
  serving,   \* now_serving
  mine,      \* my_ticket, of each thread
  pc,        \* "out", "spin", "stuck" (spins without reading), "in"
  order      \* history: the threads with a ticket, as they drew them

vars == <<build, next, serving, mine, pc, order>>

Inc(n) == IF n = Wrap - 1 THEN 0 ELSE n + 1

\* z_ticket_init.
Init ==
  /\ build \in {"debug", "optimised"}
  /\ next = 0
  /\ serving = 0
  /\ mine = [t \in Threads |-> 0]
  /\ pc = [t \in Threads |-> "out"]
  /\ order = <<>>

\* z_ticket_acquire: the fetch-and-add.
Draw(t) ==
  /\ pc[t] = "out"
  /\ mine' = [mine EXCEPT ![t] = next]
  /\ next' = Inc(next)
  /\ pc' = [pc EXCEPT ![t] = "spin"]
  /\ order' = Append(order, t)
  /\ UNCHANGED <<build, serving>>

\* Fault: the loop does not wait for its ticket.
EnterAnyTicket(t) ==
  /\ pc[t] = "spin"
  /\ pc' = [pc EXCEPT ![t] = "in"]
  /\ UNCHANGED <<build, next, serving, mine, order>>

\* Fault: the loop waits for a free lock, not for its ticket.
EnterWhenFree(t) ==
  /\ pc[t] = "spin"
  /\ \A u \in Threads : pc[u] # "in"
  /\ pc' = [pc EXCEPT ![t] = "in"]
  /\ UNCHANGED <<build, next, serving, mine, order>>

\* z_ticket_acquire: the loop sees its own ticket.
Enter(t) ==
  /\ pc[t] = "spin"
  /\ serving = mine[t]
  /\ pc' = [pc EXCEPT ![t] = "in"]
  /\ UNCHANGED <<build, next, serving, mine, order>>

\* z_ticket_acquire: the only read of the loop sees another ticket.
Stick(t) ==
  /\ build = "optimised"
  /\ pc[t] = "spin"
  /\ serving # mine[t]
  /\ pc' = [pc EXCEPT ![t] = "stuck"]
  /\ UNCHANGED <<build, next, serving, mine, order>>

\* z_ticket_release: only the holder writes now_serving.
Leave(t) ==
  /\ pc[t] = "in"
  /\ serving' = Inc(serving)
  /\ pc' = [pc EXCEPT ![t] = "out"]
  /\ order' = Tail(order)
  /\ UNCHANGED <<build, next, mine>>

Next == \E t \in Threads : Draw(t) \/ Enter(t) \/ Stick(t) \/ Leave(t)

Spec == Init /\ [][Next]_vars

\* A spinning thread keeps running, and every critical section of the code
\* is a bounded loop that ends with the release.
FairSpec ==
  /\ Spec
  /\ \A t \in Threads : WF_vars(Enter(t)) /\ WF_vars(Leave(t))

-----------------------------------------------------------------------------
\* The types; tickets are below the wrap.
TypeOK ==
  /\ build \in {"debug", "optimised"}
  /\ next \in 0 .. Wrap - 1
  /\ serving \in 0 .. Wrap - 1
  /\ mine \in [Threads -> 0 .. Wrap - 1]
  /\ pc \in [Threads -> {"out", "spin", "stuck", "in"}]
  /\ order \in Seq(Threads)

\* One thread at a time between z_ticket_acquire and z_ticket_release, also
\* when as many threads as there are tickets hold one and the counters wrap.
MutualExclusion ==
  \A t, u \in Threads : pc[t] = "in" /\ pc[u] = "in" => t = u

\* The thread that has the lock is, of those that drew a ticket and have not
\* released, the one that drew first (z_ticket_acquire serves in order).
FirstComeFirstServed ==
  \A t \in Threads : pc[t] = "in" => order # <<>> /\ t = Head(order)

\* In the default (debug) build a thread that has drawn a ticket gets the
\* lock (z_ticket_acquire reads now_serving in each turn of its loop).
Served ==
  \A t \in Threads : pc[t] = "spin" /\ build = "debug" ~> pc[t] = "in"
=============================================================================
