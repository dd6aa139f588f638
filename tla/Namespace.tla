----------------------------- MODULE Namespace -----------------------------
(***************************************************************************)
(* What the semantic layer promises: names that lead to objects.  A name   *)
(* is given a new object, gives its object up, or passes it on to a name   *)
(* that has none; no object ever has two names, or comes back.             *)
(***************************************************************************)
EXTENDS Naturals

CONSTANTS Names, NoOid

VARIABLES
  leads,   \* the object of each name, or NoOid
  used     \* the number of objects made so far

Init == leads = [n \in Names |-> NoOid] /\ used = 0

Made(n) ==
  /\ leads[n] = NoOid
  /\ used' = used + 1
  /\ leads' = [leads EXCEPT ![n] = used']

\* An id is spent on an object that could not be made.
Skipped == used' = used + 1 /\ UNCHANGED leads

Dropped(n) ==
  /\ leads[n] # NoOid
  /\ leads' = [leads EXCEPT ![n] = NoOid]
  /\ UNCHANGED used

Moved(m, n) ==
  /\ leads[m] # NoOid
  /\ leads[n] = NoOid
  /\ leads' = [leads EXCEPT ![n] = leads[m], ![m] = NoOid]
  /\ UNCHANGED used

Next ==
  \/ Skipped
  \/ \E n \in Names : Made(n) \/ Dropped(n)
  \/ \E m, n \in Names : Moved(m, n)
=============================================================================
