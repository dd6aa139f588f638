---------------------------- MODULE MCThreading ----------------------------
(***************************************************************************)
(* The threading of zcl for TLC: the ticket lock, the reader/writer lock   *)
(* and the dispatcher of tasks.  They do not call each other; a behaviour  *)
(* runs the one that part names, and the others stay in their first state. *)
(***************************************************************************)
EXTENDS Ticket, RwLock, GlobalCtx, TLC

CONSTANTS a, b, c, d,
          Closer   \* the thread that closes the dispatcher

ASSUME Closer \notin Workers

\* b, c and d wait for a, the first two in one wait queue; d goes back to the
\* tree for b: a read beside the commit of a transaction over its object.
WaitForOthers == [t \in Tasks |-> IF t = a THEN {} ELSE {a}]
YieldToOthers == [t \in Tasks |-> IF t = d THEN {b} ELSE {}]

VARIABLE part

allVars == <<part, vars, rwvars, gvars>>

AllInit ==
  /\ part \in {"ticket", "rwlock", "dispatch"}
  /\ Init /\ RwInit /\ GlobalInit
  /\ part # "ticket" => build = "debug"   \* one first state of each of the others

\* What a step of each of the three leaves alone.
OthersOfTicket == UNCHANGED <<part, rwvars, gvars>>
OthersOfRwLock == UNCHANGED <<part, vars, gvars>>
OthersOfDispatch == UNCHANGED <<part, vars, rwvars>>

AllNext ==
  \/ part = "ticket" /\ Next /\ OthersOfTicket
  \/ part = "rwlock" /\ RwNext /\ OthersOfRwLock
  \/ part = "dispatch" /\ GlobalNext /\ OthersOfDispatch

\* What thread t does next in the part that runs: the fairness of Ticket, of
\* RwLock and of GlobalCtx, whose closing thread is Closer.
Step(t) ==
  \/ /\ part = "ticket" /\ t \in Threads
     /\ Enter(t) \/ Leave(t)
     /\ OthersOfTicket
  \/ /\ part = "rwlock" /\ t \in RwThreads
     /\ ReadUnlock(t) \/ Drained(t) \/ WriteUnlock(t)
     /\ OthersOfRwLock
  \/ /\ part = "dispatch" /\ t \in Workers /\ Work(t)
     /\ OthersOfDispatch
  \/ /\ part = "dispatch" /\ t = Closer /\ Join
     /\ OthersOfDispatch

AllSpec ==
  /\ AllInit /\ [][AllNext]_allVars
  /\ \A t \in Threads \cup RwThreads \cup Workers \cup {Closer} : WF_allVars(Step(t))

\* A thread with a ticket is served, in a build that reads the counter again,
\* and a writer gets the lock once it has its flag (Ticket, RwLock).
LocksServe == Served /\ WriterDrains

\* Without a shutdown every task that is added completes, unless older tasks
\* keep the workers from one that they yield to, and z_global_context_close
\* returns whenever it is called (GlobalCtx).
DispatchEnds == TasksComplete /\ CloseReturns
=============================================================================
