----------------------------- MODULE GlobalCtx -----------------------------
(***************************************************************************)
(* The global context (zcl/core/global/global.c): the dispatcher's queue   *)
(* of new tasks, its tree of pending tasks, the worker threads that fetch  *)
(* from them, and the shutdown.                                            *)
(*                                                                         *)
(* The dispatcher's mutex is held from one wait to the next, so what a     *)
(* thread does under it is one step; the read of is_closed at the top of   *)
(* the worker's loop is outside it.  A condition variable may wake a       *)
(* thread without a signal.                                                *)
(*                                                                         *)
(* A task is abstracted to how it leaves the worker: it goes back to the   *)
(* tree at once while another one is under way (Yields, as under a pending *)
(* transaction, which __sched_object_task_exec looks at first); or it      *)
(* waits for others in a queue of a semaphore (Needs), from which the task *)
(* that completes last drains the list; or it completes.  Tasks are added  *)
(* in any order: one may wait for a newer one.                             *)
(***************************************************************************)
EXTENDS Naturals, Sequences, FiniteSets

CONSTANTS
  Workers,   \* the cpu contexts
  Tasks,
  Yields,    \* [Tasks -> SUBSET Tasks]: it goes back to the tree for these
  Needs,     \* [Tasks -> SUBSET Tasks]: it waits in its wait queue for these
  Lists,     \* the tasks, partitioned into wait queues
  NoTask

ASSUME GlobalCtxAssumption ==
  /\ IsFiniteSet(Workers) /\ Workers # {}
  /\ IsFiniteSet(Tasks)
  /\ NoTask \notin Tasks
  /\ Yields \in [Tasks -> SUBSET Tasks]
  /\ Needs \in [Tasks -> SUBSET Tasks]
  /\ Tasks = UNION Lists

\* No two tasks wait for each other: the locks that they wait for are those
\* of ObjectSched and TxnSched.
ASSUME WaitsAssumption ==
  \E rank \in [Tasks -> 1 .. Cardinality(Tasks)] :
    \A t \in Tasks : \A u \in Yields[t] \cup Needs[t] : rank[u] < rank[t]

VARIABLES
  queue,    \* the new tasks, in order
  pending,  \* the tree of pending tasks: a set, popped by least itime
  itime,    \* of each task, given by z_global_add_task
  reqId,    \* the next itime
  parked,   \* the tasks in a wait queue
  done,     \* the tasks that have completed
  closed,   \* is_closed
  waiting,  \* waiting_threads, up to ncpus + 1
  wpc,       \* of each worker: "top", "fetch", "asleep", "woken", "exec",
            \* "leave", "gone"
  job,      \* the task the worker runs
  closer    \* the thread that closes: "open", "waiting", "joining", "closed"

taskVars == <<queue, pending, itime, reqId, parked, done>>
gvars == <<taskVars, closed, waiting, wpc, job, closer>>

GlobalInit ==
  /\ queue = <<>>
  /\ pending = {}
  /\ itime = [t \in Tasks |-> 0]
  /\ reqId = 0
  /\ parked = {}
  /\ done = {}
  /\ closed = FALSE
  /\ waiting = 0
  /\ wpc = [w \in Workers |-> "top"]
  /\ job = [w \in Workers |-> NoTask]
  /\ closer = "open"

-----------------------------------------------------------------------------
\* The tasks the dispatcher has been given and has not lost.
Held ==
  pending \cup parked \cup done
    \cup {queue[i] : i \in DOMAIN queue}
    \cup ({job[w] : w \in Workers} \ {NoTask})

\* The tasks that a worker has taken and that have not completed: they may
\* hold a lock, a flag of one or a transaction's barrier.
Begun == pending \cup parked \cup ({job[w] : w \in Workers} \ {NoTask})

\* Fault: only the first task of a list is pushed.
PushedFirst(T) ==
  IF T = {} THEN pending ELSE pending \cup {CHOOSE t \in T : TRUE}

\* z_task_tree_push of a list: a node with the itime of another takes its
\* place, and that task is freed.
Pushed(T) ==
  {u \in pending : \A t \in T : itime[u] # itime[t]} \cup T

\* Fault: the signal is missing.
SignalNone(f) == {f}

\* z_wait_cond_signal on task_ready, given the states f of the workers.
Signal(f) ==
  IF \E w \in Workers : f[w] = "asleep"
  THEN {[f EXCEPT ![w] = "woken"] : w \in {v \in Workers : f[v] = "asleep"}}
  ELSE {f}

\* Fault: a signal is sent in place of a broadcast.
BroadcastOne(f) == Signal(f)

\* z_wait_cond_broadcast on task_ready.
Broadcast(f) ==
  {[w \in Workers |-> IF f[w] = "asleep" THEN "woken" ELSE f[w]]}

\* __cpu_ctx_fetch_task: the pending task of least itime, then the oldest
\* new task.
Oldest == CHOOSE t \in pending : \A u \in pending : itime[t] <= itime[u]

FetchTask(w) ==
  /\ \/ /\ pending # {}
        /\ job' = [job EXCEPT ![w] = Oldest]
        /\ pending' = pending \ {Oldest}
        /\ UNCHANGED queue
     \/ /\ pending = {}
        /\ queue # <<>>
        /\ job' = [job EXCEPT ![w] = Head(queue)]
        /\ queue' = Tail(queue)
        /\ UNCHANGED pending
  /\ wpc' = [wpc EXCEPT ![w] = "exec"]

\* ++waiting_threads == ncpus wakes the closing thread.  The count is never
\* decremented and is only compared with ncpus, so the values above it are
\* one value here (the int overflows after 2^31 waits).
Retire ==
  /\ waiting' = IF waiting > Cardinality(Workers) THEN waiting
                ELSE waiting + 1
  /\ closer' = IF waiting + 1 = Cardinality(Workers) /\ closer = "waiting"
               THEN "joining" ELSE closer

-----------------------------------------------------------------------------
\* z_global_add_task, by a thread that is not a worker.
AddTask(t) ==
  /\ closer = "open"
  /\ t \notin Held
  /\ itime' = [itime EXCEPT ![t] = reqId]
  /\ reqId' = reqId + 1
  /\ queue' = Append(queue, t)
  /\ wpc' \in Signal(wpc)
  /\ UNCHANGED <<pending, parked, done, closed, waiting, job, closer>>

\* The condition of the loop in __cpu_ctx_loop.
Top(w) ==
  /\ wpc[w] = "top"
  /\ wpc' = [wpc EXCEPT ![w] = IF closed THEN "leave" ELSE "fetch"]
  /\ UNCHANGED <<taskVars, closed, waiting, job, closer>>

\* __cpu_ctx_wait_task, up to the wait.
Fetch(w) ==
  /\ wpc[w] = "fetch"
  /\ ~closed
  /\ FetchTask(w)
  /\ UNCHANGED <<itime, reqId, parked, done, closed, waiting, closer>>

FetchClosed(w) ==
  /\ wpc[w] = "fetch"
  /\ closed
  /\ wpc' = [wpc EXCEPT ![w] = "top"]
  /\ UNCHANGED <<taskVars, closed, waiting, job, closer>>

\* Fault: the worker waits without having looked for a task.
SleepUnchecked(w) ==
  /\ wpc[w] = "fetch"
  /\ ~closed
  /\ Retire
  /\ wpc' = [wpc EXCEPT ![w] = "asleep"]
  /\ UNCHANGED <<taskVars, closed, job>>

Sleep(w) ==
  /\ wpc[w] = "fetch"
  /\ ~closed
  /\ pending = {} /\ queue = <<>>
  /\ Retire
  /\ wpc' = [wpc EXCEPT ![w] = "asleep"]
  /\ UNCHANGED <<taskVars, closed, job>>

\* The condition variable wakes the worker by itself.
WakeUp(w) ==
  /\ wpc[w] = "asleep"
  /\ wpc' = [wpc EXCEPT ![w] = "woken"]
  /\ UNCHANGED <<taskVars, closed, waiting, job, closer>>

\* __cpu_ctx_wait_task, after the wait: it fetches once, closed or not.
Resume(w) ==
  /\ wpc[w] = "woken"
  /\ \/ FetchTask(w)
     \/ /\ pending = {} /\ queue = <<>>
        /\ wpc' = [wpc EXCEPT ![w] = "top"]
        /\ UNCHANGED <<queue, pending, job>>
  /\ UNCHANGED <<itime, reqId, parked, done, closed, waiting, closer>>

\* The task completes; the lists of tasks that it lets go are added with
\* z_global_add_pending_ntasks, which counts the lists and not the tasks.
Complete(w) ==
  LET t == job[w]
      free == {u \in parked : Needs[u] \cap Begun \subseteq {t}}
      lists == {l \in Lists : l \cap free # {}}
      top == [wpc EXCEPT ![w] = "top"]
  IN  /\ wpc[w] = "exec"
      /\ (Yields[t] \cup Needs[t]) \cap Begun = {}
      /\ done' = done \cup {t}
      /\ parked' = parked \ free
      /\ pending' = Pushed(free)
      /\ wpc' \in IF lists = {} THEN {top}
                 ELSE IF Cardinality(lists) > 1 THEN Broadcast(top)
                 ELSE Signal(top)
      /\ job' = [job EXCEPT ![w] = NoTask]
      /\ UNCHANGED <<queue, itime, reqId, closed, waiting, closer>>

\* The task goes into a wait queue.
Park(w) ==
  /\ wpc[w] = "exec"
  /\ Yields[job[w]] \cap Begun = {}
  /\ Needs[job[w]] \cap Begun # {}
  /\ parked' = parked \cup {job[w]}
  /\ job' = [job EXCEPT ![w] = NoTask]
  /\ wpc' = [wpc EXCEPT ![w] = "top"]
  /\ UNCHANGED <<queue, pending, itime, reqId, done, closed, waiting, closer>>

\* The task adds itself with z_global_add_pending_tasks.
Readd(w) ==
  /\ wpc[w] = "exec"
  /\ Yields[job[w]] \cap Begun # {}
  /\ pending' = Pushed({job[w]})
  /\ job' = [job EXCEPT ![w] = NoTask]
  /\ wpc' \in Signal([wpc EXCEPT ![w] = "top"])
  /\ UNCHANGED <<queue, itime, reqId, parked, done, closed, waiting, closer>>

\* The end of __cpu_ctx_loop.
LeaveLoop(w) ==
  /\ wpc[w] = "leave"
  /\ Retire
  /\ wpc' = [wpc EXCEPT ![w] = "gone"]
  /\ UNCHANGED <<taskVars, closed, job>>

-----------------------------------------------------------------------------
\* z_global_context_stop.
Stop ==
  /\ closer = "open"
  /\ ~closed
  /\ closed' = TRUE
  /\ UNCHANGED <<taskVars, waiting, wpc, job, closer>>

\* z_global_context_close, up to the joins.
Close ==
  /\ closer = "open"
  /\ closed' = TRUE
  /\ wpc' \in Broadcast(wpc)
  /\ closer' = IF waiting < Cardinality(Workers) THEN "waiting" ELSE "joining"
  /\ UNCHANGED <<taskVars, waiting, job>>

\* The condition variable wakes the closing thread by itself.
CloserWakesUp ==
  /\ closer = "waiting"
  /\ closer' = "joining"
  /\ UNCHANGED <<taskVars, closed, waiting, wpc, job>>

\* The rest of z_global_context_close.
Join ==
  /\ closer = "joining"
  /\ \A w \in Workers : wpc[w] = "gone"
  /\ closer' = "closed"
  /\ UNCHANGED <<taskVars, closed, waiting, wpc, job>>

-----------------------------------------------------------------------------
Work(w) ==
  \/ Top(w) \/ Fetch(w) \/ FetchClosed(w) \/ Sleep(w) \/ Resume(w)
  \/ Complete(w) \/ Park(w) \/ Readd(w) \/ LeaveLoop(w)

GlobalNext ==
  \/ \E t \in Tasks : AddTask(t)
  \/ \E w \in Workers : Work(w) \/ WakeUp(w)
  \/ Stop \/ Close \/ CloserWakesUp \/ Join

GlobalSpec == GlobalInit /\ [][GlobalNext]_gvars

\* Every worker keeps running unless it waits, and the closing thread does.
\* Nothing is assumed of spurious wake-ups or of who adds tasks and closes.
GlobalFairSpec ==
  /\ GlobalSpec
  /\ \A w \in Workers : WF_gvars(Work(w))
  /\ WF_gvars(Join)

-----------------------------------------------------------------------------
\* The types of the state.
GlobalTypeOK ==
  /\ queue \in Seq(Tasks)
  /\ pending \subseteq Tasks
  /\ itime \in [Tasks -> Nat]
  /\ reqId \in Nat
  /\ parked \subseteq Tasks
  /\ done \subseteq Tasks
  /\ closed \in BOOLEAN
  /\ waiting \in 0 .. Cardinality(Workers) + 1
  /\ wpc \in [Workers -> {"top", "fetch", "asleep", "woken", "exec", "leave",
                         "gone"}]
  /\ job \in [Workers -> Tasks \cup {NoTask}]
  /\ closer \in {"open", "waiting", "joining", "closed"}

\* No task is lost, and none is in two places or run by two workers at once:
\* as many tasks are held as were added, and the places add up to as many.
OnePlace ==
  /\ Cardinality(Held) = reqId
  /\ Len(queue) + Cardinality(pending) + Cardinality(parked)
       + Cardinality(done)
       + Cardinality({w \in Workers : job[w] # NoTask}) = reqId

\* While tasks wait in the dispatcher, a worker is on its way to them,
\* although a list of several tasks is announced with one signal and a
\* signal may find nobody waiting.
NoticedWork ==
  (pending # {} \/ queue # <<>>) /\ ~closed
    => \E w \in Workers : wpc[w] \notin {"asleep", "gone"}

\* A task waits in the tree behind an older one that goes back to the tree
\* for it.
Overtaken ==
  \E t \in Begun \ parked : \E u \in Yields[t] \cap pending : itime[t] < itime[u]

\* Without a shutdown every task that is added completes (again and again as
\* many have completed as were added, which are finitely many), whoever waits
\* for whom and in whatever order they were added, unless one goes back to the
\* tree for a newer one, before which it is fetched (Overtaken): then the
\* newer one, a commit that the older read waits for, may wait for ever
\* (__sched_object_task_exec, __cpu_ctx_fetch_task).
TasksComplete == []<>(Cardinality(done) = reqId \/ closed \/ Overtaken)

\* z_global_context_close returns, whenever it is called: the count of the
\* waiting threads, which is never decremented, does not keep it waiting.
CloseReturns == closer \in {"waiting", "joining"} ~> closer = "closed"
=============================================================================
