----------------------------- MODULE RpcServer -----------------------------
(***************************************************************************)
(* One connection of the server: the poll loop's thread, which accepts the *)
(* client, reads its requests and writes its answers (zcl/io/poll/iopoll.c *)
(* and iopoll-epoll.c, zcl/io/ipc/ipc.c), the worker threads, which carry  *)
(* the requests out and queue the answers, and the queue between them      *)
(* (zcl/io/ipc/ipc-msg.c), which neither side locks for as long as it uses *)
(* it.  Every section between two locks is a step.                         *)
(*                                                                         *)
(* The model goes on until the code leaves what it is meant for; fate then *)
(* names the place:                                                        *)
(*   "overlap"  a slot or a tail has gone stale before it is used, so that *)
(*              two answers share a slot or a node is lost                 *)
(*   "unset"    a slot is written to the socket before it has its answer   *)
(*   "overrun"  a flush runs past the last slot of a node                  *)
(*   "partial"  writev writes a part (z_fd_writev asserts that it does not)*)
(*   "asleep"   a thread asks for the write event between a flush's read   *)
(*              of the count, which is 0, and its use, which takes that    *)
(*              back                                                       *)
(*   "freed"    an answer is queued on a connection that is gone           *)
(*   "null"     a call without a handler is called                         *)
(*   "fs"       a task is carried out on a file system that is gone        *)
(*   "twice"    the listening socket is freed a second time                *)
(***************************************************************************)
EXTENDS Integers, SequencesExt, RpcCalls

CONSTANTS
  Workers, Io,    \* the threads
  Asks,           \* the requests of the client: [call, plug]
  Slots,          \* NODE_NBLOCKS
  MaxRequests,    \* bound: requests
  Nothing         \* an empty slot

ASSUME RpcAssumption == Slots \in Nat \ {0} /\ MaxRequests \in Nat

Threads == Workers \cup {Io}

VARIABLES
  asked,     \* the requests read so far
  tasks,     \* the requests that wait for a worker
  client,    \* "none", "open", "freed", "refused" (nobody listens)
  server,    \* "running", then "stopped", "closed" (the file system is
             \* freed), "down" (the workers are gone)
  nodes,     \* the nodes of the queue: [next, slots]
  first, last,      \* obuffer.head, obuffer.tail: nodes, or 0
  count, offset,    \* obuffer.m_count, obuffer.m_offset
  hasData,   \* Z_IOPOLL_HAS_DATA
  writable,  \* Z_IOPOLL_WRITABLE: epoll reports that the socket is writable
  at,        \* of each thread: the step it is at
  mine,      \* of each thread: [req, answer, node, idx, fresh], when it queues
  batch,     \* of the poll thread: the slots it is writing
  sent,      \* the answers written to the socket: [req, answer]
  queued,    \* history: the answers counted and not yet settled
  fate

connection == <<client, nodes, first, last, count, offset, hasData, writable>>
rvars == <<asked, tasks, connection, server, at, mine, batch, sent, queued, fate>>

NoOne == [req |-> 0, answer |-> Nothing, node |-> 0, idx |-> 0, fresh |-> FALSE]

Init ==
  /\ asked = <<>>
  /\ tasks = {}
  /\ client = "none"
  /\ server = "running"
  /\ nodes = <<>> /\ first = 0 /\ last = 0
  /\ count = 0 /\ offset = 0
  /\ hasData = FALSE /\ writable = FALSE
  /\ at = [t \in Threads |-> "idle"]
  /\ mine = [t \in Threads |-> NoOne]
  /\ batch = <<>>
  /\ sent = <<>>
  /\ queued = <<>>
  /\ fate = "none"

Live == fate = "none"
Polls == Live /\ server = "running" /\ at[Io] = "idle"
Goto(t, s) == at' = [at EXCEPT ![t] = s]
Meets(f) == fate' = f

-----------------------------------------------------------------------------
(* The poll loop's thread.                                                 *)

\* __ipc_server_accept, __ipc_client_alloc, z_iopoll_add.
Accept ==
  /\ Polls
  /\ client = "none"
  /\ client' = "open"
  /\ UNCHANGED <<asked, tasks, nodes, first, last, count, offset, hasData,
                 writable, server, at, mine, batch, sent, queued, fate>>

\* An accept that fails is a failed read of the listening socket: the loop
\* closes that one.
AcceptFails ==
  /\ Polls
  /\ client = "none"
  /\ client' = "refused"
  /\ UNCHANGED <<asked, tasks, nodes, first, last, count, offset, hasData,
                 writable, server, at, mine, batch, sent, queued, fate>>

\* __iopoll_engine_remove and __ipc_client_free, which frees the nodes.
CloseClient ==
  /\ client' = "freed"
  /\ nodes' = <<>> /\ first' = 0 /\ last' = 0
  /\ count' = 0 /\ offset' = 0
  /\ hasData' = FALSE /\ writable' = FALSE
  /\ queued' = <<>>

\* z_iopoll_process with a hang-up, or a read that fails.
HangUp ==
  /\ Polls
  /\ client = "open"
  /\ CloseClient
  /\ UNCHANGED <<asked, tasks, server, at, mine, batch, sent, fate>>

\* raleighsl_rpc_server_parse: the request is answered at once, given to the
\* workers, or fails and closes the connection.
Request(ask) ==
  LET id == Len(asked) + 1
  IN  /\ Polls
      /\ client = "open"
      /\ Len(asked) < MaxRequests
      /\ asked' = Append(asked, ask)
      /\ \/ /\ Scheduled(ask.call, ask.plug)
            /\ tasks' = tasks \cup {id}
            /\ UNCHANGED <<connection, at, mine, queued, fate>>
         \/ /\ Scheduled(ask.call, ask.plug) \/ ask.call.exec = "drop"
            /\ CloseClient
            /\ UNCHANGED <<tasks, at, mine, fate>>
         \/ /\ ask.call.exec = "null"
            /\ Meets("null")
            /\ UNCHANGED <<tasks, connection, at, mine, queued>>
         \/ /\ \E a \in AtOnce(ask.call, ask.plug) :
                 mine' = [mine EXCEPT ![Io].req = id, ![Io].answer = a]
            /\ Goto(Io, "tail")
            /\ UNCHANGED <<tasks, connection, queued, fate>>
      /\ UNCHANGED <<server, batch, sent>>

\* z_iopoll_process: a writable event, with data to write and without.
WriteEvent ==
  /\ Polls
  /\ client = "open" /\ writable /\ hasData
  /\ Goto(Io, "flush")
  /\ UNCHANGED <<asked, tasks, connection, server, mine, batch, sent, queued,
                 fate>>

\* Fault: the flag is not looked at.
IdleAlways == TRUE

Idle == ~hasData

IdleEvent ==
  /\ Polls
  /\ client = "open" /\ writable /\ Idle
  /\ writable' = FALSE
  /\ UNCHANGED <<asked, tasks, client, nodes, first, last, count, offset,
                 hasData, server, at, mine, batch, sent, queued, fate>>

-----------------------------------------------------------------------------
(* __ipc_outbuf_flush and z_ipc_msgbuf_flush.                              *)

\* The number of messages is taken under the lock.
FlushCount ==
  /\ Live
  /\ at[Io] = "flush"
  /\ mine' = [mine EXCEPT ![Io].idx = count]
  /\ Goto(Io, IF count = 0 THEN "recount" ELSE "gather")
  /\ UNCHANGED <<asked, tasks, connection, server, batch, sent, queued, fate>>

\* That many slots are gathered and written, or the write fails.
Gathered(n) == [i \in 1 .. n |-> nodes[first].slots[offset + i - 1]]

FlushWrite ==
  LET n == mine[Io].idx
  IN  /\ Live
      /\ at[Io] = "gather"
      /\ \/ /\ offset + n > Slots
            /\ Meets("overrun")
            /\ UNCHANGED <<connection, at, batch, sent, queued>>
         \/ /\ offset + n <= Slots
            /\ Nothing \in ToSet(Gathered(n))
            /\ Meets("unset")
            /\ UNCHANGED <<connection, at, batch, sent, queued>>
         \/ /\ offset + n <= Slots
            /\ Nothing \notin ToSet(Gathered(n))
            /\ sent' = sent \o Gathered(n)
            /\ batch' = Gathered(n)
            /\ Goto(Io, "settle")
            /\ UNCHANGED <<connection, queued, fate>>
         \/ /\ offset + n <= Slots
            /\ Meets("partial")
            /\ UNCHANGED <<connection, at, batch, sent, queued>>
         \/ /\ offset + n <= Slots
            /\ CloseClient
            /\ Goto(Io, "idle")
            /\ UNCHANGED <<batch, sent, fate>>
      /\ UNCHANGED <<asked, tasks, server, mine>>

\* What was written is freed, and the next flush starts behind it.
Settled(node, n) ==
  [node EXCEPT !.slots =
     [i \in DOMAIN @ |-> IF i \in offset .. offset + n - 1 THEN Nothing ELSE @[i]]]

NextOffset(n) == (offset + n) % Slots

FlushSettle ==
  LET n == Len(batch)
  IN  /\ Live
      /\ at[Io] = "settle"
      /\ nodes' = [nodes EXCEPT ![first] = Settled(@, n)]
      /\ offset' = NextOffset(n)
      /\ count' = count - n
      /\ batch' = <<>>
      /\ queued' = SubSeq(queued, n + 1, Len(queued))
      /\ Goto(Io, "recount")
      /\ UNCHANGED <<asked, tasks, client, first, last, hasData, writable,
                     server, mine, sent, fate>>

\* The argument of z_iopoll_set_writable is read without a lock.
FlushRecount ==
  /\ Live
  /\ at[Io] = "recount"
  /\ mine' = [mine EXCEPT ![Io].fresh = count > 0]
  /\ Goto(Io, "interest")
  /\ UNCHANGED <<asked, tasks, connection, server, batch, sent, queued, fate>>

\* Fault: epoll is not told.
SetWritableQuiet(on) ==
  /\ hasData' = on
  /\ UNCHANGED writable

\* z_iopoll_set_writable
SetWritable(on) ==
  /\ hasData' = on
  /\ writable' = (writable \/ (on /\ ~hasData))

FlushInterest ==
  /\ Live
  /\ at[Io] = "interest"
  /\ SetWritable(mine[Io].fresh)
  /\ Goto(Io, "idle")
  /\ mine' = [mine EXCEPT ![Io] = NoOne]
  /\ UNCHANGED <<asked, tasks, client, nodes, first, last, count, offset,
                 server, batch, sent, queued, fate>>

-----------------------------------------------------------------------------
(* raleighsl_rpc_server_push_response and __ipc_outbuf_add, by a worker or *)
(* by the poll loop's thread.                                              *)

\* A step of a thread on the connection: it may be gone.
OnClient(t, s) == Live /\ at[t] = s /\ client = "open"

Late(t) ==
  /\ Live
  /\ at[t] \in {"tail", "index", "link", "count", "fill", "wake"}
  /\ client = "freed"
  /\ Meets("freed")
  /\ UNCHANGED <<asked, tasks, connection, server, at, mine, batch, sent, queued>>

\* The tail is read without the lock.
PushTail(t) ==
  /\ OnClient(t, "tail")
  /\ mine' = [mine EXCEPT ![t].node = last]
  /\ Goto(t, "index")
  /\ UNCHANGED <<asked, tasks, connection, server, batch, sent, queued, fate>>

\* Fault: the slots are counted from the start of the node.
IndexCount == count % Slots

Index == (offset + count) % Slots
Fresh == Index = 0 /\ count > 0

PushIndex(t) ==
  /\ OnClient(t, "index")
  /\ mine' = [mine EXCEPT ![t].idx = Index, ![t].fresh = Fresh]
  /\ Goto(t, "link")
  /\ UNCHANGED <<asked, tasks, connection, server, batch, sent, queued, fate>>

\* A new node is linked without the lock.
NewNode == [next |-> 0, slots |-> [i \in 0 .. Slots - 1 |-> Nothing]]

PushLink(t) ==
  LET old == mine[t].node
      new == Len(nodes) + 1
  IN  /\ OnClient(t, "link")
      /\ IF old = 0 \/ mine[t].fresh
         THEN /\ nodes' = Append(IF old = 0 THEN nodes
                                 ELSE [nodes EXCEPT ![old].next = new], NewNode)
              /\ first' = IF old = 0 THEN new ELSE first
              /\ last' = new
              /\ mine' = [mine EXCEPT ![t].node = new]
         ELSE UNCHANGED <<nodes, first, last, mine>>
      /\ fate' = IF old = last THEN fate ELSE "overlap"
      /\ Goto(t, "count")
      /\ UNCHANGED <<asked, tasks, client, count, offset, hasData, writable,
                     server, batch, sent, queued>>

PushCount(t) ==
  /\ OnClient(t, "count")
  /\ count' = count + 1
  /\ queued' = Append(queued, [req |-> mine[t].req, answer |-> mine[t].answer])
  /\ fate' = IF mine[t].idx = Index /\ mine[t].fresh = Fresh THEN fate ELSE "overlap"
  /\ Goto(t, "fill")
  /\ UNCHANGED <<asked, tasks, client, nodes, first, last, offset, hasData,
                 writable, server, mine, batch, sent>>

\* The slot is filled without the lock.
PushFill(t) ==
  LET m == mine[t]
  IN  /\ OnClient(t, "fill")
      /\ nodes' = [nodes EXCEPT ![m.node].slots[m.idx] =
                     [req |-> m.req, answer |-> m.answer]]
      /\ Goto(t, "wake")
      /\ UNCHANGED <<asked, tasks, client, first, last, count, offset, hasData,
                     writable, server, mine, batch, sent, queued, fate>>

\* A flush that has read a count of 0 is about to take the interest back.
PushWake(t) ==
  /\ OnClient(t, "wake")
  /\ SetWritable(TRUE)
  /\ Goto(t, "idle")
  /\ mine' = [mine EXCEPT ![t] = NoOne]
  /\ fate' = IF at[Io] = "interest" /\ ~mine[Io].fresh THEN "asleep" ELSE fate
  /\ UNCHANGED <<asked, tasks, client, nodes, first, last, count, offset,
                 server, batch, sent, queued>>

-----------------------------------------------------------------------------
(* The workers and the end of the server.                                  *)

\* A task is carried out (__number_get and so on) and reported
\* (__operation_completed).
Work(w, id) ==
  /\ Live
  /\ server \in {"running", "stopped"}
  /\ at[w] = "idle"
  /\ id \in tasks
  /\ tasks' = tasks \ {id}
  /\ \E errno \in {"NONE", "FAILED"} :
       \E a \in Answers(asked[id].call, asked[id].plug, errno) :
         mine' = [mine EXCEPT ![w].req = id, ![w].answer = a]
  /\ Goto(w, "tail")
  /\ UNCHANGED <<asked, connection, server, batch, sent, queued, fate>>

WorkLate(w) ==
  /\ Live
  /\ server = "closed"
  /\ at[w] = "idle"
  /\ tasks # {}
  /\ Meets("fs")
  /\ UNCHANGED <<asked, tasks, connection, server, at, mine, batch, sent, queued>>

\* main: the poll loop ends and the listening socket is freed, the file system
\* is freed, the workers are stopped.
Stop ==
  /\ Polls
  /\ server' = "stopped"
  /\ fate' = IF client = "refused" THEN "twice" ELSE fate
  /\ UNCHANGED <<asked, tasks, connection, at, mine, batch, sent, queued>>

CloseFs ==
  /\ Live
  /\ server = "stopped"
  /\ server' = "closed"
  /\ UNCHANGED <<asked, tasks, connection, at, mine, batch, sent, queued, fate>>

StopWorkers ==
  /\ Live
  /\ server = "closed"
  /\ \A w \in Workers : at[w] = "idle"
  /\ server' = "down"
  /\ UNCHANGED <<asked, tasks, connection, at, mine, batch, sent, queued, fate>>

Flush == FlushCount \/ FlushWrite \/ FlushSettle \/ FlushRecount \/ FlushInterest

Push(t) ==
  PushTail(t) \/ PushIndex(t) \/ PushLink(t) \/ PushCount(t) \/ PushFill(t)
    \/ PushWake(t) \/ Late(t)

Next ==
  \/ Accept \/ AcceptFails \/ HangUp \/ WriteEvent \/ IdleEvent
  \/ \E ask \in Asks : Request(ask)
  \/ Flush
  \/ \E t \in Threads : Push(t)
  \/ \E w \in Workers : (\E id \in tasks : Work(w, id)) \/ WorkLate(w)
  \/ Stop \/ CloseFs \/ StopWorkers

\* The threads run, tasks are taken, and level-triggered epoll reports a
\* socket that is writable; a client need not ask or hang up.
Spec ==
  /\ Init /\ [][Next]_rvars
  /\ WF_rvars(Flush) /\ WF_rvars(WriteEvent)
  /\ \A t \in Threads : WF_rvars(Push(t))
  /\ \A w \in Workers : WF_rvars(\E id \in tasks : Work(w, id))

-----------------------------------------------------------------------------
\* The types of the state.
TypeOK ==
  /\ asked \in Seq(Asks) /\ tasks \subseteq DOMAIN asked
  /\ client \in {"none", "open", "freed", "refused"}
  /\ server \in {"running", "stopped", "closed", "down"}
  /\ first \in 0 .. Len(nodes) /\ last \in 0 .. Len(nodes)
  /\ count \in 0 .. MaxRequests /\ offset \in 0 .. Slots - 1
  /\ hasData \in BOOLEAN /\ writable \in BOOLEAN

Ids(s) == [i \in DOMAIN s |-> s[i].req]

\* As long as the model runs and one node is enough, the answers fit it, and
\* its slots behind the offset hold them in the order they were counted in,
\* but for those that are still to be filled (__ipc_outbuf_add, _flush).
QueueExact ==
  Live /\ client = "open" /\ first = last =>
    /\ count = Len(queued)
    /\ offset + count <= Slots
    /\ \A i \in 1 .. count :
         \/ nodes[first].slots[offset + i - 1] = queued[i]
         \/ \E t \in Threads : at[t] = "fill" /\ mine[t].req = queued[i].req

\* A request is answered once at most, whichever threads work for it and
\* wherever its answer is cut off (__operation_completed, __ipc_outbuf_flush).
AnsweredOnce == IsInjective(Ids(sent))

\* When no thread is at work, queued answers have the poll loop's attention:
\* the flag that data is there is set and epoll is asked for the event
\* (z_iopoll_set_writable, z_iopoll_process).  This is so only as long as no
\* thread has asked for the event between the unlocked read of the count at
\* the end of a flush and its use (z_ipc_msgbuf_flush): the flush then takes
\* the interest back, which is where the model stops.
WriteInterest ==
  Live /\ client = "open" /\ count > 0 /\ (\A t \in Threads : at[t] = "idle")
    => hasData /\ writable

\* The slots of the output queue hold the answers in the order they were
\* counted in, and while it holds any and nobody is at work the poll loop
\* waits for the socket, both until a slot, a tail or a count has gone stale
\* before its use or the connection is freed under a thread (the places at the
\* head of the module); and a request is answered once at most, in every
\* history (__ipc_outbuf_add, __ipc_outbuf_flush, z_iopoll_set_writable).
AnswersExact == TypeOK /\ QueueExact /\ WriteInterest /\ AnsweredOnce

\* Again and again every request so far has been answered (asked is bounded,
\* so each one is in the end), unless the client hangs up or is dropped, the
\* server stops, or the model stops at one of the places above.
Answered ==
  []<>(\/ 1 .. Len(asked) \subseteq ToSet(Ids(sent))
       \/ client = "freed" \/ server # "running" \/ fate # "none")
=============================================================================
