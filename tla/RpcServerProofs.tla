-------------------------- MODULE RpcServerProofs --------------------------
(***************************************************************************)
(* Proofs about the answers of a connection, for every number of workers,  *)
(* of slots and of requests.  None of the parts of AnswersExact is         *)
(* inductive.  The invariant follows each request from the tasks to the    *)
(* thread that carries it out, to its slot and to the socket, and says     *)
(* that it is at one of these places only; and it says which slot belongs  *)
(* to a thread that has counted its answer and not yet filled it.          *)
(***************************************************************************)
EXTENDS RpcServer, FiniteSetTheorems, SequenceTheorems, TLAPS

Pushing == {"tail", "index", "link", "count", "fill", "wake"}
Flushing == {"flush", "gather", "settle", "recount", "interest"}

\* What a request may be answered with.
AnswersOf(ask) ==
  Answers(ask.call, ask.plug, "NONE") \cup Answers(ask.call, ask.plug, "FAILED")
    \cup AtOnce(ask.call, ask.plug)

SomeAnswer == UNION {AnswersOf(ask) : ask \in Asks}

Entry == [req : Nat, answer : SomeAnswer]
Slot == Entry \cup {Nothing}
Node == [next : Nat, slots : [0 .. Slots - 1 -> Slot]]
Mine == [req : Nat, answer : SomeAnswer \cup {Nothing}, node : Nat, idx : Nat,
         fresh : BOOLEAN]

\* The types of what TypeOK leaves out.
Shape ==
  /\ asked \in Seq(Asks) /\ tasks \subseteq DOMAIN asked
  /\ Len(asked) <= MaxRequests
  /\ client \in {"none", "open", "freed", "refused"}
  /\ nodes \in Seq(Node)
  /\ first \in 0 .. Len(nodes) /\ last \in 0 .. Len(nodes)
  /\ count \in Nat /\ offset \in 0 .. Slots - 1
  /\ at \in [Threads -> {"idle"} \cup Pushing \cup Flushing]
  /\ mine \in [Threads -> Mine]
  /\ batch \in Seq(Entry) /\ sent \in Seq(Entry) /\ queued \in Seq(Entry)

Flags ==
  /\ server \in {"running", "stopped", "closed", "down"}
  /\ hasData \in BOOLEAN /\ writable \in BOOLEAN

\* A client that is not there has no queue, and before it has come nobody
\* works for it; the poll loop flushes only what is there.
Clients ==
  /\ client # "open" =>
       nodes = <<>> /\ first = 0 /\ last = 0 /\ count = 0 /\ queued = <<>>
  /\ client \in {"none", "refused"} =>
       tasks = {} /\ \A t \in Threads : at[t] = "idle"
  /\ at[Io] \in Flushing => client = "open"

\* The answers counted are those queued; a queue with answers has nodes; the
\* poll loop flushes answers that have been counted.
Counts ==
  /\ count = Len(queued)
  /\ count > 0 => first # 0
  /\ first = 0 \/ last = 0 => nodes = <<>>
  /\ at[Io] = "gather" => mine[Io].idx \in 1 .. count
  /\ at[Io] = "settle" =>
       Len(batch) \in 1 .. count /\ offset + Len(batch) <= Slots

\* A thread that queues has a node of the queue and a slot of a node.
Places ==
  client = "open" => \A t \in Threads :
    /\ at[t] \in {"index", "link"} => mine[t].node <= Len(nodes)
    /\ at[t] \in {"count", "fill"} => mine[t].node \in 1 .. Len(nodes)
    /\ at[t] \in {"link", "count", "fill"} => mine[t].idx \in 0 .. Slots - 1
    /\ at[t] = "link" /\ mine[t].fresh => first # 0

-----------------------------------------------------------------------------
(* Where a request is.                                                     *)

\* The request of the thread is neither in a slot nor in the queue.
Uncounted(t) == at[t] \in {"tail", "index", "link", "count"}
Holds(t) == at[t] \in {"tail", "index", "link", "count", "fill"}

Known(e) == e.req \in DOMAIN asked /\ e.answer \in AnswersOf(asked[e.req])

\* The request is in the hands of neither a task nor a thread.
Done(id) == id \notin tasks /\ \A t \in Threads : Holds(t) => mine[t].req # id

\* The slot has been written to the socket and not yet emptied.
Written(k, j) ==
  at[Io] = "settle" /\ k = first /\ j \in offset .. offset + Len(batch) - 1

Held ==
  /\ \A t \in Threads : Holds(t) => Known(mine[t]) /\ mine[t].req \notin tasks
  /\ \A t, u \in Threads : Holds(t) /\ Holds(u) /\ mine[t].req = mine[u].req => t = u

InSlots ==
  /\ \A k \in DOMAIN nodes, j \in 0 .. Slots - 1 :
       nodes[k].slots[j] # Nothing =>
         Known(nodes[k].slots[j]) /\ Done(nodes[k].slots[j].req)
  /\ \A k, l \in DOMAIN nodes, i, j \in 0 .. Slots - 1 :
       /\ nodes[k].slots[i] # Nothing /\ nodes[l].slots[j] # Nothing
       /\ nodes[k].slots[i].req = nodes[l].slots[j].req
       => k = l /\ i = j

InSent ==
  /\ \A i \in DOMAIN sent : Known(sent[i]) /\ Done(sent[i].req)
  /\ \A i, j \in DOMAIN sent : sent[i].req = sent[j].req => i = j
  /\ Live => \A i \in DOMAIN sent, k \in DOMAIN nodes, j \in 0 .. Slots - 1 :
       nodes[k].slots[j] # Nothing /\ ~Written(k, j) =>
         nodes[k].slots[j].req # sent[i].req

InQueue ==
  /\ \A i \in DOMAIN queued :
       /\ Known(queued[i]) /\ queued[i].req \notin tasks
       /\ \A t \in Threads : Uncounted(t) => mine[t].req # queued[i].req
  /\ \A i, j \in DOMAIN queued : queued[i].req = queued[j].req => i = j

-----------------------------------------------------------------------------
(* What the slots hold, while there is one node.                           *)

Single == Live /\ client = "open" /\ first = last /\ first # 0

\* The answers that are written and not yet settled.
Writing == IF at[Io] = "settle" THEN Len(batch) ELSE 0

\* Thread t has counted the i-th answer, and its slot is still empty.
Fills(t, i) ==
  /\ at[t] = "fill"
  /\ mine[t].req = queued[i].req /\ mine[t].answer = queued[i].answer
  /\ mine[t].idx = offset + i - 1
  /\ nodes[first].slots[offset + i - 1] = Nothing

Window ==
  Single =>
    /\ offset + count <= Slots
    /\ \A t \in Threads : at[t] \in {"count", "fill"} => mine[t].node = first
    /\ \A t \in Threads : at[t] = "count" => ~mine[t].fresh
    /\ \A j \in 0 .. Slots - 1 :
         j \notin offset .. offset + count - 1 => nodes[first].slots[j] = Nothing
    /\ \A i \in 1 .. count :
         \/ nodes[first].slots[offset + i - 1] = queued[i]
         \/ \E t \in Threads : Fills(t, i)
    /\ \A t \in Threads :
         at[t] = "fill" => \E i \in Writing + 1 .. count : Fills(t, i)

\* Data is announced to epoll as soon as there is any and nobody fills a slot,
\* nor is there any behind the back of a flush that has seen none.
Interest ==
  /\ hasData => writable
  /\ Live /\ client = "open" /\ count > 0 =>
       /\ hasData \/ \E t \in Threads : at[t] \in {"fill", "wake"}
       /\ at[Io] = "interest" /\ ~mine[Io].fresh =>
            \E t \in Threads : at[t] \in {"fill", "wake"}

\* What the queue is and who works on it, without the flags.
Core ==
  Shape /\ Clients /\ Counts /\ Places /\ Held /\ InSlots /\ InSent /\ InQueue
    /\ Window

IInv == Core /\ Flags /\ Interest

core == <<asked, tasks, client, nodes, first, last, count, offset, at, mine,
          batch, sent, queued>>

-----------------------------------------------------------------------------
LEMMA InitIInv == Init => IInv
<1>. SUFFICES ASSUME Init PROVE IInv
  OBVIOUS
<1>. USE RpcAssumption DEF Init
<1>1. Shape
  <2>1. NoOne \in Mine
    BY DEF Mine, NoOne
  <2>2. mine \in [Threads -> Mine]
    BY <2>1
  <2>3. at \in [Threads -> {"idle"} \cup Pushing \cup Flushing]
    OBVIOUS
  <2>. QED
    BY <2>2, <2>3, EmptySeq DEF Shape
<1>2. Clients /\ Counts /\ Places
  BY EmptySeq DEF Clients, Counts, Places, Flushing, Threads
<1>3. Held /\ InSlots /\ InSent /\ InQueue
  BY DEF Held, InSlots, InSent, InQueue, Holds, Uncounted
<1>4. Window /\ Flags /\ Interest
  BY DEF Window, Flags, Interest, Single
<1>. QED
  BY <1>1, <1>2, <1>3, <1>4 DEF IInv, Core

\* A step that leaves the queue alone, and either goes on or stops the model.
LEMMA QuietCore ==
  ASSUME Core, UNCHANGED core, fate' = fate \/ fate' # "none"
  PROVE  Core'
<1>. USE DEF Core, core
<1>1. Shape'
  BY DEF Shape
<1>2. Clients' /\ Counts' /\ Places'
  BY DEF Clients, Counts, Places
<1>3. Held' /\ InSlots' /\ InQueue'
  BY DEF Held, InSlots, InQueue, Holds, Uncounted, Known, Done
<1>4. InSent'
  BY DEF InSent, Holds, Known, Done, Written, Live
<1>5. Window'
  BY DEF Window, Single, Live, Fills, Writing
<1>. QED
  BY <1>1, <1>2, <1>3, <1>4, <1>5

\* What is asked stays asked, at its number.
LEMMA AskedGrows ==
  ASSUME NEW s \in Seq(Asks), NEW ask \in Asks
  PROVE  /\ Append(s, ask) \in Seq(Asks)
         /\ Len(Append(s, ask)) = Len(s) + 1
         /\ Len(s) + 1 \in DOMAIN Append(s, ask) /\ Len(s) + 1 \notin DOMAIN s
         /\ Append(s, ask)[Len(s) + 1] = ask
         /\ \A i \in DOMAIN s : i \in DOMAIN Append(s, ask) /\ Append(s, ask)[i] = s[i]
<1>1. Len(s) \in Nat /\ DOMAIN s = 1 .. Len(s)
  BY LenProperties
<1>2. DOMAIN Append(s, ask) = 1 .. Len(s) + 1
  BY AppendProperties, LenProperties
<1>. QED
  BY <1>1, <1>2, AppendProperties

\* The client is closed: its nodes are freed.
LEMMA CloseCore ==
  ASSUME Core, CloseClient, client = "open",
         asked' = asked, tasks' = tasks,
         mine' = mine, sent' = sent, batch' = batch,
         \/ at' = at /\ at[Io] \notin Flushing
         \/ at' = [at EXCEPT ![Io] = "idle"],
         fate' = fate \/ fate' # "none"
  PROVE  Core'
<1>. USE DEF Core, CloseClient
<1>0. /\ at' \in [Threads -> {"idle"} \cup Pushing \cup Flushing]
      /\ \A t \in Threads : at'[t] = "idle" \/ at'[t] = at[t]
      /\ at'[Io] \notin Flushing
  BY DEF Shape, Threads, Flushing
<1>1. Shape'
  BY <1>0, RpcAssumption DEF Shape
<1>2. Clients' /\ Counts' /\ Places'
  BY <1>0, EmptySeq DEF Clients, Counts, Places, Shape, Flushing, Threads
<1>3. Held' /\ InSlots' /\ InQueue'
  BY <1>0 DEF Held, InSlots, InQueue, Holds, Known
<1>4. InSent'
  BY <1>0 DEF InSent, Holds, Known, Done
<1>5. Window'
  BY DEF Window, Single
<1>. QED
  BY <1>1, <1>2, <1>3, <1>4, <1>5

LEMMA AcceptCore ==
  ASSUME Core, Accept \/ AcceptFails
  PROVE  Core'
<1>. USE DEF Core, Accept, AcceptFails
<1>0. \A t \in Threads : at[t] = "idle"
  BY DEF Clients
<1>1. Shape'
  BY DEF Shape
<1>2. Clients' /\ Counts' /\ Places'
  BY <1>0 DEF Clients, Counts, Places, Flushing, Threads
<1>3. Held' /\ InSlots' /\ InQueue'
  BY DEF Held, InSlots, InQueue, Holds, Uncounted, Known, Done
<1>4. InSent'
  BY DEF InSent, Holds, Known, Done, Written, Live
<1>5. Window'
  BY DEF Window, Single, Clients
<1>. QED
  BY <1>1, <1>2, <1>3, <1>4, <1>5

-----------------------------------------------------------------------------
(* A request.                                                              *)

\* A request that is given to the workers, or has no handler.
LEMMA RequestTask ==
  ASSUME Core, NEW ask \in Asks, client = "open", Len(asked) < MaxRequests,
         asked' = Append(asked, ask),
         tasks' = tasks \cup {Len(asked) + 1} \/ tasks' = tasks,
         UNCHANGED <<client, nodes, first, last, count, offset, at, mine,
                     batch, sent, queued>>,
         fate' = fate \/ fate' # "none"
  PROVE  Core'
<1>. USE DEF Core
<1>0. /\ asked' \in Seq(Asks) /\ Len(asked') = Len(asked) + 1
      /\ Len(asked) + 1 \in DOMAIN asked' /\ Len(asked) + 1 \notin DOMAIN asked
      /\ \A i \in DOMAIN asked : i \in DOMAIN asked' /\ asked'[i] = asked[i]
  BY AskedGrows DEF Shape
<1>1. Shape'
  <2>1. tasks' \subseteq DOMAIN asked'
    BY <1>0 DEF Shape
  <2>2. Len(asked') <= MaxRequests
    BY <1>0, LenProperties, RpcAssumption DEF Shape
  <2>. QED
    BY <1>0, <2>1, <2>2 DEF Shape
<1>2. Clients' /\ Counts' /\ Places'
  BY DEF Clients, Counts, Places
<1>3. Held' /\ InSlots'
  BY <1>0 DEF Held, InSlots, Holds, Known, Done
<1>4. InQueue'
  BY <1>0 DEF InQueue, Uncounted, Known
<1>5. InSent'
  BY <1>0 DEF InSent, Holds, Known, Done, Written, Live
<1>6. Window'
  BY DEF Window, Single, Live, Fills, Writing
<1>. QED
  BY <1>1, <1>2, <1>3, <1>4, <1>5, <1>6

\* A thread takes a request and its answer.
LEMMA Takes ==
  ASSUME NEW m \in [Threads -> Mine], NEW t \in Threads, NEW r \in Nat,
         NEW a \in SomeAnswer
  PROVE  [m EXCEPT ![t].req = r, ![t].answer = a] \in [Threads -> Mine]
<1>1. [m[t] EXCEPT !.req = r, !.answer = a] \in Mine
  BY DEF Mine
<1>2. [m EXCEPT ![t].req = r, ![t].answer = a]
        = [m EXCEPT ![t] = [m[t] EXCEPT !.req = r, !.answer = a]]
  BY DEF Mine
<1>. QED
  BY <1>1, <1>2

\* A request that the poll loop's thread answers at once.
LEMMA RequestNow ==
  ASSUME Core, NEW ask \in Asks, client = "open", Len(asked) < MaxRequests,
         at[Io] = "idle",
         asked' = Append(asked, ask), tasks' = tasks,
         NEW a \in AtOnce(ask.call, ask.plug),
         mine' = [mine EXCEPT ![Io].req = Len(asked) + 1, ![Io].answer = a],
         at' = [at EXCEPT ![Io] = "tail"],
         UNCHANGED <<client, nodes, first, last, count, offset, batch, sent,
                     queued, fate>>
  PROVE  Core'
<1>. USE DEF Core
<1>0. /\ asked' \in Seq(Asks) /\ Len(asked') = Len(asked) + 1
      /\ Len(asked) + 1 \in DOMAIN asked' /\ Len(asked) + 1 \notin DOMAIN asked
      /\ asked'[Len(asked) + 1] = ask
      /\ \A i \in DOMAIN asked : i \in DOMAIN asked' /\ asked'[i] = asked[i]
  BY AskedGrows DEF Shape
<1>a. Io \in Threads
  BY DEF Threads
<1>b. a \in AnswersOf(ask) /\ a \in SomeAnswer
  BY DEF AnswersOf, SomeAnswer
<1>c. Len(asked) \in Nat /\ Len(asked) + 1 \in Nat
  BY LenProperties DEF Shape
<1>d. /\ mine'[Io].req = Len(asked) + 1 /\ mine'[Io].answer = a
      /\ \A t \in Threads : t # Io => mine'[t] = mine[t] /\ at'[t] = at[t]
      /\ at'[Io] = "tail"
  BY <1>a DEF Shape, Mine
<1>1. Shape'
  <2>1. tasks' \subseteq DOMAIN asked' /\ Len(asked') <= MaxRequests
    BY <1>0, <1>c, RpcAssumption DEF Shape
  <2>2. mine' \in [Threads -> Mine]
    BY <1>a, <1>b, <1>c, Takes DEF Shape
  <2>3. at' \in [Threads -> {"idle"} \cup Pushing \cup Flushing]
    BY <1>a DEF Shape, Pushing
  <2>. QED
    BY <1>0, <2>1, <2>2, <2>3 DEF Shape
<1>2. Clients' /\ Counts' /\ Places'
  BY <1>a, <1>d DEF Clients, Counts, Places, Flushing
<1>3. Held'
  <2>1. \A t \in Threads : t # Io => (Holds(t)' <=> Holds(t))
    BY <1>d DEF Holds
  <2>2. ASSUME NEW t \in Threads, t # Io, Holds(t)
        PROVE  /\ Known(mine[t])' /\ mine'[t].req \notin tasks'
               /\ mine'[t].req = mine[t].req /\ mine[t].req \in DOMAIN asked
    <3>1. PICK m : m = mine[t] /\ m = mine'[t]
      BY <1>d, <2>2
    <3>2. Known(m) /\ m.req \notin tasks
      BY <2>2, <3>1 DEF Held
    <3>3. Known(m)'
      BY <1>0, <3>2 DEF Known
    <3>. QED
      BY <3>1, <3>2, <3>3 DEF Known
  <2>3. Known(mine[Io])' /\ mine'[Io].req \notin tasks'
    BY <1>0, <1>b, <1>d DEF Known, Shape
  <2>4. \A t \in Threads : Holds(t)' => Known(mine[t])' /\ mine'[t].req \notin tasks'
    BY <2>1, <2>2, <2>3
  <2>5. ASSUME NEW t \in Threads, NEW u \in Threads, Holds(t)', Holds(u)',
               mine'[t].req = mine'[u].req
        PROVE  t = u
    <3>1. CASE t # Io /\ u # Io
      BY <2>1, <2>2, <2>5, <3>1 DEF Held
    <3>2. ASSUME NEW v \in Threads, Holds(v)', v # Io
          PROVE  mine'[v].req # mine'[Io].req
      <4>1. mine'[v].req \in DOMAIN asked
        BY <2>1, <2>2, <3>2
      <4>2. mine'[Io].req \notin DOMAIN asked
        BY <1>0, <1>d
      <4>. QED
        BY <4>1, <4>2
    <3>. QED
      BY <1>a, <2>5, <3>1, <3>2
  <2>. QED
    BY <2>4, <2>5 DEF Held
<1>e. \A id \in DOMAIN asked : Done(id) => Done(id)'
  <2>1. \A t \in Threads : t # Io => (Holds(t)' <=> Holds(t))
    BY <1>d DEF Holds
  <2>. QED
    BY <1>0, <1>d, <2>1, ZenonT(60) DEF Done
<1>4. InSlots'
  BY <1>0, <1>e DEF InSlots, Known
<1>5. InQueue'
  <2>1. ASSUME NEW i \in DOMAIN queued, NEW t \in Threads, Uncounted(t)'
        PROVE  mine'[t].req # queued[i].req
    <3>1. CASE t = Io
      BY <1>0, <1>d, <3>1 DEF InQueue, Known
    <3>2. CASE t # Io
      <4>1. Uncounted(t) /\ mine'[t] = mine[t]
        BY <1>d, <2>1, <3>2 DEF Uncounted
      <4>. QED
        BY <4>1 DEF InQueue
    <3>. QED
      BY <3>1, <3>2
  <2>2. \A i \in DOMAIN queued : Known(queued[i])'
    BY <1>0 DEF InQueue, Known
  <2>. QED
    BY <2>1, <2>2 DEF InQueue
<1>6. InSent'
  <2>1. \A k, j : ~Written(k, j) /\ ~Written(k, j)'
    BY <1>d DEF Written
  <2>2. \A i \in DOMAIN sent : Known(sent[i])' /\ Done(sent[i].req)'
    BY <1>0, <1>e DEF InSent, Known
  <2>. QED
    BY <2>1, <2>2 DEF InSent, Live
<1>7. Window'
  <2>1. \A t \in Threads : \A i : Fills(t, i)' <=> Fills(t, i)
    BY <1>d, ZenonT(60) DEF Fills
  <2>2. \A t \in Threads : at'[t] \in {"count", "fill"} =>
          at'[t] = at[t] /\ mine'[t] = mine[t]
    BY <1>d
  <2>3. Writing' = Writing /\ (Single' <=> Single)
    BY <1>d DEF Writing, Single, Live
  <2>. QED
    BY <2>1, <2>2, <2>3 DEF Window
<1>. QED
  BY <1>1, <1>2, <1>3, <1>4, <1>5, <1>6, <1>7

LEMMA RequestCore ==
  ASSUME Core, NEW ask \in Asks, Request(ask)
  PROVE  Core'
<1>. USE DEF Request, Polls, Live, Meets, Goto, connection
<1>1. CASE /\ Scheduled(ask.call, ask.plug)
           /\ tasks' = tasks \cup {Len(asked) + 1}
           /\ UNCHANGED <<connection, at, mine, queued, fate>>
  BY <1>1, RequestTask
<1>2. CASE /\ CloseClient
           /\ UNCHANGED <<tasks, at, mine, fate>>
  \* The connection is closed and the request has been read.
  <2>. USE DEF Core, CloseClient
  <2>0. /\ asked' \in Seq(Asks) /\ Len(asked') = Len(asked) + 1
        /\ \A i \in DOMAIN asked : i \in DOMAIN asked' /\ asked'[i] = asked[i]
    BY AskedGrows DEF Shape
  <2>1. Shape'
    BY <1>2, <2>0, EmptySeq, LenProperties, RpcAssumption, SMTT(30) DEF Shape
  <2>2. Clients' /\ Counts' /\ Places'
    BY <1>2, EmptySeq DEF Clients, Counts, Places, Shape, Flushing, Threads
  <2>3. Held' /\ InSlots' /\ InQueue'
    BY <1>2, <2>0 DEF Held, InSlots, InQueue, Holds, Known
  <2>4. InSent'
    BY <1>2, <2>0 DEF InSent, Holds, Known, Done
  <2>5. Window'
    BY <1>2 DEF Window, Single
  <2>. QED
    BY <2>1, <2>2, <2>3, <2>4, <2>5
<1>3. CASE /\ Meets("null")
           /\ UNCHANGED <<tasks, connection, at, mine, queued>>
  BY <1>3, RequestTask
<1>4. ASSUME NEW a \in AtOnce(ask.call, ask.plug),
             mine' = [mine EXCEPT ![Io].req = Len(asked) + 1, ![Io].answer = a],
             Goto(Io, "tail"),
             UNCHANGED <<tasks, connection, queued, fate>>
      PROVE  Core'
  BY <1>4, RequestNow
<1>. QED
  BY <1>1, <1>2, <1>3, <1>4

\* A worker takes a task.
LEMMA WorkCore ==
  ASSUME Core, NEW w \in Workers, NEW id \in tasks, Work(w, id)
  PROVE  Core'
<1>. USE DEF Core, Work, Goto, connection
<1>a. w \in Threads /\ id \in DOMAIN asked /\ id \in Nat /\ asked[id] \in Asks
  BY LenProperties, ElementOfSeq DEF Threads, Shape
<1>0. PICK a \in AnswersOf(asked[id]) :
        mine' = [mine EXCEPT ![w].req = id, ![w].answer = a]
  BY DEF AnswersOf
<1>b. a \in SomeAnswer
  BY <1>a DEF SomeAnswer
<1>d. /\ mine'[w].req = id /\ mine'[w].answer = a
      /\ \A t \in Threads : t # w => mine'[t] = mine[t] /\ at'[t] = at[t]
      /\ at[w] = "idle" /\ at'[w] = "tail"
  BY <1>0, <1>a, SMTT(30) DEF Shape, Mine
<1>e. \A i : Done(i) => Done(i)'
  BY <1>a, <1>d DEF Holds, Done
<1>1. Shape'
  <2>2. mine' \in [Threads -> Mine]
    BY <1>0, <1>a, <1>b, Takes DEF Shape
  <2>3. at' \in [Threads -> {"idle"} \cup Pushing \cup Flushing]
    BY <1>a DEF Shape, Pushing
  <2>. QED
    BY <2>2, <2>3 DEF Shape
<1>f. Io \in Threads
  BY DEF Threads
<1>g. (at'[Io] \in Flushing <=> at[Io] \in Flushing)
      /\ (at[Io] \in Flushing => at'[Io] = at[Io] /\ mine'[Io] = mine[Io])
  BY <1>d, <1>f DEF Flushing
<1>2. Clients' /\ Counts'
  BY <1>g DEF Clients, Counts, Flushing
<1>p. Places'
  BY <1>d DEF Places
<1>3. Held'
  <2>1. Known(mine[w])' /\ mine'[w].req \notin tasks'
    BY <1>a, <1>d DEF Known
  <2>2. \A t \in Threads : t # w /\ Holds(t)' =>
          Holds(t) /\ Known(mine[t])' /\ mine'[t].req \notin tasks'
            /\ mine'[t].req # id
    BY <1>d DEF Held, Holds, Known
  <2>. QED
    BY <1>d, <2>1, <2>2, ZenonT(60) DEF Held
<1>4. InSlots'
  BY <1>e DEF InSlots, Known
<1>5. InQueue'
  <2>1. ASSUME NEW i \in DOMAIN queued, NEW t \in Threads, Uncounted(t)'
        PROVE  mine'[t].req # queued[i].req
    <3>1. CASE t = w
      BY <1>d, <3>1 DEF InQueue
    <3>2. CASE t # w
      <4>1. Uncounted(t) /\ mine'[t] = mine[t]
        BY <1>d, <2>1, <3>2 DEF Uncounted
      <4>. QED
        BY <4>1 DEF InQueue
    <3>. QED
      BY <3>1, <3>2
  <2>. QED
    BY <2>1 DEF InQueue, Known
<1>6. InSent'
  <2>1. \A k, j : Written(k, j)' <=> Written(k, j)
    BY <1>g DEF Written, Flushing
  <2>. QED
    BY <1>e, <2>1 DEF InSent, Live, Known
<1>7. Window'
  <2>1. \A t \in Threads : \A i : Fills(t, i)' <=> Fills(t, i)
    BY <1>d DEF Fills
  <2>2. \A t \in Threads : at'[t] \in {"count", "fill"} =>
          at'[t] = at[t] /\ mine'[t] = mine[t]
    BY <1>d
  <2>3. Writing' = Writing /\ (Single' <=> Single)
    BY <1>g DEF Writing, Single, Live, Flushing
  <2>. QED
    BY <2>1, <2>2, <2>3 DEF Window
<1>. QED
  BY <1>1, <1>2, <1>p, <1>3, <1>4, <1>5, <1>6, <1>7

-----------------------------------------------------------------------------
(* Steps that only move a thread.                                          *)

\* The thread neither counts nor fills, and the poll loop's thread does not
\* come from or to its settlement.
LEMMA MoveCore ==
  ASSUME Core, NEW t \in Threads, NEW s \in {"idle"} \cup Pushing \cup Flushing,
         at' = [at EXCEPT ![t] = s],
         at[t] \notin {"count", "fill", "settle"}, s \notin {"count", "fill", "settle"},
         mine' \in [Threads -> Mine],
         \A u \in Threads : u # t => mine'[u] = mine[u],
         Holds(t)' => /\ Holds(t)
                      /\ mine'[t].req = mine[t].req /\ mine'[t].answer = mine[t].answer,
         UNCHANGED <<asked, tasks, client, nodes, first, last, count, offset,
                     batch, sent, queued>>,
         fate' = fate \/ fate' # "none",
         Clients', Counts', Places'
  PROVE  Core'
<1>. USE DEF Core
<1>d. /\ \A u \in Threads : u # t => at'[u] = at[u]
      /\ at'[t] = s
  BY DEF Shape
<1>e. \A i : Done(i) => Done(i)'
  BY <1>d DEF Holds, Done
<1>f. Io \in Threads
  BY DEF Threads
<1>g. at[Io] = "settle" <=> at'[Io] = "settle"
  BY <1>d, <1>f
<1>h. \A u \in Threads : Holds(u)' =>
        /\ Holds(u) /\ mine'[u].req = mine[u].req /\ mine'[u].answer = mine[u].answer
  BY <1>d DEF Holds
<1>1. Shape'
  BY DEF Shape
<1>3. Held'
  BY <1>h DEF Held, Known
<1>4. InSlots'
  BY <1>e DEF InSlots, Known
<1>5. InQueue'
  <2>1. \A u \in Threads : Uncounted(u)' => Uncounted(u) /\ mine'[u].req = mine[u].req
    BY <1>d, <1>h DEF Uncounted, Holds
  <2>. QED
    BY <2>1 DEF InQueue, Known
<1>6. InSent'
  <2>1. \A k, j : Written(k, j)' <=> Written(k, j)
    BY <1>g DEF Written
  <2>. QED
    BY <1>e, <2>1 DEF InSent, Live, Known
<1>7. Window'
  <2>1. \A u \in Threads : \A i : Fills(u, i)' <=> Fills(u, i)
    BY <1>d DEF Fills
  <2>2. \A u \in Threads : at'[u] \in {"count", "fill"} =>
          at'[u] = at[u] /\ mine'[u] = mine[u]
    BY <1>d
  <2>3. Writing' = Writing /\ (Single' => Single)
    BY <1>g DEF Writing, Single, Live
  <2>. QED
    BY <2>1, <2>2, <2>3 DEF Window
<1>. QED
  BY <1>1, <1>3, <1>4, <1>5, <1>6, <1>7

LEMMA Notes ==
  ASSUME NEW m \in [Threads -> Mine], NEW t \in Threads, NEW n \in Nat,
         NEW b \in BOOLEAN
  PROVE  /\ [m EXCEPT ![t].node = n] \in [Threads -> Mine]
         /\ [m EXCEPT ![t].fresh = b] \in [Threads -> Mine]
         /\ [m EXCEPT ![t].idx = n, ![t].fresh = b] \in [Threads -> Mine]
<1>1. [m EXCEPT ![t].node = n] = [m EXCEPT ![t] = [m[t] EXCEPT !.node = n]]
  OBVIOUS
<1>2. [m EXCEPT ![t].fresh = b] = [m EXCEPT ![t] = [m[t] EXCEPT !.fresh = b]]
  OBVIOUS
<1>3. [m EXCEPT ![t].idx = n, ![t].fresh = b]
        = [m EXCEPT ![t] = [m[t] EXCEPT !.idx = n, !.fresh = b]]
  BY DEF Mine
<1>4. [m[t] EXCEPT !.node = n] \in Mine /\ [m[t] EXCEPT !.fresh = b] \in Mine
  BY DEF Mine
<1>5. [m[t] EXCEPT !.idx = n, !.fresh = b] \in Mine
  BY DEF Mine
<1>. QED
  BY <1>1, <1>2, <1>3, <1>4, <1>5

\* The poll loop's thread sees an event, or counts what there is to write.
LEMMA FlushMoves ==
  ASSUME Core, WriteEvent \/ FlushCount \/ FlushRecount \/ FlushInterest
  PROVE  Core'
<1>. USE DEF Core, Goto, connection
<1>a. Io \in Threads
  BY DEF Threads
<1>1. CASE WriteEvent
  <2>. USE <1>1 DEF WriteEvent, Polls
  <2>1. at'[Io] = "flush" /\ \A u \in Threads : u # Io => at'[u] = at[u]
    BY <1>a DEF Shape
  <2>2. Clients' /\ Counts' /\ Places'
    BY <1>a, <2>1 DEF Clients, Counts, Places
  <2>3. mine' \in [Threads -> Mine] /\ ~Holds(Io)'
    BY <2>1 DEF Shape, Holds
  <2>. QED
    BY <1>a, <2>2, <2>3, MoveCore DEF Flushing
<1>2. CASE FlushCount
  <2>. USE <1>2 DEF FlushCount
  <2>1. /\ at'[Io] = IF count = 0 THEN "recount" ELSE "gather"
        /\ mine'[Io].idx = count
        /\ \A u \in Threads : u # Io => at'[u] = at[u] /\ mine'[u] = mine[u]
    BY <1>a DEF Shape, Mine
  <2>2. Clients'
    BY <1>a, <2>1 DEF Clients, Flushing
  <2>4. Counts'
    BY <1>a, <2>1 DEF Counts, Shape
  <2>5. Places'
    BY <1>a, <2>1 DEF Places
  <2>3. mine' \in [Threads -> Mine] /\ ~Holds(Io)'
    <3>1. mine' \in [Threads -> Mine]
      BY <1>a, ZenonT(60) DEF Shape, Mine
    <3>. QED
      BY <2>1, <3>1 DEF Holds
  <2>6. CASE count = 0
    BY <1>a, <2>1, <2>2, <2>3, <2>4, <2>5, <2>6, MoveCore DEF Flushing
  <2>7. CASE count # 0
    BY <1>a, <2>1, <2>2, <2>3, <2>4, <2>5, <2>7, MoveCore DEF Flushing
  <2>. QED
    BY <2>6, <2>7
<1>3. CASE FlushRecount
  <2>. USE <1>3 DEF FlushRecount
  <2>1. /\ at'[Io] = "interest"
        /\ \A u \in Threads : u # Io => at'[u] = at[u] /\ mine'[u] = mine[u]
    BY <1>a DEF Shape, Mine
  <2>2. Clients' /\ Counts' /\ Places'
    BY <1>a, <2>1 DEF Clients, Counts, Places, Flushing
  <2>b. (count > 0) \in BOOLEAN
    OBVIOUS
  <2>3. mine' \in [Threads -> Mine] /\ ~Holds(Io)'
    BY <1>a, <2>1, <2>b, Notes DEF Shape, Holds
  <2>. QED
    BY <1>a, <2>1, <2>2, <2>3, MoveCore DEF Flushing
<1>4. CASE FlushInterest
  <2>. USE <1>4 DEF FlushInterest
  <2>1. /\ at'[Io] = "idle" /\ mine'[Io] = NoOne
        /\ \A u \in Threads : u # Io => at'[u] = at[u] /\ mine'[u] = mine[u]
    BY <1>a DEF Shape, Mine
  <2>2. Clients' /\ Counts' /\ Places'
    BY <1>a, <2>1 DEF Clients, Counts, Places, Flushing
  <2>3. NoOne \in Mine
    BY DEF Mine, NoOne
  <2>4. mine' \in [Threads -> Mine] /\ ~Holds(Io)'
    BY <1>a, <2>1, <2>3 DEF Shape, Holds
  <2>. QED
    BY <1>a, <2>1, <2>2, <2>4, MoveCore
<1>. QED
  BY <1>1, <1>2, <1>3, <1>4

\* An index is a slot of a node.
LEMMA IndexRange ==
  ASSUME NEW n \in Nat
  PROVE  n % Slots \in 0 .. Slots - 1
  BY RpcAssumption

LEMMA PushMoves ==
  ASSUME Core, NEW t \in Threads, PushTail(t) \/ PushIndex(t) \/ PushWake(t)
  PROVE  Core'
<1>. USE DEF Core, Goto, connection, OnClient
<1>a. Io \in Threads
  BY DEF Threads
<1>1. CASE PushTail(t)
  <2>. USE <1>1 DEF PushTail
  <2>1. /\ at'[t] = "index" /\ mine'[t].node = last
        /\ mine'[t].req = mine[t].req /\ mine'[t].answer = mine[t].answer
        /\ \A u \in Threads : u # t => at'[u] = at[u] /\ mine'[u] = mine[u]
    BY DEF Shape, Mine
  <2>2. Clients' /\ Counts'
    BY <1>a, <2>1 DEF Clients, Counts, Flushing
  <2>3. Places'
    BY <2>1 DEF Places, Shape
  <2>n. last \in Nat /\ Len(nodes) \in Nat
    BY LenProperties DEF Shape
  <2>4. mine' \in [Threads -> Mine] /\ Holds(t)
    BY <2>n, Notes DEF Shape, Holds
  <2>. QED
    BY <2>1, <2>2, <2>3, <2>4, MoveCore DEF Pushing
<1>2. CASE PushIndex(t)
  <2>. USE <1>2 DEF PushIndex
  <2>a. offset + count \in Nat
    BY RpcAssumption DEF Shape
  <2>0. Index \in 0 .. Slots - 1 /\ Fresh \in BOOLEAN /\ (Fresh => first # 0)
    BY <2>a, IndexRange DEF Index, Fresh, Counts
  <2>1. /\ at'[t] = "link" /\ mine'[t].idx = Index /\ mine'[t].fresh = Fresh
        /\ mine'[t].node = mine[t].node
        /\ mine'[t].req = mine[t].req /\ mine'[t].answer = mine[t].answer
        /\ \A u \in Threads : u # t => at'[u] = at[u] /\ mine'[u] = mine[u]
    BY DEF Shape, Mine
  <2>2. Clients' /\ Counts'
    BY <1>a, <2>1 DEF Clients, Counts, Flushing
  <2>3. Places'
    BY <2>0, <2>1 DEF Places, Shape
  <2>n. Index \in Nat
    BY <2>0, RpcAssumption
  <2>4. mine' \in [Threads -> Mine] /\ Holds(t)
    BY <2>0, <2>n, Notes DEF Shape, Holds
  <2>. QED
    BY <2>1, <2>2, <2>3, <2>4, MoveCore DEF Pushing
<1>3. CASE PushWake(t)
  <2>. USE <1>3 DEF PushWake
  <2>1. /\ at'[t] = "idle" /\ mine'[t] = NoOne
        /\ \A u \in Threads : u # t => at'[u] = at[u] /\ mine'[u] = mine[u]
    BY DEF Shape, Mine
  <2>2. Clients' /\ Counts' /\ Places'
    BY <1>a, <2>1 DEF Clients, Counts, Places, Flushing
  <2>3. NoOne \in Mine
    BY DEF Mine, NoOne
  <2>4. mine' \in [Threads -> Mine] /\ ~Holds(t)'
    BY <2>1, <2>3 DEF Shape, Holds
  <2>. QED
    BY <2>1, <2>2, <2>4, MoveCore
<1>. QED
  BY <1>1, <1>2, <1>3

-----------------------------------------------------------------------------
(* A node is linked.                                                       *)

\* The tail has room: nothing but the thread's place changes.
LEMMA LinkNone ==
  ASSUME Core, NEW t \in Threads, PushLink(t),
         ~(mine[t].node = 0 \/ mine[t].fresh)
  PROVE  Core'
<1>. USE DEF Core, Goto, connection, OnClient, PushLink
<1>a. Io \in Threads
  BY DEF Threads
<1>0. UNCHANGED <<asked, tasks, client, nodes, first, last, count, offset, mine,
                  batch, sent, queued>>
  OBVIOUS
<1>1. /\ at[t] = "link" /\ at'[t] = "count"
      /\ \A u \in Threads : u # t => at'[u] = at[u]
  BY DEF Shape
<1>2. Shape'
  BY <1>0, <1>1 DEF Shape, Pushing
<1>3. Clients' /\ Counts'
  BY <1>0, <1>1, <1>a DEF Clients, Counts, Flushing
<1>4. mine[t].node \in Nat
  BY DEF Shape, Mine
<1>5. Places'
  BY <1>0, <1>1, <1>4 DEF Places
<1>6. \A u \in Threads : (Holds(u)' <=> Holds(u)) /\ (Uncounted(u)' <=> Uncounted(u))
  BY <1>1 DEF Holds, Uncounted
<1>7. Held' /\ InQueue'
  BY <1>0, <1>6 DEF Held, InQueue, Known
<1>8. InSlots'
  BY <1>0, <1>6 DEF InSlots, Known, Done
<1>9. InSent'
  <2>1. \A k, j : Written(k, j)' <=> Written(k, j)
    BY <1>0, <1>1, <1>a DEF Written
  <2>. QED
    BY <1>0, <1>6, <2>1 DEF InSent, Live, Known, Done
<1>10. Window'
  <2>1. \A u \in Threads : \A i : Fills(u, i)' <=> Fills(u, i)
    BY <1>0, <1>1 DEF Fills
  <2>2. Writing' = Writing
    BY <1>0, <1>1, <1>a DEF Writing
  <2>3. Single' => Single /\ mine[t].node = first
    BY <1>0 DEF Single, Live
  <2>. QED
    BY <1>0, <1>1, <2>1, <2>2, <2>3 DEF Window
<1>. QED
  BY <1>2, <1>3, <1>5, <1>7, <1>8, <1>9, <1>10

\* A new node is appended, with empty slots.
LEMMA LinkNode ==
  ASSUME NEW s \in Seq(Node), NEW old \in 0 .. Len(s)
  PROVE  LET new == Append(IF old = 0 THEN s
                           ELSE [s EXCEPT ![old].next = Len(s) + 1], NewNode)
         IN  /\ new \in Seq(Node) /\ Len(new) = Len(s) + 1
             /\ DOMAIN new = 1 .. Len(s) + 1 /\ DOMAIN s = 1 .. Len(s)
             /\ \A k \in DOMAIN s : new[k].slots = s[k].slots
             /\ new[Len(s) + 1] = NewNode
<1>. DEFINE base == IF old = 0 THEN s ELSE [s EXCEPT ![old].next = Len(s) + 1]
<1>0. Len(s) \in Nat /\ DOMAIN s = 1 .. Len(s)
  BY LenProperties
<1>1. base \in Seq(Node) /\ Len(base) = Len(s)
      /\ \A k \in DOMAIN s : base[k].slots = s[k].slots
  <2>1. CASE old = 0
    BY <2>1
  <2>2. CASE old # 0
    <3>1. old \in 1 .. Len(s) /\ s[old] \in Node
      BY <1>0, <2>2, ElementOfSeq
    <3>2. [s[old] EXCEPT !.next = Len(s) + 1] \in Node
      BY <1>0, <3>1 DEF Node
    <3>3. base = [s EXCEPT ![old] = [s[old] EXCEPT !.next = Len(s) + 1]]
      BY <2>2, <3>1
    <3>4. base \in Seq(Node) /\ Len(base) = Len(s)
      BY <3>1, <3>2, <3>3, ExceptSeq
    <3>5. \A k \in DOMAIN s : base[k].slots = s[k].slots
      BY <1>0, <3>1, <3>3 DEF Node
    <3>. QED
      BY <3>4, <3>5
  <2>. QED
    BY <2>1, <2>2
<1>2. NewNode \in Node
  BY DEF NewNode, Node, Slot
<1>. HIDE DEF base
<1>3. /\ Append(base, NewNode) \in Seq(Node) /\ Len(Append(base, NewNode)) = Len(s) + 1
      /\ Append(base, NewNode)[Len(s) + 1] = NewNode
      /\ \A k \in 1 .. Len(s) : Append(base, NewNode)[k] = base[k]
  BY <1>1, <1>2, AppendProperties
<1>4. DOMAIN Append(base, NewNode) = 1 .. Len(s) + 1
  BY <1>3, LenProperties
<1>5. \A k \in DOMAIN s : Append(base, NewNode)[k].slots = s[k].slots
  BY <1>0, <1>1, <1>3
<1>. QED
  BY <1>0, <1>3, <1>4, <1>5 DEF base

LEMMA LinkNew ==
  ASSUME Core, NEW t \in Threads, PushLink(t),
         mine[t].node = 0 \/ mine[t].fresh
  PROVE  Core'
<1>. USE DEF Core
<1>a. Io \in Threads
  BY DEF Threads
<1>b. Len(nodes) \in Nat /\ mine[t].node \in Nat /\ mine[t].node <= Len(nodes)
  BY LenProperties DEF Shape, Mine, PushLink, OnClient, Places
<1>c. nodes \in Seq(Node) /\ mine[t].node \in 0 .. Len(nodes)
  BY <1>b DEF Shape
<1>0. /\ UNCHANGED <<asked, tasks, client, count, offset, batch, sent, queued>>
      /\ first' = IF mine[t].node = 0 THEN Len(nodes) + 1 ELSE first
      /\ last' = Len(nodes) + 1
      /\ client = "open"
      /\ fate = "none" /\ (Live' => mine[t].node = last)
  BY DEF PushLink, OnClient, Live
<1>1. /\ at[t] = "link" /\ at'[t] = "count"
      /\ \A u \in Threads : u # t => at'[u] = at[u]
      /\ at' \in [Threads -> {"idle"} \cup Pushing \cup Flushing]
  BY DEF Shape, PushLink, OnClient, Goto, Pushing
<1>2. /\ nodes' \in Seq(Node) /\ Len(nodes') = Len(nodes) + 1
      /\ DOMAIN nodes' = 1 .. Len(nodes) + 1 /\ DOMAIN nodes = 1 .. Len(nodes)
      /\ \A k \in DOMAIN nodes : nodes'[k].slots = nodes[k].slots
      /\ nodes'[Len(nodes) + 1] = NewNode
  <2>1. nodes' = Append(IF mine[t].node = 0 THEN nodes
                        ELSE [nodes EXCEPT ![mine[t].node].next = Len(nodes) + 1],
                        NewNode)
    BY DEF PushLink
  <2>. QED
    BY <1>c, <2>1, LinkNode
<1>3. /\ mine' \in [Threads -> Mine]
      /\ mine'[t].node = Len(nodes) + 1 /\ mine'[t].idx = mine[t].idx
      /\ mine'[t].fresh = mine[t].fresh
      /\ mine'[t].req = mine[t].req /\ mine'[t].answer = mine[t].answer
      /\ \A u \in Threads : u # t => mine'[u] = mine[u]
  <2>1. mine' = [mine EXCEPT ![t].node = Len(nodes) + 1]
    BY DEF PushLink
  <2>2. Len(nodes) + 1 \in Nat
    BY <1>b
  <2>3. mine' \in [Threads -> Mine]
    BY <2>1, <2>2, Notes DEF Shape
  <2>. QED
    BY <2>1, <2>3 DEF Shape, Mine
<1>4. Shape'
  BY <1>0, <1>1, <1>2, <1>3, <1>b DEF Shape
<1>5. Clients'
  BY <1>0, <1>1, <1>a DEF Clients, Flushing
<1>6. first' # 0 /\ last' # 0 /\ first' \in 1 .. Len(nodes) + 1
  BY <1>0, <1>b, <1>c, EmptySeq, SMTT(30) DEF Shape, Counts
<1>7. Counts'
  BY <1>0, <1>1, <1>3, <1>6, <1>a DEF Counts
<1>8. Places'
  <2>1. Len(nodes) \in Nat
    BY <1>b
  <2>2. mine'[t].node \in 1 .. Len(nodes') /\ mine'[t].idx \in 0 .. Slots - 1
    BY <1>0, <1>1, <1>2, <1>3, <2>1 DEF Places
  <2>3. ASSUME NEW u \in Threads, u # t
        PROVE  /\ at[u] \in {"index", "link"} => mine[u].node <= Len(nodes')
               /\ at[u] \in {"count", "fill"} => mine[u].node \in 1 .. Len(nodes')
               /\ at[u] \in {"link", "count", "fill"} => mine[u].idx \in 0 .. Slots - 1
    <3>1. mine[u].node \in Nat
      BY DEF Shape, Mine
    <3>. QED
      BY <1>0, <1>2, <2>1, <3>1 DEF Places
  <2>. QED
    BY <1>1, <1>3, <1>6, <2>2, <2>3 DEF Places
<1>9. \A u \in Threads : /\ Holds(u)' <=> Holds(u)
                         /\ Uncounted(u)' <=> Uncounted(u)
                         /\ mine'[u].req = mine[u].req
                         /\ mine'[u].answer = mine[u].answer
  BY <1>1, <1>3 DEF Holds, Uncounted
<1>10. Held' /\ InQueue'
  BY <1>0, <1>9 DEF Held, InQueue, Known
<1>11. \A k \in DOMAIN nodes', j \in 0 .. Slots - 1 :
         nodes'[k].slots[j] # Nothing =>
           k \in DOMAIN nodes /\ nodes'[k].slots[j] = nodes[k].slots[j]
  <2>1. \A j \in 0 .. Slots - 1 : NewNode.slots[j] = Nothing
    BY DEF NewNode
  <2>. QED
    BY <1>2, <1>b, <2>1
<1>12. InSlots'
  <2>1. \A i : Done(i) => Done(i)'
    BY <1>0, <1>9 DEF Done
  <2>. QED
    BY <1>0, <1>11, <2>1, SMTT(30) DEF InSlots, Known
<1>13. InSent'
  <2>1. \A i \in DOMAIN sent : Known(sent[i])' /\ Done(sent[i].req)'
    BY <1>0, <1>9 DEF InSent, Known, Done
  <2>2. ASSUME Live', NEW k \in DOMAIN nodes, NEW j, Written(k, j)
        PROVE  Written(k, j)'
    <3>1. at'[Io] = "settle" /\ count > 0
      BY <1>1, <1>a, <2>2 DEF Written, Counts, Shape
    <3>2. nodes # <<>> /\ last # 0
      BY <3>1, EmptySeq DEF Counts, Shape
    <3>3. first' = first
      BY <1>0, <2>2, <3>2
    <3>. QED
      BY <1>0, <2>2, <3>1, <3>3 DEF Written
  <2>3. Live' => Live
    BY <1>0 DEF Live
  <2>4. ASSUME Live', NEW i \in DOMAIN sent', NEW k \in DOMAIN nodes',
               NEW j \in 0 .. Slots - 1,
               nodes'[k].slots[j] # Nothing, ~Written(k, j)'
        PROVE  nodes'[k].slots[j].req # sent'[i].req
    <3>1. k \in DOMAIN nodes /\ nodes'[k].slots[j] = nodes[k].slots[j]
      BY <1>11, <2>4
    <3>2. ~Written(k, j)
      BY <2>2, <2>4, <3>1
    <3>. QED
      BY <1>0, <2>3, <2>4, <3>1, <3>2 DEF InSent
  <2>. QED
    BY <1>0, <2>1, <2>4 DEF InSent
<1>14. Window'
  <2>. SUFFICES ASSUME Single' PROVE Window'
    BY DEF Window
  <2>1. mine[t].node = 0 /\ last = 0 /\ nodes = <<>> /\ Len(nodes) = 0
    <3>1. first' = last' /\ mine[t].node = last /\ first \in 0 .. Len(nodes)
      BY <1>0 DEF Single, Shape
    <3>2. mine[t].node = 0
      BY <1>0, <1>b, <3>1
    <3>. QED
      BY <3>1, <3>2, EmptySeq DEF Counts
  <2>2. first = 0 /\ count = 0 /\ ~mine[t].fresh
    BY <1>0, <1>1, <2>1 DEF Shape, Counts, Places
  <2>3. \A u \in Threads : at'[u] \in {"count", "fill"} => u = t
    BY <1>0, <1>1, <2>1 DEF Places
  <2>4. \A j \in 0 .. Slots - 1 : nodes'[first'].slots[j] = Nothing
    <3>1. \A j \in 0 .. Slots - 1 : NewNode.slots[j] = Nothing
      BY DEF NewNode
    <3>. QED
      BY <1>0, <1>2, <2>1, <3>1
  <2>. QED
    BY <1>0, <1>1, <1>3, <2>1, <2>2, <2>3, <2>4, RpcAssumption DEF Window, Shape
<1>. QED
  BY <1>4, <1>5, <1>7, <1>8, <1>10, <1>12, <1>13, <1>14

-----------------------------------------------------------------------------
(* An answer is counted.                                                   *)

\* Below the end of the node an index is the distance from its start.
LEMMA IndexBelow ==
  ASSUME NEW n \in Nat
  PROVE  /\ n < Slots => n % Slots = n
         /\ n = Slots => n % Slots = 0
  BY RpcAssumption

LEMMA CountCore ==
  ASSUME Core, NEW t \in Threads, PushCount(t)
  PROVE  Core'
<1>. USE DEF Core
<1>. DEFINE e == [req |-> mine[t].req, answer |-> mine[t].answer]
<1>a. Io \in Threads
  BY DEF Threads
<1>0. /\ UNCHANGED <<asked, tasks, client, nodes, first, last, offset, mine,
                     batch, sent>>
      /\ count' = count + 1 /\ queued' = Append(queued, e)
      /\ client = "open" /\ fate = "none"
      /\ Live' => mine[t].idx = Index /\ mine[t].fresh = Fresh
  BY DEF PushCount, OnClient, Live
<1>1. /\ at[t] = "count" /\ at'[t] = "fill"
      /\ \A u \in Threads : u # t => at'[u] = at[u]
      /\ at' \in [Threads -> {"idle"} \cup Pushing \cup Flushing]
  BY DEF Shape, PushCount, OnClient, Goto, Pushing
<1>2. Known(mine[t]) /\ mine[t].req \notin tasks
  BY <1>1 DEF Held, Holds
<1>3. e \in Entry /\ e.req = mine[t].req /\ e.answer = mine[t].answer
  <2>1. mine[t].req \in Nat /\ asked[mine[t].req] \in Asks
    BY <1>2, ElementOfSeq, LenProperties DEF Known, Shape, Mine
  <2>2. mine[t].answer \in SomeAnswer
    BY <1>2, <2>1 DEF Known, SomeAnswer
  <2>. QED
    BY <2>1, <2>2 DEF Entry
<1>. HIDE DEF e
<1>4. /\ queued' \in Seq(Entry) /\ Len(queued') = count + 1 /\ count \in Nat
      /\ DOMAIN queued = 1 .. count /\ DOMAIN queued' = 1 .. count + 1
      /\ queued'[count + 1] = e
      /\ \A i \in 1 .. count : queued'[i] = queued[i]
  <2>1. queued \in Seq(Entry) /\ Len(queued) = count
    BY DEF Shape, Counts
  <2>2. /\ queued' \in Seq(Entry) /\ Len(queued') = count + 1
        /\ queued'[count + 1] = e
        /\ \A i \in 1 .. count : queued'[i] = queued[i]
    BY <1>0, <1>3, <2>1, AppendProperties
  <2>. QED
    BY <2>1, <2>2, LenProperties
<1>5. Shape'
  BY <1>0, <1>1, <1>4 DEF Shape
<1>6. Clients'
  BY <1>0, <1>1, <1>a DEF Clients, Flushing
<1>7. first # 0
  BY <1>0, <1>1, EmptySeq, SMTT(30) DEF Places, Counts, Shape
<1>8. Counts'
  BY <1>0, <1>1, <1>4, <1>7, <1>a DEF Counts
<1>9. Places'
  BY <1>0, <1>1 DEF Places
<1>10. \A u \in Threads : Holds(u)' <=> Holds(u)
  BY <1>1 DEF Holds
<1>11. \A i : Done(i) <=> Done(i)'
  BY <1>0, <1>10 DEF Done
<1>12. Held' /\ InSlots'
  BY <1>0, <1>10, <1>11 DEF Held, InSlots, Known
<1>13. InSent'
  <2>1. \A k, j : Written(k, j)' <=> Written(k, j)
    BY <1>0, <1>1, <1>a DEF Written
  <2>2. Live
    BY <1>0 DEF Live
  <2>. QED
    BY <1>0, <1>11, <2>1, <2>2 DEF InSent, Known
<1>14. InQueue'
  <2>1. \A u \in Threads : Uncounted(u)' => Uncounted(u) /\ u # t
    BY <1>1 DEF Uncounted
  <2>2. ASSUME NEW i \in DOMAIN queued'
        PROVE  /\ Known(queued[i])' /\ queued'[i].req \notin tasks'
               /\ \A u \in Threads : Uncounted(u)' => mine'[u].req # queued'[i].req
    <3>1. CASE i \in 1 .. count
      BY <1>0, <1>4, <2>1, <3>1 DEF InQueue, Known
    <3>2. CASE i = count + 1
      <4>1. queued'[i].req = mine[t].req /\ queued'[i].answer = mine[t].answer
        BY <1>3, <1>4, <3>2
      <4>2. \A u \in Threads : Uncounted(u)' => mine[u].req # mine[t].req
        BY <1>1, <2>1 DEF Held, Holds, Uncounted
      <4>. QED
        BY <1>0, <1>2, <4>1, <4>2 DEF Known
    <3>. QED
      BY <1>4, <3>1, <3>2
  <2>3. \A i \in 1 .. count : queued[i].req # mine[t].req
    BY <1>1, <1>4 DEF InQueue, Uncounted
  <2>4. \A i, j \in DOMAIN queued' : queued'[i].req = queued'[j].req => i = j
    BY <1>3, <1>4, <2>3 DEF InQueue
  <2>. QED
    BY <2>2, <2>4 DEF InQueue
<1>15. Window'
  <2>. SUFFICES ASSUME Single' PROVE Window'
    BY DEF Window
  <2>0. Single /\ mine[t].idx = Index /\ ~Fresh /\ mine[t].node = first
    BY <1>0, <1>1 DEF Single, Live, Window
  <2>1. offset + count \in Nat /\ offset + count <= Slots /\ offset < Slots /\ offset \in Nat
    BY <2>0, RpcAssumption DEF Window, Shape
  <2>2. offset + count # Slots
    <3>. SUFFICES ASSUME offset + count = Slots PROVE FALSE
      OBVIOUS
    <3>1. Index = 0
      BY <2>1, IndexBelow DEF Index
    <3>2. count > 0
      BY <1>4, <2>1, RpcAssumption
    <3>. QED
      BY <2>0, <3>1, <3>2 DEF Fresh
  <2>3. mine[t].idx = offset + count /\ offset + count < Slots
    BY <2>0, <2>1, <2>2, IndexBelow, RpcAssumption DEF Index
  <2>4. nodes[first].slots[offset + count] = Nothing
    <3>1. offset + count \in 0 .. Slots - 1
      BY <1>4, <2>1, <2>3, RpcAssumption
    <3>2. offset + count \notin offset .. offset + count - 1
      BY <1>4, <2>1
    <3>. QED
      BY <2>0, <3>1, <3>2 DEF Window
  <2>c. PICK c \in Nat : c = count + 1
    BY <1>4
  <2>5. Fills(t, c)'
    <3>1. offset + c - 1 = offset + count
      BY <1>4, <2>1, <2>c
    <3>. QED
      BY <1>0, <1>1, <1>3, <1>4, <2>c, <2>3, <2>4, <3>1 DEF Fills
  <2>6. \A u \in Threads, i \in 1 .. count : Fills(u, i) => Fills(u, i)'
    BY <1>0, <1>1, <1>4 DEF Fills
  <2>7. Writing' = Writing /\ Writing \in 0 .. count
    BY <1>0, <1>1, <1>4, <1>a DEF Writing, Counts
  <2>8. \A i \in 1 .. count' : \/ nodes'[first'].slots[offset' + i - 1] = queued'[i]
                               \/ \E u \in Threads : Fills(u, i)'
    <3>1. ASSUME NEW i \in 1 .. count
          PROVE  \/ nodes'[first'].slots[offset' + i - 1] = queued'[i]
                 \/ \E u \in Threads : Fills(u, i)'
      BY <1>0, <1>4, <2>0, <2>6 DEF Window
    <3>. QED
      BY <1>0, <1>4, <2>c, <2>5, <3>1
  <2>9. ASSUME NEW u \in Threads, at'[u] = "fill"
        PROVE  \E i \in Writing' + 1 .. count' : Fills(u, i)'
    <3>1. CASE u = t
      <4>1. c \in Writing' + 1 .. count'
        BY <1>0, <1>4, <2>c, <2>7
      <4>. QED
        BY <2>5, <3>1, <4>1
    <3>2. CASE u # t
      <4>1. PICK i \in Writing + 1 .. count : Fills(u, i)
        BY <1>1, <2>0, <2>9, <3>2 DEF Window
      <4>2. i \in 1 .. count /\ i \in Writing' + 1 .. count'
        BY <1>0, <1>4, <2>7
      <4>. QED
        BY <2>6, <4>1, <4>2
    <3>. QED
      BY <3>1, <3>2
  <2>10. \A j \in 0 .. Slots - 1 :
           j \notin offset' .. offset' + count' - 1 => nodes'[first'].slots[j] = Nothing
    <3>1. ASSUME NEW j \in 0 .. Slots - 1, j \notin offset' .. offset' + count' - 1
          PROVE  j \notin offset .. offset + count - 1
      BY <1>0, <1>4, <2>1, <3>1
    <3>. QED
      BY <1>0, <2>0, <2>1, <3>1 DEF Window
  <2>11. \A u \in Threads : /\ at'[u] \in {"count", "fill"} => mine'[u].node = first'
                            /\ at'[u] = "count" => ~mine'[u].fresh
    BY <1>0, <1>1, <2>0 DEF Window
  <2>12. offset' + count' <= Slots
    BY <1>0, <1>4, <2>1, <2>3, RpcAssumption
  <2>. QED
    BY <2>8, <2>9, <2>10, <2>11, <2>12 DEF Window
<1>. QED
  BY <1>5, <1>6, <1>8, <1>9, <1>12, <1>13, <1>14, <1>15

-----------------------------------------------------------------------------
(* A slot is filled.                                                       *)

Filled(s, n, i, e) == [s EXCEPT ![n].slots[i] = e]

LEMMA FillNode ==
  ASSUME NEW s \in Seq(Node), NEW n \in 1 .. Len(s), NEW i \in 0 .. Slots - 1,
         NEW e \in Entry, NEW new, new = Filled(s, n, i, e)
  PROVE  /\ new \in Seq(Node) /\ Len(new) = Len(s) /\ DOMAIN new = DOMAIN s
         /\ new[n].slots[i] = e
         /\ \A k \in DOMAIN s, j \in 0 .. Slots - 1 :
              k # n \/ j # i => new[k].slots[j] = s[k].slots[j]
<1>. DEFINE nd == [s[n] EXCEPT !.slots = [@ EXCEPT ![i] = e]]
<1>0. DOMAIN s = 1 .. Len(s) /\ s[n] \in Node
  BY LenProperties, ElementOfSeq
<1>1. nd \in Node
  BY <1>0 DEF Node, Slot
<1>2. nd.slots[i] = e /\ \A j \in 0 .. Slots - 1 : j # i => nd.slots[j] = s[n].slots[j]
  BY <1>0 DEF Node
<1>3. [s EXCEPT ![n].slots[i] = e] = [s EXCEPT ![n] = nd]
  BY <1>0 DEF Node
<1>. HIDE DEF nd
<1>4. [s EXCEPT ![n] = nd] \in Seq(Node) /\ Len([s EXCEPT ![n] = nd]) = Len(s)
  BY <1>1, ExceptSeq
<1>5. DOMAIN [s EXCEPT ![n] = nd] = DOMAIN s
  OBVIOUS
<1>6. \A k \in DOMAIN s, j \in 0 .. Slots - 1 :
        k # n \/ j # i => [s EXCEPT ![n] = nd][k].slots[j] = s[k].slots[j]
  BY <1>0, <1>2
<1>7. [s EXCEPT ![n] = nd][n].slots[i] = e
  BY <1>0, <1>2
<1>8. new = [s EXCEPT ![n] = nd]
  BY <1>3 DEF Filled
<1>. QED
  BY <1>4, <1>5, <1>6, <1>7, <1>8

LEMMA FillCore ==
  ASSUME Core, NEW t \in Threads, PushFill(t)
  PROVE  Core'
<1>. USE DEF Core
<1>a. Io \in Threads
  BY DEF Threads
<1>0. /\ UNCHANGED <<asked, tasks, client, first, last, count, offset, mine,
                     batch, sent, queued, fate>>
      /\ client = "open"
  BY DEF PushFill, OnClient
<1>1. /\ at[t] = "fill" /\ at'[t] = "wake"
      /\ \A u \in Threads : u # t => at'[u] = at[u]
      /\ at' \in [Threads -> {"idle"} \cup Pushing \cup Flushing]
  BY DEF Shape, PushFill, OnClient, Goto, Pushing
<1>2. Known(mine[t]) /\ mine[t].req \notin tasks /\ Holds(t)
  BY <1>1 DEF Held, Holds
<1>b. PICK n \in 1 .. Len(nodes), i0 \in 0 .. Slots - 1 :
        n = mine[t].node /\ i0 = mine[t].idx
  BY <1>0, <1>1 DEF Places
<1>c. PICK e \in Entry :
        /\ e = [req |-> mine[t].req, answer |-> mine[t].answer]
        /\ e.req = mine[t].req /\ e.answer = mine[t].answer
  <2>1. mine[t].req \in Nat /\ asked[mine[t].req] \in Asks
    BY <1>2, ElementOfSeq, LenProperties DEF Known, Shape, Mine
  <2>2. mine[t].answer \in SomeAnswer
    BY <1>2, <2>1 DEF Known, SomeAnswer
  <2>3. [req |-> mine[t].req, answer |-> mine[t].answer] \in Entry
    BY <2>1, <2>2 DEF Entry
  <2>. QED
    BY <2>3
<1>3. /\ nodes' \in Seq(Node) /\ Len(nodes') = Len(nodes) /\ DOMAIN nodes' = DOMAIN nodes
      /\ nodes'[n].slots[i0] = e
      /\ \A k \in DOMAIN nodes, j \in 0 .. Slots - 1 :
           k # n \/ j # i0 => nodes'[k].slots[j] = nodes[k].slots[j]
  <2>1. nodes' = [nodes EXCEPT ![n].slots[i0] = e]
    BY <1>b, <1>c DEF PushFill
  <2>2. PICK s, new : s \in Seq(Node) /\ s = nodes /\ new = nodes'
    BY DEF Shape
  <2>3. n \in 1 .. Len(s) /\ new = Filled(s, n, i0, e)
    BY <2>1, <2>2 DEF Filled
  <2>. QED
    BY <2>2, <2>3, FillNode
<1>4. Shape'
  BY <1>0, <1>1, <1>3 DEF Shape
<1>5. Clients'
  BY <1>0, <1>1, <1>a DEF Clients, Flushing
<1>6. Counts'
  BY <1>0, <1>1, <1>3, <1>a, EmptySeq DEF Counts, Shape
<1>7. Places'
  BY <1>0, <1>1, <1>3 DEF Places
<1>8. \A u \in Threads : /\ Holds(u)' <=> Holds(u) /\ u # t
                         /\ Uncounted(u)' => Uncounted(u)
  BY <1>1 DEF Holds, Uncounted
<1>9. \A i : Done(i) => Done(i)' /\ i # mine[t].req
  BY <1>0, <1>2, <1>8 DEF Done
<1>10. Held' /\ InQueue'
  BY <1>0, <1>8 DEF Held, InQueue, Known
<1>11. Done(e.req)'
  <2>1. \A u \in Threads : Holds(u) /\ u # t => mine[u].req # e.req
    BY <1>2, <1>c DEF Held
  <2>2. mine' = mine /\ tasks' = tasks
    BY <1>0
  <2>. QED
    BY <1>2, <1>8, <1>c, <2>1, <2>2 DEF Done
<1>12. InSlots'
  <2>1. \A k \in DOMAIN nodes', j \in 0 .. Slots - 1 :
          nodes'[k].slots[j] # Nothing =>
            Known(nodes[k].slots[j])' /\ Done(nodes[k].slots[j].req)'
    <3>. SUFFICES ASSUME NEW k \in DOMAIN nodes', NEW j \in 0 .. Slots - 1,
                         nodes'[k].slots[j] # Nothing
                  PROVE  Known(nodes[k].slots[j])' /\ Done(nodes[k].slots[j].req)'
      OBVIOUS
    <3>1. CASE k = n /\ j = i0
      BY <1>0, <1>2, <1>3, <1>c, <1>11, <3>1 DEF Known
    <3>2. CASE k # n \/ j # i0
      <4>1. nodes'[k].slots[j] = nodes[k].slots[j] /\ k \in DOMAIN nodes
        BY <1>3, <3>2
      <4>2. PICK s : s = nodes[k].slots[j]
        OBVIOUS
      <4>3. Known(s) /\ Done(s.req)
        BY <4>1, <4>2 DEF InSlots
      <4>. QED
        BY <1>0, <1>9, <4>1, <4>2, <4>3 DEF Known
    <3>. QED
      BY <3>1, <3>2
  <2>2. \A k \in DOMAIN nodes, j \in 0 .. Slots - 1 :
          nodes[k].slots[j] # Nothing => nodes[k].slots[j].req # e.req
    BY <1>9, <1>c DEF InSlots
  <2>3. ASSUME NEW k \in DOMAIN nodes', NEW l \in DOMAIN nodes',
               NEW i \in 0 .. Slots - 1, NEW j \in 0 .. Slots - 1,
               nodes'[k].slots[i] # Nothing, nodes'[l].slots[j] # Nothing,
               nodes'[k].slots[i].req = nodes'[l].slots[j].req
        PROVE  k = l /\ i = j
    <3>1. CASE (k = n /\ i = i0) \/ (l = n /\ j = i0)
      BY <1>3, <2>2, <2>3, <3>1
    <3>2. CASE (k # n \/ i # i0) /\ (l # n \/ j # i0)
      BY <1>3, <2>3, <3>2 DEF InSlots
    <3>. QED
      BY <3>1, <3>2
  <2>. QED
    BY <2>1, <2>3 DEF InSlots
<1>13. InSent'
  <2>1. \A i \in DOMAIN sent : Known(sent[i])' /\ Done(sent[i].req)'
    BY <1>0, <1>9 DEF InSent, Known
  <2>2. \A k, j : Written(k, j)' <=> Written(k, j)
    BY <1>0, <1>1, <1>a DEF Written
  <2>3. \A i \in DOMAIN sent : sent[i].req # e.req
    BY <1>9, <1>c DEF InSent
  <2>4. ASSUME Live', NEW i \in DOMAIN sent', NEW k \in DOMAIN nodes',
               NEW j \in 0 .. Slots - 1,
               nodes'[k].slots[j] # Nothing, ~Written(k, j)'
        PROVE  nodes'[k].slots[j].req # sent'[i].req
    <3>1. CASE k = n /\ j = i0
      BY <1>0, <1>3, <2>3, <3>1
    <3>2. CASE k # n \/ j # i0
      BY <1>0, <1>3, <2>2, <2>4, <3>2 DEF InSent, Live
    <3>. QED
      BY <3>1, <3>2
  <2>. QED
    BY <1>0, <2>1, <2>4 DEF InSent
<1>14. Window'
  <2>. SUFFICES ASSUME Single' PROVE Window'
    BY DEF Window
  <2>0. Single /\ n = first /\ first \in DOMAIN nodes
    BY <1>0, <1>1, <1>b, LenProperties DEF Single, Live, Window, Shape
  <2>1. PICK i \in Writing + 1 .. count : Fills(t, i)
    BY <1>1, <2>0 DEF Window
  <2>2. offset \in 0 .. Slots - 1 /\ count \in Nat /\ offset + count <= Slots
    BY <2>0 DEF Window, Shape
  <2>3. Writing' = Writing /\ Writing \in 0 .. count
    BY <1>0, <1>1, <1>a, SMTT(30) DEF Writing, Counts, Shape
  <2>4. i \in 1 .. count /\ i0 = offset + i - 1
    BY <1>b, <2>1, <2>2, <2>3 DEF Fills
  <2>5. queued[i] = e
    <3>1. queued[i] \in Entry
      BY <2>4, ElementOfSeq DEF Counts, Shape
    <3>2. queued[i].req = e.req /\ queued[i].answer = e.answer
      BY <1>c, <2>1 DEF Fills
    <3>. QED
      BY <1>c, <3>1, <3>2 DEF Entry
  <2>6. \A j \in 1 .. count : j # i =>
          nodes'[first].slots[offset + j - 1] = nodes[first].slots[offset + j - 1]
    <3>1. \A j \in 1 .. count : j # i =>
            offset + j - 1 \in 0 .. Slots - 1 /\ offset + j - 1 # i0
      BY <2>2, <2>4, RpcAssumption
    <3>. QED
      BY <1>3, <2>0, <3>1
  <2>7. ASSUME NEW u \in Threads, u # t, NEW j \in 1 .. count, Fills(u, j)
        PROVE  j # i /\ Fills(u, j)'
    <3>1. j # i
      BY <1>1, <2>1, <2>7 DEF Fills, Held, Holds
    <3>2. nodes'[first].slots[offset + j - 1] = Nothing
      BY <2>6, <2>7, <3>1 DEF Fills
    <3>. QED
      BY <1>0, <1>1, <2>7, <3>1, <3>2 DEF Fills
  <2>8. ASSUME NEW j \in 1 .. count'
        PROVE  \/ nodes'[first'].slots[offset' + j - 1] = queued'[j]
               \/ \E u \in Threads : Fills(u, j)'
    <3>1. CASE j = i
      BY <1>0, <1>3, <2>0, <2>4, <2>5, <3>1
    <3>2. CASE j # i /\ nodes[first].slots[offset + j - 1] = queued[j]
      BY <1>0, <2>6, <3>2
    <3>3. ASSUME j # i, NEW u \in Threads, Fills(u, j)
          PROVE  \E v \in Threads : Fills(v, j)'
      <4>0. j \in Int /\ i \in Int /\ offset \in Int
        BY <2>2, <2>4
      <4>a. mine[u].idx = offset + j - 1
        BY <3>3 DEF Fills
      <4>b. mine[t].idx = offset + i - 1
        BY <2>1 DEF Fills
      <4>c. offset + j - 1 # offset + i - 1
        BY <3>3, <4>0
      <4>1. u # t
        BY <4>a, <4>b, <4>c
      <4>. QED
        BY <1>0, <2>7, <3>3, <4>1
    <3>. QED
      BY <1>0, <2>0, <3>1, <3>2, <3>3 DEF Window
  <2>9. ASSUME NEW u \in Threads, at'[u] = "fill"
        PROVE  \E j \in Writing' + 1 .. count' : Fills(u, j)'
    <3>1. u # t /\ at[u] = "fill"
      BY <1>1, <2>9
    <3>2. PICK j \in Writing + 1 .. count : Fills(u, j)
      BY <2>0, <3>1 DEF Window
    <3>3. j \in 1 .. count
      BY <2>2, <2>3
    <3>. QED
      BY <1>0, <2>3, <2>7, <3>1, <3>2, <3>3
  <2>10. \A j \in 0 .. Slots - 1 :
           j \notin offset' .. offset' + count' - 1 => nodes'[first'].slots[j] = Nothing
    <3>1. i0 \in offset .. offset + count - 1
      BY <2>2, <2>4
    <3>. QED
      BY <1>0, <1>3, <2>0, <3>1 DEF Window
  <2>11. \A u \in Threads : /\ at'[u] \in {"count", "fill"} => mine'[u].node = first'
                            /\ at'[u] = "count" => ~mine'[u].fresh
    BY <1>0, <1>1, <2>0 DEF Window
  <2>12. offset' + count' <= Slots
    BY <1>0, <2>2
  <2>. QED
    BY <2>8, <2>9, <2>10, <2>11, <2>12 DEF Window
<1>. QED
  BY <1>4, <1>5, <1>6, <1>7, <1>10, <1>12, <1>13, <1>14

-----------------------------------------------------------------------------
(* What is gathered is written.                                            *)

LEMMA WrittenCore ==
  ASSUME Core, Live, at[Io] = "gather",
         NEW n, n = mine[Io].idx, offset + n <= Slots,
         NEW G, G = Gathered(n), Nothing \notin ToSet(G),
         sent' = sent \o G, batch' = G, at' = [at EXCEPT ![Io] = "settle"],
         UNCHANGED <<asked, tasks, client, nodes, first, last, count, offset,
                     mine, queued, fate>>
  PROVE  Core'
<1>. USE DEF Core
<1>a. Io \in Threads
  BY DEF Threads
<1>0. n \in 1 .. count /\ count \in Nat /\ n \in Nat
  BY DEF Counts, Shape
<1>1. /\ at'[Io] = "settle" /\ \A u \in Threads : u # Io => at'[u] = at[u]
      /\ at' \in [Threads -> {"idle"} \cup Pushing \cup Flushing]
  BY <1>a DEF Shape, Flushing
<1>2. first \in DOMAIN nodes /\ nodes[first] \in Node
  <2>1. first \in 1 .. Len(nodes)
    BY <1>0, LenProperties DEF Counts, Shape
  <2>. QED
    BY <2>1, LenProperties, ElementOfSeq DEF Shape
<1>3. /\ DOMAIN G = 1 .. n
      /\ \A i \in 1 .. n : /\ offset + i - 1 \in 0 .. Slots - 1
                           /\ G[i] = nodes[first].slots[offset + i - 1]
                           /\ G[i] # Nothing /\ G[i] \in Entry
  <2>1. DOMAIN G = 1 .. n /\ \A i \in 1 .. n : G[i] = nodes[first].slots[offset + i - 1]
    BY DEF Gathered
  <2>2. \A i \in 1 .. n : G[i] # Nothing
    BY <2>1 DEF ToSet
  <2>a. offset \in Nat /\ Slots \in Nat
    BY RpcAssumption DEF Shape
  <2>3. \A i \in 1 .. n : offset + i - 1 \in 0 .. Slots - 1
    BY <1>0, <2>a, SMTT(30)
  <2>4. \A j \in 0 .. Slots - 1 : nodes[first].slots[j] \in Entry \cup {Nothing}
    BY <1>2 DEF Node, Slot
  <2>. QED
    BY <2>1, <2>2, <2>3, <2>4
<1>4. G \in Seq(Entry) /\ Len(G) = n
  <2>1. G = [i \in 1 .. n |-> nodes[first].slots[offset + i - 1]]
    BY DEF Gathered
  <2>2. \A i \in 1 .. n : nodes[first].slots[offset + i - 1] \in Entry
    BY <1>3
  <2>4. G \in Seq(Entry)
    BY <1>0, <2>1, <2>2, SMTT(60)
  <2>. QED
    BY <1>0, <1>3, <2>4, LenProperties
<1>5. /\ sent' \in Seq(Entry) /\ Len(sent) \in Nat
      /\ DOMAIN sent = 1 .. Len(sent) /\ DOMAIN sent' = 1 .. Len(sent) + n
      /\ \A i \in 1 .. Len(sent) : sent'[i] = sent[i]
      /\ \A i \in 1 .. Len(sent) + n : i \notin 1 .. Len(sent) =>
           \E m \in 1 .. n : i = Len(sent) + m /\ sent'[i] = G[m]
  <2>1. sent \in Seq(Entry) /\ Len(sent) \in Nat /\ DOMAIN sent = 1 .. Len(sent)
    BY LenProperties DEF Shape
  <2>2. /\ sent' \in Seq(Entry) /\ Len(sent') = Len(sent) + n
        /\ \A i \in 1 .. Len(sent) + n :
             sent'[i] = IF i <= Len(sent) THEN sent[i] ELSE G[i - Len(sent)]
    BY <1>4, <2>1, ConcatProperties
  <2>3. DOMAIN sent' = 1 .. Len(sent) + n
    BY <2>2, LenProperties
  <2>4. \A i \in 1 .. Len(sent) : sent'[i] = sent[i]
    BY <1>0, <2>1, <2>2
  <2>5. ASSUME NEW i \in 1 .. Len(sent) + n, i \notin 1 .. Len(sent)
        PROVE  \E m \in 1 .. n : i = Len(sent) + m /\ sent'[i] = G[m]
    <3>1. i - Len(sent) \in 1 .. n /\ ~(i <= Len(sent)) /\ i = Len(sent) + (i - Len(sent))
      BY <1>0, <2>1, <2>5
    <3>. QED
      BY <2>2, <3>1
  <2>. QED
    BY <2>1, <2>2, <2>3, <2>4, <2>5
<1>6. Shape'
  BY <1>1, <1>4, <1>5 DEF Shape
<1>7. Clients'
  BY <1>1, <1>a DEF Clients, Flushing
<1>8. Counts'
  BY <1>0, <1>1, <1>4 DEF Counts
<1>9. Places'
  BY <1>1 DEF Places
<1>10. \A u \in Threads : (Holds(u)' <=> Holds(u)) /\ (Uncounted(u)' <=> Uncounted(u))
  BY <1>1 DEF Holds, Uncounted
<1>11. Held' /\ InQueue'
  BY <1>10 DEF Held, InQueue, Known
<1>12. \A i : Done(i)' <=> Done(i)
  BY <1>10 DEF Done
<1>13. InSlots'
  BY <1>12 DEF InSlots, Known
<1>14. \A i \in 1 .. n : Known(G[i]) /\ Done(G[i].req)
  <2>1. ASSUME NEW i \in 1 .. n PROVE Known(G[i]) /\ Done(G[i].req)
    <3>1. PICK j \in 0 .. Slots - 1 : G[i] = nodes[first].slots[j] /\ G[i] # Nothing
      BY <1>3
    <3>. QED
      BY <1>2, <3>1 DEF InSlots
  <2>. QED
    BY <2>1
<1>15. \A i, j \in 1 .. n : G[i].req = G[j].req => i = j
  <2>1. ASSUME NEW i \in 1 .. n, NEW j \in 1 .. n, G[i].req = G[j].req PROVE i = j
    <3>1. PICK k, l \in 0 .. Slots - 1 :
            /\ k = offset + i - 1 /\ l = offset + j - 1
            /\ G[i] = nodes[first].slots[k] /\ G[i] # Nothing
            /\ G[j] = nodes[first].slots[l] /\ G[j] # Nothing
      BY <1>3
    <3>2. k = l
      BY <1>2, <2>1, <3>1 DEF InSlots
    <3>3. offset \in Nat
      BY DEF Shape
    <3>. QED
      BY <1>0, <3>1, <3>2, <3>3
  <2>. QED
    BY <2>1
<1>b. \A i \in DOMAIN sent, k \in DOMAIN nodes, j \in 0 .. Slots - 1 :
        nodes[k].slots[j] # Nothing => nodes[k].slots[j].req # sent[i].req
  <2>1. \A k, j : ~Written(k, j)
    BY DEF Written
  <2>. QED
    BY <2>1 DEF InSent
<1>16. \A i \in 1 .. Len(sent), j \in 1 .. n : sent[i].req # G[j].req
  <2>. QED
    <3>. SUFFICES ASSUME NEW i \in 1 .. Len(sent), NEW j \in 1 .. n
                  PROVE  sent[i].req # G[j].req
      OBVIOUS
    <3>1. PICK m \in 0 .. Slots - 1 : G[j] = nodes[first].slots[m] /\ G[j] # Nothing
      BY <1>3
    <3>. QED
      BY <1>2, <1>5, <1>b, <3>1
<1>17. InSent'
  <2>1. ASSUME NEW i \in DOMAIN sent'
        PROVE  Known(sent[i])' /\ Done(sent[i].req)'
    <3>1. CASE i \in 1 .. Len(sent)
      BY <1>5, <1>12, <3>1 DEF InSent, Known
    <3>2. CASE i \notin 1 .. Len(sent)
      <4>1. PICK m \in 1 .. n : i = Len(sent) + m /\ sent'[i] = G[m]
        BY <1>5, <3>2
      <4>2. Known(G[m]) /\ Done(G[m].req)
        BY <1>14
      <4>. QED
        BY <1>12, <4>1, <4>2 DEF Known
    <3>. QED
      BY <3>1, <3>2
  <2>2. ASSUME NEW i \in DOMAIN sent', NEW j \in DOMAIN sent',
               sent'[i].req = sent'[j].req
        PROVE  i = j
    <3>1. CASE i \in 1 .. Len(sent) /\ j \in 1 .. Len(sent)
      BY <1>5, <2>2, <3>1 DEF InSent
    <3>2. CASE i \notin 1 .. Len(sent) /\ j \notin 1 .. Len(sent)
      <4>1. PICK m \in 1 .. n : i = Len(sent) + m /\ sent'[i] = G[m]
        BY <1>5, <3>2
      <4>2. PICK l \in 1 .. n : j = Len(sent) + l /\ sent'[j] = G[l]
        BY <1>5, <3>2
      <4>3. m = l
        BY <1>15, <2>2, <4>1, <4>2
      <4>. QED
        BY <4>1, <4>2, <4>3
    <3>3. CASE i \in 1 .. Len(sent) /\ j \notin 1 .. Len(sent)
      <4>1. PICK l \in 1 .. n : j = Len(sent) + l /\ sent'[j] = G[l]
        BY <1>5, <3>3
      <4>2. sent'[i] = sent[i]
        BY <1>5, <3>3
      <4>3. sent[i].req # G[l].req
        BY <1>16, <3>3
      <4>. QED
        BY <2>2, <4>1, <4>2, <4>3
    <3>4. CASE i \notin 1 .. Len(sent) /\ j \in 1 .. Len(sent)
      <4>1. PICK l \in 1 .. n : i = Len(sent) + l /\ sent'[i] = G[l]
        BY <1>5, <3>4
      <4>2. sent'[j] = sent[j]
        BY <1>5, <3>4
      <4>3. sent[j].req # G[l].req
        BY <1>16, <3>4
      <4>. QED
        BY <2>2, <4>1, <4>2, <4>3
    <3>. QED
      BY <3>1, <3>2, <3>3, <3>4
  <2>3. ASSUME NEW i \in DOMAIN sent', NEW k \in DOMAIN nodes', NEW j \in 0 .. Slots - 1,
               nodes'[k].slots[j] # Nothing, ~Written(k, j)'
        PROVE  nodes'[k].slots[j].req # sent'[i].req
    <3>1. k # first \/ j \notin offset .. offset + n - 1
      BY <1>1, <1>4, <2>3 DEF Written
    <3>2. CASE i \in 1 .. Len(sent)
      BY <1>5, <1>b, <2>3, <3>2
    <3>3. CASE i \notin 1 .. Len(sent)
      <4>1. PICK m \in 1 .. n : sent'[i] = nodes[first].slots[offset + m - 1]
                                /\ sent'[i] # Nothing /\ offset + m - 1 \in 0 .. Slots - 1
        <5>1. PICK m \in 1 .. n : i = Len(sent) + m /\ sent'[i] = G[m]
          BY <1>5, <3>3
        <5>. QED
          BY <1>3, <5>1
      <4>a. offset \in Nat /\ n \in Nat
        BY <1>0 DEF Shape
      <4>2. offset + m - 1 \in offset .. offset + n - 1
        BY <4>a, SMTT(30)
      <4>. QED
        BY <1>2, <2>3, <3>1, <4>1, <4>2 DEF InSlots
    <3>. QED
      BY <3>2, <3>3
  <2>4. \A i \in DOMAIN sent', k \in DOMAIN nodes', j \in 0 .. Slots - 1 :
          nodes'[k].slots[j] # Nothing /\ ~Written(k, j)' =>
            nodes'[k].slots[j].req # sent'[i].req
    BY <2>3
  <2>5. \A i, j \in DOMAIN sent' : sent'[i].req = sent'[j].req => i = j
    BY <2>2
  <2>. QED
    BY <2>1, <2>4, <2>5 DEF InSent
<1>18. Window'
  <2>. SUFFICES ASSUME Single' PROVE Window'
    BY DEF Window
  <2>0. Single /\ Writing = 0 /\ Writing' = n
    BY <1>1, <1>4 DEF Single, Live, Writing
  <2>1. \A u \in Threads : \A i : Fills(u, i)' <=> Fills(u, i)
    BY <1>1 DEF Fills
  <2>2. ASSUME NEW u \in Threads, at'[u] = "fill"
        PROVE  \E i \in Writing' + 1 .. count' : Fills(u, i)'
    <3>1. at[u] = "fill"
      BY <1>1, <2>2
    <3>2. PICK i \in 1 .. count : Fills(u, i)
      BY <2>0, <3>1 DEF Window
    <3>3. i \notin 1 .. n
      BY <1>3, <3>2 DEF Fills
    <3>4. i \in Writing' + 1 .. count'
      BY <1>0, <2>0, <3>3
    <3>. QED
      BY <2>1, <3>2, <3>4
  <2>3. \A u \in Threads : at'[u] \in {"count", "fill"} => at'[u] = at[u]
    BY <1>1
  <2>. QED
    BY <2>0, <2>1, <2>2, <2>3 DEF Window
<1>. QED
  BY <1>6, <1>7, <1>8, <1>9, <1>11, <1>13, <1>17, <1>18

LEMMA FlushWriteCore ==
  ASSUME Core, FlushWrite
  PROVE  Core'
<1>. DEFINE n == mine[Io].idx
<1>0. client = "open" /\ at[Io] = "gather" /\ Live
  BY DEF FlushWrite, Core, Clients, Flushing
<1>1. CASE /\ fate' # "none"
           /\ UNCHANGED <<connection, at, batch, sent, queued>>
           /\ UNCHANGED <<asked, tasks, server, mine>>
  BY <1>1, QuietCore DEF core, connection
<1>2. CASE /\ offset + n <= Slots
           /\ Nothing \notin ToSet(Gathered(n))
           /\ sent' = sent \o Gathered(n)
           /\ batch' = Gathered(n)
           /\ Goto(Io, "settle")
           /\ UNCHANGED <<connection, queued, fate>>
           /\ UNCHANGED <<asked, tasks, server, mine>>
  <2>1. PICK m, G : m = n /\ G = Gathered(n)
    OBVIOUS
  <2>. HIDE DEF n
  <2>2. m = mine[Io].idx
    BY <2>1 DEF n
  <2>. QED
    BY <1>0, <1>2, <2>1, <2>2, WrittenCore DEF connection, Goto
<1>3. CASE /\ CloseClient
           /\ Goto(Io, "idle")
           /\ UNCHANGED <<batch, sent, fate>>
           /\ UNCHANGED <<asked, tasks, server, mine>>
  BY <1>0, <1>3, CloseCore DEF Goto
<1>. QED
  BY <1>1, <1>2, <1>3 DEF FlushWrite, Meets

-----------------------------------------------------------------------------
(* What was written is settled.                                            *)

LEMMA SettleNode ==
  ASSUME NEW s \in Seq(Node), NEW k \in 1 .. Len(s), NEW n \in Nat, NEW new,
         new = Settled(s[k], n)
  PROVE  /\ new \in Node
         /\ \A j \in 0 .. Slots - 1 :
              new.slots[j] = IF j \in offset .. offset + n - 1 THEN Nothing
                             ELSE s[k].slots[j]
<1>1. s[k] \in Node
  BY ElementOfSeq
<1>2. DOMAIN s[k].slots = 0 .. Slots - 1
  BY <1>1 DEF Node
<1>3. new = [s[k] EXCEPT !.slots =
               [i \in 0 .. Slots - 1 |->
                  IF i \in offset .. offset + n - 1 THEN Nothing ELSE s[k].slots[i]]]
  BY <1>1, <1>2 DEF Settled, Node
<1>. DEFINE f == [i \in 0 .. Slots - 1 |->
                    IF i \in offset .. offset + n - 1 THEN Nothing ELSE s[k].slots[i]]
<1>4. f \in [0 .. Slots - 1 -> Slot]
  BY <1>1 DEF Node, Slot
<1>5. \A j \in 0 .. Slots - 1 :
        f[j] = IF j \in offset .. offset + n - 1 THEN Nothing ELSE s[k].slots[j]
  OBVIOUS
<1>6. new = [s[k] EXCEPT !.slots = f]
  BY <1>3
<1>. HIDE DEF f
<1>7. new \in Node /\ new.slots = f
  BY <1>1, <1>4, <1>6 DEF Node
<1>. QED
  BY <1>5, <1>7

LEMMA SettleCore ==
  ASSUME Core, FlushSettle
  PROVE  Core'
<1>. USE DEF Core
<1>a. Io \in Threads
  BY DEF Threads
<1>n. PICK n \in Nat : n = Len(batch)
  BY LenProperties DEF Shape
<1>0. /\ UNCHANGED <<asked, tasks, client, first, last, mine, sent, fate>>
      /\ offset' = (offset + n) % Slots /\ count' = count - n
      /\ batch' = <<>> /\ queued' = SubSeq(queued, n + 1, Len(queued))
      /\ at[Io] = "settle" /\ Live
  BY <1>n DEF FlushSettle, NextOffset
<1>1. /\ at'[Io] = "recount" /\ \A u \in Threads : u # Io => at'[u] = at[u]
      /\ at' \in [Threads -> {"idle"} \cup Pushing \cup Flushing]
  BY <1>a DEF Shape, Flushing, FlushSettle, Goto
<1>2. /\ n \in 1 .. count /\ count \in Nat /\ offset + n <= Slots
      /\ offset \in 0 .. Slots - 1 /\ count = Len(queued)
  BY <1>0, <1>n DEF Counts, Shape
<1>3. first \in 1 .. Len(nodes) /\ first \in DOMAIN nodes /\ DOMAIN nodes = 1 .. Len(nodes)
  <2>1. first # 0 /\ first \in 0 .. Len(nodes)
    BY <1>2 DEF Counts, Shape
  <2>. QED
    BY <2>1, LenProperties DEF Shape
<1>4. /\ nodes' \in Seq(Node) /\ Len(nodes') = Len(nodes) /\ DOMAIN nodes' = DOMAIN nodes
      /\ \A k \in DOMAIN nodes : k # first => nodes'[k] = nodes[k]
      /\ \A j \in 0 .. Slots - 1 :
           nodes'[first].slots[j] = IF j \in offset .. offset + n - 1 THEN Nothing
                                    ELSE nodes[first].slots[j]
  <2>1. PICK nd : nd = Settled(nodes[first], n)
    OBVIOUS
  <2>2. nodes' = [nodes EXCEPT ![first] = nd]
    BY <1>n, <2>1 DEF FlushSettle
  <2>3. nd \in Node /\ \A j \in 0 .. Slots - 1 :
          nd.slots[j] = IF j \in offset .. offset + n - 1 THEN Nothing
                        ELSE nodes[first].slots[j]
    <3>0. PICK s \in Seq(Node) : s = nodes
      BY DEF Shape
    <3>1. PICK k \in 1 .. Len(s) : s = nodes /\ k = first
      BY <1>3, <3>0
    <3>2. nd = Settled(s[k], n)
      BY <2>1, <3>1
    <3>3. nd \in Node /\ \A j \in 0 .. Slots - 1 :
            nd.slots[j] = IF j \in offset .. offset + n - 1 THEN Nothing
                          ELSE s[k].slots[j]
      BY <3>2, SettleNode
    <3>. QED
      BY <3>1, <3>3
  <2>4. nodes' \in Seq(Node) /\ Len(nodes') = Len(nodes)
    BY <1>3, <2>2, <2>3, ExceptSeq DEF Shape
  <2>. QED
    BY <1>3, <2>2, <2>3, <2>4
<1>5. /\ queued' \in Seq(Entry) /\ Len(queued') = count - n
      /\ DOMAIN queued = 1 .. count /\ DOMAIN queued' = 1 .. count - n
      /\ \A i \in 1 .. count - n : queued'[i] = queued[i + n] /\ i + n \in 1 .. count
  <2>1. queued \in Seq(Entry) /\ n + 1 \in 1 .. Len(queued) + 1
    BY <1>2 DEF Shape
  <2>2. /\ queued' \in Seq(Entry) /\ Len(queued') = count - n
        /\ \A i \in 1 .. count - n : queued'[i] = queued[n + 1 + i - 1]
    BY <1>0, <1>2, <2>1, SubSeqProperties
  <2>3. \A i \in 1 .. count - n : n + 1 + i - 1 = i + n /\ i + n \in 1 .. count
    BY <1>2
  <2>. QED
    BY <1>2, <2>1, <2>2, <2>3, LenProperties
<1>6. offset' \in 0 .. Slots - 1 /\ count' \in Nat
  <2>1. offset + n \in Nat
    BY <1>2
  <2>. QED
    BY <1>0, <1>2, <2>1, IndexRange
<1>7. Shape'
  BY <1>0, <1>1, <1>4, <1>5, <1>6, EmptySeq DEF Shape
<1>8. Clients'
  BY <1>0, <1>1, <1>a DEF Clients, Flushing
<1>9. Counts'
  BY <1>0, <1>1, <1>2, <1>3, <1>4, <1>5, <1>6, <1>a, EmptySeq DEF Counts, Shape
<1>10. Places'
  BY <1>0, <1>1, <1>4 DEF Places
<1>11. \A u \in Threads : (Holds(u)' <=> Holds(u)) /\ (Uncounted(u)' <=> Uncounted(u))
  BY <1>0, <1>1 DEF Holds, Uncounted
<1>12. Held'
  BY <1>0, <1>11 DEF Held, Known
<1>13. \A i : Done(i)' <=> Done(i)
  BY <1>0, <1>11 DEF Done
<1>14. \A k \in DOMAIN nodes', j \in 0 .. Slots - 1 :
         nodes'[k].slots[j] # Nothing =>
           /\ nodes'[k].slots[j] = nodes[k].slots[j]
           /\ k # first \/ j \notin offset .. offset + n - 1
  BY <1>4
<1>15. InSlots'
  <2>1. ASSUME NEW k \in DOMAIN nodes', NEW j \in 0 .. Slots - 1,
               nodes'[k].slots[j] # Nothing
        PROVE  Known(nodes[k].slots[j])' /\ Done(nodes[k].slots[j].req)'
    <3>1. PICK s : s = nodes[k].slots[j] /\ s = nodes'[k].slots[j]
      BY <1>14, <2>1
    <3>2. Known(s) /\ Done(s.req)
      BY <1>4, <2>1, <3>1 DEF InSlots
    <3>. QED
      BY <1>0, <1>13, <3>1, <3>2 DEF Known
  <2>2. \A k, l \in DOMAIN nodes', i, j \in 0 .. Slots - 1 :
          /\ nodes'[k].slots[i] # Nothing /\ nodes'[l].slots[j] # Nothing
          /\ nodes'[k].slots[i].req = nodes'[l].slots[j].req
          => k = l /\ i = j
    BY <1>4, <1>14 DEF InSlots
  <2>. QED
    BY <2>1, <2>2 DEF InSlots
<1>16. InSent'
  <2>1. \A k, j : Written(k, j) => k = first /\ j \in offset .. offset + n - 1
    BY <1>n DEF Written
  <2>2. \A i \in DOMAIN sent : Known(sent[i])' /\ Done(sent[i].req)'
    BY <1>0, <1>13 DEF InSent, Known
  <2>3. \A i \in DOMAIN sent, k \in DOMAIN nodes', j \in 0 .. Slots - 1 :
          nodes'[k].slots[j] # Nothing => nodes'[k].slots[j].req # sent[i].req
    <3>1. ASSUME NEW i \in DOMAIN sent, NEW k \in DOMAIN nodes', NEW j \in 0 .. Slots - 1,
                 nodes'[k].slots[j] # Nothing
          PROVE  nodes'[k].slots[j].req # sent[i].req
      <4>1. /\ k \in DOMAIN nodes /\ nodes'[k].slots[j] = nodes[k].slots[j]
            /\ k # first \/ j \notin offset .. offset + n - 1
        BY <1>4, <1>14, <3>1
      <4>2. ~Written(k, j)
        BY <2>1, <4>1
      <4>. QED
        BY <1>0, <3>1, <4>1, <4>2 DEF InSent
    <3>. QED
      BY <3>1
  <2>. QED
    BY <1>0, <2>2, <2>3 DEF InSent
<1>17. InQueue'
  <2>1. \A i \in DOMAIN queued' :
          /\ Known(queued[i])' /\ queued'[i].req \notin tasks'
          /\ \A u \in Threads : Uncounted(u)' => mine'[u].req # queued'[i].req
    BY <1>0, <1>5, <1>11, SMTT(30) DEF InQueue, Known
  <2>2. ASSUME NEW i \in DOMAIN queued', NEW j \in DOMAIN queued',
               queued'[i].req = queued'[j].req
        PROVE  i = j
    <3>1. i + n = j + n
      BY <1>5, <2>2 DEF InQueue
    <3>. QED
      BY <1>2, <1>5, <3>1
  <2>. QED
    BY <2>1, <2>2 DEF InQueue
<1>18. Window'
  <2>. SUFFICES ASSUME Single' PROVE Window'
    BY DEF Window
  <2>0. Single /\ Writing = n /\ Writing' = 0 /\ offset + count <= Slots
    BY <1>0, <1>1, <1>n DEF Single, Live, Writing, Window
  <2>1. \A u \in Threads : /\ at'[u] \in {"count", "fill"} => mine'[u].node = first'
                           /\ at'[u] = "count" => ~mine'[u].fresh
    BY <1>0, <1>1, <2>0 DEF Window
  <2>2. CASE offset + n = Slots
    <3>1. count = n /\ count' = 0 /\ offset' = 0
      <4>1. count = n
        BY <1>2, <2>0, <2>2, RpcAssumption
      <4>. QED
        BY <1>0, <1>2, <2>2, <4>1, IndexBelow, RpcAssumption
    <3>2. \A u \in Threads : at'[u] # "fill"
      <4>1. \A u \in Threads : at[u] # "fill"
        BY <1>2, <2>0, <3>1 DEF Window
      <4>. QED
        BY <1>1, <4>1
    <3>3. \A j \in 0 .. Slots - 1 : nodes'[first].slots[j] = Nothing
      BY <1>4, <2>0, <3>1 DEF Window
    <3>. QED
      BY <1>0, <2>1, <3>1, <3>2, <3>3, RpcAssumption DEF Window
  <2>3. CASE offset + n # Slots
    <3>0. offset + n \in Nat /\ offset + n < Slots
      BY <1>2, <2>3, RpcAssumption
    <3>1. offset' = offset + n
      BY <1>0, <3>0, IndexBelow
    <3>2. offset' + count' <= Slots
      BY <1>0, <1>2, <2>0, <3>1, RpcAssumption
    <3>3. ASSUME NEW i \in 1 .. count, i > n
          PROVE  /\ i - n \in 1 .. count' /\ offset' + (i - n) - 1 = offset + i - 1
                 /\ queued'[i - n] = queued[i]
                 /\ nodes'[first].slots[offset + i - 1] = nodes[first].slots[offset + i - 1]
      <4>1. i - n \in 1 .. count - n /\ (i - n) + n = i
        BY <1>2, <3>3
      <4>2. offset' + (i - n) - 1 = offset + i - 1
        BY <1>2, <3>1
      <4>3. offset + i - 1 \in 0 .. Slots - 1 /\ offset + i - 1 \notin offset .. offset + n - 1
        BY <1>2, <2>0, <3>3, RpcAssumption
      <4>. QED
        BY <1>0, <1>4, <1>5, <4>1, <4>2, <4>3
    <3>4. ASSUME NEW u \in Threads, NEW i \in 1 .. count, i > n, Fills(u, i),
                 NEW m, m = i - n
          PROVE  Fills(u, m)'
      <4>1. at'[u] = "fill"
        BY <1>0, <1>1, <3>4 DEF Fills
      <4>. QED
        BY <1>0, <3>3, <3>4, <4>1 DEF Fills
    <3>5. ASSUME NEW m \in 1 .. count'
          PROVE  \/ nodes'[first'].slots[offset' + m - 1] = queued'[m]
                 \/ \E u \in Threads : Fills(u, m)'
      <4>1. PICK i \in 1 .. count : i > n /\ m = i - n
        <5>1. m + n \in 1 .. count /\ m + n > n /\ m = (m + n) - n
          BY <1>0, <1>2
        <5>. QED
          BY <5>1
      <4>2. CASE nodes[first].slots[offset + i - 1] = queued[i]
        BY <1>0, <3>3, <4>1, <4>2
      <4>3. CASE \E u \in Threads : Fills(u, i)
        BY <3>4, <4>1, <4>3
      <4>. QED
        BY <2>0, <4>2, <4>3 DEF Window
    <3>6. ASSUME NEW u \in Threads, at'[u] = "fill"
          PROVE  \E m \in Writing' + 1 .. count' : Fills(u, m)'
      <4>1. at[u] = "fill"
        BY <1>1, <3>6
      <4>2. PICK i \in n + 1 .. count : Fills(u, i)
        BY <2>0, <4>1 DEF Window
      <4>3. i \in 1 .. count /\ i > n
        BY <1>2
      <4>4. PICK m : m = i - n
        OBVIOUS
      <4>5. m \in Writing' + 1 .. count'
        BY <2>0, <3>3, <4>3, <4>4
      <4>. QED
        BY <3>4, <4>2, <4>3, <4>4, <4>5
    <3>7. ASSUME NEW j \in 0 .. Slots - 1, j \notin offset' .. offset' + count' - 1
          PROVE  nodes'[first'].slots[j] = Nothing
      <4>1. j \in offset .. offset + n - 1 \/ j \notin offset .. offset + count - 1
        BY <1>0, <1>2, <3>1, <3>7
      <4>2. j \notin offset .. offset + count - 1 => nodes[first].slots[j] = Nothing
        BY <2>0 DEF Window
      <4>. QED
        BY <1>0, <1>4, <4>1, <4>2
    <3>. QED
      BY <2>1, <3>2, <3>5, <3>6, <3>7 DEF Window
  <2>. QED
    BY <2>2, <2>3
<1>. QED
  BY <1>7, <1>8, <1>9, <1>10, <1>12, <1>15, <1>16, <1>17, <1>18

-----------------------------------------------------------------------------
LEMMA NextCore == Core /\ [Next]_rvars => Core'
<1>. SUFFICES ASSUME Core, [Next]_rvars PROVE Core'
  OBVIOUS
<1>1. CASE Accept \/ AcceptFails
  BY <1>1, AcceptCore
<1>2. CASE HangUp
  <2>1. at' = at /\ at[Io] \notin Flushing
    BY <1>2 DEF HangUp, Polls, Flushing
  <2>. QED
    BY <1>2, <2>1, CloseCore DEF HangUp
<1>3. ASSUME NEW ask \in Asks, Request(ask) PROVE Core'
  BY <1>3, RequestCore
<1>4. CASE WriteEvent \/ FlushCount \/ FlushRecount \/ FlushInterest
  BY <1>4, FlushMoves
<1>5. CASE FlushWrite
  BY <1>5, FlushWriteCore
<1>6. CASE FlushSettle
  BY <1>6, SettleCore
<1>7. ASSUME NEW t \in Threads, PushTail(t) \/ PushIndex(t) \/ PushWake(t)
      PROVE  Core'
  BY <1>7, PushMoves
<1>8. ASSUME NEW t \in Threads, PushLink(t) PROVE Core'
  BY <1>8, LinkNone, LinkNew
<1>9. ASSUME NEW t \in Threads, PushCount(t) PROVE Core'
  BY <1>9, CountCore
<1>10. ASSUME NEW t \in Threads, PushFill(t) PROVE Core'
  BY <1>10, FillCore
<1>11. ASSUME NEW w \in Workers, NEW id \in tasks, Work(w, id) PROVE Core'
  BY <1>11, WorkCore
<1>12. ASSUME NEW t \in Threads, Late(t) PROVE Core'
  BY <1>12, QuietCore DEF Late, Meets, core, connection
<1>13. ASSUME NEW w \in Workers, WorkLate(w) PROVE Core'
  BY <1>13, QuietCore DEF WorkLate, Meets, core, connection
<1>14. CASE Stop \/ CloseFs \/ StopWorkers
  BY <1>14, QuietCore DEF Stop, CloseFs, StopWorkers, core, connection
<1>15. CASE IdleEvent
  BY <1>15, QuietCore DEF IdleEvent, core
<1>16. CASE UNCHANGED rvars
  BY <1>16, QuietCore DEF rvars, core, connection
<1>. QED
  BY <1>1, <1>2, <1>3, <1>4, <1>5, <1>6, <1>7, <1>8, <1>9, <1>10, <1>11, <1>12,
     <1>13, <1>14, <1>15, <1>16 DEF Next, Flush, Push

-----------------------------------------------------------------------------
(* The flags, and the interest in the socket.                              *)

\* A step that leaves the flags alone, counts nothing, and moves nobody who is
\* about to announce data, nor takes a flush to its use of a count of 0.
LEMMA Announced ==
  ASSUME Interest, UNCHANGED <<hasData, writable>>,
         client' = client \/ client' # "open", fate' = fate \/ fate' # "none",
         count' > 0 => count > 0,
         at'[Io] = "interest" => at[Io] = "interest" /\ mine'[Io] = mine[Io],
         \A t \in Threads : at[t] \in {"fill", "wake"} => at'[t] \in {"fill", "wake"}
  PROVE  Interest'
  BY DEF Interest, Live

LEMMA NextInterest ==
  ASSUME Core, Flags, Interest, [Next]_rvars
  PROVE  Flags' /\ Interest'
<1>. USE DEF Core, connection
<1>a. Io \in Threads
  BY DEF Threads
<1>b. \A t \in Threads : \A s :
        at' = [at EXCEPT ![t] = s] /\ at[t] \notin {"fill", "wake"} =>
          \A u \in Threads : at[u] \in {"fill", "wake"} => at'[u] \in {"fill", "wake"}
  BY DEF Shape
<1>1. CASE Accept \/ AcceptFails
  BY <1>1 DEF Accept, AcceptFails, Polls, Live, Flags, Interest, Clients, Shape
<1>c. ASSUME CloseClient, UNCHANGED server PROVE Flags' /\ Interest'
  BY <1>c DEF CloseClient, Flags, Interest
<1>2. CASE HangUp
  BY <1>2, <1>c DEF HangUp
<1>3. ASSUME NEW ask \in Asks, Request(ask) PROVE Flags' /\ Interest'
  <2>1. CASE CloseClient
    BY <1>3, <1>c, <2>1 DEF Request
  <2>2. CASE ~CloseClient
    <3>1. /\ UNCHANGED <<connection, server>>
          /\ at' = at \/ at' = [at EXCEPT ![Io] = "tail"]
          /\ at[Io] = "idle" /\ (fate' = fate \/ fate' # "none")
      BY <1>3, <2>2 DEF Request, Goto, Meets, Polls
    <3>2. \A u \in Threads : at[u] \in {"fill", "wake"} => at'[u] \in {"fill", "wake"}
      BY <1>a, <1>b, <3>1
    <3>3. at'[Io] # "interest"
      BY <1>a, <3>1 DEF Shape
    <3>. QED
      BY <3>1, <3>2, <3>3, Announced DEF Flags
  <2>. QED
    BY <2>1, <2>2
<1>4. CASE WriteEvent \/ FlushCount
  <2>1. /\ UNCHANGED <<connection, server, fate>>
        /\ \E s : at' = [at EXCEPT ![Io] = s] /\ s # "interest"
        /\ at[Io] \notin {"fill", "wake"}
    BY <1>4 DEF WriteEvent, FlushCount, Goto, Polls
  <2>2. \A u \in Threads : at[u] \in {"fill", "wake"} => at'[u] \in {"fill", "wake"}
    BY <1>a, <1>b, <2>1
  <2>3. at'[Io] # "interest"
    BY <1>a, <2>1 DEF Shape
  <2>. QED
    BY <2>1, <2>2, <2>3, Announced DEF Flags
<1>d. CASE FlushRecount
  <2>1. /\ UNCHANGED <<connection, server, fate>>
        /\ at' = [at EXCEPT ![Io] = "interest"] /\ at[Io] = "recount"
        /\ mine'[Io].fresh = (count > 0)
    BY <1>a, <1>d DEF FlushRecount, Goto, Shape, Mine
  <2>2. \A u \in Threads : at[u] \in {"fill", "wake"} => at'[u] \in {"fill", "wake"}
    BY <1>a, <1>b, <2>1
  <2>. QED
    BY <2>1, <2>2 DEF Flags, Interest, Live
<1>5. CASE FlushWrite
  <2>1. CASE CloseClient
    BY <1>5, <1>c, <2>1 DEF FlushWrite
  <2>2. CASE ~CloseClient
    <3>1. /\ UNCHANGED <<connection, server>>
          /\ at' = at \/ at' = [at EXCEPT ![Io] = "settle"]
          /\ at[Io] = "gather" /\ (fate' = fate \/ fate' # "none")
      BY <1>5, <2>2 DEF FlushWrite, Goto, Meets
    <3>2. \A u \in Threads : at[u] \in {"fill", "wake"} => at'[u] \in {"fill", "wake"}
      BY <1>a, <1>b, <3>1
    <3>3. at'[Io] # "interest"
      BY <1>a, <3>1 DEF Shape
    <3>. QED
      BY <3>1, <3>2, <3>3, Announced DEF Flags
  <2>. QED
    BY <2>1, <2>2
<1>6. CASE FlushSettle
  <2>1. /\ UNCHANGED <<hasData, writable, client, server, fate>>
        /\ at' = [at EXCEPT ![Io] = "recount"] /\ at[Io] = "settle"
        /\ count' = count - Len(batch)
    BY <1>6 DEF FlushSettle, Goto
  <2>2. count' > 0 => count > 0
    BY <2>1, LenProperties DEF Shape
  <2>3. \A u \in Threads : at[u] \in {"fill", "wake"} => at'[u] \in {"fill", "wake"}
    BY <1>a, <1>b, <2>1
  <2>4. at'[Io] # "interest"
    BY <1>a, <2>1 DEF Shape
  <2>. QED
    BY <2>1, <2>2, <2>3, <2>4, Announced DEF Flags
<1>7. CASE FlushInterest
  <2>1. /\ at' = [at EXCEPT ![Io] = "idle"] /\ at[Io] = "interest"
        /\ mine[Io].fresh \in BOOLEAN
        /\ UNCHANGED <<client, count, server, fate>>
    BY <1>7, <1>a DEF FlushInterest, Goto, Shape, Mine
  <2>2. hasData' \in BOOLEAN /\ writable' \in BOOLEAN
        /\ (hasData' => writable') /\ hasData' = mine[Io].fresh
    BY <1>7, <2>1 DEF FlushInterest, SetWritable, Interest, Flags
  <2>3. \A u \in Threads : at[u] \in {"fill", "wake"} => at'[u] \in {"fill", "wake"}
    BY <1>a, <1>b, <2>1
  <2>4. at'[Io] = "idle"
    BY <1>a, <2>1 DEF Shape
  <2>. QED
    BY <2>1, <2>2, <2>3, <2>4 DEF Flags, Interest, Live
<1>8. ASSUME NEW t \in Threads, PushTail(t) \/ PushIndex(t) \/ PushLink(t)
      PROVE  Flags' /\ Interest'
  <2>1. /\ UNCHANGED <<client, count, hasData, writable, server>>
        /\ \E s : at' = [at EXCEPT ![t] = s]
        /\ at[t] \notin {"fill", "wake"}
        /\ fate' = fate \/ fate' # "none"
    BY <1>8 DEF PushTail, PushIndex, PushLink, Goto, OnClient
  <2>2. \A u \in Threads : at[u] \in {"fill", "wake"} => at'[u] \in {"fill", "wake"}
    BY <1>b, <2>1
  <2>3. at'[t] # "interest"
    BY <1>8 DEF PushTail, PushIndex, PushLink, Goto, Shape
  <2>4. t # Io => at'[Io] = at[Io] /\ mine'[Io] = mine[Io]
    BY <1>8, <1>a DEF PushTail, PushIndex, PushLink, Goto, Shape
  <2>. QED
    BY <2>1, <2>2, <2>3, <2>4, Announced DEF Flags
<1>9. ASSUME NEW t \in Threads, PushCount(t) \/ PushFill(t) PROVE Flags' /\ Interest'
  <2>1. UNCHANGED <<hasData, writable, server>> /\ at'[t] \in {"fill", "wake"}
    BY <1>9 DEF PushCount, PushFill, Goto, Shape
  <2>. QED
    BY <2>1 DEF Flags, Interest
<1>10. ASSUME NEW t \in Threads, PushWake(t) PROVE Flags' /\ Interest'
  <2>1. /\ hasData' /\ hasData' \in BOOLEAN /\ writable' /\ writable' \in BOOLEAN
        /\ UNCHANGED server
    BY <1>10 DEF PushWake, SetWritable, Flags, Interest
  <2>2. at'[t] = "idle" /\ (t # Io => at'[Io] = at[Io] /\ mine'[Io] = mine[Io])
    BY <1>10, <1>a DEF PushWake, Goto, Shape
  <2>3. at'[Io] = "interest" /\ ~mine'[Io].fresh => ~Live'
    BY <1>10, <2>2 DEF PushWake, Live
  <2>. QED
    BY <2>1, <2>3 DEF Flags, Interest
<1>11. ASSUME NEW w \in Workers, NEW id \in tasks, Work(w, id)
       PROVE  Flags' /\ Interest'
  <2>1. /\ UNCHANGED <<connection, server, fate>> /\ w \in Threads
        /\ at' = [at EXCEPT ![w] = "tail"] /\ at[w] = "idle"
    BY <1>11 DEF Work, Goto, Threads
  <2>2. \A u \in Threads : at[u] \in {"fill", "wake"} => at'[u] \in {"fill", "wake"}
    BY <1>b, <2>1
  <2>3. at'[Io] # "interest" \/ (w # Io /\ at'[Io] = at[Io] /\ mine'[Io] = mine[Io])
    BY <1>11, <1>a, <2>1 DEF Work, Shape
  <2>. QED
    BY <2>1, <2>2, <2>3, Announced DEF Flags
<1>12. ASSUME UNCHANGED <<connection, at, mine, server>>, fate' = fate \/ fate' # "none"
       PROVE  Flags' /\ Interest'
  BY <1>12, Announced DEF Flags
<1>13. ASSUME NEW t \in Threads, Late(t) PROVE Flags' /\ Interest'
  BY <1>12, <1>13 DEF Late, Meets
<1>14. ASSUME NEW w \in Workers, WorkLate(w) PROVE Flags' /\ Interest'
  BY <1>12, <1>14 DEF WorkLate, Meets
<1>15. CASE Stop \/ CloseFs \/ StopWorkers
  <2>1. /\ UNCHANGED <<connection, at, mine>>
        /\ fate' = fate \/ fate' # "none"
        /\ server' \in {"running", "stopped", "closed", "down"}
    BY <1>15 DEF Stop, CloseFs, StopWorkers
  <2>2. Interest'
    BY <2>1, Announced
  <2>3. Flags'
    BY <2>1 DEF Flags
  <2>. QED
    BY <2>2, <2>3
<1>16. CASE IdleEvent
  BY <1>16 DEF IdleEvent, Idle, Flags, Interest, Live
<1>17. CASE UNCHANGED rvars
  BY <1>12, <1>17 DEF rvars
<1>. QED
  BY <1>1, <1>2, <1>3, <1>4, <1>5, <1>6, <1>7, <1>8, <1>9, <1>10, <1>11,
     <1>13, <1>14, <1>15, <1>16, <1>17, <1>d DEF Next, Flush, Push

-----------------------------------------------------------------------------
\* Requests that differ are no more than have been asked.
LEMMA QueueBound ==
  ASSUME NEW q \in Seq(Entry), NEW m \in Nat,
         \A i \in DOMAIN q : q[i].req \in 1 .. m,
         \A i, j \in DOMAIN q : q[i].req = q[j].req => i = j
  PROVE  Len(q) <= m
<1>. DEFINE f == [i \in 1 .. Len(q) |-> q[i].req]
<1>0. Len(q) \in Nat /\ DOMAIN q = 1 .. Len(q)
  BY LenProperties
<1>1. f \in Injection(1 .. Len(q), 1 .. m)
  BY <1>0 DEF Injection, IsInjective
<1>2. IsFiniteSet(1 .. m) /\ Cardinality(1 .. m) = m
  BY FS_Interval
<1>3. Cardinality(1 .. Len(q)) = Len(q)
  BY <1>0, FS_Interval, SMTT(30)
<1>. HIDE DEF f
<1>4. Cardinality(1 .. Len(q)) <= Cardinality(1 .. m)
  BY <1>1, <1>2, FS_Injection
<1>. QED
  BY <1>2, <1>3, <1>4

LEMMA Exact == IInv => AnswersExact
<1>. SUFFICES ASSUME IInv PROVE AnswersExact
  OBVIOUS
<1>. USE DEF IInv, Core
<1>1. TypeOK
  <2>0. Len(asked) \in Nat /\ DOMAIN asked = 1 .. Len(asked)
    BY LenProperties DEF Shape
  <2>1. Len(queued) <= Len(asked)
    BY <2>0, QueueBound DEF InQueue, Known, Shape
  <2>2. count \in 0 .. MaxRequests
    BY <2>0, <2>1, RpcAssumption DEF Counts, Shape
  <2>. QED
    BY <2>2 DEF TypeOK, Shape, Flags
<1>2. QueueExact
  <2>. SUFFICES ASSUME Live, client = "open", first = last
                PROVE  /\ count = Len(queued) /\ offset + count <= Slots
                       /\ \A i \in 1 .. count :
                            \/ nodes[first].slots[offset + i - 1] = queued[i]
                            \/ \E t \in Threads : at[t] = "fill" /\ mine[t].req = queued[i].req
    BY DEF QueueExact
  <2>1. CASE first = 0
    BY <2>1, RpcAssumption DEF Counts, Shape
  <2>2. CASE first # 0
    BY <2>2 DEF Counts, Window, Single, Fills
  <2>. QED
    BY <2>1, <2>2
<1>3. WriteInterest
  BY DEF WriteInterest, Interest
<1>4. AnsweredOnce
  BY DEF AnsweredOnce, IsInjective, Ids, InSent
<1>. QED
  BY <1>1, <1>2, <1>3, <1>4 DEF AnswersExact

\* The output queue of a connection, for every number of workers, slots and
\* requests: no request is ever answered twice; and until a slot, a tail or
\* the count of a flush has gone stale before its use or the connection is
\* freed under a thread, the slots hold the answers in the order they were
\* counted in and queued answers have the poll loop's attention
\* (AnswersExact, for __ipc_outbuf_add, __ipc_outbuf_flush and
\* z_iopoll_set_writable).
THEOREM AnswersAreExact == Spec => []AnswersExact
<1>1. IInv /\ [Next]_rvars => IInv'
  BY NextCore, NextInterest DEF IInv
<1>2. Spec => []IInv
  BY InitIInv, <1>1, PTL DEF Spec
<1>. QED
  BY <1>2, Exact, PTL
=============================================================================
