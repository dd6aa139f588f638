---------------------------- MODULE Connections ----------------------------
(***************************************************************************)
(* What a connection makes of the bytes that its socket gives it, whatever *)
(* the pieces they come in: the echo service (raleigh-server/echo.c) and   *)
(* the frames of the message buffer (zcl/io/ipc/ipc-msg.c), each on a ring *)
(* buffer.  One thread handles all the events of a connection, so a        *)
(* handler is one step.                                                    *)
(*                                                                         *)
(* A byte is <<m, k>>, the k-th of the m-th message the client sends.  A   *)
(* frame is a head of HeadSize bytes, which tells the size of the body and may *)
(* be malformed (wrong magic or version), and the body.                    *)
(***************************************************************************)
EXTENDS RingBuf

CONSTANTS
  HeadSize,         \* bytes of a head (8)
  BodySizes,    \* bound: sizes of bodies
  MaxMessages   \* bound: messages sent

\* A quit, or any call that fails, closes the connection.
Message == [size : BodySizes, is : {"fine", "malformed", "quit"}]

VARIABLES
  proto,   \* the service: "echo" or "rpc"
  conn,    \* "open", "closed"
  ring,    \* echo.buffer, msgbuf.ibuffer
  msgs,    \* the messages the client has sent
  stream,  \* their bytes
  taken,   \* how many of these have been read from the socket
  frames,  \* the frames handed to the protocol: [m, body]
  echoed,  \* the bytes written back
  wants    \* Z_IOPOLL_HAS_DATA: a write event is wanted

cvars == <<proto, conn, ring, msgs, stream, taken, frames, echoed, wants>>

Init ==
  /\ proto \in {"echo", "rpc"}
  /\ conn = "open"
  /\ ring = NewRing
  /\ msgs = <<>>
  /\ stream = <<>>
  /\ taken = 0
  /\ frames = <<>>
  /\ echoed = <<>>
  /\ wants = FALSE

Unread == SubSeq(stream, taken + 1, Len(stream))

\* The client.
Send(m) ==
  /\ conn = "open"
  /\ Len(msgs) < MaxMessages
  /\ proto = "echo" => m.is = "fine"
  /\ msgs' = Append(msgs, m)
  /\ stream' = stream \o
       [k \in 1 .. HeadSize + m.size |-> <<Len(msgs'), k>>]
  /\ UNCHANGED <<proto, conn, ring, taken, frames, echoed, wants>>

Close == conn' = "closed" /\ UNCHANGED <<ring, frames, echoed, wants>>

-----------------------------------------------------------------------------
(* The frames.                                                             *)

\* __msgbuf_parse_head: 0 when the head is not there yet, -2 when it is
\* malformed or tells of a frame that does not fit the ring.
Valid(m) == msgs[m].is # "malformed" /\ HeadSize + msgs[m].size <= Size

\* Fault: one more byte is waited for.
EnoughMore(avail, size) == avail > size

Enough(avail, size) == avail >= size

\* The loop of z_ipc_msgbuf_fetch.  A malformed head ends it only when the
\* body is not there either.  out: the ring, the frames, and whether the
\* connection is kept.
RECURSIVE Parsed(_, _, _)
Parsed(r, avail, done) ==
  LET head == Peek(r, HeadSize)
      m    == head[1][1]
      body == RSkip(r, HeadSize)
      size == msgs[m].size
      got  == [m |-> m, body |-> Bytes(body, PopIov(body, size))]
  IN  CASE head = <<>> -> [ring |-> r, frames |-> done, keep |-> TRUE]
        [] head # <<>> /\ ~Enough(avail - HeadSize, size) ->
             [ring |-> r, frames |-> done, keep |-> Valid(m)]
        [] head # <<>> /\ Enough(avail - HeadSize, size) /\ msgs[m].is = "quit" ->
             [ring |-> body, frames |-> Append(done, got), keep |-> FALSE]
        [] OTHER ->
             Parsed(RSkip(body, size), avail - HeadSize - size, Append(done, got))

\* z_ipc_msgbuf_fetch, when the socket gives n bytes.
RpcRead(n) ==
  /\ conn = "open" /\ proto = "rpc"
  /\ n <= Len(Unread) /\ n <= Length(WriteIov(ring))
  /\ \E r \in {Fetched(ring, SubSeq(Unread, 1, n))} :
       \E out \in {Parsed(r, Used(r), frames)} :
         /\ ring' = out.ring
         /\ frames' = out.frames
         /\ conn' = IF out.keep THEN "open" ELSE "closed"
  /\ taken' = taken + n
  /\ UNCHANGED <<proto, msgs, stream, echoed, wants>>

\* It takes a full ring for the end of the connection.
RpcFull ==
  /\ conn = "open" /\ proto = "rpc"
  /\ Full(ring) /\ Unread # <<>>
  /\ Close
  /\ UNCHANGED <<proto, msgs, stream, taken>>

-----------------------------------------------------------------------------
(* The echo service.                                                       *)

\* __client_read; a full ring is left for later.
EchoRead(n) ==
  /\ conn = "open" /\ proto = "echo"
  /\ n <= Len(Unread) /\ n <= Length(WriteIov(ring))
  /\ ring' = Fetched(ring, SubSeq(Unread, 1, n))
  /\ taken' = taken + n
  /\ wants' = TRUE
  /\ UNCHANGED <<proto, conn, msgs, stream, frames, echoed>>

\* __client_write: z_fd_write writes all the bytes of one vector, writev may
\* write some of two; the rest waits for the next read.  A full ring has
\* nothing to write, which closes the connection.
EchoWrite(n) ==
  LET bs == Dumpable(ring)
  IN  /\ conn = "open" /\ proto = "echo" /\ wants
      /\ IF bs = <<>>
         THEN n = 0 /\ Close
         ELSE /\ n \in (IF ReadIov(ring)[2].len > 0 THEN 1 ELSE Len(bs)) .. Len(bs)
              /\ echoed' = echoed \o SubSeq(bs, 1, n)
              /\ ring' = Dumped(ring, n)
              /\ wants' = FALSE
              /\ UNCHANGED <<conn, frames>>
      /\ UNCHANGED <<proto, msgs, stream, taken>>

\* z_iopoll_process on a hang-up, or when read or write fails.
HangUp ==
  /\ conn = "open"
  /\ Close
  /\ UNCHANGED <<proto, msgs, stream, taken>>

Read == \E n \in 1 .. Size : RpcRead(n) \/ EchoRead(n)
Write == \E n \in 0 .. Size : EchoWrite(n)

Next ==
  \/ \E m \in Message : Send(m)
  \/ Read \/ RpcFull \/ Write \/ HangUp

\* Level-triggered polling: what can be read or written is, in the end.
Spec == Init /\ [][Next]_cvars /\ WF_cvars(Read \/ RpcFull) /\ WF_cvars(Write)

-----------------------------------------------------------------------------
\* The types of the state.
TypeOK ==
  /\ conn \in {"open", "closed"}
  /\ ring.head \in 0 .. 2 * Size - 1 /\ ring.tail \in 0 .. 2 * Size - 1
  /\ taken \in 0 .. Len(stream)
  /\ wants \in BOOLEAN

\* The ring holds the bytes that were read and not yet used, in order, across
\* its end and over its laps; a full ring alone looks empty
\* (__ringbuf_read_iov, z_ringbuf_used, z_ringbuf_fd_fetch).
RingExact ==
  LET fresh(b) == b[1] > Len(frames)
      held == IF proto = "echo" THEN SubSeq(stream, Len(echoed) + 1, taken)
              ELSE SelectSeq(SubSeq(stream, 1, taken), fresh)
  IN  conn = "open" =>
        /\ Full(ring) <=> Len(held) = Size
        /\ Dumpable(ring) = IF Full(ring) THEN <<>> ELSE held
        /\ Used(ring) = Len(Dumpable(ring))
        /\ Length(WriteIov(ring)) = Size - Len(held)

\* However the bytes are cut, the protocol is given the first messages, in
\* order, each once and with its own body (z_ipc_msgbuf_fetch).
FramesExact ==
  /\ \A i \in DOMAIN frames : frames[i].m = i
  /\ \A i \in DOMAIN frames :
       frames[i].body = [k \in 1 .. msgs[i].size |-> <<i, HeadSize + k>>]

\* The bytes that are echoed are those that were sent, in order (echo.c).
EchoExact == proto = "echo" => echoed = SubSeq(stream, 1, Len(echoed))

\* Again and again every frame so far has been handed to the protocol, or the
\* connection is closed, or the ring has become full and is not looked at any
\* more.
FramesArrive ==
  []<>(proto = "rpc" => Len(frames) >= Len(msgs) \/ conn = "closed" \/ Full(ring))
=============================================================================
