------------------------------- MODULE Redis -------------------------------
(***************************************************************************)
(* The redis service (raleigh-server/redis.c): two commands, ping and      *)
(* quit, on one line or as a bulk of counted words, read from one ring     *)
(* buffer and answered through another.  One thread handles the events of  *)
(* a connection, so a handler is one step.                                 *)
(*                                                                         *)
(* A byte is Sep or <<w, k>>, the k-th of the two bytes of the word w.     *)
(* That the tokens of a ring that wraps are those of its bytes in a row is *)
(* shown in Algorithms (WordsExact); here the bytes are in a row.          *)
(***************************************************************************)
EXTENDS RingBuf

CONSTANTS
  Sep,
  MaxTokens,     \* MAX_TOKENS (16)
  MaxCommands    \* bound: commands sent

\* The separator is no byte of a word, and two arguments are not too many.
ASSUME RedisAssumption ==
  /\ Size \in Nat \ {0} /\ MaxTokens \in Nat /\ MaxTokens >= 2 /\ MaxCommands \in Nat
  /\ \A w \in {"ping", "quit", "*1", "*2", "*9", "$4"}, k \in 1 .. 2 : Sep # <<w, k>>

\* The words of the commands a client may send.  "*9" stands for a count that
\* is larger than MaxTokens.
Sendable ==
  {<<"ping">>, <<"quit">>, <<"*1", "$4", "ping">>, <<"*2", "$4", "ping", "$4", "quit">>,
   <<"*1", "ping">>, <<"*9">>}

Word(w) == <<<<w, 1>>, <<w, 2>>>>
Text(cmd) == FlattenSeq([i \in DOMAIN cmd |-> Append(Word(cmd[i]), Sep)])

Pong == [i \in 1 .. 7 |-> <<"pong", i>>]
Ok == [i \in 1 .. 5 |-> <<"ok", i>>]

VARIABLES
  conn,      \* "open", "closed" by the server, "hung" up by the client
  ibuffer, obuffer,
  cmds,      \* the commands the client has sent
  stream,    \* their bytes
  taken,     \* how many of these have been read from the socket
  pings,     \* history: the pings carried out
  out,       \* the bytes written back
  wants,     \* Z_IOPOLL_HAS_DATA
  plain      \* history: good bulks of pings only, and no word cut in two

rdvars == <<conn, ibuffer, obuffer, cmds, stream, taken, pings, out, wants, plain>>

RedisInit ==
  /\ conn = "open"
  /\ ibuffer = NewRing /\ obuffer = NewRing
  /\ cmds = <<>> /\ stream = <<>> /\ taken = 0
  /\ pings = 0 /\ out = <<>> /\ wants = FALSE
  /\ plain = TRUE

\* The client.
Send(cmd) ==
  /\ conn = "open" /\ Len(cmds) < MaxCommands
  /\ cmds' = Append(cmds, cmd)
  /\ stream' = stream \o Text(cmd)
  /\ plain' = (plain /\ Len(cmd) \in {3, 5})
  /\ UNCHANGED <<conn, ibuffer, obuffer, taken, pings, out, wants>>

-----------------------------------------------------------------------------
\* Fault: the tail moves by what was asked for.
PushedWhole(r, bs) ==
  [Fetched(r, SubSeq(bs, 1, Least(Len(bs), Length(WriteIov(r))))) EXCEPT
     !.tail = (r.tail + Len(bs)) % (2 * Size)]

\* z_ringbuf_push: what does not fit is cut off.
Pushed(r, bs) == Fetched(r, SubSeq(bs, 1, Least(Len(bs), Length(WriteIov(r)))))

\* The words of bs, each with the number of bytes read when it has been
\* taken, the separator behind it with it (z_reader_tokenize).
Words(bs) ==
  LET starts == {i \in DOMAIN bs : bs[i] # Sep /\ (i = 1 \/ bs[i - 1] = Sep)}
      nth(k) == CHOOSE i \in starts : Cardinality({j \in starts : j <= i}) = k
      stop(i) == Min({j \in i .. Len(bs) + 1 : j = Len(bs) + 1 \/ bs[j] = Sep})
  IN  [k \in 1 .. Cardinality(starts) |->
         [word |-> SubSeq(bs, nth(k), stop(nth(k)) - 1), upto |-> Least(stop(nth(k)), Len(bs))]]

\* What a handler leaves: the bytes to skip, the answer, whether the
\* connection is kept.
Outcome(trim, reply, keep) == [trim |-> trim, reply |-> reply, keep |-> keep]

\* __redis_process_command
ProcessCommand(word, trim) ==
  CASE word = Word("ping") -> Outcome(trim, Pong, TRUE)
    [] word = Word("quit") -> Outcome(trim, Ok, FALSE)
    [] OTHER               -> Outcome(trim, <<>>, FALSE)

\* The number behind a "*" or a "$"; -1 when there is none.
Counted == [w \in {"*1", "*2", "*9", "$4"} |->
              CASE w = "*1" -> 1 [] w = "*2" -> 2 [] w = "*9" -> 9 [] w = "$4" -> 4]
Number(word) == IF Len(word) = 2 THEN Counted[word[1][1]] ELSE -1

IsStar(word) == word[1] \in {<<"*1", 1>>, <<"*2", 1>>, <<"*9", 1>>}
IsSize(word) == word = Word("$4")

\* Fault: what has been read of an unfinished bulk is skipped.
UnreadyTrim(ws) == ws[Len(ws)].upto

\* Data not ready: nothing is skipped, and the next read starts again.
Unready(ws) == 0

\* __redis_process_multibulk: a size and a word for each argument.
ProcessMultibulk(ws) ==
  LET nargs == Number(ws[1].word)
      all == 1 + 2 * nargs
  IN  CASE nargs \notin 1 .. MaxTokens -> Outcome(ws[1].upto, <<>>, FALSE)
        [] nargs \in 1 .. MaxTokens
             /\ \E k \in 1 .. nargs : 2 * k <= Len(ws) /\ ~IsSize(ws[2 * k].word) ->
             Outcome(ws[1].upto, <<>>, FALSE)
        [] nargs \in 1 .. MaxTokens /\ Len(ws) < all
             /\ \A k \in 1 .. nargs : 2 * k <= Len(ws) => IsSize(ws[2 * k].word) ->
             Outcome(Unready(ws), <<>>, TRUE)
        [] OTHER -> ProcessCommand(ws[3].word, ws[all].upto)

\* __redis_process_inline takes all words that are there for arguments.
ProcessInline(ws, bs) == ProcessCommand(ws[1].word, Len(bs))

Processed(bs) ==
  LET ws == Words(bs)
  IN  CASE ws = <<>> -> Outcome(Len(bs), <<>>, TRUE)
        [] ws # <<>> /\ IsStar(ws[1].word) -> ProcessMultibulk(ws)
        [] ws # <<>> /\ ~IsStar(ws[1].word) -> ProcessInline(ws, bs)

\* The n-th byte of the stream and the next are bytes of one word.
CutsWord(n) == n < Len(stream) /\ stream[n] # Sep /\ stream[n + 1] # Sep

\* __client_read, when the socket gives n bytes; a full ring is left alone.
\* One command is carried out, whatever is behind it.
Read(n) ==
  /\ conn = "open"
  /\ n <= Len(stream) - taken /\ n <= Length(WriteIov(ibuffer))
  /\ taken' = taken + n
  /\ plain' = (plain /\ ~CutsWord(taken'))
  /\ \E r \in {Fetched(ibuffer, SubSeq(stream, taken + 1, taken'))} :
       \E o \in {Processed(Dumpable(r))} :
         /\ ibuffer' = RSkip(r, o.trim)
         /\ obuffer' = Pushed(obuffer, o.reply)
         /\ pings' = pings + (IF o.reply = Pong THEN 1 ELSE 0)
         /\ conn' = IF o.keep THEN "open" ELSE "closed"
  /\ wants' = ~Empty(obuffer')
  /\ UNCHANGED <<cmds, stream, out>>

\* __client_write: as the echo service does, but the next read asks for the
\* rest of a partial write again.
Write(n) ==
  LET bs == Dumpable(obuffer)
  IN  /\ conn = "open" /\ wants
      /\ \/ bs = <<>> /\ n = 0 /\ conn' = "closed" /\ UNCHANGED <<obuffer, out, wants>>
         \/ /\ bs # <<>>
            /\ n \in (IF ReadIov(obuffer)[2].len > 0 THEN 1 ELSE Len(bs)) .. Len(bs)
            /\ out' = out \o SubSeq(bs, 1, n)
            /\ obuffer' = Dumped(obuffer, n)
            /\ wants' = FALSE
            /\ UNCHANGED conn
      /\ UNCHANGED <<ibuffer, cmds, stream, taken, pings, plain>>

\* z_iopoll_process on a hang-up.
RedisHangUp ==
  /\ conn = "open"
  /\ conn' = "hung"
  /\ UNCHANGED <<ibuffer, obuffer, cmds, stream, taken, pings, out, wants, plain>>

RedisNext ==
  \/ \E cmd \in Sendable : Send(cmd)
  \/ \E n \in 1 .. Size : Read(n)
  \/ \E n \in 0 .. Size : Write(n)
  \/ RedisHangUp

RedisSpec == RedisInit /\ [][RedisNext]_rdvars

-----------------------------------------------------------------------------
\* The types of the state.
RedisTypeOK ==
  /\ conn \in {"open", "closed", "hung"}
  /\ \A r \in {ibuffer, obuffer} : r.head \in 0 .. 2 * Size - 1 /\ r.tail \in 0 .. 2 * Size - 1
  /\ taken \in 0 .. Len(stream)
  /\ pings \in 0 .. Len(cmds)
  /\ wants \in BOOLEAN /\ plain \in BOOLEAN

\* The client reads whole answers in a row, one for each ping that was
\* carried out, over partial writes and the laps of the ring; an answer that
\* was cut leaves a full ring, from which nothing more is written
\* (__process_ping, z_ringbuf_push, __client_write).
PongsWhole ==
  LET answers == FlattenSeq([i \in 1 .. pings |-> Pong])
  IN  /\ IsPrefix(out, answers)
      /\ conn = "open" /\ ~Full(obuffer) => out \o Dumpable(obuffer) = answers

\* Bulks whose bytes come in pieces of whole words are carried out in order
\* and once: the ring holds the rest of the stream, a separator of the last
\* command perhaps before it, and the server does not close the connection
\* but for a full ring of answers (__redis_process_multibulk, __client_read).
BulksWhole ==
  LET from == Len(FlattenSeq([i \in 1 .. pings |-> Text(cmds[i])]))
  IN  /\ plain /\ conn = "open" /\ ~Full(ibuffer) =>
           \E i \in {from, from + 1} \ {0} : Dumpable(ibuffer) = SubSeq(stream, i, taken)
      /\ plain /\ conn = "closed" => Full(obuffer)

\* A redis client reads whole answers, one for each ping, and bulks whose bytes
\* come in pieces of whole words are carried out in order and once
\* (__process_ping and __redis_process_multibulk).
RedisExact == RedisTypeOK /\ PongsWhole /\ BulksWhole
=============================================================================
