----------------------------- MODULE Algorithms -----------------------------
(***************************************************************************)
(* The rest of zcl's sequential code, in the way of Containers: buffers    *)
(* and slices under any sequence of operations, messages and words read    *)
(* back through a reader from pieces cut anywhere, predicates cut short.   *)
(*                                                                         *)
(* fate: "freed", a buffer has grown under the bytes it is to copy;        *)
(* "misplaced", a piece was prepended behind others; "eight", a field of   *)
(* no bytes was read as one of eight.                                      *)
(***************************************************************************)
EXTENDS Containers, Wire, Evaluator

CONSTANTS Blobs,       \* what is written to buffers and slices
          MaxBytes,    \* bound on what they hold
          MaxNodes,    \* bound on the nodes of a slice
          Messages,    \* [type, req, isreq, fields], a field [id, data]
          Ints,        \* integers to encode
          MaxText      \* bound on the length of a text cut into words

-----------------------------------------------------------------------------
(* What is begun with                                                      *)

Encode(m) ==
  WriteHead(m.type, m.req, m.isreq)
    \o FlattenSeq([i \in DOMAIN m.fields |-> WriteBuf(m.fields[i].id, m.fields[i].data)])

\* The two pieces of a message: one of them is missing when it does not wrap.
Cuts(b) == {<<b>>} \cup {<<SubSeq(b, 1, n), SubSeq(b, n + 1, Len(b))>> : n \in 1 .. Len(b) - 1}

Query(tokens, meant) == [tokens |-> tokens, meant |-> meant]
Links == {"OR", "AND", "=", "+", "-", "*"}

Chain(ops) ==
  <<Word("x")>> \o FlattenSeq([i \in DOMAIN ops |-> <<Op(ops[i]), Num(i)>>])

\* meant: what the query is to answer for these numbers.
Lists ==
  {Query(<<Num(x)>> \o not.t \o <<Word("IN"), Op("("), Num(a), Op(","), Num(b), Op(")")>>,
         IF (x \in {a, b}) # not.b THEN "yes" ELSE "no")
     : x \in 1 .. 3, a \in 1 .. 3, b \in 1 .. 3,
       not \in {[t |-> <<>>, b |-> FALSE], [t |-> <<Op("NOT")>>, b |-> TRUE]}}
Ranges ==
  {Query(<<Num(x)>> \o not.t \o <<Word("BETWEEN"), Num(a), Op("AND"), Num(b)>>,
         IF (x \in a .. b) # not.b THEN "yes" ELSE "no")
     : x \in 1 .. 3, a \in 1 .. 3, b \in 1 .. 3,
       not \in {[t |-> <<>>, b |-> FALSE], [t |-> <<Op("NOT")>>, b |-> TRUE]}}
Others ==
  {Query(<<Num(g), Op(op), Op("("), Word("y"), Op("/"), Num(0), Op(")")>>, "guard")
     : g \in 0 .. 1, op \in {"AND", "OR"}}
  \cup {Query(<<Word("f"), Op("("), Num(1), Op(","), Op("-"), Word("x"), Op(")"), Op(op), Num(1)>>,
              "call") : op \in Links}
Queries ==
  {Query(Chain(ops), "chain") : ops \in [1 .. 3 -> Links]} \cup Lists \cup Ranges \cup Others

AllInit ==
  \/ Init
  \/ /\ fate = "none"
     /\ \/ kind = "buffer" /\ body = BufferEmpty /\ ref = <<>>
        \/ kind = "slice" /\ body = SliceEmpty /\ ref = <<>>
        \/ /\ kind = "wire"
           /\ ref \in Messages
           /\ \E iov \in Cuts(Encode(ref)) :
                body = [r |-> ReaderOpen(iov), head |-> <<>>, got |-> <<>>]
        \/ /\ kind = "words"
           /\ \E n \in 1 .. MaxText : ref \in [1 .. n -> 0 .. 2]
           /\ \E iov \in Cuts(ref) : body = [r |-> ReaderOpen(iov), words |-> <<>>, n |-> 1]
        \/ kind = "ints" /\ body \in [1 .. 4 -> Ints] /\ ref = <<>>
        \/ kind = "expr" /\ \E q \in Queries : body = q.tokens /\ ref = <<q.meant>>

-----------------------------------------------------------------------------
(* The buffer                                                              *)

Padded(s, n) == s \o [i \in 1 .. Max({0, n - Len(s)}) |-> 0]
Upto(s, n) == SubSeq(Padded(s, n), 1, n)
After(s, n) == SubSeq(s, n + 1, Len(s))

Buffer(new, want) ==
  /\ Sound("buffer") /\ UNCHANGED fate
  /\ Len(want) <= MaxBytes
  /\ body' = new
  /\ ref' = want

BlobSet(blob) == Buffer(BufferSet(body, blob), blob)
BlobAppend(blob) == Buffer(BufferAppend(body, blob), ref \o blob)
BlobTruncate(n) == Buffer(BufferTruncate(body, n), SubSeq(ref, 1, Min({n, Len(ref)})))
BlobRemove(i, n) == Buffer(BufferRemove(body, i, n), SubSeq(ref, 1, Min({i, Len(ref)})) \o After(ref, i + n))
BlobInsert(i, blob) == Buffer(BufferInsert(body, i, blob), Upto(ref, i) \o blob \o After(ref, i))
BlobReplace(i, n, blob) ==
  Buffer(BufferReplace(body, i, n, blob), Upto(ref, i) \o blob \o After(ref, i + n))
BlobSqueeze == Buffer(BufferSqueeze(body), ref)

\* A part of the buffer is inserted into it.  The part is copied before it
\* moves; but when the block has to grow, it is gone by then.
BlobInsertPart(i, from) ==
  LET part == After(ref, from)
      grows == InsertedSize(body, i, Len(part)) > Len(body.block)
  IN  /\ Sound("buffer")
      /\ i <= Len(ref) /\ part # <<>> /\ Len(ref) + Len(part) <= MaxBytes
      /\ IF grows THEN fate' = "freed" /\ UNCHANGED <<body, ref>>
         ELSE /\ body' = BufferInsert(body, i, part)
              /\ ref' = Upto(ref, i) \o part \o After(ref, i)
              /\ UNCHANGED fate

(* The slice                                                               *)

PieceAppend(data) ==
  /\ Sound("slice") /\ UNCHANGED fate
  /\ Len(ref) + Len(data) <= MaxBytes
  /\ Len(SliceAppend(body, data)) <= MaxNodes
  /\ body' = SliceAppend(body, data)
  /\ ref' = ref \o data

PiecePrepend(data) ==
  /\ Sound("slice")
  /\ Len(ref) + Len(data) <= MaxBytes
  /\ Len(SlicePrepend(body, data)) <= MaxNodes
  /\ IF PrependMisplaces(body) THEN fate' = "misplaced" /\ UNCHANGED <<body, ref>>
     ELSE body' = SlicePrepend(body, data) /\ ref' = data \o ref /\ UNCHANGED fate

PiecesTrim(n) ==
  /\ Sound("slice") /\ UNCHANGED fate
  /\ n <= Len(ref)
  /\ body' = SliceTrim(body, n)
  /\ ref' = After(ref, n)

\* z_slice_clear
PiecesClear == Sound("slice") /\ body' = SliceEmpty /\ ref' = <<>> /\ UNCHANGED fate

(* The reader of a message.  A fetch that looks behind the last piece may  *)
(* never end; when it does, what it has fetched is returned.               *)

Looks(r) == fate' = IF r.beyond THEN "beyond" ELSE "none"

WireReadHead ==
  LET h == ParseHead(body.r)
  IN  /\ Sound("wire") /\ UNCHANGED ref
      /\ body.head = <<>>
      /\ body' = [body EXCEPT !.r = h.r, !.head = <<h.type, h.req, h.isreq>>]
      /\ Looks(h.r)

\* A field is read, and then its value is fetched, or skipped when the
\* field is not known.
WireReadField(known) ==
  LET field == ReadField(body.r)
      length == field.f.length
      sent == ref.fields[Len(body.got) + 1]
      value == RFetch(field.r, length)
  IN  /\ Sound("wire") /\ UNCHANGED ref
      /\ body.head # <<>> /\ Len(body.got) < Len(ref.fields)
      /\ IF sent.data = <<>> THEN fate' = "eight" /\ UNCHANGED body
         ELSE /\ body' = [body EXCEPT
                   !.r = IF known THEN value.r ELSE RSkip(field.r, length),
                   !.got = Append(@, [id |-> field.f.id,
                                      data |-> IF known THEN value.data ELSE <<>>])]
              /\ Looks(body'.r)

\* The words of a command.
ReadWord ==
  LET t == Tokenize(body.r, {0})
      word == SliceBytes(t.slice)
  IN  /\ Sound("words") /\ UNCHANGED <<ref, fate>>
      /\ body.n > 0
      /\ body' = [r |-> t.r, n |-> t.nread,
                  words |-> IF word = <<>> THEN body.words ELSE Append(body.words, word)]

(* A query that ends early                                                 *)

QueryCut ==
  /\ Sound("expr") /\ UNCHANGED fate
  /\ Len(body) > 1
  /\ body' = Front(body)
  /\ ref' = <<"cut">>

AllNext ==
  \/ Next
  \/ \E b \in Blobs : BlobSet(b) \/ BlobAppend(b)
  \/ \E n \in 0 .. MaxBytes : BlobTruncate(n) \/ BlobInsertPart(n, n \div 2)
  \/ \E i, n \in 0 .. MaxBytes : BlobRemove(i, n)
  \/ \E i \in 0 .. MaxBytes, b \in Blobs : BlobInsert(i, b)
  \/ \E i, n \in 0 .. MaxBytes, b \in Blobs : BlobReplace(i, n, b)
  \/ BlobSqueeze
  \/ \E b \in Blobs : PieceAppend(b) \/ PiecePrepend(b)
  \/ \E n \in 1 .. MaxBytes : PiecesTrim(n)
  \/ PiecesClear
  \/ WireReadHead
  \/ \E known \in BOOLEAN : WireReadField(known)
  \/ ReadWord
  \/ QueryCut

AllSpec == AllInit /\ [][AllNext]_vars

-----------------------------------------------------------------------------
(* Properties                                                              *)

\* A buffer holds what its operations make of a sequence, gaps as zeros,
\* and nothing is written behind its block, however it grew and shrank.
BufferExact ==
  kind = "buffer" /\ fate = "none" =>
    /\ Contents(body) = ref
    /\ ~body.overflow
    /\ body.size <= Len(body.block)

\* A slice holds its pieces in order whatever is appended, prepended and
\* trimmed.  Its length, its comparison and its reader stop at the first
\* empty place: they are right as long as no piece follows one, and the
\* reader only in a first node that is not full.
SliceExact ==
  kind = "slice" /\ fate = "none" =>
    LET flat == FlattenSeq(body)
        gap == \E i, j \in DOMAIN flat : i < j /\ flat[i] = <<>> /\ flat[j] # <<>>
    IN  /\ SliceBytes(body) = ref
        /\ (SliceLength(body) = Len(ref)) <=> ~gap
        /\ SliceEquals(body, ref) <=> ~gap
        /\ ~SliceEquals(body, Append(ref, 1))
        /\ ~gap /\ ~SliceRead(body).outside => SliceRead(body).data = ref
        /\ SliceStartsWith(body, ref) => Len(Pieces(body)) <= 1

\* A message comes back as it was written, wherever it is cut into two
\* pieces, whichever fields are fetched or skipped, and no byte is left; all
\* of it as far as the fetches end.  One that lies in both pieces and ends with
\* the last byte reads a length behind them (__iovec_reader_fetch): no other
\* one does, so whatever it finds there the message has been read.
WireExact ==
  kind = "wire" =>
    /\ fate = "beyond" =>
         /\ Len(body.r.iov) > 1 /\ Avail(body.r) = 0
         /\ Len(body.got) = Len(ref.fields)
    /\ fate = "eight" => ReadField(body.r).f.length = 8
    /\ body.head # <<>> => body.head = <<ref.type, ref.req, ref.isreq>>
    /\ \A i \in DOMAIN body.got :
         /\ body.got[i].id = ref.fields[i].id
         /\ body.got[i].data \in {<<>>, ref.fields[i].data}
    /\ body.head # <<>> /\ Len(body.got) = Len(ref.fields) => Avail(body.r) = 0

\* Splits a text at its zeros, leaving out empty words.
Wanted(text) ==
  LET Starts == {i \in DOMAIN text : text[i] # 0 /\ (i = 1 \/ text[i - 1] = 0)}
      WordAt(i) == SubSeq(text, i, i + Run(text, i, {0}, FALSE) - 1)
  IN  [j \in 1 .. Cardinality(Starts) |-> WordAt(SetToSortSeq(Starts, <)[j])]

\* The words of a text are found whole and in order wherever it is cut into
\* two pieces: in a word, in the separators, between the two.
WordsExact ==
  kind = "words" =>
    /\ IsPrefix(body.words, Wanted(ref))
    /\ body.n = 0 => body.words = Wanted(ref)

\* Integers at the edges of each size, alone, signed and in groups, come
\* back from the bytes they were encoded in, as many as announced.
IntsExact ==
  kind = "ints" =>
    /\ DecodeGroup(EncodeGroup(body, Four), Four) = body
    /\ LET three == SubSeq(body, 1, 3) IN DecodeGroup(EncodeGroup(three, Three), Three) = three
    /\ LET v == body[1]
           n == body[2] % 2^20
           id == body[3] % 2^16
           vint == EncodeVint(v)
           f == EncodeField(id, v)
       IN  /\ DecodeVint(vint) = <<VintSize(v), v>>
           /\ DecodeVint(Front(vint))[1] = -1
           /\ \A signed \in {n, -n} : UnZigZag(ZigZag(signed)) = signed
           /\ Len(f) = EncodedFieldLength(id, v)
           /\ v # 0 => DecodeField(f) = [n |-> Len(f), id |-> id, length |-> v]

\* The tree of a chain of operators, from left to right: the last of the
\* operators that bind least is the root.
RECURSIVE Grouped(_)
Grouped(q) ==
  LET ops == {i \in DOMAIN q : Precedence(q[i].text) >= 0}
      least == {i \in ops : \A j \in ops : Precedence(q[i].text) <= Precedence(q[j].text)}
      root == Max(least)
  IN  CASE ops = {} /\ q[1].kind = "int" -> [type |-> "int", val |-> q[1].val]
        [] ops = {} /\ q[1].kind = "identifier" -> [type |-> "identifier", name |-> q[1].text]
        [] OTHER -> Binary(q[root].text, Grouped(SubSeq(q, 1, root - 1)), Grouped(After(q, root)))

\* Two operators that bind alike, with tighter ones only between them.
Regrouped(q) ==
  \E i, j \in DOMAIN q :
    /\ i + 2 < j
    /\ Precedence(q[i].text) >= 0 /\ Precedence(q[i].text) = Precedence(q[j].text)
    /\ \A k \in i + 1 .. j - 1 :
         Precedence(q[k].text) >= 0 => Precedence(q[k].text) > Precedence(q[i].text)

\* The parser takes a chain of operators whole and groups it by precedence,
\* from left to right: all but chains like a - b * c - d, where the tighter
\* operator takes the later one with it.
ChainsGroup ==
  kind = "expr" /\ ref = <<"chain">> =>
    \A p \in {ParsePredicate(body)} :
      /\ ~p.hangs /\ p.at = Len(body) + 1
      /\ (p.e = Grouped(body)) <=> ~Regrouped(body)

\* The parser ends on every query but one that ends in a binary operator or
\* in the comma of an IN list: there the lexer gives the last token again for
\* ever.  A function takes the comma for four arguments and is done.
ParserEnds ==
  kind = "expr" =>
    LET last == Last(body).text
        listed == \E i \in DOMAIN body : body[i].text = "IN"
    IN  ParsePredicate(body).hangs <=> Precedence(last) >= 0 \/ (last = "," /\ listed)

\* When the left side of an AND or an OR decides, the right side is not
\* looked at: a name without a value, or a division by zero there, does no
\* harm.
Guarded ==
  kind = "expr" /\ ref = <<"guard">> =>
    \A p \in {ParsePredicate(body)} :
      LET decides == (body[2].text = "OR") <=> (body[1].val = 1)
      IN  Evaluate(p.e, <<>>) = IF decides THEN Value("int", body[1].val) ELSE Crash

\* x IN (a, b) holds for the listed values, x BETWEEN a AND b for the ones
\* from a to b, and NOT turns each round: expr-parser.c says so where it
\* builds the trees.
ListsMean ==
  kind = "expr" /\ ref[1] \in {"yes", "no"} =>
    (Evaluate(ParsePredicate(body).e, <<>>) = Value("int", 1)) <=> (ref[1] = "yes")
-----------------------------------------------------------------------------
\* The maps: the tree, the skip list and the hash map keep their own order and
\* hold, find and walk what was put and not removed (tree-avl.c, tree.c,
\* skiplist.c, hashmap-open.c).
MapsExact == AvlExact /\ AvlSeeks /\ SkipExact /\ HashExact

\* A block is read, sought and searched as the sorted map it was written from,
\* and several of them are merged in key order (bucket-vprefix.c, bucket.c,
\* map-merger.c).
BlockExact == BlockReads /\ BlockSearches /\ MergerExact

\* Buffers and slices hold what their operations make of a sequence (buffer.c,
\* slice.c).
BuffersExact == BufferExact /\ SliceExact

\* Integers, messages and words come back from their bytes wherever these are
\* cut, as far as the fetches of the last bytes end (coding-int.c,
\* coding-field.c, rpc-msg.c, reader.c, iovec.c).
CodingExact == IntsExact /\ WireExact /\ WordsExact

\* A predicate is parsed to its end, grouped by precedence and evaluated no
\* further than its value needs (expr-parser.c, expr-eval.c).
QueriesMean == ChainsGroup /\ ParserEnds /\ Guarded
=============================================================================
