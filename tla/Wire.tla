-------------------------------- MODULE Wire --------------------------------
(***************************************************************************)
(* The encoding of messages: integers and groups of integers, fields, the  *)
(* head of an RPC (zcl/io/coding, zcl/io/rpc/rpc-msg.c), written to a      *)
(* buffer (zcl/buffers/writer.c) and read back through a reader over the   *)
(* pieces in which the ring hands a message out (zcl/io/buffers/iovec.c,   *)
(* zcl/buffers/reader.c).  A buffer is a sequence of bytes here.           *)
(***************************************************************************)
EXTENDS ByteBuffers

Total(s) == FoldLeft(LAMBDA a, b : a + b, 0, s)

\* Fault: the limit of two bytes is one too high.
UintSizeLate(v) == 1 + Cardinality({n \in {2^8, 2^16 + 1, 2^24} : v >= n})

\* z_uint32_size, z_uint64_size; the values here have four bytes at most.
UintSize(v) == 1 + Cardinality({n \in {2^8, 2^16, 2^24} : v >= n})

\* z_encode_uint, z_decode_uint64
EncodeUint(n, v) == [i \in 1 .. n |-> (v \div 256^(i - 1)) % 256]
DecodeUint(b) == FoldLeftDomain(LAMBDA acc, i : acc + b[i] * 256^(i - 1), 0, b)

\* z_encode_vint
RECURSIVE EncodeVint(_)
EncodeVint(v) == IF v >= 128 THEN <<(v % 128) + 128>> \o EncodeVint(v \div 128) ELSE <<v>>

VintSize(v) == 1 + Cardinality({n \in {2^7, 2^14, 2^21, 2^28} : v >= n})

\* z_decode_vint: the bytes used and the value, -1 bytes when they end early.
DecodeVint(b) ==
  LET last == {i \in DOMAIN b : b[i] < 128}
      n == Min(last)
  IN  IF last = {} THEN <<-1, 0>>
      ELSE <<n, FoldLeftDomain(LAMBDA acc, i : acc + (b[i] % 128) * 128^(i - 1), 0,
                               SubSeq(b, 1, n))>>

\* z_encode_zigzag64, z_decode_zigzag64
ZigZag(n) == IF n >= 0 THEN 2 * n ELSE -2 * n - 1
UnZigZag(u) == IF u % 2 = 0 THEN u \div 2 ELSE -((u + 1) \div 2)

\* Groups of integers (z_encode_4int, z_encode_3int): a head byte of the
\* lengths less one, in fields of the given widths from the high bits down.
GroupHead(vals, widths) ==
  FoldLeftDomain(LAMBDA acc, i : acc * 2^widths[i] + UintSize(vals[i]) - 1, 0, vals)

EncodeGroup(vals, widths) ==
  <<GroupHead(vals, widths)>>
    \o FlattenSeq([i \in DOMAIN vals |-> EncodeUint(UintSize(vals[i]), vals[i])])

FieldOf(head, widths, i) ==
  (head \div 2^Total(SubSeq(widths, i + 1, Len(widths)))) % 2^widths[i]

DecodeGroup(b, widths) ==
  LET size(i) == 1 + FieldOf(b[1], widths, i)
      start(i) == 1 + Total([j \in 1 .. i - 1 |-> size(j)])
  IN  [i \in DOMAIN widths |-> DecodeUint(SubSeq(b, start(i) + 1, start(i) + size(i)))]

Four == <<2, 2, 2, 2>>
Three == <<3, 3, 2>>

-----------------------------------------------------------------------------
(* Fields                                                                  *)

\* z_encode_field: a length of 1 to 8 and an id of 0 to 13 stay in the head.
EncodeField(id, length) ==
  LET n == UintSize(length)
      m == UintSize(id)
      lead == IF length <= 8 THEN 16 * ((length + 7) % 8) ELSE 128 + 16 * (n - 1)
  IN  <<lead + IF id <= 13 THEN id + 2 ELSE m - 1>>
        \o (IF length <= 8 THEN <<>> ELSE EncodeUint(n, length))
        \o (IF id <= 13 THEN <<>> ELSE EncodeUint(m, id))

\* z_encoded_field_length
EncodedFieldLength(id, length) ==
  1 + (IF length > 8 THEN UintSize(length) ELSE 0) + (IF id > 13 THEN UintSize(id) ELSE 0)

\* Fault: the bytes of an id behind the head are not asked for.
NeedsLength(elength, flen1) == elength

\* The bytes of a field.
Needs(elength, flen1) == elength + IF flen1 >= 2 THEN 0 ELSE flen1 + 1

\* z_decode_field: [n, id, length], n negative when more bytes are needed.
DecodeField(b) ==
  LET flen0 == 1 + ((b[1] \div 16) % 8)
      flen1 == b[1] % 16
      external == b[1] >= 128
      elength == 1 + IF external THEN flen0 ELSE 0
      all == Needs(elength, flen1)
  IN  IF Len(b) < all THEN [n |-> -all, id |-> 0, length |-> 0]
      ELSE [n |-> all,
            id |-> IF flen1 >= 2 THEN flen1 - 2
                   ELSE DecodeUint(SubSeq(b, elength + 1, elength + flen1 + 1)),
            length |-> IF external THEN DecodeUint(SubSeq(b, 2, elength)) ELSE flen0]

\* z_write_field_uint64, z_write_field_int64, z_write_field_buf
WriteUint(id, v) == EncodeField(id, UintSize(v)) \o EncodeUint(UintSize(v), v)
WriteInt(id, n) == WriteUint(id, ZigZag(n))
WriteBuf(id, data) == EncodeField(id, Len(data)) \o data

\* z_rpc_write_head
WriteHead(type, req, isreq) ==
  <<32 * (UintSize(type) - 1) + 4 * (UintSize(req) - 1) + 2 * isreq>>
    \o EncodeUint(UintSize(type), type) \o EncodeUint(UintSize(req), req)

-----------------------------------------------------------------------------
(* The reader: the pieces, the one it is in, its offset there, and whether *)
(* it has looked for a piece behind the last one.                          *)

ReaderOpen(iov) == [iov |-> iov, ivec |-> 1, offset |-> 0, beyond |-> FALSE]

Rest(r) == SubSeq(r.iov[r.ivec], r.offset + 1, Len(r.iov[r.ivec]))
Avail(r) ==
  IF r.ivec > Len(r.iov) THEN 0
  ELSE Len(Rest(r)) + Len(FlattenSeq(SubSeq(r.iov, r.ivec + 1, Len(r.iov))))

\* __iovec_reader_next: what is left of the piece, or else the next piece.
Here(r) == IF Rest(r) = <<>> THEN [r EXCEPT !.ivec = @ + 1, !.offset = 0] ELSE r
RNext(r) ==
  LET h == Here(r)
  IN  IF Avail(r) = 0 THEN [data |-> <<>>, r |-> r]
      ELSE [data |-> Rest(h), r |-> [h EXCEPT !.offset = Len(h.iov[h.ivec])]]
RBackup(r, n) == [r EXCEPT !.offset = @ - n]

\* __iovec_reader_fetch: pieces are passed while they are no longer than
\* what is asked for.  Nothing ends the loop at the last piece: with all bytes
\* taken it reads the length of the next vector, which is not there, and goes
\* on for as long as it finds a zero; whenever it ends, no byte was added.
RECURSIVE Pass(_, _)
Pass(r, n) ==
  CASE r.ivec > Len(r.iov) ->
         [data |-> <<>>, r |-> [r EXCEPT !.offset = n, !.beyond = TRUE]]
    [] r.ivec <= Len(r.iov) /\ n >= Len(Rest(r)) ->
         LET on == Pass([r EXCEPT !.ivec = @ + 1, !.offset = 0], n - Len(Rest(r)))
         IN  [data |-> Rest(r) \o on.data, r |-> on.r]
    [] OTHER -> [data |-> SubSeq(Rest(r), 1, n), r |-> [r EXCEPT !.offset = n]]

RFetch(r, n) ==
  IF n <= Len(Rest(Here(r)))
  THEN [data |-> SubSeq(Rest(Here(r)), 1, n), r |-> [Here(r) EXCEPT !.offset = @ + n]]
  ELSE Pass(Here(r), n)

\* z_v_reader_rpc_parse_head
ParseHead(r) ==
  LET first == RNext(r)
      head == first.data[1]
      len0 == 1 + (head \div 32)
      len1 == 1 + ((head \div 4) % 8)
      back == RBackup(first.r, Len(first.data) - 1)
      type == RFetch(back, len0)
      req == RFetch(type.r, len1)
  IN  [r |-> req.r, type |-> DecodeUint(type.data), req |-> DecodeUint(req.data),
       isreq |-> (head \div 2) % 2]

\* z_v_reader_decode_field: a field that is not in one piece is put together.
ReadField(r) ==
  LET first == RNext(r)
      f == DecodeField(first.data)
      back == RBackup(first.r, Len(first.data))
      whole == RFetch(back, -f.n)
  IN  CASE f.n > 0 -> [f |-> f, r |-> RBackup(first.r, Len(first.data) - f.n)]
        [] f.n <= 0 /\ Avail(back) < -f.n -> [f |-> f, r |-> back]
        [] OTHER -> [f |-> DecodeField(whole.data), r |-> whole.r]

\* z_v_reader_skip
RECURSIVE RSkip(_, _)
RSkip(r, n) ==
  LET next == RNext(r)
      size == Len(next.data)
  IN  IF size >= n \/ size = 0 THEN RBackup(next.r, Max({0, size - n}))
      ELSE RSkip(next.r, n - size)

-----------------------------------------------------------------------------
(* Words: z_v_reader_tokenize                                              *)

\* How many bytes from there on are separators, or are not.
Run(data, from, seps, are) ==
  LET stops == {i \in from .. Len(data) : (data[i] \in seps) # are}
  IN  (IF stops = {} THEN Len(data) + 1 ELSE Min(stops)) - from

\* Fault: separators are passed in the middle of a word, too.
SkippedAlways(data, seps, length) == Run(data, 1, seps, TRUE)

\* __memtok_step: the separators in front of a word, none once it has begun.
Skipped(data, seps, length) ==
  IF length = 0 THEN Run(data, 1, seps, TRUE) ELSE 0

\* The pieces of the next word and the bytes read, the separator behind the
\* word with it; length is what the word has so far.
RECURSIVE TokenizeFrom(_, _, _, _, _)
TokenizeFrom(r, seps, slice, length, nread) ==
  LET next == RNext(r)
      data == next.data
      skip == Skipped(data, seps, length)
      n == Run(data, skip + 1, seps, FALSE)
      grown == IF length + n = 0 THEN slice
               ELSE SliceAppend(slice, SubSeq(data, skip + 1, skip + n))
      used == skip + n + 1
  IN  CASE data = <<>> -> [slice |-> slice, r |-> next.r, nread |-> nread]
        [] data # <<>> /\ length + n > 0 /\ used <= Len(data) ->
             [slice |-> grown, r |-> RBackup(next.r, Len(data) - used), nread |-> nread + used]
        [] OTHER -> TokenizeFrom(next.r, seps, grown, length + n, nread + Len(data))

Tokenize(r, seps) == TokenizeFrom(r, seps, SliceEmpty, 0, 0)
=============================================================================
