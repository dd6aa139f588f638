------------------------------ MODULE RingBuf ------------------------------
(***************************************************************************)
(* The ring buffer of the connections (zcl/io/buffers/ringbuf.c): a buffer *)
(* of Size bytes, Size a power of two, with a head and a tail that count   *)
(* modulo 2 * Size, so that a full ring (tail and head Size apart) differs *)
(* from an empty one (tail and head equal).  Only their places modulo Size *)
(* are looked at to split what is read or written in at most two vectors,  *)
(* and a full ring then reads as an empty one.                             *)
(*                                                                         *)
(* A ring is a record [buf, head, tail]; bytes are any values.             *)
(***************************************************************************)
EXTENDS Naturals, SequencesExt

CONSTANTS Size, Blank   \* Blank: a byte that has not been written

NewRing == [buf |-> [i \in 0 .. Size - 1 |-> Blank], head |-> 0, tail |-> 0]

Full(r)  == r.tail = (r.head + Size) % (2 * Size)   \* head ^ size
Empty(r) == r.head = r.tail

\* The two vectors [at, len] of the free bytes, and of the bytes held.
None2 == <<[at |-> 0, len |-> 0], [at |-> 0, len |-> 0]>>

Around(from, to) ==
  <<[at |-> from, len |-> Size - from], [at |-> 0, len |-> to]>>

Between(from, to) == <<[at |-> from, len |-> to - from], [at |-> 0, len |-> 0]>>

\* __ringbuf_write_iov
WriteIov(r) ==
  LET h == r.head % Size
      t == r.tail % Size
  IN  CASE Full(r)             -> None2
        [] ~Full(r) /\ h <= t  -> Around(t, h)
        [] ~Full(r) /\ h > t   -> Between(t, h)

\* __ringbuf_read_iov
ReadIov(r) ==
  LET h == r.head % Size
      t == r.tail % Size
  IN  CASE Empty(r)            -> None2
        [] ~Empty(r) /\ h <= t -> Between(h, t)
        [] ~Empty(r) /\ h > t  -> Around(h, t)

Length(iov) == iov[1].len + iov[2].len
Least(a, b) == IF a <= b THEN a ELSE b

\* The bytes of two vectors, and the buffer with bs written along them.
Bytes(r, iov) ==
  [i \in 1 .. Length(iov) |->
     IF i <= iov[1].len THEN r.buf[iov[1].at + i - 1]
     ELSE r.buf[iov[2].at + i - 1 - iov[1].len]]

Stored(r, iov, bs) ==
  [i \in 0 .. Size - 1 |->
     CASE i \in iov[1].at .. iov[1].at + Least(iov[1].len, Len(bs)) - 1 ->
            bs[i - iov[1].at + 1]
       [] iov[1].len < Len(bs)
            /\ i \in iov[2].at .. iov[2].at + Len(bs) - iov[1].len - 1 ->
            bs[i - iov[2].at + iov[1].len + 1]
       [] OTHER -> r.buf[i]]

-----------------------------------------------------------------------------
\* Fault: the head is kept in one lap, and full looks empty.
RSkipLap(r, n) == [r EXCEPT !.head = (@ + n) % Size]

\* z_ringbuf_rskip
RSkip(r, n) == [r EXCEPT !.head = (@ + n) % (2 * Size)]

\* z_ringbuf_fd_fetch, when the socket gives bs, no more than fit.
Fetched(r, bs) ==
  [r EXCEPT !.buf = Stored(r, WriteIov(r), bs),
            !.tail = (@ + Len(bs)) % (2 * Size)]

\* Fault: all that was offered is skipped.
DumpedAll(r, n) == RSkip(r, Length(ReadIov(r)))

\* z_ringbuf_fd_dump: what it offers to the socket; the n bytes that the
\* socket takes are skipped.
Dumpable(r) == Bytes(r, ReadIov(r))
Dumped(r, n) == RSkip(r, n)

\* z_ringbuf_fetch: a look at the first n bytes, or nothing.
Peek(r, n) ==
  IF n <= Length(ReadIov(r)) THEN SubSeq(Bytes(r, ReadIov(r)), 1, n) ELSE <<>>

\* Fault: the vectors are not cut.
PopIovAll(r, n) == ReadIov(r)

\* z_ringbuf_pop_iov: the vectors cut to n bytes; nothing is skipped.
PopIov(r, n) ==
  LET iov == ReadIov(r)
  IN  IF n <= iov[1].len
      THEN [iov EXCEPT ![1].len = n, ![2].len = 0]
      ELSE [iov EXCEPT ![2].len = Least(n - iov[1].len, @)]

\* z_ringbuf_used
Used(r) ==
  LET h == r.head % Size
      t == r.tail % Size
  IN  CASE Empty(r)            -> 0
        [] ~Empty(r) /\ h <= t -> t - h
        [] ~Empty(r) /\ h > t  -> (Size - h) + t
=============================================================================
