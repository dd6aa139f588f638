---------------------------- MODULE RedisProofs ----------------------------
(***************************************************************************)
(* Proofs about the redis service (Redis), for every size of the rings and *)
(* any number of commands.                                                 *)
(*                                                                         *)
(* A ring is taken for the bytes of a sequence that it holds (RingHolds):  *)
(* the one of a client for bytes of its stream, the one of the server for  *)
(* bytes of the answers (Owed).  The words of a piece of the stream are    *)
(* counted (WordsShape), and those of a piece that begins with a bulk are  *)
(* known (ProcessedBulk).  The inductive invariant RdInv says besides that *)
(* the stream is that of the commands (RdSent), that a ping which has been *)
(* carried out has been skipped (RdPending), and that bulks are skipped as *)
(* a whole, or up to their last separator (RdOrder).                       *)
(***************************************************************************)
EXTENDS Redis, FiniteSetTheorems, WellFoundedInduction, SequenceTheorems, TLAPS

-----------------------------------------------------------------------------
(* The ring.                                                               *)

\* How many bytes a ring holds, and the place of the j-th of them.
Load(r) == IF r.head <= r.tail THEN r.tail - r.head ELSE r.tail + 2 * Size - r.head

Lapped(p) == IF p < Size THEN p ELSE IF p < 2 * Size THEN p - Size ELSE p - 2 * Size
Place(r, j) == Lapped(r.head + j - 1)

RingOK(r) ==
  /\ r = [buf |-> r.buf, head |-> r.head, tail |-> r.tail]
  /\ r.buf = [i \in 0 .. Size - 1 |-> r.buf[i]]
  /\ r.head \in 0 .. 2 * Size - 1 /\ r.tail \in 0 .. 2 * Size - 1
  /\ Load(r) <= Size

\* A ring has room for a byte.
LEMMA SizeIs == Size \in Nat /\ Size > 0
BY RedisAssumption

\* Remainders without a division.
LEMMA InLap ==
  ASSUME NEW n \in Nat, NEW s \in Nat, s > 0, n < 2 * s
  PROVE  n % s = IF n < s THEN n ELSE n - s
<1>1. CASE n < s
  BY <1>1
<1>2. CASE n >= s
  BY <1>2
<1>. QED BY <1>1, <1>2

\* Places modulo the size, and counters modulo two sizes.
LEMMA LapIs ==
  ASSUME NEW n \in 0 .. 2 * Size - 1
  PROVE  n % Size = IF n < Size THEN n ELSE n - Size
BY SizeIs, InLap

LEMMA TwoLapsIs ==
  ASSUME NEW n \in 0 .. 4 * Size - 1
  PROVE  n % (2 * Size) = IF n < 2 * Size THEN n ELSE n - 2 * Size
<1>1. 2 * Size \in Nat /\ 2 * Size > 0 /\ n \in Nat /\ n < 2 * (2 * Size)
  BY SizeIs
<1>. QED BY <1>1, InLap

\* Between two counters, in either lap.
FarApart(h, t, l, f, S) == l \in Nat /\ (t = f <=> l = S) /\ (h = t <=> l = 0)

LEMMA Gap ==
  ASSUME NEW S \in Nat, S > 0, NEW h \in 0 .. 2 * S - 1, NEW t \in 0 .. 2 * S - 1,
         NEW l, l = IF h <= t THEN t - h ELSE t + 2 * S - h,
         NEW f, f = IF h + S < 2 * S THEN h + S ELSE h + S - 2 * S
  PROVE  FarApart(h, t, l, f, S)
<1>1. CASE h <= t
  BY <1>1 DEF FarApart
<1>2. CASE h > t
  BY <1>2 DEF FarApart
<1>. QED BY <1>1, <1>2

\* A ring is full when it holds Size bytes, and empty when it holds none.
LEMMA FullIs ==
  ASSUME NEW r, RingOK(r)
  PROVE  /\ Load(r) \in 0 .. Size
         /\ Full(r) <=> Load(r) = Size
         /\ Empty(r) <=> Load(r) = 0
<1>1. r.head \in 0 .. 2 * Size - 1 /\ r.tail \in 0 .. 2 * Size - 1 /\ Load(r) <= Size
  BY DEF RingOK
<1>2. (r.head + Size) % (2 * Size)
        = IF r.head + Size < 2 * Size THEN r.head + Size ELSE r.head + Size - 2 * Size
  BY <1>1, SizeIs, TwoLapsIs
<1>3. PICK f : f = (r.head + Size) % (2 * Size)
  OBVIOUS
<1>4. f = IF r.head + Size < 2 * Size THEN r.head + Size ELSE r.head + Size - 2 * Size
  BY <1>2, <1>3, Zenon
<1>5. Load(r) = IF r.head <= r.tail THEN r.tail - r.head ELSE r.tail + 2 * Size - r.head
  BY Zenon DEF Load
<1>6. /\ Load(r) \in Nat
      /\ r.tail = f <=> Load(r) = Size
      /\ r.head = r.tail <=> Load(r) = 0
  <2>1. FarApart(r.head, r.tail, Load(r), f, Size)
    BY <1>1, <1>4, <1>5, SizeIs, Gap, Zenon
  <2>. QED BY <2>1, Zenon DEF FarApart
<1>7. Load(r) \in 0 .. Size
  <2>1. PICK l : l = Load(r)
    OBVIOUS
  <2>2. l \in Nat /\ l <= Size
    BY <1>1, <1>6, <2>1, Zenon
  <2>3. l \in 0 .. Size
    BY <2>2, SizeIs
  <2>. QED BY <2>1, <2>3, Zenon
<1>. QED BY <1>3, <1>6, <1>7, Zenon DEF Full, Empty

\* The free bytes, and the bytes held.
LEMMA WriteIovIs ==
  ASSUME NEW r, RingOK(r), NEW iov, iov = WriteIov(r)
  PROVE  /\ Length(iov) = Size - Load(r)
         /\ iov[1].len \in Nat /\ iov[2].len \in Nat
         /\ iov[2].at = 0
         /\ iov[1].len > 0 => iov[1].at = Place(r, Load(r) + 1)
         /\ iov[2].len > 0 => iov[1].at + iov[1].len = Size
         /\ iov[1].at \in Nat /\ iov[1].at + iov[1].len <= Size /\ iov[2].len <= iov[1].at
         /\ iov[2].len > 0 => iov[1].len > 0
<1>1. r.head \in 0 .. 2 * Size - 1 /\ r.tail \in 0 .. 2 * Size - 1 /\ Load(r) <= Size
  BY DEF RingOK
<1>2. PICK h, t : h = r.head % Size /\ t = r.tail % Size
  OBVIOUS
<1>3. /\ h = (IF r.head < Size THEN r.head ELSE r.head - Size)
      /\ t = (IF r.tail < Size THEN r.tail ELSE r.tail - Size)
  BY <1>1, <1>2, LapIs
<1>4. CASE Full(r)
  <2>1. iov = None2
    BY <1>4 DEF WriteIov
  <2>2. iov[1].at = 0 /\ iov[1].len = 0 /\ iov[2].at = 0 /\ iov[2].len = 0
    BY <2>1 DEF None2
  <2>. QED BY <1>4, <2>2, FullIs, SizeIs DEF Length
<1>5. CASE ~Full(r) /\ h <= t
  <2>0. ~(h > t)
    BY <1>1, <1>3, <1>5, SizeIs
  <2>1. iov = Around(t, h)
    BY <1>2, <1>5, <2>0 DEF WriteIov
  <2>2. iov[1].at = t /\ iov[1].len = Size - t /\ iov[2].at = 0 /\ iov[2].len = h
    BY <2>1 DEF Around
  <2>3. Load(r) \in 0 .. Size - 1
    BY <1>5, FullIs, SizeIs
  <2>4. Size - t + h = Size - Load(r) /\ t = Place(r, Load(r) + 1)
    BY <1>1, <1>3, <1>5, <2>3, SizeIs DEF Load, Place, Lapped
  <2>5. h \in Nat /\ t \in Nat /\ h <= t /\ t < Size /\ Load(r) \in Nat
    BY <1>1, <1>3, <1>5, <2>3, SizeIs
  <2>6. Length(iov) = Size - t + h
    BY <2>2 DEF Length
  <2>. QED BY <2>2, <2>4, <2>5, <2>6, SizeIs
<1>6. CASE ~Full(r) /\ ~(h <= t)
  <2>0. h > t
    BY <1>1, <1>3, <1>6, SizeIs
  <2>1. iov = Between(t, h)
    BY <1>2, <1>6, <2>0 DEF WriteIov
  <2>2. iov[1].at = t /\ iov[1].len = h - t /\ iov[2].at = 0 /\ iov[2].len = 0
    BY <2>1 DEF Between
  <2>. QED BY <1>1, <1>3, <1>6, <2>0, <2>2, FullIs, SizeIs DEF Length, Load, Place, Lapped
<1>. QED BY <1>4, <1>5, <1>6

\* The vectors of the bytes held: none of a full ring.
LEMMA ReadIovIs ==
  ASSUME NEW r, RingOK(r), NEW iov, iov = ReadIov(r)
  PROVE  /\ Length(iov) = IF Full(r) THEN 0 ELSE Load(r)
         /\ iov[1].len \in Nat /\ iov[2].len \in Nat
         /\ iov[2].at = 0
         /\ iov[1].len > 0 => iov[1].at = Place(r, 1)
         /\ iov[2].len > 0 => iov[1].at + iov[1].len = Size
         /\ iov[1].at \in Nat /\ iov[1].at + iov[1].len <= Size /\ iov[2].len <= Size
         /\ iov[2].len > 0 => iov[1].len > 0
<1>1. r.head \in 0 .. 2 * Size - 1 /\ r.tail \in 0 .. 2 * Size - 1 /\ Load(r) <= Size
  BY DEF RingOK
<1>2. PICK h, t : h = r.head % Size /\ t = r.tail % Size
  OBVIOUS
<1>3. /\ h = (IF r.head < Size THEN r.head ELSE r.head - Size)
      /\ t = (IF r.tail < Size THEN r.tail ELSE r.tail - Size)
  BY <1>1, <1>2, LapIs
<1>4. CASE Empty(r)
  <2>1. iov = None2
    BY <1>4 DEF ReadIov
  <2>2. iov[1].at = 0 /\ iov[1].len = 0 /\ iov[2].at = 0 /\ iov[2].len = 0
    BY <2>1 DEF None2
  <2>. QED BY <1>4, <2>2, FullIs, SizeIs DEF Length
<1>5. CASE ~Empty(r) /\ h <= t
  <2>0. ~(h > t)
    BY <1>1, <1>3, <1>5, SizeIs
  <2>1. iov = Between(h, t)
    BY <1>2, <1>5, <2>0 DEF ReadIov
  <2>2. iov[1].at = h /\ iov[1].len = t - h /\ iov[2].at = 0 /\ iov[2].len = 0
    BY <2>1 DEF Between
  <2>a. h \in Nat /\ t \in Nat /\ h <= t /\ t < Size
    BY <1>1, <1>3, <1>5, SizeIs
  <2>b. t - h + 0 = t - h /\ h + (t - h) <= Size /\ t - h \in Nat
    BY <2>a, SizeIs
  <2>3. /\ (IF Full(r) THEN 0 ELSE Load(r)) = t - h /\ h = Place(r, 1)
    BY <1>1, <1>3, <1>5, FullIs, SizeIs DEF Load, Place, Lapped
  <2>4. Length(iov) = t - h + 0
    BY <2>2 DEF Length
  <2>5. Length(iov) = t - h
    BY <2>b, <2>4, Zenon
  <2>6. Length(iov) = IF Full(r) THEN 0 ELSE Load(r)
    BY <2>3, <2>5, Zenon
  <2>. QED BY <2>2, <2>3, <2>6, <2>a, <2>b, SizeIs
<1>6. CASE ~Empty(r) /\ ~(h <= t)
  <2>0. h > t
    BY <1>1, <1>3, <1>6, SizeIs
  <2>1. iov = Around(h, t)
    BY <1>2, <1>6, <2>0 DEF ReadIov
  <2>2. iov[1].at = h /\ iov[1].len = Size - h /\ iov[2].at = 0 /\ iov[2].len = t
    BY <2>1 DEF Around
  <2>. QED BY <1>1, <1>3, <1>6, <2>0, <2>2, FullIs, SizeIs DEF Length, Load, Place, Lapped
<1>. QED BY <1>4, <1>5, <1>6

\* What can be read of a ring that is not full is what it holds, in a row.
LEMMA DumpableIs ==
  ASSUME NEW r, RingOK(r)
  PROVE  Dumpable(r) = [j \in 1 .. (IF Full(r) THEN 0 ELSE Load(r)) |-> r.buf[Place(r, j)]]
<1>. DEFINE iov == ReadIov(r)
            n == IF Full(r) THEN 0 ELSE Load(r)
<1>1. /\ Length(iov) = n /\ iov[1].len \in Nat /\ iov[2].len \in Nat
      /\ iov[2].at = 0
      /\ iov[1].len > 0 => iov[1].at = Place(r, 1)
      /\ iov[2].len > 0 => iov[1].at + iov[1].len = Size
      /\ iov[1].at \in Nat /\ iov[1].at + iov[1].len <= Size /\ iov[2].len <= Size
      /\ iov[2].len > 0 => iov[1].len > 0
  BY ReadIovIs
<1>2. n = iov[1].len + iov[2].len
  BY <1>1 DEF Length
<1>3. r.head \in 0 .. 2 * Size - 1 /\ n \in 0 .. Size
  BY FullIs, SizeIs DEF RingOK
<1>. HIDE DEF iov, n
<1>4. ASSUME NEW j \in 1 .. n
      PROVE  (IF j <= iov[1].len THEN r.buf[iov[1].at + j - 1]
              ELSE r.buf[iov[2].at + j - 1 - iov[1].len]) = r.buf[Place(r, j)]
  <2>1. CASE j <= iov[1].len
    <3>1. iov[1].at + j - 1 = Place(r, j)
      BY <1>1, <1>2, <1>3, <2>1, SizeIs DEF Place, Lapped
    <3>. QED BY <2>1, <3>1
  <2>2. CASE ~(j <= iov[1].len)
    <3>1. iov[2].at + j - 1 - iov[1].len = Place(r, j)
      BY <1>1, <1>2, <1>3, <2>2, SizeIs DEF Place, Lapped
    <3>. QED BY <2>2, <3>1
  <2>. QED BY <2>1, <2>2
<1>5. Dumpable(r) = [j \in 1 .. n |-> IF j <= iov[1].len THEN r.buf[iov[1].at + j - 1]
                                      ELSE r.buf[iov[2].at + j - 1 - iov[1].len]]
  BY <1>1 DEF Dumpable, Bytes, iov
<1>. QED BY <1>4, <1>5 DEF n

\* A read from the socket appends.
\* bs has been put behind what r holds.
Enters(r, bs, q) ==
  /\ RingOK(q) /\ Load(q) = Load(r) + Len(bs)
  /\ \A j \in 1 .. Load(r) : q.buf[Place(q, j)] = r.buf[Place(r, j)]
  /\ \A j \in 1 .. Len(bs) : q.buf[Place(q, Load(r) + j)] = bs[j]

\* z_ringbuf_fd_fetch puts its bytes behind those that are there.
LEMMA FetchedIs ==
  ASSUME NEW r, RingOK(r), NEW V, NEW bs \in Seq(V), Len(bs) <= Size - Load(r),
         NEW q, q = Fetched(r, bs)
  PROVE  Enters(r, bs, q)
<1>. DEFINE iov == WriteIov(r)
            L == Len(bs)
            a == iov[1].at
            n == iov[1].len
<1>1. /\ n + iov[2].len = Size - Load(r) /\ n \in Nat /\ iov[2].len \in Nat
      /\ iov[2].at = 0
      /\ n > 0 => a = Place(r, Load(r) + 1)
      /\ iov[2].len > 0 => a + n = Size
      /\ a \in Nat /\ a + n <= Size /\ iov[2].len <= a
      /\ iov[2].len > 0 => n > 0
  BY WriteIovIs DEF Length
<1>2. /\ r.head \in 0 .. 2 * Size - 1 /\ r.tail \in 0 .. 2 * Size - 1 /\ Load(r) \in 0 .. Size
      /\ r = [buf |-> r.buf, head |-> r.head, tail |-> r.tail]
      /\ L \in Nat /\ L <= Size - Load(r)
  BY FullIs, LenProperties DEF RingOK
<1>3. /\ q.head = r.head /\ q.buf = Stored(r, iov, bs)
      /\ q.tail = (r.tail + L) % (2 * Size)
      /\ q = [buf |-> q.buf, head |-> q.head, tail |-> q.tail]
  BY <1>2 DEF Fetched
<1>. HIDE DEF L
<1>4. q.tail = IF r.tail + L < 2 * Size THEN r.tail + L ELSE r.tail + L - 2 * Size
  <2>1. PICK x : x = r.tail + L
    OBVIOUS
  <2>2. x \in 0 .. 4 * Size - 1
    BY <1>2, <2>1, SizeIs
  <2>3. q.tail = x % (2 * Size)
    BY <1>3, <2>1, Zenon
  <2>4. x % (2 * Size) = IF x < 2 * Size THEN x ELSE x - 2 * Size
    BY <2>2, TwoLapsIs
  <2>5. q.tail = IF x < 2 * Size THEN x ELSE x - 2 * Size
    BY <2>3, <2>4, Zenon
  <2>. QED BY <1>2, <2>1, <2>2, <2>5, SizeIs
<1>5. Load(q) = Load(r) + L /\ q.tail \in 0 .. 2 * Size - 1
  <2>1. PICK h, t, u : h = r.head /\ t = r.tail /\ u = q.tail
    OBVIOUS
  <2>2. /\ h \in 0 .. 2 * Size - 1 /\ t \in 0 .. 2 * Size - 1 /\ L \in Nat
        /\ u = IF t + L < 2 * Size THEN t + L ELSE t + L - 2 * Size
        /\ (IF h <= t THEN t - h ELSE t + 2 * Size - h) + L <= Size
    <3>1. PICK l : l = Load(r)
      OBVIOUS
    <3>2. l = IF h <= t THEN t - h ELSE t + 2 * Size - h
      BY <2>1, <3>1, Zenon DEF Load
    <3>3. l \in 0 .. Size /\ L \in Nat /\ L <= Size - l
      BY <1>2, <3>1, Zenon
    <3>4. l + L <= Size
      BY <3>3, SizeIs
    <3>. QED BY <1>2, <1>4, <2>1, <3>2, <3>4, Zenon
  <2>3. /\ u \in 0 .. 2 * Size - 1
        /\ (IF h <= u THEN u - h ELSE u + 2 * Size - h)
             = (IF h <= t THEN t - h ELSE t + 2 * Size - h) + L
    BY <2>2, SizeIs
  <2>. QED BY <1>3, <2>1, <2>3 DEF Load
<1>6. \A i \in 0 .. Size - 1 :
        /\ i \in a .. a + Least(n, L) - 1 => q.buf[i] = bs[i - a + 1]
        /\ n < L /\ i \in 0 .. L - n - 1 => q.buf[i] = bs[i + n + 1]
        /\ i \notin a .. a + Least(n, L) - 1 /\ ~(n < L /\ i \in 0 .. L - n - 1)
             => q.buf[i] = r.buf[i]
  <2>. SUFFICES ASSUME NEW i \in 0 .. Size - 1
                PROVE  /\ i \in a .. a + Least(n, L) - 1 => q.buf[i] = bs[i - a + 1]
                       /\ n < L /\ i \in 0 .. L - n - 1 => q.buf[i] = bs[i + n + 1]
                       /\ i \notin a .. a + Least(n, L) - 1 /\ ~(n < L /\ i \in 0 .. L - n - 1)
                            => q.buf[i] = r.buf[i]
    OBVIOUS
  <2>1. /\ 0 + L - n - 1 = L - n - 1 /\ i - 0 + n + 1 = i + n + 1
    BY <1>1, <1>2
  <2>b. q.buf[i] = CASE i \in a .. a + Least(n, L) - 1 -> bs[i - a + 1]
                     [] n < L /\ i \in iov[2].at .. iov[2].at + L - n - 1 ->
                          bs[i - iov[2].at + n + 1]
                     [] OTHER -> r.buf[i]
    BY <1>3, Zenon DEF Stored, L
  <2>2. q.buf[i] = CASE i \in a .. a + Least(n, L) - 1 -> bs[i - a + 1]
                     [] n < L /\ i \in 0 .. L - n - 1 -> bs[i + n + 1]
                     [] OTHER -> r.buf[i]
    BY <1>1, <2>1, <2>b, Zenon
  <2>. HIDE DEF a, n
  <2>3. ~(i \in a .. a + Least(n, L) - 1 /\ n < L /\ i \in 0 .. L - n - 1)
    <3>1. PICK m : m = iov[2].len
      OBVIOUS
    <3>2. n \in Nat /\ m \in Nat /\ a \in Nat /\ L \in Nat /\ L <= n + m /\ m <= a
      BY <1>1, <1>2, <3>1, SizeIs
    <3>. QED BY <3>2
  <2>. QED BY <2>2, <2>3
<1>7. RingOK(q)
  <2>1. q.buf = [i \in 0 .. Size - 1 |-> q.buf[i]]
    BY <1>3 DEF Stored
  <2>. QED BY <1>2, <1>3, <1>5, <2>1, SizeIs DEF RingOK
<1>. HIDE DEF a, n
<1>a. PICK h, m, D : h = r.head /\ m = iov[2].len /\ D = Load(r)
  OBVIOUS
<1>b. /\ h \in 0 .. 2 * Size - 1 /\ n \in Nat /\ m \in Nat /\ a \in Nat /\ L \in Nat
      /\ D \in 0 .. Size /\ n + m = Size - D /\ L <= n + m /\ a + n <= Size /\ m <= a
      /\ m > 0 => a + n = Size /\ n > 0
      /\ n > 0 => a = Lapped(h + D)
  <2>1. h + (D + 1) - 1 = h + D
    BY <1>2, <1>a
  <2>2. Place(r, Load(r) + 1) = Lapped(h + D)
    BY <1>a, <2>1, Zenon DEF Place
  <2>. QED BY <1>1, <1>2, <1>a, <2>2, SizeIs
<1>c. ASSUME NEW j \in Nat
      PROVE  /\ Place(q, j) = Place(r, j)
             /\ Place(r, j) = Lapped(h + j - 1)
  BY <1>3, <1>a, Zenon DEF Place
<1>8. ASSUME NEW j \in 1 .. Load(r) PROVE q.buf[Place(q, j)] = r.buf[Place(r, j)]
  <2>1. PICK x : x = Place(r, j)
    OBVIOUS
  <2>2. /\ j \in 1 .. D /\ Place(q, j) = x
        /\ x = Lapped(h + j - 1)
    <3>1. j \in Nat /\ j \in 1 .. D
      BY <1>a, <1>b
    <3>. QED BY <1>c, <2>1, <3>1, Zenon
  <2>3. x \in 0 .. Size - 1
    BY <1>b, <2>2, SizeIs DEF Lapped
  <2>4. x \notin a .. a + Least(n, L) - 1
    <3>1. Least(n, L) \in Nat /\ Least(n, L) <= n
      BY <1>b DEF Least
    <3>2. ~(a <= x /\ x < a + n)
      BY <1>b, <2>2, SizeIs DEF Lapped
    <3>. QED BY <1>b, <2>3, <3>1, <3>2
  <2>5. ~(n < L /\ x \in 0 .. L - n - 1)
    BY <1>b, <2>2, SizeIs DEF Lapped
  <2>. QED BY <1>6, <2>1, <2>2, <2>3, <2>4, <2>5
<1>9. ASSUME NEW j \in 1 .. L PROVE q.buf[Place(q, Load(r) + j)] = bs[j]
  <2>1. CASE j <= n
    <3>0. D + j \in Nat
      BY <1>b
    <3>1. Place(q, Load(r) + j) = a + j - 1 /\ a + j - 1 \in 0 .. Size - 1
      <4>1. PICK x : x = Place(q, D + j)
        OBVIOUS
      <4>2. x = Lapped(h + (D + j) - 1)
        BY <1>c, <3>0, <4>1, Zenon
      <4>3. x = a + j - 1 /\ a + j - 1 \in 0 .. Size - 1
        BY <1>b, <2>1, <4>2, SizeIs DEF Lapped
      <4>. QED BY <1>a, <4>1, <4>3
    <3>2. a + j - 1 \in a .. a + Least(n, L) - 1 /\ (a + j - 1) - a + 1 = j
      BY <1>b, <2>1 DEF Least
    <3>. QED BY <1>6, <3>1, <3>2
  <2>2. CASE j > n
    <3>0. D + j \in Nat
      BY <1>b
    <3>1. Place(q, Load(r) + j) = j - n - 1 /\ j - n - 1 \in 0 .. Size - 1
      <4>1. PICK x : x = Place(q, D + j)
        OBVIOUS
      <4>2. x = Lapped(h + (D + j) - 1)
        BY <1>c, <3>0, <4>1, Zenon
      <4>3. x = j - n - 1 /\ j - n - 1 \in 0 .. Size - 1
        BY <1>b, <2>2, <4>2, SizeIs DEF Lapped
      <4>. QED BY <1>a, <4>1, <4>3
    <3>2. n < L /\ j - n - 1 \in 0 .. L - n - 1 /\ (j - n - 1) + n + 1 = j
      BY <1>b, <2>2
    <3>. QED BY <1>6, <3>1, <3>2
  <2>. QED BY <1>b, <2>1, <2>2
<1>. QED BY <1>5, <1>7, <1>8, <1>9 DEF L, Enters

\* A skip drops from the front.
LEMMA RSkipIs ==
  ASSUME NEW r, RingOK(r), NEW n \in 0 .. Load(r), NEW q, q = RSkip(r, n)
  PROVE  /\ RingOK(q) /\ Load(q) = Load(r) - n
         /\ \A j \in 1 .. Load(q) : q.buf[Place(q, j)] = r.buf[Place(r, n + j)]
<1>1. /\ r.head \in 0 .. 2 * Size - 1 /\ r.tail \in 0 .. 2 * Size - 1 /\ Load(r) \in 0 .. Size
      /\ r = [buf |-> r.buf, head |-> r.head, tail |-> r.tail]
      /\ r.buf = [i \in 0 .. Size - 1 |-> r.buf[i]] /\ n \in 0 .. Size /\ n <= Load(r)
  BY FullIs, SizeIs DEF RingOK
<1>2. /\ q.tail = r.tail /\ q.buf = r.buf /\ q.head = (r.head + n) % (2 * Size)
      /\ q = [buf |-> q.buf, head |-> q.head, tail |-> q.tail]
  BY <1>1 DEF RSkip
<1>3. q.head = IF r.head + n < 2 * Size THEN r.head + n ELSE r.head + n - 2 * Size
  <2>1. PICK x : x = r.head + n
    OBVIOUS
  <2>2. x \in 0 .. 4 * Size - 1
    BY <1>1, <2>1, SizeIs
  <2>3. q.head = x % (2 * Size)
    BY <1>2, <2>1, Zenon
  <2>4. x % (2 * Size) = IF x < 2 * Size THEN x ELSE x - 2 * Size
    BY <2>2, TwoLapsIs
  <2>5. q.head = IF x < 2 * Size THEN x ELSE x - 2 * Size
    BY <2>3, <2>4, Zenon
  <2>. QED BY <1>1, <2>1, <2>2, <2>5, SizeIs
<1>4. Load(q) = Load(r) - n /\ q.head \in 0 .. 2 * Size - 1
  <2>1. PICK h, t, u : h = r.head /\ t = r.tail /\ u = q.head
    OBVIOUS
  <2>2. /\ h \in 0 .. 2 * Size - 1 /\ t \in 0 .. 2 * Size - 1 /\ n \in Nat
        /\ u = IF h + n < 2 * Size THEN h + n ELSE h + n - 2 * Size
        /\ n <= (IF h <= t THEN t - h ELSE t + 2 * Size - h)
        /\ (IF h <= t THEN t - h ELSE t + 2 * Size - h) <= Size
    BY <1>1, <1>3, <2>1, SizeIs DEF Load
  <2>3. /\ u \in 0 .. 2 * Size - 1
        /\ (IF u <= t THEN t - u ELSE t + 2 * Size - u)
             = (IF h <= t THEN t - h ELSE t + 2 * Size - h) - n
    BY <2>2, SizeIs
  <2>. QED BY <1>2, <2>1, <2>3 DEF Load
<1>5. RingOK(q)
  BY <1>1, <1>2, <1>4, SizeIs DEF RingOK
<1>6. ASSUME NEW j \in 1 .. Load(q) PROVE Place(q, j) = Place(r, n + j)
  <2>1. PICK h, u : h = r.head /\ u = q.head
    OBVIOUS
  <2>2. /\ h \in 0 .. 2 * Size - 1 /\ n \in 0 .. Size
        /\ u = IF h + n < 2 * Size THEN h + n ELSE h + n - 2 * Size
    BY <1>1, <1>3, <2>1, Zenon
  <2>3. j \in 1 .. Size - n
    BY <1>1, <1>4, SizeIs
  <2>4. Lapped(u + j - 1) = Lapped(h + (n + j) - 1)
    <3>1. CASE h + n < 2 * Size
      <4>1. u + j - 1 = h + (n + j) - 1
        BY <2>2, <2>3, <3>1, SizeIs
      <4>. QED BY <4>1, Zenon
    <3>2. CASE ~(h + n < 2 * Size)
      <4>1. u = h + n - 2 * Size /\ u \in 0 .. Size - 1
        BY <2>2, <3>2, SizeIs
      <4>2. u + j - 1 < Size /\ h + (n + j) - 1 = u + j - 1 + 2 * Size /\ u + j - 1 \in Nat
        BY <2>2, <2>3, <4>1, SizeIs
      <4>. QED BY <4>2, SizeIs DEF Lapped
    <3>. QED BY <3>1, <3>2
  <2>. QED BY <2>1, <2>4, Zenon DEF Place
<1>. QED BY <1>2, <1>4, <1>5, <1>6

\* A new ring is empty.
LEMMA NewRingIs == RingOK(NewRing) /\ Load(NewRing) = 0
<1>1. /\ NewRing.head = 0 /\ NewRing.tail = 0
      /\ NewRing.buf = [i \in 0 .. Size - 1 |-> Blank]
      /\ NewRing = [buf |-> NewRing.buf, head |-> NewRing.head, tail |-> NewRing.tail]
  BY DEF NewRing
<1>. QED BY <1>1, SizeIs DEF RingOK, Load

\* A set of naturals has a least element.
LEMMA LeastNat ==
  ASSUME NEW S, S \subseteq Nat, S # {}
  PROVE  \E m \in S : \A n \in S : m <= n
<1>. DEFINE R == {p \in Nat \X Nat : p[1] < p[2]}
<1>1. IsWellFoundedOn(R, Nat)
  BY NatLessThanWellFounded DEF OpToRel
<1>2. PICK m \in S : \A n \in S : ~(<<n, m>> \in R)
  <2>. HIDE DEF R
  <2>. QED BY <1>1, WFMin
<1>3. \A n \in S : n \in Nat /\ m \in Nat /\ ~(n < m)
  BY <1>2
<1>. QED BY <1>3

\* What holds of 0 and goes from each number to the next holds up to n.
LEMMA UpTo ==
  ASSUME NEW n \in Nat, NEW G, 0 \in G, \A i \in 1 .. n : i - 1 \in G => i \in G
  PROVE  \A i \in 0 .. n : i \in G
<1>. SUFFICES ASSUME NEW j \in 0 .. n, j \notin G PROVE FALSE
  OBVIOUS
<1>1. PICK C : C = {i \in 0 .. n : i \notin G}
  OBVIOUS
<1>2. C \subseteq Nat /\ C # {}
  BY <1>1
<1>3. PICK m \in C : \A k \in C : m <= k
  BY <1>2, LeastNat
<1>4. m \in Nat /\ m <= n /\ m \notin G /\ m # 0
  BY <1>1, <1>3
<1>5. m \in 1 .. n /\ m - 1 \in 0 .. n /\ ~(m <= m - 1)
  BY <1>4
<1>6. m - 1 \notin C
  BY <1>3, <1>5
<1>. QED BY <1>1, <1>4, <1>5, <1>6

\* The sequences q[1], q[2], ... one after the other.
Joined(V, n, q, h) ==
  h \in [0 .. n -> Seq(V)] /\ h[0] = <<>> /\ \A i \in 1 .. n : h[i] = h[i - 1] \o q[i]

\* The sequences q[1] to q[n] can be joined.
LEMMA Joins ==
  ASSUME NEW V, NEW n \in Nat, NEW q \in [1 .. n -> Seq(V)]
  PROVE  \E h : Joined(V, n, q, h)
<1>1. PICK G : G = {m \in 0 .. n : \E h : Joined(V, m, q, h)}
  OBVIOUS
<1>2. 0 \in G
  <2>1. PICK h : h = [i \in 0 .. 0 |-> <<>>]
    OBVIOUS
  <2>2. h \in [0 .. 0 -> Seq(V)] /\ h[0] = <<>> /\ \A i \in 1 .. 0 : FALSE
    BY <2>1, EmptySeq
  <2>3. Joined(V, 0, q, h)
    BY <2>2 DEF Joined
  <2>. QED BY <1>1, <2>3
<1>3. ASSUME NEW m \in 1 .. n, m - 1 \in G PROVE m \in G
  <2>1. PICK g : Joined(V, m - 1, q, g)
    BY <1>1, <1>3
  <2>2. PICK h : h = [i \in 0 .. m |-> IF i = m THEN g[m - 1] \o q[m] ELSE g[i]]
    OBVIOUS
  <2>3. /\ \A i \in 0 .. m : i # m => i \in 0 .. m - 1
        /\ \A i \in 1 .. m : i - 1 \in 0 .. m - 1 /\ i - 1 # m /\ i - 1 \in 0 .. m
        /\ \A i \in 1 .. m : i # m => i \in 1 .. m - 1
        /\ m - 1 \in 0 .. m - 1 /\ 0 \in 0 .. m /\ 0 # m /\ m \in 0 .. m
    OBVIOUS
  <2>4. /\ g \in [0 .. m - 1 -> Seq(V)] /\ g[0] = <<>>
        /\ \A i \in 1 .. m - 1 : g[i] = g[i - 1] \o q[i]
    BY <2>1 DEF Joined
  <2>5. g[m - 1] \o q[m] \in Seq(V)
    <3>1. g[m - 1] \in Seq(V) /\ q[m] \in Seq(V)
      BY <2>3, <2>4
    <3>. QED BY <3>1, ConcatProperties
  <2>6. h \in [0 .. m -> Seq(V)]
    BY <2>2, <2>3, <2>4, <2>5
  <2>a. h[0] = <<>>
    BY <2>2, <2>3, <2>4
  <2>b. ASSUME NEW i \in 1 .. m PROVE h[i] = h[i - 1] \o q[i]
    <3>1. i \in 0 .. m /\ i - 1 \in 0 .. m /\ i - 1 # m
      BY <2>3
    <3>2. h[i - 1] = g[i - 1]
      BY <2>2, <3>1
    <3>3. CASE i = m
      BY <2>2, <3>1, <3>2, <3>3
    <3>4. CASE i # m
      <4>1. g[i] = g[i - 1] \o q[i]
        BY <2>3, <2>4, <3>4
      <4>. QED BY <2>2, <3>1, <3>2, <3>4, <4>1
    <3>. QED BY <3>3, <3>4
  <2>7. h[0] = <<>> /\ \A i \in 1 .. m : h[i] = h[i - 1] \o q[i]
    BY <2>a, <2>b
  <2>8. Joined(V, m, q, h)
    BY <2>6, <2>7 DEF Joined
  <2>. QED BY <1>1, <2>3, <2>8
<1>4. \A i \in 0 .. n : i \in G
  BY <1>2, <1>3, UpTo
<1>5. n \in 0 .. n
  OBVIOUS
<1>. QED BY <1>1, <1>4, <1>5

FlatUpTo(q, n, g) ==
  g = [i \in 1 .. n |-> IF i = 1 THEN q[i] ELSE g[i - 1] \o q[i]]

\* What FlattenSeq computes on the way is the join.
LEMMA FlatJoined ==
  ASSUME NEW V, NEW n \in Nat, NEW q \in [1 .. n -> Seq(V)], NEW h, Joined(V, n, q, h),
         NEW g, FlatUpTo(q, n, g)
  PROVE  \A i \in 1 .. n : g[i] = h[i]
<1>1. ASSUME NEW i \in 1 .. n PROVE g[i] = IF i = 1 THEN q[i] ELSE g[i - 1] \o q[i]
  <2>1. g = [j \in 1 .. n |-> IF j = 1 THEN q[j] ELSE g[j - 1] \o q[j]]
    BY DEF FlatUpTo
  <2>. QED BY <2>1
<1>2. PICK G : G = {i \in 0 .. n : i = 0 \/ g[i] = h[i]}
  OBVIOUS
<1>3. 0 \in G
  BY <1>2
<1>4. ASSUME NEW i \in 1 .. n, i - 1 \in G PROVE i \in G
  <2>0. i \in 0 .. n
    OBVIOUS
  <2>1. h[i] = h[i - 1] \o q[i] /\ h[0] = <<>> /\ i \in 0 .. n
    BY <2>0, Zenon DEF Joined
  <2>2. CASE i = 1
    <3>1. i - 1 = 0
      BY <2>2
    <3>2. <<>> \o q[i] = q[i]
      <4>1. q[i] \in Seq(V)
        OBVIOUS
      <4>. QED BY <4>1, ConcatEmptySeq
    <3>. QED BY <1>1, <1>2, <2>1, <2>2, <3>1, <3>2
  <2>3. CASE i # 1
    <3>1. i - 1 # 0
      BY <2>3
    <3>. QED BY <1>1, <1>2, <1>4, <2>1, <2>3, <3>1
  <2>. QED BY <2>2, <2>3
<1>5. \A i \in 0 .. n : i \in G
  BY <1>3, <1>4, UpTo
<1>6. \A i \in 1 .. n : i \in 0 .. n /\ i # 0
  OBVIOUS
<1>. QED BY <1>2, <1>5, <1>6

\* What FlattenSeq computes on the way is there.
LEMMA FlatExists ==
  ASSUME NEW V, NEW n \in Nat, NEW q \in [1 .. n -> Seq(V)], NEW h, Joined(V, n, q, h)
  PROVE  \E g : FlatUpTo(q, n, g)
<1>1. PICK g : g = [i \in 1 .. n |-> h[i]]
  OBVIOUS
<1>2. ASSUME NEW i \in 1 .. n PROVE g[i] = IF i = 1 THEN q[i] ELSE g[i - 1] \o q[i]
  <2>1. h[i] = h[i - 1] \o q[i] /\ h[0] = <<>>
    BY DEF Joined
  <2>2. CASE i = 1
    <3>1. i - 1 = 0
      BY <2>2
    <3>2. <<>> \o q[i] = q[i]
      <4>1. q[i] \in Seq(V)
        OBVIOUS
      <4>. QED BY <4>1, ConcatEmptySeq
    <3>. QED BY <1>1, <2>1, <2>2, <3>1, <3>2
  <2>3. CASE i # 1
    <3>1. i - 1 \in 1 .. n
      BY <2>3
    <3>. QED BY <1>1, <2>1, <2>3, <3>1
  <2>. QED BY <2>2, <2>3
<1>3. g = [i \in 1 .. n |-> IF i = 1 THEN q[i] ELSE g[i - 1] \o q[i]]
  BY <1>1, <1>2
<1>. QED BY <1>3 DEF FlatUpTo

\* A function on 1 .. m is a sequence of length m.
LEMMA InSeq ==
  ASSUME NEW S, NEW m \in Nat, NEW b \in [1 .. m -> S]
  PROVE  b \in Seq(S) /\ Len(b) = m
OBVIOUS

\* FlattenSeq is the join.
LEMMA FlattenIs ==
  ASSUME NEW V, NEW n \in Nat, NEW q \in [1 .. n -> Seq(V)], NEW h, Joined(V, n, q, h)
  PROVE  FlattenSeq(q) = h[n]
<1>1. q \in Seq(Seq(V)) /\ Len(q) = n
  <2>1. PICK W : W = Seq(V)
    OBVIOUS
  <2>. QED BY <2>1, InSeq
<1>2. CASE n = 0
  <2>1. q = <<>>
    BY <1>1, <1>2
  <2>2. FlattenSeq(q) = q
    BY <1>1, <1>2 DEF FlattenSeq
  <2>. QED BY <1>2, <2>1, <2>2 DEF Joined
<1>3. CASE n # 0
  <2>1. PICK g : g = CHOOSE f : f = [i \in 1 .. n |-> IF i = 1 THEN q[i] ELSE f[i - 1] \o q[i]]
    OBVIOUS
  <2>2. FlattenSeq(q) = g[n]
    BY <1>1, <1>3, <2>1 DEF FlattenSeq
  <2>3. \E f : FlatUpTo(q, n, f)
    BY FlatExists, ZenonT(60)
  <2>4. FlatUpTo(q, n, g)
    BY <2>1, <2>3, ZenonT(60) DEF FlatUpTo
  <2>5. n \in 1 .. n
    BY <1>3
  <2>6. \A i \in 1 .. n : g[i] = h[i]
    BY <2>4, FlatJoined
  <2>. QED BY <2>2, <2>5, <2>6
<1>. QED BY <1>2, <1>3

\* What FlattenSeq makes of one sequence more, and of none.
LEMMA FlattenMore ==
  ASSUME NEW V, NEW n \in Nat, NEW q \in [1 .. n + 1 -> Seq(V)]
  PROVE  LET before == FlattenSeq([i \in 1 .. n |-> q[i]])
         IN  before \in Seq(V) /\ FlattenSeq(q) = before \o q[n + 1]
<1>0. n + 1 \in Nat
  OBVIOUS
<1>1. PICK h : Joined(V, n + 1, q, h)
  BY <1>0, Joins
<1>2. PICK p : p = [i \in 1 .. n |-> q[i]]
  OBVIOUS
<1>3. p \in [1 .. n -> Seq(V)] /\ \A i \in 1 .. n : p[i] = q[i]
  <2>1. \A i \in 1 .. n : i \in 1 .. n + 1
    OBVIOUS
  <2>. QED BY <1>2, <2>1
<1>4. PICK f : f = [i \in 0 .. n |-> h[i]]
  OBVIOUS
<1>5. Joined(V, n, p, f)
  <2>1. /\ h \in [0 .. n + 1 -> Seq(V)] /\ h[0] = <<>>
        /\ \A i \in 1 .. n + 1 : h[i] = h[i - 1] \o q[i]
    BY <1>1 DEF Joined
  <2>2. /\ \A i \in 0 .. n : i \in 0 .. n + 1
        /\ \A i \in 1 .. n : i \in 1 .. n + 1 /\ i \in 0 .. n /\ i - 1 \in 0 .. n
        /\ 0 \in 0 .. n
    OBVIOUS
  <2>3. f \in [0 .. n -> Seq(V)] /\ f[0] = <<>>
    BY <1>4, <2>1, <2>2
  <2>4. \A i \in 1 .. n : f[i] = f[i - 1] \o p[i]
    BY <1>3, <1>4, <2>1, <2>2
  <2>. QED BY <2>3, <2>4 DEF Joined
<1>6. FlattenSeq(p) = h[n]
  <2>1. FlattenSeq(p) = f[n]
    BY <1>3, <1>5, FlattenIs
  <2>. QED BY <1>4, <2>1
<1>7. FlattenSeq(q) = h[n + 1]
  BY <1>0, <1>1, FlattenIs
<1>8. h[n + 1] = h[n] \o q[n + 1] /\ h[n] \in Seq(V)
  <2>1. n + 1 \in 1 .. n + 1 /\ (n + 1) - 1 = n /\ n \in 0 .. n + 1
    OBVIOUS
  <2>2. h[n + 1] = h[(n + 1) - 1] \o q[n + 1] /\ h[n] \in Seq(V)
    BY <1>1, <2>1 DEF Joined
  <2>. QED BY <2>1, <2>2
<1>. QED BY <1>2, <1>6, <1>7, <1>8

\* Of no sequences the join is empty.
LEMMA FlattenNone ==
  ASSUME NEW q, q = [i \in 1 .. 0 |-> q[i]]
  PROVE  FlattenSeq(q) = <<>>
<1>1. q = <<>> /\ Len(q) = 0
  OBVIOUS
<1>. QED BY <1>1 DEF FlattenSeq

-----------------------------------------------------------------------------
(* The words of a row of bytes.                                            *)

Starts(bs) == {i \in DOMAIN bs : bs[i] # Sep /\ (i = 1 \/ bs[i - 1] = Sep)}
UpToStart(bs, i) == {j \in Starts(bs) : j <= i}
Nth(bs, k) == CHOOSE i \in Starts(bs) : Cardinality(UpToStart(bs, i)) = k
Stops(bs, i) == {j \in i .. Len(bs) + 1 : j = Len(bs) + 1 \/ bs[j] = Sep}
Stop(bs, i) == Min(Stops(bs, i))

\* The words of bs, by their starts and stops.
LEMMA WordsAre ==
  ASSUME NEW bs
  PROVE  Words(bs) =
           [k \in 1 .. Cardinality(Starts(bs)) |->
              [word |-> SubSeq(bs, Nth(bs, k), Stop(bs, Nth(bs, k)) - 1),
               upto |-> Least(Stop(bs, Nth(bs, k)), Len(bs))]]
BY DEF Words, Starts, UpToStart, Nth, Stops, Stop

\* The starts are places of bs, finitely many.
LEMMA StartsFinite ==
  ASSUME NEW V, NEW bs \in Seq(V)
  PROVE  /\ Starts(bs) \subseteq 1 .. Len(bs) /\ IsFiniteSet(Starts(bs))
         /\ Cardinality(Starts(bs)) \in Nat
         /\ \A i : /\ IsFiniteSet(UpToStart(bs, i)) /\ UpToStart(bs, i) \subseteq Starts(bs)
                   /\ Cardinality(UpToStart(bs, i)) \in Nat
<1>1. Len(bs) \in Nat /\ DOMAIN bs = 1 .. Len(bs)
  BY LenProperties
<1>2. Starts(bs) \subseteq 1 .. Len(bs)
  BY <1>1 DEF Starts
<1>3. IsFiniteSet(1 .. Len(bs))
  BY <1>1, FS_Interval
<1>4. \A i : UpToStart(bs, i) \subseteq Starts(bs)
  BY DEF UpToStart
<1>5. IsFiniteSet(Starts(bs))
  BY <1>2, <1>3, FS_Subset
<1>6. \A i : IsFiniteSet(UpToStart(bs, i))
  BY <1>4, <1>5, FS_Subset
<1>. QED BY <1>2, <1>4, <1>5, <1>6, FS_CardinalityType

\* A later start has more starts before it.
LEMMA RankLess ==
  ASSUME NEW V, NEW bs \in Seq(V), NEW i \in Starts(bs), NEW j \in Starts(bs), i < j
  PROVE  Cardinality(UpToStart(bs, i)) < Cardinality(UpToStart(bs, j))
<1>1. i \in Nat /\ j \in Nat /\ Starts(bs) \subseteq Nat
  BY StartsFinite, LenProperties
<1>2. /\ UpToStart(bs, i) \subseteq UpToStart(bs, j)
      /\ j \in UpToStart(bs, j) /\ j \notin UpToStart(bs, i)
  BY <1>1 DEF UpToStart
<1>3. /\ IsFiniteSet(UpToStart(bs, j)) /\ Cardinality(UpToStart(bs, i)) \in Nat
      /\ Cardinality(UpToStart(bs, j)) \in Nat
  BY StartsFinite
<1>4. /\ Cardinality(UpToStart(bs, i)) <= Cardinality(UpToStart(bs, j))
      /\ Cardinality(UpToStart(bs, i)) # Cardinality(UpToStart(bs, j))
  BY <1>2, <1>3, FS_Subset
<1>. QED BY <1>3, <1>4

\* There is a k-th start.
LEMMA NthIs ==
  ASSUME NEW V, NEW bs \in Seq(V), NEW k \in 1 .. Cardinality(Starts(bs))
  PROVE  Nth(bs, k) \in Starts(bs) /\ Cardinality(UpToStart(bs, Nth(bs, k))) = k
<1>. DEFINE C(i) == Cardinality(UpToStart(bs, i))
<1>1. Len(bs) \in Nat /\ Starts(bs) \subseteq 1 .. Len(bs) /\ Cardinality(Starts(bs)) \in Nat
  BY StartsFinite, LenProperties
<1>2. \A i : C(i) \in Nat /\ IsFiniteSet(UpToStart(bs, i))
  BY StartsFinite
<1>3. C(0) = 0
  <2>1. UpToStart(bs, 0) = {}
    BY <1>1 DEF UpToStart
  <2>. QED BY <2>1, FS_EmptySet
<1>4. C(Len(bs)) >= k
  <2>1. UpToStart(bs, Len(bs)) = Starts(bs)
    BY <1>1 DEF UpToStart
  <2>. QED BY <1>1, <2>1
<1>5. PICK B : B = {i \in Nat : C(i) >= k}
  OBVIOUS
<1>6. PICK i \in B : \A j \in B : i <= j
  <2>1. B \subseteq Nat /\ B # {}
    BY <1>1, <1>4, <1>5
  <2>. QED BY <2>1, LeastNat
<1>. HIDE DEF C
<1>7. i \in Nat /\ C(i) >= k /\ i # 0
  BY <1>3, <1>5, <1>6
<1>8. C(i - 1) < k
  <2>1. i - 1 \in Nat /\ ~(i <= i - 1)
    BY <1>7
  <2>2. ~(C(i - 1) >= k)
    BY <1>5, <1>6, <2>1
  <2>. QED BY <1>2, <2>2
<1>9. /\ i \in Starts(bs) => UpToStart(bs, i) = UpToStart(bs, i - 1) \cup {i}
      /\ i \notin Starts(bs) => UpToStart(bs, i) = UpToStart(bs, i - 1)
  BY <1>1, <1>7 DEF UpToStart
<1>10. C(i) <= C(i - 1) + 1 /\ (i \notin Starts(bs) => C(i) = C(i - 1))
  <2>a. PICK U : U = UpToStart(bs, i - 1)
    OBVIOUS
  <2>b. IsFiniteSet(U) /\ Cardinality(U) = C(i - 1)
    BY <1>2, <2>a DEF C
  <2>c. Cardinality(U \cup {i}) = IF i \in U THEN Cardinality(U) ELSE Cardinality(U) + 1
    BY <2>b, FS_AddElement
  <2>d. i \in Starts(bs) => C(i) = Cardinality(U \cup {i})
    BY <1>9, <2>a DEF C
  <2>1. i \in Starts(bs) => C(i) <= C(i - 1) + 1
    BY <1>2, <2>b, <2>c, <2>d
  <2>. QED BY <1>2, <1>9, <2>1 DEF C
<1>11. i \in Starts(bs) /\ C(i) = k
  <2>1. PICK c, d : c = C(i) /\ d = C(i - 1)
    OBVIOUS
  <2>2. c \in Nat /\ d \in Nat /\ c >= k /\ d < k /\ c <= d + 1 /\ (i \notin Starts(bs) => c = d)
    BY <1>2, <1>7, <1>8, <1>10, <2>1
  <2>3. k \in Nat
    OBVIOUS
  <2>. QED BY <2>1, <2>2, <2>3
<1>12. \E a \in Starts(bs) : Cardinality(UpToStart(bs, a)) = k
  BY <1>11 DEF C
<1>. QED BY <1>12, Zenon DEF Nth

\* A start of rank k is the k-th.
LEMMA NthOnly ==
  ASSUME NEW V, NEW bs \in Seq(V), NEW i \in Starts(bs), NEW k,
         Cardinality(UpToStart(bs, i)) = k
  PROVE  Nth(bs, k) = i
<1>1. \E a \in Starts(bs) : Cardinality(UpToStart(bs, a)) = k
  OBVIOUS
<1>2. PICK a : a = Nth(bs, k)
  OBVIOUS
<1>3. a \in Starts(bs) /\ Cardinality(UpToStart(bs, a)) = k
  BY <1>1, <1>2, Zenon DEF Nth
<1>4. a \in Nat /\ i \in Nat /\ k \in Nat
  BY <1>3, StartsFinite, LenProperties
<1>5. ~(a < i) /\ ~(i < a)
  BY <1>3, <1>4, RankLess
<1>. QED BY <1>2, <1>4, <1>5

\* The starts are in order.
LEMMA NthLess ==
  ASSUME NEW V, NEW bs \in Seq(V), NEW k \in 1 .. Cardinality(Starts(bs)),
         NEW m \in 1 .. Cardinality(Starts(bs)), k < m
  PROVE  Nth(bs, k) < Nth(bs, m)
<1>1. PICK i, j : i = Nth(bs, k) /\ j = Nth(bs, m)
  OBVIOUS
<1>2. /\ i \in Starts(bs) /\ Cardinality(UpToStart(bs, i)) = k
      /\ j \in Starts(bs) /\ Cardinality(UpToStart(bs, j)) = m
  BY <1>1, NthIs
<1>3. i \in Nat /\ j \in Nat /\ k \in Nat /\ m \in Nat
  BY <1>2, StartsFinite, LenProperties
<1>4. i # j /\ ~(j < i)
  BY <1>2, <1>3, RankLess
<1>. QED BY <1>1, <1>3, <1>4

\* A word stops at the first separator behind it, or at the end.
LEMMA StopIs ==
  ASSUME NEW V, NEW bs \in Seq(V), NEW i \in Starts(bs)
  PROVE  /\ Stop(bs, i) \in i + 1 .. Len(bs) + 1
         /\ Stop(bs, i) = Len(bs) + 1 \/ bs[Stop(bs, i)] = Sep
         /\ \A j \in i .. Stop(bs, i) - 1 : j \in 1 .. Len(bs) /\ bs[j] # Sep
<1>1. Len(bs) \in Nat /\ i \in 1 .. Len(bs) /\ bs[i] # Sep
  BY StartsFinite, LenProperties DEF Starts
<1>2. PICK B : B = Stops(bs, i)
  OBVIOUS
<1>3. B \subseteq Nat /\ B # {}
  <2>1. Len(bs) + 1 \in B
    BY <1>1, <1>2 DEF Stops
  <2>. QED BY <1>1, <1>2, <2>1 DEF Stops
<1>4. \E m \in B : \A n \in B : m <= n
  BY <1>3, LeastNat
<1>5. PICK e : e = Stop(bs, i)
  OBVIOUS
<1>6. e \in B /\ \A n \in B : e <= n
  BY <1>2, <1>4, <1>5, Zenon DEF Stop, Min
<1>7. e \in i .. Len(bs) + 1 /\ (e = Len(bs) + 1 \/ bs[e] = Sep)
  BY <1>2, <1>6 DEF Stops
<1>8. e # i
  BY <1>1, <1>7
<1>9. ASSUME NEW j \in i .. e - 1 PROVE j \in 1 .. Len(bs) /\ bs[j] # Sep
  <2>1. j \in 1 .. Len(bs) /\ j \in i .. Len(bs) + 1 /\ ~(e <= j)
    BY <1>1, <1>7
  <2>2. j \notin B
    BY <1>6, <2>1
  <2>. QED BY <1>2, <2>1, <2>2 DEF Stops
<1>. QED BY <1>1, <1>5, <1>7, <1>8, <1>9

Vocabulary == {"ping", "quit", "*1", "*2", "*9", "$4"}
Byte == {Sep} \cup (Vocabulary \X (1 .. 2))

\* No byte of a word is the separator.
LEMMA SepIs ==
  \A w \in Vocabulary, k \in 1 .. 2 : <<w, k>> # Sep
BY RedisAssumption DEF Vocabulary

\* There is a word for each start, taken with at most the bytes of bs.
LEMMA WordsShape ==
  ASSUME NEW V, NEW bs \in Seq(V), NEW ws, ws = Words(bs)
  PROVE  /\ Len(ws) = Cardinality(Starts(bs)) /\ Len(ws) \in Nat /\ DOMAIN ws = 1 .. Len(ws)
         /\ (ws = <<>> <=> Len(ws) = 0)
         /\ \A k \in 1 .. Len(ws) :
              /\ ws[k].word = SubSeq(bs, Nth(bs, k), Stop(bs, Nth(bs, k)) - 1)
              /\ ws[k].upto = Least(Stop(bs, Nth(bs, k)), Len(bs))
              /\ ws[k].upto \in 1 .. Len(bs)
<1>1. PICK c : c = Cardinality(Starts(bs)) /\ c \in Nat
  BY StartsFinite
<1>2. PICK W : W = {ws[k] : k \in 1 .. c}
  OBVIOUS
<1>3. ws = [k \in 1 .. c |-> ws[k]]
  BY <1>1, WordsAre
<1>4. ws \in [1 .. c -> W]
  BY <1>2, <1>3
<1>5. ws \in Seq(W) /\ Len(ws) = c
  BY <1>1, <1>4, InSeq
<1>6. ASSUME NEW k \in 1 .. c
      PROVE  /\ ws[k].word = SubSeq(bs, Nth(bs, k), Stop(bs, Nth(bs, k)) - 1)
             /\ ws[k].upto = Least(Stop(bs, Nth(bs, k)), Len(bs))
             /\ ws[k].upto \in 1 .. Len(bs)
  <2>1. /\ ws[k].word = SubSeq(bs, Nth(bs, k), Stop(bs, Nth(bs, k)) - 1)
        /\ ws[k].upto = Least(Stop(bs, Nth(bs, k)), Len(bs))
    BY <1>1, WordsAre
  <2>2. PICK i : i = Nth(bs, k)
    OBVIOUS
  <2>3. i \in Starts(bs)
    BY <1>1, <2>2, NthIs
  <2>4. PICK e : e = Stop(bs, i)
    OBVIOUS
  <2>5. e \in i + 1 .. Len(bs) + 1 /\ i \in 1 .. Len(bs) /\ Len(bs) \in Nat
    BY <2>3, <2>4, StopIs, StartsFinite, LenProperties
  <2>6. Least(e, Len(bs)) \in 1 .. Len(bs)
    BY <2>5 DEF Least
  <2>. QED BY <2>1, <2>2, <2>4, <2>6
<1>7. ws = <<>> <=> Len(ws) = 0
  BY <1>5, EmptySeq
<1>. QED BY <1>1, <1>5, <1>6, <1>7

\* The second byte of a word of two bytes.
LEMMA PairIs ==
  ASSUME NEW V, NEW bs \in Seq(V), NEW i \in Starts(bs), NEW x, NEW y,
         SubSeq(bs, i, Stop(bs, i) - 1) = <<x, y>>
  PROVE  Stop(bs, i) = i + 2 /\ bs[i] = x /\ bs[i + 1] = y
<1>1. PICK e : e = Stop(bs, i)
  OBVIOUS
<1>2. /\ e \in i + 1 .. Len(bs) + 1 /\ i \in 1 .. Len(bs) /\ Len(bs) \in Nat
  BY <1>1, StopIs, StartsFinite, LenProperties
<1>3. PICK s : s = SubSeq(bs, i, e - 1)
  OBVIOUS
<1>4. \A j \in i .. e - 1 : bs[j] \in V
  BY <1>2, LenProperties
<1>5. /\ Len(s) = IF i <= e - 1 THEN (e - 1) - i + 1 ELSE 0
      /\ \A j \in 1 .. (e - 1) - i + 1 : s[j] = bs[i + j - 1]
  <2>1. i \in Int /\ e - 1 \in Int
    BY <1>2
  <2>. QED BY <1>3, <1>4, <2>1, SubSeqProperties
<1>6. s = <<x, y>>
  BY <1>1, <1>3
<1>7. Len(s) = 2 /\ s[1] = x /\ s[2] = y
  BY <1>6
<1>8. e = i + 2
  <2>1. i <= e - 1
    BY <1>2
  <2>2. Len(s) = (e - 1) - i + 1
    BY <1>5, <2>1
  <2>3. 2 = (e - 1) - i + 1
    BY <1>7, <2>2
  <2>. QED BY <1>2, <2>3
<1>9. s[1] = bs[i] /\ s[2] = bs[i + 1]
  <2>1. 1 \in 1 .. (e - 1) - i + 1 /\ 2 \in 1 .. (e - 1) - i + 1
        /\ i + 1 - 1 = i /\ i + 2 - 1 = i + 1
    BY <1>2, <1>8
  <2>. QED BY <1>5, <2>1
<1>. QED BY <1>1, <1>7, <1>8, <1>9

\* A ping that is a word has been read when that word or a later one has.
LEMMA PingRead ==
  ASSUME NEW V, NEW bs \in Seq(V), NEW ws, ws = Words(bs),
         NEW k \in 1 .. Len(ws), ws[k].word = Word("ping")
  PROVE  \E p \in 1 .. Len(bs) :
           bs[p] = <<"ping", 2>> /\ \A m \in k .. Len(ws) : p <= ws[m].upto
<1>1. /\ Len(ws) = Cardinality(Starts(bs)) /\ Len(ws) \in Nat
      /\ \A m \in 1 .. Len(ws) :
           /\ ws[m].word = SubSeq(bs, Nth(bs, m), Stop(bs, Nth(bs, m)) - 1)
           /\ ws[m].upto = Least(Stop(bs, Nth(bs, m)), Len(bs))
  BY WordsShape
<1>2. PICK i : i = Nth(bs, k)
  OBVIOUS
<1>3. i \in Starts(bs) /\ i \in 1 .. Len(bs) /\ Len(bs) \in Nat
  BY <1>1, <1>2, NthIs, StartsFinite, LenProperties
<1>4. SubSeq(bs, i, Stop(bs, i) - 1) = <<<<"ping", 1>>, <<"ping", 2>>>>
  BY <1>1, <1>2 DEF Word
<1>5. Stop(bs, i) = i + 2 /\ bs[i + 1] = <<"ping", 2>>
  <2>1. PICK x, y : x = <<"ping", 1>> /\ y = <<"ping", 2>>
    OBVIOUS
  <2>2. SubSeq(bs, i, Stop(bs, i) - 1) = <<x, y>>
    BY <1>4, <2>1
  <2>3. Stop(bs, i) = i + 2 /\ bs[i] = x /\ bs[i + 1] = y
    BY <1>3, <2>2, PairIs
  <2>. QED BY <2>1, <2>3
<1>6. i + 1 \in 1 .. Len(bs)
  <2>1. Stop(bs, i) \in i + 1 .. Len(bs) + 1
    BY <1>3, StopIs
  <2>. QED BY <1>3, <1>5, <2>1
<1>7. ASSUME NEW m \in k .. Len(ws) PROVE i + 1 <= ws[m].upto
  <2>1. m \in 1 .. Len(ws)
    BY <1>1
  <2>2. PICK j, e : j = Nth(bs, m) /\ e = Stop(bs, j)
    OBVIOUS
  <2>3. j \in Starts(bs) /\ j \in 1 .. Len(bs)
    BY <1>1, <2>1, <2>2, NthIs, StartsFinite
  <2>4. e \in j + 1 .. Len(bs) + 1
    BY <2>2, <2>3, StopIs
  <2>5. ws[m].upto = Least(e, Len(bs))
    BY <1>1, <2>1, <2>2
  <2>6. CASE m = k
    BY <1>2, <1>3, <1>5, <1>6, <2>2, <2>5, <2>6 DEF Least
  <2>7. CASE m # k
    <3>1. i < j
      <4>1. k < m
        BY <1>1, <2>7
      <4>. QED BY <1>1, <1>2, <2>1, <2>2, <4>1, NthLess
    <3>. QED BY <1>3, <2>3, <2>4, <2>5, <3>1 DEF Least
  <2>. QED BY <2>6, <2>7
<1>. QED BY <1>5, <1>6, <1>7

\* The replies are different.
LEMMA Replies ==
  /\ Pong \in Seq({<<"pong", i>> : i \in 1 .. 7}) /\ Len(Pong) = 7
  /\ Pong # Ok /\ Pong # <<>> /\ Ok # <<>>
  /\ Ok \in Seq({<<"ok", i>> : i \in 1 .. 5}) /\ Len(Ok) = 5
<1>1. PICK P : P = {<<"pong", i>> : i \in 1 .. 7}
  OBVIOUS
<1>2. Pong \in [1 .. 7 -> P]
  BY <1>1 DEF Pong
<1>3. PICK Q : Q = {<<"ok", i>> : i \in 1 .. 5}
  OBVIOUS
<1>4. Ok \in [1 .. 5 -> Q]
  BY <1>3 DEF Ok
<1>5. Pong \in Seq(P) /\ Len(Pong) = 7
  BY <1>2, InSeq
<1>6. Ok \in Seq(Q) /\ Len(Ok) = 5
  BY <1>4, InSeq
<1>7. Len(<<>>) = 0
  OBVIOUS
<1>8. Pong # Ok /\ Pong # <<>> /\ Ok # <<>>
  <2>1. 7 # 5 /\ 7 # 0 /\ 5 # 0
    OBVIOUS
  <2>. QED BY <1>5, <1>6, <1>7, <2>1, Zenon
<1>. QED BY <1>1, <1>3, <1>5, <1>6, <1>8, Zenon

\* What a handler may leave: no more is skipped than there is, the connection
\* is closed when the answer is not whole pongs, and a pong is for a ping.
Safe(bs, o) ==
  /\ o.trim \in 0 .. Len(bs) /\ o.keep \in BOOLEAN
  /\ o.reply \in {Pong, Ok, <<>>}
  /\ o.keep => o.reply # Ok
  /\ o.reply = Pong => o.keep /\ \E p \in 1 .. o.trim : bs[p] = <<"ping", 2>>

\* A command is safe when a ping has been read for its pong.
LEMMA CommandSafe ==
  ASSUME NEW V, NEW bs \in Seq(V), NEW word, NEW n \in 0 .. Len(bs),
         word = Word("ping") => \E p \in 1 .. n : bs[p] = <<"ping", 2>>
  PROVE  Safe(bs, ProcessCommand(word, n))
<1>1. Word("ping") # Word("quit")
  BY DEF Word
<1>2. CASE word = Word("ping")
  <2>1. ProcessCommand(word, n) = Outcome(n, Pong, TRUE)
    BY <1>1, <1>2 DEF ProcessCommand
  <2>2. PICK o : o = ProcessCommand(word, n)
    OBVIOUS
  <2>3. o.trim = n /\ o.reply = Pong /\ o.keep = TRUE
    BY <2>1, <2>2 DEF Outcome
  <2>4. \E p \in 1 .. o.trim : bs[p] = <<"ping", 2>>
    BY <1>2, <2>3, Zenon
  <2>. QED BY <2>2, <2>3, <2>4, Replies, Zenon DEF Safe
<1>3. CASE word = Word("quit")
  <2>1. ProcessCommand(word, n) = Outcome(n, Ok, FALSE)
    BY <1>1, <1>3 DEF ProcessCommand
  <2>. QED BY <2>1, Replies DEF Safe, Outcome
<1>4. CASE word # Word("ping") /\ word # Word("quit")
  <2>1. ProcessCommand(word, n) = Outcome(n, <<>>, FALSE)
    BY <1>4 DEF ProcessCommand
  <2>. QED BY <2>1, Replies DEF Safe, Outcome
<1>. QED BY <1>2, <1>3, <1>4

\* The sizes before the words that are there are sizes.
GoodSizes(ws, n) == \A k \in 1 .. n : 2 * k <= Len(ws) => IsSize(ws[2 * k].word)

\* The outcomes of a bulk.
LEMMA MultibulkIs ==
  ASSUME NEW ws, NEW n, n = Number(ws[1].word)
  PROVE  /\ n \notin 1 .. MaxTokens \/ ~GoodSizes(ws, n) =>
              ProcessMultibulk(ws) = Outcome(ws[1].upto, <<>>, FALSE)
         /\ n \in 1 .. MaxTokens /\ GoodSizes(ws, n) /\ Len(ws) < 1 + 2 * n =>
              ProcessMultibulk(ws) = Outcome(0, <<>>, TRUE)
         /\ n \in 1 .. MaxTokens /\ GoodSizes(ws, n) /\ ~(Len(ws) < 1 + 2 * n) =>
              ProcessMultibulk(ws) = ProcessCommand(ws[3].word, ws[1 + 2 * n].upto)
<1>. DEFINE Bad == \E k \in 1 .. n : 2 * k <= Len(ws) /\ ~IsSize(ws[2 * k].word)
            Good == \A k \in 1 .. n : 2 * k <= Len(ws) => IsSize(ws[2 * k].word)
            In == n \in 1 .. MaxTokens
            Short == Len(ws) < 1 + 2 * n
<1>1. ProcessMultibulk(ws) =
        CASE ~In -> Outcome(ws[1].upto, <<>>, FALSE)
          [] In /\ Bad -> Outcome(ws[1].upto, <<>>, FALSE)
          [] In /\ Short /\ Good -> Outcome(0, <<>>, TRUE)
          [] OTHER -> ProcessCommand(ws[3].word, ws[1 + 2 * n].upto)
  BY DEF ProcessMultibulk, Unready
<1>2. Bad <=> ~Good
  OBVIOUS
<1>3. GoodSizes(ws, n) <=> Good
  BY DEF GoodSizes
<1>. HIDE DEF Bad, Good, In, Short
<1>4. ~In => ProcessMultibulk(ws) = Outcome(ws[1].upto, <<>>, FALSE)
  BY <1>1
<1>5. In /\ ~Good => ProcessMultibulk(ws) = Outcome(ws[1].upto, <<>>, FALSE)
  BY <1>1, <1>2
<1>6. In /\ Good /\ Short => ProcessMultibulk(ws) = Outcome(0, <<>>, TRUE)
  BY <1>1, <1>2
<1>7. In /\ Good /\ ~Short =>
        ProcessMultibulk(ws) = ProcessCommand(ws[3].word, ws[1 + 2 * n].upto)
  BY <1>1, <1>2
<1>. QED BY <1>3, <1>4, <1>5, <1>6, <1>7 DEF In, Short

\* The counts behind a star.
LEMMA NumberIs ==
  ASSUME NEW word, IsStar(word)
  PROVE  Number(word) \in {-1, 1, 2, 9}
<1>1. PICK w : w \in {"*1", "*2", "*9"} /\ word[1][1] = w
  BY DEF IsStar
<1>2. Counted[w] \in {1, 2, 9}
  BY <1>1 DEF Counted
<1>. QED BY <1>1, <1>2 DEF Number

\* Whatever the bytes are, what is done with them is safe.
LEMMA ProcessedSafe ==
  ASSUME NEW V, NEW bs \in Seq(V)
  PROVE  Safe(bs, Processed(bs))
<1>1. PICK ws : ws = Words(bs)
  OBVIOUS
<1>2. /\ Len(ws) \in Nat /\ (ws = <<>> <=> Len(ws) = 0) /\ Len(bs) \in Nat
      /\ \A k \in 1 .. Len(ws) : ws[k].upto \in 1 .. Len(bs)
  BY <1>1, WordsShape, LenProperties
<1>3. CASE ws = <<>>
  <2>1. Processed(bs) = Outcome(Len(bs), <<>>, TRUE)
    BY <1>1, <1>3 DEF Processed
  <2>. QED BY <1>2, <2>1, Replies DEF Safe, Outcome
<1>4. CASE ws # <<>> /\ ~IsStar(ws[1].word)
  <2>1. Processed(bs) = ProcessCommand(ws[1].word, Len(bs))
    BY <1>1, <1>4 DEF Processed, ProcessInline
  <2>2. ws[1].word = Word("ping") => \E p \in 1 .. Len(bs) : bs[p] = <<"ping", 2>>
    <3>1. 1 \in 1 .. Len(ws)
      BY <1>2, <1>4
    <3>. QED BY <1>1, <3>1, PingRead
  <2>3. Len(bs) \in 0 .. Len(bs)
    BY <1>2
  <2>. QED BY <2>1, <2>2, <2>3, CommandSafe
<1>5. CASE ws # <<>> /\ IsStar(ws[1].word)
  <2>0. 1 \in 1 .. Len(ws) /\ ws[1].upto \in 0 .. Len(bs)
    BY <1>2, <1>5
  <2>1. Processed(bs) = ProcessMultibulk(ws)
    BY <1>1, <1>5 DEF Processed
  <2>2. PICK n : n = Number(ws[1].word)
    OBVIOUS
  <2>3. n \in {-1, 1, 2, 9}
    BY <1>5, <2>2, NumberIs
  <2>4. CASE n \notin 1 .. MaxTokens \/ ~GoodSizes(ws, n)
    <3>1. Processed(bs) = Outcome(ws[1].upto, <<>>, FALSE)
      BY <2>1, <2>2, <2>4, MultibulkIs
    <3>. QED BY <2>0, <3>1, Replies DEF Safe, Outcome
  <2>5. CASE n \in 1 .. MaxTokens /\ GoodSizes(ws, n) /\ Len(ws) < 1 + 2 * n
    <3>1. Processed(bs) = Outcome(0, <<>>, TRUE)
      BY <2>1, <2>2, <2>5, MultibulkIs
    <3>. QED BY <1>2, <3>1, Replies DEF Safe, Outcome
  <2>6. CASE n \in 1 .. MaxTokens /\ GoodSizes(ws, n) /\ ~(Len(ws) < 1 + 2 * n)
    <3>1. Processed(bs) = ProcessCommand(ws[3].word, ws[1 + 2 * n].upto)
      BY <2>1, <2>2, <2>6, MultibulkIs
    <3>2. 3 \in 1 .. Len(ws) /\ 1 + 2 * n \in 3 .. Len(ws) /\ 1 + 2 * n \in 1 .. Len(ws)
      BY <1>2, <2>3, <2>6, RedisAssumption
    <3>3. PICK m : m = ws[1 + 2 * n].upto
      OBVIOUS
    <3>4. m \in 0 .. Len(bs)
      BY <1>2, <3>2, <3>3
    <3>5. ws[3].word = Word("ping") => \E p \in 1 .. m : bs[p] = <<"ping", 2>>
      <4>. SUFFICES ASSUME ws[3].word = Word("ping")
                    PROVE  \E p \in 1 .. m : bs[p] = <<"ping", 2>>
        OBVIOUS
      <4>1. PICK p \in 1 .. Len(bs) :
              bs[p] = <<"ping", 2>> /\ \A i \in 3 .. Len(ws) : p <= ws[i].upto
        BY <1>1, <3>2, PingRead
      <4>2. p \in 1 .. m
        BY <1>2, <3>2, <3>3, <3>4, <4>1
      <4>. QED BY <4>1, <4>2
    <3>. QED BY <3>1, <3>3, <3>4, <3>5, CommandSafe
  <2>. QED BY <2>4, <2>5, <2>6
<1>. QED BY <1>3, <1>4, <1>5

-----------------------------------------------------------------------------
(* Bytes that come in whole words.                                         *)

\* A number is three times another, or one or two more.
LEMMA Thirds ==
  ASSUME NEW x \in Nat
  PROVE  \E k \in Nat : x = 3 * k \/ x = 3 * k + 1 \/ x = 3 * k + 2
<1>1. PICK G : G = {i \in Nat : \E k \in Nat : i = 3 * k \/ i = 3 * k + 1 \/ i = 3 * k + 2}
  OBVIOUS
<1>2. 0 \in G
  <2>1. 0 = 3 * 0
    OBVIOUS
  <2>. QED BY <1>1, <2>1
<1>3. ASSUME NEW i \in 1 .. x, i - 1 \in G PROVE i \in G
  <2>1. PICK k \in Nat : i - 1 = 3 * k \/ i - 1 = 3 * k + 1 \/ i - 1 = 3 * k + 2
    BY <1>1, <1>3
  <2>2. k + 1 \in Nat /\ (i = 3 * k + 1 \/ i = 3 * k + 2 \/ i = 3 * (k + 1))
    BY <2>1
  <2>3. i \in Nat /\ \E j \in Nat : i = 3 * j \/ i = 3 * j + 1 \/ i = 3 * j + 2
    <3>1. i \in Nat
      OBVIOUS
    <3>. QED BY <2>2, <3>1, Zenon
  <2>. QED BY <1>1, <2>3
<1>4. x \in 0 .. x
  OBVIOUS
<1>5. x \in G
  BY <1>2, <1>3, <1>4, UpTo
<1>. QED BY <1>1, <1>5

\* K words of two bytes and their separators, the last of which may be
\* missing, behind a separator when z is 1.
Rows(bs, z, K) ==
  /\ z \in {0, 1} /\ K \in Nat
  /\ Len(bs) = z + 3 * K \/ (K > 0 /\ Len(bs) = z + 3 * K - 1)
  /\ z = 1 => bs[1] = Sep
  /\ \A k \in 1 .. K : /\ bs[z + 3 * k - 2] # Sep /\ bs[z + 3 * k - 1] # Sep
                       /\ z + 3 * k <= Len(bs) => bs[z + 3 * k] = Sep

RowStarts(z, n) == {z + 3 * k - 2 : k \in 1 .. n}

\* K rows have K starts.
LEMMA RowCount ==
  ASSUME NEW z \in {0, 1}, NEW n \in Nat
  PROVE  IsFiniteSet(RowStarts(z, n)) /\ Cardinality(RowStarts(z, n)) = n
<1>1. PICK G : G = {i \in Nat : IsFiniteSet(RowStarts(z, i)) /\ Cardinality(RowStarts(z, i)) = i}
  OBVIOUS
<1>2. 0 \in G
  <2>1. RowStarts(z, 0) = {}
    BY DEF RowStarts
  <2>. QED BY <1>1, <2>1, FS_EmptySet
<1>3. ASSUME NEW i \in 1 .. n, i - 1 \in G PROVE i \in G
  <2>1. PICK U, x : U = RowStarts(z, i - 1) /\ x = z + 3 * i - 2
    OBVIOUS
  <2>2. IsFiniteSet(U) /\ Cardinality(U) = i - 1
    BY <1>1, <1>3, <2>1
  <2>3. x \notin U
    BY <2>1 DEF RowStarts
  <2>4. RowStarts(z, i) = U \cup {x}
    <3>1. \A k \in 1 .. i : k = i \/ k \in 1 .. i - 1
      OBVIOUS
    <3>2. \A k \in 1 .. i - 1 : k \in 1 .. i
      OBVIOUS
    <3>3. i \in 1 .. i
      OBVIOUS
    <3>. QED BY <2>1, <3>1, <3>2, <3>3, Zenon DEF RowStarts
  <2>5. IsFiniteSet(U \cup {x}) /\ Cardinality(U \cup {x}) = Cardinality(U) + 1
    BY <2>2, <2>3, FS_AddElement
  <2>6. i \in Nat /\ Cardinality(U) + 1 = i
    BY <2>2
  <2>. QED BY <1>1, <2>4, <2>5, <2>6
<1>4. n \in 0 .. n
  OBVIOUS
<1>5. n \in G
  BY <1>2, <1>3, <1>4, UpTo
<1>. QED BY <1>1, <1>5

\* The starts of the rows are their first bytes.
LEMMA RowsStart ==
  ASSUME NEW V, NEW bs \in Seq(V), NEW z, NEW K, Rows(bs, z, K)
  PROVE  /\ Starts(bs) = RowStarts(z, K)
         /\ \A k \in 1 .. K : UpToStart(bs, z + 3 * k - 2) = RowStarts(z, k)
<1>1. /\ z \in {0, 1} /\ K \in Nat /\ Len(bs) \in Nat /\ DOMAIN bs = 1 .. Len(bs)
      /\ Len(bs) = z + 3 * K \/ (K > 0 /\ Len(bs) = z + 3 * K - 1)
      /\ z = 1 => bs[1] = Sep
  BY LenProperties DEF Rows
<1>2. \A k \in 1 .. K : /\ bs[z + 3 * k - 2] # Sep /\ bs[z + 3 * k - 1] # Sep
                        /\ z + 3 * k <= Len(bs) => bs[z + 3 * k] = Sep
  BY DEF Rows
<1>a. PICK L : L = Len(bs)
  OBVIOUS
<1>b. z \in Nat /\ z <= 1 /\ K \in Nat /\ L \in Nat /\ L <= z + 3 * K /\ z + 3 * K <= L + 1
  <2>a. z = 0 \/ z = 1
    BY <1>1
  <2>b. z \in Nat /\ z <= 1
    BY <2>a
  <2>1. z \in Nat /\ z <= 1 /\ K \in Nat /\ L \in Nat
    BY <1>1, <1>a, <2>b, Zenon
  <2>2. L = z + 3 * K \/ L = z + 3 * K - 1
    BY <1>1, <1>a, Zenon
  <2>. QED BY <2>1, <2>2
<1>3. ASSUME NEW k \in 1 .. K PROVE z + 3 * k - 2 \in Starts(bs)
  <2>1. PICK i : i = z + 3 * k - 2
    OBVIOUS
  <2>a. i \in 1 .. L
    BY <1>b, <2>1
  <2>2. i \in 1 .. Len(bs) /\ bs[i] # Sep
    BY <1>2, <1>a, <2>1, <2>a
  <2>3. CASE k = 1
    <3>1. z = 0 => i = 1
      BY <2>1, <2>3
    <3>2. z = 1 => i - 1 = 1
      BY <2>1, <2>3
    <3>. QED BY <1>1, <2>1, <2>2, <3>1, <3>2 DEF Starts
  <2>4. CASE k # 1
    <3>a. PICK m : m = k - 1
      OBVIOUS
    <3>1. m \in 1 .. K /\ i - 1 = z + 3 * m /\ z + 3 * m <= L
      BY <1>b, <2>1, <2>4, <3>a
    <3>2. bs[i - 1] = Sep
      BY <1>2, <1>a, <3>1
    <3>. QED BY <1>1, <2>1, <2>2, <3>2 DEF Starts
  <2>. QED BY <2>3, <2>4
<1>4. ASSUME NEW i \in Starts(bs) PROVE \E k \in 1 .. K : i = z + 3 * k - 2
  <2>1. i \in 1 .. Len(bs) /\ bs[i] # Sep /\ (i = 1 \/ bs[i - 1] = Sep)
    BY <1>1 DEF Starts
  <2>a. i \in 1 .. L
    BY <1>a, <2>1
  <2>2. CASE i <= z
    <3>1. i = 1 /\ z = 1
      BY <1>b, <2>a, <2>2
    <3>. QED BY <1>1, <2>1, <3>1
  <2>3. CASE i > z
    <3>1. PICK x \in Nat : x = i - z - 1
      BY <1>b, <2>a, <2>3
    <3>2. PICK m \in Nat : x = 3 * m \/ x = 3 * m + 1 \/ x = 3 * m + 2
      BY <3>1, Thirds
    <3>3. PICK k : k = m + 1
      OBVIOUS
    <3>4. k \in 1 .. K
      BY <1>b, <2>a, <3>1, <3>2, <3>3
    <3>5. i = z + 3 * k - 2 \/ i = z + 3 * k - 1 \/ i = z + 3 * k
      BY <1>b, <2>a, <3>1, <3>2, <3>3
    <3>6. i # z + 3 * k
      BY <1>2, <2>1, <3>4
    <3>7. i # z + 3 * k - 1
      <4>. SUFFICES ASSUME i = z + 3 * k - 1 PROVE FALSE
        OBVIOUS
      <4>1. i # 1 /\ i - 1 = z + 3 * k - 2
        BY <1>b, <3>4
      <4>. QED BY <1>2, <2>1, <3>4, <4>1
    <3>. QED BY <3>4, <3>5, <3>6, <3>7
  <2>. QED BY <1>b, <2>a, <2>2, <2>3
<1>5. Starts(bs) = RowStarts(z, K)
  BY <1>3, <1>4 DEF RowStarts
<1>6. ASSUME NEW k \in 1 .. K PROVE UpToStart(bs, z + 3 * k - 2) = RowStarts(z, k)
  <2>1. \A m \in 1 .. K : z + 3 * m - 2 <= z + 3 * k - 2 <=> m \in 1 .. k
    BY <1>b
  <2>2. \A m \in 1 .. k : m \in 1 .. K
    BY <1>b
  <2>. QED BY <1>5, <2>1, <2>2, Zenon DEF UpToStart, RowStarts
<1>. QED BY <1>5, <1>6

RowWorded(bs, z, K, ws) ==
  /\ Len(ws) = K
  /\ \A k \in 1 .. K : /\ ws[k].word = <<bs[z + 3 * k - 2], bs[z + 3 * k - 1]>>
                       /\ ws[k].upto = Least(z + 3 * k, Len(bs))

\* The words of the rows are their first two bytes.
LEMMA RowWords ==
  ASSUME NEW V, NEW bs \in Seq(V), NEW z, NEW K, Rows(bs, z, K), NEW ws, ws = Words(bs)
  PROVE  RowWorded(bs, z, K, ws)
<1>1. /\ z \in {0, 1} /\ K \in Nat /\ Len(bs) \in Nat
      /\ Len(bs) = z + 3 * K \/ (K > 0 /\ Len(bs) = z + 3 * K - 1)
  BY LenProperties DEF Rows
<1>2. \A k \in 1 .. K : /\ bs[z + 3 * k - 2] # Sep /\ bs[z + 3 * k - 1] # Sep
                        /\ z + 3 * k <= Len(bs) => bs[z + 3 * k] = Sep
  BY DEF Rows
<1>a. PICK L : L = Len(bs)
  OBVIOUS
<1>b. z \in Nat /\ z <= 1 /\ K \in Nat /\ L \in Nat /\ L <= z + 3 * K /\ z + 3 * K <= L + 1
  <2>a. z = 0 \/ z = 1
    BY <1>1
  <2>b. z \in Nat /\ z <= 1
    BY <2>a
  <2>1. z \in Nat /\ z <= 1 /\ K \in Nat /\ L \in Nat
    BY <1>1, <1>a, <2>b, Zenon
  <2>2. L = z + 3 * K \/ L = z + 3 * K - 1
    BY <1>1, <1>a, Zenon
  <2>. QED BY <2>1, <2>2
<1>3. /\ Starts(bs) = RowStarts(z, K)
      /\ \A k \in 1 .. K : UpToStart(bs, z + 3 * k - 2) = RowStarts(z, k)
  BY RowsStart
<1>4. Len(ws) = K
  <2>1. Len(ws) = Cardinality(Starts(bs))
    BY WordsShape
  <2>2. Cardinality(RowStarts(z, K)) = K
    BY <1>1, RowCount
  <2>. QED BY <1>3, <2>1, <2>2
<1>5. ASSUME NEW k \in 1 .. K
      PROVE  /\ ws[k].word = <<bs[z + 3 * k - 2], bs[z + 3 * k - 1]>>
             /\ ws[k].upto = Least(z + 3 * k, Len(bs))
  <2>1. PICK i : i = z + 3 * k - 2
    OBVIOUS
  <2>2. /\ i \in 1 .. L /\ i + 1 \in 1 .. L /\ i + 1 = z + 3 * k - 1 /\ i + 2 = z + 3 * k
        /\ i + 2 <= L + 1
    BY <1>b, <2>1
  <2>3. i \in Starts(bs)
    BY <1>3, <2>1 DEF RowStarts
  <2>4. k \in Nat /\ Cardinality(UpToStart(bs, i)) = k
    <3>1. k \in Nat
      BY <1>b
    <3>. QED BY <1>1, <1>3, <2>1, <3>1, RowCount
  <2>5. Nth(bs, k) = i
    BY <2>3, <2>4, NthOnly
  <2>6. PICK e : e = Stop(bs, i)
    OBVIOUS
  <2>7. /\ e \in i + 1 .. L + 1 /\ (e = L + 1 \/ bs[e] = Sep)
        /\ \A j \in i .. e - 1 : bs[j] # Sep
    BY <1>a, <2>3, <2>6, StopIs
  <2>8. bs[i] # Sep /\ bs[i + 1] # Sep /\ (i + 2 <= L => bs[i + 2] = Sep)
    BY <1>2, <1>a, <2>1, <2>2
  <2>9. e = i + 2
    <3>1. e # i + 1
      BY <1>b, <2>2, <2>7, <2>8
    <3>2. ~(e > i + 2)
      <4>. SUFFICES ASSUME e > i + 2 PROVE FALSE
        OBVIOUS
      <4>1. i + 2 \in i .. e - 1 /\ i + 2 <= L
        BY <1>b, <2>2, <2>7
      <4>. QED BY <2>7, <2>8, <4>1
    <3>. QED BY <1>b, <2>2, <2>7, <3>1, <3>2
  <2>10. SubSeq(bs, i, e - 1) = <<bs[i], bs[i + 1]>>
    <3>1. e - 1 = i + 1 /\ i \in Int /\ i + 1 \in Int
      BY <2>2, <2>9
    <3>2. PICK s : s = SubSeq(bs, i, i + 1)
      OBVIOUS
    <3>3. \A j \in i .. i + 1 : bs[j] \in V
      <4>1. \A j \in i .. i + 1 : j \in 1 .. Len(bs)
        BY <1>a, <1>b, <2>2
      <4>. QED BY <4>1, LenProperties
    <3>4. /\ s \in Seq(V) /\ Len(s) = IF i <= i + 1 THEN (i + 1) - i + 1 ELSE 0
          /\ \A j \in 1 .. (i + 1) - i + 1 : s[j] = bs[i + j - 1]
      BY <3>1, <3>2, <3>3, SubSeqProperties
    <3>5. /\ i <= i + 1 /\ (i + 1) - i + 1 = 2 /\ i + 1 - 1 = i /\ i + 2 - 1 = i + 1
          /\ 1 \in 1 .. 2 /\ 2 \in 1 .. 2
      BY <3>1
    <3>6. Len(s) = 2
      BY <3>4, <3>5, Zenon
    <3>7. s[1] = bs[i] /\ s[2] = bs[i + 1]
      BY <3>4, <3>5, Zenon
    <3>8. s = <<bs[i], bs[i + 1]>>
      BY <3>4, <3>6, <3>7
    <3>. QED BY <3>1, <3>2, <3>8
  <2>11. /\ ws[k].word = SubSeq(bs, i, e - 1)
         /\ ws[k].upto = Least(e, Len(bs))
    BY <1>4, <2>5, <2>6, WordsShape
  <2>. QED BY <2>1, <2>2, <2>9, <2>10, <2>11
<1>. QED BY <1>4, <1>5 DEF RowWorded

\* The two good bulks.
Bulk(n) == IF n = 1 THEN <<"*1", "$4", "ping">>
           ELSE <<"*2", "$4", "ping", "$4", "quit">>

\* Tuples are sequences.
LEMMA Tuples ==
  ASSUME NEW W, NEW a \in W, NEW b \in W, NEW c \in W, NEW d \in W, NEW e \in W
  PROVE  /\ <<a>> \in Seq(W) /\ <<a, b>> \in Seq(W) /\ <<a, b, c>> \in Seq(W)
         /\ <<a, b, c, d, e>> \in Seq(W)
<1>1. <<a>> \in Seq(W) /\ <<a, b>> \in Seq(W)
  OBVIOUS
<1>2. <<a, b, c>> \in Seq(W)
  OBVIOUS
<1>3. <<a, b, c, d, e>> \in Seq(W)
  OBVIOUS
<1>. QED BY <1>1, <1>2, <1>3

\* The words of the good bulks.
LEMMA BulkIs ==
  /\ Bulk(1)[1] = "*1" /\ Bulk(2)[1] = "*2"
  /\ \A n \in {1, 2} : /\ Len(Bulk(n)) = 1 + 2 * n /\ Bulk(n)[3] = "ping"
                       /\ \A k \in 1 .. n : Bulk(n)[2 * k] = "$4"
                       /\ Bulk(n) \in Seq(Vocabulary)
<1>1. Bulk(1) = <<"*1", "$4", "ping">> /\ Bulk(2) = <<"*2", "$4", "ping", "$4", "quit">>
  BY DEF Bulk
<1>2. /\ Len(Bulk(1)) = 3 /\ Len(Bulk(2)) = 5 /\ Bulk(1)[1] = "*1" /\ Bulk(2)[1] = "*2"
      /\ Bulk(1)[3] = "ping" /\ Bulk(2)[3] = "ping"
      /\ Bulk(1)[2] = "$4" /\ Bulk(2)[2] = "$4" /\ Bulk(2)[4] = "$4"
  BY <1>1
<1>3. Bulk(1) \in Seq(Vocabulary) /\ Bulk(2) \in Seq(Vocabulary)
  <2>3. /\ "*1" \in Vocabulary /\ "$4" \in Vocabulary /\ "ping" \in Vocabulary
        /\ "*2" \in Vocabulary /\ "quit" \in Vocabulary
    BY DEF Vocabulary
  <2>4. <<"*1", "$4", "ping">> \in Seq(Vocabulary)
    BY <2>3, Tuples, Zenon
  <2>5. <<"*2", "$4", "ping", "$4", "quit">> \in Seq(Vocabulary)
    BY <2>3, Tuples, Zenon
  <2>. QED BY <1>1, <2>4, <2>5, Zenon
<1>4. \A k \in 1 .. 1 : k = 1
  OBVIOUS
<1>5. \A k \in 1 .. 2 : k = 1 \/ k = 2
  OBVIOUS
<1>6. 2 * 1 = 2 /\ 2 * 2 = 4 /\ 1 + 2 * 1 = 3 /\ 1 + 2 * 2 = 5
  OBVIOUS
<1>. QED BY <1>2, <1>3, <1>4, <1>5, <1>6

\* The first words of bs are those of the bulk.
LEMMA ProcessedBulk ==
  ASSUME NEW V, NEW bs \in Seq(V), NEW z, NEW K, Rows(bs, z, K), NEW n \in {1, 2},
         \A k \in 1 .. K : k <= 1 + 2 * n =>
           bs[z + 3 * k - 2] = <<Bulk(n)[k], 1>> /\ bs[z + 3 * k - 1] = <<Bulk(n)[k], 2>>
  PROVE  /\ K = 0 => Processed(bs) = Outcome(Len(bs), <<>>, TRUE)
         /\ K > 0 /\ K < 1 + 2 * n => Processed(bs) = Outcome(0, <<>>, TRUE)
         /\ K >= 1 + 2 * n =>
              Processed(bs) = Outcome(Least(z + 3 * (1 + 2 * n), Len(bs)), Pong, TRUE)
<1>1. PICK ws : ws = Words(bs)
  OBVIOUS
<1>2. /\ Len(ws) = K /\ K \in Nat /\ (ws = <<>> <=> K = 0)
      /\ \A k \in 1 .. K : /\ ws[k].word = <<bs[z + 3 * k - 2], bs[z + 3 * k - 1]>>
                           /\ ws[k].upto = Least(z + 3 * k, Len(bs))
  <2>1. /\ Len(ws) = K
        /\ \A k \in 1 .. K : /\ ws[k].word = <<bs[z + 3 * k - 2], bs[z + 3 * k - 1]>>
                             /\ ws[k].upto = Least(z + 3 * k, Len(bs))
    <3>1. RowWorded(bs, z, K, ws)
      BY <1>1, RowWords
    <3>. QED BY <3>1, Zenon DEF RowWorded
  <2>. QED BY <1>1, <2>1, WordsShape DEF Rows
<1>3. \A k \in 1 .. K : k <= 1 + 2 * n => ws[k].word = Word(Bulk(n)[k])
  BY <1>2 DEF Word
<1>4. K = 0 => Processed(bs) = Outcome(Len(bs), <<>>, TRUE)
  BY <1>1, <1>2 DEF Processed
<1>. SUFFICES ASSUME K > 0
              PROVE  /\ K < 1 + 2 * n => Processed(bs) = Outcome(0, <<>>, TRUE)
                     /\ K >= 1 + 2 * n =>
                          Processed(bs) = Outcome(Least(z + 3 * (1 + 2 * n), Len(bs)), Pong, TRUE)
  <2>1. ~(K = 0) \/ ~(K >= 1 + 2 * n)
    BY <1>2
  <2>2. K > 0 \/ K = 0
    BY <1>2
  <2>. QED BY <1>4, <2>1, <2>2
<1>5. 1 \in 1 .. K /\ 1 <= 1 + 2 * n /\ n \in Nat
  BY <1>2
<1>6. ws[1].word = Word(Bulk(n)[1])
  BY <1>3, <1>5
<1>7. IsStar(ws[1].word) /\ Number(ws[1].word) = n
  <2>1. CASE n = 1
    <3>1. ws[1].word = <<<<"*1", 1>>, <<"*1", 2>>>>
      BY <1>6, <2>1, BulkIs DEF Word
    <3>2. Counted["*1"] = 1
      BY DEF Counted
    <3>3. ws[1].word[1] = <<"*1", 1>> /\ Len(ws[1].word) = 2
      BY <3>1
    <3>. QED BY <2>1, <3>2, <3>3 DEF IsStar, Number
  <2>2. CASE n = 2
    <3>1. ws[1].word = <<<<"*2", 1>>, <<"*2", 2>>>>
      BY <1>6, <2>2, BulkIs DEF Word
    <3>2. Counted["*2"] = 2
      BY DEF Counted
    <3>3. ws[1].word[1] = <<"*2", 1>> /\ Len(ws[1].word) = 2
      BY <3>1
    <3>. QED BY <2>2, <3>2, <3>3 DEF IsStar, Number
  <2>. QED BY <2>1, <2>2
<1>8. Processed(bs) = ProcessMultibulk(ws)
  <2>1. ws # <<>>
    BY <1>2
  <2>. QED BY <1>1, <1>7, <2>1 DEF Processed
<1>9. n \in 1 .. MaxTokens
  BY RedisAssumption
<1>10. GoodSizes(ws, n)
  <2>1. ASSUME NEW k \in 1 .. n, 2 * k <= Len(ws) PROVE IsSize(ws[2 * k].word)
    <3>1. 2 * k \in 1 .. K /\ 2 * k <= 1 + 2 * n
      BY <1>2, <1>5, <2>1
    <3>2. ws[2 * k].word = Word(Bulk(n)[2 * k])
      BY <1>3, <3>1
    <3>3. Bulk(n)[2 * k] = "$4"
      BY BulkIs
    <3>. QED BY <3>2, <3>3 DEF IsSize
  <2>. QED BY <2>1 DEF GoodSizes
<1>11. K < 1 + 2 * n => Processed(bs) = Outcome(0, <<>>, TRUE)
  <2>1. ASSUME K < 1 + 2 * n PROVE Processed(bs) = Outcome(0, <<>>, TRUE)
    <3>1. Len(ws) < 1 + 2 * n
      BY <1>2, <2>1
    <3>2. ProcessMultibulk(ws) = Outcome(0, <<>>, TRUE)
      BY <1>7, <1>9, <1>10, <3>1, MultibulkIs, Zenon
    <3>. QED BY <1>8, <3>2, Zenon
  <2>. QED BY <2>1
<1>12. ASSUME K >= 1 + 2 * n
       PROVE  Processed(bs) = Outcome(Least(z + 3 * (1 + 2 * n), Len(bs)), Pong, TRUE)
  <2>1. 3 \in 1 .. K /\ 3 <= 1 + 2 * n /\ 1 + 2 * n \in 1 .. K /\ ~(K < 1 + 2 * n)
    BY <1>2, <1>12
  <2>2. Processed(bs) = ProcessCommand(ws[3].word, ws[1 + 2 * n].upto)
    <3>1. ~(Len(ws) < 1 + 2 * n)
      BY <1>2, <2>1
    <3>2. ProcessMultibulk(ws) = ProcessCommand(ws[3].word, ws[1 + 2 * n].upto)
      BY <1>7, <1>9, <1>10, <3>1, MultibulkIs, Zenon
    <3>. QED BY <1>8, <3>2, Zenon
  <2>3. ws[3].word = Word("ping")
    BY <1>3, <2>1, BulkIs
  <2>4. ws[1 + 2 * n].upto = Least(z + 3 * (1 + 2 * n), Len(bs))
    BY <1>2, <2>1
  <2>5. Word("ping") # Word("quit")
    BY DEF Word
  <2>6. ProcessCommand(ws[3].word, ws[1 + 2 * n].upto) = Outcome(ws[1 + 2 * n].upto, Pong, TRUE)
    BY <2>3, <2>5 DEF ProcessCommand
  <2>. QED BY <2>2, <2>4, <2>6
<1>. QED BY <1>11, <1>12

-----------------------------------------------------------------------------
(* What the client sends.                                                  *)

\* An element more.
Appended(s, x, t, S) ==
  /\ t \in Seq(S) /\ Len(t) = Len(s) + 1
  /\ \A i \in 1 .. Len(s) : t[i] = s[i]
  /\ t[Len(s) + 1] = x

LEMMA AppendedIs ==
  ASSUME NEW S, NEW s \in Seq(S), NEW x \in S, NEW t, t = Append(s, x)
  PROVE  Appended(s, x, t, S)
<1>1. /\ Append(s, x) \in Seq(S) /\ Len(Append(s, x)) = Len(s) + 1
      /\ \A i \in 1 .. Len(s) : Append(s, x)[i] = s[i]
      /\ Append(s, x)[Len(s) + 1] = x
  BY AppendProperties
<1>. QED BY <1>1, Zenon DEF Appended

Triple(w) == Append(Word(w), Sep)

\* The bytes of a word that is sent.
LEMMA TripleIs ==
  ASSUME NEW w \in Vocabulary
  PROVE  /\ Triple(w) \in Seq(Byte) /\ Len(Triple(w)) = 3
         /\ Triple(w)[1] = <<w, 1>> /\ Triple(w)[2] = <<w, 2>> /\ Triple(w)[3] = Sep
<1>1. PICK a, b, c : a = <<w, 1>> /\ b = <<w, 2>> /\ c = Sep
  OBVIOUS
<1>2. a \in Byte /\ b \in Byte /\ c \in Byte
  BY <1>1 DEF Byte
<1>3. Triple(w) = Append(<<a, b>>, c)
  BY <1>1 DEF Triple, Word
<1>4. PICK p : p = <<a, b>>
  OBVIOUS
<1>5. p \in Seq(Byte) /\ Len(p) = 2 /\ p[1] = a /\ p[2] = b
  BY <1>2, <1>4
<1>6. PICK t : t = Append(p, c)
  OBVIOUS
<1>7. /\ t \in Seq(Byte) /\ Len(t) = Len(p) + 1
      /\ \A i \in 1 .. Len(p) : t[i] = p[i]
      /\ t[Len(p) + 1] = c
  <2>1. p \in Seq(Byte) /\ c \in Byte
    BY <1>2, <1>5
  <2>2. Appended(p, c, t, Byte)
    BY <1>6, <2>1, AppendedIs, Zenon
  <2>. QED BY <2>2, Zenon DEF Appended
<1>8. t \in Seq(Byte) /\ Len(t) = 3 /\ t[1] = a /\ t[2] = b /\ t[3] = c
  BY <1>5, <1>7
<1>. QED BY <1>1, <1>3, <1>4, <1>6, <1>8, Zenon

\* The places of the words in a text.
Spelled(t, cmd, n) ==
  /\ t \in Seq(Byte) /\ Len(t) = 3 * n
  /\ \A k \in 1 .. n : /\ t[3 * k - 2] = <<cmd[k], 1>> /\ t[3 * k - 1] = <<cmd[k], 2>>
                       /\ t[3 * k] = Sep

\* One word more behind a text.
LEMMA SpelledMore ==
  ASSUME NEW cmd, NEW n \in Nat, NEW t, Spelled(t, cmd, n), cmd[n + 1] \in Vocabulary
  PROVE  Spelled(t \o Triple(cmd[n + 1]), cmd, n + 1)
<1>1. PICK u : u = Triple(cmd[n + 1])
  OBVIOUS
<1>2. /\ u \in Seq(Byte) /\ Len(u) = 3 /\ u[1] = <<cmd[n + 1], 1>>
      /\ u[2] = <<cmd[n + 1], 2>> /\ u[3] = Sep
  BY <1>1, TripleIs
<1>3. /\ t \in Seq(Byte) /\ Len(t) = 3 * n
      /\ \A k \in 1 .. n : /\ t[3 * k - 2] = <<cmd[k], 1>> /\ t[3 * k - 1] = <<cmd[k], 2>>
                           /\ t[3 * k] = Sep
  BY DEF Spelled
<1>4. PICK s : s = t \o u
  OBVIOUS
<1>5. /\ s \in Seq(Byte) /\ Len(s) = Len(t) + Len(u)
      /\ \A i \in 1 .. Len(t) + Len(u) : s[i] = IF i <= Len(t) THEN t[i] ELSE u[i - Len(t)]
  BY <1>2, <1>3, <1>4, ConcatProperties
<1>6. /\ \A i \in 1 .. 3 * n : s[i] = t[i]
      /\ \A i \in 1 .. 3 : s[3 * n + i] = u[i]
      /\ Len(s) = 3 * n + 3
  <2>1. /\ \A i \in 1 .. 3 * n : i \in 1 .. 3 * n + 3 /\ i <= 3 * n
        /\ \A i \in 1 .. 3 : /\ 3 * n + i \in 1 .. 3 * n + 3 /\ ~(3 * n + i <= 3 * n)
                             /\ 3 * n + i - 3 * n = i
    OBVIOUS
  <2>2. /\ Len(s) = 3 * n + 3
        /\ \A i \in 1 .. 3 * n + 3 : s[i] = IF i <= 3 * n THEN t[i] ELSE u[i - 3 * n]
    BY <1>2, <1>3, <1>5, Zenon
  <2>3. ASSUME NEW i \in 1 .. 3 * n PROVE s[i] = t[i]
    BY <2>1, <2>2, Zenon
  <2>4. ASSUME NEW i \in 1 .. 3 PROVE s[3 * n + i] = u[i]
    <3>1. PICK m \in 1 .. 3 * n + 3 : m = 3 * n + i /\ ~(m <= 3 * n) /\ m - 3 * n = i
      BY <2>1
    <3>2. s[m] = IF m <= 3 * n THEN t[m] ELSE u[m - 3 * n]
      BY <2>2
    <3>. QED BY <3>1, <3>2
  <2>. QED BY <2>2, <2>3, <2>4
<1>7. ASSUME NEW k \in 1 .. n + 1
      PROVE  /\ s[3 * k - 2] = <<cmd[k], 1>> /\ s[3 * k - 1] = <<cmd[k], 2>>
             /\ s[3 * k] = Sep
  <2>1. CASE k = n + 1
    <3>1. 3 * k - 2 = 3 * n + 1 /\ 3 * k - 1 = 3 * n + 2 /\ 3 * k = 3 * n + 3
      BY <2>1
    <3>. QED BY <1>2, <1>6, <2>1, <3>1
  <2>2. CASE k # n + 1
    <3>1. /\ k \in 1 .. n /\ 3 * k - 2 \in 1 .. 3 * n /\ 3 * k - 1 \in 1 .. 3 * n
          /\ 3 * k \in 1 .. 3 * n
      BY <2>2
    <3>. QED BY <1>3, <1>6, <3>1, Zenon
  <2>. QED BY <2>1, <2>2
<1>8. 3 * n + 3 = 3 * (n + 1)
  OBVIOUS
<1>. QED BY <1>1, <1>4, <1>5, <1>6, <1>7, <1>8 DEF Spelled

\* The bytes of a text are those of its words.
LEMMA TextIs ==
  ASSUME NEW cmd \in Seq(Vocabulary)
  PROVE  Spelled(Text(cmd), cmd, Len(cmd))
<1>1. PICK N : N = Len(cmd)
  OBVIOUS
<1>2. N \in Nat /\ DOMAIN cmd = 1 .. N /\ \A i \in 1 .. N : cmd[i] \in Vocabulary
  BY <1>1, LenProperties
<1>. DEFINE T(n) == FlattenSeq([i \in 1 .. n |-> Triple(cmd[i])])
<1>3. PICK G : G = {n \in 0 .. N : Spelled(T(n), cmd, n)}
  OBVIOUS
<1>4. 0 \in G
  <2>1. T(0) = <<>>
    BY FlattenNone
  <2>2. <<>> \in Seq(Byte) /\ Len(<<>>) = 3 * 0 /\ \A k \in 1 .. 0 : FALSE
    OBVIOUS
  <2>3. Spelled(T(0), cmd, 0)
    BY <2>1, <2>2 DEF Spelled
  <2>4. 0 \in 0 .. N
    BY <1>2
  <2>. QED BY <1>3, <2>3, <2>4
<1>5. ASSUME NEW m \in 1 .. N, m - 1 \in G PROVE m \in G
  <2>1. PICK n \in Nat : n = m - 1 /\ n + 1 = m /\ n + 1 \in 1 .. N
    BY <1>2
  <2>2. Spelled(T(n), cmd, n)
    BY <1>3, <1>5, <2>1
  <2>3. PICK q : q = [i \in 1 .. n + 1 |-> Triple(cmd[i])]
    OBVIOUS
  <2>4. q \in [1 .. n + 1 -> Seq(Byte)]
    <3>1. \A i \in 1 .. n + 1 : i \in 1 .. N
      BY <1>2, <2>1
    <3>. QED BY <1>2, <2>3, <3>1, TripleIs
  <2>5. [i \in 1 .. n |-> q[i]] = [i \in 1 .. n |-> Triple(cmd[i])]
    <3>1. \A i \in 1 .. n : i \in 1 .. n + 1
      OBVIOUS
    <3>. QED BY <2>3, <3>1
  <2>6. FlattenSeq(q) = FlattenSeq([i \in 1 .. n |-> q[i]]) \o q[n + 1]
    BY <2>4, FlattenMore
  <2>7. q[n + 1] = Triple(cmd[n + 1])
    BY <2>3
  <2>8. T(n + 1) = T(n) \o Triple(cmd[n + 1])
    BY <2>3, <2>5, <2>6, <2>7
  <2>9. Spelled(T(n + 1), cmd, n + 1)
    <3>1. cmd[n + 1] \in Vocabulary
      BY <1>2, <2>1
    <3>2. PICK t : t = T(n)
      OBVIOUS
    <3>3. Spelled(t, cmd, n)
      BY <2>2, <3>2
    <3>4. Spelled(t \o Triple(cmd[n + 1]), cmd, n + 1)
      BY <3>1, <3>3, SpelledMore
    <3>. QED BY <2>8, <3>2, <3>4
  <2>10. m \in 0 .. N
    BY <1>2
  <2>. QED BY <1>3, <2>1, <2>9, <2>10
<1>6. N \in 0 .. N
  BY <1>2
<1>7. N \in G
  BY <1>2, <1>4, <1>5, <1>6, UpTo
<1>8. Text(cmd) = T(N)
  BY <1>2 DEF Text, Triple
<1>. QED BY <1>1, <1>3, <1>7, <1>8

\* The commands: the good ones are bulks, and none has two pings.
LEMMA SendableIs ==
  ASSUME NEW cmd \in Sendable
  PROVE  /\ cmd \in Seq(Vocabulary)
         /\ Len(cmd) \in {3, 5} => \E n \in {1, 2} : cmd = Bulk(n)
         /\ \E m \in Nat : \A k \in 1 .. Len(cmd) : cmd[k] = "ping" => k = m
<1>0. /\ "*1" \in Vocabulary /\ "$4" \in Vocabulary /\ "ping" \in Vocabulary
      /\ "*2" \in Vocabulary /\ "quit" \in Vocabulary /\ "*9" \in Vocabulary
  BY DEF Vocabulary
<1>a. \A a, b, c, d, e :
        /\ Len(<<a>>) = 1 /\ Len(<<a, b>>) = 2 /\ Len(<<a, b, c>>) = 3
        /\ Len(<<a, b, c, d, e>>) = 5
  OBVIOUS
<1>1. CASE cmd = <<"ping">>
  <2>1. \A k \in 1 .. Len(cmd) : cmd[k] = "ping" => k = 1
    BY <1>1
  <2>. QED BY <1>0, <1>1, <1>a, <2>1, Tuples
<1>2. CASE cmd = <<"quit">>
  <2>1. \A k \in 1 .. Len(cmd) : cmd[k] = "ping" => k = 1
    BY <1>2
  <2>. QED BY <1>0, <1>2, <1>a, <2>1, Tuples
<1>3. CASE cmd = Bulk(1)
  <2>1. \A k \in 1 .. Len(cmd) : cmd[k] = "ping" => k = 3
    BY <1>3 DEF Bulk
  <2>2. cmd \in Seq(Vocabulary)
    BY <1>3, BulkIs
  <2>. QED BY <1>3, <2>1, <2>2
<1>4. CASE cmd = Bulk(2)
  <2>1. \A k \in 1 .. Len(cmd) : cmd[k] = "ping" => k = 3
    BY <1>4 DEF Bulk
  <2>2. cmd \in Seq(Vocabulary)
    BY <1>4, BulkIs
  <2>. QED BY <1>4, <2>1, <2>2
<1>5. CASE cmd = <<"*1", "ping">>
  <2>1. \A k \in 1 .. Len(cmd) : cmd[k] = "ping" => k = 2
    BY <1>5
  <2>. QED BY <1>0, <1>5, <1>a, <2>1, Tuples
<1>6. CASE cmd = <<"*9">>
  <2>1. \A k \in 1 .. Len(cmd) : cmd[k] = "ping" => k = 1
    BY <1>6
  <2>. QED BY <1>0, <1>6, <1>a, <2>1, Tuples
<1>7. Bulk(1) = <<"*1", "$4", "ping">> /\ Bulk(2) = <<"*2", "$4", "ping", "$4", "quit">>
  BY DEF Bulk
<1>. QED BY <1>1, <1>2, <1>3, <1>4, <1>5, <1>6, <1>7, Zenon DEF Sendable

-----------------------------------------------------------------------------
(* The places of the commands in the stream.                               *)

\* The bytes of the first p commands, and where these end.
Texts(cs, p) == FlattenSeq([i \in 1 .. p |-> Text(cs[i])])
Ends(cs, p) == Len(Texts(cs, p))

\* No commands have no bytes.
LEMMA TextsNone == ASSUME NEW cs PROVE Texts(cs, 0) = <<>> /\ Ends(cs, 0) = 0
<1>1. Texts(cs, 0) = <<>>
  BY FlattenNone DEF Texts
<1>2. Len(<<>>) = 0
  OBVIOUS
<1>. QED BY <1>1, <1>2 DEF Ends

\* The bytes of one command more.
LEMMA TextsMore ==
  ASSUME NEW cs \in Seq(Sendable), NEW n \in Nat, n + 1 \in 1 .. Len(cs)
  PROVE  /\ Texts(cs, n) \in Seq(Byte)
         /\ Texts(cs, n + 1) = Texts(cs, n) \o Text(cs[n + 1])
         /\ Ends(cs, n) \in Nat /\ Ends(cs, n + 1) \in Nat
         /\ Ends(cs, n + 1) = Ends(cs, n) + 3 * Len(cs[n + 1])
<1>1. PICK q : q = [i \in 1 .. n + 1 |-> Text(cs[i])]
  OBVIOUS
<1>2. ASSUME NEW i \in 1 .. n + 1
      PROVE  Text(cs[i]) \in Seq(Byte) /\ Len(Text(cs[i])) = 3 * Len(cs[i]) /\ Len(cs[i]) \in Nat
  <2>1. i \in 1 .. Len(cs) /\ Len(cs) \in Nat
    BY LenProperties
  <2>2. cs[i] \in Sendable
    BY <2>1
  <2>3. cs[i] \in Seq(Vocabulary)
    BY <2>2, SendableIs
  <2>4. Spelled(Text(cs[i]), cs[i], Len(cs[i]))
    BY <2>3, TextIs
  <2>. QED BY <2>3, <2>4, LenProperties DEF Spelled
<1>3. q \in [1 .. n + 1 -> Seq(Byte)]
  BY <1>1, <1>2
<1>4. [i \in 1 .. n |-> q[i]] = [i \in 1 .. n |-> Text(cs[i])]
  <2>1. \A i \in 1 .. n : i \in 1 .. n + 1
    OBVIOUS
  <2>. QED BY <1>1, <2>1
<1>5. PICK f : f = FlattenSeq([i \in 1 .. n |-> q[i]])
  OBVIOUS
<1>6. f \in Seq(Byte) /\ FlattenSeq(q) = f \o q[n + 1]
  BY <1>3, <1>5, FlattenMore
<1>7. q[n + 1] = Text(cs[n + 1]) /\ n + 1 \in 1 .. n + 1
  BY <1>1
<1>8. f = Texts(cs, n) /\ FlattenSeq(q) = Texts(cs, n + 1)
  BY <1>1, <1>4, <1>5 DEF Texts
<1>9. PICK u : u = Text(cs[n + 1])
  OBVIOUS
<1>10. u \in Seq(Byte) /\ Len(u) = 3 * Len(cs[n + 1]) /\ Len(cs[n + 1]) \in Nat
  BY <1>2, <1>7, <1>9
<1>11. Len(f \o u) = Len(f) + Len(u) /\ Len(f) \in Nat
  BY <1>6, <1>10, ConcatProperties, LenProperties
<1>12. Texts(cs, n + 1) = f \o u
  BY <1>6, <1>7, <1>8, <1>9
<1>13. Ends(cs, n + 1) = Ends(cs, n) + 3 * Len(cs[n + 1]) /\ Ends(cs, n) \in Nat
  BY <1>8, <1>10, <1>11, <1>12 DEF Ends
<1>14. Ends(cs, n + 1) \in Nat
  BY <1>10, <1>13
<1>. QED BY <1>6, <1>8, <1>9, <1>12, <1>13, <1>14

\* The commands end at multiples of three, one behind the other.
LEMMA EndsAre ==
  ASSUME NEW cs \in Seq(Sendable)
  PROVE  \A q \in 0 .. Len(cs) :
           /\ Ends(cs, q) \in Nat
           /\ \E m \in Nat : Ends(cs, q) = 3 * m
           /\ \A p \in 0 .. q : Ends(cs, p) <= Ends(cs, q)
<1>1. PICK N : N = Len(cs)
  OBVIOUS
<1>2. N \in Nat
  BY <1>1, LenProperties
<1>3. PICK G : G = {q \in 0 .. N : /\ Ends(cs, q) \in Nat
                                   /\ \E m \in Nat : Ends(cs, q) = 3 * m
                                   /\ \A p \in 0 .. q : Ends(cs, p) <= Ends(cs, q)}
  OBVIOUS
<1>4. 0 \in G
  <2>1. Ends(cs, 0) = 0
    BY TextsNone
  <2>2. \A p \in 0 .. 0 : p = 0
    OBVIOUS
  <2>3. 0 \in 0 .. N
    BY <1>2
  <2>. QED BY <1>3, <2>1, <2>2, <2>3
<1>5. ASSUME NEW i \in 1 .. N, i - 1 \in G PROVE i \in G
  <2>1. PICK n \in Nat : n = i - 1 /\ n + 1 = i /\ n + 1 \in 1 .. N
    BY <1>2
  <2>2. PICK a \in Nat, b \in Nat, c \in Nat :
          a = Ends(cs, n) /\ b = Ends(cs, n + 1) /\ c = Len(cs[n + 1]) /\ b = a + 3 * c
    <3>1. /\ Ends(cs, n) \in Nat /\ Ends(cs, n + 1) \in Nat
          /\ Ends(cs, n + 1) = Ends(cs, n) + 3 * Len(cs[n + 1])
      BY <1>1, <2>1, TextsMore
    <3>2. cs[n + 1] \in Sendable
      BY <1>1, <2>1, LenProperties
    <3>3. Len(cs[n + 1]) \in Nat
      BY <3>2, SendableIs, LenProperties
    <3>. QED BY <3>1, <3>3
  <2>3. PICK m \in Nat : a = 3 * m
    BY <1>3, <1>5, <2>1, <2>2
  <2>4. b = 3 * (m + c) /\ m + c \in Nat
    <3>1. b = a + 3 * c /\ a = 3 * m
      BY <2>2, <2>3, Zenon
    <3>. QED BY <3>1
  <2>5. ASSUME NEW p \in 0 .. n + 1 PROVE Ends(cs, p) <= b
    <3>1. CASE p = n + 1
      BY <2>2, <3>1
    <3>2. CASE p # n + 1
      <4>1. p \in 0 .. n
        BY <3>2
      <4>2. Ends(cs, p) <= a
        BY <1>3, <1>5, <2>1, <2>2, <4>1
      <4>3. \A q \in 0 .. N : q \in G => Ends(cs, q) \in Nat
        BY <1>3
      <4>4. Ends(cs, p) \in Nat
        <5>1. n + 1 \in 1 .. Len(cs) /\ p \in Nat /\ p + 1 \in 1 .. Len(cs)
          BY <1>1, <1>2, <2>1, <4>1
        <5>. QED BY <5>1, TextsMore
      <4>. QED BY <2>2, <4>2, <4>4
    <3>. QED BY <3>1, <3>2
  <2>6. i \in 0 .. N
    BY <1>2
  <2>. QED BY <1>3, <2>1, <2>2, <2>4, <2>5, <2>6
<1>6. \A q \in 0 .. N : q \in G
  BY <1>2, <1>4, <1>5, UpTo
<1>. QED BY <1>1, <1>3, <1>6

\* A further command leaves the ends of the earlier ones.
OneMore(cs, cmd, cs2) ==
  /\ cs2 \in Seq(Sendable) /\ Len(cs2) = Len(cs) + 1 /\ cs2[Len(cs) + 1] = cmd
  /\ \A i \in 1 .. Len(cs) : cs2[i] = cs[i]
  /\ \A p \in 0 .. Len(cs) : Ends(cs2, p) = Ends(cs, p)
  /\ Ends(cs2, Len(cs) + 1) = Ends(cs, Len(cs)) + 3 * Len(cmd)

\* Append is one command more.
LEMMA EndsSame ==
  ASSUME NEW cs \in Seq(Sendable), NEW cmd \in Sendable, NEW cs2, cs2 = Append(cs, cmd)
  PROVE  OneMore(cs, cmd, cs2)
<1>1. /\ cs2 \in Seq(Sendable) /\ Len(cs2) = Len(cs) + 1 /\ cs2[Len(cs) + 1] = cmd
      /\ \A i \in 1 .. Len(cs) : cs2[i] = cs[i]
  <2>1. Appended(cs, cmd, cs2, Sendable)
    BY AppendedIs, Zenon
  <2>. QED BY <2>1, Zenon DEF Appended
<1>2. Len(cs) \in Nat
  BY LenProperties
<1>3. ASSUME NEW p \in 0 .. Len(cs) PROVE Ends(cs2, p) = Ends(cs, p)
  <2>1. \A i \in 1 .. p : i \in 1 .. Len(cs)
    BY <1>2
  <2>2. [i \in 1 .. p |-> Text(cs2[i])] = [i \in 1 .. p |-> Text(cs[i])]
    BY <1>1, <2>1
  <2>. QED BY <2>2 DEF Ends, Texts
<1>4. Ends(cs2, Len(cs) + 1) = Ends(cs, Len(cs)) + 3 * Len(cmd)
  <2>1. Len(cs) + 1 \in 1 .. Len(cs2) /\ Len(cs) \in 0 .. Len(cs)
    BY <1>1, <1>2
  <2>2. Ends(cs2, Len(cs) + 1) = Ends(cs2, Len(cs)) + 3 * Len(cs2[Len(cs) + 1])
    BY <1>1, <1>2, <2>1, TextsMore
  <2>. QED BY <1>1, <1>3, <2>1, <2>2
<1>. QED BY <1>1, <1>3, <1>4, Zenon DEF OneMore

\* The stream is that of the commands.
LaidOut(cs, s) ==
  /\ cs \in Seq(Sendable) /\ s \in Seq(Byte)
  /\ Ends(cs, Len(cs)) = Len(s)
  /\ \A p \in 1 .. Len(cs) : \A k \in 1 .. Len(cs[p]) :
       /\ s[Ends(cs, p - 1) + 3 * k - 2] = <<cs[p][k], 1>>
       /\ s[Ends(cs, p - 1) + 3 * k - 1] = <<cs[p][k], 2>>

\* Each third byte is a separator, and no other.
Spaced(s) ==
  \E m \in Nat :
    /\ Len(s) = 3 * m
    /\ \A k \in 1 .. m : s[3 * k - 2] # Sep /\ s[3 * k - 1] # Sep /\ s[3 * k] = Sep

\* s2 is s with u behind it.
Behind(s, u, s2) ==
  /\ Len(s2) = Len(s) + Len(u)
  /\ \A i \in 1 .. Len(s) : s2[i] = s[i]
  /\ \A i \in 1 .. Len(u) : s2[Len(s) + i] = u[i]

\* So it is after a concatenation.
LEMMA BehindIs ==
  ASSUME NEW V, NEW s \in Seq(V), NEW u \in Seq(V), NEW s2, s2 = s \o u
  PROVE  s2 \in Seq(V) /\ Behind(s, u, s2)
<1>1. PICK a \in Nat, b \in Nat : a = Len(s) /\ b = Len(u)
  BY LenProperties
<1>2. /\ s2 \in Seq(V) /\ Len(s2) = a + b
      /\ \A i \in 1 .. a + b : s2[i] = IF i <= a THEN s[i] ELSE u[i - a]
  BY <1>1, ConcatProperties, Zenon
<1>3. ASSUME NEW i \in 1 .. a PROVE s2[i] = s[i]
  <2>1. i \in 1 .. a + b /\ i <= a
    OBVIOUS
  <2>. QED BY <1>2, <2>1, Zenon
<1>4. ASSUME NEW i \in 1 .. b PROVE s2[a + i] = u[i]
  <2>1. PICK m \in 1 .. a + b : m = a + i /\ ~(m <= a) /\ m - a = i
    OBVIOUS
  <2>. QED BY <1>2, <2>1
<1>. QED BY <1>1, <1>2, <1>3, <1>4, Zenon DEF Behind

\* Send keeps the stream that of the commands.
LEMMA SendLays ==
  ASSUME NEW cs, NEW s, LaidOut(cs, s), NEW cmd \in Sendable,
         NEW cs2, cs2 = Append(cs, cmd), NEW s2, s2 = s \o Text(cmd)
  PROVE  LaidOut(cs2, s2)
<1>1. PICK N \in Nat, C \in Nat, L \in Nat, u \in Seq(Byte) :
        /\ N = Len(cs) /\ C = Len(cmd) /\ L = Len(s) /\ u = Text(cmd) /\ Spelled(u, cmd, C)
  <2>1. cs \in Seq(Sendable) /\ s \in Seq(Byte)
    BY DEF LaidOut
  <2>2. cmd \in Seq(Vocabulary)
    BY SendableIs
  <2>3. Spelled(Text(cmd), cmd, Len(cmd))
    BY <2>2, TextIs
  <2>4. Len(cs) \in Nat /\ Len(cmd) \in Nat /\ Len(s) \in Nat
    BY <2>1, <2>2, LenProperties
  <2>5. Text(cmd) \in Seq(Byte)
    BY <2>3 DEF Spelled
  <2>. QED BY <2>3, <2>4, <2>5
<1>2. /\ cs2 \in Seq(Sendable) /\ Len(cs2) = N + 1 /\ cs2[N + 1] = cmd
      /\ \A i \in 1 .. N : cs2[i] = cs[i]
      /\ \A p \in 0 .. N : Ends(cs2, p) = Ends(cs, p)
      /\ Ends(cs2, N + 1) = Ends(cs, N) + 3 * C
  <2>1. cs \in Seq(Sendable)
    BY DEF LaidOut
  <2>2. OneMore(cs, cmd, cs2)
    BY <2>1, EndsSame, Zenon
  <2>. QED BY <1>1, <2>2, Zenon DEF OneMore
<1>3. /\ s2 \in Seq(Byte) /\ Len(s2) = L + Len(u)
      /\ \A i \in 1 .. L : s2[i] = s[i]
      /\ \A i \in 1 .. Len(u) : s2[L + i] = u[i]
  <2>1. s \in Seq(Byte) /\ s2 = s \o u /\ u \in Seq(Byte)
    BY <1>1 DEF LaidOut
  <2>2. s2 \in Seq(Byte) /\ Behind(s, u, s2)
    BY <2>1, BehindIs, Zenon
  <2>. QED BY <1>1, <2>2, Zenon DEF Behind
<1>4. /\ Ends(cs, N) = L /\ Len(u) = 3 * C
      /\ \A k \in 1 .. C : u[3 * k - 2] = <<cmd[k], 1>> /\ u[3 * k - 1] = <<cmd[k], 2>>
  BY <1>1 DEF LaidOut, Spelled
<1>5. Ends(cs2, Len(cs2)) = Len(s2)
  BY <1>2, <1>3, <1>4, Zenon
<1>6. ASSUME NEW p \in 1 .. Len(cs2), NEW k \in 1 .. Len(cs2[p])
      PROVE  /\ s2[Ends(cs2, p - 1) + 3 * k - 2] = <<cs2[p][k], 1>>
             /\ s2[Ends(cs2, p - 1) + 3 * k - 1] = <<cs2[p][k], 2>>
  <2>1. CASE p = N + 1
    <3>1. Ends(cs2, p - 1) = L /\ cs2[p] = cmd /\ k \in 1 .. C
      <4>1. p - 1 = N /\ N \in 0 .. N
        BY <2>1
      <4>2. Ends(cs2, p - 1) = L
        BY <1>2, <1>4, <4>1
      <4>. QED BY <1>1, <1>2, <2>1, <4>2
    <3>2. PICK a \in 1 .. 3 * C, b \in 1 .. 3 * C : a = 3 * k - 2 /\ b = 3 * k - 1
      BY <3>1
    <3>3. s2[L + a] = u[a] /\ s2[L + b] = u[b]
      BY <1>3, <1>4
    <3>4. L + a = L + 3 * k - 2 /\ L + b = L + 3 * k - 1
      BY <3>1, <3>2
    <3>5. u[a] = <<cmd[k], 1>> /\ u[b] = <<cmd[k], 2>>
      BY <1>4, <3>1, <3>2
    <3>. QED BY <3>1, <3>3, <3>4, <3>5, Zenon
  <2>2. CASE p # N + 1
    <3>1. p \in 1 .. N /\ p - 1 \in 0 .. N
      BY <1>2, <2>2
    <3>2. cs2[p] = cs[p] /\ Ends(cs2, p - 1) = Ends(cs, p - 1)
      BY <1>2, <3>1
    <3>3. PICK c \in Nat : c = Len(cs[p])
      <4>1. cs[p] \in Sendable
        BY <1>1, <3>1 DEF LaidOut
      <4>. QED BY <4>1, SendableIs, LenProperties
    <3>4. PICK e \in Nat : e = Ends(cs, p - 1) /\ e + 3 * c <= L
      <4>1. cs \in Seq(Sendable)
        BY DEF LaidOut
      <4>2. PICK n \in Nat : n = p - 1 /\ n + 1 = p /\ n + 1 \in 1 .. Len(cs)
        BY <1>1, <3>1
      <4>3. /\ Ends(cs, n) \in Nat
            /\ Ends(cs, n + 1) = Ends(cs, n) + 3 * Len(cs[n + 1])
        BY <4>1, <4>2, TextsMore
      <4>4. p \in 0 .. N /\ N \in 0 .. Len(cs)
        BY <1>1, <3>1
      <4>5. Ends(cs, p) <= Ends(cs, N)
        BY <4>1, <4>4, EndsAre
      <4>. QED BY <1>4, <3>3, <4>2, <4>3, <4>5
    <3>5. k \in 1 .. c
      BY <3>2, <3>3
    <3>6. PICK a \in 1 .. L, b \in 1 .. L : a = e + 3 * k - 2 /\ b = e + 3 * k - 1
      <4>1. e + 3 * c <= L
        BY <3>4
      <4>2. e + 3 * k - 2 \in 1 .. L /\ e + 3 * k - 1 \in 1 .. L
        BY <3>5, <4>1
      <4>. QED BY <4>2
    <3>7. s2[a] = s[a] /\ s2[b] = s[b]
      BY <1>3
    <3>8. s[a] = <<cs[p][k], 1>> /\ s[b] = <<cs[p][k], 2>>
      <4>1. p \in 1 .. Len(cs) /\ k \in 1 .. Len(cs[p])
        BY <1>1, <3>1, <3>3, <3>5
      <4>2. /\ s[Ends(cs, p - 1) + 3 * k - 2] = <<cs[p][k], 1>>
            /\ s[Ends(cs, p - 1) + 3 * k - 1] = <<cs[p][k], 2>>
        BY <4>1, Zenon DEF LaidOut
      <4>. QED BY <3>4, <3>6, <4>2
    <3>. QED BY <3>2, <3>4, <3>6, <3>7, <3>8, Zenon
  <2>. QED BY <2>1, <2>2
<1>. QED BY <1>2, <1>3, <1>5, <1>6 DEF LaidOut

\* Send keeps a separator behind each word.
LEMMA SendSpaces ==
  ASSUME NEW s \in Seq(Byte), Spaced(s), NEW cmd \in Sendable, NEW s2, s2 = s \o Text(cmd)
  PROVE  Spaced(s2)
<1>1. PICK C \in Nat, u \in Seq(Byte) :
        C = Len(cmd) /\ u = Text(cmd) /\ Spelled(u, cmd, C)
  <2>1. cmd \in Seq(Vocabulary)
    BY SendableIs
  <2>2. Spelled(Text(cmd), cmd, Len(cmd))
    BY <2>1, TextIs
  <2>3. Text(cmd) \in Seq(Byte) /\ Len(cmd) \in Nat
    BY <2>1, <2>2, LenProperties DEF Spelled
  <2>. QED BY <2>2, <2>3
<1>2. PICK m \in Nat :
        /\ Len(s) = 3 * m
        /\ \A k \in 1 .. m : s[3 * k - 2] # Sep /\ s[3 * k - 1] # Sep /\ s[3 * k] = Sep
  BY DEF Spaced
<1>3. /\ Len(u) = 3 * C
      /\ \A k \in 1 .. C : u[3 * k - 2] # Sep /\ u[3 * k - 1] # Sep /\ u[3 * k] = Sep
  <2>1. \A k \in 1 .. C : cmd[k] \in Vocabulary
    BY <1>1, SendableIs, LenProperties
  <2>2. 1 \in 1 .. 2 /\ 2 \in 1 .. 2
    OBVIOUS
  <2>3. \A k \in 1 .. C : <<cmd[k], 1>> # Sep /\ <<cmd[k], 2>> # Sep
    BY <2>1, <2>2, SepIs, Zenon
  <2>4. /\ Len(u) = 3 * C
        /\ \A k \in 1 .. C : /\ u[3 * k - 2] = <<cmd[k], 1>> /\ u[3 * k - 1] = <<cmd[k], 2>>
                             /\ u[3 * k] = Sep
    BY <1>1 DEF Spelled
  <2>. QED BY <2>3, <2>4, Zenon
<1>4. /\ Len(s2) = Len(s) + Len(u)
      /\ \A i \in 1 .. Len(s) : s2[i] = s[i]
      /\ \A i \in 1 .. Len(u) : s2[Len(s) + i] = u[i]
  <2>1. s2 \in Seq(Byte) /\ Behind(s, u, s2)
    BY <1>1, BehindIs, Zenon
  <2>. QED BY <2>1 DEF Behind
<1>5. /\ Len(s2) = 3 * m + 3 * C
      /\ \A i \in 1 .. 3 * m : s2[i] = s[i]
      /\ \A i \in 1 .. 3 * C : s2[3 * m + i] = u[i]
  BY <1>2, <1>3, <1>4, Zenon
<1>6. ASSUME NEW k \in 1 .. m + C
      PROVE  s2[3 * k - 2] # Sep /\ s2[3 * k - 1] # Sep /\ s2[3 * k] = Sep
  <2>1. CASE k <= m
    <3>1. /\ k \in 1 .. m /\ 3 * k - 2 \in 1 .. 3 * m /\ 3 * k - 1 \in 1 .. 3 * m
          /\ 3 * k \in 1 .. 3 * m
      BY <2>1
    <3>2. s[3 * k - 2] # Sep /\ s[3 * k - 1] # Sep /\ s[3 * k] = Sep
      BY <1>2, <3>1
    <3>3. s2[3 * k - 2] = s[3 * k - 2] /\ s2[3 * k - 1] = s[3 * k - 1] /\ s2[3 * k] = s[3 * k]
      BY <1>5, <3>1
    <3>. QED BY <3>2, <3>3, Zenon
  <2>2. CASE ~(k <= m)
    <3>1. PICK j \in 1 .. C : k = m + j
      <4>1. k - m \in 1 .. C /\ k = m + (k - m)
        BY <2>2
      <4>. QED BY <4>1
    <3>2. /\ 3 * j - 2 \in 1 .. 3 * C /\ 3 * j - 1 \in 1 .. 3 * C /\ 3 * j \in 1 .. 3 * C
          /\ 3 * k - 2 = 3 * m + (3 * j - 2) /\ 3 * k - 1 = 3 * m + (3 * j - 1)
          /\ 3 * k = 3 * m + 3 * j
      BY <3>1
    <3>3. u[3 * j - 2] # Sep /\ u[3 * j - 1] # Sep /\ u[3 * j] = Sep
      BY <1>3
    <3>4. /\ s2[3 * m + (3 * j - 2)] = u[3 * j - 2]
          /\ s2[3 * m + (3 * j - 1)] = u[3 * j - 1]
          /\ s2[3 * m + 3 * j] = u[3 * j]
      BY <1>5, <3>2
    <3>. QED BY <3>2, <3>3, <3>4, Zenon
  <2>. QED BY <2>1, <2>2
<1>7. m + C \in Nat /\ 3 * m + 3 * C = 3 * (m + C)
  OBVIOUS
<1>. QED BY <1>5, <1>6, <1>7 DEF Spaced

-----------------------------------------------------------------------------
(* The pings in the stream.                                                *)

PingAt(s, n) == {p \in 1 .. n : s[p] = <<"ping", 2>>}

\* The pings are finitely many.
LEMMA PingFinite ==
  ASSUME NEW s, NEW n \in Nat
  PROVE  /\ PingAt(s, n) \subseteq 1 .. n /\ IsFiniteSet(PingAt(s, n))
         /\ Cardinality(PingAt(s, n)) \in Nat
<1>1. IsFiniteSet(1 .. n)
  BY FS_Interval
<1>2. PingAt(s, n) \subseteq 1 .. n
  BY DEF PingAt
<1>3. IsFiniteSet(PingAt(s, n))
  BY <1>1, <1>2, FS_Subset
<1>. QED BY <1>2, <1>3, FS_CardinalityType

\* In more bytes there are no fewer pings.
LEMMA PingGrow ==
  ASSUME NEW s, NEW a \in Nat, NEW b \in Nat, a <= b
  PROVE  Cardinality(PingAt(s, a)) <= Cardinality(PingAt(s, b))
<1>1. \A p \in 1 .. a : p \in 1 .. b
  OBVIOUS
<1>2. PingAt(s, a) \subseteq PingAt(s, b)
  BY <1>1 DEF PingAt
<1>. QED BY <1>2, PingFinite, FS_Subset

\* A ping behind the first a bytes is one more.
LEMMA PingMore ==
  ASSUME NEW s, NEW a \in Nat, NEW b \in Nat, NEW p \in a + 1 .. b, s[p] = <<"ping", 2>>
  PROVE  Cardinality(PingAt(s, a)) + 1 <= Cardinality(PingAt(s, b))
<1>1. /\ p \notin 1 .. a /\ p \in 1 .. b
      /\ \A q \in 1 .. a : q \in 1 .. b
  OBVIOUS
<1>2. p \notin PingAt(s, a) /\ PingAt(s, a) \cup {p} \subseteq PingAt(s, b)
  BY <1>1 DEF PingAt
<1>3. Cardinality(PingAt(s, a) \cup {p}) = Cardinality(PingAt(s, a)) + 1
  BY <1>2, PingFinite, FS_AddElement
<1>4. Cardinality(PingAt(s, a) \cup {p}) <= Cardinality(PingAt(s, b))
  BY <1>2, PingFinite, FS_Subset
<1>. QED BY <1>3, <1>4, PingFinite

\* The pings among the first n bytes stay when more is sent.
LEMMA PingSame ==
  ASSUME NEW s, NEW u, NEW s2, Behind(s, u, s2), NEW n \in Nat, n <= Len(s), Len(s) \in Nat
  PROVE  PingAt(s2, n) = PingAt(s, n)
<1>1. \A p \in 1 .. n : p \in 1 .. Len(s)
  OBVIOUS
<1>2. \A p \in 1 .. n : s2[p] = s[p]
  BY <1>1 DEF Behind
<1>. QED BY <1>2 DEF PingAt

\* A command has one ping at most.
LEMMA SendPings ==
  ASSUME NEW s \in Seq(Byte), NEW cmd \in Sendable, NEW s2, s2 = s \o Text(cmd),
         NEW c \in Nat, Cardinality(PingAt(s, Len(s))) <= c
  PROVE  Cardinality(PingAt(s2, Len(s2))) <= c + 1
<1>1. PICK C \in Nat, L \in Nat, u \in Seq(Byte) :
        C = Len(cmd) /\ L = Len(s) /\ u = Text(cmd) /\ Spelled(u, cmd, C)
  <2>1. cmd \in Seq(Vocabulary)
    BY SendableIs
  <2>2. Spelled(Text(cmd), cmd, Len(cmd))
    BY <2>1, TextIs
  <2>3. Text(cmd) \in Seq(Byte) /\ Len(cmd) \in Nat /\ Len(s) \in Nat
    BY <2>1, <2>2, LenProperties DEF Spelled
  <2>. QED BY <2>2, <2>3
<1>2. PICK m \in Nat : \A k \in 1 .. C : cmd[k] = "ping" => k = m
  BY <1>1, SendableIs
<1>3. Behind(s, u, s2)
  BY <1>1, BehindIs, Zenon
<1>4. /\ Len(u) = 3 * C
      /\ \A k \in 1 .. C : /\ u[3 * k - 2] = <<cmd[k], 1>> /\ u[3 * k - 1] = <<cmd[k], 2>>
                           /\ u[3 * k] = Sep
  BY <1>1 DEF Spelled
<1>5. ASSUME NEW i \in 1 .. 3 * C, u[i] = <<"ping", 2>> PROVE i = 3 * m - 1
  <2>1. PICK k \in Nat : i = 3 * k \/ i = 3 * k + 1 \/ i = 3 * k + 2
    <3>1. i \in Nat
      OBVIOUS
    <3>. QED BY <3>1, Thirds, Zenon
  <2>2. CASE i = 3 * k
    <3>1. k \in 1 .. C
      BY <2>2
    <3>2. u[i] = Sep
      BY <1>4, <2>2, <3>1
    <3>3. "ping" \in Vocabulary /\ 2 \in 1 .. 2
      BY DEF Vocabulary
    <3>4. <<"ping", 2>> # Sep
      BY <3>3, SepIs, Zenon
    <3>. QED BY <1>5, <3>2, <3>4, Zenon
  <2>3. CASE i = 3 * k + 1
    <3>1. k + 1 \in 1 .. C /\ i = 3 * (k + 1) - 2
      BY <2>3
    <3>2. u[i] = <<cmd[k + 1], 1>>
      BY <1>4, <3>1
    <3>. QED BY <1>5, <3>2
  <2>4. CASE i = 3 * k + 2
    <3>1. k + 1 \in 1 .. C /\ i = 3 * (k + 1) - 1
      BY <2>4
    <3>2. u[i] = <<cmd[k + 1], 2>>
      BY <1>4, <3>1
    <3>3. cmd[k + 1] = "ping"
      BY <1>5, <3>2
    <3>4. k + 1 = m
      BY <1>2, <3>1, <3>3
    <3>. QED BY <3>1, <3>4
  <2>. QED BY <2>1, <2>2, <2>3, <2>4
<1>6. PICK x : x = L + (3 * m - 1)
  OBVIOUS
<1>7. Len(s2) = L + 3 * C
  BY <1>1, <1>3, <1>4 DEF Behind
<1>8. ASSUME NEW p \in PingAt(s2, Len(s2)) PROVE p \in PingAt(s, L) \cup {x}
  <2>1. p \in 1 .. L + 3 * C /\ s2[p] = <<"ping", 2>>
    BY <1>7 DEF PingAt
  <2>2. CASE p <= L
    <3>1. p \in 1 .. L
      BY <2>1, <2>2
    <3>2. s2[p] = s[p]
      BY <1>1, <1>3, <3>1 DEF Behind
    <3>. QED BY <2>1, <3>1, <3>2 DEF PingAt
  <2>3. CASE ~(p <= L)
    <3>1. PICK i \in 1 .. 3 * C : p = L + i
      <4>1. p - L \in 1 .. 3 * C /\ p = L + (p - L)
        BY <2>1, <2>3
      <4>. QED BY <4>1
    <3>2. s2[L + i] = u[i]
      BY <1>1, <1>3, <1>4 DEF Behind
    <3>3. i = 3 * m - 1
      BY <1>5, <2>1, <3>1, <3>2
    <3>. QED BY <1>6, <3>1, <3>3, Zenon
  <2>. QED BY <2>2, <2>3
<1>9. IsFiniteSet(PingAt(s, L)) /\ Cardinality(PingAt(s, L)) \in Nat
  BY PingFinite
<1>10. /\ IsFiniteSet(PingAt(s, L) \cup {x})
       /\ Cardinality(PingAt(s, L) \cup {x}) \in Nat
       /\ Cardinality(PingAt(s, L) \cup {x}) <= Cardinality(PingAt(s, L)) + 1
  <2>1. /\ IsFiniteSet(PingAt(s, L) \cup {x})
        /\ Cardinality(PingAt(s, L) \cup {x}) =
             IF x \in PingAt(s, L) THEN Cardinality(PingAt(s, L)) ELSE Cardinality(PingAt(s, L)) + 1
    BY <1>9, FS_AddElement
  <2>. QED BY <1>9, <2>1
<1>11. Cardinality(PingAt(s2, Len(s2))) <= Cardinality(PingAt(s, L) \cup {x})
  BY <1>8, <1>10, FS_Subset
<1>12. Len(s2) \in Nat
  BY <1>7
<1>13. Cardinality(PingAt(s2, Len(s2))) \in Nat
  BY <1>12, PingFinite
<1>. QED BY <1>1, <1>9, <1>10, <1>11, <1>13

-----------------------------------------------------------------------------
(* A ring that holds the bytes of s before t.                              *)

RingHolds(r, s, t) ==
  /\ RingOK(r) /\ t \in Nat /\ Load(r) <= t
  /\ \A j \in 1 .. Load(r) : r.buf[Place(r, j)] = s[t - Load(r) + j]

\* bs is what comes in s behind t.
Continues(bs, s, t) == t + Len(bs) <= Len(s) /\ \A i \in 1 .. Len(bs) : bs[i] = s[t + i]

HoldsNow(q, s, t, n) == RingHolds(q, s, t) /\ Load(q) = n

\* More bytes of s are put in.
LEMMA FetchHolds ==
  ASSUME NEW V, NEW s, NEW r, NEW t, RingHolds(r, s, t),
         NEW bs \in Seq(V), Len(bs) <= Size - Load(r), Continues(bs, s, t),
         NEW q, q = Fetched(r, bs)
  PROVE  HoldsNow(q, s, t + Len(bs), Load(r) + Len(bs))
<1>0. PICK n \in Nat : n = Len(bs) /\ \A i \in 1 .. n : bs[i] = s[t + i]
  BY LenProperties DEF Continues
<1>1. PICK a \in Nat : a = Load(r) /\ a <= t
  <2>1. RingOK(r) /\ Load(r) <= t
    BY DEF RingHolds
  <2>2. Load(r) \in 0 .. Size
    BY <2>1, FullIs
  <2>. QED BY <2>1, <2>2, SizeIs
<1>2. /\ RingOK(r) /\ t \in Nat
      /\ \A j \in 1 .. a : r.buf[Place(r, j)] = s[t - a + j]
  BY <1>1 DEF RingHolds
<1>3. /\ RingOK(q) /\ Load(q) = a + n
      /\ \A j \in 1 .. a : q.buf[Place(q, j)] = r.buf[Place(r, j)]
      /\ \A j \in 1 .. n : q.buf[Place(q, a + j)] = bs[j]
  <2>1. Enters(r, bs, q)
    BY <1>2, FetchedIs, Zenon
  <2>. QED BY <1>0, <1>1, <2>1, Zenon DEF Enters
<1>4. ASSUME NEW j \in 1 .. a + n
      PROVE  q.buf[Place(q, j)] = s[(t + n) - (a + n) + j]
  <2>1. (t + n) - (a + n) + j = t - a + j
    BY <1>1, <1>2
  <2>2. CASE j <= a
    <3>1. j \in 1 .. a
      BY <2>2
    <3>. QED BY <1>2, <1>3, <2>1, <3>1
  <2>3. CASE ~(j <= a)
    <3>1. PICK i \in 1 .. n : j = a + i
      <4>1. j - a \in 1 .. n /\ j = a + (j - a)
        BY <2>3
      <4>. QED BY <4>1
    <3>2. t - a + j = t + i
      BY <1>1, <1>2, <3>1
    <3>3. bs[i] = s[t + i] /\ q.buf[Place(q, a + i)] = bs[i]
      BY <1>0, <1>3
    <3>. QED BY <2>1, <3>1, <3>2, <3>3, Zenon
  <2>. QED BY <2>2, <2>3
<1>5. t + n \in Nat /\ a + n <= t + n
  BY <1>1, <1>2
<1>6. RingHolds(q, s, t + n) /\ Load(q) = a + n
  BY <1>3, <1>4, <1>5 DEF RingHolds
<1>. QED BY <1>0, <1>1, <1>6, Zenon DEF HoldsNow

\* n bytes are taken out.
LEMMA SkipHolds ==
  ASSUME NEW s, NEW r, NEW t, RingHolds(r, s, t), NEW n \in 0 .. Load(r),
         NEW q, q = RSkip(r, n)
  PROVE  HoldsNow(q, s, t, Load(r) - n)
<1>1. PICK a \in Nat : a = Load(r) /\ a <= t
  <2>1. RingOK(r) /\ Load(r) <= t
    BY DEF RingHolds
  <2>2. Load(r) \in 0 .. Size
    BY <2>1, FullIs
  <2>. QED BY <2>1, <2>2, SizeIs
<1>2. /\ RingOK(r) /\ t \in Nat
      /\ \A j \in 1 .. a : r.buf[Place(r, j)] = s[t - a + j]
  BY <1>1 DEF RingHolds
<1>3. n \in 0 .. a
  BY <1>1
<1>4. /\ RingOK(q) /\ Load(q) = a - n
      /\ \A j \in 1 .. a - n : q.buf[Place(q, j)] = r.buf[Place(r, n + j)]
  <2>1. /\ RingOK(q) /\ Load(q) = Load(r) - n
        /\ \A j \in 1 .. Load(q) : q.buf[Place(q, j)] = r.buf[Place(r, n + j)]
    BY <1>2, RSkipIs
  <2>. QED BY <1>1, <2>1
<1>5. ASSUME NEW j \in 1 .. a - n
      PROVE  q.buf[Place(q, j)] = s[t - (a - n) + j]
  <2>1. n + j \in 1 .. a /\ t - a + (n + j) = t - (a - n) + j
    BY <1>1, <1>2, <1>3
  <2>2. r.buf[Place(r, n + j)] = s[t - a + (n + j)]
    BY <1>2, <2>1
  <2>. QED BY <1>4, <2>1, <2>2
<1>6. a - n <= t
  BY <1>1, <1>2, <1>3
<1>7. RingHolds(q, s, t) /\ Load(q) = a - n
  BY <1>2, <1>4, <1>5, <1>6 DEF RingHolds
<1>. QED BY <1>1, <1>7, Zenon DEF HoldsNow

\* The bytes of s from m to t.
LEMMA Piece ==
  ASSUME NEW V, NEW s \in Seq(V), NEW m \in Nat, NEW t \in Nat, m >= 1, m <= t + 1,
         t <= Len(s), NEW u, u = SubSeq(s, m, t)
  PROVE  /\ u \in Seq(V) /\ Len(u) = t - m + 1
         /\ \A i \in 1 .. t - m + 1 : u[i] = s[m + i - 1]
<1>1. \A i \in m .. t : i \in 1 .. Len(s)
  BY LenProperties
<1>2. \A i \in m .. t : s[i] \in V
  BY <1>1, LenProperties
<1>3. /\ u \in Seq(V) /\ Len(u) = IF m <= t THEN t - m + 1 ELSE 0
      /\ \A i \in 1 .. t - m + 1 : u[i] = s[m + i - 1]
  <2>1. m \in Int /\ t \in Int
    OBVIOUS
  <2>. QED BY <1>2, <2>1, SubSeqProperties
<1>4. (IF m <= t THEN t - m + 1 ELSE 0) = t - m + 1
  OBVIOUS
<1>. QED BY <1>3, <1>4

\* bs are the bytes of s that r holds, none of them when it is full.
DumpOf(V, s, r, t, bs) ==
  /\ bs \in Seq(V)
  /\ Load(r) = Size => Len(bs) = 0 /\ bs = <<>>
  /\ Load(r) # Size => /\ Len(bs) = Load(r)
                       /\ \A j \in 1 .. Load(r) : bs[j] = s[t - Load(r) + j]
                       /\ bs = SubSeq(s, t - Load(r) + 1, t)

\* What a ring gives out: the bytes of s it holds, and nothing when it is full.
LEMMA DumpHolds ==
  ASSUME NEW V, NEW s \in Seq(V), NEW r, NEW t, RingHolds(r, s, t), t <= Len(s),
         NEW bs, bs = Dumpable(r)
  PROVE  DumpOf(V, s, r, t, bs)
<1>. USE DEF DumpOf
<1>1. PICK a \in Nat, L \in Nat : a = Load(r) /\ a <= t /\ L = Len(s)
  <2>1. RingOK(r) /\ Load(r) <= t
    BY DEF RingHolds
  <2>2. Load(r) \in 0 .. Size
    BY <2>1, FullIs
  <2>. QED BY <2>1, <2>2, SizeIs, LenProperties
<1>2. /\ RingOK(r) /\ t \in Nat
      /\ \A j \in 1 .. a : r.buf[Place(r, j)] = s[t - a + j]
  BY <1>1 DEF RingHolds
<1>3. Full(r) <=> a = Size
  BY <1>1, <1>2, FullIs
<1>4. bs = [j \in 1 .. (IF Full(r) THEN 0 ELSE a) |-> r.buf[Place(r, j)]]
  BY <1>1, <1>2, DumpableIs
<1>5. CASE a = Size
  <2>1. bs = [j \in 1 .. 0 |-> r.buf[Place(r, j)]]
    BY <1>3, <1>4, <1>5, Zenon
  <2>2. bs = <<>>
    BY <2>1
  <2>3. bs \in Seq(V) /\ Len(bs) = 0
    BY <2>2
  <2>. QED BY <1>1, <1>5, <2>2, <2>3
<1>6. CASE a # Size
  <2>1. bs = [j \in 1 .. a |-> r.buf[Place(r, j)]]
    BY <1>3, <1>4, <1>6, Zenon
  <2>2. \A j \in 1 .. a : t - a + j \in 1 .. L
    BY <1>1, <1>2
  <2>3. \A j \in 1 .. a : s[t - a + j] \in V
    BY <1>1, <2>2
  <2>4. bs \in [1 .. a -> V] /\ \A j \in 1 .. a : bs[j] = s[t - a + j]
    BY <1>2, <2>1, <2>3
  <2>5. bs \in Seq(V) /\ Len(bs) = a
    BY <2>4, InSeq
  <2>6. PICK m \in Nat : m = t - a + 1
    BY <1>1, <1>2
  <2>7. PICK u : u = SubSeq(s, m, t)
    OBVIOUS
  <2>8. t <= L
    BY <1>1
  <2>9. u \in Seq(V) /\ Len(u) = a /\ \A i \in 1 .. a : u[i] = s[t - a + i]
    <3>0. a \in Nat /\ t \in Nat /\ a <= t
      BY <1>1, <1>2
    <3>1. m >= 1 /\ m <= t + 1 /\ t - m + 1 = a /\ \A i \in 1 .. a : m + i - 1 = t - a + i
      <4>1. m >= 1 /\ m <= t + 1 /\ t - m + 1 = a
        BY <3>0, <2>6
      <4>2. ASSUME NEW i \in 1 .. a PROVE m + i - 1 = t - a + i
        BY <3>0, <2>6
      <4>. QED BY <4>1, <4>2
    <3>2. /\ u \in Seq(V) /\ Len(u) = t - m + 1
          /\ \A i \in 1 .. t - m + 1 : u[i] = s[m + i - 1]
      BY <1>2, <2>7, <3>1, Piece
    <3>. QED BY <3>1, <3>2
  <2>10. bs = u
    BY <2>4, <2>5, <2>9, SeqEqual
  <2>. QED BY <1>1, <1>6, <2>4, <2>5, <2>6, <2>7, <2>10
<1>. QED BY <1>5, <1>6

\* More bytes behind those of a ring change nothing in it.
LEMMA HoldsSame ==
  ASSUME NEW s, NEW u, NEW s2, Behind(s, u, s2), Len(s) \in Nat,
         NEW r, NEW t, RingHolds(r, s, t), t <= Len(s)
  PROVE  RingHolds(r, s2, t)
<1>1. PICK a \in Nat, L \in Nat : a = Load(r) /\ a <= t /\ L = Len(s) /\ t <= L
  <2>1. RingOK(r) /\ Load(r) <= t
    BY DEF RingHolds
  <2>2. Load(r) \in 0 .. Size
    BY <2>1, FullIs
  <2>. QED BY <2>1, <2>2, SizeIs
<1>2. /\ RingOK(r) /\ t \in Nat
      /\ \A j \in 1 .. a : r.buf[Place(r, j)] = s[t - a + j]
  BY <1>1 DEF RingHolds
<1>3. \A j \in 1 .. a : t - a + j \in 1 .. L
  BY <1>1, <1>2
<1>4. \A i \in 1 .. L : s2[i] = s[i]
  BY <1>1 DEF Behind
<1>5. \A j \in 1 .. a : r.buf[Place(r, j)] = s2[t - a + j]
  BY <1>2, <1>3, <1>4
<1>. QED BY <1>1, <1>2, <1>5, Zenon DEF RingHolds

-----------------------------------------------------------------------------
(* The answers.                                                            *)

OutByte == {<<"pong", i>> : i \in 1 .. 7}
Pongs(p) == FlattenSeq([i \in 1 .. p |-> Pong])

\* An answer has seven bytes.
LEMMA PongIs == Pong \in Seq(OutByte) /\ Len(Pong) = 7
BY Replies DEF OutByte

\* No answers have no bytes.
LEMMA PongsNone == Pongs(0) = <<>>
BY FlattenNone DEF Pongs

\* One answer more is behind the others.
LEMMA PongsMore ==
  ASSUME NEW n \in Nat
  PROVE  /\ Pongs(n) \in Seq(OutByte) /\ Pongs(n + 1) = Pongs(n) \o Pong
         /\ Behind(Pongs(n), Pong, Pongs(n + 1))
<1>1. PICK q : q = [i \in 1 .. n + 1 |-> Pong]
  OBVIOUS
<1>2. q \in [1 .. n + 1 -> Seq(OutByte)]
  BY <1>1, PongIs
<1>3. [i \in 1 .. n |-> q[i]] = [i \in 1 .. n |-> Pong]
  <2>1. \A i \in 1 .. n : i \in 1 .. n + 1
    OBVIOUS
  <2>. QED BY <1>1, <2>1
<1>4. PICK f : f = FlattenSeq([i \in 1 .. n |-> q[i]])
  OBVIOUS
<1>5. f \in Seq(OutByte) /\ FlattenSeq(q) = f \o q[n + 1]
  BY <1>2, <1>4, FlattenMore
<1>6. q[n + 1] = Pong
  BY <1>1
<1>7. f = Pongs(n) /\ FlattenSeq(q) = Pongs(n + 1)
  BY <1>1, <1>3, <1>4 DEF Pongs
<1>8. Pongs(n) \in Seq(OutByte) /\ Pongs(n + 1) = Pongs(n) \o Pong
  BY <1>5, <1>6, <1>7, Zenon
<1>. QED BY <1>8, PongIs, BehindIs, Zenon

\* p answers have 7 * p bytes.
LEMMA PongsLen ==
  ASSUME NEW n \in Nat
  PROVE  Pongs(n) \in Seq(OutByte) /\ Len(Pongs(n)) = 7 * n
<1>1. PICK G : G = {i \in 0 .. n : Len(Pongs(i)) = 7 * i}
  OBVIOUS
<1>2. 0 \in G
  <2>1. Len(Pongs(0)) = 7 * 0
    BY PongsNone
  <2>2. 0 \in 0 .. n
    OBVIOUS
  <2>. QED BY <1>1, <2>1, <2>2, Zenon
<1>3. ASSUME NEW i \in 1 .. n, i - 1 \in G PROVE i \in G
  <2>1. PICK m \in Nat : m = i - 1 /\ m + 1 = i /\ i \in 0 .. n
    OBVIOUS
  <2>2. Len(Pongs(m + 1)) = Len(Pongs(m)) + Len(Pong)
    BY PongsMore DEF Behind
  <2>3. Len(Pongs(m)) = 7 * m
    BY <1>1, <1>3, <2>1
  <2>4. Len(Pongs(i)) = 7 * i
    BY <2>1, <2>2, <2>3, PongIs
  <2>. QED BY <1>1, <2>1, <2>4
<1>4. n \in 0 .. n
  OBVIOUS
<1>5. n \in G
  BY <1>2, <1>3, <1>4, UpTo
<1>. QED BY <1>1, <1>5, PongsMore

\* After o was written, r holds what is left of p answers, or, full, what
\* of it there was room for.
Owed(o, r, p) ==
  /\ RingHolds(r, Pongs(p), Len(o) + Load(r))
  /\ Len(o) + Load(r) <= 7 * p
  /\ Load(r) < Size => Len(o) + Load(r) = 7 * p

\* z_ringbuf_push puts in what there is room for.
LEMMA PushedIs ==
  ASSUME NEW r, RingOK(r), NEW bs, Len(bs) \in Nat
  PROVE  /\ Pushed(r, bs) = Fetched(r, SubSeq(bs, 1, Least(Len(bs), Size - Load(r))))
         /\ Least(Len(bs), Size - Load(r)) \in Nat
         /\ Least(Len(bs), Size - Load(r)) <= Len(bs)
         /\ Least(Len(bs), Size - Load(r)) <= Size - Load(r)
<1>1. Length(WriteIov(r)) = Size - Load(r)
  BY WriteIovIs
<1>2. Load(r) \in 0 .. Size
  BY FullIs
<1>. QED BY <1>1, <1>2, SizeIs DEF Pushed, Least

\* A push keeps the ring sound.
LEMMA PushRing ==
  ASSUME NEW r, RingOK(r), NEW V, NEW bs \in Seq(V), NEW q, q = Pushed(r, bs)
  PROVE  RingOK(q)
<1>1. Len(bs) \in Nat
  BY LenProperties
<1>2. PICK n \in Nat : n = Least(Len(bs), Size - Load(r))
  BY <1>1, PushedIs
<1>3. q = Fetched(r, SubSeq(bs, 1, n)) /\ n <= Len(bs) /\ n <= Size - Load(r)
  BY <1>1, <1>2, PushedIs, Zenon
<1>4. PICK u : u = SubSeq(bs, 1, n)
  OBVIOUS
<1>5. u \in Seq(V) /\ Len(u) = n
  <2>1. 1 \in Nat /\ 1 >= 1 /\ 1 <= n + 1 /\ n - 1 + 1 = n
    OBVIOUS
  <2>2. u \in Seq(V) /\ Len(u) = n - 1 + 1
    BY <1>3, <1>4, <2>1, Piece
  <2>. QED BY <2>1, <2>2
<1>6. q = Fetched(r, u) /\ Len(u) <= Size - Load(r)
  BY <1>3, <1>4, <1>5, Zenon
<1>7. Enters(r, u, q)
  BY <1>5, <1>6, FetchedIs, Zenon
<1>. QED BY <1>7 DEF Enters

\* An empty reply leaves what is owed.
LEMMA PushNothing ==
  ASSUME NEW o, Len(o) \in Nat, NEW r, NEW p \in Nat, Owed(o, r, p),
         NEW q, q = Pushed(r, <<>>)
  PROVE  Owed(o, q, p) /\ Load(q) = Load(r)
<1>1. PICK t \in Nat, a \in Nat : a = Load(r) /\ t = Len(o) + a /\ RingOK(r) /\ a <= Size
  <2>1. RingOK(r)
    BY DEF Owed, RingHolds
  <2>2. Load(r) \in 0 .. Size
    BY <2>1, FullIs
  <2>. QED BY <2>1, <2>2, SizeIs
<1>2. PICK e \in Seq(OutByte) : e = <<>> /\ Len(e) = 0
  <2>1. <<>> \in Seq(OutByte) /\ Len(<<>>) = 0
    OBVIOUS
  <2>. QED BY <2>1, Zenon
<1>3. Least(0, Size - a) = 0
  BY <1>1, SizeIs DEF Least
<1>4. q = Fetched(r, SubSeq(e, 1, 0))
  <2>1. Len(e) \in Nat
    BY <1>2
  <2>2. Pushed(r, e) = Fetched(r, SubSeq(e, 1, Least(Len(e), Size - Load(r))))
    BY <1>1, <2>1, PushedIs, Zenon
  <2>. QED BY <1>1, <1>2, <1>3, <2>2
<1>5. SubSeq(e, 1, 0) = e
  BY <1>2, SubSeqEmpty
<1>6. q = Fetched(r, e)
  BY <1>4, <1>5, Zenon
<1>7. RingHolds(q, Pongs(p), t + 0) /\ Load(q) = a + 0
  <2>1. RingHolds(r, Pongs(p), t) /\ t <= 7 * p
    BY <1>1 DEF Owed
  <2>2. Pongs(p) \in Seq(OutByte) /\ Len(Pongs(p)) = 7 * p
    BY PongsLen
  <2>3. Len(e) <= Size - Load(r) /\ t + Len(e) <= Len(Pongs(p))
    BY <1>1, <1>2, <2>1, <2>2, SizeIs
  <2>4. Continues(e, Pongs(p), t)
    BY <1>2, <2>3 DEF Continues
  <2>5. HoldsNow(q, Pongs(p), t + Len(e), Load(r) + Len(e))
    BY <1>6, <2>1, <2>3, <2>4, FetchHolds, Zenon
  <2>. QED BY <1>1, <1>2, <2>5, Zenon DEF HoldsNow
<1>8. t + 0 = t /\ a + 0 = a
  OBVIOUS
<1>. QED BY <1>1, <1>7, <1>8, Zenon DEF Owed

\* A pong is owed then, or, in a ring that is full, cut.
LEMMA PushPong ==
  ASSUME NEW o, Len(o) \in Nat, NEW r, NEW p \in Nat, Owed(o, r, p),
         NEW q, q = Pushed(r, Pong)
  PROVE  Owed(o, q, p + 1)
<1>1. PICK t \in Nat, a \in Nat, l \in Nat :
        a = Load(r) /\ l = Len(o) /\ t = l + a /\ RingOK(r) /\ a <= Size
  <2>1. RingOK(r)
    BY DEF Owed, RingHolds
  <2>2. Load(r) \in 0 .. Size
    BY <2>1, FullIs
  <2>3. Load(r) \in Nat /\ Load(r) <= Size /\ Len(o) + Load(r) \in Nat
    BY <2>2, SizeIs
  <2>. QED BY <2>1, <2>3, Zenon
<1>2. RingHolds(r, Pongs(p), t) /\ t <= 7 * p /\ (a < Size => t = 7 * p)
  BY <1>1 DEF Owed
<1>3. PICK n \in Nat : n = Least(7, Size - a)
  BY <1>1, SizeIs DEF Least
<1>4. n <= 7 /\ n <= Size - a /\ (n < 7 => n = Size - a) /\ (n > 0 => t = 7 * p)
  BY <1>1, <1>2, <1>3, SizeIs DEF Least
<1>5. PICK u : u = SubSeq(Pong, 1, n)
  OBVIOUS
<1>6. u \in Seq(OutByte) /\ Len(u) = n /\ \A i \in 1 .. n : u[i] = Pong[i]
  <2>1. 1 \in Nat /\ 1 >= 1 /\ 1 <= n + 1 /\ n - 1 + 1 = n /\ n <= Len(Pong)
    BY <1>4, PongIs
  <2>2. /\ u \in Seq(OutByte) /\ Len(u) = n - 1 + 1
        /\ \A i \in 1 .. n - 1 + 1 : u[i] = Pong[1 + i - 1]
    BY <1>5, <2>1, Piece, PongIs
  <2>3. \A i \in 1 .. n : 1 + i - 1 = i
    OBVIOUS
  <2>. QED BY <2>1, <2>2, <2>3
<1>7. q = Fetched(r, u)
  <2>1. Len(Pong) \in Nat /\ Len(Pong) = 7
    BY PongIs
  <2>2. Pushed(r, Pong) = Fetched(r, SubSeq(Pong, 1, Least(Len(Pong), Size - Load(r))))
    BY <1>1, <2>1, PushedIs, Zenon
  <2>. QED BY <1>1, <1>3, <1>5, <2>1, <2>2, Zenon
<1>8. PICK s : s = Pongs(p + 1)
  OBVIOUS
<1>9. /\ s \in Seq(OutByte) /\ Len(s) = 7 * (p + 1)
      /\ Behind(Pongs(p), Pong, s) /\ Len(Pongs(p)) = 7 * p
  <2>1. p + 1 \in Nat
    OBVIOUS
  <2>. QED BY <1>8, <2>1, PongsLen, PongsMore, Zenon
<1>10. RingHolds(r, s, t)
  <2>1. 7 * p \in Nat
    OBVIOUS
  <2>. QED BY <1>2, <1>9, <2>1, HoldsSame
<1>11. ASSUME NEW i \in 1 .. n PROVE u[i] = s[t + i]
  <2>1. i \in 1 .. 7 /\ n > 0
    BY <1>4
  <2>2. s[7 * p + i] = Pong[i]
    BY <1>9, <2>1, PongIs DEF Behind
  <2>3. t = 7 * p
    BY <1>4, <2>1
  <2>. QED BY <1>6, <2>2, <2>3, Zenon
<1>12. t + n <= 7 * (p + 1)
  BY <1>2, <1>4
<1>13. RingHolds(q, s, t + n) /\ Load(q) = Load(r) + n
  <2>1. Len(u) <= Size - Load(r) /\ t + Len(u) <= Len(s)
    BY <1>1, <1>4, <1>6, <1>9, <1>12
  <2>2. Continues(u, s, t)
    BY <1>6, <1>11, <2>1 DEF Continues
  <2>3. u \in Seq(OutByte)
    BY <1>6
  <2>4. HoldsNow(q, s, t + Len(u), Load(r) + Len(u))
    BY <1>7, <1>10, <2>1, <2>2, <2>3, FetchHolds, Zenon
  <2>5. Len(u) = n
    BY <1>6
  <2>. QED BY <2>4, <2>5, Zenon DEF HoldsNow
<1>14. Load(q) = a + n /\ l + (a + n) = t + n
  <2>1. t = l + a /\ a = Load(r) /\ Load(q) = Load(r) + n
    BY <1>1, <1>13, Zenon
  <2>. QED BY <2>1
<1>15. a + n < Size => t + n = 7 * (p + 1)
  <2>1. /\ a <= Size /\ (a < Size => t = 7 * p) /\ n <= 7 /\ (n < 7 => n = Size - a)
    BY <1>1, <1>2, <1>4, Zenon
  <2>. QED BY <2>1, SizeIs
<1>16. RingHolds(q, s, l + (a + n)) /\ l + (a + n) <= 7 * (p + 1)
  BY <1>12, <1>13, <1>14
<1>17. a + n < Size => l + (a + n) = 7 * (p + 1)
  BY <1>14, <1>15
<1>. QED BY <1>1, <1>8, <1>14, <1>16, <1>17, Zenon DEF Owed

-----------------------------------------------------------------------------
(* Bulks that come in pieces of whole words.                               *)

Uncut(t) == \E m \in Nat : t = 3 * m \/ t = 3 * m + 2

\* A piece of whole words ends at a word or behind its separator.
LEMMA UncutIs ==
  ASSUME NEW s, NEW M \in Nat, Len(s) = 3 * M,
         \A k \in 1 .. M : s[3 * k - 2] # Sep /\ s[3 * k - 1] # Sep /\ s[3 * k] = Sep,
         NEW t \in Nat, t <= 3 * M, t = 3 * M \/ s[t] = Sep \/ s[t + 1] = Sep, t > 0
  PROVE  Uncut(t)
<1>1. PICK m \in Nat : t = 3 * m \/ t = 3 * m + 1 \/ t = 3 * m + 2
  BY Thirds
<1>2. CASE t = 3 * m + 1
  <2>1. m + 1 \in 1 .. M /\ t = 3 * (m + 1) - 2 /\ t + 1 = 3 * (m + 1) - 1 /\ t # 3 * M
    BY <1>2
  <2>2. s[3 * (m + 1) - 2] # Sep /\ s[3 * (m + 1) - 1] # Sep
    BY <2>1
  <2>. QED BY <2>1, <2>2, Zenon
<1>. QED BY <1>1, <1>2 DEF Uncut

\* From a full ring nothing is read, and nothing is done.
LEMMA NothingRead ==
  ASSUME NEW bs, bs = <<>>
  PROVE  Processed(bs) = Outcome(0, <<>>, TRUE)
<1>1. bs \in Seq(Byte) /\ Len(bs) = 0
  OBVIOUS
<1>2. Rows(bs, 0, 0)
  BY <1>1 DEF Rows
<1>3. 1 \in {1, 2} /\ \A k \in 1 .. 0 : FALSE
  OBVIOUS
<1>4. Processed(bs) = Outcome(Len(bs), <<>>, TRUE)
  BY <1>1, <1>2, <1>3, ProcessedBulk
<1>. QED BY <1>1, <1>4, Zenon

Words3(s, M) ==
  \A k \in 1 .. M : s[3 * k - 2] # Sep /\ s[3 * k - 1] # Sep /\ s[3 * k] = Sep

Copies(bs, s, e, n) == Len(bs) = n /\ \A j \in 1 .. n : bs[j] = s[e + j]

RowsOf(bs, s, z, a, K) ==
  /\ Rows(bs, z, K)
  /\ \A k \in 1 .. K : /\ bs[z + 3 * k - 2] = s[3 * a + 3 * k - 2]
                       /\ bs[z + 3 * k - 1] = s[3 * a + 3 * k - 1]

\* bs, the bytes of s from e to t, are the rows behind the a-th word.
LEMMA RowsAre ==
  ASSUME NEW s, NEW M \in Nat, Words3(s, M),
         NEW a \in Nat, NEW z \in {0, 1}, NEW e \in Nat, e + z = 3 * a,
         NEW t \in Nat, e < t, t <= 3 * M,
         Uncut(t),
         NEW bs, Copies(bs, s, e, t - e)
  PROVE  \E K \in Nat : RowsOf(bs, s, z, a, K) /\ a + K <= M
<1>0. PICK m \in Nat : t = 3 * m \/ t = 3 * m + 2
  BY DEF Uncut
<1>1. PICK K \in Nat : /\ a + K <= M
                       /\ t - e = z + 3 * K \/ (K > 0 /\ t - e = z + 3 * K - 1)
  <2>1. CASE t = 3 * m
    <3>1. /\ m - a \in Nat /\ a + (m - a) <= M /\ t - e = z + 3 * (m - a)
      BY <2>1
    <3>. QED BY <3>1
  <2>2. CASE t = 3 * m + 2
    <3>1. /\ m - a + 1 \in Nat /\ a + (m - a + 1) <= M /\ m - a + 1 > 0
          /\ t - e = z + 3 * (m - a + 1) - 1
      BY <2>2
    <3>. QED BY <3>1
  <2>. QED BY <1>0, <2>1, <2>2
<1>2. z = 1 => bs[1] = Sep
  <2>1. ASSUME z = 1 PROVE bs[1] = Sep
    <3>1. a \in 1 .. M /\ e + 1 = 3 * a /\ 1 \in 1 .. t - e
      BY <2>1
    <3>2. s[3 * a] = Sep /\ bs[1] = s[e + 1]
      BY <3>1 DEF Words3, Copies
    <3>. QED BY <3>1, <3>2, Zenon
  <2>. QED BY <2>1
<1>3. ASSUME NEW k \in 1 .. K
      PROVE  /\ bs[z + 3 * k - 2] = s[3 * a + 3 * k - 2]
             /\ bs[z + 3 * k - 1] = s[3 * a + 3 * k - 1]
             /\ bs[z + 3 * k - 2] # Sep /\ bs[z + 3 * k - 1] # Sep
             /\ z + 3 * k <= t - e => bs[z + 3 * k] = Sep
  <2>1. /\ z + 3 * k - 2 \in 1 .. t - e /\ z + 3 * k - 1 \in 1 .. t - e
        /\ e + (z + 3 * k - 2) = 3 * a + 3 * k - 2
        /\ e + (z + 3 * k - 1) = 3 * a + 3 * k - 1
        /\ e + (z + 3 * k) = 3 * (a + k)
        /\ 3 * a + 3 * k - 2 = 3 * (a + k) - 2 /\ 3 * a + 3 * k - 1 = 3 * (a + k) - 1
        /\ a + k \in 1 .. M /\ (z + 3 * k <= t - e => z + 3 * k \in 1 .. t - e)
    BY <1>1
  <2>2. s[3 * (a + k) - 2] # Sep /\ s[3 * (a + k) - 1] # Sep /\ s[3 * (a + k)] = Sep
    BY <2>1 DEF Words3
  <2>3. /\ bs[z + 3 * k - 2] = s[e + (z + 3 * k - 2)]
        /\ bs[z + 3 * k - 1] = s[e + (z + 3 * k - 1)]
        /\ z + 3 * k <= t - e => bs[z + 3 * k] = s[e + (z + 3 * k)]
    BY <2>1 DEF Copies
  <2>. QED BY <2>1, <2>2, <2>3, Zenon
<1>4. Rows(bs, z, K)
  <2>1. Len(bs) = t - e
    BY DEF Copies
  <2>. QED BY <1>1, <1>2, <1>3, <2>1 DEF Rows
<1>5. RowsOf(bs, s, z, a, K)
  BY <1>3, <1>4 DEF RowsOf
<1>. QED BY <1>1, <1>5, Zenon

\* What has been read is at the end of the p-th command or at its separator.
AtEnd(cs, p, n) == n = Ends(cs, p) \/ n = Ends(cs, p) - 1

\* Of bulks, the next one is carried out, or waited for.
Goes(cs, p, e, o) ==
  /\ o.keep = TRUE
  /\ \/ o.reply = <<>> /\ AtEnd(cs, p, e + o.trim)
     \/ o.reply = Pong /\ AtEnd(cs, p + 1, e + o.trim)

\* Of bulks in whole words, the next is done as a whole, or waited for.
LEMMA BulkRead ==
  ASSUME NEW cs, NEW s, LaidOut(cs, s), Spaced(s),
         \A i \in 1 .. Len(cs) : Len(cs[i]) \in {3, 5},
         NEW p \in 0 .. Len(cs), NEW e \in Nat, NEW t \in Nat, e < t, t <= Len(s),
         AtEnd(cs, p, e), t = Len(s) \/ s[t] = Sep \/ s[t + 1] = Sep,
         NEW bs \in Seq(Byte), Copies(bs, s, e, t - e)
  PROVE  Goes(cs, p, e, Processed(bs))
<1>1. PICK M \in Nat :
        /\ Len(s) = 3 * M
        /\ \A k \in 1 .. M : s[3 * k - 2] # Sep /\ s[3 * k - 1] # Sep /\ s[3 * k] = Sep
  BY DEF Spaced
<1>2. cs \in Seq(Sendable) /\ Len(cs) \in Nat /\ Ends(cs, Len(cs)) = 3 * M
  BY <1>1, LenProperties DEF LaidOut
<1>3. PICK a \in Nat : Ends(cs, p) = 3 * a
  BY <1>2, EndsAre
<1>4. PICK z \in {0, 1} : e + z = 3 * a
  <2>1. e = 3 * a \/ e = 3 * a - 1
    BY <1>3 DEF AtEnd
  <2>2. CASE e = 3 * a
    <3>1. e + 0 = 3 * a /\ 0 \in {0, 1}
      BY <2>2
    <3>. QED BY <3>1
  <2>3. CASE e = 3 * a - 1
    <3>1. e + 1 = 3 * a /\ 1 \in {0, 1}
      BY <2>3
    <3>. QED BY <3>1
  <2>. QED BY <2>1, <2>2, <2>3
<1>5. t <= 3 * M /\ t > 0 /\ (t = 3 * M \/ s[t] = Sep \/ s[t + 1] = Sep)
  BY <1>1
<1>6. Uncut(t)
  BY <1>1, <1>5, UncutIs
<1>a. Words3(s, M)
  BY <1>1 DEF Words3
<1>b. PICK K \in Nat : RowsOf(bs, s, z, a, K) /\ a + K <= M
  <2>1. t <= 3 * M
    BY <1>5
  <2>. QED BY <1>a, <1>4, <1>6, <2>1, RowsAre, Zenon
<1>7. /\ Rows(bs, z, K) /\ a + K <= M
      /\ \A k \in 1 .. K : /\ bs[z + 3 * k - 2] = s[3 * a + 3 * k - 2]
                           /\ bs[z + 3 * k - 1] = s[3 * a + 3 * k - 1]
  BY <1>b DEF RowsOf
<1>8. PICK l \in Nat : l = t - e /\ l = Len(bs)
  <2>1. Len(bs) = t - e
    BY DEF Copies
  <2>2. Len(bs) \in Nat
    BY LenProperties
  <2>. QED BY <2>1, <2>2
<1>9. CASE p = Len(cs)
  <2>1. K = 0
    BY <1>2, <1>3, <1>7, <1>9
  <2>2. 1 \in {1, 2} /\ \A k \in 1 .. 0 : FALSE
    OBVIOUS
  <2>3. Processed(bs) = Outcome(l, <<>>, TRUE)
    BY <1>7, <1>8, <2>1, <2>2, ProcessedBulk
  <2>4. l = z
    <3>1. l = z + 3 * 0
      BY <1>7, <1>8, <2>1 DEF Rows
    <3>. QED BY <3>1
  <2>5. e + l = Ends(cs, p)
    BY <1>3, <1>4, <2>4, Zenon
  <2>. QED BY <2>3, <2>5 DEF Goes, AtEnd, Outcome
<1>10. CASE p # Len(cs)
  <2>1. p \in Nat /\ p + 1 \in 1 .. Len(cs) /\ p + 1 - 1 = p
    BY <1>2, <1>10
  <2>2. PICK n \in {1, 2} : cs[p + 1] = Bulk(n)
    <3>1. cs[p + 1] \in Sendable /\ Len(cs[p + 1]) \in {3, 5}
      BY <1>2, <2>1
    <3>. QED BY <3>1, SendableIs
  <2>3. PICK c \in Nat : c = 1 + 2 * n /\ Len(cs[p + 1]) = c
    <3>1. Len(Bulk(n)) = 1 + 2 * n
      BY BulkIs, Zenon
    <3>2. 1 + 2 * n \in Nat
      OBVIOUS
    <3>. QED BY <2>2, <3>1, <3>2, Zenon
  <2>4. Ends(cs, p + 1) = 3 * a + 3 * c
    BY <1>2, <1>3, <2>1, <2>3, TextsMore
  <2>5. ASSUME NEW k \in 1 .. K, k <= 1 + 2 * n
        PROVE  /\ bs[z + 3 * k - 2] = <<Bulk(n)[k], 1>>
               /\ bs[z + 3 * k - 1] = <<Bulk(n)[k], 2>>
    <3>1. k \in 1 .. Len(cs[p + 1])
      <4>1. k \in 1 .. 1 + 2 * n
        BY <2>5
      <4>. QED BY <2>3, <4>1, Zenon
    <3>2. /\ s[Ends(cs, p + 1 - 1) + 3 * k - 2] = <<cs[p + 1][k], 1>>
          /\ s[Ends(cs, p + 1 - 1) + 3 * k - 1] = <<cs[p + 1][k], 2>>
      <4>1. \A i \in 1 .. Len(cs) : \A j \in 1 .. Len(cs[i]) :
              /\ s[Ends(cs, i - 1) + 3 * j - 2] = <<cs[i][j], 1>>
              /\ s[Ends(cs, i - 1) + 3 * j - 1] = <<cs[i][j], 2>>
        BY DEF LaidOut
      <4>2. PICK i \in 1 .. Len(cs) : i = p + 1
        BY <2>1, Zenon
      <4>3. k \in 1 .. Len(cs[i])
        BY <3>1, <4>2, Zenon
      <4>4. /\ s[Ends(cs, i - 1) + 3 * k - 2] = <<cs[i][k], 1>>
            /\ s[Ends(cs, i - 1) + 3 * k - 1] = <<cs[i][k], 2>>
        BY <4>1, <4>3, Zenon
      <4>5. i - 1 = p + 1 - 1 /\ cs[i][k] = cs[p + 1][k]
        BY <4>2
      <4>6. s[Ends(cs, p + 1 - 1) + 3 * k - 2] = <<cs[p + 1][k], 1>>
        BY <4>4, <4>5, Zenon
      <4>7. s[Ends(cs, p + 1 - 1) + 3 * k - 1] = <<cs[p + 1][k], 2>>
        BY <4>4, <4>5, Zenon
      <4>. QED BY <4>6, <4>7, Zenon
    <3>. QED BY <1>3, <1>7, <2>1, <2>2, <3>2, Zenon
  <2>6. /\ K = 0 => Processed(bs) = Outcome(Len(bs), <<>>, TRUE)
        /\ K > 0 /\ K < 1 + 2 * n => Processed(bs) = Outcome(0, <<>>, TRUE)
        /\ K >= 1 + 2 * n =>
             Processed(bs) = Outcome(Least(z + 3 * (1 + 2 * n), Len(bs)), Pong, TRUE)
    <3>1. Rows(bs, z, K)
      BY <1>7
    <3>. QED BY <2>5, <3>1, ProcessedBulk
  <2>7. l = z + 3 * K \/ (K > 0 /\ l = z + 3 * K - 1)
    BY <1>7, <1>8 DEF Rows
  <2>8. CASE K = 0
    <3>1. Processed(bs) = Outcome(l, <<>>, TRUE)
      BY <1>8, <2>6, <2>8, Zenon
    <3>2. e + l = 3 * a
      BY <1>4, <2>7, <2>8
    <3>. QED BY <1>3, <3>1, <3>2 DEF Goes, AtEnd, Outcome
  <2>9. CASE K > 0 /\ K < c
    <3>1. Processed(bs) = Outcome(0, <<>>, TRUE)
      BY <2>3, <2>6, <2>9
    <3>2. e + 0 = e
      OBVIOUS
    <3>. QED BY <3>1, <3>2 DEF Goes, AtEnd, Outcome
  <2>10. CASE K >= c
    <3>1. PICK v : v = Least(z + 3 * c, l)
      OBVIOUS
    <3>2. Processed(bs) = Outcome(v, Pong, TRUE)
      <4>1. K >= 1 + 2 * n
        BY <2>3, <2>10, Zenon
      <4>2. Processed(bs) = Outcome(Least(z + 3 * (1 + 2 * n), Len(bs)), Pong, TRUE)
        BY <2>6, <4>1, Zenon
      <4>. QED BY <1>8, <2>3, <3>1, <4>2, Zenon
    <3>3. v = z + 3 * c \/ v = z + 3 * c - 1
      BY <2>7, <2>10, <3>1 DEF Least
    <3>4. e + v = 3 * a + 3 * c \/ e + v = 3 * a + 3 * c - 1
      <4>1. z \in Nat /\ e + z = 3 * a
        BY <1>4
      <4>2. CASE v = z + 3 * c
        BY <4>1, <4>2
      <4>3. CASE v = z + 3 * c - 1
        BY <4>1, <4>3
      <4>. QED BY <3>3, <4>2, <4>3
    <3>. QED BY <2>4, <3>2, <3>4 DEF Goes, AtEnd, Outcome
  <2>11. K = 0 \/ (K > 0 /\ K < c) \/ K >= c
    OBVIOUS
  <2>. QED BY <2>8, <2>9, <2>10, <2>11
<1>. QED BY <1>9, <1>10

\* What a read leaves of b, the ring that held the bytes of s before t, when
\* n more have come and o was done with bs.
ReadsIn(b, s, t, n, bs, o, q) ==
  /\ HoldsNow(q, s, t + n, Load(b) + n - o.trim)
  /\ bs \in Seq(Byte) /\ Safe(bs, o) /\ o.trim \in 0 .. Load(b) + n
  /\ o.reply = Pong => \E x \in 1 .. o.trim : s[t - Load(b) + x] = <<"ping", 2>>
  /\ Load(b) + n = Size => bs = <<>>
  /\ Load(b) + n # Size => Copies(bs, s, t - Load(b), Load(b) + n)

\* u are the n bytes of s behind t.
NextBytes(u, s, t, n) == u \in Seq(Byte) /\ Len(u) = n /\ Continues(u, s, t)

\* SubSeq gives the next bytes.
LEMMA NextPiece ==
  ASSUME NEW s \in Seq(Byte), NEW t \in Nat, NEW n \in Nat, t + n <= Len(s),
         NEW u, u = SubSeq(s, t + 1, t + n)
  PROVE  NextBytes(u, s, t, n)
<1>1. PICK m \in Nat, e \in Nat : m = t + 1 /\ e = t + n
  OBVIOUS
<1>2. /\ m >= 1 /\ m <= e + 1 /\ e <= Len(s) /\ e - m + 1 = n
      /\ \A i \in 1 .. n : m + i - 1 = t + i
  BY <1>1
<1>3. u = SubSeq(s, m, e)
  BY <1>1
<1>4. /\ u \in Seq(Byte) /\ Len(u) = e - m + 1
      /\ \A i \in 1 .. e - m + 1 : u[i] = s[m + i - 1]
  <2>1. m >= 1 /\ m <= e + 1 /\ e <= Len(s)
    BY <1>2
  <2>. QED BY <1>3, <2>1, Piece
<1>5. u \in Seq(Byte) /\ Len(u) = n /\ \A i \in 1 .. n : u[i] = s[t + i]
  BY <1>2, <1>4
<1>. QED BY <1>5 DEF Continues, NextBytes

\* What the handler of a read leaves of its ring.
LEMMA ReadIn ==
  ASSUME NEW s \in Seq(Byte), NEW t \in Nat, NEW b, RingHolds(b, s, t),
         NEW n \in Nat, t + n <= Len(s), n <= Length(WriteIov(b)),
         NEW r, r = Fetched(b, SubSeq(s, t + 1, t + n)),
         NEW bs, bs = Dumpable(r), NEW o, o = Processed(bs), NEW q, q = RSkip(r, o.trim)
  PROVE  ReadsIn(b, s, t, n, bs, o, q)
<1>1. PICK a \in Nat, L \in Nat : a = Load(b) /\ a <= t /\ a <= Size /\ L = Len(s)
  <2>1. RingOK(b) /\ Load(b) <= t
    BY DEF RingHolds
  <2>2. Load(b) \in 0 .. Size
    BY <2>1, FullIs
  <2>3. Load(b) \in Nat /\ Load(b) <= Size /\ Len(s) \in Nat
    BY <2>2, SizeIs, LenProperties
  <2>. QED BY <2>1, <2>3, Zenon
<1>2. n <= Size - a
  BY <1>1, WriteIovIs DEF RingHolds
<1>3. PICK u : u = SubSeq(s, t + 1, t + n)
  OBVIOUS
<1>4. u \in Seq(Byte) /\ Len(u) = n /\ Continues(u, s, t)
  <2>1. NextBytes(u, s, t, n)
    BY <1>3, NextPiece, Zenon
  <2>. QED BY <2>1 DEF NextBytes
<1>5. HoldsNow(r, s, t + n, a + n)
  <2>1. r = Fetched(b, u) /\ Len(u) <= Size - Load(b)
    BY <1>1, <1>2, <1>3, <1>4, Zenon
  <2>2. u \in Seq(Byte) /\ Continues(u, s, t)
    BY <1>4
  <2>3. HoldsNow(r, s, t + Len(u), Load(b) + Len(u))
    BY <2>1, <2>2, FetchHolds, Zenon
  <2>. QED BY <1>1, <1>4, <2>3, Zenon
<1>6. RingHolds(r, s, t + n) /\ Load(r) = a + n
  BY <1>5 DEF HoldsNow
<1>7. /\ bs \in Seq(Byte)
      /\ a + n = Size => Len(bs) = 0 /\ bs = <<>>
      /\ a + n # Size => /\ Len(bs) = a + n
                         /\ \A j \in 1 .. a + n : bs[j] = s[(t + n) - (a + n) + j]
  <2>1. PICK e \in Nat : e = t + n
    OBVIOUS
  <2>2. RingHolds(r, s, e) /\ e <= Len(s)
    BY <1>6, <2>1
  <2>3. /\ bs \in Seq(Byte)
        /\ Load(r) = Size => Len(bs) = 0 /\ bs = <<>>
        /\ Load(r) # Size => /\ Len(bs) = Load(r)
                             /\ \A j \in 1 .. Load(r) : bs[j] = s[e - Load(r) + j]
    <3>1. DumpOf(Byte, s, r, e, bs)
      BY <2>2, DumpHolds, Zenon
    <3>. QED BY <3>1, Zenon DEF DumpOf
  <2>. QED BY <1>6, <2>1, <2>3
<1>8. Safe(bs, o)
  BY <1>7, ProcessedSafe
<1>9. PICK l \in Nat, k \in Nat : l = Len(bs) /\ l <= a + n /\ k = o.trim /\ k <= l
  <2>1. Len(bs) \in Nat /\ o.trim \in 0 .. Len(bs)
    BY <1>7, <1>8, LenProperties DEF Safe
  <2>2. Len(bs) <= a + n
    BY <1>7
  <2>3. o.trim \in Nat /\ o.trim <= Len(bs)
    BY <2>1
  <2>. QED BY <2>1, <2>2, <2>3, Zenon
<1>10. k \in 0 .. a + n
  BY <1>9
<1>11. HoldsNow(q, s, t + n, a + n - k)
  <2>1. k \in 0 .. Load(r) /\ q = RSkip(r, k)
    BY <1>6, <1>9, <1>10, Zenon
  <2>2. HoldsNow(q, s, t + n, Load(r) - k)
    BY <1>6, <2>1, SkipHolds, Zenon
  <2>. QED BY <1>6, <2>2
<1>12. \A j \in 1 .. a + n : (t + n) - (a + n) + j = t - a + j
  BY <1>1
<1>13. a + n # Size => Len(bs) = a + n /\ \A j \in 1 .. a + n : bs[j] = s[t - a + j]
  BY <1>7, <1>12
<1>14. ASSUME o.reply = Pong PROVE \E x \in 1 .. k : s[t - a + x] = <<"ping", 2>>
  <2>1. PICK x \in 1 .. k : bs[x] = <<"ping", 2>>
    BY <1>8, <1>9, <1>14 DEF Safe
  <2>2. x \in 1 .. l /\ l > 0 /\ x \in 1 .. a + n
    BY <1>9
  <2>3. a + n # Size
    BY <1>7, <1>9, <2>2
  <2>. QED BY <1>13, <2>1, <2>2, <2>3
<1>. QED BY <1>1, <1>7, <1>8, <1>9, <1>10, <1>11, <1>13, <1>14 DEF ReadsIn, Copies

-----------------------------------------------------------------------------
(* The inductive invariant.                                                *)

OnlyBulks(cs) == \A i \in 1 .. Len(cs) : Len(cs[i]) \in {3, 5}

\* The bytes of o are the first of s.
Begins(o, s) == Len(o) <= Len(s) /\ \A j \in 1 .. Len(o) : o[j] = s[j]

\* The bytes that have been read and skipped.
Eaten == taken - Load(ibuffer)

RdTypes ==
  /\ conn \in {"open", "closed", "hung"} /\ wants \in BOOLEAN /\ plain \in BOOLEAN
  /\ taken \in 0 .. Len(stream) /\ pings \in Nat /\ out \in Seq(OutByte)

\* The stream is that of the commands, and has a ping for each at most.
RdSent ==
  /\ LaidOut(cmds, stream) /\ Spaced(stream)
  /\ Cardinality(PingAt(stream, Len(stream))) <= Len(cmds)

\* The ring holds the stream up to what has been read, and each ping that
\* was carried out has been skipped.
RdPending ==
  /\ RingHolds(ibuffer, stream, taken)
  /\ pings <= Cardinality(PingAt(stream, Eaten))

\* What was written begins the answers, and the other ring holds the rest.
RdAnswers ==
  /\ RingOK(obuffer) /\ Begins(out, Pongs(pings))
  /\ conn = "open" => Owed(out, obuffer, pings) /\ (wants => Load(obuffer) # 0)

RdOrder ==
  plain =>
    /\ OnlyBulks(cmds)
    /\ conn = "open" /\ Load(ibuffer) < Size => AtEnd(cmds, pings, Eaten)
    /\ conn = "closed" => Load(obuffer) = Size

RdInv == RdTypes /\ RdSent /\ RdPending /\ RdAnswers /\ RdOrder

\* The invariant holds at the start.
LEMMA RdStart == RedisInit => RdInv
<1>. SUFFICES ASSUME RedisInit PROVE RdInv
  OBVIOUS
<1>0. PICK e : e = <<>> /\ Len(e) = 0
  OBVIOUS
<1>1. /\ conn = "open" /\ ibuffer = NewRing /\ obuffer = NewRing
      /\ cmds = e /\ stream = e /\ taken = 0 /\ pings = 0 /\ out = e
      /\ wants = FALSE /\ plain = TRUE
  BY <1>0 DEF RedisInit
<1>2. e \in Seq(OutByte) /\ e \in Seq(Byte) /\ e \in Seq(Sendable) /\ \A i \in 1 .. 0 : FALSE
  BY <1>0
<1>3. RingOK(NewRing) /\ Load(NewRing) = 0
  BY NewRingIs
<1>4. RdTypes
  <2>1. wants \in BOOLEAN /\ plain \in BOOLEAN /\ conn \in {"open", "closed", "hung"}
    BY <1>1, Zenon
  <2>2. taken \in 0 .. Len(stream) /\ pings \in Nat
    BY <1>0, <1>1
  <2>3. out \in Seq(OutByte)
    BY <1>1, <1>2, Zenon
  <2>. QED BY <2>1, <2>2, <2>3, Zenon DEF RdTypes
<1>5. RdSent
  <2>1. LaidOut(e, e)
    BY <1>0, <1>2, TextsNone DEF LaidOut
  <2>2. Spaced(e)
    <3>1. 0 \in Nat /\ Len(e) = 3 * 0
      BY <1>0
    <3>. QED BY <1>2, <3>1, Zenon DEF Spaced
  <2>3. Cardinality(PingAt(e, 0)) = 0
    <3>1. PingAt(e, 0) = {}
      BY <1>2 DEF PingAt
    <3>. QED BY <3>1, FS_EmptySet
  <2>. QED BY <1>0, <1>1, <2>1, <2>2, <2>3 DEF RdSent
<1>6. \A s : RingHolds(NewRing, s, 0)
  BY <1>2, <1>3 DEF RingHolds
<1>7. RdPending
  <2>1. 0 <= Cardinality(PingAt(e, 0))
    <3>1. 0 \in Nat
      OBVIOUS
    <3>2. Cardinality(PingAt(e, 0)) \in Nat
      BY <3>1, PingFinite
    <3>. QED BY <3>2
  <2>2. Eaten = 0
    BY <1>1, <1>3 DEF Eaten
  <2>. QED BY <1>1, <1>6, <2>1, <2>2, Zenon DEF RdPending
<1>8. RdAnswers
  <2>1. Begins(e, Pongs(0))
    BY <1>0, PongsNone DEF Begins
  <2>2. 0 + 0 = 0 /\ 7 * 0 = 0 /\ 0 <= 0
    OBVIOUS
  <2>3. Owed(e, NewRing, 0)
    BY <1>0, <1>3, <1>6, <2>2, Zenon DEF Owed
  <2>. QED BY <1>1, <1>3, <2>1, <2>3 DEF RdAnswers
<1>9. RdOrder
  <2>1. AtEnd(e, 0, 0)
    BY TextsNone DEF AtEnd
  <2>2. Eaten = 0
    BY <1>1, <1>3 DEF Eaten
  <2>3. OnlyBulks(e)
    BY <1>0, <1>2 DEF OnlyBulks
  <2>. QED BY <1>1, <2>1, <2>2, <2>3, Zenon DEF RdOrder
<1>. QED BY <1>4, <1>5, <1>7, <1>8, <1>9 DEF RdInv

\* The numbers an action starts from.
LEMMA RdNumbers ==
  ASSUME RdInv
  PROVE  /\ Len(stream) \in Nat /\ Len(cmds) \in Nat /\ Len(out) \in Nat
         /\ taken \in Nat /\ taken <= Len(stream)
         /\ Load(ibuffer) \in Nat /\ Load(ibuffer) <= Size /\ Load(ibuffer) <= taken
         /\ Load(obuffer) \in Nat /\ Load(obuffer) <= Size
         /\ Eaten \in Nat /\ Eaten <= taken
         /\ pings \in Nat /\ pings <= Len(cmds)
<1>1. /\ stream \in Seq(Byte) /\ cmds \in Seq(Sendable) /\ out \in Seq(OutByte)
      /\ taken \in 0 .. Len(stream) /\ pings \in Nat
  BY DEF RdInv, RdTypes, RdSent, LaidOut
<1>2. Len(stream) \in Nat /\ Len(cmds) \in Nat /\ Len(out) \in Nat
  BY <1>1, LenProperties
<1>3. RingOK(ibuffer) /\ RingOK(obuffer) /\ Load(ibuffer) <= taken
  BY DEF RdInv, RdPending, RdAnswers, RingHolds
<1>4. Load(ibuffer) \in 0 .. Size /\ Load(obuffer) \in 0 .. Size
  BY <1>3, FullIs
<1>5. /\ Load(ibuffer) \in Nat /\ Load(ibuffer) <= Size
      /\ Load(obuffer) \in Nat /\ Load(obuffer) <= Size
      /\ taken \in Nat /\ taken <= Len(stream)
  BY <1>1, <1>2, <1>4, SizeIs
<1>6. Eaten \in Nat /\ Eaten <= taken /\ Eaten <= Len(stream)
  BY <1>2, <1>3, <1>5 DEF Eaten
<1>7. Cardinality(PingAt(stream, Eaten)) <= Cardinality(PingAt(stream, Len(stream)))
  BY <1>2, <1>6, PingGrow
<1>8. /\ Cardinality(PingAt(stream, Eaten)) \in Nat
      /\ Cardinality(PingAt(stream, Len(stream))) \in Nat
  BY <1>2, <1>6, PingFinite
<1>9. /\ pings <= Cardinality(PingAt(stream, Eaten))
      /\ Cardinality(PingAt(stream, Len(stream))) <= Len(cmds)
  BY DEF RdInv, RdPending, RdSent
<1>10. pings <= Len(cmds)
  BY <1>1, <1>2, <1>7, <1>8, <1>9
<1>. QED BY <1>1, <1>2, <1>3, <1>5, <1>6, <1>10

\* The client sends a command.
LEMMA SendStep ==
  ASSUME RdInv, NEW cmd \in Sendable, Send(cmd)
  PROVE  RdInv'
<1>1. /\ conn = "open" /\ cmds' = Append(cmds, cmd) /\ stream' = stream \o Text(cmd)
      /\ plain' = (plain /\ Len(cmd) \in {3, 5})
      /\ conn' = conn /\ ibuffer' = ibuffer /\ obuffer' = obuffer /\ taken' = taken
      /\ pings' = pings /\ out' = out /\ wants' = wants
  BY Zenon DEF Send
<1>2. RdTypes /\ RdSent /\ RdPending /\ RdAnswers /\ RdOrder
  BY DEF RdInv
<1>3. /\ Len(stream) \in Nat /\ Len(cmds) \in Nat /\ taken \in Nat /\ taken <= Len(stream)
      /\ Eaten \in Nat /\ Eaten <= Len(stream) /\ pings \in 0 .. Len(cmds)
  BY RdNumbers
<1>4. PICK u : u = Text(cmd)
  OBVIOUS
<1>5. stream' \in Seq(Byte) /\ Behind(stream, u, stream')
  <2>1. stream \in Seq(Byte) /\ stream' = stream \o u
    BY <1>1, <1>2, <1>4 DEF RdSent, LaidOut
  <2>2. u \in Seq(Byte)
    <3>1. cmd \in Seq(Vocabulary)
      BY SendableIs
    <3>. QED BY <1>4, <3>1, TextIs DEF Spelled
  <2>. QED BY <2>1, <2>2, BehindIs, Zenon
<1>6. OneMore(cmds, cmd, cmds')
  <2>1. cmds \in Seq(Sendable)
    BY <1>2 DEF RdSent, LaidOut
  <2>. QED BY <1>1, <2>1, EndsSame, Zenon
<1>7. Len(stream') \in Nat /\ Len(stream) <= Len(stream')
  <2>1. Len(stream') \in Nat
    BY <1>5, LenProperties
  <2>2. Len(u) \in Nat
    <3>1. cmd \in Seq(Vocabulary)
      BY SendableIs
    <3>2. u \in Seq(Byte)
      BY <1>4, <3>1, TextIs DEF Spelled
    <3>. QED BY <3>2, LenProperties
  <2>. QED BY <1>3, <1>5, <2>1, <2>2 DEF Behind
<1>8. RdTypes'
  <2>1. taken' \in 0 .. Len(stream')
    BY <1>1, <1>3, <1>7
  <2>2. plain' \in BOOLEAN
    BY <1>1, Zenon
  <2>. QED BY <1>1, <1>2, <2>1, <2>2, Zenon DEF RdTypes
<1>9. RdSent'
  <2>1. LaidOut(cmds, stream) /\ Spaced(stream) /\ stream \in Seq(Byte)
    BY <1>2 DEF RdSent, LaidOut
  <2>2. LaidOut(cmds', stream')
    BY <1>1, <2>1, SendLays, Zenon
  <2>3. Spaced(stream')
    BY <1>1, <2>1, SendSpaces, Zenon
  <2>4. Cardinality(PingAt(stream, Len(stream))) <= Len(cmds)
    BY <1>2 DEF RdSent
  <2>5. Cardinality(PingAt(stream', Len(stream'))) <= Len(cmds) + 1
    BY <1>1, <1>3, <2>1, <2>4, SendPings, Zenon
  <2>6. Len(cmds') = Len(cmds) + 1
    BY <1>6 DEF OneMore
  <2>. QED BY <2>2, <2>3, <2>5, <2>6, Zenon DEF RdSent
<1>10. Eaten' = Eaten
  BY <1>1 DEF Eaten
<1>11. RdPending'
  <2>1. RingHolds(ibuffer, stream', taken)
    BY <1>2, <1>3, <1>5, HoldsSame, Zenon DEF RdPending
  <2>2. PingAt(stream', Eaten) = PingAt(stream, Eaten)
    BY <1>3, <1>5, PingSame, Zenon
  <2>3. pings <= Cardinality(PingAt(stream, Eaten))
    BY <1>2 DEF RdPending
  <2>. QED BY <1>1, <1>10, <2>1, <2>2, <2>3, Zenon DEF RdPending
<1>12. RdAnswers'
  BY <1>1, <1>2, Zenon DEF RdAnswers
<1>13. RdOrder'
  <2>1. SUFFICES ASSUME plain' PROVE /\ OnlyBulks(cmds')
                                     /\ Load(ibuffer) < Size => AtEnd(cmds', pings, Eaten)
    <3>1. conn' = "open" /\ conn' # "closed"
      BY <1>1
    <3>. QED BY <1>1, <1>10, <2>1, <3>1, Zenon DEF RdOrder
  <2>2. plain /\ Len(cmd) \in {3, 5}
    BY <1>1, <2>1, Zenon
  <2>3. /\ OnlyBulks(cmds)
        /\ Load(ibuffer) < Size => AtEnd(cmds, pings, Eaten)
    BY <1>1, <1>2, <2>2 DEF RdOrder
  <2>4. Ends(cmds', pings) = Ends(cmds, pings)
    BY <1>3, <1>6, Zenon DEF OneMore
  <2>5. OnlyBulks(cmds')
    <3>1. ASSUME NEW i \in 1 .. Len(cmds') PROVE Len(cmds'[i]) \in {3, 5}
      <4>1. CASE i = Len(cmds) + 1
        BY <1>6, <2>2, <4>1, Zenon DEF OneMore
      <4>2. CASE i # Len(cmds) + 1
        <5>1. Len(cmds') = Len(cmds) + 1
          BY <1>6 DEF OneMore
        <5>2. i \in 1 .. Len(cmds)
          BY <1>3, <4>2, <5>1
        <5>3. cmds'[i] = cmds[i]
          BY <1>6, <5>2, Zenon DEF OneMore
        <5>. QED BY <2>3, <5>2, <5>3, Zenon DEF OnlyBulks
      <4>. QED BY <4>1, <4>2
    <3>. QED BY <3>1, Zenon DEF OnlyBulks
  <2>. QED BY <2>3, <2>4, <2>5, Zenon DEF AtEnd
<1>. QED BY <1>8, <1>9, <1>11, <1>12, <1>13, Zenon DEF RdInv

\* What neither touches the rings nor opens a connection.
LEMMA HangUpStep == ASSUME RdInv, RedisHangUp PROVE RdInv'
<1>1. /\ conn' = "hung" /\ ibuffer' = ibuffer /\ obuffer' = obuffer /\ cmds' = cmds
      /\ stream' = stream /\ taken' = taken /\ pings' = pings /\ out' = out
      /\ wants' = wants /\ plain' = plain
  BY Zenon DEF RedisHangUp
<1>2. RdTypes /\ RdSent /\ RdPending /\ RdAnswers /\ RdOrder
  BY DEF RdInv
<1>3. conn' # "open" /\ conn' # "closed" /\ conn' \in {"open", "closed", "hung"}
  BY <1>1
<1>4. RdTypes'
  BY <1>1, <1>2, <1>3, Zenon DEF RdTypes
<1>5. RdSent'
  BY <1>1, <1>2, Zenon DEF RdSent
<1>6. RdPending'
  BY <1>1, <1>2, Zenon DEF RdPending, Eaten
<1>7. RdAnswers'
  BY <1>1, <1>2, <1>3, Zenon DEF RdAnswers
<1>8. RdOrder'
  BY <1>1, <1>2, <1>3, Zenon DEF RdOrder
<1>. QED BY <1>4, <1>5, <1>6, <1>7, <1>8, Zenon DEF RdInv

\* u are the next n bytes of the answers.
OutPiece(o, r, p, n, u) ==
  /\ Load(r) # Size /\ n <= Load(r) /\ u \in Seq(OutByte) /\ Len(u) = n
  /\ \A j \in 1 .. n : u[j] = Pongs(p)[Len(o) + j]

\* What is written is what comes next.
LEMMA OutPieceIs ==
  ASSUME NEW o \in Seq(OutByte), NEW r, NEW p \in Nat, Owed(o, r, p),
         NEW bs, bs = Dumpable(r), bs # <<>>, NEW n \in Nat, n <= Len(bs),
         NEW u, u = SubSeq(bs, 1, n)
  PROVE  OutPiece(o, r, p, n, u)
<1>1. PICK l \in Nat, a \in Nat, t \in Nat :
        l = Len(o) /\ a = Load(r) /\ t = l + a /\ a <= Size /\ RingOK(r)
  <2>1. RingOK(r)
    BY DEF Owed, RingHolds
  <2>2. Load(r) \in 0 .. Size
    BY <2>1, FullIs
  <2>3. Load(r) \in Nat /\ Load(r) <= Size /\ Len(o) \in Nat /\ Len(o) + Load(r) \in Nat
    BY <2>2, SizeIs, LenProperties
  <2>. QED BY <2>1, <2>3, Zenon
<1>2. PICK s \in Seq(OutByte) : s = Pongs(p) /\ Len(s) = 7 * p
  BY PongsLen, Zenon
<1>4. RingHolds(r, s, t) /\ t <= Len(s)
  BY <1>1, <1>2, Zenon DEF Owed
<1>5. /\ bs \in Seq(OutByte) /\ a # Size /\ Len(bs) = a
      /\ \A j \in 1 .. a : bs[j] = s[t - a + j]
  <2>1. /\ bs \in Seq(OutByte)
        /\ Load(r) = Size => Len(bs) = 0 /\ bs = <<>>
        /\ Load(r) # Size => /\ Len(bs) = Load(r)
                             /\ \A j \in 1 .. Load(r) : bs[j] = s[t - Load(r) + j]
    <3>1. DumpOf(OutByte, s, r, t, bs)
      BY <1>4, DumpHolds, Zenon
    <3>. QED BY <3>1, Zenon DEF DumpOf
  <2>. QED BY <1>1, <2>1
<1>6. n <= a /\ n \in 0 .. a
  BY <1>5
<1>8. u \in Seq(OutByte) /\ Len(u) = n /\ \A j \in 1 .. n : u[j] = s[l + j]
  <2>1. 1 \in Nat /\ 1 >= 1 /\ 1 <= n + 1 /\ n - 1 + 1 = n
    OBVIOUS
  <2>2. /\ u \in Seq(OutByte) /\ Len(u) = n - 1 + 1
        /\ \A i \in 1 .. n - 1 + 1 : u[i] = bs[1 + i - 1]
    BY <1>5, <2>1, Piece
  <2>3. \A j \in 1 .. n : 1 + j - 1 = j /\ j \in 1 .. a /\ t - a + j = l + j
    <3>1. t = l + a /\ n <= a
      BY <1>1, <1>6, Zenon
    <3>. QED BY <3>1
  <2>4. \A j \in 1 .. n : bs[j] = s[l + j]
    BY <1>5, <2>3
  <2>. QED BY <2>1, <2>2, <2>3, <2>4
<1>. QED BY <1>1, <1>2, <1>5, <1>6, <1>8, Zenon DEF OutPiece

\* n bytes of the answers are written.
LEMMA WriteOut ==
  ASSUME NEW o \in Seq(OutByte), NEW r, NEW p \in Nat, Owed(o, r, p), Begins(o, Pongs(p)),
         NEW bs, bs = Dumpable(r), bs # <<>>, NEW n \in Nat, n <= Len(bs),
         NEW o2, o2 = o \o SubSeq(bs, 1, n), NEW q, q = RSkip(r, n)
  PROVE  o2 \in Seq(OutByte) /\ Owed(o2, q, p) /\ Begins(o2, Pongs(p)) /\ RingOK(q)
<1>1. PICK l \in Nat, a \in Nat, t \in Nat :
        l = Len(o) /\ a = Load(r) /\ t = l + a /\ a <= Size /\ RingOK(r)
  <2>1. RingOK(r)
    BY DEF Owed, RingHolds
  <2>2. Load(r) \in 0 .. Size
    BY <2>1, FullIs
  <2>3. Load(r) \in Nat /\ Load(r) <= Size /\ Len(o) \in Nat /\ Len(o) + Load(r) \in Nat
    BY <2>2, SizeIs, LenProperties
  <2>. QED BY <2>1, <2>3, Zenon
<1>2. RingHolds(r, Pongs(p), t) /\ t <= 7 * p /\ (a < Size => t = 7 * p)
  BY <1>1, Zenon DEF Owed
<1>3. PICK s \in Seq(OutByte) : s = Pongs(p) /\ Len(s) = 7 * p
  BY PongsLen, Zenon
<1>4. RingHolds(r, s, t) /\ t <= Len(s)
  BY <1>2, <1>3, Zenon
<1>7. PICK u : u = SubSeq(bs, 1, n)
  OBVIOUS
<1>5. OutPiece(o, r, p, n, u)
  BY <1>7, OutPieceIs, Zenon
<1>6. n <= a /\ n \in 0 .. a /\ a # Size
  BY <1>1, <1>5 DEF OutPiece
<1>8. u \in Seq(OutByte) /\ Len(u) = n /\ \A j \in 1 .. n : u[j] = s[l + j]
  BY <1>1, <1>3, <1>5, Zenon DEF OutPiece
<1>9. o2 \in Seq(OutByte) /\ Behind(o, u, o2)
  BY <1>7, <1>8, BehindIs, Zenon
<1>10. HoldsNow(q, s, t, a - n)
  <2>1. n \in 0 .. Load(r)
    BY <1>1, <1>6, Zenon
  <2>2. HoldsNow(q, s, t, Load(r) - n)
    BY <1>4, <2>1, SkipHolds, Zenon
  <2>. QED BY <1>1, <2>2, Zenon
<1>11. RingHolds(q, s, t) /\ Load(q) = a - n
  BY <1>10 DEF HoldsNow
<1>12. Len(o2) = l + n
  BY <1>1, <1>8, <1>9 DEF Behind
<1>13. (l + n) + (a - n) = t
  <2>1. t = l + a
    BY <1>1
  <2>. QED BY <2>1
<1>14. t = 7 * p
  BY <1>1, <1>2, <1>6, SizeIs
<1>15. Owed(o2, q, p)
  <2>1. t <= 7 * p
    BY <1>2
  <2>. QED BY <1>3, <1>11, <1>12, <1>13, <1>14, <2>1, Zenon DEF Owed
<1>16. Begins(o2, Pongs(p))
  <2>1. Len(o2) <= Len(s)
    BY <1>1, <1>3, <1>6, <1>12, <1>14
  <2>2. ASSUME NEW j \in 1 .. l + n PROVE o2[j] = s[j]
    <3>1. CASE j <= l
      <4>1. j \in 1 .. l
        BY <3>1
      <4>2. o2[j] = o[j]
        BY <1>1, <1>9, <4>1 DEF Behind
      <4>3. o[j] = s[j]
        BY <1>1, <1>3, <4>1 DEF Begins
      <4>. QED BY <4>2, <4>3
    <3>2. CASE ~(j <= l)
      <4>1. PICK i \in 1 .. n : j = l + i
        <5>1. j - l \in 1 .. n /\ j = l + (j - l)
          BY <3>2
        <5>. QED BY <5>1
      <4>2. o2[l + i] = u[i]
        BY <1>1, <1>8, <1>9 DEF Behind
      <4>3. u[i] = s[l + i]
        BY <1>8
      <4>. QED BY <4>1, <4>2, <4>3, Zenon
    <3>. QED BY <3>1, <3>2
  <2>. QED BY <1>3, <1>12, <2>1, <2>2, Zenon DEF Begins
<1>17. RingOK(q)
  BY <1>11 DEF RingHolds
<1>. QED BY <1>9, <1>15, <1>16, <1>17

\* The server writes: a partial write skips what was written, and a full
\* ring, which offers nothing, closes the connection.
LEMMA WriteStep ==
  ASSUME RdInv, NEW n \in 0 .. Size, Write(n)
  PROVE  RdInv'
<1>0. PICK bs : bs = Dumpable(obuffer)
  OBVIOUS
<1>1. /\ conn = "open" /\ wants /\ ibuffer' = ibuffer /\ cmds' = cmds
      /\ stream' = stream /\ taken' = taken /\ pings' = pings /\ plain' = plain
  BY Zenon DEF Write
<1>2. RdTypes /\ RdSent /\ RdPending /\ RdAnswers /\ RdOrder
  BY DEF RdInv
<1>3. /\ Owed(out, obuffer, pings) /\ Load(obuffer) # 0 /\ Begins(out, Pongs(pings))
      /\ RingOK(obuffer)
  BY <1>1, <1>2, Zenon DEF RdAnswers
<1>4. RdSent' /\ RdPending'
  BY <1>1, <1>2, Zenon DEF RdSent, RdPending, Eaten
<1>5. /\ Load(obuffer) \in Nat /\ Load(obuffer) <= Size /\ pings \in Nat
      /\ out \in Seq(OutByte) /\ Len(out) \in Nat
  BY <1>2, RdNumbers DEF RdTypes
<1>6. CASE bs = <<>> /\ conn' = "closed" /\ obuffer' = obuffer /\ out' = out /\ wants' = wants
  <2>1. Load(obuffer) = Size
    <3>1. PICK t \in Nat : t = Len(out) + Load(obuffer)
      BY <1>5
    <3>2. PICK s \in Seq(OutByte) : s = Pongs(pings) /\ Len(s) = 7 * pings
      BY <1>5, PongsLen, Zenon
    <3>3. RingHolds(obuffer, s, t) /\ t <= Len(s)
      BY <1>3, <3>1, <3>2, Zenon DEF Owed
    <3>4. Load(obuffer) # Size => Len(bs) = Load(obuffer)
      <4>1. DumpOf(OutByte, s, obuffer, t, bs)
        BY <1>0, <3>3, DumpHolds, Zenon
      <4>. QED BY <4>1, Zenon DEF DumpOf
    <3>5. Len(bs) = 0
      BY <1>6
    <3>. QED BY <1>3, <3>4, <3>5
  <2>2. conn' # "open" /\ conn' \in {"open", "closed", "hung"}
    BY <1>6
  <2>3. RdTypes'
    BY <1>1, <1>2, <1>6, <2>2, Zenon DEF RdTypes
  <2>4. RdAnswers'
    BY <1>1, <1>2, <1>6, <2>2, Zenon DEF RdAnswers
  <2>5. RdOrder'
    BY <1>1, <1>2, <1>6, <2>1, <2>2, Zenon DEF RdOrder
  <2>. QED BY <1>4, <2>3, <2>4, <2>5, Zenon DEF RdInv
<1>7. CASE /\ bs # <<>> /\ out' = out \o SubSeq(bs, 1, n)
           /\ n \in (IF ReadIov(obuffer)[2].len > 0 THEN 1 ELSE Len(bs)) .. Len(bs)
           /\ obuffer' = Dumped(obuffer, n) /\ wants' = FALSE /\ conn' = conn
  <2>1. n \in Nat /\ n <= Len(bs)
    <3>1. bs \in Seq(OutByte)
      <4>1. PICK t \in Nat : t = Len(out) + Load(obuffer)
        BY <1>5
      <4>2. PICK s \in Seq(OutByte) : s = Pongs(pings) /\ Len(s) = 7 * pings
        BY <1>5, PongsLen, Zenon
      <4>3. RingHolds(obuffer, s, t) /\ t <= Len(s)
        BY <1>3, <4>1, <4>2, Zenon DEF Owed
      <4>4. DumpOf(OutByte, s, obuffer, t, bs)
        BY <1>0, <4>3, DumpHolds, Zenon
      <4>. QED BY <4>4, Zenon DEF DumpOf
    <3>2. Len(bs) \in Nat
      BY <3>1, LenProperties
    <3>3. (IF ReadIov(obuffer)[2].len > 0 THEN 1 ELSE Len(bs)) \in Nat
      BY <3>2
    <3>. QED BY <1>7, <3>2, <3>3
  <2>2. obuffer' = RSkip(obuffer, n) /\ out' = out \o SubSeq(bs, 1, n) /\ bs # <<>>
    BY <1>7 DEF Dumped
  <2>3. /\ out' \in Seq(OutByte) /\ Owed(out', obuffer', pings)
        /\ Begins(out', Pongs(pings)) /\ RingOK(obuffer')
    BY <1>0, <1>3, <1>5, <2>1, <2>2, WriteOut
  <2>4. wants' \in BOOLEAN /\ ~wants' /\ conn' = "open" /\ conn' # "closed"
    BY <1>1, <1>7
  <2>5. RdTypes'
    BY <1>1, <1>2, <2>3, <2>4, Zenon DEF RdTypes
  <2>6. RdAnswers'
    BY <1>1, <2>3, <2>4, Zenon DEF RdAnswers
  <2>7. RdOrder'
    BY <1>1, <1>2, <2>4, Zenon DEF RdOrder, Eaten
  <2>. QED BY <1>4, <2>5, <2>6, <2>7, Zenon DEF RdInv
<1>. QED BY <1>0, <1>6, <1>7, Zenon DEF Write

\* What begins p answers begins one more.
LEMMA BeginsMore ==
  ASSUME NEW o, Len(o) \in Nat, NEW p \in Nat, Begins(o, Pongs(p))
  PROVE  Begins(o, Pongs(p + 1))
<1>1. Behind(Pongs(p), Pong, Pongs(p + 1)) /\ p + 1 \in Nat
  BY PongsMore
<1>2. Len(Pongs(p)) = 7 * p /\ Len(Pongs(p + 1)) = 7 * (p + 1)
  BY <1>1, PongsLen
<1>3. Len(o) <= 7 * p
  BY <1>2 DEF Begins
<1>4. \A j \in 1 .. Len(o) : j \in 1 .. 7 * p
  BY <1>3
<1>5. \A j \in 1 .. Len(o) : o[j] = Pongs(p + 1)[j]
  BY <1>1, <1>2, <1>4 DEF Begins, Behind
<1>6. Len(o) <= 7 * (p + 1)
  BY <1>3
<1>. QED BY <1>2, <1>5, <1>6 DEF Begins

\* The handler of a read, with what it works on by name.
ReadBy(n, r, bs, o) ==
  /\ conn = "open" /\ n \in Nat /\ n >= 1
  /\ taken' = taken + n /\ taken + n <= Len(stream) /\ n <= Length(WriteIov(ibuffer))
  /\ plain' = (plain /\ ~CutsWord(taken'))
  /\ r = Fetched(ibuffer, SubSeq(stream, taken + 1, taken + n))
  /\ bs = Dumpable(r) /\ o = Processed(bs)
  /\ ibuffer' = RSkip(r, o.trim) /\ obuffer' = Pushed(obuffer, o.reply)
  /\ pings' = pings + (IF o.reply = Pong THEN 1 ELSE 0)
  /\ conn' = (IF o.keep THEN "open" ELSE "closed")
  /\ wants' = ~Empty(obuffer')
  /\ cmds' = cmds /\ stream' = stream /\ out' = out

\* Read, with its locals.
LEMMA ReadNamed ==
  ASSUME RdInv, NEW n \in 1 .. Size, Read(n)
  PROVE  \E r, bs, o : ReadBy(n, r, bs, o)
<1>1. PICK r \in {Fetched(ibuffer, SubSeq(stream, taken + 1, taken'))} :
        \E o \in {Processed(Dumpable(r))} :
          /\ ibuffer' = RSkip(r, o.trim)
          /\ obuffer' = Pushed(obuffer, o.reply)
          /\ pings' = pings + (IF o.reply = Pong THEN 1 ELSE 0)
          /\ conn' = IF o.keep THEN "open" ELSE "closed"
  BY Zenon DEF Read
<1>2. PICK o \in {Processed(Dumpable(r))} :
          /\ ibuffer' = RSkip(r, o.trim)
          /\ obuffer' = Pushed(obuffer, o.reply)
          /\ pings' = pings + (IF o.reply = Pong THEN 1 ELSE 0)
          /\ conn' = IF o.keep THEN "open" ELSE "closed"
  BY <1>1, Zenon
<1>3. PICK bs : bs = Dumpable(r)
  OBVIOUS
<1>4. /\ conn = "open" /\ taken' = taken + n /\ plain' = (plain /\ ~CutsWord(taken'))
      /\ n <= Len(stream) - taken /\ n <= Length(WriteIov(ibuffer))
      /\ wants' = ~Empty(obuffer') /\ cmds' = cmds /\ stream' = stream /\ out' = out
  BY Zenon DEF Read
<1>5. taken + n <= Len(stream) /\ n \in Nat /\ n >= 1
  BY <1>4, RdNumbers, SizeIs
<1>6. o = Processed(bs) /\ r = Fetched(ibuffer, SubSeq(stream, taken + 1, taken + n))
  BY <1>1, <1>2, <1>3, <1>4, Zenon
<1>7. ReadBy(n, r, bs, o)
  BY <1>2, <1>3, <1>4, <1>5, <1>6, Zenon DEF ReadBy
<1>. QED BY <1>7, Zenon

\* The server reads and does one command.
LEMMA ReadStep ==
  ASSUME RdInv, NEW n \in 1 .. Size, Read(n)
  PROVE  RdInv'
<1>1. PICK r, bs, o : ReadBy(n, r, bs, o)
  BY ReadNamed, Zenon
<1>2. RdTypes /\ RdSent /\ RdPending /\ RdAnswers /\ RdOrder
  BY DEF RdInv
<1>3. PICK t \in Nat, a \in Nat, L \in Nat, e \in Nat :
        /\ t = taken /\ a = Load(ibuffer) /\ L = Len(stream) /\ e = Eaten
        /\ e = t - a /\ a <= t /\ a <= Size
  BY RdNumbers DEF Eaten
<1>4. n \in Nat /\ n >= 1 /\ t + n <= L /\ taken' = t + n
  BY <1>1, <1>3, Zenon DEF ReadBy
<1>5. ReadsIn(ibuffer, stream, t, n, bs, o, ibuffer')
  <2>1. stream \in Seq(Byte) /\ RingHolds(ibuffer, stream, t)
    BY <1>2, <1>3 DEF RdSent, LaidOut, RdPending
  <2>2. /\ t + n <= Len(stream) /\ n <= Length(WriteIov(ibuffer))
        /\ r = Fetched(ibuffer, SubSeq(stream, t + 1, t + n))
        /\ bs = Dumpable(r) /\ o = Processed(bs) /\ ibuffer' = RSkip(r, o.trim)
    BY <1>1, <1>3, Zenon DEF ReadBy
  <2>. QED BY <1>4, <2>1, <2>2, ReadIn, Zenon
<1>6. PICK k \in Nat : k = o.trim /\ k <= a + n
  <2>1. o.trim \in 0 .. Load(ibuffer) + n
    BY <1>5 DEF ReadsIn
  <2>. QED BY <1>3, <2>1
<1>7. /\ RingHolds(ibuffer', stream, t + n) /\ Load(ibuffer') = a + n - k
      /\ bs \in Seq(Byte) /\ Safe(bs, o)
      /\ o.reply = Pong => \E x \in 1 .. k : stream[e + x] = <<"ping", 2>>
      /\ a + n = Size => bs = <<>>
      /\ a + n # Size => Copies(bs, stream, e, a + n)
  BY <1>3, <1>5, <1>6, Zenon DEF ReadsIn, HoldsNow
<1>8. Eaten' = e + k
  <2>1. taken' = t + n /\ Load(ibuffer') = a + n - k /\ e = t - a
    BY <1>3, <1>4, <1>7, Zenon
  <2>. QED BY <2>1 DEF Eaten
<1>9. /\ o.reply \in {Pong, Ok, <<>>} /\ o.keep \in BOOLEAN /\ (o.keep => o.reply # Ok)
      /\ (o.reply = Pong => o.keep)
  BY <1>7 DEF Safe
<1>10. /\ pings \in Nat /\ Len(out) \in Nat /\ pings \in 0 .. Len(cmds)
  BY RdNumbers
<1>11. /\ o.reply = Pong => pings' = pings + 1
       /\ o.reply # Pong => pings' = pings
  BY <1>1, <1>10 DEF ReadBy
<1>12. /\ o.keep => conn' = "open"
       /\ ~o.keep => conn' = "closed"
  BY <1>1, Zenon DEF ReadBy
<1>13. /\ obuffer' = Pushed(obuffer, o.reply) /\ conn = "open"
       /\ cmds' = cmds /\ stream' = stream /\ out' = out /\ wants' = ~Empty(obuffer')
       /\ plain' = (plain /\ ~CutsWord(taken'))
  BY <1>1, Zenon DEF ReadBy
<1>14. RdTypes'
  <2>1. pings' \in Nat
    BY <1>10, <1>11
  <2>2. conn' \in {"open", "closed", "hung"}
    BY <1>9, <1>12
  <2>3. wants' \in BOOLEAN /\ plain' \in BOOLEAN
    BY <1>13, Zenon
  <2>4. taken' \in 0 .. Len(stream)
    BY <1>3, <1>4
  <2>5. out \in Seq(OutByte)
    BY <1>2 DEF RdTypes
  <2>. QED BY <1>13, <2>1, <2>2, <2>3, <2>4, <2>5, Zenon DEF RdTypes
<1>15. RdSent'
  BY <1>2, <1>13, Zenon DEF RdSent
<1>16. RdPending'
  <2>1. PICK c \in Nat, d \in Nat :
          /\ c = Cardinality(PingAt(stream, e)) /\ d = Cardinality(PingAt(stream, e + k))
          /\ pings <= c /\ c <= d
    <3>1. e + k \in Nat /\ e <= e + k
      OBVIOUS
    <3>2. /\ Cardinality(PingAt(stream, e)) \in Nat
          /\ Cardinality(PingAt(stream, e + k)) \in Nat
          /\ Cardinality(PingAt(stream, e)) <= Cardinality(PingAt(stream, e + k))
      BY <3>1, PingFinite, PingGrow
    <3>3. pings <= Cardinality(PingAt(stream, e))
      BY <1>2, <1>3, Zenon DEF RdPending
    <3>. QED BY <3>2, <3>3, Zenon
  <2>2. ASSUME o.reply = Pong PROVE c + 1 <= d
    <3>1. PICK x \in 1 .. k : stream[e + x] = <<"ping", 2>>
      BY <1>7, <2>2
    <3>2. PICK y : y = e + x
      OBVIOUS
    <3>3. y \in e + 1 .. e + k /\ e + k \in Nat
      BY <3>2
    <3>. QED BY <2>1, <3>1, <3>2, <3>3, PingMore
  <2>3. pings' <= d
    BY <1>10, <1>11, <2>1, <2>2
  <2>. QED BY <1>4, <1>7, <1>8, <1>13, <2>1, <2>3, Zenon DEF RdPending
<1>17. Owed(out, obuffer, pings) /\ Begins(out, Pongs(pings)) /\ RingOK(obuffer)
  BY <1>2, <1>13, Zenon DEF RdAnswers
<1>18. RdAnswers'
  <2>1. RingOK(obuffer')
    <3>1. Pong \in Seq(OutByte)
      BY PongIs
    <3>2. Ok \in Seq({<<"ok", i>> : i \in 1 .. 5})
      BY Replies
    <3>3. <<>> \in Seq(OutByte)
      OBVIOUS
    <3>4. PICK V : o.reply \in Seq(V)
      BY <1>9, <3>1, <3>2, <3>3, Zenon
    <3>. QED BY <1>13, <1>17, <3>4, PushRing, Zenon
  <2>2. CASE o.reply = Pong
    <3>1. Owed(out, obuffer', pings + 1)
      BY <1>10, <1>13, <1>17, <2>2, PushPong, Zenon
    <3>2. Begins(out, Pongs(pings + 1))
      BY <1>10, <1>17, BeginsMore, Zenon
    <3>3. wants' => Load(obuffer') # 0
      BY <1>13, <2>1, FullIs, Zenon
    <3>. QED BY <1>11, <1>13, <2>1, <2>2, <3>1, <3>2, <3>3, Zenon DEF RdAnswers
  <2>3. CASE o.reply = <<>>
    <3>0. o.reply # Pong
      BY <2>3, Replies, Zenon
    <3>1. Owed(out, obuffer', pings)
      BY <1>10, <1>13, <1>17, <2>3, PushNothing, Zenon
    <3>3. wants' => Load(obuffer') # 0
      BY <1>13, <2>1, FullIs, Zenon
    <3>. QED BY <1>11, <1>13, <1>17, <2>1, <3>0, <3>1, <3>3, Zenon DEF RdAnswers
  <2>4. CASE o.reply = Ok
    <3>0. o.reply # Pong
      BY <2>4, Replies, Zenon
    <3>1. conn' # "open"
      BY <1>9, <1>12, <2>4
    <3>. QED BY <1>11, <1>13, <1>17, <2>1, <3>0, <3>1, Zenon DEF RdAnswers
  <2>. QED BY <1>9, <2>2, <2>3, <2>4, Zenon
<1>19. RdOrder'
  <2>1. SUFFICES ASSUME plain'
                 PROVE  /\ OnlyBulks(cmds) /\ o.keep
                        /\ a + n - k < Size => AtEnd(cmds, pings', e + k)
    <3>1. o.keep => conn' # "closed"
      BY <1>12
    <3>. QED BY <1>7, <1>8, <1>13, <2>1, <3>1, Zenon DEF RdOrder
  <2>2. plain /\ ~CutsWord(taken')
    BY <1>13, <2>1, Zenon
  <2>3. OnlyBulks(cmds) /\ AtEnd(cmds, pings, e)
    <3>1. n <= Size - a
      <4>1. n <= Length(WriteIov(ibuffer))
        BY <1>1, Zenon DEF ReadBy
      <4>2. RingOK(ibuffer)
        BY <1>2 DEF RdPending, RingHolds
      <4>3. Length(WriteIov(ibuffer)) = Size - Load(ibuffer)
        BY <4>2, WriteIovIs
      <4>. QED BY <1>3, <4>1, <4>3, Zenon
    <3>2. a < Size
      BY <1>3, <1>4, <3>1, SizeIs
    <3>. QED BY <1>2, <1>3, <1>13, <2>2, <3>2, Zenon DEF RdOrder
  <2>4. CASE a + n = Size
    <3>1. o = Outcome(0, <<>>, TRUE)
      <4>1. o = Processed(bs)
        BY <1>1, Zenon DEF ReadBy
      <4>. QED BY <1>7, <2>4, <4>1, NothingRead, Zenon
    <3>2. k = 0 /\ o.keep
      BY <1>6, <3>1 DEF Outcome
    <3>3. ~(a + n - k < Size)
      BY <2>4, <3>2, SizeIs
    <3>. QED BY <2>3, <3>2, <3>3
  <2>5. CASE a + n # Size
    <3>1. PICK q \in Nat : q = t + n /\ e < q /\ q <= Len(stream) /\ q - e = a + n
      <4>1. t + n \in Nat /\ e < t + n /\ t + n <= Len(stream) /\ (t + n) - e = a + n
        BY <1>3, <1>4
      <4>. QED BY <4>1, Zenon
    <3>2. q = Len(stream) \/ stream[q] = Sep \/ stream[q + 1] = Sep
      <4>1. ~(q < Len(stream) /\ stream[q] # Sep /\ stream[q + 1] # Sep)
        BY <1>4, <2>2, <3>1, Zenon DEF CutsWord
      <4>2. q < Len(stream) \/ q = Len(stream)
        BY <1>3, <3>1
      <4>. QED BY <4>1, <4>2, Zenon
    <3>3. Copies(bs, stream, e, q - e)
      BY <1>7, <2>5, <3>1, Zenon
    <3>4. LaidOut(cmds, stream) /\ Spaced(stream) /\ bs \in Seq(Byte)
      BY <1>2, <1>7 DEF RdSent
    <3>5. \A i \in 1 .. Len(cmds) : Len(cmds[i]) \in {3, 5}
      BY <2>3 DEF OnlyBulks
    <3>6. Goes(cmds, pings, e, Processed(bs))
      BY <1>10, <2>3, <3>1, <3>2, <3>3, <3>4, <3>5, BulkRead
    <3>7. Goes(cmds, pings, e, o)
      BY <1>1, <3>6, Zenon DEF ReadBy
    <3>8. /\ o.keep = TRUE
          /\ \/ o.reply = <<>> /\ AtEnd(cmds, pings, e + k)
             \/ o.reply = Pong /\ AtEnd(cmds, pings + 1, e + k)
      BY <1>6, <3>7, Zenon DEF Goes
    <3>9. <<>> # Pong
      BY Replies, Zenon
    <3>10. CASE o.reply = <<>> /\ AtEnd(cmds, pings, e + k)
      <4>1. pings' = pings
        BY <1>11, <3>9, <3>10, Zenon
      <4>. QED BY <2>3, <3>8, <3>10, <4>1, Zenon
    <3>11. CASE o.reply = Pong /\ AtEnd(cmds, pings + 1, e + k)
      <4>1. pings' = pings + 1
        BY <1>11, <3>11, Zenon
      <4>. QED BY <2>3, <3>8, <3>11, <4>1, Zenon
    <3>. QED BY <3>8, <3>10, <3>11
  <2>. QED BY <2>4, <2>5
<1>. QED BY <1>14, <1>15, <1>16, <1>18, <1>19, Zenon DEF RdInv

-----------------------------------------------------------------------------
(* What the invariant says.                                                *)

\* What begins a sequence is a prefix of it.
LEMMA BeginsPrefix ==
  ASSUME NEW V, NEW o \in Seq(V), NEW s \in Seq(V), Begins(o, s)
  PROVE  IsPrefix(o, s)
<1>1. PICK l \in Nat : l = Len(o) /\ l <= Len(s) /\ \A j \in 1 .. l : o[j] = s[j]
  BY LenProperties DEF Begins
<1>2. PICK u, v : u = SubSeq(o, 1, l) /\ v = SubSeq(s, 1, l)
  OBVIOUS
<1>3. 1 \in Nat /\ 1 >= 1 /\ 1 <= l + 1 /\ l - 1 + 1 = l /\ \A i \in 1 .. l : 1 + i - 1 = i
  OBVIOUS
<1>4. u \in Seq(V) /\ Len(u) = l /\ \A i \in 1 .. l : u[i] = o[i]
  <2>1. /\ u \in Seq(V) /\ Len(u) = l - 1 + 1
        /\ \A i \in 1 .. l - 1 + 1 : u[i] = o[1 + i - 1]
    <3>1. l <= Len(o) /\ u = SubSeq(o, 1, l)
      BY <1>1, <1>2
    <3>. QED BY <1>3, <3>1, Piece
  <2>. QED BY <1>3, <2>1
<1>5. v \in Seq(V) /\ Len(v) = l /\ \A i \in 1 .. l : v[i] = s[i]
  <2>1. /\ v \in Seq(V) /\ Len(v) = l - 1 + 1
        /\ \A i \in 1 .. l - 1 + 1 : v[i] = s[1 + i - 1]
    <3>1. l <= Len(s) /\ v = SubSeq(s, 1, l)
      BY <1>1, <1>2
    <3>. QED BY <1>3, <3>1, Piece
  <2>. QED BY <1>3, <2>1
<1>6. u = v
  BY <1>1, <1>4, <1>5, SeqEqual
<1>. QED BY <1>1, <1>2, <1>6, Zenon DEF IsPrefix

\* What was written and what is left are the answers.
LEMMA WholeAnswers ==
  ASSUME NEW o \in Seq(OutByte), NEW r, NEW p \in Nat, Owed(o, r, p), Begins(o, Pongs(p)),
         Load(r) # Size, NEW bs, bs = Dumpable(r)
  PROVE  o \o bs = Pongs(p)
<1>1. PICK l \in Nat, a \in Nat, t \in Nat :
        l = Len(o) /\ a = Load(r) /\ t = l + a /\ a <= Size /\ RingOK(r)
  <2>1. RingOK(r)
    BY DEF Owed, RingHolds
  <2>2. Load(r) \in 0 .. Size
    BY <2>1, FullIs
  <2>3. Load(r) \in Nat /\ Load(r) <= Size /\ Len(o) \in Nat /\ Len(o) + Load(r) \in Nat
    BY <2>2, SizeIs, LenProperties
  <2>. QED BY <2>1, <2>3, Zenon
<1>2. PICK s \in Seq(OutByte) : s = Pongs(p) /\ Len(s) = 7 * p
  BY PongsLen, Zenon
<1>3. RingHolds(r, s, t) /\ t <= Len(s) /\ t = Len(s)
  <2>1. a < Size
    BY <1>1, SizeIs
  <2>. QED BY <1>1, <1>2, <2>1, Zenon DEF Owed
<1>4. bs \in Seq(OutByte) /\ Len(bs) = a /\ \A j \in 1 .. a : bs[j] = s[t - a + j]
  <2>1. /\ bs \in Seq(OutByte)
        /\ Load(r) # Size => /\ Len(bs) = Load(r)
                             /\ \A j \in 1 .. Load(r) : bs[j] = s[t - Load(r) + j]
    <3>1. DumpOf(OutByte, s, r, t, bs)
      BY <1>3, DumpHolds, Zenon
    <3>. QED BY <3>1, Zenon DEF DumpOf
  <2>. QED BY <1>1, <2>1
<1>5. PICK w : w = o \o bs
  OBVIOUS
<1>6. w \in Seq(OutByte) /\ Behind(o, bs, w)
  BY <1>4, <1>5, BehindIs, Zenon
<1>7. Len(w) = t
  BY <1>1, <1>4, <1>6 DEF Behind
<1>8. ASSUME NEW j \in 1 .. t PROVE w[j] = s[j]
  <2>0. t = l + a
    BY <1>1
  <2>1. CASE j <= l
    <3>1. j \in 1 .. l
      BY <2>1
    <3>2. w[j] = o[j]
      BY <1>1, <1>6, <3>1 DEF Behind
    <3>3. o[j] = s[j]
      BY <1>1, <1>2, <3>1 DEF Begins
    <3>. QED BY <3>2, <3>3
  <2>2. CASE ~(j <= l)
    <3>1. PICK i \in 1 .. a : j = l + i /\ t - a + i = j
      <4>1. j - l \in 1 .. a /\ j = l + (j - l) /\ t - a + (j - l) = j
        BY <2>0, <2>2
      <4>. QED BY <4>1
    <3>2. w[l + i] = bs[i]
      BY <1>1, <1>4, <1>6 DEF Behind
    <3>3. bs[i] = s[t - a + i]
      BY <1>4
    <3>. QED BY <3>1, <3>2, <3>3, Zenon
  <2>. QED BY <2>1, <2>2
<1>9. w = s
  <2>1. Len(w) = Len(s) /\ \A j \in 1 .. Len(w) : w[j] = s[j]
    BY <1>3, <1>7, <1>8
  <2>. QED BY <1>6, <2>1, SeqEqual, Zenon
<1>. QED BY <1>2, <1>5, <1>9, Zenon

\* A ring that is not full gives out the bytes it holds.
LEMMA DumpPiece ==
  ASSUME NEW V, NEW s \in Seq(V), NEW r, NEW t, RingHolds(r, s, t), t <= Len(s),
         Load(r) # Size
  PROVE  Dumpable(r) = SubSeq(s, t - Load(r) + 1, t)
<1>1. PICK bs : bs = Dumpable(r)
  OBVIOUS
<1>2. /\ bs \in Seq(V)
      /\ Load(r) = Size => Len(bs) = 0 /\ bs = <<>>
      /\ Load(r) # Size => /\ Len(bs) = Load(r)
                           /\ \A j \in 1 .. Load(r) : bs[j] = s[t - Load(r) + j]
                           /\ bs = SubSeq(s, t - Load(r) + 1, t)
  <2>1. DumpOf(V, s, r, t, bs)
    BY <1>1, DumpHolds, Zenon
  <2>. QED BY <2>1, Zenon DEF DumpOf
<1>. QED BY <1>1, <1>2, Zenon

\* The invariant implies RedisExact.
LEMMA RdExact == RdInv => RedisExact
<1>. SUFFICES ASSUME RdInv PROVE RedisExact
  OBVIOUS
<1>1. RdTypes /\ RdSent /\ RdPending /\ RdAnswers /\ RdOrder
  BY DEF RdInv
<1>2. RingOK(ibuffer) /\ RingOK(obuffer)
  BY <1>1 DEF RdPending, RdAnswers, RingHolds
<1>3. RedisTypeOK
  <2>1. pings \in 0 .. Len(cmds)
    BY RdNumbers
  <2>2. \A r \in {ibuffer, obuffer} : RingOK(r)
    BY <1>2
  <2>3. \A r \in {ibuffer, obuffer} : r.head \in 0 .. 2 * Size - 1 /\ r.tail \in 0 .. 2 * Size - 1
    BY <2>2, Zenon DEF RingOK
  <2>. QED BY <1>1, <2>1, <2>3, Zenon DEF RedisTypeOK, RdTypes
<1>4. PongsWhole
  <2>1. /\ pings \in Nat /\ out \in Seq(OutByte) /\ Begins(out, Pongs(pings))
        /\ conn = "open" => Owed(out, obuffer, pings)
    BY <1>1 DEF RdTypes, RdAnswers
  <2>2. Pongs(pings) \in Seq(OutByte)
    BY <2>1, PongsLen
  <2>3. IsPrefix(out, Pongs(pings))
    BY <2>1, <2>2, BeginsPrefix, Zenon
  <2>4. ASSUME conn = "open", ~Full(obuffer)
        PROVE  out \o Dumpable(obuffer) = Pongs(pings)
    <3>1. Load(obuffer) # Size
      BY <1>2, <2>4, FullIs
    <3>. QED BY <2>1, <2>4, <3>1, WholeAnswers, Zenon
  <2>. QED BY <2>3, <2>4, Zenon DEF PongsWhole, Pongs
<1>5. BulksWhole
  <2>1. ASSUME plain, conn = "open", ~Full(ibuffer)
        PROVE  \E i \in {Ends(cmds, pings), Ends(cmds, pings) + 1} \ {0} :
                 Dumpable(ibuffer) = SubSeq(stream, i, taken)
    <3>1. PICK a \in Nat, t \in Nat, e \in Nat :
            /\ a = Load(ibuffer) /\ t = taken /\ e = Eaten /\ e = t - a
            /\ a <= t /\ a <= Size /\ t <= Len(stream)
      BY RdNumbers DEF Eaten
    <3>2. a # Size
      BY <1>2, <2>1, <3>1, FullIs
    <3>3. AtEnd(cmds, pings, e)
      <4>1. a < Size
        BY <3>1, <3>2, SizeIs
      <4>. QED BY <1>1, <2>1, <3>1, <4>1, Zenon DEF RdOrder
    <3>4. PICK f \in Nat : f = Ends(cmds, pings)
      <4>1. cmds \in Seq(Sendable) /\ pings \in 0 .. Len(cmds)
        BY <1>1, RdNumbers DEF RdSent, LaidOut
      <4>. QED BY <4>1, EndsAre
    <3>5. e + 1 \in {f, f + 1} \ {0}
      BY <3>3, <3>4 DEF AtEnd
    <3>6. Dumpable(ibuffer) = SubSeq(stream, t - a + 1, t)
      <4>1. stream \in Seq(Byte) /\ RingHolds(ibuffer, stream, t) /\ t <= Len(stream)
        BY <1>1, <3>1 DEF RdSent, LaidOut, RdPending
      <4>2. Dumpable(ibuffer) = SubSeq(stream, t - Load(ibuffer) + 1, t)
        BY <3>1, <3>2, <4>1, DumpPiece, Zenon
      <4>. QED BY <3>1, <4>2, Zenon
    <3>. QED BY <3>1, <3>4, <3>5, <3>6, Zenon
  <2>2. ASSUME plain, conn = "closed" PROVE Full(obuffer)
    <3>1. Load(obuffer) = Size
      BY <1>1, <2>2 DEF RdOrder
    <3>. QED BY <1>2, <3>1, FullIs
  <2>. QED BY <2>1, <2>2, Zenon DEF BulksWhole, Ends, Texts
<1>. QED BY <1>3, <1>4, <1>5 DEF RedisExact

\* A redis client reads whole answers in a row, one for each ping carried
\* out, and bulks whose bytes come in pieces of whole words are carried out in
\* order and once, for every size of the rings and any number of commands
\* (__client_read, __client_write, __redis_process_multibulk).
THEOREM RedisStaysExact == RedisSpec => []RedisExact
<1>1. RedisInit => RdInv
  BY RdStart
<1>2. RdInv /\ [RedisNext]_rdvars => RdInv'
  <2>. SUFFICES ASSUME RdInv, [RedisNext]_rdvars PROVE RdInv'
    OBVIOUS
  <2>1. ASSUME NEW cmd \in Sendable, Send(cmd) PROVE RdInv'
    BY <2>1, SendStep
  <2>2. ASSUME NEW n \in 1 .. Size, Read(n) PROVE RdInv'
    BY <2>2, ReadStep
  <2>3. ASSUME NEW n \in 0 .. Size, Write(n) PROVE RdInv'
    BY <2>3, WriteStep
  <2>4. CASE RedisHangUp
    BY <2>4, HangUpStep
  <2>5. CASE UNCHANGED rdvars
    <3>1. /\ conn' = conn /\ ibuffer' = ibuffer /\ obuffer' = obuffer /\ cmds' = cmds
          /\ stream' = stream /\ taken' = taken /\ pings' = pings /\ out' = out
          /\ wants' = wants /\ plain' = plain
      BY <2>5 DEF rdvars
    <3>. QED BY <3>1, Zenon DEF RdInv, RdTypes, RdSent, RdPending, RdAnswers, RdOrder, Eaten
  <2>. QED BY <2>1, <2>2, <2>3, <2>4, <2>5, Zenon DEF RedisNext
<1>3. RdInv => RedisExact
  BY RdExact
<1>. QED BY <1>1, <1>2, <1>3, PTL DEF RedisSpec
=============================================================================
