------------------------------- MODULE Bucket -------------------------------
(***************************************************************************)
(* The blocks of a sorted set: buckets of entries in key order, each key   *)
(* without the prefix it shares with the one before                        *)
(* (zcl/tools/bucket/bucket-vprefix.c, bucket.c, sset.c), and the merger   *)
(* of several iterators (zcl/tools/map/map-merger.c).  A key is a sequence *)
(* of bytes.                                                               *)
(***************************************************************************)
EXTENDS Integers, SequencesExt

CONSTANT Room   \* the bytes of a bucket

BucketEmpty == [entries |-> <<>>, room |-> Room, last |-> <<>>]

\* z_memshared
Shared(a, b) == Max({n \in 0 .. Len(a) : n <= Len(b) /\ SubSeq(a, 1, n) = SubSeq(b, 1, n)})

Tail0(s, n) == SubSeq(s, n + 1, Len(s))

\* The order of keys: z_byte_slice_compare.
KeyBefore(a, b) ==
  LET n == Shared(a, b)
  IN  IF n = Len(a) THEN Len(a) < Len(b) ELSE n < Len(b) /\ a[n + 1] < b[n + 1]

\* __kprefix_shared: prefix is the length of what is left out of the key.
Entry(prev, key, val) ==
  [prefix |-> Shared(prev, key), rest |-> Tail0(key, Shared(prev, key)),
   val |-> val, deleted |-> FALSE]

\* __node_calc_khead: a byte, the sizes, the key; and a value of one byte.
Cost(e) == (IF e.prefix > 0 THEN 4 ELSE 3) + Len(e.rest) + 1

Fits(b, key) == Cost(Entry(b.last, key, 0)) <= b.room

\* __node_append: one that does not fit is refused.
BucketAppend(b, key, val) ==
  LET e == Entry(b.last, key, val)
  IN  IF ~Fits(b, key) THEN b
      ELSE [entries |-> Append(b.entries, e), room |-> b.room - Cost(e), last |-> key]

\* __node_remove
BucketRemove(b, i) == [b EXCEPT !.entries[i].deleted = TRUE]

-----------------------------------------------------------------------------
(* __bucket_search.  koffset bytes of the key are known to be those of the *)
(* entry before; the search goes on with the rest of the key.  Where one   *)
(* of the two ends inside the other the code compares with a byte behind   *)
(* the end, which may be any: the answers are a set.                       *)

\* Fault: an entry with a longer prefix is compared like any other.
SkipsNever(e, koffset) == FALSE

Skips(e, koffset) == e.prefix > koffset

RECURSIVE SearchFrom(_, _, _, _)
SearchFrom(entries, encoded, key, koffset) ==
  LET e == Head(entries)
      n == Shared(e.rest, key)
      beyond == n = Len(e.rest) \/ n = Len(key)
      taken == IF encoded THEN n ELSE 0
      onward == SearchFrom(Tail(entries), encoded, Tail0(key, taken), koffset + taken)
  IN  CASE entries = <<>> -> {"missing"}
        [] entries # <<>> /\ Skips(e, koffset) ->
             SearchFrom(Tail(entries), encoded, key, koffset)
        [] entries # <<>> /\ ~Skips(e, koffset) /\ koffset > e.prefix -> {"missing"}
        [] OTHER ->
             IF e.rest = key THEN {IF e.deleted THEN "missing" ELSE "found"}
             ELSE IF beyond THEN {"missing"} \cup onward
             ELSE IF e.rest[n + 1] > key[n + 1] THEN {"missing"} ELSE onward

\* __node_is_prefix_encoded
Encoded(b) == \E i \in DOMAIN b.entries : b.entries[i].prefix > 0

BucketSearch(b, key) == SearchFrom(b.entries, Encoded(b), key, 0)

-----------------------------------------------------------------------------
(* The iterator puts a key together in kbuffer, from the part the entry    *)
(* before has written there.                                               *)

\* z_memcpy of the first n bytes of s; a byte behind the end of s is 0.
Copy(buffer, at, s, n) ==
  [i \in DOMAIN buffer |->
     IF i \in at + 1 .. at + n THEN (IF i - at <= Len(s) THEN s[i - at] ELSE 0) ELSE buffer[i]]

\* Fault: the part of the entry before is copied to the start.
FilledLow(buffer, prev, e) ==
  Copy(Copy(buffer, 0, prev.rest, e.prefix), e.prefix, e.rest, Len(e.rest))

Filled(buffer, prev, e) ==
  Copy(Copy(buffer, prev.prefix, prev.rest, e.prefix), e.prefix, e.rest, Len(e.rest))

KBuffer == [i \in 1 .. 2 * Room |-> 0]

RECURSIVE IterFrom(_, _, _)
IterFrom(buffer, prev, entries) ==
  LET e == Head(entries)
      new == IF e.prefix > 0 THEN Filled(buffer, prev, e) ELSE buffer
      key == IF e.prefix > 0 THEN SubSeq(new, 1, e.prefix + Len(e.rest)) ELSE e.rest
  IN  IF entries = <<>> THEN <<>>
      ELSE (IF e.deleted THEN <<>> ELSE << <<key, e.val>> >>) \o IterFrom(new, e, Tail(entries))

\* __bucket_iter_begin and _next: the entries that are not deleted.
BucketIter(b) ==
  IterFrom(KBuffer, [prefix |-> 0, rest |-> <<>>], b.entries)

-----------------------------------------------------------------------------
(* __bucket_iter_seek: the entries from the first one not before the key.   *)

BucketSeek(b, key) ==
  LET all == BucketIter(b)
      at == {i \in DOMAIN all : ~KeyBefore(all[i][1], key)}
  IN  IF at = {} THEN <<>> ELSE SubSeq(all, Min(at), Len(all))

-----------------------------------------------------------------------------
(* z_map_merger_next.  Each iterator is the sequence of its <<key, val>>   *)
(* from the current one on.                                                *)

\* Fault: of two equal keys the later iterator wins.
SmallerOrLater(k, j) == k <= j

Smaller(k, j) == k < j

\* One look at every iterator: the one with the smallest key, the first of
\* equals; with skip_equals an equal entry seen after it is passed over.
Scan(iters, skip) ==
  LET Look(acc, i) ==
        LET it == acc.iters[i]
            key == it[1][1]
            min == acc.iters[acc.small][1][1]
        IN  CASE it = <<>> -> acc
              [] it # <<>> /\ acc.small = 0 -> [acc EXCEPT !.small = i]
              [] it # <<>> /\ acc.small # 0 /\ Smaller(key, min) -> [acc EXCEPT !.small = i]
              [] it # <<>> /\ acc.small # 0 /\ ~Smaller(key, min) ->
                   IF key = min /\ skip THEN [acc EXCEPT !.iters[i] = Tail(@)] ELSE acc
  IN  FoldLeft(Look, [small |-> 0, iters |-> iters], [i \in DOMAIN iters |-> i])

MergeSmall(iters, skip) == Scan(iters, skip).small

\* The iterators after the call: the one chosen moves on at the next call.
MergeNext(iters, skip) ==
  LET s == Scan(iters, skip) IN [s.iters EXCEPT ![s.small] = Tail(@)]
=============================================================================
