---------------------------- MODULE ByteBuffers ----------------------------
(***************************************************************************)
(* The growing buffer (zcl/buffers/buffer.c) and the slice, a list of      *)
(* pieces in nodes of NBlocks (zcl/buffers/slice.c).                       *)
(*                                                                         *)
(* A buffer is its block, a sequence as long as it was allocated, and the  *)
(* size in use.  A write behind the block sets overflow.                   *)
(***************************************************************************)
EXTENDS Integers, SequencesExt

CONSTANTS Align, Slack,   \* what a block is rounded up to, and grown by
          NBlocks         \* Z_SLICE_NBLOCKS

BufferEmpty == [block |-> <<>>, size |-> 0, overflow |-> FALSE]

\* __buffer_grow: the first block has no slack.
Grow(b, size) ==
  LET n == size + IF b.block = <<>> THEN 0 ELSE Slack
      all == Align * ((n + Align - 1) \div Align)
  IN  [b EXCEPT !.block = [i \in 1 .. all |-> IF i <= Len(b.block) THEN b.block[i] ELSE 0]]

GrowTo(b, size) == IF size > Len(b.block) THEN Grow(b, size) ELSE b

\* z_memcpy and z_memmove of a sequence to a place of the block.
Put(b, at, data) ==
  [b EXCEPT !.block = [i \in DOMAIN @ |-> IF i \in at + 1 .. at + Len(data)
                                          THEN data[i - at] ELSE @[i]],
            !.overflow = @ \/ (data # <<>> /\ at + Len(data) > Len(b.block))]

Part(b, from, to) == SubSeq(b.block, from + 1, to)
Contents(b) == Part(b, 0, b.size)

\* z_buffer_set, z_buffer_append, z_buffer_truncate
BufferSet(b, blob) == [Put(GrowTo(b, Len(blob)), 0, blob) EXCEPT !.size = Len(blob)]

BufferAppend(b, blob) ==
  LET n == b.size + Len(blob)
      room == IF n >= Len(b.block) THEN Grow(b, n) ELSE b
  IN  [Put(room, b.size, blob) EXCEPT !.size = n]

BufferTruncate(b, size) == IF size >= b.size THEN b ELSE [b EXCEPT !.size = size]

\* z_buffer_remove
BufferRemove(b, index, n) ==
  CASE index >= b.size \/ n = 0 -> b
    [] index < b.size /\ n # 0 /\ index + n >= b.size -> [b EXCEPT !.size = index]
    [] OTHER -> [Put(b, index, Part(b, index + n, b.size)) EXCEPT !.size = @ - n]

\* Fault: room is made for the new bytes only.
InsertedSizeShort(b, index, n) == b.size + n

\* The size after n bytes are put at index, behind the end too.
InsertedSize(b, index, n) == b.size + n + IF index > b.size THEN index - b.size ELSE 0

\* z_buffer_insert: a gap is filled with zeros.  z_buffer_prepend is the
\* insert at 0.
BufferInsert(b, index, blob) ==
  LET size == InsertedSize(b, index, Len(blob))
      room == GrowTo(b, size)
      moved == IF index > b.size
               THEN Put(room, b.size, [i \in 1 .. index - b.size |-> 0])
               ELSE Put(room, index + Len(blob), Part(b, index, b.size))
  IN  [Put(moved, index, blob) EXCEPT !.size = size]

\* z_buffer_replace
BufferReplace(b, index, n, blob) ==
  IF n = Len(blob) /\ index + n <= b.size THEN Put(b, index, blob)
  ELSE BufferInsert(BufferRemove(b, index, n), index, blob)

\* z_buffer_squeeze
BufferSqueeze(b) ==
  [b EXCEPT !.block = [i \in 1 .. (IF b.size > 0 THEN b.size ELSE Align) |->
                         IF i <= Len(b.block) THEN b.block[i] ELSE 0]]

-----------------------------------------------------------------------------
(* A slice is a sequence of nodes, the head first, each of NBlocks pieces. *)

NoPieces == [i \in 1 .. NBlocks |-> <<>>]
SliceEmpty == <<NoPieces>>

\* Fault: the first free place, not the one behind all pieces.
TailFreeFirst(node) ==
  LET free == {i \in 1 .. NBlocks : node[i] = <<>>} IN IF free = {} THEN 0 ELSE Min(free)

\* __slice_pick_tail_free_buffer: the place behind the last piece, 0 when
\* the node is full.
TailFree(node) ==
  LET free == {i \in 1 .. NBlocks : \A j \in i .. NBlocks : node[j] = <<>>}
  IN  IF free = {} THEN 0 ELSE Min(free)

\* z_slice_append
SliceAppend(s, data) ==
  LET i == TailFree(Last(s))
  IN  IF i = 0 THEN Append(s, [NoPieces EXCEPT ![1] = data])
      ELSE [s EXCEPT ![Len(s)][i] = data]

\* z_slice_prepend into an empty first place, or in front of a full head.
SlicePrepend(s, data) ==
  IF s[1][1] = <<>> THEN [s EXCEPT ![1][1] = data]
  ELSE <<[NoPieces EXCEPT ![1] = data]>> \o s

\* With a first piece and room in the head the new piece goes behind the
\* others, and the move before it takes a few bytes of the first piece's
\* record for a number of records.
PrependMisplaces(s) == s[1][1] # <<>> /\ \E i \in 1 .. NBlocks : s[1][i] = <<>>

\* z_slice_ltrim
SliceTrim(s, n) ==
  LET flat == FlattenSeq(s)
      before(i) == Len(FlattenSeq(SubSeq(flat, 1, i - 1)))
      cut(i) == IF n <= before(i) THEN 0 ELSE Min({n - before(i), Len(flat[i])})
  IN  [k \in DOMAIN s |->
         [i \in 1 .. NBlocks |->
            LET j == (k - 1) * NBlocks + i IN SubSeq(flat[j], cut(j) + 1, Len(flat[j]))]]

Pieces(s) == SelectSeq(FlattenSeq(s), LAMBDA p : p # <<>>)
SliceBytes(s) == FlattenSeq(Pieces(s))

\* z_slice_length: up to the first empty place.
SliceLength(s) ==
  LET flat == FlattenSeq(s)
      gaps == {i \in DOMAIN flat : flat[i] = <<>>}
  IN  Len(FlattenSeq(IF gaps = {} THEN flat ELSE SubSeq(flat, 1, Min(gaps) - 1)))

\* z_slice_equals, piece by piece
RECURSIVE EqualsFrom(_, _)
EqualsFrom(flat, data) ==
  LET p == Head(flat)
  IN  CASE flat = <<>> -> data = <<>>
        [] flat # <<>> /\ Len(data) < Len(p) -> FALSE
        [] flat # <<>> /\ Len(data) >= Len(p) /\ p = <<>> -> data = <<>>
        [] OTHER -> /\ SubSeq(data, 1, Len(p)) = p
                    /\ EqualsFrom(Tail(flat), SubSeq(data, Len(p) + 1, Len(data)))

SliceEquals(s, data) == EqualsFrom(FlattenSeq(s), data)

\* z_slice_starts_with: a piece shorter than what is asked for fails.
SliceStartsWith(s, data) ==
  data = <<>> \/ (s[1][1] # <<>> /\ IsPrefix(data, s[1][1]))

\* __slice_reader_next: the bytes a reader gives, and whether it looks for
\* the next piece behind the last place of its node.
SliceRead(s) ==
  LET gaps == {i \in 1 .. NBlocks : s[1][i] = <<>>}
  IN  [data |-> FlattenSeq(SubSeq(s[1], 1, IF gaps = {} THEN NBlocks ELSE Min(gaps) - 1)),
       outside |-> gaps = {}]
=============================================================================
