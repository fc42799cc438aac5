------------------------------- MODULE RingBuf -------------------------------
(***************************************************************************)
(* The ring buffer of QUIC stream data (include/internal/ring_buf.h).      *)
(*                                                                         *)
(* A byte is known by the logical offset it was written at: the byte of    *)
(* offset o is o + 1, and 0 is a byte of memory that was never written or  *)
(* was cleansed.  Allocation failure is not modelled.                      *)
(***************************************************************************)
EXTENDS Naturals

CONSTANT MAX_OFFSET     \* The QUIC-imposed limit on offsets

ASSUME MaxOffsetAssumption == MAX_OFFSET \in Nat

Zero == 0
ByteAt(o) == o + 1

\* A buffer: size of the allocation, logical offset of the head (where bytes
\* are appended) and of the cull tail (below which they are given up), memory.
IsRingBuf(r) ==
    /\ r.alloc \in Nat
    /\ r.head_offset \in 0..MAX_OFFSET
    /\ r.ctail_offset \in 0..r.head_offset
    /\ r.start \in [0..(r.alloc - 1) -> 0..MAX_OFFSET]

MinOf(a, b) == IF a <= b THEN a ELSE b

ring_buf_used(r) == r.head_offset - r.ctail_offset
ring_buf_avail(r) == r.alloc - ring_buf_used(r)

\* Memory after the bytes from..(to - 1), given by the function byte, were
\* copied in, each to its place modulo the size.
CopyIn(r, from, to, byte) ==
    [i \in DOMAIN r.start |->
        IF \E o \in from..(to - 1) : o % r.alloc = i
        THEN byte[CHOOSE o \in from..(to - 1) : o % r.alloc = i]
        ELSE r.start[i]]

\* Memory after the bytes from..(to - 1) were cleansed.
Cleanse(r, from, to) == CopyIn(r, from, to, [o \in from..(to - 1) |-> Zero])

ring_buf_init(a) ==
    [alloc |-> a, head_offset |-> 0, ctail_offset |-> 0,
     start |-> [i \in 0..(a - 1) |-> Zero]]

\* Pushes as many of the next n bytes of the stream as there is room for.
ring_buf_push(r, n) ==
    LET to == r.head_offset + MinOf(MinOf(n, ring_buf_avail(r)),
                                    MAX_OFFSET - r.head_offset)
    IN  [r EXCEPT !.head_offset = to,
                  !.start = CopyIn(r, r.head_offset, to,
                                   [o \in r.head_offset..to |-> ByteAt(o)])]

\* Mutant: the room behind the head is compared with the length alone.
FitsByLength(r, from, to) ==
    /\ from >= r.ctail_offset
    /\ to - from <= r.alloc
    /\ r.head_offset + (to - from) <= MAX_OFFSET

\* A write of the bytes from..(to - 1) that ring_buf_write_at accepts.
WriteFits(r, from, to) ==
    /\ from >= r.ctail_offset
    /\ to <= r.head_offset + ring_buf_avail(r)
    /\ r.head_offset + (to - from) <= MAX_OFFSET

\* Writes the bytes from..(to - 1), given by the function byte, at their
\* offset; the head moves up behind them.
ring_buf_write_at(r, from, to, byte) ==
    [r EXCEPT !.start = CopyIn(r, from, to, byte),
              !.head_offset = IF @ < to THEN to ELSE @]

\* The number of contiguous bytes at an offset, from there to the head or to
\* the end of memory.
Contiguous(r, o) == MinOf(r.head_offset - o, r.alloc - (o % r.alloc))

\* An offset that ring_buf_get_buf_at serves.
Retained(r, o) == o <= r.head_offset /\ o >= r.ctail_offset

\* The bytes ring_buf_get_buf_at returns for the offsets from..(to - 1).
BytesAt(r, from, to) == [o \in from..(to - 1) |-> r.start[o % r.alloc]]

\* Culls the bytes from..to (inclusive), if they reach the cull tail.
ring_buf_cpop_range(r, from, to, cleanse) ==
    IF from > r.ctail_offset \/ to >= MAX_OFFSET
    THEN r
    ELSE [r EXCEPT
            !.start = IF cleanse /\ to > r.ctail_offset
                      THEN Cleanse(r, r.ctail_offset,
                                   MinOf(to + 1, r.head_offset))
                      ELSE @,
            !.ctail_offset = to + 1,
            !.head_offset = IF @ < to + 1 THEN to + 1 ELSE @]

\* Mutant: the content is copied as it lies in memory.
ResizeCopiesMemory(r, n) ==
    IF n = r.alloc \/ n < ring_buf_used(r) \/ n = 0
    THEN r
    ELSE [r EXCEPT !.alloc = n,
                   !.start = [i \in 0..(n - 1) |-> IF i < r.alloc THEN r.start[i]
                                                   ELSE Zero]]

\* Moves the content to an allocation of n bytes; fails, leaving the buffer
\* alone, if it does not fit.
ring_buf_resize(r, n) ==
    IF n = r.alloc \/ n < ring_buf_used(r) \/ n = 0
    THEN r
    ELSE [r EXCEPT !.alloc = n,
                   !.start = CopyIn(ring_buf_init(n), r.ctail_offset,
                                    r.head_offset,
                                    BytesAt(r, r.ctail_offset, r.head_offset))]
==============================================================================
