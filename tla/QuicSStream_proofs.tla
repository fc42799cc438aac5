-------------------------- MODULE QuicSStream_proofs --------------------------
(***************************************************************************)
(* Theorems about the two halves of a stream.                              *)
(*                                                                         *)
(* QuicSStream, for every size of the stream and of its buffer, every      *)
(* number and cut of packets in flight and every order in which they are   *)
(* acknowledged and lost.                                                  *)
(*                                                                         *)
(* QuicRStream, for every size of the stream and of its buffer, every way  *)
(* to cut the stream into frames, and every order in which they arrive,    *)
(* are read and are moved to the ring buffer.                              *)
(***************************************************************************)
EXTENDS QuicSStream, QuicRStream, Integers, FiniteSetTheorems,
        Recursion_proofs, TLAPS

(***************************************************************************)
(* Places of bytes in memory                                               *)
(***************************************************************************)
LEMMA ModRange ==
    ASSUME NEW a \in Nat \ {0}, NEW x \in Nat
    PROVE  x % a \in 0..(a - 1)
OBVIOUS

LEMMA Product ==
    ASSUME NEW a \in Nat \ {0}, NEW k \in Nat \ {0}
    PROVE  a * k >= a
OBVIOUS

\* Two bytes less than the size of the memory apart lie in different places.
LEMMA ModInjective ==
    ASSUME NEW a \in Nat \ {0}, NEW x \in Nat, NEW y \in Nat,
           x < y, y - x < a
    PROVE  x % a # y % a
<1> SUFFICES ASSUME x % a = y % a PROVE FALSE
  OBVIOUS
<1> DEFINE p == x \div a
           q == y \div a
           m == x % a
<1>1. p \in Int /\ q \in Int /\ m \in Int
  OBVIOUS
<1>2. x = a * p + m /\ y = a * q + m
  OBVIOUS
<1> HIDE DEF p, q, m
<1>3. CASE q > p
  <2>1. q - p \in Nat \ {0}
    BY <1>1, <1>3
  <2>2. a * (q - p) >= a
    BY <2>1, Product
  <2>3. a * (q - p) = a * q - a * p
    BY <1>1
  <2>4. a * q \in Int /\ a * p \in Int
    BY <1>1
  <2> QED
    BY <1>1, <1>2, <2>2, <2>3, <2>4
<1>4. CASE ~(q > p)
  <2>1. p - q \in Nat
    BY <1>1, <1>4
  <2>2. a * (p - q) \in Nat
    BY <2>1
  <2>3. a * (p - q) = a * p - a * q
    BY <1>1
  <2>4. a * q \in Int /\ a * p \in Int
    BY <1>1
  <2> QED
    BY <1>1, <1>2, <2>2, <2>3, <2>4
<1> QED
  BY <1>3, <1>4

\* So bytes in a window of that size that share a place are the same.
LEMMA SamePlace ==
    ASSUME NEW a \in Nat \ {0}, NEW from \in Nat, NEW x \in Nat, NEW y \in Nat,
           from <= x, from <= y, x < from + a, y < from + a, x % a = y % a
    PROVE  x = y
<1>1. ASSUME x < y PROVE FALSE
  <2>1. y - x < a
    OBVIOUS
  <2> QED
    BY <1>1, <2>1, ModInjective
<1>2. ASSUME y < x PROVE FALSE
  <2>1. x - y < a
    OBVIOUS
  <2> QED
    BY <1>2, <2>1, ModInjective
<1> QED
  BY <1>1, <1>2

(***************************************************************************)
(* The ring buffer                                                         *)
(***************************************************************************)
Memories == UNION {[0..(a - 1) -> 0..MAX_OFFSET] : a \in Nat}
Buffers == [alloc : Nat, head_offset : Nat, ctail_offset : Nat, start : Memories]

\* A buffer that holds every byte from the cull tail to the head.
Sound(r) ==
    /\ r \in Buffers
    /\ IsRingBuf(r)
    /\ r.alloc > 0
    /\ r.head_offset - r.ctail_offset <= r.alloc
    /\ \A o \in r.ctail_offset..(r.head_offset - 1) :
         r.start[o % r.alloc] = ByteAt(o)

\* Bytes from..(to - 1), no more than fit into the memory mem of size a, and
\* the memory m after they were copied in.
Copyable(a, mem, from, to, byte) ==
    /\ a \in Nat \ {0} /\ mem \in [0..(a - 1) -> 0..MAX_OFFSET]
    /\ from \in Nat /\ to \in Nat /\ to - from <= a
    /\ \A o \in from..(to - 1) : byte[o] \in 0..MAX_OFFSET

Copied(a, mem, from, to, byte, m) ==
    /\ m \in [0..(a - 1) -> 0..MAX_OFFSET]
    /\ \A o \in from..(to - 1) : m[o % a] = byte[o]
    /\ \A i \in 0..(a - 1) :
         (\A o \in from..(to - 1) : o % a # i) => m[i] = mem[i]

LEMMA CopyInAt ==
    ASSUME NEW r, NEW a, NEW mem, NEW from, NEW to, NEW byte,
           Copyable(a, mem, from, to, byte), r.alloc = a, r.start = mem,
           NEW m, m = CopyIn(r, from, to, byte)
    PROVE  Copied(a, mem, from, to, byte, m)
<1> USE DEF Copyable
<1> DEFINE At(i) == CHOOSE o \in from..(to - 1) : o % a = i
<1>1. m = [i \in 0..(a - 1) |->
             IF \E o \in from..(to - 1) : o % a = i THEN byte[At(i)] ELSE mem[i]]
  BY DEF CopyIn
<1>2. ASSUME NEW i, \E o \in from..(to - 1) : o % a = i
      PROVE  At(i) \in from..(to - 1) /\ At(i) % a = i
  BY <1>2
<1>3. ASSUME NEW o \in from..(to - 1) PROVE At(o % a) = o
  <2>1. At(o % a) \in from..(to - 1) /\ At(o % a) % a = o % a
    BY <1>2
  <2> HIDE DEF At
  <2>2. /\ o \in Nat /\ At(o % a) \in Nat
        /\ from <= o /\ o < from + a /\ from <= At(o % a) /\ At(o % a) < from + a
    BY <2>1
  <2> QED
    BY <2>1, <2>2, SamePlace
<1> HIDE DEF At
<1>4. m \in [0..(a - 1) -> 0..MAX_OFFSET]
  BY <1>1, <1>2
<1>5. ASSUME NEW o \in from..(to - 1) PROVE m[o % a] = byte[o]
  <2>1. o \in Nat
    OBVIOUS
  <2>2. o % a \in 0..(a - 1)
    BY <2>1, ModRange
  <2> QED
    BY <1>1, <1>3, <2>2
<1>6. ASSUME NEW i \in 0..(a - 1), \A o \in from..(to - 1) : o % a # i
      PROVE  m[i] = mem[i]
  BY <1>1, <1>6
<1> QED
  BY <1>4, <1>5, <1>6 DEF Copied

\* Facts about the bytes of a sound buffer that are kept when others are
\* written: what lies outside of from..(to - 1), within the size of the memory.
LEMMA Elsewhere ==
    ASSUME NEW a \in Nat \ {0}, NEW from \in Nat, NEW to \in Nat,
           NEW o \in Nat, o < from \/ o >= to,
           \A x \in from..(to - 1) : x - o < a /\ o - x < a,
           NEW x \in from..(to - 1)
    PROVE  x % a # o % a
<1>1. x \in Nat /\ x - o < a /\ o - x < a /\ x # o
  OBVIOUS
<1>2. CASE x < o
  BY <1>1, <1>2, ModInjective
<1>3. CASE o < x
  BY <1>1, <1>3, ModInjective
<1> QED
  BY <1>1, <1>2, <1>3

\* ring_buf_push
LEMMA Pushed ==
    ASSUME NEW r, Sound(r), NEW n \in Nat, NEW s, s = ring_buf_push(r, n)
    PROVE  /\ Sound(s)
           /\ s.ctail_offset = r.ctail_offset
           /\ s.head_offset >= r.head_offset
<1> USE MaxOffsetAssumption
<1> DEFINE a == r.alloc
           h == r.head_offset
           t == r.ctail_offset
           to == h + MinOf(MinOf(n, ring_buf_avail(r)), MAX_OFFSET - h)
           byte == [o \in h..to |-> ByteAt(o)]
           m == CopyIn(r, h, to, byte)
<1>1. /\ a \in Nat \ {0} /\ h \in 0..MAX_OFFSET /\ t \in 0..h /\ h - t <= a
      /\ r.start \in [0..(a - 1) -> 0..MAX_OFFSET] /\ r \in Buffers
      /\ \A o \in t..(h - 1) : r.start[o % a] = ByteAt(o)
  BY DEF Sound, IsRingBuf, Buffers
<1>2. to \in h..MAX_OFFSET /\ to - t <= a
  BY <1>1 DEF MinOf, ring_buf_avail, ring_buf_used
<1>3. s = [r EXCEPT !.head_offset = to, !.start = m]
  BY DEF ring_buf_push
<1> HIDE DEF to
<1>4. \A o \in h..(to - 1) : byte[o] = ByteAt(o) /\ byte[o] \in 0..MAX_OFFSET
  BY <1>1, <1>2 DEF ByteAt
<1>5. /\ m \in [0..(a - 1) -> 0..MAX_OFFSET]
      /\ \A o \in h..(to - 1) : m[o % a] = byte[o]
      /\ \A i \in 0..(a - 1) :
           (\A o \in h..(to - 1) : o % a # i) => m[i] = r.start[i]
  <2> DEFINE mem == r.start
  <2>1. /\ h \in Nat /\ to \in Nat /\ to - h <= a /\ a \in Nat \ {0}
        /\ mem \in [0..(a - 1) -> 0..MAX_OFFSET]
    BY <1>1, <1>2
  <2>2. m = CopyIn(r, h, to, byte) /\ r.alloc = a /\ r.start = mem
    OBVIOUS
  <2>3. \A o \in h..(to - 1) : byte[o] \in 0..MAX_OFFSET
    BY <1>4
  <2> HIDE DEF byte, h, mem, a, m
  <2>4. Copyable(a, mem, h, to, byte)
    BY <2>1, <2>3 DEF Copyable
  <2>5. Copied(a, mem, h, to, byte, m)
    BY <2>2, <2>4, CopyInAt
  <2> QED
    BY <2>5 DEF mem, Copied
<1> HIDE DEF m
<1>6. /\ s.alloc = a /\ s.head_offset = to /\ s.ctail_offset = t /\ s.start = m
      /\ s \in Buffers
  <2>1. m \in Memories
    BY <1>1, <1>5 DEF Memories
  <2>2. to \in Nat
    BY <1>1, <1>2
  <2> QED
    BY <1>1, <1>3, <2>1, <2>2 DEF Buffers
<1> HIDE DEF a, h, t, byte
<1>7. ASSUME NEW o \in t..(to - 1) PROVE m[o % a] = ByteAt(o)
  <2>1. CASE o >= h
    <3>1. o \in h..(to - 1)
      BY <1>1, <1>2, <2>1
    <3> QED
      BY <1>4, <1>5, <3>1
  <2>2. CASE o < h
    <3>1. o \in Nat /\ h \in Nat /\ to \in Nat
      BY <1>1, <1>2
    <3>2. \A x \in h..(to - 1) : x - o < a /\ o - x < a
      BY <1>1, <1>2, <2>2
    <3>3. \A x \in h..(to - 1) : x % a # o % a
      BY <1>1, <2>2, <3>1, <3>2, Elsewhere
    <3>4. o % a \in 0..(a - 1)
      BY <1>1, <3>1, ModRange
    <3>5. m[o % a] = r.start[o % a]
      BY <1>5, <3>3, <3>4
    <3> QED
      BY <1>1, <2>2, <3>5
  <2> QED
    BY <1>1, <2>1, <2>2
<1>8. Sound(s)
  BY <1>1, <1>2, <1>5, <1>6, <1>7 DEF Sound, IsRingBuf
<1> QED
  BY <1>1, <1>2, <1>6, <1>8 DEF h, t

\* ring_buf_resize
LEMMA Resized ==
    ASSUME NEW r, Sound(r), NEW n \in Nat, NEW s, s = ring_buf_resize(r, n)
    PROVE  /\ Sound(s)
           /\ s.ctail_offset = r.ctail_offset
           /\ s.head_offset = r.head_offset
<1> USE MaxOffsetAssumption
<1>0. CASE n = r.alloc \/ n < ring_buf_used(r) \/ n = 0
  BY <1>0 DEF ring_buf_resize
<1>1. CASE ~(n = r.alloc \/ n < ring_buf_used(r) \/ n = 0)
  <2> DEFINE a == r.alloc
             h == r.head_offset
             t == r.ctail_offset
             q == ring_buf_init(n)
             byte == BytesAt(r, t, h)
             m == CopyIn(q, t, h, byte)
  <2>1. /\ a \in Nat \ {0} /\ h \in 0..MAX_OFFSET /\ t \in 0..h /\ h - t <= a
        /\ r.start \in [0..(a - 1) -> 0..MAX_OFFSET] /\ r \in Buffers
        /\ \A o \in t..(h - 1) : r.start[o % a] = ByteAt(o)
    BY DEF Sound, IsRingBuf, Buffers
  <2>2. n > 0 /\ h - t <= n
    BY <1>1, <2>1 DEF ring_buf_used
  <2>3. s = [r EXCEPT !.alloc = n, !.start = m]
    BY <1>1 DEF ring_buf_resize
  <2>4. \A o \in t..(h - 1) : byte[o] = ByteAt(o) /\ byte[o] \in 0..MAX_OFFSET
    BY <2>1 DEF BytesAt, ByteAt
  <2>5. q.alloc = n /\ q.start \in [0..(n - 1) -> 0..MAX_OFFSET]
    BY DEF ring_buf_init, Zero
  <2>6. /\ m \in [0..(n - 1) -> 0..MAX_OFFSET]
        /\ \A o \in t..(h - 1) : m[o % n] = byte[o]
    <3> DEFINE mem == q.start
    <3>1. /\ t \in Nat /\ h \in Nat /\ h - t <= n /\ n \in Nat \ {0}
          /\ mem \in [0..(n - 1) -> 0..MAX_OFFSET]
      BY <2>1, <2>2, <2>5
    <3>2. m = CopyIn(q, t, h, byte) /\ q.alloc = n /\ q.start = mem
      BY <2>5
    <3>3. \A o \in t..(h - 1) : byte[o] \in 0..MAX_OFFSET
      BY <2>4
    <3> HIDE DEF byte, h, t, q, mem, m
    <3>4. Copyable(n, mem, t, h, byte)
      BY <3>1, <3>3 DEF Copyable
    <3>5. Copied(n, mem, t, h, byte, m)
      BY <3>2, <3>4, CopyInAt
    <3> QED
      BY <3>5 DEF Copied
  <2> HIDE DEF m
  <2>7. /\ s.alloc = n /\ s.head_offset = h /\ s.ctail_offset = t /\ s.start = m
        /\ s \in Buffers
    <3>1. m \in Memories
      BY <2>6 DEF Memories
    <3> QED
      BY <2>1, <2>3, <3>1 DEF Buffers
  <2> HIDE DEF a, h, t, byte
  <2>8. \A o \in t..(h - 1) : m[o % n] = ByteAt(o)
    BY <2>4, <2>6
  <2>9. Sound(s)
    BY <2>1, <2>2, <2>6, <2>7, <2>8 DEF Sound, IsRingBuf
  <2> QED
    BY <2>7, <2>9 DEF h, t
<1> QED
  BY <1>0, <1>1

\* ring_buf_cpop_range, for a range that starts at or before the cull tail and
\* ends between it and the head, or is the one of an empty stream.
LEMMA Popped ==
    ASSUME NEW r, Sound(r), NEW from \in Nat, NEW to \in Nat, NEW c \in BOOLEAN,
           to >= MAX_OFFSET \/ from > r.ctail_offset
             \/ (r.ctail_offset <= to + 1 /\ to < r.head_offset),
           NEW s, s = ring_buf_cpop_range(r, from, to, c)
    PROVE  /\ Sound(s)
           /\ s.head_offset = r.head_offset
           /\ \/ s.ctail_offset = r.ctail_offset
              \/ /\ s.ctail_offset = to + 1 /\ to < r.head_offset
                 /\ from <= r.ctail_offset
<1> USE MaxOffsetAssumption
<1>0. CASE from > r.ctail_offset \/ to >= MAX_OFFSET
  BY <1>0 DEF ring_buf_cpop_range
<1>1. CASE ~(from > r.ctail_offset \/ to >= MAX_OFFSET)
  <2> DEFINE a == r.alloc
             h == r.head_offset
             t == r.ctail_offset
             byte == [o \in t..((to + 1) - 1) |-> Zero]
             m == IF c /\ to > t THEN CopyIn(r, t, to + 1, byte) ELSE r.start
  <2>1. /\ a \in Nat \ {0} /\ h \in 0..MAX_OFFSET /\ t \in 0..h /\ h - t <= a
        /\ r.start \in [0..(a - 1) -> 0..MAX_OFFSET] /\ r \in Buffers
        /\ \A o \in t..(h - 1) : r.start[o % a] = ByteAt(o)
    BY DEF Sound, IsRingBuf, Buffers
  <2>2. t <= to + 1 /\ to < h
    BY <1>1, <2>1
  <2>3. s = [r EXCEPT !.start = m, !.ctail_offset = to + 1, !.head_offset = h]
    <3>1. MinOf(to + 1, h) = to + 1 /\ ~(h < to + 1)
      BY <2>1, <2>2 DEF MinOf
    <3> QED
      BY <1>1, <2>1, <3>1 DEF ring_buf_cpop_range, Cleanse, Buffers
  <2>4. /\ m \in [0..(a - 1) -> 0..MAX_OFFSET]
        /\ \A i \in 0..(a - 1) :
             (\A o \in t..to : o % a # i) => m[i] = r.start[i]
    <3>1. CASE c /\ to > t
      <4> DEFINE u == to + 1
      <4>1. t \in Nat /\ u \in Nat /\ u - t <= a /\ u - 1 = to
        BY <2>1, <2>2
      <4>2. \A o \in t..(u - 1) : byte[o] \in 0..MAX_OFFSET
        BY DEF Zero
      <4>3. m = CopyIn(r, t, u, byte)
        BY <3>1
      <4> DEFINE mem == r.start
      <4>5. /\ r.alloc = a /\ r.start = mem /\ a \in Nat \ {0}
            /\ mem \in [0..(a - 1) -> 0..MAX_OFFSET]
        BY <2>1
      <4> HIDE DEF byte, t, u, m, a, mem
      <4>4. Copyable(a, mem, t, u, byte)
        BY <4>1, <4>2, <4>5 DEF Copyable
      <4>6. Copied(a, mem, t, u, byte, m)
        BY <4>3, <4>4, <4>5, CopyInAt
      <4> QED
        BY <4>1, <4>5, <4>6 DEF Copied
    <3>2. CASE ~(c /\ to > t)
      BY <2>1, <3>2
    <3> QED
      BY <3>1, <3>2
  <2> HIDE DEF m
  <2>5. /\ s.alloc = a /\ s.head_offset = h /\ s.ctail_offset = to + 1
        /\ s.start = m /\ s \in Buffers
    <3>1. m \in Memories
      BY <2>1, <2>4 DEF Memories
    <3>2. to + 1 \in Nat /\ h \in Nat
      BY <2>1
    <3> QED
      BY <2>1, <2>3, <3>1, <3>2 DEF Buffers
  <2> HIDE DEF a, h, t
  <2>6. ASSUME NEW o \in (to + 1)..(h - 1) PROVE m[o % a] = ByteAt(o)
    <3> DEFINE u == to + 1
    <3>1. o \in Nat /\ t \in Nat /\ u \in Nat /\ o >= u
      BY <2>1, <2>2
    <3>2. \A x \in t..(u - 1) : x - o < a /\ o - x < a
      BY <2>1, <2>2
    <3> HIDE DEF u
    <3>3. \A x \in t..(u - 1) : x % a # o % a
      BY <2>1, <3>1, <3>2, Elsewhere
    <3>4. o % a \in 0..(a - 1)
      BY <2>1, <3>1, ModRange
    <3>5. m[o % a] = r.start[o % a]
      BY <2>4, <3>3, <3>4 DEF u
    <3>6. o \in t..(h - 1)
      BY <2>1, <2>2
    <3> QED
      BY <2>1, <3>5, <3>6
  <2>7. Sound(s)
    BY <2>1, <2>2, <2>4, <2>5, <2>6 DEF Sound, IsRingBuf
  <2>8. from <= t
    BY <1>1, <2>1 DEF t
  <2> QED
    BY <2>2, <2>5, <2>7, <2>8 DEF h, t
<1> QED
  BY <1>0, <1>1

(***************************************************************************)
(* Ranges                                                                  *)
(***************************************************************************)

\* A range ends where its set has a gap.
LEMMA RangeEnds ==
    ASSUME NEW S \in SUBSET (0..MaxUint), NEW x \in S, NEW e, e = RangeEnd(S, x)
    PROVE  e \in S /\ e >= x /\ x..e \subseteq S /\ e + 1 \notin S
<1> USE SStreamAssumption
<1> DEFINE T == {y \in Nat : y >= x /\ y \notin S}
<1>1. T \in SUBSET Nat /\ T # {}
  <2>1. MaxUint + 1 \in T
    OBVIOUS
  <2> QED
    BY <2>1
<1>2. PICK y \in T : \A z \in T : y <= z
  BY <1>1, LeastElement
<1>3. \A z \in x..(y - 1) : z \in S
  BY <1>2
<1>4. y # x
  BY <1>2
<1>5. y - 1 \in S /\ y - 1 >= x /\ x..(y - 1) \subseteq S /\ (y - 1) + 1 \notin S
  BY <1>2, <1>3, <1>4
<1> HIDE DEF T
<1>6. \E d \in S : d >= x /\ x..d \subseteq S /\ d + 1 \notin S
  BY <1>5
<1> QED
  BY <1>6 DEF RangeEnd

\* Numbers of a finite set are counted by those below them.
LEMMA Ranked ==
    ASSUME NEW S \in SUBSET Nat, IsFiniteSet(S), NEW k \in Nat, k < Cardinality(S)
    PROVE  \E x \in S : Cardinality({y \in S : y < x}) = k
<1> DEFINE Below(x) == {y \in S : y < x}
           T == {j \in Nat : j < Cardinality(S) => \E x \in S : Cardinality(Below(x)) = j}
<1>1. 0 \in T
  <2> SUFFICES ASSUME 0 < Cardinality(S)
               PROVE  \E x \in S : Cardinality(Below(x)) = 0
    OBVIOUS
  <2>1. S # {}
    BY FS_EmptySet
  <2>2. PICK x \in S : \A y \in S : x <= y
    BY <2>1, LeastElement
  <2>3. Below(x) = {}
    <3>1. \A y \in S : x \in Nat /\ y \in Nat /\ x <= y
      BY <2>2
    <3>2. \A y \in S : ~(y < x)
      BY <3>1
    <3> QED
      BY <3>2
  <2>4. Cardinality(Below(x)) = 0
    BY <2>3, FS_EmptySet
  <2> QED
    BY <2>4
<1>2. ASSUME NEW j \in Nat, j \in T PROVE j + 1 \in T
  <2> SUFFICES ASSUME j + 1 < Cardinality(S)
               PROVE  \E x \in S : Cardinality(Below(x)) = j + 1
    OBVIOUS
  <2>0. Cardinality(S) \in Nat
    BY FS_CardinalityType
  <2>1. PICK x \in S : Cardinality(Below(x)) = j
    BY <1>2, <2>0
  <2> DEFINE B == Below(x)
             C == B \cup {x}
  <2>2. B \in SUBSET S /\ x \notin B /\ C \subseteq S
    OBVIOUS
  <2>3. IsFiniteSet(B)
    BY <2>2, FS_Subset
  <2>4. Cardinality(C) = j + 1
    <3>1. Cardinality(B) = j
      BY <2>1
    <3> HIDE DEF B
    <3> QED
      BY <2>2, <2>3, <3>1, FS_AddElement
  <2>5. S \ C # {}
    <3> HIDE DEF C
    <3>1. S # C
      BY <2>4
    <3> QED
      BY <2>2, <3>1
  <2>6. PICK z \in S \ C : \A y \in S \ C : z <= y
    <3> HIDE DEF C
    <3>1. S \ C \in SUBSET Nat
      OBVIOUS
    <3> QED
      BY <2>5, <3>1, LeastElement
  <2>7. z > x
    BY <2>6
  <2>8. Below(z) = C
    <3>1. ASSUME NEW y \in S, y < z PROVE y \in C
      <4>1. ~(z <= y)
        BY <3>1
      <4> QED
        BY <2>6, <4>1
    <3>2. ASSUME NEW y \in C PROVE y \in S /\ y < z
      BY <2>7
    <3> QED
      BY <3>1, <3>2
  <2>9. Cardinality(Below(z)) = j + 1
    BY <2>4, <2>8
  <2> QED
    BY <2>6, <2>9
<1>3. Nat \subseteq T
  <2> HIDE DEF T
  <2> QED
    BY <1>1, <1>2, SetInduction
<1> QED
  BY <1>3

(***************************************************************************)
(* The inductive invariant                                                 *)
(***************************************************************************)

\* Bytes that a set or a chunk may have: bytes of the stream, or those that
\* the FIN-only frame of an empty stream is said to cover.
Span(X) == X \subseteq StreamBytes \/ (CurSize = 0 /\ X = 0..MaxUint)

\* Bytes before the cull tail were acknowledged.
GivenUp(r, acked) == \A o \in Nat : o < r.ctail_offset => o \in acked

\* As long as the stream is empty all there can be is one FIN-only packet, or
\* its acknowledgement.
EmptyStream ==
    /\ \A p \in pkts : PacketBytes(p) # {}
    /\ new_set # {} => have_final_size
    /\ ~sent_final_size => pkts = {} /\ acked_set = {}

IsPacket(p) ==
    /\ p \in Seq(ChunksOf(p))
    /\ \A c \in ChunksOf(p) : Span(Covered(c))

IInv ==
    /\ TypeOK
    /\ Sound(ring)
    /\ GivenUp(ring, acked_set)
    /\ Span(new_set) /\ Span(acked_set)
    /\ \A p \in pkts : IsPacket(p)
    /\ CurSize = 0 => EmptyStream
    /\ sent_final_size => have_final_size
    /\ Tracked
    /\ FinTracked
    /\ FramesTruthful

LEMMA SizeIs ==
    ASSUME Sound(ring)
    PROVE  CurSize \in 0..MAX_OFFSET /\ CurSize \in Nat /\ CurSize < MaxUint
BY SStreamAssumption, MaxOffsetAssumption DEF Sound, IsRingBuf, CurSize

(***************************************************************************)
(* Acknowledgements                                                        *)
(***************************************************************************)

\* qss_cull gives up acknowledged bytes only.
LEMMA CullKeeps ==
    ASSUME NEW r, Sound(r), cleanse \in BOOLEAN,
           NEW A \in SUBSET (0..MaxUint), GivenUp(r, A),
           A \subseteq 0..(r.head_offset - 1) \/ A = 0..MaxUint,
           NEW s, s = qss_cull(r, A)
    PROVE  Sound(s) /\ s.head_offset = r.head_offset /\ GivenUp(s, A)
<1> USE SStreamAssumption, MaxOffsetAssumption
<1>1. CASE A = {}
  BY <1>1 DEF qss_cull
<1>2. CASE A # {}
  <2> DEFINE h == CHOOSE x \in A : \A y \in A : x <= y
             e == RangeEnd(A, h)
  <2>1. h \in A /\ \A y \in A : h <= y
    <3>1. A \in SUBSET Nat
      OBVIOUS
    <3>2. \E x \in A : \A y \in A : x <= y
      BY <1>2, <3>1, LeastElement
    <3> QED
      BY <3>2
  <2>2. s = ring_buf_cpop_range(r, h, e, cleanse)
    BY <1>2 DEF qss_cull
  <2> HIDE DEF h
  <2>3. e = RangeEnd(A, h)
    OBVIOUS
  <2> HIDE DEF e
  <2>4. e \in A /\ e >= h /\ h..e \subseteq A /\ e + 1 \notin A
    BY <2>1, <2>3, RangeEnds
  <2>5. h \in Nat /\ e \in Nat /\ r.ctail_offset \in Nat /\ r.head_offset \in Nat
    BY <2>1, <2>4 DEF Sound, IsRingBuf
  <2>6. r.ctail_offset <= e + 1
    BY <2>4, <2>5 DEF GivenUp
  <2>7. e < r.head_offset \/ e >= MAX_OFFSET
    <3>1. CASE A \subseteq 0..(r.head_offset - 1)
      BY <2>4, <2>5, <3>1
    <3>2. CASE A = 0..MaxUint
      BY <2>4, <2>5, <3>2
    <3> QED
      BY <3>1, <3>2
  <2>8. /\ Sound(s)
        /\ s.head_offset = r.head_offset
        /\ \/ s.ctail_offset = r.ctail_offset
           \/ /\ s.ctail_offset = e + 1 /\ e < r.head_offset
              /\ h <= r.ctail_offset
    <3>1. e >= MAX_OFFSET \/ h > r.ctail_offset
            \/ (r.ctail_offset <= e + 1 /\ e < r.head_offset)
      BY <2>6, <2>7
    <3> QED
      BY <2>2, <2>5, <3>1, Popped
  <2>9. GivenUp(s, A)
    <3> SUFFICES ASSUME NEW o \in Nat, o < s.ctail_offset PROVE o \in A
      BY DEF GivenUp
    <3>1. CASE o < r.ctail_offset
      BY <3>1 DEF GivenUp
    <3>2. CASE ~(o < r.ctail_offset)
      <4>1. o \in h..e
        BY <2>5, <2>8, <3>2
      <4> QED
        BY <2>4, <4>1
    <3> QED
      BY <3>1, <3>2
  <2> QED
    BY <2>8, <2>9
<1> QED
  BY <1>1, <1>2

\* What the buffer and the acknowledged bytes may be while the chunks of a
\* packet are acknowledged.
AckStates == {b \in [ring : Buffers, acked : SUBSET (0..MaxUint)] :
                /\ Sound(b.ring)
                /\ b.ring.head_offset = CurSize
                /\ GivenUp(b.ring, b.acked)
                /\ Span(b.acked)}

LEMMA SpanUnion ==
    ASSUME NEW A, NEW B, Span(A), Span(B)
    PROVE  Span(A \cup B)
<1>1. CASE CurSize = 0
  <2>1. StreamBytes = {}
    BY <1>1 DEF StreamBytes
  <2> QED
    BY <1>1, <2>1 DEF Span
<1>2. CASE CurSize # 0
  BY <1>2 DEF Span
<1> QED
  BY <1>1, <1>2

LEMMA SpanType ==
    ASSUME NEW A, Span(A), Sound(ring)
    PROVE  A \in SUBSET (0..MaxUint)
<1>1. StreamBytes \subseteq 0..MaxUint
  BY SizeIs, SStreamAssumption DEF StreamBytes
<1> QED
  BY <1>1 DEF Span

\* One chunk.
LEMMA ChunkAcked ==
    ASSUME Sound(ring), cleanse \in BOOLEAN, NEW b \in AckStates,
           NEW c, c.start \in Nat, c.end \in Nat, Span(Covered(c)),
           NEW d, d = ossl_quic_sstream_mark_acked(b, c)
    PROVE  d \in AckStates /\ d.acked = b.acked \cup Covered(c)
<1>1. CASE c.end < c.start
  <2>1. Covered(c) = {}
    BY <1>1 DEF Covered
  <2>2. d = b
    BY <1>1 DEF ossl_quic_sstream_mark_acked
  <2> QED
    BY <2>1, <2>2
<1>2. CASE ~(c.end < c.start)
  <2> DEFINE A == b.acked \cup Covered(c)
             r == b.ring
             s == qss_cull(r, A)
  <2>1. d = [ring |-> s, acked |-> A]
    BY <1>2 DEF ossl_quic_sstream_mark_acked
  <2>2. /\ Sound(r) /\ r.head_offset = CurSize /\ GivenUp(r, b.acked)
        /\ Span(b.acked)
    BY DEF AckStates
  <2>3. Span(A)
    BY <2>2, SpanUnion
  <2>4. A \in SUBSET (0..MaxUint)
    BY <2>3, SpanType
  <2>5. GivenUp(r, A)
    BY <2>2 DEF GivenUp
  <2>6. A \subseteq 0..(r.head_offset - 1) \/ A = 0..MaxUint
    BY <2>2, <2>3 DEF Span, StreamBytes
  <2> HIDE DEF A
  <2>7. Sound(s) /\ s.head_offset = r.head_offset /\ GivenUp(s, A)
    <3>1. s = qss_cull(r, A)
      OBVIOUS
    <3> HIDE DEF s, r
    <3> QED
      BY <2>2, <2>4, <2>5, <2>6, <3>1, CullKeeps
  <2> HIDE DEF s
  <2>8. s \in Buffers
    BY <2>7 DEF Sound
  <2>9. d \in AckStates
    BY <2>1, <2>2, <2>3, <2>4, <2>7, <2>8 DEF AckStates
  <2> QED
    BY <2>1, <2>9 DEF A
<1> QED
  BY <1>1, <1>2

\* All chunks of a packet.
LEMMA PacketAcked ==
    ASSUME Sound(ring), GivenUp(ring, acked_set), Span(acked_set),
           cleanse \in BOOLEAN, NEW p, IsPacket(p),
           \A c \in ChunksOf(p) : IsChunk(c), NEW d, d = Acked(p)
    PROVE  d \in AckStates /\ d.acked = acked_set \cup PacketBytes(p)
<1> DEFINE n == Len(p)
           first == [ring |-> ring, acked |-> acked_set]
           Upto(i) == acked_set \cup UNION {Covered(p[j]) : j \in 1..i}
           T == [i \in 0..n |-> {b \in AckStates : b.acked = Upto(i)}]
           Computes(f) == f = [i \in 0..n |-> IF i = 0 THEN first
                               ELSE ossl_quic_sstream_mark_acked(f[i - 1], p[i])]
           after == CHOOSE f : Computes(f)
<1>1. n \in Nat /\ DOMAIN p = 1..n /\ \A i \in 1..n : p[i] \in ChunksOf(p)
  BY DEF IsPacket, ChunksOf
<1>2. first \in AckStates
  <2>1. acked_set \in SUBSET (0..MaxUint)
    BY SpanType
  <2>2. ring \in Buffers
    BY DEF Sound
  <2> QED
    BY <2>1, <2>2 DEF AckStates, CurSize
<1>3. ASSUME NEW b \in AckStates, NEW i \in 1..n
      PROVE  /\ ossl_quic_sstream_mark_acked(b, p[i]) \in AckStates
             /\ ossl_quic_sstream_mark_acked(b, p[i]).acked
                  = b.acked \cup Covered(p[i])
  <2> DEFINE c == p[i]
             e == ossl_quic_sstream_mark_acked(b, c)
  <2>1. c \in ChunksOf(p)
    BY <1>1
  <2>2. c.start \in Nat /\ c.end \in Nat /\ Span(Covered(c))
    BY <2>1, MaxOffsetAssumption, SStreamAssumption DEF IsChunk, IsPacket
  <2>3. e = ossl_quic_sstream_mark_acked(b, c)
    OBVIOUS
  <2> HIDE DEF c, e
  <2>4. e \in AckStates /\ e.acked = b.acked \cup Covered(c)
    BY <1>3, <2>2, <2>3, ChunkAcked
  <2> QED
    BY <2>4 DEF c, e
<1> HIDE DEF first, n
<1>4. \E f : Computes(f)
  <2> DEFINE G == [i \in 1..n |-> [b \in AckStates |->
                                     ossl_quic_sstream_mark_acked(b, p[i])]]
  <2>1. G \in [1..n -> [AckStates -> AckStates]]
    BY <1>3
  <2>2. PICK f : IsLoop(f, n, AckStates, first, G)
    <3> HIDE DEF G
    <3> QED
      BY <1>1, <1>2, <2>1, LoopExists
  <2>3. ASSUME NEW i \in 1..n
        PROVE  f[i] = ossl_quic_sstream_mark_acked(f[i - 1], p[i])
    <3>1. i - 1 \in 0..n
      BY <1>1
    <3>2. f[i - 1] \in AckStates
      BY <2>2, <3>1 DEF IsLoop
    <3>3. G[i][f[i - 1]] = ossl_quic_sstream_mark_acked(f[i - 1], p[i])
      BY <3>2
    <3> QED
      BY <2>2, <3>3 DEF IsLoop
  <2> QED
    BY <1>1, <2>2, <2>3 DEF IsLoop
<1>5. Computes(after)
  BY <1>4
<1>6. d = after[n]
  BY DEF Acked, n, first
<1> HIDE DEF after
<1>7. \A i \in 0..n : after[i] \in T[i]
  <2>1. after[0] \in T[0]
    <3>1. after[0] = first
      BY <1>1, <1>5
    <3>2. Upto(0) = acked_set
      OBVIOUS
    <3>3. first.acked = acked_set
      BY DEF first
    <3> HIDE DEF Upto
    <3> QED
      BY <1>1, <1>2, <3>1, <3>2, <3>3
  <2>2. ASSUME NEW i \in 1..n, after[i - 1] \in T[i - 1] PROVE after[i] \in T[i]
    <3>1. after[i] = ossl_quic_sstream_mark_acked(after[i - 1], p[i])
      BY <1>1, <1>5
    <3>2. after[i - 1] \in AckStates /\ after[i - 1].acked = Upto(i - 1)
      BY <1>1, <2>2
    <3>3. Upto(i) = Upto(i - 1) \cup Covered(p[i])
      <4>1. 1..i = (1..(i - 1)) \cup {i}
        BY <1>1
      <4> QED
        BY <4>1
    <3> HIDE DEF Upto
    <3>4. after[i] \in AckStates /\ after[i].acked = Upto(i)
      BY <1>3, <3>1, <3>2, <3>3
    <3> QED
      BY <1>1, <3>4
  <2> HIDE DEF T
  <2> QED
    BY <1>1, <2>1, <2>2, LoopProgress
<1>8. d \in AckStates /\ d.acked = Upto(n)
  <2>1. n \in 0..n
    BY <1>1
  <2> QED
    BY <1>6, <1>7, <2>1
<1>9. Upto(n) = acked_set \cup PacketBytes(p)
  BY <1>1 DEF PacketBytes, ChunksOf
<1> QED
  BY <1>8, <1>9

(***************************************************************************)
(* Frames                                                                  *)
(***************************************************************************)

\* Unsigned arithmetic.
LEMMA ModSmall ==
    ASSUME NEW m \in Nat \ {0}, NEW v \in 0..(m - 1)
    PROVE  v % m = v /\ (v + m) % m = v
OBVIOUS

LEMMA UintModIs ==
    ASSUME NEW v \in 0..MaxUint
    PROVE  UintMod(v) = v
<1>1. MaxUint + 1 \in Nat \ {0} /\ v \in 0..((MaxUint + 1) - 1)
  BY SStreamAssumption
<1> QED
  BY <1>1, ModSmall DEF UintMod

LEMMA UintModWraps == UintMod(MaxUint + 1) = 0
<1>1. MaxUint + 1 \in Nat \ {0} /\ 0 \in 0..((MaxUint + 1) - 1)
      /\ 0 + (MaxUint + 1) = MaxUint + 1
  BY SStreamAssumption
<1> QED
  BY <1>1, ModSmall DEF UintMod

LEMMA DecIs ==
    ASSUME NEW v \in 0..MaxUint
    PROVE  Dec(v) = IF v = 0 THEN MaxUint ELSE v - 1
<1>0. MaxUint \in Nat
  BY SStreamAssumption
<1>1. CASE v = 0
  <2>1. MaxUint \in 0..MaxUint /\ v + MaxUint = MaxUint
    BY <1>0, <1>1
  <2> QED
    BY <1>1, <2>1, UintModIs DEF Dec
<1>2. CASE v # 0
  <2> DEFINE m == MaxUint + 1
             w == v - 1
  <2>1. m \in Nat \ {0} /\ w \in 0..(m - 1) /\ w + m = v + MaxUint
    BY <1>0, <1>2
  <2>2. Dec(v) = (w + m) % m
    BY <2>1 DEF Dec, UintMod
  <2> HIDE DEF m, w
  <2>3. (w + m) % m = w
    BY <2>1, ModSmall
  <2> QED
    BY <1>2, <2>2, <2>3 DEF w
<1> QED
  BY <1>1, <1>2

\* There are finitely many ranges, and they are offered one by one.
LEMMA StartsFinite ==
    ASSUME new_set \in SUBSET (0..MaxUint)
    PROVE  Starts(new_set) \in SUBSET Nat /\ IsFiniteSet(Starts(new_set))
<1> DEFINE starts == Starts(new_set)
<1>1. starts \in SUBSET (0..MaxUint)
  BY DEF Starts
<1>2. IsFiniteSet(0..MaxUint)
  <2>1. 0 \in Int /\ MaxUint \in Int
    BY SStreamAssumption
  <2> QED
    BY <2>1, FS_Interval
<1>3. starts \in SUBSET Nat
  BY <1>1
<1> HIDE DEF starts
<1>4. IsFiniteSet(starts)
  BY <1>1, <1>2, FS_Subset
<1> QED
  BY <1>3, <1>4 DEF starts

LEMMA NthFrame ==
    ASSUME NEW starts, starts = Starts(new_set), starts \in SUBSET Nat,
           IsFiniteSet(starts), NEW skip \in Nat, skip < Cardinality(starts)
    PROVE  \E x \in starts : ossl_quic_sstream_get_stream_frame(skip) = RangeFrame(x)
<1> DEFINE Nth(x) == Cardinality({y \in starts : y < x}) = skip
           x0 == CHOOSE x \in starts : Nth(x)
<1>1. x0 \in starts
  <2>1. \E x \in starts : Nth(x)
    BY Ranked
  <2> HIDE DEF Nth
  <2> QED
    BY <2>1
<1>2. ossl_quic_sstream_get_stream_frame(skip) = RangeFrame(x0)
  BY DEF ossl_quic_sstream_get_stream_frame
<1> HIDE DEF x0
<1> QED
  BY <1>1, <1>2

\* A frame that is offered is one for a range of new_set, or the FIN alone.
LEMMA FrameCases ==
    ASSUME new_set \in SUBSET (0..MaxUint), NEW skip \in Nat,
           NEW f, f = ossl_quic_sstream_get_stream_frame(skip), f.ok
    PROVE  \/ \E x \in Starts(new_set) : f = RangeFrame(x)
           \/ f = FinFrame /\ have_final_size /\ ~sent_final_size
<1> DEFINE starts == Starts(new_set)
<1>1. starts \in SUBSET Nat /\ IsFiniteSet(starts) /\ starts = Starts(new_set)
  BY StartsFinite
<1>2. CASE skip < Cardinality(starts)
  <2> HIDE DEF starts
  <2> QED
    BY <1>1, <1>2, NthFrame
<1>3. CASE ~(skip < Cardinality(starts))
  BY <1>3 DEF ossl_quic_sstream_get_stream_frame, NoFrame
<1> QED
  BY <1>2, <1>3

\* What frames are cut from: new_set and the buffer.
Servable ==
    /\ Sound(ring) /\ GivenUp(ring, acked_set) /\ Span(new_set)
    /\ new_set \cap acked_set = {}
    /\ CurSize = 0 => EmptyStream

\* The frame for a range: all of it, with data unless the stream is empty.
OffersRange(f, x) ==
    /\ f.ok /\ f.offset = x /\ f.len \in Nat
    /\ f.is_fin <=> (have_final_size /\ x + f.len = CurSize)
    /\ x + f.len <= CurSize
    /\ CurSize > 0 => /\ f.len > 0 /\ x..(x + f.len - 1) \subseteq new_set
                      /\ x >= ring.ctail_offset
    /\ CurSize = 0 => /\ x = 0 /\ f.len = 0 /\ new_set = 0..MaxUint
                      /\ have_final_size

LEMMA RangeFrameIs ==
    ASSUME Servable, NEW x \in Starts(new_set), NEW f, f = RangeFrame(x)
    PROVE  OffersRange(f, x)
<1> USE SStreamAssumption DEF Servable
<1> DEFINE e == RangeEnd(new_set, x)
           max_len == UintMod(e - x + 1)
<1>1. new_set \in SUBSET (0..MaxUint) /\ x \in new_set /\ x \in Nat
  BY SpanType DEF Starts
<1>2. e \in new_set /\ e >= x /\ x..e \subseteq new_set /\ e + 1 \notin new_set
  <2>1. e = RangeEnd(new_set, x)
    OBVIOUS
  <2> HIDE DEF e
  <2> QED
    BY <1>1, <2>1, RangeEnds
<1>3. f = LET len == MinOf(max_len, CurSize - x)
          IN  IF max_len > 0 /\ ~Retained(ring, x)
              THEN NoFrame
              ELSE [ok |-> TRUE, offset |-> x, len |-> len,
                    is_fin |-> have_final_size /\ x + len = CurSize,
                    num_iov |-> IF len = 0 THEN 0
                                ELSE IF len <= Contiguous(ring, x) THEN 1 ELSE 2]
  BY DEF RangeFrame
<1> HIDE DEF e
<1>4. CurSize \in Nat /\ CurSize < MaxUint
  BY SizeIs
<1>5. CASE CurSize > 0
  <2>1. new_set \subseteq 0..(CurSize - 1)
    BY <1>5 DEF Span, StreamBytes
  <2>2. e \in Nat /\ e < CurSize /\ e - x + 1 \in 0..MaxUint
    BY <1>1, <1>2, <1>4, <2>1
  <2>3. max_len = e - x + 1
    <3> DEFINE v == e - x + 1
    <3>1. v \in 0..MaxUint
      BY <2>2
    <3> HIDE DEF v
    <3>2. UintMod(v) = v
      BY <3>1, UintModIs
    <3> QED
      BY <3>2 DEF v
  <2> HIDE DEF max_len
  <2>4. MinOf(max_len, CurSize - x) = e - x + 1
    BY <1>1, <1>4, <2>2, <2>3 DEF MinOf
  <2>5. x >= ring.ctail_offset
    <3>1. ring.ctail_offset \in Nat /\ x \notin acked_set
      BY <1>1 DEF Sound, IsRingBuf
    <3> QED
      BY <1>1, <3>1 DEF GivenUp
  <2>6. Retained(ring, x)
    BY <1>1, <1>2, <1>4, <2>2, <2>5 DEF Retained, CurSize
  <2>7. /\ f.ok /\ f.offset = x /\ f.len = e - x + 1
        /\ f.is_fin = (have_final_size /\ x + f.len = CurSize)
    BY <1>3, <2>4, <2>6
  <2>8. f.len \in Nat /\ f.len > 0 /\ x + f.len <= CurSize /\ x + f.len - 1 = e
    BY <1>1, <1>2, <1>4, <2>2, <2>7
  <2>9. f.is_fin <=> (have_final_size /\ x + f.len = CurSize)
    BY <2>7
  <2> QED
    BY <1>2, <1>5, <2>9, <2>5, <2>7, <2>8 DEF OffersRange
<1>6. CASE CurSize = 0
  <2>1. new_set = 0..MaxUint
    <3>1. StreamBytes = {}
      BY <1>6 DEF StreamBytes
    <3> QED
      BY <1>1, <3>1 DEF Span
  <2>2. x = 0
    BY <1>1, <2>1 DEF Starts
  <2>3. e = MaxUint
    BY <1>2, <2>1
  <2>4. max_len = 0
    BY <2>2, <2>3, UintModWraps
  <2> HIDE DEF max_len
  <2>5. MinOf(max_len, CurSize - x) = 0
    BY <1>6, <2>2, <2>4 DEF MinOf
  <2>6. /\ f.ok /\ f.offset = x /\ f.len = 0
        /\ f.is_fin = (have_final_size /\ x + f.len = CurSize)
    BY <1>3, <2>4, <2>5
  <2>7. have_final_size
    BY <1>1, <1>6 DEF EmptyStream
  <2>8. f.is_fin <=> (have_final_size /\ x + f.len = CurSize)
    BY <2>6
  <2>9. x + f.len <= CurSize /\ f.len \in Nat
    BY <1>6, <2>2, <2>6
  <2> QED
    BY <1>6, <2>8, <2>9, <2>1, <2>2, <2>6, <2>7 DEF OffersRange
<1> QED
  BY <1>4, <1>5, <1>6

\* A chunk with the bytes of the stream from its start to before its end.
Whole(c) ==
    LET end == UintMod(c.end + 1)
    IN  /\ end \in 0..CurSize /\ c.start <= end
        /\ c.data = [o \in c.start..(end - 1) |-> ByteAt(o)]

\* What holds of every chunk that is put into a packet.
GoodChunk(c) ==
    /\ IsChunk(c) /\ Whole(c)
    /\ Span(Covered(c))
    /\ \A o \in DOMAIN c.data : c.data[o] = ByteAt(o)
    /\ c.has_fin => have_final_size /\ UintMod(c.end + 1) = CurSize
    /\ CurSize > 0 => Covered(c) \subseteq new_set
    /\ CurSize = 0 => /\ Covered(c) = 0..MaxUint /\ c.has_fin
                      /\ ~sent_final_size \/ new_set = 0..MaxUint

LEMMA SameBytes ==
    ASSUME NEW D, NEW d, d = [o \in D |-> d[o]], \A o \in D : d[o] = ByteAt(o)
    PROVE  d = [o \in D |-> ByteAt(o)]
OBVIOUS

LEMMA ChunkGood ==
    ASSUME IInv, NEW skip \in Nat, NEW f,
           f = ossl_quic_sstream_get_stream_frame(skip), f.ok,
           NEW len, len \in 1..f.len \/ (f.len = 0 /\ len = 0 /\ f.is_fin),
           NEW c, c = Chunk(f, len)
    PROVE  GoodChunk(c)
<1> USE SStreamAssumption, MaxOffsetAssumption
<1>1. Servable /\ new_set \in SUBSET (0..MaxUint) /\ have_final_size \in BOOLEAN
  BY SpanType DEF IInv, Tracked, TypeOK, Servable
<1>2. CurSize \in 0..MAX_OFFSET /\ CurSize \in Nat /\ CurSize < MaxUint
  BY <1>1, SizeIs DEF Servable
<1>3. /\ c.start = f.offset /\ c.end = Dec(f.offset + len)
      /\ c.data = BytesAt(ring, f.offset, f.offset + len)
  BY DEF Chunk
<1>6. c.has_fin \in BOOLEAN /\ (c.has_fin <=> f.is_fin /\ len = f.len)
  BY DEF Chunk
<1>4. ASSUME NEW x \in Starts(new_set), f = RangeFrame(x) PROVE GoodChunk(c)
  <2>0. OffersRange(f, x)
    BY <1>1, <1>4, RangeFrameIs
  <2>1. /\ f.len \in Nat
        /\ f.is_fin <=> (have_final_size /\ x + f.len = CurSize)
        /\ x + f.len <= CurSize
        /\ CurSize > 0 => /\ f.len > 0 /\ x..(x + f.len - 1) \subseteq new_set
                          /\ x >= ring.ctail_offset
        /\ CurSize = 0 => x = 0 /\ f.len = 0 /\ new_set = 0..MaxUint
    BY <2>0 DEF OffersRange
  <2>2. x \in Nat /\ len \in Nat
    BY <1>1, <2>1 DEF Starts
  <2>5. c.start = x /\ c.end = Dec(x + len) /\ c.data = BytesAt(ring, x, x + len)
    BY <1>3, <2>0 DEF OffersRange
  <2>3. CASE CurSize > 0
    <3>1. len \in 1..f.len
      BY <2>1, <2>3
    <3>2. x + len \in 1..CurSize
      BY <1>2, <2>1, <2>2, <3>1
    <3>3. c.end = x + len - 1
      <4> DEFINE v == x + len
      <4>1. v \in 0..MaxUint /\ v # 0
        BY <1>2, <3>2
      <4> HIDE DEF v
      <4>2. Dec(v) = v - 1
        BY <4>1, DecIs
      <4> QED
        BY <2>2, <2>5, <4>2 DEF v
    <3>4. Covered(c) \subseteq new_set
      <4>1. Covered(c) = x..(x + len - 1)
        BY <2>5, <3>3 DEF Covered
      <4>2. x..(x + len - 1) \subseteq x..(x + f.len - 1)
        BY <2>1, <2>2, <3>1
      <4> QED
        BY <2>1, <2>3, <4>1, <4>2
    <3>5. Span(Covered(c))
      <4>1. new_set \subseteq StreamBytes
        BY <1>1, <2>3 DEF Span, Servable
      <4> QED
        BY <3>4, <4>1 DEF Span
    <3>6. \A o \in DOMAIN c.data : c.data[o] = ByteAt(o)
      <4> SUFFICES ASSUME NEW o \in x..(x + len - 1)
                   PROVE  ring.start[o % ring.alloc] = ByteAt(o)
        BY <2>2, <2>5 DEF BytesAt
      <4>1. ring.ctail_offset \in Nat
        BY <1>1 DEF Sound, IsRingBuf, Servable
      <4>2. o \in ring.ctail_offset..(CurSize - 1)
        BY <1>2, <2>1, <2>2, <2>3, <3>2, <4>1
      <4> QED
        BY <1>1, <4>2 DEF Sound, CurSize, Servable
    <3>7. DOMAIN c.data \subseteq 0..MAX_OFFSET
      <4>1. DOMAIN c.data = x..(x + len - 1)
        BY <2>2, <2>5 DEF BytesAt
      <4> QED
        BY <1>2, <2>2, <3>2, <4>1
    <3>8. IsChunk(c)
      <4>1. c.start \in 0..MAX_OFFSET /\ c.end \in 0..MaxUint
        BY <1>2, <2>2, <2>5, <3>2, <3>3
      <4> QED
        BY <1>6, <3>7, <4>1 DEF IsChunk
    <3>9. c.has_fin => have_final_size /\ UintMod(c.end + 1) = CurSize
      <4> SUFFICES ASSUME c.has_fin
                   PROVE  have_final_size /\ UintMod(c.end + 1) = CurSize
        OBVIOUS
      <4>1. f.is_fin /\ len = f.len
        BY <1>6
      <4>2. have_final_size /\ x + len = CurSize
        BY <2>1, <4>1
      <4>3. c.end + 1 = CurSize
        BY <1>2, <2>2, <3>3, <4>2
      <4>4. CurSize \in 0..MaxUint
        BY <1>2
      <4> QED
        BY <4>2, <4>3, <4>4, UintModIs
    <3>10. Whole(c)
      <4>1. UintMod(c.end + 1) = x + len
        <5>1. c.end + 1 = x + len /\ x + len \in 0..MaxUint
          BY <1>2, <2>2, <3>2, <3>3
        <5> QED
          BY <5>1, UintModIs
      <4> DEFINE last == x + len
      <4>2. last \in 0..CurSize /\ x <= last /\ c.start = x
        BY <1>2, <2>2, <2>5, <3>2
      <4>6. UintMod(c.end + 1) = last /\ last \in 0..CurSize /\ c.start <= last
        BY <4>1, <4>2
      <4>3. c.data = BytesAt(ring, c.start, last)
        BY <2>5
      <4> HIDE DEF last
      <4>4. DOMAIN c.data = c.start..(last - 1)
        BY <4>3 DEF BytesAt
      <4>7. c.data = [o \in c.start..(last - 1) |-> ByteAt(o)]
        <5>1. c.data = [o \in c.start..(last - 1) |-> c.data[o]]
          BY <4>3, <4>4 DEF BytesAt
        <5>2. \A o \in c.start..(last - 1) : c.data[o] = ByteAt(o)
          BY <3>6, <4>4
        <5> QED
          BY <5>1, <5>2, SameBytes
      <4> QED
        BY <4>6, <4>7, Zenon DEF Whole
    <3> QED
      BY <2>3, <3>4, <3>5, <3>6, <3>8, <3>9, <3>10 DEF GoodChunk
  <2>4. CASE CurSize = 0
    <3>1. x = 0 /\ f.len = 0 /\ len = 0 /\ f.is_fin /\ new_set = 0..MaxUint
      BY <2>1, <2>4
    <3>2. c.start = 0 /\ c.end = MaxUint
      <4>1. 0 \in 0..MaxUint /\ 0 + 0 = 0
        OBVIOUS
      <4> QED
        BY <2>5, <3>1, <4>1, DecIs
    <3>3. Covered(c) = 0..MaxUint
      BY <3>2 DEF Covered
    <3>4. c.has_fin /\ have_final_size
      BY <1>6, <2>1, <3>1
    <3>5. DOMAIN c.data = {}
      BY <2>5, <3>1 DEF BytesAt
    <3>6. UintMod(c.end + 1) = CurSize
      BY <2>4, <3>2, UintModWraps
    <3>7. IsChunk(c)
      <4> QED
        BY <1>6, <3>2, <3>5 DEF IsChunk
    <3>8. Whole(c)
      <4>1. c.data = [o \in 0..(0 - 1) |-> ByteAt(o)]
        BY <2>5, <3>1, <3>5 DEF BytesAt
      <4> QED
        BY <2>4, <3>2, <3>6, <4>1 DEF Whole
    <3> QED
      BY <2>4, <3>1, <3>3, <3>4, <3>5, <3>6, <3>7, <3>8 DEF GoodChunk, Span
  <2> QED
    BY <1>2, <2>3, <2>4
<1>5. ASSUME f = FinFrame, have_final_size, ~sent_final_size PROVE GoodChunk(c)
  <2>1. f.offset = CurSize /\ f.len = 0 /\ f.is_fin /\ len = 0
    BY <1>5 DEF FinFrame
  <2>2. c.start = CurSize /\ c.end = Dec(CurSize) /\ c.has_fin
    <3>1. CurSize + 0 = CurSize
      BY <1>2
    <3>2. c.start = CurSize /\ c.end = Dec(CurSize + 0)
      BY <1>3, <2>1
    <3>3. c.has_fin
      BY <1>6, <2>1
    <3> QED
      BY <3>1, <3>2, <3>3
  <2>3. DOMAIN c.data = {}
    <3>1. c.data = BytesAt(ring, CurSize, CurSize)
      BY <1>2, <1>3, <2>1
    <3>2. CurSize..(CurSize - 1) = {}
      BY <1>2
    <3> QED
      BY <3>1, <3>2 DEF BytesAt
  <2>4. CurSize \in 0..MaxUint /\ MaxUint \in 0..MaxUint
    BY <1>2
  <2>5. c.end = IF CurSize = 0 THEN MaxUint ELSE CurSize - 1
    BY <2>2, <2>4, DecIs
  <2>6. UintMod(c.end + 1) = CurSize
    <3>1. CASE CurSize = 0
      BY <2>5, <3>1, UintModWraps
    <3>2. CASE CurSize # 0
      <4>1. c.end + 1 = CurSize
        BY <1>2, <2>5, <3>2
      <4> QED
        BY <2>4, <4>1, UintModIs
    <3> QED
      BY <3>1, <3>2
  <2>7. IsChunk(c)
    <3>2. c.end \in 0..MaxUint
      BY <1>2, <2>4, <2>5
    <3> QED
      BY <1>2, <1>6, <2>2, <2>3, <3>2 DEF IsChunk
  <2>10. Whole(c)
    <3>1. c.data = BytesAt(ring, CurSize, CurSize)
      BY <1>2, <1>3, <2>1
    <3>2. CurSize..(CurSize - 1) = {}
      BY <1>2
    <3>3. c.data = [o \in CurSize..(CurSize - 1) |-> ByteAt(o)]
      BY <3>1, <3>2 DEF BytesAt
    <3> QED
      BY <1>2, <2>2, <2>6, <3>3 DEF Whole
  <2>8. CASE CurSize = 0
    <3>1. Covered(c) = 0..MaxUint
      BY <2>2, <2>5, <2>8 DEF Covered
    <3> QED
      BY <1>5, <2>2, <2>3, <2>6, <2>7, <2>8, <2>10, <3>1 DEF GoodChunk, Span
  <2>9. CASE CurSize # 0
    <3>1. Covered(c) = {}
      BY <1>2, <2>2, <2>5, <2>9 DEF Covered
    <3> QED
      BY <1>5, <2>2, <2>3, <2>6, <2>7, <2>9, <2>10, <3>1 DEF GoodChunk, Span
  <2> QED
    BY <2>8, <2>9
<1> QED
  BY <1>1, <1>4, <1>5, FrameCases

\* The frames tried for a packet are frames that were offered.
LEMMA SkipIsNumber ==
    ASSUME NEW skip \in Nat
    PROVE  NextSkip(skip, ossl_quic_sstream_get_stream_frame(skip)) \in Nat
<1> DEFINE f == ossl_quic_sstream_get_stream_frame(skip)
<1>1. \A x : RangeFrame(x).num_iov \in {0, 1, 2}
  BY DEF RangeFrame, NoFrame
<1>2. f.num_iov \in {0, 1, 2}
  BY <1>1 DEF ossl_quic_sstream_get_stream_frame, NoFrame, FinFrame
<1> HIDE DEF f
<1>3. NextSkip(skip, f) \in Nat
  BY <1>2 DEF NextSkip
<1> QED
  BY <1>3 DEF f

LEMMA PlanIs ==
    ASSUME NEW n \in Nat, NEW i \in 1..n
    PROVE  \E k \in Nat : Planned(n)[i] = ossl_quic_sstream_get_stream_frame(k)
<1> DEFINE Step(k) == NextSkip(k, ossl_quic_sstream_get_stream_frame(k))
           Computes(g) == g = [j \in 0..n |-> IF j = 0 THEN 0 ELSE Step(g[j - 1])]
           skip == CHOOSE g : Computes(g)
<1>1. \A k \in Nat : Step(k) \in Nat
  BY SkipIsNumber
<1>2. Planned(n)[i] = ossl_quic_sstream_get_stream_frame(skip[i - 1])
  BY DEF Planned
<1> HIDE DEF Step
<1>3. \E g : Computes(g)
  <2> DEFINE G == [j \in 1..n |-> [k \in Nat |-> Step(k)]]
  <2>1. G \in [1..n -> [Nat -> Nat]]
    BY <1>1
  <2>2. PICK g : IsLoop(g, n, Nat, 0, G)
    <3>1. 0 \in Nat
      OBVIOUS
    <3> HIDE DEF G
    <3> QED
      BY <2>1, <3>1, LoopExists
  <2>3. ASSUME NEW j \in 1..n PROVE g[j] = Step(g[j - 1])
    <3>1. j - 1 \in 0..n
      OBVIOUS
    <3>2. g[j - 1] \in Nat
      BY <2>2, <3>1 DEF IsLoop
    <3>3. G[j][g[j - 1]] = Step(g[j - 1])
      BY <3>2
    <3> QED
      BY <2>2, <3>3 DEF IsLoop
  <2> QED
    BY <2>2, <2>3 DEF IsLoop
<1>4. Computes(skip)
  BY <1>3
<1> HIDE DEF skip
<1>5. \A j \in 0..n : skip[j] \in Nat
  <2>1. skip[0] \in Nat
    BY <1>4
  <2>2. \A j \in 1..n : skip[j - 1] \in Nat => skip[j] \in Nat
    <3> SUFFICES ASSUME NEW j \in 1..n, skip[j - 1] \in Nat PROVE skip[j] \in Nat
      OBVIOUS
    <3>1. skip[j] = Step(skip[j - 1])
      BY <1>4
    <3> QED
      BY <1>1, <3>1
  <2> HIDE DEF Computes
  <2> QED
    BY <2>1, <2>2, LoopInvariant
<1>6. skip[i - 1] \in Nat
  BY <1>5
<1> QED
  BY <1>2, <1>6

\* What holds of a packet that is built.
GoodPacket(p) ==
    /\ p \in Seq(ChunksOf(p))
    /\ ChunksOf(p) # {}
    /\ \A c \in ChunksOf(p) : GoodChunk(c)

LEMMA PacketGood ==
    ASSUME IInv, NEW n \in Nat \ {0}, NEW p \in Packets(n)
    PROVE  GoodPacket(p)
<1> DEFINE f == Planned(n)
           Lens == IF f[n].len > 0 THEN 1..f[n].len
                   ELSE IF f[n].is_fin THEN {0} ELSE {}
<1>1. /\ \A i \in 1..n : f[i].ok
      /\ \A i \in 1..(n - 1) : ~f[i].is_fin /\ f[i].len > 0
      /\ \E len \in Lens :
           p = [i \in 1..n |-> Chunk(f[i], IF i = n THEN len ELSE f[i].len)]
  BY DEF Packets
<1> HIDE DEF f
<1>2. PICK len \in Lens :
        p = [i \in 1..n |-> Chunk(f[i], IF i = n THEN len ELSE f[i].len)]
  BY <1>1
<1>3. ASSUME NEW i \in 1..n PROVE GoodChunk(p[i])
  <2> DEFINE l == IF i = n THEN len ELSE f[i].len
             c == Chunk(f[i], l)
             fr == f[i]
  <2>1. PICK k \in Nat : fr = ossl_quic_sstream_get_stream_frame(k)
    <3>1. n \in Nat
      OBVIOUS
    <3> QED
      BY <3>1, PlanIs DEF f
  <2>2. p[i] = c
    BY <1>2
  <2>3. fr.ok
    BY <1>1
  <2>4. fr.len \in Nat
    <3>1. \/ \E x \in Starts(new_set) : fr = RangeFrame(x)
          \/ fr = FinFrame /\ have_final_size /\ ~sent_final_size
      <4>1. new_set \in SUBSET (0..MaxUint)
        BY SpanType DEF IInv
      <4> HIDE DEF fr
      <4> QED
        BY <2>1, <2>3, <4>1, FrameCases
    <3>2. Servable
      BY DEF IInv, Servable, Tracked
    <3>3. FinFrame.len = 0
      BY DEF FinFrame
    <3> HIDE DEF fr
    <3>4. CASE \E x \in Starts(new_set) : fr = RangeFrame(x)
      BY <3>2, <3>4, RangeFrameIs DEF OffersRange
    <3> QED
      BY <3>1, <3>3, <3>4
  <2>5. l \in 1..fr.len \/ (fr.len = 0 /\ l = 0 /\ fr.is_fin)
    <3>1. CASE i = n
      BY <2>4, <3>1
    <3>2. CASE i # n
      <4>1. i \in 1..(n - 1)
        BY <3>2
      <4>2. fr.len > 0
        BY <1>1, <4>1
      <4> QED
        BY <2>4, <3>2, <4>2
    <3> QED
      BY <3>1, <3>2
  <2>6. c = Chunk(fr, l)
    OBVIOUS
  <2> HIDE DEF c, l, fr
  <2>7. GoodChunk(c)
    BY <2>1, <2>3, <2>5, <2>6, ChunkGood
  <2> QED
    BY <2>2, <2>7
<1>4. DOMAIN p = 1..n
  BY <1>2
<1>5. \A c \in ChunksOf(p) : GoodChunk(c)
  BY <1>3, <1>4 DEF ChunksOf
<1>6. p[1] \in ChunksOf(p)
  BY <1>4 DEF ChunksOf
<1>7. p \in Seq(ChunksOf(p))
  <2> DEFINE C == ChunksOf(p)
  <2>1. \A i \in 1..n : p[i] \in C
    BY <1>4 DEF ChunksOf
  <2>2. p = [i \in 1..n |-> p[i]]
    BY <1>2
  <2> HIDE DEF C
  <2> QED
    BY <2>1, <2>2 DEF C
<1> QED
  BY <1>5, <1>6, <1>7 DEF GoodPacket

(***************************************************************************)
(* The invariant is inductive                                              *)
(***************************************************************************)
LEMMA InitKeeps == Init => IInv
<1> SUFFICES ASSUME Init PROVE IInv
  OBVIOUS
<1> USE SStreamAssumption, MaxOffsetAssumption
<1> DEFINE a == IF crypto THEN CryptoBufSize ELSE InitBufSize
<1>1. a \in Nat /\ a > 0
  BY DEF Init
<1>2. ring = ring_buf_init(a)
  BY DEF Init
<1> HIDE DEF a
<1>3. /\ ring.alloc = a /\ ring.head_offset = 0 /\ ring.ctail_offset = 0
      /\ ring.start \in [0..(a - 1) -> 0..MAX_OFFSET]
  BY <1>1, <1>2 DEF ring_buf_init, Zero
<1>4. Sound(ring)
  <2>1. ring.start \in Memories
    BY <1>1, <1>3 DEF Memories
  <2>2. ring \in Buffers
    BY <1>1, <1>2, <1>3, <2>1 DEF ring_buf_init, Buffers
  <2> QED
    BY <1>1, <1>3, <2>2 DEF Sound, IsRingBuf
<1>5. StreamBytes = {} /\ GivenUp(ring, acked_set)
  BY <1>3 DEF StreamBytes, CurSize, GivenUp
<1>6. TypeOK
  <2>1. IsRingBuf(ring)
    BY <1>4 DEF Sound
  <2>2. losses \in 0..MaxLosses
    BY DEF Init
  <2>3. /\ new_set \subseteq 0..MaxUint /\ acked_set \subseteq 0..MaxUint
        /\ \A p \in pkts : \A c \in ChunksOf(p) : IsChunk(c)
    BY DEF Init
  <2>4. /\ have_final_size \in BOOLEAN /\ sent_final_size \in BOOLEAN
        /\ acked_final_size \in BOOLEAN /\ cleanse \in BOOLEAN
        /\ crypto \in BOOLEAN
    BY DEF Init
  <2> QED
    BY <2>1, <2>2, <2>3, <2>4 DEF TypeOK
<1>7. Tracked
  BY <1>5 DEF Tracked, Init
<1> QED
  BY <1>4, <1>5, <1>6, <1>7
     DEF IInv, Init, Span, EmptyStream, FinTracked, FramesTruthful

\* Writing, concluding, and the settings of the application.
LEMMA AppendKeeps ==
    ASSUME IInv, NEW n \in 1..MaxWrite, Append_(n)
    PROVE  IInv' /\ CurSize' >= CurSize
<1> USE SStreamAssumption, MaxOffsetAssumption
<1> DEFINE q == sstream_ensure_spare(n)
           r == ring_buf_push(q, n)
           New == CurSize..(r.head_offset - 1)
<1>1. Sound(q) /\ q.ctail_offset = ring.ctail_offset /\ q.head_offset = CurSize
  <2>1. Sound(ring)
    BY DEF IInv
  <2>2. CASE crypto \/ n <= ring_buf_avail(ring) \/ ring.alloc = MaxWriteBufSize
    BY <2>1, <2>2 DEF sstream_ensure_spare, CurSize
  <2>3. CASE ~(crypto \/ n <= ring_buf_avail(ring) \/ ring.alloc = MaxWriteBufSize)
    <3> DEFINE m == MinOf(ring.alloc + (n - ring_buf_avail(ring)), MaxWriteBufSize)
    <3>1. m \in Nat
      <4>1. ring.alloc \in Nat /\ ring_buf_avail(ring) \in Nat
        BY <2>1 DEF Sound, IsRingBuf, ring_buf_avail, ring_buf_used
      <4> QED
        BY <2>3, <4>1 DEF MinOf
    <3>2. q = ring_buf_resize(ring, m)
      BY <2>3 DEF sstream_ensure_spare
    <3> HIDE DEF m, q
    <3> QED
      BY <2>1, <3>1, <3>2, Resized DEF CurSize
  <2> QED
    BY <2>2, <2>3
<1>2. /\ Sound(r) /\ r.ctail_offset = ring.ctail_offset
      /\ r.head_offset >= CurSize
  <2>1. n \in Nat /\ r = ring_buf_push(q, n)
    OBVIOUS
  <2> HIDE DEF q, r
  <2> QED
    BY <1>1, <2>1, Pushed
<1>3. /\ ~have_final_size /\ ring' = r /\ new_set' = new_set \cup New
      /\ UNCHANGED <<acked_set, have_final_size, sent_final_size,
                     acked_final_size, cleanse, crypto, pkts, losses>>
  BY DEF Append_, flags
<1> HIDE DEF q, r
<1>4. /\ CurSize \in Nat /\ CurSize' \in Nat /\ CurSize' <= MAX_OFFSET
      /\ CurSize' >= CurSize /\ CurSize' = r.head_offset
  <2>1. CurSize \in Nat
    BY SizeIs DEF IInv
  <2> QED
    BY <1>2, <1>3, <2>1 DEF CurSize, Sound, IsRingBuf
<1>5. /\ StreamBytes' = StreamBytes \cup New /\ StreamBytes \cap New = {}
      /\ New \subseteq 0..MaxUint
  BY <1>4 DEF StreamBytes
<1>6. ~sent_final_size /\ (CurSize = 0 => new_set = {} /\ pkts = {} /\ acked_set = {})
  BY <1>3 DEF IInv, EmptyStream
<1>7. /\ new_set \subseteq StreamBytes /\ acked_set \subseteq StreamBytes
      /\ \A p \in pkts : \A c \in ChunksOf(p) : Covered(c) \subseteq StreamBytes
  <2>1. CASE CurSize = 0
    BY <1>6, <2>1
  <2>2. CASE CurSize # 0
    BY <2>2 DEF IInv, Span, IsPacket
  <2> QED
    BY <2>1, <2>2
<1>8. \A p \in pkts : PacketBytes(p) \subseteq StreamBytes
  BY <1>7 DEF PacketBytes
<1> HIDE DEF New
<1>9. TypeOK' /\ Sound(ring)' /\ GivenUp(ring, acked_set)'
  <2>1. TypeOK'
    BY <1>2, <1>3, <1>5 DEF IInv, TypeOK, IsChunk, Sound
  <2>2. GivenUp(ring, acked_set)'
    BY <1>2, <1>3 DEF IInv, GivenUp
  <2> QED
    BY <1>2, <1>3, <2>1, <2>2
<1>10. Span(new_set)' /\ Span(acked_set)' /\ (\A p \in pkts : IsPacket(p))'
  <2>1. new_set' \subseteq StreamBytes' /\ acked_set' \subseteq StreamBytes'
    BY <1>3, <1>5, <1>7
  <2>2. \A p \in pkts : \A c \in ChunksOf(p) : Covered(c) \subseteq StreamBytes'
    BY <1>5, <1>7
  <2>3. \A p \in pkts : p \in Seq(ChunksOf(p))
    BY DEF IInv, IsPacket
  <2> QED
    BY <1>3, <2>1, <2>2, <2>3 DEF Span, IsPacket
<1>11. (CurSize = 0)' => EmptyStream'
  <2> SUFFICES ASSUME (CurSize = 0)' PROVE EmptyStream'
    OBVIOUS
  <2>1. CurSize = 0 /\ New = {}
    BY <1>4 DEF New
  <2> QED
    BY <1>3, <1>6, <2>1 DEF EmptyStream
<1>12. Tracked'
  <2>1. /\ new_set \cap acked_set = {}
        /\ StreamBytes \subseteq
             new_set \cup acked_set \cup UNION {PacketBytes(p) : p \in pkts}
        /\ \A p \in pkts : PacketBytes(p) \cap (new_set \cup acked_set) = {}
        /\ \A p, q1 \in pkts : p # q1 => PacketBytes(p) \cap PacketBytes(q1) = {}
    BY DEF IInv, Tracked
  <2>2. new_set' \cap acked_set' = {}
    BY <1>3, <1>5, <1>7, <2>1
  <2>3. StreamBytes' \subseteq
          new_set' \cup acked_set' \cup UNION {PacketBytes(p) : p \in pkts'}
    BY <1>3, <1>5, <2>1
  <2>4. \A p \in pkts : PacketBytes(p) \cap (new_set' \cup acked_set') = {}
    BY <1>3, <1>5, <1>8, <2>1
  <2> QED
    BY <1>3, <2>1, <2>2, <2>3, <2>4 DEF Tracked
<1>13. FramesTruthful'
  <2>1. \A p \in pkts : \A c \in ChunksOf(p) : ~c.has_fin
    BY <1>3 DEF IInv, FramesTruthful
  <2> QED
    BY <1>3, <2>1 DEF IInv, FramesTruthful
<1>20. IInv'
  BY <1>3, <1>6, <1>9, <1>10, <1>11, <1>12, <1>13 DEF IInv, FinTracked
<1> QED
  BY <1>20, <1>4

LEMMA SettingKeeps ==
    ASSUME IInv,
           \/ Fin
           \/ \E n \in 0..MaxWriteBufSize : SetBufferSize(n)
           \/ \E v \in BOOLEAN : SetCleanse(v)
    PROVE  IInv'
<1> USE SStreamAssumption
<1>1. /\ Sound(ring)' /\ ring'.head_offset = ring.head_offset
      /\ ring'.ctail_offset = ring.ctail_offset
      /\ UNCHANGED <<new_set, acked_set, sent_final_size, acked_final_size,
                     crypto, pkts, losses>>
      /\ cleanse' \in BOOLEAN /\ have_final_size' \in BOOLEAN
      /\ have_final_size => have_final_size'
      /\ have_final_size' => have_final_size \/ ~sent_final_size
  <2>0. Sound(ring)
    BY DEF IInv
  <2>1. CASE Fin
    <3>1. ring' = ring
      BY <2>1 DEF Fin
    <3>2. sent_final_size => have_final_size
      BY DEF IInv
    <3> QED
      BY <2>0, <2>1, <3>1, <3>2 DEF Fin, IInv, TypeOK
  <2>2. CASE \E n \in 0..MaxWriteBufSize : SetBufferSize(n)
    <3>1. PICK n \in 0..MaxWriteBufSize : SetBufferSize(n)
      BY <2>2
    <3>2. n \in Nat /\ ring' = ring_buf_resize(ring, n)
      BY <3>1 DEF SetBufferSize
    <3>3. /\ Sound(ring') /\ ring'.head_offset = ring.head_offset
          /\ ring'.ctail_offset = ring.ctail_offset
      BY <2>0, <3>2, Resized
    <3>4. Sound(ring)'
      BY <3>3 DEF Sound
    <3> QED
      BY <3>1, <3>3, <3>4 DEF SetBufferSize, IInv, TypeOK, flags
  <2>3. CASE \E v \in BOOLEAN : SetCleanse(v)
    <3>1. ring' = ring
      BY <2>3 DEF SetCleanse
    <3> QED
      BY <2>0, <2>3, <3>1 DEF SetCleanse, IInv, TypeOK
  <2> QED
    BY <2>1, <2>2, <2>3
<1>2. CurSize' = CurSize /\ StreamBytes' = StreamBytes
  BY <1>1 DEF CurSize, StreamBytes
<1>3. TypeOK'
  <2>1. IsRingBuf(ring)'
    BY <1>1 DEF Sound
  <2> QED
    BY <1>1, <2>1 DEF IInv, TypeOK, IsChunk
<1>4. GivenUp(ring, acked_set)'
  BY <1>1 DEF IInv, GivenUp
<1>5. Span(new_set)' /\ Span(acked_set)' /\ (\A p \in pkts : IsPacket(p))'
  BY <1>1, <1>2 DEF IInv, Span, IsPacket
<1>6. (CurSize = 0)' => EmptyStream'
  BY <1>1, <1>2 DEF IInv, EmptyStream
<1>7. Tracked'
  BY <1>1, <1>2 DEF IInv, Tracked
<1>8. FinTracked'
  BY <1>1 DEF IInv, FinTracked
<1>9. FramesTruthful'
  BY <1>1, <1>2 DEF IInv, FramesTruthful
<1> QED
  BY <1>1, <1>3, <1>4, <1>5, <1>6, <1>7, <1>8, <1>9 DEF IInv

\* The empty stream has no room for a second packet.
LEMMA AllOrNothing ==
    ASSUME IInv, CurSize = 0, NEW X, Span(X)
    PROVE  X = {} \/ X = 0..MaxUint
<1>1. StreamBytes = {}
  BY DEF StreamBytes
<1> QED
  BY <1>1 DEF Span

LEMMA PacketSpan ==
    ASSUME NEW p, IsPacket(p)
    PROVE  Span(PacketBytes(p))
<1>1. CASE CurSize = 0
  <2>1. StreamBytes = {}
    BY <1>1 DEF StreamBytes
  <2>2. \A c \in ChunksOf(p) : Covered(c) = {} \/ Covered(c) = 0..MaxUint
    BY <2>1 DEF IsPacket, Span
  <2>3. PacketBytes(p) = {} \/ PacketBytes(p) = 0..MaxUint
    BY <2>2 DEF PacketBytes
  <2> QED
    BY <1>1, <2>3 DEF Span
<1>2. CASE CurSize # 0
  BY <1>2 DEF IsPacket, Span, PacketBytes
<1> QED
  BY <1>1, <1>2

LEMMA TransmitKeeps ==
    ASSUME IInv, Transmit
    PROVE  IInv'
<1> USE SStreamAssumption
<1>0. PICK n \in 1..MaxChunks : \E p \in Packets(n) : TxPacket(p)
  BY DEF Transmit
<1>1. PICK p \in Packets(n) : TxPacket(p)
  BY <1>0
<1>2. GoodPacket(p)
  <2>1. n \in Nat \ {0}
    OBVIOUS
  <2> QED
    BY <2>1, PacketGood
<1>3. /\ pkts' = pkts \cup {p} /\ new_set' = new_set \ PacketBytes(p)
      /\ sent_final_size' = (sent_final_size \/ HasFin(p))
      /\ UNCHANGED <<ring, acked_set, have_final_size, acked_final_size, cleanse,
                     losses, crypto>>
  BY <1>1 DEF TxPacket
<1>4. CurSize' = CurSize /\ StreamBytes' = StreamBytes /\ Sound(ring)'
  BY <1>3 DEF CurSize, StreamBytes, IInv, Sound
<1>5. CurSize \in Nat
  BY SizeIs DEF IInv
<1>6. IsPacket(p) /\ \A c \in ChunksOf(p) : IsChunk(c)
  BY <1>2 DEF GoodPacket, GoodChunk, IsPacket
<1>7. CurSize > 0 => PacketBytes(p) \subseteq new_set
  BY <1>2 DEF GoodPacket, GoodChunk, PacketBytes
<1>8. CurSize = 0 => /\ PacketBytes(p) = 0..MaxUint /\ HasFin(p)
                    /\ pkts = {} /\ acked_set = {}
  <2> SUFFICES ASSUME CurSize = 0
               PROVE  /\ PacketBytes(p) = 0..MaxUint /\ HasFin(p)
                      /\ pkts = {} /\ acked_set = {}
    OBVIOUS
  <2>1. PICK c : c \in ChunksOf(p)
    BY <1>2 DEF GoodPacket
  <2>2. \A d \in ChunksOf(p) : Covered(d) = 0..MaxUint /\ d.has_fin
    BY <1>2 DEF GoodPacket, GoodChunk
  <2>3. ~sent_final_size \/ new_set = 0..MaxUint
    BY <1>2, <2>1 DEF GoodPacket, GoodChunk
  <2>4. PacketBytes(p) = 0..MaxUint /\ HasFin(p)
    BY <2>1, <2>2 DEF PacketBytes, HasFin
  <2>5. EmptyStream
    BY DEF IInv
  <2>6. ASSUME new_set = 0..MaxUint PROVE pkts = {} /\ acked_set = {}
    <3>1. Span(acked_set) /\ \A q \in pkts : IsPacket(q)
      BY DEF IInv
    <3>2. \A q \in pkts : PacketBytes(q) = 0..MaxUint
      <4> SUFFICES ASSUME NEW q \in pkts PROVE PacketBytes(q) = 0..MaxUint
        OBVIOUS
      <4>1. Span(PacketBytes(q))
        BY <3>1, PacketSpan
      <4> QED
        BY <2>5, <4>1, AllOrNothing DEF EmptyStream
    <3>3. acked_set = {} \/ acked_set = 0..MaxUint
      BY <3>1, AllOrNothing
    <3>4. 0 \in 0..MaxUint
      OBVIOUS
    <3> QED
      BY <2>6, <3>2, <3>3, <3>4 DEF IInv, Tracked
  <2> QED
    BY <2>3, <2>4, <2>5, <2>6 DEF EmptyStream
<1>9. TypeOK'
  <2>1. IsRingBuf(ring)'
    BY <1>4 DEF Sound
  <2>2. sent_final_size' \in BOOLEAN
    BY <1>3
  <2>3. \A q \in pkts' : \A c \in ChunksOf(q) : IsChunk(c)
    BY <1>3, <1>6 DEF IInv, TypeOK
  <2>4. new_set' \subseteq 0..MaxUint
    BY <1>3 DEF IInv, TypeOK
  <2> QED
    BY <1>3, <2>1, <2>2, <2>3, <2>4 DEF IInv, TypeOK, IsChunk
<1>10. GivenUp(ring, acked_set)'
  BY <1>3 DEF IInv, GivenUp
<1>11. new_set' = {} \/ CurSize > 0
  <2>1. CASE CurSize = 0
    <3>1. new_set \subseteq 0..MaxUint
      BY DEF IInv, TypeOK
    <3> QED
      BY <1>3, <1>8, <2>1, <3>1
  <2> QED
    BY <1>5, <2>1
<1>12. Span(new_set)' /\ Span(acked_set)'
  BY <1>3, <1>4, <1>11 DEF IInv, Span
<1>13. (\A q \in pkts : IsPacket(q))'
  <2>1. \A q \in pkts' : IsPacket(q)
    BY <1>3, <1>6 DEF IInv
  <2> QED
    BY <1>4, <2>1 DEF IsPacket, Span
<1>14. (CurSize = 0)' => EmptyStream'
  <2> SUFFICES ASSUME CurSize = 0 PROVE EmptyStream'
    BY <1>4
  <2>1. pkts' = {p} /\ new_set' = {} /\ sent_final_size'
    <3>1. pkts' = {p} /\ new_set' = {}
      BY <1>3, <1>8, <1>11
    <3>2. HasFin(p)
      BY <1>8
    <3>3. sent_final_size'
      BY <1>3, <3>2
    <3> QED
      BY <3>1, <3>3
  <2>2. 0 \in PacketBytes(p)
    BY <1>8
  <2> QED
    BY <2>1, <2>2 DEF EmptyStream
<1>15. HasFin(p) => have_final_size
  BY <1>2 DEF GoodPacket, GoodChunk, HasFin
<1>16. (sent_final_size => have_final_size)'
  BY <1>3, <1>15 DEF IInv
<1>17. Tracked'
  <2>1. /\ new_set \cap acked_set = {}
        /\ StreamBytes \subseteq
             new_set \cup acked_set \cup UNION {PacketBytes(q) : q \in pkts}
        /\ \A q \in pkts : PacketBytes(q) \cap (new_set \cup acked_set) = {}
        /\ \A q, r \in pkts : q # r => PacketBytes(q) \cap PacketBytes(r) = {}
    BY DEF IInv, Tracked
  <2>2. new_set' \cap acked_set' = {}
    BY <1>3, <2>1
  <2>3. PacketBytes(p) \cap acked_set = {}
    BY <1>5, <1>7, <1>8, <2>1
  <2>4. \A q \in pkts : PacketBytes(p) \cap PacketBytes(q) = {}
    BY <1>5, <1>7, <1>8, <2>1
  <2>5. StreamBytes' \subseteq
          new_set' \cup acked_set' \cup UNION {PacketBytes(q) : q \in pkts'}
    BY <1>3, <1>4, <2>1
  <2>6. \A q \in pkts' : PacketBytes(q) \cap (new_set' \cup acked_set') = {}
    BY <1>3, <2>1, <2>3
  <2>7. \A q, r \in pkts' : q # r => PacketBytes(q) \cap PacketBytes(r) = {}
    BY <1>3, <2>1, <2>4
  <2> QED
    BY <2>2, <2>5, <2>6, <2>7 DEF Tracked
<1>18. FinTracked'
  BY <1>3 DEF IInv, FinTracked
<1>19. FramesTruthful'
  <2>1. \A q \in pkts' : \A c \in ChunksOf(q) :
          /\ \A o \in DOMAIN c.data : c.data[o] = ByteAt(o)
          /\ c.has_fin => have_final_size /\ UintMod(c.end + 1) = CurSize
    BY <1>2, <1>3 DEF IInv, FramesTruthful, GoodPacket, GoodChunk
  <2> QED
    BY <1>3, <1>4, <2>1 DEF FramesTruthful
<1> QED
  BY <1>4, <1>9, <1>10, <1>12, <1>13, <1>14, <1>16, <1>17, <1>18, <1>19 DEF IInv

LEMMA AckKeeps ==
    ASSUME IInv, NEW p \in pkts, OnAcked(p)
    PROVE  IInv' /\ CurSize' = CurSize
           /\ acked_set' = acked_set \cup PacketBytes(p)
<1> USE SStreamAssumption
<1> DEFINE d == Acked(p)
<1>1. /\ pkts' = pkts \ {p} /\ ring' = d.ring /\ acked_set' = d.acked
      /\ acked_final_size' = (acked_final_size \/ (HasFin(p) /\ have_final_size))
      /\ UNCHANGED <<new_set, have_final_size, sent_final_size, cleanse,
                     losses, crypto>>
  BY DEF OnAcked
<1>2. d \in AckStates /\ d.acked = acked_set \cup PacketBytes(p)
  <2>1. d = Acked(p)
    OBVIOUS
  <2> HIDE DEF d
  <2>2. /\ Sound(ring) /\ GivenUp(ring, acked_set) /\ Span(acked_set)
        /\ cleanse \in BOOLEAN /\ IsPacket(p)
        /\ \A c \in ChunksOf(p) : IsChunk(c)
    BY DEF IInv, TypeOK
  <2> QED
    BY <2>1, <2>2, PacketAcked
<1> HIDE DEF d
<1>3. /\ Sound(ring') /\ ring'.head_offset = CurSize /\ GivenUp(ring', acked_set')
      /\ Span(acked_set') /\ acked_set' \in SUBSET (0..MaxUint)
  BY <1>1, <1>2 DEF AckStates
<1>4. CurSize' = CurSize /\ StreamBytes' = StreamBytes
  BY <1>3 DEF CurSize, StreamBytes
<1>5. Sound(ring)' /\ GivenUp(ring, acked_set)' /\ Span(acked_set)'
  BY <1>3, <1>4 DEF Sound, GivenUp, Span
<1>6. TypeOK'
  <2>1. IsRingBuf(ring)'
    BY <1>5 DEF Sound
  <2>2. acked_final_size' \in BOOLEAN
    BY <1>1
  <2>3. acked_set' \subseteq 0..MaxUint
    BY <1>3
  <2>4. \A q \in pkts' : \A c \in ChunksOf(q) : IsChunk(c)
    BY <1>1 DEF IInv, TypeOK
  <2> QED
    BY <1>1, <2>1, <2>2, <2>3, <2>4 DEF IInv, TypeOK, IsChunk
<1>7. Span(new_set)' /\ (\A q \in pkts : IsPacket(q))'
  BY <1>1, <1>4 DEF IInv, Span, IsPacket
<1>8. (CurSize = 0)' => EmptyStream'
  BY <1>1, <1>4 DEF IInv, EmptyStream
<1>9. Tracked'
  <2>1. /\ new_set \cap acked_set = {}
        /\ StreamBytes \subseteq
             new_set \cup acked_set \cup UNION {PacketBytes(q) : q \in pkts}
        /\ \A q \in pkts : PacketBytes(q) \cap (new_set \cup acked_set) = {}
        /\ \A q, r \in pkts : q # r => PacketBytes(q) \cap PacketBytes(r) = {}
    BY DEF IInv, Tracked
  <2>2. acked_set' = acked_set \cup PacketBytes(p)
    BY <1>1, <1>2
  <2>3. new_set' \cap acked_set' = {}
    BY <1>1, <2>1, <2>2
  <2>4. StreamBytes' \subseteq
          new_set' \cup acked_set' \cup UNION {PacketBytes(q) : q \in pkts'}
    BY <1>1, <1>4, <2>1, <2>2
  <2>5. \A q \in pkts' : PacketBytes(q) \cap (new_set' \cup acked_set') = {}
    BY <1>1, <2>1, <2>2
  <2>6. \A q, r \in pkts' : q # r => PacketBytes(q) \cap PacketBytes(r) = {}
    BY <1>1, <2>1
  <2> QED
    BY <2>3, <2>4, <2>5, <2>6 DEF Tracked
<1>10. FinTracked'
  BY <1>1 DEF IInv, FinTracked
<1>11. FramesTruthful'
  BY <1>1, <1>4 DEF IInv, FramesTruthful
<1>20. IInv'
  BY <1>1, <1>5, <1>6, <1>7, <1>8, <1>9, <1>10, <1>11 DEF IInv
<1> QED
  BY <1>20, <1>1, <1>2 DEF CurSize, AckStates

LEMMA LossKeeps ==
    ASSUME IInv, NEW p \in pkts, OnLost(p)
    PROVE  IInv'
<1> USE SStreamAssumption
<1>1. /\ pkts' = pkts \ {p} /\ new_set' = new_set \cup PacketBytes(p)
      /\ sent_final_size' = (sent_final_size /\ (HasFin(p) => acked_final_size))
      /\ UNCHANGED <<ring, acked_set, have_final_size, acked_final_size, cleanse,
                     crypto>>
  BY DEF OnLost
<1>2. CurSize' = CurSize /\ StreamBytes' = StreamBytes /\ Sound(ring)'
  BY <1>1 DEF CurSize, StreamBytes, IInv, Sound
<1>3. Span(PacketBytes(p))
  BY PacketSpan DEF IInv
<1>4. PacketBytes(p) \in SUBSET (0..MaxUint)
  BY <1>3, SpanType DEF IInv
<1>5. TypeOK'
  <2>1. losses' \in 0..MaxLosses
    BY DEF OnLost, IInv, TypeOK
  <2>2. sent_final_size' \in BOOLEAN
    BY <1>1
  <2>3. new_set' \subseteq 0..MaxUint
    BY <1>1, <1>4 DEF IInv, TypeOK
  <2>4. \A q \in pkts' : \A c \in ChunksOf(q) : IsChunk(c)
    BY <1>1 DEF IInv, TypeOK
  <2>5. IsRingBuf(ring)'
    BY <1>2 DEF Sound
  <2> QED
    BY <1>1, <2>1, <2>2, <2>3, <2>4, <2>5 DEF IInv, TypeOK, IsChunk
<1>6. GivenUp(ring, acked_set)'
  BY <1>1 DEF IInv, GivenUp
<1>7. Span(new_set)'
  <2>1. Span(new_set \cup PacketBytes(p))
    BY <1>3, SpanUnion DEF IInv
  <2> QED
    BY <1>1, <1>2, <2>1 DEF Span
<1>8. Span(acked_set)' /\ (\A q \in pkts : IsPacket(q))'
  BY <1>1, <1>2 DEF IInv, Span, IsPacket
<1>9. (sent_final_size => have_final_size)'
  BY <1>1 DEF IInv
<1>10. (CurSize = 0)' => EmptyStream'
  <2> SUFFICES ASSUME CurSize = 0 PROVE EmptyStream'
    BY <1>2
  <2>1. EmptyStream
    BY DEF IInv
  <2>2. \A q \in pkts : PacketBytes(q) = 0..MaxUint
    <3> SUFFICES ASSUME NEW q \in pkts PROVE PacketBytes(q) = 0..MaxUint
      OBVIOUS
    <3>1. Span(PacketBytes(q))
      BY PacketSpan DEF IInv
    <3> QED
      BY <2>1, <3>1, AllOrNothing DEF EmptyStream
  <2>3. 0 \in 0..MaxUint
    OBVIOUS
  <2>4. pkts = {p}
    BY <2>2, <2>3 DEF IInv, Tracked
  <2>5. acked_set = {}
    <3>1. acked_set = {} \/ acked_set = 0..MaxUint
      BY AllOrNothing DEF IInv
    <3> QED
      BY <2>2, <2>3, <3>1 DEF IInv, Tracked
  <2>6. have_final_size
    BY <2>1, <2>4 DEF EmptyStream, IInv
  <2> QED
    BY <1>1, <2>4, <2>5, <2>6 DEF EmptyStream
<1>11. Tracked'
  <2>1. /\ new_set \cap acked_set = {}
        /\ StreamBytes \subseteq
             new_set \cup acked_set \cup UNION {PacketBytes(q) : q \in pkts}
        /\ \A q \in pkts : PacketBytes(q) \cap (new_set \cup acked_set) = {}
        /\ \A q, r \in pkts : q # r => PacketBytes(q) \cap PacketBytes(r) = {}
    BY DEF IInv, Tracked
  <2>2. new_set' \cap acked_set' = {}
    BY <1>1, <2>1
  <2>3. StreamBytes' \subseteq
          new_set' \cup acked_set' \cup UNION {PacketBytes(q) : q \in pkts'}
    BY <1>1, <1>2, <2>1
  <2>4. \A q \in pkts' : PacketBytes(q) \cap (new_set' \cup acked_set') = {}
    BY <1>1, <2>1
  <2>5. \A q, r \in pkts' : q # r => PacketBytes(q) \cap PacketBytes(r) = {}
    BY <1>1, <2>1
  <2> QED
    BY <2>2, <2>3, <2>4, <2>5 DEF Tracked
<1>12. FinTracked'
  BY <1>1 DEF IInv, FinTracked
<1>13. FramesTruthful'
  BY <1>1, <1>2 DEF IInv, FramesTruthful
<1> QED
  BY <1>2, <1>5, <1>6, <1>7, <1>8, <1>9, <1>10, <1>11, <1>12, <1>13 DEF IInv

LEMMA NextKeeps == IInv /\ [Next]_vars => IInv'
<1> SUFFICES ASSUME IInv, [Next]_vars PROVE IInv'
  OBVIOUS
<1>1. CASE UNCHANGED vars
  <2>1. UNCHANGED <<ring, new_set, acked_set, have_final_size, sent_final_size,
                    acked_final_size, cleanse, crypto, pkts, losses>>
    BY <1>1 DEF vars, flags
  <2>2. CurSize' = CurSize /\ StreamBytes' = StreamBytes
    BY <2>1 DEF CurSize, StreamBytes
  <2>3. TypeOK' /\ Sound(ring)' /\ GivenUp(ring, acked_set)'
    BY <2>1 DEF IInv, TypeOK, IsChunk, Sound, GivenUp
  <2>4. Span(new_set)' /\ Span(acked_set)' /\ (\A p \in pkts : IsPacket(p))'
    BY <2>1, <2>2 DEF IInv, Span, IsPacket
  <2>5. ((CurSize = 0)' => EmptyStream') /\ Tracked'
    BY <2>1, <2>2 DEF IInv, EmptyStream, Tracked
  <2>6. FinTracked' /\ FramesTruthful'
    BY <2>1, <2>2 DEF IInv, FinTracked, FramesTruthful
  <2> QED
    BY <2>1, <2>3, <2>4, <2>5, <2>6 DEF IInv
<1>2. CASE \E n \in 1..MaxWrite : Append_(n)
  BY <1>2, AppendKeeps
<1>3. CASE Fin \/ (\E n \in 0..MaxWriteBufSize : SetBufferSize(n))
             \/ (\E v \in BOOLEAN : SetCleanse(v))
  BY <1>3, SettingKeeps
<1>4. CASE Transmit
  BY <1>4, TransmitKeeps
<1>5. CASE \E p \in pkts : OnAcked(p) \/ OnLost(p)
  BY <1>5, AckKeeps, LossKeeps
<1> QED
  BY <1>1, <1>2, <1>3, <1>4, <1>5 DEF Next

(***************************************************************************)
(* Theorems                                                                *)
(***************************************************************************)

\* The strengthening of the properties below holds throughout: new_set,
\* acked_set and the packets in flight share out the bytes of the stream, and
\* the ring buffer holds all that is not acknowledged.
THEOREM InductiveInvariant == Spec => []IInv
<1> QED
  BY InitKeeps, NextKeeps, PTL DEF Spec

\* Every variable of a send stream keeps its type.
THEOREM TypeCorrect == Spec => []TypeOK
<1>1. IInv => TypeOK
  BY DEF IInv
<1> QED
  BY <1>1, InductiveInvariant, PTL

\* No byte and no FIN of a send stream is ever forgotten, whatever is written,
\* cut into frames, acknowledged and lost in whatever order.
THEOREM NothingIsForgotten == Spec => []NothingForgotten
<1>1. IInv => NothingForgotten
  BY DEF IInv, NothingForgotten
<1> QED
  BY <1>1, InductiveInvariant, PTL

\* STREAM frames carry the bytes that were written, although the memory they
\* are taken from wraps around, is culled, cleansed and resized, and a FIN
\* only at the end.
THEOREM FramesAreTrue == Spec => []FramesTruthful
<1>1. IInv => FramesTruthful
  BY DEF IInv
<1> QED
  BY <1>1, InductiveInvariant, PTL

\* What a stream that is totally acknowledged has.
LEMMA TotallyAckedIs == IInv => TotallyAckedIff
<1> SUFFICES ASSUME IInv PROVE TotallyAckedIff
  OBVIOUS
<1>1. CurSize \in Nat /\ acked_set \in SUBSET (0..MaxUint)
  BY SizeIs, SpanType DEF IInv
<1>2. CASE CurSize = 0
  <2>1. StreamBytes = {}
    BY <1>2 DEF StreamBytes
  <2> QED
    BY <1>2, <2>1 DEF TotallyAckedIff, ossl_quic_sstream_is_totally_acked
<1>3. CASE CurSize # 0
  <2>1. acked_set \subseteq StreamBytes /\ StreamBytes = 0..(CurSize - 1)
    BY <1>3 DEF IInv, Span, StreamBytes
  <2> DEFINE e == RangeEnd(acked_set, 0)
  <2>2. ASSUME 0 \in acked_set
        PROVE  e \in Nat /\ 0..e \subseteq acked_set /\ e + 1 \notin acked_set
    <3>1. e = RangeEnd(acked_set, 0)
      OBVIOUS
    <3> HIDE DEF e
    <3>2. e \in acked_set /\ 0..e \subseteq acked_set /\ e + 1 \notin acked_set
      BY <1>1, <2>2, <3>1, RangeEnds
    <3> QED
      BY <1>1, <3>2
  <2> HIDE DEF e
  <2>3. ASSUME StreamBytes \subseteq acked_set
        PROVE  Cardinality(Starts(acked_set)) = 1 /\ 0 \in acked_set /\ e + 1 = CurSize
    <3>1. acked_set = 0..(CurSize - 1)
      BY <2>1, <2>3
    <3>2. 0 \in acked_set
      BY <1>1, <1>3, <3>1
    <3>3. Starts(acked_set) = {0}
      BY <1>1, <1>3, <3>1 DEF Starts
    <3>4. Cardinality(Starts(acked_set)) = 1
      BY <3>3, FS_Singleton
    <3>5. e + 1 = CurSize
      BY <1>1, <2>2, <3>1, <3>2
    <3> QED
      BY <3>2, <3>4, <3>5
  <2>4. ASSUME 0 \in acked_set, e + 1 = CurSize PROVE StreamBytes \subseteq acked_set
    BY <1>1, <2>1, <2>2, <2>4
  <2> QED
    BY <1>3, <2>3, <2>4
       DEF TotallyAckedIff, ossl_quic_sstream_is_totally_acked, e
<1> QED
  BY <1>2, <1>3

\* ossl_quic_sstream_is_totally_acked, which looks at the number of ranges and
\* the ends of the first one, is true exactly when everything is acknowledged.
THEOREM TotallyAckedExact == Spec => []TotallyAckedIff
BY TotallyAckedIs, InductiveInvariant, PTL

\* Whatever is still to be sent can be sent: the buffer has every byte that is
\* not acknowledged and ossl_quic_sstream_get_stream_frame offers every range
\* of new_set.
THEOREM EverythingIsServed == Spec => []BufferServes
<1>1. IInv => BufferServes
  <2> SUFFICES ASSUME IInv PROVE BufferServes
    OBVIOUS
  <2>1. Servable
    BY DEF IInv, Servable, Tracked
  <2>2. BufferIntact
    <3>1. /\ Sound(ring) /\ GivenUp(ring, acked_set)
          /\ CurSize \in Nat /\ ring.ctail_offset \in Nat
      BY SizeIs DEF IInv, Sound, IsRingBuf
    <3>2. \A o \in StreamBytes : o < ring.ctail_offset => o \in acked_set
      BY <3>1 DEF GivenUp, StreamBytes
    <3>3. \A o \in StreamBytes : o >= ring.ctail_offset =>
                                    ring.start[o % ring.alloc] = ByteAt(o)
      <4> SUFFICES ASSUME NEW o \in StreamBytes, o >= ring.ctail_offset
                   PROVE  ring.start[o % ring.alloc] = ByteAt(o)
        OBVIOUS
      <4>1. o \in ring.ctail_offset..(ring.head_offset - 1)
        BY <3>1 DEF StreamBytes, CurSize
      <4> QED
        BY <3>1, <4>1 DEF Sound
    <3>4. ring_buf_used(ring) <= ring.alloc
      BY <3>1 DEF Sound, ring_buf_used
    <3> QED
      BY <3>2, <3>3, <3>4 DEF BufferIntact
  <2>3. NewIsServable
    <3> DEFINE starts == Starts(new_set)
    <3> SUFFICES ASSUME NEW skip \in 0..(Cardinality(starts) - 1)
                 PROVE  LET f == ossl_quic_sstream_get_stream_frame(skip)
                        IN  f.ok /\ (f.len > 0 \/ f.is_fin)
      BY DEF NewIsServable
    <3>1. starts \in SUBSET Nat /\ IsFiniteSet(starts) /\ Cardinality(starts) \in Nat
      <4>1. new_set \in SUBSET (0..MaxUint)
        BY SpanType DEF IInv
      <4> QED
        BY <4>1, StartsFinite, FS_CardinalityType
    <3>2. skip \in Nat /\ skip < Cardinality(starts)
      <4> HIDE DEF starts
      <4> QED
        BY <3>1
    <3> DEFINE f == ossl_quic_sstream_get_stream_frame(skip)
    <3>3. PICK x \in starts : f = RangeFrame(x)
      BY <3>1, <3>2, NthFrame
    <3> HIDE DEF f
    <3>4. OffersRange(f, x)
      BY <2>1, <3>3, RangeFrameIs
    <3>5. f.ok /\ (f.len > 0 \/ f.is_fin)
      <4>1. CurSize \in Nat
        BY SizeIs DEF IInv
      <4>2. CASE CurSize > 0
        BY <3>4, <4>2 DEF OffersRange
      <4>3. CASE CurSize = 0
        <5>1. x = 0 /\ f.len = 0 /\ have_final_size /\ x + f.len = CurSize
          BY <3>4, <4>3 DEF OffersRange
        <5> QED
          BY <3>4, <5>1 DEF OffersRange
      <4> QED
        BY <4>1, <4>2, <4>3
    <3> QED
      BY <3>5 DEF f
  <2> QED
    BY <2>2, <2>3 DEF BufferServes, IInv
<1> QED
  BY <1>1, InductiveInvariant, PTL

-----------------------------------------------------------------------------
(***************************************************************************)
(* Lists of frames                                                         *)
(***************************************************************************)

\* Frames with bytes of the stream, in a packet or moved to the ring buffer.
TrueFrame(a, b) == Frame(a, b, [o \in a..(b - 1) |-> ByteAt(o)])
TrueFrames == UNION {{TrueFrame(a, b), InRbuf(TrueFrame(a, b))} :
                       a \in Nat, b \in Nat}

LEMMA FrameIs ==
    ASSUME NEW f \in TrueFrames
    PROVE  /\ f.start \in Nat /\ f.end \in Nat /\ f.in_pkt \in BOOLEAN
           /\ f.in_pkt => f.data = [o \in f.start..(f.end - 1) |-> o + 1]
           /\ ~f.in_pkt => f = [start |-> f.start, end |-> f.end,
                                in_pkt |-> FALSE, data |-> <<>>]
<1>1. PICK a \in Nat, b \in Nat : f \in {TrueFrame(a, b), InRbuf(TrueFrame(a, b))}
  BY DEF TrueFrames
<1>2. CASE f = TrueFrame(a, b)
  BY <1>2 DEF TrueFrame, Frame, ByteAt
<1>3. CASE f = InRbuf(TrueFrame(a, b))
  BY <1>3 DEF TrueFrame, Frame, InRbuf
<1> QED
  BY <1>1, <1>2, <1>3

LEMMA TrueFrameIn ==
    ASSUME NEW a \in Nat, NEW b \in Nat
    PROVE  TrueFrame(a, b) \in TrueFrames /\ InRbuf(TrueFrame(a, b)) \in TrueFrames
<1> DEFINE S(x, y) == {TrueFrame(x, y), InRbuf(TrueFrame(x, y))}
<1>1. TrueFrames = UNION {S(x, y) : x \in Nat, y \in Nat}
  BY DEF TrueFrames
<1>2. TrueFrame(a, b) \in S(a, b) /\ InRbuf(TrueFrame(a, b)) \in S(a, b)
  OBVIOUS
<1> HIDE DEF S
<1> QED
  BY <1>1, <1>2

InFrame(o, f) == f.start <= o /\ o < f.end
InList(o, f) == \E i \in 1..Len(f) : InFrame(o, f[i])

\* Neither the starts nor the ends go down.
Ordered(f) ==
    \A i, j \in 1..Len(f) :
        i < j => f[i].start <= f[j].start /\ f[i].end < f[j].end

\* A list of frames that end behind off, of a stream of n bytes.
IsList(f, off, n) ==
    /\ f \in Seq(TrueFrames)
    /\ \A i \in 1..Len(f) :
         f[i].start <= f[i].end /\ off < f[i].end /\ f[i].end <= n
    /\ Ordered(f)

\* A part of an interval that has everything before each of its elements is an
\* interval.
LEMMA FirstPart ==
    ASSUME NEW p, NEW n, p \in Nat /\ n \in Nat /\ p <= n,
           NEW D, D \in SUBSET ((p + 1)..n),
           \A i \in D : \A j \in (p + 1)..n : j < i => j \in D,
           NEW d, d = Cardinality(D)
    PROVE  d \in Nat /\ D = (p + 1)..(p + d) /\ p + d <= n
<1>1. CASE D = {}
  <2>1. d = 0
    BY <1>1, FS_EmptySet
  <2> QED
    BY <1>1, <2>1
<1>2. CASE D # {}
  <2>1. D \in SUBSET (0..n)
    OBVIOUS
  <2>2. PICK m \in D : \A i \in D : m >= i
    BY <1>2, <2>1, LargestElement
  <2>3. m \in Nat /\ p + 1 <= m /\ m <= n
    BY <2>2
  <2>4. D = (p + 1)..m
    <3>1. ASSUME NEW j \in (p + 1)..m PROVE j \in D
      <4>1. j = m \/ (j < m /\ j \in (p + 1)..n)
        BY <2>3
      <4> QED
        BY <2>2, <4>1
    <3>2. ASSUME NEW j \in D PROVE j \in (p + 1)..m
      <4>1. m >= j /\ j \in (p + 1)..n
        BY <2>2
      <4> QED
        BY <2>3, <4>1
    <3> QED
      BY <3>1, <3>2
  <2>5. d = m - p
    <3>1. Cardinality((p + 1)..m) = IF p + 1 > m THEN 0 ELSE m - (p + 1) + 1
      BY <2>3, FS_Interval
    <3> QED
      BY <2>3, <2>4, <3>1
  <2> QED
    BY <2>3, <2>4, <2>5
<1> QED
  BY <1>1, <1>2

LEMMA Concatenated ==
    ASSUME NEW T, NEW s \in Seq(T), NEW t \in Seq(T), NEW g, g = s \o t
    PROVE  /\ g \in Seq(T) /\ Len(g) = Len(s) + Len(t)
           /\ \A i \in 1..Len(s) : g[i] = s[i]
           /\ \A i \in 1..Len(t) : g[Len(s) + i] = t[i]
OBVIOUS

\* Lists with the frames after p up to q left out, and n in their place.
Splice(f, p, n, q) == SubSeq(f, 1, p) \o <<n>> \o SubSeq(f, q + 1, Len(f))
Join(f, p, q) == SubSeq(f, 1, p) \o SubSeq(f, q + 1, Len(f))

\* Places between which frames are left out.
Between(f, p, q) == f \in Seq(TrueFrames) /\ p \in 0..Len(f) /\ q \in p..Len(f)

IsSplice(g, f, p, n, q) ==
    /\ g \in Seq(TrueFrames) /\ Len(g) = Len(f) - (q - p) + 1
    /\ \A i \in 1..p : g[i] = f[i]
    /\ g[p + 1] = n
    /\ \A i \in (p + 2)..Len(g) : g[i] = f[(i - 1) + (q - p)]

IsJoin(g, f, p, q) ==
    /\ g \in Seq(TrueFrames) /\ Len(g) = Len(f) - (q - p)
    /\ \A i \in 1..p : g[i] = f[i]
    /\ \A i \in (p + 1)..Len(g) : g[i] = f[i + (q - p)]

LEMMA Spliced ==
    ASSUME NEW f, NEW p, NEW q, Between(f, p, q), NEW n, n \in TrueFrames,
           NEW g, g = Splice(f, p, n, q)
    PROVE  IsSplice(g, f, p, n, q)
<1> DEFINE a == SubSeq(f, 1, p)
           b == a \o <<n>>
           c == SubSeq(f, q + 1, Len(f))
<1>0. /\ Len(f) \in Nat /\ p \in Nat /\ q \in Nat /\ p <= q /\ q <= Len(f)
      /\ f \in Seq(TrueFrames)
  BY DEF Between
<1>1. a \in Seq(TrueFrames) /\ Len(a) = p /\ \A i \in 1..p : a[i] = f[i]
  BY <1>0
<1>2. /\ c \in Seq(TrueFrames) /\ Len(c) = Len(f) - q
      /\ \A i \in 1..Len(c) : c[i] = f[i + q]
  BY <1>0
<1> HIDE DEF a, c
<1>3. /\ b \in Seq(TrueFrames) /\ Len(b) = p + 1 /\ b[p + 1] = n
      /\ \A i \in 1..p : b[i] = f[i]
  BY <1>1
<1>4. g = b \o c
  BY DEF a, c, Splice
<1> HIDE DEF b
<1>8. Len(g) = Len(b) + Len(c) /\ g \in Seq(TrueFrames)
  <2>1. b \in Seq(TrueFrames) /\ c \in Seq(TrueFrames)
    BY <1>2, <1>3, <1>4
  <2> QED
    BY <1>4, <2>1
<1>5. g \in Seq(TrueFrames) /\ Len(g) = Len(f) - (q - p) + 1
  BY <1>0, <1>2, <1>3, <1>8
<1>6. /\ \A i \in 1..(p + 1) : g[i] = b[i]
      /\ \A i \in 1..Len(c) : g[(p + 1) + i] = c[i]
  <2>1. /\ \A i \in 1..Len(b) : g[i] = b[i]
        /\ \A i \in 1..Len(c) : g[Len(b) + i] = c[i]
    BY <1>2, <1>3, <1>4, Concatenated
  <2> QED
    BY <1>3, <2>1
<1>7. ASSUME NEW i \in (p + 2)..Len(g) PROVE g[i] = f[(i - 1) + (q - p)]
  <2> DEFINE k == i - (p + 1)
  <2>1. k \in 1..Len(c) /\ (p + 1) + k = i /\ k + q = (i - 1) + (q - p)
    BY <1>0, <1>2, <1>5
  <2> HIDE DEF k
  <2>2. g[(p + 1) + k] = c[k] /\ c[k] = f[k + q]
    BY <1>2, <1>6, <2>1
  <2> QED
    BY <2>1, <2>2
<1>9. g[p + 1] = n /\ \A i \in 1..p : g[i] = f[i]
  BY <1>0, <1>3, <1>6
<1> QED
  BY <1>5, <1>7, <1>9 DEF IsSplice

LEMMA Joined ==
    ASSUME NEW f, NEW p, NEW q, Between(f, p, q), NEW g, g = Join(f, p, q)
    PROVE  IsJoin(g, f, p, q)
<1> DEFINE a == SubSeq(f, 1, p)
           c == SubSeq(f, q + 1, Len(f))
<1>0. /\ Len(f) \in Nat /\ p \in Nat /\ q \in Nat /\ p <= q /\ q <= Len(f)
      /\ f \in Seq(TrueFrames)
  BY DEF Between
<1>1. a \in Seq(TrueFrames) /\ Len(a) = p /\ \A i \in 1..p : a[i] = f[i]
  BY <1>0
<1>2. /\ c \in Seq(TrueFrames) /\ Len(c) = Len(f) - q
      /\ \A i \in 1..Len(c) : c[i] = f[i + q]
  BY <1>0
<1>4. g = a \o c
  BY DEF Join
<1> HIDE DEF a, c
<1>8. Len(g) = Len(a) + Len(c) /\ g \in Seq(TrueFrames)
  <2>1. a \in Seq(TrueFrames) /\ c \in Seq(TrueFrames)
    BY <1>1, <1>2, <1>4
  <2> QED
    BY <1>4, <2>1
<1>5. g \in Seq(TrueFrames) /\ Len(g) = Len(f) - (q - p)
  BY <1>0, <1>1, <1>2, <1>8
<1>6. /\ \A i \in 1..p : g[i] = a[i]
      /\ \A i \in 1..Len(c) : g[p + i] = c[i]
  <2>1. /\ \A i \in 1..Len(a) : g[i] = a[i]
        /\ \A i \in 1..Len(c) : g[Len(a) + i] = c[i]
    BY <1>1, <1>2, <1>4, Concatenated
  <2> QED
    BY <1>1, <2>1
<1>7. ASSUME NEW i \in (p + 1)..Len(g) PROVE g[i] = f[i + (q - p)]
  <2> DEFINE k == i - p
  <2>1. k \in 1..Len(c) /\ p + k = i /\ k + q = i + (q - p)
    BY <1>0, <1>2, <1>5
  <2> HIDE DEF k
  <2>2. g[p + k] = c[k] /\ c[k] = f[k + q]
    BY <1>2, <1>6, <2>1
  <2> QED
    BY <2>1, <2>2
<1> QED
  BY <1>1, <1>5, <1>6, <1>7 DEF IsJoin

\* What the list g has when the frame n is added to f, as far as it has not
\* been read.
Holds(g, f, n, off) ==
    \A o \in Nat : o >= off => (InList(o, g) <=> InList(o, f) \/ InFrame(o, n))

\* A list that has come to its end, and no earlier than f and n.
Reaches(g, f, n) ==
    /\ g # <<>> /\ g[Len(g)].end >= n.end
    /\ f # <<>> => g[Len(g)].end >= f[Len(f)].end

\* A frame that can be put into a list.
Fits(n, off, total) ==
    n \in TrueFrames /\ n.start <= n.end /\ off < n.end /\ n.end <= total

LEMMA ListIs ==
    ASSUME NEW f, NEW off, NEW total, IsList(f, off, total)
    PROVE  /\ f \in Seq(TrueFrames) /\ Len(f) \in Nat /\ DOMAIN f = 1..Len(f)
           /\ \A i \in 1..Len(f) :
                /\ f[i] \in TrueFrames /\ f[i].start \in Nat /\ f[i].end \in Nat
                /\ f[i].start <= f[i].end /\ off < f[i].end /\ f[i].end <= total
           /\ \A i, j \in 1..Len(f) :
                i < j => f[i].start <= f[j].start /\ f[i].end < f[j].end
<1>1. f \in Seq(TrueFrames) /\ Len(f) \in Nat /\ DOMAIN f = 1..Len(f)
  BY DEF IsList
<1>2. \A i \in 1..Len(f) : f[i] \in TrueFrames
  BY <1>1
<1> QED
  BY <1>1, <1>2, FrameIs DEF IsList, Ordered

\* The places at which a frame is put into a list: behind the first p frames,
\* and instead of those up to q.
Place(f, n, p, q) ==
    /\ p \in 0..Len(f) /\ q \in p..Len(f)
    /\ \A i \in 1..p : f[i].start < n.start
    /\ \A i \in (p + 1)..Len(f) : n.start <= f[i].start
    /\ \A i \in (p + 1)..q : f[i].end <= n.end
    /\ \A i \in (q + 1)..Len(f) : n.end < f[i].end

\* InsertBefore leaves the list as it is, or leaves out frames, or puts the
\* new one in their place.
LEMMA InsertBeforeIs ==
    ASSUME NEW f, NEW off, NEW total, IsList(f, off, total),
           NEW n \in TrueFrames, NEW g, g = InsertBefore(f, n)
    PROVE  \E p, q \in Nat :
             /\ Place(f, n, p, q)
             /\ IF p > 0 /\ f[p].end >= n.end THEN g = f
                ELSE IF q < Len(f) /\ p > 0 /\ f[q + 1].start <= f[p].end
                THEN g = Join(f, p, q)
                ELSE g = Splice(f, p, n, q)
<1> DEFINE N == Len(f)
           P == {i \in DOMAIN f : f[i].start < n.start}
           p == Cardinality(P)
           D == {i \in (p + 1)..N : f[i].end <= n.end}
           q == p + Cardinality(D)
           rest == SubSeq(f, p + Cardinality(D) + 1, N)
<1>8. g = IF p > 0 /\ f[p].end >= n.end THEN f
          ELSE IF rest # <<>> /\ p > 0 /\ rest[1].start <= f[p].end
          THEN SubSeq(f, 1, p) \o rest
          ELSE SubSeq(f, 1, p) \o <<n>> \o rest
  BY Zenon DEF InsertBefore
<1>1. /\ N \in Nat /\ DOMAIN f = 1..N /\ f \in Seq(TrueFrames)
      /\ \A i \in 1..N : f[i].start \in Nat /\ f[i].end \in Nat
      /\ \A i, j \in 1..N :
           i < j => f[i].start <= f[j].start /\ f[i].end < f[j].end
  BY ListIs
<1>2. n.start \in Nat /\ n.end \in Nat
  BY FrameIs
<1>3. p \in 0..N /\ P = 1..p
  <2>1. P \in SUBSET ((0 + 1)..N) /\ 0 \in Nat
    BY <1>1
  <2>2. \A i \in P : \A j \in (0 + 1)..N : j < i => j \in P
    BY <1>1, <1>2
  <2>3. p = Cardinality(P)
    OBVIOUS
  <2> HIDE DEF P, p
  <2>5. 0 \in Nat /\ N \in Nat /\ 0 <= N
    BY <1>1
  <2> HIDE DEF N
  <2>4. p \in Nat /\ P = (0 + 1)..(0 + p) /\ 0 + p <= N
    BY <2>1, <2>2, <2>3, <2>5, FirstPart
  <2> QED
    BY <2>4, <2>5
<1>4. \A i \in 1..N : i \in P <=> f[i].start < n.start
  BY <1>1
<1> HIDE DEF P, p
<1> DEFINE d == Cardinality(D)
<1>12. d \in Nat /\ D = (p + 1)..(p + d) /\ p + d <= N
  <2> HIDE DEF q, rest
  <2>1. D \in SUBSET ((p + 1)..N) /\ p \in Nat
    BY <1>3
  <2>2. \A i \in D : \A j \in (p + 1)..N : j < i => j \in D
    BY <1>1, <1>2, <1>3
  <2>3. d = Cardinality(D)
    OBVIOUS
  <2>6. N \in Nat /\ p <= N /\ p \in Nat
    BY <1>1, <1>3
  <2> HIDE DEF D, d, N
  <2> QED
    BY <2>1, <2>2, <2>3, <2>6, FirstPart
<1>13. q = p + d
  OBVIOUS
<1>5. q \in p..N /\ D = (p + 1)..q /\ p \in Nat /\ q \in Nat
  <2> HIDE DEF D, d, N, q, rest
  <2> QED
    BY <1>1, <1>3, <1>12, <1>13
<1>6. \A i \in (p + 1)..N : i \in D <=> f[i].end <= n.end
  OBVIOUS
<1>7. rest = SubSeq(f, q + 1, N)
  OBVIOUS
<1> HIDE DEF D, q, rest
<1>9. Place(f, n, p, q)
  <2>1. p \in Nat /\ q \in Nat
    BY <1>1, <1>3, <1>5
  <2>2. \A i \in 1..p : f[i].start < n.start
    BY <1>1, <1>3, <1>4, <2>1
  <2>3. \A i \in (p + 1)..N : n.start <= f[i].start
    <3> SUFFICES ASSUME NEW i \in (p + 1)..N PROVE n.start <= f[i].start
      OBVIOUS
    <3>1. i \in 1..N /\ i \notin P
      BY <1>1, <1>3, <2>1
    <3> QED
      BY <1>1, <1>2, <1>4, <3>1
  <2>4. \A i \in (p + 1)..q : f[i].end <= n.end
    <3> SUFFICES ASSUME NEW i \in (p + 1)..q PROVE f[i].end <= n.end
      OBVIOUS
    <3>1. i \in (p + 1)..N /\ i \in D
      BY <1>1, <1>5, <2>1
    <3> QED
      BY <1>6, <3>1
  <2>5. \A i \in (q + 1)..N : n.end < f[i].end
    <3> SUFFICES ASSUME NEW i \in (q + 1)..N PROVE n.end < f[i].end
      OBVIOUS
    <3>1. i \in (p + 1)..N /\ i \notin D /\ i \in 1..N
      BY <1>1, <1>5, <2>1
    <3> QED
      BY <1>1, <1>2, <1>6, <3>1
  <2> QED
    BY <1>3, <1>5, <2>2, <2>3, <2>4, <2>5 DEF Place
<1>10. rest # <<>> <=> q < N
  <2> HIDE DEF N
  <2>1. Len(rest) = N - q /\ rest \in Seq(TrueFrames)
    <3>1. N = Len(f)
      BY DEF N
    <3>2. N \in Nat /\ f \in Seq(TrueFrames) /\ q \in Nat /\ q <= N
      BY <1>1, <1>5
    <3> HIDE DEF d
    <3> QED
      BY <1>7, <3>1, <3>2
  <2>2. rest # <<>> <=> Len(rest) # 0
    BY <2>1
  <2> QED
    BY <1>1, <1>5, <2>1, <2>2
<1>11. q < N => rest[1] = f[q + 1]
  BY <1>1, <1>5, <1>7
<1> QED
  <2>1. p \in Nat /\ q \in Nat
    BY <1>1, <1>3, <1>5
  <2>2. \/ p > 0 /\ f[p].end >= n.end /\ g = f
        \/ /\ ~(p > 0 /\ f[p].end >= n.end)
           /\ q < N /\ p > 0 /\ f[q + 1].start <= f[p].end
           /\ g = Join(f, p, q)
        \/ /\ ~(p > 0 /\ f[p].end >= n.end)
           /\ ~(q < N /\ p > 0 /\ f[q + 1].start <= f[p].end)
           /\ g = Splice(f, p, n, q)
    BY <1>7, <1>8, <1>10, <1>11, Zenon DEF Join, Splice
  <2> QED
    BY <1>9, <2>1, <2>2

\* What is left of a frame that was put into a list: bytes of n or of f.
LEMMA PlaceIs ==
    ASSUME NEW f, NEW off, NEW total, IsList(f, off, total), NEW n \in TrueFrames,
           NEW p, NEW q, Place(f, n, p, q)
    PROVE  /\ p \in Nat /\ q \in Nat /\ p <= q /\ q <= Len(f) /\ Len(f) \in Nat
           /\ n.start \in Nat /\ n.end \in Nat
           /\ \A i \in 1..Len(f) : f[i].start \in Nat /\ f[i].end \in Nat
           /\ \A i \in 1..Len(f) : i <= p => f[i].start < n.start
           /\ \A i \in 1..Len(f) : i > p => n.start <= f[i].start
           /\ \A i \in 1..Len(f) : i > p /\ i <= q => f[i].end <= n.end
           /\ \A i \in 1..Len(f) : i > q => n.end < f[i].end
           /\ \A o \in Nat, i \in 1..Len(f) :
                i > p /\ i <= q /\ InFrame(o, f[i]) => InFrame(o, n)
<1>1. p \in Nat /\ q \in Nat /\ p <= q /\ q <= Len(f) /\ Len(f) \in Nat
  BY ListIs DEF Place
<1>2. n.start \in Nat /\ n.end \in Nat
  BY FrameIs
<1>3. \A i \in 1..Len(f) : f[i].start \in Nat /\ f[i].end \in Nat
  BY ListIs
<1>4. \A i \in 1..Len(f) : i <= p => f[i].start < n.start
  BY <1>1 DEF Place
<1>5. \A i \in 1..Len(f) : i > p => n.start <= f[i].start
  BY <1>1 DEF Place
<1>6. \A i \in 1..Len(f) : i > p /\ i <= q => f[i].end <= n.end
  BY <1>1 DEF Place
<1>7. \A i \in 1..Len(f) : i > q => n.end < f[i].end
  BY <1>1 DEF Place
<1>8. \A o \in Nat, i \in 1..Len(f) :
        i > p /\ i <= q /\ InFrame(o, f[i]) => InFrame(o, n)
  BY <1>2, <1>3, <1>5, <1>6 DEF InFrame
<1> QED
  BY <1>1, <1>2, <1>3, <1>4, <1>5, <1>6, <1>7, <1>8

LEMMA JoinKeeps ==
    ASSUME NEW f, NEW off \in Nat, NEW total, IsList(f, off, total),
           NEW n, Fits(n, off, total), NEW p, NEW q, Place(f, n, p, q),
           p > 0, f[p].end < n.end, q < Len(f), f[q + 1].start <= f[p].end,
           NEW g, g = Join(f, p, q)
    PROVE  IsList(g, off, total) /\ Holds(g, f, n, off) /\ Reaches(g, f, n)
<1> DEFINE N == Len(f)
           At(i) == IF i <= p THEN i ELSE i + (q - p)
<1>0. n \in TrueFrames /\ f \in Seq(TrueFrames)
  BY DEF Fits, IsList
<1>1. /\ p \in Nat /\ q \in Nat /\ p <= q /\ q <= N /\ N \in Nat
      /\ n.start \in Nat /\ n.end \in Nat
      /\ \A i \in 1..N : f[i].start \in Nat /\ f[i].end \in Nat
      /\ \A i \in 1..N : i <= p => f[i].start < n.start
      /\ \A i \in 1..N : i > q => n.end < f[i].end
  BY <1>0, PlaceIs
<1>2. \A o \in Nat, i \in 1..N : i > p /\ i <= q /\ InFrame(o, f[i]) => InFrame(o, n)
  BY <1>0, PlaceIs
<1>3. /\ g \in Seq(TrueFrames) /\ Len(g) = N - (q - p)
      /\ \A i \in 1..p : g[i] = f[i]
      /\ \A i \in (p + 1)..Len(g) : g[i] = f[i + (q - p)]
  <2> HIDE DEF At, N
  <2>1. Between(f, p, q)
    BY <1>0 DEF Place, Between
  <2>2. IsJoin(g, f, p, q)
    BY <2>1, Joined
  <2> QED
    BY <2>2 DEF IsJoin, N
<1>4. \A i \in 1..Len(g) : At(i) \in 1..N /\ g[i] = f[At(i)]
  BY <1>1, <1>3
<1>5. \A i, j \in 1..Len(g) : i < j => At(i) < At(j)
  BY <1>1, <1>3
<1>6. \A k \in 1..N : k <= p \/ k > q => \E i \in 1..Len(g) : g[i] = f[k]
  <2> SUFFICES ASSUME NEW k \in 1..N, k <= p \/ k > q
               PROVE  \E i \in 1..Len(g) : g[i] = f[k]
    OBVIOUS
  <2>1. CASE k <= p
    <3>1. k \in 1..Len(g) /\ g[k] = f[k]
      BY <1>1, <1>3, <2>1
    <3> QED
      BY <3>1
  <2>2. CASE k > q
    <3>1. k - (q - p) \in 1..Len(g) /\ g[k - (q - p)] = f[k]
      BY <1>1, <1>3, <2>2
    <3> QED
      BY <3>1
  <2> QED
    BY <2>1, <2>2
<1>7. Len(g) \in 1..N /\ g[Len(g)] = f[N]
  <2>1. Len(g) \in (p + 1)..Len(g) /\ Len(g) + (q - p) = N /\ Len(g) \in 1..N
    BY <1>1, <1>3
  <2> QED
    BY <1>3, <2>1
<1> HIDE DEF At, N
<1>8. IsList(g, off, total)
  <2>1. \A i \in 1..N : f[i].start <= f[i].end /\ off < f[i].end /\ f[i].end <= total
    BY ListIs DEF N
  <2>2. \A i, j \in 1..N : i < j => f[i].start <= f[j].start /\ f[i].end < f[j].end
    BY ListIs DEF N
  <2>3. \A i \in 1..Len(g) :
          g[i].start <= g[i].end /\ off < g[i].end /\ g[i].end <= total
    BY <1>4, <2>1
  <2>4. Ordered(g)
    BY <1>4, <1>5, <2>2 DEF Ordered
  <2> QED
    BY <1>3, <2>3, <2>4 DEF IsList
<1>9. ASSUME NEW o \in Nat, InFrame(o, n) PROVE InList(o, g)
  <2>1. p \in 1..N /\ q + 1 \in 1..N /\ q + 1 > q
    BY <1>1 DEF N
  <2>2. InFrame(o, f[p]) \/ InFrame(o, f[q + 1])
    BY <1>1, <1>9, <2>1 DEF InFrame
  <2>3. PICK k \in {p, q + 1} : InFrame(o, f[k])
    BY <2>2
  <2>4. k \in 1..N /\ (k <= p \/ k > q)
    BY <1>1, <2>1
  <2> QED
    BY <1>6, <2>3, <2>4 DEF InList
<1>10. Holds(g, f, n, off)
  <2>1. ASSUME NEW o \in Nat, InList(o, g) PROVE InList(o, f)
    BY <1>4, <2>1 DEF InList, N
  <2>2. ASSUME NEW o \in Nat, InList(o, f) PROVE InList(o, g)
    <3>1. PICK k \in 1..N : InFrame(o, f[k])
      BY <2>2 DEF InList, N
    <3>2. CASE k <= p \/ k > q
      BY <1>6, <3>1, <3>2 DEF InList
    <3>3. CASE k > p /\ k <= q
      BY <1>2, <1>9, <3>1, <3>3
    <3> QED
      BY <1>1, <3>2, <3>3
  <2> QED
    BY <1>9, <2>1, <2>2 DEF Holds
<1>11. Reaches(g, f, n)
  <2>1. N \in 1..N /\ N > q /\ g # <<>>
    BY <1>1, <1>3, <1>7 DEF N
  <2>2. f[N].end > n.end /\ f[N].end >= f[N].end
    BY <1>1, <2>1
  <2> QED
    BY <1>1, <1>7, <2>1, <2>2 DEF Reaches, N
<1> QED
  BY <1>8, <1>10, <1>11

LEMMA SpliceKeeps ==
    ASSUME NEW f, NEW off \in Nat, NEW total, IsList(f, off, total),
           NEW n, Fits(n, off, total), NEW p, NEW q, Place(f, n, p, q),
           p > 0 => f[p].end < n.end,
           NEW g, IsSplice(g, f, p, n, q)
    PROVE  IsList(g, off, total) /\ Holds(g, f, n, off) /\ Reaches(g, f, n)
<1> DEFINE N == Len(f)
           At(i) == IF i <= p THEN i ELSE (i - 1) + (q - p)
<1>0. n \in TrueFrames /\ f \in Seq(TrueFrames)
  BY DEF Fits, IsList
<1>1. /\ p \in Nat /\ q \in Nat /\ p <= q /\ q <= N /\ N \in Nat
      /\ n.start \in Nat /\ n.end \in Nat
      /\ \A i \in 1..N : f[i].start \in Nat /\ f[i].end \in Nat
      /\ \A i \in 1..N : i <= p => f[i].start < n.start
      /\ \A i \in 1..N : i > p => n.start <= f[i].start
      /\ \A i \in 1..N : i > p /\ i <= q => f[i].end <= n.end
      /\ \A i \in 1..N : i > q => n.end < f[i].end
  BY <1>0, PlaceIs
<1>2. \A o \in Nat, i \in 1..N : i > p /\ i <= q /\ InFrame(o, f[i]) => InFrame(o, n)
  BY <1>0, PlaceIs
<1>3. /\ g \in Seq(TrueFrames) /\ Len(g) = N - (q - p) + 1
      /\ \A i \in 1..p : g[i] = f[i]
      /\ g[p + 1] = n
      /\ \A i \in (p + 2)..Len(g) : g[i] = f[(i - 1) + (q - p)]
  BY DEF IsSplice
<1>4. \A i \in 1..Len(g) : i # p + 1 => At(i) \in 1..N /\ g[i] = f[At(i)]
  <2> SUFFICES ASSUME NEW i \in 1..Len(g), i # p + 1
               PROVE  At(i) \in 1..N /\ g[i] = f[At(i)]
    OBVIOUS
  <2>1. CASE i <= p
    BY <1>1, <1>3, <2>1
  <2>2. CASE i > p + 1
    <3>1. i \in (p + 2)..Len(g) /\ At(i) = (i - 1) + (q - p) /\ At(i) \in 1..N
      BY <1>1, <1>3, <2>2
    <3> QED
      BY <1>3, <3>1
  <2> QED
    BY <1>1, <2>1, <2>2
<1>5. /\ \A i \in 1..Len(g) : i < p + 1 => At(i) <= p
      /\ \A i \in 1..Len(g) : i > p + 1 => At(i) > q
  BY <1>1, <1>3
<1>6. \A i, j \in 1..Len(g) : i < j /\ i # p + 1 /\ j # p + 1 => At(i) < At(j)
  BY <1>1, <1>3
<1>7. \A k \in 1..N : k <= p \/ k > q => \E i \in 1..Len(g) : g[i] = f[k]
  <2> SUFFICES ASSUME NEW k \in 1..N, k <= p \/ k > q
               PROVE  \E i \in 1..Len(g) : g[i] = f[k]
    OBVIOUS
  <2>1. CASE k <= p
    <3>1. k \in 1..Len(g) /\ g[k] = f[k]
      BY <1>1, <1>3, <2>1
    <3> QED
      BY <3>1
  <2>2. CASE k > q
    <3> DEFINE i == (k - (q - p)) + 1
    <3>1. i \in (p + 2)..Len(g) /\ i \in 1..Len(g) /\ (i - 1) + (q - p) = k
      BY <1>1, <1>3, <2>2
    <3> HIDE DEF i
    <3>2. g[i] = f[k]
      BY <1>3, <3>1
    <3> QED
      BY <3>1, <3>2
  <2> QED
    BY <2>1, <2>2
<1>8. p + 1 \in 1..Len(g) /\ Len(g) \in Nat /\ Len(g) >= 1
  BY <1>1, <1>3
<1>9. q < N => Len(g) \in (p + 2)..Len(g) /\ (Len(g) - 1) + (q - p) = N
  BY <1>1, <1>3
<1>10. q = N => Len(g) = p + 1
  BY <1>1, <1>3
<1>11. \A i \in 1..N : i <= p => f[i].end < n.end
  <2> SUFFICES ASSUME NEW i \in 1..N, i <= p PROVE f[i].end < n.end
    OBVIOUS
  <2>1. p \in 1..N /\ f[p].end < n.end /\ (i = p \/ i < p)
    BY <1>1
  <2>2. i < p => f[i].end < f[p].end
    BY <2>1, ListIs
  <2> QED
    BY <1>1, <2>1, <2>2
<1> HIDE DEF At, N
<1>12. IsList(g, off, total)
  <2>1. \A i \in 1..N : f[i].start <= f[i].end /\ off < f[i].end /\ f[i].end <= total
    BY ListIs DEF N
  <2>2. \A i, j \in 1..N : i < j => f[i].start <= f[j].start /\ f[i].end < f[j].end
    BY ListIs DEF N
  <2>3. ASSUME NEW i \in 1..Len(g)
        PROVE  g[i].start <= g[i].end /\ off < g[i].end /\ g[i].end <= total
    <3>1. CASE i = p + 1
      BY <1>3, <3>1 DEF Fits
    <3>2. CASE i # p + 1
      BY <1>4, <2>1, <3>2
    <3> QED
      BY <3>1, <3>2
  <2>4. ASSUME NEW i \in 1..Len(g), NEW j \in 1..Len(g), i < j
        PROVE  g[i].start <= g[j].start /\ g[i].end < g[j].end
    <3>1. CASE i = p + 1
      <4>1. j # p + 1 /\ j > p + 1 /\ g[i] = n
        BY <1>1, <1>3, <2>4, <3>1
      <4>2. At(j) \in 1..N /\ g[j] = f[At(j)] /\ At(j) > q
        BY <1>4, <1>5, <4>1
      <4>3. At(j) > p
        BY <1>1, <4>2
      <4> QED
        BY <1>1, <4>1, <4>2, <4>3
    <3>2. CASE j = p + 1
      <4>1. i # p + 1 /\ i < p + 1 /\ g[j] = n
        BY <1>1, <1>3, <2>4, <3>2
      <4>2. At(i) \in 1..N /\ g[i] = f[At(i)] /\ At(i) <= p
        BY <1>4, <1>5, <4>1
      <4> QED
        BY <1>1, <1>11, <4>1, <4>2
    <3>3. CASE i # p + 1 /\ j # p + 1
      <4>1. /\ At(i) \in 1..N /\ g[i] = f[At(i)] /\ At(j) \in 1..N
            /\ g[j] = f[At(j)] /\ At(i) < At(j)
        BY <1>4, <1>6, <2>4, <3>3
      <4> QED
        BY <2>2, <4>1
    <3> QED
      BY <3>1, <3>2, <3>3
  <2>5. Ordered(g)
    BY <2>4 DEF Ordered
  <2> QED
    BY <1>3, <2>3, <2>5 DEF IsList
<1>13. Holds(g, f, n, off)
  <2>1. ASSUME NEW o \in Nat, InList(o, g) PROVE InList(o, f) \/ InFrame(o, n)
    <3>1. PICK i \in 1..Len(g) : InFrame(o, g[i])
      BY <2>1 DEF InList
    <3>2. CASE i = p + 1
      BY <1>3, <3>1, <3>2
    <3>3. CASE i # p + 1
      BY <1>4, <3>1, <3>3 DEF InList, N
    <3> QED
      BY <3>2, <3>3
  <2>2. ASSUME NEW o \in Nat, InFrame(o, n) PROVE InList(o, g)
    BY <1>3, <1>8, <2>2 DEF InList
  <2>3. ASSUME NEW o \in Nat, InList(o, f) PROVE InList(o, g)
    <3>1. PICK k \in 1..N : InFrame(o, f[k])
      BY <2>3 DEF InList, N
    <3>2. CASE k <= p \/ k > q
      BY <1>7, <3>1, <3>2 DEF InList
    <3>3. CASE k > p /\ k <= q
      BY <1>2, <2>2, <3>1, <3>3
    <3> QED
      BY <1>1, <3>2, <3>3
  <2> QED
    BY <2>1, <2>2, <2>3 DEF Holds
<1>14. Reaches(g, f, n)
  <2>1. g # <<>>
    BY <1>8
  <2>2. CASE q < N
    <3>1. g[Len(g)] = f[N]
      BY <1>3, <1>9, <2>2
    <3>2. N \in 1..N /\ N > q
      BY <1>1, <2>2
    <3>3. f[N].end > n.end /\ f[N].end >= f[N].end
      BY <1>1, <3>2
    <3> QED
      BY <1>1, <2>1, <3>1, <3>2, <3>3 DEF Reaches, N
  <2>3. CASE q = N
    <3>1. g[Len(g)] = n
      BY <1>3, <1>10, <2>3
    <3>2. f # <<>> => N \in 1..N
      BY <1>0, <1>1 DEF N
    <3>3. f # <<>> => f[N].end <= n.end
      BY <1>1, <1>11, <2>3, <3>2
    <3> QED
      BY <1>1, <2>1, <3>1, <3>3, <3>2 DEF Reaches, N
  <2> QED
    BY <1>1, <2>2, <2>3
<1> QED
  BY <1>12, <1>13, <1>14

\* What an insertion of n into the list f yields.
Inserted(g, f, n, off, total) ==
    /\ IsList(g, off, total)
    /\ Holds(g, f, n, off)
    /\ off < n.end => Reaches(g, f, n)
    /\ off >= n.end => g = f

LEMMA InsertBeforeKeeps ==
    ASSUME NEW f, NEW off \in Nat, NEW total, IsList(f, off, total),
           NEW n, Fits(n, off, total), f # <<>>, NEW g, g = InsertBefore(f, n)
    PROVE  IsList(g, off, total) /\ Holds(g, f, n, off) /\ Reaches(g, f, n)
<1>0. n \in TrueFrames
  BY DEF Fits
<1>1. PICK p \in Nat, q \in Nat :
        /\ Place(f, n, p, q)
        /\ IF p > 0 /\ f[p].end >= n.end THEN g = f
           ELSE IF q < Len(f) /\ p > 0 /\ f[q + 1].start <= f[p].end
           THEN g = Join(f, p, q)
           ELSE g = Splice(f, p, n, q)
  BY <1>0, InsertBeforeIs
<1>2. /\ p <= Len(f) /\ Len(f) \in Nat /\ n.start \in Nat /\ n.end \in Nat
      /\ \A i \in 1..Len(f) : f[i].start \in Nat /\ f[i].end \in Nat
      /\ \A i \in 1..Len(f) : i <= p => f[i].start < n.start
  BY <1>0, <1>1, PlaceIs
<1>3. CASE p > 0 /\ f[p].end >= n.end
  <2>1. g = f
    BY <1>1, <1>3
  <2>2. p \in 1..Len(f) /\ Len(f) \in 1..Len(f)
    BY <1>2, <1>3
  <2>3. ASSUME NEW o \in Nat, InFrame(o, n) PROVE InFrame(o, f[p])
    BY <1>2, <1>3, <2>2, <2>3 DEF InFrame
  <2>4. Holds(g, f, n, off)
    BY <2>1, <2>2, <2>3 DEF Holds, InList
  <2>5. f[Len(f)].end >= f[p].end
    <3>1. p = Len(f) \/ p < Len(f)
      BY <1>2
    <3>2. p < Len(f) => f[p].end < f[Len(f)].end
      BY <2>2, ListIs
    <3> QED
      BY <1>2, <2>2, <3>1, <3>2
  <2>6. Reaches(g, f, n)
    BY <1>2, <1>3, <2>1, <2>2, <2>5 DEF Reaches
  <2> QED
    BY <2>1, <2>4, <2>6
<1>4. CASE ~(p > 0 /\ f[p].end >= n.end)
  <2>1. p > 0 => f[p].end < n.end
    BY <1>2, <1>4
  <2>2. CASE q < Len(f) /\ p > 0 /\ f[q + 1].start <= f[p].end
    <3>1. g = Join(f, p, q)
      BY <1>1, <1>4, <2>2
    <3> QED
      BY <1>1, <2>1, <2>2, <3>1, JoinKeeps
  <2>3. CASE ~(q < Len(f) /\ p > 0 /\ f[q + 1].start <= f[p].end)
    <3>1. g = Splice(f, p, n, q)
      BY <1>1, <1>4, <2>3
    <3>2. Between(f, p, q)
      BY <1>1 DEF Place, Between, IsList
    <3>3. IsSplice(g, f, p, n, q)
      BY <1>0, <3>1, <3>2, Spliced
    <3> QED
      BY <1>1, <2>1, <3>3, SpliceKeeps
  <2> QED
    BY <2>2, <2>3
<1> QED
  BY <1>3, <1>4

LEMMA AppendedKeeps ==
    ASSUME NEW f, NEW off \in Nat, NEW total, IsList(f, off, total),
           NEW n, Fits(n, off, total),
           f # <<>> => f[Len(f)].start < n.start /\ f[Len(f)].end < n.end,
           NEW g, g = Append(f, n)
    PROVE  IsList(g, off, total) /\ Holds(g, f, n, off) /\ Reaches(g, f, n)
<1> DEFINE N == Len(f)
<1>0. n \in TrueFrames /\ n.start \in Nat /\ n.end \in Nat
  BY FrameIs DEF Fits
<1>1. /\ f \in Seq(TrueFrames) /\ N \in Nat
      /\ \A i \in 1..N : f[i].start \in Nat
      /\ \A i, j \in 1..N : i < j => f[i].start <= f[j].start
  BY ListIs
<1>2. N > 0 => f # <<>>
  OBVIOUS
<1>3. IsSplice(g, f, N, n, N)
  <2>1. /\ g \in Seq(TrueFrames) /\ Len(g) = N + 1 /\ g[N + 1] = n
        /\ \A i \in 1..N : g[i] = f[i]
    BY <1>0, <1>1
  <2> QED
    BY <1>1, <2>1 DEF IsSplice
<1>4. \A i \in 1..N : f[i].start < n.start
  <2> SUFFICES ASSUME NEW i \in 1..N PROVE f[i].start < n.start
    OBVIOUS
  <2>1. f[N].start < n.start /\ N \in 1..N /\ (i = N \/ i < N)
    BY <1>1, <1>2
  <2>2. f[i].start <= f[N].start
    BY <1>1, <2>1
  <2> QED
    BY <1>0, <1>1, <2>1, <2>2
<1>5. Place(f, n, N, N)
  BY <1>1, <1>4 DEF Place
<1>6. N > 0 => f[N].end < n.end
  BY <1>2
<1> HIDE DEF N
<1> QED
  BY <1>3, <1>5, <1>6, SpliceKeeps

LEMMA InsertKeeps ==
    ASSUME offset \in Nat, NEW total, IsList(frames, offset, total),
           NEW n, n \in TrueFrames, n.start <= n.end, n.end <= total,
           NEW g, g = ossl_sframe_list_insert(n)
    PROVE  Inserted(g, frames, n, offset, total)
<1> DEFINE N == Len(frames)
<1>0. n.start \in Nat /\ n.end \in Nat
  BY FrameIs
<1>1. /\ frames \in Seq(TrueFrames) /\ N \in Nat
      /\ \A i \in 1..N : frames[i].start \in Nat /\ frames[i].end \in Nat
  BY ListIs
<1>2. frames # <<>> => N \in 1..N
  BY <1>1
<1>3. CASE offset >= n.end
  <2>1. g = frames
    BY <1>3 DEF ossl_sframe_list_insert
  <2>2. \A o \in Nat : o >= offset => ~InFrame(o, n)
    BY <1>0, <1>3 DEF InFrame
  <2> QED
    BY <1>0, <1>3, <2>1, <2>2 DEF Inserted, Holds
<1>4. CASE offset < n.end
  <2>1. Fits(n, offset, total) /\ ~(offset >= n.end)
    BY <1>0, <1>4 DEF Fits
  <2>2. CASE frames = <<>>
    <3>1. g = Append(frames, n)
      BY <2>1, <2>2 DEF ossl_sframe_list_insert
    <3> QED
      BY <2>1, <2>2, <3>1, AppendedKeeps DEF Inserted
  <2>3. CASE frames # <<>> /\ frames[N].start < n.start /\ frames[N].end >= n.end
    <3>1. g = frames
      BY <2>1, <2>3 DEF ossl_sframe_list_insert
    <3>2. \A o \in Nat : InFrame(o, n) => InFrame(o, frames[N])
      BY <1>0, <1>1, <1>2, <2>3 DEF InFrame
    <3>3. Holds(g, frames, n, offset)
      BY <1>2, <2>3, <3>1, <3>2 DEF Holds, InList
    <3>4. Reaches(g, frames, n)
      BY <1>1, <1>2, <2>3, <3>1 DEF Reaches
    <3> QED
      BY <2>1, <3>1, <3>3, <3>4 DEF Inserted
  <2>4. CASE frames # <<>> /\ frames[N].start < n.start /\ ~(frames[N].end >= n.end)
    <3>1. g = Append(frames, n)
      BY <2>1, <2>4 DEF ossl_sframe_list_insert
    <3>2. frames[N].end < n.end
      BY <1>0, <1>1, <1>2, <2>4
    <3> QED
      BY <2>1, <2>4, <3>1, <3>2, AppendedKeeps DEF Inserted
  <2>5. CASE frames # <<>> /\ ~(frames[N].start < n.start)
    <3>1. g = InsertBefore(frames, n)
      BY <2>1, <2>5 DEF ossl_sframe_list_insert
    <3> QED
      BY <2>1, <2>5, <3>1, InsertBeforeKeeps DEF Inserted
  <2> QED
    BY <2>2, <2>3, <2>4, <2>5
<1> QED
  BY <1>0, <1>3, <1>4

(***************************************************************************)
(* What can be read                                                        *)
(***************************************************************************)

\* A walk over a list from its head stops at the first frame it does not take.
LEMMA Walk ==
    ASSUME NEW n \in Nat, NEW T
    PROVE  \E k \in 0..n : (\A i \in 1..k : i \in T) /\ (k < n => k + 1 \notin T)
<1> DEFINE U == {i \in 1..n : i \notin T}
<1>1. CASE U = {}
  <2>1. \A i \in 1..n : i \in T
    BY <1>1
  <2>2. n \in 0..n
    OBVIOUS
  <2> QED
    BY <2>1, <2>2
<1>2. CASE U # {}
  <2>1. U \in SUBSET Nat
    OBVIOUS
  <2>2. PICK m \in U : \A i \in U : m <= i
    BY <1>2, <2>1, LeastElement
  <2>3. m \in 1..n /\ m \notin T
    OBVIOUS
  <2>4. ASSUME NEW i \in 1..(m - 1) PROVE i \in T
    BY <2>2, <2>3
  <2>5. m - 1 \in 0..n /\ (m - 1) + 1 = m
    BY <2>3
  <2> QED
    BY <2>3, <2>4, <2>5
<1> QED
  BY <1>1, <1>2

LEMMA ReadableIs ==
    ASSUME NEW f, NEW off, Len(f) \in Nat, NEW k, k = Readable(f, off)
    PROVE  /\ k \in 0..Len(f)
           /\ \A i \in 1..k : Peeks(f, off, i)
           /\ k < Len(f) => ~Peeks(f, off, k + 1)
<1> DEFINE T == {i \in 1..Len(f) : Peeks(f, off, i)}
           P(x) == /\ \A i \in 1..x : Peeks(f, off, i)
                   /\ x < Len(f) => ~Peeks(f, off, x + 1)
<1>1. PICK x \in 0..Len(f) :
        (\A i \in 1..x : i \in T) /\ (x < Len(f) => x + 1 \notin T)
  <2> HIDE DEF T
  <2> QED
    BY Walk
<1>2. P(x)
  <2>1. x < Len(f) => x + 1 \in 1..Len(f)
    OBVIOUS
  <2> QED
    BY <1>1, <2>1
<1>3. k = CHOOSE y \in 0..Len(f) : P(y)
  BY DEF Readable
<1> HIDE DEF P
<1>4. k \in 0..Len(f) /\ P(k)
  BY <1>2, <1>3
<1> QED
  BY <1>4 DEF P

\* Where the walk over the list f stands that has returned k frames.
Reads(f, off, k) ==
    /\ k \in 0..Len(f)
    /\ \A i \in 1..k : f[i].start <= PeekStart(f, off, i)
    /\ k < Len(f) => f[k + 1].start > PeekStart(f, off, k + 1)

LEMMA PeekStartIs ==
    ASSUME NEW f, NEW off \in Nat, NEW total, IsList(f, off, total)
    PROVE  /\ PeekStart(f, off, 1) = off
           /\ \A i \in 1..Len(f) : PeekStart(f, off, i + 1) = f[i].end
           /\ \A i \in 1..Len(f) : PeekStart(f, off, i) \in Nat
           /\ \A i \in 1..Len(f) : PeekStart(f, off, i) < f[i].end
<1>1. PeekStart(f, off, 1) = off
  BY DEF PeekStart
<1>2. Len(f) \in Nat
  BY ListIs
<1>3. ASSUME NEW i \in 1..Len(f) PROVE PeekStart(f, off, i + 1) = f[i].end
  <2>1. i + 1 # 1 /\ (i + 1) - 1 = i
    BY <1>2
  <2> QED
    BY <2>1 DEF PeekStart
<1>4. ASSUME NEW i \in 1..Len(f)
      PROVE  PeekStart(f, off, i) \in Nat /\ PeekStart(f, off, i) < f[i].end
  <2>1. CASE i = 1
    BY <1>1, <2>1, ListIs
  <2>2. CASE i # 1
    <3> DEFINE j == i - 1
    <3>1. j \in 1..Len(f) /\ j < i /\ j + 1 = i
      BY <1>2, <2>2
    <3> HIDE DEF j
    <3>2. PeekStart(f, off, i) = f[j].end
      BY <1>3, <3>1
    <3>3. f[j].end \in Nat /\ f[j].end < f[i].end
      BY <3>1, ListIs
    <3> QED
      BY <3>2, <3>3
  <2> QED
    BY <2>1, <2>2
<1> QED
  BY <1>1, <1>3, <1>4

LEMMA ReadableReads ==
    ASSUME NEW f, NEW off \in Nat, NEW total, IsList(f, off, total),
           NEW k, k = Readable(f, off)
    PROVE  Reads(f, off, k)
<1>1. Len(f) \in Nat /\ \A i \in 1..Len(f) : f[i].start \in Nat
  BY ListIs
<1>2. /\ k \in 0..Len(f)
      /\ \A i \in 1..k : Peeks(f, off, i)
      /\ k < Len(f) => ~Peeks(f, off, k + 1)
  BY <1>1, ReadableIs
<1>3. \A i \in 1..k : f[i].start <= PeekStart(f, off, i)
  BY <1>2 DEF Peeks
<1>4. k < Len(f) => f[k + 1].start > PeekStart(f, off, k + 1)
  <2> SUFFICES ASSUME k < Len(f)
               PROVE  f[k + 1].start > PeekStart(f, off, k + 1)
    OBVIOUS
  <2>1. k + 1 \in 1..Len(f) /\ ~Peeks(f, off, k + 1)
    BY <1>1, <1>2
  <2>2. /\ PeekStart(f, off, k + 1) \in Nat /\ f[k + 1].start \in Nat
        /\ PeekStart(f, off, k + 1) < f[k + 1].end
    BY <1>1, <2>1, PeekStartIs
  <2> QED
    BY <2>1, <2>2 DEF Peeks
<1> QED
  BY <1>2, <1>3, <1>4 DEF Reads

\* The frame in which the walk finds byte o.
LEMMA FoundIn ==
    ASSUME NEW f, NEW off \in Nat, NEW total, IsList(f, off, total),
           NEW k, Reads(f, off, k), NEW o \in Nat, off <= o,
           o < PeekStart(f, off, k + 1)
    PROVE  \E i \in 1..k : PeekStart(f, off, i) <= o /\ o < f[i].end
<1> DEFINE T == {i \in 1..k : o < f[i].end}
<1>1. k \in 0..Len(f) /\ Len(f) \in Nat /\ k \in Nat
  BY ListIs DEF Reads
<1>2. k # 0
  <2> SUFFICES ASSUME k = 0 PROVE FALSE
    OBVIOUS
  <2>1. PeekStart(f, off, k + 1) = off
    BY DEF PeekStart
  <2> QED
    BY <2>1
<1>3. k \in 1..Len(f) /\ k \in 1..k
  BY <1>1, <1>2
<1>4. k \in T
  BY <1>3, PeekStartIs
<1>5. T \in SUBSET Nat /\ T # {}
  BY <1>1, <1>4
<1>6. PICK i \in T : \A j \in T : i <= j
  BY <1>5, LeastElement
<1>7. i \in 1..k /\ o < f[i].end /\ i \in Nat
  BY <1>1, <1>6
<1>8. PeekStart(f, off, i) <= o
  <2>1. CASE i = 1
    BY <2>1, PeekStartIs
  <2>2. CASE i # 1
    <3> DEFINE j == i - 1
    <3>1. j \in 1..k /\ j < i /\ j + 1 = i /\ j \in 1..Len(f)
      BY <1>1, <1>7, <2>2
    <3> HIDE DEF j
    <3>2. PeekStart(f, off, i) = f[j].end /\ f[j].end \in Nat
      BY <3>1, PeekStartIs, ListIs
    <3>3. j \notin T
      BY <1>1, <1>6, <1>7, <3>1
    <3> QED
      BY <3>1, <3>2, <3>3
  <2> QED
    BY <2>1, <2>2
<1> QED
  BY <1>7, <1>8

\* Everything received without a gap can be read, up to the first byte that is
\* missing; there is no other frame only if that is where the list ends.
ReadTo(f, off, total, e) ==
    /\ e \in Nat /\ off <= e /\ e <= total
    /\ \A o \in Nat : off <= o /\ o < e => InList(o, f)
    /\ ~InList(e, f)

LEMMA ReadableEndIs ==
    ASSUME NEW f, NEW off \in Nat, NEW total \in Nat, off <= total,
           IsList(f, off, total), NEW k, Reads(f, off, k),
           NEW e, e = PeekStart(f, off, k + 1)
    PROVE  /\ ReadTo(f, off, total, e)
           /\ k = Len(f) => e = IF f = <<>> THEN off ELSE f[Len(f)].end
           /\ k < Len(f) => f # <<>> /\ e < f[Len(f)].end
<1> DEFINE N == Len(f)
<1>1. /\ k \in 0..N /\ N \in Nat /\ k \in Nat /\ DOMAIN f = 1..N
      /\ f \in Seq(TrueFrames)
  BY ListIs DEF Reads
<1>2. /\ \A i \in 1..N : /\ f[i].start \in Nat /\ f[i].end \in Nat
                         /\ off < f[i].end /\ f[i].end <= total
                         /\ f[i].start <= f[i].end
      /\ \A i, j \in 1..N : i < j => f[i].start <= f[j].start /\ f[i].end < f[j].end
  BY ListIs
<1>3. k = 0 => e = off
  BY <1>1 DEF PeekStart
<1>4. k # 0 => k \in 1..N /\ e = f[k].end
  <2> SUFFICES ASSUME k # 0 PROVE k \in 1..N /\ e = f[k].end
    OBVIOUS
  <2>1. k \in 1..Len(f)
    BY <1>1
  <2> HIDE DEF N
  <2>2. \A i \in 1..Len(f) : PeekStart(f, off, i + 1) = f[i].end
    BY PeekStartIs
  <2> QED
    BY <2>1, <2>2 DEF N
<1>5. e \in Nat /\ off <= e /\ e <= total
  <2>1. CASE k = 0
    BY <1>3, <2>1
  <2>2. CASE k # 0
    <3>1. f[k].end \in Nat /\ off < f[k].end /\ f[k].end <= total
      BY <1>2, <1>4, <2>2
    <3> QED
      BY <1>4, <2>2, <3>1
  <2> QED
    BY <2>1, <2>2
<1>6. ASSUME NEW o \in Nat, off <= o, o < e PROVE InList(o, f)
  <2>1. PICK i \in 1..k : PeekStart(f, off, i) <= o /\ o < f[i].end
    BY <1>6, FoundIn
  <2>2. i \in 1..N /\ f[i].start <= PeekStart(f, off, i)
    BY <1>1, <2>1 DEF Reads
  <2>3. PeekStart(f, off, i) \in Nat
    BY <2>2, PeekStartIs
  <2>4. InFrame(o, f[i])
    BY <1>2, <2>1, <2>2, <2>3 DEF InFrame
  <2> QED
    BY <2>2, <2>4 DEF InList
<1>7. ASSUME k < N PROVE k + 1 \in 1..N /\ f[k + 1].start > e
  BY <1>1, <1>7 DEF Reads
<1>8. ~InList(e, f)
  <2> SUFFICES ASSUME NEW i \in 1..N, InFrame(e, f[i]) PROVE FALSE
    BY DEF InList
  <2>1. CASE i <= k
    <3>1. k \in 1..N /\ e = f[k].end /\ (i = k \/ i < k)
      BY <1>1, <1>4, <2>1
    <3>2. f[i].end <= f[k].end
      BY <1>2, <3>1
    <3> QED
      BY <1>2, <3>1, <3>2 DEF InFrame
  <2>2. CASE i > k
    <3>1. k < N /\ (i = k + 1 \/ k + 1 < i)
      BY <1>1, <2>2
    <3>2. k + 1 \in 1..N /\ f[k + 1].start > e
      BY <1>7, <3>1
    <3>3. f[i].start >= f[k + 1].start /\ f[i].start \in Nat /\ f[k + 1].start \in Nat
      BY <1>2, <3>1, <3>2
    <3>4. f[i].start <= e
      BY DEF InFrame
    <3> QED
      BY <1>5, <3>2, <3>3, <3>4
  <2> QED
    BY <1>1, <2>1, <2>2
<1>9. ASSUME k = N PROVE e = IF f = <<>> THEN off ELSE f[N].end
  <2>1. f = <<>> <=> N = 0
    BY <1>1
  <2> QED
    BY <1>1, <1>3, <1>4, <1>9, <2>1
<1>10. ASSUME k < N PROVE f # <<>> /\ e < f[N].end
  <2>1. k + 1 \in 1..N /\ f[k + 1].start > e /\ N \in 1..N
    BY <1>1, <1>7, <1>10
  <2>2. f[k + 1].end <= f[N].end
    <3>5. k \in Nat /\ N \in Nat
      BY <1>1
    <3>1. k + 1 = N \/ k + 1 < N
      <4> HIDE DEF N
      <4> QED
        BY <1>10, <3>5
    <3>2. f[N].end \in Nat
      BY <1>2, <2>1
    <3> HIDE DEF N
    <3>3. k + 1 < N => f[k + 1].end < f[N].end
      BY <1>2, <2>1
    <3>4. f[k + 1].end \in Nat
      BY <1>2, <2>1
    <3> QED
      BY <3>1, <3>2, <3>3, <3>4
  <2> QED
    BY <1>1, <1>2, <1>5, <2>1, <2>2
<1>11. ReadTo(f, off, total, e)
  BY <1>5, <1>6, <1>8 DEF ReadTo
<1> QED
  BY <1>9, <1>10, <1>11

\* ossl_sframe_list_drop_frames leaves everything that was not read.
LEMMA DropKeeps ==
    ASSUME NEW f, NEW off \in Nat, NEW total, IsList(f, off, total),
           NEW to \in Nat, NEW h, h = ossl_sframe_list_drop_frames(f, to)
    PROVE  /\ IsList(h, to, total)
           /\ \A o \in Nat : o >= to => (InList(o, h) <=> InList(o, f))
           /\ h = <<>> => f = <<>> \/ f[Len(f)].end <= to
           /\ h # <<>> => f # <<>> /\ h[Len(h)].end = f[Len(f)].end
<1> DEFINE N == Len(f)
           P(x) == /\ \A i \in 1..x : f[i].end <= to
                   /\ x < N => f[x + 1].end > to
           d == CHOOSE x \in 0..N : P(x)
<1>1. N \in Nat /\ f \in Seq(TrueFrames)
  BY ListIs
<1>2. \A i \in 1..N : f[i].start \in Nat /\ f[i].end \in Nat
  BY ListIs
<1>3. \A i, j \in 1..N : i < j => f[i].start <= f[j].start /\ f[i].end < f[j].end
  BY ListIs
<1>12. \A i \in 1..N : f[i].start <= f[i].end /\ f[i].end <= total
  BY ListIs
<1>4. \E x \in 0..N : P(x)
  <2> DEFINE T == {i \in 1..N : f[i].end <= to}
  <2>1. PICK x \in 0..N : (\A i \in 1..x : i \in T) /\ (x < N => x + 1 \notin T)
    <3> HIDE DEF T, N
    <3> QED
      BY <1>1, Walk
  <2>2. x < N => x + 1 \in 1..N
    BY <1>1
  <2> QED
    BY <1>2, <2>1, <2>2
<1>5. h = SubSeq(f, d + 1, N)
  BY DEF ossl_sframe_list_drop_frames
<1> HIDE DEF P
<1>6. d \in 0..N /\ P(d)
  BY <1>4
<1> HIDE DEF d, N
<1>7. /\ d \in Nat /\ d <= N
      /\ \A i \in 1..N : i <= d => f[i].end <= to
      /\ d < N => f[d + 1].end > to
  BY <1>1, <1>6 DEF P
<1>8. /\ h \in Seq(TrueFrames) /\ Len(h) = N - d
      /\ \A i \in 1..Len(h) : h[i] = f[i + d]
  <2>1. N = Len(f)
    BY DEF N
  <2> QED
    BY <1>1, <1>5, <1>7, <2>1
<1>9. \A i \in 1..Len(h) : i + d \in 1..N /\ h[i] = f[i + d] /\ i + d > d
  BY <1>1, <1>7, <1>8
<1>10. \A i \in 1..N : i > d => f[i].end > to
  <2> SUFFICES ASSUME NEW i \in 1..N, i > d PROVE f[i].end > to
    OBVIOUS
  <2>1. d < N /\ d + 1 \in 1..N /\ (i = d + 1 \/ d + 1 < i)
    BY <1>1, <1>7
  <2>2. f[d + 1].end > to /\ f[d + 1].end \in Nat /\ f[i].end \in Nat
    BY <1>2, <1>7, <2>1
  <2>3. d + 1 < i => f[d + 1].end < f[i].end
    BY <1>3, <2>1
  <2> QED
    BY <2>1, <2>2, <2>3
<1>11. IsList(h, to, total)
  <2>1. ASSUME NEW i \in 1..Len(h)
        PROVE  h[i].start <= h[i].end /\ to < h[i].end /\ h[i].end <= total
    <3>1. i + d \in 1..N /\ h[i] = f[i + d] /\ i + d > d
      BY <1>9
    <3> QED
      BY <1>2, <1>10, <1>12, <3>1
  <2>2. ASSUME NEW i \in 1..Len(h), NEW j \in 1..Len(h), i < j
        PROVE  h[i].start <= h[j].start /\ h[i].end < h[j].end
    <3>1. /\ i + d \in 1..N /\ h[i] = f[i + d] /\ j + d \in 1..N /\ h[j] = f[j + d]
          /\ i + d < j + d
      BY <1>7, <1>8, <1>9, <2>2
    <3> QED
      BY <1>3, <3>1
  <2>3. Ordered(h)
    BY <2>2 DEF Ordered
  <2> QED
    BY <1>8, <2>1, <2>3 DEF IsList
<1>13. ASSUME NEW o \in Nat, o >= to PROVE InList(o, h) <=> InList(o, f)
  <2>1. ASSUME InList(o, h) PROVE InList(o, f)
    BY <1>9, <2>1 DEF InList, N
  <2>2. ASSUME InList(o, f) PROVE InList(o, h)
    <3>1. PICK i \in 1..N : InFrame(o, f[i])
      BY <2>2 DEF InList, N
    <3>2. i > d
      <4>1. CASE i <= d
        <5>1. f[i].end <= to /\ f[i].end \in Nat /\ o < f[i].end
          BY <1>2, <1>7, <3>1, <4>1 DEF InFrame
        <5> QED
          BY <1>13, <5>1
      <4> QED
        BY <1>7, <4>1
    <3> DEFINE j == i - d
    <3>3. j \in 1..Len(h) /\ j + d = i
      BY <1>1, <1>7, <1>8, <3>2
    <3> HIDE DEF j
    <3>4. h[j] = f[i]
      BY <1>8, <3>3
    <3> QED
      BY <3>1, <3>3, <3>4 DEF InList
  <2> QED
    BY <2>1, <2>2
<1>14. h = <<>> <=> d = N
  <2>1. h = <<>> <=> Len(h) = 0
    BY <1>8
  <2> QED
    BY <1>1, <1>7, <1>8, <2>1
<1>15. f = <<>> <=> N = 0
  BY <1>1 DEF N
<1>16. ASSUME h = <<>> PROVE f = <<>> \/ f[N].end <= to
  BY <1>1, <1>7, <1>14, <1>15, <1>16
<1>17. ASSUME h # <<>> PROVE f # <<>> /\ h[Len(h)].end = f[N].end
  <2>1. Len(h) \in 1..Len(h) /\ Len(h) + d = N /\ N # 0
    BY <1>1, <1>7, <1>8, <1>14, <1>17
  <2> QED
    BY <1>8, <1>15, <2>1
<1> QED
  BY <1>11, <1>13, <1>16, <1>17 DEF N

\* A list of bytes in order is the first bytes of the stream.
Numbers(n) == [i \in 1..n |-> i]
\* Bytes from offset a on.
Count(s, a, n) == s \in Seq(Nat) /\ Len(s) = n /\ \A i \in 1..n : s[i] = a + i

LEMMA CountIs ==
    ASSUME NEW u, NEW n \in Nat, Count(u, 0, n)
    PROVE  u = Numbers(n)
<1>1. u = [i \in 1..Len(u) |-> u[i]]
  BY DEF Count
<1> QED
  BY <1>1 DEF Numbers, Count

LEMMA CountOn ==
    ASSUME NEW a \in Nat, NEW b \in Nat, NEW s, Count(s, 0, a),
           NEW t, Count(t, a, b), NEW u, u = s \o t
    PROVE  Count(u, 0, a + b)
<1>0. s \in Seq(Nat) /\ t \in Seq(Nat)
  BY DEF Count
<1>1. /\ u \in Seq(Nat) /\ Len(u) = Len(s) + Len(t)
      /\ \A i \in 1..Len(s) : u[i] = s[i]
      /\ \A i \in 1..Len(t) : u[Len(s) + i] = t[i]
  BY <1>0, Concatenated
<1>2. /\ Len(s) = a /\ Len(t) = b
      /\ \A i \in 1..a : s[i] = 0 + i
      /\ \A i \in 1..b : t[i] = a + i
  BY DEF Count
<1>3. ASSUME NEW i \in 1..(a + b) PROVE u[i] = i
  <2>1. CASE i <= a
    BY <1>1, <1>2, <2>1
  <2>2. CASE i > a
    <3> DEFINE j == i - a
    <3>1. j \in 1..b /\ a + j = i
      BY <2>2
    <3> HIDE DEF j
    <3> QED
      BY <1>1, <1>2, <3>1
  <2>3. i <= a \/ i > a
    OBVIOUS
  <2> QED
    BY <2>1, <2>2, <2>3, Zenon
<1> QED
  BY <1>1, <1>2, <1>3 DEF Count

LEMMA NumbersGrow ==
    ASSUME NEW a \in Nat, NEW b \in Nat, NEW s, s = Numbers(a),
           NEW t, t = [j \in 1..b |-> a + j], NEW u, u = s \o t
    PROVE  u = Numbers(a + b)
<1>1. Count(s, 0, a)
  BY DEF Numbers, Count
<1>2. Count(t, a, b)
  BY DEF Count
<1>3. Count(u, 0, a + b)
  BY <1>1, <1>2, CountOn, Zenon
<1>4. a + b \in Nat
  OBVIOUS
<1> QED
  BY <1>3, <1>4, CountIs, Zenon

LEMMA NumbersTo ==
    ASSUME NEW a \in Nat, NEW d \in Nat, NEW s, s = Numbers(a),
           NEW t, Count(t, a, d)
    PROVE  s \o t = Numbers(a + d)
<1> DEFINE u == s \o t
<1>1. a + d \in Nat /\ u = s \o t
  OBVIOUS
<1>2. Count(s, 0, a)
  BY DEF Numbers, Count
<1> HIDE DEF u
<1>3. Count(u, 0, a + d)
  BY <1>1, <1>2, CountOn, Zenon
<1>4. u = Numbers(a + d)
  BY <1>1, <1>3, CountIs
<1> QED
  BY <1>1, <1>4

\* The ring buffer r holds byte o, and every byte from off on of the frame f if
\* f was moved to it.
Stored(r, o) == o < r.head_offset /\ r.start[o % r.alloc] = ByteAt(o)
Backed(f, r, off) ==
    ~f.in_pkt => \A o \in Nat : off <= o /\ InFrame(o, f) => Stored(r, o)

\* What is read are the next bytes of the stream.
LEMMA BytesReadAre ==
    ASSUME offset \in Nat, NEW total, IsList(frames, offset, total),
           \A i \in 1..Len(frames) : Backed(frames[i], rbuf, offset),
           NEW k, k = Readable(frames, offset), Reads(frames, offset, k),
           NEW to \in Nat, offset <= to, to <= PeekStart(frames, offset, k + 1)
    PROVE  BytesRead(offset, to) = [j \in 1..(to - offset) |-> offset + j]
<1> DEFINE In(o) == CHOOSE i \in 1..k :
                      PeekStart(frames, offset, i) <= o /\ o < frames[i].end
<1>1. BytesRead(offset, to)
        = [j \in 1..(to - offset) |->
             ByteOf(In(offset + j - 1), offset + j - 1)]
  BY DEF BytesRead
<1>2. k \in 0..Len(frames) /\ Len(frames) \in Nat
  BY ListIs DEF Reads
<1>3. k = 0 => PeekStart(frames, offset, k + 1) = offset
  BY DEF PeekStart
<1>4. k # 0 => PeekStart(frames, offset, k + 1) \in Nat
  <2> SUFFICES ASSUME k # 0 PROVE PeekStart(frames, offset, k + 1) \in Nat
    OBVIOUS
  <2>1. k \in 1..Len(frames)
    BY <1>2
  <2>2. PeekStart(frames, offset, k + 1) = frames[k].end
    BY <2>1, PeekStartIs
  <2> QED
    BY <2>1, <2>2, ListIs
<1>5. ASSUME NEW o \in Nat, offset <= o, o < to PROVE ByteOf(In(o), o) = o + 1
  <2>1. o < PeekStart(frames, offset, k + 1)
    BY <1>3, <1>4, <1>5
  <2>2. \E i \in 1..k : PeekStart(frames, offset, i) <= o /\ o < frames[i].end
    BY <1>5, <2>1, FoundIn
  <2>3. /\ In(o) \in 1..k
        /\ PeekStart(frames, offset, In(o)) <= o /\ o < frames[In(o)].end
    BY <2>2
  <2> DEFINE i == In(o)
  <2> HIDE DEF In, i
  <2>4. /\ i \in 1..k /\ PeekStart(frames, offset, i) <= o /\ o < frames[i].end
        /\ i \in 1..Len(frames)
    BY <1>2, <2>3 DEF i
  <2>5. frames[i].start <= PeekStart(frames, offset, i)
    BY <2>4 DEF Reads
  <2>6. frames[i] \in TrueFrames /\ frames[i].start \in Nat /\ frames[i].end \in Nat
    BY <2>4, ListIs
  <2>7. PeekStart(frames, offset, i) \in Nat
    BY <2>4, PeekStartIs
  <2>8. o \in frames[i].start..(frames[i].end - 1)
    BY <2>4, <2>5, <2>6, <2>7
  <2>9. CASE frames[i].in_pkt
    <3>2. frames[i].data = [x \in frames[i].start..(frames[i].end - 1) |-> x + 1]
      BY <2>6, <2>9, FrameIs
    <3>1. frames[i].data[o] = o + 1
      BY <2>8, <3>2
    <3> QED
      BY <2>9, <3>1 DEF i, ByteOf
  <2>10. CASE ~frames[i].in_pkt
    <3>1. InFrame(o, frames[i]) /\ Backed(frames[i], rbuf, offset)
      BY <2>4, <2>6, <2>8 DEF InFrame
    <3>2. rbuf.start[o % rbuf.alloc] = o + 1
      BY <1>5, <2>10, <3>1 DEF Backed, Stored, ByteAt
    <3> QED
      BY <2>10, <3>2 DEF i, ByteOf
  <2> QED
    BY <2>9, <2>10
<1> HIDE DEF In
<1>6. ASSUME NEW j \in 1..(to - offset)
      PROVE  ByteOf(In(offset + j - 1), offset + j - 1) = offset + j
  <2> DEFINE o == offset + j - 1
  <2>1. o \in Nat /\ offset <= o /\ o < to /\ o + 1 = offset + j
    OBVIOUS
  <2> HIDE DEF o
  <2>2. ByteOf(In(o), o) = o + 1
    BY <1>5, <2>1
  <2> QED
    BY <2>1, <2>2 DEF o
<1> QED
  BY <1>1, <1>6

\* End of a list from off on.
LastEnd(f, off) == IF f = <<>> THEN off ELSE f[Len(f)].end

\* Everything up to the end of the list can be read exactly when nothing is
\* missing.
LEMMA ReadableIff ==
    ASSUME NEW f, NEW off \in Nat, NEW total \in Nat, off <= total,
           IsList(f, off, total), LastEnd(f, off) = total
    PROVE  /\ Readable(f, off) = Len(f) => ReadableEnd(f, off) = total
           /\ Readable(f, off) = Len(f)
                <=> \A o \in Nat : off <= o /\ o < total => InList(o, f)
<1> DEFINE k == Readable(f, off)
           e == PeekStart(f, off, k + 1)
<1>1. ReadableEnd(f, off) = e
  BY DEF ReadableEnd
<1>2. k = Readable(f, off)
  OBVIOUS
<1> HIDE DEF k
<1>3. Reads(f, off, k)
  BY <1>2, ReadableReads
<1>4. e = PeekStart(f, off, k + 1)
  OBVIOUS
<1> HIDE DEF e
<1>5. /\ ReadTo(f, off, total, e)
      /\ k = Len(f) => e = IF f = <<>> THEN off ELSE f[Len(f)].end
      /\ k < Len(f) => f # <<>> /\ e < f[Len(f)].end
  BY <1>3, <1>4, ReadableEndIs
<1>6. k = Len(f) => e = total
  BY <1>5 DEF LastEnd
<1>7. k < Len(f) => e < total
  BY <1>5 DEF LastEnd
<1>8. k = Len(f) \/ k < Len(f)
  <2>1. k \in 0..Len(f) /\ Len(f) \in Nat
    BY <1>3, ListIs DEF Reads
  <2> QED
    BY <2>1
<1>9. /\ e \in Nat /\ off <= e /\ ~InList(e, f)
      /\ \A o \in Nat : off <= o /\ o < e => InList(o, f)
  BY <1>5 DEF ReadTo
<1>10. ASSUME k = Len(f) PROVE \A o \in Nat : off <= o /\ o < total => InList(o, f)
  BY <1>6, <1>9, <1>10
<1>11. ASSUME \A o \in Nat : off <= o /\ o < total => InList(o, f) PROVE k = Len(f)
  BY <1>7, <1>8, <1>9, <1>11
<1> QED
  BY <1>1, <1>2, <1>6, <1>10, <1>11

\* An insertion moves the end of the list to the final size when it is known.
LEMMA InsertedEnd ==
    ASSUME NEW g, NEW f, NEW n \in TrueFrames, NEW off \in Nat, NEW total \in Nat,
           off <= total, n.end <= total, IsList(f, off, total),
           Inserted(g, f, n, off, total),
           n.end = total \/ LastEnd(f, off) = total
    PROVE  LastEnd(g, off) = total
<1>0. n.end \in Nat
  BY FrameIs
<1>1. f # <<>> => f[Len(f)].end \in Nat /\ off < f[Len(f)].end /\ f[Len(f)].end <= total
  <2>1. f # <<>> => Len(f) \in 1..Len(f)
    BY ListIs
  <2> QED
    BY <2>1, ListIs
<1>2. CASE off >= n.end
  <2>1. g = f
    BY <1>2 DEF Inserted
  <2>2. CASE LastEnd(f, off) = total
    BY <2>1, <2>2
  <2>3. CASE n.end = total
    <3>1. off = total /\ f = <<>>
      BY <1>0, <1>1, <1>2, <2>3
    <3> QED
      BY <2>1, <3>1 DEF LastEnd
  <2> QED
    BY <2>2, <2>3
<1>3. CASE off < n.end
  <2>1. /\ g # <<>> /\ g[Len(g)].end >= n.end
        /\ f # <<>> => g[Len(g)].end >= f[Len(f)].end
    BY <1>3 DEF Inserted, Reaches
  <2>2. IsList(g, off, total)
    BY DEF Inserted
  <2>3. g[Len(g)].end \in Nat /\ g[Len(g)].end <= total
    <3>1. Len(g) \in 1..Len(g)
      BY <2>1, <2>2, ListIs
    <3> QED
      BY <2>2, <3>1, ListIs
  <2>4. g[Len(g)].end >= total
    <3>1. CASE n.end = total
      BY <2>1, <3>1
    <3>2. CASE LastEnd(f, off) = total
      <4>1. f # <<>>
        BY <1>0, <1>3, <3>2 DEF LastEnd
      <4> QED
        BY <2>1, <3>2, <4>1 DEF LastEnd
    <3> QED
      BY <3>1, <3>2
  <2>5. g[Len(g)].end = total
    BY <2>3, <2>4
  <2> QED
    BY <2>1, <2>5 DEF LastEnd
<1> QED
  BY <1>0, <1>2, <1>3

\* A list of members of T is one after an insertion of a member of T, and after
\* frames were dropped.
LEMMA InsertIn ==
    ASSUME NEW T, frames \in Seq(T), NEW n \in T, n \in TrueFrames,
           NEW off, NEW total, IsList(frames, off, total),
           NEW g, g = ossl_sframe_list_insert(n)
    PROVE  g \in Seq(T)
<1>0. \/ g = frames \/ g = <<n>> \/ g = Append(frames, n)
      \/ g = InsertBefore(frames, n)
  BY Zenon DEF ossl_sframe_list_insert
<1>1. CASE g = frames \/ g = <<n>> \/ g = Append(frames, n)
  <2>1. <<n>> \in Seq(T) /\ Append(frames, n) \in Seq(T)
    OBVIOUS
  <2> QED
    BY <1>1, <2>1, Zenon
<1>2. CASE g = InsertBefore(frames, n)
  <2>1. PICK p \in Nat, q \in Nat :
          /\ Place(frames, n, p, q)
          /\ g = frames \/ g = Join(frames, p, q) \/ g = Splice(frames, p, n, q)
    <3>1. \E p, q \in Nat :
            /\ Place(frames, n, p, q)
            /\ IF p > 0 /\ frames[p].end >= n.end THEN g = frames
               ELSE IF q < Len(frames) /\ p > 0
                       /\ frames[q + 1].start <= frames[p].end
               THEN g = Join(frames, p, q)
               ELSE g = Splice(frames, p, n, q)
      BY <1>2, InsertBeforeIs
    <3> QED
      BY <3>1, Zenon
  <2>2. p <= Len(frames) /\ q <= Len(frames) /\ Len(frames) \in Nat
    BY <2>1 DEF Place
  <2> DEFINE a == SubSeq(frames, 1, p)
             b == SubSeq(frames, q + 1, Len(frames))
  <2>3. a \in Seq(T) /\ b \in Seq(T) /\ <<n>> \in Seq(T)
    BY <2>2
  <2>4. g = frames \/ g = a \o b \/ g = a \o <<n>> \o b
    BY <2>1 DEF Join, Splice
  <2> HIDE DEF a, b
  <2>5. a \o b \in Seq(T) /\ a \o <<n>> \o b \in Seq(T)
    BY <2>3
  <2> QED
    BY <2>4, <2>5, Zenon
<1> QED
  BY <1>0, <1>1, <1>2

LEMMA DropIn ==
    ASSUME NEW T, NEW f \in Seq(T), NEW to \in Nat,
           \A i \in 1..Len(f) : f[i].end \in Nat,
           NEW g, g = ossl_sframe_list_drop_frames(f, to)
    PROVE  g \in Seq(T)
<1> DEFINE N == Len(f)
           P(x) == /\ \A i \in 1..x : f[i].end <= to
                   /\ x < N => f[x + 1].end > to
           d == CHOOSE x \in 0..N : P(x)
<1>1. N \in Nat
  OBVIOUS
<1>2. \E x \in 0..N : P(x)
  <2> DEFINE U == {i \in 1..N : f[i].end <= to}
  <2>1. PICK x \in 0..N : (\A i \in 1..x : i \in U) /\ (x < N => x + 1 \notin U)
    <3> HIDE DEF U, N
    <3> QED
      BY <1>1, Walk
  <2>2. x < N => x + 1 \in 1..N
    BY <1>1
  <2>3. \A i \in 1..x : f[i].end <= to
    BY <2>1
  <2>4. ASSUME x < N PROVE f[x + 1].end > to
    <3>1. f[x + 1].end \in Nat /\ ~(f[x + 1].end <= to)
      BY <2>1, <2>2, <2>4
    <3> QED
      BY <3>1
  <2> QED
    BY <2>3, <2>4
<1>3. g = SubSeq(f, d + 1, N)
  BY DEF ossl_sframe_list_drop_frames
<1> HIDE DEF P
<1>4. d \in 0..N
  BY <1>2
<1> HIDE DEF d
<1> QED
  BY <1>1, <1>3, <1>4

(***************************************************************************)
(* The ring buffer of a receive stream                                     *)
(***************************************************************************)

\* The ring buffer of a stream of which off bytes were read.
RbufOf(r, off, total) ==
    /\ r \in Buffers
    /\ IsRingBuf(r)
    /\ r.ctail_offset = off /\ r.head_offset <= total
    /\ r.head_offset - off <= r.alloc

\* What r holds from off on, s holds.
Kept(r, s, off) == \A o \in Nat : off <= o /\ Stored(r, o) => Stored(s, o)

LEMMA RbufIs ==
    ASSUME NEW r, NEW off, NEW total, RbufOf(r, off, total)
    PROVE  /\ r \in Buffers /\ r.alloc \in Nat /\ r.head_offset \in Nat
           /\ off \in Nat /\ off <= r.head_offset /\ r.ctail_offset = off
           /\ r.head_offset <= total /\ r.head_offset <= MAX_OFFSET
           /\ r.head_offset - off <= r.alloc
           /\ r.start \in [0..(r.alloc - 1) -> 0..MAX_OFFSET]
BY MaxOffsetAssumption DEF RbufOf, IsRingBuf

\* ring_buf_write_at: bytes that fit are held after it, and so is what was.
LEMMA Written ==
    ASSUME NEW r, NEW off, NEW total \in Nat, total <= MAX_OFFSET,
           RbufOf(r, off, total),
           NEW from \in Nat, NEW to \in Nat, from <= to, off < to, to <= total,
           WriteFits(r, from, to),
           NEW byte, \A o \in from..(to - 1) : byte[o] = ByteAt(o),
           NEW s, s = ring_buf_write_at(r, from, to, byte)
    PROVE  /\ RbufOf(s, off, total) /\ Kept(r, s, off)
           /\ \A o \in Nat : from <= o /\ o < to => Stored(s, o)
<1> USE MaxOffsetAssumption
<1> DEFINE a == r.alloc
           mem == r.start
           h == r.head_offset
           m == CopyIn(r, from, to, byte)
           k == IF h < to THEN to ELSE h
<1>1. /\ r \in Buffers /\ a \in Nat /\ h \in Nat /\ off \in Nat /\ off <= h
      /\ h <= total /\ h - off <= a /\ mem \in [0..(a - 1) -> 0..MAX_OFFSET]
      /\ r.ctail_offset = off
  BY RbufIs
<1>2. off <= from /\ to <= off + a
  BY <1>1 DEF WriteFits, ring_buf_avail, ring_buf_used
<1>3. a \in Nat \ {0}
  BY <1>1, <1>2
<1>4. Copied(a, mem, from, to, byte, m)
  <2>1. \A o \in from..(to - 1) : byte[o] \in 0..MAX_OFFSET
    BY DEF ByteAt
  <2>2. to - from <= a
    BY <1>1, <1>2
  <2>3. Copyable(a, mem, from, to, byte)
    BY <1>1, <1>3, <2>1, <2>2 DEF Copyable
  <2>4. r.alloc = a /\ r.start = mem /\ m = CopyIn(r, from, to, byte)
    OBVIOUS
  <2> HIDE DEF a, mem, m
  <2> QED
    BY <2>3, <2>4, CopyInAt
<1>5. s = [r EXCEPT !.start = m, !.head_offset = k]
  BY <1>1 DEF ring_buf_write_at, Buffers
<1>6. k \in Nat /\ k >= h /\ k >= to /\ k <= total /\ k <= off + a
  BY <1>1, <1>2
<1>7. m \in [0..(a - 1) -> 0..MAX_OFFSET] /\ m \in Memories
  BY <1>1, <1>4 DEF Copied, Memories
<1> HIDE DEF m, k
<1>8. /\ s.alloc = a /\ s.head_offset = k /\ s.ctail_offset = off /\ s.start = m
      /\ s \in Buffers
  BY <1>1, <1>5, <1>6, <1>7 DEF Buffers
<1> HIDE DEF a, h, mem
<1>9. RbufOf(s, off, total)
  BY <1>1, <1>6, <1>7, <1>8 DEF RbufOf, IsRingBuf
<1>10. ASSUME NEW o \in Nat, from <= o, o < to PROVE Stored(s, o)
  <2>1. o \in from..(to - 1)
    BY <1>10
  <2>2. m[o % a] = ByteAt(o)
    BY <1>4, <2>1 DEF Copied
  <2> QED
    BY <1>6, <1>8, <1>10, <2>2 DEF Stored
<1>11. ASSUME NEW o \in Nat, off <= o, Stored(r, o) PROVE Stored(s, o)
  <2>1. o < h /\ mem[o % a] = ByteAt(o)
    BY <1>11 DEF Stored, h, a, mem
  <2>2. CASE from <= o /\ o < to
    BY <1>10, <2>2
  <2>3. CASE o < from \/ o >= to
    <3>1. \A x \in from..(to - 1) : x - o < a /\ o - x < a
      BY <1>1, <1>2, <1>11, <2>1
    <3>2. \A x \in from..(to - 1) : x % a # o % a
      BY <1>3, <2>3, <3>1, Elsewhere
    <3>3. o % a \in 0..(a - 1)
      BY <1>3, ModRange
    <3>4. m[o % a] = mem[o % a]
      BY <1>4, <3>2, <3>3 DEF Copied
    <3> QED
      BY <1>1, <1>6, <1>8, <2>1, <3>4 DEF Stored
  <2> QED
    BY <2>2, <2>3
<1> QED
  BY <1>9, <1>10, <1>11 DEF Kept

\* s is r with the bytes below to given up.
Cut(r, s, to) ==
    /\ s \in Buffers
    /\ s.alloc = r.alloc /\ s.start = r.start /\ s.ctail_offset = to
    /\ s.head_offset = IF r.head_offset < to THEN to ELSE r.head_offset

LEMMA CutKeeps ==
    ASSUME NEW r, NEW off, NEW total \in Nat, total <= MAX_OFFSET,
           RbufOf(r, off, total), NEW to \in Nat, off <= to, to <= total,
           NEW s, Cut(r, s, to)
    PROVE  RbufOf(s, to, total) /\ Kept(r, s, to)
<1> USE MaxOffsetAssumption
<1> DEFINE h == r.head_offset
           k == s.head_offset
<1>1. /\ r \in Buffers /\ r.alloc \in Nat /\ h \in Nat /\ off \in Nat /\ off <= h
      /\ h <= total /\ h - off <= r.alloc
      /\ r.start \in [0..(r.alloc - 1) -> 0..MAX_OFFSET]
  BY RbufIs
<1>2. /\ s \in Buffers /\ s.alloc = r.alloc /\ s.start = r.start
      /\ s.ctail_offset = to /\ k = IF h < to THEN to ELSE h
  BY DEF Cut
<1>3. k \in Nat /\ k >= h /\ k >= to /\ k <= total /\ k - to <= r.alloc
  BY <1>1, <1>2
<1>4. RbufOf(s, to, total)
  BY <1>1, <1>2, <1>3 DEF RbufOf, IsRingBuf
<1>5. Kept(r, s, to)
  BY <1>1, <1>2, <1>3 DEF Kept, Stored
<1> QED
  BY <1>4, <1>5

\* ring_buf_cpop_range, up to a byte that was read.
LEMMA CulledIs ==
    ASSUME NEW off, NEW total \in Nat, total <= MAX_OFFSET,
           RbufOf(rbuf, off, total), NEW to \in Nat, to <= total, to > 0,
           NEW s, s = Culled(to)
    PROVE  Cut(rbuf, s, to)
<1> USE MaxOffsetAssumption
<1> DEFINE h == rbuf.head_offset
           k == IF h < to THEN to ELSE h
<1>1. rbuf \in Buffers /\ h \in Nat /\ off \in Nat /\ rbuf.ctail_offset = off
  BY RbufIs
<1>2. ~(0 > rbuf.ctail_offset \/ to - 1 >= MAX_OFFSET) /\ (to - 1) + 1 = to
  BY <1>1
<1>3. s = [rbuf EXCEPT !.start = rbuf.start, !.ctail_offset = to, !.head_offset = k]
  BY <1>1, <1>2 DEF Culled, ring_buf_cpop_range, Buffers
<1>4. k \in Nat
  BY <1>1
<1> HIDE DEF k
<1>5. /\ s.alloc = rbuf.alloc /\ s.head_offset = k /\ s.ctail_offset = to
      /\ s.start = rbuf.start /\ s \in Buffers
  BY <1>1, <1>3, <1>4 DEF Buffers
<1> QED
  BY <1>5 DEF Cut, k

\* ring_buf_resize
LEMMA ResizeKeepsAll ==
    ASSUME NEW r, NEW off, NEW total, RbufOf(r, off, total), NEW n \in Nat,
           NEW s, s = ring_buf_resize(r, n)
    PROVE  RbufOf(s, off, total) /\ Kept(r, s, off)
<1> USE MaxOffsetAssumption
<1>0. CASE n = r.alloc \/ n < ring_buf_used(r) \/ n = 0
  BY <1>0 DEF ring_buf_resize, Kept
<1>1. CASE ~(n = r.alloc \/ n < ring_buf_used(r) \/ n = 0)
  <2> DEFINE a == r.alloc
             h == r.head_offset
             q == ring_buf_init(n)
             byte == BytesAt(r, off, h)
             m == CopyIn(q, off, h, byte)
             mem == q.start
  <2>1. /\ r \in Buffers /\ a \in Nat /\ h \in Nat /\ off \in Nat /\ off <= h
        /\ h <= total /\ h <= MAX_OFFSET /\ h - off <= a
        /\ r.start \in [0..(a - 1) -> 0..MAX_OFFSET]
        /\ r.ctail_offset = off
    BY RbufIs
  <2>2. n \in Nat \ {0} /\ h - off <= n
    BY <1>1, <2>1 DEF ring_buf_used
  <2>3. s = [r EXCEPT !.alloc = n, !.start = m]
    BY <1>1, <2>1 DEF ring_buf_resize
  <2>4. ASSUME NEW o \in off..(h - 1)
        PROVE  byte[o] = r.start[o % a] /\ byte[o] \in 0..MAX_OFFSET
    <3>1. o \in Nat /\ a \in Nat \ {0}
      BY <2>1
    <3>2. o % a \in 0..(a - 1)
      BY <3>1, ModRange
    <3> QED
      BY <2>1, <3>2 DEF BytesAt
  <2>5. q.alloc = n /\ q.start \in [0..(n - 1) -> 0..MAX_OFFSET]
    BY DEF ring_buf_init, Zero
  <2>6. q.alloc = n /\ q.start = mem /\ m = CopyIn(q, off, h, byte)
    BY <2>5
  <2>13. \A o \in off..(h - 1) : byte[o] \in 0..MAX_OFFSET
    BY <2>4
  <2> HIDE DEF m, q, byte, mem
  <2>7. Copyable(n, mem, off, h, byte)
    BY <2>1, <2>2, <2>5, <2>6, <2>13 DEF Copyable
  <2> HIDE DEF h
  <2>8. Copied(n, mem, off, h, byte, m)
    BY <2>6, <2>7, CopyInAt
  <2>9. m \in [0..(n - 1) -> 0..MAX_OFFSET] /\ m \in Memories
    BY <2>2, <2>8 DEF Copied, Memories
  <2>10. /\ s.alloc = n /\ s.head_offset = h /\ s.ctail_offset = off
         /\ s.start = m /\ s \in Buffers
    BY <2>1, <2>3, <2>9 DEF Buffers, h
  <2>11. RbufOf(s, off, total)
    BY <2>1, <2>2, <2>9, <2>10 DEF RbufOf, IsRingBuf
  <2>12. ASSUME NEW o \in Nat, off <= o, Stored(r, o) PROVE Stored(s, o)
    <3>1. o \in off..(h - 1) /\ r.start[o % a] = ByteAt(o)
      BY <2>1, <2>12 DEF Stored, h
    <3>2. m[o % n] = byte[o]
      BY <2>8, <3>1 DEF Copied
    <3> QED
      BY <2>4, <2>10, <2>12, <3>1, <3>2 DEF Stored, h
  <2> QED
    BY <2>11, <2>12 DEF Kept
<1> QED
  BY <1>0, <1>1

\* Frames whose bytes are held stay so.
LEMMA BackedOn ==
    ASSUME NEW f, NEW r, NEW s, NEW off \in Nat, NEW to \in Nat, off <= to,
           Kept(r, s, to), Backed(f, r, off)
    PROVE  Backed(f, s, to)
BY DEF Kept, Backed

(***************************************************************************)
(* The inductive invariant of a receive stream                             *)
(***************************************************************************)

\* The list f and the ring buffer r hold exactly what was received and not read
\* of a stream of which off bytes were read.
Queue(f, off, r, rcv, total) ==
    /\ off \in Nat /\ off <= total
    /\ IsList(f, off, total)
    /\ \A o \in Nat : o \in rcv <=> o < off \/ InList(o, f)
    /\ RbufOf(r, off, total)
    /\ \A i \in 1..Len(f) : Backed(f[i], r, off)

\* The stream was read to its end and freed.
Freed == frames = <<>> /\ offset = size /\ rbuf = ring_buf_init(0)

AllReceived == \A o \in Nat : o < size => o \in received

\* The receive states tell whether the end is known and everything has arrived;
\* the list ends where the stream does once that is known.
EndInv ==
    /\ fin \in BOOLEAN
    /\ recv_state \in {RECV, SIZE_KNOWN, DATA_RECVD, DATA_READ}
    /\ recv_state = RECV <=> ~fin
    /\ recv_state \in {DATA_RECVD, DATA_READ} <=> fin /\ AllReceived
    /\ fin /\ recv_state # DATA_READ => LastEnd(frames, offset) = size

\* A record handed out is of a CRYPTO stream and was received.
RecordInv ==
    /\ is_crypto \in BOOLEAN /\ head_locked \in BOOLEAN
    /\ head_range.start \in Nat /\ head_range.start <= size
    /\ head_range.end \in Nat /\ head_range.end <= size
    /\ is_crypto => recv_state = RECV
    /\ head_locked => /\ is_crypto
                      /\ head_range.start = offset /\ offset < head_range.end
                      /\ \A o \in Nat : o < head_range.end => o \in received

RsInv ==
    /\ size \in Nat /\ size <= MAX_OFFSET
    /\ \A o \in received : o \in Nat /\ o < size
    /\ got = Numbers(offset)
    /\ recv_state = DATA_READ => Freed
    /\ recv_state # DATA_READ => Queue(frames, offset, rbuf, received, size)
    /\ EndInv
    /\ RecordInv

LEMMA QueueIs ==
    ASSUME NEW f, NEW off, NEW r, NEW rcv, NEW total, Queue(f, off, r, rcv, total)
    PROVE  /\ off \in Nat /\ off <= total
           /\ IsList(f, off, total)
           /\ \A o \in Nat : o \in rcv <=> o < off \/ InList(o, f)
           /\ RbufOf(r, off, total)
           /\ \A i \in 1..Len(f) : Backed(f[i], r, off)
BY DEF Queue

\* Where a walk over the list ends: at the first byte that was not received.
LEMMA EndIs ==
    ASSUME NEW f, NEW off, NEW r, NEW rcv, NEW total \in Nat,
           Queue(f, off, r, rcv, total),
           NEW k, k = Readable(f, off), NEW e, e = ReadableEnd(f, off)
    PROVE  /\ Reads(f, off, k) /\ e = PeekStart(f, off, k + 1)
           /\ ReadTo(f, off, total, e)
           /\ e \in Nat /\ off <= e /\ e <= total
           /\ \A o \in Nat : o < e => o \in rcv
           /\ e \notin rcv
           /\ k = Len(f) => e = LastEnd(f, off)
<1>1. /\ off \in Nat /\ off <= total /\ IsList(f, off, total)
      /\ \A o \in Nat : o \in rcv <=> o < off \/ InList(o, f)
  BY QueueIs
<1>2. Reads(f, off, k)
  BY <1>1, ReadableReads
<1>3. e = PeekStart(f, off, k + 1)
  BY DEF ReadableEnd
<1>4. /\ ReadTo(f, off, total, e)
      /\ k = Len(f) => e = IF f = <<>> THEN off ELSE f[Len(f)].end
  BY <1>1, <1>2, <1>3, ReadableEndIs
<1>5. /\ e \in Nat /\ off <= e /\ e <= total
      /\ \A o \in Nat : off <= o /\ o < e => InList(o, f)
      /\ ~InList(e, f)
  BY <1>4 DEF ReadTo
<1>6. \A o \in Nat : o < e => o \in rcv
  BY <1>1, <1>5
<1>7. e \notin rcv
  BY <1>1, <1>5
<1> QED
  BY <1>2, <1>3, <1>4, <1>5, <1>6, <1>7 DEF LastEnd

\* What remains when the bytes below to, which can be read, were read: they are
\* the next bytes of the stream.
LEMMA Taken ==
    ASSUME size \in Nat, size <= MAX_OFFSET,
           Queue(frames, offset, rbuf, received, size), got = Numbers(offset),
           NEW to \in Nat, offset <= to, to <= ReadableEnd(frames, offset),
           NEW g, g = ossl_sframe_list_drop_frames(frames, to),
           NEW buf, Cut(rbuf, buf, to) \/ (buf = rbuf /\ to = offset)
    PROVE  /\ Queue(g, to, buf, received, size)
           /\ got \o BytesRead(offset, to) = Numbers(to)
           /\ LastEnd(frames, offset) = size => LastEnd(g, to) = size
<1> DEFINE k == Readable(frames, offset)
           e == ReadableEnd(frames, offset)
<1>1. /\ offset \in Nat /\ offset <= size /\ IsList(frames, offset, size)
      /\ \A o \in Nat : o \in received <=> o < offset \/ InList(o, frames)
      /\ RbufOf(rbuf, offset, size)
  BY QueueIs
<1>11. \A i \in 1..Len(frames) : Backed(frames[i], rbuf, offset)
  BY QueueIs
<1>2. k = Readable(frames, offset) /\ e = ReadableEnd(frames, offset)
  OBVIOUS
<1> HIDE DEF k, e
<1>3. /\ Reads(frames, offset, k) /\ e = PeekStart(frames, offset, k + 1)
      /\ e \in Nat /\ offset <= e /\ e <= size
      /\ \A o \in Nat : o < e => o \in received
  BY <1>2, EndIs
<1>4. to <= e /\ to <= size
  BY <1>1, <1>2, <1>3
<1>5. got \o BytesRead(offset, to) = Numbers(to)
  <2>1. to <= PeekStart(frames, offset, k + 1)
    BY <1>3, <1>4
  <2>2. BytesRead(offset, to) = [j \in 1..(to - offset) |-> offset + j]
    BY <1>1, <1>2, <1>3, <1>11, <2>1, BytesReadAre
  <2> DEFINE t == BytesRead(offset, to)
  <2> DEFINE a == offset
             d == to - offset
             x == got
  <2>3. a \in Nat /\ d \in Nat /\ a + d = to /\ x = Numbers(a) /\ Count(t, a, d)
    BY <1>1, <2>2 DEF Count
  <2> HIDE DEF t, a, d, x
  <2>4. x \o t = Numbers(a + d)
    BY <2>3, NumbersTo, Zenon
  <2> QED
    BY <2>3, <2>4 DEF t, x
<1>6. /\ IsList(g, to, size)
      /\ \A o \in Nat : o >= to => (InList(o, g) <=> InList(o, frames))
      /\ g = <<>> => frames = <<>> \/ frames[Len(frames)].end <= to
      /\ g # <<>> => frames # <<>> /\ g[Len(g)].end = frames[Len(frames)].end
  BY <1>1, DropKeeps
<1>7. ASSUME NEW o \in Nat PROVE o \in received <=> o < to \/ InList(o, g)
  <2>1. CASE o < to
    BY <1>3, <1>4, <2>1
  <2>2. CASE o >= to
    BY <1>1, <1>6, <2>2
  <2> QED
    BY <2>1, <2>2
<1>8. RbufOf(buf, to, size) /\ Kept(rbuf, buf, to)
  <2>1. CASE Cut(rbuf, buf, to)
    BY <1>1, <1>4, <2>1, CutKeeps
  <2>2. CASE buf = rbuf /\ to = offset
    BY <1>1, <2>2 DEF Kept
  <2> QED
    BY <2>1, <2>2
<1>9. \A i \in 1..Len(g) : Backed(g[i], buf, to)
  <2> DEFINE T == {f \in TrueFrames : Backed(f, rbuf, offset)}
  <2>1. frames \in Seq(T)
    <3>1. frames \in Seq(TrueFrames) /\ \A i \in 1..Len(frames) : frames[i] \in T
      BY <1>1, <1>11, ListIs
    <3> HIDE DEF T
    <3> QED
      BY <3>1
  <2>2. \A i \in 1..Len(frames) : frames[i].end \in Nat
    BY <1>1, ListIs
  <2>3. g \in Seq(T)
    <3> HIDE DEF T
    <3> QED
      BY <2>1, <2>2, DropIn
  <2>4. \A i \in 1..Len(g) : g[i] \in T
    <3> HIDE DEF T
    <3> QED
      BY <2>3
  <2>5. \A i \in 1..Len(g) : Backed(g[i], rbuf, offset)
    BY <2>4
  <2> QED
    BY <1>1, <1>8, <2>5, BackedOn
<1>10. ASSUME LastEnd(frames, offset) = size PROVE LastEnd(g, to) = size
  <2>1. CASE g = <<>>
    <3>1. frames = <<>> \/ frames[Len(frames)].end <= to
      BY <1>6, <2>1
    <3>2. to = size
      BY <1>1, <1>4, <1>10, <3>1 DEF LastEnd
    <3> QED
      BY <2>1, <3>2 DEF LastEnd
  <2>2. CASE g # <<>>
    BY <1>6, <1>10, <2>2 DEF LastEnd
  <2> QED
    BY <2>1, <2>2
<1> QED
  BY <1>4, <1>5, <1>6, <1>7, <1>8, <1>9, <1>10 DEF Queue

(***************************************************************************)
(* The steps of a receive stream                                           *)
(***************************************************************************)
LEMMA InitGood == RsInit => RsInv
<1> SUFFICES ASSUME RsInit PROVE RsInv
  OBVIOUS
<1> USE MaxOffsetAssumption
<1>1. PICK n \in 0..MAX_OFFSET : InitOf(n)
  BY DEF RsInit
<1>2. /\ frames = <<>> /\ offset = 0 /\ fin = FALSE /\ head_locked = FALSE
      /\ head_range = NoRange /\ rbuf = ring_buf_init(0) /\ recv_state = RECV
      /\ size = n /\ received = {} /\ got = <<>> /\ is_crypto \in BOOLEAN
  BY <1>1 DEF InitOf, RsInit
<1>3. size \in Nat /\ size <= MAX_OFFSET
  BY <1>2
<1>4. got = Numbers(offset)
  BY <1>2 DEF Numbers
<1>5. IsList(frames, offset, size) /\ Len(frames) = 0
  BY <1>2 DEF IsList, Ordered
<1>6. RbufOf(rbuf, offset, size)
  <2> DEFINE mem == [i \in 0..(0 - 1) |-> Zero]
  <2>1. mem \in [0..(0 - 1) -> 0..MAX_OFFSET] /\ mem \in Memories
    BY DEF Memories, Zero
  <2>2. rbuf = [alloc |-> 0, head_offset |-> 0, ctail_offset |-> 0, start |-> mem]
    BY <1>2 DEF ring_buf_init
  <2> HIDE DEF mem
  <2>3. rbuf \in Buffers /\ IsRingBuf(rbuf)
    BY <2>1, <2>2 DEF Buffers, IsRingBuf
  <2> QED
    BY <1>2, <1>3, <2>2, <2>3 DEF RbufOf
<1>7. Queue(frames, offset, rbuf, received, size)
  BY <1>2, <1>3, <1>5, <1>6 DEF Queue, InList
<1>8. EndInv
  BY <1>2 DEF EndInv, RECV, SIZE_KNOWN, DATA_RECVD, DATA_READ
<1>9. RecordInv
  <2>1. head_range.start = 0 /\ head_range.end = 0
    BY <1>2 DEF NoRange
  <2>2. is_crypto \in BOOLEAN /\ ~head_locked /\ head_locked \in BOOLEAN
    BY <1>2
  <2>3. is_crypto => recv_state = RECV
    BY <1>2
  <2>4. 0 \in Nat /\ 0 <= size
    BY <1>3
  <2> QED
    BY <2>1, <2>2, <2>3, <2>4 DEF RecordInv
<1> QED
  BY <1>2, <1>3, <1>4, <1>7, <1>8, <1>9 DEF RsInv, RECV, DATA_READ

\* The state after a frame was received is told by the final size and by what
\* was received.
LEMMA RecvStateIs ==
    ASSUME NEW g, NEW is_fin \in BOOLEAN, fin \in BOOLEAN,
           recv_state \in {RECV, SIZE_KNOWN}, recv_state = RECV <=> ~fin
    PROVE  RecvState(g, is_fin) =
             IF ~(fin \/ is_fin) THEN RECV
             ELSE IF Readable(g, offset) = Len(g) THEN DATA_RECVD
             ELSE SIZE_KNOWN
BY DEF RecvState, ReadableFin, RECV, SIZE_KNOWN, DATA_RECVD

\* What the peer sends are frames with bytes of the stream.
LEMMA PeerFrameIs ==
    ASSUME size \in Nat, NEW n \in PeerFrames
    PROVE  n \in TrueFrames /\ n.in_pkt /\ n.start \in Nat /\ n.end \in Nat
           /\ n.end <= size
<1>1. PICK a \in 0..size, b \in 0..size : n = TrueFrame(a, b)
  BY DEF PeerFrames, TrueFrame
<1>2. a \in Nat /\ b \in Nat /\ b <= size
  OBVIOUS
<1>3. n.in_pkt /\ n.start = a /\ n.end = b
  BY <1>1 DEF TrueFrame, Frame
<1>4. n \in TrueFrames
  BY <1>1, <1>2, TrueFrameIn
<1> QED
  BY <1>2, <1>3, <1>4

\* The queue after a frame was received.
LEMMA QueueGrows ==
    ASSUME size \in Nat, Queue(frames, offset, rbuf, received, size),
           NEW n \in PeerFrames, n.start <= n.end,
           NEW g, g = ossl_sframe_list_insert(n),
           NEW rcv, rcv = received \cup (n.start..(n.end - 1))
    PROVE  /\ Queue(g, offset, rbuf, rcv, size)
           /\ Inserted(g, frames, n, offset, size)
<1>1. n \in TrueFrames /\ n.in_pkt /\ n.start \in Nat /\ n.end \in Nat /\ n.end <= size
  BY PeerFrameIs
<1>2. /\ offset \in Nat /\ offset <= size /\ IsList(frames, offset, size)
      /\ \A o \in Nat : o \in received <=> o < offset \/ InList(o, frames)
      /\ RbufOf(rbuf, offset, size)
  BY QueueIs
<1>3. \A i \in 1..Len(frames) : Backed(frames[i], rbuf, offset)
  BY QueueIs
<1>4. Inserted(g, frames, n, offset, size)
  BY <1>1, <1>2, InsertKeeps
<1>5. ASSUME NEW o \in Nat PROVE o \in rcv <=> o < offset \/ InList(o, g)
  <2>1. o \in rcv <=> o \in received \/ InFrame(o, n)
    BY <1>1 DEF InFrame
  <2>2. CASE o < offset
    BY <1>2, <2>1, <2>2
  <2>3. CASE o >= offset
    <3>1. InList(o, g) <=> InList(o, frames) \/ InFrame(o, n)
      BY <1>4, <2>3 DEF Inserted, Holds
    <3> QED
      BY <1>2, <2>1, <2>3, <3>1
  <2> QED
    BY <1>2, <2>2, <2>3
<1>6. \A i \in 1..Len(g) : Backed(g[i], rbuf, offset)
  <2> DEFINE T == {f \in TrueFrames : Backed(f, rbuf, offset)}
  <2>1. n \in T
    BY <1>1 DEF Backed
  <2>2. frames \in Seq(T)
    <3>1. frames \in Seq(TrueFrames) /\ \A i \in 1..Len(frames) : frames[i] \in T
      BY <1>2, <1>3, ListIs
    <3> HIDE DEF T
    <3> QED
      BY <3>1
  <2>3. g \in Seq(T)
    <3> HIDE DEF T
    <3> QED
      BY <1>1, <1>2, <2>1, <2>2, InsertIn
  <2>4. \A i \in 1..Len(g) : g[i] \in T
    <3> HIDE DEF T
    <3> QED
      BY <2>3
  <2> QED
    BY <2>4
<1>7. IsList(g, offset, size)
  BY <1>4 DEF Inserted
<1> QED
  BY <1>2, <1>4, <1>5, <1>6, <1>7 DEF Queue

LEMMA RxFrameKeeps ==
    ASSUME RsInv, NEW n \in PeerFrames, NEW is_fin \in BOOLEAN, n.start <= n.end,
           is_fin => n.end = size, RxFrame(n, is_fin)
    PROVE  RsInv'
<1>0. /\ size \in Nat /\ size <= MAX_OFFSET
      /\ \A o \in received : o \in Nat /\ o < size
      /\ got = Numbers(offset) /\ EndInv /\ RecordInv
  BY DEF RsInv
<1>1. /\ ~is_crypto \/ ~is_fin
      /\ recv_state \in {RECV, SIZE_KNOWN}
      /\ frames' = ossl_sframe_list_insert(n)
      /\ fin' = (fin \/ is_fin)
      /\ recv_state' = RecvState(frames', is_fin)
      /\ received' = received \cup (n.start..(n.end - 1))
  BY DEF RxFrame
<1>2. UNCHANGED <<is_crypto, offset, head_locked, head_range, rbuf, size, got>>
  BY DEF RxFrame
<1>3. recv_state # DATA_READ /\ Queue(frames, offset, rbuf, received, size)
  BY <1>1 DEF RsInv, RECV, SIZE_KNOWN, DATA_READ
<1>4. n \in TrueFrames /\ n.start \in Nat /\ n.end \in Nat /\ n.end <= size
  BY <1>0, PeerFrameIs
<1>5. /\ Queue(frames', offset, rbuf, received', size)
      /\ Inserted(frames', frames, n, offset, size)
  BY <1>0, <1>1, <1>3, QueueGrows
<1>6. /\ fin \in BOOLEAN /\ (recv_state = RECV <=> ~fin)
      /\ fin => LastEnd(frames, offset) = size
  BY <1>0, <1>3 DEF EndInv
<1>7. /\ offset \in Nat /\ offset <= size /\ IsList(frames, offset, size)
      /\ IsList(frames', offset, size)
      /\ \A o \in Nat : o \in received' <=> o < offset \/ InList(o, frames')
  BY <1>3, <1>5, QueueIs
<1>8. ASSUME fin' PROVE LastEnd(frames', offset) = size
  <2>1. n.end = size \/ LastEnd(frames, offset) = size
    BY <1>1, <1>6, <1>8
  <2> QED
    BY <1>0, <1>4, <1>5, <1>7, <2>1, InsertedEnd
<1>9. ASSUME fin' PROVE Readable(frames', offset) = Len(frames') <=> AllReceived'
  <2>1. Readable(frames', offset) = Len(frames')
          <=> \A o \in Nat : offset <= o /\ o < size => InList(o, frames')
    BY <1>0, <1>7, <1>8, <1>9, ReadableIff
  <2>2. (\A o \in Nat : offset <= o /\ o < size => InList(o, frames'))
          <=> \A o \in Nat : o < size => o \in received'
    BY <1>0, <1>7
  <2> QED
    BY <1>2, <2>1, <2>2 DEF AllReceived
<1>10. recv_state' = IF ~fin' THEN RECV
                     ELSE IF Readable(frames', offset) = Len(frames')
                     THEN DATA_RECVD
                     ELSE SIZE_KNOWN
  BY <1>1, <1>6, RecvStateIs
<1>11. EndInv'
  <2>1. fin' \in BOOLEAN
    BY <1>1, <1>6
  <2>2. fin' => LastEnd(frames', offset') = size'
    BY <1>2, <1>8
  <2>3. recv_state' \in {DATA_RECVD, DATA_READ} <=> fin' /\ AllReceived'
    BY <1>9, <1>10, <2>1 DEF RECV, SIZE_KNOWN, DATA_RECVD, DATA_READ
  <2>4. /\ recv_state' \in {RECV, SIZE_KNOWN, DATA_RECVD}
        /\ recv_state' = RECV <=> ~fin'
    BY <1>10, <2>1 DEF RECV, SIZE_KNOWN, DATA_RECVD, DATA_READ
  <2> QED
    BY <2>1, <2>2, <2>3, <2>4 DEF EndInv
<1>12. RecordInv'
  <2>1. is_crypto => recv_state' = RECV
    BY <1>0, <1>1, <1>6, <1>10 DEF RecordInv
  <2>2. \A o \in received : o \in received'
    BY <1>1
  <2> QED
    BY <1>0, <1>2, <2>1, <2>2 DEF RecordInv
<1>13. \A o \in received' : o \in Nat /\ o < size
  BY <1>0, <1>1, <1>4
<1>14. recv_state' # DATA_READ
  BY <1>10 DEF RECV, SIZE_KNOWN, DATA_RECVD, DATA_READ
<1> QED
  BY <1>0, <1>2, <1>5, <1>11, <1>12, <1>13, <1>14 DEF RsInv

LEMMA ReadKeeps ==
    ASSUME RsInv, NEW n \in 1..(MAX_OFFSET + 1), Read(n)
    PROVE  RsInv'
<1> DEFINE e == ReadableEnd(frames, offset)
           to == MinOf(offset + n, e)
           g == ossl_sframe_list_drop_frames(frames, to)
           buf == IF to > offset THEN Culled(to) ELSE rbuf
           k == Readable(frames, offset)
<1>0. /\ size \in Nat /\ size <= MAX_OFFSET
      /\ \A o \in received : o \in Nat /\ o < size
      /\ got = Numbers(offset) /\ EndInv /\ RecordInv
  BY DEF RsInv
<1>1. /\ ~is_crypto
      /\ recv_state \in {RECV, SIZE_KNOWN, DATA_RECVD}
      /\ got' = got \o BytesRead(offset, to)
      /\ offset' = to
      /\ recv_state' = IF ReadFin(n) /\ recv_state = DATA_RECVD
                       THEN DATA_READ ELSE recv_state
      /\ frames' = IF recv_state' = DATA_READ THEN <<>> ELSE g
      /\ rbuf' = IF recv_state' = DATA_READ THEN ring_buf_init(0) ELSE buf
  BY DEF Read
<1>2. UNCHANGED <<is_crypto, fin, head_locked, head_range, size, received>>
  BY DEF Read
<1>3. recv_state # DATA_READ /\ Queue(frames, offset, rbuf, received, size)
  BY <1>1 DEF RsInv, RECV, SIZE_KNOWN, DATA_RECVD, DATA_READ
<1>4. ReadFin(n) => offset + n >= e /\ k = Len(frames) /\ fin
  BY DEF ReadFin, ReadableFin
<1>5. k = Readable(frames, offset) /\ e = ReadableEnd(frames, offset)
  OBVIOUS
<1> HIDE DEF k, e
<1>6. /\ e \in Nat /\ offset <= e /\ e <= size
      /\ k = Len(frames) => e = LastEnd(frames, offset)
  BY <1>0, <1>3, <1>5, EndIs
<1>7. offset \in Nat /\ offset <= size /\ RbufOf(rbuf, offset, size)
  BY <1>3, QueueIs
<1>8. to \in Nat /\ offset <= to /\ to <= e /\ (offset + n >= e => to = e)
  BY <1>6, <1>7 DEF MinOf
<1>9. g = ossl_sframe_list_drop_frames(frames, to)
  OBVIOUS
<1> HIDE DEF g, to
<1>10. Cut(rbuf, buf, to) \/ (buf = rbuf /\ to = offset)
  <2>1. CASE to > offset
    <3>1. to > 0 /\ to <= size /\ buf = Culled(to)
      BY <1>0, <1>6, <1>7, <1>8, <2>1
    <3> HIDE DEF buf
    <3> QED
      BY <1>0, <1>7, <1>8, <3>1, CulledIs
  <2>2. CASE ~(to > offset)
    BY <1>7, <1>8, <2>2
  <2> QED
    BY <2>1, <2>2
<1> HIDE DEF buf
<1>11. /\ Queue(g, to, buf, received, size)
       /\ got \o BytesRead(offset, to) = Numbers(to)
       /\ LastEnd(frames, offset) = size => LastEnd(g, to) = size
  BY <1>0, <1>3, <1>5, <1>8, <1>9, <1>10, Taken
<1>12. got' = Numbers(offset')
  BY <1>1, <1>11
<1>13. ~head_locked /\ AllReceived' = AllReceived
  BY <1>0, <1>1, <1>2 DEF RecordInv, AllReceived
<1>14. RecordInv'
  BY <1>0, <1>1, <1>2, <1>13 DEF RecordInv
<1>15. CASE recv_state' = DATA_READ
  <2>1. ReadFin(n) /\ recv_state = DATA_RECVD
    BY <1>1, <1>3, <1>15
  <2>2. to = size
    BY <1>0, <1>3, <1>4, <1>6, <1>8, <2>1 DEF EndInv
  <2>3. Freed'
    BY <1>1, <1>2, <1>15, <2>2 DEF Freed
  <2>4. EndInv'
    BY <1>0, <1>2, <1>13, <1>15, <2>1
       DEF EndInv, RECV, SIZE_KNOWN, DATA_RECVD, DATA_READ
  <2> QED
    BY <1>0, <1>2, <1>12, <1>14, <1>15, <2>3, <2>4 DEF RsInv
<1>16. CASE recv_state' # DATA_READ
  <2>1. recv_state' = recv_state /\ frames' = g /\ rbuf' = buf
    BY <1>1, <1>16
  <2>2. Queue(frames', offset', rbuf', received', size')
    BY <1>1, <1>2, <1>11, <2>1
  <2>3. LastEnd(frames, offset) = size => LastEnd(frames', offset') = size'
    BY <1>1, <1>2, <1>11, <2>1
  <2>4. EndInv'
    BY <1>0, <1>2, <1>3, <1>13, <2>1, <2>3 DEF EndInv
  <2> QED
    BY <1>0, <1>2, <1>12, <1>14, <1>16, <2>2, <2>4 DEF RsInv
<1> QED
  BY <1>15, <1>16

\* A stream with a record that was handed out has not been read to its end.
LEMMA LockedIs ==
    ASSUME RsInv, head_locked
    PROVE  /\ is_crypto /\ recv_state = RECV /\ recv_state # DATA_READ /\ ~fin
           /\ Queue(frames, offset, rbuf, received, size)
           /\ head_range.end \in Nat /\ offset < head_range.end
           /\ head_range.end <= ReadableEnd(frames, offset)
<1> DEFINE k == Readable(frames, offset)
           e == ReadableEnd(frames, offset)
<1>1. size \in Nat /\ EndInv /\ RecordInv
  BY DEF RsInv
<1>2. /\ is_crypto /\ recv_state = RECV /\ head_range.end \in Nat
      /\ offset < head_range.end
      /\ \A o \in Nat : o < head_range.end => o \in received
  BY <1>1 DEF RecordInv
<1>3. recv_state # DATA_READ /\ ~fin
  BY <1>1, <1>2 DEF EndInv, RECV, DATA_READ
<1>4. Queue(frames, offset, rbuf, received, size)
  BY <1>3 DEF RsInv
<1>5. k = Readable(frames, offset) /\ e = ReadableEnd(frames, offset)
  OBVIOUS
<1> HIDE DEF k, e
<1>6. e \in Nat /\ e \notin received
  BY <1>1, <1>4, <1>5, EndIs
<1>7. head_range.end <= e
  BY <1>2, <1>6
<1> QED
  BY <1>2, <1>3, <1>4, <1>5, <1>7

LEMMA ReleaseKeeps ==
    ASSUME RsInv, ReleaseRecord
    PROVE  RsInv'
<1> DEFINE to == head_range.end
           g == ossl_sframe_list_drop_frames(frames, to)
           buf == Culled(to)
           k == Readable(frames, offset)
           e == ReadableEnd(frames, offset)
<1>0. /\ size \in Nat /\ size <= MAX_OFFSET
      /\ \A o \in received : o \in Nat /\ o < size
      /\ got = Numbers(offset) /\ EndInv /\ RecordInv
  BY DEF RsInv
<1>1. /\ head_locked /\ offset' = to /\ got' = got \o BytesRead(offset, to)
      /\ frames' = g /\ head_locked' = FALSE /\ rbuf' = buf
  BY DEF ReleaseRecord
<1>2. UNCHANGED <<is_crypto, fin, head_range, recv_state, size, received>>
  BY DEF ReleaseRecord
<1>3. /\ is_crypto /\ recv_state = RECV /\ recv_state # DATA_READ /\ ~fin
      /\ Queue(frames, offset, rbuf, received, size)
      /\ to \in Nat /\ offset < to /\ to <= e
  BY <1>1, LockedIs
<1>4. offset \in Nat /\ offset <= size /\ RbufOf(rbuf, offset, size)
  BY <1>3, QueueIs
<1>5. k = Readable(frames, offset) /\ e = ReadableEnd(frames, offset)
  OBVIOUS
<1>6. g = ossl_sframe_list_drop_frames(frames, to) /\ buf = Culled(to)
  OBVIOUS
<1> HIDE DEF k, e, g, buf, to
<1>7. e \in Nat /\ e <= size
  BY <1>0, <1>3, <1>5, EndIs
<1>8. offset <= to /\ to <= size /\ to > 0
  BY <1>0, <1>3, <1>4, <1>7
<1>9. Cut(rbuf, buf, to)
  BY <1>0, <1>3, <1>4, <1>6, <1>8, CulledIs
<1>10. /\ Queue(g, to, buf, received, size)
       /\ got \o BytesRead(offset, to) = Numbers(to)
  BY <1>0, <1>3, <1>5, <1>6, <1>8, <1>9, Taken
<1>11. got' = Numbers(offset') /\ Queue(frames', offset', rbuf', received', size')
  BY <1>1, <1>2, <1>10
<1>12. AllReceived' = AllReceived
  BY <1>2 DEF AllReceived
<1>13. EndInv'
  BY <1>0, <1>2, <1>3, <1>12 DEF EndInv
<1>14. RecordInv'
  BY <1>0, <1>1, <1>2 DEF RecordInv
<1> QED
  BY <1>0, <1>2, <1>3, <1>11, <1>13, <1>14 DEF RsInv

LEMMA ResizeKeeps ==
    ASSUME RsInv, NEW n \in 1..MaxRbufSize, ResizeRbuf(n)
    PROVE  RsInv'
<1>0. n \in Nat
  BY RStreamAssumption
<1>1. /\ recv_state # DATA_READ /\ rbuf' = ring_buf_resize(rbuf, n)
      /\ UNCHANGED <<is_crypto, frames, offset, fin, head_locked, head_range,
                     recv_state, size, received, got>>
  BY DEF ResizeRbuf, list
<1>2. Queue(frames, offset, rbuf, received, size)
  BY <1>1 DEF RsInv
<1>3. offset \in Nat /\ RbufOf(rbuf, offset, size)
      /\ \A i \in 1..Len(frames) : Backed(frames[i], rbuf, offset)
  BY <1>2, QueueIs
<1>4. RbufOf(rbuf', offset, size) /\ Kept(rbuf, rbuf', offset)
  BY <1>0, <1>1, <1>3, ResizeKeepsAll
<1>5. \A i \in 1..Len(frames) : Backed(frames[i], rbuf', offset)
  BY <1>3, <1>4, BackedOn
<1>6. Queue(frames, offset, rbuf', received, size)
  BY <1>2, <1>4, <1>5 DEF Queue
<1>7. EndInv' = EndInv /\ RecordInv' = RecordInv
  BY <1>1 DEF EndInv, RecordInv, AllReceived
<1> QED
  BY <1>1, <1>6, <1>7 DEF RsInv

LEMMA GetRecordKeeps ==
    ASSUME RsInv, GetRecord
    PROVE  RsInv'
<1> DEFINE k == Readable(frames, offset)
           f == frames[1]
           a == rbuf.alloc
           b == offset + (a - (offset % a))
           to == IF f.in_pkt THEN f.end ELSE MinOf(f.end, b)
<1>0. /\ size \in Nat /\ size <= MAX_OFFSET /\ EndInv /\ RecordInv
  BY DEF RsInv
<1>1. /\ is_crypto /\ k > 0 /\ head_locked' = TRUE
      /\ head_range' = [start |-> offset, end |-> to]
  BY DEF GetRecord
<1>2. UNCHANGED <<is_crypto, frames, offset, fin, rbuf, recv_state, size, received,
                  got>>
  BY DEF GetRecord
<1>3. recv_state = RECV /\ recv_state # DATA_READ
  BY <1>0, <1>1 DEF RecordInv, RECV, DATA_READ
<1>4. Queue(frames, offset, rbuf, received, size)
  BY <1>3 DEF RsInv
<1>5. /\ offset \in Nat /\ offset <= size /\ IsList(frames, offset, size)
      /\ \A o \in Nat : o \in received <=> o < offset \/ InList(o, frames)
      /\ RbufOf(rbuf, offset, size)
  BY <1>4, QueueIs
<1>6. k = Readable(frames, offset)
  OBVIOUS
<1> HIDE DEF k
<1>7. Reads(frames, offset, k)
  BY <1>5, <1>6, ReadableReads
<1>8. Len(frames) \in Nat /\ 1 \in 1..Len(frames) /\ 1 \in 1..k
  <2>1. k \in 0..Len(frames) /\ Len(frames) \in Nat
    BY <1>5, <1>7, ListIs DEF Reads
  <2> QED
    BY <1>1, <2>1
<1>9. /\ f.start \in Nat /\ f.end \in Nat /\ f.start <= offset /\ offset < f.end
      /\ f.end <= size /\ f.in_pkt \in BOOLEAN
  <2>1. f \in TrueFrames /\ offset < f.end /\ f.end <= size
    BY <1>5, <1>8, ListIs
  <2>2. PeekStart(frames, offset, 1) = offset
    BY DEF PeekStart
  <2>3. f.start <= offset
    BY <1>7, <1>8, <2>2 DEF Reads
  <2> QED
    BY <2>1, <2>3, FrameIs
<1>10. Backed(f, rbuf, offset)
  BY <1>4, <1>8, QueueIs
<1>11. ASSUME ~f.in_pkt PROVE b \in Nat /\ offset < b
  <2>1. Stored(rbuf, offset)
    BY <1>5, <1>9, <1>10, <1>11 DEF Backed, InFrame
  <2>2. /\ a \in Nat /\ rbuf.head_offset \in Nat /\ offset < rbuf.head_offset
        /\ rbuf.head_offset - offset <= a
    BY <1>5, <2>1, RbufIs DEF Stored
  <2>3. a \in Nat \ {0}
    BY <1>5, <2>2
  <2> HIDE DEF a
  <2>4. offset % a \in 0..(a - 1)
    BY <1>5, <2>3, ModRange
  <2> QED
    BY <1>5, <2>3, <2>4
<1> HIDE DEF b
<1>12. to \in Nat /\ offset < to /\ to <= f.end
  BY <1>5, <1>9, <1>11 DEF MinOf
<1> HIDE DEF to
<1>13. ASSUME NEW o \in Nat, o < to PROVE o \in received
  <2>1. CASE o < offset
    BY <1>5, <2>1
  <2>2. CASE ~(o < offset)
    <3>1. InFrame(o, f)
      BY <1>5, <1>9, <1>12, <1>13, <2>2 DEF InFrame
    <3>2. InList(o, frames)
      BY <1>8, <3>1 DEF InList
    <3> QED
      BY <1>5, <3>2
  <2> QED
    BY <2>1, <2>2
<1>14. head_range'.start = offset /\ head_range'.end = to
  BY <1>1
<1>15. RecordInv'
  <2>1. to <= size
    BY <1>0, <1>9, <1>12
  <2>2. is_crypto' \in BOOLEAN /\ is_crypto' /\ head_locked' \in BOOLEAN
    BY <1>0, <1>1, <1>2 DEF RecordInv
  <2> HIDE DEF f
  <2> QED
    BY <1>2, <1>3, <1>5, <1>12, <1>13, <1>14, <2>1, <2>2 DEF RecordInv
<1>16. EndInv' = EndInv
  BY <1>2 DEF EndInv, AllReceived
<1> QED
  BY <1>2, <1>3, <1>15, <1>16 DEF RsInv

(***************************************************************************)
(* Moving frame data to the ring buffer                                    *)
(***************************************************************************)

\* The list g is f with a frame n behind its tail; with its tail made longer, up
\* to the end of n.
AppendOf(g, f, n) == g = Append(f, n)
MergeOf(g, f, n) == g = [f EXCEPT ![Len(f)].end = n.end]

LEMMA AppendIs ==
    ASSUME NEW f, NEW off \in Nat, NEW total, IsList(f, off, total),
           NEW n, Fits(n, off, total),
           f # <<>> => f[Len(f)].start <= n.start /\ f[Len(f)].end < n.end,
           NEW g, AppendOf(g, f, n)
    PROVE  /\ IsList(g, off, total)
           /\ \A o : InList(o, g) <=> InList(o, f) \/ InFrame(o, n)
           /\ Len(g) = Len(f) + 1 /\ g[Len(g)] = n
           /\ \A i \in 1..Len(f) : g[i] = f[i]
<1> DEFINE N == Len(f)
<1>0. /\ n \in TrueFrames /\ n.start \in Nat /\ n.end \in Nat
      /\ n.start <= n.end /\ off < n.end /\ n.end <= total
  BY FrameIs DEF Fits
<1>1. f \in Seq(TrueFrames) /\ N \in Nat
  BY ListIs
<1>2. /\ \A i \in 1..N : /\ f[i].start \in Nat /\ f[i].end \in Nat
                         /\ f[i].start <= f[i].end /\ off < f[i].end
                         /\ f[i].end <= total
      /\ \A i, j \in 1..N : i < j => f[i].start <= f[j].start /\ f[i].end < f[j].end
  BY ListIs
<1>3. /\ g \in Seq(TrueFrames) /\ Len(g) = N + 1 /\ g[N + 1] = n
      /\ \A i \in 1..N : g[i] = f[i]
  BY <1>0, <1>1 DEF AppendOf
<1>4. ASSUME NEW i \in 1..N PROVE f[i].start <= n.start /\ f[i].end < n.end
  <2>1. N \in 1..N /\ f # <<>> /\ (i = N \/ i < N)
    BY <1>1
  <2>2. f[N].start <= n.start /\ f[N].end < n.end
    BY <2>1
  <2>3. f[i].start <= f[N].start /\ f[i].end <= f[N].end
    <3>1. CASE i = N
      BY <1>2, <3>1
    <3>2. CASE i < N
      BY <1>2, <2>1, <3>2
    <3> QED
      BY <2>1, <3>1, <3>2
  <2>4. /\ f[i].start \in Nat /\ f[i].end \in Nat
        /\ f[N].start \in Nat /\ f[N].end \in Nat
    BY <1>2, <2>1
  <2> QED
    BY <1>0, <2>2, <2>3, <2>4
<1> HIDE DEF N
<1>5. \A i \in 1..(N + 1) : i \in 1..N \/ i = N + 1
  BY <1>1
<1>6. \A i \in 1..Len(g) : g[i].start <= g[i].end /\ off < g[i].end /\ g[i].end <= total
  BY <1>0, <1>2, <1>3, <1>5
<1>7. ASSUME NEW i \in 1..Len(g), NEW j \in 1..Len(g), i < j
      PROVE  g[i].start <= g[j].start /\ g[i].end < g[j].end
  <2>1. i \in 1..N /\ g[i] = f[i]
    BY <1>1, <1>3, <1>7
  <2>2. CASE j \in 1..N
    BY <1>2, <1>3, <1>7, <2>1, <2>2
  <2>3. CASE j = N + 1
    BY <1>3, <1>4, <2>1, <2>3
  <2> QED
    BY <1>3, <1>5, <2>2, <2>3
<1>8. IsList(g, off, total)
  BY <1>3, <1>6, <1>7 DEF IsList, Ordered
<1>9. ASSUME NEW o PROVE InList(o, g) <=> InList(o, f) \/ InFrame(o, n)
  <2>1. ASSUME InList(o, g) PROVE InList(o, f) \/ InFrame(o, n)
    <3>1. PICK i \in 1..(N + 1) : InFrame(o, g[i])
      BY <1>3, <2>1 DEF InList
    <3> QED
      BY <1>3, <1>5, <3>1 DEF InList, N
  <2>2. ASSUME InList(o, f) PROVE InList(o, g)
    <3>1. PICK i \in 1..N : InFrame(o, f[i])
      BY <2>2 DEF InList, N
    <3>2. i \in 1..Len(g) /\ g[i] = f[i]
      BY <1>1, <1>3, <3>1
    <3> QED
      BY <3>1, <3>2 DEF InList
  <2>3. ASSUME InFrame(o, n) PROVE InList(o, g)
    <3>1. N + 1 \in 1..Len(g)
      BY <1>1, <1>3
    <3> QED
      BY <1>3, <2>3, <3>1 DEF InList
  <2> QED
    BY <2>1, <2>2, <2>3
<1> QED
  BY <1>3, <1>8, <1>9 DEF N

LEMMA InRbufIs ==
    ASSUME NEW f \in TrueFrames
    PROVE  /\ InRbuf(f) \in TrueFrames /\ ~InRbuf(f).in_pkt
           /\ InRbuf(f).start = f.start /\ InRbuf(f).end = f.end
<1>1. PICK a \in Nat, b \in Nat : f \in {TrueFrame(a, b), InRbuf(TrueFrame(a, b))}
  BY DEF TrueFrames
<1>2. CASE f = TrueFrame(a, b)
  <2>1. InRbuf(f) \in TrueFrames
    BY <1>2, TrueFrameIn
  <2>2. /\ ~InRbuf(f).in_pkt
        /\ InRbuf(f).start = f.start /\ InRbuf(f).end = f.end
    BY <1>2 DEF TrueFrame, Frame, InRbuf
  <2> QED
    BY <2>1, <2>2
<1>3. CASE f = InRbuf(TrueFrame(a, b))
  <2> DEFINE t == TrueFrame(a, b)
  <2>1. InRbuf(f) = f
    BY <1>3 DEF TrueFrame, Frame, InRbuf
  <2>2. ~f.in_pkt
    BY <1>3 DEF TrueFrame, Frame, InRbuf
  <2> QED
    BY <2>1, <2>2
<1> QED
  BY <1>1, <1>2, <1>3

\* The frame h is l with its end at b.
LongerOf(h, l, b) == h = [l EXCEPT !.end = b]

LEMMA LongerFrame ==
    ASSUME NEW l \in TrueFrames, ~l.in_pkt, NEW b \in Nat, NEW h, LongerOf(h, l, b)
    PROVE  h.start = l.start /\ h.end = b /\ ~h.in_pkt /\ h \in TrueFrames
<1> DEFINE a == l.start
           e == l.end
           t == TrueFrame(a, b)
           f == InRbuf(t)
<1>0. /\ a \in Nat
      /\ l = [start |-> a, end |-> e, in_pkt |-> FALSE, data |-> <<>>]
  BY FrameIs
<1>5. a = l.start
  OBVIOUS
<1> HIDE DEF a, e
<1>1. t \in TrueFrames /\ t.start = a /\ t.end = b
  BY <1>0, TrueFrameIn DEF TrueFrame, Frame
<1> HIDE DEF t
<1>2. f \in TrueFrames /\ ~f.in_pkt /\ f.start = a /\ f.end = b
  BY <1>1, InRbufIs
<1> HIDE DEF f
<1>3. f = [start |-> a, end |-> b, in_pkt |-> FALSE, data |-> <<>>]
  BY <1>2, FrameIs
<1>4. h = [start |-> a, end |-> b, in_pkt |-> FALSE, data |-> <<>>]
  BY <1>0 DEF LongerOf
<1>6. h = f
  BY <1>3, <1>4
<1> QED
  BY <1>2, <1>5, <1>6

\* A list whose tail, in the ring buffer, is made longer by a frame that
\* follows it without a gap.
LEMMA MergeIs ==
    ASSUME NEW f, NEW off \in Nat, NEW total, IsList(f, off, total), f # <<>>,
           NEW n, Fits(n, off, total),
           f[Len(f)].start <= n.start, f[Len(f)].end < n.end,
           n.start <= f[Len(f)].end, ~f[Len(f)].in_pkt,
           NEW g, MergeOf(g, f, n)
    PROVE  /\ IsList(g, off, total)
           /\ \A o \in Nat : InList(o, g) <=> InList(o, f) \/ InFrame(o, n)
           /\ Len(g) = Len(f)
           /\ g[Len(f)].start = f[Len(f)].start /\ g[Len(f)].end = n.end
           /\ ~g[Len(f)].in_pkt
           /\ \A i \in 1..(Len(f) - 1) : g[i] = f[i]
<1> DEFINE N == Len(f)
           l == f[N]
           h == [l EXCEPT !.end = n.end]
<1>0. /\ n \in TrueFrames /\ n.start \in Nat /\ n.end \in Nat
      /\ n.start <= n.end /\ off < n.end /\ n.end <= total
  BY FrameIs DEF Fits
<1>1. f \in Seq(TrueFrames) /\ N \in Nat /\ N \in 1..N
  BY ListIs
<1>2. /\ \A i \in 1..N : /\ f[i].start \in Nat /\ f[i].end \in Nat
                         /\ f[i].start <= f[i].end /\ off < f[i].end
                         /\ f[i].end <= total
      /\ \A i, j \in 1..N : i < j => f[i].start <= f[j].start /\ f[i].end < f[j].end
  BY ListIs
<1>3. l \in TrueFrames /\ l.start \in Nat /\ l.end \in Nat
  BY <1>1, <1>2
<1>5. h.start = l.start /\ h.end = n.end /\ ~h.in_pkt /\ h \in TrueFrames
  <2>1. LongerOf(h, l, n.end) /\ ~l.in_pkt
    BY DEF LongerOf
  <2> HIDE DEF h, l
  <2> QED
    BY <1>0, <1>3, <2>1, LongerFrame
<1>7. g = [f EXCEPT ![N] = h]
  BY DEF MergeOf
<1> HIDE DEF h
<1>8. /\ g \in Seq(TrueFrames) /\ Len(g) = N /\ g[N] = h
      /\ \A i \in 1..(N - 1) : g[i] = f[i]
  BY <1>1, <1>5, <1>7
<1>9. l.start <= n.start /\ l.end < n.end /\ n.start <= l.end
  OBVIOUS
<1>13. l.start <= l.end
  BY <1>1, <1>2
<1>14. l = f[N]
  OBVIOUS
<1> HIDE DEF N, l
<1>10. \A i \in 1..N : i = N \/ (i \in 1..(N - 1) /\ i < N)
  BY <1>1
<1>11. IsList(g, off, total)
  <2>1. ASSUME NEW i \in 1..Len(g)
        PROVE  g[i].start <= g[i].end /\ off < g[i].end /\ g[i].end <= total
    <3>1. CASE i = N
      <4>1. g[i] = h
        BY <1>8, <3>1
      <4>2. h.start \in Nat /\ h.start <= n.start
        BY <1>3, <1>5, <1>9
      <4>3. h.start <= h.end /\ off < h.end /\ h.end <= total
        BY <1>0, <1>5, <4>2
      <4> QED
        BY <4>1, <4>3
    <3>2. CASE i \in 1..(N - 1)
      BY <1>2, <1>8, <2>1, <3>2
    <3> QED
      BY <1>8, <1>10, <3>1, <3>2
  <2>2. ASSUME NEW i \in 1..Len(g), NEW j \in 1..Len(g), i < j
        PROVE  g[i].start <= g[j].start /\ g[i].end < g[j].end
    <3>1. i \in 1..(N - 1) /\ g[i] = f[i] /\ i \in 1..N /\ j \in 1..N
      BY <1>1, <1>8, <2>2
    <3>2. CASE j = N
      <4>1. f[i].start <= l.start /\ f[i].end < l.end
        BY <1>2, <1>14, <2>2, <3>1, <3>2
      <4>2. f[i].start \in Nat /\ f[i].end \in Nat
        BY <1>2, <3>1
      <4>3. g[j] = h /\ h.start = l.start /\ h.end = n.end
        BY <1>5, <1>8, <3>2
      <4>4. f[i].start <= h.start /\ f[i].end < h.end
        BY <1>0, <1>3, <1>9, <4>1, <4>2, <4>3
      <4> QED
        BY <3>1, <4>3, <4>4
    <3>3. CASE j \in 1..(N - 1)
      BY <1>2, <1>8, <2>2, <3>1, <3>3
    <3> QED
      BY <1>10, <3>1, <3>2, <3>3
  <2> QED
    BY <1>8, <2>1, <2>2 DEF IsList, Ordered
<1>12. ASSUME NEW o \in Nat PROVE InList(o, g) <=> InList(o, f) \/ InFrame(o, n)
  <2>0. InFrame(o, h) <=> InFrame(o, l) \/ InFrame(o, n)
    BY <1>0, <1>3, <1>5, <1>9, <1>13 DEF InFrame
  <2>1. ASSUME InList(o, g) PROVE InList(o, f) \/ InFrame(o, n)
    <3>1. PICK i \in 1..N : InFrame(o, g[i])
      BY <1>8, <2>1 DEF InList
    <3>2. CASE i = N
      BY <1>1, <1>8, <1>14, <2>0, <3>1, <3>2 DEF InList, N
    <3>3. CASE i \in 1..(N - 1)
      BY <1>8, <3>1, <3>3 DEF InList, N
    <3> QED
      BY <1>10, <3>2, <3>3
  <2>2. ASSUME InList(o, f) PROVE InList(o, g)
    <3>1. PICK i \in 1..N : InFrame(o, f[i])
      BY <2>2 DEF InList, N
    <3>2. CASE i = N
      BY <1>1, <1>8, <1>14, <2>0, <3>1, <3>2 DEF InList
    <3>3. CASE i \in 1..(N - 1)
      BY <1>8, <3>1, <3>3 DEF InList
    <3> QED
      BY <1>10, <3>2, <3>3
  <2>3. ASSUME InFrame(o, n) PROVE InList(o, g)
    BY <1>1, <1>8, <2>0, <2>3 DEF InList
  <2> QED
    BY <2>1, <2>2, <2>3
<1> QED
  BY <1>5, <1>8, <1>11, <1>12, <1>14 DEF N

\* What a frame moved to the ring buffer, as far as it lies behind limit, does
\* to the buffer.
MovedAs(m, f, limit, r) == m = MoveFrame(f, limit, r)

LEMMA MoveFrameIs ==
    ASSUME NEW r, NEW off \in Nat, NEW total \in Nat, total <= MAX_OFFSET,
           RbufOf(r, off, total), NEW f, Fits(f, off, total),
           NEW limit \in Nat, off <= limit, limit < f.end, Backed(f, r, off),
           NEW m, MovedAs(m, f, limit, r)
    PROVE  /\ m.ok \in BOOLEAN
           /\ RbufOf(m.rbuf, off, total) /\ Kept(r, m.rbuf, off)
           /\ m.ok => \A o \in Nat : limit <= o /\ InFrame(o, f) => Stored(m.rbuf, o)
<1> DEFINE from == MaxOf(limit, f.start)
           s == ring_buf_write_at(r, from, f.end, f.data)
<1>1. /\ f \in TrueFrames /\ f.start \in Nat /\ f.end \in Nat /\ f.in_pkt \in BOOLEAN
      /\ f.start <= f.end /\ off < f.end /\ f.end <= total
      /\ f.in_pkt => f.data = [o \in f.start..(f.end - 1) |-> o + 1]
  BY FrameIs DEF Fits
<1>2. Kept(r, r, off)
  BY DEF Kept
<1>3. from \in Nat /\ limit <= from /\ f.start <= from /\ from <= f.end
      /\ \A o \in Nat : limit <= o /\ f.start <= o => from <= o
  BY <1>1 DEF MaxOf
<1>4. CASE ~f.in_pkt
  <2>1. m.ok = TRUE /\ m.rbuf = r
    BY <1>4 DEF MovedAs, MoveFrame
  <2>2. \A o \in Nat : limit <= o /\ InFrame(o, f) => Stored(r, o)
    BY <1>4 DEF Backed
  <2> QED
    BY <1>2, <2>1, <2>2
<1>5. CASE f.in_pkt /\ ~WriteFits(r, from, f.end)
  <2>1. m.ok = FALSE /\ m.rbuf = r
    BY <1>5 DEF MovedAs, MoveFrame
  <2> QED
    BY <1>2, <2>1
<1>6. CASE f.in_pkt /\ WriteFits(r, from, f.end)
  <2>1. m.ok = TRUE /\ m.rbuf = s
    BY <1>6 DEF MovedAs, MoveFrame
  <2> DEFINE byte == f.data
             to == f.end
  <2>2. \A o \in from..(to - 1) : byte[o] = ByteAt(o)
    BY <1>1, <1>3, <1>6 DEF ByteAt
  <2>3. s = ring_buf_write_at(r, from, to, byte) /\ to \in Nat /\ to <= total
        /\ off < to /\ from <= to /\ WriteFits(r, from, to)
    BY <1>1, <1>3, <1>6
  <2> HIDE DEF s, from, byte, to
  <2>4. /\ RbufOf(s, off, total) /\ Kept(r, s, off)
        /\ \A o \in Nat : from <= o /\ o < to => Stored(s, o)
    BY <1>3, <2>2, <2>3, Written
  <2>5. \A o \in Nat : limit <= o /\ InFrame(o, f) => Stored(s, o)
    BY <1>3, <2>4 DEF InFrame, to
  <2> QED
    BY <2>1, <2>4, <2>5
<1> QED
  BY <1>1, <1>4, <1>5, <1>6

\* The list d holds what the first i frames of g hold, in order.
Carried(d, i, g, off, total) ==
    /\ IsList(d, off, total)
    /\ \A o \in Nat : InList(o, d) <=> \E j \in 1..i : InFrame(o, g[j])
    /\ i = 0 => d = <<>>
    /\ i > 0 => /\ d # <<>>
                /\ d[1].start = g[1].start /\ d[1].end >= g[1].end
                /\ d[Len(d)].start <= g[i].start /\ d[Len(d)].end = g[i].end

LEMMA CarriedOn ==
    ASSUME NEW g, NEW off \in Nat, NEW total, IsList(g, off, total),
           NEW i \in 1..Len(g), NEW d, Carried(d, i - 1, g, off, total),
           NEW e, IsList(e, off, total),
           \A o \in Nat : InList(o, e) <=> InList(o, d) \/ InFrame(o, g[i]),
           e # <<>>,
           d = <<>> => e[1].start = g[i].start /\ e[1].end = g[i].end,
           d # <<>> => e[1].start = d[1].start /\ e[1].end >= d[1].end,
           e[Len(e)].start <= g[i].start, e[Len(e)].end = g[i].end
    PROVE  Carried(e, i, g, off, total)
<1>1. Len(g) \in Nat /\ i \in Nat /\ i > 0 /\ 1 \in 1..Len(g)
  BY ListIs
<1>2. i - 1 = 0 \/ i - 1 > 0
  BY <1>1
<1>3. ASSUME NEW o \in Nat PROVE InList(o, e) <=> \E j \in 1..i : InFrame(o, g[j])
  <2>1. InList(o, d) <=> \E j \in 1..(i - 1) : InFrame(o, g[j])
    BY DEF Carried
  <2>2. \A j : j \in 1..i <=> j \in 1..(i - 1) \/ j = i
    BY <1>1
  <2> QED
    BY <2>1, <2>2
<1>4. e[1].start = g[1].start /\ e[1].end >= g[1].end
  <2>0. g[1].end \in Nat
    BY <1>1, ListIs
  <2>1. CASE i - 1 = 0
    <3>1. i = 1 /\ d = <<>>
      BY <1>1, <2>1 DEF Carried
    <3> QED
      BY <2>0, <3>1
  <2>2. CASE i - 1 > 0
    <3>1. d # <<>> /\ d[1].start = g[1].start /\ d[1].end >= g[1].end
      BY <2>2 DEF Carried
    <3>2. d[1].end \in Nat /\ e[1].end \in Nat
      <4>1. IsList(d, off, total)
        BY DEF Carried
      <4>2. 1 \in 1..Len(d) /\ 1 \in 1..Len(e)
        BY <3>1, <4>1, ListIs
      <4> QED
        BY <4>1, <4>2, ListIs
    <3> QED
      BY <2>0, <3>1, <3>2
  <2> QED
    BY <1>2, <2>1, <2>2
<1> QED
  BY <1>1, <1>3, <1>4 DEF Carried

\* The state of the loop over the frames g, of which i were seen.  The ring
\* buffer was r.  Until a frame does not fit, all data is in the ring buffer.
MoveStates == [done : Seq(TrueFrames), limit : Nat, rbuf : Buffers, ok : BOOLEAN]

Moving(s, i, g, r, off, total) ==
    /\ s \in MoveStates
    /\ Carried(s.done, i, g, off, total)
    /\ RbufOf(s.rbuf, off, total) /\ Kept(r, s.rbuf, off)
    /\ \A j \in 1..Len(s.done) : Backed(s.done[j], s.rbuf, off)
    /\ s.ok => /\ \A j \in 1..Len(s.done) : ~s.done[j].in_pkt
               /\ s.limit = IF i = 0 THEN off ELSE g[i].end

\* The frame before in the list ends before the next.
LEMMA CarriedIs ==
    ASSUME NEW g, NEW off \in Nat, NEW total, IsList(g, off, total),
           NEW i \in 1..Len(g), NEW d, Carried(d, i - 1, g, off, total)
    PROVE  /\ IsList(d, off, total) /\ Fits(g[i], off, total)
           /\ d # <<>> => /\ d[Len(d)].start <= g[i].start
                          /\ d[Len(d)].end < g[i].end
           /\ d = <<>> <=> i - 1 = 0
<1>1. Len(g) \in Nat /\ i \in Nat /\ i > 0
  BY ListIs
<1>2. IsList(d, off, total)
  BY DEF Carried
<1>3. Fits(g[i], off, total)
  BY ListIs DEF Fits
<1>4. i - 1 = 0 \/ i - 1 > 0
  BY <1>1
<1>5. d = <<>> <=> i - 1 = 0
  BY <1>4 DEF Carried
<1>6. ASSUME d # <<>>
      PROVE  d[Len(d)].start <= g[i].start /\ d[Len(d)].end < g[i].end
  <2> DEFINE k == i - 1
             l == d[Len(d)]
  <2>1. k > 0 /\ k \in 1..Len(g) /\ k < i
    BY <1>1, <1>4, <1>5, <1>6
  <2>2. l.start <= g[k].start /\ l.end = g[k].end
    BY <2>1 DEF Carried
  <2>3. g[k].start <= g[i].start /\ g[k].end < g[i].end
    BY <2>1, ListIs
  <2>4. g[k].start \in Nat /\ g[i].start \in Nat
    BY <2>1, ListIs
  <2>5. l.start \in Nat
    <3>1. Len(d) \in 1..Len(d)
      BY <1>2, <1>6, ListIs
    <3> QED
      BY <1>2, <3>1, ListIs
  <2> HIDE DEF k
  <2> QED
    BY <2>2, <2>3, <2>4, <2>5
<1> QED
  BY <1>2, <1>3, <1>5, <1>6

LEMMA AppendCarried ==
    ASSUME NEW g, NEW off \in Nat, NEW total, IsList(g, off, total),
           NEW i \in 1..Len(g), NEW d, Carried(d, i - 1, g, off, total),
           NEW h \in TrueFrames, h.start = g[i].start, h.end = g[i].end,
           NEW e, AppendOf(e, d, h)
    PROVE  /\ Carried(e, i, g, off, total)
           /\ Len(d) \in Nat /\ Len(e) = Len(d) + 1 /\ e[Len(e)] = h
           /\ \A j \in 1..Len(d) : e[j] = d[j]
<1>1. /\ IsList(d, off, total) /\ Fits(g[i], off, total)
      /\ d # <<>> => d[Len(d)].start <= g[i].start /\ d[Len(d)].end < g[i].end
  BY CarriedIs
<1>2. Fits(h, off, total)
  BY <1>1 DEF Fits
<1>3. /\ IsList(e, off, total)
      /\ \A o : InList(o, e) <=> InList(o, d) \/ InFrame(o, h)
      /\ Len(e) = Len(d) + 1 /\ e[Len(e)] = h
      /\ \A j \in 1..Len(d) : e[j] = d[j]
  <2>1. d # <<>> => d[Len(d)].start <= h.start /\ d[Len(d)].end < h.end
    BY <1>1
  <2> QED
    BY <1>1, <1>2, <2>1, AppendIs
<1>4. Len(d) \in Nat /\ Len(e) \in Nat /\ d \in Seq(TrueFrames) /\ e \in Seq(TrueFrames)
  BY <1>1, <1>3, ListIs
<1>5. e # <<>>
  BY <1>3, <1>4
<1>6. d = <<>> => e[1].start = g[i].start /\ e[1].end = g[i].end
  <2> SUFFICES ASSUME d = <<>> PROVE e[1].start = g[i].start /\ e[1].end = g[i].end
    OBVIOUS
  <2>1. Len(d) = 0
    OBVIOUS
  <2>2. e[1] = h
    BY <1>3, <2>1
  <2> QED
    BY <2>2
<1>7. d # <<>> => e[1].start = d[1].start /\ e[1].end >= d[1].end
  <2> SUFFICES ASSUME d # <<>> PROVE e[1].start = d[1].start /\ e[1].end >= d[1].end
    OBVIOUS
  <2>1. 1 \in 1..Len(d)
    BY <1>4
  <2>2. e[1] = d[1] /\ d[1].end \in Nat
    BY <1>1, <1>3, <2>1, ListIs
  <2> QED
    BY <2>2
<1>8. e[Len(e)].start <= g[i].start /\ e[Len(e)].end = g[i].end
  <2>1. g[i].start \in Nat
    BY ListIs
  <2> QED
    BY <1>3, <2>1
<1>9. \A o \in Nat : InList(o, e) <=> InList(o, d) \/ InFrame(o, g[i])
  BY <1>3 DEF InFrame
<1>10. Carried(e, i, g, off, total)
  BY <1>3, <1>5, <1>6, <1>7, <1>8, <1>9, CarriedOn
<1> QED
  BY <1>3, <1>4, <1>10

LEMMA MergeCarried ==
    ASSUME NEW g, NEW off \in Nat, NEW total, IsList(g, off, total),
           NEW i \in 1..Len(g), NEW d, Carried(d, i - 1, g, off, total), d # <<>>,
           ~d[Len(d)].in_pkt, d[Len(d)].end >= g[i].start,
           NEW e, MergeOf(e, d, g[i])
    PROVE  /\ Carried(e, i, g, off, total)
           /\ Len(d) \in Nat \ {0} /\ Len(e) = Len(d)
           /\ ~e[Len(d)].in_pkt /\ e[Len(d)].start = d[Len(d)].start
           /\ e[Len(d)].end = g[i].end
           /\ \A j \in 1..(Len(d) - 1) : e[j] = d[j]
<1> DEFINE n == g[i]
<1>1. /\ IsList(d, off, total) /\ Fits(n, off, total)
      /\ d[Len(d)].start <= n.start /\ d[Len(d)].end < n.end
  BY CarriedIs
<1>2. /\ Len(d) \in 1..Len(d) /\ 1 \in 1..Len(d) /\ Len(d) \in Nat \ {0}
      /\ d[Len(d)].end \in Nat /\ d[1].end \in Nat
  <2>1. Len(d) \in 1..Len(d) /\ 1 \in 1..Len(d) /\ Len(d) \in Nat \ {0}
    BY <1>1, ListIs
  <2> QED
    BY <1>1, <2>1, ListIs
<1>3. n.start \in Nat /\ n.end \in Nat
  BY ListIs
<1>4. n.start <= d[Len(d)].end /\ MergeOf(e, d, n)
  BY <1>2, <1>3
<1>9. n = g[i]
  OBVIOUS
<1> HIDE DEF n
<1>5. /\ IsList(e, off, total)
      /\ \A o \in Nat : InList(o, e) <=> InList(o, d) \/ InFrame(o, n)
      /\ Len(e) = Len(d)
      /\ e[Len(d)].start = d[Len(d)].start /\ e[Len(d)].end = n.end
      /\ ~e[Len(d)].in_pkt
      /\ \A j \in 1..(Len(d) - 1) : e[j] = d[j]
  BY <1>1, <1>4, MergeIs
<1>6. e # <<>>
  <2>1. e \in Seq(TrueFrames)
    BY <1>5, ListIs
  <2> QED
    BY <1>2, <1>5, <2>1
<1>7. e[1].start = d[1].start /\ e[1].end >= d[1].end
  <2>1. CASE Len(d) = 1
    <3>1. e[1].start = d[1].start /\ e[1].end = n.end /\ d[1].end < n.end
      BY <1>1, <1>5, <2>1
    <3> QED
      BY <1>2, <1>3, <3>1
  <2>2. CASE Len(d) # 1
    <3> DEFINE L == Len(d)
    <3>3. L \in Nat /\ L # 0 /\ L # 1
      BY <1>2, <2>2
    <3>1. 1 \in 1..(L - 1)
      <4> HIDE DEF L
      <4> QED
        BY <3>3
    <3>2. e[1] = d[1]
      BY <1>5, <3>1
    <3> QED
      BY <1>2, <3>2
  <2> QED
    BY <2>1, <2>2
<1>8. Carried(e, i, g, off, total)
  <2>1. e[Len(e)].start <= g[i].start /\ e[Len(e)].end = g[i].end
    BY <1>1, <1>5, <1>9
  <2>2. \A o \in Nat : InList(o, e) <=> InList(o, d) \/ InFrame(o, g[i])
    BY <1>5, <1>9
  <2> QED
    BY <1>5, <1>6, <1>7, <2>1, <2>2, CarriedOn
<1> QED
  BY <1>2, <1>5, <1>8, <1>9

\* One step of the loop.
LEMMA MoveStepKeeps ==
    ASSUME NEW g, NEW r, NEW off \in Nat, NEW total \in Nat, total <= MAX_OFFSET,
           IsList(g, off, total), \A j \in 1..Len(g) : Backed(g[j], r, off),
           NEW i \in 1..Len(g), NEW s, Moving(s, i - 1, g, r, off, total),
           NEW t, t = MoveStep(s, g[i])
    PROVE  Moving(t, i, g, r, off, total)
<1> DEFINE f == g[i]
           m == MoveFrame(f, s.limit, s.rbuf)
           d == s.done
           q == m.rbuf
           L == Len(d)
<1>1. s \in MoveStates /\ d \in Seq(TrueFrames) /\ s.limit \in Nat /\ s.ok \in BOOLEAN
      /\ s.rbuf \in Buffers
  BY DEF Moving, MoveStates
<1>2. /\ Carried(d, i - 1, g, off, total)
      /\ RbufOf(s.rbuf, off, total) /\ Kept(r, s.rbuf, off)
      /\ \A j \in 1..L : Backed(d[j], s.rbuf, off)
  BY DEF Moving
<1>3. /\ IsList(d, off, total) /\ Fits(f, off, total)
      /\ d # <<>> => d[Len(d)].start <= f.start /\ d[Len(d)].end < f.end
      /\ d = <<>> <=> i - 1 = 0
  BY <1>2, CarriedIs
<1>4. f \in TrueFrames /\ f.start \in Nat /\ f.end \in Nat /\ off < f.end
  BY <1>3, FrameIs DEF Fits
<1>5. Len(g) \in Nat /\ i \in Nat /\ i > 0 /\ L \in Nat
  BY <1>3, ListIs
<1>6. Backed(f, s.rbuf, off)
  <2>1. Backed(g[i], r, off)
    OBVIOUS
  <2> QED
    BY <1>2, <2>1 DEF Kept, Backed
<1>7. CASE ~s.ok \/ ~m.ok
  <2> DEFINE e == Append(d, f)
  <2>1. t = [s EXCEPT !.ok = FALSE, !.done = e]
    BY <1>7 DEF MoveStep
  <2>2. /\ AppendOf(e, d, f) /\ e \in Seq(TrueFrames)
        /\ f.start = g[i].start /\ f.end = g[i].end
    BY <1>1, <1>4 DEF AppendOf
  <2> HIDE DEF e, f, m, d
  <2>3. /\ t \in MoveStates /\ t.done = e /\ t.rbuf = s.rbuf /\ ~t.ok
    BY <1>1, <2>1, <2>2 DEF MoveStates
  <2>4. /\ Carried(e, i, g, off, total)
        /\ Len(e) = Len(d) + 1 /\ e[Len(e)] = f
        /\ \A j \in 1..Len(d) : e[j] = d[j]
    <3>1. f \in TrueFrames /\ Carried(d, i - 1, g, off, total)
      BY <1>2, <1>4
    <3> HIDE DEF q, L
    <3> QED
      BY <2>2, <3>1, AppendCarried
  <2>5. ASSUME NEW j \in 1..Len(e) PROVE Backed(e[j], s.rbuf, off)
    <3>1. j \in 1..L \/ j = L + 1
      BY <1>5, <2>4
    <3> QED
      BY <1>2, <1>6, <2>4, <3>1
  <2> QED
    BY <1>2, <2>3, <2>4, <2>5 DEF Moving
<1>8. CASE s.ok /\ m.ok
  <2>1. /\ \A j \in 1..L : ~d[j].in_pkt
        /\ s.limit = IF i - 1 = 0 THEN off ELSE g[i - 1].end
    BY <1>8 DEF Moving
  <2>2. off <= s.limit /\ s.limit < f.end
    <3>1. CASE i - 1 = 0
      BY <1>4, <2>1, <3>1
    <3>2. CASE i - 1 # 0
      <4> DEFINE k == i - 1
      <4>1. k \in 1..Len(g) /\ k < i
        BY <1>5, <3>2
      <4>2. g[k].end < f.end /\ off < g[k].end /\ g[k].end \in Nat
        BY <4>1, ListIs
      <4> QED
        BY <2>1, <3>2, <4>2
    <3> QED
      BY <3>1, <3>2
  <2>10. MovedAs(m, f, s.limit, s.rbuf) /\ m.ok
    BY <1>8 DEF MovedAs
  <2>3. m = MoveFrame(f, s.limit, s.rbuf) /\ f = g[i]
    OBVIOUS
  <2> HIDE DEF m, f
  <2>4. /\ RbufOf(q, off, total) /\ Kept(s.rbuf, q, off)
        /\ \A o \in Nat : s.limit <= o /\ InFrame(o, f) => Stored(q, o)
    BY <1>1, <1>2, <1>3, <1>6, <2>2, <2>10, MoveFrameIs
  <2>5. Kept(r, q, off)
    BY <1>2, <2>4 DEF Kept
  <2>6. q \in Buffers
    BY <2>4, RbufIs
  <2>7. \A j \in 1..L : Backed(d[j], q, off)
    BY <1>2, <2>4, BackedOn
  <2>8. CASE L > 0 /\ d[L].end >= f.start
    <3> DEFINE e == [d EXCEPT ![L].end = f.end]
    <3>1. t = [done |-> e, limit |-> f.end, rbuf |-> q, ok |-> TRUE]
      BY <1>8, <2>3, <2>8 DEF MoveStep
    <3>2. d # <<>> /\ L \in 1..L /\ MergeOf(e, d, g[i])
      BY <1>1, <1>5, <2>3, <2>8 DEF MergeOf
    <3> HIDE DEF e, d
    <3>3. /\ Carried(e, i, g, off, total)
          /\ Len(d) \in Nat \ {0} /\ Len(e) = Len(d)
          /\ ~e[Len(d)].in_pkt /\ e[Len(d)].start = d[Len(d)].start
          /\ e[Len(d)].end = f.end
          /\ \A j \in 1..(Len(d) - 1) : e[j] = d[j]
      <4>1. ~d[Len(d)].in_pkt /\ d[Len(d)].end >= g[i].start
        BY <2>1, <2>3, <2>8, <3>2
      <4>2. /\ Carried(e, i, g, off, total)
            /\ Len(d) \in Nat \ {0} /\ Len(e) = Len(d)
            /\ ~e[Len(d)].in_pkt /\ e[Len(d)].start = d[Len(d)].start
            /\ e[Len(d)].end = g[i].end
            /\ \A j \in 1..(Len(d) - 1) : e[j] = d[j]
        BY <1>2, <3>2, <4>1, MergeCarried
      <4> QED
        BY <2>3, <4>2, Zenon
    <3>4. e \in Seq(TrueFrames)
      BY <3>3, ListIs DEF Carried
    <3>5. t \in MoveStates /\ t.done = e /\ t.rbuf = q /\ t.limit = f.end /\ t.ok
      BY <1>4, <2>6, <3>1, <3>4 DEF MoveStates
    <3>6. \A j \in 1..L : j \in 1..(L - 1) \/ j = L
      BY <1>5
    <3>7. Backed(e[L], q, off)
      <4> SUFFICES ASSUME NEW o \in Nat, off <= o, InFrame(o, e[L])
                   PROVE  Stored(q, o)
        BY DEF Backed
      <4>1. d[L].start <= o /\ o < f.end
        BY <3>3 DEF InFrame
      <4>2. d[L].end \in Nat /\ d[L].start \in Nat
        BY <1>3, <3>2, ListIs
      <4>3. CASE o < d[L].end
        <5>1. InFrame(o, d[L]) /\ ~d[L].in_pkt /\ Backed(d[L], q, off)
          BY <2>1, <2>7, <3>2, <4>1, <4>3 DEF InFrame
        <5> QED
          BY <5>1 DEF Backed
      <4>4. CASE ~(o < d[L].end)
        <5>1. s.limit = d[L].end
          <6>1. i - 1 # 0 /\ i - 1 > 0
            BY <1>3, <1>5, <3>2
          <6>2. d[L].end = g[i - 1].end
            BY <1>2, <6>1 DEF Carried
          <6> QED
            BY <2>1, <6>1, <6>2
        <5>2. s.limit <= o /\ f.start <= o
          BY <1>4, <2>8, <4>2, <4>4, <5>1
        <5> QED
          BY <2>4, <4>1, <5>2 DEF InFrame
      <4> QED
        BY <4>3, <4>4
    <3>8. \A j \in 1..Len(e) : Backed(e[j], q, off) /\ ~e[j].in_pkt
      BY <2>1, <2>7, <3>3, <3>6, <3>7
    <3> QED
      BY <1>5, <2>3, <2>4, <2>5, <3>3, <3>5, <3>8 DEF Moving
  <2>9. CASE ~(L > 0 /\ d[L].end >= f.start)
    <3> DEFINE h == InRbuf(f)
               e == Append(d, h)
    <3>1. t = [done |-> e, limit |-> f.end, rbuf |-> q, ok |-> TRUE]
      BY <1>8, <2>3, <2>9 DEF MoveStep
    <3>2. /\ h \in TrueFrames /\ ~h.in_pkt /\ h.start = f.start /\ h.end = f.end
      BY <1>4, InRbufIs
    <3>3. AppendOf(e, d, h)
      BY DEF AppendOf
    <3> HIDE DEF e, h, d
    <3>4. /\ Carried(e, i, g, off, total)
          /\ Len(e) = Len(d) + 1 /\ e[Len(e)] = h
          /\ \A j \in 1..Len(d) : e[j] = d[j]
      BY <1>2, <2>3, <3>2, <3>3, AppendCarried
    <3>5. e \in Seq(TrueFrames)
      BY <3>4, ListIs DEF Carried
    <3>6. t \in MoveStates /\ t.done = e /\ t.rbuf = q /\ t.limit = f.end /\ t.ok
      BY <1>4, <2>6, <3>1, <3>5 DEF MoveStates
    <3>7. Backed(h, q, off)
      <4> SUFFICES ASSUME NEW o \in Nat, off <= o, InFrame(o, h) PROVE Stored(q, o)
        BY DEF Backed
      <4>1. InFrame(o, f) /\ f.start <= o
        BY <3>2 DEF InFrame
      <4>2. s.limit <= o
        <5>1. CASE d = <<>>
          BY <1>3, <2>1, <5>1
        <5>2. CASE d # <<>>
          <6>1. L > 0 /\ L \in 1..L
            BY <1>1, <5>2
          <6>2. i - 1 # 0 /\ i - 1 > 0
            BY <1>3, <1>5, <5>2
          <6>3. d[L].end = g[i - 1].end
            BY <1>2, <6>2 DEF Carried
          <6>4. d[L].end \in Nat /\ ~(d[L].end >= f.start)
            BY <1>3, <2>9, <6>1, ListIs
          <6> QED
            BY <1>4, <2>1, <4>1, <6>2, <6>3, <6>4
        <5> QED
          BY <5>1, <5>2
      <4> QED
        BY <2>4, <4>1, <4>2
    <3>8. \A j \in 1..Len(e) : Backed(e[j], q, off) /\ ~e[j].in_pkt
      <4>1. \A j \in 1..Len(e) : j \in 1..L \/ j = L + 1
        BY <1>5, <3>4
      <4>2. e[L + 1] = h
        BY <3>4
      <4> QED
        BY <2>1, <2>7, <3>2, <3>4, <3>7, <4>1, <4>2
    <3> QED
      BY <1>5, <2>3, <2>4, <2>5, <3>4, <3>6, <3>8 DEF Moving
  <2> QED
    BY <2>8, <2>9
<1>9. s.ok \in BOOLEAN
  BY <1>1
<1> QED
  BY <1>7, <1>8

\* The states of the whole loop over the frames g.
LoopOver(step, g) ==
    step = CHOOSE h : h = [i \in 0..Len(g) |->
             IF i = 0
             THEN [done |-> <<>>, limit |-> offset, rbuf |-> rbuf, ok |-> TRUE]
             ELSE MoveStep(h[i - 1], g[i])]

LEMMA MoveLoop ==
    ASSUME size \in Nat, size <= MAX_OFFSET, offset \in Nat,
           RbufOf(rbuf, offset, size), NEW g, IsList(g, offset, size),
           \A j \in 1..Len(g) : Backed(g[j], rbuf, offset),
           NEW step, LoopOver(step, g)
    PROVE  Moving(step[Len(g)], Len(g), g, rbuf, offset, size)
<1> DEFINE n == Len(g)
           first == [done |-> <<>>, limit |-> offset, rbuf |-> rbuf, ok |-> TRUE]
           Computes(h) == h = [i \in 0..n |-> IF i = 0 THEN first
                                              ELSE MoveStep(h[i - 1], g[i])]
           M(s, i) == Moving(s, i, g, rbuf, offset, size)
           T == [i \in 0..n |-> {s \in MoveStates : M(s, i)}]
<1>1. n \in Nat
  BY ListIs
<1>2. first \in MoveStates /\ first.done = <<>> /\ first.rbuf = rbuf /\ first.ok
      /\ first.limit = offset
  BY RbufIs DEF MoveStates
<1>3. M(first, 0)
  <2>1. Carried(<<>>, 0, g, offset, size)
    <3>1. IsList(<<>>, offset, size)
      BY DEF IsList, Ordered
    <3>2. \A o \in Nat : ~InList(o, <<>>)
      BY DEF InList
    <3>3. ~(\E j \in 1..0 : TRUE) /\ ~(0 > 0)
      OBVIOUS
    <3>4. \A o \in Nat : InList(o, <<>>) <=> \E j \in 1..0 : InFrame(o, g[j])
      BY <3>2, <3>3
    <3> QED
      BY <3>1, <3>3, <3>4 DEF Carried
  <2>2. Kept(rbuf, rbuf, offset)
    BY DEF Kept
  <2>3. \A j \in 1..Len(first.done) : Backed(first.done[j], rbuf, offset)
                                      /\ ~first.done[j].in_pkt
    BY <1>2
  <2> HIDE DEF first
  <2>4. Carried(first.done, 0, g, offset, size)
    BY <1>2, <2>1
  <2> QED
    BY <1>2, <2>2, <2>3, <2>4 DEF Moving
<1>4. step = CHOOSE h : Computes(h)
  BY DEF LoopOver
<1> HIDE DEF first
<1>5. ASSUME NEW i \in 1..n, NEW s, M(s, i - 1)
      PROVE  M(MoveStep(s, g[i]), i) /\ MoveStep(s, g[i]) \in MoveStates
  <2> DEFINE t == MoveStep(s, g[i])
  <2>1. t = MoveStep(s, g[i])
    OBVIOUS
  <2> HIDE DEF t
  <2>2. M(t, i)
    BY <1>5, <2>1, MoveStepKeeps
  <2> QED
    BY <2>1, <2>2 DEF Moving
<1> HIDE DEF M
<1>6. \E h : Computes(h)
  <2> DEFINE F(s, i) == IF MoveStep(s, g[i]) \in MoveStates THEN MoveStep(s, g[i])
                        ELSE s
             G == [i \in 1..n |-> [s \in MoveStates |-> F(s, i)]]
  <2>1. G \in [1..n -> [MoveStates -> MoveStates]]
    OBVIOUS
  <2>2. PICK h : IsLoop(h, n, MoveStates, first, G)
    <3> HIDE DEF G, n
    <3> QED
      BY <1>1, <1>2, <2>1, LoopExists
  <2>3. ASSUME NEW i \in 1..n PROVE h[i] = F(h[i - 1], i) /\ i - 1 \in 0..n
                                    /\ h[i - 1] \in MoveStates
    <3>1. i - 1 \in 0..n
      BY <1>1
    <3>2. h[i - 1] \in MoveStates
      BY <2>2, <3>1 DEF IsLoop
    <3>3. G[i][h[i - 1]] = F(h[i - 1], i)
      BY <3>2
    <3> HIDE DEF F, G
    <3> QED
      BY <2>2, <3>1, <3>2, <3>3 DEF IsLoop
  <2>4. \A i \in 0..n : h[i] \in T[i]
    <3>1. h[0] \in T[0]
      BY <1>1, <1>2, <1>3, <2>2 DEF IsLoop
    <3>2. ASSUME NEW i \in 1..n, h[i - 1] \in T[i - 1] PROVE h[i] \in T[i]
      <4>1. M(h[i - 1], i - 1)
        BY <2>3, <3>2
      <4>2. M(MoveStep(h[i - 1], g[i]), i) /\ MoveStep(h[i - 1], g[i]) \in MoveStates
        BY <1>5, <4>1
      <4>3. h[i] = MoveStep(h[i - 1], g[i])
        BY <2>3, <4>2
      <4> QED
        BY <1>1, <4>2, <4>3
    <3> HIDE DEF T, n
    <3> QED
      BY <1>1, <3>1, <3>2, LoopProgress
  <2>5. ASSUME NEW i \in 1..n PROVE h[i] = MoveStep(h[i - 1], g[i])
    <3>1. M(h[i - 1], i - 1)
      BY <2>3, <2>4
    <3>2. MoveStep(h[i - 1], g[i]) \in MoveStates
      BY <1>5, <3>1
    <3> QED
      BY <2>3, <3>2
  <2>6. h = [i \in 0..n |-> h[i]] /\ h[0] = first
    BY <2>2 DEF IsLoop
  <2>7. \A i \in 0..n : h[i] = IF i = 0 THEN first ELSE MoveStep(h[i - 1], g[i])
    <3> HIDE DEF F, G, T, Computes
    <3> SUFFICES ASSUME NEW i \in 0..n
                 PROVE  h[i] = IF i = 0 THEN first ELSE MoveStep(h[i - 1], g[i])
      OBVIOUS
    <3>1. i = 0 \/ i \in 1..n
      BY <1>1
    <3>2. CASE i = 0
      BY <2>6, <3>2
    <3>3. CASE i \in 1..n
      <4>1. i # 0
        BY <3>3
      <4> QED
        BY <2>5, <3>3, <4>1
    <3> QED
      BY <3>1, <3>2, <3>3
  <2> HIDE DEF n
  <2>8. Computes(h)
    BY <2>6, <2>7
  <2> QED
    BY <2>8
<1>7. Computes(step)
  <2> HIDE DEF Computes
  <2> QED
    BY <1>4, <1>6
<1>8. \A i \in 0..n : step[i] \in T[i]
  <2>1. step[0] \in T[0]
    <3>1. step[0] = first
      BY <1>1, <1>7
    <3> QED
      BY <1>1, <1>2, <1>3, <3>1
  <2>2. ASSUME NEW i \in 1..n, step[i - 1] \in T[i - 1] PROVE step[i] \in T[i]
    <3>1. step[i] = MoveStep(step[i - 1], g[i])
      BY <1>1, <1>7
    <3>2. i - 1 \in 0..n
      BY <1>1
    <3>3. M(step[i - 1], i - 1)
      BY <2>2, <3>2
    <3>4. M(step[i], i) /\ step[i] \in MoveStates
      BY <1>5, <3>1, <3>3
    <3> QED
      BY <1>1, <3>4
  <2> HIDE DEF T, n, Computes
  <2> QED
    BY <1>1, <2>1, <2>2, LoopProgress
<1>9. M(step[n], n)
  <2>1. n \in 0..n
    BY <1>1
  <2> QED
    BY <1>8, <2>1
<1> QED
  BY <1>9 DEF M, n

LEMMA LessThan ==
    ASSUME NEW x \in Nat, NEW y \in Nat, NEW z \in Nat, x < y, z >= y
    PROVE  x < z
OBVIOUS

\* The list f is the frame h followed by those of g.
Behind(f, h, g) ==
    /\ f \in Seq(TrueFrames) /\ Len(f) = Len(g) + 1 /\ f[1] = h
    /\ \A i \in 1..Len(g) : f[i + 1] = g[i]

\* The list f whose frames from the second one on were carried over to d.
LEMMA BehindHead ==
    ASSUME NEW f, NEW off \in Nat, NEW total, IsList(f, off, total), f # <<>>,
           NEW g, IsList(g, off, total), Behind(f, f[1], g),
           NEW d, Carried(d, Len(g), g, off, total), NEW e, Behind(e, f[1], d)
    PROVE  /\ IsList(e, off, total)
           /\ \A o \in Nat : InList(o, e) <=> InList(o, f)
           /\ e # <<>> /\ e[Len(e)].end = f[Len(f)].end
<1> DEFINE N == Len(f)
           L == Len(d)
           h == f[1]
<1>14. Len(g) \in Nat
  BY ListIs
<1>1. N \in Nat /\ N >= 1 /\ 1 \in 1..N
  BY ListIs
<1>2. L \in Nat /\ IsList(d, off, total)
  <2>1. IsList(d, off, total)
    BY DEF Carried
  <2> QED
    BY <2>1, ListIs
<1>3. /\ h.start \in Nat /\ h.end \in Nat /\ h.start <= h.end
      /\ off < h.end /\ h.end <= total
  BY <1>1, ListIs
<1>4. /\ \A i \in 1..L : /\ d[i].start \in Nat /\ d[i].end \in Nat
                         /\ d[i].start <= d[i].end /\ off < d[i].end
                         /\ d[i].end <= total
      /\ \A i, j \in 1..L : i < j => d[i].start <= d[j].start /\ d[i].end < d[j].end
  BY <1>2, ListIs
<1>5. \A i \in 1..Len(e) : i = 1 \/ (i > 1 /\ i - 1 \in 1..L /\ e[i] = d[i - 1])
  <2> SUFFICES ASSUME NEW i \in 1..Len(e), i # 1
               PROVE  i > 1 /\ i - 1 \in 1..L /\ e[i] = d[i - 1]
    OBVIOUS
  <2> DEFINE j == i - 1
  <2>1. i > 1 /\ j \in 1..L /\ j + 1 = i
    BY <1>2 DEF Behind
  <2> HIDE DEF j
  <2>2. e[j + 1] = d[j]
    BY <2>1 DEF Behind
  <2> QED
    BY <2>1, <2>2 DEF j
<1>6. d # <<>> <=> L > 0
  BY <1>2, ListIs
<1>7. d # <<>> <=> N > 1
  <2>1. Len(g) = N - 1
    BY <1>14 DEF Behind
  <2> QED
    BY <1>1, <2>1 DEF Carried
<1>8. ASSUME NEW i \in 1..L PROVE h.start <= d[i].start /\ h.end < d[i].end
  <2>1. L > 0 /\ N > 1 /\ 1 \in 1..L /\ 1 \in 1..Len(g) /\ 2 \in 1..N
        /\ (i = 1 \/ 1 < i)
    BY <1>1, <1>2, <1>6, <1>7, <1>14 DEF Behind
  <2>2. g[1] = f[2]
    BY <2>1 DEF Behind
  <2>3. d[1].start = g[1].start /\ d[1].end >= g[1].end
    <3>1. Len(g) > 0
      BY <1>1, <1>14, <2>1 DEF Behind
    <3> QED
      BY <3>1 DEF Carried
  <2>4. /\ h.start <= f[2].start /\ h.end < f[2].end
        /\ f[2].start \in Nat /\ f[2].end \in Nat
    BY <1>1, <2>1, ListIs
  <2>5. d[1].start <= d[i].start /\ d[1].end <= d[i].end
        /\ d[1].start \in Nat /\ d[1].end \in Nat
        /\ d[i].start \in Nat /\ d[i].end \in Nat
    <3>1. d[1].start \in Nat /\ d[1].end \in Nat /\ d[i].start \in Nat /\ d[i].end \in Nat
      BY <1>4, <2>1
    <3>2. CASE i = 1
      BY <3>1, <3>2
    <3>3. CASE 1 < i
      BY <1>4, <2>1, <3>1, <3>3
    <3> QED
      BY <2>1, <3>1, <3>2, <3>3
  <2>6. d[1].start = f[2].start /\ d[1].end >= f[2].end
    BY <2>2, <2>3
  <2> HIDE DEF h
  <2>7. h.start <= d[1].start
    BY <2>4, <2>6
  <2>8. h.end < d[1].end
    BY <1>3, <2>4, <2>5, <2>6, LessThan, Zenon
  <2> QED
    BY <1>3, <2>5, <2>7, <2>8
<1>9. /\ h = e[1] /\ Len(e) = L + 1 /\ e \in Seq(TrueFrames)
      /\ Len(g) = N - 1 /\ Len(g) \in Nat
  BY <1>14 DEF Behind
<1>15. \A i \in 1..Len(g) : g[i] = f[i + 1]
  BY DEF Behind
<1>16. \A i \in 1..L : e[i + 1] = d[i]
  BY DEF Behind
<1> HIDE DEF h, L
<1>10. IsList(e, off, total)
  <2>1. ASSUME NEW i \in 1..Len(e)
        PROVE  e[i].start <= e[i].end /\ off < e[i].end /\ e[i].end <= total
    <3>1. CASE i = 1
      BY <1>3, <1>9, <3>1
    <3>2. CASE i - 1 \in 1..L /\ e[i] = d[i - 1]
      BY <1>4, <3>2
    <3> QED
      BY <1>5, <3>1, <3>2
  <2>2. ASSUME NEW i \in 1..Len(e), NEW j \in 1..Len(e), i < j
        PROVE  e[i].start <= e[j].start /\ e[i].end < e[j].end
    <3>1. j - 1 \in 1..L /\ e[j] = d[j - 1]
      BY <1>2, <1>5, <1>9, <2>2
    <3>2. CASE i = 1
      BY <1>8, <1>9, <3>1, <3>2
    <3>3. CASE i - 1 \in 1..L /\ e[i] = d[i - 1]
      <4>1. i - 1 < j - 1
        BY <1>2, <1>9, <2>2
      <4> QED
        BY <1>4, <3>1, <3>3, <4>1
    <3> QED
      BY <1>5, <3>2, <3>3
  <2> QED
    BY <1>9, <2>1, <2>2 DEF IsList, Ordered
<1>11. ASSUME NEW o \in Nat PROVE InList(o, e) <=> InList(o, f)
  <2>1. InList(o, d) <=> \E j \in 1..Len(g) : InFrame(o, g[j])
    BY DEF Carried
  <2>2. InList(o, e) <=> InFrame(o, h) \/ InList(o, d)
    <3>1. ASSUME InList(o, e) PROVE InFrame(o, h) \/ InList(o, d)
      <4>1. PICK i \in 1..Len(e) : InFrame(o, e[i])
        BY <3>1 DEF InList
      <4> QED
        BY <1>5, <1>9, <4>1 DEF InList, L
    <3>2. ASSUME InFrame(o, h) PROVE InList(o, e)
      <4>1. 1 \in 1..Len(e)
        BY <1>2, <1>9
      <4> QED
        BY <1>9, <3>2, <4>1 DEF InList
    <3>3. ASSUME InList(o, d) PROVE InList(o, e)
      <4>1. PICK i \in 1..L : InFrame(o, d[i])
        BY <3>3 DEF InList, L
      <4>2. i + 1 \in 1..Len(e) /\ e[i + 1] = d[i]
        BY <1>2, <1>9, <1>16
      <4> QED
        BY <4>1, <4>2 DEF InList
    <3> QED
      BY <3>1, <3>2, <3>3
  <2>3. InList(o, f) <=> InFrame(o, h) \/ \E j \in 1..Len(g) : InFrame(o, g[j])
    <3>1. ASSUME InList(o, f)
          PROVE  InFrame(o, h) \/ \E j \in 1..Len(g) : InFrame(o, g[j])
      <4>1. PICK i \in 1..N : InFrame(o, f[i])
        BY <3>1 DEF InList
      <4>2. CASE i = 1
        BY <4>1, <4>2 DEF h
      <4>3. CASE i # 1
        <5> DEFINE j == i - 1
        <5>1. j \in 1..Len(g) /\ j + 1 = i
          BY <1>1, <1>9, <4>3
        <5> HIDE DEF j
        <5>2. g[j] = f[i]
          BY <1>15, <5>1
        <5> QED
          BY <4>1, <5>1, <5>2
      <4> QED
        BY <4>2, <4>3
    <3>2. ASSUME InFrame(o, h) PROVE InList(o, f)
      BY <1>1, <3>2 DEF InList, h
    <3>3. ASSUME NEW j \in 1..Len(g), InFrame(o, g[j]) PROVE InList(o, f)
      <4>1. j + 1 \in 1..N /\ g[j] = f[j + 1]
        BY <1>1, <1>9, <1>15
      <4> QED
        BY <3>3, <4>1 DEF InList
    <3> QED
      BY <3>1, <3>2, <3>3
  <2> QED
    BY <2>1, <2>2, <2>3
<1>12. e # <<>>
  BY <1>2, <1>9
<1>13. e[Len(e)].end = f[N].end
  <2>1. CASE N = 1
    <3>2. ~(N > 1) /\ ~(Len(d) > 0)
      BY <1>6, <1>7, <2>1 DEF L
    <3>3. L = 0
      BY <1>2, <3>2 DEF L
    <3>1. Len(e) = 1
      BY <1>9, <3>3
    <3> QED
      BY <1>9, <2>1, <3>1 DEF h
  <2>2. CASE N # 1
    <3>1. N > 1 /\ Len(g) > 0 /\ L > 0 /\ Len(g) \in 1..Len(g) /\ L \in 1..L
      BY <1>1, <1>2, <1>6, <1>7, <1>9, <2>2 DEF L
    <3>2. d[L].end = g[Len(g)].end
      BY <3>1 DEF Carried, L
    <3>3. g[Len(g)] = f[N]
      <4>1. Len(g) + 1 = N
        BY <1>1, <1>9
      <4>2. g[Len(g)] = f[Len(g) + 1]
        BY <1>15, <3>1
      <4> QED
        BY <4>1, <4>2
    <3>4. e[L + 1] = d[L]
      BY <1>16, <3>1
    <3> QED
      BY <1>9, <3>2, <3>3, <3>4
  <2> QED
    BY <2>1, <2>2
<1> QED
  BY <1>10, <1>11, <1>12, <1>13

\* The list and the ring buffer after frame data was moved.
MovedTo(f, buf, first) ==
    /\ f = ossl_sframe_list_move_data(first).frames
    /\ buf = ossl_sframe_list_move_data(first).rbuf

LEMMA MoveQueue ==
    ASSUME size \in Nat, size <= MAX_OFFSET,
           Queue(frames, offset, rbuf, received, size), frames # <<>>,
           NEW first \in {1, 2}, NEW f, NEW buf, MovedTo(f, buf, first)
    PROVE  /\ Queue(f, offset, buf, received, size)
           /\ LastEnd(f, offset) = LastEnd(frames, offset)
<1> DEFINE N == Len(frames)
           g == SubSeq(frames, first, N)
           step == CHOOSE h : h = [i \in 0..Len(g) |->
             IF i = 0
             THEN [done |-> <<>>, limit |-> offset, rbuf |-> rbuf, ok |-> TRUE]
             ELSE MoveStep(h[i - 1], g[i])]
           s == step[Len(g)]
           d == s.done
<1>1. /\ offset \in Nat /\ offset <= size /\ IsList(frames, offset, size)
      /\ \A o \in Nat : o \in received <=> o < offset \/ InList(o, frames)
      /\ RbufOf(rbuf, offset, size)
  BY QueueIs
<1>2. \A i \in 1..N : Backed(frames[i], rbuf, offset)
  BY QueueIs
<1>3. f = SubSeq(frames, 1, first - 1) \o d /\ buf = s.rbuf
  BY DEF MovedTo, ossl_sframe_list_move_data
<1>4. LoopOver(step, g)
  BY DEF LoopOver
<1>5. N \in Nat /\ N >= 1 /\ frames \in Seq(TrueFrames) /\ first \in Nat /\ first >= 1
  BY <1>1, ListIs
<1>6. /\ g \in Seq(TrueFrames) /\ Len(g) = N - (first - 1)
      /\ \A i \in 1..Len(g) : g[i] = frames[i + (first - 1)]
  BY <1>5
<1> HIDE DEF step, g, N
<1>7. \A i \in 1..Len(g) : i + (first - 1) \in 1..N
  BY <1>5, <1>6
<1>8. IsList(g, offset, size)
  <2>1. ASSUME NEW i \in 1..Len(g)
        PROVE  g[i].start <= g[i].end /\ offset < g[i].end /\ g[i].end <= size
    <3>1. i + (first - 1) \in 1..N /\ g[i] = frames[i + (first - 1)]
      BY <1>6, <1>7
    <3> QED
      BY <1>1, <3>1, ListIs DEF N
  <2>2. ASSUME NEW i \in 1..Len(g), NEW j \in 1..Len(g), i < j
        PROVE  g[i].start <= g[j].start /\ g[i].end < g[j].end
    <3> DEFINE x == i + (first - 1)
               y == j + (first - 1)
    <3>1. /\ x \in 1..N /\ g[i] = frames[x] /\ y \in 1..N /\ g[j] = frames[y]
          /\ x < y
      BY <1>5, <1>6, <1>7, <2>2
    <3> HIDE DEF x, y
    <3> QED
      BY <1>1, <3>1, ListIs DEF N
  <2> QED
    BY <1>6, <2>1, <2>2 DEF IsList, Ordered
<1>9. \A i \in 1..Len(g) : Backed(g[i], rbuf, offset)
  BY <1>2, <1>6, <1>7
<1>10. Moving(s, Len(g), g, rbuf, offset, size)
  BY <1>1, <1>4, <1>8, <1>9, MoveLoop
<1> HIDE DEF s
<1>11. /\ Carried(d, Len(g), g, offset, size) /\ IsList(d, offset, size)
       /\ RbufOf(buf, offset, size) /\ Kept(rbuf, buf, offset)
       /\ \A j \in 1..Len(d) : Backed(d[j], buf, offset)
  BY <1>3, <1>10 DEF Moving, Carried
<1>12. d \in Seq(TrueFrames) /\ Len(d) \in Nat
  BY <1>11, ListIs
<1>17. N = Len(frames)
  BY DEF N
<1> HIDE DEF d
<1>13. /\ IsList(f, offset, size) /\ \A o \in Nat : InList(o, f) <=> InList(o, frames)
       /\ f # <<>> /\ f[Len(f)].end = frames[N].end
       /\ \A j \in 1..Len(f) : Backed(f[j], buf, offset)
  <2>1. CASE first = 1
    <3>1. f = d
      BY <1>3, <1>5, <1>12, <2>1
    <3>2. Len(g) = N /\ \A i \in 1..N : g[i] = frames[i]
      BY <1>5, <1>6, <2>1
    <3>3. N > 0 /\ N \in 1..N
      BY <1>5
    <3>4. d # <<>> /\ d[Len(d)].end = frames[N].end
      BY <1>11, <3>2, <3>3 DEF Carried
    <3>5. \A o \in Nat : InList(o, d) <=> InList(o, frames)
      BY <1>11, <1>17, <3>2 DEF Carried, InList
    <3> QED
      BY <1>11, <3>1, <3>4, <3>5
  <2>2. CASE first = 2
    <3>0. first - 1 = 1
      BY <2>2
    <3> DEFINE a == SubSeq(frames, 1, 1)
    <3>9. a \in Seq(TrueFrames)
      BY <1>5, <1>17
    <3>1. Len(a) = 1 /\ a[1] = frames[1]
      BY <1>5, <1>17
    <3>2. f = a \o d
      BY <1>3, <3>0
    <3> HIDE DEF a
    <3>3. /\ f \in Seq(TrueFrames) /\ Len(f) = Len(a) + Len(d)
          /\ \A i \in 1..Len(a) : f[i] = a[i]
          /\ \A i \in 1..Len(d) : f[Len(a) + i] = d[i]
      BY <1>12, <3>2, <3>9, Concatenated
    <3>4. Behind(f, frames[1], d)
      <4>1. Len(f) = 1 + Len(d)
        BY <3>1, <3>3
      <4>2. f[1] = a[1]
        BY <3>1, <3>3
      <4>3. \A i \in 1..Len(d) : f[1 + i] = d[i]
        BY <3>1, <3>3
      <4>4. \A i \in 1..Len(d) : 1 + i = i + 1
        OBVIOUS
      <4> QED
        BY <1>12, <3>1, <3>3, <4>1, <4>2, <4>3, <4>4 DEF Behind
    <3>5. Behind(frames, frames[1], g)
      BY <1>5, <1>6, <1>17, <3>0 DEF Behind
    <3>6. /\ IsList(f, offset, size)
          /\ \A o \in Nat : InList(o, f) <=> InList(o, frames)
          /\ f # <<>> /\ f[Len(f)].end = frames[Len(frames)].end
      BY <1>1, <1>8, <1>11, <3>4, <3>5, BehindHead
    <3>7. Backed(f[1], buf, offset)
      <4>1. Backed(frames[1], rbuf, offset)
        BY <1>2, <1>5
      <4> QED
        BY <1>1, <1>11, <3>4, <4>1, BackedOn DEF Behind
    <3>8. ASSUME NEW j \in 1..Len(f) PROVE Backed(f[j], buf, offset)
      <4>1. CASE j = 1
        BY <3>7, <4>1
      <4>2. CASE j # 1
        <5> DEFINE i == j - 1
        <5>1. i \in 1..Len(d) /\ i + 1 = j
          BY <1>12, <3>4, <4>2 DEF Behind
        <5> HIDE DEF i
        <5>2. f[j] = d[i]
          BY <3>4, <5>1 DEF Behind
        <5> QED
          BY <1>11, <5>1, <5>2
      <4> QED
        BY <4>1, <4>2
    <3> QED
      BY <1>17, <3>6, <3>8
  <2> QED
    BY <2>1, <2>2
<1>14. Queue(f, offset, buf, received, size)
  BY <1>1, <1>11, <1>13 DEF Queue
<1>15. LastEnd(f, offset) = LastEnd(frames, offset)
  BY <1>13, <1>17 DEF LastEnd
<1> QED
  BY <1>14, <1>15

LEMMA MoveKeeps ==
    ASSUME RsInv, MoveToRbuf
    PROVE  RsInv'
<1> DEFINE first == IF head_locked THEN 2 ELSE 1
           f == ossl_sframe_list_move_data(first).frames
           buf == ossl_sframe_list_move_data(first).rbuf
<1>1. /\ recv_state # DATA_READ /\ frames # <<>> /\ frames' = f /\ rbuf' = buf
  BY DEF MoveToRbuf
<1>2. UNCHANGED <<is_crypto, offset, fin, head_locked, head_range, recv_state,
                  size, received, got>>
  BY DEF MoveToRbuf
<1>3. /\ size \in Nat /\ size <= MAX_OFFSET
      /\ Queue(frames, offset, rbuf, received, size) /\ EndInv /\ RecordInv
  BY <1>1 DEF RsInv
<1>4. first \in {1, 2}
  OBVIOUS
<1>5. MovedTo(f, buf, first)
  BY DEF MovedTo
<1> HIDE DEF first, f, buf
<1>6. /\ Queue(f, offset, buf, received, size)
      /\ LastEnd(f, offset) = LastEnd(frames, offset)
  BY <1>1, <1>3, <1>4, <1>5, MoveQueue
<1>7. AllReceived' = AllReceived
  BY <1>2 DEF AllReceived
<1>8. EndInv'
  BY <1>1, <1>2, <1>3, <1>6, <1>7 DEF EndInv
<1>9. RecordInv'
  BY <1>2, <1>3 DEF RecordInv
<1> QED
  BY <1>1, <1>2, <1>6, <1>8, <1>9 DEF RsInv

LEMMA RsStepKeeps == RsInv /\ [RsNext]_rvars => RsInv'
<1> SUFFICES ASSUME RsInv, [RsNext]_rvars PROVE RsInv'
  OBVIOUS
<1>1. CASE UNCHANGED rvars
  <2>1. UNCHANGED <<is_crypto, frames, offset, fin, head_locked, head_range, rbuf,
                    recv_state, size, received, got>>
    BY <1>1 DEF rvars, list
  <2> QED
    BY <2>1 DEF RsInv, EndInv, RecordInv, AllReceived, Freed
<1>2. ASSUME NEW n \in PeerFrames, NEW is_fin \in BOOLEAN,
             n.start <= n.end, is_fin => n.end = size,
             RxFrame(n, is_fin) \/ RxIgnored(n, is_fin)
      PROVE  RsInv'
  <2>1. CASE RxFrame(n, is_fin)
    BY <1>2, <2>1, RxFrameKeeps
  <2>2. CASE RxIgnored(n, is_fin)
    BY <1>1, <2>2 DEF RxIgnored
  <2> QED
    BY <1>2, <2>1, <2>2
<1>3. ASSUME NEW n \in 1..(MAX_OFFSET + 1), Read(n) PROVE RsInv'
  BY <1>3, ReadKeeps
<1>4. CASE GetRecord
  BY <1>4, GetRecordKeeps
<1>5. CASE ReleaseRecord
  BY <1>5, ReleaseKeeps
<1>6. CASE MoveToRbuf
  BY <1>6, MoveKeeps
<1>7. ASSUME NEW n \in 1..MaxRbufSize, ResizeRbuf(n) PROVE RsInv'
  BY <1>7, ResizeKeeps
<1> QED
  BY <1>1, <1>2, <1>3, <1>4, <1>5, <1>6, <1>7 DEF RsNext

(***************************************************************************)
(* Theorems about a receive stream                                         *)
(***************************************************************************)

\* The inductive invariant of a receive stream: while it is not freed, the list
\* is in order and holds, with the ring buffer, exactly the bytes received and
\* not read; a frame moved to the ring buffer has all its bytes there; the state
\* and the end of the list tell what is known of the end of the stream.
THEOREM RsInductiveInvariant == RsSpec => []RsInv
<1>1. RsInit => RsInv
  BY InitGood
<1>2. RsInv /\ [RsNext]_rvars => RsInv'
  BY RsStepKeeps
<1> QED
  BY <1>1, <1>2, PTL DEF RsSpec

LEMMA ReceivedIs ==
    ASSUME RsInv
    PROVE  /\ received \subseteq 0..(size - 1)
           /\ AllReceived <=> received = 0..(size - 1)
<1>1. size \in Nat /\ \A o \in received : o \in Nat /\ o < size
  BY DEF RsInv
<1>2. received \subseteq 0..(size - 1)
  BY <1>1
<1>3. ASSUME AllReceived PROVE received = 0..(size - 1)
  <2>1. \A o \in 0..(size - 1) : o \in received
    BY <1>1, <1>3 DEF AllReceived
  <2> QED
    BY <1>2, <2>1
<1>4. ASSUME received = 0..(size - 1) PROVE AllReceived
  BY <1>1, <1>4 DEF AllReceived
<1> QED
  BY <1>2, <1>3, <1>4

LEMMA OffsetIs ==
    ASSUME RsInv
    PROVE  offset \in Nat /\ offset <= size /\ size \in Nat /\ size <= MAX_OFFSET
<1>1. CASE recv_state = DATA_READ
  BY <1>1 DEF RsInv, Freed
<1>2. CASE recv_state # DATA_READ
  BY <1>2, QueueIs DEF RsInv
<1>3. size \in Nat /\ size <= MAX_OFFSET
  BY DEF RsInv
<1> QED
  BY <1>1, <1>2, <1>3

LEMMA RsTyped ==
    ASSUME RsInv
    PROVE  RsTypeOK
<1> USE MaxOffsetAssumption
<1>1. offset \in Nat /\ offset <= size /\ size \in Nat /\ size <= MAX_OFFSET
  BY OffsetIs
<1>2. got \in Seq(0..MAX_OFFSET)
  <2>1. got = [i \in 1..offset |-> i]
    BY DEF RsInv, Numbers
  <2>2. \A i \in 1..offset : i \in 0..MAX_OFFSET
    BY <1>1
  <2> QED
    BY <1>1, <2>1, <2>2
<1>3. received \subseteq 0..(size - 1)
  BY ReceivedIs
<1>4. /\ fin \in BOOLEAN /\ head_locked \in BOOLEAN /\ is_crypto \in BOOLEAN
      /\ recv_state \in {RECV, SIZE_KNOWN, DATA_RECVD, DATA_READ}
  BY DEF RsInv, EndInv, RecordInv
<1>5. head_range.start \in 0..size /\ head_range.end \in 0..size
  BY DEF RsInv, RecordInv
<1>6. IsRingBuf(rbuf)
  <2>1. CASE recv_state # DATA_READ
    <3>1. RbufOf(rbuf, offset, size)
      BY <2>1, QueueIs DEF RsInv
    <3> QED
      BY <3>1 DEF RbufOf
  <2>2. CASE recv_state = DATA_READ
    <3>1. rbuf = ring_buf_init(0)
      BY <2>2 DEF RsInv, Freed
    <3> DEFINE mem == [i \in 0..(0 - 1) |-> Zero]
    <3>2. mem \in [0..(0 - 1) -> 0..MAX_OFFSET]
      BY DEF Zero
    <3>3. rbuf = [alloc |-> 0, head_offset |-> 0, ctail_offset |-> 0, start |-> mem]
      BY <3>1 DEF ring_buf_init
    <3> HIDE DEF mem
    <3> QED
      BY <3>2, <3>3 DEF IsRingBuf
  <2> QED
    BY <2>1, <2>2
<1>7. ASSUME NEW i \in DOMAIN frames
      PROVE  /\ frames[i].start \in 0..size /\ frames[i].end \in 0..size
             /\ frames[i].in_pkt \in BOOLEAN
             /\ frames[i].in_pkt =>
                  DOMAIN frames[i].data = frames[i].start .. (frames[i].end - 1)
  <2>1. CASE recv_state = DATA_READ
    <3>1. frames = <<>>
      BY <2>1 DEF RsInv, Freed
    <3> QED
      BY <1>7, <3>1
  <2>2. CASE recv_state # DATA_READ
    <3>1. IsList(frames, offset, size)
      BY <2>2, QueueIs DEF RsInv
    <3>2. i \in 1..Len(frames)
      BY <3>1, ListIs
    <3>3. /\ frames[i] \in TrueFrames /\ frames[i].start \in Nat /\ frames[i].end \in Nat
          /\ frames[i].start <= frames[i].end /\ frames[i].end <= size
      BY <3>1, <3>2, ListIs
    <3> DEFINE f == frames[i]
    <3> HIDE DEF f
    <3>4. f.in_pkt \in BOOLEAN
          /\ (f.in_pkt => f.data = [o \in f.start..(f.end - 1) |-> o + 1])
      BY <3>3, FrameIs DEF f
    <3>5. f.in_pkt => DOMAIN f.data = f.start..(f.end - 1)
      BY <3>4
    <3> QED
      BY <1>1, <3>3, <3>4, <3>5 DEF f
  <2> QED
    BY <2>1, <2>2
<1> QED
  BY <1>1, <1>2, <1>3, <1>4, <1>5, <1>6, <1>7 DEF RsTypeOK

LEMMA KeptAll ==
    ASSUME RsInv
    PROVE  EverythingKept
<1>0. RsTypeOK
  BY RsTyped
<1>1. offset \in Nat /\ offset <= size /\ size \in Nat /\ size <= MAX_OFFSET
  BY OffsetIs
<1>2. CASE recv_state = DATA_READ
  <2>1. frames = <<>> /\ Len(frames) = 0
    BY <1>2 DEF RsInv, Freed
  <2>2. Sorted
    BY <2>1 DEF Sorted
  <2>3. NothingLost /\ EverythingReadable
    BY <1>2 DEF NothingLost, EverythingReadable
  <2>4. InsertAsserts
    BY <1>2 DEF InsertAsserts, RECV, SIZE_KNOWN, DATA_READ
  <2> QED
    BY <1>0, <2>2, <2>3, <2>4 DEF EverythingKept
<1>3. CASE recv_state # DATA_READ
  <2>1. Queue(frames, offset, rbuf, received, size)
    BY <1>3 DEF RsInv
  <2>2. /\ IsList(frames, offset, size)
        /\ \A o \in Nat : o \in received <=> o < offset \/ InList(o, frames)
    BY <2>1, QueueIs
  <2>3. /\ Len(frames) \in Nat /\ DOMAIN frames = 1..Len(frames)
        /\ \A i \in 1..Len(frames) :
             frames[i].start \in Nat /\ frames[i].end \in Nat /\ frames[i].end <= size
    BY <2>2, ListIs
  <2>4. \A i, j \in 1..Len(frames) :
          i < j => frames[i].start <= frames[j].start /\ frames[i].end < frames[j].end
    BY <2>2, ListIs
  <2>5. Sorted
    <3>1. \A i \in 1..(Len(frames) - 1) :
            i \in 1..Len(frames) /\ i + 1 \in 1..Len(frames) /\ i < i + 1
      BY <2>3
    <3> QED
      BY <2>4, <3>1 DEF Sorted
  <2>6. NothingLost
    <3>1. ASSUME NEW o \in offset..size
          PROVE  o \in Held(frames) <=> o \in received
      <4>1. o \in Nat /\ ~(o < offset)
        BY <1>1
      <4>2. o \in Held(frames) <=> InList(o, frames)
        <5>1. o \in Held(frames)
                <=> \E i \in 1..Len(frames) : o \in frames[i].start..(frames[i].end - 1)
          BY <2>3 DEF Held
        <5>2. \A i \in 1..Len(frames) :
                o \in frames[i].start..(frames[i].end - 1) <=> InFrame(o, frames[i])
          BY <2>3, <4>1 DEF InFrame
        <5> QED
          BY <5>1, <5>2 DEF InList
      <4> QED
        BY <2>2, <4>1, <4>2
    <3>2. Held(frames) \cap (offset .. size) = received \cap (offset .. size)
      BY <3>1
    <3> QED
      BY <3>2 DEF NothingLost
  <2>7. EverythingReadable
    <3> DEFINE k == Readable(frames, offset)
               e == ReadableEnd(frames, offset)
    <3>1. k = Readable(frames, offset) /\ e = ReadableEnd(frames, offset)
      OBVIOUS
    <3> HIDE DEF k, e
    <3>2. /\ Reads(frames, offset, k) /\ e = PeekStart(frames, offset, k + 1)
          /\ e \in Nat /\ e \notin received
          /\ \A o \in Nat : o < e => o \in received
      BY <1>1, <2>1, <3>1, EndIs
    <3>3. \A o \in offset..(e - 1) : o \in received
      BY <1>1, <3>2
    <3>4. k < Len(frames) => frames[k + 1].start > PeekStart(frames, offset, k + 1)
      BY <3>2 DEF Reads
    <3> QED
      BY <3>1, <3>2, <3>3, <3>4 DEF EverythingReadable
  <2>8. InsertAsserts
    <3>1. CurrEnd = LastEnd(frames, offset)
      BY DEF CurrEnd, LastEnd
    <3>2. CurrEnd <= size
      <4>1. CASE frames = <<>>
        BY <1>1, <4>1 DEF CurrEnd
      <4>2. CASE frames # <<>>
        <5>1. Len(frames) \in 1..Len(frames)
          BY <2>2, <4>2, ListIs
        <5> QED
          BY <2>3, <4>2, <5>1 DEF CurrEnd
      <4> QED
        BY <4>1, <4>2
    <3>3. fin => CurrEnd = size
      BY <1>3, <3>1 DEF RsInv, EndInv
    <3> QED
      BY <3>2, <3>3 DEF InsertAsserts
  <2> QED
    BY <1>0, <2>5, <2>6, <2>7, <2>8 DEF EverythingKept
<1> QED
  BY <1>2, <1>3

\* Whatever the frames, their order, the reads and the moves to a ring buffer of
\* any size: ossl_sframe_list_insert loses no byte that was received, keeps the
\* list in order, and ossl_sframe_list_peek finds everything without a gap.
THEOREM NothingReceivedIsLost == RsSpec => []EverythingKept
<1>1. RsInv => EverythingKept
  BY KeptAll
<1> QED
  BY <1>1, RsInductiveInvariant, PTL

LEMMA GotIs ==
    ASSUME RsInv
    PROVE  Len(got) = offset /\ ReadsTrue
<1>1. offset \in Nat
  BY OffsetIs
<1>2. got = [i \in 1..offset |-> i]
  BY DEF RsInv, Numbers
<1>3. Len(got) = offset /\ DOMAIN got = 1..offset
  BY <1>1, <1>2
<1>4. \A i \in DOMAIN got : got[i] = ByteAt(i - 1)
  BY <1>1, <1>2, <1>3 DEF ByteAt
<1> QED
  BY <1>3, <1>4 DEF ReadsTrue

\* The application or TLS is given the bytes of the stream in order, wherever
\* ossl_quic_rstream_read and _get_record found them: in packets or in the ring
\* buffer, wrapped around, resized and filled out of order.
THEOREM ReaderGetsTheStream == RsSpec => []ReadsTrue
<1>1. RsInv => ReadsTrue
  BY GotIs
<1> QED
  BY <1>1, RsInductiveInvariant, PTL

LEMMA EndGood ==
    ASSUME RsInv
    PROVE  EndOfStream
<1>1. offset \in Nat /\ offset <= size /\ size \in Nat
  BY OffsetIs
<1>2. EndInv
  BY DEF RsInv
<1>3. recv_state \in {DATA_RECVD, DATA_READ} <=> fin /\ received = 0..(size - 1)
  BY <1>2, ReceivedIs DEF EndInv
<1>4. recv_state = DATA_READ => Len(got) = size
  BY GotIs DEF RsInv, Freed
<1>5. ASSUME recv_state # DATA_READ, NEW n \in 1..(size + 1)
      PROVE  ReadFin(n) <=> recv_state = DATA_RECVD /\ offset + n >= size
  <2> DEFINE k == Readable(frames, offset)
             e == ReadableEnd(frames, offset)
  <2>1. ReadFin(n) <=> offset + n >= e /\ k = Len(frames) /\ fin
    BY DEF ReadFin, ReadableFin
  <2>2. k = Readable(frames, offset) /\ e = ReadableEnd(frames, offset)
    OBVIOUS
  <2> HIDE DEF k, e
  <2>3. Queue(frames, offset, rbuf, received, size)
    BY <1>5 DEF RsInv
  <2>4. /\ IsList(frames, offset, size)
        /\ \A o \in Nat : o \in received <=> o < offset \/ InList(o, frames)
    BY <2>3, QueueIs
  <2>5. fin => LastEnd(frames, offset) = size
    BY <1>2, <1>5 DEF EndInv
  <2>6. fin => /\ k = Len(frames) => e = size
               /\ k = Len(frames)
                    <=> \A o \in Nat : offset <= o /\ o < size => InList(o, frames)
    BY <1>1, <2>2, <2>4, <2>5, ReadableIff
  <2>7. (\A o \in Nat : offset <= o /\ o < size => InList(o, frames)) <=> AllReceived
    BY <1>1, <2>4 DEF AllReceived
  <2>8. recv_state = DATA_RECVD <=> fin /\ AllReceived
    BY <1>2, <1>5 DEF EndInv
  <2> QED
    BY <2>1, <2>6, <2>7, <2>8
<1> QED
  BY <1>3, <1>4, <1>5 DEF EndOfStream

\* The receive state and the FIN flag of a read say that everything was
\* received, and read, exactly when it was.
THEOREM EndIsReportedInTime == RsSpec => []EndOfStream
<1>1. RsInv => EndOfStream
  BY EndGood
<1> QED
  BY <1>1, RsInductiveInvariant, PTL

\* A record handed out to TLS by ossl_quic_rstream_get_record starts where the
\* list does and can still be read, and so dropped, when it is released.
THEOREM RecordStaysReadable == RsSpec => []RecordStays
<1>1. ASSUME RsInv PROVE RecordStays
  <2>1. head_locked => /\ offset < head_range.end
                       /\ head_range.end <= ReadableEnd(frames, offset)
    BY <1>1, LockedIs
  <2>2. head_locked => head_range.start = offset
    BY <1>1 DEF RsInv, RecordInv
  <2> QED
    BY <2>1, <2>2 DEF RecordStays
<1>2. RsInv => RecordStays
  BY <1>1
<1> QED
  BY <1>2, RsInductiveInvariant, PTL
===============================================================================
