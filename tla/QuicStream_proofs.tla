-------------------------- MODULE QuicStream_proofs --------------------------
(***************************************************************************)
(* Theorems about one direction of a stream, end to end: that it is a      *)
(* reliable, ordered stream of bytes, for every size of the stream and of  *)
(* the buffer, every way of cutting it into frames and packets, and every  *)
(* order in which packets arrive, arrive again, are acknowledged and lost. *)
(***************************************************************************)
EXTENDS QuicStream, Integers, FiniteSetTheorems, Recursion_proofs, TLAPS

\* The send stream with what was proved about it.
SP == INSTANCE QuicSStream_proofs WITH
          CryptoBufSize <- InitBufSize, MaxRbufSize <- 0,
          size <- ring.head_offset, is_crypto <- crypto

\* The standard operators do not depend on the instance.
LEMMA SameCardinality ==
    ASSUME NEW X
    PROVE  R!Cardinality(X) = Cardinality(X)
BY DEF R!Cardinality, Cardinality

(***************************************************************************)
(* Lists of frames                                                         *)
(***************************************************************************)

\* Frames with bytes of the stream, in a packet.
TrueFrame(a, b) == R!Frame(a, b, [o \in a..(b - 1) |-> R!ByteAt(o)])
TrueFrames == {TrueFrame(a, b) : a \in Nat, b \in Nat}

LEMMA FrameIs ==
    ASSUME NEW f \in TrueFrames
    PROVE  /\ f.start \in Nat /\ f.end \in Nat /\ f.in_pkt
           /\ \A o \in f.start..(f.end - 1) : f.data[o] = o + 1
<1>1. PICK a \in Nat : \E b \in Nat : f = TrueFrame(a, b)
  BY DEF TrueFrames
<1>2. PICK b \in Nat : f = TrueFrame(a, b)
  BY <1>1
<1> QED
  BY <1>2 DEF TrueFrame, R!Frame, R!ByteAt

InFrame(o, f) == f.start <= o /\ o < f.end
InList(o, f) == \E i \in 1..Len(f) : InFrame(o, f[i])

\* Neither the starts nor the ends go down.
Ordered(f) ==
    \A i, j \in 1..Len(f) :
        i < j => f[i].start <= f[j].start /\ f[i].end < f[j].end

\* A list of frames that end behind off, of a stream of n bytes.
IsList(f, off, n) ==
    /\ f \in Seq(TrueFrames)
    /\ \A i \in 1..Len(f) :
         f[i].start <= f[i].end /\ off < f[i].end /\ f[i].end <= n
    /\ Ordered(f)

\* A part of an interval that has everything before each of its elements is an
\* interval.
LEMMA FirstPart ==
    ASSUME NEW p, NEW n, p \in Nat /\ n \in Nat /\ p <= n,
           NEW D, D \in SUBSET ((p + 1)..n),
           \A i \in D : \A j \in (p + 1)..n : j < i => j \in D,
           NEW d, d = Cardinality(D)
    PROVE  d \in Nat /\ D = (p + 1)..(p + d) /\ p + d <= n
<1>1. CASE D = {}
  <2>1. d = 0
    BY <1>1, FS_EmptySet
  <2> QED
    BY <1>1, <2>1
<1>2. CASE D # {}
  <2>1. D \in SUBSET (0..n)
    OBVIOUS
  <2>2. PICK m \in D : \A i \in D : m >= i
    BY <1>2, <2>1, LargestElement
  <2>3. m \in Nat /\ p + 1 <= m /\ m <= n
    BY <2>2
  <2>4. D = (p + 1)..m
    <3>1. ASSUME NEW j \in (p + 1)..m PROVE j \in D
      <4>1. j = m \/ (j < m /\ j \in (p + 1)..n)
        BY <2>3
      <4> QED
        BY <2>2, <4>1
    <3>2. ASSUME NEW j \in D PROVE j \in (p + 1)..m
      <4>1. m >= j /\ j \in (p + 1)..n
        BY <2>2
      <4> QED
        BY <2>3, <4>1
    <3> QED
      BY <3>1, <3>2
  <2>5. d = m - p
    <3>1. Cardinality((p + 1)..m) = IF p + 1 > m THEN 0 ELSE m - (p + 1) + 1
      BY <2>3, FS_Interval
    <3> QED
      BY <2>3, <2>4, <3>1
  <2> QED
    BY <2>3, <2>4, <2>5
<1> QED
  BY <1>1, <1>2

LEMMA Concatenated ==
    ASSUME NEW T, NEW s \in Seq(T), NEW t \in Seq(T), NEW g, g = s \o t
    PROVE  /\ g \in Seq(T) /\ Len(g) = Len(s) + Len(t)
           /\ \A i \in 1..Len(s) : g[i] = s[i]
           /\ \A i \in 1..Len(t) : g[Len(s) + i] = t[i]
OBVIOUS

\* Lists with the frames after p up to q left out, and n in their place.
Splice(f, p, n, q) == SubSeq(f, 1, p) \o <<n>> \o SubSeq(f, q + 1, Len(f))
Join(f, p, q) == SubSeq(f, 1, p) \o SubSeq(f, q + 1, Len(f))

\* Places between which frames are left out.
Between(f, p, q) == f \in Seq(TrueFrames) /\ p \in 0..Len(f) /\ q \in p..Len(f)

IsSplice(g, f, p, n, q) ==
    /\ g \in Seq(TrueFrames) /\ Len(g) = Len(f) - (q - p) + 1
    /\ \A i \in 1..p : g[i] = f[i]
    /\ g[p + 1] = n
    /\ \A i \in (p + 2)..Len(g) : g[i] = f[(i - 1) + (q - p)]

IsJoin(g, f, p, q) ==
    /\ g \in Seq(TrueFrames) /\ Len(g) = Len(f) - (q - p)
    /\ \A i \in 1..p : g[i] = f[i]
    /\ \A i \in (p + 1)..Len(g) : g[i] = f[i + (q - p)]

LEMMA Spliced ==
    ASSUME NEW f, NEW p, NEW q, Between(f, p, q), NEW n, n \in TrueFrames,
           NEW g, g = Splice(f, p, n, q)
    PROVE  IsSplice(g, f, p, n, q)
<1> DEFINE a == SubSeq(f, 1, p)
           b == a \o <<n>>
           c == SubSeq(f, q + 1, Len(f))
<1>0. /\ Len(f) \in Nat /\ p \in Nat /\ q \in Nat /\ p <= q /\ q <= Len(f)
      /\ f \in Seq(TrueFrames)
  BY DEF Between
<1>1. a \in Seq(TrueFrames) /\ Len(a) = p /\ \A i \in 1..p : a[i] = f[i]
  BY <1>0
<1>2. /\ c \in Seq(TrueFrames) /\ Len(c) = Len(f) - q
      /\ \A i \in 1..Len(c) : c[i] = f[i + q]
  BY <1>0
<1> HIDE DEF a, c
<1>3. /\ b \in Seq(TrueFrames) /\ Len(b) = p + 1 /\ b[p + 1] = n
      /\ \A i \in 1..p : b[i] = f[i]
  BY <1>1
<1>4. g = b \o c
  BY DEF a, c, Splice
<1> HIDE DEF b
<1>8. Len(g) = Len(b) + Len(c) /\ g \in Seq(TrueFrames)
  <2>1. b \in Seq(TrueFrames) /\ c \in Seq(TrueFrames)
    BY <1>2, <1>3, <1>4
  <2> QED
    BY <1>4, <2>1
<1>5. g \in Seq(TrueFrames) /\ Len(g) = Len(f) - (q - p) + 1
  BY <1>0, <1>2, <1>3, <1>8
<1>6. /\ \A i \in 1..(p + 1) : g[i] = b[i]
      /\ \A i \in 1..Len(c) : g[(p + 1) + i] = c[i]
  <2>1. /\ \A i \in 1..Len(b) : g[i] = b[i]
        /\ \A i \in 1..Len(c) : g[Len(b) + i] = c[i]
    BY <1>2, <1>3, <1>4, Concatenated
  <2> QED
    BY <1>3, <2>1
<1>7. ASSUME NEW i \in (p + 2)..Len(g) PROVE g[i] = f[(i - 1) + (q - p)]
  <2> DEFINE k == i - (p + 1)
  <2>1. k \in 1..Len(c) /\ (p + 1) + k = i /\ k + q = (i - 1) + (q - p)
    BY <1>0, <1>2, <1>5
  <2> HIDE DEF k
  <2>2. g[(p + 1) + k] = c[k] /\ c[k] = f[k + q]
    BY <1>2, <1>6, <2>1
  <2> QED
    BY <2>1, <2>2
<1>9. g[p + 1] = n /\ \A i \in 1..p : g[i] = f[i]
  BY <1>0, <1>3, <1>6
<1> QED
  BY <1>5, <1>7, <1>9 DEF IsSplice

LEMMA Joined ==
    ASSUME NEW f, NEW p, NEW q, Between(f, p, q), NEW g, g = Join(f, p, q)
    PROVE  IsJoin(g, f, p, q)
<1> DEFINE a == SubSeq(f, 1, p)
           c == SubSeq(f, q + 1, Len(f))
<1>0. /\ Len(f) \in Nat /\ p \in Nat /\ q \in Nat /\ p <= q /\ q <= Len(f)
      /\ f \in Seq(TrueFrames)
  BY DEF Between
<1>1. a \in Seq(TrueFrames) /\ Len(a) = p /\ \A i \in 1..p : a[i] = f[i]
  BY <1>0
<1>2. /\ c \in Seq(TrueFrames) /\ Len(c) = Len(f) - q
      /\ \A i \in 1..Len(c) : c[i] = f[i + q]
  BY <1>0
<1>4. g = a \o c
  BY DEF Join
<1> HIDE DEF a, c
<1>8. Len(g) = Len(a) + Len(c) /\ g \in Seq(TrueFrames)
  <2>1. a \in Seq(TrueFrames) /\ c \in Seq(TrueFrames)
    BY <1>1, <1>2, <1>4
  <2> QED
    BY <1>4, <2>1
<1>5. g \in Seq(TrueFrames) /\ Len(g) = Len(f) - (q - p)
  BY <1>0, <1>1, <1>2, <1>8
<1>6. /\ \A i \in 1..p : g[i] = a[i]
      /\ \A i \in 1..Len(c) : g[p + i] = c[i]
  <2>1. /\ \A i \in 1..Len(a) : g[i] = a[i]
        /\ \A i \in 1..Len(c) : g[Len(a) + i] = c[i]
    BY <1>1, <1>2, <1>4, Concatenated
  <2> QED
    BY <1>1, <2>1
<1>7. ASSUME NEW i \in (p + 1)..Len(g) PROVE g[i] = f[i + (q - p)]
  <2> DEFINE k == i - p
  <2>1. k \in 1..Len(c) /\ p + k = i /\ k + q = i + (q - p)
    BY <1>0, <1>2, <1>5
  <2> HIDE DEF k
  <2>2. g[p + k] = c[k] /\ c[k] = f[k + q]
    BY <1>2, <1>6, <2>1
  <2> QED
    BY <2>1, <2>2
<1> QED
  BY <1>1, <1>5, <1>6, <1>7 DEF IsJoin

\* What the list g has when the frame n is added to f, as far as it has not
\* been read.
Holds(g, f, n, off) ==
    \A o \in Nat : o >= off => (InList(o, g) <=> InList(o, f) \/ InFrame(o, n))

\* A list that has come to its end, and no earlier than f and n.
Reaches(g, f, n) ==
    /\ g # <<>> /\ g[Len(g)].end >= n.end
    /\ f # <<>> => g[Len(g)].end >= f[Len(f)].end

\* A frame that can be put into a list.
Fits(n, off, size) ==
    n \in TrueFrames /\ n.start <= n.end /\ off < n.end /\ n.end <= size

LEMMA ListIs ==
    ASSUME NEW f, NEW off, NEW size, IsList(f, off, size)
    PROVE  /\ f \in Seq(TrueFrames) /\ Len(f) \in Nat /\ DOMAIN f = 1..Len(f)
           /\ \A i \in 1..Len(f) :
                /\ f[i] \in TrueFrames /\ f[i].start \in Nat /\ f[i].end \in Nat
                /\ f[i].start <= f[i].end /\ off < f[i].end /\ f[i].end <= size
           /\ \A i, j \in 1..Len(f) :
                i < j => f[i].start <= f[j].start /\ f[i].end < f[j].end
<1>1. f \in Seq(TrueFrames) /\ Len(f) \in Nat /\ DOMAIN f = 1..Len(f)
  BY DEF IsList
<1>2. \A i \in 1..Len(f) : f[i] \in TrueFrames
  BY <1>1
<1> QED
  BY <1>1, <1>2, FrameIs DEF IsList, Ordered

\* The places at which a frame is put into a list: behind the first p frames,
\* and instead of those up to q.
Place(f, n, p, q) ==
    /\ p \in 0..Len(f) /\ q \in p..Len(f)
    /\ \A i \in 1..p : f[i].start < n.start
    /\ \A i \in (p + 1)..Len(f) : n.start <= f[i].start
    /\ \A i \in (p + 1)..q : f[i].end <= n.end
    /\ \A i \in (q + 1)..Len(f) : n.end < f[i].end

\* InsertBefore leaves the list as it is, or leaves out frames, or puts the
\* new one in their place.
LEMMA InsertBeforeIs ==
    ASSUME NEW f, NEW off, NEW size, IsList(f, off, size),
           NEW n \in TrueFrames, NEW g, g = R!InsertBefore(f, n)
    PROVE  \E p, q \in Nat :
             /\ Place(f, n, p, q)
             /\ IF p > 0 /\ f[p].end >= n.end THEN g = f
                ELSE IF q < Len(f) /\ p > 0 /\ f[q + 1].start <= f[p].end
                THEN g = Join(f, p, q)
                ELSE g = Splice(f, p, n, q)
<1> DEFINE N == Len(f)
           P == {i \in DOMAIN f : f[i].start < n.start}
           p == Cardinality(P)
           D == {i \in (p + 1)..N : f[i].end <= n.end}
           q == p + Cardinality(D)
           rest == SubSeq(f, p + Cardinality(D) + 1, N)
<1>8. g = IF p > 0 /\ f[p].end >= n.end THEN f
          ELSE IF rest # <<>> /\ p > 0 /\ rest[1].start <= f[p].end
          THEN SubSeq(f, 1, p) \o rest
          ELSE SubSeq(f, 1, p) \o <<n>> \o rest
  BY SameCardinality, Zenon DEF R!InsertBefore
<1>1. /\ N \in Nat /\ DOMAIN f = 1..N /\ f \in Seq(TrueFrames)
      /\ \A i \in 1..N : f[i].start \in Nat /\ f[i].end \in Nat
      /\ \A i, j \in 1..N :
           i < j => f[i].start <= f[j].start /\ f[i].end < f[j].end
  BY ListIs
<1>2. n.start \in Nat /\ n.end \in Nat
  BY FrameIs
<1>3. p \in 0..N /\ P = 1..p
  <2>1. P \in SUBSET ((0 + 1)..N) /\ 0 \in Nat
    BY <1>1
  <2>2. \A i \in P : \A j \in (0 + 1)..N : j < i => j \in P
    BY <1>1, <1>2
  <2>3. p = Cardinality(P)
    OBVIOUS
  <2> HIDE DEF P, p
  <2>5. 0 \in Nat /\ N \in Nat /\ 0 <= N
    BY <1>1
  <2> HIDE DEF N
  <2>4. p \in Nat /\ P = (0 + 1)..(0 + p) /\ 0 + p <= N
    BY <2>1, <2>2, <2>3, <2>5, FirstPart
  <2> QED
    BY <2>4, <2>5
<1>4. \A i \in 1..N : i \in P <=> f[i].start < n.start
  BY <1>1
<1> HIDE DEF P, p
<1> DEFINE d == Cardinality(D)
<1>12. d \in Nat /\ D = (p + 1)..(p + d) /\ p + d <= N
  <2> HIDE DEF q, rest
  <2>1. D \in SUBSET ((p + 1)..N) /\ p \in Nat
    BY <1>3
  <2>2. \A i \in D : \A j \in (p + 1)..N : j < i => j \in D
    BY <1>1, <1>2, <1>3
  <2>3. d = Cardinality(D)
    OBVIOUS
  <2>6. N \in Nat /\ p <= N /\ p \in Nat
    BY <1>1, <1>3
  <2> HIDE DEF D, d, N
  <2> QED
    BY <2>1, <2>2, <2>3, <2>6, FirstPart
<1>13. q = p + d
  OBVIOUS
<1>5. q \in p..N /\ D = (p + 1)..q /\ p \in Nat /\ q \in Nat
  <2> HIDE DEF D, d, N, q, rest
  <2> QED
    BY <1>1, <1>3, <1>12, <1>13
<1>6. \A i \in (p + 1)..N : i \in D <=> f[i].end <= n.end
  OBVIOUS
<1>7. rest = SubSeq(f, q + 1, N)
  OBVIOUS
<1> HIDE DEF D, q, rest
<1>9. Place(f, n, p, q)
  <2>1. p \in Nat /\ q \in Nat
    BY <1>1, <1>3, <1>5
  <2>2. \A i \in 1..p : f[i].start < n.start
    BY <1>1, <1>3, <1>4, <2>1
  <2>3. \A i \in (p + 1)..N : n.start <= f[i].start
    <3> SUFFICES ASSUME NEW i \in (p + 1)..N PROVE n.start <= f[i].start
      OBVIOUS
    <3>1. i \in 1..N /\ i \notin P
      BY <1>1, <1>3, <2>1
    <3> QED
      BY <1>1, <1>2, <1>4, <3>1
  <2>4. \A i \in (p + 1)..q : f[i].end <= n.end
    <3> SUFFICES ASSUME NEW i \in (p + 1)..q PROVE f[i].end <= n.end
      OBVIOUS
    <3>1. i \in (p + 1)..N /\ i \in D
      BY <1>1, <1>5, <2>1
    <3> QED
      BY <1>6, <3>1
  <2>5. \A i \in (q + 1)..N : n.end < f[i].end
    <3> SUFFICES ASSUME NEW i \in (q + 1)..N PROVE n.end < f[i].end
      OBVIOUS
    <3>1. i \in (p + 1)..N /\ i \notin D /\ i \in 1..N
      BY <1>1, <1>5, <2>1
    <3> QED
      BY <1>1, <1>2, <1>6, <3>1
  <2> QED
    BY <1>3, <1>5, <2>2, <2>3, <2>4, <2>5 DEF Place
<1>10. rest # <<>> <=> q < N
  <2> HIDE DEF N
  <2>1. Len(rest) = N - q /\ rest \in Seq(TrueFrames)
    <3>1. N = Len(f)
      BY DEF N
    <3>2. N \in Nat /\ f \in Seq(TrueFrames) /\ q \in Nat /\ q <= N
      BY <1>1, <1>5
    <3> HIDE DEF d
    <3> QED
      BY <1>7, <3>1, <3>2
  <2>2. rest # <<>> <=> Len(rest) # 0
    BY <2>1
  <2> QED
    BY <1>1, <1>5, <2>1, <2>2
<1>11. q < N => rest[1] = f[q + 1]
  BY <1>1, <1>5, <1>7
<1> QED
  <2>1. p \in Nat /\ q \in Nat
    BY <1>1, <1>3, <1>5
  <2>2. \/ p > 0 /\ f[p].end >= n.end /\ g = f
        \/ /\ ~(p > 0 /\ f[p].end >= n.end)
           /\ q < N /\ p > 0 /\ f[q + 1].start <= f[p].end
           /\ g = Join(f, p, q)
        \/ /\ ~(p > 0 /\ f[p].end >= n.end)
           /\ ~(q < N /\ p > 0 /\ f[q + 1].start <= f[p].end)
           /\ g = Splice(f, p, n, q)
    BY <1>7, <1>8, <1>10, <1>11, Zenon DEF Join, Splice
  <2> QED
    BY <1>9, <2>1, <2>2

\* What is left of a frame that was put into a list: bytes of n or of f.
LEMMA PlaceIs ==
    ASSUME NEW f, NEW off, NEW size, IsList(f, off, size), NEW n \in TrueFrames,
           NEW p, NEW q, Place(f, n, p, q)
    PROVE  /\ p \in Nat /\ q \in Nat /\ p <= q /\ q <= Len(f) /\ Len(f) \in Nat
           /\ n.start \in Nat /\ n.end \in Nat
           /\ \A i \in 1..Len(f) : f[i].start \in Nat /\ f[i].end \in Nat
           /\ \A i \in 1..Len(f) : i <= p => f[i].start < n.start
           /\ \A i \in 1..Len(f) : i > p => n.start <= f[i].start
           /\ \A i \in 1..Len(f) : i > p /\ i <= q => f[i].end <= n.end
           /\ \A i \in 1..Len(f) : i > q => n.end < f[i].end
           /\ \A o \in Nat, i \in 1..Len(f) :
                i > p /\ i <= q /\ InFrame(o, f[i]) => InFrame(o, n)
<1>1. p \in Nat /\ q \in Nat /\ p <= q /\ q <= Len(f) /\ Len(f) \in Nat
  BY ListIs DEF Place
<1>2. n.start \in Nat /\ n.end \in Nat
  BY FrameIs
<1>3. \A i \in 1..Len(f) : f[i].start \in Nat /\ f[i].end \in Nat
  BY ListIs
<1>4. \A i \in 1..Len(f) : i <= p => f[i].start < n.start
  BY <1>1 DEF Place
<1>5. \A i \in 1..Len(f) : i > p => n.start <= f[i].start
  BY <1>1 DEF Place
<1>6. \A i \in 1..Len(f) : i > p /\ i <= q => f[i].end <= n.end
  BY <1>1 DEF Place
<1>7. \A i \in 1..Len(f) : i > q => n.end < f[i].end
  BY <1>1 DEF Place
<1>8. \A o \in Nat, i \in 1..Len(f) :
        i > p /\ i <= q /\ InFrame(o, f[i]) => InFrame(o, n)
  BY <1>2, <1>3, <1>5, <1>6 DEF InFrame
<1> QED
  BY <1>1, <1>2, <1>3, <1>4, <1>5, <1>6, <1>7, <1>8

LEMMA JoinKeeps ==
    ASSUME NEW f, NEW off \in Nat, NEW size, IsList(f, off, size),
           NEW n, Fits(n, off, size), NEW p, NEW q, Place(f, n, p, q),
           p > 0, f[p].end < n.end, q < Len(f), f[q + 1].start <= f[p].end,
           NEW g, g = Join(f, p, q)
    PROVE  IsList(g, off, size) /\ Holds(g, f, n, off) /\ Reaches(g, f, n)
<1> DEFINE N == Len(f)
           At(i) == IF i <= p THEN i ELSE i + (q - p)
<1>0. n \in TrueFrames /\ f \in Seq(TrueFrames)
  BY DEF Fits, IsList
<1>1. /\ p \in Nat /\ q \in Nat /\ p <= q /\ q <= N /\ N \in Nat
      /\ n.start \in Nat /\ n.end \in Nat
      /\ \A i \in 1..N : f[i].start \in Nat /\ f[i].end \in Nat
      /\ \A i \in 1..N : i <= p => f[i].start < n.start
      /\ \A i \in 1..N : i > q => n.end < f[i].end
  BY <1>0, PlaceIs
<1>2. \A o \in Nat, i \in 1..N : i > p /\ i <= q /\ InFrame(o, f[i]) => InFrame(o, n)
  BY <1>0, PlaceIs
<1>3. /\ g \in Seq(TrueFrames) /\ Len(g) = N - (q - p)
      /\ \A i \in 1..p : g[i] = f[i]
      /\ \A i \in (p + 1)..Len(g) : g[i] = f[i + (q - p)]
  <2> HIDE DEF At, N
  <2>1. Between(f, p, q)
    BY <1>0 DEF Place, Between
  <2>2. IsJoin(g, f, p, q)
    BY <2>1, Joined
  <2> QED
    BY <2>2 DEF IsJoin, N
<1>4. \A i \in 1..Len(g) : At(i) \in 1..N /\ g[i] = f[At(i)]
  BY <1>1, <1>3
<1>5. \A i, j \in 1..Len(g) : i < j => At(i) < At(j)
  BY <1>1, <1>3
<1>6. \A k \in 1..N : k <= p \/ k > q => \E i \in 1..Len(g) : g[i] = f[k]
  <2> SUFFICES ASSUME NEW k \in 1..N, k <= p \/ k > q
               PROVE  \E i \in 1..Len(g) : g[i] = f[k]
    OBVIOUS
  <2>1. CASE k <= p
    <3>1. k \in 1..Len(g) /\ g[k] = f[k]
      BY <1>1, <1>3, <2>1
    <3> QED
      BY <3>1
  <2>2. CASE k > q
    <3>1. k - (q - p) \in 1..Len(g) /\ g[k - (q - p)] = f[k]
      BY <1>1, <1>3, <2>2
    <3> QED
      BY <3>1
  <2> QED
    BY <2>1, <2>2
<1>7. Len(g) \in 1..N /\ g[Len(g)] = f[N]
  <2>1. Len(g) \in (p + 1)..Len(g) /\ Len(g) + (q - p) = N /\ Len(g) \in 1..N
    BY <1>1, <1>3
  <2> QED
    BY <1>3, <2>1
<1> HIDE DEF At, N
<1>8. IsList(g, off, size)
  <2>1. \A i \in 1..N : f[i].start <= f[i].end /\ off < f[i].end /\ f[i].end <= size
    BY ListIs DEF N
  <2>2. \A i, j \in 1..N : i < j => f[i].start <= f[j].start /\ f[i].end < f[j].end
    BY ListIs DEF N
  <2>3. \A i \in 1..Len(g) :
          g[i].start <= g[i].end /\ off < g[i].end /\ g[i].end <= size
    BY <1>4, <2>1
  <2>4. Ordered(g)
    BY <1>4, <1>5, <2>2 DEF Ordered
  <2> QED
    BY <1>3, <2>3, <2>4 DEF IsList
<1>9. ASSUME NEW o \in Nat, InFrame(o, n) PROVE InList(o, g)
  <2>1. p \in 1..N /\ q + 1 \in 1..N /\ q + 1 > q
    BY <1>1 DEF N
  <2>2. InFrame(o, f[p]) \/ InFrame(o, f[q + 1])
    BY <1>1, <1>9, <2>1 DEF InFrame
  <2>3. PICK k \in {p, q + 1} : InFrame(o, f[k])
    BY <2>2
  <2>4. k \in 1..N /\ (k <= p \/ k > q)
    BY <1>1, <2>1
  <2> QED
    BY <1>6, <2>3, <2>4 DEF InList
<1>10. Holds(g, f, n, off)
  <2>1. ASSUME NEW o \in Nat, InList(o, g) PROVE InList(o, f)
    BY <1>4, <2>1 DEF InList, N
  <2>2. ASSUME NEW o \in Nat, InList(o, f) PROVE InList(o, g)
    <3>1. PICK k \in 1..N : InFrame(o, f[k])
      BY <2>2 DEF InList, N
    <3>2. CASE k <= p \/ k > q
      BY <1>6, <3>1, <3>2 DEF InList
    <3>3. CASE k > p /\ k <= q
      BY <1>2, <1>9, <3>1, <3>3
    <3> QED
      BY <1>1, <3>2, <3>3
  <2> QED
    BY <1>9, <2>1, <2>2 DEF Holds
<1>11. Reaches(g, f, n)
  <2>1. N \in 1..N /\ N > q /\ g # <<>>
    BY <1>1, <1>3, <1>7 DEF N
  <2>2. f[N].end > n.end /\ f[N].end >= f[N].end
    BY <1>1, <2>1
  <2> QED
    BY <1>1, <1>7, <2>1, <2>2 DEF Reaches, N
<1> QED
  BY <1>8, <1>10, <1>11

LEMMA SpliceKeeps ==
    ASSUME NEW f, NEW off \in Nat, NEW size, IsList(f, off, size),
           NEW n, Fits(n, off, size), NEW p, NEW q, Place(f, n, p, q),
           p > 0 => f[p].end < n.end,
           NEW g, IsSplice(g, f, p, n, q)
    PROVE  IsList(g, off, size) /\ Holds(g, f, n, off) /\ Reaches(g, f, n)
<1> DEFINE N == Len(f)
           At(i) == IF i <= p THEN i ELSE (i - 1) + (q - p)
<1>0. n \in TrueFrames /\ f \in Seq(TrueFrames)
  BY DEF Fits, IsList
<1>1. /\ p \in Nat /\ q \in Nat /\ p <= q /\ q <= N /\ N \in Nat
      /\ n.start \in Nat /\ n.end \in Nat
      /\ \A i \in 1..N : f[i].start \in Nat /\ f[i].end \in Nat
      /\ \A i \in 1..N : i <= p => f[i].start < n.start
      /\ \A i \in 1..N : i > p => n.start <= f[i].start
      /\ \A i \in 1..N : i > p /\ i <= q => f[i].end <= n.end
      /\ \A i \in 1..N : i > q => n.end < f[i].end
  BY <1>0, PlaceIs
<1>2. \A o \in Nat, i \in 1..N : i > p /\ i <= q /\ InFrame(o, f[i]) => InFrame(o, n)
  BY <1>0, PlaceIs
<1>3. /\ g \in Seq(TrueFrames) /\ Len(g) = N - (q - p) + 1
      /\ \A i \in 1..p : g[i] = f[i]
      /\ g[p + 1] = n
      /\ \A i \in (p + 2)..Len(g) : g[i] = f[(i - 1) + (q - p)]
  BY DEF IsSplice
<1>4. \A i \in 1..Len(g) : i # p + 1 => At(i) \in 1..N /\ g[i] = f[At(i)]
  <2> SUFFICES ASSUME NEW i \in 1..Len(g), i # p + 1
               PROVE  At(i) \in 1..N /\ g[i] = f[At(i)]
    OBVIOUS
  <2>1. CASE i <= p
    BY <1>1, <1>3, <2>1
  <2>2. CASE i > p + 1
    <3>1. i \in (p + 2)..Len(g) /\ At(i) = (i - 1) + (q - p) /\ At(i) \in 1..N
      BY <1>1, <1>3, <2>2
    <3> QED
      BY <1>3, <3>1
  <2> QED
    BY <1>1, <2>1, <2>2
<1>5. /\ \A i \in 1..Len(g) : i < p + 1 => At(i) <= p
      /\ \A i \in 1..Len(g) : i > p + 1 => At(i) > q
  BY <1>1, <1>3
<1>6. \A i, j \in 1..Len(g) : i < j /\ i # p + 1 /\ j # p + 1 => At(i) < At(j)
  BY <1>1, <1>3
<1>7. \A k \in 1..N : k <= p \/ k > q => \E i \in 1..Len(g) : g[i] = f[k]
  <2> SUFFICES ASSUME NEW k \in 1..N, k <= p \/ k > q
               PROVE  \E i \in 1..Len(g) : g[i] = f[k]
    OBVIOUS
  <2>1. CASE k <= p
    <3>1. k \in 1..Len(g) /\ g[k] = f[k]
      BY <1>1, <1>3, <2>1
    <3> QED
      BY <3>1
  <2>2. CASE k > q
    <3> DEFINE i == (k - (q - p)) + 1
    <3>1. i \in (p + 2)..Len(g) /\ i \in 1..Len(g) /\ (i - 1) + (q - p) = k
      BY <1>1, <1>3, <2>2
    <3> HIDE DEF i
    <3>2. g[i] = f[k]
      BY <1>3, <3>1
    <3> QED
      BY <3>1, <3>2
  <2> QED
    BY <2>1, <2>2
<1>8. p + 1 \in 1..Len(g) /\ Len(g) \in Nat /\ Len(g) >= 1
  BY <1>1, <1>3
<1>9. q < N => Len(g) \in (p + 2)..Len(g) /\ (Len(g) - 1) + (q - p) = N
  BY <1>1, <1>3
<1>10. q = N => Len(g) = p + 1
  BY <1>1, <1>3
<1>11. \A i \in 1..N : i <= p => f[i].end < n.end
  <2> SUFFICES ASSUME NEW i \in 1..N, i <= p PROVE f[i].end < n.end
    OBVIOUS
  <2>1. p \in 1..N /\ f[p].end < n.end /\ (i = p \/ i < p)
    BY <1>1
  <2>2. i < p => f[i].end < f[p].end
    BY <2>1, ListIs
  <2> QED
    BY <1>1, <2>1, <2>2
<1> HIDE DEF At, N
<1>12. IsList(g, off, size)
  <2>1. \A i \in 1..N : f[i].start <= f[i].end /\ off < f[i].end /\ f[i].end <= size
    BY ListIs DEF N
  <2>2. \A i, j \in 1..N : i < j => f[i].start <= f[j].start /\ f[i].end < f[j].end
    BY ListIs DEF N
  <2>3. ASSUME NEW i \in 1..Len(g)
        PROVE  g[i].start <= g[i].end /\ off < g[i].end /\ g[i].end <= size
    <3>1. CASE i = p + 1
      BY <1>3, <3>1 DEF Fits
    <3>2. CASE i # p + 1
      BY <1>4, <2>1, <3>2
    <3> QED
      BY <3>1, <3>2
  <2>4. ASSUME NEW i \in 1..Len(g), NEW j \in 1..Len(g), i < j
        PROVE  g[i].start <= g[j].start /\ g[i].end < g[j].end
    <3>1. CASE i = p + 1
      <4>1. j # p + 1 /\ j > p + 1 /\ g[i] = n
        BY <1>1, <1>3, <2>4, <3>1
      <4>2. At(j) \in 1..N /\ g[j] = f[At(j)] /\ At(j) > q
        BY <1>4, <1>5, <4>1
      <4>3. At(j) > p
        BY <1>1, <4>2
      <4> QED
        BY <1>1, <4>1, <4>2, <4>3
    <3>2. CASE j = p + 1
      <4>1. i # p + 1 /\ i < p + 1 /\ g[j] = n
        BY <1>1, <1>3, <2>4, <3>2
      <4>2. At(i) \in 1..N /\ g[i] = f[At(i)] /\ At(i) <= p
        BY <1>4, <1>5, <4>1
      <4> QED
        BY <1>1, <1>11, <4>1, <4>2
    <3>3. CASE i # p + 1 /\ j # p + 1
      <4>1. /\ At(i) \in 1..N /\ g[i] = f[At(i)] /\ At(j) \in 1..N
            /\ g[j] = f[At(j)] /\ At(i) < At(j)
        BY <1>4, <1>6, <2>4, <3>3
      <4> QED
        BY <2>2, <4>1
    <3> QED
      BY <3>1, <3>2, <3>3
  <2>5. Ordered(g)
    BY <2>4 DEF Ordered
  <2> QED
    BY <1>3, <2>3, <2>5 DEF IsList
<1>13. Holds(g, f, n, off)
  <2>1. ASSUME NEW o \in Nat, InList(o, g) PROVE InList(o, f) \/ InFrame(o, n)
    <3>1. PICK i \in 1..Len(g) : InFrame(o, g[i])
      BY <2>1 DEF InList
    <3>2. CASE i = p + 1
      BY <1>3, <3>1, <3>2
    <3>3. CASE i # p + 1
      BY <1>4, <3>1, <3>3 DEF InList, N
    <3> QED
      BY <3>2, <3>3
  <2>2. ASSUME NEW o \in Nat, InFrame(o, n) PROVE InList(o, g)
    BY <1>3, <1>8, <2>2 DEF InList
  <2>3. ASSUME NEW o \in Nat, InList(o, f) PROVE InList(o, g)
    <3>1. PICK k \in 1..N : InFrame(o, f[k])
      BY <2>3 DEF InList, N
    <3>2. CASE k <= p \/ k > q
      BY <1>7, <3>1, <3>2 DEF InList
    <3>3. CASE k > p /\ k <= q
      BY <1>2, <2>2, <3>1, <3>3
    <3> QED
      BY <1>1, <3>2, <3>3
  <2> QED
    BY <2>1, <2>2, <2>3 DEF Holds
<1>14. Reaches(g, f, n)
  <2>1. g # <<>>
    BY <1>8
  <2>2. CASE q < N
    <3>1. g[Len(g)] = f[N]
      BY <1>3, <1>9, <2>2
    <3>2. N \in 1..N /\ N > q
      BY <1>1, <2>2
    <3>3. f[N].end > n.end /\ f[N].end >= f[N].end
      BY <1>1, <3>2
    <3> QED
      BY <1>1, <2>1, <3>1, <3>2, <3>3 DEF Reaches, N
  <2>3. CASE q = N
    <3>1. g[Len(g)] = n
      BY <1>3, <1>10, <2>3
    <3>2. f # <<>> => N \in 1..N
      BY <1>0, <1>1 DEF N
    <3>3. f # <<>> => f[N].end <= n.end
      BY <1>1, <1>11, <2>3, <3>2
    <3> QED
      BY <1>1, <2>1, <3>1, <3>3, <3>2 DEF Reaches, N
  <2> QED
    BY <1>1, <2>2, <2>3
<1> QED
  BY <1>12, <1>13, <1>14

\* What an insertion of n into the list f yields.
Inserted(g, f, n, off, size) ==
    /\ IsList(g, off, size)
    /\ Holds(g, f, n, off)
    /\ off < n.end => Reaches(g, f, n)
    /\ off >= n.end => g = f

LEMMA InsertBeforeKeeps ==
    ASSUME NEW f, NEW off \in Nat, NEW size, IsList(f, off, size),
           NEW n, Fits(n, off, size), f # <<>>, NEW g, g = R!InsertBefore(f, n)
    PROVE  IsList(g, off, size) /\ Holds(g, f, n, off) /\ Reaches(g, f, n)
<1>0. n \in TrueFrames
  BY DEF Fits
<1>1. PICK p \in Nat, q \in Nat :
        /\ Place(f, n, p, q)
        /\ IF p > 0 /\ f[p].end >= n.end THEN g = f
           ELSE IF q < Len(f) /\ p > 0 /\ f[q + 1].start <= f[p].end
           THEN g = Join(f, p, q)
           ELSE g = Splice(f, p, n, q)
  BY <1>0, InsertBeforeIs
<1>2. /\ p <= Len(f) /\ Len(f) \in Nat /\ n.start \in Nat /\ n.end \in Nat
      /\ \A i \in 1..Len(f) : f[i].start \in Nat /\ f[i].end \in Nat
      /\ \A i \in 1..Len(f) : i <= p => f[i].start < n.start
  BY <1>0, <1>1, PlaceIs
<1>3. CASE p > 0 /\ f[p].end >= n.end
  <2>1. g = f
    BY <1>1, <1>3
  <2>2. p \in 1..Len(f) /\ Len(f) \in 1..Len(f)
    BY <1>2, <1>3
  <2>3. ASSUME NEW o \in Nat, InFrame(o, n) PROVE InFrame(o, f[p])
    BY <1>2, <1>3, <2>2, <2>3 DEF InFrame
  <2>4. Holds(g, f, n, off)
    BY <2>1, <2>2, <2>3 DEF Holds, InList
  <2>5. f[Len(f)].end >= f[p].end
    <3>1. p = Len(f) \/ p < Len(f)
      BY <1>2
    <3>2. p < Len(f) => f[p].end < f[Len(f)].end
      BY <2>2, ListIs
    <3> QED
      BY <1>2, <2>2, <3>1, <3>2
  <2>6. Reaches(g, f, n)
    BY <1>2, <1>3, <2>1, <2>2, <2>5 DEF Reaches
  <2> QED
    BY <2>1, <2>4, <2>6
<1>4. CASE ~(p > 0 /\ f[p].end >= n.end)
  <2>1. p > 0 => f[p].end < n.end
    BY <1>2, <1>4
  <2>2. CASE q < Len(f) /\ p > 0 /\ f[q + 1].start <= f[p].end
    <3>1. g = Join(f, p, q)
      BY <1>1, <1>4, <2>2
    <3> QED
      BY <1>1, <2>1, <2>2, <3>1, JoinKeeps
  <2>3. CASE ~(q < Len(f) /\ p > 0 /\ f[q + 1].start <= f[p].end)
    <3>1. g = Splice(f, p, n, q)
      BY <1>1, <1>4, <2>3
    <3>2. Between(f, p, q)
      BY <1>1 DEF Place, Between, IsList
    <3>3. IsSplice(g, f, p, n, q)
      BY <1>0, <3>1, <3>2, Spliced
    <3> QED
      BY <1>1, <2>1, <3>3, SpliceKeeps
  <2> QED
    BY <2>2, <2>3
<1> QED
  BY <1>3, <1>4

LEMMA AppendedKeeps ==
    ASSUME NEW f, NEW off \in Nat, NEW size, IsList(f, off, size),
           NEW n, Fits(n, off, size),
           f # <<>> => f[Len(f)].start < n.start /\ f[Len(f)].end < n.end,
           NEW g, g = Append(f, n)
    PROVE  IsList(g, off, size) /\ Holds(g, f, n, off) /\ Reaches(g, f, n)
<1> DEFINE N == Len(f)
<1>0. n \in TrueFrames /\ n.start \in Nat /\ n.end \in Nat
  BY FrameIs DEF Fits
<1>1. /\ f \in Seq(TrueFrames) /\ N \in Nat
      /\ \A i \in 1..N : f[i].start \in Nat
      /\ \A i, j \in 1..N : i < j => f[i].start <= f[j].start
  BY ListIs
<1>2. N > 0 => f # <<>>
  OBVIOUS
<1>3. IsSplice(g, f, N, n, N)
  <2>1. /\ g \in Seq(TrueFrames) /\ Len(g) = N + 1 /\ g[N + 1] = n
        /\ \A i \in 1..N : g[i] = f[i]
    BY <1>0, <1>1
  <2> QED
    BY <1>1, <2>1 DEF IsSplice
<1>4. \A i \in 1..N : f[i].start < n.start
  <2> SUFFICES ASSUME NEW i \in 1..N PROVE f[i].start < n.start
    OBVIOUS
  <2>1. f[N].start < n.start /\ N \in 1..N /\ (i = N \/ i < N)
    BY <1>1, <1>2
  <2>2. f[i].start <= f[N].start
    BY <1>1, <2>1
  <2> QED
    BY <1>0, <1>1, <2>1, <2>2
<1>5. Place(f, n, N, N)
  BY <1>1, <1>4 DEF Place
<1>6. N > 0 => f[N].end < n.end
  BY <1>2
<1> HIDE DEF N
<1> QED
  BY <1>3, <1>5, <1>6, SpliceKeeps

LEMMA InsertKeeps ==
    ASSUME offset \in Nat, NEW size, IsList(frames, offset, size),
           NEW n, n \in TrueFrames, n.start <= n.end, n.end <= size,
           NEW g, g = R!ossl_sframe_list_insert(n)
    PROVE  Inserted(g, frames, n, offset, size)
<1> DEFINE N == Len(frames)
<1>0. n.start \in Nat /\ n.end \in Nat
  BY FrameIs
<1>1. /\ frames \in Seq(TrueFrames) /\ N \in Nat
      /\ \A i \in 1..N : frames[i].start \in Nat /\ frames[i].end \in Nat
  BY ListIs
<1>2. frames # <<>> => N \in 1..N
  BY <1>1
<1>3. CASE offset >= n.end
  <2>1. g = frames
    BY <1>3 DEF R!ossl_sframe_list_insert
  <2>2. \A o \in Nat : o >= offset => ~InFrame(o, n)
    BY <1>0, <1>3 DEF InFrame
  <2> QED
    BY <1>0, <1>3, <2>1, <2>2 DEF Inserted, Holds
<1>4. CASE offset < n.end
  <2>1. Fits(n, offset, size) /\ ~(offset >= n.end)
    BY <1>0, <1>4 DEF Fits
  <2>2. CASE frames = <<>>
    <3>1. g = Append(frames, n)
      BY <2>1, <2>2 DEF R!ossl_sframe_list_insert
    <3> QED
      BY <2>1, <2>2, <3>1, AppendedKeeps DEF Inserted
  <2>3. CASE frames # <<>> /\ frames[N].start < n.start /\ frames[N].end >= n.end
    <3>1. g = frames
      BY <2>1, <2>3 DEF R!ossl_sframe_list_insert
    <3>2. \A o \in Nat : InFrame(o, n) => InFrame(o, frames[N])
      BY <1>0, <1>1, <1>2, <2>3 DEF InFrame
    <3>3. Holds(g, frames, n, offset)
      BY <1>2, <2>3, <3>1, <3>2 DEF Holds, InList
    <3>4. Reaches(g, frames, n)
      BY <1>1, <1>2, <2>3, <3>1 DEF Reaches
    <3> QED
      BY <2>1, <3>1, <3>3, <3>4 DEF Inserted
  <2>4. CASE frames # <<>> /\ frames[N].start < n.start /\ ~(frames[N].end >= n.end)
    <3>1. g = Append(frames, n)
      BY <2>1, <2>4 DEF R!ossl_sframe_list_insert
    <3>2. frames[N].end < n.end
      BY <1>0, <1>1, <1>2, <2>4
    <3> QED
      BY <2>1, <2>4, <3>1, <3>2, AppendedKeeps DEF Inserted
  <2>5. CASE frames # <<>> /\ ~(frames[N].start < n.start)
    <3>1. g = R!InsertBefore(frames, n)
      BY <2>1, <2>5 DEF R!ossl_sframe_list_insert
    <3> QED
      BY <2>1, <2>5, <3>1, InsertBeforeKeeps DEF Inserted
  <2> QED
    BY <2>2, <2>3, <2>4, <2>5
<1> QED
  BY <1>0, <1>3, <1>4

(***************************************************************************)
(* What can be read                                                        *)
(***************************************************************************)

\* A walk over a list from its head stops at the first frame it does not take.
LEMMA Walk ==
    ASSUME NEW n \in Nat, NEW T
    PROVE  \E k \in 0..n : (\A i \in 1..k : i \in T) /\ (k < n => k + 1 \notin T)
<1> DEFINE U == {i \in 1..n : i \notin T}
<1>1. CASE U = {}
  <2>1. \A i \in 1..n : i \in T
    BY <1>1
  <2>2. n \in 0..n
    OBVIOUS
  <2> QED
    BY <2>1, <2>2
<1>2. CASE U # {}
  <2>1. U \in SUBSET Nat
    OBVIOUS
  <2>2. PICK m \in U : \A i \in U : m <= i
    BY <1>2, <2>1, LeastElement
  <2>3. m \in 1..n /\ m \notin T
    OBVIOUS
  <2>4. ASSUME NEW i \in 1..(m - 1) PROVE i \in T
    BY <2>2, <2>3
  <2>5. m - 1 \in 0..n /\ (m - 1) + 1 = m
    BY <2>3
  <2> QED
    BY <2>3, <2>4, <2>5
<1> QED
  BY <1>1, <1>2

LEMMA ReadableIs ==
    ASSUME NEW f, NEW off, Len(f) \in Nat, NEW k, k = R!Readable(f, off)
    PROVE  /\ k \in 0..Len(f)
           /\ \A i \in 1..k : R!Peeks(f, off, i)
           /\ k < Len(f) => ~R!Peeks(f, off, k + 1)
<1> DEFINE T == {i \in 1..Len(f) : R!Peeks(f, off, i)}
           P(x) == /\ \A i \in 1..x : R!Peeks(f, off, i)
                   /\ x < Len(f) => ~R!Peeks(f, off, x + 1)
<1>1. PICK x \in 0..Len(f) :
        (\A i \in 1..x : i \in T) /\ (x < Len(f) => x + 1 \notin T)
  <2> HIDE DEF T
  <2> QED
    BY Walk
<1>2. P(x)
  <2>1. x < Len(f) => x + 1 \in 1..Len(f)
    OBVIOUS
  <2> QED
    BY <1>1, <2>1
<1>3. k = CHOOSE y \in 0..Len(f) : P(y)
  BY DEF R!Readable
<1> HIDE DEF P
<1>4. k \in 0..Len(f) /\ P(k)
  BY <1>2, <1>3
<1> QED
  BY <1>4 DEF P

\* Where the walk over the list f stands that has returned k frames.
Reads(f, off, k) ==
    /\ k \in 0..Len(f)
    /\ \A i \in 1..k : f[i].start <= R!PeekStart(f, off, i)
    /\ k < Len(f) => f[k + 1].start > R!PeekStart(f, off, k + 1)

LEMMA PeekStartIs ==
    ASSUME NEW f, NEW off \in Nat, NEW size, IsList(f, off, size)
    PROVE  /\ R!PeekStart(f, off, 1) = off
           /\ \A i \in 1..Len(f) : R!PeekStart(f, off, i + 1) = f[i].end
           /\ \A i \in 1..Len(f) : R!PeekStart(f, off, i) \in Nat
           /\ \A i \in 1..Len(f) : R!PeekStart(f, off, i) < f[i].end
<1>1. R!PeekStart(f, off, 1) = off
  BY DEF R!PeekStart
<1>2. Len(f) \in Nat
  BY ListIs
<1>3. ASSUME NEW i \in 1..Len(f) PROVE R!PeekStart(f, off, i + 1) = f[i].end
  <2>1. i + 1 # 1 /\ (i + 1) - 1 = i
    BY <1>2
  <2> QED
    BY <2>1 DEF R!PeekStart
<1>4. ASSUME NEW i \in 1..Len(f)
      PROVE  R!PeekStart(f, off, i) \in Nat /\ R!PeekStart(f, off, i) < f[i].end
  <2>1. CASE i = 1
    BY <1>1, <2>1, ListIs
  <2>2. CASE i # 1
    <3> DEFINE j == i - 1
    <3>1. j \in 1..Len(f) /\ j < i /\ j + 1 = i
      BY <1>2, <2>2
    <3> HIDE DEF j
    <3>2. R!PeekStart(f, off, i) = f[j].end
      BY <1>3, <3>1
    <3>3. f[j].end \in Nat /\ f[j].end < f[i].end
      BY <3>1, ListIs
    <3> QED
      BY <3>2, <3>3
  <2> QED
    BY <2>1, <2>2
<1> QED
  BY <1>1, <1>3, <1>4

LEMMA ReadableReads ==
    ASSUME NEW f, NEW off \in Nat, NEW size, IsList(f, off, size),
           NEW k, k = R!Readable(f, off)
    PROVE  Reads(f, off, k)
<1>1. Len(f) \in Nat /\ \A i \in 1..Len(f) : f[i].start \in Nat
  BY ListIs
<1>2. /\ k \in 0..Len(f)
      /\ \A i \in 1..k : R!Peeks(f, off, i)
      /\ k < Len(f) => ~R!Peeks(f, off, k + 1)
  BY <1>1, ReadableIs
<1>3. \A i \in 1..k : f[i].start <= R!PeekStart(f, off, i)
  BY <1>2 DEF R!Peeks
<1>4. k < Len(f) => f[k + 1].start > R!PeekStart(f, off, k + 1)
  <2> SUFFICES ASSUME k < Len(f)
               PROVE  f[k + 1].start > R!PeekStart(f, off, k + 1)
    OBVIOUS
  <2>1. k + 1 \in 1..Len(f) /\ ~R!Peeks(f, off, k + 1)
    BY <1>1, <1>2
  <2>2. /\ R!PeekStart(f, off, k + 1) \in Nat /\ f[k + 1].start \in Nat
        /\ R!PeekStart(f, off, k + 1) < f[k + 1].end
    BY <1>1, <2>1, PeekStartIs
  <2> QED
    BY <2>1, <2>2 DEF R!Peeks
<1> QED
  BY <1>2, <1>3, <1>4 DEF Reads

\* The frame in which the walk finds byte o.
LEMMA FoundIn ==
    ASSUME NEW f, NEW off \in Nat, NEW size, IsList(f, off, size),
           NEW k, Reads(f, off, k), NEW o \in Nat, off <= o,
           o < R!PeekStart(f, off, k + 1)
    PROVE  \E i \in 1..k : R!PeekStart(f, off, i) <= o /\ o < f[i].end
<1> DEFINE T == {i \in 1..k : o < f[i].end}
<1>1. k \in 0..Len(f) /\ Len(f) \in Nat /\ k \in Nat
  BY ListIs DEF Reads
<1>2. k # 0
  <2> SUFFICES ASSUME k = 0 PROVE FALSE
    OBVIOUS
  <2>1. R!PeekStart(f, off, k + 1) = off
    BY DEF R!PeekStart
  <2> QED
    BY <2>1
<1>3. k \in 1..Len(f) /\ k \in 1..k
  BY <1>1, <1>2
<1>4. k \in T
  BY <1>3, PeekStartIs
<1>5. T \in SUBSET Nat /\ T # {}
  BY <1>1, <1>4
<1>6. PICK i \in T : \A j \in T : i <= j
  BY <1>5, LeastElement
<1>7. i \in 1..k /\ o < f[i].end /\ i \in Nat
  BY <1>1, <1>6
<1>8. R!PeekStart(f, off, i) <= o
  <2>1. CASE i = 1
    BY <2>1, PeekStartIs
  <2>2. CASE i # 1
    <3> DEFINE j == i - 1
    <3>1. j \in 1..k /\ j < i /\ j + 1 = i /\ j \in 1..Len(f)
      BY <1>1, <1>7, <2>2
    <3> HIDE DEF j
    <3>2. R!PeekStart(f, off, i) = f[j].end /\ f[j].end \in Nat
      BY <3>1, PeekStartIs, ListIs
    <3>3. j \notin T
      BY <1>1, <1>6, <1>7, <3>1
    <3> QED
      BY <3>1, <3>2, <3>3
  <2> QED
    BY <2>1, <2>2
<1> QED
  BY <1>7, <1>8

\* Everything received without a gap can be read, up to the first byte that is
\* missing; there is no other frame only if that is where the list ends.
ReadTo(f, off, size, e) ==
    /\ e \in Nat /\ off <= e /\ e <= size
    /\ \A o \in Nat : off <= o /\ o < e => InList(o, f)
    /\ ~InList(e, f)

LEMMA ReadableEndIs ==
    ASSUME NEW f, NEW off \in Nat, NEW size \in Nat, off <= size,
           IsList(f, off, size), NEW k, Reads(f, off, k),
           NEW e, e = R!PeekStart(f, off, k + 1)
    PROVE  /\ ReadTo(f, off, size, e)
           /\ k = Len(f) => e = IF f = <<>> THEN off ELSE f[Len(f)].end
           /\ k < Len(f) => f # <<>> /\ e < f[Len(f)].end
<1> DEFINE N == Len(f)
<1>1. /\ k \in 0..N /\ N \in Nat /\ k \in Nat /\ DOMAIN f = 1..N
      /\ f \in Seq(TrueFrames)
  BY ListIs DEF Reads
<1>2. /\ \A i \in 1..N : /\ f[i].start \in Nat /\ f[i].end \in Nat
                         /\ off < f[i].end /\ f[i].end <= size
                         /\ f[i].start <= f[i].end
      /\ \A i, j \in 1..N : i < j => f[i].start <= f[j].start /\ f[i].end < f[j].end
  BY ListIs
<1>3. k = 0 => e = off
  BY <1>1 DEF R!PeekStart
<1>4. k # 0 => k \in 1..N /\ e = f[k].end
  <2> SUFFICES ASSUME k # 0 PROVE k \in 1..N /\ e = f[k].end
    OBVIOUS
  <2>1. k \in 1..Len(f)
    BY <1>1
  <2> HIDE DEF N
  <2>2. \A i \in 1..Len(f) : R!PeekStart(f, off, i + 1) = f[i].end
    BY PeekStartIs
  <2> QED
    BY <2>1, <2>2 DEF N
<1>5. e \in Nat /\ off <= e /\ e <= size
  <2>1. CASE k = 0
    BY <1>3, <2>1
  <2>2. CASE k # 0
    <3>1. f[k].end \in Nat /\ off < f[k].end /\ f[k].end <= size
      BY <1>2, <1>4, <2>2
    <3> QED
      BY <1>4, <2>2, <3>1
  <2> QED
    BY <2>1, <2>2
<1>6. ASSUME NEW o \in Nat, off <= o, o < e PROVE InList(o, f)
  <2>1. PICK i \in 1..k : R!PeekStart(f, off, i) <= o /\ o < f[i].end
    BY <1>6, FoundIn
  <2>2. i \in 1..N /\ f[i].start <= R!PeekStart(f, off, i)
    BY <1>1, <2>1 DEF Reads
  <2>3. R!PeekStart(f, off, i) \in Nat
    BY <2>2, PeekStartIs
  <2>4. InFrame(o, f[i])
    BY <1>2, <2>1, <2>2, <2>3 DEF InFrame
  <2> QED
    BY <2>2, <2>4 DEF InList
<1>7. ASSUME k < N PROVE k + 1 \in 1..N /\ f[k + 1].start > e
  BY <1>1, <1>7 DEF Reads
<1>8. ~InList(e, f)
  <2> SUFFICES ASSUME NEW i \in 1..N, InFrame(e, f[i]) PROVE FALSE
    BY DEF InList
  <2>1. CASE i <= k
    <3>1. k \in 1..N /\ e = f[k].end /\ (i = k \/ i < k)
      BY <1>1, <1>4, <2>1
    <3>2. f[i].end <= f[k].end
      BY <1>2, <3>1
    <3> QED
      BY <1>2, <3>1, <3>2 DEF InFrame
  <2>2. CASE i > k
    <3>1. k < N /\ (i = k + 1 \/ k + 1 < i)
      BY <1>1, <2>2
    <3>2. k + 1 \in 1..N /\ f[k + 1].start > e
      BY <1>7, <3>1
    <3>3. f[i].start >= f[k + 1].start /\ f[i].start \in Nat /\ f[k + 1].start \in Nat
      BY <1>2, <3>1, <3>2
    <3>4. f[i].start <= e
      BY DEF InFrame
    <3> QED
      BY <1>5, <3>2, <3>3, <3>4
  <2> QED
    BY <1>1, <2>1, <2>2
<1>9. ASSUME k = N PROVE e = IF f = <<>> THEN off ELSE f[N].end
  <2>1. f = <<>> <=> N = 0
    BY <1>1
  <2> QED
    BY <1>1, <1>3, <1>4, <1>9, <2>1
<1>10. ASSUME k < N PROVE f # <<>> /\ e < f[N].end
  <2>1. k + 1 \in 1..N /\ f[k + 1].start > e /\ N \in 1..N
    BY <1>1, <1>7, <1>10
  <2>2. f[k + 1].end <= f[N].end
    <3>5. k \in Nat /\ N \in Nat
      BY <1>1
    <3>1. k + 1 = N \/ k + 1 < N
      <4> HIDE DEF N
      <4> QED
        BY <1>10, <3>5
    <3>2. f[N].end \in Nat
      BY <1>2, <2>1
    <3> HIDE DEF N
    <3>3. k + 1 < N => f[k + 1].end < f[N].end
      BY <1>2, <2>1
    <3>4. f[k + 1].end \in Nat
      BY <1>2, <2>1
    <3> QED
      BY <3>1, <3>2, <3>3, <3>4
  <2> QED
    BY <1>1, <1>2, <1>5, <2>1, <2>2
<1>11. ReadTo(f, off, size, e)
  BY <1>5, <1>6, <1>8 DEF ReadTo
<1> QED
  BY <1>9, <1>10, <1>11

\* ossl_sframe_list_drop_frames leaves everything that was not read.
LEMMA DropKeeps ==
    ASSUME NEW f, NEW off \in Nat, NEW size, IsList(f, off, size),
           NEW to \in Nat, NEW h, h = R!ossl_sframe_list_drop_frames(f, to)
    PROVE  /\ IsList(h, to, size)
           /\ \A o \in Nat : o >= to => (InList(o, h) <=> InList(o, f))
           /\ h = <<>> => f = <<>> \/ f[Len(f)].end <= to
           /\ h # <<>> => f # <<>> /\ h[Len(h)].end = f[Len(f)].end
<1> DEFINE N == Len(f)
           P(x) == /\ \A i \in 1..x : f[i].end <= to
                   /\ x < N => f[x + 1].end > to
           d == CHOOSE x \in 0..N : P(x)
<1>1. N \in Nat /\ f \in Seq(TrueFrames)
  BY ListIs
<1>2. \A i \in 1..N : f[i].start \in Nat /\ f[i].end \in Nat
  BY ListIs
<1>3. \A i, j \in 1..N : i < j => f[i].start <= f[j].start /\ f[i].end < f[j].end
  BY ListIs
<1>12. \A i \in 1..N : f[i].start <= f[i].end /\ f[i].end <= size
  BY ListIs
<1>4. \E x \in 0..N : P(x)
  <2> DEFINE T == {i \in 1..N : f[i].end <= to}
  <2>1. PICK x \in 0..N : (\A i \in 1..x : i \in T) /\ (x < N => x + 1 \notin T)
    <3> HIDE DEF T, N
    <3> QED
      BY <1>1, Walk
  <2>2. x < N => x + 1 \in 1..N
    BY <1>1
  <2> QED
    BY <1>2, <2>1, <2>2
<1>5. h = SubSeq(f, d + 1, N)
  BY DEF R!ossl_sframe_list_drop_frames
<1> HIDE DEF P
<1>6. d \in 0..N /\ P(d)
  BY <1>4
<1> HIDE DEF d, N
<1>7. /\ d \in Nat /\ d <= N
      /\ \A i \in 1..N : i <= d => f[i].end <= to
      /\ d < N => f[d + 1].end > to
  BY <1>1, <1>6 DEF P
<1>8. /\ h \in Seq(TrueFrames) /\ Len(h) = N - d
      /\ \A i \in 1..Len(h) : h[i] = f[i + d]
  <2>1. N = Len(f)
    BY DEF N
  <2> QED
    BY <1>1, <1>5, <1>7, <2>1
<1>9. \A i \in 1..Len(h) : i + d \in 1..N /\ h[i] = f[i + d] /\ i + d > d
  BY <1>1, <1>7, <1>8
<1>10. \A i \in 1..N : i > d => f[i].end > to
  <2> SUFFICES ASSUME NEW i \in 1..N, i > d PROVE f[i].end > to
    OBVIOUS
  <2>1. d < N /\ d + 1 \in 1..N /\ (i = d + 1 \/ d + 1 < i)
    BY <1>1, <1>7
  <2>2. f[d + 1].end > to /\ f[d + 1].end \in Nat /\ f[i].end \in Nat
    BY <1>2, <1>7, <2>1
  <2>3. d + 1 < i => f[d + 1].end < f[i].end
    BY <1>3, <2>1
  <2> QED
    BY <2>1, <2>2, <2>3
<1>11. IsList(h, to, size)
  <2>1. ASSUME NEW i \in 1..Len(h)
        PROVE  h[i].start <= h[i].end /\ to < h[i].end /\ h[i].end <= size
    <3>1. i + d \in 1..N /\ h[i] = f[i + d] /\ i + d > d
      BY <1>9
    <3> QED
      BY <1>2, <1>10, <1>12, <3>1
  <2>2. ASSUME NEW i \in 1..Len(h), NEW j \in 1..Len(h), i < j
        PROVE  h[i].start <= h[j].start /\ h[i].end < h[j].end
    <3>1. /\ i + d \in 1..N /\ h[i] = f[i + d] /\ j + d \in 1..N /\ h[j] = f[j + d]
          /\ i + d < j + d
      BY <1>7, <1>8, <1>9, <2>2
    <3> QED
      BY <1>3, <3>1
  <2>3. Ordered(h)
    BY <2>2 DEF Ordered
  <2> QED
    BY <1>8, <2>1, <2>3 DEF IsList
<1>13. ASSUME NEW o \in Nat, o >= to PROVE InList(o, h) <=> InList(o, f)
  <2>1. ASSUME InList(o, h) PROVE InList(o, f)
    BY <1>9, <2>1 DEF InList, N
  <2>2. ASSUME InList(o, f) PROVE InList(o, h)
    <3>1. PICK i \in 1..N : InFrame(o, f[i])
      BY <2>2 DEF InList, N
    <3>2. i > d
      <4>1. CASE i <= d
        <5>1. f[i].end <= to /\ f[i].end \in Nat /\ o < f[i].end
          BY <1>2, <1>7, <3>1, <4>1 DEF InFrame
        <5> QED
          BY <1>13, <5>1
      <4> QED
        BY <1>7, <4>1
    <3> DEFINE j == i - d
    <3>3. j \in 1..Len(h) /\ j + d = i
      BY <1>1, <1>7, <1>8, <3>2
    <3> HIDE DEF j
    <3>4. h[j] = f[i]
      BY <1>8, <3>3
    <3> QED
      BY <3>1, <3>3, <3>4 DEF InList
  <2> QED
    BY <2>1, <2>2
<1>14. h = <<>> <=> d = N
  <2>1. h = <<>> <=> Len(h) = 0
    BY <1>8
  <2> QED
    BY <1>1, <1>7, <1>8, <2>1
<1>15. f = <<>> <=> N = 0
  BY <1>1 DEF N
<1>16. ASSUME h = <<>> PROVE f = <<>> \/ f[N].end <= to
  BY <1>1, <1>7, <1>14, <1>15, <1>16
<1>17. ASSUME h # <<>> PROVE f # <<>> /\ h[Len(h)].end = f[N].end
  <2>1. Len(h) \in 1..Len(h) /\ Len(h) + d = N /\ N # 0
    BY <1>1, <1>7, <1>8, <1>14, <1>17
  <2> QED
    BY <1>8, <1>15, <2>1
<1> QED
  BY <1>11, <1>13, <1>16, <1>17 DEF N

\* A list of bytes in order is the first bytes of the stream.
Numbers(n) == [i \in 1..n |-> i]
\* Bytes from offset a on.
Count(s, a, n) == s \in Seq(Nat) /\ Len(s) = n /\ \A i \in 1..n : s[i] = a + i

LEMMA CountIs ==
    ASSUME NEW u, NEW n \in Nat, Count(u, 0, n)
    PROVE  u = Numbers(n)
<1>1. u = [i \in 1..Len(u) |-> u[i]]
  BY DEF Count
<1> QED
  BY <1>1 DEF Numbers, Count

LEMMA CountOn ==
    ASSUME NEW a \in Nat, NEW b \in Nat, NEW s, Count(s, 0, a),
           NEW t, Count(t, a, b), NEW u, u = s \o t
    PROVE  Count(u, 0, a + b)
<1>0. s \in Seq(Nat) /\ t \in Seq(Nat)
  BY DEF Count
<1>1. /\ u \in Seq(Nat) /\ Len(u) = Len(s) + Len(t)
      /\ \A i \in 1..Len(s) : u[i] = s[i]
      /\ \A i \in 1..Len(t) : u[Len(s) + i] = t[i]
  BY <1>0, Concatenated
<1>2. /\ Len(s) = a /\ Len(t) = b
      /\ \A i \in 1..a : s[i] = 0 + i
      /\ \A i \in 1..b : t[i] = a + i
  BY DEF Count
<1>3. ASSUME NEW i \in 1..(a + b) PROVE u[i] = i
  <2>1. CASE i <= a
    BY <1>1, <1>2, <2>1
  <2>2. CASE i > a
    <3> DEFINE j == i - a
    <3>1. j \in 1..b /\ a + j = i
      BY <2>2
    <3> HIDE DEF j
    <3> QED
      BY <1>1, <1>2, <3>1
  <2>3. i <= a \/ i > a
    OBVIOUS
  <2> QED
    BY <2>1, <2>2, <2>3, Zenon
<1> QED
  BY <1>1, <1>2, <1>3 DEF Count

LEMMA NumbersGrow ==
    ASSUME NEW a \in Nat, NEW b \in Nat, NEW s, s = Numbers(a),
           NEW t, t = [j \in 1..b |-> a + j], NEW u, u = s \o t
    PROVE  u = Numbers(a + b)
<1>1. Count(s, 0, a)
  BY DEF Numbers, Count
<1>2. Count(t, a, b)
  BY DEF Count
<1>3. Count(u, 0, a + b)
  BY <1>1, <1>2, CountOn, Zenon
<1>4. a + b \in Nat
  OBVIOUS
<1> QED
  BY <1>3, <1>4, CountIs, Zenon

\* What is read are the next bytes of the stream.
LEMMA BytesReadAre ==
    ASSUME offset \in Nat, NEW size, IsList(frames, offset, size),
           NEW k, k = R!Readable(frames, offset), Reads(frames, offset, k),
           NEW to \in Nat, offset <= to, to <= R!PeekStart(frames, offset, k + 1)
    PROVE  R!BytesRead(offset, to) = [j \in 1..(to - offset) |-> offset + j]
<1> DEFINE In(o) == CHOOSE i \in 1..k :
                      R!PeekStart(frames, offset, i) <= o /\ o < frames[i].end
<1>1. R!BytesRead(offset, to)
        = [j \in 1..(to - offset) |->
             R!ByteOf(In(offset + j - 1), offset + j - 1)]
  BY DEF R!BytesRead
<1>2. k \in 0..Len(frames) /\ Len(frames) \in Nat
  BY ListIs DEF Reads
<1>3. k = 0 => R!PeekStart(frames, offset, k + 1) = offset
  BY DEF R!PeekStart
<1>4. k # 0 => R!PeekStart(frames, offset, k + 1) \in Nat
  <2> SUFFICES ASSUME k # 0 PROVE R!PeekStart(frames, offset, k + 1) \in Nat
    OBVIOUS
  <2>1. k \in 1..Len(frames)
    BY <1>2
  <2>2. R!PeekStart(frames, offset, k + 1) = frames[k].end
    BY <2>1, PeekStartIs
  <2> QED
    BY <2>1, <2>2, ListIs
<1>5. ASSUME NEW o \in Nat, offset <= o, o < to PROVE R!ByteOf(In(o), o) = o + 1
  <2>1. o < R!PeekStart(frames, offset, k + 1)
    BY <1>3, <1>4, <1>5
  <2>2. \E i \in 1..k : R!PeekStart(frames, offset, i) <= o /\ o < frames[i].end
    BY <1>5, <2>1, FoundIn
  <2>3. /\ In(o) \in 1..k
        /\ R!PeekStart(frames, offset, In(o)) <= o /\ o < frames[In(o)].end
    BY <2>2
  <2> DEFINE i == In(o)
  <2> HIDE DEF In, i
  <2>4. /\ i \in 1..k /\ R!PeekStart(frames, offset, i) <= o /\ o < frames[i].end
        /\ i \in 1..Len(frames)
    BY <1>2, <2>3 DEF i
  <2>5. frames[i].start <= R!PeekStart(frames, offset, i)
    BY <2>4 DEF Reads
  <2>6. frames[i] \in TrueFrames /\ frames[i].start \in Nat /\ frames[i].end \in Nat
    BY <2>4, ListIs
  <2>7. R!PeekStart(frames, offset, i) \in Nat
    BY <2>4, PeekStartIs
  <2>8. o \in frames[i].start..(frames[i].end - 1)
    BY <2>4, <2>5, <2>6, <2>7
  <2>9. frames[i].in_pkt /\ frames[i].data[o] = o + 1
    BY <2>6, <2>8, FrameIs
  <2> QED
    BY <2>9 DEF i, R!ByteOf
<1> HIDE DEF In
<1>6. ASSUME NEW j \in 1..(to - offset)
      PROVE  R!ByteOf(In(offset + j - 1), offset + j - 1) = offset + j
  <2> DEFINE o == offset + j - 1
  <2>1. o \in Nat /\ offset <= o /\ o < to /\ o + 1 = offset + j
    OBVIOUS
  <2> HIDE DEF o
  <2>2. R!ByteOf(In(o), o) = o + 1
    BY <1>5, <2>1
  <2> QED
    BY <2>1, <2>2 DEF o
<1> QED
  BY <1>1, <1>6

(***************************************************************************)
(* The send stream of S is the one of SP                                   *)
(***************************************************************************)
LEMMA SameInit == S!Init => SP!Init
BY DEF S!Init, SP!Init, S!ring_buf_init, SP!ring_buf_init, S!Zero, SP!Zero

LEMMA SameAppend ==
    ASSUME NEW n
    PROVE  S!Append_(n) = SP!Append_(n)
<1>1. S!ring_buf_resize(ring, S!MinOf(ring.alloc + (n - S!ring_buf_avail(ring)),
                                      MaxWriteBufSize))
        = SP!ring_buf_resize(ring, SP!MinOf(ring.alloc + (n - SP!ring_buf_avail(ring)),
                                            MaxWriteBufSize))
  BY DEF S!ring_buf_avail, SP!ring_buf_avail, S!ring_buf_used, SP!ring_buf_used,
         S!ring_buf_resize, SP!ring_buf_resize, S!MinOf, SP!MinOf,
         S!CopyIn, SP!CopyIn, S!ByteAt, SP!ByteAt, S!BytesAt, SP!BytesAt,
         S!ring_buf_init, SP!ring_buf_init, S!Zero, SP!Zero
<1>2. S!sstream_ensure_spare(n) = SP!sstream_ensure_spare(n)
  BY <1>1 DEF S!sstream_ensure_spare, SP!sstream_ensure_spare,
              S!ring_buf_avail, SP!ring_buf_avail, S!ring_buf_used, SP!ring_buf_used
<1>3. ASSUME NEW r PROVE S!ring_buf_push(r, n) = SP!ring_buf_push(r, n)
  BY DEF S!ring_buf_push, SP!ring_buf_push, S!ring_buf_avail, SP!ring_buf_avail,
         S!ring_buf_used, SP!ring_buf_used, S!MinOf, SP!MinOf, S!CopyIn, SP!CopyIn,
         S!ByteAt, SP!ByteAt
<1> QED
  BY <1>2, <1>3 DEF S!Append_, SP!Append_, S!CurSize, SP!CurSize, S!flags, SP!flags

LEMMA SameFin == S!Fin = SP!Fin
BY DEF S!Fin, SP!Fin

LEMMA SameChunks ==
    ASSUME NEW p
    PROVE  /\ S!ChunksOf(p) = SP!ChunksOf(p)
           /\ S!PacketBytes(p) = SP!PacketBytes(p)
           /\ S!HasFin(p) = SP!HasFin(p)
<1>1. S!ChunksOf(p) = SP!ChunksOf(p)
  BY DEF S!ChunksOf, SP!ChunksOf
<1>2. \A c : S!Covered(c) = SP!Covered(c)
  BY DEF S!Covered, SP!Covered
<1>3. S!PacketBytes(p) = SP!PacketBytes(p)
  BY <1>1, <1>2 DEF S!PacketBytes, SP!PacketBytes
<1>4. S!HasFin(p) = SP!HasFin(p)
  BY <1>1 DEF S!HasFin, SP!HasFin
<1> QED
  BY <1>1, <1>3, <1>4

LEMMA SameLost ==
    ASSUME NEW p
    PROVE  S!OnLost(p) = SP!OnLost(p)
BY SameChunks DEF S!OnLost, SP!OnLost

LEMMA SameTransmit == S!Transmit => SP!Transmit
<1>1. ASSUME NEW X PROVE S!Cardinality(X) = SP!Cardinality(X)
  BY DEF S!Cardinality, SP!Cardinality
<1>2. ASSUME NEW X PROVE S!Starts(X) = SP!Starts(X)
  BY DEF S!Starts, SP!Starts
<1>3. ASSUME NEW x PROVE S!RangeFrame(x) = SP!RangeFrame(x)
  BY DEF S!RangeFrame, SP!RangeFrame, S!RangeEnd, SP!RangeEnd, S!UintMod,
         SP!UintMod, S!MinOf, SP!MinOf, S!CurSize, SP!CurSize, S!Retained,
         SP!Retained, S!Contiguous, SP!Contiguous, S!NoFrame, SP!NoFrame
<1>4. ASSUME NEW skip
      PROVE  S!ossl_quic_sstream_get_stream_frame(skip)
               = SP!ossl_quic_sstream_get_stream_frame(skip)
  BY <1>1, <1>2, <1>3
     DEF S!ossl_quic_sstream_get_stream_frame, SP!ossl_quic_sstream_get_stream_frame,
         S!FinFrame, SP!FinFrame, S!NoFrame, SP!NoFrame, S!CurSize, SP!CurSize
<1>9. ASSUME NEW k, NEW f PROVE S!NextSkip(k, f) = SP!NextSkip(k, f)
  BY DEF S!NextSkip, SP!NextSkip
<1>5. ASSUME NEW n PROVE S!Planned(n) = SP!Planned(n)
  <2> DEFINE s == CHOOSE g : g = [i \in 0..n |->
                   IF i = 0 THEN 0
                   ELSE S!NextSkip(g[i - 1],
                                   S!ossl_quic_sstream_get_stream_frame(g[i - 1]))]
             t == CHOOSE g : g = [i \in 0..n |->
                   IF i = 0 THEN 0
                   ELSE SP!NextSkip(g[i - 1],
                                    SP!ossl_quic_sstream_get_stream_frame(g[i - 1]))]
  <2>1. S!Planned(n)
          = [i \in 1..n |-> S!ossl_quic_sstream_get_stream_frame(s[i - 1])]
    BY DEF S!Planned
  <2>2. SP!Planned(n)
          = [i \in 1..n |-> SP!ossl_quic_sstream_get_stream_frame(t[i - 1])]
    BY DEF SP!Planned
  <2>3. s = t
    BY <1>4, <1>9
  <2> HIDE DEF s, t
  <2> QED
    BY <1>4, <2>1, <2>2, <2>3
<1>6. ASSUME NEW f, NEW len PROVE S!Chunk(f, len) = SP!Chunk(f, len)
  BY DEF S!Chunk, SP!Chunk, S!Dec, SP!Dec, S!UintMod, SP!UintMod,
         S!BytesAt, SP!BytesAt
<1>7. ASSUME NEW n PROVE S!Packets(n) = SP!Packets(n)
  BY <1>5, <1>6 DEF S!Packets, SP!Packets
<1>8. ASSUME NEW p PROVE S!TxPacket(p) = SP!TxPacket(p)
  BY <1>1, SameChunks DEF S!TxPacket, SP!TxPacket
<1> QED
  BY <1>7, <1>8 DEF S!Transmit, SP!Transmit

LEMMA SameAcked ==
    ASSUME NEW p
    PROVE  S!OnAcked(p) = SP!OnAcked(p)
<1>1. ASSUME NEW X, NEW x PROVE S!RangeEnd(X, x) = SP!RangeEnd(X, x)
  BY DEF S!RangeEnd, SP!RangeEnd
<1>2. ASSUME NEW r, NEW a, NEW b, NEW c
      PROVE  S!ring_buf_cpop_range(r, a, b, c) = SP!ring_buf_cpop_range(r, a, b, c)
  BY DEF S!ring_buf_cpop_range, SP!ring_buf_cpop_range, S!Cleanse, SP!Cleanse,
         S!CopyIn, SP!CopyIn, S!Zero, SP!Zero, S!MinOf, SP!MinOf
<1>3. ASSUME NEW r, NEW X PROVE S!qss_cull(r, X) = SP!qss_cull(r, X)
  BY <1>1, <1>2 DEF S!qss_cull, SP!qss_cull
<1>4. ASSUME NEW b, NEW c
      PROVE  S!ossl_quic_sstream_mark_acked(b, c) = SP!ossl_quic_sstream_mark_acked(b, c)
  BY <1>3 DEF S!ossl_quic_sstream_mark_acked, SP!ossl_quic_sstream_mark_acked,
              S!Covered, SP!Covered
<1>5. S!Acked(p) = SP!Acked(p)
  BY <1>4 DEF S!Acked, SP!Acked
<1> QED
  BY <1>5, SameChunks DEF S!OnAcked, SP!OnAcked

LEMMA SameBytesOfStream ==
    /\ S!StreamBytes = SP!StreamBytes
    /\ S!ossl_quic_sstream_is_totally_acked = SP!ossl_quic_sstream_is_totally_acked
<1>1. ASSUME NEW X PROVE S!Cardinality(X) = SP!Cardinality(X)
  BY DEF S!Cardinality, SP!Cardinality
<1>2. S!CurSize = SP!CurSize
  BY DEF S!CurSize, SP!CurSize
<1>3. S!Starts(acked_set) = SP!Starts(acked_set)
  BY DEF S!Starts, SP!Starts
<1>4. S!RangeEnd(acked_set, 0) = SP!RangeEnd(acked_set, 0)
  BY DEF S!RangeEnd, SP!RangeEnd
<1> QED
  BY <1>1, <1>2, <1>3, <1>4
     DEF S!StreamBytes, SP!StreamBytes, S!ossl_quic_sstream_is_totally_acked,
         SP!ossl_quic_sstream_is_totally_acked

(***************************************************************************)
(* The inductive invariant                                                 *)
(***************************************************************************)
Size == ring.head_offset

\* Where the data of a chunk ends, and whether byte o is in it.
End(c) == (c.end + 1) % (MaxUint + 1)
Carries(c, o) == c.start <= o /\ o < End(c)

\* What holds of every frame that was ever sent: it has bytes that were
\* written, and its FIN stands at the end of a stream that is concluded.
Sent(c) ==
    /\ c.start \in Nat /\ c.end \in 0..MaxUint /\ c.has_fin \in BOOLEAN
    /\ End(c) \in Nat /\ c.start <= End(c) /\ End(c) <= Size
    /\ c.data = [o \in c.start..(End(c) - 1) |-> R!ByteAt(o)]
    /\ c.has_fin => have_final_size /\ End(c) = Size
    /\ c.end = MaxUint => c.has_fin

NetInv ==
    /\ \A c \in net : Sent(c)
    /\ \A p \in pkts : SP!ChunksOf(p) \subseteq net
    /\ rxed \subseteq net

\* Frames that were received count.
RxedInv ==
    \A c \in rxed : /\ \A o \in Nat : Carries(c, o) => o \in received
                    /\ c.has_fin => fin

\* Acknowledged bytes were received; only the FIN-only frame of an empty stream
\* acknowledges bytes that do not exist.
AckInv ==
    /\ \A o \in acked_set : o \in received \/ (Size = 0 /\ have_final_size)
    /\ acked_final_size => fin

\* Bytes not yet read are those of the list.
ListInv ==
    /\ offset \in Nat /\ offset <= Size
    /\ IsList(frames, offset, Size)
    /\ \A o \in received : o \in Nat /\ o < Size
    /\ recv_state # R!DATA_READ =>
         \A o \in Nat : o \in received <=> o < offset \/ InList(o, frames)

\* The end of the stream.
AllReceived == \A o \in Nat : o < Size => o \in received
EndInv ==
    /\ fin \in BOOLEAN /\ have_final_size \in BOOLEAN
    /\ recv_state \in {R!RECV, R!SIZE_KNOWN, R!DATA_RECVD, R!DATA_READ}
    /\ fin => have_final_size
    /\ recv_state = R!RECV <=> ~fin
    /\ recv_state \in {R!DATA_RECVD, R!DATA_READ} <=> fin /\ AllReceived
    /\ recv_state = R!DATA_READ => offset = Size
    /\ fin /\ recv_state # R!DATA_READ => R!CurrEnd = Size

Inv ==
    /\ SP!IInv
    /\ crypto = FALSE
    /\ got = Numbers(offset)
    /\ NetInv
    /\ RxedInv
    /\ AckInv
    /\ ListInv
    /\ EndInv

LEMMA SizeIsNat ==
    ASSUME SP!IInv
    PROVE  Size \in Nat /\ SP!CurSize = Size /\ Size < MaxUint
<1>1. SP!Sound(ring)
  BY DEF SP!IInv
<1>2. SP!CurSize \in Nat /\ SP!CurSize < MaxUint
  BY <1>1, SP!SizeIs, StreamAssumption
<1> QED
  BY <1>2 DEF SP!CurSize, Size

LEMMA LongerList ==
    ASSUME NEW f, NEW off, NEW m \in Nat, NEW n \in Nat, m <= n, IsList(f, off, m)
    PROVE  IsList(f, off, n)
<1>1. \A i \in 1..Len(f) :
        f[i].start <= f[i].end /\ off < f[i].end /\ f[i].end <= m /\ f[i].end \in Nat
  BY ListIs
<1>2. \A i \in 1..Len(f) :
        f[i].start <= f[i].end /\ off < f[i].end /\ f[i].end <= n
  BY <1>1
<1> QED
  BY <1>2 DEF IsList

\* Steps of the sender that leave the receiver alone: the stream may grow until
\* it is concluded, and only what was received is acknowledged.
SenderStep ==
    /\ SP!IInv'
    /\ Size' >= Size
    /\ have_final_size => Size' = Size /\ have_final_size'
    /\ have_final_size' \in BOOLEAN
    /\ UNCHANGED <<crypto, frames, offset, fin, recv_state, received, got, rxed>>
    /\ net \subseteq net'
    /\ \A c \in net' : c \in net \/ Sent(c)'
    /\ \A p \in pkts' : SP!ChunksOf(p) \subseteq net'
    /\ \A o \in acked_set' : o \in acked_set \/ o \in received
                               \/ (Size = 0 /\ have_final_size)
    /\ acked_final_size' => acked_final_size \/ fin

LEMMA SenderKeeps ==
    ASSUME Inv, SenderStep
    PROVE  Inv'
<1>0. /\ SP!IInv /\ SP!IInv' /\ crypto = FALSE /\ got = Numbers(offset)
      /\ NetInv /\ RxedInv /\ AckInv /\ ListInv /\ EndInv
  BY DEF Inv, SenderStep
<1>1. /\ Size' >= Size
      /\ have_final_size => Size' = Size /\ have_final_size'
      /\ have_final_size' \in BOOLEAN
  BY DEF SenderStep
<1>2. UNCHANGED <<crypto, frames, offset, fin, recv_state, received, got, rxed>>
  BY DEF SenderStep
<1>3. Size \in Nat /\ Size' \in Nat
  <2>1. Size \in Nat
    BY <1>0, SizeIsNat
  <2>2. SP!Sound(ring)'
    BY <1>0 DEF SP!IInv
  <2>3. Size' \in Nat
    BY <2>2 DEF SP!Sound, SP!IsRingBuf, Size
  <2> QED
    BY <2>1, <2>3
<1>4. crypto' = FALSE /\ got' = Numbers(offset')
  BY <1>0, <1>2
<1>5. NetInv'
  <2>1. ASSUME NEW c \in net, Sent(c) PROVE Sent(c)'
    <3> DEFINE e == End(c)
    <3>1. /\ e \in Nat /\ c.start <= e /\ e <= Size
          /\ c.has_fin => have_final_size /\ e = Size
          /\ c.data = [o \in c.start..(e - 1) |-> R!ByteAt(o)]
          /\ c.start \in Nat /\ c.end \in 0..MaxUint /\ c.has_fin \in BOOLEAN
          /\ c.end = MaxUint => c.has_fin
      BY <2>1 DEF Sent
    <3>2. End(c)' = e
      BY DEF End
    <3> HIDE DEF e
    <3>3. e <= Size' /\ (c.has_fin => have_final_size' /\ e = Size')
      BY <1>1, <1>3, <3>1
    <3> QED
      BY <3>1, <3>2, <3>3 DEF Sent, R!ByteAt
  <2>2. \A c \in net' : Sent(c)'
    BY <1>0, <2>1 DEF NetInv, SenderStep
  <2>3. rxed' \subseteq net'
    BY <1>0, <1>2 DEF NetInv, SenderStep
  <2> QED
    BY <2>2, <2>3 DEF NetInv, SenderStep
<1>6. RxedInv'
  BY <1>0, <1>2 DEF RxedInv, Carries, End
<1>7. AckInv'
  <2>1. \A o \in acked_set' : o \in received' \/ (Size' = 0 /\ have_final_size')
    BY <1>0, <1>1, <1>2 DEF AckInv, SenderStep
  <2>2. acked_final_size' => fin'
    BY <1>0, <1>2 DEF AckInv, SenderStep
  <2> QED
    BY <2>1, <2>2 DEF AckInv
<1>8. ListInv'
  <2>1. IsList(frames, offset, Size')
    BY <1>0, <1>1, <1>3, LongerList DEF ListInv
  <2>2. offset \in Nat /\ offset <= Size' /\ \A o \in received : o \in Nat /\ o < Size'
    BY <1>0, <1>1, <1>3 DEF ListInv
  <2>3. recv_state' # R!DATA_READ =>
          \A o \in Nat : o \in received' <=> o < offset' \/ InList(o, frames')
    BY <1>0, <1>2 DEF ListInv, R!DATA_READ
  <2> QED
    BY <1>2, <2>1, <2>2, <2>3 DEF ListInv
<1>9. EndInv'
  <2>1. R!CurrEnd' = R!CurrEnd
    BY <1>2 DEF R!CurrEnd
  <2>2. CASE Size' = Size
    <3>1. AllReceived' = AllReceived
      BY <1>2, <2>2 DEF AllReceived
    <3> QED
      BY <1>0, <1>1, <1>2, <2>1, <2>2, <3>1
         DEF EndInv, R!RECV, R!SIZE_KNOWN, R!DATA_RECVD, R!DATA_READ
  <2>3. CASE Size' # Size
    <3>1. ~have_final_size /\ fin = FALSE /\ recv_state = R!RECV
      BY <1>0, <1>1, <2>3 DEF EndInv
    <3>2. fin' = FALSE /\ recv_state' = R!RECV
      BY <1>2, <3>1
    <3> QED
      BY <1>1, <3>2 DEF EndInv, R!RECV, R!SIZE_KNOWN, R!DATA_RECVD, R!DATA_READ
  <2> QED
    BY <2>2, <2>3
<1> QED
  BY <1>0, <1>4, <1>5, <1>6, <1>7, <1>8, <1>9 DEF Inv

LEMMA NothingNew ==
    ASSUME Inv, net' = net, pkts' \subseteq pkts
    PROVE  /\ net \subseteq net' /\ \A c \in net' : c \in net \/ Sent(c)'
           /\ \A p \in pkts' : SP!ChunksOf(p) \subseteq net'
BY DEF Inv, NetInv

LEMMA WriteIs ==
    ASSUME Inv, NEW n \in 1..MaxWrite, Write(n)
    PROVE  SenderStep /\ ~have_final_size /\ have_final_size' = have_final_size
<1>0. SP!IInv /\ have_final_size \in BOOLEAN
  BY DEF Inv, EndInv
<1>1. SP!Append_(n)
  BY SameAppend DEF Write
<1>2. SP!IInv' /\ SP!CurSize' >= SP!CurSize
  BY <1>0, <1>1, SP!AppendKeeps, StreamAssumption
<1>3. ~have_final_size /\ UNCHANGED <<acked_set, have_final_size, acked_final_size, pkts>>
  BY <1>1 DEF SP!Append_, SP!flags
<1>4. /\ UNCHANGED <<crypto, frames, offset, fin, recv_state, received, got, rxed>>
      /\ net' = net
  BY DEF Write, rvars
<1>5. Size' >= Size
  BY <1>2 DEF Size, SP!CurSize
<1> QED
  BY <1>0, <1>2, <1>3, <1>4, <1>5, NothingNew DEF SenderStep

LEMMA ConcludeIs ==
    ASSUME Inv, Conclude
    PROVE  SenderStep /\ have_final_size' = TRUE /\ ring' = ring
<1>0. SP!IInv /\ Size \in Nat
  BY SizeIsNat DEF Inv
<1>1. SP!Fin
  BY SameFin DEF Conclude
<1>2. SP!IInv'
  BY <1>0, <1>1, SP!SettingKeeps, StreamAssumption
<1>3. /\ ~have_final_size /\ have_final_size' = TRUE
      /\ UNCHANGED <<ring, acked_set, acked_final_size, pkts>>
  BY <1>1 DEF SP!Fin
<1>4. /\ UNCHANGED <<crypto, frames, offset, fin, recv_state, received, got, rxed>>
      /\ net' = net
  BY DEF Conclude, rvars
<1>5. Size' = Size /\ Size' >= Size
  BY <1>0, <1>3 DEF Size
<1> QED
  BY <1>2, <1>3, <1>4, <1>5, NothingNew DEF SenderStep

LEMMA LoseIs ==
    ASSUME Inv, NEW p \in pkts, Lose(p)
    PROVE  SenderStep /\ UNCHANGED <<ring, have_final_size>>
<1>0. SP!IInv /\ Size \in Nat /\ have_final_size \in BOOLEAN
  BY SizeIsNat DEF Inv, EndInv
<1>1. SP!OnLost(p)
  BY SameLost DEF Lose
<1>2. SP!IInv'
  BY <1>0, <1>1, SP!LossKeeps, StreamAssumption
<1>3. /\ UNCHANGED <<ring, have_final_size, acked_set, acked_final_size>>
      /\ pkts' \subseteq pkts
  BY <1>1 DEF SP!OnLost
<1>4. /\ UNCHANGED <<crypto, frames, offset, fin, recv_state, received, got, rxed>>
      /\ net' = net
  BY DEF Lose, rvars
<1>5. Size' = Size /\ Size' >= Size
  BY <1>0, <1>3 DEF Size
<1> QED
  BY <1>0, <1>2, <1>3, <1>4, <1>5, NothingNew DEF SenderStep

\* The bytes that a chunk is said to cover are those it carries, but for the
\* FIN of an empty stream.
LEMMA CoveredIs ==
    ASSUME NEW c, Sent(c), NEW o \in SP!Covered(c)
    PROVE  o \in Nat /\ (Carries(c, o) \/ (Size = 0 /\ have_final_size))
<1>0. MaxUint \in Nat
  BY StreamAssumption
<1>1. /\ c.start \in Nat /\ c.end \in 0..MaxUint
      /\ c.has_fin => have_final_size /\ End(c) = Size
      /\ c.end = MaxUint => c.has_fin
  BY DEF Sent
<1>2. o \in Nat /\ c.start <= o /\ o <= c.end
  BY <1>1 DEF SP!Covered
<1>3. CASE c.end = MaxUint
  <2>1. End(c) = 0
    BY <1>0, <1>3 DEF End
  <2> QED
    BY <1>1, <1>2, <1>3, <2>1
<1>4. CASE c.end # MaxUint
  <2>1. End(c) = c.end + 1
    BY <1>0, <1>1, <1>4 DEF End
  <2> QED
    BY <1>1, <1>2, <2>1 DEF Carries
<1> QED
  BY <1>3, <1>4

LEMMA AcknowledgeIs ==
    ASSUME Inv, NEW p \in pkts, Acknowledge(p)
    PROVE  SenderStep /\ Size' = Size /\ have_final_size' = have_final_size
<1>0. /\ SP!IInv /\ Size \in Nat /\ have_final_size \in BOOLEAN
      /\ NetInv /\ RxedInv /\ AckInv
  BY SizeIsNat DEF Inv, EndInv
<1>1. SP!OnAcked(p) /\ SP!ChunksOf(p) \subseteq rxed
  BY SameAcked, SameChunks DEF Acknowledge
<1>2. /\ SP!IInv' /\ SP!CurSize' = SP!CurSize
      /\ acked_set' = acked_set \cup SP!PacketBytes(p)
  BY <1>0, <1>1, SP!AckKeeps, StreamAssumption
<1>3. /\ UNCHANGED <<have_final_size>> /\ pkts' \subseteq pkts
      /\ acked_final_size' = (acked_final_size \/ (SP!HasFin(p) /\ have_final_size))
  BY <1>1 DEF SP!OnAcked
<1>4. /\ UNCHANGED <<crypto, frames, offset, fin, recv_state, received, got, rxed>>
      /\ net' = net
  BY DEF Acknowledge, rvars
<1>5. Size' = Size /\ Size' >= Size
  BY <1>0, <1>2 DEF Size, SP!CurSize
<1>6. \A c \in SP!ChunksOf(p) : c \in rxed /\ Sent(c)
  BY <1>0, <1>1 DEF NetInv
<1>7. ASSUME NEW o \in SP!PacketBytes(p)
      PROVE  o \in received \/ (Size = 0 /\ have_final_size)
  <2>1. PICK c \in SP!ChunksOf(p) : o \in SP!Covered(c)
    BY DEF SP!PacketBytes
  <2>2. o \in Nat /\ (Carries(c, o) \/ (Size = 0 /\ have_final_size))
    BY <1>6, <2>1, CoveredIs
  <2> QED
    BY <1>0, <1>6, <2>1, <2>2 DEF RxedInv
<1>8. SP!HasFin(p) => fin
  BY <1>0, <1>6 DEF SP!HasFin, RxedInv
<1>9. \A o \in acked_set' : o \in acked_set \/ o \in received
                               \/ (Size = 0 /\ have_final_size)
  BY <1>2, <1>7
<1>10. acked_final_size' => acked_final_size \/ fin
  BY <1>3, <1>8
<1>11. /\ net \subseteq net' /\ \A c \in net' : c \in net \/ Sent(c)'
       /\ \A q \in pkts' : SP!ChunksOf(q) \subseteq net'
  BY <1>3, <1>4, NothingNew
<1> QED
  BY <1>0, <1>2, <1>3, <1>4, <1>5, <1>9, <1>10, <1>11 DEF SenderStep

\* A chunk that is put into a packet.
LEMMA GoodIsSent ==
    ASSUME SP!IInv, NEW c, SP!GoodChunk(c)
    PROVE  Sent(c)
<1>0. Size \in Nat /\ SP!CurSize = Size /\ Size < MaxUint /\ MaxUint \in Nat
  BY SizeIsNat, StreamAssumption
<1>1. c.start \in Nat /\ c.end \in 0..MaxUint /\ c.has_fin \in BOOLEAN
  BY StreamAssumption DEF SP!GoodChunk, SP!IsChunk
<1>2. SP!UintMod(c.end + 1) = End(c)
  BY DEF SP!UintMod, End
<1>3. SP!Whole(c)
  BY DEF SP!GoodChunk
<1>4. /\ End(c) \in 0..Size /\ c.start <= End(c)
      /\ c.data = [o \in c.start..(End(c) - 1) |-> SP!ByteAt(o)]
  BY <1>0, <1>2, <1>3 DEF SP!Whole
<1>5. c.data = [o \in c.start..(End(c) - 1) |-> R!ByteAt(o)]
  BY <1>4 DEF SP!ByteAt, R!ByteAt
<1>6. c.has_fin => have_final_size /\ End(c) = Size
  BY <1>0, <1>2 DEF SP!GoodChunk
<1>7. c.end = MaxUint => c.has_fin
  <2> SUFFICES ASSUME c.end = MaxUint PROVE c.has_fin
    OBVIOUS
  <2>1. CASE Size = 0
    BY <1>0, <2>1 DEF SP!GoodChunk
  <2>2. CASE Size # 0
    <3>1. SP!Covered(c) \subseteq SP!StreamBytes
      BY <1>0, <2>2 DEF SP!GoodChunk, SP!Span
    <3>2. SP!StreamBytes = 0..(Size - 1)
      BY <1>0 DEF SP!StreamBytes
    <3>5. c.start <= MaxUint
      <4>1. c.start <= Size
        BY <1>0, <1>1, <1>4
      <4> QED
        BY <1>0, <1>1, <4>1
    <3>3. MaxUint \in SP!Covered(c)
      BY <1>0, <1>1, <3>5 DEF SP!Covered
    <3>4. MaxUint \in 0..(Size - 1)
      BY <3>1, <3>2, <3>3
    <3> QED
      BY <1>0, <3>4
  <2> QED
    BY <2>1, <2>2
<1>8. End(c) \in Nat /\ End(c) <= Size
  BY <1>0, <1>4
<1> QED
  BY <1>1, <1>4, <1>5, <1>6, <1>7, <1>8 DEF Sent

LEMMA TransmitIs ==
    ASSUME Inv, Transmit
    PROVE  SenderStep /\ UNCHANGED <<ring, have_final_size>>
<1>0. SP!IInv /\ Size \in Nat /\ have_final_size \in BOOLEAN /\ NetInv
  BY SizeIsNat DEF Inv, EndInv
<1>1. SP!Transmit
  BY SameTransmit DEF Transmit
<1>2. SP!IInv'
  BY <1>0, <1>1, SP!TransmitKeeps, StreamAssumption
<1>3. PICK n \in 1..MaxChunks : \E p \in SP!Packets(n) : SP!TxPacket(p)
  BY <1>1 DEF SP!Transmit
<1>4. PICK p \in SP!Packets(n) : SP!TxPacket(p)
  BY <1>3
<1>5. SP!GoodPacket(p)
  <2>1. n \in Nat \ {0}
    BY StreamAssumption
  <2> QED
    BY <1>0, <2>1, SP!PacketGood, StreamAssumption
<1>6. /\ UNCHANGED <<ring, have_final_size, acked_set, acked_final_size>>
      /\ pkts' = pkts \cup {p}
  BY <1>4 DEF SP!TxPacket
<1>7. /\ UNCHANGED <<crypto, frames, offset, fin, recv_state, received, got, rxed>>
      /\ net' = net \cup UNION {S!ChunksOf(q) : q \in pkts'}
  BY DEF Transmit, rvars
<1>8. \A q : S!ChunksOf(q) = SP!ChunksOf(q)
  BY SameChunks
<1>9. net \subseteq net' /\ \A q \in pkts' : SP!ChunksOf(q) \subseteq net'
  BY <1>7, <1>8
<1>10. \A c \in SP!ChunksOf(p) : Sent(c)
  BY <1>0, <1>5, GoodIsSent DEF SP!GoodPacket
<1>11. Size' = Size /\ Size' >= Size
  BY <1>0, <1>6 DEF Size
<1>12. ASSUME NEW c \in net' PROVE c \in net \/ Sent(c)'
  <2>1. CASE c \in net
    BY <2>1
  <2>2. CASE c \notin net
    <3>1. PICK q \in pkts' : c \in SP!ChunksOf(q)
      BY <1>7, <1>8, <2>2
    <3>2. q = p
      BY <1>0, <1>6, <2>2, <3>1 DEF NetInv
    <3>3. Sent(c)
      BY <1>10, <3>1, <3>2
    <3> QED
      BY <1>6, <1>11, <3>3 DEF Sent, End, R!ByteAt
  <2> QED
    BY <2>1, <2>2
<1> QED
  BY <1>0, <1>2, <1>6, <1>7, <1>9, <1>11, <1>12 DEF SenderStep

(***************************************************************************)
(* Steps of the receiver                                                   *)
(***************************************************************************)

\* End of a list from off on.
LastEnd(f, off) == IF f = <<>> THEN off ELSE f[Len(f)].end

\* Everything up to the end of the list can be read exactly when nothing is
\* missing.
LEMMA ReadableIff ==
    ASSUME NEW f, NEW off \in Nat, NEW size \in Nat, off <= size,
           IsList(f, off, size), LastEnd(f, off) = size
    PROVE  /\ R!Readable(f, off) = Len(f) => R!ReadableEnd(f, off) = size
           /\ R!Readable(f, off) = Len(f)
                <=> \A o \in Nat : off <= o /\ o < size => InList(o, f)
<1> DEFINE k == R!Readable(f, off)
           e == R!PeekStart(f, off, k + 1)
<1>1. R!ReadableEnd(f, off) = e
  BY DEF R!ReadableEnd
<1>2. k = R!Readable(f, off)
  OBVIOUS
<1> HIDE DEF k
<1>3. Reads(f, off, k)
  BY <1>2, ReadableReads
<1>4. e = R!PeekStart(f, off, k + 1)
  OBVIOUS
<1> HIDE DEF e
<1>5. /\ ReadTo(f, off, size, e)
      /\ k = Len(f) => e = IF f = <<>> THEN off ELSE f[Len(f)].end
      /\ k < Len(f) => f # <<>> /\ e < f[Len(f)].end
  BY <1>3, <1>4, ReadableEndIs
<1>6. k = Len(f) => e = size
  BY <1>5 DEF LastEnd
<1>7. k < Len(f) => e < size
  BY <1>5 DEF LastEnd
<1>8. k = Len(f) \/ k < Len(f)
  <2>1. k \in 0..Len(f) /\ Len(f) \in Nat
    BY <1>3, ListIs DEF Reads
  <2> QED
    BY <2>1
<1>9. /\ e \in Nat /\ off <= e /\ ~InList(e, f)
      /\ \A o \in Nat : off <= o /\ o < e => InList(o, f)
  BY <1>5 DEF ReadTo
<1>10. ASSUME k = Len(f) PROVE \A o \in Nat : off <= o /\ o < size => InList(o, f)
  BY <1>6, <1>9, <1>10
<1>11. ASSUME \A o \in Nat : off <= o /\ o < size => InList(o, f) PROVE k = Len(f)
  BY <1>7, <1>8, <1>9, <1>11
<1> QED
  BY <1>1, <1>2, <1>6, <1>10, <1>11

\* An insertion moves the end of the list to the final size when it is known.
LEMMA InsertedEnd ==
    ASSUME NEW g, NEW f, NEW n \in TrueFrames, NEW off \in Nat, NEW size \in Nat,
           off <= size, n.end <= size, IsList(f, off, size),
           Inserted(g, f, n, off, size),
           n.end = size \/ LastEnd(f, off) = size
    PROVE  LastEnd(g, off) = size
<1>0. n.end \in Nat
  BY FrameIs
<1>1. f # <<>> => f[Len(f)].end \in Nat /\ off < f[Len(f)].end /\ f[Len(f)].end <= size
  <2>1. f # <<>> => Len(f) \in 1..Len(f)
    BY ListIs
  <2> QED
    BY <2>1, ListIs
<1>2. CASE off >= n.end
  <2>1. g = f
    BY <1>2 DEF Inserted
  <2>2. CASE LastEnd(f, off) = size
    BY <2>1, <2>2
  <2>3. CASE n.end = size
    <3>1. off = size /\ f = <<>>
      BY <1>0, <1>1, <1>2, <2>3
    <3> QED
      BY <2>1, <3>1 DEF LastEnd
  <2> QED
    BY <2>2, <2>3
<1>3. CASE off < n.end
  <2>1. /\ g # <<>> /\ g[Len(g)].end >= n.end
        /\ f # <<>> => g[Len(g)].end >= f[Len(f)].end
    BY <1>3 DEF Inserted, Reaches
  <2>2. IsList(g, off, size)
    BY DEF Inserted
  <2>3. g[Len(g)].end \in Nat /\ g[Len(g)].end <= size
    <3>1. Len(g) \in 1..Len(g)
      BY <2>1, <2>2, ListIs
    <3> QED
      BY <2>2, <3>1, ListIs
  <2>4. g[Len(g)].end >= size
    <3>1. CASE n.end = size
      BY <2>1, <3>1
    <3>2. CASE LastEnd(f, off) = size
      <4>1. f # <<>>
        BY <1>0, <1>3, <3>2 DEF LastEnd
      <4> QED
        BY <2>1, <3>2, <4>1 DEF LastEnd
    <3> QED
      BY <3>1, <3>2
  <2>5. g[Len(g)].end = size
    BY <2>3, <2>4
  <2> QED
    BY <2>1, <2>5 DEF LastEnd
<1> QED
  BY <1>0, <1>2, <1>3

LEMMA SenderUnchanged ==
    ASSUME SP!IInv, UNCHANGED svars, UNCHANGED crypto
    PROVE  SP!IInv' /\ Size' = Size /\ UNCHANGED <<have_final_size, pkts, acked_set,
                                                   acked_final_size>>
<1>1. UNCHANGED <<ring, new_set, acked_set, have_final_size, sent_final_size,
                  acked_final_size, cleanse, pkts, losses, crypto>>
  BY DEF svars
<1>2. UNCHANGED SP!vars
  BY <1>1 DEF SP!vars, SP!flags
<1>3. SP!IInv'
  BY <1>2, SP!NextKeeps, StreamAssumption
<1> QED
  BY <1>1, <1>3 DEF Size

\* What a step of the receiver leaves to show.
LEMMA ReceiverKeeps ==
    ASSUME Inv, UNCHANGED <<svars, net, crypto>>, rxed' \subseteq net,
           received \subseteq received', fin => fin',
           got' = Numbers(offset'), RxedInv', ListInv', EndInv'
    PROVE  Inv'
<1>0. SP!IInv /\ crypto = FALSE /\ NetInv /\ AckInv
  BY DEF Inv
<1>1. /\ SP!IInv' /\ Size' = Size
      /\ UNCHANGED <<have_final_size, pkts, acked_set, acked_final_size>>
  BY <1>0, SenderUnchanged
<1>2. NetInv'
  <2>1. ASSUME NEW c \in net PROVE Sent(c)'
    BY <1>0, <1>1 DEF NetInv, Sent, End, R!ByteAt
  <2> QED
    BY <1>0, <1>1, <2>1 DEF NetInv
<1>3. AckInv'
  BY <1>0, <1>1 DEF AckInv
<1> QED
  BY <1>0, <1>1, <1>2, <1>3 DEF Inv

\* The frame that a chunk arrives as.
FrameOf(c) == R!Frame(c.start, End(c), c.data)

LEMMA FrameOfIs ==
    ASSUME NEW c, Sent(c), NEW n, n = FrameOf(c)
    PROVE  /\ n \in TrueFrames /\ n.start = c.start /\ n.end = End(c)
           /\ n.start <= n.end /\ n.end <= Size
           /\ n.start \in Nat /\ n.end \in Nat
           /\ \A o \in Nat : InFrame(o, n) <=> Carries(c, o)
           /\ \A o \in Nat : o \in n.start..(n.end - 1) <=> Carries(c, o)
<1>1. /\ c.start \in Nat /\ End(c) \in Nat /\ c.start <= End(c) /\ End(c) <= Size
      /\ c.data = [o \in c.start..(End(c) - 1) |-> R!ByteAt(o)]
  BY DEF Sent
<1>2. n = TrueFrame(c.start, End(c))
  BY <1>1 DEF FrameOf, TrueFrame
<1>3. n \in TrueFrames
  BY <1>1, <1>2 DEF TrueFrames
<1>4. n.start = c.start /\ n.end = End(c)
  BY DEF FrameOf, R!Frame
<1>5. \A o \in Nat : InFrame(o, n) <=> Carries(c, o)
  BY <1>4 DEF InFrame, Carries
<1>6. \A o \in Nat : o \in c.start..(End(c) - 1) <=> Carries(c, o)
  BY <1>1 DEF Carries
<1> QED
  BY <1>1, <1>3, <1>4, <1>5, <1>6

LEMMA IgnoredKeeps ==
    ASSUME Inv, NEW c \in net, UNCHANGED <<svars, net>>, rxed' = rxed \cup {c},
           R!RxIgnored(FrameOf(c), c.has_fin)
    PROVE  Inv' /\ UNCHANGED <<got, recv_state>>
<1>0. NetInv /\ RxedInv /\ ListInv /\ EndInv /\ SP!IInv /\ got = Numbers(offset)
  BY DEF Inv
<1>1. recv_state \in {R!DATA_RECVD, R!DATA_READ}
  BY DEF R!RxIgnored
<1>2. UNCHANGED <<crypto, frames, offset, fin, recv_state, received, got>>
  BY DEF R!RxIgnored, R!rvars, R!list
<1>3. Size' = Size /\ UNCHANGED have_final_size
  BY <1>0, <1>2, SenderUnchanged
<1>4. fin /\ AllReceived
  BY <1>0, <1>1 DEF EndInv
<1>5. /\ \A o \in Nat : Carries(c, o) => o \in received
      /\ c.has_fin => fin
  <2>1. End(c) \in Nat /\ End(c) <= Size /\ Size \in Nat
    BY <1>0, SizeIsNat DEF NetInv, Sent
  <2> QED
    BY <1>4, <2>1 DEF AllReceived, Carries
<1>6. RxedInv'
  BY <1>0, <1>2, <1>5 DEF RxedInv, Carries, End
<1>7. ListInv'
  BY <1>0, <1>2, <1>3 DEF ListInv, R!DATA_READ
<1>8. EndInv'
  <2>1. AllReceived' = AllReceived /\ R!CurrEnd' = R!CurrEnd
    BY <1>2, <1>3 DEF AllReceived, R!CurrEnd
  <2> QED
    BY <1>0, <1>2, <1>3, <2>1
       DEF EndInv, R!RECV, R!SIZE_KNOWN, R!DATA_RECVD, R!DATA_READ
<1>9. rxed' \subseteq net
  BY <1>0 DEF NetInv
<1>10. received \subseteq received' /\ (fin => fin') /\ got' = Numbers(offset')
  BY <1>0, <1>2
<1>11. UNCHANGED <<svars, net, crypto>>
  BY <1>2
<1> QED
  BY <1>2, <1>6, <1>7, <1>8, <1>9, <1>10, <1>11, ReceiverKeeps

\* The state after a frame was received is told by the final size and by what
\* was received.
LEMMA RecvStateIs ==
    ASSUME NEW g, NEW is_fin \in BOOLEAN, fin \in BOOLEAN,
           recv_state \in {R!RECV, R!SIZE_KNOWN}, recv_state = R!RECV <=> ~fin
    PROVE  R!RecvState(g, is_fin) =
             IF ~(fin \/ is_fin) THEN R!RECV
             ELSE IF R!Readable(g, offset) = Len(g) THEN R!DATA_RECVD
             ELSE R!SIZE_KNOWN
BY DEF R!RecvState, R!ReadableFin, R!RECV, R!SIZE_KNOWN, R!DATA_RECVD

LEMMA ReceivedKeeps ==
    ASSUME Inv, NEW c \in net, UNCHANGED <<svars, net>>, rxed' = rxed \cup {c},
           R!RxFrame(FrameOf(c), c.has_fin)
    PROVE  /\ Inv' /\ got' = got
           /\ recv_state # R!DATA_READ /\ recv_state' # R!DATA_READ
<1> DEFINE n == FrameOf(c)
<1>0. NetInv /\ RxedInv /\ ListInv /\ EndInv /\ SP!IInv /\ got = Numbers(offset)
  BY DEF Inv
<1>1. Sent(c) /\ c.has_fin \in BOOLEAN
  BY <1>0 DEF NetInv, Sent
<1>2. n = FrameOf(c)
  OBVIOUS
<1>3. /\ recv_state \in {R!RECV, R!SIZE_KNOWN}
      /\ frames' = R!ossl_sframe_list_insert(n)
      /\ fin' = (fin \/ c.has_fin)
      /\ recv_state' = R!RecvState(frames', c.has_fin)
      /\ received' = received \cup (n.start..(n.end - 1))
  BY DEF R!RxFrame
<1>4. UNCHANGED <<crypto, offset, got>>
  BY DEF R!RxFrame
<1> HIDE DEF n
<1>5. /\ n \in TrueFrames /\ n.start = c.start /\ n.end = End(c)
      /\ n.start <= n.end /\ n.end <= Size
      /\ n.start \in Nat /\ n.end \in Nat
  BY <1>1, <1>2, FrameOfIs
<1>6. /\ \A o \in Nat : InFrame(o, n) <=> Carries(c, o)
      /\ \A o \in Nat : o \in n.start..(n.end - 1) <=> Carries(c, o)
  BY <1>1, <1>2, FrameOfIs
<1>7. Size' = Size /\ UNCHANGED have_final_size /\ Size \in Nat
  BY <1>0, <1>4, SenderUnchanged, SizeIsNat
<1>8. /\ offset \in Nat /\ offset <= Size /\ IsList(frames, offset, Size)
      /\ \A o \in received : o \in Nat /\ o < Size
      /\ \A o \in Nat : o \in received <=> o < offset \/ InList(o, frames)
  BY <1>0, <1>3 DEF ListInv, R!RECV, R!SIZE_KNOWN, R!DATA_READ
<1>9. Inserted(frames', frames, n, offset, Size)
  BY <1>3, <1>5, <1>8, InsertKeeps
<1>10. \A o \in Nat : o \in received' <=> o \in received \/ Carries(c, o)
  BY <1>3, <1>6
<1>11. ListInv'
  <2>1. IsList(frames', offset', Size')
    BY <1>4, <1>7, <1>9 DEF Inserted
  <2>2. \A o \in received' : o \in Nat /\ o < Size'
    BY <1>3, <1>5, <1>7, <1>8
  <2>3. \A o \in Nat : o \in received' <=> o < offset \/ InList(o, frames')
    <3> SUFFICES ASSUME NEW o \in Nat
                 PROVE  o \in received' <=> o < offset \/ InList(o, frames')
      OBVIOUS
    <3>1. CASE o < offset
      BY <1>8, <1>10, <3>1
    <3>2. CASE o >= offset
      <4>1. InList(o, frames') <=> InList(o, frames) \/ InFrame(o, n)
        BY <1>9, <3>2 DEF Inserted, Holds
      <4> QED
        BY <1>6, <1>8, <1>10, <3>2, <4>1
    <3> QED
      BY <1>8, <3>1, <3>2
  <2> QED
    BY <1>4, <1>7, <1>8, <2>1, <2>2, <2>3 DEF ListInv
<1>12. fin \in BOOLEAN /\ (fin => have_final_size) /\ (recv_state = R!RECV <=> ~fin)
       /\ (fin => R!CurrEnd = Size) /\ have_final_size \in BOOLEAN
  BY <1>0, <1>3 DEF EndInv, R!RECV, R!SIZE_KNOWN, R!DATA_READ
<1>13. ASSUME fin' PROVE LastEnd(frames', offset) = Size
  <2>1. n.end = Size \/ LastEnd(frames, offset) = Size
    <3>1. CASE fin
      BY <1>12, <3>1 DEF R!CurrEnd, LastEnd
    <3>2. CASE c.has_fin
      BY <1>1, <1>5, <3>2 DEF Sent
    <3> QED
      BY <1>3, <1>13, <3>1, <3>2
  <2> QED
    BY <1>5, <1>7, <1>8, <1>9, <2>1, InsertedEnd
<1>14. ASSUME fin' PROVE R!Readable(frames', offset) = Len(frames') <=> AllReceived'
  <2>1. /\ IsList(frames', offset, Size)
        /\ \A o \in Nat : o \in received' <=> o < offset \/ InList(o, frames')
        /\ \A o \in received' : o \in Nat /\ o < Size
    <3>1. recv_state' # R!DATA_READ
      BY <1>1, <1>3, <1>12, RecvStateIs
         DEF R!RECV, R!SIZE_KNOWN, R!DATA_RECVD, R!DATA_READ
    <3> QED
      BY <1>4, <1>7, <1>11, <3>1 DEF ListInv
  <2>2. R!Readable(frames', offset) = Len(frames')
          <=> \A o \in Nat : offset <= o /\ o < Size => InList(o, frames')
    BY <1>7, <1>8, <1>13, <1>14, <2>1, ReadableIff
  <2>3. (\A o \in Nat : offset <= o /\ o < Size => InList(o, frames'))
          <=> \A o \in Nat : o < Size => o \in received'
    BY <1>8, <2>1
  <2> QED
    BY <1>7, <2>2, <2>3 DEF AllReceived
<1>15. recv_state' = IF ~fin' THEN R!RECV
                     ELSE IF R!Readable(frames', offset) = Len(frames')
                     THEN R!DATA_RECVD
                     ELSE R!SIZE_KNOWN
  BY <1>1, <1>3, <1>12, RecvStateIs
<1>16. EndInv'
  <2>1. fin' \in BOOLEAN /\ have_final_size' \in BOOLEAN /\ (fin' => have_final_size')
    BY <1>1, <1>3, <1>7, <1>12 DEF Sent
  <2>2. fin' => R!CurrEnd' = Size'
    BY <1>4, <1>7, <1>13 DEF R!CurrEnd, LastEnd
  <2>3. recv_state' \in {R!DATA_RECVD, R!DATA_READ} <=> fin' /\ AllReceived'
    BY <1>14, <1>15, <2>1 DEF R!RECV, R!SIZE_KNOWN, R!DATA_RECVD, R!DATA_READ
  <2>4. /\ recv_state' \in {R!RECV, R!SIZE_KNOWN, R!DATA_RECVD}
        /\ recv_state' = R!RECV <=> ~fin'
        /\ recv_state' # R!DATA_READ
    BY <1>15, <2>1 DEF R!RECV, R!SIZE_KNOWN, R!DATA_RECVD, R!DATA_READ
  <2> QED
    BY <2>1, <2>2, <2>3, <2>4 DEF EndInv
<1>17. RxedInv'
  <2>1. \A d \in rxed' : \A o \in Nat : Carries(d, o) => o \in received'
    BY <1>0, <1>10 DEF RxedInv
  <2>2. \A d \in rxed' : d.has_fin => fin'
    BY <1>0, <1>3 DEF RxedInv
  <2> QED
    BY <2>1, <2>2 DEF RxedInv, Carries, End
<1>18. rxed' \subseteq net /\ received \subseteq received' /\ (fin => fin')
  BY <1>0, <1>3 DEF NetInv
<1>19. got' = Numbers(offset') /\ UNCHANGED <<svars, net, crypto>>
  BY <1>0, <1>4
<1>20. Inv'
  BY <1>11, <1>16, <1>17, <1>18, <1>19, ReceiverKeeps
<1> QED
  BY <1>3, <1>4, <1>15, <1>20 DEF R!RECV, R!SIZE_KNOWN, R!DATA_RECVD, R!DATA_READ

LEMMA ReadKeeps ==
    ASSUME Inv, NEW n \in 1..(MAX_OFFSET + 1), Read(n)
    PROVE  /\ Inv' /\ UNCHANGED <<ring, have_final_size>>
           /\ recv_state # R!DATA_READ
           /\ offset' \in offset..Size
           /\ recv_state' = R!DATA_READ => have_final_size /\ offset' = Size
<1> DEFINE k == R!Readable(frames, offset)
           e == R!PeekStart(frames, offset, k + 1)
           to == R!MinOf(offset + n, e)
<1>0. RxedInv /\ ListInv /\ EndInv /\ NetInv /\ SP!IInv /\ got = Numbers(offset)
  BY DEF Inv
<1>1. /\ recv_state \in {R!RECV, R!SIZE_KNOWN, R!DATA_RECVD}
      /\ got' = got \o R!BytesRead(offset, to)
      /\ offset' = to
      /\ recv_state' = IF R!ReadFin(n) /\ recv_state = R!DATA_RECVD
                       THEN R!DATA_READ ELSE recv_state
      /\ frames' = IF recv_state' = R!DATA_READ THEN <<>>
                   ELSE R!ossl_sframe_list_drop_frames(frames, to)
  BY DEF Read, R!Read, R!ReadableEnd
<1>2. UNCHANGED <<crypto, fin, received, svars, net, rxed>>
  BY DEF Read, R!Read
<1>3. R!ReadFin(n) => offset + n >= e /\ k = Len(frames) /\ fin
  BY DEF R!ReadFin, R!ReadableFin, R!ReadableEnd
<1>4. k = R!Readable(frames, offset) /\ e = R!PeekStart(frames, offset, k + 1)
  OBVIOUS
<1>5. to = IF offset + n <= e THEN offset + n ELSE e
  BY DEF R!MinOf
<1> HIDE DEF k, e, to
<1>6. Size' = Size /\ UNCHANGED have_final_size /\ Size \in Nat /\ ring' = ring
  BY <1>0, <1>2, SenderUnchanged, SizeIsNat DEF svars
<1>7. /\ offset \in Nat /\ offset <= Size /\ IsList(frames, offset, Size)
      /\ \A o \in received : o \in Nat /\ o < Size
      /\ \A o \in Nat : o \in received <=> o < offset \/ InList(o, frames)
  BY <1>0, <1>1 DEF ListInv, R!RECV, R!SIZE_KNOWN, R!DATA_RECVD, R!DATA_READ
<1>8. Reads(frames, offset, k)
  BY <1>4, <1>7, ReadableReads
<1>9. /\ ReadTo(frames, offset, Size, e)
      /\ k = Len(frames) => e = LastEnd(frames, offset)
  <2>1. offset \in Nat /\ Size \in Nat /\ offset <= Size /\ IsList(frames, offset, Size)
    BY <1>6, <1>7
  <2>2. e = R!PeekStart(frames, offset, k + 1)
    BY <1>4
  <2>3. /\ ReadTo(frames, offset, Size, e)
        /\ k = Len(frames) => e = IF frames = <<>> THEN offset
                                  ELSE frames[Len(frames)].end
    BY <1>8, <2>1, <2>2, ReadableEndIs
  <2> QED
    BY <2>3 DEF LastEnd
<1>10. /\ e \in Nat /\ offset <= e /\ e <= Size
       /\ \A o \in Nat : offset <= o /\ o < e => InList(o, frames)
  BY <1>9 DEF ReadTo
<1>11. to \in Nat /\ offset <= to /\ to <= e /\ to <= Size /\ n \in Nat
  BY <1>5, <1>6, <1>7, <1>10, StreamAssumption
<1>12. got' = Numbers(to)
  <2> DEFINE t == R!BytesRead(offset, to)
             d == to - offset
  <2>1. t = [j \in 1..d |-> offset + j] /\ d \in Nat /\ offset + d = to
    <3>1. to <= R!PeekStart(frames, offset, k + 1)
      BY <1>4, <1>11
    <3>2. R!BytesRead(offset, to) = [j \in 1..(to - offset) |-> offset + j]
      BY <1>4, <1>7, <1>8, <1>11, <3>1, BytesReadAre
    <3> QED
      BY <1>7, <1>11, <3>2
  <2>2. got' = got \o t
    BY <1>1
  <2> HIDE DEF t, d
  <2>3. got' = Numbers(offset + d)
    BY <1>0, <1>7, <2>1, <2>2, NumbersGrow
  <2> QED
    BY <2>1, <2>3
<1>13. fin => LastEnd(frames, offset) = Size
  BY <1>0, <1>1 DEF EndInv, R!CurrEnd, LastEnd, R!RECV, R!SIZE_KNOWN,
                    R!DATA_RECVD, R!DATA_READ
<1>14. recv_state' = R!DATA_READ => fin /\ to = Size /\ recv_state = R!DATA_RECVD
  <2> SUFFICES ASSUME recv_state' = R!DATA_READ
               PROVE  fin /\ to = Size /\ recv_state = R!DATA_RECVD
    OBVIOUS
  <2>1. R!ReadFin(n) /\ recv_state = R!DATA_RECVD
    BY <1>1 DEF R!RECV, R!SIZE_KNOWN, R!DATA_RECVD, R!DATA_READ
  <2>2. offset + n >= e /\ e = Size /\ fin
    BY <1>3, <1>9, <1>13, <2>1
  <2> QED
    BY <1>5, <1>7, <1>10, <1>11, <2>1, <2>2
<1>15. recv_state' # R!DATA_READ => recv_state' = recv_state
  BY <1>1
<1>26. /\ offset \in Nat /\ to \in Nat /\ Size \in Nat /\ offset <= to
       /\ to <= Size /\ offset' = to
  BY <1>1, <1>6, <1>7, <1>11
<1>16. ASSUME recv_state' # R!DATA_READ
       PROVE  /\ IsList(frames', to, Size)
              /\ \A o \in Nat : o >= to => (InList(o, frames') <=> InList(o, frames))
              /\ frames' = <<>> => frames = <<>> \/ frames[Len(frames)].end <= to
              /\ frames' # <<>> =>
                   frames # <<>> /\ frames'[Len(frames')].end = frames[Len(frames)].end
  <2>1. frames' = R!ossl_sframe_list_drop_frames(frames, to)
    BY <1>1, <1>16
  <2> QED
    BY <1>7, <1>11, <2>1, DropKeeps
<1>17. recv_state' = R!DATA_READ => IsList(frames', to, Size)
  <2>1. IsList(<<>>, to, Size)
    BY DEF IsList, Ordered
  <2> QED
    BY <1>1, <2>1
<1>18. ListInv'
  <2>1. IsList(frames', offset', Size')
    BY <1>1, <1>6, <1>16, <1>17
  <2>2. offset' \in Nat /\ offset' <= Size' /\ \A o \in received' : o \in Nat /\ o < Size'
    BY <1>1, <1>2, <1>6, <1>7, <1>11
  <2>3. ASSUME recv_state' # R!DATA_READ, NEW o \in Nat
        PROVE  o \in received <=> o < to \/ InList(o, frames')
    <3>1. CASE o < offset
      BY <1>7, <1>11, <3>1
    <3>2. CASE offset <= o /\ o < to
      BY <1>7, <1>10, <1>11, <3>2
    <3>3. CASE o >= to
      BY <1>7, <1>11, <1>16, <2>3, <3>3
    <3> QED
      BY <1>7, <1>11, <3>1, <3>2, <3>3
  <2> QED
    BY <1>1, <1>2, <2>1, <2>2, <2>3 DEF ListInv, R!DATA_READ
<1>19. ASSUME fin, recv_state' # R!DATA_READ PROVE LastEnd(frames', to) = Size
  <2>1. LastEnd(frames, offset) = Size
    BY <1>13, <1>19
  <2>2. CASE frames' = <<>>
    <3>1. frames = <<>> \/ frames[Len(frames)].end <= to
      BY <1>16, <1>19, <2>2
    <3>2. to = Size
      BY <1>6, <1>7, <1>11, <2>1, <3>1 DEF LastEnd
    <3> QED
      BY <2>2, <3>2 DEF LastEnd
  <2>3. CASE frames' # <<>>
    BY <1>16, <1>19, <2>1, <2>3 DEF LastEnd
  <2> QED
    BY <2>2, <2>3
<1>20. EndInv'
  <2>1. AllReceived' = AllReceived
    BY <1>2, <1>6 DEF AllReceived
  <2>2. fin' /\ recv_state' # R!DATA_READ => R!CurrEnd' = Size'
    BY <1>1, <1>2, <1>6, <1>19 DEF R!CurrEnd, LastEnd
  <2>3. recv_state' = R!DATA_READ => offset' = Size'
    BY <1>1, <1>6, <1>14
  <2>4. CASE recv_state' = R!DATA_READ
    BY <1>0, <1>2, <1>6, <1>14, <2>1, <2>3, <2>4
       DEF EndInv, R!RECV, R!SIZE_KNOWN, R!DATA_RECVD, R!DATA_READ
  <2>5. CASE recv_state' # R!DATA_READ
    BY <1>0, <1>2, <1>6, <1>15, <2>1, <2>2, <2>5
       DEF EndInv, R!RECV, R!SIZE_KNOWN, R!DATA_RECVD, R!DATA_READ
  <2> QED
    BY <2>4, <2>5
<1>21. RxedInv'
  BY <1>0, <1>2 DEF RxedInv, Carries, End
<1>22. /\ rxed' \subseteq net /\ received \subseteq received' /\ (fin => fin')
       /\ UNCHANGED <<svars, net, crypto>> /\ got' = Numbers(offset')
  BY <1>0, <1>1, <1>2, <1>12 DEF NetInv
<1>23. Inv'
  BY <1>18, <1>20, <1>21, <1>22, ReceiverKeeps
<1>24. recv_state' = R!DATA_READ => have_final_size /\ offset' = Size
  BY <1>0, <1>1, <1>14 DEF EndInv
<1>25. recv_state # R!DATA_READ /\ offset' \in offset..Size
  BY <1>1, <1>26 DEF R!RECV, R!SIZE_KNOWN, R!DATA_RECVD, R!DATA_READ
<1> QED
  BY <1>6, <1>23, <1>24, <1>25

(***************************************************************************)
(* The invariant is inductive                                              *)
(***************************************************************************)
LEMMA InitKeeps == Init => Inv
<1> SUFFICES ASSUME Init PROVE Inv
  OBVIOUS
<1>1. SP!IInv
  BY SameInit, SP!InitKeeps, StreamAssumption DEF Init
<1>2. /\ crypto = FALSE /\ net = {} /\ rxed = {} /\ pkts = {} /\ acked_set = {}
      /\ have_final_size = FALSE /\ acked_final_size = FALSE
  BY DEF Init, S!Init
<1>3. Size = 0
  BY DEF Init, S!Init, S!ring_buf_init, Size
<1>4. /\ frames = <<>> /\ offset = 0 /\ fin = FALSE /\ recv_state = R!RECV
      /\ received = {} /\ got = <<>>
  BY DEF Init, R!InitOf
<1>5. got = Numbers(offset)
  BY <1>4 DEF Numbers
<1>6. NetInv /\ RxedInv /\ AckInv
  BY <1>2 DEF NetInv, RxedInv, AckInv
<1>7. ListInv
  <2>1. IsList(frames, offset, Size)
    BY <1>4 DEF IsList, Ordered
  <2>2. \A o \in Nat : ~(o < offset) /\ ~InList(o, frames)
    BY <1>4 DEF InList
  <2> QED
    BY <1>3, <1>4, <2>1, <2>2 DEF ListInv
<1>8. EndInv
  BY <1>2, <1>4 DEF EndInv, R!RECV, R!SIZE_KNOWN, R!DATA_RECVD, R!DATA_READ
<1> QED
  BY <1>1, <1>2, <1>5, <1>6, <1>7, <1>8 DEF Inv

LEMMA DeliverKeeps ==
    ASSUME Inv, NEW c \in net, Deliver(c)
    PROVE  /\ Inv' /\ UNCHANGED <<ring, have_final_size, got>>
           /\ (recv_state' = R!DATA_READ) = (recv_state = R!DATA_READ)
<1>1. UNCHANGED <<svars, net>> /\ rxed' = rxed \cup {c}
  BY DEF Deliver
<1>2. UNCHANGED <<ring, have_final_size>>
  BY <1>1 DEF svars
<1>3. \/ R!RxFrame(FrameOf(c), c.has_fin)
      \/ R!RxIgnored(FrameOf(c), c.has_fin)
  BY DEF Deliver, FrameOf, End
<1>4. CASE R!RxFrame(FrameOf(c), c.has_fin)
  BY <1>1, <1>2, <1>4, ReceivedKeeps
<1>5. CASE R!RxIgnored(FrameOf(c), c.has_fin)
  BY <1>1, <1>2, <1>5, IgnoredKeeps
<1> QED
  BY <1>3, <1>4, <1>5

LEMMA StutterKeeps ==
    ASSUME Inv, UNCHANGED vars
    PROVE  Inv'
<1>0. SP!IInv /\ Size \in Nat /\ have_final_size \in BOOLEAN
  BY SizeIsNat DEF Inv, EndInv
<1>1. UNCHANGED <<svars, crypto, frames, offset, fin, recv_state, received, got,
                  rxed, net>>
  BY DEF vars, rvars
<1>2. /\ SP!IInv' /\ Size' = Size /\ Size' >= Size
      /\ UNCHANGED <<have_final_size, pkts, acked_set, acked_final_size>>
  BY <1>0, <1>1, SenderUnchanged
<1> QED
  BY <1>0, <1>1, <1>2, NothingNew, SenderKeeps DEF SenderStep

LEMMA NextKeeps == Inv /\ [Next]_vars => Inv'
<1> SUFFICES ASSUME Inv, [Next]_vars PROVE Inv'
  OBVIOUS
<1>1. ASSUME NEW n \in 1..MaxWrite, Write(n) PROVE Inv'
  BY <1>1, WriteIs, SenderKeeps
<1>2. CASE Conclude
  BY <1>2, ConcludeIs, SenderKeeps
<1>3. CASE Transmit
  BY <1>3, TransmitIs, SenderKeeps
<1>4. ASSUME NEW c \in net, Deliver(c) PROVE Inv'
  BY <1>4, DeliverKeeps
<1>5. ASSUME NEW p \in pkts, Acknowledge(p) PROVE Inv'
  BY <1>5, AcknowledgeIs, SenderKeeps
<1>6. ASSUME NEW p \in pkts, Lose(p) PROVE Inv'
  BY <1>6, LoseIs, SenderKeeps
<1>7. ASSUME NEW n \in 1..(MAX_OFFSET + 1), Read(n) PROVE Inv'
  BY <1>7, ReadKeeps
<1>8. CASE UNCHANGED vars
  BY <1>8, StutterKeeps
<1> QED
  BY <1>1, <1>2, <1>3, <1>4, <1>5, <1>6, <1>7, <1>8 DEF Next

\* The inductive invariant of a stream, end to end: every frame on the way has
\* bytes that were written, frames that arrived count, what was acknowledged
\* arrived, and the receive list holds what arrived and was not read.
THEOREM InductiveInvariant == Spec => []Inv
<1> QED
  BY InitKeeps, NextKeeps, PTL DEF Spec

(***************************************************************************)
(* The two ends agree                                                      *)
(***************************************************************************)
LEMMA AllReceivedIs ==
    ASSUME Inv
    PROVE  AllReceived <=> received = 0..(Size - 1)
<1>1. Size \in Nat /\ \A o \in received : o \in Nat /\ o < Size
  BY SizeIsNat DEF Inv, ListInv
<1>2. received \subseteq 0..(Size - 1)
  BY <1>1
<1>3. AllReceived <=> 0..(Size - 1) \subseteq received
  BY <1>1 DEF AllReceived
<1> QED
  BY <1>2, <1>3

LEMMA AckedIsReceived ==
    ASSUME Inv
    PROVE  AckedWasReceived
<1>0. SP!IInv /\ AckInv /\ EndInv /\ Size \in Nat /\ SP!CurSize = Size
  BY SizeIsNat DEF Inv
<1>1. S!StreamBytes = 0..(Size - 1) /\ SP!StreamBytes = 0..(Size - 1)
  BY <1>0, SameBytesOfStream DEF SP!StreamBytes
<1>2. ASSUME NEW o \in acked_set \cap 0..(Size - 1) PROVE o \in received
  BY <1>0, <1>2 DEF AckInv
<1>3. ASSUME have_final_size, S!ossl_quic_sstream_is_totally_acked
      PROVE  recv_state \in {R!DATA_RECVD, R!DATA_READ}
  <2>1. SP!TotallyAckedIff
    BY <1>0, SP!TotallyAckedIs, StreamAssumption
  <2>2. 0..(Size - 1) \subseteq acked_set /\ acked_final_size
    BY <1>1, <1>3, <2>1, SameBytesOfStream DEF SP!TotallyAckedIff
  <2>3. fin
    BY <1>0, <2>2 DEF AckInv
  <2>4. AllReceived
    BY <1>0, <1>2, <2>2 DEF AllReceived
  <2> QED
    BY <1>0, <2>3, <2>4 DEF EndInv
<1> QED
  BY <1>1, <1>2, <1>3 DEF AckedWasReceived

LEMMA EndIsAgreed ==
    ASSUME Inv
    PROVE  FinalSizeAgreed
<1>0. ListInv /\ EndInv /\ got = Numbers(offset) /\ Size \in Nat
  BY SizeIsNat DEF Inv
<1>1. offset \in Nat /\ offset <= Size /\ IsList(frames, offset, Size)
  BY <1>0 DEF ListInv
<1>2. R!CurrEnd = LastEnd(frames, offset)
  BY DEF R!CurrEnd, LastEnd
<1>3. LastEnd(frames, offset) <= Size
  <2>1. frames # <<>> => Len(frames) \in 1..Len(frames)
    BY <1>1, ListIs
  <2> QED
    BY <1>1, <2>1 DEF LastEnd, IsList
<1>4. R!InsertAsserts
  <2>1. recv_state \in {R!RECV, R!SIZE_KNOWN} /\ fin => R!CurrEnd = Size
    BY <1>0 DEF EndInv, R!RECV, R!SIZE_KNOWN, R!DATA_READ
  <2> QED
    BY <1>2, <1>3, <2>1 DEF R!InsertAsserts, Size
<1>5. recv_state # R!RECV => have_final_size
  BY <1>0 DEF EndInv
<1>6. recv_state \in {R!DATA_RECVD, R!DATA_READ} <=> fin /\ received = 0..(Size - 1)
  BY <1>0, AllReceivedIs DEF EndInv
<1>7. recv_state = R!DATA_READ => Len(got) = Size
  <2>1. Len(got) = offset
    BY <1>0, <1>1 DEF Numbers
  <2> QED
    BY <1>0, <2>1 DEF EndInv
<1>8. ASSUME recv_state # R!DATA_READ, NEW n \in 1..(Size + 1)
      PROVE  R!ReadFin(n) <=> recv_state = R!DATA_RECVD /\ offset + n >= Size
  <2>1. CASE ~fin
    <3>1. ~R!ReadFin(n)
      BY <2>1 DEF R!ReadFin, R!ReadableFin
    <3>2. recv_state # R!DATA_RECVD
      BY <1>0, <2>1 DEF EndInv, R!RECV, R!DATA_RECVD
    <3> QED
      BY <3>1, <3>2
  <2>2. CASE fin
    <3>1. LastEnd(frames, offset) = Size
      BY <1>0, <1>2, <1>8, <2>2 DEF EndInv
    <3>2. /\ R!Readable(frames, offset) = Len(frames) =>
               R!ReadableEnd(frames, offset) = Size
          /\ R!Readable(frames, offset) = Len(frames)
               <=> \A o \in Nat : offset <= o /\ o < Size => InList(o, frames)
      BY <1>0, <1>1, <3>1, ReadableIff
    <3>3. \A o \in Nat : o \in received <=> o < offset \/ InList(o, frames)
      BY <1>0, <1>8 DEF ListInv
    <3>4. AllReceived
            <=> \A o \in Nat : offset <= o /\ o < Size => InList(o, frames)
      BY <1>0, <1>1, <3>3 DEF AllReceived
    <3>5. recv_state = R!DATA_RECVD <=> R!Readable(frames, offset) = Len(frames)
      BY <1>0, <1>8, <2>2, <3>2, <3>4 DEF EndInv
    <3> QED
      BY <2>2, <3>2, <3>5 DEF R!ReadFin, R!ReadableFin
  <2> QED
    BY <1>0, <2>1, <2>2 DEF EndInv
<1>9. R!EndOfStream
  BY <1>6, <1>7, <1>8 DEF R!EndOfStream, Size
<1> QED
  BY <1>4, <1>5, <1>9 DEF FinalSizeAgreed

\* Sender and receiver always agree on what has arrived and where the stream
\* ends: the sender frees its buffer only when the receiver has all of it, and
\* the receive list's assertions hold for whatever the packetiser sends.
THEOREM EndsAlwaysAgree == Spec => []EndsAgree
<1>1. Inv => EndsAgree
  BY AckedIsReceived, EndIsAgreed DEF EndsAgree
<1> QED
  BY <1>1, InductiveInvariant, PTL

(***************************************************************************)
(* A stream of bytes                                                       *)
(***************************************************************************)
LEMMA InitIsInit == Init => BS!Init
<1> SUFFICES ASSUME Init PROVE BS!Init
  OBVIOUS
<1>1. ring.head_offset = 0 /\ have_final_size = FALSE
  BY DEF Init, S!Init, S!ring_buf_init
<1>2. recv_state = R!RECV /\ got = <<>>
  BY DEF Init, R!InitOf
<1> QED
  BY <1>1, <1>2 DEF BS!Init, R!RECV, R!DATA_READ

LEMMA ReadIsRead ==
    ASSUME Inv, NEW n \in 1..(MAX_OFFSET + 1), Read(n)
    PROVE  BS!ReadNext
<1>1. /\ Inv' /\ UNCHANGED <<ring, have_final_size>>
      /\ recv_state # R!DATA_READ
      /\ offset' \in offset..Size
      /\ recv_state' = R!DATA_READ => have_final_size /\ offset' = Size
  BY ReadKeeps
<1>2. got = Numbers(offset) /\ got' = Numbers(offset') /\ offset \in Nat
  BY <1>1 DEF Inv, ListInv
<1>3. Len(got) = offset
  BY <1>2 DEF Numbers
<1>4. got' = [i \in 1..offset' |-> i] /\ offset' \in Len(got)..ring.head_offset
  BY <1>1, <1>2, <1>3 DEF Numbers, Size
<1>5. \E k \in Len(got)..ring.head_offset :
        /\ got' = [i \in 1..k |-> i]
        /\ (recv_state' = R!DATA_READ) \in BOOLEAN
        /\ recv_state' = R!DATA_READ => have_final_size /\ k = ring.head_offset
  BY <1>1, <1>4 DEF Size
<1> QED
  BY <1>1, <1>5 DEF BS!ReadNext, R!DATA_READ

LEMMA StepIsStep == Inv /\ [Next]_vars => [BS!Next]_BS!svars
<1> SUFFICES ASSUME Inv, [Next]_vars PROVE [BS!Next]_BS!svars
  OBVIOUS
<1>0. Size \in Nat
  BY SizeIsNat DEF Inv
<1>1. ASSUME NEW n \in 1..MaxWrite, Write(n) PROVE BS!Write
  <2>1. SenderStep /\ ~have_final_size /\ have_final_size' = have_final_size
    BY <1>1, WriteIs
  <2>2. Inv'
    BY <2>1, SenderKeeps
  <2>3. ring'.head_offset \in Nat /\ ring'.head_offset >= ring.head_offset
    <3>1. SP!Sound(ring)'
      BY <2>1 DEF SenderStep, SP!IInv
    <3> QED
      BY <2>1, <3>1 DEF SP!Sound, SP!IsRingBuf, SenderStep, Size
  <2>4. UNCHANGED <<got, recv_state>>
    BY <2>1 DEF SenderStep
  <2> QED
    BY <2>1, <2>3, <2>4 DEF BS!Write, R!DATA_READ
<1>2. CASE Conclude
  <2>1. SenderStep /\ have_final_size' = TRUE /\ ring' = ring
    BY <1>2, ConcludeIs
  <2>2. UNCHANGED <<got, recv_state>>
    BY <2>1 DEF SenderStep
  <2>3. BS!Conclude
    BY <2>1, <2>2 DEF BS!Conclude, R!DATA_READ
  <2> QED
    BY <2>3 DEF BS!Next
<1>3. ASSUME SenderStep, Size' = Size, have_final_size' = have_final_size
      PROVE  UNCHANGED BS!svars
  <2>1. UNCHANGED <<got, recv_state>>
    BY <1>3 DEF SenderStep
  <2> QED
    BY <1>3, <2>1 DEF BS!svars, Size, R!DATA_READ
<1>4. CASE Transmit
  BY <1>3, <1>4, TransmitIs DEF Size
<1>5. ASSUME NEW p \in pkts, Acknowledge(p) PROVE UNCHANGED BS!svars
  BY <1>3, <1>5, AcknowledgeIs
<1>6. ASSUME NEW p \in pkts, Lose(p) PROVE UNCHANGED BS!svars
  BY <1>3, <1>6, LoseIs DEF Size
<1>7. ASSUME NEW c \in net, Deliver(c) PROVE UNCHANGED BS!svars
  <2>1. /\ UNCHANGED <<ring, have_final_size, got>>
        /\ (recv_state' = R!DATA_READ) = (recv_state = R!DATA_READ)
    BY <1>7, DeliverKeeps
  <2> QED
    BY <2>1 DEF BS!svars, R!DATA_READ
<1>8. ASSUME NEW n \in 1..(MAX_OFFSET + 1), Read(n) PROVE BS!ReadNext
  BY <1>8, ReadIsRead
<1>9. CASE UNCHANGED vars
  BY <1>9 DEF vars, svars, rvars, BS!svars, R!DATA_READ
<1> QED
  BY <1>1, <1>2, <1>4, <1>5, <1>6, <1>7, <1>8, <1>9 DEF Next, BS!Next

\* One direction of a QUIC stream is a reliable, ordered stream of bytes with
\* an end: whatever the network loses, delays, reorders and repeats, the reader
\* gets exactly the bytes written, in order, and its end only at the end.
THEOREM ImplementsByteStream == Spec => IsByteStream
<1> QED
  BY InitIsInit, StepIsStep, InductiveInvariant, PTL DEF Spec, IsByteStream, BS!Spec
==============================================================================
