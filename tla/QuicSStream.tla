----------------------------- MODULE QuicSStream -----------------------------
(***************************************************************************)
(* A send stream (ssl/quic/quic_sstream.c) between the application that    *)
(* appends to it, the TX packetiser (quic_txp.c) that cuts frames out of   *)
(* it, and the frame-in-flight dispatcher (quic_fifd.c) that tells it of   *)
(* packets acknowledged and lost.                                          *)
(*                                                                         *)
(* The UINT_SETs are sets of integers; a range of the list is a maximal    *)
(* run (module UintSet: so it is as long as inserted ranges are disjoint   *)
(* from the set, which Tracked shows).  A packet is the sequence of its    *)
(* chunks; of the ACK manager only this is used: it reports each packet    *)
(* once, as acknowledged or as lost.  Where flow control and packet size   *)
(* cut a frame short is a free choice.                                     *)
(*                                                                         *)
(* MaxUint plays UINT64_MAX: the last byte of a frame without data at      *)
(* offset 0 is byte 0 - 1.                                                 *)
(***************************************************************************)
EXTENDS RingBuf, Sequences, FiniteSets

CONSTANTS
    MaxUint,        \* UINT64_MAX
    InitBufSize,    \* init_buf_size of ossl_quic_sstream_new
    MaxWriteBufSize,\* MAX_WRITE_BUF_SIZE
    CryptoBufSize,  \* INIT_CRYPTO_SEND_BUF_LEN
    MaxWrite,       \* Bound: bytes of one write
    MaxChunks,      \* Bound: chunks of a packet
    MaxInFlight,    \* Bound: packets in flight
    MaxLosses       \* Bound: packets declared lost

ASSUME SStreamAssumption ==
    /\ InitBufSize \in 1..MaxWriteBufSize /\ CryptoBufSize \in Nat \ {0}
    /\ MaxWriteBufSize \in Nat /\ MaxUint \in Nat /\ MAX_OFFSET < MaxUint
    /\ MaxWrite \in Nat
    /\ MaxChunks \in Nat /\ MaxInFlight \in Nat /\ MaxLosses \in Nat

VARIABLES
    crypto,             \* TRUE for a CRYPTO stream, FALSE for an application's
    ring,               \* ring_buf
    new_set,            \* Bytes to be transmitted, for the first time or again
    acked_set,          \* Bytes acknowledged
    have_final_size,
    sent_final_size,
    acked_final_size,
    cleanse,
    pkts,               \* Packets in flight
    losses              \* Number of packets declared lost

flags == <<have_final_size, sent_final_size, acked_final_size, cleanse, crypto>>
vars == <<ring, new_set, acked_set, flags, pkts, losses>>

UintMod(v) == v % (MaxUint + 1)
Dec(v) == UintMod(v + MaxUint)

CurSize == ring.head_offset

\* First elements of the ranges of a UINT_SET, and the last one of the range
\* that starts at x.
Starts(set) == {x \in set : x = 0 \/ x - 1 \notin set}
RangeEnd(set, x) ==
    CHOOSE e \in set : e >= x /\ x..e \subseteq set /\ e + 1 \notin set

\* What a chunk covers, as fifd tests it: nothing if end < start.
Covered(c) == c.start .. c.end
ChunksOf(p) == {p[i] : i \in DOMAIN p}
PacketBytes(p) == UNION {Covered(c) : c \in ChunksOf(p)}
HasFin(p) == \E c \in ChunksOf(p) : c.has_fin

(***************************************************************************)
(* Frames offered for transmission                                         *)
(***************************************************************************)
NoFrame == [ok |-> FALSE, offset |-> 0, len |-> 0, is_fin |-> FALSE,
            num_iov |-> 0]
FinFrame == [ok |-> TRUE, offset |-> CurSize, len |-> 0, is_fin |-> TRUE,
             num_iov |-> 0]

\* The frame for the range of new_set that starts at x.
RangeFrame(x) ==
    LET max_len == UintMod(RangeEnd(new_set, x) - x + 1)
        len == MinOf(max_len, CurSize - x)
    IN  IF max_len > 0 /\ ~Retained(ring, x)
        THEN NoFrame
        ELSE [ok |-> TRUE, offset |-> x, len |-> len,
              is_fin |-> have_final_size /\ x + len = CurSize,
              num_iov |-> IF len = 0 THEN 0
                          ELSE IF len <= Contiguous(ring, x) THEN 1 ELSE 2]

\* Mutant: a FIN is offered only once it has its own frame.
FrameNeverFin(skip) ==
    LET starts == Starts(new_set)
    IN  CASE skip < Cardinality(starts) ->
               [RangeFrame(CHOOSE x \in starts :
                           Cardinality({y \in starts : y < x}) = skip)
                EXCEPT !.is_fin = have_final_size]
          [] skip = Cardinality(starts) /\ have_final_size /\ ~sent_final_size
               -> FinFrame
          [] OTHER -> NoFrame

ossl_quic_sstream_get_stream_frame(skip) ==
    LET starts == Starts(new_set)
    IN  CASE skip < Cardinality(starts) ->
               RangeFrame(CHOOSE x \in starts :
                          Cardinality({y \in starts : y < x}) = skip)
          [] skip = Cardinality(starts) /\ have_final_size /\ ~sent_final_size
               -> FinFrame
          [] OTHER -> NoFrame

\* The skip argument for the frame after f, which was the one for skip.  The
\* loop of txp_generate_crypto_frames uses its counter for the iovecs too.
NextSkip(skip, f) == IF crypto THEN f.num_iov + 1 ELSE skip + 1

\* The frames that are tried for the first n chunks of a packet.
Planned(n) ==
    LET skip[i \in 0..n] ==
            IF i = 0 THEN 0
            ELSE NextSkip(skip[i - 1],
                          ossl_quic_sstream_get_stream_frame(skip[i - 1]))
    IN  [i \in 1..n |-> ossl_quic_sstream_get_stream_frame(skip[i - 1])]

\* The chunk for the first len bytes of a frame.  Only a frame that is sent to
\* its end keeps the FIN.
Chunk(f, len) ==
    [start |-> f.offset, end |-> Dec(f.offset + len),
     has_fin |-> f.is_fin /\ len = f.len,
     data |-> BytesAt(ring, f.offset, f.offset + len)]

\* Packets with n chunks that can be built now: all frames but the last are
\* complete, nothing follows a FIN, and a frame without data has a FIN.
Packets(n) ==
    LET f == Planned(n)
    IN  IF /\ \A i \in 1..n : f[i].ok
           /\ \A i \in 1..(n - 1) : ~f[i].is_fin /\ f[i].len > 0
        THEN {[i \in 1..n |-> Chunk(f[i], IF i = n THEN len ELSE f[i].len)] :
              len \in IF f[n].len > 0 THEN 1..f[n].len
                      ELSE IF f[n].is_fin THEN {0} ELSE {}}
        ELSE {}

(***************************************************************************)
(* Acknowledged data                                                       *)
(***************************************************************************)

\* Only the first range of acked_set can be culled.
qss_cull(r, acked) ==
    IF acked = {} THEN r
    ELSE LET h == CHOOSE x \in acked : \A y \in acked : x <= y
         IN  ring_buf_cpop_range(r, h, RangeEnd(acked, h), cleanse)

\* The buffer and the acknowledged bytes b after chunk c is acknowledged too.
ossl_quic_sstream_mark_acked(b, c) ==
    IF c.end < c.start THEN b
    ELSE LET acked == b.acked \cup Covered(c)
         IN  [ring |-> qss_cull(b.ring, acked), acked |-> acked]

\* The buffer and acked_set after all chunks of p are acknowledged.
Acked(p) ==
    LET after[i \in 0..Len(p)] ==
            IF i = 0 THEN [ring |-> ring, acked |-> acked_set]
            ELSE ossl_quic_sstream_mark_acked(after[i - 1], p[i])
    IN  after[Len(p)]

\* Mutant: the number of ranges is not looked at.
TotallyAckedByEnd ==
    /\ have_final_size => acked_final_size
    /\ \/ CurSize = 0
       \/ CurSize - 1 \in acked_set

ossl_quic_sstream_is_totally_acked ==
    /\ have_final_size => acked_final_size
    /\ \/ CurSize = 0
       \/ /\ Cardinality(Starts(acked_set)) = 1
          /\ 0 \in acked_set
          /\ RangeEnd(acked_set, 0) + 1 = CurSize

-----------------------------------------------------------------------------
\* ossl_quic_sstream_new
Init ==
    /\ crypto \in BOOLEAN
    /\ ring = ring_buf_init(IF crypto THEN CryptoBufSize ELSE InitBufSize)
    /\ new_set = {}
    /\ acked_set = {}
    /\ have_final_size = FALSE
    /\ sent_final_size = FALSE
    /\ acked_final_size = FALSE
    /\ cleanse = FALSE
    /\ pkts = {}
    /\ losses = 0

\* The buffer after it was given room for n more bytes, as far as allowed.
sstream_ensure_spare(n) ==
    IF crypto \/ n <= ring_buf_avail(ring) \/ ring.alloc = MaxWriteBufSize
    THEN ring
    ELSE ring_buf_resize(ring, MinOf(ring.alloc + (n - ring_buf_avail(ring)),
                                     MaxWriteBufSize))

\* The application (or TLS, for a CRYPTO stream) writes n bytes; as many are
\* taken as fit.
Append_(n) ==
    LET r == ring_buf_push(sstream_ensure_spare(n), n)
    IN  /\ ~have_final_size
        /\ ring' = r
        /\ new_set' = new_set \cup (CurSize .. (r.head_offset - 1))
        /\ UNCHANGED <<acked_set, flags, pkts, losses>>

\* The application concludes the stream.
Fin ==
    /\ ~crypto
    /\ ~have_final_size
    /\ have_final_size' = TRUE
    /\ UNCHANGED <<ring, new_set, acked_set, sent_final_size, acked_final_size,
                   cleanse, pkts, losses, crypto>>

\* The application sets the size of the write buffer.
SetBufferSize(n) ==
    /\ ~crypto
    /\ ring' = ring_buf_resize(ring, n)
    /\ UNCHANGED <<new_set, acked_set, flags, pkts, losses>>

\* The application sets or clears SSL_OP_CLEANSE_PLAINTEXT.
SetCleanse(v) ==
    /\ ~crypto
    /\ cleanse' = v
    /\ UNCHANGED <<ring, new_set, acked_set, have_final_size, sent_final_size,
                   acked_final_size, pkts, losses, crypto>>

\* Mutant: the bytes of the packet stay in new_set.
TxKeepsNew(p) ==
    /\ Cardinality(pkts) < MaxInFlight
    /\ pkts' = pkts \cup {p}
    /\ sent_final_size' = (sent_final_size \/ HasFin(p))
    /\ UNCHANGED <<ring, new_set, acked_set, have_final_size, acked_final_size,
                   cleanse, losses, crypto>>

\* The packetiser builds a packet and commits it to the FIFD.
TxPacket(p) ==
    /\ Cardinality(pkts) < MaxInFlight
    /\ pkts' = pkts \cup {p}
    /\ new_set' = new_set \ PacketBytes(p)
    /\ sent_final_size' = (sent_final_size \/ HasFin(p))
    /\ UNCHANGED <<ring, acked_set, have_final_size, acked_final_size, cleanse,
                   losses, crypto>>

OnAcked(p) ==
    LET after == Acked(p)
    IN  /\ pkts' = pkts \ {p}
        /\ ring' = after.ring
        /\ acked_set' = after.acked
        /\ acked_final_size' = (acked_final_size \/ (HasFin(p) /\ have_final_size))
        /\ UNCHANGED <<new_set, have_final_size, sent_final_size, cleanse,
                       losses, crypto>>

\* Mutant: the loss of a FIN is forgotten if its frame carried no data.
LostFinAlone(p) ==
    /\ losses < MaxLosses /\ losses' = losses + 1
    /\ pkts' = pkts \ {p}
    /\ new_set' = new_set \cup PacketBytes(p)
    /\ sent_final_size' =
         (sent_final_size /\ ~(\E c \in ChunksOf(p) : c.has_fin /\ Covered(c) # {}))
    /\ UNCHANGED <<ring, acked_set, have_final_size, acked_final_size, cleanse,
                   crypto>>

OnLost(p) ==
    /\ losses < MaxLosses /\ losses' = losses + 1
    /\ pkts' = pkts \ {p}
    /\ new_set' = new_set \cup PacketBytes(p)
    /\ sent_final_size' = (sent_final_size /\ (HasFin(p) => acked_final_size))
    /\ UNCHANGED <<ring, acked_set, have_final_size, acked_final_size, cleanse,
                   crypto>>

Transmit == \E n \in 1..MaxChunks : \E p \in Packets(n) : TxPacket(p)

Next ==
    \/ \E n \in 1..MaxWrite : Append_(n)
    \/ Fin
    \/ \E n \in 0..MaxWriteBufSize : SetBufferSize(n)
    \/ \E v \in BOOLEAN : SetCleanse(v)
    \/ Transmit
    \/ \E p \in pkts : OnAcked(p) \/ OnLost(p)

Spec == Init /\ [][Next]_vars

-----------------------------------------------------------------------------
(***************************************************************************)
(* Properties                                                              *)
(***************************************************************************)
IsChunk(c) ==
    /\ c.start \in 0..MAX_OFFSET /\ c.end \in 0..MaxUint /\ c.has_fin \in BOOLEAN
    /\ DOMAIN c.data \subseteq 0..MAX_OFFSET

TypeOK ==
    /\ IsRingBuf(ring)
    /\ new_set \subseteq 0..MaxUint
    /\ acked_set \subseteq 0..MaxUint
    /\ have_final_size \in BOOLEAN
    /\ sent_final_size \in BOOLEAN
    /\ acked_final_size \in BOOLEAN
    /\ cleanse \in BOOLEAN /\ crypto \in BOOLEAN
    /\ \A p \in pkts : \A c \in ChunksOf(p) : IsChunk(c)
    /\ losses \in 0..MaxLosses

\* Bytes of the stream so far.
StreamBytes == 0..(CurSize - 1)

\* Every byte of the stream is in exactly one place: in new_set, in acked_set,
\* or in exactly one packet in flight.  ("No logical byte is ever in both
\* new_set and acked_set"; no byte is forgotten; no insertion into either set
\* ever overlaps it.)
Tracked ==
    /\ new_set \cap acked_set = {}
    /\ StreamBytes \subseteq
           new_set \cup acked_set \cup UNION {PacketBytes(p) : p \in pkts}
    /\ \A p \in pkts : PacketBytes(p) \cap (new_set \cup acked_set) = {}
    /\ \A p, q \in pkts : p # q => PacketBytes(p) \cap PacketBytes(q) = {}

\* The FIN is never forgotten: until it is acknowledged it is to be sent, is
\* in flight, or will be sent with the last byte.
FinTracked ==
    have_final_size =>
        acked_final_size \/ ~sent_final_size \/ (\E p \in pkts : HasFin(p))

\* Only acknowledged bytes are given up, and the buffer still holds every
\* other one unharmed, wherever it wraps around and however it was resized.
BufferIntact ==
    /\ \A o \in StreamBytes : o < ring.ctail_offset => o \in acked_set
    /\ \A o \in StreamBytes : o >= ring.ctail_offset =>
                                  ring.start[o % ring.alloc] = ByteAt(o)
    /\ ring_buf_used(ring) <= ring.alloc

\* Frames in flight carry the stream's bytes, and a FIN only at its final
\* size (the check in ossl_quic_sstream_mark_transmitted_fin cannot fail).
FramesTruthful ==
    \A p \in pkts : \A c \in ChunksOf(p) :
        /\ \A o \in DOMAIN c.data : c.data[o] = ByteAt(o)
        /\ c.has_fin => have_final_size /\ UintMod(c.end + 1) = CurSize

\* Whatever is in new_set can be served: no range is refused, and only a FIN
\* goes without data.
NewIsServable ==
    \A skip \in 0..(Cardinality(Starts(new_set)) - 1) :
        LET f == ossl_quic_sstream_get_stream_frame(skip)
        IN  f.ok /\ (f.len > 0 \/ f.is_fin)

\* "Returns 1 iff all bytes (and any FIN, if any) which have been appended to
\* the QUIC_SSTREAM so far, and any FIN (if any), have been both sent and
\* acked" (quic_stream.h).
TotallyAckedIff ==
    ossl_quic_sstream_is_totally_acked
      <=> StreamBytes \subseteq acked_set /\ (have_final_size => acked_final_size)

\* Nothing is forgotten, whatever order packets are acknowledged and lost in:
\* neither a byte of the stream nor its FIN.
NothingForgotten == Tracked /\ FinTracked

\* What is still to be sent can be sent: the buffer holds it unharmed and the
\* enumeration of frames offers it.
BufferServes == TypeOK /\ BufferIntact /\ NewIsServable
==============================================================================
