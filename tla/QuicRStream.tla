----------------------------- MODULE QuicRStream -----------------------------
(***************************************************************************)
(* A receive stream (ssl/quic/quic_rstream.c) over its list of frames      *)
(* (quic_sf_list.c), between the depacketiser (quic_rx_depack.c) and the   *)
(* application, or TLS for a CRYPTO stream.                                *)
(*                                                                         *)
(* A frame covers the bytes start..(end - 1).  Its data, a function from   *)
(* those offsets to bytes, lies in a received packet until it is moved to  *)
(* the ring buffer.  Of the flow control only this is used: a final size   *)
(* never changes and no byte lies behind it.  Aborting the stream          *)
(* (STOP_SENDING, RESET_STREAM) is not modelled here.                      *)
(***************************************************************************)
EXTENDS RingBuf, Sequences, FiniteSets

CONSTANTS
    MaxRbufSize     \* Bound: size of the ring buffer

ASSUME RStreamAssumption == MaxRbufSize \in Nat

VARIABLES
    is_crypto,      \* TRUE for a CRYPTO stream, FALSE for an application's
    frames,         \* SFRAME_LIST: the frames
    offset,         \*              offset of data not yet dropped
    fin,            \*              is the tail frame final?
    head_locked,    \*              is a record handed out?
    head_range,     \* The record handed out
    rbuf,           \* ring_buf
    recv_state,     \* State of the receive part (quic_stream_map.h)
    size,           \* The peer: number of bytes of the stream
    received,       \* History: bytes received
    got             \* History: bytes read, in order

list == <<frames, offset, fin, head_locked>>
rvars == <<is_crypto, list, head_range, rbuf, recv_state, size, received, got>>

RECV == "RECV"
SIZE_KNOWN == "SIZE_KNOWN"
DATA_RECVD == "DATA_RECVD"
DATA_READ == "DATA_READ"

Frame(start, end, data) ==
    [start |-> start, end |-> end, in_pkt |-> TRUE, data |-> data]
\* A frame moved to the ring buffer.
InRbuf(f) == [f EXCEPT !.in_pkt = FALSE, !.data = <<>>]
NoRange == [start |-> 0, end |-> 0]

MaxOf(a, b) == IF a >= b THEN a ELSE b

(***************************************************************************)
(* The frame list                                                          *)
(***************************************************************************)

\* End of the data received so far, as the assertion in insert sees it.
CurrEnd == IF frames = <<>> THEN offset ELSE frames[Len(frames)].end

\* Mutant: a gap is thought filled if the next frame starts within the new one.
InsertBeforeRedundant(f, n) ==
    LET prev == Cardinality({i \in DOMAIN f : f[i].start < n.start})
        dropped == {i \in (prev + 1)..Len(f) : f[i].end <= n.end}
        rest == SubSeq(f, prev + Cardinality(dropped) + 1, Len(f))
    IN  IF prev > 0 /\ f[prev].end >= n.end
        THEN f
        ELSE IF rest # <<>> /\ prev > 0 /\ rest[1].start <= n.end
        THEN SubSeq(f, 1, prev) \o rest
        ELSE SubSeq(f, 1, prev) \o <<n>> \o rest

\* The list f with a frame n that does not start behind its tail: frames
\* that n makes redundant are dropped, unless n is redundant itself.
InsertBefore(f, n) ==
    LET prev == Cardinality({i \in DOMAIN f : f[i].start < n.start})
        dropped == {i \in (prev + 1)..Len(f) : f[i].end <= n.end}
        rest == SubSeq(f, prev + Cardinality(dropped) + 1, Len(f))
    IN  IF prev > 0 /\ f[prev].end >= n.end
        THEN f
        ELSE IF rest # <<>> /\ prev > 0 /\ rest[1].start <= f[prev].end
        THEN SubSeq(f, 1, prev) \o rest
        ELSE SubSeq(f, 1, prev) \o <<n>> \o rest

ossl_sframe_list_insert(n) ==
    IF offset >= n.end
    THEN frames
    ELSE IF frames = <<>>
    THEN <<n>>
    ELSE IF frames[Len(frames)].start < n.start
    THEN IF frames[Len(frames)].end >= n.end THEN frames ELSE Append(frames, n)
    ELSE InsertBefore(frames, n)

\* Where the iteration of ossl_sframe_list_peek stands before frame i of f, and
\* whether it returns that frame.
PeekStart(f, off, i) == IF i = 1 THEN off ELSE f[i - 1].end
Peeks(f, off, i) ==
    /\ f[i].start <= PeekStart(f, off, i)
    /\ PeekStart(f, off, i) < f[i].end

\* Number of frames the iteration returns, the end of the data they hold, and
\* the FIN flag that it leaves.
Readable(f, off) ==
    CHOOSE k \in 0..Len(f) :
        /\ \A i \in 1..k : Peeks(f, off, i)
        /\ k < Len(f) => ~Peeks(f, off, k + 1)
ReadableEnd(f, off) == PeekStart(f, off, Readable(f, off) + 1)
ReadableFin(f, off, final) == Readable(f, off) = Len(f) /\ final

\* The frames left by ossl_sframe_list_drop_frames, which drops from the head.
ossl_sframe_list_drop_frames(f, limit) ==
    LET dropped == CHOOSE k \in 0..Len(f) :
                      /\ \A i \in 1..k : f[i].end <= limit
                      /\ k < Len(f) => f[k + 1].end > limit
    IN  SubSeq(f, dropped + 1, Len(f))

\* The byte at offset o, as the data of frame i yields it.
ByteOf(i, o) ==
    IF frames[i].in_pkt THEN frames[i].data[o]
    ELSE rbuf.start[o % rbuf.alloc]

\* The bytes from..(to - 1), each from the frame the iteration finds it in.
BytesRead(from, to) ==
    [j \in 1..(to - from) |->
        LET o == from + j - 1
            i == CHOOSE i \in 1..Readable(frames, offset) :
                    PeekStart(frames, offset, i) <= o /\ o < frames[i].end
        IN  ByteOf(i, o)]

\* Moves the part of a frame behind limit to the ring buffer.
MoveFrame(f, limit, r) ==
    LET from == MaxOf(limit, f.start)
    IN  IF ~f.in_pkt THEN [ok |-> TRUE, rbuf |-> r]
        ELSE IF ~WriteFits(r, from, f.end) THEN [ok |-> FALSE, rbuf |-> r]
        ELSE [ok |-> TRUE, rbuf |-> ring_buf_write_at(r, from, f.end, f.data)]

\* One round of the loop in ossl_sframe_list_move_data: frame f is moved, unless
\* it or one before did not fit, and merged with the one before if there is no
\* gap.
MoveStep(s, f) ==
    LET m == MoveFrame(f, s.limit, s.rbuf)
        last == Len(s.done)
    IN  IF ~s.ok \/ ~m.ok
        THEN [s EXCEPT !.ok = FALSE, !.done = Append(@, f)]
        ELSE [done |-> IF last > 0 /\ s.done[last].end >= f.start
                       THEN [s.done EXCEPT ![last].end = f.end]
                       ELSE Append(s.done, InRbuf(f)),
              limit |-> f.end, rbuf |-> m.rbuf, ok |-> TRUE]

\* The list and the ring buffer after the frames from number first on were
\* moved, one after the other.
ossl_sframe_list_move_data(first) ==
    LET rest == SubSeq(frames, first, Len(frames))
        step[i \in 0..Len(rest)] ==
            IF i = 0
            THEN [done |-> <<>>, limit |-> offset, rbuf |-> rbuf, ok |-> TRUE]
            ELSE MoveStep(step[i - 1], rest[i])
    IN  [frames |-> SubSeq(frames, 1, first - 1) \o step[Len(rest)].done,
         rbuf |-> step[Len(rest)].rbuf]

\* The ring buffer culled up to offset o.
Culled(o) == IF o > 0 THEN ring_buf_cpop_range(rbuf, 0, o - 1, FALSE) ELSE rbuf

-----------------------------------------------------------------------------
\* A stream whose sender has a given number of bytes to send.
InitOf(n) ==
    /\ frames = <<>>
    /\ offset = 0
    /\ fin = FALSE
    /\ head_locked = FALSE
    /\ head_range = NoRange
    /\ rbuf = ring_buf_init(0)
    /\ recv_state = RECV
    /\ size = n
    /\ received = {}
    /\ got = <<>>

RsInit == is_crypto \in BOOLEAN /\ \E n \in 0..MAX_OFFSET : InitOf(n)

\* Mutant: all data counts as received once the final size is known.
RecvStateEarly(f, is_fin) ==
    IF recv_state = RECV /\ is_fin THEN DATA_RECVD ELSE recv_state

\* recv_state after a frame was queued, f being the list then.
RecvState(f, is_fin) ==
    LET known == IF recv_state = RECV /\ is_fin THEN SIZE_KNOWN ELSE recv_state
    IN  IF known = SIZE_KNOWN /\ ReadableFin(f, offset, fin \/ is_fin)
        THEN DATA_RECVD
        ELSE known

\* A STREAM (or CRYPTO) frame is received.  Without data it is of use only
\* with a FIN.
RxFrame(n, is_fin) ==
    /\ ~is_crypto \/ ~is_fin
    /\ n.start < n.end \/ is_fin
    /\ recv_state \in {RECV, SIZE_KNOWN}
    /\ frames' = ossl_sframe_list_insert(n)
    /\ fin' = (fin \/ is_fin)
    /\ recv_state' = RecvState(frames', is_fin)
    /\ received' = received \cup (n.start .. (n.end - 1))
    /\ UNCHANGED <<is_crypto, offset, head_locked, head_range, rbuf, size,
                   got>>

\* The frame arrives in a state in which it is ignored.
RxIgnored(n, is_fin) ==
    /\ recv_state \in {DATA_RECVD, DATA_READ}
    /\ UNCHANGED rvars

\* Mutant: the FIN is reported with the last frame, read or not.
FinEarly(n) == ReadableFin(frames, offset, fin)

\* The FIN flag that a read of up to n bytes returns.
ReadFin(n) ==
    /\ offset + n >= ReadableEnd(frames, offset)
    /\ ReadableFin(frames, offset, fin)

\* The application reads up to n bytes; with the FIN it has read everything
\* and the receive stream is freed.
Read(n) ==
    LET to == MinOf(offset + n, ReadableEnd(frames, offset))
    IN  /\ ~is_crypto
        /\ recv_state \in {RECV, SIZE_KNOWN, DATA_RECVD}
        /\ got' = got \o BytesRead(offset, to)
        /\ offset' = to
        /\ recv_state' = IF ReadFin(n) /\ recv_state = DATA_RECVD
                         THEN DATA_READ ELSE recv_state
        /\ frames' = IF recv_state' = DATA_READ THEN <<>>
                     ELSE ossl_sframe_list_drop_frames(frames, to)
        /\ rbuf' = IF recv_state' = DATA_READ THEN ring_buf_init(0)
                   ELSE IF to > offset THEN Culled(to) ELSE rbuf
        /\ UNCHANGED <<is_crypto, fin, head_locked, head_range, size,
                       received>>

\* TLS is handed the first readable frame, as far as it is contiguous.
GetRecord ==
    /\ is_crypto
    /\ ~head_locked
    /\ Readable(frames, offset) > 0
    /\ head_locked' = TRUE
    /\ head_range' =
         [start |-> offset,
          end |-> IF frames[1].in_pkt THEN frames[1].end
                  ELSE MinOf(frames[1].end,
                             offset + (rbuf.alloc - (offset % rbuf.alloc)))]
    /\ UNCHANGED <<is_crypto, frames, offset, fin, rbuf, recv_state, size,
                   received, got>>

\* Mutant: the head stays locked.
ReleaseKeepsLock ==
    /\ head_locked
    /\ offset' = head_range.end
    /\ got' = got \o BytesRead(offset, head_range.end)
    /\ frames' = ossl_sframe_list_drop_frames(frames, head_range.end)
    /\ rbuf' = Culled(head_range.end)
    /\ UNCHANGED <<is_crypto, fin, head_locked, head_range, recv_state, size,
                   received>>

\* TLS is done with the record.
ReleaseRecord ==
    /\ head_locked
    /\ offset' = head_range.end
    /\ got' = got \o BytesRead(offset, head_range.end)
    /\ frames' = ossl_sframe_list_drop_frames(frames, head_range.end)
    /\ head_locked' = FALSE
    /\ rbuf' = Culled(head_range.end)
    /\ UNCHANGED <<is_crypto, fin, head_range, recv_state, size, received>>

\* Frame data is moved from packets to the ring buffer; not the record that is
\* handed out.
MoveToRbuf ==
    LET moved == ossl_sframe_list_move_data(IF head_locked THEN 2 ELSE 1)
    IN  /\ recv_state # DATA_READ
        /\ ring_buf_avail(rbuf) > 0
        /\ frames # <<>>
        /\ frames' = moved.frames
        /\ rbuf' = moved.rbuf
        /\ UNCHANGED <<is_crypto, offset, fin, head_locked, head_range,
                       recv_state, size, received, got>>

ResizeRbuf(n) ==
    /\ recv_state # DATA_READ
    /\ ~head_locked
    /\ rbuf' = ring_buf_resize(rbuf, n)
    /\ UNCHANGED <<is_crypto, list, head_range, recv_state, size, received,
                   got>>

\* Frames a sender may send, in any order and any number of times: each byte
\* as it is in the stream, cut anywhere, the last one with or without FIN.
PeerFrames ==
    {Frame(a, b, [o \in a..(b - 1) |-> ByteAt(o)]) :
        a \in 0..size, b \in 0..size}

RsNext ==
    \/ \E n \in PeerFrames, is_fin \in BOOLEAN :
         /\ n.start <= n.end /\ (is_fin => n.end = size)
         /\ RxFrame(n, is_fin) \/ RxIgnored(n, is_fin)
    \/ \E n \in 1..(MAX_OFFSET + 1) : Read(n)
    \/ GetRecord
    \/ ReleaseRecord
    \/ MoveToRbuf
    \/ \E n \in 1..MaxRbufSize : ResizeRbuf(n)

RsSpec == RsInit /\ [][RsNext]_rvars

-----------------------------------------------------------------------------
(***************************************************************************)
(* Properties                                                              *)
(***************************************************************************)
RsTypeOK ==
    /\ \A i \in DOMAIN frames :
         /\ frames[i].start \in 0..size /\ frames[i].end \in 0..size
         /\ frames[i].in_pkt \in BOOLEAN
         /\ frames[i].in_pkt =>
              DOMAIN frames[i].data = frames[i].start .. (frames[i].end - 1)
    /\ is_crypto \in BOOLEAN
    /\ offset \in 0..size
    /\ fin \in BOOLEAN /\ head_locked \in BOOLEAN
    /\ head_range.start \in 0..size /\ head_range.end \in 0..size
    /\ IsRingBuf(rbuf)
    /\ recv_state \in {RECV, SIZE_KNOWN, DATA_RECVD, DATA_READ}
    /\ received \subseteq 0..(size - 1)
    /\ got \in Seq(0..MAX_OFFSET)

Held(f) == UNION {f[i].start .. (f[i].end - 1) : i \in DOMAIN f}

\* The list holds every byte received and not yet read, and nothing else:
\* dropping redundant frames loses no byte, and what was read before does not
\* come back.
NothingLost ==
    recv_state # DATA_READ =>
        Held(frames) \cap (offset .. size) = received \cap (offset .. size)

\* Frames are in order: the walks over the list find their place, and "frame
\* list invariant broken" is never reached.  A frame may be within the next
\* one only if both have the same start, so duplicates do not pile up.
Sorted ==
    \A i \in 1..(Len(frames) - 1) :
        /\ frames[i].start <= frames[i + 1].start
        /\ frames[i].end < frames[i + 1].end

\* ossl_sframe_list_peek never stops early: everything received without a gap
\* can be read, and its assertion start < sf->range.end holds although frames
\* without data are in the list.
EverythingReadable ==
    recv_state # DATA_READ =>
        /\ \A o \in offset .. (ReadableEnd(frames, offset) - 1) : o \in received
        /\ ReadableEnd(frames, offset) \notin received
        /\ LET k == Readable(frames, offset)
           IN  k < Len(frames) => frames[k + 1].start > PeekStart(frames, offset, k + 1)

\* The assertion at the head of ossl_sframe_list_insert holds for every frame
\* that passes flow control.
InsertAsserts ==
    recv_state \in {RECV, SIZE_KNOWN} =>
        /\ CurrEnd <= size
        /\ fin => CurrEnd = size

\* The application is given exactly the stream's bytes, in order, wherever
\* they were stored and however the ring buffer was filled and resized.
ReadsTrue ==
    /\ recv_state # DATA_READ => Len(got) = offset
    /\ \A i \in DOMAIN got : got[i] = ByteAt(i - 1)

\* The end of the stream is reported when everything was read, and only then;
\* the state machine knows when everything was received ("rs_fin will be 1
\* only if we can read all data up to and including the FIN").
EndOfStream ==
    /\ recv_state \in {DATA_RECVD, DATA_READ} <=> fin /\ received = 0..(size - 1)
    /\ recv_state = DATA_READ => Len(got) = size
    /\ recv_state # DATA_READ =>
         \A n \in 1..(size + 1) :
            ReadFin(n) <=> recv_state = DATA_RECVD /\ offset + n >= size

\* A record that was handed out is still what will be dropped on its release,
\* although frames are inserted and moved in between: the assertions of
\* ossl_sframe_list_drop_frames hold.
RecordStays ==
    head_locked =>
        /\ head_range.start = offset /\ offset < head_range.end
        /\ head_range.end <= ReadableEnd(frames, offset)

\* Whatever order frames come in, every byte received is kept, in order, once
\* it counts, and can be read as soon as there is no gap before it.
EverythingKept ==
    RsTypeOK /\ NothingLost /\ Sorted /\ EverythingReadable /\ InsertAsserts
==============================================================================
