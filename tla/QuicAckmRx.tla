----------------------------- MODULE QuicAckmRx -----------------------------
(***************************************************************************)
(* The receiving half of the ACK manager (ssl/quic/quic_ackm.c) for one    *)
(* packet number space: which packet numbers may still be processed, which *)
(* go into ACK frames, and when an ACK frame is due.  Around it, the       *)
(* batches in which the record layer hands packets over                    *)
(* (quic_record_rx.c), the packetiser that asks for ACK frames             *)
(* (quic_txp.c) and a network that loses, duplicates and reorders.         *)
(*                                                                         *)
(* The packet number set is a UINT_SET; packet numbers are inserted one at *)
(* a time when they are not there, so that its ranges are the maximal runs *)
(* of integers (Canonical of UintSet), and it is a set here.  The ACK      *)
(* delay field and the ECN counters, which no frame sent carries, are left *)
(* out.                                                                    *)
(***************************************************************************)
EXTENDS Integers, Sequences, FiniteSets, FiniteSetsExt

CONSTANTS
    MaxPn,              \* Bound: largest packet number of the peer
    Eliciting,          \* Which of its packets are ACK-eliciting
    RxMaxTime,          \* Bound: largest time
    MaxTx,              \* Bound: number of packets sent with an ACK frame
    MaxBatch,           \* Bound: packets decrypted before the first is handled
    TxMaxAckDelay,      \* tx_max_ack_delay; 0 for Initial and Handshake
    MAX_RX_ACK_RANGES,  \* Ranges stored (32)
    FrameRanges,        \* OSSL_NELEM(ackm->ack_ranges), ranges in a frame (3)
    PKTS_BEFORE_ACK     \* ACK-eliciting packets before an ACK is forced (2)

ASSUME AckmRxAssumption ==
    /\ {MaxPn, RxMaxTime, MaxTx, TxMaxAckDelay} \subseteq Nat
    /\ Eliciting \subseteq 0..MaxPn
    /\ {MaxBatch, MAX_RX_ACK_RANGES, FrameRanges, PKTS_BEFORE_ACK}
          \subseteq Nat \ {0}

VARIABLES
    rx_now,
    rx_pending,     \* QRX: packets decrypted and validated, not yet handled
    set,            \* rx_history: packet numbers not yet provably acked
    watermark,      \*             packet numbers below it are not processed
    ack,            \* Packet numbers in the last ACK frame generated
    rx_ack_desired, rx_ack_generated,
    since_last_ack, \* rx_ack_eliciting_pkts_since_last_ack
    flush_deadline, \* rx_ack_flush_deadline
    want_ack,       \* txp->want_ack: an ACK frame was lost
    tx,             \* Packets in flight that carry an ACK frame
    num_tx,         \* Number of such packets so far
    handled,        \* History: how often each packet number was processed
    reported,       \* History: packet numbers an ACK frame was generated after
    rx_time         \* History: when a number not yet reported was received

history == <<set, watermark>>
acking == <<ack, rx_ack_desired, rx_ack_generated, since_last_ack,
            flush_deadline>>
sending == <<want_ack, tx, num_tx>>
ghosts == <<handled, reported, rx_time>>
rx_vars == <<rx_now, rx_pending, history, acking, sending, ghosts>>

PN == 0..MaxPn
RxInfinite == RxMaxTime + TxMaxAckDelay + 1

\* The lowest packet number of each range, and the n highest ranges.
RangeStarts(S) == {x \in S : x - 1 \notin S}
TopRanges(S, n) ==
    {x \in S : Cardinality({y \in RangeStarts(S) : y > x}) < n}

RxInit ==
    /\ rx_now = 0
    /\ rx_pending = <<>>
    /\ set = {} /\ watermark = 0
    /\ ack = {}
    /\ rx_ack_desired = FALSE /\ rx_ack_generated = FALSE
    /\ since_last_ack = 0 /\ flush_deadline = RxInfinite
    /\ want_ack = FALSE /\ tx = {} /\ num_tx = 0
    /\ handled = [pn \in PN |-> 0] /\ rx_time = [pn \in PN |-> 0]
    /\ reported = {}

RxTick ==
    /\ rx_now < RxMaxTime
    /\ rx_now' = rx_now + 1
    /\ UNCHANGED <<rx_pending, history, acking, sending, ghosts>>

(***************************************************************************)
(* The receive history                                                     *)
(***************************************************************************)

\* Mutant: the packet number at the watermark goes as well.
BumpTakesOneMore(h, w) ==
    IF w <= h.watermark
    THEN h
    ELSE [set |-> {x \in h.set : x > w}, watermark |-> w]

rx_pkt_history_bump_watermark(h, w) ==
    IF w <= h.watermark
    THEN h
    ELSE [set |-> {x \in h.set : x >= w}, watermark |-> w]

\* Mutant: the lowest ranges are dropped and the watermark stays.
TrimForgets(h) == [h EXCEPT !.set = TopRanges(h.set, MAX_RX_ACK_RANGES)]

\* Drops the lowest ranges and moves the watermark over them.
rx_pkt_history_trim_range_count(h) ==
    LET kept == TopRanges(h.set, MAX_RX_ACK_RANGES)
        removed == h.set \ kept
    IN  IF removed = {}
        THEN h
        ELSE rx_pkt_history_bump_watermark([h EXCEPT !.set = kept],
                                           Max(removed) + 1)

rx_pkt_history_add_pn(h, pn) ==
    IF pn < h.watermark
    THEN h
    ELSE rx_pkt_history_trim_range_count([h EXCEPT !.set = @ \cup {pn}])

ossl_ackm_is_rx_pn_processable(pn) == pn >= watermark /\ pn \notin set

(***************************************************************************)
(* Receiving a packet                                                      *)
(***************************************************************************)

\* Was pn reported missing by the last frame?  Does the newest range, one
\* packet number long, leave a new gap above the last frame?
ackm_is_missing(pn) == ack # {} /\ pn <= Max(ack) /\ pn \notin ack
ackm_has_newly_missing(S) ==
    /\ S # {} /\ ack # {}
    /\ Max(S) \in RangeStarts(S)
    /\ Max(S) > Max(ack) + 1

\* Mutant: the deadline is only ever brought forward.
FlushOnlyLowered(t) ==
    IF flush_deadline = RxInfinite
    THEN flush_deadline
    ELSE Min({flush_deadline, t + TxMaxAckDelay})

FlushDeadline(t) ==
    IF flush_deadline = RxInfinite
    THEN t + TxMaxAckDelay
    ELSE Min({flush_deadline, t + TxMaxAckDelay})

\* S is the history after the packet was added to it.
ackm_on_rx_ack_eliciting(t, S, was_missing) ==
    IF rx_ack_desired
    THEN UNCHANGED acking
    ELSE /\ since_last_ack' = since_last_ack + 1
         /\ UNCHANGED <<ack, rx_ack_generated>>
         /\ IF \/ ~rx_ack_generated
               \/ was_missing
               \/ since_last_ack + 1 >= PKTS_BEFORE_ACK
               \/ ackm_has_newly_missing(S)
            THEN rx_ack_desired' = TRUE /\ flush_deadline' = RxInfinite
            ELSE /\ flush_deadline' = FlushDeadline(t)
                 /\ UNCHANGED rx_ack_desired

\* pkt: [pn, time].  A duplicate is a no-op.
ossl_ackm_on_rx_packet(pkt) ==
    LET h == rx_pkt_history_add_pn([set |-> set, watermark |-> watermark],
                                   pkt.pn)
    IN  IF ossl_ackm_is_rx_pn_processable(pkt.pn)
        THEN /\ set' = h.set
             /\ watermark' = h.watermark
             /\ rx_time' = [rx_time EXCEPT ![pkt.pn] = pkt.time]
             /\ IF pkt.pn \in Eliciting
                THEN ackm_on_rx_ack_eliciting(pkt.time, h.set,
                                              ackm_is_missing(pkt.pn))
                ELSE UNCHANGED acking
        ELSE UNCHANGED <<history, acking, rx_time>>

\* ossl_qrx_read_pkt with nothing left over: every datagram waiting is
\* decrypted and validated before the first packet is handed over.  A packet
\* that does not pass is dropped, as if it had been lost.
ReadBatch(batch) ==
    /\ rx_pending = <<>>
    /\ \A i \in DOMAIN batch : ossl_ackm_is_rx_pn_processable(batch[i])
    /\ rx_pending' = [i \in DOMAIN batch |-> [pn |-> batch[i], time |-> rx_now]]
    /\ UNCHANGED <<rx_now, history, acking, sending, ghosts>>

\* ossl_quic_handle_frames: the frames, then the ACK manager.
HandlePacket ==
    /\ rx_pending # <<>>
    /\ rx_pending' = Tail(rx_pending)
    /\ handled' = [handled EXCEPT ![Head(rx_pending).pn] = @ + 1]
    /\ ossl_ackm_on_rx_packet(Head(rx_pending))
    /\ UNCHANGED <<rx_now, sending, reported>>

(***************************************************************************)
(* Sending ACK frames                                                      *)
(***************************************************************************)

ossl_ackm_is_ack_desired ==
    rx_ack_desired \/ (flush_deadline # RxInfinite /\ rx_now >= flush_deadline)

ackm_fill_rx_ack_ranges == TopRanges(set, FrameRanges)

ossl_ackm_get_ack_frame ==
    /\ ack' = ackm_fill_rx_ack_ranges
    /\ since_last_ack' = 0
    /\ rx_ack_generated' = TRUE
    /\ rx_ack_desired' = FALSE
    /\ flush_deadline' = RxInfinite

\* txp_generate_pre_token and txp_pkt_commit.  A frame with no ranges cannot
\* be encoded and is rolled back.  inflight: does the packet carry more than
\* the ACK frame?
SendAck(inflight) ==
    /\ num_tx < MaxTx
    /\ want_ack \/ ossl_ackm_is_ack_desired
    /\ ossl_ackm_get_ack_frame
    /\ reported' = reported \cup set
    /\ rx_time' = [pn \in PN |-> IF pn \in set THEN 0 ELSE rx_time[pn]]
    /\ IF ack' = {}
       THEN UNCHANGED sending
       ELSE /\ tx' = tx \cup {[id |-> num_tx, largest_acked |-> Max(ack'),
                               is_inflight |-> inflight]}
            /\ num_tx' = num_tx + 1
            /\ want_ack' = FALSE
    /\ UNCHANGED <<rx_now, rx_pending, history, handled>>

\* ackm_on_pkts_acked: the peer acknowledges the packet.
OnPktAcked(p) ==
    LET h == rx_pkt_history_bump_watermark(
                 [set |-> set, watermark |-> watermark], p.largest_acked + 1)
    IN  /\ tx' = tx \ {p}
        /\ IF p.is_inflight
           THEN set' = h.set /\ watermark' = h.watermark
           ELSE UNCHANGED history
        /\ UNCHANGED <<rx_now, rx_pending, acking, want_ack, num_tx, ghosts>>

\* fifd on_lost, on_regen_notify: the packet is taken for lost, rightly or not.
OnPktLost(p) ==
    /\ tx' = tx \ {p}
    /\ want_ack' = TRUE
    /\ UNCHANGED <<rx_now, rx_pending, history, acking, num_tx, ghosts>>

-----------------------------------------------------------------------------
RxNext ==
    \/ RxTick
    \/ \E batch \in UNION {[1..n -> PN] : n \in 1..MaxBatch} : ReadBatch(batch)
    \/ HandlePacket
    \/ \E inflight \in BOOLEAN : SendAck(inflight)
    \/ \E p \in tx : OnPktAcked(p) \/ OnPktLost(p)

RxSpec == RxInit /\ [][RxNext]_rx_vars

-----------------------------------------------------------------------------
\* The state (B) of the comment on rx_pkt_history_st: the set holds exactly the
\* packet numbers above the watermark that were received, whatever trimming
\* and bumping the watermark did, and never more than the allowed ranges.
SetExact ==
    /\ set = {pn \in PN : pn >= watermark /\ handled[pn] > 0}
    /\ Cardinality(RangeStarts(set)) <= MAX_RX_ACK_RANGES

\* An ACK-eliciting packet that was received since the last ACK frame has
\* another one coming: it is asked for now, or no later than tx_max_ack_delay
\* after the packet was received.  A later packet or the watermark must not
\* cancel or postpone it.  (The frame may have no room for its range.)
AckOnTime ==
    \A pn \in (set \cap Eliciting) \ reported :
        \/ rx_ack_desired
        \/ flush_deadline <= rx_time[pn] + TxMaxAckDelay

\* A packet number that has been handled never passes validation again, also
\* when the set has forgotten it: trimmed ranges and provably acked packets lie
\* below the watermark.
NeverReadAgain ==
    [][rx_pending = <<>> =>
          \A i \in DOMAIN rx_pending' : handled[rx_pending'[i].pn] = 0]_rx_vars

==============================================================================
