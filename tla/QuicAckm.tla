------------------------------ MODULE QuicAckm ------------------------------
(***************************************************************************)
(* The sending half of the ACK manager (ssl/quic/quic_ackm.c): the packets *)
(* in flight in the three packet number spaces, loss detection by packet   *)
(* and by time threshold, the one timer that serves all spaces, probes,    *)
(* and what it reports to the NewReno congestion controller                *)
(* (cc_newreno.c) and to the RTT estimate (quic_statm.c).  Around it, the  *)
(* packetiser (quic_txp.c), the channel's tick and space discards          *)
(* (quic_channel.c), and a peer that acknowledges whatever subset it       *)
(* received, late or never.                                                *)
(*                                                                         *)
(* A C function that updates the ACK manager is an operator from its       *)
(* record to the updated record, so that calls compose as in the code.     *)
(* ECN (on_ecn is not reachable: the packet it looks up has just left the  *)
(* history) and persistent congestion (a stub that returns 0) are left     *)
(* out.                                                                    *)
(***************************************************************************)
EXTENDS Integers, Sequences, FiniteSets, FiniteSetsExt

CONSTANTS
    MaxPkts,           \* Bound: packets sent, all spaces together
    MaxTime,           \* Bound: largest time; times start at 1, 0 is "not set"
    MaxRestarts,       \* Bound: Version Negotiation and Retry (2)
    AckDelays,         \* Values of the ACK delay field
    RxMaxAckDelay,     \* rx_max_ack_delay
    K_PKT_THRESHOLD, K_GRANULARITY, K_INITIAL_RTT, MAX_PTO_COUNT,
    MaxDgramSize,      \* max_dgram_size of the congestion controller
    InitWnd,           \* k_init_wnd
    Infinite           \* UINT64_MAX, of a threshold or a time

ASSUME AckmAssumption ==
    /\ {MaxPkts, MaxTime, MaxRestarts, RxMaxAckDelay, K_INITIAL_RTT,
        MAX_PTO_COUNT, Infinite} \subseteq Nat
    /\ AckDelays \subseteq Nat
    /\ {K_PKT_THRESHOLD, K_GRANULARITY, MaxDgramSize, InitWnd}
          \subseteq Nat \ {0}

INITIAL == 1
HANDSHAKE == 2
APP == 3
Spaces == {INITIAL, HANDSHAKE, APP}
Never == -1     \* The deadline ossl_time_infinite()

\* ACK-eliciting, PADDING and other in-flight packets, ACK-only packets.
Kinds == {"eliciting", "inflight", "ack_only"}
IsInflight(p) == p.kind # "ack_only"
IsAckEliciting(p) == p.kind = "eliciting"
Size(kind) == IF kind = "eliciting" THEN MaxDgramSize ELSE 1

VARIABLES
    is_server, \* ch->is_server, ackm->is_server
    now,
    ackm,      \* OSSL_ACKM, with its congestion controller and its statistics
    next_pn,   \* Per space, the next packet number of the packetiser
    restarts,  \* Version Negotiation and Retry packets acted on
    fate,      \* History: per space and packet number, the callbacks made
    undone     \* History: bytes of the pseudo-lost packets

vars == <<is_server, now, ackm, next_pn, restarts, fate, undone>>

k_min_wnd == 2 * MaxDgramSize

newreno_reset ==
    [bytes_in_flight |-> 0, cong_wnd |-> InitWnd, bytes_acked |-> 0,
     slow_start_thresh |-> Infinite, recovery_start |-> 0,
     processing_loss |-> FALSE, last_loss |-> 0]

ossl_statm_init ==
    [smoothed |-> K_INITIAL_RTT, latest |-> 0, min |-> Infinite,
     variance |-> K_INITIAL_RTT \div 2, have_first_sample |-> FALSE]

\* A new channel, or one that has been established for a while.
ossl_ackm_new(established) ==
    [hist |-> [s \in Spaces |-> {}],
     largest_acked |-> [s \in Spaces |-> -1],
     last_eliciting |-> [s \in Spaces |-> 0],
     loss_time |-> [s \in Spaces |-> 0],
     deadline |-> 0,
     bytes_in_flight |-> 0,
     eliciting_bytes |-> [s \in Spaces |-> 0],
     handshake_confirmed |-> established,
     peer_completed |-> established,
     discarded |-> [s \in Spaces |-> established /\ s # APP],
     pto_count |-> 0,
     anti_deadlock |-> [s \in {INITIAL, HANDSHAKE} |-> 0],
     pto |-> [s \in Spaces |-> 0],
     cc |-> newreno_reset,
     rtt |-> ossl_statm_init]

Init ==
    /\ is_server \in BOOLEAN
    /\ now = 1
    /\ \E established \in BOOLEAN : ackm = ossl_ackm_new(established)
    /\ next_pn = [s \in Spaces |-> 0]
    /\ restarts = 0
    /\ fate = [s \in Spaces |-> [pn \in 0..MaxPkts - 1 |-> <<>>]]
    /\ undone = 0

Tick ==
    /\ now < MaxTime
    /\ now' = now + 1
    /\ UNCHANGED <<is_server, ackm, next_pn, restarts, fate, undone>>

(***************************************************************************)
(* The congestion controller                                               *)
(***************************************************************************)

newreno_in_cong_recovery(c, tx_time) == tx_time <= c.recovery_start

\* Mutant: a loss inside a recovery period starts another one.
CongAgain(c, tx_time) ==
    [c EXCEPT !.recovery_start = now,
              !.slow_start_thresh = c.cong_wnd \div 2,
              !.cong_wnd = Max({c.cong_wnd \div 2, k_min_wnd})]

newreno_cong(c, tx_time) ==
    IF newreno_in_cong_recovery(c, tx_time)
    THEN c
    ELSE [c EXCEPT !.recovery_start = now,
                   !.slow_start_thresh = c.cong_wnd \div 2,
                   !.cong_wnd = Max({c.cong_wnd \div 2, k_min_wnd})]

newreno_on_data_lost_finished(c) ==
    IF c.processing_loss
    THEN [newreno_cong(c, c.last_loss) EXCEPT !.processing_loss = FALSE]
    ELSE c

newreno_get_tx_allowance(c) == Max({0, c.cong_wnd - c.bytes_in_flight})

newreno_on_data_sent(c, bytes) == [c EXCEPT !.bytes_in_flight = @ + bytes]

newreno_is_cong_limited(c) ==
    LET wnd_rem == c.cong_wnd - c.bytes_in_flight
    IN  \/ wnd_rem <= 0
        \/ c.cong_wnd < c.slow_start_thresh /\ wnd_rem <= c.cong_wnd \div 2
        \/ wnd_rem <= 3 * MaxDgramSize

newreno_on_data_acked(c0, tx_time, bytes) ==
    LET c == [c0 EXCEPT !.bytes_in_flight = @ - bytes]
        acked == c.bytes_acked + bytes
    IN  IF ~newreno_is_cong_limited(c) \/ newreno_in_cong_recovery(c, tx_time)
        THEN c
        ELSE IF c.cong_wnd < c.slow_start_thresh
        THEN [c EXCEPT !.cong_wnd = @ + bytes]
        ELSE IF acked >= c.cong_wnd
        THEN [c EXCEPT !.bytes_acked = acked - c.cong_wnd,
                       !.cong_wnd = @ + MaxDgramSize]
        ELSE [c EXCEPT !.bytes_acked = acked]

newreno_on_data_lost(c0, tx_time, bytes) ==
    LET c == [c0 EXCEPT !.bytes_in_flight = @ - bytes]
        last == Max({c.last_loss, tx_time})
    IN  IF bytes > c0.bytes_in_flight
        THEN c0
        ELSE IF c.processing_loss
        THEN [c EXCEPT !.last_loss = last]
        ELSE IF tx_time <= c.last_loss
        THEN c
        ELSE [c EXCEPT !.processing_loss = TRUE, !.bytes_acked = 0,
                       !.last_loss = last]

\* Mutant: a discarded space leaves its bytes with the congestion controller.
InvalidatedStays(c, bytes) == c

newreno_on_data_invalidated(c, bytes) ==
    [c EXCEPT !.bytes_in_flight = @ - bytes]

(***************************************************************************)
(* The RTT estimate                                                        *)
(***************************************************************************)

ossl_statm_update_rtt(r, ack_delay, sample) ==
    LET latest == IF sample = 0 THEN r.latest ELSE sample
        min == Min({r.min, latest})
        adjusted == IF latest >= min + ack_delay THEN latest - ack_delay
                                                 ELSE latest
        diff == IF r.smoothed >= adjusted THEN r.smoothed - adjusted
                                          ELSE adjusted - r.smoothed
    IN  IF r.have_first_sample
        THEN [r EXCEPT !.latest = latest, !.min = min,
                       !.variance = (3 * @ + diff) \div 4,
                       !.smoothed = (7 * @ + adjusted) \div 8]
        ELSE [latest |-> latest, min |-> latest, smoothed |-> latest,
              variance |-> latest \div 2, have_first_sample |-> TRUE]

(***************************************************************************)
(* The loss detection timer                                                *)
(***************************************************************************)

\* ackm_get_loss_time_and_space.  A later space with no loss time hides the
\* loss time of an earlier one.
LossSpace(m) ==
    LET earlier(s, t) ==
            IF m.loss_time[s] = 0 \/ m.loss_time[t] < m.loss_time[s]
            THEN t ELSE s
    IN  earlier(earlier(INITIAL, HANDSHAKE), APP)

Total(f) == f[INITIAL] + f[HANDSHAKE] + f[APP]

ackm_ack_eliciting_bytes_in_flight(m) == Total(m.eliciting_bytes)

\* Every timeout without an answer doubles the time to the next.
Backoff[n \in 0..MAX_PTO_COUNT] == IF n = 0 THEN 1 ELSE 2 * Backoff[n - 1]
PtoFactor(m) == Backoff[Min({m.pto_count, MAX_PTO_COUNT})]
PtoBase(m) == m.rtt.smoothed + Max({4 * m.rtt.variance, K_GRANULARITY})

\* Mutant: no probe in any space before the handshake is confirmed.
PtoAfterHandshake(m) ==
    {s \in Spaces : /\ m.eliciting_bytes[s] # 0
                    /\ m.handshake_confirmed
                    /\ m.last_eliciting[s] # 0}

\* The spaces the PTO loop considers, and when the probe of one is due.
PtoSpaces(m) ==
    {s \in Spaces :
        /\ m.eliciting_bytes[s] # 0 \/ ~(m.handshake_confirmed \/ is_server)
        /\ s = APP => m.handshake_confirmed
        /\ m.last_eliciting[s] # 0}
PtoTime(m, s) ==
    m.last_eliciting[s]
        + (PtoBase(m) + IF s = APP THEN RxMaxAckDelay ELSE 0) * PtoFactor(m)

\* ackm_get_pto_time_and_space
PtoDeadline(m) ==
    IF ackm_ack_eliciting_bytes_in_flight(m) = 0
    THEN now + PtoBase(m) * PtoFactor(m)
    ELSE IF PtoSpaces(m) = {}
    THEN Never
    ELSE Min({PtoTime(m, s) : s \in PtoSpaces(m)})
PtoSpace(m) ==
    IF PtoSpaces(m) = {}
    THEN INITIAL
    ELSE Min({s \in PtoSpaces(m) : PtoTime(m, s) = PtoDeadline(m)})

ackm_set_loss_detection_timer(m) ==
    [m EXCEPT !.deadline =
        IF m.loss_time[LossSpace(m)] # 0
        THEN m.loss_time[LossSpace(m)]
        ELSE IF ackm_ack_eliciting_bytes_in_flight(m) = 0 /\ m.peer_completed
        THEN 0
        ELSE PtoDeadline(m)]

(***************************************************************************)
(* Packets leave the history                                               *)
(***************************************************************************)

LossDelay(m) ==
    Max({(9 * Max({m.rtt.latest, m.rtt.smoothed})) \div 8, K_GRANULARITY})

\* ackm_detect_and_remove_lost_pkts: the packets it removes, those it leaves
\* with a loss time, and the update.
LostPkts(m, s) ==
    {p \in m.hist[s] :
        /\ p.pn <= m.largest_acked[s]
        /\ \/ p.time <= now - LossDelay(m)
           \/ m.largest_acked[s] >= p.pn + K_PKT_THRESHOLD}

\* Mutant: lost packets stay in the history.
LostStays(m, s) ==
    LET waiting == {p \in m.hist[s] : p.pn <= m.largest_acked[s]}
    IN  [m EXCEPT !.loss_time[s] =
                      IF waiting = {} THEN 0
                      ELSE Min({p.time + LossDelay(m) : p \in waiting})]

ackm_detect_and_remove_lost_pkts(m, s) ==
    LET kept == m.hist[s] \ LostPkts(m, s)
        waiting == {p \in kept : p.pn <= m.largest_acked[s]}
    IN  [m EXCEPT !.hist[s] = kept,
                  !.loss_time[s] =
                      IF waiting = {} THEN 0
                      ELSE Min({p.time + LossDelay(m) : p \in waiting})]

\* A list of packets S is walked by packet number.
PktAt(S, pn) == CHOOSE p \in S : p.pn = pn

\* The bytes of the packets of S with one of the kinds K.
BytesAt(S, K, pn) ==
    IF \E p \in S : p.pn = pn /\ p.kind \in K
    THEN Size(PktAt(S, pn).kind) ELSE 0
Bytes(S, K) ==
    LET sum[n \in 0..MaxPkts] ==
            IF n = 0 THEN 0 ELSE sum[n - 1] + BytesAt(S, K, n - 1)
    IN  sum[MaxPkts]
InflightBytes(S) == Bytes(S, {"eliciting", "inflight"})
ElicitingBytes(S) == Bytes(S, {"eliciting"})

\* The callbacks of the frame-in-flight dispatcher.
CallBack(f, s, S, what) ==
    [f EXCEPT ![s] = [pn \in DOMAIN @ |->
        IF \E p \in S : p.pn = pn THEN Append(@[pn], what) ELSE @[pn]]]

RemoveBytes(m, s, S) ==
    [m EXCEPT !.bytes_in_flight = @ - InflightBytes(S),
              !.eliciting_bytes[s] = @ - ElicitingBytes(S)]

InflightPns(S) == {p.pn : p \in {q \in S : IsInflight(q)}}

\* What the congestion controller c is told of lost packets, the oldest first,
\* and of acknowledged ones, the newest first.
ReportLost(c, S) ==
    LET lost(d, p) == newreno_on_data_lost(d, p.time, Size(p.kind))
        cc[n \in 0..MaxPkts] ==
            IF n = 0 THEN c
            ELSE IF n - 1 \in InflightPns(S)
            THEN lost(cc[n - 1], PktAt(S, n - 1))
            ELSE cc[n - 1]
    IN  cc[MaxPkts]
ReportAcked(c, S) ==
    LET acked(d, p) == newreno_on_data_acked(d, p.time, Size(p.kind))
        cc[n \in 0..MaxPkts] ==
            IF n = 0 THEN c
            ELSE IF MaxPkts - n \in InflightPns(S)
            THEN acked(cc[n - 1], PktAt(S, MaxPkts - n))
            ELSE cc[n - 1]
    IN  cc[MaxPkts]

\* A pseudo-lost packet is not reported to the congestion controller.
ackm_on_pkts_lost(m, s, S, pseudo) ==
    [RemoveBytes(m, s, S) EXCEPT
        !.cc = newreno_on_data_lost_finished(
                   IF pseudo THEN @ ELSE ReportLost(@, S))]

ackm_on_pkts_acked(m, s, S) ==
    [RemoveBytes(m, s, S) EXCEPT !.cc = ReportAcked(@, S)]

DetectLoss(m, s) ==
    LET S == LostPkts(m, s)
        m1 == ackm_detect_and_remove_lost_pkts(m, s)
    IN  IF S = {} THEN m1 ELSE ackm_on_pkts_lost(m1, s, S, FALSE)

(***************************************************************************)
(* Operations                                                              *)
(***************************************************************************)

\* ossl_ackm_on_pkt_space_discarded
Discarded(m, s) ==
    LET bytes == InflightBytes(m.hist[s])
    IN  ackm_set_loss_detection_timer(
            [m EXCEPT !.peer_completed = @ \/ s = HANDSHAKE,
                      !.bytes_in_flight = @ - bytes,
                      !.cc = newreno_on_data_invalidated(@, bytes),
                      !.hist[s] = {},
                      !.last_eliciting[s] = 0,
                      !.loss_time[s] = 0,
                      !.pto_count = 0,
                      !.discarded[s] = TRUE,
                      !.eliciting_bytes[s] = 0])

ossl_ackm_on_tx_packet(m, s, p) ==
    LET m1 == [m EXCEPT !.hist[s] = @ \cup {p}]
        m2 == [m1 EXCEPT !.bytes_in_flight = @ + Size(p.kind),
                         !.last_eliciting[s] =
                             IF IsAckEliciting(p) THEN p.time ELSE @,
                         !.eliciting_bytes[s] =
                             IF IsAckEliciting(p) THEN @ + Size(p.kind) ELSE @]
    IN  IF IsInflight(p)
        THEN [ackm_set_loss_detection_timer(m2) EXCEPT
                 !.cc = newreno_on_data_sent(@, Size(p.kind))]
        ELSE m1

ProbePending(m) ==
    \/ \E s \in {INITIAL, HANDSHAKE} : m.anti_deadlock[s] > 0
    \/ \E s \in Spaces : m.pto[s] > 0

\* txp_pkt_commit: an ACK-eliciting packet answers the probe requests.
ProbeSent(m, s) ==
    [m EXCEPT !.pto[s] = Max({0, @ - 1}),
              !.anti_deadlock = [t \in DOMAIN @ |->
                  IF t = s THEN Max({0, @[t] - 1}) ELSE @[t]]]

NumSent == Total(next_pn)

\* May the packetiser use the keys of space s?
Provisioned(s) ==
    /\ ~ackm.discarded[s]
    /\ s > INITIAL => ackm.discarded[s - 1] \/ next_pn[s - 1] > 0

\* A client that sends its first Handshake packet discards the Initial space.
TxPacket(s, kind) ==
    LET p == [pn |-> next_pn[s], time |-> now, kind |-> kind]
        m1 == ossl_ackm_on_tx_packet(ackm, s, p)
        m2 == IF IsAckEliciting(p) THEN ProbeSent(m1, s) ELSE m1
        discard == ~is_server /\ s = HANDSHAKE /\ ~ackm.discarded[INITIAL]
    IN  /\ NumSent < MaxPkts
        /\ Provisioned(s)
        /\ IsInflight(p) =>
              newreno_get_tx_allowance(ackm.cc) > 0 \/ ProbePending(ackm)
        /\ next_pn' = [next_pn EXCEPT ![s] = @ + 1]
        /\ ackm' = IF discard THEN Discarded(m2, INITIAL) ELSE m2
        /\ fate' = IF discard
                   THEN CallBack(fate, INITIAL, ackm.hist[INITIAL], "discarded")
                   ELSE fate
        /\ UNCHANGED <<is_server, now, restarts, undone>>

\* ossl_ackm_on_rx_ack_frame for an ACK frame with the packet numbers S.
OnRxAckFrame(s, S, delay) ==
    LET m1 == [ackm EXCEPT !.largest_acked[s] = Max({@, Max(S)}),
                           !.peer_completed = @ \/ s = HANDSHAKE]
        newly == {p \in m1.hist[s] : p.pn \in S}
        m2 == [m1 EXCEPT !.hist[s] = @ \ newly]
        first == CHOOSE p \in newly : \A q \in newly : q.pn <= p.pn
        m3 == IF first.pn = Max(S) /\ \E p \in newly : IsAckEliciting(p)
              THEN [m2 EXCEPT !.rtt = ossl_statm_update_rtt(
                        @, IF m2.handshake_confirmed
                           THEN Min({delay, RxMaxAckDelay}) ELSE delay,
                        now - first.time)]
              ELSE m2
        m4 == ackm_on_pkts_acked(DetectLoss(m3, s), s, newly)
        m5 == IF m4.peer_completed THEN [m4 EXCEPT !.pto_count = 0] ELSE m4
    IN  /\ ~ackm.discarded[s]
        /\ S # {}
        /\ IF newly = {}
           THEN /\ ackm' = IF m1.peer_completed # ackm.peer_completed
                           THEN ackm_set_loss_detection_timer(m1) ELSE m1
                /\ UNCHANGED fate
           ELSE /\ ackm' = ackm_set_loss_detection_timer(m5)
                /\ fate' = CallBack(CallBack(fate, s, LostPkts(m3, s), "lost"),
                                    s, newly, "acked")
        /\ UNCHANGED <<is_server, now, next_pn, restarts, undone>>

\* ossl_ackm_on_timeout, called by the tick once the deadline has passed.
OnTimeout ==
    LET s == LossSpace(ackm)
        bump(m) == [m EXCEPT !.pto_count = @ + 1]
        queued ==
            IF ackm_ack_eliciting_bytes_in_flight(ackm) = 0
            THEN [ackm EXCEPT !.anti_deadlock[
                    IF ackm.discarded[INITIAL] THEN HANDSHAKE ELSE INITIAL]
                        = @ + 1]
            ELSE [ackm EXCEPT !.pto[PtoSpace(ackm)] = @ + 1]
    IN  /\ ackm.deadline \notin {0, Never} /\ now >= ackm.deadline
        /\ IF ackm.loss_time[s] # 0
           THEN /\ ackm' = ackm_set_loss_detection_timer(DetectLoss(ackm, s))
                /\ fate' = CallBack(fate, s, LostPkts(ackm, s), "lost")
           ELSE /\ ackm' = ackm_set_loss_detection_timer(bump(queued))
                /\ UNCHANGED fate
        /\ UNCHANGED <<is_server, now, next_pn, restarts, undone>>

\* ch_rx_handle_packet: a server drops the Initial space once it can read a
\* Handshake packet, which it can after it sent its own Handshake keys' flight.
ServerDiscardsInitial ==
    /\ is_server /\ ~ackm.discarded[INITIAL] /\ next_pn[INITIAL] > 0
    /\ ackm' = Discarded(ackm, INITIAL)
    /\ fate' = CallBack(fate, INITIAL, ackm.hist[INITIAL], "discarded")
    /\ UNCHANGED <<is_server, now, next_pn, restarts, undone>>

\* ossl_quic_channel_on_handshake_confirmed
OnHandshakeConfirmed ==
    LET m == Discarded(ackm, HANDSHAKE)
    IN  /\ ackm.discarded[INITIAL] /\ ~ackm.handshake_confirmed
        /\ next_pn[HANDSHAKE] > 0
        /\ ackm' = ackm_set_loss_detection_timer(
                       [m EXCEPT !.handshake_confirmed = TRUE,
                                 !.peer_completed = TRUE])
        /\ fate' = CallBack(fate, HANDSHAKE, ackm.hist[HANDSHAKE], "discarded")
        /\ UNCHANGED <<is_server, now, next_pn, restarts, undone>>

\* ossl_ackm_mark_packet_pseudo_lost by ch_restart (Version Negotiation, the
\* first Initial packet) or ch_retry (the first, or the second after a
\* restart): only the client, before any other packet of the server.
MarkPacketPseudoLost ==
    LET S == {p \in ackm.hist[INITIAL] : p.pn = restarts}
        m == [ackm EXCEPT !.hist[INITIAL] = @ \ S]
    IN  /\ ~is_server /\ restarts < MaxRestarts
        /\ ackm.largest_acked[INITIAL] = -1 /\ ~ackm.discarded[INITIAL]
        /\ S # {}
        /\ ackm' = ackm_on_pkts_lost(m, INITIAL, S, TRUE)
        /\ fate' = CallBack(fate, INITIAL, S, "lost")
        /\ undone' = undone + InflightBytes(S)
        /\ restarts' = restarts + 1
        /\ UNCHANGED <<is_server, now, next_pn>>

-----------------------------------------------------------------------------
Next ==
    \/ Tick
    \/ \E s \in Spaces, kind \in Kinds : TxPacket(s, kind)
    \/ \E s \in Spaces : \E S \in SUBSET (0..next_pn[s] - 1), d \in AckDelays :
          OnRxAckFrame(s, S, d)
    \/ OnTimeout
    \/ ServerDiscardsInitial
    \/ OnHandshakeConfirmed
    \/ MarkPacketPseudoLost

Spec == Init /\ [][Next]_vars

-----------------------------------------------------------------------------
\* Every packet sent is in the history or has had exactly one of on_acked,
\* on_lost and on_discarded called, whatever acknowledgements, timeouts and
\* discards overlap: the dispatcher frees the packet and releases or resends
\* its frames in the callback.
OneFate ==
    \A s \in Spaces : \A pn \in 0..next_pn[s] - 1 :
        Len(fate[s][pn]) = IF \E p \in ackm.hist[s] : p.pn = pn THEN 0 ELSE 1

\* The three counts of bytes in flight (the ACK manager's total, its ACK-
\* eliciting bytes per space and the congestion controller's) are the sums over
\* the packets in the histories; the controller alone still counts packets
\* declared lost for a restart, which it is not told about.
FlightAccounting ==
    LET inflight == Total([s \in Spaces |-> InflightBytes(ackm.hist[s])])
    IN  /\ ackm.bytes_in_flight = inflight
        /\ \A s \in Spaces :
              ackm.eliciting_bytes[s] = ElicitingBytes(ackm.hist[s])
        /\ ackm.cc.bytes_in_flight = inflight + undone

\* While an ACK-eliciting packet is unanswered, in a space a probe may be sent
\* in, the timer is armed; and when it is armed for nothing that is in flight,
\* the peer has not completed address validation (the assertions of
\* ossl_ackm_on_timeout and ackm_get_pto_time_and_space).
TimerArmed ==
    /\ (\E s \in Spaces : /\ ackm.eliciting_bytes[s] > 0
                          /\ s = APP => ackm.handshake_confirmed)
          => ackm.deadline \notin {0, Never}
    /\ (/\ ackm.deadline # 0
        /\ ackm.loss_time[LossSpace(ackm)] = 0
        /\ ackm_ack_eliciting_bytes_in_flight(ackm) = 0)
          => ~ackm.peer_completed

\* The congestion window is reduced at most once for the packets of one round
\* trip, however their losses are spread over acknowledgements and timeouts: a
\* step that reduces it declares a packet lost that was sent after the previous
\* reduction.  It never falls below the minimum window.
OneReductionPerRound ==
    [][/\ ackm'.cc.cong_wnd >= Min({k_min_wnd, InitWnd})
       /\ ackm'.cc.cong_wnd < ackm.cc.cong_wnd =>
             \E s \in Spaces : \E p \in ackm.hist[s] :
                 /\ p.time > ackm.cc.recovery_start
                 /\ fate[s][p.pn] = <<>> /\ fate'[s][p.pn] = <<"lost">>]_vars
==============================================================================
