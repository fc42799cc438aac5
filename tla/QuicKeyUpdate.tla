---------------------------- MODULE QuicKeyUpdate -----------------------------
(***************************************************************************)
(* Key updates of two endpoints that both run this code: the decisions of  *)
(* the channel (ssl/quic/quic_channel.c, quic_rx_depack.c) and the keys of *)
(* the record layer (quic_record_rx.c, quic_record_tx.c,                   *)
(* quic_record_shared.c).                                                  *)
(*                                                                         *)
(* A packet tells only the low bit of the epoch of its keys; the receiver  *)
(* has the keys of two epochs at most and must guess from its state which  *)
(* one the bit means.  Packets are lost, repeated and reordered, and they  *)
(* are decrypted in batches before the frames of the first are looked at.  *)
(* Timers (1 PTO for old keys, 3 PTO between updates) may have run out     *)
(* whenever they are armed: the endpoints' PTOs are not related.           *)
(*                                                                         *)
(* The handshake is confirmed on both sides, and each endpoint has seen an *)
(* acknowledgement of its first packet.  On its way an ACK frame is its    *)
(* largest packet number, which is all the receiver's decisions ask for;   *)
(* the sender asks whether the frame holds the packet that brought new     *)
(* keys, and a frame holds the last MaxAckRanges ranges of what was        *)
(* received.  That the receive history forgets what is below its watermark *)
(* is left out: the watermark passes that packet only after a frame that   *)
(* should have held it.  Failures to derive keys or to build a packet end  *)
(* the connection and are left out.                                        *)
(***************************************************************************)
EXTENDS Integers, Sequences, FiniteSets, FiniteSetsExt

CONSTANTS
    Ends,           \* The two endpoints
    MaxPackets,     \* Bound: packets that the endpoints send together
    MaxEpoch,       \* Bound: largest key epoch
    MaxBatch,       \* Bound: packets decrypted together
    MaxAckRanges    \* Ranges of an ACK frame: 3 in ackm_fill_rx_ack_ranges

ASSUME KeyUpdateAssumption ==
    /\ IsFiniteSet(Ends) /\ Cardinality(Ends) = 2
    /\ MaxPackets \in Nat /\ MaxEpoch \in Nat /\ MaxBatch \in Nat \ {0}
    /\ MaxAckRanges \in Nat \ {0}

VARIABLES
    ch,     \* The channel of each endpoint; its field omitted is history: an
            \* ACK frame sent while rxku_pending_confirm was set did not hold
            \* the packet with number rxku_trigger_pn
    net,    \* The packets of each endpoint that may still be received
    inits   \* Number of key updates that were not an answer to one

vars == <<ch, net, inits>>

Peer(e) == CHOOSE f \in Ends : f # e
NoAck == -1

KeyPhase(epoch) == epoch % 2

Init ==
    /\ ch = [e \in Ends |->
               [next_pn |-> 1, tx_epoch |-> 0, largest_acked |-> 0,
                txku_in_progress |-> FALSE, txku_pn |-> 0,
                ku_locally_initiated |-> FALSE, rxku_expected |-> FALSE,
                rx_epoch |-> 0, updating |-> FALSE, cur_epoch_start_pn |-> 0,
                rxku_in_progress |-> FALSE, rxku_pending_confirm |-> FALSE,
                rxku_trigger_pn |-> 0, received |-> {0}, want_ack |-> FALSE,
                error |-> "none", omitted |-> FALSE]]
    /\ net = [e \in Ends |-> {}]
    /\ inits = 0

(***************************************************************************)
(* TX key update (TXKU).  c stands for a channel.                          *)
(***************************************************************************)
ch_trigger_txku(c) ==
    [c EXCEPT !.tx_epoch = @ + 1,
              !.txku_in_progress = TRUE,
              !.txku_pn = c.next_pn,
              !.rxku_expected = c.ku_locally_initiated]

\* Mutant: any acknowledgement ends the key update.
InProgressAnyAck(c) == [c EXCEPT !.txku_in_progress = FALSE]

\* txku_in_progress() takes note of acknowledgements only when it is asked.
txku_in_progress(c) ==
    [c EXCEPT !.txku_in_progress = @ /\ c.largest_acked < c.txku_pn]

txku_allowed(c) == ~txku_in_progress(c).txku_in_progress

\* The 3 PTO since the acknowledgement may have passed or not.
txku_recommendable(c) ==
    txku_allowed(c) /\ ~c.rxku_in_progress /\ ~c.rxku_pending_confirm

Initiated(c) ==
    ch_trigger_txku([txku_in_progress(c) EXCEPT !.ku_locally_initiated = TRUE])

\* SSL_key_update
ossl_quic_channel_trigger_txku(e) ==
    /\ ch[e].error = "none"
    /\ txku_allowed(ch[e])
    /\ ch[e].tx_epoch < MaxEpoch
    /\ ch' = [ch EXCEPT ![e] = Initiated(@)]
    /\ inits' = inits + 1
    /\ UNCHANGED net

(***************************************************************************)
(* RX key update (RXKU)                                                    *)
(***************************************************************************)
\* All of them are KEY_UPDATE_ERROR; the reason phrase tells them apart.
raise_protocol_error(c, reason) == [c EXCEPT !.error = reason]

rxku_allowed(c) == ~c.rxku_pending_confirm

\* Mutant: a key update is answered even if it is itself an answer.
AnswerAlways(c, pn) ==
    IF ~rxku_allowed(c)
    THEN raise_protocol_error(c, "again too soon")
    ELSE ch_trigger_txku([c EXCEPT !.ku_locally_initiated = FALSE,
                                   !.rxku_in_progress = TRUE,
                                   !.rxku_pending_confirm = TRUE,
                                   !.omitted = FALSE,
                                   !.rxku_trigger_pn = pn,
                                   !.rxku_expected = FALSE,
                                   !.want_ack = TRUE])

rxku_detected(c, pn) ==
    LET d == [c EXCEPT !.ku_locally_initiated = FALSE,
                       !.rxku_in_progress = TRUE,
                       !.rxku_pending_confirm = TRUE,
                       !.omitted = FALSE,
                       !.rxku_trigger_pn = pn,
                       !.rxku_expected = FALSE,
                       !.want_ack = TRUE]
    IN  IF ~rxku_allowed(c) THEN raise_protocol_error(c, "again too soon")
        ELSE IF c.ku_locally_initiated THEN d
        ELSE ch_trigger_txku(d)

\* The epoch whose key is tried: in state NORMAL the other bit means the
\* next epoch, in state UPDATING the one before.
qrx_get_cipher_ctx_epoch(c, key_phase) ==
    IF key_phase = KeyPhase(c.rx_epoch) THEN c.rx_epoch
    ELSE IF c.updating THEN c.rx_epoch - 1
    ELSE c.rx_epoch + 1

\* A packet fails to decrypt with the key of another epoch.  Old keys are
\* not tried on packets after the one that brought the new ones.
Decrypts(c, p) ==
    LET epoch == qrx_get_cipher_ctx_epoch(c, KeyPhase(p.epoch))
    IN  /\ epoch = p.epoch
        /\ ~(epoch < c.rx_epoch /\ p.pn >= c.cur_epoch_start_pn)
        /\ p.pn \notin c.received

qrx_key_update_initiated(c, pn) ==
    IF c.updating
    THEN c
    ELSE rxku_detected([c EXCEPT !.rx_epoch = @ + 1, !.updating = TRUE,
                                 !.cur_epoch_start_pn = pn], pn)

\* The record layer's part of a packet; acc.pending are the packets that
\* decrypted.
qrx_process_pkt(acc, p) ==
    IF ~Decrypts(acc.c, p)
    THEN acc
    ELSE [c |-> IF KeyPhase(p.epoch) # KeyPhase(acc.c.rx_epoch)
                THEN qrx_key_update_initiated(acc.c, p.pn)
                ELSE acc.c,
          pending |-> Append(acc.pending, p)]

\* An acknowledgement of new keys must not come under old ones.
depack_do_frame_ack(c, p) ==
    IF p.ack = NoAck THEN c
    ELSE IF (p.epoch < c.rx_epoch \/ c.rxku_expected) /\ p.ack >= c.txku_pn
         THEN raise_protocol_error(c, "acked without update")
    ELSE [c EXCEPT !.largest_acked = IF p.ack > @ THEN p.ack ELSE @]

\* The channel's part of a packet: nothing is processed once the connection
\* is closing.
ch_rx_handle_packet(c, p) ==
    IF c.error # "none" THEN c
    ELSE IF /\ c.rxku_in_progress
            /\ p.pn >= c.rxku_trigger_pn
            /\ p.epoch < c.rx_epoch
         THEN raise_protocol_error(c, "old keys")
    ELSE [depack_do_frame_ack(c, p) EXCEPT !.received = @ \cup {p.pn}]

\* A packet that was received, or whose key is gone, would be ignored.
MayDecrypt(c, p) ==
    /\ p.pn \notin c.received
    /\ p.epoch >= (IF c.updating THEN c.rx_epoch - 1 ELSE c.rx_epoch)

\* What becomes of an endpoint and of the packets on their way to it.
Becomes(e, c) ==
    /\ ch' = [ch EXCEPT ![e] = c]
    /\ net' = [net EXCEPT ![Peer(e)] = {p \in @ : MayDecrypt(c, p)}]

\* All packets of a batch are decrypted,
ReadBatch(c, batch) ==
    LET read[i \in 0..Len(batch)] ==
          IF i = 0 THEN [c |-> c, pending |-> <<>>]
                   ELSE qrx_process_pkt(read[i - 1], batch[i])
    IN  read[Len(batch)]

\* then they are handled.
HandleBatch(c, pending) ==
    LET after[i \in 0..Len(pending)] ==
          IF i = 0 THEN c ELSE ch_rx_handle_packet(after[i - 1], pending[i])
    IN  after[Len(pending)]

Receive(e, batch) ==
    LET acc == ReadBatch(ch[e], batch)
    IN  /\ ch[e].error = "none"
        /\ acc.pending # <<>>
        /\ acc.c.tx_epoch <= MaxEpoch
        /\ Becomes(e, HandleBatch(acc.c, acc.pending))
        /\ UNCHANGED inits

Batches(e) == UNION {[1..n -> net[Peer(e)]] : n \in 0..MaxBatch}

\* The old keys are given up, and those of the next epoch derived.
ch_rxku_tick(e) ==
    /\ ch[e].error = "none"
    /\ ch[e].rxku_in_progress
    /\ Becomes(e, [ch[e] EXCEPT !.rxku_in_progress = FALSE, !.updating = FALSE])
    /\ UNCHANGED inits

(***************************************************************************)
(* A packet is sent, after a key update if it is time for one.  An ACK     *)
(* frame that holds the packet that brought new keys confirms them.        *)
(***************************************************************************)

\* The packet numbers with fewer than MaxAckRanges ranges above their own.
ackm_fill_rx_ack_ranges(received) ==
    {x \in received :
       Cardinality({y \in received : y > x /\ y - 1 \notin received})
         < MaxAckRanges}

\* Mutant: the confirmation is forgotten.
AckTxForgotten(c, with_ack) == c

ch_on_txp_ack_tx(c, with_ack) ==
    LET holds == c.rxku_trigger_pn \in ackm_fill_rx_ack_ranges(c.received)
    IN  [c EXCEPT !.rxku_pending_confirm = @ /\ ~(with_ack /\ holds),
                  !.omitted = @ \/ (/\ c.rxku_pending_confirm
                                    /\ with_ack /\ ~holds)]

ch_tx(e, update, with_ack) ==
    LET c == IF update THEN Initiated(ch[e]) ELSE txku_in_progress(ch[e])
        p == [pn |-> c.next_pn, epoch |-> c.tx_epoch,
              ack |-> IF with_ack THEN Max(c.received) ELSE NoAck]
    IN  /\ c.error = "none"
        /\ update => txku_recommendable(ch[e])
        /\ c.want_ack => with_ack
        /\ c.next_pn + ch[Peer(e)].next_pn < MaxPackets + 2
        /\ c.tx_epoch <= MaxEpoch
        /\ net' = [net EXCEPT ![e] = @ \cup {p}]
        /\ ch' = [ch EXCEPT ![e] =
                    [ch_on_txp_ack_tx(c, with_ack) EXCEPT
                       !.next_pn = @ + 1, !.want_ack = @ /\ ~with_ack]]
        /\ inits' = inits + (IF update THEN 1 ELSE 0)

Next ==
    \E e \in Ends :
        \/ ossl_quic_channel_trigger_txku(e)
        \/ \E batch \in Batches(e) : Receive(e, batch)
        \/ ch_rxku_tick(e)
        \/ \E update, with_ack \in BOOLEAN : ch_tx(e, update, with_ack)

Spec == Init /\ [][Next]_vars

-----------------------------------------------------------------------------
(***************************************************************************)
(* Properties                                                              *)
(***************************************************************************)

\* Whatever is lost, repeated or late, and whichever timer runs out first, an
\* endpoint closes the connection with KEY_UPDATE_ERROR for one reason only:
\* an ACK frame that it sent left out the packet that brought its peer's last
\* keys, and new keys came before a frame that holds it.
ErrorOnlyAfterOmission ==
    \A e \in Ends :
        ch[e].error # "none" => ch[e].error = "again too soon" /\ ch[e].omitted

\* What the checks of rxku_allowed and depack_do_frame_ack take for granted:
\* two endpoints that keep to RFC 9001 never meet KEY_UPDATE_ERROR.  (It
\* fails: a peer whose packets are acknowledged has awaited confirmation, but
\* the frame may not hold the one packet that rxku_pending_confirm waits for.)
NoKeyUpdateError == \A e \in Ends : ch[e].error = "none"

\* The keys in use are never more than one epoch ahead of those the peer
\* can receive, and never behind: the key phase bit stays unambiguous.
EpochsTrack ==
    \A e \in Ends :
        ch[Peer(e)].rx_epoch \in {ch[e].tx_epoch - 1, ch[e].tx_epoch}

\* An answer to a key update is not answered in turn: endpoints go through
\* no more epochs than key updates were asked for or became due.
NoPingPong == \A e \in Ends : ch[e].tx_epoch <= inits
===============================================================================
