------------------------------- MODULE QuicFC --------------------------------
(***************************************************************************)
(* QUIC flow control (ssl/quic/quic_fc.c) as the rest of the stack drives  *)
(* it: the TX packetiser of one endpoint spends credit, the depacketiser   *)
(* of the other endpoint counts what arrives, its application retires it,  *)
(* and MAX_DATA / MAX_STREAM_DATA frames carry new credit back.            *)
(*                                                                         *)
(* Data flows from one sender to one receiver, on streams 1..N.  Every     *)
(* stream controller has the connection controller, number 0, as parent.   *)
(* STREAM frames are not kept in a network variable: a lossy network that  *)
(* duplicates and reorders can deliver, at any time, any range of bytes    *)
(* that was ever sent, so a frame may arrive iff its end is at most the    *)
(* sender's spent watermark.  Credit frames carry values, so the values    *)
(* in flight are kept.  Flow control only sees the end of a frame, so      *)
(* which bytes below it have arrived is left out; the clock is left out    *)
(* too: whether a window grows depends on it and is a free choice.         *)
(***************************************************************************)
EXTENDS Naturals

CONSTANTS
    N,              \* Number of streams
    ConnWnd,        \* Initial window of the connection (initial_max_data)
    StreamWnd,      \* Initial window of each stream
    ConnMaxWnd,     \* Largest window of the connection
    StreamMaxWnd,   \* Largest window of a stream
    MaxSize,        \* Bound: bytes the application writes to a stream
    MaxLosses       \* Bound: credit frames declared lost

ASSUME ConstantsAssumption ==
    /\ N \in Nat \ {0}
    /\ ConnWnd \in Nat /\ StreamWnd \in Nat
    /\ ConnMaxWnd \in Nat /\ StreamMaxWnd \in Nat
    /\ MaxSize \in Nat /\ MaxLosses \in Nat

VARIABLES
    tx,             \* tx[c]: the sender's QUIC_TXFC c
    rx,             \* rx[c]: the receiver's QUIC_RXFC c
    got_tp,         \* The sender has the receiver's transport parameters
    plan,           \* txp_txfc_new_credit_consumed of each stream
    consumed,       \* conn_consumed of the packet under construction
    committing,     \* The packet under construction is being committed
    tx_fin,         \* The sender has sent FIN on the stream
    tx_reset,       \* The sender has sent RESET_STREAM on the stream
    rx_aborted,     \* The receiver has seen RESET_STREAM on the stream
    want,           \* want_max_data, want_max_stream_data
    adv,            \* MAX_DATA and MAX_STREAM_DATA frames in flight
    terminated,     \* The receiver has raised a protocol error
    losses          \* Number of credit frames declared lost

sender == <<tx, got_tp, plan, consumed, committing, tx_fin, tx_reset>>
receiver == <<rx, rx_aborted, want, terminated>>
vars == <<sender, receiver, adv, losses>>

Conn == 0
Streams == 1..N
Ctl == 0..N

NO_ERROR == 0
FLOW_CONTROL_ERROR == 3
FINAL_SIZE_ERROR == 6

QUIC_TXFC == [swm : Nat, cwm : Nat]
QUIC_RXFC == [swm : Nat, cwm : Nat, rwm : Nat, esrwm : Nat, hwm : Nat,
              cur_window_size : Nat, has_cwm_changed : BOOLEAN,
              is_fin : BOOLEAN,
              error_code : {NO_ERROR, FLOW_CONTROL_ERROR, FINAL_SIZE_ERROR}]
CreditFrame == [ctl : Ctl, cwm : Nat]

InitWnd(c) == IF c = Conn THEN ConnWnd ELSE StreamWnd
MaxWnd(c) == IF c = Conn THEN ConnMaxWnd ELSE StreamMaxWnd

Lesser(a, b) == IF a <= b THEN a ELSE b
Greater(a, b) == IF a >= b THEN a ELSE b

(***************************************************************************)
(* TX flow controller                                                      *)
(***************************************************************************)
ossl_quic_txfc_init == [swm |-> 0, cwm |-> 0]

\* Mutant: a credit frame overtaken by a newer one takes credit back.
BumpBackwards(f, cwm) == [f EXCEPT !.cwm = cwm]

ossl_quic_txfc_bump_cwm(f, cwm) ==
    IF cwm <= f.cwm THEN f ELSE [f EXCEPT !.cwm = cwm]

ossl_quic_txfc_get_credit_local(f, used) == f.cwm - (used + f.swm)

\* Mutant: credit planned for other streams of the same packet is ignored.
CreditIgnoresPlanned(s, used) ==
    Lesser(ossl_quic_txfc_get_credit_local(tx[s], 0),
           ossl_quic_txfc_get_credit_local(tx[Conn], 0))

ossl_quic_txfc_get_credit(s, used) ==
    Lesser(ossl_quic_txfc_get_credit_local(tx[s], 0),
           ossl_quic_txfc_get_credit_local(tx[Conn], used))

ossl_quic_txfc_consume_credit_local(f, n) ==
    [f EXCEPT !.swm = @ + Lesser(n, ossl_quic_txfc_get_credit_local(f, 0))]

\* Mutant: the connection-level controller is not told.
ConsumeStreamOnly(s, n) ==
    tx' = [tx EXCEPT ![s] = ossl_quic_txfc_consume_credit_local(@, n)]

ossl_quic_txfc_consume_credit(s, n) ==
    tx' = [tx EXCEPT ![s] = ossl_quic_txfc_consume_credit_local(@, n),
                     ![Conn] = ossl_quic_txfc_consume_credit_local(@, n)]

(***************************************************************************)
(* RX flow controller                                                      *)
(***************************************************************************)
ossl_quic_rxfc_init(c) ==
    [swm |-> 0, cwm |-> InitWnd(c), rwm |-> 0, esrwm |-> 0, hwm |-> 0,
     cur_window_size |-> InitWnd(c), has_cwm_changed |-> FALSE,
     is_fin |-> FALSE, error_code |-> NO_ERROR]

on_rx_controlled_bytes(f, n) ==
    IF n > f.cwm - f.swm
    THEN [f EXCEPT !.swm = f.cwm, !.error_code = FLOW_CONTROL_ERROR]
    ELSE [f EXCEPT !.swm = @ + n]

\* The stream has a final size that a frame with this end contradicts.
SizeChanged(f, end, is_fin) ==
    f.is_fin /\ (end > f.hwm \/ (is_fin /\ end # f.hwm))

\* Mutant: bytes below the high watermark are counted again.
RxCountsDuplicates(s, end, is_fin) ==
    rx' = [rx EXCEPT ![s] = on_rx_controlled_bytes(
                                [@ EXCEPT !.hwm = Greater(@, end),
                                          !.is_fin = @ \/ is_fin], end),
                     ![Conn] = on_rx_controlled_bytes(@, end)]

\* Effect of ossl_quic_rxfc_on_rx_stream_frame on the stream controller and
\* its parent.
ossl_quic_rxfc_on_rx_stream_frame(s, end, is_fin) ==
    LET f == rx[s]
        g == [f EXCEPT !.is_fin = @ \/ is_fin]
    IN  CASE SizeChanged(f, end, is_fin) ->
               rx' = [rx EXCEPT ![s].error_code = FINAL_SIZE_ERROR]
          [] ~SizeChanged(f, end, is_fin) /\ end > f.hwm ->
               rx' = [rx EXCEPT
                        ![s] = on_rx_controlled_bytes([g EXCEPT !.hwm = end],
                                                      end - f.hwm),
                        ![Conn] = on_rx_controlled_bytes(@, end - f.hwm)]
          [] OTHER ->
               rx' = [rx EXCEPT
                        ![s] = IF end < f.hwm /\ is_fin
                               THEN [g EXCEPT !.error_code = FINAL_SIZE_ERROR]
                               ELSE g]

rxfc_cwm_bump_desired(f) ==
    ~f.is_fin /\ f.cwm - f.rwm <= (f.cur_window_size * 3) \div 4

\* Mutant: the maximum window size does not take precedence.
AdjustUnbounded(f, min_window_size, max_window_size, grow) ==
    [f EXCEPT !.cur_window_size =
                  Greater(IF grow /\ f.rwm # f.esrwm THEN 2 * @ ELSE @,
                          min_window_size),
              !.esrwm = f.rwm]

\* grow: by the clock, the whole window would last less than 4 RTTs.
rxfc_adjust_window_size(f, min_window_size, max_window_size, grow) ==
    [f EXCEPT !.cur_window_size =
                  Lesser(Greater(IF grow /\ f.rwm # f.esrwm THEN 2 * @ ELSE @,
                                 min_window_size),
                         max_window_size),
              !.esrwm = f.rwm]

rxfc_update_cwm(f, min_window_size, max_window_size, grow) ==
    LET g == rxfc_adjust_window_size(f, min_window_size, max_window_size, grow)
    IN  IF ~rxfc_cwm_bump_desired(f)
        THEN f
        ELSE IF g.rwm + g.cur_window_size > g.cwm
             THEN [g EXCEPT !.cwm = g.rwm + g.cur_window_size,
                            !.has_cwm_changed = TRUE]
             ELSE g

rxfc_on_retire(f, n, min_window_size, max_window_size, grow) ==
    rxfc_update_cwm([f EXCEPT !.rwm = @ + n],
                    min_window_size, max_window_size, grow)

\* The connection's window grows to at least that of the stream just read.
ossl_quic_rxfc_on_retire(s, n, grow, conn_grow) ==
    LET f == rxfc_on_retire(rx[s], n, 0, StreamMaxWnd, grow)
    IN  IF rx[s].rwm + n > rx[s].swm
        THEN UNCHANGED rx
        ELSE rx' = [rx EXCEPT ![s] = f,
                              ![Conn] = rxfc_on_retire(@, n, f.cur_window_size,
                                                       ConnMaxWnd, conn_grow)]

-----------------------------------------------------------------------------
Init ==
    /\ tx = [c \in Ctl |-> ossl_quic_txfc_init]
    /\ rx = [c \in Ctl |-> ossl_quic_rxfc_init(c)]
    /\ got_tp = FALSE
    /\ plan = [s \in Streams |-> 0]
    /\ consumed = 0
    /\ committing = FALSE
    /\ tx_fin = [s \in Streams |-> FALSE]
    /\ tx_reset = [s \in Streams |-> FALSE]
    /\ rx_aborted = [s \in Streams |-> FALSE]
    /\ want = [c \in Ctl |-> FALSE]
    /\ adv = {}
    /\ terminated = FALSE
    /\ losses = 0

(***************************************************************************)
(* The sender.  The TX packetiser visits the streams one after the other   *)
(* and commits the packet at the end; nothing else happens at the sender   *)
(* in between.                                                             *)
(***************************************************************************)
NoPacket == \A s \in Streams : plan[s] = 0

\* The transport parameters give every controller its initial credit.
OnTransportParams ==
    /\ NoPacket
    /\ ~got_tp
    /\ got_tp' = TRUE
    /\ tx' = [c \in Ctl |-> ossl_quic_txfc_bump_cwm(tx[c], InitWnd(c))]
    /\ UNCHANGED <<plan, consumed, committing, tx_fin, tx_reset, receiver,
                   adv, losses>>

\* STREAM frames of one stream: n bytes are new, the rest, if any, were sent
\* before and cost nothing.
GenerateStreamFrames(s, n) ==
    /\ ~committing
    /\ plan[s] = 0
    /\ ~tx_fin[s] /\ ~tx_reset[s]
    /\ n <= ossl_quic_txfc_get_credit(s, consumed)
    /\ tx[s].swm + n <= MaxSize
    /\ plan' = [plan EXCEPT ![s] = n]
    /\ consumed' = consumed + n
    /\ UNCHANGED <<tx, got_tp, committing, tx_fin, tx_reset, receiver, adv,
                   losses>>

CommitStream(s) ==
    /\ plan[s] > 0
    /\ ossl_quic_txfc_consume_credit(s, plan[s])
    /\ plan' = [plan EXCEPT ![s] = 0]
    /\ committing' = \E t \in Streams : plan'[t] > 0
    /\ consumed' = IF committing' THEN consumed ELSE 0
    /\ UNCHANGED <<got_tp, tx_fin, tx_reset, receiver, adv, losses>>

\* A FIN is sent with, or after, the last byte.
SendFin(s) ==
    /\ NoPacket
    /\ ~tx_fin[s] /\ ~tx_reset[s]
    /\ tx_fin' = [tx_fin EXCEPT ![s] = TRUE]
    /\ UNCHANGED <<tx, got_tp, plan, consumed, committing, tx_reset, receiver,
                   adv, losses>>

\* The application resets the stream, or the peer asked to stop sending.
\* The final size in RESET_STREAM is the spent watermark.
ResetStream(s) ==
    /\ NoPacket
    /\ ~tx_reset[s]
    /\ tx_reset' = [tx_reset EXCEPT ![s] = TRUE]
    /\ UNCHANGED <<tx, got_tp, plan, consumed, committing, tx_fin, receiver,
                   adv, losses>>

\* MAX_DATA or MAX_STREAM_DATA arrives, possibly late or twice.
RxMaxData(m) ==
    /\ NoPacket
    /\ m \in adv
    /\ tx' = [tx EXCEPT ![m.ctl] = ossl_quic_txfc_bump_cwm(@, m.cwm)]
    /\ UNCHANGED <<got_tp, plan, consumed, committing, tx_fin, tx_reset,
                   receiver, adv, losses>>

(***************************************************************************)
(* The receiver                                                            *)
(***************************************************************************)

\* A STREAM or RESET_STREAM frame is counted; only the stream controller's
\* error code is looked at.
Count(s, end, is_fin) ==
    /\ ~terminated
    /\ ossl_quic_rxfc_on_rx_stream_frame(s, end, is_fin)
    /\ terminated' = (rx'[s].error_code # NO_ERROR)

RxStreamFrame(s, end, is_fin) ==
    /\ end <= tx[s].swm
    /\ is_fin => tx_fin[s] /\ end = tx[s].swm
    /\ Count(s, end, is_fin)
    /\ UNCHANGED <<sender, rx_aborted, want, adv, losses>>

RxResetStream(s) ==
    /\ tx_reset[s]
    /\ Count(s, tx[s].swm, TRUE)
    /\ rx_aborted' = [rx_aborted EXCEPT ![s] = ~terminated']
    /\ UNCHANGED <<sender, want, adv, losses>>

\* The application reads n bytes.
Read(s, n, grow, conn_grow) ==
    /\ ~terminated /\ ~rx_aborted[s]
    /\ n > 0 /\ rx[s].rwm + n <= rx[s].hwm
    /\ ossl_quic_rxfc_on_retire(s, n, grow, conn_grow)
    /\ UNCHANGED <<sender, rx_aborted, want, terminated, adv, losses>>

\* The receiver's packetiser sends MAX_DATA, or MAX_STREAM_DATA for a stream
\* in state RECV.
TxMaxData(c) ==
    /\ ~terminated
    /\ want[c] \/ rx[c].has_cwm_changed
    /\ c \in Streams => ~rx[c].is_fin
    /\ adv' = adv \cup {[ctl |-> c, cwm |-> rx[c].cwm]}
    /\ want' = [want EXCEPT ![c] = FALSE]
    /\ rx' = [rx EXCEPT ![c].has_cwm_changed = FALSE]
    /\ UNCHANGED <<sender, rx_aborted, terminated, losses>>

\* A credit frame is declared lost; it may still arrive if it was only late.
\* MAX_DATA is regenerated with the value current then.  MAX_STREAM_DATA is
\* regenerated only if its packet has a chunk of the same stream as well,
\* that is, if data, a STOP_SENDING or a RESET_STREAM of the receiver went
\* with it: a flow control frame is not recorded in the packet by itself.
LoseMaxData(m, chunk) ==
    /\ losses < MaxLosses /\ losses' = losses + 1
    /\ m \in adv
    /\ adv' \in {adv, adv \ {m}}
    /\ want' = IF m.ctl = Conn \/ chunk
               THEN [want EXCEPT ![m.ctl] = TRUE]
               ELSE want
    /\ UNCHANGED <<sender, rx, rx_aborted, terminated>>

-----------------------------------------------------------------------------
SenderNext ==
    \/ OnTransportParams
    \/ \E s \in Streams :
         \/ \E n \in 1..MaxSize : GenerateStreamFrames(s, n)
         \/ CommitStream(s)
         \/ SendFin(s)
    \/ \E m \in adv : RxMaxData(m)

ReceiverNext ==
    \/ \E s \in Streams :
         \/ \E end \in 0..MaxSize, is_fin \in BOOLEAN :
              RxStreamFrame(s, end, is_fin)
         \/ \E n \in 1..MaxSize, grow, conn_grow \in BOOLEAN :
              Read(s, n, grow, conn_grow)
    \/ \E c \in Ctl : TxMaxData(c)
    \/ \E m \in adv, chunk \in BOOLEAN : LoseMaxData(m, chunk)

Resets == \E s \in Streams : ResetStream(s) \/ RxResetStream(s)

Next == SenderNext \/ ReceiverNext \/ Resets

Spec == Init /\ [][Next]_vars

(***************************************************************************)
(* Liveness.  Weak fairness of the sender's and receiver's own steps: the  *)
(* event loop calls them as long as they have something to do.  Weak       *)
(* fairness of the arrival of the newest bytes stands for retransmission   *)
(* of what is lost; that of Read for an application that keeps reading.    *)
(* Nothing forces a credit frame to arrive: it arrives or is lost, and the *)
(* number of losses is bounded.  Streams are not reset.                    *)
(***************************************************************************)
Fairness ==
    /\ WF_vars(OnTransportParams)
    /\ WF_vars(\E m \in adv : RxMaxData(m))
    /\ \A s \in Streams :
         /\ WF_vars(\E n \in 1..MaxSize : GenerateStreamFrames(s, n))
         /\ WF_vars(CommitStream(s))
         /\ WF_vars(RxStreamFrame(s, tx[s].swm, tx_fin[s]))
         /\ WF_vars(\E n \in 1..MaxSize, grow, conn_grow \in BOOLEAN :
                      Read(s, n, grow, conn_grow))
    /\ \A c \in Ctl : WF_vars(TxMaxData(c))

FairSpec == Init /\ [][SenderNext \/ ReceiverNext]_vars /\ Fairness

-----------------------------------------------------------------------------
(***************************************************************************)
(* Properties                                                              *)
(***************************************************************************)
TypeOK ==
    /\ tx \in [Ctl -> QUIC_TXFC]
    /\ rx \in [Ctl -> QUIC_RXFC]
    /\ got_tp \in BOOLEAN
    /\ plan \in [Streams -> Nat]
    /\ consumed \in Nat
    /\ committing \in BOOLEAN
    /\ tx_fin \in [Streams -> BOOLEAN]
    /\ tx_reset \in [Streams -> BOOLEAN]
    /\ rx_aborted \in [Streams -> BOOLEAN]
    /\ want \in [Ctl -> BOOLEAN]
    /\ \A m \in adv : m \in CreditFrame
    /\ terminated \in BOOLEAN
    /\ losses \in Nat

\* total is the sum of f over the streams: P holds the partial sums.
SumIs(f, total) ==
    \E P \in [0..N -> 0..total] :
        /\ P[0] = 0
        /\ P[N] = total
        /\ \A n \in 1..N : P[n] = P[n - 1] + f[n]
        /\ \A m \in 0..N, n \in 0..N : m <= n => P[m] <= P[n]

\* A sender that goes by its TXFCs never makes the receiver see a flow
\* control or final size error, at the stream or at the connection level,
\* however frames are lost, reordered, duplicated and retransmitted, and
\* whether streams end by FIN, by RESET_STREAM or by both.
NoFlowControlError == ~terminated /\ \A c \in Ctl : rx[c].error_code = NO_ERROR

\* The assertion in ossl_quic_txfc_get_credit_local, for the connection with
\* what other streams of the same packet are about to consume: credit never
\* underflows.
CreditNeverNegative ==
    /\ \A s \in Streams : tx[s].swm + plan[s] <= tx[s].cwm
    /\ ~committing => tx[Conn].swm + consumed <= tx[Conn].cwm

\* The sender never believes to have more credit than the receiver gave.
CreditWasGranted == \A c \in Ctl : tx[c].cwm <= rx[c].cwm

\* A byte counts once at the connection level however often it is sent or
\* received, and is retired at both levels or at none: the connection's
\* watermarks are the sums of its streams'.
ConnectionCountsStreams ==
    /\ SumIs([s \in Streams |-> tx[s].swm], tx[Conn].swm)
    /\ SumIs([s \in Streams |-> rx[s].swm], rx[Conn].swm)
    /\ SumIs([s \in Streams |-> rx[s].rwm], rx[Conn].rwm)

\* The receiver never has to buffer more than the largest window: what it
\* has promised beyond what was read stays within it.
PromiseBounded ==
    \A c \in Ctl : /\ rx[c].rwm <= rx[c].swm
                   /\ rx[c].swm <= rx[c].cwm
                   /\ rx[c].cwm - rx[c].rwm <= Greater(InitWnd(c), MaxWnd(c))

\* No step takes credit back or uncounts bytes, although windows shrink and
\* credit frames arrive out of order.
WatermarksNeverDecrease ==
    [][\A c \in Ctl : /\ tx'[c].swm >= tx[c].swm /\ tx'[c].cwm >= tx[c].cwm
                      /\ rx'[c].swm >= rx[c].swm /\ rx'[c].cwm >= rx[c].cwm
                      /\ rx'[c].rwm >= rx[c].rwm]_vars

\* Flow control never stalls a connection whose application keeps reading:
\* every stream is finished or sends all its bytes, although credit frames
\* are lost and the streams share the connection's credit.
EverythingIsSent ==
    \A s \in Streams : <>(tx_fin[s] \/ tx[s].swm = MaxSize)

==============================================================================
