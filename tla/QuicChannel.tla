----------------------------- MODULE QuicChannel ------------------------------
(***************************************************************************)
(* The life cycle of a connection between a client and a server that both  *)
(* run this code: ssl/quic/quic_channel.c, SSL_shutdown of quic_impl.c,    *)
(* the CONNECTION_CLOSE of quic_txp.c and the call that                    *)
(* quic_stream_map.c makes when the last stream has been flushed.          *)
(*                                                                         *)
(* Local close, the peer's close, a stateless reset, protocol and network  *)
(* errors, the idle timeout and the terminating timer race to end the      *)
(* connection; each decides what the application and the peer are told.    *)
(* The network loses, repeats and reorders packets.                        *)
(*                                                                         *)
(* A packet is its kind: "hs" for whatever the handshake sends (and for    *)
(* PINGs), "data" for STREAM frames, "ack" for an acknowledgement of them, *)
(* "close" for a CONNECTION_CLOSE.  Each end has at most one stream with   *)
(* data that the peer has not acknowledged.  An error code is a name; a    *)
(* reason phrase is there or not.  Failures to allocate are left out.      *)
(***************************************************************************)
EXTENDS Naturals, Sequences

CONSTANTS
    Client, Server,     \* The two endpoints
    AppCodes,           \* Error codes the applications close with
    Writers,            \* The endpoints that have a stream to write to
    MaxBatch,           \* Bound: packets handled in one tick
    MaxEvents           \* Bound: calls of SSL_shutdown, errors, stateless resets,
                        \* idle timeouts while the peer is still there

ASSUME ChannelAssumption ==
    /\ Client # Server /\ Writers \subseteq {Client, Server}
    /\ MaxBatch \in Nat /\ MaxEvents \in Nat

Ends == {Client, Server}
Peer(e) == IF e = Client THEN Server ELSE Client

VARIABLES
    ch,     \* The channel and the connection object of each endpoint
    net,    \* The packets each endpoint has sent so far
    events  \* Number of calls, errors and resets so far

vars == <<ch, net, events>>

Event == events < MaxEvents /\ events' = events + 1

Cause(app, code, remote, reason) ==
    [app |-> app, code |-> code, remote |-> remote, reason |-> reason]

NoCause == Cause(FALSE, "NO_ERROR", FALSE, FALSE)
ProtocolError == Cause(FALSE, "PROTOCOL_ERROR", FALSE, TRUE)
NetError == Cause(FALSE, "INTERNAL_ERROR", FALSE, TRUE)
VersionError == Cause(FALSE, "CONNECTION_REFUSED", FALSE, TRUE)
ResetCause == Cause(FALSE, "NO_ERROR", TRUE, FALSE)

NoArgs == [code |-> "none", reason |-> FALSE]
Args == [code : AppCodes, reason : BOOLEAN] \cup {NoArgs}
AppCause(args) ==
    IF args = NoArgs THEN Cause(TRUE, "NO_ERROR", FALSE, FALSE)
                     ELSE Cause(TRUE, args.code, FALSE, args.reason)

Packet(k) == [kind |-> k, cause |-> NoCause]

Init ==
    /\ ch = [e \in Ends |->
               [state |-> "IDLE", cause |-> NoCause, protocol_error |-> FALSE,
                net_error |-> FALSE, have_sent_any_pkt |-> FALSE,
                conn_close_queued |-> FALSE, want_conn_close |-> FALSE,
                conn_close_frame |-> NoCause, shutting_down |-> FALSE,
                stream |-> "none", shutdown_flush |-> FALSE,
                handshake |-> 0, want_ack |-> FALSE,
                was_reset |-> FALSE, peer_closed |-> FALSE, hurried |-> FALSE]]
    /\ net = [e \in Ends |-> {}]
    /\ events = 0

is_terminating(c) == c.state \in {"CLOSING", "DRAINING"}
is_terminated(c) == c.state = "TERMINATED"
is_term_any(c) == is_terminating(c) \/ is_terminated(c)

(***************************************************************************)
(* Termination.  c stands for a channel.                                   *)
(***************************************************************************)

\* Mutant: only the reason itself is not overridden.
CopyPartly(c, cause) ==
    [c EXCEPT !.cause = [cause EXCEPT !.reason = @ \/ c.cause.reason]]

copy_tcause(c, cause) ==
    IF c.cause.reason THEN c ELSE [c EXCEPT !.cause = cause]

schedule_conn_close(c) ==
    IF c.want_conn_close
    THEN c
    ELSE [c EXCEPT !.want_conn_close = TRUE, !.conn_close_frame = c.cause]

\* Asks for no state: the stream map calls this whenever its last stream
\* has been flushed or reset.
notify_flush_done(c) ==
    IF c.cause.remote
    THEN [c EXCEPT !.state = "DRAINING"]
    ELSE [schedule_conn_close(c) EXCEPT !.state = "CLOSING",
                                        !.conn_close_queued = TRUE]

ch_on_terminating_timeout(c) == [c EXCEPT !.state = "TERMINATED"]

ch_start_terminating(c, cause, force) ==
    LET force_immediate == force \/ ~c.have_sent_any_pkt
    IN  CASE c.state = "IDLE" ->
               ch_on_terminating_timeout(copy_tcause(c, cause))
          [] c.state = "ACTIVE" ->
               IF force_immediate
               THEN ch_on_terminating_timeout(copy_tcause(c, cause))
               ELSE notify_flush_done(copy_tcause(c, cause))
          [] is_terminating(c) /\ force_immediate ->
               ch_on_terminating_timeout(c)
          [] c.state = "CLOSING" /\ ~force_immediate /\ cause.remote ->
               [c EXCEPT !.state = "DRAINING"]
          [] OTHER -> c

raise_protocol_error(c) ==
    IF c.protocol_error
    THEN c
    ELSE ch_start_terminating([c EXCEPT !.protocol_error = TRUE],
                              ProtocolError, FALSE)

on_remote_conn_close(c, frame) ==
    ch_start_terminating([c EXCEPT !.peer_closed = TRUE],
                         [frame EXCEPT !.remote = TRUE], FALSE)

local_close(c, args) ==
    IF is_term_any(c) THEN c ELSE ch_start_terminating(c, AppCause(args), FALSE)

set_tcause(c, args) ==
    IF args = NoArgs THEN c ELSE copy_tcause(c, AppCause(args))

\* Mutant: the channel is not told that the streams have been flushed.
StreamDoneQuiet(c) ==
    [c EXCEPT !.stream = "done", !.shutdown_flush = FALSE]

\* The stream with unacknowledged data was acknowledged, or reset.
StreamDone(c) ==
    LET d == [c EXCEPT !.stream = "done", !.shutdown_flush = FALSE]
    IN  IF c.shutdown_flush THEN notify_flush_done(d) ELSE d

(***************************************************************************)
(* The application                                                         *)
(***************************************************************************)
ossl_quic_channel_start ==
    /\ ch[Client].state = "IDLE"
    /\ ch' = [ch EXCEPT ![Client].state = "ACTIVE"]
    /\ UNCHANGED <<net, events>>

\* The port makes a channel for the first packet of a client.
ossl_quic_channel_on_new_conn ==
    /\ ch[Server].state = "IDLE"
    /\ Packet("hs") \in net[Client]
    /\ ch' = [ch EXCEPT ![Server].state = "ACTIVE"]
    /\ UNCHANGED <<net, events>>

Write(e) ==
    /\ e \in Writers
    /\ ch[e].state = "ACTIVE" /\ ~ch[e].shutting_down
    /\ ch[e].stream = "none" /\ ch[e].handshake >= 1
    /\ ch' = [ch EXCEPT ![e].stream = "unacked"]
    /\ UNCHANGED <<net, events>>

\* SSL_free of a stream, in any state of the connection.
Free(e) ==
    /\ ch[e].stream = "unacked"
    /\ ch' = [ch EXCEPT ![e] = StreamDone(@)]
    /\ UNCHANGED <<net, events>>

qc_shutdown_flush_init(c) ==
    IF c.shutting_down
    THEN c
    ELSE [c EXCEPT !.shutdown_flush = (c.stream = "unacked"),
                   !.shutting_down = TRUE]

\* Mutant: the connection is closed while the streams are flushed.
ShutdownNoWait(c, args, stream_flush, wait_peer) ==
    LET c1 == IF wait_peer THEN c ELSE set_tcause(c, args)
        c2 == IF ~wait_peer /\ stream_flush
              THEN qc_shutdown_flush_init(c1) ELSE c1
    IN  IF wait_peer /\ ~is_term_any(c2)
        THEN c2
        ELSE local_close([c2 EXCEPT !.shutting_down = TRUE], args)

\* One pass of SSL_shutdown.  A call that blocks is passes with ticks
\* between them.
ShutdownPass(c, args, stream_flush, wait_peer) ==
    LET c1 == IF wait_peer THEN c ELSE set_tcause(c, args)
        c2 == IF ~wait_peer /\ stream_flush
              THEN qc_shutdown_flush_init(c1) ELSE c1
        ongoing == \/ ~wait_peer /\ stream_flush /\ c2.shutdown_flush
                   \/ wait_peer /\ ~is_term_any(c2)
    IN  IF ongoing
        THEN c2
        ELSE local_close([c2 EXCEPT !.shutting_down = TRUE], args)

ossl_quic_conn_shutdown(e, args, stream_flush, wait_peer) ==
    LET c == [ch[e] EXCEPT !.hurried = @ \/ ~stream_flush]
    IN  /\ ~is_terminated(ch[e])
        /\ ch' = [ch EXCEPT ![e] = ShutdownPass(c, args, stream_flush, wait_peer)]
        /\ Event /\ UNCHANGED net

(***************************************************************************)
(* The tick                                                                *)
(***************************************************************************)
ch_rx_handle_packet(c, p) ==
    IF c.state # "ACTIVE" THEN c ELSE
      CASE p.kind = "hs"     -> [c EXCEPT !.handshake = IF @ < 2 THEN @ + 1 ELSE 2]
        [] p.kind = "data"   -> [c EXCEPT !.want_ack = TRUE]
        [] p.kind = "ack"    -> IF c.stream = "unacked" THEN StreamDone(c) ELSE c
        [] p.kind = "close"  -> on_remote_conn_close(c, p.cause)

\* A client that has sent nothing does not look for packets.
ch_rx(e, c, pkts) ==
    LET after[i \in 0..Len(pkts)] ==
          IF i = 0 THEN c ELSE ch_rx_handle_packet(after[i - 1], pkts[i])
        d == after[Len(pkts)]
    IN  IF e = Client /\ ~c.have_sent_any_pkt THEN c
        ELSE IF pkts # << >> /\ c.state = "CLOSING"
             THEN [d EXCEPT !.conn_close_queued = TRUE]
        ELSE d

\* Until the handshake is confirmed the frame goes out under its keys and
\* tells nothing of the application.
CloseFrame(c) ==
    IF c.conn_close_frame.app /\ c.handshake < 2
    THEN Cause(FALSE, "APPLICATION_ERROR", FALSE, FALSE)
    ELSE c.conn_close_frame

\* The code of an idle timeout has no encoding.
CanClose(c) == c.want_conn_close /\ c.conn_close_frame.code # "IDLE_TIMEOUT"

\* What the packetiser sends until it has nothing more to send.  A closing
\* endpoint whose CONNECTION_CLOSE has gone out sends ordinary frames.
Generated(c) ==
    LET kinds == {k \in {"hs", "data", "ack"} :
                    /\ k = "data" => c.stream = "unacked"
                    /\ k = "ack" => c.want_ack}
        close == [kind |-> "close", cause |-> CloseFrame(c)]
    IN  {Packet(k) : k \in kinds} \cup IF CanClose(c) THEN {close} ELSE {}

MaySend(c) ==
    /\ c.state # "DRAINING"
    /\ c.state = "CLOSING" => c.conn_close_queued

\* sent says whether the congestion controller, the limit for an address that
\* is not validated and the network let the packets out (if they do not while
\* the connection is active, that is as if the packets were lost).
ch_tx(c, sent) ==
    IF ~MaySend(c)
    THEN c
    ELSE LET d == [c EXCEPT !.conn_close_queued =
                                @ /\ c.state # "CLOSING"]
         IN  IF sent
             THEN [d EXCEPT !.have_sent_any_pkt = TRUE,
                            !.want_conn_close = @ /\ ~CanClose(c)]
             ELSE d

\* ossl_quic_channel_subtick() when no timer of this module has run out.  The
\* packets come from the peer; error says that one of them, or the handshake
\* layer, was at fault.
Subtick(e, pkts, error, sent) ==
    LET c1 == ch_rx(e, ch[e], pkts)
        c2 == IF error THEN raise_protocol_error(c1) ELSE c1
    IN  /\ ch[e].state \notin {"IDLE", "TERMINATED"}
        /\ \A i \in 1..Len(pkts) : pkts[i] \in net[Peer(e)]
        /\ ch[e].net_error => pkts = << >> /\ ~sent
        /\ c2.state = "ACTIVE" => sent
        /\ ch' = [ch EXCEPT ![e] = ch_tx(c2, sent)]
        /\ IF error THEN Event ELSE UNCHANGED events
        /\ net' = IF sent /\ MaySend(c2)
                  THEN [net EXCEPT ![e] = @ \cup Generated(c2)] ELSE net

Batches == UNION {[1..n -> net[Client] \cup net[Server]] : n \in 0..MaxBatch}

TerminatingTimeout(e) ==
    /\ is_terminating(ch[e])
    /\ ch' = [ch EXCEPT ![e] = ch_on_terminating_timeout(@)]
    /\ UNCHANGED <<net, events>>

Gone(e) ==
    ch[e].state \in {"IDLE", "TERMINATED"} \/ ch[e].net_error

\* The timer is looked at in a tick that received nothing, whatever the state.
ch_on_idle_timeout(e) ==
    /\ ch[e].state \notin {"IDLE", "TERMINATED"}
    /\ ch' = [ch EXCEPT ![e].state = "TERMINATED",
                        ![e].cause = [@ EXCEPT !.app = FALSE,
                                               !.code = "IDLE_TIMEOUT"]]
    /\ IF Gone(Peer(e)) THEN UNCHANGED events ELSE Event
    /\ UNCHANGED net

\* The port has no use for its socket any more.
raise_net_error(e) ==
    /\ ~ch[e].net_error
    /\ ch' = [ch EXCEPT ![e] =
                ch_start_terminating([@ EXCEPT !.net_error = TRUE],
                                     NetError, TRUE)]
    /\ Event /\ UNCHANGED net

\* The peer has lost its state.  It can be recognised only after the handshake.
on_stateless_reset(e) ==
    /\ ch[e].handshake >= 1 /\ ~ch[e].net_error
    /\ ch' = [ch EXCEPT ![e] =
                ch_start_terminating([@ EXCEPT !.was_reset = TRUE],
                                     ResetCause, FALSE)]
    /\ Event /\ UNCHANGED net

\* A server that does not speak this version of QUIC.
ch_raise_version_neg_failure ==
    LET c == ch[Client]
    IN  /\ c.state = "ACTIVE" /\ c.have_sent_any_pkt /\ c.handshake = 0
        /\ ch' = [ch EXCEPT ![Client] =
                    ch_start_terminating(@, VersionError, TRUE)]
        /\ Event /\ UNCHANGED net

Shutdown(e) ==
    \E args \in Args, stream_flush, wait_peer \in BOOLEAN :
        ossl_quic_conn_shutdown(e, args, stream_flush, wait_peer)

Tick(e) ==
    \E pkts \in Batches, error, sent \in BOOLEAN : Subtick(e, pkts, error, sent)

Next ==
    \/ ossl_quic_channel_start
    \/ ossl_quic_channel_on_new_conn
    \/ ch_raise_version_neg_failure
    \/ \E e \in Ends :
         \/ Write(e) \/ Free(e) \/ Shutdown(e) \/ Tick(e)
         \/ TerminatingTimeout(e) \/ ch_on_idle_timeout(e)
         \/ raise_net_error(e) \/ on_stateless_reset(e)

(***************************************************************************)
(* Fairness: the ticks go on and the timers run out; the network does not  *)
(* lose every copy of a packet.  The idle timer surely runs out when the   *)
(* peer is no more: a max_idle_timeout is configured, as by default.       *)
(***************************************************************************)
Receives(e, k) == Subtick(e, <<Packet(k)>>, FALSE, TRUE)

Fairness ==
    \A e \in Ends :
       /\ WF_vars(TerminatingTimeout(e))
       /\ WF_vars(Subtick(e, << >>, FALSE, TRUE))
       /\ \A k \in {"data", "ack"} : WF_vars(Receives(e, k))
       /\ WF_vars(Gone(Peer(e)) /\ ch_on_idle_timeout(e))

Spec == Init /\ [][Next]_vars /\ Fairness

(***************************************************************************)
(* Properties                                                              *)
(***************************************************************************)

\* A cause that is said to be the peer's is the one the peer sent in a
\* CONNECTION_CLOSE, whatever has been raised, timed out or shut down before
\* and after, and then the peer knows that it was not closed by its peer.  An
\* idle timeout replaces the code, a stateless reset has none.
RemoteCauseTrue ==
    \A e \in Ends :
       LET c == ch[e]
           peer == ch[Peer(e)]
       IN  c.cause.remote /\ ~c.was_reset =>
             /\ \/ c.cause.code = "IDLE_TIMEOUT"
                \/ [kind |-> "close", cause |-> [c.cause EXCEPT !.remote = FALSE]]
                     \in net[Peer(e)]
             /\ ~peer.cause.remote

\* An endpoint that is told the cause is local, and that neither raised an
\* error nor heard of its peer's close, has closed only after the data of its
\* streams was acknowledged, or the streams were freed and so reset, if
\* SSL_shutdown was to flush them.
FlushBeforeClose ==
    \A e \in Ends :
       LET c == ch[e]
       IN  c.state = "CLOSING" /\ c.shutdown_flush
             => c.protocol_error \/ c.peer_closed \/ c.was_reset \/ c.hurried

\* SSL_shutdown comes to an end: the streams are flushed or the peer is gone,
\* and the terminating timer runs out.
ShutdownEnds ==
    \A e \in Ends : ch[e].shutting_down ~> is_terminated(ch[e])

\* What ch_start_terminating's comment and SSL_shutdown(3) say: the cause of
\* a connection that is being closed is recorded once, and the arguments of
\* later calls are ignored; only an idle timeout replaces the code.  (It
\* fails: copy_tcause keeps only a cause that has a reason phrase.)
FirstCauseStays ==
    [][\A e \in Ends :
         is_terminating(ch[e]) => \/ ch'[e].cause = ch[e].cause
                                 \/ ch'[e].cause.code = "IDLE_TIMEOUT"]_vars
====
