-------------------------- MODULE QuicChannel_proofs --------------------------
(***************************************************************************)
(* Proofs about a connection.  The first part is about its life cycle, for *)
(* any error codes, any number of packets in a tick and any number of      *)
(* calls, errors, resets and timeouts; the second about its stream map,    *)
(* for any number of streams, units of data, credits and losses.           *)
(*                                                                         *)
(* Every operation of the code maps one channel to another.  The lemmas    *)
(* show that each operation keeps what has to hold of a channel (Sound),   *)
(* of its cause and what the peer has sent (Told), and of the channel      *)
(* before and after (Follows).  The loop over the packets of a tick keeps  *)
(* them by LoopInvariant.                                                  *)
(***************************************************************************)
EXTENDS QuicChannel, QuicStreamMap, FiniteSetTheorems, Recursion_proofs

States == {"IDLE", "ACTIVE", "CLOSING", "DRAINING", "TERMINATED"}
Codes == AppCodes \cup {"NO_ERROR", "PROTOCOL_ERROR", "INTERNAL_ERROR",
                        "CONNECTION_REFUSED", "APPLICATION_ERROR",
                        "IDLE_TIMEOUT", "none"}
Causes == [app : BOOLEAN, code : Codes, remote : BOOLEAN, reason : BOOLEAN]
Packets == [kind : {"hs", "data", "ack", "close"}, cause : Causes]

Channels ==
    [state : States, cause : Causes, protocol_error : BOOLEAN,
     net_error : BOOLEAN, have_sent_any_pkt : BOOLEAN,
     conn_close_queued : BOOLEAN, want_conn_close : BOOLEAN,
     conn_close_frame : Causes, shutting_down : BOOLEAN,
     stream : {"none", "unacked", "done"}, shutdown_flush : BOOLEAN,
     handshake : 0..2, want_ack : BOOLEAN,
     was_reset : BOOLEAN, peer_closed : BOOLEAN, hurried : BOOLEAN]

TypeOK ==
    /\ ch \in [Ends -> Channels]
    /\ net \in [Ends -> SUBSET Packets]
    /\ events \in Nat

\* The connection is over for this endpoint, and not because the peer said so.
Committed(c) == c.state \notin {"IDLE", "ACTIVE"} /\ ~c.cause.remote

\* Something other than SSL_shutdown has asked for the connection to end.
Disturbed(c) == c.protocol_error \/ c.peer_closed \/ c.was_reset

\* A frame that is to go out tells of a local cause, and a closing endpoint
\* was disturbed or has flushed its streams.
Sound(c) ==
    /\ ~c.conn_close_frame.remote
    /\ c.want_conn_close => Committed(c)
    /\ c.shutdown_flush => c.shutting_down
    /\ c.state = "CLOSING" => c.shutting_down \/ Disturbed(c)
    /\ c.state = "CLOSING" /\ c.shutdown_flush => Disturbed(c) \/ c.hurried

\* A cause that is said to be the peer's came in one of the packets in sent.
Told(c, sent) ==
    c.cause.remote /\ ~c.was_reset =>
      \E p \in sent :
         /\ p.kind = "close"
         /\ \/ c.cause.code = "IDLE_TIMEOUT"
            \/ p.cause = [c.cause EXCEPT !.remote = FALSE]

\* d may come after c, when the peer has sent the packets in sent.
Follows(c, d, sent) ==
    /\ d \in Channels /\ Sound(d) /\ Told(d, sent)
    /\ Committed(c) => Committed(d)

\* Every close frame in the network tells of a local cause of an endpoint
\* that has committed itself.
FramesTrue ==
    \A e \in Ends : \A p \in net[e] :
        p.kind = "close" => ~p.cause.remote /\ Committed(ch[e])

IInv ==
    /\ TypeOK
    /\ \A e \in Ends : Sound(ch[e]) /\ Told(ch[e], net[Peer(e)])
    /\ FramesTrue

-----------------------------------------------------------------------------
(***************************************************************************)
(* The operations on one channel                                           *)
(***************************************************************************)

\* The causes that the code makes up are causes, none of them the peer's
\* except that of a stateless reset.
LEMMA CauseTypes ==
    /\ NoCause \in Causes /\ ProtocolError \in Causes /\ NetError \in Causes
    /\ VersionError \in Causes /\ ResetCause \in Causes
    /\ \A args \in Args : AppCause(args) \in Causes /\ ~AppCause(args).remote
BY DEF Causes, Codes, Cause, NoCause, ProtocolError, NetError, VersionError,
       ResetCause, Args, NoArgs, AppCause

\* What an operation keeps, the next one keeps.
LEMMA FollowsTransitive ==
    ASSUME NEW sent, NEW c, NEW d, NEW f,
           Follows(c, d, sent), Follows(d, f, sent)
    PROVE  Follows(c, f, sent)
BY DEF Follows

\* A channel may stay as it is.
LEMMA FollowsSame ==
    ASSUME NEW sent, NEW c \in Channels, Sound(c), Told(c, sent)
    PROVE  Follows(c, c, sent)
BY DEF Follows

\* copy_tcause with a cause that is local, or that the peer has sent.
LEMMA CopyCause ==
    ASSUME NEW sent, NEW c \in Channels, Sound(c), Told(c, sent),
           NEW cause \in Causes, cause.remote => ~Committed(c),
           Told([c EXCEPT !.cause = cause], sent)
    PROVE  Follows(c, copy_tcause(c, cause), sent)
<1> DEFINE d == [c EXCEPT !.cause = cause]
<1>1. CASE c.cause.reason
  BY <1>1, FollowsSame DEF copy_tcause
<1>2. CASE ~c.cause.reason
  <2>1. d \in Channels
    BY DEF Channels
  <2>2. Sound(d)
    BY DEF Channels, Sound, Committed, Disturbed
  <2>3. Committed(c) => Committed(d)
    BY DEF Channels, Committed
  <2> QED
    BY <1>2, <2>1, <2>2, <2>3 DEF copy_tcause, Follows
<1> QED
  BY <1>1, <1>2

\* ossl_quic_channel_notify_flush_done, called when the connection is to end
\* for a reason that allows it to be closed.
LEMMA FlushDone ==
    ASSUME NEW sent, NEW c \in Channels, Sound(c), Told(c, sent),
           c.shutting_down \/ Disturbed(c),
           c.shutdown_flush => Disturbed(c) \/ c.hurried
    PROVE  Follows(c, notify_flush_done(c), sent)
BY DEF Follows, notify_flush_done, schedule_conn_close, Channels, States,
       Causes, Sound, Told, Committed, Disturbed

\* A TERMINATED channel asks for nothing.
LEMMA Terminated ==
    ASSUME NEW sent, NEW c \in Channels, Sound(c), Told(c, sent)
    PROVE  Follows(c, ch_on_terminating_timeout(c), sent)
BY DEF Follows, ch_on_terminating_timeout, Channels, States, Causes, Sound,
       Told, Committed, Disturbed

\* ch_start_terminating, for a cause that may be copied and a channel that
\* may be closed.
LEMMA StartTerminating ==
    ASSUME NEW sent, NEW c \in Channels, Sound(c), Told(c, sent),
           NEW cause \in Causes, Told([c EXCEPT !.cause = cause], sent),
           NEW force \in BOOLEAN,
           ~force => /\ c.shutting_down \/ Disturbed(c)
                     /\ c.shutdown_flush => Disturbed(c) \/ c.hurried
    PROVE  Follows(c, ch_start_terminating(c, cause, force), sent)
<1> DEFINE now == force \/ ~c.have_sent_any_pkt
           d == copy_tcause(c, cause)
<1>1. CASE c.state \in {"IDLE", "ACTIVE"}
  <2>1. Follows(c, d, sent)
    <3>1. ~Committed(c)
      BY <1>1 DEF Committed
    <3> QED
      BY <3>1, CopyCause
  <2>2. d \in Channels /\ Sound(d) /\ Told(d, sent)
    BY <2>1 DEF Follows
  <2>3. Follows(c, ch_on_terminating_timeout(d), sent)
    BY <2>1, <2>2, Terminated, FollowsTransitive
  <2>4. CASE c.state = "ACTIVE" /\ ~now
    <3>1. ~force
      BY <2>4
    <3>2. /\ d.shutting_down \/ Disturbed(d)
          /\ d.shutdown_flush => Disturbed(d) \/ d.hurried
      BY <3>1 DEF copy_tcause, Channels, Disturbed
    <3>3. Follows(d, notify_flush_done(d), sent)
      BY <2>2, <3>2, FlushDone
    <3>4. ch_start_terminating(c, cause, force) = notify_flush_done(d)
      BY <2>4 DEF ch_start_terminating, is_terminating
    <3> QED
      BY <2>1, <3>3, <3>4, FollowsTransitive
  <2>5. CASE ~(c.state = "ACTIVE" /\ ~now)
    <3>1. ch_start_terminating(c, cause, force) = ch_on_terminating_timeout(d)
      BY <1>1, <2>5 DEF ch_start_terminating, is_terminating
    <3> QED
      BY <2>3, <3>1
  <2> QED
    BY <2>4, <2>5
<1>2. CASE c.state \notin {"IDLE", "ACTIVE"}
  <2>1. \/ ch_start_terminating(c, cause, force) = ch_on_terminating_timeout(c)
        \/ ch_start_terminating(c, cause, force) = [c EXCEPT !.state = "DRAINING"]
        \/ ch_start_terminating(c, cause, force) = c
    BY <1>2 DEF ch_start_terminating, is_terminating
  <2>2. Follows(c, [c EXCEPT !.state = "DRAINING"], sent)
    BY <1>2 DEF Follows, Channels, States, Causes, Sound, Told, Committed,
                Disturbed
  <2> QED
    BY <2>1, <2>2, Terminated, FollowsSame
<1> QED
  BY <1>1, <1>2

\* A flag that is set for good changes nothing else.
LEMMA Marked ==
    ASSUME NEW sent, NEW c \in Channels, Sound(c), Told(c, sent)
    PROVE  /\ Follows(c, [c EXCEPT !.protocol_error = TRUE], sent)
           /\ Follows(c, [c EXCEPT !.net_error = TRUE], sent)
           /\ Follows(c, [c EXCEPT !.was_reset = TRUE], sent)
           /\ Follows(c, [c EXCEPT !.peer_closed = TRUE], sent)
           /\ Follows(c, [c EXCEPT !.conn_close_queued = TRUE], sent)
           /\ Follows(c, [c EXCEPT !.shutting_down = TRUE], sent)
           /\ \A b \in BOOLEAN : Follows(c, [c EXCEPT !.hurried = @ \/ b], sent)
<1> USE DEF Follows, Channels, Causes, Sound, Told, Committed, Disturbed
<1>1. Follows(c, [c EXCEPT !.protocol_error = TRUE], sent)
  OBVIOUS
<1>2. Follows(c, [c EXCEPT !.net_error = TRUE], sent)
  OBVIOUS
<1>3. Follows(c, [c EXCEPT !.was_reset = TRUE], sent)
  OBVIOUS
<1>4. Follows(c, [c EXCEPT !.peer_closed = TRUE], sent)
  OBVIOUS
<1>5. Follows(c, [c EXCEPT !.conn_close_queued = TRUE], sent)
  OBVIOUS
<1>6. Follows(c, [c EXCEPT !.shutting_down = TRUE], sent)
  OBVIOUS
<1>7. ASSUME NEW b \in BOOLEAN
      PROVE  Follows(c, [c EXCEPT !.hurried = @ \/ b], sent)
  OBVIOUS
<1> HIDE DEF Follows
<1> QED
  BY <1>1, <1>2, <1>3, <1>4, <1>5, <1>6, <1>7

\* A protocol error.
LEMMA ProtocolErrorRaised ==
    ASSUME NEW sent, NEW c \in Channels, Sound(c), Told(c, sent)
    PROVE  Follows(c, raise_protocol_error(c), sent)
<1> DEFINE d == [c EXCEPT !.protocol_error = TRUE]
<1>1. Follows(c, d, sent)
  BY Marked
<1>2. d \in Channels /\ Sound(d) /\ Told(d, sent)
  BY <1>1 DEF Follows
<1>3. Disturbed(d)
  BY DEF Disturbed, Channels
<1>4. Told([d EXCEPT !.cause = ProtocolError], sent)
  BY DEF Told, Channels, ProtocolError, Cause
<1>5. Follows(d, ch_start_terminating(d, ProtocolError, FALSE), sent)
  BY <1>2, <1>3, <1>4, CauseTypes, StartTerminating
<1> HIDE DEF d
<1>6. Follows(c, ch_start_terminating(d, ProtocolError, FALSE), sent)
  BY <1>1, <1>5, FollowsTransitive
<1> QED
  BY <1>6, FollowsSame DEF raise_protocol_error, d

\* The peer's CONNECTION_CLOSE.
LEMMA RemoteClose ==
    ASSUME NEW sent, NEW c \in Channels, Sound(c), Told(c, sent),
           NEW p \in sent, p \in Packets, p.kind = "close", ~p.cause.remote
    PROVE  Follows(c, on_remote_conn_close(c, p.cause), sent)
<1> DEFINE d == [c EXCEPT !.peer_closed = TRUE]
           cause == [p.cause EXCEPT !.remote = TRUE]
<1>1. Follows(c, d, sent)
  BY Marked
<1>2. d \in Channels /\ Sound(d) /\ Told(d, sent)
  BY <1>1 DEF Follows
<1>3. Disturbed(d)
  BY DEF Disturbed, Channels
<1>4. cause \in Causes
  BY DEF Packets, Causes
<1>5. p.cause = [cause EXCEPT !.remote = FALSE]
  BY DEF Packets, Causes
<1>6. Told([d EXCEPT !.cause = cause], sent)
  <2> HIDE DEF cause
  <2> QED
    BY <1>4, <1>5 DEF Told, Channels
<1> HIDE DEF cause
<1>7. Follows(d, ch_start_terminating(d, cause, FALSE), sent)
  BY <1>2, <1>3, <1>4, <1>6, StartTerminating
<1> HIDE DEF d
<1>8. Follows(c, ch_start_terminating(d, cause, FALSE), sent)
  BY <1>1, <1>7, FollowsTransitive
<1> QED
  BY <1>8 DEF on_remote_conn_close, d, cause

\* The stream is acknowledged or reset.
LEMMA StreamEnds ==
    ASSUME NEW sent, NEW c \in Channels, Sound(c), Told(c, sent)
    PROVE  Follows(c, StreamDone(c), sent)
<1> DEFINE d == [c EXCEPT !.stream = "done", !.shutdown_flush = FALSE]
<1>1. Follows(c, d, sent)
  BY DEF Follows, Channels, Causes, Sound, Told, Committed, Disturbed
<1>2. d \in Channels /\ Sound(d) /\ Told(d, sent)
  BY <1>1 DEF Follows
<1>3. ASSUME c.shutdown_flush PROVE Follows(c, notify_flush_done(d), sent)
  <2>1. d.shutting_down /\ ~d.shutdown_flush
    BY <1>3 DEF Sound, Channels
  <2> HIDE DEF d
  <2>2. Follows(d, notify_flush_done(d), sent)
    BY <1>2, <2>1, FlushDone
  <2> QED
    BY <1>1, <2>2, FollowsTransitive
<1> QED
  BY <1>1, <1>3 DEF StreamDone

\* A packet from the peer.
LEMMA PacketHandled ==
    ASSUME NEW sent, NEW c \in Channels, Sound(c), Told(c, sent),
           NEW p \in sent, p \in Packets, p.kind = "close" => ~p.cause.remote
    PROVE  Follows(c, ch_rx_handle_packet(c, p), sent)
<1>1. Follows(c, [c EXCEPT !.handshake = IF @ < 2 THEN @ + 1 ELSE 2], sent)
  <2>1. [c EXCEPT !.handshake = IF @ < 2 THEN @ + 1 ELSE 2] \in Channels
    BY DEF Channels
  <2> QED
    BY <2>1 DEF Follows, Channels, Causes, Sound, Told, Committed, Disturbed
<1>2. Follows(c, [c EXCEPT !.want_ack = TRUE], sent)
  BY DEF Follows, Channels, Causes, Sound, Told, Committed, Disturbed
<1>3. Follows(c, c, sent) /\ Follows(c, StreamDone(c), sent)
  BY FollowsSame, StreamEnds
<1>4. p.kind = "close" => Follows(c, on_remote_conn_close(c, p.cause), sent)
  BY RemoteClose
<1>5. p.kind \in {"hs", "data", "ack", "close"}
  BY DEF Packets
<1> QED
  BY <1>1, <1>2, <1>3, <1>4, <1>5 DEF ch_rx_handle_packet

\* The packets of a tick.
LEMMA PacketsHandled ==
    ASSUME NEW sent, NEW c \in Channels, Sound(c), Told(c, sent), NEW e,
           NEW batch, Len(batch) \in Nat,
           \A i \in 1..Len(batch) :
              /\ batch[i] \in sent /\ batch[i] \in Packets
              /\ batch[i].kind = "close" => ~batch[i].cause.remote
    PROVE  Follows(c, ch_rx(e, c, batch), sent)
<1> DEFINE n == Len(batch)
           S == {d \in Channels : Follows(c, d, sent)}
           Computes(f) == f = [i \in 0..n |-> IF i = 0 THEN c
                                 ELSE ch_rx_handle_packet(f[i - 1], batch[i])]
           after == CHOOSE f : Computes(f)
<1>1. c \in S
  BY FollowsSame
<1>2. ASSUME NEW d \in S, NEW i \in 1..n
      PROVE  ch_rx_handle_packet(d, batch[i]) \in S
  <2>1. d \in Channels /\ Sound(d) /\ Told(d, sent) /\ Follows(c, d, sent)
    BY <1>2 DEF Follows
  <2>2. Follows(d, ch_rx_handle_packet(d, batch[i]), sent)
    BY <2>1, PacketHandled
  <2>3. Follows(c, ch_rx_handle_packet(d, batch[i]), sent)
    BY <2>1, <2>2, FollowsTransitive
  <2> QED
    BY <2>3 DEF Follows
<1>3. \E f : Computes(f)
  <2> DEFINE G == [i \in 1..n |-> [d \in S |-> ch_rx_handle_packet(d, batch[i])]]
  <2> HIDE DEF S
  <2>1. G \in [1..n -> [S -> S]]
    BY <1>2
  <2>2. PICK f : IsLoop(f, n, S, c, G)
    <3>1. n \in Nat /\ c \in S
      BY <1>1
    <3> HIDE DEF G, n
    <3> QED
      BY <2>1, <3>1, LoopExists
  <2>3. ASSUME NEW i \in 1..n
        PROVE  f[i] = ch_rx_handle_packet(f[i - 1], batch[i])
    <3>1. i - 1 \in 0..n
      OBVIOUS
    <3>2. f[i - 1] \in S
      BY <2>2, <3>1 DEF IsLoop
    <3>3. G[i][f[i - 1]] = ch_rx_handle_packet(f[i - 1], batch[i])
      BY <3>2
    <3> QED
      BY <2>2, <3>3 DEF IsLoop
  <2> QED
    BY <2>2, <2>3 DEF IsLoop
<1>4. Computes(after)
  BY <1>3
<1>5. after[n] \in S
  <2> HIDE DEF after, S
  <2>1. after[0] \in S
    BY <1>1, <1>4
  <2>2. \A i \in 1..n : after[i - 1] \in S => after[i] \in S
    BY <1>2, <1>4
  <2>3. \A i \in 0..n : after[i] \in S
    BY <2>1, <2>2, LoopInvariant
  <2> QED
    BY <2>3
<1>6. Follows(c, after[n], sent)
  BY <1>5
<1>7. Follows(c, [after[n] EXCEPT !.conn_close_queued = TRUE], sent)
  <2> HIDE DEF after
  <2>1. Follows(after[n], [after[n] EXCEPT !.conn_close_queued = TRUE], sent)
    BY <1>6, Marked DEF Follows
  <2> QED
    BY <1>6, <2>1, FollowsTransitive
<1>8. \/ ch_rx(e, c, batch) = c
      \/ ch_rx(e, c, batch) = after[n]
      \/ ch_rx(e, c, batch) = [after[n] EXCEPT !.conn_close_queued = TRUE]
  BY DEF ch_rx
<1> QED
  BY <1>1, <1>6, <1>7, <1>8

\* The packetiser: a CONNECTION_CLOSE that goes out tells of a local cause.
LEMMA PacketsSent ==
    ASSUME NEW sent, NEW c \in Channels, Sound(c), Told(c, sent),
           NEW out \in BOOLEAN
    PROVE  /\ Follows(c, ch_tx(c, out), sent)
           /\ Generated(c) \subseteq Packets
           /\ \A p \in Generated(c) :
                 p.kind = "close" => ~p.cause.remote /\ Committed(ch_tx(c, out))
<1>1. Follows(c, ch_tx(c, out), sent)
  <2> DEFINE d == [c EXCEPT !.conn_close_queued = @ /\ c.state # "CLOSING"]
             w == d.want_conn_close /\ ~CanClose(c)
             f == [d EXCEPT !.have_sent_any_pkt = TRUE, !.want_conn_close = w]
  <2>1. Follows(c, d, sent)
    BY DEF Follows, Channels, Causes, Sound, Told, Committed, Disturbed
  <2>2. d \in Channels /\ Sound(d) /\ Told(d, sent)
    BY <2>1 DEF Follows
  <2> HIDE DEF d
  <2>3. Follows(d, f, sent)
    <3>1. w \in BOOLEAN /\ (w => d.want_conn_close)
      OBVIOUS
    <3> HIDE DEF w
    <3>2. f \in Channels
      BY <2>2, <3>1 DEF Channels
    <3> QED
      BY <2>2, <3>1, <3>2 DEF Follows, Channels, Causes, Sound, Told,
                              Committed, Disturbed
  <2>4. Follows(c, f, sent)
    BY <2>1, <2>3, FollowsTransitive
  <2>5. \/ ch_tx(c, out) = c
        \/ ch_tx(c, out) = d
        \/ ch_tx(c, out) = f
    BY DEF ch_tx, d
  <2> QED
    BY <2>1, <2>4, <2>5, FollowsSame
<1>2. CloseFrame(c) \in Causes /\ ~CloseFrame(c).remote
  BY DEF CloseFrame, Cause, Channels, Causes, Codes, Sound
<1>3. \A k \in {"hs", "data", "ack"} : Packet(k) \in Packets
  BY CauseTypes DEF Packet, Packets
<1>4. Generated(c) \subseteq Packets
  BY <1>2, <1>3 DEF Generated, Packets
<1>5. ASSUME NEW p \in Generated(c), p.kind = "close"
      PROVE  ~p.cause.remote /\ Committed(ch_tx(c, out))
  <2>1. CanClose(c) /\ p.cause = CloseFrame(c)
    BY <1>5 DEF Generated, Packet
  <2>2. Committed(c)
    BY <2>1 DEF CanClose, Sound
  <2> QED
    BY <1>1, <1>2, <2>1, <2>2 DEF Follows
<1> QED
  BY <1>1, <1>4, <1>5

\* One pass of SSL_shutdown.
LEMMA ShutdownPassed ==
    ASSUME NEW sent, NEW c \in Channels, Sound(c), Told(c, sent),
           NEW args \in Args, NEW stream_flush \in BOOLEAN,
           NEW wait_peer \in BOOLEAN, ~stream_flush => c.hurried
    PROVE  Follows(c, ShutdownPass(c, args, stream_flush, wait_peer), sent)
<1> DEFINE c1 == IF wait_peer THEN c ELSE set_tcause(c, args)
           c2 == IF ~wait_peer /\ stream_flush
                 THEN qc_shutdown_flush_init(c1) ELSE c1
           ongoing == \/ ~wait_peer /\ stream_flush /\ c2.shutdown_flush
                      \/ wait_peer /\ ~is_term_any(c2)
           c3 == [c2 EXCEPT !.shutting_down = TRUE]
<1>1. Follows(c, c1, sent) /\ c1.hurried = c.hurried
  <2>1. Told([c EXCEPT !.cause = AppCause(args)], sent)
    BY CauseTypes DEF Told, Channels
  <2>2. Follows(c, copy_tcause(c, AppCause(args)), sent)
    BY <2>1, CauseTypes, CopyCause
  <2> QED
    BY <2>2, FollowsSame DEF set_tcause, copy_tcause, Channels
<1>2. c1 \in Channels /\ Sound(c1) /\ Told(c1, sent)
  BY <1>1 DEF Follows
<1> HIDE DEF c1
<1>3. Follows(c1, c2, sent) /\ c2.hurried = c1.hurried
  <2> DEFINE b == c1.stream = "unacked"
             d == [c1 EXCEPT !.shutdown_flush = b, !.shutting_down = TRUE]
  <2>1. b \in BOOLEAN
    OBVIOUS
  <2>2. c2 = c1 \/ (c2 = d /\ ~c1.shutting_down)
    BY DEF qc_shutdown_flush_init
  <2> HIDE DEF b, c2
  <2>3. d \in Channels
    BY <1>2, <2>1 DEF Channels
  <2>4. ~c1.shutting_down => Follows(c1, d, sent) /\ d.hurried = c1.hurried
    BY <1>2, <2>3 DEF Follows, Channels, Causes, Sound, Told, Committed, Disturbed
  <2> QED
    BY <1>2, <2>2, <2>4, FollowsSame
<1>4. c2 \in Channels /\ Sound(c2) /\ Told(c2, sent)
  BY <1>3 DEF Follows
<1>5. Follows(c, c2, sent)
  BY <1>1, <1>3, FollowsTransitive
<1> HIDE DEF c2
<1>6. Follows(c2, c3, sent)
  BY <1>4, Marked
<1>7. c3 \in Channels /\ Sound(c3) /\ Told(c3, sent)
  BY <1>6 DEF Follows
<1>8. Follows(c, c3, sent)
  BY <1>5, <1>6, FollowsTransitive
<1>9. ASSUME ~ongoing PROVE Follows(c3, local_close(c3, args), sent)
  <2>1. CASE is_term_any(c3)
    BY <1>7, <2>1, FollowsSame DEF local_close
  <2>2. CASE ~is_term_any(c3)
    <3>1. c3.shutting_down /\ (c3.shutdown_flush => c3.hurried)
      BY <1>1, <1>3, <1>4, <1>9, <2>2 DEF Channels, is_term_any, is_terminating,
                                          is_terminated
    <3>2. Told([c3 EXCEPT !.cause = AppCause(args)], sent)
      BY <1>7, CauseTypes DEF Told, Channels
    <3> HIDE DEF c3
    <3>3. Follows(c3, ch_start_terminating(c3, AppCause(args), FALSE), sent)
      BY <1>7, <3>1, <3>2, CauseTypes, StartTerminating
    <3> QED
      BY <2>2, <3>3 DEF local_close
  <2> QED
    BY <2>1, <2>2
<1>10. ASSUME ~ongoing PROVE Follows(c, local_close(c3, args), sent)
  BY <1>8, <1>9, <1>10, FollowsTransitive
<1>11. ShutdownPass(c, args, stream_flush, wait_peer)
         = IF ongoing THEN c2 ELSE local_close(c3, args)
  BY DEF ShutdownPass, c1, c2
<1> HIDE DEF ongoing, c3
<1> QED
  BY <1>5, <1>10, <1>11

-----------------------------------------------------------------------------
(***************************************************************************)
(* The steps                                                               *)
(***************************************************************************)

\* There are two endpoints.
LEMMA PeerFacts ==
    ASSUME NEW e \in Ends
    PROVE  Peer(e) \in Ends /\ Peer(e) # e /\ Peer(Peer(e)) = e
BY ChannelAssumption DEF Ends, Peer

\* A step of one endpoint, which may send packets, keeps the invariant.
LEMMA StepKeeps ==
    ASSUME IInv, NEW e \in Ends, NEW d, NEW out \in SUBSET Packets,
           Follows(ch[e], d, net[Peer(e)]),
           ch' = [ch EXCEPT ![e] = d],
           net' = [net EXCEPT ![e] = @ \cup out],
           \A p \in out : p.kind = "close" => ~p.cause.remote /\ Committed(d),
           events' \in Nat
    PROVE  IInv'
<1> USE DEF IInv
<1>1. TypeOK'
  BY DEF TypeOK, Follows
<1>2. /\ ch'[e] = d /\ net'[e] = net[e] \cup out
      /\ \A x \in Ends \ {e} : ch'[x] = ch[x] /\ net'[x] = net[x]
  BY DEF TypeOK
<1>3. ASSUME NEW x \in Ends PROVE Sound(ch'[x]) /\ Told(ch'[x], net'[Peer(x)])
  <2>1. CASE x = e
    BY <1>2, <2>1, PeerFacts DEF Follows
  <2>2. CASE x # e
    <3>1. net[Peer(x)] \subseteq net'[Peer(x)]
      BY <1>2, PeerFacts
    <3>2. Sound(ch[x]) /\ Told(ch[x], net[Peer(x)])
      OBVIOUS
    <3> QED
      BY <1>2, <2>2, <3>1, <3>2 DEF Told
  <2> QED
    BY <2>1, <2>2
<1>4. FramesTrue'
  <2> SUFFICES ASSUME NEW x \in Ends, NEW p \in net'[x], p.kind = "close"
               PROVE  ~p.cause.remote /\ Committed(ch'[x])
    BY DEF FramesTrue, Committed
  <2>1. CASE x # e
    BY <1>2, <2>1 DEF FramesTrue
  <2>2. CASE x = e /\ p \in out
    BY <1>2, <2>2
  <2>3. CASE x = e /\ p \in net[e]
    BY <1>2, <2>3 DEF FramesTrue, Follows
  <2> QED
    BY <1>2, <2>1, <2>2, <2>3
<1> QED
  BY <1>1, <1>3, <1>4 DEF Told, Sound

\* A step that sends nothing.
LEMMA QuietStepKeeps ==
    ASSUME IInv, NEW e \in Ends, NEW d,
           Follows(ch[e], d, net[Peer(e)]),
           ch' = [ch EXCEPT ![e] = d], net' = net, events' \in Nat
    PROVE  IInv'
<1>1. net' = [net EXCEPT ![e] = @ \cup {}]
  BY DEF IInv, TypeOK
<1> DEFINE out == {}
<1>2. out \in SUBSET Packets
  OBVIOUS
<1>3. \A p \in out : p.kind = "close" => ~p.cause.remote /\ Committed(d)
  OBVIOUS
<1>4. net' = [net EXCEPT ![e] = @ \cup out]
  BY <1>1
<1> HIDE DEF out
<1> QED
  BY <1>2, <1>3, <1>4, StepKeeps

\* What IInv says of one endpoint.
LEMMA ChannelFacts ==
    ASSUME IInv, NEW e \in Ends
    PROVE  /\ ch[e] \in Channels /\ Sound(ch[e]) /\ Told(ch[e], net[Peer(e)])
           /\ events \in Nat /\ events + 1 \in Nat
           /\ net[Peer(e)] \subseteq Packets
           /\ \A p \in net[Peer(e)] : p.kind = "close" => ~p.cause.remote
BY PeerFacts DEF IInv, TypeOK, FramesTrue

LEMMA StartStep ==
    ASSUME IInv, ossl_quic_channel_start \/ ossl_quic_channel_on_new_conn
    PROVE  IInv'
<1>1. PICK e \in Ends :
        /\ ch[e].state = "IDLE"
        /\ ch' = [ch EXCEPT ![e] = [@ EXCEPT !.state = "ACTIVE"]]
        /\ net' = net /\ events' = events
  BY DEF ossl_quic_channel_start, ossl_quic_channel_on_new_conn, Ends
<1> DEFINE c == ch[e]
           d == [c EXCEPT !.state = "ACTIVE"]
<1>2. c \in Channels /\ Sound(c) /\ Told(c, net[Peer(e)]) /\ events' \in Nat
  BY <1>1, ChannelFacts
<1>3. ch' = [ch EXCEPT ![e] = d]
  BY <1>1
<1>4. c.state = "IDLE"
  BY <1>1
<1> HIDE DEF c
<1>5. Follows(c, d, net[Peer(e)])
  BY <1>2, <1>4 DEF Follows, Channels, States, Causes, Sound, Told, Committed,
                    Disturbed
<1> QED
  BY <1>1, <1>2, <1>3, <1>5, QuietStepKeeps DEF c

LEMMA StreamStep ==
    ASSUME IInv, NEW e \in Ends, Write(e) \/ Free(e)
    PROVE  IInv'
<1> DEFINE c == ch[e]
           d == [c EXCEPT !.stream = "unacked"]
<1>1. c \in Channels /\ Sound(c) /\ Told(c, net[Peer(e)]) /\ events \in Nat
  BY ChannelFacts
<1>2. Follows(c, d, net[Peer(e)])
  <2> HIDE DEF c
  <2> QED
    BY <1>1 DEF Follows, Channels, Causes, Sound, Told, Committed, Disturbed
<1>3. Follows(c, StreamDone(c), net[Peer(e)])
  BY <1>1, StreamEnds
<1>4. \/ ch' = [ch EXCEPT ![e] = d]
      \/ ch' = [ch EXCEPT ![e] = StreamDone(c)]
  BY DEF Write, Free
<1>5. net' = net /\ events' = events
  BY DEF Write, Free
<1> QED
  BY <1>1, <1>2, <1>3, <1>4, <1>5, QuietStepKeeps

LEMMA ShutdownStep ==
    ASSUME IInv, NEW e \in Ends, Shutdown(e)
    PROVE  IInv'
<1>1. PICK args \in Args, stream_flush \in BOOLEAN, wait_peer \in BOOLEAN :
        ossl_quic_conn_shutdown(e, args, stream_flush, wait_peer)
  BY DEF Shutdown
<1> DEFINE c == ch[e]
           d == [c EXCEPT !.hurried = @ \/ ~stream_flush]
           f == ShutdownPass(d, args, stream_flush, wait_peer)
<1>2. /\ c \in Channels /\ Sound(c) /\ Told(c, net[Peer(e)])
      /\ events \in Nat /\ events + 1 \in Nat
  BY ChannelFacts
<1>3. (~stream_flush) \in BOOLEAN
  OBVIOUS
<1>4. Follows(c, d, net[Peer(e)])
  BY <1>2, <1>3, Marked
<1>5. d \in Channels /\ Sound(d) /\ Told(d, net[Peer(e)])
  BY <1>4 DEF Follows
<1>6. ~stream_flush => d.hurried
  BY <1>2 DEF Channels
<1>7. Follows(d, f, net[Peer(e)])
  <2> HIDE DEF d
  <2> QED
    BY <1>5, <1>6, ShutdownPassed
<1>8. Follows(c, f, net[Peer(e)])
  BY <1>4, <1>7, FollowsTransitive
<1>9. ch' = [ch EXCEPT ![e] = f]
  BY <1>1 DEF ossl_quic_conn_shutdown
<1>10. net' = net /\ events' = events + 1
  BY <1>1 DEF ossl_quic_conn_shutdown, Event
<1> HIDE DEF f
<1> QED
  BY <1>2, <1>8, <1>9, <1>10, QuietStepKeeps

LEMMA TickStep ==
    ASSUME IInv, NEW e \in Ends, Tick(e)
    PROVE  IInv'
<1>1. PICK batch \in Batches, error \in BOOLEAN, sent \in BOOLEAN :
        Subtick(e, batch, error, sent)
  BY DEF Tick
<1> DEFINE c == ch[e]
           N == net[Peer(e)]
           c1 == ch_rx(e, c, batch)
           c2 == IF error THEN raise_protocol_error(c1) ELSE c1
           c3 == ch_tx(c2, sent)
           out == IF sent /\ MaySend(c2) THEN Generated(c2) ELSE {}
<1>2. /\ c \in Channels /\ Sound(c) /\ Told(c, N)
      /\ events \in Nat /\ events + 1 \in Nat
      /\ N \subseteq Packets
      /\ \A p \in N : p.kind = "close" => ~p.cause.remote
  BY ChannelFacts
<1>3. Len(batch) \in Nat
  <2>1. PICK n \in 0..MaxBatch : batch \in [1..n -> net[Client] \cup net[Server]]
    BY <1>1 DEF Batches
  <2>2. n \in Nat
    BY ChannelAssumption, <2>1
  <2>3. batch \in Seq(net[Client] \cup net[Server])
    BY <2>1, <2>2
  <2> QED
    BY <2>3
<1>4. \A i \in 1..Len(batch) : batch[i] \in N
  BY <1>1 DEF Subtick
<1>5. Follows(c, c1, N)
  <2> HIDE DEF N
  <2>1. \A i \in 1..Len(batch) :
          /\ batch[i] \in N /\ batch[i] \in Packets
          /\ batch[i].kind = "close" => ~batch[i].cause.remote
    BY <1>2, <1>4
  <2> QED
    BY <1>2, <1>3, <2>1, PacketsHandled
<1>6. c1 \in Channels /\ Sound(c1) /\ Told(c1, N)
  BY <1>5 DEF Follows
<1> HIDE DEF c1
<1>7. Follows(c1, c2, N)
  BY <1>6, ProtocolErrorRaised, FollowsSame
<1>8. c2 \in Channels /\ Sound(c2) /\ Told(c2, N)
  BY <1>7 DEF Follows
<1>9. Subtick(e, batch, error, sent) =>
        /\ ch' = [ch EXCEPT ![e] = c3]
        /\ net' = IF sent /\ MaySend(c2)
                  THEN [net EXCEPT ![e] = @ \cup Generated(c2)] ELSE net
        /\ events' \in Nat
  BY <1>2 DEF Subtick, c1, Event
<1> HIDE DEF c2
<1>10. /\ Follows(c2, c3, N)
       /\ Generated(c2) \subseteq Packets
       /\ \A p \in Generated(c2) :
            p.kind = "close" => ~p.cause.remote /\ Committed(c3)
  BY <1>8, PacketsSent
<1> HIDE DEF c3
<1>11. Follows(c, c3, N)
  BY <1>5, <1>7, <1>10, FollowsTransitive
<1>12. out \in SUBSET Packets
  BY <1>10
<1>13. net' = [net EXCEPT ![e] = @ \cup out]
  BY <1>1, <1>9 DEF IInv, TypeOK
<1>14. \A p \in out : p.kind = "close" => ~p.cause.remote /\ Committed(c3)
  BY <1>10
<1> HIDE DEF out
<1> QED
  BY <1>1, <1>9, <1>11, <1>12, <1>13, <1>14, StepKeeps

LEMMA TimeoutStep ==
    ASSUME IInv, NEW e \in Ends, TerminatingTimeout(e) \/ ch_on_idle_timeout(e)
    PROVE  IInv'
<1> DEFINE c == ch[e]
           cause == [c.cause EXCEPT !.app = FALSE, !.code = "IDLE_TIMEOUT"]
           d == [c EXCEPT !.state = "TERMINATED", !.cause = cause]
<1>1. /\ c \in Channels /\ Sound(c) /\ Told(c, net[Peer(e)])
      /\ events \in Nat /\ events + 1 \in Nat
  BY ChannelFacts
<1>2. net' = net /\ events' \in Nat
  BY <1>1 DEF TerminatingTimeout, ch_on_idle_timeout, Event
<1>3. CASE TerminatingTimeout(e)
  <2>1. ch' = [ch EXCEPT ![e] = ch_on_terminating_timeout(c)]
    BY <1>3 DEF TerminatingTimeout
  <2>2. Follows(c, ch_on_terminating_timeout(c), net[Peer(e)])
    BY <1>1, Terminated
  <2> QED
    BY <1>2, <2>1, <2>2, QuietStepKeeps
<1>4. CASE ch_on_idle_timeout(e)
  <2>1. ch' = [ch EXCEPT ![e] = d]
    BY <1>4 DEF ch_on_idle_timeout
  <2>2. cause \in Causes /\ cause.remote = c.cause.remote
    BY <1>1 DEF Channels, Causes, Codes
  <2> HIDE DEF c
  <2>4. d \in Channels
    BY <1>1, <2>2 DEF Channels, States
  <2>5. Told(d, net[Peer(e)])
    BY <1>1, <2>2 DEF Told, Channels, Causes
  <2> HIDE DEF cause
  <2>6. Sound(d) /\ (Committed(c) => Committed(d))
    BY <1>1, <2>2 DEF Sound, Channels, States, Committed, Disturbed
  <2>7. Follows(c, d, net[Peer(e)])
    BY <2>4, <2>5, <2>6 DEF Follows
  <2> QED
    BY <1>2, <2>1, <2>7, QuietStepKeeps DEF c
<1> QED
  BY <1>3, <1>4

LEMMA ErrorStep ==
    ASSUME IInv, NEW e \in Ends, raise_net_error(e) \/ on_stateless_reset(e)
    PROVE  IInv'
<1> DEFINE c == ch[e]
<1>1. /\ c \in Channels /\ Sound(c) /\ Told(c, net[Peer(e)])
      /\ events \in Nat /\ events + 1 \in Nat
  BY ChannelFacts
<1>2. net' = net /\ events' = events + 1
  BY DEF raise_net_error, on_stateless_reset, Event
<1>3. CASE raise_net_error(e)
  <2> DEFINE d == [c EXCEPT !.net_error = TRUE]
  <2>1. ch' = [ch EXCEPT ![e] = ch_start_terminating(d, NetError, TRUE)]
    BY <1>3 DEF raise_net_error
  <2>2. Follows(c, d, net[Peer(e)])
    BY <1>1, Marked
  <2>3. d \in Channels /\ Sound(d) /\ Told(d, net[Peer(e)])
    BY <2>2 DEF Follows
  <2>4. Told([d EXCEPT !.cause = NetError], net[Peer(e)])
    BY <1>1 DEF Told, Channels, NetError, Cause
  <2> HIDE DEF d
  <2>5. Follows(d, ch_start_terminating(d, NetError, TRUE), net[Peer(e)])
    BY <2>3, <2>4, CauseTypes, StartTerminating
  <2>6. Follows(c, ch_start_terminating(d, NetError, TRUE), net[Peer(e)])
    BY <2>2, <2>5, FollowsTransitive
  <2> QED
    BY <1>1, <1>2, <2>1, <2>6, QuietStepKeeps
<1>4. CASE on_stateless_reset(e)
  <2> DEFINE d == [c EXCEPT !.was_reset = TRUE]
  <2>1. ch' = [ch EXCEPT ![e] = ch_start_terminating(d, ResetCause, FALSE)]
    BY <1>4 DEF on_stateless_reset
  <2>2. Follows(c, d, net[Peer(e)])
    BY <1>1, Marked
  <2>3. d \in Channels /\ Sound(d) /\ Told(d, net[Peer(e)])
    BY <2>2 DEF Follows
  <2>4. Told([d EXCEPT !.cause = ResetCause], net[Peer(e)]) /\ Disturbed(d)
    BY <1>1 DEF Told, Channels, Disturbed
  <2> HIDE DEF d
  <2>5. Follows(d, ch_start_terminating(d, ResetCause, FALSE), net[Peer(e)])
    BY <2>3, <2>4, CauseTypes, StartTerminating
  <2>6. Follows(c, ch_start_terminating(d, ResetCause, FALSE), net[Peer(e)])
    BY <2>2, <2>5, FollowsTransitive
  <2> QED
    BY <1>1, <1>2, <2>1, <2>6, QuietStepKeeps
<1> QED
  BY <1>3, <1>4

LEMMA VersionStep ==
    ASSUME IInv, ch_raise_version_neg_failure
    PROVE  IInv'
<1> DEFINE c == ch[Client]
           d == ch_start_terminating(c, VersionError, TRUE)
<1>1. Client \in Ends
  BY DEF Ends
<1>2. /\ c \in Channels /\ Sound(c) /\ Told(c, net[Peer(Client)])
      /\ events \in Nat /\ events + 1 \in Nat
  BY <1>1, ChannelFacts
<1>3. /\ ch' = [ch EXCEPT ![Client] = d]
      /\ net' = net /\ events' = events + 1
  BY DEF ch_raise_version_neg_failure, Event
<1>4. Told([c EXCEPT !.cause = VersionError], net[Peer(Client)])
  BY <1>2 DEF Told, Channels, VersionError, Cause
<1>5. Follows(c, d, net[Peer(Client)])
  BY <1>2, <1>4, CauseTypes, StartTerminating
<1> HIDE DEF d
<1> QED
  BY <1>1, <1>2, <1>3, <1>5, QuietStepKeeps

\* Every step keeps the invariant.
LEMMA NextKeeps ==
    ASSUME IInv, [Next]_vars
    PROVE  IInv'
<1>1. CASE UNCHANGED vars
  BY <1>1 DEF vars, IInv, TypeOK, Sound, Told, FramesTrue, Committed, Disturbed
<1>2. CASE Next
  BY <1>2, StartStep, VersionStep, StreamStep, ShutdownStep, TickStep,
     TimeoutStep, ErrorStep DEF Next
<1> QED
  BY <1>1, <1>2

LEMMA InitKeeps ==
    ASSUME Init PROVE IInv
<1>1. TypeOK
  BY CauseTypes DEF Init, TypeOK, Channels, States
<1>2. \A e \in Ends : Sound(ch[e]) /\ Told(ch[e], net[Peer(e)])
  BY DEF Init, Sound, Told, Disturbed, NoCause, Cause
<1>3. FramesTrue
  BY DEF Init, FramesTrue
<1> QED
  BY <1>1, <1>2, <1>3 DEF IInv

-----------------------------------------------------------------------------
(***************************************************************************)
(* Theorems                                                                *)
(***************************************************************************)

\* The invariant that the others rest on.
THEOREM InductiveInvariant == Spec => []IInv
<1>1. Init => IInv
  BY InitKeeps
<1>2. IInv /\ [Next]_vars => IInv'
  BY NextKeeps
<1> QED
  BY <1>1, <1>2, PTL DEF Spec

\* Channels, packets and causes have the values they are meant to have.
THEOREM TypeCorrect == Spec => []TypeOK
<1>1. IInv => TypeOK
  BY DEF IInv
<1> QED
  BY <1>1, InductiveInvariant, PTL

\* What an application is told of its peer's close is what the peer said, and
\* not both endpoints are told so.
THEOREM RemoteCauseIsTrue == Spec => []RemoteCauseTrue
<1>1. ASSUME IInv PROVE RemoteCauseTrue
  <2> SUFFICES ASSUME NEW e \in Ends, ch[e].cause.remote, ~ch[e].was_reset
               PROVE  /\ \/ ch[e].cause.code = "IDLE_TIMEOUT"
                         \/ [kind |-> "close",
                             cause |-> [ch[e].cause EXCEPT !.remote = FALSE]]
                               \in net[Peer(e)]
                      /\ ~ch[Peer(e)].cause.remote
    BY DEF RemoteCauseTrue
  <2>1. PICK p \in net[Peer(e)] :
          /\ p.kind = "close"
          /\ \/ ch[e].cause.code = "IDLE_TIMEOUT"
             \/ p.cause = [ch[e].cause EXCEPT !.remote = FALSE]
    BY <1>1 DEF IInv, Told
  <2>2. p = [kind |-> "close", cause |-> p.cause]
    <3>1. p \in Packets
      BY <1>1, <2>1, PeerFacts DEF IInv, TypeOK
    <3> QED
      BY <2>1, <3>1 DEF Packets
  <2>3. Committed(ch[Peer(e)])
    BY <1>1, <2>1, PeerFacts DEF IInv, FramesTrue
  <2> QED
    BY <2>1, <2>2, <2>3 DEF Committed
<1> QED
  BY <1>1, InductiveInvariant, PTL

\* Unless it was disturbed or told to hurry, an endpoint closes only after its
\* streams have been flushed.
THEOREM FlushComesFirst == Spec => []FlushBeforeClose
<1>1. IInv => FlushBeforeClose
  BY DEF IInv, FlushBeforeClose, Sound, Disturbed
<1> QED
  BY <1>1, InductiveInvariant, PTL

-----------------------------------------------------------------------------
(***************************************************************************)
(* The stream map                                                          *)
(*                                                                         *)
(* Every operation maps one stream map to another; most change one stream  *)
(* and then update its state.  Between the change and the update the       *)
(* stream may be missing from the active list, and its flag may be wrong:  *)
(* MapGood and Served name the streams of which this may be so, and the    *)
(* update takes its stream out of them.  What the frames of a packet in    *)
(* flight say of a stream stays true because send parts only advance.      *)
(***************************************************************************)
SendStates == {"NONE", "READY", "SEND", "DATA_SENT", "DATA_RECVD", "RESET_SENT",
               "RESET_RECVD"}
RecvStates == {"NONE", "RECV", "SIZE_KNOWN", "DATA_RECVD", "DATA_READ",
               "RESET_RECVD", "RESET_READ"}

StreamRecs ==
    [send : SendStates, recv : RecvStates, size : 0..MaxUnits, swm : Nat,
     new : SUBSET (1..MaxUnits), acked : SUBSET (1..MaxUnits),
     fin : {"none", "queued", "sent", "acked"},
     want_max_stream_data : BOOLEAN, stop_sending : BOOLEAN,
     want_stop_sending : BOOLEAN, acked_stop_sending : BOOLEAN,
     want_reset_stream : BOOLEAN, deleted : BOOLEAN, ready_for_gc : BOOLEAN,
     shutdown_flush : BOOLEAN, empty_fin : BOOLEAN]

\* The stream maps with the streams in D.
MapsOn(D) ==
    [str : [D -> StreamRecs], active : Seq(D), rr_cur : D \cup {NoStream},
     num_shutdown_flush : Int, closing : BOOLEAN,
     conn_txfc : [cwm : Nat, swm : Nat], max_local_streams : [BOOLEAN -> Nat]]

Frames ==
    [id : 0..MaxStreamId, stop : BOOLEAN, reset : BOOLEAN, fc : BOOLEAN,
     units : SUBSET (1..MaxUnits), fin : BOOLEAN]

\* There is no send part, or it has an end, be it one that a write of no bytes
\* gave it.
Ended(r) ==
    \/ r.send = "NONE" \/ send_is_reset(r) \/ send_get_final_size(r)
    \/ r.send = "READY" /\ r.empty_fin

\* What holds of a stream, whatever the flushing: AssertionsHold, and there is
\* no FIN before the send part has an identifier, but by a write of no bytes.
StreamGood(r) ==
    /\ r.send = "READY" => (r.fin # "none" <=> r.empty_fin)
    /\ r.deleted => Ended(r)
    /\ r.want_reset_stream => r.send = "RESET_SENT"

FlushGood(r) == r.shutdown_flush => eligible_for_shutdown_flush(r)

Flagged(M) == {s \in DOMAIN M.str : M.str[s].shutdown_flush}

ListGood(M) ==
    /\ IF M.active = <<>> THEN M.rr_cur = NoStream
                          ELSE Contains(M.active, M.rr_cur)
    /\ IsInjective(M.active)
    /\ \A s \in DOMAIN M.str : M.str[s].ready_for_gc => ~Contains(M.active, s)

\* A map in order, but for the flags of the streams in L.
MapGood(M, D, L) ==
    /\ M \in MapsOn(D)
    /\ ListGood(M)
    /\ M.num_shutdown_flush = Cardinality(Flagged(M))
    /\ \A s \in D : StreamGood(M.str[s])
    /\ \A s \in D \ L : FlushGood(M.str[s])

\* Every stream with something to send is on the active list, but for those in X
\* and those with the FIN of a write of no bytes only.
Served(M, X) ==
    \A s \in DOMAIN M.str \ X :
        should_be_active(M, s) => Contains(M.active, s) \/ OnlyEmptyFin(M.str[s])

\* A send part is READY before it is anything else, and a reset or an end of
\* it is for good.
Advances(M, N) ==
    \A s \in DOMAIN M.str :
        /\ s \in DOMAIN N.str
        /\ N.str[s].send = "READY" => M.str[s].send = "READY"
        /\ send_is_reset(M.str[s]) => send_is_reset(N.str[s])
        /\ Ended(M.str[s]) => Ended(N.str[s])
        /\ M.str[s].empty_fin => N.str[s].empty_fin

FrameGood(f, M) ==
    /\ f \in Frames
    /\ f.id \in DOMAIN M.str
    /\ f.reset => send_is_reset(M.str[f.id])
    /\ f.fin => M.str[f.id].send # "READY" \/ M.str[f.id].empty_fin

PacketGood(p, M) == p \in Seq(Frames) /\ \A i \in 1..Len(p) : FrameGood(p[i], M)

AppGood ==
    /\ Streams \subseteq 0..MaxStreamId
    /\ app \in [Streams -> {"none", "queued", "held", "freed"}]
    /\ \A s \in Streams : app[s] \in {"queued", "held"} => Exists(qsm, s)

MapIInv ==
    /\ DOMAIN qsm.str \subseteq Streams
    /\ AppGood
    /\ MapGood(qsm, DOMAIN qsm.str, {})
    /\ Served(qsm, {})
    /\ \A p \in pkts : PacketGood(p, qsm)
    /\ shutting_down \in BOOLEAN

-----------------------------------------------------------------------------
(***************************************************************************)
(* The active list                                                         *)
(***************************************************************************)

\* A stream on the list has a position.
LEMMA PositionIs ==
    ASSUME NEW M, NEW s, Contains(M.active, s)
    PROVE  Position(M, s) \in 1..Len(M.active) /\ M.active[Position(M, s)] = s
BY DEF Contains, Position

\* The next stream is on the list, and another one unless it is alone.
LEMMA NextIs ==
    ASSUME NEW D, NEW M, NEW s, M.active \in Seq(D), IsInjective(M.active),
           Contains(M.active, s)
    PROVE  /\ Contains(M.active, active_next(M, s))
           /\ active_next(M, s) \in D
           /\ active_next(M, s) = s <=> Len(M.active) = 1
<1> DEFINE n == Len(M.active)
           i == Position(M, s)
           j == IF i = n THEN 1 ELSE i + 1
<1>1. i \in 1..n /\ M.active[i] = s /\ n \in Nat
  BY PositionIs
<1>2. active_next(M, s) = M.active[j]
  BY DEF active_next
<1>4. DOMAIN M.active = 1..n
  OBVIOUS
<1> HIDE DEF i, n
<1>3. j \in 1..n /\ (j = i <=> n = 1)
  <2>1. i \in Int /\ n \in Int /\ 1 <= i /\ i <= n
    BY <1>1
  <2> QED
    BY <2>1
<1> HIDE DEF j
<1>5. M.active[j] \in D
  BY <1>3, <1>4 DEF n
<1>6. M.active[j] = s <=> j = i
  BY <1>1, <1>3, <1>4 DEF IsInjective
<1> QED
  BY <1>2, <1>3, <1>5, <1>6 DEF Contains, n

\* Removing a stream leaves the others, in order.
LEMMA RemovedIs ==
    ASSUME NEW D, NEW M, NEW s, M.active \in Seq(D), IsInjective(M.active),
           Contains(M.active, s)
    PROVE  /\ list_remove(M, s) \in Seq(D)
           /\ IsInjective(list_remove(M, s))
           /\ \A t : Contains(list_remove(M, s), t)
                       <=> Contains(M.active, t) /\ t # s
           /\ list_remove(M, s) = <<>> <=> Len(M.active) = 1
<1> DEFINE n == Len(M.active)
           a == M.active
           i == Position(M, s)
           l == SubSeq(a, 1, i - 1)
           r == SubSeq(a, i + 1, n)
           q == list_remove(M, s)
<1>1. i \in 1..n /\ a[i] = s /\ n \in Nat
  BY PositionIs
<1>2. q = l \o r
  BY DEF list_remove
<1> HIDE DEF i, q
<1>3. l \in Seq(D) /\ Len(l) = i - 1 /\ \A j \in 1..(i - 1) : l[j] = a[j]
  BY <1>1
<1>4. r \in Seq(D) /\ Len(r) = n - i /\ \A j \in 1..(n - i) : r[j] = a[i + j]
  BY <1>1
<1> HIDE DEF l, r
<1>5. /\ q \in Seq(D) /\ Len(q) = n - 1
      /\ \A j \in 1..(n - 1) : q[j] = IF j < i THEN a[j] ELSE a[j + 1]
  <2> HIDE DEF a, n
  <2>1. q \in Seq(D) /\ Len(q) = (i - 1) + (n - i)
    <3>1. Len(l) \in Nat /\ Len(r) \in Nat
      BY <1>3, <1>4
    <3>2. l \o r \in Seq(D) /\ Len(l \o r) = Len(l) + Len(r)
      BY <1>3, <1>4
    <3> QED
      BY <1>2, <1>3, <1>4, <3>1, <3>2
  <2>2. i \in Int /\ n \in Int /\ 1 <= i /\ i <= n
    BY <1>1
  <2>3. ASSUME NEW j \in 1..(n - 1)
        PROVE  q[j] = IF j < i THEN a[j] ELSE a[j + 1]
    <3>1. CASE j < i
      BY <1>2, <1>3, <1>4, <2>2, <3>1
    <3>2. CASE j >= i
      <4> DEFINE k == j - (i - 1)
      <4>1. k \in 1..(n - i) /\ i + k = j + 1 /\ j > i - 1 /\ j <= (i - 1) + (n - i)
        BY <2>2, <3>2
      <4>2. q[j] = r[k]
        BY <1>2, <1>3, <1>4, <2>2, <4>1
      <4> QED
        BY <1>4, <2>2, <3>2, <4>1, <4>2
    <3> QED
      BY <2>2, <3>1, <3>2
  <2> QED
    BY <2>1, <2>2, <2>3
<1>6. DOMAIN q = 1..(n - 1) /\ DOMAIN a = 1..n
  BY <1>5
<1>7. \A x, y \in 1..n : a[x] = a[y] => x = y
  BY <1>6 DEF IsInjective
<1> HIDE DEF n, a
<1>8. IsInjective(q)
  <2> SUFFICES ASSUME NEW x \in 1..(n - 1), NEW y \in 1..(n - 1), q[x] = q[y]
               PROVE  x = y
    BY <1>6 DEF IsInjective
  <2> DEFINE u == IF x < i THEN x ELSE x + 1
             v == IF y < i THEN y ELSE y + 1
  <2>1. u \in 1..n /\ v \in 1..n /\ a[u] = a[v]
    BY <1>1, <1>5
  <2>2. u = v
    BY <1>7, <2>1
  <2> QED
    BY <1>1, <2>2
<1>9. ASSUME NEW t PROVE Contains(q, t) <=> Contains(a, t) /\ t # s
  <2>1. ASSUME Contains(q, t) PROVE Contains(a, t) /\ t # s
    <3>1. PICK x \in 1..(n - 1) : q[x] = t
      BY <1>5, <2>1 DEF Contains
    <3> DEFINE u == IF x < i THEN x ELSE x + 1
    <3>2. u \in 1..n /\ u # i /\ a[u] = t
      BY <1>1, <1>5, <3>1
    <3> QED
      BY <1>1, <1>7, <3>2 DEF Contains, n, a
  <2>2. ASSUME Contains(a, t), t # s PROVE Contains(q, t)
    <3>1. PICK x \in 1..n : a[x] = t
      BY <2>2 DEF Contains, n, a
    <3>2. x # i
      BY <1>1, <2>2, <3>1
    <3> DEFINE u == IF x < i THEN x ELSE x - 1
    <3>3. u \in 1..(n - 1) /\ q[u] = t
      BY <1>1, <1>5, <3>1, <3>2
    <3> QED
      BY <1>5, <3>3 DEF Contains
  <2> QED
    BY <2>1, <2>2
<1>10. q = <<>> <=> n = 1
  BY <1>1, <1>5
<1> QED
  BY <1>5, <1>8, <1>9, <1>10 DEF q, n, a

\* Appending a stream.
LEMMA AppendedIs ==
    ASSUME NEW D, NEW a \in Seq(D), NEW s \in D, IsInjective(a), ~Contains(a, s)
    PROVE  /\ Append(a, s) \in Seq(D) /\ Append(a, s) # <<>>
           /\ IsInjective(Append(a, s))
           /\ \A t : Contains(Append(a, s), t) <=> Contains(a, t) \/ t = s
<1> DEFINE n == Len(a)
           q == Append(a, s)
<1>1. /\ n \in Nat /\ q \in Seq(D) /\ Len(q) = n + 1 /\ q[n + 1] = s
      /\ \A j \in 1..n : q[j] = a[j]
  OBVIOUS
<1>2. DOMAIN q = 1..(n + 1) /\ DOMAIN a = 1..n
  BY <1>1
<1>3. \A j \in 1..n : a[j] # s
  BY DEF Contains
<1>4. \A x, y \in 1..n : a[x] = a[y] => x = y
  BY <1>2 DEF IsInjective
<1>5. IsInjective(q)
  <2> HIDE DEF n, q
  <2> SUFFICES ASSUME NEW x \in 1..(n + 1), NEW y \in 1..(n + 1), q[x] = q[y]
               PROVE  x = y
    BY <1>2 DEF IsInjective
  <2>1. (x \in 1..n \/ x = n + 1) /\ (y \in 1..n \/ y = n + 1)
    BY <1>1
  <2> QED
    BY <1>1, <1>3, <1>4, <2>1
<1>6. ASSUME NEW t PROVE Contains(q, t) <=> Contains(a, t) \/ t = s
  <2>1. Contains(q, t) => Contains(a, t) \/ t = s
    BY <1>1 DEF Contains
  <2>2. Contains(a, t) => Contains(q, t)
    BY <1>1 DEF Contains
  <2>3. n + 1 \in 1..Len(q)
    BY <1>1
  <2>4. Contains(q, s)
    BY <1>1, <2>3 DEF Contains
  <2> QED
    BY <2>1, <2>2, <2>4
<1> QED
  BY <1>1, <1>5, <1>6

-----------------------------------------------------------------------------
(***************************************************************************)
(* One stream of a map is changed                                          *)
(***************************************************************************)
Put(M, s, r) == [M EXCEPT !.str[s] = r]

\* What does not depend on the rest of the map.
LEMMA ActiveSame ==
    ASSUME NEW M, NEW N, NEW s, N.str[s] = M.str[s],
           N.conn_txfc = M.conn_txfc, N.max_local_streams = M.max_local_streams
    PROVE  should_be_active(N, s) <=> should_be_active(M, s)
BY DEF should_be_active, is_local_allowed_by_stream_limit,
       stream_has_data_to_send, ossl_quic_txfc_get_credit

\* The fields of the changed map.
LEMMA PutIs ==
    ASSUME NEW D, NEW M \in MapsOn(D), NEW s \in D, NEW r \in StreamRecs
    PROVE  /\ Put(M, s, r) \in MapsOn(D)
           /\ DOMAIN M.str = D /\ DOMAIN Put(M, s, r).str = D
           /\ Put(M, s, r).str[s] = r
           /\ \A t \in D : t # s => Put(M, s, r).str[t] = M.str[t]
           /\ Put(M, s, r).active = M.active
           /\ Put(M, s, r).rr_cur = M.rr_cur
           /\ Put(M, s, r).num_shutdown_flush = M.num_shutdown_flush
           /\ Put(M, s, r).conn_txfc = M.conn_txfc
           /\ Put(M, s, r).max_local_streams = M.max_local_streams
BY DEF MapsOn, Put

\* The order of a map is kept, the flag of the stream aside.
LEMMA PutGood ==
    ASSUME NEW D, NEW L, NEW M, MapGood(M, D, L), NEW s \in D,
           NEW r \in StreamRecs, StreamGood(r),
           r.shutdown_flush = M.str[s].shutdown_flush,
           r.ready_for_gc => M.str[s].ready_for_gc
    PROVE  MapGood(Put(M, s, r), D, L \cup {s})
<1> DEFINE N == Put(M, s, r)
<1>1. M \in MapsOn(D) /\ ListGood(M)
  BY DEF MapGood
<1>2. /\ N \in MapsOn(D) /\ DOMAIN M.str = D /\ DOMAIN N.str = D /\ N.str[s] = r
      /\ \A t \in D : t # s => N.str[t] = M.str[t]
      /\ N.active = M.active /\ N.rr_cur = M.rr_cur
      /\ N.num_shutdown_flush = M.num_shutdown_flush
  BY <1>1, PutIs
<1> HIDE DEF N
<1>3. ListGood(N)
  BY <1>1, <1>2 DEF ListGood
<1>4. Flagged(N) = Flagged(M)
  BY <1>2 DEF Flagged
<1>5. \A t \in D : StreamGood(N.str[t])
  BY <1>2 DEF MapGood
<1>6. \A t \in D \ (L \cup {s}) : FlushGood(N.str[t])
  BY <1>2 DEF MapGood
<1>7. N.num_shutdown_flush = Cardinality(Flagged(N))
  BY <1>2, <1>4 DEF MapGood
<1>8. MapGood(N, D, L \cup {s})
  BY <1>2, <1>3, <1>5, <1>6, <1>7 DEF MapGood
<1> QED
  BY <1>8 DEF N

\* If the flag is right as well, nothing is left to be put right.
LEMMA FlagGood ==
    ASSUME NEW D, NEW L, NEW M, NEW s \in D, MapGood(M, D, L \cup {s}),
           FlushGood(M.str[s])
    PROVE  MapGood(M, D, L) /\ MapGood(M, D, L \ {s})
BY DEF MapGood

\* The other streams are served as before.
LEMMA PutServed ==
    ASSUME NEW D, NEW X, NEW M \in MapsOn(D), Served(M, X), NEW s \in D,
           NEW r \in StreamRecs
    PROVE  Served(Put(M, s, r), X \cup {s})
<1> DEFINE N == Put(M, s, r)
<1>1. /\ DOMAIN M.str = D /\ DOMAIN N.str = D /\ N.active = M.active
      /\ \A t \in D : t # s => N.str[t] = M.str[t]
      /\ N.conn_txfc = M.conn_txfc /\ N.max_local_streams = M.max_local_streams
  BY PutIs
<1> HIDE DEF N
<1>2. ASSUME NEW t \in D \ (X \cup {s}), should_be_active(N, t)
      PROVE  Contains(N.active, t) \/ OnlyEmptyFin(N.str[t])
  <2>1. t # s /\ t \in DOMAIN M.str \ X /\ N.str[t] = M.str[t]
    BY <1>1
  <2>2. should_be_active(M, t)
    BY <1>1, <1>2, <2>1, ActiveSame
  <2> QED
    BY <1>1, <2>1, <2>2 DEF Served
<1>3. Served(N, X \cup {s})
  BY <1>1, <1>2 DEF Served
<1> QED
  BY <1>3 DEF N

\* So is the stream itself, if it has no more to send than before.
LEMMA ItselfServed ==
    ASSUME NEW D, NEW X, NEW M \in MapsOn(D), Served(M, X), NEW s \in D,
           NEW r \in StreamRecs,
           should_be_active(Put(M, s, r), s) =>
               should_be_active(M, s) \/ OnlyEmptyFin(r),
           OnlyEmptyFin(M.str[s]) => OnlyEmptyFin(r)
    PROVE  Served(Put(M, s, r), X)
<1> DEFINE N == Put(M, s, r)
<1>1. /\ DOMAIN M.str = D /\ DOMAIN N.str = D /\ N.active = M.active
      /\ N.str[s] = r
  BY PutIs
<1>2. Served(N, X \cup {s})
  BY PutServed
<1>3. should_be_active(N, s) => should_be_active(M, s) \/ OnlyEmptyFin(r)
  OBVIOUS
<1> HIDE DEF N
<1>4. Served(N, X)
  BY <1>1, <1>2, <1>3 DEF Served
<1> QED
  BY <1>4 DEF N

\* A change of the send part that is an advance.
LEMMA PutAdvances ==
    ASSUME NEW D, NEW M \in MapsOn(D), NEW s \in D, NEW r \in StreamRecs,
           r.send = "READY" => M.str[s].send = "READY",
           send_is_reset(M.str[s]) => send_is_reset(r),
           Ended(M.str[s]) => Ended(r),
           M.str[s].empty_fin => r.empty_fin
    PROVE  Advances(M, Put(M, s, r))
<1> DEFINE N == Put(M, s, r)
<1>1. /\ DOMAIN M.str = D /\ DOMAIN N.str = D /\ N.str[s] = r
      /\ \A t \in D : t # s => N.str[t] = M.str[t]
  BY PutIs
<1> HIDE DEF N
<1>2. Advances(M, N)
  BY <1>1 DEF Advances
<1> QED
  BY <1>2 DEF N

\* Advances add up.
LEMMA AdvancesTransitive ==
    ASSUME NEW M, NEW N, NEW O, Advances(M, N), Advances(N, O)
    PROVE  Advances(M, O)
BY DEF Advances

\* A map is no step behind itself.
LEMMA AdvancesSame ==
    ASSUME NEW M
    PROVE  Advances(M, M)
BY DEF Advances

\* A stream without its send buffer.
Freed(r, st) == [ossl_quic_sstream_free(r) EXCEPT !.send = st]

\* It has no FIN, and what is not about the send buffer is as before.
LEMMA FreedIs ==
    ASSUME NEW r \in StreamRecs, NEW st \in SendStates, NEW f, f = Freed(r, st)
    PROVE  /\ f \in StreamRecs /\ f.send = st /\ f.fin = "none"
           /\ f.shutdown_flush = r.shutdown_flush
           /\ f.ready_for_gc = r.ready_for_gc /\ f.deleted = r.deleted
           /\ f.want_reset_stream = r.want_reset_stream
           /\ f.empty_fin = r.empty_fin
<1> DEFINE e == ossl_quic_sstream_free(r)
<1>1. 0 \in 0..MaxUnits
  BY StreamMapAssumption
<1>2. e = [r EXCEPT !.size = 0, !.new = {}, !.acked = {}, !.fin = "none"]
  BY DEF ossl_quic_sstream_free
<1> HIDE DEF e
<1>3. /\ e \in StreamRecs /\ e.fin = "none"
      /\ e.shutdown_flush = r.shutdown_flush
      /\ e.ready_for_gc = r.ready_for_gc /\ e.deleted = r.deleted
      /\ e.want_reset_stream = r.want_reset_stream
      /\ e.empty_fin = r.empty_fin
  BY <1>1, <1>2 DEF StreamRecs
<1>4. f = [e EXCEPT !.send = st]
  BY DEF e, Freed
<1> QED
  BY <1>3, <1>4 DEF StreamRecs

\* The flag of a stream is cleared: nothing is left to be put right about it.
LEMMA FlushDoneGood ==
    ASSUME NEW D \in SUBSET (0..MaxStreamId), NEW L, NEW X, NEW M,
           MapGood(M, D, L), Served(M, X), NEW s \in D
    PROVE  /\ MapGood(shutdown_flush_done(M, s), D, L \ {s})
           /\ Served(shutdown_flush_done(M, s), X)
           /\ Advances(M, shutdown_flush_done(M, s))
<1> DEFINE N == shutdown_flush_done(M, s)
           r == [M.str[s] EXCEPT !.shutdown_flush = FALSE]
<1>1. M \in MapsOn(D) /\ M.str[s] \in StreamRecs /\ DOMAIN M.str = D
  BY DEF MapGood, MapsOn
<1>2. CASE ~M.str[s].shutdown_flush
  <2>1. N = M /\ FlushGood(M.str[s]) /\ Advances(M, M)
    BY <1>2, AdvancesSame DEF shutdown_flush_done, FlushGood
  <2>2. MapGood(M, D, L \ {s})
    BY <2>1 DEF MapGood
  <2> QED
    BY <2>1, <2>2
<1>3. CASE M.str[s].shutdown_flush
  <2>1. /\ N \in MapsOn(D) /\ DOMAIN N.str = D /\ N.str[s] = r
        /\ \A t \in D : t # s => N.str[t] = M.str[t]
        /\ N.active = M.active /\ N.rr_cur = M.rr_cur
        /\ N.num_shutdown_flush = M.num_shutdown_flush - 1
        /\ N.conn_txfc = M.conn_txfc /\ N.max_local_streams = M.max_local_streams
    <3>1. r \in StreamRecs
      BY <1>1 DEF StreamRecs
    <3> DEFINE c == M.closing \/ M.num_shutdown_flush = 1
               k == M.num_shutdown_flush - 1
               g == [M.str EXCEPT ![s] = r]
    <3>2. N = [M EXCEPT !.str = g, !.num_shutdown_flush = k, !.closing = c]
      BY <1>3 DEF shutdown_flush_done
    <3> HIDE DEF r, N
    <3>3. c \in BOOLEAN
      OBVIOUS
    <3>4. k \in Int
      BY <1>1 DEF MapsOn
    <3>5. g \in [D -> StreamRecs] /\ g[s] = r /\ \A t \in D : t # s => g[t] = M.str[t]
      BY <1>1, <3>1 DEF MapsOn
    <3> HIDE DEF c, k, g
    <3>6. N \in MapsOn(D)
      BY <1>1, <3>2, <3>3, <3>4, <3>5 DEF MapsOn
    <3>7. /\ N.str = g /\ N.active = M.active /\ N.rr_cur = M.rr_cur
          /\ N.num_shutdown_flush = k /\ N.conn_txfc = M.conn_txfc
          /\ N.max_local_streams = M.max_local_streams
      BY <1>1, <3>2 DEF MapsOn
    <3> QED
      BY <3>5, <3>6, <3>7 DEF k
  <2>2. /\ ~r.shutdown_flush /\ r.send = M.str[s].send /\ r.fin = M.str[s].fin
        /\ r.ready_for_gc = M.str[s].ready_for_gc /\ r.deleted = M.str[s].deleted
        /\ r.want_reset_stream = M.str[s].want_reset_stream
        /\ r.recv = M.str[s].recv
        /\ r.want_max_stream_data = M.str[s].want_max_stream_data
        /\ r.want_stop_sending = M.str[s].want_stop_sending
        /\ r.new = M.str[s].new /\ r.swm = M.str[s].swm
        /\ r.empty_fin = M.str[s].empty_fin
    BY <1>1 DEF StreamRecs
  <2> HIDE DEF r, N
  <2>3. Flagged(N) = Flagged(M) \ {s} /\ s \in Flagged(M)
    BY <1>1, <1>3, <2>1, <2>2 DEF Flagged
  <2>4. IsFiniteSet(Flagged(M))
    <3>1. IsFiniteSet(0..MaxStreamId)
      BY FS_Interval, StreamMapAssumption
    <3>2. Flagged(M) \subseteq 0..MaxStreamId
      BY <1>1 DEF Flagged
    <3> QED
      BY <3>1, <3>2, FS_Subset
  <2>5. N.num_shutdown_flush = Cardinality(Flagged(N))
    <3>1. Cardinality(Flagged(N)) = Cardinality(Flagged(M)) - 1
      BY <2>3, <2>4, FS_RemoveElement
    <3>2. M.num_shutdown_flush = Cardinality(Flagged(M))
      BY DEF MapGood
    <3> QED
      BY <2>1, <3>1, <3>2
  <2>6. ListGood(N)
    <3>1. ListGood(M)
      BY DEF MapGood
    <3> QED
      BY <1>1, <2>1, <2>2, <3>1 DEF ListGood
  <2>7. ASSUME NEW t \in D PROVE StreamGood(N.str[t])
    <3>1. StreamGood(M.str[t])
      BY DEF MapGood
    <3>2. CASE t = s
      BY <2>1, <2>2, <3>1, <3>2
         DEF StreamGood, Ended, send_is_reset, send_get_final_size
    <3> QED
      BY <2>1, <3>1, <3>2
  <2>8. ASSUME NEW t \in D \ (L \ {s}) PROVE FlushGood(N.str[t])
    <3>1. CASE t = s
      BY <2>1, <2>2, <3>1 DEF FlushGood
    <3>2. CASE t # s
      BY <2>1, <3>2 DEF MapGood
    <3> QED
      BY <3>1, <3>2
  <2>9. MapGood(N, D, L \ {s})
    BY <2>1, <2>5, <2>6, <2>7, <2>8 DEF MapGood
  <2>10. ASSUME NEW t \in D \ X, should_be_active(N, t)
         PROVE  Contains(N.active, t) \/ OnlyEmptyFin(N.str[t])
    <3>1. CASE t # s
      <4>1. should_be_active(M, t)
        BY <2>1, <2>10, <3>1, ActiveSame
      <4> QED
        BY <1>1, <2>1, <3>1, <4>1 DEF Served
    <3>2. CASE t = s
      <4>1. should_be_active(M, t)
        BY <2>1, <2>2, <2>10, <3>2
           DEF should_be_active, is_local_allowed_by_stream_limit,
               stream_has_data_to_send, ossl_quic_txfc_get_credit,
               has_send_buffer
      <4>2. OnlyEmptyFin(M.str[s]) <=> OnlyEmptyFin(r)
        BY <2>2 DEF OnlyEmptyFin
      <4> QED
        BY <1>1, <2>1, <3>2, <4>1, <4>2 DEF Served
    <3> QED
      BY <3>1, <3>2
  <2>11. Served(N, X)
    BY <2>1, <2>10 DEF Served
  <2>12. ASSUME NEW t \in D
         PROVE  /\ N.str[t].send = "READY" => M.str[t].send = "READY"
                /\ send_is_reset(M.str[t]) => send_is_reset(N.str[t])
                /\ Ended(M.str[t]) => Ended(N.str[t])
                /\ M.str[t].empty_fin => N.str[t].empty_fin
    <3>1. CASE t # s
      BY <2>1, <3>1
    <3>2. CASE t = s
      <4>1. N.str[t] = r /\ M.str[t] = M.str[s]
        BY <2>1, <3>2
      <4>2. send_is_reset(r) <=> send_is_reset(M.str[s])
        BY <2>2 DEF send_is_reset
      <4>3. send_get_final_size(r) <=> send_get_final_size(M.str[s])
        BY <2>2 DEF send_get_final_size
      <4>4. Ended(r) <=> Ended(M.str[s])
        BY <2>2, <4>2, <4>3 DEF Ended
      <4> QED
        BY <2>2, <4>1, <4>2, <4>4
    <3> QED
      BY <3>1, <3>2
  <2>13. Advances(M, N)
    BY <1>1, <2>1, <2>12 DEF Advances
  <2> QED
    BY <2>9, <2>11, <2>13 DEF N
<1> QED
  BY <1>2, <1>3

\* The stream goes on the active list, or leaves it, as it should.
Relisted(M, s) ==
    IF should_be_active(M, s) THEN stream_map_mark_active(M, s)
                              ELSE stream_map_mark_inactive(M, s)

\* The end of ossl_quic_stream_map_update_state: a stream that may be collected
\* is marked, and the stream goes on the list or leaves it.
LEMMA MarkedGood ==
    ASSUME NEW D, NEW X, NEW M, MapGood(M, D, {}), Served(M, X), NEW s \in D,
           NEW r \in StreamRecs, StreamGood(r), FlushGood(r),
           r.shutdown_flush = M.str[s].shutdown_flush,
           NEW N, N = Relisted(Put(M, s, r), s)
    PROVE  MapGood(N, D, {}) /\ Served(N, X \ {s}) /\ N.str = Put(M, s, r).str
<1> DEFINE P == Put(M, s, r)
<1>1. M \in MapsOn(D) /\ ListGood(M) /\ M.active \in Seq(D)
  BY DEF MapGood, MapsOn
<1>2. /\ P \in MapsOn(D) /\ DOMAIN M.str = D /\ DOMAIN P.str = D /\ P.str[s] = r
      /\ \A t \in D : t # s => P.str[t] = M.str[t]
      /\ P.active = M.active /\ P.rr_cur = M.rr_cur
      /\ P.num_shutdown_flush = M.num_shutdown_flush
      /\ P.conn_txfc = M.conn_txfc /\ P.max_local_streams = M.max_local_streams
  BY <1>1, PutIs
<1>3. N = IF should_be_active(P, s) THEN stream_map_mark_active(P, s)
                                    ELSE stream_map_mark_inactive(P, s)
  BY DEF Relisted
<1> HIDE DEF P
<1>4. should_be_active(P, s) => ~r.ready_for_gc
  BY <1>2 DEF should_be_active
<1>5. /\ N \in MapsOn(D)
      /\ N.str = P.str /\ N.num_shutdown_flush = P.num_shutdown_flush
      /\ N.conn_txfc = P.conn_txfc /\ N.max_local_streams = P.max_local_streams
      /\ IF N.active = <<>> THEN N.rr_cur = NoStream
                            ELSE Contains(N.active, N.rr_cur)
      /\ IsInjective(N.active)
      /\ \A t : Contains(N.active, t) <=>
                  IF t = s THEN should_be_active(P, s) ELSE Contains(M.active, t)
  <2>1. CASE should_be_active(P, s) /\ Contains(M.active, s)
    <3>1. N = P
      BY <1>2, <1>3, <2>1 DEF stream_map_mark_active
    <3> QED
      BY <1>1, <1>2, <2>1, <3>1 DEF ListGood
  <2>2. CASE should_be_active(P, s) /\ ~Contains(M.active, s)
    <3> DEFINE a == Append(M.active, s)
               c == IF M.rr_cur = NoStream THEN s ELSE M.rr_cur
    <3>1. N = [P EXCEPT !.active = a, !.rr_cur = c]
      BY <1>2, <1>3, <2>2 DEF stream_map_mark_active
    <3>2. /\ a \in Seq(D) /\ a # <<>> /\ IsInjective(a)
          /\ \A t : Contains(a, t) <=> Contains(M.active, t) \/ t = s
      BY <1>1, <2>2, AppendedIs DEF ListGood
    <3>3. c \in D \cup {NoStream} /\ Contains(a, c)
      <4>1. M.rr_cur \in D \cup {NoStream}
        BY <1>1 DEF MapsOn
      <4>2. M.active = <<>> => M.rr_cur = NoStream
        BY <1>1 DEF ListGood
      <4>3. M.active # <<>> => Contains(M.active, M.rr_cur)
        BY <1>1 DEF ListGood
      <4> HIDE DEF a
      <4> QED
        BY <3>2, <4>1, <4>2, <4>3
    <3> HIDE DEF a, c
    <3>4. /\ N \in MapsOn(D) /\ N.active = a /\ N.rr_cur = c /\ N.str = P.str
          /\ N.num_shutdown_flush = P.num_shutdown_flush
          /\ N.conn_txfc = P.conn_txfc
          /\ N.max_local_streams = P.max_local_streams
      BY <1>2, <3>1, <3>2, <3>3 DEF MapsOn
    <3> QED
      BY <2>2, <3>2, <3>3, <3>4
  <2>3. CASE ~should_be_active(P, s) /\ ~Contains(M.active, s)
    <3>1. N = P
      BY <1>2, <1>3, <2>3 DEF stream_map_mark_inactive
    <3> QED
      BY <1>1, <1>2, <2>3, <3>1 DEF ListGood
  <2>4. CASE ~should_be_active(P, s) /\ Contains(M.active, s)
    <3> DEFINE a == list_remove(P, s)
               x == IF P.rr_cur = s THEN active_next(P, s) ELSE P.rr_cur
               c == IF x = s THEN NoStream ELSE x
    <3>1. N = [P EXCEPT !.active = a, !.rr_cur = c]
      BY <1>2, <1>3, <2>4 DEF stream_map_mark_inactive
    <3>2. P.active \in Seq(D) /\ IsInjective(P.active) /\ Contains(P.active, s)
      BY <1>1, <1>2, <2>4 DEF ListGood
    <3>3. /\ a \in Seq(D) /\ IsInjective(a)
          /\ \A t : Contains(a, t) <=> Contains(M.active, t) /\ t # s
          /\ a = <<>> <=> Len(P.active) = 1
      BY <1>2, <3>2, RemovedIs
    <3>4. /\ Contains(P.active, active_next(P, s)) /\ active_next(P, s) \in D
          /\ active_next(P, s) = s <=> Len(P.active) = 1
      BY <3>2, NextIs
    <3>5. P.active # <<>>
      BY <3>2 DEF Contains
    <3>6. Contains(P.active, P.rr_cur) /\ P.rr_cur \in D
      <4>1. Contains(P.active, P.rr_cur)
        BY <1>1, <1>2, <3>5 DEF ListGood
      <4> QED
        BY <3>2, <4>1 DEF Contains
    <3>7. c \in D \cup {NoStream}
      BY <3>4, <3>6
    <3>8. IF a = <<>> THEN c = NoStream ELSE Contains(a, c)
      <4>1. CASE Len(P.active) = 1
        <5>1. x = s
          <6>1. CASE P.rr_cur = s
            BY <3>4, <4>1, <6>1
          <6>2. P.rr_cur = s
            BY <3>2, <3>6, <4>1 DEF Contains
          <6> QED
            BY <6>1, <6>2
        <5> QED
          BY <3>3, <4>1, <5>1
      <4>2. CASE Len(P.active) # 1
        <5>1. x # s /\ Contains(P.active, x)
          BY <3>4, <3>6, <4>2
        <5> HIDE DEF x, a
        <5> QED
          BY <1>2, <3>3, <4>2, <5>1
      <4> QED
        BY <4>1, <4>2
    <3> HIDE DEF a, c
    <3>9. /\ N \in MapsOn(D) /\ N.active = a /\ N.rr_cur = c /\ N.str = P.str
          /\ N.num_shutdown_flush = P.num_shutdown_flush
          /\ N.conn_txfc = P.conn_txfc
          /\ N.max_local_streams = P.max_local_streams
      BY <1>2, <3>1, <3>3, <3>7 DEF MapsOn
    <3> QED
      BY <2>4, <3>3, <3>8, <3>9
  <2> QED
    BY <2>1, <2>2, <2>3, <2>4
<1>6. ListGood(N)
  <2>1. ASSUME NEW t \in D, N.str[t].ready_for_gc
        PROVE  ~Contains(N.active, t)
    <3>1. CASE t = s
      BY <1>2, <1>4, <1>5, <2>1, <3>1
    <3>2. CASE t # s
      <4>1. M.str[t].ready_for_gc
        BY <1>2, <1>5, <2>1, <3>2
      <4>2. ~Contains(M.active, t)
        BY <1>1, <1>2, <4>1 DEF ListGood
      <4> QED
        BY <1>5, <3>2, <4>2
    <3> QED
      BY <3>1, <3>2
  <2> QED
    BY <1>2, <1>5, <2>1 DEF ListGood
<1>7. Flagged(N) = Flagged(M)
  BY <1>2, <1>5 DEF Flagged
<1>8. MapGood(N, D, {})
  <2>1. \A t \in D : StreamGood(N.str[t]) /\ FlushGood(N.str[t])
    BY <1>2, <1>5 DEF MapGood
  <2>2. N.num_shutdown_flush = Cardinality(Flagged(N))
    BY <1>2, <1>5, <1>7 DEF MapGood
  <2> QED
    BY <1>5, <1>6, <2>1, <2>2 DEF MapGood
<1>9. ASSUME NEW t \in D \ (X \ {s}), should_be_active(N, t)
      PROVE  Contains(N.active, t) \/ OnlyEmptyFin(N.str[t])
  <2>1. should_be_active(P, t)
    BY <1>5, <1>9, ActiveSame
  <2>2. CASE t = s
    BY <1>5, <2>1, <2>2
  <2>3. CASE t # s
    <3>1. should_be_active(M, t)
      BY <1>2, <2>1, <2>3, ActiveSame
    <3> QED
      BY <1>2, <1>5, <2>3, <3>1 DEF Served
  <2> QED
    BY <2>2, <2>3
<1>10. Served(N, X \ {s})
  BY <1>2, <1>5, <1>9 DEF Served
<1> QED
  BY <1>5, <1>8, <1>10 DEF P

\* ossl_quic_stream_map_update_state puts right whatever is left to be put
\* right about a stream: its place on the active list, and its flag if
\* everything was acknowledged.
LEMMA UpdateGood ==
    ASSUME NEW D \in SUBSET (0..MaxStreamId), NEW X, NEW M, NEW s \in D,
           MapGood(M, D, {s}), Served(M, X),
           M.str[s].shutdown_flush => M.str[s].send \in {"SEND", "DATA_SENT"}
    PROVE  /\ MapGood(ossl_quic_stream_map_update_state(M, s), D, {})
           /\ Served(ossl_quic_stream_map_update_state(M, s), X \ {s})
           /\ Advances(M, ossl_quic_stream_map_update_state(M, s))
<1> DEFINE r == M.str[s]
           f == [ossl_quic_sstream_free(r) EXCEPT !.send = "DATA_RECVD"]
           M1 == IF r.send = "DATA_SENT" /\ is_totally_acked(r)
                 THEN ossl_quic_stream_map_notify_totally_acked(M, s)
                 ELSE IF r.send = "SEND" /\ r.shutdown_flush /\ is_totally_acked(r)
                 THEN shutdown_flush_done(M, s)
                 ELSE M
<1>1. M \in MapsOn(D) /\ DOMAIN M.str = D /\ r \in StreamRecs /\ StreamGood(r)
  BY DEF MapGood, MapsOn
<1>2. MapGood(M1, D, {}) /\ Served(M1, X \cup {s}) /\ Advances(M, M1)
  <2>1. CASE r.send = "DATA_SENT" /\ is_totally_acked(r)
    <3>1. /\ f \in StreamRecs /\ f.send = "DATA_RECVD"
          /\ f.shutdown_flush = r.shutdown_flush
          /\ f.ready_for_gc = r.ready_for_gc
          /\ f.want_reset_stream = r.want_reset_stream
          /\ f.empty_fin = r.empty_fin
      <4>1. "DATA_RECVD" \in SendStates
        BY DEF SendStates
      <4>2. f = Freed(r, "DATA_RECVD")
        BY DEF Freed
      <4> HIDE DEF f, r
      <4> QED
        BY <1>1, <4>1, <4>2, FreedIs
    <3>2. M1 = shutdown_flush_done(Put(M, s, f), s)
      BY <2>1 DEF ossl_quic_stream_map_notify_totally_acked, Put
    <3> HIDE DEF f, M1
    <3>3. StreamGood(f)
      BY <1>1, <2>1, <3>1 DEF StreamGood, Ended, send_get_final_size
    <3>4. MapGood(Put(M, s, f), D, {s} \cup {s})
      BY <3>1, <3>3, PutGood
    <3>5. Served(Put(M, s, f), X \cup {s})
      BY <1>1, <3>1, PutServed
    <3>6. Advances(M, Put(M, s, f))
      <4>1. ~send_is_reset(M.str[s]) /\ f.send # "READY" /\ Ended(f)
        BY <2>1, <3>1 DEF send_is_reset, Ended, send_get_final_size
      <4> QED
        BY <1>1, <3>1, <4>1, PutAdvances
    <3> DEFINE Q == Put(M, s, f)
    <3>7. MapGood(Q, D, {s}) /\ Served(Q, X \cup {s}) /\ Advances(M, Q)
      BY <3>4, <3>5, <3>6
    <3>8. M1 = shutdown_flush_done(Q, s)
      BY <3>2
    <3> HIDE DEF Q
    <3>9. /\ MapGood(M1, D, {s} \ {s}) /\ Served(M1, X \cup {s})
          /\ Advances(Q, M1)
      BY <3>7, <3>8, FlushDoneGood
    <3>10. {s} \ {s} = {}
      OBVIOUS
    <3> QED
      BY <3>7, <3>9, <3>10, AdvancesTransitive
  <2>2. CASE r.send = "SEND" /\ r.shutdown_flush /\ is_totally_acked(r)
    <3>1. M1 = shutdown_flush_done(M, s)
      BY <2>2
    <3> HIDE DEF M1
    <3>2. MapGood(M1, D, {s} \ {s}) /\ Served(M1, X) /\ Advances(M, M1)
      BY <3>1, FlushDoneGood
    <3>3. {s} \ {s} = {}
      OBVIOUS
    <3> QED
      BY <3>2, <3>3 DEF Served
  <2>3. CASE /\ ~(r.send = "DATA_SENT" /\ is_totally_acked(r))
             /\ ~(r.send = "SEND" /\ r.shutdown_flush /\ is_totally_acked(r))
    <3>1. M1 = M
      BY <2>3
    <3>2. FlushGood(r)
      BY <2>3 DEF FlushGood, eligible_for_shutdown_flush
    <3>3. MapGood(M, D, {})
      BY <3>2 DEF MapGood
    <3> HIDE DEF M1
    <3> QED
      BY <3>1, <3>3, AdvancesSame DEF Served
  <2> QED
    BY <2>1, <2>2, <2>3
<1> HIDE DEF M1
<1> DEFINE q == M1.str[s]
           g == q.ready_for_gc \/ qsm_ready_for_gc(q)
           p == [q EXCEPT !.ready_for_gc = g]
           N == ossl_quic_stream_map_update_state(M, s)
<1>3. /\ M1 \in MapsOn(D) /\ DOMAIN M1.str = D /\ q \in StreamRecs
      /\ StreamGood(q) /\ FlushGood(q)
  BY <1>2 DEF MapGood, MapsOn
<1>4. N = Relisted(Put(M1, s, p), s)
  BY DEF ossl_quic_stream_map_update_state, Put, M1, Relisted
<1>5. g \in BOOLEAN
  OBVIOUS
<1> HIDE DEF q, g, N
<1>6. /\ p \in StreamRecs /\ p.shutdown_flush = q.shutdown_flush
      /\ p.send = q.send /\ p.fin = q.fin /\ p.deleted = q.deleted
      /\ p.want_reset_stream = q.want_reset_stream
      /\ p.acked = q.acked /\ p.size = q.size /\ p.empty_fin = q.empty_fin
  BY <1>3, <1>5 DEF StreamRecs
<1> HIDE DEF p
<1>7. StreamGood(p) /\ FlushGood(p)
  BY <1>3, <1>6 DEF StreamGood, Ended, FlushGood, send_is_reset, send_get_final_size,
                    eligible_for_shutdown_flush, is_totally_acked
<1>8. /\ MapGood(N, D, {}) /\ Served(N, (X \cup {s}) \ {s})
      /\ N.str = Put(M1, s, p).str
  <2>1. MapGood(M1, D, {}) /\ Served(M1, X \cup {s})
    BY <1>2
  <2>2. p.shutdown_flush = M1.str[s].shutdown_flush
    BY <1>6 DEF q
  <2>3. p \in StreamRecs /\ StreamGood(p) /\ FlushGood(p)
    BY <1>6, <1>7
  <2> DEFINE Y == X \cup {s}
  <2>4. Served(M1, Y)
    BY <2>1
  <2> HIDE DEF Y
  <2>5. /\ MapGood(N, D, {}) /\ Served(N, Y \ {s})
        /\ N.str = Put(M1, s, p).str
    BY <1>4, <2>1, <2>2, <2>3, <2>4, MarkedGood
  <2> QED
    BY <2>5 DEF Y
<1>9. Served(N, X \ {s})
  BY <1>8 DEF Served
<1>10. Advances(M1, N)
  <2>1. Advances(M1, Put(M1, s, p))
    <3>1. send_is_reset(q) <=> send_is_reset(p)
      BY <1>6 DEF send_is_reset
    <3>2. Ended(q) <=> Ended(p)
      BY <1>6, <3>1 DEF Ended, send_get_final_size
    <3> QED
      BY <1>3, <1>6, <3>1, <3>2, PutAdvances DEF q
  <2> QED
    BY <1>8, <2>1 DEF Advances
<1> QED
  BY <1>2, <1>8, <1>9, <1>10, AdvancesTransitive DEF N

-----------------------------------------------------------------------------
(***************************************************************************)
(* The operations of the stream map                                        *)
(***************************************************************************)
Fine(M, D) == MapGood(M, D, {}) /\ Served(M, {})

\* N may come after M.
Turns(M, N, D) == Fine(N, D) /\ Advances(M, N)

\* A stream q may become r.
MayBecome(q, r) ==
    /\ r \in StreamRecs /\ StreamGood(r)
    /\ r.shutdown_flush = q.shutdown_flush
    /\ r.ready_for_gc => q.ready_for_gc
    /\ r.send = "READY" => q.send = "READY"
    /\ send_is_reset(q) => send_is_reset(r)
    /\ Ended(q) => Ended(r)
    /\ q.empty_fin => r.empty_fin

\* The streams of a map in order.
LEMMA FineStreams ==
    ASSUME NEW D, NEW M, Fine(M, D)
    PROVE  /\ M \in MapsOn(D) /\ DOMAIN M.str = D
           /\ \A s \in D : /\ M.str[s] \in StreamRecs
                           /\ StreamGood(M.str[s]) /\ FlushGood(M.str[s])
BY DEF Fine, MapGood, MapsOn

\* One operation after the other.
LEMMA TurnsTransitive ==
    ASSUME NEW D, NEW M, NEW N, NEW O, Advances(M, N), Turns(N, O, D)
    PROVE  Turns(M, O, D)
BY AdvancesTransitive DEF Turns

\* No operation.
LEMMA TurnsSame ==
    ASSUME NEW D, NEW M, Fine(M, D)
    PROVE  Turns(M, M, D)
BY AdvancesSame DEF Turns

\* A stream of a map in order is updated.
LEMMA UpdateFine ==
    ASSUME NEW D \in SUBSET (0..MaxStreamId), NEW M, NEW s \in D,
           MapGood(M, D, {}), Served(M, {s})
    PROVE  Turns(M, ossl_quic_stream_map_update_state(M, s), D)
<1>1. MapGood(M, D, {s})
  BY DEF MapGood
<1>2. M.str[s].shutdown_flush => M.str[s].send \in {"SEND", "DATA_SENT"}
  BY DEF MapGood, FlushGood, eligible_for_shutdown_flush
<1>3. {s} \ {s} = {}
  OBVIOUS
<1> QED
  BY <1>1, <1>2, <1>3, UpdateGood DEF Turns, Fine

\* A stream is changed and updated.
LEMMA ChangeAndUpdate ==
    ASSUME NEW D \in SUBSET (0..MaxStreamId), NEW M, Fine(M, D), NEW s \in D,
           NEW r, MayBecome(M.str[s], r),
           r.shutdown_flush => r.send \in {"SEND", "DATA_SENT"}
    PROVE  Turns(M, ossl_quic_stream_map_update_state(Put(M, s, r), s), D)
<1> DEFINE P == Put(M, s, r)
           N == ossl_quic_stream_map_update_state(P, s)
<1>1. M \in MapsOn(D) /\ r \in StreamRecs
  BY FineStreams DEF MayBecome
<1>2. MapGood(P, D, {s})
  <2>1. MapGood(P, D, {} \cup {s})
    BY PutGood DEF Fine, MayBecome
  <2>2. {} \cup {s} = {s}
    OBVIOUS
  <2> HIDE DEF P
  <2> QED
    BY <2>1, <2>2
<1>3. Served(P, {s})
  <2>1. Served(P, {} \cup {s})
    BY <1>1, PutServed DEF Fine
  <2>2. {} \cup {s} = {s}
    OBVIOUS
  <2> HIDE DEF P
  <2> QED
    BY <2>1, <2>2
<1>4. Advances(M, P)
  BY <1>1, PutAdvances DEF MayBecome
<1>5. P.str[s] = r
  BY <1>1, PutIs
<1> HIDE DEF P
<1>6. MapGood(N, D, {}) /\ Served(N, {s} \ {s}) /\ Advances(P, N)
  BY <1>2, <1>3, <1>5, UpdateGood
<1>7. {s} \ {s} = {}
  OBVIOUS
<1> HIDE DEF N
<1>8. Turns(M, N, D)
  BY <1>4, <1>6, <1>7, AdvancesTransitive DEF Turns, Fine
<1> QED
  BY <1>8 DEF N, P

\* A stream is changed only.
LEMMA ChangeOnly ==
    ASSUME NEW D, NEW M, Fine(M, D), NEW s \in D,
           NEW r, MayBecome(M.str[s], r), FlushGood(r),
           should_be_active(Put(M, s, r), s) =>
               should_be_active(M, s) \/ OnlyEmptyFin(r),
           OnlyEmptyFin(M.str[s]) => OnlyEmptyFin(r)
    PROVE  Turns(M, Put(M, s, r), D)
<1> DEFINE P == Put(M, s, r)
<1>1. M \in MapsOn(D) /\ r \in StreamRecs
  BY FineStreams DEF MayBecome
<1>2. MapGood(P, D, {} \cup {s})
  BY PutGood DEF Fine, MayBecome
<1>3. Served(P, {})
  BY <1>1, ItselfServed DEF Fine
<1>4. Advances(M, P)
  BY <1>1, PutAdvances DEF MayBecome
<1>5. P.str[s] = r
  BY <1>1, PutIs
<1> HIDE DEF P
<1>6. MapGood(P, D, {})
  BY <1>2, <1>5, FlagGood
<1>7. Turns(M, P, D)
  BY <1>3, <1>4, <1>6 DEF Turns, Fine
<1> QED
  BY <1>7 DEF P

\* A reset ends the send part, if there is one.
LEMMA ResetGood ==
    ASSUME NEW D \in SUBSET (0..MaxStreamId), NEW M, Fine(M, D), NEW s \in D,
           NEW N, N = ossl_quic_stream_map_reset_stream_send_part(M, s)
    PROVE  Turns(M, N, D) /\ Ended(N.str[s])
<1> DEFINE q == M.str[s]
           r == [ossl_quic_sstream_free(q) EXCEPT !.want_reset_stream = TRUE,
                                                  !.send = "RESET_SENT"]
           P == Put(M, s, r)
           Q == shutdown_flush_done(P, s)
<1>1. M \in MapsOn(D) /\ DOMAIN M.str = D /\ q \in StreamRecs /\ StreamGood(q)
  BY FineStreams
<1>2. CASE ~has_send_buffer(q)
  <2>1. N = M
    BY <1>2 DEF ossl_quic_stream_map_reset_stream_send_part
  <2>2. Ended(q)
    BY <1>1, <1>2 DEF StreamRecs, SendStates, has_send_buffer, Ended,
                      send_is_reset, send_get_final_size
  <2> QED
    BY <2>1, <2>2, TurnsSame
<1>3. CASE has_send_buffer(q)
  <2>1. N = ossl_quic_stream_map_update_state(Q, s)
    BY <1>3 DEF ossl_quic_stream_map_reset_stream_send_part, Put
  <2>2. /\ r \in StreamRecs /\ r.send = "RESET_SENT" /\ r.fin = "none"
        /\ r.shutdown_flush = q.shutdown_flush
        /\ r.ready_for_gc = q.ready_for_gc /\ r.empty_fin = q.empty_fin
    <3> DEFINE e == Freed(q, "RESET_SENT")
    <3>1. "RESET_SENT" \in SendStates
      BY DEF SendStates
    <3>2. /\ e \in StreamRecs /\ e.send = "RESET_SENT" /\ e.fin = "none"
          /\ e.shutdown_flush = q.shutdown_flush
          /\ e.ready_for_gc = q.ready_for_gc /\ e.empty_fin = q.empty_fin
      <4> HIDE DEF q
      <4> QED
        BY <1>1, <3>1, FreedIs
    <3>3. r = [e EXCEPT !.want_reset_stream = TRUE]
      BY <1>1 DEF Freed, ossl_quic_sstream_free, StreamRecs
    <3> HIDE DEF e, r
    <3> QED
      BY <3>2, <3>3 DEF StreamRecs
  <2> HIDE DEF r
  <2>3. StreamGood(r) /\ send_is_reset(r) /\ Ended(r)
    BY <2>2 DEF StreamGood, Ended, send_is_reset
  <2>4. MapGood(P, D, {s}) /\ Served(P, {s}) /\ Advances(M, P)
    <3>1. MapGood(P, D, {} \cup {s})
      BY <2>2, <2>3, PutGood DEF Fine
    <3>2. Served(P, {} \cup {s})
      BY <1>1, <2>2, PutServed DEF Fine
    <3>3. Advances(M, P)
      <4>1. r.send # "READY"
        BY <2>2
      <4> QED
        BY <1>1, <2>2, <2>3, <4>1, PutAdvances
    <3>4. {} \cup {s} = {s}
      OBVIOUS
    <3> HIDE DEF P
    <3> QED
      BY <3>1, <3>2, <3>3, <3>4
  <2>5. P.str[s] = r /\ DOMAIN P.str = D
    BY <1>1, <2>2, PutIs
  <2> HIDE DEF P
  <2>6. MapGood(Q, D, {s} \ {s}) /\ Served(Q, {s}) /\ Advances(P, Q)
    BY <2>4, FlushDoneGood
  <2>7. {s} \ {s} = {}
    OBVIOUS
  <2> HIDE DEF Q
  <2>8. Turns(Q, N, D)
    BY <2>1, <2>6, <2>7, UpdateFine
  <2>9. Advances(P, N) /\ Advances(M, N)
    BY <2>4, <2>6, <2>8, AdvancesTransitive DEF Turns
  <2>10. Ended(N.str[s])
    BY <2>3, <2>5, <2>9 DEF Advances
  <2> QED
    BY <2>8, <2>9, <2>10 DEF Turns
<1> QED
  BY <1>2, <1>3

\* A stream whose send part stays.
LEMMA SendSame ==
    ASSUME NEW q \in StreamRecs, StreamGood(q), FlushGood(q),
           NEW r \in StreamRecs, r.send = q.send, r.fin = q.fin,
           r.deleted = q.deleted, r.want_reset_stream => q.want_reset_stream,
           r.shutdown_flush = q.shutdown_flush, r.ready_for_gc = q.ready_for_gc,
           r.empty_fin = q.empty_fin
    PROVE  /\ MayBecome(q, r)
           /\ r.shutdown_flush => r.send \in {"SEND", "DATA_SENT"}
           /\ r.acked = q.acked /\ r.size = q.size => FlushGood(r)
<1>1. send_is_reset(q) <=> send_is_reset(r)
  BY DEF send_is_reset
<1>2. Ended(q) <=> Ended(r)
  BY <1>1 DEF Ended, send_get_final_size
<1>3. StreamGood(r)
  BY <1>2 DEF StreamGood
<1>4. r.shutdown_flush => r.send \in {"SEND", "DATA_SENT"}
  BY DEF FlushGood, eligible_for_shutdown_flush
<1>5. r.acked = q.acked /\ r.size = q.size => FlushGood(r)
  BY DEF FlushGood, eligible_for_shutdown_flush, is_totally_acked
<1> QED
  BY <1>1, <1>2, <1>3, <1>4, <1>5 DEF MayBecome

\* Asking the peer to stop sending leaves the send part alone.
LEMMA ScheduleStopGood ==
    ASSUME NEW D \in SUBSET (0..MaxStreamId), NEW M, Fine(M, D), NEW s \in D
    PROVE  Turns(M, ossl_quic_stream_map_schedule_stop_sending(M, s), D)
<1> DEFINE q == M.str[s]
           r == [q EXCEPT !.want_stop_sending = TRUE]
           U == ossl_quic_stream_map_update_state(Put(M, s, r), s)
           N == ossl_quic_stream_map_schedule_stop_sending(M, s)
<1>1. q \in StreamRecs /\ StreamGood(q) /\ FlushGood(q)
  BY FineStreams
<1>2. N = M \/ N = U
  BY DEF ossl_quic_stream_map_schedule_stop_sending, Put
<1> HIDE DEF q, N
<1>3. /\ r \in StreamRecs /\ r.send = q.send /\ r.fin = q.fin
      /\ r.deleted = q.deleted /\ r.want_reset_stream = q.want_reset_stream
      /\ r.shutdown_flush = q.shutdown_flush /\ r.ready_for_gc = q.ready_for_gc
      /\ r.empty_fin = q.empty_fin
  BY <1>1 DEF StreamRecs
<1> HIDE DEF r
<1>4. MayBecome(q, r) /\ (r.shutdown_flush => r.send \in {"SEND", "DATA_SENT"})
  BY <1>1, <1>3, SendSame
<1>5. Turns(M, U, D)
  BY <1>4, ChangeAndUpdate DEF q
<1>6. Turns(M, M, D)
  BY TurnsSame
<1> HIDE DEF U
<1>7. Turns(M, N, D)
  BY <1>2, <1>5, <1>6
<1> QED
  BY <1>7 DEF N

\* So does marking the stream for it first.
LEMMA StopSendingGood ==
    ASSUME NEW D \in SUBSET (0..MaxStreamId), NEW M, Fine(M, D), NEW s \in D
    PROVE  Turns(M, ossl_quic_stream_map_stop_sending_recv_part(M, s), D)
<1> DEFINE q == M.str[s]
           r == [q EXCEPT !.stop_sending = TRUE]
           P == Put(M, s, r)
           N == ossl_quic_stream_map_stop_sending_recv_part(M, s)
<1>1. M \in MapsOn(D) /\ q \in StreamRecs /\ StreamGood(q) /\ FlushGood(q)
  BY FineStreams
<1>2. N = M \/ N = ossl_quic_stream_map_schedule_stop_sending(P, s)
  BY DEF ossl_quic_stream_map_stop_sending_recv_part, Put
<1> HIDE DEF N
<1>3. /\ r \in StreamRecs /\ r.send = q.send /\ r.fin = q.fin
      /\ r.deleted = q.deleted /\ r.want_reset_stream = q.want_reset_stream
      /\ r.shutdown_flush = q.shutdown_flush /\ r.ready_for_gc = q.ready_for_gc
      /\ r.empty_fin = q.empty_fin
      /\ r.acked = q.acked /\ r.size = q.size /\ r.recv = q.recv
      /\ r.want_max_stream_data = q.want_max_stream_data
      /\ r.want_stop_sending = q.want_stop_sending
      /\ r.new = q.new /\ r.swm = q.swm
  BY <1>1 DEF StreamRecs
<1> HIDE DEF r, q
<1>4. MayBecome(q, r) /\ FlushGood(r)
  BY <1>1, <1>3, SendSame
<1>5. should_be_active(P, s) => should_be_active(M, s)
  <2>1. /\ P.str[s] = r /\ P.conn_txfc = M.conn_txfc
        /\ P.max_local_streams = M.max_local_streams
    BY <1>1, <1>3, PutIs
  <2> HIDE DEF P
  <2> QED
    BY <1>3, <2>1 DEF should_be_active, is_local_allowed_by_stream_limit, q,
          stream_has_data_to_send, ossl_quic_txfc_get_credit, has_send_buffer
<1>6. Turns(M, P, D)
  <2>1. OnlyEmptyFin(q) <=> OnlyEmptyFin(r)
    BY <1>3 DEF OnlyEmptyFin
  <2> QED
    BY <1>4, <1>5, <2>1, ChangeOnly DEF q
<1> HIDE DEF P
<1>7. Turns(P, ossl_quic_stream_map_schedule_stop_sending(P, s), D)
  BY <1>6, ScheduleStopGood DEF Turns
<1>8. Turns(M, ossl_quic_stream_map_schedule_stop_sending(P, s), D)
  BY <1>6, <1>7, TurnsTransitive DEF Turns
<1>9. Turns(M, M, D)
  BY TurnsSame
<1>10. Turns(M, N, D)
  BY <1>2, <1>8, <1>9
<1> QED
  BY <1>10 DEF N

\* A stream whose send part has an end may be deleted.
LEMMA DeletedGood ==
    ASSUME NEW D \in SUBSET (0..MaxStreamId), NEW M, Fine(M, D), NEW s \in D,
           Ended(M.str[s])
    PROVE  Turns(M, Deleted(M, s), D)
<1> DEFINE q == M.str[s]
           r == [q EXCEPT !.deleted = TRUE]
           U == ossl_quic_stream_map_update_state(Put(M, s, r), s)
<1>1. q \in StreamRecs /\ StreamGood(q) /\ FlushGood(q) /\ Ended(q)
  BY FineStreams
<1>2. Deleted(M, s) = U
  BY DEF Deleted, Put
<1> HIDE DEF q
<1>3. /\ r \in StreamRecs /\ r.send = q.send /\ r.fin = q.fin
      /\ r.want_reset_stream = q.want_reset_stream
      /\ r.shutdown_flush = q.shutdown_flush /\ r.ready_for_gc = q.ready_for_gc
      /\ r.empty_fin = q.empty_fin
  BY <1>1 DEF StreamRecs
<1> HIDE DEF r
<1>4. Ended(r) /\ (send_is_reset(q) <=> send_is_reset(r))
  BY <1>1, <1>3 DEF Ended, send_is_reset, send_get_final_size
<1>5. StreamGood(r)
  BY <1>1, <1>3, <1>4 DEF StreamGood
<1>6. r.shutdown_flush => r.send \in {"SEND", "DATA_SENT"}
  BY <1>1, <1>3 DEF FlushGood, eligible_for_shutdown_flush
<1>7. MayBecome(q, r)
  BY <1>3, <1>4, <1>5 DEF MayBecome
<1>8. Turns(M, U, D)
  BY <1>6, <1>7, ChangeAndUpdate DEF q
<1> QED
  BY <1>2, <1>8
\* The record of a new stream.
LEMMA AllocGood ==
    ASSUME NEW s \in Int, NEW r, r = ossl_quic_stream_map_alloc(s)
    PROVE  /\ r \in StreamRecs /\ StreamGood(r) /\ FlushGood(r)
           /\ ~r.shutdown_flush /\ ~r.ready_for_gc
           /\ r.new = {} /\ r.fin = "none" /\ ~r.want_max_stream_data
           /\ ~r.want_stop_sending /\ ~r.want_reset_stream
<1> DEFINE x == IF is_local_init(s) \/ is_bidi(s) THEN "READY" ELSE "NONE"
           y == IF ~is_local_init(s) \/ is_bidi(s) THEN "RECV" ELSE "NONE"
<1>1. x \in SendStates /\ y \in RecvStates
  BY DEF SendStates, RecvStates
<1>2. r = [send |-> x, recv |-> y,
           size |-> 0, swm |-> 0, new |-> {}, acked |-> {}, fin |-> "none",
           want_max_stream_data |-> FALSE, stop_sending |-> FALSE,
           want_stop_sending |-> FALSE, acked_stop_sending |-> FALSE,
           want_reset_stream |-> FALSE, deleted |-> FALSE,
           ready_for_gc |-> FALSE, shutdown_flush |-> FALSE, empty_fin |-> FALSE]
  BY DEF ossl_quic_stream_map_alloc
<1> HIDE DEF x, y
<1>3. 0 \in 0..MaxUnits /\ 0 \in Nat
  BY StreamMapAssumption
<1>4. r \in StreamRecs
  BY <1>1, <1>2, <1>3 DEF StreamRecs
<1> QED
  BY <1>2, <1>4 DEF StreamGood, FlushGood

\* A new stream has nothing to send and is not waited for.
LEMMA OpenedGood ==
    ASSUME NEW D, NEW M, Fine(M, D), NEW s \in Int, s \notin D
    PROVE  /\ Turns(M, Opened(M, s), D \cup {s})
           /\ Opened(M, s).str[s] = ossl_quic_stream_map_alloc(s)
<1> DEFINE E == D \cup {s}
           r == ossl_quic_stream_map_alloc(s)
           g == [t \in DOMAIN M.str \cup {s} |-> IF t = s THEN r ELSE M.str[t]]
           N == Opened(M, s)
<1>1. /\ M \in MapsOn(D) /\ DOMAIN M.str = D /\ M.active \in Seq(D) /\ ListGood(M)
      /\ M.str \in [D -> StreamRecs]
  BY DEF Fine, MapGood, MapsOn
<1>2. /\ r \in StreamRecs /\ StreamGood(r) /\ FlushGood(r)
      /\ ~r.shutdown_flush /\ ~r.ready_for_gc
      /\ r.new = {} /\ r.fin = "none" /\ ~r.want_max_stream_data
      /\ ~r.want_stop_sending /\ ~r.want_reset_stream
  BY AllocGood
<1>3. N = [M EXCEPT !.str = g]
  BY DEF Opened
<1> HIDE DEF r, N
<1>4. /\ g \in [E -> StreamRecs] /\ g[s] = r
      /\ \A t \in D : g[t] = M.str[t]
  BY <1>1, <1>2
<1> HIDE DEF g
<1>5. M.active \in Seq(E)
  BY <1>1
<1>6. N \in MapsOn(E)
  BY <1>1, <1>3, <1>4, <1>5 DEF MapsOn
<1>7. /\ N.str = g /\ N.active = M.active /\ N.rr_cur = M.rr_cur
      /\ N.num_shutdown_flush = M.num_shutdown_flush
      /\ N.conn_txfc = M.conn_txfc /\ N.max_local_streams = M.max_local_streams
      /\ DOMAIN N.str = E
  BY <1>1, <1>3, <1>4 DEF MapsOn
<1>8. ListGood(N)
  BY <1>1, <1>2, <1>4, <1>7 DEF ListGood
<1>9. N.num_shutdown_flush = Cardinality(Flagged(N))
  <2>1. Flagged(N) = Flagged(M)
    BY <1>1, <1>2, <1>4, <1>7 DEF Flagged
  <2> QED
    BY <1>7, <2>1 DEF Fine, MapGood
<1>10. \A t \in E : StreamGood(N.str[t]) /\ FlushGood(N.str[t])
  BY <1>2, <1>4, <1>7 DEF Fine, MapGood
<1>11. MapGood(N, E, {})
  BY <1>6, <1>8, <1>9, <1>10 DEF MapGood
<1>12. ASSUME NEW t \in E, should_be_active(N, t)
       PROVE  Contains(N.active, t) \/ OnlyEmptyFin(N.str[t])
  <2>1. CASE t = s
    BY <1>2, <1>4, <1>7, <1>12, <2>1 DEF should_be_active, stream_has_data_to_send
  <2>2. CASE t # s
    <3>1. should_be_active(M, t)
      BY <1>4, <1>7, <1>12, <2>2, ActiveSame
    <3> QED
      BY <1>1, <1>4, <1>7, <2>2, <3>1 DEF Fine, Served
  <2> QED
    BY <2>1, <2>2
<1>13. Served(N, {})
  BY <1>7, <1>12 DEF Served
<1>14. Advances(M, N)
  BY <1>1, <1>4, <1>7 DEF Advances
<1>15. N.str[s] = r
  BY <1>4, <1>7
<1> QED
  BY <1>11, <1>13, <1>14, <1>15 DEF N, r, Turns, Fine

\* An incoming stream that is rejected.
LEMMA RejectGood ==
    ASSUME NEW D \in SUBSET (0..MaxStreamId), NEW M, Fine(M, D), NEW s \in D
    PROVE  Turns(M, ossl_quic_channel_reject_stream(M, s), D)
<1> DEFINE P == ossl_quic_stream_map_stop_sending_recv_part(M, s)
           Q == ossl_quic_stream_map_reset_stream_send_part(P, s)
<1>1. Turns(M, P, D)
  BY StopSendingGood
<1> HIDE DEF P
<1>2. Turns(P, Q, D) /\ Ended(Q.str[s])
  BY <1>1, ResetGood DEF Turns
<1>3. ossl_quic_channel_reject_stream(M, s) = Deleted(Q, s)
  BY DEF ossl_quic_channel_reject_stream, P
<1> HIDE DEF Q
<1>4. Turns(Q, Deleted(Q, s), D)
  BY <1>2, DeletedGood DEF Turns
<1> QED
  BY <1>1, <1>2, <1>3, <1>4, AdvancesTransitive DEF Turns

-----------------------------------------------------------------------------
(***************************************************************************)
(* Frames of a packet: commit, acknowledgement and loss                    *)
(***************************************************************************)

\* Numbers of units.
LEMMA UnitsCounted ==
    ASSUME NEW S \in SUBSET (1..MaxUnits)
    PROVE  /\ IsFiniteSet(S) /\ Cardinality(S) \in Nat
           /\ S # {} => Min(S) \in Int
<1>1. IsFiniteSet(1..MaxUnits)
  BY FS_Interval, StreamMapAssumption
<1>2. IsFiniteSet(S)
  BY <1>1, FS_Subset
<1>3. Cardinality(S) \in Nat
  BY <1>2, FS_CardinalityType
<1>4. ASSUME S # {} PROVE Min(S) \in Int
  <2>1. S \in SUBSET Nat
    BY StreamMapAssumption
  <2>2. \E x \in S : \A y \in S : x <= y
    BY <1>4, <2>1, LeastElement
  <2>3. Min(S) \in S
    BY <2>2 DEF Min
  <2>4. Min(S) \in Nat
    BY <2>1, <2>3
  <2> QED
    BY <2>4
<1> QED
  BY <1>2, <1>3, <1>4

\* The credit that is used up.
Spent(M, n) == [M EXCEPT !.conn_txfc.swm = @ + n]

\* With less credit no stream has more to send.
LEMMA SpentGood ==
    ASSUME NEW D, NEW M, Fine(M, D), NEW n \in Nat
    PROVE  Turns(M, Spent(M, n), D) /\ Spent(M, n).str = M.str
<1> DEFINE N == Spent(M, n)
           c == [M.conn_txfc EXCEPT !.swm = M.conn_txfc.swm + n]
<1>1. /\ M \in MapsOn(D) /\ DOMAIN M.str = D /\ ListGood(M)
      /\ M.conn_txfc \in [cwm : Nat, swm : Nat]
  BY DEF Fine, MapGood, MapsOn
<1>2. N = [M EXCEPT !.conn_txfc = c]
  BY DEF Spent
<1>3. /\ c \in [cwm : Nat, swm : Nat] /\ c.cwm = M.conn_txfc.cwm
      /\ c.swm = M.conn_txfc.swm + n
  BY <1>1
<1> HIDE DEF c, N
<1>4. N \in MapsOn(D)
  BY <1>1, <1>2, <1>3 DEF MapsOn
<1>5. /\ N.str = M.str /\ N.active = M.active /\ N.rr_cur = M.rr_cur
      /\ N.num_shutdown_flush = M.num_shutdown_flush
      /\ N.conn_txfc = c /\ N.max_local_streams = M.max_local_streams
  BY <1>1, <1>2 DEF MapsOn
<1>6. MapGood(N, D, {})
  <2>1. ListGood(N)
    BY <1>1, <1>5 DEF ListGood
  <2>2. Flagged(N) = Flagged(M)
    BY <1>5 DEF Flagged
  <2> QED
    BY <1>4, <1>5, <2>1, <2>2 DEF Fine, MapGood
<1>7. ASSUME NEW s \in D, should_be_active(N, s) PROVE should_be_active(M, s)
  <2> DEFINE r == M.str[s]
  <2>1. r \in StreamRecs /\ N.str[s] = r
    BY <1>1, <1>5 DEF MapsOn
  <2>2. r.swm \in Nat /\ r.new \in SUBSET (1..MaxUnits)
    BY <2>1 DEF StreamRecs
  <2> HIDE DEF r
  <2>3. stream_has_data_to_send(N, r) => stream_has_data_to_send(M, r)
    <3> SUFFICES ASSUME stream_has_data_to_send(N, r)
                 PROVE  stream_has_data_to_send(M, r)
      OBVIOUS
    <3>1. CASE r.new = {}
      BY <3>1 DEF stream_has_data_to_send
    <3>2. CASE r.new # {}
      <4>1. Min(r.new) \in Int
        BY <2>2, <3>2, UnitsCounted
      <4>2. Min(r.new) <= r.swm + (c.cwm - c.swm)
        BY <1>5, <3>2 DEF stream_has_data_to_send, ossl_quic_txfc_get_credit
      <4>3. Min(r.new) <= r.swm + (M.conn_txfc.cwm - M.conn_txfc.swm)
        <5>1. M.conn_txfc.cwm \in Nat /\ M.conn_txfc.swm \in Nat
          BY <1>1
        <5> QED
          BY <1>3, <2>2, <4>1, <4>2, <5>1
      <4> QED
        BY <3>2, <4>3 DEF stream_has_data_to_send, ossl_quic_txfc_get_credit
    <3> QED
      BY <3>1, <3>2
  <2> QED
    BY <1>5, <1>7, <2>1, <2>3
       DEF should_be_active, is_local_allowed_by_stream_limit, r
<1>8. Served(N, {})
  BY <1>1, <1>5, <1>7 DEF Fine, Served
<1>9. Advances(M, N)
  BY <1>5 DEF Advances
<1> QED
  BY <1>5, <1>6, <1>8, <1>9 DEF N, Turns, Fine

\* What a frame may rely on, it may rely on later.
LEMMA FrameStays ==
    ASSUME NEW f, NEW M, NEW N, FrameGood(f, M), Advances(M, N)
    PROVE  FrameGood(f, N)
BY DEF FrameGood, Advances

\* A stream after its frames were sent.
LEMMA SentIs ==
    ASSUME NEW r \in StreamRecs, NEW f \in Frames, NEW q, q = StreamSent(r, f),
           Cardinality(NewUnits(r, f.units)) \in Nat
    PROVE  /\ q \in StreamRecs /\ q.send = r.send
           /\ q.fin = "none" <=> r.fin = "none"
           /\ q.deleted = r.deleted
           /\ q.want_reset_stream => r.want_reset_stream
           /\ q.shutdown_flush = r.shutdown_flush
           /\ q.ready_for_gc = r.ready_for_gc
           /\ q.empty_fin = r.empty_fin
<1> DEFINE a == r.want_max_stream_data /\ ~f.fc
           b == r.want_stop_sending /\ ~f.stop
           c == r.want_reset_stream /\ ~f.reset
           u == r.new \ f.units
           z == IF f.fin /\ r.fin = "queued" THEN "sent" ELSE r.fin
           w == r.swm + Cardinality(NewUnits(r, f.units))
<1>1. q = [r EXCEPT !.want_max_stream_data = a, !.want_stop_sending = b,
                    !.want_reset_stream = c, !.new = u, !.fin = z, !.swm = w]
  BY DEF StreamSent
<1>2. a \in BOOLEAN /\ b \in BOOLEAN /\ c \in BOOLEAN
  OBVIOUS
<1>3. u \in SUBSET (1..MaxUnits) /\ w \in Nat
  BY DEF StreamRecs
<1>4. /\ z \in {"none", "queued", "sent", "acked"}
      /\ z = "none" <=> r.fin = "none"
  BY DEF StreamRecs
<1>5. c => r.want_reset_stream
  OBVIOUS
<1> HIDE DEF a, b, c, u, z, w
<1> DEFINE e == [r EXCEPT !.want_max_stream_data = a, !.want_stop_sending = b,
                          !.want_reset_stream = c]
<1>6. /\ e \in StreamRecs /\ e.send = r.send
      /\ e.deleted = r.deleted /\ e.want_reset_stream = c
      /\ e.shutdown_flush = r.shutdown_flush /\ e.ready_for_gc = r.ready_for_gc
      /\ e.empty_fin = r.empty_fin
  BY <1>2 DEF StreamRecs
<1>7. q = [e EXCEPT !.new = u, !.fin = z, !.swm = w]
  BY <1>1
<1> HIDE DEF e
<1>8. /\ q \in StreamRecs /\ q.send = e.send /\ q.fin = z
      /\ q.deleted = e.deleted /\ q.want_reset_stream = e.want_reset_stream
      /\ q.shutdown_flush = e.shutdown_flush /\ q.ready_for_gc = e.ready_for_gc
      /\ q.empty_fin = e.empty_fin
  BY <1>3, <1>4, <1>6, <1>7 DEF StreamRecs
<1> QED
  BY <1>4, <1>5, <1>6, <1>8

\* The bookkeeping for a frame that was sent.
LEMMA CommitGood ==
    ASSUME NEW D \in SUBSET (0..MaxStreamId), NEW M, Fine(M, D), NEW f,
           FrameGood(f, M)
    PROVE  Turns(M, txp_pkt_commit(M, f), D)
<1> DEFINE s == f.id
           r == M.str[s]
           n == Cardinality(NewUnits(r, f.units))
           q == StreamSent(r, f)
           M0 == Spent(M, n)
           M1 == ossl_quic_stream_map_update_state(Put(M0, s, q), s)
           p == M1.str[s]
           x == IF AllDataSent(p) THEN "DATA_SENT" ELSE p.send
           N == Put(M1, s, [p EXCEPT !.send = x])
<1>1. /\ M \in MapsOn(D) /\ s \in D /\ r \in StreamRecs /\ f \in Frames
      /\ StreamGood(r) /\ FlushGood(r)
  BY FineStreams DEF FrameGood
<1>2. n \in Nat
  <2>1. f.units \in SUBSET (1..MaxUnits)
    BY <1>1 DEF Frames
  <2>2. NewUnits(r, f.units) \in SUBSET (1..MaxUnits)
    BY <2>1 DEF NewUnits
  <2> QED
    BY <2>2, UnitsCounted
<1>3. txp_pkt_commit(M, f) = N
  <2>1. Put(M0, s, q) = [M EXCEPT !.str[s] = q, !.conn_txfc.swm = @ + n]
    BY <1>1 DEF Put, Spent, MapsOn
  <2>2. M1 = ossl_quic_stream_map_update_state(
                 [M EXCEPT !.str[s] = q, !.conn_txfc.swm = @ + n], s)
    BY <2>1
  <2>3. txp_pkt_commit(M, f) = [M1 EXCEPT !.str[s].send = x]
    BY <2>2 DEF txp_pkt_commit
  <2>4. N = [M1 EXCEPT !.str[s].send = x]
    <3> HIDE DEF M1, x
    <3> QED
      BY DEF Put
  <2> QED
    BY <2>3, <2>4
<1>4. Turns(M, M0, D) /\ M0.str = M.str
  BY <1>2, SpentGood
<1>8. /\ q \in StreamRecs /\ q.send = r.send
      /\ q.fin = "none" <=> r.fin = "none"
      /\ q.deleted = r.deleted
      /\ q.want_reset_stream => r.want_reset_stream
      /\ q.shutdown_flush = r.shutdown_flush /\ q.ready_for_gc = r.ready_for_gc
      /\ q.empty_fin = r.empty_fin
  BY <1>1, <1>2, SentIs
<1> HIDE DEF n, M0, q, r
<1>9. MayBecome(r, q) /\ (q.shutdown_flush => q.send \in {"SEND", "DATA_SENT"})
  <2>1. send_is_reset(r) <=> send_is_reset(q)
    BY <1>8 DEF send_is_reset
  <2>2. Ended(r) <=> Ended(q)
    BY <1>8, <2>1 DEF Ended, send_get_final_size
  <2>3. StreamGood(q)
    BY <1>1, <1>8, <2>2 DEF StreamGood
  <2> QED
    BY <1>1, <1>8, <2>1, <2>2, <2>3
       DEF MayBecome, FlushGood, eligible_for_shutdown_flush
<1>10. Turns(M0, M1, D)
  BY <1>1, <1>4, <1>9, ChangeAndUpdate DEF Turns, r
<1> HIDE DEF M1
<1>11. M1 \in MapsOn(D) /\ p \in StreamRecs /\ StreamGood(p) /\ FlushGood(p)
  BY <1>1, <1>10, FineStreams DEF Turns
<1> DEFINE o == [p EXCEPT !.send = x]
<1>12. x \in SendStates /\ (x # p.send => p.send = "SEND" /\ x = "DATA_SENT")
  BY <1>11 DEF StreamRecs, SendStates, AllDataSent
<1> HIDE DEF p, x
<1>13. /\ o \in StreamRecs /\ o.send = x /\ o.fin = p.fin
       /\ o.deleted = p.deleted /\ o.want_reset_stream = p.want_reset_stream
       /\ o.shutdown_flush = p.shutdown_flush /\ o.ready_for_gc = p.ready_for_gc
       /\ o.empty_fin = p.empty_fin
       /\ o.acked = p.acked /\ o.size = p.size /\ o.recv = p.recv
       /\ o.want_max_stream_data = p.want_max_stream_data
       /\ o.want_stop_sending = p.want_stop_sending
       /\ o.new = p.new /\ o.swm = p.swm
  BY <1>11, <1>12 DEF StreamRecs
<1> HIDE DEF o
<1>14. MayBecome(p, o) /\ FlushGood(o)
  <2>1. send_is_reset(p) => send_is_reset(o)
    BY <1>12, <1>13 DEF send_is_reset
  <2>2. Ended(p) => Ended(o)
    BY <1>12, <1>13, <2>1 DEF Ended, send_get_final_size
  <2>3. StreamGood(o)
    BY <1>11, <1>12, <1>13, <2>2 DEF StreamGood
  <2>4. FlushGood(o)
    BY <1>11, <1>12, <1>13
       DEF FlushGood, eligible_for_shutdown_flush, is_totally_acked
  <2> QED
    BY <1>12, <1>13, <2>1, <2>2, <2>3, <2>4 DEF MayBecome
<1>15. should_be_active(Put(M1, s, o), s) => should_be_active(M1, s)
  <2> DEFINE P == Put(M1, s, o)
  <2>1. /\ P.str[s] = o /\ P.conn_txfc = M1.conn_txfc
        /\ P.max_local_streams = M1.max_local_streams
    BY <1>1, <1>11, <1>13, PutIs
  <2> HIDE DEF P
  <2>2. has_send_buffer(o) <=> has_send_buffer(p)
    BY <1>12, <1>13 DEF has_send_buffer
  <2>3. should_be_active(P, s) => should_be_active(M1, s)
    BY <1>13, <2>1, <2>2
       DEF should_be_active, is_local_allowed_by_stream_limit, p,
           stream_has_data_to_send, ossl_quic_txfc_get_credit
  <2> QED
    BY <2>3 DEF P
<1>16. Turns(M1, Put(M1, s, o), D)
  <2>1. OnlyEmptyFin(p) => OnlyEmptyFin(o)
    BY <1>13 DEF OnlyEmptyFin
  <2> QED
    BY <1>1, <1>10, <1>14, <1>15, <2>1, ChangeOnly DEF Turns, p
<1>17. Turns(M, Put(M1, s, o), D)
  BY <1>4, <1>10, <1>16, AdvancesTransitive DEF Turns
<1> QED
  BY <1>3, <1>17 DEF o

\* The data of a stream is acknowledged: a stream that is flushed is updated
\* when this completes it.
LEMMA AckedDataGood ==
    ASSUME NEW D \in SUBSET (0..MaxStreamId), NEW M, Fine(M, D), NEW f,
           FrameGood(f, M)
    PROVE  Turns(M, AckedData(M, f), D)
<1> DEFINE s == f.id
           r == M.str[s]
           u == r.acked \cup f.units
           z == IF f.fin THEN "acked" ELSE r.fin
           q == [r EXCEPT !.acked = u, !.fin = z]
           P == Put(M, s, q)
           U == ossl_quic_stream_map_update_state(P, s)
<1>1. /\ M \in MapsOn(D) /\ s \in D /\ r \in StreamRecs /\ f \in Frames
      /\ StreamGood(r) /\ FlushGood(r)
      /\ f.fin => r.send # "READY" \/ r.empty_fin
  BY FineStreams DEF FrameGood
<1>2. AckedData(M, f) \in {M, P, U}
  <2>1. AckedData(M, f) = M \/ AckedData(M, f) = UpdateIf(P, s, is_totally_acked(q))
    BY DEF AckedData, Put
  <2> HIDE DEF P, q
  <2> QED
    BY <2>1 DEF UpdateIf
<1>3. ~is_totally_acked(q) \/ AckedData(M, f) \in {M, U}
  <2>1. AckedData(M, f) = M \/ AckedData(M, f) = UpdateIf(P, s, is_totally_acked(q))
    BY DEF AckedData, Put
  <2> HIDE DEF P, q
  <2> QED
    BY <2>1 DEF UpdateIf
<1>4. /\ u \in SUBSET (1..MaxUnits) /\ z \in {"none", "queued", "sent", "acked"}
      /\ r.send = "READY" => z = r.fin \/ r.empty_fin
      /\ z = "queued" => r.fin = "queued"
      /\ r.fin # "none" => z # "none"
  BY <1>1 DEF StreamRecs, Frames
<1> HIDE DEF r, u, z
<1>5. /\ q \in StreamRecs /\ q.send = r.send /\ q.fin = z
      /\ q.deleted = r.deleted /\ q.want_reset_stream = r.want_reset_stream
      /\ q.shutdown_flush = r.shutdown_flush /\ q.ready_for_gc = r.ready_for_gc
      /\ q.empty_fin = r.empty_fin
      /\ q.recv = r.recv /\ q.want_max_stream_data = r.want_max_stream_data
      /\ q.want_stop_sending = r.want_stop_sending
      /\ q.new = r.new /\ q.swm = r.swm
  BY <1>1, <1>4 DEF StreamRecs
<1> HIDE DEF q
<1>6. MayBecome(r, q) /\ (q.shutdown_flush => q.send \in {"SEND", "DATA_SENT"})
  <2>1. send_is_reset(r) <=> send_is_reset(q)
    BY <1>5 DEF send_is_reset
  <2>2. Ended(r) => Ended(q)
    BY <1>4, <1>5, <2>1 DEF Ended, send_get_final_size
  <2>3. StreamGood(q)
    BY <1>1, <1>4, <1>5, <2>2 DEF StreamGood
  <2> QED
    BY <1>1, <1>5, <2>1, <2>2, <2>3
       DEF MayBecome, FlushGood, eligible_for_shutdown_flush
<1>7. Turns(M, U, D)
  BY <1>1, <1>6, ChangeAndUpdate DEF r
<1>8. ~is_totally_acked(q) => Turns(M, P, D)
  <2> SUFFICES ASSUME ~is_totally_acked(q) PROVE Turns(M, P, D)
    OBVIOUS
  <2>1. FlushGood(q)
    BY <1>6 DEF FlushGood, eligible_for_shutdown_flush
  <2>2. should_be_active(P, s) => should_be_active(M, s)
    <3>1. /\ P.str[s] = q /\ P.conn_txfc = M.conn_txfc
          /\ P.max_local_streams = M.max_local_streams
      BY <1>1, <1>5, PutIs
    <3> HIDE DEF P
    <3>2. has_send_buffer(q) <=> has_send_buffer(r)
      BY <1>5 DEF has_send_buffer
    <3>3. stream_has_data_to_send(P, q) => stream_has_data_to_send(M, r)
      BY <1>4, <1>5, <3>1, <3>2
         DEF stream_has_data_to_send, ossl_quic_txfc_get_credit
    <3> QED
      BY <1>5, <3>1, <3>3
         DEF should_be_active, is_local_allowed_by_stream_limit, r
  <2>3. OnlyEmptyFin(r) <=> OnlyEmptyFin(q)
    BY <1>5 DEF OnlyEmptyFin
  <2> QED
    BY <1>1, <1>6, <2>1, <2>2, <2>3, ChangeOnly DEF r
<1>9. Turns(M, M, D)
  BY TurnsSame
<1> HIDE DEF U, P
<1> QED
  BY <1>2, <1>3, <1>7, <1>8, <1>9

\* A STOP_SENDING or RESET_STREAM frame is acknowledged.
LEMMA AckedAbortGood ==
    ASSUME NEW D \in SUBSET (0..MaxStreamId), NEW M, Fine(M, D), NEW f,
           FrameGood(f, M)
    PROVE  Turns(M, AckedAbort(M, f), D)
<1> DEFINE s == f.id
           r == M.str[s]
           a == r.acked_stop_sending \/ f.stop
           z == IF f.reset /\ r.send = "RESET_SENT" THEN "RESET_RECVD" ELSE r.send
           q == [r EXCEPT !.acked_stop_sending = a, !.send = z]
           U == ossl_quic_stream_map_update_state(Put(M, s, q), s)
<1>1. /\ M \in MapsOn(D) /\ s \in D /\ r \in StreamRecs /\ f \in Frames
      /\ StreamGood(r) /\ FlushGood(r)
  BY FineStreams DEF FrameGood
<1>2. AckedAbort(M, f) = IF has_send_buffer(r) /\ (f.stop \/ f.reset) THEN U ELSE M
  BY DEF AckedAbort, Put
<1>3. CASE has_send_buffer(r)
  <2>1. z = r.send
    BY <1>3 DEF has_send_buffer
  <2>2. a \in BOOLEAN
    OBVIOUS
  <2> HIDE DEF r, a, z
  <2>3. /\ q \in StreamRecs /\ q.send = r.send /\ q.fin = r.fin
        /\ q.deleted = r.deleted /\ q.want_reset_stream = r.want_reset_stream
        /\ q.shutdown_flush = r.shutdown_flush
        /\ q.ready_for_gc = r.ready_for_gc
        /\ q.empty_fin = r.empty_fin
    BY <1>1, <2>1, <2>2 DEF StreamRecs
  <2> HIDE DEF q
  <2>4. MayBecome(r, q) /\ (q.shutdown_flush => q.send \in {"SEND", "DATA_SENT"})
    BY <1>1, <2>3, SendSame
  <2>5. Turns(M, U, D)
    BY <1>1, <2>4, ChangeAndUpdate DEF r
  <2>6. Turns(M, M, D)
    BY TurnsSame
  <2> HIDE DEF U
  <2> QED
    BY <1>2, <2>5, <2>6
<1> QED
  BY <1>2, <1>3, TurnsSame

\* The data of a stream is lost.
LEMMA LostDataGood ==
    ASSUME NEW D \in SUBSET (0..MaxStreamId), NEW M, Fine(M, D), NEW f,
           FrameGood(f, M)
    PROVE  Turns(M, LostData(M, f), D)
<1> DEFINE s == f.id
           r == M.str[s]
           u == r.new \cup f.units
           z == IF f.fin /\ r.fin = "sent" THEN "queued" ELSE r.fin
           q == [r EXCEPT !.new = u, !.fin = z, !.want_max_stream_data = TRUE]
           U == ossl_quic_stream_map_update_state(Put(M, s, q), s)
<1>1. /\ M \in MapsOn(D) /\ s \in D /\ r \in StreamRecs /\ f \in Frames
      /\ StreamGood(r) /\ FlushGood(r)
  BY FineStreams DEF FrameGood
<1>2. LostData(M, f) = M \/ LostData(M, f) = U
  BY DEF LostData, Put
<1>3. /\ u \in SUBSET (1..MaxUnits) /\ z \in {"none", "queued", "sent", "acked"}
      /\ z = "none" <=> r.fin = "none"
  BY <1>1 DEF StreamRecs, Frames
<1> HIDE DEF r, u, z
<1>4. /\ q \in StreamRecs /\ q.send = r.send /\ q.fin = z
      /\ q.deleted = r.deleted /\ q.want_reset_stream = r.want_reset_stream
      /\ q.shutdown_flush = r.shutdown_flush /\ q.ready_for_gc = r.ready_for_gc
      /\ q.empty_fin = r.empty_fin
  BY <1>1, <1>3 DEF StreamRecs
<1> HIDE DEF q
<1>5. MayBecome(r, q) /\ (q.shutdown_flush => q.send \in {"SEND", "DATA_SENT"})
  <2>1. send_is_reset(r) <=> send_is_reset(q)
    BY <1>4 DEF send_is_reset
  <2>2. Ended(r) => Ended(q)
    BY <1>3, <1>4, <2>1 DEF Ended, send_get_final_size
  <2>3. StreamGood(q)
    BY <1>1, <1>3, <1>4, <2>2 DEF StreamGood
  <2> QED
    BY <1>1, <1>4, <2>1, <2>2, <2>3
       DEF MayBecome, FlushGood, eligible_for_shutdown_flush
<1>6. Turns(M, U, D)
  BY <1>1, <1>5, ChangeAndUpdate DEF r
<1>7. Turns(M, M, D)
  BY TurnsSame
<1> HIDE DEF U
<1> QED
  BY <1>2, <1>6, <1>7

\* A STOP_SENDING or RESET_STREAM frame is lost.  The stream of a RESET_STREAM
\* frame has no send buffer and is skipped.
LEMMA LostAbortGood ==
    ASSUME NEW D \in SUBSET (0..MaxStreamId), NEW M, Fine(M, D), NEW f,
           FrameGood(f, M)
    PROVE  Turns(M, LostAbort(M, f), D)
<1> DEFINE s == f.id
           M1 == IF f.stop THEN ossl_quic_stream_map_schedule_stop_sending(M, s)
                           ELSE M
           r == M1.str[s]
           a == r.want_reset_stream \/ f.reset
           q == [r EXCEPT !.want_reset_stream = a, !.want_max_stream_data = TRUE]
           U == ossl_quic_stream_map_update_state(Put(M1, s, q), s)
<1>1. s \in D /\ (f.reset => send_is_reset(M.str[s])) /\ f \in Frames
  BY FineStreams DEF FrameGood
<1>2. Turns(M, M1, D)
  BY <1>1, ScheduleStopGood, TurnsSame
<1>3. r \in StreamRecs /\ StreamGood(r) /\ FlushGood(r)
  <2> HIDE DEF M1
  <2> QED
    BY <1>1, <1>2, FineStreams DEF Turns
<1>4. LostAbort(M, f) =
        IF has_send_buffer(M.str[s]) /\ (f.stop \/ f.reset) THEN U ELSE M
  BY DEF LostAbort, Put
<1>5. CASE has_send_buffer(M.str[s])
  <2>1. ~f.reset
    BY <1>1, <1>5 DEF has_send_buffer, send_is_reset
  <2>2. a \in BOOLEAN /\ (a => r.want_reset_stream)
    BY <2>1
  <2> HIDE DEF M1, r, a
  <2>3. /\ q \in StreamRecs /\ q.send = r.send /\ q.fin = r.fin
        /\ q.deleted = r.deleted /\ q.want_reset_stream = a
        /\ q.shutdown_flush = r.shutdown_flush
        /\ q.ready_for_gc = r.ready_for_gc
        /\ q.empty_fin = r.empty_fin
    BY <1>3, <2>2 DEF StreamRecs
  <2> HIDE DEF q
  <2>4. MayBecome(r, q) /\ (q.shutdown_flush => q.send \in {"SEND", "DATA_SENT"})
    BY <1>3, <2>2, <2>3, SendSame
  <2>5. Turns(M1, U, D)
    BY <1>1, <1>2, <2>4, ChangeAndUpdate DEF r, Turns
  <2>6. Turns(M, U, D) /\ Turns(M, M, D)
    BY <1>2, <2>5, TurnsTransitive, TurnsSame DEF Turns
  <2> HIDE DEF U
  <2> QED
    BY <1>4, <2>6
<1> QED
  BY <1>4, <1>5, TurnsSame

-----------------------------------------------------------------------------
(***************************************************************************)
(* The frames of a packet, one after the other                             *)
(***************************************************************************)

\* A packet stays what it is.
LEMMA PacketStays ==
    ASSUME NEW p, NEW M, NEW N, PacketGood(p, M), Advances(M, N)
    PROVE  PacketGood(p, N)
BY FrameStays DEF PacketGood

\* Its frames may be taken in reverse.
LEMMA ReverseGood ==
    ASSUME NEW p, NEW M, PacketGood(p, M)
    PROVE  PacketGood(Reverse(p), M)
<1> DEFINE n == Len(p)
           q == Reverse(p)
<1>1. n \in Nat /\ p \in Seq(Frames) /\ \A i \in 1..n : FrameGood(p[i], M)
  BY DEF PacketGood
<1>2. q = [i \in 1..n |-> p[(n - i) + 1]]
  BY DEF Reverse
<1>3. \A i \in 1..n : (n - i) + 1 \in 1..n
  BY <1>1
<1> HIDE DEF n, q
<1>4. \A i \in 1..n : FrameGood(q[i], M) /\ q[i] \in Frames
  BY <1>1, <1>2, <1>3 DEF FrameGood
<1>5. q \in Seq(Frames) /\ Len(q) = n
  BY <1>1, <1>2, <1>4
<1> QED
  BY <1>4, <1>5 DEF q, PacketGood

\* The bookkeeping for all frames of a packet.
LEMMA EachCommit ==
    ASSUME NEW D \in SUBSET (0..MaxStreamId), NEW M, Fine(M, D), NEW p,
           PacketGood(p, M)
    PROVE  Turns(M, ForEach(txp_pkt_commit, M, p), D)
<1> DEFINE n == Len(p)
           S == {N \in MapsOn(D) : Turns(M, N, D)}
           Computes(g) == g = [i \in 0..n |-> IF i = 0 THEN M
                                              ELSE txp_pkt_commit(g[i - 1], p[i])]
           after == CHOOSE g : Computes(g)
<1>1. M \in S /\ n \in Nat
  BY TurnsSame, FineStreams DEF PacketGood
<1>2. ASSUME NEW N \in S, NEW i \in 1..n PROVE txp_pkt_commit(N, p[i]) \in S
  <2>1. Fine(N, D) /\ Advances(M, N)
    BY <1>2 DEF Turns
  <2>2. FrameGood(p[i], N)
    BY <2>1, FrameStays DEF PacketGood
  <2>3. Turns(N, txp_pkt_commit(N, p[i]), D)
    BY <2>1, <2>2, CommitGood
  <2>4. Turns(M, txp_pkt_commit(N, p[i]), D)
    BY <2>1, <2>3, TurnsTransitive
  <2> QED
    BY <2>4, FineStreams DEF Turns
<1>3. \E g : Computes(g)
  <2> DEFINE G == [i \in 1..n |-> [N \in S |-> txp_pkt_commit(N, p[i])]]
  <2> HIDE DEF S
  <2>1. G \in [1..n -> [S -> S]]
    BY <1>2
  <2>2. PICK g : IsLoop(g, n, S, M, G)
    <3> HIDE DEF G, n
    <3> QED
      BY <1>1, <2>1, LoopExists
  <2>3. ASSUME NEW i \in 1..n PROVE g[i] = txp_pkt_commit(g[i - 1], p[i])
    <3>1. i - 1 \in 0..n
      OBVIOUS
    <3>2. g[i - 1] \in S
      BY <2>2, <3>1 DEF IsLoop
    <3>3. G[i][g[i - 1]] = txp_pkt_commit(g[i - 1], p[i])
      BY <3>2
    <3> QED
      BY <2>2, <3>3 DEF IsLoop
  <2> QED
    BY <2>2, <2>3 DEF IsLoop
<1>4. Computes(after)
  BY <1>3
<1>5. after[n] \in S
  <2> HIDE DEF after, S
  <2>1. after[0] \in S
    BY <1>1, <1>4
  <2>2. \A i \in 1..n : after[i - 1] \in S => after[i] \in S
    BY <1>2, <1>4
  <2>3. \A i \in 0..n : after[i] \in S
    BY <1>1, <2>1, <2>2, LoopInvariant
  <2> QED
    BY <1>1, <2>3
<1>6. ForEach(txp_pkt_commit, M, p) = after[n]
  BY DEF ForEach
<1> QED
  BY <1>5, <1>6

\* The data of all frames is acknowledged.
LEMMA EachAckedData ==
    ASSUME NEW D \in SUBSET (0..MaxStreamId), NEW M, Fine(M, D), NEW p,
           PacketGood(p, M)
    PROVE  Turns(M, ForEach(AckedData, M, p), D)
<1> DEFINE n == Len(p)
           S == {N \in MapsOn(D) : Turns(M, N, D)}
           Computes(g) == g = [i \in 0..n |-> IF i = 0 THEN M
                                              ELSE AckedData(g[i - 1], p[i])]
           after == CHOOSE g : Computes(g)
<1>1. M \in S /\ n \in Nat
  BY TurnsSame, FineStreams DEF PacketGood
<1>2. ASSUME NEW N \in S, NEW i \in 1..n PROVE AckedData(N, p[i]) \in S
  <2>1. Fine(N, D) /\ Advances(M, N)
    BY <1>2 DEF Turns
  <2>2. FrameGood(p[i], N)
    BY <2>1, FrameStays DEF PacketGood
  <2>3. Turns(N, AckedData(N, p[i]), D)
    BY <2>1, <2>2, AckedDataGood
  <2>4. Turns(M, AckedData(N, p[i]), D)
    BY <2>1, <2>3, TurnsTransitive
  <2> QED
    BY <2>4, FineStreams DEF Turns
<1>3. \E g : Computes(g)
  <2> DEFINE G == [i \in 1..n |-> [N \in S |-> AckedData(N, p[i])]]
  <2> HIDE DEF S
  <2>1. G \in [1..n -> [S -> S]]
    BY <1>2
  <2>2. PICK g : IsLoop(g, n, S, M, G)
    <3> HIDE DEF G, n
    <3> QED
      BY <1>1, <2>1, LoopExists
  <2>3. ASSUME NEW i \in 1..n PROVE g[i] = AckedData(g[i - 1], p[i])
    <3>1. i - 1 \in 0..n
      OBVIOUS
    <3>2. g[i - 1] \in S
      BY <2>2, <3>1 DEF IsLoop
    <3>3. G[i][g[i - 1]] = AckedData(g[i - 1], p[i])
      BY <3>2
    <3> QED
      BY <2>2, <3>3 DEF IsLoop
  <2> QED
    BY <2>2, <2>3 DEF IsLoop
<1>4. Computes(after)
  BY <1>3
<1>5. after[n] \in S
  <2> HIDE DEF after, S
  <2>1. after[0] \in S
    BY <1>1, <1>4
  <2>2. \A i \in 1..n : after[i - 1] \in S => after[i] \in S
    BY <1>2, <1>4
  <2>3. \A i \in 0..n : after[i] \in S
    BY <1>1, <2>1, <2>2, LoopInvariant
  <2> QED
    BY <1>1, <2>3
<1>6. ForEach(AckedData, M, p) = after[n]
  BY DEF ForEach
<1> QED
  BY <1>5, <1>6

\* All frames about the end of a stream are acknowledged.
LEMMA EachAckedAbort ==
    ASSUME NEW D \in SUBSET (0..MaxStreamId), NEW M, Fine(M, D), NEW p,
           PacketGood(p, M)
    PROVE  Turns(M, ForEach(AckedAbort, M, p), D)
<1> DEFINE n == Len(p)
           S == {N \in MapsOn(D) : Turns(M, N, D)}
           Computes(g) == g = [i \in 0..n |-> IF i = 0 THEN M
                                              ELSE AckedAbort(g[i - 1], p[i])]
           after == CHOOSE g : Computes(g)
<1>1. M \in S /\ n \in Nat
  BY TurnsSame, FineStreams DEF PacketGood
<1>2. ASSUME NEW N \in S, NEW i \in 1..n PROVE AckedAbort(N, p[i]) \in S
  <2>1. Fine(N, D) /\ Advances(M, N)
    BY <1>2 DEF Turns
  <2>2. FrameGood(p[i], N)
    BY <2>1, FrameStays DEF PacketGood
  <2>3. Turns(N, AckedAbort(N, p[i]), D)
    BY <2>1, <2>2, AckedAbortGood
  <2>4. Turns(M, AckedAbort(N, p[i]), D)
    BY <2>1, <2>3, TurnsTransitive
  <2> QED
    BY <2>4, FineStreams DEF Turns
<1>3. \E g : Computes(g)
  <2> DEFINE G == [i \in 1..n |-> [N \in S |-> AckedAbort(N, p[i])]]
  <2> HIDE DEF S
  <2>1. G \in [1..n -> [S -> S]]
    BY <1>2
  <2>2. PICK g : IsLoop(g, n, S, M, G)
    <3> HIDE DEF G, n
    <3> QED
      BY <1>1, <2>1, LoopExists
  <2>3. ASSUME NEW i \in 1..n PROVE g[i] = AckedAbort(g[i - 1], p[i])
    <3>1. i - 1 \in 0..n
      OBVIOUS
    <3>2. g[i - 1] \in S
      BY <2>2, <3>1 DEF IsLoop
    <3>3. G[i][g[i - 1]] = AckedAbort(g[i - 1], p[i])
      BY <3>2
    <3> QED
      BY <2>2, <3>3 DEF IsLoop
  <2> QED
    BY <2>2, <2>3 DEF IsLoop
<1>4. Computes(after)
  BY <1>3
<1>5. after[n] \in S
  <2> HIDE DEF after, S
  <2>1. after[0] \in S
    BY <1>1, <1>4
  <2>2. \A i \in 1..n : after[i - 1] \in S => after[i] \in S
    BY <1>2, <1>4
  <2>3. \A i \in 0..n : after[i] \in S
    BY <1>1, <2>1, <2>2, LoopInvariant
  <2> QED
    BY <1>1, <2>3
<1>6. ForEach(AckedAbort, M, p) = after[n]
  BY DEF ForEach
<1> QED
  BY <1>5, <1>6

\* The data of all frames is lost.
LEMMA EachLostData ==
    ASSUME NEW D \in SUBSET (0..MaxStreamId), NEW M, Fine(M, D), NEW p,
           PacketGood(p, M)
    PROVE  Turns(M, ForEach(LostData, M, p), D)
<1> DEFINE n == Len(p)
           S == {N \in MapsOn(D) : Turns(M, N, D)}
           Computes(g) == g = [i \in 0..n |-> IF i = 0 THEN M
                                              ELSE LostData(g[i - 1], p[i])]
           after == CHOOSE g : Computes(g)
<1>1. M \in S /\ n \in Nat
  BY TurnsSame, FineStreams DEF PacketGood
<1>2. ASSUME NEW N \in S, NEW i \in 1..n PROVE LostData(N, p[i]) \in S
  <2>1. Fine(N, D) /\ Advances(M, N)
    BY <1>2 DEF Turns
  <2>2. FrameGood(p[i], N)
    BY <2>1, FrameStays DEF PacketGood
  <2>3. Turns(N, LostData(N, p[i]), D)
    BY <2>1, <2>2, LostDataGood
  <2>4. Turns(M, LostData(N, p[i]), D)
    BY <2>1, <2>3, TurnsTransitive
  <2> QED
    BY <2>4, FineStreams DEF Turns
<1>3. \E g : Computes(g)
  <2> DEFINE G == [i \in 1..n |-> [N \in S |-> LostData(N, p[i])]]
  <2> HIDE DEF S
  <2>1. G \in [1..n -> [S -> S]]
    BY <1>2
  <2>2. PICK g : IsLoop(g, n, S, M, G)
    <3> HIDE DEF G, n
    <3> QED
      BY <1>1, <2>1, LoopExists
  <2>3. ASSUME NEW i \in 1..n PROVE g[i] = LostData(g[i - 1], p[i])
    <3>1. i - 1 \in 0..n
      OBVIOUS
    <3>2. g[i - 1] \in S
      BY <2>2, <3>1 DEF IsLoop
    <3>3. G[i][g[i - 1]] = LostData(g[i - 1], p[i])
      BY <3>2
    <3> QED
      BY <2>2, <3>3 DEF IsLoop
  <2> QED
    BY <2>2, <2>3 DEF IsLoop
<1>4. Computes(after)
  BY <1>3
<1>5. after[n] \in S
  <2> HIDE DEF after, S
  <2>1. after[0] \in S
    BY <1>1, <1>4
  <2>2. \A i \in 1..n : after[i - 1] \in S => after[i] \in S
    BY <1>2, <1>4
  <2>3. \A i \in 0..n : after[i] \in S
    BY <1>1, <2>1, <2>2, LoopInvariant
  <2> QED
    BY <1>1, <2>3
<1>6. ForEach(LostData, M, p) = after[n]
  BY DEF ForEach
<1> QED
  BY <1>5, <1>6

\* All frames about the end of a stream are lost.
LEMMA EachLostAbort ==
    ASSUME NEW D \in SUBSET (0..MaxStreamId), NEW M, Fine(M, D), NEW p,
           PacketGood(p, M)
    PROVE  Turns(M, ForEach(LostAbort, M, p), D)
<1> DEFINE n == Len(p)
           S == {N \in MapsOn(D) : Turns(M, N, D)}
           Computes(g) == g = [i \in 0..n |-> IF i = 0 THEN M
                                              ELSE LostAbort(g[i - 1], p[i])]
           after == CHOOSE g : Computes(g)
<1>1. M \in S /\ n \in Nat
  BY TurnsSame, FineStreams DEF PacketGood
<1>2. ASSUME NEW N \in S, NEW i \in 1..n PROVE LostAbort(N, p[i]) \in S
  <2>1. Fine(N, D) /\ Advances(M, N)
    BY <1>2 DEF Turns
  <2>2. FrameGood(p[i], N)
    BY <2>1, FrameStays DEF PacketGood
  <2>3. Turns(N, LostAbort(N, p[i]), D)
    BY <2>1, <2>2, LostAbortGood
  <2>4. Turns(M, LostAbort(N, p[i]), D)
    BY <2>1, <2>3, TurnsTransitive
  <2> QED
    BY <2>4, FineStreams DEF Turns
<1>3. \E g : Computes(g)
  <2> DEFINE G == [i \in 1..n |-> [N \in S |-> LostAbort(N, p[i])]]
  <2> HIDE DEF S
  <2>1. G \in [1..n -> [S -> S]]
    BY <1>2
  <2>2. PICK g : IsLoop(g, n, S, M, G)
    <3> HIDE DEF G, n
    <3> QED
      BY <1>1, <2>1, LoopExists
  <2>3. ASSUME NEW i \in 1..n PROVE g[i] = LostAbort(g[i - 1], p[i])
    <3>1. i - 1 \in 0..n
      OBVIOUS
    <3>2. g[i - 1] \in S
      BY <2>2, <3>1 DEF IsLoop
    <3>3. G[i][g[i - 1]] = LostAbort(g[i - 1], p[i])
      BY <3>2
    <3> QED
      BY <2>2, <3>3 DEF IsLoop
  <2> QED
    BY <2>2, <2>3 DEF IsLoop
<1>4. Computes(after)
  BY <1>3
<1>5. after[n] \in S
  <2> HIDE DEF after, S
  <2>1. after[0] \in S
    BY <1>1, <1>4
  <2>2. \A i \in 1..n : after[i - 1] \in S => after[i] \in S
    BY <1>2, <1>4
  <2>3. \A i \in 0..n : after[i] \in S
    BY <1>1, <2>1, <2>2, LoopInvariant
  <2> QED
    BY <1>1, <2>3
<1>6. ForEach(LostAbort, M, p) = after[n]
  BY DEF ForEach
<1> QED
  BY <1>5, <1>6

-----------------------------------------------------------------------------
(***************************************************************************)
(* Loops over streams                                                      *)
(***************************************************************************)

\* After a visit, the streams visited are served.
LEMMA VisitGood ==
    ASSUME NEW D \in SUBSET (0..MaxStreamId), NEW M, NEW X, NEW S,
           MapGood(M, D, {}), Served(M, X), X \cap D \subseteq S
    PROVE  Turns(M, VisitUpdate(M, S), D)
<1> DEFINE n == MaxStreamId + 1
           Y(i) == {t \in X : ~(t \in S /\ t < i)}
           Step(N, i) == IF i - 1 \in S /\ Exists(M, i - 1)
                         THEN ossl_quic_stream_map_update_state(N, i - 1) ELSE N
           T == {N \in MapsOn(D) : MapGood(N, D, {}) /\ Advances(M, N)}
           W == [i \in 0..n |-> {N \in T : Served(N, Y(i))}]
           Computes(g) == g = [i \in 0..n |->
                IF i = 0 THEN M
                ELSE IF i - 1 \in S /\ Exists(M, i - 1)
                THEN ossl_quic_stream_map_update_state(g[i - 1], i - 1)
                ELSE g[i - 1]]
           after == CHOOSE g : Computes(g)
<1>1. M \in T /\ n \in Nat /\ DOMAIN M.str = D
  BY AdvancesSame, StreamMapAssumption DEF MapGood, MapsOn
<1>2. ASSUME NEW N \in T, NEW Z, Served(N, Z), NEW s \in D
      PROVE  /\ ossl_quic_stream_map_update_state(N, s) \in T
             /\ Served(ossl_quic_stream_map_update_state(N, s), Z \ {s})
  <2>1. MapGood(N, D, {}) /\ Advances(M, N)
    BY <1>2
  <2>2. MapGood(N, D, {s})
    BY <2>1 DEF MapGood
  <2>3. N.str[s].shutdown_flush => N.str[s].send \in {"SEND", "DATA_SENT"}
    BY <2>1 DEF MapGood, FlushGood, eligible_for_shutdown_flush
  <2> DEFINE U == ossl_quic_stream_map_update_state(N, s)
  <2>4. MapGood(U, D, {}) /\ Served(U, Z \ {s}) /\ Advances(N, U)
    BY <1>2, <2>2, <2>3, UpdateGood
  <2> HIDE DEF U
  <2>5. Advances(M, U) /\ U \in MapsOn(D)
    BY <2>1, <2>4, AdvancesTransitive DEF MapGood
  <2> QED
    BY <2>4, <2>5 DEF U
<1>3. ASSUME NEW N \in T PROVE Served(N, D)
  BY <1>3 DEF Served, MapsOn
<1>4. ASSUME NEW N \in T, NEW i \in 1..n PROVE Step(N, i) \in T
  BY <1>1, <1>2, <1>3 DEF Exists
<1>5. ASSUME NEW i \in 1..n, NEW N \in W[i - 1] PROVE Step(N, i) \in W[i]
  <2>1. i - 1 \in 0..n /\ i \in 0..n /\ i \in Int
    <3> HIDE DEF n
    <3> QED
      BY <1>1
  <2>2. N \in T /\ Served(N, Y(i - 1))
    BY <1>5, <2>1
  <2>3. CASE i - 1 \in S /\ Exists(M, i - 1)
    <3> DEFINE U == ossl_quic_stream_map_update_state(N, i - 1)
    <3>1. i - 1 \in D
      BY <1>1, <2>3 DEF Exists
    <3>2. U \in T /\ Served(U, Y(i - 1) \ {i - 1})
      <4> HIDE DEF T, Y
      <4> QED
        BY <1>2, <2>2, <3>1
    <3> HIDE DEF U, T
    <3>3. Served(U, Y(i))
      <4>1. ASSUME NEW t \in DOMAIN U.str \ Y(i)
            PROVE  t \notin Y(i - 1) \ {i - 1}
        <5>1. SUFFICES ASSUME t \in X, t \in S, t < i, ~(t < i - 1), t # i - 1
                       PROVE  FALSE
          BY <4>1
        <5>2. t \in D
          BY <3>2 DEF T, MapsOn
        <5>3. t \in Int
          BY <5>2
        <5> QED
          BY <2>1, <5>1, <5>3
      <4> HIDE DEF Y
      <4> QED
        BY <3>2, <4>1 DEF Served
    <3>4. Step(N, i) = U
      BY <2>3 DEF U
    <3> QED
      BY <2>1, <3>2, <3>3, <3>4
  <2>4. CASE ~(i - 1 \in S /\ Exists(M, i - 1))
    <3>1. Served(N, Y(i))
      <4>1. ASSUME NEW t \in DOMAIN N.str \ Y(i) PROVE t \notin Y(i - 1)
        <5>1. SUFFICES ASSUME t \in X, t \in S, t < i, ~(t < i - 1)
                       PROVE  FALSE
          BY <4>1
        <5>2. t \in D
          BY <2>2 DEF MapsOn
        <5>3. t \in Int /\ t # i - 1
          BY <1>1, <2>4, <5>1, <5>2 DEF Exists
        <5> QED
          BY <2>1, <5>1, <5>3
      <4> HIDE DEF Y
      <4> QED
        BY <2>2, <4>1 DEF Served
    <3>2. Step(N, i) = N
      BY <2>4
    <3> HIDE DEF T
    <3> QED
      BY <2>1, <2>2, <3>1, <3>2
  <2> QED
    BY <2>3, <2>4
<1>6. \E g : Computes(g)
  <2> DEFINE G == [i \in 1..n |-> [N \in T |-> Step(N, i)]]
  <2> HIDE DEF T
  <2>1. G \in [1..n -> [T -> T]]
    <3> HIDE DEF Step
    <3> QED
      BY <1>4
  <2>2. PICK g : IsLoop(g, n, T, M, G)
    <3> HIDE DEF G, n
    <3> QED
      BY <1>1, <2>1, LoopExists
  <2>3. ASSUME NEW i \in 1..n PROVE g[i] = Step(g[i - 1], i)
    <3>1. i - 1 \in 0..n
      BY <1>1
    <3>2. g[i - 1] \in T
      BY <2>2, <3>1 DEF IsLoop
    <3>3. G[i][g[i - 1]] = Step(g[i - 1], i)
      <4> HIDE DEF Step
      <4> QED
        BY <3>2
    <3> HIDE DEF Step, G
    <3> QED
      BY <2>2, <3>3 DEF IsLoop
  <2> HIDE DEF G, n
  <2>4. g = [i \in 0..n |->
                IF i = 0 THEN M
                ELSE IF i - 1 \in S /\ Exists(M, i - 1)
                THEN ossl_quic_stream_map_update_state(g[i - 1], i - 1)
                ELSE g[i - 1]]
    BY <1>1, <2>2, <2>3 DEF IsLoop
  <2> QED
    BY <2>4
<1>7. Computes(after)
  BY <1>6
<1>8. after[n] \in W[n]
  <2> HIDE DEF after, W, n
  <2>1. after[0] \in W[0]
    <3>1. Served(M, Y(0))
      <4>1. ASSUME NEW t \in DOMAIN M.str \ Y(0) PROVE t \notin X
        <5>1. DOMAIN M.str = D /\ D \subseteq Nat
          BY <1>1
        <5>2. t \in D /\ t \notin Y(0)
          <6> HIDE DEF Y
          <6> QED
            BY <4>1, <5>1
        <5>3. ~(t < 0)
          BY <5>1, <5>2
        <5> QED
          BY <5>2, <5>3
      <4> HIDE DEF Y
      <4> QED
        BY <4>1 DEF Served
    <3>2. 0 \in 0..n
      BY <1>1
    <3>3. after[0] = M
      BY <1>7, <3>2
    <3> HIDE DEF T
    <3> QED
      BY <1>1, <3>1, <3>2, <3>3 DEF W
  <2>2. \A i \in 1..n : after[i - 1] \in W[i - 1] => after[i] \in W[i]
    <3> SUFFICES ASSUME NEW i \in 1..n, after[i - 1] \in W[i - 1]
                 PROVE  after[i] \in W[i]
      OBVIOUS
    <3>1. after[i] = Step(after[i - 1], i)
      BY <1>1, <1>7
    <3> HIDE DEF Step
    <3> QED
      BY <1>5, <3>1
  <2>3. \A i \in 0..n : after[i] \in W[i]
    BY <1>1, <2>1, <2>2, LoopProgress
  <2> QED
    BY <1>1, <2>3
<1>9. VisitUpdate(M, S) = after[n]
  BY DEF VisitUpdate
<1> HIDE DEF after
<1>10. after[n] \in T /\ Served(after[n], Y(n))
  <2> HIDE DEF T, Y
  <2> QED
    BY <1>1, <1>8
<1>11. Served(after[n], {})
  <2>1. ASSUME NEW t \in DOMAIN after[n].str PROVE t \notin Y(n)
    <3>1. t \in D
      BY <1>10 DEF MapsOn
    <3>2. t \in 0..MaxStreamId /\ t < n
      BY <3>1, StreamMapAssumption
    <3> QED
      BY <3>1, <3>2
  <2> HIDE DEF Y
  <2> QED
    BY <1>10, <2>1 DEF Served
<1> QED
  BY <1>9, <1>10, <1>11 DEF Turns, Fine

\* The streams that a frame opens exist after it.
LEMMA CreateGood ==
    ASSUME MapIInv, NEW s \in Streams, NEW reject \in BOOLEAN
    PROVE  Turns(qsm, depack_do_implicit_stream_create(s, reject),
                 DOMAIN qsm.str \cup Missing(s))
<1> DEFINE n == s + 1
           D == DOMAIN qsm.str
           E(i) == D \cup {t \in Missing(s) : t < i}
           Step(N, i) ==
             IF i - 1 \notin Missing(s) THEN N
             ELSE IF ~reject THEN Opened(N, i - 1)
             ELSE ossl_quic_channel_reject_stream(Opened(N, i - 1), i - 1)
           T == UNION {MapsOn(F) : F \in SUBSET (0..MaxStreamId)}
           W == [i \in 0..n |-> {N \in MapsOn(E(i)) : Turns(qsm, N, E(i))}]
           Computes(g) == g = [i \in 0..n |->
             IF i = 0 THEN qsm
             ELSE IF i - 1 \notin Missing(s) THEN g[i - 1]
             ELSE IF ~reject THEN Opened(g[i - 1], i - 1)
             ELSE ossl_quic_channel_reject_stream(Opened(g[i - 1], i - 1), i - 1)]
           after == CHOOSE g : Computes(g)
<1>1. /\ Streams \subseteq 0..MaxStreamId /\ D \subseteq Streams /\ Fine(qsm, D)
      /\ Missing(s) \subseteq Streams \ D /\ \A t \in Missing(s) : t <= s
  BY DEF MapIInv, AppGood, Fine, Missing, Exists
<1>2. s \in Nat /\ n \in Nat /\ \A t \in Missing(s) : t \in Nat
  BY <1>1
<1>3. ASSUME NEW i \in 0..n PROVE E(i) \in SUBSET (0..MaxStreamId)
  BY <1>1
<1>4. ASSUME NEW i \in 1..n, NEW N \in W[i - 1] PROVE Step(N, i) \in W[i]
  <2>1. i - 1 \in 0..n /\ i \in 0..n /\ i \in Int
    BY <1>2
  <2>2. N \in MapsOn(E(i - 1)) /\ Turns(qsm, N, E(i - 1))
    <3> HIDE DEF E
    <3> QED
      BY <1>4, <2>1
  <2>3. CASE i - 1 \notin Missing(s)
    <3>1. E(i) = E(i - 1)
      <4>1. \A t \in Missing(s) : t < i <=> t < i - 1
        BY <1>2, <2>1, <2>3
      <4> QED
        BY <4>1
    <3> HIDE DEF E
    <3> QED
      BY <2>1, <2>2, <2>3, <3>1
  <2>4. CASE i - 1 \in Missing(s)
    <3> DEFINE O == Opened(N, i - 1)
               R == ossl_quic_channel_reject_stream(O, i - 1)
    <3>1. E(i) = E(i - 1) \cup {i - 1} /\ i - 1 \notin E(i - 1)
      <4>1. \A t \in Missing(s) : t < i <=> t < i - 1 \/ t = i - 1
        BY <1>2, <2>1
      <4>2. i - 1 \notin D /\ ~(i - 1 < i - 1)
        BY <1>1, <2>1, <2>4
      <4> QED
        BY <2>4, <4>1, <4>2
    <3>2. E(i) \in SUBSET (0..MaxStreamId) /\ i - 1 \in E(i)
      BY <1>3, <2>1, <3>1
    <3> HIDE DEF E
    <3>3. Turns(N, O, E(i))
      BY <2>1, <2>2, <3>1, OpenedGood DEF Turns
    <3> HIDE DEF O
    <3>4. Turns(O, R, E(i))
      BY <3>2, <3>3, RejectGood DEF Turns
    <3> HIDE DEF R
    <3>5. Turns(qsm, O, E(i)) /\ Turns(qsm, R, E(i))
      BY <2>2, <3>3, <3>4, AdvancesTransitive DEF Turns
    <3>6. O \in MapsOn(E(i)) /\ R \in MapsOn(E(i))
      BY <3>5, FineStreams DEF Turns
    <3>7. Step(N, i) = O \/ Step(N, i) = R
      BY <2>4 DEF O, R
    <3> HIDE DEF Step
    <3> QED
      BY <2>1, <3>5, <3>6, <3>7
  <2> QED
    BY <2>3, <2>4
<1>5. ASSUME NEW i \in 0..n, NEW N \in W[i] PROVE N \in T
  <2>1. N \in MapsOn(E(i))
    <3> HIDE DEF E
    <3> QED
      BY <1>5
  <2> HIDE DEF E
  <2> QED
    BY <1>3, <2>1
<1>6. qsm \in W[0]
  <2>1. E(0) = D
    BY <1>2
  <2>2. 0 \in 0..n
    BY <1>2
  <2>3. qsm \in MapsOn(D) /\ Turns(qsm, qsm, D)
    BY <1>1, FineStreams, TurnsSame
  <2> HIDE DEF E, D
  <2> QED
    BY <2>1, <2>2, <2>3
<1>7. \E g : Computes(g)
  <2> DEFINE G == [i \in 1..n |-> [N \in T |-> IF Step(N, i) \in T
                                               THEN Step(N, i) ELSE N]]
  <2>1. G \in [1..n -> [T -> T]]
    <3> HIDE DEF T, Step
    <3> QED
      OBVIOUS
  <2>2. PICK g : IsLoop(g, n, T, qsm, G)
    <3>1. qsm \in T
      <4>1. 0 \in 0..n
        BY <1>2
      <4> HIDE DEF T, W
      <4> QED
        BY <1>5, <1>6, <4>1
    <3> HIDE DEF G, n, T
    <3> QED
      BY <1>2, <2>1, <3>1, LoopExists
  <2> HIDE DEF T, W
  <2>3. ASSUME NEW i \in 1..n, g[i - 1] \in W[i - 1]
        PROVE  g[i] = Step(g[i - 1], i) /\ g[i] \in W[i]
    <3>1. i - 1 \in 0..n /\ i \in 0..n
      BY <1>2
    <3>2. g[i - 1] \in T /\ Step(g[i - 1], i) \in W[i]
      <4> HIDE DEF Step
      <4> QED
        BY <1>4, <1>5, <2>3, <3>1
    <3>3. Step(g[i - 1], i) \in T
      <4> HIDE DEF Step
      <4> QED
        BY <1>5, <3>1, <3>2
    <3>4. G[i][g[i - 1]] = Step(g[i - 1], i)
      <4> HIDE DEF Step
      <4> QED
        BY <3>2, <3>3
    <3> HIDE DEF Step, G
    <3> QED
      BY <2>2, <3>2, <3>4 DEF IsLoop
  <2> HIDE DEF G, n
  <2>4. g[0] \in W[0]
    BY <1>6, <2>2 DEF IsLoop
  <2>5. \A i \in 0..n : g[i] \in W[i]
    <3>1. \A i \in 1..n : g[i - 1] \in W[i - 1] => g[i] \in W[i]
      BY <2>3
    <3> QED
      BY <1>2, <2>4, <3>1, LoopProgress
  <2>6. \A i \in 1..n : g[i] = Step(g[i - 1], i)
    <3> SUFFICES ASSUME NEW i \in 1..n PROVE g[i] = Step(g[i - 1], i)
      OBVIOUS
    <3>1. i - 1 \in 0..n
      BY <1>2
    <3> HIDE DEF Step
    <3> QED
      BY <2>3, <2>5, <3>1
  <2>7. g = [i \in 0..n |->
             IF i = 0 THEN qsm
             ELSE IF i - 1 \notin Missing(s) THEN g[i - 1]
             ELSE IF ~reject THEN Opened(g[i - 1], i - 1)
             ELSE ossl_quic_channel_reject_stream(Opened(g[i - 1], i - 1), i - 1)]
    <3> DEFINE h == [i \in 0..n |->
                      IF i = 0 THEN qsm
                      ELSE IF i - 1 \notin Missing(s) THEN g[i - 1]
                      ELSE IF ~reject THEN Opened(g[i - 1], i - 1)
                      ELSE ossl_quic_channel_reject_stream(
                               Opened(g[i - 1], i - 1), i - 1)]
    <3>1. g = [i \in 0..n |-> g[i]] /\ g[0] = qsm
      BY <2>2 DEF IsLoop
    <3>2. h = [i \in 0..n |-> h[i]]
      OBVIOUS
    <3>3. ASSUME NEW i \in 0..n PROVE g[i] = h[i]
      <4>1. CASE i = 0
        BY <3>1, <4>1
      <4>2. CASE i # 0
        <5>1. i \in 1..n
          BY <1>2, <4>2
        <5>2. g[i] = Step(g[i - 1], i)
          BY <2>6, <5>1
        <5> QED
          BY <4>2, <5>2
      <4> QED
        BY <4>1, <4>2
    <3> HIDE DEF h
    <3>4. g = h
      BY <3>1, <3>2, <3>3
    <3> QED
      BY <3>4 DEF h
  <2> QED
    BY <2>7
<1>8. Computes(after)
  BY <1>7
<1>9. after[n] \in W[n]
  <2> HIDE DEF after, W, n
  <2>1. after[0] \in W[0]
    <3>1. 0 \in 0..n
      BY <1>2
    <3>2. after[0] = qsm
      BY <1>8, <3>1
    <3> QED
      BY <1>6, <3>2
  <2>2. \A i \in 1..n : after[i - 1] \in W[i - 1] => after[i] \in W[i]
    <3> SUFFICES ASSUME NEW i \in 1..n, after[i - 1] \in W[i - 1]
                 PROVE  after[i] \in W[i]
      OBVIOUS
    <3>1. after[i] = Step(after[i - 1], i)
      BY <1>2, <1>8
    <3> HIDE DEF Step
    <3> QED
      BY <1>4, <3>1
  <2>3. \A i \in 0..n : after[i] \in W[i]
    BY <1>2, <2>1, <2>2, LoopProgress
  <2> QED
    BY <1>2, <2>3
<1>10. depack_do_implicit_stream_create(s, reject) = after[n]
  BY DEF depack_do_implicit_stream_create
<1> HIDE DEF after
<1>11. Turns(qsm, after[n], E(n))
  <2> HIDE DEF E
  <2> QED
    BY <1>2, <1>9
<1>12. E(n) = D \cup Missing(s)
  <2>1. \A t \in Missing(s) : t < s + 1
    BY <1>1, <1>2
  <2> QED
    BY <2>1
<1> HIDE DEF E
<1> QED
  BY <1>10, <1>11, <1>12

\* The frames that a stream gets.
LEMMA FramesGood ==
    ASSUME NEW D \in SUBSET (0..MaxStreamId), NEW M, Fine(M, D), NEW s \in D,
           NEW used, NEW fit, NEW last
    PROVE  FrameGood(StreamFrames(M, s, used, fit, last), M)
<1> DEFINE r == M.str[s]
           u == IF fit >= 3 /\ has_send_buffer(r)
                THEN {v \in Sendable(M, s, used) : v <= last}
                ELSE {}
           a == fit >= 1 /\ r.want_stop_sending
           b == fit >= 2 /\ r.want_reset_stream
           c == fit >= 3 /\ r.recv = "RECV" /\ r.want_max_stream_data
           d == /\ fit >= 3 /\ last >= MaxUnits /\ has_send_buffer(r)
                /\ r.fin # "none" /\ u = r.new
                /\ r.fin = "queued" \/ r.size \in u
           f == StreamFrames(M, s, used, fit, last)
<1>1. DOMAIN M.str = D /\ r \in StreamRecs /\ StreamGood(r)
  BY FineStreams
<1>2. f = [id |-> s, stop |-> a, reset |-> b, fc |-> c, units |-> u, fin |-> d]
  BY DEF StreamFrames
<1>3. a \in BOOLEAN /\ b \in BOOLEAN /\ c \in BOOLEAN /\ d \in BOOLEAN
  OBVIOUS
<1>4. u \in SUBSET (1..MaxUnits)
  <2>1. r.new \in SUBSET (1..MaxUnits)
    BY <1>1 DEF StreamRecs
  <2> QED
    BY <2>1 DEF Sendable
<1>5. (b => r.want_reset_stream) /\ (d => r.fin # "none")
  OBVIOUS
<1> HIDE DEF a, b, c, d, u, f
<1>6. f \in Frames
  BY <1>2, <1>3, <1>4 DEF Frames
<1>7. f.id = s /\ f.reset = b /\ f.fin = d
  BY <1>2
<1>8. b => send_is_reset(r)
  BY <1>1, <1>5 DEF StreamGood, send_is_reset
<1>9. d => r.send # "READY" \/ r.empty_fin
  BY <1>1, <1>5 DEF StreamGood
<1>10. FrameGood(f, M)
  BY <1>1, <1>6, <1>7, <1>8, <1>9 DEF FrameGood
<1> QED
  BY <1>10 DEF f

\* The round robin visits streams that exist.
LEMMA RoundRobinVisits ==
    ASSUME NEW D, NEW M, Fine(M, D), NEW i \in 1..Len(M.active)
    PROVE  RoundRobin(M, i) \in D
<1> DEFINE n == Len(M.active)
           x == Position(M, M.rr_cur)
           j == x + i - 1
           k == IF j <= n THEN j ELSE j - n
<1>1. M.active \in Seq(D) /\ ListGood(M) /\ n \in Nat
  BY DEF Fine, MapGood, MapsOn
<1>2. M.active # <<>>
  BY <1>1
<1>3. x \in 1..n
  BY <1>1, <1>2, PositionIs DEF ListGood
<1>4. RoundRobin(M, i) = M.active[k]
  BY DEF RoundRobin
<1> HIDE DEF x
<1>5. k \in 1..n
  <2> HIDE DEF n
  <2>1. x \in Int /\ i \in Int /\ n \in Int /\ 1 <= x /\ x <= n /\ 1 <= i /\ i <= n
    BY <1>1, <1>3 DEF n
  <2> QED
    BY <2>1
<1> HIDE DEF k
<1> QED
  BY <1>1, <1>4, <1>5

\* One more frame in a packet.
LEMMA PacketGrows ==
    ASSUME NEW p, NEW M, PacketGood(p, M), NEW f, FrameGood(f, M)
    PROVE  PacketGood(Append(p, f), M)
<1>1. p \in Seq(Frames) /\ f \in Frames
  BY DEF PacketGood, FrameGood
<1>2. Append(p, f) \in Seq(Frames) /\ Len(Append(p, f)) = Len(p) + 1
  BY <1>1
<1>3. ASSUME NEW i \in 1..Len(Append(p, f)) PROVE FrameGood(Append(p, f)[i], M)
  <2>1. CASE i = Len(p) + 1
    BY <1>1, <2>1
  <2>2. CASE i # Len(p) + 1
    <3>1. i \in 1..Len(p) /\ Append(p, f)[i] = p[i]
      BY <1>1, <1>2, <2>2
    <3> QED
      BY <3>1 DEF PacketGood
  <2> QED
    BY <2>1, <2>2
<1> QED
  BY <1>2, <1>3 DEF PacketGood

\* The packet that is built.
LEMMA PacketBuilt ==
    ASSUME NEW D \in SUBSET (0..MaxStreamId), NEW M, Fine(M, D), NEW k \in Nat,
           k <= Len(M.active), NEW fit, NEW last
    PROVE  /\ PacketGood(txp_generate_stream_related(M, k, fit, last).frames, M)
           /\ PacketGood(txp_generate_stream_related(M, k, fit, last).chunks, M)
<1> DEFINE P == [frames : Seq(Frames), chunks : Seq(Frames), used : Nat]
           S == {a \in P : PacketGood(a.frames, M) /\ PacketGood(a.chunks, M)}
           F(a, i) == IF i < k
                      THEN StreamFrames(M, RoundRobin(M, i), a.used, 3, MaxUnits)
                      ELSE StreamFrames(M, RoundRobin(M, i), a.used, fit, last)
           Step(a, i) ==
             [frames |-> Append(a.frames, F(a, i)),
              chunks |-> IF HasChunk(F(a, i)) THEN Append(a.chunks, F(a, i))
                         ELSE a.chunks,
              used |-> a.used + Cardinality(NewUnits(M.str[RoundRobin(M, i)],
                                                     F(a, i).units))]
           Z == [frames |-> <<>>, chunks |-> <<>>, used |-> 0]
           Computes(g) ==
             g = [i \in 0..k |-> IF i = 0 THEN Z ELSE Step(g[i - 1], i)]
           after == CHOOSE g : Computes(g)
<1>1. Z \in S
  <2>1. PacketGood(<<>>, M)
    BY DEF PacketGood
  <2>2. <<>> \in Seq(Frames)
    OBVIOUS
  <2> QED
    BY <2>1, <2>2
<1>2. ASSUME NEW a \in S, NEW i \in 1..k PROVE Step(a, i) \in S
  <2>1. i \in 1..Len(M.active)
    <3>1. M.active \in Seq(D)
      BY DEF Fine, MapGood, MapsOn
    <3> QED
      BY <3>1
  <2>2. RoundRobin(M, i) \in D
    BY <2>1, RoundRobinVisits
  <2>3. FrameGood(F(a, i), M)
    BY <2>2, FramesGood
  <2> DEFINE f == F(a, i)
             u == Cardinality(NewUnits(M.str[RoundRobin(M, i)], f.units))
             c == IF HasChunk(f) THEN Append(a.chunks, f) ELSE a.chunks
             b == Append(a.frames, f)
  <2> HIDE DEF F
  <2>4. Step(a, i) = [frames |-> b, chunks |-> c, used |-> a.used + u]
    OBVIOUS
  <2>5. f.units \in SUBSET (1..MaxUnits)
    BY <2>3 DEF FrameGood, Frames
  <2>6. a \in P /\ PacketGood(a.frames, M) /\ PacketGood(a.chunks, M)
    BY <1>2
  <2> HIDE DEF f, Step
  <2>7. u \in Nat
    <3>1. NewUnits(M.str[RoundRobin(M, i)], f.units) \in SUBSET (1..MaxUnits)
      BY <2>5 DEF NewUnits
    <3> QED
      BY <3>1, UnitsCounted
  <2>8. PacketGood(b, M) /\ PacketGood(Append(a.chunks, f), M)
    BY <2>3, <2>6, PacketGrows DEF f
  <2>9. PacketGood(c, M)
    BY <2>6, <2>8
  <2> HIDE DEF b, c, u
  <2>10. b \in Seq(Frames) /\ c \in Seq(Frames) /\ a.used + u \in Nat
    BY <2>6, <2>7, <2>8, <2>9 DEF PacketGood
  <2> QED
    BY <2>4, <2>8, <2>9, <2>10
<1> HIDE DEF F, Z
<1>3. \E g : Computes(g)
  <2> DEFINE G == [i \in 1..k |-> [a \in S |-> Step(a, i)]]
  <2> HIDE DEF S, Step
  <2>1. G \in [1..k -> [S -> S]]
    BY <1>2
  <2>2. PICK g : IsLoop(g, k, S, Z, G)
    <3> HIDE DEF G
    <3> QED
      BY <1>1, <2>1, LoopExists
  <2>3. ASSUME NEW i \in 1..k PROVE g[i] = Step(g[i - 1], i)
    <3>1. i - 1 \in 0..k
      OBVIOUS
    <3>2. g[i - 1] \in S
      BY <2>2, <3>1 DEF IsLoop
    <3>3. G[i][g[i - 1]] = Step(g[i - 1], i)
      BY <3>2
    <3> QED
      BY <2>2, <3>3 DEF IsLoop
  <2> QED
    BY <2>2, <2>3 DEF IsLoop
<1>4. Computes(after)
  <2> HIDE DEF Step
  <2> QED
    BY <1>3
<1>5. after[k] \in S
  <2> HIDE DEF after, S, Step
  <2>1. after[0] \in S
    BY <1>1, <1>4
  <2>2. \A i \in 1..k : after[i - 1] \in S => after[i] \in S
    BY <1>2, <1>4
  <2>3. \A i \in 0..k : after[i] \in S
    BY <2>1, <2>2, LoopInvariant
  <2> QED
    BY <2>3
<1>6. txp_generate_stream_related(M, k, fit, last) = after[k]
  BY DEF txp_generate_stream_related, F, Z
<1> HIDE DEF after
<1> QED
  BY <1>5, <1>6

-----------------------------------------------------------------------------
(***************************************************************************)
(* The steps of the specification                                          *)
(***************************************************************************)

\* What a step has to show: the map after it comes after the map before it,
\* the application holds streams that exist, and packets are in order.
LEMMA MapStepKeeps ==
    ASSUME MapIInv, NEW E, E \subseteq Streams, Turns(qsm, qsm', E),
           app' \in [Streams -> {"none", "queued", "held", "freed"}],
           \A s \in Streams : app'[s] \in {"queued", "held"} => s \in E,
           \A p \in pkts' : p \in pkts \/ PacketGood(p, qsm'),
           shutting_down' \in BOOLEAN
    PROVE  MapIInv'
<1>1. DOMAIN qsm'.str = E /\ Advances(qsm, qsm') /\ Fine(qsm', E)
  BY FineStreams DEF Turns
<1>2. Streams' = Streams
  BY DEF Streams
<1>3. AppGood'
  BY <1>1, <1>2 DEF AppGood, MapIInv, Exists
<1>4. \A p \in pkts' : PacketGood(p, qsm')
  BY <1>1, PacketStays DEF MapIInv
<1> QED
  BY <1>1, <1>2, <1>3, <1>4 DEF MapIInv, Fine

\* A step of the map alone.
LEMMA MapStep ==
    ASSUME MapIInv, Turns(qsm, qsm', DOMAIN qsm.str), app' = app,
           pkts' \subseteq pkts, shutting_down' \in BOOLEAN
    PROVE  MapIInv'
<1> DEFINE E == DOMAIN qsm.str
<1>1. E \subseteq Streams /\ AppGood
  BY DEF MapIInv
<1>2. /\ app' \in [Streams -> {"none", "queued", "held", "freed"}]
      /\ \A s \in Streams : app'[s] \in {"queued", "held"} => s \in E
  BY <1>1 DEF AppGood, Exists
<1>3. \A p \in pkts' : p \in pkts \/ PacketGood(p, qsm')
  OBVIOUS
<1> HIDE DEF E
<1>4. Turns(qsm, qsm', E)
  BY DEF E
<1> QED
  BY <1>1, <1>2, <1>3, <1>4, MapStepKeeps

\* The facts every step starts from.
LEMMA MapNow ==
    ASSUME MapIInv
    PROVE  /\ DOMAIN qsm.str \in SUBSET (0..MaxStreamId)
           /\ DOMAIN qsm.str \subseteq Streams
           /\ Streams \subseteq 0..MaxStreamId
           /\ app \in [Streams -> {"none", "queued", "held", "freed"}]
           /\ \A s \in Streams :
                app[s] \in {"queued", "held"} => s \in DOMAIN qsm.str
           /\ Fine(qsm, DOMAIN qsm.str)
           /\ \A p \in pkts : PacketGood(p, qsm)
           /\ shutting_down \in BOOLEAN
BY DEF MapIInv, AppGood, Fine, Exists

\* SSL_new_stream
LEMMA NewStreamKeeps ==
    ASSUME MapIInv, NEW s \in Streams, NewStream(s)
    PROVE  MapIInv'
<1> DEFINE D == DOMAIN qsm.str
           E == D \cup {s}
<1>1. s \in Int /\ s \notin D /\ D \subseteq Streams
  BY MapNow DEF NewStream, Exists
<1>2. Turns(qsm, qsm', E)
  <2>1. Fine(qsm, D) /\ qsm' = Opened(qsm, s)
    BY MapNow DEF NewStream
  <2> HIDE DEF D
  <2> QED
    BY <1>1, <2>1, OpenedGood
<1>3. /\ app' \in [Streams -> {"none", "queued", "held", "freed"}]
      /\ \A t \in Streams : app'[t] \in {"queued", "held"} => t \in E
  BY MapNow DEF NewStream
<1>4. \A p \in pkts' : p \in pkts \/ PacketGood(p, qsm')
  BY DEF NewStream
<1>5. shutting_down' \in BOOLEAN
  BY MapNow DEF NewStream
<1>6. E \subseteq Streams
  BY <1>1
<1> HIDE DEF E
<1> QED
  BY <1>2, <1>3, <1>4, <1>5, <1>6, MapStepKeeps

\* SSL_accept_stream
LEMMA AcceptStreamKeeps ==
    ASSUME MapIInv, NEW s \in Streams, AcceptStream(s)
    PROVE  MapIInv'
<1> DEFINE E == DOMAIN qsm.str
<1>1. Turns(qsm, qsm', E)
  BY MapNow, TurnsSame DEF AcceptStream
<1>2. /\ app' \in [Streams -> {"none", "queued", "held", "freed"}]
      /\ \A t \in Streams : app'[t] \in {"queued", "held"} => t \in E
  BY MapNow DEF AcceptStream
<1>3. \A p \in pkts' : p \in pkts \/ PacketGood(p, qsm')
  BY DEF AcceptStream
<1>4. shutting_down' \in BOOLEAN /\ E \subseteq Streams
  BY MapNow DEF AcceptStream
<1> HIDE DEF E
<1> QED
  BY <1>1, <1>2, <1>3, <1>4, MapStepKeeps

\* The end of a stream's flush changes nothing else about the stream.
LEMMA FlushDoneKeeps ==
    ASSUME NEW D, NEW M \in MapsOn(D), NEW s \in D,
           NEW N, N = shutdown_flush_done(M, s)
    PROVE  /\ N \in MapsOn(D)
           /\ N.str[s].send = M.str[s].send /\ N.str[s].new = M.str[s].new
<1>1. M.str \in [D -> StreamRecs] /\ M.str[s] \in StreamRecs
  BY DEF MapsOn
<1>2. CASE ~M.str[s].shutdown_flush
  BY <1>2 DEF shutdown_flush_done
<1>3. CASE M.str[s].shutdown_flush
  <2> DEFINE r == [M.str[s] EXCEPT !.shutdown_flush = FALSE]
             c == M.closing \/ M.num_shutdown_flush = 1
             k == M.num_shutdown_flush - 1
             g == [M.str EXCEPT ![s] = r]
  <2>1. N = [M EXCEPT !.str = g, !.num_shutdown_flush = k, !.closing = c]
    BY <1>3 DEF shutdown_flush_done
  <2>2. r \in StreamRecs /\ r.send = M.str[s].send /\ r.new = M.str[s].new
    BY <1>1 DEF StreamRecs
  <2> HIDE DEF r
  <2>3. c \in BOOLEAN
    OBVIOUS
  <2>4. k \in Int
    BY DEF MapsOn
  <2>5. g \in [D -> StreamRecs] /\ g[s] = r
    BY <1>1, <2>2
  <2> HIDE DEF c, k, g
  <2>6. N \in MapsOn(D) /\ N.str = g
    BY <2>1, <2>3, <2>4, <2>5 DEF MapsOn
  <2> QED
    BY <2>2, <2>5, <2>6
<1> QED
  BY <1>2, <1>3

\* An update of a stream leaves the units to be sent alone, unless it frees
\* the send buffer.
LEMMA UpdateUnits ==
    ASSUME NEW D, NEW M \in MapsOn(D), NEW s \in D,
           NEW N, N = ossl_quic_stream_map_update_state(M, s),
           has_send_buffer(N.str[s])
    PROVE  N.str[s].new = M.str[s].new
<1> DEFINE r == M.str[s]
           f == Freed(r, "DATA_RECVD")
           M1 == IF r.send = "DATA_SENT" /\ is_totally_acked(r)
                 THEN ossl_quic_stream_map_notify_totally_acked(M, s)
                 ELSE IF r.send = "SEND" /\ r.shutdown_flush /\ is_totally_acked(r)
                 THEN shutdown_flush_done(M, s)
                 ELSE M
<1>1. M.str \in [D -> StreamRecs] /\ r \in StreamRecs
  BY DEF MapsOn
<1>2. M1 \in MapsOn(D) /\ (has_send_buffer(M1.str[s]) => M1.str[s].new = r.new)
  <2>1. CASE r.send = "DATA_SENT" /\ is_totally_acked(r)
    <3>1. M1 = shutdown_flush_done(Put(M, s, f), s)
      BY <2>1 DEF ossl_quic_stream_map_notify_totally_acked, Put, Freed
    <3>2. f \in StreamRecs /\ f.send = "DATA_RECVD"
      <4>1. "DATA_RECVD" \in SendStates
        BY DEF SendStates
      <4> HIDE DEF r
      <4> QED
        BY <1>1, <4>1, FreedIs
    <3> HIDE DEF f, M1
    <3>3. Put(M, s, f) \in MapsOn(D) /\ Put(M, s, f).str[s] = f
      BY <3>2, PutIs
    <3>4. M1 \in MapsOn(D) /\ M1.str[s].send = "DATA_RECVD"
      BY <3>1, <3>2, <3>3, FlushDoneKeeps
    <3> QED
      BY <3>4 DEF has_send_buffer
  <2>2. CASE r.send = "SEND" /\ r.shutdown_flush /\ is_totally_acked(r)
    <3>1. M1 = shutdown_flush_done(M, s)
      BY <2>2
    <3> HIDE DEF M1
    <3> QED
      BY <3>1, FlushDoneKeeps
  <2>3. CASE /\ ~(r.send = "DATA_SENT" /\ is_totally_acked(r))
             /\ ~(r.send = "SEND" /\ r.shutdown_flush /\ is_totally_acked(r))
    BY <2>3
  <2> QED
    BY <2>1, <2>2, <2>3
<1> DEFINE q == M1.str[s]
           g == q.ready_for_gc \/ qsm_ready_for_gc(q)
           p == [q EXCEPT !.ready_for_gc = g]
           O == Put(M1, s, p)
<1>3. N = IF should_be_active(O, s)
          THEN stream_map_mark_active(O, s)
          ELSE stream_map_mark_inactive(O, s)
  BY DEF ossl_quic_stream_map_update_state, Put
<1>4. g \in BOOLEAN
  OBVIOUS
<1> HIDE DEF M1, g
<1>5. q \in StreamRecs
  BY <1>2 DEF MapsOn
<1> HIDE DEF q
<1>6. p \in StreamRecs /\ p.send = q.send /\ p.new = q.new
  BY <1>4, <1>5 DEF StreamRecs
<1> HIDE DEF p
<1>7. O \in MapsOn(D) /\ O.str[s] = p
  BY <1>2, <1>6, PutIs
<1> HIDE DEF O
<1>8. N.str = O.str
  BY <1>3, <1>7 DEF stream_map_mark_active, stream_map_mark_inactive, MapsOn
<1>9. has_send_buffer(q) /\ N.str[s].new = q.new
  BY <1>6, <1>7, <1>8 DEF has_send_buffer
<1> QED
  BY <1>2, <1>9 DEF q

\* A stream that is written to.
LEMMA WrittenTo ==
    ASSUME NEW q \in StreamRecs, StreamGood(q), has_send_buffer(q), q.fin = "none",
           NEW r \in StreamRecs,
           r.send = IF q.send = "READY" THEN "SEND" ELSE q.send,
           r.deleted = q.deleted, r.want_reset_stream = q.want_reset_stream,
           r.shutdown_flush = q.shutdown_flush, r.ready_for_gc = q.ready_for_gc,
           r.empty_fin = q.empty_fin
    PROVE  MayBecome(q, r) /\ r.send \in {"SEND", "DATA_SENT"}
<1>1. q.send \in {"READY", "SEND", "DATA_SENT"} /\ r.send \in {"SEND", "DATA_SENT"}
  BY DEF has_send_buffer
<1>2. ~send_is_reset(q)
  BY <1>1 DEF send_is_reset
<1>3. Ended(q) => q.send = "DATA_SENT"
  BY <1>1, <1>2 DEF Ended, send_get_final_size, StreamGood
<1>4. Ended(q) => Ended(r)
  BY <1>3 DEF Ended, send_get_final_size
<1>5. StreamGood(r)
  BY <1>1, <1>4 DEF StreamGood
<1> QED
  BY <1>1, <1>2, <1>4, <1>5 DEF MayBecome

\* SSL_write
LEMMA StreamWriteKeeps ==
    ASSUME MapIInv, NEW s \in Streams, NEW conclude \in BOOLEAN,
           StreamWrite(s, conclude)
    PROVE  MapIInv'
<1> DEFINE D == DOMAIN qsm.str
           q == qsm.str[s]
           n == q.size + 1
           r == [ensure_send_part_id(q) EXCEPT !.size = n, !.new = @ \cup {n}]
           Q == Put(qsm, s, r)
           M == ossl_quic_stream_map_update_state(Q, s)
           w == [M.str[s] EXCEPT !.fin = "queued"]
<1>1. D \in SUBSET (0..MaxStreamId) /\ s \in D /\ Fine(qsm, D)
  BY MapNow DEF StreamWrite, CanWrite
<1>2. /\ q \in StreamRecs /\ StreamGood(q) /\ has_send_buffer(q) /\ q.fin = "none"
      /\ q.size < MaxUnits /\ qsm \in MapsOn(D)
  BY <1>1, FineStreams DEF StreamWrite, CanWrite
<1>3. qsm' = IF conclude THEN Put(M, s, w) ELSE [M EXCEPT !.str[s].fin = @]
  BY DEF StreamWrite, Put
<1>4. n \in 1..MaxUnits
  BY <1>2, StreamMapAssumption DEF StreamRecs
<1> HIDE DEF D, q, n
<1>5. /\ r \in StreamRecs /\ r.send = (IF q.send = "READY" THEN "SEND" ELSE q.send)
      /\ r.deleted = q.deleted /\ r.want_reset_stream = q.want_reset_stream
      /\ r.shutdown_flush = q.shutdown_flush /\ r.ready_for_gc = q.ready_for_gc
      /\ r.empty_fin = q.empty_fin
      /\ n \in r.new
  <2> DEFINE e == ensure_send_part_id(q)
  <2>1. /\ e \in StreamRecs /\ e.send = (IF q.send = "READY" THEN "SEND" ELSE q.send)
        /\ e.deleted = q.deleted /\ e.want_reset_stream = q.want_reset_stream
        /\ e.shutdown_flush = q.shutdown_flush /\ e.ready_for_gc = q.ready_for_gc
        /\ e.empty_fin = q.empty_fin
    BY <1>2 DEF ensure_send_part_id, StreamRecs, SendStates
  <2>2. r = [e EXCEPT !.size = n, !.new = e.new \cup {n}]
    OBVIOUS
  <2> HIDE DEF e, r
  <2>3. n \in 0..MaxUnits /\ e.new \cup {n} \in SUBSET (1..MaxUnits)
    BY <1>4, <2>1 DEF StreamRecs
  <2>4. r \in StreamRecs
    BY <2>1, <2>2, <2>3 DEF StreamRecs
  <2>5. /\ r.send = e.send /\ r.deleted = e.deleted
        /\ r.want_reset_stream = e.want_reset_stream
        /\ r.shutdown_flush = e.shutdown_flush /\ r.ready_for_gc = e.ready_for_gc
        /\ r.empty_fin = e.empty_fin
        /\ r.new = e.new \cup {n}
    BY <2>1, <2>2 DEF StreamRecs
  <2> QED
    BY <2>1, <2>4, <2>5
<1> HIDE DEF r
<1>6. MayBecome(q, r) /\ r.send \in {"SEND", "DATA_SENT"}
  BY <1>2, <1>5, WrittenTo
<1>7. Turns(qsm, M, D)
  BY <1>1, <1>6, ChangeAndUpdate DEF q
<1>8. Q \in MapsOn(D) /\ Q.str[s] = r
  BY <1>1, <1>2, <1>5, PutIs
<1> HIDE DEF Q
<1>9. /\ M \in MapsOn(D) /\ DOMAIN M.str = D /\ M.str[s] \in StreamRecs
      /\ StreamGood(M.str[s]) /\ FlushGood(M.str[s]) /\ Fine(M, D)
  BY <1>1, <1>7, FineStreams DEF Turns
<1>10. Advances(Q, M)
  <2>1. MapGood(Q, D, {s}) /\ Served(Q, {s})
    <3>1. MapGood(qsm, D, {}) /\ Served(qsm, {})
      BY <1>1 DEF Fine
    <3>2. MapGood(Q, D, {} \cup {s})
      BY <1>1, <1>5, <1>6, <3>1, PutGood DEF Q, q, MayBecome
    <3>3. Served(Q, {} \cup {s})
      BY <1>1, <1>2, <1>5, <3>1, PutServed DEF Q
    <3>4. {} \cup {s} = {s}
      OBVIOUS
    <3> QED
      BY <3>2, <3>3, <3>4
  <2> HIDE DEF M
  <2>2. Q.str[s].shutdown_flush => Q.str[s].send \in {"SEND", "DATA_SENT"}
    BY <1>6, <1>8
  <2> QED
    BY <1>1, <2>1, <2>2, UpdateGood DEF M
<1>11. M.str[s].send # "READY"
  BY <1>1, <1>6, <1>8, <1>10 DEF Advances, MapsOn
<1>12. has_send_buffer(M.str[s]) => M.str[s].new # {}
  <2>1. has_send_buffer(M.str[s]) => M.str[s].new = r.new
    BY <1>1, <1>8, UpdateUnits
  <2> QED
    BY <1>5, <2>1
<1> HIDE DEF M
<1>13. Turns(M, Put(M, s, w), D)
  <2> DEFINE m == M.str[s]
  <2>1. /\ w \in StreamRecs /\ w.fin = "queued" /\ w.send = m.send
        /\ w.deleted = m.deleted /\ w.want_reset_stream = m.want_reset_stream
        /\ w.shutdown_flush = m.shutdown_flush /\ w.ready_for_gc = m.ready_for_gc
        /\ w.empty_fin = m.empty_fin
        /\ w.new = m.new /\ w.recv = m.recv /\ w.swm = m.swm
        /\ w.want_stop_sending = m.want_stop_sending
        /\ w.want_max_stream_data = m.want_max_stream_data
    BY <1>9 DEF StreamRecs
  <2> HIDE DEF w
  <2>2. send_is_reset(m) <=> send_is_reset(w)
    BY <2>1 DEF send_is_reset
  <2>3. Ended(m) => Ended(w)
    BY <1>11, <2>1, <2>2 DEF Ended, send_get_final_size
  <2>4. StreamGood(w)
    BY <1>9, <1>11, <2>1, <2>3 DEF StreamGood
  <2>5. FlushGood(w)
    BY <1>9, <2>1 DEF FlushGood, eligible_for_shutdown_flush, is_totally_acked
  <2>6. MayBecome(m, w)
    BY <2>1, <2>2, <2>3, <2>4 DEF MayBecome
  <2> DEFINE W == Put(M, s, w)
  <2>7. /\ W.str[s] = w /\ W.conn_txfc = M.conn_txfc
        /\ W.max_local_streams = M.max_local_streams
    BY <1>1, <1>9, <2>1, PutIs
  <2> HIDE DEF W
  <2>8. stream_has_data_to_send(W, w) => stream_has_data_to_send(M, m)
    BY <1>12, <2>1, <2>7 DEF stream_has_data_to_send, has_send_buffer,
                             ossl_quic_txfc_get_credit
  <2>9. should_be_active(W, s) => should_be_active(M, s)
    BY <2>1, <2>7, <2>8 DEF should_be_active, is_local_allowed_by_stream_limit
  <2>10. OnlyEmptyFin(m) <=> OnlyEmptyFin(w)
    BY <2>1 DEF OnlyEmptyFin
  <2> QED
    BY <1>1, <1>9, <2>5, <2>6, <2>9, <2>10, ChangeOnly DEF W
<1>14. Turns(qsm, qsm', D)
  <2>1. CASE conclude
    BY <1>3, <1>7, <1>13, <2>1, TurnsTransitive DEF Turns
  <2>2. CASE ~conclude
    <3>1. [M EXCEPT !.str[s].fin = @] = M
      BY <1>1, <1>9 DEF MapsOn, StreamRecs
    <3> QED
      BY <1>3, <1>7, <2>2, <3>1
  <2> QED
    BY <2>1, <2>2
<1> QED
  BY <1>14, MapStep, MapNow DEF D, StreamWrite

\* SSL_write of no bytes: the FIN is all that may be left behind.
LEMMA ConcludeEmptyKeeps ==
    ASSUME MapIInv, NEW s \in Streams, ConcludeEmpty(s)
    PROVE  MapIInv'
<1> DEFINE D == DOMAIN qsm.str
           q == qsm.str[s]
           r == [q EXCEPT !.fin = "queued", !.empty_fin = TRUE]
           P == Put(qsm, s, r)
<1>1. D \in SUBSET (0..MaxStreamId) /\ s \in D /\ Fine(qsm, D)
  BY MapNow DEF ConcludeEmpty, CanWrite
<1>2. /\ q \in StreamRecs /\ StreamGood(q) /\ FlushGood(q) /\ has_send_buffer(q)
      /\ q.fin = "none" /\ qsm \in MapsOn(D)
  BY <1>1, FineStreams DEF ConcludeEmpty, CanWrite
<1>3. qsm' = P
  BY <1>1, <1>2 DEF ConcludeEmpty, Put, MapsOn
<1> HIDE DEF q, D
<1>4. /\ r \in StreamRecs /\ r.fin = "queued" /\ r.empty_fin = TRUE
      /\ r.send = q.send /\ r.recv = q.recv
      /\ r.deleted = q.deleted /\ r.want_reset_stream = q.want_reset_stream
      /\ r.shutdown_flush = q.shutdown_flush /\ r.ready_for_gc = q.ready_for_gc
      /\ r.new = q.new /\ r.swm = q.swm
      /\ r.want_stop_sending = q.want_stop_sending
      /\ r.want_max_stream_data = q.want_max_stream_data
  BY <1>2 DEF StreamRecs
<1> HIDE DEF r
<1>5. send_is_reset(q) <=> send_is_reset(r)
  BY <1>4 DEF send_is_reset
<1>6. Ended(q) => Ended(r)
  BY <1>4, <1>5 DEF Ended, send_get_final_size
<1>7. StreamGood(r)
  BY <1>2, <1>4, <1>6 DEF StreamGood
<1>8. FlushGood(r)
  BY <1>2, <1>4 DEF FlushGood, eligible_for_shutdown_flush, is_totally_acked
<1>9. MayBecome(q, r)
  BY <1>4, <1>5, <1>6, <1>7 DEF MayBecome
<1>10. OnlyEmptyFin(q) => OnlyEmptyFin(r)
  BY <1>4 DEF OnlyEmptyFin
<1>11. should_be_active(P, s) => should_be_active(qsm, s) \/ OnlyEmptyFin(r)
  <2>1. /\ P.str[s] = r /\ P.conn_txfc = qsm.conn_txfc
        /\ P.max_local_streams = qsm.max_local_streams
    BY <1>1, <1>2, <1>4, PutIs
  <2> HIDE DEF P
  <2>2. CASE r.new # {}
    <3>1. stream_has_data_to_send(P, r) => stream_has_data_to_send(qsm, q)
      BY <1>4, <2>1, <2>2 DEF stream_has_data_to_send, has_send_buffer,
                              ossl_quic_txfc_get_credit
    <3> QED
      BY <1>4, <2>1, <3>1
         DEF should_be_active, is_local_allowed_by_stream_limit, q
  <2>3. CASE r.new = {}
    BY <1>4, <2>1, <2>3
       DEF should_be_active, is_local_allowed_by_stream_limit, OnlyEmptyFin, q
  <2> QED
    BY <2>2, <2>3
<1>12. Turns(qsm, P, D)
  BY <1>1, <1>8, <1>9, <1>10, <1>11, ChangeOnly DEF q
<1> QED
  BY <1>3, <1>12, MapStep, MapNow DEF D, ConcludeEmpty

\* SSL_stream_conclude
LEMMA ConcludeKeeps ==
    ASSUME MapIInv, NEW s \in Streams, Conclude(s)
    PROVE  MapIInv'
<1> DEFINE D == DOMAIN qsm.str
           q == qsm.str[s]
           r == [ensure_send_part_id(q) EXCEPT !.fin = "queued"]
<1>1. D \in SUBSET (0..MaxStreamId) /\ s \in D /\ Fine(qsm, D)
  BY MapNow DEF Conclude, CanWrite
<1>2. q \in StreamRecs /\ StreamGood(q) /\ has_send_buffer(q) /\ q.fin = "none"
  BY <1>1, FineStreams DEF Conclude, CanWrite
<1>3. qsm' = ossl_quic_stream_map_update_state(Put(qsm, s, r), s)
  BY DEF Conclude, Put
<1> HIDE DEF q
<1>4. /\ r \in StreamRecs /\ r.send = (IF q.send = "READY" THEN "SEND" ELSE q.send)
      /\ r.deleted = q.deleted /\ r.want_reset_stream = q.want_reset_stream
      /\ r.shutdown_flush = q.shutdown_flush /\ r.ready_for_gc = q.ready_for_gc
      /\ r.empty_fin = q.empty_fin
  BY <1>2 DEF ensure_send_part_id, StreamRecs, SendStates
<1> HIDE DEF r
<1>5. MayBecome(q, r) /\ r.send \in {"SEND", "DATA_SENT"}
  BY <1>2, <1>4, WrittenTo
<1> HIDE DEF D
<1>6. Turns(qsm, qsm', D)
  BY <1>1, <1>3, <1>5, ChangeAndUpdate DEF q
<1> QED
  BY <1>6, MapStep, MapNow DEF D, Conclude

\* SSL_stream_reset
LEMMA StreamResetKeeps ==
    ASSUME MapIInv, NEW s \in Streams, StreamReset(s)
    PROVE  MapIInv'
<1> DEFINE D == DOMAIN qsm.str
<1>1. D \in SUBSET (0..MaxStreamId) /\ s \in D /\ Fine(qsm, D)
  BY MapNow DEF StreamReset, CanWrite
<1>2. qsm' = ossl_quic_stream_map_reset_stream_send_part(qsm, s)
  BY DEF StreamReset
<1> HIDE DEF D
<1>3. Turns(qsm, qsm', D)
  BY <1>1, <1>2, ResetGood
<1> QED
  BY <1>3, MapStep, MapNow DEF D, StreamReset

\* SSL_read
LEMMA ReadKeeps ==
    ASSUME MapIInv, NEW s \in Streams, NEW some \in BOOLEAN, NEW fin \in BOOLEAN,
           NEW grown \in BOOLEAN, Read(s, some, fin, grown)
    PROVE  MapIInv'
<1> DEFINE D == DOMAIN qsm.str
           q == qsm.str[s]
           v == IF fin THEN "DATA_READ" ELSE q.recv
           b == q.want_max_stream_data \/ grown
           r == [q EXCEPT !.recv = v, !.want_max_stream_data = b]
           M == Put(qsm, s, r)
<1>1. D \in SUBSET (0..MaxStreamId) /\ s \in D /\ Fine(qsm, D)
  BY MapNow DEF Read
<1>2. q \in StreamRecs /\ StreamGood(q) /\ FlushGood(q) /\ qsm \in MapsOn(D)
  BY <1>1, FineStreams
<1>3. qsm' = IF some THEN ossl_quic_stream_map_update_state(M, s) ELSE M
  BY DEF Read, Put
<1>4. b \in BOOLEAN /\ (~grown => b = q.want_max_stream_data)
  BY <1>2 DEF StreamRecs
<1>5. ~some => v = "DATA_READ" /\ ~grown
  BY DEF Read
<1>6. v \in RecvStates
  BY <1>2 DEF StreamRecs, RecvStates
<1> HIDE DEF q, v, b
<1>7. /\ r \in StreamRecs /\ r.send = q.send /\ r.fin = q.fin
      /\ r.deleted = q.deleted /\ r.want_reset_stream = q.want_reset_stream
      /\ r.shutdown_flush = q.shutdown_flush /\ r.ready_for_gc = q.ready_for_gc
      /\ r.empty_fin = q.empty_fin
  BY <1>2, <1>4, <1>6 DEF StreamRecs
<1>8. /\ r.new = q.new /\ r.swm = q.swm /\ r.acked = q.acked /\ r.size = q.size
      /\ r.want_stop_sending = q.want_stop_sending /\ r.recv = v
      /\ r.want_max_stream_data = b
  BY <1>2 DEF StreamRecs
<1> HIDE DEF r
<1>9. /\ MayBecome(q, r) /\ FlushGood(r)
      /\ r.shutdown_flush => r.send \in {"SEND", "DATA_SENT"}
  BY <1>2, <1>7, <1>8, SendSame
<1> HIDE DEF D
<1>10. Turns(qsm, qsm', D)
  <2>1. CASE some
    BY <1>1, <1>3, <1>9, <2>1, ChangeAndUpdate DEF q
  <2>2. CASE ~some
    <3>1. /\ M.str[s] = r /\ M.conn_txfc = qsm.conn_txfc
          /\ M.max_local_streams = qsm.max_local_streams
      BY <1>1, <1>2, <1>7, PutIs
    <3> HIDE DEF M
    <3>2. stream_has_data_to_send(M, r) => stream_has_data_to_send(qsm, q)
      BY <1>7, <1>8, <3>1 DEF stream_has_data_to_send, has_send_buffer,
                              ossl_quic_txfc_get_credit
    <3>3. r.recv # "RECV"
      BY <1>5, <1>8, <2>2
    <3>4. should_be_active(M, s) => should_be_active(qsm, s)
      BY <1>7, <1>8, <3>1, <3>2, <3>3
         DEF should_be_active, is_local_allowed_by_stream_limit, q
    <3>5. OnlyEmptyFin(q) => OnlyEmptyFin(r)
      BY <1>7, <1>8, <3>3 DEF OnlyEmptyFin
    <3> QED
      BY <1>1, <1>3, <1>9, <2>2, <3>4, <3>5, ChangeOnly DEF M, q
  <2> QED
    BY <2>1, <2>2
<1> QED
  BY <1>10, MapStep, MapNow DEF D, Read

\* SSL_read of a stream that was reset
LEMMA ReadResetKeeps ==
    ASSUME MapIInv, NEW s \in Streams, ReadReset(s)
    PROVE  MapIInv'
<1> DEFINE D == DOMAIN qsm.str
           q == qsm.str[s]
           r == [q EXCEPT !.recv = "RESET_READ"]
           M == Put(qsm, s, r)
<1>1. D \in SUBSET (0..MaxStreamId) /\ s \in D /\ Fine(qsm, D)
  BY MapNow DEF ReadReset
<1>2. q \in StreamRecs /\ StreamGood(q) /\ FlushGood(q) /\ qsm \in MapsOn(D)
  BY <1>1, FineStreams
<1>3. qsm' = M
  BY DEF ReadReset, Put
<1> HIDE DEF q
<1>4. /\ r \in StreamRecs /\ r.send = q.send /\ r.fin = q.fin
      /\ r.deleted = q.deleted /\ r.want_reset_stream = q.want_reset_stream
      /\ r.shutdown_flush = q.shutdown_flush /\ r.ready_for_gc = q.ready_for_gc
      /\ r.empty_fin = q.empty_fin
  BY <1>2 DEF StreamRecs, RecvStates
<1>5. /\ r.new = q.new /\ r.swm = q.swm /\ r.acked = q.acked /\ r.size = q.size
      /\ r.want_stop_sending = q.want_stop_sending /\ r.recv = "RESET_READ"
  BY <1>2 DEF StreamRecs
<1> HIDE DEF r
<1>6. MayBecome(q, r) /\ FlushGood(r)
  BY <1>2, <1>4, <1>5, SendSame
<1> HIDE DEF D
<1>7. /\ M.str[s] = r /\ M.conn_txfc = qsm.conn_txfc
      /\ M.max_local_streams = qsm.max_local_streams
  BY <1>1, <1>2, <1>4, PutIs
<1> HIDE DEF M
<1>8. stream_has_data_to_send(M, r) => stream_has_data_to_send(qsm, q)
  BY <1>4, <1>5, <1>7 DEF stream_has_data_to_send, has_send_buffer,
                          ossl_quic_txfc_get_credit
<1>9. should_be_active(M, s) => should_be_active(qsm, s)
  BY <1>4, <1>5, <1>7, <1>8
     DEF should_be_active, is_local_allowed_by_stream_limit, q
<1>10. Turns(qsm, qsm', D)
  <2>1. OnlyEmptyFin(q) => OnlyEmptyFin(r)
    BY <1>4, <1>5 DEF OnlyEmptyFin
  <2> QED
    BY <1>1, <1>3, <1>6, <1>9, <2>1, ChangeOnly DEF M, q
<1> QED
  BY <1>10, MapStep, MapNow DEF D, ReadReset

\* SSL_free of a stream
LEMMA StreamFreeKeeps ==
    ASSUME MapIInv, NEW s \in Streams, StreamFree(s)
    PROVE  MapIInv'
<1> DEFINE D == DOMAIN qsm.str
           q == qsm.str[s]
           M1 == IF q.send \in {"READY", "SEND"} /\ q.fin = "none"
                 THEN ossl_quic_stream_map_reset_stream_send_part(qsm, s)
                 ELSE qsm
           M2 == ossl_quic_stream_map_stop_sending_recv_part(M1, s)
<1>1. D \in SUBSET (0..MaxStreamId) /\ s \in D /\ Fine(qsm, D) /\ D \subseteq Streams
  BY MapNow DEF StreamFree
<1>2. q \in StreamRecs /\ StreamGood(q)
  BY <1>1, FineStreams
<1>3. qsm' = Deleted(M2, s)
  BY DEF StreamFree
<1>4. Turns(qsm, M1, D) /\ Ended(M1.str[s])
  <2>1. CASE q.send \in {"READY", "SEND"} /\ q.fin = "none"
    <3>1. M1 = ossl_quic_stream_map_reset_stream_send_part(qsm, s)
      BY <2>1
    <3> HIDE DEF M1, D
    <3> QED
      BY <1>1, <3>1, ResetGood
  <2>2. CASE ~(q.send \in {"READY", "SEND"} /\ q.fin = "none")
    <3>1. M1 = qsm
      BY <2>2
    <3>2. Ended(q)
      <4>1. q.send \in SendStates
        BY <1>2 DEF StreamRecs
      <4> HIDE DEF q
      <4> QED
        BY <1>2, <2>2, <4>1 DEF SendStates, StreamGood, Ended, send_is_reset,
                                send_get_final_size
    <3> HIDE DEF M1, D
    <3> QED
      BY <1>1, <3>1, <3>2, TurnsSame
  <2> QED
    BY <2>1, <2>2
<1> HIDE DEF M1
<1>5. Turns(M1, M2, D)
  BY <1>1, <1>4, StopSendingGood DEF Turns
<1> HIDE DEF M2
<1>6. Ended(M2.str[s])
  <2>1. DOMAIN M1.str = D
    BY <1>4, FineStreams DEF Turns
  <2> QED
    BY <1>1, <1>4, <1>5, <2>1 DEF Turns, Advances
<1>7. Turns(M2, qsm', D)
  BY <1>1, <1>3, <1>5, <1>6, DeletedGood DEF Turns
<1>8. Turns(qsm, qsm', D)
  BY <1>4, <1>5, <1>7, AdvancesTransitive DEF Turns
<1>9. /\ app' \in [Streams -> {"none", "queued", "held", "freed"}]
      /\ \A t \in Streams : app'[t] \in {"queued", "held"} => t \in D
  BY MapNow DEF StreamFree
<1>10. \A p \in pkts' : p \in pkts \/ PacketGood(p, qsm')
  BY DEF StreamFree
<1>11. shutting_down' \in BOOLEAN
  BY MapNow DEF StreamFree
<1> HIDE DEF D
<1> QED
  BY <1>1, <1>8, <1>9, <1>10, <1>11, MapStepKeeps

\* SSL_shutdown: the streams flagged are those that are eligible.
LEMMA BeginShutdownFlushKeeps ==
    ASSUME MapIInv, BeginShutdownFlush
    PROVE  MapIInv'
<1> DEFINE D == DOMAIN qsm.str
           S == {s \in D : eligible_for_shutdown_flush(qsm.str[s])}
           R(s) == [qsm.str[s] EXCEPT !.shutdown_flush = s \in S]
           g == [s \in D |-> R(s)]
<1>1. D \in SUBSET (0..MaxStreamId) /\ Fine(qsm, D) /\ qsm \in MapsOn(D)
  BY MapNow, FineStreams
<1>2. qsm' = [qsm EXCEPT !.num_shutdown_flush = Cardinality(S), !.str = g]
  BY DEF BeginShutdownFlush
<1>3. Cardinality(S) \in Int
  <2>1. IsFiniteSet(0..MaxStreamId)
    BY FS_Interval, StreamMapAssumption
  <2>2. S \subseteq 0..MaxStreamId
    BY <1>1
  <2>3. Cardinality(S) \in Nat
    BY <2>1, <2>2, FS_Subset, FS_CardinalityType
  <2> QED
    BY <2>3
<1>4. ASSUME NEW s \in D
      PROVE  /\ g[s] \in StreamRecs /\ StreamGood(g[s]) /\ FlushGood(g[s])
             /\ g[s].shutdown_flush <=> s \in S
             /\ g[s].ready_for_gc = qsm.str[s].ready_for_gc
             /\ g[s].empty_fin = qsm.str[s].empty_fin
             /\ g[s].send = qsm.str[s].send
             /\ send_is_reset(g[s]) <=> send_is_reset(qsm.str[s])
             /\ Ended(g[s]) <=> Ended(qsm.str[s])
             /\ g[s].new = qsm.str[s].new /\ g[s].fin = qsm.str[s].fin
             /\ g[s].swm = qsm.str[s].swm /\ g[s].recv = qsm.str[s].recv
             /\ g[s].want_max_stream_data = qsm.str[s].want_max_stream_data
             /\ g[s].want_stop_sending = qsm.str[s].want_stop_sending
             /\ g[s].want_reset_stream = qsm.str[s].want_reset_stream
  <2> DEFINE q == qsm.str[s]
             b == s \in S
             r == [q EXCEPT !.shutdown_flush = b]
  <2>1. q \in StreamRecs /\ StreamGood(q)
    BY <1>1, <1>4, FineStreams
  <2>2. b \in BOOLEAN /\ (b => eligible_for_shutdown_flush(q))
    OBVIOUS
  <2>3. g[s] = r
    BY <1>4
  <2> HIDE DEF q, b, g
  <2>4. /\ r \in StreamRecs /\ r.shutdown_flush = b
        /\ r.ready_for_gc = q.ready_for_gc /\ r.send = q.send /\ r.fin = q.fin
        /\ r.empty_fin = q.empty_fin
        /\ r.deleted = q.deleted /\ r.want_reset_stream = q.want_reset_stream
    BY <2>1, <2>2 DEF StreamRecs
  <2>5. /\ r.new = q.new /\ r.swm = q.swm /\ r.recv = q.recv
        /\ r.want_max_stream_data = q.want_max_stream_data
        /\ r.want_stop_sending = q.want_stop_sending
        /\ r.acked = q.acked /\ r.size = q.size
    BY <2>1 DEF StreamRecs
  <2> HIDE DEF r
  <2>6. send_is_reset(r) <=> send_is_reset(q)
    BY <2>4 DEF send_is_reset
  <2>7. Ended(r) <=> Ended(q)
    BY <2>4, <2>6 DEF Ended, send_get_final_size
  <2>8. StreamGood(r)
    BY <2>1, <2>4, <2>7 DEF StreamGood
  <2>9. FlushGood(r)
    BY <2>2, <2>4, <2>5 DEF FlushGood, eligible_for_shutdown_flush, is_totally_acked
  <2> QED
    BY <2>3, <2>4, <2>5, <2>6, <2>7, <2>8, <2>9 DEF q, b
<1>5. g \in [D -> StreamRecs]
  <2>1. \A s \in D : g[s] \in StreamRecs
    BY <1>4
  <2> QED
    BY <2>1
<1> HIDE DEF g
<1>6. /\ qsm' \in MapsOn(D) /\ qsm'.str = g /\ qsm'.active = qsm.active
      /\ qsm'.rr_cur = qsm.rr_cur /\ qsm'.num_shutdown_flush = Cardinality(S)
      /\ qsm'.conn_txfc = qsm.conn_txfc
      /\ qsm'.max_local_streams = qsm.max_local_streams
  <2> DEFINE k == Cardinality(S)
  <2> HIDE DEF k
  <2>1. qsm' = [qsm EXCEPT !.num_shutdown_flush = k, !.str = g] /\ k \in Int
    BY <1>2, <1>3 DEF k
  <2> HIDE DEF S, D
  <2> QED
    BY <1>1, <1>5, <2>1 DEF MapsOn, k
<1>7. DOMAIN g = D
  BY <1>5
<1>8. ListGood(qsm')
  <2>1. ListGood(qsm)
    BY <1>1 DEF Fine, MapGood
  <2>2. \A s \in D : g[s].ready_for_gc = qsm.str[s].ready_for_gc
    BY <1>4
  <2> HIDE DEF S
  <2> QED
    BY <1>6, <1>7, <2>1, <2>2 DEF ListGood
<1>9. Flagged(qsm') = S
  <2>1. \A s \in D : g[s].shutdown_flush <=> s \in S
    BY <1>4
  <2> QED
    BY <1>6, <1>7, <2>1 DEF Flagged
<1>10. MapGood(qsm', D, {})
  <2>1. \A s \in D : StreamGood(g[s]) /\ FlushGood(g[s])
    BY <1>4
  <2> HIDE DEF S
  <2> QED
    BY <1>6, <1>8, <1>9, <2>1 DEF MapGood
<1>11. Served(qsm', {})
  <2> SUFFICES ASSUME NEW s \in D, should_be_active(qsm', s)
               PROVE  Contains(qsm'.active, s) \/ OnlyEmptyFin(g[s])
    BY <1>6, <1>7 DEF Served
  <2> DEFINE q == qsm.str[s]
             r == g[s]
  <2>1. /\ r.new = q.new /\ r.fin = q.fin /\ r.swm = q.swm /\ r.recv = q.recv
        /\ r.send = q.send /\ r.ready_for_gc = q.ready_for_gc
        /\ r.empty_fin = q.empty_fin
        /\ r.want_max_stream_data = q.want_max_stream_data
        /\ r.want_stop_sending = q.want_stop_sending
        /\ r.want_reset_stream = q.want_reset_stream
    BY <1>4
  <2> HIDE DEF S, q, r
  <2>2. stream_has_data_to_send(qsm', r) => stream_has_data_to_send(qsm, q)
    BY <1>6, <2>1 DEF stream_has_data_to_send, has_send_buffer,
                      ossl_quic_txfc_get_credit
  <2>3. should_be_active(qsm, s)
    BY <1>6, <2>1, <2>2 DEF should_be_active, is_local_allowed_by_stream_limit, q, r
  <2>4. OnlyEmptyFin(q) <=> OnlyEmptyFin(r)
    BY <2>1 DEF OnlyEmptyFin
  <2> QED
    BY <1>1, <1>6, <2>3, <2>4 DEF Fine, Served, q, r
<1>12. Advances(qsm, qsm')
  <2>1. \A s \in D : /\ g[s].send = qsm.str[s].send
                     /\ send_is_reset(g[s]) <=> send_is_reset(qsm.str[s])
                     /\ Ended(g[s]) <=> Ended(qsm.str[s])
                     /\ g[s].empty_fin = qsm.str[s].empty_fin
    BY <1>4
  <2> HIDE DEF S
  <2> QED
    BY <1>6, <1>7, <2>1 DEF Advances
<1>13. Turns(qsm, qsm', D)
  BY <1>10, <1>11, <1>12 DEF Turns, Fine
<1> QED
  BY <1>13, MapStep DEF BeginShutdownFlush

\* A frame of the peer: the streams after it are those there were and those
\* it opened.
LEMMA FrameKeeps ==
    ASSUME MapIInv, NEW s \in Streams, NEW reject \in BOOLEAN, NEW handled,
           RxFrame(s, reject, handled),
           Turns(qsm, handled, DOMAIN qsm.str \cup Missing(s)),
           shutting_down' = shutting_down, pkts' = pkts
    PROVE  MapIInv'
<1> DEFINE D == DOMAIN qsm.str
           E == D \cup Missing(s)
<1>1. E \subseteq Streams
  BY MapNow DEF Missing
<1>2. Turns(qsm, qsm', E)
  BY DEF RxFrame
<1>3. /\ app' \in [Streams -> {"none", "queued", "held", "freed"}]
      /\ \A t \in Streams : app'[t] \in {"queued", "held"} => t \in E
  BY MapNow DEF RxFrame
<1>4. \A p \in pkts' : p \in pkts \/ PacketGood(p, qsm')
  OBVIOUS
<1>5. shutting_down' \in BOOLEAN
  BY MapNow
<1> HIDE DEF E
<1> QED
  BY <1>1, <1>2, <1>3, <1>4, <1>5, MapStepKeeps

\* The map on which the handler of a frame works.
LEMMA FrameNow ==
    ASSUME MapIInv, NEW s \in Streams, NEW reject \in BOOLEAN, NEW M,
           M = depack_do_implicit_stream_create(s, reject)
    PROVE  /\ DOMAIN qsm.str \cup Missing(s) \in SUBSET (0..MaxStreamId)
           /\ s \in DOMAIN qsm.str \cup Missing(s)
           /\ Turns(qsm, M, DOMAIN qsm.str \cup Missing(s))
<1>1. DOMAIN qsm.str \cup Missing(s) \subseteq Streams
  BY MapNow DEF Missing
<1>2. s \in Int
  BY MapNow
<1>3. s \in DOMAIN qsm.str \cup Missing(s)
  BY <1>2 DEF Missing, Exists
<1> QED
  BY <1>1, <1>3, MapNow, CreateGood

\* STREAM
LEMMA RxStreamKeeps ==
    ASSUME MapIInv, NEW s \in Streams, NEW reject \in BOOLEAN,
           NEW is_fin \in BOOLEAN, NEW complete \in BOOLEAN,
           RxStream(s, reject, is_fin, complete)
    PROVE  MapIInv'
<1> DEFINE E == DOMAIN qsm.str \cup Missing(s)
           M == depack_do_implicit_stream_create(s, reject)
           Sized(r) == IF is_fin THEN [r EXCEPT !.recv = "SIZE_KNOWN"] ELSE r
           Recvd(r) == IF r.recv = "SIZE_KNOWN" /\ complete /\ ~r.stop_sending
                       THEN [r EXCEPT !.recv = "DATA_RECVD",
                                      !.want_stop_sending = FALSE]
                       ELSE r
           q == M.str[s]
           w == Recvd(Sized(q))
           handled == IF q.recv \in {"RECV", "SIZE_KNOWN"} THEN Put(M, s, w) ELSE M
<1>1. RxFrame(s, reject, handled)
  BY DEF RxStream, Put
<1>2. shutting_down' = shutting_down /\ pkts' = pkts
  BY DEF RxStream
<1>3. E \in SUBSET (0..MaxStreamId) /\ s \in E /\ Turns(qsm, M, E)
  BY FrameNow
<1> HIDE DEF M, E
<1>4. Turns(M, handled, E)
  <2>1. /\ Fine(M, E) /\ M \in MapsOn(E) /\ q \in StreamRecs
        /\ StreamGood(q) /\ FlushGood(q)
    BY <1>3, FineStreams DEF Turns
  <2>2. CASE q.recv \in {"RECV", "SIZE_KNOWN"}
    <3> DEFINE z == Sized(q)
    <3>1. /\ z \in StreamRecs /\ z.send = q.send /\ z.fin = q.fin
          /\ z.deleted = q.deleted /\ z.want_reset_stream = q.want_reset_stream
          /\ z.shutdown_flush = q.shutdown_flush
          /\ z.ready_for_gc = q.ready_for_gc
          /\ z.empty_fin = q.empty_fin
      BY <2>1 DEF StreamRecs, RecvStates
    <3>2. /\ z.new = q.new /\ z.swm = q.swm /\ z.acked = q.acked /\ z.size = q.size
          /\ z.want_stop_sending = q.want_stop_sending
          /\ z.want_max_stream_data = q.want_max_stream_data
          /\ z.recv = "RECV" => q.recv = "RECV"
      BY <2>1 DEF StreamRecs
    <3>3. w = Recvd(z)
      OBVIOUS
    <3> HIDE DEF z, Sized, q, w
    <3>4. /\ w \in StreamRecs /\ w.send = z.send /\ w.fin = z.fin
          /\ w.deleted = z.deleted /\ w.want_reset_stream = z.want_reset_stream
          /\ w.shutdown_flush = z.shutdown_flush
          /\ w.ready_for_gc = z.ready_for_gc
          /\ w.empty_fin = z.empty_fin
      BY <3>1, <3>3 DEF StreamRecs, RecvStates
    <3>5. /\ w.new = z.new /\ w.swm = z.swm /\ w.acked = z.acked /\ w.size = z.size
          /\ w.want_stop_sending => z.want_stop_sending
          /\ w.want_max_stream_data = z.want_max_stream_data
          /\ w.recv = "RECV" => z.recv = "RECV"
      BY <3>1, <3>3 DEF StreamRecs
    <3>6. MayBecome(q, w) /\ FlushGood(w)
      BY <2>1, <3>1, <3>2, <3>4, <3>5, SendSame
    <3> DEFINE W == Put(M, s, w)
    <3>7. /\ W.str[s] = w /\ W.conn_txfc = M.conn_txfc
          /\ W.max_local_streams = M.max_local_streams
      BY <1>3, <2>1, <3>4, PutIs
    <3> HIDE DEF W
    <3>8. stream_has_data_to_send(W, w) => stream_has_data_to_send(M, q)
      BY <3>1, <3>2, <3>4, <3>5, <3>7 DEF stream_has_data_to_send,
                                has_send_buffer, ossl_quic_txfc_get_credit
    <3>9. should_be_active(W, s) => should_be_active(M, s)
      BY <3>1, <3>2, <3>4, <3>5, <3>7, <3>8
         DEF should_be_active, is_local_allowed_by_stream_limit, q
    <3>10. Turns(M, W, E)
      <4>1. OnlyEmptyFin(q) => OnlyEmptyFin(w)
        BY <3>1, <3>2, <3>4, <3>5 DEF OnlyEmptyFin
      <4> QED
        BY <1>3, <2>1, <3>6, <3>9, <4>1, ChangeOnly DEF W, q
    <3> QED
      BY <2>2, <3>10 DEF W, q
  <2>3. CASE ~(q.recv \in {"RECV", "SIZE_KNOWN"})
    BY <2>1, <2>3, TurnsSame
  <2> QED
    BY <2>2, <2>3
<1> HIDE DEF handled
<1>5. Turns(qsm, handled, E)
  BY <1>3, <1>4, TurnsTransitive DEF Turns
<1> QED
  BY <1>1, <1>2, <1>5, FrameKeeps DEF E

\* RESET_STREAM
LEMMA RxResetStreamKeeps ==
    ASSUME MapIInv, NEW s \in Streams, NEW reject \in BOOLEAN,
           RxResetStream(s, reject)
    PROVE  MapIInv'
<1> DEFINE E == DOMAIN qsm.str \cup Missing(s)
           M == depack_do_implicit_stream_create(s, reject)
           q == M.str[s]
           w == IF q.recv \in {"RECV", "SIZE_KNOWN", "DATA_RECVD"}
                THEN [q EXCEPT !.recv = "RESET_RECVD", !.want_stop_sending = FALSE]
                ELSE q
           handled == ossl_quic_stream_map_update_state(Put(M, s, w), s)
<1>1. RxFrame(s, reject, handled)
  BY DEF RxResetStream, Put
<1>2. shutting_down' = shutting_down /\ pkts' = pkts
  BY DEF RxResetStream
<1>3. E \in SUBSET (0..MaxStreamId) /\ s \in E /\ Turns(qsm, M, E)
  BY FrameNow
<1> HIDE DEF M, E
<1>4. /\ Fine(M, E) /\ M \in MapsOn(E) /\ q \in StreamRecs
      /\ StreamGood(q) /\ FlushGood(q)
  BY <1>3, FineStreams DEF Turns
<1> HIDE DEF q
<1>5. /\ w \in StreamRecs /\ w.send = q.send /\ w.fin = q.fin
      /\ w.deleted = q.deleted /\ w.want_reset_stream = q.want_reset_stream
      /\ w.shutdown_flush = q.shutdown_flush /\ w.ready_for_gc = q.ready_for_gc
      /\ w.empty_fin = q.empty_fin
  <2> DEFINE z == [q EXCEPT !.recv = "RESET_RECVD", !.want_stop_sending = FALSE]
  <2>1. z \in StreamRecs
    BY <1>4 DEF StreamRecs, RecvStates
  <2>2. /\ z.send = q.send /\ z.fin = q.fin /\ z.deleted = q.deleted
        /\ z.want_reset_stream = q.want_reset_stream
        /\ z.shutdown_flush = q.shutdown_flush /\ z.ready_for_gc = q.ready_for_gc
        /\ z.empty_fin = q.empty_fin
    BY <1>4 DEF StreamRecs
  <2>3. w = z \/ w = q
    OBVIOUS
  <2> HIDE DEF z, w
  <2> QED
    BY <1>4, <2>1, <2>2, <2>3
<1> HIDE DEF w
<1>6. /\ MayBecome(q, w)
      /\ w.shutdown_flush => w.send \in {"SEND", "DATA_SENT"}
  BY <1>4, <1>5, SendSame
<1>7. Turns(M, handled, E)
  BY <1>3, <1>4, <1>6, ChangeAndUpdate DEF q
<1> HIDE DEF handled
<1>8. Turns(qsm, handled, E)
  BY <1>3, <1>7, TurnsTransitive DEF Turns
<1> QED
  BY <1>1, <1>2, <1>8, FrameKeeps DEF E

\* STOP_SENDING
LEMMA RxStopSendingKeeps ==
    ASSUME MapIInv, NEW s \in Streams, NEW reject \in BOOLEAN,
           RxStopSending(s, reject)
    PROVE  MapIInv'
<1> DEFINE E == DOMAIN qsm.str \cup Missing(s)
           M == depack_do_implicit_stream_create(s, reject)
           handled == ossl_quic_stream_map_reset_stream_send_part(M, s)
<1>1. RxFrame(s, reject, handled)
  BY DEF RxStopSending
<1>2. shutting_down' = shutting_down /\ pkts' = pkts
  BY DEF RxStopSending
<1>3. E \in SUBSET (0..MaxStreamId) /\ s \in E /\ Turns(qsm, M, E)
  BY FrameNow
<1> HIDE DEF M, E
<1>4. Turns(M, handled, E)
  BY <1>3, ResetGood DEF Turns
<1> HIDE DEF handled
<1>5. Turns(qsm, handled, E)
  BY <1>3, <1>4, TurnsTransitive DEF Turns
<1> QED
  BY <1>1, <1>2, <1>5, FrameKeeps DEF E

\* A map with the same streams and the same list.
LEMMA SameStreams ==
    ASSUME NEW D, NEW M, Fine(M, D), NEW N \in MapsOn(D), N.str = M.str,
           N.active = M.active, N.rr_cur = M.rr_cur,
           N.num_shutdown_flush = M.num_shutdown_flush
    PROVE  MapGood(N, D, {}) /\ Advances(M, N)
<1>1. ListGood(N)
  BY DEF Fine, MapGood, ListGood
<1>2. Flagged(N) = Flagged(M)
  BY DEF Flagged
<1>3. Advances(M, N)
  BY DEF Advances
<1>4. MapGood(N, D, {})
  BY <1>1, <1>2 DEF Fine, MapGood
<1> QED
  BY <1>3, <1>4

\* MAX_DATA
LEMMA RxMaxDataKeeps ==
    ASSUME MapIInv, RxMaxData
    PROVE  MapIInv'
<1> DEFINE D == DOMAIN qsm.str
           N == [qsm EXCEPT !.conn_txfc.cwm = @ + 1]
<1>1. D \in SUBSET (0..MaxStreamId) /\ Fine(qsm, D) /\ qsm \in MapsOn(D)
  BY MapNow, FineStreams
<1>2. qsm' = VisitUpdate(N, Streams)
  BY DEF RxMaxData
<1>3. /\ N \in MapsOn(D) /\ N.str = qsm.str /\ N.active = qsm.active
      /\ N.rr_cur = qsm.rr_cur
      /\ N.num_shutdown_flush = qsm.num_shutdown_flush
  <2> DEFINE c == [qsm.conn_txfc EXCEPT !.cwm = @ + 1]
  <2>1. c \in [cwm : Nat, swm : Nat]
    BY <1>1 DEF MapsOn
  <2>2. N = [qsm EXCEPT !.conn_txfc = c]
    OBVIOUS
  <2> HIDE DEF c, N, D
  <2> QED
    BY <1>1, <2>1, <2>2 DEF MapsOn
<1>4. DOMAIN N.str = D
  BY <1>3
<1>5. D \cap D \subseteq Streams
  BY MapNow
<1> HIDE DEF N, D
<1>6. MapGood(N, D, {}) /\ Advances(qsm, N)
  BY <1>1, <1>3, SameStreams
<1>7. Served(N, D)
  BY <1>4 DEF Served
<1>8. Turns(N, qsm', D)
  BY <1>1, <1>2, <1>5, <1>6, <1>7, VisitGood
<1>9. Turns(qsm, qsm', D)
  BY <1>6, <1>8, TurnsTransitive
<1> QED
  BY <1>9, MapStep, MapNow DEF D, RxMaxData

\* MAX_STREAMS: only streams of the type are concerned.
LEMMA RxMaxStreamsKeeps ==
    ASSUME MapIInv, NEW bidi \in BOOLEAN, RxMaxStreams(bidi)
    PROVE  MapIInv'
<1> DEFINE D == DOMAIN qsm.str
           N == [qsm EXCEPT !.max_local_streams[bidi] = @ + 1]
           S == {s \in Streams : is_bidi(s) = bidi}
           X == {s \in D : is_bidi(s) = bidi}
<1>1. D \in SUBSET (0..MaxStreamId) /\ Fine(qsm, D) /\ qsm \in MapsOn(D)
  BY MapNow, FineStreams
<1>2. qsm' = VisitUpdate(N, S)
  BY DEF RxMaxStreams
<1>3. /\ N \in MapsOn(D) /\ N.str = qsm.str /\ N.active = qsm.active
      /\ N.rr_cur = qsm.rr_cur
      /\ N.num_shutdown_flush = qsm.num_shutdown_flush
      /\ N.conn_txfc = qsm.conn_txfc
      /\ \A b \in BOOLEAN : b # bidi =>
            N.max_local_streams[b] = qsm.max_local_streams[b]
  <2> DEFINE c == [qsm.max_local_streams EXCEPT ![bidi] = @ + 1]
  <2>1. /\ c \in [BOOLEAN -> Nat]
        /\ \A b \in BOOLEAN : b # bidi => c[b] = qsm.max_local_streams[b]
    <3> DEFINE l == qsm.max_local_streams
    <3>1. l \in [BOOLEAN -> Nat]
      BY <1>1 DEF MapsOn
    <3> HIDE DEF l
    <3>2. l[bidi] + 1 \in Nat
      BY <3>1
    <3> DEFINE m == l[bidi] + 1
    <3>3. m \in Nat /\ [l EXCEPT ![bidi] = @ + 1] = [l EXCEPT ![bidi] = m]
      BY <3>2
    <3> HIDE DEF m
    <3>4. /\ [l EXCEPT ![bidi] = m] \in [BOOLEAN -> Nat]
          /\ \A b \in BOOLEAN : b # bidi => [l EXCEPT ![bidi] = m][b] = l[b]
      BY <3>1, <3>3, Zenon
    <3> QED
      BY <3>3, <3>4, Zenon DEF l
  <2>2. N = [qsm EXCEPT !.max_local_streams = c]
    OBVIOUS
  <2> HIDE DEF c, N, D
  <2>3. /\ N \in MapsOn(D) /\ N.str = qsm.str /\ N.active = qsm.active
        /\ N.rr_cur = qsm.rr_cur
        /\ N.num_shutdown_flush = qsm.num_shutdown_flush
        /\ N.conn_txfc = qsm.conn_txfc /\ N.max_local_streams = c
    BY <1>1, <2>1, <2>2 DEF MapsOn
  <2> QED
    BY <2>1, <2>3, Zenon
<1>4. DOMAIN N.str = D
  BY <1>3
<1>5. X \cap D \subseteq S
  BY MapNow
<1> HIDE DEF N, D
<1>6. MapGood(N, D, {}) /\ Advances(qsm, N)
  BY <1>1, <1>3, SameStreams
<1>7. Served(N, X)
  <2> SUFFICES ASSUME NEW s \in D \ X, should_be_active(N, s)
               PROVE  Contains(N.active, s) \/ OnlyEmptyFin(N.str[s])
    BY <1>4 DEF Served
  <2> DEFINE b == is_bidi(s)
  <2>1. b \in BOOLEAN
    BY DEF is_bidi
  <2>2. b # bidi
    OBVIOUS
  <2> HIDE DEF b
  <2>3. N.max_local_streams[b] = qsm.max_local_streams[b]
    BY <1>3, <2>1, <2>2, Zenon
  <2>4. should_be_active(qsm, s)
    <3>1. is_local_allowed_by_stream_limit(N, s)
            <=> is_local_allowed_by_stream_limit(qsm, s)
      BY <2>3 DEF is_local_allowed_by_stream_limit, b
    <3> QED
      BY <1>3, <3>1 DEF should_be_active, stream_has_data_to_send,
                        ossl_quic_txfc_get_credit
  <2> QED
    BY <1>1, <1>3, <1>4, <2>4 DEF Fine, Served
<1> HIDE DEF S, X
<1>8. Turns(N, qsm', D)
  BY <1>1, <1>2, <1>5, <1>6, <1>7, VisitGood
<1>9. Turns(qsm, qsm', D)
  BY <1>6, <1>8, TurnsTransitive
<1> QED
  BY <1>9, MapStep, MapNow DEF D, RxMaxStreams

\* The round robin goes on with the next stream of the list.
LEMMA NextTurn ==
    ASSUME NEW D, NEW M, Fine(M, D), Len(M.active) > 0,
           NEW N, N = [M EXCEPT !.rr_cur = active_next(M, @)]
    PROVE  Turns(M, N, D) /\ N.str = M.str
<1>1. /\ M \in MapsOn(D) /\ ListGood(M) /\ M.active \in Seq(D)
      /\ MapGood(M, D, {}) /\ Served(M, {})
  BY DEF Fine, MapGood, MapsOn
<1>2. M.active # <<>>
  OBVIOUS
<1>3. Contains(M.active, M.rr_cur) /\ IsInjective(M.active)
  BY <1>1, <1>2 DEF ListGood
<1> DEFINE x == active_next(M, M.rr_cur)
<1>4. Contains(M.active, x) /\ x \in D
  BY <1>1, <1>3, NextIs
<1> HIDE DEF x
<1>5. /\ N \in MapsOn(D) /\ N.str = M.str /\ N.active = M.active /\ N.rr_cur = x
      /\ N.num_shutdown_flush = M.num_shutdown_flush
      /\ N.conn_txfc = M.conn_txfc /\ N.max_local_streams = M.max_local_streams
  <2>1. N = [M EXCEPT !.rr_cur = x]
    BY DEF x
  <2> QED
    BY <1>1, <1>4, <2>1 DEF MapsOn
<1>6. ListGood(N)
  BY <1>1, <1>2, <1>4, <1>5 DEF ListGood
<1>7. Flagged(N) = Flagged(M)
  BY <1>5 DEF Flagged
<1>8. MapGood(N, D, {})
  BY <1>1, <1>5, <1>6, <1>7 DEF MapGood
<1>9. Served(N, {})
  BY <1>1, <1>5, ActiveSame DEF Served
<1>10. Advances(M, N)
  BY <1>5 DEF Advances
<1> QED
  BY <1>5, <1>8, <1>9, <1>10 DEF Turns, Fine

\* A packet is generated.
LEMMA GeneratePacketKeeps ==
    ASSUME MapIInv, NEW k \in 1..Cardinality(Streams), NEW fit, NEW last,
           NEW commit \in BOOLEAN, GeneratePacket(k, fit, last, commit)
    PROVE  MapIInv'
<1> DEFINE D == DOMAIN qsm.str
           pkt == txp_generate_stream_related(qsm, k, fit, last)
           M == [qsm EXCEPT !.rr_cur = active_next(qsm, @)]
           p == Reverse(pkt.frames)
           N == ForEach(txp_pkt_commit, M, p)
<1>1. D \in SUBSET (0..MaxStreamId) /\ Fine(qsm, D) /\ qsm.active \in Seq(D)
  BY MapNow DEF Fine, MapGood, MapsOn
<1>2. /\ qsm' = IF commit THEN N ELSE M
      /\ pkts' = pkts \cup ({pkt.chunks} \ {<<>>})
      /\ k <= Len(qsm.active) /\ app' = app /\ shutting_down' = shutting_down
  BY DEF GeneratePacket
<1>3. k \in Nat /\ Len(qsm.active) > 0
  <2>1. Cardinality(Streams) \in Nat
    <3>1. IsFiniteSet(0..MaxStreamId)
      BY FS_Interval, StreamMapAssumption
    <3> QED
      BY <3>1, MapNow, FS_Subset, FS_CardinalityType
  <2> DEFINE l == Len(qsm.active)
             c == Cardinality(Streams)
  <2>2. l \in Nat /\ c \in Nat /\ k \in 1..c /\ k <= l
    BY <1>1, <1>2, <2>1
  <2> HIDE DEF l, c
  <2>3. k \in Nat /\ l > 0
    BY <2>2
  <2> QED
    BY <2>3 DEF l
<1> HIDE DEF D
<1>4. PacketGood(pkt.frames, qsm) /\ PacketGood(pkt.chunks, qsm)
  BY <1>1, <1>2, <1>3, PacketBuilt
<1>5. Turns(qsm, M, D)
  BY <1>1, <1>3, NextTurn
<1> HIDE DEF pkt, M
<1>6. PacketGood(p, M)
  BY <1>4, <1>5, PacketStays, ReverseGood DEF Turns
<1> HIDE DEF p
<1>7. Turns(M, N, D)
  BY <1>1, <1>5, <1>6, EachCommit DEF Turns
<1> HIDE DEF N
<1>8. Turns(qsm, qsm', D)
  BY <1>2, <1>5, <1>7, TurnsTransitive DEF Turns
<1>9. \A x \in pkts' : x \in pkts \/ PacketGood(x, qsm')
  <2>1. PacketGood(pkt.chunks, qsm')
    BY <1>4, <1>8, PacketStays DEF Turns
  <2> QED
    BY <1>2, <2>1
<1>10. /\ app' \in [Streams -> {"none", "queued", "held", "freed"}]
       /\ \A t \in Streams : app'[t] \in {"queued", "held"} => t \in D
       /\ shutting_down' \in BOOLEAN /\ D \subseteq Streams
  BY <1>2, MapNow DEF D
<1> QED
  BY <1>8, <1>9, <1>10, MapStepKeeps

\* A packet is acknowledged.
LEMMA OnAckedKeeps ==
    ASSUME MapIInv, NEW p \in pkts, OnAcked(p)
    PROVE  MapIInv'
<1> DEFINE D == DOMAIN qsm.str
           N == ForEach(AckedData, qsm, p)
           b == Reverse(p)
<1>1. D \in SUBSET (0..MaxStreamId) /\ Fine(qsm, D) /\ PacketGood(p, qsm)
  BY MapNow
<1>2. qsm' = ForEach(AckedAbort, N, b)
  BY DEF OnAcked
<1> HIDE DEF D
<1>3. Turns(qsm, N, D)
  BY <1>1, EachAckedData
<1> HIDE DEF N
<1>4. PacketGood(b, N)
  BY <1>1, <1>3, PacketStays, ReverseGood DEF Turns
<1> HIDE DEF b
<1>5. Turns(N, qsm', D)
  BY <1>1, <1>2, <1>3, <1>4, EachAckedAbort DEF Turns
<1>6. Turns(qsm, qsm', D)
  BY <1>3, <1>5, TurnsTransitive DEF Turns
<1> QED
  BY <1>6, MapStep, MapNow DEF D, OnAcked

\* A packet is lost.
LEMMA OnLostKeeps ==
    ASSUME MapIInv, NEW p \in pkts, OnLost(p)
    PROVE  MapIInv'
<1> DEFINE D == DOMAIN qsm.str
           N == ForEach(LostData, qsm, p)
           b == Reverse(p)
<1>1. D \in SUBSET (0..MaxStreamId) /\ Fine(qsm, D) /\ PacketGood(p, qsm)
  BY MapNow
<1>2. qsm' = ForEach(LostAbort, N, b)
  BY DEF OnLost
<1> HIDE DEF D
<1>3. Turns(qsm, N, D)
  BY <1>1, EachLostData
<1> HIDE DEF N
<1>4. PacketGood(b, N)
  BY <1>1, <1>3, PacketStays, ReverseGood DEF Turns
<1> HIDE DEF b
<1>5. Turns(N, qsm', D)
  BY <1>1, <1>2, <1>3, <1>4, EachLostAbort DEF Turns
<1>6. Turns(qsm, qsm', D)
  BY <1>3, <1>5, TurnsTransitive DEF Turns
<1> QED
  BY <1>6, MapStep, MapNow DEF D, OnLost

-----------------------------------------------------------------------------
(***************************************************************************)
(* Theorems                                                                *)
(***************************************************************************)

\* MapIInv holds when the connection has no stream.
LEMMA MapStarts ==
    ASSUME MapInit
    PROVE  MapIInv
<1>1. qsm.str = <<>> /\ qsm.active = <<>> /\ qsm.rr_cur = NoStream
      /\ qsm.num_shutdown_flush = 0
  BY DEF MapInit
<1>2. DOMAIN qsm.str = {}
  BY <1>1
<1>3. PICK S \in StreamSets : app = [s \in S |-> "none"]
  BY DEF MapInit
<1>4. AppGood
  BY <1>3, StreamMapAssumption DEF AppGood, Streams
<1>5. qsm \in MapsOn({})
  <2> DEFINE c == [cwm |-> 0, swm |-> 0]
             l == [bidi \in BOOLEAN |-> 0]
  <2>1. qsm = [str |-> <<>>, active |-> <<>>, rr_cur |-> NoStream,
               num_shutdown_flush |-> 0, closing |-> FALSE,
               conn_txfc |-> c, max_local_streams |-> l]
    BY DEF MapInit
  <2>2. c \in [cwm : Nat, swm : Nat]
    OBVIOUS
  <2>3. l \in [BOOLEAN -> Nat]
    OBVIOUS
  <2>4. <<>> \in [{} -> StreamRecs] /\ <<>> \in Seq({})
    OBVIOUS
  <2> HIDE DEF c, l
  <2> QED
    BY <2>1, <2>2, <2>3, <2>4 DEF MapsOn
<1>6. ListGood(qsm)
  BY <1>1, <1>2 DEF ListGood, IsInjective
<1>7. Cardinality(Flagged(qsm)) = 0
  <2>1. Flagged(qsm) = {}
    BY <1>2 DEF Flagged
  <2> QED
    BY <2>1, FS_EmptySet
<1>8. MapGood(qsm, DOMAIN qsm.str, {}) /\ Served(qsm, {})
  BY <1>1, <1>2, <1>5, <1>6, <1>7 DEF MapGood, Served
<1> QED
  BY <1>2, <1>4, <1>8 DEF MapIInv, MapInit

\* Every step keeps MapIInv.
LEMMA MapKeeps ==
    ASSUME MapIInv, [MapNext]_map_vars
    PROVE  MapIInv'
<1>1. CASE AppNext
  BY <1>1, NewStreamKeeps, AcceptStreamKeeps, StreamWriteKeeps,
     ConcludeEmptyKeeps, ConcludeKeeps, StreamResetKeeps, ReadKeeps,
     ReadResetKeeps, StreamFreeKeeps, BeginShutdownFlushKeeps DEF AppNext
<1>2. CASE PeerNext
  BY <1>2, RxStreamKeeps, RxResetStreamKeeps, RxStopSendingKeeps, RxMaxDataKeeps,
     RxMaxStreamsKeeps DEF PeerNext
<1>3. CASE Transmit
  BY <1>3, GeneratePacketKeeps DEF Transmit
<1>4. CASE Resolve
  BY <1>4, OnAckedKeeps, OnLostKeeps DEF Resolve
<1>5. CASE UNCHANGED map_vars
  BY <1>5 DEF map_vars, MapIInv, AppGood, Streams, Exists
<1> QED
  BY <1>1, <1>2, <1>3, <1>4, <1>5 DEF MapNext

\* The inductive invariant of the stream map: what StreamGood says of every
\* stream, the flags of the flush and their counter, the active list with its
\* round robin, and what the frames in flight say of their streams.
THEOREM MapInductiveInvariant == MapSpec => []MapIInv
<1>1. MapInit => MapIInv
  BY MapStarts
<1>2. MapIInv /\ [MapNext]_map_vars => MapIInv'
  BY MapKeeps
<1> QED
  BY <1>1, <1>2, PTL DEF MapSpec

\* However many streams there are, and whatever the application, the peer and
\* the fate of packets do to them, a stream with something to send is on the
\* active list (stream_map_mark_active), unless all it has to send is the FIN
\* of a write of no bytes (quic_post_write).
THEOREM ActiveIsServed == MapSpec => []ActiveWhenNeeded
<1>1. MapIInv => ActiveWhenNeeded
  BY DEF MapIInv, Served, ActiveWhenNeeded
<1> QED
  BY <1>1, MapInductiveInvariant, PTL

\* The round robin of the packetiser always points at a stream of the list, each
\* stream is on it once, and none that waits for collection
\* (stream_map_mark_inactive).
THEOREM RoundRobinIsSound == MapSpec => []RoundRobinSound
<1>1. MapIInv => RoundRobinSound
  BY DEF MapIInv, MapGood, ListGood, RoundRobinSound
<1> QED
  BY <1>1, MapInductiveInvariant, PTL

\* The counter of SSL_shutdown is that of the streams it waits for, and each of
\* them has something unacknowledged (shutdown_flush_done).
THEOREM FlushIsExact == MapSpec => []FlushExact
<1>1. MapIInv => FlushExact
  BY DEF MapIInv, MapGood, FlushGood, Flagged, FlushExact
<1> QED
  BY <1>1, MapInductiveInvariant, PTL

\* The assertions of qsm_ready_for_gc and txp_generate_stream_related fail only
\* for a stream that was concluded by a write of no bytes while its send part
\* was READY.
THEOREM AssertionsAlwaysHold == MapSpec => []AssertionsHold
<1>1. MapIInv => AssertionsHold
  BY DEF MapIInv, MapGood, StreamGood, Ended, HasEnd, AssertionsHold
<1> QED
  BY <1>1, MapInductiveInvariant, PTL
===============================================================================
