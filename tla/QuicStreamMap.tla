---------------------------- MODULE QuicStreamMap -----------------------------
(***************************************************************************)
(* The stream map (ssl/quic/quic_stream_map.c) of one connection, driven   *)
(* by the application (quic_impl.c), by frames of the peer                 *)
(* (quic_rx_depack.c), by the TX packetiser, which serves the active       *)
(* streams in turn (quic_txp.c), and by the fate of its packets, which the *)
(* frame-in-flight dispatcher hands on (quic_fifd.c).                      *)
(*                                                                         *)
(* Streams have their QUIC identifiers: bit 0 is set if the server opened  *)
(* the stream, bit 1 if it is unidirectional.  A send buffer holds units   *)
(* of data, numbered from 1 (what it does with bytes is QuicSStream's      *)
(* subject).  Only connection-level credit can hold back what is in it:    *)
(* xso_sstream_append accepts no more than the stream-level credit allows. *)
(* Packets without a chunk are not kept: nothing depends on their fate.    *)
(* MAX_STREAM_DATA is wanted when the window has grown or when a frame was *)
(* lost, and one flag stands for both reasons.  Whether the peer has asked *)
(* for a stop is not kept: the request resets the send part at once.       *)
(* Allocation failures are left out.  The field empty_fin of a stream is   *)
(* history: its FIN was queued by a write of no bytes.                     *)
(***************************************************************************)
EXTENDS Integers, FiniteSets, SequencesExt

CONSTANTS
    MaxStreamId,    \* Bound: the largest stream identifier
    StreamSets,     \* Sets of streams, one of which may be opened in a run
    IsServer,       \* This endpoint's role
    MaxUnits,       \* Bound: units of data written to a stream
    MaxCredit,      \* Bound: units of connection-level credit the peer gives
    MaxLosses       \* Bound: packets declared lost

ASSUME StreamMapAssumption ==
    /\ MaxStreamId \in Nat /\ StreamSets \subseteq SUBSET (0..MaxStreamId)
    /\ IsServer \in BOOLEAN
    /\ MaxUnits \in Nat /\ MaxCredit \in Nat /\ MaxLosses \in Nat

VARIABLES
    qsm,            \* The stream map
    app,            \* What the application holds of each stream
    shutting_down,  \* qc->shutting_down
    pkts,           \* Packets in flight, each a sequence of chunks
    losses          \* Number of packets declared lost

map_vars == <<qsm, app, shutting_down, pkts, losses>>

Streams == DOMAIN app
NoStream == -1

is_server_init(s) == s % 2 = 1
is_bidi(s) == (s \div 2) % 2 = 0
is_local_init(s) == is_server_init(s) = IsServer
Ordinal(s) == s \div 4

\* A stream as ossl_quic_stream_map_alloc makes it.
ossl_quic_stream_map_alloc(s) ==
    [send |-> IF is_local_init(s) \/ is_bidi(s) THEN "READY" ELSE "NONE",
     recv |-> IF ~is_local_init(s) \/ is_bidi(s) THEN "RECV" ELSE "NONE",
     size |-> 0, swm |-> 0, new |-> {}, acked |-> {}, fin |-> "none",
     want_max_stream_data |-> FALSE, stop_sending |-> FALSE,
     want_stop_sending |-> FALSE, acked_stop_sending |-> FALSE, want_reset_stream |-> FALSE,
     deleted |-> FALSE, ready_for_gc |-> FALSE, shutdown_flush |-> FALSE,
     empty_fin |-> FALSE]

has_send_buffer(r) == r.send \in {"READY", "SEND", "DATA_SENT"}
send_is_reset(r) == r.send \in {"RESET_SENT", "RESET_RECVD"}

send_get_final_size(r) ==
    \/ r.send = "SEND" /\ r.fin # "none"
    \/ r.send \in {"DATA_SENT", "DATA_RECVD", "RESET_SENT", "RESET_RECVD"}

(***************************************************************************)
(* What a send buffer tells (quic_sstream.c, specified in QuicSStream)     *)
(***************************************************************************)
has_pending(r) == r.new # {} \/ r.fin = "queued"

is_totally_acked(r) == r.acked = 1..r.size /\ r.fin \in {"none", "acked"}

(***************************************************************************)
(* The map.  M stands for a stream map, with the connection's TXFC and the *)
(* numbers of streams that the peer allows; s for a stream in it.          *)
(***************************************************************************)
Exists(M, s) == s \in DOMAIN M.str

ossl_quic_txfc_get_credit(M) == M.conn_txfc.cwm - M.conn_txfc.swm

\* Where a stream is on the active list.
Position(M, s) == CHOOSE i \in 1..Len(M.active) : M.active[i] = s

\* list_next: the list is circular and its head is skipped.
active_next(M, s) ==
    M.active[IF Position(M, s) = Len(M.active) THEN 1 ELSE Position(M, s) + 1]

list_remove(M, s) ==
    SubSeq(M.active, 1, Position(M, s) - 1)
      \o SubSeq(M.active, Position(M, s) + 1, Len(M.active))

stream_map_mark_active(M, s) ==
    IF Contains(M.active, s)
    THEN M
    ELSE [M EXCEPT !.active = Append(@, s),
                   !.rr_cur = IF @ = NoStream THEN s ELSE @]

\* Mutant: the round robin keeps pointing at the last stream of the list.
InactiveKeepsCur(M, s) ==
    IF ~Contains(M.active, s)
    THEN M
    ELSE [M EXCEPT !.active = list_remove(M, s),
                   !.rr_cur = IF @ = s THEN active_next(M, s) ELSE @]

stream_map_mark_inactive(M, s) ==
    LET next == IF M.rr_cur = s THEN active_next(M, s) ELSE M.rr_cur
    IN  IF ~Contains(M.active, s)
        THEN M
        ELSE [M EXCEPT !.active = list_remove(M, s),
                       !.rr_cur = IF next = s THEN NoStream ELSE next]

stream_has_data_to_send(M, r) ==
    /\ has_send_buffer(r)
    /\ IF r.new = {}
       THEN r.fin = "queued"
       ELSE Min(r.new) <= r.swm + ossl_quic_txfc_get_credit(M)

qsm_ready_for_gc(r) ==
    /\ r.deleted
    /\ r.recv = "NONE" \/ r.acked_stop_sending
    /\ r.send \in {"NONE", "DATA_RECVD", "RESET_RECVD"}

is_local_allowed_by_stream_limit(M, s) ==
    Ordinal(s) < M.max_local_streams[is_bidi(s)]

should_be_active(M, s) ==
    LET r == M.str[s]
    IN  /\ is_local_init(s) => is_local_allowed_by_stream_limit(M, s)
        /\ ~r.ready_for_gc
        /\ \/ r.recv = "RECV" /\ r.want_max_stream_data
           \/ r.want_stop_sending
           \/ r.want_reset_stream
           \/ stream_has_data_to_send(M, r)

\* The last stream closes the connection (QuicChannel).
shutdown_flush_done(M, s) ==
    IF M.str[s].shutdown_flush
    THEN [M EXCEPT !.str[s].shutdown_flush = FALSE,
                   !.num_shutdown_flush = @ - 1,
                   !.closing = @ \/ M.num_shutdown_flush = 1]
    ELSE M

ossl_quic_sstream_free(r) ==
    [r EXCEPT !.size = 0, !.new = {}, !.acked = {}, !.fin = "none"]

ossl_quic_stream_map_notify_totally_acked(M, s) ==
    LET r == [ossl_quic_sstream_free(M.str[s]) EXCEPT !.send = "DATA_RECVD"]
    IN  shutdown_flush_done([M EXCEPT !.str[s] = r], s)

ossl_quic_stream_map_update_state(M, s) ==
    LET r  == M.str[s]
        M1 == IF r.send = "DATA_SENT" /\ is_totally_acked(r)
              THEN ossl_quic_stream_map_notify_totally_acked(M, s)
              ELSE IF r.send = "SEND" /\ r.shutdown_flush /\ is_totally_acked(r)
              THEN shutdown_flush_done(M, s)
              ELSE M
        M2 == [M1 EXCEPT !.str[s].ready_for_gc = @ \/ qsm_ready_for_gc(M1.str[s])]
    IN  IF should_be_active(M2, s)
        THEN stream_map_mark_active(M2, s)
        ELSE stream_map_mark_inactive(M2, s)

\* Every stream of S that exists is updated.  The order is that of a hash
\* table; only the order of the active list depends on it.
VisitUpdate(M, S) ==
    LET after[n \in 0..(MaxStreamId + 1)] ==
            IF n = 0 THEN M
            ELSE IF n - 1 \in S /\ Exists(M, n - 1)
            THEN ossl_quic_stream_map_update_state(after[n - 1], n - 1)
            ELSE after[n - 1]
    IN  after[MaxStreamId + 1]

ensure_send_part_id(r) == [r EXCEPT !.send = IF @ = "READY" THEN "SEND" ELSE @]

\* Mutant: a reset leaves the stream in the set that is being flushed.
ResetKeepsFlush(M, s) ==
    LET r == [ossl_quic_sstream_free(M.str[s]) EXCEPT
                !.want_reset_stream = TRUE, !.send = "RESET_SENT"]
    IN  IF has_send_buffer(M.str[s])
        THEN ossl_quic_stream_map_update_state([M EXCEPT !.str[s] = r], s)
        ELSE M

\* The send buffer is freed.  A no-op in states that cannot be reset or
\* have been.
ossl_quic_stream_map_reset_stream_send_part(M, s) ==
    LET r == [ossl_quic_sstream_free(M.str[s]) EXCEPT
                !.want_reset_stream = TRUE, !.send = "RESET_SENT"]
    IN  IF has_send_buffer(M.str[s])
        THEN ossl_quic_stream_map_update_state(
                 shutdown_flush_done([M EXCEPT !.str[s] = r], s), s)
        ELSE M

ossl_quic_stream_map_schedule_stop_sending(M, s) ==
    LET r == M.str[s]
    IN  IF /\ r.stop_sending /\ ~r.want_stop_sending
           /\ r.recv \in {"RECV", "SIZE_KNOWN"}
        THEN ossl_quic_stream_map_update_state(
                 [M EXCEPT !.str[s].want_stop_sending = TRUE], s)
        ELSE M

ossl_quic_stream_map_stop_sending_recv_part(M, s) ==
    IF ~M.str[s].stop_sending /\ M.str[s].recv \in {"RECV", "SIZE_KNOWN"}
    THEN ossl_quic_stream_map_schedule_stop_sending(
             [M EXCEPT !.str[s].stop_sending = TRUE], s)
    ELSE M

-----------------------------------------------------------------------------
MapInit ==
    /\ qsm = [str |-> <<>>, active |-> <<>>, rr_cur |-> NoStream,
              num_shutdown_flush |-> 0, closing |-> FALSE,
              conn_txfc |-> [cwm |-> 0, swm |-> 0],
              max_local_streams |-> [bidi \in BOOLEAN |-> 0]]
    /\ \E S \in StreamSets : app = [s \in S |-> "none"]
    /\ shutting_down = FALSE
    /\ pkts = {}
    /\ losses = 0

(***************************************************************************)
(* The application                                                         *)
(***************************************************************************)
Opened(M, s) ==
    [M EXCEPT !.str = [t \in DOMAIN @ \cup {s} |->
                          IF t = s THEN ossl_quic_stream_map_alloc(s) ELSE @[t]]]

\* SSL_new_stream.  The peer's limit only matters for what is sent.
NewStream(s) ==
    /\ ~shutting_down
    /\ is_local_init(s) /\ ~Exists(qsm, s)
    /\ \A t \in Streams : (t % 4 = s % 4 /\ t < s) => Exists(qsm, t)
    /\ qsm' = Opened(qsm, s)
    /\ app' = [app EXCEPT ![s] = "held"]
    /\ UNCHANGED <<shutting_down, pkts, losses>>

\* SSL_accept_stream
AcceptStream(s) ==
    /\ app[s] = "queued"
    /\ app' = [app EXCEPT ![s] = "held"]
    /\ UNCHANGED <<qsm, shutting_down, pkts, losses>>

\* Writing is possible in these states, as long as there is no final size;
\* the check moves the send part to SEND.
CanWrite(s) ==
    /\ app[s] = "held"
    /\ has_send_buffer(qsm.str[s]) /\ qsm.str[s].fin = "none"

\* SSL_write of one unit, with or without SSL_WRITE_FLAG_CONCLUDE: the
\* stream is updated before the FIN is queued.
StreamWrite(s, conclude) ==
    /\ ~shutting_down
    /\ CanWrite(s)
    /\ qsm.str[s].size < MaxUnits
    /\ LET n == qsm.str[s].size + 1
           r == [ensure_send_part_id(qsm.str[s]) EXCEPT !.size = n,
                                                        !.new = @ \cup {n}]
           M == ossl_quic_stream_map_update_state([qsm EXCEPT !.str[s] = r], s)
       IN  qsm' = [M EXCEPT !.str[s].fin = IF conclude THEN "queued" ELSE @]
    /\ UNCHANGED <<app, shutting_down, pkts, losses>>

\* SSL_write of no bytes with SSL_WRITE_FLAG_CONCLUDE: the FIN is queued, but
\* the send part is not moved to SEND and the stream is not updated.  (The
\* state is not looked at; without a send buffer there is nothing to call.)
ConcludeEmpty(s) ==
    /\ ~shutting_down
    /\ CanWrite(s)
    /\ qsm' = [qsm EXCEPT !.str[s].fin = "queued", !.str[s].empty_fin = TRUE]
    /\ UNCHANGED <<app, shutting_down, pkts, losses>>

\* SSL_stream_conclude
Conclude(s) ==
    /\ ~shutting_down
    /\ CanWrite(s)
    /\ LET r == [ensure_send_part_id(qsm.str[s]) EXCEPT !.fin = "queued"]
       IN  qsm' = ossl_quic_stream_map_update_state([qsm EXCEPT !.str[s] = r], s)
    /\ UNCHANGED <<app, shutting_down, pkts, losses>>

\* SSL_stream_reset
StreamReset(s) ==
    /\ CanWrite(s)
    /\ qsm' = ossl_quic_stream_map_reset_stream_send_part(qsm, s)
    /\ UNCHANGED <<app, shutting_down, pkts, losses>>

\* SSL_read.  fin: the end is reached; grown: the flow controller now offers
\* the peer more credit, which it does not once the final size is known.
\* The stream is updated only if a byte was read.
Read(s, some, fin, grown) ==
    /\ app[s] = "held"
    /\ qsm.str[s].recv \in {"RECV", "SIZE_KNOWN", "DATA_RECVD"}
    /\ some \/ fin
    /\ fin => qsm.str[s].recv = "DATA_RECVD"
    /\ grown => some /\ qsm.str[s].recv = "RECV"
    /\ LET r == [qsm.str[s] EXCEPT !.recv = IF fin THEN "DATA_READ" ELSE @,
                                   !.want_max_stream_data = @ \/ grown]
           M == [qsm EXCEPT !.str[s] = r]
       IN  qsm' = IF some THEN ossl_quic_stream_map_update_state(M, s) ELSE M
    /\ UNCHANGED <<app, shutting_down, pkts, losses>>

\* SSL_read of a stream that the peer has reset
ReadReset(s) ==
    /\ app[s] = "held"
    /\ qsm.str[s].recv = "RESET_RECVD"
    /\ qsm' = [qsm EXCEPT !.str[s].recv = "RESET_READ"]
    /\ UNCHANGED <<app, shutting_down, pkts, losses>>

Deleted(M, s) ==
    ossl_quic_stream_map_update_state([M EXCEPT !.str[s].deleted = TRUE], s)

\* Mutant: a stream without an end is not reset when it is freed.
FreeNoReset(s) ==
    /\ app[s] = "held"
    /\ qsm' = Deleted(ossl_quic_stream_map_stop_sending_recv_part(qsm, s), s)
    /\ app' = [app EXCEPT ![s] = "freed"]
    /\ UNCHANGED <<shutting_down, pkts, losses>>

\* SSL_free of a stream: what has no end yet is reset.
StreamFree(s) ==
    /\ app[s] = "held"
    /\ LET r  == qsm.str[s]
           M1 == IF r.send \in {"READY", "SEND"} /\ r.fin = "none"
                 THEN ossl_quic_stream_map_reset_stream_send_part(qsm, s)
                 ELSE qsm
           M2 == ossl_quic_stream_map_stop_sending_recv_part(M1, s)
       IN  qsm' = Deleted(M2, s)
    /\ app' = [app EXCEPT ![s] = "freed"]
    /\ UNCHANGED <<shutting_down, pkts, losses>>

eligible_for_shutdown_flush(r) ==
    r.send \in {"SEND", "DATA_SENT"} /\ ~is_totally_acked(r)

\* SSL_shutdown begins to flush the streams.
BeginShutdownFlush ==
    /\ ~shutting_down
    /\ shutting_down' = TRUE
    /\ LET S == {s \in DOMAIN qsm.str : eligible_for_shutdown_flush(qsm.str[s])}
       IN  qsm' = [qsm EXCEPT
                     !.num_shutdown_flush = Cardinality(S),
                     !.str = [s \in DOMAIN @ |->
                                [@[s] EXCEPT !.shutdown_flush = s \in S]]]
    /\ UNCHANGED <<app, pkts, losses>>

(***************************************************************************)
(* Frames of the peer                                                      *)
(***************************************************************************)
ossl_quic_channel_reject_stream(M, s) ==
    Deleted(ossl_quic_stream_map_reset_stream_send_part(
                ossl_quic_stream_map_stop_sending_recv_part(M, s), s), s)

\* The first frame for a stream of the peer opens it and the streams of its
\* type before it.  Incoming streams are rejected or queued for acceptance.
Missing(s) == {t \in Streams : t % 4 = s % 4 /\ t <= s /\ ~Exists(qsm, t)}

depack_do_implicit_stream_create(s, reject) ==
    LET after[n \in 0..(s + 1)] ==
            IF n = 0 THEN qsm
            ELSE IF n - 1 \notin Missing(s) THEN after[n - 1]
            ELSE IF ~reject THEN Opened(after[n - 1], n - 1)
            ELSE ossl_quic_channel_reject_stream(Opened(after[n - 1], n - 1), n - 1)
    IN  after[s + 1]

\* A frame for stream s arrives; its handler leaves the stream map as it is in
\* handled.
RxFrame(s, reject, handled) ==
    /\ ~qsm.closing
    /\ Exists(qsm, s) \/ ~is_local_init(s)
    /\ reject => ~Exists(qsm, s)
    /\ qsm' = handled
    /\ app' = [t \in Streams |->
                 IF t \in Missing(s)
                 THEN IF reject THEN "freed" ELSE "queued"
                 ELSE app[t]]

\* STREAM.  complete: all data up to the final size has arrived.
RxStream(s, reject, is_fin, complete) ==
    /\ is_bidi(s) \/ ~is_local_init(s)
    /\ LET Sized(r) == IF is_fin THEN [r EXCEPT !.recv = "SIZE_KNOWN"] ELSE r
           Recvd(r) == IF r.recv = "SIZE_KNOWN" /\ complete /\ ~r.stop_sending
                       THEN [r EXCEPT !.recv = "DATA_RECVD",
                                      !.want_stop_sending = FALSE]
                       ELSE r
           M == depack_do_implicit_stream_create(s, reject)
       IN  RxFrame(s, reject, IF M.str[s].recv \in {"RECV", "SIZE_KNOWN"}
                              THEN [M EXCEPT !.str[s] = Recvd(Sized(@))]
                              ELSE M)
    /\ UNCHANGED <<shutting_down, pkts, losses>>

\* RESET_STREAM
RxResetStream(s, reject) ==
    /\ is_bidi(s) \/ ~is_local_init(s)
    /\ LET Reset(r) == IF r.recv \in {"RECV", "SIZE_KNOWN", "DATA_RECVD"}
                       THEN [r EXCEPT !.recv = "RESET_RECVD",
                                      !.want_stop_sending = FALSE]
                       ELSE r
           M == depack_do_implicit_stream_create(s, reject)
       IN  RxFrame(s, reject, ossl_quic_stream_map_update_state(
                                  [M EXCEPT !.str[s] = Reset(@)], s))
    /\ UNCHANGED <<shutting_down, pkts, losses>>

\* STOP_SENDING
RxStopSending(s, reject) ==
    /\ is_bidi(s) \/ is_local_init(s)
    /\ LET M == depack_do_implicit_stream_create(s, reject)
       IN  RxFrame(s, reject,
                   ossl_quic_stream_map_reset_stream_send_part(M, s))
    /\ UNCHANGED <<shutting_down, pkts, losses>>

\* Mutant: streams that had no credit left are not looked at.
CreditUnnoticed ==
    /\ ~qsm.closing /\ qsm.conn_txfc.cwm < MaxCredit
    /\ qsm' = [qsm EXCEPT !.conn_txfc.cwm = @ + 1]
    /\ UNCHANGED <<app, shutting_down, pkts, losses>>

\* MAX_DATA: any stream may have waited for the credit.  (MAX_STREAM_DATA
\* only lets the application write more.)
RxMaxData ==
    /\ ~qsm.closing /\ qsm.conn_txfc.cwm < MaxCredit
    /\ qsm' = VisitUpdate([qsm EXCEPT !.conn_txfc.cwm = @ + 1], Streams)
    /\ UNCHANGED <<app, shutting_down, pkts, losses>>

\* MAX_STREAMS
RxMaxStreams(bidi) ==
    /\ ~qsm.closing
    /\ \E s \in Streams : /\ is_local_init(s) /\ is_bidi(s) = bidi
                          /\ ~is_local_allowed_by_stream_limit(qsm, s)
    /\ qsm' = VisitUpdate([qsm EXCEPT !.max_local_streams[bidi] = @ + 1],
                          {s \in Streams : is_bidi(s) = bidi})
    /\ UNCHANGED <<app, shutting_down, pkts, losses>>

(***************************************************************************)
(* The TX packetiser visits the active streams, from rr_cur on, until the  *)
(* packet is full.  What it puts into the packet for one stream is a       *)
(* record, of which the packet keeps what its chunks tell.                 *)
(***************************************************************************)
\* Units a stream may send if others in the packet use up some credit.
Sendable(M, s, used) ==
    LET r == M.str[s]
    IN  {u \in r.new : u <= r.swm + ossl_quic_txfc_get_credit(M) - used}

\* The frames a stream gets if the packet has room for the first of the
\* four kinds, up to "fit", and for the units up to "last".
StreamFrames(M, s, used, fit, last) ==
    LET r == M.str[s]
        units == IF fit >= 3 /\ has_send_buffer(r)
                 THEN {u \in Sendable(M, s, used) : u <= last}
                 ELSE {}
    IN  [id |-> s,
         stop |-> fit >= 1 /\ r.want_stop_sending,
         reset |-> fit >= 2 /\ r.want_reset_stream,
         fc |-> fit >= 3 /\ r.recv = "RECV" /\ r.want_max_stream_data,
         units |-> units,
         fin |-> /\ fit >= 3 /\ last >= MaxUnits /\ has_send_buffer(r)
                 /\ r.fin # "none" /\ units = r.new
                 /\ r.fin = "queued" \/ r.size \in units]

NewUnits(r, units) == {u \in units : u > r.swm}

HasFrame(f) == f.stop \/ f.reset \/ f.fc \/ f.units # {} \/ f.fin
HasChunk(f) == f.stop \/ f.reset \/ f.units # {} \/ f.fin

\* The i-th stream of a visit.
RoundRobin(M, i) ==
    LET j == Position(M, M.rr_cur) + i - 1
    IN  M.active[IF j <= Len(M.active) THEN j ELSE j - Len(M.active)]

\* The frames for k streams, and those of them with a chunk.  Streams visited
\* before the last one get all they want.
txp_generate_stream_related(M, k, fit, last) ==
    LET after[i \in 0..k] ==
            IF i = 0 THEN [frames |-> <<>>, chunks |-> <<>>, used |-> 0]
            ELSE LET acc == after[i - 1]
                     s == RoundRobin(M, i)
                     f == IF i < k THEN StreamFrames(M, s, acc.used, 3, MaxUnits)
                                   ELSE StreamFrames(M, s, acc.used, fit, last)
                 IN  [frames |-> Append(acc.frames, f),
                      chunks |-> IF HasChunk(f) THEN Append(acc.chunks, f)
                                 ELSE acc.chunks,
                      used |-> acc.used
                                 + Cardinality(NewUnits(M.str[s], f.units))]
    IN  after[k]

\* What the frames of p, one after the other, make of a map.
ForEach(Handle(_, _), M, p) ==
    LET after[i \in 0..Len(p)] == IF i = 0 THEN M ELSE Handle(after[i - 1], p[i])
    IN  after[Len(p)]

\* A stream once the frames f are on their way.
StreamSent(r, f) ==
    [r EXCEPT !.want_max_stream_data = @ /\ ~f.fc,
              !.want_stop_sending = @ /\ ~f.stop,
              !.want_reset_stream = @ /\ ~f.reset,
              !.new = @ \ f.units,
              !.fin = IF f.fin /\ @ = "queued" THEN "sent" ELSE @,
              !.swm = @ + Cardinality(NewUnits(r, f.units))]

AllDataSent(r) == r.send = "SEND" /\ ~has_pending(r) /\ r.fin # "none"

\* The bookkeeping for one stream once the packet is on its way.
txp_pkt_commit(M, f) ==
    LET n == Cardinality(NewUnits(M.str[f.id], f.units))
        M1 == ossl_quic_stream_map_update_state(
                  [M EXCEPT !.str[f.id] = StreamSent(@, f),
                            !.conn_txfc.swm = @ + n], f.id)
    IN  [M1 EXCEPT !.str[f.id].send =
                       IF AllDataSent(M1.str[f.id]) THEN "DATA_SENT" ELSE @]

\* A packet is full, after it got at least one frame, or all streams have
\* been visited.  If none of them had anything to send a packet is sent
\* only if there are other frames for it.
GeneratePacket(k, fit, last, commit) ==
    /\ k <= Len(qsm.active)
    /\ fit < 3 => last = 0
    /\ commit \/ (k = Len(qsm.active) /\ fit = 3 /\ last = MaxUnits)
    /\ LET pkt == txp_generate_stream_related(qsm, k, fit, last)
           some == \E i \in 1..k : HasFrame(pkt.frames[i])
           M == [qsm EXCEPT !.rr_cur = active_next(qsm, @)]
       IN  /\ some \/ (k = Len(qsm.active) /\ fit = 3 /\ last = MaxUnits)
           /\ some => commit
           /\ qsm' = IF commit
                     THEN ForEach(txp_pkt_commit, M, Reverse(pkt.frames))
                     ELSE M
           /\ pkts' = pkts \cup ({pkt.chunks} \ {<<>>})
    /\ UNCHANGED <<app, shutting_down, losses>>

(***************************************************************************)
(* The fate of packets (quic_fifd.c).  STREAM chunks come first, those of  *)
(* STOP_SENDING and RESET_STREAM after them, in the order of the           *)
(* bookkeeping.  A chunk of a stream without send buffer is skipped.       *)
(***************************************************************************)
UpdateIf(M, s, cond) ==
    IF cond THEN ossl_quic_stream_map_update_state(M, s) ELSE M

AckedData(M, f) ==
    LET q == [M.str[f.id] EXCEPT !.acked = @ \cup f.units,
                                 !.fin = IF f.fin THEN "acked" ELSE @]
    IN  IF has_send_buffer(M.str[f.id]) /\ (f.units # {} \/ f.fin)
        THEN UpdateIf([M EXCEPT !.str[f.id] = q], f.id, is_totally_acked(q))
        ELSE M

\* on_confirm_notify
AckedAbort(M, f) ==
    LET q == [M.str[f.id] EXCEPT
                !.acked_stop_sending = @ \/ f.stop,
                !.send = IF f.reset /\ @ = "RESET_SENT" THEN "RESET_RECVD" ELSE @]
    IN  IF has_send_buffer(M.str[f.id]) /\ (f.stop \/ f.reset)
        THEN ossl_quic_stream_map_update_state([M EXCEPT !.str[f.id] = q], f.id)
        ELSE M

\* Frames are handled only while the connection is active.
OnAcked(p) ==
    /\ ~qsm.closing /\ p \in pkts
    /\ pkts' = pkts \ {p}
    /\ qsm' = ForEach(AckedAbort, ForEach(AckedData, qsm, p), Reverse(p))
    /\ UNCHANGED <<app, shutting_down, losses>>

\* Any loss also regenerates the MAX_STREAM_DATA frame of the stream.
LostData(M, f) ==
    LET q == [M.str[f.id] EXCEPT
                !.new = @ \cup f.units,
                !.fin = IF f.fin /\ @ = "sent" THEN "queued" ELSE @,
                !.want_max_stream_data = TRUE]
    IN  IF has_send_buffer(M.str[f.id]) /\ (f.units # {} \/ f.fin)
        THEN ossl_quic_stream_map_update_state([M EXCEPT !.str[f.id] = q], f.id)
        ELSE M

\* on_regen_notify
LostAbort(M, f) ==
    LET M1 == IF f.stop THEN ossl_quic_stream_map_schedule_stop_sending(M, f.id)
                        ELSE M
        q == [M1.str[f.id] EXCEPT !.want_reset_stream = @ \/ f.reset,
                                  !.want_max_stream_data = TRUE]
    IN  IF has_send_buffer(M.str[f.id]) /\ (f.stop \/ f.reset)
        THEN ossl_quic_stream_map_update_state([M1 EXCEPT !.str[f.id] = q], f.id)
        ELSE M

OnLost(p) ==
    /\ p \in pkts
    /\ losses < MaxLosses /\ losses' = losses + 1
    /\ pkts' = pkts \ {p}
    /\ qsm' = ForEach(LostAbort, ForEach(LostData, qsm, p), Reverse(p))
    /\ UNCHANGED <<app, shutting_down>>

-----------------------------------------------------------------------------
AppNext ==
    \/ \E s \in Streams :
         \/ NewStream(s)
         \/ AcceptStream(s)
         \/ \E conclude \in BOOLEAN : StreamWrite(s, conclude)
         \/ ConcludeEmpty(s)
         \/ Conclude(s)
         \/ StreamReset(s)
         \/ \E some, fin, grown \in BOOLEAN : Read(s, some, fin, grown)
         \/ ReadReset(s)
         \/ StreamFree(s)
    \/ BeginShutdownFlush

PeerNext ==
    \/ \E s \in Streams, reject \in BOOLEAN :
         \/ \E is_fin, complete \in BOOLEAN :
              RxStream(s, reject, is_fin, complete)
         \/ RxResetStream(s, reject)
         \/ RxStopSending(s, reject)
    \/ RxMaxData
    \/ \E bidi \in BOOLEAN : RxMaxStreams(bidi)

Transmit ==
    \E k \in 1..Cardinality(Streams), fit \in 0..3, last \in 0..MaxUnits,
       commit \in BOOLEAN : GeneratePacket(k, fit, last, commit)

Resolve == \E p \in pkts : OnAcked(p) \/ OnLost(p)

MapNext == AppNext \/ PeerNext \/ Transmit \/ Resolve

MapSpec == MapInit /\ [][MapNext]_map_vars

-----------------------------------------------------------------------------
(***************************************************************************)
(* Properties                                                              *)
(***************************************************************************)

\* A stream has nothing to send but the FIN that a write of no bytes queued.
OnlyEmptyFin(r) ==
    /\ r.empty_fin /\ r.new = {}
    /\ ~(r.recv = "RECV" /\ r.want_max_stream_data)
    /\ ~r.want_stop_sending /\ ~r.want_reset_stream

\* Whatever comes between a stream's having something to send and its being
\* served, the stream is on the active list: no call, no frame and no
\* acknowledgement or loss forgets to put it there.  Only the FIN of a write of
\* no bytes (ConcludeEmpty) may be left behind, and only as long as there is
\* nothing else to send on the stream.
ActiveWhenNeeded ==
    \A s \in DOMAIN qsm.str :
        should_be_active(qsm, s) =>
            Contains(qsm.active, s) \/ OnlyEmptyFin(qsm.str[s])

\* The round robin always has a stream of the active list to go on with, and
\* none only when the list is empty; no stream that waits for collection is
\* on the list.
RoundRobinSound ==
    /\ IF qsm.active = <<>> THEN qsm.rr_cur = NoStream
                            ELSE Contains(qsm.active, qsm.rr_cur)
    /\ IsInjective(qsm.active)
    /\ \A s \in DOMAIN qsm.str :
         qsm.str[s].ready_for_gc => ~Contains(qsm.active, s)

\* SSL_shutdown waits for exactly the streams that still have something the
\* peer has not acknowledged: the counter is that of the streams flagged,
\* and a flagged stream has a send buffer with something unacknowledged.
FlushExact ==
    LET S == {s \in DOMAIN qsm.str : qsm.str[s].shutdown_flush}
    IN  /\ qsm.num_shutdown_flush = Cardinality(S)
        /\ \A s \in S : eligible_for_shutdown_flush(qsm.str[s])

\* There is no send part, or it is reset or has a final size.
HasEnd(r) == r.send = "NONE" \/ send_is_reset(r) \/ send_get_final_size(r)

\* The assertions of qsm_ready_for_gc and txp_generate_stream_related: a
\* deleted stream has a final size or is reset, unless its FIN was queued by
\* a write of no bytes while the send part was READY; and RESET_STREAM is
\* wanted only while the stream is in state RESET_SENT.
AssertionsHold ==
    \A s \in DOMAIN qsm.str :
        LET r == qsm.str[s]
        IN  /\ r.deleted => HasEnd(r) \/ (r.send = "READY" /\ r.empty_fin)
            /\ r.want_reset_stream => r.send = "RESET_SENT"

\* The assertion of qsm_ready_for_gc as it stands in the code, with the comment
\* that a send part without FIN is reset when it is marked for deletion.  (It
\* fails: the FIN of a write of no bytes is there, the final size is not.)
DeletedHasEnd ==
    \A s \in DOMAIN qsm.str : qsm.str[s].deleted => HasEnd(qsm.str[s])
==============================================================================
