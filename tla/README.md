# TLA+ models of OpenSSL's QUIC stack

This directory holds a verification development for the QUIC implementation of
libssl (`ssl/quic/`, with `ssl/rio/poll_immediate.c`): TLA+ modules translated
from the C code, TLC configurations that check them on small instances, and
proofs checked by TLAPS. Everything else in the repository (TLS and DTLS, the
providers, libcrypto, the command line programs) is outside of its scope;
`PROJECT.json` lists those parts as not modelled.

QUIC is the part of the library in which correctness depends on *order*: data is
cut into frames that are lost, repeated and reordered, credit travels in frames
of its own, every retransmission is decided from callbacks of the ACK manager,
timers race with late answers, each end may close or fail at any moment, and
several application threads and an assist thread drive one event loop.

**Scope and coverage.** The repository has about 695,000 lines of implementation, most
of them cryptographic algorithms, tables, encodings, TLS and generated code, where a
state machine says little. QUIC has about 40,000 of them with blank lines, comments and headers, and what is
modelled here is the part of these that keeps state across events. The share of the
*whole repository* that the map covers is therefore small, about one per cent, and
cannot become large without leaving the code that model checking is good for.

## 1. Inventory

### Components, their state and operations

| component | code | state | operations |
|---|---|---|---|
| integer range set | `uint_set.c` | sorted list of ranges | insert, remove, query |
| flow control | `quic_fc.c` | TXFC: swm, cwm; RXFC: swm, cwm, rwm, esrwm, hwm, window, error, FIN; one per stream and one per connection | bump, get and consume credit; receive frame, retire, read error and changed flag |
| ring buffer | `ring_buf.h` | memory, head and cull tail offsets | push, write at, get, cull, resize |
| send stream | `quic_sstream.c` | ring buffer, new and acked ranges, final size flags | append, fin, enumerate frames, mark transmitted, lost, acked, cull |
| receive stream | `quic_rstream.c`, `quic_sf_list.c` | frame list, ring buffer, locked record | queue, read, get and release record, move, resize |
| stream map | `quic_stream_map.c` | states of both halves of each stream, active list and round robin, limits, flush count | open, accept, reset, stop, update, shutdown flush, iterate |
| frame-in-flight dispatcher | `quic_fifd.c` | packets in flight (with TXPIM, CFQ) | commit, on acked, lost, discarded |
| ACK manager | `quic_ackm.c`, `quic_statm.c` | packet history of three spaces, timer, PTO count, probes; received set and watermark, ACK flags and deadline | transmit, ACK frame, timeout, discard, pseudo-loss; receive packet, ACK generation |
| congestion control | `cc_newreno.c` | window, threshold, bytes in flight, recovery start | sent, acked, lost, invalidated |
| channel | `quic_channel.c` | life cycle state, cause of termination, key update flags, timers, encryption levels | tick, start, close, errors, handshake events, key update |
| record layer | `quic_record_*.c` | keys and epoch per level, pending packets | encrypt, decrypt, key update, validate |
| packetiser, depacketiser | `quic_txp.c`, `quic_rx_depack.c` | pending frames per level | generate, handle frame |
| reactor, wait contexts | `quic_reactor.c`, `quic_reactor_wait_ctx.c` | mutex, waiters, notifier, condition variable | tick, block until, enter and leave a blocking section, notify |
| SSL_poll | `poll_immediate.c` | items, wait context | readout, translate, block, clean up |
| thread assist | `quic_thread_assist.c` | thread, teardown flag | loop, start, stop, join |
| control frame queue, TXPIM | `quic_cfq.c`, `quic_txpim.c` | frames new, in flight, free | add, take, lose, release |
| connection identifiers | `quic_lcidm.c`, `quic_rcidm.c`, `quic_srtm.c` | issued and retired identifiers, tokens | enrol, retire, roll |
| port, engine, demultiplexer | `quic_port.c`, `quic_engine.c`, `quic_demux.c` | channels, incoming queue | tick, route |
| API | `quic_impl.c`, `quic_obj.c`, `quic_tls.c` | SSL objects, options | read, write, conclude, reset, free, shutdown |

### How they interact

The application calls the API layer, which locks the mutex of the QUIC domain
and appends to a send stream, reads from a receive stream, opens, resets and frees
streams in the stream map, or blocks on the reactor. A *tick* of the reactor goes
engine → port → channels: datagrams are demultiplexed, all of them are decrypted, and
the depacketiser counts frames against flow control, queues them in receive streams
and moves the receive halves in the stream map. ACK frames go to the ACK manager, which
calls the dispatcher for each packet acknowledged or lost, which tells send streams, the
stream map, flow control and the control frame queue. Then the packetiser takes frames
from all of them, streams in the order of the round robin, and commits the packet to the
dispatcher and the ACK manager. CONNECTION_CLOSE, errors and timers move the channel
through its life cycle. The tick reports whether other threads may be able to go on, and
the reactor then wakes them. TLS is fed by the receive stream of each CRYPTO level and
writes to its send stream.

### What is hard

* **Loss, repetition, reordering** of STREAM, MAX_DATA, ACK and CONNECTION_CLOSE frames:
  bookkeeping of ranges, of credit at two levels, of final sizes, of what was processed.
* **Threads**: state is read under a mutex that is released before the thread
  sleeps; a thread handles the event another one waits for; the notifier must stay
  readable until all have woken, and be reset then.
* **Boundaries**: inclusive ends of empty ranges (`start - 1`), offsets that grow
  while memory wraps around, unsigned subtraction of watermarks, one bit for key epochs.
* **Timers**: one loss timer for three packet number spaces, ACK deadlines, the times that
  keep old keys and separate key updates, the terminating and the idle timer.
* **Redundant bookkeeping**: three counts of bytes in flight, a flush count next to flags
  of streams, an active list next to the reasons to be on it.
* **Something must happen**: lost credit is advertised again, a FIN is sent again, a
  thread in a blocking call returns, SSL_shutdown ends.

`hazards` in `PROJECT.json` lists these at their lines, with the properties that
would notice them going wrong, or a note on what is missing.

### What makes each component correct

A range set is a set. Credit is never overdrawn, counted once per byte at both levels,
and never stalls. Every byte of a send stream is to be sent, in flight or acknowledged;
its memory stays intact until it is acknowledged. A receive stream delivers each byte
once and in order and reports the end exactly at the end. End to end this is a reliable
byte stream. A stream with something to send is on the active list, and a shutdown waits
for exactly the streams with unacknowledged data. A packet is reported exactly once, as
acknowledged, lost or discarded; a timer runs while an answer is due; bytes in flight are
counted alike everywhere. A packet number is processed once and acknowledged in time. The
key phase bit is unambiguous. What an application is told about the end of a connection is
what happened. No wakeup is lost, and no thread waits for ever for the others to wake.

## 2. Modules

| module | models | extends / instantiates |
|---|---|---|
| `UintSet` | `uint_set.c` | |
| `RingBuf` | `ring_buf.h` (operators) | |
| `QuicFC` | `quic_fc.c` and its callers at both endpoints | |
| `QuicSStream` | `quic_sstream.c`, with the loops of `quic_txp.c` and `quic_fifd.c` that serve it | `RingBuf` |
| `QuicRStream` | `quic_rstream.c`, `quic_sf_list.c`, with the STREAM and CRYPTO handlers | `RingBuf` |
| `QuicStream` | one direction of a stream, end to end | `QuicSStream`, `QuicRStream`, `ByteStream` |
| `ByteStream` | what SSL_write_ex, SSL_stream_conclude and SSL_read_ex promise | |
| `QuicStreamMap` | `quic_stream_map.c`, driven by `quic_impl.c`, `quic_rx_depack.c`, `quic_txp.c` and `quic_fifd.c` | |
| `QuicAckm` | sending half of `quic_ackm.c`, with `cc_newreno.c` and `quic_statm.c` | |
| `QuicAckmRx` | receiving half of `quic_ackm.c`, with the batches of `quic_record_rx.c` | |
| `QuicKeyUpdate` | key update of two endpoints: `quic_channel.c`, `quic_record_rx.c` | |
| `QuicChannel` | life cycle of a connection at both ends: `quic_channel.c`, SSL_shutdown of `quic_impl.c` | |
| `QuicReactor` | `quic_reactor.c`, `quic_reactor_wait_ctx.c`, `poll_immediate.c`, the loop of `quic_thread_assist.c` | |
| `MCQuicReactor` | which thread waits for what, for TLC | `QuicReactor` |
| `MCQuicKeyUpdate` | the symmetry of the two endpoints, for TLC | `QuicKeyUpdate` |
| `MCQuicFC`, `MCQuicStreams`, `MCQuicConn` | independent components side by side, for TLC | `QuicFC` and `UintSet`; `QuicSStream`, `QuicRStream` and `QuicAckmRx`; `QuicAckm` and `QuicStreamMap` |
| `Recursion_proofs` | lemmas on induction, for loops written as recursive functions | TLAPS |
| `QuicFC_proofs`, `QuicKeyUpdate_proofs`, `QuicReactor_proofs`, `QuicStream_proofs` | theorems about the module of the same name | that module, TLAPS, and `Recursion_proofs` where there are loops; `QuicStream_proofs` also instantiates `QuicSStream_proofs` |
| `QuicSStream_proofs` | theorems about `QuicSStream` and `QuicRStream` | these two, `Recursion_proofs` |
| `QuicAckm_proofs` | theorems about `QuicAckm`, `QuicAckmRx` and `UintSet` | these three, `Recursion_proofs` |
| `QuicChannel_proofs` | theorems about `QuicChannel` and `QuicStreamMap` | these two, `Recursion_proofs` |

Definitions carry the names of the C functions; the `map` of `PROJECT.json` gives
the lines of each. Operators whose comment starts with "Mutant" are the wrong
variants against which each property is tested; no specification uses them. Where one module
of proofs extends several components, the specifications of the components have different names
(`RxSpec` of `QuicAckmRx`, `SetSpec` of `UintSet`, `MapSpec` of `QuicStreamMap`). The same names let
one MC module hold several components: a variable `part`, chosen in the initial state, says whose
steps a behaviour consists of, and the state of the others stays as it is in the beginning. Every
component is checked on its own there, as if it had a run of its own.

**UintSet.** The linked list is a sequence of `[start, end]`. The backward walks
with early exits are choices of the largest index at which the walk stops, so a
wrong exit condition would show. `MaxUint` plays UINT64_MAX and `+ 1`, `- 1` wrap.
`disjoint` is a history variable: every range inserted so far was disjoint from
the set.

**QuicFC.** Sender and receiver have controllers 0 (connection) and 1..N (streams).
The packetiser plans the frames of a packet stream by stream
(`GenerateStreamFrames`, with `txp_txfc_new_credit_consumed` and
`conn_consumed`) and then commits them stream by stream (`CommitStream`). The
receiver counts a frame at both levels (`RxStreamFrame`), the application retires
(`Read`), and the packetiser sends MAX_DATA and MAX_STREAM_DATA (`TxMaxData`). When a
credit frame is lost (`LoseMaxData`) the dispatcher asks for another MAX_DATA, and for
another MAX_STREAM_DATA only if the packet carried a chunk of the same stream. A STREAM
frame with any end the sender has reached may arrive at any time, which covers loss,
reordering, repetition and any way of cutting data into frames. Whether a window
grows depends on the clock: a free choice.

**QuicSStream, QuicRStream.** A byte is its offset plus one, so that memory that was
overwritten, cleansed or wrapped wrongly shows. The range sets of a send stream
are sets, a range being a maximal run, as `UintSet` establishes for disjoint
insertions. A packet is a sequence of chunks, as `QUIC_TXPIM_CHUNK` records them, with
the inclusive end computed in wrapping arithmetic; packets in flight are a set, and the
only two packets that can be alike carry nothing but the FIN, so that taking them for one
loses nothing. Frames of a receive stream keep
their data in the packet until it is moved to the ring buffer. CRYPTO streams are
the same modules with `crypto` (`is_crypto`) true: no FIN, and records locked for TLS
instead of reads.

**QuicStream.** Chunks sent at any time may be delivered at any later time and any
number of times; a packet is acknowledged when all its chunks were processed. It
implements `ByteStream` with `written` = head offset of the send buffer, `read` = bytes
handed to the reader, `eof` = receive state DATA_READ.

**QuicStreamMap.** Streams keep their QUIC identifiers; which ones exist is chosen from
`StreamSets` in the initial state, so that one run covers streams of every type, alone or
two of a type. The map is one record; a C function is an operator from map to map, and the loops
over a list of streams are recursive functions on its indices. A send buffer is reduced to units of data that are new, in flight or
acknowledged. `GeneratePacket` is one pass of the packetiser over the active list from the
round-robin cursor, cut off by the size of the packet (`k`, `fit`, `last`) and possibly
abandoned before commit. The peer's frames open streams implicitly and move both halves.
A FIN comes from SSL_stream_conclude (`Conclude`) or from a write of no bytes with
SSL_WRITE_FLAG_CONCLUDE (`ConcludeEmpty`), which neither moves the send part to SEND nor updates
the stream; the history field `empty_fin` marks such a stream, and `ActiveWhenNeeded` and
`AssertionsHold` except no other. (Such a write on a stream whose send buffer is already freed
dereferences NULL in the code and is left out.)

**QuicAckm.** The ACK manager is one record; a C function is an operator from the record to
the updated record, so that calls nest as in the code. Time is a bounded counter and all
constants are parameters. An ACK frame acknowledges any subset of the packets sent, so it
may be late, repeated or have gaps. The spaces are discarded where the channel does so on
either role, and Version Negotiation and Retry declare the first packet lost in name.
`fate` is a history variable: the callbacks made for each packet.

**QuicAckmRx.** One packet number space. `ReadBatch` decrypts and validates a batch before the
first packet of it is handled, as `ossl_qrx_read_pkt` does. A packet with an ACK frame may be
acknowledged (which moves the watermark) or taken for lost at any time. `reported` is a
history variable: the packets that an ACK frame has covered.

**QuicKeyUpdate.** Two endpoints that both run the code. A packet shows the low bit of its
epoch; the receiver guesses the epoch from its state and fails to decrypt when the guess is
wrong. Timers of 1 and 3 PTO may run out whenever they are armed. An ACK frame holds the last
`MaxAckRanges` ranges of what was received (`ackm_fill_rx_ack_ranges`; three in the code), and
`ch_on_txp_ack_tx` confirms the peer's update only if the frame holds the packet that brought it.
The history field `omitted` records that a frame did not. That the receive history forgets
packets below its watermark or beyond 32 ranges, which can only add to such omissions, is left out.

**QuicChannel.** A client and a server in the states IDLE, ACTIVE, CLOSING, DRAINING and
TERMINATED, with the cause of termination copied field by field as in `copy_tcause`, the close
frame of the packetiser, `conn_close_queued`, and the phases of SSL_shutdown (`Shutdown`,
`ShutdownPass`) that the application runs between ticks. Stateless resets, protocol and
network errors, failed version negotiation and idle timeouts may happen in any state.

**QuicReactor.** One step per critical section: what a thread does between taking
and releasing the mutex (or from one `condvar_wait` to the next) is one action, and
the OS poll call, which runs without the mutex, is a place of its own. `cv` is
waiting on the condition variable, `woken` is having been broadcast to without the
mutex yet. `ready` holds which item of which thread has what it waits for; only
ticks set it. `CheckPred` leaves out the exit of `ossl_quic_reactor_block_until_pred` for a reactor that
has nothing to wait for (quic_reactor.c:485), since a connection that is not terminated wants to
read, and SKIP_FIRST_TICK, which no caller sets.

### Left out of the modelled components

Allocation failure and OS errors; the contents of TLS messages; cleansing and
partial release of a record in `quic_rstream.c`; the lifetime of packet memory; ECN, which
nothing reports, and persistent congestion, a stub; the handshake in `QuicKeyUpdate` (which
starts after it) and `QuicChannel` (where it is a number of packets to be exchanged);
destruction of objects during a blocking call; items of SSL_poll that fail; collection of
streams, which removes nothing (section 5).

## 3. Runs

Each run takes at most three to four minutes with two workers.

| run | distinct states | checks |
|---|---|---|
| `fc` | 871,084 | no flow control error, no credit underflow, exact sums, bounded promise, monotone watermarks; insert is union, remove is difference, query is membership of a range set (`ActsAsSet`), whose list stays sorted and merged (`Canonical`) |
| `streams` | 2,069,894 | each byte and FIN is to be sent, in flight or acknowledged (`NothingForgotten`); memory intact and everything new on offer (`BufferServes`); frames truthful; "totally acknowledged" exact. Nothing received is lost and everything readable (`EverythingKept`), reads true, end exact, records stay; both kinds of stream. The received set of packet numbers is exact above the watermark, an ACK frame is due in time, a handled packet number never passes validation again |
| `stream` | 16,999 | refinement of `ByteStream` (`IsByteStream`); both ends agree on what arrived and on the final size (`EndsAgree`); a concluded stream is read to its end and acknowledged |
| `conn` | 597,205 | one callback per packet, equal counts of bytes in flight, the timer is armed while an answer is due, one window reduction per round trip; a stream with something to send is on the active list, the round robin has a place to go on, shutdown waits for exactly the unacknowledged streams, the assertions of the code hold, up to what `ConcludeEmpty` breaks |
| `key_update` | 986,658 | KEY_UPDATE_ERROR only after an ACK frame left out the packet that brought new keys, unambiguous key phase, no endless answering |
| `channel` | 232,927 | a cause said to be the peer's is what the peer sent, data is flushed before the close (or its stream is freed, hence reset), SSL_shutdown ends |
| `reactor` | 18,808 | no lost wakeup, everybody wakes, ready calls return (with a result, or to the place `failed`, section 5) |
| `fc_live`, `stream_map_gc`, `key_update_ranges`, `reactor_items`, `channel_cause` | | each ends in a violation: findings, see section 5 |

### Bounds and why they are enough

* `fc`, range sets: integers 0..5, all ranges, any sequence of operations: lists have up to
  three ranges, so overlaps of several ranges, splits, merges on both sides and
  both ends of the integers occur.
* `fc`, flow control: two streams, two bytes each, windows of one byte, a connection window that can
  grow to two: both levels run out of credit, one packet carries both streams, windows
  grow; one credit frame is declared lost. `fc_live` has one stream and an initial connection
  window of two that can grow to three. The proofs remove these bounds for safety.
* `streams`, sending: six bytes through a buffer of two to four, so memory wraps around more
  than once; up to three packets in flight and three losses, so three separate ranges
  occur. `MaxUint` is larger than any offset by two, so that 0 - 1 is not an offset.
* `streams`, receiving: streams of zero to five bytes, all frames within them, a ring buffer of
  up to three bytes.
* `streams`, acknowledging: packet numbers 0..4, one of them not ACK-eliciting, batches of two, two packets
  with ACK frames, two stored ranges, so that a third is trimmed, and ACK frames with room
  for one range, so that a frame need not cover the whole history.
* `stream`: three bytes, two packets in flight, two chunks each, one loss; late
  delivery of lost packets included.
* `conn`, stream map: a bidirectional stream opened by either end and a unidirectional one opened
  by the peer, each alone, and a pair of unidirectional streams of this end; one unit of data
  and of credit, one loss. A pair is enough for the order of the active list to matter; with one unit of connection credit for
  two streams one of them is blocked and must be looked at again.
* `conn`, sending: three packets in any of three spaces, on both roles, times 1..4 with an initial
  round trip of 1, so that packet threshold (2), time threshold, several probe timeouts and
  two reductions of the window occur; the two restarts a connection can have.
* `key_update`: six packets of both sides together and epochs to 3, so that both sides update,
  at the same time or one after the other; batches of two. ACK frames have one range, so that one
  gap behind a packet is enough to leave it out; the proof covers any number of ranges. The two
  endpoints are a symmetry set: `Peer` and all actions treat them alike. `key_update_ranges` needs
  five packets and epochs to 2.
* `channel`: two events out of shutdown calls (with and without arguments), errors, resets and
  premature idle timeouts, one packet per tick, the client writes. Two events are what a race
  between two causes needs; the peer's close and the timers do not count. `channel_cause` has the
  same bounds, `stream_map_gc` those of the stream map in `conn`.
* `reactor`: one thread in a blocking call, one in SSL_poll, one assist thread, two
  events, one item per call; `reactor_items` has two items in the SSL_poll call.

`CHECK_DEADLOCK FALSE` is set where a system may come to rest: everything was sent and
acknowledged, both ends are terminated, the bounded clock has stopped, or no more events are
left to happen and every thread sleeps. In `QuicReactor`, `PollTimeout`, `DeadlineExpired`,
`Call` and `Happen` are never required to occur.

### Fairness

* `QuicFC!FairSpec`: weak fairness of the steps of both event loops, which are ticked as
  long as they have something to do; of the arrival of the newest bytes of each stream
  (retransmission until acknowledged, shown in `stream`); and of an application that
  reads. A credit frame need not arrive: it can be lost `MaxLosses` times. Streams
  are not reset in this specification: the bytes of a reset stream that were never
  read keep their share of the connection window (a hazard listed for the stream map).
* `QuicStream!FairSpec`: the packetiser runs while it can, a packet that is not given up
  arrives and is acknowledged, the reader reads.
* `QuicChannel!Spec`: ticks go on, a packet of data and its acknowledgement that are sent again
  and again arrive, the terminating timer runs out, and so does the idle timer of an endpoint
  whose peer is gone, which takes a max_idle_timeout other than 0 (quic_channel.c:3633), as is the
  default: with the idle timer disabled, a shutdown that flushes streams to a peer that is gone
  need not end. Nothing is assumed of CONNECTION_CLOSE, which may never arrive, nor of
  idle timers while the peer is there.
* `QuicReactor!FairSpec`: strong fairness of each thread's own steps: the scheduler runs
  every thread, and a thread that competes for a mutex that becomes free again and again
  gets it eventually. Neither timeouts nor events are assumed, so a wakeup that is found
  is never due to a timer.

## 4. Proofs

TLC checks the instances of section 3; the theorems below hold for every value of the
constants that the named assumptions of the modules allow. These assumptions say of numbers
that they are naturals, of the number of streams and the sizes of buffers and histories that
they are large enough to exist, of sets of threads and endpoints that they are finite. TLC
evaluates them in every run. Every component has a theorem on its inductive invariant, from which
the others follow (`InductiveInvariant`, and `RsInductiveInvariant`, `RxInductiveInvariant`,
`SetInductiveInvariant` and `MapInductiveInvariant` of the second and third component of a module), and `TypeCorrect`
(`RxTypeCorrect`) on the types, except where the invariant of a run contains them.

| module | theorem | statement |
|---|---|---|
| `QuicFC_proofs` | `FlowControlSafe` | `Spec => []NoFlowControlError` |
| | `CreditSafe` | `Spec => [](CreditNeverNegative /\ CreditWasGranted)` |
| | `SumsCorrect` | `Spec => []ConnectionCountsStreams` |
| | `BufferBounded` | `Spec => []PromiseBounded` |
| | `WatermarksGrow` | `Spec => WatermarksNeverDecrease` |
| `QuicSStream_proofs` | `NothingIsForgotten` | `Spec => []NothingForgotten` |
| | `FramesAreTrue` | `Spec => []FramesTruthful` |
| | `TotallyAckedExact` | `Spec => []TotallyAckedIff` |
| | `EverythingIsServed` | `Spec => []BufferServes` |
| | `NothingReceivedIsLost` | `RsSpec => []EverythingKept` |
| | `ReaderGetsTheStream` | `RsSpec => []ReadsTrue` |
| | `EndIsReportedInTime` | `RsSpec => []EndOfStream` |
| | `RecordStaysReadable` | `RsSpec => []RecordStays` |
| `QuicStream_proofs` | `ImplementsByteStream` | `Spec => IsByteStream` |
| | `EndsAlwaysAgree` | `Spec => []EndsAgree` |
| `QuicAckm_proofs` | `EachPacketOneFate` | `Spec => []OneFate` |
| | `BytesInFlightExact` | `Spec => []FlightAccounting` |
| | `TimerIsArmed` | `Spec => []TimerArmed` |
| | `WindowReducedOncePerRound` | `Spec => OneReductionPerRound` |
| | `HistoryExact` | `RxSpec => []SetExact` |
| | `AcksOnTime` | `RxSpec => []AckOnTime` |
| | `ProcessedOnce` | `RxSpec => NeverReadAgain` |
| | `RangesActAsSet` | `SetSpec => []ActsAsSet` |
| | `RangesCanonical` | `SetSpec => []Canonical` |
| `QuicKeyUpdate_proofs` | `ErrorHasOneCause` | `Spec => []ErrorOnlyAfterOmission` |
| | `KeyPhaseUnambiguous` | `Spec => []EpochsTrack` |
| | `AnswersEnd` | `Spec => []NoPingPong` |
| `QuicChannel_proofs` | `RemoteCauseIsTrue` | `Spec => []RemoteCauseTrue` |
| | `FlushComesFirst` | `Spec => []FlushBeforeClose` |
| | `ActiveIsServed` | `MapSpec => []ActiveWhenNeeded` |
| | `RoundRobinIsSound` | `MapSpec => []RoundRobinSound` |
| | `FlushIsExact` | `MapSpec => []FlushExact` |
| | `AssertionsAlwaysHold` | `MapSpec => []AssertionsHold` |
| `QuicReactor_proofs` | `WaitersCounted` | `OneItemEach => (Spec => []WaitersExact)` |
| | `SleepersHaveWoken` | `OneItemEach => (Spec => AllHaveWoken)` |
| | `WakeupsKept` | `OneItemEach /\ "reset" \notin Kinds => (Spec => []NoLostWakeup)` |

The two hypotheses of `QuicReactor_proofs` are needed: with two items per SSL_poll call `WaitersExact`
is violated (run `reactor_items`), and with stateless resets TLC finds the counterexample of
section 5. `OneItemEach` holds of every blocking call and of SSL_poll with one item; the run
`reactor` has both. `WaitersCounted` is what the other two theorems rest on; it is no statement
about SSL_poll in general.

### The arguments

*Flow control.* That no stream-level error occurs is local: counted <= spent <= credit at
the sender <= credit at the receiver. At the connection level the same chain is about
sums: that counted <= spent survives the counting of a frame on one stream needs that the
*difference* spent - counted of the connection is the sum of the same differences of the
streams, each of which is a natural number, and likewise for counted - read when the
application retires. `Sums` keeps five such sums. `Planned` does the same for the credit
set aside in the packet under construction: after it, committing the streams one by one
cannot overdraw the connection. `AdvGranted` and `InitialGranted` say that credit still
in flight is recorded at the receiver; `FinalSizeFixed` that a final size is the spent
watermark, which no longer moves, so that FIN and RESET_STREAM agree. `SumIs(f, total)` states
a sum by its sequence of partial sums, monotone and bounded by the total, and the lemmas
`SumAdd`, `SumSub` and `SumSame` change one summand by giving the new partial sums explicitly.
`NextGrows` derives from `IInv` that every step moves watermarks upwards only: counting
a frame beyond the credit would set the watermark *to* the credit, which is a step down unless
counted <= credit held before.

*Send streams.* `NothingForgotten` alone is not inductive. A packet that is acknowledged or
lost moves the ranges of its chunks, so `IInv` says what such a packet is (`IsPacket`: chunks
within the stream, with the data of the stream, and an inclusive end one below the first
byte, in wrapping arithmetic, if there is none), that the new ranges, the acknowledged ranges
and the bytes in flight lie within the stream (`Span`), and that the FIN was sent only after
the stream has a final size. `GivenUp` says that culling gives up acknowledged bytes only, and
`Sound` that the ring buffer holds every byte from the cull tail to the head at its offset
modulo the size of the memory. That two offsets in this window never share a place
(`ModInjective`) is what makes writing, culling and resizing safe. The enumeration of frames takes the
n-th range of a set: `Ranked` shows by induction that there is one, and `PlanIs` that the loop
of the packetiser visits each of them once, so that exactly what goes into a packet leaves the
new set.

*Receive streams.* The list alone does not tell what was received, since the data of a frame may
have been moved to the ring buffer. `RsInv` therefore relates four pieces of state (`Queue`): the
list is in order and lies within the stream (`IsList`), its frames and the read offset are exactly
what was received, the cull tail of the ring buffer is the read offset (`RbufOf`), and every byte of a
moved frame that is not read yet is in the ring buffer at its place (`Backed`). `EndInv` ties the
receive state to the end of the list, and `RecordInv` says that the record TLS holds starts at the
read offset and was received, so that it is still there when it is released. Frames are written
to the ring buffer out of order and with gaps, so its head is only an upper bound of what it holds:
`Written` shows that a write that fits, and `ResizeKeepsAll` that a resize, keeps what was stored. The
move is a loop that merges frames while it goes over them. Its invariant `Moving` says that what the loop
has put out covers what it has seen (`Carried`), that the ring buffer still holds what it held
(`Kept`), and that until a frame does not fit everything put out is in the ring buffer, which is why two
frames that touch may become one.

*A stream, end to end.* That the reader gets the bytes written, in order, rests on both halves.
The sender's half is cited: `Inv` contains the invariant of `QuicSStream_proofs`, instantiated for
the sender, and the lemmas `Same...` say that the two instances of the module are one (operators
brought in by two INSTANCEs are different symbols to the provers). `NetInv` says what every frame
ever sent is (`Sent`: bytes of the stream at their offsets, and a FIN only at the end of a stream that
is concluded), `RxedInv` that a frame that arrived counts, whether it was inserted, redundant
or ignored, and `AckInv` that what was acknowledged arrived. The receiver's half is the frame list:
its frames are ordered by start *and* by end (`Ordered`), which is what makes the walks of
`ossl_sframe_list_insert` find their place, drop only frames that the new one covers, and leave out the
new one only if its two neighbours cover it (`JoinKeeps`, `SpliceKeeps`, `InsertKeeps`). `ListInv`
says that the list and the read offset together are exactly what was received; then a walk over the
list ends at the first byte missing (`ReadableEndIs`), `BytesReadAre` gives the bytes it returns, and
`EndInv` follows the receive states. Each step of the model is a `Write`, `Conclude` or `ReadNext`
of `ByteStream`, or leaves what the two applications see unchanged (`StepIsStep`).

*Sending half of the ACK manager.* The counts of bytes in flight of the ACK manager and of the
congestion controller are equal *between* events, but a packet is taken out of the history before
the callbacks for it have run. `Sound(m, u, s, x, y)` therefore has two numbers, the bytes in flight
that have left the history and are not reported yet, with `Counted` and `Steady` on what remains;
each operator of the chain receive ACK → detect lost → on lost → set timer is shown to take such
a state to such a state, and a whole event starts and ends with both at zero. The loops that report
lists of packets (`ReportLost`, `ReportAcked`) subtract one packet a time (`LoopProgress`). `Fated`
says that a packet is in the history exactly as long as it has no fate, so that no list can contain
a packet that was reported. `Armed` says of every state what `TimerArmed` asks after an event, which
needs that the earliest loss time and the earliest probe timeout are those the timer is set to, and
`ClientInitial` covers the probes of a client without packets in flight. A window is reduced only by
a lost packet that was sent after the last reduction; then the recovery start moves to now, and
nothing sent before can reduce it again (`OneReductionPerRound`).

*Range sets.* An insertion replaces neighbouring ranges by one that stands for them and the new one
(`Replaced`, `Merged`); a removal leaves of every range what is not removed (`LeftOf`, `LeftAfter`, a
loop). The walks go backwards and stop early: the ranges they pass by, and those they do not come
to, would be unchanged, because the list is sorted. A query is decided at the largest
index that decides it.

*Stream map.* Every operation of the code maps a map to a map, and most are a change of one stream
followed by `update_state`. In between, the stream that was changed is not where it belongs:
`MapGood(M, D, L)` and `Served(M, X)` have sets of streams that are excepted, and updating a stream
takes it out of them. A frame in flight is about the stream as it was when it was sent;
`Advances` says in which ways a stream may have changed since (states only move forward, a reset or
an end is for good), and `FrameGood` and `PacketGood` survive every such change. The
pass of the packetiser over the active list, the callbacks for the chunks of a packet and the flush
over all streams are loops. A write of no bytes changes a stream without an update, so `Served` carries
the exception of `ActiveWhenNeeded`: that FIN may be all that a stream off the list has to send. Any
other need comes with an update, which relists the stream (`Relisted`); and a FIN in a send part
that is READY is always one of a write of no bytes (`StreamGood`).

*Receiving half of the ACK manager.* `SetExact` and `AckOnTime` are inductive together with the
types. Trimming removes the lowest range and moves the watermark beyond it, which keeps the
set exact because nothing else of it lies below; ranges are counted by their first numbers, of
which one insertion adds at most one. `NeverReadAgain` then follows from validation, which
looks at the set and the watermark: a number that was handled is in the one or below the other.

*Key update.* `EpochsTrack` depends on who knows what. `Own` ties the two epochs of an endpoint
to its flags, `EpochsOrdered` says that later packets carry later keys and the last keys begin
at `txku_pn`, `Noticed` that only an endpoint that has noticed the last keys of its peer can
have received or acknowledged packets under them, `Unconfirmed` that keys that were not noticed
or await their ACK frame (`Awaits`) have not been acknowledged, and `Triggered` that packets at or
above the one that brought new keys are not under older ones. An endpoint may initiate the next
update only after its last one was acknowledged, hence noticed, and confirmed or left out of a frame;
a packet that decrypts with the next keys is therefore the first sign of an update that is allowed,
unless a frame left out the packet that brought the last one. In that case the record layer of the
endpoint has gone on to the new keys and its channel has not, which is why `Own` ties the epochs
of an endpoint in error less closely; `EpochsTrack` survives. A batch is two loops, decryption of all packets and then handling of each; `Coherent` is
their invariant.

*Connection life cycle.* A cause said to be the peer's was taken from a close frame (`Told`), and
a close frame tells of a local cause of an endpoint that is *committed*: it is closing, and its
cause stays local (`FramesTrue`, `Sound`). Every operation on a channel is shown once to keep
these (`Follows`), and the operations are composed as in the code.

*Reactor.* `Counted` ties the per-call counts of the wait context to the place of the thread, and
with it leaving a section is seen to decrement the reactor once for each time it was entered.
`WaitersExact` then says that the notifier is reset by the last thread out, so nobody else can
be asleep. For `WakeupsKept`, a tick that makes something ready also signals every reactor with a
waiter, and a thread that becomes a waiter looks again before it sleeps.

*Induction.* The induction theorems of the library take an operator as a parameter, which the
provers cannot instantiate. `Recursion_proofs` gives the predicate as a *set* instead
(`SetInduction`, from the well-foundedness of the naturals), and derives the invariant rule of
loops (`LoopInvariant`, `LoopProgress`) and the existence of the function a loop computes
(`LoopExists`). Loops of the code over a batch, the chunks of a packet or the ranges of a set
are written as recursive functions on `0..n` for that reason.

### Only model-checked

* Liveness under fairness (`EverythingIsSent`, `EndIsReached`, `ShutdownEnds`, `ReadyReturns`) is
  out of the reach of the provers.

## 5. Where code and documentation disagree

Five runs are expected to end in a violation; `findings` in `PROJECT.json` has the quotations.

* `fc_live`: a MAX_STREAM_DATA frame that is lost in a packet without a STREAM, STOP_SENDING or
  RESET_STREAM frame of the same stream is not regenerated: the dispatcher looks at chunks only, and
  a flow control frame has none. A receiver that only reads then never advertises that credit
  again, and its peer waits for ever if it has used up what it had. quic-fifm.md lists the frame
  as one that is regenerated.
* `stream_map_gc` (`DeletedHasEnd`): SSL_write_ex2 of length 0 with SSL_WRITE_FLAG_CONCLUDE
  (quic_impl.c:2898) queues the FIN, but leaves the send part READY and the stream off the active list.
  The FIN waits until something else puts the stream there, while SSL_write(3) promises what
  SSL_stream_conclude does. When the stream is freed it is not reset, since it has a FIN, and
  the assertion of `qsm_ready_for_gc` fails, since a send part in READY has no final size.
* `key_update_ranges` (`NoKeyUpdateError`): a peer's key update is confirmed only by an ACK frame that
  contains the packet that brought it, and frames have three ranges: `ackm_fill_rx_ack_ranges` is
  bounded by the number of packet number spaces (quic_ackm.c:1624), not by MAX_RX_ACK_RANGES, 32. With
  enough gaps behind that packet the update is never confirmed, and the next one of a peer that has
  its acknowledgements raises KEY_UPDATE_ERROR, against what the comment at quic_channel.c:879 says of
  such a peer. `ErrorHasOneCause` shows that this is the only way.
* `reactor_items` (`WaitersExact`): when an item after the first turns out to be ready in
  `poll_translate` (poll_immediate.c:235), the blocking sections of the items before it are never left,
  against the rule of quic_reactor.h:254.
* `channel_cause` (`FirstCauseStays`): `copy_tcause` (quic_channel.c:3205) keeps a cause only if it has a
  reason phrase. The arguments of a later SSL_shutdown_ex overwrite one that has none, although
  SSL_shutdown.pod:255 says they are ignored and the comment at quic_channel.c:3174 that later causes
  are discarded.

### Counterexamples reproduced with TLC, without a run of their own

Each of these was found with a variation of the module named (more items, a further kind of
event, a peer that breaks rules, or the stronger property); the code is as described.

* *Flow control.* A peer that exceeds only the connection-level limit is not terminated:
  `depack_do_frame_stream` (quic_rx_depack.c:551) reads the error of the stream-level controller
  only, while quic_fc.h:192 says to check both.
* *QuicSStream.* `txp_generate_crypto_frames` (quic_txp.c:2207) uses its loop counter for the
  inner loop over iovecs too, so with several ranges to retransmit one is put into a packet twice.
* *QuicReactor, two reactors.* Two SSL_poll calls over two reactors in the opposite order can
  wait for each other (quic_reactor.c:587).
* *QuicReactor, stateless reset.* The port terminates the channel before it is ticked
  (quic_port.c:839), so other threads are not notified.
* *QuicChannel.* `ossl_quic_channel_notify_flush_done` (quic_channel.c:661) does not look at the
  state: freeing a stream late moves a TERMINATED channel back to CLOSING or DRAINING, and a
  DRAINING one to CLOSING.
* *QuicChannel.* With a reason set while streams are flushed, the peer's close is not
  recorded and the endpoint goes to CLOSING.
* *QuicAckmRx.* That every ACK-eliciting packet in the history is in some ACK frame on time is too
  much: a frame with room for fewer ranges than the history has (3 and 32 in the code, see above)
  leaves the lower ones out, and nothing asks for another frame. `AckOnTime` asks for a frame
  after each packet, not for its contents.
* *QuicKeyUpdate from the start of a connection.* The largest acknowledged packet number is
  UINT64_MAX before the first acknowledgement (quic_channel.c:798), so a key update looks
  confirmed at once and a second SSL_key_update puts the sending keys two epochs ahead.

### Read in the code

* RESET_STREAM and STOP_SENDING are neither confirmed nor sent again once the send buffer of
  the stream is freed: `on_acked` and `on_lost` skip streams without one (quic_fifd.c:81, :140),
  and resetting frees it; quic-fifm.md:42 lists both as regenerated.
* `ossl_quic_stream_map_gc` (quic_stream_map.c:808) removes nothing, and a stream with a
  receive part never becomes ready for it.
* With the round robin of quic_stream_map.c:872 two streams that become active again at the tail
  after each packet can keep a third one from being first.
* Copies of a packet in one batch of datagrams all pass validation (quic_record_rx.c:1431) and
  are processed; `NeverReadAgain` is about later batches.
* A probe requested for a space that is then discarded is never counted down
  (quic_txp.c:1410), so every later datagram is built as a probe.
* Packets that are lost in name (Version Negotiation, Retry) stay in the congestion controller's
  bytes in flight for good (quic_ackm.c:972; `undone` in `FlightAccounting`).
* A server arms the anti-deadlock timer too (quic_ackm.c:1331).
* The flag that asks for CONNECTION_CLOSE is cleared when the first one is committed
  (quic_txp.c:3126), so packets that arrive while closing are not answered with another one, as
  the comments at quic_channel.c:2318 and :2727 intend, but with ordinary frames if there are any.
* SSL_shutdown without arguments closes with the transport code NO_ERROR when it had streams to
  flush, and with the application code 0 otherwise.
* When an item becomes ready between readout and translation, `poll_block` returns 0 and
  SSL_poll fails with a result count of zero, which SSL_poll(3) reserves for usage errors
  (the place `failed` of `QuicReactor`).
* `ring_buf_cpop_range` does not cleanse when a single byte is culled
  (`end > ctail_offset`, ring_buf.h:208).
* An overlapping insertion into a UINT_SET can leave two ranges that border each other,
  against the comment in uint_set.c; no caller inserts overlapping ranges (`Tracked`).
* The last byte of the FIN-only chunk of an empty stream is UINT64_MAX, where quic_txpim.h
  expects `end < start` for a chunk without data. `on_acked` then marks a range
  that starts at 0 as acknowledged; all stream properties still hold.
* quic-fc.md computes new credit from the spent watermark, the code from the retired one.

## 6. Plan

Done: range sets, flow control, both stream halves, the end-to-end
refinement, the stream map, both halves of the ACK manager with congestion control, key
update, the life cycle of a connection, the reactor with SSL_poll; proofs of the safety properties
of all of them.

Next, in this order:

1. **Control frame queue and TXPIM**: ownership of a frame between queue, packet and loss.
2. **Connection identifiers**: `ossl_quic_channel_on_new_conn_id`, LCIDM and SRTM under reordered
   frames.
3. **Stream map with flow control**: credit of streams that are reset before they are read.
4. **Thread assist**: start, teardown and join, as an extension of `QuicReactor`.

### Not modelled

Cryptography, wire formats and tracing are stateless computation. The handshake layer is an
adapter to TLS, whose state machine is a system of its own. Address validation, Retry and the
routing of datagrams come last, if at all. TLS and DTLS, providers, algorithms, encodings,
applications and tests are outside of the scope.
