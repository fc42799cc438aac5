------------------------- MODULE QuicKeyUpdate_proofs -------------------------
(***************************************************************************)
(* Proofs about key updates, for any number of packets, epochs and packets *)
(* in a batch.                                                             *)
(***************************************************************************)
EXTENDS QuicKeyUpdate, FiniteSetTheorems, Recursion_proofs

Channels ==
    [next_pn : Nat, tx_epoch : Nat, largest_acked : Nat,
     txku_in_progress : BOOLEAN, txku_pn : Nat,
     ku_locally_initiated : BOOLEAN, rxku_expected : BOOLEAN,
     rx_epoch : Nat, updating : BOOLEAN, cur_epoch_start_pn : Nat,
     rxku_in_progress : BOOLEAN, rxku_pending_confirm : BOOLEAN,
     rxku_trigger_pn : Nat, received : SUBSET Nat, want_ack : BOOLEAN,
     error : {"none", "again too soon", "acked without update", "old keys"},
     omitted : BOOLEAN]

Packets == [pn : Nat, epoch : Nat, ack : Nat \cup {NoAck}]

TypeOK ==
    /\ ch \in [Ends -> Channels]
    /\ net \in [Ends -> SUBSET Packets]
    /\ inits \in Nat

\* The peer's key update waits for the next ACK frame to confirm it.
Awaits(c) == c.rxku_pending_confirm /\ ~c.omitted

\* What holds of an endpoint c and the packets N that it has sent: its own
\* keys are ahead of the peer's exactly while an update that it has started
\* is unanswered, and then the update is unacknowledged; while the peer's
\* update awaits its frame nothing is sent under newer keys.  An endpoint in
\* error has left the trigger packet out of a frame; its record layer has gone
\* on to the peer's new keys, which the channel has not taken note of.
Own(c, N) ==
    /\ c.error # "none" => c.error = "again too soon" /\ c.omitted /\ c.updating
    /\ c.tx_epoch <= c.rx_epoch + 1
    /\ c.error = "none" /\ c.ku_locally_initiated => c.tx_epoch = c.rx_epoch + 1
    /\ c.error = "none" /\ ~c.ku_locally_initiated => c.tx_epoch = c.rx_epoch
    /\ c.rxku_expected = c.ku_locally_initiated
    /\ c.ku_locally_initiated => c.largest_acked < c.txku_pn
    /\ ~c.txku_in_progress => c.largest_acked >= c.txku_pn
    /\ Awaits(c) => \A p \in N : p.epoch <= c.rx_epoch
    /\ 0 \in c.received

\* The packet that brought new keys is acknowledged by the next packet, or
\* left out of its frame.
Confirms(c) ==
    Awaits(c) => c.want_ack /\ c.rxku_trigger_pn \in c.received

\* Packet numbers of c are below its next one, wherever they turn up.
Numbered(c, N, d, M) ==
    /\ c.next_pn > 0
    /\ c.largest_acked < c.next_pn /\ c.txku_pn <= c.next_pn
    /\ \A p \in N : p.pn < c.next_pn
    /\ \A p \in M : p.ack < c.next_pn
    /\ \A x \in d.received : x < c.next_pn

\* Later packets of c have later keys, and the last keys begin at txku_pn.
EpochsOrdered(c, N) ==
    /\ \A p \in N : p.epoch <= c.tx_epoch
    /\ \A p \in N : p.pn >= c.txku_pn => p.epoch = c.tx_epoch
    /\ \A p, q \in N : p.pn <= q.pn => p.epoch <= q.epoch

\* d has, and acknowledges, packets under the last keys of c only after it has
\* taken note of these keys.
Noticed(c, d, M) ==
    /\ d.rx_epoch <= c.tx_epoch /\ c.tx_epoch <= d.rx_epoch + 1
    /\ \A x \in d.received : x >= c.txku_pn => d.rx_epoch >= c.tx_epoch
    /\ \A p \in M : p.ack >= c.txku_pn => p.epoch >= c.tx_epoch

\* Packets from the one on that brought new keys are not under older ones.
Triggered(N, d) ==
    d.error = "none" => \A p \in N : p.pn >= d.rxku_trigger_pn => p.epoch >= d.rx_epoch

\* Keys that d has not noticed, or is to confirm, have not been acknowledged,
\* and they are the last ones of c.
Unconfirmed(c, d, M) ==
    /\ Awaits(d) \/ d.rx_epoch < c.tx_epoch =>
         c.largest_acked < c.txku_pn /\ \A p \in M : p.ack < c.txku_pn
    /\ Awaits(d) => c.tx_epoch = d.rx_epoch

\* From the sender c of the packets N to their receiver d, who sends M.
Link(c, N, d, M) ==
    /\ Numbered(c, N, d, M)
    /\ EpochsOrdered(c, N)
    /\ Noticed(c, d, M)
    /\ Triggered(N, d)
    /\ Unconfirmed(c, d, M)

\* Two endpoints c and d that have sent the packets N and M.
Coherent(c, N, d, M) ==
    /\ c \in Channels /\ d \in Channels
    /\ N \in SUBSET Packets /\ M \in SUBSET Packets
    /\ Own(c, N) /\ Own(d, M)
    /\ Link(c, N, d, M) /\ Link(d, M, c, N)

IInv ==
    /\ TypeOK
    /\ \A e \in Ends :
         /\ Own(ch[e], net[e]) /\ Confirms(ch[e])
         /\ Link(ch[e], net[e], ch[Peer(e)], net[Peer(e)])
    /\ NoPingPong

-----------------------------------------------------------------------------
(***************************************************************************)
(* The operations of an endpoint c; its peer d does not move.              *)
(***************************************************************************)

\* Neither end is special.
LEMMA CoherentSymmetric ==
    ASSUME NEW c, NEW N, NEW d, NEW M, Coherent(c, N, d, M)
    PROVE  Coherent(d, M, c, N)
BY DEF Coherent

\* The numbers of two endpoints and of their packets.
LEMMA CoherentTypes ==
    ASSUME NEW c, NEW N, NEW d, NEW M, Coherent(c, N, d, M)
    PROVE  /\ c.rx_epoch \in Nat /\ c.tx_epoch \in Nat /\ c.next_pn \in Nat
           /\ c.largest_acked \in Nat /\ c.txku_pn \in Nat
           /\ c.received \in SUBSET Nat /\ c.rxku_trigger_pn \in Nat
           /\ d.rx_epoch \in Nat /\ d.tx_epoch \in Nat /\ d.next_pn \in Nat
           /\ d.largest_acked \in Nat /\ d.txku_pn \in Nat
           /\ d.received \in SUBSET Nat /\ d.rxku_trigger_pn \in Nat
           /\ \A p \in M : p.pn \in Nat /\ p.epoch \in Nat /\ p.ack \in Int
           /\ \A p \in N : p.pn \in Nat /\ p.epoch \in Nat /\ p.ack \in Int
<1>1. /\ c \in Channels /\ d \in Channels
      /\ N \in SUBSET Packets /\ M \in SUBSET Packets
  BY DEF Coherent
<1>2. \A p \in Packets : p.pn \in Nat /\ p.epoch \in Nat /\ p.ack \in Int
  BY DEF Packets, NoAck
<1> QED
  BY <1>1, <1>2 DEF Channels

\* Packets may be lost.
LEMMA PacketsLost ==
    ASSUME NEW c, NEW N, NEW d, NEW M, Coherent(c, N, d, M),
           NEW L \in SUBSET M
    PROVE  Coherent(c, N, d, L)
<1>1. L \in SUBSET Packets
  BY DEF Coherent
<1>2. Own(d, L)
  BY DEF Coherent, Own
<1>3. Link(c, N, d, L)
  BY DEF Coherent, Link, Numbered, EpochsOrdered, Noticed, Triggered, Unconfirmed
<1>4. Link(d, L, c, N)
  BY DEF Coherent, Link, Numbered, EpochsOrdered, Noticed, Triggered, Unconfirmed
<1> QED
  BY <1>1, <1>2, <1>3, <1>4 DEF Coherent

\* txku_in_progress() notes that the key update has been acknowledged.
LEMMA ProgressNoted ==
    ASSUME NEW c, NEW N, NEW d, NEW M, Coherent(c, N, d, M)
    PROVE  Coherent(txku_in_progress(c), N, d, M)
<1> DEFINE b == txku_in_progress(c)
<1> USE DEF txku_in_progress, Awaits
<1>1. b \in Channels
  BY DEF Coherent, Channels
<1>2. Own(b, N)
  <2>1. /\ c.largest_acked \in Nat /\ c.txku_pn \in Nat
        /\ c \in Channels /\ Own(c, N)
    BY CoherentTypes DEF Coherent
  <2>2. /\ b.error = c.error /\ b.omitted = c.omitted /\ b.updating = c.updating
        /\ b.tx_epoch = c.tx_epoch /\ b.rx_epoch = c.rx_epoch
        /\ b.ku_locally_initiated = c.ku_locally_initiated
        /\ b.rxku_expected = c.rxku_expected
        /\ b.largest_acked = c.largest_acked /\ b.txku_pn = c.txku_pn
        /\ b.rxku_pending_confirm = c.rxku_pending_confirm
        /\ b.received = c.received
    BY <2>1 DEF Channels
  <2>3. ~b.txku_in_progress => b.largest_acked >= b.txku_pn
    <3>1. ~c.txku_in_progress => c.largest_acked >= c.txku_pn
      BY <2>1 DEF Own
    <3>2. b.txku_in_progress <=> c.txku_in_progress /\ c.largest_acked < c.txku_pn
      BY <2>1 DEF Channels
    <3> HIDE DEF b
    <3> QED
      BY <2>1, <2>2, <3>1, <3>2
  <2> HIDE DEF b
  <2> QED
    BY <2>1, <2>2, <2>3 DEF Own
<1>3. Link(b, N, d, M)
  BY DEF Coherent, Channels, Link, Numbered, EpochsOrdered, Noticed, Triggered, Unconfirmed
<1>4. Link(d, M, b, N)
  BY DEF Coherent, Channels, Link, Numbered, EpochsOrdered, Noticed, Triggered, Unconfirmed
<1> QED
  BY <1>1, <1>2, <1>3, <1>4 DEF Coherent

\* A key update begins only when the last one is acknowledged: the peer has
\* then noticed and confirmed it.
LEMMA UpdateInitiated ==
    ASSUME NEW c, NEW N, NEW d, NEW M, Coherent(c, N, d, M), txku_allowed(c),
           c.error = "none"
    PROVE  /\ Coherent(Initiated(c), N, d, M)
           /\ Initiated(c).tx_epoch = c.tx_epoch + 1
           /\ Confirms(c) => Confirms(Initiated(c))
<1> DEFINE b == Initiated(c)
<1>1. c \in Channels /\ d \in Channels /\ Own(c, N) /\ Own(d, M)
      /\ Link(c, N, d, M) /\ Link(d, M, c, N)
  BY DEF Coherent
<1>0. /\ c.rx_epoch \in Nat /\ c.tx_epoch \in Nat /\ c.next_pn \in Nat
      /\ c.largest_acked \in Nat /\ c.txku_pn \in Nat /\ d.rx_epoch \in Nat
  BY CoherentTypes
<1>2. c.largest_acked >= c.txku_pn
  <2>1. ~(c.txku_in_progress /\ c.largest_acked < c.txku_pn)
    BY <1>1 DEF txku_allowed, txku_in_progress, Channels
  <2>2. ~c.txku_in_progress => c.largest_acked >= c.txku_pn
    BY <1>1 DEF Own
  <2> QED
    BY <1>0, <2>1, <2>2
<1>3. ~Awaits(d) /\ d.rx_epoch = c.tx_epoch
  <2>1. Unconfirmed(c, d, M) /\ Noticed(c, d, M)
    BY <1>1 DEF Link
  <2>2. d.rx_epoch <= c.tx_epoch
    BY <2>1 DEF Noticed
  <2>3. ~Awaits(d) /\ ~(d.rx_epoch < c.tx_epoch)
    BY <1>0, <1>2, <2>1 DEF Unconfirmed
  <2> QED
    BY <1>0, <2>2, <2>3
<1>4. ~c.ku_locally_initiated /\ c.tx_epoch = c.rx_epoch
  <2>2. c.ku_locally_initiated => c.largest_acked < c.txku_pn
    BY <1>1 DEF Own
  <2>1. ~c.ku_locally_initiated
    BY <1>0, <1>2, <2>2
  <2> QED
    BY <1>1, <2>1 DEF Own
<1>5. b = [c EXCEPT !.tx_epoch = c.tx_epoch + 1, !.txku_in_progress = TRUE,
                    !.txku_pn = c.next_pn, !.rxku_expected = TRUE,
                    !.ku_locally_initiated = TRUE]
  BY <1>1 DEF Channels, Initiated, ch_trigger_txku, txku_in_progress
<1> HIDE DEF b
<1>6. b \in Channels
  <2>1. c.tx_epoch + 1 \in Nat /\ c.next_pn \in Nat
    BY <1>0
  <2> DEFINE b1 == [c EXCEPT !.tx_epoch = c.tx_epoch + 1, !.txku_pn = c.next_pn]
  <2>2. b1 \in Channels
    BY <1>1, <2>1 DEF Channels
  <2>3. b = [b1 EXCEPT !.txku_in_progress = TRUE, !.rxku_expected = TRUE,
                       !.ku_locally_initiated = TRUE]
    BY <1>1, <1>5 DEF Channels
  <2> HIDE DEF b1
  <2> QED
    BY <2>2, <2>3 DEF Channels
<1>7. Own(b, N)
  <2>1. /\ b.error = "none" /\ b.ku_locally_initiated = TRUE
        /\ b.rxku_expected = TRUE /\ b.txku_in_progress = TRUE
        /\ b.received = c.received
    BY <1>1, <1>5 DEF Channels
  <2>4. Awaits(b) <=> Awaits(c)
    BY <1>1, <1>5 DEF Awaits, Channels
  <2>2. /\ b.tx_epoch = c.tx_epoch + 1 /\ b.rx_epoch = c.rx_epoch
        /\ b.txku_pn = c.next_pn /\ b.largest_acked = c.largest_acked
    BY <1>1, <1>5 DEF Channels
  <2>3. b.largest_acked < b.txku_pn
    BY <1>1, <2>2 DEF Link, Numbered
  <2>5. b.tx_epoch = b.rx_epoch + 1 /\ b.tx_epoch <= b.rx_epoch + 1
    BY <1>0, <1>4, <2>2
  <2>6. Awaits(b) => \A p \in N : p.epoch <= b.rx_epoch
    BY <1>1, <2>2, <2>4 DEF Own
  <2>7. 0 \in b.received
    BY <1>1, <2>1 DEF Own
  <2> QED
    BY <2>1, <2>3, <2>5, <2>6, <2>7 DEF Own
<1>8. Link(b, N, d, M)
  <2>1. Numbered(b, N, d, M)
    <3>1. /\ b.next_pn = c.next_pn /\ b.largest_acked = c.largest_acked
          /\ b.txku_pn = c.next_pn
      BY <1>1, <1>5 DEF Channels
    <3> QED
      BY <1>0, <1>1, <3>1 DEF Link, Numbered
  <2>2. EpochsOrdered(b, N)
    <3>1. /\ b.tx_epoch = c.tx_epoch + 1 /\ b.txku_pn = c.next_pn
          /\ c.tx_epoch \in Nat /\ c.next_pn \in Nat
      BY <1>1, <1>5 DEF Channels
    <3>2. \A p \in N : p.pn \in Nat /\ p.epoch \in Nat
      BY DEF Coherent, Packets
    <3> QED
      BY <1>1, <3>1, <3>2 DEF Link, Numbered, EpochsOrdered
  <2>3. Noticed(b, d, M)
    <3>1. /\ b.tx_epoch = c.tx_epoch + 1 /\ b.txku_pn = c.next_pn
          /\ c.tx_epoch \in Nat /\ c.next_pn \in Nat
      BY <1>1, <1>5 DEF Channels
    <3>2. \A p \in M : p.ack \in Int
      BY DEF Coherent, Packets, NoAck
    <3>3. d.received \in SUBSET Nat
      BY <1>1 DEF Channels
    <3> QED
      BY <1>1, <1>3, <3>1, <3>2, <3>3 DEF Link, Numbered, Noticed
  <2>4. Triggered(N, d)
    BY <1>1 DEF Link
  <2>5. Unconfirmed(b, d, M)
    BY <1>1, <1>3, <1>5 DEF Channels, Link, Numbered, Unconfirmed
  <2> QED
    BY <2>1, <2>2, <2>3, <2>4, <2>5 DEF Link
<1>9. Link(d, M, b, N)
  BY <1>1, <1>5 DEF Channels, Link, Numbered, EpochsOrdered, Noticed, Triggered,
                    Unconfirmed, Awaits
<1>10. Coherent(b, N, d, M)
  BY <1>1, <1>6, <1>7, <1>8, <1>9 DEF Coherent
<1>11. Confirms(c) => Confirms(b)
  BY <1>1, <1>5 DEF Channels, Confirms, Awaits
<1>12. b.tx_epoch = c.tx_epoch + 1
  BY <1>1, <1>5 DEF Channels
<1> QED
  BY <1>10, <1>11, <1>12 DEF b

\* The first packet under new keys of the peer: the last key update of the
\* peer is confirmed, or was left out of a frame, and the answer, if there is
\* one, does not overtake it.
LEMMA UpdateDetected ==
    ASSUME NEW c, NEW N, NEW d, NEW M, Coherent(c, N, d, M),
           NEW p \in M, p.epoch = c.rx_epoch + 1, ~c.updating,
           NEW b, b = qrx_key_update_initiated(c, p.pn)
    PROVE  /\ Coherent(b, N, d, M)
           /\ b.rx_epoch = p.epoch
           /\ b.tx_epoch = c.tx_epoch \/ b.tx_epoch = p.epoch
           /\ Awaits(b) => b.want_ack /\ b.rxku_trigger_pn = p.pn
           /\ b.received = c.received
<1>1. c \in Channels /\ d \in Channels /\ Own(c, N) /\ Own(d, M)
      /\ Link(c, N, d, M) /\ Link(d, M, c, N)
  BY DEF Coherent
<1>2. /\ p.pn \in Nat /\ p.epoch \in Nat
      /\ \A q \in M : q.pn \in Nat /\ q.epoch \in Nat /\ q.ack \in Int
      /\ \A q \in N : q.pn \in Nat /\ q.epoch \in Nat /\ q.ack \in Int
  BY DEF Coherent, Packets, NoAck
<1>3. /\ c.rx_epoch \in Nat /\ c.tx_epoch \in Nat /\ c.next_pn \in Nat
      /\ c.largest_acked \in Nat /\ c.txku_pn \in Nat
      /\ d.rx_epoch \in Nat /\ d.tx_epoch \in Nat /\ d.next_pn \in Nat
      /\ d.largest_acked \in Nat /\ d.txku_pn \in Nat
      /\ c.received \in SUBSET Nat /\ d.received \in SUBSET Nat
  BY <1>1 DEF Channels
<1>4. d.tx_epoch = p.epoch
  BY <1>1, <1>2, <1>3 DEF Link, EpochsOrdered, Noticed
<1>5. ~Awaits(c) /\ c.error = "none"
  <2>1. Awaits(c) => d.tx_epoch = c.rx_epoch
    BY <1>1 DEF Link, Unconfirmed
  <2>2. ~Awaits(c)
    BY <1>3, <1>4, <2>1
  <2>3. c.error = "none"
    BY <1>1 DEF Own
  <2> QED
    BY <2>2, <2>3
<1> DEFINE n == [c EXCEPT !.rx_epoch = c.rx_epoch + 1, !.updating = TRUE,
                          !.cur_epoch_start_pn = p.pn]
           t == [n EXCEPT !.ku_locally_initiated = FALSE,
                          !.rxku_in_progress = TRUE,
                          !.rxku_pending_confirm = TRUE,
                          !.omitted = FALSE,
                          !.rxku_trigger_pn = p.pn,
                          !.rxku_expected = FALSE,
                          !.want_ack = TRUE]
           u == [t EXCEPT !.tx_epoch = c.tx_epoch + 1,
                          !.txku_in_progress = TRUE,
                          !.txku_pn = c.next_pn]
<1>6. n \in Channels
  BY <1>1, <1>2, <1>3 DEF Channels
<1>7. /\ n.ku_locally_initiated = c.ku_locally_initiated
      /\ n.rxku_pending_confirm = c.rxku_pending_confirm
      /\ n.rx_epoch = p.epoch /\ n.tx_epoch = c.tx_epoch /\ n.next_pn = c.next_pn
      /\ n.largest_acked = c.largest_acked /\ n.txku_pn = c.txku_pn
      /\ n.txku_in_progress = c.txku_in_progress
      /\ n.received = c.received /\ n.error = c.error
      /\ n.omitted = c.omitted /\ n.updating = TRUE
      /\ n.rxku_expected = c.rxku_expected
  BY <1>1 DEF Channels
<1>8. t \in Channels
  <2> HIDE DEF n
  <2>1. [n EXCEPT !.ku_locally_initiated = FALSE, !.rxku_in_progress = TRUE,
                  !.rxku_pending_confirm = TRUE, !.omitted = FALSE] \in Channels
    BY <1>6 DEF Channels
  <2> DEFINE m == [n EXCEPT !.ku_locally_initiated = FALSE,
                            !.rxku_in_progress = TRUE,
                            !.rxku_pending_confirm = TRUE,
                            !.omitted = FALSE]
  <2>2. t = [m EXCEPT !.rxku_trigger_pn = p.pn, !.rxku_expected = FALSE,
                      !.want_ack = TRUE]
    BY <1>6 DEF Channels
  <2> HIDE DEF m, t
  <2>3. m \in Channels
    BY <2>1 DEF m
  <2> QED
    BY <1>2, <2>2, <2>3 DEF Channels
<1>9. /\ t.ku_locally_initiated = FALSE /\ t.rxku_expected = FALSE
      /\ t.rxku_pending_confirm = TRUE /\ t.omitted = FALSE
      /\ t.rxku_trigger_pn = p.pn /\ t.want_ack = TRUE
      /\ t.rx_epoch = p.epoch /\ t.tx_epoch = c.tx_epoch /\ t.next_pn = c.next_pn
      /\ t.largest_acked = c.largest_acked /\ t.txku_pn = c.txku_pn
      /\ t.txku_in_progress = c.txku_in_progress
      /\ t.received = c.received /\ t.error = c.error
  <2> HIDE DEF n
  <2> QED
    BY <1>6, <1>7 DEF Channels
<1>10. /\ c.rxku_pending_confirm => b = [n EXCEPT !.error = "again too soon"]
       /\ ~c.rxku_pending_confirm => b = IF c.ku_locally_initiated THEN t ELSE u
  <2>1. b = rxku_detected(n, p.pn)
    BY DEF qrx_key_update_initiated
  <2> HIDE DEF n
  <2>2. c.rxku_pending_confirm => b = [n EXCEPT !.error = "again too soon"]
    BY <1>7, <2>1 DEF rxku_detected, rxku_allowed, raise_protocol_error
  <2>3. ~c.rxku_pending_confirm =>
          b = IF c.ku_locally_initiated THEN t ELSE ch_trigger_txku(t)
    BY <1>7, <2>1 DEF rxku_detected, rxku_allowed
  <2> HIDE DEF t
  <2>4. ch_trigger_txku(t) = u
    BY <1>8, <1>9 DEF ch_trigger_txku, Channels
  <2> QED
    BY <2>2, <2>3, <2>4
<1> HIDE DEF n
<1>14. CASE c.rxku_pending_confirm
  <2>1. b = [n EXCEPT !.error = "again too soon"] /\ c.omitted
    BY <1>5, <1>10, <1>14 DEF Awaits
  <2>2. /\ b \in Channels /\ b.error = "again too soon"
        /\ b.omitted = TRUE /\ b.updating = TRUE
        /\ b.ku_locally_initiated = c.ku_locally_initiated
        /\ b.rxku_expected = c.rxku_expected
        /\ b.rx_epoch = p.epoch /\ b.tx_epoch = c.tx_epoch
        /\ b.next_pn = c.next_pn
        /\ b.largest_acked = c.largest_acked /\ b.txku_pn = c.txku_pn
        /\ b.txku_in_progress = c.txku_in_progress
        /\ b.received = c.received
    <3>1. b \in Channels
      BY <1>6, <2>1 DEF Channels
    <3>2. c.omitted = TRUE
      BY <1>1, <2>1 DEF Channels
    <3>3. /\ b.error = "again too soon"
          /\ b.omitted = n.omitted /\ b.updating = n.updating
          /\ b.ku_locally_initiated = n.ku_locally_initiated
          /\ b.rxku_expected = n.rxku_expected
          /\ b.rx_epoch = n.rx_epoch /\ b.tx_epoch = n.tx_epoch
          /\ b.next_pn = n.next_pn
          /\ b.largest_acked = n.largest_acked /\ b.txku_pn = n.txku_pn
          /\ b.txku_in_progress = n.txku_in_progress
          /\ b.received = n.received
      BY <1>6, <2>1 DEF Channels
    <3> QED
      BY <1>7, <3>1, <3>2, <3>3
  <2>3. ~Awaits(b)
    BY <2>2 DEF Awaits
  <2>4. Own(b, N)
    <3>1. c.tx_epoch <= p.epoch + 1
      <4>1. c.tx_epoch <= c.rx_epoch + 1
        BY <1>1 DEF Own
      <4> QED
        BY <1>2, <1>3, <4>1
    <3>2. /\ b.rxku_expected = b.ku_locally_initiated
          /\ b.ku_locally_initiated => b.largest_acked < b.txku_pn
          /\ ~b.txku_in_progress => b.largest_acked >= b.txku_pn
          /\ 0 \in b.received
      BY <1>1, <2>2 DEF Own
    <3> QED
      BY <2>2, <2>3, <3>1, <3>2 DEF Own
  <2>5. Link(b, N, d, M)
    BY <1>1, <2>2 DEF Link, Numbered, EpochsOrdered, Noticed, Triggered, Unconfirmed
  <2>6. Link(d, M, b, N)
    <3>1. Numbered(d, M, b, N)
      BY <1>1, <2>2 DEF Link, Numbered
    <3>2. Noticed(d, b, N)
      <4>1. \A q \in N : q.ack >= d.txku_pn => q.epoch >= d.tx_epoch
        BY <1>1 DEF Link, Noticed
      <4>2. b.rx_epoch = d.tx_epoch
        BY <1>4, <2>2
      <4> QED
        BY <1>3, <4>1, <4>2 DEF Noticed
    <3>3. Triggered(M, b)
      BY <2>2 DEF Triggered
    <3>4. Unconfirmed(d, b, N)
      <4>1. b.rx_epoch = d.tx_epoch /\ d.tx_epoch \in Nat
        BY <1>3, <1>4, <2>2
      <4>2. ~(b.rx_epoch < d.tx_epoch)
        BY <4>1
      <4> QED
        BY <2>3, <4>2 DEF Unconfirmed
    <3> QED
      BY <1>1, <3>1, <3>2, <3>3, <3>4 DEF Link
  <2>7. Coherent(b, N, d, M)
    BY <1>1, <2>2, <2>4, <2>5, <2>6 DEF Coherent
  <2> QED
    BY <2>2, <2>3, <2>7
<1>11. Link(d, M, t, N)
  <2> HIDE DEF t
  <2>1. Numbered(d, M, t, N)
    BY <1>1, <1>9 DEF Link, Numbered
  <2>2. Noticed(d, t, N)
    BY <1>1, <1>2, <1>3, <1>4, <1>9 DEF Link, Noticed
  <2>3. Triggered(M, t)
    BY <1>1, <1>2, <1>9 DEF Link, EpochsOrdered, Triggered
  <2>4. Unconfirmed(d, t, N)
    BY <1>1, <1>2, <1>3, <1>4, <1>9 DEF Link, Unconfirmed
  <2> QED
    BY <1>1, <2>1, <2>2, <2>3, <2>4 DEF Link
<1>12. CASE ~c.rxku_pending_confirm /\ c.ku_locally_initiated
  <2>1. b = t
    BY <1>10, <1>12
  <2> HIDE DEF t
  <2>2. Own(t, N)
    <3>1. c.tx_epoch = p.epoch
      BY <1>1, <1>5, <1>12 DEF Own
    <3>2. \A q \in N : q.epoch <= p.epoch
      BY <1>1, <3>1 DEF Link, EpochsOrdered
    <3>3. ~t.txku_in_progress => t.largest_acked >= t.txku_pn
      BY <1>1, <1>9 DEF Own
    <3>4. t.error = "none" /\ 0 \in t.received
      BY <1>1, <1>5, <1>9 DEF Own
    <3>5. t.tx_epoch = t.rx_epoch
      BY <1>2, <1>9, <3>1
    <3>6. t.tx_epoch <= t.rx_epoch + 1
      BY <1>2, <1>9, <3>1
    <3> QED
      BY <1>9, <3>2, <3>3, <3>4, <3>5, <3>6 DEF Own
  <2>3. Link(t, N, d, M)
    BY <1>1, <1>9 DEF Link, Numbered, EpochsOrdered, Noticed, Triggered, Unconfirmed
  <2>4. Coherent(t, N, d, M)
    BY <1>1, <1>8, <1>11, <2>2, <2>3 DEF Coherent
  <2> QED
    BY <1>9, <2>1, <2>4
<1>13. CASE ~c.rxku_pending_confirm /\ ~c.ku_locally_initiated
  <2>1. b = u
    BY <1>10, <1>13
  <2> HIDE DEF t
  <2>2. u \in Channels
    <3>1. c.tx_epoch + 1 \in Nat
      BY <1>3
    <3> QED
      BY <1>3, <1>8, <3>1 DEF Channels
  <2>3. /\ u.ku_locally_initiated = FALSE /\ u.rxku_expected = FALSE
        /\ u.rxku_pending_confirm = TRUE /\ u.omitted = FALSE
        /\ u.rxku_trigger_pn = p.pn /\ u.want_ack = TRUE
        /\ u.rx_epoch = p.epoch /\ u.tx_epoch = c.tx_epoch + 1
        /\ u.next_pn = c.next_pn
        /\ u.largest_acked = c.largest_acked /\ u.txku_pn = c.next_pn
        /\ u.txku_in_progress = TRUE
        /\ u.received = c.received /\ u.error = c.error
    BY <1>8, <1>9 DEF Channels
  <2> HIDE DEF u
  <2>4. c.tx_epoch = c.rx_epoch
    BY <1>1, <1>3, <1>5, <1>13 DEF Own
  <2>5. ~Awaits(d) /\ d.rx_epoch = c.tx_epoch
    <3>1. d.rx_epoch <= c.tx_epoch
      BY <1>1 DEF Link, Noticed
    <3>2. d.rx_epoch >= c.tx_epoch
      <4>1. d.tx_epoch <= d.rx_epoch + 1
        BY <1>1 DEF Own
      <4> QED
        BY <1>3, <1>4, <2>4, <4>1
    <3>3. ~(p.epoch <= d.rx_epoch)
      BY <1>3, <2>4, <3>1
    <3>4. Awaits(d) => p.epoch <= d.rx_epoch
      BY <1>1 DEF Own
    <3> QED
      BY <1>3, <3>1, <3>2, <3>3, <3>4
  <2>6. Own(u, N)
    <3>1. \A q \in N : q.epoch <= p.epoch
      BY <1>1, <1>2, <1>3, <2>4 DEF Link, EpochsOrdered
    <3>2. u.tx_epoch = u.rx_epoch
      BY <2>3, <2>4
    <3>3. u.error = "none" /\ 0 \in u.received
      BY <1>1, <1>5, <2>3 DEF Own
    <3>4. u.tx_epoch = u.rx_epoch
      BY <1>2, <2>3, <3>2
    <3>5. u.tx_epoch <= u.rx_epoch + 1
      BY <1>2, <2>3, <3>2
    <3> QED
      BY <2>3, <3>1, <3>3, <3>4, <3>5 DEF Own
  <2>7. Link(u, N, d, M)
    <3>1. Numbered(u, N, d, M)
      BY <1>1, <1>3, <2>3 DEF Link, Numbered
    <3>2. EpochsOrdered(u, N)
      BY <1>1, <1>2, <1>3, <2>3 DEF Link, Numbered, EpochsOrdered
    <3>3. Noticed(u, d, M)
      BY <1>1, <1>2, <1>3, <2>3, <2>5 DEF Link, Numbered, Noticed
    <3>4. Unconfirmed(u, d, M)
      BY <1>1, <1>2, <1>3, <2>3, <2>5 DEF Link, Numbered, Unconfirmed
    <3> QED
      BY <1>1, <3>1, <3>2, <3>3, <3>4 DEF Link
  <2>8. Link(d, M, u, N)
    BY <1>9, <1>11, <2>3 DEF Link, Numbered, EpochsOrdered, Noticed, Triggered,
                             Unconfirmed, Awaits
  <2>9. Coherent(u, N, d, M)
    BY <1>1, <2>2, <2>6, <2>7, <2>8 DEF Coherent
  <2> QED
    BY <2>1, <2>3, <2>4, <2>9
<1> QED
  BY <1>12, <1>13, <1>14

\* A packet that decrypted under keys that have been noticed: neither it nor
\* its acknowledgement is an error.
LEMMA PacketHandled ==
    ASSUME NEW c, NEW N, NEW d, NEW M, Coherent(c, N, d, M),
           NEW p \in M, p.epoch <= c.rx_epoch, c.error = "none",
           NEW b, b = ch_rx_handle_packet(c, p)
    PROVE  /\ Coherent(b, N, d, M)
           /\ b.rx_epoch = c.rx_epoch /\ b.tx_epoch = c.tx_epoch
           /\ b.error = c.error /\ (Awaits(b) <=> Awaits(c))
           /\ b.want_ack = c.want_ack
           /\ b.rxku_trigger_pn = c.rxku_trigger_pn
           /\ b.received = c.received \cup {p.pn}
<1>1. c \in Channels /\ d \in Channels /\ Own(c, N) /\ Own(d, M)
      /\ Link(c, N, d, M) /\ Link(d, M, c, N)
  BY DEF Coherent
<1>2. /\ p.pn \in Nat /\ p.epoch \in Nat /\ p.ack \in Int
      /\ p.ack \in Nat \cup {NoAck}
  BY DEF Coherent, Packets, NoAck
<1>3. /\ c.rx_epoch \in Nat /\ c.tx_epoch \in Nat /\ c.next_pn \in Nat
      /\ c.largest_acked \in Nat /\ c.txku_pn \in Nat
      /\ d.rx_epoch \in Nat /\ d.tx_epoch \in Nat /\ d.next_pn \in Nat
      /\ d.largest_acked \in Nat /\ d.txku_pn \in Nat
      /\ c.received \in SUBSET Nat /\ d.received \in SUBSET Nat
      /\ \A q \in M : q.pn \in Nat /\ q.epoch \in Nat /\ q.ack \in Int
      /\ \A q \in N : q.pn \in Nat /\ q.epoch \in Nat /\ q.ack \in Int
  BY CoherentTypes
<1>4. ~(p.pn >= c.rxku_trigger_pn /\ p.epoch < c.rx_epoch)
  BY <1>1, <1>2, <1>3 DEF Link, Triggered
<1>5. p.ack >= c.txku_pn =>
        p.epoch = c.rx_epoch /\ ~c.rxku_expected /\ ~c.ku_locally_initiated
  <2> SUFFICES ASSUME p.ack >= c.txku_pn
               PROVE  p.epoch = c.rx_epoch /\ ~c.rxku_expected
                      /\ ~c.ku_locally_initiated
    OBVIOUS
  <2>1. p.epoch >= c.tx_epoch
    BY <1>1 DEF Link, Noticed
  <2>2. CASE c.ku_locally_initiated
    <3>1. c.tx_epoch = c.rx_epoch + 1
      BY <1>1, <2>2 DEF Own
    <3> QED
      BY <1>2, <1>3, <2>1, <3>1
  <2>3. CASE ~c.ku_locally_initiated
    <3>1. c.tx_epoch = c.rx_epoch /\ ~c.rxku_expected
      BY <1>1, <2>3 DEF Own
    <3> QED
      BY <1>2, <1>3, <2>1, <2>3, <3>1
  <2> QED
    BY <2>2, <2>3
<1> DEFINE largest == IF p.ack > c.largest_acked THEN p.ack ELSE c.largest_acked
           a == [c EXCEPT !.largest_acked = largest]
<1>6. depack_do_frame_ack(c, p) = a
  <2>1. CASE p.ack = NoAck
    <3>1. largest = c.largest_acked
      BY <1>3, <2>1 DEF NoAck
    <3> HIDE DEF largest
    <3>2. a = c
      BY <1>1, <3>1 DEF Channels
    <3> HIDE DEF a
    <3> QED
      BY <2>1, <3>2 DEF depack_do_frame_ack
  <2>2. CASE p.ack # NoAck
    <3>1. ~((p.epoch < c.rx_epoch \/ c.rxku_expected) /\ p.ack >= c.txku_pn)
      BY <1>2, <1>3, <1>5
    <3> QED
      BY <2>2, <3>1 DEF depack_do_frame_ack
  <2> QED
    BY <2>1, <2>2
<1>7. b = [a EXCEPT !.received = a.received \cup {p.pn}]
  <2> HIDE DEF a
  <2> QED
    BY <1>4, <1>6 DEF ch_rx_handle_packet
<1>8. largest \in Nat
  BY <1>2, <1>3
<1>9. /\ largest = c.largest_acked \/ largest = p.ack
  OBVIOUS
<1> HIDE DEF largest
<1>10. a \in Channels
  BY <1>1, <1>8 DEF Channels
<1>11. b \in Channels
  <2> HIDE DEF a
  <2>1. a.received \cup {p.pn} \in SUBSET Nat
    BY <1>2, <1>10 DEF Channels
  <2> QED
    BY <1>7, <1>10, <2>1 DEF Channels
<1>12. /\ b.rx_epoch = c.rx_epoch /\ b.tx_epoch = c.tx_epoch
       /\ b.rxku_pending_confirm = c.rxku_pending_confirm
       /\ b.omitted = c.omitted /\ b.want_ack = c.want_ack
       /\ b.rxku_trigger_pn = c.rxku_trigger_pn
       /\ b.received = c.received \cup {p.pn}
       /\ b.ku_locally_initiated = c.ku_locally_initiated
       /\ b.rxku_expected = c.rxku_expected /\ b.error = c.error
       /\ b.txku_in_progress = c.txku_in_progress /\ b.txku_pn = c.txku_pn
       /\ b.next_pn = c.next_pn /\ b.largest_acked = largest
  BY <1>1, <1>7 DEF Channels
<1> HIDE DEF a
<1>13. largest >= c.largest_acked
  BY <1>2, <1>3 DEF largest
<1>18. Awaits(b) <=> Awaits(c)
  BY <1>12 DEF Awaits
<1>14. Own(b, N)
  <2>1. b.ku_locally_initiated => b.largest_acked < b.txku_pn
    <3>1. c.ku_locally_initiated =>
            c.largest_acked < c.txku_pn /\ ~(p.ack >= c.txku_pn)
      BY <1>1, <1>5 DEF Own
    <3> QED
      BY <1>2, <1>3, <1>9, <1>12, <3>1
  <2>2. ~b.txku_in_progress => b.largest_acked >= b.txku_pn
    <3>1. ~c.txku_in_progress => c.largest_acked >= c.txku_pn
      BY <1>1 DEF Own
    <3> QED
      BY <1>3, <1>8, <1>12, <1>13, <3>1
  <2>3. b.rxku_expected = b.ku_locally_initiated
    BY <1>1, <1>12 DEF Own
  <2>4. Awaits(b) => \A q \in N : q.epoch <= b.rx_epoch
    BY <1>1, <1>12, <1>18 DEF Own
  <2>5. b.error = "none" /\ 0 \in b.received
    BY <1>1, <1>12 DEF Own
  <2>6. /\ b.ku_locally_initiated => b.tx_epoch = b.rx_epoch + 1
        /\ ~b.ku_locally_initiated => b.tx_epoch = b.rx_epoch
        /\ b.tx_epoch <= b.rx_epoch + 1
    BY <1>1, <1>12 DEF Own
  <2> QED
    BY <2>1, <2>2, <2>3, <2>4, <2>5, <2>6 DEF Own
<1>15. Link(b, N, d, M)
  <2>1. Numbered(b, N, d, M)
    BY <1>1, <1>9, <1>12 DEF Link, Numbered
  <2>2. Unconfirmed(b, d, M)
    BY <1>1, <1>9, <1>12 DEF Link, Unconfirmed
  <2> QED
    BY <1>1, <1>12, <2>1, <2>2 DEF Link, EpochsOrdered, Noticed
<1>16. Link(d, M, b, N)
  <2>1. Numbered(d, M, b, N)
    BY <1>1, <1>12 DEF Link, Numbered
  <2>2. Noticed(d, b, N)
    <3>1. p.pn >= d.txku_pn => c.rx_epoch >= d.tx_epoch
      BY <1>1, <1>2, <1>3 DEF Link, EpochsOrdered
    <3> QED
      BY <1>1, <1>12, <3>1 DEF Link, Noticed
  <2> QED
    BY <1>1, <1>12, <1>18, <2>1, <2>2 DEF Link, Triggered, Unconfirmed
<1>17. Coherent(b, N, d, M)
  BY <1>1, <1>11, <1>14, <1>15, <1>16 DEF Coherent
<1> QED
  BY <1>12, <1>17, <1>18

\* The time for the old keys is over.
LEMMA OldKeysGone ==
    ASSUME NEW c, NEW N, NEW d, NEW M, Coherent(c, N, d, M),
           c.error = "none",
           NEW b, b = [c EXCEPT !.rxku_in_progress = FALSE, !.updating = FALSE]
    PROVE  /\ Coherent(b, N, d, M) /\ b.tx_epoch = c.tx_epoch
           /\ Confirms(c) => Confirms(b)
<1>1. c \in Channels /\ d \in Channels /\ Own(c, N) /\ Own(d, M)
      /\ Link(c, N, d, M) /\ Link(d, M, c, N)
  BY DEF Coherent
<1>2. b \in Channels
  BY <1>1 DEF Channels
<1>3. /\ b.rx_epoch = c.rx_epoch /\ b.tx_epoch = c.tx_epoch
      /\ b.rxku_pending_confirm = c.rxku_pending_confirm
      /\ b.want_ack = c.want_ack /\ b.rxku_trigger_pn = c.rxku_trigger_pn
      /\ b.received = c.received /\ b.omitted = c.omitted
      /\ b.ku_locally_initiated = c.ku_locally_initiated
      /\ b.rxku_expected = c.rxku_expected /\ b.error = c.error
      /\ b.txku_in_progress = c.txku_in_progress /\ b.txku_pn = c.txku_pn
      /\ b.next_pn = c.next_pn /\ b.largest_acked = c.largest_acked
  BY <1>1 DEF Channels
<1>4. Awaits(b) <=> Awaits(c)
  BY <1>3 DEF Awaits
<1>5. Own(b, N)
  BY <1>1, <1>3, <1>4 DEF Own
<1>6. Link(b, N, d, M)
  BY <1>1, <1>3 DEF Link, Numbered, EpochsOrdered, Noticed, Triggered, Unconfirmed
<1>7. Link(d, M, b, N)
  BY <1>1, <1>3, <1>4 DEF Link, Numbered, EpochsOrdered, Noticed, Triggered,
                          Unconfirmed
<1>8. Coherent(b, N, d, M)
  BY <1>1, <1>2, <1>5, <1>6, <1>7 DEF Coherent
<1> QED
  BY <1>3, <1>4, <1>8 DEF Confirms

\* The largest packet number received.
LEMMA LargestReceived ==
    ASSUME NEW n \in Nat, NEW T \in SUBSET Nat, 0 \in T, \A x \in T : x < n
    PROVE  Max(T) \in T
<1>1. T \in SUBSET (0..n) /\ T # {}
  OBVIOUS
<1>2. PICK x \in T : \A y \in T : x >= y
  BY <1>1, LargestElement
<1> QED
  BY <1>2 DEF Max

\* The packet that ch_tx makes of c, and what becomes of c.
SentPacket(c, with_ack) ==
    [pn |-> c.next_pn, epoch |-> c.tx_epoch,
     ack |-> IF with_ack THEN Max(c.received) ELSE NoAck]

AfterSending(c, with_ack) ==
    [ch_on_txp_ack_tx(c, with_ack) EXCEPT
       !.next_pn = @ + 1, !.want_ack = @ /\ ~with_ack]

\* A packet is sent: an update of the peer that it is the first to follow is
\* confirmed by it, or left out of its frame, and if it acknowledges new keys it is not under older ones.
LEMMA PacketSent ==
    ASSUME NEW c, NEW N, NEW d, NEW M, Coherent(c, N, d, M), Confirms(c),
           c.error = "none",
           NEW with_ack \in BOOLEAN, c.want_ack => with_ack,
           NEW p, p = SentPacket(c, with_ack),
           NEW b, b = AfterSending(c, with_ack)
    PROVE  /\ Coherent(b, N \cup {p}, d, M) /\ Confirms(b)
           /\ b.tx_epoch = c.tx_epoch
<1>1. c \in Channels /\ d \in Channels /\ Own(c, N) /\ Own(d, M)
      /\ Link(c, N, d, M) /\ Link(d, M, c, N)
  BY DEF Coherent
<1>3. /\ c.rx_epoch \in Nat /\ c.tx_epoch \in Nat /\ c.next_pn \in Nat
      /\ c.largest_acked \in Nat /\ c.txku_pn \in Nat
      /\ d.rx_epoch \in Nat /\ d.tx_epoch \in Nat /\ d.next_pn \in Nat
      /\ d.largest_acked \in Nat /\ d.txku_pn \in Nat
      /\ c.received \in SUBSET Nat /\ d.received \in SUBSET Nat
      /\ \A q \in M : q.pn \in Nat /\ q.epoch \in Nat /\ q.ack \in Int
      /\ \A q \in N : q.pn \in Nat /\ q.epoch \in Nat /\ q.ack \in Int
  BY CoherentTypes
<1>4. Max(c.received) \in c.received
  <2>1. 0 \in c.received /\ \A x \in c.received : x < d.next_pn
    BY <1>1 DEF Own, Link, Numbered
  <2> QED
    BY <1>3, <2>1, LargestReceived
<1>5. /\ p.pn = c.next_pn /\ p.epoch = c.tx_epoch
      /\ p.ack \in c.received \/ p.ack = NoAck
      /\ p \in Packets /\ p.ack \in Int
  BY <1>3, <1>4 DEF SentPacket, Packets, NoAck
<1>6. Awaits(c) => with_ack
  BY DEF Confirms
<1>7. /\ b \in Channels /\ ~Awaits(b)
      /\ b.next_pn = c.next_pn + 1
      /\ b.rx_epoch = c.rx_epoch /\ b.tx_epoch = c.tx_epoch
      /\ b.rxku_trigger_pn = c.rxku_trigger_pn
      /\ b.received = c.received
      /\ b.ku_locally_initiated = c.ku_locally_initiated
      /\ b.rxku_expected = c.rxku_expected /\ b.error = c.error
      /\ b.txku_in_progress = c.txku_in_progress /\ b.txku_pn = c.txku_pn
      /\ b.largest_acked = c.largest_acked
  <2> DEFINE holds == c.rxku_trigger_pn \in ackm_fill_rx_ack_ranges(c.received)
             x == c.rxku_pending_confirm /\ ~(with_ack /\ holds)
             y == c.omitted \/ (c.rxku_pending_confirm /\ with_ack /\ ~holds)
             a == [c EXCEPT !.rxku_pending_confirm = x, !.omitted = y]
  <2>1. a = ch_on_txp_ack_tx(c, with_ack)
    BY DEF ch_on_txp_ack_tx
  <2>2. x \in BOOLEAN /\ y \in BOOLEAN
    BY <1>1 DEF Channels
  <2>3. x => y
    BY <1>6 DEF Awaits
  <2> HIDE DEF x, y, holds
  <2>4. a \in Channels /\ a.rxku_pending_confirm = x /\ a.omitted = y
    BY <1>1, <2>2 DEF Channels
  <2>5. a.next_pn = c.next_pn
    BY <1>1 DEF Channels
  <2>6. b = [a EXCEPT !.next_pn = c.next_pn + 1,
                      !.want_ack = a.want_ack /\ ~with_ack]
    BY <2>1, <2>4, <2>5 DEF AfterSending, Channels
  <2>7. c.next_pn + 1 \in Nat /\ (a.want_ack /\ ~with_ack) \in BOOLEAN
    BY <1>3
  <2>8. /\ a.rx_epoch = c.rx_epoch /\ a.tx_epoch = c.tx_epoch
        /\ a.rxku_trigger_pn = c.rxku_trigger_pn
        /\ a.received = c.received
        /\ a.ku_locally_initiated = c.ku_locally_initiated
        /\ a.rxku_expected = c.rxku_expected /\ a.error = c.error
        /\ a.txku_in_progress = c.txku_in_progress /\ a.txku_pn = c.txku_pn
        /\ a.largest_acked = c.largest_acked
    BY <1>1 DEF Channels
  <2> HIDE DEF a
  <2>9. b \in Channels
    BY <2>4, <2>6, <2>7 DEF Channels
  <2>10. /\ b.rxku_pending_confirm = x /\ b.omitted = y
        /\ b.next_pn = c.next_pn + 1
        /\ b.rx_epoch = a.rx_epoch /\ b.tx_epoch = a.tx_epoch
        /\ b.rxku_trigger_pn = a.rxku_trigger_pn
        /\ b.received = a.received
        /\ b.ku_locally_initiated = a.ku_locally_initiated
        /\ b.rxku_expected = a.rxku_expected /\ b.error = a.error
        /\ b.txku_in_progress = a.txku_in_progress /\ b.txku_pn = a.txku_pn
        /\ b.largest_acked = a.largest_acked
    BY <2>4, <2>6 DEF Channels
  <2>11. ~Awaits(b)
    BY <2>3, <2>10 DEF Awaits
  <2> QED
    BY <2>8, <2>9, <2>10, <2>11
<1>8. Own(b, N \cup {p})
  <2>1. b.ku_locally_initiated => b.largest_acked < b.txku_pn
    BY <1>1, <1>7 DEF Own
  <2>2. ~b.txku_in_progress => b.largest_acked >= b.txku_pn
    BY <1>1, <1>7 DEF Own
  <2>3. b.rxku_expected = b.ku_locally_initiated
    BY <1>1, <1>7 DEF Own
  <2>4. ~Awaits(b)
    BY <1>7
  <2>5. b.error = "none" /\ 0 \in b.received
    BY <1>1, <1>7 DEF Own
  <2>6. /\ b.ku_locally_initiated => b.tx_epoch = b.rx_epoch + 1
        /\ ~b.ku_locally_initiated => b.tx_epoch = b.rx_epoch
        /\ b.tx_epoch <= b.rx_epoch + 1
    BY <1>1, <1>7 DEF Own
  <2> QED
    BY <2>1, <2>2, <2>3, <2>4, <2>5, <2>6 DEF Own
<1>9. c.tx_epoch >= c.rx_epoch
  <2>1. c.tx_epoch = c.rx_epoch \/ c.tx_epoch = c.rx_epoch + 1
    BY <1>1 DEF Own
  <2> QED
    BY <1>3, <2>1
<1>10. Link(b, N \cup {p}, d, M)
  <2>1. Numbered(b, N \cup {p}, d, M)
    BY <1>1, <1>3, <1>5, <1>7 DEF Link, Numbered
  <2>2. EpochsOrdered(b, N \cup {p})
    BY <1>1, <1>3, <1>5, <1>7 DEF Link, Numbered, EpochsOrdered
  <2>3. Noticed(b, d, M)
    BY <1>1, <1>7 DEF Link, Noticed
  <2>4. Triggered(N \cup {p}, d)
    BY <1>1, <1>3, <1>5 DEF Link, Triggered, Noticed
  <2>5. Unconfirmed(b, d, M)
    BY <1>1, <1>7 DEF Link, Unconfirmed
  <2> QED
    BY <2>1, <2>2, <2>3, <2>4, <2>5 DEF Link
<1>11. Link(d, M, b, N \cup {p})
  <2>1. Numbered(d, M, b, N \cup {p})
    BY <1>1, <1>3, <1>5, <1>7 DEF Link, Numbered, NoAck
  <2>2. p.ack >= d.txku_pn => c.rx_epoch >= d.tx_epoch
    BY <1>1, <1>3, <1>5 DEF Link, Noticed, NoAck
  <2>3. Noticed(d, b, N \cup {p})
    BY <1>1, <1>3, <1>5, <1>7, <1>9, <2>2 DEF Link, Noticed
  <2>4. Triggered(M, b)
    BY <1>1, <1>7 DEF Link, Triggered
  <2>5. Unconfirmed(d, b, N \cup {p})
    <3>1. c.rx_epoch < d.tx_epoch => p.ack < d.txku_pn
      BY <1>3, <1>5, <2>2
    <3> QED
      BY <1>1, <1>7, <3>1 DEF Link, Unconfirmed
  <2> QED
    BY <1>1, <2>1, <2>3, <2>4, <2>5 DEF Link
<1>12. Coherent(b, N \cup {p}, d, M)
  <2>1. N \cup {p} \in SUBSET Packets
    BY <1>5 DEF Coherent
  <2> QED
    BY <1>1, <1>7, <1>8, <1>10, <1>11, <2>1 DEF Coherent
<1> QED
  BY <1>7, <1>12 DEF Confirms

-----------------------------------------------------------------------------
(***************************************************************************)
(* The two loops over the packets of a batch                               *)
(***************************************************************************)

\* While a batch is read: the keys of the packets that decrypted have been
\* noticed, and the packet that brought new keys is among them.
Reading(acc, N, d, M, k) ==
    /\ Coherent(acc.c, N, d, M)
    /\ acc.c.tx_epoch <= k
    /\ \A i \in 1..Len(acc.pending) : acc.pending[i].epoch <= acc.c.rx_epoch
    /\ Awaits(acc.c) =>
         /\ acc.c.want_ack
         /\ \/ acc.c.rxku_trigger_pn \in acc.c.received
            \/ \E i \in 1..Len(acc.pending) :
                  acc.pending[i].pn = acc.c.rxku_trigger_pn

Readings(N, d, M, k) ==
    {acc \in [c : Channels, pending : Seq(M)] : Reading(acc, N, d, M, k)}

\* A packet is decrypted only with keys that have been noticed, or with the
\* next ones, which are noticed then.
LEMMA PacketRead ==
    ASSUME NEW N, NEW d, NEW M, NEW k \in Nat, d.tx_epoch <= k,
           NEW acc \in Readings(N, d, M, k), NEW p \in M
    PROVE  qrx_process_pkt(acc, p) \in Readings(N, d, M, k)
<1> DEFINE c == acc.c
           next == qrx_process_pkt(acc, p)
<1>1. /\ acc \in [c : Channels, pending : Seq(M)] /\ c \in Channels
      /\ acc.pending \in Seq(M) /\ Coherent(c, N, d, M)
      /\ c.tx_epoch <= k
      /\ \A i \in 1..Len(acc.pending) : acc.pending[i].epoch <= c.rx_epoch
      /\ Awaits(c) =>
         /\ c.want_ack
         /\ \/ c.rxku_trigger_pn \in c.received
            \/ \E i \in 1..Len(acc.pending) :
                  acc.pending[i].pn = c.rxku_trigger_pn
  BY DEF Readings, Reading
<1>2. /\ c.rx_epoch \in Nat /\ c.tx_epoch \in Nat
      /\ p.pn \in Nat /\ p.epoch \in Nat
      /\ d.tx_epoch \in Nat
      /\ \A q \in M : q.pn \in Nat /\ q.epoch \in Nat
  BY <1>1, CoherentTypes
<1> DEFINE more == Append(acc.pending, p)
<1>3. /\ more \in Seq(M) /\ Len(more) = Len(acc.pending) + 1
      /\ \A i \in 1..Len(acc.pending) : more[i] = acc.pending[i]
      /\ more[Len(more)] = p /\ Len(acc.pending) \in Nat
  BY <1>1
<1> HIDE DEF more
<1>4. ASSUME NEW b, Coherent(b, N, d, M), b.rx_epoch >= c.rx_epoch,
             p.epoch <= b.rx_epoch, b.tx_epoch <= k,
             Awaits(b) =>
               /\ b.want_ack
               /\ \/ b.rxku_trigger_pn \in b.received
                  \/ \E i \in 1..Len(more) : more[i].pn = b.rxku_trigger_pn
      PROVE  [c |-> b, pending |-> more] \in Readings(N, d, M, k)
  <2>1. b \in Channels /\ b.rx_epoch \in Nat
    BY <1>4, CoherentTypes DEF Coherent
  <2>2. ASSUME NEW i \in 1..Len(more) PROVE more[i].epoch <= b.rx_epoch
    <3>1. CASE i = Len(more)
      BY <1>3, <1>4, <3>1
    <3>2. CASE i # Len(more)
      <4>1. i \in 1..Len(acc.pending)
        BY <1>3, <3>2
      <4>2. acc.pending[i] \in M
        BY <1>1, <4>1
      <4>3. acc.pending[i].epoch \in Nat
        BY <1>2, <4>2
      <4> QED
        BY <1>1, <1>2, <1>3, <1>4, <2>1, <4>1, <4>3
    <3> QED
      BY <3>1, <3>2
  <2> DEFINE r == [c |-> b, pending |-> more]
  <2>3. r \in [c : Channels, pending : Seq(M)] /\ r.c = b /\ r.pending = more
    BY <1>3, <2>1
  <2> HIDE DEF r
  <2>4. Reading(r, N, d, M, k)
    BY <1>4, <2>2, <2>3 DEF Reading
  <2>5. r \in Readings(N, d, M, k)
    BY <2>3, <2>4 DEF Readings
  <2> QED
    BY <2>5 DEF r
<1>5. Awaits(c) =>
        /\ c.want_ack
        /\ \/ c.rxku_trigger_pn \in c.received
           \/ \E i \in 1..Len(more) : more[i].pn = c.rxku_trigger_pn
  BY <1>1, <1>3
<1>6. CASE ~Decrypts(c, p)
  BY <1>6 DEF qrx_process_pkt
<1>7. CASE Decrypts(c, p) /\ KeyPhase(p.epoch) = KeyPhase(c.rx_epoch)
  <2>1. p.epoch = c.rx_epoch
    BY <1>7 DEF Decrypts, qrx_get_cipher_ctx_epoch
  <2>2. next = [c |-> c, pending |-> more]
    BY <1>1, <1>7 DEF qrx_process_pkt, more
  <2> HIDE DEF next, c
  <2>3. [c |-> c, pending |-> more] \in Readings(N, d, M, k)
    BY <1>1, <1>2, <1>4, <1>5, <2>1
  <2> QED
    BY <2>2, <2>3 DEF next
<1>8. CASE Decrypts(c, p) /\ KeyPhase(p.epoch) # KeyPhase(c.rx_epoch)
  <2>1. next = [c |-> qrx_key_update_initiated(c, p.pn), pending |-> more]
    BY <1>8 DEF qrx_process_pkt, more
  <2>2. CASE c.updating
    <3>1. p.epoch = c.rx_epoch - 1
      BY <1>8, <2>2 DEF Decrypts, qrx_get_cipher_ctx_epoch
    <3>2. next = [c |-> c, pending |-> more]
      BY <2>1, <2>2 DEF qrx_key_update_initiated
    <3> HIDE DEF next, c
    <3>3. p.epoch <= c.rx_epoch /\ c.rx_epoch >= c.rx_epoch
      BY <1>2, <3>1
    <3>4. [c |-> c, pending |-> more] \in Readings(N, d, M, k)
      BY <1>1, <1>4, <1>5, <3>3
    <3> QED
      BY <3>2, <3>4 DEF next
  <2>3. CASE ~c.updating
    <3>1. p.epoch = c.rx_epoch + 1
      BY <1>8, <2>3 DEF Decrypts, qrx_get_cipher_ctx_epoch
    <3> DEFINE b == qrx_key_update_initiated(c, p.pn)
    <3> HIDE DEF c, next
    <3>2. /\ Coherent(b, N, d, M)
          /\ b.rx_epoch = p.epoch
          /\ b.tx_epoch = c.tx_epoch \/ b.tx_epoch = p.epoch
          /\ Awaits(b) => b.want_ack /\ b.rxku_trigger_pn = p.pn
          /\ b.received = c.received
      BY <1>1, <2>3, <3>1, UpdateDetected
    <3> HIDE DEF b
    <3>3. p.epoch <= d.tx_epoch
      BY <1>1 DEF Coherent, Link, EpochsOrdered
    <3>4. b.tx_epoch <= k
      BY <1>1, <1>2, <3>2, <3>3
    <3>5. Awaits(b) => \E i \in 1..Len(more) : more[i].pn = b.rxku_trigger_pn
      <4>1. Len(more) \in 1..Len(more)
        BY <1>3
      <4> QED
        BY <1>3, <3>2, <4>1
    <3>6. b.rx_epoch >= c.rx_epoch /\ p.epoch <= b.rx_epoch
      BY <1>2, <3>1, <3>2
    <3>7. [c |-> b, pending |-> more] \in Readings(N, d, M, k)
      BY <1>4, <3>2, <3>4, <3>5, <3>6
    <3> QED
      BY <2>1, <3>7 DEF b, next
  <2> QED
    BY <2>2, <2>3
<1> QED
  BY <1>6, <1>7, <1>8

\* All packets of a batch are read.
LEMMA BatchRead ==
    ASSUME NEW c, NEW N, NEW d, NEW M, Coherent(c, N, d, M), Confirms(c),
           NEW k \in Nat, c.tx_epoch <= k, d.tx_epoch <= k,
           NEW batch, Len(batch) \in Nat, \A i \in 1..Len(batch) : batch[i] \in M
    PROVE  ReadBatch(c, batch) \in Readings(N, d, M, k)
<1> DEFINE n == Len(batch)
           S == Readings(N, d, M, k)
           first == [c |-> c, pending |-> <<>>]
           Computes(f) == f = [i \in 0..n |-> IF i = 0 THEN first
                                 ELSE qrx_process_pkt(f[i - 1], batch[i])]
           read == CHOOSE f : Computes(f)
<1>1. first \in S
  <2>1. first \in [c : Channels, pending : Seq(M)]
    BY DEF Coherent
  <2>2. first.c = c /\ Len(first.pending) = 0
    OBVIOUS
  <2> HIDE DEF first
  <2>3. Reading(first, N, d, M, k)
    BY <2>2 DEF Reading, Confirms
  <2> QED
    BY <2>1, <2>3 DEF Readings
<1> HIDE DEF S, first
<1>2. ASSUME NEW acc \in S, NEW i \in 1..n
      PROVE  qrx_process_pkt(acc, batch[i]) \in S
  BY <1>2, PacketRead DEF S
<1>3. \E f : Computes(f)
  <2> DEFINE G == [i \in 1..n |-> [acc \in S |-> qrx_process_pkt(acc, batch[i])]]
  <2>1. G \in [1..n -> [S -> S]]
    BY <1>2
  <2>2. PICK f : IsLoop(f, n, S, first, G)
    <3>1. n \in Nat /\ first \in S
      BY <1>1
    <3> HIDE DEF G, n
    <3> QED
      BY <2>1, <3>1, LoopExists
  <2>3. ASSUME NEW i \in 1..n
        PROVE  f[i] = qrx_process_pkt(f[i - 1], batch[i])
    <3>1. i - 1 \in 0..n
      OBVIOUS
    <3>2. f[i - 1] \in S
      BY <2>2, <3>1 DEF IsLoop
    <3>3. G[i][f[i - 1]] = qrx_process_pkt(f[i - 1], batch[i])
      BY <3>2
    <3> QED
      BY <2>2, <3>3 DEF IsLoop
  <2> QED
    BY <2>2, <2>3 DEF IsLoop
<1>4. Computes(read)
  BY <1>3
<1>5. read[n] \in S
  <2> HIDE DEF read
  <2>1. read[0] \in S
    BY <1>1, <1>4
  <2>2. \A i \in 1..n : read[i - 1] \in S => read[i] \in S
    BY <1>2, <1>4
  <2>3. \A i \in 0..n : read[i] \in S
    BY <2>1, <2>2, LoopInvariant
  <2> QED
    BY <2>3
<1> QED
  BY <1>5 DEF S, first, ReadBatch

\* All packets that decrypted are handled, the one that brought new keys too.
LEMMA BatchHandled ==
    ASSUME NEW N, NEW d, NEW M, NEW k \in Nat, NEW acc \in Readings(N, d, M, k),
           NEW b, b = HandleBatch(acc.c, acc.pending)
    PROVE  Coherent(b, N, d, M) /\ Confirms(b) /\ b.tx_epoch <= k
<1> DEFINE c == acc.c
           pending == acc.pending
           n == Len(pending)
           Handled(x, i) ==
             /\ Coherent(x, N, d, M)
             /\ x.rx_epoch = c.rx_epoch /\ x.tx_epoch = c.tx_epoch
             /\ x.error = c.error /\ (Awaits(x) <=> Awaits(c))
             /\ x.want_ack = c.want_ack
             /\ x.rxku_trigger_pn = c.rxku_trigger_pn
             /\ c.received \subseteq x.received
             /\ c.error = "none" => \A j \in 1..i : pending[j].pn \in x.received
           S == {x \in Channels : /\ Coherent(x, N, d, M)
                                  /\ x.rx_epoch = c.rx_epoch}
           T == [i \in 0..n |-> {x \in S : Handled(x, i)}]
           Computes(f) == f = [i \in 0..n |-> IF i = 0 THEN c
                                 ELSE ch_rx_handle_packet(f[i - 1], pending[i])]
           after == CHOOSE f : Computes(f)
<1>1. /\ c \in Channels /\ pending \in Seq(M) /\ n \in Nat
      /\ Coherent(c, N, d, M) /\ c.tx_epoch <= k
      /\ \A i \in 1..n : pending[i] \in M /\ pending[i].epoch <= c.rx_epoch
      /\ Awaits(c) =>
         /\ c.want_ack
         /\ \/ c.rxku_trigger_pn \in c.received
            \/ \E i \in 1..n : pending[i].pn = c.rxku_trigger_pn
  BY DEF Readings, Reading
<1> HIDE DEF c, pending
<1>2. c \in S /\ Handled(c, 0)
  BY <1>1
<1>3. ASSUME NEW x \in S, NEW i \in 1..n
      PROVE  /\ ch_rx_handle_packet(x, pending[i]) \in S
             /\ Handled(x, i - 1) => Handled(ch_rx_handle_packet(x, pending[i]), i)
  <2> DEFINE y == ch_rx_handle_packet(x, pending[i])
  <2>1. Coherent(x, N, d, M) /\ pending[i] \in M /\ pending[i].epoch <= x.rx_epoch
    BY <1>1, <1>3
  <2>2. /\ Coherent(y, N, d, M)
        /\ y.rx_epoch = x.rx_epoch /\ y.tx_epoch = x.tx_epoch
        /\ y.error = x.error /\ (Awaits(y) <=> Awaits(x))
        /\ y.want_ack = x.want_ack
        /\ y.rxku_trigger_pn = x.rxku_trigger_pn
        /\ x.received \subseteq y.received
        /\ x.error = "none" => pending[i].pn \in y.received
    <3>1. CASE x.error = "none"
      BY <2>1, <3>1, PacketHandled
    <3>2. CASE x.error # "none"
      BY <2>1, <3>2 DEF ch_rx_handle_packet
    <3> QED
      BY <3>1, <3>2
  <2> HIDE DEF y
  <2>3. y \in S
    BY <1>3, <2>2 DEF Coherent
  <2>4. ASSUME Handled(x, i - 1) PROVE Handled(y, i)
    <3>1. ASSUME NEW j \in 1..i, c.error = "none"
          PROVE  pending[j].pn \in y.received
      <4>1. j = i \/ j \in 1..(i - 1)
        BY <1>1
      <4> QED
        BY <2>2, <2>4, <3>1, <4>1
    <3> QED
      BY <2>2, <2>4, <3>1
  <2> QED
    BY <2>3, <2>4 DEF y
<1> HIDE DEF S, Handled
<1>4. \E f : Computes(f)
  <2> DEFINE G == [i \in 1..n |-> [x \in S |-> ch_rx_handle_packet(x, pending[i])]]
  <2>1. G \in [1..n -> [S -> S]]
    BY <1>3
  <2>2. PICK f : IsLoop(f, n, S, c, G)
    <3>1. n \in Nat /\ c \in S
      BY <1>1, <1>2
    <3> HIDE DEF G, n
    <3> QED
      BY <2>1, <3>1, LoopExists
  <2>3. ASSUME NEW i \in 1..n
        PROVE  f[i] = ch_rx_handle_packet(f[i - 1], pending[i])
    <3>1. i - 1 \in 0..n
      BY <1>1
    <3>2. f[i - 1] \in S
      BY <2>2, <3>1 DEF IsLoop
    <3>3. G[i][f[i - 1]] = ch_rx_handle_packet(f[i - 1], pending[i])
      BY <3>2
    <3> QED
      BY <2>2, <3>3 DEF IsLoop
  <2> QED
    BY <2>2, <2>3 DEF IsLoop
<1>5. Computes(after)
  BY <1>4
<1>6. after[n] \in T[n]
  <2> HIDE DEF after
  <2>1. after[0] \in T[0]
    BY <1>1, <1>2, <1>5
  <2>2. ASSUME NEW i \in 1..n, after[i - 1] \in T[i - 1]
        PROVE  after[i] \in T[i]
    <3>1. i - 1 \in 0..n /\ i \in 0..n
      BY <1>1
    <3>2. after[i - 1] \in S /\ Handled(after[i - 1], i - 1)
      BY <2>2, <3>1
    <3>3. after[i] = ch_rx_handle_packet(after[i - 1], pending[i])
      BY <1>1, <1>5, <3>1
    <3>4. after[i] \in S /\ Handled(after[i], i)
      BY <1>3, <3>2, <3>3
    <3> QED
      BY <3>1, <3>4
  <2> HIDE DEF T, n
  <2>3. \A i \in 0..n : after[i] \in T[i]
    BY <1>1, <2>1, <2>2, LoopProgress
  <2> QED
    BY <1>1, <2>3
<1>7. b = after[n]
  BY DEF HandleBatch, c, pending
<1>8. Handled(b, n)
  <2> HIDE DEF after
  <2> QED
    BY <1>1, <1>6, <1>7
<1>9. Awaits(c) => c.error = "none"
  BY <1>1 DEF Coherent, Own, Awaits
<1>10. Awaits(b) => b.want_ack /\ b.rxku_trigger_pn \in b.received
  BY <1>1, <1>8, <1>9 DEF Handled
<1> QED
  BY <1>1, <1>8, <1>10 DEF Handled, Confirms

-----------------------------------------------------------------------------
(***************************************************************************)
(* The steps of the system                                                 *)
(***************************************************************************)

\* There are two endpoints, each the peer of the other.
LEMMA PeerFacts ==
    ASSUME NEW e \in Ends
    PROVE  /\ Peer(e) \in Ends /\ Peer(e) # e /\ Peer(Peer(e)) = e
           /\ \A f \in Ends : f = e \/ f = Peer(e)
<1>1. IsFiniteSet(Ends) /\ Cardinality(Ends) = 2
  BY KeyUpdateAssumption
<1>2. IsFiniteSet(Ends \ {e}) /\ Cardinality(Ends \ {e}) = 1
  BY <1>1, FS_RemoveElement
<1>3. PICK f : Ends \ {e} = {f}
  BY <1>2, FS_Singleton
<1>4. f \in Ends /\ f # e /\ \A g \in Ends : g = e \/ g = f
  BY <1>3
<1>5. Peer(e) = f
  BY <1>4 DEF Peer
<1>6. Peer(f) = e
  BY <1>4 DEF Peer
<1> QED
  BY <1>4, <1>5, <1>6

\* What the invariant says of an endpoint and its peer.
LEMMA IInvCoherent ==
    ASSUME IInv, NEW e \in Ends
    PROVE  /\ Coherent(ch[e], net[e], ch[Peer(e)], net[Peer(e)])
           /\ Confirms(ch[e]) /\ Confirms(ch[Peer(e)])
           /\ ch[e].tx_epoch <= inits /\ ch[Peer(e)].tx_epoch <= inits
<1>1. Peer(e) \in Ends /\ Peer(Peer(e)) = e
  BY PeerFacts
<1> QED
  BY <1>1 DEF IInv, TypeOK, Coherent, NoPingPong

\* A step of e changes its channel and may add a packet; packets on the way to
\* it may disappear.
LEMMA StepKeeps ==
    ASSUME IInv, NEW e \in Ends, NEW b, NEW N, NEW M,
           Coherent(b, N, ch[Peer(e)], M), Confirms(b),
           ch' = [ch EXCEPT ![e] = b],
           net' = [net EXCEPT ![e] = N, ![Peer(e)] = M],
           inits' \in Nat, inits <= inits', b.tx_epoch <= inits'
    PROVE  IInv'
<1> DEFINE f == Peer(e)
<1>1. /\ f \in Ends /\ f # e /\ Peer(f) = e
      /\ \A g \in Ends : g = e \/ g = f
  BY PeerFacts
<1>2. /\ Coherent(ch[e], net[e], ch[f], net[f]) /\ Confirms(ch[f])
      /\ ch[f].tx_epoch <= inits
  BY IInvCoherent
<1>3. ch[f].tx_epoch \in Nat /\ inits \in Nat
  BY <1>2, CoherentTypes DEF IInv, TypeOK
<1>4. ch \in [Ends -> Channels] /\ net \in [Ends -> SUBSET Packets]
  BY DEF IInv, TypeOK
<1>5. b \in Channels /\ N \in SUBSET Packets /\ M \in SUBSET Packets
  BY DEF Coherent
<1> HIDE DEF f
<1>6. /\ ch'[e] = b /\ ch'[f] = ch[f] /\ net'[e] = N /\ net'[f] = M
      /\ ch' \in [Ends -> Channels] /\ net' \in [Ends -> SUBSET Packets]
  BY <1>1, <1>4, <1>5 DEF f
<1>7. TypeOK'
  BY <1>6 DEF TypeOK
<1>8. ASSUME NEW g \in Ends
      PROVE  /\ Own(ch'[g], net'[g]) /\ Confirms(ch'[g])
             /\ Link(ch'[g], net'[g], ch'[Peer(g)], net'[Peer(g)])
             /\ ch'[g].tx_epoch <= inits'
  <2>1. CASE g = e
    BY <1>6, <2>1 DEF Coherent, f
  <2>2. CASE g = f
    <3>1. Coherent(ch'[e], net'[e], ch'[f], net'[f]) /\ Confirms(ch'[f])
      BY <1>2, <1>6 DEF f
    <3>2. ch'[g].tx_epoch <= inits'
      BY <1>2, <1>3, <1>6, <2>2
    <3> QED
      BY <1>1, <2>2, <3>1, <3>2 DEF Coherent
  <2> QED
    BY <1>1, <2>1, <2>2
<1> QED
  BY <1>7, <1>8 DEF IInv, NoPingPong

\* SSL_key_update
LEMMA TriggerStep ==
    ASSUME IInv, NEW e \in Ends, ossl_quic_channel_trigger_txku(e)
    PROVE  IInv'
<1> DEFINE b == Initiated(ch[e])
<1>1. /\ Coherent(ch[e], net[e], ch[Peer(e)], net[Peer(e)])
      /\ Confirms(ch[e]) /\ ch[e].tx_epoch <= inits
  BY IInvCoherent
<1>2. /\ Coherent(b, net[e], ch[Peer(e)], net[Peer(e)]) /\ Confirms(b)
      /\ b.tx_epoch = ch[e].tx_epoch + 1
  BY <1>1, UpdateInitiated DEF ossl_quic_channel_trigger_txku
<1>3. ch' = [ch EXCEPT ![e] = b] /\ inits' = inits + 1 /\ net' = net
  BY DEF ossl_quic_channel_trigger_txku
<1> HIDE DEF b
<1>4. inits \in Nat /\ ch[e].tx_epoch \in Nat
  BY <1>1, CoherentTypes DEF IInv, TypeOK
<1>5. inits' \in Nat /\ inits <= inits' /\ b.tx_epoch <= inits'
  BY <1>1, <1>2, <1>3, <1>4
<1>6. net' = [net EXCEPT ![e] = net[e], ![Peer(e)] = net[Peer(e)]]
  BY <1>3 DEF IInv, TypeOK
<1> QED
  BY <1>2, <1>3, <1>5, <1>6, StepKeeps

\* What Becomes leaves of the packets.
LEMMA BecomesKeeps ==
    ASSUME IInv, NEW e \in Ends, NEW b,
           Coherent(b, net[e], ch[Peer(e)], net[Peer(e)]), Confirms(b),
           b.tx_epoch <= inits, Becomes(e, b), inits' = inits
    PROVE  IInv'
<1> DEFINE M == {p \in net[Peer(e)] : MayDecrypt(b, p)}
<1>1. M \in SUBSET net[Peer(e)]
  OBVIOUS
<1>2. Coherent(b, net[e], ch[Peer(e)], M)
  BY <1>1, PacketsLost
<1>3. /\ ch' = [ch EXCEPT ![e] = b]
      /\ net' = [net EXCEPT ![Peer(e)] = M]
  BY DEF Becomes
<1> HIDE DEF M
<1>4. net' = [net EXCEPT ![e] = net[e], ![Peer(e)] = M]
  BY <1>3 DEF IInv, TypeOK
<1>5. inits' \in Nat /\ inits <= inits' /\ b.tx_epoch <= inits'
  BY DEF IInv, TypeOK
<1> QED
  BY <1>2, <1>3, <1>4, <1>5, StepKeeps

\* A batch of packets.
LEMMA ReceiveStep ==
    ASSUME IInv, NEW e \in Ends, NEW batch \in Batches(e), Receive(e, batch)
    PROVE  IInv'
<1> DEFINE f == Peer(e)
           acc == ReadBatch(ch[e], batch)
           b == HandleBatch(acc.c, acc.pending)
<1>1. /\ Coherent(ch[e], net[e], ch[f], net[f]) /\ Confirms(ch[e])
      /\ ch[e].tx_epoch <= inits /\ ch[f].tx_epoch <= inits /\ inits \in Nat
  BY IInvCoherent DEF IInv, TypeOK
<1>2. Len(batch) \in Nat /\ \A i \in 1..Len(batch) : batch[i] \in net[f]
  <2>1. PICK n \in 0..MaxBatch : batch \in [1..n -> net[f]]
    BY DEF Batches
  <2>2. n \in Nat
    BY KeyUpdateAssumption
  <2>3. batch \in Seq(net[f]) /\ Len(batch) = n
    BY <2>1, <2>2
  <2> QED
    BY <2>1, <2>2, <2>3
<1>3. acc \in Readings(net[e], ch[f], net[f], inits)
  <2> HIDE DEF f
  <2> QED
    BY <1>1, <1>2, BatchRead
<1> HIDE DEF acc
<1>4. Coherent(b, net[e], ch[f], net[f]) /\ Confirms(b) /\ b.tx_epoch <= inits
  <2> HIDE DEF f
  <2> QED
    BY <1>1, <1>3, BatchHandled
<1>5. Becomes(e, b) /\ inits' = inits
  BY DEF Receive, acc
<1> HIDE DEF b
<1> QED
  BY <1>4, <1>5, BecomesKeeps

\* The old keys are given up.
LEMMA TickStep ==
    ASSUME IInv, NEW e \in Ends, ch_rxku_tick(e)
    PROVE  IInv'
<1> DEFINE b == [ch[e] EXCEPT !.rxku_in_progress = FALSE, !.updating = FALSE]
<1>1. /\ Coherent(ch[e], net[e], ch[Peer(e)], net[Peer(e)])
      /\ Confirms(ch[e]) /\ ch[e].tx_epoch <= inits
  BY IInvCoherent
<1>2. /\ Coherent(b, net[e], ch[Peer(e)], net[Peer(e)]) /\ Confirms(b)
      /\ b.tx_epoch = ch[e].tx_epoch
  <2> DEFINE c == ch[e]
             N == net[e]
             d == ch[Peer(e)]
             M == net[Peer(e)]
  <2>1. b = [c EXCEPT !.rxku_in_progress = FALSE, !.updating = FALSE]
    OBVIOUS
  <2>2. Coherent(c, N, d, M) /\ Confirms(c)
    BY <1>1
  <2>4. c.error = "none"
    BY DEF ch_rxku_tick
  <2> HIDE DEF b, c, N, d, M
  <2>3. Coherent(b, N, d, M) /\ Confirms(b) /\ b.tx_epoch = c.tx_epoch
    BY <2>1, <2>2, <2>4, OldKeysGone
  <2> QED
    BY <2>3 DEF c, N, d, M
<1>3. Becomes(e, b) /\ inits' = inits
  BY DEF ch_rxku_tick
<1> HIDE DEF b
<1> QED
  BY <1>1, <1>2, <1>3, BecomesKeeps

\* A packet is sent, under new keys or not.
LEMMA SendStep ==
    ASSUME IInv, NEW e \in Ends, NEW update \in BOOLEAN,
           NEW with_ack \in BOOLEAN, ch_tx(e, update, with_ack)
    PROVE  IInv'
<1> DEFINE f == Peer(e)
           c == IF update THEN Initiated(ch[e]) ELSE txku_in_progress(ch[e])
           p == SentPacket(c, with_ack)
           b == AfterSending(c, with_ack)
<1>1. /\ Coherent(ch[e], net[e], ch[f], net[f]) /\ Confirms(ch[e])
      /\ ch[e].tx_epoch <= inits /\ inits \in Nat
  BY IInvCoherent DEF IInv, TypeOK
<1>2. ch[e].tx_epoch \in Nat /\ ch[e] \in Channels
  BY <1>1, CoherentTypes DEF Coherent
<1>3. /\ Coherent(c, net[e], ch[f], net[f]) /\ Confirms(c)
      /\ inits' \in Nat /\ inits <= inits' /\ c.tx_epoch <= inits'
  <2> HIDE DEF f
  <2>1. CASE update
    <3>1. txku_allowed(ch[e]) /\ inits' = inits + 1 /\ ch[e].error = "none"
      BY <1>2, <2>1 DEF ch_tx, txku_recommendable, Initiated, ch_trigger_txku,
                        txku_in_progress, Channels
    <3>2. c = Initiated(ch[e])
      BY <2>1
    <3> HIDE DEF c
    <3>3. /\ Coherent(c, net[e], ch[f], net[f]) /\ Confirms(c)
          /\ c.tx_epoch = ch[e].tx_epoch + 1
      BY <1>1, <3>1, <3>2, UpdateInitiated
    <3> QED
      BY <1>1, <1>2, <3>1, <3>3
  <2>2. CASE ~update
    <3>1. inits' = inits
      BY <1>1, <2>2 DEF ch_tx
    <3>2. c = txku_in_progress(ch[e])
      BY <2>2
    <3>3. Confirms(c) /\ c.tx_epoch = ch[e].tx_epoch
      BY <1>1, <1>2, <2>2 DEF Confirms, Awaits, txku_in_progress, Channels
    <3> HIDE DEF c
    <3>4. Coherent(c, net[e], ch[f], net[f])
      BY <1>1, <3>2, ProgressNoted
    <3> QED
      BY <1>1, <3>1, <3>3, <3>4
  <2> QED
    BY <2>1, <2>2
<1>4. /\ net' = [net EXCEPT ![e] = net[e] \cup {p}]
      /\ ch' = [ch EXCEPT ![e] = b]
      /\ c.want_ack => with_ack
      /\ c.error = "none"
  BY DEF ch_tx, SentPacket, AfterSending
<1> HIDE DEF c
<1>5. /\ Coherent(b, net[e] \cup {p}, ch[f], net[f]) /\ Confirms(b)
      /\ b.tx_epoch = c.tx_epoch
  <2> DEFINE N == net[e]
             d == ch[f]
             M == net[f]
  <2>1. /\ Coherent(c, N, d, M) /\ Confirms(c) /\ (c.want_ack => with_ack)
        /\ c.error = "none"
    BY <1>3, <1>4
  <2> HIDE DEF N, d, M
  <2>2. /\ Coherent(b, N \cup {p}, d, M) /\ Confirms(b)
        /\ b.tx_epoch = c.tx_epoch
    BY <2>1, PacketSent
  <2> QED
    BY <2>2 DEF N, d, M
<1> HIDE DEF b, p
<1>6. net' = [net EXCEPT ![e] = net[e] \cup {p}, ![f] = net[f]]
  BY <1>4, PeerFacts DEF IInv, TypeOK
<1> QED
  BY <1>3, <1>4, <1>5, <1>6, StepKeeps

\* Every step keeps the invariant.
LEMMA NextKeeps ==
    ASSUME IInv, [Next]_vars
    PROVE  IInv'
<1>1. CASE UNCHANGED vars
  BY <1>1 DEF vars, IInv, TypeOK, NoPingPong
<1>2. CASE Next
  BY <1>2, TriggerStep, ReceiveStep, TickStep, SendStep DEF Next
<1> QED
  BY <1>1, <1>2

\* The handshake is confirmed on both sides, and nothing is on its way.
LEMMA InitKeeps ==
    ASSUME Init
    PROVE  IInv
<1>1. ASSUME NEW e \in Ends
      PROVE  /\ ch[e] = [next_pn |-> 1, tx_epoch |-> 0, largest_acked |-> 0,
                txku_in_progress |-> FALSE, txku_pn |-> 0,
                ku_locally_initiated |-> FALSE, rxku_expected |-> FALSE,
                rx_epoch |-> 0, updating |-> FALSE, cur_epoch_start_pn |-> 0,
                rxku_in_progress |-> FALSE, rxku_pending_confirm |-> FALSE,
                rxku_trigger_pn |-> 0, received |-> {0}, want_ack |-> FALSE,
                error |-> "none", omitted |-> FALSE]
             /\ net[e] = {}
  BY DEF Init
<1>2. TypeOK
  BY DEF Init, TypeOK, Channels
<1>3. ASSUME NEW e \in Ends
      PROVE  /\ Own(ch[e], net[e]) /\ Confirms(ch[e])
             /\ Link(ch[e], net[e], ch[Peer(e)], net[Peer(e)])
  <2>1. Peer(e) \in Ends
    BY PeerFacts
  <2>2. Own(ch[e], net[e]) /\ Confirms(ch[e])
    <3>1. /\ ch[e].ku_locally_initiated = FALSE /\ ch[e].rxku_expected = FALSE
          /\ ch[e].rxku_pending_confirm = FALSE /\ ch[e].error = "none"
          /\ ch[e].received = {0}
      BY <1>1
    <3>2. /\ ch[e].tx_epoch = ch[e].rx_epoch
          /\ ch[e].tx_epoch <= ch[e].rx_epoch + 1
          /\ ch[e].largest_acked >= ch[e].txku_pn
      BY <1>1
    <3> QED
      BY <3>1, <3>2 DEF Own, Confirms, Awaits
  <2>3. Link(ch[e], net[e], ch[Peer(e)], net[Peer(e)])
    BY <1>1, <2>1 DEF Link, Numbered, EpochsOrdered, Noticed, Triggered, Unconfirmed,
                      Awaits
  <2> QED
    BY <2>2, <2>3
<1>4. NoPingPong
  BY <1>1 DEF Init, NoPingPong
<1> QED
  BY <1>2, <1>3, <1>4 DEF IInv

\* What holds of both endpoints and of the packets between them, always.
THEOREM InductiveInvariant == Spec => []IInv
<1>1. Init => IInv
  BY InitKeeps
<1>2. IInv /\ [Next]_vars => IInv'
  BY NextKeeps
<1> QED
  BY <1>1, <1>2, PTL DEF Spec

\* Every variable keeps its type.
THEOREM TypeCorrect == Spec => []TypeOK
<1>1. IInv => TypeOK
  BY DEF IInv
<1> QED
  BY <1>1, InductiveInvariant, PTL

\* KEY_UPDATE_ERROR has one cause, whatever is lost, repeated or late, and
\* however many ranges a frame has: the endpoint's own ACK frame left out the
\* packet that brought the peer's last keys, and rxku_detected takes the next
\* ones for an update too soon.  ch_rx_handle_packet and depack_do_frame_ack
\* see no packet that they would take for a violation.
THEOREM ErrorHasOneCause == Spec => []ErrorOnlyAfterOmission
<1>1. IInv => ErrorOnlyAfterOmission
  BY DEF IInv, Own, ErrorOnlyAfterOmission
<1> QED
  BY <1>1, InductiveInvariant, PTL

\* The keys in use are at most one epoch ahead of those the peer can receive,
\* and never behind, so that the key phase bit stays unambiguous.
THEOREM KeyPhaseUnambiguous == Spec => []EpochsTrack
<1>1. ASSUME IInv PROVE EpochsTrack
  <2>1. ASSUME NEW e \in Ends
        PROVE  ch[Peer(e)].rx_epoch \in {ch[e].tx_epoch - 1, ch[e].tx_epoch}
    <3> DEFINE c == ch[e]
               d == ch[Peer(e)]
    <3>1. Coherent(c, net[e], d, net[Peer(e)])
      BY <1>1, IInvCoherent
    <3> HIDE DEF c, d
    <3>2. d.rx_epoch <= c.tx_epoch /\ c.tx_epoch <= d.rx_epoch + 1
      BY <3>1 DEF Coherent, Link, Noticed
    <3>3. d.rx_epoch \in Nat /\ c.tx_epoch \in Nat
      BY <3>1, CoherentTypes
    <3>4. d.rx_epoch = c.tx_epoch - 1 \/ d.rx_epoch = c.tx_epoch
      BY <3>2, <3>3
    <3> QED
      BY <3>4 DEF c, d
  <2> QED
    BY <2>1 DEF EpochsTrack
<1> QED
  BY <1>1, InductiveInvariant, PTL

\* An answer to a key update is not answered in turn.
THEOREM AnswersEnd == Spec => []NoPingPong
<1>1. IInv => NoPingPong
  BY DEF IInv
<1> QED
  BY <1>1, InductiveInvariant, PTL
===============================================================================
