------------------------------ MODULE QuicStream ------------------------------
(***************************************************************************)
(* One direction of a stream, end to end: the send stream (QuicSStream) of *)
(* one endpoint and the receive stream (QuicRStream) of the other, over a  *)
(* network that loses, delays, reorders and repeats packets.               *)
(*                                                                         *)
(* A packet declared lost may still arrive, and an acknowledged one may    *)
(* arrive again; a packet is acknowledged only once its frames were        *)
(* processed.  The frames of a packet are processed one at a time.         *)
(***************************************************************************)
EXTENDS Naturals, Sequences, FiniteSets

CONSTANTS MAX_OFFSET, MaxUint, InitBufSize, MaxWriteBufSize, MaxWrite,
          MaxChunks, MaxInFlight, MaxLosses

ASSUME StreamAssumption ==
    /\ MAX_OFFSET \in Nat /\ MaxUint \in Nat /\ MAX_OFFSET < MaxUint
    /\ MaxWriteBufSize \in Nat /\ InitBufSize \in 1..MaxWriteBufSize
    /\ MaxWrite \in Nat
    /\ MaxChunks \in Nat /\ MaxInFlight \in Nat /\ MaxLosses \in Nat

VARIABLES
    ring, new_set, acked_set, have_final_size, sent_final_size,
    acked_final_size, cleanse, pkts, losses,        \* The sender
    crypto, frames, offset, fin, head_locked, head_range, rbuf, recv_state,
    received, got,                                  \* The receiver
    net,            \* Frames ever sent
    rxed            \* Frames that have been received

S == INSTANCE QuicSStream WITH CryptoBufSize <- InitBufSize
R == INSTANCE QuicRStream WITH MaxRbufSize <- 0, size <- ring.head_offset,
                               is_crypto <- crypto

svars == <<ring, new_set, acked_set, have_final_size, sent_final_size,
           acked_final_size, cleanse, pkts, losses>>
rvars == <<crypto, frames, offset, fin, head_locked, head_range, rbuf,
           recv_state, received, got>>
vars == <<svars, rvars, net, rxed>>

Init ==
    /\ crypto = FALSE
    /\ S!Init
    /\ R!InitOf(0)
    /\ net = {}
    /\ rxed = {}

\* The writer's side.
Write(n) == S!Append_(n) /\ UNCHANGED <<rvars, net, rxed>>
Conclude == S!Fin /\ UNCHANGED <<rvars, net, rxed>>

Transmit ==
    /\ S!Transmit
    /\ net' = net \cup UNION {S!ChunksOf(p) : p \in pkts'}
    /\ UNCHANGED <<rvars, rxed>>

\* The frame c, sent at some time, arrives.
Deliver(c) ==
    LET n == R!Frame(c.start, (c.end + 1) % (MaxUint + 1), c.data)
    IN  /\ UNCHANGED <<svars, net>>
        /\ rxed' = rxed \cup {c}
        /\ R!RxFrame(n, c.has_fin) \/ R!RxIgnored(n, c.has_fin)

\* Mutant: a packet is acknowledged as soon as one of its frames is processed.
AckedTooEarly(p) ==
    /\ S!ChunksOf(p) \cap rxed # {}
    /\ S!OnAcked(p)
    /\ UNCHANGED <<rvars, net, rxed>>

\* The sender learns that a packet was received, or gives it up.
Acknowledge(p) ==
    /\ S!ChunksOf(p) \subseteq rxed
    /\ S!OnAcked(p)
    /\ UNCHANGED <<rvars, net, rxed>>

Lose(p) == S!OnLost(p) /\ UNCHANGED <<rvars, net, rxed>>

\* The reader's side.
Read(n) == UNCHANGED <<svars, net, rxed>> /\ R!Read(n)

Next ==
    \/ \E n \in 1..MaxWrite : Write(n)
    \/ Conclude
    \/ Transmit
    \/ \E c \in net : Deliver(c)
    \/ \E p \in pkts : Acknowledge(p) \/ Lose(p)
    \/ \E n \in 1..(MAX_OFFSET + 1) : Read(n)

Spec == Init /\ [][Next]_vars

(***************************************************************************)
(* Fairness: the packetiser is run while there is something to send; a     *)
(* packet that is not given up (which happens a bounded number of times)   *)
(* arrives and is acknowledged; the reader keeps reading.                  *)
(***************************************************************************)
FairSpec ==
    /\ Spec
    /\ WF_vars(Transmit)
    /\ WF_vars(\E p \in pkts : \E c \in S!ChunksOf(p) \ rxed : Deliver(c))
    /\ WF_vars(\E p \in pkts : Acknowledge(p))
    /\ WF_vars(Read(MAX_OFFSET + 1))

-----------------------------------------------------------------------------
(***************************************************************************)
(* Properties                                                              *)
(***************************************************************************)

BS == INSTANCE ByteStream WITH
        written <- ring.head_offset,
        concluded <- have_final_size,
        read <- got,
        eof <- recv_state = R!DATA_READ

\* What the reader sees is a reliable ordered byte stream: exactly the bytes
\* written, in order, and the end of the stream at the end only.
IsByteStream == BS!Spec

\* What the sender may forget the receiver has: every acknowledged byte was
\* received, and once the stream is totally acknowledged the receive part has
\* all of it and knows it (this is when the stream map frees the send buffer).
AckedWasReceived ==
    /\ acked_set \cap S!StreamBytes \subseteq received
    /\ have_final_size /\ S!ossl_quic_sstream_is_totally_acked =>
         recv_state \in {R!DATA_RECVD, R!DATA_READ}

\* The receiver's view of the end never contradicts the sender's: no byte
\* behind the final size arrives and a FIN only stands at it, so the receive
\* list's assertions hold for whatever the packetiser sends.
FinalSizeAgreed ==
    /\ R!InsertAsserts
    /\ recv_state # R!RECV => have_final_size
    /\ R!EndOfStream

\* Sender and receiver agree on what has arrived and where the stream ends, so
\* neither gives up state that the other still needs.
EndsAgree == AckedWasReceived /\ FinalSizeAgreed

\* A concluded stream is read to its end and acknowledged as a whole, whatever
\* is lost on the way: either side may free it.
EndIsReached ==
    have_final_size ~>
        recv_state = R!DATA_READ /\ S!ossl_quic_sstream_is_totally_acked
==============================================================================
