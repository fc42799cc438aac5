---------------------------- MODULE MCQuicStreams -----------------------------
(***************************************************************************)
(* An instance of what handles the parts of a packet one by one, each      *)
(* against its own environment: the send stream with the fate of its       *)
(* packets, the receive stream with any frames of a peer, and the          *)
(* receiving half of the ACK manager with any packets of a peer.  The      *)
(* three share no state; a behaviour is one of one of them.                *)
(***************************************************************************)
EXTENDS QuicSStream, QuicRStream, QuicAckmRx

\* The longest stream of a peer: there are far more orders in which frames can
\* arrive than there are in which they can be sent.
CONSTANT MaxRxSize

VARIABLE part   \* The part that moves: "send", "receive" or "acks"

MCInit ==
    /\ part \in {"send", "receive", "acks"}
    /\ Init /\ (part # "send" => ~crypto)
    /\ RsInit /\ IF part = "receive" THEN size <= MaxRxSize
                                     ELSE ~is_crypto /\ size = 0
    /\ RxInit

MCNext ==
    /\ UNCHANGED part
    /\ \/ part = "send" /\ Next /\ UNCHANGED <<rvars, rx_vars>>
       \/ part = "receive" /\ RsNext /\ UNCHANGED <<vars, rx_vars>>
       \/ part = "acks" /\ RxNext /\ UNCHANGED <<vars, rvars>>

MCSpec == MCInit /\ [][MCNext]_<<part, vars, rvars, rx_vars>>

===============================================================================
