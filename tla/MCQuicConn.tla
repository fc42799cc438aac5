------------------------------ MODULE MCQuicConn ------------------------------
(***************************************************************************)
(* An instance of what a connection keeps about its packets and streams:   *)
(* the sending half of the ACK manager and the stream map.  The two share  *)
(* no state here; a behaviour is one of one of them.                       *)
(***************************************************************************)
EXTENDS QuicAckm, QuicStreamMap

VARIABLE part   \* The part that moves: "packets" or "streams"

MCInit ==
    /\ part \in {"packets", "streams"}
    /\ Init /\ (part # "packets" => ~is_server /\ ackm = ossl_ackm_new(FALSE))
    /\ MapInit /\ (part # "streams" => Streams = {0})

MCNext ==
    /\ UNCHANGED part
    /\ \/ part = "packets" /\ Next /\ UNCHANGED map_vars
       \/ part = "streams" /\ MapNext /\ UNCHANGED vars

MCSpec == MCInit /\ [][MCNext]_<<part, vars, map_vars>>

===============================================================================
