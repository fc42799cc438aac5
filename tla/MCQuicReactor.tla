---------------------------- MODULE MCQuicReactor ----------------------------
(***************************************************************************)
(* An instance of QuicReactor: which thread waits for objects of which     *)
(* reactors.                                                               *)
(***************************************************************************)
EXTENDS QuicReactor

CONSTANTS t1, t2, t3, r1

\* Every thread waits for one object of the one reactor.
OneEach == [t \in Threads |-> <<r1>>]

\* A thread that calls SSL_poll does so for two objects of the reactor.
TwoPolled == [t \in Threads |-> IF t \in Pollers THEN <<r1, r1>> ELSE <<r1>>]

=============================================================================
