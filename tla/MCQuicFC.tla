------------------------------- MODULE MCQuicFC -------------------------------
(***************************************************************************)
(* Instances of the two bookkeepers of ranges and counts that everything   *)
(* else relies on: flow control, and the sets of 64-bit integers.          *)
(* They share no state; a behaviour is one of one of them.                 *)
(***************************************************************************)
EXTENDS QuicFC, UintSet

VARIABLE part   \* The part that moves: "fc" or "set"

set_vars == <<ranges, disjoint>>

MCInit == part \in {"fc", "set"} /\ Init /\ SetInit

MCNext ==
    /\ UNCHANGED part
    /\ \/ part = "fc" /\ Next /\ UNCHANGED set_vars
       \/ part = "set" /\ SetNext /\ UNCHANGED vars

MCSpec == MCInit /\ [][MCNext]_<<part, vars, set_vars>>

===============================================================================
