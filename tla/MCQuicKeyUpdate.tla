--------------------------- MODULE MCQuicKeyUpdate ----------------------------
(***************************************************************************)
(* An instance of QuicKeyUpdate: neither endpoint is special.              *)
(***************************************************************************)
EXTENDS QuicKeyUpdate, TLC

Swapped == Permutations(Ends)

===============================================================================
