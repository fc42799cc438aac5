------------------------------ MODULE ByteStream ------------------------------
(***************************************************************************)
(* What one direction of a QUIC stream promises its two applications (the  *)
(* contract of SSL_write_ex, SSL_stream_conclude and SSL_read_ex): a       *)
(* reliable, ordered stream of bytes with an end.                          *)
(*                                                                         *)
(* The byte written at offset o is o + 1.                                  *)
(***************************************************************************)
EXTENDS Naturals, Sequences

VARIABLES
    written,    \* Number of bytes the writer has written
    concluded,  \* The writer has concluded the stream
    read,       \* Bytes the reader has read, in order
    eof         \* The reader was told of the end of the stream

svars == <<written, concluded, read, eof>>

Init ==
    /\ written = 0
    /\ concluded = FALSE
    /\ read = <<>>
    /\ eof = FALSE

\* Any number of bytes is accepted, until the stream is concluded.
Write ==
    /\ ~concluded
    /\ written' \in Nat /\ written' >= written
    /\ UNCHANGED <<concluded, read, eof>>

Conclude ==
    /\ concluded' = TRUE
    /\ UNCHANGED <<written, read, eof>>

\* The reader gets the next bytes, and the end of the stream only once it has
\* them all.
ReadNext ==
    /\ ~eof
    /\ \E k \in Len(read)..written :
         /\ read' = [i \in 1..k |-> i]
         /\ eof' \in BOOLEAN
         /\ eof' => concluded /\ k = written
    /\ UNCHANGED <<written, concluded>>

Next == Write \/ Conclude \/ ReadNext

Spec == Init /\ [][Next]_svars
==============================================================================
