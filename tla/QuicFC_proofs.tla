---------------------------- MODULE QuicFC_proofs ----------------------------
(***************************************************************************)
(* Proofs about flow control, for any number of streams and any windows.   *)
(*                                                                         *)
(* The error that has to be excluded at the connection level is about the  *)
(* sum of all streams: rx[Conn].swm <= rx[Conn].cwm.  The inductive        *)
(* invariant therefore keeps sums over the streams: of the bytes spent but *)
(* not yet counted by the receiver, of the bytes counted but not yet read  *)
(* (Sums), and of the credit set aside for the packet under construction   *)
(* (Planned).  A sum is stated by its partial sums (SumIs), so that        *)
(* changing one summand needs no induction.                                *)
(***************************************************************************)
EXTENDS QuicFC, TLAPS

\* What the packet under construction will consume fits in the connection's
\* credit, and is what txp_generate_stream_related has counted so far.
Planned ==
    \E total \in Nat :
        /\ SumIs(plan, total)
        /\ tx[Conn].swm + total <= tx[Conn].cwm
        /\ ~committing => consumed = total

\* Per stream: bytes spent, counted and retired, bytes spent but not counted,
\* and bytes counted but not retired.
Spent == [s \in Streams |-> tx[s].swm]
Counted == [s \in Streams |-> rx[s].swm]
Retired == [s \in Streams |-> rx[s].rwm]
InFlight == [s \in Streams |-> tx[s].swm - rx[s].hwm]
Unread == [s \in Streams |-> rx[s].swm - rx[s].rwm]

\* The receiver counts at most what was sent, the application reads at most
\* what was counted, at both levels.
Ordered ==
    /\ \A s \in Streams : rx[s].swm = rx[s].hwm
    /\ \A c \in Ctl : rx[c].rwm <= rx[c].swm /\ rx[c].swm <= tx[c].swm

\* The connection's watermarks and their differences are sums over streams.
Sums ==
    /\ SumIs(Spent, tx[Conn].swm)
    /\ SumIs(Counted, rx[Conn].swm)
    /\ SumIs(Retired, rx[Conn].rwm)
    /\ SumIs(InFlight, tx[Conn].swm - rx[Conn].swm)
    /\ SumIs(Unread, rx[Conn].swm - rx[Conn].rwm)

\* Frames in flight never promise more than the receiver stands by.
AdvGranted == \A m \in adv : m.cwm <= rx[m.ctl].cwm

\* The transport parameters promise no more than the initial windows.
InitialGranted == \A c \in Ctl : InitWnd(c) <= rx[c].cwm

StreamCredit == \A s \in Streams : tx[s].swm + plan[s] <= tx[s].cwm

\* Once FIN or RESET_STREAM is sent the spent watermark is the final size.
FinalSizeFixed ==
    \A s \in Streams :
        /\ tx_fin[s] \/ tx_reset[s] => plan[s] = 0
        /\ rx[s].is_fin => /\ tx_fin[s] \/ tx_reset[s]
                           /\ rx[s].swm = tx[s].swm

WindowBounded ==
    \A c \in Ctl : rx[c].cwm - rx[c].rwm <= Greater(InitWnd(c), MaxWnd(c))

IInv ==
    /\ TypeOK
    /\ NoFlowControlError
    /\ CreditWasGranted
    /\ Planned
    /\ Ordered
    /\ Sums
    /\ AdvGranted
    /\ InitialGranted
    /\ StreamCredit
    /\ FinalSizeFixed
    /\ WindowBounded

-----------------------------------------------------------------------------
(***************************************************************************)
(* Sums over the streams                                                   *)
(***************************************************************************)

\* The sum of zeros is zero.
LEMMA SumZero ==
    ASSUME NEW f, \A s \in Streams : f[s] = 0
    PROVE  SumIs(f, 0)
<1>1. N \in Nat
  BY ConstantsAssumption
<1> DEFINE P == [n \in 0..N |-> 0]
<1>2. P \in [0..N -> 0..0]
  OBVIOUS
<1>3. /\ P[0] = 0 /\ P[N] = 0
      /\ \A n \in 1..N : P[n] = P[n - 1] + f[n]
      /\ \A m \in 0..N, n \in 0..N : m <= n => P[m] <= P[n]
  BY <1>1 DEF Streams
<1> HIDE DEF P
<1> QED
  BY <1>2, <1>3 DEF SumIs

\* Adding to one summand adds to the sum.
LEMMA SumAdd ==
    ASSUME NEW f, NEW g, NEW t \in Nat, NEW d \in Nat, NEW s \in Streams,
           \A u \in Streams : f[u] \in Nat,
           SumIs(f, t),
           g[s] = f[s] + d,
           \A u \in Streams : u # s => g[u] = f[u]
    PROVE  SumIs(g, t + d)
<1>0. N \in Nat
  BY ConstantsAssumption
<1>1. PICK P \in [0..N -> 0..t] :
        /\ P[0] = 0
        /\ P[N] = t
        /\ \A n \in 1..N : P[n] = P[n - 1] + f[n]
        /\ \A m \in 0..N, n \in 0..N : m <= n => P[m] <= P[n]
  BY DEF SumIs
<1> DEFINE Q == [n \in 0..N |-> IF n < s THEN P[n] ELSE P[n] + d]
<1>s. s \in 1..N
  BY DEF Streams
<1>p. \A n \in 0..N : P[n] \in Nat /\ P[n] <= t
  BY <1>1, <1>0
<1>2. Q \in [0..N -> 0..(t + d)]
  <2>1. \A n \in 0..N : Q[n] \in 0..(t + d)
    BY <1>p, <1>0, <1>s
  <2> QED
    BY <2>1
<1>3. Q[0] = 0 /\ Q[N] = t + d
  BY <1>0, <1>1, <1>s
<1>4. \A n \in 1..N : Q[n] = Q[n - 1] + g[n]
  <2> TAKE n \in 1..N
  <2>1. n - 1 \in 0..N /\ n \in 0..N
    BY <1>0
  <2>2. P[n] = P[n - 1] + f[n] /\ P[n] \in Nat /\ P[n - 1] \in Nat
    BY <1>1, <1>p, <2>1
  <2>f. f[n] \in Nat
    BY DEF Streams
  <2>3. CASE n = s
    BY <2>1, <2>2, <2>3, <2>f, <1>s, <1>0
  <2>4. CASE n # s
    <3>1. g[n] = f[n]
      BY <2>4 DEF Streams
    <3> QED
      BY <2>1, <2>2, <2>4, <2>f, <3>1, <1>s, <1>0
  <2> QED
    BY <2>3, <2>4
<1>5. \A m \in 0..N, n \in 0..N : m <= n => Q[m] <= Q[n]
  BY <1>0, <1>1, <1>s, <1>p
<1> HIDE DEF Q
<1> QED
  BY <1>2, <1>3, <1>4, <1>5 DEF SumIs

\* Subtracting from one summand subtracts from the sum, which is large enough.
LEMMA SumSub ==
    ASSUME NEW f, NEW g, NEW t \in Nat, NEW d \in Nat, NEW s \in Streams,
           \A u \in Streams : f[u] \in Nat,
           SumIs(f, t),
           d <= f[s],
           g[s] = f[s] - d,
           \A u \in Streams : u # s => g[u] = f[u]
    PROVE  d <= t /\ SumIs(g, t - d)
<1>0. N \in Nat
  BY ConstantsAssumption
<1>1. PICK P \in [0..N -> 0..t] :
        /\ P[0] = 0
        /\ P[N] = t
        /\ \A n \in 1..N : P[n] = P[n - 1] + f[n]
        /\ \A m \in 0..N, n \in 0..N : m <= n => P[m] <= P[n]
  BY DEF SumIs
<1> DEFINE Q == [n \in 0..N |-> IF n < s THEN P[n] ELSE P[n] - d]
<1>s. s \in 1..N /\ s - 1 \in 0..N /\ s \in 0..N /\ f[s] \in Nat
  BY <1>0 DEF Streams
<1>p. \A n \in 0..N : P[n] \in Nat /\ P[n] <= t
  BY <1>1, <1>0
<1>q. P[s] = P[s - 1] + f[s] /\ P[s] \in Nat /\ P[s - 1] \in Nat
  BY <1>1, <1>s, <1>p
<1>hi. \A n \in 0..N : n >= s => P[s] <= P[n]
  BY <1>1, <1>s, <1>0
<1>lo. \A n \in 0..N : n < s => P[n] <= P[s - 1]
  BY <1>1, <1>s, <1>0
<1>d. d <= t
  BY <1>q, <1>p, <1>s
<1>2. Q \in [0..N -> 0..(t - d)]
  <2>1. ASSUME NEW n \in 0..N PROVE Q[n] \in 0..(t - d)
    <3>1. P[n] \in Nat /\ P[n] <= t
      BY <1>p
    <3>2. CASE n < s
      <4>1. P[n] <= P[s - 1]
        BY <3>2, <1>lo
      <4>2. P[s] <= t
        BY <1>p, <1>s
      <4> QED
        BY <3>1, <3>2, <4>1, <4>2, <1>q, <1>s
    <3>3. CASE ~(n < s)
      <4>1. P[s] <= P[n]
        BY <3>3, <1>hi, <1>s, <1>0
      <4> QED
        BY <3>1, <3>3, <4>1, <1>q, <1>s
    <3> QED
      BY <3>2, <3>3
  <2> QED
    BY <2>1
<1>3. Q[0] = 0 /\ Q[N] = t - d
  BY <1>0, <1>1, <1>s
<1>4. \A n \in 1..N : Q[n] = Q[n - 1] + g[n]
  <2> TAKE n \in 1..N
  <2>1. n - 1 \in 0..N /\ n \in 0..N
    BY <1>0
  <2>2. P[n] = P[n - 1] + f[n] /\ P[n] \in Nat /\ P[n - 1] \in Nat
    BY <1>1, <1>p, <2>1
  <2>f. f[n] \in Nat
    BY DEF Streams
  <2>3. CASE n = s
    BY <2>1, <2>2, <2>3, <2>f, <1>s, <1>0
  <2>4. CASE n # s
    <3>1. g[n] = f[n]
      BY <2>4 DEF Streams
    <3>2. CASE n < s
      <4>1. Q[n] = P[n] /\ Q[n - 1] = P[n - 1]
        BY <2>1, <3>2, <1>s
      <4> QED
        BY <4>1, <2>2, <3>1
    <3>3. CASE n > s
      <4>1. Q[n] = P[n] - d /\ Q[n - 1] = P[n - 1] - d
        BY <2>1, <3>3, <1>s
      <4> QED
        BY <4>1, <2>2, <2>f, <3>1
    <3> QED
      BY <2>1, <2>4, <3>2, <3>3, <1>s, <1>0
  <2> QED
    BY <2>3, <2>4
<1>5. \A m \in 0..N, n \in 0..N : m <= n => Q[m] <= Q[n]
  <2> TAKE m \in 0..N, n \in 0..N
  <2> HAVE m <= n
  <2>1. P[m] <= P[n] /\ P[m] \in Nat /\ P[n] \in Nat
    BY <1>1, <1>p
  <2>2. CASE m < s /\ n >= s
    <3>1. P[m] <= P[s - 1] /\ P[s] <= P[n]
      BY <2>2, <1>lo, <1>hi
    <3> QED
      BY <2>1, <2>2, <3>1, <1>q, <1>s
  <2>3. CASE ~(m < s /\ n >= s)
    BY <2>1, <2>3, <1>s, <1>0
  <2> QED
    BY <2>2, <2>3
<1> HIDE DEF Q
<1> QED
  BY <1>2, <1>3, <1>4, <1>5, <1>d DEF SumIs

\* Equal summands, equal sums.
LEMMA SumSame ==
    ASSUME NEW f, NEW g, NEW t, SumIs(f, t),
           \A u \in Streams : g[u] = f[u]
    PROVE  SumIs(g, t)
<1>1. PICK P \in [0..N -> 0..t] :
        /\ P[0] = 0
        /\ P[N] = t
        /\ \A n \in 1..N : P[n] = P[n - 1] + f[n]
        /\ \A m \in 0..N, n \in 0..N : m <= n => P[m] <= P[n]
  BY DEF SumIs
<1>2. \A n \in 1..N : P[n] = P[n - 1] + g[n]
  BY <1>1 DEF Streams
<1> QED
  BY <1>1, <1>2 DEF SumIs

-----------------------------------------------------------------------------
(***************************************************************************)
(* The operations on controllers                                           *)
(***************************************************************************)

\* Retiring bytes: only the retired watermark, the credit watermark, the
\* window and the epoch change, credit is never taken back, and new credit is
\* counted from what was read, within the largest window.
LEMMA RetireLemma ==
    ASSUME NEW f \in QUIC_RXFC, NEW n \in Nat, NEW lo \in Nat, NEW hi \in Nat,
           NEW grow
    PROVE  LET g == rxfc_on_retire(f, n, lo, hi, grow)
           IN  /\ g \in QUIC_RXFC
               /\ g.swm = f.swm /\ g.hwm = f.hwm /\ g.rwm = f.rwm + n
               /\ g.is_fin = f.is_fin /\ g.error_code = f.error_code
               /\ g.cwm >= f.cwm
               /\ g.cwm = f.cwm \/ g.cwm - g.rwm <= hi
<1> DEFINE e == [f EXCEPT !.rwm = @ + n]
           a == rxfc_adjust_window_size(e, lo, hi, grow)
           g == rxfc_update_cwm(e, lo, hi, grow)
<1>1. /\ e \in QUIC_RXFC
      /\ e.swm = f.swm /\ e.hwm = f.hwm /\ e.rwm = f.rwm + n /\ e.cwm = f.cwm
      /\ e.is_fin = f.is_fin /\ e.error_code = f.error_code
  BY DEF QUIC_RXFC
<1> HIDE DEF e
<1>2. /\ a \in QUIC_RXFC
      /\ a.swm = e.swm /\ a.hwm = e.hwm /\ a.rwm = e.rwm /\ a.cwm = e.cwm
      /\ a.is_fin = e.is_fin /\ a.error_code = e.error_code
      /\ a.cur_window_size <= hi
  <2> DEFINE w == Lesser(Greater(IF grow /\ e.rwm # e.esrwm
                                 THEN 2 * e.cur_window_size
                                 ELSE e.cur_window_size, lo), hi)
             b == [e EXCEPT !.cur_window_size = w]
  <2>1. a = [b EXCEPT !.esrwm = e.rwm]
    BY Zenon DEF rxfc_adjust_window_size
  <2>2. e.cur_window_size \in Nat /\ e.rwm \in Nat
    BY <1>1 DEF QUIC_RXFC
  <2>3. w \in Nat /\ w <= hi
    BY <2>2 DEF Lesser, Greater
  <2> HIDE DEF w
  <2>4. /\ b \in QUIC_RXFC
        /\ b.swm = e.swm /\ b.hwm = e.hwm /\ b.rwm = e.rwm /\ b.cwm = e.cwm
        /\ b.is_fin = e.is_fin /\ b.error_code = e.error_code
        /\ b.cur_window_size = w
    BY <1>1, <2>3 DEF QUIC_RXFC
  <2> HIDE DEF a, b
  <2> QED
    BY <2>1, <2>2, <2>3, <2>4 DEF QUIC_RXFC
<1> DEFINE b == [a EXCEPT !.cwm = a.rwm + a.cur_window_size]
<1>3. g = IF ~rxfc_cwm_bump_desired(e)
          THEN e
          ELSE IF a.rwm + a.cur_window_size > a.cwm
               THEN [b EXCEPT !.has_cwm_changed = TRUE]
               ELSE a
  BY Zenon DEF rxfc_update_cwm
<1> HIDE DEF a
<1>b. /\ b \in QUIC_RXFC
      /\ b.swm = a.swm /\ b.hwm = a.hwm /\ b.rwm = a.rwm
      /\ b.is_fin = a.is_fin /\ b.error_code = a.error_code
      /\ b.cwm = a.rwm + a.cur_window_size
      /\ b.cur_window_size = a.cur_window_size
  BY <1>2 DEF QUIC_RXFC
<1> HIDE DEF b
<1> HIDE DEF g
<1>4. /\ g \in QUIC_RXFC
      /\ g.swm = f.swm /\ g.hwm = f.hwm /\ g.rwm = f.rwm + n
      /\ g.is_fin = f.is_fin /\ g.error_code = f.error_code
      /\ g.cwm >= f.cwm
      /\ g.cwm = f.cwm \/ g.cwm - g.rwm <= hi
  <2>1. CASE ~rxfc_cwm_bump_desired(e)
    BY <2>1, <1>1, <1>3 DEF QUIC_RXFC
  <2>2. CASE rxfc_cwm_bump_desired(e) /\ a.rwm + a.cur_window_size > a.cwm
    <3>1. g = [b EXCEPT !.has_cwm_changed = TRUE]
      BY <2>2, <1>3
    <3>2. /\ g \in QUIC_RXFC
          /\ g.swm = b.swm /\ g.hwm = b.hwm /\ g.rwm = b.rwm /\ g.cwm = b.cwm
          /\ g.is_fin = b.is_fin /\ g.error_code = b.error_code
      BY <3>1, <1>b DEF QUIC_RXFC
    <3>3. f.cwm \in Nat /\ a.rwm \in Nat /\ a.cur_window_size \in Nat
      BY <1>2 DEF QUIC_RXFC
    <3> QED
      BY <2>2, <3>2, <3>3, <1>1, <1>2, <1>b
  <2>3. CASE rxfc_cwm_bump_desired(e) /\ ~(a.rwm + a.cur_window_size > a.cwm)
    BY <2>3, <1>1, <1>2, <1>3 DEF QUIC_RXFC
  <2> QED
    BY <2>1, <2>2, <2>3
<1>5. rxfc_on_retire(f, n, lo, hi, grow) = g
  BY Zenon DEF rxfc_on_retire, g, e
<1> QED
  BY <1>4, <1>5

\* Spending credit that is there.
LEMMA ConsumeLemma ==
    ASSUME NEW f \in QUIC_TXFC, NEW n \in Nat, f.swm + n <= f.cwm
    PROVE  LET g == ossl_quic_txfc_consume_credit_local(f, n)
           IN  g \in QUIC_TXFC /\ g.swm = f.swm + n /\ g.cwm = f.cwm
<1>1. f.swm \in Nat /\ f.cwm \in Nat
  BY DEF QUIC_TXFC
<1>2. Lesser(n, ossl_quic_txfc_get_credit_local(f, 0)) = n
  BY <1>1 DEF Lesser, ossl_quic_txfc_get_credit_local
<1>3. ossl_quic_txfc_consume_credit_local(f, n) = [f EXCEPT !.swm = f.swm + n]
  BY <1>2, Zenon DEF ossl_quic_txfc_consume_credit_local
<1> QED
  BY <1>1, <1>3 DEF QUIC_TXFC

\* Raising the credit watermark never lowers it.
LEMMA BumpLemma ==
    ASSUME NEW f \in QUIC_TXFC, NEW v \in Nat
    PROVE  LET g == ossl_quic_txfc_bump_cwm(f, v)
           IN  /\ g \in QUIC_TXFC /\ g.swm = f.swm
               /\ g.cwm >= f.cwm /\ (g.cwm = f.cwm \/ g.cwm = v)
BY DEF QUIC_TXFC, ossl_quic_txfc_bump_cwm

\* Counting bytes for which there is credit is not an error.
LEMMA CountLemma ==
    ASSUME NEW f \in QUIC_RXFC, NEW n \in Nat, f.swm + n <= f.cwm
    PROVE  LET g == on_rx_controlled_bytes(f, n)
           IN  /\ g \in QUIC_RXFC /\ g.swm = f.swm + n
               /\ g.cwm = f.cwm /\ g.rwm = f.rwm /\ g.hwm = f.hwm
               /\ g.is_fin = f.is_fin /\ g.error_code = f.error_code
<1>1. f.swm \in Nat /\ f.cwm \in Nat
  BY DEF QUIC_RXFC
<1>2. ~(n > f.cwm - f.swm)
  BY <1>1
<1>3. on_rx_controlled_bytes(f, n) = [f EXCEPT !.swm = f.swm + n]
  BY <1>2, Zenon DEF on_rx_controlled_bytes
<1> QED
  BY <1>1, <1>3 DEF QUIC_RXFC

-----------------------------------------------------------------------------
(***************************************************************************)
(* Inductiveness                                                           *)
(***************************************************************************)

\* Connection and streams are the controllers.
LEMMA CtlLemma ==
    /\ Conn \in Ctl
    /\ \A s \in Streams : s \in Ctl /\ s # Conn /\ s \in Nat
    /\ \A c \in Ctl : c = Conn \/ c \in Streams
BY ConstantsAssumption DEF Conn, Ctl, Streams

\* Steps that move no watermark keep the sums.
LEMMA SumsUnchanged ==
    ASSUME Sums,
           \A c \in Ctl : /\ tx'[c].swm = tx[c].swm
                          /\ rx'[c].swm = rx[c].swm
                          /\ rx'[c].hwm = rx[c].hwm
                          /\ rx'[c].rwm = rx[c].rwm
    PROVE  Sums'
<1>1. /\ \A s \in Streams : Spent'[s] = Spent[s]
      /\ \A s \in Streams : Counted'[s] = Counted[s]
      /\ \A s \in Streams : Retired'[s] = Retired[s]
      /\ \A s \in Streams : InFlight'[s] = InFlight[s]
      /\ \A s \in Streams : Unread'[s] = Unread[s]
  BY CtlLemma DEF Spent, Counted, Retired, InFlight, Unread
<1>2. /\ tx'[Conn].swm = tx[Conn].swm
      /\ rx'[Conn].swm = rx[Conn].swm
      /\ rx'[Conn].rwm = rx[Conn].rwm
  BY CtlLemma
<1>3. SumIs(Spent', tx[Conn].swm)
  BY <1>1, SumSame DEF Sums
<1>4. SumIs(Counted', rx[Conn].swm)
  BY <1>1, SumSame DEF Sums
<1>5. SumIs(Retired', rx[Conn].rwm)
  BY <1>1, SumSame DEF Sums
<1>6. SumIs(InFlight', tx[Conn].swm - rx[Conn].swm)
  BY <1>1, SumSame DEF Sums
<1>7. SumIs(Unread', rx[Conn].swm - rx[Conn].rwm)
  BY <1>1, SumSame DEF Sums
<1> QED
  BY <1>2, <1>3, <1>4, <1>5, <1>6, <1>7 DEF Sums

\* The initial states satisfy the inductive invariant.
LEMMA InitIInv == Init => IInv
<1> SUFFICES ASSUME Init PROVE IInv
  OBVIOUS
<1> USE ConstantsAssumption
<1>1. /\ \A c \in Ctl : tx[c] \in QUIC_TXFC /\ tx[c].swm = 0 /\ tx[c].cwm = 0
      /\ tx \in [Ctl -> QUIC_TXFC]
  BY DEF Init, QUIC_TXFC, ossl_quic_txfc_init
<1>2. \A c \in Ctl : InitWnd(c) \in Nat
  BY DEF InitWnd
<1>3. \A c \in Ctl : ossl_quic_rxfc_init(c) \in QUIC_RXFC
  BY <1>2 DEF ossl_quic_rxfc_init, QUIC_RXFC
<1>4. \A c \in Ctl : rx[c] = ossl_quic_rxfc_init(c)
  BY DEF Init
<1>5. \A c \in Ctl : /\ rx[c].swm = 0 /\ rx[c].hwm = 0 /\ rx[c].rwm = 0
                     /\ rx[c].cwm = InitWnd(c) /\ rx[c].is_fin = FALSE
                     /\ rx[c].error_code = NO_ERROR
  <2> TAKE c \in Ctl
  <2>1. rx[c] = ossl_quic_rxfc_init(c)
    BY <1>4
  <2>2. /\ rx[c].swm = 0 /\ rx[c].hwm = 0 /\ rx[c].rwm = 0
        /\ rx[c].cwm = InitWnd(c) /\ rx[c].error_code = NO_ERROR
    BY <2>1 DEF ossl_quic_rxfc_init
  <2>3. ossl_quic_rxfc_init(c).is_fin = FALSE
    BY DEF ossl_quic_rxfc_init
  <2> QED
    BY <2>1, <2>2, <2>3
<1>6. rx \in [Ctl -> QUIC_RXFC]
  BY <1>3 DEF Init
<1>7. TypeOK
  BY <1>1, <1>6 DEF Init, TypeOK
<1>8. NoFlowControlError
  BY <1>5 DEF Init, NoFlowControlError
<1>9. CreditWasGranted
  BY <1>1, <1>2, <1>5 DEF CreditWasGranted
<1>10. Planned
  <2>1. SumIs(plan, 0)
    BY SumZero DEF Init
  <2> QED
    BY <2>1, <1>1, CtlLemma DEF Init, Planned
<1>11. Ordered
  BY <1>1, <1>5, CtlLemma DEF Ordered
<1>12. Sums
  <2>1. /\ \A s \in Streams : Spent[s] = 0
        /\ \A s \in Streams : Counted[s] = 0
        /\ \A s \in Streams : Retired[s] = 0
        /\ \A s \in Streams : InFlight[s] = 0
        /\ \A s \in Streams : Unread[s] = 0
    BY <1>1, <1>5, CtlLemma DEF Spent, Counted, Retired, InFlight, Unread
  <2>2. /\ SumIs(Spent, 0) /\ SumIs(Counted, 0) /\ SumIs(Retired, 0)
        /\ SumIs(InFlight, 0) /\ SumIs(Unread, 0)
    BY <2>1, SumZero
  <2>3. /\ tx[Conn].swm = 0 /\ rx[Conn].swm = 0 /\ rx[Conn].rwm = 0
        /\ tx[Conn].swm - rx[Conn].swm = 0 /\ rx[Conn].swm - rx[Conn].rwm = 0
    BY <1>1, <1>5, CtlLemma
  <2> QED
    BY <2>2, <2>3 DEF Sums
<1>13. AdvGranted
  BY DEF Init, AdvGranted
<1>14. StreamCredit
  BY <1>1, CtlLemma DEF Init, StreamCredit
<1>15. FinalSizeFixed
  BY <1>5, CtlLemma DEF Init, FinalSizeFixed
<1>16. WindowBounded
  <2>1. \A c \in Ctl : MaxWnd(c) \in Nat
    BY DEF MaxWnd
  <2> QED
    BY <1>2, <1>5, <2>1 DEF WindowBounded, Greater
<1>17. InitialGranted
  BY <1>2, <1>5 DEF InitialGranted
<1> QED
  BY <1>7, <1>8, <1>9, <1>10, <1>11, <1>12, <1>13, <1>14, <1>15, <1>16, <1>17
     DEF IInv

\* Natural-valued fields of the controllers.
LEMMA FieldTypes ==
    ASSUME TypeOK, NEW c \in Ctl
    PROVE  /\ tx[c] \in QUIC_TXFC /\ rx[c] \in QUIC_RXFC
           /\ tx[c].swm \in Nat /\ tx[c].cwm \in Nat
           /\ rx[c].swm \in Nat /\ rx[c].cwm \in Nat /\ rx[c].rwm \in Nat
           /\ rx[c].hwm \in Nat
           /\ InitWnd(c) \in Nat /\ MaxWnd(c) \in Nat
<1>1. tx[c] \in QUIC_TXFC /\ rx[c] \in QUIC_RXFC
  BY DEF TypeOK
<1>2. InitWnd(c) \in Nat /\ MaxWnd(c) \in Nat
  BY ConstantsAssumption DEF InitWnd, MaxWnd
<1> QED
  BY <1>1, <1>2 DEF QUIC_TXFC, QUIC_RXFC

\* The transport parameters arrive.
LEMMA TransportParamsStep == IInv /\ OnTransportParams => IInv'
<1> SUFFICES ASSUME IInv, OnTransportParams PROVE IInv'
  OBVIOUS
<1>t. TypeOK
  BY DEF IInv
<1>1. \A c \in Ctl : /\ tx'[c] \in QUIC_TXFC /\ tx'[c].swm = tx[c].swm
                     /\ tx'[c].cwm >= tx[c].cwm
                     /\ tx'[c].cwm = tx[c].cwm \/ tx'[c].cwm = InitWnd(c)
  <2> TAKE c \in Ctl
  <2>1. tx'[c] = ossl_quic_txfc_bump_cwm(tx[c], InitWnd(c))
    BY DEF OnTransportParams
  <2>2. tx[c] \in QUIC_TXFC /\ InitWnd(c) \in Nat
    BY <1>t, FieldTypes
  <2> QED
    BY <2>1, <2>2, BumpLemma
<1>2. tx' \in [Ctl -> QUIC_TXFC]
  BY <1>1 DEF OnTransportParams
<1>3. /\ rx' = rx /\ plan' = plan /\ consumed' = consumed
      /\ committing' = committing /\ tx_fin' = tx_fin /\ tx_reset' = tx_reset
      /\ rx_aborted' = rx_aborted /\ want' = want /\ adv' = adv
      /\ terminated' = terminated /\ losses' = losses /\ got_tp' = TRUE
  BY DEF OnTransportParams, receiver
<1>4. \A c \in Ctl : tx'[c].cwm \in Nat
  BY <1>1 DEF QUIC_TXFC
<1>5. TypeOK'
  BY <1>t, <1>2, <1>3 DEF TypeOK
<1>6. NoFlowControlError'
  BY <1>3 DEF IInv, NoFlowControlError
<1>7. CreditWasGranted'
  BY <1>1, <1>3 DEF IInv, CreditWasGranted, InitialGranted
<1>8. Planned'
  <2>1. PICK total \in Nat : /\ SumIs(plan, total)
                             /\ tx[Conn].swm + total <= tx[Conn].cwm
                             /\ ~committing => consumed = total
    BY DEF IInv, Planned
  <2>2. tx'[Conn].swm + total <= tx'[Conn].cwm
    BY <2>1, <1>1, <1>4, <1>t, CtlLemma, FieldTypes
  <2> QED
    BY <2>1, <2>2, <1>3 DEF Planned
<1>9. Ordered'
  BY <1>1, <1>3, CtlLemma DEF IInv, Ordered
<1>10. Sums'
  BY <1>1, <1>3, SumsUnchanged DEF IInv
<1>11. AdvGranted' /\ InitialGranted' /\ WindowBounded'
  BY <1>3 DEF IInv, AdvGranted, InitialGranted, WindowBounded
<1>12. StreamCredit'
  <2> SUFFICES ASSUME NEW s \in Streams
               PROVE  tx'[s].swm + plan'[s] <= tx'[s].cwm
    BY DEF StreamCredit
  <2>1. tx[s].swm + plan[s] <= tx[s].cwm
    BY DEF IInv, StreamCredit
  <2>2. s \in Ctl /\ plan[s] \in Nat
    BY <1>t, CtlLemma DEF TypeOK
  <2> QED
    BY <2>1, <2>2, <1>1, <1>3, <1>4, <1>t, FieldTypes
<1>13. FinalSizeFixed'
  BY <1>1, <1>3, CtlLemma DEF IInv, FinalSizeFixed
<1> QED
  BY <1>5, <1>6, <1>7, <1>8, <1>9, <1>10, <1>11, <1>12, <1>13 DEF IInv

\* The packetiser plans new bytes of one stream.
LEMMA GenerateStep ==
    ASSUME NEW s \in Streams, NEW n \in 1..MaxSize, IInv,
           GenerateStreamFrames(s, n)
    PROVE  IInv'
<1>n. n \in Nat
  BY ConstantsAssumption
<1>t. TypeOK
  BY DEF IInv
<1>1. /\ rx' = rx /\ tx' = tx /\ got_tp' = got_tp
      /\ committing' = committing /\ tx_fin' = tx_fin /\ tx_reset' = tx_reset
      /\ rx_aborted' = rx_aborted /\ want' = want /\ adv' = adv
      /\ terminated' = terminated /\ losses' = losses
      /\ plan' = [plan EXCEPT ![s] = n] /\ consumed' = consumed + n
      /\ ~committing /\ plan[s] = 0 /\ ~tx_fin[s] /\ ~tx_reset[s]
      /\ n <= ossl_quic_txfc_get_credit(s, consumed)
  BY DEF GenerateStreamFrames, receiver
<1>2. plan \in [Streams -> Nat] /\ consumed \in Nat
  BY <1>t DEF TypeOK
<1>3. plan' \in [Streams -> Nat] /\ consumed' \in Nat
  BY <1>1, <1>2, <1>n
<1>4. /\ tx[s].swm \in Nat /\ tx[s].cwm \in Nat
      /\ tx[Conn].swm \in Nat /\ tx[Conn].cwm \in Nat
  BY <1>t, FieldTypes, CtlLemma
<1>5. tx[s].swm + n <= tx[s].cwm /\ tx[Conn].swm + (consumed + n) <= tx[Conn].cwm
  BY <1>1, <1>2, <1>4, <1>n
     DEF ossl_quic_txfc_get_credit, ossl_quic_txfc_get_credit_local, Lesser
<1>6. TypeOK'
  BY <1>t, <1>1, <1>3 DEF TypeOK
<1>7. Planned'
  <2>1. SumIs(plan, consumed)
    BY <1>1 DEF IInv, Planned
  <2>2. \A u \in Streams : plan[u] \in Nat
    BY <1>2
  <2>3. plan'[s] = plan[s] + n /\ \A u \in Streams : u # s => plan'[u] = plan[u]
    BY <1>1, <1>2, <1>n
  <2>4. SumIs(plan', consumed + n)
    BY <2>1, <2>2, <2>3, <1>2, <1>n, SumAdd
  <2> QED
    BY <2>4, <1>1, <1>3, <1>5 DEF Planned
<1>8. Sums'
  BY <1>1, SumsUnchanged DEF IInv
<1>9. StreamCredit' /\ FinalSizeFixed'
  BY <1>1, <1>2, <1>5 DEF IInv, StreamCredit, FinalSizeFixed
<1>10. /\ NoFlowControlError' /\ CreditWasGranted' /\ Ordered' /\ AdvGranted'
       /\ InitialGranted' /\ WindowBounded'
  BY <1>1 DEF IInv, NoFlowControlError, CreditWasGranted, Ordered, AdvGranted,
              InitialGranted, WindowBounded
<1> QED
  BY <1>6, <1>7, <1>8, <1>9, <1>10 DEF IInv

\* The credit planned for one stream is consumed at both levels.
LEMMA CommitStep ==
    ASSUME NEW s \in Streams, IInv, CommitStream(s)
    PROVE  IInv'
<1> DEFINE d == plan[s]
<1>t. TypeOK
  BY DEF IInv
<1>c. s \in Ctl /\ Conn \in Ctl /\ s # Conn
  BY CtlLemma
<1>1. /\ rx' = rx /\ got_tp' = got_tp
      /\ tx_fin' = tx_fin /\ tx_reset' = tx_reset
      /\ rx_aborted' = rx_aborted /\ want' = want /\ adv' = adv
      /\ terminated' = terminated /\ losses' = losses
      /\ plan' = [plan EXCEPT ![s] = 0] /\ d > 0
      /\ committing' = \E u \in Streams : plan'[u] > 0
      /\ consumed' = IF committing' THEN consumed ELSE 0
      /\ tx' = [tx EXCEPT ![s] = ossl_quic_txfc_consume_credit_local(@, d),
                          ![Conn] = ossl_quic_txfc_consume_credit_local(@, d)]
  BY DEF CommitStream, receiver, ossl_quic_txfc_consume_credit
<1>2. plan \in [Streams -> Nat] /\ consumed \in Nat /\ d \in Nat
  BY <1>t DEF TypeOK
<1>3. plan' \in [Streams -> Nat] /\ consumed' \in Nat /\ committing' \in BOOLEAN
  BY <1>1, <1>2
<1>4. PICK total \in Nat : /\ SumIs(plan, total)
                           /\ tx[Conn].swm + total <= tx[Conn].cwm
  BY DEF IInv, Planned
<1>5. d <= total /\ SumIs(plan', total - d)
  <2>1. \A u \in Streams : plan[u] \in Nat
    BY <1>2
  <2>2. plan'[s] = plan[s] - d /\ \A u \in Streams : u # s => plan'[u] = plan[u]
    BY <1>1, <1>2
  <2> QED
    BY <2>1, <2>2, <1>2, <1>4, SumSub
<1>6. tx[s].swm + d <= tx[s].cwm /\ tx[Conn].swm + d <= tx[Conn].cwm
  <2>1. tx[Conn].swm \in Nat /\ tx[Conn].cwm \in Nat
    BY <1>t, <1>c, FieldTypes
  <2>2. tx[s].swm + d <= tx[s].cwm
    BY DEF IInv, StreamCredit
  <2> QED
    BY <2>1, <2>2, <1>2, <1>4, <1>5
<1>7. /\ tx'[s] = ossl_quic_txfc_consume_credit_local(tx[s], d)
      /\ tx'[Conn] = ossl_quic_txfc_consume_credit_local(tx[Conn], d)
      /\ \A c \in Ctl : c # s /\ c # Conn => tx'[c] = tx[c]
  BY <1>1, <1>c, <1>t DEF TypeOK
<1>8. /\ tx'[s] \in QUIC_TXFC /\ tx'[s].swm = tx[s].swm + d
      /\ tx'[s].cwm = tx[s].cwm
  <2>1. tx[s] \in QUIC_TXFC
    BY <1>t, <1>c, FieldTypes
  <2> QED
    BY <2>1, <1>2, <1>6, <1>7, ConsumeLemma
<1>9. /\ tx'[Conn] \in QUIC_TXFC /\ tx'[Conn].swm = tx[Conn].swm + d
      /\ tx'[Conn].cwm = tx[Conn].cwm
  <2>1. tx[Conn] \in QUIC_TXFC
    BY <1>t, <1>c, FieldTypes
  <2> QED
    BY <2>1, <1>2, <1>6, <1>7, ConsumeLemma
<1>10. \A c \in Ctl : /\ tx'[c].cwm = tx[c].cwm
                      /\ tx'[c].swm \in Nat /\ tx'[c].swm >= tx[c].swm
  BY <1>2, <1>7, <1>8, <1>9, <1>t, FieldTypes DEF QUIC_TXFC
<1>11. TypeOK'
  <2>1. tx' \in [Ctl -> QUIC_TXFC]
    <3>1. \A c \in Ctl : tx'[c] \in QUIC_TXFC
      BY <1>7, <1>8, <1>9, <1>t, FieldTypes
    <3>2. tx' = [c \in Ctl |-> tx'[c]]
      BY <1>1, <1>t DEF TypeOK
    <3> QED
      BY <3>1, <3>2
  <2> QED
    BY <2>1, <1>t, <1>1, <1>3 DEF TypeOK
<1>12. Planned'
  <2>1. tx[Conn].swm \in Nat /\ tx[Conn].cwm \in Nat
    BY <1>t, <1>c, FieldTypes
  <2>2. CASE committing'
    <3>1. total - d \in Nat
      BY <1>2, <1>5
    <3>2. tx'[Conn].swm + (total - d) <= tx'[Conn].cwm
      BY <2>1, <1>2, <1>4, <1>5, <1>9
    <3> QED
      BY <2>2, <3>1, <3>2, <1>5 DEF Planned
  <2>3. CASE ~committing'
    <3>1. \A u \in Streams : plan'[u] = 0
      BY <2>3, <1>1, <1>3
    <3>2. SumIs(plan', 0)
      BY <3>1, SumZero
    <3>3. tx'[Conn].swm + 0 <= tx'[Conn].cwm
      BY <2>1, <1>2, <1>6, <1>9
    <3>4. consumed' = 0
      BY <2>3, <1>1
    <3> QED
      BY <3>2, <3>3, <3>4 DEF Planned
  <2> QED
    BY <2>2, <2>3
<1>13. Sums'
  <2>1. /\ Spent'[s] = Spent[s] + d
        /\ \A u \in Streams : Spent[u] \in Nat
        /\ \A u \in Streams : u # s => Spent'[u] = Spent[u]
    BY <1>7, <1>8, <1>t, FieldTypes, CtlLemma DEF Spent
  <2>o. /\ \A u \in Streams : rx[u].hwm <= tx[u].swm
        /\ rx[Conn].swm <= tx[Conn].swm
    BY <1>c, CtlLemma DEF IInv, Ordered
  <2>2. /\ InFlight'[s] = InFlight[s] + d
        /\ \A u \in Streams : InFlight[u] \in Nat
        /\ \A u \in Streams : u # s => InFlight'[u] = InFlight[u]
    <3>1. tx[s].swm \in Nat /\ rx[s].hwm \in Nat
      BY <1>t, <1>c, FieldTypes
    <3>2. InFlight'[s] = InFlight[s] + d
      BY <3>1, <1>1, <1>2, <1>8 DEF InFlight
    <3>3. \A u \in Streams : InFlight[u] \in Nat
      <4> TAKE u \in Streams
      <4>1. tx[u].swm \in Nat /\ rx[u].hwm \in Nat
        BY <1>t, CtlLemma, FieldTypes
      <4> QED
        BY <4>1, <2>o DEF InFlight
    <3>4. \A u \in Streams : u # s => InFlight'[u] = InFlight[u]
      <4> TAKE u \in Streams
      <4> HAVE u # s
      <4>1. tx'[u] = tx[u] /\ rx'[u] = rx[u]
        BY <1>1, <1>7, CtlLemma
      <4> QED
        BY <4>1 DEF InFlight
    <3> QED
      BY <3>2, <3>3, <3>4
  <2>3. tx[Conn].swm \in Nat /\ rx[Conn].swm \in Nat
    BY <1>t, <1>c, FieldTypes
  <2>4. SumIs(Spent', tx[Conn].swm + d)
    <3>1. SumIs(Spent, tx[Conn].swm)
      BY DEF IInv, Sums
    <3> QED
      BY <3>1, <2>1, <2>3, <1>2, SumAdd
  <2>5. SumIs(InFlight', (tx[Conn].swm - rx[Conn].swm) + d)
    <3>1. SumIs(InFlight, tx[Conn].swm - rx[Conn].swm)
      BY DEF IInv, Sums
    <3>2. tx[Conn].swm - rx[Conn].swm \in Nat
      BY <2>3, <2>o
    <3> QED
      BY <3>1, <3>2, <2>2, <1>2, SumAdd
  <2>6. (tx[Conn].swm - rx[Conn].swm) + d = tx'[Conn].swm - rx'[Conn].swm
    BY <2>3, <1>1, <1>2, <1>9
  <2>7. Counted' = Counted /\ Retired' = Retired /\ Unread' = Unread
    BY <1>1 DEF Counted, Retired, Unread
  <2> QED
    BY <2>4, <2>5, <2>6, <2>7, <1>1, <1>9 DEF IInv, Sums
<1>14. Ordered'
  <2>1. \A c \in Ctl : rx[c].swm <= tx'[c].swm
    <3> TAKE c \in Ctl
    <3>1. rx[c].swm <= tx[c].swm /\ rx[c].swm \in Nat /\ tx[c].swm \in Nat
      BY <1>t, FieldTypes DEF IInv, Ordered
    <3> QED
      BY <3>1, <1>10
  <2> QED
    BY <2>1, <1>1 DEF IInv, Ordered
<1>15. CreditWasGranted'
  BY <1>1, <1>10 DEF IInv, CreditWasGranted
<1>16. StreamCredit'
  <2> SUFFICES ASSUME NEW u \in Streams
               PROVE  tx'[u].swm + plan'[u] <= tx'[u].cwm
    BY DEF StreamCredit
  <2>1. CASE u = s
    <3>1. tx[s].swm \in Nat
      BY <1>t, <1>c, FieldTypes
    <3> QED
      BY <2>1, <3>1, <1>1, <1>2, <1>6, <1>8
  <2>2. CASE u # s
    BY <2>2, <1>1, <1>2, <1>7, CtlLemma DEF IInv, StreamCredit
  <2> QED
    BY <2>1, <2>2
<1>17. FinalSizeFixed'
  <2> SUFFICES ASSUME NEW u \in Streams
               PROVE  /\ tx_fin'[u] \/ tx_reset'[u] => plan'[u] = 0
                      /\ rx'[u].is_fin => /\ tx_fin'[u] \/ tx_reset'[u]
                                          /\ rx'[u].swm = tx'[u].swm
    BY DEF FinalSizeFixed
  <2>1. /\ tx_fin[u] \/ tx_reset[u] => plan[u] = 0
        /\ rx[u].is_fin => (tx_fin[u] \/ tx_reset[u]) /\ rx[u].swm = tx[u].swm
    BY DEF IInv, FinalSizeFixed
  <2>2. CASE u = s
    BY <2>1, <2>2, <1>1, <1>2
  <2>3. CASE u # s
    <3>1. plan'[u] = plan[u] /\ tx'[u] = tx[u]
      BY <2>3, <1>1, <1>2, <1>7, CtlLemma
    <3> QED
      BY <2>1, <3>1, <1>1
  <2> QED
    BY <2>2, <2>3
<1>18. NoFlowControlError' /\ AdvGranted' /\ InitialGranted' /\ WindowBounded'
  BY <1>1 DEF IInv, NoFlowControlError, AdvGranted, InitialGranted, WindowBounded
<1> QED
  BY <1>11, <1>12, <1>13, <1>14, <1>15, <1>16, <1>17, <1>18 DEF IInv

\* FIN or RESET_STREAM is sent on a stream, or a credit frame is declared
\* lost: no watermark moves.
LEMMA QuietStep ==
    ASSUME IInv,
           \/ \E s \in Streams : SendFin(s) \/ ResetStream(s)
           \/ \E m \in adv, chunk \in BOOLEAN : LoseMaxData(m, chunk)
    PROVE  IInv'
<1>t. TypeOK
  BY DEF IInv
<1>1. /\ rx' = rx /\ tx' = tx /\ plan' = plan /\ consumed' = consumed
      /\ committing' = committing /\ got_tp' = got_tp
      /\ rx_aborted' = rx_aborted /\ terminated' = terminated
  BY DEF SendFin, ResetStream, LoseMaxData, receiver, sender
<1>2. TypeOK'
  <2>1. tx_fin' \in [Streams -> BOOLEAN] /\ tx_reset' \in [Streams -> BOOLEAN]
    BY <1>t DEF TypeOK, SendFin, ResetStream, LoseMaxData, sender
  <2>2. want' \in [Ctl -> BOOLEAN] /\ losses' \in Nat
    <3>1. want \in [Ctl -> BOOLEAN] /\ losses \in Nat
      BY <1>t DEF TypeOK
    <3>2. CASE \E s \in Streams : SendFin(s) \/ ResetStream(s)
      <4>1. want' = want /\ losses' = losses
        BY <3>2 DEF SendFin, ResetStream, receiver
      <4> QED
        BY <3>1, <4>1
    <3>3. CASE \E m \in adv, chunk \in BOOLEAN : LoseMaxData(m, chunk)
      <4>1. PICK m \in adv, chunk \in BOOLEAN : LoseMaxData(m, chunk)
        BY <3>3
      <4>2. /\ want' = [want EXCEPT ![m.ctl] = TRUE] \/ want' = want
            /\ losses' = losses + 1
        BY <4>1 DEF LoseMaxData
      <4>3. want' \in [Ctl -> BOOLEAN]
        BY <3>1, <4>2, Zenon
      <4>4. losses' \in Nat
        BY <3>1, <4>2
      <4> QED
        BY <4>3, <4>4
    <3> QED
      BY <3>2, <3>3
  <2>3. \A m \in adv' : m \in CreditFrame
    BY <1>t DEF TypeOK, SendFin, ResetStream, LoseMaxData
  <2> QED
    BY <2>1, <2>2, <2>3, <1>t, <1>1 DEF TypeOK
<1>3. Planned'
  BY <1>1 DEF IInv, Planned
<1>4. Sums'
  BY <1>1, SumsUnchanged DEF IInv
<1>5. AdvGranted'
  BY <1>1 DEF IInv, AdvGranted, SendFin, ResetStream, LoseMaxData
<1>6. FinalSizeFixed'
  <2> SUFFICES ASSUME NEW u \in Streams
               PROVE  /\ tx_fin'[u] \/ tx_reset'[u] => plan[u] = 0
                      /\ tx_fin[u] => tx_fin'[u]
                      /\ tx_reset[u] => tx_reset'[u]
    BY <1>1 DEF IInv, FinalSizeFixed
  <2>0. /\ tx_fin \in [Streams -> BOOLEAN] /\ tx_reset \in [Streams -> BOOLEAN]
        /\ tx_fin[u] \/ tx_reset[u] => plan[u] = 0
    BY <1>t DEF TypeOK, IInv, FinalSizeFixed
  <2>1. CASE \E s \in Streams : SendFin(s) \/ ResetStream(s)
    <3>1. plan[u] = 0
      BY <2>1 DEF SendFin, ResetStream, NoPacket
    <3>2. PICK s \in Streams : SendFin(s) \/ ResetStream(s)
      BY <2>1
    <3>3. /\ tx_fin' = [tx_fin EXCEPT ![s] = TRUE] \/ tx_fin' = tx_fin
          /\ tx_reset' = [tx_reset EXCEPT ![s] = TRUE] \/ tx_reset' = tx_reset
      BY <3>2 DEF SendFin, ResetStream
    <3>4. (tx_fin[u] => tx_fin'[u]) /\ (tx_reset[u] => tx_reset'[u])
      BY <3>3, <2>0
    <3> QED
      BY <3>1, <3>4
  <2>2. CASE \E m \in adv, chunk \in BOOLEAN : LoseMaxData(m, chunk)
    BY <2>0, <2>2 DEF LoseMaxData, sender
  <2> QED
    BY <2>1, <2>2
<1>7. /\ NoFlowControlError' /\ CreditWasGranted' /\ Ordered'
      /\ InitialGranted' /\ StreamCredit' /\ WindowBounded'
  BY <1>1 DEF IInv, NoFlowControlError, CreditWasGranted, Ordered,
              InitialGranted, StreamCredit, WindowBounded
<1> QED
  BY <1>2, <1>3, <1>4, <1>5, <1>6, <1>7 DEF IInv

\* A credit frame arrives.
LEMMA RxMaxDataStep ==
    ASSUME NEW m \in adv, IInv, RxMaxData(m)
    PROVE  IInv'
<1>t. TypeOK
  BY DEF IInv
<1>m. m.ctl \in Ctl /\ m.cwm \in Nat
  BY <1>t DEF TypeOK, CreditFrame
<1>1. /\ rx' = rx /\ plan' = plan /\ consumed' = consumed
      /\ committing' = committing /\ tx_fin' = tx_fin /\ tx_reset' = tx_reset
      /\ rx_aborted' = rx_aborted /\ want' = want /\ adv' = adv
      /\ terminated' = terminated /\ losses' = losses /\ got_tp' = got_tp
      /\ tx' = [tx EXCEPT ![m.ctl] = ossl_quic_txfc_bump_cwm(@, m.cwm)]
  BY DEF RxMaxData, receiver
<1>2. \A c \in Ctl : /\ tx'[c] \in QUIC_TXFC /\ tx'[c].swm = tx[c].swm
                     /\ tx'[c].cwm >= tx[c].cwm
                     /\ \/ tx'[c].cwm = tx[c].cwm
                        \/ c = m.ctl /\ tx'[c].cwm = m.cwm
  <2> TAKE c \in Ctl
  <2>1. tx[c] \in QUIC_TXFC /\ tx[c].cwm \in Nat
    BY <1>t, FieldTypes
  <2>2. CASE c = m.ctl
    <3>1. tx'[c] = ossl_quic_txfc_bump_cwm(tx[c], m.cwm)
      BY <2>2, <1>1, <1>t DEF TypeOK
    <3> QED
      BY <3>1, <2>1, <2>2, <1>m, BumpLemma
  <2>3. CASE c # m.ctl
    <3>1. tx'[c] = tx[c]
      BY <2>3, <1>1, <1>m, <1>t DEF TypeOK
    <3> QED
      BY <3>1, <2>1
  <2> QED
    BY <2>2, <2>3
<1>3. tx' \in [Ctl -> QUIC_TXFC]
  <2>1. tx' = [c \in Ctl |-> tx'[c]]
    BY <1>1, <1>t DEF TypeOK
  <2> QED
    BY <2>1, <1>2
<1>4. \A c \in Ctl : tx'[c].cwm \in Nat
  BY <1>2 DEF QUIC_TXFC
<1>5. TypeOK'
  BY <1>t, <1>1, <1>3 DEF TypeOK
<1>6. CreditWasGranted'
  BY <1>1, <1>2 DEF IInv, CreditWasGranted, AdvGranted
<1>7. Planned'
  <2>1. PICK total \in Nat : /\ SumIs(plan, total)
                             /\ tx[Conn].swm + total <= tx[Conn].cwm
                             /\ ~committing => consumed = total
    BY DEF IInv, Planned
  <2>2. tx'[Conn].swm + total <= tx'[Conn].cwm
    BY <2>1, <1>2, <1>4, <1>t, CtlLemma, FieldTypes
  <2> QED
    BY <2>1, <2>2, <1>1 DEF Planned
<1>8. Sums'
  BY <1>1, <1>2, SumsUnchanged DEF IInv
<1>9. StreamCredit'
  <2> SUFFICES ASSUME NEW s \in Streams
               PROVE  tx'[s].swm + plan'[s] <= tx'[s].cwm
    BY DEF StreamCredit
  <2>1. tx[s].swm + plan[s] <= tx[s].cwm
    BY DEF IInv, StreamCredit
  <2>2. s \in Ctl /\ plan[s] \in Nat
    BY <1>t, CtlLemma DEF TypeOK
  <2> QED
    BY <2>1, <2>2, <1>1, <1>2, <1>4, <1>t, FieldTypes
<1>10. Ordered' /\ FinalSizeFixed'
  BY <1>1, <1>2, CtlLemma DEF IInv, Ordered, FinalSizeFixed
<1>11. NoFlowControlError' /\ AdvGranted' /\ InitialGranted' /\ WindowBounded'
  BY <1>1 DEF IInv, NoFlowControlError, AdvGranted, InitialGranted, WindowBounded
<1> QED
  BY <1>5, <1>6, <1>7, <1>8, <1>9, <1>10, <1>11 DEF IInv

\* A credit frame is sent.
LEMMA TxMaxDataStep ==
    ASSUME NEW c \in Ctl, IInv, TxMaxData(c)
    PROVE  IInv'
<1>t. TypeOK
  BY DEF IInv
<1>1. /\ tx' = tx /\ plan' = plan /\ consumed' = consumed
      /\ committing' = committing /\ tx_fin' = tx_fin /\ tx_reset' = tx_reset
      /\ rx_aborted' = rx_aborted
      /\ terminated' = terminated /\ losses' = losses /\ got_tp' = got_tp
      /\ rx' = [rx EXCEPT ![c].has_cwm_changed = FALSE]
      /\ adv' = adv \cup {[ctl |-> c, cwm |-> rx[c].cwm]}
      /\ want' = [want EXCEPT ![c] = FALSE]
  BY DEF TxMaxData, sender
<1>2. \A k \in Ctl : /\ rx'[k] \in QUIC_RXFC
                     /\ rx'[k].swm = rx[k].swm /\ rx'[k].hwm = rx[k].hwm
                     /\ rx'[k].rwm = rx[k].rwm /\ rx'[k].cwm = rx[k].cwm
                     /\ rx'[k].is_fin = rx[k].is_fin
                     /\ rx'[k].error_code = rx[k].error_code
  <2> TAKE k \in Ctl
  <2>1. rx[k] \in QUIC_RXFC
    BY <1>t, FieldTypes
  <2>2. CASE k = c
    <3>1. rx'[k] = [rx[k] EXCEPT !.has_cwm_changed = FALSE]
      BY <2>2, <1>1, <1>t DEF TypeOK
    <3> QED
      BY <3>1, <2>1 DEF QUIC_RXFC
  <2>3. CASE k # c
    BY <2>1, <2>3, <1>1, <1>t DEF TypeOK
  <2> QED
    BY <2>2, <2>3
<1>3. TypeOK'
  <2>1. rx' = [k \in Ctl |-> rx'[k]]
    BY <1>1, <1>t DEF TypeOK
  <2>2. rx' \in [Ctl -> QUIC_RXFC]
    BY <2>1, <1>2
  <2>3. [ctl |-> c, cwm |-> rx[c].cwm] \in CreditFrame
    BY <1>t, FieldTypes DEF CreditFrame
  <2> QED
    BY <2>2, <2>3, <1>t, <1>1 DEF TypeOK
<1>4. AdvGranted'
  <2> SUFFICES ASSUME NEW m \in adv' PROVE m.cwm <= rx'[m.ctl].cwm
    BY DEF AdvGranted
  <2>1. CASE m \in adv
    <3>1. m.ctl \in Ctl
      BY <2>1, <1>t DEF TypeOK, CreditFrame
    <3> QED
      BY <2>1, <3>1, <1>2 DEF IInv, AdvGranted
  <2>2. CASE m = [ctl |-> c, cwm |-> rx[c].cwm]
    <3>1. rx[c].cwm \in Nat /\ m.ctl = c /\ m.cwm = rx[c].cwm
      BY <2>2, <1>t, FieldTypes
    <3> QED
      BY <3>1, <1>2
  <2> QED
    BY <2>1, <2>2, <1>1
<1>5. Sums'
  BY <1>1, <1>2, SumsUnchanged DEF IInv
<1>6. Planned' /\ StreamCredit'
  BY <1>1 DEF IInv, Planned, StreamCredit
<1>7. /\ NoFlowControlError' /\ CreditWasGranted' /\ InitialGranted'
      /\ WindowBounded'
  BY <1>1, <1>2 DEF IInv, NoFlowControlError, CreditWasGranted, InitialGranted,
                    WindowBounded
<1>8. Ordered' /\ FinalSizeFixed'
  BY <1>1, <1>2, CtlLemma DEF IInv, Ordered, FinalSizeFixed
<1> QED
  BY <1>3, <1>4, <1>5, <1>6, <1>7, <1>8 DEF IInv

\* A STREAM or RESET_STREAM frame that the sender did send is counted.
LEMMA CountStep ==
    ASSUME NEW s \in Streams, NEW end \in Nat, NEW is_fin \in BOOLEAN, IInv,
           end <= tx[s].swm,
           is_fin => end = tx[s].swm /\ (tx_fin[s] \/ tx_reset[s]),
           Count(s, end, is_fin),
           UNCHANGED <<sender, want, adv, losses>>,
           rx_aborted' \in [Streams -> BOOLEAN]
    PROVE  IInv'
<1> DEFINE f == rx[s]
           d == end - f.hwm
           g == [f EXCEPT !.is_fin = f.is_fin \/ is_fin]
           h == [g EXCEPT !.hwm = end]
<1>t. TypeOK
  BY DEF IInv
<1>c. s \in Ctl /\ Conn \in Ctl /\ s # Conn
  BY CtlLemma
<1>1. /\ tx' = tx /\ plan' = plan /\ consumed' = consumed
      /\ committing' = committing /\ tx_fin' = tx_fin /\ tx_reset' = tx_reset
      /\ want' = want /\ adv' = adv /\ losses' = losses /\ got_tp' = got_tp
  BY DEF sender
<1>2. /\ f \in QUIC_RXFC /\ f.swm \in Nat /\ f.hwm \in Nat /\ f.cwm \in Nat
      /\ f.swm = f.hwm /\ f.swm <= tx[s].swm
      /\ f.is_fin \in BOOLEAN /\ f.is_fin => f.swm = tx[s].swm
      /\ f.is_fin => tx_fin[s] \/ tx_reset[s]
      /\ tx[s].swm \in Nat
  <2>1. f \in QUIC_RXFC /\ f.swm \in Nat /\ f.hwm \in Nat /\ f.cwm \in Nat
    BY <1>t, <1>c, FieldTypes
  <2>2. f.is_fin \in BOOLEAN
    BY <2>1 DEF QUIC_RXFC
  <2>3. f.swm = f.hwm /\ f.swm <= tx[s].swm
    BY <1>c DEF IInv, Ordered
  <2>4. /\ f.is_fin => f.swm = tx[s].swm
        /\ f.is_fin => tx_fin[s] \/ tx_reset[s]
    BY DEF IInv, FinalSizeFixed
  <2>5. tx[s].swm \in Nat
    BY <1>t, <1>c, FieldTypes
  <2> QED
    BY <2>1, <2>2, <2>3, <2>4, <2>5
<1>3. ~SizeChanged(f, end, is_fin)
  <2>1. f.is_fin => ~(end > f.hwm)
    BY <1>2
  <2>2. f.is_fin /\ is_fin => end = f.hwm
    BY <1>2
  <2> QED
    BY <2>1, <2>2, Zenon DEF SizeChanged
<1>4. ~(end < f.hwm /\ is_fin)
  BY <1>2
<1>5. /\ g \in QUIC_RXFC /\ g.is_fin = (f.is_fin \/ is_fin)
      /\ g.swm = f.swm /\ g.cwm = f.cwm /\ g.rwm = f.rwm /\ g.hwm = f.hwm
      /\ g.error_code = f.error_code
  BY <1>2 DEF QUIC_RXFC
<1> HIDE DEF g
<1>6. /\ h \in QUIC_RXFC /\ h.is_fin = g.is_fin /\ h.hwm = end
      /\ h.swm = g.swm /\ h.cwm = g.cwm /\ h.rwm = g.rwm
      /\ h.error_code = g.error_code
  BY <1>5 DEF QUIC_RXFC
<1> HIDE DEF h
<1>7. CASE end > f.hwm
  <2>1. rx' = [rx EXCEPT ![s] = on_rx_controlled_bytes(h, d),
                         ![Conn] = on_rx_controlled_bytes(@, d)]
    BY <1>3, <1>7, Zenon DEF Count, ossl_quic_rxfc_on_rx_stream_frame, g, h
  <2>2. d \in Nat
    BY <1>2, <1>7
  <2>3. h.swm + d <= h.cwm /\ h.swm + d = end
    <3>1. tx[s].swm <= tx[s].cwm
      <4>1. tx[s].swm + plan[s] <= tx[s].cwm /\ plan[s] \in Nat
        BY <1>t DEF IInv, StreamCredit, TypeOK
      <4>2. tx[s].swm \in Nat /\ tx[s].cwm \in Nat
        BY <1>t, <1>c, FieldTypes
      <4> QED
        BY <4>1, <4>2
    <3>2. tx[s].cwm <= f.cwm /\ tx[s].cwm \in Nat
      BY <1>t, <1>c, FieldTypes DEF IInv, CreditWasGranted
    <3> QED
      BY <3>1, <3>2, <1>2, <1>5, <1>6, <1>7
  <2>4. /\ \A u \in Streams : InFlight[u] \in Nat
        /\ InFlight[s] = tx[s].swm - f.hwm
    <3>1. \A u \in Streams : InFlight[u] \in Nat
      <4> TAKE u \in Streams
      <4>1. tx[u].swm \in Nat /\ rx[u].hwm \in Nat
        BY <1>t, CtlLemma, FieldTypes
      <4>2. rx[u].hwm <= tx[u].swm
        BY CtlLemma DEF IInv, Ordered
      <4> QED
        BY <4>1, <4>2 DEF InFlight
    <3> QED
      BY <3>1 DEF InFlight
  <2>5. /\ tx[Conn].swm \in Nat /\ tx[Conn].cwm \in Nat
        /\ rx[Conn].swm \in Nat /\ rx[Conn].cwm \in Nat
        /\ rx[Conn].swm <= tx[Conn].swm
        /\ tx[Conn].swm - rx[Conn].swm \in Nat
    BY <1>t, <1>c, FieldTypes DEF IInv, Ordered
  <2> DEFINE rest == [InFlight EXCEPT ![s] = @ - d]
  <2>6. /\ rest[s] = InFlight[s] - d
        /\ \A u \in Streams : u # s => rest[u] = InFlight[u]
    BY DEF InFlight
  <2>7. /\ d <= tx[Conn].swm - rx[Conn].swm
        /\ SumIs(rest, (tx[Conn].swm - rx[Conn].swm) - d)
    <3>1. d <= InFlight[s]
      BY <2>4, <1>2, <1>7
    <3>2. SumIs(InFlight, tx[Conn].swm - rx[Conn].swm)
      BY DEF IInv, Sums
    <3> HIDE DEF d, rest
    <3> QED
      BY <3>1, <3>2, <2>2, <2>4, <2>5, <2>6, SumSub
  <2>8. rx[Conn].swm + d <= rx[Conn].cwm /\ rx[Conn].swm + d <= tx[Conn].swm
    <3>1. PICK total \in Nat : tx[Conn].swm + total <= tx[Conn].cwm
      BY DEF IInv, Planned
    <3>2. tx[Conn].cwm <= rx[Conn].cwm
      BY <1>c DEF IInv, CreditWasGranted
    <3> QED
      BY <2>2, <2>5, <2>7, <3>1, <3>2
  <2>9. /\ rx'[s] = on_rx_controlled_bytes(h, d)
        /\ rx'[Conn] = on_rx_controlled_bytes(rx[Conn], d)
        /\ \A c \in Ctl : c # s /\ c # Conn => rx'[c] = rx[c]
    BY <2>1, <1>c, <1>t DEF TypeOK
  <2> HIDE DEF d
  <2>10. /\ rx'[s] \in QUIC_RXFC /\ rx'[s].swm = end /\ rx'[s].hwm = end
         /\ rx'[s].cwm = f.cwm /\ rx'[s].rwm = f.rwm
         /\ rx'[s].is_fin = (f.is_fin \/ is_fin)
         /\ rx'[s].error_code = f.error_code
    <3>1. LET r == on_rx_controlled_bytes(h, d)
          IN  /\ r \in QUIC_RXFC /\ r.swm = h.swm + d
              /\ r.cwm = h.cwm /\ r.rwm = h.rwm /\ r.hwm = h.hwm
              /\ r.is_fin = h.is_fin /\ r.error_code = h.error_code
      BY <2>2, <2>3, <1>6, CountLemma
    <3> QED
      BY <3>1, <2>3, <2>9, <1>5, <1>6
  <2>11. /\ rx'[Conn] \in QUIC_RXFC /\ rx'[Conn].swm = rx[Conn].swm + d
         /\ rx'[Conn].cwm = rx[Conn].cwm /\ rx'[Conn].rwm = rx[Conn].rwm
         /\ rx'[Conn].error_code = rx[Conn].error_code
    <3>1. rx[Conn] \in QUIC_RXFC
      BY <1>t, <1>c, FieldTypes
    <3> QED
      BY <3>1, <2>2, <2>8, <2>9, CountLemma
  <2>12. \A c \in Ctl : /\ rx'[c] \in QUIC_RXFC /\ rx'[c].cwm = rx[c].cwm
                        /\ rx'[c].rwm = rx[c].rwm
                        /\ rx'[c].error_code = rx[c].error_code
                        /\ rx'[c].swm \in Nat /\ rx'[c].swm >= rx[c].swm
                        /\ rx'[c].swm <= tx[c].swm
    <3> TAKE c \in Ctl
    <3>1. CASE c = s
      BY <3>1, <2>10, <1>2, <1>7
    <3>2. CASE c = Conn
      BY <3>2, <2>2, <2>5, <2>8, <2>11
    <3>3. CASE c # s /\ c # Conn
      <4>1. rx'[c] = rx[c]
        BY <3>3, <2>9
      <4>2. rx[c].swm <= tx[c].swm
        BY DEF IInv, Ordered
      <4>3. rx[c] \in QUIC_RXFC /\ rx[c].swm \in Nat
        BY <1>t, FieldTypes
      <4> QED
        BY <4>1, <4>2, <4>3
    <3> QED
      BY <3>1, <3>2, <3>3
  <2>13. terminated' = FALSE
    <3>1. f.error_code = NO_ERROR
      BY <1>c DEF IInv, NoFlowControlError
    <3> QED
      BY <3>1, <2>10 DEF Count
  <2>14. TypeOK'
    <3>1. rx' = [c \in Ctl |-> rx'[c]]
      BY <2>1, <1>t DEF TypeOK
    <3>2. rx' \in [Ctl -> QUIC_RXFC]
      BY <3>1, <2>12
    <3> QED
      BY <3>2, <2>13, <1>1, <1>t DEF TypeOK
  <2>15. Ordered'
    <3>1. \A u \in Streams : rx'[u].swm = rx'[u].hwm
      <4> TAKE u \in Streams
      <4>1. CASE u = s
        BY <4>1, <2>10
      <4>2. CASE u # s
        BY <4>2, <2>9, CtlLemma DEF IInv, Ordered
      <4> QED
        BY <4>1, <4>2
    <3>2. \A c \in Ctl : rx'[c].rwm <= rx'[c].swm
      <4> TAKE c \in Ctl
      <4>1. rx[c].rwm <= rx[c].swm /\ rx[c].rwm \in Nat /\ rx[c].swm \in Nat
        BY <1>t, FieldTypes DEF IInv, Ordered
      <4> QED
        BY <4>1, <2>12
    <3> QED
      BY <3>1, <3>2, <2>12, <1>1 DEF Ordered
  <2>16. Sums'
    <3>1. \A u \in Streams : u # s => rx'[u] = rx[u]
      BY <2>9, CtlLemma
    <3>2. SumIs(InFlight', tx'[Conn].swm - rx'[Conn].swm)
      <4>1. \A u \in Streams : InFlight'[u] = rest[u]
        <5>1. InFlight'[s] = rest[s]
          <6>1. InFlight'[s] = tx[s].swm - end
            BY <2>10, <1>1 DEF InFlight
          <6>2. rest[s] = (tx[s].swm - f.hwm) - (end - f.hwm)
            BY <2>4, <2>6 DEF d
          <6> QED
            BY <6>1, <6>2, <1>2
        <5>2. \A u \in Streams : u # s => InFlight'[u] = InFlight[u]
          BY <3>1, <1>1 DEF InFlight
        <5> QED
          BY <5>1, <5>2, <2>6
      <4> HIDE DEF rest
      <4>2. (tx[Conn].swm - rx[Conn].swm) - d = tx'[Conn].swm - rx'[Conn].swm
        BY <2>2, <2>5, <2>11, <1>1
      <4> QED
        BY <4>1, <4>2, <2>7, SumSame
    <3>3. SumIs(Counted', rx'[Conn].swm)
      <4>1. /\ Counted'[s] = Counted[s] + d
            /\ \A u \in Streams : u # s => Counted'[u] = Counted[u]
        <5>1. Counted'[s] = end /\ Counted[s] = f.swm
          BY <2>10 DEF Counted
        <5>2. \A u \in Streams : u # s => Counted'[u] = Counted[u]
          BY <3>1 DEF Counted
        <5> QED
          BY <5>1, <5>2, <1>2 DEF d
      <4>2. \A u \in Streams : Counted[u] \in Nat
        BY <1>t, CtlLemma, FieldTypes DEF Counted
      <4>3. SumIs(Counted, rx[Conn].swm)
        BY DEF IInv, Sums
      <4>4. SumIs(Counted', rx[Conn].swm + d)
        BY <4>1, <4>2, <4>3, <2>2, <2>5, SumAdd
      <4> QED
        BY <4>4, <2>11
    <3>4. SumIs(Unread', rx'[Conn].swm - rx'[Conn].rwm)
      <4>1. /\ Unread'[s] = Unread[s] + d
            /\ \A u \in Streams : u # s => Unread'[u] = Unread[u]
        <5>1. Unread'[s] = end - f.rwm /\ Unread[s] = f.swm - f.rwm
          BY <2>10 DEF Unread
        <5>2. \A u \in Streams : u # s => Unread'[u] = Unread[u]
          BY <3>1 DEF Unread
        <5>3. f.rwm \in Nat
          BY <1>t, <1>c, FieldTypes
        <5> QED
          BY <5>1, <5>2, <5>3, <1>2 DEF d
      <4>2. \A u \in Streams : Unread[u] \in Nat
        <5> TAKE u \in Streams
        <5>1. /\ rx[u].swm \in Nat /\ rx[u].rwm \in Nat
              /\ rx[u].rwm <= rx[u].swm
          BY <1>t, CtlLemma, FieldTypes DEF IInv, Ordered
        <5> QED
          BY <5>1 DEF Unread
      <4>3. /\ rx[Conn].rwm \in Nat /\ rx[Conn].rwm <= rx[Conn].swm
            /\ rx[Conn].swm - rx[Conn].rwm \in Nat
        BY <2>5, <1>t, <1>c, FieldTypes DEF IInv, Ordered
      <4>4. SumIs(Unread, rx[Conn].swm - rx[Conn].rwm)
        BY DEF IInv, Sums
      <4>5. SumIs(Unread', (rx[Conn].swm - rx[Conn].rwm) + d)
        BY <4>1, <4>2, <4>3, <4>4, <2>2, SumAdd
      <4>6. (rx[Conn].swm - rx[Conn].rwm) + d = rx'[Conn].swm - rx'[Conn].rwm
        BY <4>3, <2>2, <2>5, <2>11
      <4> QED
        BY <4>5, <4>6
    <3>5. SumIs(Retired', rx'[Conn].rwm)
      <4>1. \A u \in Streams : Retired'[u] = Retired[u]
        BY <2>12, CtlLemma DEF Retired
      <4>2. SumIs(Retired, rx[Conn].rwm)
        BY DEF IInv, Sums
      <4> QED
        BY <4>1, <4>2, <2>11, SumSame
    <3>6. SumIs(Spent', tx'[Conn].swm)
      BY <1>1 DEF IInv, Sums, Spent
    <3> QED
      BY <3>2, <3>3, <3>4, <3>5, <3>6 DEF Sums
  <2>17. FinalSizeFixed'
    <3> SUFFICES ASSUME NEW u \in Streams
                 PROVE  rx'[u].is_fin => /\ tx_fin[u] \/ tx_reset[u]
                                         /\ rx'[u].swm = tx[u].swm
      BY <1>1 DEF IInv, FinalSizeFixed
    <3>1. CASE u = s
      <4>0. f.swm # tx[s].swm
        BY <1>2, <1>7
      <4>1. ~f.is_fin
        BY <4>0, <1>2, Zenon
      <4>2. rx'[s].is_fin => is_fin
        BY <4>1, <2>10, Zenon
      <4> QED
        BY <3>1, <4>2, <2>10
    <3>2. CASE u # s
      <4>1. rx'[u] = rx[u]
        BY <3>2, <2>9, CtlLemma
      <4> QED
        BY <4>1 DEF IInv, FinalSizeFixed
    <3> QED
      BY <3>1, <3>2
  <2>18. NoFlowControlError'
    BY <2>12, <2>13 DEF IInv, NoFlowControlError
  <2>19. Planned' /\ StreamCredit'
    BY <1>1 DEF IInv, Planned, StreamCredit
  <2>20. CreditWasGranted' /\ InitialGranted' /\ WindowBounded'
    BY <2>12, <1>1 DEF IInv, CreditWasGranted, InitialGranted, WindowBounded
  <2>21. AdvGranted'
    <3>1. \A m \in adv : m.ctl \in Ctl
      BY <1>t DEF TypeOK, CreditFrame
    <3> QED
      BY <3>1, <2>12, <1>1 DEF IInv, AdvGranted
  <2> QED
    BY <2>14, <2>15, <2>16, <2>17, <2>18, <2>19, <2>20, <2>21 DEF IInv
<1>8. CASE ~(end > f.hwm)
  <2>1. rx' = [rx EXCEPT ![s] = g]
    BY <1>3, <1>4, <1>8, Zenon DEF Count, ossl_quic_rxfc_on_rx_stream_frame, g
  <2>2. /\ rx'[s] = g
        /\ \A c \in Ctl : c # s => rx'[c] = rx[c]
    BY <2>1, <1>c, <1>t DEF TypeOK
  <2>3. \A c \in Ctl : /\ rx'[c] \in QUIC_RXFC
                       /\ rx'[c].swm = rx[c].swm /\ rx'[c].hwm = rx[c].hwm
                       /\ rx'[c].rwm = rx[c].rwm /\ rx'[c].cwm = rx[c].cwm
                       /\ rx'[c].error_code = rx[c].error_code
    <3> TAKE c \in Ctl
    <3>1. CASE c = s
      BY <3>1, <2>2, <1>5
    <3>2. CASE c # s
      BY <3>2, <2>2, <1>t, FieldTypes
    <3> QED
      BY <3>1, <3>2
  <2>4. terminated' = FALSE
    <3>1. f.error_code = NO_ERROR
      BY <1>c DEF IInv, NoFlowControlError
    <3> QED
      BY <3>1, <2>3, <1>c DEF Count
  <2>5. TypeOK'
    <3>1. rx' = [c \in Ctl |-> rx'[c]]
      BY <2>1, <1>t DEF TypeOK
    <3>2. rx' \in [Ctl -> QUIC_RXFC]
      BY <3>1, <2>3
    <3> QED
      BY <3>2, <2>4, <1>1, <1>t DEF TypeOK
  <2>6. Sums'
    BY <2>3, <1>1, SumsUnchanged DEF IInv
  <2>7. FinalSizeFixed'
    <3> SUFFICES ASSUME NEW u \in Streams
                 PROVE  rx'[u].is_fin => /\ tx_fin[u] \/ tx_reset[u]
                                         /\ rx'[u].swm = tx[u].swm
      BY <1>1 DEF IInv, FinalSizeFixed
    <3>1. CASE u = s
      <4>1. rx'[s].is_fin = (f.is_fin \/ is_fin) /\ rx'[s].swm = f.swm
        BY <2>2, <1>5
      <4>2. is_fin => f.swm = tx[s].swm
        BY <1>2, <1>8
      <4> QED
        BY <3>1, <4>1, <4>2, <1>2
    <3>2. CASE u # s
      <4>1. rx'[u] = rx[u]
        BY <3>2, <2>2, CtlLemma
      <4> QED
        BY <4>1 DEF IInv, FinalSizeFixed
    <3> QED
      BY <3>1, <3>2
  <2>8. Ordered'
    BY <2>3, <1>1, CtlLemma DEF IInv, Ordered
  <2>9. NoFlowControlError'
    BY <2>3, <2>4 DEF IInv, NoFlowControlError
  <2>10. Planned' /\ StreamCredit'
    BY <1>1 DEF IInv, Planned, StreamCredit
  <2>11. CreditWasGranted' /\ InitialGranted' /\ WindowBounded'
    BY <2>3, <1>1 DEF IInv, CreditWasGranted, InitialGranted, WindowBounded
  <2>12. AdvGranted'
    <3>1. \A m \in adv : m.ctl \in Ctl
      BY <1>t DEF TypeOK, CreditFrame
    <3> QED
      BY <3>1, <2>3, <1>1 DEF IInv, AdvGranted
  <2> QED
    BY <2>5, <2>6, <2>7, <2>8, <2>9, <2>10, <2>11, <2>12 DEF IInv
<1> QED
  BY <1>7, <1>8

\* The application reads n bytes: they are retired at both levels.
LEMMA ReadStep ==
    ASSUME NEW s \in Streams, NEW n \in 1..MaxSize, NEW grow \in BOOLEAN,
           NEW conn_grow \in BOOLEAN, IInv, Read(s, n, grow, conn_grow)
    PROVE  IInv'
<1> DEFINE f == rxfc_on_retire(rx[s], n, 0, StreamMaxWnd, grow)
           k == rxfc_on_retire(rx[Conn], n, f.cur_window_size, ConnMaxWnd,
                               conn_grow)
<1>t. TypeOK
  BY DEF IInv
<1>c. s \in Ctl /\ Conn \in Ctl /\ s # Conn
  BY CtlLemma
<1>n. n \in Nat /\ StreamMaxWnd \in Nat /\ ConnMaxWnd \in Nat
  BY ConstantsAssumption
<1>1. /\ tx' = tx /\ plan' = plan /\ consumed' = consumed
      /\ committing' = committing /\ tx_fin' = tx_fin /\ tx_reset' = tx_reset
      /\ want' = want /\ adv' = adv /\ losses' = losses /\ got_tp' = got_tp
      /\ rx_aborted' = rx_aborted /\ terminated' = terminated
      /\ rx[s].rwm + n <= rx[s].hwm
  BY DEF Read, sender
<1>2. /\ rx[s] \in QUIC_RXFC /\ rx[s].rwm \in Nat /\ rx[s].swm \in Nat
      /\ rx[s].cwm \in Nat
      /\ rx[Conn] \in QUIC_RXFC /\ rx[Conn].rwm \in Nat /\ rx[Conn].swm \in Nat
      /\ rx[Conn].cwm \in Nat
  BY <1>t, <1>c, FieldTypes
<1>3. /\ rx[s].rwm + n <= rx[s].swm
      /\ rx[Conn].rwm <= rx[Conn].swm
  BY <1>1, <1>c DEF IInv, Ordered
<1>4. rx' = [rx EXCEPT ![s] = f, ![Conn] = k]
  <2>1. ~(rx[s].rwm + n > rx[s].swm)
    BY <1>2, <1>3, <1>n
  <2>2. rx' = [rx EXCEPT ![s] = f,
                         ![Conn] = rxfc_on_retire(@, n, f.cur_window_size,
                                                  ConnMaxWnd, conn_grow)]
    BY <2>1, Zenon DEF Read, ossl_quic_rxfc_on_retire
  <2> HIDE DEF f
  <2> QED
    BY <2>2, <1>c, <1>t DEF TypeOK
<1>5. /\ f \in QUIC_RXFC
      /\ f.swm = rx[s].swm /\ f.hwm = rx[s].hwm /\ f.rwm = rx[s].rwm + n
      /\ f.is_fin = rx[s].is_fin /\ f.error_code = rx[s].error_code
      /\ f.cwm >= rx[s].cwm
      /\ f.cwm = rx[s].cwm \/ f.cwm - f.rwm <= StreamMaxWnd
  <2>1. 0 \in Nat /\ rx[s] \in QUIC_RXFC
    BY <1>2
  <2>2. LET g == rxfc_on_retire(rx[s], n, 0, StreamMaxWnd, grow)
        IN  /\ g \in QUIC_RXFC
            /\ g.swm = rx[s].swm /\ g.hwm = rx[s].hwm /\ g.rwm = rx[s].rwm + n
            /\ g.is_fin = rx[s].is_fin /\ g.error_code = rx[s].error_code
            /\ g.cwm >= rx[s].cwm
            /\ g.cwm = rx[s].cwm \/ g.cwm - g.rwm <= StreamMaxWnd
    BY <2>1, <1>n, RetireLemma
  <2> QED
    BY <2>2
<1> HIDE DEF f
<1>6. /\ k \in QUIC_RXFC
      /\ k.swm = rx[Conn].swm /\ k.hwm = rx[Conn].hwm
      /\ k.rwm = rx[Conn].rwm + n
      /\ k.is_fin = rx[Conn].is_fin /\ k.error_code = rx[Conn].error_code
      /\ k.cwm >= rx[Conn].cwm
      /\ k.cwm = rx[Conn].cwm \/ k.cwm - k.rwm <= ConnMaxWnd
  <2>1. f.cur_window_size \in Nat
    BY <1>5 DEF QUIC_RXFC
  <2>2. rx[Conn] \in QUIC_RXFC
    BY <1>2
  <2>3. LET g == rxfc_on_retire(rx[Conn], n, f.cur_window_size, ConnMaxWnd,
                                conn_grow)
        IN  /\ g \in QUIC_RXFC
            /\ g.swm = rx[Conn].swm /\ g.hwm = rx[Conn].hwm
            /\ g.rwm = rx[Conn].rwm + n
            /\ g.is_fin = rx[Conn].is_fin /\ g.error_code = rx[Conn].error_code
            /\ g.cwm >= rx[Conn].cwm
            /\ g.cwm = rx[Conn].cwm \/ g.cwm - g.rwm <= ConnMaxWnd
    BY <2>1, <2>2, <1>n, RetireLemma
  <2> QED
    BY <2>3
<1> HIDE DEF k
<1>7. /\ rx'[s] = f /\ rx'[Conn] = k
      /\ \A c \in Ctl : c # s /\ c # Conn => rx'[c] = rx[c]
  BY <1>4, <1>c, <1>t DEF TypeOK
<1>u. /\ \A u \in Streams : u # s => rx'[u] = rx[u]
      /\ \A u \in Streams : Unread[u] \in Nat
      /\ Unread[s] = rx[s].swm - rx[s].rwm
  <2>1. \A u \in Streams : Unread[u] \in Nat
    <3> TAKE u \in Streams
    <3>1. /\ rx[u].swm \in Nat /\ rx[u].rwm \in Nat
          /\ rx[u].rwm <= rx[u].swm
      BY <1>t, CtlLemma, FieldTypes DEF IInv, Ordered
    <3> QED
      BY <3>1 DEF Unread
  <2> QED
    BY <2>1, <1>7, CtlLemma DEF Unread
\* The connection has that many unread bytes too: they are a sum.
<1>8. /\ n <= rx[Conn].swm - rx[Conn].rwm
      /\ SumIs(Unread', (rx[Conn].swm - rx[Conn].rwm) - n)
  <2>1. SumIs(Unread, rx[Conn].swm - rx[Conn].rwm)
    BY DEF IInv, Sums
  <2>2. rx[Conn].swm - rx[Conn].rwm \in Nat
    BY <1>2, <1>3
  <2>3. n <= Unread[s]
    BY <1>2, <1>3, <1>n, <1>u
  <2>4. Unread'[s] = Unread[s] - n
    <3>1. Unread'[s] = f.swm - f.rwm
      BY <1>7 DEF Unread
    <3> QED
      BY <3>1, <1>2, <1>3, <1>5, <1>n, <1>u
  <2>5. \A u \in Streams : u # s => Unread'[u] = Unread[u]
    BY <1>u DEF Unread
  <2> QED
    BY <2>1, <2>2, <2>3, <2>4, <2>5, <1>n, <1>u, SumSub
<1>9. \A c \in Ctl : /\ rx'[c] \in QUIC_RXFC
                     /\ rx'[c].swm = rx[c].swm /\ rx'[c].hwm = rx[c].hwm
                     /\ rx'[c].error_code = rx[c].error_code
                     /\ rx'[c].rwm \in Nat /\ rx'[c].rwm >= rx[c].rwm
                     /\ rx'[c].rwm <= rx'[c].swm
                     /\ rx'[c].cwm \in Nat /\ rx'[c].cwm >= rx[c].cwm
                     /\ rx'[c].cwm = rx[c].cwm
                          \/ rx'[c].cwm - rx'[c].rwm <= MaxWnd(c)
  <2> TAKE c \in Ctl
  <2>1. CASE c = s
    <3>1. MaxWnd(c) = StreamMaxWnd
      BY <2>1, <1>c DEF MaxWnd
    <3>2. f.cwm \in Nat /\ f.rwm \in Nat
      BY <1>5 DEF QUIC_RXFC
    <3> QED
      BY <2>1, <3>1, <3>2, <1>2, <1>3, <1>5, <1>7, <1>n
  <2>2. CASE c = Conn
    <3>1. MaxWnd(c) = ConnMaxWnd
      BY <2>2 DEF MaxWnd
    <3>2. k.cwm \in Nat /\ k.rwm \in Nat
      BY <1>6 DEF QUIC_RXFC
    <3> QED
      BY <2>2, <3>1, <3>2, <1>2, <1>3, <1>6, <1>7, <1>8, <1>n
  <2>3. CASE c # s /\ c # Conn
    <3>1. rx'[c] = rx[c]
      BY <2>3, <1>7
    <3>2. /\ rx[c] \in QUIC_RXFC /\ rx[c].rwm \in Nat /\ rx[c].cwm \in Nat
      BY <1>t, FieldTypes
    <3>3. rx[c].rwm <= rx[c].swm
      BY DEF IInv, Ordered
    <3> QED
      BY <3>1, <3>2, <3>3
  <2> QED
    BY <2>1, <2>2, <2>3
<1>10. TypeOK'
  <2>1. rx' = [c \in Ctl |-> rx'[c]]
    BY <1>4, <1>t DEF TypeOK
  <2>2. rx' \in [Ctl -> QUIC_RXFC]
    BY <2>1, <1>9
  <2> QED
    BY <2>2, <1>1, <1>t DEF TypeOK
<1>11. Ordered'
  BY <1>1, <1>9, CtlLemma DEF IInv, Ordered
<1>12. Sums'
  <2>1. SumIs(Retired', rx'[Conn].rwm)
    <3>1. SumIs(Retired, rx[Conn].rwm)
      BY DEF IInv, Sums
    <3>2. Retired'[s] = Retired[s] + n
      <4>1. Retired'[s] = f.rwm /\ Retired[s] = rx[s].rwm
        BY <1>7 DEF Retired
      <4> QED
        BY <4>1, <1>5
    <3>3. \A u \in Streams : u # s => Retired'[u] = Retired[u]
      BY <1>u DEF Retired
    <3>4. \A u \in Streams : Retired[u] \in Nat
      BY <1>t, CtlLemma, FieldTypes DEF Retired
    <3>5. SumIs(Retired', rx[Conn].rwm + n)
      BY <3>1, <3>2, <3>3, <3>4, <1>2, <1>n, SumAdd
    <3> QED
      BY <3>5, <1>6, <1>7
  <2>2. SumIs(Unread', rx'[Conn].swm - rx'[Conn].rwm)
    <3>1. rx'[Conn].swm - rx'[Conn].rwm = (rx[Conn].swm - rx[Conn].rwm) - n
      BY <1>2, <1>6, <1>7, <1>n
    <3> QED
      BY <3>1, <1>8
  <2>3. /\ \A u \in Streams : Counted'[u] = Counted[u]
        /\ \A u \in Streams : InFlight'[u] = InFlight[u]
        /\ Spent' = Spent
    BY <1>1, <1>9, CtlLemma DEF Counted, InFlight, Spent
  <2>4. tx'[Conn].swm = tx[Conn].swm /\ rx'[Conn].swm = rx[Conn].swm
    BY <1>1, <1>9, <1>c
  <2>5. SumIs(Counted', rx[Conn].swm)
    BY <2>3, SumSame DEF IInv, Sums
  <2>6. SumIs(InFlight', tx[Conn].swm - rx[Conn].swm)
    BY <2>3, SumSame DEF IInv, Sums
  <2> QED
    BY <2>1, <2>2, <2>3, <2>4, <2>5, <2>6 DEF IInv, Sums
<1>13. FinalSizeFixed'
  <2> SUFFICES ASSUME NEW u \in Streams
               PROVE  rx'[u].is_fin => /\ tx_fin[u] \/ tx_reset[u]
                                       /\ rx'[u].swm = tx[u].swm
    BY <1>1 DEF IInv, FinalSizeFixed
  <2>1. rx'[u].is_fin = rx[u].is_fin /\ rx'[u].swm = rx[u].swm
    <3>1. CASE u = s
      BY <3>1, <1>5, <1>7
    <3>2. CASE u # s
      BY <3>2, <1>u
    <3> QED
      BY <3>1, <3>2
  <2> QED
    BY <2>1 DEF IInv, FinalSizeFixed
<1>14. NoFlowControlError'
  BY <1>1, <1>9 DEF IInv, NoFlowControlError
<1>15. Planned' /\ StreamCredit'
  BY <1>1 DEF IInv, Planned, StreamCredit
<1>16. \A c \in Ctl : /\ CreditWasGranted => tx'[c].cwm <= rx'[c].cwm
                      /\ InitWnd(c) <= rx'[c].cwm
                      /\ rx'[c].cwm - rx'[c].rwm <= Greater(InitWnd(c), MaxWnd(c))
  <2> TAKE c \in Ctl
  <2>1. /\ rx[c].rwm \in Nat /\ rx[c].cwm \in Nat /\ tx[c].cwm \in Nat
        /\ InitWnd(c) \in Nat /\ MaxWnd(c) \in Nat
    BY <1>t, FieldTypes
  <2>2. /\ tx[c].cwm <= rx[c].cwm /\ InitWnd(c) <= rx[c].cwm
        /\ rx[c].cwm - rx[c].rwm <= Greater(InitWnd(c), MaxWnd(c))
    BY DEF IInv, CreditWasGranted, InitialGranted, WindowBounded
  <2>3. tx'[c].cwm <= rx'[c].cwm /\ InitWnd(c) <= rx'[c].cwm
    BY <2>1, <2>2, <1>1, <1>9
  <2>4. rx'[c].cwm - rx'[c].rwm <= Greater(InitWnd(c), MaxWnd(c))
    BY <2>1, <2>2, <1>9 DEF Greater
  <2> QED
    BY <2>3, <2>4
<1>17. CreditWasGranted' /\ InitialGranted' /\ WindowBounded'
  BY <1>16 DEF IInv, CreditWasGranted, InitialGranted, WindowBounded
<1>18. AdvGranted'
  <2> SUFFICES ASSUME NEW m \in adv PROVE m.cwm <= rx'[m.ctl].cwm
    BY <1>1 DEF AdvGranted
  <2>1. m.ctl \in Ctl /\ m.cwm \in Nat
    BY <1>t DEF TypeOK, CreditFrame
  <2>2. m.cwm <= rx[m.ctl].cwm /\ rx[m.ctl].cwm \in Nat
    BY <2>1, <1>t, FieldTypes DEF IInv, AdvGranted
  <2> QED
    BY <2>1, <2>2, <1>9
<1> QED
  BY <1>10, <1>11, <1>12, <1>13, <1>14, <1>15, <1>17, <1>18 DEF IInv

\* Every step of either endpoint, and of the network, preserves the invariant.
LEMMA NextIInv == IInv /\ [Next]_vars => IInv'
<1> SUFFICES ASSUME IInv, [Next]_vars PROVE IInv'
  OBVIOUS
<1>t. TypeOK
  BY DEF IInv
<1>s. ASSUME NEW s \in Streams
      PROVE  /\ tx[s].swm \in Nat /\ rx_aborted \in [Streams -> BOOLEAN]
             /\ MaxSize \in Nat
  BY <1>t, CtlLemma, FieldTypes, ConstantsAssumption DEF TypeOK
<1>1. CASE OnTransportParams
  BY <1>1, TransportParamsStep
<1>2. ASSUME NEW s \in Streams, NEW n \in 1..MaxSize, GenerateStreamFrames(s, n)
      PROVE  IInv'
  BY <1>2, GenerateStep
<1>3. ASSUME NEW s \in Streams, CommitStream(s) PROVE IInv'
  BY <1>3, CommitStep
<1>4. ASSUME NEW s \in Streams, SendFin(s) \/ ResetStream(s) PROVE IInv'
  BY <1>4, QuietStep
<1>5. ASSUME NEW m \in adv, RxMaxData(m) PROVE IInv'
  BY <1>5, RxMaxDataStep
<1>6. ASSUME NEW s \in Streams, NEW end \in 0..MaxSize, NEW is_fin \in BOOLEAN,
             RxStreamFrame(s, end, is_fin)
      PROVE  IInv'
  <2>1. /\ end <= tx[s].swm
        /\ is_fin => end = tx[s].swm /\ (tx_fin[s] \/ tx_reset[s])
        /\ Count(s, end, is_fin)
        /\ UNCHANGED <<sender, want, adv, losses>>
        /\ rx_aborted' = rx_aborted
    BY <1>6 DEF RxStreamFrame
  <2>2. end \in Nat /\ rx_aborted' \in [Streams -> BOOLEAN]
    BY <2>1, <1>s
  <2> QED
    BY <2>1, <2>2, CountStep
<1>7. ASSUME NEW s \in Streams, RxResetStream(s) PROVE IInv'
  <2>1. /\ tx_reset[s] /\ Count(s, tx[s].swm, TRUE)
        /\ UNCHANGED <<sender, want, adv, losses>>
        /\ rx_aborted' = [rx_aborted EXCEPT ![s] = ~terminated']
    BY <1>7 DEF RxResetStream
  <2>2. rx_aborted' \in [Streams -> BOOLEAN]
    BY <2>1, <1>s
  <2>3. tx[s].swm \in Nat /\ tx[s].swm <= tx[s].swm
    BY <1>s
  <2> QED
    BY <2>1, <2>2, <2>3, CountStep
<1>8. ASSUME NEW s \in Streams, NEW n \in 1..MaxSize, NEW grow \in BOOLEAN,
             NEW conn_grow \in BOOLEAN, Read(s, n, grow, conn_grow)
      PROVE  IInv'
  BY <1>8, ReadStep
<1>9. ASSUME NEW c \in Ctl, TxMaxData(c) PROVE IInv'
  BY <1>9, TxMaxDataStep
<1>10. ASSUME NEW m \in adv, NEW chunk \in BOOLEAN, LoseMaxData(m, chunk) PROVE IInv'
  BY <1>10, QuietStep
<1>11. CASE UNCHANGED vars
  <2>1. /\ UNCHANGED <<tx, got_tp, plan, consumed, committing, tx_fin, tx_reset>>
        /\ UNCHANGED <<rx, rx_aborted, want, terminated, adv, losses>>
    BY <1>11 DEF vars, sender, receiver
  <2>2. TypeOK'
    BY <2>1, <1>t DEF TypeOK
  <2>3. Sums'
    BY <2>1, SumsUnchanged DEF IInv
  <2>4. /\ NoFlowControlError' /\ CreditWasGranted' /\ Planned' /\ Ordered'
        /\ AdvGranted' /\ InitialGranted' /\ StreamCredit' /\ FinalSizeFixed'
        /\ WindowBounded'
    BY <2>1 DEF IInv, NoFlowControlError, CreditWasGranted, Planned, Ordered,
                AdvGranted, InitialGranted, StreamCredit, FinalSizeFixed,
                WindowBounded
  <2> QED
    BY <2>2, <2>3, <2>4 DEF IInv
<1>12. CASE SenderNext
  BY <1>12, <1>1, <1>2, <1>3, <1>4, <1>5 DEF SenderNext
<1>13. CASE ReceiverNext
  BY <1>13, <1>6, <1>8, <1>9, <1>10 DEF ReceiverNext
<1>14. CASE Resets
  BY <1>14, <1>4, <1>7 DEF Resets
<1> QED
  BY <1>11, <1>12, <1>13, <1>14 DEF Next

\* Counted and spent bytes stay within the credit, at both levels.
LEMMA CreditCovers ==
    ASSUME IInv, NEW c \in Ctl
    PROVE  tx[c].swm <= tx[c].cwm /\ rx[c].swm <= rx[c].cwm
<1>t. TypeOK
  BY DEF IInv
<1>1. rx[c].swm <= tx[c].swm
  BY DEF IInv, Ordered
<1>2. /\ rx[c].swm \in Nat /\ tx[c].swm \in Nat
      /\ tx[c].cwm \in Nat /\ rx[c].cwm \in Nat
  BY <1>t, FieldTypes
<1>3. tx[c].cwm <= rx[c].cwm
  BY DEF IInv, CreditWasGranted
<1>4. tx[c].swm <= tx[c].cwm
  <2>1. CASE c = Conn
    <3>1. PICK total \in Nat : tx[Conn].swm + total <= tx[Conn].cwm
      BY DEF IInv, Planned
    <3> QED
      BY <2>1, <3>1, <1>2
  <2>2. CASE c \in Streams
    <3>1. tx[c].swm + plan[c] <= tx[c].cwm
      BY <2>2 DEF IInv, StreamCredit
    <3>2. plan[c] \in Nat
      BY <2>2, <1>t DEF TypeOK
    <3> QED
      BY <3>1, <3>2, <1>2
  <2> QED
    BY <2>1, <2>2, CtlLemma
<1> QED
  BY <1>1, <1>2, <1>3, <1>4

-----------------------------------------------------------------------------
(***************************************************************************)
(* Watermarks only grow                                                    *)
(***************************************************************************)

\* No watermark of controller c decreases in this step.
Grows(c) ==
    /\ tx'[c].swm >= tx[c].swm /\ tx'[c].cwm >= tx[c].cwm
    /\ rx'[c].swm >= rx[c].swm /\ rx'[c].cwm >= rx[c].cwm
    /\ rx'[c].rwm >= rx[c].rwm

\* Controllers that a step leaves alone.
LEMMA UntouchedGrows ==
    ASSUME TypeOK, NEW c \in Ctl
    PROVE  /\ tx'[c] = tx[c] => tx'[c].swm >= tx[c].swm /\ tx'[c].cwm >= tx[c].cwm
           /\ rx'[c] = rx[c] => /\ rx'[c].swm >= rx[c].swm /\ rx'[c].cwm >= rx[c].cwm
                                /\ rx'[c].rwm >= rx[c].rwm
BY FieldTypes

\* Spending credit, whether or not there is enough.
LEMMA ConsumeGrows ==
    ASSUME NEW f \in QUIC_TXFC, NEW n \in Nat, f.swm <= f.cwm
    PROVE  LET g == ossl_quic_txfc_consume_credit_local(f, n)
           IN  g.swm >= f.swm /\ g.cwm = f.cwm
<1> DEFINE d == Lesser(n, ossl_quic_txfc_get_credit_local(f, 0))
<1>1. f.swm \in Nat /\ f.cwm \in Nat
  BY DEF QUIC_TXFC
<1>2. d \in Nat
  BY <1>1 DEF Lesser, ossl_quic_txfc_get_credit_local
<1>3. ossl_quic_txfc_consume_credit_local(f, n) = [f EXCEPT !.swm = f.swm + d]
  BY Zenon DEF ossl_quic_txfc_consume_credit_local
<1> HIDE DEF d
<1> QED
  BY <1>1, <1>2, <1>3 DEF QUIC_TXFC

\* Counting bytes, whether or not there is credit for them.
LEMMA CountGrows ==
    ASSUME NEW f \in QUIC_RXFC, NEW n \in Nat, f.swm <= f.cwm
    PROVE  LET g == on_rx_controlled_bytes(f, n)
           IN  g.swm >= f.swm /\ g.cwm = f.cwm /\ g.rwm = f.rwm
<1>1. f.swm \in Nat /\ f.cwm \in Nat
  BY DEF QUIC_RXFC
<1>2. CASE n > f.cwm - f.swm
  <2> DEFINE e == [f EXCEPT !.swm = f.cwm]
  <2>1. on_rx_controlled_bytes(f, n) = [e EXCEPT !.error_code = FLOW_CONTROL_ERROR]
    BY <1>2, Zenon DEF on_rx_controlled_bytes
  <2>2. /\ e \in QUIC_RXFC
        /\ e.swm = f.cwm /\ e.cwm = f.cwm /\ e.rwm = f.rwm
    BY <1>1 DEF QUIC_RXFC
  <2> HIDE DEF e
  <2> QED
    BY <2>1, <2>2, <1>1 DEF QUIC_RXFC
<1>3. CASE ~(n > f.cwm - f.swm)
  <2>1. on_rx_controlled_bytes(f, n) = [f EXCEPT !.swm = f.swm + n]
    BY <1>3, Zenon DEF on_rx_controlled_bytes
  <2> QED
    BY <2>1, <1>1 DEF QUIC_RXFC
<1> QED
  BY <1>2, <1>3

\* A frame that is counted, rejected or of no effect.
LEMMA FrameGrows ==
    ASSUME IInv, NEW s \in Streams, NEW end \in Nat, NEW is_fin \in BOOLEAN,
           Count(s, end, is_fin), tx' = tx, NEW c \in Ctl
    PROVE  Grows(c)
<1> DEFINE f == rx[s]
           g == [f EXCEPT !.is_fin = f.is_fin \/ is_fin]
           h == [g EXCEPT !.hwm = end]
           z == [g EXCEPT !.error_code = FINAL_SIZE_ERROR]
           y == [f EXCEPT !.error_code = FINAL_SIZE_ERROR]
<1>t. TypeOK
  BY DEF IInv
<1>c. s \in Ctl /\ Conn \in Ctl /\ s # Conn
  BY CtlLemma
<1>1. /\ f \in QUIC_RXFC /\ rx[Conn] \in QUIC_RXFC /\ f.hwm \in Nat
      /\ f.swm \in Nat /\ f.cwm \in Nat /\ f.rwm \in Nat
      /\ rx[Conn].swm \in Nat /\ rx[Conn].cwm \in Nat /\ rx[Conn].rwm \in Nat
      /\ f.swm <= f.cwm /\ rx[Conn].swm <= rx[Conn].cwm
  BY <1>t, <1>c, FieldTypes, CreditCovers
<1>2. rx \in [Ctl -> QUIC_RXFC]
  BY <1>t DEF TypeOK
<1>g. /\ g \in QUIC_RXFC
      /\ g.swm = f.swm /\ g.cwm = f.cwm /\ g.rwm = f.rwm
  <2>1. f.is_fin \/ is_fin \in BOOLEAN
    BY <1>1, Zenon DEF QUIC_RXFC
  <2> QED
    BY <1>1, <2>1 DEF QUIC_RXFC
<1> HIDE DEF g
<1>h. h \in QUIC_RXFC /\ h.swm = f.swm /\ h.cwm = f.cwm /\ h.rwm = f.rwm
  BY <1>g DEF QUIC_RXFC
<1>z. z.swm = f.swm /\ z.cwm = f.cwm /\ z.rwm = f.rwm
  BY <1>g DEF QUIC_RXFC
<1>y. y.swm = f.swm /\ y.cwm = f.cwm /\ y.rwm = f.rwm
  BY <1>1 DEF QUIC_RXFC
<1> HIDE DEF h, z, y
<1>3. ossl_quic_rxfc_on_rx_stream_frame(s, end, is_fin)
  BY DEF Count
<1>4. CASE SizeChanged(f, end, is_fin)
  <2>1. rx' = [rx EXCEPT ![s] = y]
    BY <1>3, <1>4, Zenon DEF ossl_quic_rxfc_on_rx_stream_frame, y
  <2>2. rx'[c] = IF c = s THEN y ELSE rx[c]
    BY <2>1, <1>2, <1>c
  <2> QED
    BY <2>2, <1>y, <1>1, <1>t, UntouchedGrows DEF Grows
<1>5. CASE ~SizeChanged(f, end, is_fin) /\ end > f.hwm
  <2> DEFINE a == on_rx_controlled_bytes(h, end - f.hwm)
             b == on_rx_controlled_bytes(rx[Conn], end - f.hwm)
  <2>1. rx' = [rx EXCEPT ![s] = a, ![Conn] = b]
    BY <1>3, <1>5, Zenon DEF ossl_quic_rxfc_on_rx_stream_frame, h, g
  <2>2. end - f.hwm \in Nat
    BY <1>5, <1>1
  <2>3. /\ a.swm >= f.swm /\ a.cwm = f.cwm /\ a.rwm = f.rwm
        /\ b.swm >= rx[Conn].swm /\ b.cwm = rx[Conn].cwm /\ b.rwm = rx[Conn].rwm
    BY <2>2, <1>1, <1>h, CountGrows
  <2> HIDE DEF a, b
  <2>4. rx'[c] = IF c = Conn THEN b ELSE IF c = s THEN a ELSE rx[c]
    BY <2>1, <1>2, <1>c
  <2> QED
    BY <2>3, <2>4, <1>1, <1>t, UntouchedGrows DEF Grows
<1>6. CASE ~SizeChanged(f, end, is_fin) /\ ~(end > f.hwm)
  <2>1. rx' = [rx EXCEPT ![s] = IF end < f.hwm /\ is_fin THEN z ELSE g]
    BY <1>3, <1>6, Zenon DEF ossl_quic_rxfc_on_rx_stream_frame, g, z
  <2>2. rx'[c] = IF c = s THEN (IF end < f.hwm /\ is_fin THEN z ELSE g) ELSE rx[c]
    BY <2>1, <1>2, <1>c
  <2> QED
    BY <2>2, <1>z, <1>g, <1>1, <1>t, UntouchedGrows DEF Grows
<1> QED
  BY <1>4, <1>5, <1>6

\* Every step moves the watermarks of every controller upwards or not at all.
LEMMA NextGrows ==
    ASSUME IInv, [Next]_vars, NEW c \in Ctl
    PROVE  Grows(c)
<1>t. TypeOK
  BY DEF IInv
<1>x. tx \in [Ctl -> QUIC_TXFC] /\ rx \in [Ctl -> QUIC_RXFC]
  BY <1>t DEF TypeOK
<1>m. MaxSize \in Nat /\ \A d \in Ctl : InitWnd(d) \in Nat
  BY <1>t, FieldTypes, ConstantsAssumption
<1>1. CASE OnTransportParams
  <2>1. rx' = rx /\ tx'[c] = ossl_quic_txfc_bump_cwm(tx[c], InitWnd(c))
    BY <1>1 DEF OnTransportParams, receiver
  <2>2. tx'[c].swm = tx[c].swm /\ tx'[c].cwm >= tx[c].cwm
    BY <2>1, <1>x, <1>m, BumpLemma
  <2> QED
    BY <2>1, <2>2, <1>t, FieldTypes, UntouchedGrows DEF Grows
<1>2. CASE tx' = tx /\ rx' = rx
  BY <1>2, <1>t, UntouchedGrows DEF Grows
<1>3. ASSUME NEW s \in Streams, CommitStream(s) PROVE Grows(c)
  <2> DEFINE a == ossl_quic_txfc_consume_credit_local(tx[s], plan[s])
             b == ossl_quic_txfc_consume_credit_local(tx[Conn], plan[s])
  <2>c. s \in Ctl /\ Conn \in Ctl /\ s # Conn /\ plan[s] \in Nat
    BY CtlLemma, <1>t DEF TypeOK
  <2>1. rx' = rx /\ tx' = [tx EXCEPT ![s] = a, ![Conn] = b]
    BY <1>3, <2>c DEF CommitStream, receiver, ossl_quic_txfc_consume_credit
  <2>2. /\ a.swm >= tx[s].swm /\ a.cwm = tx[s].cwm
        /\ b.swm >= tx[Conn].swm /\ b.cwm = tx[Conn].cwm
    BY <2>c, <1>x, CreditCovers, ConsumeGrows
  <2> HIDE DEF a, b
  <2>3. tx'[c] = IF c = Conn THEN b ELSE IF c = s THEN a ELSE tx[c]
    BY <2>1, <2>c, <1>x
  <2> QED
    BY <2>1, <2>2, <2>3, <2>c, <1>t, FieldTypes, UntouchedGrows DEF Grows
<1>4. ASSUME NEW m \in adv, RxMaxData(m) PROVE Grows(c)
  <2>1. m.ctl \in Ctl /\ m.cwm \in Nat
    BY <1>t DEF TypeOK, CreditFrame
  <2>2. /\ rx' = rx
        /\ tx'[c] = IF c = m.ctl THEN ossl_quic_txfc_bump_cwm(tx[c], m.cwm) ELSE tx[c]
    BY <1>4, <2>1, <1>x DEF RxMaxData, receiver
  <2>3. c = m.ctl => tx'[c].swm = tx[c].swm /\ tx'[c].cwm >= tx[c].cwm
    BY <2>1, <2>2, <1>x, BumpLemma
  <2> QED
    BY <2>2, <2>3, <1>t, FieldTypes, UntouchedGrows DEF Grows
<1>5. ASSUME NEW s \in Streams, NEW end \in 0..MaxSize, NEW is_fin \in BOOLEAN,
             RxStreamFrame(s, end, is_fin)
      PROVE  Grows(c)
  <2>1. Count(s, end, is_fin) /\ tx' = tx /\ end \in Nat
    BY <1>5, <1>m DEF RxStreamFrame, sender
  <2> QED
    BY <2>1, FrameGrows
<1>6. ASSUME NEW s \in Streams, RxResetStream(s) PROVE Grows(c)
  <2>1. Count(s, tx[s].swm, TRUE) /\ tx' = tx
    BY <1>6 DEF RxResetStream, sender
  <2>2. tx[s].swm \in Nat
    BY <1>t, CtlLemma, FieldTypes
  <2> QED
    BY <2>1, <2>2, FrameGrows
<1>7. ASSUME NEW s \in Streams, NEW n \in 1..MaxSize, NEW grow \in BOOLEAN,
             NEW conn_grow \in BOOLEAN, Read(s, n, grow, conn_grow)
      PROVE  Grows(c)
  <2> DEFINE f == rxfc_on_retire(rx[s], n, 0, StreamMaxWnd, grow)
             k == rxfc_on_retire(rx[Conn], n, f.cur_window_size, ConnMaxWnd,
                                 conn_grow)
  <2>c. /\ s \in Ctl /\ Conn \in Ctl /\ s # Conn /\ n \in Nat
        /\ StreamMaxWnd \in Nat /\ ConnMaxWnd \in Nat
    BY CtlLemma, <1>m, ConstantsAssumption
  <2>1. tx' = tx /\ (rx' = rx \/ rx' = [rx EXCEPT ![s] = f, ![Conn] = k])
    <3>1. tx' = tx /\ ossl_quic_rxfc_on_retire(s, n, grow, conn_grow)
      BY <1>7 DEF Read, sender
    <3> QED
      BY <3>1, Zenon DEF ossl_quic_rxfc_on_retire, f, k
  <2>2. f \in QUIC_RXFC /\ f.swm = rx[s].swm /\ f.rwm = rx[s].rwm + n
        /\ f.cwm >= rx[s].cwm
    BY <2>c, <1>x, RetireLemma
  <2>3. f.cur_window_size \in Nat
    BY <2>2 DEF QUIC_RXFC
  <2>4. k.swm = rx[Conn].swm /\ k.rwm = rx[Conn].rwm + n /\ k.cwm >= rx[Conn].cwm
    BY <2>c, <2>3, <1>x, RetireLemma
  <2> HIDE DEF f, k
  <2>5. rx'[c] = rx[c] \/ rx'[c] = (IF c = Conn THEN k ELSE IF c = s THEN f ELSE rx[c])
    BY <2>1, <2>c, <1>x
  <2> QED
    BY <2>1, <2>2, <2>4, <2>5, <2>c, <1>t, FieldTypes, UntouchedGrows DEF Grows
<1>8. ASSUME NEW d \in Ctl, TxMaxData(d) PROVE Grows(c)
  <2>1. tx' = tx /\ rx' = [rx EXCEPT ![d].has_cwm_changed = FALSE]
    BY <1>8 DEF TxMaxData, sender
  <2>2. rx'[c] = IF c = d THEN [rx[c] EXCEPT !.has_cwm_changed = FALSE] ELSE rx[c]
    BY <2>1, <1>x
  <2>3. rx[c] \in QUIC_RXFC
    BY <1>x
  <2>4. rx'[c].swm = rx[c].swm /\ rx'[c].cwm = rx[c].cwm /\ rx'[c].rwm = rx[c].rwm
    BY <2>2, <2>3 DEF QUIC_RXFC
  <2> QED
    BY <2>1, <2>4, <1>t, FieldTypes DEF Grows
<1>9. ASSUME NEW s \in Streams, NEW n \in 1..MaxSize, GenerateStreamFrames(s, n)
      PROVE  tx' = tx /\ rx' = rx
  BY <1>9 DEF GenerateStreamFrames, receiver
<1>9a. ASSUME NEW s \in Streams, SendFin(s) \/ ResetStream(s)
       PROVE  tx' = tx /\ rx' = rx
  BY <1>9a DEF SendFin, ResetStream, receiver
<1>10. ASSUME NEW m \in adv, NEW chunk \in BOOLEAN, LoseMaxData(m, chunk) PROVE tx' = tx /\ rx' = rx
  BY <1>10 DEF LoseMaxData, sender
<1>11. CASE UNCHANGED vars
  BY <1>11, <1>2 DEF vars, sender, receiver
<1>12. CASE SenderNext
  BY <1>12, <1>1, <1>2, <1>3, <1>4, <1>9, <1>9a DEF SenderNext
<1>13. CASE ReceiverNext
  BY <1>13, <1>2, <1>5, <1>7, <1>8, <1>10 DEF ReceiverNext
<1>14. CASE Resets
  BY <1>14, <1>2, <1>6, <1>9a DEF Resets
<1> QED
  BY <1>11, <1>12, <1>13, <1>14 DEF Next

-----------------------------------------------------------------------------
(***************************************************************************)
(* Theorems                                                                *)
(***************************************************************************)

\* The inductive invariant holds in every reachable state.
THEOREM InductiveInvariant == Spec => []IInv
<1>1. IInv /\ [Next]_vars => IInv'
  BY NextIInv
<1>2. Init => IInv
  BY InitIInv
<1> QED
  BY <1>1, <1>2, PTL DEF Spec

\* Every field of both endpoints' controllers keeps its type.
THEOREM TypeCorrect == Spec => []TypeOK
<1>1. IInv => TypeOK
  BY DEF IInv
<1> QED
  BY <1>1, InductiveInvariant, PTL

\* An endpoint that spends by its TXFCs never makes its peer raise a flow
\* control or final size error, at the stream or at the connection level, for
\* any number of streams, any windows and any loss, duplication and reordering
\* of frames.
THEOREM FlowControlSafe == Spec => []NoFlowControlError
<1>1. IInv => NoFlowControlError
  BY DEF IInv
<1> QED
  BY <1>1, InductiveInvariant, PTL

\* Credit is never overdrawn: the assertion in get_credit_local holds.
THEOREM CreditSafe == Spec => [](CreditNeverNegative /\ CreditWasGranted)
<1>1. IInv => CreditNeverNegative /\ CreditWasGranted
  <2> SUFFICES ASSUME IInv PROVE CreditNeverNegative /\ CreditWasGranted
    OBVIOUS
  <2>1. ~committing => tx[Conn].swm + consumed <= tx[Conn].cwm
    BY DEF IInv, Planned
  <2> QED
    BY <2>1 DEF IInv, CreditNeverNegative, StreamCredit
<1> QED
  BY <1>1, InductiveInvariant, PTL

\* The connection's watermarks are the sums of its streams' watermarks.
THEOREM SumsCorrect == Spec => []ConnectionCountsStreams
<1>1. IInv => ConnectionCountsStreams
  BY DEF IInv, Sums, ConnectionCountsStreams, Spent, Counted, Retired
<1> QED
  BY <1>1, InductiveInvariant, PTL

\* What the receiver may have to buffer is bounded by the largest window.
THEOREM BufferBounded == Spec => []PromiseBounded
<1>1. IInv => PromiseBounded
  <2> SUFFICES ASSUME IInv, NEW c \in Ctl
               PROVE  /\ rx[c].rwm <= rx[c].swm
                      /\ rx[c].swm <= rx[c].cwm
                      /\ rx[c].cwm - rx[c].rwm <= Greater(InitWnd(c), MaxWnd(c))
    BY DEF PromiseBounded
  <2>1. rx[c].rwm <= rx[c].swm
    BY DEF IInv, Ordered
  <2>2. rx[c].swm <= rx[c].cwm
    BY CreditCovers
  <2>3. rx[c].cwm - rx[c].rwm <= Greater(InitWnd(c), MaxWnd(c))
    BY DEF IInv, WindowBounded
  <2> QED
    BY <2>1, <2>2, <2>3
<1> QED
  BY <1>1, InductiveInvariant, PTL

\* No step of either endpoint takes credit back or uncounts bytes, although
\* credit frames arrive late and windows shrink.
THEOREM WatermarksGrow == Spec => WatermarksNeverDecrease
<1>1. IInv /\ [Next]_vars =>
        [\A c \in Ctl : /\ tx'[c].swm >= tx[c].swm /\ tx'[c].cwm >= tx[c].cwm
                        /\ rx'[c].swm >= rx[c].swm /\ rx'[c].cwm >= rx[c].cwm
                        /\ rx'[c].rwm >= rx[c].rwm]_vars
  BY NextGrows DEF Grows
<1> QED
  BY <1>1, InductiveInvariant, PTL DEF Spec, WatermarksNeverDecrease
==============================================================================
