-------------------------- MODULE QuicAckm_proofs --------------------------
(***************************************************************************)
(* Proofs about both halves of the ACK manager, for any number of packets, *)
(* any times, windows, delays and limits.                                  *)
(*                                                                         *)
(* Sending (QuicAckm).  Every operation is a chain of operators on the     *)
(* record of the ACK manager, and each has a lemma that says what it keeps *)
(* of Sound: the counts of bytes are the sums over the histories and of x  *)
(* and y bytes more, of packets that were taken out of a history and not   *)
(* yet reported.  The chain of an operation starts and ends with x = y =   *)
(* 0.  Around Sound, IInv says that a packet in a history has had no       *)
(* callback and every other packet sent has had one, that the timer is     *)
(* armed, that packets in a history were sent before now, and that a       *)
(* client with an Initial space has not sent a Handshake packet.           *)
(*                                                                         *)
(* Receiving (QuicAckmRx).  The receive history is exact although it       *)
(* forgets: what is dropped, by trimming to the highest ranges or by       *)
(* raising the watermark, is the part of the set below a number, and that  *)
(* number becomes the watermark.  That the number of ranges stays bounded  *)
(* is counted on the first numbers of the ranges.                          *)
(*                                                                         *)
(* UINT_SET (UintSet), in which the receive history is kept.  An insertion *)
(* replaces some neighbouring ranges by one that stands for them and for   *)
(* the new range (Merged); a removal leaves of every range what is not     *)
(* removed (LeftOf), one range after the other.  Both keep the ranges      *)
(* apart.                                                                  *)
(***************************************************************************)
EXTENDS QuicAckm, QuicAckmRx, UintSet, FiniteSetTheorems, Recursion_proofs

-----------------------------------------------------------------------------
(***************************************************************************)
(* The sending half: types                                                 *)
(***************************************************************************)

Times == Nat \ {0}
Pkts == [pn : 0..MaxPkts - 1, time : Times, kind : Kinds]
Controllers ==
    [bytes_in_flight : Int, cong_wnd : Nat, bytes_acked : Nat,
     slow_start_thresh : Nat, recovery_start : Nat,
     processing_loss : BOOLEAN, last_loss : Nat]
Estimates ==
    [smoothed : Nat, latest : Nat, min : Nat, variance : Nat,
     have_first_sample : BOOLEAN]
Ackms ==
    [hist : [Spaces -> SUBSET Pkts],
     largest_acked : [Spaces -> Int],
     last_eliciting : [Spaces -> Nat],
     loss_time : [Spaces -> Nat],
     deadline : Int,
     bytes_in_flight : Int,
     eliciting_bytes : [Spaces -> Int],
     handshake_confirmed : BOOLEAN,
     peer_completed : BOOLEAN,
     discarded : [Spaces -> BOOLEAN],
     pto_count : Nat,
     anti_deadlock : [{INITIAL, HANDSHAKE} -> Nat],
     pto : [Spaces -> Nat],
     cc : Controllers,
     rtt : Estimates]
Fates == {"acked", "lost", "discarded"}

TypeOK ==
    /\ is_server \in BOOLEAN
    /\ now \in Times
    /\ ackm \in Ackms
    /\ next_pn \in [Spaces -> 0..MaxPkts]
    /\ restarts \in Nat
    /\ fate \in [Spaces -> [0..MaxPkts - 1 -> Seq(Fates)]]
    /\ undone \in Nat

\* Each packet has a number of its own.
Distinct(S) == \A p, q \in S : p.pn = q.pn => p = q

\* The packet numbers of a set of packets.
Pns(S) == {p.pn : p \in S}

-----------------------------------------------------------------------------
(***************************************************************************)
(* Maxima and minima                                                       *)
(***************************************************************************)

\* The larger and the smaller of two numbers.
LEMMA PairMaxMin ==
    ASSUME NEW a \in Int, NEW b \in Int
    PROVE  /\ Max({a, b}) \in {a, b} /\ Max({a, b}) >= a /\ Max({a, b}) >= b
           /\ Min({a, b}) \in {a, b} /\ Min({a, b}) <= a /\ Min({a, b}) <= b
<1>1. \E x \in {a, b} : \A y \in {a, b} : x >= y
  OBVIOUS
<1>2. \E x \in {a, b} : \A y \in {a, b} : x <= y
  OBVIOUS
<1>3. Max({a, b}) \in {a, b} /\ \A y \in {a, b} : Max({a, b}) >= y
  BY <1>1 DEF Max
<1>4. Min({a, b}) \in {a, b} /\ \A y \in {a, b} : Min({a, b}) <= y
  BY <1>2 DEF Min
<1> QED
  BY <1>3, <1>4

\* The least of a set of natural numbers is one of them.
LEMMA MinIsLeast ==
    ASSUME NEW T \in SUBSET Nat, T # {}
    PROVE  Min(T) \in T /\ \A x \in T : Min(T) <= x
<1>1. \E x \in T : \A y \in T : x <= y
  BY LeastElement
<1> QED
  BY <1>1 DEF Min

-----------------------------------------------------------------------------
(***************************************************************************)
(* Bytes of a set of packets                                               *)
(***************************************************************************)

\* What AckmAssumption says of each constant.
LEMMA Constants ==
    /\ MaxPkts \in Nat /\ MaxTime \in Nat /\ MaxRestarts \in Nat
    /\ RxMaxAckDelay \in Nat /\ K_INITIAL_RTT \in Nat
    /\ MAX_PTO_COUNT \in Nat /\ Infinite \in Nat
    /\ AckDelays \subseteq Nat
    /\ K_PKT_THRESHOLD \in Nat \ {0} /\ K_GRANULARITY \in Nat \ {0}
    /\ MaxDgramSize \in Nat \ {0} /\ InitWnd \in Nat \ {0}
BY AckmAssumption

LEMMA SizeIsPositive ==
    ASSUME NEW kind PROVE Size(kind) \in Nat /\ Size(kind) > 0
BY Constants DEF Size

LEMMA BytesAtIsNat ==
    ASSUME NEW S, NEW K, NEW pn
    PROVE  BytesAt(S, K, pn) \in Nat
BY SizeIsPositive DEF BytesAt

\* sum[n] is the bytes of the packets numbered below n.
IsSum(sum, S, K) ==
    /\ sum \in [0..MaxPkts -> Nat]
    /\ sum[0] = 0
    /\ \A n \in 1..MaxPkts : sum[n] = sum[n - 1] + BytesAt(S, K, n - 1)

LEMMA BytesIsSum ==
    ASSUME NEW S, NEW K
    PROVE  \E sum : IsSum(sum, S, K) /\ Bytes(S, K) = sum[MaxPkts]
<1> DEFINE w(pn) == BytesAt(S, K, pn)
           Computes(g) ==
               g = [n \in 0..MaxPkts |-> IF n = 0 THEN 0 ELSE g[n - 1] + w(n - 1)]
           sum == CHOOSE g : Computes(g)
<1>1. Bytes(S, K) = sum[MaxPkts]
  BY DEF Bytes
<1>2. \A pn : w(pn) \in Nat
  BY BytesAtIsNat
<1> HIDE DEF w
<1>3. \E g : Computes(g) /\ g \in [0..MaxPkts -> Nat]
  <2> DEFINE G == [n \in 1..MaxPkts |-> [x \in Nat |-> x + w(n - 1)]]
  <2>1. G \in [1..MaxPkts -> [Nat -> Nat]]
    <3>1. \A n \in 1..MaxPkts : \A x \in Nat : x + w(n - 1) \in Nat
      BY <1>2
    <3> QED
      BY <3>1
  <2>2. PICK g : IsLoop(g, MaxPkts, Nat, 0, G)
    <3>1. 0 \in Nat /\ MaxPkts \in Nat
      BY Constants
    <3> HIDE DEF G
    <3> QED
      BY <2>1, <3>1, LoopExists
  <2>3. ASSUME NEW n \in 1..MaxPkts PROVE g[n] = g[n - 1] + w(n - 1)
    <3>1. n - 1 \in 0..MaxPkts
      BY Constants
    <3>2. g[n - 1] \in Nat
      BY <2>2, <3>1 DEF IsLoop
    <3>3. G[n][g[n - 1]] = g[n - 1] + w(n - 1)
      BY <3>2
    <3> QED
      BY <2>2, <3>3 DEF IsLoop
  <2> QED
    BY <2>2, <2>3, Constants DEF IsLoop
<1>4. Computes(sum)
  BY <1>3
<1> HIDE DEF sum
<1>5. \A n \in 0..MaxPkts : sum[n] \in Nat
  <2>1. sum[0] \in Nat
    BY <1>4, Constants
  <2>2. \A n \in 1..MaxPkts : sum[n - 1] \in Nat => sum[n] \in Nat
    BY <1>2, <1>4, Constants
  <2> HIDE DEF Computes
  <2> QED
    BY <2>1, <2>2, Constants, LoopInvariant
<1>6. sum \in [0..MaxPkts -> Nat]
  BY <1>4, <1>5
<1>7. sum[0] = 0 /\ \A n \in 1..MaxPkts : sum[n] = sum[n - 1] + w(n - 1)
  BY <1>4, Constants
<1> QED
  BY <1>1, <1>6, <1>7 DEF IsSum, w

\* Sums grow with the number of packets.
LEMMA SumGrows ==
    ASSUME NEW sum, NEW S, NEW K, IsSum(sum, S, K)
    PROVE  \A n \in 0..MaxPkts : sum[n] <= sum[MaxPkts]
<1> DEFINE f == [d \in 0..MaxPkts |-> sum[MaxPkts] - sum[MaxPkts - d]]
<1>1. f[0] \in Nat
  BY Constants DEF IsSum
<1>2. ASSUME NEW d \in 1..MaxPkts, f[d - 1] \in Nat PROVE f[d] \in Nat
  <2> DEFINE n == MaxPkts - (d - 1)
  <2>1. n \in 1..MaxPkts /\ n - 1 = MaxPkts - d /\ d - 1 \in 0..MaxPkts
    BY Constants
  <2>2. sum[n] = sum[n - 1] + BytesAt(S, K, n - 1)
    BY <2>1 DEF IsSum
  <2>3. BytesAt(S, K, n - 1) \in Nat
    BY BytesAtIsNat
  <2>4. f[d - 1] = sum[MaxPkts] - sum[n] /\ f[d] = sum[MaxPkts] - sum[n - 1]
    BY <2>1
  <2>5. sum[n] \in Nat /\ sum[n - 1] \in Nat /\ sum[MaxPkts] \in Nat
    BY <2>1, Constants DEF IsSum
  <2> QED
    BY <1>2, <2>2, <2>3, <2>4, <2>5
<1>3. \A d \in 0..MaxPkts : f[d] \in Nat
  <2> HIDE DEF f
  <2> QED
    BY <1>1, <1>2, Constants, LoopInvariant
<1> SUFFICES ASSUME NEW n \in 0..MaxPkts PROVE sum[n] <= sum[MaxPkts]
  OBVIOUS
<1>4. MaxPkts - n \in 0..MaxPkts /\ MaxPkts - (MaxPkts - n) = n
  BY Constants
<1>5. sum[MaxPkts] - sum[n] \in Nat
  BY <1>3, <1>4
<1>6. sum[n] \in Nat /\ sum[MaxPkts] \in Nat
  BY Constants DEF IsSum
<1> QED
  BY <1>5, <1>6

LEMMA BytesIsNat ==
    ASSUME NEW S, NEW K
    PROVE  Bytes(S, K) \in Nat
BY BytesIsSum, Constants DEF IsSum

\* Bytes that add up for every packet number add up.
LEMMA BytesAdd ==
    ASSUME NEW S, NEW T, NEW U, NEW K,
           \A pn \in 0..MaxPkts - 1 :
               BytesAt(S, K, pn) = BytesAt(T, K, pn) + BytesAt(U, K, pn)
    PROVE  Bytes(S, K) = Bytes(T, K) + Bytes(U, K)
<1>1. PICK a : IsSum(a, S, K) /\ Bytes(S, K) = a[MaxPkts]
  BY BytesIsSum
<1>2. PICK b : IsSum(b, T, K) /\ Bytes(T, K) = b[MaxPkts]
  BY BytesIsSum
<1>3. PICK c : IsSum(c, U, K) /\ Bytes(U, K) = c[MaxPkts]
  BY BytesIsSum
<1> DEFINE f == [n \in 0..MaxPkts |-> a[n] - (b[n] + c[n])]
<1>4. f[0] \in {0}
  BY <1>1, <1>2, <1>3, Constants DEF IsSum
<1>5. ASSUME NEW n \in 1..MaxPkts, f[n - 1] \in {0} PROVE f[n] \in {0}
  <2>1. n - 1 \in 0..MaxPkts /\ n - 1 \in 0..MaxPkts - 1 /\ n \in 0..MaxPkts
    BY Constants
  <2>2. /\ a[n] = a[n - 1] + BytesAt(S, K, n - 1)
        /\ b[n] = b[n - 1] + BytesAt(T, K, n - 1)
        /\ c[n] = c[n - 1] + BytesAt(U, K, n - 1)
    BY <1>1, <1>2, <1>3 DEF IsSum
  <2>3. BytesAt(S, K, n - 1) = BytesAt(T, K, n - 1) + BytesAt(U, K, n - 1)
    BY <2>1
  <2>4. /\ BytesAt(T, K, n - 1) \in Nat /\ BytesAt(U, K, n - 1) \in Nat
        /\ a[n - 1] \in Nat /\ b[n - 1] \in Nat /\ c[n - 1] \in Nat
    BY <1>1, <1>2, <1>3, <2>1, BytesAtIsNat DEF IsSum
  <2>5. a[n - 1] - (b[n - 1] + c[n - 1]) = 0
    BY <1>5, <2>1
  <2>6. f[n] = a[n] - (b[n] + c[n])
    BY <2>1
  <2> QED
    BY <2>2, <2>3, <2>4, <2>5, <2>6
<1>6. \A n \in 0..MaxPkts : f[n] \in {0}
  <2> HIDE DEF f
  <2> QED
    BY <1>4, <1>5, Constants, LoopInvariant
<1>7. MaxPkts \in 0..MaxPkts
  BY Constants
<1>8. a[MaxPkts] - (b[MaxPkts] + c[MaxPkts]) = 0
  BY <1>6, <1>7
<1>9. a[MaxPkts] \in Nat /\ b[MaxPkts] \in Nat /\ c[MaxPkts] \in Nat
  BY <1>1, <1>2, <1>3, <1>7 DEF IsSum
<1> QED
  BY <1>1, <1>2, <1>3, <1>8, <1>9

\* The packet found by its number.
LEMMA PktAtIs ==
    ASSUME NEW S, Distinct(S), NEW p \in S
    PROVE  PktAt(S, p.pn) = p
<1>1. PktAt(S, p.pn) \in S /\ PktAt(S, p.pn).pn = p.pn
  BY DEF PktAt
<1> QED
  BY <1>1 DEF Distinct

\* Taking packets out of a set takes their bytes out of its bytes.
LEMMA BytesSplit ==
    ASSUME NEW S, Distinct(S), NEW T \in SUBSET S, NEW K
    PROVE  Bytes(S, K) = Bytes(S \ T, K) + Bytes(T, K)
<1> SUFFICES ASSUME NEW pn \in 0..MaxPkts - 1
             PROVE  BytesAt(S, K, pn) = BytesAt(S \ T, K, pn) + BytesAt(T, K, pn)
  BY BytesAdd
<1>1. Distinct(T) /\ Distinct(S \ T)
  BY DEF Distinct
<1>2. CASE ~ \E p \in S : p.pn = pn /\ p.kind \in K
  BY <1>2 DEF BytesAt
<1>3. ASSUME NEW p \in S, p.pn = pn, p.kind \in K
      PROVE  BytesAt(S, K, pn) = BytesAt(S \ T, K, pn) + BytesAt(T, K, pn)
  <2>1. BytesAt(S, K, pn) = Size(p.kind)
    BY <1>3, PktAtIs DEF BytesAt
  <2>2. CASE p \in T
    <3>1. BytesAt(T, K, pn) = Size(p.kind)
      BY <1>1, <1>3, <2>2, PktAtIs DEF BytesAt
    <3>2. ~ \E q \in S \ T : q.pn = pn /\ q.kind \in K
      BY <1>3, <2>2 DEF Distinct
    <3>3. BytesAt(S \ T, K, pn) = 0
      BY <3>2 DEF BytesAt
    <3> QED
      BY <2>1, <3>1, <3>3, SizeIsPositive
  <2>3. CASE p \notin T
    <3>1. BytesAt(S \ T, K, pn) = Size(p.kind)
      BY <1>1, <1>3, <2>3, PktAtIs DEF BytesAt
    <3>2. ~ \E q \in T : q.pn = pn /\ q.kind \in K
      BY <1>3, <2>3 DEF Distinct
    <3>3. BytesAt(T, K, pn) = 0
      BY <3>2 DEF BytesAt
    <3> QED
      BY <2>1, <3>1, <3>3, SizeIsPositive
  <2> QED
    BY <2>2, <2>3
<1> QED
  BY <1>2, <1>3

LEMMA BytesEmpty ==
    ASSUME NEW K PROVE Bytes({}, K) = 0
<1>1. Bytes({}, K) = Bytes({} \ {}, K) + Bytes({}, K)
  BY BytesSplit DEF Distinct
<1>2. {} \ {} = {}
  OBVIOUS
<1> QED
  BY <1>1, <1>2, BytesIsNat

\* The bytes of one packet.
LEMMA BytesOne ==
    ASSUME NEW p, p.pn \in 0..MaxPkts - 1, NEW K
    PROVE  Bytes({p}, K) = IF p.kind \in K THEN Size(p.kind) ELSE 0
<1> DEFINE v == IF p.kind \in K THEN Size(p.kind) ELSE 0
           T == [n \in 0..MaxPkts |-> IF n <= p.pn THEN {0} ELSE {v}]
<1>1. PICK sum : IsSum(sum, {p}, K) /\ Bytes({p}, K) = sum[MaxPkts]
  BY BytesIsSum
<1>2. v \in Nat
  BY SizeIsPositive
<1>3. PktAt({p}, p.pn) = p
  BY PktAtIs DEF Distinct
<1>4. BytesAt({p}, K, p.pn) = v
  BY <1>3 DEF BytesAt
<1>5. \A pn : pn # p.pn => BytesAt({p}, K, pn) = 0
  BY DEF BytesAt
<1> HIDE DEF v
<1>6. sum[0] \in T[0]
  BY <1>1, Constants DEF IsSum
<1>7. ASSUME NEW n \in 1..MaxPkts, sum[n - 1] \in T[n - 1] PROVE sum[n] \in T[n]
  <2>1. sum[n] = sum[n - 1] + BytesAt({p}, K, n - 1)
    BY <1>1 DEF IsSum
  <2>2. n - 1 \in 0..MaxPkts /\ n \in 0..MaxPkts /\ n \in Nat /\ n > 0
    BY Constants
  <2>3. CASE n <= p.pn
    <3>1. n - 1 <= p.pn /\ n - 1 # p.pn
      BY <2>2, <2>3, Constants
    <3>2. sum[n - 1] = 0 /\ T[n] = {0}
      BY <1>7, <2>2, <2>3, <3>1
    <3>3. BytesAt({p}, K, n - 1) = 0
      BY <1>5, <3>1
    <3> QED
      BY <2>1, <3>2, <3>3
  <2>4. CASE n = p.pn + 1
    <3>1. n - 1 = p.pn /\ ~(n <= p.pn)
      BY <2>2, <2>4, Constants
    <3>2. sum[n - 1] = 0 /\ T[n] = {v}
      BY <1>7, <2>2, <3>1
    <3> QED
      BY <1>2, <1>4, <2>1, <3>1, <3>2
  <2>5. CASE n > p.pn + 1
    <3>1. n - 1 # p.pn /\ ~(n <= p.pn) /\ ~(n - 1 <= p.pn)
      BY <2>2, <2>5, Constants
    <3>2. sum[n - 1] = v /\ T[n] = {v}
      BY <1>7, <2>2, <3>1
    <3>3. BytesAt({p}, K, n - 1) = 0
      BY <1>5, <3>1
    <3>4. sum[n] = v
      BY <1>2, <2>1, <3>2, <3>3
    <3> HIDE DEF T
    <3> QED
      BY <3>2, <3>4
  <2> QED
    BY <2>2, <2>3, <2>4, <2>5, Constants
<1>8. sum[MaxPkts] \in T[MaxPkts]
  <2>1. \A n \in 0..MaxPkts : sum[n] \in T[n]
    <3> HIDE DEF T
    <3> QED
      BY <1>6, <1>7, Constants, LoopProgress
  <2>2. MaxPkts \in 0..MaxPkts
    BY Constants
  <2> HIDE DEF T
  <2> QED
    BY <2>1, <2>2
<1>9. T[MaxPkts] = {v}
  BY Constants
<1> QED
  BY <1>1, <1>8, <1>9 DEF v

-----------------------------------------------------------------------------
(***************************************************************************)
(* The congestion controller                                               *)
(***************************************************************************)

MinWnd == Min({k_min_wnd, InitWnd})

LEMMA MinWndIs == k_min_wnd \in Nat /\ MinWnd \in Nat /\ MinWnd <= k_min_wnd
<1>1. k_min_wnd \in Nat
  BY Constants DEF k_min_wnd
<1>2. k_min_wnd \in Int /\ InitWnd \in Int /\ InitWnd \in Nat
  BY <1>1, Constants
<1> QED
  BY <1>1, <1>2, PairMaxMin DEF MinWnd

\* A lost packet is taken out of the bytes in flight, and starts or joins the
\* loss that is being processed; the window is left for later.
LEMMA OneLost ==
    ASSUME NEW c \in Controllers, NEW t \in Times, NEW b \in Nat
    PROVE  LET r == newreno_on_data_lost(c, t, b)
           IN  /\ r \in Controllers
               /\ b <= c.bytes_in_flight
                    => r.bytes_in_flight = c.bytes_in_flight - b
               /\ r.cong_wnd = c.cong_wnd
               /\ r.recovery_start = c.recovery_start
               /\ r.processing_loss =>
                    \/ c.processing_loss /\ r.last_loss = c.last_loss
                    \/ r.last_loss = t
<1> DEFINE d == [c EXCEPT !.bytes_in_flight = @ - b]
           last == Max({d.last_loss, t})
<1>1. /\ d \in Controllers /\ d.bytes_in_flight = c.bytes_in_flight - b
      /\ d.cong_wnd = c.cong_wnd /\ d.recovery_start = c.recovery_start
      /\ d.processing_loss = c.processing_loss /\ d.last_loss = c.last_loss
  BY DEF Controllers
<1>2. c.last_loss \in Nat /\ t \in Nat /\ c.bytes_in_flight \in Int
  BY DEF Controllers, Times
<1>3. /\ last \in {c.last_loss, t} /\ last >= t /\ last >= c.last_loss
      /\ last \in Nat
  BY <1>1, <1>2, PairMaxMin
<1> DEFINE r == newreno_on_data_lost(c, t, b)
<1>4. r = IF b > c.bytes_in_flight THEN c
          ELSE IF d.processing_loss THEN [d EXCEPT !.last_loss = last]
          ELSE IF t <= d.last_loss THEN d
          ELSE [d EXCEPT !.processing_loss = TRUE, !.bytes_acked = 0,
                         !.last_loss = last]
  BY DEF newreno_on_data_lost
<1> HIDE DEF d, last, r
<1>5. CASE b > c.bytes_in_flight
  <2>1. r = c
    BY <1>4, <1>5
  <2> QED
    BY <1>2, <1>5, <2>1 DEF r
<1>6. CASE ~(b > c.bytes_in_flight) /\ d.processing_loss
  <2>1. r = [d EXCEPT !.last_loss = last]
    BY <1>4, <1>6
  <2>2. /\ r \in Controllers /\ r.bytes_in_flight = d.bytes_in_flight
        /\ r.cong_wnd = d.cong_wnd /\ r.recovery_start = d.recovery_start
        /\ r.last_loss = last
    BY <1>1, <1>3, <2>1 DEF Controllers
  <2> QED
    BY <1>1, <1>3, <1>6, <2>2 DEF r
<1>7. CASE ~(b > c.bytes_in_flight) /\ ~d.processing_loss /\ t <= d.last_loss
  <2>1. r = d
    BY <1>4, <1>7
  <2> QED
    BY <1>1, <1>7, <2>1 DEF r
<1>8. CASE ~(b > c.bytes_in_flight) /\ ~d.processing_loss /\ ~(t <= d.last_loss)
  <2>1. r = [d EXCEPT !.processing_loss = TRUE, !.bytes_acked = 0,
                      !.last_loss = last]
    BY <1>4, <1>8
  <2>2. /\ r \in Controllers /\ r.bytes_in_flight = d.bytes_in_flight
        /\ r.cong_wnd = d.cong_wnd /\ r.recovery_start = d.recovery_start
        /\ r.last_loss = last
    BY <1>1, <1>3, <2>1 DEF Controllers
  <2>3. last = t
    BY <1>1, <1>2, <1>3, <1>8
  <2> QED
    BY <1>1, <2>2, <2>3 DEF r
<1> QED
  BY <1>5, <1>6, <1>7, <1>8

\* The end of a round of losses: the window is reduced, never below its least
\* value, when the newest loss came after the last reduction.
LEMMA LostFinished ==
    ASSUME NEW c \in Controllers, now \in Times, c.cong_wnd >= MinWnd
    PROVE  LET r == newreno_on_data_lost_finished(c)
           IN  /\ r \in Controllers
               /\ r.bytes_in_flight = c.bytes_in_flight
               /\ ~r.processing_loss
               /\ r.cong_wnd >= MinWnd
               /\ r.cong_wnd < c.cong_wnd =>
                    c.processing_loss /\ c.last_loss > c.recovery_start
<1> DEFINE r == newreno_on_data_lost_finished(c)
           wnd == Max({c.cong_wnd \div 2, k_min_wnd})
           d == [c EXCEPT !.recovery_start = now,
                          !.slow_start_thresh = c.cong_wnd \div 2,
                          !.cong_wnd = wnd]
<1>1. c.cong_wnd \in Nat /\ c.cong_wnd \div 2 \in Nat
  BY DEF Controllers
<1>2. wnd \in Nat /\ wnd >= k_min_wnd /\ wnd >= MinWnd
  <2>1. k_min_wnd \in Int /\ c.cong_wnd \div 2 \in Int
    BY <1>1, MinWndIs
  <2>2. wnd \in {c.cong_wnd \div 2, k_min_wnd} /\ wnd >= k_min_wnd
    BY <2>1, PairMaxMin
  <2> HIDE DEF wnd
  <2> QED
    BY <1>1, <2>2, MinWndIs
<1>3. /\ d \in Controllers /\ d.bytes_in_flight = c.bytes_in_flight
      /\ d.cong_wnd = wnd
  BY <1>1, <1>2 DEF Controllers, Times
<1>4. r = IF c.processing_loss
          THEN [(IF c.last_loss <= c.recovery_start THEN c ELSE d)
                  EXCEPT !.processing_loss = FALSE]
          ELSE c
  BY DEF newreno_on_data_lost_finished, newreno_cong, newreno_in_cong_recovery
<1> HIDE DEF wnd, d, r
<1>5. CASE ~c.processing_loss
  <2>1. r = c
    BY <1>4, <1>5
  <2> QED
    BY <1>1, <1>5, <2>1 DEF r
<1>6. CASE c.processing_loss /\ c.last_loss <= c.recovery_start
  <2>1. r = [c EXCEPT !.processing_loss = FALSE]
    BY <1>4, <1>6
  <2>2. /\ r \in Controllers /\ r.bytes_in_flight = c.bytes_in_flight
        /\ ~r.processing_loss /\ r.cong_wnd = c.cong_wnd
    BY <2>1 DEF Controllers
  <2> QED
    BY <1>1, <2>2 DEF r
<1>7. CASE c.processing_loss /\ ~(c.last_loss <= c.recovery_start)
  <2>1. r = [d EXCEPT !.processing_loss = FALSE]
    BY <1>4, <1>7
  <2>2. /\ r \in Controllers /\ r.bytes_in_flight = c.bytes_in_flight
        /\ ~r.processing_loss /\ r.cong_wnd = wnd
    BY <1>3, <2>1 DEF Controllers
  <2>3. c.last_loss > c.recovery_start
    BY <1>7 DEF Controllers
  <2> QED
    BY <1>2, <1>7, <2>2, <2>3 DEF r
<1> QED
  BY <1>5, <1>6, <1>7

\* An acknowledged packet is taken out of the bytes in flight, and never makes
\* the window smaller.
LEMMA OneAcked ==
    ASSUME NEW c \in Controllers, NEW t \in Times, NEW b \in Nat
    PROVE  LET r == newreno_on_data_acked(c, t, b)
           IN  /\ r \in Controllers
               /\ r.bytes_in_flight = c.bytes_in_flight - b
               /\ r.cong_wnd >= c.cong_wnd
               /\ r.processing_loss = c.processing_loss
<1> DEFINE d == [c EXCEPT !.bytes_in_flight = @ - b]
           acked == d.bytes_acked + b
           idle == ~newreno_is_cong_limited(d) \/ newreno_in_cong_recovery(d, t)
           r == newreno_on_data_acked(c, t, b)
<1>1. /\ d \in Controllers /\ d.bytes_in_flight = c.bytes_in_flight - b
      /\ d.cong_wnd = c.cong_wnd /\ d.bytes_acked \in Nat /\ d.cong_wnd \in Nat
      /\ d.processing_loss = c.processing_loss
  BY DEF Controllers
<1>2. r = IF idle THEN d
          ELSE IF d.cong_wnd < d.slow_start_thresh
          THEN [d EXCEPT !.cong_wnd = @ + b]
          ELSE IF acked >= d.cong_wnd
          THEN [d EXCEPT !.bytes_acked = acked - d.cong_wnd,
                         !.cong_wnd = @ + MaxDgramSize]
          ELSE [d EXCEPT !.bytes_acked = acked]
  BY DEF newreno_on_data_acked
<1>3. acked \in Nat
  BY <1>1
<1> HIDE DEF d, acked, idle, r
<1>4. CASE r = d
  BY <1>1, <1>4 DEF r
<1>5. CASE r = [d EXCEPT !.cong_wnd = @ + b]
  <2>1. /\ r \in Controllers /\ r.bytes_in_flight = d.bytes_in_flight
        /\ r.cong_wnd = d.cong_wnd + b /\ r.processing_loss = d.processing_loss
    BY <1>1, <1>5 DEF Controllers
  <2> QED
    BY <1>1, <2>1 DEF r
<1>6. CASE /\ r = [d EXCEPT !.bytes_acked = acked - d.cong_wnd,
                            !.cong_wnd = @ + MaxDgramSize]
           /\ acked >= d.cong_wnd
  <2>1. acked - d.cong_wnd \in Nat /\ d.cong_wnd + MaxDgramSize \in Nat
    BY <1>1, <1>3, <1>6, Constants
  <2>2. /\ r \in Controllers /\ r.bytes_in_flight = d.bytes_in_flight
        /\ r.cong_wnd = d.cong_wnd + MaxDgramSize
        /\ r.processing_loss = d.processing_loss
    BY <1>1, <1>6, <2>1 DEF Controllers
  <2> QED
    BY <1>1, <2>2, Constants DEF r
<1>7. CASE r = [d EXCEPT !.bytes_acked = acked]
  <2>1. /\ r \in Controllers /\ r.bytes_in_flight = d.bytes_in_flight
        /\ r.cong_wnd = d.cong_wnd /\ r.processing_loss = d.processing_loss
    BY <1>1, <1>3, <1>7 DEF Controllers
  <2> QED
    BY <1>1, <2>1 DEF r
<1> QED
  BY <1>2, <1>4, <1>5, <1>6, <1>7

InflightKinds == {"eliciting", "inflight"}

\* The packet of a set that has a number, if it is in flight.
LEMMA InflightAt ==
    ASSUME NEW S \in SUBSET Pkts, Distinct(S), NEW pn \in 0..MaxPkts - 1
    PROVE  IF pn \in InflightPns(S)
           THEN /\ PktAt(S, pn) \in S
                /\ PktAt(S, pn).time \in Times
                /\ BytesAt(S, InflightKinds, pn) = Size(PktAt(S, pn).kind)
           ELSE BytesAt(S, InflightKinds, pn) = 0
<1>1. CASE pn \in InflightPns(S)
  <2>1. PICK p \in S : IsInflight(p) /\ p.pn = pn
    BY <1>1 DEF InflightPns
  <2>2. PktAt(S, pn) = p
    BY <2>1, PktAtIs
  <2>3. p \in Pkts /\ p.kind \in Kinds /\ p.time \in Times
    BY DEF Pkts
  <2>4. p.kind \in InflightKinds
    BY <2>1, <2>3 DEF IsInflight, Kinds, InflightKinds
  <2>5. BytesAt(S, InflightKinds, pn) = Size(PktAt(S, pn).kind)
    BY <2>1, <2>4 DEF BytesAt
  <2> QED
    BY <1>1, <2>2, <2>3, <2>5
<1>2. CASE pn \notin InflightPns(S)
  <2>1. \A p \in S : p.pn = pn => p.kind \notin InflightKinds
    BY <1>2 DEF InflightPns, IsInflight, InflightKinds
  <2> QED
    BY <1>2, <2>1 DEF BytesAt
<1> QED
  BY <1>1, <1>2

\* What becomes of the controller's state with the first n packet numbers of a
\* report of lost packets: the bytes in flight shrink by what is in flight of
\* them, and a loss that is being processed is the loss of one of them.
Losing(c, S, x) ==
    {d \in Controllers :
        /\ d.bytes_in_flight = c.bytes_in_flight - x
        /\ d.cong_wnd = c.cong_wnd
        /\ d.recovery_start = c.recovery_start
        /\ d.processing_loss => \E p \in S : p.time = d.last_loss}

LEMMA LostReported ==
    ASSUME NEW c \in Controllers, ~c.processing_loss,
           NEW S \in SUBSET Pkts, Distinct(S),
           InflightBytes(S) <= c.bytes_in_flight
    PROVE  ReportLost(c, S) \in Losing(c, S, InflightBytes(S))
<1> DEFINE Step(d, n) ==
               IF n - 1 \in InflightPns(S)
               THEN newreno_on_data_lost(d, PktAt(S, n - 1).time,
                                         Size(PktAt(S, n - 1).kind))
               ELSE d
           Computes(g) ==
               g = [n \in 0..MaxPkts |-> IF n = 0 THEN c ELSE Step(g[n - 1], n)]
           cc == CHOOSE g : Computes(g)
<1>1. ReportLost(c, S) = cc[MaxPkts]
  BY DEF ReportLost
<1>2. ASSUME NEW n \in 1..MaxPkts, NEW d \in Controllers
      PROVE  Step(d, n) \in Controllers
  <2>1. n - 1 \in 0..MaxPkts - 1
    BY Constants
  <2>2. CASE n - 1 \in InflightPns(S)
    <3>1. PktAt(S, n - 1).time \in Times /\ Size(PktAt(S, n - 1).kind) \in Nat
      BY <2>1, <2>2, InflightAt, SizeIsPositive
    <3> QED
      BY <2>2, <3>1, OneLost
  <2>3. CASE n - 1 \notin InflightPns(S)
    BY <2>3
  <2> QED
    BY <2>2, <2>3
<1>3. PICK sum : IsSum(sum, S, InflightKinds)
                   /\ Bytes(S, InflightKinds) = sum[MaxPkts]
  BY BytesIsSum
<1>4. InflightBytes(S) = sum[MaxPkts]
  BY <1>3 DEF InflightBytes, InflightKinds
<1> DEFINE T == [n \in 0..MaxPkts |-> Losing(c, S, sum[n])]
<1>5. ASSUME NEW n \in 1..MaxPkts, NEW d, d \in T[n - 1]
      PROVE  Step(d, n) \in T[n]
  <2> DEFINE pn == n - 1
  <2>1. pn \in 0..MaxPkts - 1 /\ pn \in 0..MaxPkts /\ n \in 0..MaxPkts
    BY Constants
  <2>2. d \in Losing(c, S, sum[pn]) /\ T[n] = Losing(c, S, sum[n])
    BY <1>5, <2>1
  <2>3. d \in Controllers
    BY <2>2 DEF Losing
  <2>4. sum[n] = sum[pn] + BytesAt(S, InflightKinds, pn)
    BY <1>3 DEF IsSum
  <2>5. /\ sum[n] \in Nat /\ sum[pn] \in Nat /\ c.bytes_in_flight \in Int
        /\ sum[n] <= sum[MaxPkts] /\ sum[MaxPkts] \in Nat
    <3>1. sum[n] <= sum[MaxPkts]
      BY <1>3, <2>1, SumGrows
    <3> QED
      BY <1>3, <2>1, <3>1, Constants DEF IsSum, Controllers
  <2> HIDE DEF T, pn
  <2>6. CASE pn \in InflightPns(S)
    <3> DEFINE p == PktAt(S, pn)
               b == Size(p.kind)
               r == newreno_on_data_lost(d, p.time, b)
    <3>1. Step(d, n) = r
      BY <2>6 DEF pn
    <3>2. /\ p \in S /\ p.time \in Times /\ b \in Nat
          /\ BytesAt(S, InflightKinds, pn) = b
      BY <2>1, <2>6, InflightAt, SizeIsPositive
    <3> HIDE DEF p, b
    <3>3. /\ r \in Controllers
          /\ b <= d.bytes_in_flight
               => r.bytes_in_flight = d.bytes_in_flight - b
          /\ r.cong_wnd = d.cong_wnd
          /\ r.recovery_start = d.recovery_start
          /\ r.processing_loss =>
               \/ d.processing_loss /\ r.last_loss = d.last_loss
               \/ r.last_loss = p.time
      BY <2>3, <3>2, OneLost
    <3> HIDE DEF r
    <3>4. /\ d.bytes_in_flight = c.bytes_in_flight - sum[pn]
          /\ d.cong_wnd = c.cong_wnd
          /\ d.recovery_start = c.recovery_start
          /\ d.processing_loss => \E q \in S : q.time = d.last_loss
      BY <2>2 DEF Losing
    <3>5. b <= d.bytes_in_flight
      BY <1>4, <2>4, <2>5, <3>2, <3>4
    <3>6. r.bytes_in_flight = c.bytes_in_flight - sum[n]
      BY <2>4, <2>5, <3>2, <3>3, <3>4, <3>5
    <3>7. r.processing_loss => \E q \in S : q.time = r.last_loss
      BY <3>2, <3>3, <3>4
    <3>8. r \in Losing(c, S, sum[n])
      BY <3>3, <3>4, <3>6, <3>7 DEF Losing
    <3> QED
      BY <2>2, <3>1, <3>8
  <2>7. CASE pn \notin InflightPns(S)
    <3>1. Step(d, n) = d
      BY <2>7 DEF pn
    <3>2. BytesAt(S, InflightKinds, pn) = 0
      BY <2>1, <2>7, InflightAt
    <3>3. sum[n] = sum[pn]
      BY <2>4, <2>5, <3>2
    <3> QED
      BY <2>2, <3>1, <3>3
  <2> QED
    BY <2>6, <2>7
<1>6. c \in T[0]
  <2>1. sum[0] = 0 /\ 0 \in 0..MaxPkts
    BY <1>3, Constants DEF IsSum
  <2>2. c.bytes_in_flight - 0 = c.bytes_in_flight
    BY DEF Controllers
  <2> QED
    BY <2>1, <2>2 DEF Losing
<1> HIDE DEF Step
<1>7. \E g : Computes(g)
  <2> DEFINE G == [n \in 1..MaxPkts |-> [d \in Controllers |-> Step(d, n)]]
  <2>1. G \in [1..MaxPkts -> [Controllers -> Controllers]]
    BY <1>2
  <2>2. PICK g : IsLoop(g, MaxPkts, Controllers, c, G)
    <3>1. c \in Controllers /\ MaxPkts \in Nat
      BY Constants
    <3> HIDE DEF G
    <3> QED
      BY <2>1, <3>1, LoopExists
  <2>3. ASSUME NEW n \in 1..MaxPkts PROVE g[n] = Step(g[n - 1], n)
    <3>1. n - 1 \in 0..MaxPkts
      BY Constants
    <3>2. g[n - 1] \in Controllers
      BY <2>2, <3>1 DEF IsLoop
    <3>3. G[n][g[n - 1]] = Step(g[n - 1], n)
      BY <3>2
    <3> QED
      BY <2>2, <3>3 DEF IsLoop
  <2> QED
    BY <2>2, <2>3, Constants DEF IsLoop
<1>8. Computes(cc)
  BY <1>7
<1> HIDE DEF cc
<1>9. cc[0] \in T[0]
  <2>1. cc[0] = c
    BY <1>8, Constants
  <2> HIDE DEF T
  <2> QED
    BY <1>6, <2>1
<1>10. ASSUME NEW n \in 1..MaxPkts, cc[n - 1] \in T[n - 1] PROVE cc[n] \in T[n]
  <2>1. cc[n] = Step(cc[n - 1], n)
    BY <1>8, Constants
  <2> HIDE DEF T, Computes
  <2> QED
    BY <1>5, <1>10, <2>1
<1>11. \A n \in 0..MaxPkts : cc[n] \in T[n]
  <2> HIDE DEF T, Computes
  <2> QED
    BY <1>9, <1>10, Constants, LoopProgress
<1>12. MaxPkts \in 0..MaxPkts
  BY Constants
<1> QED
  BY <1>1, <1>4, <1>11, <1>12

\* The same for a report of acknowledged packets, from the newest down.
Acking(c, x) ==
    {d \in Controllers :
        /\ d.bytes_in_flight = c.bytes_in_flight - x
        /\ d.cong_wnd >= c.cong_wnd
        /\ d.processing_loss = c.processing_loss}

LEMMA AckedReported ==
    ASSUME NEW c \in Controllers, NEW S \in SUBSET Pkts, Distinct(S)
    PROVE  ReportAcked(c, S) \in Acking(c, InflightBytes(S))
<1> DEFINE Step(d, n) ==
               IF MaxPkts - n \in InflightPns(S)
               THEN newreno_on_data_acked(d, PktAt(S, MaxPkts - n).time,
                                          Size(PktAt(S, MaxPkts - n).kind))
               ELSE d
           Computes(g) ==
               g = [n \in 0..MaxPkts |-> IF n = 0 THEN c ELSE Step(g[n - 1], n)]
           cc == CHOOSE g : Computes(g)
<1>1. ReportAcked(c, S) = cc[MaxPkts]
  BY DEF ReportAcked
<1>2. ASSUME NEW n \in 1..MaxPkts, NEW d \in Controllers
      PROVE  Step(d, n) \in Controllers
  <2>1. MaxPkts - n \in 0..MaxPkts - 1
    BY Constants
  <2>2. CASE MaxPkts - n \in InflightPns(S)
    <3>1. /\ PktAt(S, MaxPkts - n).time \in Times
          /\ Size(PktAt(S, MaxPkts - n).kind) \in Nat
      BY <2>1, <2>2, InflightAt, SizeIsPositive
    <3> QED
      BY <2>2, <3>1, OneAcked
  <2>3. CASE MaxPkts - n \notin InflightPns(S)
    BY <2>3
  <2> QED
    BY <2>2, <2>3
<1>3. PICK sum : IsSum(sum, S, InflightKinds)
                   /\ Bytes(S, InflightKinds) = sum[MaxPkts]
  BY BytesIsSum
<1>4. InflightBytes(S) = sum[MaxPkts]
  BY <1>3 DEF InflightBytes, InflightKinds
<1> DEFINE T == [n \in 0..MaxPkts |-> Acking(c, sum[MaxPkts] - sum[MaxPkts - n])]
<1>5. ASSUME NEW n \in 1..MaxPkts, NEW d, d \in T[n - 1]
      PROVE  Step(d, n) \in T[n]
  <2> DEFINE pn == MaxPkts - n
             N == sum[MaxPkts]
  <2>1. /\ pn \in 0..MaxPkts - 1 /\ pn \in 0..MaxPkts /\ n \in 0..MaxPkts
        /\ pn + 1 = MaxPkts - (n - 1) /\ pn + 1 \in 1..MaxPkts
        /\ n - 1 \in 0..MaxPkts /\ (pn + 1) - 1 = pn
    BY Constants
  <2>2. /\ d \in Acking(c, N - sum[pn + 1])
        /\ T[n] = Acking(c, N - sum[pn])
    BY <1>5, <2>1
  <2>3. d \in Controllers
    BY <2>2 DEF Acking
  <2>4. sum[pn + 1] = sum[pn] + BytesAt(S, InflightKinds, pn)
    BY <1>3, <2>1 DEF IsSum
  <2>5. /\ sum[pn + 1] \in Nat /\ sum[pn] \in Nat /\ c.bytes_in_flight \in Int
        /\ N \in Nat
    BY <1>3, <2>1, Constants DEF IsSum, Controllers
  <2> HIDE DEF T, pn, N
  <2>6. CASE pn \in InflightPns(S)
    <3> DEFINE p == PktAt(S, pn)
               b == Size(p.kind)
               r == newreno_on_data_acked(d, p.time, b)
    <3>1. Step(d, n) = r
      BY <2>6 DEF pn
    <3>2. /\ p \in S /\ p.time \in Times /\ b \in Nat
          /\ BytesAt(S, InflightKinds, pn) = b
      BY <2>1, <2>6, InflightAt, SizeIsPositive
    <3> HIDE DEF p, b
    <3>3. /\ r \in Controllers
          /\ r.bytes_in_flight = d.bytes_in_flight - b
          /\ r.cong_wnd >= d.cong_wnd
          /\ r.processing_loss = d.processing_loss
      BY <2>3, <3>2, OneAcked
    <3> HIDE DEF r
    <3>4. /\ d.bytes_in_flight = c.bytes_in_flight - (N - sum[pn + 1])
          /\ d.cong_wnd >= c.cong_wnd
          /\ d.processing_loss = c.processing_loss
      BY <2>2 DEF Acking
    <3>5. r.bytes_in_flight = c.bytes_in_flight - (N - sum[pn])
      BY <2>4, <2>5, <3>2, <3>3, <3>4
    <3>6. r.cong_wnd >= c.cong_wnd
      <4>1. r.cong_wnd \in Nat /\ d.cong_wnd \in Nat /\ c.cong_wnd \in Nat
        BY <2>3, <3>3 DEF Controllers
      <4> QED
        BY <3>3, <3>4, <4>1
    <3>7. r \in Acking(c, N - sum[pn])
      BY <3>3, <3>4, <3>5, <3>6 DEF Acking
    <3> QED
      BY <2>2, <3>1, <3>7
  <2>7. CASE pn \notin InflightPns(S)
    <3>1. Step(d, n) = d
      BY <2>7 DEF pn
    <3>2. BytesAt(S, InflightKinds, pn) = 0
      BY <2>1, <2>7, InflightAt
    <3>3. sum[pn + 1] = sum[pn]
      BY <2>4, <2>5, <3>2
    <3> QED
      BY <2>2, <3>1, <3>3
  <2> QED
    BY <2>6, <2>7
<1>6. c \in T[0]
  <2>1. /\ 0 \in 0..MaxPkts /\ MaxPkts - 0 = MaxPkts /\ sum[MaxPkts] \in Nat
    BY <1>3, Constants DEF IsSum
  <2>2. sum[MaxPkts] - sum[MaxPkts - 0] = 0
    BY <2>1
  <2>3. T[0] = Acking(c, 0)
    BY <2>1, <2>2
  <2>4. c.bytes_in_flight - 0 = c.bytes_in_flight /\ c.cong_wnd >= c.cong_wnd
    BY DEF Controllers
  <2> HIDE DEF T
  <2> QED
    BY <2>3, <2>4 DEF Acking
<1> HIDE DEF Step
<1>7. \E g : Computes(g)
  <2> DEFINE G == [n \in 1..MaxPkts |-> [d \in Controllers |-> Step(d, n)]]
  <2>1. G \in [1..MaxPkts -> [Controllers -> Controllers]]
    BY <1>2
  <2>2. PICK g : IsLoop(g, MaxPkts, Controllers, c, G)
    <3>1. c \in Controllers /\ MaxPkts \in Nat
      BY Constants
    <3> HIDE DEF G
    <3> QED
      BY <2>1, <3>1, LoopExists
  <2>3. ASSUME NEW n \in 1..MaxPkts PROVE g[n] = Step(g[n - 1], n)
    <3>1. n - 1 \in 0..MaxPkts
      BY Constants
    <3>2. g[n - 1] \in Controllers
      BY <2>2, <3>1 DEF IsLoop
    <3>3. G[n][g[n - 1]] = Step(g[n - 1], n)
      BY <3>2
    <3> QED
      BY <2>2, <3>3 DEF IsLoop
  <2> QED
    BY <2>2, <2>3, Constants DEF IsLoop
<1>8. Computes(cc)
  BY <1>7
<1> HIDE DEF cc
<1>9. cc[0] \in T[0]
  <2>1. cc[0] = c
    BY <1>8, Constants
  <2> HIDE DEF T
  <2> QED
    BY <1>6, <2>1
<1>10. ASSUME NEW n \in 1..MaxPkts, cc[n - 1] \in T[n - 1] PROVE cc[n] \in T[n]
  <2>1. cc[n] = Step(cc[n - 1], n)
    BY <1>8, Constants
  <2> HIDE DEF T, Computes
  <2> QED
    BY <1>5, <1>10, <2>1
<1>11. \A n \in 0..MaxPkts : cc[n] \in T[n]
  <2> HIDE DEF T, Computes
  <2> QED
    BY <1>9, <1>10, Constants, LoopProgress
<1>12. MaxPkts \in 0..MaxPkts /\ MaxPkts - MaxPkts = 0
  BY Constants
<1>13. sum[0] = 0 /\ sum[MaxPkts] \in Nat
  BY <1>3, <1>12 DEF IsSum
<1>14. T[MaxPkts] = Acking(c, sum[MaxPkts])
  <2>1. sum[MaxPkts] - sum[MaxPkts - MaxPkts] = sum[MaxPkts]
    BY <1>12, <1>13
  <2> QED
    BY <1>12, <2>1
<1> HIDE DEF T
<1> QED
  BY <1>1, <1>4, <1>11, <1>12, <1>14

-----------------------------------------------------------------------------
(***************************************************************************)
(* The timer                                                               *)
(***************************************************************************)

LEMMA BackoffIsPositive ==
    ASSUME NEW n \in 0..MAX_PTO_COUNT
    PROVE  Backoff[n] \in Nat \ {0}
<1> DEFINE Computes(g) ==
               g = [i \in 0..MAX_PTO_COUNT |-> IF i = 0 THEN 1 ELSE 2 * g[i - 1]]
           N == Nat \ {0}
<1>1. Backoff = CHOOSE g : Computes(g)
  BY DEF Backoff
<1>2. \E g : Computes(g)
  <2> DEFINE G == [i \in 1..MAX_PTO_COUNT |-> [x \in N |-> 2 * x]]
  <2>1. G \in [1..MAX_PTO_COUNT -> [N -> N]]
    OBVIOUS
  <2>2. PICK g : IsLoop(g, MAX_PTO_COUNT, N, 1, G)
    <3>1. 1 \in N /\ MAX_PTO_COUNT \in Nat
      BY Constants
    <3> HIDE DEF G, N
    <3> QED
      BY <2>1, <3>1, LoopExists
  <2>3. ASSUME NEW i \in 1..MAX_PTO_COUNT PROVE g[i] = 2 * g[i - 1]
    <3>1. i - 1 \in 0..MAX_PTO_COUNT
      BY Constants
    <3>2. g[i - 1] \in N
      BY <2>2, <3>1 DEF IsLoop
    <3>3. G[i][g[i - 1]] = 2 * g[i - 1]
      BY <3>2
    <3> QED
      BY <2>2, <3>3 DEF IsLoop
  <2> HIDE DEF G, N
  <2>4. g \in [0..MAX_PTO_COUNT -> N] /\ g[0] = 1
    BY <2>2 DEF IsLoop
  <2>5. \A i \in 0..MAX_PTO_COUNT : i # 0 => i \in 1..MAX_PTO_COUNT
    BY Constants
  <2> QED
    BY <2>3, <2>4, <2>5
<1>3. Computes(Backoff)
  BY <1>1, <1>2
<1>4. Backoff[0] \in N
  BY <1>3, Constants
<1>5. ASSUME NEW i \in 1..MAX_PTO_COUNT, Backoff[i - 1] \in N
      PROVE  Backoff[i] \in N
  <2>1. Backoff[i] = 2 * Backoff[i - 1]
    BY <1>3, Constants
  <2> QED
    BY <1>5, <2>1
<1>6. \A i \in 0..MAX_PTO_COUNT : Backoff[i] \in N
  <2> HIDE DEF N, Computes
  <2> QED
    BY <1>4, <1>5, Constants, LoopInvariant
<1> QED
  BY <1>6

\* Delays before a probe are positive.
LEMMA PtoIsPositive ==
    ASSUME NEW m \in Ackms
    PROVE  /\ PtoFactor(m) \in Nat /\ PtoFactor(m) > 0
           /\ PtoBase(m) \in Nat /\ PtoBase(m) > 0
<1>1. /\ m.pto_count \in Nat /\ m.rtt.smoothed \in Nat
      /\ m.rtt.variance \in Nat
  BY DEF Ackms, Estimates
<1>2. PtoFactor(m) \in Nat \ {0}
  <2> DEFINE k == Min({m.pto_count, MAX_PTO_COUNT})
  <2>1. k \in {m.pto_count, MAX_PTO_COUNT} /\ k <= MAX_PTO_COUNT
    <3>1. m.pto_count \in Int /\ MAX_PTO_COUNT \in Int
      BY <1>1, Constants
    <3> QED
      BY <3>1, PairMaxMin
  <2> HIDE DEF k
  <2>2. k \in 0..MAX_PTO_COUNT
    BY <1>1, <2>1, Constants
  <2> QED
    BY <2>2, BackoffIsPositive DEF PtoFactor, k
<1>3. PtoBase(m) \in Nat /\ PtoBase(m) > 0
  <2> DEFINE x == Max({4 * m.rtt.variance, K_GRANULARITY})
  <2>1. x \in {4 * m.rtt.variance, K_GRANULARITY} /\ x >= K_GRANULARITY
    <3>1. 4 * m.rtt.variance \in Int /\ K_GRANULARITY \in Int
      BY <1>1, Constants
    <3> QED
      BY <3>1, PairMaxMin
  <2> HIDE DEF x
  <2>2. x \in Nat /\ x > 0
    BY <1>1, <2>1, Constants
  <2>3. PtoBase(m) = m.rtt.smoothed + x
    BY DEF PtoBase, x
  <2> QED
    BY <1>1, <2>2, <2>3
<1> QED
  BY <1>2, <1>3

LEMMA ProductIsNat ==
    ASSUME NEW a \in Nat, NEW b \in Nat
    PROVE  a * b \in Nat
OBVIOUS

LEMMA PtoTimeIsPositive ==
    ASSUME NEW m \in Ackms, NEW s \in PtoSpaces(m)
    PROVE  s \in Spaces /\ PtoTime(m, s) \in Nat \ {0}
<1> DEFINE a == PtoBase(m) + IF s = APP THEN RxMaxAckDelay ELSE 0
           b == PtoFactor(m)
<1>1. a \in Nat /\ b \in Nat
  BY PtoIsPositive, Constants
<1>2. s \in Spaces /\ m.last_eliciting[s] # 0
  BY DEF PtoSpaces
<1>3. m.last_eliciting[s] \in Nat
  BY <1>2 DEF Ackms
<1>4. PtoTime(m, s) = m.last_eliciting[s] + a * b
  BY DEF PtoTime
<1> HIDE DEF a, b
<1>5. a * b \in Nat
  BY <1>1, ProductIsNat
<1> QED
  BY <1>2, <1>3, <1>4, <1>5

\* Times of loss detection are taken from one of the spaces.
LEMMA LossSpaceIs ==
    ASSUME NEW m PROVE LossSpace(m) \in Spaces
BY DEF LossSpace, Spaces, INITIAL, HANDSHAKE, APP

LEMMA TotalIs ==
    ASSUME NEW f \in [Spaces -> Int]
    PROVE  /\ Total(f) \in Int
           /\ (\A s \in Spaces : f[s] >= 0)
                 => Total(f) >= 0 /\ \A s \in Spaces : Total(f) >= f[s]
<1>1. f[INITIAL] \in Int /\ f[HANDSHAKE] \in Int /\ f[APP] \in Int
  BY DEF Spaces
<1> QED
  BY <1>1 DEF Total, Spaces

\* TimerArmed, of any state of the ACK manager.
Armed(m) ==
    /\ (\E s \in Spaces : /\ m.eliciting_bytes[s] > 0
                          /\ s = APP => m.handshake_confirmed)
          => m.deadline \notin {0, Never}
    /\ (/\ m.deadline # 0
        /\ m.loss_time[LossSpace(m)] = 0
        /\ Total(m.eliciting_bytes) = 0)
          => ~m.peer_completed

\* Bytes counted are not negative, and there is a time to count from.
Countable(m) ==
    \A s \in Spaces :
        /\ m.eliciting_bytes[s] >= 0
        /\ m.eliciting_bytes[s] > 0 => m.last_eliciting[s] # 0

\* m and r differ in the deadline at most.
SameButDeadline(m, r) ==
    /\ r.hist = m.hist
    /\ r.largest_acked = m.largest_acked
    /\ r.last_eliciting = m.last_eliciting
    /\ r.loss_time = m.loss_time
    /\ r.bytes_in_flight = m.bytes_in_flight
    /\ r.eliciting_bytes = m.eliciting_bytes
    /\ r.handshake_confirmed = m.handshake_confirmed
    /\ r.peer_completed = m.peer_completed
    /\ r.discarded = m.discarded
    /\ r.cc = m.cc

\* Setting the timer arms it when it has to be, and changes nothing else.
LEMMA TimerIsSet ==
    ASSUME NEW m \in Ackms, Countable(m), now \in Times
    PROVE  LET r == ackm_set_loss_detection_timer(m)
           IN  r \in Ackms /\ SameButDeadline(m, r) /\ Armed(r)
<1> DEFINE r == ackm_set_loss_detection_timer(m)
           lt == m.loss_time[LossSpace(m)]
           el == Total(m.eliciting_bytes)
           d == IF lt # 0 THEN lt
                ELSE IF el = 0 /\ m.peer_completed THEN 0
                ELSE PtoDeadline(m)
<1>1. r = [m EXCEPT !.deadline = d]
  BY DEF ackm_set_loss_detection_timer, ackm_ack_eliciting_bytes_in_flight
<1>2. lt \in Nat
  BY LossSpaceIs DEF Ackms
<1>3. /\ el \in Int /\ m.eliciting_bytes \in [Spaces -> Int]
      /\ \A s \in Spaces : el >= m.eliciting_bytes[s]
  BY TotalIs DEF Ackms, Countable
<1>4. el = 0 => PtoDeadline(m) \in Nat
  <2>1. PtoBase(m) * PtoFactor(m) \in Nat
    BY PtoIsPositive, ProductIsNat
  <2> QED
    BY <2>1 DEF PtoDeadline, ackm_ack_eliciting_bytes_in_flight, Times
<1> DEFINE Due == {PtoTime(m, s) : s \in PtoSpaces(m)}
<1>5. el # 0 => PtoDeadline(m) = IF PtoSpaces(m) = {} THEN Never ELSE Min(Due)
  BY DEF PtoDeadline, ackm_ack_eliciting_bytes_in_flight
<1>6. PtoSpaces(m) # {} => Min(Due) \in Nat \ {0}
  <2>1. Due \in SUBSET (Nat \ {0})
    BY PtoTimeIsPositive
  <2>2. PtoSpaces(m) # {} => Due # {}
    OBVIOUS
  <2> HIDE DEF Due
  <2> QED
    BY <2>1, <2>2, MinIsLeast
<1> HIDE DEF lt, el, Due
<1>7. d \in Int
  BY <1>2, <1>4, <1>5, <1>6 DEF Never
<1>8. ASSUME NEW s \in Spaces, m.eliciting_bytes[s] > 0,
             s = APP => m.handshake_confirmed
      PROVE  d \notin {0, Never}
  <2>1. el > 0
    <3>1. m.eliciting_bytes[s] \in Int
      BY <1>3
    <3> QED
      BY <1>3, <1>8, <3>1
  <2>2. s \in PtoSpaces(m)
    <3>1. m.eliciting_bytes[s] # 0
      BY <1>3, <1>8
    <3> QED
      BY <1>8, <3>1 DEF PtoSpaces, Countable
  <2>3. PtoDeadline(m) \in Nat \ {0}
    BY <1>3, <1>5, <1>6, <2>1, <2>2
  <2> QED
    BY <1>2, <1>3, <2>1, <2>3 DEF Never
<1>9. (d # 0 /\ lt = 0 /\ el = 0) => ~m.peer_completed
  OBVIOUS
<1> HIDE DEF d
<1>10. r \in Ackms
  BY <1>1, <1>7 DEF Ackms
<1>11. SameButDeadline(m, r) /\ r.deadline = d
  BY <1>1 DEF Ackms, SameButDeadline
<1>12. LossSpace(r) = LossSpace(m)
  BY <1>11 DEF LossSpace, SameButDeadline
<1>13. r.loss_time[LossSpace(r)] = lt /\ Total(r.eliciting_bytes) = el
  BY <1>11, <1>12 DEF SameButDeadline, lt, el
<1> HIDE DEF r
<1>14. Armed(r)
  <2>1. ASSUME NEW s \in Spaces, r.eliciting_bytes[s] > 0,
               s = APP => r.handshake_confirmed
        PROVE  r.deadline \notin {0, Never}
    BY <1>8, <1>11, <2>1 DEF SameButDeadline
  <2>2. (/\ r.deadline # 0
         /\ r.loss_time[LossSpace(r)] = 0
         /\ Total(r.eliciting_bytes) = 0)
        => ~r.peer_completed
    BY <1>9, <1>11, <1>13 DEF SameButDeadline
  <2> QED
    BY <2>1, <2>2 DEF Armed
<1> QED
  BY <1>10, <1>11, <1>14 DEF r

\* The RTT estimate stays a record of times.
LEMMA RttIsUpdated ==
    ASSUME NEW r \in Estimates, NEW delay \in Nat, NEW sample \in Nat
    PROVE  ossl_statm_update_rtt(r, delay, sample) \in Estimates
<1> DEFINE latest == IF sample = 0 THEN r.latest ELSE sample
           min == Min({r.min, latest})
           adjusted == IF latest >= min + delay THEN latest - delay ELSE latest
           diff == IF r.smoothed >= adjusted THEN r.smoothed - adjusted
                                             ELSE adjusted - r.smoothed
<1>1. /\ r.latest \in Nat /\ r.min \in Nat /\ r.smoothed \in Nat
      /\ r.variance \in Nat
  BY DEF Estimates
<1>2. latest \in Nat
  BY <1>1
<1>3. min \in Nat
  <2>1. r.min \in Int /\ latest \in Int
    BY <1>1, <1>2
  <2>2. min \in {r.min, latest}
    BY <2>1, PairMaxMin
  <2> HIDE DEF min, latest
  <2> QED
    BY <1>1, <1>2, <2>2
<1> HIDE DEF latest, min
<1>4. adjusted \in Nat
  BY <1>2, <1>3
<1> HIDE DEF adjusted
<1>5. diff \in Nat
  BY <1>1, <1>4
<1> HIDE DEF diff
<1>6. /\ (3 * r.variance + diff) \div 4 \in Nat
      /\ (7 * r.smoothed + adjusted) \div 8 \in Nat
      /\ latest \div 2 \in Nat
  BY <1>1, <1>2, <1>4, <1>5
<1>7. ossl_statm_update_rtt(r, delay, sample) =
        IF r.have_first_sample
        THEN [r EXCEPT !.latest = latest, !.min = min,
                       !.variance = (3 * r.variance + diff) \div 4,
                       !.smoothed = (7 * r.smoothed + adjusted) \div 8]
        ELSE [latest |-> latest, min |-> latest, smoothed |-> latest,
              variance |-> latest \div 2, have_first_sample |-> TRUE]
  BY DEF ossl_statm_update_rtt, latest, min, adjusted, diff
<1>8. [r EXCEPT !.latest = latest, !.min = min,
                !.variance = (3 * r.variance + diff) \div 4,
                !.smoothed = (7 * r.smoothed + adjusted) \div 8] \in Estimates
  BY <1>2, <1>3, <1>6 DEF Estimates
<1>9. [latest |-> latest, min |-> latest, smoothed |-> latest,
       variance |-> latest \div 2, have_first_sample |-> TRUE] \in Estimates
  BY <1>2, <1>6 DEF Estimates
<1> QED
  BY <1>7, <1>8, <1>9

-----------------------------------------------------------------------------
(***************************************************************************)
(* The counts of bytes in flight, while packets leave the history          *)
(***************************************************************************)

InHistory(m) == Total([s \in Spaces |-> InflightBytes(m.hist[s])])

\* The counts are those of the history, and of packets of space s with x bytes
\* in flight and y of them ACK-eliciting that have left it and were not yet
\* taken out of the counts; u bytes are counted by the controller alone.
Counted(m, u, s, x, y) ==
    /\ m.bytes_in_flight = InHistory(m) + x
    /\ \A t \in Spaces : m.eliciting_bytes[t] =
           ElicitingBytes(m.hist[t]) + IF t = s THEN y ELSE 0
    /\ m.cc.bytes_in_flight = InHistory(m) + x + u

Steady(c) == ~c.processing_loss /\ c.cong_wnd >= MinWnd

Sound(m, u, s, x, y) ==
    /\ m \in Ackms
    /\ \A t \in Spaces : Distinct(m.hist[t])
    /\ Counted(m, u, s, x, y)
    /\ \A t \in Spaces : m.eliciting_bytes[t] > 0 => m.last_eliciting[t] # 0
    /\ Steady(m.cc)

LEMMA BytesNat ==
    ASSUME NEW S
    PROVE  InflightBytes(S) \in Nat /\ ElicitingBytes(S) \in Nat
BY BytesIsNat DEF InflightBytes, ElicitingBytes

LEMMA InHistoryIsNat ==
    ASSUME NEW m PROVE InHistory(m) \in Nat
<1> DEFINE f == [s \in Spaces |-> InflightBytes(m.hist[s])]
<1>1. f \in [Spaces -> Int] /\ \A s \in Spaces : f[s] >= 0
  BY BytesNat
<1> HIDE DEF f
<1>2. Total(f) \in Int /\ Total(f) >= 0
  BY <1>1, TotalIs
<1> QED
  BY <1>2 DEF InHistory, f

LEMMA SoundIsCountable ==
    ASSUME NEW m, NEW u, NEW s, NEW x, NEW y \in Nat, Sound(m, u, s, x, y)
    PROVE  Countable(m)
<1> SUFFICES ASSUME NEW t \in Spaces PROVE m.eliciting_bytes[t] >= 0
  BY DEF Sound, Countable
<1>1. m.eliciting_bytes[t] = ElicitingBytes(m.hist[t]) + IF t = s THEN y ELSE 0
  BY DEF Sound, Counted
<1> QED
  BY <1>1, BytesNat

\* Replacing the history of one space.
LEMMA HistoryReplaced ==
    ASSUME NEW m \in Ackms, NEW r, NEW s \in Spaces, NEW H,
           r.hist = [m.hist EXCEPT ![s] = H]
    PROVE  /\ InHistory(r) = InHistory(m) - InflightBytes(m.hist[s])
                               + InflightBytes(H)
           /\ r.hist[s] = H
           /\ \A t \in Spaces : t # s => r.hist[t] = m.hist[t]
<1>1. m.hist \in [Spaces -> SUBSET Pkts]
  BY DEF Ackms
<1>2. r.hist[s] = H /\ \A t \in Spaces : t # s => r.hist[t] = m.hist[t]
  BY <1>1
<1> DEFINE a == InflightBytes(m.hist[INITIAL])
           b == InflightBytes(m.hist[HANDSHAKE])
           c == InflightBytes(m.hist[APP])
           h == InflightBytes(H)
<1>3. a \in Nat /\ b \in Nat /\ c \in Nat /\ h \in Nat
  BY BytesNat
<1>4. InHistory(m) = a + b + c
  BY DEF InHistory, Total, Spaces
<1>5. InHistory(r) = InflightBytes(r.hist[INITIAL])
                       + InflightBytes(r.hist[HANDSHAKE])
                       + InflightBytes(r.hist[APP])
  BY DEF InHistory, Total, Spaces
<1>6. INITIAL # HANDSHAKE /\ INITIAL # APP /\ HANDSHAKE # APP
  BY DEF INITIAL, HANDSHAKE, APP
<1>7. INITIAL \in Spaces /\ HANDSHAKE \in Spaces /\ APP \in Spaces
  BY DEF Spaces
<1>8. CASE s = INITIAL
  <2>1. InHistory(r) = h + b + c
    BY <1>2, <1>5, <1>6, <1>7, <1>8
  <2> HIDE DEF a, b, c, h
  <2>2. InHistory(r) = InHistory(m) - a + h
    BY <1>3, <1>4, <2>1
  <2> QED
    BY <1>2, <1>8, <2>2 DEF a, h
<1>9. CASE s = HANDSHAKE
  <2>1. InHistory(r) = a + h + c
    BY <1>2, <1>5, <1>6, <1>7, <1>9
  <2> HIDE DEF a, b, c, h
  <2>2. InHistory(r) = InHistory(m) - b + h
    BY <1>3, <1>4, <2>1
  <2> QED
    BY <1>2, <1>9, <2>2 DEF b, h
<1>10. CASE s = APP
  <2>1. InHistory(r) = a + b + h
    BY <1>2, <1>5, <1>6, <1>7, <1>10
  <2> HIDE DEF a, b, c, h
  <2>2. InHistory(r) = InHistory(m) - c + h
    BY <1>3, <1>4, <2>1
  <2> QED
    BY <1>2, <1>10, <2>2 DEF c, h
<1> QED
  BY <1>8, <1>9, <1>10 DEF Spaces

\* The parts of the ACK manager that the counts speak of, but for the history.
SameCounts(m, r) ==
    /\ r.bytes_in_flight = m.bytes_in_flight
    /\ r.eliciting_bytes = m.eliciting_bytes
    /\ r.last_eliciting = m.last_eliciting
    /\ r.cc = m.cc

LEMMA SoundKept ==
    ASSUME NEW m, NEW r, NEW u, NEW s, NEW x, NEW y,
           Sound(m, u, s, x, y), r \in Ackms, r.hist = m.hist, SameCounts(m, r)
    PROVE  Sound(r, u, s, x, y)
<1>1. InHistory(r) = InHistory(m)
  BY DEF InHistory
<1> QED
  BY <1>1 DEF Sound, Counted, SameCounts

\* Packets taken out of the history wait to be taken out of the counts.
LEMMA PacketsTaken ==
    ASSUME NEW m, NEW r, NEW u \in Nat, NEW s \in Spaces, NEW x \in Nat,
           NEW y \in Nat, NEW T, Sound(m, u, s, x, y),
           T \in SUBSET m.hist[s], r \in Ackms,
           r.hist = [m.hist EXCEPT ![s] = @ \ T], SameCounts(m, r)
    PROVE  /\ Sound(r, u, s, x + InflightBytes(T), y + ElicitingBytes(T))
           /\ T \in SUBSET Pkts /\ Distinct(T)
<1> DEFINE H == m.hist[s]
           i == InflightBytes(T)
           e == ElicitingBytes(T)
<1>1. m \in Ackms /\ m.hist \in [Spaces -> SUBSET Pkts] /\ H \in SUBSET Pkts
  BY DEF Sound, Ackms
<1>2. Distinct(H)
  BY DEF Sound
<1>3. Distinct(T) /\ Distinct(H \ T)
  BY <1>2 DEF Distinct
<1>4. /\ InflightBytes(H) = InflightBytes(H \ T) + i
      /\ ElicitingBytes(H) = ElicitingBytes(H \ T) + e
  BY <1>2, BytesSplit DEF InflightBytes, ElicitingBytes
<1>5. r.hist = [m.hist EXCEPT ![s] = H \ T]
  BY <1>1
<1>6. /\ InHistory(r) = InHistory(m) - InflightBytes(H) + InflightBytes(H \ T)
      /\ r.hist[s] = H \ T
      /\ \A t \in Spaces : t # s => r.hist[t] = m.hist[t]
  <2> DEFINE G == H \ T
  <2>1. r.hist = [m.hist EXCEPT ![s] = G]
    BY <1>5
  <2> HIDE DEF G
  <2>2. /\ InHistory(r) = InHistory(m) - InflightBytes(m.hist[s])
                             + InflightBytes(G)
        /\ r.hist[s] = G
        /\ \A t \in Spaces : t # s => r.hist[t] = m.hist[t]
    BY <1>1, <2>1, HistoryReplaced
  <2> QED
    BY <2>2 DEF G
<1>7. /\ i \in Nat /\ e \in Nat /\ InflightBytes(H \ T) \in Nat
      /\ ElicitingBytes(H \ T) \in Nat /\ ElicitingBytes(H) \in Nat
      /\ InflightBytes(H) \in Nat
  BY BytesNat
<1>8. InHistory(r) \in Nat /\ InHistory(m) \in Nat
  BY InHistoryIsNat
<1>9. Counted(m, u, s, x, y)
  BY DEF Sound
<1> HIDE DEF H, i, e
<1>10. InHistory(r) + i = InHistory(m)
  BY <1>4, <1>6, <1>7, <1>8
<1>11. r.bytes_in_flight = InHistory(r) + (x + i)
  BY <1>7, <1>8, <1>9, <1>10 DEF Counted, SameCounts
<1>12. r.cc.bytes_in_flight = InHistory(r) + (x + i) + u
  BY <1>7, <1>8, <1>9, <1>10 DEF Counted, SameCounts
<1>13. ASSUME NEW t \in Spaces
       PROVE  r.eliciting_bytes[t] =
                ElicitingBytes(r.hist[t]) + IF t = s THEN y + e ELSE 0
  <2>1. m.eliciting_bytes[t] =
          ElicitingBytes(m.hist[t]) + IF t = s THEN y ELSE 0
    BY <1>9 DEF Counted
  <2>2. CASE t = s
    <3>1. r.eliciting_bytes[t] = ElicitingBytes(H) + y
      BY <2>1, <2>2 DEF SameCounts, H
    <3>2. r.hist[t] = H \ T
      BY <1>6, <2>2
    <3>3. r.eliciting_bytes[t] = ElicitingBytes(H \ T) + (y + e)
      BY <1>4, <1>7, <3>1
    <3> QED
      BY <2>2, <3>2, <3>3
  <2>3. CASE t # s
    BY <1>6, <2>1, <2>3 DEF SameCounts
  <2> QED
    BY <2>2, <2>3
<1>14. Counted(r, u, s, x + i, y + e)
  BY <1>11, <1>12, <1>13 DEF Counted
<1>15. \A t \in Spaces : Distinct(r.hist[t])
  BY <1>3, <1>6 DEF Sound
<1>16. /\ \A t \in Spaces : r.eliciting_bytes[t] > 0 => r.last_eliciting[t] # 0
       /\ Steady(r.cc)
  BY DEF Sound, SameCounts
<1>17. T \in SUBSET Pkts
  BY <1>1 DEF H
<1> QED
  BY <1>3, <1>14, <1>15, <1>16, <1>17 DEF Sound, i, e

\* What the callbacks for packets that left the history do not touch.
SameRest(m, r) ==
    /\ r.hist = m.hist
    /\ r.largest_acked = m.largest_acked
    /\ r.last_eliciting = m.last_eliciting
    /\ r.loss_time = m.loss_time
    /\ r.deadline = m.deadline
    /\ r.handshake_confirmed = m.handshake_confirmed
    /\ r.peer_completed = m.peer_completed
    /\ r.discarded = m.discarded

\* The counts after the packets that were waiting have been taken out of them,
\* whatever the controller made of that.
Reducible(m, u, s, x, y, T, c, v) ==
    /\ u \in Nat /\ s \in Spaces /\ x \in Nat /\ y \in Nat /\ v \in Nat
    /\ c \in Controllers /\ Steady(c)
    /\ Sound(m, u, s, x + InflightBytes(T), y + ElicitingBytes(T))
    /\ c.bytes_in_flight = InHistory(m) + x + v

LEMMA CountsReduced ==
    ASSUME NEW m, NEW u, NEW s, NEW x, NEW y, NEW T, NEW c, NEW v,
           Reducible(m, u, s, x, y, T, c, v)
    PROVE  LET r == [RemoveBytes(m, s, T) EXCEPT !.cc = c]
           IN  Sound(r, v, s, x, y) /\ SameRest(m, r) /\ r.cc = c
<1> DEFINE i == InflightBytes(T)
           e == ElicitingBytes(T)
           r == [RemoveBytes(m, s, T) EXCEPT !.cc = c]
<1> /\ u \in Nat /\ s \in Spaces /\ x \in Nat /\ y \in Nat /\ v \in Nat
    /\ c \in Controllers /\ Steady(c)
    /\ Sound(m, u, s, x + InflightBytes(T), y + ElicitingBytes(T))
    /\ c.bytes_in_flight = InHistory(m) + x + v
  BY DEF Reducible
<1>1. i \in Nat /\ e \in Nat
  BY BytesNat
<1>2. m \in Ackms /\ m.eliciting_bytes \in [Spaces -> Int]
      /\ m.bytes_in_flight \in Int
  BY DEF Sound, Ackms
<1>3. r = [m EXCEPT !.bytes_in_flight = @ - i, !.eliciting_bytes[s] = @ - e,
                    !.cc = c]
  BY <1>2 DEF RemoveBytes, Ackms
<1> HIDE DEF i, e, r
<1>4. /\ r.bytes_in_flight = m.bytes_in_flight - i
      /\ r.eliciting_bytes = [m.eliciting_bytes EXCEPT ![s] = @ - e]
      /\ r.cc = c
      /\ SameRest(m, r)
  BY <1>2, <1>3 DEF Ackms, SameRest
<1>5. r \in Ackms
  <2>1. m.bytes_in_flight - i \in Int
    BY <1>1, <1>2
  <2>2. [m.eliciting_bytes EXCEPT ![s] = @ - e] \in [Spaces -> Int]
    BY <1>1, <1>2
  <2> QED
    BY <1>2, <1>3, <2>1, <2>2 DEF Ackms
<1>6. InHistory(r) = InHistory(m) /\ InHistory(m) \in Nat
  BY <1>4, InHistoryIsNat DEF InHistory, SameRest
<1>7. Counted(m, u, s, x + i, y + e)
  BY DEF Sound, i, e
<1>8. r.bytes_in_flight = InHistory(r) + x
  BY <1>1, <1>4, <1>6, <1>7 DEF Counted
<1>9. ASSUME NEW t \in Spaces
      PROVE  /\ r.eliciting_bytes[t] =
                  ElicitingBytes(r.hist[t]) + IF t = s THEN y ELSE 0
             /\ r.eliciting_bytes[t] <= m.eliciting_bytes[t]
             /\ r.eliciting_bytes[t] \in Int /\ m.eliciting_bytes[t] \in Int
  <2>1. m.eliciting_bytes[t] =
          ElicitingBytes(m.hist[t]) + IF t = s THEN y + e ELSE 0
    BY <1>7 DEF Counted
  <2>2. ElicitingBytes(m.hist[t]) \in Nat
    BY BytesNat
  <2>3. r.hist[t] = m.hist[t]
    BY <1>4 DEF SameRest
  <2>4. CASE t = s
    <3>1. r.eliciting_bytes[t] = m.eliciting_bytes[t] - e
      BY <1>2, <1>4, <2>4
    <3>2. m.eliciting_bytes[t] = ElicitingBytes(m.hist[t]) + (y + e)
      BY <2>1, <2>4
    <3>3. r.eliciting_bytes[t] = ElicitingBytes(m.hist[t]) + y
      BY <1>1, <2>2, <3>1, <3>2
    <3> QED
      BY <1>1, <2>2, <2>3, <2>4, <3>2, <3>3
  <2>5. CASE t # s
    <3>1. r.eliciting_bytes[t] = m.eliciting_bytes[t]
      BY <1>2, <1>4, <2>5
    <3> QED
      BY <2>1, <2>2, <2>3, <2>5, <3>1
  <2> QED
    BY <2>4, <2>5
<1>10. Counted(r, v, s, x, y)
  BY <1>4, <1>6, <1>8, <1>9 DEF Counted
<1>11. ASSUME NEW t \in Spaces, r.eliciting_bytes[t] > 0
       PROVE  r.last_eliciting[t] # 0
  <2>1. m.eliciting_bytes[t] > 0
    BY <1>9, <1>11
  <2> QED
    BY <1>4, <2>1 DEF Sound, SameRest
<1>12. \A t \in Spaces : Distinct(r.hist[t])
  BY <1>4 DEF Sound, SameRest
<1>13. Sound(r, v, s, x, y)
  BY <1>4, <1>5, <1>10, <1>11, <1>12 DEF Sound
<1> QED
  BY <1>4, <1>13 DEF r

\* Packets declared lost.
LEMMA PacketsLost ==
    ASSUME NEW m, NEW u \in Nat, NEW s \in Spaces, NEW x \in Nat, NEW y \in Nat,
           NEW T, T \in SUBSET Pkts, Distinct(T), now \in Times,
           Sound(m, u, s, x + InflightBytes(T), y + ElicitingBytes(T))
    PROVE  LET r == ackm_on_pkts_lost(m, s, T, FALSE)
           IN  /\ Sound(r, u, s, x, y) /\ SameRest(m, r)
               /\ r.cc.cong_wnd < m.cc.cong_wnd =>
                    \E p \in T : p.time > m.cc.recovery_start
<1> DEFINE i == InflightBytes(T)
           d == ReportLost(m.cc, T)
           c == newreno_on_data_lost_finished(d)
           r == ackm_on_pkts_lost(m, s, T, FALSE)
<1>1. m \in Ackms /\ m.cc \in Controllers /\ Steady(m.cc)
  BY DEF Sound, Ackms
<1>2. i \in Nat /\ InHistory(m) \in Nat
  BY BytesNat, InHistoryIsNat
<1>3. m.cc.bytes_in_flight = InHistory(m) + (x + i) + u
  BY DEF Sound, Counted
<1>4. i <= m.cc.bytes_in_flight
  <2> HIDE DEF i
  <2> QED
    BY <1>2, <1>3
<1>5. d \in Losing(m.cc, T, i)
  BY <1>1, <1>4, LostReported DEF Steady
<1>6. /\ d \in Controllers
      /\ d.bytes_in_flight = m.cc.bytes_in_flight - i
      /\ d.cong_wnd = m.cc.cong_wnd
      /\ d.recovery_start = m.cc.recovery_start
      /\ d.processing_loss => \E p \in T : p.time = d.last_loss
  BY <1>5 DEF Losing
<1>7. RemoveBytes(m, s, T).cc = m.cc
  BY <1>1 DEF RemoveBytes, Ackms
<1>8. r = [RemoveBytes(m, s, T) EXCEPT !.cc = c]
  BY <1>7 DEF ackm_on_pkts_lost
<1> HIDE DEF d, i
<1>9. d.cong_wnd >= MinWnd
  BY <1>1, <1>6 DEF Steady
<1>10. /\ c \in Controllers
       /\ c.bytes_in_flight = d.bytes_in_flight
       /\ ~c.processing_loss
       /\ c.cong_wnd >= MinWnd
       /\ c.cong_wnd < d.cong_wnd =>
            d.processing_loss /\ d.last_loss > d.recovery_start
  BY <1>6, <1>9, LostFinished
<1> HIDE DEF c
<1>11. c.bytes_in_flight = InHistory(m) + x + u
  BY <1>2, <1>3, <1>6, <1>10
<1>12. Steady(c)
  BY <1>10 DEF Steady
<1>13. Sound(r, u, s, x, y) /\ SameRest(m, r) /\ r.cc = c
  <2>1. Reducible(m, u, s, x, y, T, c, u)
    BY <1>10, <1>11, <1>12 DEF Reducible
  <2> HIDE DEF r
  <2> QED
    BY <1>8, <2>1, CountsReduced
<1>14. r.cc.cong_wnd < m.cc.cong_wnd =>
         \E p \in T : p.time > m.cc.recovery_start
  BY <1>6, <1>10, <1>13
<1> QED
  BY <1>13, <1>14

\* A packet declared lost for a restart: the controller is not told.
LEMMA PacketsPseudoLost ==
    ASSUME NEW m, NEW u \in Nat, NEW s \in Spaces, NEW T,
           Sound(m, u, s, 0 + InflightBytes(T), 0 + ElicitingBytes(T))
    PROVE  LET r == ackm_on_pkts_lost(m, s, T, TRUE)
           IN  /\ Sound(r, u + InflightBytes(T), s, 0, 0) /\ SameRest(m, r)
               /\ r.cc = m.cc
<1> DEFINE i == InflightBytes(T)
           v == u + i
           r == ackm_on_pkts_lost(m, s, T, TRUE)
<1>1. m \in Ackms /\ m.cc \in Controllers /\ Steady(m.cc)
  BY DEF Sound, Ackms
<1>2. i \in Nat /\ InHistory(m) \in Nat /\ v \in Nat
  BY BytesNat, InHistoryIsNat
<1>3. m.cc.bytes_in_flight = InHistory(m) + (0 + i) + u
  BY DEF Sound, Counted
<1>4. m.cc.bytes_in_flight = InHistory(m) + 0 + v
  <2> HIDE DEF i
  <2> QED
    BY <1>2, <1>3
<1>5. RemoveBytes(m, s, T).cc = m.cc
  BY <1>1 DEF RemoveBytes, Ackms
<1>6. newreno_on_data_lost_finished(m.cc) = m.cc
  BY <1>1 DEF newreno_on_data_lost_finished, Steady
<1>7. r = [RemoveBytes(m, s, T) EXCEPT !.cc = m.cc]
  BY <1>5, <1>6 DEF ackm_on_pkts_lost
<1>8. Sound(r, v, s, 0, 0) /\ SameRest(m, r) /\ r.cc = m.cc
  <2> HIDE DEF v, r
  <2>1. Reducible(m, u, s, 0, 0, T, m.cc, v)
    BY <1>1, <1>2, <1>4 DEF Reducible
  <2> QED
    BY <1>7, <2>1, CountsReduced
<1> QED
  BY <1>8

\* Packets acknowledged.
LEMMA PacketsAcked ==
    ASSUME NEW m, NEW u \in Nat, NEW s \in Spaces, NEW T, T \in SUBSET Pkts,
           Distinct(T),
           Sound(m, u, s, 0 + InflightBytes(T), 0 + ElicitingBytes(T))
    PROVE  LET r == ackm_on_pkts_acked(m, s, T)
           IN  /\ Sound(r, u, s, 0, 0) /\ SameRest(m, r)
               /\ r.cc.cong_wnd >= m.cc.cong_wnd
<1> DEFINE i == InflightBytes(T)
           c == ReportAcked(m.cc, T)
           r == ackm_on_pkts_acked(m, s, T)
<1>1. m \in Ackms /\ m.cc \in Controllers /\ Steady(m.cc)
  BY DEF Sound, Ackms
<1>2. i \in Nat /\ InHistory(m) \in Nat
  BY BytesNat, InHistoryIsNat
<1>3. m.cc.bytes_in_flight = InHistory(m) + (0 + i) + u
  BY DEF Sound, Counted
<1>4. c \in Acking(m.cc, i)
  BY <1>1, AckedReported
<1>5. /\ c \in Controllers
      /\ c.bytes_in_flight = m.cc.bytes_in_flight - i
      /\ c.cong_wnd >= m.cc.cong_wnd
      /\ c.processing_loss = m.cc.processing_loss
  BY <1>4 DEF Acking
<1>6. RemoveBytes(m, s, T).cc = m.cc
  BY <1>1 DEF RemoveBytes, Ackms
<1>7. r = [RemoveBytes(m, s, T) EXCEPT !.cc = c]
  BY <1>6 DEF ackm_on_pkts_acked
<1> HIDE DEF c, i
<1>8. c.bytes_in_flight = InHistory(m) + 0 + u
  BY <1>2, <1>3, <1>5
<1>9. Steady(c)
  <2>1. c.cong_wnd \in Nat /\ m.cc.cong_wnd \in Nat /\ MinWnd \in Nat
    BY <1>1, <1>5, MinWndIs DEF Controllers
  <2> QED
    BY <1>1, <1>5, <2>1 DEF Steady
<1>10. Sound(r, u, s, 0, 0) /\ SameRest(m, r) /\ r.cc = c
  <2>1. Reducible(m, u, s, 0, 0, T, c, u)
    BY <1>5, <1>8, <1>9 DEF Reducible
  <2> QED
    BY <1>7, <2>1, CountsReduced
<1> QED
  BY <1>5, <1>10

-----------------------------------------------------------------------------
(***************************************************************************)
(* The operations of the ACK manager                                       *)
(***************************************************************************)

LEMMA LossDelayIsNat ==
    ASSUME NEW m \in Ackms PROVE LossDelay(m) \in Nat
<1> DEFINE a == Max({m.rtt.latest, m.rtt.smoothed})
           b == (9 * a) \div 8
<1>1. m.rtt.latest \in Nat /\ m.rtt.smoothed \in Nat
  BY DEF Ackms, Estimates
<1>2. a \in Nat
  <2>1. m.rtt.latest \in Int /\ m.rtt.smoothed \in Int
    BY <1>1
  <2>2. a \in {m.rtt.latest, m.rtt.smoothed}
    BY <2>1, PairMaxMin
  <2> HIDE DEF a
  <2> QED
    BY <1>1, <2>2
<1> HIDE DEF a
<1>3. b \in Nat
  BY <1>2
<1> HIDE DEF b
<1>4. Max({b, K_GRANULARITY}) \in {b, K_GRANULARITY}
  <2>1. b \in Int /\ K_GRANULARITY \in Int
    BY <1>3, Constants
  <2> QED
    BY <2>1, PairMaxMin
<1>5. LossDelay(m) = Max({b, K_GRANULARITY})
  BY DEF LossDelay, a, b
<1> QED
  BY <1>3, <1>4, <1>5, Constants

\* What loss detection leaves alone.
SameHandshake(m, r) ==
    /\ r.handshake_confirmed = m.handshake_confirmed
    /\ r.peer_completed = m.peer_completed
    /\ r.discarded = m.discarded

\* Loss detection in a space, while packets of it wait to be reported.
LEMMA LossesDetected ==
    ASSUME NEW m, NEW u \in Nat, NEW s \in Spaces, NEW x \in Nat, NEW y \in Nat,
           Sound(m, u, s, x, y), now \in Times
    PROVE  LET r == DetectLoss(m, s)
               T == LostPkts(m, s)
           IN  /\ Sound(r, u, s, x, y)
               /\ T \in SUBSET m.hist[s]
               /\ r.hist = [m.hist EXCEPT ![s] = @ \ T]
               /\ SameHandshake(m, r)
               /\ r.cc.cong_wnd < m.cc.cong_wnd =>
                    \E p \in T : p.time > m.cc.recovery_start
<1> DEFINE r == DetectLoss(m, s)
           T == LostPkts(m, s)
           kept == m.hist[s] \ T
           waiting == {p \in kept : p.pn <= m.largest_acked[s]}
           Due == {p.time + LossDelay(m) : p \in waiting}
           lt == IF waiting = {} THEN 0 ELSE Min(Due)
           m1 == [m EXCEPT !.hist[s] = kept, !.loss_time[s] = lt]
<1>1. m \in Ackms /\ m.hist \in [Spaces -> SUBSET Pkts]
  BY DEF Sound, Ackms
<1>2. T \in SUBSET m.hist[s] /\ kept \in SUBSET Pkts
  BY <1>1 DEF LostPkts
<1>3. lt \in Nat
  <2>1. \A p \in waiting : p.time + LossDelay(m) \in Nat
    <3>1. \A p \in waiting : p \in Pkts
      BY <1>2
    <3>2. \A p \in waiting : p.time \in Nat
      BY <3>1 DEF Pkts, Times
    <3> HIDE DEF waiting
    <3> QED
      BY <1>1, <3>2, LossDelayIsNat
  <2> HIDE DEF waiting
  <2>2. Due \in SUBSET Nat
    BY <2>1
  <2>3. waiting # {} => Due # {}
    OBVIOUS
  <2> HIDE DEF Due
  <2> QED
    BY <2>2, <2>3, MinIsLeast
<1>4. ackm_detect_and_remove_lost_pkts(m, s) = m1
  BY DEF ackm_detect_and_remove_lost_pkts
<1>5. r = IF T = {} THEN m1 ELSE ackm_on_pkts_lost(m1, s, T, FALSE)
  BY <1>4 DEF DetectLoss
<1> HIDE DEF lt, r, T
<1>6. /\ m1 \in Ackms
      /\ m1.hist = [m.hist EXCEPT ![s] = @ \ T]
      /\ SameCounts(m, m1) /\ SameHandshake(m, m1)
  <2>1. m1 = [m EXCEPT !.hist = [m.hist EXCEPT ![s] = kept],
                       !.loss_time = [m.loss_time EXCEPT ![s] = lt]]
    BY <1>1 DEF Ackms
  <2>2. [m.hist EXCEPT ![s] = kept] \in [Spaces -> SUBSET Pkts]
    BY <1>1, <1>2
  <2>3. [m.loss_time EXCEPT ![s] = lt] \in [Spaces -> Nat]
    BY <1>1, <1>3 DEF Ackms
  <2>4. [m.hist EXCEPT ![s] = kept] = [m.hist EXCEPT ![s] = @ \ T]
    BY <1>1
  <2> HIDE DEF m1, kept
  <2> QED
    BY <1>1, <2>1, <2>2, <2>3, <2>4 DEF Ackms, SameCounts, SameHandshake
<1> HIDE DEF kept, m1
<1>7. /\ Sound(m1, u, s, x + InflightBytes(T), y + ElicitingBytes(T))
      /\ T \in SUBSET Pkts /\ Distinct(T)
  BY <1>2, <1>6, PacketsTaken
<1>8. CASE T = {}
  <2>1. r = m1
    BY <1>5, <1>8
  <2>2. m1.hist = m.hist
    BY <1>1, <1>6, <1>8
  <2>3. Sound(m1, u, s, x, y)
    BY <1>6, <2>2, SoundKept
  <2>4. ~(m1.cc.cong_wnd < m.cc.cong_wnd)
    <3>1. m1.cc = m.cc /\ m.cc.cong_wnd \in Nat
      BY <1>1, <1>6 DEF SameCounts, Ackms, Controllers
    <3> QED
      BY <3>1
  <2> QED
    BY <1>2, <1>6, <2>1, <2>3, <2>4 DEF r, T
<1>9. CASE T # {}
  <2>1. r = ackm_on_pkts_lost(m1, s, T, FALSE)
    BY <1>5, <1>9
  <2>2. /\ Sound(r, u, s, x, y) /\ SameRest(m1, r)
        /\ r.cc.cong_wnd < m1.cc.cong_wnd =>
             \E p \in T : p.time > m1.cc.recovery_start
    BY <1>7, <2>1, PacketsLost
  <2>3. r.hist = [m.hist EXCEPT ![s] = @ \ T] /\ SameHandshake(m, r)
    BY <1>6, <2>2 DEF SameRest, SameHandshake
  <2>4. r.cc.cong_wnd < m.cc.cong_wnd =>
          \E p \in T : p.time > m.cc.recovery_start
    BY <1>6, <2>2 DEF SameCounts
  <2> QED
    BY <1>2, <2>2, <2>3, <2>4 DEF r, T
<1> QED
  BY <1>8, <1>9

\* A packet number space is discarded: its packets leave all counts at once.
LEMMA SpaceDiscarded ==
    ASSUME NEW m, NEW u \in Nat, NEW s \in Spaces, Sound(m, u, s, 0, 0),
           now \in Times
    PROVE  LET r == Discarded(m, s)
           IN  /\ Sound(r, u, s, 0, 0) /\ Armed(r)
               /\ r.hist = [m.hist EXCEPT ![s] = {}]
               /\ r.discarded = [m.discarded EXCEPT ![s] = TRUE]
               /\ r.handshake_confirmed = m.handshake_confirmed
               /\ r.cc.cong_wnd = m.cc.cong_wnd
<1> DEFINE i == InflightBytes(m.hist[s])
           c == [m.cc EXCEPT !.bytes_in_flight = @ - i]
           pc == (m.peer_completed \/ s = HANDSHAKE)
           m1 == [m EXCEPT !.peer_completed = pc,
                           !.bytes_in_flight = @ - i,
                           !.cc = c,
                           !.hist[s] = {},
                           !.last_eliciting[s] = 0,
                           !.loss_time[s] = 0,
                           !.pto_count = 0,
                           !.discarded[s] = TRUE,
                           !.eliciting_bytes[s] = 0]
           r == Discarded(m, s)
<1>1. /\ m \in Ackms /\ m.hist \in [Spaces -> SUBSET Pkts]
      /\ m.cc \in Controllers /\ m.bytes_in_flight \in Int
      /\ m.cc.bytes_in_flight \in Int
  BY DEF Sound, Ackms, Controllers
<1>2. r = ackm_set_loss_detection_timer(m1)
  BY <1>1 DEF Discarded, newreno_on_data_invalidated, Ackms
<1>3. i \in Nat
  BY BytesNat
<1>4. InHistory(m) \in Nat
  BY InHistoryIsNat
<1> HIDE DEF i
<1>5. /\ c \in Controllers /\ c.bytes_in_flight = m.cc.bytes_in_flight - i
      /\ c.cong_wnd = m.cc.cong_wnd /\ c.processing_loss = m.cc.processing_loss
  BY <1>1, <1>3 DEF Controllers
<1> HIDE DEF c
<1>6. pc \in BOOLEAN
  BY <1>1 DEF Ackms
<1> HIDE DEF pc
<1>7. /\ m1.hist = [m.hist EXCEPT ![s] = {}]
      /\ m1.last_eliciting = [m.last_eliciting EXCEPT ![s] = 0]
      /\ m1.loss_time = [m.loss_time EXCEPT ![s] = 0]
      /\ m1.discarded = [m.discarded EXCEPT ![s] = TRUE]
      /\ m1.eliciting_bytes = [m.eliciting_bytes EXCEPT ![s] = 0]
  BY <1>1 DEF Ackms
<1>8. /\ m1.bytes_in_flight = m.bytes_in_flight - i /\ m1.cc = c
      /\ m1.peer_completed = pc
      /\ m1.handshake_confirmed = m.handshake_confirmed
  BY <1>1 DEF Ackms
<1>9. m1 \in Ackms
  <2>1. [m.hist EXCEPT ![s] = {}] \in [Spaces -> SUBSET Pkts]
    BY <1>1
  <2>2. /\ [m.last_eliciting EXCEPT ![s] = 0] \in [Spaces -> Nat]
        /\ [m.loss_time EXCEPT ![s] = 0] \in [Spaces -> Nat]
        /\ [m.discarded EXCEPT ![s] = TRUE] \in [Spaces -> BOOLEAN]
        /\ [m.eliciting_bytes EXCEPT ![s] = 0] \in [Spaces -> Int]
    BY <1>1 DEF Ackms
  <2>3. m.bytes_in_flight - i \in Int
    BY <1>1, <1>3
  <2>4. m1 = [m EXCEPT !.peer_completed = pc,
                       !.bytes_in_flight = m.bytes_in_flight - i,
                       !.cc = c,
                       !.hist = [m.hist EXCEPT ![s] = {}],
                       !.last_eliciting = [m.last_eliciting EXCEPT ![s] = 0],
                       !.loss_time = [m.loss_time EXCEPT ![s] = 0],
                       !.pto_count = 0,
                       !.discarded = [m.discarded EXCEPT ![s] = TRUE],
                       !.eliciting_bytes = [m.eliciting_bytes EXCEPT ![s] = 0]]
    BY <1>1 DEF Ackms
  <2> HIDE DEF m1
  <2> QED
    BY <1>1, <1>5, <1>6, <2>1, <2>2, <2>3, <2>4 DEF Ackms
<1> HIDE DEF m1
<1>10. /\ InHistory(m1) = InHistory(m) - i + InflightBytes({})
       /\ m1.hist[s] = {}
       /\ \A t \in Spaces : t # s => m1.hist[t] = m.hist[t]
  <2> DEFINE G == {}
  <2>1. m1.hist = [m.hist EXCEPT ![s] = G]
    BY <1>7
  <2> HIDE DEF G
  <2>2. /\ InHistory(m1) = InHistory(m) - InflightBytes(m.hist[s])
                             + InflightBytes(G)
        /\ m1.hist[s] = G
        /\ \A t \in Spaces : t # s => m1.hist[t] = m.hist[t]
    BY <1>1, <2>1, HistoryReplaced
  <2> QED
    BY <2>2 DEF G, i
<1>11. InflightBytes({}) = 0 /\ ElicitingBytes({}) = 0
  BY BytesEmpty DEF InflightBytes, ElicitingBytes
<1>12. Counted(m, u, s, 0, 0)
  BY DEF Sound
<1>13. /\ m1.bytes_in_flight = InHistory(m1) + 0
       /\ m1.cc.bytes_in_flight = InHistory(m1) + 0 + u
  BY <1>3, <1>4, <1>5, <1>8, <1>10, <1>11, <1>12 DEF Counted
<1>14. ASSUME NEW t \in Spaces
       PROVE  /\ m1.eliciting_bytes[t] =
                   ElicitingBytes(m1.hist[t]) + IF t = s THEN 0 ELSE 0
              /\ m1.eliciting_bytes[t] > 0 => m1.last_eliciting[t] # 0
              /\ Distinct(m1.hist[t])
  <2>1. CASE t = s
    <3>1. m1.eliciting_bytes[t] = 0 /\ m1.hist[t] = {}
      BY <1>1, <1>7, <1>10, <2>1 DEF Ackms
    <3> QED
      BY <1>11, <3>1 DEF Distinct
  <2>2. CASE t # s
    <3>1. /\ m1.eliciting_bytes[t] = m.eliciting_bytes[t]
          /\ m1.last_eliciting[t] = m.last_eliciting[t]
          /\ m1.hist[t] = m.hist[t]
      BY <1>1, <1>7, <1>10, <2>2 DEF Ackms
    <3> QED
      BY <1>12, <2>2, <3>1 DEF Sound, Counted
  <2> QED
    BY <2>1, <2>2
<1>15. Steady(m1.cc)
  BY <1>5, <1>8 DEF Sound, Steady
<1>16. Sound(m1, u, s, 0, 0)
  BY <1>9, <1>13, <1>14, <1>15 DEF Sound, Counted
<1>17. Countable(m1)
  <2>1. 0 \in Nat
    OBVIOUS
  <2> QED
    BY <1>16, <2>1, SoundIsCountable
<1>18. r \in Ackms /\ SameButDeadline(m1, r) /\ Armed(r)
  BY <1>2, <1>9, <1>17, TimerIsSet
<1> HIDE DEF r
<1>19. Sound(r, u, s, 0, 0)
  BY <1>16, <1>18, SoundKept DEF SameButDeadline, SameCounts
<1>20. /\ r.hist = m1.hist /\ r.discarded = m1.discarded
       /\ r.cc = m1.cc
       /\ r.handshake_confirmed = m1.handshake_confirmed
  BY <1>18 DEF SameButDeadline
<1>21. /\ r.hist = [m.hist EXCEPT ![s] = {}]
       /\ r.discarded = [m.discarded EXCEPT ![s] = TRUE]
       /\ r.handshake_confirmed = m.handshake_confirmed
       /\ r.cc.cong_wnd = m.cc.cong_wnd
  BY <1>5, <1>7, <1>8, <1>20
<1> QED
  BY <1>18, <1>19, <1>21 DEF r

\* A packet is sent: it joins the history and the counts, and the timer is set
\* when it is in flight.
LEMMA PacketSent ==
    ASSUME NEW m, NEW u \in Nat, NEW s \in Spaces, Sound(m, u, s, 0, 0),
           now \in Times, Armed(m), NEW p \in Pkts, p.pn \notin Pns(m.hist[s])
    PROVE  LET r == ossl_ackm_on_tx_packet(m, s, p)
           IN  /\ Sound(r, u, s, 0, 0) /\ Armed(r)
               /\ r.hist = [m.hist EXCEPT ![s] = @ \cup {p}]
               /\ SameHandshake(m, r)
               /\ r.cc.cong_wnd = m.cc.cong_wnd
<1> DEFINE H == m.hist[s] \cup {p}
           b == Size(p.kind)
           le == IF IsAckEliciting(p) THEN p.time ELSE m.last_eliciting[s]
           eb == IF IsAckEliciting(p) THEN m.eliciting_bytes[s] + b
                                      ELSE m.eliciting_bytes[s]
           m1 == [m EXCEPT !.hist[s] = H]
           m2 == [m EXCEPT !.hist[s] = H,
                           !.bytes_in_flight = @ + b,
                           !.last_eliciting[s] = le,
                           !.eliciting_bytes[s] = eb]
           m3 == ackm_set_loss_detection_timer(m2)
           c == newreno_on_data_sent(m3.cc, b)
           m4 == [m3 EXCEPT !.cc = c]
           r == ossl_ackm_on_tx_packet(m, s, p)
<1>1. /\ m \in Ackms /\ m.hist \in [Spaces -> SUBSET Pkts]
      /\ m.cc \in Controllers /\ m.bytes_in_flight \in Int
      /\ m.cc.bytes_in_flight \in Int
      /\ m.last_eliciting \in [Spaces -> Nat]
      /\ m.eliciting_bytes \in [Spaces -> Int]
  BY DEF Sound, Ackms, Controllers
<1>2. b \in Nat /\ b > 0
  BY SizeIsPositive
<1>3. /\ p.pn \in 0..MaxPkts - 1 /\ p.time \in Nat /\ p.time # 0
      /\ p.kind \in Kinds
  BY DEF Pkts, Times
<1>4. Distinct(m.hist[s]) /\ Distinct(H)
  <2>1. Distinct(m.hist[s])
    BY DEF Sound
  <2>2. \A q \in m.hist[s] : q.pn # p.pn
    BY DEF Pns
  <2> QED
    BY <2>1, <2>2 DEF Distinct
<1>5. /\ InflightBytes(H) =
           InflightBytes(m.hist[s]) + InflightBytes({p})
      /\ ElicitingBytes(H) =
           ElicitingBytes(m.hist[s]) + ElicitingBytes({p})
  <2>1. H \ {p} = m.hist[s] /\ {p} \in SUBSET H
    <3>1. p \notin m.hist[s]
      BY DEF Pns
    <3> QED
      BY <3>1
  <2> HIDE DEF H
  <2> QED
    BY <1>4, <2>1, BytesSplit DEF InflightBytes, ElicitingBytes
<1>6. /\ InflightBytes({p}) = IF IsInflight(p) THEN b ELSE 0
      /\ ElicitingBytes({p}) = IF IsAckEliciting(p) THEN b ELSE 0
  <2>1. p.kind \in {"eliciting", "inflight"} <=> IsInflight(p)
    BY <1>3 DEF Kinds, IsInflight
  <2>2. p.kind \in {"eliciting"} <=> IsAckEliciting(p)
    BY DEF IsAckEliciting
  <2> QED
    BY <1>3, <2>1, <2>2, BytesOne DEF InflightBytes, ElicitingBytes
<1>7. r = IF IsInflight(p) THEN m4 ELSE m1
  <2>1. m2 = [[m EXCEPT !.hist[s] = @ \cup {p}] EXCEPT
                 !.bytes_in_flight = @ + Size(p.kind),
                 !.last_eliciting[s] = IF IsAckEliciting(p) THEN p.time ELSE @,
                 !.eliciting_bytes[s] =
                     IF IsAckEliciting(p) THEN @ + Size(p.kind) ELSE @]
    BY <1>1 DEF Ackms
  <2>2. m1 = [m EXCEPT !.hist[s] = @ \cup {p}]
    BY <1>1 DEF Ackms
  <2>3. m4 = [m3 EXCEPT !.cc = newreno_on_data_sent(@, Size(p.kind))]
    OBVIOUS
  <2> HIDE DEF m1, m2, m4
  <2> QED
    BY <2>1, <2>2, <2>3 DEF ossl_ackm_on_tx_packet
<1>8. [m.hist EXCEPT ![s] = H] = [m.hist EXCEPT ![s] = @ \cup {p}]
  BY <1>1
<1>9. H \in SUBSET Pkts
  BY <1>1
<1>10. IsAckEliciting(p) => IsInflight(p)
  BY DEF IsAckEliciting, IsInflight
<1>11. le \in Nat /\ eb \in Int
  BY <1>1, <1>2, <1>3
<1>12. eb = m.eliciting_bytes[s] + ElicitingBytes({p})
  BY <1>1, <1>6
<1>13. InHistory(m) \in Nat
  BY InHistoryIsNat
<1>14. Counted(m, u, s, 0, 0)
  BY DEF Sound
<1>15. /\ InflightBytes(m.hist[s]) \in Nat /\ InflightBytes({p}) \in Nat
       /\ ElicitingBytes(m.hist[s]) \in Nat /\ ElicitingBytes({p}) \in Nat
  BY BytesNat
<1> HIDE DEF H, b
<1>16. CASE ~IsInflight(p)
  <2>1. r = m1
    BY <1>7, <1>16
  <2>2. m1 = [m EXCEPT !.hist = [m.hist EXCEPT ![s] = H]]
    BY <1>1 DEF Ackms
  <2> HIDE DEF m1
  <2>3. [m.hist EXCEPT ![s] = H] \in [Spaces -> SUBSET Pkts]
    BY <1>1, <1>9
  <2>4. /\ m1 \in Ackms /\ m1.hist = [m.hist EXCEPT ![s] = H]
        /\ SameCounts(m, m1) /\ SameHandshake(m, m1)
        /\ m1.deadline = m.deadline /\ m1.loss_time = m.loss_time
    BY <1>1, <2>2, <2>3 DEF Ackms, SameCounts, SameHandshake
  <2>5. /\ InHistory(m1) = InHistory(m) - InflightBytes(m.hist[s])
                             + InflightBytes(H)
        /\ m1.hist[s] = H
        /\ \A t \in Spaces : t # s => m1.hist[t] = m.hist[t]
    BY <1>1, <2>4, HistoryReplaced
  <2>6. InflightBytes({p}) = 0 /\ ElicitingBytes({p}) = 0
    BY <1>6, <1>10, <1>16
  <2>7. InHistory(m1) = InHistory(m)
    BY <1>5, <1>13, <1>15, <2>5, <2>6
  <2>8. ASSUME NEW t \in Spaces
        PROVE  /\ ElicitingBytes(m1.hist[t]) = ElicitingBytes(m.hist[t])
               /\ Distinct(m1.hist[t])
    <3>1. CASE t = s
      BY <1>4, <1>5, <1>15, <2>5, <2>6, <3>1
    <3>2. CASE t # s
      BY <2>5, <3>2 DEF Sound
    <3> QED
      BY <3>1, <3>2
  <2>9. Counted(m1, u, s, 0, 0)
    BY <1>14, <2>4, <2>7, <2>8 DEF Counted, SameCounts
  <2>10. Sound(m1, u, s, 0, 0)
    BY <2>4, <2>8, <2>9 DEF Sound, SameCounts
  <2>11. LossSpace(m1) = LossSpace(m)
    BY <2>4 DEF LossSpace
  <2>12. Armed(m1)
    BY <2>4, <2>11 DEF Armed, SameCounts, SameHandshake
  <2>13. m1.cc.cong_wnd = m.cc.cong_wnd
    BY <2>4 DEF SameCounts
  <2> HIDE DEF r
  <2> QED
    BY <1>8, <2>1, <2>4, <2>10, <2>12, <2>13 DEF r
<1>17. CASE IsInflight(p)
  <2>1. r = m4 /\ InflightBytes({p}) = b
    BY <1>6, <1>7, <1>17
  <2>2. m2 = [m EXCEPT !.hist = [m.hist EXCEPT ![s] = H],
                       !.bytes_in_flight = m.bytes_in_flight + b,
                       !.last_eliciting = [m.last_eliciting EXCEPT ![s] = le],
                       !.eliciting_bytes = [m.eliciting_bytes EXCEPT ![s] = eb]]
    BY <1>1 DEF Ackms
  <2> HIDE DEF m2, le, eb
  <2>3. /\ [m.hist EXCEPT ![s] = H] \in [Spaces -> SUBSET Pkts]
        /\ m.bytes_in_flight + b \in Int
        /\ [m.last_eliciting EXCEPT ![s] = le] \in [Spaces -> Nat]
        /\ [m.eliciting_bytes EXCEPT ![s] = eb] \in [Spaces -> Int]
    BY <1>1, <1>2, <1>9, <1>11
  <2>4. /\ m2 \in Ackms /\ m2.hist = [m.hist EXCEPT ![s] = H]
        /\ m2.bytes_in_flight = m.bytes_in_flight + b
        /\ m2.last_eliciting = [m.last_eliciting EXCEPT ![s] = le]
        /\ m2.eliciting_bytes = [m.eliciting_bytes EXCEPT ![s] = eb]
        /\ SameHandshake(m, m2) /\ m2.cc = m.cc
    BY <1>1, <2>2, <2>3 DEF Ackms, SameHandshake
  <2>5. /\ InHistory(m2) = InHistory(m) - InflightBytes(m.hist[s])
                             + InflightBytes(H)
        /\ m2.hist[s] = H
        /\ \A t \in Spaces : t # s => m2.hist[t] = m.hist[t]
    BY <1>1, <2>4, HistoryReplaced
  <2>6. InHistory(m2) = InHistory(m) + b
    BY <1>2, <1>5, <1>13, <1>15, <2>1, <2>5
  <2>7. ASSUME NEW t \in Spaces
        PROVE  /\ m2.eliciting_bytes[t] = ElicitingBytes(m2.hist[t])
               /\ Distinct(m2.hist[t])
               /\ m2.eliciting_bytes[t] > 0 => m2.last_eliciting[t] # 0
    <3>1. m.eliciting_bytes[t] = ElicitingBytes(m.hist[t])
      <4>1. m.eliciting_bytes[t] =
              ElicitingBytes(m.hist[t]) + IF t = s THEN 0 ELSE 0
        BY <1>14 DEF Counted
      <4> QED
        BY <4>1, BytesNat
    <3>2. CASE t = s
      <4>1. m2.eliciting_bytes[t] = eb /\ m2.last_eliciting[t] = le
        BY <1>1, <2>4, <3>2
      <4>2. eb = ElicitingBytes(m2.hist[t])
        BY <1>5, <1>12, <2>5, <3>1, <3>2
      <4>3. Distinct(m2.hist[t])
        BY <1>4, <2>5, <3>2
      <4>4. eb > 0 => le # 0
        <5>1. CASE IsAckEliciting(p)
          BY <1>3, <5>1 DEF le
        <5>2. CASE ~IsAckEliciting(p)
          BY <5>2 DEF le, eb, Sound
        <5> QED
          BY <5>1, <5>2
      <4> QED
        BY <4>1, <4>2, <4>3, <4>4
    <3>3. CASE t # s
      <4>1. /\ m2.eliciting_bytes[t] = m.eliciting_bytes[t]
            /\ m2.last_eliciting[t] = m.last_eliciting[t]
            /\ m2.hist[t] = m.hist[t]
        BY <1>1, <2>4, <2>5, <3>3
      <4> QED
        BY <3>1, <4>1 DEF Sound
    <3> QED
      BY <3>2, <3>3
  <2>8. Countable(m2)
    BY <2>7, BytesNat DEF Countable
  <2>9. m3 \in Ackms /\ SameButDeadline(m2, m3) /\ Armed(m3)
    BY <2>4, <2>8, TimerIsSet
  <2> HIDE DEF m3
  <2>10. /\ c \in Controllers
         /\ c.bytes_in_flight = m.cc.bytes_in_flight + b
         /\ c.cong_wnd = m.cc.cong_wnd
         /\ c.processing_loss = m.cc.processing_loss
    <3>1. m3.cc = m.cc
      BY <2>4, <2>9 DEF SameButDeadline
    <3> QED
      BY <1>1, <1>2, <3>1 DEF newreno_on_data_sent, Controllers
  <2> HIDE DEF c
  <2>11. /\ m4 \in Ackms /\ m4.cc = c
         /\ m4.hist = m3.hist /\ m4.bytes_in_flight = m3.bytes_in_flight
         /\ m4.eliciting_bytes = m3.eliciting_bytes
         /\ m4.last_eliciting = m3.last_eliciting
         /\ m4.loss_time = m3.loss_time /\ m4.deadline = m3.deadline
         /\ SameHandshake(m3, m4)
    BY <2>9, <2>10 DEF Ackms, SameHandshake
  <2> HIDE DEF m4
  <2>12. /\ m4.hist = m2.hist /\ m4.bytes_in_flight = m2.bytes_in_flight
         /\ m4.eliciting_bytes = m2.eliciting_bytes
         /\ m4.last_eliciting = m2.last_eliciting
         /\ SameHandshake(m, m4)
    BY <2>4, <2>9, <2>11 DEF SameButDeadline, SameHandshake
  <2>13. InHistory(m4) = InHistory(m) + b
    BY <2>6, <2>12 DEF InHistory
  <2>14. /\ m4.bytes_in_flight = InHistory(m4) + 0
         /\ m4.cc.bytes_in_flight = InHistory(m4) + 0 + u
    BY <1>2, <1>13, <1>14, <2>4, <2>10, <2>11, <2>12, <2>13 DEF Counted
  <2>15. Counted(m4, u, s, 0, 0)
    <3>1. ASSUME NEW t \in Spaces
          PROVE  m4.eliciting_bytes[t] =
                   ElicitingBytes(m4.hist[t]) + IF t = s THEN 0 ELSE 0
      BY <2>7, <2>12, BytesNat
    <3> QED
      BY <2>14, <3>1 DEF Counted
  <2>16. Steady(m4.cc)
    BY <2>10, <2>11 DEF Sound, Steady
  <2>17. Sound(m4, u, s, 0, 0)
    BY <2>7, <2>11, <2>12, <2>15, <2>16 DEF Sound
  <2>18. LossSpace(m4) = LossSpace(m3)
    BY <2>11 DEF LossSpace
  <2>19. Armed(m4)
    BY <2>9, <2>11, <2>18 DEF Armed, SameHandshake
  <2>20. /\ m4.hist = [m.hist EXCEPT ![s] = @ \cup {p}]
         /\ m4.cc.cong_wnd = m.cc.cong_wnd
    BY <1>8, <2>4, <2>10, <2>11, <2>12
  <2> HIDE DEF r
  <2> QED
    BY <2>1, <2>12, <2>17, <2>19, <2>20 DEF r
<1> QED
  BY <1>16, <1>17

-----------------------------------------------------------------------------
(***************************************************************************)
(* The inductive invariant                                                 *)
(***************************************************************************)

\* The packets of the histories have numbers that were given out, and were
\* sent in the past.
Bounded(m, next, t) ==
    \A s \in Spaces : \A p \in m.hist[s] : p.pn < next[s] /\ p.time <= t

\* OneFate, and no callback before a packet number is used: f is what the
\* packet numbers of a space have met, h its history.
FateFor(f, h, next) ==
    \A pn \in 0..MaxPkts - 1 :
        IF pn < next /\ pn \notin Pns(h)
        THEN \E what \in Fates : f[pn] = <<what>>
        ELSE f[pn] = <<>>
Fated(f, m, next) == \A s \in Spaces : FateFor(f[s], m.hist[s], next[s])

\* As long as a client keeps its Initial keys, it has sent no Handshake packet
\* and the server cannot have validated its address.
ClientInitial(server, m, next) ==
    ~server /\ ~m.discarded[INITIAL] => next[HANDSHAKE] = 0 /\ ~m.peer_completed

IInv ==
    /\ TypeOK
    /\ Sound(ackm, undone, APP, 0, 0)
    /\ Armed(ackm)
    /\ Bounded(ackm, next_pn, now)
    /\ Fated(fate, ackm, next_pn)
    /\ ClientInitial(is_server, ackm, next_pn)

\* What OneReductionPerRound says of a step.
Reduction ==
    /\ ackm'.cc.cong_wnd >= Min({k_min_wnd, InitWnd})
    /\ ackm'.cc.cong_wnd < ackm.cc.cong_wnd =>
          \E s \in Spaces : \E p \in ackm.hist[s] :
              /\ p.time > ackm.cc.recovery_start
              /\ fate[s][p.pn] = <<>> /\ fate'[s][p.pn] = <<"lost">>

\* Without packets that wait it does not matter in which space they would.
LEMMA SoundAnywhere ==
    ASSUME NEW m, NEW u, NEW s, NEW t, Sound(m, u, s, 0, 0)
    PROVE  Sound(m, u, t, 0, 0)
BY DEF Sound, Counted

\* What the window of a sound state says of a step that does not reduce it.
LEMMA NoReduction ==
    ASSUME NEW u, NEW s, Sound(ackm', u, s, 0, 0), ackm \in Ackms,
           ackm'.cc.cong_wnd >= ackm.cc.cong_wnd
    PROVE  Reduction
<1>1. ackm'.cc.cong_wnd \in Nat /\ ackm.cc.cong_wnd \in Nat
  BY DEF Sound, Ackms, Controllers
<1>2. ackm'.cc.cong_wnd >= Min({k_min_wnd, InitWnd})
  BY DEF Sound, Steady, MinWnd
<1> QED
  BY <1>1, <1>2 DEF Reduction

FateType == [Spaces -> [0..MaxPkts - 1 -> Seq(Fates)]]

\* Callbacks for packets that leave the history, which had none so far.
Callable(f, s, h, next, T, what) ==
    /\ f \in FateType /\ s \in Spaces /\ h \in SUBSET Pkts
    /\ FateFor(f[s], h, next) /\ Distinct(h) /\ \A p \in h : p.pn < next
    /\ T \in SUBSET h /\ what \in Fates

Called(f, s, h, next, T, what, g) ==
    /\ g \in FateType
    /\ \A t \in Spaces : t # s => g[t] = f[t]
    /\ FateFor(g[s], h \ T, next)
    /\ \A p \in T : f[s][p.pn] = <<>> /\ g[s][p.pn] = <<what>>

LEMMA CalledBack ==
    ASSUME NEW f, NEW s, NEW h, NEW next, NEW T, NEW what,
           Callable(f, s, h, next, T, what)
    PROVE  Called(f, s, h, next, T, what, CallBack(f, s, T, what))
<1> DEFINE g == CallBack(f, s, T, what)
           e == [pn \in 0..MaxPkts - 1 |->
                   IF pn \in Pns(T) THEN Append(f[s][pn], what) ELSE f[s][pn]]
<1> /\ f \in FateType /\ s \in Spaces /\ h \in SUBSET Pkts
    /\ FateFor(f[s], h, next) /\ Distinct(h) /\ \A p \in h : p.pn < next
    /\ T \in SUBSET h /\ what \in Fates
  BY DEF Callable
<1>1. f[s] \in [0..MaxPkts - 1 -> Seq(Fates)]
  BY DEF FateType
<1>2. g = [f EXCEPT ![s] = e]
  <2>1. DOMAIN f[s] = 0..MaxPkts - 1
    BY <1>1
  <2>2. \A pn : (\E p \in T : p.pn = pn) <=> pn \in Pns(T)
    BY DEF Pns
  <2>3. e = [pn \in DOMAIN f[s] |->
               IF \E p \in T : p.pn = pn THEN Append(f[s][pn], what)
                                         ELSE f[s][pn]]
    BY <2>1, <2>2
  <2>4. CallBack(f, s, T, what) =
          [f EXCEPT ![s] = [pn \in DOMAIN f[s] |->
               IF \E p \in T : p.pn = pn THEN Append(f[s][pn], what)
                                         ELSE f[s][pn]]]
    BY DEF CallBack, FateType
  <2> HIDE DEF e
  <2> QED
    BY <2>3, <2>4
<1>3. e \in [0..MaxPkts - 1 -> Seq(Fates)]
  <2>1. \A pn \in 0..MaxPkts - 1 : f[s][pn] \in Seq(Fates)
    BY <1>1
  <2>2. \A q \in Seq(Fates) : Append(q, what) \in Seq(Fates)
    OBVIOUS
  <2> QED
    BY <2>1, <2>2
<1> HIDE DEF g
<1>4. g \in FateType /\ g[s] = e /\ \A t \in Spaces : t # s => g[t] = f[t]
  BY <1>2, <1>3 DEF FateType
<1>5. \A pn \in 0..MaxPkts - 1 :
        e[pn] = IF pn \in Pns(T) THEN Append(f[s][pn], what) ELSE f[s][pn]
  OBVIOUS
<1> HIDE DEF e
<1>6. ASSUME NEW p \in T PROVE f[s][p.pn] = <<>> /\ e[p.pn] = <<what>>
  <2>1. p.pn \in 0..MaxPkts - 1 /\ p.pn \in Pns(h) /\ p.pn \in Pns(T)
    BY DEF Pkts, Pns
  <2>2. f[s][p.pn] = <<>>
    BY <2>1 DEF FateFor
  <2>3. Append(<<>>, what) = <<what>>
    OBVIOUS
  <2>4. e[p.pn] = Append(f[s][p.pn], what)
    BY <1>5, <2>1
  <2> QED
    BY <2>2, <2>3, <2>4
<1>7. ASSUME NEW pn \in 0..MaxPkts - 1
      PROVE  IF pn < next /\ pn \notin Pns(h \ T)
             THEN \E w \in Fates : e[pn] = <<w>>
             ELSE e[pn] = <<>>
  <2>1. CASE pn \in Pns(T)
    <3>1. PICK p \in T : p.pn = pn
      BY <2>1 DEF Pns
    <3>2. pn < next /\ pn \notin Pns(h \ T)
      BY <3>1 DEF Distinct, Pns
    <3> QED
      BY <1>6, <3>1, <3>2
  <2>2. CASE pn \notin Pns(T)
    <3>1. pn \in Pns(h \ T) <=> pn \in Pns(h)
      BY <2>2 DEF Pns
    <3>2. e[pn] = f[s][pn]
      BY <1>5, <2>2
    <3> QED
      BY <3>1, <3>2 DEF FateFor
  <2> QED
    BY <2>1, <2>2
<1>8. FateFor(e, h \ T, next)
  BY <1>7 DEF FateFor
<1>9. Called(f, s, h, next, T, what, g)
  BY <1>4, <1>6, <1>8 DEF Called
<1> QED
  BY <1>9 DEF g

\* The same for the invariant: packets T of space s are called back and leave
\* the history.
Leave(f, m, s, next, t, T, what, r) ==
    /\ f \in FateType /\ m \in Ackms /\ s \in Spaces /\ what \in Fates
    /\ Fated(f, m, next) /\ Bounded(m, next, t)
    /\ Distinct(m.hist[s]) /\ T \in SUBSET m.hist[s]
    /\ r.hist = [m.hist EXCEPT ![s] = @ \ T]
Left(f, s, next, t, T, what, r, g) ==
    /\ g \in FateType
    /\ Fated(g, r, next) /\ Bounded(r, next, t)
    /\ \A p \in T : f[s][p.pn] = <<>> /\ g[s][p.pn] = <<what>>
    /\ \A q \in Spaces : q # s => g[q] = f[q]

LEMMA FateStep ==
    ASSUME NEW f, NEW m, NEW s, NEW next, NEW t, NEW T, NEW what, NEW r,
           Leave(f, m, s, next, t, T, what, r)
    PROVE  Left(f, s, next, t, T, what, r, CallBack(f, s, T, what))
<1> DEFINE g == CallBack(f, s, T, what)
           h == m.hist[s]
<1> /\ f \in FateType /\ m \in Ackms /\ s \in Spaces /\ what \in Fates
    /\ Fated(f, m, next) /\ Bounded(m, next, t)
    /\ Distinct(m.hist[s]) /\ T \in SUBSET m.hist[s]
    /\ r.hist = [m.hist EXCEPT ![s] = @ \ T]
  BY DEF Leave
<1>1. m.hist \in [Spaces -> SUBSET Pkts] /\ h \in SUBSET Pkts
  BY DEF Ackms
<1>2. FateFor(f[s], h, next[s]) /\ \A p \in h : p.pn < next[s]
  BY DEF Fated, Bounded
<1> HIDE DEF h
<1>3. /\ g \in FateType
      /\ \A q \in Spaces : q # s => g[q] = f[q]
      /\ FateFor(g[s], h \ T, next[s])
      /\ \A p \in T : f[s][p.pn] = <<>> /\ g[s][p.pn] = <<what>>
  <2>1. Distinct(h) /\ T \in SUBSET h
    BY DEF h
  <2>2. Callable(f, s, h, next[s], T, what)
    BY <1>1, <1>2, <2>1 DEF Callable
  <2>3. Called(f, s, h, next[s], T, what, g)
    BY <2>2, CalledBack
  <2> HIDE DEF g
  <2> QED
    BY <2>3 DEF Called
<1>4. r.hist[s] = h \ T /\ \A q \in Spaces : q # s => r.hist[q] = m.hist[q]
  BY <1>1 DEF h
<1> HIDE DEF g
<1>5. Fated(g, r, next)
  BY <1>3, <1>4 DEF Fated
<1>6. Bounded(r, next, t)
  BY <1>4 DEF Bounded, h
<1>7. Left(f, s, next, t, T, what, r, g)
  BY <1>3, <1>5, <1>6 DEF Left
<1> QED
  BY <1>7 DEF g

-----------------------------------------------------------------------------
(***************************************************************************)
(* The steps                                                               *)
(***************************************************************************)

LEMMA SpacesAre ==
    /\ INITIAL \in Spaces /\ HANDSHAKE \in Spaces /\ APP \in Spaces
    /\ INITIAL # HANDSHAKE /\ INITIAL # APP /\ HANDSHAKE # APP
BY DEF Spaces, INITIAL, HANDSHAKE, APP

\* What the invariant gives to the lemmas about operations.
LEMMA InvParts ==
    ASSUME IInv, NEW s \in Spaces
    PROVE  /\ ackm \in Ackms /\ now \in Times /\ undone \in Nat
           /\ fate \in FateType /\ next_pn \in [Spaces -> 0..MaxPkts]
           /\ Sound(ackm, undone, s, 0, 0)
           /\ Armed(ackm) /\ Bounded(ackm, next_pn, now)
           /\ Fated(fate, ackm, next_pn)
           /\ \A t \in Spaces : Distinct(ackm.hist[t])
           /\ ackm.hist \in [Spaces -> SUBSET Pkts]
           /\ ackm.discarded \in [Spaces -> BOOLEAN]
<1>1. Sound(ackm, undone, s, 0, 0)
  BY SoundAnywhere DEF IInv
<1> QED
  BY <1>1 DEF IInv, TypeOK, Sound, FateType, Ackms

LEMMA TickStep ==
    ASSUME IInv, Tick PROVE IInv' /\ Reduction
<1>1. /\ now' = now + 1 /\ ackm' = ackm /\ next_pn' = next_pn /\ fate' = fate
      /\ is_server' = is_server /\ restarts' = restarts /\ undone' = undone
  BY DEF Tick
<1>2. TypeOK'
  BY <1>1 DEF IInv, TypeOK, Times
<1>3. Bounded(ackm', next_pn', now')
  <2>1. ASSUME NEW s \in Spaces, NEW p \in ackm.hist[s] PROVE p.time <= now + 1
    <3>1. p.time <= now /\ p.time \in Nat /\ now \in Nat
      BY DEF IInv, TypeOK, Ackms, Pkts, Times, Bounded
    <3> QED
      BY <3>1
  <2> QED
    BY <1>1, <2>1 DEF IInv, Bounded
<1>4. IInv'
  BY <1>1, <1>2, <1>3 DEF IInv
<1>5. ackm'.cc.cong_wnd >= ackm.cc.cong_wnd
  BY <1>1 DEF IInv, TypeOK, Ackms, Controllers
<1>6. Reduction
  BY <1>4, <1>5, NoReduction DEF IInv, TypeOK
<1> QED
  BY <1>4, <1>6

\* A space is discarded, with on_discarded for each of its packets.
LEMMA DiscardStep ==
    ASSUME IInv, NEW s \in Spaces
    PROVE  LET r == Discarded(ackm, s)
               g == CallBack(fate, s, ackm.hist[s], "discarded")
           IN  /\ Sound(r, undone, APP, 0, 0) /\ Armed(r)
               /\ g \in FateType /\ Fated(g, r, next_pn)
               /\ Bounded(r, next_pn, now)
               /\ r.discarded = [ackm.discarded EXCEPT ![s] = TRUE]
               /\ r.handshake_confirmed = ackm.handshake_confirmed
               /\ r.cc.cong_wnd = ackm.cc.cong_wnd
<1> DEFINE r == Discarded(ackm, s)
           h == ackm.hist[s]
           g == CallBack(fate, s, h, "discarded")
<1>1. /\ ackm \in Ackms /\ now \in Times /\ undone \in Nat /\ fate \in FateType
      /\ Sound(ackm, undone, s, 0, 0) /\ Bounded(ackm, next_pn, now)
      /\ Fated(fate, ackm, next_pn) /\ Distinct(h)
      /\ ackm.hist \in [Spaces -> SUBSET Pkts]
  BY InvParts
<1>2. /\ Sound(r, undone, s, 0, 0) /\ Armed(r)
      /\ r.hist = [ackm.hist EXCEPT ![s] = {}]
      /\ r.discarded = [ackm.discarded EXCEPT ![s] = TRUE]
      /\ r.handshake_confirmed = ackm.handshake_confirmed
      /\ r.cc.cong_wnd = ackm.cc.cong_wnd
  BY <1>1, SpaceDiscarded
<1> HIDE DEF r
<1>3. r.hist = [ackm.hist EXCEPT ![s] = @ \ h]
  BY <1>1, <1>2
<1>4. Leave(fate, ackm, s, next_pn, now, h, "discarded", r)
  BY <1>1, <1>3 DEF Leave, Fates
<1>5. Left(fate, s, next_pn, now, h, "discarded", r, g)
  BY <1>4, FateStep
<1>6. Sound(r, undone, APP, 0, 0)
  BY <1>2, SoundAnywhere
<1> HIDE DEF g
<1>7. g \in FateType /\ Fated(g, r, next_pn) /\ Bounded(r, next_pn, now)
  BY <1>5 DEF Left
<1> QED
  BY <1>2, <1>6, <1>7 DEF r, g

LEMMA ServerDiscardsInitialStep ==
    ASSUME IInv, ServerDiscardsInitial PROVE IInv' /\ Reduction
<1> DEFINE r == Discarded(ackm, INITIAL)
           g == CallBack(fate, INITIAL, ackm.hist[INITIAL], "discarded")
<1>1. /\ ackm' = r /\ fate' = g /\ is_server
      /\ is_server' = is_server /\ now' = now /\ next_pn' = next_pn
      /\ restarts' = restarts /\ undone' = undone
  BY DEF ServerDiscardsInitial
<1>2. /\ Sound(r, undone, APP, 0, 0) /\ Armed(r)
      /\ g \in FateType /\ Fated(g, r, next_pn)
      /\ Bounded(r, next_pn, now)
      /\ r.cc.cong_wnd = ackm.cc.cong_wnd
  BY DiscardStep, SpacesAre
<1> HIDE DEF r, g
<1>3. TypeOK'
  BY <1>1, <1>2 DEF IInv, TypeOK, Sound, FateType
<1>4. IInv'
  BY <1>1, <1>2, <1>3 DEF IInv, ClientInitial
<1>5. ackm'.cc.cong_wnd >= ackm.cc.cong_wnd
  BY <1>1, <1>2 DEF IInv, TypeOK, Ackms, Controllers
<1>6. Reduction
  BY <1>4, <1>5, NoReduction DEF IInv, TypeOK
<1> QED
  BY <1>4, <1>6

LEMMA OnHandshakeConfirmedStep ==
    ASSUME IInv, OnHandshakeConfirmed PROVE IInv' /\ Reduction
<1> DEFINE m == Discarded(ackm, HANDSHAKE)
           g == CallBack(fate, HANDSHAKE, ackm.hist[HANDSHAKE], "discarded")
           m1 == [m EXCEPT !.handshake_confirmed = TRUE, !.peer_completed = TRUE]
           r == ackm_set_loss_detection_timer(m1)
<1>1. /\ ackm' = r /\ fate' = g /\ ackm.discarded[INITIAL]
      /\ is_server' = is_server /\ now' = now /\ next_pn' = next_pn
      /\ restarts' = restarts /\ undone' = undone
  BY DEF OnHandshakeConfirmed
<1>2. /\ Sound(m, undone, APP, 0, 0)
      /\ g \in FateType /\ Fated(g, m, next_pn)
      /\ Bounded(m, next_pn, now)
      /\ m.discarded = [ackm.discarded EXCEPT ![HANDSHAKE] = TRUE]
      /\ m.cc.cong_wnd = ackm.cc.cong_wnd
  BY DiscardStep, SpacesAre
<1>3. now \in Times /\ ackm.discarded \in [Spaces -> BOOLEAN]
  BY InvParts, SpacesAre
<1> HIDE DEF m, g
<1>4. /\ m1 \in Ackms /\ m1.hist = m.hist /\ SameCounts(m, m1)
      /\ m1.discarded = m.discarded
  BY <1>2 DEF Sound, Ackms, SameCounts
<1> HIDE DEF m1
<1>5. Sound(m1, undone, APP, 0, 0)
  BY <1>2, <1>4, SoundKept
<1>6. Countable(m1)
  BY <1>5, SoundIsCountable
<1>7. r \in Ackms /\ SameButDeadline(m1, r) /\ Armed(r)
  BY <1>3, <1>4, <1>6, TimerIsSet
<1> HIDE DEF r
<1>8. /\ r.hist = m.hist /\ r.discarded = m.discarded
      /\ SameCounts(m, r)
  BY <1>4, <1>7 DEF SameButDeadline, SameCounts
<1>9. Sound(r, undone, APP, 0, 0)
  BY <1>2, <1>7, <1>8, SoundKept
<1>10. Fated(g, r, next_pn) /\ Bounded(r, next_pn, now)
  BY <1>2, <1>8 DEF Fated, Bounded
<1>11. r.discarded[INITIAL]
  BY <1>1, <1>2, <1>3, <1>8, SpacesAre
<1>12. TypeOK'
  BY <1>1, <1>2, <1>7 DEF IInv, TypeOK, FateType
<1>13. IInv'
  BY <1>1, <1>7, <1>9, <1>10, <1>11, <1>12 DEF IInv, ClientInitial
<1>14. ackm'.cc.cong_wnd >= ackm.cc.cong_wnd
  BY <1>1, <1>2, <1>8 DEF IInv, TypeOK, Ackms, Controllers, SameCounts
<1>15. Reduction
  BY <1>13, <1>14, NoReduction DEF IInv, TypeOK
<1> QED
  BY <1>13, <1>15

\* Answering a probe request touches the requests only.
LEMMA ProbeSentKeeps ==
    ASSUME NEW m \in Ackms, NEW s
    PROVE  LET r == ProbeSent(m, s)
           IN  r \in Ackms /\ SameRest(m, r) /\ SameCounts(m, r)
<1> DEFINE a == [m.pto EXCEPT ![s] = Max({0, @ - 1})]
           b == [t \in DOMAIN m.anti_deadlock |->
                   IF t = s THEN Max({0, m.anti_deadlock[t] - 1})
                   ELSE m.anti_deadlock[t]]
           r == ProbeSent(m, s)
<1>1. /\ m.pto \in [Spaces -> Nat]
      /\ m.anti_deadlock \in [{INITIAL, HANDSHAKE} -> Nat]
  BY DEF Ackms
<1>2. \A n \in Nat : Max({0, n - 1}) \in Nat
  <2> SUFFICES ASSUME NEW n \in Nat PROVE Max({0, n - 1}) \in Nat
    OBVIOUS
  <2>1. 0 \in Int /\ n - 1 \in Int
    OBVIOUS
  <2>2. Max({0, n - 1}) \in {0, n - 1} /\ Max({0, n - 1}) >= 0
    BY <2>1, PairMaxMin
  <2> QED
    BY <2>2
<1>3. a \in [Spaces -> Nat] /\ b \in [{INITIAL, HANDSHAKE} -> Nat]
  BY <1>1, <1>2
<1>4. r = [m EXCEPT !.pto = a, !.anti_deadlock = b]
  BY DEF ProbeSent, Ackms
<1> HIDE DEF a, b, r
<1>5. r \in Ackms /\ SameRest(m, r) /\ SameCounts(m, r)
  BY <1>3, <1>4 DEF Ackms, SameRest, SameCounts
<1> QED
  BY <1>5 DEF r

\* A timer that is armed stays so when nothing it depends on changes.
LEMMA ArmedKept ==
    ASSUME NEW m, NEW r, Armed(m), SameRest(m, r), SameCounts(m, r)
    PROVE  Armed(r)
<1>1. LossSpace(r) = LossSpace(m)
  BY DEF LossSpace, SameRest
<1> QED
  BY <1>1 DEF Armed, SameRest, SameCounts

LEMMA TxPacketStep ==
    ASSUME IInv, NEW s \in Spaces, NEW kind \in Kinds, TxPacket(s, kind)
    PROVE  IInv' /\ Reduction
<1> DEFINE p == [pn |-> next_pn[s], time |-> now, kind |-> kind]
           m1 == ossl_ackm_on_tx_packet(ackm, s, p)
           m2 == IF IsAckEliciting(p) THEN ProbeSent(m1, s) ELSE m1
           discard == ~is_server /\ s = HANDSHAKE /\ ~ackm.discarded[INITIAL]
           next == [next_pn EXCEPT ![s] = @ + 1]
           r == Discarded(m2, INITIAL)
           g == CallBack(fate, INITIAL, ackm.hist[INITIAL], "discarded")
<1>1. /\ NumSent < MaxPkts
      /\ next_pn' = next
      /\ ackm' = IF discard THEN r ELSE m2
      /\ fate' = IF discard THEN g ELSE fate
      /\ is_server' = is_server /\ now' = now
      /\ restarts' = restarts /\ undone' = undone
  BY DEF TxPacket
<1>2. /\ ackm \in Ackms /\ now \in Times /\ undone \in Nat /\ fate \in FateType
      /\ next_pn \in [Spaces -> 0..MaxPkts]
      /\ Sound(ackm, undone, s, 0, 0) /\ Armed(ackm)
      /\ Bounded(ackm, next_pn, now) /\ Fated(fate, ackm, next_pn)
      /\ ackm.hist \in [Spaces -> SUBSET Pkts]
      /\ ackm.discarded \in [Spaces -> BOOLEAN]
  BY InvParts
<1>3. next_pn[s] \in 0..MaxPkts - 1
  <2>1. \A t \in Spaces : next_pn[t] \in Nat
    BY <1>2
  <2>2. next_pn[INITIAL] \in Nat /\ next_pn[HANDSHAKE] \in Nat
        /\ next_pn[APP] \in Nat
    BY <2>1, SpacesAre
  <2>3. next_pn[INITIAL] + next_pn[HANDSHAKE] + next_pn[APP] < MaxPkts
    BY <1>1 DEF NumSent, Total
  <2>4. CASE s = INITIAL
    BY <2>2, <2>3, <2>4, Constants
  <2>5. CASE s = HANDSHAKE
    BY <2>2, <2>3, <2>5, Constants
  <2>6. CASE s = APP
    BY <2>2, <2>3, <2>6, Constants
  <2> QED
    BY <2>4, <2>5, <2>6 DEF Spaces
<1>4. p \in Pkts /\ p.pn = next_pn[s] /\ p.time = now
  BY <1>2, <1>3 DEF Pkts
<1>5. p.pn \notin Pns(ackm.hist[s])
  <2>1. \A q \in ackm.hist[s] : q.pn < next_pn[s] /\ q.pn \in Int
    BY <1>2 DEF Bounded, Pkts
  <2> QED
    BY <1>3, <1>4, <2>1 DEF Pns
<1> HIDE DEF p
<1>6. /\ Sound(m1, undone, s, 0, 0) /\ Armed(m1)
      /\ m1.hist = [ackm.hist EXCEPT ![s] = @ \cup {p}]
      /\ SameHandshake(ackm, m1)
      /\ m1.cc.cong_wnd = ackm.cc.cong_wnd
  BY <1>2, <1>4, <1>5, PacketSent
<1> HIDE DEF m1
<1>7. /\ Sound(m2, undone, s, 0, 0) /\ Armed(m2)
      /\ m2.hist = [ackm.hist EXCEPT ![s] = @ \cup {p}]
      /\ SameHandshake(ackm, m2)
      /\ m2.cc.cong_wnd = ackm.cc.cong_wnd
  <2>1. CASE IsAckEliciting(p)
    <3>1. m2 = ProbeSent(m1, s) /\ m1 \in Ackms
      BY <1>6, <2>1 DEF Sound
    <3>2. m2 \in Ackms /\ SameRest(m1, m2) /\ SameCounts(m1, m2)
      BY <3>1, ProbeSentKeeps
    <3> HIDE DEF m2
    <3>3. Sound(m2, undone, s, 0, 0)
      BY <1>6, <3>2, SoundKept DEF SameRest
    <3>4. Armed(m2)
      BY <1>6, <3>2, ArmedKept
    <3> QED
      BY <1>6, <3>2, <3>3, <3>4 DEF SameRest, SameCounts, SameHandshake
  <2>2. CASE ~IsAckEliciting(p)
    BY <1>6, <2>2
  <2> QED
    BY <2>1, <2>2
<1> HIDE DEF m2
<1>8. next \in [Spaces -> 0..MaxPkts] /\ next[s] = next_pn[s] + 1
      /\ \A t \in Spaces : t # s => next[t] = next_pn[t]
  BY <1>2, <1>3, Constants
<1> HIDE DEF next
<1>9. /\ m2.hist[s] = ackm.hist[s] \cup {p}
      /\ \A t \in Spaces : t # s => m2.hist[t] = ackm.hist[t]
  BY <1>2, <1>7
<1>10. Bounded(m2, next, now)
  <2> SUFFICES ASSUME NEW t \in Spaces, NEW q \in m2.hist[t]
               PROVE  q.pn < next[t] /\ q.time <= now
    BY DEF Bounded
  <2>1. CASE t = s /\ q = p
    BY <1>2, <1>3, <1>4, <1>8, <2>1 DEF Times
  <2>2. CASE t = s /\ q # p
    <3>1. q \in ackm.hist[s] /\ q \in Pkts
      BY <1>2, <1>9, <2>2
    <3>2. q.pn < next_pn[s] /\ q.time <= now /\ q.pn \in Int
      BY <1>2, <3>1 DEF Bounded, Pkts
    <3> QED
      BY <1>3, <1>8, <2>2, <3>2
  <2>3. CASE t # s
    BY <1>2, <1>8, <1>9, <2>3 DEF Bounded
  <2> QED
    BY <2>1, <2>2, <2>3
<1>11. Fated(fate, m2, next)
  <2> SUFFICES ASSUME NEW t \in Spaces
               PROVE  FateFor(fate[t], m2.hist[t], next[t])
    BY DEF Fated
  <2>1. FateFor(fate[t], ackm.hist[t], next_pn[t])
    BY <1>2 DEF Fated
  <2>2. CASE t = s
    <3>1. ASSUME NEW pn \in 0..MaxPkts - 1
          PROVE  (pn < next[t] /\ pn \notin Pns(m2.hist[t]))
                   <=> (pn < next_pn[t] /\ pn \notin Pns(ackm.hist[t]))
      <4>1. pn \in Pns(m2.hist[t]) <=> pn \in Pns(ackm.hist[t]) \/ pn = next_pn[t]
        BY <1>4, <1>9, <2>2 DEF Pns
      <4>2. pn < next[t] <=> pn < next_pn[t] \/ pn = next_pn[t]
        BY <1>3, <1>8, <2>2
      <4>3. pn < next_pn[t] => pn # next_pn[t]
        BY <1>3, <2>2
      <4> QED
        BY <4>1, <4>2, <4>3
    <3> QED
      BY <2>1, <3>1 DEF FateFor
  <2>3. CASE t # s
    BY <1>8, <1>9, <2>1, <2>3
  <2> QED
    BY <2>2, <2>3
<1>12. CASE ~discard
  <2>1. ackm' = m2 /\ fate' = fate
    BY <1>1, <1>12
  <2>2. Sound(m2, undone, APP, 0, 0)
    BY <1>7, SoundAnywhere
  <2>3. TypeOK'
    BY <1>1, <1>8, <2>1, <2>2 DEF IInv, TypeOK, Sound
  <2>4. ClientInitial(is_server', ackm', next_pn')
    <3> SUFFICES ASSUME ~is_server, ~m2.discarded[INITIAL]
                 PROVE  next[HANDSHAKE] = 0 /\ ~m2.peer_completed
      BY <1>1, <2>1 DEF ClientInitial
    <3>1. ~ackm.discarded[INITIAL] /\ m2.peer_completed = ackm.peer_completed
      BY <1>7 DEF SameHandshake
    <3>2. next_pn[HANDSHAKE] = 0 /\ ~ackm.peer_completed
      BY <3>1 DEF IInv, ClientInitial
    <3>3. s # HANDSHAKE
      BY <1>12, <3>1
    <3> QED
      BY <1>8, <3>1, <3>2, <3>3, SpacesAre
  <2>5. IInv'
    BY <1>1, <1>7, <1>10, <1>11, <2>1, <2>2, <2>3, <2>4 DEF IInv
  <2>6. ackm'.cc.cong_wnd >= ackm.cc.cong_wnd
    BY <1>2, <1>7, <2>1 DEF Ackms, Controllers
  <2>7. Reduction
    BY <1>2, <2>5, <2>6, NoReduction DEF IInv
  <2> QED
    BY <2>5, <2>7
<1>13. CASE discard
  <2>1. ackm' = r /\ fate' = g
    BY <1>1, <1>13
  <2>2. Sound(m2, undone, INITIAL, 0, 0)
    BY <1>7, SoundAnywhere
  <2>3. /\ Sound(r, undone, INITIAL, 0, 0) /\ Armed(r)
        /\ r.hist = [m2.hist EXCEPT ![INITIAL] = {}]
        /\ r.discarded = [m2.discarded EXCEPT ![INITIAL] = TRUE]
        /\ r.cc.cong_wnd = m2.cc.cong_wnd
    BY <1>2, <2>2, SpaceDiscarded, SpacesAre
  <2> HIDE DEF r
  <2> DEFINE h == ackm.hist[INITIAL]
  <2>4. /\ m2 \in Ackms /\ m2.hist[INITIAL] = h /\ Distinct(h)
        /\ m2.hist \in [Spaces -> SUBSET Pkts]
        /\ m2.discarded \in [Spaces -> BOOLEAN]
    <3>1. s # INITIAL
      BY <1>13, SpacesAre
    <3> QED
      BY <1>2, <1>9, <2>2, <3>1, SpacesAre DEF Sound, Ackms
  <2>5. r.hist = [m2.hist EXCEPT ![INITIAL] = @ \ h]
    BY <2>3, <2>4, SpacesAre
  <2>6. Leave(fate, m2, INITIAL, next, now, h, "discarded", r)
    BY <1>2, <1>10, <1>11, <2>4, <2>5, SpacesAre DEF Leave, Fates
  <2>7. Left(fate, INITIAL, next, now, h, "discarded", r, g)
    BY <2>6, FateStep
  <2> HIDE DEF g
  <2>8. g \in FateType /\ Fated(g, r, next) /\ Bounded(r, next, now)
    BY <2>7 DEF Left
  <2>9. Sound(r, undone, APP, 0, 0)
    BY <2>3, SoundAnywhere
  <2>10. TypeOK'
    BY <1>1, <1>8, <2>1, <2>8, <2>9 DEF IInv, TypeOK, Sound, FateType
  <2>11. r.discarded[INITIAL]
    BY <2>3, <2>4, SpacesAre
  <2>12. IInv'
    BY <1>1, <2>1, <2>3, <2>8, <2>9, <2>10, <2>11 DEF IInv, ClientInitial
  <2>13. ackm'.cc.cong_wnd >= ackm.cc.cong_wnd
    BY <1>2, <1>7, <2>1, <2>3 DEF Ackms, Controllers
  <2>14. Reduction
    BY <1>2, <2>12, <2>13, NoReduction DEF IInv
  <2> QED
    BY <2>12, <2>14
<1> QED
  BY <1>12, <1>13

\* The timer is not set again after a restart.  It need not be: what it was
\* armed for has become less, and the peer has not completed validation.
LEMMA MarkPacketPseudoLostStep ==
    ASSUME IInv, MarkPacketPseudoLost PROVE IInv' /\ Reduction
<1> DEFINE S == {p \in ackm.hist[INITIAL] : p.pn = restarts}
           m == [ackm EXCEPT !.hist[INITIAL] = @ \ S]
           r == ackm_on_pkts_lost(m, INITIAL, S, TRUE)
           g == CallBack(fate, INITIAL, S, "lost")
           i == InflightBytes(S)
<1>1. /\ ~is_server /\ ~ackm.discarded[INITIAL]
      /\ ackm' = r /\ fate' = g /\ undone' = undone + i
      /\ restarts' = restarts + 1
      /\ is_server' = is_server /\ now' = now /\ next_pn' = next_pn
  BY DEF MarkPacketPseudoLost
<1>2. INITIAL \in Spaces
  BY SpacesAre
<1>3. /\ ackm \in Ackms /\ now \in Times /\ undone \in Nat /\ fate \in FateType
      /\ Sound(ackm, undone, INITIAL, 0, 0) /\ Armed(ackm)
      /\ Bounded(ackm, next_pn, now) /\ Fated(fate, ackm, next_pn)
      /\ \A t \in Spaces : Distinct(ackm.hist[t])
      /\ ackm.hist \in [Spaces -> SUBSET Pkts]
  BY <1>2, InvParts
<1>4. S \in SUBSET ackm.hist[INITIAL]
  OBVIOUS
<1> HIDE DEF S
<1>5. /\ m \in Ackms /\ m.hist = [ackm.hist EXCEPT ![INITIAL] = @ \ S]
      /\ SameCounts(ackm, m) /\ SameHandshake(ackm, m)
      /\ m.loss_time = ackm.loss_time /\ m.deadline = ackm.deadline
  <2>1. [ackm.hist EXCEPT ![INITIAL] = @ \ S] \in [Spaces -> SUBSET Pkts]
    BY <1>2, <1>3
  <2>2. m = [ackm EXCEPT !.hist = [ackm.hist EXCEPT ![INITIAL] = @ \ S]]
    BY <1>3 DEF Ackms
  <2> HIDE DEF m
  <2> QED
    BY <1>3, <2>1, <2>2 DEF Ackms, SameCounts, SameHandshake
<1> HIDE DEF m
<1>6. Sound(m, undone, INITIAL, 0 + InflightBytes(S), 0 + ElicitingBytes(S))
  <2>1. 0 \in Nat
    OBVIOUS
  <2> QED
    BY <1>2, <1>3, <1>4, <1>5, <2>1, PacketsTaken
<1>7. /\ Sound(r, undone + i, INITIAL, 0, 0) /\ SameRest(m, r)
      /\ r.cc = m.cc
  BY <1>2, <1>3, <1>6, PacketsPseudoLost
<1> HIDE DEF r
<1>8. r.hist = [ackm.hist EXCEPT ![INITIAL] = @ \ S]
  BY <1>5, <1>7 DEF SameRest
<1>9. Leave(fate, ackm, INITIAL, next_pn, now, S, "lost", r)
  BY <1>2, <1>3, <1>4, <1>8 DEF Leave, Fates
<1>10. Left(fate, INITIAL, next_pn, now, S, "lost", r, g)
  BY <1>9, FateStep
<1> HIDE DEF g
<1>11. g \in FateType /\ Fated(g, r, next_pn) /\ Bounded(r, next_pn, now)
  BY <1>10 DEF Left
<1>12. ~ackm.peer_completed /\ next_pn[HANDSHAKE] = 0
  BY <1>1 DEF IInv, ClientInitial
<1>13. /\ r.handshake_confirmed = ackm.handshake_confirmed
       /\ r.peer_completed = ackm.peer_completed
       /\ r.discarded = ackm.discarded /\ r.deadline = ackm.deadline
       /\ r.cc = ackm.cc
  BY <1>5, <1>7 DEF SameRest, SameHandshake, SameCounts
<1>14. ASSUME NEW t \in Spaces, r.eliciting_bytes[t] > 0
       PROVE  ackm.eliciting_bytes[t] > 0
  <2>1. r.eliciting_bytes[t] = ElicitingBytes(r.hist[t]) + 0
    BY <1>7 DEF Sound, Counted
  <2>2. ackm.eliciting_bytes[t] = ElicitingBytes(ackm.hist[t]) + 0
    BY <1>3 DEF Sound, Counted
  <2>3. ElicitingBytes(r.hist[t]) \in Nat /\ ElicitingBytes(ackm.hist[t]) \in Nat
        /\ ElicitingBytes(S) \in Nat
    BY BytesNat
  <2>4. CASE t = INITIAL
    <3>1. r.hist[t] = ackm.hist[t] \ S
      BY <1>2, <1>3, <1>8, <2>4
    <3>2. Distinct(ackm.hist[t]) /\ S \in SUBSET ackm.hist[t]
      BY <1>3, <1>4, <2>4
    <3>3. ElicitingBytes(ackm.hist[t]) =
            ElicitingBytes(ackm.hist[t] \ S) + ElicitingBytes(S)
      BY <3>2, BytesSplit DEF ElicitingBytes
    <3> QED
      BY <1>14, <2>1, <2>2, <2>3, <3>1, <3>3
  <2>5. CASE t # INITIAL
    <3>1. r.hist[t] = ackm.hist[t]
      BY <1>3, <1>8, <2>5
    <3> QED
      BY <1>14, <2>1, <2>2, <3>1
  <2> QED
    BY <2>4, <2>5
<1>15. Armed(r)
  <2>1. ASSUME NEW t \in Spaces, r.eliciting_bytes[t] > 0,
               t = APP => r.handshake_confirmed
        PROVE  r.deadline \notin {0, Never}
    <3>1. ackm.eliciting_bytes[t] > 0 /\ (t = APP => ackm.handshake_confirmed)
      BY <1>13, <1>14, <2>1
    <3>2. ackm.deadline \notin {0, Never}
      BY <1>3, <3>1 DEF Armed
    <3> QED
      BY <1>13, <3>2
  <2> QED
    BY <1>12, <1>13, <2>1 DEF Armed
<1>16. Sound(r, undone + i, APP, 0, 0)
  BY <1>7, SoundAnywhere
<1>17. TypeOK'
  <2>1. undone + i \in Nat
    BY <1>3, BytesNat
  <2>2. restarts + 1 \in Nat
    BY DEF IInv, TypeOK
  <2> QED
    BY <1>1, <1>11, <1>16, <2>1, <2>2 DEF IInv, TypeOK, Sound, FateType
<1>18. IInv'
  BY <1>1, <1>11, <1>12, <1>13, <1>15, <1>16, <1>17 DEF IInv, ClientInitial
<1>19. ackm'.cc.cong_wnd >= ackm.cc.cong_wnd
  BY <1>1, <1>3, <1>13 DEF Ackms, Controllers
<1>20. Reduction
  BY <1>3, <1>18, <1>19, NoReduction DEF IInv
<1> QED
  BY <1>18, <1>20

\* What a reduction of the window needs, when packets T were declared lost.
LEMMA ReductionByLoss ==
    ASSUME NEW u, NEW v, Sound(ackm', u, v, 0, 0), NEW s \in Spaces, NEW T,
           T \in SUBSET ackm.hist[s],
           ackm'.cc.cong_wnd < ackm.cc.cong_wnd =>
               \E p \in T : p.time > ackm.cc.recovery_start,
           \A p \in T : fate[s][p.pn] = <<>> /\ fate'[s][p.pn] = <<"lost">>
    PROVE  Reduction
<1>1. ackm'.cc.cong_wnd >= Min({k_min_wnd, InitWnd})
  BY DEF Sound, Steady, MinWnd
<1>2. ackm'.cc.cong_wnd < ackm.cc.cong_wnd =>
        \E p \in ackm.hist[s] : /\ p.time > ackm.cc.recovery_start
                                /\ fate[s][p.pn] = <<>>
                                /\ fate'[s][p.pn] = <<"lost">>
  OBVIOUS
<1> QED
  BY <1>1, <1>2 DEF Reduction

LEMMA OnTimeoutStep ==
    ASSUME IInv, OnTimeout PROVE IInv' /\ Reduction
<1> DEFINE s == LossSpace(ackm)
           probe == [ackm EXCEPT !.anti_deadlock[
                       IF ackm.discarded[INITIAL] THEN HANDSHAKE ELSE INITIAL]
                         = @ + 1]
           pto == [ackm EXCEPT !.pto[PtoSpace(ackm)] = @ + 1]
           queued == IF ackm_ack_eliciting_bytes_in_flight(ackm) = 0
                     THEN probe ELSE pto
           bumped == [queued EXCEPT !.pto_count = @ + 1]
<1>1. /\ is_server' = is_server /\ now' = now /\ next_pn' = next_pn
      /\ restarts' = restarts /\ undone' = undone
  BY DEF OnTimeout
<1>2. s \in Spaces
  BY LossSpaceIs
<1>3. /\ ackm \in Ackms /\ now \in Times /\ undone \in Nat /\ fate \in FateType
      /\ Sound(ackm, undone, s, 0, 0) /\ Armed(ackm)
      /\ Bounded(ackm, next_pn, now) /\ Fated(fate, ackm, next_pn)
      /\ \A t \in Spaces : Distinct(ackm.hist[t])
      /\ ackm.hist \in [Spaces -> SUBSET Pkts]
  BY <1>2, InvParts
<1>4. CASE ackm.loss_time[s] # 0
  <2> DEFINE m == DetectLoss(ackm, s)
             T == LostPkts(ackm, s)
             r == ackm_set_loss_detection_timer(m)
             g == CallBack(fate, s, T, "lost")
  <2>1. ackm' = r /\ fate' = g
    BY <1>4 DEF OnTimeout
  <2> HIDE DEF s
  <2>2. /\ Sound(m, undone, s, 0, 0)
        /\ T \in SUBSET ackm.hist[s]
        /\ m.hist = [ackm.hist EXCEPT ![s] = @ \ T]
        /\ SameHandshake(ackm, m)
        /\ m.cc.cong_wnd < ackm.cc.cong_wnd =>
             \E p \in T : p.time > ackm.cc.recovery_start
    <3>1. 0 \in Nat
      OBVIOUS
    <3> QED
      BY <1>2, <1>3, <3>1, LossesDetected
  <2> HIDE DEF m, T
  <2>3. Countable(m) /\ m \in Ackms
    <3>1. 0 \in Nat
      OBVIOUS
    <3> QED
      BY <2>2, <3>1, SoundIsCountable DEF Sound
  <2>4. r \in Ackms /\ SameButDeadline(m, r) /\ Armed(r)
    BY <1>3, <2>3, TimerIsSet
  <2> HIDE DEF r
  <2>5. /\ r.hist = [ackm.hist EXCEPT ![s] = @ \ T] /\ r.hist = m.hist
        /\ SameCounts(m, r) /\ SameHandshake(ackm, r)
    BY <2>2, <2>4 DEF SameButDeadline, SameCounts, SameHandshake
  <2>6. Sound(r, undone, s, 0, 0)
    BY <2>2, <2>4, <2>5, SoundKept
  <2>7. Leave(fate, ackm, s, next_pn, now, T, "lost", r)
    BY <1>2, <1>3, <2>2, <2>5 DEF Leave, Fates
  <2>8. Left(fate, s, next_pn, now, T, "lost", r, g)
    BY <2>7, FateStep
  <2> HIDE DEF g
  <2>9. /\ g \in FateType /\ Fated(g, r, next_pn) /\ Bounded(r, next_pn, now)
        /\ \A p \in T : fate[s][p.pn] = <<>> /\ g[s][p.pn] = <<"lost">>
    BY <2>8 DEF Left
  <2>10. Sound(r, undone, APP, 0, 0)
    BY <2>6, SoundAnywhere
  <2>11. TypeOK'
    BY <1>1, <2>1, <2>4, <2>9 DEF IInv, TypeOK, FateType
  <2>12. ClientInitial(is_server, r, next_pn)
    BY <2>5 DEF IInv, ClientInitial, SameHandshake
  <2>13. IInv'
    BY <1>1, <2>1, <2>4, <2>9, <2>10, <2>11, <2>12 DEF IInv
  <2>14. r.cc = m.cc
    BY <2>5 DEF SameCounts
  <2>15. Reduction
    <3>1. /\ Sound(ackm', undone, s, 0, 0) /\ T \in SUBSET ackm.hist[s]
          /\ ackm'.cc.cong_wnd < ackm.cc.cong_wnd =>
               \E p \in T : p.time > ackm.cc.recovery_start
      BY <2>1, <2>2, <2>6, <2>14
    <3>2. \A p \in T : fate[s][p.pn] = <<>> /\ fate'[s][p.pn] = <<"lost">>
      BY <2>1, <2>9
    <3> QED
      BY <1>2, <3>1, <3>2, ReductionByLoss
  <2> QED
    BY <2>13, <2>15
<1>5. CASE ackm.loss_time[s] = 0
  <2> DEFINE r == ackm_set_loss_detection_timer(bumped)
  <2>1. ackm' = r /\ fate' = fate
    BY <1>5 DEF OnTimeout
  <2> HIDE DEF s
  <2>2. probe \in Ackms /\ SameRest(ackm, probe) /\ SameCounts(ackm, probe)
    <3> DEFINE k == IF ackm.discarded[INITIAL] THEN HANDSHAKE ELSE INITIAL
               a == [ackm.anti_deadlock EXCEPT ![k] = @ + 1]
    <3>1. a \in [{INITIAL, HANDSHAKE} -> Nat]
      BY <1>3 DEF Ackms
    <3>2. probe = [ackm EXCEPT !.anti_deadlock = a]
      BY <1>3 DEF Ackms
    <3> HIDE DEF a, probe
    <3> QED
      BY <1>3, <3>1, <3>2 DEF Ackms, SameRest, SameCounts
  <2>3. pto \in Ackms /\ SameRest(ackm, pto) /\ SameCounts(ackm, pto)
    <3> DEFINE a == [ackm.pto EXCEPT ![PtoSpace(ackm)] = @ + 1]
    <3>1. a \in [Spaces -> Nat]
      <4> DEFINE k == PtoSpace(ackm)
                 f == ackm.pto
      <4>1. f \in [Spaces -> Nat]
        BY <1>3 DEF Ackms
      <4>2. a = [f EXCEPT ![k] = @ + 1]
        OBVIOUS
      <4> HIDE DEF k, f, a
      <4>3. \A t \in Spaces : a[t] = IF t = k THEN f[t] + 1 ELSE f[t]
        BY <4>1, <4>2
      <4>4. \A t \in Spaces : a[t] \in Nat
        BY <4>1, <4>3
      <4>5. a = [t \in Spaces |-> a[t]]
        BY <4>1, <4>2
      <4> QED
        BY <4>4, <4>5
    <3>2. pto = [ackm EXCEPT !.pto = a]
      BY <1>3 DEF Ackms
    <3> HIDE DEF a, pto
    <3> QED
      BY <1>3, <3>1, <3>2 DEF Ackms, SameRest, SameCounts
  <2> HIDE DEF probe, pto
  <2>4. queued \in Ackms /\ SameRest(ackm, queued) /\ SameCounts(ackm, queued)
    BY <2>2, <2>3
  <2> HIDE DEF queued
  <2>5. bumped \in Ackms /\ SameRest(ackm, bumped) /\ SameCounts(ackm, bumped)
    BY <2>4 DEF Ackms, SameRest, SameCounts
  <2> HIDE DEF bumped
  <2>6. Sound(bumped, undone, s, 0, 0)
    BY <1>3, <2>5, SoundKept DEF SameRest
  <2>7. Countable(bumped)
    <3>1. 0 \in Nat
      OBVIOUS
    <3> QED
      BY <2>6, <3>1, SoundIsCountable
  <2>8. r \in Ackms /\ SameButDeadline(bumped, r) /\ Armed(r)
    BY <1>3, <2>5, <2>7, TimerIsSet
  <2> HIDE DEF r
  <2>9. /\ r.hist = ackm.hist /\ SameCounts(ackm, r) /\ SameHandshake(ackm, r)
    BY <2>5, <2>8
       DEF SameButDeadline, SameCounts, SameHandshake, SameRest
  <2>10. Sound(r, undone, APP, 0, 0)
    <3>1. Sound(r, undone, s, 0, 0)
      BY <1>3, <2>8, <2>9, SoundKept
    <3> QED
      BY <3>1, SoundAnywhere
  <2>11. Fated(fate, r, next_pn) /\ Bounded(r, next_pn, now)
    BY <1>3, <2>9 DEF Fated, Bounded
  <2>12. TypeOK'
    BY <1>1, <2>1, <2>8 DEF IInv, TypeOK
  <2>13. ClientInitial(is_server, r, next_pn)
    BY <2>9 DEF IInv, ClientInitial, SameHandshake
  <2>14. IInv'
    BY <1>1, <2>1, <2>8, <2>10, <2>11, <2>12, <2>13 DEF IInv
  <2>15. ackm'.cc.cong_wnd >= ackm.cc.cong_wnd
    BY <1>3, <2>1, <2>9 DEF Ackms, Controllers, SameCounts
  <2>16. Reduction
    BY <1>3, <2>14, <2>15, NoReduction DEF IInv
  <2> QED
    BY <2>14, <2>16
<1> QED
  BY <1>4, <1>5

\* The parts of ossl_ackm_on_rx_ack_frame before packets leave the history:
\* the largest acknowledged packet and the peer's address validation.
LEMMA AckReceived ==
    ASSUME IInv, NEW s \in Spaces, NEW S \in SUBSET (0..next_pn[s] - 1), S # {}
    PROVE  LET m == [ackm EXCEPT !.largest_acked[s] = Max({@, Max(S)}),
                                 !.peer_completed = @ \/ s = HANDSHAKE]
           IN  /\ m \in Ackms /\ m.hist = ackm.hist /\ SameCounts(ackm, m)
               /\ m.discarded = ackm.discarded
               /\ m.handshake_confirmed = ackm.handshake_confirmed
               /\ m.loss_time = ackm.loss_time /\ m.deadline = ackm.deadline
               /\ m.rtt = ackm.rtt
               /\ ClientInitial(is_server, m, next_pn)
<1> DEFINE a == [ackm.largest_acked EXCEPT ![s] = Max({@, Max(S)})]
           b == ackm.peer_completed \/ s = HANDSHAKE
           m == [ackm EXCEPT !.largest_acked[s] = Max({@, Max(S)}),
                             !.peer_completed = @ \/ s = HANDSHAKE]
<1>1. /\ ackm \in Ackms /\ next_pn \in [Spaces -> 0..MaxPkts]
      /\ ackm.discarded \in [Spaces -> BOOLEAN]
  BY InvParts
<1>2. Max(S) \in S
  <2>1. MaxPkts \in Nat
    BY Constants
  <2>2. S \in SUBSET (0..MaxPkts)
    BY <1>1, <2>1
  <2>3. \E x \in S : \A y \in S : x >= y
    BY <2>1, <2>2, LargestElement
  <2> QED
    BY <2>3 DEF Max
<1>3. Max(S) \in Int
  <2>1. \A x \in S : x \in Int
    OBVIOUS
  <2> QED
    BY <1>2, <2>1
<1>4. ackm.largest_acked \in [Spaces -> Int] /\ ackm.peer_completed \in BOOLEAN
  BY <1>1 DEF Ackms
<1>5. Max({ackm.largest_acked[s], Max(S)}) \in Int
  <2>1. ackm.largest_acked[s] \in Int
    BY <1>4
  <2> QED
    BY <1>3, <2>1, PairMaxMin
<1>6. a \in [Spaces -> Int] /\ b \in BOOLEAN
  BY <1>4, <1>5
<1>7. m = [ackm EXCEPT !.largest_acked = a, !.peer_completed = b]
  BY <1>1 DEF Ackms
<1> HIDE DEF a, m
<1>8. /\ m \in Ackms /\ m.hist = ackm.hist /\ SameCounts(ackm, m)
      /\ m.discarded = ackm.discarded
      /\ m.handshake_confirmed = ackm.handshake_confirmed
      /\ m.loss_time = ackm.loss_time /\ m.deadline = ackm.deadline
      /\ m.rtt = ackm.rtt
  BY <1>1, <1>6, <1>7 DEF Ackms, SameCounts
<1>9. m.peer_completed = b
  BY <1>1, <1>7 DEF Ackms
<1>10. ClientInitial(is_server, m, next_pn)
  <2> SUFFICES ASSUME ~is_server, ~m.discarded[INITIAL]
               PROVE  next_pn[HANDSHAKE] = 0 /\ ~m.peer_completed
    BY DEF ClientInitial
  <2>1. next_pn[HANDSHAKE] = 0 /\ ~ackm.peer_completed
    BY <1>8 DEF IInv, ClientInitial
  <2>2. s # HANDSHAKE
    <3>1. PICK x \in S : TRUE
      OBVIOUS
    <3>2. next_pn[s] \in Nat /\ x <= next_pn[s] - 1 /\ x >= 0
      BY <1>1, <3>1, Constants
    <3> QED
      BY <2>1, <3>2
  <2> QED
    BY <1>9, <2>1, <2>2
<1> QED
  BY <1>8, <1>10 DEF m

\* The rest of it: losses are detected, the packets N are reported as
\* acknowledged, the probe count is reset and the timer is set.
LEMMA AckProcessed ==
    ASSUME NEW m, NEW s \in Spaces, NEW N, N \in SUBSET Pkts, Distinct(N),
           undone \in Nat, now \in Times,
           Sound(m, undone, s, 0 + InflightBytes(N), 0 + ElicitingBytes(N))
    PROVE  LET m4 == ackm_on_pkts_acked(DetectLoss(m, s), s, N)
               m5 == IF m4.peer_completed THEN [m4 EXCEPT !.pto_count = 0]
                                          ELSE m4
               r == ackm_set_loss_detection_timer(m5)
               T == LostPkts(m, s)
           IN  /\ Sound(r, undone, s, 0, 0) /\ Armed(r)
               /\ T \in SUBSET m.hist[s]
               /\ r.hist = [m.hist EXCEPT ![s] = @ \ T]
               /\ SameHandshake(m, r)
               /\ r.cc.cong_wnd < m.cc.cong_wnd =>
                    \E p \in T : p.time > m.cc.recovery_start
<1> DEFINE d == DetectLoss(m, s)
           m4 == ackm_on_pkts_acked(d, s, N)
           m5 == IF m4.peer_completed THEN [m4 EXCEPT !.pto_count = 0] ELSE m4
           r == ackm_set_loss_detection_timer(m5)
           T == LostPkts(m, s)
           x == 0 + InflightBytes(N)
           y == 0 + ElicitingBytes(N)
<1>1. x \in Nat /\ y \in Nat
  BY BytesNat
<1>2. Sound(m, undone, s, x, y)
  OBVIOUS
<1> HIDE DEF x, y
<1>3. /\ Sound(d, undone, s, x, y)
      /\ T \in SUBSET m.hist[s]
      /\ d.hist = [m.hist EXCEPT ![s] = @ \ T]
      /\ SameHandshake(m, d)
      /\ d.cc.cong_wnd < m.cc.cong_wnd =>
           \E p \in T : p.time > m.cc.recovery_start
  BY <1>1, <1>2, LossesDetected
<1> HIDE DEF d, T
<1>4. Sound(d, undone, s, 0 + InflightBytes(N), 0 + ElicitingBytes(N))
  BY <1>3 DEF x, y
<1>5. /\ Sound(m4, undone, s, 0, 0) /\ SameRest(d, m4)
      /\ m4.cc.cong_wnd >= d.cc.cong_wnd
  BY <1>4, PacketsAcked
<1> HIDE DEF m4
<1>6. /\ m5 \in Ackms /\ m5.hist = m4.hist /\ SameCounts(m4, m5)
      /\ SameHandshake(m4, m5)
  BY <1>5 DEF Sound, Ackms, SameCounts, SameHandshake
<1> HIDE DEF m5
<1>7. Sound(m5, undone, s, 0, 0)
  BY <1>5, <1>6, SoundKept
<1>8. Countable(m5)
  <2>1. 0 \in Nat
    OBVIOUS
  <2> QED
    BY <1>7, <2>1, SoundIsCountable
<1>9. r \in Ackms /\ SameButDeadline(m5, r) /\ Armed(r)
  BY <1>6, <1>8, TimerIsSet
<1> HIDE DEF r
<1>10. r.hist = m5.hist /\ SameCounts(m5, r) /\ SameHandshake(m5, r)
  BY <1>9 DEF SameButDeadline, SameCounts, SameHandshake
<1>11. Sound(r, undone, s, 0, 0)
  BY <1>7, <1>9, <1>10, SoundKept
<1>12. r.hist = [m.hist EXCEPT ![s] = @ \ T]
  BY <1>3, <1>5, <1>6, <1>10 DEF SameRest
<1>13. SameHandshake(m, r)
  BY <1>3, <1>5, <1>6, <1>10 DEF SameRest, SameHandshake
<1>14. r.cc.cong_wnd >= d.cc.cong_wnd
  BY <1>5, <1>6, <1>10 DEF SameCounts
<1>15. /\ m.cc.cong_wnd \in Nat /\ d.cc.cong_wnd \in Nat
       /\ r.cc.cong_wnd \in Nat
  BY <1>2, <1>3, <1>9 DEF Sound, Ackms, Controllers
<1>16. r.cc.cong_wnd < m.cc.cong_wnd =>
         \E p \in T : p.time > m.cc.recovery_start
  BY <1>3, <1>14, <1>15
<1> QED
  BY <1>3, <1>9, <1>11, <1>12, <1>13, <1>16 DEF r, m5, m4, d, T

\* The callbacks of an ACK frame: T are lost and then N acknowledged.
LEMMA LostThenAcked ==
    ASSUME IInv, NEW s \in Spaces, NEW N, NEW T, NEW r,
           N \in SUBSET ackm.hist[s], T \in SUBSET (ackm.hist[s] \ N),
           r.hist = [ackm.hist EXCEPT ![s] = (@ \ N) \ T]
    PROVE  LET g == CallBack(CallBack(fate, s, T, "lost"), s, N, "acked")
           IN  /\ g \in FateType
               /\ Fated(g, r, next_pn) /\ Bounded(r, next_pn, now)
               /\ \A p \in T : fate[s][p.pn] = <<>> /\ g[s][p.pn] = <<"lost">>
<1> DEFINE f == CallBack(fate, s, T, "lost")
           g == CallBack(f, s, N, "acked")
           H == ackm.hist[s] \ T
           h == [ackm EXCEPT !.hist[s] = @ \ T]
<1>1. /\ ackm \in Ackms /\ fate \in FateType
      /\ Bounded(ackm, next_pn, now) /\ Fated(fate, ackm, next_pn)
      /\ \A t \in Spaces : Distinct(ackm.hist[t])
      /\ ackm.hist \in [Spaces -> SUBSET Pkts]
  BY InvParts
<1>2. h \in Ackms /\ h.hist = [ackm.hist EXCEPT ![s] = H]
  <2> DEFINE a == [ackm.hist EXCEPT ![s] = H]
  <2>1. a \in [Spaces -> SUBSET Pkts]
    BY <1>1
  <2>2. h = [ackm EXCEPT !.hist = a]
    BY <1>1 DEF Ackms
  <2> HIDE DEF a, h
  <2>3. h \in Ackms /\ h.hist = a
    BY <1>1, <2>1, <2>2 DEF Ackms
  <2> QED
    BY <2>3 DEF a
<1>3. h.hist[s] = H
  BY <1>1, <1>2
<1>4. Leave(fate, ackm, s, next_pn, now, T, "lost", h)
  BY <1>1, <1>2 DEF Leave, Fates
<1>5. Left(fate, s, next_pn, now, T, "lost", h, f)
  BY <1>4, FateStep
<1> HIDE DEF f, h
<1>6. /\ f \in FateType /\ Fated(f, h, next_pn) /\ Bounded(h, next_pn, now)
      /\ \A p \in T : fate[s][p.pn] = <<>> /\ f[s][p.pn] = <<"lost">>
  BY <1>5 DEF Left
<1>7. Distinct(h.hist[s]) /\ N \in SUBSET h.hist[s]
  BY <1>1, <1>3 DEF Distinct
<1>8. r.hist = [h.hist EXCEPT ![s] = @ \ N]
  <2>1. (ackm.hist[s] \ N) \ T = H \ N
    OBVIOUS
  <2>2. r.hist = [ackm.hist EXCEPT ![s] = H \ N]
    BY <2>1
  <2>3. [h.hist EXCEPT ![s] = @ \ N] = [h.hist EXCEPT ![s] = H \ N]
    BY <1>3
  <2> HIDE DEF H
  <2>4. [h.hist EXCEPT ![s] = H \ N] = [ackm.hist EXCEPT ![s] = H \ N]
    BY <1>1, <1>2
  <2> QED
    BY <2>2, <2>3, <2>4
<1>9. Leave(f, h, s, next_pn, now, N, "acked", r)
  BY <1>2, <1>6, <1>7, <1>8 DEF Leave, Fates
<1>10. Left(f, s, next_pn, now, N, "acked", r, g)
  BY <1>9, FateStep
<1>11. g \in FateType /\ Fated(g, r, next_pn) /\ Bounded(r, next_pn, now)
  BY <1>10 DEF Left
<1>12. ASSUME NEW p \in T PROVE g[s][p.pn] = f[s][p.pn]
  <2>1. p \in ackm.hist[s] /\ p \notin N /\ p.pn \in 0..MaxPkts - 1
    BY <1>1 DEF Pkts
  <2>2. ~\E q \in N : q.pn = p.pn
    BY <1>1, <2>1 DEF Distinct
  <2>3. f \in [Spaces -> [0..MaxPkts - 1 -> Seq(Fates)]]
    BY <1>6 DEF FateType
  <2> QED
    BY <2>1, <2>2, <2>3 DEF CallBack
<1> QED
  BY <1>6, <1>11, <1>12 DEF f

\* The RTT sample is the age of the newest acknowledged packet: not negative.
LEMMA RttSampled ==
    ASSUME NEW m \in Ackms, NEW N, N \in SUBSET Pkts, N # {}, NEW top,
           \A p \in N : p.time <= now, now \in Times, NEW delay \in Nat
    PROVE  LET first == CHOOSE p \in N : \A q \in N : q.pn <= p.pn
               r == IF first.pn = top /\ \E p \in N : IsAckEliciting(p)
                    THEN [m EXCEPT !.rtt = ossl_statm_update_rtt(
                              @, IF m.handshake_confirmed
                                 THEN Min({delay, RxMaxAckDelay}) ELSE delay,
                              now - first.time)]
                    ELSE m
           IN  /\ r \in Ackms /\ r.hist = m.hist /\ SameCounts(m, r)
               /\ SameHandshake(m, r)
<1> DEFINE first == CHOOSE p \in N : \A q \in N : q.pn <= p.pn
           late == IF m.handshake_confirmed
                   THEN Min({delay, RxMaxAckDelay}) ELSE delay
           e == ossl_statm_update_rtt(m.rtt, late, now - first.time)
           r == IF first.pn = top /\ \E p \in N : IsAckEliciting(p)
                THEN [m EXCEPT !.rtt = e] ELSE m
<1>1. first \in N
  <2> DEFINE P == {p.pn : p \in N}
  <2>1. MaxPkts \in Nat
    BY Constants
  <2>2. P \in SUBSET (0..MaxPkts) /\ P # {}
    BY <2>1 DEF Pkts
  <2>3. PICK x \in P : \A y \in P : x >= y
    BY <2>1, <2>2, LargestElement
  <2>4. PICK p \in N : p.pn = x
    OBVIOUS
  <2>5. \A q \in N : q.pn <= p.pn
    <3> TAKE q \in N
    <3>1. q.pn \in P /\ q.pn \in Int /\ x \in Int
      BY <2>1, <2>2
    <3> QED
      BY <2>3, <2>4, <3>1
  <2> QED
    BY <2>5
<1> HIDE DEF first
<1>2. now - first.time \in Nat
  BY <1>1 DEF Pkts, Times
<1>3. late \in Nat
  <2>1. delay \in Int /\ RxMaxAckDelay \in Int /\ RxMaxAckDelay \in Nat
    BY Constants
  <2>2. Min({delay, RxMaxAckDelay}) \in {delay, RxMaxAckDelay}
    BY <2>1, PairMaxMin
  <2> QED
    BY <2>1, <2>2
<1> HIDE DEF late
<1>4. m.rtt \in Estimates
  BY DEF Ackms
<1>5. e \in Estimates
  BY <1>2, <1>3, <1>4, RttIsUpdated
<1> HIDE DEF e
<1>6. /\ r \in Ackms /\ r.hist = m.hist /\ SameCounts(m, r)
      /\ SameHandshake(m, r)
  BY <1>5 DEF Ackms, SameCounts, SameHandshake
<1> QED
  BY <1>6 DEF r, e, late, first

LEMMA OnRxAckFrameStep ==
    ASSUME IInv, NEW s \in Spaces, NEW S \in SUBSET (0..next_pn[s] - 1),
           NEW delay \in AckDelays, OnRxAckFrame(s, S, delay)
    PROVE  IInv' /\ Reduction
<1> DEFINE m1 == [ackm EXCEPT !.largest_acked[s] = Max({@, Max(S)}),
                              !.peer_completed = @ \/ s = HANDSHAKE]
           N == {p \in m1.hist[s] : p.pn \in S}
           m2 == [m1 EXCEPT !.hist[s] = @ \ N]
           first == CHOOSE p \in N : \A q \in N : q.pn <= p.pn
           m3 == IF first.pn = Max(S) /\ \E p \in N : IsAckEliciting(p)
                 THEN [m2 EXCEPT !.rtt = ossl_statm_update_rtt(
                           @, IF m2.handshake_confirmed
                              THEN Min({delay, RxMaxAckDelay}) ELSE delay,
                           now - first.time)]
                 ELSE m2
           m4 == ackm_on_pkts_acked(DetectLoss(m3, s), s, N)
           m5 == IF m4.peer_completed THEN [m4 EXCEPT !.pto_count = 0] ELSE m4
           r == ackm_set_loss_detection_timer(m5)
           T == LostPkts(m3, s)
           g == CallBack(CallBack(fate, s, T, "lost"), s, N, "acked")
           r1 == ackm_set_loss_detection_timer(m1)
<1>1. /\ S # {}
      /\ N = {} => /\ fate' = fate
                   /\ ackm' = IF m1.peer_completed # ackm.peer_completed
                              THEN r1 ELSE m1
      /\ N # {} => ackm' = r /\ fate' = g
      /\ is_server' = is_server /\ now' = now /\ next_pn' = next_pn
      /\ restarts' = restarts /\ undone' = undone
  BY DEF OnRxAckFrame
<1>2. /\ ackm \in Ackms /\ now \in Times /\ undone \in Nat /\ fate \in FateType
      /\ Sound(ackm, undone, s, 0, 0) /\ Armed(ackm)
      /\ Bounded(ackm, next_pn, now) /\ Fated(fate, ackm, next_pn)
      /\ \A t \in Spaces : Distinct(ackm.hist[t])
      /\ ackm.hist \in [Spaces -> SUBSET Pkts]
  BY InvParts
<1>3. /\ m1 \in Ackms /\ m1.hist = ackm.hist /\ SameCounts(ackm, m1)
      /\ m1.discarded = ackm.discarded
      /\ m1.handshake_confirmed = ackm.handshake_confirmed
      /\ m1.loss_time = ackm.loss_time /\ m1.deadline = ackm.deadline
      /\ ClientInitial(is_server, m1, next_pn)
  BY <1>1, AckReceived
<1> HIDE DEF m1
<1>4. Sound(m1, undone, s, 0, 0)
  BY <1>2, <1>3, SoundKept
<1>5. CASE N = {}
  <2>1. /\ ackm' \in Ackms /\ ackm'.hist = m1.hist /\ SameCounts(m1, ackm')
        /\ SameHandshake(m1, ackm') /\ Armed(ackm')
    <3>1. CASE m1.peer_completed # ackm.peer_completed
      <4>1. Countable(m1)
        <5>1. 0 \in Nat
          OBVIOUS
        <5> QED
          BY <1>4, <5>1, SoundIsCountable
      <4>2. r1 \in Ackms /\ SameButDeadline(m1, r1) /\ Armed(r1)
        BY <1>2, <1>3, <4>1, TimerIsSet
      <4>3. ackm' = r1
        BY <1>1, <1>5, <3>1
      <4> HIDE DEF r1
      <4> QED
        BY <4>2, <4>3 DEF SameButDeadline, SameCounts, SameHandshake
    <3>2. CASE m1.peer_completed = ackm.peer_completed
      <4>1. ackm' = m1
        BY <1>1, <1>5, <3>2
      <4>2. LossSpace(m1) = LossSpace(ackm)
        BY <1>3 DEF LossSpace
      <4>3. Armed(m1)
        BY <1>2, <1>3, <3>2, <4>2 DEF Armed, SameCounts
      <4> QED
        BY <1>3, <4>1, <4>3 DEF SameCounts, SameHandshake
    <3> QED
      BY <3>1, <3>2
  <2>2. Sound(ackm', undone, s, 0, 0)
    BY <1>4, <2>1, SoundKept
  <2>3. Sound(ackm', undone, APP, 0, 0)
    BY <2>2, SoundAnywhere
  <2>4. Fated(fate, ackm', next_pn) /\ Bounded(ackm', next_pn, now)
    BY <1>2, <1>3, <2>1 DEF Fated, Bounded
  <2>5. ClientInitial(is_server, ackm', next_pn)
    BY <1>3, <2>1 DEF ClientInitial, SameHandshake
  <2>6. TypeOK'
    BY <1>1, <1>5, <2>1 DEF IInv, TypeOK
  <2>7. IInv'
    BY <1>1, <1>5, <2>1, <2>3, <2>4, <2>5, <2>6 DEF IInv
  <2>8. ackm'.cc.cong_wnd >= ackm.cc.cong_wnd
    BY <1>2, <1>3, <2>1 DEF Ackms, Controllers, SameCounts
  <2>9. Reduction
    BY <1>2, <2>2, <2>8, NoReduction
  <2> QED
    BY <2>7, <2>9
<1>6. CASE N # {}
  <2>1. ackm' = r /\ fate' = g
    BY <1>1, <1>6
  <2>2. N \in SUBSET m1.hist[s] /\ N \in SUBSET ackm.hist[s]
    BY <1>3
  <2> HIDE DEF N
  <2>3. /\ m2 \in Ackms /\ m2.hist = [m1.hist EXCEPT ![s] = @ \ N]
        /\ SameCounts(m1, m2) /\ SameHandshake(m1, m2)
    <3> DEFINE a == [m1.hist EXCEPT ![s] = @ \ N]
    <3>1. a \in [Spaces -> SUBSET Pkts]
      BY <1>2, <1>3
    <3>2. m2 = [m1 EXCEPT !.hist = a]
      BY <1>3 DEF Ackms
    <3> HIDE DEF a, m2
    <3>3. /\ m2 \in Ackms /\ m2.hist = a /\ SameCounts(m1, m2)
          /\ SameHandshake(m1, m2)
      BY <1>3, <3>1, <3>2 DEF Ackms, SameCounts, SameHandshake
    <3> QED
      BY <3>3 DEF a
  <2> HIDE DEF m2
  <2>4. /\ Sound(m2, undone, s, 0 + InflightBytes(N), 0 + ElicitingBytes(N))
        /\ N \in SUBSET Pkts /\ Distinct(N)
    <3>1. 0 \in Nat
      OBVIOUS
    <3> QED
      BY <1>2, <1>4, <2>2, <2>3, <3>1, PacketsTaken
  <2>5. /\ m3 \in Ackms /\ m3.hist = m2.hist /\ SameCounts(m2, m3)
        /\ SameHandshake(m2, m3)
    <3>1. \A p \in N : p.time <= now
      BY <1>2, <2>2 DEF Bounded
    <3>2. delay \in Nat
      BY Constants
    <3> QED
      BY <1>2, <1>6, <2>3, <2>4, <3>1, <3>2, RttSampled
  <2> HIDE DEF m3
  <2>6. Sound(m3, undone, s, 0 + InflightBytes(N), 0 + ElicitingBytes(N))
    BY <2>4, <2>5, SoundKept
  <2>7. /\ Sound(r, undone, s, 0, 0) /\ Armed(r)
        /\ T \in SUBSET m3.hist[s]
        /\ r.hist = [m3.hist EXCEPT ![s] = @ \ T]
        /\ SameHandshake(m3, r)
        /\ r.cc.cong_wnd < m3.cc.cong_wnd =>
             \E p \in T : p.time > m3.cc.recovery_start
    BY <1>2, <2>4, <2>6, AckProcessed
  <2> HIDE DEF r, T
  <2>8. m3.hist = [ackm.hist EXCEPT ![s] = @ \ N]
    BY <1>3, <2>3, <2>5
  <2>9. T \in SUBSET (ackm.hist[s] \ N)
    BY <1>2, <2>7, <2>8
  <2>10. r.hist = [ackm.hist EXCEPT ![s] = (@ \ N) \ T]
    BY <1>2, <2>7, <2>8
  <2>11. /\ g \in FateType
         /\ Fated(g, r, next_pn) /\ Bounded(r, next_pn, now)
         /\ \A p \in T : fate[s][p.pn] = <<>> /\ g[s][p.pn] = <<"lost">>
    BY <2>2, <2>9, <2>10, LostThenAcked
  <2> HIDE DEF g
  <2>12. SameHandshake(m1, r)
    BY <2>3, <2>5, <2>7 DEF SameHandshake
  <2>13. ClientInitial(is_server, r, next_pn)
    BY <1>3, <2>12 DEF ClientInitial, SameHandshake
  <2>14. Sound(r, undone, APP, 0, 0)
    BY <2>7, SoundAnywhere
  <2>15. TypeOK'
    BY <1>1, <2>1, <2>7, <2>11 DEF IInv, TypeOK, FateType, Sound
  <2>16. IInv'
    BY <1>1, <2>1, <2>7, <2>11, <2>13, <2>14, <2>15 DEF IInv
  <2>17. m3.cc = ackm.cc
    BY <1>3, <2>3, <2>5 DEF SameCounts
  <2>18. Reduction
    <3>1. /\ Sound(ackm', undone, s, 0, 0) /\ T \in SUBSET ackm.hist[s]
          /\ ackm'.cc.cong_wnd < ackm.cc.cong_wnd =>
               \E p \in T : p.time > ackm.cc.recovery_start
      BY <2>1, <2>7, <2>9, <2>17
    <3>2. \A p \in T : fate[s][p.pn] = <<>> /\ fate'[s][p.pn] = <<"lost">>
      BY <2>1, <2>11
    <3> QED
      BY <3>1, <3>2, ReductionByLoss
  <2> QED
    BY <2>16, <2>18
<1> QED
  BY <1>5, <1>6

LEMMA InitStep ==
    ASSUME Init PROVE IInv
<1>1. PICK e \in BOOLEAN : ackm = ossl_ackm_new(e)
  BY DEF Init
<1>2. /\ is_server \in BOOLEAN /\ now = 1 /\ restarts = 0 /\ undone = 0
      /\ next_pn = [s \in Spaces |-> 0]
      /\ fate = [s \in Spaces |-> [pn \in 0..MaxPkts - 1 |-> <<>>]]
  BY DEF Init
<1>3. newreno_reset \in Controllers /\ Steady(newreno_reset)
  <2>1. k_min_wnd \in Int /\ InitWnd \in Int /\ InitWnd \in Nat
        /\ Infinite \in Nat
    BY MinWndIs, Constants
  <2>2. MinWnd <= InitWnd
    BY <2>1, PairMaxMin DEF MinWnd
  <2> QED
    BY <2>1, <2>2 DEF newreno_reset, Controllers, Steady
<1>4. ossl_statm_init \in Estimates
  BY Constants DEF ossl_statm_init, Estimates
<1>5. ackm \in Ackms
  BY <1>1, <1>3, <1>4 DEF ossl_ackm_new, Ackms
<1>6. /\ ackm.hist = [s \in Spaces |-> {}]
      /\ ackm.eliciting_bytes = [s \in Spaces |-> 0]
      /\ ackm.bytes_in_flight = 0 /\ ackm.cc = newreno_reset
      /\ ackm.deadline = 0 /\ ackm.peer_completed = e
      /\ ackm.discarded = [s \in Spaces |-> e /\ s # APP]
  BY <1>1 DEF ossl_ackm_new
<1>7. \A s \in Spaces : ackm.hist[s] = {} /\ ackm.eliciting_bytes[s] = 0
  BY <1>6
<1>8. InflightBytes({}) = 0 /\ ElicitingBytes({}) = 0
  BY BytesEmpty DEF InflightBytes, ElicitingBytes
<1>9. InHistory(ackm) = 0
  <2> DEFINE f == [s \in Spaces |-> InflightBytes(ackm.hist[s])]
  <2>1. \A s \in Spaces : f[s] = 0
    BY <1>7, <1>8
  <2> HIDE DEF f
  <2>2. Total(f) = 0
    BY <2>1, SpacesAre DEF Total
  <2> QED
    BY <2>2 DEF f, InHistory
<1>10. Counted(ackm, undone, APP, 0, 0)
  <2>1. ackm.cc.bytes_in_flight = 0
    BY <1>6 DEF newreno_reset
  <2> QED
    BY <1>2, <1>6, <1>7, <1>8, <1>9, <2>1 DEF Counted
<1>11. Sound(ackm, undone, APP, 0, 0)
  BY <1>3, <1>5, <1>6, <1>7, <1>10 DEF Sound, Distinct
<1>12. Armed(ackm)
  BY <1>6, <1>7 DEF Armed
<1>13. Bounded(ackm, next_pn, now)
  BY <1>7 DEF Bounded
<1>14. Fated(fate, ackm, next_pn)
  BY <1>2, <1>7 DEF Fated, FateFor
<1>15. ClientInitial(is_server, ackm, next_pn)
  BY <1>2, <1>6, SpacesAre DEF ClientInitial
<1>16. TypeOK
  <2>1. next_pn \in [Spaces -> 0..MaxPkts]
    BY <1>2, Constants
  <2>2. fate \in [Spaces -> [0..MaxPkts - 1 -> Seq(Fates)]]
    BY <1>2
  <2> QED
    BY <1>2, <1>5, <2>1, <2>2 DEF TypeOK, Times
<1> QED
  BY <1>11, <1>12, <1>13, <1>14, <1>15, <1>16 DEF IInv

LEMMA Stuttering ==
    ASSUME IInv, UNCHANGED vars PROVE IInv' /\ Reduction
<1>1. /\ is_server' = is_server /\ now' = now /\ ackm' = ackm
      /\ next_pn' = next_pn /\ restarts' = restarts /\ fate' = fate
      /\ undone' = undone
  BY DEF vars
<1>2. IInv'
  BY <1>1 DEF IInv, TypeOK
<1>3. ackm \in Ackms /\ ackm'.cc.cong_wnd >= ackm.cc.cong_wnd
  BY <1>1 DEF IInv, TypeOK, Ackms, Controllers
<1>4. Sound(ackm', undone', APP, 0, 0)
  BY <1>2 DEF IInv
<1>5. Reduction
  BY <1>3, <1>4, NoReduction
<1> QED
  BY <1>2, <1>5

LEMMA NextStep ==
    ASSUME IInv, [Next]_vars PROVE IInv' /\ Reduction
<1>1. CASE Tick
  BY <1>1, TickStep
<1>2. CASE \E s \in Spaces, kind \in Kinds : TxPacket(s, kind)
  BY <1>2, TxPacketStep
<1>3. CASE \E s \in Spaces : \E S \in SUBSET (0..next_pn[s] - 1), d \in AckDelays :
              OnRxAckFrame(s, S, d)
  BY <1>3, OnRxAckFrameStep
<1>4. CASE OnTimeout
  BY <1>4, OnTimeoutStep
<1>5. CASE ServerDiscardsInitial
  BY <1>5, ServerDiscardsInitialStep
<1>6. CASE OnHandshakeConfirmed
  BY <1>6, OnHandshakeConfirmedStep
<1>7. CASE MarkPacketPseudoLost
  BY <1>7, MarkPacketPseudoLostStep
<1>8. CASE UNCHANGED vars
  BY <1>8, Stuttering
<1> QED
  BY <1>1, <1>2, <1>3, <1>4, <1>5, <1>6, <1>7, <1>8 DEF Next

-----------------------------------------------------------------------------
(***************************************************************************)
(* Theorems about the sending half                                         *)
(***************************************************************************)

\* The invariant that all operations of the sending half keep: packets leave
\* a history once, for good, and with their bytes taken off all three counts.
THEOREM InductiveInvariant == Spec => []IInv
<1>1. Init => IInv
  BY InitStep
<1>2. IInv /\ [Next]_vars => IInv'
  BY NextStep
<1> QED
  BY <1>1, <1>2, PTL DEF Spec

\* The fields of OSSL_ACKM, of the congestion controller and of the RTT
\* estimate keep their types: no window, estimate or time goes negative.
THEOREM TypeCorrect == Spec => []TypeOK
<1>1. IInv => TypeOK
  BY DEF IInv
<1> QED
  BY <1>1, InductiveInvariant, PTL

\* Each packet gets one of on_acked, on_lost and on_discarded, exactly once,
\* and only as it leaves the history.
THEOREM EachPacketOneFate == Spec => []OneFate
<1>1. IInv => OneFate
  <2> SUFFICES ASSUME IInv, NEW s \in Spaces, NEW pn \in 0..next_pn[s] - 1
               PROVE  Len(fate[s][pn]) =
                        IF \E p \in ackm.hist[s] : p.pn = pn THEN 0 ELSE 1
    BY DEF OneFate
  <2>1. FateFor(fate[s], ackm.hist[s], next_pn[s])
    BY DEF IInv, Fated
  <2>2. next_pn[s] \in 0..MaxPkts
    BY DEF IInv, TypeOK
  <2>3. pn \in 0..MaxPkts - 1 /\ pn < next_pn[s]
    BY <2>2, Constants
  <2>4. CASE \E p \in ackm.hist[s] : p.pn = pn
    <3>1. fate[s][pn] = <<>>
      BY <2>1, <2>3, <2>4 DEF FateFor, Pns
    <3> QED
      BY <2>4, <3>1
  <2>5. CASE ~\E p \in ackm.hist[s] : p.pn = pn
    <3>1. PICK what \in Fates : fate[s][pn] = <<what>>
      BY <2>1, <2>3, <2>5 DEF FateFor, Pns
    <3> QED
      BY <2>5, <3>1
  <2> QED
    BY <2>4, <2>5
<1> QED
  BY <1>1, InductiveInvariant, PTL

\* The three counts of bytes in flight agree with the histories whatever
\* acknowledgements, losses, probes, discards and restarts have happened.
THEOREM BytesInFlightExact == Spec => []FlightAccounting
<1>1. IInv => FlightAccounting
  <2> SUFFICES ASSUME IInv PROVE FlightAccounting
    OBVIOUS
  <2>1. Counted(ackm, undone, APP, 0, 0) /\ undone \in Nat /\ ackm \in Ackms
    BY DEF IInv, Sound, TypeOK
  <2>2. InHistory(ackm) \in Nat
    BY InHistoryIsNat
  <2>3. \A s \in Spaces : ElicitingBytes(ackm.hist[s]) \in Nat
    BY BytesNat
  <2>4. /\ ackm.bytes_in_flight = InHistory(ackm)
        /\ ackm.cc.bytes_in_flight = InHistory(ackm) + undone
        /\ \A s \in Spaces :
              ackm.eliciting_bytes[s] = ElicitingBytes(ackm.hist[s])
    BY <2>1, <2>2, <2>3 DEF Counted
  <2> QED
    BY <2>4 DEF FlightAccounting, InHistory
<1> QED
  BY <1>1, InductiveInvariant, PTL

\* The loss detection timer is armed while a probe may be due, and is armed
\* for nothing only before the peer has validated the address.
THEOREM TimerIsArmed == Spec => []TimerArmed
<1>1. IInv => TimerArmed
  BY DEF IInv, Armed, TimerArmed, ackm_ack_eliciting_bytes_in_flight
<1> QED
  BY <1>1, InductiveInvariant, PTL

\* A step that reduces the congestion window declares a packet lost that was
\* sent after the previous reduction, and no step takes it below the minimum.
THEOREM WindowReducedOncePerRound == Spec => OneReductionPerRound
<1>1. IInv /\ [Next]_vars => Reduction
  BY NextStep
<1>2. Reduction => [Reduction]_vars
  OBVIOUS
<1> QED
  BY <1>1, <1>2, InductiveInvariant, PTL DEF Spec, OneReductionPerRound, Reduction

-----------------------------------------------------------------------------
(***************************************************************************)
(* The receiving half                                                      *)
(***************************************************************************)

RxTimes == 0..RxMaxTime
Pending == [pn : PN, time : RxTimes]

RxTypeOK ==
    /\ rx_now \in RxTimes
    /\ rx_pending \in Seq(Pending)
    /\ set \in SUBSET PN /\ watermark \in Nat
    /\ ack \in SUBSET PN
    /\ rx_ack_desired \in BOOLEAN /\ rx_ack_generated \in BOOLEAN
    /\ since_last_ack \in Nat /\ flush_deadline \in Nat
    /\ want_ack \in BOOLEAN /\ num_tx \in Nat
    /\ tx \in SUBSET [id : Nat, largest_acked : PN, is_inflight : BOOLEAN]
    /\ handled \in [PN -> Nat] /\ rx_time \in [PN -> RxTimes]
    /\ reported \in SUBSET PN

RxIInv == RxTypeOK /\ SetExact /\ AckOnTime

-----------------------------------------------------------------------------
(***************************************************************************)
(* Ranges                                                                  *)
(***************************************************************************)

\* Sets of packet numbers are finite, and so are the sets of their ranges.
LEMMA FiniteRanges ==
    ASSUME NEW S \in SUBSET PN
    PROVE  /\ IsFiniteSet(S) /\ Cardinality(S) \in Nat
           /\ IsFiniteSet(RangeStarts(S)) /\ Cardinality(RangeStarts(S)) \in Nat
<1>1. IsFiniteSet(PN)
  BY AckmRxAssumption, FS_Interval DEF PN
<1>2. IsFiniteSet(S)
  BY <1>1, FS_Subset
<1>3. RangeStarts(S) \in SUBSET S
  BY DEF RangeStarts
<1>4. IsFiniteSet(RangeStarts(S))
  BY <1>2, <1>3, FS_Subset
<1> QED
  BY <1>2, <1>4, FS_CardinalityType

\* Max is the largest number of a set of packet numbers.
LEMMA MaxPnIsLargest ==
    ASSUME NEW S \in SUBSET PN, S # {}
    PROVE  Max(S) \in S /\ \A x \in S : x <= Max(S)
<1>1. MaxPn \in Nat
  BY AckmRxAssumption
<1>2. \E x \in S : \A y \in S : x >= y
  BY <1>1, LargestElement DEF PN
<1>3. Max(S) \in S /\ \A y \in S : Max(S) >= y
  BY <1>2 DEF Max
<1> QED
  BY <1>1, <1>3 DEF PN

\* The ranges above a number.
StartsAbove(S, x) == {y \in RangeStarts(S) : y > x}

LEMMA AboveFinite ==
    ASSUME NEW S \in SUBSET PN, NEW x
    PROVE  /\ IsFiniteSet(StartsAbove(S, x)) /\ Cardinality(StartsAbove(S, x)) \in Nat
<1>1. StartsAbove(S, x) \in SUBSET RangeStarts(S)
  BY DEF StartsAbove
<1>2. IsFiniteSet(StartsAbove(S, x))
  BY <1>1, FiniteRanges, FS_Subset
<1> QED
  BY <1>2, FS_CardinalityType

\* There are no more ranges above a larger number.
LEMMA AboveMonotone ==
    ASSUME NEW S \in SUBSET PN, NEW x \in Int, NEW y \in Int, x <= y
    PROVE  Cardinality(StartsAbove(S, y)) <= Cardinality(StartsAbove(S, x))
<1>1. \A z \in RangeStarts(S) : z \in Int
  BY AckmRxAssumption DEF RangeStarts, PN
<1>2. \A z \in RangeStarts(S) : z > y => z > x
  BY <1>1
<1>3. StartsAbove(S, y) \in SUBSET StartsAbove(S, x)
  BY <1>2 DEF StartsAbove
<1> QED
  BY <1>3, AboveFinite, FS_Subset

\* The highest ranges are what lies above what is left out.
LEMMA TopIsUpper ==
    ASSUME NEW S \in SUBSET PN, NEW n \in Nat,
           NEW x \in TopRanges(S, n), NEW y \in S \ TopRanges(S, n)
    PROVE  y < x
<1>1. x \in Int /\ y \in Int
  BY DEF TopRanges, PN
<1>2. Cardinality(StartsAbove(S, x)) < n /\ ~(Cardinality(StartsAbove(S, y)) < n)
  BY DEF TopRanges, StartsAbove
<1>3. Cardinality(StartsAbove(S, x)) \in Nat /\ Cardinality(StartsAbove(S, y)) \in Nat
  BY AboveFinite
<1>4. ~(x <= y)
  BY <1>1, <1>2, <1>3, AboveMonotone
<1> QED
  BY <1>1, <1>4

\* The n highest ranges are no more than n.
LEMMA TopIsBounded ==
    ASSUME NEW S \in SUBSET PN, NEW n \in Nat
    PROVE  Cardinality(RangeStarts(TopRanges(S, n))) <= n
<1> DEFINE K == TopRanges(S, n)
           A == RangeStarts(K)
<1> SUFFICES Cardinality(A) <= n
  OBVIOUS
<1>1. K \in SUBSET S /\ K \in SUBSET PN
  BY DEF TopRanges
<1>2. A \in SUBSET RangeStarts(S)
  <2> SUFFICES ASSUME NEW x \in A, x - 1 \in S PROVE FALSE
    BY <1>1 DEF RangeStarts
  <2>1. x \in K /\ x - 1 \in S \ K /\ x \in Nat
    BY <1>1 DEF RangeStarts, PN
  <2>2. StartsAbove(S, x - 1) = StartsAbove(S, x)
    <3>1. \A y \in RangeStarts(S) : y > x - 1 <=> y > x
      <4>1. x \notin RangeStarts(S)
        BY DEF RangeStarts
      <4>2. \A y \in RangeStarts(S) : y \in Nat
        BY DEF RangeStarts, PN
      <4> QED
        BY <2>1, <4>1, <4>2
    <3> QED
      BY <3>1 DEF StartsAbove
  <2>3. Cardinality(StartsAbove(S, x)) < n /\ ~(Cardinality(StartsAbove(S, x - 1)) < n)
    BY <2>1 DEF TopRanges, StartsAbove
  <2> QED
    BY <2>2, <2>3
<1>3. CASE A = {}
  BY <1>3, FS_EmptySet
<1>4. CASE A # {}
  <2>1. A \in SUBSET Nat
    BY <1>1 DEF RangeStarts, PN
  <2>2. PICK x \in A : \A y \in A : x <= y
    BY <1>4, <2>1, LeastElement
  <2>3. A \ {x} \in SUBSET StartsAbove(S, x)
    BY <1>2, <2>1, <2>2 DEF StartsAbove
  <2>4. Cardinality(StartsAbove(S, x)) < n
    BY <2>2 DEF RangeStarts, TopRanges, StartsAbove
  <2>5. Cardinality(A \ {x}) <= Cardinality(StartsAbove(S, x))
    BY <2>3, AboveFinite, FS_Subset
  <2>6. IsFiniteSet(A) /\ Cardinality(A) \in Nat
    BY <1>1, FiniteRanges
  <2>7. Cardinality(A \ {x}) = Cardinality(A) - 1
    BY <2>2, <2>6, FS_RemoveElement
  <2>8. Cardinality(StartsAbove(S, x)) \in Nat
    BY AboveFinite
  <2> HIDE DEF A
  <2> QED
    BY <2>4, <2>5, <2>6, <2>7, <2>8
<1> QED
  BY <1>3, <1>4

\* What is left above a number has no more ranges than the whole.
LEMMA UpperIsBounded ==
    ASSUME NEW S \in SUBSET PN, NEW w \in Nat
    PROVE  Cardinality(RangeStarts({x \in S : x >= w}))
             <= Cardinality(RangeStarts(S))
<1> DEFINE U == {x \in S : x >= w}
           A == RangeStarts(U)
           B == RangeStarts(S)
<1> SUFFICES Cardinality(A) <= Cardinality(B)
  OBVIOUS
<1>1. IsFiniteSet(B) /\ Cardinality(B) \in Nat
  BY FiniteRanges
<1>2. \A x \in A : x \in B \/ (x = w /\ w \in S /\ w - 1 \in S)
  BY DEF RangeStarts, PN
<1>3. CASE A \subseteq B
  BY <1>1, <1>3, FS_Subset
<1>4. CASE ~(A \subseteq B)
  <2>1. w \in A /\ w - 1 \in S
    BY <1>2, <1>4
  <2>2. PICK r \in S : \A y \in S : r <= y
    <3>1. S \in SUBSET Nat /\ S # {}
      BY <2>1 DEF PN
    <3> QED
      BY <3>1, LeastElement
  <2>3. r \in B /\ r \notin A /\ r # w
    BY <2>1, <2>2 DEF RangeStarts, PN
  <2> DEFINE C == B \ {r}
  <2>4. IsFiniteSet(C) /\ Cardinality(C) = Cardinality(B) - 1
    BY <1>1, <2>3, FS_RemoveElement
  <2>5. /\ IsFiniteSet(C \cup {w})
        /\ Cardinality(C \cup {w}) <= Cardinality(B)
    <3> HIDE DEF C, B
    <3>1. /\ IsFiniteSet(C \cup {w})
          /\ Cardinality(C \cup {w}) =
               IF w \in C THEN Cardinality(C) ELSE Cardinality(C) + 1
      BY <2>4, FS_AddElement
    <3> QED
      BY <1>1, <2>4, <3>1
  <2>6. A \in SUBSET (C \cup {w})
    BY <1>2, <2>3
  <2>7. Cardinality(A) <= Cardinality(C \cup {w})
    BY <2>5, <2>6, FS_Subset
  <2>8. Cardinality(A) \in Nat /\ Cardinality(C \cup {w}) \in Nat
    <3>1. U \in SUBSET PN
      OBVIOUS
    <3>2. Cardinality(A) \in Nat
      BY <3>1, FiniteRanges
    <3> QED
      BY <2>5, <3>2, FS_CardinalityType
  <2> HIDE DEF A, B, C
  <2> QED
    BY <1>1, <2>5, <2>7, <2>8
<1> QED
  BY <1>3, <1>4

-----------------------------------------------------------------------------
(***************************************************************************)
(* The receive history                                                     *)
(***************************************************************************)
Histories == [set : SUBSET PN, watermark : Nat]

\* h has become k, which has forgotten only what lies below its watermark.
Forgets(h, k) ==
    /\ k \in Histories
    /\ k.watermark >= h.watermark
    /\ k.set = {x \in h.set : x >= k.watermark}

\* Raising the watermark.
LEMMA BumpForgets ==
    ASSUME NEW h \in Histories, \A x \in h.set : x >= h.watermark, NEW w \in Nat
    PROVE  LET k == rx_pkt_history_bump_watermark(h, w)
           IN  /\ Forgets(h, k)
               /\ Cardinality(RangeStarts(k.set)) <= Cardinality(RangeStarts(h.set))
<1> DEFINE k == rx_pkt_history_bump_watermark(h, w)
<1>1. Forgets(h, k)
  BY DEF Forgets, Histories, rx_pkt_history_bump_watermark
<1>2. k.set = {x \in h.set : x >= k.watermark} /\ k.watermark \in Nat
  BY <1>1 DEF Forgets, Histories
<1>3. h.set \in SUBSET PN
  BY DEF Histories
<1> HIDE DEF k
<1>4. Cardinality(RangeStarts(k.set)) <= Cardinality(RangeStarts(h.set))
  BY <1>2, <1>3, UpperIsBounded
<1> QED
  BY <1>1, <1>4 DEF k

\* Trimming to the highest ranges.
LEMMA TrimKeepsUpper ==
    ASSUME NEW h \in Histories, \A x \in h.set : x >= h.watermark
    PROVE  LET k == rx_pkt_history_trim_range_count(h)
           IN  /\ Forgets(h, k)
               /\ Cardinality(RangeStarts(k.set)) <= MAX_RX_ACK_RANGES
<1> DEFINE kept == TopRanges(h.set, MAX_RX_ACK_RANGES)
           removed == h.set \ kept
           k == rx_pkt_history_trim_range_count(h)
<1>1. MAX_RX_ACK_RANGES \in Nat
  BY AckmRxAssumption
<1>2. h.set \in SUBSET PN /\ h.watermark \in Nat
  BY DEF Histories
<1>3. kept \in SUBSET h.set
  BY DEF TopRanges
<1>4. Cardinality(RangeStarts(kept)) <= MAX_RX_ACK_RANGES
  BY <1>1, <1>2, TopIsBounded
<1>5. \A x \in kept, y \in removed : y < x
  BY <1>1, <1>2, TopIsUpper
<1>6. CASE removed = {}
  <2>1. k = h
    BY <1>6 DEF rx_pkt_history_trim_range_count
  <2>2. h.set = kept
    BY <1>3, <1>6
  <2>3. Forgets(h, h)
    BY <1>2 DEF Forgets
  <2> QED
    BY <1>4, <2>1, <2>2, <2>3
<1>7. CASE removed # {}
  <2> DEFINE w == Max(removed) + 1
  <2> HIDE DEF kept
  <2>1. Max(removed) \in removed /\ \A y \in removed : y <= Max(removed)
    BY <1>2, <1>7, MaxPnIsLargest
  <2>2. w \in Nat /\ w > h.watermark
    BY <1>2, <2>1 DEF PN
  <2>3. \A x \in kept : x >= w
    BY <1>2, <1>3, <1>5, <2>1 DEF PN
  <2>4. \A y \in removed : ~(y >= w)
    BY <1>2, <2>1 DEF PN
  <2> HIDE DEF w
  <2>5. k = [set |-> {x \in kept : x >= w}, watermark |-> w]
    BY <1>2, <1>7, <2>2 DEF rx_pkt_history_trim_range_count, kept, w,
                           rx_pkt_history_bump_watermark, Histories
  <2>6. k.set = kept /\ k.watermark = w
    BY <2>3, <2>5
  <2>7. kept = {x \in h.set : x >= w}
    BY <1>3, <2>3, <2>4
  <2>8. Forgets(h, k)
    BY <1>2, <1>3, <2>2, <2>5, <2>6, <2>7 DEF Forgets, Histories
  <2> QED
    BY <1>4, <2>6, <2>8
<1> QED
  BY <1>6, <1>7

\* Adding a packet number that is above the watermark.
LEMMA AddForgets ==
    ASSUME NEW h \in Histories, \A x \in h.set : x >= h.watermark,
           NEW pn \in PN, pn >= h.watermark
    PROVE  LET k == rx_pkt_history_add_pn(h, pn)
           IN  /\ k \in Histories /\ k.watermark >= h.watermark
               /\ k.set = {x \in h.set \cup {pn} : x >= k.watermark}
               /\ Cardinality(RangeStarts(k.set)) <= MAX_RX_ACK_RANGES
<1> DEFINE g == [h EXCEPT !.set = @ \cup {pn}]
           k == rx_pkt_history_trim_range_count(g)
<1>1. g \in Histories /\ \A x \in g.set : x >= g.watermark
  BY DEF Histories
<1>2. g.set = h.set \cup {pn} /\ g.watermark = h.watermark
  BY DEF Histories
<1>3. rx_pkt_history_add_pn(h, pn) = k
  BY DEF rx_pkt_history_add_pn, Histories, PN
<1> HIDE DEF g
<1>4. Forgets(g, k) /\ Cardinality(RangeStarts(k.set)) <= MAX_RX_ACK_RANGES
  BY <1>1, TrimKeepsUpper
<1> QED
  BY <1>2, <1>3, <1>4 DEF Forgets

-----------------------------------------------------------------------------
(***************************************************************************)
(* The steps                                                               *)
(***************************************************************************)

\* The history of a state is one that BumpForgets and AddForgets speak of.
LEMMA HistoryFacts ==
    ASSUME RxTypeOK, SetExact
    PROVE  /\ [set |-> set, watermark |-> watermark] \in Histories
           /\ \A x \in set : x >= watermark
BY DEF RxTypeOK, SetExact, Histories

LEMMA ConstantFacts ==
    /\ RxInfinite \in Nat /\ TxMaxAckDelay \in Nat
    /\ 0 \in RxTimes /\ RxTimes \in SUBSET Nat
    /\ \A t \in RxTimes : t + TxMaxAckDelay < RxInfinite
    /\ MAX_RX_ACK_RANGES \in Nat /\ PN \in SUBSET Nat
<1>1. RxMaxTime \in Nat /\ TxMaxAckDelay \in Nat /\ MAX_RX_ACK_RANGES \in Nat
  BY AckmRxAssumption
<1> QED
  BY <1>1 DEF RxInfinite, PN, RxTimes

LEMMA InitKeeps ==
    ASSUME RxInit PROVE RxIInv
<1>1. rx_pending \in Seq(Pending)
  BY DEF RxInit
<1>2. RxTypeOK
  BY <1>1, ConstantFacts DEF RxInit, RxTypeOK
<1>3. SetExact
  <2>1. RangeStarts({}) = {} /\ MAX_RX_ACK_RANGES \in Nat
    BY AckmRxAssumption DEF RangeStarts
  <2>2. Cardinality(RangeStarts(set)) <= MAX_RX_ACK_RANGES
    BY <2>1, FS_EmptySet DEF RxInit
  <2> QED
    BY <2>2 DEF RxInit, SetExact
<1>4. AckOnTime
  BY DEF RxInit, AckOnTime
<1> QED
  BY <1>2, <1>3, <1>4 DEF RxIInv

\* Steps that touch neither the history nor when an ACK frame is due.
LEMMA QuietStep ==
    ASSUME RxIInv, UNCHANGED <<history, acking, ghosts>>, RxTypeOK'
    PROVE  RxIInv'
BY DEF RxIInv, SetExact, AckOnTime, history, acking, ghosts

LEMMA RxTickStep ==
    ASSUME RxIInv, RxTick PROVE RxIInv'
<1>1. rx_now' \in RxTimes
  BY AckmRxAssumption DEF RxIInv, RxTick, RxTypeOK, RxTimes
<1>2. RxTypeOK'
  BY <1>1 DEF RxIInv, RxTick, RxTypeOK, history, acking, sending, ghosts
<1> QED
  BY <1>2, QuietStep DEF RxTick

LEMMA ReadStep ==
    ASSUME RxIInv, NEW n \in Nat, NEW batch \in [1..n -> PN], ReadBatch(batch)
    PROVE  RxIInv'
<1>1. rx_pending' \in Seq(Pending)
  <2>1. rx_pending' = [i \in 1..n |-> [pn |-> batch[i], time |-> rx_now]]
    BY DEF ReadBatch
  <2>2. \A i \in 1..n : [pn |-> batch[i], time |-> rx_now] \in Pending
    BY DEF RxIInv, RxTypeOK, Pending
  <2> QED
    BY <2>1, <2>2
<1>2. RxTypeOK'
  BY <1>1 DEF RxIInv, ReadBatch, RxTypeOK, history, acking, sending, ghosts
<1> QED
  BY <1>2, QuietStep DEF ReadBatch

LEMMA LostStep ==
    ASSUME RxIInv, NEW p \in tx, OnPktLost(p) PROVE RxIInv'
<1>1. RxTypeOK'
  BY DEF RxIInv, OnPktLost, RxTypeOK, history, acking, ghosts
<1> QED
  BY <1>1, QuietStep DEF OnPktLost

\* The watermark moves over what is acknowledged.
LEMMA AckedStep ==
    ASSUME RxIInv, NEW p \in tx, OnPktAcked(p) PROVE RxIInv'
<1> DEFINE h == [set |-> set, watermark |-> watermark]
           k == rx_pkt_history_bump_watermark(h, p.largest_acked + 1)
<1>1. p.largest_acked + 1 \in Nat
  BY DEF RxIInv, RxTypeOK, PN
<1>2. h \in Histories /\ \A x \in h.set : x >= h.watermark
  BY HistoryFacts DEF RxIInv
<1>3. /\ Forgets(h, k)
      /\ Cardinality(RangeStarts(k.set)) <= Cardinality(RangeStarts(h.set))
  <2> HIDE DEF h
  <2> QED
    BY <1>1, <1>2, BumpForgets
<1>4. \/ set' = k.set /\ watermark' = k.watermark
      \/ set' = set /\ watermark' = watermark
  BY DEF OnPktAcked, history
<1> HIDE DEF k
<1>5. /\ set' \in SUBSET PN /\ watermark' \in Nat
      /\ set' = {x \in set : x >= watermark'} /\ watermark' >= watermark
      /\ Cardinality(RangeStarts(set')) <= Cardinality(RangeStarts(set))
  <2>1. CASE set' = k.set /\ watermark' = k.watermark
    BY <1>3, <2>1 DEF Forgets, Histories
  <2>2. CASE set' = set /\ watermark' = watermark
    <3>1. set \in SUBSET PN /\ watermark \in Nat
      BY DEF RxIInv, RxTypeOK
    <3>2. Cardinality(RangeStarts(set)) \in Nat
      BY <3>1, FiniteRanges
    <3> QED
      BY <1>2, <2>2, <3>1, <3>2
  <2> QED
    BY <1>4, <2>1, <2>2
<1>6. RxTypeOK'
  BY <1>5 DEF RxIInv, OnPktAcked, RxTypeOK, acking, ghosts
<1>7. SetExact'
  <2>1. handled' = handled
    BY DEF OnPktAcked, ghosts
  <2>2. set' = {pn \in PN : pn >= watermark' /\ handled[pn] > 0}
    <3>1. watermark \in Nat /\ watermark' \in Nat /\ \A x \in PN : x \in Nat
      BY <1>5 DEF RxIInv, RxTypeOK, PN
    <3>2. set = {pn \in PN : pn >= watermark /\ handled[pn] > 0}
      BY DEF RxIInv, SetExact
    <3> QED
      BY <1>5, <3>1, <3>2
  <2>3. Cardinality(RangeStarts(set')) <= MAX_RX_ACK_RANGES
    <3>1. /\ Cardinality(RangeStarts(set)) \in Nat
          /\ Cardinality(RangeStarts(set')) \in Nat
      BY <1>5, FiniteRanges DEF RxIInv, RxTypeOK
    <3>2. Cardinality(RangeStarts(set)) <= MAX_RX_ACK_RANGES
      BY DEF RxIInv, SetExact
    <3>3. MAX_RX_ACK_RANGES \in Nat
      BY AckmRxAssumption
    <3> QED
      BY <1>5, <3>1, <3>2, <3>3
  <2> QED
    BY <2>1, <2>2, <2>3 DEF SetExact
<1>8. AckOnTime'
  BY <1>5 DEF RxIInv, AckOnTime, OnPktAcked, acking, ghosts
<1> QED
  BY <1>6, <1>7, <1>8 DEF RxIInv

\* An ACK frame is generated: everything tracked has been considered.
LEMMA SendStep ==
    ASSUME RxIInv, NEW inflight \in BOOLEAN, SendAck(inflight) PROVE RxIInv'
<1>1. set' = set /\ watermark' = watermark /\ handled' = handled
  BY DEF SendAck, history
<1>2. RxTypeOK'
  <2>1. ack' \in SUBSET PN
    BY DEF RxIInv, RxTypeOK, SendAck, ossl_ackm_get_ack_frame,
           ackm_fill_rx_ack_ranges, TopRanges
  <2>2. ack' # {} => Max(ack') \in PN
    BY <2>1, MaxPnIsLargest
  <2>3. /\ tx' \in SUBSET [id : Nat, largest_acked : PN, is_inflight : BOOLEAN]
        /\ num_tx' \in Nat /\ want_ack' \in BOOLEAN
    <3>1. CASE ack' = {}
      BY <3>1 DEF RxIInv, RxTypeOK, SendAck, sending
    <3>2. CASE ack' # {}
      <4> DEFINE r == [id |-> num_tx, largest_acked |-> Max(ack'),
                       is_inflight |-> inflight]
      <4>1. r \in [id : Nat, largest_acked : PN, is_inflight : BOOLEAN]
        BY <2>2, <3>2 DEF RxIInv, RxTypeOK
      <4>2. tx' = tx \cup {r} /\ num_tx' = num_tx + 1 /\ want_ack' = FALSE
        BY <3>2 DEF SendAck
      <4> DEFINE R == [id : Nat, largest_acked : PN, is_inflight : BOOLEAN]
      <4>3. tx \in SUBSET R /\ num_tx \in Nat
        BY DEF RxIInv, RxTypeOK
      <4> HIDE DEF r, R
      <4>4. tx' \in SUBSET R
        BY <4>1, <4>2, <4>3 DEF R
      <4>5. num_tx' \in Nat
        BY <4>2, <4>3
      <4>6. want_ack' \in BOOLEAN
        BY <4>2
      <4> QED
        BY <4>4, <4>5, <4>6 DEF R
    <3> QED
      BY <3>1, <3>2
  <2>4. /\ since_last_ack' \in Nat /\ flush_deadline' \in Nat
        /\ rx_ack_desired' \in BOOLEAN /\ rx_ack_generated' \in BOOLEAN
    BY ConstantFacts DEF SendAck, ossl_ackm_get_ack_frame
  <2>5. reported' \in SUBSET PN /\ rx_time' \in [PN -> RxTimes]
    BY ConstantFacts DEF RxIInv, RxTypeOK, SendAck
  <2> QED
    BY <1>1, <2>1, <2>3, <2>4, <2>5 DEF RxIInv, RxTypeOK, SendAck
<1>3. SetExact'
  BY <1>1 DEF RxIInv, SetExact
<1>4. AckOnTime'
  BY <1>1 DEF AckOnTime, SendAck
<1> QED
  BY <1>2, <1>3, <1>4 DEF RxIInv

\* A packet is handled: it is processed, and tracked if it was not before.
LEMMA HandleStep ==
    ASSUME RxIInv, HandlePacket PROVE RxIInv'
<1> DEFINE pkt == Head(rx_pending)
           h == [set |-> set, watermark |-> watermark]
           k == rx_pkt_history_add_pn(h, pkt.pn)
<1>1. pkt.pn \in PN /\ pkt.time \in RxTimes
  <2>1. rx_pending \in Seq(Pending) /\ rx_pending # <<>>
    BY DEF RxIInv, RxTypeOK, HandlePacket
  <2>2. pkt \in Pending
    BY <2>1
  <2> QED
    BY <2>2 DEF Pending
<1>2. rx_pending' \in Seq(Pending)
  BY DEF RxIInv, RxTypeOK, HandlePacket
<1>3. handled' = [handled EXCEPT ![pkt.pn] = @ + 1] /\ handled' \in [PN -> Nat]
  <2>1. handled' = [handled EXCEPT ![pkt.pn] = @ + 1]
    BY DEF HandlePacket
  <2> HIDE DEF pkt
  <2> QED
    BY <1>1, <2>1 DEF RxIInv, RxTypeOK
<1>4. ossl_ackm_on_rx_packet(pkt)
  BY DEF HandlePacket
<1>5. /\ rx_now' = rx_now /\ reported' = reported
      /\ want_ack' = want_ack /\ tx' = tx /\ num_tx' = num_tx
  BY DEF HandlePacket, sending
<1>6. h \in Histories /\ \A x \in h.set : x >= h.watermark
  BY HistoryFacts DEF RxIInv
<1>7. /\ set \in SUBSET PN /\ watermark \in Nat /\ PN \in SUBSET Nat
      /\ rx_time \in [PN -> RxTimes] /\ handled \in [PN -> Nat]
      /\ since_last_ack \in Nat /\ flush_deadline \in Nat
      /\ rx_ack_desired \in BOOLEAN /\ rx_ack_generated \in BOOLEAN
      /\ ack \in SUBSET PN
      /\ set = {pn \in PN : pn >= watermark /\ handled[pn] > 0}
  BY ConstantFacts DEF RxIInv, RxTypeOK, SetExact
<1> HIDE DEF pkt
<1>8. CASE ~ossl_ackm_is_rx_pn_processable(pkt.pn)
  <2>1. UNCHANGED <<history, acking, rx_time>>
    BY <1>4, <1>8 DEF ossl_ackm_on_rx_packet
  <2>2. RxTypeOK'
    BY <1>2, <1>3, <1>5, <2>1 DEF RxIInv, RxTypeOK, history, acking
  <2>3. set' = {pn \in PN : pn >= watermark' /\ handled'[pn] > 0}
    <3>1. \A pn \in PN : pn >= watermark => (handled'[pn] > 0 <=> handled[pn] > 0)
      BY <1>1, <1>3, <1>7, <1>8 DEF ossl_ackm_is_rx_pn_processable
    <3> QED
      BY <1>7, <2>1, <3>1 DEF history
  <2>4. SetExact'
    BY <2>1, <2>3 DEF RxIInv, SetExact, history
  <2>5. AckOnTime'
    BY <1>5, <2>1 DEF RxIInv, AckOnTime, history, acking
  <2> QED
    BY <2>2, <2>4, <2>5 DEF RxIInv
<1>9. CASE ossl_ackm_is_rx_pn_processable(pkt.pn)
  <2>1. pkt.pn >= watermark /\ pkt.pn \notin set
    BY <1>9 DEF ossl_ackm_is_rx_pn_processable
  <2>2. /\ k \in Histories /\ k.watermark >= watermark
        /\ k.set = {x \in set \cup {pkt.pn} : x >= k.watermark}
        /\ Cardinality(RangeStarts(k.set)) <= MAX_RX_ACK_RANGES
    <3>1. h.set = set /\ h.watermark = watermark
      OBVIOUS
    <3> HIDE DEF h
    <3> QED
      BY <1>1, <1>6, <2>1, <3>1, AddForgets
  <2>3. /\ set' = k.set /\ watermark' = k.watermark
        /\ rx_time' = [rx_time EXCEPT ![pkt.pn] = pkt.time]
        /\ \/ UNCHANGED acking /\ pkt.pn \notin Eliciting
           \/ ackm_on_rx_ack_eliciting(pkt.time, k.set, ackm_is_missing(pkt.pn))
    BY <1>4, <1>9 DEF ossl_ackm_on_rx_packet
  <2> HIDE DEF k
  <2>4. /\ set' \in SUBSET PN /\ watermark' \in Nat
        /\ rx_time' \in [PN -> RxTimes]
        /\ rx_time'[pkt.pn] = pkt.time
        /\ \A x \in set : rx_time'[x] = rx_time[x]
    BY <1>1, <1>7, <2>1, <2>2, <2>3 DEF Histories
  <2>5. set' = {pn \in PN : pn >= watermark' /\ handled'[pn] > 0}
    <3>1. set' = {x \in set \cup {pkt.pn} : x >= watermark'}
      BY <2>2, <2>3
    <3>2. \A pn \in PN : handled'[pn] > 0 <=> handled[pn] > 0 \/ pn = pkt.pn
      BY <1>1, <1>3, <1>7
    <3>3. watermark' >= watermark
      BY <2>2, <2>3
    <3>4. \A pn \in PN : pn >= watermark' => pn >= watermark
      BY <1>7, <2>4, <3>3
    <3> QED
      BY <1>1, <1>7, <3>1, <3>2, <3>4
  <2>6. SetExact'
    BY <2>2, <2>3, <2>5 DEF SetExact
  <2> DEFINE t == pkt.time + TxMaxAckDelay
  <2>7. t \in Nat /\ RxInfinite \in Nat
    BY <1>1, ConstantFacts DEF RxTimes
  <2>8. /\ FlushDeadline(pkt.time) \in Nat
        /\ FlushDeadline(pkt.time) <= t
        /\ \/ FlushDeadline(pkt.time) <= flush_deadline
           \/ flush_deadline = RxInfinite
    <3>1. Min({flush_deadline, t}) \in {flush_deadline, t}
          /\ Min({flush_deadline, t}) <= flush_deadline
          /\ Min({flush_deadline, t}) <= t
      <4>1. \E x \in {flush_deadline, t} : \A y \in {flush_deadline, t} : x =< y
        BY <1>7, <2>7
      <4> QED
        BY <4>1 DEF Min
    <3> QED
      BY <1>7, <2>7, <3>1 DEF FlushDeadline
  <2>9. RxTypeOK'
    <3>1. /\ since_last_ack' \in Nat /\ flush_deadline' \in Nat
          /\ rx_ack_desired' \in BOOLEAN /\ rx_ack_generated' \in BOOLEAN
          /\ ack' \in SUBSET PN
      <4>1. CASE UNCHANGED acking
        BY <1>7, <4>1 DEF acking
      <4>2. CASE ackm_on_rx_ack_eliciting(pkt.time, k.set, ackm_is_missing(pkt.pn))
        <5>1. since_last_ack' \in Nat /\ flush_deadline' \in Nat /\ ack' = ack
          BY <1>7, <2>7, <2>8, <4>2 DEF ackm_on_rx_ack_eliciting, acking
        <5>2. \/ rx_ack_desired' = rx_ack_desired
              \/ rx_ack_desired' = TRUE
          BY <4>2 DEF ackm_on_rx_ack_eliciting, acking
        <5>3. rx_ack_generated' = rx_ack_generated
          BY <4>2 DEF ackm_on_rx_ack_eliciting, acking
        <5> QED
          BY <1>7, <5>1, <5>2, <5>3
      <4> QED
        BY <2>3, <4>1, <4>2
    <3> QED
      BY <1>2, <1>3, <1>5, <2>4, <3>1 DEF RxIInv, RxTypeOK
  <2>10. AckOnTime'
    <3> SUFFICES ASSUME NEW x \in (set' \cap Eliciting) \ reported',
                        ~rx_ack_desired'
                 PROVE  flush_deadline' <= rx_time'[x] + TxMaxAckDelay
      BY DEF AckOnTime
    <3>1. x \in set \cup {pkt.pn} /\ x \in Eliciting /\ x \notin reported
      BY <1>5, <2>2, <2>3
    <3>2. x \in set =>
            rx_ack_desired \/ flush_deadline <= rx_time[x] + TxMaxAckDelay
      BY <3>1 DEF RxIInv, AckOnTime
    <3>3. CASE UNCHANGED acking /\ pkt.pn \notin Eliciting
      BY <2>4, <3>1, <3>2, <3>3 DEF acking
    <3>4. CASE ackm_on_rx_ack_eliciting(pkt.time, k.set, ackm_is_missing(pkt.pn))
      <4>1. ~rx_ack_desired /\ flush_deadline' = FlushDeadline(pkt.time)
        BY <3>4 DEF ackm_on_rx_ack_eliciting, acking
      <4>2. CASE x = pkt.pn
        BY <2>4, <2>8, <4>1, <4>2
      <4>3. CASE x \in set
        <5>1. rx_time[x] \in RxTimes /\ rx_time'[x] = rx_time[x]
          BY <1>7, <2>4, <4>3
        <5>2. /\ rx_time[x] + TxMaxAckDelay \in Nat
              /\ rx_time[x] + TxMaxAckDelay < RxInfinite
          <6> DEFINE r == rx_time[x]
          <6>1. r \in RxTimes
            BY <5>1
          <6> HIDE DEF r
          <6>2. r + TxMaxAckDelay \in Nat /\ r + TxMaxAckDelay < RxInfinite
            BY <6>1, ConstantFacts
          <6> QED
            BY <6>2 DEF r
        <5>3. flush_deadline <= rx_time[x] + TxMaxAckDelay
          BY <3>2, <4>1, <4>3
        <5>4. flush_deadline # RxInfinite
          BY <1>7, <2>7, <5>2, <5>3
        <5> HIDE DEF t
        <5> QED
          BY <1>7, <2>8, <4>1, <5>1, <5>2, <5>3, <5>4
      <4> QED
        BY <3>1, <4>2, <4>3
    <3> QED
      BY <2>3, <3>3, <3>4
  <2> QED
    BY <2>6, <2>9, <2>10 DEF RxIInv
<1> QED
  BY <1>8, <1>9

LEMMA NextKeeps ==
    ASSUME RxIInv, [RxNext]_rx_vars PROVE RxIInv'
<1>1. CASE UNCHANGED rx_vars
  BY <1>1 DEF rx_vars, history, acking, sending, ghosts, RxIInv, RxTypeOK, SetExact,
              AckOnTime
<1>2. ASSUME NEW batch \in UNION {[1..n -> PN] : n \in 1..MaxBatch},
             ReadBatch(batch)
      PROVE  RxIInv'
  <2>1. PICK n \in 1..MaxBatch : batch \in [1..n -> PN]
    BY <1>2
  <2>2. n \in Nat
    BY AckmRxAssumption
  <2> QED
    BY <1>2, <2>1, <2>2, ReadStep
<1> QED
  BY <1>1, <1>2, RxTickStep, HandleStep, SendStep, AckedStep, LostStep DEF RxNext

-----------------------------------------------------------------------------
(***************************************************************************)
(* Theorems                                                                *)
(***************************************************************************)

\* The invariant that the others rest on.
THEOREM RxInductiveInvariant == RxSpec => []RxIInv
<1>1. RxInit => RxIInv
  BY InitKeeps
<1>2. RxIInv /\ [RxNext]_rx_vars => RxIInv'
  BY NextKeeps
<1> QED
  BY <1>1, <1>2, PTL DEF RxSpec

\* Every variable keeps its type.
THEOREM RxTypeCorrect == RxSpec => []RxTypeOK
<1>1. RxIInv => RxTypeOK
  BY DEF RxIInv
<1> QED
  BY <1>1, RxInductiveInvariant, PTL

\* The history is exact above its watermark and has a bounded number of ranges,
\* although it is trimmed and its watermark raised at any time.
THEOREM HistoryExact == RxSpec => []SetExact
<1>1. RxIInv => SetExact
  BY DEF RxIInv
<1> QED
  BY <1>1, RxInductiveInvariant, PTL

\* The acknowledgement of an ACK-eliciting packet is neither cancelled nor
\* postponed.
THEOREM AcksOnTime == RxSpec => []AckOnTime
<1>1. RxIInv => AckOnTime
  BY DEF RxIInv
<1> QED
  BY <1>1, RxInductiveInvariant, PTL

\* What has been processed does not pass validation again.
THEOREM ProcessedOnce == RxSpec => NeverReadAgain
<1>1. ASSUME RxIInv, [RxNext]_rx_vars, rx_pending = <<>>,
             NEW i \in DOMAIN rx_pending'
      PROVE  handled[rx_pending'[i].pn] = 0
  <2>1. CASE rx_pending' = rx_pending
    BY <1>1, <2>1
  <2>2. ASSUME NEW batch \in UNION {[1..n -> PN] : n \in 1..MaxBatch},
               ReadBatch(batch)
        PROVE  handled[rx_pending'[i].pn] = 0
    <3>1. PICK n \in 1..MaxBatch : batch \in [1..n -> PN]
      BY <2>2
    <3>2. i \in 1..n /\ rx_pending'[i].pn = batch[i]
      BY <1>1, <2>2, <3>1 DEF ReadBatch
    <3>3. ossl_ackm_is_rx_pn_processable(batch[i]) /\ batch[i] \in PN
      BY <2>2, <3>1, <3>2 DEF ReadBatch
    <3>4. batch[i] \notin set /\ batch[i] >= watermark
      BY <3>3 DEF ossl_ackm_is_rx_pn_processable
    <3>5. handled[batch[i]] \in Nat /\ ~(handled[batch[i]] > 0)
      BY <1>1, <3>3, <3>4 DEF RxIInv, RxTypeOK, SetExact
    <3> QED
      BY <3>2, <3>5
  <2>3. \/ rx_pending' = rx_pending
        \/ \E batch \in UNION {[1..n -> PN] : n \in 1..MaxBatch} : ReadBatch(batch)
    BY <1>1 DEF RxNext, rx_vars, RxTick, HandlePacket, SendAck, OnPktAcked, OnPktLost
  <2> QED
    BY <2>1, <2>2, <2>3
<1>2. RxIInv /\ [RxNext]_rx_vars =>
        [rx_pending = <<>> =>
           \A i \in DOMAIN rx_pending' : handled[rx_pending'[i].pn] = 0]_rx_vars
  BY <1>1
<1> QED
  BY <1>2, RxInductiveInvariant, PTL DEF RxSpec, NeverReadAgain
-----------------------------------------------------------------------------
(***************************************************************************)
(* UINT_SET: lists of ranges                                               *)
(***************************************************************************)

\* The ranges of L are in order, with at least g integers between any two.
Apart(L, g) ==
    \A i, j \in 1..Len(L) : i < j => L[i].end + g < L[j].start

\* x is one of the integers of r.
InRange(x, r) == r.start <= x /\ x <= r.end

\* A range is a pair of integers in order.
LEMMA RangeIs ==
    ASSUME NEW r \in UINT_RANGE
    PROVE  /\ r.start \in Nat /\ r.end \in Nat /\ r.start <= r.end
           /\ r.start \in U64 /\ r.end \in U64
           /\ r.start <= MaxUint /\ r.end <= MaxUint
BY MaxUintAssumption DEF UINT_RANGE, U64

\* The range from a to b.
LEMMA SpanIs ==
    ASSUME NEW a \in U64, NEW b \in U64, a <= b
    PROVE  /\ Span(a, b) \in UINT_RANGE
           /\ Span(a, b).start = a /\ Span(a, b).end = b
BY DEF Span, UINT_RANGE

\* Arithmetic does not wrap around where the code relies on it.
LEMMA NoWrap ==
    ASSUME NEW v \in U64
    PROVE  /\ v < MaxUint => Inc(v) = v + 1 /\ Inc(v) \in U64
           /\ v > 0 => Dec(v) = v - 1 /\ Dec(v) \in U64
<1>1. MaxUint \in Nat /\ v \in Nat /\ v <= MaxUint
  BY MaxUintAssumption DEF U64
<1>2. \A w \in Nat : w < MaxUint + 1 => w % (MaxUint + 1) = w
  BY <1>1
<1>3. ASSUME v < MaxUint PROVE Inc(v) = v + 1 /\ Inc(v) \in U64
  BY <1>1, <1>2, <1>3 DEF Inc, U64
<1>4. ASSUME v > 0 PROVE Dec(v) = v - 1 /\ Dec(v) \in U64
  <2> DEFINE w == v - 1
             d == MaxUint + 1
  <2>1. w \in Nat /\ d \in Nat /\ d > 0 /\ w < d
    BY <1>1, <1>4
  <2>2. v + MaxUint = w + d
    BY <1>1
  <2>3. (w + d) % d = w
    <3> HIDE DEF w, d
    <3> QED
      BY <2>1
  <2>4. Dec(v) = w
    BY <2>2, <2>3 DEF Dec
  <2> QED
    BY <1>1, <2>1, <2>4 DEF U64
<1> QED
  BY <1>3, <1>4

\* The integers of a list are those in one of its ranges.
LEMMA ElemsIs ==
    ASSUME NEW L \in Seq(UINT_RANGE), NEW x
    PROVE  x \in Elems(L) <=>
             x \in Nat /\ \E i \in 1..Len(L) : InRange(x, L[i])
<1>1. DOMAIN L = 1..Len(L) /\ \A i \in 1..Len(L) : L[i] \in UINT_RANGE
  OBVIOUS
<1>2. \A i \in 1..Len(L) :
        x \in L[i].start .. L[i].end <=> x \in Nat /\ InRange(x, L[i])
  <2> TAKE i \in 1..Len(L)
  <2>1. L[i].start \in Nat /\ L[i].end \in Nat
    BY <1>1, RangeIs
  <2> QED
    BY <2>1 DEF InRange
<1>3. x \in Elems(L) <=> \E i \in 1..Len(L) : x \in L[i].start .. L[i].end
  BY <1>1 DEF Elems
<1> QED
  BY <1>2, <1>3

\* K is L with its elements i..j replaced by those of M.
Replaced(L, i, j, M, K) ==
    /\ K \in Seq(UINT_RANGE)
    /\ Len(K) = i - 1 + Len(M) + Len(L) - j
    /\ \A k \in 1..i - 1 : K[k] = L[k]
    /\ \A k \in 1..Len(M) : K[i - 1 + k] = M[k]
    /\ \A k \in j + 1..Len(L) : K[k - j + i - 1 + Len(M)] = L[k]

\* M fits into L in place of its elements i..j.
Fits(L, i, j, M, g) ==
    /\ L \in Seq(UINT_RANGE) /\ M \in Seq(UINT_RANGE) /\ g \in Nat
    /\ i \in 1..Len(L) + 1 /\ j \in i - 1..Len(L)
    /\ Apart(L, g) /\ Apart(M, g)
    /\ \A m \in 1..Len(M) :
          /\ \A k \in 1..i - 1 : L[k].end + g < M[m].start
          /\ \A k \in j + 1..Len(L) : M[m].end + g < L[k].start
    /\ \A k \in 1..i - 1, m \in j + 1..Len(L) : L[k].end + g < L[m].start

\* Every element of K is one of L or of M.
LEMMA Places ==
    ASSUME NEW L, NEW i, NEW j, NEW M, NEW K, NEW g,
           Fits(L, i, j, M, g), Replaced(L, i, j, M, K), NEW k \in 1..Len(K)
    PROVE  \/ k \in 1..i - 1 /\ K[k] = L[k]
           \/ k - (i - 1) \in 1..Len(M) /\ K[k] = M[k - (i - 1)]
           \/ /\ k - (i - 1) - Len(M) + j \in j + 1..Len(L)
              /\ K[k] = L[k - (i - 1) - Len(M) + j]
<1> DEFINE a == k - (i - 1)
           b == k - (i - 1) - Len(M) + j
<1>1. /\ i \in Nat /\ j \in Nat /\ Len(M) \in Nat /\ Len(L) \in Nat
      /\ i >= 1 /\ j <= Len(L) /\ i - 1 <= j
      /\ Len(K) = i - 1 + Len(M) + Len(L) - j
  BY DEF Fits, Replaced
<1>2. CASE k <= i - 1
  BY <1>1, <1>2 DEF Replaced
<1>3. CASE k > i - 1 /\ k <= i - 1 + Len(M)
  <2>1. a \in 1..Len(M) /\ i - 1 + a = k
    BY <1>1, <1>3
  <2>2. K[i - 1 + a] = M[a]
    BY <2>1 DEF Replaced
  <2> QED
    BY <2>1, <2>2
<1>4. CASE k > i - 1 + Len(M)
  <2>1. b \in j + 1..Len(L) /\ b - j + i - 1 + Len(M) = k
    BY <1>1, <1>4
  <2>2. K[b - j + i - 1 + Len(M)] = L[b]
    BY <2>1 DEF Replaced
  <2> QED
    BY <2>1, <2>2
<1> QED
  BY <1>1, <1>2, <1>3, <1>4

\* A list into which M fits is in order with M in it.
LEMMA ReplacedIsApart ==
    ASSUME NEW L, NEW i, NEW j, NEW M, NEW K, NEW g,
           Fits(L, i, j, M, g), Replaced(L, i, j, M, K)
    PROVE  Apart(K, g)
<1> SUFFICES ASSUME NEW a \in 1..Len(K), NEW b \in 1..Len(K), a < b
             PROVE  K[a].end + g < K[b].start
  BY DEF Apart
<1>1. /\ i \in Nat /\ j \in Nat /\ Len(M) \in Nat /\ Len(L) \in Nat
      /\ i >= 1 /\ j <= Len(L) /\ i - 1 <= j
      /\ Len(K) \in Nat
  BY DEF Fits, Replaced
<1> DEFINE a1 == a - (i - 1)
           a2 == a - (i - 1) - Len(M) + j
           b1 == b - (i - 1)
           b2 == b - (i - 1) - Len(M) + j
<1>2. /\ a1 \in Int /\ a2 \in Int /\ b1 \in Int /\ b2 \in Int
      /\ a1 < b1 /\ a2 < b2
      /\ b \in 1..i - 1 => a \in 1..i - 1
      /\ b1 \in 1..Len(M) => a1 <= Len(M)
      /\ a2 >= j + 1 => b2 >= j + 1
  BY <1>1
<1>3. \/ a \in 1..i - 1 /\ K[a] = L[a]
      \/ a1 \in 1..Len(M) /\ K[a] = M[a1]
      \/ a2 \in j + 1..Len(L) /\ K[a] = L[a2]
  BY Places
<1>4. \/ b \in 1..i - 1 /\ K[b] = L[b]
      \/ b1 \in 1..Len(M) /\ K[b] = M[b1]
      \/ b2 \in j + 1..Len(L) /\ K[b] = L[b2]
  BY Places
<1>5. CASE a \in 1..i - 1 /\ K[a] = L[a]
  <2>1. CASE b \in 1..i - 1 /\ K[b] = L[b]
    <3>1. a \in 1..Len(L) /\ b \in 1..Len(L)
      BY <1>1, <1>5, <2>1
    <3> QED
      BY <1>5, <2>1, <3>1 DEF Fits, Apart
  <2>2. CASE b1 \in 1..Len(M) /\ K[b] = M[b1]
    BY <1>5, <2>2 DEF Fits
  <2>3. CASE b2 \in j + 1..Len(L) /\ K[b] = L[b2]
    BY <1>5, <2>3 DEF Fits
  <2> QED
    BY <1>4, <2>1, <2>2, <2>3
<1>6. CASE a1 \in 1..Len(M) /\ K[a] = M[a1]
  <2>1. b \notin 1..i - 1
    BY <1>1, <1>6
  <2>2. CASE b1 \in 1..Len(M) /\ K[b] = M[b1]
    <3> HIDE DEF a1, b1
    <3> QED
      BY <1>2, <1>6, <2>2 DEF Fits, Apart
  <2>3. CASE b2 \in j + 1..Len(L) /\ K[b] = L[b2]
    <3> HIDE DEF a1, b2
    <3> QED
      BY <1>6, <2>3 DEF Fits
  <2> QED
    BY <1>4, <2>1, <2>2, <2>3
<1>7. CASE a2 \in j + 1..Len(L) /\ K[a] = L[a2]
  <2>1. b \notin 1..i - 1 /\ b1 \notin 1..Len(M)
    BY <1>1, <1>7
  <2>2. b2 \in j + 1..Len(L) /\ K[b] = L[b2]
    BY <1>4, <2>1
  <2>3. a2 \in 1..Len(L) /\ b2 \in 1..Len(L) /\ a2 < b2
    BY <1>1, <1>7, <2>2
  <2> HIDE DEF a2, b2
  <2> QED
    BY <1>7, <2>2, <2>3 DEF Fits, Apart
<1> QED
  BY <1>3, <1>5, <1>6, <1>7

\* What fits in takes the place of the integers of the elements i..j.
LEMMA ReplacedElems ==
    ASSUME NEW L, NEW i, NEW j, NEW M, NEW K, NEW g,
           Fits(L, i, j, M, g), Replaced(L, i, j, M, K), NEW x
    PROVE  x \in Elems(K) <=>
             /\ x \in Nat
             /\ \/ \E k \in (1..i - 1) \cup (j + 1..Len(L)) : InRange(x, L[k])
                \/ \E k \in 1..Len(M) : InRange(x, M[k])
<1>1. /\ i \in Nat /\ j \in Nat /\ Len(M) \in Nat /\ Len(L) \in Nat
      /\ i >= 1 /\ j <= Len(L) /\ i - 1 <= j
      /\ Len(K) = i - 1 + Len(M) + Len(L) - j
      /\ K \in Seq(UINT_RANGE)
  BY DEF Fits, Replaced
<1>2. ASSUME NEW k \in 1..Len(K), InRange(x, K[k])
      PROVE  \/ \E m \in (1..i - 1) \cup (j + 1..Len(L)) : InRange(x, L[m])
             \/ \E m \in 1..Len(M) : InRange(x, M[m])
  BY <1>2, Places
<1>3. ASSUME NEW k \in 1..i - 1, InRange(x, L[k])
      PROVE  \E m \in 1..Len(K) : InRange(x, K[m])
  <2>1. k \in 1..Len(K) /\ K[k] = L[k]
    BY <1>1 DEF Replaced
  <2> QED
    BY <1>3, <2>1
<1>4. ASSUME NEW k \in j + 1..Len(L), InRange(x, L[k])
      PROVE  \E m \in 1..Len(K) : InRange(x, K[m])
  <2> DEFINE m == k - j + i - 1 + Len(M)
  <2>1. m \in 1..Len(K)
    BY <1>1
  <2>2. K[m] = L[k]
    BY DEF Replaced
  <2> HIDE DEF m
  <2> QED
    BY <1>4, <2>1, <2>2
<1>5. ASSUME NEW k \in 1..Len(M), InRange(x, M[k])
      PROVE  \E m \in 1..Len(K) : InRange(x, K[m])
  <2> DEFINE m == i - 1 + k
  <2>1. m \in 1..Len(K)
    BY <1>1
  <2>2. K[m] = M[k]
    BY DEF Replaced
  <2> HIDE DEF m
  <2> QED
    BY <1>5, <2>1, <2>2
<1>6. x \in Elems(K) <=> x \in Nat /\ \E k \in 1..Len(K) : InRange(x, K[k])
  BY <1>1, ElemsIs
<1> QED
  BY <1>2, <1>3, <1>4, <1>5, <1>6

\* The elements of two lists, one after the other.
LEMMA ConcatIs ==
    ASSUME NEW A \in Seq(UINT_RANGE), NEW B \in Seq(UINT_RANGE)
    PROVE  /\ A \o B \in Seq(UINT_RANGE) /\ Len(A \o B) = Len(A) + Len(B)
           /\ \A k \in 1..Len(A) : (A \o B)[k] = A[k]
           /\ \A k \in 1..Len(B) : (A \o B)[Len(A) + k] = B[k]
<1>1. A \o B \in Seq(UINT_RANGE) /\ Len(A \o B) = Len(A) + Len(B)
  OBVIOUS
<1>2. \A k \in 1..Len(A) : (A \o B)[k] = A[k]
  OBVIOUS
<1>3. \A k \in 1..Len(B) : (A \o B)[Len(A) + k] = B[k]
  OBVIOUS
<1> QED
  BY <1>1, <1>2, <1>3

\* Splice replaces the elements i..j.
LEMMA SpliceIs ==
    ASSUME NEW L \in Seq(UINT_RANGE), NEW M \in Seq(UINT_RANGE),
           NEW i \in 1..Len(L) + 1, NEW j \in i - 1..Len(L)
    PROVE  Replaced(L, i, j, M, Splice(L, i, j, M))
<1> DEFINE A == SubSeq(L, 1, i - 1)
           C == SubSeq(L, j + 1, Len(L))
<1>1. /\ i \in Nat /\ j \in Nat /\ Len(M) \in Nat /\ Len(L) \in Nat
      /\ i >= 1 /\ j <= Len(L) /\ i - 1 <= j
  OBVIOUS
<1>2. A \in Seq(UINT_RANGE) /\ Len(A) = i - 1 /\ \A k \in 1..i - 1 : A[k] = L[k]
  BY <1>1
<1>3. /\ C \in Seq(UINT_RANGE) /\ Len(C) = Len(L) - j
      /\ \A k \in 1..Len(L) - j : C[k] = L[j + k]
  BY <1>1
<1>4. Splice(L, i, j, M) = A \o M \o C
  BY DEF Splice
<1> HIDE DEF A, C
<1> DEFINE B == A \o M
<1>5. /\ B \in Seq(UINT_RANGE) /\ Len(B) = i - 1 + Len(M)
      /\ \A k \in 1..i - 1 : B[k] = L[k]
      /\ \A k \in 1..Len(M) : B[i - 1 + k] = M[k]
  <2>1. /\ B \in Seq(UINT_RANGE) /\ Len(B) = Len(A) + Len(M)
        /\ \A k \in 1..Len(A) : B[k] = A[k]
        /\ \A k \in 1..Len(M) : B[Len(A) + k] = M[k]
    BY <1>2, ConcatIs
  <2> HIDE DEF B
  <2> QED
    BY <1>2, <2>1
<1> HIDE DEF B
<1> DEFINE K == B \o C
<1>6. /\ K \in Seq(UINT_RANGE) /\ Len(K) = Len(B) + Len(C)
      /\ \A k \in 1..Len(B) : K[k] = B[k]
      /\ \A k \in 1..Len(C) : K[Len(B) + k] = C[k]
  BY <1>3, <1>5, ConcatIs
<1>7. Splice(L, i, j, M) = K
  BY <1>4 DEF B
<1> HIDE DEF K
<1>8. Len(K) = i - 1 + Len(M) + Len(L) - j
  BY <1>1, <1>3, <1>5, <1>6
<1>9. \A k \in 1..i - 1 : K[k] = L[k]
  BY <1>1, <1>5, <1>6
<1>10. \A k \in 1..Len(M) : K[i - 1 + k] = M[k]
  BY <1>1, <1>5, <1>6
<1>11. ASSUME NEW k \in j + 1..Len(L)
       PROVE  K[k - j + i - 1 + Len(M)] = L[k]
  <2> DEFINE c == k - j
  <2>1. c \in 1..Len(C) /\ c \in 1..Len(L) - j /\ j + c = k
        /\ Len(B) + c = k - j + i - 1 + Len(M)
    BY <1>1, <1>3, <1>5
  <2>2. K[Len(B) + c] = C[c] /\ C[c] = L[j + c]
    BY <1>3, <1>6, <2>1
  <2> QED
    BY <2>1, <2>2
<1> QED
  BY <1>6, <1>7, <1>8, <1>9, <1>10, <1>11 DEF Replaced

-----------------------------------------------------------------------------
(***************************************************************************)
(* UINT_SET: insertion                                                     *)
(***************************************************************************)

\* K is a list for the integers of L and of r, and without bordering ranges
\* if L is and r is disjoint from it.
Inserted(L, r, K) ==
    /\ K \in Seq(UINT_RANGE) /\ Apart(K, 0)
    /\ \A x : x \in Elems(K) <=> x \in Elems(L) \/ (x \in Nat /\ InRange(x, r))
    /\ (/\ Apart(L, 1)
        /\ \A x \in Nat : ~(InRange(x, r) /\ x \in Elems(L)))
          => Apart(K, 1)

\* The lists that the code can build.
List(L) == L \in Seq(UINT_RANGE) /\ Apart(L, 0)

\* The list of one range.
LEMMA OneRange ==
    ASSUME NEW r \in UINT_RANGE, NEW g
    PROVE  <<r>> \in Seq(UINT_RANGE) /\ Apart(<<r>>, g)
           /\ Len(<<r>>) = 1 /\ <<r>>[1] = r
           /\ \A x : x \in Elems(<<r>>) <=> x \in Nat /\ InRange(x, r)
<1>1. <<r>> \in Seq(UINT_RANGE) /\ Len(<<r>>) = 1 /\ <<r>>[1] = r
  OBVIOUS
<1>2. Apart(<<r>>, g)
  BY <1>1 DEF Apart
<1>3. ASSUME NEW x
      PROVE  x \in Elems(<<r>>) <=> x \in Nat /\ InRange(x, r)
  <2>1. x \in Elems(<<r>>) <=>
          x \in Nat /\ \E i \in 1..Len(<<r>>) : InRange(x, <<r>>[i])
    BY <1>1, ElemsIs
  <2> QED
    BY <1>1, <2>1
<1> QED
  BY <1>1, <1>2, <1>3

\* Replacing i..j by one range Y that stands for them and for r.
LEMMA Merged ==
    ASSUME NEW L, List(L), NEW r \in UINT_RANGE, NEW Y \in UINT_RANGE,
           NEW i \in 1..Len(L) + 1, NEW j \in i - 1..Len(L), NEW K,
           Replaced(L, i, j, <<Y>>, K),
           \A k \in 1..i - 1 : L[k].end < Y.start,
           \A k \in j + 1..Len(L) : Y.end < L[k].start,
           \A x \in Nat : InRange(x, Y) <=>
               InRange(x, r) \/ \E k \in i..j : InRange(x, L[k]),
           \/ \E k \in i..j : \E x \in Nat : InRange(x, L[k]) /\ InRange(x, r)
           \/ Apart(L, 1) => /\ \A k \in 1..i - 1 : L[k].end + 1 < Y.start
                             /\ \A k \in j + 1..Len(L) : Y.end + 1 < L[k].start
    PROVE  Inserted(L, r, K)
<1>1. /\ L \in Seq(UINT_RANGE) /\ Apart(L, 0)
      /\ i \in Nat /\ j \in Nat /\ Len(L) \in Nat
      /\ i >= 1 /\ j <= Len(L) /\ i - 1 <= j
  BY DEF List
<1>2. /\ <<Y>> \in Seq(UINT_RANGE) /\ Len(<<Y>>) = 1 /\ <<Y>>[1] = Y
      /\ Apart(<<Y>>, 0) /\ Apart(<<Y>>, 1)
  BY OneRange
<1>3. Y.start \in Nat /\ Y.end \in Nat
  BY RangeIs
<1>4. \A k \in 1..Len(L) : L[k].start \in Nat /\ L[k].end \in Nat
  BY <1>1, RangeIs
<1> DEFINE M == <<Y>>
<1> HIDE DEF M
<1>5. /\ M \in Seq(UINT_RANGE) /\ Len(M) = 1 /\ M[1] = Y
      /\ Apart(M, 0) /\ Apart(M, 1) /\ Replaced(L, i, j, M, K)
  BY <1>2 DEF M
<1>6. ASSUME NEW g \in {0, 1}, Apart(L, g),
             \A k \in 1..i - 1 : L[k].end + g < Y.start,
             \A k \in j + 1..Len(L) : Y.end + g < L[k].start
      PROVE  Fits(L, i, j, M, g)
  <2>1. \A k \in 1..i - 1, m \in j + 1..Len(L) : L[k].end + g < L[m].start
    <3> TAKE k \in 1..i - 1, m \in j + 1..Len(L)
    <3>1. k \in 1..Len(L) /\ m \in 1..Len(L) /\ k < m
      BY <1>1
    <3> QED
      BY <1>6, <3>1 DEF Apart
  <2>2. g \in Nat
    BY <1>6
  <2> QED
    BY <1>1, <1>5, <1>6, <2>1, <2>2 DEF Fits
<1>7. /\ \A k \in 1..i - 1 : L[k].end + 0 < Y.start
      /\ \A k \in j + 1..Len(L) : Y.end + 0 < L[k].start
  BY <1>1, <1>3, <1>4
<1>8. Fits(L, i, j, M, 0)
  BY <1>1, <1>6, <1>7
<1>9. Apart(K, 0) /\ K \in Seq(UINT_RANGE)
  BY <1>5, <1>8, ReplacedIsApart DEF Replaced
<1>10. ASSUME NEW x
       PROVE  x \in Elems(K) <=> x \in Elems(L) \/ (x \in Nat /\ InRange(x, r))
  <2>1. x \in Elems(K) <=>
          /\ x \in Nat
          /\ \/ \E k \in (1..i - 1) \cup (j + 1..Len(L)) : InRange(x, L[k])
             \/ \E k \in 1..Len(M) : InRange(x, M[k])
    BY <1>5, <1>8, ReplacedElems
  <2>2. (\E k \in 1..Len(M) : InRange(x, M[k])) <=> InRange(x, Y)
    BY <1>5
  <2>3. 1..Len(L) = (1..i - 1) \cup (i..j) \cup (j + 1..Len(L))
    BY <1>1
  <2>4. x \in Elems(L) <=> x \in Nat /\ \E k \in 1..Len(L) : InRange(x, L[k])
    BY <1>1, ElemsIs
  <2> QED
    BY <2>1, <2>2, <2>3, <2>4
<1>11. ASSUME Apart(L, 1), \A x \in Nat : ~(InRange(x, r) /\ x \in Elems(L))
       PROVE  Apart(K, 1)
  <2>1. ~\E k \in i..j : \E x \in Nat : InRange(x, L[k]) /\ InRange(x, r)
    <3> SUFFICES ASSUME NEW k \in i..j, NEW x \in Nat, InRange(x, L[k]),
                        InRange(x, r)
                 PROVE  FALSE
      OBVIOUS
    <3>1. k \in 1..Len(L)
      BY <1>1
    <3>2. x \in Elems(L)
      BY <1>1, <3>1, ElemsIs
    <3> QED
      BY <1>11, <3>2
  <2>2. Fits(L, i, j, M, 1)
    BY <1>6, <1>11, <2>1
  <2> QED
    BY <1>5, <2>2, ReplacedIsApart
<1> QED
  BY <1>9, <1>10, <1>11 DEF Inserted


\* What a list in order says of its ranges.
LEMMA ListIs ==
    ASSUME NEW L, List(L)
    PROVE  /\ L \in Seq(UINT_RANGE) /\ Len(L) \in Nat
           /\ \A k \in 1..Len(L) :
                 /\ L[k] \in UINT_RANGE
                 /\ L[k].start \in Nat /\ L[k].end \in Nat
                 /\ L[k].start \in U64 /\ L[k].end \in U64
                 /\ L[k].start <= L[k].end /\ L[k].end <= MaxUint
           /\ \A k, m \in 1..Len(L) : k < m => L[k].end < L[m].start
<1>1. L \in Seq(UINT_RANGE) /\ Len(L) \in Nat /\ Apart(L, 0)
  BY DEF List
<1>2. \A k \in 1..Len(L) : L[k] \in UINT_RANGE
  BY <1>1
<1>3. \A k \in 1..Len(L) :
        /\ L[k].start \in Nat /\ L[k].end \in Nat
        /\ L[k].start \in U64 /\ L[k].end \in U64
        /\ L[k].start <= L[k].end /\ L[k].end <= MaxUint
  BY <1>2, RangeIs
<1>4. ASSUME NEW k \in 1..Len(L), NEW m \in 1..Len(L), k < m
      PROVE  L[k].end < L[m].start
  <2>1. L[k].end + 0 < L[m].start
    BY <1>1, <1>4 DEF Apart
  <2> QED
    BY <1>3, <2>1
<1> QED
  BY <1>1, <1>2, <1>3, <1>4

\* Inserting into the empty list.
LEMMA InsertedIntoNothing ==
    ASSUME NEW r \in UINT_RANGE
    PROVE  Inserted(<<>>, r, <<r>>)
<1>1. <<>> \in Seq(UINT_RANGE) /\ Len(<<>>) = 0
  OBVIOUS
<1>2. \A x : x \notin Elems(<<>>)
  <2> TAKE x
  <2>1. x \in Elems(<<>>) <=>
          x \in Nat /\ \E i \in 1..Len(<<>>) : InRange(x, <<>>[i])
    BY <1>1, ElemsIs
  <2> QED
    BY <1>1, <2>1
<1>3. /\ <<r>> \in Seq(UINT_RANGE) /\ Apart(<<r>>, 0) /\ Apart(<<r>>, 1)
      /\ \A x : x \in Elems(<<r>>) <=> x \in Nat /\ InRange(x, r)
  BY OneRange
<1> QED
  BY <1>2, <1>3 DEF Inserted

\* A range that covers the whole list takes its place.
LEMMA InsertedOverAll ==
    ASSUME NEW L, List(L), Len(L) >= 1, NEW r \in UINT_RANGE,
           r.start <= L[1].start, r.end >= L[Len(L)].end
    PROVE  Inserted(L, r, <<r>>)
<1> DEFINE n == Len(L)
<1>1. /\ L \in Seq(UINT_RANGE) /\ n \in Nat /\ 1 \in 1..n /\ n \in 1..n
      /\ \A k \in 1..n : /\ L[k].start \in Nat /\ L[k].end \in Nat
                         /\ L[k].start <= L[k].end
      /\ \A k, m \in 1..n : k < m => L[k].end < L[m].start
  BY ListIs
<1>2. r.start \in Nat /\ r.end \in Nat /\ r.start <= r.end
  BY RangeIs
<1>3. /\ <<r>> \in Seq(UINT_RANGE) /\ Len(<<r>>) = 1 /\ <<r>>[1] = r
  BY OneRange
<1> DEFINE M == <<r>>
<1>4. M \in Seq(UINT_RANGE) /\ Len(M) = 1 /\ M[1] = r
  BY <1>3
<1> HIDE DEF M
<1>5. Replaced(L, 1, n, M, M)
  BY <1>1, <1>4 DEF Replaced
<1>6. \A k \in 1..n : r.start <= L[k].start /\ L[k].end <= r.end
  <2> TAKE k \in 1..n
  <2>1. k = 1 \/ L[1].end < L[k].start
    BY <1>1
  <2>2. k = n \/ L[k].end < L[n].start
    BY <1>1
  <2> QED
    BY <1>1, <1>2, <2>1, <2>2
<1>7. \A x \in Nat : InRange(x, r) <=>
        InRange(x, r) \/ \E k \in 1..n : InRange(x, L[k])
  BY <1>1, <1>2, <1>6 DEF InRange
<1>8. \E k \in 1..n : \E x \in Nat : InRange(x, L[k]) /\ InRange(x, r)
  <2>1. InRange(L[1].start, L[1]) /\ InRange(L[1].start, r)
    BY <1>1, <1>2, <1>6 DEF InRange
  <2> QED
    BY <1>1, <2>1
<1>9. 1 \in 1..Len(L) + 1 /\ Len(L) \in 1 - 1..Len(L)
  BY <1>1
<1>10. /\ \A k \in 1..1 - 1 : L[k].end < r.start
       /\ \A k \in n + 1..Len(L) : r.end < L[k].start
  BY <1>1
<1>11. Replaced(L, 1, n, <<r>>, <<r>>)
  BY <1>5 DEF M
<1> QED
  BY <1>7, <1>8, <1>9, <1>10, <1>11, Merged

\* Assigning to one element replaces it.
LEMMA OneReplaced ==
    ASSUME NEW L \in Seq(UINT_RANGE), NEW z \in 1..Len(L), NEW Y \in UINT_RANGE
    PROVE  Replaced(L, z, z, <<Y>>, [L EXCEPT ![z] = Y])
<1> DEFINE K == [L EXCEPT ![z] = Y]
           M == <<Y>>
<1>1. K \in Seq(UINT_RANGE) /\ Len(K) = Len(L) /\ Len(L) \in Nat
  OBVIOUS
<1>2. \A k \in 1..Len(L) : K[k] = IF k = z THEN Y ELSE L[k]
  OBVIOUS
<1>3. Len(M) = 1 /\ M[1] = Y
  OBVIOUS
<1> HIDE DEF K, M
<1>4. Len(K) = z - 1 + Len(M) + Len(L) - z
  BY <1>1, <1>3
<1>5. \A k \in 1..z - 1 : K[k] = L[k]
  BY <1>1, <1>2
<1>6. \A k \in 1..Len(M) : K[z - 1 + k] = M[k]
  <2> TAKE k \in 1..Len(M)
  <2>1. k = 1 /\ z - 1 + k = z
    BY <1>1, <1>3
  <2> QED
    BY <1>2, <1>3, <2>1
<1>7. \A k \in z + 1..Len(L) : K[k - z + z - 1 + Len(M)] = L[k]
  <2> TAKE k \in z + 1..Len(L)
  <2>1. k - z + z - 1 + Len(M) = k /\ k # z /\ k \in 1..Len(L)
    BY <1>1, <1>3
  <2> QED
    BY <1>2, <2>1
<1>8. Replaced(L, z, z, M, K)
  BY <1>1, <1>4, <1>5, <1>6, <1>7 DEF Replaced
<1> QED
  BY <1>8 DEF K, M

\* Moving one end of a range of the list.
LEMMA EndReplaced ==
    ASSUME NEW L \in Seq(UINT_RANGE), NEW z \in 1..Len(L), NEW v \in U64
    PROVE  /\ L[z].start <= v =>
                Replaced(L, z, z, <<Span(L[z].start, v)>>, [L EXCEPT ![z].end = v])
           /\ v <= L[z].end =>
                Replaced(L, z, z, <<Span(v, L[z].end)>>, [L EXCEPT ![z].start = v])
<1>1. L[z] \in UINT_RANGE
  OBVIOUS
<1>2. L[z].start \in U64 /\ L[z].end \in U64
  BY <1>1, RangeIs
<1>3. ASSUME L[z].start <= v
      PROVE  Replaced(L, z, z, <<Span(L[z].start, v)>>, [L EXCEPT ![z].end = v])
  <2> DEFINE Y == Span(L[z].start, v)
             K == [L EXCEPT ![z].end = v]
  <2>1. Y \in UINT_RANGE
    BY <1>2, <1>3, SpanIs
  <2>2. K = [L EXCEPT ![z] = Y]
    <3>1. L[z] \in [start : U64, end : U64]
      BY DEF UINT_RANGE
    <3>2. [L[z] EXCEPT !.end = v] = Y
      BY <3>1 DEF Span
    <3> QED
      BY <3>2
  <2> HIDE DEF Y, K
  <2>3. Replaced(L, z, z, <<Y>>, [L EXCEPT ![z] = Y])
    BY <2>1, OneReplaced
  <2>4. Replaced(L, z, z, <<Y>>, K)
    BY <2>2, <2>3
  <2> QED
    BY <2>4 DEF Y, K
<1>4. ASSUME v <= L[z].end
      PROVE  Replaced(L, z, z, <<Span(v, L[z].end)>>, [L EXCEPT ![z].start = v])
  <2> DEFINE Y == Span(v, L[z].end)
             K == [L EXCEPT ![z].start = v]
  <2>1. Y \in UINT_RANGE
    BY <1>2, <1>4, SpanIs
  <2>2. K = [L EXCEPT ![z] = Y]
    <3>1. L[z] \in [start : U64, end : U64]
      BY DEF UINT_RANGE
    <3>2. [L[z] EXCEPT !.start = v] = Y
      BY <3>1 DEF Span
    <3> QED
      BY <3>2
  <2> HIDE DEF Y, K
  <2>3. Replaced(L, z, z, <<Y>>, [L EXCEPT ![z] = Y])
    BY <2>1, OneReplaced
  <2>4. Replaced(L, z, z, <<Y>>, K)
    BY <2>2, <2>3
  <2> QED
    BY <2>4 DEF Y, K
<1> QED
  BY <1>3, <1>4

\* A range after the whole list extends the last one or is appended.
LEMMA InsertedAtTail ==
    ASSUME NEW L, List(L), Len(L) >= 1, NEW r \in UINT_RANGE,
           r.start > L[Len(L)].end
    PROVE  Inserted(L, r, InsertAtTail(L, r))
<1> DEFINE n == Len(L)
<1>1. /\ L \in Seq(UINT_RANGE) /\ n \in Nat /\ n \in 1..n /\ L[n] \in UINT_RANGE
      /\ \A k \in 1..n : /\ L[k].start \in Nat /\ L[k].end \in Nat
                         /\ L[k].start \in U64 /\ L[k].end \in U64
                         /\ L[k].start <= L[k].end
      /\ \A k, m \in 1..n : k < m => L[k].end < L[m].start
  BY ListIs
<1>2. /\ r.start \in Nat /\ r.end \in Nat /\ r.start <= r.end
      /\ r.start <= MaxUint /\ r.end \in U64
  BY RangeIs
<1>3. Inc(L[n].end) = L[n].end + 1
  <2>1. L[n].end < MaxUint
    BY <1>1, <1>2, MaxUintAssumption
  <2> QED
    BY <1>1, <2>1, NoWrap
<1>4. \A k \in 1..n : L[k].end <= L[n].end
  <2> TAKE k \in 1..n
  <2>1. k = n \/ L[k].end < L[n].start
    BY <1>1
  <2> QED
    BY <1>1, <2>1
<1>5. CASE Inc(L[n].end) = r.start
  <2> DEFINE Y == Span(L[n].start, r.end)
             K == [L EXCEPT ![n].end = r.end]
  <2>1. InsertAtTail(L, r) = K
    BY <1>5 DEF InsertAtTail
  <2>0. L[n].start <= r.end
    BY <1>1, <1>2
  <2>2. Y \in UINT_RANGE /\ Y.start = L[n].start /\ Y.end = r.end
    BY <1>1, <1>2, <2>0, SpanIs
  <2>3. Replaced(L, n, n, <<Y>>, K)
    BY <1>1, <1>2, <2>0, EndReplaced
  <2> HIDE DEF Y, K
  <2>4. \A x \in Nat : InRange(x, Y) <=>
          InRange(x, r) \/ \E k \in n..n : InRange(x, L[k])
    <3> TAKE x \in Nat
    <3>1. (\E k \in n..n : InRange(x, L[k])) <=> InRange(x, L[n])
      BY <1>1
    <3> QED
      BY <1>1, <1>2, <1>3, <1>5, <2>2, <3>1 DEF InRange
  <2>5. n \in 1..Len(L) + 1 /\ n \in n - 1..Len(L)
    BY <1>1
  <2>6. \A k \in 1..n - 1 : L[k].end < Y.start
    BY <1>1, <2>2
  <2>7. \A k \in n + 1..Len(L) : Y.end < L[k].start /\ Y.end + 1 < L[k].start
    BY <1>1
  \* The gap before the last range is the one it had.
  <2>8. Apart(L, 1) => \A k \in 1..n - 1 : L[k].end + 1 < Y.start
    BY <1>1, <2>2 DEF Apart
  <2> QED
    BY <1>1, <2>1, <2>2, <2>3, <2>4, <2>5, <2>6, <2>7, <2>8, Merged
<1>6. CASE Inc(L[n].end) # r.start
  <2> DEFINE K == Append(L, r)
             M == <<r>>
  <2>1. InsertAtTail(L, r) = K
    BY <1>6 DEF InsertAtTail
  <2>2. /\ K \in Seq(UINT_RANGE) /\ Len(K) = n + 1 /\ K[n + 1] = r
        /\ \A k \in 1..n : K[k] = L[k]
    BY <1>1
  <2>3. Len(M) = 1 /\ M[1] = r
    OBVIOUS
  <2> HIDE DEF K, M
  <2>4. Replaced(L, n + 1, n, M, K)
    BY <1>1, <2>2, <2>3 DEF Replaced
  <2>5. Replaced(L, n + 1, n, <<r>>, K)
    BY <2>4 DEF M
  <2>6. \A x \in Nat : InRange(x, r) <=>
          InRange(x, r) \/ \E k \in n + 1..n : InRange(x, L[k])
    BY <1>1
  <2>7. n + 1 \in 1..Len(L) + 1 /\ n \in (n + 1) - 1..Len(L)
    BY <1>1
  <2>8. /\ \A k \in 1..(n + 1) - 1 : L[k].end < r.start /\ L[k].end + 1 < r.start
        /\ \A k \in n + 1..Len(L) : r.end < L[k].start /\ r.end + 1 < L[k].start
    BY <1>1, <1>2, <1>3, <1>4, <1>6
  <2> QED
    BY <1>1, <2>1, <2>5, <2>6, <2>7, <2>8, Merged
<1> QED
  BY <1>5, <1>6


\* The largest of a bounded set of natural numbers is one of them.
LEMMA MaxIsLargest ==
    ASSUME NEW n \in Nat, NEW T \in SUBSET (0..n), T # {}
    PROVE  Max(T) \in T /\ \A x \in T : Max(T) >= x
<1>1. \E x \in T : \A y \in T : x >= y
  BY LargestElement
<1> QED
  BY <1>1 DEF Max

\* Two ranges overlap when neither ends before the other starts.
LEMMA OverlapIs ==
    ASSUME NEW a \in UINT_RANGE, NEW b \in UINT_RANGE
    PROVE  uint_range_overlaps(a, b) <=> a.start <= b.end /\ b.start <= a.end
<1>1. /\ a.start \in Int /\ a.end \in Int /\ b.start \in Int /\ b.end \in Int
      /\ a.start <= a.end /\ b.start <= b.end
  BY RangeIs
<1>2. /\ Min({a.end, b.end}) \in {a.end, b.end}
      /\ Min({a.end, b.end}) <= a.end /\ Min({a.end, b.end}) <= b.end
  BY <1>1, PairMaxMin
<1>3. /\ Max({a.start, b.start}) \in {a.start, b.start}
      /\ Max({a.start, b.start}) >= a.start /\ Max({a.start, b.start}) >= b.start
  BY <1>1, PairMaxMin
<1> QED
  BY <1>1, <1>2, <1>3 DEF uint_range_overlaps

\* The backward walk stops, and every range after the one it stops at lies
\* after r.
LEMMA WalkStops ==
    ASSUME NEW L, List(L), Len(L) >= 1, NEW r \in UINT_RANGE,
           r.start <= L[Len(L)].end,
           NEW from, from = (IF r.end < L[1].start THEN 1 ELSE Len(L)),
           NEW stops, stops = {z \in 1..from : StopsAt(L, r, z)}
    PROVE  /\ stops # {}
           /\ Max(stops) \in 1..Len(L)
           /\ StopsAt(L, r, Max(stops))
           /\ \A k \in Max(stops) + 1..Len(L) : r.end < L[k].start
<1> DEFINE n == Len(L)
<1>1. /\ L \in Seq(UINT_RANGE) /\ n \in Nat /\ n \in 1..n /\ 1 \in 1..n
      /\ \A k \in 1..n : /\ L[k].start \in Nat /\ L[k].end \in Nat
                         /\ L[k].start <= L[k].end /\ L[k] \in UINT_RANGE
      /\ \A k, m \in 1..n : k < m => L[k].end < L[m].start
  BY ListIs
<1>2. r.start \in Nat /\ r.end \in Nat /\ r.start <= r.end
  BY RangeIs
<1>3. \A k \in 1..n :
        uint_range_overlaps(L[k], r) <=> L[k].start <= r.end /\ r.start <= L[k].end
  BY <1>1, OverlapIs
<1> HIDE DEF n
<1>4. from \in 1..n
  BY <1>1 DEF n
<1>5. stops # {}
  <2>1. CASE r.end < L[1].start
    <3>1. StopsAt(L, r, 1)
      BY <2>1 DEF StopsAt, LiesBetween
    <3> QED
      BY <1>4, <3>1
  <2>2. CASE ~(r.end < L[1].start)
    <3> DEFINE T == {k \in 1..n : r.start <= L[k].end}
    <3>1. T \in SUBSET Nat /\ T # {}
      <4>1. n \in T
        BY <1>1 DEF n
      <4> QED
        BY <4>1
    <3>2. PICK z \in T : \A y \in T : z <= y
      BY <3>1, LeastElement
    <3>3. z \in 1..n /\ r.start <= L[z].end
      BY <3>2
    <3>4. z = 1 \/ r.start > L[z - 1].end
      <4>1. CASE z # 1
        <5>1. z - 1 \in 1..n /\ z - 1 < z
          BY <1>1, <3>3, <4>1
        <5>2. z - 1 \notin T
          BY <3>2, <3>3, <5>1
        <5> QED
          BY <1>1, <1>2, <5>1, <5>2
      <4> QED
        BY <4>1
    <3>5. StopsAt(L, r, z)
      <4>1. CASE r.end < L[z].start
        BY <3>4, <4>1 DEF StopsAt, LiesBetween
      <4>2. CASE ~(r.end < L[z].start)
        BY <1>1, <1>2, <1>3, <3>3, <4>2 DEF StopsAt
      <4> QED
        BY <4>1, <4>2
    <3>6. from = n
      BY <2>2 DEF n
    <3> QED
      BY <3>3, <3>5, <3>6
  <2> QED
    BY <2>1, <2>2
<1> DEFINE z == Max(stops)
<1>6. z \in stops /\ \A y \in stops : z >= y
  <2>1. stops \in SUBSET (0..n)
    BY <1>1, <1>4
  <2> QED
    BY <1>1, <1>5, <2>1, MaxIsLargest
<1> HIDE DEF z
<1>7. z \in 1..n /\ StopsAt(L, r, z)
  BY <1>1, <1>4, <1>6
<1>8. ASSUME NEW k \in z + 1..n PROVE r.end < L[k].start
  <2>1. k \in 1..n /\ z < k /\ L[z].end < L[k].start
    BY <1>1, <1>7
  <2>2. CASE r.end < L[1].start
    <3>1. k = 1 \/ L[1].end < L[k].start
      BY <1>1, <2>1
    <3> QED
      BY <1>1, <1>2, <2>1, <2>2, <3>1
  <2>3. CASE ~(r.end < L[1].start)
    <3>1. from = n
      BY <2>3 DEF n
    <3>2. k \notin stops
      BY <1>1, <1>6, <1>7, <2>1
    <3>3. ~StopsAt(L, r, k)
      BY <2>1, <3>1, <3>2
    <3>4. ~(L[k].start <= r.end /\ r.start <= L[k].end)
      BY <1>3, <2>1, <3>3 DEF StopsAt
    <3>5. r.start <= L[z].end \/ r.end < L[z].start
      BY <1>1, <1>2, <1>3, <1>7 DEF StopsAt, Covers, LiesBetween
    <3> QED
      BY <1>1, <1>2, <1>7, <2>1, <3>4, <3>5
  <2> QED
    BY <2>2, <2>3
<1> QED
  BY <1>5, <1>7, <1>8 DEF n, z

\* r and the ranges it overlaps become one.
LEMMA InsertedOverlap ==
    ASSUME NEW L, List(L), NEW r \in UINT_RANGE, NEW z \in 1..Len(L),
           uint_range_overlaps(L[z], r),
           \A k \in z + 1..Len(L) : r.end < L[k].start
    PROVE  Inserted(L, r, InsertOverlap(L, r, z))
<1> DEFINE n == Len(L)
<1>1. /\ L \in Seq(UINT_RANGE) /\ n \in Nat
      /\ \A k \in 1..n : /\ L[k].start \in Nat /\ L[k].end \in Nat
                         /\ L[k].start \in U64 /\ L[k].end \in U64
                         /\ L[k].start <= L[k].end /\ L[k] \in UINT_RANGE
      /\ \A k, m \in 1..n : k < m => L[k].end < L[m].start
  BY ListIs
<1>2. /\ r.start \in Nat /\ r.end \in Nat /\ r.start <= r.end
      /\ r.start \in U64 /\ r.end \in U64
  BY RangeIs
<1>3. \A k \in 1..n :
        uint_range_overlaps(L[k], r) <=> L[k].start <= r.end /\ r.start <= L[k].end
  BY <1>1, OverlapIs
<1> DEFINE T == {j \in 1..z : \A k \in j..z : uint_range_overlaps(L[k], r)}
           i == Min(T)
           a == Min({r.start, L[i].start})
           b == Max({r.end, L[z].end})
           Y == Span(a, b)
<1>4. InsertOverlap(L, r, z) = Splice(L, i, z, <<Y>>)
  BY DEF InsertOverlap
<1>5. i \in T /\ \A j \in T : i <= j
  <2>1. z \in T
    BY <1>1
  <2>2. T \in SUBSET Nat /\ T # {}
    BY <2>1
  <2> QED
    BY <2>2, MinIsLeast
<1> HIDE DEF i
<1>6. /\ i \in 1..z /\ i \in 1..n /\ z \in 1..n
      /\ \A k \in i..z : uint_range_overlaps(L[k], r)
  BY <1>1, <1>5
<1>7. i > 1 => ~uint_range_overlaps(L[i - 1], r)
  <2> SUFFICES ASSUME i > 1, uint_range_overlaps(L[i - 1], r) PROVE FALSE
    OBVIOUS
  <2>1. i - 1 \in 1..z /\ i - 1 < i
    BY <1>1, <1>6
  <2>2. \A k \in i - 1..z : k = i - 1 \/ k \in i..z
    BY <1>6
  <2>3. i - 1 \in T
    BY <1>6, <2>1, <2>2
  <2> QED
    BY <1>5, <1>6, <2>1, <2>3
<1> HIDE DEF T, n
<1>8. /\ L[i].start <= r.end /\ r.start <= L[i].end
      /\ L[z].start <= r.end /\ r.start <= L[z].end
  BY <1>3, <1>6
<1>9. \A k \in 1..i - 1 : L[k].end < r.start /\ L[k].end < L[i].start
  <2> TAKE k \in 1..i - 1
  <2>1. k \in 1..n /\ i - 1 \in 1..n /\ k < i /\ i - 1 < i /\ i > 1
    BY <1>1, <1>6
  <2>2. L[k].end < L[i].start /\ L[i - 1].end < L[i].start
    BY <1>1, <1>6, <2>1
  <2>3. L[i - 1].end < r.start
    <3>1. ~(L[i - 1].start <= r.end /\ r.start <= L[i - 1].end)
      BY <1>3, <1>7, <2>1
    <3>2. /\ L[i - 1].start \in Nat /\ L[i - 1].end \in Nat /\ L[i].start \in Nat
          /\ L[i - 1].start <= L[i - 1].end
      BY <1>1, <1>6, <2>1
    <3> QED
      BY <1>2, <1>8, <2>2, <3>1, <3>2
  <2>4. k = i - 1 \/ L[k].end < L[i - 1].start
    BY <1>1, <2>1
  <2> QED
    BY <1>1, <1>2, <1>6, <2>1, <2>2, <2>3, <2>4
<1>10. \A k \in i..z : /\ k \in 1..n
                       /\ L[i].start <= L[k].start /\ L[k].end <= L[z].end
  <2> TAKE k \in i..z
  <2>1. k \in 1..n
    BY <1>1, <1>6
  <2>2. (k = i \/ L[i].end < L[k].start) /\ (k = z \/ L[k].end < L[z].start)
    BY <1>1, <1>6, <2>1
  <2> QED
    BY <1>1, <1>6, <2>1, <2>2
<1>11. /\ a \in {r.start, L[i].start} /\ a <= r.start /\ a <= L[i].start
       /\ b \in {r.end, L[z].end} /\ b >= r.end /\ b >= L[z].end
  <2>1. r.start \in Int /\ L[i].start \in Int /\ r.end \in Int /\ L[z].end \in Int
    BY <1>1, <1>2, <1>6
  <2> QED
    BY <2>1, PairMaxMin
<1> HIDE DEF a, b
<1>12. a \in U64 /\ b \in U64 /\ a \in Nat /\ b \in Nat /\ a <= b
  BY <1>1, <1>2, <1>6, <1>11
<1>13. Y \in UINT_RANGE /\ Y.start = a /\ Y.end = b
  BY <1>12, SpanIs
<1> HIDE DEF Y
<1>14. Replaced(L, i, z, <<Y>>, Splice(L, i, z, <<Y>>))
  <2>1. <<Y>> \in Seq(UINT_RANGE)
    BY <1>13
  <2>2. i \in 1..Len(L) + 1 /\ z \in i - 1..Len(L)
    BY <1>1, <1>6 DEF n
  <2> QED
    BY <1>1, <2>1, <2>2, SpliceIs
<1>15. \A x \in Nat : InRange(x, Y) <=>
         InRange(x, r) \/ \E k \in i..z : InRange(x, L[k])
  <2> TAKE x \in Nat
  <2>1. ASSUME InRange(x, Y), ~InRange(x, r)
        PROVE  \E k \in i..z : InRange(x, L[k])
    <3>1. a <= x /\ x <= b
      BY <1>13, <2>1 DEF InRange
    <3>2. CASE x < r.start
      <4>1. InRange(x, L[i])
        BY <1>1, <1>2, <1>6, <1>8, <1>11, <3>1, <3>2 DEF InRange
      <4> QED
        BY <1>6, <4>1
    <3>3. CASE r.end < x
      <4>1. InRange(x, L[z])
        BY <1>1, <1>2, <1>6, <1>8, <1>11, <3>1, <3>3 DEF InRange
      <4> QED
        BY <1>6, <4>1
    <3> QED
      BY <1>2, <2>1, <3>2, <3>3 DEF InRange
  <2>2. ASSUME InRange(x, r) PROVE InRange(x, Y)
    BY <1>2, <1>11, <1>12, <1>13, <2>2 DEF InRange
  <2>3. ASSUME NEW k \in i..z, InRange(x, L[k]) PROVE InRange(x, Y)
    BY <1>1, <1>6, <1>10, <1>11, <1>12, <1>13, <2>3 DEF InRange
  <2> QED
    BY <2>1, <2>2, <2>3
<1>16. \E k \in i..z : \E x \in Nat : InRange(x, L[k]) /\ InRange(x, r)
  <2>1. z \in i..z
    BY <1>6
  <2>2. CASE r.start <= L[z].start
    <3>1. InRange(L[z].start, L[z]) /\ InRange(L[z].start, r)
      BY <1>1, <1>2, <1>6, <1>8, <2>2 DEF InRange
    <3> QED
      BY <1>1, <1>6, <2>1, <3>1
  <2>3. CASE ~(r.start <= L[z].start)
    <3>1. InRange(r.start, L[z]) /\ InRange(r.start, r)
      BY <1>1, <1>2, <1>6, <1>8, <2>3 DEF InRange
    <3> QED
      BY <1>2, <2>1, <3>1
  <2> QED
    BY <2>2, <2>3
<1>17. i \in 1..Len(L) + 1 /\ z \in i - 1..Len(L)
  BY <1>1, <1>6 DEF n
<1>18. \A k \in 1..i - 1 : L[k].end < Y.start
  BY <1>9, <1>11, <1>13
<1>19. \A k \in z + 1..Len(L) : Y.end < L[k].start
  <2> TAKE k \in z + 1..Len(L)
  <2>1. k \in 1..n /\ z < k
    BY <1>1, <1>6 DEF n
  <2>2. L[z].end < L[k].start /\ r.end < L[k].start
    BY <1>1, <1>6, <2>1
  <2> QED
    BY <1>11, <1>13, <2>2
<1> DEFINE K == Splice(L, i, z, <<Y>>)
<1>20. Replaced(L, i, z, <<Y>>, K)
  BY <1>14
<1> HIDE DEF K
<1>21. Inserted(L, r, K)
  BY <1>13, <1>15, <1>16, <1>17, <1>18, <1>19, <1>20, Merged
<1> QED
  BY <1>4, <1>21 DEF K


\* Three ranges that border on one another are one range.
LEMMA ThreeInARow ==
    ASSUME NEW A \in UINT_RANGE, NEW r \in UINT_RANGE, NEW B \in UINT_RANGE,
           NEW Y \in UINT_RANGE, r.start = A.end + 1, B.start = r.end + 1,
           Y.start = A.start, Y.end = B.end, NEW x \in Nat
    PROVE  InRange(x, Y) <=> InRange(x, r) \/ InRange(x, A) \/ InRange(x, B)
<1>1. /\ A.start \in Nat /\ A.end \in Nat /\ A.start <= A.end
      /\ B.start \in Nat /\ B.end \in Nat /\ B.start <= B.end
      /\ r.start \in Nat /\ r.end \in Nat /\ r.start <= r.end
  BY RangeIs
<1>2. ASSUME InRange(x, Y)
      PROVE  InRange(x, r) \/ InRange(x, A) \/ InRange(x, B)
  BY <1>1, <1>2 DEF InRange
<1>3. ASSUME InRange(x, r) \/ InRange(x, A) \/ InRange(x, B)
      PROVE  InRange(x, Y)
  <2>1. CASE InRange(x, r)
    BY <1>1, <2>1 DEF InRange
  <2>2. CASE InRange(x, A)
    BY <1>1, <2>2 DEF InRange
  <2>3. CASE InRange(x, B)
    BY <1>1, <2>3 DEF InRange
  <2> QED
    BY <1>3, <2>1, <2>2, <2>3
<1> QED
  BY <1>2, <1>3

\* r borders on the range after it.
LEMMA InsertedBefore ==
    ASSUME NEW L, List(L), NEW r \in UINT_RANGE, NEW z \in 1..Len(L),
           LiesBetween(L, r, z), L[z].start = Inc(r.end)
    PROVE  Inserted(L, r,
             uint_set_merge_adjacent([L EXCEPT ![z].start = r.start], z))
<1> DEFINE n == Len(L)
<1>1. /\ L \in Seq(UINT_RANGE) /\ n \in Nat
      /\ \A k \in 1..n : /\ L[k].start \in Nat /\ L[k].end \in Nat
                         /\ L[k].start \in U64 /\ L[k].end \in U64
                         /\ L[k].start <= L[k].end /\ L[k].end <= MaxUint
      /\ \A k, m \in 1..n : k < m => L[k].end < L[m].start
  BY ListIs
<1>2. /\ r.start \in Nat /\ r.end \in Nat /\ r.start <= r.end
      /\ r.start \in U64 /\ r.end \in U64
  BY RangeIs
<1>3. r.end < L[z].start /\ (z = 1 \/ r.start > L[z - 1].end)
  BY DEF LiesBetween
<1>4. L[z].start = r.end + 1
  <2>1. r.end < MaxUint
    BY <1>1, <1>2, <1>3, MaxUintAssumption
  <2> QED
    BY <1>2, <2>1, NoWrap
<1>5. r.start <= L[z].end
  BY <1>1, <1>2, <1>3
<1> DEFINE Z == Span(r.start, L[z].end)
           L1 == [L EXCEPT ![z].start = r.start]
<1>6. Z \in UINT_RANGE /\ Z.start = r.start /\ Z.end = L[z].end
  BY <1>1, <1>2, <1>5, SpanIs
<1>7. Replaced(L, z, z, <<Z>>, L1)
  BY <1>1, <1>2, <1>5, EndReplaced
<1> HIDE DEF Z, L1, n
<1>8. /\ L1 \in Seq(UINT_RANGE) /\ Len(L1) = n /\ L1[z] = Z
      /\ \A k \in 1..n : k # z => L1[k] = L[k]
  <2> DEFINE M == <<Z>>
  <2>1. Len(M) = 1 /\ M[1] = Z
    OBVIOUS
  <2> HIDE DEF M
  <2>2. Replaced(L, z, z, M, L1)
    BY <1>7 DEF M
  <2>3. L1 \in Seq(UINT_RANGE) /\ Len(L1) = n
    BY <1>1, <2>1, <2>2 DEF Replaced, n
  <2>4. L1[z - 1 + 1] = Z
    BY <2>1, <2>2 DEF Replaced
  <2>5. z - 1 + 1 = z
    BY <1>1
  <2>6. ASSUME NEW k \in 1..n, k # z PROVE L1[k] = L[k]
    <3>1. CASE k < z
      BY <1>1, <2>2, <3>1 DEF Replaced
    <3>2. CASE k > z
      <4>1. L1[k - z + z - 1 + Len(M)] = L[k]
        BY <1>1, <2>2, <3>2 DEF Replaced, n
      <4>2. k - z + z - 1 + Len(M) = k
        BY <2>1
      <4> QED
        BY <4>1, <4>2
    <3> QED
      BY <2>6, <3>1, <3>2
  <2> QED
    BY <2>3, <2>4, <2>5, <2>6
<1>9. \A k \in 1..z - 1 : /\ k \in 1..n /\ z - 1 \in 1..n /\ z > 1
                          /\ L[k].end <= L[z - 1].end /\ L[k].end < L[z].start
  <2> TAKE k \in 1..z - 1
  <2>1. k \in 1..n /\ z - 1 \in 1..n /\ z \in 1..n /\ z > 1 /\ k < z
    BY <1>1 DEF n
  <2>2. k = z - 1 \/ L[k].end < L[z - 1].start
    BY <1>1, <2>1
  <2> QED
    BY <1>1, <2>1, <2>2
<1>10. \A k \in z + 1..n : k \in 1..n /\ L[z].end < L[k].start
  BY <1>1 DEF n
<1>11. z \in 1..n
  BY DEF n
<1>12. CASE z = 1 \/ Dec(L1[z].start) # L1[z - 1].end
  <2>1. uint_set_merge_adjacent(L1, z) = L1
    BY <1>12 DEF uint_set_merge_adjacent
  <2>2. \A k \in 1..z - 1 : L[k].end < Z.start /\ L[k].end + 1 < Z.start
    <3> TAKE k \in 1..z - 1
    <3>1. z > 1 /\ z - 1 \in 1..n /\ L1[z - 1] = L[z - 1]
      BY <1>1, <1>8, <1>9
    <3>2. r.start > 0 /\ L[z - 1].end < r.start
      BY <1>1, <1>2, <1>3, <3>1
    <3>3. Dec(r.start) = r.start - 1
      BY <1>2, <3>2, NoWrap
    <3>4. r.start - 1 # L[z - 1].end
      BY <1>6, <1>8, <1>12, <3>1, <3>3
    <3> QED
      BY <1>1, <1>2, <1>6, <1>9, <3>1, <3>2, <3>4
  <2>3. \A k \in z + 1..Len(L) : Z.end < L[k].start
    BY <1>6, <1>10 DEF n
  <2>4. Apart(L, 1) => \A k \in z + 1..Len(L) : Z.end + 1 < L[k].start
    BY <1>1, <1>6, <1>11 DEF Apart, n
  <2>5. \A x \in Nat : InRange(x, Z) <=>
          InRange(x, r) \/ \E k \in z..z : InRange(x, L[k])
    <3> TAKE x \in Nat
    <3>1. (\E k \in z..z : InRange(x, L[k])) <=> InRange(x, L[z])
      BY <1>11
    <3> QED
      BY <1>1, <1>2, <1>4, <1>6, <1>11, <3>1 DEF InRange
  <2>6. z \in 1..Len(L) + 1 /\ z \in z - 1..Len(L)
    BY <1>1, <1>11 DEF n
  <2>7. Inserted(L, r, L1)
    BY <1>6, <1>7, <2>2, <2>3, <2>4, <2>5, <2>6, Merged
  <2> QED
    BY <2>1, <2>7 DEF L1
<1>13. CASE ~(z = 1 \/ Dec(L1[z].start) # L1[z - 1].end)
  <2> DEFINE p == z - 1
             Y == Span(L[p].start, L[z].end)
  <2>1. p \in 1..n /\ p < z /\ p + 1 = z /\ L1[p] = L[p]
    BY <1>8, <1>11, <1>13
  <2>2. r.start > 0 /\ L[p].end < r.start /\ p \in 1..p
    BY <1>1, <1>2, <1>3, <1>13, <2>1
  <2>3. r.start = L[p].end + 1
    <3>1. Dec(r.start) = r.start - 1
      BY <1>2, <2>2, NoWrap
    <3> QED
      BY <1>1, <1>2, <1>6, <1>8, <1>13, <2>1, <3>1
  <2>4. Y \in UINT_RANGE /\ Y.start = L[p].start /\ Y.end = L[z].end
    <3>1. L[p].start <= L[z].end
      BY <1>1, <1>11, <2>1
    <3> QED
      BY <1>1, <1>11, <2>1, <3>1, SpanIs
  <2> DEFINE K == Splice(L1, p, z, <<Y>>)
  <2>5. uint_set_merge_adjacent(L1, z) = K
    BY <1>6, <1>8, <1>13, <2>1 DEF uint_set_merge_adjacent
  <2> HIDE DEF Y, p
  <2>6. Replaced(L, p, z, <<Y>>, K)
    <3> DEFINE M == <<Y>>
    <3>1. M \in Seq(UINT_RANGE) /\ Len(M) = 1
      BY <2>4
    <3>2. p \in 1..Len(L1) + 1 /\ z \in p - 1..Len(L1)
      BY <1>1, <1>8, <1>11, <2>1
    <3> HIDE DEF M
    <3>3. Replaced(L1, p, z, M, Splice(L1, p, z, M))
      BY <1>8, <3>1, <3>2, SpliceIs
    <3>4. Replaced(L1, p, z, M, K)
      BY <3>3 DEF M
    <3> HIDE DEF K
    <3>5. /\ \A k \in 1..p - 1 : L1[k] = L[k]
          /\ \A k \in z + 1..n : L1[k] = L[k]
      BY <1>1, <1>8, <1>11, <2>1
    <3>6. Replaced(L, p, z, M, K)
      BY <1>8, <3>4, <3>5 DEF Replaced, n
    <3> QED
      BY <3>6 DEF M
  <2> HIDE DEF K
  <2>7. /\ \A k \in 1..p - 1 : L[k].end < Y.start
        /\ \A k \in z + 1..Len(L) : Y.end < L[k].start
    <3>1. \A k \in 1..p - 1 : k \in 1..n /\ k < p
      BY <1>1, <2>1
    <3>2. \A k \in 1..p - 1 : L[k].end < L[p].start
      BY <1>1, <2>1, <3>1
    <3> QED
      BY <1>10, <2>4, <3>2 DEF n
  <2>8. ASSUME Apart(L, 1)
        PROVE  /\ \A k \in 1..p - 1 : L[k].end + 1 < Y.start
               /\ \A k \in z + 1..Len(L) : Y.end + 1 < L[k].start
    <3>1. /\ \A k \in 1..p - 1 : k \in 1..Len(L) /\ k < p
          /\ \A k \in z + 1..Len(L) : k \in 1..Len(L) /\ z < k
          /\ p \in 1..Len(L)
      BY <1>1, <1>11, <2>1 DEF n
    <3>2. \A k \in 1..p - 1 : L[k].end + 1 < L[p].start
      BY <2>8, <3>1 DEF Apart
    <3>3. \A k \in z + 1..Len(L) : L[z].end + 1 < L[k].start
      BY <2>8, <3>1 DEF Apart
    <3> QED
      BY <2>4, <3>2, <3>3
  <2>9. \A x \in Nat : InRange(x, Y) <=>
          InRange(x, r) \/ \E k \in p..z : InRange(x, L[k])
    <3> TAKE x \in Nat
    <3>1. p..z = {p, z}
      BY <1>11, <2>1
    <3>2. (\E k \in p..z : InRange(x, L[k])) <=> InRange(x, L[p]) \/ InRange(x, L[z])
      BY <3>1
    <3>3. L[p] \in UINT_RANGE /\ L[z] \in UINT_RANGE
      BY <1>1, <1>11, <2>1 DEF n
    <3>4. InRange(x, Y) <=> InRange(x, r) \/ InRange(x, L[p]) \/ InRange(x, L[z])
      BY <1>4, <2>3, <2>4, <3>3, ThreeInARow
    <3> QED
      BY <3>2, <3>4
  <2>10. p \in 1..Len(L) + 1 /\ z \in p - 1..Len(L)
    BY <1>1, <1>11, <2>1 DEF n
  <2>11. Inserted(L, r, K)
    BY <2>4, <2>6, <2>7, <2>8, <2>9, <2>10, Merged
  <2> QED
    BY <2>5, <2>11 DEF L1
<1> QED
  BY <1>12, <1>13

\* r borders on the range before it only.
LEMMA InsertedAfter ==
    ASSUME NEW L, List(L), NEW r \in UINT_RANGE, NEW z \in 1..Len(L),
           LiesBetween(L, r, z), L[z].start # Inc(r.end),
           z > 1, Inc(L[z - 1].end) = r.start
    PROVE  Inserted(L, r,
             uint_set_merge_adjacent([L EXCEPT ![z - 1].end = r.end], z))
<1> DEFINE n == Len(L)
           p == z - 1
<1>1. /\ L \in Seq(UINT_RANGE) /\ n \in Nat
      /\ \A k \in 1..n : /\ L[k].start \in Nat /\ L[k].end \in Nat
                         /\ L[k].start \in U64 /\ L[k].end \in U64
                         /\ L[k].start <= L[k].end /\ L[k].end <= MaxUint
      /\ \A k, m \in 1..n : k < m => L[k].end < L[m].start
  BY ListIs
<1>2. /\ r.start \in Nat /\ r.end \in Nat /\ r.start <= r.end
      /\ r.start \in U64 /\ r.end \in U64 /\ r.start <= MaxUint
  BY RangeIs
<1>3. /\ z \in 1..n /\ p \in 1..n /\ p < z /\ p + 1 = z
      /\ r.end < L[z].start /\ r.start > L[p].end
  BY <1>1 DEF LiesBetween
<1>4. Inc(r.end) = r.end + 1
  <2>1. r.end < MaxUint
    BY <1>1, <1>2, <1>3, MaxUintAssumption
  <2> QED
    BY <1>2, <2>1, NoWrap
<1>5. r.start = L[p].end + 1
  <2>1. L[p].end < MaxUint
    BY <1>1, <1>2, <1>3, MaxUintAssumption
  <2> QED
    BY <1>1, <1>3, <2>1, NoWrap
<1>6. L[p].start <= r.end
  BY <1>1, <1>2, <1>3
<1> DEFINE Y == Span(L[p].start, r.end)
           K == [L EXCEPT ![p].end = r.end]
<1>7. Y \in UINT_RANGE /\ Y.start = L[p].start /\ Y.end = r.end
  BY <1>1, <1>2, <1>3, <1>6, SpanIs
<1>8. Replaced(L, p, p, <<Y>>, K)
  BY <1>1, <1>2, <1>3, <1>6, EndReplaced
<1>9. K[p].end = r.end /\ K[z] = L[z]
  <2>1. L[p] \in UINT_RANGE
    BY <1>1, <1>3
  <2>2. [L[p] EXCEPT !.end = r.end].end = r.end
    BY <2>1 DEF UINT_RANGE
  <2>3. p \in 1..Len(L) /\ z \in 1..Len(L) /\ p # z
    BY <1>1, <1>3
  <2> HIDE DEF p
  <2>4. K[p] = [L[p] EXCEPT !.end = r.end] /\ K[z] = L[z]
    BY <1>1, <2>3
  <2> QED
    BY <2>2, <2>4
<1>10. uint_set_merge_adjacent(K, z) = K
  <2>1. L[z].start > 0
    BY <1>1, <1>2, <1>3
  <2>2. Dec(L[z].start) = L[z].start - 1
    BY <1>1, <1>3, <2>1, NoWrap
  <2>3. Dec(K[z].start) # K[p].end
    BY <1>1, <1>2, <1>3, <1>4, <1>9, <2>2
  <2> HIDE DEF K
  <2>4. Dec(K[z].start) # K[z - 1].end
    BY <2>3
  <2> QED
    BY <2>4 DEF uint_set_merge_adjacent
<1> HIDE DEF Y, K, p, n
<1>11. /\ \A k \in 1..p - 1 : L[k].end < Y.start
       /\ Apart(L, 1) => \A k \in 1..p - 1 : L[k].end + 1 < Y.start
  BY <1>1, <1>3, <1>7 DEF Apart, n
<1>12. \A k \in p + 1..Len(L) : Y.end < L[k].start /\ Y.end + 1 < L[k].start
  <2> TAKE k \in p + 1..Len(L)
  <2>1. k \in 1..n /\ k >= z
    BY <1>1, <1>3 DEF n
  <2>2. k = z \/ L[z].end < L[k].start
    BY <1>1, <1>3, <2>1
  <2>3. r.end + 1 < L[z].start
    BY <1>1, <1>2, <1>3, <1>4
  <2> QED
    BY <1>1, <1>2, <1>3, <1>7, <2>1, <2>2, <2>3
<1>13. \A x \in Nat : InRange(x, Y) <=>
          InRange(x, r) \/ \E k \in p..p : InRange(x, L[k])
  <2> TAKE x \in Nat
  <2>1. (\E k \in p..p : InRange(x, L[k])) <=> InRange(x, L[p])
    BY <1>3
  <2> QED
    BY <1>1, <1>2, <1>3, <1>5, <1>7, <2>1 DEF InRange
<1>14. p \in 1..Len(L) + 1 /\ p \in p - 1..Len(L)
  BY <1>1, <1>3 DEF n
<1>15. Inserted(L, r, K)
  BY <1>7, <1>8, <1>11, <1>12, <1>13, <1>14, Merged
<1> QED
  BY <1>10, <1>15 DEF K, p

\* r borders on no range.
LEMMA InsertedAlone ==
    ASSUME NEW L, List(L), NEW r \in UINT_RANGE, NEW z \in 1..Len(L),
           LiesBetween(L, r, z), L[z].start # Inc(r.end),
           ~(z > 1 /\ Inc(L[z - 1].end) = r.start)
    PROVE  Inserted(L, r, Splice(L, z, z, <<r, L[z]>>))
<1> DEFINE n == Len(L)
           M == <<r, L[z]>>
           N == <<r>>
           K == Splice(L, z, z, M)
<1>1. /\ L \in Seq(UINT_RANGE) /\ n \in Nat
      /\ \A k \in 1..n : /\ L[k].start \in Nat /\ L[k].end \in Nat
                         /\ L[k].start \in U64 /\ L[k].end \in U64
                         /\ L[k].start <= L[k].end /\ L[k].end <= MaxUint
                         /\ L[k] \in UINT_RANGE
      /\ \A k, m \in 1..n : k < m => L[k].end < L[m].start
  BY ListIs
<1>2. /\ r.start \in Nat /\ r.end \in Nat /\ r.start <= r.end
      /\ r.start \in U64 /\ r.end \in U64 /\ r.start <= MaxUint
  BY RangeIs
<1>3. /\ z \in 1..n
      /\ r.end < L[z].start /\ (z = 1 \/ r.start > L[z - 1].end)
  BY DEF LiesBetween
<1>4. r.end + 1 < L[z].start
  <2>1. r.end < MaxUint
    BY <1>1, <1>2, <1>3, MaxUintAssumption
  <2>2. Inc(r.end) = r.end + 1
    BY <1>2, <2>1, NoWrap
  <2> QED
    BY <1>1, <1>2, <1>3, <2>2
<1>5. z > 1 => z - 1 \in 1..n /\ L[z - 1].end + 1 < r.start
  <2> SUFFICES ASSUME z > 1 PROVE z - 1 \in 1..n /\ L[z - 1].end + 1 < r.start
    OBVIOUS
  <2>1. z - 1 \in 1..n /\ L[z - 1].end < r.start
    BY <1>1, <1>2, <1>3
  <2>2. L[z - 1].end < MaxUint
    BY <1>1, <1>2, <2>1, MaxUintAssumption
  <2>3. Inc(L[z - 1].end) = L[z - 1].end + 1
    BY <1>1, <2>1, <2>2, NoWrap
  <2> QED
    BY <1>1, <1>2, <2>1, <2>3
<1>6. /\ M \in Seq(UINT_RANGE) /\ Len(M) = 2 /\ M[1] = r /\ M[2] = L[z]
      /\ N \in Seq(UINT_RANGE) /\ Len(N) = 1 /\ N[1] = r
  BY <1>1, <1>3
<1> HIDE DEF M, N
<1>7. Replaced(L, z, z, M, K)
  <2>1. z \in 1..Len(L) + 1 /\ z \in z - 1..Len(L)
    BY <1>1, <1>3
  <2> QED
    BY <1>1, <1>6, <2>1, SpliceIs
<1> HIDE DEF K, n
<1>8. Replaced(L, z, z - 1, N, K)
  <2>1. K \in Seq(UINT_RANGE) /\ Len(K) = n + 1
    BY <1>1, <1>3, <1>6, <1>7 DEF Replaced, n
  <2>2. K[z - 1 + 1] = r /\ K[z - 1 + 2] = L[z]
    BY <1>6, <1>7 DEF Replaced
  <2>3. \A k \in z - 1 + 1..Len(L) : K[k - (z - 1) + z - 1 + Len(N)] = L[k]
    <3> TAKE k \in z - 1 + 1..Len(L)
    <3>1. k - (z - 1) + z - 1 + Len(N) = k + 1 /\ z - 1 + 2 = z + 1 /\ k >= z
      BY <1>1, <1>3, <1>6 DEF n
    <3>2. CASE k = z
      BY <2>2, <3>1, <3>2
    <3>3. CASE k # z
      <4>1. k \in z + 1..Len(L) /\ k - z + z - 1 + Len(M) = k + 1
        BY <1>1, <1>3, <1>6, <3>1, <3>3 DEF n
      <4>2. K[k - z + z - 1 + Len(M)] = L[k]
        BY <1>7, <4>1 DEF Replaced
      <4> QED
        BY <3>1, <4>1, <4>2
    <3> QED
      BY <3>2, <3>3
  <2>4. Len(K) = z - 1 + Len(N) + Len(L) - (z - 1)
    BY <1>1, <1>3, <1>6, <2>1 DEF n
  <2>5. \A k \in 1..Len(N) : K[z - 1 + k] = N[k]
    <3> TAKE k \in 1..Len(N)
    <3>1. k = 1
      BY <1>6
    <3> QED
      BY <1>6, <2>2, <3>1
  <2>6. \A k \in 1..z - 1 : K[k] = L[k]
    BY <1>7 DEF Replaced
  <2> QED
    BY <2>1, <2>3, <2>4, <2>5, <2>6 DEF Replaced
<1>9. Replaced(L, z, z - 1, <<r>>, K)
  BY <1>8 DEF N
<1>10. \A k \in 1..z - 1 : L[k].end < r.start /\ L[k].end + 1 < r.start
  <2> TAKE k \in 1..z - 1
  <2>1. k \in 1..n /\ z > 1 /\ z - 1 \in 1..n
    BY <1>1, <1>3
  <2>2. k = z - 1 \/ L[k].end < L[z - 1].start
    BY <1>1, <2>1
  <2> QED
    BY <1>1, <1>2, <1>5, <2>1, <2>2
<1>11. \A k \in (z - 1) + 1..Len(L) : r.end < L[k].start /\ r.end + 1 < L[k].start
  <2> TAKE k \in (z - 1) + 1..Len(L)
  <2>1. k \in 1..n /\ k >= z
    BY <1>1, <1>3 DEF n
  <2>2. k = z \/ L[z].end < L[k].start
    BY <1>1, <1>3, <2>1
  <2> QED
    BY <1>1, <1>2, <1>3, <1>4, <2>1, <2>2
<1>12. z \in 1..Len(L) + 1 /\ z - 1 \in z - 1..Len(L)
  BY <1>1, <1>3 DEF n
<1>13. \A x \in Nat : InRange(x, r) <=>
         InRange(x, r) \/ \E k \in z..z - 1 : InRange(x, L[k])
  BY <1>3
<1>14. Inserted(L, r, K)
  BY <1>9, <1>10, <1>11, <1>12, <1>13, Merged
<1> QED
  BY <1>14 DEF K, M

\* ossl_uint_set_insert adds the integers of the range to the set.
LEMMA InsertKeeps ==
    ASSUME NEW L, List(L), NEW r \in UINT_RANGE
    PROVE  Inserted(L, r, ossl_uint_set_insert(L, r))
<1> DEFINE n == Len(L)
           K == ossl_uint_set_insert(L, r)
<1>1. L \in Seq(UINT_RANGE) /\ n \in Nat
  BY ListIs
<1>2. CASE L = <<>>
  <2>1. K = <<r>>
    BY <1>2 DEF ossl_uint_set_insert
  <2> QED
    BY <1>2, <2>1, InsertedIntoNothing
<1>3. CASE L # <<>>
  <2>1. n >= 1 /\ n \in 1..n /\ 1 \in 1..n
    BY <1>1, <1>3
  <2>2. L[n].end \in Nat /\ r.start \in Nat
    BY <2>1, ListIs, RangeIs
  <2>3. CASE r.start > L[n].end
    <3>1. K = InsertAtTail(L, r)
      BY <1>3, <2>3 DEF ossl_uint_set_insert
    <3> QED
      BY <2>1, <2>3, <3>1, InsertedAtTail
  <2>4. CASE ~(r.start > L[n].end) /\ r.start <= L[1].start /\ r.end >= L[n].end
    <3>1. K = <<r>>
      BY <1>3, <2>4 DEF ossl_uint_set_insert
    <3> QED
      BY <2>1, <2>4, <3>1, InsertedOverAll
  <2>5. CASE ~(r.start > L[n].end) /\ ~(r.start <= L[1].start /\ r.end >= L[n].end)
    <3> DEFINE from == IF r.end < L[1].start THEN 1 ELSE Len(L)
               stops == {z \in 1..from : StopsAt(L, r, z)}
               z == Max(stops)
    <3>1. K = IF stops = {} \/ Covers(L[z], r)
              THEN L
              ELSE IF uint_range_overlaps(L[z], r)
              THEN InsertOverlap(L, r, z)
              ELSE InsertBetween(L, r, z)
      BY <1>3, <2>5 DEF ossl_uint_set_insert, InsertWalk
    <3>2. /\ stops # {} /\ z \in 1..Len(L) /\ StopsAt(L, r, z)
          /\ \A k \in z + 1..Len(L) : r.end < L[k].start
      <4>1. /\ from = (IF r.end < L[1].start THEN 1 ELSE Len(L))
            /\ stops = {y \in 1..from : StopsAt(L, r, y)}
        OBVIOUS
      <4>2. r.start <= L[Len(L)].end /\ Len(L) >= 1
        BY <2>1, <2>2, <2>5
      <4> HIDE DEF from, stops
      <4> QED
        BY <4>1, <4>2, WalkStops
    <3> HIDE DEF K, stops, z
    <3>3. CASE Covers(L[z], r)
      <4>1. K = L
        BY <3>1, <3>3
      <4>2. ASSUME NEW x \in Nat, InRange(x, r) PROVE x \in Elems(L)
        <5>1. /\ L[z].start \in Nat /\ L[z].end \in Nat
              /\ r.start \in Nat /\ r.end \in Nat
          BY <3>2, ListIs, RangeIs
        <5>2. InRange(x, L[z])
          BY <3>3, <4>2, <5>1 DEF InRange, Covers
        <5> QED
          BY <1>1, <3>2, <5>2, ElemsIs
      <4> QED
        BY <1>1, <4>1, <4>2 DEF Inserted, List, K
    <3>4. CASE ~Covers(L[z], r) /\ uint_range_overlaps(L[z], r)
      <4>1. K = InsertOverlap(L, r, z)
        BY <3>1, <3>2, <3>4
      <4>2. Inserted(L, r, K)
        BY <3>2, <3>4, <4>1, InsertedOverlap
      <4> QED
        BY <4>2 DEF K
    <3>5. CASE ~Covers(L[z], r) /\ ~uint_range_overlaps(L[z], r)
      <4>1. K = InsertBetween(L, r, z) /\ LiesBetween(L, r, z)
        BY <3>1, <3>2, <3>5 DEF StopsAt
      <4>2. Inserted(L, r, K)
        <5>1. CASE L[z].start = Inc(r.end)
          BY <3>2, <4>1, <5>1, InsertedBefore DEF InsertBetween
        <5>2. CASE L[z].start # Inc(r.end) /\ z > 1 /\ Inc(L[z - 1].end) = r.start
          BY <3>2, <4>1, <5>2, InsertedAfter DEF InsertBetween
        <5>3. CASE /\ L[z].start # Inc(r.end)
                   /\ ~(z > 1 /\ Inc(L[z - 1].end) = r.start)
          BY <3>2, <4>1, <5>3, InsertedAlone DEF InsertBetween
        <5> QED
          BY <5>1, <5>2, <5>3
      <4> QED
        BY <4>2 DEF K
    <3> QED
      BY <3>3, <3>4, <3>5
  <2> QED
    BY <2>3, <2>4, <2>5
<1> QED
  BY <1>2, <1>3


(***************************************************************************)
(* UINT_SET: removal and query                                             *)
(***************************************************************************)

\* M is what is left of the range x without the integers of r.
LeftOf(M, x, r) ==
    /\ M \in Seq(UINT_RANGE) /\ Apart(M, 0) /\ Apart(M, 1)
    /\ \A m \in 1..Len(M) : x.start <= M[m].start /\ M[m].end <= x.end
    /\ \A y \in Nat : (\E m \in 1..Len(M) : InRange(y, M[m])) <=>
                      InRange(y, x) /\ ~InRange(y, r)

\* One range is left.
LEMMA OneLeft ==
    ASSUME NEW x \in UINT_RANGE, NEW r \in UINT_RANGE, NEW Y \in UINT_RANGE,
           x.start <= Y.start, Y.end <= x.end,
           \A y \in Nat : InRange(y, Y) <=> InRange(y, x) /\ ~InRange(y, r)
    PROVE  LeftOf(<<Y>>, x, r)
<1> DEFINE M == <<Y>>
<1>1. /\ M \in Seq(UINT_RANGE) /\ Len(M) = 1 /\ M[1] = Y
      /\ Apart(M, 0) /\ Apart(M, 1)
  BY OneRange
<1> HIDE DEF M
<1>2. \A y \in Nat : (\E m \in 1..Len(M) : InRange(y, M[m])) <=> InRange(y, Y)
  BY <1>1
<1>3. LeftOf(M, x, r)
  BY <1>1, <1>2 DEF LeftOf
<1> QED
  BY <1>3 DEF M

\* The range is cut in two.
LEMMA TwoLeft ==
    ASSUME NEW x \in UINT_RANGE, NEW r \in UINT_RANGE,
           NEW Y \in UINT_RANGE, NEW Z \in UINT_RANGE,
           x.start = Y.start, Y.end + 1 = r.start,
           r.end + 1 = Z.start, Z.end = x.end
    PROVE  LeftOf(<<Y, Z>>, x, r)
<1> DEFINE M == <<Y, Z>>
<1>1. M \in Seq(UINT_RANGE) /\ Len(M) = 2 /\ M[1] = Y /\ M[2] = Z
  OBVIOUS
<1>2. /\ x.start \in Nat /\ x.end \in Nat /\ r.start \in Nat /\ r.end \in Nat
      /\ Y.start \in Nat /\ Y.end \in Nat /\ Z.start \in Nat /\ Z.end \in Nat
      /\ r.start <= r.end /\ Y.start <= Y.end /\ Z.start <= Z.end
  BY RangeIs
<1> HIDE DEF M
<1>3. 1..Len(M) = {1, 2}
  BY <1>1
<1>4. Y.end + 0 < Z.start /\ Y.end + 1 < Z.start
  BY <1>2
<1>5. Apart(M, 0) /\ Apart(M, 1)
  <2>1. \A i, j \in 1..Len(M) : i < j => i = 1 /\ j = 2
    BY <1>3
  <2> QED
    BY <1>1, <1>4, <2>1 DEF Apart
<1>6. \A m \in 1..Len(M) : x.start <= M[m].start /\ M[m].end <= x.end
  BY <1>1, <1>2, <1>3
<1>7. ASSUME NEW y \in Nat
      PROVE  (\E m \in 1..Len(M) : InRange(y, M[m])) <=>
             InRange(y, x) /\ ~InRange(y, r)
  <2>1. (\E m \in 1..Len(M) : InRange(y, M[m])) <=> InRange(y, Y) \/ InRange(y, Z)
    BY <1>1, <1>3
  <2>2. ASSUME InRange(y, Y) PROVE InRange(y, x) /\ ~InRange(y, r)
    BY <1>2, <2>2 DEF InRange
  <2>3. ASSUME InRange(y, Z) PROVE InRange(y, x) /\ ~InRange(y, r)
    BY <1>2, <2>3 DEF InRange
  <2>4. ASSUME InRange(y, x), ~InRange(y, r) PROVE InRange(y, Y) \/ InRange(y, Z)
    BY <1>2, <2>4 DEF InRange
  <2> QED
    BY <2>1, <2>2, <2>3, <2>4
<1>8. LeftOf(M, x, r)
  BY <1>1, <1>5, <1>6, <1>7 DEF LeftOf
<1> QED
  BY <1>8 DEF M

\* Nothing is left of a range that r covers.
LEMMA NothingLeft ==
    ASSUME NEW x \in UINT_RANGE, NEW r \in UINT_RANGE, Covers(r, x)
    PROVE  LeftOf(<<>>, x, r)
<1>1. /\ x.start \in Nat /\ x.end \in Nat /\ r.start \in Nat /\ r.end \in Nat
  BY RangeIs
<1>2. \A y \in Nat : ~(InRange(y, x) /\ ~InRange(y, r))
  BY <1>1 DEF InRange, Covers
<1> DEFINE M == <<>>
<1>3. M \in Seq(UINT_RANGE) /\ Len(M) = 0
  OBVIOUS
<1> HIDE DEF M
<1>4. 1..Len(M) = {}
  BY <1>3
<1>5. LeftOf(M, x, r)
  BY <1>2, <1>3, <1>4 DEF LeftOf, Apart
<1> QED
  BY <1>5 DEF M

\* RemoveFromRange leaves of a range what is not in r.
LEMMA RemovedFromRange ==
    ASSUME NEW x \in UINT_RANGE, NEW r \in UINT_RANGE
    PROVE  LeftOf(RemoveFromRange(x, r), x, r)
<1> DEFINE M == RemoveFromRange(x, r)
<1>1. /\ x.start \in Nat /\ x.end \in Nat /\ x.start <= x.end /\ x.end <= MaxUint
      /\ r.start \in Nat /\ r.end \in Nat /\ r.start <= r.end
      /\ x.start \in U64 /\ x.end \in U64 /\ r.start \in U64 /\ r.end \in U64
  BY RangeIs
<1>2. r.end < x.end => Inc(r.end) = r.end + 1 /\ Inc(r.end) \in U64
  <2>1. r.end < x.end => r.end < MaxUint
    BY <1>1, MaxUintAssumption
  <2> QED
    BY <1>1, <2>1, NoWrap
<1>3. x.start < r.start => Dec(r.start) = r.start - 1 /\ Dec(r.start) \in U64
  <2>1. x.start < r.start => r.start > 0
    BY <1>1
  <2> QED
    BY <1>1, <2>1, NoWrap
<1>4. CASE r.start > x.end \/ r.end < x.start
  <2>1. M = <<x>>
    BY <1>1, <1>4 DEF RemoveFromRange, Covers
  <2>2. \A y \in Nat : InRange(y, x) <=> InRange(y, x) /\ ~InRange(y, r)
    BY <1>1, <1>4 DEF InRange
  <2>3. LeftOf(<<x>>, x, r)
    BY <1>1, <2>2, OneLeft
  <2> QED
    BY <2>1, <2>3
<1>5. CASE ~(r.start > x.end \/ r.end < x.start) /\ Covers(r, x)
  <2>1. M = <<>>
    BY <1>1, <1>5 DEF RemoveFromRange
  <2> QED
    BY <1>5, <2>1, NothingLeft
<1>6. CASE /\ ~(r.start > x.end \/ r.end < x.start) /\ ~Covers(r, x)
           /\ r.start <= x.start
  <2> DEFINE Y == Span(Inc(r.end), x.end)
  <2>1. M = <<Y>>
    BY <1>1, <1>6 DEF RemoveFromRange
  <2>2. r.end < x.end
    BY <1>1, <1>6 DEF Covers
  <2>3. Inc(r.end) <= x.end
    BY <1>1, <1>2, <2>2
  <2>4. Y \in UINT_RANGE /\ Y.start = r.end + 1 /\ Y.end = x.end
    BY <1>1, <1>2, <2>2, <2>3, SpanIs
  <2> HIDE DEF Y, M
  <2>5. \A y \in Nat : InRange(y, Y) <=> InRange(y, x) /\ ~InRange(y, r)
    BY <1>1, <1>6, <2>2, <2>4 DEF InRange
  <2>6. x.start <= Y.start /\ Y.end <= x.end
    BY <1>1, <1>6, <2>4
  <2>7. LeftOf(<<Y>>, x, r)
    BY <2>4, <2>5, <2>6, OneLeft
  <2> QED
    BY <2>1, <2>7 DEF M
<1>7. CASE /\ ~(r.start > x.end \/ r.end < x.start) /\ ~Covers(r, x)
           /\ r.start > x.start /\ r.end >= x.end
  <2> DEFINE Y == Span(x.start, Dec(r.start))
  <2>1. M = <<Y>>
    BY <1>1, <1>7 DEF RemoveFromRange
  <2>2. x.start <= Dec(r.start)
    BY <1>1, <1>3, <1>7
  <2>3. Y \in UINT_RANGE /\ Y.start = x.start /\ Y.end = r.start - 1
    BY <1>1, <1>3, <1>7, <2>2, SpanIs
  <2> HIDE DEF Y, M
  <2>4. \A y \in Nat : InRange(y, Y) <=> InRange(y, x) /\ ~InRange(y, r)
    BY <1>1, <1>7, <2>3 DEF InRange
  <2>5. x.start <= Y.start /\ Y.end <= x.end
    BY <1>1, <1>7, <2>3
  <2>6. LeftOf(<<Y>>, x, r)
    BY <2>3, <2>4, <2>5, OneLeft
  <2> QED
    BY <2>1, <2>6 DEF M
<1>8. CASE /\ ~(r.start > x.end \/ r.end < x.start) /\ ~Covers(r, x)
           /\ r.start > x.start /\ ~(r.end >= x.end)
  <2> DEFINE Y == Span(x.start, Dec(r.start))
             Z == Span(Inc(r.end), x.end)
  <2>1. M = <<Y, Z>>
    BY <1>1, <1>8 DEF RemoveFromRange
  <2>2. x.start <= Dec(r.start) /\ Inc(r.end) <= x.end
    BY <1>1, <1>2, <1>3, <1>8
  <2>3. Y \in UINT_RANGE /\ Y.start = x.start /\ Y.end = r.start - 1
    BY <1>1, <1>3, <1>8, <2>2, SpanIs
  <2>4. Z \in UINT_RANGE /\ Z.start = r.end + 1 /\ Z.end = x.end
    <3>1. r.end < x.end
      BY <1>1, <1>8
    <3> QED
      BY <1>1, <1>2, <2>2, <3>1, SpanIs
  <2> HIDE DEF Y, Z, M
  <2>5. Y.end + 1 = r.start /\ x.start = Y.start /\ r.end + 1 = Z.start /\ Z.end = x.end
    BY <1>1, <2>3, <2>4
  <2>6. LeftOf(<<Y, Z>>, x, r)
    BY <2>3, <2>4, <2>5, TwoLeft
  <2> QED
    BY <2>1, <2>6 DEF M
<1> QED
  BY <1>1, <1>4, <1>5, <1>6, <1>7, <1>8


\* The ranges that the walk passes by would be left as they are anyway: the
\* list is what removing r from every range leaves, one after the other.
IsRemoval(f, L, r) ==
    /\ f \in [0..Len(L) -> Seq(UINT_RANGE)]
    /\ f[0] = <<>>
    /\ \A i \in 1..Len(L) : f[i] = f[i - 1] \o RemoveFromRange(L[i], r)

\* Ranges before the one at which the walk ends lie before r.
LEMMA PassedBy ==
    ASSUME NEW L, List(L), NEW r \in UINT_RANGE, NEW i \in 1..Len(L), NEW stop,
           stop = Max({0} \cup {k \in DOMAIN L : r.start > L[k].start}), i < stop
    PROVE  RemoveFromRange(L[i], r) = <<L[i]>>
<1> DEFINE n == Len(L)
           T == {0} \cup {k \in DOMAIN L : r.start > L[k].start}
<1>1. /\ L \in Seq(UINT_RANGE) /\ n \in Nat
      /\ \A k \in 1..n : L[k].start \in Nat /\ L[k].end \in Nat
      /\ \A k, m \in 1..n : k < m => L[k].end < L[m].start
  BY ListIs
<1>2. r.start \in Nat
  BY RangeIs
<1>3. T \in SUBSET (0..n) /\ T # {}
  BY <1>1
<1>4. Max(T) \in T
  BY <1>1, <1>3, MaxIsLargest
<1>5. stop = Max(T)
  OBVIOUS
<1>6. stop \in 1..n /\ r.start > L[stop].start
  BY <1>1, <1>4, <1>5
<1>7. L[i].end < L[stop].start
  BY <1>1, <1>6
<1>8. r.start > L[i].end
  BY <1>1, <1>2, <1>6, <1>7
<1> QED
  BY <1>8 DEF RemoveFromRange

\* ossl_uint_set_remove computes such a removal.
LEMMA RemoveIsLoop ==
    ASSUME NEW L, List(L), NEW r \in UINT_RANGE
    PROVE  \E f : IsRemoval(f, L, r) /\ ossl_uint_set_remove(L, r) = f[Len(L)]
<1> DEFINE n == Len(L)
           stop == Max({0} \cup {i \in DOMAIN L : r.start > L[i].start})
           w(i) == IF i < stop THEN <<L[i]>> ELSE RemoveFromRange(L[i], r)
           Computes(g) ==
               g = [i \in 0..n |-> IF i = 0 THEN <<>> ELSE g[i - 1] \o w(i)]
           left == CHOOSE g : Computes(g)
<1>1. ossl_uint_set_remove(L, r) = left[n]
  BY DEF ossl_uint_set_remove
<1>2. L \in Seq(UINT_RANGE) /\ n \in Nat /\ \A i \in 1..n : L[i] \in UINT_RANGE
  BY ListIs
<1>3. ASSUME NEW i \in 1..n PROVE w(i) = RemoveFromRange(L[i], r)
  BY PassedBy
<1>4. ASSUME NEW i \in 1..n PROVE w(i) \in Seq(UINT_RANGE)
  <2>1. L[i] \in UINT_RANGE
    BY <1>2
  <2>2. LeftOf(RemoveFromRange(L[i], r), L[i], r)
    BY <2>1, RemovedFromRange
  <2> QED
    BY <1>3, <2>2 DEF LeftOf
<1> HIDE DEF w, n
<1> DEFINE S == Seq(UINT_RANGE)
<1>5. \E g : Computes(g)
  <2> DEFINE G == [i \in 1..n |-> [x \in S |-> x \o w(i)]]
  <2>1. G \in [1..n -> [S -> S]]
    <3>1. \A i \in 1..n : \A x \in S : x \o w(i) \in S
      BY <1>4
    <3> HIDE DEF S
    <3> QED
      BY <3>1
  <2>2. <<>> \in S
    OBVIOUS
  <2>3. PICK g : IsLoop(g, n, S, <<>>, G)
    <3> HIDE DEF G, S
    <3> QED
      BY <1>2, <2>1, <2>2, LoopExists
  <2>4. ASSUME NEW i \in 1..n PROVE g[i] = g[i - 1] \o w(i)
    <3>1. i - 1 \in 0..n
      BY <1>2
    <3> HIDE DEF S
    <3>2. g[i - 1] \in S
      BY <2>3, <3>1 DEF IsLoop
    <3>3. G[i][g[i - 1]] = g[i - 1] \o w(i)
      BY <3>2
    <3> QED
      BY <2>3, <3>3 DEF IsLoop
  <2>5. g[0] = <<>> /\ DOMAIN g = 0..n /\ g = [i \in DOMAIN g |-> g[i]]
    BY <2>3 DEF IsLoop
  <2>6. \A i \in 0..n : g[i] = IF i = 0 THEN <<>> ELSE g[i - 1] \o w(i)
    <3> TAKE i \in 0..n
    <3>1. i = 0 \/ i \in 1..n
      BY <1>2
    <3> QED
      BY <2>4, <2>5, <3>1
  <2> QED
    BY <2>5, <2>6
<1>6. Computes(left)
  BY <1>5
<1> HIDE DEF left
<1>7. left[0] = <<>> /\ \A i \in 1..n : left[i] = left[i - 1] \o w(i)
  <2>1. \A i \in 0..n : left[i] = IF i = 0 THEN <<>> ELSE left[i - 1] \o w(i)
    BY <1>6
  <2>2. 0 \in 0..n /\ \A i \in 1..n : i \in 0..n /\ i # 0
    BY <1>2
  <2> QED
    BY <2>1, <2>2
<1>8. \A i \in 0..n : left[i] \in S
  <2>1. left[0] \in S
    BY <1>7
  <2>2. ASSUME NEW i \in 1..n, left[i - 1] \in S PROVE left[i] \in S
    <3>1. left[i] = left[i - 1] \o w(i) /\ w(i) \in S
      BY <1>4, <1>7
    <3> HIDE DEF Computes
    <3> QED
      BY <2>2, <3>1
  <2> HIDE DEF Computes, S
  <2> QED
    BY <1>2, <2>1, <2>2, LoopInvariant
<1>9. left \in [0..n -> S]
  BY <1>6, <1>8
<1>10. \A i \in 1..n : left[i] = left[i - 1] \o RemoveFromRange(L[i], r)
  BY <1>3, <1>7
<1>11. IsRemoval(left, L, r)
  BY <1>7, <1>9, <1>10 DEF IsRemoval, n
<1> QED
  BY <1>1, <1>11 DEF n

\* The lists that removing r from the first i ranges of L can leave.
LeftAfter(L, r, g, i) ==
    {K \in Seq(UINT_RANGE) :
        /\ Apart(K, g)
        /\ \A k \in 1..Len(K), m \in i + 1..Len(L) : K[k].end + g < L[m].start
        /\ \A x \in Nat : x \in Elems(K) <=>
              ~InRange(x, r) /\ \E k \in 1..i : InRange(x, L[k])}

\* Removing r from one more range.
LEMMA RemovalStep ==
    ASSUME NEW L, List(L), NEW r \in UINT_RANGE, NEW g \in {0, 1}, Apart(L, g),
           NEW i \in 1..Len(L), NEW A \in LeftAfter(L, r, g, i - 1)
    PROVE  A \o RemoveFromRange(L[i], r) \in LeftAfter(L, r, g, i)
<1> DEFINE M == RemoveFromRange(L[i], r)
           K == A \o M
           a == Len(A)
<1>1. /\ L \in Seq(UINT_RANGE) /\ Len(L) \in Nat /\ L[i] \in UINT_RANGE
      /\ \A k \in 1..Len(L) : L[k].start \in Nat /\ L[k].end \in Nat
  BY ListIs
<1>2. LeftOf(M, L[i], r)
  BY <1>1, RemovedFromRange
<1> HIDE DEF M
<1>3. /\ A \in Seq(UINT_RANGE) /\ Apart(A, g) /\ a \in Nat
      /\ \A k \in 1..a, m \in (i - 1) + 1..Len(L) : A[k].end + g < L[m].start
      /\ \A x \in Nat : x \in Elems(A) <=>
            ~InRange(x, r) /\ \E k \in 1..i - 1 : InRange(x, L[k])
  <2>1. /\ A \in Seq(UINT_RANGE) /\ Apart(A, g)
        /\ \A k \in 1..Len(A), m \in (i - 1) + 1..Len(L) :
              A[k].end + g < L[m].start
        /\ \A x \in Nat : x \in Elems(A) <=>
              ~InRange(x, r) /\ \E k \in 1..i - 1 : InRange(x, L[k])
    BY Zenon DEF LeftAfter
  <2>2. Len(A) \in Nat
    BY <2>1
  <2> QED
    BY <2>1, <2>2
<1>4. /\ M \in Seq(UINT_RANGE) /\ Apart(M, g) /\ Len(M) \in Nat
      /\ \A m \in 1..Len(M) : L[i].start <= M[m].start /\ M[m].end <= L[i].end
  BY <1>2 DEF LeftOf
<1>5. /\ \A k \in 1..a : A[k].start \in Nat /\ A[k].end \in Nat
      /\ \A m \in 1..Len(M) : M[m].start \in Nat /\ M[m].end \in Nat
  BY <1>3, <1>4, RangeIs
<1>6. /\ K \in Seq(UINT_RANGE) /\ Len(K) = a + Len(M)
      /\ \A k \in 1..a : K[k] = A[k]
      /\ \A k \in 1..Len(M) : K[a + k] = M[k]
  BY <1>3, <1>4, ConcatIs
<1> HIDE DEF K, a
<1>7. Replaced(A, a + 1, a, M, K)
  <2>1. Len(K) = (a + 1) - 1 + Len(M) + Len(A) - a
    BY <1>3, <1>4, <1>6 DEF a
  <2>2. (a + 1) - 1 = a /\ \A k \in a + 1..Len(A) : FALSE
    BY <1>3 DEF a
  <2> QED
    BY <1>6, <2>1, <2>2 DEF Replaced
<1>8. Fits(A, a + 1, a, M, g)
  <2>1. a + 1 \in 1..Len(A) + 1 /\ a \in (a + 1) - 1..Len(A)
    BY <1>3 DEF a
  <2>2. (a + 1) - 1 = a /\ \A k \in a + 1..Len(A) : FALSE
    BY <1>3 DEF a
  <2>3. i \in (i - 1) + 1..Len(L)
    BY <1>1
  <2>4. \A m \in 1..Len(M), k \in 1..a : A[k].end + g < M[m].start
    <3> TAKE m \in 1..Len(M), k \in 1..a
    <3>1. A[k].end + g < L[i].start /\ L[i].start <= M[m].start
      BY <1>3, <1>4, <2>3
    <3> QED
      BY <1>1, <1>5, <3>1
  <2> QED
    BY <1>3, <1>4, <2>1, <2>2, <2>4 DEF Fits
<1>9. Apart(K, g)
  BY <1>7, <1>8, ReplacedIsApart
<1>10. ASSUME NEW x \in Nat
       PROVE  x \in Elems(K) <=>
                ~InRange(x, r) /\ \E k \in 1..i : InRange(x, L[k])
  <2>1. x \in Elems(K) <=>
          \/ \E k \in (1..(a + 1) - 1) \cup (a + 1..Len(A)) : InRange(x, A[k])
          \/ \E k \in 1..Len(M) : InRange(x, M[k])
    BY <1>7, <1>8, ReplacedElems
  <2>2. (1..(a + 1) - 1) \cup (a + 1..Len(A)) = 1..a
    BY <1>3 DEF a
  <2>3. x \in Elems(A) <=> \E k \in 1..a : InRange(x, A[k])
    BY <1>3, ElemsIs DEF a
  <2>4. (\E k \in 1..Len(M) : InRange(x, M[k])) <=> InRange(x, L[i]) /\ ~InRange(x, r)
    BY <1>2 DEF LeftOf
  <2>5. 1..i = (1..i - 1) \cup {i}
    BY <1>1
  <2> QED
    BY <1>3, <2>1, <2>2, <2>3, <2>4, <2>5
<1>11. ASSUME NEW k \in 1..Len(K), NEW m \in i + 1..Len(L)
       PROVE  K[k].end + g < L[m].start
  <2>1. m \in (i - 1) + 1..Len(L) /\ m \in 1..Len(L) /\ i < m
    BY <1>1
  <2>2. L[i].end + g < L[m].start
    BY <2>1 DEF Apart
  <2>3. CASE k <= a
    BY <1>3, <1>6, <2>1, <2>3
  <2>4. CASE k > a
    <3> DEFINE b == k - a
    <3>1. b \in 1..Len(M) /\ a + b = k
      BY <1>3, <1>4, <1>6, <2>4
    <3> HIDE DEF b
    <3>2. K[k] = M[b] /\ M[b].end <= L[i].end /\ M[b].end \in Nat
      BY <1>4, <1>5, <1>6, <3>1
    <3>3. L[i].end \in Nat /\ L[m].start \in Nat /\ g \in Nat
      BY <1>1, <2>1
    <3> DEFINE e == M[b].end
    <3>4. e \in Nat /\ e <= L[i].end
      BY <3>2
    <3> HIDE DEF e
    <3>5. e + g < L[m].start
      BY <2>2, <3>3, <3>4
    <3> QED
      BY <3>2, <3>5 DEF e
  <2> QED
    BY <1>3, <1>6, <2>3, <2>4
<1>12. K \in LeftAfter(L, r, g, i)
  BY <1>6, <1>9, <1>10, <1>11 DEF LeftAfter
<1> QED
  BY <1>12 DEF K, M

\* ossl_uint_set_remove removes the integers of the range from the set.
LEMMA RemoveKeeps ==
    ASSUME NEW L, List(L), NEW r \in UINT_RANGE, NEW g \in {0, 1}, Apart(L, g)
    PROVE  ossl_uint_set_remove(L, r) \in LeftAfter(L, r, g, Len(L))
<1> DEFINE n == Len(L)
           S == [i \in 0..n |-> LeftAfter(L, r, g, i)]
<1>1. n \in Nat
  BY ListIs
<1>2. PICK f : IsRemoval(f, L, r) /\ ossl_uint_set_remove(L, r) = f[n]
  BY RemoveIsLoop
<1>3. f[0] \in S[0]
  <2> DEFINE E == <<>>
  <2>1. E \in Seq(UINT_RANGE) /\ Len(E) = 0 /\ f[0] = E
    BY <1>2 DEF IsRemoval
  <2> HIDE DEF E
  <2>2. 1..Len(E) = {} /\ 1..0 = {}
    BY <2>1
  <2>3. \A x \in Nat : x \notin Elems(E)
    BY <2>1, <2>2, ElemsIs
  <2>4. E \in LeftAfter(L, r, g, 0)
    BY <2>1, <2>2, <2>3 DEF LeftAfter, Apart
  <2> QED
    BY <1>1, <2>1, <2>4
<1>4. ASSUME NEW i \in 1..n, f[i - 1] \in S[i - 1] PROVE f[i] \in S[i]
  <2>1. i - 1 \in 0..n /\ i \in 0..n
    BY <1>1
  <2>2. f[i - 1] \in LeftAfter(L, r, g, i - 1)
    BY <1>4, <2>1
  <2>3. f[i] = f[i - 1] \o RemoveFromRange(L[i], r)
    BY <1>2 DEF IsRemoval
  <2>4. f[i] \in LeftAfter(L, r, g, i)
    BY <2>2, <2>3, RemovalStep
  <2> QED
    BY <2>1, <2>4
<1> HIDE DEF S
<1>5. f[n] \in S[n]
  <2>1. \A i \in 0..n : f[i] \in S[i]
    BY <1>1, <1>3, <1>4, LoopProgress
  <2> QED
    BY <1>1, <2>1
<1> QED
  BY <1>1, <1>2, <1>5 DEF S

\* What a removal keeps: the order, the gaps and the other integers.
LEMMA RemovedElems ==
    ASSUME NEW L, List(L), NEW r \in UINT_RANGE
    PROVE  /\ List(ossl_uint_set_remove(L, r))
           /\ Apart(L, 1) => Apart(ossl_uint_set_remove(L, r), 1)
           /\ \A x : x \in Elems(ossl_uint_set_remove(L, r)) <=>
                       x \in Elems(L) /\ ~InRange(x, r)
<1> DEFINE K == ossl_uint_set_remove(L, r)
           n == Len(L)
<1>1. L \in Seq(UINT_RANGE) /\ Apart(L, 0)
  BY DEF List
<1>2. K \in LeftAfter(L, r, 0, n)
  BY <1>1, RemoveKeeps
<1>3. Apart(L, 1) => K \in LeftAfter(L, r, 1, n)
  BY RemoveKeeps
<1> HIDE DEF K
<1>4. List(K) /\ (Apart(L, 1) => Apart(K, 1))
  BY <1>2, <1>3 DEF LeftAfter, List
<1>5. ASSUME NEW x PROVE x \in Elems(K) <=> x \in Elems(L) /\ ~InRange(x, r)
  <2>1. /\ x \in Elems(K) => x \in Nat
        /\ x \in Elems(L) <=> x \in Nat /\ \E k \in 1..n : InRange(x, L[k])
    BY <1>1, <1>4, ElemsIs DEF List
  <2>2. x \in Nat => (x \in Elems(K) <=>
                        ~InRange(x, r) /\ \E k \in 1..n : InRange(x, L[k]))
    BY <1>2 DEF LeftAfter
  <2> QED
    BY <2>1, <2>2
<1> QED
  BY <1>4, <1>5 DEF K

\* The early exits of the query never change its answer.
LEMMA QueryIs ==
    ASSUME NEW L, List(L), NEW v \in U64
    PROVE  ossl_uint_set_query(L, v) <=> v \in Elems(L)
<1> DEFINE n == Len(L)
           decides == {i \in DOMAIN L : \/ v \in L[i].start .. L[i].end
                                        \/ L[i].end < v}
           z == Max(decides)
<1>1. /\ L \in Seq(UINT_RANGE) /\ n \in Nat /\ DOMAIN L = 1..n
      /\ \A k \in 1..n : /\ L[k].start \in Nat /\ L[k].end \in Nat
                         /\ L[k].start <= L[k].end
      /\ \A k, m \in 1..n : k < m => L[k].end < L[m].start
  BY ListIs
<1>2. v \in Nat
  BY MaxUintAssumption DEF U64
<1>3. \A k \in 1..n : v \in L[k].start .. L[k].end <=> InRange(v, L[k])
  BY <1>1, <1>2 DEF InRange
<1>4. ossl_uint_set_query(L, v) <=>
        decides # {} /\ v \in L[z].start .. L[z].end
  BY DEF ossl_uint_set_query
<1>5. v \in Elems(L) <=> \E k \in 1..n : InRange(v, L[k])
  BY <1>1, <1>2, ElemsIs
<1>6. \A k \in 1..n : k \in decides <=> InRange(v, L[k]) \/ L[k].end < v
  BY <1>1, <1>3
<1>7. decides \in SUBSET (0..n) /\ decides \subseteq 1..n
  BY <1>1
<1>8. decides # {} => z \in decides /\ \A y \in decides : z >= y
  BY <1>1, <1>7, MaxIsLargest
<1> HIDE DEF decides, z
<1>9. ASSUME NEW k \in 1..n, InRange(v, L[k])
      PROVE  decides # {} /\ v \in L[z].start .. L[z].end
  <2>1. k \in decides
    BY <1>6, <1>9
  <2>2. z \in 1..n /\ z >= k /\ (InRange(v, L[z]) \/ L[z].end < v)
    BY <1>6, <1>7, <1>8, <2>1
  <2>3. z = k \/ L[k].end < L[z].start
    BY <1>1, <2>2
  <2>4. InRange(v, L[z])
    BY <1>1, <1>2, <1>9, <2>2, <2>3 DEF InRange
  <2> QED
    BY <1>3, <2>1, <2>2, <2>4
<1>10. ASSUME decides # {}, v \in L[z].start .. L[z].end
       PROVE  \E k \in 1..n : InRange(v, L[k])
  BY <1>3, <1>7, <1>8, <1>10
<1> QED
  BY <1>4, <1>5, <1>9, <1>10

-----------------------------------------------------------------------------
\* The strengthening: any two ranges of the list are apart, and no two border
\* on one another while only disjoint ranges were inserted.
SetIInv ==
    /\ WellFormed
    /\ Apart(ranges, 0)
    /\ disjoint => Apart(ranges, 1)

\* Every insertion and removal keeps the list of ranges in order.
THEOREM SetInductiveInvariant == SetSpec => []SetIInv
<1>1. SetInit => SetIInv
  <2> SUFFICES ASSUME SetInit PROVE SetIInv
    OBVIOUS
  <2>1. ranges \in Seq(UINT_RANGE) /\ Len(ranges) = 0 /\ disjoint = TRUE
    BY DEF SetInit
  <2>2. 1..Len(ranges) = {}
    BY <2>1
  <2> QED
    BY <2>1, <2>2 DEF SetIInv, WellFormed, Apart
<1>2. SetIInv /\ [SetNext]_<<ranges, disjoint>> => SetIInv'
  <2> SUFFICES ASSUME SetIInv, [SetNext]_<<ranges, disjoint>> PROVE SetIInv'
    OBVIOUS
  <2>1. List(ranges) /\ disjoint \in BOOLEAN /\ (disjoint => Apart(ranges, 1))
    BY DEF SetIInv, WellFormed, List
  <2>2. ASSUME NEW r \in UINT_RANGE, InsertRange(r) PROVE SetIInv'
    <3>1. Inserted(ranges, r, ranges')
      BY <2>1, <2>2, InsertKeeps DEF InsertRange
    <3>2. disjoint' => disjoint /\ (r.start .. r.end) \cap Elems(ranges) = {}
      BY <2>2 DEF InsertRange
    <3>3. disjoint' \in BOOLEAN
      BY <2>2 DEF InsertRange
    <3>4. ASSUME disjoint' PROVE Apart(ranges', 1)
      <4>1. r.start \in Nat /\ r.end \in Nat
        BY RangeIs
      <4>2. \A x \in Nat : ~(InRange(x, r) /\ x \in Elems(ranges))
        BY <3>2, <3>4, <4>1 DEF InRange
      <4> QED
        BY <2>1, <3>1, <3>2, <3>4, <4>2 DEF Inserted
    <3> QED
      BY <3>1, <3>3, <3>4 DEF SetIInv, WellFormed, Inserted, Apart
  <2>3. ASSUME NEW r \in UINT_RANGE, RemoveRange(r) PROVE SetIInv'
    <3>1. List(ranges') /\ (Apart(ranges, 1) => Apart(ranges', 1))
      BY <2>1, <2>3, RemovedElems DEF RemoveRange
    <3>2. disjoint' = disjoint
      BY <2>3 DEF RemoveRange
    <3> QED
      BY <2>1, <3>1, <3>2 DEF SetIInv, WellFormed, List, Apart
  <2>4. CASE UNCHANGED <<ranges, disjoint>>
    BY <2>4 DEF SetIInv, WellFormed, Apart
  <2> QED
    BY <2>2, <2>3, <2>4 DEF SetNext
<1> QED
  BY <1>1, <1>2, PTL DEF SetSpec

\* "The data structure is always sorted in ascending order by value", "no two
\* ranges ever overlap", and no two border on one another as long as inserted
\* ranges are disjoint from the set (uint_set.c), for every width of integer.
THEOREM RangesCanonical == SetSpec => []Canonical
<1>1. SetIInv => Canonical
  <2> SUFFICES ASSUME SetIInv PROVE Canonical
    OBVIOUS
  <2>1. List(ranges) /\ (disjoint => Apart(ranges, 1)) /\ WellFormed
    BY DEF SetIInv, WellFormed, List
  <2>2. /\ Len(ranges) \in Nat
        /\ \A k, m \in 1..Len(ranges) : k < m => ranges[k].end < ranges[m].start
    BY <2>1, ListIs
  <2>3. \A i \in 1..(Len(ranges) - 1) :
          i \in 1..Len(ranges) /\ i + 1 \in 1..Len(ranges) /\ i < i + 1
    BY <2>2
  <2>4. Sorted
    BY <2>2, <2>3 DEF Sorted
  <2>5. NoBorder
    BY <2>1, <2>3 DEF NoBorder, Apart
  <2> QED
    BY <2>1, <2>4, <2>5 DEF Canonical
<1> QED
  BY <1>1, SetInductiveInvariant, PTL

\* Inserting any range into any list the code can build adds exactly its
\* integers, removing one removes exactly them, and a query answers whether
\* the integer is there: the early exits of the backward walks, the merges and
\* the splits change nothing, also at 0 and at the largest integer.
THEOREM RangesActAsSet == SetSpec => []ActsAsSet
<1>1. SetIInv => ActsAsSet
  <2> SUFFICES ASSUME SetIInv PROVE ActsAsSet
    OBVIOUS
  <2>1. List(ranges)
    BY DEF SetIInv, WellFormed, List
  <2>2. \A r \in UINT_RANGE : \A x :
          x \in r.start .. r.end <=> x \in Nat /\ InRange(x, r)
    <3> TAKE r \in UINT_RANGE
    <3> TAKE x
    <3>1. r.start \in Nat /\ r.end \in Nat
      BY RangeIs
    <3> QED
      BY <3>1 DEF InRange
  <2>3. InsertIsUnion
    <3> SUFFICES ASSUME NEW r \in UINT_RANGE
                 PROVE  Elems(ossl_uint_set_insert(ranges, r)) =
                          Elems(ranges) \cup (r.start .. r.end)
      BY DEF InsertIsUnion
    <3>1. \A x : x \in Elems(ossl_uint_set_insert(ranges, r)) <=>
                   x \in Elems(ranges) \/ (x \in Nat /\ InRange(x, r))
      BY <2>1, InsertKeeps DEF Inserted
    <3> QED
      BY <2>2, <3>1
  <2>4. RemoveIsDifference
    <3> SUFFICES ASSUME NEW r \in UINT_RANGE
                 PROVE  Elems(ossl_uint_set_remove(ranges, r)) =
                          Elems(ranges) \ (r.start .. r.end)
      BY DEF RemoveIsDifference
    <3>1. \A x : x \in Elems(ossl_uint_set_remove(ranges, r)) <=>
                   x \in Elems(ranges) /\ ~InRange(x, r)
      BY <2>1, RemovedElems
    <3>2. \A x \in Elems(ranges) : x \in Nat
      BY <2>1, ElemsIs DEF List
    <3> QED
      BY <2>2, <3>1, <3>2
  <2>5. QueryIsMembership
    BY <2>1, QueryIs DEF QueryIsMembership
  <2> QED
    BY <2>3, <2>4, <2>5 DEF ActsAsSet
<1> QED
  BY <1>1, SetInductiveInvariant, PTL
=============================================================================
