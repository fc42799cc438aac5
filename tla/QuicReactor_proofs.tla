-------------------------- MODULE QuicReactor_proofs --------------------------
(***************************************************************************)
(* Proofs about threads that block on reactors, for any number of threads, *)
(* reactors and events, when each thread waits for one object.             *)
(***************************************************************************)
EXTENDS QuicReactor, FiniteSetTheorems, TLAPS

\* A call of SSL_poll has one item; a blocking call always has.
OneItemEach == \A t \in Threads : Len(items[t]) = 1

\* The reactor that a thread waits on.
Only(t) == items[t][1]

\* Where a thread is, or goes on once it has the mutex again.
Place(t) == IF pc[t] \in {"cv", "woken"} THEN ret[t] ELSE pc[t]

Inside(where) == where \in {"poll", "recheck", "abort", "leave"}

\* Only some threads come to some places.
Roles(t) ==
    /\ item[t] = 1
    /\ Place(t) \in {"enter", "recheck", "abort", "quit", "left", "failed"}
         => t \in Pollers
    /\ Inside(Place(t)) => t \notin Assistants

\* The wait context of SSL_poll counts what it has entered and not left.
Counted(t) ==
    t \in Pollers => \A r \in Reactors :
        blocking_count[t][r] = IF Inside(Place(t)) /\ r = Only(t) THEN 1 ELSE 0

IInv ==
    /\ TypeOK
    /\ \A t \in Threads : Roles(t) /\ Counted(t)
    /\ WaitersExact

-----------------------------------------------------------------------------
\* One item: its reactor is the only one.
LEMMA OneItem ==
    ASSUME OneItemEach, NEW t \in Threads
    PROVE  /\ DOMAIN items[t] = 1..1 /\ Only(t) \in Reactors
           /\ ReactorsOf(t) = {Only(t)}
<1>1. items[t] \in Seq(Reactors) /\ Len(items[t]) = 1
  BY ReactorAssumption DEF OneItemEach
<1>2. DOMAIN items[t] = 1..1 /\ 1 \in 1..1
  BY <1>1
<1>3. items[t][1] \in Reactors
  BY <1>1, <1>2
<1>4. \A i \in 1..1 : i = 1
  OBVIOUS
<1> QED
  BY <1>2, <1>3, <1>4 DEF Only, ReactorsOf

\* The sections that a thread is in, before and after a step.
LEMMA EnteredIs ==
    ASSUME OneItemEach, NEW t \in Threads, item[t] = 1, item'[t] = 1
    PROVE  /\ Cur(t) = Only(t)
           /\ Entered(t) = IF Inside(Place(t)) THEN {Only(t)} ELSE {}
           /\ Entered(t)' = IF Inside(Place(t)') THEN {Only(t)} ELSE {}
<1>1. Len(items[t]) = 1 /\ DOMAIN items[t] = 1..1
  BY OneItem DEF OneItemEach
<1> DEFINE Items(at) == CASE at \in {"poll"} -> 1..1
          [] at \in {"recheck", "abort"} -> 1..1
          [] at = "enter" -> {}
          [] at = "leave" -> 1..1
          [] at = "left" -> {}
          [] OTHER -> {}
<1>0. 1..(1 - 1) = {} /\ (1 + 1)..1 = {}
  OBVIOUS
<1>2. EnteredItems(t) = Items(Place(t)) /\ EnteredItems(t)' = Items(Place(t)')
  BY <1>1, <1>0 DEF EnteredItems, Place
<1>3. ASSUME NEW at PROVE Items(at) = IF Inside(at) THEN 1..1 ELSE {}
  <2>1. CASE at = "poll"
    BY <2>1 DEF Inside
  <2>2. CASE at \in {"recheck", "abort"}
    BY <2>2 DEF Inside
  <2>3. CASE at = "leave"
    BY <2>3 DEF Inside
  <2>4. CASE at \in {"enter", "left"}
    BY <2>4 DEF Inside
  <2>5. CASE at \notin {"poll", "recheck", "abort", "leave", "enter", "left"}
    BY <2>5 DEF Inside
  <2> QED
    BY <2>1, <2>2, <2>3, <2>4, <2>5
<1>4. {items[t][i] : i \in 1..1} = {Only(t)}
  <2>1. \A i \in 1..1 : i = 1
    OBVIOUS
  <2>2. 1 \in 1..1
    OBVIOUS
  <2> QED
    BY <2>1, <2>2 DEF Only
<1> HIDE DEF Items
<1>5. Entered(t) = IF Inside(Place(t)) THEN {Only(t)} ELSE {}
  BY <1>2, <1>3, <1>4 DEF Entered
<1>6. Entered(t)' = IF Inside(Place(t)') THEN {Only(t)} ELSE {}
  BY <1>2, <1>3, <1>4 DEF Entered
<1> QED
  BY <1>5, <1>6 DEF Cur, Only

\* The threads in the blocking section of r.
Waiters(r) == {t \in Threads : r \in Entered(t)}

\* A step of t that leaves the other threads where they are changes the count
\* as t enters or leaves.
LEMMA CountChanges ==
    ASSUME OneItemEach, IInv, NEW t \in Threads,
           \A u \in Threads : item'[u] = 1,
           \A u \in Threads \ {t} : Place(u)' = Place(u),
           \/ /\ Inside(Place(t)') <=> Inside(Place(t))
              /\ cur_blocking_waiters' = cur_blocking_waiters
           \/ /\ ~Inside(Place(t)) /\ Inside(Place(t)')
              /\ cur_blocking_waiters' =
                   [cur_blocking_waiters EXCEPT ![Only(t)] = @ + 1]
           \/ /\ Inside(Place(t)) /\ ~Inside(Place(t)')
              /\ cur_blocking_waiters' =
                   [cur_blocking_waiters EXCEPT ![Only(t)] = @ - 1]
    PROVE  /\ cur_blocking_waiters' \in [Reactors -> Nat]
           /\ WaitersExact'
<1>1. Only(t) \in Reactors
  BY OneItem
<1>2. \A u \in Threads : item[u] = 1
  BY DEF IInv, Roles
<1>3. \A u \in Threads :
        /\ Entered(u) = IF Inside(Place(u)) THEN {Only(u)} ELSE {}
        /\ Entered(u)' = IF Inside(Place(u)') THEN {Only(u)} ELSE {}
  BY <1>2, EnteredIs
<1>4. \A u \in Threads \ {t} : Entered(u)' = Entered(u)
  BY <1>3
<1>5. ASSUME NEW r \in Reactors
      PROVE  /\ IsFiniteSet(Waiters(r))
             /\ cur_blocking_waiters[r] = Cardinality(Waiters(r))
             /\ cur_blocking_waiters[r] \in Nat
  <2>1. IsFiniteSet(Threads) /\ Waiters(r) \in SUBSET Threads
    BY ReactorAssumption DEF Waiters
  <2>2. IsFiniteSet(Waiters(r))
    BY <2>1, FS_Subset
  <2> QED
    BY <2>2 DEF IInv, TypeOK, WaitersExact, Waiters
<1>6. cur_blocking_waiters \in [Reactors -> Nat]
  BY DEF IInv, TypeOK
<1>7. ASSUME NEW r \in Reactors
      PROVE  /\ cur_blocking_waiters'[r] = Cardinality(Waiters(r)')
             /\ cur_blocking_waiters'[r] \in Nat
  <2>1. CASE /\ Inside(Place(t)') <=> Inside(Place(t))
             /\ cur_blocking_waiters' = cur_blocking_waiters
    <3>1. \A u \in Threads : Entered(u)' = Entered(u)
      BY <1>3, <1>4, <2>1
    <3>2. Waiters(r)' = Waiters(r)
      BY <3>1 DEF Waiters
    <3> QED
      BY <1>5, <2>1, <3>2
  <2>2. CASE /\ ~Inside(Place(t)) /\ Inside(Place(t)')
             /\ cur_blocking_waiters' =
                  [cur_blocking_waiters EXCEPT ![Only(t)] = @ + 1]
    <3>1. Entered(t) = {} /\ Entered(t)' = {Only(t)}
      BY <1>3, <2>2
    <3>2. CASE r = Only(t)
      <4>1. Waiters(r)' = Waiters(r) \cup {t} /\ t \notin Waiters(r)
        BY <1>4, <3>1, <3>2 DEF Waiters
      <4>2. Cardinality(Waiters(r)') = Cardinality(Waiters(r)) + 1
        BY <1>5, <4>1, FS_AddElement
      <4>3. cur_blocking_waiters'[r] = cur_blocking_waiters[r] + 1
        BY <1>6, <2>2, <3>2
      <4> QED
        BY <1>5, <4>2, <4>3
    <3>3. CASE r # Only(t)
      <4>1. Waiters(r)' = Waiters(r)
        BY <1>4, <3>1, <3>3 DEF Waiters
      <4>2. cur_blocking_waiters'[r] = cur_blocking_waiters[r]
        BY <1>6, <2>2, <3>3
      <4> QED
        BY <1>5, <4>1, <4>2
    <3> QED
      BY <3>2, <3>3
  <2>3. CASE /\ Inside(Place(t)) /\ ~Inside(Place(t)')
             /\ cur_blocking_waiters' =
                  [cur_blocking_waiters EXCEPT ![Only(t)] = @ - 1]
    <3>1. Entered(t) = {Only(t)} /\ Entered(t)' = {}
      BY <1>3, <2>3
    <3>2. CASE r = Only(t)
      <4>1. Waiters(r)' = Waiters(r) \ {t} /\ t \in Waiters(r)
        BY <1>4, <3>1, <3>2 DEF Waiters
      <4>2. /\ IsFiniteSet(Waiters(r) \ {t})
            /\ Cardinality(Waiters(r)') = Cardinality(Waiters(r)) - 1
        BY <1>5, <4>1, FS_RemoveElement
      <4>3. Cardinality(Waiters(r)') \in Nat
        BY <4>1, <4>2, FS_CardinalityType
      <4>4. cur_blocking_waiters'[r] = cur_blocking_waiters[r] - 1
        BY <1>6, <2>3, <3>2
      <4> QED
        BY <1>5, <4>2, <4>3, <4>4
    <3>3. CASE r # Only(t)
      <4>1. Waiters(r)' = Waiters(r)
        BY <1>4, <3>1, <3>3 DEF Waiters
      <4>2. cur_blocking_waiters'[r] = cur_blocking_waiters[r]
        BY <1>6, <2>3, <3>3
      <4> QED
        BY <1>5, <4>1, <4>2
    <3> QED
      BY <3>2, <3>3
  <2> QED
    BY <2>1, <2>2, <2>3
<1>8. WaitersExact'
  BY <1>7 DEF WaitersExact, Waiters
<1>9. DOMAIN cur_blocking_waiters' = Reactors
      /\ cur_blocking_waiters' = [r \in Reactors |-> cur_blocking_waiters'[r]]
  BY <1>6
<1>10. cur_blocking_waiters' \in [Reactors -> Nat]
  BY <1>7, <1>9
<1> QED
  BY <1>8, <1>10

-----------------------------------------------------------------------------
(***************************************************************************)
(* The steps of a thread                                                   *)
(***************************************************************************)

\* TypeOK without the count of waiters, whose type depends on the invariant.
OtherTypes ==
    /\ mutex \in [Reactors -> Threads \cup {NoThread}]
    /\ signalled_notifier \in [Reactors -> BOOLEAN]
    /\ due \subseteq Reactors \X Kinds
    /\ ready \subseteq UNION {ItemsOn(r) : r \in Reactors}
    /\ pc \in [Threads -> Places]
    /\ item \in [Threads -> Nat]
    /\ \A t \in Threads : item[t] \in DOMAIN items[t]
    /\ ret \in [Threads -> {"tick", "check", "left", "quit"}]
    /\ blocking_count \in [Threads -> [Reactors -> Nat]]
    /\ found \in [Threads -> BOOLEAN]
    /\ events \in 0..MaxEvents

\* A step of t keeps the invariant if it keeps what is about t.
LEMMA StepKeeps ==
    ASSUME OneItemEach, IInv, NEW t \in Threads, OtherTypes', item' = item,
           \A u \in Threads \ {t} :
             Place(u)' = Place(u) /\ blocking_count'[u] = blocking_count[u],
           Roles(t)', Counted(t)',
           \/ /\ Inside(Place(t)') <=> Inside(Place(t))
              /\ cur_blocking_waiters' = cur_blocking_waiters
           \/ /\ ~Inside(Place(t)) /\ Inside(Place(t)')
              /\ cur_blocking_waiters' =
                   [cur_blocking_waiters EXCEPT ![Only(t)] = @ + 1]
           \/ /\ Inside(Place(t)) /\ ~Inside(Place(t)')
              /\ cur_blocking_waiters' =
                   [cur_blocking_waiters EXCEPT ![Only(t)] = @ - 1]
    PROVE  IInv'
<1>1. \A u \in Threads : item'[u] = 1
  BY DEF IInv, Roles
<1>2. cur_blocking_waiters' \in [Reactors -> Nat] /\ WaitersExact'
  BY <1>1, CountChanges
<1>3. TypeOK'
  BY <1>2 DEF TypeOK, OtherTypes
<1>4. ASSUME NEW u \in Threads PROVE Roles(u)' /\ Counted(u)'
  <2>1. CASE u = t
    BY <2>1
  <2>2. CASE u # t
    <3>1. Roles(u) /\ Counted(u)
      BY DEF IInv
    <3>2. Place(u)' = Place(u) /\ blocking_count'[u] = blocking_count[u]
      BY <2>2
    <3> HIDE DEF Place
    <3> QED
      BY <1>1, <3>1, <3>2 DEF Roles, Counted, Only
  <2> QED
    BY <2>1, <2>2
<1> QED
  BY <1>2, <1>3, <1>4 DEF IInv

\* A thread goes on at another place.
LEMMA Goes ==
    ASSUME TypeOK, NEW t \in Threads, NEW where, where \in Places \ {"cv", "woken"},
           pc' = [pc EXCEPT ![t] = where], ret' = ret
    PROVE  /\ Place(t)' = where
           /\ \A u \in Threads \ {t} : Place(u)' = Place(u)
           /\ pc' \in [Threads -> Places]
BY DEF TypeOK, Place

\* A thread waits for the condition variable, to go on at another place.
LEMMA Waits ==
    ASSUME TypeOK, NEW t \in Threads,
           NEW where \in {"tick", "check", "left", "quit"},
           pc' = [pc EXCEPT ![t] = "cv"], ret' = [ret EXCEPT ![t] = where]
    PROVE  /\ Place(t)' = where
           /\ \A u \in Threads \ {t} : Place(u)' = Place(u)
           /\ pc' \in [Threads -> Places]
           /\ ret' \in [Threads -> {"tick", "check", "left", "quit"}]
BY DEF TypeOK, Place, Places

\* A thread leaves the section of its reactor, and may wake others.
LEMMA Leaves ==
    ASSUME OneItemEach, IInv, NEW t \in Threads, Inside(Place(t)),
           NEW where \in {"tick", "left", "quit"},
           ossl_quic_reactor_leave_blocking_section(t, Cur(t), where)
    PROVE  /\ Place(t)' = where
           /\ \A u \in Threads \ {t} : Place(u)' = Place(u)
           /\ cur_blocking_waiters' =
                [cur_blocking_waiters EXCEPT ![Only(t)] = @ - 1]
           /\ pc' \in [Threads -> Places]
           /\ ret' \in [Threads -> {"tick", "check", "left", "quit"}]
           /\ mutex' \in [Reactors -> Threads \cup {NoThread}]
           /\ signalled_notifier' \in [Reactors -> BOOLEAN]
<1> DEFINE left == cur_blocking_waiters[Only(t)] - 1
           wait == signalled_notifier[Only(t)] /\ left > 0
           release == signalled_notifier[Only(t)] /\ left = 0
<1>1. Cur(t) = Only(t) /\ Only(t) \in Reactors
  BY OneItem DEF IInv, Roles, Cur, Only
<1>2. /\ cur_blocking_waiters' = [cur_blocking_waiters EXCEPT ![Only(t)] = left]
      /\ signalled_notifier' = [signalled_notifier EXCEPT ![Only(t)] = @ /\ ~release]
      /\ mutex' = [mutex EXCEPT ![Only(t)] = IF wait THEN NoThread ELSE Holds(t, where)]
      /\ ret' = IF wait THEN [ret EXCEPT ![t] = where] ELSE ret
      /\ pc' = [u \in Threads |->
                  IF u = t THEN (IF wait THEN "cv" ELSE where)
                  ELSE IF release /\ pc[u] = "cv" /\ Cur(u) = Only(t) THEN "woken"
                  ELSE pc[u]]
  BY <1>1 DEF ossl_quic_reactor_leave_blocking_section
<1>3. TypeOK
  BY DEF IInv
<1> HIDE DEF wait, release
<1>4. Place(t)' = where
  BY <1>2, <1>3 DEF Place, TypeOK
<1>5. ASSUME NEW u \in Threads \ {t} PROVE Place(u)' = Place(u)
  BY <1>2, <1>3 DEF Place, TypeOK
<1>6. pc' \in [Threads -> Places]
  BY <1>2, <1>3 DEF Places, TypeOK
<1>7. ret' \in [Threads -> {"tick", "check", "left", "quit"}]
  BY <1>2, <1>3 DEF TypeOK
<1>8. mutex' \in [Reactors -> Threads \cup {NoThread}]
  BY <1>1, <1>2, <1>3 DEF TypeOK, Holds
<1>9. signalled_notifier' \in [Reactors -> BOOLEAN]
  <2>1. (signalled_notifier[Only(t)] /\ ~release) \in BOOLEAN
    OBVIOUS
  <2> QED
    BY <1>1, <1>2, <1>3, <2>1 DEF TypeOK
<1> QED
  BY <1>2, <1>4, <1>5, <1>6, <1>7, <1>8, <1>9

\* What the invariant says of a thread that takes a step.
LEMMA ThreadFacts ==
    ASSUME OneItemEach, IInv, NEW t \in Threads
    PROVE  /\ TypeOK /\ OtherTypes /\ item[t] = 1 /\ AtLast(t)
           /\ Cur(t) = Only(t) /\ Only(t) \in Reactors
           /\ Roles(t) /\ Counted(t)
<1>1. Only(t) \in Reactors /\ Len(items[t]) = 1
  BY OneItem DEF OneItemEach
<1>2. TypeOK /\ Roles(t) /\ Counted(t) /\ item[t] = 1
  BY DEF IInv, Roles
<1> QED
  BY <1>1, <1>2 DEF TypeOK, OtherTypes, AtLast, Cur, Only

\* A thread ticks the reactor, notifies the others and has the mutex, or waits
\* for it.
LEMMA TickStep ==
    ASSUME OneItemEach, IInv, NEW t \in Threads, Tick(t)
    PROVE  IInv'
<1> DEFINE r == Only(t)
<1>1. /\ TypeOK /\ OtherTypes /\ item[t] = 1 /\ Cur(t) = r /\ r \in Reactors
      /\ Roles(t) /\ Counted(t)
  BY ThreadFacts
<1>2. /\ pc[t] = "tick" /\ ossl_quic_reactor_tick(t, r, "check")
      /\ UNCHANGED <<item, blocking_count, found, events>>
  BY <1>1 DEF Tick
<1> HIDE DEF r
<1>3. /\ \/ /\ pc' = [pc EXCEPT ![t] = "check"] /\ ret' = ret
            /\ mutex' = [mutex EXCEPT ![r] = t]
            /\ signalled_notifier' = signalled_notifier
         \/ /\ pc' = [pc EXCEPT ![t] = "cv"] /\ ret' = [ret EXCEPT ![t] = "check"]
            /\ mutex' = [mutex EXCEPT ![r] = NoThread]
            /\ signalled_notifier' = [signalled_notifier EXCEPT ![r] = TRUE]
      /\ cur_blocking_waiters' = cur_blocking_waiters
  BY <1>2 DEF ossl_quic_reactor_tick, rtor_notify_other_threads, Goto
<1>4. /\ due' \subseteq due
      /\ ready' \subseteq UNION {ItemsOn(q) : q \in Reactors}
  <2>1. PICK new \in SUBSET (IF DueOn(r) = {} THEN {} ELSE ItemsOn(r)) :
           ready' = ready \cup new
    BY <1>2 DEF ossl_quic_reactor_tick
  <2>2. new \subseteq ItemsOn(r)
    BY <2>1
  <2>3. due' \subseteq due
    BY <1>2 DEF ossl_quic_reactor_tick
  <2> QED
    BY <1>1, <2>1, <2>2, <2>3 DEF TypeOK
<1>5. /\ Place(t) = "tick" /\ Place(t)' = "check"
      /\ \A u \in Threads \ {t} : Place(u)' = Place(u)
      /\ pc' \in [Threads -> Places]
      /\ ret' \in [Threads -> {"tick", "check", "left", "quit"}]
  <2>1. Place(t) = "tick" /\ "check" \in Places
    BY <1>2 DEF Place, Places
  <2>2. CASE pc' = [pc EXCEPT ![t] = "check"] /\ ret' = ret
    BY <1>1, <2>1, <2>2, Goes DEF TypeOK
  <2>3. CASE pc' = [pc EXCEPT ![t] = "cv"] /\ ret' = [ret EXCEPT ![t] = "check"]
    BY <1>1, <2>1, <2>3, Waits
  <2> QED
    BY <1>3, <2>2, <2>3
<1>6. OtherTypes'
  <2> DEFINE Holders == Threads \cup {NoThread}
  <2>b. mutex \in [Reactors -> Holders] /\ signalled_notifier \in [Reactors -> BOOLEAN]
    BY <1>1 DEF TypeOK
  <2>0. t \in Holders /\ NoThread \in Holders
    OBVIOUS
  <2>1. /\ mutex' \in [Reactors -> Threads \cup {NoThread}]
        /\ signalled_notifier' \in [Reactors -> BOOLEAN]
    <3> HIDE DEF Holders
    <3>1. mutex' \in [Reactors -> Holders]
      BY <1>3, <2>b, <2>0
    <3>2. signalled_notifier' \in [Reactors -> BOOLEAN]
      BY <1>3, <2>b
    <3> QED
      BY <3>1, <3>2 DEF Holders
  <2> QED
    BY <1>1, <1>2, <1>4, <1>5, <2>1 DEF OtherTypes
<1>7. ~Inside(Place(t)) /\ ~Inside(Place(t)')
  BY <1>5 DEF Inside
<1>8. Roles(t)' /\ Counted(t)'
  BY <1>1, <1>2, <1>5, <1>7 DEF Roles, Counted, Only
<1> QED
  BY <1>2, <1>3, <1>5, <1>6, <1>7, <1>8, StepKeeps

\* A thread has the mutex again, or waits on.
LEMMA CvStep ==
    ASSUME OneItemEach, IInv, NEW t \in Threads, CvReturn(t)
    PROVE  IInv'
<1> DEFINE r == Only(t)
<1>1. /\ TypeOK /\ OtherTypes /\ item[t] = 1 /\ Cur(t) = r /\ r \in Reactors
      /\ Roles(t) /\ Counted(t)
  BY ThreadFacts
<1>2. /\ pc[t] = "woken"
      /\ \/ pc' = [pc EXCEPT ![t] = "cv"] /\ mutex' = mutex
         \/ /\ pc' = [pc EXCEPT ![t] = ret[t]]
            /\ mutex' = [mutex EXCEPT ![r] = Holds(t, ret[t])]
      /\ UNCHANGED <<cur_blocking_waiters, signalled_notifier, due, ready,
                     item, ret, blocking_count, found, events>>
  BY <1>1 DEF CvReturn, Goto
<1> HIDE DEF r
<1>3. ret[t] \in {"tick", "check", "left", "quit"}
  BY <1>1 DEF TypeOK
<1>4. \A u \in Threads : Place(u)' = Place(u)
  BY <1>1, <1>2, <1>3 DEF TypeOK, Place
<1>5. pc' \in [Threads -> Places] /\ mutex' \in [Reactors -> Threads \cup {NoThread}]
  <2>1. /\ pc \in [Threads -> Places]
        /\ mutex \in [Reactors -> Threads \cup {NoThread}]
    BY <1>1 DEF TypeOK
  <2>2. "cv" \in Places /\ ret[t] \in Places
    BY <1>3 DEF Places
  <2>3. Holds(t, ret[t]) \in Threads \cup {NoThread}
    BY DEF Holds
  <2>4. pc' \in [Threads -> Places]
    BY <1>2, <2>1, <2>2
  <2>5. mutex' \in [Reactors -> Threads \cup {NoThread}]
    BY <1>2, <2>1, <2>3
  <2> QED
    BY <2>4, <2>5
<1>6. OtherTypes'
  BY <1>1, <1>2, <1>5 DEF OtherTypes
<1>7. Roles(t)' /\ Counted(t)'
  BY <1>1, <1>2, <1>4 DEF Roles, Counted, Only
<1> QED
  BY <1>2, <1>4, <1>6, <1>7, StepKeeps

\* A blocking call returns, or its thread enters the section.
LEMMA CheckStep ==
    ASSUME OneItemEach, IInv, NEW t \in Threads, CheckPred(t)
    PROVE  IInv'
<1> DEFINE r == Only(t)
<1>1. /\ TypeOK /\ OtherTypes /\ item[t] = 1 /\ Cur(t) = r /\ r \in Reactors
      /\ Roles(t) /\ Counted(t)
  BY ThreadFacts
<1>2. /\ t \in Blockers /\ pc[t] = "check"
      /\ mutex' = [mutex EXCEPT ![r] = NoThread]
      /\ \/ /\ pc' = [pc EXCEPT ![t] = "done"]
            /\ cur_blocking_waiters' = cur_blocking_waiters
         \/ /\ pc' = [pc EXCEPT ![t] = "poll"]
            /\ cur_blocking_waiters' = [cur_blocking_waiters EXCEPT ![r] = @ + 1]
      /\ UNCHANGED <<signalled_notifier, due, ready, item, ret,
                     blocking_count, found, events>>
  BY <1>1 DEF CheckPred, Goto, ossl_quic_reactor_enter_blocking_section
<1>3. "done" \in Places \ {"cv", "woken"} /\ "poll" \in Places \ {"cv", "woken"}
  BY DEF Places
<1>4. /\ Place(t) = "check"
      /\ \A u \in Threads \ {t} : Place(u)' = Place(u)
      /\ pc' \in [Threads -> Places]
      /\ \/ Place(t)' = "done" /\ cur_blocking_waiters' = cur_blocking_waiters
         \/ /\ Place(t)' = "poll"
            /\ cur_blocking_waiters' = [cur_blocking_waiters EXCEPT ![r] = @ + 1]
  <2> HIDE DEF r
  <2>1. Place(t) = "check"
    BY <1>2 DEF Place
  <2>2. CASE pc' = [pc EXCEPT ![t] = "done"]
            /\ cur_blocking_waiters' = cur_blocking_waiters
    BY <1>1, <1>2, <1>3, <2>1, <2>2, Goes
  <2>3. CASE /\ pc' = [pc EXCEPT ![t] = "poll"]
             /\ cur_blocking_waiters' = [cur_blocking_waiters EXCEPT ![r] = @ + 1]
    BY <1>1, <1>2, <1>3, <2>1, <2>3, Goes
  <2> QED
    BY <1>2, <2>2, <2>3
<1>5. mutex' \in [Reactors -> Threads \cup {NoThread}]
  BY <1>1, <1>2 DEF TypeOK
<1>6. OtherTypes'
  BY <1>1, <1>2, <1>4, <1>5 DEF OtherTypes
<1>7. t \notin Pollers /\ t \notin Assistants
  BY <1>2 DEF Blockers
<1>8. Roles(t)' /\ Counted(t)'
  BY <1>1, <1>2, <1>4, <1>7 DEF Roles, Counted
<1>9. /\ ~Inside(Place(t))
      /\ \/ /\ ~Inside(Place(t)') /\ cur_blocking_waiters' = cur_blocking_waiters
         \/ /\ Inside(Place(t)')
            /\ cur_blocking_waiters' = [cur_blocking_waiters EXCEPT ![r] = @ + 1]
  BY <1>4 DEF Inside
<1> QED
  BY <1>2, <1>4, <1>6, <1>8, <1>9, StepKeeps

\* A thread moves on to another place; it stays in the section, or outside, and
\* the wait context of SSL_poll is reset only outside.
LEMMA PlainStep ==
    ASSUME OneItemEach, IInv, NEW t \in Threads, NEW where \in Places \ {"cv", "woken"},
           pc[t] \notin {"cv", "woken"}, pc' = [pc EXCEPT ![t] = where],
           Inside(where) <=> Inside(pc[t]),
           where \in {"enter", "recheck", "abort", "quit", "left", "failed"}
             => t \in Pollers,
           ret' = ret, item' = item,
           cur_blocking_waiters' = cur_blocking_waiters,
           signalled_notifier' = signalled_notifier,
           mutex' = mutex \/ mutex' = [mutex EXCEPT ![Only(t)] = NoThread],
           due' = due, ready' \subseteq ready,
           \/ blocking_count' = blocking_count
           \/ /\ blocking_count' = [blocking_count EXCEPT ![t] = [r \in Reactors |-> 0]]
              /\ ~Inside(pc[t]),
           found' \in [Threads -> BOOLEAN], events' = events
    PROVE  IInv'
<1>1. /\ TypeOK /\ OtherTypes /\ item[t] = 1 /\ Only(t) \in Reactors
      /\ Roles(t) /\ Counted(t)
  BY ThreadFacts
<1>2. /\ Place(t) = pc[t] /\ Place(t)' = where
      /\ \A u \in Threads \ {t} : Place(u)' = Place(u)
      /\ pc' \in [Threads -> Places]
  BY <1>1, Goes DEF Place
<1>3. mutex' \in [Reactors -> Threads \cup {NoThread}]
  BY <1>1 DEF TypeOK
<1>4. /\ blocking_count' \in [Threads -> [Reactors -> Nat]]
      /\ \A u \in Threads \ {t} : blocking_count'[u] = blocking_count[u]
  <2>1. blocking_count \in [Threads -> [Reactors -> Nat]]
    BY <1>1 DEF TypeOK
  <2>2. [r \in Reactors |-> 0] \in [Reactors -> Nat]
    OBVIOUS
  <2> QED
    BY <2>1, <2>2
<1>5. OtherTypes'
  BY <1>1, <1>2, <1>3, <1>4 DEF OtherTypes
<1>6. Roles(t)'
  BY <1>1, <1>2 DEF Roles
<1>7. Counted(t)'
  <2>1. \/ blocking_count'[t] = blocking_count[t]
        \/ /\ blocking_count'[t] = [r \in Reactors |-> 0]
           /\ ~Inside(Place(t)')
    BY <1>1, <1>2 DEF TypeOK
  <2> QED
    BY <1>1, <1>2, <2>1 DEF Counted, Only
<1> QED
  BY <1>2, <1>4, <1>5, <1>6, <1>7, StepKeeps

\* A blocking call leaves the section.
LEMMA LeaveStep ==
    ASSUME OneItemEach, IInv, NEW t \in Threads, LeaveSection(t)
    PROVE  IInv'
<1>1. /\ TypeOK /\ OtherTypes /\ item[t] = 1 /\ Cur(t) = Only(t)
      /\ Only(t) \in Reactors /\ Roles(t) /\ Counted(t)
  BY ThreadFacts
<1>2. /\ t \in Blockers /\ pc[t] = "leave"
      /\ ossl_quic_reactor_leave_blocking_section(t, Cur(t), "tick")
      /\ UNCHANGED <<due, ready, item, blocking_count, found, events>>
  BY DEF LeaveSection
<1>3. Place(t) = "leave" /\ Inside(Place(t))
  BY <1>2 DEF Place, Inside
<1>4. /\ Place(t)' = "tick"
      /\ \A u \in Threads \ {t} : Place(u)' = Place(u)
      /\ cur_blocking_waiters' =
           [cur_blocking_waiters EXCEPT ![Only(t)] = @ - 1]
      /\ pc' \in [Threads -> Places]
      /\ ret' \in [Threads -> {"tick", "check", "left", "quit"}]
      /\ mutex' \in [Reactors -> Threads \cup {NoThread}]
      /\ signalled_notifier' \in [Reactors -> BOOLEAN]
  BY <1>2, <1>3, Leaves
<1>5. OtherTypes'
  BY <1>1, <1>2, <1>4 DEF OtherTypes
<1>6. t \notin Pollers /\ ~Inside(Place(t)')
  BY <1>2, <1>4 DEF Blockers, Inside
<1>7. Roles(t)' /\ Counted(t)'
  BY <1>1, <1>2, <1>4, <1>6 DEF Roles, Counted
<1> QED
  BY <1>2, <1>3, <1>4, <1>5, <1>6, <1>7, StepKeeps

\* SSL_poll leaves the section of its item: the wait context has it once.
LEMMA DeactivateStep ==
    ASSUME OneItemEach, IInv, NEW t \in Pollers, pc[t] \in {"abort", "leave"},
           NEW where \in {"quit", "left"}, slot_deactivate(t, Cur(t), where),
           UNCHANGED <<due, ready, item, found, events>>
    PROVE  IInv'
<1>1. /\ TypeOK /\ OtherTypes /\ item[t] = 1 /\ Cur(t) = Only(t)
      /\ Only(t) \in Reactors /\ Roles(t) /\ Counted(t) /\ t \in Threads
  BY ThreadFacts, ReactorAssumption
<1>2. Place(t) = pc[t] /\ Inside(Place(t))
  BY DEF Place, Inside
<1>3. /\ blocking_count[t][Only(t)] = 1
      /\ \A r \in Reactors \ {Only(t)} : blocking_count[t][r] = 0
  BY <1>1, <1>2 DEF Counted
<1>4. /\ blocking_count' = [blocking_count EXCEPT ![t][Only(t)] = @ - 1]
      /\ ossl_quic_reactor_leave_blocking_section(t, Cur(t), where)
  BY <1>1, <1>3 DEF slot_deactivate
<1>5. /\ Place(t)' = where
      /\ \A u \in Threads \ {t} : Place(u)' = Place(u)
      /\ cur_blocking_waiters' =
           [cur_blocking_waiters EXCEPT ![Only(t)] = @ - 1]
      /\ pc' \in [Threads -> Places]
      /\ ret' \in [Threads -> {"tick", "check", "left", "quit"}]
      /\ mutex' \in [Reactors -> Threads \cup {NoThread}]
      /\ signalled_notifier' \in [Reactors -> BOOLEAN]
  BY <1>1, <1>2, <1>4, Leaves
<1>6. /\ blocking_count' \in [Threads -> [Reactors -> Nat]]
      /\ \A u \in Threads \ {t} : blocking_count'[u] = blocking_count[u]
      /\ \A r \in Reactors : blocking_count'[t][r] = 0
  <2>1. blocking_count \in [Threads -> [Reactors -> Nat]]
    BY <1>1 DEF TypeOK
  <2> DEFINE b == [blocking_count[t] EXCEPT ![Only(t)] = 0]
  <2>2. blocking_count' = [blocking_count EXCEPT ![t] = b]
    BY <1>3, <1>4
  <2>3. b \in [Reactors -> Nat] /\ \A r \in Reactors : b[r] = 0
    BY <1>1, <1>3, <2>1
  <2> HIDE DEF b
  <2> QED
    BY <1>1, <2>1, <2>2, <2>3
<1>7. OtherTypes'
  BY <1>1, <1>5, <1>6 DEF OtherTypes
<1>8. ~Inside(Place(t)')
  BY <1>5 DEF Inside
<1>9. Roles(t)' /\ Counted(t)'
  BY <1>1, <1>5, <1>6, <1>8 DEF Roles, Counted
<1> QED
  BY <1>1, <1>2, <1>5, <1>6, <1>7, <1>8, <1>9, StepKeeps

\* SSL_poll enters the section of its item.
LEMMA ActivateStep ==
    ASSUME OneItemEach, IInv, NEW t \in Threads, poll_translate_enter(t)
    PROVE  IInv'
<1>1. /\ TypeOK /\ OtherTypes /\ item[t] = 1 /\ Cur(t) = Only(t)
      /\ Only(t) \in Reactors /\ Roles(t) /\ Counted(t)
  BY ThreadFacts
<1>2. /\ pc[t] = "enter" /\ slot_activate(t, Only(t))
      /\ pc' = [pc EXCEPT ![t] = "recheck"]
      /\ UNCHANGED <<mutex, signalled_notifier, due, ready, item, ret, found, events>>
  BY <1>1 DEF poll_translate_enter, Goto
<1>3. Place(t) = "enter" /\ ~Inside(Place(t)) /\ t \in Pollers
  BY <1>1, <1>2 DEF Place, Inside, Roles
<1>4. \A r \in Reactors : blocking_count[t][r] = 0
  BY <1>1, <1>3 DEF Counted
<1>5. /\ blocking_count' = [blocking_count EXCEPT ![t][Only(t)] = @ + 1]
      /\ cur_blocking_waiters' =
           [cur_blocking_waiters EXCEPT ![Only(t)] = @ + 1]
  BY <1>1, <1>2, <1>4 DEF slot_activate, ossl_quic_reactor_enter_blocking_section
<1>6. /\ Place(t)' = "recheck"
      /\ \A u \in Threads \ {t} : Place(u)' = Place(u)
      /\ pc' \in [Threads -> Places]
  <2>1. "recheck" \in Places \ {"cv", "woken"}
    BY DEF Places
  <2> QED
    BY <1>1, <1>2, <2>1, Goes
<1>7. /\ blocking_count' \in [Threads -> [Reactors -> Nat]]
      /\ \A u \in Threads \ {t} : blocking_count'[u] = blocking_count[u]
      /\ \A r \in Reactors :
           blocking_count'[t][r] = IF r = Only(t) THEN 1 ELSE 0
  <2>1. blocking_count \in [Threads -> [Reactors -> Nat]]
    BY <1>1 DEF TypeOK
  <2> DEFINE b == [blocking_count[t] EXCEPT ![Only(t)] = 1]
  <2>0. blocking_count[t][Only(t)] + 1 = 1
    BY <1>1, <1>4
  <2>2. blocking_count' = [blocking_count EXCEPT ![t] = b]
    BY <1>5, <2>0
  <2>3. b \in [Reactors -> Nat]
        /\ \A r \in Reactors : b[r] = IF r = Only(t) THEN 1 ELSE 0
    BY <1>1, <1>4, <2>1
  <2> HIDE DEF b
  <2> QED
    BY <1>1, <2>1, <2>2, <2>3
<1>8. OtherTypes'
  BY <1>1, <1>2, <1>6, <1>7 DEF OtherTypes
<1>9. Inside(Place(t)') /\ t \notin Assistants
  BY <1>3, <1>6, ReactorAssumption DEF Inside
<1>10. Roles(t)' /\ Counted(t)'
  BY <1>1, <1>2, <1>3, <1>6, <1>7, <1>9 DEF Roles, Counted, Only
<1> QED
  BY <1>1, <1>2, <1>3, <1>5, <1>6, <1>7, <1>8, <1>9, <1>10, StepKeeps

\* The other steps of a thread.
LEMMA OtherSteps ==
    ASSUME OneItemEach, IInv, NEW t \in Threads,
           \/ PollReturn(t) \/ PollTimeout(t) \/ assist_thread_main(t)
           \/ poll_readout(t) \/ DeadlineExpired(t) \/ poll_translate_recheck(t)
           \/ poll_block_abort(t) \/ poll_block(t) \/ Call(t)
    PROVE  IInv'
<1>1. /\ TypeOK /\ item[t] = 1 /\ AtLast(t) /\ Cur(t) = Only(t)
      /\ item \in [Threads -> Nat] /\ found \in [Threads -> BOOLEAN] /\ Roles(t)
  BY ThreadFacts DEF TypeOK
<1>2. [item EXCEPT ![t] = 1] = item
  BY <1>1
<1>3. NextItem(t) => item' = item
  BY <1>1, <1>2 DEF NextItem
<1>4. pc[t] \in {"enter", "recheck", "quit", "left"} => t \in Pollers
  BY <1>1 DEF Roles, Place
<1>5. CASE PollReturn(t) \/ PollTimeout(t)
  <2>1. /\ pc[t] = "poll" /\ pc' = [pc EXCEPT ![t] = "leave"]
        /\ UNCHANGED <<rtor, due, ready, item, ret, blocking_count, found, events>>
    BY <1>5 DEF PollReturn, PollTimeout, Goto
  <2>2. "leave" \in Places \ {"cv", "woken"} /\ Inside("leave") /\ Inside("poll")
    BY DEF Places, Inside
  <2> QED
    BY <1>1, <2>1, <2>2, PlainStep DEF rtor
<1>6. CASE assist_thread_main(t)
  <2>1. /\ pc[t] = "check" /\ pc' = [pc EXCEPT ![t] = "tick"]
        /\ mutex' = [mutex EXCEPT ![Only(t)] = NoThread]
        /\ UNCHANGED <<cur_blocking_waiters, signalled_notifier, due, ready, item,
                       ret, blocking_count, found, events>>
    BY <1>1, <1>6 DEF assist_thread_main, Goto
  <2>2. "tick" \in Places \ {"cv", "woken"} /\ ~Inside("tick") /\ ~Inside("check")
    BY DEF Places, Inside
  <2> QED
    BY <1>1, <2>1, <2>2, PlainStep
<1>7. CASE poll_readout(t)
  <2> DEFINE any == found[t] \/ <<t, item[t]>> \in ready
             where == IF any THEN "done" ELSE "enter"
  <2>1. /\ t \in Pollers /\ pc[t] = "check" /\ item' = item
        /\ pc' = [pc EXCEPT ![t] = where]
        /\ mutex' = [mutex EXCEPT ![Only(t)] = NoThread]
        /\ found' = [found EXCEPT ![t] = any /\ ~AtLast(t)]
        /\ UNCHANGED <<cur_blocking_waiters, signalled_notifier, due, ready, ret,
                       blocking_count, events>>
    BY <1>1, <1>3, <1>7 DEF poll_readout, Goto
  <2>2. found' \in [Threads -> BOOLEAN]
    <3>1. (any /\ ~AtLast(t)) \in BOOLEAN
      OBVIOUS
    <3> HIDE DEF any
    <3> QED
      BY <1>1, <2>1, <3>1
  <2>3. where \in Places \ {"cv", "woken"} /\ ~Inside(where) /\ ~Inside("check")
    BY DEF Places, Inside
  <2> HIDE DEF where
  <2> QED
    BY <1>1, <2>1, <2>2, <2>3, PlainStep
<1>8. CASE DeadlineExpired(t)
  <2>1. /\ pc[t] = "enter" /\ pc' = [pc EXCEPT ![t] = "done"]
        /\ UNCHANGED <<rtor, due, ready, item, ret, blocking_count, found, events>>
    BY <1>8 DEF DeadlineExpired, Goto
  <2>2. "done" \in Places \ {"cv", "woken"} /\ ~Inside("done") /\ ~Inside("enter")
    BY DEF Places, Inside
  <2> QED
    BY <1>1, <2>1, <2>2, PlainStep DEF rtor
<1>9. CASE poll_translate_recheck(t)
  <2> DEFINE where == IF <<t, item[t]>> \in ready THEN "abort" ELSE "poll"
  <2>1. /\ pc[t] = "recheck" /\ pc' = [pc EXCEPT ![t] = where] /\ item' = item
        /\ UNCHANGED <<rtor, due, ready, ret, blocking_count, found, events>>
    BY <1>1, <1>3, <1>9 DEF poll_translate_recheck, Goto
  <2>2. where \in Places \ {"cv", "woken"} /\ Inside(where) /\ Inside("recheck")
    BY DEF Places, Inside
  <2> HIDE DEF where
  <2> QED
    BY <1>1, <1>4, <2>1, <2>2, PlainStep DEF rtor
<1>10. CASE poll_block_abort(t)
  <2>1. /\ pc[t] = "quit" /\ pc' = [pc EXCEPT ![t] = "failed"] /\ item' = item
        /\ blocking_count' = [blocking_count EXCEPT ![t] = [r \in Reactors |-> 0]]
        /\ UNCHANGED <<rtor, due, ready, ret, found, events>>
    BY <1>2, <1>10 DEF poll_block_abort, Goto
  <2>2. "failed" \in Places \ {"cv", "woken"} /\ ~Inside("failed") /\ ~Inside("quit")
    BY DEF Places, Inside
  <2> QED
    BY <1>1, <1>4, <2>1, <2>2, PlainStep DEF rtor
<1>11. CASE poll_block(t)
  <2>1. /\ pc[t] = "left" /\ pc' = [pc EXCEPT ![t] = "tick"] /\ item' = item
        /\ blocking_count' = [blocking_count EXCEPT ![t] = [r \in Reactors |-> 0]]
        /\ UNCHANGED <<rtor, due, ready, ret, found, events>>
    BY <1>1, <1>3, <1>11 DEF poll_block, Goto
  <2>2. "tick" \in Places \ {"cv", "woken"} /\ ~Inside("tick") /\ ~Inside("left")
    BY DEF Places, Inside
  <2> QED
    BY <1>1, <1>4, <2>1, <2>2, PlainStep DEF rtor
<1>12. CASE Call(t)
  <2>1. /\ pc[t] \in {"done", "failed"} /\ pc' = [pc EXCEPT ![t] = "tick"]
        /\ ready' \subseteq ready
        /\ UNCHANGED <<rtor, due, item, ret, blocking_count, found, events>>
    BY <1>12 DEF Call, Goto
  <2>2. /\ "tick" \in Places \ {"cv", "woken"} /\ ~Inside("tick")
        /\ ~Inside(pc[t]) /\ pc[t] \notin {"cv", "woken"}
    BY <2>1 DEF Places, Inside
  <2> QED
    BY <1>1, <2>1, <2>2, PlainStep DEF rtor
<1> QED
  BY <1>5, <1>6, <1>7, <1>8, <1>9, <1>10, <1>11, <1>12

\* Something happens outside.
LEMMA HappenStep ==
    ASSUME IInv, NEW r \in Reactors, NEW k \in Kinds, Happen(r, k)
    PROVE  IInv'
<1>1. TypeOK'
  <2>1. due' \subseteq Reactors \X Kinds
    BY DEF Happen, IInv, TypeOK
  <2>2. events' \in 0..MaxEvents
    BY ReactorAssumption DEF Happen, IInv, TypeOK
  <2>3. UNCHANGED <<mutex, cur_blocking_waiters, signalled_notifier, ready, pc,
                    item, ret, blocking_count, found>>
    BY DEF Happen, rtor
  <2> QED
    BY <2>1, <2>2, <2>3 DEF IInv, TypeOK
<1>2. \A t \in Threads : Roles(t)' /\ Counted(t)'
  BY DEF Happen, IInv, Roles, Counted, Place
<1>3. WaitersExact'
  BY DEF Happen, IInv, WaitersExact, Entered, EnteredItems, rtor
<1> QED
  BY <1>1, <1>2, <1>3 DEF IInv

\* Every step keeps the invariant.
LEMMA NextKeeps ==
    ASSUME OneItemEach, IInv, [Next]_vars
    PROVE  IInv'
<1>1. CASE UNCHANGED vars
  <2>1. TypeOK'
    BY <1>1 DEF vars, rtor, IInv, TypeOK
  <2>2. \A t \in Threads : Roles(t)' /\ Counted(t)'
    BY <1>1 DEF vars, IInv, Roles, Counted, Place
  <2>3. WaitersExact'
    BY <1>1 DEF vars, rtor, IInv, WaitersExact, Entered, EnteredItems
  <2> QED
    BY <2>1, <2>2, <2>3 DEF IInv
<1>2. ASSUME NEW t \in Threads, poll_translate_abort(t)
      PROVE  IInv'
  <2>1. pc[t] = "abort" /\ t \in Pollers
    BY <1>2, ThreadFacts DEF poll_translate_abort, Roles, Place
  <2> QED
    BY <1>2, <2>1, DeactivateStep DEF poll_translate_abort
<1>3. ASSUME NEW t \in Threads, postpoll_translation_cleanup(t)
      PROVE  IInv'
  BY <1>3, DeactivateStep DEF postpoll_translation_cleanup
<1>4. CASE Next
  BY <1>2, <1>3, <1>4, HappenStep, TickStep, CvStep, CheckStep, LeaveStep,
     ActivateStep, OtherSteps DEF Next, Step
<1> QED
  BY <1>1, <1>4

\* No thread blocks at first.
LEMMA InitKeeps ==
    ASSUME OneItemEach, Init
    PROVE  IInv
<1>1. TypeOK
  <2>1. \A t \in Threads : item[t] \in DOMAIN items[t]
    BY OneItem DEF Init
  <2> QED
    BY <2>1, ReactorAssumption DEF Init, TypeOK, Places
<1>2. \A t \in Threads : Place(t) = "tick"
  BY DEF Init, Place
<1>3. \A t \in Threads : Roles(t) /\ Counted(t)
  BY <1>2 DEF Init, Roles, Counted, Inside
<1>4. WaitersExact
  <2>1. ASSUME NEW t \in Threads PROVE Entered(t) = {}
    BY DEF Init, Entered, EnteredItems
  <2>2. \A r \in Reactors : {t \in Threads : r \in Entered(t)} = {}
    BY <2>1
  <2>3. \A r \in Reactors : cur_blocking_waiters[r] = 0
    BY DEF Init
  <2> QED
    BY <2>2, <2>3, FS_EmptySet DEF WaitersExact
<1> QED
  BY <1>1, <1>3, <1>4 DEF IInv

-----------------------------------------------------------------------------
(***************************************************************************)
(* What the system promises                                                *)
(***************************************************************************)

\* The invariant behind the others.
THEOREM InductiveInvariant == OneItemEach => (Spec => []IInv)
<1> SUFFICES ASSUME OneItemEach PROVE Spec => []IInv
  OBVIOUS
<1>1. Init => IInv
  BY InitKeeps
<1>2. IInv /\ [Next]_vars => IInv'
  BY NextKeeps
<1> QED
  BY <1>1, <1>2, PTL DEF Spec

\* Every variable keeps its type, and the counts do not go below zero.
THEOREM TypeCorrect == OneItemEach => (Spec => []TypeOK)
<1> SUFFICES ASSUME OneItemEach PROVE Spec => []TypeOK
  OBVIOUS
<1>1. IInv => TypeOK
  BY DEF IInv
<1>2. Spec => []IInv
  BY InductiveInvariant
<1> QED
  BY <1>1, <1>2, PTL

\* cur_blocking_waiters is the number of threads in the section, although
\* entering, leaving and waiting for the notifier to be reset interleave.
THEOREM WaitersCounted == OneItemEach => (Spec => []WaitersExact)
<1> SUFFICES ASSUME OneItemEach PROVE Spec => []WaitersExact
  OBVIOUS
<1>1. IInv => WaitersExact
  BY DEF IInv
<1>2. Spec => []IInv
  BY InductiveInvariant
<1> QED
  BY <1>1, <1>2, PTL

\* The notifier is reset only by the last thread out of the section.
LEMMA ResetByLast ==
    ASSUME OneItemEach, IInv, IInv', [Next]_vars, NEW r \in Reactors,
           signalled_notifier[r], ~signalled_notifier'[r]
    PROVE  \A t \in Threads : r \in ReactorsOf(t) => pc'[t] # "poll"
<1>1. PICK t \in Threads : \E where \in {"tick", "quit", "left"} :
        ossl_quic_reactor_leave_blocking_section(t, Cur(t), where)
  <2>1. CASE signalled_notifier' = signalled_notifier
    BY <2>1
  <2>2. CASE Next
    <3>1. \E t \in Threads : \/ Tick(t) \/ LeaveSection(t) \/ poll_translate_abort(t)
                             \/ postpoll_translation_cleanup(t)
                             \/ signalled_notifier' = signalled_notifier
      BY <2>2, <2>1 DEF Next, Step, Happen, CvReturn, CheckPred, PollReturn, PollTimeout,
         assist_thread_main, poll_readout, DeadlineExpired, poll_translate_enter,
         poll_translate_recheck, poll_block_abort, poll_block, Call, rtor
    <3>2. PICK t \in Threads : \/ Tick(t) \/ LeaveSection(t) \/ poll_translate_abort(t)
                               \/ postpoll_translation_cleanup(t)
      BY <2>1, <3>1
    <3>3. CASE Tick(t)
      <4>1. \/ signalled_notifier' = signalled_notifier
            \/ signalled_notifier' = [signalled_notifier EXCEPT ![Cur(t)] = TRUE]
        BY <3>3 DEF Tick, ossl_quic_reactor_tick, rtor_notify_other_threads
      <4> QED
        BY <4>1 DEF IInv, TypeOK
    <3>4. CASE LeaveSection(t)
      BY <3>4 DEF LeaveSection
    <3>5. CASE poll_translate_abort(t) \/ postpoll_translation_cleanup(t)
      BY <2>1, <3>5 DEF poll_translate_abort, postpoll_translation_cleanup,
         slot_deactivate, rtor
    <3> QED
      BY <3>2, <3>3, <3>4, <3>5
  <2> QED
    BY <2>1, <2>2 DEF vars, rtor
<1>2. cur_blocking_waiters'[r] = 0
  <2>1. Cur(t) = r
    BY <1>1 DEF IInv, TypeOK, ossl_quic_reactor_leave_blocking_section
  <2>2. cur_blocking_waiters[r] - 1 = 0
    BY <1>1, <2>1 DEF IInv, TypeOK, ossl_quic_reactor_leave_blocking_section
  <2> QED
    BY <1>1, <2>1, <2>2 DEF IInv, TypeOK, ossl_quic_reactor_leave_blocking_section
<1>3. ASSUME NEW u \in Threads, r \in ReactorsOf(u), pc'[u] = "poll" PROVE FALSE
  <2>1. r = Only(u)
    BY <1>3, OneItem
  <2>2. item[u] = 1 /\ item'[u] = 1
    BY DEF IInv, Roles
  <2>3. Place(u)' = "poll" /\ Inside(Place(u)')
    BY <1>3 DEF Place, Inside
  <2>4. r \in Entered(u)'
    BY <2>1, <2>2, <2>3, EnteredIs
  <2> DEFINE W == {t1 \in Threads : r \in Entered(t1)'}
  <2>5. cur_blocking_waiters'[r] = Cardinality(W)
    BY DEF IInv, WaitersExact
  <2>6. IsFiniteSet(W)
    BY ReactorAssumption, FS_Subset
  <2>7. u \in W
    BY <2>4
  <2> HIDE DEF W
  <2> QED
    BY <1>2, <2>5, <2>6, <2>7, FS_EmptySet
<1> QED
  BY <1>3

\* No thread still sleeps on a notifier that is reset.
THEOREM SleepersHaveWoken == OneItemEach => (Spec => AllHaveWoken)
<1> SUFFICES ASSUME OneItemEach PROVE Spec => AllHaveWoken
  OBVIOUS
<1>1. IInv /\ IInv' /\ [Next]_vars =>
        [\A r \in Reactors :
           signalled_notifier[r] /\ ~signalled_notifier'[r] =>
             \A t \in Threads : r \in ReactorsOf(t) => pc'[t] # "poll"]_vars
  BY ResetByLast
<1>2. Spec => []IInv
  BY InductiveInvariant
<1> QED
  BY <1>1, <1>2, PTL DEF Spec, AllHaveWoken

\* A step other than a tick makes nothing ready, and a thread that goes to sleep
\* has found that what it waits for is not.
LEMMA SleepsUnready ==
    ASSUME OneItemEach, IInv, [Next]_vars, NEW u \in Threads,
           \A t \in Threads : ~Tick(t)
    PROVE  /\ ready' \subseteq ready /\ due \subseteq due'
           /\ pc'[u] = "poll" => pc[u] = "poll" \/ <<u, 1>> \notin ready
<1> USE DEF Goto
<1>1. TypeOK
  BY DEF IInv
<1>2. CASE UNCHANGED vars
  BY <1>2 DEF vars
<1>3. ASSUME NEW r \in Reactors, NEW k \in Kinds, Happen(r, k)
      PROVE  /\ ready' = ready /\ due \subseteq due' /\ pc' = pc
  BY <1>3 DEF Happen
<1>4. ASSUME NEW t \in Threads, CheckPred(t) \/ poll_translate_recheck(t)
      PROVE  /\ ready' = ready /\ due' = due
             /\ pc'[u] = "poll" => pc[u] = "poll" \/ <<u, 1>> \notin ready
  <2>1. item[t] = 1
    BY ThreadFacts
  <2>2. CASE u = t
    BY <1>1, <1>4, <2>1, <2>2 DEF TypeOK, CheckPred, poll_translate_recheck
  <2>3. CASE u # t
    BY <1>1, <1>4, <2>3 DEF TypeOK, CheckPred, poll_translate_recheck
  <2> QED
    BY <1>4, <2>2, <2>3 DEF CheckPred, poll_translate_recheck
<1>5. ASSUME NEW t \in Threads,
             \/ CvReturn(t) \/ PollReturn(t) \/ PollTimeout(t)
             \/ assist_thread_main(t) \/ poll_readout(t) \/ DeadlineExpired(t)
             \/ poll_translate_enter(t) \/ poll_block_abort(t) \/ poll_block(t)
             \/ Call(t)
      PROVE  /\ ready' \subseteq ready /\ due' = due
             /\ pc'[u] = "poll" => pc[u] = "poll"
  <2>1. ret[t] # "poll"
    BY <1>1 DEF TypeOK
  <2>2. \E where : pc' = [pc EXCEPT ![t] = where] /\ where # "poll"
    BY <1>5, <2>1 DEF CvReturn, PollReturn, PollTimeout, assist_thread_main,
       poll_readout, DeadlineExpired, poll_translate_enter, poll_block_abort,
       poll_block, Call
  <2>3. ready' \subseteq ready /\ due' = due
    BY <1>5 DEF CvReturn, PollReturn, PollTimeout, assist_thread_main,
       poll_readout, DeadlineExpired, poll_translate_enter, poll_block_abort,
       poll_block, Call
  <2> QED
    BY <1>1, <2>2, <2>3 DEF TypeOK
<1>6. ASSUME NEW t \in Threads,
             \/ LeaveSection(t) \/ poll_translate_abort(t)
             \/ postpoll_translation_cleanup(t)
      PROVE  /\ ready' = ready /\ due' = due
             /\ pc'[u] = "poll" => pc[u] = "poll"
  <2>1. ready' = ready /\ due' = due
    BY <1>6 DEF LeaveSection, poll_translate_abort, postpoll_translation_cleanup
  <2>2. \/ \E where \in {"tick", "quit", "left"} :
             ossl_quic_reactor_leave_blocking_section(t, Cur(t), where)
        \/ \E where \in {"quit", "left"} : pc' = [pc EXCEPT ![t] = where]
    BY <1>6 DEF LeaveSection, poll_translate_abort, postpoll_translation_cleanup,
       slot_deactivate
  <2>3. CASE \E where \in {"tick", "quit", "left"} :
               ossl_quic_reactor_leave_blocking_section(t, Cur(t), where)
    BY <2>1, <2>3 DEF ossl_quic_reactor_leave_blocking_section
  <2>4. CASE \E where \in {"quit", "left"} : pc' = [pc EXCEPT ![t] = where]
    BY <1>1, <2>1, <2>4 DEF TypeOK
  <2> QED
    BY <2>2, <2>3, <2>4
<1>7. CASE Next
  BY <1>3, <1>4, <1>5, <1>6, <1>7 DEF Next, Step
<1> QED
  BY <1>2, <1>7

\* The notifier, or the socket, that is about to wake a thread.
LEMMA WokenBy ==
    ASSUME OneItemEach, NoLostWakeup, NEW u \in Threads, pc[u] = "poll",
           <<u, 1>> \in ready
    PROVE  \/ signalled_notifier[Only(u)] \/ <<Only(u), "data">> \in due
           \/ <<Only(u), "reset">> \in due
<1>1. DOMAIN items[u] = 1..1 /\ ReactorsOf(u) = {Only(u)}
  BY OneItem
<1>2. 1 \in DOMAIN items[u]
  BY <1>1
<1>3. Readable(u)
  BY <1>2 DEF NoLostWakeup
<1> QED
  BY <1>1, <1>3 DEF Readable

\* A tick that makes something ready has handled packets or a timeout, and
\* therefore signals the notifier if a thread sleeps.
LEMMA TickWakes ==
    ASSUME OneItemEach, "reset" \notin Kinds, IInv, NoLostWakeup,
           NEW t \in Threads, Tick(t),
           NEW u \in Threads, pc'[u] = "poll", <<u, 1>> \in ready'
    PROVE  signalled_notifier'[Only(u)] \/ <<Only(u), "data">> \in due'
<1> DEFINE r == Only(u)
           q == Only(t)
<1>1. /\ TypeOK /\ Cur(t) = q /\ q \in Reactors
      /\ r \in Reactors /\ item[u] = 1
      /\ DOMAIN items[u] = 1..1 /\ ReactorsOf(u) = {r}
  BY ThreadFacts, OneItem
<1>2. ossl_quic_reactor_tick(t, q, "check")
  BY <1>1 DEF Tick
<1>3. pc[u] = "poll"
  <2>1. pc' = [pc EXCEPT ![t] = "check"] \/ pc' = [pc EXCEPT ![t] = "cv"]
    BY <1>2 DEF ossl_quic_reactor_tick, rtor_notify_other_threads, Goto
  <2> QED
    BY <1>1, <2>1 DEF TypeOK
<1>4. Place(u) = "poll"
  BY <1>3 DEF Place
<1>5. <<u, 1>> \in ready =>
        signalled_notifier[r] \/ <<r, "data">> \in due \/ <<r, "reset">> \in due
  BY <1>3, WokenBy
<1>6. <<r, "reset">> \notin due /\ (<<r, "data">> \in due => "data" \in DueOn(r))
  BY <1>1 DEF TypeOK, DueOn
<1>7. PICK new \in SUBSET (IF DueOn(q) = {} THEN {} ELSE ItemsOn(q)) :
        ready' = ready \cup new
  BY <1>2 DEF ossl_quic_reactor_tick
<1>8. due' = {d \in due : d[1] # q}
  BY <1>2 DEF ossl_quic_reactor_tick
<1>9. /\ signalled_notifier' = signalled_notifier
         \/ signalled_notifier' = [signalled_notifier EXCEPT ![q] = TRUE]
      /\ NotifyOtherThreads(DueOn(q)) /\ cur_blocking_waiters[q] # 0 =>
           signalled_notifier' = [signalled_notifier EXCEPT ![q] = TRUE]
  BY <1>2 DEF ossl_quic_reactor_tick, rtor_notify_other_threads
<1>10. signalled_notifier \in [Reactors -> BOOLEAN]
  BY <1>1 DEF TypeOK
<1> HIDE DEF r, q
<1>11. CASE q # r
  <2>1. <<u, 1>> \notin ItemsOn(q)
    BY <1>11 DEF ItemsOn, r, Only
  <2>2. <<u, 1>> \in ready
    BY <1>7, <2>1
  <2>3. <<r, "data">> \in due => <<r, "data">> \in due'
    BY <1>8, <1>11
  <2>4. signalled_notifier[r] => signalled_notifier'[r]
    BY <1>1, <1>9, <1>10
  <2> QED
    BY <1>5, <1>6, <2>2, <2>3, <2>4 DEF r
<1>12. CASE q = r /\ DueOn(q) = {}
  <2>1. <<u, 1>> \in ready
    BY <1>7, <1>12
  <2>2. signalled_notifier[r]
    BY <1>5, <1>6, <1>12, <2>1
  <2> QED
    BY <1>1, <1>9, <1>10, <2>2 DEF r
<1>13. CASE q = r /\ DueOn(q) # {}
  <2>1. NotifyOtherThreads(DueOn(q))
    BY <1>13, ReactorAssumption DEF DueOn, NotifyOtherThreads
  <2>2. cur_blocking_waiters[q] # 0
    <3>1. Waiters(r) \in SUBSET Threads /\ IsFiniteSet(Threads)
      BY ReactorAssumption DEF Waiters
    <3>2. IsFiniteSet(Waiters(r))
      BY <3>1, FS_Subset
    <3>3. cur_blocking_waiters[r] = Cardinality(Waiters(r))
      BY <1>1 DEF IInv, WaitersExact, Waiters
    <3>4. item'[u] = 1
      BY <1>1 DEF Tick
    <3>5. r \in Entered(u)
      BY <1>1, <1>4, <3>4, EnteredIs DEF Inside, r
    <3>6. u \in Waiters(r)
      BY <3>5 DEF Waiters
    <3> QED
      BY <1>13, <3>2, <3>3, <3>6, FS_EmptySet
  <2> QED
    BY <1>1, <1>9, <1>10, <1>13, <2>1, <2>2 DEF r
<1> QED
  BY <1>11, <1>12, <1>13

\* A thread that sleeps while what it waits for has happened is about to be
\* woken: every tick that handles packets or a timeout notifies.  Not so for a
\* stateless reset, which the port handles without a notification.
THEOREM WakeupsKept ==
    OneItemEach /\ "reset" \notin Kinds => (Spec => []NoLostWakeup)
<1> SUFFICES ASSUME OneItemEach, "reset" \notin Kinds
             PROVE  Spec => []NoLostWakeup
  OBVIOUS
<1>1. Init => NoLostWakeup
  BY DEF Init, NoLostWakeup
<1>2. ASSUME IInv, IInv', NoLostWakeup, [Next]_vars PROVE NoLostWakeup'
  <2> SUFFICES ASSUME NEW u \in Threads, pc'[u] = "poll",
                      NEW i \in DOMAIN items[u], <<u, i>> \in ready'
               PROVE  Readable(u)'
    BY DEF NoLostWakeup
  <2>1. /\ DOMAIN items[u] = 1..1 /\ ReactorsOf(u) = {Only(u)}
        /\ Only(u) \in Reactors
    BY OneItem
  <2>2. i = 1
    BY <2>1
  <2>3. signalled_notifier'[Only(u)] \/ <<Only(u), "data">> \in due'
    <3>1. CASE \E t \in Threads : Tick(t)
      BY <1>2, <2>2, <3>1, TickWakes
    <3>2. CASE \A t \in Threads : ~Tick(t)
      <4>1. <<u, 1>> \in ready /\ pc[u] = "poll" /\ due \subseteq due'
        BY <1>2, <2>2, <3>2, SleepsUnready
      <4>2. \/ signalled_notifier[Only(u)] \/ <<Only(u), "data">> \in due
            \/ <<Only(u), "reset">> \in due
        BY <1>2, <4>1, WokenBy
      <4>3. <<Only(u), "reset">> \notin due
        BY <1>2 DEF IInv, TypeOK
      <4>4. signalled_notifier[Only(u)] => signalled_notifier'[Only(u)]
        BY <1>2, <2>1, ResetByLast
      <4> QED
        BY <4>1, <4>2, <4>3, <4>4
    <3> QED
      BY <3>1, <3>2
  <2> QED
    BY <2>1, <2>3 DEF Readable
<1>3. Spec => []IInv
  BY InductiveInvariant
<1> QED
  BY <1>1, <1>2, <1>3, PTL DEF Spec
=============================================================================
