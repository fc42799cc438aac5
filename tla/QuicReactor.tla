----------------------------- MODULE QuicReactor -----------------------------
(***************************************************************************)
(* Threads that block on QUIC reactors (ssl/quic/quic_reactor.c): how one  *)
(* wakes the others when its tick may have made progress for them.         *)
(*                                                                         *)
(* A thread calls ossl_quic_reactor_block_until_pred (a blocking SSL_read  *)
(* or SSL_write), or SSL_poll (ssl/rio/poll_immediate.c) on a list of      *)
(* items, or it is an assist thread (quic_thread_assist.c), which only     *)
(* ticks.  Each reactor has the mutex of its QUIC domain, a notifier that  *)
(* is readable while signalled_notifier is set, and a condition variable.  *)
(*                                                                         *)
(* A tick handles what has arrived from the network and the timers that    *)
(* are due, which makes some of the things that threads wait for happen.   *)
(* Errors of the OS and failing allocations are left out.                  *)
(***************************************************************************)
EXTENDS Naturals, Sequences, FiniteSets

CONSTANTS
    Threads,
    NoThread,       \* Not a thread: the mutex is free
    Reactors,
    Pollers,        \* Threads that call SSL_poll
    Assistants,     \* Assist threads
    items,          \* For each thread the reactors of the objects it waits for
    Kinds,          \* What can happen: some of "data", "reset" and "timer"
    MaxEvents       \* Bound: how often anything happens

ASSUME ReactorAssumption ==
    /\ IsFiniteSet(Threads) /\ NoThread \notin Threads
    /\ Pollers \subseteq Threads /\ Assistants \subseteq Threads \ Pollers
    /\ items \in [Threads -> Seq(Reactors) \ {<<>>}]
    /\ \A t \in Threads \ Pollers : Len(items[t]) = 1
    /\ Kinds \subseteq {"data", "reset", "timer"}
    /\ MaxEvents \in Nat

VARIABLES
    mutex,                  \* For each reactor the thread that holds its mutex
    cur_blocking_waiters,
    signalled_notifier,
    due,                    \* Pairs <<r, k>>: what the next tick of r handles
    ready,                  \* Pairs <<t, i>>: item i of t has what t waits for
    pc,                     \* Where a thread is
    item,                   \* The item it is at
    ret,                    \* Where it goes on after the condition variable
    blocking_count,         \* Its wait context (quic_reactor_wait_ctx.c)
    found,                  \* poll_readout has found an event
    events                  \* How much has happened

rtor == <<mutex, cur_blocking_waiters, signalled_notifier>>
vars == <<rtor, due, ready, pc, item, ret, blocking_count, found, events>>

Blockers == Threads \ (Pollers \cup Assistants)

\* The reactor of the item a thread is at, and all it waits on.
Cur(t) == items[t][item[t]]
ReactorsOf(t) == {items[t][i] : i \in DOMAIN items[t]}
ItemsOn(r) == UNION {{<<t, i>> : i \in {j \in DOMAIN items[t] : items[t][j] = r}} :
                     t \in Threads}

\* The mutex of the item's reactor is free, or t has it already.
Free(t) == mutex[Cur(t)] \in {NoThread, t}

Goto(t, where) == pc' = [pc EXCEPT ![t] = where]

\* Item after the one t is at, or the first again after the last.
AtLast(t) == item[t] = Len(items[t])

NextItem(t) == item' = [item EXCEPT ![t] = IF AtLast(t) THEN 1 ELSE @ + 1]

\* Who has the mutex while a thread is at this place.
Holds(t, where) == IF where \in {"tick", "check"} THEN t ELSE NoThread

-----------------------------------------------------------------------------
Init ==
    /\ mutex = [r \in Reactors |-> NoThread]
    /\ cur_blocking_waiters = [r \in Reactors |-> 0]
    /\ signalled_notifier = [r \in Reactors |-> FALSE]
    /\ due = {}
    /\ ready = {}
    /\ pc = [t \in Threads |-> "tick"]
    /\ item = [t \in Threads |-> 1]
    /\ ret = [t \in Threads |-> "tick"]
    /\ blocking_count = [t \in Threads |-> [r \in Reactors |-> 0]]
    /\ found = [t \in Threads |-> FALSE]
    /\ events = 0

\* Packets or a stateless reset arrive, or a timer of a channel expires.
Happen(r, k) ==
    /\ events < MaxEvents /\ events' = events + 1
    /\ <<r, k>> \notin due /\ due' = due \cup {<<r, k>>}
    /\ UNCHANGED <<rtor, ready, pc, item, ret, blocking_count, found>>

-----------------------------------------------------------------------------
(***************************************************************************)
(* The reactor                                                             *)
(***************************************************************************)

\* Mutant: nobody is notified.
NotifyNobody(t, r, where) ==
    /\ mutex' = [mutex EXCEPT ![r] = t]
    /\ Goto(t, where)
    /\ UNCHANGED <<signalled_notifier, ret>>

\* t wakes the threads that block on r and waits until all have woken.
rtor_notify_other_threads(t, r, where) ==
    IF cur_blocking_waiters[r] = 0
    THEN /\ mutex' = [mutex EXCEPT ![r] = t]
         /\ Goto(t, where)
         /\ UNCHANGED <<signalled_notifier, ret>>
    ELSE /\ signalled_notifier' = [signalled_notifier EXCEPT ![r] = TRUE]
         /\ mutex' = [mutex EXCEPT ![r] = NoThread]
         /\ Goto(t, "cv")
         /\ ret' = [ret EXCEPT ![t] = where]

\* What a tick has to handle, and whether it then asks for a notification: the
\* tick of a channel does so for the packets and timeouts it handles.  A
\* stateless reset is handled by the port before it ticks the channel, which
\* then has nothing to handle and does not ask.
DueOn(r) == {k \in Kinds : <<r, k>> \in due}
NotifyOtherThreads(kinds) == kinds \cap {"data", "timer"} # {}

ossl_quic_reactor_tick(t, r, where) ==
    /\ due' = {d \in due : d[1] # r}
    /\ \E new \in SUBSET (IF DueOn(r) = {} THEN {} ELSE ItemsOn(r)) :
           ready' = ready \cup new
    /\ IF NotifyOtherThreads(DueOn(r))
       THEN rtor_notify_other_threads(t, r, where)
       ELSE /\ mutex' = [mutex EXCEPT ![r] = t]
            /\ Goto(t, where)
            /\ UNCHANGED <<signalled_notifier, ret>>
    /\ UNCHANGED cur_blocking_waiters

\* A thread locks the mutex, if it has not got it yet, and ticks.
Tick(t) ==
    /\ pc[t] = "tick"
    /\ Free(t)
    /\ ossl_quic_reactor_tick(t, Cur(t), "check")
    /\ UNCHANGED <<item, blocking_count, found, events>>

\* The thread has been woken by the condition variable and takes the mutex; if
\* the notifier is still signalled, or is signalled again, it waits on.
CvReturn(t) ==
    LET r == Cur(t)
    IN  /\ pc[t] = "woken"
        /\ mutex[r] = NoThread
        /\ IF signalled_notifier[r]
           THEN Goto(t, "cv") /\ UNCHANGED mutex
           ELSE /\ Goto(t, ret[t])
                /\ mutex' = [mutex EXCEPT ![r] = Holds(t, ret[t])]
        /\ UNCHANGED <<cur_blocking_waiters, signalled_notifier, due, ready,
                       item, ret, blocking_count, found, events>>

ossl_quic_reactor_enter_blocking_section(r) ==
    cur_blocking_waiters' = [cur_blocking_waiters EXCEPT ![r] = @ + 1]

\* Mutant: every thread that leaves resets the notifier.
LeaveUnsignals(t, r, where) ==
    LET left == cur_blocking_waiters[r] - 1
    IN  /\ cur_blocking_waiters' = [cur_blocking_waiters EXCEPT ![r] = left]
        /\ signalled_notifier' = [signalled_notifier EXCEPT ![r] = FALSE]
        /\ mutex' = [mutex EXCEPT ![r] = Holds(t, where)]
        /\ pc' = [u \in Threads |->
                    IF u = t THEN where
                    ELSE IF pc[u] = "cv" /\ Cur(u) = r THEN "woken" ELSE pc[u]]
        /\ UNCHANGED ret

\* t leaves the blocking section of r.  If the notifier is signalled, the last
\* thread out resets it and broadcasts and the others wait for that.
ossl_quic_reactor_leave_blocking_section(t, r, where) ==
    LET left == cur_blocking_waiters[r] - 1
        wait == signalled_notifier[r] /\ left > 0
        release == signalled_notifier[r] /\ left = 0
    IN  /\ cur_blocking_waiters' = [cur_blocking_waiters EXCEPT ![r] = left]
        /\ signalled_notifier' =
             [signalled_notifier EXCEPT ![r] = @ /\ ~release]
        /\ mutex' = [mutex EXCEPT ![r] = IF wait THEN NoThread ELSE Holds(t, where)]
        /\ ret' = IF wait THEN [ret EXCEPT ![t] = where] ELSE ret
        /\ pc' = [u \in Threads |->
                    IF u = t THEN (IF wait THEN "cv" ELSE where)
                    ELSE IF release /\ pc[u] = "cv" /\ Cur(u) = r THEN "woken"
                    ELSE pc[u]]

-----------------------------------------------------------------------------
(***************************************************************************)
(* ossl_quic_reactor_block_until_pred                                      *)
(***************************************************************************)

\* The predicate holds and the call returns, or the thread starts to block.
CheckPred(t) ==
    LET r == Cur(t)
    IN  /\ t \in Blockers
        /\ pc[t] = "check"
        /\ mutex' = [mutex EXCEPT ![r] = NoThread]
        /\ IF <<t, 1>> \in ready
           THEN Goto(t, "done") /\ UNCHANGED cur_blocking_waiters
           ELSE /\ ossl_quic_reactor_enter_blocking_section(r)
                /\ Goto(t, "poll")
        /\ UNCHANGED <<signalled_notifier, due, ready, item, ret,
                       blocking_count, found, events>>

\* The OS poll call returns: a socket or a notifier is readable.
Readable(t) ==
    \E r \in ReactorsOf(t) :
        signalled_notifier[r] \/ <<r, "data">> \in due \/ <<r, "reset">> \in due

PollReturn(t) ==
    /\ pc[t] = "poll"
    /\ Readable(t)
    /\ Goto(t, "leave")
    /\ UNCHANGED <<rtor, due, ready, item, ret, blocking_count, found, events>>

\* The OS poll call returns because a deadline has passed.
PollTimeout(t) ==
    /\ pc[t] = "poll"
    /\ Goto(t, "leave")
    /\ UNCHANGED <<rtor, due, ready, item, ret, blocking_count, found, events>>

LeaveSection(t) ==
    /\ t \in Blockers
    /\ pc[t] = "leave" /\ Free(t)
    /\ ossl_quic_reactor_leave_blocking_section(t, Cur(t), "tick")
    /\ UNCHANGED <<due, ready, item, blocking_count, found, events>>

\* The assist thread waits on a condition variable of its own, until the tick
\* deadline, and ticks again.
assist_thread_main(t) ==
    /\ t \in Assistants
    /\ pc[t] = "check"
    /\ mutex' = [mutex EXCEPT ![Cur(t)] = NoThread]
    /\ Goto(t, "tick")
    /\ UNCHANGED <<cur_blocking_waiters, signalled_notifier, due, ready, item,
                   ret, blocking_count, found, events>>

-----------------------------------------------------------------------------
(***************************************************************************)
(* SSL_poll                                                                *)
(***************************************************************************)

\* The item has been ticked: is it ready?  After the last one the call returns,
\* or starts to block.
poll_readout(t) ==
    /\ t \in Pollers
    /\ pc[t] = "check"
    /\ mutex' = [mutex EXCEPT ![Cur(t)] = NoThread]
    /\ NextItem(t)
    /\ LET any == found[t] \/ <<t, item[t]>> \in ready
       IN  /\ found' = [found EXCEPT ![t] = any /\ ~AtLast(t)]
           /\ Goto(t, IF ~AtLast(t) THEN "tick" ELSE IF any THEN "done" ELSE "enter")
    /\ UNCHANGED <<cur_blocking_waiters, signalled_notifier, due, ready, ret,
                   blocking_count, events>>

\* SSL_poll finds that its deadline has passed.
DeadlineExpired(t) ==
    /\ pc[t] = "enter" /\ item[t] = 1
    /\ Goto(t, "done")
    /\ UNCHANGED <<rtor, due, ready, item, ret, blocking_count, found, events>>

slot_activate(t, r) ==
    /\ blocking_count' = [blocking_count EXCEPT ![t][r] = @ + 1]
    /\ IF blocking_count[t][r] = 0
       THEN ossl_quic_reactor_enter_blocking_section(r)
       ELSE UNCHANGED cur_blocking_waiters

slot_deactivate(t, r, where) ==
    /\ blocking_count' = [blocking_count EXCEPT ![t][r] = @ - 1]
    /\ IF blocking_count[t][r] = 1
       THEN ossl_quic_reactor_leave_blocking_section(t, r, where)
       ELSE /\ Goto(t, where)
            /\ UNCHANGED <<rtor, ret>>

\* poll_translate, item by item: the section of its reactor is entered ...
poll_translate_enter(t) ==
    /\ pc[t] = "enter"
    /\ mutex[Cur(t)] = NoThread
    /\ slot_activate(t, Cur(t))
    /\ Goto(t, "recheck")
    /\ UNCHANGED <<mutex, signalled_notifier, due, ready, item, ret, found, events>>

\* Mutant: the item is not looked at again.
NoRecheck(t) ==
    /\ pc[t] = "recheck"
    /\ mutex[Cur(t)] = NoThread
    /\ Goto(t, IF AtLast(t) THEN "poll" ELSE "enter")
    /\ NextItem(t)
    /\ UNCHANGED <<rtor, due, ready, ret, blocking_count, found, events>>

\* ... and the item is looked at again, for it may have become ready before.
poll_translate_recheck(t) ==
    /\ pc[t] = "recheck"
    /\ mutex[Cur(t)] = NoThread
    /\ IF <<t, item[t]>> \in ready
       THEN Goto(t, "abort") /\ UNCHANGED item
       ELSE Goto(t, IF AtLast(t) THEN "poll" ELSE "enter") /\ NextItem(t)
    /\ UNCHANGED <<rtor, due, ready, ret, blocking_count, found, events>>

\* If it has, blocking is aborted: this item's section is left, and poll_block
\* frees the wait context and fails.
poll_translate_abort(t) ==
    /\ pc[t] = "abort"
    /\ mutex[Cur(t)] = NoThread
    /\ slot_deactivate(t, Cur(t), "quit")
    /\ UNCHANGED <<due, ready, item, found, events>>

poll_block_abort(t) ==
    /\ pc[t] = "quit"
    /\ blocking_count' = [blocking_count EXCEPT ![t] = [r \in Reactors |-> 0]]
    /\ item' = [item EXCEPT ![t] = 1]
    /\ Goto(t, "failed")
    /\ UNCHANGED <<rtor, due, ready, ret, found, events>>

\* After the OS poll call the sections are left item by item, and the wait
\* context is freed.
postpoll_translation_cleanup(t) ==
    /\ t \in Pollers
    /\ pc[t] = "leave"
    /\ mutex[Cur(t)] = NoThread
    /\ slot_deactivate(t, Cur(t), "left")
    /\ UNCHANGED <<due, ready, item, found, events>>

poll_block(t) ==
    /\ pc[t] = "left"
    /\ NextItem(t)
    /\ Goto(t, IF AtLast(t) THEN "tick" ELSE "leave")
    /\ blocking_count' = IF AtLast(t)
                         THEN [blocking_count EXCEPT ![t] = [r \in Reactors |-> 0]]
                         ELSE blocking_count
    /\ UNCHANGED <<rtor, due, ready, ret, found, events>>

-----------------------------------------------------------------------------
\* The application takes what it waited for and calls again.
Call(t) ==
    /\ pc[t] \in {"done", "failed"}
    /\ ready' = {p \in ready : p[1] # t}
    /\ Goto(t, "tick")
    /\ UNCHANGED <<rtor, due, item, ret, blocking_count, found, events>>

\* The steps a thread takes when it can.
Step(t) ==
    \/ Tick(t) \/ CvReturn(t) \/ CheckPred(t) \/ PollReturn(t) \/ LeaveSection(t)
    \/ assist_thread_main(t) \/ poll_readout(t) \/ poll_translate_enter(t)
    \/ poll_translate_recheck(t) \/ poll_translate_abort(t) \/ poll_block_abort(t)
    \/ postpoll_translation_cleanup(t) \/ poll_block(t)

Next ==
    \/ \E r \in Reactors, k \in Kinds : Happen(r, k)
    \/ \E t \in Threads :
           Step(t) \/ PollTimeout(t) \/ DeadlineExpired(t) \/ Call(t)

Spec == Init /\ [][Next]_vars

\* Every thread is scheduled, and gets a mutex that is free again and again.
FairSpec == Spec /\ \A t \in Threads : SF_vars(Step(t))

-----------------------------------------------------------------------------
Places == {"tick", "check", "poll", "leave", "cv", "woken", "enter", "recheck",
           "abort", "quit", "left", "done", "failed"}

\* Types: counts never go below zero.
TypeOK ==
    /\ mutex \in [Reactors -> Threads \cup {NoThread}]
    /\ cur_blocking_waiters \in [Reactors -> Nat]
    /\ signalled_notifier \in [Reactors -> BOOLEAN]
    /\ due \subseteq Reactors \X Kinds
    /\ ready \subseteq UNION {ItemsOn(r) : r \in Reactors}
    /\ pc \in [Threads -> Places]
    /\ item \in [Threads -> Nat]
    /\ \A t \in Threads : item[t] \in DOMAIN items[t]
    /\ ret \in [Threads -> {"tick", "check", "left", "quit"}]
    /\ blocking_count \in [Threads -> [Reactors -> Nat]]
    /\ found \in [Threads -> BOOLEAN]
    /\ events \in 0..MaxEvents

\* The items for which a thread is in the blocking section of their reactor, by
\* where the thread is.
EnteredItems(t) ==
    LET at == IF pc[t] \in {"cv", "woken"} THEN ret[t] ELSE pc[t]
    IN  CASE at \in {"poll"} -> DOMAIN items[t]
          [] at \in {"recheck", "abort"} -> 1..item[t]
          [] at = "enter" -> 1..(item[t] - 1)
          [] at = "leave" -> item[t]..Len(items[t])
          [] at = "left" -> (item[t] + 1)..Len(items[t])
          [] OTHER -> {}
Entered(t) == {items[t][i] : i \in EnteredItems(t)}

\* The reactor counts the threads that block on it: no more and no less, at all
\* times (the rule that quic_reactor.h sets the callers of
\* enter_blocking_section and leave_blocking_section).  It holds as long as
\* every call waits for one item.  (With several items it fails: SSL_poll
\* leaves the sections of the items before the one that aborts blocking
\* behind.)
WaitersExact ==
    \A r \in Reactors :
        cur_blocking_waiters[r] = Cardinality({t \in Threads : r \in Entered(t)})

\* No wakeup is lost: a thread sleeps in the OS poll call while what it waits
\* for has happened only if its notifier or socket is about to wake it.
NoLostWakeup ==
    \A t \in Threads :
        pc[t] = "poll" /\ (\E i \in DOMAIN items[t] : <<t, i>> \in ready)
            => Readable(t)

\* The notifier is reset only once every thread that slept on it has woken.
AllHaveWoken ==
    [][\A r \in Reactors :
         signalled_notifier[r] /\ ~signalled_notifier'[r] =>
             \A t \in Threads : r \in ReactorsOf(t) => pc'[t] # "poll"]_vars

\* A call returns once what it waits for has happened, although another thread
\* handled it.
ReadyReturns ==
    \A t \in Threads \ Assistants :
        (\E i \in DOMAIN items[t] : <<t, i>> \in ready) ~> pc[t] \in {"done", "failed"}
=============================================================================
