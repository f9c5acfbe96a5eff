-------------------------- MODULE LoopBreakerProofs --------------------------
(***************************************************************************)
(* The safety of the breaker for any number of connections, threads and    *)
(* pools and any bounds.  What a thread knows is worth something only      *)
(* while its copy of the trip counter is current: IInv says what it then   *)
(* may conclude (Current), who owns which pool (Handles) and that close()  *)
(* set its flag before it took the pool (Shutting).                        *)
(***************************************************************************)
EXTENDS LoopBreaker, TLAPS

\* A thread between its lock hold at the top and its swap, whose counter is
\* current, decided after the last trip and after every floor.
Current ==
    \A t \in Threads :
        /\ seen[t] <= seq
        /\ pc[t] \in {"probe", "opening", "swap"} /\ seen[t] = seq => ~doubt /\ ~floor

\* A thread has a pool exactly while it has one to install or to close; that pool
\* is open, and nobody else has it.
Handles ==
    /\ \A t \in Threads :
        /\ mine[t] # NoPool <=> pc[t] \in {"swap", "discard", "closeold"}
        /\ mine[t] # NoPool => mine[t] \in open
    /\ \A t, u \in Threads : mine[t] = mine[u] /\ mine[t] # NoPool => t = u

Shutting == shut # "no" => closing

IInv ==
    /\ TypeOK /\ OneRecovery /\ OpenIsAttended /\ PoolsOwned
    /\ Current /\ Handles /\ Shutting

-----------------------------------------------------------------------------
(* Initial states and the loop thread *)

\* LoopPool.__init__: a closed breaker over one open pool.
LEMMA InitIInv == Init => IInv
<1> SUFFICES ASSUME Init PROVE IInv
    OBVIOUS
<1>1. TypeOK
  <2>1. 0 \in 0..MaxTrips /\ 0 \in 0..MaxOutages
    BY BreakerAssumption
  <2> QED BY <2>1, Zenon DEF Init, TypeOK, Places, InLoop
<1>2. OneRecovery /\ OpenIsAttended /\ Shutting
    BY DEF Init, OneRecovery, OpenIsAttended, Shutting, InLoop
<1>3. PoolsOwned
    BY BreakerAssumption DEF Init, PoolsOwned
<1>4. Current
    BY DEF Init, Current
<1>5. Handles
    BY DEF Init, Handles
<1> QED BY <1>1, <1>2, <1>3, <1>4, <1>5 DEF IInv

\* _trip keeps the invariant in every caller: a trip starts a thread exactly when
\* none is in the loop, and makes every copy of the counter stale.
LEMMA TripIInv ==
    ASSUME IInv, NEW slow \in BOOLEAN, Trip(slow),
           UNCHANGED <<server, closing, pools, shut, seen, mine>>,
           use' \in [Conns -> {"free", "held", "lost", "aborted"}]
    PROVE  IInv'
<1> USE BreakerAssumption DEF server, pools
<1>1. CASE closing
    BY <1>1 DEF Trip, breaker, IInv, TypeOK, OneRecovery, OpenIsAttended, PoolsOwned,
        Current, Handles, Shutting
<1>2. CASE ~closing
  <2>1. TypeOK'
    BY <1>2 DEF Trip, IInv, TypeOK, Places, InLoop
  <2>2. OneRecovery' /\ OpenIsAttended'
    <3>1. CASE recovering
        BY <1>2, <3>1 DEF Trip, IInv, OneRecovery, OpenIsAttended
    <3>2. CASE ~recovering
        BY <1>2, <3>2 DEF Trip, IInv, TypeOK, OneRecovery, OpenIsAttended, InLoop, Places
    <3> QED BY <3>1, <3>2
  <2>3. PoolsOwned' /\ Shutting'
    BY <1>2 DEF Trip, IInv, PoolsOwned, Shutting
  <2>4. Current'
    BY <1>2 DEF Trip, IInv, TypeOK, Current, Places
  <2>5. Handles'
    BY <1>2 DEF Trip, IInv, TypeOK, Handles, Places
  <2> QED BY <2>1, <2>2, <2>3, <2>4, <2>5 DEF IInv
<1> QED BY <1>1, <1>2

\* connection(): checkouts, failures and returns.
LEMMA ConnectionIInv ==
    ASSUME IInv, NEW c \in Conns,
           \/ Checkout(c) \/ CheckoutFails(c) \/ GiveBack(c)
           \/ \E how \in {"lost", "aborted"} : Breaks(c, how)
    PROVE  IInv'
<1>1. CASE Checkout(c)
    BY <1>1 DEF Checkout, server, breaker, pools, thread, IInv, TypeOK, OneRecovery,
        OpenIsAttended, PoolsOwned, Current, Handles, Shutting
<1>2. CASE CheckoutFails(c)
    BY <1>2, TripIInv DEF CheckoutFails, IInv, TypeOK
<1>3. CASE GiveBack(c)
  <2>1. use' \in [Conns -> {"free", "held", "lost", "aborted"}]
    BY <1>3 DEF GiveBack, IInv, TypeOK
  <2>2. CASE use[c] = "held"
    BY <1>3, <2>1, <2>2 DEF GiveBack, server, breaker, pools, IInv, TypeOK, OneRecovery,
        OpenIsAttended, PoolsOwned, Current, Handles, Shutting
  <2>3. CASE use[c] # "held"
    BY <1>3, <2>1, <2>3, TripIInv DEF GiveBack
  <2> QED BY <2>2, <2>3
<1>4. ASSUME NEW how \in {"lost", "aborted"}, Breaks(c, how) PROVE IInv'
    BY <1>4 DEF Breaks, server, breaker, pools, thread, IInv, TypeOK, OneRecovery,
        OpenIsAttended, PoolsOwned, Current, Handles, Shutting
<1> QED BY <1>1, <1>2, <1>3, <1>4

\* close(), both halves, and what time and the server do.
LEMMA OutsideIInv ==
    ASSUME IInv, Close \/ ClosePool \/ FloorPasses \/ GoesDown \/ ComesBack
    PROVE  IInv'
<1> USE DEF server, breaker, pools, thread
<1>1. CASE Close
    BY <1>1 DEF Close, IInv, TypeOK, OneRecovery, OpenIsAttended, PoolsOwned,
        Current, Handles, Shutting
<1>2. CASE ClosePool
    BY <1>2 DEF ClosePool, IInv, TypeOK, OneRecovery, OpenIsAttended, PoolsOwned,
        Current, Handles, Shutting
<1>3. CASE FloorPasses
  <2>1. TypeOK'
    <3>1. floor' \in BOOLEAN
        BY <1>3, Zenon DEF FloorPasses
    <3> QED BY <1>3, <3>1 DEF FloorPasses, IInv, TypeOK
  <2>2. Current'
    BY <1>3 DEF FloorPasses, IInv, Current
  <2> QED BY <1>3, <2>1, <2>2 DEF FloorPasses, IInv, OneRecovery, OpenIsAttended,
        PoolsOwned, Handles, Shutting
<1>4. CASE GoesDown \/ ComesBack
  <2>1. TypeOK'
    <3>1. outages' \in 0..MaxOutages
        BY <1>4, BreakerAssumption DEF GoesDown, ComesBack, IInv, TypeOK
    <3>2. db' \in {"serves", "refuses", "silent"}
        BY <1>4 DEF GoesDown, ComesBack
    <3> QED BY <1>4, <3>1, <3>2 DEF GoesDown, ComesBack, IInv, TypeOK
  <2> QED BY <1>4, <2>1 DEF GoesDown, ComesBack, IInv, OneRecovery, OpenIsAttended,
        PoolsOwned, Current, Handles, Shutting
<1> QED BY <1>1, <1>2, <1>3, <1>4

-----------------------------------------------------------------------------
(* The recovery thread *)

\* The steps of _recover that move no pool.
LEMMA JudgeIInv ==
    ASSUME IInv, NEW t \in Threads, Top(t) \/ Probe(t) \/ Backoff(t)
    PROVE  IInv'
<1> USE DEF server, breaker, pools
<1>1. TypeOK'
    BY DEF Top, Probe, Backoff, IInv, TypeOK, Places, InLoop
<1>2. OneRecovery'
    BY DEF Top, Probe, Backoff, IInv, TypeOK, OneRecovery, Places, InLoop
<1>3. OpenIsAttended' /\ PoolsOwned' /\ Shutting'
    BY DEF Top, Probe, Backoff, IInv, TypeOK, OpenIsAttended, PoolsOwned, Shutting
<1>4. Current'
    BY DEF Top, Probe, Backoff, IInv, TypeOK, Current, Places
<1>5. Handles'
    BY DEF Top, Probe, Backoff, IInv, TypeOK, Handles, Places
<1> QED BY <1>1, <1>2, <1>3, <1>4, <1>5 DEF IInv

\* A fresh pool is nobody's.
LEMMA OpenFreshIInv ==
    ASSUME IInv, NEW t \in Threads, OpenFresh(t)
    PROVE  IInv'
<1> USE BreakerAssumption DEF server, breaker
<1>1. TypeOK'
    BY DEF OpenFresh, IInv, TypeOK, Places, InLoop
<1>2. OneRecovery' /\ OpenIsAttended' /\ Shutting'
    BY DEF OpenFresh, IInv, TypeOK, OneRecovery, OpenIsAttended, Shutting, Places, InLoop
<1>3. PoolsOwned'
    BY DEF OpenFresh, IInv, TypeOK, PoolsOwned, Handles
<1>4. Current'
    BY DEF OpenFresh, IInv, TypeOK, Current, Places
<1>5. Handles'
    BY DEF OpenFresh, IInv, TypeOK, Handles, Places
<1> QED BY <1>1, <1>2, <1>3, <1>4, <1>5 DEF IInv

\* The swap exchanges the owners of two pools, or leaves everything to the discard.
LEMMA SwapIInv ==
    ASSUME IInv, NEW t \in Threads, Swap(t)
    PROVE  IInv'
<1> USE BreakerAssumption DEF server
<1>1. TypeOK'
    BY DEF Swap, IInv, TypeOK, Handles, Places, InLoop
<1>2. OneRecovery' /\ OpenIsAttended' /\ Shutting'
    BY DEF Swap, IInv, TypeOK, OneRecovery, OpenIsAttended, Shutting, Places, InLoop
<1>3. PoolsOwned'
    BY DEF Swap, IInv, TypeOK, PoolsOwned, Handles
<1>4. Current'
    BY DEF Swap, IInv, TypeOK, Current, Places
<1>5. Handles'
    BY DEF Swap, IInv, TypeOK, Handles, PoolsOwned, Places
<1> QED BY <1>1, <1>2, <1>3, <1>4, <1>5 DEF IInv

\* What a thread closes is its own.
LEMMA CloseMineIInv ==
    ASSUME IInv, NEW t \in Threads, Discard(t) \/ CloseOld(t)
    PROVE  IInv'
<1> USE BreakerAssumption DEF server, breaker
<1>1. TypeOK'
    BY DEF Discard, CloseOld, IInv, TypeOK, Places, InLoop
<1>2. OneRecovery' /\ OpenIsAttended' /\ Shutting'
    BY DEF Discard, CloseOld, IInv, TypeOK, OneRecovery, OpenIsAttended, Shutting, Places, InLoop
<1>3. PoolsOwned'
    BY DEF Discard, CloseOld, IInv, TypeOK, PoolsOwned, Handles
<1>4. Current'
    BY DEF Discard, CloseOld, IInv, TypeOK, Current, Places
<1>5. Handles'
    BY DEF Discard, CloseOld, IInv, TypeOK, Handles, Places
<1> QED BY <1>1, <1>2, <1>3, <1>4, <1>5 DEF IInv

-----------------------------------------------------------------------------
\* A stuttering step changes nothing the invariant speaks of.
LEMMA StutterIInv == ASSUME IInv, UNCHANGED vars PROVE IInv'
BY DEF vars, server, breaker, pools, thread, IInv, TypeOK, OneRecovery, OpenIsAttended,
    PoolsOwned, Current, Handles, Shutting

\* The strengthened invariant holds of every behaviour.
THEOREM Invariance == Spec => []IInv
<1>1. IInv /\ [Next]_vars => IInv'
    BY ConnectionIInv, OutsideIInv, JudgeIInv, OpenFreshIInv, SwapIInv, CloseMineIInv,
        StutterIInv DEF Next
<1> QED BY <1>1, InitIInv, PTL DEF Spec

\* Type correctness, for every number of connections, threads and pools.
THEOREM TypeCorrect == Spec => []TypeOK
<1>1. IInv => TypeOK BY DEF IInv
<1> QED BY <1>1, Invariance, PTL

\* _recovering is up exactly while one thread is in the loop of _recover.
THEOREM OneThread == Spec => []OneRecovery
<1>1. IInv => OneRecovery BY DEF IInv
<1> QED BY <1>1, Invariance, PTL

\* An open breaker always has its recovery thread: no trip is lost in the
\* hand-over from a thread that finishes to one that starts.
THEOREM NoLostTrip == Spec => []OpenIsAttended
<1>1. IInv => OpenIsAttended BY DEF IInv
<1> QED BY <1>1, Invariance, PTL

\* The loop's pool is never closed before shutdown, and no pool is left open
\* without an owner.
THEOREM NoPoolLeaks == Spec => []PoolsOwned
<1>1. IInv => PoolsOwned BY DEF IInv
<1> QED BY <1>1, Invariance, PTL

\* Only Swap closes the breaker, and only on a current count of trips.
LEMMA OnlySwapCloses ==
    ASSUME IInv, Next, tripped, ~tripped'
    PROVE  \E t \in Threads : pc[t] = "swap" /\ seen[t] = seq
BY DEF Next, Checkout, CheckoutFails, GiveBack, Breaks, Trip, Close, ClosePool, Top,
    Probe, OpenFresh, Swap, Discard, CloseOld, Backoff, FloorPasses, GoesDown, ComesBack,
    breaker

\* The breaker never closes on a verdict older than the last trip.
THEOREM VerdictsAreCurrent == Spec => NoLateVerdict
<1>1. IInv /\ [Next]_vars => [tripped /\ ~tripped' => ~doubt]_vars
    BY OnlySwapCloses DEF IInv, Current
<1> QED BY <1>1, Invariance, PTL DEF Spec, NoLateVerdict

\* The breaker never closes before the floor of a slow trip, whenever it came.
THEOREM FloorsAreKept == Spec => FloorKept
<1>1. IInv /\ [Next]_vars => [tripped /\ ~tripped' => ~floor]_vars
    BY OnlySwapCloses DEF IInv, Current
<1> QED BY <1>1, Invariance, PTL DEF Spec, FloorKept

=============================================================================
