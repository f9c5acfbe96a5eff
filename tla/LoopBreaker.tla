----------------------------- MODULE LoopBreaker -----------------------------
(***************************************************************************)
(* The circuit breaker of the event loop's private connection pool,        *)
(* LoopPool in storage/pg.py.  The loop thread checks connections out,     *)
(* gives them back and trips the breaker; a recovery thread waits out the  *)
(* floor, asks Postgres, opens a fresh pool and swaps it in; shutdown      *)
(* closes the pool for good.  A step is one hold of _lock, or one blocking *)
(* call of the recovery thread (probe, open, close, sleep).                *)
(*                                                                         *)
(* Clocks are reduced to the one comparison the code makes: floor is TRUE  *)
(* while _floor_until lies ahead.                                          *)
(***************************************************************************)
EXTENDS Integers, FiniteSets

CONSTANTS
    Conns,       \* nested connection contexts of the loop thread
    Threads,     \* identities of recovery threads (bound; reused once over)
    PoolIds,     \* identities of pools (bound; reused once closed)
    MaxTrips,    \* bound: how often the breaker is tripped
    MaxOutages,  \* bound: how often Postgres stops serving
    NoPool       \* no pool

ASSUME BreakerAssumption ==
    /\ MaxTrips \in Nat /\ MaxOutages \in Nat
    /\ NoPool \notin PoolIds

VARIABLES
    db,          \* Postgres: "serves" | "refuses" (answers, with a refusal) | "silent"
    outages,     \* how often it stopped
    tripped,     \* _tripped
    closing,     \* _closing
    recovering,  \* _recovering
    floor,       \* _floor_until lies ahead
    seq,         \* _trip_seq
    pool,        \* _pool
    open,        \* the pools that have been opened and not closed
    use,         \* use[c]: "free" | "held" | "lost" (closed or broken) | "aborted"
    shut,        \* close(): "no" | "captured" (pool taken, not closed yet) | "done"
    pc,          \* pc[t]: where recovery thread t is
    seen,        \* seen[t]: its local seq
    mine,        \* mine[t]: the pool it opened, or the old one, that it has to close
    doubt        \* history: a trip came after the last probe was begun

pools   == <<pool, open>>
thread  == <<pc, seen, mine>>
breaker == <<tripped, recovering, floor, seq, doubt>>
server  == <<db, outages>>
vars    == <<server, closing, breaker, pools, use, shut, thread>>

InLoop == {"top", "probe", "opening", "swap", "discard", "backoff"}

Places == InLoop \cup {"off", "closeold"}

TypeOK ==
    /\ db \in {"serves", "refuses", "silent"} /\ outages \in 0..MaxOutages
    /\ tripped \in BOOLEAN /\ closing \in BOOLEAN /\ recovering \in BOOLEAN
    /\ floor \in BOOLEAN /\ doubt \in BOOLEAN
    /\ seq \in 0..MaxTrips
    /\ pool \in PoolIds /\ open \in SUBSET PoolIds
    /\ use \in [Conns -> {"free", "held", "lost", "aborted"}]
    /\ shut \in {"no", "captured", "done"}
    /\ pc \in [Threads -> Places]
    /\ seen \in [Threads -> 0..MaxTrips]
    /\ mine \in [Threads -> PoolIds \cup {NoPool}]

Init ==
    /\ db = "serves" /\ outages = 0
    /\ tripped = FALSE /\ closing = FALSE /\ recovering = FALSE
    /\ floor = FALSE /\ doubt = FALSE
    /\ seq = 0
    /\ pool \in PoolIds /\ open = {pool}
    /\ use = [c \in Conns |-> "free"]
    /\ shut = "no"
    /\ pc = [t \in Threads |-> "off"]
    /\ seen = [t \in Threads |-> 0]
    /\ mine = [t \in Threads |-> NoPool]

-----------------------------------------------------------------------------
(* The loop thread *)

\* Mutant: every trip starts a recovery thread.
TripStarts(slow) ==
    IF closing THEN UNCHANGED <<breaker, pc>>
    ELSE /\ seq < MaxTrips
         /\ tripped' = TRUE
         /\ seq' = seq + 1
         /\ floor' = (floor \/ slow)
         /\ doubt' = TRUE
         /\ recovering' = TRUE
         /\ \E t \in Threads : pc[t] = "off" /\ pc' = [pc EXCEPT ![t] = "top"]

\* _trip: the thread is started outside the lock, but by whoever set the flag.
Trip(slow) ==
    IF closing THEN UNCHANGED <<breaker, pc>>
    ELSE /\ seq < MaxTrips
         /\ tripped' = TRUE
         /\ seq' = seq + 1
         /\ floor' = (floor \/ slow)
         /\ doubt' = TRUE
         /\ recovering' = TRUE
         /\ IF recovering THEN UNCHANGED pc
            ELSE \E t \in Threads : pc[t] = "off" /\ pc' = [pc EXCEPT ![t] = "top"]

\* connection(): an open breaker refuses at once; else a connection comes, unless
\* the pool is closed ...
Checkout(c) ==
    /\ use[c] = "free" /\ ~tripped
    /\ pool \in open
    /\ use' = [use EXCEPT ![c] = "held"]
    /\ UNCHANGED <<server, closing, breaker, pools, shut, thread>>

\* ... or none comes within the acquire timeout (the others are all in use, or the
\* pool is closed), or the idle check gets no answer.
CheckoutFails(c) ==
    /\ use[c] = "free" /\ ~tripped
    /\ Trip(TRUE)
    /\ UNCHANGED <<server, closing, pools, use, shut, seen, mine>>

\* The connection dies in use, or the watched wait aborts it.  The sentinel's
\* verdict is up to two seconds old, so either may happen whatever Postgres does now.
Breaks(c, how) ==
    /\ use[c] = "held"
    /\ use' = [use EXCEPT ![c] = how]
    /\ UNCHANGED <<server, closing, breaker, pools, shut, thread>>

\* The finally of connection(): a lost connection trips, whatever happened to the
\* breaker since it was checked out.
GiveBack(c) ==
    /\ use[c] # "free"
    /\ use' = [use EXCEPT ![c] = "free"]
    /\ IF use[c] = "held" THEN UNCHANGED <<breaker, pc>> ELSE Trip(use[c] = "aborted")
    /\ UNCHANGED <<server, closing, pools, shut, seen, mine>>

\* close(), the lock hold: no swap after it ...
Close ==
    /\ ~closing
    /\ closing' = TRUE
    /\ shut' = "captured"
    /\ UNCHANGED <<server, breaker, pools, use, thread>>

\* ... and the close of the pool it took.
ClosePool ==
    /\ shut = "captured"
    /\ open' = open \ {pool}
    /\ shut' = "done"
    /\ UNCHANGED <<server, closing, breaker, pool, use, thread>>

-----------------------------------------------------------------------------
(* _recover *)

\* Mutant: the floor of a slow trip is not waited out.
TopAtOnce(t) ==
    /\ pc[t] = "top"
    /\ IF closing
       THEN /\ recovering' = FALSE
            /\ pc' = [pc EXCEPT ![t] = "off"]
            /\ UNCHANGED <<seen, doubt>>
       ELSE /\ seen' = [seen EXCEPT ![t] = seq]
            /\ doubt' = FALSE
            /\ pc' = [pc EXCEPT ![t] = "probe"]
            /\ UNCHANGED recovering
    /\ UNCHANGED <<server, closing, tripped, floor, seq, pools, use, shut, mine>>

\* The lock hold at the top of the loop; before the floor it only sleeps.
Top(t) ==
    /\ pc[t] = "top"
    /\ IF closing
       THEN /\ recovering' = FALSE
            /\ pc' = [pc EXCEPT ![t] = "off"]
            /\ UNCHANGED <<seen, doubt>>
       ELSE /\ ~floor
            /\ seen' = [seen EXCEPT ![t] = seq]
            /\ doubt' = FALSE
            /\ pc' = [pc EXCEPT ![t] = "probe"]
            /\ UNCHANGED recovering
    /\ UNCHANGED <<server, closing, tripped, floor, seq, pools, use, shut, mine>>

\* The sentinel: a refusal is an answer too.
Probe(t) ==
    /\ pc[t] = "probe"
    /\ pc' = [pc EXCEPT ![t] = IF db = "silent" THEN "backoff" ELSE "opening"]
    /\ UNCHANGED <<server, closing, breaker, pools, use, shut, seen, mine>>

\* Mutant: the failure of the open is swallowed.
OpenFreshSwallows(t) ==
    /\ pc[t] = "opening"
    /\ pc' = [pc EXCEPT ![t] = "swap"]
    /\ IF db = "serves"
       THEN \E p \in PoolIds \ (open \cup {pool}) :
                /\ open' = open \cup {p}
                /\ mine' = [mine EXCEPT ![t] = p]
       ELSE UNCHANGED <<open, mine>>
    /\ UNCHANGED <<server, closing, breaker, pool, use, shut, seen>>

\* A fresh pool, opened and waited for; one that does not open is closed again.
OpenFresh(t) ==
    /\ pc[t] = "opening"
    /\ IF db = "serves"
       THEN \E p \in PoolIds \ (open \cup {pool}) :
                /\ open' = open \cup {p}
                /\ mine' = [mine EXCEPT ![t] = p]
                /\ pc' = [pc EXCEPT ![t] = "swap"]
       ELSE /\ pc' = [pc EXCEPT ![t] = "backoff"]
            /\ UNCHANGED <<open, mine>>
    /\ UNCHANGED <<server, closing, breaker, pool, use, shut, seen>>

\* Mutant: a trip that came meanwhile is overwritten.
SwapAnyway(t) ==
    /\ pc[t] = "swap"
    /\ IF closing
       THEN /\ pc' = [pc EXCEPT ![t] = "discard"]
            /\ UNCHANGED <<pool, mine, tripped, recovering>>
       ELSE /\ pool' = mine[t]
            /\ mine' = [mine EXCEPT ![t] = pool]
            /\ tripped' = FALSE
            /\ recovering' = FALSE
            /\ pc' = [pc EXCEPT ![t] = "closeold"]
    /\ UNCHANGED <<server, closing, floor, seq, doubt, open, use, shut, seen>>

\* Mutant: a pool is installed after close() took the one it closes.
SwapAfterClose(t) ==
    /\ pc[t] = "swap"
    /\ IF seen[t] # seq
       THEN /\ pc' = [pc EXCEPT ![t] = "discard"]
            /\ UNCHANGED <<pool, mine, tripped, recovering>>
       ELSE /\ pool' = mine[t]
            /\ mine' = [mine EXCEPT ![t] = pool]
            /\ tripped' = FALSE
            /\ recovering' = FALSE
            /\ pc' = [pc EXCEPT ![t] = "closeold"]
    /\ UNCHANGED <<server, closing, floor, seq, doubt, open, use, shut, seen>>

\* Mutant: the flag of the recovery stays up after the swap.
SwapStillRecovering(t) ==
    /\ pc[t] = "swap"
    /\ IF closing \/ seen[t] # seq
       THEN /\ pc' = [pc EXCEPT ![t] = "discard"]
            /\ UNCHANGED <<pool, mine, tripped, recovering>>
       ELSE /\ pool' = mine[t]
            /\ mine' = [mine EXCEPT ![t] = pool]
            /\ tripped' = FALSE
            /\ pc' = [pc EXCEPT ![t] = "closeold"]
            /\ UNCHANGED recovering
    /\ UNCHANGED <<server, closing, floor, seq, doubt, open, use, shut, seen>>

\* The second lock hold: publish the fresh pool and close the breaker, unless a
\* trip or the shutdown came meanwhile.
Swap(t) ==
    /\ pc[t] = "swap"
    /\ IF closing \/ seen[t] # seq
       THEN /\ pc' = [pc EXCEPT ![t] = "discard"]
            /\ UNCHANGED <<pool, mine, tripped, recovering>>
       ELSE /\ pool' = mine[t]
            /\ mine' = [mine EXCEPT ![t] = pool]
            /\ tripped' = FALSE
            /\ recovering' = FALSE
            /\ pc' = [pc EXCEPT ![t] = "closeold"]
    /\ UNCHANGED <<server, closing, floor, seq, doubt, open, use, shut, seen>>

\* Mutant: a fresh pool that is not installed is dropped open.
DiscardOpen(t) ==
    /\ pc[t] = "discard"
    /\ mine' = [mine EXCEPT ![t] = NoPool]
    /\ pc' = [pc EXCEPT ![t] = "top"]
    /\ UNCHANGED <<server, closing, breaker, pools, use, shut, seen>>

\* The fresh pool was not installed: close it and judge again.
Discard(t) ==
    /\ pc[t] = "discard"
    /\ open' = open \ {mine[t]}
    /\ mine' = [mine EXCEPT ![t] = NoPool]
    /\ pc' = [pc EXCEPT ![t] = "top"]
    /\ UNCHANGED <<server, closing, breaker, pool, use, shut, seen>>

\* It was: close the old one, and the thread is over.
CloseOld(t) ==
    /\ pc[t] = "closeold"
    /\ open' = open \ {mine[t]}
    /\ mine' = [mine EXCEPT ![t] = NoPool]
    /\ pc' = [pc EXCEPT ![t] = "off"]
    /\ UNCHANGED <<server, closing, breaker, pool, use, shut, seen>>

\* Mutant: one failed attempt ends the recovery.
BackoffGivesUp(t) ==
    /\ pc[t] = "backoff"
    /\ pc' = [pc EXCEPT ![t] = "off"]
    /\ recovering' = FALSE
    /\ UNCHANGED <<server, closing, tripped, floor, seq, doubt, pools, use, shut, seen, mine>>

\* No answer, or no pool: sleep and judge again.
Backoff(t) ==
    /\ pc[t] = "backoff"
    /\ pc' = [pc EXCEPT ![t] = "top"]
    /\ UNCHANGED <<server, closing, breaker, pools, use, shut, seen, mine>>

-----------------------------------------------------------------------------
(* Time and the server *)

FloorPasses ==
    /\ floor
    /\ floor' = FALSE
    /\ UNCHANGED <<server, closing, tripped, recovering, seq, doubt, pools, use, shut, thread>>

GoesDown ==
    /\ db = "serves" /\ outages < MaxOutages
    /\ db' \in {"refuses", "silent"}
    /\ outages' = outages + 1
    /\ UNCHANGED <<closing, breaker, pools, use, shut, thread>>

ComesBack ==
    /\ db # "serves"
    /\ db' = "serves"
    /\ UNCHANGED <<outages, closing, breaker, pools, use, shut, thread>>

-----------------------------------------------------------------------------
Recover(t) ==
    Top(t) \/ Probe(t) \/ OpenFresh(t) \/ Swap(t) \/ Discard(t) \/ CloseOld(t) \/ Backoff(t)

Next ==
    \/ \E c \in Conns :
        \/ Checkout(c) \/ CheckoutFails(c) \/ GiveBack(c)
        \/ \E how \in {"lost", "aborted"} : Breaks(c, how)
    \/ Close
    \/ ClosePool
    \/ \E t \in Threads :
        \/ Top(t) \/ Probe(t) \/ OpenFresh(t) \/ Swap(t)
        \/ Discard(t) \/ CloseOld(t) \/ Backoff(t)
    \/ FloorPasses
    \/ GoesDown
    \/ ComesBack

Spec == Init /\ [][Next]_vars

\* Threads run, time passes, the shutdown closes what it took, and Postgres comes
\* back.  Nobody has to check out, to lose a connection or to shut down.
FairSpec ==
    /\ Spec
    /\ \A t \in Threads : WF_vars(Recover(t))
    /\ WF_vars(FloorPasses) /\ WF_vars(ClosePool) /\ WF_vars(ComesBack)

-----------------------------------------------------------------------------
(* Properties *)

\* "One recovery thread": the flag is up exactly while one thread is in the loop
\* of _recover, and never two, also while an earlier thread still closes the
\* pool it replaced.
OneRecovery ==
    /\ recovering <=> \E t \in Threads : pc[t] \in InLoop
    /\ \A t, u \in Threads : pc[t] \in InLoop /\ pc[u] \in InLoop => t = u

\* An open breaker is attended: somebody is at work to close it, so "on-loop DB
\* calls fail at once" never becomes for ever by a lost hand-over.
OpenIsAttended == tripped /\ ~closing => recovering

\* The breaker closes on the word of a probe begun after the last trip: a trip
\* during probe and open is never overwritten by their older verdict.
NoLateVerdict == [][tripped /\ ~tripped' => ~doubt]_vars

\* "slow (open at least breaker_s)": it does not close before the floor of any
\* slow trip, also one that came while the recovery was under way.
FloorKept == [][tripped /\ ~tripped' => ~floor]_vars

\* The loop never works on a pool that was closed under it, and every open pool
\* has an owner who closes it: the breaker, or a thread that has yet to.
PoolsOwned ==
    /\ ~closing => pool \in open
    /\ open \subseteq {pool} \cup {mine[t] : t \in Threads}
    /\ \A t \in Threads : mine[t] # pool

\* close(): whatever the recovery was doing, no pool stays open and none comes
\* back.
ClosedForGood == closing ~> [](open = {})

\* Once Postgres answers and nothing trips any more the breaker closes.
BreakerCloses == tripped ~> (~tripped \/ closing)

=============================================================================
