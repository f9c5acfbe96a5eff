----------------------------- MODULE ChatWriter -----------------------------
(***************************************************************************)
(* The per-chat writer lanes of core/events/chat_writer.py, the bulk       *)
(* run_db executor of storage/pg.py they run on, the pump that drains its  *)
(* lane before it publishes "ready" (stream_pump._drain_writes) and the    *)
(* tail of the shutdown sequence of startup.py.                            *)
(*                                                                         *)
(* The event loop is one thread: a step of it runs from one await to the   *)
(* next.  The executor's threads run between those steps.  A job is one    *)
(* synchronous callable, whose rows land in one commit or not at all.      *)
(***************************************************************************)
EXTENDS Sequences, Integers, FiniteSets

CONSTANTS Chats,      \* chat ids
          Jobs,       \* the jobs that will ever be submitted
          ChatOf,     \* ChatOf[j]: the chat whose lane takes job j
          Workers,    \* DB_BULK_LANE_WORKERS
          Pumped,     \* bound: the chats whose pump drains (once)
          Impatient,  \* bound: the jobs whose caller may be cancelled
          None        \* "no job"

ASSUME ConstantsAssumption ==
    /\ ChatOf \in [Jobs -> Chats]
    /\ Workers \in Nat \ {0}
    /\ None \notin Jobs

VARIABLES
    lane,      \* lane[c]: "absent" | "new" (flusher created, not started) | "busy"
    queue,     \* queue[c]: lane.queue
    cur,       \* cur[c]: the job the flusher of c awaits
    state,     \* state[j]: where job j is
    fut,       \* fut[j]: the future submit returned
    execq,     \* the executor's work queue, in hand-over order
    orphans,   \* jobs on threads of an executor that has been shut down
    stage,     \* "up" | "draining" (in drain_all) | "drained" | "closed" (executor stopped)
    awaited,   \* the chats whose flusher drain_all still waits for
    clean,     \* what drain_all returned
    pump,      \* pump[c]: "idle" | "draining" | "landed" | "notlanded" | "ready"
    \* History variables: nothing in the code reads them.
    mark,      \* mark[c]: the jobs of c known when the pump began to drain
    log,       \* log[c]: the jobs of c whose rows landed, in commit order
    known,     \* the jobs submitted so far
    late       \* the jobs submitted after drain_all took its snapshot

vars == <<lane, queue, cur, state, fut, execq, orphans, stage,
          awaited, clean, pump, mark, log, known, late>>

JobStates == {"unborn", "queued", "handed", "running", "landed", "failed",
              "revoked", "abandoned"}
Futures   == {"none", "pending", "result", "exception", "cancelled"}

OfChat(c) == {j \in Jobs : ChatOf[j] = c}

TypeOK ==
    /\ lane \in [Chats -> {"absent", "new", "busy"}]
    /\ queue \in [Chats -> Seq(Jobs)]
    /\ cur \in [Chats -> Jobs \cup {None}]
    /\ state \in [Jobs -> JobStates]
    /\ fut \in [Jobs -> Futures]
    /\ execq \in Seq(Jobs)
    /\ orphans \in SUBSET Jobs
    /\ stage \in {"up", "draining", "drained", "closed"}
    /\ awaited \in SUBSET Chats
    /\ clean \in BOOLEAN
    /\ pump \in [Chats -> {"idle", "draining", "landed", "notlanded", "ready"}]
    /\ mark \in [Chats -> SUBSET Jobs]
    /\ log \in [Chats -> Seq(Jobs)]
    /\ known \in SUBSET Jobs
    /\ late \in SUBSET Jobs

Init ==
    /\ lane = [c \in Chats |-> "absent"]
    /\ queue = [c \in Chats |-> <<>>]
    /\ cur = [c \in Chats |-> None]
    /\ state = [j \in Jobs |-> "unborn"]
    /\ fut = [j \in Jobs |-> "none"]
    /\ execq = <<>>
    /\ orphans = {}
    /\ stage = "up"
    /\ awaited = {}
    /\ clean = TRUE
    /\ pump = [c \in Chats |-> "idle"]
    /\ mark = [c \in Chats |-> {}]
    /\ log = [c \in Chats |-> <<>>]
    /\ known = {}
    /\ late = {}

-----------------------------------------------------------------------------
(* Callers on the event loop *)

\* Mutant: a second flusher for a lane that has one.
SubmitFlusher(j) ==
    LET c == ChatOf[j] IN
    /\ state[j] = "unborn"
    /\ queue' = [queue EXCEPT ![c] = Append(@, j)]
    /\ lane' = [lane EXCEPT ![c] = "new"]
    /\ state' = [state EXCEPT ![j] = "queued"]
    /\ fut' = [fut EXCEPT ![j] = "pending"]
    /\ known' = known \cup {j}
    /\ late' = IF stage = "up" THEN late ELSE late \cup {j}
    /\ UNCHANGED <<cur, execq, orphans, stage, awaited, clean, pump, mark, log>>

\* Mutant: the newest job goes first.
SubmitFirst(j) ==
    LET c == ChatOf[j] IN
    /\ state[j] = "unborn"
    /\ queue' = [queue EXCEPT ![c] = <<j>> \o @]
    /\ lane' = [lane EXCEPT ![c] = IF @ = "absent" THEN "new" ELSE @]
    /\ state' = [state EXCEPT ![j] = "queued"]
    /\ fut' = [fut EXCEPT ![j] = "pending"]
    /\ known' = known \cup {j}
    /\ late' = IF stage = "up" THEN late ELSE late \cup {j}
    /\ UNCHANGED <<cur, execq, orphans, stage, awaited, clean, pump, mark, log>>

\* submit(): the job joins its chat's lane, and a flusher task is created when
\* the lane has none.  Pumps and handlers that unwind during the shutdown still
\* submit, after drain_all and even after the executor is gone.
Submit(j) ==
    LET c == ChatOf[j] IN
    /\ state[j] = "unborn"
    /\ queue' = [queue EXCEPT ![c] = Append(@, j)]
    /\ lane' = [lane EXCEPT ![c] = IF @ = "absent" THEN "new" ELSE @]
    /\ state' = [state EXCEPT ![j] = "queued"]
    /\ fut' = [fut EXCEPT ![j] = "pending"]
    /\ known' = known \cup {j}
    /\ late' = IF stage = "up" THEN late ELSE late \cup {j}
    /\ UNCHANGED <<cur, execq, orphans, stage, awaited, clean, pump, mark, log>>

\* The task awaiting the future is cancelled (its socket closed): asyncio
\* cancels the future, and the lane's "if not fut.done()" guards skip it.
CallerCancelled(j) ==
    /\ j \in Impatient
    /\ fut[j] = "pending"
    /\ fut' = [fut EXCEPT ![j] = "cancelled"]
    /\ UNCHANGED <<lane, queue, cur, state, execq, orphans, stage, awaited, clean,
                   pump, mark, log, known, late>>

-----------------------------------------------------------------------------
(* The flusher task of a lane: one step from await to await *)

\* The flusher task of c ends: those waiting for it (drain, drain_all) wake up.
TaskEnds(c, how) ==
    /\ pump' = [pump EXCEPT ![c] = IF @ = "draining" THEN how ELSE @]
    /\ awaited' = awaited \ {c}

\* The top of the while loop and the finally block: the next job goes to the
\* executor, or the lane is dropped and whoever waits for the task wakes up.
Advance(c) ==
    IF queue[c] = <<>>
    THEN /\ lane' = [lane EXCEPT ![c] = "absent"]
         /\ cur' = [cur EXCEPT ![c] = None]
         /\ TaskEnds(c, "landed")
         /\ UNCHANGED <<queue, state, execq>>
    ELSE /\ lane' = [lane EXCEPT ![c] = "busy"]
         /\ cur' = [cur EXCEPT ![c] = Head(queue[c])]
         /\ queue' = [queue EXCEPT ![c] = Tail(@)]
         /\ state' = [state EXCEPT ![Head(queue[c])] = "handed"]
         /\ execq' = Append(execq, Head(queue[c]))
         /\ UNCHANGED <<pump, awaited>>

FlushStart(c) ==
    /\ lane[c] = "new"
    /\ Advance(c)
    /\ UNCHANGED <<fut, orphans, stage, clean, mark, log, known, late>>

\* Mutant: a failed job's future is given a result.
ResolveResult(f, j) == IF f[j] # "pending" THEN f ELSE [f EXCEPT ![j] = "result"]

\* Mutant: the future is given the job's state for its result.
ResolveState(f, j) == [f EXCEPT ![j] = state[j]]

\* set_result / set_exception, then on to the next job: a failed job does not
\* stop the ones behind it.
Resolve(f, j) ==
    IF f[j] # "pending" THEN f
    ELSE [f EXCEPT ![j] = IF state[j] = "landed" THEN "result" ELSE "exception"]

FlushResume(c) ==
    /\ lane[c] = "busy"
    /\ state[cur[c]] \in {"landed", "failed"}
    /\ fut' = Resolve(fut, cur[c])
    /\ Advance(c)
    /\ UNCHANGED <<orphans, stage, clean, mark, log, known, late>>

\* Mutant: the futures queued behind the awaited job are forgotten.
FlushCancelledOne(c) ==
    /\ lane[c] = "busy"
    /\ state[cur[c]] = "revoked"
    /\ fut' = [fut EXCEPT ![cur[c]] = IF @ = "pending" THEN "cancelled" ELSE @]
    /\ state' = [state EXCEPT ![cur[c]] = "abandoned"]
    /\ queue' = [queue EXCEPT ![c] = <<>>]
    /\ cur' = [cur EXCEPT ![c] = None]
    /\ lane' = [lane EXCEPT ![c] = "absent"]
    /\ TaskEnds(c, "notlanded")
    /\ UNCHANGED <<execq, orphans, stage, clean, mark, log, known, late>>

\* Mutant: the cancelled flusher leaves its lane behind.
FlushCancelledStays(c) ==
    LET gone == {queue[c][i] : i \in 1..Len(queue[c])} \cup {cur[c]} IN
    /\ lane[c] = "busy"
    /\ state[cur[c]] = "revoked"
    /\ fut' = [j \in Jobs |-> IF j \in gone /\ fut[j] = "pending"
                              THEN "cancelled" ELSE fut[j]]
    /\ state' = [j \in Jobs |-> IF j \in gone THEN "abandoned" ELSE state[j]]
    /\ queue' = [queue EXCEPT ![c] = <<>>]
    /\ TaskEnds(c, "notlanded")
    /\ UNCHANGED <<lane, cur, execq, orphans, stage, clean, mark, log, known, late>>

\* The CancelledError branch: the executor cancelled the awaited job, nothing
\* queued behind it will run, so every future is cancelled and the lane goes.
FlushCancelled(c) ==
    LET gone == {queue[c][i] : i \in 1..Len(queue[c])} \cup {cur[c]} IN
    /\ lane[c] = "busy"
    /\ state[cur[c]] = "revoked"
    /\ fut' = [j \in Jobs |-> IF j \in gone /\ fut[j] = "pending"
                              THEN "cancelled" ELSE fut[j]]
    /\ state' = [j \in Jobs |-> IF j \in gone THEN "abandoned" ELSE state[j]]
    /\ queue' = [queue EXCEPT ![c] = <<>>]
    /\ cur' = [cur EXCEPT ![c] = None]
    /\ lane' = [lane EXCEPT ![c] = "absent"]
    /\ TaskEnds(c, "notlanded")
    /\ UNCHANGED <<execq, orphans, stage, clean, mark, log, known, late>>

-----------------------------------------------------------------------------
(* The executor's worker threads *)

Running == {j \in Jobs : state[j] = "running"}

WorkerStart ==
    /\ execq # <<>>
    /\ Cardinality(Running \ orphans) < Workers
    /\ state' = [state EXCEPT ![Head(execq)] = "running"]
    /\ execq' = Tail(execq)
    /\ UNCHANGED <<lane, queue, cur, fut, orphans, stage, awaited, clean, pump, mark, log, known, late>>

WorkerLand(j) ==
    /\ state[j] = "running"
    /\ state' = [state EXCEPT ![j] = "landed"]
    /\ log' = [log EXCEPT ![ChatOf[j]] = Append(@, j)]
    /\ UNCHANGED <<lane, queue, cur, fut, execq, orphans, stage, awaited, clean, pump, mark, known, late>>

WorkerFail(j) ==
    /\ state[j] = "running"
    /\ state' = [state EXCEPT ![j] = "failed"]
    /\ UNCHANGED <<lane, queue, cur, fut, execq, orphans, stage, awaited, clean, pump, mark, log, known, late>>

-----------------------------------------------------------------------------
(* The pump: drain its own lane, then leave _active_pumps and say "ready" *)

\* pending(): zero exactly when the chat has no lane.
Pending(c) ==
    Len(queue[c]) + (IF lane[c] = "absent" THEN 0 ELSE 1)

\* Mutant: an empty queue counts as drained while its last job still runs.
DrainCallQueue(c) ==
    pump' = [pump EXCEPT ![c] = IF queue[c] = <<>> THEN "ready" ELSE "draining"]

\* drain() at its entry: nothing to wait for when there is no lane, else wait
\* for the flusher task of the moment.
DrainCall(c) ==
    pump' = [pump EXCEPT ![c] = IF lane[c] = "absent" THEN "ready" ELSE "draining"]

PumpDrain(c) ==
    /\ c \in Pumped
    /\ pump[c] = "idle"
    /\ mark' = [mark EXCEPT ![c] = known \cap OfChat(c)]
    /\ DrainCall(c)
    /\ UNCHANGED <<lane, queue, cur, state, fut, execq, orphans, stage, awaited, clean, log, known, late>>

\* The timer of wait_for fires.  drain returns False one loop iteration later,
\* and the flusher may end in between.
PumpTimeout(c) ==
    /\ pump[c] = "draining"
    /\ pump' = [pump EXCEPT ![c] = "notlanded"]
    /\ UNCHANGED <<lane, queue, cur, state, fut, execq, orphans, stage, awaited, clean, mark, log, known, late>>

\* drain returned: True ends the pump's loop; False (timeout, or the flusher was
\* cancelled) ends it only when pending() is 0, else drain is called again.
PumpDrained(c) ==
    /\ \/ /\ pump[c] = "landed"
          /\ pump' = [pump EXCEPT ![c] = "ready"]
       \/ /\ pump[c] = "notlanded" /\ Pending(c) = 0
          /\ pump' = [pump EXCEPT ![c] = "ready"]
       \/ /\ pump[c] = "notlanded" /\ Pending(c) # 0
          /\ DrainCall(c)
    /\ UNCHANGED <<lane, queue, cur, state, fut, execq, orphans, stage, awaited, clean, mark, log, known, late>>

-----------------------------------------------------------------------------
(* The tail of the shutdown *)

\* Mutant: only lanes with something queued are waited for.
DrainAllQueued ==
    /\ stage = "up"
    /\ stage' = "draining"
    /\ awaited' = {c \in Chats : queue[c] # <<>>}
    /\ UNCHANGED <<lane, queue, cur, state, fut, execq, orphans, clean, pump, mark, log, known, late>>

\* drain_all(timeout=3.0) takes the flushers of the moment ...
DrainAll ==
    /\ stage = "up"
    /\ stage' = "draining"
    /\ awaited' = {c \in Chats : lane[c] # "absent"}
    /\ UNCHANGED <<lane, queue, cur, state, fut, execq, orphans, clean, pump, mark, log, known, late>>

\* ... and returns whether they all ended; its timeout lets it return early, but
\* not before the loop has started the tasks that were ready.
DrainAllReturns ==
    /\ stage = "draining"
    /\ \A c \in awaited : lane[c] # "new"
    /\ stage' = "drained"
    /\ clean' = (awaited = {})
    /\ UNCHANGED <<lane, queue, cur, state, fut, execq, orphans, awaited, pump, mark, log, known, late>>

\* shutdown_db_executor(wait=False): work not yet started is cancelled, running
\* workers are left to finish.  The registry of executors is emptied, so a
\* later run_db makes a new executor.
ShutdownExecutor ==
    /\ stage = "drained"
    /\ stage' = "closed"
    /\ state' = [j \in Jobs |-> IF state[j] = "handed" THEN "revoked" ELSE state[j]]
    /\ execq' = <<>>
    /\ orphans' = Running
    /\ UNCHANGED <<lane, queue, cur, fut, awaited, clean, pump, mark, log, known, late>>

-----------------------------------------------------------------------------
Flush(c) == FlushStart(c) \/ FlushResume(c) \/ FlushCancelled(c)

WorkerEnd(j) == WorkerLand(j) \/ WorkerFail(j)

Next ==
    \/ \E j \in Jobs : Submit(j) \/ CallerCancelled(j) \/ WorkerLand(j) \/ WorkerFail(j)
    \/ \E c \in Chats : FlushStart(c) \/ FlushResume(c) \/ FlushCancelled(c)
    \/ \E c \in Chats : PumpDrain(c) \/ PumpTimeout(c) \/ PumpDrained(c)
    \/ WorkerStart
    \/ DrainAll
    \/ DrainAllReturns
    \/ ShutdownExecutor

Spec == Init /\ [][Next]_vars

\* The event loop keeps running the flushers and the pumps, and every statement
\* a worker runs has a server-side timeout, so threads come back.  Nobody has to
\* submit, to cancel, to time out or to shut down.
Fairness ==
    /\ \A c \in Chats : WF_vars(Flush(c)) /\ WF_vars(PumpDrained(c))
    /\ WF_vars(WorkerStart)
    /\ \A j \in Jobs : WF_vars(WorkerEnd(j))

FairSpec == Spec /\ Fairness

-----------------------------------------------------------------------------
(* Properties *)

Settled(j) == state[j] \in {"landed", "failed", "abandoned"}

\* The lanes implement the abstract log: rows land in submission order, each
\* job at most once, a failure or a cancelled caller skips nobody, and only a
\* stopped executor lets a line be given up.  A line is what the flusher holds
\* and what waits behind it.
Line(c) ==
    IF cur[c] # None /\ ~Settled(cur[c]) THEN <<cur[c]>> \o queue[c] ELSE queue[c]

Log == INSTANCE OrderedLog WITH
           line <- [c \in Chats |-> Line(c)],
           stopped <- (stage = "closed")

ImplementsOrderedLog == Log!Spec

\* "Run one at a time": two jobs of one chat are never at the executor
\* together, so a job's read-then-write is atomic against its own chat.
OneAtATime ==
    \A j, k \in Jobs :
        /\ ChatOf[j] = ChatOf[k]
        /\ {state[j], state[k]} \subseteq {"handed", "running"}
        => j = k

\* A future tells the truth: a result was committed, an exception was not, and a
\* pending one belongs to a job still open, or one its flusher is about to report.
FuturesTell ==
    \A j \in Jobs :
        /\ fut[j] = "result" => state[j] = "landed"
        /\ fut[j] = "exception" => state[j] = "failed"
        /\ fut[j] = "pending" => ~Settled(j) \/ cur[ChatOf[j]] = j

\* drain before "ready": whatever had been submitted when the pump began to
\* drain is decided when it publishes, so no row of the turn lands behind the
\* back of a client that was told the chat is ready.
ReadyIsBacked ==
    \A c \in Chats : pump[c] = "ready" => \A j \in mark[c] : Settled(j)

\* drain_all said "all landed": the executor's shutdown then costs nothing that
\* had been submitted before drain_all.
CleanStopLosesNothing ==
    stage = "closed" /\ clean =>
        \A j \in Jobs : state[j] \in {"revoked", "abandoned"} => j \in late

\* "no caller hangs on a future the lane can never resolve": every future
\* submit returns is resolved, with or without a shutdown.
EveryFutureResolves ==
    \A j \in Jobs : fut[j] = "pending" ~> fut[j] # "pending"

\* A pump that starts to drain gets to "ready".
EveryDrainEnds ==
    \A c \in Chats : pump[c] = "draining" ~> pump[c] = "ready"

\* startup.py, after the executor and the pools are shut down: "From here down
\* nothing may touch the DB."
NothingStartsAfterClose ==
    stage = "closed" => Running \subseteq orphans

=============================================================================
