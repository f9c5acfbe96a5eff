# OtoDock in TLA+

A verification development for the concurrent core of OtoDock: the proxy that
runs AI engine sessions for chats, scheduled tasks, meetings and phone calls on
one host and on remote satellites. The modules here model the parts of
`src/proxy` in which several coroutines, threads or timers share state; TLC
checks them on small instances and TLAPS proves their main safety properties for
every instance.

* [The system](#the-system): inventory of components and of what is hard in them
* [Modules](#modules): what models what, and how
* [Runs](#runs): what TLC checks, under which bounds and which fairness
* [Proofs](#proofs)
* [Findings](#findings)
* [Not modelled](#not-modelled) and [Plan](#plan)

Running it: `tlc -workers 2 -config SatelliteLink.cfg MCSatelliteLink` and so on
(every run of `PROJECT.json` gives module and configuration, the tables below give
the configurations that are run by hand); `tlapm ChatWriterProofs.tla` and so on for
every module named `…Proofs`. `InputQueueProofs` takes longest, some minutes on four
cores.

## The system

The proxy (`src/proxy`) is one Python process with one asyncio event loop.
Database calls leave the loop through thread pools; engines are child processes
(Claude CLI, Codex, direct API) or processes on a satellite reached over a
WebSocket. A step of the loop runs from one `await` to the next, so the hazards
are: state read before an `await` and used after it, threads that work beside the
loop, timers that race what they guard, and cancellation.

| Component | State | Operations | Talks to | What is hard | Correct when |
|---|---|---|---|---|---|
| Chat writer lanes, `core/events/chat_writer.py` | a queue and a flusher task per chat | submit, flush, drain, drain_all, pending | `run_db` executor; stream pump, input queue, shutdown as callers | submits during the flusher's last job, failing jobs, cancelled callers, executor shutdown under a queue | rows of a chat land in submission order, once; futures tell the truth and resolve; a drain is a barrier |
| `run_db` executors and loop pool breaker, `storage/pg.py` | executors per lane; breaker flags, pool, recovery thread | run_db, shutdown; connection, trip, recover, close | Postgres; every store | a second trip during a recovery, shutdown between open and swap, stale verdicts | one recovery, never a lost trip, no leaked pool, the breaker closes |
| Admission ledger, `core/concurrency.py` | reservations, cached sum, admission line, task ring, parked count | acquire (plain, queued, speculative, task, meeting), reserve_background, release, evict, maintenance, reconcile | session layers, pre-warm registry, warmup, scheduler, meetings | eviction in several awaits, reconciliation against stale reads, fairness of ring and line, last-resort admit | ledger exact, budget and caps kept, nobody starves, live sessions hold slots |
| Pre-warm registry, `core/session/prewarm_session_registry.py` | unclaimed pre-warmed sessions | register, claim, discard, reap | admission, warmup | a claim races an eviction | a session is claimed once |
| Session spawn and close, `core/layers/*`, `ws/dashboard_warmup.py` | registries of live sessions | get_or_create, close_session | admission, engine processes | a return to an id that is being closed | no live session without slot |
| Stream pump, `core/events/stream_pump.py` | subscribers, turn state, buffered events | subscribe, publish, resync, end of turn | chat writer, WebSockets | a subscriber that joins in the middle of a turn, slow subscribers | every subscriber sees the turn, in order |
| Chat input queue, `core/events/input_queue.py`, and its users in `ws/dashboard_chat_*.py`, `ws/dashboard_dispatch.py` | waiting messages in memory and in a table, the claim on the chat, ids taken and dropped | load, add, claim, take, put back, accept, drop, return, deliver, drain, steer, Stop, Edit, revoke | chat writer, stream pump, engines | takers that meet across awaits, failing accepts, restarts, deletes beside the lane, re-sends | each message is answered once or returned, in order, and never forgotten |
| Scheduler, lanes, run recovery, delivery, `services/scheduler` | run rows, lanes, triggers; sessions parked over a restart; the open-turn record of a chat | fire, run, cancel, stamp, deliver, wake; park, re-adopt, replay, sweep, close a cut turn | admission, chats, satellites, Postgres through threads | a crash in a run, cancels that abandon a write on its thread, recovery against a new run of the same lane | a run ends, and is reported once and as its row says; a cut turn is replayed or closed, once |
| Subscription pool, `services/engines/subscription_pool.py` | seats, bindings | acquire, release, bind, drain | engines | late releases, shutdown of the binding writer | a seat has one holder |
| Meetings, `services/meetings` | participants, turns | start, turn, end | admission | all-or-nothing reservation, a participant that dies | no slot is left behind |
| Satellite connections and grace, `core/remote/satellite_*.py`, `ws/satellite.py` | connections, session queues, held sessions, grace timers, command waiters | register, deregister, grace expiry, re-adopt, heartbeat monitor, send with ack | session layers, satellites | late deregisters of replaced sockets, a timer that fires while a reconnect re-adopts, an abort during the grace | the registered connection is the machine's; a running session is attached or held and will be told; a given-up one stays away |
| Remote turns and aborts, `core/remote/remote_*.py`, `core/layers/cli/remote.py` | session records, the current command id, kill flags, watchdogs | start, resume, send, stream, soft and hard abort, reap | satellite connections, the daemon | frames of the previous turn, lost frames, watchdogs that outlive their turn, silence that may be a dropped link | a turn ends, and on its own result |
| Satellite daemon, `src/satellite` | engine processes, a reader lock and turn buffer per session | reconnect, send, stop, abort, replay, report live sessions | proxy, engine processes | two readers of one stdout, a buffer replayed into the wrong turn | what it says of a turn is that turn's |
| Transfer gate and workspace sync, `core/remote` | tickets, locks | acquire, release, pause | satellites | lock order, cancelled holders | no deadlock, the bound holds |
| Warmup registry, session state, permission prompts, chat move, apps supervisor | futures, listener chains, parked questions | see the code | dashboard | a question parked while its turn is aborted; a move against a send | every wait is answered |

The parts that are wrappers, decision tables or user interface (path policy,
tokens, MCP gateway, stores, phone and audio, dashboard, deployment) are listed
in `PROJECT.json` with the reason they are left out. `PROJECT.json` "hazards"
lists what in this code is hard to test, each at its line, with the properties
that would catch it; hazards that no property of a run covers are under
[Not modelled](#not-modelled) and, where the code falls to them, under
[Findings](#findings).

## Modules

| Module | Models |
|---|---|
| `OrderedLog` | abstract: what a writer lane promises |
| `ChatWriter` | the lanes, the bulk executor, a pump's drain, the tail of the shutdown |
| `ChatWriterProofs` | theorems about `ChatWriter` and its refinement of `OrderedLog` |
| `Admission` | the admission ledger and, around it, how callers spawn and close sessions |
| `AdmissionProofs` | theorems about `Admission` |
| `LoopBreaker` | the circuit breaker of the event loop's connection pool |
| `LoopBreakerProofs` | theorems about `LoopBreaker` |
| `InputQueue` | one chat's input queue: memory, table, lane, turn, and everybody who takes messages out |
| `InputQueueProofs` | theorems about `InputQueue` |
| `SessionGrace` | abstract: what the connection manager promises the sessions of a machine |
| `SatelliteLink` | one machine's connection registry: sockets, lock, handlers, monitor, grace, commands |
| `SatelliteLinkProofs` | theorems about `SatelliteLink` and its refinement of `SessionGrace` |
| `RemoteTurn` | the turns of one session on a satellite, both ends of the protocol and the links between |
| `RemoteTurnProofs` | theorems about `RemoteTurn` |
| `DelegateRun` | the runs of a delegated worker on a satellite, over cancels, failures and restarts of the proxy |
| `DelegateRunProofs` | theorems about the lane and the reports of `DelegateRun` |
| `DelegateRestProofs` | theorems about what `DelegateRun` leaves at rest, on top of those |
| `MCChatWriter`, `MCAdmission`, `MCLoopBreaker`, `MCInputQueue`, `MCSatelliteLink`, `MCRemoteTurn`, `MCDelegateRun` | instances for TLC |

`ChatWriter` refines `OrderedLog`, and `InputQueue` uses what `OrderedLog` promises
of its lane. `SatelliteLink` refines `SessionGrace`, and `RemoteTurn` uses that
promise: its `place` is attached, held or lost. `DelegateRun` stands on top and
takes from both only that a machine is linked or not and reports its sessions.

Definitions named in a comment as *Mutant* are deliberately wrong variants of the
definition that follows them. They are part of no specification; each shows that
a property notices the bug.

### ChatWriter

A lane is `absent`, `new` (its flusher task exists and has not run) or `busy` (the
flusher awaits `run_db` for `cur[c]`). A job goes from `queued` over `handed` (in
the executor's work queue) and `running` to `landed` or `failed`; a shutdown turns
handed jobs to `revoked`, and `abandoned` are the jobs behind one. `Submit`,
`FlushStart`, `FlushResume`, `FlushCancelled` are the pieces of the code between
two awaits; `WorkerStart`, `WorkerLand`, `WorkerFail` are the threads;
`PumpDrain`/`PumpTimeout`/`PumpDrained` are `_drain_writes` of the stream pump with
`drain` and `pending` inside; `DrainAll`, `DrainAllReturns`, `ShutdownExecutor` are
the tail of `startup.py`. The shutdown forgets the executor, so a later `run_db`
makes a new one: the model keeps the old one's threads in `orphans`. A job is one
callable whose rows commit together. `mark`, `log`, `known` and `late` are history.

### Admission

One call into the module is a member of `Reqs`, with its path, session id, kind,
owner and ring key; `pc[r]` is where it is. A hold of `_cond` is one step, because
the code awaits nothing inside one but `Condition.wait`; eviction is four steps
(`EvictClaim`, `EvictRemove`, `EvictClose`, `EvictRelease`) as it is four awaits in
the code. Sessions outside the ledger are `alive`, `mode`, `prewarm`, `reaping`.

What is abstracted:

* Time. A reservation is `new` or `old`: this merges the 90 s grow-in window and
  the reconciler's 120 s grace. While new it debits its whole estimate, where the
  code subtracts what the process already uses; the live reading (`HostMemory`) is
  any member of `Readings` at any time, which covers the difference.
* `AgeOut` lets a reservation get old only when nobody is still spawning for it:
  spawns are taken to be faster than the grace. The hazard list names this.
* Waits. A parked call may re-check at any time: a notify, its slice timer and the
  maintenance pass all lead there.
* A session id has one estimate, `Est[s]`; a meeting reserves and starts its
  participants in one step.
* `returned` is history: the ids that were asked for while their session was being
  closed, or while a cancelled handler had left their slot behind, or over whose
  starting call a close or the end of a run came; an id leaves it when nothing of it is
  left. Nothing in the model is guarded by it: closers, evictors with stale scans and
  the reconciler meet on one session as they may in the code, and people come back
  whenever they like. It only says where `SlotBacksSession` asks nothing, because the
  findings `AdmissionLateRelease.cfg` and `AdmissionMidSpawn.cfg` show what goes wrong
  there.
* `AdmissionAssumption` types the calls. That only the plain, queued and speculative
  paths are held to the per-person cap is how `acquire` hands on `cap_owner`.

### LoopBreaker

`use[c]` are the nested connection contexts of the loop thread, `pc[t]` is where a
recovery thread is; a step is a hold of `_lock` or one blocking call. The clock is
one Boolean, `floor`: `_floor_until` lies ahead. Postgres serves, refuses (the
sentinel counts a refusal as an answer, a pool does not open on it) or is silent.
The watched wait is reduced to its verdict, which may be stale, so a held
connection may be lost or aborted whatever the server does now. Pool and thread
identities are reused when they are over. `doubt` is history: a trip came after
the last time the recovery read the counter.

### InputQueue

One chat. `items` with `seqOf` is the queue in memory (the code keeps the list
sorted by `seq`), `rows` the table `chat_input_queue`, `chat` the person's rows in
`chat_messages`, `lane` the chat's writer lane with the jobs not run yet (what
`OrderedLog` promises of it is used here: in order, one at a time), `pump` the
registered stream pump with its producer, `evq` its event queue. The processes are
one per chat frame (`_on_chat` of a socket on the running turn, `_handle_chat` and
`_handle_claimed_chat` of an idle one), the headless deliveries, the drain of each
person's viewer, Stop, Edit and `_after_pump_end`; `pc`, `held` and `todo` are
where each is, what it took and whom it still has to visit. A step is what the
loop runs between two awaits, one job of the lane (with the continuation its
future resumes), or one statement off the lane (`LoadRead`, `Revoke`).

* `armed` stands for every delivery that is spawned and sleeps its grace.
* `Spend("defer")` is every way in which a start is refused or put off (gates, a
  machine that reconnects, a dead session); which way it goes is nondeterministic.
* A job that fails leaves nothing committed, but the job of an idle send, which is
  two transactions, may leave the first. `Breakable` says which kinds may fail.
* The failure of a queued turn's accept races: the pump reads its own ERROR without
  yielding (`wait_for` of Python 3.12 and later awaits the getter in place) and
  cancels the producer, so the `put_back` may or may not run; both are modelled.
* A revocation is of one person: their rows in the chat. It may take their last
  connection, or one of several.
* `Connect` only puts a person's connection into `present`, where a delivery looks for a
  driver (`_driver_for`); it arms nothing. `Touch` is a person opening the chat (the
  warm-up arms what waits); `visit` holds who came back and has not opened it since.
* A send that is put into the queue lets go of its claim once its row landed (`Added`),
  and at once when the queue is full (`Add`, the `finally` of `_handle_chat`).
* `Ranked` lists a set by a key and `Without` drops from a sequence: the code's sort by
  `seq` and its list comprehensions, in a form without recursion.
* `sent`, `back`, `ack`, `revoked`, `owed`, `lost` and `order` are history.

### SatelliteLink and SessionGrace

One machine. `conn` is the registered connection (`_connections`), `phase[k]` where
the handler of socket k is: it waits for the manager's lock, closes the socket it
replaces (`swap`, the only await under the lock), listens (`loop`) or is gone. A step
runs from one `await` to the next. `RegisterLocks`, `RegisterSwaps` and `Install` are
`register`; `Carried` is what the new connection has: the queues of the old one and
what the grace area held. `Deregister` with `Owns` and `Dropped` is `deregister`,
called from the handler's end and from a failed writer with the caller's connection
and from the monitor with none. `timer` is `_expire_grace`: asleep, or due and waiting
for the lock. `life[s]` is the record of session s in the remote layer.

* Waiters for the lock get it in any order; asyncio's order is one of these.
* `cancel_machine_streams` and the other calls of `deregister` behind the pop never
  yield before the sessions are held, so they are in its step.
* `Silent` allows the monitor to find any registered connection silent: heartbeats are
  not counted.
* `Reuse = FALSE` leaves out that a session id is created again while the close of the
  same id still waits for the machine. `SatelliteReuse.cfg` shows what that does.
* `blind` and `given` are history.

`SessionGrace` says it without sockets: sessions go from the link to the grace
together, come back together or are lost together, and leave no other way unless
somebody gives them up.

### RemoteTurn

One session. `stage` is the producer (`_send_turn`, `_stream_turn`), `q` the event
queue, `watch` the soft-interrupt watchdogs with the turn each is pinned to; `down` and
`up` are the two directions of the link: a drop takes what the proxy had queued and any
prefix of what the daemon had, and may move one frame whose send failed to the end; `handler`, `reader`, `stop` are the daemon's
`send_message`, its reader lock and its stop event; `proc`, `stdin`, `on`, `out` are the
Claude CLI, which is external. Of the output only results matter: each carries the
prompt it answers and the command it was read under, so a property can say that they
agree. `Stale` is the filter of `_stream_turn`, `Pinned` the watchdog's two tests,
`SilenceEnds` the grace test of a silent turn. `rec` is the session's record:
`HardAbort` does nothing without one, and `Reap` takes it away from a machine past
its grace, in the middle of a turn too, whose producer keeps its own hold of the queue.
`LockTimesOut` is a send whose prompt is never written because the reader before it does
not let go in its 10 s. The code's one word for a lost turn is split: `lost`, `expired`
(the grace ran out) and `refused` (the daemon says the process is not running).
`cut` (the process died or the prompt was not written), `loose`, `mixed`, `pressed`
(somebody pressed Stop while the turn ran) and `answer` are history.

### DelegateRun

One lane: a worker chat with one session on a satellite, run 1 and its successors.
`row[r]` is the run's row, `record` the chat's open-turn record with the token of the
pump that wrote it, `card` and `closings` the closing rows. `pc[r]` is where the runner
is (`task_run.py`, from the queue over admission, opening, spawn, turn, stamp and
delivery to close) or which of its handlers runs; a cancel, a failure and the shutdown
lead into one. `parked`, `waiting`, `closing`, `rec`, `failing` and `reporting` are
`run_recovery` and `cut_turns` after a restart: `Boot` reads the rows as
`defer_orphaned_runs` does, `Alive` is `on_sessions_alive`, `RecoverStep` one await of
`_recover_session`, `Sweep` the deadlines.

* A row write hops to a thread. Its awaiter may be cancelled; the write then lands
  later or never (`writes`, `Land`).
* `Alive` decides for its session in one step; the runs it fails and reports are
  separate steps (`failing`, `reporting`).
* A restart ends the process at any step, after the shutdown handlers or without.
* The engine (`Finish`, `SatDies`) is external: its turn ends some day.
* A pump's token names its process too, as the code's tokens are unique; a process that
  replays gives the record a token of its own.
* `orphans`, `raced`, `lost` and `torn` are history and name the exceptions of the
  properties: the first three are findings, `torn` are the runs that a further restart
  left between their card and their row.

## Runs

| Run | Instance | Checks |
|---|---|---|
| `chat_writer` | two chats, three jobs, one worker, one pump, one caller that may be cancelled | `FuturesTell`, `ReadyIsBacked`, `CleanStopLosesNothing`; `ImplementsOrderedLog` (refinement); `EveryFutureResolves` (liveness) |
| `admission_tasks` | three runs of two creators and a phone call, room for two | `RingFair`; `ParkedTasksRun` (liveness) |
| `admission_wakes` | a wake, two chats in line, the maintenance and reconciliation loops | `OrphansAreFreed`, `WaitsEnd` (liveness) |
| `admission_surfaces` | a pre-warm and the chat that reuses its id, another chat, a meeting; hard cap 2, one per person, memory may flap | `BudgetKept`, `SlotBacksSession`; `NewChatKeepsCap` (action) |
| `loop_breaker` | two connections, two threads, three pools, three trips, one outage | `OpenIsAttended`, `PoolsOwned`; `NoLateVerdict` (action); `BreakerCloses` (liveness) |
| `input_queue` | two people, one message each, an engine that steers, one Stop, one deferral | `OneFate`, `NoneStranded`; `OneTurn` (action) |
| `input_queue_faults` | one message, an engine that steers; a revocation, a Stop, a restart, a deferral, and any one job, engine turn or pump step fails | `RestartSafe`, `NeverTwice`; `DroppedStaysOut` (action) |
| `input_queue_live` | two people in a chat that runs as the agent, queue full at one, one restart, no deferral | `WaitEnds` (liveness) |
| `satellite_link` | two sessions, one command, two sockets, one round of the monitor | `LiveUnlessBlind`, `NoneForgotten`, `WaitersOnLive`; `NoComeback` (action); `ImplementsSessionGrace` (refinement); `HeldResolves` (liveness) |
| `remote_turn` | two turns; one drop, one Stop, one crash of the CLI, one start command | `ResultIsOwnUnlessMixed`, `NoFalseLoss`, `KillsOnlyStopped`; `EveryTurnEnds` (liveness) |
| `delegate_run` | two runs of a lane, one restart, one fault | `HeardOnce`, `ReportMatchesRow`, `TurnIsRecorded`, `CardMeansCut`, `RestHasEnded`, `RestIsHeard`; `Rests` (liveness) |
| `satellite_monitor` | as `satellite_link` | `LiveRegistered`: violated |

Type invariants, and properties that follow from those of a run or are shallower, are
run by hand: `AdmissionPeople.cfg` (`TypeOK`, `LedgerExact`, `BudgetKept`, `LineExact`,
`OnlyHeadAttempts`, `NewChatKeepsCap` for two people in line and a second tab) and
`InputQueueRestart.cfg` (`TypeOK`, `RowsFirst`, `QueuedInOrder` for one person's two
messages over a restart) pass, and so does `DelegateRunAgain.cfg` (`TurnIsRecorded`,
`CardMeansCut` over two restarts). `TypeOK` of all seven models is proved for every
instance, and so are `OneAtATime`, `OneRecovery`, `FloorKept`, `LedgerExact`,
`RingExact`, `LineExact` and `OnlyHeadAttempts`.

**Bounds.** Two jobs in one lane give a job that runs and one that waits behind
it; a third in another lane competes for the only worker. The hazards of a lane
need no more: what is behind the second job is treated like it. In the admission
runs the budget is chosen so that the mix does not fit: somebody queues, parks or
evicts in every run, and the per-person and hard caps are at their edge. Each run
mixes the paths that meet in one question; a run with all paths is beyond TLC. For
the breaker a trip may come before, during and after a recovery that an earlier
trip already sent round; two threads are the one in the loop and one that still
closes the pool it replaced.
For the input queue two messages give a batch of two, a message taken while
another comes, and two people who compete for the chat; one delivery process, one
Stop, one restart and one fault may each come at any step. `MaxEnds` bounds the
pump ends that were not handled yet. All faults together need one message only:
what could go wrong with it, its own row, its hands and its return, does not need
a second. `QueuedInOrder` and `NoneStranded` are not asked where jobs fail: a batch
whose accept failed may come back after a later message was answered, and the
faults that strand a message are findings.
For the satellite link a second socket is what a reconnect and a duplicate need; the
first may end late, in its handler, its writer and the monitor at once. Two sessions
show whether they share the fate the abstract grace promises: one may be given up
while the other comes back. Its theorems hold for any number. In `remote_turn` two
turns are the one that is stopped, cut or given up and its successor, the pair every
property is about; each fault may come once at any step of either. In `delegate_run`
a second run of the lane meets the recovery, the late writes and the cut turn of the
first.

**Deadlock** is not checked: all calls may have ended, the proxy may have shut
down, and nobody is obliged to ask for anything; a satellite may stay away, and a lane
whose runs are over stops.

**Fairness.**

* `ChatWriter`: the loop runs flushers and pumps, the executor starts handed jobs,
  and threads come back because every statement has a server-side timeout.
  Submitting, cancelling, timing out and shutting down are never forced.
* `Admission!FairSpec`: the loop resumes every call that can go on; closes and task
  runs end (both have timeouts in the code); reconciliation ticks. The deadline of
  a queued call is strongly fair: it is compared at every round of the wait, and
  time does not go back between rounds. Nobody has to leave, to go idle or to
  cancel, and memory need not come back; `WaitsEnd` holds even so.
* `Admission!LeavingSpec` adds that every session is closed some day (by its person
  or by the idle timeout). Only `ParkedTasksRun` needs it: a parked task has no
  deadline.
* `LoopBreaker!FairSpec`: threads run, the floor passes, `close` closes what it
  took, and Postgres comes back. With the bounded trips, `BreakerCloses` says: once
  nothing trips any more the breaker closes.
* `InputQueue!FairSpec`: the loop runs handlers, drains and deliveries that have
  begun, the lane runs its jobs, an engine turn ends (the layers have timeouts) and
  the pump reads its queue; a chat is loaded after a restart, and whoever has no
  connection comes back and opens the chat once after that: an author without one is
  documented to wait for their next touch (`_driver_for`). Nobody who is there has to
  open it again, to send, to stop, to cancel, or to drain from a viewer. A delivery that
  could not start its turn puts its batch back without arming and waits for the next pump
  end or touch (`deliver`), which nothing brings about by itself: `MaxDefers` is 0 in
  `input_queue_live`, and the run says nothing of deferred batches.

* `SatelliteLink!FairSpec`: the loop resumes a handler that waits for the lock or whose
  socket ended, the monitor goes round, `asyncio.sleep` of the grace timer returns and
  its task gets the lock, a close's wait for the machine and a command's wait for the
  ack have timeouts. The machine need not connect, answer or drop.
* `RemoteTurn!FairSpec`: the producer goes on with what it can do, timeouts included,
  and of a dropped link the machine returns or the grace runs out. Nothing is assumed
  of the satellite, the CLI and the links: `EveryTurnEnds` holds when they say nothing.
* `DelegateRun!FairSpec`: one weak fairness for everything that goes on by itself:
  runner, handlers, threads, recovery, sweeps, the engine's turn, the next boot after a
  stop. No step of these undoes another, so one that stays enabled is taken. Starting a
  run, cancelling it, a restart and the machine's return are never forced.

## Proofs

The theorem modules follow one pattern: `Init => IInv`, one lemma per action (or
per group that disturbs the same conjuncts) for `IInv /\ [Next]_vars => IInv'`, and
each property from `IInv`. In the larger models the actions are first sorted into a
few kinds of step (a ticket moves, a hand closes, a job is added); each kind is shown
to keep the invariant once, and each action to be of a kind.

What is assumed of the constants, beside their types (`ConstantsAssumption`,
`BreakerAssumption`, `BoundsAssumption`, `AdmissionAssumption`, `QueueAssumption`,
`TurnBoundsAssumption`, `RunBoundsAssumption`, which TLC evaluates on the instances):

| Hypothesis | Of | Why the code justifies it |
|---|---|---|
| `Reuse = FALSE` | `NothingForgotten`, `GraceImplemented` | an id is created again during its close only as `SatelliteReuse.cfg` shows: a finding |
| `TasksBlock` | `TasksLeaveHeadroom` | `lanes.py` and `task_run.py`, which reserve for tasks, pass `blocking` |
| equal estimates of tasks | `RingIsFair` | with two sizes it is false (`AdmissionMixedRing.cfg`); `LightestIsFair` needs no hypothesis |
| `SentOnce` | `AcknowledgedSurvives`, `RevokedStaysOut`, `AnsweredOnce`, `ReturnedIsUnanswered`, `RowsAreInHand` | a browser sends a message once unless it reconnects in between; a re-send is answered twice (`InputQueueResend.cfg`, `InputQueueResteer.cfg`): a finding |
| `Faultless` | `RowsAreInHand` | not a fact about the code but the border of the theorem: adds and headless deliveries may fail, Stops, deferrals, ended turns and restarts may come, but no `turn`, `send` or `drop` job fails, no pump dies and nobody revokes. Each of the five strands a row: two are the findings `InputQueueTurnFails.cfg` and `InputQueueSendFails.cfg`, and TLC refutes `NoneStranded` at once when any of the other three is allowed in those configurations (with a revocation it is the row of `InputQueueRevoked.cfg`) |

`ChatWriterProofs`, for any chats, jobs and number of workers: `TypeCorrect`,
`LanesAreSerial` (`OneAtATime`), `FuturesAreHonest` (`FuturesTell`),
`DrainIsABarrier` (`ReadyIsBacked`), `CleanStop` (`CleanStopLosesNothing`). That two
jobs of a chat are never together at the executor is not inductive: it follows from
"what is at the executor is what the flusher of its chat awaits" (`ExecInv`), which
needs that queues hold queued jobs once (`QueueInv`, `QueuedInv`) and that a flusher
awaits a job exactly while its lane is busy (`LaneInv`, `CurInv`). The drains rest on
`PumpInv` and `DrainAllInv`: whoever waits for a flusher waits for a lane that
exists, and a lane disappears only when its jobs are decided.

`LoopBreakerProofs`, for any connections, threads, pools and bounds: `TypeCorrect`,
`OneThread` (`OneRecovery`), `NoLostTrip` (`OpenIsAttended`), `NoPoolLeaks`
(`PoolsOwned`), `VerdictsAreCurrent` (`NoLateVerdict`), `FloorsAreKept`
(`FloorKept`). The key is `Current`: a thread whose copy of the trip counter equals
the counter decided after the last trip and after every floor; a trip makes all
copies stale. `Handles` says that a thread's pool is open and nobody else's, which
makes every close a close of the thread's own pool.

`SatelliteLinkProofs`, for any sessions, commands, sockets and rounds: `TypeCorrect`,
`WaitersFollow` (`WaitersOnLive`), `ListenerRegistered` (`LiveUnlessBlind`),
`NobodyComesBack` (`NoComeback`), and, when `Reuse = FALSE`, `NothingForgotten`
(`NoneForgotten`) and `GraceImplemented` (`ImplementsSessionGrace`). The key is
`Handover`: sessions are attached only while a connection is registered, held only
while none is, and held only with a timer. That one of the three is broken between two
awaits is what the manager's lock and the order inside `register` and `deregister`
prevent. `Listening` ties whoever may still deregister to a connection that is closed:
the identity check is needed for no other. The refinement has one lemma per group of
actions: most map to a stutter, `Install` to the abstract return or a stutter,
`Dropped` to the abstract drop, `ExpireGrace` to the common end; that an expiry tells
every wanted session needs `NoneForgotten` with "who is closing has no record"
(`ClosedIsNone`), which is where `Reuse = FALSE` is used.

`LanesAreOrderedLogs` proves that `ChatWriter` implements `OrderedLog`. The waiting
jobs of the abstract lane are the job in the flusher's hand followed by the queue
(`HeadInHand`); a submit appends to it (`SubmitLine`), the end of a job takes its head
(`AdvanceLine`, `CancelLine`), and a worker's end decides that head (`WorkerLine`), which
is where the order of the log comes from. Everything else is a stutter.

`RemoteTurnProofs`, for any number of turns, drops, Stops, crashes and starts:
`TypeCorrect`, `LossIsReal` (`NoFalseLoss`), `ResultAnswersPrompt`
(`ResultIsOwnUnlessMixed`), `AbortsReachStopped` (`KillsOnlyStopped`). A result says which
prompt it answers and which command it was read under, on its way through five queues:
the CLI's output, the daemon, the link, the proxy's event queue, the producer.
`ResultsInv`, `ErrorsInv` and `SentinelInv` say of every frame on that way whose turn it
may still end; `PromptsInv` that the prompts on stdin are the turns sent, in order and
once; `HandlerInv`, `ReaderInv` and `StopInv` that the daemon's reader and its stop event
are of the current command. The turns in `mixed` are the exception that the finding
`RemoteTurnShift.cfg` shows. `AbortInv` follows the aborts: an abort that is still on its
way, or a process that is dying of one, belongs to a turn somebody stopped, and none is
left when a session counts as alive again, because the start whose ack says so stands
behind every one of them in the link's order.

`DelegateRunProofs`, for any number of runs, restarts and faults: `LaneTypes`,
`OpenTurnIsKept` (`TurnIsRecorded`), `ReportedOnce` (`HeardOnce`), `ReportIsTrue`
(`ReportMatchesRow`). `LaneInv` is about the process: a process that is down knows
nothing (`DownInv`), the tokens of cut turns are of earlier processes and those of
running pumps of this one (`TokensInv`), one report of the machine leads to one replay
and no cut turn waits beside it (`LinkInv`). `RunInv` is about one run: where its task,
its handler, its late row writes, the recovery and the report may stand together
(`TaskInv`, `EndedInv`, `FailedInv`, `RecoverInv`), so that a second report has no one to
come from (`ReportInv`). `DelegateRestProofs` adds `NoRunLeftLive` (`RestHasEnded`),
`NoReportLeftUnheard` (`RestIsHeard`) and `CutIsNotCompleted` (`CardMeansCut`). The first
two need `RestInv`: as long as a row is live somebody is on the way to stamp it. The last
needs, of every run, whose token the open-turn record and each cut turn carries
(`StartInv`, `CutInv`, `OpenInv`), for a card means that its run's record is closed.

`AdmissionProofs`, for any calls, sessions, people and sizes. Sums over sets of sessions
are defined by the folds of the community modules, whose recursion no prover unfolds;
the first section of the module gets what is needed (that the fold has a value, and what
one more session or one less does to it) from minimal counterexamples.
`TypeCorrect`, `LedgerNeverDrifts` (`LedgerExact`) and `BudgetIsKept` (`BudgetKept`) come
from one invariant, because every step keeps the ledger, drops sessions, or takes one for
which there was room. `TasksLeaveHeadroom` says that background work never uses the
reserve of an interactive session; `CapHolds` (`NewChatKeepsCap`) needs where each path
leads (`PlacesFit`). `RingIsExact`, `LightestIsFair` and `RingIsFair` (`RingFair`) rest on
`PassedBehind`: a creator that passed a waiting run stands behind that run's creator now. `SlotsAreBacked`
(`SlotBacksSession`) needs `SlotsInv`, which says of each id that was not returned to:
who starts its session holds a slot that no close is at, and a new one unless the
session lives already; what is being closed is dead or without a slot; what the
reconciler has on its list is dead, released, or new again. It has no hypothesis but the history. `LateReleaseAlone`
and `MidSpawnAlone` draw the border of two findings: whenever the comment of the code is
wrong, the id was returned to.
`LineIsExact` (`LineExact`) and `OnlyTheHeadAttempts` (`OnlyHeadAttempts`) are
about the admission line over every await of an attempt.

`InputQueueProofs`, for any messages, people, frames, deliveries and bounds:

* `TypeCorrect`. `Ranked` and `Without` are shown to list each member once
  (`RankedIs`, `WithoutIs`), which needs that numbers of waiting messages differ
  (`NumInv`). Every action is one of the kinds of `StepsAre`.
* `OneTurnAtATime` (`OneTurn`). A turn starts at the hands of the claim's holder.
  `JobsFit` says of every job of the lane which process waits for it and where, and
  `ClaimInv` that whoever stands where a claim is needed has it and that no turn lives
  beside it.
* `AcknowledgedSurvives` (`RestartSafe`), with every failure and restart. Nobody has seen
  a message before its frame hands it on (`PreInv`); the chip goes out after the row is
  written (`AckInv`), and no step takes the row away without leaving the message in
  another safe place (`SafeGrows`).
* `RevokedStaysOut` (`DroppedStaysOut`): every hand that puts back leaves out what is
  dropped, and a frame that adds has a message nobody has seen (`DroppedHeld`).
* `AnsweredOnce` (`NeverTwice`) and `ReturnedIsUnanswered` (`OneFate`), over every failure
  and restart. `OneSeat` says that a message is in one hand only: in the queue, with one
  taker, in one event or in one job. `ListInv` says that the job which writes a row stands
  before the jobs that use it, `QuietInv` that nothing is under way before the first load,
  which would read a row whose message is in a hand. With these `SpentInv` is inductive:
  what was sent, shown or given back is in no hand and in no row.
* `RowsAreInHand` (`NoneStranded`), over Stops, deferrals, ended turns, failed adds, failed
  headless deliveries and restarts. `HomeInv` says that a row which stands or is to be
  written is of a message in the queue, in a hand, in an event or in a job that uses the
  row up; a job is accounted for by its row's end (`HomeLeaves`), everything else by a new
  home. That no event is dropped with a pump needs `CloseInv`: nothing but a steer follows
  the event that ends a turn. `FailInv` says that whoever waits for a failed job has
  nothing in hand.

What is only model-checked: all liveness, which is out of the prover's reach, and with it
`ENABLED`; `RowsFirst` and `QueuedInOrder` of `InputQueue`, which hold on the instances without
steering and faults.

## Findings

One run violates a property that states what the repository says:

* `satellite_monitor`: `deregister` names the connection its caller owns because
  "popping the entry here would unregister the LIVE connection". `heartbeat_monitor`
  awaits the close of a silent socket and then deregisters the machine without naming
  it: a machine that reconnects during the close is popped, shown offline and keeps a
  healthy socket nobody has registered.

Other disagreements are kept as configurations outside the list of runs; each
checks one property, which TLC finds violated:

| Configuration | Property | What the code does |
|---|---|---|
| `AdmissionLateRelease.cfg` | `LateReleaseIsNoop` | `_evict_one`: "The later release() from close_session is a no-op", but a person who returns to the evicted session acquires the id again while the old process is being closed, and the late release removes the new reservation. `LateReleaseAlone` proves that nothing else does |
| `AdmissionLockout.cfg` | `NoLockout` | "the veto never locks an EMPTY platform out", but the last session may be released during the lock-free victim scan and the call is refused as busy with nothing tracked |
| `AdmissionMidSpawn.cfg` | `MidSpawnIsSpared` | the reconciler is said to spare the spawn window, but a call that adopts an orphaned old slot does not refresh its age and loses it while it starts. `MidSpawnAlone` proves that only such a return does |
| `AdmissionMixedRing.cfg` | `RingFair` | a single run is said to wait behind at most one run of each other creator, but with estimates of two sizes a heavy head is skipped as often as lighter ones fit. `LightestIsFair` proves it for the lightest estimate, `RingIsFair` for equal ones |
| `ChatWriterClosed.cfg` | `NothingStartsAfterClose` | "From here down nothing may touch the DB", but a lane that is still alive calls `run_db`, which makes a new executor |
| `InputQueueResend.cfg` | `NeverTwice` | "a message still waiting re-announces its chip", but a re-send to an idle chat is compared with the accepted ids only, takes the waiting copy along and both are answered |
| `InputQueueTurnFails.cfg` | `NoneStranded` | after a failed accept "the message's row stays in the table for the next delivery", but the producer is cancelled before its `put_back`, so no delivery of this process knows the message |
| `InputQueueSendFails.cfg` | `NoneStranded` | an idle send takes the person's waiting messages along; if its lane job raises they are put back nowhere |
| `InputQueueRevoked.cfg` | `RevokedIsGone` | revoked messages are said to be gone from the table, but a row still on the lane lands after the `DELETE` |
| `InputQueueReturned.cfg` | `NothingLost` | "a proxy restart loses nothing", but a message that is being given back has no row while its text is still on the way |
| `InputQueueResteer.cfg` | `NeverTwice` | "delivered exactly once on accept", but a re-send during the await of `layer.steer` is steered as well |
| `SatelliteReuse.cfg` | `NoneForgotten` | `close_session` awaits the machine's answer and then removes the session's queue by id: a session created again under that id meanwhile loses its new queue |
| `RemoteTurnShift.cfg` | `ResultIsOwn` | a result "from a PREVIOUS turn ... must not terminate THIS turn", but the tag is the command the daemon reads under: after a send whose ack was lost the process answers the older prompt first, and every later turn gets the answer before its own |
| `RemoteTurnStolen.cfg` | `NothingEverStolen` | `_frame_session_aborted` ends the queue because "its producer is being cancelled"; a late ack of an abort empties the queue of the next turn, whose producer still reads |
| `DelegateRunDone.cfg` | `CompletedMeansDone` | `_finalize_run` stamps a replayed run completed however the replay's pump ended, an error of the engine included |
| `DelegateRunVerdict.cfg` | `VerdictStands` | "The verdict is written once": a cancel during the stamp finds the row not ended while its write is on the thread, and stamps it over |
| `DelegateRunOrphan.cfg` | `EveryRunEnds` | recovery parks one run per session and returns when a pump is live, and a running stamp that was cancelled on its thread lands over the cancelled row: such a row stays live until the next boot |
| `DelegateRunRows.cfg` | `RowsOnce` | "the rows saved so far are the chat's for good", but a turn whose engine was done and whose pump was cut before the record closed is replayed and written again |

Met while reading, and not a run of their own: a failed write of a machine's
`disconnected` status is retried by the next request of that machine only, which does
not come while it is away (`_persist_flusher`); frames of an engine that were on the wire
at a drop and belong to no open turn are lost, where `deregister` speaks of resuming
losslessly; a report is lost when a second Stop hits the first one's handler, when a run is
cancelled in the queue, or when the process ends between stamp and report.

## Not modelled

* `Admission`: the cancellation of a call that is closing a victim; a wake and a person
  under one session id in one instance, where the wake's release races the adoption;
  spawns slower than the reconciler's grace; the match keys of pre-warms.
* `ChatWriter`, `LoopBreaker`: the fast lane of `run_db` and its guard; a recovery
  thread that cannot be started, and a close of the old pool that raises.
* `InputQueue`: the hold of a first turn, the deletion of a chat, live terminals, spoken
  and artifact inputs, the eviction of idle queues, `claim_when_free` and the freeze at
  shutdown.
* `SatelliteLink`: the grace of terminals, which has timers and locks of its own; the
  persister of a machine's status and the outage alerts; file pulls and transfer lanes;
  the handshake before `register`.
* `RemoteTurn`: the reaping of an idle session, or of a turn past its ceiling, whose
  machine is connected; the settle mode after a result with background work, the gate of
  results nobody asked for, steering, prompts for permission on a person's screen; Codex and
  direct sessions.
* `DelegateRun`: the lane gate's reaper and its 30-minute ceiling, retries, steering of a
  lane, the store of wakes behind a report, a person's interruption by a chat message,
  terminals that a run borrows, a fresh session where the old cannot be resumed,
  truncated replays and the early ranges of a record, runs on the proxy's own host, a link
  that drops in the middle of a run (`SatelliteLink` and `RemoteTurn` have it).

Log messages, metrics and stats are left out everywhere. Of the other components the
larger part of the source is wrappers, decision tables, SQL and user interface, where a
state machine says nothing a unit test does not; those with concurrency of their own are
in the plan, the others in `PROJECT.json` with the reason.

## Plan

1. `InputQueue`: the first turn's hold, chat deletion and `claim_when_free`; an
   abstract specification (a message is answered or returned, once) that it refines.
2. `StreamPump`: subscribers, resync, the end of a turn, composed with the lane's
   drain.
3. `TransferGate` with the workspace locks it nests in: bound, no deadlock, cancelled
   holders.
4. `WarmupRegistry` and the permission prompts: listener chains, parked questions
   against aborts.
5. The subscription pool and its binding writer; the grace of terminals.
6. `Admission`: cancellation of evictors; a wake and a person under one id.
7. Proofs: `RowsFirst` of `InputQueue` where nothing
   is steered; the abstract specification of item 1, from `SpentInv`.
