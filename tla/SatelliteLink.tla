---------------------------- MODULE SatelliteLink ----------------------------
(***************************************************************************)
(* The proxy's end of the link to one remote machine: the connection       *)
(* registry of core/remote/satellite_connection.py with its reconnect      *)
(* grace (satellite_grace.py), the socket handler of ws/satellite.py, the  *)
(* writer task, the heartbeat monitor, the commands that wait for an ack   *)
(* and the session queues.                                                 *)
(*                                                                         *)
(* All of it runs on one event loop: a step is the code from one await to  *)
(* the next.  The only step that keeps the manager's lock across an await  *)
(* is register's close of the socket it replaces.  Waiters for the lock    *)
(* may get it in any order, which is more than asyncio allows.             *)
(***************************************************************************)
EXTENDS Integers, FiniteSets

CONSTANTS Sessions,     \* session ids
          Commands,     \* commands that wait for an ack
          MaxSockets,   \* bound: the sockets the machine ever opens
          MaxRounds,    \* bound: the monitor's rounds that find the machine stale
          Reuse         \* whether an id is used again while its close goes on

ASSUME BoundsAssumption ==
    /\ MaxSockets \in Nat \ {0}
    /\ MaxRounds \in Nat
    /\ Reuse \in BOOLEAN

Sockets == 1..MaxSockets

VARIABLES
    conn,       \* _connections[machine]: the socket registered, 0 when none
    phase,      \* phase[k]: where the handler of socket k is
    open,       \* the sockets the proxy still holds open
    writer,     \* writer[k]: "off" | "run" | "failed" (its deregister spawned)
    sat,        \* the socket the satellite uses, 0 when it has none
    attached,   \* session_queues of the registered connection
    held,       \* _grace_sessions
    timer,      \* the grace timer: "off" | "sleep" | "due" (wants the lock)
    life,       \* life[s]: the session's record in the remote layer
    closing,    \* the sessions whose close_session waits for the machine
    waits,      \* waits[c]: the connection whose ack c waits for, 0 when none
    mon,        \* the monitor: "idle" | "stale" | "close" | "dereg"
    target,     \* the connection the monitor closes
    rounds,     \* monitor rounds so far
    \* History variables: nothing in the code reads them.
    blind,      \* the monitor unregistered a connection it never found stale
    given       \* the sessions aborted while they were held

regVars   == <<conn, phase, open, writer, sat>>
graceVars == <<attached, held, timer, life, closing, given>>
cmdVars   == <<waits>>
monVars   == <<mon, target, rounds, blind>>
vars == <<regVars, graceVars, cmdVars, monVars>>

TypeOK ==
    /\ conn \in 0..MaxSockets
    /\ phase \in [Sockets -> {"none", "lock", "swap", "loop", "gone"}]
    /\ open \in SUBSET Sockets
    /\ writer \in [Sockets -> {"off", "run", "failed"}]
    /\ sat \in 0..MaxSockets
    /\ attached \in SUBSET Sessions
    /\ held \in SUBSET Sessions
    /\ timer \in {"off", "sleep", "due"}
    /\ life \in [Sessions -> {"none", "live", "dead", "lost"}]
    /\ closing \in SUBSET Sessions
    /\ waits \in [Commands -> 0..MaxSockets]
    /\ mon \in {"idle", "stale", "close", "dereg"}
    /\ target \in 0..MaxSockets
    /\ rounds \in 0..MaxRounds
    /\ blind \in BOOLEAN
    /\ given \in SUBSET Sessions

Init ==
    /\ conn = 0
    /\ phase = [k \in Sockets |-> "none"]
    /\ open = {}
    /\ writer = [k \in Sockets |-> "off"]
    /\ sat = 0
    /\ attached = {} /\ held = {} /\ timer = "off"
    /\ life = [s \in Sessions |-> "none"]
    /\ closing = {} /\ given = {}
    /\ waits = [c \in Commands |-> 0]
    /\ mon = "idle" /\ target = 0 /\ rounds = 0 /\ blind = FALSE

-----------------------------------------------------------------------------
(* Helpers *)

\* self._lock is held across an await only by a register that replaces.
LockFree == \A k \in Sockets : phase[k] # "swap"

\* Mutant: the waiters of a connection are left to their timeout.
RejectedNone(k) == waits

\* Every ack that waits on connection k fails.
Rejected(k) ==
    [c \in Commands |-> IF waits[c] = k THEN 0 ELSE waits[c]]

\* Mutant: a connection that replaces another starts without its sessions.
CarriedHeld == held

\* The session queues of a new connection: those of the one it replaces and
\* those held from a drop.
Carried == attached \cup held

\* Mutant: sessions held without a timer.
GraceTimerKept == timer

\* The grace timer after a drop: a new one when there are sessions to hold.
GraceTimer == IF attached = {} THEN timer ELSE "sleep"

\* Mutant: what was given up stays in the grace area.
HeldStill(s) == held

HeldWithout(s) == held \ {s}

\* drop_grace_session: s leaves the grace area, and the timer is cancelled
\* with the last one.
DropGrace(s) ==
    /\ held' = HeldWithout(s)
    /\ timer' = IF held # {} /\ HeldWithout(s) = {} THEN "off" ELSE timer

\* Mutant: the identity of the connection is not looked at.
OwnsAny(k) == conn # 0

\* deregister's guard: the caller's connection is the registered one.
Owns(k) == conn = k

-----------------------------------------------------------------------------
(* The satellite and the network *)

\* A new socket is authenticated; its handler calls register.
SatConnect(k) ==
    /\ sat = 0
    /\ phase[k] = "none"
    /\ \A j \in Sockets : j < k => phase[j] # "none"
    /\ phase' = [phase EXCEPT ![k] = "lock"]
    /\ open' = open \cup {k}
    /\ sat' = k
    /\ UNCHANGED <<conn, writer, graceVars, cmdVars, monVars>>

\* The socket dies.  The proxy may not hear of it: its end then stays open,
\* silent, until the monitor or a reconnect.
SatDrop ==
    /\ sat # 0
    /\ sat' = 0
    /\ open' \in {open, open \ {sat}}
    /\ UNCHANGED <<conn, phase, writer, graceVars, cmdVars, monVars>>

\* A frame the satellite sends now reaches the handler of its socket.
Heard == sat # 0 /\ sat \in open /\ phase[sat] = "loop"

-----------------------------------------------------------------------------
(* register *)

\* What register does once nothing awaits any more: the waiters of the
\* replaced connection fail, its sessions and the held ones come over, the
\* timer is cancelled and the writer started.
Install(k) ==
    /\ conn' = k
    /\ phase' = [phase EXCEPT ![k] = "loop"]
    /\ writer' = [j \in Sockets |->
                    IF j = k THEN "run"
                    ELSE IF j = conn /\ writer[j] = "run" THEN "off"
                    ELSE writer[j]]
    /\ attached' = Carried
    /\ held' = {}
    /\ timer' = "off"
    /\ waits' = Rejected(conn)
    /\ UNCHANGED <<sat, life, closing, given, monVars>>

\* register takes the lock: with nothing to replace it runs through,
\* otherwise it awaits the close of the old socket with the lock held.
RegisterLocks(k) ==
    /\ phase[k] = "lock"
    /\ LockFree
    /\ IF conn = 0
         THEN Install(k) /\ UNCHANGED open
         ELSE /\ phase' = [phase EXCEPT ![k] = "swap"]
              /\ UNCHANGED <<conn, open, writer, sat, graceVars, cmdVars, monVars>>

RegisterSwaps(k) ==
    /\ phase[k] = "swap"
    /\ open' = open \ {conn}
    /\ Install(k)

-----------------------------------------------------------------------------
(* deregister: atomic from the moment it has the lock *)

\* The registered connection goes: its sessions are held and a timer started,
\* and every waiter of the machine fails.
Dropped ==
    /\ conn' = 0
    /\ writer' = [writer EXCEPT ![conn] = IF @ = "run" THEN "off" ELSE @]
    /\ attached' = {}
    /\ held' = IF attached = {} THEN held ELSE attached
    /\ timer' = GraceTimer
    /\ waits' = [c \in Commands |-> 0]
    /\ UNCHANGED <<open, sat, life, closing, given>>

\* deregister(machine, expected=k): nothing when k is no longer registered.
Deregister(k) ==
    IF Owns(k)
      THEN Dropped
      ELSE UNCHANGED <<conn, open, writer, sat, graceVars, cmdVars>>

\* The read loop of the handler ends with its socket: it deregisters.
HandlerEnds(k) ==
    /\ phase[k] = "loop"
    /\ k \notin open
    /\ LockFree
    /\ phase' = [phase EXCEPT ![k] = "gone"]
    /\ Deregister(k)
    /\ UNCHANGED monVars

\* A send on a dead socket fails: the writer spawns a deregister and ends.
WriterFails(k) ==
    /\ writer[k] = "run"
    /\ k \notin open
    /\ writer' = [writer EXCEPT ![k] = "failed"]
    /\ UNCHANGED <<conn, phase, open, sat, graceVars, cmdVars, monVars>>

WriterDeregisters(k) ==
    /\ writer[k] = "failed"
    /\ LockFree
    /\ IF Owns(k)
         THEN /\ Dropped
              /\ UNCHANGED phase
         ELSE /\ writer' = [writer EXCEPT ![k] = "off"]
              /\ UNCHANGED <<conn, phase, open, sat, graceVars, cmdVars>>
    /\ UNCHANGED monVars

-----------------------------------------------------------------------------
(* The heartbeat monitor *)

\* A registered socket on which nothing can come any more.
Silent == conn # 0 /\ (sat # conn \/ conn \notin open)

\* 300 s: the machine goes on the round's list.  Machines before it on the
\* list are closed first.
MonitorFinds ==
    /\ mon = "idle"
    /\ rounds < MaxRounds
    /\ Silent
    /\ mon' = "stale"
    /\ target' = conn
    /\ rounds' = rounds + 1
    /\ UNCHANGED <<blind, regVars, graceVars, cmdVars>>

\* gone = self._connections.get(machine): what is registered by now.
MonitorPicks ==
    /\ mon = "stale"
    /\ mon' = IF conn = 0 THEN "dereg" ELSE "close"
    /\ blind' = (blind \/ (conn # 0 /\ conn # target))
    /\ target' = conn
    /\ UNCHANGED <<rounds, regVars, graceVars, cmdVars>>

MonitorCloses ==
    /\ mon = "close"
    /\ mon' = "dereg"
    /\ open' = open \ {target}
    /\ UNCHANGED <<target, rounds, blind, conn, phase, writer, sat,
                   graceVars, cmdVars>>

\* deregister(machine) with no connection named: whatever is registered.
MonitorDeregisters ==
    /\ mon = "dereg"
    /\ LockFree
    /\ mon' = "idle"
    /\ blind' = (blind \/ (conn # 0 /\ conn # target))
    /\ target' = 0
    /\ IF conn # 0
         THEN Dropped
         ELSE UNCHANGED <<conn, open, writer, sat, graceVars, cmdVars>>
    /\ UNCHANGED <<rounds, phase>>

-----------------------------------------------------------------------------
(* Sessions *)

\* create_session_queue of a start, and the record it leads to.
Create(s) ==
    /\ conn # 0
    /\ life[s] = "none"
    /\ Reuse \/ s \notin closing
    /\ life' = [life EXCEPT ![s] = "live"]
    /\ attached' = attached \cup {s}
    /\ UNCHANGED <<held, timer, closing, given, regVars, cmdVars, monVars>>

\* close_session pops the record, then waits for the machine ...
CloseBegins(s) ==
    /\ life[s] # "none"
    /\ s \notin closing
    /\ life' = [life EXCEPT ![s] = "none"]
    /\ closing' = closing \cup {s}
    /\ given' = given \ {s}
    /\ UNCHANGED <<attached, held, timer, regVars, cmdVars, monVars>>

\* ... and removes the queue that the id names by then.
CloseEnds(s) ==
    /\ s \in closing
    /\ closing' = closing \ {s}
    /\ attached' = attached \ {s}
    /\ DropGrace(s)
    /\ UNCHANGED <<life, given, regVars, cmdVars, monVars>>

\* _hard_abort: the turn is given up and must not come back with the machine.
HardAbort(s) ==
    /\ life[s] = "live"
    /\ life' = [life EXCEPT ![s] = "dead"]
    /\ DropGrace(s)
    /\ given' = IF s \in held THEN given \cup {s} ELSE given
    /\ UNCHANGED <<attached, closing, regVars, cmdVars, monVars>>

\* prepare_resume: the record of a dead or lost session is discarded.
PrepareResume(s) ==
    /\ life[s] \in {"dead", "lost"}
    /\ life' = [life EXCEPT ![s] = "none"]
    /\ DropGrace(s)
    /\ given' = given \ {s}
    /\ UNCHANGED <<attached, closing, regVars, cmdVars, monVars>>

\* The grace window passes.
TimerRings ==
    /\ timer = "sleep"
    /\ timer' = "due"
    /\ UNCHANGED <<attached, held, life, closing, given,
                   regVars, cmdVars, monVars>>

\* _expire_grace has the lock: what is held gets its marker and its sentinel.
ExpireGrace ==
    /\ timer = "due"
    /\ LockFree
    /\ timer' = "off"
    /\ held' = {}
    /\ life' = [s \in Sessions |->
                  IF s \in held /\ life[s] # "none" THEN "lost" ELSE life[s]]
    /\ UNCHANGED <<attached, closing, given, regVars, cmdVars, monVars>>

-----------------------------------------------------------------------------
(* Commands *)

SendCommand(c) ==
    /\ conn # 0
    /\ waits[c] = 0
    /\ waits' = [waits EXCEPT ![c] = conn]
    /\ UNCHANGED <<regVars, graceVars, monVars>>

\* _frame_ack, over the socket the command was sent on.  (An ack that comes
\* after a reconnect finds no future any more.)
AckArrives(c) ==
    /\ waits[c] # 0
    /\ waits[c] = sat
    /\ Heard
    /\ waits' = [waits EXCEPT ![c] = 0]
    /\ UNCHANGED <<regVars, graceVars, monVars>>

AckTimesOut(c) ==
    /\ waits[c] # 0
    /\ waits' = [waits EXCEPT ![c] = 0]
    /\ UNCHANGED <<regVars, graceVars, monVars>>

-----------------------------------------------------------------------------
Network == (\E k \in Sockets : SatConnect(k)) \/ SatDrop

Handler(k) ==
    \/ RegisterLocks(k) \/ RegisterSwaps(k)
    \/ HandlerEnds(k)
    \/ WriterFails(k) \/ WriterDeregisters(k)

Monitor == MonitorFinds \/ MonitorPicks \/ MonitorCloses \/ MonitorDeregisters

Session(s) ==
    \/ Create(s) \/ CloseBegins(s) \/ CloseEnds(s) \/ HardAbort(s) \/ PrepareResume(s)

Command(c) == SendCommand(c) \/ AckArrives(c) \/ AckTimesOut(c)

Next ==
    \/ Network
    \/ \E k \in Sockets : Handler(k)
    \/ Monitor
    \/ \E s \in Sessions : Session(s)
    \/ TimerRings
    \/ ExpireGrace
    \/ \E c \in Commands : Command(c)

Spec == Init /\ [][Next]_vars

(* Fairness.  A task that can run runs, an await on a close or a write     *)
(* returns and a timer rings.  Nothing makes the satellite come back or a  *)
(* person act.                                                             *)
FairSpec ==
    /\ Spec
    /\ \A k \in Sockets :
         WF_vars(Handler(k))
    /\ WF_vars(MonitorPicks \/ MonitorCloses \/ MonitorDeregisters)
    /\ WF_vars(MonitorFinds)
    /\ WF_vars(TimerRings \/ ExpireGrace)
    /\ \A s \in Sessions : WF_vars(CloseEnds(s))
    /\ \A c \in Commands : WF_vars(AckTimesOut(c))

-----------------------------------------------------------------------------
(* Properties *)

\* A socket the satellite talks on is the registered one: frames, commands
\* and the machine's status all go by the registry ("popping the entry here
\* would unregister the LIVE connection", deregister).
LiveRegistered == Heard => conn = sat

\* The same, as long as the monitor has not met a reconnect: its deregister
\* names no connection, and its close takes the one registered by then.
LiveUnlessBlind == ~blind => LiveRegistered

\* A running session is never forgotten: it is attached to the registered
\* connection, or held with a timer that will end it.
NoneForgotten ==
    \A s \in Sessions : life[s] = "live" =>
        \/ s \in attached /\ conn # 0
        \/ s \in held /\ timer # "off"

\* A session that was aborted in the grace window, or whose window ran out,
\* does not come back with the machine.
NoComeback ==
    [][\A s \in attached' \ attached : s \notin given /\ life[s] # "lost"]_vars

\* A caller never waits on a connection that is gone: whoever replaces or
\* drops a connection fails the commands that were sent on it.
WaitersOnLive == \A c \in Commands : waits[c] # 0 => waits[c] = conn

\* What the machine's sessions see is the abstract grace: they go and come
\* back together, and expire together.
SG == INSTANCE SessionGrace WITH
        up <- conn # 0,
        wanted <- {s \in Sessions : life[s] = "live"},
        place <- [s \in Sessions |->
                    IF s \in attached THEN "attached"
                    ELSE IF s \in held THEN "held"
                    ELSE IF life[s] = "lost" THEN "lost" ELSE "none"]

ImplementsSessionGrace == SG!Spec

\* A held session does not stay held: the machine comes back, the window
\* runs out, or a person gives it up.
HeldResolves == \A s \in Sessions : s \in held ~> s \notin held
=============================================================================
