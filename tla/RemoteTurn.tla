----------------------------- MODULE RemoteTurn -----------------------------
(***************************************************************************)
(* The turns of one Claude session on a remote machine.                    *)
(*                                                                         *)
(* On the proxy: remote_turn._send_turn, the turn stream of                *)
(* layers/cli/remote.py, the aborts of remote_abort.py and the frame       *)
(* handlers of satellite_connection.py that feed the session's queue.  On  *)
(* the satellite: send_message, stop_turn, abort and start_session of      *)
(* session_manager.py with the reader of cli_session.py.  Between them two *)
(* FIFO links that a drop cuts, and behind the satellite the CLI process,  *)
(* which is external.                                                      *)
(*                                                                         *)
(* A turn is known by its command id.  Turns of a session are serial: the  *)
(* producer holds the session lock.  Of the CLI's lines only the results   *)
(* matter here: the rest passes through and decides nothing.  A result is  *)
(* known by the prompt p it answers and, in a frame, by the command c it   *)
(* was read under.                                                         *)
(***************************************************************************)
EXTENDS Integers, Sequences, SequencesExt

CONSTANTS MaxTurns,     \* bound: turns
          MaxDrops,     \* bound: times the link drops
          MaxStops,     \* bound: times a person presses Stop
          MaxCrashes,   \* bound: times the CLI dies by itself
          MaxStarts     \* bound: start_session commands

ASSUME TurnBoundsAssumption ==
    /\ MaxTurns \in Nat \ {0}
    /\ MaxDrops \in Nat /\ MaxStops \in Nat /\ MaxCrashes \in Nat
    /\ MaxStarts \in 0..MaxTurns

Turns == 1..MaxTurns

VARIABLES
    \* the proxy
    stage,    \* where the turn is: idle, start, wait, sent, stream or drain
    cur,      \* current_send_command_id, 0 before the first turn
    q,        \* the session's event queue
    armed,    \* _abort_acked_events: whether an ack is awaited
    killed,   \* info.proxy_killed
    dead,     \* info.cli_dead, or no record
    rec,      \* whether the session has a record (_sessions)
    watch,    \* the turns a soft-interrupt watchdog is pinned to
    outcome,  \* outcome[c]: how turn c ended, "none" before
    place,    \* the session's queue: attached to the link, held, or lost
    \* the links
    linked,   \* whether the machine is connected
    down,     \* frames to the satellite
    up,       \* frames from the satellite (its send queue and the wire)
    \* the satellite
    handler,  \* handler[c]: the send_message task of command c
    reader,   \* who holds the reader lock, 0 when nobody
    stop,     \* stop_turn_event
    proc,     \* the CLI process: "alive" | "dying" | "dead"
    stdin,    \* prompts written and not taken
    on,       \* the prompt the CLI works on, 0 when idle
    out,      \* the prompts whose results are on its stdout
    \* bounds and history
    drops, stops, crashes, starts,
    answer,   \* answer[c]: the prompt whose result ended turn c
    cut,      \* the turns whose process died, or whose prompt was not written
    loose,    \* the turns given up while the process they went to may run them
    mixed,    \* the turns sent to such a process
    pressed   \* the turns that ran when a person pressed Stop

turnVars  == <<stage, cur, q, armed, killed, dead, rec, watch, outcome, place, answer>>
linkVars  == <<linked, down, up>>
satVars   == <<handler, reader, stop>>
cliVars   == <<proc, stdin, on, out>>
countVars == <<drops, stops, crashes, starts>>
pastVars  == <<cut, loose, mixed, pressed>>
vars == <<turnVars, linkVars, satVars, cliVars, countVars, pastVars>>

Frames ==
    [k : {"result", "error", "end", "marker", "none", "ok", "refused",
          "started", "aborted", "start", "send", "stop", "interrupt", "abort"},
     c : 0..MaxTurns, p : 0..MaxTurns]

TypeOK ==
    /\ stage \in {"idle", "start", "wait", "sent", "stream", "drain"}
    /\ cur \in 0..MaxTurns
    /\ q \in Seq(Frames) /\ up \in Seq(Frames) /\ down \in Seq(Frames)
    /\ armed \in BOOLEAN /\ killed \in BOOLEAN /\ dead \in BOOLEAN /\ rec \in BOOLEAN
    /\ watch \in SUBSET Turns
    /\ outcome \in [Turns -> {"none", "done", "lost", "expired", "silent",
                              "error", "stopped", "unsent", "refused"}]
    /\ place \in {"attached", "held", "lost"}
    /\ linked \in BOOLEAN
    /\ handler \in [Turns -> {"none", "lock", "read", "gone"}]
    /\ reader \in 0..MaxTurns
    /\ stop \in BOOLEAN
    /\ proc \in {"alive", "dying", "dead"}
    /\ stdin \in Seq(Turns)
    /\ on \in 0..MaxTurns
    /\ out \in Seq(Turns)
    /\ drops \in 0..MaxDrops /\ stops \in 0..MaxStops /\ crashes \in 0..MaxCrashes
    /\ starts \in 0..MaxStarts
    /\ answer \in [Turns -> 0..MaxTurns]
    /\ cut \in SUBSET Turns /\ loose \in SUBSET Turns /\ mixed \in SUBSET Turns
    /\ pressed \in SUBSET Turns

\* A session that was started and is idle.
Init ==
    /\ stage = "idle" /\ cur = 0 /\ q = <<>>
    /\ armed = FALSE /\ killed = FALSE /\ dead = FALSE /\ rec = TRUE /\ watch = {}
    /\ outcome = [c \in Turns |-> "none"]
    /\ place = "attached"
    /\ linked = TRUE /\ down = <<>> /\ up = <<>>
    /\ handler = [c \in Turns |-> "none"] /\ reader = 0 /\ stop = FALSE
    /\ proc = "alive" /\ stdin = <<>> /\ on = 0 /\ out = <<>>
    /\ drops = 0 /\ stops = 0 /\ crashes = 0 /\ starts = 0
    /\ answer = [c \in Turns |-> 0]
    /\ cut = {} /\ loose = {} /\ mixed = {} /\ pressed = {}

-----------------------------------------------------------------------------
(* Helpers *)

Frame(kind, c) == [k |-> kind, c |-> c, p |-> 0]

\* enqueue_send: a frame for a machine that is not connected goes nowhere.
Sent(frames) == IF linked THEN down \o frames ELSE down

\* turn_active
Live == stage \in {"stream", "drain"}

\* Mutant: whatever ends a turn ends this one.
StaleNever(m) == FALSE

\* A result, an error or a turn_ended of another turn's command.
Stale(m) == m.k \in {"result", "error", "end"} /\ m.c # cur

\* Mutant: the watchdog looks only at whether a turn runs.
PinnedLoose(c) == rec /\ Live

\* The watchdog's turn is still the one that runs, in the record it was armed on.
Pinned(c) == rec /\ Live /\ cur = c

\* Mutant: a new turn reads beside the previous turn's reader.
LockAlways == TRUE

\* The reader lock is free.
LockFree == reader = 0

\* Mutant: silence ends a turn only while its queue is attached.
SilenceAttached == place = "attached"

\* In the grace window a silent turn waits for the window's own end.
SilenceEnds == place # "held"

\* The turn is over.
Ends(how) ==
    /\ stage' = "idle"
    /\ outcome' = [outcome EXCEPT ![cur] = how]

\* _hard_abort, after frames that are sent anyway: the process is killed, the record
\* says so, a held session is given up.  Without a record there is nothing to abort.
HardAbort(frames) ==
    IF rec
      THEN /\ killed' = TRUE
           /\ dead' = TRUE
           /\ armed' = TRUE
           /\ place' = IF place = "held" THEN "lost" ELSE place
           /\ down' = Sent(Append(frames, Frame("abort", 0)))
      ELSE /\ down' = Sent(frames)
           /\ UNCHANGED <<killed, dead, armed, place>>

-----------------------------------------------------------------------------
(* The proxy: a turn *)

\* A message for the session.  A dead one is resumed first: its record goes and a
\* start_session with a fresh queue is sent, whose answer makes the new record.
Begin ==
    /\ stage = "idle"
    /\ cur < MaxTurns
    /\ linked
    /\ IF dead
         THEN /\ starts < MaxStarts
              /\ starts' = starts + 1
              /\ stage' = "start"
              /\ q' = <<>>
              /\ killed' = FALSE
              /\ place' = "attached"
              /\ rec' = FALSE
              /\ down' = Sent(<<Frame("start", starts + 1)>>)
         ELSE /\ stage' = "wait"
              /\ UNCHANGED <<q, killed, rec, place, down, starts>>
    /\ UNCHANGED <<cur, armed, dead, watch, outcome, answer,
                   linked, up, satVars, cliVars, drops, stops, crashes, pastVars>>

\* The start is not answered in time.
StartFails ==
    /\ stage = "start"
    /\ stage' = "idle"
    /\ UNCHANGED <<cur, q, armed, killed, dead, rec, watch, outcome, place, answer,
                   linkVars, satVars, cliVars, countVars, pastVars>>

\* Mutant: what is left in the queue stays there.
SendTurnUndrained ==
    /\ stage = "wait"
    /\ armed' = FALSE
    /\ q' = q
    /\ killed' = FALSE
    /\ cur' = cur + 1
    /\ down' = Sent(<<Frame("send", cur + 1)>>)
    /\ stage' = IF linked THEN "sent" ELSE "idle"
    /\ outcome' = [outcome EXCEPT ![cur + 1] = IF linked THEN "none" ELSE "unsent"]
    /\ UNCHANGED <<dead, rec, watch, place, answer, linked, up,
                   satVars, cliVars, countVars, pastVars>>

\* _send_turn after wait_abort_acked, which ends with the ack or its 16 s:
\* what is left in the queue goes, and the message is sent under a new id.
SendTurn ==
    /\ stage = "wait"
    /\ armed' = FALSE
    /\ q' = <<>>
    /\ killed' = FALSE
    /\ cur' = cur + 1
    /\ down' = Sent(<<Frame("send", cur + 1)>>)
    /\ stage' = IF linked THEN "sent" ELSE "idle"
    /\ outcome' = [outcome EXCEPT ![cur + 1] = IF linked THEN "none" ELSE "unsent"]
    /\ UNCHANGED <<dead, rec, watch, place, answer, linked, up,
                   satVars, cliVars, countVars, pastVars>>

\* The ack of the send does not come within its 30 s.
SendTimesOut ==
    /\ stage = "sent"
    /\ Ends("unsent")
    /\ loose' = loose \cup {cur}
    /\ UNCHANGED <<cur, q, armed, killed, dead, rec, watch, place, answer,
                   linkVars, satVars, cliVars, countVars, cut, mixed, pressed>>

\* The turn stream takes one event.
StreamReads ==
    /\ stage = "stream"
    /\ q # <<>>
    /\ q' = Tail(q)
    /\ LET m == Head(q) IN
         \/ /\ Stale(m)
            /\ UNCHANGED <<stage, outcome, dead, down, answer, loose>>
         \/ /\ ~Stale(m)
            /\ m.k = "result"
            /\ stage' = "drain"
            /\ down' = Sent(<<Frame("stop", 0)>>)
            /\ answer' = [answer EXCEPT ![cur] = m.p]
            /\ UNCHANGED <<outcome, dead, loose>>
         \/ /\ ~Stale(m)
            /\ m.k \in {"end", "none"}
            /\ Ends(IF killed THEN "stopped" ELSE "lost")
            /\ dead' = (dead \/ ~killed)
            /\ UNCHANGED <<down, answer, loose>>
         \/ /\ ~Stale(m)
            /\ m.k \in {"error", "marker"}
            /\ Ends(IF m.k = "error" THEN "error" ELSE "expired")
            /\ loose' = IF m.k = "error" THEN loose ELSE loose \cup {cur}
            /\ UNCHANGED <<dead, down, answer>>
    /\ UNCHANGED <<cur, armed, killed, rec, watch, place, linked, up,
                   satVars, cliVars, countVars, cut, mixed, pressed>>

\* No event for the silence ceiling and nothing that keeps the turn: the
\* reader is stopped, the process killed and the turn ends typed.
StreamSilent ==
    /\ stage = "stream"
    /\ q = <<>>
    /\ SilenceEnds
    /\ Ends("silent")
    /\ HardAbort(<<Frame("stop", 0)>>)
    /\ UNCHANGED <<cur, q, rec, watch, answer, linked, up,
                   satVars, cliVars, countVars, pastVars>>

\* drain_until_turn_ended: until the turn's own marker.
DrainReads ==
    /\ stage = "drain"
    /\ q # <<>>
    /\ q' = Tail(q)
    /\ IF Head(q).k \in {"end", "none"} /\ ~Stale(Head(q))
         THEN Ends("done")
         ELSE UNCHANGED <<stage, outcome>>
    /\ UNCHANGED <<cur, armed, killed, dead, rec, watch, place, answer,
                   linkVars, satVars, cliVars, countVars, pastVars>>

\* ... or its 2 s.
DrainTimesOut ==
    /\ stage = "drain"
    /\ Ends("done")
    /\ UNCHANGED <<cur, q, armed, killed, dead, rec, watch, place, answer,
                   linkVars, satVars, cliVars, countVars, pastVars>>

-----------------------------------------------------------------------------
(* The proxy: Stop *)

\* abort of a live turn on a connected machine: the interrupt goes out, the
\* producer goes on, a watchdog is pinned to the turn.
StopSoft ==
    /\ rec /\ Live
    /\ linked
    /\ stops < MaxStops
    /\ stops' = stops + 1
    /\ down' = Sent(<<Frame("interrupt", 0)>>)
    /\ watch' = watch \cup {cur}
    /\ pressed' = pressed \cup {cur}
    /\ UNCHANGED <<stage, cur, q, armed, killed, dead, rec, outcome, place, answer,
                   linked, up, satVars, cliVars, drops, crashes, starts, cut, loose, mixed>>

\* The hard abort, after which the caller cancels the producer; a turn stream
\* that is closed before its end stops the satellite's reader.
StopHard ==
    /\ stage # "idle"
    /\ ~(rec /\ Live /\ linked)
    /\ stops < MaxStops
    /\ stops' = stops + 1
    /\ HardAbort(<<>>)
    /\ stage' = "idle"
    /\ IF stage \in {"start", "wait"}
         THEN UNCHANGED <<outcome, pressed>>
         ELSE /\ outcome' = [outcome EXCEPT ![cur] = "stopped"]
              /\ pressed' = pressed \cup {cur}
    /\ UNCHANGED <<cur, q, rec, watch, answer, linked, up,
                   satVars, cliVars, drops, crashes, starts, cut, loose, mixed>>

\* The watchdog of turn c: a turn that did not close is aborted hard; its
\* producer is not cancelled.
WatchdogEnds(c) ==
    /\ c \in watch
    /\ watch' = watch \ {c}
    /\ IF Pinned(c)
         THEN HardAbort(<<>>)
         ELSE UNCHANGED <<killed, dead, armed, place, down>>
    /\ UNCHANGED <<stage, cur, q, rec, outcome, answer, linked, up,
                   satVars, cliVars, countVars, pastVars>>

-----------------------------------------------------------------------------
(* The proxy: frames that arrive *)

\* A frame for the session's queue: dropped when the link has no queue.
FrameQueued ==
    /\ linked
    /\ up # <<>>
    /\ Head(up).k \in {"result", "error", "end"}
    /\ up' = Tail(up)
    /\ q' = IF place = "attached" THEN Append(q, Head(up)) ELSE q
    /\ UNCHANGED <<stage, cur, armed, killed, dead, rec, watch, outcome, place, answer,
                   linked, down, satVars, cliVars, countVars, pastVars>>

\* The ack of the send, when its turn still waits for it.
FrameAck ==
    /\ linked
    /\ up # <<>>
    /\ Head(up).k \in {"ok", "refused"}
    /\ up' = Tail(up)
    /\ LET mine == stage = "sent" /\ Head(up).c = cur IN
         \/ ~mine /\ UNCHANGED <<stage, outcome, dead>>
         \/ /\ mine /\ Head(up).k = "ok"
            /\ stage' = "stream"
            /\ UNCHANGED <<outcome, dead>>
         \/ /\ mine /\ Head(up).k = "refused"
            /\ Ends("refused")
            /\ dead' = TRUE
    /\ UNCHANGED <<cur, q, armed, killed, rec, watch, place, answer,
                   linked, down, satVars, cliVars, countVars, pastVars>>

\* The ack of the start that is waited for: the new record stands.
FrameStarted ==
    /\ linked
    /\ up # <<>>
    /\ Head(up).k = "started"
    /\ up' = Tail(up)
    /\ IF stage = "start" /\ Head(up).c = starts
         THEN stage' = "wait" /\ dead' = FALSE /\ rec' = TRUE
         ELSE UNCHANGED <<stage, dead, rec>>
    /\ UNCHANGED <<cur, q, armed, killed, watch, outcome, place, answer,
                   linked, down, satVars, cliVars, countVars, pastVars>>

\* _frame_session_aborted: while a hard abort waits for it, it drains.
FrameAborted ==
    /\ linked
    /\ up # <<>>
    /\ Head(up).k = "aborted"
    /\ up' = Tail(up)
    /\ q' = IF armed /\ place = "attached" THEN <<>> ELSE q
    /\ UNCHANGED <<stage, cur, armed, killed, dead, rec, watch, outcome, place, answer,
                   linked, down, satVars, cliVars, countVars, pastVars>>

-----------------------------------------------------------------------------
(* The link *)

\* The link drops.  What the proxy had queued is gone, and so are the frames
\* the satellite had handed to the socket (its first n); a frame whose send
\* failed goes to the end of its queue.  Waiters for an ack fail.
Drop ==
    /\ linked
    /\ drops < MaxDrops
    /\ drops' = drops + 1
    /\ linked' = FALSE
    /\ down' = <<>>
    /\ \E n \in 0..Len(up) :
         LET kept == SubSeq(up, n + 1, Len(up)) IN
         up' \in {kept} \cup (IF kept = <<>> THEN {}
                              ELSE {Append(Tail(kept), Head(kept))})
    /\ place' = IF place = "attached" THEN "held" ELSE place
    /\ stage' = IF stage \in {"sent", "start"} THEN "idle" ELSE stage
    /\ outcome' = IF stage = "sent" THEN [outcome EXCEPT ![cur] = "unsent"]
                  ELSE outcome
    /\ loose' = IF stage = "sent" THEN loose \cup {cur} ELSE loose
    /\ UNCHANGED <<cur, q, armed, killed, dead, rec, watch, answer,
                   satVars, cliVars, stops, crashes, starts, cut, mixed, pressed>>

Reconnect ==
    /\ ~linked
    /\ linked' = TRUE
    /\ place' = IF place = "held" THEN "attached" ELSE place
    /\ UNCHANGED <<stage, cur, q, armed, killed, dead, rec, watch, outcome, answer,
                   down, up, satVars, cliVars, countVars, pastVars>>

\* _expire_grace: the marker and the sentinel.
Expire ==
    /\ ~linked
    /\ place = "held"
    /\ place' = "lost"
    /\ q' = q \o <<Frame("marker", 0), Frame("none", 0)>>
    /\ UNCHANGED <<stage, cur, armed, killed, dead, rec, watch, outcome, answer,
                   linkVars, satVars, cliVars, countVars, pastVars>>

\* The reaper closes a session whose machine is away past the grace, a turn or not:
\* the record goes, the producer of a turn keeps its own hold of it and of the queue.
Reap ==
    /\ ~linked
    /\ place = "lost"
    /\ rec
    /\ rec' = FALSE
    /\ dead' = TRUE
    /\ UNCHANGED <<stage, cur, q, armed, killed, watch, outcome, place, answer,
                   linkVars, satVars, cliVars, countVars, pastVars>>

-----------------------------------------------------------------------------
(* The satellite.  Each frame starts a task, in order. *)

Takes(kind) == linked /\ down # <<>> /\ Head(down).k = kind /\ down' = Tail(down)

\* start_session: a process still there is closed first (a dying one is
\* waited for); the tasks of the old session meet its end.
TakeStart ==
    /\ Takes("start")
    /\ proc # "dying"
    /\ cut' = cut \cup {c \in Turns : handler[c] \in {"lock", "read"}}
    /\ loose' = {c \in loose : handler[c] = "none"}
    /\ proc' = "alive" /\ stdin' = <<>> /\ on' = 0 /\ out' = <<>>
    /\ reader' = 0 /\ stop' = FALSE
    /\ handler' = [c \in Turns |->
                     IF handler[c] \in {"lock", "read"} THEN "gone" ELSE handler[c]]
    /\ up' = Append(up \o SetToSeq({Frame("end", c) :
                                       c \in {d \in Turns : handler[d] \in {"lock", "read"}}}),
                    Frame("started", Head(down).c))
    /\ UNCHANGED <<turnVars, linked, countVars, mixed, pressed>>

\* send_message: refused by a dead process, else acked; a loop that still
\* reads is told to stop.
TakeSend ==
    /\ Takes("send")
    /\ LET c == Head(down).c IN
         IF proc = "dead"
           THEN /\ up' = Append(up, Frame("refused", c))
                /\ UNCHANGED <<handler, stop>>
           ELSE /\ up' = Append(up, Frame("ok", c))
                /\ handler' = [handler EXCEPT ![c] = "lock"]
                /\ stop' = (stop \/ ~LockFree)
    /\ UNCHANGED <<turnVars, linked, reader, cliVars, countVars, pastVars>>

\* The task has the reader lock (first come, first served): the flag is cleared and the prompt written.
TakeLock(c) ==
    /\ handler[c] = "lock"
    /\ \A d \in Turns : d < c => handler[d] # "lock"
    /\ LockFree
    /\ IF proc = "dead"
         THEN /\ handler' = [handler EXCEPT ![c] = "gone"]
              /\ up' = up \o <<Frame("error", c), Frame("end", c)>>
              /\ UNCHANGED <<reader, stdin>>
         ELSE /\ handler' = [handler EXCEPT ![c] = "read"]
              /\ reader' = c
              /\ stdin' = Append(stdin, c)
              /\ UNCHANGED up
    /\ stop' = FALSE
    /\ mixed' = IF loose \ {c} = {} THEN mixed ELSE mixed \cup {c}
    /\ UNCHANGED <<turnVars, linked, down, proc, on, out, countVars, cut, loose, pressed>>

\* The reader before it does not let go within _READER_HANDOFF_S: the send fails, its
\* prompt is not written.  Of several that wait the first one gives up first.
LockTimesOut(c) ==
    /\ handler[c] = "lock"
    /\ \A d \in Turns : d < c => handler[d] # "lock"
    /\ ~LockFree
    /\ handler' = [handler EXCEPT ![c] = "gone"]
    /\ up' = up \o <<Frame("error", c), Frame("end", c)>>
    /\ cut' = cut \cup {c}
    /\ loose' = loose \ {c}
    /\ UNCHANGED <<turnVars, linked, down, reader, stop, cliVars, countVars, mixed, pressed>>

\* A line is forwarded under the reader's command.
ReadLine(c) ==
    /\ handler[c] = "read"
    /\ out # <<>>
    /\ out' = Tail(out)
    /\ up' = Append(up, [k |-> "result", c |-> c, p |-> Head(out)])
    /\ UNCHANGED <<turnVars, linked, down, satVars, proc, stdin, on,
                   countVars, pastVars>>

\* The loop ends at the stop flag or with the process, whatever is unread.
ReaderEnds(c) ==
    /\ handler[c] = "read"
    /\ stop \/ proc = "dead"
    /\ handler' = [handler EXCEPT ![c] = "gone"]
    /\ reader' = 0
    /\ up' = Append(up, Frame("end", c))
    /\ UNCHANGED <<turnVars, linked, down, stop, cliVars, countVars, pastVars>>

\* stop_turn names no command: it is for whoever reads.
TakeStop ==
    /\ Takes("stop")
    /\ stop' = TRUE
    /\ UNCHANGED <<turnVars, linked, up, handler, reader, cliVars, countVars, pastVars>>

\* The CLI may close its turn at any time anyway.
TakeInterrupt ==
    /\ Takes("interrupt")
    /\ UNCHANGED <<turnVars, linked, up, satVars, cliVars, countVars, pastVars>>

\* abort: a signal, then the ack when the process is gone.
TakeAbort ==
    /\ Takes("abort")
    /\ proc # "dying"
    /\ IF proc = "alive"
         THEN proc' = "dying" /\ UNCHANGED up
         ELSE up' = Append(up, Frame("aborted", 0)) /\ UNCHANGED proc
    /\ UNCHANGED <<turnVars, linked, satVars, stdin, on, out, countVars, pastVars>>

-----------------------------------------------------------------------------
(* The CLI, external *)

Gone ==
    /\ proc' = "dead"
    /\ on' = 0
    /\ stdin' = <<>>
    /\ cut' = cut \cup {c \in Turns : handler[c] \in {"lock", "read"}}
    /\ loose' = {c \in loose : handler[c] = "none"}
    /\ UNCHANGED <<turnVars, linked, down, satVars, out, drops, stops, starts, mixed, pressed>>

CliDies == proc = "dying" /\ Gone /\ up' = Append(up, Frame("aborted", 0)) /\ UNCHANGED crashes

CliCrashes ==
    /\ proc = "alive"
    /\ crashes < MaxCrashes
    /\ crashes' = crashes + 1
    /\ Gone
    /\ UNCHANGED up

CliTakes ==
    /\ proc = "alive"
    /\ on = 0
    /\ stdin # <<>>
    /\ on' = Head(stdin)
    /\ stdin' = Tail(stdin)
    /\ UNCHANGED <<turnVars, linkVars, satVars, proc, out, countVars, pastVars>>

CliAnswers ==
    /\ on # 0
    /\ on' = 0
    /\ out' = Append(out, on)
    /\ UNCHANGED <<turnVars, linkVars, satVars, proc, stdin, countVars, pastVars>>

-----------------------------------------------------------------------------
\* The producer's own steps: each timeout of the code makes one possible.
Producer ==
    \/ StartFails \/ SendTurn \/ SendTimesOut
    \/ StreamReads \/ StreamSilent \/ DrainReads \/ DrainTimesOut

Person == Begin \/ StopSoft \/ StopHard

FramesIn == FrameQueued \/ FrameAck \/ FrameStarted \/ FrameAborted

Link == Drop \/ Reconnect \/ Expire \/ Reap

Satellite ==
    \/ TakeStart \/ TakeSend \/ TakeStop \/ TakeInterrupt \/ TakeAbort
    \/ \E c \in Turns : TakeLock(c) \/ LockTimesOut(c) \/ ReadLine(c) \/ ReaderEnds(c)

Cli == CliDies \/ CliCrashes \/ CliTakes \/ CliAnswers

Next ==
    \/ Producer
    \/ Person
    \/ \E c \in Turns : WatchdogEnds(c)
    \/ FramesIn
    \/ Link
    \/ Satellite
    \/ Cli

Spec == Init /\ [][Next]_vars

\* The loop runs the producer, whose every wait has a timeout, and the grace
\* timer rings.  Nothing is asked of the satellite, the CLI or a person.
FairSpec ==
    /\ Spec
    /\ WF_vars(Producer)
    /\ WF_vars(Expire \/ Reconnect)

-----------------------------------------------------------------------------
(* Properties *)

\* "A result/error from a PREVIOUS turn ... must not terminate THIS turn":
\* the result that ends a turn answers that turn's prompt.
ResultIsOwn == \A c \in Turns : answer[c] \in {0, c}

\* The same as long as the process runs no turn that the proxy gave up: a
\* send whose ack was lost or late, or a turn whose grace ran out.
ResultIsOwnUnlessMixed == \A c \in Turns \ mixed : answer[c] \in {0, c}

\* The command a result is forwarded under is the one whose prompt it
\* answers: no reader outlives its turn into the next one's output.
TagsTrue ==
    \A m \in Range(up) \cup Range(q) :
        m.k = "result" /\ m.c \notin mixed => m.c = m.p

\* A turn is reported lost only when its process died or its prompt was not written:
\* never because of what an earlier turn left behind.  The code's one word "lost" is
\* split here: a turn the grace's end severed is "expired", one whose send the machine
\* answers with "not running" is "refused" (or "stopped" after the proxy's own kill).
NoFalseLoss == \A c \in Turns : outcome[c] = "lost" => c \in cut

\* "its producer is being cancelled": the ack of a hard abort takes nothing
\* from the queue of a turn whose producer still reads.
NothingEverStolen == [][Live /\ up' # up => Len(q') >= Len(q)]_vars

\* The signal of an abort never reaches the process of a turn that nobody stopped: not
\* by the watchdog of an earlier turn, and not by an abort that is still on its way when
\* the next turn is sent ("a slow watchdog can never kill a successor turn").
KillsOnlyStopped ==
    proc = "dying" /\ stage \in {"sent", "stream", "drain"} => cur \in pressed

\* Every turn ends: in the grace window, after a lost frame, with a dead or
\* silent CLI, and however often it is stopped.
EveryTurnEnds == stage # "idle" ~> stage = "idle"
=============================================================================
