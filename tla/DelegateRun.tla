---------------------------- MODULE DelegateRun ----------------------------
(***************************************************************************)
(* The runs of one delegated worker lane across restarts of the proxy.     *)
(*                                                                         *)
(* A lane is a worker chat with one Claude session on a remote machine.    *)
(* Run 1 starts it, the later runs continue it; every run owes its         *)
(* delegator one report.  The runner (scheduler/runner.py, task_run.py)    *)
(* drives a run to its terminal stamp and its report; a restart leaves the *)
(* rows it finds live to run_recovery.py, and the turn it cut to           *)
(* cut_turns.py, both of which wait for the machine's report of the        *)
(* sessions it kept (session_manager.py of the satellite).                 *)
(*                                                                         *)
(* A statement of the runner that writes the run's row hops to a thread: a *)
(* cancel does not wait for it, so the write lands later or, when no       *)
(* thread took it yet, never.  writes[r] holds the ones under way.         *)
(***************************************************************************)
EXTENDS Integers, Sequences, FiniteSets

CONSTANTS MaxRuns,      \* bound: runs of the lane
          MaxRestarts,  \* bound: times the proxy ends
          MaxFaults     \* bound: cancels of runs, steps that raise, processes
                        \* that die, reports left unanswered

ASSUME RunBoundsAssumption ==
    /\ MaxRuns \in Nat \ {0}
    /\ MaxRestarts \in Nat /\ MaxFaults \in Nat

Runs == 1..MaxRuns

\* A pump's token: who drives it, for which run (0: no run), in which process.
Pumps == {"run", "rec"} \X (0..MaxRuns) \X (0..MaxRestarts)
NoPump == <<"none", 0, 0>>

VARIABLES
    \* the database
    row,       \* row[r]: task_runs.status, "none" before the row
    stamped,   \* the runs whose row names the chat and the session
    record,    \* the chat's open-turn record: its pump, its engine turn open
    card,      \* the chat's newest row is a closing card: "none", "old" or
               \* "fresh" (written since the last open_turn)
    moved,     \* a prompt row was written since the boot
    closings,  \* closings[r]: closing cards written for run r's turn
    copies,    \* copies[r]: times the rows of run r's whole turn were written
    \* the machine
    alive,     \* it holds the session's process
    buf,       \* whose turn the retained buffer holds, 0 when none
    busy,      \* that turn runs
    finished,  \* the runs whose turn the engine finished
    ctx,       \* the session's security context is in the index
    \* the link
    linked,    \* the machine is connected
    report,    \* its sessions_alive frame: what it said, once due
    \* the proxy's process
    up,        \* "up", "stopping" or "down"
    pc,        \* pc[r]: where the runner's task of r is
    cause,     \* cause[r]: why its handler runs
    writes,    \* writes[r]: the row's writes under way in threads
    ended,     \* row_ended
    told,      \* result_delivered
    sent,      \* the runs whose prompt reached the machine
    outcome,   \* outcome[r]: how the run's own pump saw its turn end
    pumps,     \* the pumps that run
    top,       \* _active_pumps[chat]
    held,      \* the remote layer has the session's record
    parked,    \* run_recovery._parked: the session's run, 0 when none
    waiting,   \* cut_turns._parked: the session's cut turn
    closing,   \* the cut turns whose close is on its way
    rec,       \* the session's _recover_session
    failing,   \* the runs _fail_and_report is about to fail
    reporting, \* the runs it failed and has not reported
    mail,      \* mail[r]: reports on their way to the delegator
    heard,     \* heard[r]: reports the delegator got
    \* bounds and history
    restarts, faults,
    orphans,   \* the runs recovery let go of
    raced,     \* the runs cancelled with a write of their row under way
    torn,      \* the runs that a restart left live behind their card
    lost       \* the ended runs whose report the code does not send

rowVars  == <<row, stamped>>
chatVars == <<record, card, moved, closings, copies>>
satVars  == <<alive, buf, busy, finished, ctx>>
linkVars == <<linked, report>>
taskVars == <<pc, cause, writes, ended, told>>
turnVars == <<sent, outcome, pumps, top, held>>
recVars  == <<parked, waiting, closing, rec, failing, reporting>>
mailVars == <<mail, heard>>
pastVars == <<restarts, faults, orphans, raced, torn, lost>>
vars == <<rowVars, chatVars, satVars, linkVars, up, taskVars, turnVars,
          recVars, mailVars, pastVars>>

Live  == {"pending", "running"}
Final == {"completed", "failed", "cancelled"}
Words == {"completed", "failed", "interrupted", "cancelled"}

Body == {"admitting", "opening", "spawning", "turn", "stamping", "delivering",
         "closing"}
Handler == {"ending", "shutting", "telling"}
Active == {"queued", "frame"} \cup Body \cup Handler

NoReport == [due |-> FALSE, alive |-> FALSE, busy |-> FALSE]
NoRecord == [pump |-> NoPump, open |-> FALSE]
NoRec == [at |-> "none", run |-> 0, cut |-> NoPump, taken |-> FALSE,
          short |-> FALSE, of |-> 0]

TypeOK ==
    /\ row \in [Runs -> {"none"} \cup Live \cup Final]
    /\ stamped \in SUBSET Runs
    /\ record \in [pump : Pumps \cup {NoPump}, open : BOOLEAN]
    /\ card \in {"none", "old", "fresh"} /\ moved \in BOOLEAN
    /\ closings \in [0..MaxRuns -> Nat] /\ copies \in [0..MaxRuns -> Nat]
    /\ alive \in BOOLEAN /\ buf \in 0..MaxRuns /\ busy \in BOOLEAN
    /\ finished \in SUBSET Runs /\ ctx \in BOOLEAN
    /\ linked \in BOOLEAN
    /\ report \in [due : BOOLEAN, alive : BOOLEAN, busy : BOOLEAN]
    /\ up \in {"up", "stopping", "down"}
    /\ pc \in [Runs -> {"none", "gone"} \cup Active]
    /\ cause \in [Runs -> {"none", "user", "platform", "error"}]
    /\ writes \in [Runs -> SUBSET (Live \cup Final \cup {"session"})]
    /\ ended \in SUBSET Runs /\ told \in SUBSET Runs /\ sent \in SUBSET Runs
    /\ outcome \in [Runs -> {"none", "ok", "error"}]
    /\ pumps \in SUBSET Pumps /\ top \in Pumps \cup {NoPump}
    /\ held \in BOOLEAN
    /\ parked \in 0..MaxRuns
    /\ waiting \in Pumps \cup {NoPump} /\ closing \in SUBSET Pumps
    /\ rec \in [at : {"none", "start", "taking", "asking", "following",
                      "final", "stamp"},
                run : 0..MaxRuns, cut : Pumps \cup {NoPump},
                taken : BOOLEAN, short : BOOLEAN, of : 0..MaxRuns]
    /\ failing \in SUBSET Runs /\ reporting \in SUBSET Runs
    /\ mail \in [Runs -> Seq(Words)] /\ heard \in [Runs -> Seq(Words)]
    /\ restarts \in 0..MaxRestarts /\ faults \in 0..MaxFaults
    /\ orphans \in SUBSET Runs /\ raced \in SUBSET Runs
    /\ torn \in SUBSET Runs /\ lost \in SUBSET Runs

\* A lane whose chat exists and whose machine is connected; no run yet.
Init ==
    /\ row = [r \in Runs |-> "none"] /\ stamped = {}
    /\ record = NoRecord /\ card = "none" /\ moved = FALSE
    /\ closings = [r \in 0..MaxRuns |-> 0] /\ copies = [r \in 0..MaxRuns |-> 0]
    /\ alive = FALSE /\ buf = 0 /\ busy = FALSE /\ finished = {} /\ ctx = FALSE
    /\ linked = TRUE /\ report = NoReport
    /\ up = "up"
    /\ pc = [r \in Runs |-> "none"] /\ cause = [r \in Runs |-> "none"]
    /\ writes = [r \in Runs |-> {}] /\ ended = {} /\ told = {}
    /\ sent = {} /\ outcome = [r \in Runs |-> "none"]
    /\ pumps = {} /\ top = NoPump /\ held = FALSE
    /\ parked = 0 /\ waiting = NoPump /\ closing = {} /\ rec = NoRec
    /\ failing = {} /\ reporting = {}
    /\ mail = [r \in Runs |-> <<>>] /\ heard = [r \in Runs |-> <<>>]
    /\ restarts = 0 /\ faults = 0
    /\ orphans = {} /\ raced = {} /\ torn = {} /\ lost = {}

-----------------------------------------------------------------------------
(* Helpers *)

RunPump(r) == <<"run", r, restarts>>
RecPump == <<"rec", rec.run, restarts>>

At(r, p) == up # "down" /\ pc[r] = p
Go(r, p) == pc' = [pc EXCEPT ![r] = p]

\* The chat's registered pump is done, or there is none.
Quiet == top \notin pumps

\* The write the runner's await of this step stands for.
Awaited(r) ==
    CASE pc[r] = "admitting" -> {"running"}
      [] pc[r] = "opening" -> {"session"}
      [] pc[r] = "stamping" -> {IF outcome[r] = "ok" THEN "completed" ELSE "failed"}
      [] pc[r] = "ending" -> {IF cause[r] = "user" THEN "cancelled" ELSE "failed"}
      [] OTHER -> {}

Back(r) == Awaited(r) \cap writes[r] = {}

Hop(r, w) == writes' = [writes EXCEPT ![r] = @ \cup {w}]

\* Mutant: the cleanup after a delivered result delivers again.
OwedAlways(r) == TRUE

\* result_delivered is not set.
Owed(r) == r \notin told

\* Mutant: the cancel handler tells nobody.
TellsErrors(r) == cause[r] = "error"

\* The cancel's handler tells the delegator, but not while the platform ends.
Tells(r) == cause[r] = "error" \/ up = "up"

\* Mutant: whatever failed after the verdict is a failed run.
WordFailed(r) ==
    CASE cause[r] = "user" -> "interrupted"
      [] cause[r] = "platform" -> "cancelled"
      [] OTHER -> "failed"

\* What the handlers report: a failure after the verdict delivers the verdict.
Word(r) ==
    CASE cause[r] = "user" -> "interrupted"
      [] cause[r] = "platform" -> "cancelled"
      [] cause[r] = "error" /\ r \in ended ->
            IF outcome[r] = "ok" THEN "completed" ELSE "failed"
      [] OTHER -> "failed"

\* Mutant: a cut turn is closed whoever holds the chat.
HoldsAny(p) == TRUE

\* close_cut and take_record find the record of pump p's turn.
Holds(p) == record.pump = p /\ p # NoPump

\* _closing_row_in: no prompt since the boot, no card of this turn already.
MayCard == ~moved /\ card # "fresh"

\* The closing card of the turn of pump p.
WriteCard(p) ==
    IF MayCard
    THEN /\ closings' = [closings EXCEPT ![p[2]] = @ + 1]
         /\ card' = "fresh"
    ELSE UNCHANGED <<closings, card>>

\* start() of a pump that owns the chat: registered, its record opened.
StartPump(p) ==
    /\ pumps' = pumps \cup {p}
    /\ top' = p
    /\ record' = [pump |-> p, open |-> TRUE]

\* The end of a pump: its own record goes.
EndPump(p) ==
    /\ pumps' = pumps \ {p}
    /\ record' = IF record.pump = p THEN NoRecord ELSE record

\* Another run of the chat lives, or a newer one named the chat.
RanAgain(r) == \E s \in Runs \ {r} : row[s] \in Live \/ (s > r /\ s \in stamped)

Post(r, w) == mail' = [mail EXCEPT ![r] = Append(@, w)]

\* The task ends, its TaskRun with it.
Leave(r) ==
    /\ Go(r, "gone")
    /\ cause' = [cause EXCEPT ![r] = "none"]
    /\ ended' = ended \ {r} /\ told' = told \ {r}

\* The runner's except branch for an Exception.
Fail(r) ==
    /\ cause' = [cause EXCEPT ![r] = "error"]
    /\ IF r \in ended
       THEN Go(r, "shutting") /\ UNCHANGED writes
       ELSE Go(r, "ending") /\ Hop(r, "failed")

\* One of the faults the bound allows.
Fault == faults < MaxFaults /\ faults' = faults + 1

-----------------------------------------------------------------------------
(* The runner *)

\* _execute_task: the row, the task.  A continue takes the session the round
\* before it gave the chat, and may fire while that round still runs.
Fire(r) ==
    /\ up = "up" /\ row[r] = "none"
    /\ r > 1 => r - 1 \in stamped
    /\ row' = [row EXCEPT ![r] = "pending"]
    /\ Go(r, "queued")
    /\ UNCHANGED <<stamped, chatVars, satVars, linkVars, up, cause, writes, ended,
                   told, turnVars, recVars, mailVars, pastVars>>

\* The slot is given: admitted() writes the running stamp.
Admit(r) ==
    /\ At(r, "queued") /\ up = "up"
    /\ Go(r, "admitting") /\ Hop(r, "running")
    /\ UNCHANGED <<rowVars, chatVars, satVars, linkVars, up, cause, ended, told,
                   turnVars, recVars, mailVars, pastVars>>

\* A thread's update_run commits, whether or not anybody still waits for it.
Land(r, w) ==
    /\ up # "down" /\ w \in writes[r]
    /\ writes' = [writes EXCEPT ![r] = @ \ {w}]
    /\ IF w = "session"
       THEN stamped' = stamped \cup {r} /\ UNCHANGED row
       ELSE row' = [row EXCEPT ![r] = w] /\ UNCHANGED stamped
    /\ UNCHANGED <<chatVars, satVars, linkVars, up, pc, cause, ended, told, turnVars,
                   recVars, mailVars, pastVars>>

\* _settle_prior_lane waits out the lane, the round opens: the row gets the
\* chat and the session.
Gate(r) ==
    /\ At(r, "admitting") /\ Back(r) /\ Quiet
    /\ Go(r, "opening") /\ Hop(r, "session")
    /\ UNCHANGED <<rowVars, chatVars, satVars, linkVars, up, cause, ended, told,
                   turnVars, recVars, mailVars, pastVars>>

\* _continue_round's last look at the lane, then the prompt's row.
Prepare(r) ==
    /\ At(r, "opening") /\ Back(r) /\ Quiet /\ linked
    /\ Go(r, "spawning")
    /\ moved' = TRUE /\ card' = "none"
    /\ UNCHANGED <<rowVars, record, closings, copies, satVars, linkVars, up, cause,
                   writes, ended, told, turnVars, recVars, mailVars, pastVars>>

\* A warm session is ridden; else start_session, which ends the process the
\* machine still holds for the id (and keeps its buffer).  Then the pump.
Drive(r) ==
    /\ At(r, "spawning") /\ linked
    /\ IF held /\ alive /\ pumps = {}
       THEN UNCHANGED <<alive, busy, ctx, held>>
       ELSE alive' = TRUE /\ busy' = FALSE /\ ctx' = TRUE /\ held' = TRUE
    /\ Go(r, "turn")
    /\ StartPump(RunPump(r))
    /\ card' = IF card = "fresh" THEN "old" ELSE card
    /\ UNCHANGED <<rowVars, moved, closings, copies, buf, finished, linkVars, up,
                   cause, writes, ended, told, sent, outcome, recVars, mailVars,
                   pastVars>>

\* A step before the turn raises: the machine is away, the start fails.
StartFails(r) ==
    /\ \/ At(r, "admitting") /\ Back(r) /\ Fault
       \/ At(r, "spawning") /\ Fault
       \/ At(r, "opening") /\ Back(r) /\ ~linked /\ UNCHANGED faults
    /\ Fail(r)
    /\ UNCHANGED <<rowVars, chatVars, satVars, linkVars, up, ended, told, turnVars,
                   recVars, mailVars, restarts, orphans, raced, torn, lost>>

\* The prompt reaches the session: a fresh buffer.
Begin(r) ==
    /\ up = "up" /\ linked /\ alive
    /\ RunPump(r) \in pumps /\ r \notin sent
    /\ sent' = sent \cup {r}
    /\ buf' = r /\ busy' = TRUE
    /\ UNCHANGED <<rowVars, chatVars, alive, finished, ctx, linkVars, up, taskVars,
                   outcome, pumps, top, held, recVars, mailVars, pastVars>>

\* The run's pump reads the engine's result: the turn's rows are the chat's.
Result(r) ==
    /\ up = "up" /\ RunPump(r) \in pumps /\ outcome[r] = "none"
    /\ r \in sent \cap finished
    /\ outcome' = [outcome EXCEPT ![r] = "ok"]
    /\ copies' = [copies EXCEPT ![r] = @ + 1]
    /\ card' = "none"
    /\ record' = IF record.pump = RunPump(r) THEN [record EXCEPT !.open = FALSE]
                 ELSE record
    /\ UNCHANGED <<rowVars, moved, closings, satVars, linkVars, up, taskVars, sent,
                   pumps, top, held, recVars, mailVars, pastVars>>

\* ... or the typed ending of a turn whose process went away.
Broken(r) ==
    /\ up = "up" /\ RunPump(r) \in pumps /\ outcome[r] = "none"
    /\ r \notin finished
    /\ IF r \in sent THEN ~(buf = r /\ busy) ELSE ~alive
    /\ outcome' = [outcome EXCEPT ![r] = "error"]
    /\ card' = "none"
    /\ UNCHANGED <<rowVars, record, moved, closings, copies, satVars, linkVars, up,
                   taskVars, sent, pumps, top, held, recVars, mailVars, pastVars>>

PumpEnds(r) ==
    /\ up = "up" /\ RunPump(r) \in pumps /\ outcome[r] # "none"
    /\ EndPump(RunPump(r))
    /\ UNCHANGED <<rowVars, card, moved, closings, copies, satVars, linkVars, up,
                   taskVars, sent, outcome, top, held, recVars, mailVars, pastVars>>

\* _watch_task_pump reaps a turn whose process is gone.
Reaped(r) ==
    /\ At(r, "turn") /\ RunPump(r) \in pumps /\ outcome[r] = "none" /\ ~alive
    /\ outcome' = [outcome EXCEPT ![r] = "error"]
    /\ EndPump(RunPump(r))
    /\ Fail(r)
    /\ held' = FALSE
    /\ card' = "none"
    /\ UNCHANGED <<rowVars, moved, closings, copies, satVars, linkVars, up, ended,
                   told, sent, top, recVars, mailVars, pastVars>>

\* The pump came back: _read_verdict, then _stamp_end's write.
Judge(r) ==
    /\ At(r, "turn") /\ RunPump(r) \notin pumps
    /\ Go(r, "stamping")
    /\ Hop(r, IF outcome[r] = "ok" THEN "completed" ELSE "failed")
    /\ UNCHANGED <<rowVars, chatVars, satVars, linkVars, up, cause, ended, told,
                   turnVars, recVars, mailVars, pastVars>>

Stamped(r) ==
    /\ At(r, "stamping") /\ Back(r)
    /\ ended' = ended \cup {r}
    /\ Go(r, "delivering")
    /\ UNCHANGED <<rowVars, chatVars, satVars, linkVars, up, cause, writes, told,
                   turnVars, recVars, mailVars, pastVars>>

\* _deliver_task_result spawns the delivery, result_delivered is set.
Deliver(r) ==
    /\ At(r, "delivering")
    /\ Post(r, IF outcome[r] = "ok" THEN "completed" ELSE "failed")
    /\ told' = told \cup {r}
    /\ Go(r, "closing")
    /\ UNCHANGED <<rowVars, chatVars, satVars, linkVars, up, cause, writes, ended,
                   turnVars, recVars, heard, pastVars>>

\* A verdict's read or its write, the delivery or the cleanup raises.
EndFails(r) ==
    /\ \/ At(r, "turn") /\ RunPump(r) \notin pumps
       \/ At(r, "delivering") \/ At(r, "closing")
    /\ Fault /\ Fail(r)
    /\ UNCHANGED <<rowVars, chatVars, satVars, linkVars, up, ended, told, turnVars,
                   recVars, mailVars, restarts, orphans, raced, torn, lost>>

Close(r) ==
    /\ At(r, "closing")
    /\ Leave(r)
    /\ UNCHANGED <<rowVars, chatVars, satVars, linkVars, up, writes, turnVars, recVars, mailVars, pastVars>>

-----------------------------------------------------------------------------
(* Cancels and the handlers *)

\* task.cancel() on r: the await it stands in raises.  A write under way
\* lands later or, when its thread had not taken it, is dropped.
Dropped(r) == {{}, Awaited(r) \cap writes[r]}

Stop(r, who) ==
    /\ up = "up" /\ pc[r] \in Active
    /\ Fault
    /\ \E d \in Dropped(r) :
          LET left == writes[r] \ d IN
          IF pc[r] \in Body
          THEN /\ cause' = [cause EXCEPT ![r] = who]
               /\ IF r \in ended
                  THEN Go(r, "shutting") /\ writes' = [writes EXCEPT ![r] = left]
                  ELSE /\ Go(r, "ending")
                       /\ writes' = [writes EXCEPT ![r] = left \cup
                              {IF who = "user" THEN "cancelled" ELSE "failed"}]
          ELSE /\ Go(r, IF pc[r] = "frame" THEN "gone" ELSE "frame")
               /\ cause' = IF pc[r] = "queued" THEN [cause EXCEPT ![r] = who] ELSE cause
               /\ writes' = [writes EXCEPT ![r] = left]
    /\ raced' = IF Awaited(r) \cap writes[r] # {} \/ pc[r] \in {"stamping", "frame"}
                THEN raced \cup {r} ELSE raced
    /\ lost' = IF pc[r] \in {"queued", "frame"} \cup Handler /\ Owed(r)
               THEN lost \cup {r} ELSE lost
    /\ UNCHANGED <<rowVars, chatVars, satVars, linkVars, up, ended, told, turnVars,
                   recVars, mailVars, restarts, orphans, torn>>

\* close_session: the record and the context go, and the process with its
\* buffer when the machine is there.  A run that never bound its layer closes
\* nothing, and neither does a session the layer does not hold.
CloseSession ==
    /\ held' = FALSE
    /\ ctx' = FALSE
    /\ IF linked
       THEN alive' = FALSE /\ busy' = FALSE /\ buf' = 0
       ELSE UNCHANGED <<alive, busy, buf>>

Shut(r) ==
    /\ At(r, "shutting") \/ (At(r, "ending") /\ Back(r))
    /\ Go(r, "telling")
    /\ IF held /\ r \in stamped
       THEN CloseSession
       ELSE UNCHANGED <<held, ctx, alive, busy, buf>>
    /\ UNCHANGED <<rowVars, chatVars, finished, linkVars, up, cause, writes, ended,
                   told, sent, outcome, pumps, top, recVars, mailVars, pastVars>>

Tell(r) ==
    /\ At(r, "telling")
    /\ Leave(r)
    /\ IF Owed(r) /\ Tells(r) THEN Post(r, Word(r)) ELSE UNCHANGED mail
    /\ UNCHANGED <<rowVars, chatVars, satVars, linkVars, up, writes, turnVars, recVars, heard, pastVars>>

\* _end_unstamped: a row nobody stamped past pending.
Frame(r) ==
    /\ At(r, "frame")
    /\ Leave(r)
    /\ row' = IF row[r] = "pending"
              THEN [row EXCEPT ![r] = IF cause[r] = "user" THEN "cancelled" ELSE "failed"]
              ELSE row
    /\ UNCHANGED <<stamped, chatVars, satVars, linkVars, up, writes, turnVars, recVars,
                   mailVars, pastVars>>

\* _finalize_and_deliver: the lane quiet, the delegator told.
Hear(r) ==
    /\ up # "down" /\ mail[r] # <<>> /\ Quiet
    /\ heard' = [heard EXCEPT ![r] = Append(@, Head(mail[r]))]
    /\ mail' = [mail EXCEPT ![r] = Tail(@)]
    /\ UNCHANGED <<rowVars, chatVars, satVars, linkVars, up, taskVars, turnVars,
                   recVars, pastVars>>

-----------------------------------------------------------------------------
(* The machine *)

Finish ==
    /\ alive /\ busy
    /\ busy' = FALSE
    /\ finished' = finished \cup {buf}
    /\ UNCHANGED <<rowVars, chatVars, alive, buf, ctx, linkVars, up, taskVars,
                   turnVars, recVars, mailVars, pastVars>>

SatDies ==
    /\ alive /\ Fault
    /\ alive' = FALSE /\ busy' = FALSE
    /\ UNCHANGED <<rowVars, chatVars, buf, finished, ctx, linkVars, up, taskVars,
                   turnVars, recVars, mailVars, restarts, orphans, raced, torn, lost>>

-----------------------------------------------------------------------------
(* Restarts *)

\* The ended runs whose report goes with the process.
Unreported(rows) == {r \in Runs : rows[r] \in Final /\ heard[r] = <<>>}

\* The live runs whose turn has its closing card.
Carded(rows) == {r \in Runs : rows[r] \in Live /\ closings[r] > 0}

\* What the process knows goes with it.
Forget ==
    /\ pc' = [r \in Runs |-> IF pc[r] = "none" THEN "none" ELSE "gone"]
    /\ cause' = [r \in Runs |-> "none"]
    /\ writes' = [r \in Runs |-> {}] /\ ended' = {} /\ told' = {}
    /\ sent' = {} /\ outcome' = [r \in Runs |-> "none"]
    /\ pumps' = {} /\ top' = NoPump /\ held' = FALSE
    /\ parked' = 0 /\ waiting' = NoPump /\ closing' = {} /\ rec' = NoRec
    /\ failing' = {} /\ reporting' = {}
    /\ mail' = [r \in Runs |-> <<>>]
    /\ linked' = FALSE /\ report' = NoReport
    /\ up' = "down"

Crash ==
    /\ up # "down"
    /\ restarts < MaxRestarts /\ restarts' = restarts + 1
    /\ Forget
    /\ lost' = lost \cup Unreported(row)
    /\ torn' = torn \cup Carded(row)
    /\ UNCHANGED <<rowVars, chatVars, satVars, heard, faults, orphans, raced>>

\* scheduler.shutdown: every run's task is cancelled.  leave_for_recovery
\* re-raises out of the body of each (the lane's chat is a remote Claude one)
\* and the handlers' awaits raise: all end in the frame.  The sockets are
\* closed by then, and no pump of the chat writes or ends its turn any more.
Shutdown ==
    /\ up = "up" /\ restarts < MaxRestarts
    /\ up' = "stopping" /\ linked' = FALSE /\ report' = NoReport
    /\ pc' = [r \in Runs |-> IF pc[r] \in Active THEN "frame" ELSE pc[r]]
    /\ \E d \in [Runs -> BOOLEAN] :
          writes' = [r \in Runs |-> IF d[r] THEN writes[r] \ Awaited(r) ELSE writes[r]]
    /\ UNCHANGED <<rowVars, chatVars, satVars, cause, ended, told, turnVars, recVars,
                   mailVars, pastVars>>

\* _shutdown_cleanup: the rows recovery cannot take are failed, the process
\* ends.
Exit ==
    /\ up = "stopping"
    /\ restarts' = restarts + 1
    /\ row' = [r \in Runs |-> IF row[r] \in Live /\ r \notin stamped THEN "failed"
                              ELSE row[r]]
    /\ lost' = lost \cup Unreported(row')
    /\ torn' = torn \cup Carded(row')
    /\ Forget
    /\ UNCHANGED <<stamped, chatVars, satVars, heard, faults, orphans, raced>>

\* defer_orphaned_runs: a live row that names the chat and the session.
Eligible(r) == row[r] \in Live /\ r \in stamped

\* Mutant: the boot leaves the rows it cannot park.
BlindNever(r) == FALSE

\* mark_orphaned_runs_failed: every other live row.
Blind(r) == row[r] \in Live /\ ~Eligible(r)

\* The boot: _parked has one place per session, so of two rows of the lane the
\* last listed has it and neither is failed.  Then the open-turn record.
Boot ==
    /\ up = "down" /\ up' = "up"
    /\ LET mine == {r \in Runs : Eligible(r)} IN
          /\ parked' \in IF mine = {} THEN {0} ELSE mine
          /\ orphans' = orphans \cup (mine \ {parked'})
    /\ row' = [r \in Runs |-> IF Blind(r) THEN "failed" ELSE row[r]]
    /\ lost' = lost \cup {r \in Runs : Blind(r)}
    /\ waiting' = IF record.open THEN record.pump ELSE NoPump
    /\ record' = IF record.open THEN record ELSE NoRecord
    /\ moved' = FALSE
    /\ UNCHANGED <<stamped, card, closings, copies, satVars, linkVars, taskVars,
                   turnVars, closing, rec, failing, reporting, mailVars, restarts,
                   faults, raced, torn>>

-----------------------------------------------------------------------------
(* Recovery *)

\* The machine is back; its report is on its way.
Connect ==
    /\ up = "up" /\ ~linked
    /\ linked' = TRUE
    /\ report' = [due |-> TRUE, alive |-> alive, busy |-> alive /\ busy]
    /\ UNCHANGED <<rowVars, chatVars, satVars, up, taskVars, turnVars, recVars,
                   mailVars, pastVars>>

\* The layer holds the session, or a start owns it.
HeldOrSpawning == held \/ \E r \in Runs : pc[r] = "spawning"

\* on_sessions_alive.
Alive ==
    /\ up = "up" /\ report.due
    /\ report' = NoReport
    /\ parked' = 0
    /\ LET adopt == /\ report.alive /\ ctx
                    /\ \/ parked # 0
                       \/ (report.busy \/ waiting # NoPump) /\ ~HeldOrSpawning
           declined == report.alive /\ ~ctx /\ ~HeldOrSpawning
       IN /\ failing' = IF parked # 0 /\ ~adopt THEN failing \cup {parked} ELSE failing
          /\ IF adopt
             THEN /\ rec' = [NoRec EXCEPT !.at = "start", !.run = parked, !.cut = waiting]
                  /\ waiting' = NoPump
                  /\ UNCHANGED held
             ELSE /\ held' = (held \/ (report.alive /\ ctx))   \* adopt_idle_session
                  /\ UNCHANGED <<rec, waiting>>
          /\ IF declined
             THEN alive' = FALSE /\ busy' = FALSE /\ buf' = 0
             ELSE UNCHANGED <<alive, busy, buf>>
    /\ UNCHANGED <<rowVars, chatVars, finished, ctx, linked, up, taskVars, sent,
                   outcome, pumps, top, closing, reporting, mailVars, pastVars>>

\* _recover_session gives way to a live pump of the chat.
RecSkips ==
    /\ up = "up" /\ rec.at = "start" /\ ~Quiet
    /\ closing' = IF rec.cut = NoPump THEN closing ELSE closing \cup {rec.cut}
    /\ orphans' = IF rec.run = 0 THEN orphans ELSE orphans \cup {rec.run}
    /\ rec' = NoRec
    /\ UNCHANGED <<rowVars, chatVars, satVars, linkVars, up, taskVars, turnVars,
                   parked, waiting, failing, reporting, mailVars, restarts,
                   faults, raced, torn, lost>>

RecStarts ==
    /\ up = "up" /\ rec.at = "start" /\ Quiet
    /\ rec' = [rec EXCEPT !.at = "taking"]
    /\ UNCHANGED <<rowVars, chatVars, satVars, linkVars, up, taskVars, turnVars,
                   parked, waiting, closing, failing, reporting, mailVars, pastVars>>

\* _take_cut, then the replay's pump and the session's record.
RecTakes ==
    /\ up = "up" /\ rec.at = "taking"
    /\ rec' = [rec EXCEPT !.at = "asking", !.taken = Holds(rec.cut)]
    /\ StartPump(RecPump)
    /\ card' = IF card = "fresh" THEN "old" ELSE card
    /\ held' = TRUE
    /\ UNCHANGED <<rowVars, moved, closings, copies, satVars, linkVars, up, taskVars,
                   sent, outcome, parked, waiting, closing, failing, reporting,
                   mailVars, pastVars>>

\* resume_session_stream replays whatever turn the buffer holds.
RecBegins ==
    /\ up = "up" /\ rec.at = "asking" /\ linked
    /\ rec' = [rec EXCEPT !.at = "following", !.of = buf]
    /\ UNCHANGED <<rowVars, chatVars, satVars, linkVars, up, taskVars, turnVars,
                   parked, waiting, closing, failing, reporting, mailVars, pastVars>>

\* No answer within 30 seconds: the turn whose record was taken is closed.
RecUnanswered ==
    /\ up = "up" /\ rec.at = "asking" /\ Fault
    /\ rec' = [rec EXCEPT !.at = "following", !.of = 0, !.short = rec.taken]
    /\ IF rec.taken THEN WriteCard(rec.cut) ELSE UNCHANGED <<closings, card>>
    /\ UNCHANGED <<rowVars, record, moved, copies, satVars, linkVars, up, taskVars,
                   turnVars, parked, waiting, closing, failing, reporting, mailVars,
                   restarts, orphans, raced, torn, lost>>

\* The replay's pump ends: by the turn's result, by its process, or with
\* nothing replayed.
RecEnds ==
    /\ up = "up" /\ rec.at = "following"
    /\ rec.of \in finished \/ ~(busy /\ buf = rec.of)
    /\ rec' = [rec EXCEPT !.at = "final"]
    /\ copies' = IF rec.of \in finished THEN [copies EXCEPT ![rec.of] = @ + 1] ELSE copies
    /\ card' = IF rec.of = 0 THEN card ELSE "none"
    /\ EndPump(RecPump)
    /\ UNCHANGED <<rowVars, moved, closings, satVars, linkVars, up, taskVars, sent,
                   outcome, top, held, parked, waiting, closing, failing, reporting,
                   mailVars, pastVars>>

\* Mutant: the replay's pump ended, so the run did.
RecWordDone == "completed"

\* A replay that never began fails the run with the card's ending.
RecWord == IF rec.short THEN "failed" ELSE "completed"

\* _finalize_run: a row still live is stamped, whatever the replay brought.
RecFinal ==
    /\ up = "up" /\ rec.at = "final"
    /\ IF rec.run # 0 /\ row[rec.run] \in Live
       THEN rec' = [rec EXCEPT !.at = "stamp"] /\ Hop(rec.run, RecWord)
       ELSE rec' = NoRec /\ UNCHANGED writes
    /\ UNCHANGED <<rowVars, chatVars, satVars, linkVars, up, pc, cause, ended, told,
                   turnVars, parked, waiting, closing, failing, reporting, mailVars,
                   pastVars>>

RecReports ==
    /\ up = "up" /\ rec.at = "stamp" /\ RecWord \notin writes[rec.run]
    /\ Post(rec.run, RecWord)
    /\ rec' = NoRec
    /\ UNCHANGED <<rowVars, chatVars, satVars, linkVars, up, taskVars, turnVars,
                   parked, waiting, closing, failing, reporting, heard, pastVars>>

\* Mutant: nobody looks at the deadline.
LapsedNever == FALSE

\* The deadline of a parked run.
Lapsed == parked # 0

\* sweep_expired: the machine did not come back in time.
Sweep ==
    /\ up = "up" /\ ~linked /\ Lapsed
    /\ failing' = failing \cup {parked}
    /\ parked' = 0
    /\ UNCHANGED <<rowVars, chatVars, satVars, linkVars, up, taskVars, turnVars, rec,
                   waiting, closing, reporting, mailVars, pastVars>>

\* The cut turn nothing adopted, once the run of its session is failed and
\* reported: settle_machine behind the report, the sweep's second half.
Settle ==
    /\ up = "up" /\ ~report.due
    /\ parked = 0 /\ failing = {} /\ reporting = {}
    /\ waiting # NoPump
    /\ closing' = closing \cup {waiting}
    /\ waiting' = NoPump
    /\ UNCHANGED <<rowVars, chatVars, satVars, linkVars, up, taskVars, turnVars, rec,
                   parked, failing, reporting, mailVars, pastVars>>

\* cut_turns.close on the chat's lane.
CloseCut(p) ==
    /\ up = "up" /\ p \in closing
    /\ closing' = closing \ {p}
    /\ IF Holds(p)
       THEN record' = NoRecord /\ WriteCard(p)
       ELSE UNCHANGED <<record, closings, card>>
    /\ UNCHANGED <<rowVars, moved, copies, satVars, linkVars, up, taskVars, turnVars,
                   parked, waiting, rec, failing, reporting, mailVars, pastVars>>

\* _fail_and_report: a row still live is failed ...
FailRun(r) ==
    /\ up = "up" /\ r \in failing
    /\ failing' = failing \ {r}
    /\ IF row[r] \in Live
       THEN row' = [row EXCEPT ![r] = "failed"] /\ reporting' = reporting \cup {r}
       ELSE UNCHANGED <<row, reporting>>
    /\ UNCHANGED <<stamped, chatVars, satVars, linkVars, up, taskVars, turnVars,
                   parked, waiting, closing, rec, mailVars, pastVars>>

\* ... and reported, unless the lane ran again.
FailReports(r) ==
    /\ up = "up" /\ r \in reporting
    /\ reporting' = reporting \ {r}
    /\ IF RanAgain(r)
       THEN lost' = lost \cup {r} /\ UNCHANGED mail
       ELSE Post(r, "failed") /\ UNCHANGED lost
    /\ UNCHANGED <<rowVars, chatVars, satVars, linkVars, up, taskVars, turnVars,
                   parked, waiting, closing, rec, failing, heard, restarts,
                   faults, orphans, raced, torn>>

-----------------------------------------------------------------------------
RunnerStep(r) ==
    \/ Admit(r) \/ Gate(r) \/ Prepare(r) \/ Drive(r)
    \/ Begin(r) \/ Result(r) \/ Broken(r) \/ PumpEnds(r) \/ Reaped(r)
    \/ Judge(r) \/ Stamped(r) \/ Deliver(r) \/ Close(r)
    \/ Shut(r) \/ Tell(r) \/ Frame(r)

RecoverStep ==
    \/ RecSkips \/ RecStarts \/ RecTakes \/ RecBegins \/ RecEnds
    \/ RecFinal \/ RecReports \/ Settle
    \/ \E p \in Pumps : CloseCut(p)
    \/ \E r \in Runs : FailRun(r) \/ FailReports(r)

Next ==
    \/ \E r \in Runs : Fire(r) \/ RunnerStep(r) \/ StartFails(r) \/ EndFails(r) \/ Hear(r)
    \/ \E r \in Runs, w \in Live \cup Final \cup {"session"} : Land(r, w)
    \/ \E r \in Runs, who \in {"user", "platform"} : Stop(r, who)
    \/ Finish \/ SatDies
    \/ Crash \/ Shutdown \/ Exit \/ Boot
    \/ Connect \/ Alive \/ RecoverStep \/ RecUnanswered \/ Sweep

Spec == Init /\ [][Next]_vars

\* The loop runs its tasks, the threads their jobs; a turn ends; what stopped
\* ends, what ended is started again.  The machine may stay away, and nobody
\* has to start, stop or break anything.
FairStep ==
    \/ \E r \in Runs : RunnerStep(r) \/ (pc[r] = "opening" /\ StartFails(r)) \/ Hear(r)
    \/ \E r \in Runs, w \in Live \cup Final \cup {"session"} : Land(r, w)
    \/ Finish \/ Exit \/ Boot \/ Alive \/ RecoverStep \/ Sweep

\* One condition is enough: no step undoes another, so every one that stays
\* enabled is taken.
FairSpec == Spec /\ WF_vars(FairStep)

-----------------------------------------------------------------------------
(* Properties *)

Reports(r) == {heard[r][i] : i \in DOMAIN heard[r]} \cup {mail[r][i] : i \in DOMAIN mail[r]}

\* A run is reported at most once, whatever its runner, its handlers, the
\* recovery of a restart and the restarts do between them (task_run.py:
\* "Exactly-once result delivery per run").
HeardOnce == \A r \in Runs : Len(heard[r]) + Len(mail[r]) <= 1

\* A delegator that hears "failed" reads a failed row and one that hears
\* "completed" a completed one: a failure after the verdict is not told as a
\* failed run, which would be delegated again.
ReportMatchesRow ==
    \A r \in Runs : Reports(r) \cap {"completed", "failed"} \subseteq {row[r]}

\* The turn in progress has the chat's open-turn record, so the next boot
\* would know it: closing, sweeping or taking the turn a restart cut leaves
\* the record of a newer one alone (open_turns.py: "A newer turn's row
\* (another token) stays").
TurnIsRecorded == top \in pumps => record.pump = top

\* The chat and the run agree: a run whose turn got the card that says the
\* restart cut it short is not stamped completed, unless another restart comes
\* between the card and the row and the machine still has the turn.
CardMeansCut == \A r \in Runs \ torn : closings[r] > 0 => row[r] # "completed"

\* Nothing of the lane is under way or waited for in the proxy.
AtRest ==
    /\ up = "up"
    /\ pumps = {} /\ rec = NoRec
    /\ parked = 0 /\ waiting = NoPump
    /\ closing = {} /\ failing = {} /\ reporting = {}
    /\ \A r \in Runs : pc[r] \in {"none", "gone"} /\ writes[r] = {} /\ mail[r] = <<>>

\* A lane at rest has no live row: every run was stamped by its runner, a
\* handler, recovery or a boot, but for a run recovery let go of (two live
\* rows of one session, a live pump in its way) and one cancelled with the
\* write of its running stamp under way.
RestHasEnded ==
    AtRest => \A r \in Runs : row[r] \in Live => r \in orphans \cup raced

\* ... and no delegator still waiting for the report of an ended run, but
\* where the code sends none: a cancel while queued, a second cancel, an end
\* of the process before the report is out, a boot's blind failure, a lane
\* that ran again.
RestIsHeard ==
    AtRest => \A r \in Runs :
        row[r] \in Final => heard[r] # <<>> \/ r \in lost \cup orphans \cup raced

\* The lane comes to rest, again and again: no run, recovery, parked session
\* or report waits for ever, whatever is stopped, fails or is restarted and
\* even when the machine never comes back.
Rests == []<>AtRest

\* What the code's comments claim and the code does not keep.

\* A run stamped completed had its turn finished.
CompletedMeansDone == \A r \in Runs : row[r] = "completed" => r \in finished

\* The rows of a turn are written once.
RowsOnce == \A r \in Runs : copies[r] <= 1

\* The verdict is written once and never stamped over.
VerdictStands == [][\A r \in Runs : row[r] \in Final => row'[r] = row[r]]_vars

\* Every run's row becomes terminal.
EveryRunEnds == \A r \in Runs : (row[r] \in Live) ~> (row[r] \in Final)

=============================================================================
