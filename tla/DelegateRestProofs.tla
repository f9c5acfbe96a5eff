-------------------------- MODULE DelegateRestProofs --------------------------
(***************************************************************************)
(* Proofs about where the runs of a delegated lane end: what is left of    *)
(* them when the lane comes to rest, and what the closing cards of cut     *)
(* turns say of their rows.                                                *)
(***************************************************************************)
EXTENDS DelegateRunProofs

-----------------------------------------------------------------------------
(* A lane at rest *)

\* Every run is in somebody's hands until its row and its report are out, and
\* when the process ends, what was not reported is lost.
RestInv(r) ==
    /\ up = "up" =>
        /\ "running" \in writes[r] => pc[r] = "admitting" \/ r \in raced
        /\ row[r] \in Live /\ r \notin orphans \cup raced =>
               \/ pc[r] \in {"queued"} \cup Body
               \/ pc[r] = "ending" /\ Awaited(r) \cap writes[r] # {}
               \/ pc[r] = "frame" /\ row[r] = "pending"
               \/ Recovering(r)
        /\ pc[r] = "frame" => r \in lost \cup told
        /\ pc[r] = "gone" /\ r \notin lost \cup orphans \cup raced =>
               Reported(r) \/ Recovering(r)
    /\ up = "down" /\ row[r] \in Final => heard[r] # <<>> \/ r \in lost

\* What is lost, orphaned or raced stays so.
LEMMA PastGrows ==
    ASSUME TypeOK, [Next]_vars
    PROVE  raced \subseteq raced' /\ lost \subseteq lost' /\ orphans \subseteq orphans'
<1> USE DEF pastVars
<1>1. ASSUME NEW r \in Runs, Fire(r) \/ RunnerStep(r) \/ StartFails(r) \/ EndFails(r) \/ Hear(r)
      PROVE  UNCHANGED <<raced, lost, orphans>>
  <2>1. CASE Fire(r) \/ StartFails(r) \/ EndFails(r) \/ Hear(r)
    BY <2>1 DEF Fire, StartFails, EndFails, Hear
  <2>2. CASE Admit(r) \/ Gate(r) \/ Prepare(r) \/ Drive(r) \/ Begin(r)
    BY <2>2 DEF Admit, Gate, Prepare, Drive, Begin
  <2>3. CASE Result(r) \/ Broken(r) \/ PumpEnds(r) \/ Reaped(r) \/ Judge(r)
    BY <2>3 DEF Result, Broken, PumpEnds, Reaped, Judge
  <2>4. CASE Stamped(r) \/ Deliver(r) \/ Close(r) \/ Shut(r) \/ Tell(r) \/ Frame(r)
    BY <2>4 DEF Stamped, Deliver, Close, Shut, Tell, Frame
  <2> QED
    BY <1>1, <2>1, <2>2, <2>3, <2>4 DEF RunnerStep
<1>2. ASSUME NEW r \in Runs, NEW w, Land(r, w) PROVE UNCHANGED <<raced, lost, orphans>>
  BY <1>2 DEF Land
<1>3. ASSUME NEW r \in Runs, NEW who, Stop(r, who)
      PROVE  raced \subseteq raced' /\ lost \subseteq lost' /\ orphans' = orphans
  BY <1>3 DEF Stop
<1>4. CASE Finish \/ SatDies \/ UNCHANGED vars
  BY <1>4 DEF Finish, SatDies, vars
<1>5. CASE Crash \/ Shutdown \/ Exit \/ Boot
  BY <1>5 DEF Crash, Shutdown, Exit, Boot
<1>6. CASE Connect \/ Alive \/ RecUnanswered \/ Sweep
  BY <1>6 DEF Connect, Alive, RecUnanswered, Sweep
<1>7. CASE RecoverStep
  <2>1. CASE RecSkips \/ RecStarts \/ RecTakes \/ RecBegins \/ RecEnds
    BY <2>1 DEF RecSkips, RecStarts, RecTakes, RecBegins, RecEnds
  <2>2. CASE RecFinal \/ RecReports \/ Settle
    BY <2>2 DEF RecFinal, RecReports, Settle
  <2>3. CASE \E p \in Pumps : CloseCut(p)
    BY <2>3 DEF CloseCut
  <2>4. CASE \E r \in Runs : FailRun(r) \/ FailReports(r)
    BY <2>4 DEF FailRun, FailReports
  <2> QED
    BY <1>7, <2>1, <2>2, <2>3, <2>4 DEF RecoverStep
<1> QED
  BY <1>1, <1>2, <1>3, <1>4, <1>5, <1>6, <1>7 DEF Next

LEMMA RestKept ==
    ASSUME NEW r \in Runs, RestInv(r), Kept(r), UNCHANGED up,
           raced \subseteq raced', lost \subseteq lost', orphans \subseteq orphans'
    PROVE  RestInv(r)'
<1> USE DEF Kept, TaskKept, PlaceKept
<1>1. Awaited(r)' = Awaited(r) /\ Reported(r)' = Reported(r)
  BY DEF Awaited, Reported
<1>2. Recovering(r)' <=> Recovering(r)
  <2>1. Replayed(r)' <=> Replayed(r)
    BY DEF Replayed
  <2> QED
    BY <2>1 DEF Recovering
<1> QED
  BY <1>1, <1>2 DEF RestInv

\* A run that its runner still drives, or whose handler has its row to write.
LEMMA DrivenRest ==
    ASSUME TypeOK, LaneInv, NEW r \in Runs, RunInv(r), RestInv(r),
           \/ Fire(r) \/ Admit(r) \/ Gate(r) \/ Prepare(r) \/ Drive(r) \/ Judge(r)
           \/ Stamped(r) \/ Deliver(r) \/ StartFails(r) \/ EndFails(r) \/ Reaped(r)
    PROVE  RestInv(r)'
<1> USE DEF TypeOK, rowVars, pastVars, At, Go, Hop
<1>1. up # "down" /\ up' = up /\ UNCHANGED <<raced, lost, orphans>>
  <2>1. up # "down" /\ up' = up
    BY RunnerUp DEF RunnerStep
  <2>2. CASE Fire(r) \/ Admit(r) \/ Gate(r) \/ Prepare(r) \/ Drive(r) \/ Judge(r)
    BY <2>1, <2>2 DEF Fire, Admit, Gate, Prepare, Drive, Judge
  <2>3. CASE Stamped(r) \/ Deliver(r) \/ StartFails(r) \/ EndFails(r) \/ Reaped(r)
    BY <2>1, <2>3 DEF Stamped, Deliver, StartFails, EndFails, Reaped
  <2> QED
    BY <2>2, <2>3
<1>2. ASSUME pc'[r] \in {"queued"} \cup Body,
             "running" \in writes'[r] =>
                 pc'[r] = "admitting" \/ ("running" \in writes[r] /\ pc[r] # "admitting")
      PROVE  RestInv(r)'
  BY <1>1, <1>2 DEF RestInv, Body
<1>3. ASSUME pc'[r] = "ending", (Awaited(r) \cap writes[r])' # {},
             "running" \in writes'[r] => "running" \in writes[r] /\ pc[r] # "admitting"
      PROVE  RestInv(r)'
  BY <1>1, <1>3 DEF RestInv
<1>4. ASSUME pc'[r] = "shutting", r \in ended, row'[r] = row[r], writes'[r] = writes[r]
      PROVE  RestInv(r)'
  <2>1. row'[r] \notin Live /\ writes'[r] = {}
    BY <1>4 DEF RunInv, EndedInv, Verdict, Live
  <2> QED
    BY <1>1, <1>4, <2>1 DEF RestInv
<1>5. CASE Fire(r)
  BY <1>2, <1>5 DEF Fire, RunInv, TaskInv
<1>6. CASE Admit(r)
  BY <1>2, <1>6 DEF Admit, Body
<1>7. CASE Gate(r)
  BY <1>2, <1>7 DEF Gate, Body, Back, Awaited
<1>8. CASE Prepare(r)
  BY <1>2, <1>8 DEF Prepare, Body
<1>9. CASE Drive(r)
  BY <1>2, <1>9 DEF Drive, Body
<1>10. CASE Judge(r)
  BY <1>2, <1>10 DEF Judge, Body
<1>11. CASE Stamped(r) \/ Deliver(r)
  BY <1>2, <1>11 DEF Stamped, Deliver, Body
<1>12. CASE StartFails(r) \/ Reaped(r)
  <2>1. r \notin ended /\ writes[r] = {}
    BY <1>12 DEF StartFails, Reaped, RunInv, TaskInv, EndedInv, Back, Awaited, Body
  <2>2. pc'[r] = "ending" /\ cause'[r] = "error" /\ writes'[r] = {"failed"}
    BY <1>12, <2>1 DEF StartFails, Reaped, Fail
  <2>3. (Awaited(r) \cap writes[r])' # {}
    BY <2>2 DEF Awaited
  <2> QED
    BY <1>3, <2>2, <2>3
<1>13. CASE EndFails(r)
  <2>1. CASE r \in ended
    <3>1. pc'[r] = "shutting" /\ row'[r] = row[r] /\ writes'[r] = writes[r]
      BY <1>13, <2>1 DEF EndFails, Fail
    <3> QED
      BY <1>4, <2>1, <3>1
  <2>2. CASE r \notin ended
    <3>1. pc[r] = "turn" /\ writes[r] = {}
      BY <1>13, <2>2 DEF EndFails, RunInv, TaskInv, EndedInv, Awaited, Body
    <3>2. pc'[r] = "ending" /\ cause'[r] = "error" /\ writes'[r] = {"failed"}
      BY <1>13, <2>2, <3>1 DEF EndFails, Fail
    <3>3. (Awaited(r) \cap writes[r])' # {}
      BY <3>2 DEF Awaited
    <3> QED
      BY <1>3, <3>2, <3>3
  <2> QED
    BY <2>1, <2>2
<1> QED
  BY <1>5, <1>6, <1>7, <1>8, <1>9, <1>10, <1>11, <1>12, <1>13

\* A run that its pump, its handler, its frame or its report leaves.
LEMMA LeftRest ==
    ASSUME TypeOK, LaneInv, NEW r \in Runs, RunInv(r), RestInv(r),
           \/ Result(r) \/ Broken(r) \/ PumpEnds(r) \/ Close(r)
           \/ Shut(r) \/ Tell(r) \/ Frame(r) \/ Hear(r)
    PROVE  RestInv(r)'
<1> USE DEF TypeOK, rowVars, taskVars, recVars, mailVars, pastVars, At
<1>1. /\ up # "down" /\ up' = up
      /\ UNCHANGED <<stamped, parked, failing, reporting, rec, raced, lost, orphans, writes>>
  <2>1. up # "down" /\ up' = up
    BY RunnerUp DEF RunnerStep
  <2>2. CASE Result(r) \/ Broken(r) \/ PumpEnds(r) \/ Close(r)
    BY <2>1, <2>2 DEF Result, Broken, PumpEnds, Close
  <2>3. CASE Shut(r) \/ Tell(r) \/ Frame(r) \/ Hear(r)
    BY <2>1, <2>3 DEF Shut, Tell, Frame, Hear
  <2> QED
    BY <2>2, <2>3
<1>2. Recovering(r)' = Recovering(r)
  BY <1>1 DEF Recovering, Replayed
<1>3. CASE Result(r) \/ Broken(r) \/ PumpEnds(r)
  <2>1. UNCHANGED <<row, pc, cause, told, mail, heard>>
    BY <1>3 DEF Result, Broken, PumpEnds
  <2>2. Reported(r)' = Reported(r) /\ (pc[r] = "ending" => Awaited(r)' = Awaited(r))
    BY <2>1 DEF Reported, Awaited
  <2> QED
    BY <1>1, <1>2, <2>1, <2>2 DEF RestInv
<1>4. CASE Hear(r)
  <2>1. UNCHANGED <<row, pc, cause, told, outcome>> /\ Reported(r) /\ Reported(r)'
    BY <1>4 DEF Hear, turnVars, Reported
  <2>2. Awaited(r)' = Awaited(r)
    BY <2>1 DEF Awaited
  <2> QED
    BY <1>1, <1>2, <2>1, <2>2 DEF RestInv
<1>5. CASE Shut(r)
  <2>1. pc'[r] = "telling" /\ UNCHANGED <<row, told, mail, heard>>
    BY <1>5 DEF Shut, Go
  <2>2. pc[r] = "shutting" \/ (pc[r] = "ending" /\ Awaited(r) \cap writes[r] = {})
    BY <1>5 DEF Shut, Back
  <2>3. ~Recovering(r)
    BY <2>2 DEF RunInv, RecoverInv
  <2> QED
    BY <1>1, <2>1, <2>2, <2>3 DEF RestInv, Body
<1>6. CASE Close(r) \/ Frame(r) \/ Tell(r)
  <2>1. pc'[r] = "gone" /\ pc[r] \in {"closing", "frame", "telling"}
    BY <1>6 DEF Close, Frame, Tell, Leave, Go
  <2>2. ~Recovering(r)
    BY <2>1 DEF RunInv, RecoverInv
  <2>3. up = "up" /\ r \notin orphans \cup raced => row'[r] \notin Live
    <3>1. CASE Close(r)
      BY <2>1, <3>1 DEF Close, RunInv, EndedInv, Verdict, Live
    <3>2. CASE Tell(r)
      <4>1. pc[r] = "telling" /\ row' = row
        BY <3>2 DEF Tell
      <4> QED
        BY <2>2, <4>1 DEF RestInv, Body
    <3>3. CASE Frame(r)
      <4>1. pc[r] = "frame"
        BY <3>3 DEF Frame
      <4>2. CASE row[r] = "pending"
        BY <3>3, <4>2 DEF Frame, Live
      <4>3. CASE row[r] # "pending"
        BY <2>2, <3>3, <4>1, <4>3 DEF Frame, RestInv, Body
      <4> QED
        BY <4>2, <4>3
    <3> QED
      BY <1>6, <3>1, <3>2, <3>3
  <2>4. up = "up" /\ r \notin lost => Reported(r)'
    <3>1. CASE Close(r)
      BY <2>1, <3>1 DEF Close, RunInv, EndedInv, Reported
    <3>2. CASE Frame(r)
      BY <2>1, <3>2 DEF Frame, RunInv, EndedInv, RestInv, Reported
    <3>3. CASE Tell(r)
      <4>1. CASE r \in told
        BY <3>3, <4>1 DEF Tell, Owed, RunInv, EndedInv, Reported
      <4>2. CASE r \notin told
        <5>1. up = "up" => Post(r, Word(r)) /\ heard' = heard
          BY <3>3, <4>2 DEF Tell, Owed, Tells
        <5>2. ~Reported(r) /\ Word(r) \in Words
          BY <2>1, <4>2 DEF RunInv, ReportInv, Word, Words
        <5> QED
          BY <5>1, <5>2, PostFacts
      <4> QED
        BY <4>1, <4>2
    <3> QED
      BY <1>6, <3>1, <3>2, <3>3
  <2>5. "running" \in writes'[r] => "running" \in writes[r] /\ pc[r] # "admitting"
    BY <1>1, <2>1
  <2> QED
    BY <1>1, <2>1, <2>3, <2>4, <2>5 DEF RestInv
<1> QED
  BY <1>3, <1>4, <1>5, <1>6
\* A write that lands ends the row's life, but for the running stamp.
LEMMA LandRest ==
    ASSUME TypeOK, NEW r \in Runs, NEW w \in Live \cup Final \cup {"session"},
           RunInv(r), RestInv(r), Land(r, w)
    PROVE  RestInv(r)'
<1> USE DEF rowVars, taskVars, turnVars, recVars, mailVars, pastVars
<1>1. /\ w \in writes[r] /\ writes'[r] = writes[r] \ {w} /\ up # "down"
      /\ IF w = "session" THEN row'[r] = row[r] ELSE row'[r] = w
  BY DEF Land, TypeOK
<1>2. w \in {"running", "session"} \cup Final
  BY <1>1 DEF RunInv, TaskInv, Live
<1>3. UNCHANGED <<up, pc, cause, told, outcome, mail, heard, recVars, orphans, raced, lost>>
  BY DEF Land
<1>4. Awaited(r)' = Awaited(r) /\ Reported(r)' = Reported(r) /\ Recovering(r)' = Recovering(r)
  BY <1>3 DEF Awaited, Reported, Recovering, Replayed
<1>5. CASE w \in Final
  BY <1>1, <1>3, <1>4, <1>5 DEF RestInv, Live, Final
<1>6. CASE w = "running"
  BY <1>1, <1>3, <1>4, <1>6 DEF RestInv, Body
<1>7. CASE w = "session"
  <2>1. pc[r] = "ending" => w \notin Awaited(r)
    BY <1>7 DEF Awaited
  <2> QED
    BY <1>1, <1>3, <1>4, <1>7, <2>1 DEF RestInv
<1> QED
  BY <1>2, <1>5, <1>6, <1>7

\* A cancel leaves the row to a handler or the run to what the code loses.
LEMMA StopRest ==
    ASSUME TypeOK, NEW r \in Runs, NEW who \in {"user", "platform"}, RunInv(r), RestInv(r),
           Stop(r, who)
    PROVE  RestInv(r)'
<1> USE DEF rowVars, turnVars, recVars, mailVars
<1>1. UNCHANGED <<row, ended, told, outcome, recVars, mail, heard, orphans>>
  BY DEF Stop
<1>2. /\ up = "up" /\ up' = "up"
      /\ Awaited(r) \cap writes[r] # {} \/ pc[r] \in {"stamping", "frame"} => r \in raced'
      /\ raced \subseteq raced' /\ lost \subseteq lost'
      /\ pc[r] \in {"queued", "frame"} \cup Handler /\ r \notin told => r \in lost'
  BY DEF Stop, Owed
<1>3. ~Recovering(r) /\ ~Recovering(r)' /\ Reported(r)' = Reported(r) /\ pc[r] \in Active
  BY <1>1 DEF Stop, Active, Body, Handler, RunInv, RecoverInv, Recovering, Replayed, Reported
<1>4. PICK d \in Dropped(r) :
        IF pc[r] \in Body
        THEN /\ cause'[r] = who
             /\ IF r \in ended
                THEN pc'[r] = "shutting" /\ writes'[r] = writes[r] \ d
                ELSE /\ pc'[r] = "ending"
                     /\ writes'[r] = (writes[r] \ d) \cup
                          {IF who = "user" THEN "cancelled" ELSE "failed"}
        ELSE /\ pc'[r] = (IF pc[r] = "frame" THEN "gone" ELSE "frame")
             /\ writes'[r] = writes[r] \ d
  <2>1. PICK d \in Dropped(r) :
          IF pc[r] \in Body
          THEN /\ cause' = [cause EXCEPT ![r] = who]
               /\ IF r \in ended
                  THEN /\ pc' = [pc EXCEPT ![r] = "shutting"]
                       /\ writes' = [writes EXCEPT ![r] = writes[r] \ d]
                  ELSE /\ pc' = [pc EXCEPT ![r] = "ending"]
                       /\ writes' = [writes EXCEPT ![r] = (writes[r] \ d) \cup
                            {IF who = "user" THEN "cancelled" ELSE "failed"}]
          ELSE /\ pc' = [pc EXCEPT ![r] = IF pc[r] = "frame" THEN "gone" ELSE "frame"]
               /\ writes' = [writes EXCEPT ![r] = writes[r] \ d]
    BY DEF Stop, Go
  <2> QED
    BY <2>1 DEF TypeOK
<1>5. "running" \in writes[r] => r \in raced'
  BY <1>2 DEF RestInv, Awaited
<1>6. CASE pc[r] \in Body /\ r \in ended
  <2>1. pc'[r] = "shutting" /\ writes'[r] = {} /\ row'[r] \notin Live
    BY <1>1, <1>4, <1>6 DEF RunInv, EndedInv, Verdict, Live
  <2> QED
    BY <1>2, <2>1 DEF RestInv
<1>7. CASE pc[r] \in Body /\ r \notin ended
  <2>1. /\ pc'[r] = "ending" /\ Awaited(r)' \cap writes'[r] # {}
        /\ "running" \in writes'[r] => "running" \in writes[r]
    BY <1>4, <1>7 DEF Awaited
  <2> QED
    BY <1>2, <1>5, <2>1 DEF RestInv
<1>8. CASE pc[r] = "frame"
  <2>1. pc'[r] = "gone" /\ r \in raced' /\ writes'[r] \subseteq writes[r]
    BY <1>2, <1>4, <1>8 DEF Body
  <2> QED
    BY <1>2, <1>5, <2>1 DEF RestInv
<1>9. CASE pc[r] \in {"queued"} \cup Handler
  <2>1. pc'[r] = "frame" /\ writes'[r] \subseteq writes[r]
    BY <1>4, <1>9 DEF Body, Handler
  <2>2. row'[r] \in Live /\ r \notin orphans' \cup raced' => row'[r] = "pending"
    BY <1>1, <1>2, <1>3, <1>9 DEF RestInv, RunInv, TaskInv, Body, Handler
  <2> QED
    BY <1>1, <1>2, <1>5, <1>9, <2>1, <2>2 DEF RestInv
<1> QED
  BY <1>3, <1>6, <1>7, <1>8, <1>9 DEF Active

\* The processes that end and begin.
LEMMA RestartRest ==
    ASSUME TypeOK, LaneInv, NEW r \in Runs, RunInv(r), RestInv(r),
           Crash \/ Shutdown \/ Exit \/ Boot
    PROVE  RestInv(r)'
<1>1. CASE Crash \/ Exit
  <2>1. up' = "down" /\ heard' = heard
    BY <1>1 DEF Crash, Exit, Forget
  <2>2. row'[r] \in Final /\ heard[r] = <<>> => r \in lost'
    <3>1. CASE Crash
      BY <3>1 DEF Crash, Unreported, rowVars
    <3>2. CASE Exit
      <4>1. lost' = lost \cup Unreported(row')
        BY <3>2 DEF Exit
      <4> QED
        BY <4>1 DEF Unreported
    <3> QED
      BY <1>1, <3>1, <3>2
  <2> QED
    BY <2>1, <2>2 DEF RestInv
<1>2. CASE Shutdown
  BY <1>2 DEF Shutdown, RestInv
<1>3. CASE Boot
  <2>1. up = "down" /\ up' = "up" /\ pc[r] \in {"none", "gone"} /\ writes[r] = {}
    BY <1>3 DEF Boot, LaneInv, DownInv
  <2>2. UNCHANGED <<pc, writes, mail, heard, raced>> /\ row'[r] = IF Blind(r) THEN "failed" ELSE row[r]
    BY <1>3 DEF Boot, taskVars, mailVars
  <2>3. Eligible(r) => r \in orphans' \/ parked' = r
    BY <1>3 DEF Boot
  <2>4. Blind(r) => r \in lost'
    BY <1>3 DEF Boot
  <2>5. lost \subseteq lost'
    BY <1>3 DEF Boot
  <2>6. Eligible(r) => r \in orphans' \/ Recovering(r)'
    BY <2>3 DEF Recovering
  <2>7. row'[r] \in Live => Eligible(r)
    BY <2>2 DEF Blind, Live
  <2>8. pc[r] = "gone" /\ ~Eligible(r) /\ ~Blind(r) => row[r] \in Final
    BY DEF Eligible, Blind, RunInv, TaskInv, TypeOK
  <2>9. heard[r] # <<>> => Reported(r)'
    BY <2>2 DEF Reported
  <2>10. pc'[r] = "gone" /\ r \notin lost' \cup orphans' => Reported(r)' \/ Recovering(r)'
    BY <2>1, <2>2, <2>4, <2>5, <2>6, <2>8, <2>9 DEF RestInv
  <2> QED
    BY <2>1, <2>2, <2>6, <2>7, <2>10 DEF RestInv
<1> QED
  BY <1>1, <1>2, <1>3
\* Recovery hands a run on from place to place, or lets it go.
LEMMA PlaceRest ==
    ASSUME NEW r \in Runs, RestInv(r), TaskKept(r), UNCHANGED up,
           raced \subseteq raced', lost \subseteq lost', orphans \subseteq orphans',
           up = "up" /\ Recovering(r) => Recovering(r)' \/ r \in orphans'
    PROVE  RestInv(r)'
<1> USE DEF TaskKept
<1>1. Awaited(r)' = Awaited(r) /\ Reported(r)' = Reported(r)
  BY DEF Awaited, Reported
<1> QED
  BY <1>1 DEF RestInv

LEMMA LinkRest ==
    ASSUME TypeOK, LaneInv, NEW r \in Runs, RunInv(r), RestInv(r), [Next]_vars,
           Connect \/ Settle \/ Alive \/ Sweep
    PROVE  RestInv(r)'
<1> USE DEF rowVars, taskVars, turnVars, recVars, mailVars, pastVars
<1>1. TaskKept(r) /\ UNCHANGED up
  <2>1. CASE Connect \/ Settle \/ Sweep
    BY <2>1 DEF Connect, Settle, Sweep, TaskKept, RunPump
  <2>2. CASE Alive
    BY <2>2 DEF Alive, TaskKept, RunPump
  <2> QED
    BY <2>1, <2>2
<1>2. Recovering(r) => Recovering(r)'
  <2>1. CASE Connect \/ Settle
    BY <2>1 DEF Connect, Settle, Recovering, Replayed
  <2>2. CASE Sweep
    BY <2>2 DEF Sweep, Recovering, Replayed
  <2>3. CASE Alive
    <3>1. rec = NoRec /\ NoRec.at = "none"
      BY <2>3 DEF Alive, LaneInv, LinkInv, NoRec
    <3>2. /\ reporting' = reporting /\ failing \subseteq failing'
          /\ \/ failing' = (IF parked # 0 THEN failing \cup {parked} ELSE failing)
             \/ rec' = [NoRec EXCEPT !.at = "start", !.run = parked, !.cut = waiting]
      BY <2>3 DEF Alive
    <3>3. [NoRec EXCEPT !.at = "start", !.run = parked, !.cut = waiting].at = "start"
      BY DEF NoRec
    <3>4. [NoRec EXCEPT !.at = "start", !.run = parked, !.cut = waiting].run = parked
      BY DEF NoRec
    <3>5. \/ failing' = (IF parked # 0 THEN failing \cup {parked} ELSE failing)
          \/ rec'.at = "start" /\ rec'.run = parked
      BY <3>2, <3>3, <3>4
    <3>6. ~Replayed(r)
      BY <3>1 DEF Replayed
    <3>7. parked = r => r \in failing' \/ Replayed(r)'
      BY <3>5 DEF Replayed, Runs
    <3> QED
      BY <3>2, <3>6, <3>7 DEF Recovering
  <2> QED
    BY <2>1, <2>2, <2>3
<1> QED
  BY <1>1, <1>2, PastGrows, PlaceRest

LEMMA ReplayRest ==
    ASSUME TypeOK, LaneInv, NEW r \in Runs, RunInv(r), RestInv(r), [Next]_vars,
           \/ RecSkips \/ RecStarts \/ RecTakes \/ RecBegins \/ RecUnanswered \/ RecEnds
           \/ RecFinal \/ RecReports \/ (\E p \in Pumps : CloseCut(p))
    PROVE  RestInv(r)'
<1> USE DEF rowVars, taskVars, turnVars, mailVars, pastVars
<1>1. CASE RecSkips
  <2>1. TaskKept(r) /\ UNCHANGED <<up, parked, failing, reporting>>
    BY <1>1 DEF RecSkips, TaskKept, RunPump
  <2>2. Replayed(r) => r \in orphans'
    BY <1>1 DEF RecSkips, Replayed, Runs
  <2> QED
    BY <2>1, <2>2, PastGrows, PlaceRest DEF Recovering
<1>2. CASE RecStarts \/ RecTakes \/ RecBegins \/ RecUnanswered \/ RecEnds
  <2>1. (RunPump(r) \in pumps)' <=> RunPump(r) \in pumps
    <3>1. CASE RecStarts \/ RecBegins \/ RecUnanswered
      BY <3>1 DEF RecStarts, RecBegins, RecUnanswered, RunPump
    <3>2. CASE RecTakes \/ RecEnds
      BY <3>2 DEF RecTakes, RecEnds, StartPump, EndPump, RunPump, RecPump
    <3> QED
      BY <1>2, <3>1, <3>2
  <2>2. TaskKept(r) /\ UNCHANGED <<up, parked, failing, reporting>>
    <3>1. CASE RecStarts \/ RecBegins \/ RecUnanswered
      BY <2>1, <3>1 DEF RecStarts, RecBegins, RecUnanswered, TaskKept
    <3>2. CASE RecTakes \/ RecEnds
      BY <2>1, <3>2 DEF RecTakes, RecEnds, TaskKept
    <3> QED
      BY <1>2, <3>1, <3>2
  <2>3. rec'.at # "none" /\ rec'.run = rec.run
    <3>1. CASE RecStarts \/ RecTakes \/ RecBegins
      BY <3>1 DEF RecStarts, RecTakes, RecBegins, TypeOK
    <3>2. CASE RecUnanswered \/ RecEnds
      BY <3>2 DEF RecUnanswered, RecEnds, TypeOK
    <3> QED
      BY <1>2, <3>1, <3>2
  <2> QED
    BY <2>2, <2>3, PastGrows, PlaceRest DEF Recovering, Replayed
<1>3. CASE \E p \in Pumps : CloseCut(p)
  <2>1. TaskKept(r) /\ UNCHANGED <<up, parked, failing, reporting, rec>>
    BY <1>3 DEF CloseCut, TaskKept, RunPump
  <2> QED
    BY <2>1, PastGrows, PlaceRest DEF Recovering, Replayed
<1>4. CASE RecFinal
  <2>1. UNCHANGED <<up, row, stamped, pc, cause, ended, told, outcome, pumps, parked, failing,
                    reporting, mail, heard, restarts>>
    BY <1>4 DEF RecFinal
  <2>2. CASE ~Replayed(r)
    <3>1. writes'[r] = writes[r]
      BY <1>4, <2>2 DEF RecFinal, Replayed, Hop, TypeOK
    <3> QED
      BY <2>1, <2>2, <3>1, PastGrows, PlaceRest DEF TaskKept, RunPump, Recovering
  <2>3. CASE Replayed(r)
    <3>1. rec.at = "final" /\ rec.run = r /\ r # 0
      BY <1>4, <2>3 DEF RecFinal, Replayed, Runs
    <3>2. pc[r] = "gone" /\ row[r] \in Live /\ writes[r] = {}
      BY <2>3, <3>1 DEF RunInv, RecoverInv, Recovering
    <3>3. rec' = [rec EXCEPT !.at = "stamp"] /\ writes' = [writes EXCEPT ![r] = @ \cup {RecWord}]
      BY <1>4, <3>1, <3>2 DEF RecFinal, Hop
    <3>4. rec'.at = "stamp" /\ rec'.run = r /\ writes'[r] = {RecWord}
      BY <3>1, <3>2, <3>3 DEF TypeOK
    <3>5. Recovering(r)' /\ RecWord # "running" /\ up = "up"
      BY <1>4, <3>4 DEF RecFinal, Recovering, Replayed, RecWord
    <3> QED
      BY <2>1, <3>2, <3>4, <3>5 DEF RestInv
  <2> QED
    BY <2>2, <2>3
<1>5. CASE RecReports
  <2>1. /\ rec.at = "stamp" /\ rec.run # 0 /\ RecWord \notin writes[rec.run] /\ up = "up"
        /\ UNCHANGED <<up, row, stamped, pc, cause, writes, ended, told, outcome, pumps, parked,
                       failing, reporting, heard, restarts>>
    BY <1>5 DEF RecReports, LaneInv, LinkInv
  <2>2. Post(rec.run, RecWord)
    BY <1>5 DEF RecReports
  <2>3. CASE rec.run # r
    <3>1. mail'[r] = mail[r]
      BY <2>2, <2>3 DEF Post, TypeOK
    <3> QED
      BY <2>1, <2>3, <3>1, PastGrows, PlaceRest DEF TaskKept, RunPump, Recovering, Replayed
  <2>4. CASE rec.run = r
    <3>1. pc[r] = "gone" /\ ~Reported(r) /\ row[r] = RecWord /\ writes[r] = {}
      BY <2>1, <2>4 DEF RunInv, RecoverInv, Recovering, Replayed
    <3>2. RecWord \in {"completed", "failed"}
      BY DEF RecWord
    <3>3. Reported(r)'
      BY <2>1, <2>2, <2>4, <3>1, <3>2, PostFacts DEF Words
    <3> QED
      BY <2>1, <3>1, <3>2, <3>3 DEF RestInv, Live
  <2> QED
    BY <2>3, <2>4
<1> QED
  BY <1>1, <1>2, <1>3, <1>4, <1>5

LEMMA FailRest ==
    ASSUME TypeOK, NEW q \in Runs, NEW r \in Runs, RunInv(r), RestInv(r), [Next]_vars,
           FailRun(q) \/ FailReports(q)
    PROVE  RestInv(r)'
<1> USE DEF rowVars, taskVars, turnVars, mailVars
<1>1. CASE q # r
  <2>1. row'[r] = row[r] /\ mail'[r] = mail[r]
    BY <1>1 DEF FailRun, FailReports, Post, TypeOK
  <2>2. TaskKept(r) /\ UNCHANGED up
    <3>1. CASE FailRun(q)
      BY <2>1, <3>1 DEF FailRun, TaskKept, pastVars, RunPump
    <3>2. CASE FailReports(q)
      BY <2>1, <3>2 DEF FailReports, TaskKept, RunPump
    <3> QED
      BY <3>1, <3>2
  <2>3. Recovering(r) => Recovering(r)'
    BY <1>1 DEF FailRun, FailReports, Recovering, Replayed
  <2> QED
    BY <2>2, <2>3, PastGrows, PlaceRest
<1>2. CASE q = r /\ FailRun(q)
  <2>1. pc[r] = "gone" /\ row[r] \in Live /\ writes[r] = {} /\ up = "up" /\ up' = up
    BY <1>2 DEF FailRun, RunInv, RecoverInv, Recovering
  <2>2. row'[r] = "failed" /\ r \in reporting' /\ UNCHANGED <<pc, writes>>
    BY <1>2, <2>1 DEF FailRun, TypeOK
  <2> QED
    BY <2>1, <2>2 DEF RestInv, Recovering, Live
<1>3. CASE q = r /\ FailReports(q)
  <2>1. pc[r] = "gone" /\ ~Reported(r) /\ row[r] = "failed" /\ writes[r] = {} /\ up = "up" /\ up' = up
    BY <1>3 DEF FailReports, RunInv, RecoverInv, Recovering
  <2>2. UNCHANGED <<row, pc, writes, heard>>
    BY <1>3 DEF FailReports
  <2>3. r \in lost' \/ Post(r, "failed")
    BY <1>3 DEF FailReports
  <2>4. r \in lost' \/ Reported(r)'
    BY <2>1, <2>2, <2>3, PostFacts DEF Words
  <2> QED
    BY <2>1, <2>2, <2>4 DEF RestInv, Live
<1> QED
  BY <1>1, <1>2, <1>3
LEMMA RestStep ==
    ASSUME TypeOK, LaneInv, RunsInv, NEW r \in Runs, RestInv(r), [Next]_vars
    PROVE  RestInv(r)'
<1>1. RunInv(r)
  BY DEF RunsInv
<1>2. ASSUME Kept(r), UNCHANGED up PROVE RestInv(r)'
  BY <1>2, PastGrows, RestKept
<1>3. ASSUME NEW q \in Runs,
             Fire(q) \/ RunnerStep(q) \/ StartFails(q) \/ EndFails(q) \/ Hear(q)
      PROVE  RestInv(r)'
  <2>1. CASE q # r
    BY <1>2, <1>3, <2>1, OthersKept, RunnerUp
  <2>2. CASE q = r
    <3>1. CASE Begin(r)
      <4>1. Kept(r) /\ UNCHANGED up
        BY <3>1 DEF Begin, Kept, TaskKept, PlaceKept, RunPump, rowVars, taskVars, recVars,
                    mailVars, pastVars
      <4> QED
        BY <1>2, <4>1
    <3>2. CASE \/ Fire(r) \/ Admit(r) \/ Gate(r) \/ Prepare(r) \/ Drive(r) \/ Judge(r)
               \/ Stamped(r) \/ Deliver(r) \/ StartFails(r) \/ EndFails(r) \/ Reaped(r)
      BY <1>1, <3>2, DrivenRest
    <3>3. CASE \/ Result(r) \/ Broken(r) \/ PumpEnds(r) \/ Close(r)
               \/ Shut(r) \/ Tell(r) \/ Frame(r) \/ Hear(r)
      BY <1>1, <3>3, LeftRest
    <3> QED
      BY <1>3, <2>2, <3>1, <3>2, <3>3 DEF RunnerStep
  <2> QED
    BY <2>1, <2>2
<1>4. ASSUME NEW q \in Runs, NEW w \in Live \cup Final \cup {"session"}, Land(q, w)
      PROVE  RestInv(r)'
  <2>1. CASE q # r
    BY <1>2, <1>4, <2>1, OthersKept, RunnerUp
  <2>2. CASE q = r
    BY <1>1, <1>4, <2>2, LandRest
  <2> QED
    BY <2>1, <2>2
<1>5. ASSUME NEW q \in Runs, NEW who \in {"user", "platform"}, Stop(q, who)
      PROVE  RestInv(r)'
  <2>1. CASE q # r
    BY <1>2, <1>5, <2>1, OthersKept, RunnerUp
  <2>2. CASE q = r
    BY <1>1, <1>5, <2>2, StopRest
  <2> QED
    BY <2>1, <2>2
<1>6. CASE Finish \/ SatDies \/ UNCHANGED vars
  <2>1. Kept(r) /\ UNCHANGED up
    BY <1>6 DEF Finish, SatDies, vars, Kept, TaskKept, PlaceKept, RunPump, rowVars, taskVars,
                turnVars, recVars, mailVars, pastVars
  <2> QED
    BY <1>2, <2>1
<1>7. CASE Crash \/ Shutdown \/ Exit \/ Boot
  BY <1>1, <1>7, RestartRest
<1>8. CASE Connect \/ Alive \/ Sweep
  BY <1>1, <1>8, LinkRest
<1>9. CASE RecoverStep \/ RecUnanswered
  <2>1. CASE Settle
    BY <1>1, <2>1, LinkRest
  <2>2. CASE \E q \in Runs : FailRun(q) \/ FailReports(q)
    BY <1>1, <2>2, FailRest
  <2>3. CASE \/ RecSkips \/ RecStarts \/ RecTakes \/ RecBegins \/ RecUnanswered \/ RecEnds
             \/ RecFinal \/ RecReports \/ (\E p \in Pumps : CloseCut(p))
    BY <1>1, <2>3, ReplayRest
  <2> QED
    BY <1>9, <2>1, <2>2, <2>3 DEF RecoverStep
<1> QED
  BY <1>3, <1>4, <1>5, <1>6, <1>7, <1>8, <1>9 DEF Next

LEMMA RestInvariance == Spec => [](\A r \in Runs : RestInv(r))
<1>1. Init => \A r \in Runs : RestInv(r)
  BY DEF Init, RestInv, Live, Final
<1>2. /\ \A r \in Runs : RestInv(r)
      /\ TypeOK /\ LaneInv
      /\ RunsInv
      /\ [Next]_vars
      => (\A r \in Runs : RestInv(r))'
  BY RestStep
<1> QED
  BY <1>1, <1>2, LaneInvariance, RunsInvariance, PTL DEF Spec

\* At rest recovery has no run in hand and every run's task has left it.
LEMMA AtRestFacts ==
    ASSUME AtRest, NEW r \in Runs
    PROVE  up = "up" /\ ~Recovering(r) /\ pc[r] \in {"none", "gone"} /\ mail[r] = <<>>
BY DEF AtRest, Recovering, Replayed, NoRec, Runs

\* A lane at rest has no live row: every run was stamped by its runner, its
\* handler, recovery or the boot, but for those recovery let go of and those
\* cancelled with the write of their running stamp under way.
THEOREM NoRunLeftLive == Spec => []RestHasEnded
<1>1. (\A r \in Runs : RestInv(r)) => RestHasEnded
  <2> SUFFICES ASSUME NEW r \in Runs, RestInv(r), AtRest, row[r] \in Live
               PROVE  r \in orphans \cup raced
    BY DEF RestHasEnded
  <2> QED
    BY AtRestFacts DEF RestInv, Body
<1> QED
  BY <1>1, RestInvariance, PTL

\* At rest the delegator of every ended run has its report, but where the code
\* sends none.
THEOREM NoReportLeftUnheard == Spec => []RestIsHeard
<1>1. RunsInv /\ (\A r \in Runs : RestInv(r)) => RestIsHeard
  <2> SUFFICES ASSUME NEW r \in Runs, RunInv(r), RestInv(r), AtRest, row[r] \in Final
               PROVE  heard[r] # <<>> \/ r \in lost \cup orphans \cup raced
    BY DEF RestIsHeard, RunsInv
  <2>1. pc[r] = "gone"
    BY AtRestFacts DEF RunInv, TaskInv, Final
  <2> QED
    BY <2>1, AtRestFacts DEF RestInv, Reported
<1> QED
  BY <1>1, RestInvariance, RunsInvariance, PTL
-----------------------------------------------------------------------------
(* The closing cards *)

\* The run did not complete, and nobody will stamp it so but recovery.
NotDone(r) == pc[r] = "gone" /\ row[r] # "completed" /\ "completed" \notin writes[r]

\* Until its verdict a run's row is live, and until its turn it has no outcome.
StartInv(r) ==
    /\ pc[r] \in {"queued", "admitting", "opening", "spawning", "turn"} => row[r] \in Live
    /\ pc[r] \in Early => outcome[r] = "none"

\* A cut turn is one of a run that did not complete.
CutInv(r) == \A p \in Cuts : p[2] = r => NotDone(r)

\* The record of an open turn speaks of a run that has not completed.
OpenInv(r) ==
    record.open /\ record.pump[2] = r =>
        /\ row[r] # "completed" /\ "completed" \notin writes[r]
        /\ \/ pc[r] = "gone"
           \/ pc[r] \notin Early /\ outcome[r] # "ok" /\ record.pump = RunPump(r)

\* A run with a closing card did not complete, and nothing will say it did.
CardInv(r) ==
    closings[r] > 0 /\ r \notin torn =>
        /\ NotDone(r)
        /\ parked # r
        /\ Replayed(r) => rec.short /\ rec.at \in {"following", "final", "stamp"}
        /\ up = "down" => row[r] \notin Live

\* The chat's record while a replay has the chat.
RecordInv ==
    /\ rec.at \in {"asking", "following"} /\ rec.run # 0 =>
           record.pump = RecPump \/ record.pump[2] # rec.run
    /\ rec.at \in {"final", "stamp"} /\ rec.run # 0 => record.pump[2] # rec.run

CardsInv ==
    RecordInv /\ \A r \in Runs : StartInv(r) /\ CutInv(r) /\ OpenInv(r) /\ CardInv(r)

\* A step that leaves what a run's row says and where its task stands.
Still(r) ==
    row'[r] = row[r] /\ pc'[r] = pc[r] /\ writes'[r] = writes[r] /\ outcome'[r] = outcome[r]

\* The steps of one run's runner.
Own(r) ==
    \/ Fire(r) \/ RunnerStep(r) \/ StartFails(r) \/ EndFails(r) \/ Hear(r)
    \/ (\E w \in Live \cup Final \cup {"session"} : Land(r, w))
    \/ (\E who \in {"user", "platform"} : Stop(r, who))

LEMMA Movers ==
    ASSUME TypeOK, NEW r \in Runs, [Next]_vars
    PROVE  \/ Still(r) \/ Own(r) \/ Crash \/ Shutdown \/ Exit \/ Boot
           \/ (RecFinal /\ rec.run = r) \/ FailRun(r)
<1> USE DEF rowVars, taskVars, turnVars, mailVars, pastVars
<1>1. ASSUME NEW q \in Runs, Own(q) PROVE Still(r) \/ Own(r)
  BY <1>1, OthersKept DEF Own, Kept, TaskKept, Still
<1>2. CASE Finish \/ SatDies \/ UNCHANGED vars
  BY <1>2 DEF Finish, SatDies, vars, Still
<1>3. CASE Connect \/ Alive \/ Sweep \/ RecUnanswered
  BY <1>3 DEF Connect, Alive, Sweep, RecUnanswered, Still
<1>4. CASE RecSkips \/ RecStarts \/ RecTakes \/ RecBegins \/ RecEnds \/ RecReports \/ Settle
  BY <1>4 DEF RecSkips, RecStarts, RecTakes, RecBegins, RecEnds, RecReports, Settle, Still
<1>5. CASE RecFinal
  <2>1. CASE rec.run = r
    BY <1>5, <2>1
  <2>2. CASE rec.run # r
    BY <1>5, <2>2 DEF RecFinal, Still, Hop, TypeOK
  <2> QED
    BY <2>1, <2>2
<1>6. CASE \E p \in Pumps : CloseCut(p)
  BY <1>6 DEF CloseCut, Still
<1>7. ASSUME NEW q \in Runs, FailRun(q) \/ FailReports(q) PROVE Still(r) \/ FailRun(r)
  <2>1. CASE FailReports(q)
    BY <2>1 DEF FailReports, Still
  <2>2. CASE FailRun(q) /\ q # r
    BY <2>2 DEF FailRun, Still, TypeOK
  <2> QED
    BY <1>7, <2>1, <2>2
<1> QED
  BY <1>1, <1>2, <1>3, <1>4, <1>5, <1>6, <1>7 DEF Next, RecoverStep, Own

\* What a run's own step does to its row, by where its task stands.
LEMMA OwnSteps ==
    ASSUME TypeOK, NEW r \in Runs, RunInv(r), StartInv(r), Own(r)
    PROVE  /\ pc[r] = "gone" => pc'[r] = "gone"
           /\ "completed" \in writes'[r] =>
                  "completed" \in writes[r] \/ (pc[r] = "turn" /\ outcome[r] = "ok")
           /\ row'[r] = "completed" => row[r] = "completed" \/ "completed" \in writes[r]
           /\ pc'[r] \in Early => pc[r] \in Early
           /\ StartInv(r)'
<1> USE DEF TypeOK, At, Go, Hop, rowVars, taskVars, turnVars, mailVars
<1>1. CASE Fire(r)
  <2>1. pc[r] = "none" /\ pc'[r] = "queued" /\ row'[r] = "pending" /\ UNCHANGED <<writes, outcome>>
    BY <1>1 DEF Fire, RunInv, TaskInv
  <2> QED
    BY <2>1 DEF StartInv, Live, Early
<1>2. CASE Admit(r) \/ Gate(r)
  <2>1. CASE Admit(r)
    BY <2>1 DEF Admit, StartInv, Early
  <2>2. CASE Gate(r)
    BY <2>2 DEF Gate, StartInv, Early
  <2> QED
    BY <1>2, <2>1, <2>2
<1>3. CASE Prepare(r) \/ Drive(r)
  BY <1>3 DEF Prepare, Drive, StartInv, Early
<1>4. CASE Begin(r) \/ Hear(r)
  BY <1>4 DEF Begin, Hear, StartInv
<1>5. CASE Result(r) \/ Broken(r) \/ PumpEnds(r)
  <2>1. pc[r] \notin Early
    BY <1>5 DEF Result, Broken, PumpEnds, RunInv, TaskInv
  <2>2. UNCHANGED <<row, pc, writes>>
    BY <1>5 DEF Result, Broken, PumpEnds
  <2> QED
    BY <2>1, <2>2 DEF StartInv
<1>6. CASE StartFails(r) \/ EndFails(r) \/ Reaped(r)
  <2>1. Fail(r) /\ row' = row /\ pc[r] # "gone"
    BY <1>6 DEF StartFails, EndFails, Reaped
  <2>2. pc'[r] \in {"ending", "shutting"} /\ writes'[r] \subseteq writes[r] \cup {"failed"}
    BY <2>1 DEF Fail
  <2> QED
    BY <2>1, <2>2 DEF StartInv, Early
<1>7. CASE Judge(r)
  BY <1>7 DEF Judge, StartInv, Early
<1>8. CASE Stamped(r) \/ Deliver(r)
  BY <1>8 DEF Stamped, Deliver, StartInv, Early
<1>9. CASE Close(r) \/ Tell(r)
  BY <1>9 DEF Close, Tell, Leave, StartInv, Early
<1>10. CASE Shut(r)
  BY <1>10 DEF Shut, StartInv, Early
<1>11. CASE Frame(r)
  BY <1>11 DEF Frame, Leave, StartInv, Early
<1>12. ASSUME NEW w \in Live \cup Final \cup {"session"}, Land(r, w)
       PROVE  /\ UNCHANGED <<pc, outcome>>
              /\ writes'[r] \subseteq writes[r]
              /\ row'[r] = "completed" => row[r] = "completed" \/ "completed" \in writes[r]
              /\ StartInv(r)'
  <2>1. /\ w \in writes[r] /\ writes'[r] = writes[r] \ {w} /\ UNCHANGED <<pc, outcome>>
        /\ IF w = "session" THEN row'[r] = row[r] ELSE row'[r] = w
    BY <1>12 DEF Land
  <2>2. StartInv(r)'
    BY <2>1 DEF RunInv, TaskInv, StartInv, Awaited, Body, Live
  <2> QED
    BY <2>1, <2>2
<1>13. ASSUME NEW who \in {"user", "platform"}, Stop(r, who)
       PROVE  /\ row' = row /\ pc[r] # "gone" /\ pc'[r] \in {"ending", "shutting", "frame", "gone"}
              /\ "completed" \in writes'[r] => "completed" \in writes[r]
  BY <1>13 DEF Stop, Active, Body, Handler
<1> QED
  <2>1. CASE \E w \in Live \cup Final \cup {"session"} : Land(r, w)
    BY <1>12, <2>1
  <2>2. CASE \E who \in {"user", "platform"} : Stop(r, who)
    BY <1>13, <2>2 DEF StartInv, Early
  <2> QED
    BY <1>1, <1>2, <1>3, <1>4, <1>5, <1>6, <1>7, <1>8, <1>9, <1>10, <1>11, <2>1, <2>2
       DEF Own, RunnerStep

LEMMA StartStep ==
    ASSUME TypeOK, LaneInv, NEW r \in Runs, RunInv(r), StartInv(r), [Next]_vars
    PROVE  StartInv(r)'
<1>1. CASE Still(r)
  BY <1>1 DEF Still, StartInv
<1>2. CASE Own(r)
  BY <1>2, OwnSteps
<1>3. CASE Crash \/ Exit
  <2>1. Forget
    BY <1>3 DEF Crash, Exit
  <2> QED
    BY <2>1 DEF Forget, StartInv, Early
<1>4. CASE Shutdown
  BY <1>4 DEF Shutdown, StartInv, Early, turnVars, TypeOK, Active, Body
<1>5. CASE Boot
  BY <1>5 DEF Boot, StartInv, taskVars, turnVars, LaneInv, DownInv
<1>6. CASE RecFinal /\ rec.run = r
  BY <1>6 DEF RecFinal, StartInv, rowVars, turnVars
<1>7. CASE FailRun(r)
  <2>1. pc[r] = "gone" /\ pc' = pc
    BY <1>7 DEF FailRun, RunInv, RecoverInv, Recovering, taskVars
  <2> QED
    BY <2>1 DEF StartInv, Early
<1> QED
  BY <1>1, <1>2, <1>3, <1>4, <1>5, <1>6, <1>7, Movers

\* A run that did not complete never does, but where recovery says so.
LEMMA NotDoneStep ==
    ASSUME TypeOK, LaneInv, NEW r \in Runs, RunInv(r), StartInv(r), NotDone(r), [Next]_vars,
           RecFinal /\ rec.run = r => rec.short
    PROVE  NotDone(r)'
<1>1. CASE Still(r)
  BY <1>1 DEF Still, NotDone
<1>2. CASE Own(r)
  BY <1>2, OwnSteps DEF NotDone
<1>3. CASE Crash \/ Exit
  <2>1. Forget /\ row'[r] # "completed"
    BY <1>3 DEF Crash, Exit, rowVars, NotDone
  <2> QED
    BY <2>1 DEF Forget, NotDone
<1>4. CASE Shutdown
  BY <1>4 DEF Shutdown, NotDone, rowVars, Active, Body, Handler
<1>5. CASE Boot
  BY <1>5 DEF Boot, NotDone, taskVars
<1>6. CASE RecFinal /\ rec.run = r
  <2>1. row' = row /\ pc' = pc /\ (writes' = writes \/ Hop(r, "failed"))
    BY <1>6 DEF RecFinal, rowVars, RecWord
  <2> QED
    BY <2>1 DEF NotDone, Hop, TypeOK
<1>7. CASE FailRun(r)
  BY <1>7 DEF FailRun, NotDone, taskVars, TypeOK
<1> QED
  BY <1>1, <1>2, <1>3, <1>4, <1>5, <1>6, <1>7, Movers
LEMMA LaneMovers ==
    ASSUME [Next]_vars
    PROVE  \/ UNCHANGED laneVars
           \/ \E q \in Runs : Drive(q) \/ Result(q) \/ PumpEnds(q) \/ Reaped(q)
           \/ Crash \/ Shutdown \/ Exit \/ Boot \/ Connect \/ Alive \/ Sweep \/ Settle
           \/ RecSkips \/ RecStarts \/ RecTakes \/ RecBegins \/ RecUnanswered \/ RecEnds
           \/ RecFinal \/ RecReports \/ (\E p \in Pumps : CloseCut(p))
<1>1. CASE UNCHANGED vars
  BY <1>1 DEF vars, laneVars, chatVars, linkVars, turnVars, recVars, pastVars
<1>2. ASSUME NEW r \in Runs, Own(r)
      PROVE  UNCHANGED laneVars \/ Drive(r) \/ Result(r) \/ PumpEnds(r) \/ Reaped(r)
  BY <1>2, QuietSteps DEF Own, RunnerStep
<1>3. CASE Finish \/ SatDies
  <2>1. 1 \in Runs
    BY RunBoundsAssumption DEF Runs
  <2> QED
    BY <1>3, <2>1, QuietSteps
<1>4. ASSUME NEW r \in Runs, FailRun(r) \/ FailReports(r) PROVE UNCHANGED laneVars
  BY <1>4, QuietSteps
<1> QED
  BY <1>1, <1>2, <1>3, <1>4 DEF Next, RecoverStep, Own

\* The cut turns are those the boot found, wherever recovery moves them.
LEMMA CutsShrink ==
    ASSUME TypeOK, LaneInv, [Next]_vars, ~Boot
    PROVE  Cuts' \subseteq Cuts \cup {NoPump}
<1>1. ASSUME UNCHANGED <<waiting, closing, rec>> PROVE Cuts' \subseteq Cuts
  BY <1>1 DEF Cuts
<1>2. ASSUME NEW q \in Runs, Drive(q) \/ Result(q) \/ PumpEnds(q) \/ Reaped(q)
      PROVE  UNCHANGED <<waiting, closing, rec>>
  BY <1>2 DEF Drive, Result, PumpEnds, Reaped, recVars
<1>3. CASE UNCHANGED laneVars \/ Shutdown \/ Connect \/ Sweep
  BY <1>1, <1>3 DEF laneVars, Shutdown, Connect, Sweep, recVars
<1>4. CASE Crash \/ Exit
  <2>1. Forget
    BY <1>4 DEF Crash, Exit
  <2> QED
    BY <2>1 DEF Forget, Cuts, NoRec
<1>5. CASE Alive
  <2>1. closing' = closing
    BY <1>5 DEF Alive
  <2>2. \/ rec' = rec /\ waiting' = waiting
        \/ /\ rec' = [NoRec EXCEPT !.at = "start", !.run = parked, !.cut = waiting]
           /\ waiting' = NoPump
    BY <1>5 DEF Alive
  <2>3. [NoRec EXCEPT !.at = "start", !.run = parked, !.cut = waiting].cut = waiting
    BY DEF NoRec
  <2>4. (rec' = rec /\ waiting' = waiting) \/ (rec'.cut = waiting /\ waiting' = NoPump)
    BY <2>2, <2>3
  <2> QED
    BY <2>1, <2>4 DEF Cuts
<1>6. CASE Settle
  BY <1>6 DEF Settle, Cuts
<1>7. CASE RecSkips \/ RecReports
  BY <1>7 DEF RecSkips, RecReports, Cuts, NoRec
<1>8. CASE RecStarts \/ RecTakes \/ RecBegins
  <2>1. rec'.cut = rec.cut /\ rec.at \in {"start", "taking", "asking"}
    BY <1>8 DEF RecStarts, RecTakes, RecBegins, TypeOK
  <2> QED
    BY <1>8, <2>1 DEF RecStarts, RecTakes, RecBegins, Cuts
<1>9. CASE RecUnanswered \/ RecEnds
  <2>1. rec'.at \in {"following", "final"}
    BY <1>9 DEF RecUnanswered, RecEnds, TypeOK
  <2> QED
    BY <1>9, <2>1 DEF RecUnanswered, RecEnds, Cuts
<1>10. CASE RecFinal
  <2>1. rec'.at \in {"stamp", "none"}
    BY <1>10 DEF RecFinal, TypeOK, NoRec
  <2> QED
    BY <1>10, <2>1 DEF RecFinal, Cuts
<1>11. CASE \E p \in Pumps : CloseCut(p)
  BY <1>11 DEF CloseCut, Cuts
<1> QED
  BY <1>1, <1>2, <1>3, <1>4, <1>5, <1>6, <1>7, <1>8, <1>9, <1>10, <1>11, LaneMovers

LEMMA CutStep ==
    ASSUME TypeOK, LaneInv, NEW r \in Runs, RunInv(r), StartInv(r), OpenInv(r), CutInv(r),
           [Next]_vars
    PROVE  CutInv(r)'
<1> SUFFICES ASSUME NEW p \in Cuts', p[2] = r PROVE NotDone(r)'
  BY DEF CutInv
<1>1. NoPump[2] # r
  BY DEF NoPump, Runs
<1>2. CASE ~Boot
  <2>1. p \in Cuts /\ NotDone(r)
    BY <1>1, <1>2, CutsShrink DEF CutInv
  <2>2. ~(RecFinal /\ rec.run = r)
    <3>1. RecFinal /\ rec.run = r => Cuts = {NoPump}
      BY DEF RecFinal, LaneInv, LinkInv, Cuts, Runs
    <3> QED
      BY <1>1, <2>1, <3>1
  <2> QED
    BY <2>1, <2>2, NotDoneStep
<1>3. CASE Boot
  <2>1. closing' = {} /\ rec' = NoRec /\ up = "down" /\ pc[r] \in {"none", "gone"}
    BY <1>3 DEF Boot, LaneInv, DownInv
  <2>2. p = waiting'
    BY <2>1 DEF Cuts, NoRec
  <2>3. record.open /\ p = record.pump
    BY <1>1, <1>3, <2>2 DEF Boot
  <2>4. NotDone(r)
    BY <2>1, <2>3 DEF OpenInv, NotDone, Early
  <2> QED
    BY <2>1, <2>4, NotDoneStep DEF RecFinal
<1> QED
  BY <1>2, <1>3

\* A new record is the open one of a turn that starts: a runner's or a replay's.
LEMMA RecordMoves ==
    ASSUME TypeOK, [Next]_vars
    PROVE  \/ record' = record
           \/ /\ ~record'.open
              /\ record'.pump = record.pump \/ record'.pump = NoPump
           \/ \E q \in Runs : Drive(q)
           \/ RecTakes
<1>1. ASSUME NEW q \in Runs, Result(q) \/ PumpEnds(q) \/ Reaped(q)
      PROVE  record' = record \/ (~record'.open /\ record'.pump \in {record.pump, NoPump})
  <2>1. CASE Result(q)
    BY <2>1 DEF Result, TypeOK
  <2>2. CASE PumpEnds(q) \/ Reaped(q)
    BY <2>2 DEF PumpEnds, Reaped, EndPump, NoRecord
  <2> QED
    BY <1>1, <2>1, <2>2
<1>2. CASE UNCHANGED laneVars \/ Crash \/ Exit \/ Shutdown \/ Connect \/ Alive \/ Sweep \/ Settle
  BY <1>2 DEF laneVars, Crash, Exit, Shutdown, Connect, Alive, Sweep, Settle, chatVars
<1>3. CASE RecSkips \/ RecStarts \/ RecBegins \/ RecUnanswered \/ RecFinal \/ RecReports
  BY <1>3 DEF RecSkips, RecStarts, RecBegins, RecUnanswered, RecFinal, RecReports, chatVars
<1>4. CASE Boot \/ RecEnds
  BY <1>4 DEF Boot, RecEnds, EndPump, NoRecord
<1>5. CASE \E p \in Pumps : CloseCut(p)
  BY <1>5 DEF CloseCut, NoRecord
<1> QED
  BY <1>1, <1>2, <1>3, <1>4, <1>5, LaneMovers

\* A process keeps its number to its end.
LEMMA SameProcess ==
    ASSUME [Next]_vars PROVE restarts' = restarts \/ Crash \/ Exit
<1> USE DEF pastVars
<1>1. ASSUME NEW q \in Runs, Drive(q) \/ Result(q) \/ PumpEnds(q) \/ Reaped(q)
      PROVE  restarts' = restarts
  BY <1>1 DEF Drive, Result, PumpEnds, Reaped
<1>2. CASE UNCHANGED laneVars \/ Shutdown \/ Boot \/ Connect \/ Alive \/ Sweep \/ Settle
  BY <1>2 DEF laneVars, Shutdown, Boot, Connect, Alive, Sweep, Settle
<1>3. CASE RecSkips \/ RecStarts \/ RecTakes \/ RecBegins \/ RecUnanswered \/ RecEnds
  BY <1>3 DEF RecSkips, RecStarts, RecTakes, RecBegins, RecUnanswered, RecEnds
<1>4. CASE RecFinal \/ RecReports \/ (\E p \in Pumps : CloseCut(p))
  BY <1>4 DEF RecFinal, RecReports, CloseCut
<1> QED
  BY <1>1, <1>2, <1>3, <1>4, LaneMovers
\* A run's outcome is good by its result alone.
LEMMA GoodOutcome ==
    ASSUME TypeOK, NEW r \in Runs, Own(r), outcome'[r] = "ok"
    PROVE  outcome[r] = "ok" \/ Result(r)
<1> USE DEF turnVars, TypeOK
<1>1. CASE Fire(r) \/ Admit(r) \/ Gate(r) \/ Prepare(r) \/ Drive(r) \/ Begin(r)
  BY <1>1 DEF Fire, Admit, Gate, Prepare, Drive, Begin
<1>2. CASE Broken(r) \/ PumpEnds(r) \/ Reaped(r) \/ Judge(r) \/ Stamped(r) \/ Deliver(r)
  BY <1>2 DEF Broken, PumpEnds, Reaped, Judge, Stamped, Deliver
<1>3. CASE Close(r) \/ Shut(r) \/ Tell(r) \/ Frame(r) \/ StartFails(r) \/ EndFails(r) \/ Hear(r)
  BY <1>3 DEF Close, Shut, Tell, Frame, StartFails, EndFails, Hear
<1>4. CASE \E w \in Live \cup Final \cup {"session"} : Land(r, w)
  BY <1>4 DEF Land
<1>5. CASE \E who \in {"user", "platform"} : Stop(r, who)
  BY <1>5 DEF Stop
<1> QED
  BY <1>1, <1>2, <1>3, <1>4, <1>5 DEF Own, RunnerStep

\* An open record that stays speaks of the same run, which has not completed.
LEMMA OpenKept ==
    ASSUME TypeOK, LaneInv, NEW r \in Runs, RunInv(r), StartInv(r), OpenInv(r), RecordInv,
           [Next]_vars, record' = record, record.open, record.pump[2] = r
    PROVE  OpenInv(r)'
<1>1. /\ row[r] # "completed" /\ "completed" \notin writes[r]
      /\ \/ pc[r] = "gone"
         \/ pc[r] \notin Early /\ outcome[r] # "ok" /\ record.pump = RunPump(r)
  BY DEF OpenInv
<1>2. ~(RecFinal /\ rec.run = r)
  BY DEF RecFinal, RecordInv, Runs
<1>3. CASE pc[r] = "gone"
  <2>1. NotDone(r)
    BY <1>1, <1>3 DEF NotDone
  <2>2. NotDone(r)'
    BY <1>2, <2>1, NotDoneStep
  <2> QED
    BY <2>2 DEF NotDone, OpenInv
<1>4. CASE pc[r] # "gone"
  <2>1. pc[r] \notin Early /\ outcome[r] # "ok" /\ record.pump = RunPump(r)
    BY <1>1, <1>4
  <2>2. CASE Crash \/ Exit
    <3>1. Forget /\ row'[r] # "completed" /\ pc[r] # "none"
      BY <1>1, <2>1, <2>2 DEF Crash, Exit, rowVars, Early
    <3> QED
      BY <3>1 DEF Forget, OpenInv
  <2>3. CASE ~(Crash \/ Exit)
    <3>1. RunPump(r)' = RunPump(r)
      BY <2>3, SameProcess DEF RunPump
    <3>2. CASE Still(r)
      BY <1>1, <2>1, <3>1, <3>2 DEF Still, OpenInv
    <3>3. CASE Own(r)
      <4>1. ~Result(r)
        BY <2>1 DEF Result, TypeOK
      <4>2. pc'[r] \notin Early /\ row'[r] # "completed" /\ "completed" \notin writes'[r]
        BY <1>1, <2>1, <3>3, OwnSteps
      <4>3. outcome'[r] # "ok"
        BY <2>1, <3>3, <4>1, GoodOutcome
      <4> QED
        BY <2>1, <3>1, <4>2, <4>3 DEF OpenInv
    <3>4. CASE Shutdown
      <4>1. row' = row /\ outcome' = outcome /\ writes'[r] \subseteq writes[r] /\ pc'[r] \notin Early
        BY <2>1, <3>4 DEF Shutdown, rowVars, turnVars, Early
      <4> QED
        BY <1>1, <2>1, <3>1, <4>1 DEF OpenInv
    <3>5. CASE Boot
      BY <1>4, <2>1, <3>5 DEF Boot, LaneInv, DownInv, Early
    <3>6. CASE FailRun(r)
      BY <1>4, <3>6 DEF FailRun, RunInv, RecoverInv, Recovering
    <3> QED
      BY <1>2, <2>3, <3>2, <3>3, <3>4, <3>5, <3>6, Movers
  <2> QED
    BY <2>2, <2>3
<1> QED
  BY <1>3, <1>4

LEMMA OpenStep ==
    ASSUME TypeOK, LaneInv, NEW r \in Runs, RunInv(r), StartInv(r), OpenInv(r), RecordInv,
           [Next]_vars
    PROVE  OpenInv(r)'
<1>1. CASE record' = record
  <2>1. CASE record.open /\ record.pump[2] = r
    BY <1>1, <2>1, OpenKept
  <2>2. CASE ~(record.open /\ record.pump[2] = r)
    BY <1>1, <2>2 DEF OpenInv
  <2> QED
    BY <2>1, <2>2
<1>2. CASE ~record'.open
  BY <1>2 DEF OpenInv
<1>3. ASSUME NEW q \in Runs, Drive(q) PROVE OpenInv(r)'
  <2>1. record'.pump = RunPump(q) /\ RunPump(q)[2] = q /\ RunPump(q)' = RunPump(q)
    BY <1>3 DEF Drive, StartPump, RunPump, pastVars
  <2>2. CASE q # r
    BY <2>1, <2>2 DEF OpenInv
  <2>3. CASE q = r
    <3>1. /\ pc[r] = "spawning" /\ pc'[r] = "turn"
          /\ UNCHANGED <<row, writes, outcome>>
      BY <1>3, <2>3 DEF Drive, At, Go, TypeOK, rowVars
    <3>2. row[r] \in Live /\ outcome[r] = "none" /\ writes[r] = {}
      BY <3>1 DEF StartInv, Early, RunInv, TaskInv, Body, Awaited
    <3> QED
      BY <2>1, <2>3, <3>1, <3>2 DEF OpenInv, Live, Early
  <2> QED
    BY <2>2, <2>3
<1>4. CASE RecTakes
  <2>1. record'.pump = RecPump /\ RecPump[2] = rec.run /\ rec.at = "taking"
    BY <1>4 DEF RecTakes, StartPump, RecPump
  <2>2. CASE rec.run # r
    BY <2>1, <2>2 DEF OpenInv
  <2>3. CASE rec.run = r
    <3>1. pc[r] = "gone" /\ row[r] \in Live /\ writes[r] = {}
      BY <2>1, <2>3 DEF RunInv, RecoverInv, Recovering, Replayed
    <3>2. UNCHANGED <<row, pc, writes>>
      BY <1>4 DEF RecTakes, rowVars, taskVars
    <3> QED
      BY <3>1, <3>2 DEF OpenInv, Live
  <2> QED
    BY <2>2, <2>3
<1> QED
  BY <1>1, <1>2, <1>3, <1>4, RecordMoves

\* A replay has the chat's record, or the run it replays has none.
LEMMA RecordStep ==
    ASSUME TypeOK, LaneInv, RunsInv, RecordInv, [Next]_vars
    PROVE  RecordInv'
<1> USE DEF recVars, pastVars
<1>1. ASSUME UNCHANGED <<rec, restarts>>,
             record'.pump = record.pump \/ record'.pump = NoPump
      PROVE  RecordInv'
  BY <1>1 DEF RecordInv, RecPump, NoPump
<1>2. ASSUME NEW q \in Runs, Drive(q) PROVE RecordInv'
  <2>1. record'.pump[2] = q /\ rec' = rec /\ pc[q] = "spawning"
    BY <1>2 DEF Drive, StartPump, RunPump, At
  <2>2. ~Replayed(q)
    BY <2>1 DEF RunsInv, RunInv, RecoverInv, Recovering
  <2> QED
    BY <2>1, <2>2 DEF RecordInv, Replayed
<1>3. ASSUME NEW q \in Runs, Result(q) \/ PumpEnds(q) \/ Reaped(q) PROVE RecordInv'
  <2>1. UNCHANGED <<rec, restarts>>
    BY <1>3 DEF Result, PumpEnds, Reaped
  <2>2. record'.pump = record.pump \/ record'.pump = NoPump
    <3>1. CASE Result(q)
      BY <3>1 DEF Result, TypeOK
    <3>2. CASE PumpEnds(q) \/ Reaped(q)
      BY <3>2 DEF PumpEnds, Reaped, EndPump, NoRecord
    <3> QED
      BY <1>3, <3>1, <3>2
  <2> QED
    BY <1>1, <2>1, <2>2
<1>4. ASSUME rec' = NoRec PROVE RecordInv'
  BY <1>4 DEF RecordInv, NoRec
<1>5. CASE Crash \/ Exit \/ RecSkips \/ RecReports
  BY <1>4, <1>5 DEF Crash, Exit, Forget, RecSkips, RecReports
<1>6. CASE UNCHANGED laneVars \/ Shutdown \/ Connect \/ Sweep \/ Settle
  BY <1>1, <1>6 DEF laneVars, Shutdown, Connect, Sweep, Settle, chatVars
<1>7. CASE Boot
  BY <1>4, <1>7 DEF Boot, LaneInv, DownInv
<1>8. CASE Alive
  <2>1. rec' = rec \/ rec' = [NoRec EXCEPT !.at = "start", !.run = parked, !.cut = waiting]
    BY <1>8 DEF Alive
  <2>2. [NoRec EXCEPT !.at = "start", !.run = parked, !.cut = waiting].at = "start"
    BY DEF NoRec
  <2>3. rec'.at = "start" \/ (rec' = rec /\ record' = record /\ restarts' = restarts)
    BY <1>8, <2>1, <2>2 DEF Alive, chatVars
  <2> QED
    BY <1>1, <2>3 DEF RecordInv
<1>9. CASE RecStarts
  <2>1. rec'.at = "taking"
    BY <1>9 DEF RecStarts, TypeOK
  <2> QED
    BY <2>1 DEF RecordInv
<1>10. CASE RecTakes
  <2>1. rec'.at = "asking" /\ rec'.run = rec.run /\ restarts' = restarts
    BY <1>10 DEF RecTakes, TypeOK
  <2>2. record'.pump = RecPump
    BY <1>10 DEF RecTakes, StartPump
  <2> QED
    BY <2>1, <2>2 DEF RecordInv, RecPump
<1>11. CASE RecBegins \/ RecUnanswered
  <2>1. /\ rec.at = "asking" /\ rec'.at = "following" /\ rec'.run = rec.run
        /\ UNCHANGED <<restarts, record>>
    BY <1>11 DEF RecBegins, RecUnanswered, TypeOK, chatVars
  <2> QED
    BY <2>1 DEF RecordInv, RecPump
<1>12. CASE RecEnds
  <2>1. rec.at = "following" /\ rec'.at = "final" /\ rec'.run = rec.run
    BY <1>12 DEF RecEnds, TypeOK
  <2>2. record' = IF record.pump = RecPump THEN NoRecord ELSE record
    BY <1>12 DEF RecEnds, EndPump
  <2>3. NoRecord.pump[2] = 0
    BY DEF NoRecord, NoPump
  <2> QED
    BY <2>1, <2>2, <2>3 DEF RecordInv
<1>13. CASE RecFinal
  <2>1. rec'.at = "none" \/ (rec.at = "final" /\ rec'.at = "stamp" /\ rec'.run = rec.run)
    BY <1>13 DEF RecFinal, TypeOK, NoRec
  <2>2. record' = record
    BY <1>13 DEF RecFinal, chatVars
  <2> QED
    BY <2>1, <2>2 DEF RecordInv
<1>14. CASE \E p \in Pumps : CloseCut(p)
  <2>1. UNCHANGED <<rec, restarts>> /\ (record' = record \/ record' = NoRecord)
    BY <1>14 DEF CloseCut
  <2> QED
    BY <1>1, <2>1 DEF NoRecord
<1> QED
  BY <1>2, <1>3, <1>5, <1>6, <1>7, <1>8, <1>9, <1>10, <1>11, <1>12, <1>13, <1>14, LaneMovers
\* Who writes closing cards, and what a restart tears.
LEMMA CardMoves ==
    ASSUME [Next]_vars
    PROVE  /\ closings' = closings \/ RecUnanswered \/ \E p \in Pumps : CloseCut(p)
           /\ torn' = torn \/ Crash \/ Exit
<1> USE DEF chatVars, pastVars
<1>1. ASSUME NEW r \in Runs, Own(r) PROVE UNCHANGED <<closings, torn>>
  <2>1. CASE Fire(r) \/ Admit(r) \/ Gate(r) \/ Prepare(r) \/ Drive(r) \/ Begin(r)
    BY <2>1 DEF Fire, Admit, Gate, Prepare, Drive, Begin
  <2>2. CASE Result(r) \/ Broken(r) \/ PumpEnds(r) \/ Reaped(r) \/ Judge(r) \/ Stamped(r)
    BY <2>2 DEF Result, Broken, PumpEnds, Reaped, Judge, Stamped
  <2>3. CASE Deliver(r) \/ Close(r) \/ Shut(r) \/ Tell(r) \/ Frame(r)
    BY <2>3 DEF Deliver, Close, Shut, Tell, Frame
  <2>4. CASE StartFails(r) \/ EndFails(r) \/ Hear(r)
    BY <2>4 DEF StartFails, EndFails, Hear
  <2>5. CASE \E w \in Live \cup Final \cup {"session"} : Land(r, w)
    BY <2>5 DEF Land
  <2>6. CASE \E who \in {"user", "platform"} : Stop(r, who)
    BY <2>6 DEF Stop
  <2> QED
    BY <1>1, <2>1, <2>2, <2>3, <2>4, <2>5, <2>6 DEF Own, RunnerStep
<1>2. CASE Finish \/ SatDies \/ UNCHANGED vars
  BY <1>2 DEF Finish, SatDies, vars
<1>3. CASE Crash \/ Shutdown \/ Exit \/ Boot
  BY <1>3 DEF Crash, Shutdown, Exit, Boot
<1>4. CASE Connect \/ Alive \/ Sweep \/ Settle
  BY <1>4 DEF Connect, Alive, Sweep, Settle
<1>5. CASE RecSkips \/ RecStarts \/ RecTakes \/ RecBegins \/ RecEnds \/ RecFinal \/ RecReports
  BY <1>5 DEF RecSkips, RecStarts, RecTakes, RecBegins, RecEnds, RecFinal, RecReports
<1>6. CASE RecUnanswered \/ \E p \in Pumps : CloseCut(p)
  BY <1>6 DEF RecUnanswered, CloseCut
<1>7. CASE \E r \in Runs : FailRun(r) \/ FailReports(r)
  BY <1>7 DEF FailRun, FailReports
<1> QED
  BY <1>1, <1>2, <1>3, <1>4, <1>5, <1>6, <1>7 DEF Next, RecoverStep, Own

\* Where recovery has a run after a step.
LEMMA PlaceMoves ==
    ASSUME TypeOK, LaneInv, [Next]_vars
    PROVE  /\ parked' = parked \/ parked' = 0 \/ Boot
           /\ \/ rec' = rec \/ rec' = NoRec
              \/ rec'.run = parked
              \/ rec.at \in {"start", "taking", "asking"} /\ rec'.run = rec.run
              \/ /\ rec.at \in {"following", "final"} /\ rec'.at \in {"final", "stamp"}
                 /\ rec'.run = rec.run /\ rec'.short = rec.short
<1> USE DEF recVars
<1>1. ASSUME NEW q \in Runs, Drive(q) \/ Result(q) \/ PumpEnds(q) \/ Reaped(q)
      PROVE  parked' = parked /\ rec' = rec
  BY <1>1 DEF Drive, Result, PumpEnds, Reaped
<1>2. CASE UNCHANGED laneVars \/ Shutdown \/ Connect \/ Sweep \/ Settle
  BY <1>2 DEF laneVars, Shutdown, Connect, Sweep, Settle
<1>3. CASE Crash \/ Exit \/ RecSkips \/ RecReports \/ Boot
  BY <1>3 DEF Crash, Exit, Forget, RecSkips, RecReports, Boot
<1>4. CASE Alive
  <2>1. rec' = rec \/ rec' = [NoRec EXCEPT !.at = "start", !.run = parked, !.cut = waiting]
    BY <1>4 DEF Alive
  <2>2. [NoRec EXCEPT !.at = "start", !.run = parked, !.cut = waiting].run = parked
    BY DEF NoRec
  <2> QED
    BY <1>4, <2>1, <2>2 DEF Alive
<1>5. CASE RecStarts \/ RecTakes \/ RecBegins
  <2>1. rec.at \in {"start", "taking", "asking"} /\ rec'.run = rec.run
    BY <1>5 DEF RecStarts, RecTakes, RecBegins, TypeOK
  <2> QED
    BY <1>5, <2>1 DEF RecStarts, RecTakes, RecBegins
<1>6. CASE RecUnanswered
  <2>1. rec.at = "asking" /\ rec'.run = rec.run
    BY <1>6 DEF RecUnanswered, TypeOK
  <2> QED
    BY <1>6, <2>1 DEF RecUnanswered
<1>7. CASE RecEnds
  <2>1. rec.at = "following" /\ rec'.at = "final" /\ rec'.run = rec.run /\ rec'.short = rec.short
    BY <1>7 DEF RecEnds, TypeOK
  <2> QED
    BY <1>7, <2>1 DEF RecEnds
<1>8. CASE RecFinal
  <2>1. \/ rec' = NoRec
        \/ rec.at = "final" /\ rec'.at = "stamp" /\ rec'.run = rec.run /\ rec'.short = rec.short
    BY <1>8 DEF RecFinal, TypeOK
  <2> QED
    BY <1>8, <2>1 DEF RecFinal
<1>9. CASE \E p \in Pumps : CloseCut(p)
  BY <1>9 DEF CloseCut
<1> QED
  BY <1>1, <1>2, <1>3, <1>4, <1>5, <1>6, <1>7, <1>8, <1>9, LaneMovers

\* A run that has its card keeps to what the card says.
LEMMA CardKept ==
    ASSUME TypeOK, LaneInv, NEW r \in Runs, RunInv(r), StartInv(r), CardInv(r), [Next]_vars,
           closings[r] > 0, r \notin torn', closings'[r] = closings[r]
    PROVE  CardInv(r)'
<1>1. r \notin torn
  BY CardMoves DEF Crash, Exit
<1>2. /\ NotDone(r) /\ parked # r
      /\ Replayed(r) => rec.short /\ rec.at \in {"following", "final", "stamp"}
      /\ up = "down" => row[r] \notin Live
  BY <1>1 DEF CardInv
<1>3. NotDone(r)'
  <2>1. RecFinal /\ rec.run = r => rec.short
    BY <1>2 DEF RecFinal, Replayed
  <2> QED
    BY <1>2, <2>1, NotDoneStep
<1>4. parked' # r
  <2>1. CASE Boot
    BY <1>2, <2>1 DEF Boot, Eligible, Runs
  <2> QED
    BY <1>2, <2>1, PlaceMoves DEF Runs
<1>5. Replayed(r)' => rec'.short /\ rec'.at \in {"following", "final", "stamp"}
  BY <1>2, PlaceMoves DEF Replayed, NoRec
<1>6. up' = "down" => row'[r] \notin Live
  <2>1. CASE Crash
    BY <2>1 DEF Crash, Carded, rowVars
  <2>2. CASE Exit
    <3>1. torn' = torn \cup Carded(row')
      BY <2>2 DEF Exit
    <3> QED
      BY <3>1 DEF Carded
  <2>3. CASE ~(Crash \/ Exit)
    <3>1. up' = "down" => up = "down"
      <4>1. ASSUME NEW q \in Runs, Drive(q) \/ Result(q) \/ PumpEnds(q) \/ Reaped(q)
            PROVE  up' = up
        BY <4>1, RunnerUp DEF RunnerStep
      <4>2. CASE UNCHANGED laneVars \/ Shutdown \/ Boot \/ Connect \/ Alive \/ Sweep \/ Settle
        BY <4>2 DEF laneVars, Shutdown, Boot, Connect, Alive, Sweep, Settle
      <4>3. CASE RecSkips \/ RecStarts \/ RecTakes \/ RecBegins \/ RecUnanswered \/ RecEnds
        BY <4>3 DEF RecSkips, RecStarts, RecTakes, RecBegins, RecUnanswered, RecEnds
      <4>4. CASE RecFinal \/ RecReports \/ (\E p \in Pumps : CloseCut(p))
        BY <4>4 DEF RecFinal, RecReports, CloseCut
      <4> QED
        BY <2>3, <4>1, <4>2, <4>3, <4>4, LaneMovers
    <3>2. up = "down" /\ up' = "down" => row'[r] = row[r]
      <4>1. up = "down" => ~Own(r)
        BY RunnerUp DEF Own
      <4>2. Boot => up' = "up"
        BY DEF Boot
      <4>3. up = "down" => ~Shutdown /\ ~RecFinal /\ ~FailRun(r)
        BY DEF Shutdown, RecFinal, FailRun
      <4> QED
        BY <2>3, <4>1, <4>2, <4>3, Movers DEF Still
    <3> QED
      BY <1>2, <3>1, <3>2
  <2> QED
    BY <2>1, <2>2, <2>3
<1> QED
  BY <1>3, <1>4, <1>5, <1>6 DEF CardInv

LEMMA CardStep ==
    ASSUME TypeOK, LaneInv, NEW r \in Runs, RunInv(r), StartInv(r), CutInv(r), CardInv(r),
           [Next]_vars
    PROVE  CardInv(r)'
<1> USE DEF TypeOK
<1>1. r \in 0..MaxRuns /\ r # 0
  BY DEF Runs
<1>2. ASSUME NEW p, WriteCard(p), closings'[r] # closings[r] PROVE p[2] = r
  <2> HIDE DEF TypeOK
  <2>1. closings \in [0..MaxRuns -> Nat]
    BY DEF TypeOK
  <2>2. closings' = closings \/ closings' = [closings EXCEPT ![p[2]] = @ + 1]
    BY <1>2 DEF WriteCard
  <2> QED
    BY <1>1, <1>2, <2>1, <2>2
<1>3. CASE closings'[r] = closings[r]
  <2>1. CASE closings[r] > 0 /\ r \notin torn'
    BY <1>3, <2>1, CardKept
  <2>2. CASE ~(closings[r] > 0 /\ r \notin torn')
    BY <1>3, <2>2 DEF CardInv
  <2> QED
    BY <2>1, <2>2
<1>4. CASE RecUnanswered /\ closings'[r] # closings[r]
  <2>1. /\ rec.at = "asking" /\ rec.taken /\ WriteCard(rec.cut) /\ up = "up"
        /\ rec' = [rec EXCEPT !.at = "following", !.of = 0, !.short = rec.taken]
        /\ UNCHANGED <<parked, up, row, pc, writes>>
    BY <1>4 DEF RecUnanswered, rowVars, taskVars
  <2>2. rec.cut[2] = r
    BY <1>2, <1>4, <2>1
  <2>3. NotDone(r)
    BY <2>1, <2>2 DEF CutInv, Cuts
  <2>4. parked = 0
    BY <2>1 DEF LaneInv, LinkInv
  <2>5. rec'.short /\ rec'.at = "following"
    BY <2>1
  <2> QED
    BY <1>1, <2>1, <2>3, <2>4, <2>5 DEF CardInv, NotDone
<1>5. ASSUME NEW p \in Pumps, CloseCut(p), closings'[r] # closings[r] PROVE CardInv(r)'
  <2>1. /\ p \in closing /\ WriteCard(p) /\ up = "up"
        /\ UNCHANGED <<parked, rec, up, row, pc, writes>>
    BY <1>5 DEF CloseCut, rowVars, taskVars
  <2>2. p[2] = r
    BY <1>2, <1>5, <2>1
  <2>3. NotDone(r)
    BY <2>1, <2>2 DEF CutInv, Cuts
  <2>4. parked = 0 /\ (rec.at # "none" => rec.run = 0)
    BY <2>1 DEF LaneInv, LinkInv
  <2> QED
    BY <1>1, <2>1, <2>3, <2>4 DEF CardInv, NotDone, Replayed
<1> QED
  BY <1>3, <1>4, <1>5, CardMoves

LEMMA CardsInvariance == Spec => []CardsInv
<1>1. Init => CardsInv
  <2>3. Init => RecordInv
    BY DEF Init, RecordInv, NoRec
  <2> SUFFICES ASSUME Init, NEW r \in Runs
               PROVE  StartInv(r) /\ CutInv(r) /\ OpenInv(r) /\ CardInv(r)
    BY <2>3 DEF CardsInv
  <2>1. /\ pc[r] = "none" /\ outcome[r] = "none" /\ ~record.open /\ rec.at = "none"
        /\ waiting = NoPump /\ closing = {} /\ closings[r] = 0 /\ r # 0
    BY DEF Init, Runs, NoRec, NoRecord
  <2>2. Cuts = {NoPump} /\ NoPump[2] = 0
    BY <2>1 DEF Cuts, NoPump
  <2> QED
    BY <2>1, <2>2 DEF StartInv, CutInv, OpenInv, CardInv, Early
<1>2. CardsInv /\ (TypeOK /\ LaneInv) /\ RunsInv /\ [Next]_vars => CardsInv'
  <2>2. CardsInv /\ TypeOK /\ LaneInv /\ RunsInv /\ [Next]_vars => RecordInv'
    BY RecordStep DEF CardsInv
  <2> SUFFICES ASSUME CardsInv, TypeOK, LaneInv, RunsInv, [Next]_vars, NEW r \in Runs
               PROVE  (StartInv(r) /\ CutInv(r) /\ OpenInv(r) /\ CardInv(r))'
    BY <2>2 DEF CardsInv
  <2>1. RunInv(r) /\ StartInv(r) /\ CutInv(r) /\ OpenInv(r) /\ CardInv(r) /\ RecordInv
    BY DEF CardsInv, RunsInv
  <2> QED
    BY <2>1, StartStep, CutStep, OpenStep, CardStep
<1> QED
  BY <1>1, <1>2, LaneInvariance, RunsInvariance, PTL DEF Spec

\* The chat and the run agree: a run whose turn got the card that says the
\* restart cut it short is not stamped completed, unless another restart came
\* between the card and the row.
THEOREM CutIsNotCompleted == Spec => []CardMeansCut
<1>1. TypeOK /\ CardsInv => CardMeansCut
  <2> SUFFICES ASSUME TypeOK, CardsInv, NEW r \in Runs, r \notin torn, closings[r] > 0
               PROVE  row[r] # "completed"
    BY DEF CardMeansCut
  <2> QED
    BY DEF CardsInv, CardInv, NotDone
<1> QED
  BY <1>1, LaneInvariance, CardsInvariance, PTL

=============================================================================
