-------------------------- MODULE DelegateRunProofs --------------------------
(***************************************************************************)
(* Proofs about the runs of a delegated lane, for any number of runs,      *)
(* restarts and faults.                                                    *)
(***************************************************************************)
EXTENDS DelegateRun, TLAPS

-----------------------------------------------------------------------------
(* Types *)

RowsType ==
    /\ row \in [Runs -> {"none"} \cup Live \cup Final]
    /\ stamped \in SUBSET Runs

ChatType ==
    /\ record \in [pump : Pumps \cup {NoPump}, open : BOOLEAN]
    /\ card \in {"none", "old", "fresh"} /\ moved \in BOOLEAN
    /\ closings \in [0..MaxRuns -> Nat] /\ copies \in [0..MaxRuns -> Nat]

SatType ==
    /\ alive \in BOOLEAN /\ buf \in 0..MaxRuns /\ busy \in BOOLEAN
    /\ finished \in SUBSET Runs /\ ctx \in BOOLEAN

LinkType ==
    /\ linked \in BOOLEAN
    /\ report \in [due : BOOLEAN, alive : BOOLEAN, busy : BOOLEAN]
    /\ up \in {"up", "stopping", "down"}

TaskType ==
    /\ pc \in [Runs -> {"none", "gone"} \cup Active]
    /\ cause \in [Runs -> {"none", "user", "platform", "error"}]
    /\ writes \in [Runs -> SUBSET (Live \cup Final \cup {"session"})]
    /\ ended \in SUBSET Runs /\ told \in SUBSET Runs

TurnType ==
    /\ sent \in SUBSET Runs
    /\ outcome \in [Runs -> {"none", "ok", "error"}]
    /\ pumps \in SUBSET Pumps /\ top \in Pumps \cup {NoPump}
    /\ held \in BOOLEAN

Recs == [at : {"none", "start", "taking", "asking", "following", "final", "stamp"},
         run : 0..MaxRuns, cut : Pumps \cup {NoPump},
         taken : BOOLEAN, short : BOOLEAN, of : 0..MaxRuns]

RecType ==
    /\ parked \in 0..MaxRuns
    /\ waiting \in Pumps \cup {NoPump} /\ closing \in SUBSET Pumps
    /\ rec \in Recs
    /\ failing \in SUBSET Runs /\ reporting \in SUBSET Runs

MailType == mail \in [Runs -> Seq(Words)] /\ heard \in [Runs -> Seq(Words)]

PastType ==
    /\ restarts \in 0..MaxRestarts /\ faults \in 0..MaxFaults
    /\ orphans \in SUBSET Runs /\ raced \in SUBSET Runs
    /\ torn \in SUBSET Runs /\ lost \in SUBSET Runs

\* TypeOK is the types of the groups of variables that the actions name.
Types ==
    /\ RowsType /\ ChatType /\ SatType /\ LinkType /\ TaskType
    /\ TurnType /\ RecType /\ MailType /\ PastType

LEMMA TypeParts == (TypeOK <=> Types) /\ (TypeOK' <=> Types')
BY DEF Types, TypeOK, RowsType, ChatType, SatType, LinkType, TaskType, TurnType, RecType,
       Recs, MailType, PastType

\* A group that a step leaves alone keeps its type.
LEMMA FrameTypes ==
    /\ RowsType /\ UNCHANGED rowVars => RowsType'
    /\ ChatType /\ UNCHANGED chatVars => ChatType'
    /\ SatType /\ UNCHANGED satVars => SatType'
    /\ LinkType /\ UNCHANGED <<linkVars, up>> => LinkType'
    /\ TaskType /\ UNCHANGED taskVars => TaskType'
    /\ TurnType /\ UNCHANGED turnVars => TurnType'
    /\ RecType /\ UNCHANGED recVars => RecType'
    /\ MailType /\ UNCHANGED mailVars => MailType'
    /\ PastType /\ UNCHANGED pastVars => PastType'
<1>1. RowsType /\ UNCHANGED rowVars => RowsType'
  BY DEF RowsType, rowVars
<1>2. ChatType /\ UNCHANGED chatVars => ChatType'
  BY DEF ChatType, chatVars
<1>3. SatType /\ UNCHANGED satVars => SatType'
  BY DEF SatType, satVars
<1>4. LinkType /\ UNCHANGED <<linkVars, up>> => LinkType'
  BY DEF LinkType, linkVars
<1>5. TaskType /\ UNCHANGED taskVars => TaskType'
  BY DEF TaskType, taskVars
<1>6. TurnType /\ UNCHANGED turnVars => TurnType'
  BY DEF TurnType, turnVars
<1>7. RecType /\ UNCHANGED recVars => RecType'
  BY DEF RecType, recVars
<1>8. MailType /\ UNCHANGED mailVars => MailType'
  BY DEF MailType, mailVars
<1>9. PastType /\ UNCHANGED pastVars => PastType'
  BY DEF PastType, pastVars
<1> QED
  BY <1>1, <1>2, <1>3, <1>4, <1>5, <1>6, <1>7, <1>8, <1>9

\* What a step makes of the session's recovery.
LEMMA RecFacts ==
    /\ NoRec \in Recs
    /\ \A c \in Pumps \cup {NoPump}, n \in 0..MaxRuns :
          [NoRec EXCEPT !.at = "start", !.run = n, !.cut = c] \in Recs
    /\ \A c \in Recs, b \in BOOLEAN, n \in 0..MaxRuns :
          /\ \A at \in {"taking", "final", "stamp"} : [c EXCEPT !.at = at] \in Recs
          /\ [c EXCEPT !.at = "asking", !.taken = b] \in Recs
          /\ [c EXCEPT !.at = "following", !.of = n] \in Recs
          /\ [c EXCEPT !.at = "following", !.of = n, !.short = b] \in Recs
<1>1. NoRec \in Recs
  BY RunBoundsAssumption DEF Recs, NoRec
<1> QED
  BY <1>1 DEF Recs

\* The tokens of the pumps that this process starts.
LEMMA TokenTypes ==
    /\ PastType => \A r \in Runs : RunPump(r) \in Pumps
    /\ PastType /\ RecType => RecPump \in Pumps
    /\ NoPump \notin Pumps
BY RunBoundsAssumption DEF PastType, RecType, Recs, RunPump, RecPump, Pumps, NoPump, Runs

LEMMA InitTypes == Init => TypeOK
<1> SUFFICES ASSUME Init PROVE TypeOK
  OBVIOUS
<1> USE RunBoundsAssumption DEF Init
<1>1. RowsType /\ SatType
  BY DEF RowsType, SatType
<1>6. LinkType
  BY DEF LinkType, NoReport
<1>2. ChatType
  BY DEF ChatType, NoRecord
<1>3. TaskType /\ TurnType
  BY DEF TaskType, TurnType, Active
<1>4. RecType
  BY DEF RecType, Recs, NoRec
<1>5. MailType /\ PastType
  BY DEF MailType, PastType
<1> QED
  BY <1>1, <1>2, <1>3, <1>4, <1>5, <1>6, TypeParts DEF Types

\* One run's runner.
LEMMA RunnerTypes ==
    ASSUME TypeOK, NEW r \in Runs,
           Fire(r) \/ RunnerStep(r) \/ StartFails(r) \/ EndFails(r) \/ Hear(r)
    PROVE  TypeOK'
<1> USE TypeParts, FrameTypes DEF Types
<1>1. CASE Fire(r)
  <2>1. RowsType'
    BY <1>1 DEF Fire, RowsType, rowVars, Live
  <2>2. TaskType'
    BY <1>1 DEF Fire, TaskType, taskVars, Go, Active
  <2> QED
    BY <1>1, <2>1, <2>2 DEF Fire
<1>2. CASE Admit(r)
  <2>1. TaskType'
    BY <1>2 DEF Admit, TaskType, taskVars, Go, Hop, Live, Active, Body
  <2> QED
    BY <1>2, <2>1 DEF Admit
<1>3. CASE Gate(r)
  <2>1. TaskType'
    BY <1>3 DEF Gate, TaskType, taskVars, Go, Hop, Active, Body
  <2> QED
    BY <1>3, <2>1 DEF Gate
<1>4. CASE Prepare(r)
  <2>1. ChatType'
    BY <1>4 DEF Prepare, ChatType, chatVars
  <2>2. TaskType'
    BY <1>4 DEF Prepare, TaskType, taskVars, Go, Active, Body
  <2> QED
    BY <1>4, <2>1, <2>2 DEF Prepare
<1>5. CASE Drive(r)
  <2>1. ChatType'
    BY <1>5, TokenTypes DEF Drive, ChatType, chatVars, StartPump
  <2>2. SatType'
    BY <1>5 DEF Drive, SatType, satVars
  <2>3. TaskType'
    BY <1>5 DEF Drive, TaskType, taskVars, Go, Active, Body
  <2>4. TurnType'
    BY <1>5, TokenTypes DEF Drive, TurnType, turnVars, StartPump
  <2> QED
    BY <1>5, <2>1, <2>2, <2>3, <2>4 DEF Drive
<1>6. CASE StartFails(r)
  <2>1. TaskType'
    BY <1>6 DEF StartFails, TaskType, taskVars, Fail, Go, Hop, Active, Handler, Final
  <2>2. PastType'
    <3>1. faults' \in 0..MaxFaults
      BY <1>6, RunBoundsAssumption DEF StartFails, PastType, Fault
    <3> QED
      BY <1>6, <3>1 DEF StartFails, PastType
  <2> QED
    BY <1>6, <2>1, <2>2 DEF StartFails
<1>7. CASE Begin(r)
  <2>1. SatType'
    BY <1>7, RunBoundsAssumption DEF Begin, SatType, satVars, Runs
  <2>2. TurnType'
    BY <1>7 DEF Begin, TurnType, turnVars
  <2> QED
    BY <1>7, <2>1, <2>2 DEF Begin
<1>8. CASE Result(r)
  <2>1. ChatType'
    <3>1. copies' \in [0..MaxRuns -> Nat]
      BY <1>8, RunBoundsAssumption DEF Result, ChatType, Runs
    <3>2. record' \in [pump : Pumps \cup {NoPump}, open : BOOLEAN]
      BY <1>8 DEF Result, ChatType
    <3> QED
      BY <1>8, <3>1, <3>2 DEF Result, ChatType
  <2>2. TurnType'
    BY <1>8 DEF Result, TurnType, turnVars
  <2> QED
    BY <1>8, <2>1, <2>2 DEF Result
<1>9. CASE Broken(r)
  <2>1. ChatType'
    BY <1>9 DEF Broken, ChatType, chatVars
  <2>2. TurnType'
    BY <1>9 DEF Broken, TurnType, turnVars
  <2> QED
    BY <1>9, <2>1, <2>2 DEF Broken
<1>10. CASE PumpEnds(r)
  <2>1. ChatType'
    BY <1>10 DEF PumpEnds, ChatType, chatVars, EndPump, NoRecord
  <2>2. TurnType'
    BY <1>10 DEF PumpEnds, TurnType, turnVars, EndPump
  <2> QED
    BY <1>10, <2>1, <2>2 DEF PumpEnds
<1>11. CASE Reaped(r)
  <2>1. ChatType'
    BY <1>11 DEF Reaped, ChatType, chatVars, EndPump, NoRecord
  <2>2. TaskType'
    BY <1>11 DEF Reaped, TaskType, taskVars, Fail, Go, Hop, Active, Handler, Final
  <2>3. TurnType'
    BY <1>11 DEF Reaped, TurnType, turnVars, EndPump
  <2> QED
    BY <1>11, <2>1, <2>2, <2>3 DEF Reaped
<1>12. CASE Judge(r)
  <2>1. TaskType'
    BY <1>12 DEF Judge, TaskType, taskVars, Go, Hop, Active, Body, Final
  <2> QED
    BY <1>12, <2>1 DEF Judge
<1>13. CASE Stamped(r)
  <2>1. TaskType'
    BY <1>13 DEF Stamped, TaskType, taskVars, Go, Active, Body
  <2> QED
    BY <1>13, <2>1 DEF Stamped
<1>14. CASE Deliver(r)
  <2>1. TaskType'
    BY <1>14 DEF Deliver, TaskType, taskVars, Go, Active, Body
  <2>2. MailType'
    BY <1>14 DEF Deliver, MailType, mailVars, Post, Words
  <2> QED
    BY <1>14, <2>1, <2>2 DEF Deliver
<1>15. CASE EndFails(r)
  <2>1. TaskType'
    BY <1>15 DEF EndFails, TaskType, taskVars, Fail, Go, Hop, Active, Handler, Final
  <2>2. PastType'
    <3>1. faults' \in 0..MaxFaults
      BY <1>15, RunBoundsAssumption DEF EndFails, PastType, Fault
    <3> QED
      BY <1>15, <3>1 DEF EndFails, PastType
  <2> QED
    BY <1>15, <2>1, <2>2 DEF EndFails
<1>16. CASE Close(r)
  <2>1. TaskType'
    BY <1>16 DEF Close, TaskType, taskVars, Leave, Go
  <2> QED
    BY <1>16, <2>1 DEF Close
<1>17. CASE Shut(r)
  <2>1. SatType'
    <3>1. buf' \in 0..MaxRuns
      BY <1>17, RunBoundsAssumption DEF Shut, SatType, CloseSession
    <3>2. alive' \in BOOLEAN /\ busy' \in BOOLEAN
      BY <1>17 DEF Shut, SatType, CloseSession
    <3>3. ctx' \in BOOLEAN
      BY <1>17 DEF Shut, SatType, CloseSession
    <3>4. finished' \in SUBSET Runs
      BY <1>17 DEF Shut, SatType
    <3> QED
      BY <3>1, <3>2, <3>3, <3>4 DEF SatType
  <2>2. TaskType'
    BY <1>17 DEF Shut, TaskType, taskVars, Go, Active, Handler
  <2>3. TurnType'
    BY <1>17 DEF Shut, TurnType, turnVars, CloseSession
  <2> QED
    BY <1>17, <2>1, <2>2, <2>3 DEF Shut
<1>18. CASE Tell(r)
  <2>1. TaskType'
    BY <1>18 DEF Tell, TaskType, taskVars, Leave, Go
  <2>2. MailType'
    <3>1. Word(r) \in Words
      BY DEF Word, Words
    <3>2. Append(mail[r], Word(r)) \in Seq(Words)
      BY <3>1 DEF MailType
    <3> QED
      BY <1>18, <3>2 DEF Tell, MailType, Post
  <2> QED
    BY <1>18, <2>1, <2>2 DEF Tell
<1>19. CASE Frame(r)
  <2>1. RowsType'
    BY <1>19 DEF Frame, RowsType, rowVars, Final
  <2>2. TaskType'
    BY <1>19 DEF Frame, TaskType, taskVars, Leave, Go
  <2> QED
    BY <1>19, <2>1, <2>2 DEF Frame
<1>20. CASE Hear(r)
  <2>1. MailType'
    BY <1>20 DEF Hear, MailType, mailVars
  <2> QED
    BY <1>20, <2>1 DEF Hear
<1> QED
  BY <1>1, <1>2, <1>3, <1>4, <1>5, <1>6, <1>7, <1>8, <1>9, <1>10, <1>11, <1>12, <1>13, <1>14, <1>15, <1>16, <1>17, <1>18, <1>19, <1>20 DEF RunnerStep

\* A write lands.
LEMMA LandTypes == ASSUME TypeOK, NEW r \in Runs, NEW w, Land(r, w) PROVE TypeOK'
<1> USE TypeParts, FrameTypes DEF Types
<1>1. TaskType'
  BY DEF Land, TaskType
<1>2. w # "session" => w \in Live \cup Final
  BY DEF Land, TaskType
<1>3. RowsType'
  BY <1>2 DEF Land, RowsType
<1> QED
  BY <1>1, <1>3 DEF Land

\* A run is cancelled.
LEMMA StopTypes ==
    ASSUME TypeOK, NEW r \in Runs, NEW who \in {"user", "platform"}, Stop(r, who)
    PROVE  TypeOK'
<1> USE TypeParts, FrameTypes DEF Types
<1>1. PICK d \in Dropped(r) :
        \/ writes' = [writes EXCEPT ![r] = writes[r] \ d]
        \/ writes' = [writes EXCEPT ![r] = (writes[r] \ d) \cup {"cancelled"}]
        \/ writes' = [writes EXCEPT ![r] = (writes[r] \ d) \cup {"failed"}]
  BY DEF Stop
<1>2. writes' \in [Runs -> SUBSET (Live \cup Final \cup {"session"})]
  BY <1>1 DEF TaskType, Final
<1>3. pc' \in [Runs -> {"none", "gone"} \cup Active]
  BY DEF Stop, TaskType, Go, Active, Handler
<1>4. cause' \in [Runs -> {"none", "user", "platform", "error"}]
  BY DEF Stop, TaskType
<1>5. TaskType'
  BY <1>2, <1>3, <1>4 DEF Stop, TaskType
<1>6. faults' \in 0..MaxFaults
  BY RunBoundsAssumption DEF Stop, PastType, Fault
<1>7. raced' \in SUBSET Runs /\ lost' \in SUBSET Runs
  BY DEF Stop, PastType
<1>8. PastType'
  BY <1>6, <1>7 DEF Stop, PastType
<1> QED
  BY <1>5, <1>8 DEF Stop

\* A turn that runs is a run's.
BusyInv == busy => buf # 0

\* The machine.
LEMMA MachineTypes == ASSUME TypeOK, BusyInv, Finish \/ SatDies PROVE TypeOK'
<1> USE TypeParts, FrameTypes DEF Types
<1>1. ASSUME Finish PROVE TypeOK'
  <2>1. finished' \in SUBSET Runs
    BY <1>1, RunBoundsAssumption DEF Finish, SatType, BusyInv, Runs
  <2> QED
    BY <1>1, <2>1 DEF Finish, SatType
<1>2. ASSUME SatDies PROVE TypeOK'
  <2>1. SatType'
    BY <1>2 DEF SatDies, SatType
  <2>2. faults' \in 0..MaxFaults
    BY <1>2, RunBoundsAssumption DEF SatDies, PastType, Fault
  <2>3. PastType'
    BY <1>2, <2>2 DEF SatDies, PastType
  <2> QED
    BY <1>2, <2>1, <2>3 DEF SatDies
<1> QED
  BY <1>1, <1>2

\* Who stops may still end.
StopInv == up = "stopping" => restarts < MaxRestarts

LEMMA RestartTypes ==
    ASSUME TypeOK, StopInv, Crash \/ Shutdown \/ Exit \/ Boot
    PROVE  TypeOK'
<1> USE TypeParts, FrameTypes DEF Types
<1>1. ASSUME Forget PROVE TaskType' /\ TurnType' /\ RecType' /\ LinkType' /\ mail' \in [Runs -> Seq(Words)]
  <2>1. TaskType'
    BY <1>1 DEF Forget, TaskType
  <2>2. TurnType' /\ LinkType'
    BY <1>1 DEF Forget, TurnType, LinkType, NoReport
  <2>3. RecType'
    <3>1. rec' \in Recs
      BY <1>1, RecFacts DEF Forget
    <3> QED
      BY <1>1, <3>1, RunBoundsAssumption DEF Forget, RecType
  <2>4. mail' \in [Runs -> Seq(Words)]
    BY <1>1 DEF Forget
  <2> QED
    BY <2>1, <2>2, <2>3, <2>4
<1>2. ASSUME Crash PROVE TypeOK'
  <2>1. PastType'
    BY <1>2, RunBoundsAssumption DEF Crash, PastType, Unreported, Carded
  <2>2. MailType'
    BY <1>1, <1>2 DEF Crash, MailType
  <2> QED
    BY <1>1, <1>2, <2>1, <2>2 DEF Crash
<1>3. ASSUME Shutdown PROVE TypeOK'
  <2>1. PICK d \in [Runs -> BOOLEAN] :
          writes' = [r \in Runs |-> IF d[r] THEN writes[r] \ Awaited(r) ELSE writes[r]]
    BY <1>3 DEF Shutdown
  <2>2. TaskType'
    BY <1>3, <2>1 DEF Shutdown, TaskType, Active
  <2>3. LinkType'
    BY <1>3 DEF Shutdown, LinkType, NoReport
  <2> QED
    BY <1>3, <2>2, <2>3 DEF Shutdown
<1>4. ASSUME Exit PROVE TypeOK'
  <2>1. restarts' \in 0..MaxRestarts
    BY <1>4, RunBoundsAssumption DEF Exit, PastType, StopInv
  <2>2. PastType'
    BY <1>4, <2>1 DEF Exit, PastType, Unreported, Carded
  <2>3. MailType'
    BY <1>1, <1>4 DEF Exit, MailType
  <2>4. RowsType'
    BY <1>4 DEF Exit, RowsType, Final
  <2> QED
    BY <1>1, <1>4, <2>2, <2>3, <2>4 DEF Exit
<1>5. ASSUME Boot PROVE TypeOK'
  <2>1. RowsType'
    BY <1>5 DEF Boot, RowsType, Final
  <2>2. ChatType'
    BY <1>5 DEF Boot, ChatType, NoRecord
  <2>3. parked' \in 0..MaxRuns
    BY <1>5, RunBoundsAssumption DEF Boot, Runs
  <2>4. RecType'
    BY <1>5, <2>3 DEF Boot, RecType, ChatType
  <2>5. PastType'
    BY <1>5 DEF Boot, PastType
  <2>6. LinkType'
    BY <1>5 DEF Boot, LinkType, linkVars
  <2> QED
    BY <1>5, <2>1, <2>2, <2>4, <2>5, <2>6 DEF Boot
<1> QED
  BY <1>2, <1>3, <1>4, <1>5

\* Recovery.
LEMMA RecoverTypes ==
    ASSUME TypeOK, Connect \/ Alive \/ RecoverStep \/ RecUnanswered \/ Sweep
    PROVE  TypeOK'
<1> USE TypeParts, FrameTypes DEF Types
<1>1. CASE Connect
  <2>1. LinkType'
    BY <1>1 DEF Connect, LinkType, SatType
  <2> QED
    BY <1>1, <2>1 DEF Connect
<1>2. CASE Alive
  <2>1. SatType'
    <3>1. buf' \in 0..MaxRuns
      BY <1>2, RunBoundsAssumption DEF Alive, SatType
    <3>2. alive' \in BOOLEAN /\ busy' \in BOOLEAN
      BY <1>2 DEF Alive, SatType
    <3> QED
      BY <1>2, <3>1, <3>2 DEF Alive, SatType
  <2>2. LinkType'
    BY <1>2 DEF Alive, LinkType, NoReport
  <2>3. TurnType'
    BY <1>2 DEF Alive, TurnType
  <2>4. RecType'
    <3>1. failing' \in SUBSET Runs
      BY <1>2, RunBoundsAssumption DEF Alive, RecType, Runs
    <3>2. waiting' \in Pumps \cup {NoPump}
      BY <1>2 DEF Alive, RecType
    <3>3. \/ rec' = rec
          \/ rec' = [NoRec EXCEPT !.at = "start", !.run = parked, !.cut = waiting]
      BY <1>2 DEF Alive
    <3>4. rec' \in Recs
      <4>1. [NoRec EXCEPT !.at = "start", !.run = parked, !.cut = waiting] \in Recs
        BY RecFacts DEF RecType
      <4> QED
        BY <3>3, <4>1 DEF RecType
    <3>5. parked' \in 0..MaxRuns
      BY <1>2, RunBoundsAssumption DEF Alive
    <3> QED
      BY <1>2, <3>1, <3>2, <3>4, <3>5 DEF Alive, RecType
  <2> QED
    BY <1>2, <2>1, <2>2, <2>3, <2>4 DEF Alive
<1>3. CASE RecSkips
  <2>1. closing' \in SUBSET Pumps
    BY <1>3 DEF RecSkips, RecType, Recs
  <2>2. RecType'
    <3>1. rec' \in Recs
      BY <1>3, RecFacts DEF RecSkips
    <3> QED
      BY <1>3, <2>1, <3>1 DEF RecSkips, RecType
  <2>3. orphans' \in SUBSET Runs
    BY <1>3, RunBoundsAssumption DEF RecSkips, RecType, Recs, PastType, Runs
  <2>4. PastType'
    BY <1>3, <2>3 DEF RecSkips, PastType
  <2> QED
    BY <1>3, <2>2, <2>4 DEF RecSkips
<1>4. CASE RecStarts
  <2>1. RecType'
    BY <1>4, RecFacts DEF RecStarts, RecType
  <2> QED
    BY <1>4, <2>1 DEF RecStarts
<1>5. CASE RecTakes
  <2>1. Holds(rec.cut) \in BOOLEAN
    BY DEF Holds
  <2>2. RecType'
    BY <1>5, <2>1, RecFacts DEF RecTakes, RecType
  <2>3. ChatType'
    BY <1>5, TokenTypes DEF RecTakes, ChatType, StartPump
  <2>4. TurnType'
    BY <1>5, TokenTypes DEF RecTakes, TurnType, StartPump
  <2> QED
    BY <1>5, <2>2, <2>3, <2>4 DEF RecTakes
<1>6. CASE RecBegins
  <2>1. RecType'
    BY <1>6, RecFacts DEF RecBegins, RecType, SatType
  <2> QED
    BY <1>6, <2>1 DEF RecBegins
<1>7. CASE RecUnanswered
  <2>1. RecType'
    <3>1. rec.taken \in BOOLEAN /\ 0 \in 0..MaxRuns
      BY RunBoundsAssumption DEF RecType, Recs
    <3>2. rec' = [rec EXCEPT !.at = "following", !.of = 0, !.short = rec.taken]
      BY <1>7 DEF RecUnanswered
    <3>3. rec' \in Recs
      BY <3>1, <3>2, RecFacts DEF RecType
    <3> QED
      BY <1>7, <3>3 DEF RecUnanswered, RecType
  <2>2. rec.cut[2] \in 0..MaxRuns
    BY RunBoundsAssumption DEF RecType, Recs, Pumps, NoPump
  <2>3. ChatType'
    BY <1>7, <2>2 DEF RecUnanswered, ChatType, WriteCard
  <2>4. faults' \in 0..MaxFaults
    BY <1>7, RunBoundsAssumption DEF RecUnanswered, PastType, Fault
  <2>5. PastType'
    BY <1>7, <2>4 DEF RecUnanswered, PastType
  <2> QED
    BY <1>7, <2>1, <2>3, <2>5 DEF RecUnanswered
<1>8. CASE RecEnds
  <2>1. RecType'
    BY <1>8, RecFacts DEF RecEnds, RecType
  <2>2. copies' \in [0..MaxRuns -> Nat]
    BY <1>8 DEF RecEnds, ChatType, RecType, Recs
  <2>3. record' \in [pump : Pumps \cup {NoPump}, open : BOOLEAN]
    BY <1>8 DEF RecEnds, ChatType, EndPump, NoRecord
  <2>4. card' \in {"none", "old", "fresh"}
    BY <1>8 DEF RecEnds, ChatType
  <2>5. ChatType'
    BY <1>8, <2>2, <2>3, <2>4 DEF RecEnds, ChatType
  <2>6. TurnType'
    BY <1>8 DEF RecEnds, TurnType, EndPump
  <2> QED
    BY <1>8, <2>1, <2>5, <2>6 DEF RecEnds
<1>9. CASE RecFinal
  <2>1. rec' \in Recs
    BY <1>9, RecFacts DEF RecFinal, RecType
  <2>2. RecType'
    BY <1>9, <2>1 DEF RecFinal, RecType
  <2>3. RecWord \in Live \cup Final
    BY DEF RecWord, Final
  <2>4. TaskType'
    BY <1>9, <2>3 DEF RecFinal, TaskType, Hop
  <2> QED
    BY <1>9, <2>2, <2>4 DEF RecFinal
<1>10. CASE RecReports
  <2>1. RecWord \in Words
    BY DEF RecWord, Words
  <2>2. MailType'
    <3>1. Append(mail[rec.run], RecWord) \in Seq(Words) \/ rec.run \notin Runs
      BY <2>1 DEF MailType
    <3> QED
      BY <1>10, <3>1 DEF RecReports, MailType, Post
  <2>3. RecType'
    BY <1>10, RecFacts DEF RecReports, RecType
  <2> QED
    BY <1>10, <2>2, <2>3 DEF RecReports
<1>11. CASE Settle
  <2>1. RecType'
    BY <1>11 DEF Settle, RecType
  <2> QED
    BY <1>11, <2>1 DEF Settle
<1>12. CASE Sweep
  <2>1. RecType'
    BY <1>12, RunBoundsAssumption DEF Sweep, Lapsed, RecType, Runs
  <2> QED
    BY <1>12, <2>1 DEF Sweep
<1>13. ASSUME NEW p \in Pumps, CloseCut(p) PROVE TypeOK'
  <2>1. RecType'
    BY <1>13 DEF CloseCut, RecType
  <2>2. p[2] \in 0..MaxRuns
    BY DEF Pumps
  <2>3. record' \in [pump : Pumps \cup {NoPump}, open : BOOLEAN]
    <3>1. NoRecord \in [pump : Pumps \cup {NoPump}, open : BOOLEAN]
      BY DEF NoRecord
    <3>2. record' = NoRecord \/ record' = record
      BY <1>13 DEF CloseCut
    <3> QED
      BY <3>1, <3>2 DEF ChatType
  <2>4. closings' \in [0..MaxRuns -> Nat]
    BY <1>13, <2>2 DEF CloseCut, WriteCard, ChatType
  <2>5. card' \in {"none", "old", "fresh"}
    BY <1>13 DEF CloseCut, WriteCard, ChatType
  <2>6. ChatType'
    BY <1>13, <2>3, <2>4, <2>5 DEF CloseCut, ChatType
  <2> QED
    BY <1>13, <2>1, <2>6 DEF CloseCut
<1>14. ASSUME NEW r \in Runs, FailRun(r) PROVE TypeOK'
  <2>1. RecType'
    BY <1>14 DEF FailRun, RecType
  <2>2. RowsType'
    BY <1>14 DEF FailRun, RowsType, Final
  <2> QED
    BY <1>14, <2>1, <2>2 DEF FailRun
<1>15. ASSUME NEW r \in Runs, FailReports(r) PROVE TypeOK'
  <2>1. RecType'
    BY <1>15 DEF FailReports, RecType
  <2>2. Append(mail[r], "failed") \in Seq(Words)
    BY DEF MailType, Words
  <2>3. MailType'
    BY <1>15, <2>2 DEF FailReports, MailType, Post
  <2>4. PastType'
    BY <1>15 DEF FailReports, PastType
  <2> QED
    BY <1>15, <2>1, <2>3, <2>4 DEF FailReports
<1> QED
  BY <1>1, <1>2, <1>3, <1>4, <1>5, <1>6, <1>7, <1>8, <1>9, <1>10, <1>11, <1>12, <1>13,
     <1>14, <1>15 DEF RecoverStep

-----------------------------------------------------------------------------
(* The lane: the process, its pumps, the link, the cut turns *)

\* A process that is down knows nothing.
DownInv ==
    up = "down" =>
        /\ pumps = {} /\ top = NoPump
        /\ parked = 0 /\ waiting = NoPump /\ closing = {} /\ rec = NoRec
        /\ failing = {} /\ reporting = {}
        /\ ended = {} /\ told = {} /\ ~linked
        /\ \A r \in Runs : pc[r] \in {"none", "gone"} /\ writes[r] = {} /\ mail[r] = <<>>

\* The tokens of cut turns that may still get a card.
Cuts == {waiting} \cup closing
            \cup (IF rec.at \in {"start", "taking", "asking"} THEN {rec.cut} ELSE {})

\* A cut turn's token is of an earlier process, a running pump's of this one.
TokensInv ==
    /\ \A p \in pumps : p[3] = restarts
    /\ \A p \in Cuts : p # NoPump => p[3] < restarts
    /\ record.pump # NoPump => record.pump[3] <= restarts
    /\ record.pump # NoPump /\ up = "down" => record.pump[3] < restarts

\* One report of the machine in the life of a process, and one replay, which
\* leaves no cut turn waiting.
LinkInv ==
    /\ rec.at = "none" => rec = NoRec
    /\ rec.at = "stamp" => rec.run # 0
    /\ rec.at # "none" => parked = 0 /\ waiting = NoPump
    /\ rec.at # "none" /\ rec.run # 0 => closing = {}
    /\ parked # 0 => closing = {}
    /\ report.due => linked
    /\ up = "up" /\ (~linked \/ report.due) => rec = NoRec
    /\ up = "up" /\ parked # 0 => ~linked \/ report.due

LaneInv == StopInv /\ BusyInv /\ DownInv /\ TokensInv /\ LinkInv /\ TurnIsRecorded

laneVars == <<record, linkVars, up, pumps, top, parked, waiting, closing, rec, restarts>>

LEMMA LaneFrame ==
    ASSUME TokensInv, LinkInv, StopInv, TurnIsRecorded, UNCHANGED laneVars
    PROVE  TokensInv' /\ LinkInv' /\ StopInv' /\ TurnIsRecorded'
<1> USE DEF laneVars, linkVars
<1>1. TokensInv'
  BY DEF TokensInv, Cuts
<1>2. LinkInv'
  BY DEF LinkInv
<1>3. StopInv' /\ TurnIsRecorded'
  BY DEF StopInv, TurnIsRecorded
<1> QED
  BY <1>1, <1>2, <1>3

\* The steps that leave the lane alone.
LEMMA QuietSteps ==
    ASSUME NEW r \in Runs,
           \/ Fire(r) \/ Admit(r) \/ Gate(r) \/ Prepare(r) \/ StartFails(r) \/ Begin(r)
           \/ Broken(r) \/ Judge(r) \/ Stamped(r) \/ Deliver(r) \/ EndFails(r)
           \/ Close(r) \/ Shut(r) \/ Tell(r) \/ Frame(r) \/ Hear(r)
           \/ (\E w \in Live \cup Final \cup {"session"} : Land(r, w))
           \/ (\E who \in {"user", "platform"} : Stop(r, who))
           \/ Finish \/ SatDies \/ FailRun(r) \/ FailReports(r)
    PROVE  UNCHANGED laneVars
<1> USE DEF laneVars, linkVars, chatVars, turnVars, recVars, pastVars, Fault
<1>1. CASE Fire(r) \/ Admit(r) \/ Gate(r) \/ Prepare(r)
  BY <1>1 DEF Fire, Admit, Gate, Prepare
<1>2. CASE StartFails(r) \/ Begin(r) \/ Broken(r) \/ Judge(r)
  BY <1>2 DEF StartFails, Begin, Broken, Judge
<1>3. CASE Stamped(r) \/ Deliver(r) \/ EndFails(r) \/ Close(r)
  BY <1>3 DEF Stamped, Deliver, EndFails, Close
<1>4. CASE Shut(r) \/ Tell(r) \/ Frame(r) \/ Hear(r)
  BY <1>4 DEF Shut, Tell, Frame, Hear
<1>5. CASE \E w \in Live \cup Final \cup {"session"} : Land(r, w)
  BY <1>5 DEF Land
<1>6. CASE \E who \in {"user", "platform"} : Stop(r, who)
  BY <1>6 DEF Stop
<1>7. CASE Finish \/ SatDies \/ FailRun(r) \/ FailReports(r)
  BY <1>7 DEF Finish, SatDies, FailRun, FailReports
<1> QED
  BY <1>1, <1>2, <1>3, <1>4, <1>5, <1>6, <1>7

LEMMA BusyStep == ASSUME TypeOK, BusyInv, [Next]_vars PROVE BusyInv'
<1> USE DEF BusyInv
<1>1. ASSUME UNCHANGED satVars PROVE BusyInv'
  BY <1>1 DEF satVars
<1>2. ASSUME NEW r \in Runs, Drive(r) \/ Begin(r) \/ Shut(r) PROVE BusyInv'
  <2>1. CASE Drive(r)
    BY <2>1 DEF Drive
  <2>2. CASE Begin(r)
    BY <2>2, RunBoundsAssumption DEF Begin, Runs
  <2>3. CASE Shut(r)
    BY <2>3 DEF Shut, CloseSession
  <2> QED
    BY <1>2, <2>1, <2>2, <2>3
<1>3. CASE Finish \/ SatDies
  BY <1>3 DEF Finish, SatDies
<1>4. CASE Alive
  BY <1>4 DEF Alive
<1>5. ASSUME NEW r \in Runs, Fire(r) \/ RunnerStep(r) \/ StartFails(r) \/ EndFails(r) \/ Hear(r)
      PROVE  BusyInv'
  <2>1. CASE Fire(r) \/ StartFails(r) \/ EndFails(r) \/ Hear(r)
    BY <1>1, <2>1 DEF Fire, StartFails, EndFails, Hear
  <2>2. CASE Admit(r) \/ Gate(r) \/ Prepare(r) \/ Result(r) \/ Broken(r) \/ PumpEnds(r)
    BY <1>1, <2>2 DEF Admit, Gate, Prepare, Result, Broken, PumpEnds
  <2>3. CASE Reaped(r) \/ Judge(r) \/ Stamped(r) \/ Deliver(r) \/ Close(r)
    BY <1>1, <2>3 DEF Reaped, Judge, Stamped, Deliver, Close, satVars
  <2>4. CASE Tell(r) \/ Frame(r)
    BY <1>1, <2>4 DEF Tell, Frame
  <2> QED
    BY <1>2, <1>5, <2>1, <2>2, <2>3, <2>4 DEF RunnerStep
<1>6. ASSUME NEW r \in Runs, NEW w, Land(r, w) PROVE BusyInv'
  BY <1>1, <1>6 DEF Land
<1>7. ASSUME NEW r \in Runs, NEW who, Stop(r, who) PROVE BusyInv'
  BY <1>1, <1>7 DEF Stop
<1>8. CASE Crash \/ Shutdown \/ Exit \/ Boot
  BY <1>1, <1>8 DEF Crash, Shutdown, Exit, Boot
<1>9. CASE Connect \/ RecUnanswered \/ Sweep
  BY <1>1, <1>9 DEF Connect, RecUnanswered, Sweep
<1>10. CASE RecoverStep
  <2>1. CASE RecSkips \/ RecStarts \/ RecTakes \/ RecBegins \/ RecEnds
    BY <1>1, <2>1 DEF RecSkips, RecStarts, RecTakes, RecBegins, RecEnds
  <2>2. CASE RecFinal \/ RecReports \/ Settle
    BY <1>1, <2>2 DEF RecFinal, RecReports, Settle
  <2>3. CASE \E p \in Pumps : CloseCut(p)
    BY <1>1, <2>3 DEF CloseCut
  <2>4. CASE \E r \in Runs : FailRun(r) \/ FailReports(r)
    BY <1>1, <2>4 DEF FailRun, FailReports
  <2> QED
    BY <1>10, <2>1, <2>2, <2>3, <2>4 DEF RecoverStep
<1>11. CASE UNCHANGED vars
  BY <1>1, <1>11 DEF vars
<1> QED
  BY <1>3, <1>4, <1>5, <1>6, <1>7, <1>8, <1>9, <1>10, <1>11 DEF Next

\* A runner's steps are the process's.
LEMMA RunnerUp ==
    ASSUME NEW r \in Runs,
           \/ Fire(r) \/ RunnerStep(r) \/ StartFails(r) \/ EndFails(r) \/ Hear(r)
           \/ (\E w \in Live \cup Final \cup {"session"} : Land(r, w))
           \/ (\E who \in {"user", "platform"} : Stop(r, who))
    PROVE  up # "down" /\ UNCHANGED up
<1> USE DEF At
<1>1. CASE Fire(r) \/ StartFails(r) \/ EndFails(r) \/ Hear(r)
  BY <1>1 DEF Fire, StartFails, EndFails, Hear
<1>2. CASE Admit(r) \/ Gate(r) \/ Prepare(r) \/ Drive(r) \/ Begin(r)
  BY <1>2 DEF Admit, Gate, Prepare, Drive, Begin
<1>3. CASE Result(r) \/ Broken(r) \/ PumpEnds(r) \/ Reaped(r) \/ Judge(r)
  BY <1>3 DEF Result, Broken, PumpEnds, Reaped, Judge
<1>4. CASE Stamped(r) \/ Deliver(r) \/ Close(r) \/ Shut(r) \/ Tell(r) \/ Frame(r)
  BY <1>4 DEF Stamped, Deliver, Close, Shut, Tell, Frame
<1>5. CASE \E w \in Live \cup Final \cup {"session"} : Land(r, w)
  BY <1>5 DEF Land
<1>6. CASE \E who \in {"user", "platform"} : Stop(r, who)
  BY <1>6 DEF Stop
<1> QED
  BY <1>1, <1>2, <1>3, <1>4, <1>5, <1>6 DEF RunnerStep

\* Whoever takes a step while the process is down is the boot or the machine.
LEMMA DownStep == ASSUME TypeOK, DownInv, [Next]_vars PROVE DownInv'
<1>1. ASSUME up # "down", UNCHANGED up PROVE DownInv'
  BY <1>1 DEF DownInv
<1>2. ASSUME NEW r \in Runs,
             \/ Fire(r) \/ RunnerStep(r) \/ StartFails(r) \/ EndFails(r) \/ Hear(r)
             \/ (\E w \in Live \cup Final \cup {"session"} : Land(r, w))
             \/ (\E who \in {"user", "platform"} : Stop(r, who))
      PROVE  DownInv'
  BY <1>1, <1>2, RunnerUp
<1>5. CASE Finish \/ SatDies \/ UNCHANGED vars
  BY <1>5 DEF Finish, SatDies, vars, DownInv, taskVars, turnVars, recVars, linkVars, mailVars
<1>6. CASE Shutdown \/ Boot
  BY <1>6 DEF Shutdown, Boot, DownInv
<1>7. CASE Crash \/ Exit
  <2>1. Forget
    BY <1>7 DEF Crash, Exit
  <2>2. \A r \in Runs : pc'[r] \in {"none", "gone"} /\ writes'[r] = {} /\ mail'[r] = <<>>
    BY <2>1 DEF Forget
  <2>3. /\ pumps' = {} /\ top' = NoPump
        /\ parked' = 0 /\ waiting' = NoPump /\ closing' = {} /\ rec' = NoRec
        /\ failing' = {} /\ reporting' = {}
        /\ ended' = {} /\ told' = {} /\ ~linked'
    BY <2>1 DEF Forget
  <2> QED
    BY <2>2, <2>3 DEF DownInv
<1>8. CASE Connect \/ Alive \/ RecUnanswered \/ Sweep
  BY <1>1, <1>8 DEF Connect, Alive, RecUnanswered, Sweep
<1>9. CASE RecoverStep
  <2>1. CASE RecSkips \/ RecStarts \/ RecTakes \/ RecBegins \/ RecEnds
    BY <1>1, <2>1 DEF RecSkips, RecStarts, RecTakes, RecBegins, RecEnds
  <2>2. CASE RecFinal \/ RecReports \/ Settle
    BY <1>1, <2>2 DEF RecFinal, RecReports, Settle
  <2>3. CASE \E p \in Pumps : CloseCut(p)
    BY <1>1, <2>3 DEF CloseCut
  <2>4. CASE \E r \in Runs : FailRun(r) \/ FailReports(r)
    BY <1>1, <2>4 DEF FailRun, FailReports
  <2> QED
    BY <1>9, <2>1, <2>2, <2>3, <2>4 DEF RecoverStep
<1> QED
  BY <1>2, <1>5, <1>6, <1>7, <1>8, <1>9 DEF Next

\* A pump's token is a triple.
LEMMA TokenFacts ==
    ASSUME TypeOK
    PROVE  /\ restarts \in Nat
           /\ \A p \in Pumps : p[3] \in Nat
           /\ \A r \in Runs : RunPump(r)[3] = restarts
           /\ RecPump[3] = restarts
           /\ waiting \in Pumps \cup {NoPump} /\ rec.cut \in Pumps \cup {NoPump}
           /\ closing \subseteq Pumps /\ pumps \subseteq Pumps
           /\ record.pump \in Pumps \cup {NoPump}
           /\ NoRec.at = "none" /\ NoRecord.pump = NoPump
<1>1. restarts \in Nat /\ \A p \in Pumps : p[3] \in Nat
  BY RunBoundsAssumption DEF TypeOK, Pumps
<1>2. (\A r \in Runs : RunPump(r)[3] = restarts) /\ RecPump[3] = restarts
  BY DEF RunPump, RecPump
<1>3. waiting \in Pumps \cup {NoPump} /\ closing \subseteq Pumps /\ pumps \subseteq Pumps
  BY DEF TypeOK
<1>4. rec.cut \in Pumps \cup {NoPump} /\ record.pump \in Pumps \cup {NoPump}
  BY DEF TypeOK
<1>5. NoRec.at = "none" /\ NoRecord.pump = NoPump
  BY DEF NoRec, NoRecord
<1> QED
  BY <1>1, <1>2, <1>3, <1>4, <1>5

\* The runs' pumps.
LEMMA PumpSteps ==
    ASSUME TypeOK, LaneInv, NEW r \in Runs,
           Drive(r) \/ Result(r) \/ PumpEnds(r) \/ Reaped(r)
    PROVE  TokensInv' /\ LinkInv' /\ StopInv' /\ TurnIsRecorded'
<1> USE TokenFacts, TokenTypes DEF LaneInv, recVars, linkVars, pastVars
<1>1. CASE Drive(r)
  <2>1. TokensInv'
    BY <1>1 DEF Drive, StartPump, TokensInv, Cuts, At
  <2>2. LinkInv' /\ StopInv'
    BY <1>1 DEF Drive, StartPump, LinkInv, StopInv
  <2>3. TurnIsRecorded'
    BY <1>1 DEF Drive, StartPump, TurnIsRecorded
  <2> QED
    BY <2>1, <2>2, <2>3
<1>2. CASE Result(r)
  <2>1. record'.pump = record.pump
    BY <1>2 DEF Result, TypeOK
  <2>2. TokensInv' /\ TurnIsRecorded'
    BY <1>2, <2>1 DEF Result, TokensInv, Cuts, TurnIsRecorded
  <2>3. LinkInv' /\ StopInv'
    BY <1>2 DEF Result, LinkInv, StopInv
  <2> QED
    BY <2>2, <2>3
<1>3. CASE PumpEnds(r) \/ Reaped(r)
  <2>1. pumps' \subseteq pumps /\ RunPump(r) \notin pumps' /\ top' = top
    BY <1>3 DEF PumpEnds, Reaped, EndPump
  <2>2. record' = IF record.pump = RunPump(r) THEN NoRecord ELSE record
    BY <1>3 DEF PumpEnds, Reaped, EndPump
  <2>3. UNCHANGED <<recVars, linkVars, up, restarts>>
    BY <1>3 DEF PumpEnds, Reaped, EndPump
  <2>4. TokensInv'
    BY <2>1, <2>2, <2>3 DEF TokensInv, Cuts
  <2>5. LinkInv' /\ StopInv'
    BY <2>3 DEF LinkInv, StopInv
  <2>6. TurnIsRecorded'
    BY <2>1, <2>2 DEF TurnIsRecorded
  <2> QED
    BY <2>4, <2>5, <2>6
<1> QED
  BY <1>1, <1>2, <1>3

\* The end of a process, the boot, the link.
LEMMA RestartSteps ==
    ASSUME TypeOK, TypeOK', LaneInv, Crash \/ Shutdown \/ Exit \/ Boot \/ Connect \/ Alive \/ Sweep
    PROVE  TokensInv' /\ LinkInv' /\ StopInv' /\ TurnIsRecorded'
<1> USE TokenFacts DEF LaneInv
<1>1. CASE Crash \/ Exit
  <2>1. /\ pumps' = {} /\ top' = NoPump /\ parked' = 0 /\ waiting' = NoPump
        /\ closing' = {} /\ rec' = NoRec /\ ~linked' /\ ~report'.due /\ up' = "down"
    BY <1>1 DEF Crash, Exit, Forget, NoReport
  <2>2. record' = record /\ restarts' = restarts + 1
    BY <1>1 DEF Crash, Exit, chatVars
  <2>3. Cuts' = {NoPump}
    BY <2>1 DEF Cuts
  <2>4. TokensInv'
    BY <2>1, <2>2, <2>3 DEF TokensInv
  <2>5. LinkInv' /\ StopInv' /\ TurnIsRecorded'
    BY <2>1 DEF LinkInv, StopInv, TurnIsRecorded
  <2> QED
    BY <2>4, <2>5
<1>2. CASE Shutdown
  <2>1. /\ UNCHANGED <<pumps, top, parked, waiting, closing, rec, record, restarts>>
        /\ ~linked' /\ ~report'.due /\ up' = "stopping" /\ restarts < MaxRestarts
    BY <1>2 DEF Shutdown, NoReport, chatVars, recVars, turnVars, pastVars
  <2>2. TokensInv' /\ TurnIsRecorded' /\ StopInv'
    BY <2>1 DEF TokensInv, Cuts, TurnIsRecorded, StopInv
  <2>3. LinkInv'
    BY <2>1 DEF LinkInv
  <2> QED
    BY <2>2, <2>3
<1>3. CASE Boot
  <2>1. /\ pumps = {} /\ closing = {} /\ rec = NoRec /\ ~linked
        /\ UNCHANGED <<pumps, top, closing, rec, restarts, linked, report>> /\ up' = "up"
    BY <1>3 DEF Boot, DownInv, turnVars, linkVars
  <2>2. waiting' \in {NoPump, record.pump} /\ record' \in {NoRecord, record}
    BY <1>3 DEF Boot
  <2>3. Cuts' \subseteq {NoPump, record.pump}
    BY <2>1, <2>2 DEF Cuts
  <2>4. TokensInv'
    BY <1>3, <2>1, <2>2, <2>3 DEF TokensInv, Boot
  <2>5. LinkInv' /\ StopInv' /\ TurnIsRecorded'
    BY <2>1 DEF LinkInv, StopInv, TurnIsRecorded, NoRec
  <2> QED
    BY <2>4, <2>5
<1>4. CASE Connect
  <2>1. /\ UNCHANGED <<pumps, top, parked, waiting, closing, rec, record, restarts, up>>
        /\ linked' /\ up = "up" /\ ~linked
    BY <1>4 DEF Connect, chatVars, recVars, turnVars, pastVars
  <2>2. TokensInv' /\ TurnIsRecorded' /\ StopInv'
    BY <2>1 DEF TokensInv, Cuts, TurnIsRecorded, StopInv
  <2>3. report'.due
    BY <1>4 DEF Connect
  <2>4. LinkInv'
    BY <2>1, <2>3 DEF LinkInv
  <2> QED
    BY <2>2, <2>4
<1>5. CASE Alive
  <2>1. /\ UNCHANGED <<pumps, top, closing, record, restarts, up, linked>>
        /\ ~report'.due /\ up = "up" /\ report.due /\ linked /\ parked' = 0
    BY <1>5 DEF Alive, chatVars, pastVars, NoReport, LinkInv
  <2>2. rec = NoRec
    BY <2>1 DEF LinkInv
  <2>3. \/ rec' = NoRec /\ waiting' = waiting
        \/ /\ rec' = [NoRec EXCEPT !.at = "start", !.run = parked, !.cut = waiting]
           /\ waiting' = NoPump
    BY <1>5, <2>2 DEF Alive
  <2>4. \/ rec' = NoRec
        \/ rec'.at = "start" /\ rec'.run = parked /\ rec'.cut = waiting /\ waiting' = NoPump
    BY <2>3 DEF NoRec
  <2>5. Cuts' \subseteq {NoPump, waiting} \cup closing
    BY <2>1, <2>3, <2>4 DEF Cuts
  <2>6. waiting \in Cuts /\ closing \subseteq Cuts
    BY DEF Cuts
  <2>7. TokensInv'
    BY <2>1, <2>5, <2>6 DEF TokensInv
  <2>8. LinkInv'
    BY <2>1, <2>3, <2>4 DEF LinkInv
  <2>9. StopInv' /\ TurnIsRecorded'
    BY <2>1 DEF StopInv, TurnIsRecorded
  <2> QED
    BY <2>7, <2>8, <2>9
<1>6. CASE Sweep
  <2>1. /\ UNCHANGED <<pumps, top, waiting, closing, rec, record, restarts, up, linked, report>>
        /\ parked' = 0
    BY <1>6 DEF Sweep, chatVars, turnVars, pastVars, linkVars
  <2>2. TokensInv' /\ TurnIsRecorded' /\ StopInv'
    BY <2>1 DEF TokensInv, Cuts, TurnIsRecorded, StopInv
  <2>3. LinkInv'
    BY <2>1 DEF LinkInv
  <2> QED
    BY <2>2, <2>3
<1> QED
  BY <1>1, <1>2, <1>3, <1>4, <1>5, <1>6

\* The replay and the cut turns.
LEMMA ReplaySteps ==
    ASSUME TypeOK, LaneInv,
           \/ RecSkips \/ RecStarts \/ RecTakes \/ RecBegins \/ RecUnanswered \/ RecEnds
           \/ RecFinal \/ RecReports \/ Settle \/ (\E p \in Pumps : CloseCut(p))
    PROVE  TokensInv' /\ LinkInv' /\ StopInv' /\ TurnIsRecorded'
<1> USE TokenFacts DEF LaneInv, chatVars, turnVars, linkVars, recVars, pastVars
<1>1. ASSUME UNCHANGED <<pumps, top, record, waiting, closing, restarts, up>>,
             rec'.cut = rec.cut,
             rec'.at \in {"start", "taking", "asking"} => rec.at \in {"start", "taking", "asking"}
      PROVE  TokensInv' /\ TurnIsRecorded' /\ StopInv'
  BY <1>1 DEF TokensInv, Cuts, TurnIsRecorded, StopInv
<1>2. ASSUME UNCHANGED <<parked, waiting, closing, up, linked, report>>,
             rec.at # "none", rec' = NoRec
      PROVE  LinkInv'
  BY <1>2 DEF LinkInv
<1>3. ASSUME UNCHANGED <<parked, waiting, closing, up, linked, report>>,
             rec.at # "none", rec'.at # "none", rec'.run = rec.run, up = "up",
             rec'.at = "stamp" => rec.run # 0
      PROVE  LinkInv'
  BY <1>3 DEF LinkInv
<1>4. CASE RecSkips
  <2>1. UNCHANGED <<pumps, top, record, waiting, restarts, up, parked, linked, report>> /\ rec' = NoRec
    BY <1>4 DEF RecSkips
  <2>2. rec.at = "start" /\ (closing' = closing \/ closing' = closing \cup {rec.cut})
    BY <1>4 DEF RecSkips
  <2>3. Cuts' \subseteq Cuts
    BY <2>1, <2>2 DEF Cuts
  <2>4. TokensInv' /\ TurnIsRecorded' /\ StopInv'
    BY <2>1, <2>3 DEF TokensInv, TurnIsRecorded, StopInv
  <2>5. LinkInv'
    BY <2>1, <2>2 DEF LinkInv
  <2> QED
    BY <2>4, <2>5
<1>5. CASE RecStarts
  <2>1. UNCHANGED <<pumps, top, record, waiting, closing, restarts, up, parked, linked, report>> /\ up = "up"
    BY <1>5 DEF RecStarts
  <2>2. rec.at = "start" /\ rec'.at = "taking" /\ rec'.cut = rec.cut /\ rec'.run = rec.run
    BY <1>5 DEF RecStarts, TypeOK
  <2> QED
    BY <1>1, <1>3, <2>1, <2>2
<1>6. CASE RecTakes
  <2>1. UNCHANGED <<waiting, closing, restarts, up, parked, linked, report>> /\ up = "up"
    BY <1>6 DEF RecTakes
  <2>2. rec.at = "taking" /\ rec'.at = "asking" /\ rec'.cut = rec.cut /\ rec'.run = rec.run
    BY <1>6 DEF RecTakes, TypeOK
  <2>3. pumps' = pumps \cup {RecPump} /\ top' = RecPump /\ record'.pump = RecPump
    BY <1>6 DEF RecTakes, StartPump
  <2>4. Cuts' = Cuts
    BY <2>1, <2>2 DEF Cuts
  <2>5. TokensInv' /\ TurnIsRecorded' /\ StopInv'
    BY <2>1, <2>3, <2>4 DEF TokensInv, TurnIsRecorded, StopInv
  <2> QED
    BY <1>3, <2>1, <2>2, <2>5
<1>7. CASE RecBegins \/ RecUnanswered
  <2>1. UNCHANGED <<pumps, top, record, waiting, closing, restarts, up, parked, linked, report>> /\ up = "up"
    BY <1>7 DEF RecBegins, RecUnanswered
  <2>2. rec.at = "asking" /\ rec'.at = "following" /\ rec'.cut = rec.cut /\ rec'.run = rec.run
    BY <1>7 DEF RecBegins, RecUnanswered, TypeOK
  <2> QED
    BY <1>1, <1>3, <2>1, <2>2
<1>8. CASE RecEnds
  <2>1. UNCHANGED <<top, waiting, closing, restarts, up, parked, linked, report>> /\ up = "up"
    BY <1>8 DEF RecEnds
  <2>2. rec.at = "following" /\ rec'.at = "final" /\ rec'.run = rec.run
    BY <1>8 DEF RecEnds, TypeOK
  <2>3. pumps' = pumps \ {RecPump} /\ record' = IF record.pump = RecPump THEN NoRecord ELSE record
    BY <1>8 DEF RecEnds, EndPump
  <2>4. Cuts' \subseteq Cuts
    BY <2>1, <2>2 DEF Cuts
  <2>5. TokensInv' /\ TurnIsRecorded' /\ StopInv'
    BY <2>1, <2>3, <2>4 DEF TokensInv, TurnIsRecorded, StopInv
  <2> QED
    BY <1>3, <2>1, <2>2, <2>5
<1>9. CASE RecFinal \/ RecReports
  <2>1. UNCHANGED <<pumps, top, record, waiting, closing, restarts, up, parked, linked, report>> /\ up = "up"
    BY <1>9 DEF RecFinal, RecReports
  <2>2. rec.at \in {"final", "stamp"}
    BY <1>9 DEF RecFinal, RecReports
  <2>3. CASE rec' = NoRec
    <3>1. Cuts' \subseteq Cuts
      BY <2>1, <2>3 DEF Cuts
    <3>2. TokensInv' /\ TurnIsRecorded' /\ StopInv'
      BY <2>1, <3>1 DEF TokensInv, TurnIsRecorded, StopInv
    <3> QED
      BY <1>2, <2>1, <2>2, <2>3, <3>2
  <2>4. CASE rec' = [rec EXCEPT !.at = "stamp"] /\ rec.run # 0
    <3>1. rec'.at = "stamp" /\ rec'.run = rec.run /\ rec'.cut = rec.cut
      BY <2>4 DEF TypeOK
    <3> QED
      BY <1>1, <1>3, <2>1, <2>2, <2>4, <3>1
  <2> QED
    BY <1>9, <2>3, <2>4 DEF RecFinal, RecReports
<1>10. CASE Settle
  <2>1. UNCHANGED <<pumps, top, record, rec, restarts, up, parked, linked, report>>
    BY <1>10 DEF Settle
  <2>2. waiting' = NoPump /\ waiting # NoPump /\ closing' = closing \cup {waiting} /\ parked = 0
    BY <1>10 DEF Settle
  <2>3. Cuts' \subseteq Cuts \cup {NoPump}
    BY <2>1, <2>2 DEF Cuts
  <2>4. TokensInv' /\ TurnIsRecorded' /\ StopInv'
    BY <2>1, <2>3 DEF TokensInv, TurnIsRecorded, StopInv
  <2>5. LinkInv'
    BY <2>1, <2>2 DEF LinkInv
  <2> QED
    BY <2>4, <2>5
<1>11. ASSUME NEW p \in Pumps, CloseCut(p)
       PROVE  TokensInv' /\ LinkInv' /\ StopInv' /\ TurnIsRecorded'
  <2>1. UNCHANGED <<pumps, top, rec, restarts, up, parked, waiting, linked, report>>
        /\ closing' = closing \ {p} /\ p \in closing
    BY <1>11 DEF CloseCut
  <2>2. record' = IF record.pump = p THEN NoRecord ELSE record
    BY <1>11, TokenTypes DEF CloseCut, Holds
  <2>3. Cuts' \subseteq Cuts /\ p \in Cuts
    BY <2>1 DEF Cuts
  <2>4. p # NoPump
    BY TokenTypes
  <2>5. top \in pumps => record.pump # p
    BY <2>3, <2>4 DEF TokensInv, TurnIsRecorded
  <2>6. TokensInv' /\ TurnIsRecorded' /\ StopInv'
    BY <2>1, <2>2, <2>3, <2>5 DEF TokensInv, TurnIsRecorded, StopInv
  <2>7. LinkInv'
    BY <2>1 DEF LinkInv
  <2> QED
    BY <2>6, <2>7
<1> QED
  BY <1>4, <1>5, <1>6, <1>7, <1>8, <1>9, <1>10, <1>11

\* Types and the lane, at every step.
LEMMA LaneStep == ASSUME TypeOK, LaneInv, [Next]_vars PROVE TypeOK' /\ LaneInv'
<1> USE DEF LaneInv
<1>1. TypeOK'
  <2>1. CASE UNCHANGED vars
    BY <2>1, TypeParts, FrameTypes DEF Types, vars, linkVars
  <2> QED
    BY <2>1, RunnerTypes, LandTypes, StopTypes, MachineTypes, RestartTypes, RecoverTypes DEF Next
<1>2. DownInv' /\ BusyInv'
  BY DownStep, BusyStep
<1>3. ASSUME UNCHANGED laneVars PROVE LaneInv'
  BY <1>2, <1>3, LaneFrame
<1>4. CASE UNCHANGED vars
  BY <1>1, <1>3, <1>4 DEF vars, laneVars, chatVars, linkVars, turnVars, recVars, pastVars
<1>5. ASSUME NEW r \in Runs, Fire(r) \/ RunnerStep(r) \/ StartFails(r) \/ EndFails(r) \/ Hear(r)
      PROVE  LaneInv'
  <2>1. CASE Drive(r) \/ Result(r) \/ PumpEnds(r) \/ Reaped(r)
    BY <1>2, <2>1, PumpSteps
  <2> QED
    BY <1>3, <1>5, <2>1, QuietSteps DEF RunnerStep
<1>6. CASE \E r \in Runs, w \in Live \cup Final \cup {"session"} : Land(r, w)
  BY <1>1, <1>3, <1>6, QuietSteps
<1>7. CASE \E r \in Runs, who \in {"user", "platform"} : Stop(r, who)
  BY <1>1, <1>3, <1>7, QuietSteps
<1>8. CASE Finish \/ SatDies
  <2>1. 1 \in Runs
    BY RunBoundsAssumption DEF Runs
  <2> QED
    BY <1>1, <1>3, <1>8, <2>1, QuietSteps
<1>9. CASE Crash \/ Shutdown \/ Exit \/ Boot \/ Connect \/ Alive \/ Sweep
  BY <1>1, <1>2, <1>9, RestartSteps
<1>10. CASE RecoverStep \/ RecUnanswered
  <2>1. ASSUME NEW r \in Runs, FailRun(r) \/ FailReports(r) PROVE LaneInv'
    BY <1>3, <2>1, QuietSteps
  <2>2. CASE \/ RecSkips \/ RecStarts \/ RecTakes \/ RecBegins \/ RecUnanswered \/ RecEnds
             \/ RecFinal \/ RecReports \/ Settle \/ (\E p \in Pumps : CloseCut(p))
    BY <1>1, <1>2, <2>2, ReplaySteps
  <2> QED
    BY <1>1, <1>10, <2>1, <2>2 DEF RecoverStep
<1> QED
  BY <1>1, <1>4, <1>5, <1>6, <1>7, <1>8, <1>9, <1>10 DEF Next

LEMMA InitLane == Init => LaneInv
<1> SUFFICES ASSUME Init PROVE LaneInv
  OBVIOUS
<1>1. /\ up = "up" /\ ~busy /\ pumps = {} /\ parked = 0 /\ waiting = NoPump /\ closing = {}
      /\ rec = NoRec /\ NoRec.at = "none" /\ ~report.due /\ record.pump = NoPump /\ linked
  BY DEF Init, NoRec, NoReport, NoRecord
<1>2. Cuts = {NoPump}
  BY <1>1 DEF Cuts
<1> QED
  BY <1>1, <1>2 DEF LaneInv, StopInv, BusyInv, DownInv, TokensInv, LinkInv, TurnIsRecorded

LEMMA LaneInvariance == Spec => [](TypeOK /\ LaneInv)
<1>1. Init => TypeOK /\ LaneInv
  BY InitTypes, InitLane
<1>2. TypeOK /\ LaneInv /\ [Next]_vars => (TypeOK /\ LaneInv)'
  BY LaneStep
<1> QED
  BY <1>1, <1>2, PTL DEF Spec

\* Every variable keeps its type, in every run of a lane of any length, with
\* any number of restarts and faults.
THEOREM LaneTypes == Spec => []TypeOK
BY LaneInvariance, PTL

\* The turn in progress has the chat's open-turn record, whatever closes,
\* sweeps or takes the cut turns of earlier processes (open_turns.py: "A newer
\* turn's row (another token) stays").
THEOREM OpenTurnIsKept == Spec => []TurnIsRecorded
<1>1. TypeOK /\ LaneInv => TurnIsRecorded
  BY DEF LaneInv
<1> QED
  BY <1>1, LaneInvariance, PTL

-----------------------------------------------------------------------------
(* One run: its task, its row and its report *)

\* The verdict that the run's own pump gave it.
Verdict(r) == IF outcome[r] = "ok" THEN "completed" ELSE "failed"

\* A report is on its way or was heard.
Reported(r) == heard[r] # <<>> \/ mail[r] # <<>>

\* Recovery will not take the run up at the next boot.
Settled(r) == row[r] \in Final \/ (r \notin stamped /\ "session" \notin writes[r])

\* The places recovery has for a run.
Replayed(r) == rec.at # "none" /\ rec.run = r
Recovering(r) == parked = r \/ r \in failing \/ r \in reporting \/ Replayed(r)

\* Before its turn, the run has no pump.
Early == {"none", "queued", "admitting", "opening", "spawning"}

\* Where the run's task stands, and what is under way for its row.
TaskInv(r) ==
    /\ pc[r] = "none" <=> row[r] = "none"
    /\ pc[r] \in {"none", "queued"} => writes[r] = {}
    /\ pc[r] = "queued" => row[r] = "pending"
    /\ pc[r] \in Body => writes[r] \subseteq Awaited(r)
    /\ pc[r] = "stamping" => Verdict(r) \in writes[r] \/ row[r] = Verdict(r)
    /\ pc[r] \in {"stamping", "delivering", "closing"} => RunPump(r) \notin pumps
    /\ pc[r] \in Early => RunPump(r) \notin pumps
    /\ pc[r] \in Handler => cause[r] # "none"
    /\ pc[r] \in {"none", "queued", "admitting"} => r \notin stamped /\ "session" \notin writes[r]
    /\ "running" \in writes[r] => r \notin stamped /\ "session" \notin writes[r]
    /\ "pending" \notin writes[r]

\* Past its verdict, the row holds it and nothing else is written.
EndedInv(r) ==
    /\ r \in ended =>
           /\ pc[r] \in {"delivering", "closing", "shutting", "telling", "frame", "gone"}
           /\ row[r] = Verdict(r) /\ writes[r] = {}
           /\ RunPump(r) \notin pumps
    /\ pc[r] \in {"delivering", "closing", "shutting"} => r \in ended
    /\ pc[r] = "closing" => r \in told
    /\ pc[r] = "delivering" => r \notin told
    /\ r \in told => r \in ended /\ Reported(r)

\* A run that fails before its verdict has the failed row before it says so.
FailedInv(r) ==
    pc[r] \in {"ending", "telling"} /\ cause[r] = "error" /\ r \notin ended =>
        /\ writes[r] \subseteq {"failed"}
        /\ "failed" \in writes[r] \/ row[r] = "failed"
        /\ pc[r] = "telling" => "failed" \notin writes[r]

\* What was reported is settled, once, and what the words say.
ReportInv(r) ==
    /\ pc[r] = "ending" => Awaited(r) \cap writes[r] # {} \/ Settled(r)
    /\ pc[r] \in {"shutting", "telling"} \/ Reported(r) => Settled(r)
    /\ pc[r] # "gone" /\ r \notin told => ~Reported(r)
    /\ Len(heard[r]) + Len(mail[r]) <= 1
    /\ \A w \in Reports(r) \cap {"completed", "failed"} : row[r] = w /\ writes[r] = {}

\* A run that recovery has in hand left its runner behind and is unreported.
RecoverInv(r) ==
    /\ Recovering(r) => pc[r] = "gone" /\ ~Reported(r)
    /\ parked = r \/ r \in failing \/ (Replayed(r) /\ rec.at # "stamp") =>
           row[r] \in Live /\ r \in stamped /\ writes[r] = {}
    /\ r \in reporting => row[r] = "failed" /\ writes[r] = {}
    /\ Replayed(r) /\ rec.at = "stamp" =>
           writes[r] \subseteq {RecWord} /\ (RecWord \in writes[r] \/ row[r] = RecWord)
    /\ parked = r => r \notin failing /\ r \notin reporting /\ ~Replayed(r)
    /\ r \in failing => r \notin reporting /\ ~Replayed(r)
    /\ r \in reporting => ~Replayed(r)

RunInv(r) == TaskInv(r) /\ EndedInv(r) /\ FailedInv(r) /\ ReportInv(r) /\ RecoverInv(r)

RunsInv == \A r \in Runs : RunInv(r)

\* A step that leaves run r, its pump and its reports ...
TaskKept(r) ==
    /\ row'[r] = row[r] /\ (r \in stamped' <=> r \in stamped)
    /\ pc'[r] = pc[r] /\ cause'[r] = cause[r] /\ writes'[r] = writes[r]
    /\ (r \in ended' <=> r \in ended) /\ (r \in told' <=> r \in told)
    /\ outcome'[r] = outcome[r]
    /\ (RunPump(r) \in pumps)' <=> RunPump(r) \in pumps
    /\ mail'[r] = mail[r] /\ heard'[r] = heard[r]

\* ... and its place in recovery.
PlaceKept(r) ==
    /\ parked' = r <=> parked = r
    /\ (r \in failing' <=> r \in failing) /\ (r \in reporting' <=> r \in reporting)
    /\ rec' = rec \/ (~Replayed(r) /\ ~Replayed(r)')

Kept(r) == TaskKept(r) /\ PlaceKept(r)

LEMMA TaskKeptRun ==
    ASSUME NEW r \in Runs, RunInv(r), TaskKept(r)
    PROVE  TaskInv(r)' /\ EndedInv(r)' /\ FailedInv(r)' /\ ReportInv(r)'
<1> USE DEF RunInv, TaskKept
<1>1. /\ Awaited(r)' = Awaited(r) /\ Verdict(r)' = Verdict(r)
      /\ Reported(r)' = Reported(r) /\ Reports(r)' = Reports(r)
  BY DEF Awaited, Verdict, Reported, Reports
<1>2. TaskInv(r)'
  BY <1>1 DEF TaskInv
<1>3. EndedInv(r)'
  BY <1>1 DEF EndedInv
<1>4. FailedInv(r)'
  BY DEF FailedInv
<1>5. ReportInv(r)'
  BY <1>1 DEF ReportInv, Settled
<1> QED
  BY <1>2, <1>3, <1>4, <1>5

LEMMA KeptRun == ASSUME NEW r \in Runs, RunInv(r), Kept(r) PROVE RunInv(r)'
<1> USE DEF Kept, PlaceKept
<1>1. RecoverInv(r)'
  <2>1. CASE rec' = rec
    BY <2>1 DEF TaskKept, RunInv, RecoverInv, Recovering, Replayed, Reported, RecWord
  <2>2. CASE ~Replayed(r) /\ ~Replayed(r)'
    BY <2>2 DEF TaskKept, RunInv, RecoverInv, Recovering, Reported
  <2> QED
    BY <2>1, <2>2
<1> QED
  BY <1>1, TaskKeptRun DEF RunInv

\* The step of one run's runner is nothing to the others.
LEMMA OthersKept ==
    ASSUME TypeOK, NEW q \in Runs, NEW r \in Runs, r # q,
           \/ Fire(q) \/ RunnerStep(q) \/ StartFails(q) \/ EndFails(q) \/ Hear(q)
           \/ (\E w \in Live \cup Final \cup {"session"} : Land(q, w))
           \/ (\E who \in {"user", "platform"} : Stop(q, who))
    PROVE  Kept(r)
<1> USE DEF Kept, TaskKept, PlaceKept, rowVars, taskVars, turnVars, recVars, mailVars, pastVars, RunPump
<1> USE DEF TypeOK, Go, Hop, Leave, Post, Fail, Fault
<1>1. CASE Fire(q) \/ Admit(q) \/ Gate(q)
  <2>1. CASE Fire(q)
    BY <2>1 DEF Fire
  <2>2. CASE Admit(q)
    BY <2>2 DEF Admit
  <2>3. CASE Gate(q)
    BY <2>3 DEF Gate
  <2> QED
    BY <1>1, <2>1, <2>2, <2>3
<1>2. CASE Prepare(q) \/ Stamped(q) \/ Close(q)
  <2>1. CASE Prepare(q)
    BY <2>1 DEF Prepare
  <2>2. CASE Stamped(q)
    BY <2>2 DEF Stamped
  <2>3. CASE Close(q)
    BY <2>3 DEF Close
  <2> QED
    BY <1>2, <2>1, <2>2, <2>3
<1>3. CASE Drive(q)
  BY <1>3 DEF Drive, StartPump
<1>4. CASE StartFails(q)
  BY <1>4 DEF StartFails
<1>5. CASE EndFails(q)
  BY <1>5 DEF EndFails
<1>6. CASE Begin(q) \/ Result(q) \/ Broken(q)
  BY <1>6 DEF Begin, Result, Broken
<1>7. CASE PumpEnds(q)
  BY <1>7 DEF PumpEnds, EndPump
<1>8. CASE Reaped(q)
  BY <1>8 DEF Reaped, EndPump
<1>9. CASE Judge(q) \/ Deliver(q)
  BY <1>9 DEF Judge, Deliver
<1>10. CASE Shut(q)
  BY <1>10 DEF Shut
<1>11. CASE Tell(q)
  <2>1. mail'[r] = mail[r]
    BY <1>11 DEF Tell
  <2> HIDE DEF Post
  <2> QED
    BY <1>11, <2>1 DEF Tell
<1>15. CASE Hear(q)
  <2>1. mail'[r] = mail[r] /\ heard'[r] = heard[r]
    BY <1>15 DEF Hear
  <2> QED
    BY <1>15, <2>1 DEF Hear
<1>12. CASE Frame(q)
  BY <1>12 DEF Frame
<1>13. CASE \E w \in Live \cup Final \cup {"session"} : Land(q, w)
  BY <1>13 DEF Land
<1>14. CASE \E who \in {"user", "platform"} : Stop(q, who)
  BY <1>14 DEF Stop
<1> QED
  BY <1>1, <1>2, <1>3, <1>4, <1>5, <1>6, <1>7, <1>8, <1>9, <1>10, <1>11, <1>12, <1>13,
     <1>14, <1>15 DEF RunnerStep

\* Before its first report nothing was said of a run.
LEMMA SilentRun ==
    ASSUME TypeOK, NEW r \in Runs, ~Reported(r)
    PROVE  Reports(r) = {} /\ Len(heard[r]) = 0 /\ Len(mail[r]) = 0
<1>1. heard[r] = <<>> /\ mail[r] = <<>>
  BY DEF Reported
<1>2. DOMAIN heard[r] = {} /\ DOMAIN mail[r] = {}
  BY <1>1
<1> QED
  BY <1>1, <1>2 DEF Reports

LEMMA FireRun == ASSUME TypeOK, NEW r \in Runs, RunInv(r), Fire(r) PROVE RunInv(r)'
<1> USE DEF rowVars, taskVars, turnVars, recVars, mailVars, pastVars
<1>1. /\ pc[r] = "none" /\ pc'[r] = "queued" /\ row'[r] = "pending"
  BY DEF Fire, TypeOK, Go, RunInv, TaskInv
<1>2. UNCHANGED <<stamped, cause, writes, ended, told, turnVars, recVars, mailVars, pastVars>>
  BY DEF Fire
<1> USE DEF RunInv
<1>3. /\ Reports(r)' = Reports(r) /\ Reported(r)' = Reported(r)
      /\ ~Reported(r) => Reports(r) = {}
  BY <1>2, SilentRun DEF Reports, Reported
<1>4. TaskInv(r)'
  BY <1>1, <1>2 DEF TaskInv, Awaited, Verdict, Body, Handler, Early, RunPump, Final
<1>5. EndedInv(r)'
  BY <1>1, <1>2 DEF TaskInv, EndedInv, Awaited, Verdict, Reported, RunPump, Body
<1>6. FailedInv(r)'
  BY <1>1, <1>2 DEF TaskInv, EndedInv, FailedInv, Awaited, Body, Handler
<1>7. ReportInv(r)'
  BY <1>1, <1>2, <1>3 DEF TaskInv, EndedInv, ReportInv, Settled, Awaited, Final, Verdict, Body
<1>8. RecoverInv(r)'
  BY <1>1, <1>2 DEF TaskInv, EndedInv, RecoverInv, Recovering, Replayed, Reported, RecWord
<1> QED
  BY <1>4, <1>5, <1>6, <1>7, <1>8

LEMMA AdmitRun == ASSUME TypeOK, NEW r \in Runs, RunInv(r), Admit(r) PROVE RunInv(r)'
<1> USE DEF rowVars, taskVars, turnVars, recVars, mailVars, pastVars
<1>1. /\ pc[r] = "queued" /\ pc'[r] = "admitting"
      /\ writes'[r] = writes[r] \cup {"running"}
  BY DEF Admit, TypeOK, At, Go, Hop
<1>2. UNCHANGED <<rowVars, cause, ended, told, turnVars, recVars, mailVars, pastVars>>
  BY DEF Admit
<1> USE DEF RunInv
<1>3. /\ Reports(r)' = Reports(r) /\ Reported(r)' = Reported(r)
      /\ ~Reported(r) => Reports(r) = {}
  BY <1>2, SilentRun DEF Reports, Reported
<1>4. TaskInv(r)'
  BY <1>1, <1>2 DEF TaskInv, Awaited, Verdict, Body, Handler, Early, RunPump, Final
<1>5. EndedInv(r)'
  BY <1>1, <1>2 DEF TaskInv, EndedInv, Awaited, Verdict, Reported, RunPump, Body
<1>6. FailedInv(r)'
  BY <1>1, <1>2 DEF TaskInv, EndedInv, FailedInv, Awaited, Body, Handler
<1>7. ReportInv(r)'
  BY <1>1, <1>2, <1>3 DEF TaskInv, EndedInv, ReportInv, Settled, Awaited, Final, Verdict, Body
<1>8. RecoverInv(r)'
  BY <1>1, <1>2 DEF TaskInv, EndedInv, RecoverInv, Recovering, Replayed, Reported, RecWord
<1> QED
  BY <1>4, <1>5, <1>6, <1>7, <1>8

LEMMA GateRun == ASSUME TypeOK, NEW r \in Runs, RunInv(r), Gate(r) PROVE RunInv(r)'
<1> USE DEF rowVars, taskVars, turnVars, recVars, mailVars, pastVars
<1>1. /\ pc[r] = "admitting" /\ pc'[r] = "opening"
      /\ "running" \notin writes[r] /\ writes'[r] = writes[r] \cup {"session"}
  BY DEF Gate, TypeOK, At, Go, Hop, Back, Awaited
<1>2. UNCHANGED <<rowVars, cause, ended, told, turnVars, recVars, mailVars, pastVars>>
  BY DEF Gate
<1> USE DEF RunInv
<1>3. /\ Reports(r)' = Reports(r) /\ Reported(r)' = Reported(r)
      /\ ~Reported(r) => Reports(r) = {}
  BY <1>2, SilentRun DEF Reports, Reported
<1>4. TaskInv(r)'
  BY <1>1, <1>2 DEF TaskInv, Awaited, Verdict, Body, Handler, Early, RunPump, Final
<1>5. EndedInv(r)'
  BY <1>1, <1>2 DEF TaskInv, EndedInv, Awaited, Verdict, Reported, RunPump, Body
<1>6. FailedInv(r)'
  BY <1>1, <1>2 DEF TaskInv, EndedInv, FailedInv, Awaited, Body, Handler
<1>7. ReportInv(r)'
  BY <1>1, <1>2, <1>3 DEF TaskInv, EndedInv, ReportInv, Settled, Awaited, Final, Verdict, Body
<1>8. RecoverInv(r)'
  BY <1>1, <1>2 DEF TaskInv, EndedInv, RecoverInv, Recovering, Replayed, Reported, RecWord
<1> QED
  BY <1>4, <1>5, <1>6, <1>7, <1>8

LEMMA PrepareRun == ASSUME TypeOK, NEW r \in Runs, RunInv(r), Prepare(r) PROVE RunInv(r)'
<1> USE DEF rowVars, taskVars, turnVars, recVars, mailVars, pastVars
<1>1. /\ pc[r] = "opening" /\ pc'[r] = "spawning"
      /\ "session" \notin writes[r]
  BY DEF Prepare, TypeOK, At, Go, Back, Awaited
<1>2. UNCHANGED <<rowVars, cause, writes, ended, told, turnVars, recVars, mailVars, pastVars>>
  BY DEF Prepare
<1> USE DEF RunInv
<1>3. /\ Reports(r)' = Reports(r) /\ Reported(r)' = Reported(r)
      /\ ~Reported(r) => Reports(r) = {}
  BY <1>2, SilentRun DEF Reports, Reported
<1>4. TaskInv(r)'
  BY <1>1, <1>2 DEF TaskInv, Awaited, Verdict, Body, Handler, Early, RunPump, Final
<1>5. EndedInv(r)'
  BY <1>1, <1>2 DEF TaskInv, EndedInv, Awaited, Verdict, Reported, RunPump, Body
<1>6. FailedInv(r)'
  BY <1>1, <1>2 DEF TaskInv, EndedInv, FailedInv, Awaited, Body, Handler
<1>7. ReportInv(r)'
  BY <1>1, <1>2, <1>3 DEF TaskInv, EndedInv, ReportInv, Settled, Awaited, Final, Verdict, Body
<1>8. RecoverInv(r)'
  BY <1>1, <1>2 DEF TaskInv, EndedInv, RecoverInv, Recovering, Replayed, Reported, RecWord
<1> QED
  BY <1>4, <1>5, <1>6, <1>7, <1>8

LEMMA DriveRun == ASSUME TypeOK, NEW r \in Runs, RunInv(r), Drive(r) PROVE RunInv(r)'
<1> USE DEF rowVars, taskVars, turnVars, recVars, mailVars, pastVars
<1>1. /\ pc[r] = "spawning" /\ pc'[r] = "turn"
  BY DEF Drive, TypeOK, At, Go
<1>2. UNCHANGED <<rowVars, cause, writes, ended, told, outcome, recVars, mailVars, pastVars>>
  BY DEF Drive
<1> USE DEF RunInv
<1>3. /\ Reports(r)' = Reports(r) /\ Reported(r)' = Reported(r)
      /\ ~Reported(r) => Reports(r) = {}
  BY <1>2, SilentRun DEF Reports, Reported
<1>4. TaskInv(r)'
  BY <1>1, <1>2 DEF TaskInv, Awaited, Verdict, Body, Handler, Early, RunPump, Final
<1>5. EndedInv(r)'
  BY <1>1, <1>2 DEF TaskInv, EndedInv, Awaited, Verdict, Reported, RunPump, Body
<1>6. FailedInv(r)'
  BY <1>1, <1>2 DEF TaskInv, EndedInv, FailedInv, Awaited, Body, Handler
<1>7. ReportInv(r)'
  BY <1>1, <1>2, <1>3 DEF TaskInv, EndedInv, ReportInv, Settled, Awaited, Final, Verdict, Body
<1>8. RecoverInv(r)'
  BY <1>1, <1>2 DEF TaskInv, EndedInv, RecoverInv, Recovering, Replayed, Reported, RecWord
<1> QED
  BY <1>4, <1>5, <1>6, <1>7, <1>8

LEMMA JudgeRun == ASSUME TypeOK, NEW r \in Runs, RunInv(r), Judge(r) PROVE RunInv(r)'
<1> USE DEF rowVars, taskVars, turnVars, recVars, mailVars, pastVars
<1>1. /\ pc[r] = "turn" /\ pc'[r] = "stamping" /\ RunPump(r) \notin pumps
      /\ writes'[r] = writes[r] \cup {Verdict(r)}
  BY DEF Judge, TypeOK, At, Go, Hop, Verdict
<1>2. UNCHANGED <<rowVars, cause, ended, told, turnVars, recVars, mailVars, pastVars>>
  BY DEF Judge
<1> USE DEF RunInv
<1>3. /\ Reports(r)' = Reports(r) /\ Reported(r)' = Reported(r)
      /\ ~Reported(r) => Reports(r) = {}
  BY <1>2, SilentRun DEF Reports, Reported
<1>4. TaskInv(r)'
  BY <1>1, <1>2 DEF TaskInv, Awaited, Verdict, Body, Handler, Early, RunPump, Final
<1>5. EndedInv(r)'
  BY <1>1, <1>2 DEF TaskInv, EndedInv, Awaited, Verdict, Reported, RunPump, Body
<1>6. FailedInv(r)'
  BY <1>1, <1>2 DEF TaskInv, EndedInv, FailedInv, Awaited, Body, Handler
<1>7. ReportInv(r)'
  BY <1>1, <1>2, <1>3 DEF TaskInv, EndedInv, ReportInv, Settled, Awaited, Final, Verdict, Body
<1>8. RecoverInv(r)'
  BY <1>1, <1>2 DEF TaskInv, EndedInv, RecoverInv, Recovering, Replayed, Reported, RecWord
<1> QED
  BY <1>4, <1>5, <1>6, <1>7, <1>8

LEMMA StampedRun == ASSUME TypeOK, NEW r \in Runs, RunInv(r), Stamped(r) PROVE RunInv(r)'
<1> USE DEF rowVars, taskVars, turnVars, recVars, mailVars, pastVars
<1>1. /\ pc[r] = "stamping" /\ pc'[r] = "delivering"
      /\ Verdict(r) \notin writes[r] /\ ended' = ended \cup {r}
  BY DEF Stamped, TypeOK, At, Go, Back, Awaited, Verdict
<1>2. UNCHANGED <<rowVars, cause, writes, told, turnVars, recVars, mailVars, pastVars>>
  BY DEF Stamped
<1> USE DEF RunInv
<1>3. /\ Reports(r)' = Reports(r) /\ Reported(r)' = Reported(r)
      /\ ~Reported(r) => Reports(r) = {}
  BY <1>2, SilentRun DEF Reports, Reported
<1>4. TaskInv(r)'
  BY <1>1, <1>2 DEF TaskInv, Awaited, Verdict, Body, Handler, Early, RunPump, Final
<1>5. EndedInv(r)'
  BY <1>1, <1>2 DEF TaskInv, EndedInv, Awaited, Verdict, Reported, RunPump, Body
<1>6. FailedInv(r)'
  BY <1>1, <1>2 DEF TaskInv, EndedInv, FailedInv, Awaited, Body, Handler
<1>7. ReportInv(r)'
  BY <1>1, <1>2, <1>3 DEF TaskInv, EndedInv, ReportInv, Settled, Awaited, Final, Verdict, Body
<1>8. RecoverInv(r)'
  BY <1>1, <1>2 DEF TaskInv, EndedInv, RecoverInv, Recovering, Replayed, Reported, RecWord
<1> QED
  BY <1>4, <1>5, <1>6, <1>7, <1>8

LEMMA ShutRun == ASSUME TypeOK, NEW r \in Runs, RunInv(r), Shut(r) PROVE RunInv(r)'
<1> USE DEF rowVars, taskVars, turnVars, recVars, mailVars, pastVars
<1>1. /\ pc[r] = "shutting" \/ (pc[r] = "ending" /\ Awaited(r) \cap writes[r] = {})
      /\ pc'[r] = "telling"
  BY DEF Shut, TypeOK, At, Go, Back
<1>2. UNCHANGED <<rowVars, cause, writes, ended, told, outcome, pumps, recVars, mailVars, pastVars>>
  BY DEF Shut
<1> USE DEF RunInv
<1>3. /\ Reports(r)' = Reports(r) /\ Reported(r)' = Reported(r)
      /\ ~Reported(r) => Reports(r) = {}
  BY <1>2, SilentRun DEF Reports, Reported
<1>4. TaskInv(r)'
  BY <1>1, <1>2 DEF TaskInv, Awaited, Verdict, Body, Handler, Early, RunPump, Final
<1>5. EndedInv(r)'
  BY <1>1, <1>2 DEF TaskInv, EndedInv, Awaited, Verdict, Reported, RunPump, Body
<1>6. FailedInv(r)'
  BY <1>1, <1>2 DEF TaskInv, EndedInv, FailedInv, Awaited, Body, Handler
<1>7. ReportInv(r)'
  BY <1>1, <1>2, <1>3 DEF TaskInv, EndedInv, ReportInv, Settled, Awaited, Final, Verdict, Body
<1>8. RecoverInv(r)'
  BY <1>1, <1>2 DEF TaskInv, EndedInv, RecoverInv, Recovering, Replayed, Reported, RecWord
<1> QED
  BY <1>4, <1>5, <1>6, <1>7, <1>8

LEMMA FrameRun == ASSUME TypeOK, NEW r \in Runs, RunInv(r), Frame(r) PROVE RunInv(r)'
<1> USE DEF rowVars, taskVars, turnVars, recVars, mailVars, pastVars
<1>1. /\ pc[r] = "frame" /\ pc'[r] = "gone" /\ r \notin ended' /\ r \notin told'
      /\ row'[r] = row[r] \/ (row[r] = "pending" /\ row'[r] \in Final)
  BY DEF Frame, TypeOK, At, Leave, Go, Final
<1>2. UNCHANGED <<stamped, writes, turnVars, recVars, mailVars, pastVars>>
  BY DEF Frame, Leave
<1> USE DEF RunInv
<1>3. /\ Reports(r)' = Reports(r) /\ Reported(r)' = Reported(r)
      /\ ~Reported(r) => Reports(r) = {}
  BY <1>2, SilentRun DEF Reports, Reported
<1>4. TaskInv(r)'
  BY <1>1, <1>2 DEF TaskInv, Awaited, Verdict, Body, Handler, Early, RunPump, Final
<1>5. EndedInv(r)'
  BY <1>1, <1>2 DEF TaskInv, EndedInv, Awaited, Verdict, Reported, RunPump, Body
<1>6. FailedInv(r)'
  BY <1>1, <1>2 DEF TaskInv, EndedInv, FailedInv, Awaited, Body, Handler
<1>7. ReportInv(r)'
  BY <1>1, <1>2, <1>3 DEF TaskInv, EndedInv, ReportInv, Settled, Awaited, Final, Verdict, Body
<1>8. RecoverInv(r)'
  BY <1>1, <1>2 DEF TaskInv, EndedInv, RecoverInv, Recovering, Replayed, Reported, RecWord
<1> QED
  BY <1>4, <1>5, <1>6, <1>7, <1>8

LEMMA CloseRun == ASSUME TypeOK, NEW r \in Runs, RunInv(r), Close(r) PROVE RunInv(r)'
<1> USE DEF rowVars, taskVars, turnVars, recVars, mailVars, pastVars
<1>1. /\ pc[r] = "closing" /\ pc'[r] = "gone" /\ r \notin ended' /\ r \notin told'
  BY DEF Close, TypeOK, At, Leave, Go
<1>2. UNCHANGED <<rowVars, writes, turnVars, recVars, mailVars, pastVars>>
  BY DEF Close, Leave
<1> USE DEF RunInv
<1>3. /\ Reports(r)' = Reports(r) /\ Reported(r)' = Reported(r)
      /\ ~Reported(r) => Reports(r) = {}
  BY <1>2, SilentRun DEF Reports, Reported
<1>4. TaskInv(r)'
  BY <1>1, <1>2 DEF TaskInv, Awaited, Verdict, Body, Handler, Early, RunPump, Final
<1>5. EndedInv(r)'
  BY <1>1, <1>2 DEF TaskInv, EndedInv, Awaited, Verdict, Reported, RunPump, Body
<1>6. FailedInv(r)'
  BY <1>1, <1>2 DEF TaskInv, EndedInv, FailedInv, Awaited, Body, Handler
<1>7. ReportInv(r)'
  BY <1>1, <1>2, <1>3 DEF TaskInv, EndedInv, ReportInv, Settled, Awaited, Final, Verdict, Body
<1>8. RecoverInv(r)'
  BY <1>1, <1>2 DEF TaskInv, EndedInv, RecoverInv, Recovering, Replayed, Reported, RecWord
<1> QED
  BY <1>4, <1>5, <1>6, <1>7, <1>8

LEMMA StartFailsRun == ASSUME TypeOK, NEW r \in Runs, RunInv(r), StartFails(r) PROVE RunInv(r)'
<1> USE DEF rowVars, taskVars, turnVars, recVars, mailVars, pastVars
<1>1. /\ pc[r] \in {"admitting", "spawning", "opening"} /\ r \notin ended /\ writes[r] = {}
      /\ pc'[r] = "ending" /\ cause'[r] = "error" /\ writes'[r] = {"failed"}
  BY DEF StartFails, TypeOK, At, Back, Awaited, Fail, Go, Hop, RunInv, TaskInv, EndedInv, Body
<1>2. UNCHANGED <<rowVars, ended, told, turnVars, recVars, mailVars, restarts>>
  BY DEF StartFails
<1> USE DEF RunInv
<1>3. /\ Reports(r)' = Reports(r) /\ Reported(r)' = Reported(r)
      /\ ~Reported(r) => Reports(r) = {}
  BY <1>2, SilentRun DEF Reports, Reported
<1>4. TaskInv(r)'
  BY <1>1, <1>2 DEF TaskInv, Awaited, Verdict, Body, Handler, Early, RunPump, Final
<1>5. EndedInv(r)'
  BY <1>1, <1>2 DEF TaskInv, EndedInv, Awaited, Verdict, Reported, RunPump, Body
<1>6. FailedInv(r)'
  BY <1>1, <1>2 DEF TaskInv, EndedInv, FailedInv, Awaited, Body, Handler
<1>7. ReportInv(r)'
  BY <1>1, <1>2, <1>3 DEF TaskInv, EndedInv, ReportInv, Settled, Awaited, Final, Verdict, Body
<1>8. RecoverInv(r)'
  BY <1>1, <1>2 DEF TaskInv, EndedInv, RecoverInv, Recovering, Replayed, Reported, RecWord
<1> QED
  BY <1>4, <1>5, <1>6, <1>7, <1>8

LEMMA EndFailsRun == ASSUME TypeOK, NEW r \in Runs, RunInv(r), EndFails(r) PROVE RunInv(r)'
<1> USE DEF rowVars, taskVars, turnVars, recVars, mailVars, pastVars
<1>1. /\ \/ /\ pc[r] = "turn" /\ r \notin ended /\ writes[r] = {}
            /\ pc'[r] = "ending" /\ cause'[r] = "error" /\ writes'[r] = {"failed"}
         \/ /\ pc[r] \in {"delivering", "closing"} /\ r \in ended
            /\ pc'[r] = "shutting" /\ cause'[r] = "error" /\ writes'[r] = writes[r]
  BY DEF EndFails, TypeOK, At, Awaited, Fail, Go, Hop, RunInv, TaskInv, EndedInv, Body
<1>2. UNCHANGED <<rowVars, ended, told, turnVars, recVars, mailVars, restarts>>
  BY DEF EndFails
<1> USE DEF RunInv
<1>3. /\ Reports(r)' = Reports(r) /\ Reported(r)' = Reported(r)
      /\ ~Reported(r) => Reports(r) = {}
  BY <1>2, SilentRun DEF Reports, Reported
<1>4. TaskInv(r)'
  BY <1>1, <1>2 DEF TaskInv, Awaited, Verdict, Body, Handler, Early, RunPump, Final
<1>5. EndedInv(r)'
  BY <1>1, <1>2 DEF TaskInv, EndedInv, Awaited, Verdict, Reported, RunPump, Body
<1>6. FailedInv(r)'
  BY <1>1, <1>2 DEF TaskInv, EndedInv, FailedInv, Awaited, Body, Handler
<1>7. ReportInv(r)'
  BY <1>1, <1>2, <1>3 DEF TaskInv, EndedInv, ReportInv, Settled, Awaited, Final, Verdict, Body
<1>8. RecoverInv(r)'
  BY <1>1, <1>2 DEF TaskInv, EndedInv, RecoverInv, Recovering, Replayed, Reported, RecWord
<1> QED
  BY <1>4, <1>5, <1>6, <1>7, <1>8

LEMMA ResultRun == ASSUME TypeOK, NEW r \in Runs, RunInv(r), Result(r) PROVE RunInv(r)'
<1> USE DEF rowVars, taskVars, turnVars, recVars, mailVars, pastVars
<1>1. /\ RunPump(r) \in pumps /\ outcome'[r] = "ok"
  BY DEF Result, TypeOK
<1>2. UNCHANGED <<rowVars, taskVars, pumps, recVars, mailVars, pastVars>>
  BY DEF Result
<1> USE DEF RunInv
<1>3. /\ Reports(r)' = Reports(r) /\ Reported(r)' = Reported(r)
      /\ ~Reported(r) => Reports(r) = {}
  BY <1>2, SilentRun DEF Reports, Reported
<1>4. TaskInv(r)'
  BY <1>1, <1>2 DEF TaskInv, Awaited, Verdict, Body, Handler, Early, RunPump, Final
<1>5. EndedInv(r)'
  BY <1>1, <1>2 DEF TaskInv, EndedInv, Awaited, Verdict, Reported, RunPump, Body
<1>6. FailedInv(r)'
  BY <1>1, <1>2 DEF TaskInv, EndedInv, FailedInv, Awaited, Body, Handler
<1>7. ReportInv(r)'
  BY <1>1, <1>2, <1>3 DEF TaskInv, EndedInv, ReportInv, Settled, Awaited, Final, Verdict, Body
<1>8. RecoverInv(r)'
  BY <1>1, <1>2 DEF TaskInv, EndedInv, RecoverInv, Recovering, Replayed, Reported, RecWord
<1> QED
  BY <1>4, <1>5, <1>6, <1>7, <1>8

LEMMA BrokenRun == ASSUME TypeOK, NEW r \in Runs, RunInv(r), Broken(r) PROVE RunInv(r)'
<1> USE DEF rowVars, taskVars, turnVars, recVars, mailVars, pastVars
<1>1. /\ RunPump(r) \in pumps /\ outcome'[r] = "error"
  BY DEF Broken, TypeOK
<1>2. UNCHANGED <<rowVars, taskVars, pumps, recVars, mailVars, pastVars>>
  BY DEF Broken
<1> USE DEF RunInv
<1>3. /\ Reports(r)' = Reports(r) /\ Reported(r)' = Reported(r)
      /\ ~Reported(r) => Reports(r) = {}
  BY <1>2, SilentRun DEF Reports, Reported
<1>4. TaskInv(r)'
  BY <1>1, <1>2 DEF TaskInv, Awaited, Verdict, Body, Handler, Early, RunPump, Final
<1>5. EndedInv(r)'
  BY <1>1, <1>2 DEF TaskInv, EndedInv, Awaited, Verdict, Reported, RunPump, Body
<1>6. FailedInv(r)'
  BY <1>1, <1>2 DEF TaskInv, EndedInv, FailedInv, Awaited, Body, Handler
<1>7. ReportInv(r)'
  BY <1>1, <1>2, <1>3 DEF TaskInv, EndedInv, ReportInv, Settled, Awaited, Final, Verdict, Body
<1>8. RecoverInv(r)'
  BY <1>1, <1>2 DEF TaskInv, EndedInv, RecoverInv, Recovering, Replayed, Reported, RecWord
<1> QED
  BY <1>4, <1>5, <1>6, <1>7, <1>8

LEMMA PumpEndsRun == ASSUME TypeOK, NEW r \in Runs, RunInv(r), PumpEnds(r) PROVE RunInv(r)'
<1> USE DEF rowVars, taskVars, turnVars, recVars, mailVars, pastVars
<1>1. /\ RunPump(r) \notin pumps'
  BY DEF PumpEnds, TypeOK, EndPump
<1>2. UNCHANGED <<rowVars, taskVars, outcome, recVars, mailVars, pastVars>>
  BY DEF PumpEnds
<1> USE DEF RunInv
<1>3. /\ Reports(r)' = Reports(r) /\ Reported(r)' = Reported(r)
      /\ ~Reported(r) => Reports(r) = {}
  BY <1>2, SilentRun DEF Reports, Reported
<1>4. TaskInv(r)'
  BY <1>1, <1>2 DEF TaskInv, Awaited, Verdict, Body, Handler, Early, RunPump, Final
<1>5. EndedInv(r)'
  BY <1>1, <1>2 DEF TaskInv, EndedInv, Awaited, Verdict, Reported, RunPump, Body
<1>6. FailedInv(r)'
  BY <1>1, <1>2 DEF TaskInv, EndedInv, FailedInv, Awaited, Body, Handler
<1>7. ReportInv(r)'
  BY <1>1, <1>2, <1>3 DEF TaskInv, EndedInv, ReportInv, Settled, Awaited, Final, Verdict, Body
<1>8. RecoverInv(r)'
  BY <1>1, <1>2 DEF TaskInv, EndedInv, RecoverInv, Recovering, Replayed, Reported, RecWord
<1> QED
  BY <1>4, <1>5, <1>6, <1>7, <1>8

LEMMA ReapedRun == ASSUME TypeOK, NEW r \in Runs, RunInv(r), Reaped(r) PROVE RunInv(r)'
<1> USE DEF rowVars, taskVars, turnVars, recVars, mailVars, pastVars
<1>1. /\ pc[r] = "turn" /\ RunPump(r) \in pumps /\ r \notin ended /\ writes[r] = {}
      /\ pc'[r] = "ending" /\ cause'[r] = "error" /\ writes'[r] = {"failed"}
      /\ RunPump(r) \notin pumps'
  BY DEF Reaped, TypeOK, At, Awaited, Fail, Go, Hop, EndPump, RunInv, TaskInv, EndedInv, Body
<1>2. UNCHANGED <<rowVars, ended, told, recVars, mailVars, pastVars>>
  BY DEF Reaped
<1> USE DEF RunInv
<1>3. /\ Reports(r)' = Reports(r) /\ Reported(r)' = Reported(r)
      /\ ~Reported(r) => Reports(r) = {}
  BY <1>2, SilentRun DEF Reports, Reported
<1>4. TaskInv(r)'
  BY <1>1, <1>2 DEF TaskInv, Awaited, Verdict, Body, Handler, Early, RunPump, Final
<1>5. EndedInv(r)'
  BY <1>1, <1>2 DEF TaskInv, EndedInv, Awaited, Verdict, Reported, RunPump, Body
<1>6. FailedInv(r)'
  BY <1>1, <1>2 DEF TaskInv, EndedInv, FailedInv, Awaited, Body, Handler
<1>7. ReportInv(r)'
  BY <1>1, <1>2, <1>3 DEF TaskInv, EndedInv, ReportInv, Settled, Awaited, Final, Verdict, Body
<1>8. RecoverInv(r)'
  BY <1>1, <1>2 DEF TaskInv, EndedInv, RecoverInv, Recovering, Replayed, Reported, RecWord
<1> QED
  BY <1>4, <1>5, <1>6, <1>7, <1>8

\* Posting a run's first report.
LEMMA PostFacts ==
    ASSUME TypeOK, NEW r \in Runs, ~Reported(r), NEW w \in Words,
           Post(r, w), heard'[r] = heard[r]
    PROVE  Reports(r)' = {w} /\ Reported(r)' /\ Len(heard'[r]) + Len(mail'[r]) <= 1
<1>1. mail[r] = <<>> /\ heard[r] = <<>>
  BY DEF Reported
<1>2. mail'[r] = Append(mail[r], w)
  BY DEF Post, TypeOK
<1>3. Append(mail[r], w) = <<w>>
  BY <1>1
<1>4. mail'[r] = <<w>> /\ heard'[r] = <<>>
  BY <1>1, <1>2, <1>3
<1>5. Len(mail'[r]) = 1 /\ mail'[r][1] = w /\ DOMAIN mail'[r] = {1}
  BY <1>4
<1>6. Len(heard'[r]) = 0 /\ DOMAIN heard'[r] = {}
  BY <1>4
<1>7. Reports(r)' = {w}
  BY <1>5, <1>6 DEF Reports
<1> QED
  BY <1>4, <1>5, <1>6, <1>7 DEF Reported

LEMMA DeliverRun == ASSUME TypeOK, NEW r \in Runs, RunInv(r), Deliver(r) PROVE RunInv(r)'
<1> USE DEF rowVars, turnVars, recVars, pastVars
<1>1. /\ pc[r] = "delivering" /\ pc'[r] = "closing" /\ r \in told' /\ r \notin told
      /\ Post(r, Verdict(r))
  BY DEF Deliver, TypeOK, At, Go, Verdict, RunInv, EndedInv
<1>2. UNCHANGED <<rowVars, cause, writes, ended, turnVars, recVars, heard, pastVars>>
  BY DEF Deliver
<1> USE DEF RunInv
<1>3. Verdict(r) \in Words /\ ~Reported(r)
  BY <1>1 DEF Verdict, Words, ReportInv
<1>4. Reports(r)' = {Verdict(r)} /\ Reported(r)' /\ Len(heard'[r]) + Len(mail'[r]) <= 1
  BY <1>1, <1>2, <1>3, PostFacts
<1>5. row[r] = Verdict(r) /\ writes[r] = {} /\ r \in ended
  BY <1>1 DEF EndedInv
<1>6. TaskInv(r)'
  BY <1>1, <1>2 DEF TaskInv, Awaited, Verdict, Body, Handler, Early, RunPump
<1>7. EndedInv(r)'
  BY <1>1, <1>2, <1>4 DEF EndedInv, Verdict, RunPump
<1>8. FailedInv(r)'
  BY <1>1 DEF FailedInv
<1>9. ReportInv(r)'
  <2>1. Settled(r)'
    BY <1>2, <1>5 DEF Settled, Verdict, Final
  <2>3. row'[r] = Verdict(r) /\ writes'[r] = {}
    BY <1>2, <1>5
  <2> QED
    BY <1>1, <1>4, <2>1, <2>3 DEF ReportInv
<1>10. RecoverInv(r)'
  BY <1>1, <1>2 DEF RecoverInv, Recovering, Replayed, RecWord
<1> QED
  BY <1>6, <1>7, <1>8, <1>9, <1>10

LEMMA TellRun == ASSUME TypeOK, NEW r \in Runs, RunInv(r), Tell(r) PROVE RunInv(r)'
<1> USE DEF rowVars, turnVars, recVars, pastVars
<1>1. pc[r] = "telling" /\ pc'[r] = "gone" /\ r \notin ended' /\ r \notin told'
  BY DEF Tell, Leave, Go, At, TypeOK
<1>2. UNCHANGED <<rowVars, writes, turnVars, recVars, heard, pastVars>>
  BY DEF Tell
<1>3. mail' = mail \/ (r \notin told /\ Post(r, Word(r)))
  BY DEF Tell, Owed
<1> USE DEF RunInv
<1>4. Settled(r) /\ ~Recovering(r)
  BY <1>1 DEF ReportInv, RecoverInv
<1>5. TaskInv(r)'
  BY <1>1, <1>2 DEF TaskInv, Awaited, Verdict, Body, Handler, Early, RunPump
<1>6. EndedInv(r)' /\ FailedInv(r)'
  BY <1>1 DEF EndedInv, FailedInv
<1>7. RecoverInv(r)'
  BY <1>2, <1>4 DEF RecoverInv, Recovering, Replayed
<1>8. CASE mail' = mail
  <2>1. Reports(r)' = Reports(r)
    BY <1>2, <1>8 DEF Reports
  <2>2. ReportInv(r)'
    BY <1>1, <1>2, <1>4, <1>8, <2>1 DEF ReportInv, Settled
  <2> QED
    BY <1>5, <1>6, <1>7, <2>2
<1>9. CASE r \notin told /\ Post(r, Word(r))
  <2>1. ~Reported(r) /\ Word(r) \in Words
    BY <1>1, <1>9 DEF ReportInv, Word, Words
  <2>2. Reports(r)' = {Word(r)} /\ Len(heard'[r]) + Len(mail'[r]) <= 1
    BY <1>2, <1>9, <2>1, PostFacts
  <2>3. Word(r) \in {"completed", "failed"} => row[r] = Word(r) /\ writes[r] = {}
    <3>1. CASE cause[r] \in {"user", "platform"}
      BY <3>1 DEF Word
    <3>2. CASE cause[r] = "error" /\ r \in ended
      BY <3>2 DEF Word, EndedInv, Verdict
    <3>3. CASE cause[r] = "error" /\ r \notin ended
      BY <1>1, <3>3 DEF Word, FailedInv
    <3> QED
      BY <1>1, <3>1, <3>2, <3>3 DEF TaskInv, Handler, TypeOK
  <2>4. Settled(r)'
    BY <1>2, <1>4 DEF Settled
  <2>5. ReportInv(r)'
    BY <1>1, <1>2, <2>2, <2>3, <2>4 DEF ReportInv
  <2> QED
    BY <1>5, <1>6, <1>7, <2>5
<1> QED
  BY <1>3, <1>8, <1>9

LEMMA HearRun == ASSUME TypeOK, NEW r \in Runs, RunInv(r), Hear(r) PROVE RunInv(r)'
<1> USE DEF rowVars, taskVars, turnVars, recVars, pastVars
<1>1. UNCHANGED <<rowVars, taskVars, turnVars, recVars, pastVars>> /\ mail[r] # <<>>
  BY DEF Hear
<1>2. heard[r] \in Seq(Words) /\ mail[r] \in Seq(Words)
  BY DEF TypeOK
<1>3. Len(heard[r]) = 0 /\ Len(mail[r]) = 1
  <2>1. Len(mail[r]) \in Nat /\ Len(heard[r]) \in Nat /\ Len(mail[r]) # 0
    BY <1>1, <1>2
  <2>2. Len(heard[r]) + Len(mail[r]) <= 1
    BY DEF RunInv, ReportInv
  <2>3. \A a, b \in Nat : b # 0 /\ a + b <= 1 => a = 0 /\ b = 1
    OBVIOUS
  <2> QED
    BY <2>1, <2>2, <2>3
<1>4. heard[r] = <<>>
  BY <1>2, <1>3
<1>5. PICK x : mail[r] = <<x>>
  BY <1>2, <1>3
<1>6. Head(mail[r]) = x /\ Tail(mail[r]) = <<>>
  BY <1>5
<1>7. heard'[r] = Append(heard[r], Head(mail[r])) /\ mail'[r] = Tail(mail[r])
  BY DEF Hear, TypeOK
<1>8. heard'[r] = <<x>> /\ mail'[r] = <<>>
  BY <1>4, <1>6, <1>7
<1>9. Reports(r)' = Reports(r)
  BY <1>4, <1>5, <1>8 DEF Reports
<1>10. Len(heard'[r]) + Len(mail'[r]) <= 1 /\ Reported(r) /\ Reported(r)'
  BY <1>1, <1>8 DEF Reported
<1> USE DEF RunInv
<1>11. TaskInv(r)'
  BY <1>1 DEF TaskInv, Awaited, Verdict, RunPump
<1>12. EndedInv(r)' /\ FailedInv(r)'
  BY <1>1, <1>10 DEF EndedInv, FailedInv, Verdict, RunPump
<1>13. ReportInv(r)'
  BY <1>1, <1>9, <1>10 DEF ReportInv, Settled, Awaited
<1>14. RecoverInv(r)'
  BY <1>1, <1>10 DEF RecoverInv, Recovering, Replayed
<1> QED
  BY <1>11, <1>12, <1>13, <1>14

LEMMA LandRun ==
    ASSUME TypeOK, NEW r \in Runs, NEW w, RunInv(r), Land(r, w)
    PROVE  RunInv(r)'
<1> USE DEF rowVars, taskVars, turnVars, recVars, mailVars, pastVars
<1>1. /\ w \in writes[r] /\ writes'[r] = writes[r] \ {w}
      /\ IF w = "session" THEN r \in stamped' /\ row'[r] = row[r]
                          ELSE row'[r] = w /\ (r \in stamped' <=> r \in stamped)
  BY DEF Land, TypeOK
<1>2. w \in {"running", "session"} \cup Final
  BY <1>1 DEF TypeOK, RunInv, TaskInv, Live
<1>3. UNCHANGED <<pc, cause, ended, told, turnVars, recVars, mailVars, pastVars>>
  BY DEF Land
<1> USE DEF RunInv
<1>4. Reports(r)' = Reports(r) /\ Reported(r)' = Reported(r)
  BY <1>3 DEF Reports, Reported
<1>5. TaskInv(r)'
  <2>1. Awaited(r)' = Awaited(r) /\ Verdict(r)' = Verdict(r) /\ RunPump(r)' = RunPump(r)
    BY <1>3 DEF Awaited, Verdict, RunPump
  <2>2. pc[r] # "none" /\ pc[r] # "queued" /\ row[r] # "none" /\ row'[r] # "none"
    BY <1>1, <1>2 DEF TaskInv, Final
  <2>4. pc[r] = "stamping" => writes[r] \subseteq {Verdict(r)}
    BY DEF TaskInv, Awaited, Verdict, Body
  <2>5. pc'[r] = "stamping" => row'[r] = Verdict(r)
    BY <1>1, <1>3, <2>4 DEF Verdict
  <2>6. pc'[r] \in {"none", "queued", "admitting"} => r \notin stamped' /\ "session" \notin writes'[r]
    BY <1>1, <1>3 DEF TaskInv
  <2>7. "running" \in writes'[r] => r \notin stamped' /\ "session" \notin writes'[r]
    BY <1>1 DEF TaskInv
  <2> QED
    BY <1>1, <1>3, <2>1, <2>2, <2>5, <2>6, <2>7 DEF TaskInv
<1>6. EndedInv(r)' /\ FailedInv(r)'
  BY <1>1, <1>3, <1>4 DEF EndedInv, FailedInv, Verdict, RunPump
<1>7. Settled(r) => Settled(r)'
  BY <1>1, <1>2 DEF Settled, TaskInv
<1>8. ReportInv(r)'
  <2>1. pc'[r] = "ending" => (Awaited(r) \cap writes[r] # {})' \/ Settled(r)'
    <3>1. Awaited(r)' = Awaited(r)
      BY <1>3 DEF Awaited
    <3>2. pc[r] = "ending" => Awaited(r) \subseteq Final
      BY DEF Awaited, Final
    <3>3. w \in Final => Settled(r)'
      BY <1>1 DEF Settled, Final
    <3> QED
      BY <1>1, <1>3, <1>7, <3>1, <3>2, <3>3 DEF ReportInv
  <2>2. Reports(r) \cap {"completed", "failed"} = {}
    BY <1>1 DEF ReportInv
  <2> QED
    BY <1>3, <1>4, <1>7, <2>1, <2>2 DEF ReportInv
<1>9. RecoverInv(r)'
  BY <1>1, <1>3, <1>4 DEF RecoverInv, Recovering, Replayed, RecWord
<1> QED
  BY <1>5, <1>6, <1>8, <1>9

LEMMA StopRun ==
    ASSUME TypeOK, NEW r \in Runs, NEW who \in {"user", "platform"}, RunInv(r), Stop(r, who)
    PROVE  RunInv(r)'
<1> USE DEF rowVars, turnVars, recVars, mailVars
<1>1. UNCHANGED <<rowVars, ended, told, turnVars, recVars, mailVars, restarts>>
  BY DEF Stop
<1> USE DEF RunInv
<1>2. /\ Reports(r)' = Reports(r) /\ Reported(r)' = Reported(r) /\ Verdict(r)' = Verdict(r)
      /\ (RunPump(r) \in pumps)' <=> RunPump(r) \in pumps
  BY <1>1 DEF Reports, Reported, Verdict, RunPump
<1>3. ~Recovering(r) /\ pc[r] \in Active
  BY DEF Stop, Active, Body, Handler, RecoverInv
<1>4. RecoverInv(r)'
  BY <1>1, <1>3 DEF RecoverInv, Recovering, Replayed
<1>5. PICK d \in Dropped(r) :
        IF pc[r] \in Body
        THEN /\ cause'[r] = who
             /\ IF r \in ended
                THEN pc'[r] = "shutting" /\ writes'[r] = writes[r] \ d
                ELSE /\ pc'[r] = "ending"
                     /\ writes'[r] = (writes[r] \ d) \cup
                          {IF who = "user" THEN "cancelled" ELSE "failed"}
        ELSE /\ pc'[r] = (IF pc[r] = "frame" THEN "gone" ELSE "frame")
             /\ writes'[r] = writes[r] \ d
  <2>1. PICK d \in Dropped(r) :
          IF pc[r] \in Body
          THEN /\ cause' = [cause EXCEPT ![r] = who]
               /\ IF r \in ended
                  THEN /\ pc' = [pc EXCEPT ![r] = "shutting"]
                       /\ writes' = [writes EXCEPT ![r] = writes[r] \ d]
                  ELSE /\ pc' = [pc EXCEPT ![r] = "ending"]
                       /\ writes' = [writes EXCEPT ![r] = (writes[r] \ d) \cup
                            {IF who = "user" THEN "cancelled" ELSE "failed"}]
          ELSE /\ pc' = [pc EXCEPT ![r] = IF pc[r] = "frame" THEN "gone" ELSE "frame"]
               /\ writes' = [writes EXCEPT ![r] = writes[r] \ d]
    BY DEF Stop, Go
  <2> QED
    BY <2>1 DEF TypeOK
<1>6. CASE pc[r] \in Body /\ r \in ended
  <2>1. pc'[r] = "shutting" /\ cause'[r] = who /\ writes'[r] = {} /\ pc[r] \in {"delivering", "closing"}
    BY <1>5, <1>6 DEF EndedInv, Body
  <2>2. TaskInv(r)' /\ FailedInv(r)'
    BY <1>1, <2>1 DEF TaskInv, FailedInv, Body, Handler, Early
  <2>3. EndedInv(r)'
    BY <1>1, <1>2, <2>1 DEF EndedInv
  <2>4. ReportInv(r)'
    BY <1>1, <1>2, <1>6, <2>1 DEF ReportInv, EndedInv, Settled, Verdict, Final
  <2> QED
    BY <1>4, <2>2, <2>3, <2>4
<1>7. CASE pc[r] \in Body /\ r \notin ended
  <2>1. /\ pc'[r] = "ending" /\ cause'[r] = who
        /\ Awaited(r)' \cap writes'[r] # {}
        /\ writes'[r] \subseteq writes[r] \cup {"cancelled", "failed"}
    BY <1>5, <1>7 DEF Awaited
  <2>2. TaskInv(r)' /\ FailedInv(r)'
    BY <1>1, <1>7, <2>1 DEF TaskInv, FailedInv, Body, Handler, Early
  <2>3. EndedInv(r)'
    BY <1>1, <1>2, <1>7, <2>1 DEF EndedInv
  <2>4. ~Reported(r)
    BY <1>7 DEF ReportInv, EndedInv, Body
  <2>5. ReportInv(r)'
    BY <1>1, <1>2, <2>1, <2>4, SilentRun DEF ReportInv
  <2> QED
    BY <1>4, <2>2, <2>3, <2>5
<1>8. CASE pc[r] \notin Body
  <2>1. /\ pc[r] \in {"queued", "frame"} \cup Handler
        /\ pc'[r] = (IF pc[r] = "frame" THEN "gone" ELSE "frame") /\ writes'[r] \subseteq writes[r]
    BY <1>3, <1>5, <1>8 DEF Active
  <2>2. TaskInv(r)' /\ FailedInv(r)'
    BY <1>1, <2>1 DEF TaskInv, FailedInv, Body, Handler, Early
  <2>3. EndedInv(r)'
    BY <1>1, <1>2, <2>1 DEF EndedInv, Handler
  <2>4. ReportInv(r)'
    BY <1>1, <1>2, <2>1 DEF ReportInv, Settled, Handler
  <2> QED
    BY <1>4, <2>2, <2>3, <2>4
<1> QED
  BY <1>6, <1>7, <1>8

\* The runs of a process that ends, from what it forgets and what the rows say.
LEMMA EndedProcess ==
    ASSUME TypeOK, NEW r \in Runs, RunInv(r), Forget, stamped' = stamped, heard' = heard,
           row'[r] = row[r] \/ (row[r] \in Live /\ r \notin stamped /\ row'[r] = "failed")
    PROVE  RunInv(r)'
<1>1. /\ pc'[r] = (IF pc[r] = "none" THEN "none" ELSE "gone")
      /\ writes'[r] = {} /\ mail'[r] = <<>> /\ ended' = {} /\ told' = {}
      /\ pumps' = {} /\ parked' = 0 /\ rec' = NoRec /\ failing' = {} /\ reporting' = {}
  BY DEF Forget
<1> USE DEF RunInv
<1>2. TaskInv(r)'
  BY <1>1 DEF TaskInv, Body, Handler, Live
<1>3. EndedInv(r)' /\ FailedInv(r)'
  BY <1>1 DEF EndedInv, FailedInv
<1>4. RecoverInv(r)'
  BY <1>1 DEF RecoverInv, Recovering, Replayed, NoRec, Runs
<1>5. Settled(r) => Settled(r)'
  BY <1>1 DEF Settled, Final
<1>6. DOMAIN mail'[r] = {} /\ Len(mail'[r]) = 0
  BY <1>1
<1>7. Reports(r)' \subseteq Reports(r)
  BY <1>6 DEF Reports
<1>8. Reported(r)' => Reported(r)
  BY <1>1 DEF Reported
<1>9. Len(heard'[r]) + Len(mail'[r]) <= 1
  <2>1. heard[r] \in Seq(Words) /\ mail[r] \in Seq(Words)
    BY DEF TypeOK
  <2>2. Len(heard[r]) \in Nat /\ Len(mail[r]) \in Nat
    BY <2>1
  <2>3. Len(heard[r]) + Len(mail[r]) <= 1
    BY DEF ReportInv
  <2>4. \A a, b \in Nat : a + b <= 1 => a + 0 <= 1
    OBVIOUS
  <2>5. Len(heard[r]) + 0 <= 1
    BY <2>2, <2>3, <2>4
  <2> QED
    BY <1>6, <2>5
<1>10. \A w \in Reports(r) \cap {"completed", "failed"} : row'[r] = w /\ writes'[r] = {}
  BY <1>1 DEF ReportInv, Live
<1>11. ReportInv(r)'
  BY <1>1, <1>5, <1>7, <1>8, <1>9, <1>10 DEF ReportInv, EndedInv
<1> QED
  BY <1>2, <1>3, <1>4, <1>11

LEMMA RestartRuns ==
    ASSUME TypeOK, LaneInv, NEW r \in Runs, RunInv(r), Crash \/ Shutdown \/ Exit \/ Boot
    PROVE  RunInv(r)'
<1>1. CASE Crash
  BY <1>1, EndedProcess DEF Crash, rowVars
<1>2. CASE Exit
  <2>1. row'[r] = row[r] \/ (row[r] \in Live /\ r \notin stamped /\ row'[r] = "failed")
    BY <1>2 DEF Exit
  <2> QED
    BY <1>2, <2>1, EndedProcess DEF Exit
<1>3. CASE Shutdown
  <2>1. /\ UNCHANGED <<row, stamped, cause, ended, told, outcome, pumps, parked, rec, failing,
                       reporting, mail, heard, restarts>>
    BY <1>3 DEF Shutdown, rowVars, turnVars, recVars, mailVars, pastVars
  <2>2. pc'[r] = IF pc[r] \in Active THEN "frame" ELSE pc[r]
    BY <1>3 DEF Shutdown
  <2>3. writes'[r] = writes[r] \/ writes'[r] = writes[r] \ Awaited(r)
    BY <1>3 DEF Shutdown
  <2>4. /\ Reports(r)' = Reports(r) /\ Reported(r)' = Reported(r) /\ Verdict(r)' = Verdict(r)
        /\ (RunPump(r) \in pumps)' <=> RunPump(r) \in pumps
    BY <2>1 DEF Reports, Reported, Verdict, RunPump
  <2>5. pc'[r] \in {"none", "frame", "gone"} /\ (pc'[r] = "none" <=> pc[r] = "none")
    BY <2>2 DEF TypeOK, Active, Body, Handler
  <2>6. pc[r] = "gone" => pc'[r] = "gone" /\ writes'[r] = writes[r]
    BY <2>2, <2>3 DEF Active, Body, Handler, Awaited
  <2>7. writes'[r] \subseteq writes[r]
    BY <2>3
  <2> USE DEF RunInv
  <2>8. TaskInv(r)'
    BY <2>1, <2>4, <2>5, <2>7 DEF TaskInv, Body, Handler, Early
  <2>9. EndedInv(r)' /\ FailedInv(r)'
    BY <2>1, <2>2, <2>4, <2>5, <2>7 DEF EndedInv, FailedInv, Active, Body, Handler
  <2>10. ReportInv(r)'
    <3>1. Settled(r) => Settled(r)'
      BY <2>1, <2>7 DEF Settled
    <3>2. pc'[r] # "gone" => pc[r] # "gone"
      BY <2>2 DEF Active, Body, Handler
    <3> QED
      BY <2>1, <2>4, <2>5, <2>7, <3>1, <3>2 DEF ReportInv
  <2>11. RecoverInv(r)'
    BY <2>1, <2>4, <2>6 DEF RecoverInv, Recovering, Replayed, RecWord
  <2> QED
    BY <2>8, <2>9, <2>10, <2>11
<1>4. CASE Boot
  <2>1. /\ pc[r] \in {"none", "gone"} /\ writes[r] = {} /\ ended = {} /\ told = {} /\ pumps = {}
        /\ rec = NoRec /\ failing = {} /\ reporting = {}
    BY <1>4 DEF Boot, LaneInv, DownInv
  <2>2. UNCHANGED <<stamped, pc, cause, writes, ended, told, outcome, pumps, rec, failing,
                    reporting, mail, heard>>
    BY <1>4 DEF Boot, taskVars, turnVars, mailVars
  <2>3. row'[r] = IF Blind(r) THEN "failed" ELSE row[r]
    BY <1>4 DEF Boot
  <2>4. parked' = r => Eligible(r)
    BY <1>4 DEF Boot, Runs
  <2>5. Reports(r)' = Reports(r) /\ Reported(r)' = Reported(r)
    BY <2>2 DEF Reports, Reported
  <2> USE DEF RunInv
  <2>6. TaskInv(r)'
    BY <2>1, <2>2, <2>3 DEF TaskInv, Body, Handler, Blind, Live
  <2>7. EndedInv(r)' /\ FailedInv(r)'
    BY <2>1, <2>2 DEF EndedInv, FailedInv
  <2>8. ReportInv(r)'
    BY <2>1, <2>2, <2>3, <2>5 DEF ReportInv, Settled, Blind, Eligible, Live, Final
  <2>9. Eligible(r) => ~Reported(r) /\ pc[r] = "gone" /\ ~Blind(r)
    BY <2>1 DEF Eligible, Blind, ReportInv, Settled, TaskInv, Live, Final
  <2>10. RecoverInv(r)'
    BY <2>1, <2>2, <2>3, <2>4, <2>5, <2>9 DEF RecoverInv, Recovering, Replayed, NoRec, Eligible
  <2> QED
    BY <2>6, <2>7, <2>8, <2>10
<1> QED
  BY <1>1, <1>2, <1>3, <1>4

\* What moves only a run's place in recovery.
LEMMA PlaceRun ==
    ASSUME NEW r \in Runs, RunInv(r), TaskKept(r), RecoverInv(r)'
    PROVE  RunInv(r)'
BY TaskKeptRun DEF RunInv

LEMMA LinkRuns ==
    ASSUME TypeOK, LaneInv, NEW r \in Runs, RunInv(r), Connect \/ Alive \/ Sweep \/ Settle
    PROVE  RunInv(r)'
<1>1. TaskKept(r)
  <2> USE DEF TaskKept, rowVars, taskVars, turnVars, mailVars, pastVars, RunPump
  <2>1. CASE Connect
    BY <2>1 DEF Connect
  <2>2. CASE Alive
    BY <2>2 DEF Alive
  <2>3. CASE Sweep
    BY <2>3 DEF Sweep
  <2>4. CASE Settle
    BY <2>4 DEF Settle
  <2> QED
    BY <2>1, <2>2, <2>3, <2>4
<1>2. Reported(r)' = Reported(r)
  BY <1>1 DEF TaskKept, Reported
<1>3. CASE Connect \/ Settle
  <2>1. PlaceKept(r)
    BY <1>3 DEF Connect, Settle, PlaceKept, recVars
  <2> QED
    BY <1>1, <2>1, KeptRun DEF Kept
<1>4. CASE Sweep
  <2>1. parked' = 0 /\ failing' = failing \cup {parked} /\ UNCHANGED <<rec, reporting>>
    BY <1>4 DEF Sweep
  <2>2. RecoverInv(r)'
    BY <1>1, <1>2, <2>1 DEF RunInv, TaskKept, RecoverInv, Recovering, Replayed, RecWord, Runs
  <2> QED
    BY <1>1, <2>2, PlaceRun
<1>5. CASE Alive
  <2>1. rec = NoRec
    BY <1>5 DEF Alive, LaneInv, LinkInv
  <2>2. /\ parked' = 0 /\ reporting' = reporting
        /\ \/ /\ rec' = NoRec
              /\ failing' = IF parked # 0 THEN failing \cup {parked} ELSE failing
           \/ /\ rec' = [NoRec EXCEPT !.at = "start", !.run = parked, !.cut = waiting]
              /\ failing' = failing
    BY <1>5, <2>1 DEF Alive
  <2>3. /\ parked' = 0 /\ reporting' = reporting
        /\ \/ /\ rec'.at = "none"
              /\ failing' = IF parked # 0 THEN failing \cup {parked} ELSE failing
           \/ rec'.at = "start" /\ rec'.run = parked /\ failing' = failing
    <3>1. NoRec.at = "none"
      BY DEF NoRec
    <3>2. /\ [NoRec EXCEPT !.at = "start", !.run = parked, !.cut = waiting].at = "start"
          /\ [NoRec EXCEPT !.at = "start", !.run = parked, !.cut = waiting].run = parked
      BY DEF NoRec
    <3> QED
      BY <2>2, <3>1, <3>2
  <2>4. parked' # r /\ ~Replayed(r)
    BY <2>1, <2>3 DEF Replayed, NoRec, Runs
  <2>5. CASE parked # r
    <3>1. (r \in failing' <=> r \in failing) /\ ~Replayed(r)'
      BY <2>3, <2>5 DEF Replayed
    <3> QED
      BY <1>1, <2>3, <2>4, <2>5, <3>1, KeptRun DEF Kept, PlaceKept
  <2>6. CASE parked = r
    <3>1. /\ pc[r] = "gone" /\ ~Reported(r) /\ row[r] \in Live /\ r \in stamped /\ writes[r] = {}
          /\ r \notin failing /\ r \notin reporting
      BY <2>6 DEF RunInv, RecoverInv, Recovering
    <3>2. \/ r \in failing' /\ ~Replayed(r)'
          \/ r \notin failing' /\ Replayed(r)' /\ rec'.at = "start"
      BY <2>3, <2>6, <3>1 DEF Replayed, Runs
    <3>3. RecoverInv(r)'
      BY <1>1, <1>2, <2>3, <2>4, <3>1, <3>2 DEF TaskKept, RecoverInv, Recovering
    <3> QED
      BY <1>1, <3>3, PlaceRun
  <2> QED
    BY <2>5, <2>6
<1> QED
  BY <1>3, <1>4, <1>5

LEMMA ReplayRuns ==
    ASSUME TypeOK, LaneInv, NEW r \in Runs, RunInv(r),
           \/ RecSkips \/ RecStarts \/ RecTakes \/ RecBegins \/ RecUnanswered \/ RecEnds
           \/ RecFinal \/ RecReports \/ (\E p \in Pumps : CloseCut(p))
    PROVE  RunInv(r)'
<1> USE DEF rowVars, taskVars, turnVars, mailVars, pastVars
<1>1. ASSUME TaskKept(r), UNCHANGED <<parked, failing, reporting>>,
             \/ rec'.at = "none"
             \/ /\ rec.at \notin {"none", "stamp"} /\ rec'.at \notin {"none", "stamp"}
                /\ rec'.run = rec.run
      PROVE  RunInv(r)'
  <2>1. Reported(r)' = Reported(r)
    BY <1>1 DEF TaskKept, Reported
  <2>2. RecoverInv(r)'
    BY <1>1, <2>1 DEF RunInv, TaskKept, RecoverInv, Recovering, Replayed
  <2> QED
    BY <1>1, <2>2, PlaceRun
<1>2. CASE RecSkips
  <2>1. TaskKept(r) /\ UNCHANGED <<parked, failing, reporting>> /\ rec'.at = "none"
    BY <1>2 DEF RecSkips, TaskKept, RunPump, NoRec
  <2> QED
    BY <1>1, <2>1
<1>3. CASE RecStarts \/ RecBegins
  <2>1. TaskKept(r) /\ UNCHANGED <<parked, failing, reporting>>
    BY <1>3 DEF RecStarts, RecBegins, TaskKept, RunPump
  <2>2. rec.at \in {"start", "asking"} /\ rec'.at \in {"taking", "following"} /\ rec'.run = rec.run
    BY <1>3 DEF RecStarts, RecBegins, TypeOK
  <2> QED
    BY <1>1, <2>1, <2>2
<1>4. CASE RecTakes \/ RecEnds
  <2>1. (RunPump(r) \in pumps)' <=> RunPump(r) \in pumps
    BY <1>4 DEF RecTakes, RecEnds, StartPump, EndPump, RunPump, RecPump
  <2>2. TaskKept(r) /\ UNCHANGED <<parked, failing, reporting>>
    BY <1>4, <2>1 DEF RecTakes, RecEnds, TaskKept
  <2>3. rec.at \in {"taking", "following"} /\ rec'.at \in {"asking", "final"} /\ rec'.run = rec.run
    BY <1>4 DEF RecTakes, RecEnds, TypeOK
  <2> QED
    BY <1>1, <2>2, <2>3
<1>5. CASE RecUnanswered
  <2>1. TaskKept(r) /\ UNCHANGED <<parked, failing, reporting>>
    BY <1>5 DEF RecUnanswered, TaskKept, RunPump
  <2>2. rec.at = "asking" /\ rec'.at = "following" /\ rec'.run = rec.run
    BY <1>5 DEF RecUnanswered, TypeOK
  <2> QED
    BY <1>1, <2>1, <2>2
<1>6. CASE \E p \in Pumps : CloseCut(p)
  <2>1. TaskKept(r) /\ PlaceKept(r)
    BY <1>6 DEF CloseCut, TaskKept, PlaceKept, RunPump
  <2> QED
    BY <2>1, KeptRun DEF Kept
<1>7. CASE RecFinal
  <2>1. CASE ~Replayed(r)
    <3>1. TaskKept(r)
      BY <1>7, <2>1 DEF RecFinal, TaskKept, RunPump, Replayed, Hop, TypeOK
    <3>2. PlaceKept(r)
      BY <1>7, <2>1 DEF RecFinal, PlaceKept, Replayed, NoRec, TypeOK
    <3> QED
      BY <3>1, <3>2, KeptRun DEF Kept
  <2>2. CASE Replayed(r)
    <3>1. rec.at = "final" /\ rec.run = r /\ r # 0
      BY <1>7, <2>2 DEF RecFinal, Replayed, Runs
    <3>2. pc[r] = "gone" /\ ~Reported(r) /\ row[r] \in Live /\ writes[r] = {}
      BY <2>2, <3>1 DEF RunInv, RecoverInv, Recovering
    <3>3. rec' = [rec EXCEPT !.at = "stamp"] /\ writes' = [writes EXCEPT ![r] = @ \cup {RecWord}]
      BY <1>7, <3>1, <3>2 DEF RecFinal, Hop
    <3>4. rec'.at = "stamp" /\ rec'.run = r /\ rec'.short = rec.short /\ writes'[r] = {RecWord}
      BY <3>1, <3>2, <3>3 DEF TypeOK
    <3>5. UNCHANGED <<row, stamped, pc, cause, ended, told, outcome, pumps, parked, failing,
                      reporting, mail, heard, restarts>>
      BY <1>7 DEF RecFinal
    <3>6. Reports(r)' = Reports(r) /\ Reported(r)' = Reported(r) /\ Reports(r) = {}
      BY <3>2, <3>5, SilentRun DEF Reports, Reported
    <3>7. RecWord \in {"completed", "failed"} /\ RecWord' = RecWord
      BY <3>4 DEF RecWord
    <3> USE DEF RunInv
    <3>8. TaskInv(r)'
      BY <3>2, <3>4, <3>5, <3>7 DEF TaskInv, Body, Handler, Early
    <3>9. EndedInv(r)' /\ FailedInv(r)'
      BY <3>2, <3>5 DEF EndedInv, FailedInv, Verdict, Live
    <3>10. ReportInv(r)'
      BY <3>2, <3>5, <3>6 DEF ReportInv
    <3>11. RecoverInv(r)'
      BY <2>2, <3>2, <3>4, <3>5, <3>6, <3>7 DEF RecoverInv, Recovering, Replayed
    <3> QED
      BY <3>8, <3>9, <3>10, <3>11
  <2> QED
    BY <2>1, <2>2
<1>8. CASE RecReports
  <2>1. rec.at = "stamp" /\ rec.run # 0 /\ rec.run \in Runs
    BY <1>8 DEF RecReports, LaneInv, LinkInv, TypeOK, Runs
  <2>2. rec' = NoRec /\ NoRec.at = "none"
    BY <1>8 DEF RecReports, NoRec
  <2>3. CASE rec.run # r
    <3>1. mail'[r] = mail[r]
      BY <1>8, <2>3 DEF RecReports, Post, TypeOK
    <3>2. TaskKept(r) /\ PlaceKept(r)
      BY <1>8, <2>2, <2>3, <3>1 DEF RecReports, TaskKept, PlaceKept, RunPump, Replayed
    <3> QED
      BY <3>2, KeptRun DEF Kept
  <2>4. CASE rec.run = r
    <3>1. /\ UNCHANGED <<row, stamped, pc, cause, writes, ended, told, outcome, pumps, parked,
                         failing, reporting, heard, restarts>>
          /\ RecWord \notin writes[r] /\ Post(r, RecWord)
      BY <1>8, <2>4 DEF RecReports
    <3>2. /\ pc[r] = "gone" /\ ~Reported(r) /\ row[r] = RecWord /\ writes[r] = {}
          /\ parked # r /\ r \notin failing /\ r \notin reporting
      BY <2>1, <2>4, <3>1 DEF RunInv, RecoverInv, Recovering, Replayed
    <3>3. RecWord \in {"completed", "failed"}
      BY DEF RecWord
    <3>4. Reports(r)' = {RecWord} /\ Reported(r)' /\ Len(heard'[r]) + Len(mail'[r]) <= 1
      BY <3>1, <3>2, <3>3, PostFacts DEF Words
    <3> USE DEF RunInv
    <3>5. TaskInv(r)'
      BY <3>1, <3>2 DEF TaskInv, Body, Handler, Early
    <3>6. EndedInv(r)' /\ FailedInv(r)'
      BY <3>1, <3>2, <3>4 DEF EndedInv, FailedInv, Verdict, RunPump
    <3>7. Settled(r)'
      BY <3>1, <3>2, <3>3 DEF Settled, Final
    <3>8. ReportInv(r)'
      BY <3>1, <3>2, <3>4, <3>7 DEF ReportInv
    <3>9. RecoverInv(r)'
      BY <2>2, <3>1, <3>2 DEF RecoverInv, Recovering, Replayed
    <3> QED
      BY <3>5, <3>6, <3>8, <3>9
  <2> QED
    BY <2>3, <2>4
<1> QED
  BY <1>2, <1>3, <1>4, <1>5, <1>6, <1>7, <1>8

LEMMA FailRuns ==
    ASSUME TypeOK, NEW q \in Runs, NEW r \in Runs, RunInv(r), FailRun(q) \/ FailReports(q)
    PROVE  RunInv(r)'
<1> USE DEF rowVars, taskVars, turnVars, mailVars
<1>1. CASE q # r
  <2>1. row'[r] = row[r] /\ mail'[r] = mail[r]
    BY <1>1 DEF FailRun, FailReports, Post, TypeOK
  <2>2. TaskKept(r)
    <3>1. CASE FailRun(q)
      BY <2>1, <3>1 DEF FailRun, TaskKept, pastVars, RunPump
    <3>2. CASE FailReports(q)
      BY <2>1, <3>2 DEF FailReports, TaskKept, RunPump
    <3> QED
      BY <3>1, <3>2
  <2>3. PlaceKept(r)
    BY <1>1 DEF FailRun, FailReports, PlaceKept
  <2> QED
    BY <2>2, <2>3, KeptRun DEF Kept
<1>2. CASE q = r /\ FailRun(q)
  <2>1. /\ r \in failing /\ pc[r] = "gone" /\ ~Reported(r)
        /\ row[r] \in Live /\ writes[r] = {} /\ parked # r /\ ~Replayed(r)
    BY <1>2 DEF FailRun, RunInv, RecoverInv, Recovering
  <2>2. row'[r] = "failed" /\ reporting' = reporting \cup {r} /\ failing' = failing \ {r}
    BY <1>2, <2>1 DEF FailRun, TypeOK
  <2>3. UNCHANGED <<stamped, pc, cause, writes, ended, told, outcome, pumps, parked, rec, mail,
                    heard, restarts>>
    BY <1>2 DEF FailRun, pastVars
  <2>4. Reports(r)' = Reports(r) /\ Reported(r)' = Reported(r) /\ Reports(r) = {}
    BY <2>1, <2>3, SilentRun DEF Reports, Reported
  <2> USE DEF RunInv
  <2>5. TaskInv(r)'
    BY <2>1, <2>2, <2>3 DEF TaskInv, Body, Handler, Early
  <2>6. EndedInv(r)' /\ FailedInv(r)'
    BY <2>1, <2>3 DEF EndedInv, FailedInv, Verdict, Live
  <2>7. ReportInv(r)'
    BY <2>1, <2>3, <2>4 DEF ReportInv
  <2>8. RecoverInv(r)'
    BY <2>1, <2>2, <2>3, <2>4 DEF RecoverInv, Recovering, Replayed
  <2> QED
    BY <2>5, <2>6, <2>7, <2>8
<1>3. CASE q = r /\ FailReports(q)
  <2>1. /\ pc[r] = "gone" /\ ~Reported(r) /\ row[r] = "failed" /\ writes[r] = {}
        /\ parked # r /\ r \notin failing /\ ~Replayed(r)
    BY <1>3 DEF FailReports, RunInv, RecoverInv, Recovering
  <2>2. UNCHANGED <<row, stamped, pc, cause, writes, ended, told, outcome, pumps, parked, failing,
                    rec, heard, restarts>> /\ reporting' = reporting \ {r}
    BY <1>3 DEF FailReports
  <2>3. mail' = mail \/ Post(r, "failed")
    BY <1>3 DEF FailReports
  <2> USE DEF RunInv
  <2>4. /\ Len(heard'[r]) + Len(mail'[r]) <= 1
        /\ \A w \in Reports(r)' : w = "failed"
        /\ Reported(r) => Reported(r)'
    <3>1. CASE mail' = mail
      <4>1. Reports(r)' = Reports(r) /\ Reports(r) = {}
        BY <2>1, <2>2, <3>1, SilentRun DEF Reports
      <4> QED
        BY <2>1, <2>2, <3>1, <4>1 DEF ReportInv
    <3>2. CASE Post(r, "failed")
      <4>1. "failed" \in Words /\ heard'[r] = heard[r]
        BY <2>2 DEF Words
      <4>2. Reports(r)' = {"failed"} /\ Reported(r)' /\ Len(heard'[r]) + Len(mail'[r]) <= 1
        BY <2>1, <3>2, <4>1, PostFacts
      <4> QED
        BY <4>2
    <3> QED
      BY <2>3, <3>1, <3>2
  <2>5. TaskInv(r)'
    BY <2>1, <2>2 DEF TaskInv, Body, Handler, Early
  <2>6. EndedInv(r)' /\ FailedInv(r)'
    BY <2>1, <2>2, <2>4 DEF EndedInv, FailedInv, Verdict, RunPump
  <2>7. Settled(r)'
    BY <2>1, <2>2 DEF Settled, Final
  <2>8. ReportInv(r)'
    BY <2>1, <2>2, <2>4, <2>7 DEF ReportInv
  <2>9. RecoverInv(r)'
    BY <2>1, <2>2 DEF RecoverInv, Recovering, Replayed
  <2> QED
    BY <2>5, <2>6, <2>8, <2>9
<1> QED
  BY <1>1, <1>2, <1>3

LEMMA IdleRuns ==
    ASSUME NEW r \in Runs, RunInv(r), Begin(r) \/ Finish \/ SatDies \/ UNCHANGED vars
    PROVE  RunInv(r)'
<1> USE DEF rowVars, taskVars, turnVars, recVars, mailVars, pastVars
<1>1. TaskKept(r) /\ PlaceKept(r)
  BY DEF Begin, Finish, SatDies, vars, TaskKept, PlaceKept, RunPump
<1> QED
  BY <1>1, KeptRun DEF Kept

LEMMA RunsStep == ASSUME TypeOK, LaneInv, RunsInv, [Next]_vars PROVE RunsInv'
<1> SUFFICES ASSUME NEW r \in Runs PROVE RunInv(r)'
  BY DEF RunsInv
<1>1. RunInv(r)
  BY DEF RunsInv
<1>2. ASSUME NEW q \in Runs,
             Fire(q) \/ RunnerStep(q) \/ StartFails(q) \/ EndFails(q) \/ Hear(q)
      PROVE  RunInv(r)'
  <2>1. CASE q # r
    BY <1>1, <1>2, <2>1, OthersKept, KeptRun
  <2>2. CASE q = r
    <3>1. CASE Fire(r) \/ Admit(r) \/ Gate(r) \/ Prepare(r) \/ Drive(r) \/ Begin(r)
      BY <1>1, <3>1, FireRun, AdmitRun, GateRun, PrepareRun, DriveRun, IdleRuns
    <3>2. CASE StartFails(r) \/ EndFails(r) \/ Result(r) \/ Broken(r) \/ PumpEnds(r) \/ Reaped(r)
      BY <1>1, <3>2, StartFailsRun, EndFailsRun, ResultRun, BrokenRun, PumpEndsRun, ReapedRun
    <3>3. CASE Judge(r) \/ Stamped(r) \/ Deliver(r) \/ Close(r)
      BY <1>1, <3>3, JudgeRun, StampedRun, DeliverRun, CloseRun
    <3>4. CASE Shut(r) \/ Tell(r) \/ Frame(r) \/ Hear(r)
      BY <1>1, <3>4, ShutRun, TellRun, FrameRun, HearRun
    <3> QED
      BY <1>2, <2>2, <3>1, <3>2, <3>3, <3>4 DEF RunnerStep
  <2> QED
    BY <2>1, <2>2
<1>3. ASSUME NEW q \in Runs, NEW w \in Live \cup Final \cup {"session"}, Land(q, w)
      PROVE  RunInv(r)'
  <2>1. CASE q # r
    BY <1>1, <1>3, <2>1, OthersKept, KeptRun
  <2>2. CASE q = r
    BY <1>1, <1>3, <2>2, LandRun
  <2> QED
    BY <2>1, <2>2
<1>4. ASSUME NEW q \in Runs, NEW who \in {"user", "platform"}, Stop(q, who)
      PROVE  RunInv(r)'
  <2>1. CASE q # r
    BY <1>1, <1>4, <2>1, OthersKept, KeptRun
  <2>2. CASE q = r
    BY <1>1, <1>4, <2>2, StopRun
  <2> QED
    BY <2>1, <2>2
<1>5. CASE Finish \/ SatDies \/ UNCHANGED vars
  BY <1>1, <1>5, IdleRuns
<1>6. CASE Crash \/ Shutdown \/ Exit \/ Boot
  BY <1>1, <1>6, RestartRuns
<1>7. CASE Connect \/ Alive \/ Sweep
  BY <1>1, <1>7, LinkRuns
<1>8. CASE RecoverStep \/ RecUnanswered
  <2>1. CASE Settle
    BY <1>1, <2>1, LinkRuns
  <2>2. CASE \E q \in Runs : FailRun(q) \/ FailReports(q)
    BY <1>1, <2>2, FailRuns
  <2>3. CASE \/ RecSkips \/ RecStarts \/ RecTakes \/ RecBegins \/ RecUnanswered \/ RecEnds
             \/ RecFinal \/ RecReports \/ (\E p \in Pumps : CloseCut(p))
    BY <1>1, <2>3, ReplayRuns
  <2> QED
    BY <1>8, <2>1, <2>2, <2>3 DEF RecoverStep
<1> QED
  BY <1>2, <1>3, <1>4, <1>5, <1>6, <1>7, <1>8 DEF Next

LEMMA InitRuns == Init => RunsInv
<1> SUFFICES ASSUME Init, NEW r \in Runs PROVE RunInv(r)
  BY DEF RunsInv
<1>1. /\ row[r] = "none" /\ stamped = {} /\ pc[r] = "none" /\ writes[r] = {} /\ ended = {}
      /\ told = {} /\ pumps = {} /\ parked = 0 /\ failing = {} /\ reporting = {}
      /\ rec.at = "none" /\ mail[r] = <<>> /\ heard[r] = <<>> /\ r # 0
  BY DEF Init, NoRec, Runs
<1>2. Reports(r) = {} /\ ~Reported(r) /\ Len(heard[r]) + Len(mail[r]) <= 1
  <2>1. DOMAIN mail[r] = {} /\ DOMAIN heard[r] = {} /\ Len(mail[r]) = 0 /\ Len(heard[r]) = 0
    BY <1>1
  <2> QED
    BY <1>1, <2>1 DEF Reports, Reported
<1>3. TaskInv(r) /\ EndedInv(r) /\ FailedInv(r)
  BY <1>1 DEF TaskInv, EndedInv, FailedInv, Body, Handler
<1>4. ReportInv(r) /\ RecoverInv(r)
  BY <1>1, <1>2 DEF ReportInv, RecoverInv, Recovering, Replayed
<1> QED
  BY <1>3, <1>4 DEF RunInv

LEMMA RunsInvariance == Spec => []RunsInv
<1>1. RunsInv /\ (TypeOK /\ LaneInv) /\ [Next]_vars => RunsInv'
  BY RunsStep
<1> QED
  BY <1>1, InitRuns, LaneInvariance, PTL DEF Spec

\* A run is reported at most once, whatever its runner, its handlers, the
\* recovery of a restart and the restarts do between them (task_run.py:
\* "Exactly-once result delivery per run").
THEOREM ReportedOnce == Spec => []HeardOnce
<1>1. RunsInv => HeardOnce
  BY DEF RunsInv, RunInv, ReportInv, HeardOnce
<1> QED
  BY <1>1, RunsInvariance, PTL

\* What the delegator hears is what the row says: no failure after the verdict
\* is told as a failed run, no failed run as a completed one.
THEOREM ReportIsTrue == Spec => []ReportMatchesRow
<1>1. RunsInv => ReportMatchesRow
  BY DEF RunsInv, RunInv, ReportInv, ReportMatchesRow
<1> QED
  BY <1>1, RunsInvariance, PTL

=============================================================================
