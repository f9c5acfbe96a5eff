------------------------- MODULE SatelliteLinkProofs -------------------------
(***************************************************************************)
(* The safety of the link for any sessions, commands, sockets and rounds   *)
(* of the monitor.  The argument is in what the registry and the grace     *)
(* area promise each other (Handover): sessions are attached only while a  *)
(* connection is registered, held only while none is, and held only with a *)
(* timer.  Who may come back follows (GivenAway, LostAway), and with ids   *)
(* that are not used again before their close ended (ClosedIsNone) that    *)
(* nobody is forgotten and that the link implements the abstract grace.    *)
(***************************************************************************)
EXTENDS SatelliteLink, TLAPS

Handover ==
    /\ conn = 0 => attached = {}
    /\ conn # 0 => held = {}
    /\ held # {} => timer # "off"

\* Who was given up while held, or lost, is in neither place.
GivenAway == \A s \in given : life[s] = "dead" /\ s \notin attached /\ s \notin held
LostAway == \A s \in Sessions : life[s] = "lost" => s \notin attached /\ s \notin held

\* What the monitor is about to deregister has been closed, a writer that
\* failed did so on a closed socket, and who listens is registered.
Listening ==
    /\ \A k \in Sockets :
         /\ phase[k] = "none" => writer[k] = "off" /\ conn # k /\ target # k
         /\ writer[k] = "failed" => k \notin open
         /\ phase[k] = "loop" /\ k \in open /\ ~blind => conn = k
    /\ mon = "dereg" => target \notin open

IInv ==
    /\ TypeOK /\ Handover /\ GivenAway /\ LostAway
    /\ WaitersOnLive /\ Listening

-----------------------------------------------------------------------------
\* A proxy that has just started.
LEMMA InitIInv == Init => IInv
<1> SUFFICES ASSUME Init PROVE IInv
    OBVIOUS
<1>1. TypeOK
  <2>1. 0 \in 0..MaxSockets /\ 0 \in 0..MaxRounds
    BY BoundsAssumption
  <2> QED BY <2>1 DEF Init, TypeOK
<1>2. Handover /\ GivenAway /\ LostAway /\ WaitersOnLive
    BY DEF Init, Handover, GivenAway, LostAway, WaitersOnLive
<1>3. Listening
    BY BoundsAssumption DEF Init, Listening, Sockets
<1> QED BY <1>1, <1>2, <1>3 DEF IInv

LEMMA NetworkIInv == ASSUME IInv, Network PROVE IInv'
<1> USE BoundsAssumption DEF IInv, Sockets, graceVars, cmdVars, monVars
<1>1. ASSUME NEW k \in Sockets, SatConnect(k) PROVE IInv'
  <2>1. TypeOK'
    BY <1>1 DEF SatConnect, TypeOK
  <2>2. (Handover /\ GivenAway /\ LostAway /\ WaitersOnLive)'
    BY <1>1 DEF SatConnect, Handover, GivenAway, LostAway, WaitersOnLive
  <2>3. Listening'
    BY <1>1 DEF SatConnect, Listening, TypeOK
  <2> QED BY <2>1, <2>2, <2>3
<1>2. CASE SatDrop
  <2>1. TypeOK'
    BY <1>2 DEF SatDrop, TypeOK
  <2>2. (Handover /\ GivenAway /\ LostAway /\ WaitersOnLive)'
    BY <1>2 DEF SatDrop, Handover, GivenAway, LostAway, WaitersOnLive
  <2>3. Listening'
    BY <1>2 DEF SatDrop, Listening, TypeOK
  <2> QED BY <2>1, <2>2, <2>3
<1> QED BY <1>1, <1>2 DEF Network

-----------------------------------------------------------------------------
(* register and deregister, whoever calls them *)

\* Install keeps every promise: what was attached or held is attached.
LEMMA InstallIInv ==
    ASSUME IInv, NEW k \in Sockets, Install(k), open' \in SUBSET open,
           conn \notin open' \/ conn = 0, phase[k] \in {"lock", "swap"}
    PROVE  IInv'
<1> USE BoundsAssumption DEF IInv, Sockets, monVars, Install, Carried, Rejected
<1>1. TypeOK'
    BY DEF TypeOK
<1>2. (Handover /\ GivenAway /\ LostAway)'
    BY DEF Handover, GivenAway, LostAway
<1>3. WaitersOnLive'
    BY DEF WaitersOnLive, TypeOK
<1>4. Listening'
    BY DEF Listening, TypeOK
<1> QED BY <1>1, <1>2, <1>3, <1>4

\* Dropped keeps every promise when the connection that goes is closed, or
\* when the monitor takes one it did not find stale.
LEMMA DroppedIInv ==
    ASSUME IInv, conn # 0, Dropped,
           phase' \in [Sockets -> {"none", "lock", "swap", "loop", "gone"}],
           \A k \in Sockets : phase'[k] = phase[k] \/ phase'[k] = "gone",
           mon' \in {"idle", mon}, target' \in {0, target},
           mon' = mon => target' = target,
           rounds' = rounds, blind' \in BOOLEAN, blind => blind',
           conn \notin open \/ blind'
    PROVE  IInv'
<1> USE BoundsAssumption DEF IInv, Sockets, Dropped, GraceTimer
<1>1. TypeOK'
    BY DEF TypeOK
<1>2. (Handover /\ GivenAway /\ LostAway)'
    BY DEF Handover, GivenAway, LostAway
<1>3. WaitersOnLive'
    BY DEF WaitersOnLive, TypeOK
<1>4. Listening'
    BY DEF Listening, TypeOK
<1> QED BY <1>1, <1>2, <1>3, <1>4

\* What a step that leaves the registry's record of sessions alone keeps.
LEMMA SameRegistry ==
    ASSUME IInv, UNCHANGED <<conn, graceVars, cmdVars>>
    PROVE  (Handover /\ GivenAway /\ LostAway /\ WaitersOnLive)'
BY DEF IInv, graceVars, cmdVars, Handover, GivenAway, LostAway, WaitersOnLive

LEMMA HandlerIInv == ASSUME IInv, NEW k \in Sockets, Handler(k) PROVE IInv'
<1> USE BoundsAssumption DEF Sockets
<1>0. TypeOK /\ Listening
    BY DEF IInv
<1>1. CASE RegisterLocks(k)
  <2>1. CASE conn = 0
      BY <1>0, <1>1, <2>1, InstallIInv DEF RegisterLocks, TypeOK
  <2>2. CASE conn # 0
    <3>1. TypeOK'
        BY <1>0, <1>1, <2>2 DEF RegisterLocks, TypeOK, graceVars, cmdVars, monVars
    <3>2. Listening'
        BY <1>0, <1>1, <2>2
        DEF RegisterLocks, TypeOK, Listening, graceVars, cmdVars, monVars
    <3>3. UNCHANGED <<conn, graceVars, cmdVars>>
        BY <1>1, <2>2 DEF RegisterLocks
    <3> QED BY <3>1, <3>2, <3>3, SameRegistry DEF IInv
  <2> QED BY <2>1, <2>2
<1>2. CASE RegisterSwaps(k)
    BY <1>0, <1>2, InstallIInv DEF RegisterSwaps, TypeOK
<1>3. CASE HandlerEnds(k)
  <2>1. CASE Owns(k)
    <3>1. Dropped /\ conn # 0 /\ conn \notin open
        BY <1>3, <2>1 DEF HandlerEnds, Deregister, Owns
    <3>2. /\ phase' \in [Sockets -> {"none", "lock", "swap", "loop", "gone"}]
          /\ \A j \in Sockets : phase'[j] = phase[j] \/ phase'[j] = "gone"
          /\ UNCHANGED <<mon, target, rounds, blind>>
        BY <1>0, <1>3 DEF HandlerEnds, TypeOK, monVars
    <3> QED BY <1>0, <3>1, <3>2, DroppedIInv DEF TypeOK
  <2>2. CASE ~Owns(k)
    <3>1. TypeOK' /\ Listening'
        BY <1>0, <1>3, <2>2
        DEF HandlerEnds, Deregister, TypeOK, Listening, graceVars, cmdVars, monVars
    <3>2. UNCHANGED <<conn, graceVars, cmdVars>>
        BY <1>3, <2>2 DEF HandlerEnds, Deregister
    <3> QED BY <3>1, <3>2, SameRegistry DEF IInv
  <2> QED BY <2>1, <2>2
<1>4. CASE WriterFails(k)
  <2>1. TypeOK' /\ Listening'
      BY <1>0, <1>4 DEF WriterFails, TypeOK, Listening, graceVars, cmdVars, monVars
  <2>2. UNCHANGED <<conn, graceVars, cmdVars>>
      BY <1>4 DEF WriterFails
  <2> QED BY <2>1, <2>2, SameRegistry DEF IInv
<1>5. CASE WriterDeregisters(k)
  <2>1. CASE Owns(k)
    <3>1. Dropped /\ conn # 0 /\ conn \notin open
        BY <1>0, <1>5, <2>1 DEF WriterDeregisters, Owns, Listening
    <3>2. UNCHANGED <<phase, mon, target, rounds, blind>>
        BY <1>5, <2>1 DEF WriterDeregisters, monVars
    <3> QED BY <1>0, <3>1, <3>2, DroppedIInv DEF TypeOK
  <2>2. CASE ~Owns(k)
    <3>1. TypeOK' /\ Listening'
        BY <1>0, <1>5, <2>2
        DEF WriterDeregisters, TypeOK, Listening, graceVars, cmdVars, monVars
    <3>2. UNCHANGED <<conn, graceVars, cmdVars>>
        BY <1>5, <2>2 DEF WriterDeregisters
    <3> QED BY <3>1, <3>2, SameRegistry DEF IInv
  <2> QED BY <2>1, <2>2
<1> QED BY <1>1, <1>2, <1>3, <1>4, <1>5 DEF Handler

\* The monitor's own deregister is either of the socket it closed or blind.
LEMMA MonitorIInv == ASSUME IInv, Monitor PROVE IInv'
<1> USE BoundsAssumption DEF Sockets
<1>0. TypeOK /\ Listening
    BY DEF IInv
<1>1. CASE MonitorFinds
  <2>1. TypeOK' /\ Listening'
      BY <1>0, <1>1
      DEF MonitorFinds, TypeOK, Listening, regVars, graceVars, cmdVars
  <2>2. UNCHANGED <<conn, graceVars, cmdVars>>
      BY <1>1 DEF MonitorFinds, regVars
  <2> QED BY <2>1, <2>2, SameRegistry DEF IInv
<1>2. CASE MonitorPicks
  <2>1. TypeOK' /\ Listening'
      BY <1>0, <1>2
      DEF MonitorPicks, TypeOK, Listening, regVars, graceVars, cmdVars
  <2>2. UNCHANGED <<conn, graceVars, cmdVars>>
      BY <1>2 DEF MonitorPicks, regVars
  <2> QED BY <2>1, <2>2, SameRegistry DEF IInv
<1>3. CASE MonitorCloses
  <2>1. TypeOK' /\ Listening'
      BY <1>0, <1>3 DEF MonitorCloses, TypeOK, Listening, graceVars, cmdVars
  <2>2. UNCHANGED <<conn, graceVars, cmdVars>>
      BY <1>3 DEF MonitorCloses
  <2> QED BY <2>1, <2>2, SameRegistry DEF IInv
<1>4. CASE MonitorDeregisters
  <2>1. CASE conn # 0
    <3>1. /\ Dropped
          /\ mon' = "idle" /\ mon = "dereg" /\ target' = 0
          /\ blind' = (blind \/ (conn # 0 /\ conn # target))
          /\ UNCHANGED <<phase, rounds>>
        BY <1>4, <2>1 DEF MonitorDeregisters
    <3>2. conn \notin open \/ blind'
        BY <1>0, <2>1, <3>1 DEF Listening
    <3>3. blind' \in BOOLEAN /\ (blind => blind')
        BY <1>0, <3>1 DEF TypeOK
    <3> QED BY <1>0, <2>1, <3>1, <3>2, <3>3, DroppedIInv DEF TypeOK
  <2>2. CASE conn = 0
    <3>1. TypeOK' /\ Listening'
        BY <1>0, <1>4, <2>2
        DEF MonitorDeregisters, TypeOK, Listening, graceVars, cmdVars
    <3>2. UNCHANGED <<conn, graceVars, cmdVars>>
        BY <1>4, <2>2 DEF MonitorDeregisters
    <3> QED BY <3>1, <3>2, SameRegistry DEF IInv
  <2> QED BY <2>1, <2>2
<1> QED BY <1>1, <1>2, <1>3, <1>4 DEF Monitor

-----------------------------------------------------------------------------
(* Sessions, the timer and the commands *)

\* The steps of sessions and of the timer leave the registry as it is.
LEMMA SameLink ==
    ASSUME IInv, UNCHANGED <<regVars, cmdVars, monVars>>
    PROVE  (WaitersOnLive /\ Listening)'
BY DEF IInv, regVars, cmdVars, monVars, WaitersOnLive, Listening

LEMMA SessionIInv == ASSUME IInv, NEW s \in Sessions, Session(s) PROVE IInv'
<1>0. TypeOK /\ Handover /\ GivenAway /\ LostAway
    BY DEF IInv
<1>1. (WaitersOnLive /\ Listening)'
    BY SameLink
    DEF Session, Create, CloseBegins, CloseEnds, HardAbort, PrepareResume
<1>2. TypeOK' /\ Handover'
  <2>1. CASE Create(s)
      BY <1>0, <2>1 DEF Create, TypeOK, Handover, regVars, cmdVars, monVars
  <2>2. CASE CloseBegins(s)
      BY <1>0, <2>2 DEF CloseBegins, TypeOK, Handover, regVars, cmdVars, monVars
  <2>3. CASE CloseEnds(s) \/ HardAbort(s) \/ PrepareResume(s)
      BY <1>0, <2>3
      DEF CloseEnds, HardAbort, PrepareResume, DropGrace, HeldWithout, TypeOK, Handover,
          regVars, cmdVars, monVars
  <2> QED BY <2>1, <2>2, <2>3 DEF Session
<1>3. GivenAway' /\ LostAway'
    BY <1>0
    DEF Session, Create, CloseBegins, CloseEnds, HardAbort, PrepareResume, DropGrace,
        HeldWithout, TypeOK, Handover, GivenAway, LostAway
<1> QED BY <1>1, <1>2, <1>3 DEF IInv

LEMMA TimerIInv == ASSUME IInv, TimerRings \/ ExpireGrace PROVE IInv'
<1>1. (WaitersOnLive /\ Listening)'
    BY SameLink DEF TimerRings, ExpireGrace
<1>2. TypeOK'
    BY DEF IInv, TimerRings, ExpireGrace, TypeOK, regVars, cmdVars, monVars
<1>3. (Handover /\ GivenAway /\ LostAway)'
    BY DEF IInv, TimerRings, ExpireGrace, TypeOK, Handover, GivenAway, LostAway,
           regVars
<1> QED BY <1>1, <1>2, <1>3 DEF IInv

LEMMA CommandIInv == ASSUME IInv, NEW c \in Commands, Command(c) PROVE IInv'
<1> USE BoundsAssumption DEF IInv, Command, SendCommand, AckArrives, AckTimesOut
<1>1. TypeOK' /\ WaitersOnLive'
  <2>1. TypeOK /\ 0 \in 0..MaxSockets
    OBVIOUS
  <2>2. waits' \in [Commands -> 0..MaxSockets]
    BY <2>1 DEF TypeOK
  <2>3. TypeOK'
    BY <2>1, <2>2 DEF TypeOK, regVars, graceVars, monVars
  <2>4. WaitersOnLive'
    BY <2>1 DEF TypeOK, WaitersOnLive, regVars
  <2> QED BY <2>3, <2>4
<1>2. (Handover /\ GivenAway /\ LostAway /\ Listening)'
    BY DEF Handover, GivenAway, LostAway, Listening, regVars, graceVars, monVars
<1> QED BY <1>1, <1>2 DEF IInv

LEMMA StutterIInv == ASSUME IInv, UNCHANGED vars PROVE IInv'
BY DEF vars, regVars, graceVars, cmdVars, monVars, IInv, TypeOK, Handover, GivenAway,
       LostAway, WaitersOnLive, Listening

LEMMA NextIInv == ASSUME IInv, [Next]_vars PROVE IInv'
BY NetworkIInv, HandlerIInv, MonitorIInv, SessionIInv, TimerIInv, CommandIInv,
   StutterIInv DEF Next

-----------------------------------------------------------------------------
(* What holds of every behaviour *)

\* The strengthened invariant.
THEOREM Invariance == Spec => []IInv
<1> QED BY InitIInv, NextIInv, PTL DEF Spec

\* Type correctness, for any sessions, commands and sockets.
THEOREM TypeCorrect == Spec => []TypeOK
<1>1. IInv => TypeOK BY DEF IInv
<1> QED BY <1>1, Invariance, PTL

\* Nobody waits for an ack on a connection that was replaced or dropped.
THEOREM WaitersFollow == Spec => []WaitersOnLive
<1>1. IInv => WaitersOnLive BY DEF IInv
<1> QED BY <1>1, Invariance, PTL

\* As long as the monitor never met a reconnect, the socket the satellite talks
\* on is the registered one, whatever the order in which the handlers, writers
\* and the monitor of replaced sockets deregister.
THEOREM ListenerRegistered == Spec => []LiveUnlessBlind
<1>1. IInv => LiveUnlessBlind
    BY DEF IInv, Listening, TypeOK, LiveUnlessBlind, LiveRegistered, Heard, Sockets
<1> QED BY <1>1, Invariance, PTL

\* Only held sessions and new ones are ever attached.
LEMMA AttachedFrom ==
    ASSUME IInv, Next, NEW s \in attached' \ attached
    PROVE  s \in held \/ life[s] = "none"
BY DEF Next, Network, Handler, Monitor, Session, Command, SatConnect, SatDrop,
       RegisterLocks, RegisterSwaps, Install, Carried, HandlerEnds, Deregister, Dropped,
       WriterFails, WriterDeregisters, MonitorFinds, MonitorPicks, MonitorCloses,
       MonitorDeregisters, Create, CloseBegins, CloseEnds, HardAbort, PrepareResume,
       TimerRings, ExpireGrace, SendCommand, AckArrives, AckTimesOut, graceVars

\* Who was aborted in the grace window, or lost with it, stays away.
THEOREM NobodyComesBack == Spec => NoComeback
<1>1. IInv /\ [Next]_vars =>
        [\A s \in attached' \ attached : s \notin given /\ life[s] # "lost"]_vars
    BY AttachedFrom DEF IInv, GivenAway, LostAway, TypeOK
<1> QED BY <1>1, Invariance, PTL DEF Spec, NoComeback

-----------------------------------------------------------------------------
(* With ids that wait for their close *)

\* A session whose close goes on has no record any more.
ClosedIsNone == \A s \in closing : life[s] = "none"

Kept == IInv /\ ClosedIsNone /\ NoneForgotten

LEMMA InitKept == Init => Kept
BY InitIInv DEF Kept, ClosedIsNone, NoneForgotten, Init

\* Steps of the link move all sessions together.
LEMMA LinkKept ==
    ASSUME Kept, UNCHANGED <<life, closing>>,
           \/ UNCHANGED <<conn, attached, held, timer>>
           \/ \E k \in Sockets : Install(k)
           \/ conn # 0 /\ Dropped
    PROVE  ClosedIsNone' /\ NoneForgotten'
<1> USE DEF Kept, ClosedIsNone, NoneForgotten
<1>1. CASE UNCHANGED <<conn, attached, held, timer>>
    BY <1>1
<1>2. ASSUME NEW k \in Sockets, Install(k) PROVE NoneForgotten'
    BY <1>2, BoundsAssumption DEF Install, Carried, Sockets
<1>3. CASE conn # 0 /\ Dropped
    BY <1>3 DEF Dropped, GraceTimer, IInv, Handover
<1> QED BY <1>1, <1>2, <1>3

LEMMA SessionKept ==
    ASSUME Reuse = FALSE, Kept, NEW s \in Sessions, Session(s)
    PROVE  ClosedIsNone' /\ NoneForgotten'
<1>1. TypeOK /\ Handover
    BY DEF Kept, IInv
<1>2. CASE Create(s)
    BY <1>1, <1>2 DEF Kept, Create, TypeOK, ClosedIsNone, NoneForgotten, regVars
<1>3. CASE CloseBegins(s)
    BY <1>1, <1>3 DEF Kept, CloseBegins, TypeOK, ClosedIsNone, NoneForgotten, regVars
<1>4. CASE CloseEnds(s) \/ HardAbort(s) \/ PrepareResume(s)
    BY <1>1, <1>4
    DEF Kept, CloseEnds, HardAbort, PrepareResume, DropGrace, HeldWithout, TypeOK,
        ClosedIsNone, NoneForgotten, regVars
<1> QED BY <1>2, <1>3, <1>4 DEF Session

LEMMA TimerKept ==
    ASSUME Kept, TimerRings \/ ExpireGrace
    PROVE  ClosedIsNone' /\ NoneForgotten'
BY DEF Kept, IInv, TypeOK, TimerRings, ExpireGrace, ClosedIsNone, NoneForgotten, regVars

\* What the other steps do to the registry and the grace area.
LEMMA LinkSteps ==
    ASSUME Next
    PROVE  \/ \E s \in Sessions : Session(s)
           \/ TimerRings \/ ExpireGrace
           \/ /\ UNCHANGED <<life, closing>>
              /\ \/ UNCHANGED <<conn, attached, held, timer>>
                 \/ \E k \in Sockets : Install(k)
                 \/ conn # 0 /\ Dropped
<1>1. CASE Network \/ Monitor \/ \E c \in Commands : Command(c)
    BY <1>1
    DEF Network, Monitor, Command, SatConnect, SatDrop, MonitorFinds, MonitorPicks,
        MonitorCloses, MonitorDeregisters, SendCommand, AckArrives, AckTimesOut,
        Dropped, regVars, graceVars
<1>2. ASSUME NEW k \in Sockets, Handler(k)
      PROVE  /\ UNCHANGED <<life, closing>>
             /\ \/ UNCHANGED <<conn, attached, held, timer>>
                \/ Install(k)
                \/ conn # 0 /\ Dropped
    BY <1>2, BoundsAssumption
    DEF Handler, RegisterLocks, RegisterSwaps, Install, HandlerEnds, Deregister, Owns,
        Dropped, WriterFails, WriterDeregisters, graceVars, Sockets
<1> QED BY <1>1, <1>2 DEF Next

LEMMA NextKept == ASSUME Reuse = FALSE, Kept, [Next]_vars PROVE Kept'
<1>1. IInv'
    BY NextIInv DEF Kept
<1>2. ASSUME UNCHANGED vars PROVE ClosedIsNone' /\ NoneForgotten'
    BY <1>2, LinkKept DEF vars, regVars, graceVars
<1>3. ASSUME Next PROVE ClosedIsNone' /\ NoneForgotten'
    BY <1>3, LinkSteps, SessionKept, TimerKept, LinkKept
<1> QED BY <1>1, <1>2, <1>3 DEF Kept

\* A running session is never forgotten, however drops, reconnects, the grace
\* timer, aborts and closes meet: it is attached, or held with a timer.
THEOREM NothingForgotten == ASSUME Reuse = FALSE PROVE Spec => []NoneForgotten
<1>1. Kept => NoneForgotten BY DEF Kept
<1> QED BY <1>1, InitKept, NextKept, PTL DEF Spec

-----------------------------------------------------------------------------
(* The refinement *)

LEMMA LinkRefines ==
    ASSUME Kept, UNCHANGED <<life, closing>>,
           \/ UNCHANGED <<conn, attached, held, timer>>
           \/ \E k \in Sockets : Install(k)
           \/ conn # 0 /\ Dropped
    PROVE  [SG!Next]_SG!vars
<1>0. Handover /\ LostAway /\ TypeOK
    BY DEF Kept, IInv
<1>1. CASE UNCHANGED <<conn, attached, held, timer>>
    BY <1>1 DEF SG!vars
<1>2. ASSUME NEW k \in Sockets, Install(k) PROVE SG!Return \/ UNCHANGED SG!vars
  <2>1. conn' # 0 /\ attached' = attached \cup held /\ held' = {}
      BY <1>2, BoundsAssumption DEF Install, Carried, Sockets
  <2>2. CASE conn = 0
      BY <1>0, <2>1, <2>2 DEF SG!Return, SG!Moved, Handover, LostAway
  <2>3. CASE conn # 0
      BY <1>0, <2>1, <2>3 DEF SG!vars, Handover
  <2> QED BY <2>2, <2>3
<1>3. CASE conn # 0 /\ Dropped
  <2>1. conn' = 0 /\ attached' = {} /\ held' = attached
      BY <1>0, <1>3 DEF Dropped, Handover
  <2> QED BY <1>0, <1>3, <2>1 DEF SG!Next, SG!Drop, SG!Moved, Handover
<1> QED BY <1>1, <1>2, <1>3 DEF SG!Next

LEMMA SessionRefines ==
    ASSUME Kept, NEW s \in Sessions, Session(s)
    PROVE  [SG!Next]_SG!vars
<1>0. Handover /\ LostAway /\ ClosedIsNone /\ TypeOK
    BY DEF Kept, IInv
<1>1. CASE Create(s)
  <2>1. SG!Create(s)
      BY <1>0, <1>1 DEF Create, SG!Create, Handover, TypeOK, regVars
  <2> QED BY <2>1 DEF SG!Next
<1>2. CASE CloseBegins(s)
  <2>1. SG!GiveUp(s)
      BY <1>0, <1>2 DEF CloseBegins, SG!GiveUp, TypeOK, regVars
  <2> QED BY <2>1 DEF SG!Next
<1>3. CASE CloseEnds(s)
  <2>1. SG!Clear(s)
      BY <1>0, <1>3 DEF CloseEnds, DropGrace, HeldWithout, ClosedIsNone, SG!Clear,
          TypeOK, regVars
  <2> QED BY <2>1 DEF SG!Next
<1>4. CASE HardAbort(s)
  <2>1. SG!GiveUp(s)
      BY <1>0, <1>4 DEF HardAbort, DropGrace, HeldWithout, SG!GiveUp, TypeOK, regVars
  <2> QED BY <2>1 DEF SG!Next
<1>5. CASE PrepareResume(s)
  <2>1. CASE s \in attached
      BY <1>0, <1>5, <2>1 DEF PrepareResume, DropGrace, HeldWithout, Handover, LostAway,
          SG!vars, TypeOK, regVars
  <2>2. CASE s \notin attached
    <3>1. SG!Clear(s)
        BY <1>0, <1>5, <2>2 DEF PrepareResume, DropGrace, HeldWithout, SG!Clear, TypeOK,
            regVars
    <3> QED BY <3>1 DEF SG!Next
  <2> QED BY <2>1, <2>2
<1> QED BY <1>1, <1>2, <1>3, <1>4, <1>5 DEF Session

LEMMA TimerRefines ==
    ASSUME Kept, TimerRings \/ ExpireGrace
    PROVE  [SG!Next]_SG!vars
<1>0. Handover /\ TypeOK
    BY DEF Kept, IInv
<1>1. CASE TimerRings
    BY <1>1 DEF TimerRings, SG!vars, regVars
<1>2. CASE ExpireGrace
  <2>1. CASE held = {}
      BY <1>0, <1>2, <2>1 DEF ExpireGrace, SG!vars, TypeOK, regVars
  <2>2. CASE held # {}
    <3> DEFINE gone == {s \in Sessions : life[s] = "none"}
    <3>1. conn = 0 /\ attached = {}
        BY <1>0, <2>2 DEF Handover
    <3>2. /\ conn' = 0 /\ attached' = {} /\ held' = {}
          /\ life' = [s \in Sessions |->
                        IF s \in held /\ life[s] # "none" THEN "lost" ELSE life[s]]
        BY <1>2, <3>1 DEF ExpireGrace, regVars
    <3>3. {s \in Sessions : life'[s] = "live"}
            = {s \in Sessions : life[s] = "live" /\ s \notin held}
        BY <1>0, <3>2 DEF TypeOK
    <3>4. \A s \in Sessions : life'[s] = "lost"
            <=> (s \in held /\ s \notin gone) \/ life[s] = "lost"
        BY <1>0, <3>2 DEF TypeOK
    <3>5. [s \in Sessions |-> IF s \in attached' THEN "attached"
                             ELSE IF s \in held' THEN "held"
                             ELSE IF life'[s] = "lost" THEN "lost" ELSE "none"]
          = [s \in Sessions |-> IF s \in held
                                THEN IF s \in gone THEN "none" ELSE "lost"
                                ELSE IF life[s] = "lost" THEN "lost" ELSE "none"]
        BY <3>2, <3>4
    <3> DEFINE at == [s \in Sessions |-> IF s \in attached THEN "attached"
                                        ELSE IF s \in held THEN "held"
                                        ELSE IF life[s] = "lost" THEN "lost" ELSE "none"]
    <3>6. \A s \in Sessions : at[s] = "held" <=> s \in held
        BY <3>1
    <3>7. [s \in Sessions |-> IF s \in held
                                THEN IF s \in gone THEN "none" ELSE "lost"
                                ELSE IF life[s] = "lost" THEN "lost" ELSE "none"]
          = [s \in Sessions |-> IF at[s] # "held" THEN at[s]
                                ELSE IF s \in gone THEN "none" ELSE "lost"]
        BY <3>1
    <3>8. {s \in Sessions : life[s] = "live" /\ s \notin held}
            = {s \in {t \in Sessions : life[t] = "live"} : at[s] # "held"}
        BY <3>6
    <3>9. SG!Expire(gone)
        BY <3>1, <3>2, <3>3, <3>5, <3>7, <3>8 DEF SG!Expire
    <3>10. gone \in SUBSET (Sessions \ {s \in Sessions : life[s] = "live"})
        OBVIOUS
    <3>11. SG!Next
        BY <3>9, <3>10 DEF SG!Next, SG!Expire
    <3> QED BY <3>11
  <2> QED BY <2>1, <2>2
<1> QED BY <1>1, <1>2

\* The link implements the abstract grace: its sessions go and come back
\* together, expire together and are lost no other way.
THEOREM GraceImplemented == ASSUME Reuse = FALSE PROVE Spec => ImplementsSessionGrace
<1>1. Init => SG!Init
    BY DEF Init, SG!Init
<1>2. Kept /\ [Next]_vars => [SG!Next]_SG!vars
  <2>1. Kept /\ UNCHANGED vars => UNCHANGED SG!vars
      BY DEF vars, regVars, graceVars, SG!vars
  <2>2. Kept /\ Next => [SG!Next]_SG!vars
      BY LinkSteps, LinkRefines, SessionRefines, TimerRefines
  <2> QED BY <2>1, <2>2
<1> QED BY <1>1, <1>2, InitKept, NextKept, PTL DEF Spec, ImplementsSessionGrace, SG!Spec
=============================================================================
