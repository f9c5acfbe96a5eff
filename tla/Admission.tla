------------------------------ MODULE Admission ------------------------------
(***************************************************************************)
(* The admission of local sessions, core/concurrency.py: the ledger of     *)
(* reservations, its two gates, the admission line of people, the ring of  *)
(* parked tasks, background wakes, pre-warms, meetings, the per-person     *)
(* cap, eviction, the maintenance pass and the reconciler.  Around it: how *)
(* the callers spawn and close the sessions they reserved for.             *)
(*                                                                         *)
(* The code runs on one event loop.  A hold of _cond contains no await but *)
(* Condition.wait, so a hold is one step here; between two holds of one    *)
(* request any other step may come.  A parked request is woken by a        *)
(* notify, by its slice timer or by the 30 s maintenance pass, so it may   *)
(* re-check at any time.  Clocks are abstracted to what the code compares  *)
(* them with: a reservation is "new" (it still grows into its estimate and *)
(* the reconciler spares it) or "old"; a session is active, idle past the  *)
(* eviction floor, or idle with background work under its leash.           *)
(***************************************************************************)
EXTENDS Integers, Sequences, FiniteSets, FiniteSetsExt, SequencesExt

CONSTANTS
    Sids,          \* session ids
    Reqs,          \* calls into the module (the maintenance loop is one)
    Req,           \* Req[r]: what call r asks for, see RequestType
    Participants,  \* the sids of the meeting, if a call asks for one
    Users,         \* people
    NoUser,        \* no owner known
    Creators,      \* ring keys of tasks
    Est,           \* Est[s]: the reserve of a session of this id
    Heavy,         \* SESSION_EST_HEAVY_MB
    Budget,        \* _budget_mb
    Floor,         \* _floor_mb
    Cap,           \* OTODOCK_MAX_LOCAL_SESSIONS, 0 = off
    UserCap,       \* MAX_SESSIONS_PER_USER, 0 = off
    Readings,      \* what the live-RAM read may return
    NoSid

Paths == {"plain", "queued", "speculative", "task", "wake", "meeting", "maintenance"}
Kinds == {"chat", "task", "meeting", "phone"}

RequestType ==
    [path : Paths, sid : Sids, kind : Kinds, user : Users \cup {NoUser},
     capped : BOOLEAN, creator : Creators]

ASSUME AdmissionAssumption ==
    /\ IsFiniteSet(Sids) /\ IsFiniteSet(Reqs)
    /\ Req \in [Reqs -> RequestType]
    /\ \A r \in Reqs : Req[r].capped => Req[r].path \in {"plain", "queued", "speculative"}
    /\ Participants \subseteq Sids
    /\ NoUser \notin Users
    /\ NoSid \notin Sids
    /\ Heavy \in Nat \ {0}
    /\ Est \in [Sids -> 1..Heavy]
    /\ Budget \in Nat /\ Floor \in Nat /\ Cap \in Nat /\ UserCap \in Nat
    /\ Readings \subseteq Nat

VARIABLES
    kind,       \* _sessions: kind[s] is "none" when s is not tracked
    owner,      \* _session_owner
    age,        \* _session_added_at, as "new" | "old"
    reserved,   \* _reserved_mb
    line,       \* _line
    ring,       \* _task_ring: ring[k] is <<>> when k has no entry
    ringOrder,  \* _task_ring_order
    parked,     \* _parked_tasks
    live,       \* the host's live-RAM reading
    alive,      \* alive[s]: a local registry holds a session of this id
    mode,       \* mode[s]: "active" | "idle" | "background" (of a live session)
    prewarm,    \* prewarm_session_registry: unclaimed pre-warms
    reaping,    \* sids whose close is under way (idle reaper, user, layer)
    recon,      \* what a reconciliation pass found orphaned, before its lock
    pc,         \* pc[r]: where call r is
    victim,     \* victim[r]: what call r is evicting
    back,       \* back[r]: where call r goes on after it
    passed,     \* history: passed[r][k], ring admissions of k while r waited
    returned    \* history: ids asked for again while they were being closed or
                \* after a handler had left their slot behind, until all is gone

ledger  == <<kind, owner, age, reserved>>
queues  == <<line, ring, ringOrder, parked, passed>>
world   == <<live, alive, mode, prewarm, reaping, recon>>
control == <<pc, victim, back>>
vars    == <<ledger, queues, world, control, returned>>

Waiting  == {"top", "check", "wait"}            \* in line, not attempting
Trying   == {"loop", "scan", "verdict", "verdictbg"}
Evicting == {"claim", "remove", "close", "release"}
Refusals == {"busy", "busy_background", "host_memory", "user_cap", "speculative",
             "superseded", "timeout"}
Places   == {"idle", "cap", "capscan", "fast", "parked", "waking", "admitted",
             "running", "done", "gone"}
            \cup Waiting \cup Trying \cup Evicting \cup Refusals

TypeOK ==
    /\ kind \in [Sids -> Kinds \cup {"none"}]
    /\ owner \in [Sids -> Users \cup {NoUser}]
    /\ age \in [Sids -> {"new", "old"}]
    /\ reserved \in Nat
    /\ line \in Seq(Reqs)
    /\ ring \in [Creators -> Seq(Reqs)]
    /\ ringOrder \in Seq(Creators)
    /\ parked \in Nat
    /\ live \in Readings
    /\ alive \in [Sids -> BOOLEAN]
    /\ mode \in [Sids -> {"active", "idle", "background"}]
    /\ prewarm \in SUBSET Sids
    /\ reaping \in SUBSET Sids
    /\ recon \in SUBSET Sids
    /\ pc \in [Reqs -> Places]
    /\ victim \in [Reqs -> Sids \cup {NoSid}]
    /\ back \in [Reqs -> {"idle", "cap", "loop"}]
    /\ passed \in [Reqs -> [Creators -> Nat]]
    /\ returned \in SUBSET Sids

Init ==
    /\ kind = [s \in Sids |-> "none"]
    /\ owner = [s \in Sids |-> NoUser]
    /\ age = [s \in Sids |-> "old"]
    /\ reserved = 0
    /\ line = <<>>
    /\ ring = [k \in Creators |-> <<>>]
    /\ ringOrder = <<>>
    /\ parked = 0
    /\ live \in Readings
    /\ alive = [s \in Sids |-> FALSE]
    /\ mode = [s \in Sids |-> "active"]
    /\ prewarm = {}
    /\ reaping = {}
    /\ recon = {}
    /\ pc = [r \in Reqs |-> "idle"]
    /\ victim = [r \in Reqs |-> NoSid]
    /\ back = [r \in Reqs |-> "idle"]
    /\ passed = [r \in Reqs |-> [k \in Creators |-> 0]]
    /\ returned = {}

-----------------------------------------------------------------------------
(* The gates *)

Tracked == {s \in Sids : kind[s] # "none"}

EstSum(S) == MapThenSumSet(LAMBDA s : Est[s], S)

\* Mutant: background work takes the last slot a person needs.
HeadroomForgotten(task) == 0

Headroom(task) == IF task THEN Heavy ELSE 0

\* Mutant: the new session's own estimate is not counted.
Gate1WithoutEst(est, task) ==
    /\ Cap # 0 => Cardinality(Tracked) + (IF task /\ Cap >= 2 THEN 1 ELSE 0) < Cap
    /\ reserved <= Budget - Headroom(task)

Gate1(est, task) ==
    /\ Cap # 0 => Cardinality(Tracked) + (IF task /\ Cap >= 2 THEN 1 ELSE 0) < Cap
    /\ reserved + est <= Budget - Headroom(task)

GrowinDebit == EstSum({s \in Tracked : age[s] = "new"})

Gate2(est, task) == live - GrowinDebit - est >= Floor + Headroom(task)

HasRoom(est, task) == Gate1(est, task) /\ Gate2(est, task)

Owned(u) == Cardinality({s \in Sids : kind[s] = "chat" /\ owner[s] = u})

\* Mutant: off by one at the person's cap.
PastUserCap(u) == Owned(u) > UserCap

AtUserCap(u) == Owned(u) >= UserCap

SpeculativeRoom(est, u) ==
    /\ Cap # 0 => Cardinality(Tracked) + 2 <= Cap
    /\ parked = 0 /\ line = <<>>
    /\ u # NoUser /\ UserCap > 0 => ~AtUserCap(u)
    /\ reserved + est + Heavy <= Budget
    /\ live - GrowinDebit - est - Heavy >= Floor

\* _pressure_snapshot: could evicting tracked sessions close the gap?
SessionsAccount(est) == reserved >= (est + Floor + GrowinDebit) - live

-----------------------------------------------------------------------------
(* The ledger's three writes *)

Add(s, k, u) ==
    /\ kind' = [kind EXCEPT ![s] = k]
    /\ owner' = [owner EXCEPT ![s] = u]
    /\ age' = [age EXCEPT ![s] = "new"]
    /\ reserved' = reserved + Est[s]

FillOwner(s, u) ==
    /\ owner' = [owner EXCEPT ![s] = IF u # NoUser /\ @ = NoUser THEN u ELSE @]
    /\ UNCHANGED <<kind, age, reserved>>

\* Mutant: the estimate is given back for an id that is not tracked any more.
DropTwice(S) ==
    /\ kind' = [s \in Sids |-> IF s \in S THEN "none" ELSE kind[s]]
    /\ owner' = [s \in Sids |-> IF s \in S THEN NoUser ELSE owner[s]]
    /\ age' = [s \in Sids |-> IF s \in S THEN "old" ELSE age[s]]
    /\ reserved' = reserved - EstSum(S)

\* _remove, of an id that may not be tracked.
Drop(S) ==
    LET held == S \cap Tracked IN
    /\ kind' = [s \in Sids |-> IF s \in held THEN "none" ELSE kind[s]]
    /\ owner' = [s \in Sids |-> IF s \in held THEN NoUser ELSE owner[s]]
    /\ age' = [s \in Sids |-> IF s \in held THEN "old" ELSE age[s]]
    /\ reserved' = LET left == reserved - EstSum(held) IN IF left < 0 THEN 0 ELSE left

Sid(r)  == Req[r].sid
User(r) == Req[r].user
Path(r) == Req[r].path
E(r)    == Est[Sid(r)]

\* cap_owner: only a new chat of a known person is held to the cap.
CapBound(r) ==
    Req[r].capped /\ User(r) # NoUser /\ Req[r].kind = "chat" /\ UserCap > 0

Goto(r, place) == pc' = [pc EXCEPT ![r] = place]

\* The three ends of an attempt.  The finally of a queued one drops its ticket.
Leave(r) == line' = RemoveFirst(line, r)

AdmitTracked(r) ==
    /\ FillOwner(Sid(r), User(r))
    /\ Goto(r, "admitted") /\ Leave(r)

AdmitNew(r, u) ==
    /\ Add(Sid(r), Req[r].kind, u)
    /\ Goto(r, "admitted") /\ Leave(r)

\* Mutant: the denial forgets the ticket.
RefuseInLine(r, why) ==
    /\ Goto(r, why)
    /\ UNCHANGED <<ledger, line>>

Refuse(r, why) ==
    /\ Goto(r, why) /\ Leave(r)
    /\ UNCHANGED ledger

-----------------------------------------------------------------------------
(* Returns *)

\* Calls holding a slot of s, about to start its session.
Spawners(s) == {r \in Reqs : pc[r] = "admitted" /\ Sid(r) = s}

\* The session of s is being closed: by an evictor that has taken its slot, or
\* by a close that holds the slot until it is over.
Closing(s) ==
    \/ s \in reaping
    \/ \E r \in Reqs : pc[r] \in {"close", "release"} /\ victim[r] = s

\* A slot nobody stands behind.
Orphan(s) ==
    /\ s \in Tracked /\ kind[s] # "task" /\ ~alive[s]
    /\ Spawners(s) = {} /\ s \notin reaping

\* A slot whose handler was cancelled before it started the session: old, so that
\* the reconciler may have it on its list.
Left(s) == s \in Tracked /\ ~alive[s] /\ age[s] = "old" /\ Spawners(s) = {}

\* The session ids a run or a meeting releases at its end.
Seats(r) == IF Path(r) = "meeting" THEN Participants ELSE {Sid(r)}

\* In this step s is given to a call, or a run that had it ends.
Takes(s) ==
    \E r \in Reqs : pc'[r] # pc[r] /\ pc'[r] \in {"admitted", "running"} /\ s \in Seats(r)

Ends(s) ==
    \E r \in Reqs : pc'[r] # pc[r] /\ pc[r] = "running" /\ s \in Seats(r)

\* In this step s is asked for while it is being closed or was left behind, or a
\* close or the end of a run comes over a call that is starting it.
Returns(s) ==
    \/ Takes(s) /\ (Closing(s) \/ Left(s))
    \/ Spawners(s)' # {} /\ (Closing(s)' \/ Ends(s))

Gone(s) ==
    /\ s \notin Tracked \cup recon /\ ~alive[s]
    /\ Spawners(s) = {} /\ ~Closing(s)

\* A part of every action.
Remember == returned' = {s \in Sids : (s \in returned \/ Returns(s)) /\ ~Gone(s)'}

-----------------------------------------------------------------------------
(* acquire() of an interactive session *)

\* On to the ordinary admission: a queued call takes its ticket first.
Enter(r) ==
    IF Path(r) = "queued" THEN Goto(r, "top") /\ line' = Append(line, r)
                          ELSE Goto(r, "fast") /\ UNCHANGED line

\* A chat handler takes a pre-warm of its id out of the registry before it asks.
Arrive(r) ==
    /\ pc[r] = "idle"
    /\ Path(r) \in {"plain", "queued"}
    /\ prewarm' = prewarm \ {Sid(r)}
    /\ IF CapBound(r) THEN Goto(r, "cap") /\ UNCHANGED line ELSE Enter(r)
    /\ UNCHANGED <<ledger, ring, ringOrder, parked, passed, live, alive, mode,
                   reaping, recon, victim, back>>
    /\ Remember

\* _make_room_under_user_cap, the lock hold.
CapCheck(r) ==
    /\ pc[r] = "cap"
    /\ \/ /\ Sid(r) \in Tracked
          /\ AdmitTracked(r)
       \/ /\ Sid(r) \notin Tracked /\ ~AtUserCap(User(r))
          /\ Enter(r)
          /\ UNCHANGED ledger
       \/ /\ Sid(r) \notin Tracked /\ AtUserCap(User(r))
          /\ Goto(r, "capscan")
          /\ UNCHANGED <<ledger, line>>
    /\ UNCHANGED <<ring, ringOrder, parked, passed, world, victim, back>>
    /\ Remember

\* The plain path's one look; a speculative acquire has no other.
FastPath(r) ==
    /\ pc[r] = "fast"
    /\ \/ /\ Sid(r) \in Tracked
          /\ AdmitTracked(r)
       \/ /\ Sid(r) \notin Tracked /\ HasRoom(E(r), FALSE)
          /\ IF CapBound(r) /\ AtUserCap(User(r))
             THEN Refuse(r, "user_cap")
             ELSE AdmitNew(r, User(r))
       \/ /\ Sid(r) \notin Tracked /\ ~HasRoom(E(r), FALSE)
          /\ Goto(r, "loop")
          /\ UNCHANGED <<ledger, line>>
    /\ UNCHANGED <<ring, ringOrder, parked, passed, world, victim, back>>
    /\ Remember

AcquireSpeculative(r) ==
    /\ pc[r] = "idle" /\ Path(r) = "speculative"
    /\ \/ /\ Sid(r) \in Tracked
          /\ AdmitTracked(r)
       \/ /\ Sid(r) \notin Tracked /\ SpeculativeRoom(E(r), User(r))
          /\ AdmitNew(r, User(r))
       \/ /\ Sid(r) \notin Tracked /\ ~SpeculativeRoom(E(r), User(r))
          /\ Refuse(r, "speculative")
    /\ UNCHANGED <<ring, ringOrder, parked, passed, world, victim, back>>
    /\ Remember

-----------------------------------------------------------------------------
(* _acquire_queued: the admission line *)

IsHead(r) == line # <<>> /\ Head(line) = r

\* Mutant: everybody in line attempts.
QueueTopAnybody(r) ==
    /\ pc[r] = "top"
    /\ Goto(r, "loop")
    /\ UNCHANGED <<ledger, queues, world, victim, back>>
    /\ Remember

\* Only the head attempts; the attempt begins with an await (_idle_timeout).
QueueTop(r) ==
    /\ pc[r] = "top"
    /\ Goto(r, IF IsHead(r) THEN "loop" ELSE "check")
    /\ UNCHANGED <<ledger, queues, world, victim, back>>
    /\ Remember

\* The lock hold before waiting.
QueueCheck(r) ==
    /\ pc[r] = "check"
    /\ \/ /\ Sid(r) \in Tracked
          /\ AdmitTracked(r)
       \/ /\ Sid(r) \notin Tracked /\ IsHead(r) /\ HasRoom(E(r), FALSE)
          /\ IF CapBound(r) /\ AtUserCap(User(r))
             THEN Refuse(r, "user_cap")
             ELSE AdmitNew(r, User(r))
       \/ /\ Sid(r) \notin Tracked /\ ~(IsHead(r) /\ HasRoom(E(r), FALSE))
          /\ Goto(r, "wait")
          /\ UNCHANGED <<ledger, line>>
    /\ UNCHANGED <<ring, ringOrder, parked, passed, world, victim, back>>
    /\ Remember

\* The same hold, past the deadline: no wait, the denial of the last round is
\* returned. Which of the two it was is not kept.
QueueDeadline(r) ==
    /\ pc[r] = "check"
    /\ Sid(r) \notin Tracked /\ ~(IsHead(r) /\ HasRoom(E(r), FALSE))
    /\ \E why \in {"busy", "busy_background"} : Refuse(r, why)
    /\ UNCHANGED <<ring, ringOrder, parked, passed, world, victim, back>>
    /\ Remember

QueueWake(r) ==
    /\ pc[r] = "wait"
    /\ Goto(r, "top")
    /\ UNCHANGED <<ledger, queues, world, victim, back>>
    /\ Remember

-----------------------------------------------------------------------------
(* _admit_with_eviction *)

AdmitLoop(r) ==
    /\ pc[r] = "loop"
    /\ \/ /\ Sid(r) \in Tracked
          /\ AdmitTracked(r)
       \/ /\ Sid(r) \notin Tracked /\ CapBound(r) /\ AtUserCap(User(r))
          /\ Refuse(r, "user_cap")
       \/ /\ Sid(r) \notin Tracked /\ ~(CapBound(r) /\ AtUserCap(User(r)))
          /\ \/ HasRoom(E(r), FALSE)
             \/ Tracked = {}               \* the last-resort admit
          /\ AdmitNew(r, User(r))
       \/ /\ Sid(r) \notin Tracked /\ ~(CapBound(r) /\ AtUserCap(User(r)))
          /\ ~HasRoom(E(r), FALSE) /\ Tracked # {}
          /\ IF Gate1(E(r), FALSE) /\ ~SessionsAccount(E(r))
             THEN Refuse(r, "host_memory")
             ELSE Goto(r, "scan") /\ UNCHANGED <<ledger, line>>
    /\ UNCHANGED <<ring, ringOrder, parked, passed, world, victim, back>>
    /\ Remember

\* _oldest_evictable_local: chat reservations of live sessions; an unclaimed
\* pre-warm at any age, others once idle, with background work only for the
\* maintenance pass, whose leash is shorter (and may not have run out either).
Evictable(r) ==
    {s \in Sids :
        /\ kind[s] = "chat" /\ alive[s]
        /\ pc[r] = "capscan" => owner[s] = User(r)
        /\ \/ s \in prewarm /\ Path(r) # "maintenance"
           \/ mode[s] = "idle"
           \/ mode[s] = "background" /\ Path(r) = "maintenance"}

Spared(r) ==
    {s \in Sids : kind[s] = "chat" /\ alive[s] /\ s \notin prewarm /\ mode[s] = "background"}

\* Pre-warms first, then the asking person's own, then anybody's.
Best(r) ==
    LET cands == Evictable(r)
        own   == {s \in cands : User(r) # NoUser /\ owner[s] = User(r)}
    IN  IF cands \cap prewarm # {} THEN cands \cap prewarm
        ELSE IF own # {} THEN own ELSE cands

Scan(r) ==
    /\ pc[r] \in {"scan", "capscan"}
    /\ \/ \E s \in Best(r) :
            /\ victim' = [victim EXCEPT ![r] = s]
            /\ back' = [back EXCEPT ![r] = IF pc[r] = "capscan" THEN "cap"
                                           ELSE IF Path(r) = "maintenance" THEN "idle"
                                           ELSE "loop"]
            /\ Goto(r, IF s \in prewarm THEN "claim" ELSE "remove")
            /\ UNCHANGED line
       \/ /\ \A s \in Evictable(r) : mode[s] = "background" /\ Path(r) = "maintenance"
          /\ UNCHANGED <<victim, back>>
          /\ IF pc[r] = "capscan" THEN Goto(r, "user_cap") /\ Leave(r)
             ELSE /\ Goto(r, IF Path(r) = "maintenance" THEN "idle"
                             ELSE IF Spared(r) # {} THEN "verdictbg" ELSE "verdict")
                  /\ UNCHANGED line
    /\ UNCHANGED <<ledger, ring, ringOrder, parked, passed, world>>
    /\ Remember

\* Mutant: the head of the line tries again at once, past its deadline.
VerdictSpins(r) ==
    /\ pc[r] \in {"verdict", "verdictbg"}
    /\ IF Path(r) = "queued" THEN Goto(r, "loop") /\ UNCHANGED <<ledger, line>>
                             ELSE Refuse(r, "busy")
    /\ UNCHANGED <<ring, ringOrder, parked, passed, world, victim, back>>
    /\ Remember

\* Nothing left to evict: attribute the denial.  A queued call waits on unless
\* memory is the cause.
Verdict(r) ==
    /\ pc[r] \in {"verdict", "verdictbg"}
    /\ IF Gate1(E(r), FALSE) /\ ~SessionsAccount(E(r)) THEN Refuse(r, "host_memory")
       ELSE IF Path(r) = "queued" THEN Goto(r, "check") /\ UNCHANGED <<ledger, line>>
       ELSE Refuse(r, IF pc[r] = "verdictbg" THEN "busy_background" ELSE "busy")
    /\ UNCHANGED <<ring, ringOrder, parked, passed, world, victim, back>>
    /\ Remember

-----------------------------------------------------------------------------
(* _evict_one *)

\* A pre-warm must be taken from its registry first: if somebody just claimed
\* it for reuse it is a real session now and is left alone.
EvictClaim(r) ==
    /\ pc[r] = "claim"
    /\ prewarm' = prewarm \ {victim[r]}
    /\ Goto(r, IF victim[r] \in prewarm THEN "remove" ELSE back[r])
    /\ UNCHANGED <<ledger, queues, live, alive, mode, reaping, recon, victim, back>>
    /\ Remember

EvictRemove(r) ==
    /\ pc[r] = "remove"
    /\ Drop({victim[r]})
    /\ Goto(r, IF victim[r] \in Tracked THEN "close" ELSE back[r])
    /\ UNCHANGED <<queues, world, victim, back>>
    /\ Remember

\* close_session pops the registry entry, then closes the process, which is
\* slow, then releases the slot of its id.  A close that raises is logged and
\* skips that release.
EvictClose(r) ==
    /\ pc[r] = "close"
    /\ alive' = [alive EXCEPT ![victim[r]] = FALSE]
    /\ mode' = [mode EXCEPT ![victim[r]] = "active"]
    /\ prewarm' = prewarm \ {victim[r]}
    /\ \/ Goto(r, "release")
       \/ Goto(r, back[r])
    /\ UNCHANGED <<ledger, queues, live, reaping, recon, victim, back>>
    /\ Remember

EvictRelease(r) ==
    /\ pc[r] = "release"
    /\ Drop({victim[r]})
    /\ Goto(r, back[r])
    /\ UNCHANGED <<queues, world, victim, back>>
    /\ Remember

\* _maintenance_pass: evicts only while somebody is parked and the budget full.
MaintenancePass(r) ==
    /\ pc[r] = "idle" /\ Path(r) = "maintenance"
    /\ parked > 0
    /\ ~Gate1(Heavy, TRUE)
    /\ Goto(r, "scan")
    /\ UNCHANGED <<ledger, queues, world, victim, back>>
    /\ Remember

-----------------------------------------------------------------------------
(* _acquire_task: the ring of parked tasks *)

RingEmpty == \A k \in Creators : ring[k] = <<>>

RingJoin(r) ==
    LET k == Req[r].creator IN
    /\ ring' = [ring EXCEPT ![k] = Append(@, r)]
    /\ ringOrder' = IF ring[k] = <<>> THEN Append(ringOrder, k) ELSE ringOrder

\* Mutant: the creator returns to the order with nobody waiting.
RingRotateAlways(r) ==
    LET k == Req[r].creator IN
    /\ ring' = [ring EXCEPT ![k] = RemoveFirst(@, r)]
    /\ ringOrder' = Append(RemoveFirst(ringOrder, k), k)

\* Mutant: no rotation after an admission.
RingLeaveOnly(r) ==
    LET k    == Req[r].creator
        rest == RemoveFirst(ring[k], r)
    IN
    /\ ring' = [ring EXCEPT ![k] = rest]
    /\ ringOrder' = IF rest = <<>> THEN RemoveFirst(ringOrder, k) ELSE ringOrder

\* Mutant: whoever leaves takes the head's ticket along.
RingLeaveHead(r) ==
    LET k    == Req[r].creator
        rest == Tail(ring[k])
    IN
    /\ ring' = [ring EXCEPT ![k] = rest]
    /\ ringOrder' = LET others == RemoveFirst(ringOrder, k)
                    IN  IF rest = <<>> THEN others ELSE Append(others, k)

\* _ring_leave then _ring_rotate: the creator goes to the back while it still
\* has somebody waiting.
RingLeaveRotate(r) ==
    LET k    == Req[r].creator
        rest == RemoveFirst(ring[k], r)
    IN
    /\ ring' = [ring EXCEPT ![k] = rest]
    /\ ringOrder' = LET others == RemoveFirst(ringOrder, k)
                    IN  IF rest = <<>> THEN others ELSE Append(others, k)

\* The head of the first creator, in ring order, whose head fits.
RingTurn(r) ==
    \E i \in 1..Len(ringOrder) :
        /\ ring[ringOrder[i]] # <<>>
        /\ Head(ring[ringOrder[i]]) = r
        /\ HasRoom(E(r), TRUE)
        /\ \A m \in 1..(i - 1) :
              ring[ringOrder[m]] # <<>> => ~HasRoom(E(Head(ring[ringOrder[m]])), TRUE)

AcquireTask(r) ==
    /\ pc[r] = "idle" /\ Path(r) = "task"
    /\ \/ /\ Sid(r) \in Tracked
          /\ FillOwner(Sid(r), User(r))
          /\ Goto(r, "admitted")
          /\ UNCHANGED queues
       \/ /\ Sid(r) \notin Tracked /\ HasRoom(E(r), TRUE) /\ RingEmpty
          /\ Add(Sid(r), Req[r].kind, User(r))
          /\ Goto(r, "admitted")
          /\ UNCHANGED queues
       \/ /\ Sid(r) \notin Tracked /\ ~(HasRoom(E(r), TRUE) /\ RingEmpty)
          /\ RingJoin(r)
          /\ parked' = parked + 1
          /\ Goto(r, "parked")
          /\ UNCHANGED <<ledger, line, passed>>
    /\ UNCHANGED <<world, victim, back>>
    /\ Remember

\* The waiter's predicate holds: it leaves the ring and adds itself in the same
\* lock hold.
RingAdmit(r) ==
    /\ pc[r] = "parked"
    /\ parked' = parked - 1
    /\ RingLeaveRotate(r)
    /\ Goto(r, "admitted")
    /\ \/ /\ Sid(r) \in Tracked
          /\ FillOwner(Sid(r), User(r))
          /\ UNCHANGED passed
       \/ /\ Sid(r) \notin Tracked /\ RingTurn(r)
          /\ Add(Sid(r), Req[r].kind, User(r))
          /\ passed' = [q \in Reqs |->
                 IF pc[q] = "parked" /\ Req[q].creator # Req[r].creator
                 THEN [passed[q] EXCEPT ![Req[r].creator] = @ + 1] ELSE passed[q]]
    /\ UNCHANGED <<line, world, victim, back>>
    /\ Remember

-----------------------------------------------------------------------------
(* reserve_background: a wake of a chat whose session is gone *)

WakeEnds(r, place) ==
    /\ Goto(r, place)
    /\ parked' = IF pc[r] = "waking" THEN parked - 1 ELSE parked

\* taken(): the id is tracked; then the check and the add of one lock hold.
WakeLook(r) ==
    \/ /\ Sid(r) \in Tracked
       /\ WakeEnds(r, "superseded")
       /\ UNCHANGED ledger
    \/ /\ Sid(r) \notin Tracked /\ HasRoom(E(r), TRUE)
       /\ Add(Sid(r), "chat", NoUser)
       /\ WakeEnds(r, "admitted")

ReserveBackground(r) ==
    /\ pc[r] = "idle" /\ Path(r) = "wake"
    /\ \/ WakeLook(r)
       \/ /\ Sid(r) \notin Tracked /\ ~HasRoom(E(r), TRUE)
          /\ Goto(r, "waking")
          /\ parked' = parked + 1
          /\ UNCHANGED ledger
    /\ UNCHANGED <<line, ring, ringOrder, passed, world, victim, back>>
    /\ Remember

WakeRecheck(r) ==
    /\ pc[r] = "waking"
    /\ WakeLook(r)
    /\ UNCHANGED <<line, ring, ringOrder, passed, world, victim, back>>
    /\ Remember

\* taken(), its other half: the caller's predicate, which is not decided here,
\* says that somebody uses the chat.
WakeGivesWay(r) ==
    /\ Path(r) = "wake" /\ pc[r] \in {"idle", "waking"}
    /\ WakeEnds(r, "superseded")
    /\ UNCHANGED <<ledger, line, ring, ringOrder, passed, world, victim, back>>
    /\ Remember

WakeTimeout(r) ==
    /\ pc[r] = "waking"
    /\ Sid(r) \notin Tracked /\ ~HasRoom(E(r), TRUE)
    /\ WakeEnds(r, "timeout")
    /\ UNCHANGED <<ledger, line, ring, ringOrder, passed, world, victim, back>>
    /\ Remember

-----------------------------------------------------------------------------
(* acquire_meeting_slots / release_meeting_slots: all or nothing *)

AcquireMeeting(r) ==
    LET new   == Participants \ Tracked
        total == EstSum(new)
    IN
    /\ pc[r] = "idle" /\ Path(r) = "meeting"
    /\ IF (Cap # 0 => Cardinality(Tracked) + Cardinality(new) <= Cap)
          /\ reserved + total <= Budget /\ Gate2(total, FALSE)
       THEN /\ kind' = [s \in Sids |-> IF s \in new THEN "meeting" ELSE kind[s]]
            /\ owner' = [s \in Sids |-> IF s \in new THEN NoUser ELSE owner[s]]
            /\ age' = [s \in Sids |-> IF s \in new THEN "new" ELSE age[s]]
            /\ reserved' = reserved + total
            /\ Goto(r, "running")
            /\ alive' = [s \in Sids |-> alive[s] \/ s \in Participants]
       ELSE /\ Goto(r, IF reserved + total <= Budget
                          /\ (Cap # 0 => Cardinality(Tracked) + Cardinality(new) <= Cap)
                       THEN "host_memory" ELSE "busy")
            /\ UNCHANGED <<ledger, alive>>
    /\ UNCHANGED <<queues, live, mode, prewarm, reaping, recon, victim, back>>
    /\ Remember

-----------------------------------------------------------------------------
(* The sessions behind the reservations *)

\* start_session of an admitted id, or the re-attach to one that is alive.  Two
\* calls for one id share one start.
Spawn(s) ==
    /\ Spawners(s) # {}
    /\ alive' = [alive EXCEPT ![s] = TRUE]
    /\ prewarm' = IF ~alive[s] /\ \A r \in Spawners(s) : Path(r) = "speculative"
                  THEN prewarm \cup {s} ELSE prewarm
    /\ pc' = [r \in Reqs |-> IF r \in Spawners(s)
                             THEN IF Path(r) = "task" THEN "running" ELSE "done"
                             ELSE pc[r]]
    /\ UNCHANGED <<ledger, queues, live, mode, reaping, recon, victim, back>>
    /\ Remember

\* A start that raises releases what was acquired for it.
SpawnFails(s) ==
    /\ Spawners(s) # {} /\ ~alive[s]
    /\ Drop({s})
    /\ pc' = [r \in Reqs |-> IF r \in Spawners(s) THEN "gone" ELSE pc[r]]
    /\ UNCHANGED <<queues, world, victim, back>>
    /\ Remember

\* A chat handler cancelled between its acquire and its start: "except
\* Exception" does not see it, and the slot stays.
Abandon(r) ==
    /\ pc[r] = "admitted" /\ Path(r) \in {"plain", "queued", "speculative"}
    /\ Goto(r, "gone")
    /\ UNCHANGED <<ledger, queues, world, victim, back>>
    /\ Remember

\* task_slot and the meeting release on exit, whatever happened.
RunEnds(r) ==
    LET own == Seats(r) IN
    /\ pc[r] = "running"
    /\ alive' = [s \in Sids |-> alive[s] /\ s \notin own]
    /\ mode' = [s \in Sids |-> IF s \in own THEN "active" ELSE mode[s]]
    /\ prewarm' = prewarm \ own
    /\ Drop(own)
    /\ Goto(r, "gone")
    /\ UNCHANGED <<queues, live, reaping, recon, victim, back>>
    /\ Remember

\* A person at the keyboard, a turn, background work, time.
SetMode(s, m) ==
    /\ alive[s] /\ mode[s] # m
    /\ mode' = [mode EXCEPT ![s] = m]
    /\ UNCHANGED <<ledger, queues, live, alive, prewarm, reaping, recon, control>>
    /\ Remember

\* reap_session, a closed tab, a model switch: the registry entry goes first,
\* the slot when the close is over.
CloseBegins(s) ==
    /\ alive[s] /\ kind[s] \notin {"task", "meeting"} /\ s \notin reaping
    /\ alive' = [alive EXCEPT ![s] = FALSE]
    /\ mode' = [mode EXCEPT ![s] = "active"]
    /\ prewarm' = prewarm \ {s}
    /\ reaping' = reaping \cup {s}
    /\ UNCHANGED <<ledger, queues, live, recon, control>>
    /\ Remember

CloseEnds(s) ==
    /\ s \in reaping
    /\ reaping' = reaping \ {s}
    /\ Drop({s})
    /\ UNCHANGED <<queues, live, alive, mode, prewarm, recon, control>>
    /\ Remember

\* Grow-in window and reconciliation grace pass.  Assumes a spawn takes less
\* than the reconciler's two minutes.
AgeOut(s) ==
    /\ s \in Tracked /\ age[s] = "new" /\ Spawners(s) = {} /\ s \notin recon
    /\ age' = [age EXCEPT ![s] = "old"]
    /\ UNCHANGED <<kind, owner, reserved, queues, world, control>>
    /\ Remember

HostMemory ==
    /\ live' \in Readings \ {live}
    /\ UNCHANGED <<ledger, queues, alive, mode, prewarm, reaping, recon, control>>
    /\ Remember

\* reconcile_chat_slots: the registries and the clock are read first, the slots
\* are freed under the lock.
ReconcileReads ==
    /\ recon = {}
    /\ recon' = {s \in Tracked : ~alive[s] /\ age[s] = "old"}
    /\ recon' # {}
    /\ UNCHANGED <<ledger, queues, live, alive, mode, prewarm, reaping, control>>
    /\ Remember

\* Mutant: chats are left out as tasks are.
ReconcileFreesFew ==
    /\ recon # {}
    /\ Drop({s \in recon : kind[s] \notin {"none", "task", "chat"}})
    /\ recon' = {}
    /\ UNCHANGED <<queues, live, alive, mode, prewarm, reaping, control>>
    /\ Remember

\* Mutant: under the lock the age is not looked at.
ReconcileFreesStale ==
    /\ recon # {}
    /\ Drop({s \in recon : kind[s] \notin {"none", "task"}})
    /\ recon' = {}
    /\ UNCHANGED <<queues, live, alive, mode, prewarm, reaping, control>>
    /\ Remember

ReconcileFrees ==
    /\ recon # {}
    /\ Drop({s \in recon : kind[s] \notin {"none", "task"} /\ age[s] = "old"})
    /\ recon' = {}
    /\ UNCHANGED <<queues, live, alive, mode, prewarm, reaping, control>>
    /\ Remember

\* The task of a waiting call is cancelled (socket closed, run stopped): the
\* finally blocks run.
Cancel(r) ==
    /\ \/ /\ pc[r] \in Waiting \cup {"cap", "capscan", "loop", "scan"} /\ Path(r) # "maintenance"
          /\ Leave(r)
          /\ UNCHANGED <<ring, ringOrder, parked>>
       \/ /\ pc[r] = "parked"
          /\ RingLeaveRotate(r)
          /\ parked' = parked - 1
          /\ UNCHANGED line
       \/ /\ pc[r] = "waking"
          /\ parked' = parked - 1
          /\ UNCHANGED <<line, ring, ringOrder>>
    /\ Goto(r, "gone")
    /\ UNCHANGED <<ledger, passed, world, victim, back>>
    /\ Remember

-----------------------------------------------------------------------------
Evict(r) == EvictClaim(r) \/ EvictRemove(r) \/ EvictClose(r) \/ EvictRelease(r)

Next ==
    \/ \E r \in Reqs :
        \/ Arrive(r) \/ CapCheck(r) \/ FastPath(r) \/ AcquireSpeculative(r)
        \/ QueueTop(r) \/ QueueCheck(r) \/ QueueDeadline(r) \/ QueueWake(r)
        \/ AdmitLoop(r) \/ Scan(r) \/ Verdict(r)
        \/ EvictClaim(r) \/ EvictRemove(r) \/ EvictClose(r) \/ EvictRelease(r)
        \/ MaintenancePass(r)
        \/ AcquireTask(r) \/ RingAdmit(r)
        \/ ReserveBackground(r) \/ WakeRecheck(r) \/ WakeGivesWay(r) \/ WakeTimeout(r)
        \/ AcquireMeeting(r)
        \/ Abandon(r) \/ RunEnds(r) \/ Cancel(r)
    \/ \E s \in Sids :
        \/ Spawn(s) \/ SpawnFails(s) \/ CloseBegins(s) \/ CloseEnds(s) \/ AgeOut(s)
        \/ \E m \in {"active", "idle", "background"} : SetMode(s, m)
    \/ HostMemory
    \/ ReconcileReads \/ ReconcileFrees

Spec == Init /\ [][Next]_vars

\* What a call does next by itself: at any place at most one of these.
Proceed(r) ==
    \/ CapCheck(r) \/ FastPath(r)
    \/ QueueTop(r) \/ QueueCheck(r) \/ QueueWake(r)
    \/ AdmitLoop(r) \/ Scan(r) \/ Verdict(r) \/ Evict(r)
    \/ RingAdmit(r) \/ WakeRecheck(r)
    \/ RunEnds(r)

\* The loop runs every call that can go on, deadlines pass, closes and runs end
\* (both have timeouts) and the reconciliation loop ticks.  Nobody has to ask,
\* to cancel, to be idle or to leave, and the host need not change.
Fairness ==
    /\ \A r \in Reqs :
        WF_vars(Proceed(r)) /\ SF_vars(QueueDeadline(r)) /\ WF_vars(WakeTimeout(r))
    /\ \A s \in Sids :
        /\ WF_vars(Spawn(s)) /\ WF_vars(AgeOut(s))
        /\ WF_vars(CloseEnds(s))
    /\ WF_vars(ReconcileReads) /\ WF_vars(ReconcileFrees)

FairSpec == Spec /\ Fairness

\* People leave: every session is closed some day, by its person or as idle.
LeavingSpec == FairSpec /\ \A s \in Sids : WF_vars(CloseBegins(s))

-----------------------------------------------------------------------------
(* Properties *)

\* "_reserved_mb: cached sum of _session_est": the cache never drifts from the
\* ledger, whichever of release, eviction, reconciler and failed spawn came
\* first for an id, and the clamp at zero in _remove never hides a difference.
LedgerExact == reserved = EstSum(Tracked)

\* What is really reserved (not the cached sum the gates read) overruns the
\* budget by the last-resort admit alone, and only while that session is the
\* only one; the count cap is never overrun.
BudgetKept ==
    /\ EstSum(Tracked) <= Budget \/ Cardinality(Tracked) = 1
    /\ Cap # 0 => Cardinality(Tracked) <= Cap

\* "background work never consumes the room a human interactive session needs":
\* tasks together always leave one heavy reserve of the budget.
TaskHeadroomKept ==
    LET tasks == {s \in Sids : kind[s] = "task"}
    IN  tasks # {} => EstSum(tasks) + Heavy <= Budget

\* A new chat never takes its person past their cap: not even when a second tab
\* took the seat while this one was queued or was evicting.
NewChatKeepsCap ==
    [][\A r \in Reqs :
          /\ CapBound(r) /\ Sid(r) \notin Tracked
          /\ pc[r] # "admitted" /\ pc'[r] = "admitted"
          => Owned(User(r))' <= UserCap]_vars

\* A ticket is in line exactly while its call is inside _acquire_queued:
\* a refused, admitted or cancelled call never holds the line.
InQueue(r) ==
    /\ Path(r) = "queued"
    /\ \/ pc[r] \in Waiting \cup Trying
       \/ pc[r] \in Evicting /\ back[r] = "loop"

LineExact ==
    /\ \A r \in Reqs : Contains(line, r) <=> InQueue(r)
    /\ \A i, k \in 1..Len(line) : line[i] = line[k] => i = k

\* "Only the head attempts": the check at the top of the loop is still true
\* after the awaits of the attempt, so nobody is overtaken inside the line.
OnlyHeadAttempts ==
    \A r \in Reqs :
        InQueue(r) /\ pc[r] \in Trying \cup Evicting => IsHead(r)

\* The ring holds every parked task once, in its creator's queue, and the order
\* has exactly the creators that have somebody waiting, each once.
RingExact ==
    /\ \A r \in Reqs : pc[r] = "parked" <=> Contains(ring[Req[r].creator], r)
    /\ \A k \in Creators :
          /\ \A i, m \in 1..Len(ring[k]) : ring[k][i] = ring[k][m] => i = m
          /\ Contains(ringOrder, k) <=> ring[k] # <<>>
    /\ \A i, m \in 1..Len(ringOrder) : ringOrder[i] = ringOrder[m] => i = m

\* "a single run waits behind at most one run of each other creator".
SingleRun(r) ==
    Path(r) = "task" /\ \A q \in Reqs \ {r} : Path(q) = "task" => Req[q].creator # Req[r].creator

RingFair ==
    \A r \in Reqs : SingleRun(r) /\ pc[r] = "parked" =>
        \A k \in Creators : passed[r][k] <= 1

\* A session that runs holds a slot, or the one who took it is closing it: however
\* evictors with stale scans, reapers, ends of runs and the reconciler meet on it.
\* Only a return to a session that is being closed, or to a slot left behind, ends
\* in one that runs without a slot.
SlotBacksSession ==
    \A s \in Sids : alive[s] /\ s \notin returned =>
        s \in Tracked \/ \E r \in Reqs : pc[r] = "close" /\ victim[r] = s

\* _evict_one: "The later release() from close_session is a no-op (already
\* removed)."
LateReleaseIsNoop ==
    \A r \in Reqs : pc[r] = "release" => victim[r] \notin Tracked

\* reconcile_chat_slots: "sids added within the last sweep are spared (mid-spawn
\* window)": the reconciler never takes a slot from a call that is starting its
\* session.
MidSpawnIsSpared ==
    [][ReconcileFrees => \A s \in Tracked : Spawners(s) # {} => s \in Tracked']_vars

\* "the veto never locks an EMPTY platform out": a plain interactive call is not
\* refused for want of room while no session at all is tracked.
NoLockout ==
    [][\A r \in Reqs :
          /\ Path(r) = "plain"
          /\ pc[r] \notin Refusals
          /\ pc'[r] \in {"busy", "busy_background", "host_memory"}
          => Tracked # {}]_vars

\* A slot nobody stands behind (its handler was cancelled between acquire and
\* start) is given back.
OrphansAreFreed == \A s \in Sids : []<>~Orphan(s)

\* A person in line and a background wake get an answer, whatever the sessions
\* that fill the box do: the waits have deadlines that no path around the loop
\* skips.
Answered(r) == pc[r] \in {"admitted", "running", "done", "gone"} \cup Refusals

WaitsEnd ==
    \A r \in Reqs : Path(r) \in {"queued", "wake"} => []<>(pc[r] = "idle" \/ Answered(r))

\* A parked task has no deadline: it runs once there is room, which needs people
\* who leave (LeavingSpec), and no cancelled neighbour holds its place.
ParkedTasksRun ==
    \A r \in Reqs : Path(r) = "task" => []<>(pc[r] = "idle" \/ Answered(r))

=============================================================================
