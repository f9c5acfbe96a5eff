----------------------------- MODULE InputQueue ------------------------------
(***************************************************************************)
(* The input queue of one chat (core/events/input_queue.py): the messages  *)
(* typed while its turn runs, the table that keeps them across a restart,  *)
(* the chat's writer lane their rows travel on, and everybody who takes    *)
(* them out: the producer of the running turn, a viewer on its way out of  *)
(* a turn, the headless delivery, an idle send, Stop, Edit and a           *)
(* revocation.  A step is what the event loop runs between two awaits, one *)
(* job of the lane, or one statement on the table made off the lane.       *)
(***************************************************************************)
EXTENDS Integers, Sequences, FiniteSets, SequencesExt

CONSTANTS
    Msgs,        \* messages, each its queue_id
    Authors,     \* people; a person is also the process of their viewer's drain
    Author,      \* Author[m]: who typed m
    Frames,      \* chat frames, each the process of its handler
    Of,          \* Of[f]: the message frame f carries (two frames: a re-send)
    Tasks,       \* processes of the headless delivery
    Stop, Edit, Ender,  \* processes: _on_abort, a cancel, _after_pump_end
    None,
    Cap,         \* CAP
    SharedOnly,  \* the chat runs as the agent: a producer drains its own person's only
    Steers,      \* the engine takes input into a running turn
    Breakable,   \* kinds of lane jobs that may fail
    PumpRaises,  \* an event handler of the pump may raise
    MaxFails, MaxCrashes, MaxStops, MaxDefers, MaxRevokes, MaxEnds   \* bounds

Procs == Tasks \cup Authors \cup Frames \cup {Stop, Edit, Ender}

ASSUME QueueAssumption ==
    /\ Author \in [Msgs -> Authors] /\ Of \in [Frames -> Msgs]
    /\ SharedOnly \in BOOLEAN /\ Steers \in BOOLEAN /\ PumpRaises \in BOOLEAN
    /\ Cap \in Nat
    /\ {MaxFails, MaxCrashes, MaxStops, MaxDefers, MaxRevokes, MaxEnds} \subseteq Nat
    /\ None \notin Procs
    /\ IsFiniteSet(Msgs) /\ IsFiniteSet(Authors) /\ IsFiniteSet(Frames)
    /\ Tasks \cap Authors = {} /\ Tasks \cap Frames = {} /\ Authors \cap Frames = {}
    /\ {Stop, Edit, Ender} \cap (Tasks \cup Authors \cup Frames) = {}
    /\ Stop # Edit /\ Stop # Ender /\ Edit # Ender

VARIABLES
    items, seqOf, seq,   \* items (their order is that of qi.seq) and _seq
    accepted, dropped,   \* accepted, _dropped
    ld, snap,            \* load(): "no" | "listed" (the rows read) | "yes"
    claim,               \* _claim: the process that holds it
    armed,               \* a delivery was spawned and has not run yet
    rows, chat,          \* chat_input_queue and the person's rows in chat_messages
    lane,                \* the chat's lane: jobs not run yet
    pump,                \* the registered pump
    evq,                 \* its event queue: what the producer and steers put there
    gen,                 \* how many turns were started
    ends,                \* pump ends whose _after_pump_end has not run yet
    pc, held, todo,      \* per process: place, messages taken, authors to visit
    stopGen,             \* the turn a Stop was aimed at
    revoking,            \* drop_where between its DELETE and the registry
    present,             \* people with a connection object in this process
    visit,               \* people who came back and have not opened the chat since
    sent,                \* history: how often the engine got a message
    back,                \* history: messages given back to their author
    ack,                 \* history: messages whose queued chip went out
    revoked,             \* history: messages a revocation removed
    owed, lost,          \* history: row gone, not given back yet; lost in a crash then
    order,               \* history: the order in which messages were queued
    used                 \* how much of each bound is used

queue   == <<items, seqOf, seq, accepted, dropped>>
loading == <<ld, snap, visit>>
tables  == <<rows, chat>>
turn    == <<pump, evq, gen>>
procs   == <<pc, held, todo>>
fates   == <<sent, back, ack, revoked, owed, lost, order>>
vars == <<queue, loading, claim, armed, tables, lane, turn, ends, procs, stopGen,
          revoking, present, fates, used>>

NoPump == [st |-> "none", prod |-> "none", batch |-> <<>>, upto |-> None,
           completed |-> FALSE, stopped |-> FALSE, waits |-> FALSE, runner |-> None]

NewPump(prod, batch, a) ==
    [NoPump EXCEPT !.st = "live", !.prod = prod, !.batch = batch, !.runner = a]

Live    == pump.st = "live"
Bounds  == {"fail", "crash", "stop", "defer", "revoke"}
Limit   == [fail |-> MaxFails, crash |-> MaxCrashes, stop |-> MaxStops,
            defer |-> MaxDefers, revoke |-> MaxRevokes]
Spend(b) == used[b] < Limit[b] /\ used' = [used EXCEPT ![b] = @ + 1]

Init ==
    /\ items = {} /\ seqOf = [m \in Msgs |-> 0] /\ seq = 0
    /\ accepted = {} /\ dropped = {}
    /\ ld = "no" /\ snap = <<>>
    /\ claim = None /\ armed = FALSE
    /\ rows = <<>> /\ chat = <<>> /\ lane = <<>>
    /\ \/ pump = NoPump
       \/ \E a \in Authors : pump = NewPump("turn", <<>>, a)
    /\ evq = <<>> /\ gen = 0 /\ ends = <<>>
    /\ pc = [p \in Procs |-> "off"] /\ held = [p \in Procs |-> {}]
    /\ todo = [p \in Procs |-> <<>>]
    /\ stopGen = 0 /\ revoking = <<>> /\ present = Authors /\ visit = {}
    /\ sent = [m \in Msgs |-> 0] /\ back = {} /\ ack = {} /\ revoked = {}
    /\ owed = {} /\ lost = {} /\ order = <<>>
    /\ used = [b \in Bounds |-> 0]

-----------------------------------------------------------------------------
(* The queue object *)

By(a)        == {m \in items : Author[m] = a}

\* The members of S, the one with the smallest key first.
Ranked(S, key) ==
    [n \in 1..Cardinality(S) |->
        CHOOSE m \in S : Cardinality({x \in S : key[x] <= key[m]}) = n]

InOrder(S) == Ranked(S, seqOf)

Without(s, S) ==
    LET at == Ranked({i \in 1..Len(s) : s[i] \notin S}, [i \in 1..Len(s) |-> i])
    IN  [n \in 1..Len(at) |-> s[at[n]]]

\* Mutant: a dropped entry comes back with the rest.
PutBackAll(S) == items \cup S

\* put_back: an entry a revocation dropped meanwhile stays gone.
PutBack(S) == items \cup (S \ dropped)

\* Mutant: only the pump is looked at.
ClaimableUnheld == ~Live /\ (pump.st = "done" => pump.upto = None)

\* try_claim: no other holder, no pump but one that is done and has nothing to
\* return.
Claimable == claim = None /\ ~Live /\ (pump.st = "done" => pump.upto = None)

\* release, when the queue is left with `left` and the pump with `st`.
Release(rearm, left, st) ==
    /\ claim' = None
    /\ armed' = (armed \/ (rearm /\ left # {} /\ st # "live"))

Job(k, ids, p) == [k |-> k, ids |-> ids, p |-> p, g |-> gen]
Submit(j) == lane' = Append(lane, j)
Goto(p, l) == pc' = [pc EXCEPT ![p] = l]

\* load: the rows are listed by one statement, the chat is read by another, and
\* the loop takes the result up after both.
LoadRead ==
    /\ ld = "no" /\ ld' = "listed" /\ snap' = rows
    /\ UNCHANGED <<queue, visit, claim, armed, tables, lane, turn, ends, procs, stopGen,
                   revoking, present, fates, used>>

\* Mutant: the rows read are numbered below what came meanwhile.
LoadEndBelow ==
    LET new == Without(snap, items) IN
    /\ ld = "listed" /\ ld' = "yes" /\ snap' = <<>>
    /\ items' = items \cup ToSet(new)
    /\ seqOf' = [m \in Msgs |-> IF m \in ToSet(new)
                                THEN (CHOOSE i \in 1..Len(new) : new[i] = m) - Len(new) - 1
                                ELSE seqOf[m]]
    /\ seq' = seq
    /\ armed' = (armed \/ new # <<>>)
    /\ UNCHANGED <<accepted, dropped, visit, claim, tables, lane, turn, ends, procs, stopGen,
                   revoking, present, fates, used>>

\* Mutant: what a load brings in is left for the next touch.
LoadEndUnarmed ==
    LET new == Without(snap, items) IN
    /\ ld = "listed" /\ ld' = "yes" /\ snap' = <<>>
    /\ items' = items \cup ToSet(new)
    /\ seqOf' = [m \in Msgs |-> IF m \in ToSet(new)
                                THEN seq + (CHOOSE i \in 1..Len(new) : new[i] = m)
                                ELSE seqOf[m]]
    /\ seq' = seq + Len(new)
    /\ UNCHANGED <<accepted, dropped, visit, claim, armed, tables, lane, turn, ends, procs, stopGen,
                   revoking, present, fates, used>>

LoadEnd ==
    LET new == Without(snap, items) IN
    /\ ld = "listed" /\ ld' = "yes" /\ snap' = <<>>
    /\ items' = items \cup ToSet(new)
    /\ seqOf' = [m \in Msgs |-> IF m \in ToSet(new)
                                THEN seq + (CHOOSE i \in 1..Len(new) : new[i] = m)
                                ELSE seqOf[m]]
    /\ seq' = seq + Len(new)
    /\ armed' = (armed \/ new # <<>>)
    /\ UNCHANGED <<accepted, dropped, visit, claim, tables, lane, turn, ends, procs, stopGen,
                   revoking, present, fates, used>>

-----------------------------------------------------------------------------
(* A chat frame: _on_chat of a socket on the running turn, or _handle_chat *)

Who(f) == Author[Of[f]]

\* The socket is on a live pump: a re-send of what waits or was taken is answered,
\* a message nobody of the same person waits ahead of is offered to the running
\* turn, any other is queued.
SendBusy(f) ==
    LET m == Of[f] IN
    /\ pc[f] = "off" /\ ld = "yes" /\ Live /\ Who(f) \in present
    /\ Goto(f, IF m \in items \cup accepted THEN "done"
               ELSE IF Steers /\ By(Who(f)) = {} THEN "steer" ELSE "add")
    /\ UNCHANGED <<queue, loading, claim, armed, tables, lane, turn, ends, held, todo,
                   stopGen, revoking, present, fates, used>>

\* layer.steer answers: the engine took it, and its row follows what the turn
\* produced before it (record_steer; record_steer_late once the pump is done).
Steered(f) ==
    LET m == Of[f] IN
    /\ pc[f] = "steer" /\ Live /\ pump.prod = "turn"
    /\ sent' = [sent EXCEPT ![m] = @ + 1]
    /\ Goto(f, "steered")
    /\ UNCHANGED <<queue, loading, claim, armed, tables, lane, turn, ends, held, todo,
                   stopGen, revoking, present, back, ack, revoked, owed, lost, order, used>>

RecordSteer(f) ==
    LET m == Of[f] IN
    /\ pc[f] = "steered"
    /\ accepted' = accepted \cup {m}
    /\ \/ Live /\ evq' = Append(evq, [k |-> "steer", ids |-> <<m>>]) /\ UNCHANGED lane
       \/ ~Live /\ Submit(Job("steer", <<m>>, f)) /\ UNCHANGED evq
    /\ Goto(f, "done")
    /\ UNCHANGED <<items, seqOf, seq, dropped, loading, claim, armed, tables, pump, gen,
                   ends, held, todo, stopGen, revoking, present, fates, used>>

SteerRefused(f) ==
    /\ pc[f] = "steer"
    /\ Goto(f, "add")
    /\ UNCHANGED <<queue, loading, claim, armed, tables, lane, turn, ends, held, todo,
                   stopGen, revoking, present, fates, used>>

\* Mutant: the chip goes out before the row landed.
AddUnawaited(f) ==
    LET m == Of[f]
        new == m \notin items \cup accepted /\ Cardinality(items) < Cap IN
    /\ pc[f] = "add" /\ ld = "yes"
    /\ IF new
       THEN /\ items' = items \cup {m}
            /\ seq' = seq + 1 /\ seqOf' = [seqOf EXCEPT ![m] = seq + 1]
            /\ order' = Append(order, m)
            /\ Submit(Job("add", <<m>>, f))
       ELSE UNCHANGED <<items, seq, seqOf, order, lane>>
    /\ Goto(f, IF new \/ m \in items THEN "added" ELSE "done")
    /\ UNCHANGED <<accepted, dropped, loading, claim, armed, tables, turn, ends, held, todo,
                   stopGen, revoking, present, sent, back, ack, revoked, owed, lost, used>>

\* add, up to the await of its row: a duplicate, an accepted id and a full queue
\* add nothing, and a send refused for it lets go of the claim it may hold.
Add(f) ==
    LET m == Of[f]
        new == m \notin items \cup accepted /\ Cardinality(items) < Cap IN
    /\ pc[f] = "add" /\ ld = "yes"
    /\ IF new
       THEN /\ items' = items \cup {m}
            /\ seq' = seq + 1 /\ seqOf' = [seqOf EXCEPT ![m] = seq + 1]
            /\ order' = Append(order, m)
            /\ Submit(Job("add", <<m>>, f))
            /\ Goto(f, "adding")
            /\ UNCHANGED <<claim, armed>>
       ELSE /\ UNCHANGED <<items, seq, seqOf, order, lane>>
            /\ Goto(f, IF m \in items THEN "added" ELSE "done")
            /\ IF claim = f /\ m \notin items THEN Release(TRUE, items, pump.st)
                                              ELSE UNCHANGED <<claim, armed>>
    /\ UNCHANGED <<accepted, dropped, loading, tables, turn, ends, held, todo,
                   stopGen, revoking, present, sent, back, ack, revoked, owed, lost, used>>

\* The row landed: the chip goes out, and with no pump left to drain the message
\* its delivery is armed.  A send that queued itself for a reconnect still holds
\* the claim and lets go of it now.
Added(f) ==
    /\ pc[f] = "added"
    /\ ack' = ack \cup (items \cap {Of[f]})
    /\ IF claim = f THEN Release(TRUE, items, pump.st)
                    ELSE armed' = (armed \/ ~Live) /\ UNCHANGED claim
    /\ Goto(f, "done")
    /\ UNCHANGED <<queue, loading, tables, lane, turn, ends, held, todo, stopGen, revoking,
                   present, sent, back, revoked, owed, lost, order, used>>

\* An idle send: it claims the chat for its turn, or waits in the queue.
SendIdle(f) ==
    LET m == Of[f] IN
    /\ pc[f] = "off" /\ ld = "yes" /\ Who(f) \in present
    /\ \/ /\ m \in accepted /\ Goto(f, "done") /\ UNCHANGED <<accepted, claim>>
       \/ /\ m \notin accepted /\ ~Claimable /\ Goto(f, "add") /\ UNCHANGED <<accepted, claim>>
       \/ /\ m \notin accepted /\ Claimable
          /\ claim' = f /\ accepted' = accepted \cup {m} /\ Goto(f, "gates")
    /\ UNCHANGED <<items, seqOf, seq, dropped, loading, armed, tables, lane, turn, ends, held,
                   todo, stopGen, revoking, present, fates, used>>

\* The gates and the heal: refused, the machine is reconnecting (the message
\* waits, no longer counted as taken), or ready: the person's waiting messages
\* ride along, their rows ahead of this one's in one lane job.
Refused(f) ==
    /\ pc[f] = "gates" /\ Spend("defer")
    /\ Release(TRUE, items, pump.st) /\ Goto(f, "done")
    /\ UNCHANGED <<queue, loading, tables, lane, turn, ends, held, todo, stopGen, revoking,
                   present, fates>>

QueueUntilReconnect(f) ==
    /\ pc[f] = "gates" /\ Spend("defer")
    /\ accepted' = accepted \ {Of[f]} /\ Goto(f, "add")
    /\ UNCHANGED <<items, seqOf, seq, dropped, loading, claim, armed, tables, lane, turn, ends,
                   held, todo, stopGen, revoking, present, fates>>

SendJob(f) ==
    LET mine == By(Who(f)) IN
    /\ pc[f] = "gates"
    /\ items' = items \ mine
    /\ held' = [held EXCEPT ![f] = mine]
    /\ accepted' = accepted \cup mine
    /\ Submit(Job("send", Append(InOrder(mine), Of[f]), f))
    /\ Goto(f, "storing")
    /\ UNCHANGED <<seqOf, seq, dropped, loading, claim, armed, tables, turn, ends, todo,
                   stopGen, revoking, present, fates, used>>

\* The rows stand: the turn starts with the whole batch, or it cannot start (the
\* person is told, and a card keeps the text).
StartTurn(f) ==
    LET ids == Append(InOrder(held[f]), Of[f]) IN
    /\ pc[f] = "stored"
    /\ \/ /\ pump' = NewPump("turn", <<>>, Who(f)) /\ evq' = <<>> /\ gen' = gen + 1
          /\ sent' = [m \in Msgs |-> IF m \in ToSet(ids) THEN sent[m] + 1 ELSE sent[m]]
          /\ Release(TRUE, items, "live")
          /\ UNCHANGED used
       \/ /\ Spend("defer")
          /\ Release(TRUE, items, pump.st)
          /\ UNCHANGED <<turn, sent>>
    /\ held' = [held EXCEPT ![f] = {}]
    /\ Goto(f, "done")
    /\ UNCHANGED <<queue, loading, tables, lane, ends, todo, stopGen, revoking, present,
                   back, ack, revoked, owed, lost, order>>

\* The send's job raised: the claim goes, what was taken is in no hand any more.
SendFailed(f) ==
    /\ pc[f] = "failed"
    /\ IF claim = f THEN Release(TRUE, items, pump.st) ELSE UNCHANGED <<claim, armed>>
    /\ held' = [held EXCEPT ![f] = {}]
    /\ Goto(f, "done")
    /\ UNCHANGED <<queue, loading, tables, lane, turn, ends, todo, stopGen, revoking, present,
                   fates, used>>

-----------------------------------------------------------------------------
(* deliver: the headless delivery, one author after the other *)

DeliverStart(t) ==
    LET first(a) == CHOOSE m \in By(a) : \A n \in By(a) : seqOf[m] <= seqOf[n]
        who == {Author[m] : m \in items} IN
    /\ pc[t] = "off" /\ armed /\ ld = "yes"
    /\ armed' = FALSE
    /\ todo' = [todo EXCEPT ![t] =
                  Ranked(who, [a \in who |-> seqOf[first(a)]])]
    /\ Goto(t, "loop")
    /\ UNCHANGED <<queue, loading, claim, tables, lane, turn, ends, held, stopGen, revoking,
                   present, fates, used>>

\* The next author on the list: skipped when nothing of theirs waits or nobody can
\* drive their turn; the whole delivery ends on a live pump or a claimed chat.
DeliverNext(t) ==
    LET a == Head(todo[t]) IN
    /\ pc[t] = "loop"
    /\ \/ /\ todo[t] = <<>> \/ Live
          /\ Goto(t, "off") /\ todo' = [todo EXCEPT ![t] = <<>>]
          /\ UNCHANGED <<items, held, claim>>
       \/ /\ todo[t] # <<>> /\ ~Live
          /\ By(a) = {} \/ a \notin present
          /\ todo' = [todo EXCEPT ![t] = Tail(@)]
          /\ UNCHANGED <<items, pc, held, claim>>
       \/ /\ todo[t] # <<>> /\ ~Live /\ By(a) # {} /\ a \in present
          /\ IF Claimable
             THEN /\ claim' = t
                  /\ held' = [held EXCEPT ![t] = By(a)]
                  /\ items' = items \ By(a)
                  /\ Goto(t, "starting") /\ UNCHANGED todo
             ELSE /\ Goto(t, "off") /\ todo' = [todo EXCEPT ![t] = <<>>]
                  /\ UNCHANGED <<items, held, claim>>
    /\ UNCHANGED <<seqOf, seq, accepted, dropped, loading, armed, tables, lane, turn, ends,
                   stopGen, revoking, present, fates, used>>

\* The pump of process p's batch is registered and its rows are submitted
\* (_announce_sent) before anything else runs; the engine waits for them.
Launch(p, a) ==
    LET ids == InOrder(held[p]) IN
    /\ pump' = NewPump("rows", ids, a) /\ evq' = <<>> /\ gen' = gen + 1
    /\ lane' = Append(lane, [k |-> "accept", ids |-> ids, p |-> None, g |-> gen + 1])
    /\ accepted' = accepted \cup held[p]
    /\ held' = [held EXCEPT ![p] = {}]
    /\ Release(TRUE, items, "live")

DeliverSent(t) ==
    /\ pc[t] = "starting"
    /\ Launch(t, Head(todo[t]))
    /\ Goto(t, "off") /\ todo' = [todo EXCEPT ![t] = <<>>]
    /\ UNCHANGED <<items, seqOf, seq, dropped, loading, tables, ends, stopGen, revoking,
                   present, fates, used>>

\* Mutant: a deferred batch is forgotten.
DeliverDeferredForgets(t) ==
    /\ pc[t] = "starting" /\ Spend("defer")
    /\ held' = [held EXCEPT ![t] = {}]
    /\ Release(FALSE, {}, "none")
    /\ Goto(t, "off") /\ todo' = [todo EXCEPT ![t] = <<>>]
    /\ UNCHANGED <<queue, loading, tables, lane, turn, ends, stopGen, revoking, present, fates>>

\* Mutant: a deferred batch goes behind what came meanwhile.
DeliverDeferredBehind(t) ==
    /\ pc[t] = "starting" /\ Spend("defer")
    /\ items' = PutBack(held[t])
    /\ seq' = seq + 1
    /\ seqOf' = [m \in Msgs |-> IF m \in held[t] THEN seq + 1 ELSE seqOf[m]]
    /\ held' = [held EXCEPT ![t] = {}]
    /\ Release(FALSE, {}, "none")
    /\ Goto(t, "off") /\ todo' = [todo EXCEPT ![t] = <<>>]
    /\ UNCHANGED <<accepted, dropped, loading, tables, lane, turn, ends, stopGen, revoking,
                   present, fates>>

\* DELIVERY_DEFERRED, a raise included: the batch goes back, the claim without
\* arming.
DeliverDeferred(t) ==
    /\ pc[t] = "starting" /\ Spend("defer")
    /\ items' = PutBack(held[t])
    /\ held' = [held EXCEPT ![t] = {}]
    /\ Release(FALSE, {}, "none")
    /\ Goto(t, "off") /\ todo' = [todo EXCEPT ![t] = <<>>]
    /\ UNCHANGED <<seqOf, seq, accepted, dropped, loading, tables, lane, turn, ends, stopGen,
                   revoking, present, fates>>

\* DELIVERY_GATED: the author may not run it, the batch is returned.
DeliverGated(t) ==
    /\ pc[t] = "starting" /\ Spend("defer")
    /\ Release(TRUE, items, pump.st)
    /\ Submit(Job("drop", InOrder(held[t]), t))
    /\ Goto(t, "dropping") /\ todo' = [todo EXCEPT ![t] = Tail(@)]
    /\ UNCHANGED <<queue, loading, tables, turn, ends, held, stopGen, revoking, present, fates>>

-----------------------------------------------------------------------------
(* _drain_input_queue: a viewer's own messages on the way out of a turn *)

DrainClaim(a) ==
    /\ pc[a] = "off" /\ ld = "yes" /\ a \in present
    /\ By(a) # {} /\ Claimable
    /\ claim' = a /\ Goto(a, "gates")
    /\ UNCHANGED <<queue, loading, armed, tables, lane, turn, ends, held, todo, stopGen,
                   revoking, present, fates, used>>

\* The gates refuse: what waits goes back while the claim is held ...
DrainGated(a) ==
    /\ pc[a] = "gates" /\ Spend("defer")
    /\ items' = items \ By(a)
    /\ held' = [held EXCEPT ![a] = By(a)]
    /\ IF By(a) = {} THEN Goto(a, "letgo") /\ UNCHANGED lane
       ELSE Submit(Job("drop", InOrder(By(a)), a)) /\ Goto(a, "dropping")
    /\ UNCHANGED <<seqOf, seq, accepted, dropped, loading, claim, armed, tables, turn, ends,
                   todo, stopGen, revoking, present, fates>>

\* ... or let it pass: the messages are taken, and the session is healed.
DrainTake(a) ==
    /\ pc[a] = "gates"
    /\ items' = items \ By(a)
    /\ held' = [held EXCEPT ![a] = By(a)]
    /\ Goto(a, IF By(a) = {} THEN "letgo" ELSE "starting")
    /\ UNCHANGED <<seqOf, seq, accepted, dropped, loading, claim, armed, tables, lane, turn,
                   ends, todo, stopGen, revoking, present, fates, used>>

DrainSent(a) ==
    /\ pc[a] = "starting"
    /\ Launch(a, a)
    /\ Goto(a, "off")
    /\ UNCHANGED <<items, seqOf, seq, dropped, loading, tables, ends, todo, stopGen, revoking,
                   present, fates, used>>

\* No turn: the machine is away (_defer_drain, no arming), the heal failed or
\* raised (put back, then released), or no pump came (released, then put back).
DrainDeferred(a) ==
    /\ pc[a] = "starting" /\ Spend("defer")
    /\ items' = PutBack(held[a])
    /\ held' = [held EXCEPT ![a] = {}]
    /\ \/ Release(FALSE, {}, "none")
       \/ Release(TRUE, PutBack(held[a]), pump.st)
       \/ Release(TRUE, items, pump.st)
    /\ Goto(a, "off")
    /\ UNCHANGED <<seqOf, seq, accepted, dropped, loading, tables, lane, turn, ends, todo,
                   stopGen, revoking, present, fates>>

DrainLetsGo(a) ==
    /\ pc[a] = "letgo"
    /\ Release(TRUE, items, pump.st) /\ Goto(a, "off")
    /\ UNCHANGED <<queue, loading, tables, lane, turn, ends, held, todo, stopGen, revoking,
                   present, fates, used>>

-----------------------------------------------------------------------------
(* The turn: its producer, its pump *)

DrainAs(m) == ~SharedOnly \/ Author[m] = pump.runner

\* Mutant: the producer reads the batch and leaves it in the queue.
TurnEndsCopies ==
    LET next == {m \in items : DrainAs(m)} IN
    /\ Live /\ pump.prod = "turn"
    /\ IF next # {}
       THEN /\ pump' = [pump EXCEPT !.prod = "accept", !.batch = InOrder(next)]
            /\ evq' = Append(evq, [k |-> "turn", ids |-> InOrder(next)])
       ELSE /\ pump' = [pump EXCEPT !.prod = "ended"]
            /\ evq' = Append(evq, [k |-> "done", ids |-> <<>>])
    /\ UNCHANGED <<queue, loading, claim, armed, tables, lane, gen, ends, procs, stopGen,
                   revoking, present, fates, used>>

\* Mutant: the next engine turn starts before its rows are written.
TurnEndsAtOnce ==
    LET next == {m \in items : DrainAs(m)} IN
    /\ Live /\ pump.prod = "turn"
    /\ items' = items \ next
    /\ sent' = [m \in Msgs |-> IF m \in next THEN sent[m] + 1 ELSE sent[m]]
    /\ IF next # {}
       THEN /\ evq' = Append(evq, [k |-> "turn", ids |-> InOrder(next)])
            /\ UNCHANGED pump
       ELSE /\ pump' = [pump EXCEPT !.prod = "ended"]
            /\ evq' = Append(evq, [k |-> "done", ids |-> <<>>])
    /\ UNCHANGED <<seqOf, seq, accepted, dropped, loading, claim, armed, tables, lane, gen,
                   ends, procs, stopGen, revoking, present, back, ack, revoked, owed, lost,
                   order, used>>

\* An engine turn ends well: the producer takes what waits as its next turn, or
\* closes; nothing runs between its last look and the close.
TurnEnds ==
    LET next == {m \in items : DrainAs(m)} IN
    /\ Live /\ pump.prod = "turn"
    /\ IF next # {}
       THEN /\ items' = items \ next
            /\ pump' = [pump EXCEPT !.prod = "accept", !.batch = InOrder(next)]
            /\ evq' = Append(evq, [k |-> "turn", ids |-> InOrder(next)])
       ELSE /\ UNCHANGED items
            /\ pump' = [pump EXCEPT !.prod = "ended"]
            /\ evq' = Append(evq, [k |-> "done", ids |-> <<>>])
    /\ UNCHANGED <<seqOf, seq, accepted, dropped, loading, claim, armed, tables, lane, gen,
                   ends, procs, stopGen, revoking, present, fates, used>>

\* The engine reports an error: nothing more is sent into the session.
TurnFails ==
    /\ Live /\ pump.prod = "turn" /\ Spend("fail")
    /\ pump' = [pump EXCEPT !.prod = "ended"]
    /\ evq' = evq \o <<[k |-> "error", ids |-> <<>>], [k |-> "done", ids |-> <<>>]>>
    /\ UNCHANGED <<queue, loading, claim, armed, tables, lane, gen, ends, procs, stopGen,
                   revoking, present, fates>>

\* The end of the pump's loop (_persist_tail): the producer is cancelled, a steer
\* still in the event queue gets its row, anything else in there is dropped.  The
\* turn-end job is the last of the turn on the lane.
LoopEnds(up, completed) ==
    LET late == Without(evq, {e \in ToSet(evq) : e.k # "steer"}) IN
    /\ pump' = [pump EXCEPT !.st = "done", !.prod = "ended", !.batch = <<>>,
                            !.upto = up, !.completed = completed]
    /\ lane' = Append(lane \o [i \in 1..Len(late) |-> Job("steer", late[i].ids, None)],
                      Job("end", <<>>, None))
    /\ accepted' = accepted \cup UNION {ToSet(late[i].ids) : i \in 1..Len(late)}
    /\ evq' = <<>>

PumpReads(k) == Live /\ ~pump.waits /\ evq # <<>> /\ Head(evq).k = k

\* A queued turn or a steer: its rows go on the lane, and the pump waits for them.
PumpAccepts ==
    /\ PumpReads("turn") \/ PumpReads("steer")
    /\ Submit(Job(Head(evq).k, Head(evq).ids, None))
    /\ accepted' = accepted \cup ToSet(Head(evq).ids)
    /\ pump' = [pump EXCEPT !.waits = TRUE]
    /\ evq' = Tail(evq)
    /\ UNCHANGED <<items, seqOf, seq, dropped, loading, claim, armed, tables, gen, ends, procs,
                   stopGen, revoking, present, fates, used>>

\* ERROR: what was queued until now goes back at the pump's end.
PumpError ==
    /\ PumpReads("error")
    /\ LoopEnds(seq, FALSE)
    /\ UNCHANGED <<items, seqOf, seq, dropped, loading, claim, armed, tables, gen, ends, procs,
                   stopGen, revoking, present, fates, used>>

PumpDone ==
    /\ PumpReads("done")
    /\ LoopEnds(None, TRUE)
    /\ UNCHANGED <<items, seqOf, seq, dropped, loading, claim, armed, tables, gen, ends, procs,
                   stopGen, revoking, present, fates, used>>

\* The handling of an event of the turn raises.
PumpDies ==
    /\ PumpRaises /\ Live /\ ~pump.waits /\ Spend("fail")
    /\ LoopEnds(None, FALSE)
    /\ UNCHANGED <<items, seqOf, seq, dropped, loading, claim, armed, tables, gen, ends, procs,
                   stopGen, revoking, present, fates>>

\* _end_turn: once its rows landed (_drain_writes), the pump leaves the registry and
\* hands the queue on.
PumpEnds ==
    LET up == IF pump.upto = None /\ ~pump.completed /\ ~pump.stopped THEN seq
              ELSE pump.upto IN
    /\ pump.st = "done" /\ Len(ends) < MaxEnds
    /\ \A i \in 1..Len(lane) : lane[i].k # "end" \/ lane[i].g # gen
    /\ pump' = NoPump
    /\ ends' = Append(ends, up)
    /\ UNCHANGED <<queue, loading, claim, armed, tables, lane, evq, gen, procs, stopGen,
                   revoking, present, fates, used>>

\* _after_pump_end: what waited for a failed turn goes back; then the rest is
\* delivered.
AfterEnd ==
    LET S == {m \in items : Head(ends) # None /\ seqOf[m] <= Head(ends)} IN
    /\ pc[Ender] = "off" /\ ends # <<>> /\ ld = "yes"
    /\ ends' = Tail(ends)
    /\ items' = items \ S
    /\ held' = [held EXCEPT ![Ender] = S]
    /\ IF S = {} THEN armed' = (armed \/ items # {}) /\ UNCHANGED <<lane, pc>>
       ELSE Submit(Job("drop", InOrder(S), Ender)) /\ Goto(Ender, "dropping") /\ UNCHANGED armed
    /\ UNCHANGED <<seqOf, seq, accepted, dropped, loading, claim, tables, turn, todo, stopGen,
                   revoking, present, fates, used>>

-----------------------------------------------------------------------------
(* The lane runs one job at a time, in order; its future resumes who waits *)

ToEngine(ids) == sent' = [m \in Msgs |-> IF m \in ToSet(ids) THEN sent[m] + 1 ELSE sent[m]]

\* The producer that waits for these rows: _announce_sent's rows_first, or the
\* accepted future of a queued turn.
Waiter(j) ==
    /\ Live /\ j.g = gen
    /\ (j.k = "accept" /\ pump.prod = "rows") \/ (j.k = "turn" /\ pump.prod = "accept")

\* The pump that waits for them in its loop.
PumpWaits(j) == Live /\ pump.waits /\ j.g = gen /\ j.p = None /\ j.k \in {"turn", "steer"}

JobAdd(j) ==
    /\ j.k = "add"
    /\ rows' = IF j.ids[1] \in ToSet(rows) THEN rows ELSE rows \o j.ids
    /\ Goto(j.p, "added")
    /\ UNCHANGED <<chat, pump, sent, owed>>

\* accept_chat_inputs, one transaction: the queue rows go, the person's rows come.
\* Then the engine gets what a producer waited for.
JobAccept(j) ==
    /\ j.k \in {"accept", "turn", "steer"}
    /\ rows' = Without(rows, ToSet(j.ids)) /\ chat' = chat \o j.ids
    /\ IF Waiter(j) THEN ToEngine(j.ids) ELSE UNCHANGED sent
    /\ pump' = [pump EXCEPT !.waits = @ /\ ~PumpWaits(j),
                            !.prod = IF Waiter(j) THEN "turn" ELSE @,
                            !.batch = IF Waiter(j) THEN <<>> ELSE @]
    /\ UNCHANGED <<pc, owed>>

JobSend(j) ==
    /\ j.k = "send"
    /\ rows' = Without(rows, ToSet(j.ids)) /\ chat' = chat \o j.ids
    /\ Goto(j.p, "stored")
    /\ UNCHANGED <<pump, sent, owed>>

JobDrop(j) ==
    /\ j.k = "drop"
    /\ rows' = Without(rows, ToSet(j.ids)) /\ owed' = owed \cup ToSet(j.ids)
    /\ Goto(j.p, "dropped")
    /\ UNCHANGED <<chat, pump, sent>>

JobEnd(j) ==
    /\ j.k = "end"
    /\ UNCHANGED <<tables, pump, pc, sent, owed>>

LaneRuns ==
    /\ lane # <<>> /\ lane' = Tail(lane)
    /\ LET j == Head(lane) IN JobAdd(j) \/ JobAccept(j) \/ JobSend(j) \/ JobDrop(j) \/ JobEnd(j)
    /\ UNCHANGED <<queue, loading, claim, armed, evq, gen, ends, held, todo, stopGen, revoking,
                   present, back, ack, revoked, lost, order, used>>

Failure == <<[k |-> "error", ids |-> <<>>], [k |-> "done", ids |-> <<>>]>>

\* Mutant: an accept that raised may have committed, and its batch goes back.
JobFailsLate(j) ==
    /\ j.k \in Breakable /\ j.k \in {"accept", "turn"} /\ Waiter(j)
    /\ rows' = Without(rows, ToSet(j.ids)) /\ chat' = chat \o j.ids
    /\ items' = PutBack(ToSet(j.ids))
    /\ evq' = evq \o Failure
    /\ pump' = [pump EXCEPT !.prod = "ended", !.batch = <<>>]
    /\ UNCHANGED pc

\* A job raises.  A delivery's batch goes back whoever still waits.  A queued
\* turn's goes back if its producer sees the failure before the pump, which reads
\* its own ERROR without yielding, cancels it; a cancelled producer puts nothing
\* back.  An idle send's job is two transactions: the first may stand.
JobFails(j) ==
    /\ j.k \in Breakable
    /\ \/ /\ j.k = "accept" /\ items' = PutBack(ToSet(j.ids))
       \/ /\ j.k = "turn" /\ Waiter(j) /\ items' = PutBack(ToSet(j.ids))
       \/ /\ j.k # "accept" /\ UNCHANGED items
    /\ evq' = IF Waiter(j) THEN evq \o Failure
              ELSE IF PumpWaits(j) THEN Append(evq, Head(Failure)) ELSE evq
    /\ pump' = [pump EXCEPT !.waits = @ /\ ~PumpWaits(j),
                            !.prod = IF Waiter(j) THEN "ended" ELSE @,
                            !.batch = IF Waiter(j) THEN <<>> ELSE @]
    /\ pc' = IF j.k \in {"add", "send", "drop"} THEN [pc EXCEPT ![j.p] = "failed"] ELSE pc
    /\ \/ UNCHANGED tables
       \/ /\ j.k = "send" /\ held[j.p] # {}
          /\ rows' = Without(rows, held[j.p]) /\ chat' = chat \o InOrder(held[j.p])

LaneFails ==
    /\ lane # <<>> /\ lane' = Tail(lane) /\ Spend("fail")
    /\ JobFails(Head(lane))
    /\ UNCHANGED <<seqOf, seq, accepted, dropped, loading, claim, armed, gen, ends, held, todo,
                   stopGen, revoking, present, fates>>

-----------------------------------------------------------------------------
(* return_items, once its rows are gone: the composer, and the card *)

Returners == Tasks \cup Authors \cup {Stop, Edit, Ender}

Resume(p) ==
    CASE p \in Tasks   -> "loop"
      [] p \in Authors -> "letgo"
      [] p = Stop      -> "abort"
      [] OTHER         -> "off"

GiveBack(p) ==
    /\ pc[p] = "dropped"
    /\ back' = back \cup held[p] /\ owed' = owed \ held[p]
    /\ held' = [held EXCEPT ![p] = {}]
    /\ armed' = (armed \/ (p = Ender /\ items # {}))
    /\ Goto(p, Resume(p))
    /\ UNCHANGED <<queue, loading, claim, tables, lane, turn, ends, todo, stopGen, revoking,
                   present, sent, ack, revoked, lost, order, used>>

\* The drop raised: the caller ends there.
GiveBackFails(p) ==
    /\ pc[p] = "failed"
    /\ held' = [held EXCEPT ![p] = {}]
    /\ todo' = [todo EXCEPT ![p] = <<>>]
    /\ Goto(p, IF p \in Authors THEN "letgo" ELSE "off")
    /\ UNCHANGED <<queue, loading, claim, armed, tables, lane, turn, ends, stopGen, revoking,
                   present, fates, used>>

\* Stop: the pump owns no failure any more; while its flags are written and the
\* engine is told, the turn goes on.
StopTurn ==
    /\ pc[Stop] = "off" /\ Live /\ Spend("stop")
    /\ pump' = [pump EXCEPT !.stopped = TRUE]
    /\ stopGen' = gen
    /\ Goto(Stop, "stopping")
    /\ UNCHANGED <<queue, loading, claim, armed, tables, lane, evq, gen, ends, held, todo,
                   revoking, present, fates>>

\* Mutant: Stop hands out what waits and leaves it in the queue.
StopReturnsCopy ==
    /\ pc[Stop] = "stopping" /\ ld = "yes"
    /\ held' = [held EXCEPT ![Stop] = items]
    /\ IF items = {} THEN Goto(Stop, "abort") /\ UNCHANGED lane
       ELSE Submit(Job("drop", InOrder(items), Stop)) /\ Goto(Stop, "dropping")
    /\ UNCHANGED <<queue, loading, claim, armed, tables, turn, ends, todo, stopGen, revoking,
                   present, fates, used>>

\* return_all: everything that waits by now goes back.
StopReturns ==
    /\ pc[Stop] = "stopping" /\ ld = "yes"
    /\ items' = {} /\ held' = [held EXCEPT ![Stop] = items]
    /\ IF items = {} THEN Goto(Stop, "abort") /\ UNCHANGED lane
       ELSE Submit(Job("drop", InOrder(items), Stop)) /\ Goto(Stop, "dropping")
    /\ UNCHANGED <<seqOf, seq, accepted, dropped, loading, claim, armed, tables, turn, ends,
                   todo, stopGen, revoking, present, fates, used>>

\* The hard path cancels the producer of the turn the Stop was aimed at; on the
\* graceful one the engine ends that turn.
StopAborts ==
    /\ pc[Stop] = "abort" /\ Goto(Stop, "off")
    /\ \/ /\ Live /\ gen = stopGen /\ pump.prod # "ended"
          /\ pump' = [pump EXCEPT !.prod = "ended", !.batch = <<>>]
          /\ evq' = Append(evq, [k |-> "done", ids |-> <<>>])
       \/ UNCHANGED <<pump, evq>>
    /\ UNCHANGED <<queue, loading, claim, armed, tables, lane, gen, ends, held, todo, stopGen,
                   revoking, present, fates, used>>

\* A cancel of one message, or of all of a person's own.
Cancel(S) ==
    /\ pc[Edit] = "off" /\ ld = "yes" /\ S # {}
    /\ items' = items \ S /\ held' = [held EXCEPT ![Edit] = S]
    /\ Submit(Job("drop", InOrder(S), Edit)) /\ Goto(Edit, "dropping")
    /\ UNCHANGED <<seqOf, seq, accepted, dropped, loading, claim, armed, tables, turn, ends,
                   todo, stopGen, revoking, present, fates, used>>

CancelSome == \E a \in Authors : \E S \in {By(a)} \cup {{m} : m \in By(a)} : Cancel(S)

-----------------------------------------------------------------------------
(* drop_where: a person's sign-in ended, or they lost the chat *)

Revoke(a) ==
    /\ revoking = <<>> /\ a \in present /\ Spend("revoke")
    /\ rows' = Without(rows, {m \in Msgs : Author[m] = a})
    /\ revoking' = <<a, {m \in ToSet(rows) : Author[m] = a}>>
    /\ revoked' = revoked \cup revoking'[2]
    /\ present' \in {present, present \ {a}}   \* one connection of theirs, or all
    /\ UNCHANGED <<queue, loading, claim, armed, chat, lane, turn, ends, procs, stopGen,
                   sent, back, ack, owed, lost, order>>

RevokeEnds ==
    LET gone == revoking[2] \cup By(revoking[1]) IN
    /\ revoking # <<>> /\ revoking' = <<>>
    /\ dropped' = dropped \cup gone
    /\ items' = items \ By(revoking[1])
    /\ revoked' = revoked \cup gone
    /\ UNCHANGED <<seqOf, seq, accepted, loading, claim, armed, tables, lane, turn, ends, procs,
                   stopGen, present, sent, back, ack, owed, lost, order, used>>

-----------------------------------------------------------------------------
(* The process ends and comes back; people reconnect *)

Crash ==
    /\ Spend("crash")
    /\ items' = {} /\ seqOf' = [m \in Msgs |-> 0] /\ seq' = 0
    /\ accepted' = {} /\ dropped' = {}
    /\ ld' = "no" /\ snap' = <<>> /\ claim' = None /\ armed' = FALSE
    /\ lane' = <<>> /\ pump' = NoPump /\ evq' = <<>> /\ ends' = <<>>
    /\ pc' = [p \in Procs |-> IF p \in Frames /\ pc[p] # "off" THEN "done" ELSE "off"]
    /\ held' = [p \in Procs |-> {}] /\ todo' = [p \in Procs |-> <<>>]
    /\ revoking' = <<>> /\ present' = {} /\ visit' = {}
    /\ owed' = {} /\ lost' = lost \cup owed
    /\ UNCHANGED <<tables, gen, stopGen, sent, back, ack, revoked, order>>

\* A person the process has no connection of comes back: a delivery finds somebody
\* to run their turn, but none is armed.
Connect(a) ==
    /\ a \notin present /\ used["revoke"] = 0
    /\ present' = present \cup {a} /\ visit' = visit \cup {a}
    /\ UNCHANGED <<queue, ld, snap, claim, armed, tables, lane, turn, ends, procs, stopGen,
                   revoking, fates, used>>

\* The touch that somebody without a connection is waited for: the chat is made
\* ready for a person who opens it and sends nothing, and what waits is armed.
Touch(a) ==
    /\ a \in present
    /\ visit' = visit \ {a}
    /\ armed' = (armed \/ items # {})
    /\ UNCHANGED <<queue, ld, snap, claim, tables, lane, turn, ends, procs, stopGen, revoking,
                   present, fates, used>>

-----------------------------------------------------------------------------
Handler(f) ==
    \/ SendBusy(f) \/ SendIdle(f)
    \/ Steered(f) \/ RecordSteer(f) \/ SteerRefused(f) \/ Add(f) \/ Added(f)
    \/ Refused(f) \/ QueueUntilReconnect(f) \/ SendJob(f) \/ StartTurn(f) \/ SendFailed(f)

Delivery(t) ==
    DeliverStart(t) \/ DeliverNext(t) \/ DeliverSent(t) \/ DeliverDeferred(t) \/ DeliverGated(t)

Viewer(a) ==
    \/ DrainClaim(a) \/ DrainGated(a) \/ DrainTake(a) \/ DrainSent(a) \/ DrainDeferred(a)
    \/ DrainLetsGo(a)

Turn ==
    \/ TurnEnds \/ TurnFails
    \/ PumpAccepts \/ PumpError \/ PumpDone \/ PumpDies \/ PumpEnds \/ AfterEnd

Next ==
    \/ LoadRead \/ LoadEnd
    \/ \E f \in Frames : Handler(f)
    \/ \E t \in Tasks : Delivery(t)
    \/ \E a \in Authors : Viewer(a) \/ Revoke(a) \/ Connect(a) \/ Touch(a)
    \/ Turn
    \/ LaneRuns \/ LaneFails
    \/ \E p \in Returners : GiveBack(p) \/ GiveBackFails(p)
    \/ StopTurn \/ StopReturns \/ StopAborts \/ CancelSome
    \/ RevokeEnds \/ Crash

Spec == Init /\ [][Next]_vars

-----------------------------------------------------------------------------
TypeOK ==
    /\ items \subseteq Msgs /\ seqOf \in [Msgs -> Nat] /\ seq \in Nat
    /\ accepted \subseteq Msgs /\ dropped \subseteq Msgs
    /\ ld \in {"no", "listed", "yes"} /\ ToSet(snap) \subseteq Msgs
    /\ claim \in Procs \cup {None} /\ armed \in BOOLEAN /\ visit \subseteq Authors
    /\ ToSet(rows) \subseteq Msgs /\ ToSet(chat) \subseteq Msgs
    /\ pump.st \in {"none", "live", "done"}
    /\ pump.prod \in {"none", "rows", "turn", "accept", "ended"}
    /\ held \in [Procs -> SUBSET Msgs]
    /\ sent \in [Msgs -> Nat] /\ back \cup ack \cup revoked \cup owed \cup lost \subseteq Msgs

\* Everyone who has m in hand besides the table.
InHand ==
    items \cup (UNION {held[p] : p \in Procs}) \cup ToSet(pump.batch)
    \cup (UNION {ToSet(evq[i].ids) : i \in 1..Len(evq)})
    \cup (UNION {ToSet(lane[i].ids) : i \in 1..Len(lane)})

Occurs(m, s) == Cardinality({i \in 1..Len(s) : s[i] = m})

\* The engine gets a message its author sent once at most once, and the chat shows it
\* at most once, whoever takes it, whatever is put back, fails or is cut by a restart
\* (_accept_queue_turn: "a crash in between leaves the rows queued, never answered
\* twice").
NeverTwice == \A m \in Msgs : sent[m] <= 1 /\ Occurs(m, chat) <= 1

\* A message given back to its author's composer is not also in the chat or with
\* the engine: it would be sent again by hand.
OneFate == \A m \in back : sent[m] = 0 /\ m \notin ToSet(chat)

\* The engine gets a queued batch only once its rows are written.
RowsFirst == \A m \in Msgs : sent[m] <= Occurs(m, chat)

\* A message whose chip went out survives a restart: it has its queue row, or its
\* chat row, or its author has it back, or a revocation took it (or its return was
\* under way).
RestartSafe ==
    ack \subseteq ToSet(rows) \cup ToSet(chat) \cup back \cup revoked \cup owed \cup lost

\* The header: "so a proxy restart loses nothing".
NothingLost == lost = {}

\* A row of the loaded queue always has somebody who will send it or give it back:
\* nothing waits in the table that no process knows of.
NoneStranded == ld = "yes" => ToSet(rows) \subseteq InHand

\* drop_where: "gone from the table and the registry": once no job of it is left on
\* the lane, a revoked message neither waits nor has a row.
RevokedIsGone ==
    \A m \in revoked :
        revoking = <<>> /\ (\A i \in 1..Len(lane) : m \notin ToSet(lane[i].ids))
            => m \notin items \cup ToSet(rows)

\* _dropped: what a revocation removed comes back from no hand that held it at the
\* time (a load that read the rows before aside, RevokedIsGone).
DroppedStaysOut == [][ld = "yes" => (dropped \ items) \cap items' = {}]_vars

\* The claim: two starters never start two turns; a turn starts only on a chat
\* whose last one is over.
OneTurn == [][gen' # gen => ~Live]_vars

\* Messages of one person that were queued reach the chat in the order in which
\* they were queued, over put-backs, deferrals and restarts.
QueuedInOrder ==
    \A i, j \in 1..Len(chat) :
        LET at(m) == CHOOSE k \in 1..Len(order) : order[k] = m IN
        /\ i < j /\ Author[chat[i]] = Author[chat[j]]
        /\ {chat[i], chat[j]} \subseteq ToSet(order)
        => at(chat[i]) <= at(chat[j])

Fairness ==
    /\ WF_vars(LoadRead \/ LoadEnd) /\ WF_vars(LaneRuns)
    /\ \A f \in Frames :
          WF_vars(/\ pc[f] # "off" /\ Handler(f))
    /\ \A t \in Tasks : WF_vars(Delivery(t))
    /\ \A a \in Authors : WF_vars(pc[a] # "off" /\ Viewer(a))
    /\ WF_vars(\E a \in Authors : Connect(a) \/ (a \in visit /\ Touch(a)))
    /\ WF_vars(Turn)
    /\ WF_vars(\E p \in Returners : GiveBack(p))
    /\ WF_vars(StopReturns \/ StopAborts) /\ WF_vars(RevokeEnds)

FairSpec == Spec /\ Fairness

\* A queued message does not wait for ever, once everybody is back and has opened the
\* chat: some turn takes it, or it goes back.
WaitEnds == \A m \in Msgs : []<>(m \notin items)

=============================================================================
