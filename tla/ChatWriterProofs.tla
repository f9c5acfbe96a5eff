-------------------------- MODULE ChatWriterProofs --------------------------
(***************************************************************************)
(* Proofs about the writer lanes, for any number of chats, jobs and        *)
(* executor workers.                                                       *)
(***************************************************************************)
EXTENDS ChatWriter, SequenceTheorems, TLAPS

-----------------------------------------------------------------------------
(* The inductive invariant *)

\* A flusher awaits a job exactly while its lane is busy; no lane, no queue.
LaneInv ==
    \A c \in Chats :
        /\ lane[c] = "busy" <=> cur[c] # None
        /\ lane[c] = "absent" => queue[c] = <<>>

\* The awaited job belongs to the lane's chat and has left the queue.
CurInv ==
    \A c \in Chats :
        cur[c] # None =>
            /\ ChatOf[cur[c]] = c
            /\ state[cur[c]] \in {"handed", "running", "landed", "failed", "revoked"}

\* A lane's queue holds queued jobs of its chat, each once.
QueueInv ==
    \A c \in Chats :
        /\ \A i \in 1..Len(queue[c]) :
               ChatOf[queue[c][i]] = c /\ state[queue[c][i]] = "queued"
        /\ \A i, k \in 1..Len(queue[c]) : queue[c][i] = queue[c][k] => i = k

\* Conversely a queued job is in the queue of its chat.
QueuedInv ==
    \A j \in Jobs : state[j] = "queued" =>
        \E i \in 1..Len(queue[ChatOf[j]]) : queue[ChatOf[j]][i] = j

\* What is at the executor is what the flusher of its chat awaits.
ExecInv ==
    \A j \in Jobs : state[j] \in {"handed", "running", "revoked"} =>
        cur[ChatOf[j]] = j

\* The executor's own queue holds handed jobs, each once.
ExecQueueInv ==
    /\ \A i \in 1..Len(execq) : state[execq[i]] = "handed"
    /\ \A i, k \in 1..Len(execq) : execq[i] = execq[k] => i = k

\* The history variables agree with the jobs' states, and only a closed
\* executor revokes a job.
HistoryInv ==
    /\ \A j \in Jobs : j \in known <=> state[j] # "unborn"
    /\ \A j \in Jobs : state[j] \in {"revoked", "abandoned"} => stage = "closed"
    /\ \A c \in Chats : mark[c] \subseteq known \cap OfChat(c)

\* What a pump may rely on while it drains and once it stopped.
PumpInv ==
    \A c \in Chats :
        /\ pump[c] = "draining" => lane[c] # "absent"
        /\ pump[c] \in {"landed", "ready"} => \A j \in mark[c] : Settled(j)

\* What drain_all may rely on: an early job is decided or its flusher awaited.
DrainAllInv ==
    /\ \A c \in Chats : c \in awaited /\ stage = "draining" => lane[c] # "absent"
    /\ stage = "up" => late = {}
    /\ stage = "draining" =>
          \A j \in known \ late :
              ChatOf[j] \in awaited \/ state[j] \in {"landed", "failed"}
    /\ stage \in {"drained", "closed"} /\ clean =>
          \A j \in known \ late : state[j] \in {"landed", "failed"}

IInv ==
    /\ TypeOK
    /\ LaneInv
    /\ CurInv
    /\ QueueInv
    /\ QueuedInv
    /\ ExecInv
    /\ ExecQueueInv
    /\ HistoryInv
    /\ FuturesTell
    /\ PumpInv
    /\ DrainAllInv

-----------------------------------------------------------------------------
(* Sequences *)

\* The head and the tail of a queue that is not empty.
LEMMA TailFacts ==
    ASSUME NEW S, NEW q \in Seq(S), q # <<>>
    PROVE  /\ Len(q) \in Nat \ {0}
           /\ Head(q) = q[1]
           /\ Head(q) \in S
           /\ Tail(q) \in Seq(S)
           /\ Len(Tail(q)) = Len(q) - 1
           /\ \A i \in 1..(Len(q) - 1) : Tail(q)[i] = q[i + 1]
  OBVIOUS

\* An element joins the end of a queue.
LEMMA AppendFacts ==
    ASSUME NEW S, NEW q \in Seq(S), NEW e \in S
    PROVE  /\ Len(q) \in Nat
           /\ Append(q, e) \in Seq(S)
           /\ Len(Append(q, e)) = Len(q) + 1
           /\ \A i \in 1..Len(q) : Append(q, e)[i] = q[i]
           /\ Append(q, e)[Len(q) + 1] = e
  OBVIOUS

-----------------------------------------------------------------------------
(* Initial states and steps *)

\* No lane, no job, an empty executor.
LEMMA InitIInv == Init => IInv
  BY ConstantsAssumption
  DEF Init, IInv, TypeOK, LaneInv, CurInv, QueueInv, QueuedInv, ExecInv,
      ExecQueueInv, HistoryInv, FuturesTell, PumpInv, DrainAllInv, Settled,
      JobStates, Futures, OfChat

\* submit adds a job at the end of its chat's lane and starts a flusher if none runs.
LEMMA SubmitIInv ==
    ASSUME IInv, NEW j \in Jobs, Submit(j)
    PROVE  IInv'
<1> DEFINE c == ChatOf[j]
<1> USE ConstantsAssumption
<1>0. c \in Chats /\ j # None
  OBVIOUS
<1>1. TypeOK'
  BY AppendFacts DEF IInv, TypeOK, Submit, JobStates, Futures
<1>2. /\ queue'[c] = Append(queue[c], j)
      /\ \A d \in Chats : d # c => queue'[d] = queue[d]
      /\ Len(queue[c]) \in Nat
      /\ Len(queue'[c]) = Len(queue[c]) + 1
      /\ \A i \in 1..Len(queue[c]) : queue'[c][i] = queue[c][i]
      /\ queue'[c][Len(queue[c]) + 1] = j
  BY <1>0, AppendFacts DEF IInv, TypeOK, Submit
<1>3. LaneInv'
  BY <1>0, <1>2 DEF IInv, TypeOK, LaneInv, Submit
<1>4. CurInv'
  BY DEF IInv, TypeOK, CurInv, Submit
<1>5. QueueInv'
  <2> SUFFICES ASSUME NEW d \in Chats PROVE
        /\ \A i \in 1..Len(queue'[d]) :
               ChatOf[queue'[d][i]] = d /\ state'[queue'[d][i]] = "queued"
        /\ \A i, k \in 1..Len(queue'[d]) : queue'[d][i] = queue'[d][k] => i = k
    BY DEF QueueInv
  <2>1. CASE d # c
    BY <2>1, <1>2 DEF IInv, TypeOK, QueueInv, Submit
  <2>2. CASE d = c
    <3>1. \A i \in 1..Len(queue[c]) : queue[c][i] \in Jobs /\ queue[c][i] # j
      BY <1>0 DEF IInv, TypeOK, QueueInv, Submit
    <3>2. \A i \in 1..Len(queue'[c]) : i \in 1..Len(queue[c]) \/ i = Len(queue[c]) + 1
      BY <1>2
    <3>3. \A i \in 1..Len(queue'[c]) :
              ChatOf[queue'[c][i]] = c /\ state'[queue'[c][i]] = "queued"
      <4> SUFFICES ASSUME NEW i \in 1..Len(queue'[c])
                   PROVE  ChatOf[queue'[c][i]] = c /\ state'[queue'[c][i]] = "queued"
        OBVIOUS
      <4>1. state'[j] = "queued" /\ \A k \in Jobs : k # j => state'[k] = state[k]
        BY DEF IInv, TypeOK, Submit
      <4>2. CASE i = Len(queue[c]) + 1
        BY <4>1, <4>2, <1>2
      <4>3. CASE i \in 1..Len(queue[c])
        <5>1. ChatOf[queue[c][i]] = c /\ state[queue[c][i]] = "queued"
          BY <4>3, <1>0 DEF IInv, QueueInv
        <5> QED BY <5>1, <4>1, <4>3, <3>1, <1>2
      <4> QED BY <4>2, <4>3, <3>2
    <3>4. \A i, k \in 1..Len(queue'[c]) : queue'[c][i] = queue'[c][k] => i = k
      BY <3>1, <3>2, <1>0, <1>2 DEF IInv, QueueInv
    <3> QED
      BY <2>2, <3>3, <3>4
  <2> QED BY <2>1, <2>2
<1>6. QueuedInv'
  <2> SUFFICES ASSUME NEW k \in Jobs, state'[k] = "queued"
               PROVE  \E i \in 1..Len(queue'[ChatOf[k]]) : queue'[ChatOf[k]][i] = k
    BY DEF QueuedInv
  <2>1. CASE k = j
    BY <2>1, <1>2
  <2>2. CASE k # j
    <3>1. state[k] = "queued"
      BY <2>2 DEF IInv, TypeOK, Submit
    <3>2. PICK i \in 1..Len(queue[ChatOf[k]]) : queue[ChatOf[k]][i] = k
      BY <3>1 DEF IInv, QueuedInv
    <3> QED BY <3>2, <1>2, <1>0
  <2> QED BY <2>1, <2>2
<1>7. ExecInv' /\ ExecQueueInv'
  BY DEF IInv, TypeOK, ExecInv, ExecQueueInv, Submit
<1>8. HistoryInv'
  BY DEF IInv, TypeOK, HistoryInv, Submit
<1>9. FuturesTell'
  BY DEF IInv, TypeOK, FuturesTell, Submit, Settled
<1>10. PumpInv'
  BY DEF IInv, TypeOK, PumpInv, HistoryInv, Submit, Settled
<1>11. DrainAllInv'
  BY DEF IInv, TypeOK, DrainAllInv, HistoryInv, Submit
<1> QED
  BY <1>1, <1>3, <1>4, <1>5, <1>6, <1>7, <1>8, <1>9, <1>10, <1>11 DEF IInv

\* The two branches of Advance, for the queue of the flusher's chat.
LEMMA AdvanceFacts ==
    ASSUME IInv, NEW c \in Chats, queue[c] # <<>>,
           queue' = [queue EXCEPT ![c] = Tail(@)]
    PROVE  /\ Len(queue[c]) \in Nat \ {0}
           /\ Head(queue[c]) = queue[c][1]
           /\ Head(queue[c]) \in Jobs
           /\ Head(queue[c]) # None
           /\ ChatOf[Head(queue[c])] = c
           /\ state[Head(queue[c])] = "queued"
           /\ queue' \in [Chats -> Seq(Jobs)]
           /\ Len(queue'[c]) = Len(queue[c]) - 1
           /\ \A d \in Chats : d # c => queue'[d] = queue[d]
           /\ \A i \in 1..Len(queue'[c]) :
                  /\ i + 1 \in 1..Len(queue[c])
                  /\ queue'[c][i] = queue[c][i + 1]
                  /\ queue'[c][i] # Head(queue[c])
<1>1. /\ Len(queue[c]) \in Nat \ {0}
      /\ Head(queue[c]) = queue[c][1]
      /\ Head(queue[c]) \in Jobs
      /\ Tail(queue[c]) \in Seq(Jobs)
      /\ Len(Tail(queue[c])) = Len(queue[c]) - 1
      /\ \A i \in 1..(Len(queue[c]) - 1) : Tail(queue[c])[i] = queue[c][i + 1]
  BY TailFacts DEF IInv, TypeOK
<1>2. queue'[c] = Tail(queue[c]) /\ \A d \in Chats : d # c => queue'[d] = queue[d]
  BY DEF IInv, TypeOK
<1>3. ChatOf[Head(queue[c])] = c /\ state[Head(queue[c])] = "queued"
  BY <1>1 DEF IInv, QueueInv
<1>4. \A i \in 1..Len(queue'[c]) :
          /\ i + 1 \in 1..Len(queue[c])
          /\ queue'[c][i] = queue[c][i + 1]
          /\ queue'[c][i] # Head(queue[c])
  <2> SUFFICES ASSUME NEW i \in 1..Len(queue'[c])
               PROVE  /\ i + 1 \in 1..Len(queue[c])
                      /\ queue'[c][i] = queue[c][i + 1]
                      /\ queue'[c][i] # Head(queue[c])
    OBVIOUS
  <2>0. Len(queue[c]) \in Nat \ {0} /\ i \in 1..(Len(queue[c]) - 1)
    BY <1>1, <1>2
  <2>1. i + 1 \in 1..Len(queue[c]) /\ 1 \in 1..Len(queue[c]) /\ i + 1 # 1
    BY <2>0
  <2>2. queue'[c][i] = queue[c][i + 1]
    BY <2>0, <1>1, <1>2
  <2>3. queue[c][i + 1] # queue[c][1]
    BY <2>1 DEF IInv, QueueInv
  <2> QED BY <2>1, <2>2, <2>3, <1>1
<1>5. queue' \in [Chats -> Seq(Jobs)]
  BY <1>1 DEF IInv, TypeOK
<1> QED
  BY <1>1, <1>2, <1>3, <1>4, <1>5, ConstantsAssumption

\* A flusher takes its next job or ends, whatever the future it resolved.
LEMMA AdvanceIInv ==
    ASSUME IInv, NEW c \in Chats, Advance(c),
           lane[c] # "absent",
           cur[c] # None => state[cur[c]] \in {"landed", "failed"},
           fut' = IF cur[c] = None THEN fut ELSE Resolve(fut, cur[c]),
           UNCHANGED <<orphans, stage, clean, mark, log, known, late>>
    PROVE  IInv'
<1> USE ConstantsAssumption
<1>f. /\ fut' \in [Jobs -> Futures]
      /\ \A j \in Jobs : cur[ChatOf[j]] # j \/ j # cur[c] => fut'[j] = fut[j]
      /\ cur[c] # None =>
            /\ fut'[cur[c]] # "pending"
            /\ fut'[cur[c]] \in {fut[cur[c]], "result", "exception"}
            /\ fut'[cur[c]] = "result" => state[cur[c]] = "landed"
            /\ fut'[cur[c]] = "exception" => state[cur[c]] = "failed"
  BY DEF IInv, TypeOK, CurInv, Resolve, Futures, FuturesTell
<1>1. CASE queue[c] = <<>>
  <2>0. /\ lane' = [lane EXCEPT ![c] = "absent"]
        /\ cur' = [cur EXCEPT ![c] = None]
        /\ TaskEnds(c, "landed")
        /\ UNCHANGED <<queue, state, execq>>
    BY <1>1 DEF Advance
  <2>s. \A j \in Jobs : ChatOf[j] = c /\ j \in known =>
            state[j] \in {"landed", "failed", "abandoned"}
    <3> SUFFICES ASSUME NEW j \in Jobs, ChatOf[j] = c, j \in known
                 PROVE  state[j] \in {"landed", "failed", "abandoned"}
      OBVIOUS
    <3>1. state[j] # "unborn"
      BY DEF IInv, HistoryInv
    <3>2. state[j] # "queued"
      BY <1>1 DEF IInv, QueuedInv
    <3>3. state[j] \notin {"handed", "running", "revoked"}
      BY DEF IInv, ExecInv
    <3>4. state[j] \in JobStates
      BY DEF IInv, TypeOK
    <3> QED BY <3>1, <3>2, <3>3, <3>4 DEF JobStates
  <2>1. TypeOK'
    BY <2>0, <1>f DEF IInv, TypeOK, TaskEnds
  <2>2. LaneInv' /\ CurInv'
    BY <2>0, <1>1 DEF IInv, TypeOK, LaneInv, CurInv
  <2>3. QueueInv' /\ QueuedInv' /\ ExecQueueInv'
    BY <2>0 DEF IInv, QueueInv, QueuedInv, ExecQueueInv
  <2>4. ExecInv'
    BY <2>0 DEF IInv, TypeOK, ExecInv, CurInv
  <2>5. HistoryInv'
    BY <2>0 DEF IInv, HistoryInv
  <2>6. FuturesTell'
    BY <2>0, <1>f DEF IInv, TypeOK, FuturesTell, Settled, CurInv
  <2>7. PumpInv'
    BY <2>0, <2>s DEF IInv, TypeOK, PumpInv, TaskEnds, HistoryInv, Settled, OfChat
  <2>8. DrainAllInv'
    BY <2>0, <2>s DEF IInv, TypeOK, DrainAllInv, TaskEnds, HistoryInv
  <2> QED
    BY <2>1, <2>2, <2>3, <2>4, <2>5, <2>6, <2>7, <2>8 DEF IInv
<1>2. CASE queue[c] # <<>>
  <2> DEFINE h == Head(queue[c])
  <2>0. /\ lane' = [lane EXCEPT ![c] = "busy"]
        /\ cur' = [cur EXCEPT ![c] = h]
        /\ queue' = [queue EXCEPT ![c] = Tail(@)]
        /\ state' = [state EXCEPT ![h] = "handed"]
        /\ execq' = Append(execq, h)
        /\ UNCHANGED <<pump, awaited>>
    BY <1>2 DEF Advance
  <2>h. h \in Jobs /\ h # None /\ ChatOf[h] = c /\ state[h] = "queued"
    BY <1>2, <2>0, AdvanceFacts
  <2>q. /\ Len(queue[c]) \in Nat \ {0}
        /\ h = queue[c][1]
        /\ queue' \in [Chats -> Seq(Jobs)]
        /\ Len(queue'[c]) = Len(queue[c]) - 1
        /\ \A d \in Chats : d # c => queue'[d] = queue[d]
        /\ \A i \in 1..Len(queue'[c]) :
               /\ i + 1 \in 1..Len(queue[c])
               /\ queue'[c][i] = queue[c][i + 1]
               /\ queue'[c][i] # h
    BY <1>2, <2>0, AdvanceFacts
  <2>e. /\ Len(execq) \in Nat
        /\ execq' \in Seq(Jobs)
        /\ Len(execq') = Len(execq) + 1
        /\ \A i \in 1..Len(execq) : execq'[i] = execq[i]
        /\ execq'[Len(execq) + 1] = h
    BY <2>0, <2>h, AppendFacts DEF IInv, TypeOK
  <2>t. /\ state'[h] = "handed"
        /\ \A j \in Jobs : j # h => state'[j] = state[j]
        /\ cur'[c] = h
        /\ \A d \in Chats : d # c => cur'[d] = cur[d]
        /\ lane'[c] = "busy"
        /\ \A d \in Chats : d # c => lane'[d] = lane[d]
    BY <2>0, <2>h DEF IInv, TypeOK
  <2> HIDE DEF h
  <2>1. TypeOK'
    BY <2>0, <2>h, <2>q, <2>e, <1>f DEF IInv, TypeOK, JobStates
  <2>2. LaneInv'
    <3> SUFFICES ASSUME NEW d \in Chats
                 PROVE  /\ lane'[d] = "busy" <=> cur'[d] # None
                        /\ lane'[d] = "absent" => queue'[d] = <<>>
      BY DEF LaneInv
    <3>1. CASE d = c
      BY <3>1, <2>t, <2>h
    <3>2. CASE d # c
      BY <3>2, <2>t, <2>q DEF IInv, LaneInv
    <3> QED BY <3>1, <3>2
  <2>3. CurInv'
    <3> SUFFICES ASSUME NEW d \in Chats, cur'[d] # None
                 PROVE  /\ ChatOf[cur'[d]] = d
                        /\ state'[cur'[d]] \in {"handed", "running", "landed", "failed", "revoked"}
      BY DEF CurInv
    <3>1. CASE d = c
      BY <3>1, <2>t, <2>h
    <3>2. CASE d # c
      <4>1. cur'[d] = cur[d] /\ cur[d] \in Jobs
        BY <3>2, <2>t DEF IInv, TypeOK
      <4>2. ChatOf[cur[d]] = d /\ cur[d] # h
        BY <3>2, <4>1, <2>h DEF IInv, CurInv
      <4> QED BY <4>1, <4>2, <2>t DEF IInv, CurInv
    <3> QED BY <3>1, <3>2
  <2>4. QueueInv'
    <3> SUFFICES ASSUME NEW d \in Chats PROVE
          /\ \A i \in 1..Len(queue'[d]) :
                 ChatOf[queue'[d][i]] = d /\ state'[queue'[d][i]] = "queued"
          /\ \A i, k \in 1..Len(queue'[d]) : queue'[d][i] = queue'[d][k] => i = k
      BY DEF QueueInv
    <3>1. CASE d # c
      <4>1. \A i \in 1..Len(queue[d]) : queue[d][i] \in Jobs /\ queue[d][i] # h
        <5> SUFFICES ASSUME NEW i \in 1..Len(queue[d])
                     PROVE  queue[d][i] \in Jobs /\ queue[d][i] # h
          OBVIOUS
        <5>1. queue[d][i] \in Jobs
          BY DEF IInv, TypeOK
        <5>2. ChatOf[queue[d][i]] = d
          BY DEF IInv, QueueInv
        <5> QED BY <3>1, <5>1, <5>2, <2>h
      <4>2. queue'[d] = queue[d]
        BY <3>1, <2>q
      <4>3. \A i \in 1..Len(queue[d]) :
                ChatOf[queue[d][i]] = d /\ state'[queue[d][i]] = "queued"
        BY <4>1, <2>t DEF IInv, QueueInv
      <4> QED
        BY <4>2, <4>3 DEF IInv, QueueInv
    <3>2. CASE d = c
      <4>1. \A i \in 1..Len(queue'[c]) : queue'[c][i] \in Jobs
        BY <2>q
      <4>2. \A i \in 1..Len(queue'[c]) :
                ChatOf[queue'[c][i]] = c /\ state'[queue'[c][i]] = "queued"
        <5> SUFFICES ASSUME NEW i \in 1..Len(queue'[c])
                     PROVE  ChatOf[queue'[c][i]] = c /\ state'[queue'[c][i]] = "queued"
          OBVIOUS
        <5>1. /\ i + 1 \in 1..Len(queue[c])
              /\ queue'[c][i] = queue[c][i + 1]
              /\ queue'[c][i] # h
              /\ queue'[c][i] \in Jobs
          BY <2>q, <4>1
        <5>2. ChatOf[queue[c][i + 1]] = c /\ state[queue[c][i + 1]] = "queued"
          BY <5>1 DEF IInv, QueueInv
        <5> QED BY <5>1, <5>2, <2>t
      <4>3. \A i, k \in 1..Len(queue'[c]) : queue'[c][i] = queue'[c][k] => i = k
        <5> SUFFICES ASSUME NEW i \in 1..Len(queue'[c]), NEW k \in 1..Len(queue'[c]),
                            queue'[c][i] = queue'[c][k]
                     PROVE  i = k
          OBVIOUS
        <5>1. i + 1 = k + 1
          BY <2>q DEF IInv, QueueInv
        <5> QED BY <5>1
      <4> QED
        BY <3>2, <4>2, <4>3
    <3> QED BY <3>1, <3>2
  <2>5. QueuedInv'
    <3> SUFFICES ASSUME NEW j \in Jobs, state'[j] = "queued"
                 PROVE  \E i \in 1..Len(queue'[ChatOf[j]]) : queue'[ChatOf[j]][i] = j
      BY DEF QueuedInv
    <3>1. j # h /\ state[j] = "queued"
      BY <2>t
    <3>2. PICK i \in 1..Len(queue[ChatOf[j]]) : queue[ChatOf[j]][i] = j
      BY <3>1 DEF IInv, QueuedInv
    <3>3. CASE ChatOf[j] # c
      BY <3>2, <3>3, <2>q
    <3>4. CASE ChatOf[j] = c
      <4>1. i # 1
        BY <3>1, <3>2, <3>4, <2>q
      <4>2. i - 1 \in 1..Len(queue'[c]) /\ (i - 1) + 1 = i
        BY <4>1, <3>2, <3>4, <2>q
      <4>3. queue'[c][i - 1] = j
        BY <4>2, <3>2, <3>4, <2>q
      <4> QED BY <4>2, <4>3, <3>4
    <3> QED BY <3>3, <3>4
  <2>6. ExecInv'
    <3> SUFFICES ASSUME NEW j \in Jobs, state'[j] \in {"handed", "running", "revoked"}
                 PROVE  cur'[ChatOf[j]] = j
      BY DEF ExecInv
    <3>1. CASE j = h
      BY <3>1, <2>t, <2>h
    <3>2. CASE j # h
      <4>1. state[j] \in {"handed", "running", "revoked"}
        BY <3>2, <2>t
      <4>2. cur[ChatOf[j]] = j /\ ChatOf[j] # c
        BY <4>1 DEF IInv, ExecInv
      <4> QED BY <4>2, <2>t
    <3> QED BY <3>1, <3>2
  <2>7. ExecQueueInv'
    <3>1. \A i \in 1..Len(execq) : execq[i] \in Jobs /\ execq[i] # h
      BY <2>h DEF IInv, TypeOK, ExecQueueInv
    <3>2. \A i \in 1..Len(execq') : i \in 1..Len(execq) \/ i = Len(execq) + 1
      BY <2>e
    <3>3. \A i \in 1..Len(execq') : state'[execq'[i]] = "handed"
      BY <3>1, <3>2, <2>e, <2>t DEF IInv, ExecQueueInv
    <3>4. \A i, k \in 1..Len(execq') : execq'[i] = execq'[k] => i = k
      BY <3>1, <3>2, <2>e DEF IInv, ExecQueueInv
    <3> QED BY <3>3, <3>4 DEF ExecQueueInv
  <2>8. HistoryInv'
    BY <2>0, <2>h, <2>t DEF IInv, HistoryInv
  <2>9. FuturesTell'
    BY <2>h, <2>t, <1>f DEF IInv, TypeOK, FuturesTell, Settled, CurInv
  <2>10. PumpInv'
    BY <2>0, <2>h, <2>t DEF IInv, TypeOK, PumpInv, Settled
  <2>11. DrainAllInv'
    BY <2>0, <2>h, <2>t DEF IInv, TypeOK, DrainAllInv
  <2> QED
    BY <2>1, <2>2, <2>3, <2>4, <2>5, <2>6, <2>7, <2>8, <2>9, <2>10, <2>11 DEF IInv
<1> QED
  BY <1>1, <1>2

\* The first step of a new flusher.
LEMMA FlushStartIInv ==
    ASSUME IInv, NEW c \in Chats, FlushStart(c)
    PROVE  IInv'
<1>1. lane[c] = "new" /\ cur[c] = None
  BY DEF FlushStart, IInv, LaneInv
<1> QED
  BY <1>1, AdvanceIInv DEF FlushStart

\* The flusher comes back from run_db with a result or an exception.
LEMMA FlushResumeIInv ==
    ASSUME IInv, NEW c \in Chats, FlushResume(c)
    PROVE  IInv'
<1>1. lane[c] = "busy" /\ cur[c] # None
  BY DEF FlushResume, IInv, LaneInv
<1> QED
  BY <1>1, AdvanceIInv DEF FlushResume

\* The executor's shutdown cancelled the hand-over: the lane's futures are cancelled
\* and the lane is gone.
LEMMA FlushCancelledIInv ==
    ASSUME IInv, NEW c \in Chats, FlushCancelled(c)
    PROVE  IInv'
<1> USE ConstantsAssumption
<1> DEFINE gone == {queue[c][i] : i \in 1..Len(queue[c])} \cup {cur[c]}
<1>0. /\ lane[c] = "busy"
      /\ state[cur[c]] = "revoked"
      /\ fut' = [j \in Jobs |-> IF j \in gone /\ fut[j] = "pending"
                                THEN "cancelled" ELSE fut[j]]
      /\ state' = [j \in Jobs |-> IF j \in gone THEN "abandoned" ELSE state[j]]
      /\ queue' = [queue EXCEPT ![c] = <<>>]
      /\ cur' = [cur EXCEPT ![c] = None]
      /\ lane' = [lane EXCEPT ![c] = "absent"]
      /\ TaskEnds(c, "notlanded")
      /\ UNCHANGED <<execq, orphans, stage, clean, mark, log, known, late>>
  BY DEF FlushCancelled
<1>1. /\ cur[c] \in Jobs /\ cur[c] # None /\ ChatOf[cur[c]] = c
      /\ stage = "closed"
  BY <1>0 DEF IInv, TypeOK, LaneInv, CurInv, HistoryInv
\* What goes is exactly what the lane still had to do.
<1>2. \A j \in Jobs : j \in gone <=>
          ChatOf[j] = c /\ state[j] \in {"queued", "handed", "running", "revoked"}
  <2> SUFFICES ASSUME NEW j \in Jobs
               PROVE  j \in gone <=> /\ ChatOf[j] = c
                                     /\ state[j] \in {"queued", "handed", "running", "revoked"}
    OBVIOUS
  <2>1. ASSUME j \in gone
        PROVE  ChatOf[j] = c /\ state[j] \in {"queued", "handed", "running", "revoked"}
    <3>1. CASE j = cur[c]
      BY <3>1, <1>0, <1>1
    <3>2. CASE j # cur[c]
      <4>1. PICK i \in 1..Len(queue[c]) : queue[c][i] = j
        BY <2>1, <3>2
      <4> QED BY <4>1 DEF IInv, QueueInv
    <3> QED BY <3>1, <3>2
  <2>2. ASSUME ChatOf[j] = c, state[j] \in {"handed", "running", "revoked"}
        PROVE  j \in gone
    BY <2>2 DEF IInv, ExecInv
  <2>3. ASSUME ChatOf[j] = c, state[j] = "queued"
        PROVE  j \in gone
    BY <2>3 DEF IInv, QueuedInv
  <2> QED BY <2>1, <2>2, <2>3
<1> HIDE DEF gone
<1>t. /\ state' \in [Jobs -> JobStates]
      /\ fut' \in [Jobs -> Futures]
      /\ \A j \in Jobs : j \in gone => state'[j] = "abandoned"
      /\ \A j \in Jobs : j \notin gone => state'[j] = state[j] /\ fut'[j] = fut[j]
      /\ \A j \in Jobs : j \in gone =>
             fut'[j] = IF fut[j] = "pending" THEN "cancelled" ELSE fut[j]
      /\ cur'[c] = None
      /\ \A d \in Chats : d # c => cur'[d] = cur[d]
      /\ queue'[c] = <<>>
      /\ \A d \in Chats : d # c => queue'[d] = queue[d]
      /\ lane'[c] = "absent"
      /\ \A d \in Chats : d # c => lane'[d] = lane[d]
  BY <1>0 DEF IInv, TypeOK, JobStates, Futures
<1>s. \A j \in Jobs : ChatOf[j] = c /\ j \in known =>
          state'[j] \in {"landed", "failed", "abandoned"}
  BY <1>2, <1>t DEF IInv, TypeOK, HistoryInv, JobStates
<1>3. TypeOK'
  BY <1>0, <1>t DEF IInv, TypeOK, TaskEnds
<1>4. LaneInv'
  BY <1>t DEF IInv, LaneInv
<1>5. CurInv'
  <2> SUFFICES ASSUME NEW d \in Chats, cur'[d] # None
               PROVE  /\ ChatOf[cur'[d]] = d
                      /\ state'[cur'[d]] \in {"handed", "running", "landed", "failed", "revoked"}
    BY DEF CurInv
  <2>1. d # c /\ cur'[d] = cur[d] /\ cur[d] \in Jobs
    BY <1>t DEF IInv, TypeOK
  <2>2. ChatOf[cur[d]] = d
    BY <2>1 DEF IInv, CurInv
  <2>3. cur[d] \notin gone
    BY <2>1, <2>2, <1>2
  <2> QED BY <2>1, <2>2, <2>3, <1>t DEF IInv, CurInv
<1>6. QueueInv'
  <2> SUFFICES ASSUME NEW d \in Chats PROVE
        /\ \A i \in 1..Len(queue'[d]) :
               ChatOf[queue'[d][i]] = d /\ state'[queue'[d][i]] = "queued"
        /\ \A i, k \in 1..Len(queue'[d]) : queue'[d][i] = queue'[d][k] => i = k
    BY DEF QueueInv
  <2>1. CASE d = c
    BY <2>1, <1>t
  <2>2. CASE d # c
    <3>1. queue'[d] = queue[d]
      BY <2>2, <1>t
    <3>2. \A i \in 1..Len(queue[d]) :
              ChatOf[queue[d][i]] = d /\ state'[queue[d][i]] = "queued"
      <4> SUFFICES ASSUME NEW i \in 1..Len(queue[d])
                   PROVE  ChatOf[queue[d][i]] = d /\ state'[queue[d][i]] = "queued"
        OBVIOUS
      <4>1. queue[d][i] \in Jobs
        BY DEF IInv, TypeOK
      <4>2. ChatOf[queue[d][i]] = d /\ state[queue[d][i]] = "queued"
        BY DEF IInv, QueueInv
      <4> QED BY <4>1, <4>2, <2>2, <1>2, <1>t
    <3> QED BY <3>1, <3>2 DEF IInv, QueueInv
  <2> QED BY <2>1, <2>2
<1>7. QueuedInv'
  <2> SUFFICES ASSUME NEW j \in Jobs, state'[j] = "queued"
               PROVE  \E i \in 1..Len(queue'[ChatOf[j]]) : queue'[ChatOf[j]][i] = j
    BY DEF QueuedInv
  <2>1. j \notin gone /\ state[j] = "queued" /\ ChatOf[j] # c
    BY <1>2, <1>t
  <2> QED BY <2>1, <1>t DEF IInv, QueuedInv
<1>8. ExecInv'
  <2> SUFFICES ASSUME NEW j \in Jobs, state'[j] \in {"handed", "running", "revoked"}
               PROVE  cur'[ChatOf[j]] = j
    BY DEF ExecInv
  <2>1. j \notin gone /\ state[j] \in {"handed", "running", "revoked"} /\ ChatOf[j] # c
    BY <1>2, <1>t
  <2> QED BY <2>1, <1>t DEF IInv, ExecInv
<1>9. ExecQueueInv'
  <2>1. \A i \in 1..Len(execq) : state'[execq[i]] = "handed"
    <3> SUFFICES ASSUME NEW i \in 1..Len(execq)
                 PROVE  state'[execq[i]] = "handed"
      OBVIOUS
    <3>1. execq[i] \in Jobs /\ state[execq[i]] = "handed"
      BY DEF IInv, TypeOK, ExecQueueInv
    <3>2. cur[ChatOf[execq[i]]] = execq[i]
      BY <3>1 DEF IInv, ExecInv
    <3>3. execq[i] \notin gone
      BY <3>1, <3>2, <1>0, <1>2
    <3> QED BY <3>1, <3>3, <1>t
  <2> QED BY <2>1, <1>0 DEF IInv, ExecQueueInv
<1>10. HistoryInv'
  BY <1>0, <1>1, <1>2, <1>t DEF IInv, TypeOK, HistoryInv
<1>11. FuturesTell'
  <2> SUFFICES ASSUME NEW j \in Jobs
               PROVE  /\ fut'[j] = "result" => state'[j] = "landed"
                      /\ fut'[j] = "exception" => state'[j] = "failed"
                      /\ fut'[j] = "pending" => ~(Settled(j)') \/ cur'[ChatOf[j]] = j
    BY DEF FuturesTell
  <2>1. /\ fut[j] = "result" => state[j] = "landed"
        /\ fut[j] = "exception" => state[j] = "failed"
        /\ fut[j] = "pending" => ~Settled(j) \/ cur[ChatOf[j]] = j
    BY DEF IInv, FuturesTell
  <2>2. CASE j \in gone
    BY <2>1, <2>2, <1>2, <1>t
  <2>3. CASE j \notin gone
    <3>1. cur[c] \in gone
      BY <1>0, <1>1, <1>2
    <3> QED
      BY <2>1, <2>3, <3>1, <1>t DEF Settled
  <2> QED BY <2>2, <2>3
<1>12. PumpInv'
  BY <1>0, <1>s, <1>t, <1>2 DEF IInv, TypeOK, PumpInv, TaskEnds, HistoryInv, Settled, OfChat
<1>13. DrainAllInv'
  BY <1>0, <1>1, <1>2, <1>t DEF IInv, TypeOK, DrainAllInv, TaskEnds
<1> QED
  BY <1>3, <1>4, <1>5, <1>6, <1>7, <1>8, <1>9, <1>10, <1>11, <1>12, <1>13 DEF IInv

\* A worker takes the job at the front of the executor's queue.
LEMMA WorkerStartIInv ==
    ASSUME IInv, WorkerStart
    PROVE  IInv'
<1> USE ConstantsAssumption
<1> DEFINE h == Head(execq)
<1>1. /\ Len(execq) \in Nat \ {0}
      /\ h = execq[1] /\ h \in Jobs
      /\ execq' \in Seq(Jobs)
      /\ Len(execq') = Len(execq) - 1
      /\ \A i \in 1..(Len(execq) - 1) : execq'[i] = execq[i + 1]
  BY TailFacts DEF IInv, TypeOK, WorkerStart
<1>2. state[h] = "handed"
  BY <1>1 DEF IInv, ExecQueueInv
<1>3. /\ state'[h] = "running"
      /\ \A j \in Jobs : j # h => state'[j] = state[j]
      /\ state' \in [Jobs -> JobStates]
  BY <1>1 DEF IInv, TypeOK, WorkerStart, JobStates
<1> HIDE DEF h
<1>4. TypeOK'
  BY <1>1, <1>3 DEF IInv, TypeOK, WorkerStart
<1>5. LaneInv'
  BY DEF IInv, LaneInv, WorkerStart
<1>6. CurInv'
  BY <1>1, <1>3 DEF IInv, TypeOK, CurInv, WorkerStart
<1>7. QueueInv'
  <2>1. \A c \in Chats : \A i \in 1..Len(queue[c]) :
            queue[c][i] \in Jobs /\ queue[c][i] # h
    BY <1>2 DEF IInv, TypeOK, QueueInv
  <2> QED
    BY <2>1, <1>3 DEF IInv, QueueInv, WorkerStart
<1>8. QueuedInv' /\ ExecInv'
  BY <1>1, <1>2, <1>3 DEF IInv, QueuedInv, ExecInv, WorkerStart
<1>9. ExecQueueInv'
  <2>1. \A i \in 1..Len(execq') :
            i + 1 \in 1..Len(execq) /\ i + 1 # 1 /\ execq'[i] = execq[i + 1]
    BY <1>1
  <2>2. ASSUME NEW i \in 1..Len(execq')
        PROVE  state'[execq'[i]] = "handed"
    <3>1. execq[i + 1] \in Jobs /\ state[execq[i + 1]] = "handed"
      BY <2>1 DEF IInv, TypeOK, ExecQueueInv
    <3>2. 1 \in 1..Len(execq)
      BY <1>1
    <3>3. execq[i + 1] # h
      BY <2>1, <3>2, <1>1 DEF IInv, ExecQueueInv
    <3> QED BY <3>1, <3>3, <2>1, <1>3
  <2>3. ASSUME NEW i \in 1..Len(execq'), NEW k \in 1..Len(execq'), execq'[i] = execq'[k]
        PROVE  i = k
    <3>1. i + 1 = k + 1
      BY <2>1, <2>3 DEF IInv, ExecQueueInv
    <3> QED BY <3>1
  <2> QED BY <2>2, <2>3 DEF ExecQueueInv
<1>10. HistoryInv'
  BY <1>2, <1>3 DEF IInv, HistoryInv, WorkerStart
<1>11. FuturesTell'
  BY <1>2, <1>3 DEF IInv, FuturesTell, Settled, WorkerStart
<1>12. PumpInv'
  BY <1>2, <1>3 DEF IInv, TypeOK, PumpInv, Settled, WorkerStart
<1>13. DrainAllInv'
  BY <1>2, <1>3 DEF IInv, TypeOK, DrainAllInv, WorkerStart
<1> QED
  BY <1>4, <1>5, <1>6, <1>7, <1>8, <1>9, <1>10, <1>11, <1>12, <1>13 DEF IInv

\* A worker is done with its job, well or badly.
LEMMA WorkerEndIInv ==
    ASSUME IInv, NEW j \in Jobs, WorkerLand(j) \/ WorkerFail(j)
    PROVE  IInv'
<1> USE ConstantsAssumption
<1>1. /\ state[j] = "running"
      /\ state'[j] \in {"landed", "failed"}
      /\ \A k \in Jobs : k # j => state'[k] = state[k]
      /\ state' \in [Jobs -> JobStates]
      /\ log' \in [Chats -> Seq(Jobs)]
      /\ UNCHANGED <<lane, queue, cur, fut, execq, orphans, stage, awaited,
                     clean, pump, mark, known, late>>
  <2>1. CASE WorkerLand(j)
    <3>1. Append(log[ChatOf[j]], j) \in Seq(Jobs)
      BY AppendFacts DEF IInv, TypeOK
    <3> QED BY <2>1, <3>1 DEF IInv, TypeOK, WorkerLand, JobStates
  <2>2. CASE WorkerFail(j)
    BY <2>2 DEF IInv, TypeOK, WorkerFail, JobStates
  <2> QED BY <2>1, <2>2
<1>2. cur[ChatOf[j]] = j
  BY <1>1 DEF IInv, ExecInv
<1>3. TypeOK'
  BY <1>1 DEF IInv, TypeOK
<1>4. LaneInv'
  BY <1>1 DEF IInv, LaneInv
<1>5. CurInv'
  <2> SUFFICES ASSUME NEW c \in Chats, cur[c] # None
               PROVE  /\ ChatOf[cur[c]] = c
                      /\ state'[cur[c]] \in {"handed", "running", "landed", "failed", "revoked"}
    BY <1>1 DEF CurInv
  <2>1. cur[c] \in Jobs
    BY DEF IInv, TypeOK
  <2>2. /\ ChatOf[cur[c]] = c
        /\ state[cur[c]] \in {"handed", "running", "landed", "failed", "revoked"}
    BY DEF IInv, CurInv
  <2> QED BY <2>1, <2>2, <1>1
<1>6. QueueInv'
  <2>1. \A c \in Chats : \A i \in 1..Len(queue[c]) :
            queue[c][i] \in Jobs /\ queue[c][i] # j
    BY <1>1 DEF IInv, TypeOK, QueueInv
  <2>2. \A c \in Chats : \A i \in 1..Len(queue[c]) : state'[queue[c][i]] = "queued"
    <3> SUFFICES ASSUME NEW c \in Chats, NEW i \in 1..Len(queue[c])
                 PROVE  state'[queue[c][i]] = "queued"
      OBVIOUS
    <3>1. state[queue[c][i]] = "queued"
      BY DEF IInv, QueueInv
    <3> QED BY <3>1, <2>1, <1>1
  <2>3. queue' = queue
    BY <1>1
  <2> QED
    BY <2>2, <2>3 DEF IInv, QueueInv
<1>7. QueuedInv' /\ ExecInv'
  BY <1>1 DEF IInv, QueuedInv, ExecInv
<1>8. ExecQueueInv'
  <2>1. \A i \in 1..Len(execq) : execq[i] \in Jobs /\ execq[i] # j
    BY <1>1 DEF IInv, TypeOK, ExecQueueInv
  <2> QED
    BY <2>1, <1>1 DEF IInv, ExecQueueInv
<1>9. HistoryInv'
  BY <1>1 DEF IInv, HistoryInv
<1>10. FuturesTell'
  BY <1>1, <1>2 DEF IInv, FuturesTell, Settled
<1>11. PumpInv'
  BY <1>1 DEF IInv, TypeOK, PumpInv, Settled
<1>12. DrainAllInv'
  BY <1>1 DEF IInv, TypeOK, DrainAllInv
<1> QED
  BY <1>3, <1>4, <1>5, <1>6, <1>7, <1>8, <1>9, <1>10, <1>11, <1>12 DEF IInv

\* A pump's drain changes only what the pump itself knows.
LEMMA PumpIInv ==
    ASSUME IInv, NEW c \in Chats, PumpDrain(c) \/ PumpTimeout(c) \/ PumpDrained(c)
    PROVE  IInv'
<1> USE ConstantsAssumption
<1>1. /\ UNCHANGED <<lane, queue, cur, state, fut, execq, orphans, stage, awaited,
                     clean, log, known, late>>
      /\ pump' \in [Chats -> {"idle", "draining", "landed", "notlanded", "ready"}]
      /\ mark' \in [Chats -> SUBSET Jobs]
      /\ \A d \in Chats : d # c => pump'[d] = pump[d] /\ mark'[d] = mark[d]
  <2>1. CASE PumpDrain(c)
    BY <2>1 DEF IInv, TypeOK, PumpDrain, DrainCall
  <2>2. CASE PumpTimeout(c)
    BY <2>2 DEF IInv, TypeOK, PumpTimeout
  <2>3. CASE PumpDrained(c)
    BY <2>3 DEF IInv, TypeOK, PumpDrained, DrainCall
  <2> QED BY <2>1, <2>2, <2>3
<1>2. TypeOK'
  BY <1>1 DEF IInv, TypeOK
<1>3. LaneInv' /\ CurInv' /\ QueueInv' /\ QueuedInv' /\ ExecInv' /\ ExecQueueInv'
  BY <1>1 DEF IInv, LaneInv, CurInv, QueueInv, QueuedInv, ExecInv, ExecQueueInv
<1>4. FuturesTell' /\ DrainAllInv'
  BY <1>1 DEF IInv, FuturesTell, Settled, DrainAllInv
<1>5. HistoryInv'
  BY <1>1 DEF IInv, TypeOK, HistoryInv, PumpDrain, PumpTimeout, PumpDrained, OfChat
\* Without a lane everything the chat ever submitted is decided.
<1>6. ASSUME lane[c] = "absent", NEW j \in Jobs, ChatOf[j] = c, j \in known
      PROVE  Settled(j)
  <2>1. state[j] # "unborn"
    BY <1>6 DEF IInv, HistoryInv
  <2>2. state[j] # "queued"
    BY <1>6 DEF IInv, QueuedInv, LaneInv
  <2>3. state[j] \notin {"handed", "running", "revoked"}
    BY <1>6 DEF IInv, ExecInv, LaneInv
  <2>4. state[j] \in JobStates
    BY DEF IInv, TypeOK
  <2> QED BY <2>1, <2>2, <2>3, <2>4 DEF JobStates, Settled
<1>7. /\ pump'[c] = "draining" => lane[c] # "absent"
      /\ pump'[c] \in {"landed", "ready"} => \A j \in mark'[c] : Settled(j)
  <2>1. CASE PumpDrain(c)
    <3>1. /\ mark'[c] = known \cap OfChat(c)
          /\ pump'[c] = IF lane[c] = "absent" THEN "ready" ELSE "draining"
      BY <2>1 DEF PumpDrain, DrainCall, IInv, TypeOK
    <3> QED BY <3>1, <1>6 DEF OfChat
  <2>2. CASE PumpTimeout(c)
    BY <2>2 DEF PumpTimeout, IInv, TypeOK
  <2>3. CASE PumpDrained(c)
    <3>1. mark'[c] = mark[c] /\ mark[c] \subseteq known \cap OfChat(c)
      BY <2>3 DEF PumpDrained, IInv, HistoryInv
    <3>2. CASE pump[c] = "landed"
      BY <2>3, <3>1, <3>2 DEF PumpDrained, IInv, TypeOK, PumpInv
    <3>3. CASE pump[c] = "notlanded" /\ Pending(c) = 0
      <4>1. Len(queue[c]) \in Nat
        BY DEF IInv, TypeOK
      <4>2. ASSUME lane[c] # "absent" PROVE FALSE
        <5>1. Pending(c) = Len(queue[c]) + 1
          BY <4>2 DEF Pending
        <5> QED BY <5>1, <3>3, <4>1
      <4>3. lane[c] = "absent"
        BY <4>2
      <4> QED BY <2>3, <3>1, <3>3, <4>3, <1>6 DEF PumpDrained, IInv, TypeOK, OfChat
    <3>4. CASE pump[c] = "notlanded" /\ Pending(c) # 0
      <4>1. pump'[c] = IF lane[c] = "absent" THEN "ready" ELSE "draining"
        BY <2>3, <3>4 DEF PumpDrained, DrainCall, IInv, TypeOK
      <4> QED BY <4>1, <3>1, <1>6 DEF OfChat
    <3> QED BY <2>3, <3>2, <3>3, <3>4 DEF PumpDrained
  <2> QED BY <2>1, <2>2, <2>3
<1>8. PumpInv'
  BY <1>1, <1>7 DEF IInv, PumpInv, Settled
<1> QED
  BY <1>2, <1>3, <1>4, <1>5, <1>8 DEF IInv

\* The shutdown: drain_all's snapshot and return, then the executor's end.
LEMMA ShutdownIInv ==
    ASSUME IInv, DrainAll \/ DrainAllReturns \/ ShutdownExecutor
    PROVE  IInv'
<1> USE ConstantsAssumption
<1>1. ASSUME DrainAll PROVE IInv'
  <2>1. \A j \in Jobs : lane[ChatOf[j]] = "absent" /\ j \in known =>
            state[j] \in {"landed", "failed"}
    <3> SUFFICES ASSUME NEW j \in Jobs, lane[ChatOf[j]] = "absent", j \in known
                 PROVE  state[j] \in {"landed", "failed"}
      OBVIOUS
    <3>1. state[j] \notin {"unborn", "revoked", "abandoned"}
      BY <1>1 DEF DrainAll, IInv, HistoryInv
    <3>2. state[j] # "queued"
      BY DEF IInv, QueuedInv, LaneInv
    <3>3. state[j] \notin {"handed", "running"}
      BY DEF IInv, ExecInv, LaneInv
    <3>4. state[j] \in JobStates
      BY DEF IInv, TypeOK
    <3> QED BY <3>1, <3>2, <3>3, <3>4 DEF JobStates
  <2>2. TypeOK'
    BY <1>1 DEF DrainAll, IInv, TypeOK
  <2>3. LaneInv' /\ CurInv' /\ QueueInv' /\ QueuedInv' /\ ExecInv' /\ ExecQueueInv'
    BY <1>1 DEF DrainAll, IInv, LaneInv, CurInv, QueueInv, QueuedInv, ExecInv, ExecQueueInv
  <2>4. HistoryInv' /\ FuturesTell' /\ PumpInv'
    BY <1>1 DEF DrainAll, IInv, HistoryInv, FuturesTell, PumpInv, Settled, OfChat
  <2>5. DrainAllInv'
    BY <1>1, <2>1 DEF DrainAll, IInv, TypeOK, DrainAllInv
  <2> QED BY <2>2, <2>3, <2>4, <2>5 DEF IInv
<1>2. ASSUME DrainAllReturns PROVE IInv'
  <2>1. TypeOK'
    BY <1>2 DEF DrainAllReturns, IInv, TypeOK
  <2>2. LaneInv' /\ CurInv' /\ QueueInv' /\ QueuedInv' /\ ExecInv' /\ ExecQueueInv'
    BY <1>2 DEF DrainAllReturns, IInv, LaneInv, CurInv, QueueInv, QueuedInv, ExecInv, ExecQueueInv
  <2>3. HistoryInv' /\ FuturesTell' /\ PumpInv'
    BY <1>2 DEF DrainAllReturns, IInv, HistoryInv, FuturesTell, PumpInv, Settled, OfChat
  <2>4. DrainAllInv'
    BY <1>2 DEF DrainAllReturns, IInv, TypeOK, DrainAllInv
  <2> QED BY <2>1, <2>2, <2>3, <2>4 DEF IInv
<1>3. ASSUME ShutdownExecutor PROVE IInv'
  <2>1. /\ \A j \in Jobs : state'[j] = IF state[j] = "handed" THEN "revoked" ELSE state[j]
        /\ state' \in [Jobs -> JobStates]
        /\ execq' = <<>>
        /\ stage = "drained" /\ stage' = "closed"
        /\ orphans' \in SUBSET Jobs
        /\ UNCHANGED <<lane, queue, cur, fut, awaited, clean, pump, mark, log, known, late>>
    BY <1>3 DEF ShutdownExecutor, IInv, TypeOK, JobStates, Running
  <2>2. TypeOK'
    BY <2>1 DEF IInv, TypeOK
  <2>3. LaneInv' /\ ExecQueueInv'
    BY <2>1 DEF IInv, LaneInv, ExecQueueInv
  <2>4. CurInv'
    BY <2>1 DEF IInv, TypeOK, CurInv
  <2>5. QueueInv'
    <3>1. \A c \in Chats : \A i \in 1..Len(queue[c]) :
              queue[c][i] \in Jobs /\ state[queue[c][i]] = "queued"
      BY DEF IInv, TypeOK, QueueInv
    <3> QED BY <2>1, <3>1 DEF IInv, QueueInv
  <2>6. QueuedInv' /\ ExecInv'
    BY <2>1 DEF IInv, QueuedInv, ExecInv
  <2>7. HistoryInv'
    BY <2>1 DEF IInv, HistoryInv
  <2>8. FuturesTell'
    BY <2>1 DEF IInv, FuturesTell, Settled
  <2>9. PumpInv'
    BY <2>1 DEF IInv, TypeOK, PumpInv, Settled
  <2>10. DrainAllInv'
    BY <2>1 DEF IInv, TypeOK, DrainAllInv
  <2> QED
    BY <2>2, <2>3, <2>4, <2>5, <2>6, <2>7, <2>8, <2>9, <2>10 DEF IInv
<1> QED BY <1>1, <1>2, <1>3

\* A caller that goes away, and a stuttering step.
LEMMA CallerCancelledIInv ==
    ASSUME IInv, NEW j \in Jobs, CallerCancelled(j)
    PROVE  IInv'
<1>1. TypeOK'
  BY DEF CallerCancelled, IInv, TypeOK, Futures
<1>2. LaneInv' /\ CurInv' /\ QueueInv' /\ QueuedInv' /\ ExecInv' /\ ExecQueueInv'
  BY DEF CallerCancelled, IInv, LaneInv, CurInv, QueueInv, QueuedInv, ExecInv, ExecQueueInv
<1>3. HistoryInv' /\ PumpInv' /\ DrainAllInv'
  BY DEF CallerCancelled, IInv, HistoryInv, PumpInv, DrainAllInv, Settled, OfChat
<1>4. FuturesTell'
  BY DEF CallerCancelled, IInv, TypeOK, FuturesTell, Settled
<1> QED BY <1>1, <1>2, <1>3, <1>4 DEF IInv

\* A stuttering step changes nothing the invariant speaks of.
LEMMA StutterIInv ==
    ASSUME IInv, UNCHANGED vars
    PROVE  IInv'
  BY DEF IInv, vars, TypeOK, LaneInv, CurInv, QueueInv, QueuedInv, ExecInv,
         ExecQueueInv, HistoryInv, FuturesTell, PumpInv, DrainAllInv, Settled, OfChat

\* IInv is inductive.
LEMMA NextIInv == IInv /\ [Next]_vars => IInv'
<1> SUFFICES ASSUME IInv, [Next]_vars PROVE IInv'
  OBVIOUS
<1>1. ASSUME NEW j \in Jobs,
             Submit(j) \/ CallerCancelled(j) \/ WorkerLand(j) \/ WorkerFail(j)
      PROVE  IInv'
  BY <1>1, SubmitIInv, CallerCancelledIInv, WorkerEndIInv
<1>2. ASSUME NEW c \in Chats, FlushStart(c) \/ FlushResume(c) \/ FlushCancelled(c)
      PROVE  IInv'
  BY <1>2, FlushStartIInv, FlushResumeIInv, FlushCancelledIInv
<1>3. ASSUME NEW c \in Chats, PumpDrain(c) \/ PumpTimeout(c) \/ PumpDrained(c)
      PROVE  IInv'
  BY <1>3, PumpIInv
<1> QED
  BY <1>1, <1>2, <1>3, WorkerStartIInv, ShutdownIInv, StutterIInv DEF Next

-----------------------------------------------------------------------------
(* The theorems *)

\* The strengthened invariant holds of every behaviour.
LEMMA Invariance == Spec => []IInv
  BY InitIInv, NextIInv, PTL DEF Spec

\* Every reachable state is well typed.
THEOREM TypeCorrect == Spec => []TypeOK
  BY Invariance, PTL DEF IInv

\* The lanes never have two jobs of one chat at the executor, however many
\* workers it has and however submits, failures and the shutdown interleave.
THEOREM LanesAreSerial == Spec => []OneAtATime
<1>1. IInv => OneAtATime
  BY DEF IInv, ExecInv, OneAtATime
<1> QED
  BY <1>1, Invariance, PTL

\* A future submit returned says what became of its job.
THEOREM FuturesAreHonest == Spec => []FuturesTell
  BY Invariance, PTL DEF IInv

\* When a pump stops draining, every job it had to wait for is decided: also
\* after a timeout, a cancelled flusher, or a lane that was dropped and made
\* again meanwhile.
THEOREM DrainIsABarrier == Spec => []ReadyIsBacked
<1>1. IInv => ReadyIsBacked
  BY DEF IInv, PumpInv, ReadyIsBacked
<1> QED
  BY <1>1, Invariance, PTL

\* A drain_all that returned True leaves nothing for the executor's shutdown to
\* cancel but jobs submitted after it was called.
THEOREM CleanStop == Spec => []CleanStopLosesNothing
<1>1. IInv => CleanStopLosesNothing
  BY DEF IInv, TypeOK, HistoryInv, DrainAllInv, CleanStopLosesNothing
<1> QED
  BY <1>1, Invariance, PTL

-----------------------------------------------------------------------------
(* The lanes implement the abstract log *)

\* An element in front of a queue: what a line is while its flusher waits.
LEMMA ConsFacts ==
    ASSUME NEW S, NEW e \in S, NEW q \in Seq(S)
    PROVE  /\ <<e>> \o q \in Seq(S)
           /\ <<e>> \o q # <<>>
           /\ Head(<<e>> \o q) = e
           /\ Tail(<<e>> \o q) = q
<1>1. <<e>> \in Seq(S) /\ Len(<<e>>) = 1 /\ <<e>>[1] = e
  OBVIOUS
<1> DEFINE l == <<e>> \o q
<1>2. /\ l \in Seq(S)
      /\ Len(l) = Len(q) + 1
      /\ \A i \in 1..(Len(q) + 1) : l[i] = IF i <= 1 THEN e ELSE q[i - 1]
  BY <1>1
<1>3. l # <<>> /\ Head(l) = e
  BY <1>2
<1>4. Tail(l) \in Seq(S) /\ Len(Tail(l)) = Len(q)
  BY <1>2, <1>3
<1>5. \A i \in 1..Len(q) : Tail(l)[i] = q[i]
  BY <1>2, <1>3
<1> HIDE DEF l
<1>6. Tail(l) = q
  BY <1>4, <1>5, SeqEqual
<1> QED
  BY <1>2, <1>3, <1>6 DEF l

\* Joining the end of what waits is joining the end of the line.
LEMMA AppendBehind ==
    ASSUME NEW S, NEW e \in S, NEW q \in Seq(S), NEW x \in S
    PROVE  Append(<<e>> \o q, x) = <<e>> \o Append(q, x)
<1>1. <<e>> \in Seq(S) /\ <<x>> \in Seq(S)
  OBVIOUS
<1>2. <<e>> \o q \in Seq(S)
  BY ConsFacts
<1>3. Append(<<e>> \o q, x) = (<<e>> \o q) \o <<x>>
  BY <1>2, AppendIsConcat
<1>4. Append(q, x) = q \o <<x>>
  BY AppendIsConcat
<1> QED
  BY <1>1, <1>3, <1>4, ConcatAssociative

\* Taking the head of a queue into the hand leaves the line as it was.
LEMMA HeadInHand ==
    ASSUME NEW S, NEW q \in Seq(S), q # <<>>
    PROVE  <<Head(q)>> \o Tail(q) = q
<1>1. Head(q) \in S /\ Tail(q) \in Seq(S)
  BY TailFacts
<1> DEFINE r == <<Head(q)>> \o Tail(q)
<1>2. r \in Seq(S) /\ r # <<>> /\ Head(r) = Head(q) /\ Tail(r) = Tail(q)
  BY <1>1, ConsFacts
<1> HIDE DEF r
<1>3. Len(r) = Len(q) /\ \A i \in 1..Len(r) : r[i] = q[i]
  <2>1. /\ Len(q) \in Nat \ {0} /\ Len(Tail(q)) = Len(q) - 1 /\ q[1] = Head(q)
        /\ \A i \in 1..(Len(q) - 1) : Tail(q)[i] = q[i + 1]
    BY TailFacts
  <2>2. /\ Len(r) \in Nat \ {0} /\ Len(Tail(r)) = Len(r) - 1 /\ r[1] = Head(r)
        /\ \A i \in 1..(Len(r) - 1) : Tail(r)[i] = r[i + 1]
    BY <1>2, TailFacts
  <2> DEFINE m == Len(r)
             n == Len(q)
  <2>a. m \in Nat /\ n \in Nat /\ m - 1 = n - 1
    BY <1>2, <2>1, <2>2
  <2> HIDE DEF m, n
  <2>b. m = n
    BY <2>a
  <2>3. Len(r) = Len(q)
    BY <2>b DEF m, n
  <2>4. ASSUME NEW i \in 1..Len(r) PROVE r[i] = q[i]
    <3>1. CASE i = 1
      BY <3>1, <1>2, <2>1, <2>2
    <3>2. CASE i # 1
      <4>1. i - 1 \in 1..(Len(r) - 1) /\ (i - 1) + 1 = i
        BY <3>2, <2>2
      <4> QED BY <4>1, <1>2, <2>1, <2>2, <2>3
    <3> QED BY <3>1, <3>2
  <2> QED BY <2>3, <2>4
<1>4. r = q
  BY <1>2, <1>3, SeqEqual
<1> QED
  BY <1>4 DEF r

\* What a step must leave alone for a chat's line to stay as it is.
LEMMA LineStays ==
    ASSUME NEW d \in Chats,
           cur'[d] = cur[d], queue'[d] = queue[d],
           cur[d] # None => (Settled(cur[d])' <=> Settled(cur[d]))
    PROVE  Line(d)' = Line(d)
  BY DEF Line, Settled

\* A line is a sequence of jobs.
LEMMA LineType ==
    ASSUME IInv, NEW c \in Chats
    PROVE  Line(c) \in Seq(Jobs)
<1>1. queue[c] \in Seq(Jobs)
  BY DEF IInv, TypeOK
<1>2. CASE cur[c] # None /\ ~Settled(cur[c])
  <2>1. cur[c] \in Jobs
    BY <1>2 DEF IInv, TypeOK
  <2>2. Line(c) = <<cur[c]>> \o queue[c]
    BY <1>2 DEF Line
  <2> QED BY <1>1, <2>1, <2>2, ConsFacts
<1>3. CASE ~(cur[c] # None /\ ~Settled(cur[c]))
  BY <1>1, <1>3 DEF Line
<1> QED BY <1>2, <1>3

\* The job a flusher holds is one of its chat.
LEMMA CurChat ==
    ASSUME IInv, NEW c \in Chats
    PROVE  cur[c] # None => cur[c] \in Jobs /\ ChatOf[cur[c]] = c
<1>1. cur[c] \in Jobs \cup {None}
  BY DEF IInv, TypeOK
<1>2. cur[c] # None => ChatOf[cur[c]] = c
  BY DEF IInv, CurInv
<1> QED BY <1>1, <1>2

\* The line whose flusher holds an open job: that job is its head.
LEMMA LineHeld ==
    ASSUME IInv, NEW c \in Chats, cur[c] # None, ~Settled(cur[c])
    PROVE  /\ Line(c) # <<>>
           /\ Head(Line(c)) = cur[c]
           /\ Tail(Line(c)) = queue[c]
<1>1. cur[c] \in Jobs /\ queue[c] \in Seq(Jobs)
  BY DEF IInv, TypeOK
<1>2. Line(c) = <<cur[c]>> \o queue[c]
  BY DEF Line
<1> QED BY <1>1, <1>2, ConsFacts

\* submit puts the job at the end of its chat's line.
LEMMA SubmitLine ==
    ASSUME IInv, NEW j \in Jobs, Submit(j)
    PROVE  \A d \in Chats :
               Line(d)' = IF d = ChatOf[j] THEN Append(Line(d), j) ELSE Line(d)
<1> USE ConstantsAssumption
<1> SUFFICES ASSUME NEW d \in Chats
             PROVE  Line(d)' = IF d = ChatOf[j] THEN Append(Line(d), j) ELSE Line(d)
  OBVIOUS
<1>1. cur'[d] = cur[d] /\ (cur[d] # None => cur[d] \in Jobs /\ cur[d] # j)
  <2>1. cur' = cur /\ cur[d] \in Jobs \cup {None} /\ state[j] = "unborn"
    BY DEF Submit, IInv, TypeOK
  <2>2. cur[d] # None => state[cur[d]] # "unborn"
    BY DEF IInv, CurInv
  <2> QED BY <2>1, <2>2
<1>2. cur[d] # None => (Settled(cur[d])' <=> Settled(cur[d]))
  BY <1>1 DEF Submit, IInv, TypeOK, Settled
<1>3. CASE d # ChatOf[j]
  <2>1. queue'[d] = queue[d]
    BY <1>3 DEF Submit, IInv, TypeOK
  <2> QED BY <1>1, <1>2, <1>3, <2>1, LineStays
<1>4. CASE d = ChatOf[j]
  <2>1. queue'[d] = Append(queue[d], j) /\ queue[d] \in Seq(Jobs)
    BY <1>4 DEF Submit, IInv, TypeOK
  <2>2. CASE cur[d] # None /\ ~Settled(cur[d])
    <3>1. Line(d) = <<cur[d]>> \o queue[d] /\ Line(d)' = <<cur[d]>> \o Append(queue[d], j)
      BY <1>1, <1>2, <2>1, <2>2 DEF Line
    <3> QED BY <1>1, <1>4, <2>1, <2>2, <3>1, AppendBehind
  <2>3. CASE ~(cur[d] # None /\ ~Settled(cur[d]))
    BY <1>1, <1>2, <1>4, <2>1, <2>3 DEF Line
  <2> QED BY <2>2, <2>3
<1> QED BY <1>3, <1>4

\* A flusher that goes on takes the head of what waits into its hand, or ends
\* with nothing left: no line changes.
LEMMA AdvanceLine ==
    ASSUME IInv, NEW c \in Chats, Advance(c),
           cur[c] # None => Settled(cur[c])
    PROVE  \A d \in Chats : Line(d)' = Line(d)
<1> USE ConstantsAssumption
<1>0. Line(c) = queue[c] /\ queue[c] \in Seq(Jobs)
  BY DEF Line, IInv, TypeOK
<1>1. CASE queue[c] = <<>>
  <2>1. /\ cur' = [cur EXCEPT ![c] = None]
        /\ queue' = queue /\ state' = state
    BY <1>1 DEF Advance
  <2>2. Line(c)' = queue[c]
    BY <2>1 DEF Line, IInv, TypeOK
  <2>3. \A d \in Chats : d # c => Line(d)' = Line(d)
    BY <2>1 DEF Line, Settled, IInv, TypeOK
  <2> QED BY <1>0, <2>2, <2>3
<1>2. CASE queue[c] # <<>>
  <2> DEFINE h == Head(queue[c])
  <2>1. /\ cur' = [cur EXCEPT ![c] = h]
        /\ queue' = [queue EXCEPT ![c] = Tail(@)]
        /\ state' = [state EXCEPT ![h] = "handed"]
    BY <1>2 DEF Advance
  <2>2. h \in Jobs /\ h # None /\ ChatOf[h] = c
    BY <1>2, <2>1, AdvanceFacts
  <2>3. /\ cur'[c] = h /\ queue'[c] = Tail(queue[c]) /\ state'[h] = "handed"
        /\ \A d \in Chats : d # c => cur'[d] = cur[d] /\ queue'[d] = queue[d]
        /\ \A k \in Jobs : k # h => state'[k] = state[k]
    BY <2>1, <2>2 DEF IInv, TypeOK
  <2>4. <<h>> \o Tail(queue[c]) = queue[c]
    BY <1>2, <1>0, HeadInHand
  <2> HIDE DEF h
  <2>5. Line(c)' = <<h>> \o Tail(queue[c])
    BY <2>2, <2>3 DEF Line, Settled
  <2>6. ASSUME NEW d \in Chats, d # c PROVE Line(d)' = Line(d)
    <3>a. cur[d] # None => cur[d] \in Jobs /\ ChatOf[cur[d]] = d
      BY CurChat
    <3>1. cur[d] # None => cur[d] \in Jobs /\ cur[d] # h
      BY <3>a, <2>2, <2>6
    <3>2. cur[d] # None => (Settled(cur[d])' <=> Settled(cur[d]))
      BY <3>1, <2>3, <2>6 DEF Settled
    <3> QED BY <3>2, <2>3, <2>6, LineStays
  <2> QED BY <1>0, <2>4, <2>5, <2>6
<1> QED BY <1>1, <1>2

\* The cancelled flusher gives up its chat's line, and only that one.
LEMMA CancelLine ==
    ASSUME IInv, NEW c \in Chats, FlushCancelled(c)
    PROVE  /\ Line(c) # <<>>
           /\ Line(c)' = <<>>
           /\ \A d \in Chats : d # c => Line(d)' = Line(d)
<1> USE ConstantsAssumption
<1> DEFINE gone == {queue[c][i] : i \in 1..Len(queue[c])} \cup {cur[c]}
<1>1. /\ state[cur[c]] = "revoked"
      /\ state' = [j \in Jobs |-> IF j \in gone THEN "abandoned" ELSE state[j]]
      /\ queue' = [queue EXCEPT ![c] = <<>>]
      /\ cur' = [cur EXCEPT ![c] = None]
  BY DEF FlushCancelled
<1>2. cur[c] # None /\ ~Settled(cur[c])
  BY <1>1 DEF FlushCancelled, IInv, LaneInv, Settled
<1>3. Line(c) # <<>>
  BY <1>2, LineHeld
<1>4. Line(c)' = <<>>
  BY <1>1 DEF Line, IInv, TypeOK
<1>5. \A j \in gone : j \in Jobs /\ ChatOf[j] = c
  BY <1>2 DEF IInv, TypeOK, QueueInv, CurInv
<1> HIDE DEF gone
<1>6. ASSUME NEW d \in Chats, d # c PROVE Line(d)' = Line(d)
  <2>a. cur[d] # None => cur[d] \in Jobs /\ ChatOf[cur[d]] = d
    BY CurChat
  <2>1. cur[d] # None => cur[d] \in Jobs /\ cur[d] \notin gone
    BY <2>a, <1>5, <1>6
  <2>3. cur'[d] = cur[d] /\ queue'[d] = queue[d]
    BY <1>1, <1>6 DEF IInv, TypeOK
  <2>2. cur[d] # None => (Settled(cur[d])' <=> Settled(cur[d]))
    BY <2>1, <2>3, <1>1 DEF Settled
  <2> QED BY <2>2, <2>3, LineStays
<1> QED BY <1>3, <1>4, <1>6

\* A worker's end, well or badly, removes the head of its chat's line.
LEMMA WorkerLine ==
    ASSUME IInv, NEW j \in Jobs, WorkerLand(j) \/ WorkerFail(j)
    PROVE  /\ Line(ChatOf[j]) # <<>>
           /\ Head(Line(ChatOf[j])) = j
           /\ \A d \in Chats :
                  Line(d)' = IF d = ChatOf[j] THEN Tail(Line(d)) ELSE Line(d)
<1> USE ConstantsAssumption
<1> DEFINE c == ChatOf[j]
<1>1. /\ state[j] = "running" /\ state'[j] \in {"landed", "failed"}
      /\ \A k \in Jobs : k # j => state'[k] = state[k]
      /\ UNCHANGED <<queue, cur>>
  BY DEF WorkerLand, WorkerFail, IInv, TypeOK
<1>2. c \in Chats /\ cur[c] = j /\ j # None
  BY <1>1 DEF IInv, ExecInv
<1>3. ~Settled(cur[c]) /\ Settled(cur[c])'
  BY <1>1, <1>2 DEF Settled
<1>4. Line(c) # <<>> /\ Head(Line(c)) = j /\ Tail(Line(c)) = queue[c]
  BY <1>2, <1>3, LineHeld
<1>5. Line(c)' = queue[c]
  BY <1>1, <1>3 DEF Line
<1>6. ASSUME NEW d \in Chats, d # c PROVE Line(d)' = Line(d)
  <2>1. cur[d] # None => cur[d] \in Jobs /\ cur[d] # j
    BY <1>2, <1>6 DEF IInv, TypeOK, CurInv
  <2>2. cur[d] # None => (Settled(cur[d])' <=> Settled(cur[d]))
    BY <2>1, <1>1 DEF Settled
  <2> QED BY <1>1, <2>2, LineStays
<1> QED BY <1>4, <1>5, <1>6

\* A step that changes neither what the flushers hold, nor what waits, nor
\* whether a held job is open, changes no line.
LEMMA LinesStay ==
    ASSUME cur' = cur, queue' = queue,
           \A c \in Chats : cur[c] # None => (Settled(cur[c])' <=> Settled(cur[c]))
    PROVE  \A d \in Chats : Line(d)' = Line(d)
  BY LineStays

\* A step under which every line, the log and the rest stay is a stutter of the
\* abstract log.
LEMMA LogStutter ==
    ASSUME \A d \in Chats : Line(d)' = Line(d),
           UNCHANGED <<log, known>>,
           (stage' = "closed") <=> (stage = "closed")
    PROVE  UNCHANGED Log!vars
<1>1. [c \in Chats |-> Line(c)]' = [c \in Chats |-> Line(c)]
  OBVIOUS
<1>2. (stage = "closed")' = (stage = "closed")
  OBVIOUS
<1> QED BY <1>1, <1>2 DEF Log!vars

\* Initially nothing is in any line.
LEMMA InitLog == Init => Log!Init
<1> SUFFICES ASSUME Init PROVE Log!Init
  OBVIOUS
<1>1. \A c \in Chats : Line(c) = <<>>
  BY DEF Init, Line
<1> QED BY <1>1 DEF Init, Log!Init

\* Every step of the lanes is a step of the abstract log, or none.
LEMMA NextLog == IInv /\ [Next]_vars => [Log!Next]_(Log!vars)
<1> SUFFICES ASSUME IInv, [Next]_vars PROVE Log!Next \/ UNCHANGED Log!vars
  OBVIOUS
<1> USE ConstantsAssumption
<1>0. \A c \in Chats : cur[c] # None => cur[c] \in Jobs /\ ChatOf[cur[c]] = c
  BY CurChat
<1>1. ASSUME NEW j \in Jobs, Submit(j) PROVE Log!Enqueue(j)
  <2>1. \A d \in Chats : Line(d)' = IF d = ChatOf[j] THEN Append(Line(d), j) ELSE Line(d)
    BY <1>1, SubmitLine
  <2>2. j \notin known /\ known' = known \cup {j} /\ UNCHANGED <<log, stage>>
    BY <1>1 DEF Submit, IInv, HistoryInv
  <2>3. [c \in Chats |-> Line(c)]'
            = [[c \in Chats |-> Line(c)] EXCEPT ![ChatOf[j]] = Append(@, j)]
    BY <2>1
  <2> QED BY <2>2, <2>3 DEF Log!Enqueue
<1>2. ASSUME NEW j \in Jobs, CallerCancelled(j) PROVE UNCHANGED Log!vars
  <2>1. UNCHANGED <<cur, queue, state, log, known, stage>>
    BY <1>2 DEF CallerCancelled
  <2> QED BY <2>1, LinesStay, LogStutter DEF Settled
<1>3. ASSUME NEW j \in Jobs, WorkerLand(j) PROVE Log!Land(ChatOf[j])
  <2>1. /\ Line(ChatOf[j]) # <<>> /\ Head(Line(ChatOf[j])) = j
        /\ \A d \in Chats : Line(d)' = IF d = ChatOf[j] THEN Tail(Line(d)) ELSE Line(d)
    BY <1>3, WorkerLine
  <2>2. log' = [log EXCEPT ![ChatOf[j]] = Append(@, j)] /\ UNCHANGED <<known, stage>>
    BY <1>3 DEF WorkerLand
  <2>3. [c \in Chats |-> Line(c)]'
            = [[c \in Chats |-> Line(c)] EXCEPT ![ChatOf[j]] = Tail(@)]
    BY <2>1
  <2> QED BY <2>1, <2>2, <2>3 DEF Log!Land
<1>4. ASSUME NEW j \in Jobs, WorkerFail(j) PROVE Log!Fail(ChatOf[j])
  <2>1. /\ Line(ChatOf[j]) # <<>>
        /\ \A d \in Chats : Line(d)' = IF d = ChatOf[j] THEN Tail(Line(d)) ELSE Line(d)
    BY <1>4, WorkerLine
  <2>2. UNCHANGED <<log, known, stage>>
    BY <1>4 DEF WorkerFail
  <2>3. [c \in Chats |-> Line(c)]'
            = [[c \in Chats |-> Line(c)] EXCEPT ![ChatOf[j]] = Tail(@)]
    BY <2>1
  <2> QED BY <2>1, <2>2, <2>3 DEF Log!Fail
<1>5. ASSUME NEW c \in Chats, FlushStart(c) PROVE UNCHANGED Log!vars
  <2>1. cur[c] = None
    BY <1>5 DEF FlushStart, IInv, LaneInv
  <2>2. \A d \in Chats : Line(d)' = Line(d)
    BY <1>5, <2>1, AdvanceLine DEF FlushStart
  <2> QED BY <1>5, <2>2, LogStutter DEF FlushStart
<1>6. ASSUME NEW c \in Chats, FlushResume(c) PROVE UNCHANGED Log!vars
  <2>1. Settled(cur[c])
    BY <1>6 DEF FlushResume, Settled
  <2>2. \A d \in Chats : Line(d)' = Line(d)
    BY <1>6, <2>1, AdvanceLine DEF FlushResume
  <2> QED BY <1>6, <2>2, LogStutter DEF FlushResume
<1>7. ASSUME NEW c \in Chats, FlushCancelled(c) PROVE Log!GiveUp(c)
  <2>1. /\ Line(c) # <<>> /\ Line(c)' = <<>>
        /\ \A d \in Chats : d # c => Line(d)' = Line(d)
    BY <1>7, CancelLine
  <2>2. cur[c] \in Jobs /\ state[cur[c]] = "revoked" /\ UNCHANGED <<log, known, stage>>
    BY <1>7, <1>0 DEF FlushCancelled, IInv, LaneInv
  <2>3. stage = "closed"
    BY <2>2 DEF IInv, HistoryInv
  <2>4. [d \in Chats |-> Line(d)]' = [[d \in Chats |-> Line(d)] EXCEPT ![c] = <<>>]
    BY <2>1
  <2> QED BY <2>1, <2>2, <2>3, <2>4 DEF Log!GiveUp
<1>8. ASSUME NEW c \in Chats, PumpDrain(c) \/ PumpTimeout(c) \/ PumpDrained(c)
      PROVE  UNCHANGED Log!vars
  <2>1. UNCHANGED <<cur, queue, state, log, known, stage>>
    BY <1>8 DEF PumpDrain, PumpTimeout, PumpDrained
  <2> QED BY <2>1, LinesStay, LogStutter DEF Settled
<1>9. ASSUME WorkerStart PROVE UNCHANGED Log!vars
  <2> DEFINE h == Head(execq)
  <2>1. /\ state' = [state EXCEPT ![h] = "running"]
        /\ UNCHANGED <<cur, queue, log, known, stage>>
    BY <1>9 DEF WorkerStart
  <2>2. h \in Jobs /\ state[h] = "handed"
    BY <1>9, TailFacts DEF WorkerStart, IInv, TypeOK, ExecQueueInv
  <2> HIDE DEF h
  <2>3. \A k \in Jobs : Settled(k)' <=> Settled(k)
    BY <2>1, <2>2 DEF Settled, IInv, TypeOK
  <2> QED BY <1>0, <2>1, <2>3, LinesStay, LogStutter
<1>10. ASSUME DrainAll \/ DrainAllReturns PROVE UNCHANGED Log!vars
  <2>1. /\ UNCHANGED <<cur, queue, state, log, known>>
        /\ (stage' = "closed") <=> (stage = "closed")
    BY <1>10 DEF DrainAll, DrainAllReturns
  <2> QED BY <2>1, LinesStay, LogStutter DEF Settled
<1>11. ASSUME ShutdownExecutor PROVE Log!Stop
  <2>1. /\ stage # "closed" /\ stage' = "closed"
        /\ UNCHANGED <<cur, queue, log, known>>
        /\ \A k \in Jobs : Settled(k)' <=> Settled(k)
    BY <1>11 DEF ShutdownExecutor, Settled
  <2>2. \A d \in Chats : Line(d)' = Line(d)
    BY <1>0, <2>1, LinesStay
  <2>3. [c \in Chats |-> Line(c)]' = [c \in Chats |-> Line(c)]
    BY <2>2
  <2> QED BY <2>1, <2>3 DEF Log!Stop
<1>12. ASSUME UNCHANGED vars PROVE UNCHANGED Log!vars
  <2>1. UNCHANGED <<cur, queue, state, log, known, stage>>
    BY <1>12 DEF vars
  <2> QED BY <2>1, LinesStay, LogStutter DEF Settled
<1> QED
  BY <1>1, <1>2, <1>3, <1>4, <1>5, <1>6, <1>7, <1>8, <1>9, <1>10, <1>11, <1>12
  DEF Next, Log!Next

\* The lanes, with their flusher tasks, futures, executor threads and shutdown,
\* implement the abstract log: rows of a chat land in submission order, each
\* job at most once, and only a stopped executor gives a line up.
THEOREM LanesAreOrderedLogs == Spec => ImplementsOrderedLog
  BY InitLog, InitIInv, NextIInv, NextLog, PTL DEF Spec, ImplementsOrderedLog, Log!Spec

=============================================================================
