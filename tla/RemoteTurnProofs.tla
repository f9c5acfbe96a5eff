-------------------------- MODULE RemoteTurnProofs --------------------------
(***************************************************************************)
(* Proofs about the turns of a session on a remote machine, for any number *)
(* of turns, drops, stops, crashes and restarts.                           *)
(***************************************************************************)
EXTENDS RemoteTurn, SequenceTheorems, FiniteSetTheorems, TLAPS

-----------------------------------------------------------------------------
(* The inductive invariant *)

\* The prompts that the process holds, in any of its three places.
Content == Range(stdin) \cup ({on} \ {0}) \cup Range(out)

\* The frames on their way to the turn stream.
Coming == Range(up) \cup Range(q)

\* The turn's stream has not seen its result yet.
Early == stage \in {"sent", "stream"}

\* The proxy still answers for turn c, or has given it up as possibly running.
Open(c) == c \in loose \/ (c = cur /\ (Early \/ (dead /\ stage # "wait")))

\* The satellite serves the turn: it has a task for it that has not ended.
Serves(c) == handler[c] \in {"lock", "read"}

\* The prompt of turn c has been written to the process.
Written(c) == handler[c] \in {"read", "gone"}

\* What the proxy knows of the process fits the stage of the turn.
StageInv ==
    /\ stage \in {"sent", "stream", "drain"} => cur # 0
    /\ stage \in {"start", "wait"} => cur < MaxTurns
    /\ stage = "start" => dead /\ ~killed
    /\ killed => dead
    /\ ~rec => dead

\* Tasks exist only for sent turns, one of them reads, and they get the lock
\* in the order of their turns.
HandlerInv ==
    /\ reader # 0 => handler[reader] = "read"
    /\ \A c \in Turns : handler[c] = "read" => reader = c
    /\ \A c \in Turns : handler[c] # "none" => c <= cur
    /\ \A c, d \in Turns : c < d /\ handler[c] = "lock" => ~Written(d)
    /\ \A c \in Turns : c \in mixed => Written(c)

\* The send commands in flight: in order, not seen by the satellite yet, and
\* each of a turn that is open.
SendsInv ==
    /\ \A i \in 1..Len(down) : down[i].k = "send" =>
           /\ down[i].c \in 1..cur
           /\ \A d \in Turns : down[i].c <= d => handler[d] = "none"
           /\ Open(down[i].c)
    /\ \A i, j \in 1..Len(down) :
           i < j /\ down[i].k = "send" /\ down[j].k = "send" => down[i].c < down[j].c

\* The start commands in flight: in order, behind every send, and only while
\* the session counts as dead.
StartsInv ==
    /\ \A i \in 1..Len(down) : down[i].k = "start" =>
           /\ dead
           /\ stage \in {"idle", "start"}
           /\ down[i].c \in 1..starts
    /\ \A i, j \in 1..Len(down) :
           i < j /\ down[i].k = "start" => down[j].k # "send"
    /\ \A i, j \in 1..Len(down) :
           i < j /\ down[i].k = "start" /\ down[j].k = "start" => down[i].c < down[j].c

\* Nothing stops the reader of a turn whose stream still reads, unless the
\* turn was killed: a stop on its way is for an earlier reader.
StopInv ==
    Early /\ ~killed =>
        /\ handler[cur] = "read" => ~stop
        /\ \A i \in 1..Len(down) : down[i].k = "stop" =>
               \E j \in 1..Len(down) : i < j /\ down[j].k = "send" /\ down[j].c = cur

\* A dead process holds no prompt it could still answer, and the turns that
\* it leaves behind count as cut.
DeadInv ==
    proc = "dead" =>
        /\ on = 0 /\ stdin = <<>>
        /\ \A c \in Turns : Serves(c) => c \in cut

\* The end of a turn's reader before the turn's result means a cut process.
EndsInv ==
    \A m \in Coming : m.k = "end" =>
        /\ m.c <= cur
        /\ Early /\ ~killed /\ m.c = cur => cur \in cut

\* The sentinel of an expired grace comes right behind its marker.
SentinelInv ==
    /\ \A m \in Range(up) : m.k # "none"
    /\ Early => \A i \in 1..Len(q) : q[i].k = "none" => i > 1 /\ q[i - 1].k = "marker"

\* An error on its way is that of a turn whose prompt was never written.
ErrorsInv ==
    \A m \in Coming : m.k = "error" =>
        m.c \in Turns /\ handler[m.c] = "gone" /\ m.c \notin Content

\* A result on its way was read by a reader, its prompt is no longer with the
\* process, and it is the reader's own unless the turn is mixed.
ResultsInv ==
    \A m \in Coming : m.k = "result" =>
        /\ m.c \in Turns /\ Written(m.c)
        /\ m.p \in Turns /\ Written(m.p) /\ m.p \notin Content
        /\ m.c \notin mixed => m.p = m.c

\* The satellite has a fresh process and no task, and none is on its way.
Fresh ==
    /\ Content = {}
    /\ \A c \in Turns : ~Serves(c)
    /\ \A i \in 1..Len(down) : down[i].k \notin {"start", "send"}

\* The answer to the start that is waited for comes from a satellite that
\* has begun afresh and has not been sent anything since.
StartedInv ==
    \A m \in Range(up) : m.k = "started" =>
        /\ m.c <= starts
        /\ stage = "start" /\ m.c = starts => Fresh

\* No element twice.
Distinct(s) == \A i, j \in 1..Len(s) : s[i] = s[j] => i = j

\* A prompt is with the process once, after it was written.
PromptsInv ==
    /\ \A p \in Content : p \in Turns /\ Written(p)
    /\ Distinct(stdin) /\ Distinct(out)
    /\ Range(stdin) \cap Range(out) = {}
    /\ on \notin Range(stdin) \cup Range(out)

\* A live process works on prompts of open turns, or behind a loose one.
WorkInv ==
    /\ loose \subseteq 1..cur
    /\ proc # "dead" =>
        /\ \A c \in Turns : handler[c] = "lock" => Open(c)
        /\ \A p \in Content : Open(p) \/ \E l \in loose : l < p
        /\ \A p \in Content \cap mixed : p \in loose \/ \E l \in loose : l < p

\* The process of a reader that is not mixed holds nothing but its prompt.
ReaderInv == reader # 0 /\ reader \notin mixed => Content \subseteq {reader}

IInv ==
    /\ TypeOK
    /\ StageInv
    /\ HandlerInv
    /\ SendsInv
    /\ StartsInv
    /\ StopInv
    /\ DeadInv
    /\ EndsInv
    /\ SentinelInv
    /\ ErrorsInv
    /\ ResultsInv
    /\ StartedInv
    /\ PromptsInv
    /\ WorkInv
    /\ ReaderInv
    /\ NoFalseLoss
    /\ ResultIsOwnUnlessMixed

-----------------------------------------------------------------------------
(* Sequences *)

\* What a sequence holds is what its places hold.
LEMMA RangeFacts ==
    ASSUME NEW S, NEW s \in Seq(S)
    PROVE  /\ Len(s) \in Nat
           /\ Range(s) \subseteq S
           /\ \A i \in 1..Len(s) : s[i] \in Range(s) /\ s[i] \in S
           /\ \A x \in Range(s) : \E i \in 1..Len(s) : s[i] = x
           /\ Range(<<>>) = {}
  BY DEF Range

\* The head and what remains behind it.
LEMMA TailFacts ==
    ASSUME NEW S, NEW s \in Seq(S), s # <<>>
    PROVE  /\ Len(s) \in Nat \ {0}
           /\ 1 \in 1..Len(s)
           /\ Head(s) = s[1]
           /\ Head(s) \in S /\ Head(s) \in Range(s)
           /\ Tail(s) \in Seq(S)
           /\ Len(Tail(s)) = Len(s) - 1
           /\ \A i \in 1..Len(Tail(s)) : i + 1 \in 1..Len(s) /\ Tail(s)[i] = s[i + 1]
           /\ \A i \in 1..Len(s) : i # 1 => i - 1 \in 1..Len(Tail(s)) /\ Tail(s)[i - 1] = s[i]
           /\ Range(Tail(s)) \subseteq Range(s)
           /\ Range(s) \subseteq Range(Tail(s)) \cup {Head(s)}
<1>1. /\ Len(s) \in Nat \ {0}
      /\ Head(s) = s[1]
      /\ Head(s) \in S
      /\ Tail(s) \in Seq(S)
      /\ Len(Tail(s)) = Len(s) - 1
      /\ \A i \in 1..(Len(s) - 1) : Tail(s)[i] = s[i + 1]
  OBVIOUS
<1>2. 1 \in 1..Len(s)
  BY <1>1
<1>3. \A i \in 1..Len(Tail(s)) : i + 1 \in 1..Len(s) /\ Tail(s)[i] = s[i + 1]
  BY <1>1
<1>4. \A i \in 1..Len(s) : i # 1 => i - 1 \in 1..Len(Tail(s)) /\ Tail(s)[i - 1] = s[i]
  <2> SUFFICES ASSUME NEW i \in 1..Len(s), i # 1
               PROVE  i - 1 \in 1..Len(Tail(s)) /\ Tail(s)[i - 1] = s[i]
    OBVIOUS
  <2>1. i - 1 \in 1..(Len(s) - 1) /\ (i - 1) + 1 = i
    BY <1>1
  <2> QED BY <2>1, <1>1
<1>5. Head(s) \in Range(s)
  BY <1>1, <1>2, RangeFacts
<1>6. Range(Tail(s)) \subseteq Range(s)
  <2> DEFINE t == Tail(s)
  <2>1. t \in Seq(S) /\ \A i \in 1..Len(t) : i + 1 \in 1..Len(s) /\ t[i] = s[i + 1]
    BY <1>1, <1>3
  <2> HIDE DEF t
  <2>2. Range(t) \subseteq Range(s)
    BY <2>1, RangeFacts
  <2> QED BY <2>2 DEF t
<1>7. Range(s) \subseteq Range(Tail(s)) \cup {Head(s)}
  <2> SUFFICES ASSUME NEW i \in 1..Len(s)
               PROVE  s[i] \in Range(Tail(s)) \cup {Head(s)}
    BY RangeFacts
  <2>1. CASE i = 1
    BY <2>1, <1>1
  <2>2. CASE i # 1
    BY <2>2, <1>1, <1>4, RangeFacts
  <2> QED BY <2>1, <2>2
<1> QED
  BY <1>1, <1>2, <1>3, <1>4, <1>5, <1>6, <1>7

\* One more at the end.
LEMMA AppendFacts ==
    ASSUME NEW S, NEW s \in Seq(S), NEW e \in S
    PROVE  /\ Len(s) \in Nat
           /\ Append(s, e) \in Seq(S)
           /\ Len(Append(s, e)) = Len(s) + 1
           /\ \A i \in 1..Len(s) : i \in 1..(Len(s) + 1) /\ Append(s, e)[i] = s[i]
           /\ \A i \in 1..(Len(s) + 1) : i \in 1..Len(s) \/ i = Len(s) + 1
           /\ Append(s, e)[Len(s) + 1] = e
           /\ Range(Append(s, e)) = Range(s) \cup {e}
<1>1. /\ Len(s) \in Nat
      /\ Append(s, e) \in Seq(S)
      /\ Len(Append(s, e)) = Len(s) + 1
      /\ \A i \in 1..Len(s) : i \in 1..(Len(s) + 1) /\ Append(s, e)[i] = s[i]
      /\ \A i \in 1..(Len(s) + 1) : i \in 1..Len(s) \/ i = Len(s) + 1
      /\ Append(s, e)[Len(s) + 1] = e
  OBVIOUS
<1> DEFINE t == Append(s, e)
<1>2. /\ t \in Seq(S) /\ Len(t) = Len(s) + 1
      /\ Len(s) + 1 \in 1..Len(t)
      /\ \A i \in 1..Len(s) : i \in 1..Len(t) /\ t[i] = s[i]
      /\ \A i \in 1..Len(t) : i \in 1..Len(s) \/ i = Len(s) + 1
      /\ t[Len(s) + 1] = e
  BY <1>1
<1> HIDE DEF t
<1>3. \A x \in Range(t) : \E i \in 1..Len(t) : t[i] = x
  BY <1>2, RangeFacts
<1>4. Range(t) \subseteq Range(s) \cup {e}
  BY <1>2, <1>3, RangeFacts
<1>5. Range(s) \cup {e} \subseteq Range(t)
  BY <1>2, RangeFacts
<1> QED
  BY <1>1, <1>4, <1>5 DEF t

\* One sequence behind another.
LEMMA ConcatFacts ==
    ASSUME NEW S, NEW s \in Seq(S), NEW t \in Seq(S)
    PROVE  /\ s \o t \in Seq(S)
           /\ Len(s) \in Nat /\ Len(t) \in Nat
           /\ Len(s \o t) = Len(s) + Len(t)
           /\ \A i \in 1..Len(s) : i \in 1..Len(s \o t) /\ (s \o t)[i] = s[i]
           /\ \A i \in 1..Len(s \o t) :
                  i \in 1..Len(s) \/ (i - Len(s) \in 1..Len(t) /\ (s \o t)[i] = t[i - Len(s)])
           /\ Range(s \o t) \subseteq Range(s) \cup Range(t)
<1> DEFINE u == s \o t
<1>1. /\ u \in Seq(S) /\ Len(s) \in Nat /\ Len(t) \in Nat
      /\ Len(u) = Len(s) + Len(t)
      /\ \A i \in 1..(Len(s) + Len(t)) : u[i] = IF i <= Len(s) THEN s[i] ELSE t[i - Len(s)]
  OBVIOUS
<1> HIDE DEF u
<1>2. \A i \in 1..Len(s) : i \in 1..Len(u) /\ u[i] = s[i]
  BY <1>1
<1>3. \A i \in 1..Len(u) :
          i \in 1..Len(s) \/ (i - Len(s) \in 1..Len(t) /\ u[i] = t[i - Len(s)])
  BY <1>1
<1>4. \A x \in Range(u) : \E i \in 1..Len(u) : u[i] = x
  BY <1>1, RangeFacts
<1>5. Range(u) \subseteq Range(s) \cup Range(t)
  BY <1>2, <1>3, <1>4, RangeFacts
<1> QED
  BY <1>1, <1>2, <1>3, <1>5 DEF u

\* Distinct elements stay distinct at either end of a queue.
LEMMA DistinctFacts ==
    ASSUME NEW S, NEW s \in Seq(S), Distinct(s)
    PROVE  /\ s # <<>> => Distinct(Tail(s)) /\ Head(s) \notin Range(Tail(s))
           /\ \A e \in S : e \notin Range(s) => Distinct(Append(s, e))
<1>1. ASSUME s # <<>> PROVE Distinct(Tail(s)) /\ Head(s) \notin Range(Tail(s))
  <2>1. /\ Len(s) \in Nat \ {0} /\ 1 \in 1..Len(s) /\ Head(s) = s[1]
        /\ Tail(s) \in Seq(S) /\ Len(Tail(s)) = Len(s) - 1
        /\ \A i \in 1..Len(Tail(s)) : i + 1 \in 1..Len(s) /\ Tail(s)[i] = s[i + 1]
    BY <1>1, TailFacts
  <2>2. Distinct(Tail(s))
    <3> SUFFICES ASSUME NEW i \in 1..Len(Tail(s)), NEW j \in 1..Len(Tail(s)),
                        Tail(s)[i] = Tail(s)[j]
                 PROVE  i = j
      BY DEF Distinct
    <3>1. i + 1 = j + 1
      BY <2>1 DEF Distinct
    <3> QED BY <3>1, <2>1
  <2>3. ASSUME NEW i \in 1..Len(Tail(s)) PROVE Tail(s)[i] # Head(s)
    <3>1. i + 1 # 1
      BY <2>1
    <3> QED BY <3>1, <2>1 DEF Distinct
  <2>4. Head(s) \notin Range(Tail(s))
    <3> DEFINE t == Tail(s)
    <3>1. t \in Seq(S) /\ \A i \in 1..Len(t) : t[i] # Head(s)
      BY <2>1, <2>3
    <3> HIDE DEF t
    <3>2. Head(s) \notin Range(t)
      BY <3>1, RangeFacts
    <3> QED BY <3>2 DEF t
  <2> QED BY <2>2, <2>4
<1>2. ASSUME NEW e \in S, e \notin Range(s) PROVE Distinct(Append(s, e))
  <2> DEFINE t == Append(s, e)
  <2>1. /\ Len(t) = Len(s) + 1
        /\ \A i \in 1..Len(s) : t[i] = s[i]
        /\ \A i \in 1..Len(t) : i \in 1..Len(s) \/ i = Len(s) + 1
        /\ t[Len(s) + 1] = e
    BY AppendFacts
  <2>2. \A i \in 1..Len(s) : s[i] # e
    BY <1>2, RangeFacts
  <2> HIDE DEF t
  <2>3. Distinct(t)
    BY <2>1, <2>2 DEF Distinct
  <2> QED BY <2>3 DEF t
<1> QED BY <1>1, <1>2

\* The frames of a finite set in some order.
LEMMA SetToSeqFacts ==
    ASSUME NEW S, IsFiniteSet(S)
    PROVE  SetToSeq(S) \in Seq(S) /\ Range(SetToSeq(S)) \subseteq S
<1> DEFINE n == Cardinality(S)
<1>1. n \in Nat /\ ExistsBijection(1..n, S)
  BY FS_CardinalityType
<1>2. \E f \in [1..n -> S] : IsInjective(f)
  BY <1>1 DEF ExistsBijection, Bijection, Injection
<1>3. SetToSeq(S) \in [1..n -> S]
  BY <1>2 DEF SetToSeq
<1>4. SetToSeq(S) \in Seq(S)
  BY <1>1, <1>3
<1> QED BY <1>4, RangeFacts

-----------------------------------------------------------------------------
(* Initial states, and what steps of one side leave alone *)

\* The session is idle, with nothing sent.
LEMMA InitIInv == Init => IInv
<1> SUFFICES ASSUME Init PROVE IInv
  OBVIOUS
<1> USE TurnBoundsAssumption DEF Init
<1>1. TypeOK
  <2>1. 0 \in 0..MaxTurns /\ 0 \in 0..MaxDrops /\ 0 \in 0..MaxStops
        /\ 0 \in 0..MaxCrashes /\ 0 \in 0..MaxStarts
    OBVIOUS
  <2>2. <<>> \in Seq(Frames) /\ <<>> \in Seq(Turns)
    OBVIOUS
  <2>3. {} \in SUBSET Turns
    OBVIOUS
  <2> QED BY <2>1, <2>2, <2>3 DEF TypeOK
<1>2. Content = {} /\ Coming = {}
  BY RangeFacts DEF Content, Coming, Range
<1>3. StageInv /\ HandlerInv /\ StopInv /\ DeadInv /\ WorkInv /\ ReaderInv
  BY <1>2 DEF StageInv, HandlerInv, StopInv, DeadInv, WorkInv, ReaderInv, Early,
              Written, Serves
<1>4. SendsInv /\ StartsInv
  BY DEF SendsInv, StartsInv
<1>5. EndsInv /\ SentinelInv /\ ErrorsInv /\ ResultsInv /\ StartedInv
  BY <1>2 DEF Coming, EndsInv, SentinelInv, ErrorsInv, ResultsInv, StartedInv, Early
<1>6. PromptsInv
  BY <1>2 DEF PromptsInv, Distinct, Range
<1>7. NoFalseLoss /\ ResultIsOwnUnlessMixed
  BY DEF NoFalseLoss, ResultIsOwnUnlessMixed, Turns
<1> QED
  BY <1>1, <1>3, <1>4, <1>5, <1>6, <1>7 DEF IInv

\* enqueue_send adds its frame at the end, or nothing when the link is down.
LEMMA SentFacts ==
    ASSUME NEW f \in Seq(Frames), down \in Seq(Frames), down' = Sent(f)
    PROVE  /\ down' \in Seq(Frames)
           /\ Len(down) \in Nat /\ Len(f) \in Nat
           /\ \A i \in 1..Len(down) : i \in 1..Len(down') /\ down'[i] = down[i]
           /\ \A i \in 1..Len(down') :
                  \/ i \in 1..Len(down)
                  \/ linked /\ i - Len(down) \in 1..Len(f) /\ down'[i] = f[i - Len(down)]
<1>1. CASE linked
  BY <1>1, ConcatFacts DEF Sent
<1>2. CASE ~linked
  BY <1>2, RangeFacts DEF Sent
<1> QED BY <1>1, <1>2

\* The frames a proxy step other than a send or a start may add.
Quiet == {"stop", "interrupt", "abort"}

\* A step of the proxy within its turn: it loses or takes frames that come in,
\* may tell the satellite to stop, and closes the turn only for a reason.
LEMMA ProxyStep ==
    ASSUME IInv, TypeOK',
           UNCHANGED <<satVars, cliVars, cur, starts, cut, mixed>>,
           stage' = "start" => stage = "start",
           loose \subseteq loose', loose' \subseteq 1..cur,
           Range(up') \subseteq Range(up),
           \A m \in Range(q') : m \in Coming \/ m.k \in {"marker", "none"},
           Early' /\ ~killed' => Early /\ ~killed,
           cur \in Turns /\ Open(cur) /\ ~Open(cur)' =>
               /\ Written(cur)
               /\ proc # "dead" /\ cur \in Content => \E l \in loose : l < cur,
           dead /\ stage \in {"idle", "start"} => dead' /\ stage' \in {"idle", "start"},
           \A i \in 1..Len(down') :
               (i \in 1..Len(down) /\ down'[i] = down[i]) \/ down'[i].k \in Quiet,
           Early' /\ ~killed' =>
               /\ down' = <<>> \/ \A i \in 1..Len(down) : i \in 1..Len(down') /\ down'[i] = down[i]
               /\ \A i \in 1..Len(down') : down'[i].k = "stop" => i \in 1..Len(down) /\ down'[i] = down[i]
    PROVE  /\ HandlerInv' /\ SendsInv' /\ StartsInv' /\ StopInv' /\ DeadInv'
           /\ EndsInv' /\ ErrorsInv' /\ ResultsInv' /\ StartedInv'
           /\ PromptsInv' /\ WorkInv' /\ ReaderInv'
<1>1. UNCHANGED <<handler, reader, stop, proc, stdin, on, out>>
  BY DEF satVars, cliVars
<1>2. Content' = Content /\ (\A c \in Turns : Written(c)' = Written(c) /\ Serves(c)' = Serves(c))
  BY <1>1 DEF Content, Written, Serves
<1>3. \A m \in Coming' : m \in Coming \/ m.k \in {"marker", "none"}
  BY DEF Coming
<1>4. HandlerInv' /\ DeadInv' /\ PromptsInv' /\ ReaderInv'
  BY <1>1, <1>2 DEF IInv, HandlerInv, DeadInv, PromptsInv, ReaderInv
<1>5. EndsInv' /\ ErrorsInv' /\ ResultsInv'
  BY <1>2, <1>3, <1>1 DEF IInv, EndsInv, ErrorsInv, ResultsInv
<1>6. \A c \in Turns : Open(c) /\ ~Open(c)' =>
          /\ Written(c)
          /\ proc # "dead" /\ c \in Content => \E l \in loose : l < c
  BY DEF Open
<1>7. WorkInv'
  <2>1. \A c \in Turns : handler[c] = "lock" => ~Written(c)
    BY DEF Written
  <2>2. \A p \in Content : p \in Turns
    BY DEF IInv, PromptsInv
  <2> QED BY <1>1, <1>2, <1>6, <2>1, <2>2 DEF IInv, WorkInv
<1>8. \A i \in 1..Len(down') : down'[i].k \in {"send", "start"} =>
          i \in 1..Len(down) /\ down'[i] = down[i]
  BY DEF Quiet
<1>9. SendsInv'
  <2>1. ASSUME NEW i \in 1..Len(down'), down'[i].k = "send"
        PROVE  /\ down'[i].c \in 1..cur
               /\ \A d \in Turns : down'[i].c <= d => handler[d] = "none"
               /\ \/ down'[i].c \in loose'
                  \/ down'[i].c = cur /\ (Early' \/ (dead' /\ stage' # "wait"))
    <3>1. i \in 1..Len(down) /\ down'[i] = down[i]
      BY <1>8, <2>1
    <3>2. /\ down[i].c \in 1..cur
          /\ \A d \in Turns : down[i].c <= d => handler[d] = "none"
          /\ Open(down[i].c)
      BY <2>1, <3>1 DEF IInv, SendsInv
    <3>t. MaxTurns \in Nat /\ cur \in 0..MaxTurns
      BY TurnBoundsAssumption DEF IInv, TypeOK
    <3>3. down[i].c \in Turns /\ down[i].c <= down[i].c
      BY <3>2, <3>t DEF Turns
    <3>4. ~Written(down[i].c)
      BY <3>2, <3>3 DEF Written
    <3>5. \A c \in Turns : c = down[i].c => Open(c)'
      BY <1>6, <3>2, <3>3, <3>4
    <3> QED BY <1>1, <3>1, <3>2, <3>3, <3>5 DEF Open
  <2>2. \A i, j \in 1..Len(down') :
            i < j /\ down'[i].k = "send" /\ down'[j].k = "send" => down'[i].c < down'[j].c
    BY <1>8 DEF IInv, SendsInv
  <2> QED BY <1>1, <2>1, <2>2 DEF SendsInv, Open
<1>10. StartsInv'
  <2>1. ASSUME NEW i \in 1..Len(down'), down'[i].k = "start"
        PROVE  dead' /\ stage' \in {"idle", "start"} /\ down'[i].c \in 1..starts
    BY <1>8, <2>1 DEF IInv, StartsInv
  <2>2. \A i, j \in 1..Len(down') :
            i < j /\ down'[i].k = "start" => down'[j].k # "send"
    BY <1>8 DEF IInv, StartsInv
  <2>3. \A i, j \in 1..Len(down') :
            i < j /\ down'[i].k = "start" /\ down'[j].k = "start" => down'[i].c < down'[j].c
    BY <1>8 DEF IInv, StartsInv
  <2> QED BY <2>1, <2>2, <2>3 DEF StartsInv
<1>11. StopInv'
  <2> SUFFICES ASSUME Early', ~killed'
               PROVE  /\ handler[cur] = "read" => ~stop
                      /\ \A i \in 1..Len(down') : down'[i].k = "stop" =>
                             \E j \in 1..Len(down') : i < j /\ down'[j].k = "send" /\ down'[j].c = cur
    BY <1>1 DEF StopInv
  <2>1. Early /\ ~killed
    OBVIOUS
  <2>2. handler[cur] = "read" => ~stop
    BY <2>1 DEF IInv, StopInv
  <2>3. ASSUME NEW i \in 1..Len(down'), down'[i].k = "stop"
        PROVE  \E j \in 1..Len(down') : i < j /\ down'[j].k = "send" /\ down'[j].c = cur
    <3>1. i \in 1..Len(down) /\ down'[i] = down[i] /\ down' # <<>>
      BY <2>3
    <3>2. PICK j \in 1..Len(down) : i < j /\ down[j].k = "send" /\ down[j].c = cur
      BY <2>1, <2>3, <3>1 DEF IInv, StopInv
    <3>3. j \in 1..Len(down') /\ down'[j] = down[j]
      BY <3>1
    <3> QED BY <3>2, <3>3
  <2> QED BY <2>2, <2>3
<1>12. StartedInv'
  <2>1. Fresh => Fresh'
    BY <1>2, <1>8 DEF Fresh
  <2>2. \A m \in Range(up') : m \in Range(up)
    OBVIOUS
  <2> QED BY <1>1, <2>1, <2>2 DEF IInv, StartedInv
<1> QED
  BY <1>4, <1>5, <1>7, <1>9, <1>10, <1>11, <1>12

\* A turn that runs is a turn.
LEMMA TurnRuns ==
    ASSUME IInv, stage \in {"sent", "stream", "drain"}
    PROVE  cur \in Turns /\ cur \in 1..cur
<1>1. cur # 0
  BY DEF IInv, StageInv
<1>2. cur \in 0..MaxTurns
  BY DEF IInv, TypeOK
<1> QED BY <1>1, <1>2, TurnBoundsAssumption DEF Turns

\* A frame without a prompt is a frame.
LEMMA FrameType ==
    ASSUME NEW c \in 0..MaxTurns,
           NEW kind \in {"result", "error", "end", "marker", "none", "ok", "refused",
                         "started", "aborted", "start", "send", "stop", "interrupt", "abort"}
    PROVE  Frame(kind, c) \in Frames /\ Frame(kind, c).k = kind /\ Frame(kind, c).c = c
  BY TurnBoundsAssumption DEF Frame, Frames

\* Adding quiet frames is what ProxyStep allows.
LEMMA QuietDown ==
    ASSUME TypeOK, NEW f \in Seq(Frames),
           \A i \in 1..Len(f) : f[i].k \in Quiet,
           down' = down \/ down' = Sent(f)
    PROVE  /\ down' \in Seq(Frames)
           /\ \A i \in 1..Len(down') :
                  (i \in 1..Len(down) /\ down'[i] = down[i]) \/ down'[i].k \in Quiet
           /\ \A i \in 1..Len(down) : i \in 1..Len(down') /\ down'[i] = down[i]
           /\ (\A i \in 1..Len(f) : f[i].k # "stop") =>
                  \A i \in 1..Len(down') :
                      down'[i].k = "stop" => i \in 1..Len(down) /\ down'[i] = down[i]
<1>1. down \in Seq(Frames)
  BY DEF TypeOK
<1>2. CASE down' = down
  BY <1>1, <1>2, RangeFacts
<1>3. CASE down' = Sent(f)
  BY <1>1, <1>3, SentFacts
<1> QED BY <1>2, <1>3

-----------------------------------------------------------------------------
(* The proxy's steps *)

\* The start is not answered in time: the session stays dead.
LEMMA StartFailsIInv == ASSUME IInv, StartFails PROVE IInv'
<1> USE DEF StartFails, linkVars, countVars, pastVars
<1>1. TypeOK'
  BY DEF IInv, TypeOK, satVars, cliVars
<1>2. StageInv' /\ SentinelInv' /\ NoFalseLoss' /\ ResultIsOwnUnlessMixed'
  BY DEF IInv, StageInv, SentinelInv, Early, NoFalseLoss, ResultIsOwnUnlessMixed
<1>3. Coming' = Coming /\ ~Early /\ ~Early' /\ Open(cur)'
  BY DEF Coming, Early, Open, IInv, StageInv
<1>4. loose \subseteq 1..cur
  BY DEF IInv, WorkInv
<1> QED
  BY <1>1, <1>2, <1>3, <1>4, ProxyStep DEF IInv, Coming

\* The ack of a send does not come: the turn may be running.
LEMMA SendTimesOutIInv == ASSUME IInv, SendTimesOut PROVE IInv'
<1> USE DEF SendTimesOut, Ends, linkVars, countVars
<1>0. cur \in 1..cur /\ cur \in Turns
  BY TurnBoundsAssumption DEF IInv, TypeOK, StageInv, Turns
<1>1. TypeOK'
  BY <1>0 DEF IInv, TypeOK, satVars, cliVars
<1>2. StageInv' /\ SentinelInv' /\ ResultIsOwnUnlessMixed'
  BY DEF IInv, StageInv, SentinelInv, Early, ResultIsOwnUnlessMixed
<1>3. NoFalseLoss'
  BY <1>0 DEF IInv, TypeOK, NoFalseLoss
<1>4. ~Early' /\ Open(cur)'
  BY DEF Early, Open
<1>5. loose \subseteq 1..cur
  BY DEF IInv, WorkInv
<1> QED
  BY <1>0, <1>1, <1>2, <1>3, <1>4, <1>5, ProxyStep DEF IInv, Coming

\* What the queue's head tells about the turn that reads it.
LEMMA QueueHead ==
    ASSUME IInv, q # <<>>
    PROVE  /\ Head(q) \in Coming /\ Head(q) \in Frames
           /\ Tail(q) \in Seq(Frames) /\ Range(Tail(q)) \subseteq Coming
<1>1. q \in Seq(Frames)
  BY DEF IInv, TypeOK
<1> QED BY <1>1, TailFacts DEF Coming

\* The turn stream's steps.
LEMMA StreamReadsIInv == ASSUME IInv, StreamReads PROVE IInv'
<1> DEFINE m == Head(q)
<1>0. /\ stage = "stream" /\ q # <<>> /\ q' = Tail(q)
      /\ UNCHANGED <<cur, armed, killed, rec, watch, place, linked, up,
                     satVars, cliVars, countVars, cut, mixed, pressed>>
  BY DEF StreamReads
<1>1. /\ cur \in 1..cur /\ cur \in Turns /\ cur \in Nat
  BY <1>0, TurnBoundsAssumption DEF IInv, TypeOK, StageInv, Turns
<1>2. /\ m \in Coming /\ m \in Frames
      /\ Tail(q) \in Seq(Frames) /\ Range(Tail(q)) \subseteq Coming
  BY <1>0, QueueHead
<1>3. loose \subseteq 1..cur
  BY DEF IInv, WorkInv
<1>4. /\ m.k # "none"
      /\ m.k # "marker" =>
            \A i \in 1..Len(Tail(q)) : Tail(q)[i].k = "none" =>
                i > 1 /\ Tail(q)[i - 1].k = "marker"
  <2>1. q \in Seq(Frames)
    BY DEF IInv, TypeOK
  <2>2. \A i \in 1..Len(q) : q[i].k = "none" => i > 1 /\ q[i - 1].k = "marker"
    BY <1>0 DEF IInv, SentinelInv, Early
  <2>3. /\ 1 \in 1..Len(q) /\ m = q[1] /\ Len(q) \in Nat /\ Len(Tail(q)) = Len(q) - 1
        /\ \A i \in 1..Len(Tail(q)) : i + 1 \in 1..Len(q) /\ Tail(q)[i] = q[i + 1]
    BY <1>0, <2>1, TailFacts
  <2> DEFINE t == Tail(q)
  <2>4. /\ Len(t) = Len(q) - 1
        /\ \A i \in 1..Len(t) : i + 1 \in 1..Len(q) /\ t[i] = q[i + 1]
    BY <2>3
  <2> HIDE DEF t, m
  <2>5. m.k # "none"
    BY <2>2, <2>3
  <2>6. ASSUME m.k # "marker", NEW i \in 1..Len(t), t[i].k = "none"
        PROVE  i > 1 /\ t[i - 1].k = "marker"
    <3>1. q[i].k = "marker" /\ i \in Nat
      BY <2>2, <2>4, <2>6
    <3>2. i # 1
      BY <2>3, <2>6, <3>1
    <3>3. i - 1 \in 1..Len(t) /\ (i - 1) + 1 = i
      BY <2>3, <2>4, <3>2
    <3>4. t[i - 1] = q[i]
      BY <2>4, <3>3
    <3> QED BY <3>1, <3>2, <3>4
  <2> QED BY <2>5, <2>6 DEF t
<1> HIDE DEF m
\* The frame is of another turn.
<1>5. CASE Stale(m) /\ UNCHANGED <<stage, outcome, dead, down, answer, loose>>
  <2>1. TypeOK'
    BY <1>0, <1>2, <1>5 DEF IInv, TypeOK, satVars, cliVars, countVars
  <2>2. StageInv' /\ NoFalseLoss' /\ ResultIsOwnUnlessMixed'
    BY <1>0, <1>5 DEF IInv, StageInv, NoFalseLoss, ResultIsOwnUnlessMixed
  <2>3. SentinelInv'
    BY <1>0, <1>4, <1>5 DEF IInv, SentinelInv, Early, Stale
  <2>4. Early' = Early /\ Open(cur)' = Open(cur)
    BY <1>0, <1>5 DEF Early, Open
  <2> QED
    BY <1>0, <1>2, <1>3, <1>5, <2>1, <2>2, <2>3, <2>4, ProxyStep
    DEF IInv, Coming, countVars
\* The turn's result.
<1>6. CASE /\ ~Stale(m)
           /\ m.k = "result"
           /\ stage' = "drain"
           /\ down' = Sent(<<Frame("stop", 0)>>)
           /\ answer' = [answer EXCEPT ![cur] = m.p]
           /\ UNCHANGED <<outcome, dead, loose>>
  <2> DEFINE f == <<Frame("stop", 0)>>
  <2>f. f \in Seq(Frames) /\ \A i \in 1..Len(f) : f[i].k \in Quiet
    BY FrameType, TurnBoundsAssumption DEF Quiet
  <2> HIDE DEF f
  <2>d. /\ down' \in Seq(Frames)
        /\ \A i \in 1..Len(down') :
               (i \in 1..Len(down) /\ down'[i] = down[i]) \/ down'[i].k \in Quiet
    BY <1>6, <2>f, QuietDown DEF IInv, f
  <2>r. /\ m.c = cur /\ m.p \in Turns /\ Written(cur) /\ m.p \notin Content
        /\ cur \notin mixed => m.p = cur
    BY <1>2, <1>6 DEF IInv, ResultsInv, Stale
  <2>1. TypeOK'
    <3>1. answer' \in [Turns -> 0..MaxTurns]
      BY <1>1, <1>6, <2>r DEF IInv, TypeOK, Turns
    <3> QED BY <1>0, <1>2, <1>6, <2>d, <3>1 DEF IInv, TypeOK, satVars, cliVars, countVars
  <2>2. StageInv' /\ NoFalseLoss' /\ SentinelInv'
    BY <1>0, <1>6 DEF IInv, StageInv, NoFalseLoss, SentinelInv, Early
  <2>3. ResultIsOwnUnlessMixed'
    BY <1>0, <1>1, <1>6, <2>r DEF IInv, TypeOK, ResultIsOwnUnlessMixed
  <2>4. proc # "dead" /\ cur \in Content /\ ~Open(cur)' => \E l \in loose : l < cur
    <3> SUFFICES ASSUME proc # "dead", cur \in Content, ~Open(cur)'
                 PROVE  \E l \in loose : l < cur
      OBVIOUS
    <3>1. cur \in Content \cap mixed
      BY <2>r
    <3>2. cur \notin loose
      BY <1>0, <1>6 DEF Open
    <3> QED BY <3>1, <3>2 DEF IInv, WorkInv
  <2>5. ~Early'
    BY <1>6 DEF Early
  <2> QED
    BY <1>0, <1>2, <1>3, <1>6, <2>d, <2>r, <2>1, <2>2, <2>3, <2>4, <2>5, ProxyStep
    DEF IInv, Coming, countVars
\* Its end without one.
<1>7. CASE /\ ~Stale(m)
           /\ m.k \in {"end", "none"}
           /\ Ends(IF killed THEN "stopped" ELSE "lost")
           /\ dead' = (dead \/ ~killed)
           /\ UNCHANGED <<down, answer, loose>>
  <2>1. TypeOK'
    BY <1>0, <1>1, <1>2, <1>7 DEF IInv, TypeOK, Ends, satVars, cliVars, countVars
  <2>2. dead' /\ ~Early' /\ stage' = "idle"
    BY <1>0, <1>7 DEF IInv, TypeOK, StageInv, Early, Ends
  <2>3. StageInv' /\ SentinelInv' /\ ResultIsOwnUnlessMixed'
    BY <1>0, <1>7, <2>2 DEF IInv, StageInv, SentinelInv, ResultIsOwnUnlessMixed
  <2>4. NoFalseLoss'
    <3>1. m.k = "end" /\ m.c = cur
      BY <1>4, <1>7 DEF Stale
    <3>2. ~killed => cur \in cut
      BY <1>0, <1>2, <3>1 DEF IInv, EndsInv, Early
    <3> QED BY <1>0, <1>1, <1>7, <3>2 DEF IInv, TypeOK, NoFalseLoss, Ends
  <2>5. Open(cur)'
    BY <1>0, <2>2 DEF Open
  <2> QED
    BY <1>0, <1>2, <1>3, <1>7, <2>1, <2>2, <2>3, <2>4, <2>5, ProxyStep
    DEF IInv, Coming, countVars
\* An error, or the grace of its machine ran out.
<1>8. CASE /\ ~Stale(m)
           /\ m.k \in {"error", "marker"}
           /\ Ends(IF m.k = "error" THEN "error" ELSE "expired")
           /\ loose' = IF m.k = "error" THEN loose ELSE loose \cup {cur}
           /\ UNCHANGED <<dead, down, answer>>
  <2>1. TypeOK'
    BY <1>0, <1>1, <1>2, <1>8 DEF IInv, TypeOK, Ends, satVars, cliVars, countVars
  <2>2. ~Early' /\ stage' = "idle"
    BY <1>8 DEF Early, Ends
  <2>3. StageInv' /\ SentinelInv' /\ ResultIsOwnUnlessMixed'
    BY <1>0, <1>8, <2>2 DEF IInv, StageInv, SentinelInv, ResultIsOwnUnlessMixed
  <2>4. NoFalseLoss'
    BY <1>0, <1>1, <1>8 DEF IInv, TypeOK, NoFalseLoss, Ends
  <2>5. ~Open(cur)' => Written(cur) /\ cur \notin Content
    BY <1>0, <1>2, <1>8 DEF Open, IInv, ErrorsInv, Stale, Written
  <2>6. loose \subseteq loose' /\ loose' \subseteq 1..cur
    BY <1>1, <1>3, <1>8
  <2> QED
    BY <1>0, <1>2, <1>8, <2>1, <2>2, <2>3, <2>4, <2>5, <2>6, ProxyStep
    DEF IInv, Coming, countVars
<1> QED
  BY <1>5, <1>6, <1>7, <1>8 DEF StreamReads, m

\* One quiet frame.
LEMMA OneFrame ==
    ASSUME NEW kind \in Quiet
    PROVE  /\ <<Frame(kind, 0)>> \in Seq(Frames)
           /\ \A i \in 1..Len(<<Frame(kind, 0)>>) :
                  <<Frame(kind, 0)>>[i].k = kind
<1>1. Frame(kind, 0) \in Frames /\ Frame(kind, 0).k = kind
  BY FrameType, TurnBoundsAssumption DEF Quiet
<1> QED BY <1>1

\* A hard abort adds quiet frames, and leaves the session dead.
LEMMA AbortFacts ==
    ASSUME IInv, NEW f \in Seq(Frames), \A i \in 1..Len(f) : f[i].k \in Quiet, HardAbort(f)
    PROVE  /\ down' \in Seq(Frames)
           /\ \A i \in 1..Len(down') :
                  (i \in 1..Len(down) /\ down'[i] = down[i]) \/ down'[i].k \in Quiet
           /\ \A i \in 1..Len(down) : i \in 1..Len(down') /\ down'[i] = down[i]
           /\ (\A i \in 1..Len(f) : f[i].k # "stop") =>
                  \A i \in 1..Len(down') :
                      down'[i].k = "stop" => i \in 1..Len(down) /\ down'[i] = down[i]
           /\ killed' \in BOOLEAN /\ armed' \in BOOLEAN /\ dead' = TRUE
           /\ place' \in {"attached", "held", "lost"}
           /\ killed => killed'
<1> DEFINE a == Frame("abort", 0)
           g == IF rec THEN Append(f, a) ELSE f
<1>1. a \in Frames /\ a.k = "abort"
  BY FrameType, TurnBoundsAssumption
<1> HIDE DEF a
<1>2. /\ g \in Seq(Frames)
      /\ \A i \in 1..Len(g) : g[i].k \in Quiet /\ ((\E j \in 1..Len(f) : g[i] = f[j]) \/ g[i].k = "abort")
  <2>1. CASE rec
    <3> DEFINE h == Append(f, a)
    <3>1. /\ h \in Seq(Frames) /\ Len(h) = Len(f) + 1 /\ h[Len(f) + 1] = a
          /\ \A i \in 1..Len(f) : h[i] = f[i]
          /\ \A i \in 1..(Len(f) + 1) : i \in 1..Len(f) \/ i = Len(f) + 1
      BY <1>1, AppendFacts
    <3>2. g = h
      BY <2>1
    <3> HIDE DEF h, g
    <3> QED BY <1>1, <3>1, <3>2 DEF Quiet
  <2>2. CASE ~rec
    BY <2>2
  <2> QED BY <2>1, <2>2
<1>3. down' = Sent(g)
  BY DEF HardAbort, a
<1> HIDE DEF g
<1>4. /\ down' \in Seq(Frames)
      /\ \A i \in 1..Len(down') :
             (i \in 1..Len(down) /\ down'[i] = down[i]) \/ down'[i].k \in Quiet
      /\ \A i \in 1..Len(down) : i \in 1..Len(down') /\ down'[i] = down[i]
      /\ (\A i \in 1..Len(g) : g[i].k # "stop") =>
             \A i \in 1..Len(down') :
                 down'[i].k = "stop" => i \in 1..Len(down) /\ down'[i] = down[i]
  <2>1. TypeOK
    BY DEF IInv
  <2> QED BY <1>2, <1>3, <2>1, QuietDown
<1>5. (\A i \in 1..Len(f) : f[i].k # "stop") => \A i \in 1..Len(g) : g[i].k # "stop"
  BY <1>2
<1>6. /\ killed' \in BOOLEAN /\ armed' \in BOOLEAN /\ dead' = TRUE
      /\ place' \in {"attached", "held", "lost"}
      /\ killed => killed'
  BY DEF HardAbort, IInv, TypeOK, StageInv
<1> QED BY <1>4, <1>5, <1>6

\* Nothing came for too long: the process is killed.
LEMMA StreamSilentIInv == ASSUME IInv, StreamSilent PROVE IInv'
<1> USE DEF StreamSilent, Ends, countVars, pastVars
<1> DEFINE f == <<Frame("stop", 0)>>
<1>f. f \in Seq(Frames) /\ \A i \in 1..Len(f) : f[i].k \in Quiet
  BY OneFrame DEF Quiet
<1> HIDE DEF f
<1>a. HardAbort(f)
  BY DEF f
<1>d. /\ down' \in Seq(Frames)
      /\ \A i \in 1..Len(down') :
             (i \in 1..Len(down) /\ down'[i] = down[i]) \/ down'[i].k \in Quiet
      /\ killed' \in BOOLEAN /\ armed' \in BOOLEAN /\ dead' = TRUE
      /\ place' \in {"attached", "held", "lost"}
  BY <1>a, <1>f, AbortFacts
<1>0. cur \in Turns
  BY TurnBoundsAssumption DEF IInv, TypeOK, StageInv, Turns
<1>1. TypeOK'
  BY <1>0, <1>d DEF IInv, TypeOK, satVars, cliVars
<1>2. StageInv' /\ SentinelInv' /\ ResultIsOwnUnlessMixed'
  BY <1>d DEF IInv, StageInv, SentinelInv, Early, ResultIsOwnUnlessMixed
<1>3. NoFalseLoss'
  BY <1>0 DEF IInv, TypeOK, NoFalseLoss
<1>4. ~Early' /\ Open(cur)'
  BY <1>d DEF Early, Open
<1>5. loose \subseteq 1..cur
  BY DEF IInv, WorkInv
<1> QED
  BY <1>d, <1>1, <1>2, <1>3, <1>4, <1>5, ProxyStep DEF IInv, Coming

\* The drain after a result.
LEMMA DrainIInv == ASSUME IInv, DrainReads \/ DrainTimesOut PROVE IInv'
<1>0. /\ stage = "drain" /\ stage' \in {"drain", "idle"}
      /\ (q' = q) \/ (q # <<>> /\ q' = Tail(q))
      /\ outcome' \in {outcome, [outcome EXCEPT ![cur] = "done"]}
      /\ UNCHANGED <<cur, armed, killed, dead, rec, watch, place, answer,
                     linkVars, satVars, cliVars, countVars, pastVars>>
  <2>1. CASE DrainReads
    BY <2>1 DEF DrainReads, Ends
  <2>2. CASE DrainTimesOut
    BY <2>2 DEF DrainTimesOut, Ends
  <2> QED BY <2>1, <2>2
<1> USE DEF linkVars, countVars, pastVars
<1>1. cur \in Turns
  BY <1>0, TurnBoundsAssumption DEF IInv, TypeOK, StageInv, Turns
<1>2. q' \in Seq(Frames) /\ Range(q') \subseteq Coming
  BY <1>0, QueueHead DEF IInv, TypeOK, Coming
<1>3. TypeOK'
  <2>1. outcome' \in [Turns -> {"none", "done", "lost", "expired", "silent",
                                "error", "stopped", "unsent", "refused"}]
    BY <1>0, <1>1 DEF IInv, TypeOK
  <2> QED BY <1>0, <1>2, <2>1 DEF IInv, TypeOK, satVars, cliVars
<1>4. StageInv' /\ SentinelInv' /\ ResultIsOwnUnlessMixed'
  BY <1>0 DEF IInv, StageInv, SentinelInv, Early, ResultIsOwnUnlessMixed
<1>5. NoFalseLoss'
  BY <1>0, <1>1 DEF IInv, TypeOK, NoFalseLoss
<1>6. ~Early /\ ~Early' /\ Open(cur)' = Open(cur)
  BY <1>0 DEF Early, Open
<1>7. loose \subseteq 1..cur
  BY DEF IInv, WorkInv
<1> QED
  BY <1>0, <1>2, <1>3, <1>4, <1>5, <1>6, <1>7, ProxyStep DEF IInv, Coming

\* Stop during a live turn, on a connected machine.
LEMMA StopSoftIInv == ASSUME IInv, StopSoft PROVE IInv'
<1> USE DEF StopSoft, pastVars
<1> DEFINE f == <<Frame("interrupt", 0)>>
<1>f. f \in Seq(Frames) /\ \A i \in 1..Len(f) : f[i].k = "interrupt"
  BY OneFrame DEF Quiet
<1> HIDE DEF f
<1>d. /\ down' \in Seq(Frames)
      /\ \A i \in 1..Len(down') :
             (i \in 1..Len(down) /\ down'[i] = down[i]) \/ down'[i].k \in Quiet
      /\ \A i \in 1..Len(down) : i \in 1..Len(down') /\ down'[i] = down[i]
      /\ \A i \in 1..Len(down') :
             down'[i].k = "stop" => i \in 1..Len(down) /\ down'[i] = down[i]
  BY <1>f, QuietDown DEF IInv, f, Quiet
<1>0. cur \in Turns
  BY TurnBoundsAssumption DEF IInv, TypeOK, StageInv, Turns, Live
<1>1. TypeOK'
  <2>1. watch' \in SUBSET Turns /\ pressed' \in SUBSET Turns /\ stops' \in 0..MaxStops
    BY <1>0, TurnBoundsAssumption DEF IInv, TypeOK
  <2> QED BY <1>d, <2>1 DEF IInv, TypeOK, satVars, cliVars
<1>2. StageInv' /\ SentinelInv' /\ ResultIsOwnUnlessMixed' /\ NoFalseLoss'
  BY DEF IInv, StageInv, SentinelInv, Early, ResultIsOwnUnlessMixed, NoFalseLoss
<1>3. Early' = Early /\ Open(cur)' = Open(cur)
  BY DEF Early, Open
<1>4. loose \subseteq 1..cur
  BY DEF IInv, WorkInv
<1> QED
  BY <1>d, <1>1, <1>2, <1>3, <1>4, ProxyStep DEF IInv, Coming

\* Stop otherwise: the session is killed and the producer cancelled.
LEMMA StopHardIInv == ASSUME IInv, StopHard PROVE IInv'
<1> USE DEF StopHard, pastVars
<1> DEFINE f == <<>>
<1>f. f \in Seq(Frames) /\ \A i \in 1..Len(f) : f[i].k \in Quiet
  OBVIOUS
<1>a. HardAbort(f)
  OBVIOUS
<1> HIDE DEF f
<1>d. /\ down' \in Seq(Frames)
      /\ \A i \in 1..Len(down') :
             (i \in 1..Len(down) /\ down'[i] = down[i]) \/ down'[i].k \in Quiet
      /\ killed' \in BOOLEAN /\ armed' \in BOOLEAN /\ dead' = TRUE
      /\ place' \in {"attached", "held", "lost"}
  BY <1>a, <1>f, AbortFacts
<1>o. /\ outcome' \in [Turns -> {"none", "done", "lost", "expired", "silent",
                                 "error", "stopped", "unsent", "refused"}]
      /\ \A c \in Turns : outcome'[c] \in {outcome[c], "stopped"}
  <2>1. CASE stage \in {"start", "wait"}
    BY <2>1 DEF IInv, TypeOK
  <2>2. CASE stage \notin {"start", "wait"}
    <3>1. outcome' = [outcome EXCEPT ![cur] = "stopped"]
      BY <2>2
    <3> QED BY <3>1 DEF IInv, TypeOK
  <2> QED BY <2>1, <2>2
<1>p. pressed' \in SUBSET Turns
  <2>1. CASE stage \in {"start", "wait"}
    BY <2>1 DEF IInv, TypeOK
  <2>2. CASE stage \notin {"start", "wait"}
    <3>1. stage \in {"sent", "stream", "drain"} /\ pressed' = pressed \cup {cur}
      BY <2>2 DEF IInv, TypeOK
    <3> QED BY <3>1, TurnRuns DEF IInv, TypeOK
  <2> QED BY <2>1, <2>2
<1>1. TypeOK'
  BY <1>o, <1>d, <1>p, TurnBoundsAssumption DEF IInv, TypeOK, satVars, cliVars
<1>2. StageInv' /\ SentinelInv' /\ ResultIsOwnUnlessMixed'
  BY <1>d DEF IInv, StageInv, SentinelInv, Early, ResultIsOwnUnlessMixed
<1>3. NoFalseLoss'
  BY <1>o DEF IInv, NoFalseLoss
<1>4. ~Early' /\ Open(cur)'
  BY <1>d DEF Early, Open
<1>5. loose \subseteq 1..cur
  BY DEF IInv, WorkInv
<1> QED
  BY <1>d, <1>1, <1>2, <1>3, <1>4, <1>5, ProxyStep DEF IInv, Coming

\* The watchdog that finds its turn still running kills it.
LEMMA WatchdogEndsIInv == ASSUME IInv, NEW c \in Turns, WatchdogEnds(c) PROVE IInv'
<1> USE DEF WatchdogEnds, pastVars, countVars
<1>k. /\ down' \in Seq(Frames)
      /\ \A i \in 1..Len(down') :
             (i \in 1..Len(down) /\ down'[i] = down[i]) \/ down'[i].k \in Quiet
      /\ \A i \in 1..Len(down) : i \in 1..Len(down') /\ down'[i] = down[i]
      /\ \A i \in 1..Len(down') :
             down'[i].k = "stop" => i \in 1..Len(down) /\ down'[i] = down[i]
      /\ killed => killed'
      /\ dead => dead'
      /\ killed' => dead'
      /\ killed' # killed \/ dead' # dead => stage \in {"stream", "drain"}
      /\ killed' \in BOOLEAN /\ dead' \in BOOLEAN
      /\ armed' \in BOOLEAN /\ place' \in {"attached", "held", "lost"}
  <2>1. CASE Pinned(c)
    <3> DEFINE f == <<>>
    <3>f. /\ f \in Seq(Frames)
          /\ \A i \in 1..Len(f) : f[i].k \in Quiet
          /\ \A i \in 1..Len(f) : f[i].k # "stop"
      OBVIOUS
    <3>1. HardAbort(f) /\ stage \in {"stream", "drain"}
      BY <2>1 DEF Pinned, Live
    <3> HIDE DEF f
    <3> QED BY <3>f, <3>1, AbortFacts
  <2>2. CASE ~Pinned(c)
    <3>1. UNCHANGED <<killed, dead, armed, place, down>>
      BY <2>2
    <3> QED BY <3>1, RangeFacts DEF IInv, TypeOK, StageInv
  <2> QED BY <2>1, <2>2
<1>1. TypeOK'
  BY <1>k DEF IInv, TypeOK, satVars, cliVars
<1>2. StageInv' /\ SentinelInv' /\ ResultIsOwnUnlessMixed' /\ NoFalseLoss'
  BY <1>k DEF IInv, StageInv, SentinelInv, Early, ResultIsOwnUnlessMixed, NoFalseLoss
<1>3. Early' = Early /\ (Open(cur) => Open(cur)')
  BY <1>k DEF Early, Open
<1>4. loose \subseteq 1..cur
  BY DEF IInv, WorkInv
<1> QED
  BY <1>k, <1>1, <1>2, <1>3, <1>4, ProxyStep DEF IInv, Coming

-----------------------------------------------------------------------------
(* Frames that arrive, and the link *)

\* The frame that arrives, and those behind it.
LEMMA UpHead ==
    ASSUME IInv, up # <<>>
    PROVE  /\ Head(up) \in Range(up) /\ Head(up) \in Coming /\ Head(up) \in Frames
           /\ Tail(up) \in Seq(Frames) /\ Range(Tail(up)) \subseteq Range(up)
<1>1. up \in Seq(Frames)
  BY DEF IInv, TypeOK
<1> QED BY <1>1, TailFacts DEF Coming

\* A frame joins the session's queue, or is dropped.
LEMMA FrameQueuedIInv == ASSUME IInv, FrameQueued PROVE IInv'
<1> USE DEF FrameQueued, countVars, pastVars
<1> DEFINE m == Head(up)
<1>0. /\ m \in Coming /\ m \in Frames /\ m.k \in {"result", "error", "end"}
      /\ up' \in Seq(Frames) /\ Range(up') \subseteq Range(up)
      /\ up' = Tail(up)
  BY UpHead
<1>1. q \in Seq(Frames)
  BY DEF IInv, TypeOK
<1>2. CASE place = "attached"
  <2>1. q' = Append(q, m)
    BY <1>2
  <2> HIDE DEF m
  <2>2. /\ q' \in Seq(Frames) /\ Len(q) \in Nat /\ Len(q') = Len(q) + 1
        /\ \A i \in 1..Len(q) : i \in 1..(Len(q) + 1) /\ q'[i] = q[i]
        /\ \A i \in 1..(Len(q) + 1) : i \in 1..Len(q) \/ i = Len(q) + 1
        /\ q'[Len(q) + 1] = m
        /\ Range(q') = Range(q) \cup {m}
    BY <1>0, <1>1, <2>1, AppendFacts
  <2>3. TypeOK'
    BY <1>0, <2>2 DEF IInv, TypeOK, satVars, cliVars
  <2>4. StageInv' /\ ResultIsOwnUnlessMixed' /\ NoFalseLoss'
    BY DEF IInv, StageInv, ResultIsOwnUnlessMixed, NoFalseLoss
  <2>5. SentinelInv'
    <3> SUFFICES ASSUME Early, NEW i \in 1..Len(q'), q'[i].k = "none"
                 PROVE  i > 1 /\ q'[i - 1].k = "marker"
      BY <1>0 DEF IInv, SentinelInv, Early
    <3>1. i \in 1..Len(q)
      BY <1>0, <2>2
    <3>2. i > 1 /\ q[i - 1].k = "marker"
      BY <2>2, <3>1 DEF IInv, SentinelInv
    <3>3. i - 1 \in 1..Len(q)
      BY <2>2, <3>1, <3>2
    <3> QED BY <2>2, <3>2, <3>3
  <2>6. Early' = Early /\ Open(cur)' = Open(cur)
    BY DEF Early, Open
  <2>7. loose \subseteq 1..cur
    BY DEF IInv, WorkInv
  <2> QED
    BY <1>0, <2>2, <2>3, <2>4, <2>5, <2>6, <2>7, ProxyStep DEF IInv, Coming
<1>3. CASE place # "attached"
  <2>1. q' = q
    BY <1>3
  <2>3. TypeOK'
    BY <1>0, <2>1 DEF IInv, TypeOK, satVars, cliVars
  <2>4. StageInv' /\ ResultIsOwnUnlessMixed' /\ NoFalseLoss' /\ SentinelInv'
    BY <1>0, <2>1 DEF IInv, StageInv, ResultIsOwnUnlessMixed, NoFalseLoss, SentinelInv, Early
  <2>6. Early' = Early /\ Open(cur)' = Open(cur)
    BY DEF Early, Open
  <2>7. loose \subseteq 1..cur
    BY DEF IInv, WorkInv
  <2> QED
    BY <1>0, <2>1, <2>3, <2>4, <2>6, <2>7, ProxyStep DEF IInv, Coming
<1> QED BY <1>2, <1>3

\* The ack of a send, waited for or late.
LEMMA FrameAckIInv == ASSUME IInv, FrameAck PROVE IInv'
<1> USE DEF countVars, pastVars
<1>0. /\ up # <<>> /\ up' = Tail(up)
      /\ \/ UNCHANGED <<stage, outcome, dead>>
         \/ stage = "sent" /\ stage' = "stream" /\ UNCHANGED <<outcome, dead>>
         \/ stage = "sent" /\ Ends("refused") /\ dead' = TRUE
      /\ UNCHANGED <<cur, q, armed, killed, rec, watch, place, answer,
                     linked, down, satVars, cliVars, countVars, pastVars>>
  BY DEF FrameAck
<1>u. up' \in Seq(Frames) /\ Range(up') \subseteq Range(up)
  BY <1>0, UpHead
<1>c. stage = "sent" => cur \in Turns
  BY TurnRuns
<1>o. /\ outcome' \in [Turns -> {"none", "done", "lost", "expired", "silent",
                                 "error", "stopped", "unsent", "refused"}]
      /\ stage' \in {"idle", "start", "wait", "sent", "stream", "drain"}
      /\ dead' \in BOOLEAN
  <2>1. outcome' \in {outcome, [outcome EXCEPT ![cur] = "refused"]}
    BY <1>0 DEF Ends
  <2>2. stage' \in {stage, "stream", "idle"}
    BY <1>0 DEF Ends
  <2>3. dead' = dead \/ dead' = TRUE
    BY <1>0
  <2> QED BY <2>1, <2>2, <2>3 DEF IInv, TypeOK
<1>1. TypeOK'
  BY <1>0, <1>u, <1>o DEF IInv, TypeOK, satVars, cliVars
<1>2. StageInv' /\ ResultIsOwnUnlessMixed' /\ SentinelInv'
  BY <1>0, <1>u DEF IInv, StageInv, ResultIsOwnUnlessMixed, SentinelInv, Early, Ends
<1>3. NoFalseLoss'
  BY <1>0, <1>c DEF IInv, TypeOK, NoFalseLoss, Ends
<1>4. (Early' => Early) /\ (Open(cur) => Open(cur)') /\ (dead => dead')
      /\ (stage \in {"idle", "start"} => stage' = stage)
      /\ (stage' = "start" => stage = "start")
  BY <1>0 DEF Early, Open, Ends
<1>5. loose \subseteq 1..cur
  BY DEF IInv, WorkInv
<1> QED
  BY <1>0, <1>u, <1>1, <1>2, <1>3, <1>4, <1>5, ProxyStep DEF IInv, Coming

\* The ack of an abort empties the queue while one is awaited.
LEMMA FrameAbortedIInv == ASSUME IInv, FrameAborted PROVE IInv'
<1> USE DEF FrameAborted, countVars, pastVars
<1>u. up' \in Seq(Frames) /\ Range(up') \subseteq Range(up)
  BY UpHead
<1>q. q' \in Seq(Frames) /\ Range(q') \subseteq Range(q) /\ (q' = q \/ q' = <<>>)
  BY RangeFacts DEF IInv, TypeOK
<1>1. TypeOK'
  BY <1>u, <1>q DEF IInv, TypeOK, satVars, cliVars
<1>2. StageInv' /\ ResultIsOwnUnlessMixed' /\ NoFalseLoss'
  BY DEF IInv, StageInv, ResultIsOwnUnlessMixed, NoFalseLoss
<1>3. SentinelInv'
  BY <1>u, <1>q DEF IInv, SentinelInv, Early
<1>4. Early' = Early /\ Open(cur)' = Open(cur)
  BY DEF Early, Open
<1>5. loose \subseteq 1..cur
  BY DEF IInv, WorkInv
<1> QED
  BY <1>u, <1>q, <1>1, <1>2, <1>3, <1>4, <1>5, ProxyStep DEF IInv, Coming

\* The machine comes back; the reaper closes a session nobody came back for.
LEMMA ReconnectReapIInv == ASSUME IInv, Reconnect \/ Reap PROVE IInv'
<1> USE DEF linkVars, countVars, pastVars
<1>0. /\ stage' = stage
      /\ UNCHANGED <<dead, rec>> \/ (dead' = TRUE /\ rec' = FALSE)
      /\ linked' \in BOOLEAN /\ place' \in {"attached", "held", "lost"}
      /\ UNCHANGED <<cur, q, armed, killed, watch, outcome, answer, down, up,
                     satVars, cliVars, countVars, pastVars>>
  <2>1. CASE Reconnect
    BY <2>1 DEF Reconnect, IInv, TypeOK
  <2>2. CASE Reap
    BY <2>2 DEF Reap, IInv, TypeOK
  <2> QED BY <2>1, <2>2
<1>1. TypeOK'
  BY <1>0 DEF IInv, TypeOK, satVars, cliVars
<1>2. StageInv' /\ ResultIsOwnUnlessMixed' /\ NoFalseLoss' /\ SentinelInv'
  BY <1>0 DEF IInv, StageInv, ResultIsOwnUnlessMixed, NoFalseLoss, SentinelInv, Early
<1>4. Early' = Early /\ (Open(cur) => Open(cur)')
  BY <1>0 DEF Early, Open
<1>5. loose \subseteq 1..cur
  BY DEF IInv, WorkInv
<1> QED
  BY <1>0, <1>1, <1>2, <1>4, <1>5, ProxyStep DEF IInv, Coming

\* The grace window runs out: marker and sentinel.
LEMMA ExpireIInv == ASSUME IInv, Expire PROVE IInv'
<1> USE DEF Expire, linkVars, countVars, pastVars
<1> DEFINE f == <<Frame("marker", 0), Frame("none", 0)>>
<1>f. /\ f \in Seq(Frames) /\ Len(f) = 2 /\ f[1].k = "marker" /\ f[2].k = "none"
      /\ \A i \in 1..2 : i = 1 \/ i = 2
  <2>1. Frame("marker", 0) \in Frames /\ Frame("none", 0) \in Frames
    BY FrameType, TurnBoundsAssumption
  <2>2. Len(f) = 2 /\ f[1].k = "marker" /\ f[2].k = "none"
    BY FrameType, TurnBoundsAssumption
  <2> QED BY <2>1, <2>2
<1> HIDE DEF f
<1>0. q \in Seq(Frames) /\ q' = q \o f
  BY DEF IInv, TypeOK, f
<1>1. /\ q' \in Seq(Frames) /\ Len(q) \in Nat /\ Len(q') = Len(q) + 2
      /\ \A i \in 1..Len(q) : i \in 1..Len(q') /\ q'[i] = q[i]
      /\ \A i \in 1..Len(q') : i \in 1..Len(q) \/ (i - Len(q) \in 1..2 /\ q'[i] = f[i - Len(q)])
      /\ Range(q') \subseteq Range(q) \cup Range(f)
  <2> DEFINE r == q \o f
  <2>1. /\ r \in Seq(Frames) /\ Len(q) \in Nat /\ Len(r) = Len(q) + Len(f)
        /\ \A i \in 1..Len(q) : i \in 1..Len(r) /\ r[i] = q[i]
        /\ \A i \in 1..Len(r) :
               i \in 1..Len(q) \/ (i - Len(q) \in 1..Len(f) /\ r[i] = f[i - Len(q)])
        /\ Range(r) \subseteq Range(q) \cup Range(f)
    BY <1>0, <1>f, ConcatFacts
  <2>2. q' = r
    BY <1>0
  <2> HIDE DEF r
  <2> QED BY <2>1, <2>2, <1>f
<1>2. \A m \in Range(f) : m.k \in {"marker", "none"}
  BY <1>f, RangeFacts
<1>3. TypeOK'
  BY <1>1 DEF IInv, TypeOK, satVars, cliVars
<1>4. StageInv' /\ ResultIsOwnUnlessMixed' /\ NoFalseLoss'
  BY DEF IInv, StageInv, ResultIsOwnUnlessMixed, NoFalseLoss
<1>5. SentinelInv'
  <2> SUFFICES ASSUME Early, NEW i \in 1..Len(q'), q'[i].k = "none"
               PROVE  i > 1 /\ q'[i - 1].k = "marker"
    BY DEF IInv, SentinelInv, Early
  <2>1. CASE i \in 1..Len(q)
    <3>1. i > 1 /\ q[i - 1].k = "marker"
      BY <1>1, <2>1 DEF IInv, SentinelInv
    <3>2. i - 1 \in 1..Len(q)
      BY <1>1, <2>1, <3>1
    <3> QED BY <1>1, <3>1, <3>2
  <2>2. CASE i \notin 1..Len(q)
    <3>1. i - Len(q) = 2
      BY <1>1, <1>f, <2>2
    <3>2. i = Len(q) + 2 /\ i - 1 \in 1..Len(q') /\ i - 1 \notin 1..Len(q) /\ (i - 1) - Len(q) = 1
      BY <1>1, <3>1
    <3> QED BY <1>1, <1>f, <3>2
  <2> QED BY <2>1, <2>2
<1>6. Early' = Early /\ Open(cur)' = Open(cur)
  BY DEF Early, Open
<1>7. loose \subseteq 1..cur
  BY DEF IInv, WorkInv
<1> QED
  BY <1>1, <1>2, <1>3, <1>4, <1>5, <1>6, <1>7, ProxyStep DEF IInv, Coming

\* What the satellite still has to send, after the link has dropped.
LEMMA DropUp ==
    ASSUME IInv, Drop
    PROVE  up' \in Seq(Frames) /\ Range(up') \subseteq Range(up)
<1>1. PICK n \in 0..Len(up) :
          LET kept == SubSeq(up, n + 1, Len(up)) IN
          up' \in {kept} \cup (IF kept = <<>> THEN {}
                               ELSE {Append(Tail(kept), Head(kept))})
  BY DEF Drop
<1> DEFINE kept == SubSeq(up, n + 1, Len(up))
<1>2. up \in Seq(Frames) /\ Len(up) \in Nat
  BY DEF IInv, TypeOK
<1>3. /\ kept \in Seq(Frames) /\ Len(kept) = Len(up) - n
      /\ \A i \in 1..(Len(up) - n) : i + n \in 1..Len(up) /\ kept[i] = up[i + n]
  BY <1>2
<1>4. up' = kept \/ (kept # <<>> /\ up' = Append(Tail(kept), Head(kept)))
  BY <1>1
<1> HIDE DEF kept
<1>5. Range(kept) \subseteq Range(up)
  BY <1>2, <1>3, RangeFacts
<1>6. CASE up' = kept
  BY <1>3, <1>5, <1>6
<1>7. CASE kept # <<>> /\ up' = Append(Tail(kept), Head(kept))
  <2> DEFINE t == Tail(kept)
             h == Head(kept)
  <2>1. /\ t \in Seq(Frames) /\ h \in Frames /\ h \in Range(kept)
        /\ Range(t) \subseteq Range(kept)
    BY <1>3, <1>7, TailFacts
  <2>2. up' = Append(t, h)
    BY <1>7
  <2> HIDE DEF t, h
  <2>3. up' \in Seq(Frames) /\ Range(up') = Range(t) \cup {h}
    BY <2>1, <2>2, AppendFacts
  <2> QED BY <2>1, <2>3, <1>5
<1> QED BY <1>4, <1>6, <1>7

\* The link drops: what was queued for the satellite is gone, and part of what
\* came from it; a send that waits for its ack may have arrived.
LEMMA DropIInv == ASSUME IInv, Drop PROVE IInv'
<1> USE DEF pastVars
<1>0. /\ linked' = FALSE /\ down' = <<>> /\ drops' \in 0..MaxDrops
      /\ place' \in {"attached", "held", "lost"}
      /\ stage' = IF stage \in {"sent", "start"} THEN "idle" ELSE stage
      /\ outcome' = IF stage = "sent" THEN [outcome EXCEPT ![cur] = "unsent"] ELSE outcome
      /\ loose' = IF stage = "sent" THEN loose \cup {cur} ELSE loose
      /\ UNCHANGED <<cur, q, armed, killed, dead, rec, watch, answer,
                     satVars, cliVars, stops, crashes, starts, cut, mixed, pressed>>
  BY TurnBoundsAssumption DEF Drop, IInv, TypeOK
<1>u. up' \in Seq(Frames) /\ Range(up') \subseteq Range(up)
  BY DropUp
<1>c. stage = "sent" => cur \in Turns /\ cur \in 1..cur
  BY TurnRuns
<1>d. down' \in Seq(Frames) /\ \A i \in 1..Len(down') : FALSE
  BY <1>0
<1>1. TypeOK'
  BY <1>0, <1>u, <1>c, <1>d DEF IInv, TypeOK, satVars, cliVars
<1>2. StageInv' /\ ResultIsOwnUnlessMixed'
  BY <1>0 DEF IInv, StageInv, ResultIsOwnUnlessMixed
<1>3. SentinelInv'
  BY <1>0, <1>u DEF IInv, SentinelInv, Early
<1>4. NoFalseLoss'
  BY <1>0, <1>c DEF IInv, TypeOK, NoFalseLoss
<1>5. (Early' => Early) /\ (Open(cur) => Open(cur)')
      /\ (stage \in {"idle", "start"} => stage' = "idle")
      /\ stage' # "start"
  BY <1>0 DEF Early, Open
<1>6. loose \subseteq loose' /\ loose' \subseteq 1..cur
  BY <1>0, <1>c DEF IInv, WorkInv
<1> QED
  BY <1>0, <1>u, <1>d, <1>1, <1>2, <1>3, <1>4, <1>5, <1>6, ProxyStep DEF IInv, Coming

\* A message for a session whose process is there: only the stage changes.
LEMMA BeginIInv == ASSUME IInv, Begin PROVE IInv'
<1> USE DEF pastVars
<1>0. /\ stage = "idle" /\ cur < MaxTurns
      /\ UNCHANGED <<cur, armed, dead, watch, outcome, answer,
                     linked, up, satVars, cliVars, drops, stops, crashes, pastVars>>
  BY DEF Begin
<1>l. loose \subseteq 1..cur
  BY DEF IInv, WorkInv
<1>1. CASE ~dead
  <2>0. stage' = "wait" /\ UNCHANGED <<q, killed, rec, place, down, starts>>
    BY <1>1 DEF Begin
  <2>1. TypeOK'
    BY <1>0, <2>0 DEF IInv, TypeOK, satVars, cliVars
  <2>2. StageInv' /\ SentinelInv' /\ NoFalseLoss' /\ ResultIsOwnUnlessMixed'
    BY <1>0, <1>1, <2>0
    DEF IInv, StageInv, SentinelInv, Early, NoFalseLoss, ResultIsOwnUnlessMixed
  <2>3. ~Early' /\ (Open(cur) => Open(cur)')
    BY <1>0, <1>1, <2>0 DEF Early, Open
  <2> QED
    BY <1>0, <1>1, <1>l, <2>0, <2>1, <2>2, <2>3, ProxyStep DEF IInv, Coming
\* A dead session is started again: a fresh queue, and a start behind whatever
\* is on its way.
<1>2. CASE dead
  <2>0. /\ starts < MaxStarts /\ starts' = starts + 1 /\ stage' = "start"
        /\ q' = <<>> /\ killed' = FALSE /\ place' = "attached" /\ rec' = FALSE
        /\ down' = Sent(<<Frame("start", starts + 1)>>)
    BY <1>2 DEF Begin
  <2> DEFINE e == Frame("start", starts + 1)
  <2>s. starts \in Nat /\ starts + 1 \in 0..MaxTurns /\ starts' \in 0..MaxStarts
    BY <2>0, TurnBoundsAssumption DEF IInv, TypeOK
  <2>e. e \in Frames /\ e.k = "start" /\ e.c = starts + 1
    BY <2>s, FrameType
  <2> HIDE DEF e
  <2>f. <<e>> \in Seq(Frames) /\ Len(<<e>>) = 1 /\ <<e>>[1] = e /\ down \in Seq(Frames)
    BY <2>e DEF IInv, TypeOK
  <2>d. /\ down' \in Seq(Frames) /\ Len(down) \in Nat
        /\ \A i \in 1..Len(down) : i \in 1..Len(down') /\ down'[i] = down[i]
        /\ \A i \in 1..Len(down') : i \in 1..Len(down) \/ (i = Len(down) + 1 /\ down'[i] = e)
    <3> DEFINE f == <<e>>
    <3>1. f \in Seq(Frames) /\ Len(f) = 1 /\ f[1] = e /\ down' = Sent(f)
      BY <2>f, <2>0 DEF e
    <3> HIDE DEF f
    <3>2. /\ down' \in Seq(Frames) /\ Len(down) \in Nat
          /\ \A i \in 1..Len(down) : i \in 1..Len(down') /\ down'[i] = down[i]
          /\ \A i \in 1..Len(down') :
                 i \in 1..Len(down) \/ (i - Len(down) \in 1..Len(f) /\ down'[i] = f[i - Len(down)])
      BY <3>1, <2>f, SentFacts
    <3>3. \A i \in 1..Len(down') : i - Len(down) \in 1..Len(f) =>
              i = Len(down) + 1 /\ f[i - Len(down)] = e
      BY <3>1, <3>2
    <3> QED BY <3>2, <3>3
  <2>q. Coming' \subseteq Coming /\ Range(q') = {}
    BY <1>0, <2>0, RangeFacts DEF Coming, Range
  <2>u. UNCHANGED <<handler, reader, stop, proc, stdin, on, out, cut, loose, mixed, pressed>>
    BY <1>0 DEF satVars, cliVars
  <2>c. Content' = Content /\ (\A c \in Turns : Written(c)' = Written(c) /\ Serves(c)' = Serves(c))
    BY <2>u DEF Content, Written, Serves
  <2>o. ~Early /\ ~Early'
    BY <1>0, <2>0 DEF Early
  <2>1. TypeOK'
    <3>0. q' \in Seq(Frames) /\ down' \in Seq(Frames) /\ starts' \in 0..MaxStarts
      BY <2>0, <2>s, <2>d
    <3>1. /\ stage' \in {"idle", "start", "wait", "sent", "stream", "drain"}
          /\ killed' \in BOOLEAN /\ place' \in {"attached", "held", "lost"}
      BY <2>0
    <3>2. /\ UNCHANGED <<cur, armed, dead, watch, outcome, answer, linked, up,
                         drops, stops, crashes, cut, loose, mixed, pressed>>
          /\ UNCHANGED <<handler, reader, stop, proc, stdin, on, out>>
          /\ rec' = FALSE
      BY <1>0, <2>0, <2>u
    <3> QED BY <3>0, <3>1, <3>2 DEF IInv, TypeOK
  <2>2. StageInv' /\ SentinelInv' /\ NoFalseLoss' /\ ResultIsOwnUnlessMixed'
    BY <1>0, <1>2, <2>0
    DEF IInv, StageInv, SentinelInv, Early, NoFalseLoss, ResultIsOwnUnlessMixed
  <2>3. HandlerInv' /\ DeadInv' /\ PromptsInv' /\ ReaderInv'
    BY <1>0, <2>u, <2>c DEF IInv, HandlerInv, DeadInv, PromptsInv, ReaderInv
  <2>4. EndsInv' /\ ErrorsInv' /\ ResultsInv'
    BY <1>0, <2>u, <2>c, <2>q, <2>o DEF IInv, EndsInv, ErrorsInv, ResultsInv
  <2>5. StopInv'
    BY <2>o DEF StopInv
  <2>6. WorkInv'
    BY <1>0, <2>0, <2>u, <2>c, <2>o DEF IInv, WorkInv, Open
  <2>7. SendsInv'
    <3>1. \A i \in 1..Len(down') : down'[i].k = "send" => i \in 1..Len(down) /\ down'[i] = down[i]
      BY <2>d, <2>e
    <3> QED BY <1>0, <2>0, <2>u, <2>o, <3>1 DEF IInv, SendsInv, Open
  <2>8. StartsInv'
    <3>1. ASSUME NEW i \in 1..Len(down'), down'[i].k = "start"
          PROVE  dead' /\ stage' \in {"idle", "start"} /\ down'[i].c \in 1..starts'
      <4>1. CASE i \in 1..Len(down)
        <5>1. down[i].c \in 1..starts
          BY <2>d, <3>1, <4>1 DEF IInv, StartsInv
        <5> QED BY <1>0, <1>2, <2>0, <2>s, <2>d, <4>1, <5>1
      <4>2. CASE i = Len(down) + 1 /\ down'[i] = e
        BY <1>0, <1>2, <2>0, <2>s, <2>e, <4>2
      <4> QED BY <2>d, <4>1, <4>2
    <3>2. ASSUME NEW i \in 1..Len(down'), NEW j \in 1..Len(down'), i < j, down'[i].k = "start"
          PROVE  down'[j].k # "send" /\ (down'[j].k = "start" => down'[i].c < down'[j].c)
      <4>1. i \in 1..Len(down)
        BY <2>d, <3>2
      <4>2. CASE j \in 1..Len(down)
        BY <2>d, <3>2, <4>1, <4>2 DEF IInv, StartsInv
      <4>3. CASE j = Len(down) + 1 /\ down'[j] = e
        <5>1. down'[i].c \in 1..starts
          BY <2>d, <3>2, <4>1 DEF IInv, StartsInv
        <5> QED BY <2>s, <2>e, <4>3, <5>1
      <4> QED BY <2>d, <4>2, <4>3
    <3> QED BY <3>1, <3>2 DEF StartsInv
  <2>9. StartedInv'
    <3>1. \A m \in Range(up') : m.k = "started" => m.c <= starts /\ m \in Frames
      BY <1>0, RangeFacts DEF IInv, StartedInv, TypeOK
    <3>2. \A m \in Frames : m.c \in Int
      BY DEF Frames
    <3>3. \A x \in Int : x <= starts => x <= starts' /\ x # starts'
      BY <2>0, <2>s
    <3> QED BY <3>1, <3>2, <3>3 DEF StartedInv
  <2> QED
    BY <2>1, <2>2, <2>3, <2>4, <2>5, <2>6, <2>7, <2>8, <2>9 DEF IInv
<1> QED BY <1>1, <1>2

\* The session was started: nothing of its past can reach a turn.
LEMMA FrameStartedIInv == ASSUME IInv, FrameStarted PROVE IInv'
<1> USE DEF countVars, pastVars
<1> DEFINE m == Head(up)
<1>0. /\ up # <<>> /\ m.k = "started" /\ up' = Tail(up)
      /\ IF stage = "start" /\ m.c = starts
           THEN stage' = "wait" /\ dead' = FALSE /\ rec' = TRUE
           ELSE UNCHANGED <<stage, dead, rec>>
      /\ UNCHANGED <<cur, q, armed, killed, watch, outcome, place, answer,
                     linked, down, satVars, cliVars, countVars, pastVars>>
  BY DEF FrameStarted
<1>u. /\ up' \in Seq(Frames) /\ Range(up') \subseteq Range(up)
      /\ m \in Range(up)
  BY <1>0, UpHead
<1>l. loose \subseteq 1..cur
  BY DEF IInv, WorkInv
<1> HIDE DEF m
<1>1. CASE ~(stage = "start" /\ m.c = starts)
  <2>0. UNCHANGED <<stage, dead, rec>>
    BY <1>0, <1>1
  <2>1. TypeOK'
    BY <1>0, <1>u, <2>0 DEF IInv, TypeOK, satVars, cliVars
  <2>2. StageInv' /\ SentinelInv' /\ NoFalseLoss' /\ ResultIsOwnUnlessMixed'
    BY <1>0, <1>u, <2>0
    DEF IInv, StageInv, SentinelInv, Early, NoFalseLoss, ResultIsOwnUnlessMixed
  <2>3. Early' = Early /\ Open(cur)' = Open(cur)
    BY <1>0, <2>0 DEF Early, Open
  <2> QED
    BY <1>0, <1>u, <1>l, <2>0, <2>1, <2>2, <2>3, ProxyStep DEF IInv, Coming
<1>2. CASE stage = "start" /\ m.c = starts
  <2>0. stage' = "wait" /\ dead' = FALSE /\ rec' = TRUE
    BY <1>0, <1>2
  <2>f. Fresh
    BY <1>0, <1>2, <1>u DEF IInv, StartedInv
  <2>c. UNCHANGED <<handler, reader, stop, proc, stdin, on, out>>
    BY <1>0 DEF satVars, cliVars
  <2>d. Content' = Content /\ (\A c \in Turns : Written(c)' = Written(c) /\ Serves(c)' = Serves(c))
    BY <2>c DEF Content, Written, Serves
  <2>q. Coming' \subseteq Coming
    BY <1>0, <1>u DEF Coming
  <2>o. ~Early'
    BY <2>0 DEF Early
  <2>1. TypeOK'
    BY <1>0, <1>u, <2>0 DEF IInv, TypeOK, satVars, cliVars
  <2>2. StageInv' /\ SentinelInv' /\ NoFalseLoss' /\ ResultIsOwnUnlessMixed'
    BY <1>0, <1>2, <1>u, <2>0
    DEF IInv, StageInv, SentinelInv, Early, NoFalseLoss, ResultIsOwnUnlessMixed
  <2>3. HandlerInv' /\ DeadInv' /\ PromptsInv' /\ ReaderInv'
    BY <1>0, <2>c, <2>d DEF IInv, HandlerInv, DeadInv, PromptsInv, ReaderInv
  <2>4. EndsInv' /\ ErrorsInv' /\ ResultsInv'
    BY <1>0, <2>c, <2>d, <2>q, <2>o DEF IInv, EndsInv, ErrorsInv, ResultsInv
  <2>5. StopInv'
    BY <2>o DEF StopInv
  <2>6. SendsInv' /\ StartsInv'
    BY <1>0, <2>f DEF Fresh, SendsInv, StartsInv
  <2>7. WorkInv'
    BY <1>0, <1>l, <2>c, <2>d, <2>f DEF WorkInv, Fresh, Serves
  <2>8. StartedInv'
    BY <1>0, <1>u, <2>0 DEF IInv, StartedInv
  <2> QED
    BY <2>1, <2>2, <2>3, <2>4, <2>5, <2>6, <2>7, <2>8 DEF IInv
<1> QED BY <1>1, <1>2

\* A new turn: a fresh command id, sent to a session that counts as alive.
LEMMA SendTurnIInv == ASSUME IInv, SendTurn PROVE IInv'
<1> USE DEF countVars, pastVars
<1>0. /\ stage = "wait" /\ armed' = FALSE /\ q' = <<>> /\ killed' = FALSE
      /\ cur' = cur + 1
      /\ down' = Sent(<<Frame("send", cur + 1)>>)
      /\ stage' = IF linked THEN "sent" ELSE "idle"
      /\ outcome' = [outcome EXCEPT ![cur + 1] = IF linked THEN "none" ELSE "unsent"]
      /\ UNCHANGED <<dead, rec, watch, place, answer, linked, up,
                     satVars, cliVars, countVars, pastVars>>
  BY DEF SendTurn
<1>1. /\ cur \in Nat /\ cur < MaxTurns /\ cur' \in 0..MaxTurns /\ cur' \in Turns
      /\ cur' \in 1..cur' /\ 1..cur \subseteq 1..cur'
  BY <1>0, TurnBoundsAssumption DEF IInv, TypeOK, StageInv, Turns
<1> DEFINE e == Frame("send", cur + 1)
<1>e. e \in Frames /\ e.k = "send" /\ e.c = cur'
  BY <1>0, <1>1, FrameType
<1> HIDE DEF e
<1>d. /\ down' \in Seq(Frames) /\ Len(down) \in Nat
      /\ \A i \in 1..Len(down) : i \in 1..Len(down') /\ down'[i] = down[i]
      /\ \A i \in 1..Len(down') : i \in 1..Len(down) \/ (i = Len(down) + 1 /\ down'[i] = e)
      /\ linked => Len(down) + 1 \in 1..Len(down') /\ down'[Len(down) + 1] = e
  <2> DEFINE f == <<e>>
  <2>1. f \in Seq(Frames) /\ Len(f) = 1 /\ f[1] = e /\ down' = Sent(f) /\ down \in Seq(Frames)
    BY <1>e, <1>0 DEF e, IInv, TypeOK
  <2> HIDE DEF f
  <2>2. /\ down' \in Seq(Frames) /\ Len(down) \in Nat
        /\ \A i \in 1..Len(down) : i \in 1..Len(down') /\ down'[i] = down[i]
        /\ \A i \in 1..Len(down') :
               i \in 1..Len(down) \/ (i - Len(down) \in 1..Len(f) /\ down'[i] = f[i - Len(down)])
    BY <2>1, SentFacts
  <2>3. \A i \in 1..Len(down') : i - Len(down) \in 1..Len(f) =>
            i = Len(down) + 1 /\ f[i - Len(down)] = e
    BY <2>1, <2>2
  <2>4. ASSUME linked PROVE Len(down) + 1 \in 1..Len(down') /\ down'[Len(down) + 1] = e
    <3> DEFINE r == down \o f
    <3>0. r \in Seq(Frames) /\ Len(down) \in Nat /\ Len(r) = Len(down) + Len(f)
      BY <2>1, ConcatFacts
    <3>1. r \in Seq(Frames) /\ Len(r) = Len(down) + 1
      BY <2>1, <3>0
    <3>2. down' = r
      BY <2>1, <2>4 DEF Sent
    <3> HIDE DEF r
    <3>3. Len(down) + 1 \in 1..Len(down') /\ Len(down) + 1 \notin 1..Len(down)
      BY <2>2, <3>1, <3>2
    <3> QED BY <2>2, <2>3, <3>3
  <2> QED BY <2>2, <2>3, <2>4
<1>u. UNCHANGED <<handler, reader, stop, proc, stdin, on, out, cut, loose, mixed, pressed>>
  BY <1>0 DEF satVars, cliVars
<1>c. Content' = Content /\ (\A c \in Turns : Written(c)' = Written(c) /\ Serves(c)' = Serves(c))
  BY <1>u DEF Content, Written, Serves
<1>q. Coming' \subseteq Coming /\ Range(q') = {}
  BY <1>0, RangeFacts DEF Coming, Range
<1>h. \A d \in Turns : cur' <= d => handler[d] = "none"
  BY <1>0, <1>1 DEF IInv, HandlerInv, Turns
<1>o. \A c \in Turns : Open(c) => c \in loose
  BY <1>0, <1>1 DEF Open, Early
<1>2. TypeOK'
  <2>0. q' \in Seq(Frames) /\ down' \in Seq(Frames)
    BY <1>0, <1>d
  <2>1. outcome' \in [Turns -> {"none", "done", "lost", "expired", "silent",
                                "error", "stopped", "unsent", "refused"}]
    BY <1>0, <1>1 DEF IInv, TypeOK
  <2>2. /\ stage' \in {"idle", "start", "wait", "sent", "stream", "drain"}
        /\ killed' \in BOOLEAN /\ armed' \in BOOLEAN
    BY <1>0
  <2>3. UNCHANGED <<dead, rec, watch, place, answer, linked, up, drops, stops, crashes, starts>>
    BY <1>0
  <2> QED BY <1>1, <1>u, <2>0, <2>1, <2>2, <2>3 DEF IInv, TypeOK
<1>3. StageInv'
  BY <1>0, <1>1 DEF IInv, StageInv
<1>4. SentinelInv' /\ ResultIsOwnUnlessMixed'
  BY <1>0, <1>u DEF IInv, SentinelInv, ResultIsOwnUnlessMixed
<1>5. NoFalseLoss'
  BY <1>0, <1>1, <1>u DEF IInv, TypeOK, NoFalseLoss
<1>6. HandlerInv'
  BY <1>0, <1>1, <1>u, <1>c DEF IInv, HandlerInv, Turns
<1>7. DeadInv' /\ PromptsInv' /\ ReaderInv'
  BY <1>u, <1>c DEF IInv, DeadInv, PromptsInv, ReaderInv
<1>8. ErrorsInv' /\ ResultsInv'
  BY <1>u, <1>c, <1>q DEF IInv, ErrorsInv, ResultsInv
<1>9. EndsInv'
  <2>1. \A m \in Coming' : m.k = "end" => m \in Frames /\ m.c <= cur
    BY <1>q, RangeFacts DEF IInv, TypeOK, Coming, EndsInv
  <2>2. \A m \in Frames : m.c \in Int
    BY DEF Frames
  <2>3. \A x \in Int : x <= cur => x <= cur' /\ x # cur'
    BY <1>0, <1>1
  <2> QED BY <2>1, <2>2, <2>3 DEF EndsInv
<1>10. StartedInv'
  BY <1>0 DEF IInv, StartedInv
<1>11. WorkInv'
  <2>1. loose \subseteq 1..cur'
    BY <1>1 DEF IInv, WorkInv
  <2>2. \A p \in Content : p \in Turns
    BY DEF IInv, PromptsInv
  <2> QED BY <1>u, <1>c, <1>o, <2>1, <2>2 DEF IInv, WorkInv, Open
<1>12. StartsInv'
  <2>1. \A i \in 1..Len(down') : down'[i].k # "start"
    BY <1>0, <1>d, <1>e DEF IInv, StartsInv
  <2> QED BY <2>1 DEF StartsInv
<1>13. SendsInv'
  <2>0. \A i \in 1..Len(down') : down'[i].k = "send" /\ i \in 1..Len(down) =>
            /\ down'[i].c \in 1..cur /\ down'[i].c \in Turns
            /\ \A d \in Turns : down'[i].c <= d => handler[d] = "none"
            /\ Open(down[i].c)
    <3> SUFFICES ASSUME NEW i \in 1..Len(down), i \in 1..Len(down'), down'[i].k = "send"
                 PROVE  /\ down'[i].c \in 1..cur /\ down'[i].c \in Turns
                        /\ \A d \in Turns : down'[i].c <= d => handler[d] = "none"
                        /\ Open(down[i].c)
      OBVIOUS
    <3>1. down'[i] = down[i]
      BY <1>d
    <3>2. /\ down[i].c \in 1..cur
          /\ \A d \in Turns : down[i].c <= d => handler[d] = "none"
          /\ Open(down[i].c)
      BY <3>1 DEF IInv, SendsInv
    <3>3. down[i].c \in Turns
      BY <1>1, <3>2, TurnBoundsAssumption DEF Turns
    <3> QED BY <3>1, <3>2, <3>3
  <2>1. ASSUME NEW i \in 1..Len(down'), down'[i].k = "send"
        PROVE  /\ down'[i].c \in 1..cur'
               /\ \A d \in Turns : down'[i].c <= d => handler[d] = "none"
               /\ \/ down'[i].c \in loose'
                  \/ down'[i].c = cur' /\ (Early' \/ (dead' /\ stage' # "wait"))
    <3>1. CASE i \in 1..Len(down)
      BY <1>1, <1>d, <1>o, <1>u, <2>0, <2>1, <3>1 DEF Open
    <3>2. CASE i = Len(down) + 1 /\ down'[i] = e
      <4>1. linked
        BY <1>0, <1>d, <2>1, <3>2, RangeFacts DEF Sent
      <4>2. Early'
        BY <1>0, <4>1 DEF Early
      <4> QED BY <1>1, <1>e, <1>h, <3>2, <4>2 DEF Open
    <3> QED BY <1>d, <3>1, <3>2
  <2>2. ASSUME NEW i \in 1..Len(down'), NEW j \in 1..Len(down'), i < j,
               down'[i].k = "send", down'[j].k = "send"
        PROVE  down'[i].c < down'[j].c
    <3>1. i \in 1..Len(down)
      BY <1>d, <2>2
    <3>2. CASE j \in 1..Len(down)
      BY <1>d, <2>2, <3>1, <3>2 DEF IInv, SendsInv
    <3>3. CASE j = Len(down) + 1 /\ down'[j] = e
      BY <1>0, <1>1, <1>e, <2>0, <2>2, <3>1, <3>3
    <3> QED BY <1>d, <3>2, <3>3
  <2> QED BY <1>u, <2>1, <2>2 DEF SendsInv, Open
<1>14. StopInv'
  <2> SUFFICES ASSUME Early'
               PROVE  /\ handler[cur'] = "read" => ~stop
                      /\ \A i \in 1..Len(down') : down'[i].k = "stop" =>
                             \E j \in 1..Len(down') : i < j /\ down'[j].k = "send" /\ down'[j].c = cur'
    BY <1>u DEF StopInv
  <2>1. linked
    BY <1>0 DEF Early
  <2>2. handler[cur'] = "none"
    BY <1>1, <1>h
  <2>3. ASSUME NEW i \in 1..Len(down'), down'[i].k = "stop"
        PROVE  \E j \in 1..Len(down') : i < j /\ down'[j].k = "send" /\ down'[j].c = cur'
    <3>1. i \in 1..Len(down)
      BY <1>d, <1>e, <2>3
    <3>2. i < Len(down) + 1
      BY <1>d, <3>1
    <3> QED BY <1>d, <1>e, <2>1, <3>2
  <2> QED BY <2>2, <2>3
<1> QED
  BY <1>2, <1>3, <1>4, <1>5, <1>6, <1>7, <1>8, <1>9, <1>10, <1>11, <1>12, <1>13, <1>14 DEF IInv

-----------------------------------------------------------------------------
(* The satellite's steps *)

\* What a new frame from the satellite must satisfy.
NewFrame(m) ==
    \/ m.k \in {"ok", "refused", "aborted"}
    \/ m.k = "end" /\ m.c <= cur /\ (Early /\ ~killed /\ m.c = cur => cur \in cut')
    \/ m.k = "error" /\ m.c \in Turns /\ handler'[m.c] = "gone" /\ m.c \notin Content'
    \/ /\ m.k = "result"
       /\ m.c \in Turns /\ Written(m.c)'
       /\ m.p \in Turns /\ Written(m.p)' /\ m.p \notin Content'
       /\ m.c \notin mixed' => m.p = m.c
    \/ m.k = "started" /\ m.c <= starts /\ (stage = "start" /\ m.c = starts => Fresh')

\* A step of the satellite or its process, as far as the turn stream sees it:
\* what it forwards is true, and a prompt that is gone does not come back.
LEMMA SatelliteSays ==
    ASSUME IInv, UNCHANGED <<turnVars, starts>>,
           cut \subseteq cut', mixed \subseteq mixed',
           \A c \in Turns : /\ Written(c) => Written(c)'
                            /\ handler[c] = "gone" => handler'[c] = "gone",
           \A p \in Content' : p \in Content \/ (p \in Turns /\ ~Written(p)),
           Fresh => Fresh',
           \A m \in Range(up') : m \in Range(up) \/ NewFrame(m)
    PROVE  /\ StageInv' /\ SentinelInv' /\ NoFalseLoss' /\ ResultIsOwnUnlessMixed'
           /\ EndsInv' /\ ErrorsInv' /\ ResultsInv' /\ StartedInv'
<1>1. UNCHANGED <<stage, cur, q, armed, killed, dead, rec, watch, outcome, place, answer>>
  BY DEF turnVars
<1>2. Early' = Early
  BY <1>1 DEF Early
<1>3. \A m \in Coming' : m \in Coming \/ (m \in Range(up') /\ NewFrame(m))
  BY <1>1 DEF Coming
<1>4. StageInv' /\ NoFalseLoss' /\ ResultIsOwnUnlessMixed'
  BY <1>1 DEF IInv, StageInv, NoFalseLoss, ResultIsOwnUnlessMixed
<1>5. SentinelInv'
  BY <1>1, <1>2 DEF IInv, SentinelInv, NewFrame
<1>6. EndsInv'
  BY <1>1, <1>2, <1>3 DEF IInv, EndsInv, NewFrame
<1>7. ErrorsInv'
  <2>1. ASSUME NEW m \in Coming', m.k = "error"
        PROVE  m.c \in Turns /\ handler'[m.c] = "gone" /\ m.c \notin Content'
    <3>1. CASE m \in Coming
      <4>1. m.c \in Turns /\ handler[m.c] = "gone" /\ m.c \notin Content
        BY <2>1, <3>1 DEF IInv, ErrorsInv
      <4>2. Written(m.c)
        BY <4>1 DEF Written
      <4> QED BY <4>1, <4>2
    <3>2. CASE NewFrame(m)
      BY <2>1, <3>2 DEF NewFrame
    <3> QED BY <1>3, <3>1, <3>2
  <2> QED BY <2>1 DEF ErrorsInv
<1>8. ResultsInv'
  <2>1. ASSUME NEW m \in Coming', m.k = "result"
        PROVE  /\ m.c \in Turns /\ Written(m.c)'
               /\ m.p \in Turns /\ Written(m.p)' /\ m.p \notin Content'
               /\ m.c \notin mixed' => m.p = m.c
    <3>1. CASE m \in Coming
      BY <2>1, <3>1 DEF IInv, ResultsInv
    <3>2. CASE NewFrame(m)
      BY <2>1, <3>2 DEF NewFrame
    <3> QED BY <1>3, <3>1, <3>2
  <2> QED BY <2>1 DEF ResultsInv, Written
<1>9. StartedInv'
  BY <1>1 DEF IInv, StartedInv, NewFrame
<1> QED
  BY <1>4, <1>5, <1>6, <1>7, <1>8, <1>9

\* The satellite takes its next command, or none: those behind it keep their
\* order, and a send behind it is still unseen.
LEMMA SatelliteTakes ==
    ASSUME IInv, UNCHANGED <<turnVars, starts>>,
           NEW n \in {0, 1},
           \A i \in 1..Len(down') : i + n \in 1..Len(down) /\ down'[i] = down[i + n],
           \A i \in 1..Len(down) : i > n => i - n \in 1..Len(down') /\ down'[i - n] = down[i],
           \A i \in 1..Len(down) : i > n /\ down[i].k = "send" =>
               \A d \in Turns : down[i].c <= d => handler'[d] = "none",
           \A c \in loose : handler[c] = "none" => c \in loose'
    PROVE  /\ SendsInv' /\ StartsInv'
           /\ Early /\ ~killed => \A i \in 1..Len(down') : down'[i].k = "stop" =>
                  \E j \in 1..Len(down') : i < j /\ down'[j].k = "send" /\ down'[j].c = cur
<1>1. UNCHANGED <<stage, cur, killed, dead, rec>>
  BY DEF turnVars
<1>2. Len(down) \in Nat /\ n \in Nat /\ cur \in 0..MaxTurns
  BY RangeFacts DEF IInv, TypeOK
<1>3. \A i \in 1..Len(down') : i + n > n /\ i + n \in 1..Len(down) /\ down'[i] = down[i + n]
  BY <1>2
<1>4. SendsInv'
  <2>1. ASSUME NEW i \in 1..Len(down'), down'[i].k = "send"
        PROVE  /\ down'[i].c \in 1..cur
               /\ \A d \in Turns : down'[i].c <= d => handler'[d] = "none"
               /\ \/ down'[i].c \in loose'
                  \/ down'[i].c = cur /\ (Early \/ (dead /\ stage # "wait"))
    <3>1. /\ i + n \in 1..Len(down) /\ i + n > n /\ down'[i] = down[i + n]
      BY <1>3
    <3>2. /\ down[i + n].c \in 1..cur
          /\ \A d \in Turns : down[i + n].c <= d => handler[d] = "none"
          /\ \/ down[i + n].c \in loose
             \/ down[i + n].c = cur /\ (Early \/ (dead /\ stage # "wait"))
      BY <2>1, <3>1 DEF IInv, SendsInv, Open
    <3>3. down[i + n].c \in Turns /\ down[i + n].c <= down[i + n].c
      BY <1>2, <3>2, TurnBoundsAssumption DEF Turns
    <3>4. handler[down[i + n].c] = "none"
      BY <3>2, <3>3
    <3> QED BY <2>1, <3>1, <3>2, <3>4
  <2>2. ASSUME NEW i \in 1..Len(down'), NEW j \in 1..Len(down'), i < j,
               down'[i].k = "send", down'[j].k = "send"
        PROVE  down'[i].c < down'[j].c
    <3> DEFINE a == i + n
               b == j + n
    <3>1. a < b
      BY <1>2, <2>2
    <3>2. /\ a \in 1..Len(down) /\ down'[i] = down[a]
          /\ b \in 1..Len(down) /\ down'[j] = down[b]
      BY <1>3
    <3>3. \A x, y \in 1..Len(down) :
              x < y /\ down[x].k = "send" /\ down[y].k = "send" => down[x].c < down[y].c
      BY DEF IInv, SendsInv
    <3> HIDE DEF a, b
    <3> QED BY <2>2, <3>1, <3>2, <3>3
  <2>3. Early' = Early
    BY <1>1 DEF Early
  <2> QED BY <1>1, <2>1, <2>2, <2>3 DEF SendsInv, Open
<1>5. StartsInv'
  <2>1. \A i \in 1..Len(down') : down'[i].k = "start" =>
            dead /\ stage \in {"idle", "start"} /\ down'[i].c \in 1..starts
    BY <1>3 DEF IInv, StartsInv
  <2>2. ASSUME NEW i \in 1..Len(down'), NEW j \in 1..Len(down'), i < j, down'[i].k = "start"
        PROVE  down'[j].k # "send" /\ (down'[j].k = "start" => down'[i].c < down'[j].c)
    <3> DEFINE a == i + n
               b == j + n
    <3>1. a < b
      BY <1>2, <2>2
    <3>2. /\ a \in 1..Len(down) /\ down'[i] = down[a]
          /\ b \in 1..Len(down) /\ down'[j] = down[b]
      BY <1>3
    <3> HIDE DEF a, b
    <3> QED BY <2>2, <3>1, <3>2 DEF IInv, StartsInv
  <2> QED BY <1>1, <2>1, <2>2 DEF StartsInv
<1>6. ASSUME Early, ~killed, NEW i \in 1..Len(down'), down'[i].k = "stop"
      PROVE  \E j \in 1..Len(down') : i < j /\ down'[j].k = "send" /\ down'[j].c = cur
  <2>1. PICK j \in 1..Len(down) : i + n < j /\ down[j].k = "send" /\ down[j].c = cur
    BY <1>3, <1>6 DEF IInv, StopInv
  <2>2. j > n /\ i < j - n
    BY <1>2, <2>1
  <2> QED BY <2>1, <2>2
<1> QED BY <1>4, <1>5, <1>6

\* The command taken, and the shift of those behind it.
LEMMA TakesFacts ==
    ASSUME IInv, NEW kind, Takes(kind)
    PROVE  /\ linked /\ Head(down) = down[1] /\ 1 \in 1..Len(down) /\ Head(down) \in Frames
           /\ down[1].k = kind
           /\ down' \in Seq(Frames)
           /\ \A i \in 1..Len(down') : i + 1 \in 1..Len(down) /\ down'[i] = down[i + 1]
           /\ \A i \in 1..Len(down) : i > 1 => i - 1 \in 1..Len(down') /\ down'[i - 1] = down[i]
<1>1. down \in Seq(Frames) /\ down # <<>> /\ down' = Tail(down) /\ Head(down).k = kind /\ linked
  BY DEF Takes, IInv, TypeOK
<1>2. /\ Len(down) \in Nat /\ 1 \in 1..Len(down) /\ Head(down) = down[1] /\ Head(down) \in Frames
      /\ Tail(down) \in Seq(Frames)
      /\ \A i \in 1..Len(Tail(down)) : i + 1 \in 1..Len(down) /\ Tail(down)[i] = down[i + 1]
      /\ \A i \in 1..Len(down) :
             i # 1 => i - 1 \in 1..Len(Tail(down)) /\ Tail(down)[i - 1] = down[i]
  BY <1>1, TailFacts
<1> QED BY <1>1, <1>2

\* No command taken: a shift by nothing.
LEMMA KeepsFacts ==
    ASSUME IInv, UNCHANGED down
    PROVE  /\ down' \in Seq(Frames)
           /\ \A i \in 1..Len(down') : i + 0 \in 1..Len(down) /\ down'[i] = down[i + 0]
           /\ \A i \in 1..Len(down) : i - 0 \in 1..Len(down') /\ down'[i - 0] = down[i]
<1>1. down \in Seq(Frames) /\ Len(down) \in Nat
  BY RangeFacts DEF IInv, TypeOK
<1> QED BY <1>1

\* One more frame for the proxy.
LEMMA UpAppend ==
    ASSUME IInv, NEW m \in Frames, up' = Append(up, m)
    PROVE  up' \in Seq(Frames) /\ \A x \in Range(up') : x \in Range(up) \/ x = m
<1>1. up \in Seq(Frames)
  BY DEF IInv, TypeOK
<1> QED BY <1>1, AppendFacts

\* Commands that touch no task: stop_turn, the interrupt, and abort's signal.
LEMMA SignalsIInv == ASSUME IInv, TakeStop \/ TakeInterrupt \/ TakeAbort PROVE IInv'
<1>0. /\ (Takes("stop") /\ stop' = TRUE) \/ UNCHANGED stop
      /\ \E kind \in Quiet : Takes(kind)
      /\ up' = up \/ up' = Append(up, Frame("aborted", 0))
      /\ proc' = proc \/ (proc = "alive" /\ proc' = "dying")
      /\ UNCHANGED <<turnVars, linked, handler, reader, stdin, on, out, countVars, pastVars>>
  <2>1. CASE TakeStop
    BY <2>1 DEF TakeStop, Quiet, cliVars
  <2>2. CASE TakeInterrupt
    BY <2>2 DEF TakeInterrupt, Quiet, cliVars, satVars
  <2>3. CASE TakeAbort
    BY <2>3 DEF TakeAbort, Quiet, satVars
  <2> QED BY <2>1, <2>2, <2>3
<1>k. PICK kind \in Quiet : Takes(kind)
  BY <1>0
<1>d. /\ 1 \in 1..Len(down) /\ down[1].k = kind /\ down' \in Seq(Frames)
      /\ \A i \in 1..Len(down') : i + 1 \in 1..Len(down) /\ down'[i] = down[i + 1]
      /\ \A i \in 1..Len(down) : i > 1 => i - 1 \in 1..Len(down') /\ down'[i - 1] = down[i]
  BY <1>k, TakesFacts
<1>u. up' \in Seq(Frames) /\ \A x \in Range(up') : x \in Range(up) \/ x = Frame("aborted", 0)
  <2>1. CASE up' = up
    BY <2>1 DEF IInv, TypeOK
  <2>2. CASE up' = Append(up, Frame("aborted", 0))
    BY <2>2, UpAppend, FrameType, TurnBoundsAssumption
  <2> QED BY <1>0, <2>1, <2>2
<1>v. /\ UNCHANGED <<handler, reader, stdin, on, out, cut, loose, mixed, pressed, starts,
                     stage, cur, killed, dead, rec>>
  BY <1>0 DEF countVars, pastVars, turnVars
<1>c. Content' = Content /\ (\A c \in Turns : Written(c)' = Written(c) /\ Serves(c)' = Serves(c))
  BY <1>v DEF Content, Written, Serves
<1>1. TypeOK'
  <2>1. stop' \in BOOLEAN /\ proc' \in {"alive", "dying", "dead"}
    BY <1>0 DEF IInv, TypeOK
  <2>2. UNCHANGED <<q, armed, rec, watch, outcome, place, answer, linked, drops, stops, crashes>>
    BY <1>0 DEF turnVars, countVars
  <2> QED BY <1>v, <1>d, <1>u, <2>1, <2>2 DEF IInv, TypeOK
<1>2. HandlerInv' /\ PromptsInv' /\ ReaderInv' /\ DeadInv'
  BY <1>0, <1>v, <1>c DEF IInv, HandlerInv, PromptsInv, ReaderInv, DeadInv
<1>3. WorkInv'
  BY <1>0, <1>v, <1>c DEF IInv, WorkInv, Open, Early
<1>4. Fresh => Fresh'
  BY <1>c, <1>d DEF Fresh
<1>5. NewFrame(Frame("aborted", 0))
  BY FrameType, TurnBoundsAssumption DEF NewFrame
<1>6. /\ StageInv' /\ SentinelInv' /\ NoFalseLoss' /\ ResultIsOwnUnlessMixed'
      /\ EndsInv' /\ ErrorsInv' /\ ResultsInv' /\ StartedInv'
  BY <1>0, <1>v, <1>c, <1>u, <1>4, <1>5, SatelliteSays
<1>7. /\ SendsInv' /\ StartsInv'
      /\ Early /\ ~killed => \A i \in 1..Len(down') : down'[i].k = "stop" =>
             \E j \in 1..Len(down') : i < j /\ down'[j].k = "send" /\ down'[j].c = cur
  <2>1. \A i \in 1..Len(down) : i > 1 /\ down[i].k = "send" =>
            \A d \in Turns : down[i].c <= d => handler'[d] = "none"
    BY <1>v DEF IInv, SendsInv
  <2> QED BY <1>0, <1>v, <1>d, <2>1, SatelliteTakes
<1>8. StopInv'
  <2> SUFFICES ASSUME Early, ~killed, handler[cur] = "read" PROVE ~stop'
    BY <1>v, <1>7 DEF StopInv, Early
  <2>1. cur \in Turns
    BY TurnRuns DEF Early
  <2>2. down[1].k # "stop"
    <3> SUFFICES ASSUME down[1].k = "stop" PROVE FALSE
      OBVIOUS
    <3>1. PICK j \in 1..Len(down) : down[j].k = "send" /\ down[j].c = cur
      BY <1>d DEF IInv, StopInv
    <3>2. cur <= cur
      BY <2>1, TurnBoundsAssumption DEF Turns
    <3>3. handler[cur] = "none"
      BY <2>1, <3>1, <3>2 DEF IInv, SendsInv
    <3> QED BY <3>3
  <2>3. ~Takes("stop")
    BY <2>2, TakesFacts
  <2> QED BY <1>0, <2>3 DEF IInv, StopInv
<1> QED
  BY <1>1, <1>2, <1>3, <1>6, <1>7, <1>8 DEF IInv
\* A send: the task of its turn, or a refusal.
LEMMA TakeSendIInv == ASSUME IInv, TakeSend PROVE IInv'
<1> DEFINE c == down[1].c
<1>d. /\ 1 \in 1..Len(down) /\ down[1].k = "send" /\ down' \in Seq(Frames)
      /\ Head(down) = down[1]
      /\ \A i \in 1..Len(down') : i + 1 \in 1..Len(down) /\ down'[i] = down[i + 1]
      /\ \A i \in 1..Len(down) : i > 1 => i - 1 \in 1..Len(down') /\ down'[i - 1] = down[i]
  <2>1. Takes("send")
    BY DEF TakeSend
  <2> QED BY <2>1, TakesFacts
<1>c. /\ c \in 1..cur /\ c \in Turns /\ c \in 0..MaxTurns
      /\ \A d \in Turns : c <= d => handler[d] = "none"
      /\ handler[c] = "none"
      /\ Open(c)
  <2>1. /\ c \in 1..cur
        /\ \A d \in Turns : c <= d => handler[d] = "none"
        /\ Open(c)
    BY <1>d DEF IInv, SendsInv
  <2>2. cur \in 0..MaxTurns
    BY DEF IInv, TypeOK
  <2>3. c \in Turns /\ c <= c /\ c \in 0..MaxTurns
    BY <2>1, <2>2, TurnBoundsAssumption DEF Turns
  <2> QED BY <2>1, <2>3
<1>0. /\ \/ /\ proc = "dead" /\ up' = Append(up, Frame("refused", c))
            /\ handler' = handler /\ stop' = stop
         \/ /\ proc # "dead" /\ up' = Append(up, Frame("ok", c))
            /\ handler' = [handler EXCEPT ![c] = "lock"]
            /\ stop' = (stop \/ ~LockFree)
      /\ UNCHANGED <<turnVars, linked, reader, cliVars, countVars, pastVars>>
  BY <1>d DEF TakeSend
<1> HIDE DEF c
<1>v. UNCHANGED <<reader, proc, stdin, on, out, cut, loose, mixed, pressed, starts,
                  stage, cur, killed, dead, rec>>
  BY <1>0 DEF countVars, pastVars, turnVars, cliVars
<1>h. /\ handler' \in [Turns -> {"none", "lock", "read", "gone"}]
      /\ \A d \in Turns : d # c => handler'[d] = handler[d]
      /\ proc = "dead" => handler' = handler
      /\ handler'[c] \in {"none", "lock"}
  BY <1>0, <1>c DEF IInv, TypeOK
<1>w. \A d \in Turns : Written(d)' = Written(d)
  BY <1>h, <1>c DEF Written
<1>e. Content' = Content
  BY <1>v DEF Content
<1>u. /\ up' \in Seq(Frames)
      /\ \A x \in Range(up') : x \in Range(up) \/ x.k \in {"refused", "ok"}
  <2>1. CASE up' = Append(up, Frame("refused", c))
    BY <2>1, <1>c, UpAppend, FrameType
  <2>2. CASE up' = Append(up, Frame("ok", c))
    BY <2>2, <1>c, UpAppend, FrameType
  <2> QED BY <1>0, <2>1, <2>2
<1>1. TypeOK'
  <2>1. stop' \in BOOLEAN
    BY <1>0 DEF IInv, TypeOK, LockFree
  <2>2. UNCHANGED <<q, armed, rec, watch, outcome, place, answer, linked, drops, stops, crashes>>
    BY <1>0 DEF turnVars, countVars
  <2>3. down' \in Seq(Frames)
    BY <1>d
  <2> QED BY <1>v, <1>u, <1>h, <2>1, <2>2, <2>3 DEF IInv, TypeOK
<1>2. HandlerInv'
  <2>1. reader # 0 => handler'[reader] = "read"
    <3> SUFFICES ASSUME reader # 0 PROVE handler'[reader] = "read"
      OBVIOUS
    <3>1. handler[reader] = "read" /\ reader \in Turns
      BY TurnBoundsAssumption DEF IInv, HandlerInv, TypeOK, Turns
    <3> QED BY <3>1, <1>c, <1>h
  <2>2. \A d \in Turns : handler'[d] = "read" => reader = d
    BY <1>c, <1>h DEF IInv, HandlerInv
  <2>3. \A d \in Turns : handler'[d] # "none" => d <= cur
    BY <1>c, <1>h DEF IInv, HandlerInv
  <2>4. ASSUME NEW a \in Turns, NEW b \in Turns, a < b, handler'[a] = "lock"
        PROVE  ~Written(b)
    <3>1. CASE a = c
      <4>1. c <= b
        BY <2>4, <3>1 DEF Turns
      <4> QED BY <4>1, <1>c DEF Written
    <3>2. CASE a # c
      BY <2>4, <3>2, <1>h DEF IInv, HandlerInv
    <3> QED BY <3>1, <3>2
  <2> QED BY <1>v, <1>w, <2>1, <2>2, <2>3, <2>4 DEF IInv, HandlerInv
<1>3. DeadInv'
  BY <1>v, <1>h DEF IInv, DeadInv, Serves
<1>4. PromptsInv' /\ ReaderInv'
  BY <1>v, <1>w, <1>e DEF IInv, PromptsInv, ReaderInv
<1>5. WorkInv'
  <2>1. \A d \in Turns : Open(d)' = Open(d)
    BY <1>v DEF Open, Early
  <2>2. proc # "dead" => \A d \in Turns : handler'[d] = "lock" => Open(d)
    BY <1>c, <1>h DEF IInv, WorkInv
  <2>3. \A p \in Content : p \in Turns
    BY DEF IInv, PromptsInv
  <2> QED BY <1>v, <1>e, <2>1, <2>2, <2>3 DEF IInv, WorkInv
<1>6. ~Fresh
  BY <1>d DEF Fresh
<1>7. /\ StageInv' /\ SentinelInv' /\ NoFalseLoss' /\ ResultIsOwnUnlessMixed'
      /\ EndsInv' /\ ErrorsInv' /\ ResultsInv' /\ StartedInv'
  <2>1. \A d \in Turns : handler[d] = "gone" => handler'[d] = "gone"
    BY <1>c, <1>h
  <2>2. \A x \in Range(up') : x \in Range(up) \/ NewFrame(x)
    BY <1>u DEF NewFrame
  <2> QED BY <1>0, <1>v, <1>w, <1>e, <1>6, <2>1, <2>2, SatelliteSays
<1>8. /\ SendsInv' /\ StartsInv'
      /\ Early /\ ~killed => \A i \in 1..Len(down') : down'[i].k = "stop" =>
             \E j \in 1..Len(down') : i < j /\ down'[j].k = "send" /\ down'[j].c = cur
  <2>1. ASSUME NEW i \in 1..Len(down), i > 1, down[i].k = "send",
               NEW d \in Turns, down[i].c <= d
        PROVE  handler'[d] = "none"
    <3>1. c < down[i].c /\ down[i].c \in 1..cur
      BY <1>d, <2>1 DEF IInv, SendsInv, c
    <3>2. c # d /\ c <= d
      BY <3>1, <2>1, <1>c DEF Turns
    <3> QED BY <3>2, <1>h, <1>c
  <2> QED BY <1>0, <1>v, <1>d, <2>1, SatelliteTakes
<1>9. StopInv'
  <2>1. Early => handler'[cur] # "read"
    <3> SUFFICES ASSUME Early PROVE handler'[cur] # "read"
      OBVIOUS
    <3>1. cur \in Turns /\ c <= cur
      BY <1>c, TurnRuns DEF Early
    <3> QED BY <3>1, <1>c, <1>h
  <2> QED BY <1>v, <1>8, <2>1 DEF StopInv, Early
<1> QED
  BY <1>1, <1>2, <1>3, <1>4, <1>5, <1>7, <1>8, <1>9 DEF IInv
\* A task has the lock: its prompt goes to a process that holds no other,
\* unless it is mixed, or the task ends with an error.
LEMMA TakeLockIInv == ASSUME IInv, NEW c \in Turns, TakeLock(c) PROVE IInv'
<1>0. /\ handler[c] = "lock" /\ reader = 0
      /\ \A d \in Turns : d < c => handler[d] # "lock"
      /\ \/ /\ proc = "dead" /\ handler' = [handler EXCEPT ![c] = "gone"]
            /\ up' = up \o <<Frame("error", c), Frame("end", c)>>
            /\ UNCHANGED <<reader, stdin>>
         \/ /\ proc # "dead" /\ handler' = [handler EXCEPT ![c] = "read"]
            /\ reader' = c /\ stdin' = Append(stdin, c) /\ up' = up
      /\ stop' = FALSE
      /\ \/ loose \ {c} = {} /\ mixed' = mixed
         \/ loose \ {c} # {} /\ mixed' = mixed \cup {c}
      /\ UNCHANGED <<turnVars, linked, down, proc, on, out, countVars, cut, loose, pressed>>
  BY DEF TakeLock, LockFree
<1>v. UNCHANGED <<stage, cur, killed, dead, starts>>
  BY <1>0 DEF countVars, turnVars
<1>c. /\ c \in 1..MaxTurns /\ c \in 0..MaxTurns /\ c # 0 /\ c <= cur /\ c \in Int
      /\ cur \in 0..MaxTurns
      /\ ~Written(c) /\ Serves(c) /\ c \notin Content /\ c \notin mixed
  BY <1>0, TurnBoundsAssumption
     DEF Turns, Written, Serves, IInv, PromptsInv, HandlerInv, TypeOK
<1>h. /\ handler' \in [Turns -> {"none", "lock", "read", "gone"}]
      /\ \A d \in Turns : d # c => handler'[d] = handler[d]
      /\ proc = "dead" => handler'[c] = "gone" /\ reader' = 0
      /\ proc # "dead" => handler'[c] = "read" /\ reader' = c
  BY <1>0 DEF IInv, TypeOK
<1>w. (\A d \in Turns : Written(d)' <=> Written(d) \/ d = c)
  BY <1>h DEF Written
<1>r. \A d \in Turns : handler[d] # "read"
  BY <1>0 DEF IInv, HandlerInv, Turns
<1>s. /\ stdin' \in Seq(Turns)
      /\ Range(stdin') = IF proc = "dead" THEN Range(stdin) ELSE Range(stdin) \cup {c}
      /\ Distinct(stdin')
  <2>0. stdin \in Seq(Turns) /\ Distinct(stdin) /\ c \notin Range(stdin)
    BY <1>c DEF IInv, TypeOK, PromptsInv, Content
  <2>1. CASE proc = "dead"
    BY <1>0, <2>0, <2>1
  <2>2. CASE proc # "dead"
    <3>1. stdin' = Append(stdin, c)
      BY <1>0, <2>2
    <3>2. /\ Append(stdin, c) \in Seq(Turns)
          /\ Range(Append(stdin, c)) = Range(stdin) \cup {c}
      BY <2>0, AppendFacts
    <3>3. Distinct(Append(stdin, c))
      BY <2>0, DistinctFacts
    <3> QED BY <2>2, <3>1, <3>2, <3>3
  <2> QED BY <2>1, <2>2
<1>e. Content' = IF proc = "dead" THEN Content ELSE Content \cup {c}
  BY <1>0, <1>s DEF Content
<1>1. TypeOK'
  <2>1. up' \in Seq(Frames)
    <3>1. <<Frame("error", c), Frame("end", c)>> \in Seq(Frames)
      BY <1>c, FrameType
    <3>2. up \in Seq(Frames)
      BY DEF IInv, TypeOK
    <3>3. up \o <<Frame("error", c), Frame("end", c)>> \in Seq(Frames)
      BY <3>1, <3>2, ConcatFacts
    <3> QED BY <3>2, <3>3, <1>0
  <2>2. mixed' \in SUBSET Turns /\ stop' \in BOOLEAN /\ reader' \in 0..MaxTurns
    BY <1>0, <1>c, <1>h DEF IInv, TypeOK
  <2>3. UNCHANGED <<q, armed, rec, watch, outcome, place, answer, linked, drops, stops, crashes>>
    BY <1>0 DEF turnVars, countVars
  <2> QED BY <1>0, <1>v, <1>h, <1>s, <2>1, <2>2, <2>3 DEF IInv, TypeOK
<1>2. HandlerInv'
  <2>1. reader' # 0 => handler'[reader'] = "read"
    BY <1>h
  <2>2. \A d \in Turns : handler'[d] = "read" => reader' = d
    BY <1>h, <1>r
  <2>3. \A d \in Turns : handler'[d] # "none" => d <= cur
    BY <1>c, <1>h DEF IInv, HandlerInv
  <2>4. \A a, b \in Turns : a < b /\ handler'[a] = "lock" => ~Written(b)'
    BY <1>0, <1>h, <1>w DEF IInv, HandlerInv
  <2>5. \A d \in Turns : d \in mixed' => Written(d)'
    BY <1>0, <1>w DEF IInv, HandlerInv
  <2> QED BY <1>v, <2>1, <2>2, <2>3, <2>4, <2>5 DEF HandlerInv
<1>3. DeadInv'
  <2>1. proc = "dead" => \A d \in Turns : handler'[d] \in {"lock", "read"} => d \in cut
    BY <1>h DEF IInv, DeadInv, Serves
  <2> QED BY <1>0, <2>1 DEF IInv, DeadInv, Serves
<1>4. PromptsInv'
  <2>1. \A p \in Content' : p \in Turns /\ Written(p)'
    BY <1>e, <1>w DEF IInv, PromptsInv
  <2>2. Range(stdin') \cap Range(out) = {} /\ on \notin Range(stdin') \cup Range(out)
    BY <1>s, <1>c DEF IInv, PromptsInv, Content
  <2> QED BY <1>0, <1>s, <2>1, <2>2 DEF IInv, PromptsInv
<1>5. WorkInv'
  <2>0. \A d \in Turns : Open(d)' = Open(d)
    BY <1>0, <1>v DEF Open, Early
  <2>1. ASSUME proc # "dead"
        PROVE  /\ \A d \in Turns : handler'[d] = "lock" => Open(d)
               /\ \A p \in Content' : Open(p) \/ \E l \in loose : l < p
               /\ \A p \in Content' \cap mixed' : p \in loose \/ \E l \in loose : l < p
    <3>1. Open(c)
      BY <1>0, <2>1 DEF IInv, WorkInv
    <3>2. \A d \in Turns : handler'[d] = "lock" => Open(d)
      BY <1>h, <2>1 DEF IInv, WorkInv
    <3>3. \A p \in Content' : Open(p) \/ \E l \in loose : l < p
      BY <1>e, <2>1, <3>1 DEF IInv, WorkInv
    <3>4. ASSUME c \in mixed', c \notin loose PROVE \E l \in loose : l < c
      <4>1. c = cur
        BY <3>1, <3>4 DEF Open
      <4>2. PICK l \in loose : l # c
        BY <1>0, <1>c, <3>4
      <4>3. l \in 1..cur
        BY <4>2 DEF IInv, WorkInv
      <4> QED BY <4>1, <4>2, <4>3, <1>c
    <3>5. \A p \in Content' \cap mixed' : p = c \/ p \in Content \cap mixed
      BY <1>0, <1>e
    <3> QED BY <2>1, <3>2, <3>3, <3>4, <3>5 DEF IInv, WorkInv
  <2>2. \A p \in Content' : p \in Turns
    BY <1>4 DEF PromptsInv
  <2> QED BY <1>0, <1>v, <2>0, <2>1, <2>2 DEF IInv, WorkInv
<1>6. ReaderInv'
  <2> SUFFICES ASSUME proc # "dead", loose \ {c} = {}, NEW p \in Content PROVE FALSE
    BY <1>0, <1>h, <1>e DEF ReaderInv
  <2>1. p \in Turns /\ Written(p) /\ p # c
    BY <1>c DEF IInv, PromptsInv
  <2>2. p \in 1..MaxTurns /\ p <= cur
    BY <2>1 DEF IInv, HandlerInv, Written, Turns
  <2>3. ~(c < p)
    BY <2>1, <1>0 DEF IInv, HandlerInv
  <2>4. p # cur
    BY <2>1, <2>2, <2>3, <1>c
  <2>5. p \notin loose /\ ~Open(p)
    BY <2>1, <2>4 DEF Open
  <2>6. PICK l \in loose : l < p
    BY <2>5 DEF IInv, WorkInv
  <2> QED BY <2>3, <2>6
<1>7. ~Fresh
  BY <1>c DEF Fresh
<1>8. /\ StageInv' /\ SentinelInv' /\ NoFalseLoss' /\ ResultIsOwnUnlessMixed'
      /\ EndsInv' /\ ErrorsInv' /\ ResultsInv' /\ StartedInv'
  <2>1. \A d \in Turns : handler[d] = "gone" => handler'[d] = "gone"
    BY <1>0, <1>h
  <2>2. ASSUME NEW x \in Range(up'), x \notin Range(up) PROVE NewFrame(x)
    <3>0. proc = "dead"
      BY <1>0, <2>2
    <3>1. x = Frame("error", c) \/ x = Frame("end", c)
      <4> DEFINE t == <<Frame("error", c), Frame("end", c)>>
      <4>1. t \in Seq(Frames) /\ Range(t) \subseteq {Frame("error", c), Frame("end", c)}
        BY <1>c, FrameType DEF Range
      <4>2. up' = up \o t
        BY <1>0, <3>0
      <4> HIDE DEF t
      <4>3. Range(up') \subseteq Range(up) \cup Range(t)
        BY <4>1, <4>2, ConcatFacts DEF IInv, TypeOK
      <4> QED BY <4>1, <4>3, <2>2
    <3>2. c \in cut'
      BY <1>0, <1>c, <3>0 DEF IInv, DeadInv
    <3>3. c \notin Content'
      BY <1>c, <1>e, <3>0
    <3>4. /\ Frame("error", c).k = "error" /\ Frame("error", c).c = c
          /\ Frame("end", c).k = "end" /\ Frame("end", c).c = c
      BY <1>c, FrameType
    <3> QED BY <3>0, <3>1, <3>2, <3>3, <3>4, <1>c, <1>h DEF NewFrame
  <2>3. cut \subseteq cut' /\ mixed \subseteq mixed'
    BY <1>0
  <2>4. \A p \in Content' : p \in Content \/ (p \in Turns /\ ~Written(p))
    BY <1>e, <1>c
  <2> QED BY <1>0, <1>v, <1>w, <1>7, <2>1, <2>2, <2>3, <2>4, SatelliteSays
<1>9. /\ SendsInv' /\ StartsInv'
      /\ Early /\ ~killed => \A i \in 1..Len(down') : down'[i].k = "stop" =>
             \E j \in 1..Len(down') : i < j /\ down'[j].k = "send" /\ down'[j].c = cur
  <2>1. \A i \in 1..Len(down) : i > 0 /\ down[i].k = "send" =>
            \A d \in Turns : down[i].c <= d => handler'[d] = "none"
    BY <1>0, <1>h DEF IInv, SendsInv
  <2>2. /\ \A i \in 1..Len(down') : i + 0 \in 1..Len(down) /\ down'[i] = down[i + 0]
        /\ \A i \in 1..Len(down) : i - 0 \in 1..Len(down') /\ down'[i - 0] = down[i]
    BY <1>0, KeepsFacts
  <2> QED BY <1>0, <1>v, <2>1, <2>2, SatelliteTakes
<1>10. StopInv'
  BY <1>0, <1>v, <1>9 DEF StopInv, Early
<1> QED
  BY <1>1, <1>2, <1>3, <1>4, <1>5, <1>6, <1>8, <1>9, <1>10 DEF IInv
\* A task that does not get the lock in time ends with an error: its prompt was
\* never written, and those that were are of turns before it.
LEMMA LockTimesOutIInv == ASSUME IInv, NEW c \in Turns, LockTimesOut(c) PROVE IInv'
<1>0. /\ handler[c] = "lock"
      /\ \A d \in Turns : d < c => handler[d] # "lock"
      /\ handler' = [handler EXCEPT ![c] = "gone"]
      /\ up' = up \o <<Frame("error", c), Frame("end", c)>>
      /\ cut' = cut \cup {c} /\ loose' = loose \ {c}
      /\ UNCHANGED <<turnVars, linked, down, reader, stop, cliVars, countVars, mixed, pressed>>
  BY DEF LockTimesOut
<1>v. UNCHANGED <<stage, cur, killed, dead, rec, starts, proc, stdin, on, out>>
  BY <1>0 DEF countVars, turnVars, cliVars
<1>c. /\ c \in 1..MaxTurns /\ c \in 0..MaxTurns /\ c # 0 /\ c <= cur /\ c \in Int
      /\ cur \in 0..MaxTurns
      /\ ~Written(c) /\ Serves(c) /\ c \notin Content /\ c \notin mixed /\ reader # c
  BY <1>0, TurnBoundsAssumption
     DEF Turns, Written, Serves, IInv, PromptsInv, HandlerInv, TypeOK
<1>h. /\ handler' \in [Turns -> {"none", "lock", "read", "gone"}]
      /\ \A d \in Turns : d # c => handler'[d] = handler[d]
      /\ handler'[c] = "gone"
  BY <1>0 DEF IInv, TypeOK
<1>w. \A d \in Turns : Written(d)' <=> Written(d) \/ d = c
  BY <1>h DEF Written
<1>e. Content' = Content /\ \A p \in Content : p \in Turns /\ Written(p) /\ p # c
  BY <1>v, <1>c DEF Content, IInv, PromptsInv
\* What was written stands before the task that still waits for the lock.
<1>b. \A p \in Content : p < c
  <2> SUFFICES ASSUME NEW p \in Content PROVE p < c
    OBVIOUS
  <2>1. p \in 1..MaxTurns /\ p # c /\ Written(p)
    BY <1>e DEF Turns
  <2>2. ~(c < p)
    BY <1>0, <1>e DEF IInv, HandlerInv
  <2> QED BY <2>1, <2>2, <1>c, TurnBoundsAssumption
<1>1. TypeOK'
  <2>1. up' \in Seq(Frames)
    <3>1. <<Frame("error", c), Frame("end", c)>> \in Seq(Frames)
      BY <1>c, FrameType
    <3>2. up \in Seq(Frames)
      BY DEF IInv, TypeOK
    <3> QED BY <3>1, <3>2, <1>0, ConcatFacts
  <2>2. cut' \in SUBSET Turns /\ loose' \in SUBSET Turns
    BY <1>0 DEF IInv, TypeOK
  <2>3. UNCHANGED <<q, armed, watch, outcome, place, answer, linked, down, reader, stop,
                    drops, stops, crashes, mixed, pressed>>
    BY <1>0 DEF turnVars, countVars
  <2> QED BY <1>v, <1>h, <2>1, <2>2, <2>3 DEF IInv, TypeOK
<1>2. HandlerInv'
  <2>1. reader # 0 => handler'[reader] = "read"
    BY <1>c, <1>h DEF IInv, HandlerInv, TypeOK, Turns
  <2>2. \A d \in Turns : handler'[d] = "read" => reader = d
    BY <1>h DEF IInv, HandlerInv
  <2>3. \A d \in Turns : handler'[d] # "none" => d <= cur
    BY <1>c, <1>h DEF IInv, HandlerInv
  <2>4. \A a, b \in Turns : a < b /\ handler'[a] = "lock" => ~Written(b)'
    BY <1>0, <1>h, <1>w DEF IInv, HandlerInv
  <2>5. \A d \in Turns : d \in mixed => Written(d)'
    BY <1>w DEF IInv, HandlerInv
  <2> QED BY <1>0, <1>v, <2>1, <2>2, <2>3, <2>4, <2>5 DEF HandlerInv
<1>3. DeadInv' /\ PromptsInv' /\ ReaderInv'
  <2>1. DeadInv'
    BY <1>0, <1>v, <1>h DEF IInv, DeadInv, Serves
  <2>2. PromptsInv'
    BY <1>v, <1>e, <1>w DEF IInv, PromptsInv
  <2>3. ReaderInv'
    BY <1>0, <1>e DEF IInv, ReaderInv
  <2> QED BY <2>1, <2>2, <2>3
<1>5. WorkInv'
  <2>0. \A d \in Turns : d # c => Open(d)' = Open(d)
    BY <1>0, <1>v DEF Open, Early
  <2>1. \A l \in loose, p \in Content : l < p => l \in loose'
    <3> SUFFICES ASSUME NEW l \in loose, NEW p \in Content, l < p PROVE l # c
      BY <1>0
    <3>1. p < c /\ p \in 1..MaxTurns
      BY <1>b, <1>e DEF Turns
    <3> QED BY <3>1, <1>c, TurnBoundsAssumption
  <2>2. loose' \subseteq 1..cur
    BY <1>0 DEF IInv, WorkInv
  <2>3. ASSUME proc # "dead"
        PROVE  /\ \A d \in Turns : handler'[d] = "lock" => Open(d)'
               /\ \A p \in Content : Open(p)' \/ \E l \in loose' : l < p
               /\ \A p \in Content \cap mixed : p \in loose' \/ \E l \in loose' : l < p
    <3>1. \A d \in Turns : handler'[d] = "lock" => Open(d)'
      BY <1>h, <2>0, <2>3 DEF IInv, WorkInv
    <3>2. \A p \in Content : Open(p)' \/ \E l \in loose' : l < p
      BY <1>e, <2>0, <2>1, <2>3 DEF IInv, WorkInv
    <3>3. \A p \in Content \cap mixed : p \in loose' \/ \E l \in loose' : l < p
      BY <1>0, <1>e, <2>1, <2>3 DEF IInv, WorkInv
    <3> QED BY <3>1, <3>2, <3>3
  <2> QED BY <1>0, <1>v, <1>e, <2>2, <2>3 DEF WorkInv
<1>7. ~Fresh
  BY <1>c DEF Fresh
<1>8. /\ StageInv' /\ SentinelInv' /\ NoFalseLoss' /\ ResultIsOwnUnlessMixed'
      /\ EndsInv' /\ ErrorsInv' /\ ResultsInv' /\ StartedInv'
  <2>1. \A d \in Turns : handler[d] = "gone" => handler'[d] = "gone"
    BY <1>0, <1>h
  <2>2. ASSUME NEW x \in Range(up'), x \notin Range(up) PROVE NewFrame(x)
    <3>1. x = Frame("error", c) \/ x = Frame("end", c)
      <4> DEFINE t == <<Frame("error", c), Frame("end", c)>>
      <4>1. t \in Seq(Frames) /\ Range(t) \subseteq {Frame("error", c), Frame("end", c)}
        BY <1>c, FrameType DEF Range
      <4>2. up' = up \o t
        BY <1>0
      <4> HIDE DEF t
      <4>3. Range(up') \subseteq Range(up) \cup Range(t)
        BY <4>1, <4>2, ConcatFacts DEF IInv, TypeOK
      <4> QED BY <4>1, <4>3, <2>2
    <3>2. c \in cut' /\ c \notin Content'
      BY <1>0, <1>c, <1>e
    <3>3. /\ Frame("error", c).k = "error" /\ Frame("error", c).c = c
          /\ Frame("end", c).k = "end" /\ Frame("end", c).c = c
      BY <1>c, FrameType
    <3> QED BY <3>1, <3>2, <3>3, <1>c, <1>h DEF NewFrame
  <2>3. cut \subseteq cut' /\ mixed \subseteq mixed'
    BY <1>0
  <2>4. \A p \in Content' : p \in Content
    BY <1>e
  <2> QED BY <1>0, <1>v, <1>w, <1>7, <2>1, <2>2, <2>3, <2>4, SatelliteSays
<1>9. /\ SendsInv' /\ StartsInv'
      /\ Early /\ ~killed => \A i \in 1..Len(down') : down'[i].k = "stop" =>
             \E j \in 1..Len(down') : i < j /\ down'[j].k = "send" /\ down'[j].c = cur
  <2>1. \A i \in 1..Len(down) : i > 0 /\ down[i].k = "send" =>
            \A d \in Turns : down[i].c <= d => handler'[d] = "none"
    BY <1>0, <1>h DEF IInv, SendsInv
  <2>2. /\ \A i \in 1..Len(down') : i + 0 \in 1..Len(down) /\ down'[i] = down[i + 0]
        /\ \A i \in 1..Len(down) : i - 0 \in 1..Len(down') /\ down'[i - 0] = down[i]
    BY <1>0, KeepsFacts
  <2>3. \A d \in loose : handler[d] = "none" => d \in loose'
    BY <1>0
  <2> QED BY <1>0, <1>v, <2>1, <2>2, <2>3, SatelliteTakes
<1>10. StopInv'
  <2>1. handler'[cur] = "read" => handler[cur] = "read"
    BY <1>0, <1>h DEF IInv, TypeOK
  <2> QED BY <1>0, <1>v, <1>9, <2>1 DEF StopInv, Early, IInv
<1> QED
  BY <1>1, <1>2, <1>3, <1>5, <1>8, <1>9, <1>10 DEF IInv
\* A line is forwarded: the reader's own prompt is all that the process
\* holds, unless the reader is mixed.
LEMMA ReadLineIInv == ASSUME IInv, NEW c \in Turns, ReadLine(c) PROVE IInv'
<1>m. PICK p : p = Head(out)
  OBVIOUS
<1>n. PICK f : f = [k |-> "result", c |-> c, p |-> p]
  OBVIOUS
<1>0. /\ handler[c] = "read" /\ out # <<>> /\ out' = Tail(out)
      /\ up' = Append(up, f)
      /\ UNCHANGED <<turnVars, linked, down, satVars, proc, stdin, on, countVars, pastVars>>
  BY <1>m, <1>n DEF ReadLine
<1>v. UNCHANGED <<handler, reader, stop, cut, loose, mixed, pressed, starts, stage, cur, killed, dead, rec>>
  BY <1>0 DEF satVars, pastVars, countVars, turnVars
<1>p. /\ out' \in Seq(Turns) /\ Distinct(out')
      /\ Range(out') \subseteq Range(out) /\ p \in Range(out) /\ p \notin Range(out')
  <2>1. out \in Seq(Turns) /\ Distinct(out)
    BY DEF IInv, TypeOK, PromptsInv
  <2>2. /\ Tail(out) \in Seq(Turns) /\ Range(Tail(out)) \subseteq Range(out)
        /\ Head(out) \in Range(out)
    BY <1>0, <2>1, TailFacts
  <2>3. Distinct(Tail(out)) /\ Head(out) \notin Range(Tail(out))
    BY <1>0, <2>1, DistinctFacts
  <2> QED BY <1>0, <1>m, <2>1, <2>2, <2>3
<1>e. Content' \subseteq Content /\ p \in Content /\ p \notin Content'
  <2>1. p \notin Range(stdin) /\ p # on
    BY <1>p DEF IInv, PromptsInv
  <2> QED BY <2>1, <1>0, <1>p DEF Content
<1>f. /\ f \in Frames /\ f.k = "result" /\ f.c = c /\ f.p = p
      /\ p \in Turns /\ Written(p)
      /\ c \notin mixed => p = c
      /\ reader = c /\ c # 0
  <2>1. p \in Turns /\ Written(p)
    BY <1>e DEF IInv, PromptsInv
  <2>2. c \in 0..MaxTurns /\ p \in 0..MaxTurns /\ c # 0
    BY <2>1, TurnBoundsAssumption DEF Turns
  <2>3. reader = c
    BY <1>0 DEF IInv, HandlerInv
  <2>4. c \notin mixed => p = c
    BY <1>e, <2>2, <2>3 DEF IInv, ReaderInv
  <2> QED BY <1>n, <2>1, <2>2, <2>3, <2>4 DEF Frames
<1>u. up' \in Seq(Frames) /\ \A x \in Range(up') : x \in Range(up) \/ x = f
  BY <1>0, <1>f, UpAppend
<1>1. TypeOK'
  <2>1. UNCHANGED <<q, armed, rec, watch, outcome, place, answer, linked, down,
                    drops, stops, crashes, stdin, on, proc>>
    BY <1>0 DEF turnVars, countVars
  <2> QED BY <1>v, <1>p, <1>u, <2>1 DEF IInv, TypeOK
<1>w. \A d \in Turns : Written(d)' = Written(d) /\ Serves(d)' = Serves(d) /\ Open(d)' = Open(d)
  BY <1>v DEF Written, Serves, Open, Early
<1>2. HandlerInv'
  BY <1>v, <1>w DEF IInv, HandlerInv
<1>3. DeadInv'
  BY <1>0, <1>v, <1>w DEF IInv, DeadInv
<1>4. PromptsInv'
  BY <1>0, <1>p, <1>e, <1>w DEF IInv, PromptsInv
<1>5. WorkInv'
  <2>1. \A x \in Content : x \in Turns
    BY DEF IInv, PromptsInv
  <2> QED BY <1>0, <1>v, <1>e, <1>w, <2>1 DEF IInv, WorkInv
<1>6. ReaderInv'
  BY <1>v, <1>e DEF IInv, ReaderInv
<1>7. ~Fresh
  BY <1>0 DEF Fresh, Serves
<1>8. /\ StageInv' /\ SentinelInv' /\ NoFalseLoss' /\ ResultIsOwnUnlessMixed'
      /\ EndsInv' /\ ErrorsInv' /\ ResultsInv' /\ StartedInv'
  <2>1. Written(c)
    BY <1>0 DEF Written
  <2>2. NewFrame(f)
    BY <1>f, <1>e, <1>v, <1>w, <2>1 DEF NewFrame
  <2> QED BY <1>0, <1>v, <1>w, <1>e, <1>u, <1>7, <2>2, SatelliteSays
<1>9. /\ SendsInv' /\ StartsInv'
      /\ Early /\ ~killed => \A i \in 1..Len(down') : down'[i].k = "stop" =>
             \E j \in 1..Len(down') : i < j /\ down'[j].k = "send" /\ down'[j].c = cur
  <2>1. \A i \in 1..Len(down) : i > 0 /\ down[i].k = "send" =>
            \A d \in Turns : down[i].c <= d => handler'[d] = "none"
    BY <1>v DEF IInv, SendsInv
  <2>2. /\ \A i \in 1..Len(down') : i + 0 \in 1..Len(down) /\ down'[i] = down[i + 0]
        /\ \A i \in 1..Len(down) : i - 0 \in 1..Len(down') /\ down'[i - 0] = down[i]
    BY <1>0, KeepsFacts
  <2> QED BY <1>0, <1>v, <2>1, <2>2, SatelliteTakes
<1>10. StopInv'
  BY <1>0, <1>v, <1>9 DEF IInv, StopInv, Early
<1> QED
  BY <1>1, <1>2, <1>3, <1>4, <1>5, <1>6, <1>8, <1>9, <1>10 DEF IInv

\* The loop ends: before its turn's result only when the process is dead,
\* since nothing has told it to stop.
LEMMA ReaderEndsIInv == ASSUME IInv, NEW c \in Turns, ReaderEnds(c) PROVE IInv'
<1>0. /\ handler[c] = "read"
      /\ stop \/ proc = "dead"
      /\ handler' = [handler EXCEPT ![c] = "gone"]
      /\ reader' = 0
      /\ up' = Append(up, Frame("end", c))
      /\ UNCHANGED <<turnVars, linked, down, stop, cliVars, countVars, pastVars>>
  BY DEF ReaderEnds
<1>v. UNCHANGED <<proc, stdin, on, out, cut, loose, mixed, pressed, starts, stage, cur, killed, dead, rec>>
  BY <1>0 DEF cliVars, pastVars, countVars, turnVars
<1>c. /\ c \in 0..MaxTurns /\ c <= cur /\ reader = c
      /\ Frame("end", c) \in Frames /\ Frame("end", c).k = "end" /\ Frame("end", c).c = c
  <2>1. c \in 0..MaxTurns
    BY TurnBoundsAssumption DEF Turns
  <2> QED BY <1>0, <2>1, FrameType DEF IInv, HandlerInv
<1>h. /\ handler' \in [Turns -> {"none", "lock", "read", "gone"}]
      /\ \A d \in Turns : d # c => handler'[d] = handler[d]
      /\ handler'[c] = "gone"
  BY <1>0 DEF IInv, TypeOK
<1>w. \A d \in Turns : Written(d)' = Written(d) /\ (Serves(d)' => Serves(d)) /\ Open(d)' = Open(d)
  BY <1>0, <1>v, <1>h DEF Written, Serves, Open, Early
<1>e. Content' = Content
  BY <1>v DEF Content
<1>u. up' \in Seq(Frames) /\ \A x \in Range(up') : x \in Range(up) \/ x = Frame("end", c)
  BY <1>0, <1>c, UpAppend
<1>1. TypeOK'
  <2>1. UNCHANGED <<q, armed, rec, watch, outcome, place, answer, linked, down, stop,
                    drops, stops, crashes>>
    BY <1>0 DEF turnVars, countVars
  <2>2. reader' \in 0..MaxTurns
    BY <1>0, TurnBoundsAssumption
  <2>3. /\ handler' \in [Turns -> {"none", "lock", "read", "gone"}]
        /\ up' \in Seq(Frames)
    BY <1>h, <1>u
  <2> QED BY <1>v, <2>1, <2>2, <2>3 DEF IInv, TypeOK
<1>2. HandlerInv'
  <2>1. \A d \in Turns : handler'[d] # "read"
    BY <1>c, <1>h DEF IInv, HandlerInv
  <2>2. \A d \in Turns : handler'[d] # "none" => d <= cur
    BY <1>c, <1>h DEF IInv, HandlerInv
  <2>3. \A a, b \in Turns : a < b /\ handler'[a] = "lock" => ~Written(b)'
    BY <1>h, <1>w DEF IInv, HandlerInv
  <2> QED BY <1>0, <1>v, <1>w, <2>1, <2>2, <2>3 DEF IInv, HandlerInv
<1>3. DeadInv'
  BY <1>v, <1>w DEF IInv, DeadInv
<1>4. PromptsInv'
  BY <1>v, <1>e, <1>w DEF IInv, PromptsInv
<1>5. WorkInv'
  <2>1. \A x \in Content : x \in Turns
    BY DEF IInv, PromptsInv
  <2>2. proc # "dead" => \A d \in Turns : handler'[d] = "lock" => Open(d)
    BY <1>h DEF IInv, WorkInv
  <2> QED BY <1>v, <1>e, <1>w, <2>1, <2>2 DEF IInv, WorkInv
<1>6. ReaderInv'
  BY <1>0 DEF ReaderInv
<1>7. ~Fresh
  BY <1>0 DEF Fresh, Serves
<1>8. /\ StageInv' /\ SentinelInv' /\ NoFalseLoss' /\ ResultIsOwnUnlessMixed'
      /\ EndsInv' /\ ErrorsInv' /\ ResultsInv' /\ StartedInv'
  <2>1. ASSUME Early, ~killed, c = cur PROVE cur \in cut'
    <3>1. ~stop
      BY <1>0, <2>1 DEF IInv, StopInv
    <3>2. proc = "dead" /\ Serves(c)
      BY <1>0, <3>1 DEF Serves
    <3> QED BY <1>v, <2>1, <3>2 DEF IInv, DeadInv
  <2>2. NewFrame(Frame("end", c))
    BY <1>c, <2>1 DEF NewFrame
  <2>3. \A d \in Turns : handler[d] = "gone" => handler'[d] = "gone"
    BY <1>h
  <2> QED BY <1>0, <1>v, <1>w, <1>e, <1>u, <1>7, <2>2, <2>3, SatelliteSays
<1>9. /\ SendsInv' /\ StartsInv'
      /\ Early /\ ~killed => \A i \in 1..Len(down') : down'[i].k = "stop" =>
             \E j \in 1..Len(down') : i < j /\ down'[j].k = "send" /\ down'[j].c = cur
  <2>1. \A i \in 1..Len(down) : i > 0 /\ down[i].k = "send" =>
            \A d \in Turns : down[i].c <= d => handler'[d] = "none"
    BY <1>0, <1>h DEF IInv, SendsInv
  <2>2. /\ \A i \in 1..Len(down') : i + 0 \in 1..Len(down) /\ down'[i] = down[i + 0]
        /\ \A i \in 1..Len(down) : i - 0 \in 1..Len(down') /\ down'[i - 0] = down[i]
    BY <1>0, KeepsFacts
  <2> QED BY <1>0, <1>v, <2>1, <2>2, SatelliteTakes
<1>10. StopInv'
  <2>1. Early => cur \in Turns
    BY TurnRuns DEF Early
  <2> QED BY <1>0, <1>v, <1>h, <1>9, <2>1 DEF IInv, StopInv, Early
<1> QED
  BY <1>1, <1>2, <1>3, <1>4, <1>5, <1>6, <1>8, <1>9, <1>10 DEF IInv
\* The process takes a prompt or answers one: the prompt only moves.
LEMMA CliWorksIInv == ASSUME IInv, CliTakes \/ CliAnswers PROVE IInv'
<1>0. /\ \/ /\ proc = "alive" /\ on = 0 /\ stdin # <<>>
            /\ on' = Head(stdin) /\ stdin' = Tail(stdin) /\ out' = out
         \/ on # 0 /\ on' = 0 /\ out' = Append(out, on) /\ stdin' = stdin
      /\ UNCHANGED <<turnVars, linkVars, satVars, proc, countVars, pastVars>>
  BY DEF CliTakes, CliAnswers
<1>v. UNCHANGED <<handler, reader, stop, cut, loose, mixed, pressed, starts, stage, cur, killed, dead, rec,
                  linked, down, up, proc>>
  BY <1>0 DEF satVars, pastVars, countVars, turnVars, linkVars
<1>t. /\ stdin \in Seq(Turns) /\ out \in Seq(Turns) /\ Distinct(stdin) /\ Distinct(out)
      /\ on # 0 => on \in Turns
      /\ Range(stdin) \cap Range(out) = {} /\ on \notin Range(stdin) \cup Range(out)
      /\ 0 \notin Turns
  BY DEF IInv, TypeOK, PromptsInv, Content, Turns
<1>p. /\ stdin' \in Seq(Turns) /\ out' \in Seq(Turns) /\ on' \in 0..MaxTurns
      /\ Distinct(stdin') /\ Distinct(out')
      /\ Range(stdin') \cap Range(out') = {} /\ on' \notin Range(stdin') \cup Range(out')
      /\ Range(stdin') \cup ({on'} \ {0}) \cup Range(out') \subseteq Content
      /\ proc = "dead" => on' = 0 /\ stdin' = stdin
  <2>1. CASE /\ proc = "alive" /\ on = 0 /\ stdin # <<>>
             /\ on' = Head(stdin) /\ stdin' = Tail(stdin) /\ out' = out
    <3>1. /\ Tail(stdin) \in Seq(Turns) /\ Range(Tail(stdin)) \subseteq Range(stdin)
          /\ Head(stdin) \in Range(stdin) /\ Head(stdin) \in Turns
      BY <1>t, <2>1, TailFacts
    <3>2. Distinct(Tail(stdin)) /\ Head(stdin) \notin Range(Tail(stdin))
      BY <1>t, <2>1, DistinctFacts
    <3>3. Head(stdin) \in 0..MaxTurns
      BY <3>1, TurnBoundsAssumption DEF Turns
    <3> QED BY <1>t, <2>1, <3>1, <3>2, <3>3 DEF Content
  <2>2. CASE on # 0 /\ on' = 0 /\ out' = Append(out, on) /\ stdin' = stdin
    <3>1. Append(out, on) \in Seq(Turns) /\ Range(Append(out, on)) = Range(out) \cup {on}
      BY <1>t, <2>2, AppendFacts
    <3>2. Distinct(Append(out, on))
      BY <1>t, <2>2, DistinctFacts
    <3>3. Range(stdin) \subseteq Turns /\ Range(out) \subseteq Turns
      BY <1>t, RangeFacts
    <3>4. 0 \in 0..MaxTurns
      BY TurnBoundsAssumption
    <3> QED BY <1>t, <2>2, <3>1, <3>2, <3>3, <3>4 DEF Content
  <2> QED BY <1>0, <2>1, <2>2
<1>e. Content' \subseteq Content
  BY <1>p DEF Content
<1>w. \A d \in Turns : Written(d)' = Written(d) /\ Serves(d)' = Serves(d) /\ Open(d)' = Open(d)
  BY <1>v DEF Written, Serves, Open, Early
<1>1. TypeOK'
  <2>1. UNCHANGED <<q, armed, rec, watch, outcome, place, answer, drops, stops, crashes>>
    BY <1>0 DEF turnVars, countVars
  <2>2. stdin' \in Seq(Turns) /\ out' \in Seq(Turns) /\ on' \in 0..MaxTurns
    BY <1>p
  <2> QED BY <1>v, <2>1, <2>2 DEF IInv, TypeOK
<1>2. HandlerInv'
  BY <1>v, <1>w DEF IInv, HandlerInv
<1>3. DeadInv'
  BY <1>v, <1>p, <1>w DEF IInv, DeadInv
<1>4. PromptsInv'
  BY <1>p, <1>e, <1>w DEF IInv, PromptsInv
<1>5. WorkInv'
  <2>1. \A x \in Content : x \in Turns
    BY DEF IInv, PromptsInv
  <2> QED BY <1>v, <1>e, <1>w, <2>1 DEF IInv, WorkInv
<1>6. ReaderInv'
  BY <1>v, <1>e DEF IInv, ReaderInv
<1>7. Fresh => Fresh'
  BY <1>v, <1>e, <1>w DEF Fresh
<1>8. /\ StageInv' /\ SentinelInv' /\ NoFalseLoss' /\ ResultIsOwnUnlessMixed'
      /\ EndsInv' /\ ErrorsInv' /\ ResultsInv' /\ StartedInv'
  BY <1>0, <1>v, <1>w, <1>e, <1>7, SatelliteSays
<1>9. SendsInv' /\ StartsInv' /\ StopInv'
  BY <1>v, <1>w DEF IInv, SendsInv, StartsInv, StopInv, Early, Open
<1> QED
  BY <1>1, <1>2, <1>3, <1>4, <1>5, <1>6, <1>8, <1>9 DEF IInv

\* The process is gone, after an abort or by itself: the turns that had a
\* task are cut, and no prompt is loose any more.
LEMMA GoneIInv == ASSUME IInv, CliDies \/ CliCrashes PROVE IInv'
<1>0. /\ proc # "dead" /\ proc' = "dead" /\ on' = 0 /\ stdin' = <<>>
      /\ cut' = cut \cup {c \in Turns : handler[c] \in {"lock", "read"}}
      /\ loose' = {c \in loose : handler[c] = "none"}
      /\ \/ up' = Append(up, Frame("aborted", 0)) /\ crashes' = crashes
         \/ up' = up /\ crashes < MaxCrashes /\ crashes' = crashes + 1
      /\ UNCHANGED <<turnVars, linked, down, satVars, out, drops, stops, starts, mixed, pressed>>
  BY DEF CliDies, CliCrashes, Gone
<1>v. UNCHANGED <<handler, reader, stop, out, mixed, pressed, starts, stage, cur, killed, dead, rec,
                  linked, down>>
  BY <1>0 DEF satVars, turnVars
<1>w. \A d \in Turns : Written(d)' = Written(d) /\ Serves(d)' = Serves(d)
  BY <1>v DEF Written, Serves
<1>e. Range(stdin') = {} /\ Content' \subseteq Content
  BY <1>0 DEF Content, Range
<1>u. up' \in Seq(Frames) /\ \A x \in Range(up') : x \in Range(up) \/ x = Frame("aborted", 0)
  <2>1. CASE up' = up
    BY <2>1 DEF IInv, TypeOK
  <2>2. CASE up' = Append(up, Frame("aborted", 0))
    BY <2>2, UpAppend, FrameType, TurnBoundsAssumption
  <2> QED BY <1>0, <2>1, <2>2
<1>1. TypeOK'
  <2>1. UNCHANGED <<q, armed, rec, watch, outcome, place, answer, drops, stops>>
    BY <1>0 DEF turnVars
  <2>2. /\ proc' \in {"alive", "dying", "dead"} /\ on' \in 0..MaxTurns /\ stdin' \in Seq(Turns)
        /\ cut' \in SUBSET Turns /\ loose' \in SUBSET Turns
    BY <1>0, TurnBoundsAssumption DEF IInv, TypeOK
  <2>3. crashes' \in 0..MaxCrashes
    BY <1>0, TurnBoundsAssumption DEF IInv, TypeOK
  <2>4. up' \in Seq(Frames)
    BY <1>u
  <2> QED BY <1>v, <2>1, <2>2, <2>3, <2>4 DEF IInv, TypeOK
<1>2. HandlerInv'
  BY <1>v, <1>w DEF IInv, HandlerInv
<1>3. DeadInv'
  BY <1>0, <1>w DEF DeadInv, Serves
<1>4. PromptsInv'
  <2>1. Distinct(stdin')
    BY <1>0 DEF Distinct
  <2>2. on' \notin Range(stdin') \cup Range(out')
    <3>1. Range(out) \subseteq Turns
      BY RangeFacts DEF IInv, TypeOK
    <3> QED BY <1>0, <1>v, <1>e, <3>1 DEF Turns
  <2> QED BY <1>v, <1>w, <1>e, <2>1, <2>2 DEF IInv, PromptsInv
<1>5. WorkInv'
  BY <1>0, <1>v DEF IInv, WorkInv
<1>6. ReaderInv'
  BY <1>v, <1>e DEF IInv, ReaderInv
<1>7. Fresh => Fresh'
  BY <1>v, <1>e, <1>w DEF Fresh
<1>8. /\ StageInv' /\ SentinelInv' /\ NoFalseLoss' /\ ResultIsOwnUnlessMixed'
      /\ EndsInv' /\ ErrorsInv' /\ ResultsInv' /\ StartedInv'
  <2>1. NewFrame(Frame("aborted", 0))
    BY FrameType, TurnBoundsAssumption DEF NewFrame
  <2> QED BY <1>0, <1>v, <1>w, <1>e, <1>u, <1>7, <2>1, SatelliteSays
<1>9. /\ SendsInv' /\ StartsInv'
      /\ Early /\ ~killed => \A i \in 1..Len(down') : down'[i].k = "stop" =>
             \E j \in 1..Len(down') : i < j /\ down'[j].k = "send" /\ down'[j].c = cur
  <2>1. \A i \in 1..Len(down) : i > 0 /\ down[i].k = "send" =>
            \A d \in Turns : down[i].c <= d => handler'[d] = "none"
    BY <1>v DEF IInv, SendsInv
  <2>2. /\ \A i \in 1..Len(down') : i + 0 \in 1..Len(down) /\ down'[i] = down[i + 0]
        /\ \A i \in 1..Len(down) : i - 0 \in 1..Len(down') /\ down'[i - 0] = down[i]
    BY <1>v, KeepsFacts
  <2> QED BY <1>0, <1>v, <2>1, <2>2, SatelliteTakes
<1>10. StopInv'
  BY <1>v, <1>9 DEF IInv, StopInv, Early
<1> QED
  BY <1>1, <1>2, <1>3, <1>4, <1>5, <1>6, <1>8, <1>9, <1>10 DEF IInv
\* The ends of the tasks that a start closes, in any order.
LEMMA EndsSequence ==
    ASSUME NEW S \in SUBSET Turns
    PROVE  LET E == {Frame("end", c) : c \in S} IN
           SetToSeq(E) \in Seq(Frames) /\ Range(SetToSeq(E)) \subseteq E
<1> DEFINE E == {Frame("end", c) : c \in S}
           f == [c \in S |-> Frame("end", c)]
<1>1. IsFiniteSet(S)
  <2>1. IsFiniteSet(1..MaxTurns)
    BY FS_Interval, TurnBoundsAssumption
  <2> QED BY <2>1, FS_Subset DEF Turns
<1>2. f \in Surjection(S, E)
  BY DEF Surjection
<1>3. IsFiniteSet(E)
  <2> HIDE DEF f, E
  <2> QED BY <1>1, <1>2, FS_Surjection
<1>4. E \subseteq Frames
  <2>1. \A c \in S : c \in 0..MaxTurns
    BY TurnBoundsAssumption DEF Turns
  <2> QED BY <2>1, FrameType
<1> HIDE DEF E
<1>5. SetToSeq(E) \in Seq(E) /\ Range(SetToSeq(E)) \subseteq E
  BY <1>3, SetToSeqFacts
<1>6. SetToSeq(E) \in Seq(Frames)
  BY <1>4, <1>5
<1> QED BY <1>5, <1>6 DEF E

\* A start: the tasks of the old session end, cut, and the process is fresh.
LEMMA TakeStartIInv == ASSUME IInv, TakeStart PROVE IInv'
<1>s. PICK S \in SUBSET Turns : S = {c \in Turns : handler[c] \in {"lock", "read"}}
  OBVIOUS
<1>n. PICK n : n = Head(down).c
  OBVIOUS
<1>E. PICK E : E = {Frame("end", c) : c \in S}
  OBVIOUS
<1>0. /\ cut' = cut \cup S
      /\ loose' = {c \in loose : handler[c] = "none"}
      /\ proc' = "alive" /\ stdin' = <<>> /\ on' = 0 /\ out' = <<>>
      /\ reader' = 0 /\ stop' = FALSE
      /\ handler' = [c \in Turns |->
                       IF handler[c] \in {"lock", "read"} THEN "gone" ELSE handler[c]]
      /\ up' = Append(up \o SetToSeq(E), Frame("started", n))
      /\ UNCHANGED <<turnVars, linked, countVars, mixed, pressed>>
  BY <1>s, <1>n, <1>E DEF TakeStart
<1>v. UNCHANGED <<starts, stage, cur, killed, dead, rec>>
  BY <1>0 DEF countVars, turnVars
<1>d. /\ 1 \in 1..Len(down) /\ down[1].k = "start" /\ down' \in Seq(Frames)
      /\ Head(down) = down[1]
      /\ \A i \in 1..Len(down') : i + 1 \in 1..Len(down) /\ down'[i] = down[i + 1]
      /\ \A i \in 1..Len(down) : i > 1 => i - 1 \in 1..Len(down') /\ down'[i - 1] = down[i]
  <2>1. Takes("start")
    BY DEF TakeStart
  <2> QED BY <2>1, TakesFacts
<1>b. /\ n \in 1..starts /\ n \in 0..MaxTurns
      /\ \A i \in 1..Len(down) : i > 1 =>
             down[i].k # "send" /\ (down[i].k = "start" => n < down[i].c /\ down[i].c \in 1..starts)
  <2>1. n \in 1..starts
    BY <1>n, <1>d DEF IInv, StartsInv
  <2>2. starts \in 0..MaxTurns /\ starts \in Int
    BY TurnBoundsAssumption DEF IInv, TypeOK
  <2>3. n \in 0..MaxTurns
    BY <2>1, <2>2, TurnBoundsAssumption
  <2>4. ASSUME NEW i \in 1..Len(down), i > 1
        PROVE  down[i].k # "send" /\ (down[i].k = "start" => n < down[i].c /\ down[i].c \in 1..starts)
    <3>1. 1 < i
      BY <2>4
    <3> QED BY <3>1, <1>n, <1>d DEF IInv, StartsInv
  <2> QED BY <2>1, <2>3, <2>4
<1>h. /\ handler' \in [Turns -> {"none", "lock", "read", "gone"}]
      /\ \A c \in Turns : /\ handler'[c] \in {"none", "gone"}
                          /\ handler'[c] = "none" <=> handler[c] = "none"
                          /\ handler[c] = "gone" => handler'[c] = "gone"
  BY <1>0 DEF IInv, TypeOK
<1>w. \A c \in Turns : (Written(c) => Written(c)') /\ ~Serves(c)'
  BY <1>h DEF Written, Serves
<1>e. Content' = {}
  BY <1>0 DEF Content, Range
<1>f. /\ Frame("started", n) \in Frames
      /\ Frame("started", n).k = "started" /\ Frame("started", n).c = n
  BY <1>b, FrameType
<1>u. /\ up' \in Seq(Frames)
      /\ \A x \in Range(up') : x \in Range(up) \/ x \in E \/ x = Frame("started", n)
  <2> DEFINE t == SetToSeq(E)
  <2>1. t \in Seq(Frames) /\ Range(t) \subseteq E
    BY <1>E, EndsSequence
  <2> HIDE DEF t
  <2>2. up \in Seq(Frames)
    BY DEF IInv, TypeOK
  <2>3. up \o t \in Seq(Frames) /\ Range(up \o t) \subseteq Range(up) \cup Range(t)
    BY <2>1, <2>2, ConcatFacts
  <2> DEFINE r == up \o t
  <2>4. r \in Seq(Frames) /\ Range(r) \subseteq Range(up) \cup Range(t)
    BY <2>3
  <2>5. up' = Append(r, Frame("started", n))
    BY <1>0 DEF t
  <2> HIDE DEF r
  <2>6. /\ Append(r, Frame("started", n)) \in Seq(Frames)
        /\ Range(Append(r, Frame("started", n))) = Range(r) \cup {Frame("started", n)}
    BY <1>f, <2>4, AppendFacts
  <2> QED BY <2>1, <2>4, <2>5, <2>6
<1>1. TypeOK'
  <2>1. UNCHANGED <<q, armed, rec, watch, outcome, place, answer, linked, drops, stops, crashes,
                    mixed, pressed>>
    BY <1>0 DEF turnVars, countVars
  <2>2. /\ proc' \in {"alive", "dying", "dead"} /\ on' \in 0..MaxTurns
        /\ stdin' \in Seq(Turns) /\ out' \in Seq(Turns)
        /\ reader' \in 0..MaxTurns /\ stop' \in BOOLEAN
    <3>1. 0 \in 0..MaxTurns /\ <<>> \in Seq(Turns)
      BY TurnBoundsAssumption
    <3> QED BY <3>1, <1>0
  <2>5. cut' \in SUBSET Turns /\ loose' \in SUBSET Turns
    BY <1>0 DEF IInv, TypeOK
  <2>3. handler' \in [Turns -> {"none", "lock", "read", "gone"}] /\ up' \in Seq(Frames)
    BY <1>h, <1>u
  <2>4. down' \in Seq(Frames)
    BY <1>d
  <2> QED BY <1>v, <2>1, <2>2, <2>3, <2>4, <2>5 DEF IInv, TypeOK
<1>2. HandlerInv'
  BY <1>0, <1>v, <1>h, <1>w DEF IInv, HandlerInv
<1>3. DeadInv' /\ ReaderInv'
  BY <1>0 DEF DeadInv, ReaderInv
<1>4. PromptsInv'
  <2>1. Distinct(stdin') /\ Distinct(out')
    BY <1>0 DEF Distinct
  <2>2. Range(stdin') = {} /\ Range(out') = {}
    BY <1>0 DEF Range
  <2> QED BY <1>e, <2>1, <2>2 DEF PromptsInv
<1>5. WorkInv'
  <2>1. loose' \subseteq 1..cur
    BY <1>0 DEF IInv, WorkInv
  <2> QED BY <1>v, <1>h, <1>e, <2>1 DEF WorkInv
<1>6. ~Fresh
  BY <1>d DEF Fresh
<1>7. /\ StageInv' /\ SentinelInv' /\ NoFalseLoss' /\ ResultIsOwnUnlessMixed'
      /\ EndsInv' /\ ErrorsInv' /\ ResultsInv' /\ StartedInv'
  <2>1. ASSUME NEW x \in E PROVE NewFrame(x)
    <3>1. PICK c \in S : x = Frame("end", c)
      BY <1>E, <2>1
    <3>2. c \in 0..MaxTurns /\ c <= cur
      BY <1>s, TurnBoundsAssumption DEF IInv, HandlerInv, Turns
    <3>3. x.k = "end" /\ x.c = c
      BY <3>1, <3>2, FrameType
    <3> QED BY <1>0, <3>2, <3>3 DEF NewFrame
  <2>2. ASSUME n = starts PROVE Fresh'
    <3>1. \A i \in 1..Len(down') : down'[i].k \notin {"start", "send"}
      <4> SUFFICES ASSUME NEW i \in 1..Len(down') PROVE down'[i].k \notin {"start", "send"}
        OBVIOUS
      <4>1. i + 1 \in 1..Len(down) /\ i + 1 > 1 /\ down'[i] = down[i + 1]
        BY <1>d
      <4>2. starts \in Int
        BY TurnBoundsAssumption DEF IInv, TypeOK
      <4> QED BY <1>b, <2>2, <4>1, <4>2
    <3> QED BY <1>e, <1>w, <3>1 DEF Fresh
  <2>3. n <= starts
    BY <1>b
  <2>4. NewFrame(Frame("started", n))
    BY <1>f, <2>2, <2>3 DEF NewFrame
  <2>5. \A x \in Range(up') : x \in Range(up) \/ NewFrame(x)
    BY <1>u, <2>1, <2>4
  <2>6. cut \subseteq cut' /\ mixed \subseteq mixed'
    BY <1>0
  <2> QED BY <1>0, <1>v, <1>w, <1>h, <1>e, <1>6, <2>5, <2>6, SatelliteSays
<1>8. SendsInv' /\ StartsInv'
  <2>1. \A i \in 1..Len(down) : i > 1 /\ down[i].k = "send" =>
            \A d \in Turns : down[i].c <= d => handler'[d] = "none"
    BY <1>b
  <2>2. \A c \in loose : handler[c] = "none" => c \in loose'
    BY <1>0
  <2> QED BY <1>0, <1>v, <1>d, <2>1, <2>2, SatelliteTakes
<1>9. StopInv'
  <2>1. Early /\ ~killed => \A i \in 1..Len(down') : down'[i].k = "stop" =>
            \E j \in 1..Len(down') : i < j /\ down'[j].k = "send" /\ down'[j].c = cur
    <3>1. \A i \in 1..Len(down) : i > 1 /\ down[i].k = "send" =>
              \A d \in Turns : down[i].c <= d => handler'[d] = "none"
      BY <1>b
    <3>2. \A c \in loose : handler[c] = "none" => c \in loose'
      BY <1>0
    <3> QED BY <1>0, <1>v, <1>d, <3>1, <3>2, SatelliteTakes
  <2> QED BY <1>0, <1>v, <2>1 DEF StopInv, Early
<1> QED
  BY <1>1, <1>2, <1>3, <1>4, <1>5, <1>7, <1>8, <1>9 DEF IInv
-----------------------------------------------------------------------------
(* The theorems *)

LEMMA StutterIInv == ASSUME IInv, UNCHANGED vars PROVE IInv'
<1>v. UNCHANGED <<stage, cur, q, armed, killed, dead, rec, watch, outcome, place, answer,
                  linked, down, up, handler, reader, stop, proc, stdin, on, out,
                  drops, stops, crashes, starts, cut, loose, mixed, pressed>>
  BY DEF vars, turnVars, linkVars, satVars, cliVars, countVars, pastVars
<1>w. /\ Content' = Content /\ Coming' = Coming /\ Early' = Early /\ Fresh' = Fresh
      /\ \A c \in Turns : Written(c)' = Written(c) /\ Serves(c)' = Serves(c) /\ Open(c)' = Open(c)
  BY <1>v DEF Content, Coming, Early, Fresh, Written, Serves, Open
<1>1. TypeOK'
  BY <1>v DEF IInv, TypeOK
<1>2. StageInv' /\ HandlerInv' /\ SendsInv' /\ StartsInv' /\ StopInv' /\ DeadInv'
  BY <1>v DEF IInv, StageInv, HandlerInv, SendsInv, StartsInv, StopInv, DeadInv,
              Written, Serves, Open, Early
<1>3. EndsInv' /\ SentinelInv' /\ ErrorsInv' /\ ResultsInv' /\ StartedInv'
  BY <1>v, <1>w DEF IInv, EndsInv, SentinelInv, ErrorsInv, ResultsInv, StartedInv, Written
<1>4. PromptsInv' /\ WorkInv' /\ ReaderInv'
  BY <1>v, <1>w DEF IInv, PromptsInv, WorkInv, ReaderInv, Written, Open, Early
<1>5. NoFalseLoss' /\ ResultIsOwnUnlessMixed'
  BY <1>v DEF IInv, NoFalseLoss, ResultIsOwnUnlessMixed
<1> QED
  BY <1>1, <1>2, <1>3, <1>4, <1>5 DEF IInv

LEMMA NextIInv == ASSUME IInv, [Next]_vars PROVE IInv'
<1>1. CASE Producer
  BY <1>1, StartFailsIInv, SendTurnIInv, SendTimesOutIInv, StreamReadsIInv,
     StreamSilentIInv, DrainIInv DEF Producer
<1>2. CASE Person
  BY <1>2, BeginIInv, StopSoftIInv, StopHardIInv DEF Person
<1>3. CASE \E c \in Turns : WatchdogEnds(c)
  BY <1>3, WatchdogEndsIInv
<1>4. CASE FramesIn
  BY <1>4, FrameQueuedIInv, FrameAckIInv, FrameStartedIInv, FrameAbortedIInv DEF FramesIn
<1>5. CASE Link
  BY <1>5, DropIInv, ReconnectReapIInv, ExpireIInv DEF Link
<1>6. CASE Satellite
  BY <1>6, TakeStartIInv, TakeSendIInv, SignalsIInv, TakeLockIInv, LockTimesOutIInv,
     ReadLineIInv, ReaderEndsIInv DEF Satellite
<1>7. CASE Cli
  BY <1>7, CliWorksIInv, GoneIInv DEF Cli
<1>8. CASE UNCHANGED vars
  BY <1>8, StutterIInv
<1> QED
  BY <1>1, <1>2, <1>3, <1>4, <1>5, <1>6, <1>7, <1>8 DEF Next

LEMMA Invariance == Spec => []IInv
<1>1. Init => IInv
  BY InitIInv
<1>2. IInv /\ [Next]_vars => IInv'
  BY NextIInv
<1> QED BY <1>1, <1>2, PTL DEF Spec

\* The variables keep their types: every queue holds frames of the protocol
\* and every bound is kept, on both sides of the link.
THEOREM TypeCorrect == Spec => []TypeOK
<1>1. IInv => TypeOK
  BY DEF IInv
<1> QED BY <1>1, Invariance, PTL

\* A turn is reported lost only when its process died or its prompt was not
\* written: neither a reader that an earlier turn's stop ends nor a sentinel
\* left in the queue loses it.
THEOREM LossIsReal == Spec => []NoFalseLoss
<1>1. IInv => NoFalseLoss
  BY DEF IInv
<1> QED BY <1>1, Invariance, PTL

\* The result that ends a turn answers that turn's prompt, unless the turn
\* was sent to a process that may still run one the proxy gave up.
THEOREM ResultAnswersPrompt == Spec => []ResultIsOwnUnlessMixed
<1>1. IInv => ResultIsOwnUnlessMixed
  BY DEF IInv
<1> QED BY <1>1, Invariance, PTL

-----------------------------------------------------------------------------
(* What an abort may still reach *)

\* The process is being killed, or a frame that kills it is on its way.
Aborting == proc = "dying" \/ \E i \in 1..Len(down) : down[i].k = "abort"

\* A turn that an abort may still reach was stopped: before a session counts as
\* alive, and while a turn waits to be sent, no abort is left anywhere, because the
\* start it waits for stands behind every one of them.
AbortInv ==
    /\ watch \subseteq pressed
    /\ stage \in {"sent", "stream", "drain"} /\ Aborting => cur \in pressed
    /\ ~dead \/ stage = "wait" => ~Aborting
    /\ stage = "start" =>
           /\ \A m \in Range(up) : m.k = "started" /\ m.c = starts => ~Aborting
           /\ \A i, j \in 1..Len(down) :
                  down[i].k = "start" /\ down[i].c = starts /\ i < j => down[j].k # "abort"

\* A step that sends no abort, starts no waiting and no turn.
LEMMA NothingAborts ==
    ASSUME IInv, AbortInv,
           Aborting' => Aborting,
           watch' \subseteq pressed', pressed \subseteq pressed',
           stage' # stage =>
               \/ stage' = "idle"
               \/ stage \in {"sent", "stream"} /\ stage' \in {"stream", "drain"},
           cur' = cur, dead => dead', starts' = starts,
           stage = "start" =>
               /\ \A m \in Range(up') : m.k = "started" /\ m.c = starts =>
                      m \in Range(up) \/ ~Aborting'
               /\ \A i, j \in 1..Len(down') :
                      down'[i].k = "start" /\ down'[i].c = starts /\ i < j => down'[j].k # "abort"
    PROVE  AbortInv'
<1>1. stage' \in {"sent", "stream", "drain"} /\ Aborting' => cur' \in pressed'
  BY DEF AbortInv
<1>2. ~dead' \/ stage' = "wait" => ~Aborting'
  BY DEF AbortInv
<1>3. stage' = "start" => stage = "start"
  OBVIOUS
<1> QED BY <1>1, <1>2, <1>3 DEF AbortInv

\* A step that leaves the frames to the satellite and its process alone.
LEMMA SameDown ==
    ASSUME UNCHANGED <<proc, down>>
    PROVE  Aborting' = Aborting
  BY DEF Aborting

\* A command taken: what stands behind it keeps its order.
LEMMA TakenDown ==
    ASSUME IInv, AbortInv, NEW kind, Takes(kind)
    PROVE  /\ \A i \in 1..Len(down') : down'[i].k = "abort" => Aborting
           /\ stage = "start" => \A i, j \in 1..Len(down') :
                  down'[i].k = "start" /\ down'[i].c = starts /\ i < j => down'[j].k # "abort"
<1>1. \A i \in 1..Len(down') : i + 1 \in 1..Len(down) /\ down'[i] = down[i + 1]
  BY TakesFacts
<1>2. ASSUME stage = "start", NEW i \in 1..Len(down'), NEW j \in 1..Len(down'), i < j,
             down'[i].k = "start", down'[i].c = starts
      PROVE  down'[j].k # "abort"
  <2> DEFINE a == i + 1
             b == j + 1
  <2>1. /\ a \in 1..Len(down) /\ b \in 1..Len(down) /\ a < b
        /\ down'[i] = down[a] /\ down'[j] = down[b]
    BY <1>1, <1>2
  <2> HIDE DEF a, b
  <2> QED BY <1>2, <2>1 DEF AbortInv
<1> QED BY <1>1, <1>2 DEF Aborting

\* A frame that the proxy adds, other than an abort and a start.
LEMMA AddedDown ==
    ASSUME IInv, NEW f \in Frames, f.k # "abort", down' = Sent(<<f>>), proc' = proc
    PROVE  Aborting' => Aborting
<1> DEFINE s == <<f>>
<1>1. s \in Seq(Frames) /\ Len(s) = 1 /\ s[1] = f /\ down' = Sent(s) /\ down \in Seq(Frames)
  BY DEF IInv, TypeOK
<1> HIDE DEF s
<1>2. \A i \in 1..Len(down') :
          \/ i \in 1..Len(down) /\ down'[i] = down[i]
          \/ i - Len(down) \in 1..Len(s) /\ down'[i] = s[i - Len(down)]
  BY <1>1, SentFacts
<1>3. \A i \in 1..Len(s) : s[i] = f
  BY <1>1
<1> QED BY <1>2, <1>3 DEF Aborting

\* The steps of a turn's producer.
LEMMA ProducerAborts == ASSUME IInv, AbortInv, Producer PROVE AbortInv'
<1>1. CASE StartFails \/ SendTimesOut \/ DrainReads \/ DrainTimesOut
  <2>1. UNCHANGED <<cur, dead, watch, pressed, starts, proc, down, up>>
    BY <1>1 DEF StartFails, SendTimesOut, DrainReads, DrainTimesOut,
                linkVars, cliVars, countVars, pastVars
  <2>2. stage' # stage => stage' = "idle"
    BY <1>1 DEF StartFails, SendTimesOut, DrainReads, DrainTimesOut, Ends
  <2> QED BY <2>1, <2>2, SameDown, NothingAborts DEF AbortInv
<1>2. CASE SendTurn
  <2>1. /\ stage = "wait" /\ stage' \in {"sent", "idle"} /\ proc' = proc
        /\ down' = Sent(<<Frame("send", cur + 1)>>)
        /\ UNCHANGED <<watch, pressed>>
    BY <1>2 DEF SendTurn, cliVars, pastVars
  <2>2. cur + 1 \in 0..MaxTurns
    BY <2>1, TurnBoundsAssumption DEF IInv, TypeOK, StageInv
  <2>3. Aborting' => Aborting
    BY <2>1, <2>2, FrameType, AddedDown
  <2> QED BY <2>1, <2>3 DEF AbortInv
<1>3. CASE StreamReads
  <2>1. /\ stage = "stream" /\ stage' \in {"stream", "drain", "idle"}
        /\ UNCHANGED <<cur, watch, pressed, starts, proc, up>>
        /\ dead => dead'
        /\ down' = down \/ down' = Sent(<<Frame("stop", 0)>>)
    <3>1. stage = "stream" /\ UNCHANGED <<cur, watch, pressed, starts, proc, up>>
      BY <1>3 DEF StreamReads, cliVars, countVars
    <3>2. stage' \in {"stream", "drain", "idle"}
      BY <1>3 DEF StreamReads, Ends
    <3>3. dead => dead'
      BY <1>3 DEF StreamReads
    <3>4. down' = down \/ down' = Sent(<<Frame("stop", 0)>>)
      BY <1>3 DEF StreamReads
    <3> QED BY <3>1, <3>2, <3>3, <3>4
  <2>2. Aborting' => Aborting
    <3>1. Frame("stop", 0) \in Frames /\ Frame("stop", 0).k # "abort"
      BY FrameType, TurnBoundsAssumption
    <3> QED BY <2>1, <3>1, SameDown, AddedDown
  <2> QED BY <2>1, <2>2, NothingAborts DEF AbortInv
<1>4. CASE StreamSilent
  <2>1. /\ HardAbort(<<Frame("stop", 0)>>) /\ stage' = "idle" /\ UNCHANGED <<watch, pressed>>
    BY <1>4 DEF StreamSilent, Ends, pastVars
  <2>2. dead' = TRUE
    BY <2>1 DEF HardAbort, IInv, TypeOK, StageInv
  <2> QED BY <2>1, <2>2 DEF AbortInv
<1> QED BY <1>1, <1>2, <1>3, <1>4 DEF Producer

\* A message and the two ways of Stop.
LEMMA PersonAborts == ASSUME IInv, AbortInv, Person PROVE AbortInv'
<1>1. CASE Begin /\ ~dead
  BY <1>1, SameDown DEF Begin, AbortInv, cliVars, pastVars
<1>2. CASE Begin /\ dead
  <2>0. /\ starts' = starts + 1 /\ stage' = "start" /\ dead' = dead
        /\ down' = Sent(<<Frame("start", starts + 1)>>)
        /\ UNCHANGED <<watch, pressed, up>>
    BY <1>2 DEF Begin, pastVars
  <2>s. starts \in Nat /\ starts + 1 \in 0..MaxTurns
    BY <1>2, TurnBoundsAssumption DEF Begin, IInv, TypeOK
  <2> DEFINE e == Frame("start", starts + 1)
             s == <<e>>
  <2>e. e \in Frames /\ e.k = "start" /\ e.c = starts + 1
    BY <2>s, FrameType
  <2> HIDE DEF e
  <2>f. s \in Seq(Frames) /\ Len(s) = 1 /\ s[1] = e /\ down' = Sent(s) /\ down \in Seq(Frames)
    BY <2>0, <2>e DEF e, IInv, TypeOK
  <2> HIDE DEF s
  <2>d. /\ Len(down) \in Nat
        /\ \A i \in 1..Len(down') :
               \/ i \in 1..Len(down) /\ down'[i] = down[i]
               \/ i - Len(down) \in 1..Len(s) /\ down'[i] = s[i - Len(down)]
    BY <2>f, SentFacts
  <2>1. ASSUME NEW i \in 1..Len(down'), NEW j \in 1..Len(down'), i < j,
               down'[i].k = "start", down'[i].c = starts'
        PROVE  down'[j].k # "abort"
    <3>1. ~(i \in 1..Len(down) /\ down'[i] = down[i])
      BY <2>0, <2>1, <2>s DEF IInv, StartsInv
    <3>2. i = Len(down) + 1
      BY <2>d, <2>f, <3>1
    <3>3. FALSE
      BY <2>1, <2>d, <2>f, <3>2
    <3> QED BY <3>3
  <2>2. \A m \in Range(up') : m.k = "started" => m.c # starts'
    <3>1. \A m \in Range(up) : m \in Frames
      BY RangeFacts DEF IInv, TypeOK
    <3>2. \A m \in Frames : m.c \in Int
      BY DEF Frames
    <3>3. \A m \in Range(up) : m.k = "started" => m.c <= starts
      BY DEF IInv, StartedInv
    <3>4. \A x \in Int : x <= starts => x # starts'
      BY <2>0, <2>s
    <3> QED BY <2>0, <3>1, <3>2, <3>3, <3>4
  <2> QED BY <1>2, <2>0, <2>1, <2>2 DEF AbortInv
<1>3. CASE StopSoft
  <2>1. /\ stage \in {"stream", "drain"} /\ proc' = proc
        /\ down' = Sent(<<Frame("interrupt", 0)>>)
        /\ watch' = watch \cup {cur} /\ pressed' = pressed \cup {cur}
        /\ UNCHANGED <<stage, cur, dead, starts, up>>
    BY <1>3 DEF StopSoft, Live, cliVars
  <2>2. Frame("interrupt", 0) \in Frames /\ Frame("interrupt", 0).k # "abort"
    BY FrameType, TurnBoundsAssumption
  <2>3. Aborting' => Aborting
    BY <2>1, <2>2, AddedDown
  <2> QED BY <2>1, <2>3, NothingAborts DEF AbortInv
<1>4. CASE StopHard
  <2>1. HardAbort(<<>>) /\ stage' = "idle" /\ watch' = watch /\ pressed \subseteq pressed'
    BY <1>4 DEF StopHard
  <2>2. dead' = TRUE
    BY <2>1 DEF HardAbort, IInv, TypeOK, StageInv
  <2> QED BY <2>1, <2>2 DEF AbortInv
<1> QED BY <1>1, <1>2, <1>3, <1>4 DEF Person

\* The watchdog kills only the turn it is pinned to, which somebody stopped.
LEMMA WatchdogAborts == ASSUME IInv, AbortInv, NEW c \in Turns, WatchdogEnds(c) PROVE AbortInv'
<1>0. c \in watch /\ watch' = watch \ {c} /\ UNCHANGED <<stage, cur, starts, up, pressed, proc>>
  BY DEF WatchdogEnds, cliVars, countVars, pastVars
<1>1. CASE Pinned(c)
  <2>1. stage \in {"stream", "drain"} /\ cur = c /\ HardAbort(<<>>)
    BY <1>1 DEF WatchdogEnds, Pinned, Live
  <2>2. dead' = TRUE
    BY <2>1 DEF HardAbort, IInv, TypeOK, StageInv
  <2> QED BY <1>0, <2>1, <2>2 DEF AbortInv
<1>2. CASE ~Pinned(c)
  <2>1. UNCHANGED <<dead, down>>
    BY <1>2 DEF WatchdogEnds
  <2> QED BY <1>0, <2>1, SameDown, NothingAborts DEF AbortInv
<1> QED BY <1>1, <1>2

\* Frames that arrive: only the ack of the start makes a session alive.
LEMMA FramesInAborts == ASSUME IInv, AbortInv, FramesIn PROVE AbortInv'
<1>0. up # <<>> /\ up' = Tail(up) /\ UNCHANGED <<watch, pressed, cur, starts, proc, down>>
  BY DEF FramesIn, FrameQueued, FrameAck, FrameStarted, FrameAborted, cliVars, countVars, pastVars
<1>u. Range(up') \subseteq Range(up) /\ Head(up) \in Range(up)
  BY <1>0, UpHead
<1>a. Aborting' = Aborting
  BY <1>0, SameDown
<1>1. CASE FrameStarted /\ stage = "start" /\ Head(up).c = starts
  <2>1. stage' = "wait" /\ ~Aborting
    BY <1>1, <1>u DEF FrameStarted, AbortInv
  <2> QED BY <1>0, <1>a, <2>1 DEF AbortInv
<1>2. CASE ~(FrameStarted /\ stage = "start" /\ Head(up).c = starts)
  <2>1. /\ dead => dead'
        /\ stage' # stage => stage' = "idle" \/ (stage = "sent" /\ stage' = "stream")
    BY <1>2 DEF FramesIn, FrameQueued, FrameAck, FrameStarted, FrameAborted, Ends
  <2> QED BY <1>0, <1>u, <1>a, <2>1, NothingAborts DEF AbortInv
<1> QED BY <1>1, <1>2

\* The link.
LEMMA LinkAborts == ASSUME IInv, AbortInv, Link PROVE AbortInv'
<1>1. CASE Drop
  <2>1. /\ down' = <<>> /\ UNCHANGED <<cur, dead, watch, pressed, starts, proc>>
        /\ stage' # stage => stage' = "idle"
    BY <1>1 DEF Drop, cliVars
  <2>2. Range(up') \subseteq Range(up)
    BY <1>1, DropUp
  <2>3. \A i \in 1..Len(down') : FALSE
    BY <2>1
  <2>4. Aborting' => Aborting
    BY <2>1, <2>3 DEF Aborting
  <2> QED BY <2>1, <2>2, <2>3, <2>4, NothingAborts DEF AbortInv
<1>2. CASE Reconnect \/ Expire \/ Reap
  <2>1. /\ UNCHANGED <<stage, cur, watch, pressed, starts, proc, down, up>>
        /\ dead => dead'
    BY <1>2 DEF Reconnect, Expire, Reap, linkVars, cliVars, countVars, pastVars
  <2> QED BY <2>1, SameDown, NothingAborts DEF AbortInv
<1> QED BY <1>1, <1>2 DEF Link

\* The satellite: the ack of a start says that every abort before it was taken.
LEMMA SatelliteAborts == ASSUME IInv, AbortInv, Satellite PROVE AbortInv'
<1>0. UNCHANGED <<stage, cur, dead, watch, pressed, starts>>
  BY DEF Satellite, TakeStart, TakeSend, TakeStop, TakeInterrupt, TakeAbort, TakeLock,
         LockTimesOut, ReadLine, ReaderEnds, turnVars, countVars, pastVars
<1>1. CASE TakeStart
  <2> DEFINE n == Head(down).c
             S == {d \in Turns : handler[d] \in {"lock", "read"}}
             E == {Frame("end", c) : c \in S}
             r == up \o SetToSeq(E)
  <2>1. Takes("start") /\ proc' = "alive" /\ up' = Append(r, Frame("started", n))
    BY <1>1 DEF TakeStart
  <2>2. /\ 1 \in 1..Len(down) /\ Head(down) = down[1] /\ down[1].k = "start"
        /\ \A i \in 1..Len(down') : i + 1 \in 1..Len(down) /\ down'[i] = down[i + 1]
        /\ n \in 0..MaxTurns
    <3>1. /\ Head(down) = down[1] /\ 1 \in 1..Len(down) /\ Head(down) \in Frames
          /\ down[1].k = "start"
          /\ \A i \in 1..Len(down') : i + 1 \in 1..Len(down) /\ down'[i] = down[i + 1]
      BY <2>1, TakesFacts
    <3> QED BY <3>1 DEF Frames
  <2>3. \A m \in Range(up') : m \in Range(up) \/ m.k = "end" \/ m = Frame("started", n)
    <3> DEFINE s == SetToSeq(E)
    <3>0. s \in Seq(Frames) /\ Range(s) \subseteq E /\ up \in Seq(Frames) /\ r = up \o s
      BY EndsSequence DEF IInv, TypeOK
    <3> HIDE DEF r, s, E
    <3>1. r \in Seq(Frames) /\ \A m \in Range(r) : m \in Range(up) \/ m \in E
      BY <3>0, ConcatFacts
    <3>2. \A m \in E : m.k = "end"
      BY DEF E, Frame
    <3>3. Frame("started", n) \in Frames
      BY <2>2, FrameType
    <3> HIDE DEF n
    <3>4. Range(up') = Range(r) \cup {Frame("started", n)}
      BY <2>1, <3>1, <3>3, AppendFacts
    <3> QED BY <3>1, <3>2, <3>4
  <2>4. Aborting' => Aborting
    BY <2>1, TakenDown DEF Aborting
  <2>5. stage = "start" /\ n = starts => ~Aborting'
    <3> SUFFICES ASSUME stage = "start", n = starts, NEW i \in 1..Len(down')
                 PROVE  down'[i].k # "abort"
      BY <2>1 DEF Aborting
    <3>1. i + 1 \in 1..Len(down) /\ 1 < i + 1 /\ down'[i] = down[i + 1]
      BY <2>2
    <3> QED BY <2>2, <3>1 DEF AbortInv
  <2>6. Frame("started", n).c = n
    BY <2>2, FrameType
  <2>7. stage = "start" =>
            /\ \A m \in Range(up') : m.k = "started" /\ m.c = starts =>
                   m \in Range(up) \/ ~Aborting'
            /\ \A i, j \in 1..Len(down') :
                   down'[i].k = "start" /\ down'[i].c = starts /\ i < j => down'[j].k # "abort"
    BY <2>1, <2>3, <2>5, <2>6, TakenDown
  <2> QED BY <1>0, <2>4, <2>7, NothingAborts DEF AbortInv
<1>2. CASE TakeSend \/ TakeStop \/ TakeInterrupt \/ TakeAbort
  <2>1. PICK kind : Takes(kind) /\ (kind = "abort" \/ proc' = proc)
                    /\ (proc' # proc => proc' = "dying" /\ kind = "abort")
    BY <1>2 DEF TakeSend, TakeStop, TakeInterrupt, TakeAbort, cliVars
  <2>2. Aborting' => Aborting
    <3>1. proc' # proc => Aborting
      <4>1. down[1].k = kind /\ 1 \in 1..Len(down)
        BY <2>1, TakesFacts
      <4> QED BY <2>1, <4>1 DEF Aborting
    <3> QED BY <2>1, <3>1, TakenDown DEF Aborting
  <2>3. up' = up \/ \E m \in Frames : m.k # "started" /\ up' = Append(up, m)
    <3>1. CASE TakeSend
      <4> DEFINE c == Head(down).c
      <4>1. Takes("send") /\ (up' = Append(up, Frame("refused", c)) \/ up' = Append(up, Frame("ok", c)))
        BY <3>1 DEF TakeSend
      <4>2. c \in 0..MaxTurns
        BY <4>1, TakesFacts DEF Frames
      <4> QED BY <4>1, <4>2, FrameType
    <3>2. CASE TakeAbort
      <4>1. up' = up \/ up' = Append(up, Frame("aborted", 0))
        BY <3>2 DEF TakeAbort
      <4>2. Frame("aborted", 0) \in Frames /\ Frame("aborted", 0).k # "started"
        BY FrameType, TurnBoundsAssumption
      <4> QED BY <4>1, <4>2
    <3>3. CASE TakeStop \/ TakeInterrupt
      BY <3>3 DEF TakeStop, TakeInterrupt
    <3> QED BY <1>2, <3>1, <3>2, <3>3
  <2>4. \A m \in Range(up') : m \in Range(up) \/ m.k # "started"
    BY <2>3, UpAppend
  <2> QED BY <1>0, <2>1, <2>2, <2>4, TakenDown, NothingAborts DEF AbortInv
<1>3. CASE \E c \in Turns : TakeLock(c) \/ LockTimesOut(c) \/ ReadLine(c) \/ ReaderEnds(c)
  <2>1. PICK c \in Turns : TakeLock(c) \/ LockTimesOut(c) \/ ReadLine(c) \/ ReaderEnds(c)
    BY <1>3
  <2>2. UNCHANGED <<proc, down>>
    BY <2>1 DEF TakeLock, LockTimesOut, ReadLine, ReaderEnds, cliVars
  <2>3. \A m \in Range(up') : m \in Range(up) \/ m.k # "started"
    <3> DEFINE t == <<Frame("error", c), Frame("end", c)>>
    <3>0. up \in Seq(Frames) /\ c \in 0..MaxTurns
      BY TurnBoundsAssumption DEF IInv, TypeOK, Turns
    <3>1. t \in Seq(Frames) /\ \A m \in Range(t) : m.k # "started"
      <4>1. /\ Frame("error", c) \in Frames /\ Frame("end", c) \in Frames
            /\ Frame("error", c).k # "started" /\ Frame("end", c).k # "started"
        BY <3>0, FrameType
      <4> QED BY <4>1 DEF Range
    <3>2. CASE up' = up \o t
      <4> HIDE DEF t
      <4>1. Range(up') \subseteq Range(up) \cup Range(t)
        BY <3>0, <3>1, <3>2, ConcatFacts
      <4> QED BY <3>1, <4>1
    <3>3. CASE up' = Append(up, [k |-> "result", c |-> c, p |-> Head(out)]) /\ out # <<>>
      <4>1. Head(out) \in Turns
        BY <3>3, TailFacts DEF IInv, TypeOK
      <4>2. [k |-> "result", c |-> c, p |-> Head(out)] \in Frames
        BY <3>0, <4>1, TurnBoundsAssumption DEF Frames, Turns
      <4> QED BY <3>3, <4>2, UpAppend
    <3>4. CASE up' = Append(up, Frame("end", c))
      <4>1. Frame("end", c) \in Frames /\ Frame("end", c).k # "started"
        BY <3>0, FrameType
      <4> QED BY <3>4, <4>1, UpAppend
    <3>5. \/ up' = up \/ up' = up \o t
          \/ up' = Append(up, [k |-> "result", c |-> c, p |-> Head(out)]) /\ out # <<>>
          \/ up' = Append(up, Frame("end", c))
      BY <2>1 DEF TakeLock, LockTimesOut, ReadLine, ReaderEnds
    <3> QED BY <3>2, <3>3, <3>4, <3>5
  <2> QED BY <1>0, <2>2, <2>3, SameDown, NothingAborts DEF AbortInv
<1> QED BY <1>1, <1>2, <1>3 DEF Satellite

\* The process: once dead it is no longer being killed.
LEMMA CliAborts == ASSUME IInv, AbortInv, Cli PROVE AbortInv'
<1>0. /\ UNCHANGED <<stage, cur, dead, watch, pressed, starts, down>>
      /\ proc' = proc \/ proc' = "dead"
      /\ up' = up \/ up' = Append(up, Frame("aborted", 0))
  BY DEF Cli, CliDies, CliCrashes, Gone, CliTakes, CliAnswers,
         turnVars, linkVars, countVars, pastVars
<1>1. Aborting' => Aborting
  BY <1>0 DEF Aborting
<1>2. \A m \in Range(up') : m \in Range(up) \/ m.k # "started"
  <2>1. Frame("aborted", 0) \in Frames /\ Frame("aborted", 0).k # "started"
    BY FrameType, TurnBoundsAssumption
  <2> QED BY <1>0, <2>1, UpAppend
<1> QED BY <1>0, <1>1, <1>2, NothingAborts DEF AbortInv

LEMMA AbortInvariance == Spec => []AbortInv
<1>1. Init => AbortInv
  BY DEF Init, AbortInv, Aborting
<1>2. IInv /\ AbortInv /\ [Next]_vars => AbortInv'
  <2> SUFFICES ASSUME IInv, AbortInv, [Next]_vars PROVE AbortInv'
    OBVIOUS
  <2>1. CASE UNCHANGED vars
    BY <2>1, SameDown, NothingAborts
       DEF AbortInv, vars, turnVars, linkVars, cliVars, countVars, pastVars
  <2>2. CASE Next
    BY <2>2, ProducerAborts, PersonAborts, WatchdogAborts, FramesInAborts, LinkAborts,
       SatelliteAborts, CliAborts DEF Next
  <2> QED BY <2>1, <2>2
<1> QED BY <1>1, <1>2, Invariance, PTL DEF Spec

\* No abort, the watchdog's or an older one still on its way, reaches the process
\* of a turn that nobody stopped, over any number of turns, drops and restarts.
THEOREM AbortsReachStopped == Spec => []KillsOnlyStopped
<1>1. AbortInv => KillsOnlyStopped
  BY DEF AbortInv, Aborting, KillsOnlyStopped
<1> QED BY <1>1, AbortInvariance, PTL

=============================================================================
