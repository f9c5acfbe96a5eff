-------------------------- MODULE InputQueueProofs --------------------------
(***************************************************************************)
(* Theorems about the input queue of a chat, for any messages, people,     *)
(* frames and deliveries and any bounds: its types, one turn at a time,    *)
(* what was acknowledged survives, what was revoked stays out, and, where  *)
(* every message is sent once, none is answered or shown twice, none is    *)
(* both returned and answered, and, but for what `Faultless` leaves out,   *)
(* no row is left without somebody who has it.                             *)
(***************************************************************************)
EXTENDS InputQueue, FiniteSetTheorems, SequenceTheorems, WellFoundedInduction, TLAPS

-----------------------------------------------------------------------------
(* Sequences made from sets and from sequences *)

Distinct(s) == \A i, j \in 1..Len(s) : s[i] = s[j] => i = j

\* When no two keys tie, Ranked lists every member of the set once.
LEMMA RankedIs ==
    ASSUME NEW S, IsFiniteSet(S), NEW key,
           \A x \in S : key[x] \in Nat,
           \A x, y \in S : key[x] = key[y] => x = y
    PROVE  /\ Ranked(S, key) \in Seq(S)
           /\ Len(Ranked(S, key)) = Cardinality(S)
           /\ ToSet(Ranked(S, key)) = S
           /\ Distinct(Ranked(S, key))
<1> DEFINE upto(m) == {x \in S : key[x] <= key[m]}
           n == Cardinality(S)
           R == [m \in S |-> Cardinality(upto(m))]
           q == Ranked(S, key)
<1>1. n \in Nat /\ IsFiniteSet(1..n) /\ Cardinality(1..n) = n
  BY FS_CardinalityType, FS_Interval
<1>2. ASSUME NEW m \in S
      PROVE  /\ upto(m) \in SUBSET S /\ m \in upto(m)
             /\ IsFiniteSet(upto(m)) /\ R[m] = Cardinality(upto(m)) /\ R[m] \in 1..n
  <2>1. upto(m) \in SUBSET S /\ m \in upto(m)
    OBVIOUS
  <2>2. IsFiniteSet(upto(m)) /\ Cardinality(upto(m)) <= n /\ Cardinality(upto(m)) \in Nat
    BY <2>1, FS_Subset, FS_CardinalityType
  <2>3. Cardinality(upto(m)) # 0
    BY <2>1, <2>2, FS_EmptySet
  <2> HIDE DEF upto
  <2> QED
    BY <1>1, <2>1, <2>2, <2>3
<1>3. ASSUME NEW x \in S, NEW y \in S, key[x] < key[y] PROVE R[x] # R[y]
  <2>1. upto(x) \in SUBSET upto(y) /\ y \in upto(y) /\ y \notin upto(x)
    BY <1>3
  <2>2. /\ IsFiniteSet(upto(y)) /\ R[x] = Cardinality(upto(x))
        /\ R[y] = Cardinality(upto(y))
    BY <1>2
  <2> HIDE DEF upto, R
  <2>3. Cardinality(upto(y)) = Cardinality(upto(x)) => upto(y) = upto(x)
    BY <2>1, <2>2, FS_Subset
  <2> QED
    BY <2>1, <2>2, <2>3
<1>4. ASSUME NEW x \in S, NEW y \in S, R[x] = R[y] PROVE x = y
  <2>1. key[x] \in Nat /\ key[y] \in Nat /\ (key[x] = key[y] => x = y)
    OBVIOUS
  <2> HIDE DEF R
  <2> QED
    BY <1>3, <1>4, <2>1
<1>5. R \in Injection(S, 1..n)
  <2>1. R \in [S -> 1..n]
    <3> HIDE DEF upto
    <3> QED
      BY <1>2
  <2> QED
    BY <1>4, <2>1 DEF Injection, IsInjective
<1>6. R \in Surjection(S, 1..n)
  BY <1>1, <1>5, FS_Injection
<1>7. \A i \in 1..n : \E m \in S : R[m] = i
  BY <1>6 DEF Surjection
<1>8. ASSUME NEW i \in 1..n PROVE q[i] \in S /\ R[q[i]] = i
  <2>1. PICK m \in S : Cardinality(upto(m)) = i
    BY <1>2, <1>7
  <2>2. q[i] = CHOOSE x \in S : Cardinality({y \in S : key[y] <= key[x]}) = i
    BY DEF Ranked
  <2>3. q[i] \in S /\ Cardinality(upto(q[i])) = i
    <3> HIDE DEF q
    <3> QED
      BY <2>1, <2>2, Zenon
  <2> HIDE DEF q, upto
  <2> QED
    BY <1>2, <2>3
<1>9. q \in Seq(S) /\ Len(q) = n
  <2> DEFINE e(i) == CHOOSE x \in S : Cardinality(upto(x)) = i
  <2>1. q = [i \in 1..n |-> e(i)]
    BY Zenon DEF Ranked
  <2>2. \A i \in 1..n : q[i] \in S
    BY <1>8
  <2> HIDE DEF q, n, e
  <2>3. \A i \in 1..n : e(i) \in S
    BY <2>1, <2>2
  <2> QED
    BY <1>1, <2>1, <2>3
<1>10. DOMAIN q = 1..n
  BY <1>9
<1> HIDE DEF q, R
<1>11. ASSUME NEW m \in S PROVE m \in ToSet(q)
  <2>1. R[m] \in 1..n /\ R[q[R[m]]] = R[m] /\ q[R[m]] \in S
    BY <1>2, <1>8
  <2>2. q[R[m]] = m
    BY <1>4, <2>1
  <2> QED
    BY <1>10, <2>1, <2>2 DEF ToSet
<1>12. ToSet(q) = S
  BY <1>8, <1>10, <1>11 DEF ToSet
<1>13. Distinct(q)
  BY <1>8, <1>9 DEF Distinct
<1> QED
  BY <1>9, <1>12, <1>13 DEF q

\* Without keeps what is not taken out: each kept place comes from one place.
LEMMA WithoutIs ==
    ASSUME NEW X, NEW s \in Seq(X), NEW S
    PROVE  /\ Without(s, S) \in Seq(X)
           /\ ToSet(Without(s, S)) = ToSet(s) \ S
           /\ \E at \in [1..Len(Without(s, S)) -> 1..Len(s)] :
                /\ \A i, j \in 1..Len(Without(s, S)) : at[i] = at[j] => i = j
                /\ \A i \in 1..Len(Without(s, S)) :
                     Without(s, S)[i] = s[at[i]] /\ s[at[i]] \notin S
<1> DEFINE K == {i \in 1..Len(s) : s[i] \notin S}
           id == [i \in 1..Len(s) |-> i]
           at == Ranked(K, id)
           w == Without(s, S)
<1>1. IsFiniteSet(K)
  <2>1. IsFiniteSet(1..Len(s))
    BY FS_Interval
  <2> QED
    BY <2>1, FS_Subset
<1>2. (\A x \in K : id[x] \in Nat) /\ (\A x, y \in K : id[x] = id[y] => x = y)
  OBVIOUS
<1>3. at \in Seq(K) /\ ToSet(at) = K /\ Distinct(at)
  <2> HIDE DEF K, id
  <2> QED
    BY <1>1, <1>2, RankedIs
<1>4. w = [n \in 1..Len(at) |-> s[at[n]]]
  BY DEF Without
<1> HIDE DEF w, at
<1>5. Len(at) \in Nat /\ \A n \in 1..Len(at) : at[n] \in K
  BY <1>3
<1>6. \A n \in 1..Len(at) : w[n] = s[at[n]] /\ s[at[n]] \in X /\ s[at[n]] \notin S
  BY <1>4, <1>5
<1>7. w \in Seq(X) /\ Len(w) = Len(at) /\ DOMAIN w = 1..Len(at)
  BY <1>4, <1>5, <1>6
<1>8. ToSet(w) = ToSet(s) \ S
  <2>1. ASSUME NEW x \in ToSet(w) PROVE x \in ToSet(s) \ S
    <3>1. PICK n \in 1..Len(at) : x = w[n]
      BY <1>7, <2>1 DEF ToSet
    <3> QED
      BY <1>5, <1>6, <3>1 DEF ToSet
  <2>2. ASSUME NEW x \in ToSet(s) \ S PROVE x \in ToSet(w)
    <3>1. PICK i \in 1..Len(s) : x = s[i]
      BY <2>2 DEF ToSet
    <3>2. i \in ToSet(at)
      BY <1>3, <2>2, <3>1
    <3>3. PICK n \in 1..Len(at) : at[n] = i
      BY <1>3, <3>2 DEF ToSet
    <3> QED
      BY <1>6, <1>7, <3>1, <3>3 DEF ToSet
  <2> QED
    BY <2>1, <2>2
<1>9. at \in [1..Len(w) -> 1..Len(s)]
  BY <1>3, <1>5, <1>7
<1>10. \A i, j \in 1..Len(w) : at[i] = at[j] => i = j
  BY <1>3, <1>7 DEF Distinct
<1> QED
  BY <1>6, <1>7, <1>8, <1>9, <1>10 DEF w

-----------------------------------------------------------------------------
(* What the jobs of a lane and the events of a turn carry *)

\* The messages in the entries of s whose kind is in K.
IdsOf(s, K) == UNION {ToSet(s[i].ids) : i \in {x \in 1..Len(s) : s[x].k \in K}}

\* No message is in two of them.
Apart(s, K) ==
    \A i, j \in 1..Len(s) :
        i # j /\ s[i].k \in K /\ s[j].k \in K => ToSet(s[i].ids) \cap ToSet(s[j].ids) = {}

LEMMA IdsMember ==
    \A s, K, m : m \in IdsOf(s, K)
        <=> \E i \in 1..Len(s) : s[i].k \in K /\ m \in ToSet(s[i].ids)
  BY DEF IdsOf

LEMMA IdsEmpty == \A K : IdsOf(<<>>, K) = {} /\ Apart(<<>>, K)
  BY DEF IdsOf, Apart

LEMMA IdsAppend ==
    ASSUME NEW X, NEW s \in Seq(X), NEW e \in X, NEW K
    PROVE  /\ IdsOf(Append(s, e), K)
                 = IdsOf(s, K) \cup (IF e.k \in K THEN ToSet(e.ids) ELSE {})
           /\ Apart(s, K) /\ (e.k \in K => ToSet(e.ids) \cap IdsOf(s, K) = {})
                 => Apart(Append(s, e), K)
<1> DEFINE t == Append(s, e)
<1>1. /\ Len(t) = Len(s) + 1 /\ Len(s) \in Nat /\ t[Len(s) + 1] = e
      /\ \A i \in 1..Len(s) : t[i] = s[i]
  OBVIOUS
<1>2. 1..Len(t) = (1..Len(s)) \cup {Len(s) + 1} /\ Len(s) + 1 \notin 1..Len(s)
  BY <1>1
<1> HIDE DEF t
<1>3. ASSUME NEW m
      PROVE  m \in IdsOf(t, K)
               <=> m \in IdsOf(s, K) \cup (IF e.k \in K THEN ToSet(e.ids) ELSE {})
  BY <1>1, <1>2, IdsMember
<1>4. ASSUME Apart(s, K), e.k \in K => ToSet(e.ids) \cap IdsOf(s, K) = {},
             NEW i \in 1..Len(t), NEW j \in 1..Len(t), i # j, t[i].k \in K, t[j].k \in K
      PROVE  ToSet(t[i].ids) \cap ToSet(t[j].ids) = {}
  <2>1. CASE i \in 1..Len(s) /\ j \in 1..Len(s)
    BY <1>1, <1>4, <2>1 DEF Apart
  <2>2. ASSUME NEW n \in 1..Len(s), s[n].k \in K PROVE ToSet(s[n].ids) \subseteq IdsOf(s, K)
    BY <2>2, IdsMember
  <2>3. CASE i = Len(s) + 1 /\ j \in 1..Len(s)
    BY <1>1, <1>4, <2>2, <2>3
  <2>4. CASE j = Len(s) + 1 /\ i \in 1..Len(s)
    BY <1>1, <1>4, <2>2, <2>4
  <2> QED
    BY <1>2, <1>4, <2>1, <2>3, <2>4
<1>5. IdsOf(t, K) = IdsOf(s, K) \cup (IF e.k \in K THEN ToSet(e.ids) ELSE {})
  BY <1>3
<1> QED
  BY <1>4, <1>5 DEF t, Apart

LEMMA IdsSkip ==
    ASSUME NEW X, NEW s \in Seq(X), NEW e \in X, NEW K, e.k \notin K \/ ToSet(e.ids) = {}
    PROVE  IdsOf(Append(s, e), K) = IdsOf(s, K) /\ (Apart(s, K) => Apart(Append(s, e), K))
<1>1. IdsOf(Append(s, e), K) = IdsOf(s, K) \cup (IF e.k \in K THEN ToSet(e.ids) ELSE {})
  BY IdsAppend
<1>2. Apart(s, K) /\ (e.k \in K => ToSet(e.ids) \cap IdsOf(s, K) = {}) => Apart(Append(s, e), K)
  BY IdsAppend
<1> QED
  BY <1>1, <1>2

LEMMA IdsTail ==
    ASSUME NEW X, NEW s \in Seq(X), s # <<>>, NEW K
    PROVE  /\ IdsOf(s, K) = IdsOf(Tail(s), K)
                              \cup (IF Head(s).k \in K THEN ToSet(Head(s).ids) ELSE {})
           /\ Apart(s, K) => Apart(Tail(s), K)
           /\ Apart(s, K) /\ Head(s).k \in K
                 => ToSet(Head(s).ids) \cap IdsOf(Tail(s), K) = {}
<1> DEFINE t == Tail(s)
<1>1. /\ Len(t) = Len(s) - 1 /\ Len(s) \in Nat \ {0} /\ Head(s) = s[1]
      /\ \A i \in 1..Len(t) : t[i] = s[i + 1] /\ i + 1 \in 1..Len(s) /\ i + 1 # 1
      /\ \A i \in 1..Len(s) : i = 1 \/ (i - 1 \in 1..Len(t) /\ t[i - 1] = s[i])
      /\ 1 \in 1..Len(s)
  OBVIOUS
<1> HIDE DEF t
<1>2. ASSUME NEW m
      PROVE  m \in IdsOf(s, K)
               <=> m \in IdsOf(t, K) \cup (IF Head(s).k \in K THEN ToSet(Head(s).ids) ELSE {})
  <2>1. ASSUME m \in IdsOf(s, K)
        PROVE  m \in IdsOf(t, K) \/ (s[1].k \in K /\ m \in ToSet(s[1].ids))
    <3>1. PICK i \in 1..Len(s) : s[i].k \in K /\ m \in ToSet(s[i].ids)
      BY <2>1, IdsMember
    <3>2. CASE i - 1 \in 1..Len(t) /\ t[i - 1] = s[i]
      BY <3>1, <3>2, IdsMember
    <3> QED
      BY <1>1, <3>1, <3>2
  <2>2. ASSUME m \in IdsOf(t, K) PROVE m \in IdsOf(s, K)
    <3>1. PICK i \in 1..Len(t) : t[i].k \in K /\ m \in ToSet(t[i].ids)
      BY <2>2, IdsMember
    <3>2. i + 1 \in 1..Len(s) /\ s[i + 1] = t[i]
      BY <1>1
    <3> QED
      BY <3>1, <3>2, IdsMember
  <2>3. ASSUME s[1].k \in K, m \in ToSet(s[1].ids) PROVE m \in IdsOf(s, K)
    BY <1>1, <2>3, IdsMember
  <2> QED
    BY <1>1, <2>1, <2>2, <2>3
<1>3. Apart(s, K) => Apart(t, K)
  <2>1. ASSUME NEW i \in 1..Len(t), NEW j \in 1..Len(t), i # j PROVE i + 1 # j + 1
    BY <1>1, <2>1
  <2> QED
    BY <1>1, <2>1 DEF Apart
<1>4. ASSUME Apart(s, K), Head(s).k \in K
      PROVE  ToSet(Head(s).ids) \cap IdsOf(t, K) = {}
  <2>1. ASSUME NEW i \in 1..Len(t), t[i].k \in K
        PROVE  ToSet(s[1].ids) \cap ToSet(t[i].ids) = {}
    BY <1>1, <1>4, <2>1 DEF Apart
  <2> QED
    BY <1>1, <2>1, IdsMember
<1>5. IdsOf(s, K) = IdsOf(t, K) \cup (IF Head(s).k \in K THEN ToSet(Head(s).ids) ELSE {})
  BY <1>2
<1> QED
  BY <1>3, <1>4, <1>5 DEF t

LEMMA IdsConcat ==
    ASSUME NEW X, NEW s \in Seq(X), NEW t \in Seq(X), NEW K
    PROVE  /\ IdsOf(s \o t, K) = IdsOf(s, K) \cup IdsOf(t, K)
           /\ Apart(s, K) /\ Apart(t, K) /\ IdsOf(s, K) \cap IdsOf(t, K) = {}
                 => Apart(s \o t, K)
<1> DEFINE w == s \o t
<1>1. /\ Len(w) = Len(s) + Len(t) /\ Len(s) \in Nat /\ Len(t) \in Nat
      /\ \A i \in 1..Len(s) : w[i] = s[i] /\ i \in 1..Len(w)
      /\ \A i \in 1..Len(t) : w[Len(s) + i] = t[i] /\ Len(s) + i \in 1..Len(w)
  OBVIOUS
<1>2. \A i \in 1..Len(w) : i \in 1..Len(s) \/ \E n \in 1..Len(t) : i = Len(s) + n
  <2>1. ASSUME NEW i \in 1..Len(w), i \notin 1..Len(s)
        PROVE  i - Len(s) \in 1..Len(t) /\ i = Len(s) + (i - Len(s))
    BY <1>1, <2>1
  <2> QED
    BY <2>1
<1> HIDE DEF w
<1>3. ASSUME NEW m PROVE m \in IdsOf(w, K) <=> m \in IdsOf(s, K) \cup IdsOf(t, K)
  <2>1. ASSUME m \in IdsOf(w, K) PROVE m \in IdsOf(s, K) \cup IdsOf(t, K)
    <3>1. PICK i \in 1..Len(w) : w[i].k \in K /\ m \in ToSet(w[i].ids)
      BY <2>1, IdsMember
    <3>2. CASE i \in 1..Len(s)
      BY <1>1, <3>1, <3>2, IdsMember
    <3>3. ASSUME NEW n \in 1..Len(t), i = Len(s) + n PROVE m \in IdsOf(t, K)
      BY <1>1, <3>1, <3>3, IdsMember
    <3> QED
      BY <1>2, <3>2, <3>3
  <2>2. ASSUME m \in IdsOf(s, K) PROVE m \in IdsOf(w, K)
    <3>1. PICK i \in 1..Len(s) : s[i].k \in K /\ m \in ToSet(s[i].ids)
      BY <2>2, IdsMember
    <3>2. i \in 1..Len(w) /\ w[i] = s[i]
      BY <1>1
    <3> QED
      BY <3>1, <3>2, IdsMember
  <2>3. ASSUME m \in IdsOf(t, K) PROVE m \in IdsOf(w, K)
    <3>1. PICK i \in 1..Len(t) : t[i].k \in K /\ m \in ToSet(t[i].ids)
      BY <2>3, IdsMember
    <3>2. Len(s) + i \in 1..Len(w) /\ w[Len(s) + i] = t[i]
      BY <1>1
    <3> QED
      BY <3>1, <3>2, IdsMember
  <2> QED
    BY <2>1, <2>2, <2>3
<1>4. ASSUME Apart(s, K), Apart(t, K), IdsOf(s, K) \cap IdsOf(t, K) = {},
             NEW i \in 1..Len(w), NEW j \in 1..Len(w), i # j, w[i].k \in K, w[j].k \in K
      PROVE  ToSet(w[i].ids) \cap ToSet(w[j].ids) = {}
  <2>1. ASSUME NEW n \in 1..Len(s), s[n].k \in K PROVE ToSet(s[n].ids) \subseteq IdsOf(s, K)
    BY <2>1, IdsMember
  <2>2. ASSUME NEW n \in 1..Len(t), t[n].k \in K PROVE ToSet(t[n].ids) \subseteq IdsOf(t, K)
    BY <2>2, IdsMember
  <2>3. CASE i \in 1..Len(s) /\ j \in 1..Len(s)
    BY <1>1, <1>4, <2>3 DEF Apart
  <2>4. ASSUME NEW n \in 1..Len(t), NEW q \in 1..Len(t), i = Len(s) + n, j = Len(s) + q
        PROVE  ToSet(w[i].ids) \cap ToSet(w[j].ids) = {}
    BY <1>1, <1>4, <2>4 DEF Apart
  <2>5. ASSUME NEW n \in 1..Len(s), NEW q \in 1..Len(t), s[n].k \in K, t[q].k \in K
        PROVE  ToSet(s[n].ids) \cap ToSet(t[q].ids) = {}
    BY <1>4, <2>1, <2>2, <2>5
  <2>6. CASE i \in 1..Len(s) /\ j \notin 1..Len(s)
    BY <1>1, <1>2, <1>4, <2>5, <2>6
  <2>7. CASE j \in 1..Len(s) /\ i \notin 1..Len(s)
    BY <1>1, <1>2, <1>4, <2>5, <2>7
  <2>8. CASE i \notin 1..Len(s) /\ j \notin 1..Len(s)
    BY <1>2, <2>4, <2>8
  <2> QED
    BY <2>3, <2>6, <2>7, <2>8
<1>5. IdsOf(w, K) = IdsOf(s, K) \cup IdsOf(t, K)
  BY <1>3
<1> QED
  BY <1>4, <1>5 DEF w, Apart

-----------------------------------------------------------------------------
(* Types *)

JobKinds   == {"add", "accept", "turn", "steer", "send", "drop", "end"}
EventKinds == {"turn", "steer", "error", "done"}
Places == {"off", "steer", "steered", "add", "adding", "added", "gates", "storing", "stored",
           "failed", "done", "loop", "starting", "dropping", "dropped", "letgo", "stopping",
           "abort"}

Jobs   == {j \in [k : JobKinds, ids : Seq(Msgs), p : Procs \cup {None}, g : Nat] :
             j.k \in {"add", "send", "drop"} => j.p \in Procs}
Events == [k : EventKinds, ids : Seq(Msgs)]
Pumps  == [st : {"none", "live", "done"},
           prod : {"none", "rows", "turn", "accept", "ended"},
           batch : Seq(Msgs), upto : Nat \cup {None}, completed : BOOLEAN,
           stopped : BOOLEAN, waits : BOOLEAN, runner : Authors \cup {None}]

QueueShape ==
    /\ items \subseteq Msgs /\ seqOf \in [Msgs -> Nat] /\ seq \in Nat
    /\ accepted \subseteq Msgs /\ dropped \subseteq Msgs
    /\ ld \in {"no", "listed", "yes"} /\ snap \in Seq(Msgs)
    /\ claim \in Procs \cup {None} /\ armed \in BOOLEAN

TableShape == rows \in Seq(Msgs) /\ chat \in Seq(Msgs)

TurnShape ==
    /\ lane \in Seq(Jobs) /\ evq \in Seq(Events) /\ pump \in Pumps
    /\ gen \in Nat /\ stopGen \in Nat /\ ends \in Seq(Nat \cup {None})

ProcShape ==
    /\ pc \in [Procs -> Places] /\ held \in [Procs -> SUBSET Msgs]
    /\ todo \in [Procs -> Seq(Authors)]
    /\ \A t \in Tasks : pc[t] = "starting" => todo[t] # <<>>

FateShape ==
    /\ revoking \in {<<>>} \cup (Authors \X SUBSET Msgs) /\ present \subseteq Authors
    /\ sent \in [Msgs -> Nat] /\ back \cup ack \cup revoked \cup owed \cup lost \subseteq Msgs
    /\ order \in Seq(Msgs) /\ used \in [Bounds -> Nat]

Shapes == QueueShape /\ TableShape /\ TurnShape /\ ProcShape /\ FateShape

\* Whoever can put messages back holds numbered ones, and no number is given twice.
Numbered == {m \in Msgs : seqOf[m] # 0}

NumInv ==
    /\ items \subseteq Numbered /\ \A p \in Procs : held[p] \subseteq Numbered
    /\ IdsOf(evq, {"turn"}) \subseteq Numbered
    /\ IdsOf(lane, {"accept", "turn"}) \subseteq Numbered
    /\ \A m \in Msgs : seqOf[m] <= seq
    /\ \A m, n \in Msgs : seqOf[m] = seqOf[n] /\ m \in Numbered => m = n

LEMMA InOrderIs ==
    ASSUME Shapes, NumInv, NEW S, S \subseteq Numbered
    PROVE  InOrder(S) \in Seq(Msgs) /\ ToSet(InOrder(S)) = S /\ Distinct(InOrder(S))
<1>1. S \subseteq Msgs /\ IsFiniteSet(S)
  BY QueueAssumption, FS_Subset DEF Numbered
<1>2. (\A x \in S : seqOf[x] \in Nat) /\ (\A x, y \in S : seqOf[x] = seqOf[y] => x = y)
  BY <1>1 DEF Shapes, QueueShape, NumInv
<1> DEFINE q == Ranked(S, seqOf)
<1>3. q \in Seq(S) /\ ToSet(q) = S /\ Distinct(q)
  BY <1>1, <1>2, RankedIs
<1> HIDE DEF q
<1>4. q \in Seq(Msgs)
  BY <1>1, <1>3
<1> QED
  BY <1>3, <1>4 DEF q, InOrder

LEMMA LeastNumber ==
    ASSUME Shapes, NEW S, S \subseteq Msgs, S # {}
    PROVE  \E m \in S : \A n \in S : seqOf[m] <= seqOf[n]
<1> DEFINE N == {seqOf[m] : m \in S}
<1>1. \A m \in S : seqOf[m] \in Nat
  BY DEF Shapes, QueueShape
<1>2. N \in SUBSET Nat /\ N # {}
  BY <1>1
<1>3. PICK x \in N : \A y \in N : ~(<<y, x>> \in OpToRel(<, Nat))
  <2> HIDE DEF N
  <2> QED
    BY <1>2, NatLessThanWellFounded, WFMin
<1>4. PICK m \in S : x = seqOf[m]
  OBVIOUS
<1>5. ASSUME NEW n \in S PROVE seqOf[m] <= seqOf[n]
  <2>1. seqOf[n] \in N /\ seqOf[n] \in Nat /\ seqOf[m] \in Nat
    BY <1>1
  <2>2. ~(<<seqOf[n], seqOf[m]>> \in OpToRel(<, Nat))
    BY <1>3, <1>4, <2>1
  <2> QED
    BY <2>1, <2>2 DEF OpToRel
<1> QED
  BY <1>5

\* The authors a delivery visits, by the number of the first message of each.
LEMMA VisitsAreAuthors ==
    ASSUME Shapes, NumInv, NEW who, who = {Author[m] : m \in items}, NEW key,
           \A a \in who : \E m \in By(a) : key[a] = seqOf[m]
    PROVE  Ranked(who, key) \in Seq(Authors)
<1> DEFINE q == Ranked(who, key)
<1>1. who \in SUBSET Authors /\ IsFiniteSet(who)
  <2>1. who \in SUBSET Authors
    BY QueueAssumption DEF Shapes, QueueShape
  <2> QED
    BY QueueAssumption, <2>1, FS_Subset
<1>2. \A a \in who : \E m \in Numbered : Author[m] = a /\ key[a] = seqOf[m]
  BY DEF By, NumInv
<1>3. \A a \in who : key[a] \in Nat
  BY <1>2 DEF Shapes, QueueShape, Numbered
<1>4. \A a, b \in who : key[a] = key[b] => a = b
  <2>1. ASSUME NEW a \in who, NEW b \in who, key[a] = key[b] PROVE a = b
    <3>1. PICK m \in Numbered : Author[m] = a /\ key[a] = seqOf[m]
      BY <1>2
    <3>2. PICK n \in Numbered : Author[n] = b /\ key[b] = seqOf[n]
      BY <1>2
    <3>3. m = n
      BY <2>1, <3>1, <3>2 DEF NumInv, Numbered
    <3> QED
      BY <3>1, <3>2, <3>3
  <2> QED
    BY <2>1
<1>5. q \in Seq(who)
  BY <1>1, <1>3, <1>4, RankedIs
<1> HIDE DEF q
<1>6. q \in Seq(Authors)
  BY <1>1, <1>5
<1> QED
  BY <1>6 DEF q

-----------------------------------------------------------------------------
(* What the end of a pump's loop leaves on the lane *)

LEMMA IdsIn ==
    ASSUME NEW s, NEW K, NEW i \in 1..Len(s), s[i].k \in K
    PROVE  ToSet(s[i].ids) \subseteq IdsOf(s, K)
  BY IdsMember

LEMMA IdsTyped ==
    ASSUME NEW s, NEW K, \A i \in 1..Len(s) : s[i].ids \in Seq(Msgs)
    PROVE  IdsOf(s, K) \subseteq Msgs
<1>1. ASSUME NEW m \in IdsOf(s, K) PROVE m \in Msgs
  <2>1. PICK i \in 1..Len(s) : m \in ToSet(s[i].ids)
    BY IdsMember
  <2>2. s[i].ids \in Seq(Msgs)
    OBVIOUS
  <2> QED
    BY <2>1, <2>2 DEF ToSet
<1> QED
  BY <1>1

\* One job per steer not read yet, and the end of the turn, all behind what is there.
LEMMA LoopEndsIs ==
    ASSUME Shapes, NEW up, NEW completed, LoopEnds(up, completed)
    PROVE  /\ evq' = <<>> /\ accepted' = accepted \cup IdsOf(evq, {"steer"})
           /\ \E tl \in Seq(Jobs) :
                /\ lane' = lane \o tl
                /\ \A i \in 1..Len(tl) :
                     /\ tl[i].p = None
                     /\ \/ tl[i].k = "end" /\ tl[i].ids = <<>>
                        \/ /\ tl[i].k = "steer"
                           /\ \E n \in 1..Len(evq) : evq[n].k = "steer" /\ evq[n].ids = tl[i].ids
                /\ \A K : IdsOf(tl, K) = IF "steer" \in K THEN IdsOf(evq, {"steer"}) ELSE {}
                /\ \A K : Apart(evq, {"steer"}) => Apart(tl, K)
<1> DEFINE S == {e \in ToSet(evq) : e.k # "steer"}
           late == Without(evq, S)
           js == [i \in 1..Len(late) |-> Job("steer", late[i].ids, None)]
           fin == Job("end", <<>>, None)
           tl == Append(js, fin)
<1>1. lane \in Seq(Jobs) /\ evq \in Seq(Events) /\ gen \in Nat
  BY DEF Shapes, TurnShape
<1>2. /\ late \in Seq(Events) /\ ToSet(late) = ToSet(evq) \ S
      /\ \E at \in [1..Len(late) -> 1..Len(evq)] :
           /\ \A i, j \in 1..Len(late) : at[i] = at[j] => i = j
           /\ \A i \in 1..Len(late) : late[i] = evq[at[i]] /\ evq[at[i]] \notin S
  <2> HIDE DEF S
  <2> QED
    BY <1>1, WithoutIs
<1>3. PICK at \in [1..Len(late) -> 1..Len(evq)] :
           /\ \A i, j \in 1..Len(late) : at[i] = at[j] => i = j
           /\ \A i \in 1..Len(late) : late[i] = evq[at[i]] /\ evq[at[i]] \notin S
  BY <1>2
<1>4. /\ evq' = <<>> /\ lane' = Append(lane \o js, fin)
      /\ accepted' = accepted \cup UNION {ToSet(late[i].ids) : i \in 1..Len(late)}
  BY DEF LoopEnds
<1>5. \A i \in 1..Len(evq) : evq[i] \in S <=> evq[i].k # "steer"
  BY <1>1 DEF ToSet
<1>6. Len(late) \in Nat /\ \A i \in 1..Len(late) : late[i] \in Events /\ late[i].k = "steer"
  <2>1. Len(late) \in Nat /\ \A i \in 1..Len(late) : late[i] \in Events
    <3> HIDE DEF late
    <3> QED
      BY <1>2
  <2>2. \A i \in 1..Len(late) : at[i] \in 1..Len(evq) /\ late[i] = evq[at[i]] /\ evq[at[i]] \notin S
    BY <1>3
  <2> HIDE DEF late, S
  <2> QED
    BY <1>5, <2>1, <2>2
<1> HIDE DEF late, S
<1>7. \A i \in 1..Len(late) :
        js[i] \in Jobs /\ js[i].k = "steer" /\ js[i].p = None /\ js[i].ids = late[i].ids
  BY <1>1, <1>6 DEF Job, Jobs, Events, JobKinds
<1>8. js \in Seq(Jobs) /\ Len(js) = Len(late)
  <2> DEFINE e(i) == Job("steer", late[i].ids, None)
  <2>1. \A i \in 1..Len(late) : e(i) \in Jobs
    BY <1>7
  <2> HIDE DEF e
  <2>2. [i \in 1..Len(late) |-> e(i)] \in Seq(Jobs) /\ Len([i \in 1..Len(late) |-> e(i)]) = Len(late)
    BY <1>6, <2>1
  <2> QED
    BY <2>2 DEF e
<1>9. fin \in Jobs /\ fin.k = "end" /\ fin.p = None /\ fin.ids = <<>>
  BY <1>1 DEF Job, Jobs, JobKinds
<1> HIDE DEF js, fin
<1>10. tl \in Seq(Jobs) /\ lane' = lane \o tl
  <2>1. lane \o js \in Seq(Jobs) /\ Append(lane \o js, fin) = (lane \o js) \o <<fin>>
        /\ Append(js, fin) = js \o <<fin>> /\ <<fin>> \in Seq(Jobs)
    BY <1>1, <1>8, <1>9, AppendIsConcat
  <2>2. (lane \o js) \o <<fin>> = lane \o (js \o <<fin>>)
    BY <1>1, <1>8, <2>1, ConcatAssociative
  <2> QED
    BY <1>4, <1>8, <1>9, <2>1, <2>2
<1>11. /\ Len(tl) = Len(late) + 1 /\ tl[Len(late) + 1] = fin
       /\ \A i \in 1..Len(late) : tl[i] = js[i]
  BY <1>6, <1>8, <1>9
<1>12. \A i \in 1..Len(tl) : i \in 1..Len(late) \/ i = Len(late) + 1
  BY <1>6, <1>11
<1> HIDE DEF tl
<1>13. \A i \in 1..Len(tl) :
         /\ tl[i].p = None
         /\ \/ tl[i].k = "end" /\ tl[i].ids = <<>>
            \/ /\ tl[i].k = "steer"
               /\ \E n \in 1..Len(evq) : evq[n].k = "steer" /\ evq[n].ids = tl[i].ids
  <2>1. ASSUME NEW i \in 1..Len(late)
        PROVE  at[i] \in 1..Len(evq) /\ evq[at[i]].k = "steer" /\ evq[at[i]].ids = js[i].ids
    BY <1>3, <1>6, <1>7
  <2> QED
    BY <1>7, <1>9, <1>11, <1>12, <2>1
<1>14. IdsOf(js, {"steer"}) = IdsOf(evq, {"steer"})
       /\ IdsOf(evq, {"steer"}) = UNION {ToSet(late[i].ids) : i \in 1..Len(late)}
  <2>1. ASSUME NEW m \in IdsOf(evq, {"steer"}) PROVE \E i \in 1..Len(late) : m \in ToSet(late[i].ids)
    <3>1. PICK n \in 1..Len(evq) : evq[n].k = "steer" /\ m \in ToSet(evq[n].ids)
      BY IdsMember
    <3>2. evq[n] \in ToSet(late)
      <4>1. evq[n] \in ToSet(evq) /\ evq[n] \notin S
        BY <1>1, <1>5, <3>1 DEF ToSet
      <4> QED
        BY <1>2, <4>1
    <3>3. PICK i \in 1..Len(late) : late[i] = evq[n]
      BY <1>2, <3>2 DEF ToSet
    <3> QED
      BY <3>1, <3>3
  <2>2. ASSUME NEW m, NEW i \in 1..Len(late), m \in ToSet(late[i].ids) PROVE m \in IdsOf(evq, {"steer"})
    <3>1. at[i] \in 1..Len(evq) /\ evq[at[i]] = late[i] /\ evq[at[i]].k = "steer"
      BY <1>3, <1>6
    <3> QED
      BY <2>2, <3>1, IdsMember
  <2>3. \A m : m \in IdsOf(js, {"steer"}) <=> \E i \in 1..Len(late) : m \in ToSet(late[i].ids)
    BY <1>7, <1>8, IdsMember
  <2> QED
    BY <2>1, <2>2, <2>3
<1>15. ASSUME NEW K PROVE IdsOf(tl, K) = IF "steer" \in K THEN IdsOf(evq, {"steer"}) ELSE {}
  <2>1. IdsOf(js, K) = IF "steer" \in K THEN IdsOf(js, {"steer"}) ELSE {}
    <3>1. \A m : m \in IdsOf(js, K) <=> "steer" \in K /\ m \in IdsOf(js, {"steer"})
      BY <1>7, <1>8, IdsMember
    <3> QED
      BY <3>1
  <2>2. ToSet(fin.ids) = {}
    BY <1>9 DEF ToSet
  <2>3. IdsOf(tl, K) = IdsOf(js, K) \cup (IF fin.k \in K THEN ToSet(fin.ids) ELSE {})
    BY <1>8, <1>9, IdsAppend DEF tl
  <2> QED
    BY <1>14, <2>1, <2>2, <2>3
<1>16. ASSUME NEW K, Apart(evq, {"steer"}) PROVE Apart(tl, K)
  <2>1. ASSUME NEW i \in 1..Len(late), NEW j \in 1..Len(late), i # j
        PROVE  ToSet(js[i].ids) \cap ToSet(js[j].ids) = {}
    <3>1. at[i] # at[j] /\ at[i] \in 1..Len(evq) /\ at[j] \in 1..Len(evq)
      BY <1>3, <2>1
    <3>2. /\ evq[at[i]] = late[i] /\ evq[at[j]] = late[j] /\ evq[at[i]].k = "steer"
          /\ evq[at[j]].k = "steer"
      BY <1>3, <1>6
    <3> QED
      BY <1>7, <1>16, <3>1, <3>2 DEF Apart
  <2>2. ToSet(fin.ids) = {}
    BY <1>9 DEF ToSet
  <2> QED
    BY <1>11, <1>12, <2>1, <2>2 DEF Apart
<1> QED
  BY <1>4, <1>10, <1>13, <1>14, <1>15, <1>16

-----------------------------------------------------------------------------
(* Every step keeps the types *)

LEMMA HeadJob ==
    ASSUME Shapes, lane # <<>>
    PROVE  /\ Head(lane) \in Jobs /\ Tail(lane) \in Seq(Jobs) /\ Head(lane) = lane[1]
           /\ 1 \in 1..Len(lane)
           /\ Head(lane).ids \in Seq(Msgs) /\ ToSet(Head(lane).ids) \subseteq Msgs
<1>1. /\ Head(lane) \in Jobs /\ Tail(lane) \in Seq(Jobs) /\ Head(lane) = lane[1]
      /\ 1 \in 1..Len(lane)
  BY DEF Shapes, TurnShape
<1>2. Head(lane).ids \in Seq(Msgs)
  BY <1>1 DEF Jobs
<1> QED
  BY <1>1, <1>2 DEF ToSet

LEMMA HeadEvent ==
    ASSUME Shapes, evq # <<>>
    PROVE  /\ Head(evq) \in Events /\ Tail(evq) \in Seq(Events) /\ Head(evq) = evq[1]
           /\ 1 \in 1..Len(evq)
           /\ Head(evq).ids \in Seq(Msgs) /\ ToSet(Head(evq).ids) \subseteq Msgs
<1>1. /\ Head(evq) \in Events /\ Tail(evq) \in Seq(Events) /\ Head(evq) = evq[1]
      /\ 1 \in 1..Len(evq)
  BY DEF Shapes, TurnShape
<1>2. Head(evq).ids \in Seq(Msgs)
  BY <1>1 DEF Events
<1> QED
  BY <1>1, <1>2 DEF ToSet

LEMMA TableShapeKept ==
    ASSUME Shapes, NumInv, [Next]_vars
    PROVE  TableShape'
<1>1. UNCHANGED tables \/ LaneRuns \/ LaneFails \/ \E a \in Authors : Revoke(a)
  <2>1. ASSUME NEW f \in Frames, Handler(f) PROVE UNCHANGED tables
    BY <2>1 DEF Handler, SendBusy, SendIdle, Steered, RecordSteer, SteerRefused, Add, Added,
           Refused, QueueUntilReconnect, SendJob, StartTurn, SendFailed, tables
  <2>2. ASSUME NEW t \in Tasks, Delivery(t) PROVE UNCHANGED tables
    BY <2>2 DEF Delivery, DeliverStart, DeliverNext, DeliverSent, DeliverDeferred,
           DeliverGated, tables
  <2>3. ASSUME NEW a \in Authors, Viewer(a) \/ Connect(a) \/ Touch(a) PROVE UNCHANGED tables
    BY <2>3 DEF Viewer, DrainClaim, DrainGated, DrainTake, DrainSent, DrainDeferred,
           DrainLetsGo, Connect, Touch, tables
  <2>4. ASSUME Turn PROVE UNCHANGED tables
    BY <2>4 DEF Turn, TurnEnds, TurnFails, PumpAccepts, PumpError, PumpDone, PumpDies,
           PumpEnds, AfterEnd, tables
  <2>5. ASSUME \/ LoadRead \/ LoadEnd \/ StopTurn \/ StopReturns \/ StopAborts \/ CancelSome
               \/ RevokeEnds \/ Crash \/ (\E p \in Returners : GiveBack(p) \/ GiveBackFails(p))
        PROVE  UNCHANGED tables
    BY <2>5, Zenon DEF LoadRead, LoadEnd, StopTurn, StopReturns, StopAborts, CancelSome,
           Cancel, RevokeEnds, Crash, GiveBack, GiveBackFails, tables
  <2>6. UNCHANGED vars => UNCHANGED tables
    BY DEF vars
  <2> QED
    BY <2>1, <2>2, <2>3, <2>4, <2>5, <2>6 DEF Next
<1>2. rows \in Seq(Msgs) /\ chat \in Seq(Msgs)
  BY DEF Shapes, TableShape
<1>3. \A S : Without(rows, S) \in Seq(Msgs)
  BY <1>2, WithoutIs
<1>4. CASE UNCHANGED tables
  BY <1>2, <1>4 DEF tables, TableShape
<1>5. CASE LaneRuns
  <2>1. PICK j : /\ j = Head(lane) /\ j.ids \in Seq(Msgs)
                 /\ JobAdd(j) \/ JobAccept(j) \/ JobSend(j) \/ JobDrop(j) \/ JobEnd(j)
    BY <1>5, HeadJob DEF LaneRuns
  <2>2. chat \o j.ids \in Seq(Msgs) /\ rows \o j.ids \in Seq(Msgs)
    BY <1>2, <2>1
  <2> QED
    BY <1>2, <1>3, <2>1, <2>2
       DEF JobAdd, JobAccept, JobSend, JobDrop, JobEnd, tables, TableShape
<1>6. CASE LaneFails
  <2>1. PICK j : j = Head(lane) /\ JobFails(j) /\ j \in Jobs
    BY <1>6, HeadJob DEF LaneFails
  <2>2. CASE UNCHANGED tables
    BY <1>4, <2>2
  <2>3. CASE /\ j.k = "send" /\ held[j.p] # {}
             /\ rows' = Without(rows, held[j.p]) /\ chat' = chat \o InOrder(held[j.p])
    <3>1. InOrder(held[j.p]) \in Seq(Msgs)
      <4>1. j.p \in Procs
        BY <2>1, <2>3 DEF Jobs
      <4> QED
        BY <4>1, InOrderIs DEF NumInv
    <3> QED
      BY <1>2, <1>3, <2>3, <3>1 DEF TableShape
  <2> QED
    BY <2>1, <2>2, <2>3 DEF JobFails
<1>7. ASSUME NEW a \in Authors, Revoke(a) PROVE TableShape'
  BY <1>2, <1>3, <1>7 DEF Revoke, TableShape
<1> QED
  BY <1>1, <1>4, <1>5, <1>6, <1>7

LEMMA LoadsIs ==
    ASSUME Shapes, LoadEnd
    PROVE  LET new == Without(snap, items) IN
           /\ new \in Seq(Msgs) /\ Len(new) \in Nat /\ ToSet(new) \subseteq Msgs
           /\ ToSet(new) = ToSet(snap) \ items
           /\ items' = items \cup ToSet(new) /\ seq' = seq + Len(new)
           /\ \A m \in ToSet(new) : \E i \in 1..Len(new) : new[i] = m /\ seqOf'[m] = seq + i
           /\ \A m \in Msgs \ ToSet(new) : seqOf'[m] = seqOf[m]
           /\ seqOf' \in [Msgs -> Nat]
<1> DEFINE new == Without(snap, items)
           at(m) == CHOOSE i \in 1..Len(new) : new[i] = m
<1>1. new \in Seq(Msgs) /\ ToSet(new) = ToSet(snap) \ items
  BY WithoutIs DEF Shapes, QueueShape
<1>2. /\ items' = items \cup ToSet(new) /\ seq' = seq + Len(new)
      /\ seqOf' = [m \in Msgs |-> IF m \in ToSet(new) THEN seq + at(m) ELSE seqOf[m]]
  BY DEF LoadEnd
<1> HIDE DEF new
<1>3. Len(new) \in Nat /\ ToSet(new) \subseteq Msgs
  BY <1>1 DEF ToSet
<1>4. ASSUME NEW m \in ToSet(new) PROVE at(m) \in 1..Len(new) /\ new[at(m)] = m
  BY <1>1 DEF ToSet
<1> HIDE DEF at
<1>5. seqOf \in [Msgs -> Nat] /\ seq \in Nat
  BY DEF Shapes, QueueShape
<1>6. \A m \in Msgs : seqOf'[m] = IF m \in ToSet(new) THEN seq + at(m) ELSE seqOf[m]
  BY <1>2
<1>7. ASSUME NEW m \in ToSet(new)
      PROVE  \E i \in 1..Len(new) : new[i] = m /\ seqOf'[m] = seq + i
  BY <1>3, <1>4, <1>6
<1>8. seqOf' \in [Msgs -> Nat]
  <2>1. ASSUME NEW m \in Msgs
        PROVE  (IF m \in ToSet(new) THEN seq + at(m) ELSE seqOf[m]) \in Nat
    BY <1>3, <1>4, <1>5
  <2> QED
    BY <1>2, <2>1
<1> QED
  BY <1>1, <1>2, <1>3, <1>6, <1>7, <1>8 DEF new

LEMMA QueueShapeKept ==
    ASSUME Shapes, NumInv, [Next]_vars
    PROVE  QueueShape'
<1>0. QueueShape /\ TableShape /\ TurnShape /\ ProcShape /\ FateShape
  BY DEF Shapes
<1>1. ASSUME NEW f \in Frames, Handler(f) PROVE QueueShape'
  <2>1. ASSUME Add(f) PROVE QueueShape'
    <3>1. Of[f] \in Msgs
      BY QueueAssumption
    <3>4. claim' \in Procs \cup {None} /\ armed' \in BOOLEAN
      BY <1>0, <2>1, Zenon DEF Add, Release, QueueShape
    <3>2. CASE UNCHANGED <<items, seq, seqOf>>
      BY <1>0, <2>1, <3>2, <3>4 DEF Add, QueueShape, loading
    <3>3. CASE /\ items' = items \cup {Of[f]} /\ seq' = seq + 1
               /\ seqOf' = [seqOf EXCEPT ![Of[f]] = seq + 1]
      BY <1>0, <2>1, <3>1, <3>3, <3>4 DEF Add, QueueShape, loading
    <3> QED
      BY <2>1, <3>2, <3>3 DEF Add
  <2>2. ASSUME SendBusy(f) \/ SendIdle(f) \/ Steered(f) \/ RecordSteer(f) \/ SteerRefused(f)
        PROVE  QueueShape'
    BY <1>0, <2>2, QueueAssumption
       DEF SendBusy, SendIdle, Steered, RecordSteer, SteerRefused, queue, loading, QueueShape,
           Procs
  <2>3. ASSUME \/ Added(f) \/ Refused(f) \/ QueueUntilReconnect(f) \/ SendJob(f)
               \/ StartTurn(f) \/ SendFailed(f)
        PROVE  QueueShape'
    BY <1>0, <2>3
       DEF Added, Refused, QueueUntilReconnect, SendJob, StartTurn, SendFailed, Release, queue,
           loading, By, QueueShape
  <2> QED
    BY <1>1, <2>1, <2>2, <2>3 DEF Handler
<1>2. \A p \in Procs : held[p] \subseteq Msgs /\ PutBack(held[p]) \subseteq Msgs
  BY <1>0 DEF ProcShape, QueueShape, PutBack
<1>3. ASSUME NEW t \in Tasks, Delivery(t) PROVE QueueShape'
  <2>1. t \in Procs
    BY DEF Procs
  <2>2. ASSUME DeliverStart(t) \/ DeliverNext(t) \/ DeliverGated(t) PROVE QueueShape'
    BY <1>0, <2>1, <2>2
       DEF DeliverStart, DeliverNext, DeliverGated, Release, queue, loading, QueueShape
  <2>3. ASSUME DeliverSent(t) PROVE QueueShape'
    BY <1>0, <1>2, <2>1, <2>3 DEF DeliverSent, Launch, Release, queue, loading, QueueShape
  <2>4. ASSUME DeliverDeferred(t) PROVE QueueShape'
    BY <1>0, <1>2, <2>1, <2>4 DEF DeliverDeferred, Release, queue, loading, QueueShape
  <2> QED
    BY <1>3, <2>2, <2>3, <2>4 DEF Delivery
<1>4. ASSUME NEW a \in Authors, Viewer(a) \/ Revoke(a) \/ Connect(a) \/ Touch(a) PROVE QueueShape'
  <2>1. a \in Procs
    BY DEF Procs
  <2>2. ASSUME \/ DrainClaim(a) \/ DrainGated(a) \/ DrainTake(a) \/ DrainLetsGo(a)
               \/ Revoke(a) \/ Connect(a) \/ Touch(a)
        PROVE  QueueShape'
    BY <1>0, <2>1, <2>2
       DEF DrainClaim, DrainGated, DrainTake, DrainLetsGo, Revoke, Connect, Touch, Release, queue,
           loading, QueueShape
  <2>3. ASSUME DrainSent(a) PROVE QueueShape'
    BY <1>0, <1>2, <2>1, <2>3 DEF DrainSent, Launch, Release, queue, loading, QueueShape
  <2>4. ASSUME DrainDeferred(a) PROVE QueueShape'
    BY <1>0, <1>2, <2>1, <2>4 DEF DrainDeferred, Release, queue, loading, QueueShape
  <2> QED
    BY <1>4, <2>2, <2>3, <2>4 DEF Viewer
<1>5. ASSUME NEW up, NEW completed, LoopEnds(up, completed) PROVE accepted' \subseteq Msgs
  <2>1. accepted' = accepted \cup IdsOf(evq, {"steer"})
    BY <1>5, LoopEndsIs
  <2>2. \A i \in 1..Len(evq) : evq[i].ids \in Seq(Msgs)
    <3>1. \A i \in 1..Len(evq) : evq[i] \in Events
      BY <1>0 DEF TurnShape
    <3> QED
      BY <3>1 DEF Events
  <2> QED
    BY <1>0, <2>1, <2>2, IdsTyped DEF QueueShape
<1>6. ASSUME Turn PROVE QueueShape'
  <2>1. ASSUME TurnEnds \/ TurnFails \/ PumpEnds \/ AfterEnd PROVE QueueShape'
    BY <1>0, <2>1 DEF TurnEnds, TurnFails, PumpEnds, AfterEnd, queue, loading, QueueShape
  <2>2. ASSUME PumpAccepts PROVE QueueShape'
    <3>1. evq # <<>>
      BY <2>2 DEF PumpAccepts, PumpReads
    <3> QED
      BY <1>0, <2>2, <3>1, HeadEvent DEF PumpAccepts, queue, loading, QueueShape
  <2>3. ASSUME PumpError \/ PumpDone \/ PumpDies PROVE QueueShape'
    <3>1. accepted' \subseteq Msgs
      BY <1>5, <2>3 DEF PumpError, PumpDone, PumpDies
    <3> QED
      BY <1>0, <2>3, <3>1 DEF PumpError, PumpDone, PumpDies, queue, loading, QueueShape
  <2> QED
    BY <1>6, <2>1, <2>2, <2>3 DEF Turn
<1>7. ASSUME LoadRead PROVE QueueShape'
  BY <1>0, <1>7 DEF LoadRead, QueueShape, TableShape, queue
<1>8. ASSUME LoadEnd PROVE QueueShape'
  <2>1. items' \subseteq Msgs /\ seqOf' \in [Msgs -> Nat] /\ seq' \in Nat
    BY <1>0, <1>8, LoadsIs DEF QueueShape
  <2>2. /\ UNCHANGED <<accepted, dropped, claim>> /\ armed' \in BOOLEAN
        /\ ld' = "yes" /\ snap' = <<>>
    BY <1>0, <1>8 DEF LoadEnd, QueueShape
  <2> QED
    BY <1>0, <2>1, <2>2 DEF QueueShape
<1>9. ASSUME LaneRuns \/ StopTurn \/ StopReturns \/ StopAborts PROVE QueueShape'
  BY <1>0, <1>9 DEF LaneRuns, StopTurn, StopReturns, StopAborts, queue, loading, QueueShape
<1>10. ASSUME LaneFails PROVE QueueShape'
  <2>1. /\ UNCHANGED <<seqOf, seq, accepted, dropped, loading, claim, armed>>
        /\ lane # <<>> /\ JobFails(Head(lane))
    BY <1>10 DEF LaneFails
  <2>2. PutBack(ToSet(Head(lane).ids)) \subseteq Msgs
    BY <1>0, <2>1, HeadJob DEF PutBack, QueueShape
  <2>3. items' \subseteq Msgs
    BY <1>0, <2>1, <2>2 DEF JobFails, QueueShape
  <2> QED
    BY <1>0, <2>1, <2>3 DEF QueueShape, loading
<1>11. ASSUME CancelSome PROVE QueueShape'
  BY <1>0, <1>11 DEF CancelSome, Cancel, loading, QueueShape
<1>12. ASSUME RevokeEnds \/ Crash PROVE QueueShape'
  <2>1. revoking # <<>> => revoking[2] \subseteq Msgs
    BY <1>0 DEF FateShape
  <2>2. ASSUME RevokeEnds PROVE QueueShape'
    BY <1>0, <2>1, <2>2 DEF RevokeEnds, By, loading, QueueShape
  <2>3. ASSUME Crash PROVE QueueShape'
    <3>1. /\ items' = {} /\ seq' = 0 /\ accepted' = {} /\ dropped' = {} /\ ld' = "no"
          /\ snap' = <<>> /\ claim' = None /\ armed' = FALSE
      BY <2>3 DEF Crash
    <3>2. seqOf' \in [Msgs -> Nat]
      BY <2>3 DEF Crash
    <3>3. <<>> \in Seq(Msgs) /\ 0 \in Nat
      OBVIOUS
    <3>4. armed' \in BOOLEAN
      BY <3>1, Zenon
    <3>5. snap' \in Seq(Msgs) /\ ld' \in {"no", "listed", "yes"} /\ seq' \in Nat
      BY <3>1, <3>3
    <3> QED
      BY <3>1, <3>2, <3>4, <3>5, Zenon DEF QueueShape
  <2> QED
    BY <1>12, <2>2, <2>3
<1>13. ASSUME NEW p \in Returners, GiveBack(p) \/ GiveBackFails(p) PROVE QueueShape'
  BY <1>0, <1>13 DEF GiveBack, GiveBackFails, queue, loading, QueueShape
<1>14. CASE UNCHANGED vars
  BY <1>0, <1>14 DEF vars, queue, loading, QueueShape
<1> QED
  BY <1>1, <1>3, <1>4, <1>6, <1>7, <1>8, <1>9, <1>10, <1>11, <1>12, <1>13, <1>14 DEF Next

LEMMA FateShapeKept ==
    ASSUME Shapes, NumInv, [Next]_vars
    PROVE  FateShape'
<1>0. QueueShape /\ TableShape /\ TurnShape /\ ProcShape /\ FateShape
  BY DEF Shapes
<1> DEFINE Spent == \E b \in Bounds : Spend(b)
<1>1. ASSUME NEW b \in Bounds, Spend(b) PROVE used' \in [Bounds -> Nat]
  <2>1. used \in [Bounds -> Nat]
    BY <1>0 DEF FateShape
  <2> QED
    BY <1>1, <2>1 DEF Spend
<1>2. /\ "fail" \in Bounds /\ "crash" \in Bounds /\ "stop" \in Bounds /\ "defer" \in Bounds
      /\ "revoke" \in Bounds
  BY DEF Bounds
<1>3. ASSUME UNCHANGED used \/ Spent, UNCHANGED fates, UNCHANGED <<revoking, present>>
      PROVE  FateShape'
  <2>1. used' \in [Bounds -> Nat]
    BY <1>0, <1>1, <1>3 DEF FateShape
  <2> QED
    BY <1>0, <1>3, <2>1 DEF fates, FateShape
<1> HIDE DEF Spent
<1>4. \A b \in Bounds : Spend(b) => Spent
  BY DEF Spent
<1>5. ASSUME NEW f \in Frames, Handler(f) PROVE FateShape'
  <2>1. Of[f] \in Msgs
    BY QueueAssumption
  <2>2. ASSUME \/ SendBusy(f) \/ SendIdle(f) \/ RecordSteer(f) \/ SteerRefused(f) \/ Refused(f)
               \/ QueueUntilReconnect(f) \/ SendJob(f) \/ SendFailed(f)
        PROVE  FateShape'
    <3>1. (UNCHANGED used \/ Spent) /\ UNCHANGED fates /\ UNCHANGED <<revoking, present>>
      BY <1>2, <1>4, <2>2
         DEF SendBusy, SendIdle, RecordSteer, SteerRefused, Refused, QueueUntilReconnect,
             SendJob, SendFailed
    <3> QED
      BY <1>3, <3>1
  <2>3. ASSUME Steered(f) PROVE FateShape'
    <3>1. sent' \in [Msgs -> Nat]
      BY <1>0, <2>1, <2>3 DEF Steered, FateShape
    <3> QED
      BY <1>0, <2>3, <3>1 DEF Steered, FateShape
  <2>4. ASSUME Add(f) PROVE FateShape'
    <3>1. UNCHANGED order \/ order' = Append(order, Of[f])
      BY <2>4 DEF Add
    <3>2. order' \in Seq(Msgs)
      <4>1. order \in Seq(Msgs)
        BY <1>0 DEF FateShape
      <4> QED
        BY <2>1, <3>1, <4>1
    <3>3. UNCHANGED <<revoking, present, sent, back, ack, revoked, owed, lost, used>>
      BY <2>4 DEF Add
    <3> QED
      BY <1>0, <3>2, <3>3 DEF FateShape
  <2>5. ASSUME Added(f) PROVE FateShape'
    BY <1>0, <2>1, <2>5 DEF Added, FateShape
  <2>6. ASSUME StartTurn(f) PROVE FateShape'
    <3> DEFINE ids == Append(InOrder(held[f]), Of[f])
    <3>1. UNCHANGED sent
          \/ sent' = [m \in Msgs |-> IF m \in ToSet(ids) THEN sent[m] + 1 ELSE sent[m]]
      BY <2>6 DEF StartTurn
    <3> HIDE DEF ids
    <3>2. sent' \in [Msgs -> Nat]
      BY <1>0, <3>1 DEF FateShape
    <3>3. used' \in [Bounds -> Nat]
      BY <1>0, <1>1, <1>2, <2>6 DEF StartTurn, FateShape
    <3>4. UNCHANGED <<revoking, present, back, ack, revoked, owed, lost, order>>
      BY <2>6 DEF StartTurn
    <3> QED
      BY <1>0, <3>2, <3>3, <3>4 DEF FateShape
  <2> QED
    BY <1>5, <2>2, <2>3, <2>4, <2>5, <2>6 DEF Handler
<1>6. ASSUME NEW t \in Tasks, Delivery(t) PROVE FateShape'
  <2>1. (UNCHANGED used \/ Spent) /\ UNCHANGED fates /\ UNCHANGED <<revoking, present>>
    BY <1>2, <1>4, <1>6
       DEF Delivery, DeliverStart, DeliverNext, DeliverSent, DeliverDeferred, DeliverGated
  <2> QED
    BY <1>3, <2>1
<1>7. ASSUME NEW a \in Authors, Viewer(a) PROVE FateShape'
  <2>1. (UNCHANGED used \/ Spent) /\ UNCHANGED fates /\ UNCHANGED <<revoking, present>>
    BY <1>2, <1>4, <1>7
       DEF Viewer, DrainClaim, DrainGated, DrainTake, DrainSent, DrainDeferred, DrainLetsGo
  <2> QED
    BY <1>3, <2>1
<1>8. ASSUME NEW a \in Authors, Revoke(a) PROVE FateShape'
  <2>1. /\ revoking' = <<a, {m \in ToSet(rows) : Author[m] = a}>>
        /\ revoked' = revoked \cup revoking'[2]
        /\ present' \subseteq present /\ UNCHANGED <<sent, back, ack, owed, lost, order>>
        /\ Spend("revoke")
    BY <1>8 DEF Revoke
  <2>2. ToSet(rows) \subseteq Msgs
    BY <1>0 DEF TableShape, ToSet
  <2>3. used' \in [Bounds -> Nat]
    BY <1>1, <1>2, <2>1
  <2>4. revoking' \in Authors \X SUBSET Msgs /\ revoking'[2] \subseteq Msgs
    BY <2>1, <2>2
  <2> QED
    BY <1>0, <2>1, <2>3, <2>4 DEF FateShape
<1>9. ASSUME NEW a \in Authors, Connect(a) \/ Touch(a) PROVE FateShape'
  BY <1>0, <1>9 DEF Connect, Touch, FateShape, fates
<1>10. ASSUME Turn PROVE FateShape'
  <2>1. (UNCHANGED used \/ Spent) /\ UNCHANGED fates /\ UNCHANGED <<revoking, present>>
    BY <1>2, <1>4, <1>10
       DEF Turn, TurnEnds, TurnFails, PumpAccepts, PumpError, PumpDone, PumpDies, PumpEnds,
           AfterEnd
  <2> QED
    BY <1>3, <2>1
<1>11. ASSUME LaneRuns PROVE FateShape'
  <2>1. PICK j : /\ j = Head(lane) /\ ToSet(j.ids) \subseteq Msgs
                 /\ JobAdd(j) \/ JobAccept(j) \/ JobSend(j) \/ JobDrop(j) \/ JobEnd(j)
    BY <1>11, HeadJob DEF LaneRuns
  <2>2. sent' \in [Msgs -> Nat] /\ owed' \subseteq Msgs
    <3>1. UNCHANGED sent
          \/ sent' = [m \in Msgs |-> IF m \in ToSet(j.ids) THEN sent[m] + 1 ELSE sent[m]]
      BY <2>1 DEF JobAdd, JobAccept, JobSend, JobDrop, JobEnd, ToEngine
    <3>2. sent' \in [Msgs -> Nat]
      BY <1>0, <3>1 DEF FateShape
    <3> QED
      BY <1>0, <2>1, <3>2 DEF JobAdd, JobAccept, JobSend, JobDrop, JobEnd, FateShape
  <2>3. UNCHANGED <<revoking, present, back, ack, revoked, lost, order, used>>
    BY <1>11 DEF LaneRuns
  <2> QED
    BY <1>0, <2>2, <2>3 DEF FateShape
<1>12. ASSUME LaneFails PROVE FateShape'
  BY <1>2, <1>3, <1>4, <1>12 DEF LaneFails
<1>13. ASSUME LoadRead \/ LoadEnd \/ StopTurn \/ StopReturns \/ StopAborts \/ CancelSome
       PROVE  FateShape'
  BY <1>2, <1>3, <1>4, <1>13
     DEF LoadRead, LoadEnd, StopTurn, StopReturns, StopAborts, CancelSome, Cancel
<1>14. ASSUME RevokeEnds PROVE FateShape'
  <2>1. /\ revoking # <<>> /\ revoking' = <<>>
        /\ revoked' = revoked \cup (revoking[2] \cup By(revoking[1]))
        /\ UNCHANGED <<present, sent, back, ack, owed, lost, order, used>>
    BY <1>14 DEF RevokeEnds
  <2>2. revoking[2] \subseteq Msgs /\ By(revoking[1]) \subseteq Msgs
    BY <1>0, <2>1 DEF FateShape, By, QueueShape
  <2> QED
    BY <1>0, <2>1, <2>2 DEF FateShape
<1>15. ASSUME Crash PROVE FateShape'
  <2>1. /\ Spend("crash") /\ revoking' = <<>> /\ present' = {} /\ owed' = {}
        /\ lost' = lost \cup owed /\ UNCHANGED <<sent, back, ack, revoked, order>>
    BY <1>15 DEF Crash
  <2>2. used' \in [Bounds -> Nat]
    BY <1>1, <1>2, <2>1
  <2> QED
    BY <1>0, <2>1, <2>2 DEF FateShape
<1>16. ASSUME NEW p \in Returners, GiveBack(p) PROVE FateShape'
  <2>1. p \in Procs
    BY DEF Returners, Procs
  <2> QED
    BY <1>0, <1>16, <2>1 DEF GiveBack, FateShape, ProcShape
<1>17. ASSUME NEW p \in Returners, GiveBackFails(p) PROVE FateShape'
  BY <1>3, <1>17 DEF GiveBackFails
<1>18. CASE UNCHANGED vars
  BY <1>3, <1>18 DEF vars
<1> QED
  BY <1>5, <1>6, <1>7, <1>8, <1>9, <1>10, <1>11, <1>12, <1>13, <1>14, <1>15, <1>16, <1>17,
     <1>18 DEF Next

LEMMA ProcShapeKept ==
    ASSUME Shapes, NumInv, [Next]_vars
    PROVE  ProcShape'
<1>0. QueueShape /\ TableShape /\ TurnShape /\ ProcShape /\ FateShape
  BY DEF Shapes
<1> USE DEF Places
<1>7. ASSUME NEW p \in Procs, NEW l \in Places, l # "starting", Goto(p, l), UNCHANGED todo,
             held' \in [Procs -> SUBSET Msgs]
      PROVE  ProcShape'
  BY <1>0, <1>7 DEF Goto, ProcShape
<1>1. ASSUME NEW f \in Frames, Handler(f) PROVE ProcShape'
  <2>1. f \in Procs /\ f \notin Tasks
    BY QueueAssumption DEF Procs
  <2>2. \A a : By(a) \subseteq Msgs
    BY <1>0 DEF By, QueueShape
  <2>3. ASSUME SendBusy(f) PROVE ProcShape'
    BY <1>0, <2>1, <2>2, <2>3 DEF SendBusy, Goto, procs, ProcShape
  <2>4. ASSUME SendIdle(f) PROVE ProcShape'
    <3>1. (Goto(f, "done") \/ Goto(f, "add") \/ Goto(f, "gates")) /\ UNCHANGED <<held, todo>>
      BY <2>4 DEF SendIdle
    <3> QED
      BY <1>0, <1>7, <2>1, <3>1 DEF ProcShape
  <2>5. ASSUME Steered(f) PROVE ProcShape'
    BY <1>0, <2>1, <2>2, <2>5 DEF Steered, Goto, procs, ProcShape
  <2>6. ASSUME RecordSteer(f) PROVE ProcShape'
    BY <1>0, <2>1, <2>2, <2>6 DEF RecordSteer, Goto, procs, ProcShape
  <2>7. ASSUME SteerRefused(f) PROVE ProcShape'
    BY <1>0, <2>1, <2>2, <2>7 DEF SteerRefused, Goto, procs, ProcShape
  <2>8. ASSUME Add(f) PROVE ProcShape'
    <3>1. (Goto(f, "adding") \/ Goto(f, "added") \/ Goto(f, "done")) /\ UNCHANGED <<held, todo>>
      BY <2>8 DEF Add
    <3> QED
      BY <1>0, <1>7, <2>1, <3>1 DEF ProcShape
  <2>9. ASSUME Added(f) PROVE ProcShape'
    BY <1>0, <2>1, <2>2, <2>9 DEF Added, Goto, procs, ProcShape
  <2>10. ASSUME Refused(f) PROVE ProcShape'
    BY <1>0, <2>1, <2>2, <2>10 DEF Refused, Goto, procs, ProcShape
  <2>11. ASSUME QueueUntilReconnect(f) PROVE ProcShape'
    BY <1>0, <2>1, <2>2, <2>11 DEF QueueUntilReconnect, Goto, procs, ProcShape
  <2>12. ASSUME SendJob(f) PROVE ProcShape'
    BY <1>0, <2>1, <2>2, <2>12 DEF SendJob, Goto, procs, ProcShape
  <2>13. ASSUME StartTurn(f) PROVE ProcShape'
    BY <1>0, <2>1, <2>2, <2>13 DEF StartTurn, Goto, procs, ProcShape
  <2>14. ASSUME SendFailed(f) PROVE ProcShape'
    BY <1>0, <2>1, <2>2, <2>14 DEF SendFailed, Goto, procs, ProcShape
  <2> QED
    BY <1>1, <2>3, <2>4, <2>5, <2>6, <2>7,
       <2>8, <2>9, <2>10, <2>11, <2>12, <2>13, <2>14 DEF Handler
<1>2. ASSUME NEW t \in Tasks, Delivery(t) PROVE ProcShape'
  <2>1. t \in Procs
    BY DEF Procs
  <2>2. \A a : By(a) \subseteq Msgs
    BY <1>0 DEF By, QueueShape
  <2>3. ASSUME DeliverStart(t) PROVE ProcShape'
    <3> DEFINE first(a) == CHOOSE m \in By(a) : \A n \in By(a) : seqOf[m] <= seqOf[n]
               who == {Author[m] : m \in items}
               key == [a \in who |-> seqOf[first(a)]]
    <3>1. pc[t] = "off" /\ todo' = [todo EXCEPT ![t] = Ranked(who, key)] /\ Goto(t, "loop")
          /\ UNCHANGED held
      BY <2>3 DEF DeliverStart
    <3>2. ASSUME NEW a \in who PROVE \E m \in By(a) : key[a] = seqOf[m]
      <4>1. By(a) # {}
        BY DEF By
      <4>2. first(a) \in By(a)
        BY <2>2, <4>1, LeastNumber
      <4> HIDE DEF first
      <4> QED
        BY <4>2
    <3> HIDE DEF key
    <3>3. Ranked(who, key) \in Seq(Authors)
      <4>1. who = {Author[m] : m \in items}
        OBVIOUS
      <4> HIDE DEF who
      <4> QED
        BY <3>2, <4>1, VisitsAreAuthors
    <3> HIDE DEF who
    <3> QED
      BY <1>0, <2>1, <3>1, <3>3 DEF Goto, ProcShape
  <2>4. ASSUME DeliverNext(t) PROVE ProcShape'
    <3>1. CASE Goto(t, "off") /\ todo' = [todo EXCEPT ![t] = <<>>] /\ UNCHANGED held
      BY <1>0, <2>1, <3>1 DEF Goto, ProcShape
    <3>2. CASE /\ todo[t] # <<>> /\ todo' = [todo EXCEPT ![t] = Tail(@)] /\ UNCHANGED <<pc, held>>
               /\ pc[t] = "loop"
      BY <1>0, <2>1, <3>2 DEF ProcShape
    <3>3. CASE /\ todo[t] # <<>> /\ UNCHANGED todo /\ Goto(t, "starting")
               /\ \E a : held' = [held EXCEPT ![t] = By(a)]
      BY <1>0, <2>1, <2>2, <3>3 DEF Goto, ProcShape
    <3> QED
      BY <2>4, <3>1, <3>2, <3>3, Zenon DEF DeliverNext
  <2>5. ASSUME DeliverSent(t) PROVE ProcShape'
    BY <1>0, <2>1, <2>5 DEF DeliverSent, Launch, Goto, ProcShape
  <2>6. ASSUME DeliverDeferred(t) PROVE ProcShape'
    BY <1>0, <2>1, <2>6 DEF DeliverDeferred, Goto, ProcShape
  <2>7. ASSUME DeliverGated(t) PROVE ProcShape'
    BY <1>0, <2>1, <2>7 DEF DeliverGated, Goto, ProcShape
  <2> QED
    BY <1>2, <2>3, <2>4, <2>5, <2>6, <2>7 DEF Delivery
<1>3. ASSUME NEW a \in Authors, Viewer(a) \/ Revoke(a) \/ Connect(a) \/ Touch(a) PROVE ProcShape'
  <2>1. a \in Procs /\ a \notin Tasks
    BY QueueAssumption DEF Procs
  <2>2. By(a) \subseteq Msgs
    BY <1>0 DEF By, QueueShape
  <2>3. ASSUME DrainClaim(a) PROVE ProcShape'
    BY <1>0, <2>1, <2>2, <2>3 DEF DrainClaim, Goto, procs, ProcShape
  <2>4. ASSUME DrainGated(a) PROVE ProcShape'
    <3>1. /\ Goto(a, "letgo") \/ Goto(a, "dropping")
          /\ held' = [held EXCEPT ![a] = By(a)] /\ UNCHANGED todo
      BY <2>4 DEF DrainGated
    <3> QED
      BY <1>0, <1>7, <2>1, <2>2, <3>1 DEF ProcShape
  <2>5. ASSUME DrainTake(a) PROVE ProcShape'
    BY <1>0, <2>1, <2>2, <2>5 DEF DrainTake, Goto, procs, ProcShape
  <2>6. ASSUME DrainSent(a) PROVE ProcShape'
    BY <1>0, <2>1, <2>2, <2>6 DEF DrainSent, Launch, Goto, procs, ProcShape
  <2>7. ASSUME DrainDeferred(a) PROVE ProcShape'
    BY <1>0, <2>1, <2>2, <2>7 DEF DrainDeferred, Goto, procs, ProcShape
  <2>8. ASSUME DrainLetsGo(a) PROVE ProcShape'
    BY <1>0, <2>1, <2>2, <2>8 DEF DrainLetsGo, Goto, procs, ProcShape
  <2>9. ASSUME Revoke(a) PROVE ProcShape'
    BY <1>0, <2>1, <2>2, <2>9 DEF Revoke, Goto, procs, ProcShape
  <2>10. ASSUME Connect(a) \/ Touch(a) PROVE ProcShape'
    BY <1>0, <2>1, <2>2, <2>10 DEF Connect, Touch, Goto, procs, ProcShape
  <2> QED
    BY <1>3, <2>3, <2>4, <2>5, <2>6, <2>7, <2>8, <2>9, <2>10 DEF Viewer
<1>4. Stop \in Procs \ Tasks /\ Edit \in Procs \ Tasks /\ Ender \in Procs \ Tasks
  BY QueueAssumption DEF Procs
<1>5. ASSUME Turn PROVE ProcShape'
  <2>1. ASSUME AfterEnd PROVE ProcShape'
    <3> DEFINE S == {m \in items : Head(ends) # None /\ seqOf[m] <= Head(ends)}
    <3>1. S \subseteq Msgs
      BY <1>0 DEF QueueShape
    <3>2. /\ held' = [held EXCEPT ![Ender] = S] /\ UNCHANGED todo
          /\ UNCHANGED pc \/ Goto(Ender, "dropping")
      BY <2>1 DEF AfterEnd
    <3> HIDE DEF S
    <3>3. CASE UNCHANGED pc
      BY <1>0, <1>4, <3>1, <3>2, <3>3 DEF ProcShape
    <3>4. CASE Goto(Ender, "dropping")
      BY <1>0, <1>4, <3>1, <3>2, <3>4 DEF Goto, ProcShape
    <3> QED
      BY <3>2, <3>3, <3>4
  <2>2. ASSUME Turn, ~AfterEnd PROVE ProcShape'
    <3>1. UNCHANGED procs
      BY <2>2 DEF Turn, TurnEnds, TurnFails, PumpAccepts, PumpError, PumpDone, PumpDies, PumpEnds
    <3> QED
      BY <1>0, <3>1 DEF procs, ProcShape
  <2> QED
    BY <1>5, <2>1, <2>2
<1>6. ASSUME LoadRead \/ LoadEnd \/ RevokeEnds \/ UNCHANGED vars PROVE ProcShape'
  BY <1>0, <1>6 DEF LoadRead, LoadEnd, RevokeEnds, vars, procs, ProcShape
<1>8. ASSUME LaneRuns PROVE ProcShape'
  <2>1. PICK j : /\ j \in Jobs
                 /\ JobAdd(j) \/ JobAccept(j) \/ JobSend(j) \/ JobDrop(j) \/ JobEnd(j)
    BY <1>8, HeadJob DEF LaneRuns
  <2>2. UNCHANGED <<held, todo>>
    BY <1>8 DEF LaneRuns
  <2>3. \/ UNCHANGED pc
        \/ j.p \in Procs /\ (Goto(j.p, "added") \/ Goto(j.p, "stored") \/ Goto(j.p, "dropped"))
    BY <2>1 DEF Jobs, JobAdd, JobAccept, JobSend, JobDrop, JobEnd
  <2> QED
    BY <1>0, <1>7, <2>2, <2>3 DEF ProcShape
<1>9. ASSUME LaneFails PROVE ProcShape'
  <2>1. PICK j : j \in Jobs /\ JobFails(j)
    BY <1>9, HeadJob DEF LaneFails
  <2>2. UNCHANGED <<held, todo>>
    BY <1>9 DEF LaneFails
  <2>3. UNCHANGED pc \/ (j.p \in Procs /\ Goto(j.p, "failed"))
    BY <2>1 DEF Jobs, JobFails, Goto
  <2> QED
    BY <1>0, <1>7, <2>2, <2>3 DEF ProcShape
<1>10. ASSUME StopTurn \/ StopReturns \/ StopAborts PROVE ProcShape'
  <2>1. ASSUME StopTurn PROVE ProcShape'
    BY <1>0, <1>4, <2>1 DEF StopTurn, Goto, ProcShape
  <2>2. ASSUME StopReturns PROVE ProcShape'
    <3>1. /\ Goto(Stop, "abort") \/ Goto(Stop, "dropping")
          /\ held' = [held EXCEPT ![Stop] = items] /\ UNCHANGED todo
      BY <2>2 DEF StopReturns
    <3> QED
      BY <1>0, <1>4, <1>7, <3>1 DEF QueueShape, ProcShape
  <2>3. ASSUME StopAborts PROVE ProcShape'
    BY <1>0, <1>4, <2>3 DEF StopAborts, Goto, ProcShape
  <2> QED
    BY <1>10, <2>1, <2>2, <2>3
<1>11. ASSUME CancelSome PROVE ProcShape'
  <2>1. PICK S : Cancel(S) /\ S \subseteq items
    BY <1>11 DEF CancelSome, By
  <2> QED
    BY <1>0, <1>4, <2>1 DEF Cancel, QueueShape, Goto, ProcShape
<1>12. ASSUME Crash PROVE ProcShape'
  <2>1. /\ pc' = [p \in Procs |-> IF p \in Frames /\ pc[p] # "off" THEN "done" ELSE "off"]
        /\ held' = [p \in Procs |-> {}] /\ todo' = [p \in Procs |-> <<>>]
    BY <1>12 DEF Crash
  <2>2. \A p \in Procs : pc'[p] # "starting"
    BY <2>1
  <2>3. Tasks \subseteq Procs
    BY DEF Procs
  <2> QED
    BY <2>1, <2>2, <2>3 DEF ProcShape
<1>13. ASSUME NEW p \in Returners, GiveBack(p) PROVE ProcShape'
  <2>1. p \in Procs /\ Resume(p) \in Places \ {"starting"}
    BY DEF Returners, Procs, Resume
  <2> QED
    BY <1>0, <1>13, <2>1 DEF GiveBack, Goto, ProcShape
<1>14. ASSUME NEW p \in Returners, GiveBackFails(p) PROVE ProcShape'
  <2>1. p \in Procs
    BY DEF Returners, Procs
  <2> QED
    BY <1>0, <1>14, <2>1 DEF GiveBackFails, Goto, ProcShape
<1> QED
  BY <1>1, <1>2, <1>3, <1>5, <1>6, <1>8, <1>9, <1>10, <1>11, <1>12, <1>13, <1>14 DEF Next

LEMMA Submits ==
    ASSUME Shapes, NEW k \in JobKinds, NEW ids \in Seq(Msgs), NEW p \in Procs \cup {None},
           k \in {"add", "send", "drop"} => p \in Procs
    PROVE  /\ Job(k, ids, p) \in Jobs /\ Append(lane, Job(k, ids, p)) \in Seq(Jobs)
           /\ Job(k, ids, p).k = k /\ Job(k, ids, p).ids = ids /\ Job(k, ids, p).p = p
           /\ Job(k, ids, p).g = gen
<1>1. lane \in Seq(Jobs) /\ gen \in Nat
  BY DEF Shapes, TurnShape
<1>2. Job(k, ids, p) \in Jobs
  BY <1>1 DEF Job, Jobs
<1>3. Append(lane, Job(k, ids, p)) \in Seq(Jobs)
  BY <1>1, <1>2
<1> QED
  BY <1>2, <1>3 DEF Job

LEMMA Posts ==
    ASSUME Shapes, NEW k \in EventKinds, NEW ids \in Seq(Msgs)
    PROVE  [k |-> k, ids |-> ids] \in Events /\ Append(evq, [k |-> k, ids |-> ids]) \in Seq(Events)
<1>1. [k |-> k, ids |-> ids] \in Events
  BY DEF Events
<1> QED
  BY <1>1 DEF Shapes, TurnShape

LEMMA Failures ==
    Failure \in Seq(Events) /\ Head(Failure) \in Events /\ Len(Failure) = 2
    /\ Failure[1].k = "error" /\ Failure[1].ids = <<>> /\ Failure[2].k = "done" /\ Failure[2].ids = <<>>
    /\ Head(Failure) = Failure[1]
<1> DEFINE a == [k |-> "error", ids |-> <<>>]
           b == [k |-> "done", ids |-> <<>>]
<1>1. a \in Events /\ b \in Events
  BY DEF Events, EventKinds
<1>2. a.k = "error" /\ a.ids = <<>> /\ b.k = "done" /\ b.ids = <<>>
  OBVIOUS
<1>3. Failure = <<a, b>>
  BY DEF Failure
<1> HIDE DEF a, b
<1> QED
  BY <1>1, <1>2, <1>3

LEMMA Starts ==
    ASSUME NEW prod \in {"turn", "rows"}, NEW batch \in Seq(Msgs), NEW a \in Authors
    PROVE  /\ NewPump(prod, batch, a) \in Pumps /\ NewPump(prod, batch, a).st = "live"
           /\ NewPump(prod, batch, a).prod = prod /\ NewPump(prod, batch, a).batch = batch
           /\ ~NewPump(prod, batch, a).waits /\ NewPump(prod, batch, a).upto = None
           /\ NoPump \in Pumps /\ NoPump.st = "none"
<1>1. <<>> \in Seq(Msgs)
  OBVIOUS
<1>2. NoPump \in Pumps /\ NoPump.st = "none" /\ ~NoPump.waits /\ NoPump.upto = None
  BY <1>1 DEF NoPump, Pumps
<1>3. NewPump(prod, batch, a)
        = [NoPump EXCEPT !.st = "live", !.prod = prod, !.batch = batch, !.runner = a]
  BY DEF NewPump
<1> HIDE DEF NoPump
<1> QED
  BY <1>2, <1>3 DEF Pumps

\* The turn's variables over a launch.
LEMMA Launches ==
    ASSUME Shapes, NumInv, NEW p \in Procs, NEW a \in Authors, Launch(p, a)
    PROVE  /\ evq' = <<>> /\ gen' = gen + 1 /\ pump' \in Pumps /\ pump'.st = "live"
           /\ pump'.prod = "rows" /\ ~pump'.waits /\ pump'.upto = None
           /\ \E j \in Jobs : /\ lane' = Append(lane, j) /\ j.k = "accept" /\ j.p = None
                              /\ j.g = gen + 1 /\ ToSet(j.ids) = held[p] /\ Distinct(j.ids)
                              /\ pump'.batch = j.ids
           /\ accepted' = accepted \cup held[p] /\ held' = [held EXCEPT ![p] = {}]
           /\ claim' = None /\ armed' = armed
<1> DEFINE ids == InOrder(held[p])
           j == [k |-> "accept", ids |-> ids, p |-> None, g |-> gen + 1]
<1>1. ids \in Seq(Msgs) /\ ToSet(ids) = held[p] /\ Distinct(ids)
  BY InOrderIs DEF NumInv
<1>2. /\ pump' = NewPump("rows", ids, a) /\ evq' = <<>> /\ gen' = gen + 1
      /\ lane' = Append(lane, j) /\ accepted' = accepted \cup held[p]
      /\ held' = [held EXCEPT ![p] = {}] /\ claim' = None
      /\ armed' = (armed \/ (TRUE /\ items # {} /\ "live" # "live"))
  BY DEF Launch, Release
<1> HIDE DEF ids
<1>3. gen \in Nat /\ armed \in BOOLEAN
  BY DEF Shapes, TurnShape, QueueShape
<1>4. j \in Jobs /\ j.k = "accept" /\ j.p = None /\ j.g = gen + 1 /\ j.ids = ids
  BY <1>1, <1>3 DEF Jobs, JobKinds
<1>5. armed' = armed
  BY <1>2, <1>3
<1> HIDE DEF j
<1>6. /\ pump' \in Pumps /\ pump'.st = "live" /\ pump'.prod = "rows" /\ ~pump'.waits
      /\ pump'.upto = None /\ pump'.batch = ids
  <2> DEFINE n == NewPump("rows", ids, a)
  <2>1. /\ n \in Pumps /\ n.st = "live" /\ n.prod = "rows" /\ ~n.waits /\ n.upto = None
        /\ n.batch = ids
    <3>1. n \in Pumps
      BY <1>1, Starts
    <3>2. n.st = "live"
      BY <1>1, Starts
    <3>3. n.prod = "rows"
      BY <1>1, Starts
    <3>4. ~n.waits
      BY <1>1, Starts
    <3>5. n.upto = None /\ n.batch = ids
      BY <1>1, Starts
    <3> QED
      BY <3>1, <3>2, <3>3, <3>4, <3>5
  <2>2. pump' = n
    BY <1>2
  <2> HIDE DEF n
  <2> QED
    BY <2>1, <2>2
<1>7. /\ lane' = Append(lane, j) /\ ToSet(j.ids) = held[p] /\ Distinct(j.ids)
      /\ pump'.batch = j.ids
  BY <1>1, <1>2, <1>4, <1>6
<1> QED
  BY <1>2, <1>4, <1>5, <1>6, <1>7

LEMMA TurnShapeKept ==
    ASSUME Shapes, NumInv, [Next]_vars
    PROVE  TurnShape'
<1>0. QueueShape /\ TableShape /\ TurnShape /\ ProcShape /\ FateShape
  BY DEF Shapes
<1>a. /\ lane \in Seq(Jobs) /\ evq \in Seq(Events) /\ pump \in Pumps /\ gen \in Nat
      /\ stopGen \in Nat /\ ends \in Seq(Nat \cup {None})
  BY <1>0 DEF TurnShape
<1>b. /\ "done" \in EventKinds /\ "error" \in EventKinds /\ "turn" \in EventKinds
      /\ "steer" \in EventKinds
      /\ "add" \in JobKinds /\ "send" \in JobKinds /\ "drop" \in JobKinds /\ "steer" \in JobKinds
      /\ "turn" \in JobKinds
      /\ <<>> \in Seq(Msgs)
  BY DEF EventKinds, JobKinds
<1>c. /\ Append(evq, [k |-> "done", ids |-> <<>>]) \in Seq(Events)
      /\ evq \o Failure \in Seq(Events)
      /\ Append(evq, Head(Failure)) \in Seq(Events)
  <2>1. Failure \in Seq(Events) /\ Head(Failure) \in Events
    BY Failures
  <2>2. Append(evq, [k |-> "done", ids |-> <<>>]) \in Seq(Events)
    BY <1>b, Posts
  <2> HIDE DEF Failure
  <2> QED
    BY <1>a, <2>1, <2>2
<1>d. ASSUME NEW S, S \subseteq Numbered, NEW p \in Procs, NEW k \in {"drop", "send"}
      PROVE  Append(lane, Job(k, InOrder(S), p)) \in Seq(Jobs)
  BY <1>b, <1>d, InOrderIs, Submits
<1>e. \A a : By(a) \subseteq Numbered
  BY DEF By, NumInv
<1>f. ASSUME UNCHANGED <<turn, ends, stopGen>>, UNCHANGED lane \/ lane' \in Seq(Jobs)
      PROVE  TurnShape'
  BY <1>0, <1>f DEF turn, TurnShape
<1>1. ASSUME NEW f \in Frames, Handler(f) PROVE TurnShape'
  <2>1. Of[f] \in Msgs /\ <<Of[f]>> \in Seq(Msgs) /\ f \in Procs
    BY QueueAssumption DEF Procs
  <2>2. ASSUME \/ SendBusy(f) \/ SendIdle(f) \/ Steered(f) \/ SteerRefused(f) \/ Added(f)
               \/ Refused(f) \/ QueueUntilReconnect(f) \/ SendFailed(f)
        PROVE  TurnShape'
    BY <1>f, <2>2
       DEF SendBusy, SendIdle, Steered, SteerRefused, Added, Refused, QueueUntilReconnect,
           SendFailed
  <2>3. ASSUME RecordSteer(f) PROVE TurnShape'
    <3>1. Append(evq, [k |-> "steer", ids |-> <<Of[f]>>]) \in Seq(Events)
      BY <1>b, <2>1, Posts
    <3>2. Append(lane, Job("steer", <<Of[f]>>, f)) \in Seq(Jobs)
      BY <1>b, <2>1, Submits
    <3> QED
      BY <1>a, <2>3, <3>1, <3>2 DEF RecordSteer, Submit, TurnShape
  <2>4. ASSUME Add(f) PROVE TurnShape'
    <3>1. Append(lane, Job("add", <<Of[f]>>, f)) \in Seq(Jobs)
      BY <1>b, <2>1, Submits
    <3>2. UNCHANGED lane \/ lane' = Append(lane, Job("add", <<Of[f]>>, f))
      BY <2>4 DEF Add, Submit
    <3>3. UNCHANGED <<turn, ends, stopGen>>
      BY <2>4 DEF Add
    <3> QED
      BY <1>f, <3>1, <3>2, <3>3
  <2>5. ASSUME SendJob(f) PROVE TurnShape'
    <3> DEFINE ids == Append(InOrder(By(Who(f))), Of[f])
    <3>1. ids \in Seq(Msgs)
      BY <1>e, <2>1, InOrderIs
    <3>2. lane' = Append(lane, Job("send", ids, f)) /\ UNCHANGED <<turn, ends, stopGen>>
      BY <2>5 DEF SendJob, Submit
    <3> HIDE DEF ids
    <3> QED
      BY <1>b, <1>f, <2>1, <3>1, <3>2, Submits
  <2>6. ASSUME StartTurn(f) PROVE TurnShape'
    <3>1. NewPump("turn", <<>>, Who(f)) \in Pumps
      <4>1. Who(f) \in Authors
        BY <2>1, QueueAssumption DEF Who
      <4> QED
        BY <1>b, <4>1, Starts
    <3>2. UNCHANGED <<lane, ends, stopGen>>
      BY <2>6 DEF StartTurn
    <3>3. \/ UNCHANGED turn
          \/ pump' = NewPump("turn", <<>>, Who(f)) /\ evq' = <<>> /\ gen' = gen + 1
      BY <2>6 DEF StartTurn, turn
    <3>4. pump' \in Pumps /\ evq' \in Seq(Events) /\ gen' \in Nat
      <4>1. <<>> \in Seq(Events)
        OBVIOUS
      <4>2. CASE UNCHANGED turn
        BY <1>a, <4>2 DEF turn
      <4>3. CASE pump' = NewPump("turn", <<>>, Who(f)) /\ evq' = <<>> /\ gen' = gen + 1
        BY <1>a, <3>1, <4>1, <4>3
      <4> QED
        BY <3>3, <4>2, <4>3
    <3> QED
      BY <1>a, <3>2, <3>4 DEF TurnShape
  <2> QED
    BY <1>1, <2>2, <2>3, <2>4, <2>5, <2>6 DEF Handler
<1>2. ASSUME NEW p \in Procs, NEW a \in Authors, Launch(p, a), UNCHANGED <<ends, stopGen>>
      PROVE  TurnShape'
  <2>1. PICK j \in Jobs : lane' = Append(lane, j)
    BY <1>2, Launches
  <2>2. evq' = <<>> /\ gen' = gen + 1 /\ pump' \in Pumps
    BY <1>2, Launches
  <2> QED
    BY <1>a, <1>2, <2>1, <2>2 DEF TurnShape
<1>3. ASSUME NEW t \in Tasks, Delivery(t) PROVE TurnShape'
  <2>1. t \in Procs
    BY DEF Procs
  <2>2. ASSUME DeliverStart(t) \/ DeliverNext(t) \/ DeliverDeferred(t) PROVE TurnShape'
    BY <1>f, <2>2 DEF DeliverStart, DeliverNext, DeliverDeferred
  <2>3. ASSUME DeliverSent(t) PROVE TurnShape'
    <3>1. Head(todo[t]) \in Authors
      BY <1>0, <2>1, <2>3 DEF DeliverSent, ProcShape
    <3> QED
      BY <1>2, <2>1, <2>3, <3>1 DEF DeliverSent
  <2>4. ASSUME DeliverGated(t) PROVE TurnShape'
    <3>1. held[t] \subseteq Numbered
      BY <2>1 DEF NumInv
    <3> QED
      BY <1>d, <1>f, <2>1, <2>4, <3>1 DEF DeliverGated, Submit
  <2> QED
    BY <1>3, <2>2, <2>3, <2>4 DEF Delivery
<1>4. ASSUME NEW a \in Authors, Viewer(a) \/ Revoke(a) \/ Connect(a) \/ Touch(a) PROVE TurnShape'
  <2>1. a \in Procs
    BY DEF Procs
  <2>2. ASSUME \/ DrainClaim(a) \/ DrainTake(a) \/ DrainDeferred(a) \/ DrainLetsGo(a)
               \/ Revoke(a) \/ Connect(a) \/ Touch(a)
        PROVE  TurnShape'
    BY <1>f, <2>2 DEF DrainClaim, DrainTake, DrainDeferred, DrainLetsGo, Revoke, Connect, Touch
  <2>3. ASSUME DrainGated(a) PROVE TurnShape'
    BY <1>d, <1>e, <1>f, <2>1, <2>3 DEF DrainGated, Submit
  <2>4. ASSUME DrainSent(a) PROVE TurnShape'
    BY <1>2, <2>1, <2>4 DEF DrainSent
  <2> QED
    BY <1>4, <2>2, <2>3, <2>4 DEF Viewer
<1>5. ASSUME NEW up \in Nat \cup {None}, NEW completed \in BOOLEAN, LoopEnds(up, completed),
             UNCHANGED <<gen, ends, stopGen>>
      PROVE  TurnShape'
  <2>1. lane' \in Seq(Jobs) /\ evq' = <<>>
    <3>1. PICK tl \in Seq(Jobs) : lane' = lane \o tl
      BY <1>5, LoopEndsIs
    <3>2. evq' = <<>>
      BY <1>5 DEF LoopEnds
    <3> QED
      BY <1>a, <3>1, <3>2
  <2>2. pump' = [pump EXCEPT !.st = "done", !.prod = "ended", !.batch = <<>>, !.upto = up,
                             !.completed = completed]
    BY <1>5 DEF LoopEnds
  <2>3. pump' \in Pumps
    BY <1>a, <1>b, <1>5, <2>2 DEF Pumps
  <2> QED
    BY <1>a, <1>5, <2>1, <2>3 DEF TurnShape
<1>6. ASSUME Turn PROVE TurnShape'
  <2>1. ASSUME TurnEnds PROVE TurnShape'
    <3> DEFINE next == {m \in items : DrainAs(m)}
    <3>1. InOrder(next) \in Seq(Msgs)
      BY InOrderIs DEF NumInv
    <3>2. \/ /\ pump' = [pump EXCEPT !.prod = "accept", !.batch = InOrder(next)]
             /\ evq' = Append(evq, [k |-> "turn", ids |-> InOrder(next)])
          \/ /\ pump' = [pump EXCEPT !.prod = "ended"]
             /\ evq' = Append(evq, [k |-> "done", ids |-> <<>>])
      BY <2>1 DEF TurnEnds
    <3>3. UNCHANGED <<lane, gen, ends, stopGen>>
      BY <2>1 DEF TurnEnds
    <3> HIDE DEF next
    <3>4. evq' \in Seq(Events)
      BY <1>b, <1>c, <3>1, <3>2, Posts
    <3>5. pump' \in Pumps
      BY <1>a, <3>1, <3>2 DEF Pumps
    <3> QED
      BY <1>a, <3>3, <3>4, <3>5 DEF TurnShape
  <2>2. ASSUME TurnFails PROVE TurnShape'
    <3>1. pump' = [pump EXCEPT !.prod = "ended"] /\ evq' = evq \o Failure
          /\ UNCHANGED <<lane, gen, ends, stopGen>>
      BY <2>2 DEF TurnFails, Failure
    <3>2. pump' \in Pumps
      BY <1>a, <3>1 DEF Pumps
    <3> QED
      BY <1>a, <1>c, <3>1, <3>2 DEF TurnShape
  <2>3. ASSUME PumpAccepts PROVE TurnShape'
    <3>1. /\ evq # <<>> /\ Head(evq).k \in {"turn", "steer"}
          /\ lane' = Append(lane, Job(Head(evq).k, Head(evq).ids, None))
          /\ pump' = [pump EXCEPT !.waits = TRUE] /\ evq' = Tail(evq)
          /\ UNCHANGED <<gen, ends, stopGen>>
      BY <2>3 DEF PumpAccepts, PumpReads, Submit
    <3>2. lane' \in Seq(Jobs)
      <4>1. Head(evq).ids \in Seq(Msgs) /\ None \in Procs \cup {None}
        BY <3>1, HeadEvent
      <4>2. Head(evq).k \in JobKinds /\ Head(evq).k \notin {"add", "send", "drop"}
        BY <1>b, <3>1
      <4> QED
        BY <3>1, <4>1, <4>2, Submits
    <3>3. pump' \in Pumps
      BY <1>a, <3>1 DEF Pumps
    <3> QED
      BY <1>a, <3>1, <3>2, <3>3, HeadEvent DEF TurnShape
  <2>4. ASSUME PumpError PROVE TurnShape'
    BY <1>0, <1>5, <2>4 DEF PumpError, QueueShape
  <2>5. ASSUME PumpDone PROVE TurnShape'
    BY <1>5, <2>5 DEF PumpDone
  <2>6. ASSUME PumpDies PROVE TurnShape'
    BY <1>5, <2>6 DEF PumpDies
  <2>7. ASSUME PumpEnds PROVE TurnShape'
    <3> DEFINE up == IF pump.upto = None /\ ~pump.completed /\ ~pump.stopped THEN seq
                     ELSE pump.upto
    <3>1. up \in Nat \cup {None}
      BY <1>0, <1>a DEF Pumps, QueueShape
    <3>2. pump' = NoPump /\ ends' = Append(ends, up) /\ UNCHANGED <<lane, evq, gen, stopGen>>
      BY <2>7 DEF PumpEnds
    <3> HIDE DEF up
    <3>3. NoPump \in Pumps
      BY DEF NoPump, Pumps
    <3> QED
      BY <1>a, <3>1, <3>2, <3>3 DEF TurnShape
  <2>8. ASSUME AfterEnd PROVE TurnShape'
    <3> DEFINE S == {m \in items : Head(ends) # None /\ seqOf[m] <= Head(ends)}
    <3>1. S \subseteq Numbered
      BY DEF NumInv
    <3>2. /\ UNCHANGED lane \/ lane' = Append(lane, Job("drop", InOrder(S), Ender))
          /\ ends # <<>> /\ ends' = Tail(ends) /\ UNCHANGED <<turn, stopGen>>
      BY <2>8 DEF AfterEnd, Submit
    <3> HIDE DEF S
    <3>3. lane' \in Seq(Jobs)
      BY <1>a, <1>d, <3>1, <3>2 DEF Procs
    <3> QED
      BY <1>a, <3>2, <3>3 DEF turn, TurnShape
  <2> QED
    BY <1>6, <2>1, <2>2, <2>3, <2>4, <2>5, <2>6, <2>7, <2>8 DEF Turn
<1>7. ASSUME LoadRead \/ LoadEnd \/ RevokeEnds \/ UNCHANGED vars PROVE TurnShape'
  BY <1>f, <1>7 DEF LoadRead, LoadEnd, RevokeEnds, vars
<1>8. ASSUME LaneRuns PROVE TurnShape'
  <2>1. PICK j : /\ j \in Jobs /\ Tail(lane) \in Seq(Jobs) /\ lane' = Tail(lane)
                 /\ JobAdd(j) \/ JobAccept(j) \/ JobSend(j) \/ JobDrop(j) \/ JobEnd(j)
    BY <1>8, HeadJob DEF LaneRuns
  <2>2. ASSUME JobAccept(j) PROVE pump' \in Pumps
    BY <1>a, <1>b, <2>2 DEF JobAccept, Pumps
  <2>3. pump' \in Pumps
    BY <1>a, <2>1, <2>2 DEF JobAdd, JobSend, JobDrop, JobEnd
  <2>4. UNCHANGED <<evq, gen, ends, stopGen>>
    BY <1>8 DEF LaneRuns
  <2> QED
    BY <1>a, <2>1, <2>3, <2>4 DEF TurnShape
<1>9. ASSUME LaneFails PROVE TurnShape'
  <2>1. PICK j : j \in Jobs /\ Tail(lane) \in Seq(Jobs) /\ lane' = Tail(lane) /\ JobFails(j)
    BY <1>9, HeadJob DEF LaneFails
  <2>2. pump' = [pump EXCEPT !.waits = @ /\ ~PumpWaits(j),
                             !.prod = IF Waiter(j) THEN "ended" ELSE @,
                             !.batch = IF Waiter(j) THEN <<>> ELSE @]
        /\ \/ evq' = evq \o Failure \/ evq' = Append(evq, Head(Failure)) \/ UNCHANGED evq
    BY <2>1 DEF JobFails
  <2>3. pump' \in Pumps
    BY <1>a, <1>b, <2>2 DEF Pumps
  <2>4. UNCHANGED <<gen, ends, stopGen>>
    BY <1>9 DEF LaneFails
  <2> QED
    BY <1>a, <1>c, <2>1, <2>2, <2>3, <2>4 DEF TurnShape
<1>10. ASSUME StopTurn PROVE TurnShape'
  <2>1. pump' \in Pumps
    BY <1>a, <1>10 DEF StopTurn, Pumps
  <2> QED
    BY <1>a, <1>10, <2>1 DEF StopTurn, TurnShape
<1>11. Stop \in Procs /\ Edit \in Procs
  BY DEF Procs
<1>12. ASSUME StopReturns PROVE TurnShape'
  <2>1. items \subseteq Numbered
    BY DEF NumInv
  <2>2. UNCHANGED lane \/ lane' = Append(lane, Job("drop", InOrder(items), Stop))
    BY <1>12 DEF StopReturns, Submit
  <2>3. UNCHANGED <<turn, ends, stopGen>>
    BY <1>12 DEF StopReturns
  <2> QED
    BY <1>d, <1>f, <1>11, <2>1, <2>2, <2>3
<1>13. ASSUME StopAborts PROVE TurnShape'
  <2>1. \/ UNCHANGED <<pump, evq>>
        \/ /\ pump' = [pump EXCEPT !.prod = "ended", !.batch = <<>>]
           /\ evq' = Append(evq, [k |-> "done", ids |-> <<>>])
    BY <1>13 DEF StopAborts
  <2>2. UNCHANGED <<lane, gen, ends, stopGen>>
    BY <1>13 DEF StopAborts
  <2>3. pump' \in Pumps
    BY <1>a, <1>b, <2>1 DEF Pumps
  <2> QED
    BY <1>a, <1>c, <2>1, <2>2, <2>3 DEF TurnShape
<1>14. ASSUME CancelSome PROVE TurnShape'
  <2>1. PICK S : Cancel(S) /\ S \subseteq items
    BY <1>14 DEF CancelSome, By
  <2>2. S \subseteq Numbered
    BY <2>1 DEF NumInv
  <2>3. lane' = Append(lane, Job("drop", InOrder(S), Edit)) /\ UNCHANGED <<turn, ends, stopGen>>
    BY <2>1 DEF Cancel, Submit
  <2> QED
    BY <1>d, <1>f, <1>11, <2>2, <2>3
<1>15. ASSUME Crash PROVE TurnShape'
  <2>1. lane' = <<>> /\ pump' = NoPump /\ evq' = <<>> /\ ends' = <<>> /\ UNCHANGED <<gen, stopGen>>
    BY <1>15 DEF Crash
  <2>2. NoPump \in Pumps
    BY DEF NoPump, Pumps
  <2> QED
    BY <1>a, <2>1, <2>2 DEF TurnShape
<1>16. ASSUME NEW p \in Returners, GiveBack(p) \/ GiveBackFails(p) PROVE TurnShape'
  BY <1>f, <1>16 DEF GiveBack, GiveBackFails
<1> QED
  BY <1>1, <1>3, <1>4, <1>6, <1>7, <1>8, <1>9, <1>10, <1>12, <1>13, <1>14, <1>15, <1>16 DEF Next

-----------------------------------------------------------------------------
(* The steps, by what they do with the messages *)

fixed == <<seqOf, seq, dropped, ld, snap, rows, chat, revoking, sent, back, revoked, owed, lost>>

Mute == {evq, Append(evq, [k |-> "done", ids |-> <<>>]), evq \o Failure}

\* No message moves: a process goes on, a chip goes out, the turn is told to end.
Calm(p, to) ==
    /\ pc[p] \in {"off", "steer", "added", "gates", "loop", "letgo", "abort"}
    /\ to \in {"done", "steer", "add", "gates", "off", "loop", "stopping"}
    /\ p \in Frames => /\ pc[p] \in {"off", "steer", "added", "gates"}
                       /\ to # "off" /\ (pc[p] = "added" => to = "done")
    /\ pc[p] = "off" => ld = "yes" \/ to = "stopping"

Rests ==
    /\ UNCHANGED <<items, lane, held>> /\ evq' \in Mute
    /\ UNCHANGED pc \/ \E p \in Procs : \E to \in Places : Calm(p, to) /\ Goto(p, to)
    /\ ack' = ack \/ \E f \in Frames : pc[f] = "added" /\ ack' = ack \cup (items \cap {Of[f]})

\* Process p takes S, and has its rows dropped.
Takes(p, S) ==
    /\ S \subseteq items /\ items' = items \ S /\ held' = [held EXCEPT ![p] = S]
    /\ pc[p] \in {"off", "stopping", "loop", "gates"}
    /\ pc[p] \in {"off", "stopping"} => ld = "yes"
    /\ \/ lane' = lane /\ Goto(p, "starting")
       \/ lane' = lane /\ S = {}
          /\ (Goto(p, "letgo") \/ Goto(p, "abort") \/ (UNCHANGED pc /\ pc[p] = "off"))
       \/ lane' = Append(lane, Job("drop", InOrder(S), p)) /\ Goto(p, "dropping")
    /\ UNCHANGED <<evq, ack>>

Gates(t) ==
    /\ pc[t] = "starting" /\ Goto(t, "dropping")
    /\ lane' = Append(lane, Job("drop", InOrder(held[t]), t))
    /\ UNCHANGED <<items, held, evq, ack>>

\* Process p puts its batch back.
Defers(p) ==
    /\ pc[p] = "starting" /\ Goto(p, "off")
    /\ items' = PutBack(held[p]) /\ held' = [held EXCEPT ![p] = {}]
    /\ UNCHANGED <<lane, evq, ack>>

Launched(p) ==
    /\ pc[p] = "starting" /\ Goto(p, "off") /\ evq' = <<>>
    /\ \E j \in Jobs : /\ lane' = Append(lane, j) /\ j.k = "accept" /\ ToSet(j.ids) = held[p]
                       /\ Distinct(j.ids) /\ j.p = None /\ j.g = gen + 1
    /\ held' = [held EXCEPT ![p] = {}] /\ UNCHANGED <<items, ack>>

\* Process p forgets what it held.
LetsGo(p) ==
    /\ pc[p] = "failed" /\ held' = [held EXCEPT ![p] = {}]
    /\ \/ p \in Frames /\ Goto(p, "done")
       \/ p \notin Frames /\ (Goto(p, "letgo") \/ Goto(p, "off"))
    /\ UNCHANGED <<items, lane, evq, ack>>

Ended ==
    /\ \E up, completed : LoopEnds(up, completed)
    /\ UNCHANGED <<items, pc, held, ack>>

Outside == Tasks \cup Authors \cup {Stop, Edit, Ender}

Moved ==
    \/ Rests \/ Ended
    \/ \E p \in Outside : \E S \in SUBSET items : Takes(p, S)
    \/ \E t \in Tasks : Gates(t)
    \/ \E p \in Outside : Defers(p) \/ Launched(p)
    \/ \E p \in Procs : LetsGo(p)

Acted ==
    \/ LoadRead \/ LoadEnd
    \/ \E f \in Frames : Steered(f) \/ RecordSteer(f) \/ Add(f) \/ SendJob(f) \/ StartTurn(f)
    \/ (TurnEnds /\ items' # items) \/ PumpAccepts \/ LaneRuns \/ LaneFails
    \/ \E p \in Returners : GiveBack(p)
    \/ \E a \in Authors : Revoke(a)
    \/ RevokeEnds \/ Crash

LEMMA StepsAre ==
    ASSUME Shapes, NumInv, [Next]_vars
    PROVE  Acted \/ (Moved /\ UNCHANGED fixed)
<1>0. QueueShape /\ TableShape /\ TurnShape /\ ProcShape /\ FateShape
  BY DEF Shapes
<1> USE DEF fixed, loading, tables, fates
<1>a. evq \in Mute
  BY DEF Mute
<1>b. ASSUME NEW p \in Procs, NEW to \in Places, Calm(p, to), Goto(p, to),
             UNCHANGED <<items, lane, held, fixed>>, evq' \in Mute, UNCHANGED ack
      PROVE  Moved /\ UNCHANGED fixed
  BY <1>b DEF Moved, Rests
<1>c. ASSUME UNCHANGED <<items, lane, held, pc, ack, fixed>>, evq' \in Mute
      PROVE  Moved /\ UNCHANGED fixed
  BY <1>c DEF Moved, Rests
<1>d. /\ Places = {"off", "steer", "steered", "add", "adding", "added", "gates", "storing",
                   "stored", "failed", "done", "loop", "starting", "dropping", "dropped",
                   "letgo", "stopping", "abort"}
      /\ Frames \subseteq Procs /\ Outside \subseteq Procs /\ Outside \cap Frames = {}
      /\ Tasks \subseteq Outside /\ Authors \subseteq Outside
      /\ Stop \in Outside /\ Edit \in Outside /\ Ender \in Outside
  BY QueueAssumption DEF Places, Procs, Outside
<1>1. ASSUME NEW f \in Frames, Handler(f) PROVE Acted \/ (Moved /\ UNCHANGED fixed)
  <2>1. ASSUME SendBusy(f) PROVE Moved /\ UNCHANGED fixed
    <3>1. PICK to \in {"done", "steer", "add"} : Goto(f, to)
      BY <2>1 DEF SendBusy
    <3> QED
      BY <1>a, <1>b, <1>d, <2>1, <3>1 DEF SendBusy, Calm, queue, turn
  <2>2. ASSUME SendIdle(f) PROVE Moved /\ UNCHANGED fixed
    <3>1. PICK to \in {"done", "gates", "add"} : Goto(f, to)
      BY <2>2 DEF SendIdle
    <3> QED
      BY <1>a, <1>b, <1>d, <2>2, <3>1 DEF SendIdle, Calm, turn
  <2>3. ASSUME SteerRefused(f) PROVE Moved /\ UNCHANGED fixed
    BY <1>a, <1>b, <1>d, <2>3 DEF SteerRefused, Calm, queue, turn
  <2>4. ASSUME Added(f) PROVE Moved /\ UNCHANGED fixed
    <3>1. Calm(f, "done") /\ Goto(f, "done") /\ f \in Procs /\ "done" \in Places
      BY <1>d, <2>4 DEF Added, Calm
    <3>2. /\ UNCHANGED <<items, lane, held, evq, fixed>> /\ pc[f] = "added"
          /\ ack' = ack \cup (items \cap {Of[f]})
      BY <2>4 DEF Added, queue, turn
    <3> QED
      BY <1>a, <3>1, <3>2 DEF Moved, Rests
  <2>5. ASSUME Refused(f) PROVE Moved /\ UNCHANGED fixed
    BY <1>a, <1>b, <1>d, <2>5 DEF Refused, Calm, queue, turn
  <2>6. ASSUME QueueUntilReconnect(f) PROVE Moved /\ UNCHANGED fixed
    BY <1>a, <1>b, <1>d, <2>6 DEF QueueUntilReconnect, Calm, turn
  <2>7. ASSUME SendFailed(f) PROVE Moved /\ UNCHANGED fixed
    <3>1. LetsGo(f) /\ UNCHANGED fixed
      BY <2>7 DEF SendFailed, LetsGo, queue, turn
    <3> QED
      BY <1>d, <3>1 DEF Moved
  <2> QED
    BY <1>1, <2>1, <2>2, <2>3, <2>4, <2>5, <2>6, <2>7 DEF Handler, Acted
<1>2. ASSUME NEW p \in Procs, NEW a \in Authors, Launch(p, a), pc[p] = "starting", Goto(p, "off"),
             UNCHANGED <<items, ack>>
      PROVE  Launched(p)
  BY <1>2, Launches DEF Launched
<1>3. ASSUME NEW t \in Tasks, Delivery(t) PROVE Moved /\ UNCHANGED fixed
  <2>1. ASSUME DeliverStart(t) PROVE Moved /\ UNCHANGED fixed
    BY <1>a, <1>b, <1>d, <2>1 DEF DeliverStart, Calm, queue, turn
  <2>2. ASSUME DeliverNext(t) PROVE Moved /\ UNCHANGED fixed
    <3>1. UNCHANGED <<lane, evq, ack, fixed>> /\ pc[t] = "loop"
      BY <2>2 DEF DeliverNext, turn
    <3>2. CASE Goto(t, "off") /\ UNCHANGED <<items, held>>
      BY <1>a, <1>b, <1>d, <3>1, <3>2 DEF Calm
    <3>3. CASE UNCHANGED <<items, held, pc>>
      BY <1>a, <1>c, <3>1, <3>3
    <3>4. CASE \E S \in SUBSET items : /\ held' = [held EXCEPT ![t] = S] /\ items' = items \ S
                                       /\ Goto(t, "starting")
      <4>1. \E S \in SUBSET items : Takes(t, S)
        BY <3>1, <3>4 DEF Takes
      <4> QED
        BY <1>d, <3>1, <4>1 DEF Moved
    <3>5. \A a : By(a) \in SUBSET items
      BY DEF By
    <3> QED
      BY <2>2, <3>2, <3>3, <3>4, <3>5, Zenon DEF DeliverNext
  <2>3. ASSUME DeliverSent(t) PROVE Moved /\ UNCHANGED fixed
    <3>1. Head(todo[t]) \in Authors
      BY <1>0, <1>d, <2>3 DEF DeliverSent, ProcShape
    <3>2. Launched(t)
      BY <1>2, <1>d, <2>3, <3>1 DEF DeliverSent
    <3> QED
      BY <1>d, <2>3, <3>2 DEF DeliverSent, Moved
  <2>4. ASSUME DeliverDeferred(t) PROVE Moved /\ UNCHANGED fixed
    BY <1>d, <2>4 DEF DeliverDeferred, Defers, Moved, turn
  <2>5. ASSUME DeliverGated(t) PROVE Moved /\ UNCHANGED fixed
    BY <2>5 DEF DeliverGated, Gates, Moved, Submit, queue, turn
  <2> QED
    BY <1>3, <2>1, <2>2, <2>3, <2>4, <2>5 DEF Delivery
<1>4. ASSUME NEW a \in Authors, Viewer(a) \/ Connect(a) \/ Touch(a) PROVE Moved /\ UNCHANGED fixed
  <2>1. ASSUME DrainClaim(a) PROVE Moved /\ UNCHANGED fixed
    BY <1>a, <1>b, <1>d, <2>1 DEF DrainClaim, Calm, queue, turn
  <2>2. By(a) \in SUBSET items
    BY DEF By
  <2>3. ASSUME DrainGated(a) PROVE Moved /\ UNCHANGED fixed
    <3>1. Takes(a, By(a)) /\ UNCHANGED fixed
      BY <2>2, <2>3 DEF DrainGated, Takes, Submit, turn
    <3> QED
      BY <1>d, <2>2, <3>1 DEF Moved
  <2>4. ASSUME DrainTake(a) PROVE Moved /\ UNCHANGED fixed
    <3>1. Takes(a, By(a)) /\ UNCHANGED fixed
      BY <2>2, <2>4 DEF DrainTake, Takes, turn
    <3> QED
      BY <1>d, <2>2, <3>1 DEF Moved
  <2>5. ASSUME DrainSent(a) PROVE Moved /\ UNCHANGED fixed
    <3>1. Launched(a) /\ UNCHANGED fixed
      BY <1>2, <1>d, <2>5 DEF DrainSent
    <3> QED
      BY <1>d, <3>1 DEF Moved
  <2>6. ASSUME DrainDeferred(a) PROVE Moved /\ UNCHANGED fixed
    BY <1>d, <2>6 DEF DrainDeferred, Defers, Moved, turn
  <2>7. ASSUME DrainLetsGo(a) PROVE Moved /\ UNCHANGED fixed
    BY <1>a, <1>b, <1>d, <2>7, QueueAssumption DEF DrainLetsGo, Calm, queue, turn
  <2>8. ASSUME Connect(a) \/ Touch(a) PROVE Moved /\ UNCHANGED fixed
    BY <1>a, <1>c, <2>8 DEF Connect, Touch, queue, turn, procs
  <2> QED
    BY <1>4, <2>1, <2>3, <2>4, <2>5, <2>6, <2>7, <2>8 DEF Viewer
<1>5. ASSUME Turn PROVE Acted \/ (Moved /\ UNCHANGED fixed)
  <2>1. ASSUME TurnEnds, items' = items PROVE Moved /\ UNCHANGED fixed
    <3> DEFINE next == {m \in items : DrainAs(m)}
    <3>1. next = {}
      BY <2>1 DEF TurnEnds
    <3> QED
      BY <1>c, <2>1, <3>1 DEF TurnEnds, Mute, procs
  <2>2. ASSUME TurnFails PROVE Moved /\ UNCHANGED fixed
    BY <1>c, <2>2 DEF TurnFails, Mute, Failure, queue, procs
  <2>3. ASSUME PumpError \/ PumpDone \/ PumpDies PROVE Moved /\ UNCHANGED fixed
    BY <2>3 DEF PumpError, PumpDone, PumpDies, procs, Ended, Moved
  <2>4. ASSUME PumpEnds PROVE Moved /\ UNCHANGED fixed
    BY <1>a, <1>c, <2>4 DEF PumpEnds, queue, procs
  <2>5. ASSUME AfterEnd PROVE Moved /\ UNCHANGED fixed
    <3> DEFINE S == {m \in items : Head(ends) # None /\ seqOf[m] <= Head(ends)}
    <3>1. S \in SUBSET items
      OBVIOUS
    <3>2. /\ pc[Ender] = "off" /\ ld = "yes" /\ items' = items \ S
          /\ held' = [held EXCEPT ![Ender] = S] /\ UNCHANGED <<evq, ack, fixed>>
          /\ \/ S = {} /\ UNCHANGED <<lane, pc>>
             \/ /\ lane' = Append(lane, Job("drop", InOrder(S), Ender))
                /\ Goto(Ender, "dropping")
      BY <2>5, Zenon DEF AfterEnd, Submit, turn
    <3> HIDE DEF S
    <3>3. Takes(Ender, S)
      BY <3>1, <3>2 DEF Takes
    <3> QED
      BY <1>d, <3>1, <3>2, <3>3 DEF Moved
  <2> QED
    BY <1>5, <2>1, <2>2, <2>3, <2>4, <2>5 DEF Turn, Acted
<1>6. ASSUME StopTurn \/ StopAborts PROVE Moved /\ UNCHANGED fixed
  <2>1. ASSUME StopTurn PROVE Moved /\ UNCHANGED fixed
    BY <1>a, <1>b, <1>d, <2>1 DEF StopTurn, Calm, queue
  <2>2. ASSUME StopAborts PROVE Moved /\ UNCHANGED fixed
    BY <1>b, <1>d, <2>2 DEF StopAborts, Calm, Mute, queue
  <2> QED
    BY <1>6, <2>1, <2>2
<1>7. ASSUME StopReturns PROVE Moved /\ UNCHANGED fixed
  <2>1. Takes(Stop, items) /\ UNCHANGED fixed
    BY <1>7 DEF StopReturns, Takes, Submit, turn
  <2> QED
    BY <1>d, <2>1 DEF Moved
<1>8. ASSUME CancelSome PROVE Moved /\ UNCHANGED fixed
  <2>1. PICK S : Cancel(S) /\ S \in SUBSET items
    BY <1>8 DEF CancelSome, By
  <2>2. Takes(Edit, S) /\ UNCHANGED fixed
    BY <2>1 DEF Cancel, Takes, Submit, turn
  <2> QED
    BY <1>d, <2>1, <2>2 DEF Moved
<1>9. ASSUME NEW p \in Returners, GiveBackFails(p) PROVE Moved /\ UNCHANGED fixed
  <2>1. p \in Procs /\ p \notin Frames
    BY QueueAssumption DEF Returners, Procs
  <2>2. LetsGo(p) /\ UNCHANGED fixed
    BY <1>9, <2>1 DEF GiveBackFails, LetsGo, queue, turn
  <2> QED
    BY <2>1, <2>2 DEF Moved
<1>10. CASE UNCHANGED vars
  BY <1>a, <1>c, <1>10 DEF vars, queue, turn, procs
<1> QED
  BY <1>1, <1>3, <1>4, <1>5, <1>6, <1>7, <1>8, <1>9, <1>10 DEF Next, Acted

LEMMA MuteIs ==
    ASSUME Shapes, evq' \in Mute
    PROVE  /\ \A K : IdsOf(evq', K) = IdsOf(evq, K) /\ (Apart(evq, K) => Apart(evq', K))
           /\ (\A i \in 1..Len(evq) : Distinct(evq[i].ids))
                 => \A i \in 1..Len(evq') : Distinct(evq'[i].ids)
<1> DEFINE d == [k |-> "done", ids |-> <<>>]
<1>1. evq \in Seq(Events)
  BY DEF Shapes, TurnShape
<1>2. d \in Events /\ d.ids = <<>> /\ ToSet(<<>>) = {} /\ Distinct(<<>>)
  BY DEF Events, EventKinds, ToSet, Distinct
<1>3. CASE evq' = evq
  BY <1>3
<1>4. CASE evq' = Append(evq, d)
  <2> HIDE DEF d
  <2>1. ASSUME NEW K PROVE IdsOf(evq', K) = IdsOf(evq, K) /\ (Apart(evq, K) => Apart(evq', K))
    <3>1. ToSet(d.ids) = {}
      BY <1>2
    <3> QED
      BY <1>1, <1>2, <1>4, <3>1, IdsSkip
  <2>2. \A i \in 1..Len(evq') : (i \in 1..Len(evq) /\ evq'[i] = evq[i]) \/ evq'[i] = d
    BY <1>1, <1>2, <1>4
  <2> QED
    BY <1>2, <2>1, <2>2
<1>5. CASE evq' = evq \o Failure
  <2>1. /\ Failure \in Seq(Events) /\ Len(Failure) = 2
        /\ \A i \in 1..Len(Failure) : Failure[i].ids = <<>>
    <3>1. Failure \in Seq(Events) /\ Len(Failure) = 2 /\ Failure[1].ids = <<>> /\ Failure[2].ids = <<>>
      BY Failures
    <3>2. 1..2 = {1, 2}
      OBVIOUS
    <3> HIDE DEF Failure
    <3> QED
      BY <3>1, <3>2
  <2> HIDE DEF d
  <2>2. ASSUME NEW K PROVE IdsOf(Failure, K) = {} /\ Apart(Failure, K)
    BY <1>2, <2>1, IdsMember DEF Apart
  <2> HIDE DEF Failure
  <2>3. ASSUME NEW K PROVE IdsOf(evq', K) = IdsOf(evq, K) /\ (Apart(evq, K) => Apart(evq', K))
    <3>1. IdsOf(evq \o Failure, K) = IdsOf(evq, K) \cup IdsOf(Failure, K)
      BY <1>1, <2>1, IdsConcat
    <3>2. Apart(evq, K) /\ Apart(Failure, K) /\ IdsOf(evq, K) \cap IdsOf(Failure, K) = {}
            => Apart(evq \o Failure, K)
      BY <1>1, <2>1, IdsConcat
    <3> QED
      BY <1>5, <2>2, <3>1, <3>2
  <2>4. \A i \in 1..Len(evq') : \/ i \in 1..Len(evq) /\ evq'[i] = evq[i]
                                \/ evq'[i].ids = <<>>
    <3>1. ASSUME NEW i \in 1..Len(evq'), i \notin 1..Len(evq)
          PROVE  i - Len(evq) \in 1..Len(Failure) /\ evq'[i] = Failure[i - Len(evq)]
      <4> DEFINE w == evq \o Failure
      <4>0. /\ Len(w) = Len(evq) + Len(Failure)
            /\ \A n \in 1..Len(evq) + Len(Failure) :
                 w[n] = IF n <= Len(evq) THEN evq[n] ELSE Failure[n - Len(evq)]
        BY <1>1, <2>1, ConcatProperties
      <4>2. evq' = w
        BY <1>5
      <4> HIDE DEF w
      <4>1. /\ Len(evq') = Len(evq) + Len(Failure) /\ Len(evq) \in Nat /\ Len(Failure) \in Nat
            /\ \A n \in 1..Len(evq') :
                 evq'[n] = IF n <= Len(evq) THEN evq[n] ELSE Failure[n - Len(evq)]
        BY <1>1, <2>1, <4>0, <4>2
      <4> QED
        BY <3>1, <4>1
    <3>2. \A i \in 1..Len(evq) : evq'[i] = evq[i]
      BY <1>1, <1>5, <2>1
    <3> QED
      BY <2>1, <3>1, <3>2
  <2> QED
    BY <1>2, <2>3, <2>4
<1> QED
  BY <1>3, <1>4, <1>5 DEF Mute

LEMMA NumbersKept ==
    ASSUME Shapes, NumInv, [Next]_vars
    PROVE  NumInv'
<1>0. QueueShape /\ TableShape /\ TurnShape /\ ProcShape /\ FateShape
  BY DEF Shapes
<1> DEFINE Turns == {"turn"}
           Backs == {"accept", "turn"}
<1>a. ASSUME UNCHANGED <<seqOf, seq>>, items' \subseteq Numbered,
             \A p \in Procs : held'[p] \subseteq Numbered,
             IdsOf(evq', Turns) \subseteq Numbered, IdsOf(lane', Backs) \subseteq Numbered
      PROVE  NumInv'
  BY <1>a DEF NumInv, Numbered
<1>b. /\ items \subseteq Numbered /\ \A p \in Procs : held[p] \subseteq Numbered
      /\ IdsOf(evq, Turns) \subseteq Numbered /\ IdsOf(lane, Backs) \subseteq Numbered
  BY DEF NumInv
<1>c. lane \in Seq(Jobs) /\ evq \in Seq(Events) /\ held \in [Procs -> SUBSET Msgs]
  BY <1>0 DEF TurnShape, ProcShape
<1>d. /\ \A p \in Procs, S \in SUBSET Numbered :
           held' = [held EXCEPT ![p] = S] => \A q \in Procs : held'[q] \subseteq Numbered
      /\ \A p \in Procs : PutBack(held[p]) \subseteq Numbered
  BY <1>b, <1>c DEF PutBack
<1> HIDE DEF Turns, Backs
<1>e. ASSUME NEW j \in Jobs, lane' = Append(lane, j), j.k \in {"accept", "turn"} => ToSet(j.ids) \subseteq Numbered
      PROVE  IdsOf(lane', Backs) \subseteq Numbered
  <2>1. IdsOf(lane', Backs) = IdsOf(lane, Backs) \cup (IF j.k \in Backs THEN ToSet(j.ids) ELSE {})
    BY <1>c, <1>e, IdsAppend
  <2> QED
    BY <1>b, <1>e, <2>1 DEF Backs
<1>f. ASSUME NEW S \in SUBSET Numbered, NEW p \in Procs, NEW k \in {"drop", "send"},
             lane' = Append(lane, Job(k, InOrder(S), p))
      PROVE  IdsOf(lane', Backs) \subseteq Numbered
  <2>1. InOrder(S) \in Seq(Msgs) /\ k \in JobKinds
    BY InOrderIs DEF JobKinds
  <2> QED
    BY <1>e, <1>f, <2>1, Submits
<1>g. ASSUME evq # <<>> PROVE IdsOf(Tail(evq), Turns) \subseteq Numbered
  BY <1>b, <1>c, <1>g, IdsTail
<1>h. ASSUME lane # <<>> PROVE /\ IdsOf(Tail(lane), Backs) \subseteq Numbered
                               /\ Head(lane).k \in {"accept", "turn"} => ToSet(Head(lane).ids) \subseteq Numbered
  BY <1>b, <1>c, <1>h, IdsTail DEF Backs
<1>i. IdsOf(<<>>, Turns) = {} /\ IdsOf(<<>>, Backs) = {}
  BY IdsEmpty
<1>j. ASSUME Moved, UNCHANGED fixed PROVE NumInv'
  <2>0. UNCHANGED <<seqOf, seq>>
    BY <1>j DEF fixed
  <2>1. CASE Rests
    BY <1>a, <1>b, <2>0, <2>1, MuteIs DEF Rests
  <2>2. CASE Ended
    <3>1. evq' = <<>> /\ \E tl \in Seq(Jobs) : lane' = lane \o tl /\ IdsOf(tl, Backs) = {}
      BY <2>2, LoopEndsIs DEF Ended, Backs
    <3>2. IdsOf(lane', Backs) = IdsOf(lane, Backs)
      <4>1. PICK tl \in Seq(Jobs) : lane' = lane \o tl /\ IdsOf(tl, Backs) = {}
        BY <3>1
      <4>2. IdsOf(lane \o tl, Backs) = IdsOf(lane, Backs) \cup IdsOf(tl, Backs)
        BY <1>c, IdsConcat
      <4> QED
        BY <4>1, <4>2
    <3> QED
      BY <1>a, <1>b, <1>i, <2>0, <2>2, <3>1, <3>2 DEF Ended
  <2>3. ASSUME NEW p \in Outside, NEW S \in SUBSET items, Takes(p, S) PROVE NumInv'
    <3>1. p \in Procs /\ S \in SUBSET Numbered /\ items' \subseteq Numbered
      BY <1>b, <2>3 DEF Outside, Procs, Takes
    <3>2. held' = [held EXCEPT ![p] = S] /\ evq' = evq
      BY <2>3 DEF Takes
    <3>3. lane' = lane \/ lane' = Append(lane, Job("drop", InOrder(S), p))
      BY <2>3 DEF Takes
    <3>4. IdsOf(lane', Backs) \subseteq Numbered
      BY <1>b, <1>f, <3>1, <3>3
    <3> QED
      BY <1>a, <1>b, <1>d, <2>0, <3>1, <3>2, <3>4
  <2>4. ASSUME NEW t \in Tasks, Gates(t) PROVE NumInv'
    <3>1. t \in Procs /\ held[t] \in SUBSET Numbered
      BY <1>b DEF Procs
    <3>2. IdsOf(lane', Backs) \subseteq Numbered
      BY <1>f, <2>4, <3>1 DEF Gates
    <3> QED
      BY <1>a, <1>b, <2>0, <2>4, <3>2 DEF Gates
  <2>5. ASSUME NEW p \in Outside, Defers(p) PROVE NumInv'
    <3>1. p \in Procs
      BY DEF Outside, Procs
    <3> QED
      BY <1>a, <1>b, <1>d, <2>0, <2>5, <3>1 DEF Defers
  <2>6. ASSUME NEW p \in Outside, Launched(p) PROVE NumInv'
    <3>1. p \in Procs /\ held[p] \in SUBSET Numbered
      BY <1>b DEF Outside, Procs
    <3>2. IdsOf(lane', Backs) \subseteq Numbered
      BY <1>e, <2>6, <3>1 DEF Launched
    <3> QED
      BY <1>a, <1>b, <1>d, <1>i, <2>0, <2>6, <3>1, <3>2 DEF Launched
  <2>7. ASSUME NEW p \in Procs, LetsGo(p) PROVE NumInv'
    BY <1>a, <1>b, <1>d, <2>0, <2>7 DEF LetsGo
  <2> QED
    BY <1>j, <2>1, <2>2, <2>3, <2>4, <2>5, <2>6, <2>7 DEF Moved
<1>1. ASSUME LoadRead PROVE NumInv'
  BY <1>a, <1>b, <1>1 DEF LoadRead, queue, turn, procs
<1>2. ASSUME LoadEnd PROVE NumInv'
  <2> DEFINE new == Without(snap, items)
  <2>1. /\ new \in Seq(Msgs) /\ Len(new) \in Nat /\ ToSet(new) \subseteq Msgs
        /\ ToSet(new) = ToSet(snap) \ items
        /\ items' = items \cup ToSet(new) /\ seq' = seq + Len(new)
        /\ \A m \in ToSet(new) : \E i \in 1..Len(new) : new[i] = m /\ seqOf'[m] = seq + i
        /\ \A m \in Msgs \ ToSet(new) : seqOf'[m] = seqOf[m]
        /\ seqOf' \in [Msgs -> Nat]
    BY <1>2, LoadsIs
  <2>2. UNCHANGED <<held, evq, lane>>
    BY <1>2 DEF LoadEnd, turn, procs
  <2> HIDE DEF new
  <2>3. seqOf \in [Msgs -> Nat] /\ seq \in Nat
    BY <1>0 DEF QueueShape
  <2>4. \A m \in ToSet(new) : seqOf'[m] > seq /\ seqOf'[m] <= seq'
    BY <2>1, <2>3
  <2>5. \A m \in Msgs : seqOf[m] <= seq
    BY DEF NumInv
  <2>6. Numbered \subseteq Numbered' /\ ToSet(new) \subseteq Numbered'
    BY <2>1, <2>3, <2>4 DEF Numbered
  <2>7. \A m \in Msgs : seqOf'[m] <= seq'
    BY <2>1, <2>3, <2>4, <2>5
  <2>8. ASSUME NEW m \in Msgs, NEW n \in Msgs, seqOf'[m] = seqOf'[n], m \in Numbered' PROVE m = n
    <3>1. CASE m \in ToSet(new) /\ n \in ToSet(new)
      <4>1. PICK i \in 1..Len(new) : new[i] = m /\ seqOf'[m] = seq + i
        BY <2>1, <3>1
      <4>2. PICK k \in 1..Len(new) : new[k] = n /\ seqOf'[n] = seq + k
        BY <2>1, <3>1
      <4>3. i = k
        <5>1. seq \in Nat /\ Len(new) \in Nat
          BY <2>1, <2>3
        <5>2. seq + i = seq + k
          BY <2>8, <4>1, <4>2, Zenon
        <5> QED
          BY <5>1, <5>2
      <4> QED
        BY <4>1, <4>2, <4>3
    <3>2. CASE m \notin ToSet(new) /\ n \notin ToSet(new)
      BY <2>1, <2>8, <3>2 DEF NumInv, Numbered
    <3>3. CASE m \in ToSet(new) /\ n \notin ToSet(new)
      BY <2>1, <2>3, <2>4, <2>5, <2>8, <3>3
    <3>4. CASE m \notin ToSet(new) /\ n \in ToSet(new)
      BY <2>1, <2>3, <2>4, <2>5, <2>8, <3>4
    <3> QED
      BY <3>1, <3>2, <3>3, <3>4
  <2>9. /\ items' \subseteq Numbered' /\ \A p \in Procs : held'[p] \subseteq Numbered'
        /\ IdsOf(evq', {"turn"}) \subseteq Numbered'
        /\ IdsOf(lane', {"accept", "turn"}) \subseteq Numbered'
    BY <1>b, <2>1, <2>2, <2>6 DEF Turns, Backs
  <2> QED
    BY <2>7, <2>8, <2>9 DEF NumInv
<1>3. ASSUME NEW f \in Frames, Add(f) PROVE NumInv'
  <2>1. Of[f] \in Msgs /\ <<Of[f]>> \in Seq(Msgs) /\ f \in Procs
    BY QueueAssumption DEF Procs
  <2>2. CASE UNCHANGED <<items, seq, seqOf, lane>>
    BY <1>a, <1>b, <1>3, <2>2 DEF Add, turn
  <2>3. CASE /\ items' = items \cup {Of[f]} /\ seq' = seq + 1
             /\ seqOf' = [seqOf EXCEPT ![Of[f]] = seq + 1]
             /\ Submit(Job("add", <<Of[f]>>, f)) /\ Of[f] \notin items
    <3>1. seqOf \in [Msgs -> Nat] /\ seq \in Nat
      BY <1>0 DEF QueueShape
    <3>2. \A m \in Msgs : seqOf[m] <= seq
      BY DEF NumInv
    <3>3. \A m \in Msgs : seqOf'[m] = IF m = Of[f] THEN seq + 1 ELSE seqOf[m]
      BY <2>1, <2>3, <3>1
    <3>4. Numbered \subseteq Numbered' /\ Of[f] \in Numbered'
      BY <2>1, <3>1, <3>3 DEF Numbered
    <3>5. IdsOf(lane', Backs) = IdsOf(lane, Backs)
      <4> DEFINE j == Job("add", <<Of[f]>>, f)
      <4>1. j \in Jobs /\ j.k = "add" /\ lane' = Append(lane, j)
        <5>1. "add" \in JobKinds /\ f \in Procs \cup {None}
          BY <2>1 DEF JobKinds
        <5>2. j.k = "add"
          BY DEF Job
        <5>3. j \in Jobs
          BY <2>1, <5>1, Submits
        <5> QED
          BY <2>3, <5>2, <5>3 DEF Submit
      <4> HIDE DEF j
      <4>2. j.k \notin Backs
        BY <4>1 DEF Backs
      <4> QED
        BY <1>c, <4>1, <4>2, IdsSkip
    <3>6. UNCHANGED <<held, evq>>
      BY <1>3 DEF Add, turn
    <3>7. /\ \A m \in Msgs : seqOf'[m] <= seq'
          /\ \A m, n \in Msgs : seqOf'[m] = seqOf'[n] /\ m \in Numbered' => m = n
      <4>1. \A m \in Msgs : seqOf'[m] <= seq'
        BY <2>3, <3>1, <3>2, <3>3
      <4>2. ASSUME NEW m \in Msgs, NEW n \in Msgs, seqOf'[m] = seqOf'[n], m \in Numbered'
            PROVE  m = n
        <5>1. CASE m # Of[f] /\ n # Of[f]
          BY <3>3, <4>2, <5>1 DEF NumInv, Numbered
        <5>2. CASE m = Of[f] \/ n = Of[f]
          BY <3>1, <3>2, <3>3, <4>2, <5>2
        <5> QED
          BY <5>1, <5>2
      <4> QED
        BY <4>1, <4>2
    <3>8. /\ items' \subseteq Numbered' /\ \A p \in Procs : held'[p] \subseteq Numbered'
          /\ IdsOf(evq', {"turn"}) \subseteq Numbered'
          /\ IdsOf(lane', {"accept", "turn"}) \subseteq Numbered'
      BY <1>b, <2>3, <3>4, <3>5, <3>6 DEF Turns, Backs
    <3> QED
      BY <3>7, <3>8 DEF NumInv
  <2> QED
    BY <1>3, <2>2, <2>3 DEF Add
<1>4. ASSUME NEW f \in Frames, Steered(f) \/ RecordSteer(f) \/ SendJob(f) \/ StartTurn(f)
      PROVE  NumInv'
  <2>1. Of[f] \in Msgs /\ <<Of[f]>> \in Seq(Msgs) /\ f \in Procs
    BY QueueAssumption DEF Procs
  <2>2. ASSUME Steered(f) PROVE NumInv'
    BY <1>a, <1>b, <2>2 DEF Steered, queue, turn
  <2>3. ASSUME RecordSteer(f) PROVE NumInv'
    <3> DEFINE j == Job("steer", <<Of[f]>>, f)
               e == [k |-> "steer", ids |-> <<Of[f]>>]
    <3>1. j \in Jobs /\ j.k = "steer" /\ e \in Events /\ e.k = "steer"
      <4>1. /\ "steer" \in JobKinds /\ "steer" \in EventKinds /\ f \in Procs \cup {None}
            /\ "steer" \notin {"add", "send", "drop"}
        BY <2>1 DEF JobKinds, EventKinds
      <4>2. j.k = "steer"
        BY DEF Job
      <4>4. j \in Jobs
        BY <2>1, <4>1, Submits
      <4>3. e \in Events
        BY <2>1, <4>1, Posts
      <4> QED
        BY <4>2, <4>3, <4>4
    <3>2. /\ UNCHANGED <<seqOf, seq, items, held>>
          /\ lane' = lane \/ lane' = Append(lane, j)
          /\ evq' = evq \/ evq' = Append(evq, e)
      BY <2>3 DEF RecordSteer, Submit
    <3> HIDE DEF j, e
    <3>3. IdsOf(lane', Backs) \subseteq Numbered
      BY <1>b, <1>e, <3>1, <3>2
    <3>4. IdsOf(evq', Turns) = IdsOf(evq, Turns)
      <4>1. e.k \notin Turns
        BY <3>1 DEF Turns
      <4>2. IdsOf(Append(evq, e), Turns) = IdsOf(evq, Turns)
        BY <1>c, <3>1, <4>1, IdsSkip
      <4> QED
        BY <3>2, <4>2
    <3> QED
      BY <1>a, <1>b, <3>2, <3>3, <3>4
  <2>4. ASSUME SendJob(f) PROVE NumInv'
    <3> DEFINE S == By(Who(f))
               j == Job("send", Append(InOrder(S), Of[f]), f)
    <3>1. S \in SUBSET Numbered /\ S \subseteq items
      BY <1>b DEF By
    <3>2. j \in Jobs /\ j.k = "send"
      <4>1. Append(InOrder(S), Of[f]) \in Seq(Msgs)
        BY <2>1, <3>1, InOrderIs
      <4> QED
        <5>1. "send" \in JobKinds /\ f \in Procs \cup {None}
          BY <2>1 DEF JobKinds
        <5>2. j.k = "send"
          BY DEF Job
        <5>3. j \in Jobs
          BY <2>1, <4>1, <5>1, Submits
        <5> QED
          BY <5>2, <5>3
    <3>3. /\ items' = items \ S /\ held' = [held EXCEPT ![f] = S] /\ lane' = Append(lane, j)
          /\ UNCHANGED <<seqOf, seq, evq>>
      BY <2>4 DEF SendJob, Submit, turn
    <3> HIDE DEF S, j
    <3>4. IdsOf(lane', Backs) \subseteq Numbered
      BY <1>e, <3>2, <3>3
    <3> QED
      BY <1>a, <1>b, <1>d, <2>1, <3>1, <3>3, <3>4
  <2>5. ASSUME StartTurn(f) PROVE NumInv'
    <3>1. /\ UNCHANGED <<seqOf, seq, items, lane>> /\ held' = [held EXCEPT ![f] = {}]
          /\ evq' = evq \/ evq' = <<>>
      BY <2>5 DEF StartTurn, queue, turn
    <3> QED
      BY <1>a, <1>b, <1>d, <1>i, <2>1, <3>1
  <2> QED
    BY <1>4, <2>2, <2>3, <2>4, <2>5
<1>5. ASSUME TurnEnds PROVE NumInv'
  <2> DEFINE next == {m \in items : DrainAs(m)}
             e == [k |-> "turn", ids |-> InOrder(next)]
             d == [k |-> "done", ids |-> <<>>]
  <2>1. next \in SUBSET Numbered
    BY <1>b
  <2>2. InOrder(next) \in Seq(Msgs) /\ ToSet(InOrder(next)) = next
    <3> HIDE DEF next
    <3> QED
      BY <2>1, InOrderIs
  <2>3. e \in Events /\ ToSet(e.ids) = next /\ d \in Events /\ d.k = "done"
    <3>1. "turn" \in EventKinds /\ "done" \in EventKinds /\ <<>> \in Seq(Msgs)
      BY DEF EventKinds
    <3> HIDE DEF next
    <3>2. e \in Events /\ e.ids = InOrder(next) /\ d \in Events /\ d.k = "done"
      BY <2>2, <3>1, Posts
    <3> HIDE DEF e, d
    <3> QED
      BY <2>2, <3>2
  <2>4. /\ items' \subseteq items /\ UNCHANGED <<seqOf, seq, held, lane>>
        /\ evq' = Append(evq, e) \/ evq' = Append(evq, d)
    BY <1>5 DEF TurnEnds, procs
  <2> HIDE DEF next, e, d
  <2>5. IdsOf(evq', Turns) \subseteq Numbered
    <3>1. CASE evq' = Append(evq, e)
      <4>1. IdsOf(Append(evq, e), Turns)
              = IdsOf(evq, Turns) \cup (IF e.k \in Turns THEN ToSet(e.ids) ELSE {})
        BY <1>c, <2>3, IdsAppend
      <4> QED
        BY <1>b, <2>1, <2>3, <3>1, <4>1
    <3>2. CASE evq' = Append(evq, d)
      <4>1. d.k \notin Turns
        BY <2>3 DEF Turns
      <4> QED
        BY <1>b, <1>c, <2>3, <3>2, <4>1, IdsSkip
    <3> QED
      BY <2>4, <3>1, <3>2
  <2> QED
    BY <1>a, <1>b, <2>4, <2>5
<1>6. ASSUME PumpAccepts PROVE NumInv'
  <2>1. /\ evq # <<>> /\ Head(evq).k \in {"turn", "steer"}
        /\ lane' = Append(lane, Job(Head(evq).k, Head(evq).ids, None)) /\ evq' = Tail(evq)
        /\ UNCHANGED <<seqOf, seq, items, held>>
    BY <1>6 DEF PumpAccepts, PumpReads, Submit, procs
  <2> DEFINE j == Job(Head(evq).k, Head(evq).ids, None)
  <2>2. j \in Jobs /\ j.k = Head(evq).k /\ j.ids = Head(evq).ids
    <3>1. Head(evq).ids \in Seq(Msgs)
      BY <2>1, HeadEvent
    <3>2. Head(evq).k \in JobKinds /\ Head(evq).k \notin {"add", "send", "drop"}
      BY <2>1 DEF JobKinds
    <3> QED
      BY <3>1, <3>2, Submits
  <2> HIDE DEF j
  <2>3. j.k = "turn" => ToSet(j.ids) \subseteq Numbered
    BY <1>b, <1>c, <2>1, <2>2, IdsTail DEF Turns
  <2>4. IdsOf(lane', Backs) \subseteq Numbered
    BY <1>e, <2>1, <2>2, <2>3 DEF j
  <2> QED
    BY <1>a, <1>b, <1>g, <2>1, <2>4
<1>7. ASSUME LaneRuns PROVE NumInv'
  BY <1>a, <1>b, <1>h, <1>7 DEF LaneRuns, queue
<1>8. ASSUME LaneFails PROVE NumInv'
  <2>1. /\ lane # <<>> /\ lane' = Tail(lane) /\ JobFails(Head(lane)) /\ UNCHANGED <<seqOf, seq, held>>
    BY <1>8 DEF LaneFails
  <2>2. items' \subseteq Numbered
    BY <1>b, <1>h, <2>1 DEF JobFails, PutBack
  <2>3. evq' \in Mute \/ evq' = Append(evq, Head(Failure))
    BY <2>1 DEF JobFails, Mute
  <2>4. IdsOf(evq', Turns) = IdsOf(evq, Turns)
    <3>1. CASE evq' \in Mute
      BY <3>1, MuteIs
    <3>2. CASE evq' = Append(evq, Head(Failure))
      <4>1. Head(Failure) \in Events /\ Head(Failure).k \notin Turns
        BY Failures DEF Turns
      <4> HIDE DEF Failure
      <4> QED
        BY <1>c, <3>2, <4>1, IdsSkip
    <3> QED
      BY <2>3, <3>1, <3>2
  <2> QED
    BY <1>a, <1>b, <1>h, <2>1, <2>2, <2>4
<1>9. ASSUME NEW p \in Returners, GiveBack(p) PROVE NumInv'
  <2>1. p \in Procs
    BY DEF Returners, Procs
  <2> QED
    BY <1>a, <1>b, <1>d, <1>9, <2>1 DEF GiveBack, queue, turn
<1>10. ASSUME NEW a \in Authors, Revoke(a) PROVE NumInv'
  BY <1>a, <1>b, <1>10 DEF Revoke, queue, turn, procs
<1>11. ASSUME RevokeEnds PROVE NumInv'
  BY <1>a, <1>b, <1>11 DEF RevokeEnds, turn, procs
<1>12. ASSUME Crash PROVE NumInv'
  <2>1. /\ items' = {} /\ seqOf' = [m \in Msgs |-> 0] /\ seq' = 0 /\ lane' = <<>> /\ evq' = <<>>
        /\ held' = [p \in Procs |-> {}]
    BY <1>12 DEF Crash
  <2> QED
    BY <1>i, <2>1 DEF NumInv, Numbered, Turns, Backs
<1> QED
  BY <1>j, <1>1, <1>2, <1>3, <1>4, <1>5, <1>6, <1>7, <1>8, <1>9, <1>10, <1>11, <1>12, StepsAre
     DEF Acted

LEMMA TypedAtStart == Init => Shapes /\ NumInv
<1> SUFFICES ASSUME Init PROVE Shapes /\ NumInv
  OBVIOUS
<1>1. QueueShape
  <2>1. seqOf \in [Msgs -> Nat]
    BY DEF Init
  <2>2. <<>> \in Seq(Msgs)
    OBVIOUS
  <2>3. /\ items = {} /\ seq = 0 /\ accepted = {} /\ dropped = {} /\ ld = "no" /\ snap = <<>>
        /\ claim = None /\ armed = FALSE
    BY DEF Init
  <2>4. armed \in BOOLEAN
    BY <2>3, Zenon
  <2>5. seq \in Nat
    BY <2>3
  <2> QED
    BY <2>1, <2>2, <2>3, <2>4, <2>5, Zenon DEF QueueShape
<1>2. TableShape
  BY DEF Init, TableShape
<1>3. TurnShape
  <2>1. pump \in Pumps
    <3>1. NoPump \in Pumps
      BY DEF NoPump, Pumps
    <3>2. ASSUME NEW a \in Authors PROVE NewPump("turn", <<>>, a) \in Pumps
      <4>1. "turn" \in {"turn", "rows"} /\ <<>> \in Seq(Msgs)
        OBVIOUS
      <4> QED
        BY <4>1, Starts
    <3> QED
      BY <3>1, <3>2 DEF Init
  <2> QED
    BY <2>1 DEF Init, TurnShape
<1>4. ProcShape
  <2>1. /\ pc = [p \in Procs |-> "off"] /\ held = [p \in Procs |-> {}]
        /\ todo = [p \in Procs |-> <<>>]
    BY DEF Init
  <2>2. Tasks \subseteq Procs
    BY DEF Procs
  <2> QED
    BY <2>1, <2>2 DEF ProcShape, Places
<1>5. FateShape
  <2>1. sent \in [Msgs -> Nat] /\ used \in [Bounds -> Nat] /\ order \in Seq(Msgs)
    BY DEF Init
  <2>2. /\ revoking = <<>> /\ present = Authors /\ back = {} /\ ack = {} /\ revoked = {}
        /\ owed = {} /\ lost = {}
    BY DEF Init
  <2> QED
    BY <2>1, <2>2 DEF FateShape
<1>6. NumInv
  <2>1. /\ items = {} /\ \A p \in Procs : held[p] = {}
        /\ evq = <<>> /\ lane = <<>> /\ seq = 0 /\ \A m \in Msgs : seqOf[m] = 0
    BY DEF Init
  <2> QED
    BY <2>1, IdsEmpty DEF NumInv, Numbered
<1> QED
  BY <1>1, <1>2, <1>3, <1>4, <1>5, <1>6 DEF Shapes

LEMMA TypedKept == Shapes /\ NumInv /\ [Next]_vars => Shapes' /\ NumInv'
  BY QueueShapeKept, TableShapeKept, TurnShapeKept, ProcShapeKept, FateShapeKept, NumbersKept
     DEF Shapes

\* Only those who came back are waited for to open the chat.
VisitShape == visit \subseteq Authors

LEMMA VisitKept == VisitShape /\ [Next]_vars => VisitShape'
<1> USE DEF VisitShape
<1> SUFFICES ASSUME VisitShape, [Next]_vars PROVE visit' \subseteq Authors
  OBVIOUS
<1>1. ASSUME NEW f \in Frames, Handler(f) PROVE UNCHANGED loading
  BY <1>1 DEF Handler, SendBusy, SendIdle, Steered, RecordSteer, SteerRefused, Add, Added,
     Refused, QueueUntilReconnect, SendJob, StartTurn, SendFailed
<1>2. ASSUME NEW t \in Tasks, Delivery(t) PROVE UNCHANGED loading
  BY <1>2 DEF Delivery, DeliverStart, DeliverNext, DeliverSent, DeliverDeferred, DeliverGated
<1>3. ASSUME NEW a \in Authors, Viewer(a) \/ Revoke(a) PROVE UNCHANGED loading
  BY <1>3 DEF Viewer, DrainClaim, DrainGated, DrainTake, DrainSent, DrainDeferred, DrainLetsGo,
     Revoke
<1>4. ASSUME NEW a \in Authors, Connect(a) \/ Touch(a) PROVE visit' \subseteq Authors
  BY <1>4 DEF Connect, Touch
<1>5. ASSUME Turn PROVE UNCHANGED loading
  BY <1>5 DEF Turn, TurnEnds, TurnFails, PumpAccepts, PumpError, PumpDone, PumpDies, PumpEnds,
     AfterEnd
<1>6. ASSUME \/ LaneRuns \/ LaneFails \/ StopTurn \/ StopReturns \/ StopAborts \/ CancelSome
             \/ RevokeEnds \/ \E p \in Returners : GiveBack(p) \/ GiveBackFails(p)
      PROVE  UNCHANGED loading
  BY <1>6 DEF LaneRuns, LaneFails, StopTurn, StopReturns, StopAborts, CancelSome, Cancel,
     RevokeEnds, GiveBack, GiveBackFails
<1>7. ASSUME LoadRead \/ LoadEnd \/ Crash PROVE visit' \subseteq Authors
  BY <1>7 DEF LoadRead, LoadEnd, Crash
<1>8. UNCHANGED loading \/ UNCHANGED vars => visit' \subseteq Authors
  BY DEF loading, vars
<1> QED
  BY <1>1, <1>2, <1>3, <1>4, <1>5, <1>6, <1>7, <1>8 DEF Next

\* Every variable has its type in every reachable state.  The batches a turn, the
\* lane and the event queue carry are listed by their numbers (qi.seq): two messages
\* that may wait together never share one, so the list has each of them once.
THEOREM TypeCorrect == Spec => []TypeOK
<1>1. Shapes /\ VisitShape => TypeOK
  <2> SUFFICES ASSUME Shapes, VisitShape PROVE TypeOK
    OBVIOUS
  <2>1. ToSet(snap) \subseteq Msgs /\ ToSet(rows) \subseteq Msgs /\ ToSet(chat) \subseteq Msgs
    BY DEF Shapes, QueueShape, TableShape, ToSet
  <2>2. /\ pump.st \in {"none", "live", "done"}
        /\ pump.prod \in {"none", "rows", "turn", "accept", "ended"}
    BY DEF Shapes, TurnShape, Pumps
  <2> QED
    BY <2>1, <2>2, Zenon
       DEF Shapes, VisitShape, QueueShape, TableShape, ProcShape, FateShape, TypeOK
<1>2. Init => VisitShape
  BY DEF Init, VisitShape
<1> QED
  BY <1>1, <1>2, TypedAtStart, TypedKept, VisitKept, PTL DEF Spec

LEMMA AlwaysTyped == Spec => [](Shapes /\ NumInv)
  BY TypedAtStart, TypedKept, PTL DEF Spec

-----------------------------------------------------------------------------
(* Who waits for a job, and who holds the chat *)

OfProc == {"add", "send", "drop"}
Busy   == {"adding", "storing", "dropping"}
Keeps  == {"starting", "storing", "stored", "dropping", "dropped", "failed"}

\* The process of a job waits for it and holds what it carries.
Fits(j, at, has) ==
    /\ j.k = "add" => j.p \in Frames /\ at[j.p] = "adding" /\ j.ids = <<Of[j.p]>>
    /\ j.k = "send" => /\ j.p \in Frames /\ at[j.p] = "storing"
                       /\ ToSet(j.ids) = has[j.p] \cup {Of[j.p]}
    /\ j.k = "drop" => j.p \in Outside /\ at[j.p] = "dropping" /\ ToSet(j.ids) = has[j.p]

\* A process waits for one job at a time, and holds messages only on their way.
JobsFit ==
    /\ \A i \in 1..Len(lane) : Fits(lane[i], pc, held)
    /\ \A i, n \in 1..Len(lane) :
         i # n /\ lane[i].k \in OfProc /\ lane[n].k \in OfProc => lane[i].p # lane[n].p
    /\ \A p \in Procs : held[p] # {} => pc[p] \in Keeps

LEMMA JobsFitMoves ==
    ASSUME Shapes, JobsFit, NEW p \in Procs, NEW to, Goto(p, to), pc[p] \notin Busy,
           \A q \in Procs \ {p} : held'[q] = held[q],
           held'[p] # {} => to \in Keeps,
           \/ lane' = lane
           \/ \E j \in Jobs : /\ lane' = Append(lane, j) /\ Fits(j, pc', held')
                              /\ j.k \in OfProc => j.p = p
    PROVE  JobsFit'
<1>1. lane \in Seq(Jobs) /\ pc \in [Procs -> Places] /\ Len(lane) \in Nat
  BY DEF Shapes, TurnShape, ProcShape
<1>2. pc' = [pc EXCEPT ![p] = to] /\ \A q \in Procs \ {p} : pc'[q] = pc[q]
  BY <1>1 DEF Goto
<1>3. ASSUME NEW i \in 1..Len(lane)
      PROVE  Fits(lane[i], pc', held') /\ (lane[i].k \in OfProc => lane[i].p # p)
  <2>1. Fits(lane[i], pc, held) /\ lane[i] \in Jobs
    BY <1>1 DEF JobsFit
  <2>2. lane[i].k \in OfProc => lane[i].p \in Procs \ {p}
    BY <2>1 DEF Fits, OfProc, Busy, Jobs
  <2>3. lane[i].k \in OfProc => pc'[lane[i].p] = pc[lane[i].p] /\ held'[lane[i].p] = held[lane[i].p]
    BY <1>2, <2>2
  <2> QED
    BY <2>1, <2>2, <2>3 DEF Fits, OfProc
<1>4. \A q \in Procs : held'[q] # {} => pc'[q] \in Keeps
  BY <1>1, <1>2 DEF JobsFit
<1>5. CASE lane' = lane
  BY <1>3, <1>4, <1>5 DEF JobsFit
<1>6. ASSUME NEW j \in Jobs, lane' = Append(lane, j), Fits(j, pc', held'),
             j.k \in OfProc => j.p = p
      PROVE  JobsFit'
  <2>1. /\ Len(lane') = Len(lane) + 1 /\ lane'[Len(lane) + 1] = j
        /\ \A i \in 1..Len(lane) : lane'[i] = lane[i]
        /\ 1..Len(lane') = 1..Len(lane) \cup {Len(lane) + 1}
    BY <1>1, <1>6
  <2>2. \A i \in 1..Len(lane') : Fits(lane'[i], pc', held')
    BY <1>3, <1>6, <2>1
  <2>3. \A i, n \in 1..Len(lane') :
          i # n /\ lane'[i].k \in OfProc /\ lane'[n].k \in OfProc => lane'[i].p # lane'[n].p
    BY <1>3, <1>6, <2>1 DEF JobsFit
  <2> QED
    BY <1>4, <2>2, <2>3 DEF JobsFit
<1> QED
  BY <1>5, <1>6

LEMMA JobsFitRests ==
    ASSUME Shapes, JobsFit, UNCHANGED <<pc, held>>,
           \/ lane' = lane
           \/ \E j \in Jobs : lane' = Append(lane, j) /\ j.k \notin OfProc
           \/ \E tl \in Seq(Jobs) : /\ lane' = lane \o tl
                                    /\ \A i \in 1..Len(tl) : tl[i].k \notin OfProc
    PROVE  JobsFit'
<1>1. lane \in Seq(Jobs) /\ Len(lane) \in Nat
  BY DEF Shapes, TurnShape
<1>2. CASE lane' = lane
  BY <1>2 DEF JobsFit
<1>3. ASSUME \A i \in 1..Len(lane') :
               (i \in 1..Len(lane) /\ lane'[i] = lane[i]) \/ lane'[i].k \notin OfProc
      PROVE  JobsFit'
  <2>1. \A i \in 1..Len(lane') : Fits(lane'[i], pc, held)
    BY <1>3 DEF JobsFit, Fits, OfProc
  <2>2. \A i, n \in 1..Len(lane') :
          i # n /\ lane'[i].k \in OfProc /\ lane'[n].k \in OfProc => lane'[i].p # lane'[n].p
    BY <1>3 DEF JobsFit
  <2> QED
    BY <2>1, <2>2 DEF JobsFit
<1>4. ASSUME NEW j \in Jobs, lane' = Append(lane, j), j.k \notin OfProc PROVE JobsFit'
  BY <1>1, <1>3, <1>4
<1>5. ASSUME NEW tl \in Seq(Jobs), lane' = lane \o tl, \A i \in 1..Len(tl) : tl[i].k \notin OfProc
      PROVE  JobsFit'
  <2> DEFINE w == lane \o tl
  <2>1. /\ Len(w) = Len(lane) + Len(tl) /\ Len(tl) \in Nat
        /\ \A n \in 1..Len(lane) + Len(tl) :
             w[n] = IF n <= Len(lane) THEN lane[n] ELSE tl[n - Len(lane)]
    BY <1>1, ConcatProperties
  <2>2. lane' = w
    BY <1>5
  <2> HIDE DEF w
  <2> QED
    BY <1>1, <1>3, <1>5, <2>1, <2>2
<1> QED
  BY <1>2, <1>4, <1>5

LEMMA JobsFitRuns ==
    ASSUME Shapes, JobsFit, lane # <<>>, lane' = Tail(lane), UNCHANGED held, NEW to,
           \/ pc' = pc /\ Head(lane).k \notin OfProc
           \/ /\ Goto(Head(lane).p, to) /\ Head(lane).k \in OfProc
              /\ held[Head(lane).p] # {} => to \in Keeps
    PROVE  JobsFit'
<1>1. /\ lane \in Seq(Jobs) /\ pc \in [Procs -> Places] /\ Head(lane) = lane[1]
      /\ 1 \in 1..Len(lane) /\ Len(lane) \in Nat
  BY HeadJob DEF Shapes, TurnShape, ProcShape
<1>2. \A i \in 1..Len(lane') : lane'[i] = lane[i + 1] /\ i + 1 \in 1..Len(lane) /\ i + 1 # 1
  BY <1>1
<1>3. ASSUME NEW i \in 1..Len(lane') PROVE Fits(lane'[i], pc', held')
  <2>1. Fits(lane'[i], pc, held) /\ lane'[i] \in Jobs
    BY <1>1, <1>2 DEF JobsFit
  <2>2. CASE pc' = pc
    BY <2>1, <2>2
  <2>3. CASE lane'[i].k \notin OfProc
    BY <2>3 DEF Fits, OfProc
  <2>4. ASSUME Head(lane).k \in OfProc, Goto(Head(lane).p, to), lane'[i].k \in OfProc
        PROVE  Fits(lane'[i], pc', held')
    <3>1. lane'[i].p # Head(lane).p
      BY <1>1, <1>2, <2>4 DEF JobsFit
    <3>2. lane'[i].p \in Procs
      BY <2>1, <2>4 DEF Jobs, OfProc
    <3>3. pc'[lane'[i].p] = pc[lane'[i].p]
      BY <1>1, <2>4, <3>1, <3>2 DEF Goto
    <3> QED
      BY <2>1, <3>3 DEF Fits
  <2> QED
    BY <2>2, <2>3, <2>4
<1>4. \A i, n \in 1..Len(lane') :
        i # n /\ lane'[i].k \in OfProc /\ lane'[n].k \in OfProc => lane'[i].p # lane'[n].p
  BY <1>1, <1>2 DEF JobsFit
<1>5. \A q \in Procs : held[q] # {} => pc'[q] \in Keeps
  BY <1>1 DEF JobsFit, Goto
<1> QED
  BY <1>3, <1>4, <1>5 DEF JobsFit

LEMMA AppendSet ==
    ASSUME NEW X, NEW s \in Seq(X), NEW x \in X
    PROVE  Append(s, x) \in Seq(X) /\ ToSet(Append(s, x)) = ToSet(s) \cup {x}
<1> DEFINE t == Append(s, x)
<1>1. /\ t \in Seq(X) /\ DOMAIN t = 1..Len(s) \cup {Len(s) + 1} /\ DOMAIN s = 1..Len(s)
      /\ t[Len(s) + 1] = x /\ \A i \in 1..Len(s) : t[i] = s[i]
  OBVIOUS
<1>2. Len(s) + 1 \notin 1..Len(s)
  OBVIOUS
<1> HIDE DEF t
<1> QED
  BY <1>1, <1>2 DEF t, ToSet

LEMMA JobsFitKept ==
    ASSUME Shapes, NumInv, JobsFit, [Next]_vars
    PROVE  JobsFit'
<1>a. /\ lane \in Seq(Jobs) /\ pc \in [Procs -> Places] /\ held \in [Procs -> SUBSET Msgs]
      /\ \A p \in Procs : held[p] \subseteq Numbered
      /\ items \subseteq Numbered
  BY DEF Shapes, TurnShape, ProcShape, NumInv
<1>b. /\ Frames \subseteq Procs /\ Outside \subseteq Procs /\ Tasks \subseteq Outside
      /\ Outside \cap Frames = {} /\ Returners = Outside
  BY QueueAssumption DEF Procs, Outside, Returners
<1>c. \A p \in Procs : pc[p] \notin Keeps => held[p] = {}
  BY DEF JobsFit
<1>d. ASSUME NEW S, S \subseteq Numbered, NEW p \in Outside
      PROVE  LET j == Job("drop", InOrder(S), p) IN
             j \in Jobs /\ j.k = "drop" /\ j.p = p /\ ToSet(j.ids) = S
  <2>1. /\ "drop" \in JobKinds /\ p \in Procs /\ p \in Procs \cup {None}
        /\ InOrder(S) \in Seq(Msgs) /\ ToSet(InOrder(S)) = S
    BY <1>b, <1>d, InOrderIs DEF JobKinds
  <2> QED
    BY <2>1, Submits
<1>e. \A p \in Procs, S \in SUBSET Msgs :
        held' = [held EXCEPT ![p] = S] => held'[p] = S /\ \A q \in Procs \ {p} : held'[q] = held[q]
  BY <1>a
<1>f. \A p \in Procs : \A to : Goto(p, to) => pc'[p] = to
  BY <1>a DEF Goto
<1>g. Numbered \subseteq Msgs
  BY DEF Numbered
<1>h. ASSUME NEW p \in Procs, NEW to, pc[p] \notin Busy, held' = [held EXCEPT ![p] = {}],
             lane' = lane, Goto(p, to)
      PROVE  JobsFit'
  <2>1. held'[p] = {} /\ \A q \in Procs \ {p} : held'[q] = held[q]
    BY <1>a, <1>h
  <2> QED
    BY <1>h, <2>1, JobsFitMoves
<1>1. ASSUME Moved PROVE JobsFit'
  <2>1. CASE Rests
    <3>1. CASE UNCHANGED pc
      BY <2>1, <3>1, JobsFitRests DEF Rests
    <3>2. ASSUME NEW p \in Procs, NEW to \in Places, Calm(p, to), Goto(p, to) PROVE JobsFit'
      <4>1. pc[p] \notin Busy /\ pc[p] \notin Keeps /\ lane' = lane /\ held' = held
        BY <2>1, <3>2 DEF Calm, Busy, Keeps, Rests
      <4> QED
        BY <1>c, <3>2, <4>1, JobsFitMoves
    <3> QED
      BY <2>1, <3>1, <3>2 DEF Rests
  <2>2. CASE Ended
    <3>1. \E tl \in Seq(Jobs) : /\ lane' = lane \o tl
                                /\ \A i \in 1..Len(tl) : tl[i].k \in {"end", "steer"}
      BY <2>2, LoopEndsIs DEF Ended
    <3>2. \E tl \in Seq(Jobs) : /\ lane' = lane \o tl
                                /\ \A i \in 1..Len(tl) : tl[i].k \notin OfProc
      BY <3>1 DEF OfProc
    <3> QED
      BY <2>2, <3>2, JobsFitRests DEF Ended
  <2>3. ASSUME NEW p \in Outside, NEW S \in SUBSET items, Takes(p, S) PROVE JobsFit'
    <3>1. /\ pc[p] \notin Busy /\ held' = [held EXCEPT ![p] = S]
          /\ pc[p] \notin Keeps /\ p \in Procs /\ S \subseteq Numbered /\ S \in SUBSET Msgs
      BY <1>a, <1>b, <1>g, <2>3 DEF Takes, Busy, Keeps
    <3>2. held'[p] = S /\ \A q \in Procs \ {p} : held'[q] = held[q]
      BY <1>e, <3>1
    <3>3. CASE lane' = lane /\ Goto(p, "starting")
      BY <3>1, <3>2, <3>3, JobsFitMoves DEF Keeps
    <3>4. CASE lane' = lane /\ S = {} /\ (Goto(p, "letgo") \/ Goto(p, "abort"))
      BY <3>1, <3>2, <3>4, JobsFitMoves
    <3>5. CASE lane' = lane /\ S = {} /\ UNCHANGED pc
      <4>1. held' = held
        BY <1>a, <1>c, <3>1, <3>5
      <4> QED
        BY <3>5, <4>1, JobsFitRests
    <3>6. CASE lane' = Append(lane, Job("drop", InOrder(S), p)) /\ Goto(p, "dropping")
      <4> DEFINE j == Job("drop", InOrder(S), p)
      <4>1. j \in Jobs /\ j.k = "drop" /\ j.p = p /\ ToSet(j.ids) = S
        BY <1>d, <3>1
      <4>2. lane' = Append(lane, j)
        BY <3>6
      <4> HIDE DEF j
      <4>3. Fits(j, pc', held') /\ "dropping" \in Keeps
        BY <1>b, <1>f, <3>1, <3>2, <3>6, <4>1 DEF Fits, Keeps
      <4> QED
        BY <3>1, <3>2, <3>6, <4>1, <4>2, <4>3, JobsFitMoves
    <3> QED
      BY <2>3, <3>3, <3>4, <3>5, <3>6 DEF Takes
  <2>4. ASSUME NEW t \in Tasks, Gates(t) PROVE JobsFit'
    <3> DEFINE j == Job("drop", InOrder(held[t]), t)
    <3>1. t \in Outside /\ t \in Procs
      BY <1>b
    <3>2. held[t] \subseteq Numbered
      BY <1>a, <3>1
    <3>3. j \in Jobs /\ j.k = "drop" /\ j.p = t /\ ToSet(j.ids) = held[t]
      BY <1>d, <3>1, <3>2
    <3>4. lane' = Append(lane, j) /\ Goto(t, "dropping") /\ held' = held /\ pc[t] \notin Busy
      BY <2>4 DEF Gates, Busy
    <3> HIDE DEF j
    <3>5. Fits(j, pc', held') /\ "dropping" \in Keeps
      BY <1>f, <3>1, <3>3, <3>4 DEF Fits, Keeps
    <3> QED
      BY <3>1, <3>3, <3>4, <3>5, JobsFitMoves
  <2>5. ASSUME NEW p \in Outside, Defers(p) PROVE JobsFit'
    <3>1. /\ pc[p] \notin Busy /\ held' = [held EXCEPT ![p] = {}] /\ p \in Procs /\ Goto(p, "off")
          /\ lane' = lane
      BY <1>b, <2>5 DEF Defers, Busy
    <3> QED
      BY <1>h, <3>1
  <2>6. ASSUME NEW p \in Outside, Launched(p) PROVE JobsFit'
    <3>1. /\ pc[p] \notin Busy /\ held' = [held EXCEPT ![p] = {}] /\ p \in Procs /\ Goto(p, "off")
      BY <1>b, <2>6 DEF Launched, Busy
    <3>2. \E j \in Jobs : lane' = Append(lane, j) /\ Fits(j, pc', held') /\ (j.k \in OfProc => j.p = p)
      BY <2>6 DEF Launched, Fits, OfProc
    <3> QED
      BY <1>e, <3>1, <3>2, JobsFitMoves
  <2>7. ASSUME NEW p \in Procs, LetsGo(p) PROVE JobsFit'
    <3>1. pc[p] \notin Busy /\ held' = [held EXCEPT ![p] = {}] /\ lane' = lane /\ \E to : Goto(p, to)
      BY <2>7 DEF LetsGo, Busy
    <3> QED
      BY <1>h, <3>1
  <2> QED
    BY <1>1, <2>1, <2>2, <2>3, <2>4, <2>5, <2>6, <2>7 DEF Moved
<1>2. ASSUME LoadRead \/ LoadEnd \/ TurnEnds \/ RevokeEnds \/ \E a \in Authors : Revoke(a)
      PROVE  JobsFit'
  BY <1>2, JobsFitRests DEF LoadRead, LoadEnd, TurnEnds, RevokeEnds, Revoke, turn, procs
<1>3. ASSUME NEW f \in Frames, Steered(f) \/ RecordSteer(f) \/ Add(f) \/ SendJob(f) \/ StartTurn(f)
      PROVE  JobsFit'
  <2>0. Of[f] \in Msgs /\ <<Of[f]>> \in Seq(Msgs) /\ f \in Procs /\ f \in Procs \cup {None}
    BY <1>b, QueueAssumption
  <2>1. ASSUME Steered(f) PROVE JobsFit'
    <3>1. Goto(f, "steered") /\ held' = held /\ lane' = lane /\ pc[f] \notin Busy \cup Keeps
      BY <2>1 DEF Steered, turn, Busy, Keeps
    <3> QED
      BY <1>c, <2>0, <3>1, JobsFitMoves
  <2>2. ASSUME RecordSteer(f) PROVE JobsFit'
    <3> DEFINE j == Job("steer", <<Of[f]>>, f)
    <3>1. j \in Jobs /\ j.k = "steer"
      <4>1. "steer" \in JobKinds /\ "steer" \notin {"add", "send", "drop"}
        BY DEF JobKinds
      <4>2. j.k = "steer"
        BY DEF Job
      <4>3. j \in Jobs
        BY <2>0, <4>1, Submits
      <4> QED
        BY <4>2, <4>3
    <3>2. /\ Goto(f, "done") /\ held' = held /\ pc[f] \notin Busy \cup Keeps
          /\ lane' = lane \/ lane' = Append(lane, j)
      BY <2>2 DEF RecordSteer, Submit, Busy, Keeps
    <3> HIDE DEF j
    <3>3. Fits(j, pc', held') /\ (j.k \in OfProc => j.p = f)
      BY <3>1 DEF Fits, OfProc
    <3> QED
      BY <1>c, <2>0, <3>1, <3>2, <3>3, JobsFitMoves
  <2>3. ASSUME Add(f) PROVE JobsFit'
    <3> DEFINE j == Job("add", <<Of[f]>>, f)
    <3>1. j \in Jobs /\ j.k = "add" /\ j.p = f /\ j.ids = <<Of[f]>>
      <4>1. "add" \in JobKinds
        BY DEF JobKinds
      <4>2. j.k = "add" /\ j.p = f /\ j.ids = <<Of[f]>>
        BY DEF Job
      <4>3. j \in Jobs
        BY <2>0, <4>1, Submits
      <4> QED
        BY <4>2, <4>3
    <3>2. /\ held' = held /\ pc[f] \notin Busy \cup Keeps
          /\ \/ lane' = lane /\ (Goto(f, "added") \/ Goto(f, "done"))
             \/ lane' = Append(lane, j) /\ Goto(f, "adding")
      BY <2>3, Zenon DEF Add, Submit, Busy, Keeps
    <3> HIDE DEF j
    <3>3. Goto(f, "adding") => Fits(j, pc', held') /\ (j.k \in OfProc => j.p = f)
      BY <1>f, <2>0, <3>1 DEF Fits
    <3> QED
      BY <1>c, <2>0, <3>1, <3>2, <3>3, JobsFitMoves
  <2>4. ASSUME SendJob(f) PROVE JobsFit'
    <3> DEFINE S == By(Who(f))
               j == Job("send", Append(InOrder(S), Of[f]), f)
    <3>1. S \subseteq Numbered /\ S \in SUBSET Msgs
      BY <1>a, <1>g DEF By
    <3>2. /\ held' = [held EXCEPT ![f] = S] /\ Goto(f, "storing") /\ lane' = Append(lane, j)
          /\ pc[f] \notin Busy
      BY <2>4 DEF SendJob, Submit, Busy
    <3> HIDE DEF S
    <3>3. /\ Append(InOrder(S), Of[f]) \in Seq(Msgs)
          /\ ToSet(Append(InOrder(S), Of[f])) = S \cup {Of[f]}
      <4>1. InOrder(S) \in Seq(Msgs) /\ ToSet(InOrder(S)) = S
        BY <3>1, InOrderIs
      <4>2. /\ Append(InOrder(S), Of[f]) \in Seq(Msgs)
            /\ ToSet(Append(InOrder(S), Of[f])) = ToSet(InOrder(S)) \cup {Of[f]}
        BY <2>0, <4>1, AppendSet
      <4> QED
        BY <4>1, <4>2
    <3>4. j \in Jobs /\ j.k = "send" /\ j.p = f /\ ToSet(j.ids) = S \cup {Of[f]}
      <4> DEFINE ids == Append(InOrder(S), Of[f])
      <4>1. "send" \in JobKinds
        BY DEF JobKinds
      <4>2. j.k = "send" /\ j.p = f /\ j.ids = ids
        BY DEF Job
      <4>3. ids \in Seq(Msgs) /\ ToSet(ids) = S \cup {Of[f]}
        BY <3>3
      <4> HIDE DEF ids
      <4>4. Job("send", ids, f) \in Jobs
        BY <2>0, <4>1, <4>3, Submits
      <4> QED
        BY <4>2, <4>3, <4>4 DEF ids
    <3> HIDE DEF j
    <3>5. held'[f] = S /\ \A q \in Procs \ {f} : held'[q] = held[q]
      BY <1>e, <2>0, <3>1, <3>2
    <3>6. Fits(j, pc', held') /\ "storing" \in Keeps
      BY <1>f, <2>0, <3>2, <3>4, <3>5 DEF Fits, Keeps
    <3> QED
      BY <2>0, <3>2, <3>4, <3>5, <3>6, JobsFitMoves
  <2>5. ASSUME StartTurn(f) PROVE JobsFit'
    <3>1. held' = [held EXCEPT ![f] = {}] /\ Goto(f, "done") /\ lane' = lane /\ pc[f] \notin Busy
      BY <2>5 DEF StartTurn, Busy
    <3> QED
      BY <1>h, <2>0, <3>1
  <2> QED
    BY <1>3, <2>1, <2>2, <2>3, <2>4, <2>5
<1>4. ASSUME PumpAccepts PROVE JobsFit'
  <2> DEFINE j == Job(Head(evq).k, Head(evq).ids, None)
  <2>1. /\ evq # <<>> /\ Head(evq).k \in {"turn", "steer"} /\ lane' = Append(lane, j)
        /\ UNCHANGED <<pc, held>>
    BY <1>4 DEF PumpAccepts, PumpReads, Submit, procs
  <2>2. j \in Jobs /\ j.k \notin OfProc
    <3>1. /\ Head(evq).ids \in Seq(Msgs) /\ Head(evq).k \in JobKinds
          /\ Head(evq).k \notin {"add", "send", "drop"}
      BY <2>1, HeadEvent DEF JobKinds
    <3> QED
      BY <3>1, Submits DEF OfProc
  <2> HIDE DEF j
  <2> QED
    BY <2>1, <2>2, JobsFitRests
<1>5. ASSUME LaneRuns PROVE JobsFit'
  <2> DEFINE j == Head(lane)
  <2>1. /\ lane # <<>> /\ lane' = Tail(lane) /\ held' = held
        /\ JobAdd(j) \/ JobAccept(j) \/ JobSend(j) \/ JobDrop(j) \/ JobEnd(j)
    BY <1>5 DEF LaneRuns
  <2>2. j \in Jobs /\ j = lane[1] /\ 1 \in 1..Len(lane)
    BY <2>1, HeadJob
  <2>3. Fits(j, pc, held)
    BY <2>2 DEF JobsFit
  <2>4. j.k \in OfProc => j.p \in Procs
    BY <2>2 DEF Jobs, OfProc
  <2> HIDE DEF j
  <2>5. CASE JobAdd(j)
    <3>1. j.k \in OfProc /\ Goto(j.p, "added") /\ held[j.p] = {}
      BY <1>c, <2>3, <2>4, <2>5 DEF JobAdd, Fits, OfProc, Keeps
    <3> QED
      BY <2>1, <3>1, JobsFitRuns DEF j
  <2>6. CASE JobAccept(j) \/ JobEnd(j)
    <3>1. j.k \notin OfProc /\ pc' = pc
      BY <2>6 DEF JobAccept, JobEnd, OfProc
    <3> QED
      BY <2>1, <3>1, JobsFitRuns DEF j
  <2>7. CASE JobSend(j) \/ JobDrop(j)
    <3>1. j.k \in OfProc /\ \E to \in Keeps : Goto(j.p, to)
      BY <2>7 DEF JobSend, JobDrop, OfProc, Keeps
    <3> QED
      BY <2>1, <3>1, JobsFitRuns DEF j
  <2> QED
    BY <2>1, <2>5, <2>6, <2>7
<1>6. ASSUME LaneFails PROVE JobsFit'
  <2> DEFINE j == Head(lane)
  <2>1. lane # <<>> /\ lane' = Tail(lane) /\ held' = held /\ JobFails(j)
    BY <1>6 DEF LaneFails
  <2> HIDE DEF j
  <2>2. \/ pc' = pc /\ j.k \notin OfProc
        \/ Goto(j.p, "failed") /\ j.k \in OfProc
    BY <2>1 DEF JobFails, Goto, OfProc
  <2>3. "failed" \in Keeps
    BY DEF Keeps
  <2> QED
    BY <2>1, <2>2, <2>3, JobsFitRuns DEF j
<1>7. ASSUME NEW p \in Returners, GiveBack(p) PROVE JobsFit'
  <2>1. /\ held' = [held EXCEPT ![p] = {}] /\ \E to : Goto(p, to)
        /\ lane' = lane /\ pc[p] \notin Busy /\ p \in Procs
    BY <1>b, <1>7 DEF GiveBack, Busy
  <2> QED
    BY <1>h, <2>1
<1>8. ASSUME Crash PROVE JobsFit'
  BY <1>8 DEF Crash, JobsFit
<1> QED
  BY <1>1, <1>2, <1>3, <1>4, <1>5, <1>6, <1>7, <1>8, StepsAre DEF Acted

\* Where a process holds the claim of the chat.
Holds(p, l) ==
    \/ p \in Frames /\ l \in {"gates", "storing", "stored"}
    \/ p \in Tasks /\ l = "starting"
    \/ p \in Authors /\ l # "off"

ClaimInv ==
    /\ claim # None => ~Live
    /\ \A p \in Procs : Holds(p, pc[p]) => claim = p

LEMMA ClaimMoves ==
    ASSUME Shapes, ClaimInv, NEW p \in Procs, NEW l, Goto(p, l), Holds(p, l) => claim' = p,
           claim' = claim \/ claim \in {None, p}, claim' # None => ~Live'
    PROVE  ClaimInv'
<1>1. pc \in [Procs -> Places] /\ None \notin Procs
  BY QueueAssumption DEF Shapes, ProcShape
<1>2. pc'[p] = l /\ \A q \in Procs \ {p} : pc'[q] = pc[q]
  BY <1>1 DEF Goto
<1>3. ASSUME NEW q \in Procs, Holds(q, pc'[q]) PROVE claim' = q
  BY <1>1, <1>2, <1>3, Zenon DEF ClaimInv
<1> QED
  BY <1>3 DEF ClaimInv

LEMMA ClaimRests ==
    ASSUME ClaimInv, UNCHANGED <<pc, claim>>, Live' => Live
    PROVE  ClaimInv'
  BY DEF ClaimInv

LEMMA ClaimKept ==
    ASSUME Shapes, JobsFit, ClaimInv, [Next]_vars
    PROVE  ClaimInv'
<1>a. pump \in Pumps /\ pc \in [Procs -> Places] /\ claim \in Procs \cup {None}
  BY DEF Shapes, TurnShape, ProcShape, QueueShape
<1>b. /\ \A f \in Frames : f \in Procs /\ f \notin Tasks /\ f \notin Authors
      /\ \A t \in Tasks : t \in Procs /\ t \notin Frames /\ t \notin Authors
      /\ \A a \in Authors : a \in Procs /\ a \notin Frames /\ a \notin Tasks
      /\ \A p \in {Stop, Edit, Ender} :
           p \in Procs /\ p \notin Frames /\ p \notin Tasks /\ p \notin Authors
      /\ \A p \in Outside : p \in Procs /\ p \notin Frames
      /\ Returners = Outside /\ None \notin Procs
  BY QueueAssumption DEF Procs, Outside, Returners
<1>c. claim # None => ~Live
  BY DEF ClaimInv
<1>d. \A p \in Procs : Holds(p, pc[p]) => claim = p
  BY DEF ClaimInv
<1>e. NoPump.st = "none" /\ "none" # "live"
  BY DEF NoPump
<1>f. ASSUME NEW p \in Procs, NEW l, Goto(p, l), ~Holds(p, l), claim' = None, claim \in {None, p}
      PROVE  ClaimInv'
  BY <1>f, ClaimMoves
<1>g. ASSUME NEW p \in Procs, NEW l, Goto(p, l), Holds(p, l) => Holds(p, pc[p]), claim' = claim,
             Live' => Live
      PROVE  ClaimInv'
  BY <1>c, <1>d, <1>g, ClaimMoves
<1>1. ASSUME NEW f \in Frames, Handler(f) PROVE ClaimInv'
  <2>1. ASSUME SendBusy(f) \/ Steered(f) \/ RecordSteer(f) \/ SteerRefused(f)
               \/ QueueUntilReconnect(f)
        PROVE  ClaimInv'
    <3>1. UNCHANGED <<claim, pump>>
      BY <2>1 DEF SendBusy, Steered, RecordSteer, SteerRefused, QueueUntilReconnect, turn
    <3>2. \E l \in {"done", "steer", "add", "steered"} : Goto(f, l)
      BY <2>1, Zenon DEF SendBusy, Steered, RecordSteer, SteerRefused, QueueUntilReconnect
    <3> QED
      BY <1>b, <1>g, <3>1, <3>2 DEF Holds, Live
  <2>7. ASSUME Add(f) PROVE ClaimInv'
    <3>1. UNCHANGED pump /\ (claim' = claim \/ (claim = f /\ claim' = None))
      BY <2>7, Zenon DEF Add, turn, Release
    <3>2. \E l \in {"done", "adding", "added"} : Goto(f, l)
      BY <2>7, Zenon DEF Add
    <3>3. \A l \in {"done", "adding", "added"} : ~Holds(f, l)
      BY <1>b DEF Holds
    <3> QED
      BY <1>b, <1>f, <1>g, <3>1, <3>2, <3>3 DEF Live
  <2>2. ASSUME Added(f) PROVE ClaimInv'
    <3>1. Goto(f, "done") /\ ~Holds(f, "done") /\ UNCHANGED pump
      BY <1>b, <2>2 DEF Added, turn, Holds
    <3>2. claim' = claim \/ (claim = f /\ claim' = None)
      BY <2>2 DEF Added, Release
    <3> QED
      BY <1>b, <1>f, <1>g, <3>1, <3>2 DEF Live
  <2>3. ASSUME SendIdle(f) PROVE ClaimInv'
    <3>1. CASE claim' = claim /\ \E l \in {"done", "add"} : Goto(f, l)
      BY <1>b, <1>g, <2>3, <3>1 DEF SendIdle, Holds, Live, turn
    <3>2. CASE claim' = f /\ Claimable /\ Goto(f, "gates")
      BY <1>b, <2>3, <3>2, ClaimMoves DEF SendIdle, Claimable, Live, turn
    <3> QED
      BY <2>3, <3>1, <3>2 DEF SendIdle
  <2>4. ASSUME Refused(f) \/ StartTurn(f) PROVE ClaimInv'
    <3>1. claim' = None /\ Goto(f, "done") /\ Holds(f, pc[f])
      BY <2>4 DEF Refused, StartTurn, Release, Holds
    <3> QED
      BY <1>b, <1>d, <1>f, <3>1 DEF Holds
  <2>5. ASSUME SendJob(f) PROVE ClaimInv'
    BY <1>b, <1>g, <2>5 DEF SendJob, Holds, Live, turn
  <2>6. ASSUME SendFailed(f) PROVE ClaimInv'
    <3>1. Goto(f, "done") /\ ~Holds(f, "done") /\ UNCHANGED pump
      BY <1>b, <2>6 DEF SendFailed, turn, Holds
    <3>2. claim' = claim \/ (claim = f /\ claim' = None)
      BY <2>6 DEF SendFailed, Release
    <3> QED
      BY <1>b, <1>f, <1>g, <3>1, <3>2 DEF Live
  <2> QED
    BY <1>1, <2>1, <2>2, <2>3, <2>4, <2>5, <2>6, <2>7 DEF Handler
<1>2. ASSUME NEW t \in Tasks, Delivery(t) PROVE ClaimInv'
  <2>1. ASSUME DeliverStart(t) PROVE ClaimInv'
    BY <1>b, <1>g, <2>1 DEF DeliverStart, Holds, Live, turn
  <2>2. ASSUME DeliverNext(t) PROVE ClaimInv'
    <3>1. UNCHANGED pump
      BY <2>2 DEF DeliverNext, turn
    <3>2. \/ Goto(t, "off") /\ claim' = claim
          \/ UNCHANGED <<pc, claim>>
          \/ Claimable /\ claim' = t /\ Goto(t, "starting")
      BY <2>2, Zenon DEF DeliverNext
    <3>3. CASE Goto(t, "off") /\ claim' = claim
      BY <1>b, <1>g, <3>1, <3>3 DEF Holds, Live
    <3>4. CASE UNCHANGED <<pc, claim>>
      BY <3>1, <3>4, ClaimRests DEF Live
    <3>5. CASE Claimable /\ claim' = t /\ Goto(t, "starting")
      BY <1>b, <3>1, <3>5, ClaimMoves DEF Claimable, Live
    <3> QED
      BY <3>2, <3>3, <3>4, <3>5
  <2>3. ASSUME DeliverSent(t) \/ DeliverDeferred(t) \/ DeliverGated(t) PROVE ClaimInv'
    <3>1. claim' = None /\ Holds(t, pc[t]) /\ \E l \in {"off", "dropping"} : Goto(t, l)
      BY <2>3 DEF DeliverSent, DeliverDeferred, DeliverGated, Launch, Release, Holds
    <3> QED
      BY <1>b, <1>d, <1>f, <3>1 DEF Holds
  <2> QED
    BY <1>2, <2>1, <2>2, <2>3 DEF Delivery
<1>3. ASSUME NEW a \in Authors, Viewer(a) PROVE ClaimInv'
  <2>1. ASSUME DrainClaim(a) PROVE ClaimInv'
    BY <1>b, <2>1, ClaimMoves DEF DrainClaim, Claimable, Live, turn
  <2>2. ASSUME DrainGated(a) \/ DrainTake(a) PROVE ClaimInv'
    <3>1. UNCHANGED <<claim, pump>> /\ Holds(a, pc[a])
      BY <2>2 DEF DrainGated, DrainTake, turn, Holds
    <3>2. \E l : Goto(a, l)
      BY <2>2, Zenon DEF DrainGated, DrainTake
    <3> QED
      BY <1>b, <1>g, <3>1, <3>2 DEF Live
  <2>3. ASSUME DrainSent(a) \/ DrainDeferred(a) \/ DrainLetsGo(a) PROVE ClaimInv'
    <3>1. claim' = None /\ Holds(a, pc[a]) /\ Goto(a, "off")
      BY <2>3 DEF DrainSent, DrainDeferred, DrainLetsGo, Launch, Release, Holds
    <3> QED
      BY <1>b, <1>d, <1>f, <3>1 DEF Holds
  <2> QED
    BY <1>3, <2>1, <2>2, <2>3 DEF Viewer
<1>4. ASSUME Turn PROVE ClaimInv'
  <2>1. ASSUME TurnEnds \/ TurnFails \/ PumpAccepts \/ PumpError \/ PumpDone \/ PumpDies
               \/ PumpEnds
        PROVE  ClaimInv'
    <3>1. UNCHANGED <<pc, claim>>
      BY <2>1 DEF TurnEnds, TurnFails, PumpAccepts, PumpError, PumpDone, PumpDies, PumpEnds,
                  procs
    <3>2. Live' => Live
      BY <1>a, <1>e, <2>1 DEF TurnEnds, TurnFails, PumpAccepts, PumpError, PumpDone, PumpDies,
                  PumpEnds, Live, LoopEnds, Pumps, PumpReads
    <3> QED
      BY <3>1, <3>2, ClaimRests
  <2>2. ASSUME AfterEnd PROVE ClaimInv'
    <3>1. UNCHANGED <<claim, pump>> /\ (UNCHANGED pc \/ Goto(Ender, "dropping"))
      BY <2>2 DEF AfterEnd, turn
    <3> QED
      BY <1>b, <1>g, <3>1, ClaimRests DEF Holds, Live
  <2> QED
    BY <1>4, <2>1, <2>2 DEF Turn
<1>5. ASSUME LoadRead \/ LoadEnd \/ RevokeEnds \/ \E a \in Authors : Revoke(a) \/ Connect(a) \/ Touch(a)
      PROVE  ClaimInv'
  BY <1>5, ClaimRests DEF LoadRead, LoadEnd, RevokeEnds, Revoke, Connect, Touch, turn, procs, Live
<1>6. ASSUME LaneRuns PROVE ClaimInv'
  <2> DEFINE j == Head(lane)
  <2>1. /\ lane # <<>> /\ claim' = claim
        /\ JobAdd(j) \/ JobAccept(j) \/ JobSend(j) \/ JobDrop(j) \/ JobEnd(j)
    BY <1>6 DEF LaneRuns
  <2>2. j \in Jobs /\ Fits(j, pc, held)
    BY <2>1, HeadJob DEF JobsFit
  <2> HIDE DEF j
  <2>3. Live' => Live
    BY <1>a, <2>1 DEF JobAdd, JobAccept, JobSend, JobDrop, JobEnd, Live, Pumps
  <2>4. CASE JobAdd(j)
    <3>1. j.p \in Frames /\ Goto(j.p, "added")
      BY <2>2, <2>4 DEF JobAdd, Fits
    <3> QED
      BY <1>b, <1>g, <2>1, <2>3, <3>1 DEF Holds
  <2>5. CASE JobAccept(j) \/ JobEnd(j)
    BY <2>1, <2>3, <2>5, ClaimRests DEF JobAccept, JobEnd
  <2>6. CASE JobSend(j)
    <3>1. j.p \in Frames /\ Goto(j.p, "stored") /\ Holds(j.p, pc[j.p])
      BY <2>2, <2>6 DEF JobSend, Fits, Holds
    <3> QED
      BY <1>b, <1>g, <2>1, <2>3, <3>1
  <2>7. CASE JobDrop(j)
    <3>1. j.p \in Outside /\ Goto(j.p, "dropped") /\ (Holds(j.p, "dropped") => Holds(j.p, pc[j.p]))
      BY <1>b, <2>2, <2>7 DEF JobDrop, Fits, Holds
    <3> QED
      BY <1>b, <1>g, <2>1, <2>3, <3>1
  <2> QED
    BY <2>1, <2>4, <2>5, <2>6, <2>7
<1>7. ASSUME LaneFails PROVE ClaimInv'
  <2> DEFINE j == Head(lane)
  <2>1. lane # <<>> /\ claim' = claim /\ JobFails(j)
    BY <1>7 DEF LaneFails
  <2>2. j \in Jobs /\ Fits(j, pc, held)
    BY <2>1, HeadJob DEF JobsFit
  <2> HIDE DEF j
  <2>3. Live' => Live
    BY <1>a, <2>1 DEF JobFails, Live, Pumps
  <2>4. CASE j.k \in {"add", "send", "drop"}
    <3>1. Goto(j.p, "failed")
      BY <2>1, <2>4 DEF JobFails, Goto
    <3>2. j.p \in Procs /\ (Holds(j.p, "failed") => Holds(j.p, pc[j.p]))
      BY <1>b, <2>2, <2>4 DEF Fits, Holds
    <3> QED
      BY <1>g, <2>1, <2>3, <3>1, <3>2
  <2>5. CASE j.k \notin {"add", "send", "drop"}
    BY <2>1, <2>3, <2>5, ClaimRests DEF JobFails
  <2> QED
    BY <2>4, <2>5
<1>8. ASSUME NEW p \in Returners, GiveBack(p) \/ GiveBackFails(p) PROVE ClaimInv'
  <2>1. p \in Procs /\ UNCHANGED <<claim, pump>> /\ pc[p] # "off"
    BY <1>b, <1>8 DEF GiveBack, GiveBackFails, turn
  <2>2. \E l \in {"loop", "letgo", "abort", "off"} : Goto(p, l)
    BY <1>8, Zenon DEF GiveBack, GiveBackFails, Resume
  <2> QED
    BY <1>b, <1>8, <1>g, <2>1, <2>2 DEF Holds, Live
<1>9. ASSUME StopTurn \/ StopReturns \/ StopAborts PROVE ClaimInv'
  <2>1. claim' = claim /\ Live' => Live
    BY <1>a, <1>9 DEF StopTurn, StopReturns, StopAborts, Live, Pumps, turn
  <2>2. claim' = claim /\ \E l : Goto(Stop, l)
    BY <1>9, Zenon DEF StopTurn, StopReturns, StopAborts
  <2> QED
    BY <1>b, <1>g, <2>1, <2>2 DEF Holds
<1>10. ASSUME CancelSome PROVE ClaimInv'
  <2>1. UNCHANGED <<claim, pump>> /\ Goto(Edit, "dropping")
    BY <1>10 DEF CancelSome, Cancel, turn
  <2> QED
    BY <1>b, <1>g, <2>1 DEF Holds, Live
<1>11. ASSUME Crash PROVE ClaimInv'
  <2>1. /\ claim' = None /\ pump' = NoPump
        /\ \A p \in Procs : pc'[p] = "off" \/ (p \in Frames /\ pc'[p] = "done")
    BY <1>11 DEF Crash
  <2> QED
    BY <1>b, <1>e, <2>1 DEF ClaimInv, Holds, Live
<1>12. CASE UNCHANGED vars
  BY <1>12, ClaimRests DEF vars, turn, procs, Live
<1> QED
  BY <1>1, <1>2, <1>3, <1>4, <1>5, <1>6, <1>7, <1>8, <1>9, <1>10, <1>11, <1>12 DEF Next

LEMMA HeldAtStart == Init => JobsFit /\ ClaimInv
<1> SUFFICES ASSUME Init PROVE JobsFit /\ ClaimInv
  OBVIOUS
<1>1. lane = <<>> /\ pc = [p \in Procs |-> "off"] /\ held = [p \in Procs |-> {}] /\ claim = None
  BY DEF Init
<1>2. JobsFit
  BY <1>1 DEF JobsFit
<1>3. ClaimInv
  BY <1>1 DEF ClaimInv, Holds
<1> QED
  BY <1>2, <1>3

LEMMA AlwaysHeld == Spec => [](Shapes /\ NumInv /\ JobsFit /\ ClaimInv)
  BY TypedAtStart, TypedKept, HeldAtStart, JobsFitKept, ClaimKept, PTL DEF Spec

\* A turn is started by the holder of the claim, and while the chat is claimed no
\* turn runs: so a turn starts only when the last one is over.
LEMMA StartsAlone ==
    ASSUME Shapes, ClaimInv, [Next]_vars, gen' # gen
    PROVE  ~Live
<1>a. /\ \A p \in Procs : Holds(p, pc[p]) => claim = p
      /\ claim # None => ~Live
      /\ None \notin Procs /\ Frames \subseteq Procs /\ Tasks \subseteq Procs /\ Authors \subseteq Procs
  BY QueueAssumption DEF ClaimInv, Procs
<1>b. ASSUME NEW p \in Procs, Holds(p, pc[p]) PROVE ~Live
  BY <1>a, <1>b
<1>1. ASSUME NEW f \in Frames, Handler(f) PROVE ~Live
  <2>1. CASE StartTurn(f)
    BY <1>a, <1>b, <2>1 DEF StartTurn, Holds
  <2>2. CASE ~StartTurn(f)
    <3>1. gen' = gen
      BY <1>1, <2>2 DEF Handler, SendBusy, SendIdle, Steered, RecordSteer, SteerRefused, Add,
         Added, Refused, QueueUntilReconnect, SendJob, SendFailed, turn
    <3> QED
      BY <3>1
  <2> QED
    BY <2>1, <2>2
<1>2. ASSUME NEW t \in Tasks, Delivery(t) PROVE ~Live
  <2>1. CASE DeliverSent(t)
    BY <1>a, <1>b, <2>1 DEF DeliverSent, Holds
  <2>2. CASE ~DeliverSent(t)
    <3>1. gen' = gen
      BY <1>2, <2>2 DEF Delivery, DeliverStart, DeliverNext, DeliverDeferred, DeliverGated, turn
    <3> QED
      BY <3>1
  <2> QED
    BY <2>1, <2>2
<1>3. ASSUME NEW a \in Authors, Viewer(a) PROVE ~Live
  <2>1. CASE DrainSent(a)
    BY <1>a, <1>b, <2>1 DEF DrainSent, Holds
  <2>2. CASE ~DrainSent(a)
    <3>1. gen' = gen
      BY <1>3, <2>2 DEF Viewer, DrainClaim, DrainGated, DrainTake, DrainDeferred, DrainLetsGo, turn
    <3> QED
      BY <3>1
  <2> QED
    BY <2>1, <2>2
<1>4. CASE Turn
  <2>1. gen' = gen
    BY <1>4 DEF Turn, TurnEnds, TurnFails, PumpAccepts, PumpError, PumpDone, PumpDies, PumpEnds,
       AfterEnd, turn
  <2> QED
    BY <2>1
<1>5. CASE LoadRead \/ LoadEnd \/ LaneRuns \/ LaneFails \/ RevokeEnds \/ Crash
           \/ (\E a \in Authors : Revoke(a) \/ Connect(a) \/ Touch(a))
  <2>1. gen' = gen
    BY <1>5 DEF LoadRead, LoadEnd, LaneRuns, LaneFails, RevokeEnds, Crash, Revoke, Connect, Touch, turn
  <2> QED
    BY <2>1
<1>6. CASE StopTurn \/ StopReturns \/ StopAborts \/ CancelSome
           \/ (\E p \in Returners : GiveBack(p) \/ GiveBackFails(p))
  <2>1. gen' = gen
    BY <1>6 DEF StopTurn, StopReturns, StopAborts, CancelSome, Cancel, GiveBack, GiveBackFails, turn
  <2> QED
    BY <2>1
<1>7. CASE UNCHANGED vars
  BY <1>7 DEF vars, turn
<1> QED
  BY <1>1, <1>2, <1>3, <1>4, <1>5, <1>6, <1>7 DEF Next

\* No step starts a turn of the chat while one runs, whoever it is: an idle send, a
\* viewer on its way out, or the headless delivery.
THEOREM OneTurnAtATime == Spec => OneTurn
<1>1. Shapes /\ ClaimInv /\ [Next]_vars => [gen' # gen => ~Live]_vars
  BY StartsAlone
<1> QED
  BY <1>1, AlwaysHeld, PTL DEF Spec, OneTurn

-----------------------------------------------------------------------------
(* Where a message has been *)

Hands  == UNION {held[p] : p \in Procs}
InEvq  == IdsOf(evq, EventKinds)
InLane == IdsOf(lane, JobKinds)
Afoot  == items \cup Hands \cup InEvq \cup InLane

Listed   == IF revoking = <<>> THEN {} ELSE revoking[2]
Answered == {m \in Msgs : sent[m] # 0}
Settled  == ToSet(rows) \cup ToSet(snap) \cup ToSet(chat) \cup back \cup dropped \cup revoked
            \cup Listed \cup Answered

Seen == Afoot \cup Settled

\* A message is sent by one frame only.
SentOnce == \A f, g \in Frames : Of[f] = Of[g] => f = g

\* A frame that has handed its message to nobody yet: no one has seen it.
Early  == {"off", "steer", "add", "gates"}
PreInv == \A f \in Frames : pc[f] \in Early => Of[f] \notin Seen

LEMMA IdsMono == \A s, K, M : K \subseteq M => IdsOf(s, K) \subseteq IdsOf(s, M)
  BY IdsMember

LEMMA HandsIs == \A m : m \in Hands <=> \E p \in Procs : m \in held[p]
  BY DEF Hands

LEMMA LaneHead ==
    ASSUME Shapes, lane # <<>>
    PROVE  ToSet(Head(lane).ids) \subseteq InLane /\ IdsOf(Tail(lane), JobKinds) \subseteq InLane
<1>1. lane \in Seq(Jobs) /\ Head(lane) \in Jobs /\ Head(lane).k \in JobKinds
  BY HeadJob DEF Shapes, TurnShape, Jobs
<1>2. IdsOf(lane, JobKinds) = IdsOf(Tail(lane), JobKinds)
                                \cup (IF Head(lane).k \in JobKinds THEN ToSet(Head(lane).ids) ELSE {})
  BY <1>1, IdsTail
<1> QED
  BY <1>1, <1>2 DEF InLane

LEMMA EvqHead ==
    ASSUME Shapes, evq # <<>>
    PROVE  ToSet(Head(evq).ids) \subseteq InEvq /\ IdsOf(Tail(evq), EventKinds) \subseteq InEvq
<1>1. evq \in Seq(Events) /\ Head(evq) \in Events /\ Head(evq).k \in EventKinds
  BY HeadEvent DEF Shapes, TurnShape, Events
<1>2. IdsOf(evq, EventKinds) = IdsOf(Tail(evq), EventKinds)
                                \cup (IF Head(evq).k \in EventKinds THEN ToSet(Head(evq).ids) ELSE {})
  BY <1>1, IdsTail
<1> QED
  BY <1>1, <1>2 DEF InEvq

LEMMA LaneGrows ==
    ASSUME Shapes, NEW j \in Jobs, lane' = Append(lane, j)
    PROVE  InLane' = InLane \cup ToSet(j.ids)
<1>1. lane \in Seq(Jobs) /\ j.k \in JobKinds
  BY DEF Shapes, TurnShape, Jobs
<1>2. IdsOf(Append(lane, j), JobKinds)
        = IdsOf(lane, JobKinds) \cup (IF j.k \in JobKinds THEN ToSet(j.ids) ELSE {})
  BY <1>1, IdsAppend
<1> QED
  BY <1>1, <1>2 DEF InLane

LEMMA EvqGrows ==
    ASSUME Shapes, NEW e \in Events, evq' = Append(evq, e)
    PROVE  InEvq' = InEvq \cup ToSet(e.ids)
<1>1. evq \in Seq(Events) /\ e.k \in EventKinds
  BY DEF Shapes, TurnShape, Events
<1>2. IdsOf(Append(evq, e), EventKinds)
        = IdsOf(evq, EventKinds) \cup (IF e.k \in EventKinds THEN ToSet(e.ids) ELSE {})
  BY <1>1, IdsAppend
<1> QED
  BY <1>1, <1>2 DEF InEvq

LEMMA DropJob ==
    ASSUME Shapes, NumInv, NEW S, S \subseteq Numbered, NEW p \in Procs
    PROVE  /\ Job("drop", InOrder(S), p) \in Jobs /\ Job("drop", InOrder(S), p).k = "drop"
           /\ Job("drop", InOrder(S), p).p = p /\ ToSet(Job("drop", InOrder(S), p).ids) = S
           /\ Distinct(Job("drop", InOrder(S), p).ids)
<1>1. /\ "drop" \in JobKinds /\ p \in Procs \cup {None}
      /\ InOrder(S) \in Seq(Msgs) /\ ToSet(InOrder(S)) = S /\ Distinct(InOrder(S))
  BY InOrderIs DEF JobKinds
<1>2. /\ Job("drop", InOrder(S), p).k = "drop" /\ Job("drop", InOrder(S), p).p = p
      /\ Job("drop", InOrder(S), p).ids = InOrder(S)
  BY DEF Job
<1>3. Job("drop", InOrder(S), p) \in Jobs
  BY <1>1, Submits
<1> QED
  BY <1>1, <1>2, <1>3

LEMMA SendJobIs ==
    ASSUME Shapes, NumInv, NEW f \in Frames, SendJob(f)
    PROVE  \E j \in Jobs :
              /\ lane' = Append(lane, j) /\ j.k = "send" /\ j.p = f
              /\ ToSet(j.ids) = By(Who(f)) \cup {Of[f]}
              /\ Of[f] \notin items => Distinct(j.ids)
<1> DEFINE S == By(Who(f))
           s == InOrder(S)
           ids == Append(s, Of[f])
           j == Job("send", ids, f)
<1>1. S \subseteq Numbered /\ S \subseteq items
  BY DEF By, NumInv
<1>2. s \in Seq(Msgs) /\ ToSet(s) = S /\ Distinct(s) /\ Of[f] \in Msgs /\ f \in Procs
  <2> HIDE DEF S
  <2> QED
    BY <1>1, InOrderIs, QueueAssumption DEF Procs
<1>3. lane' = Append(lane, j)
  BY DEF SendJob, Submit
<1> HIDE DEF s, S
<1>4. ids \in Seq(Msgs) /\ ToSet(ids) = S \cup {Of[f]}
  BY <1>2, AppendSet
<1>5. ASSUME Of[f] \notin items PROVE Distinct(ids)
  <2>1. /\ Len(ids) = Len(s) + 1 /\ ids[Len(s) + 1] = Of[f] /\ Len(s) \in Nat
        /\ \A i \in 1..Len(s) : ids[i] = s[i] /\ s[i] \in ToSet(s)
    BY <1>2 DEF ToSet
  <2> HIDE DEF ids
  <2> QED
    BY <1>1, <1>2, <1>5, <2>1 DEF Distinct
<1>6. j.k = "send" /\ j.p = f /\ j.ids = ids
  BY DEF Job
<1> HIDE DEF ids
<1>7. j \in Jobs
  <2>1. "send" \in JobKinds /\ f \in Procs \cup {None}
    BY <1>2 DEF JobKinds
  <2> QED
    BY <1>2, <1>4, <2>1, Submits
<1> HIDE DEF j
<1> QED
  BY <1>3, <1>4, <1>5, <1>6, <1>7 DEF S

LEMMA AfootMoves ==
    ASSUME Shapes, NumInv, Moved
    PROVE  Afoot' \subseteq Afoot
<1>a. /\ lane \in Seq(Jobs) /\ held \in [Procs -> SUBSET Msgs] /\ items \subseteq Numbered
      /\ \A p \in Procs : held[p] \subseteq Numbered
      /\ Outside \subseteq Procs /\ Tasks \subseteq Procs
  BY DEF Shapes, TurnShape, ProcShape, NumInv, Outside, Procs
<1>b. ASSUME NEW p \in Procs, NEW S, held' = [held EXCEPT ![p] = S]
      PROVE  Hands' \subseteq Hands \cup S
  BY <1>a, <1>b, HandsIs DEF Hands
<1>j. ASSUME NEW p \in Procs, held' = [held EXCEPT ![p] = {}] PROVE Hands' \subseteq Hands
  BY <1>a, <1>j, HandsIs DEF Hands
<1>c. \A p \in Procs : held[p] \subseteq Hands
  BY HandsIs
<1>d. InEvq = IdsOf(evq, EventKinds) /\ InEvq' = IdsOf(evq', EventKinds)
      /\ InLane = IdsOf(lane, JobKinds) /\ InLane' = IdsOf(lane', JobKinds)
  BY DEF InEvq, InLane
<1>e. ASSUME NEW p \in Procs, NEW S, S \subseteq Numbered, lane' = Append(lane, Job("drop", InOrder(S), p))
      PROVE  InLane' = InLane \cup S
  <2> DEFINE j == Job("drop", InOrder(S), p)
  <2>1. j \in Jobs /\ ToSet(j.ids) = S /\ lane' = Append(lane, j)
    BY <1>e, DropJob
  <2> HIDE DEF j
  <2> QED
    BY <2>1, LaneGrows
<1>f. UNCHANGED lane => InLane' = InLane
  BY DEF InLane
<1>g. UNCHANGED evq => InEvq' = InEvq
  BY DEF InEvq
<1>h. UNCHANGED held => Hands' = Hands
  BY DEF Hands
<1>i. evq' = <<>> => InEvq' = {}
  BY <1>d, IdsEmpty
<1> HIDE DEF InEvq, InLane, Hands
<1>1. CASE Rests
  <2>1. InEvq' = InEvq
    BY <1>1, <1>d, MuteIs DEF Rests
  <2> QED
    BY <1>1, <1>f, <1>h, <2>1 DEF Rests, Afoot
<1>2. CASE Ended
  <2>1. PICK tl \in Seq(Jobs) :
           lane' = lane \o tl /\ \A K : IdsOf(tl, K) = IF "steer" \in K THEN IdsOf(evq, {"steer"}) ELSE {}
    BY <1>2, LoopEndsIs DEF Ended
  <2>2. IdsOf(lane \o tl, JobKinds) = IdsOf(lane, JobKinds) \cup IdsOf(tl, JobKinds)
    BY <1>a, IdsConcat
  <2>3. IdsOf(tl, JobKinds) = IdsOf(evq, {"steer"}) /\ IdsOf(evq, {"steer"}) \subseteq InEvq
    <3>1. "steer" \in JobKinds /\ {"steer"} \subseteq EventKinds
      BY DEF JobKinds, EventKinds
    <3>2. IdsOf(evq, {"steer"}) \subseteq IdsOf(evq, EventKinds)
      BY <3>1, IdsMono
    <3>3. IdsOf(tl, JobKinds) = IdsOf(evq, {"steer"})
      BY <2>1, <3>1
    <3> QED
      BY <1>d, <3>2, <3>3
  <2>4. evq' = <<>>
    BY <1>2, LoopEndsIs DEF Ended
  <2> QED
    BY <1>2, <1>d, <1>h, <1>i, <2>1, <2>2, <2>3, <2>4 DEF Ended, Afoot
<1>3. ASSUME NEW p \in Outside, NEW S \in SUBSET items, Takes(p, S) PROVE Afoot' \subseteq Afoot
  <2>1. p \in Procs /\ S \subseteq Numbered
    BY <1>a
  <2>2. Hands' \subseteq Hands \cup S /\ items' \subseteq items /\ InEvq' = InEvq
    BY <1>3, <1>b, <1>g, <2>1 DEF Takes
  <2>3. InLane' \subseteq InLane \cup S
    BY <1>3, <1>e, <1>f, <2>1 DEF Takes
  <2> QED
    BY <2>2, <2>3 DEF Afoot
<1>4. ASSUME NEW t \in Tasks, Gates(t) PROVE Afoot' \subseteq Afoot
  <2>1. t \in Procs /\ held[t] \subseteq Numbered /\ held[t] \subseteq Hands
    BY <1>a, <1>c
  <2>2. InLane' = InLane \cup held[t]
    BY <1>4, <1>e, <2>1 DEF Gates
  <2> QED
    BY <1>4, <1>g, <1>h, <2>1, <2>2 DEF Gates, Afoot
<1>5. ASSUME NEW p \in Outside, Defers(p) PROVE Afoot' \subseteq Afoot
  <2>1. p \in Procs /\ held[p] \subseteq Hands
    BY <1>a, <1>c
  <2>2. Hands' \subseteq Hands
    BY <1>5, <1>j, <2>1 DEF Defers
  <2> QED
    BY <1>5, <1>f, <1>g, <2>1, <2>2 DEF Defers, PutBack, Afoot
<1>6. ASSUME NEW p \in Outside, Launched(p) PROVE Afoot' \subseteq Afoot
  <2>1. p \in Procs /\ held[p] \subseteq Hands
    BY <1>a, <1>c
  <2>2. Hands' \subseteq Hands
    BY <1>6, <1>j, <2>1 DEF Launched
  <2>3. InLane' = InLane \cup held[p]
    BY <1>6, LaneGrows DEF Launched
  <2> QED
    BY <1>6, <1>i, <2>1, <2>2, <2>3 DEF Launched, Afoot
<1>7. ASSUME NEW p \in Procs, LetsGo(p) PROVE Afoot' \subseteq Afoot
  <2>1. Hands' \subseteq Hands
    BY <1>7, <1>j DEF LetsGo
  <2> QED
    BY <1>7, <1>f, <1>g, <2>1 DEF LetsGo, Afoot
<1> QED
  BY <1>1, <1>2, <1>3, <1>4, <1>5, <1>6, <1>7 DEF Moved

LEMMA EarlyBefore ==
    ASSUME Shapes, NumInv, JobsFit, [Next]_vars, NEW f \in Frames, pc'[f] \in Early
    PROVE  pc[f] \in Early
<1>a. /\ pc \in [Procs -> Places] /\ f \in Procs /\ Outside \cap Frames = {}
      /\ Outside \subseteq Procs /\ Tasks \subseteq Outside /\ Returners = Outside
      /\ Frames \subseteq Procs
  BY QueueAssumption DEF Shapes, ProcShape, Procs, Outside, Returners
<1>b. \A p \in Procs : \A l : Goto(p, l) => pc'[p] = l /\ \A q \in Procs \ {p} : pc'[q] = pc[q]
  BY <1>a DEF Goto
<1>c. ASSUME NEW p \in Outside, NEW l, Goto(p, l) PROVE pc'[f] = pc[f]
  BY <1>a, <1>b, <1>c
<1>d. ASSUME NEW p \in Frames, NEW l, Goto(p, l), l \notin Early PROVE pc[f] \in Early
  <2>1. p # f
    BY <1>a, <1>b, <1>d
  <2> QED
    BY <1>a, <1>b, <1>d, <2>1
<1>e. UNCHANGED pc => pc[f] \in Early
  OBVIOUS
<1>1. CASE Moved
  <2>1. CASE Rests
    <3>1. ASSUME NEW p \in Procs, NEW to \in Places, Calm(p, to), Goto(p, to), p = f
          PROVE  pc[f] \in Early
      BY <1>b, <3>1 DEF Calm, Early
    <3>2. ASSUME NEW p \in Procs, NEW to \in Places, Goto(p, to), p # f PROVE pc[f] \in Early
      BY <1>a, <1>b, <3>2
    <3> QED
      BY <1>e, <2>1, <3>1, <3>2 DEF Rests
  <2>2. CASE Ended
    BY <1>e, <2>2 DEF Ended
  <2>3. ASSUME NEW p \in Outside, NEW S \in SUBSET items, Takes(p, S) PROVE pc[f] \in Early
    BY <1>c, <1>e, <2>3 DEF Takes
  <2>4. ASSUME NEW t \in Tasks, Gates(t) PROVE pc[f] \in Early
    BY <1>a, <1>c, <2>4 DEF Gates
  <2>5. ASSUME NEW p \in Outside, Defers(p) \/ Launched(p) PROVE pc[f] \in Early
    BY <1>c, <2>5 DEF Defers, Launched
  <2>6. ASSUME NEW p \in Procs, LetsGo(p) PROVE pc[f] \in Early
    <3>1. CASE p \in Frames
      BY <1>d, <2>6, <3>1 DEF LetsGo, Early
    <3>2. CASE p \notin Frames
      <4>1. p # f /\ \E l : Goto(p, l)
        BY <2>6, <3>2 DEF LetsGo
      <4> QED
        BY <1>a, <1>b, <4>1
    <3> QED
      BY <3>1, <3>2
  <2> QED
    BY <1>1, <2>1, <2>2, <2>3, <2>4, <2>5, <2>6 DEF Moved
<1>2. ASSUME NEW g \in Frames, Steered(g) \/ RecordSteer(g) \/ Add(g) \/ SendJob(g) \/ StartTurn(g)
      PROVE  pc[f] \in Early
  <2>1. \E l \in {"steered", "done", "adding", "added", "storing"} : Goto(g, l)
    BY <1>2, Zenon DEF Steered, RecordSteer, Add, SendJob, StartTurn
  <2> QED
    BY <1>d, <2>1 DEF Early
<1>3. CASE LoadRead \/ LoadEnd \/ TurnEnds \/ PumpAccepts \/ RevokeEnds \/ \E a \in Authors : Revoke(a)
  BY <1>3 DEF LoadRead, LoadEnd, TurnEnds, PumpAccepts, RevokeEnds, Revoke, procs
<1>4. ASSUME LaneRuns \/ LaneFails PROVE pc[f] \in Early
  <2> DEFINE j == Head(lane)
  <2>1. \/ pc' = pc
        \/ \E l \in {"added", "stored", "dropped", "failed"} : Goto(j.p, l) /\ j.k \in OfProc
    BY <1>4 DEF LaneRuns, LaneFails, JobAdd, JobAccept, JobSend, JobDrop, JobEnd, JobFails, OfProc,
            Goto
  <2>2. lane # <<>> /\ j \in Jobs
    BY <1>4, HeadJob DEF LaneRuns, LaneFails
  <2>3. j.k \in OfProc => j.p \in Procs
    BY <2>2 DEF Jobs, OfProc
  <2> HIDE DEF j
  <2>4. ASSUME NEW l \in {"added", "stored", "dropped", "failed"}, Goto(j.p, l), j.p \in Procs
        PROVE  pc[f] \in Early
    <3>1. CASE j.p = f
      BY <1>b, <2>4, <3>1 DEF Early
    <3>2. CASE j.p # f
      BY <1>a, <1>b, <2>4, <3>2
    <3> QED
      BY <3>1, <3>2
  <2> QED
    BY <1>e, <2>1, <2>3, <2>4
<1>5. ASSUME NEW p \in Returners, GiveBack(p) PROVE pc[f] \in Early
  BY <1>a, <1>c, <1>5 DEF GiveBack
<1>6. CASE Crash
  BY <1>a, <1>6 DEF Crash, Early
<1> QED
  BY <1>1, <1>2, <1>3, <1>4, <1>5, <1>6, StepsAre DEF Acted

LEMMA ConcatSet ==
    ASSUME NEW X, NEW s \in Seq(X), NEW t \in Seq(X)
    PROVE  s \o t \in Seq(X) /\ ToSet(s \o t) = ToSet(s) \cup ToSet(t)
<1> DEFINE w == s \o t
<1>1. /\ w \in Seq(X) /\ Len(w) = Len(s) + Len(t) /\ Len(s) \in Nat /\ Len(t) \in Nat
      /\ \A n \in 1..Len(s) + Len(t) : w[n] = IF n <= Len(s) THEN s[n] ELSE t[n - Len(s)]
  BY ConcatProperties
<1>2. ToSet(s) = {s[i] : i \in 1..Len(s)} /\ ToSet(t) = {t[i] : i \in 1..Len(t)}
  BY DEF ToSet
<1> HIDE DEF w
<1>3. ToSet(w) = {w[i] : i \in 1..Len(s) + Len(t)}
  BY <1>1 DEF ToSet
<1>4. ASSUME NEW x \in ToSet(w) PROVE x \in ToSet(s) \cup ToSet(t)
  <2>1. PICK i \in 1..Len(s) + Len(t) : x = w[i]
    BY <1>3
  <2>2. CASE i <= Len(s)
    <3>1. i \in 1..Len(s) /\ x = s[i]
      BY <1>1, <2>1, <2>2
    <3> QED
      BY <1>2, <3>1
  <2>3. CASE ~(i <= Len(s))
    <3>1. i - Len(s) \in 1..Len(t) /\ x = t[i - Len(s)]
      BY <1>1, <2>1, <2>3
    <3> QED
      BY <1>2, <3>1
  <2> QED
    BY <2>2, <2>3
<1>5. ASSUME NEW i \in 1..Len(s) PROVE s[i] \in ToSet(w)
  BY <1>1, <1>3
<1>6. ASSUME NEW i \in 1..Len(t) PROVE t[i] \in ToSet(w)
  <2>1. i + Len(s) \in 1..Len(s) + Len(t) /\ ~(i + Len(s) <= Len(s)) /\ (i + Len(s)) - Len(s) = i
    BY <1>1
  <2>2. w[i + Len(s)] = t[i]
    BY <1>1, <2>1
  <2> QED
    BY <1>3, <2>1, <2>2
<1>7. ToSet(w) = ToSet(s) \cup ToSet(t)
  BY <1>2, <1>4, <1>5, <1>6
<1> QED
  BY <1>1, <1>7 DEF w

\* Only a frame that is on its way brings in a message nobody has seen.
LEMMA SeenGrows ==
    ASSUME Shapes, NumInv, JobsFit, [Next]_vars
    PROVE  \/ Seen' \subseteq Seen
           \/ \E f \in Frames : /\ pc[f] \in {"steer", "add", "gates", "steered", "stored"}
                                /\ pc'[f] \notin Early
                                /\ Seen' \subseteq Seen \cup {Of[f]}
<1>a. /\ lane \in Seq(Jobs) /\ evq \in Seq(Events) /\ held \in [Procs -> SUBSET Msgs]
      /\ pc \in [Procs -> Places] /\ items \subseteq Numbered
      /\ \A p \in Procs : held[p] \subseteq Numbered
      /\ Frames \subseteq Procs /\ Returners \subseteq Procs
      /\ sent \in [Msgs -> Nat] /\ items \subseteq Msgs
  BY DEF Shapes, TurnShape, ProcShape, FateShape, QueueShape, NumInv, Returners, Procs
<1>b. ASSUME NEW p \in Procs, NEW S, held' = [held EXCEPT ![p] = S]
      PROVE  Hands' \subseteq Hands \cup S
  BY <1>a, <1>b, HandsIs DEF Hands
<1>c. ASSUME NEW p \in Procs, held' = [held EXCEPT ![p] = {}] PROVE Hands' \subseteq Hands
  BY <1>a, <1>c, HandsIs DEF Hands
<1>d. \A p \in Procs : held[p] \subseteq Hands
  BY HandsIs
<1>e. UNCHANGED lane => InLane' = InLane
  BY DEF InLane
<1>f. UNCHANGED evq => InEvq' = InEvq
  BY DEF InEvq
<1>g. UNCHANGED held => Hands' = Hands
  BY DEF Hands
<1>h. evq' = <<>> => InEvq' = {}
  BY IdsEmpty DEF InEvq
<1>i. lane' = <<>> => InLane' = {}
  BY IdsEmpty DEF InLane
<1>j. lane # <<>> /\ lane' = Tail(lane)
        => InLane' \subseteq InLane /\ ToSet(Head(lane).ids) \subseteq InLane
  BY LaneHead DEF InLane
<1>k. evq' \in Mute => InEvq' = InEvq
  BY MuteIs DEF InEvq
<1>l. UNCHANGED sent => Answered' = Answered
  BY DEF Answered
<1>m. UNCHANGED revoking => Listed' = Listed
  BY DEF Listed
<1>n. UNCHANGED fixed => Settled' = Settled
  BY DEF fixed, Settled, Listed, Answered
<1>o. UNCHANGED <<rows, snap, chat, dropped, revoked, revoking>> =>
         /\ back' = back /\ Answered' \subseteq Answered \cup Afoot => Settled' \subseteq Seen
         /\ back' \subseteq back \cup Hands /\ sent' = sent => Settled' \subseteq Seen
  BY <1>l, <1>m DEF Settled, Seen, Afoot
<1>p. UNCHANGED <<rows, snap, chat, dropped, revoked, revoking, back, sent>> => Settled' = Settled
  BY <1>l, <1>m DEF Settled
<1> HIDE DEF InEvq, InLane, Hands, Answered, Listed
<1>1. ASSUME Moved, UNCHANGED fixed PROVE Seen' \subseteq Seen
  BY <1>1, <1>n, AfootMoves DEF Seen
<1>2. ASSUME LoadRead PROVE Seen' \subseteq Seen
  <2>1. UNCHANGED <<items, lane, evq, held, rows, chat, back, dropped, revoked, revoking, sent>>
        /\ snap' = rows
    BY <1>2 DEF LoadRead, queue, turn, procs, tables, fates
  <2> QED
    BY <1>e, <1>f, <1>g, <1>l, <1>m, <2>1 DEF Seen, Afoot, Settled
<1>3. ASSUME LoadEnd PROVE Seen' \subseteq Seen
  <2>1. UNCHANGED <<lane, evq, held, rows, chat, back, dropped, revoked, revoking, sent>>
        /\ snap' = <<>> /\ items' = items \cup ToSet(Without(snap, items))
    BY <1>3 DEF LoadEnd, turn, procs, tables, fates
  <2>2. ToSet(Without(snap, items)) \subseteq ToSet(snap) /\ ToSet(<<>>) = {}
    <3>1. snap \in Seq(Msgs) /\ ToSet(<<>>) = {}
      BY DEF Shapes, QueueShape, ToSet
    <3> QED
      BY <3>1, WithoutIs
  <2> QED
    BY <1>e, <1>f, <1>g, <1>l, <1>m, <2>1, <2>2 DEF Seen, Afoot, Settled
<1>4. ASSUME NEW f \in Frames, Steered(f) \/ RecordSteer(f) \/ Add(f) \/ SendJob(f) \/ StartTurn(f)
      PROVE  /\ pc[f] \in {"steer", "add", "gates", "steered", "stored"}
             /\ pc'[f] \notin Early /\ Seen' \subseteq Seen \cup {Of[f]}
  <2>0. /\ Of[f] \in Msgs /\ <<Of[f]>> \in Seq(Msgs) /\ ToSet(<<Of[f]>>) = {Of[f]} /\ f \in Procs
        /\ f \in Procs \cup {None}
        /\ \A l : Goto(f, l) => pc'[f] = l
    BY <1>a, QueueAssumption DEF Goto, ToSet
  <2>1. ASSUME Steered(f)
        PROVE  pc[f] = "steer" /\ pc'[f] \notin Early /\ Seen' \subseteq Seen \cup {Of[f]}
    <3>1. /\ UNCHANGED <<items, lane, evq, held, rows, snap, chat, back, dropped, revoked, revoking>>
          /\ sent' = [sent EXCEPT ![Of[f]] = @ + 1] /\ pc[f] = "steer" /\ pc'[f] = "steered"
      BY <2>0, <2>1 DEF Steered, queue, turn, loading, tables
    <3>2. Answered' \subseteq Answered \cup {Of[f]}
      BY <1>a, <2>0, <3>1 DEF Answered
    <3> QED
      BY <1>e, <1>f, <1>g, <1>m, <3>1, <3>2 DEF Seen, Afoot, Settled, Early
  <2>2. ASSUME RecordSteer(f)
        PROVE  pc[f] = "steered" /\ pc'[f] \notin Early /\ Seen' \subseteq Seen \cup {Of[f]}
    <3> DEFINE j == Job("steer", <<Of[f]>>, f)
               e == [k |-> "steer", ids |-> <<Of[f]>>]
    <3>1. j \in Jobs /\ ToSet(j.ids) = {Of[f]} /\ e \in Events /\ ToSet(e.ids) = {Of[f]}
      <4>1. /\ "steer" \in JobKinds /\ "steer" \in EventKinds /\ "steer" \notin {"add", "send", "drop"}
        BY DEF JobKinds, EventKinds
      <4>2. j.ids = <<Of[f]>> /\ e.ids = <<Of[f]>>
        BY DEF Job
      <4>3. j \in Jobs
        BY <2>0, <4>1, Submits
      <4>4. e \in Events
        BY <2>0, <4>1, Posts
      <4> QED
        BY <2>0, <4>2, <4>3, <4>4
    <3>2. /\ UNCHANGED <<items, held, rows, snap, chat, back, dropped, revoked, revoking, sent>>
          /\ pc[f] = "steered" /\ pc'[f] = "done"
          /\ lane' = lane \/ lane' = Append(lane, j)
          /\ evq' = evq \/ evq' = Append(evq, e)
      BY <2>0, <2>2 DEF RecordSteer, Submit, loading, tables, fates
    <3> HIDE DEF j, e
    <3>3. InLane' \subseteq InLane \cup {Of[f]} /\ InEvq' \subseteq InEvq \cup {Of[f]}
      BY <1>e, <1>f, <3>1, <3>2, LaneGrows, EvqGrows
    <3> QED
      BY <1>g, <1>p, <3>2, <3>3 DEF Seen, Afoot, Early
  <2>3. ASSUME Add(f)
        PROVE  pc[f] = "add" /\ pc'[f] \notin Early /\ Seen' \subseteq Seen \cup {Of[f]}
    <3> DEFINE j == Job("add", <<Of[f]>>, f)
    <3>1. j \in Jobs /\ ToSet(j.ids) = {Of[f]}
      <4>1. "add" \in JobKinds
        BY DEF JobKinds
      <4>2. j.ids = <<Of[f]>>
        BY DEF Job
      <4>3. j \in Jobs
        BY <2>0, <4>1, Submits
      <4> QED
        BY <2>0, <4>2, <4>3
    <3>2. /\ UNCHANGED <<evq, held, rows, snap, chat, back, dropped, revoked, revoking, sent>>
          /\ pc[f] = "add" /\ items' \subseteq items \cup {Of[f]}
          /\ lane' = lane \/ lane' = Append(lane, j)
          /\ \E l \in {"adding", "added", "done"} : Goto(f, l)
      BY <2>3, Zenon DEF Add, Submit, loading, tables, turn
    <3> HIDE DEF j
    <3>3. InLane' \subseteq InLane \cup {Of[f]} /\ pc'[f] \notin Early
      BY <1>e, <2>0, <3>1, <3>2, LaneGrows DEF Early
    <3> QED
      BY <1>f, <1>g, <1>p, <3>2, <3>3 DEF Seen, Afoot
  <2>4. ASSUME SendJob(f)
        PROVE  pc[f] = "gates" /\ pc'[f] \notin Early /\ Seen' \subseteq Seen \cup {Of[f]}
    <3> DEFINE S == By(Who(f))
    <3>1. /\ UNCHANGED <<evq, rows, snap, chat, back, dropped, revoked, revoking, sent>>
          /\ pc[f] = "gates" /\ items' = items \ S /\ pc'[f] = "storing"
          /\ held' = [held EXCEPT ![f] = S]
      BY <2>0, <2>4 DEF SendJob, loading, tables, turn, fates
    <3>2. \E j \in Jobs : lane' = Append(lane, j) /\ ToSet(j.ids) = S \cup {Of[f]}
      BY <2>4, SendJobIs
    <3>3. S \subseteq items
      BY DEF By
    <3> HIDE DEF S
    <3>4. InLane' \subseteq InLane \cup S \cup {Of[f]}
      BY <3>2, LaneGrows
    <3>5. Hands' \subseteq Hands \cup S
      BY <1>b, <2>0, <3>1
    <3> QED
      BY <1>f, <1>p, <3>1, <3>3, <3>4, <3>5 DEF Seen, Afoot, Early
  <2>5. ASSUME StartTurn(f)
        PROVE  pc[f] = "stored" /\ pc'[f] \notin Early /\ Seen' \subseteq Seen \cup {Of[f]}
    <3> DEFINE s == InOrder(held[f])
               ids == Append(s, Of[f])
    <3>1. ToSet(ids) = held[f] \cup {Of[f]}
      <4>1. s \in Seq(Msgs) /\ ToSet(s) = held[f]
        BY <1>a, <2>0, InOrderIs
      <4> HIDE DEF s
      <4> QED
        BY <2>0, <4>1, AppendSet
    <3>2. /\ UNCHANGED <<items, lane, rows, snap, chat, back, dropped, revoked, revoking>>
          /\ pc[f] = "stored" /\ pc'[f] = "done" /\ held' = [held EXCEPT ![f] = {}]
          /\ evq' = evq \/ evq' = <<>>
          /\ \/ sent' = sent
             \/ sent' = [m \in Msgs |-> IF m \in ToSet(ids) THEN sent[m] + 1 ELSE sent[m]]
      BY <2>0, <2>5 DEF StartTurn, queue, loading, tables, turn
    <3> HIDE DEF ids
    <3>3. Answered' \subseteq Answered \cup ToSet(ids)
      BY <1>a, <3>2 DEF Answered
    <3>4. Hands' \subseteq Hands /\ held[f] \subseteq Hands /\ InEvq' \subseteq InEvq
      BY <1>c, <1>d, <1>f, <1>h, <2>0, <3>2
    <3> QED
      BY <1>e, <1>m, <3>1, <3>2, <3>3, <3>4 DEF Seen, Afoot, Settled, Early
  <2> QED
    BY <1>4, <2>1, <2>2, <2>3, <2>4, <2>5
<1>5. ASSUME TurnEnds PROVE Seen' \subseteq Seen
  <2> DEFINE next == {m \in items : DrainAs(m)}
             e == [k |-> "turn", ids |-> InOrder(next)]
  <2>1. /\ UNCHANGED <<lane, held, rows, snap, chat, back, dropped, revoked, revoking, sent>>
        /\ items' \subseteq items
        /\ evq' = Append(evq, e) \/ evq' \in Mute
    BY <1>5 DEF TurnEnds, loading, tables, procs, fates, Mute
  <2>2. next \subseteq Numbered /\ next \subseteq items
    BY <1>a
  <2> HIDE DEF next
  <2>3. e \in Events /\ ToSet(e.ids) = next
    <3>1. "turn" \in EventKinds /\ InOrder(next) \in Seq(Msgs) /\ ToSet(InOrder(next)) = next
      BY <2>2, InOrderIs DEF EventKinds
    <3>2. e \in Events
      BY <3>1, Posts
    <3> QED
      BY <3>1, <3>2
  <2> HIDE DEF e
  <2>4. InEvq' \subseteq InEvq \cup next
    BY <1>k, <2>1, <2>3, EvqGrows
  <2> QED
    BY <1>e, <1>g, <1>p, <2>1, <2>2, <2>4 DEF Seen, Afoot
<1>6. ASSUME PumpAccepts PROVE Seen' \subseteq Seen
  <2> DEFINE j == Job(Head(evq).k, Head(evq).ids, None)
  <2>1. /\ evq # <<>> /\ Head(evq).k \in {"turn", "steer"} /\ lane' = Append(lane, j)
        /\ evq' = Tail(evq)
        /\ UNCHANGED <<items, held, rows, snap, chat, back, dropped, revoked, revoking, sent>>
    BY <1>6 DEF PumpAccepts, PumpReads, Submit, loading, tables, procs, fates
  <2>2. j \in Jobs /\ j.ids = Head(evq).ids
    <3>1. /\ Head(evq).ids \in Seq(Msgs) /\ Head(evq).k \in JobKinds
          /\ Head(evq).k \notin {"add", "send", "drop"}
      BY <2>1, HeadEvent DEF JobKinds
    <3> QED
      BY <3>1, Submits
  <2> HIDE DEF j
  <2>3. InLane' = InLane \cup ToSet(Head(evq).ids)
    BY <2>1, <2>2, LaneGrows
  <2>4. InEvq' \subseteq InEvq /\ ToSet(Head(evq).ids) \subseteq InEvq
    BY <2>1, EvqHead DEF InEvq
  <2> QED
    BY <1>g, <1>p, <2>1, <2>3, <2>4 DEF Seen, Afoot
<1>7. ASSUME LaneRuns PROVE Seen' \subseteq Seen
  <2> DEFINE j == Head(lane)
  <2>1. /\ lane # <<>> /\ lane' = Tail(lane)
        /\ JobAdd(j) \/ JobAccept(j) \/ JobSend(j) \/ JobDrop(j) \/ JobEnd(j)
        /\ UNCHANGED <<items, held, evq, snap, back, dropped, revoked, revoking>>
    BY <1>7 DEF LaneRuns, queue, loading
  <2>2. j.ids \in Seq(Msgs) /\ rows \in Seq(Msgs) /\ chat \in Seq(Msgs) /\ InLane' \subseteq InLane
        /\ ToSet(j.ids) \subseteq InLane
    BY <1>j, <2>1, HeadJob DEF Shapes, TableShape
  <2> HIDE DEF j
  <2>3. /\ ToSet(rows \o j.ids) = ToSet(rows) \cup ToSet(j.ids)
        /\ ToSet(chat \o j.ids) = ToSet(chat) \cup ToSet(j.ids)
        /\ ToSet(Without(rows, ToSet(j.ids))) \subseteq ToSet(rows)
    BY <2>2, ConcatSet, WithoutIs
  <2>4. ToSet(rows') \subseteq ToSet(rows) \cup ToSet(j.ids) /\ ToSet(chat') \subseteq ToSet(chat) \cup ToSet(j.ids)
    BY <2>1, <2>3 DEF JobAdd, JobAccept, JobSend, JobDrop, JobEnd, tables
  <2>5. Answered' \subseteq Answered \cup ToSet(j.ids)
    <3>1. sent' = sent \/ ToEngine(j.ids)
      BY <2>1 DEF JobAdd, JobAccept, JobSend, JobDrop, JobEnd
    <3> QED
      BY <1>a, <3>1 DEF ToEngine, Answered
  <2> QED
    BY <1>f, <1>g, <1>m, <2>1, <2>2, <2>4, <2>5 DEF Seen, Afoot, Settled
<1>8. ASSUME LaneFails PROVE Seen' \subseteq Seen
  <2> DEFINE j == Head(lane)
  <2>1. /\ lane # <<>> /\ lane' = Tail(lane) /\ JobFails(j)
        /\ UNCHANGED <<held, snap, back, dropped, revoked, revoking, sent>>
    BY <1>8 DEF LaneFails, loading, fates
  <2>2. j \in Jobs /\ InLane' \subseteq InLane /\ ToSet(j.ids) \subseteq InLane
    BY <1>j, <2>1, HeadJob
  <2> HIDE DEF j
  <2>3. items' \subseteq items \cup InLane
    BY <2>1, <2>2 DEF JobFails, PutBack
  <2>4. InEvq' = InEvq
    <3>1. evq' \in Mute \/ evq' = Append(evq, Head(Failure))
      BY <2>1 DEF JobFails, Mute
    <3>2. Head(Failure) \in Events /\ Head(Failure).ids = <<>>
      BY Failures
    <3>3. ToSet(<<>>) = {}
      BY DEF ToSet
    <3> HIDE DEF Failure
    <3> QED
      BY <1>k, <3>1, <3>2, <3>3, EvqGrows
  <2>5. ToSet(rows') \subseteq ToSet(rows) /\ ToSet(chat') \subseteq ToSet(chat) \cup Hands
    <3>1. CASE UNCHANGED tables
      BY <3>1 DEF tables
    <3>2. CASE /\ j.k = "send"
               /\ rows' = Without(rows, held[j.p]) /\ chat' = chat \o InOrder(held[j.p])
      <4>1. j.p \in Procs /\ rows \in Seq(Msgs) /\ chat \in Seq(Msgs)
        BY <2>2, <3>2 DEF Jobs, Shapes, TableShape
      <4>2. InOrder(held[j.p]) \in Seq(Msgs) /\ ToSet(InOrder(held[j.p])) = held[j.p]
        BY <1>a, <4>1, InOrderIs
      <4>3. ToSet(chat \o InOrder(held[j.p])) = ToSet(chat) \cup ToSet(InOrder(held[j.p]))
        BY <4>1, <4>2, ConcatSet
      <4>4. ToSet(Without(rows, held[j.p])) = ToSet(rows) \ held[j.p]
        BY <4>1, WithoutIs
      <4> QED
        BY <1>d, <3>2, <4>1, <4>2, <4>3, <4>4
    <3> QED
      BY <2>1, <3>1, <3>2 DEF JobFails
  <2> QED
    BY <1>g, <1>l, <1>m, <2>1, <2>2, <2>3, <2>4, <2>5 DEF Seen, Afoot, Settled
<1>9. ASSUME NEW p \in Returners, GiveBack(p) PROVE Seen' \subseteq Seen
  <2>1. p \in Procs /\ held[p] \subseteq Hands /\ held' = [held EXCEPT ![p] = {}]
        /\ back' = back \cup held[p]
        /\ UNCHANGED <<items, lane, evq, rows, snap, chat, dropped, revoked, revoking, sent>>
    BY <1>a, <1>d, <1>9 DEF GiveBack, queue, loading, tables, turn
  <2>2. Hands' \subseteq Hands
    BY <1>c, <2>1
  <2> QED
    BY <1>e, <1>f, <1>l, <1>m, <2>1, <2>2 DEF Seen, Afoot, Settled
<1>10. ASSUME NEW a \in Authors, Revoke(a) PROVE Seen' \subseteq Seen
  <2> DEFINE S == {m \in ToSet(rows) : Author[m] = a}
  <2>1. /\ UNCHANGED <<items, lane, evq, held, snap, chat, back, dropped, sent>>
        /\ rows' = Without(rows, {m \in Msgs : Author[m] = a})
        /\ revoking' = <<a, S>> /\ revoked' = revoked \cup revoking'[2]
    BY <1>10 DEF Revoke, queue, loading, turn, procs
  <2>2. ToSet(rows') \subseteq ToSet(rows)
    BY <2>1, WithoutIs DEF Shapes, TableShape
  <2>3. Listed' = S /\ revoking'[2] = S /\ S \subseteq ToSet(rows)
    BY <2>1 DEF Listed
  <2> HIDE DEF S
  <2> QED
    BY <1>e, <1>f, <1>g, <1>l, <2>1, <2>2, <2>3 DEF Seen, Afoot, Settled
<1>11. ASSUME RevokeEnds PROVE Seen' \subseteq Seen
  <2>1. /\ UNCHANGED <<lane, evq, held, rows, snap, chat, back, sent>> /\ revoking # <<>>
        /\ revoking' = <<>> /\ dropped' = dropped \cup revoking[2] \cup By(revoking[1])
        /\ revoked' = revoked \cup revoking[2] \cup By(revoking[1])
        /\ items' \subseteq items
    BY <1>11 DEF RevokeEnds, loading, tables, turn, procs
  <2>2. Listed' = {} /\ Listed = revoking[2] /\ By(revoking[1]) \subseteq items
    BY <2>1 DEF Listed, By
  <2> QED
    BY <1>e, <1>f, <1>g, <1>l, <2>1, <2>2 DEF Seen, Afoot, Settled
<1>12. ASSUME Crash PROVE Seen' \subseteq Seen
  <2>1. /\ items' = {} /\ lane' = <<>> /\ evq' = <<>> /\ snap' = <<>> /\ dropped' = {}
        /\ revoking' = <<>> /\ held' = [p \in Procs |-> {}]
        /\ UNCHANGED <<rows, chat, back, revoked, sent>>
    BY <1>12 DEF Crash, tables
  <2>2. Listed' = {} /\ Hands' = {} /\ ToSet(snap') = {}
    BY <2>1 DEF Listed, Hands, ToSet
  <2> QED
    BY <1>h, <1>i, <1>l, <2>1, <2>2 DEF Seen, Afoot, Settled
<1> QED
  BY <1>1, <1>2, <1>3, <1>4, <1>5, <1>6, <1>7, <1>8, <1>9, <1>10, <1>11, <1>12, StepsAre DEF Acted

LEMMA PreKept ==
    ASSUME SentOnce, Shapes, NumInv, JobsFit, PreInv, [Next]_vars
    PROVE  PreInv'
<1>1. SUFFICES ASSUME NEW f \in Frames, pc'[f] \in Early PROVE Of[f] \notin Seen'
  BY DEF PreInv
<1>2. Of[f] \notin Seen
  BY <1>1, EarlyBefore DEF PreInv
<1>3. ASSUME NEW g \in Frames, pc'[g] \notin Early, Seen' \subseteq Seen \cup {Of[g]}
      PROVE  Of[f] \notin Seen'
  <2>1. Of[g] # Of[f]
    BY <1>1, <1>3 DEF SentOnce
  <2> QED
    BY <1>2, <1>3, <2>1
<1> QED
  BY <1>2, <1>3, SeenGrows

LEMMA UnseenAtStart == Init => PreInv
<1> SUFFICES ASSUME Init PROVE Seen = {}
  BY DEF PreInv
<1>1. /\ items = {} /\ held = [p \in Procs |-> {}] /\ evq = <<>> /\ lane = <<>>
      /\ rows = <<>> /\ snap = <<>> /\ chat = <<>> /\ back = {} /\ dropped = {} /\ revoked = {}
      /\ revoking = <<>> /\ sent = [m \in Msgs |-> 0]
  BY DEF Init
<1>2. Hands = {} /\ Answered = {} /\ Listed = {} /\ ToSet(<<>>) = {}
  BY <1>1 DEF Hands, Answered, Listed, ToSet
<1>3. InEvq = {} /\ InLane = {}
  BY <1>1, IdsEmpty DEF InEvq, InLane
<1> QED
  BY <1>1, <1>2, <1>3 DEF Seen, Afoot, Settled

-----------------------------------------------------------------------------
(* What was acknowledged, and what was revoked *)

\* Where a message is safe from a restart: its row of either table, its author's
\* composer, a revocation's hands, or a return under way.
Safe == ToSet(rows) \cup ToSet(chat) \cup back \cup revoked \cup owed \cup lost

AckInv == ack \subseteq Safe /\ \A f \in Frames : pc[f] = "added" => Of[f] \in Safe

LEMMA SafeGrows ==
    ASSUME Shapes, NumInv, [Next]_vars
    PROVE  Safe \subseteq Safe'
<1>a. /\ rows \in Seq(Msgs) /\ chat \in Seq(Msgs) /\ held \in [Procs -> SUBSET Msgs]
      /\ \A p \in Procs : held[p] \subseteq Numbered
  BY DEF Shapes, TableShape, ProcShape, NumInv
<1>b. UNCHANGED <<rows, chat, back, revoked, owed, lost>> => Safe \subseteq Safe'
  BY DEF Safe
<1>1. CASE UNCHANGED fixed
  BY <1>1, <1>b DEF fixed
<1>2. CASE \/ LoadRead \/ LoadEnd \/ TurnEnds \/ PumpAccepts
           \/ \E f \in Frames : Steered(f) \/ RecordSteer(f) \/ Add(f) \/ SendJob(f) \/ StartTurn(f)
  BY <1>2, <1>b DEF LoadRead, LoadEnd, TurnEnds, PumpAccepts, Steered, RecordSteer, Add, SendJob,
     StartTurn, tables, fates
<1>3. ASSUME LaneRuns PROVE Safe \subseteq Safe'
  <2> DEFINE j == Head(lane)
  <2>1. /\ lane # <<>> /\ UNCHANGED <<back, revoked, lost>>
        /\ JobAdd(j) \/ JobAccept(j) \/ JobSend(j) \/ JobDrop(j) \/ JobEnd(j)
    BY <1>3 DEF LaneRuns
  <2>2. j.ids \in Seq(Msgs)
    BY <2>1, HeadJob
  <2> HIDE DEF j
  <2>3. /\ ToSet(rows \o j.ids) = ToSet(rows) \cup ToSet(j.ids)
        /\ ToSet(chat \o j.ids) = ToSet(chat) \cup ToSet(j.ids)
        /\ ToSet(Without(rows, ToSet(j.ids))) = ToSet(rows) \ ToSet(j.ids)
    BY <1>a, <2>2, ConcatSet, WithoutIs
  <2>4. CASE JobAdd(j)
    BY <2>1, <2>3, <2>4 DEF JobAdd, Safe
  <2>5. CASE JobAccept(j)
    BY <2>1, <2>3, <2>5 DEF JobAccept, Safe
  <2>6. CASE JobSend(j)
    BY <2>1, <2>3, <2>6 DEF JobSend, Safe
  <2>7. CASE JobDrop(j)
    BY <2>1, <2>3, <2>7 DEF JobDrop, Safe
  <2>8. CASE JobEnd(j)
    BY <2>1, <2>8 DEF JobEnd, Safe, tables
  <2> QED
    BY <2>1, <2>4, <2>5, <2>6, <2>7, <2>8
<1>4. ASSUME LaneFails PROVE Safe \subseteq Safe'
  <2> DEFINE j == Head(lane)
  <2>1. lane # <<>> /\ JobFails(j) /\ UNCHANGED <<back, revoked, owed, lost>>
    BY <1>4 DEF LaneFails, fates
  <2>2. j \in Jobs
    BY <2>1, HeadJob
  <2> HIDE DEF j
  <2>3. CASE UNCHANGED tables
    BY <1>b, <2>1, <2>3 DEF tables
  <2>4. CASE j.k = "send" /\ rows' = Without(rows, held[j.p]) /\ chat' = chat \o InOrder(held[j.p])
    <3>1. j.p \in Procs
      BY <2>2, <2>4 DEF Jobs
    <3>2. InOrder(held[j.p]) \in Seq(Msgs) /\ ToSet(InOrder(held[j.p])) = held[j.p]
      BY <1>a, <3>1, InOrderIs
    <3>3. ToSet(chat') = ToSet(chat) \cup held[j.p] /\ ToSet(rows') = ToSet(rows) \ held[j.p]
      BY <1>a, <2>4, <3>2, ConcatSet, WithoutIs
    <3> QED
      BY <2>1, <3>3 DEF Safe
  <2> QED
    BY <2>1, <2>3, <2>4 DEF JobFails
<1>5. ASSUME NEW p \in Returners, GiveBack(p) PROVE Safe \subseteq Safe'
  BY <1>5 DEF GiveBack, Safe, tables
<1>6. ASSUME NEW a \in Authors, Revoke(a) PROVE Safe \subseteq Safe'
  <2> DEFINE S == {m \in ToSet(rows) : Author[m] = a}
             R == {m \in Msgs : Author[m] = a}
  <2>1. /\ rows' = Without(rows, R) /\ revoking' = <<a, S>>
        /\ revoked' = revoked \cup revoking'[2] /\ UNCHANGED <<chat, back, owed, lost>>
    BY <1>6 DEF Revoke
  <2>2. revoking'[2] = S
    BY <2>1
  <2>3. ToSet(rows') = ToSet(rows) \ R
    BY <1>a, <2>1, WithoutIs
  <2>4. ToSet(rows) \cap R \subseteq S
    OBVIOUS
  <2> HIDE DEF S, R
  <2> QED
    BY <2>1, <2>2, <2>3, <2>4 DEF Safe
<1>7. ASSUME RevokeEnds PROVE Safe \subseteq Safe'
  BY <1>7 DEF RevokeEnds, Safe, tables
<1>8. ASSUME Crash PROVE Safe \subseteq Safe'
  BY <1>8 DEF Crash, Safe, tables
<1> QED
  BY <1>1, <1>2, <1>3, <1>4, <1>5, <1>6, <1>7, <1>8, StepsAre DEF Acted

\* Only the lane's job for its row brings a frame to its chip.
LEMMA AddedBefore ==
    ASSUME Shapes, NumInv, JobsFit, PreInv, [Next]_vars, NEW f \in Frames, pc'[f] = "added"
    PROVE  pc[f] = "added" \/ (LaneRuns /\ JobAdd(Head(lane)) /\ Head(lane).p = f)
<1>a. /\ pc \in [Procs -> Places] /\ f \in Procs /\ Outside \cap Frames = {}
      /\ Outside \subseteq Procs /\ Tasks \subseteq Outside /\ Returners = Outside
      /\ Frames \subseteq Procs
  BY QueueAssumption DEF Shapes, ProcShape, Procs, Outside, Returners
<1>b. \A p \in Procs : \A l : Goto(p, l) => pc'[p] = l /\ \A q \in Procs \ {p} : pc'[q] = pc[q]
  BY <1>a DEF Goto
<1>c. ASSUME NEW p \in Procs, NEW l, Goto(p, l), l # "added" PROVE pc[f] = "added"
  <2>1. p # f
    BY <1>a, <1>b, <1>c
  <2> QED
    BY <1>a, <1>b, <1>c, <2>1
<1>d. ASSUME NEW p \in Outside, NEW l, Goto(p, l) PROVE pc[f] = "added"
  BY <1>a, <1>b, <1>d
<1>e. UNCHANGED pc => pc[f] = "added"
  OBVIOUS
<1>1. CASE Moved
  <2>1. CASE Rests
    BY <1>c, <1>e, <2>1 DEF Rests, Calm
  <2>2. CASE Ended
    BY <1>e, <2>2 DEF Ended
  <2>3. ASSUME NEW p \in Outside, NEW S \in SUBSET items, Takes(p, S) PROVE pc[f] = "added"
    BY <1>d, <1>e, <2>3 DEF Takes
  <2>4. ASSUME NEW t \in Tasks, Gates(t) PROVE pc[f] = "added"
    BY <1>a, <1>d, <2>4 DEF Gates
  <2>5. ASSUME NEW p \in Outside, Defers(p) \/ Launched(p) PROVE pc[f] = "added"
    BY <1>d, <2>5 DEF Defers, Launched
  <2>6. ASSUME NEW p \in Procs, LetsGo(p) PROVE pc[f] = "added"
    <3>1. \E l \in {"done", "letgo", "off"} : Goto(p, l)
      BY <2>6 DEF LetsGo
    <3> QED
      BY <1>c, <3>1
  <2> QED
    BY <1>1, <2>1, <2>2, <2>3, <2>4, <2>5, <2>6 DEF Moved
<1>2. ASSUME NEW g \in Frames, Steered(g) \/ RecordSteer(g) \/ SendJob(g) \/ StartTurn(g)
      PROVE  pc[f] = "added"
  <2>1. \E l \in {"steered", "done", "storing"} : Goto(g, l)
    BY <1>2 DEF Steered, RecordSteer, SendJob, StartTurn
  <2> QED
    BY <1>a, <1>c, <2>1
<1>3. ASSUME NEW g \in Frames, Add(g) PROVE pc[f] = "added"
  <2>1. Of[g] \notin items
    BY <1>3 DEF PreInv, Add, Early, Seen, Afoot
  <2>2. \E l \in {"adding", "done"} : Goto(g, l)
    BY <1>3, <2>1, Zenon DEF Add
  <2> QED
    BY <1>a, <1>c, <2>2
<1>4. CASE LoadRead \/ LoadEnd \/ TurnEnds \/ PumpAccepts \/ RevokeEnds \/ \E a \in Authors : Revoke(a)
  BY <1>4 DEF LoadRead, LoadEnd, TurnEnds, PumpAccepts, RevokeEnds, Revoke, procs
<1>5. ASSUME LaneRuns \/ LaneFails
      PROVE  pc[f] = "added" \/ (LaneRuns /\ JobAdd(Head(lane)) /\ Head(lane).p = f)
  <2> DEFINE j == Head(lane)
  <2>1. \/ pc' = pc
        \/ \E l \in {"stored", "dropped", "failed"} : Goto(j.p, l) /\ j.k \in OfProc
        \/ LaneRuns /\ JobAdd(j) /\ Goto(j.p, "added") /\ j.k \in OfProc
    BY <1>5 DEF LaneRuns, LaneFails, JobAdd, JobAccept, JobSend, JobDrop, JobEnd, JobFails, OfProc,
            Goto
  <2>2. lane # <<>> /\ j \in Jobs
    BY <1>5, HeadJob DEF LaneRuns, LaneFails
  <2>3. j.k \in OfProc => j.p \in Procs
    BY <2>2 DEF Jobs, OfProc
  <2> HIDE DEF j
  <2>4. ASSUME Goto(j.p, "added"), j.p \in Procs PROVE j.p = f \/ pc[f] = "added"
    BY <1>a, <1>b, <2>4
  <2> QED
    BY <1>c, <1>e, <2>1, <2>3, <2>4 DEF j
<1>6. ASSUME NEW p \in Returners, GiveBack(p) PROVE pc[f] = "added"
  BY <1>a, <1>d, <1>6 DEF GiveBack
<1>7. CASE Crash
  BY <1>a, <1>7 DEF Crash
<1> QED
  BY <1>1, <1>2, <1>3, <1>4, <1>5, <1>6, <1>7, StepsAre DEF Acted

LEMMA AckKept ==
    ASSUME Shapes, NumInv, JobsFit, PreInv, AckInv, [Next]_vars
    PROVE  AckInv'
<1>1. Safe \subseteq Safe'
  BY SafeGrows
<1>2. ASSUME NEW f \in Frames, pc'[f] = "added" PROVE Of[f] \in Safe'
  <2>1. CASE pc[f] = "added"
    BY <1>1, <2>1 DEF AckInv
  <2>2. CASE LaneRuns /\ JobAdd(Head(lane)) /\ Head(lane).p = f
    <3> DEFINE j == Head(lane)
    <3>1. lane # <<>> /\ j.k = "add" /\ JobAdd(j) /\ j.p = f
      BY <2>2 DEF LaneRuns, JobAdd
    <3>2. Fits(j, pc, held) /\ rows \in Seq(Msgs) /\ <<Of[f]>> \in Seq(Msgs)
      BY <3>1, HeadJob, QueueAssumption DEF JobsFit, Shapes, TableShape
    <3> HIDE DEF j
    <3>3. j.ids = <<Of[f]>> /\ ToSet(<<Of[f]>>) = {Of[f]}
      BY <3>1, <3>2 DEF Fits, ToSet
    <3>4. ToSet(rows \o j.ids) = ToSet(rows) \cup ToSet(j.ids)
      <4>1. j.ids \in Seq(Msgs)
        BY <3>2, <3>3, Zenon
      <4> QED
        BY <3>2, <4>1, ConcatSet
    <3>5. Of[f] \in ToSet(rows')
      BY <3>1, <3>3, <3>4 DEF JobAdd
    <3> QED
      BY <3>5 DEF Safe
  <2> QED
    BY <1>2, <2>1, <2>2, AddedBefore
<1>3. ack' = ack \/ \E f \in Frames : pc[f] = "added" /\ ack' = ack \cup (items \cap {Of[f]})
  <2>1. Moved => ack' = ack \/ \E f \in Frames : pc[f] = "added" /\ ack' = ack \cup (items \cap {Of[f]})
    BY DEF Moved, Rests, Ended, Takes, Gates, Defers, Launched, LetsGo
  <2>2. Acted => ack' = ack
    BY DEF Acted, LoadRead, LoadEnd, Steered, RecordSteer, Add, SendJob, StartTurn, TurnEnds,
       PumpAccepts, LaneRuns, LaneFails, GiveBack, Revoke, RevokeEnds, Crash, fates
  <2> QED
    BY <2>1, <2>2, StepsAre
<1>4. ack' \subseteq Safe
  BY <1>3 DEF AckInv
<1> QED
  BY <1>1, <1>2, <1>4 DEF AckInv

LEMMA DroppedHeld ==
    ASSUME Shapes, NumInv, PreInv, [Next]_vars, ld = "yes"
    PROVE  (dropped \ items) \cap items' = {}
<1>1. ASSUME items' \subseteq items PROVE (dropped \ items) \cap items' = {}
  BY <1>1
<1>2. ASSUME NEW S, items' = PutBack(S) PROVE (dropped \ items) \cap items' = {}
  BY <1>2 DEF PutBack
<1>3. CASE Moved
  BY <1>1, <1>2, <1>3 DEF Moved, Rests, Ended, Takes, Gates, Defers, Launched, LetsGo
<1>4. ASSUME NEW f \in Frames, Add(f) PROVE (dropped \ items) \cap items' = {}
  <2>1. Of[f] \notin dropped
    BY <1>4 DEF PreInv, Add, Early, Seen, Settled
  <2>2. items' \subseteq items \cup {Of[f]}
    BY <1>4 DEF Add
  <2> QED
    BY <2>1, <2>2
<1>5. CASE LoadRead \/ LoadEnd
  BY <1>1, <1>5 DEF LoadRead, LoadEnd, queue
<1>6. CASE \/ TurnEnds \/ PumpAccepts \/ LaneRuns \/ RevokeEnds \/ Crash
           \/ \E f \in Frames : Steered(f) \/ RecordSteer(f) \/ SendJob(f) \/ StartTurn(f)
           \/ \E p \in Returners : GiveBack(p)
           \/ \E a \in Authors : Revoke(a)
  <2>1. items' \subseteq items
    BY <1>6 DEF TurnEnds, PumpAccepts, LaneRuns, RevokeEnds, Crash, Steered, RecordSteer, SendJob,
       StartTurn, GiveBack, Revoke, queue
  <2> QED
    BY <1>1, <2>1
<1>7. CASE LaneFails
  <2>1. items' = items \/ \E S : items' = PutBack(S)
    BY <1>7 DEF LaneFails, JobFails
  <2> QED
    BY <1>1, <1>2, <2>1
<1> QED
  BY <1>3, <1>4, <1>5, <1>6, <1>7, StepsAre DEF Acted

LEMMA AlwaysUnseen ==
    ASSUME SentOnce
    PROVE  Spec => [](Shapes /\ NumInv /\ JobsFit /\ PreInv)
<1>1. Shapes /\ NumInv /\ JobsFit /\ PreInv /\ [Next]_vars => PreInv'
  BY PreKept
<1> QED
  BY <1>1, UnseenAtStart, AlwaysHeld, PTL DEF Spec

\* A message whose queued chip went out has its queue row or its chat row, is with
\* its author again, was revoked, or was on its way back, over any restart and
\* whatever job of the lane fails: nothing but a step that keeps it elsewhere takes a
\* row away, and the chip goes out only after the row (add awaits it).
THEOREM AcknowledgedSurvives ==
    ASSUME SentOnce
    PROVE  Spec => []RestartSafe
<1>1. Init => AckInv
  <2> SUFFICES ASSUME Init PROVE AckInv
    OBVIOUS
  <2>1. ack = {} /\ pc = [p \in Procs |-> "off"] /\ Frames \subseteq Procs
    BY DEF Init, Procs
  <2> QED
    BY <2>1 DEF AckInv
<1>2. Shapes /\ NumInv /\ JobsFit /\ PreInv /\ AckInv /\ [Next]_vars => AckInv'
  BY AckKept
<1>3. AckInv => RestartSafe
  BY DEF AckInv, Safe, RestartSafe
<1> QED
  BY <1>1, <1>2, <1>3, AlwaysUnseen, PTL DEF Spec

\* What a revocation removed comes back from no hand that held it at the time: a
\* deferred batch, a failed accept and a message still on its way to the queue leave
\* it out (_dropped, put_back).
THEOREM RevokedStaysOut ==
    ASSUME SentOnce
    PROVE  Spec => DroppedStaysOut
<1>1. Shapes /\ NumInv /\ PreInv /\ [Next]_vars
        => [ld = "yes" => (dropped \ items) \cap items' = {}]_vars
  BY DroppedHeld
<1> QED
  BY <1>1, AlwaysUnseen, PTL DEF Spec, DroppedStaysOut

-----------------------------------------------------------------------------
(* No message is in two places at once *)

Carry == {"accept", "turn", "steer"}

\* A frame that hands its own message on has it in hand.
Own(p)  == IF p \in Frames /\ pc[p] \in {"steered", "storing", "stored"} THEN {Of[p]} ELSE {}
Grip    == [p \in Procs |-> held[p] \cup Own(p)]
InCarry == IdsOf(lane, Carry)

\* Whatever is in the queue, in the turn's event queue, on the lane for the chat or in
\* a process's hand is in one of them only ...
Seats ==
    /\ items \cap InEvq = {} /\ items \cap InCarry = {} /\ InEvq \cap InCarry = {}
    /\ \A p \in Procs : Grip[p] \cap items = {} /\ Grip[p] \cap InEvq = {} /\ Grip[p] \cap InCarry = {}
    /\ \A p, q \in Procs : p # q => Grip[p] \cap Grip[q] = {}

\* ... and in one job or event of it.
OneSeat == Seats /\ Apart(lane, Carry) /\ Apart(evq, EventKinds)

LEMMA SeatsShrink ==
    ASSUME Seats, items' \subseteq items, InEvq' \subseteq InEvq, InCarry' \subseteq InCarry,
           \A p \in Procs : Grip'[p] \subseteq Grip[p]
    PROVE  Seats'
<1>1. \A p \in Procs : Grip'[p] \cap items' = {} /\ Grip'[p] \cap InEvq' = {}
                        /\ Grip'[p] \cap InCarry' = {}
  BY DEF Seats
<1>2. ASSUME NEW p \in Procs, NEW q \in Procs, p # q PROVE Grip'[p] \cap Grip'[q] = {}
  <2>1. Grip[p] \cap Grip[q] = {} /\ Grip'[p] \subseteq Grip[p] /\ Grip'[q] \subseteq Grip[q]
    BY <1>2 DEF Seats
  <2> QED
    BY <2>1
<1>3. items' \cap InEvq' = {} /\ items' \cap InCarry' = {} /\ InEvq' \cap InCarry' = {}
  BY DEF Seats
<1> QED
  BY <1>1, <1>2, <1>3 DEF Seats

\* A step takes S out of wherever it is and puts it in one place: the queue, ...
LEMMA SeatsItems ==
    ASSUME Seats, NEW S, items' \subseteq items \cup S, InEvq' \subseteq InEvq \ S,
           InCarry' \subseteq InCarry \ S, \A p \in Procs : Grip'[p] \subseteq Grip[p] \ S
    PROVE  Seats'
<1>1. ASSUME NEW p \in Procs
      PROVE  Grip'[p] \cap items' = {} /\ Grip'[p] \cap InEvq' = {} /\ Grip'[p] \cap InCarry' = {}
  <2>1. /\ Grip[p] \cap items = {} /\ Grip[p] \cap InEvq = {} /\ Grip[p] \cap InCarry = {}
        /\ Grip'[p] \subseteq Grip[p] \ S
    BY DEF Seats
  <2> QED
    BY <2>1
<1>2. ASSUME NEW p \in Procs, NEW q \in Procs, p # q PROVE Grip'[p] \cap Grip'[q] = {}
  <2>1. Grip[p] \cap Grip[q] = {} /\ Grip'[p] \subseteq Grip[p] /\ Grip'[q] \subseteq Grip[q]
    BY <1>2 DEF Seats
  <2> QED
    BY <2>1
<1>3. items' \cap InEvq' = {} /\ items' \cap InCarry' = {} /\ InEvq' \cap InCarry' = {}
  BY DEF Seats
<1> QED
  BY <1>1, <1>2, <1>3 DEF Seats

\* ... the turn's event queue, ...
LEMMA SeatsEvq ==
    ASSUME Seats, NEW S, items' \subseteq items \ S, InEvq' \subseteq InEvq \cup S,
           InCarry' \subseteq InCarry \ S, \A p \in Procs : Grip'[p] \subseteq Grip[p] \ S
    PROVE  Seats'
<1>1. ASSUME NEW p \in Procs
      PROVE  Grip'[p] \cap items' = {} /\ Grip'[p] \cap InEvq' = {} /\ Grip'[p] \cap InCarry' = {}
  <2>1. /\ Grip[p] \cap items = {} /\ Grip[p] \cap InEvq = {} /\ Grip[p] \cap InCarry = {}
        /\ Grip'[p] \subseteq Grip[p] \ S
    BY DEF Seats
  <2> QED
    BY <2>1
<1>2. ASSUME NEW p \in Procs, NEW q \in Procs, p # q PROVE Grip'[p] \cap Grip'[q] = {}
  <2>1. Grip[p] \cap Grip[q] = {} /\ Grip'[p] \subseteq Grip[p] /\ Grip'[q] \subseteq Grip[q]
    BY <1>2 DEF Seats
  <2> QED
    BY <2>1
<1>3. items' \cap InEvq' = {} /\ items' \cap InCarry' = {} /\ InEvq' \cap InCarry' = {}
  BY DEF Seats
<1> QED
  BY <1>1, <1>2, <1>3 DEF Seats

\* ... the lane, ...
LEMMA SeatsLane ==
    ASSUME Seats, NEW S, items' \subseteq items \ S, InEvq' \subseteq InEvq \ S,
           InCarry' \subseteq InCarry \cup S, \A p \in Procs : Grip'[p] \subseteq Grip[p] \ S
    PROVE  Seats'
<1>1. ASSUME NEW p \in Procs
      PROVE  Grip'[p] \cap items' = {} /\ Grip'[p] \cap InEvq' = {} /\ Grip'[p] \cap InCarry' = {}
  <2>1. /\ Grip[p] \cap items = {} /\ Grip[p] \cap InEvq = {} /\ Grip[p] \cap InCarry = {}
        /\ Grip'[p] \subseteq Grip[p] \ S
    BY DEF Seats
  <2> QED
    BY <2>1
<1>2. ASSUME NEW p \in Procs, NEW q \in Procs, p # q PROVE Grip'[p] \cap Grip'[q] = {}
  <2>1. Grip[p] \cap Grip[q] = {} /\ Grip'[p] \subseteq Grip[p] /\ Grip'[q] \subseteq Grip[q]
    BY <1>2 DEF Seats
  <2> QED
    BY <2>1
<1>3. items' \cap InEvq' = {} /\ items' \cap InCarry' = {} /\ InEvq' \cap InCarry' = {}
  BY DEF Seats
<1> QED
  BY <1>1, <1>2, <1>3 DEF Seats

\* ... or one hand.
LEMMA SeatsHand ==
    ASSUME Seats, NEW S, NEW p \in Procs, items' \subseteq items \ S, InEvq' \subseteq InEvq \ S,
           InCarry' \subseteq InCarry \ S, \A q \in Procs \ {p} : Grip'[q] \subseteq Grip[q] \ S,
           Grip'[p] \subseteq Grip[p] \cup S
    PROVE  Seats'
<1>1. items' \cap InEvq' = {} /\ items' \cap InCarry' = {} /\ InEvq' \cap InCarry' = {}
  BY DEF Seats
<1>2. ASSUME NEW q \in Procs
      PROVE  Grip'[q] \cap items' = {} /\ Grip'[q] \cap InEvq' = {} /\ Grip'[q] \cap InCarry' = {}
  <2>1. /\ Grip[q] \cap items = {} /\ Grip[q] \cap InEvq = {} /\ Grip[q] \cap InCarry = {}
        /\ Grip'[q] \subseteq Grip[q] \cup S
    BY DEF Seats
  <2> QED
    BY <2>1
<1>3. ASSUME NEW q \in Procs, NEW r \in Procs, q # r PROVE Grip'[q] \cap Grip'[r] = {}
  <2>1. Grip[q] \cap Grip[r] = {}
    BY <1>3 DEF Seats
  <2>2. CASE q = p
    BY <1>3, <2>1, <2>2
  <2>3. CASE r = p
    BY <1>3, <2>1, <2>3
  <2>4. CASE q # p /\ r # p
    BY <1>3, <2>1, <2>4
  <2> QED
    BY <2>2, <2>3, <2>4
<1> QED
  BY <1>1, <1>2, <1>3 DEF Seats

-----------------------------------------------------------------------------
(* What the steps that move messages do with them *)

LEMMA SoleId == \A m : ToSet(<<m>>) = {m} /\ Distinct(<<m>>) /\ ToSet(<<>>) = {} /\ Distinct(<<>>)
  BY DEF ToSet, Distinct

LEMMA RecordSteerIs ==
    ASSUME Shapes, NEW f \in Frames, RecordSteer(f)
    PROVE  /\ pc[f] = "steered" /\ Goto(f, "done")
           /\ UNCHANGED <<items, held, ld, snap, rows, chat, sent, back>>
           /\ \/ /\ UNCHANGED lane
                 /\ \E e \in Events : evq' = Append(evq, e) /\ e.k = "steer" /\ e.ids = <<Of[f]>>
              \/ /\ UNCHANGED evq
                 /\ \E j \in Jobs : lane' = Append(lane, j) /\ j.k = "steer" /\ j.ids = <<Of[f]>>
<1> DEFINE j == Job("steer", <<Of[f]>>, f)
           e == [k |-> "steer", ids |-> <<Of[f]>>]
<1>1. /\ "steer" \in JobKinds /\ "steer" \in EventKinds /\ "steer" \notin {"add", "send", "drop"}
      /\ <<Of[f]>> \in Seq(Msgs) /\ f \in Procs \cup {None}
  BY QueueAssumption DEF JobKinds, EventKinds, Procs
<1>2. j \in Jobs /\ j.k = "steer" /\ j.ids = <<Of[f]>>
  <2>1. j \in Jobs
    BY <1>1, Submits
  <2> QED
    BY <2>1 DEF Job
<1>3. e \in Events /\ e.k = "steer" /\ e.ids = <<Of[f]>>
  BY <1>1, Posts
<1>4. /\ pc[f] = "steered" /\ Goto(f, "done")
      /\ UNCHANGED <<items, held, ld, snap, rows, chat, sent, back>>
      /\ \/ UNCHANGED lane /\ evq' = Append(evq, e)
         \/ UNCHANGED evq /\ lane' = Append(lane, j)
  BY DEF RecordSteer, Submit, loading, tables, fates
<1> HIDE DEF j, e
<1> QED
  BY <1>2, <1>3, <1>4

LEMMA AddIs ==
    ASSUME Shapes, NEW f \in Frames, Add(f)
    PROVE  /\ pc[f] = "add" /\ \E l \in {"adding", "added", "done"} : Goto(f, l)
           /\ UNCHANGED <<held, evq, ld, snap, rows, chat, sent, back>>
           /\ \/ UNCHANGED <<items, lane>>
              \/ /\ items' = items \cup {Of[f]}
                 /\ \E j \in Jobs : lane' = Append(lane, j) /\ j.k = "add" /\ j.ids = <<Of[f]>>
<1> DEFINE j == Job("add", <<Of[f]>>, f)
<1>1. /\ "add" \in JobKinds /\ <<Of[f]>> \in Seq(Msgs) /\ f \in Procs /\ f \in Procs \cup {None}
  BY QueueAssumption DEF JobKinds, Procs
<1>2. j \in Jobs /\ j.k = "add" /\ j.ids = <<Of[f]>>
  <2>1. j \in Jobs
    BY <1>1, Submits
  <2> QED
    BY <2>1 DEF Job
<1>3. /\ pc[f] = "add" /\ \E l \in {"adding", "added", "done"} : Goto(f, l)
      /\ UNCHANGED <<held, evq, ld, snap, rows, chat, sent, back>>
      /\ \/ UNCHANGED <<items, lane>>
         \/ items' = items \cup {Of[f]} /\ lane' = Append(lane, j)
  BY Zenon DEF Add, Submit, loading, tables, turn
<1> HIDE DEF j
<1> QED
  BY <1>2, <1>3

LEMMA TurnEndsIs ==
    ASSUME Shapes, NumInv, TurnEnds, items' # items
    PROVE  /\ UNCHANGED <<lane, held, pc, ld, snap, rows, chat, sent, back>>
           /\ \E S \in SUBSET items : \E e \in Events :
                 /\ items' = items \ S /\ evq' = Append(evq, e)
                 /\ e.k = "turn" /\ ToSet(e.ids) = S /\ Distinct(e.ids)
<1> DEFINE S == {m \in items : DrainAs(m)}
           e == [k |-> "turn", ids |-> InOrder(S)]
<1>1. /\ UNCHANGED <<lane, held, pc, ld, snap, rows, chat, sent, back>>
      /\ items' = items \ S /\ evq' = Append(evq, e)
  BY DEF TurnEnds, loading, tables, procs, fates
<1>2. S \in SUBSET items /\ S \subseteq Numbered
  BY DEF NumInv
<1> HIDE DEF S
<1>3. /\ "turn" \in EventKinds /\ InOrder(S) \in Seq(Msgs) /\ ToSet(InOrder(S)) = S
      /\ Distinct(InOrder(S))
  BY <1>2, InOrderIs DEF EventKinds
<1>4. e \in Events
  BY <1>3, Posts
<1>5. e.k = "turn" /\ ToSet(e.ids) = S /\ Distinct(e.ids)
  BY <1>3
<1> HIDE DEF e
<1> QED
  BY <1>1, <1>2, <1>4, <1>5

LEMMA PumpAcceptsIs ==
    ASSUME Shapes, PumpAccepts
    PROVE  /\ UNCHANGED <<items, held, pc, ld, snap, rows, chat, sent, back>>
           /\ evq # <<>> /\ evq' = Tail(evq) /\ Head(evq).k \in {"turn", "steer"}
           /\ \E j \in Jobs : /\ lane' = Append(lane, j) /\ j.k = Head(evq).k
                              /\ j.ids = Head(evq).ids
<1> DEFINE j == Job(Head(evq).k, Head(evq).ids, None)
<1>1. /\ evq # <<>> /\ Head(evq).k \in {"turn", "steer"} /\ lane' = Append(lane, j)
      /\ evq' = Tail(evq)
      /\ UNCHANGED <<items, held, pc, ld, snap, rows, chat, sent, back>>
  BY DEF PumpAccepts, PumpReads, Submit, loading, tables, procs, fates
<1>2. j \in Jobs
  <2>1. /\ Head(evq).ids \in Seq(Msgs) /\ Head(evq).k \in JobKinds
        /\ Head(evq).k \notin {"add", "send", "drop"}
    BY <1>1, HeadEvent DEF JobKinds
  <2> QED
    BY <2>1, Submits
<1>3. j.k = Head(evq).k /\ j.ids = Head(evq).ids
  BY <1>2 DEF Job
<1> HIDE DEF j
<1> QED
  BY <1>1, <1>2, <1>3

\* The lane's job: a queue row, the person's rows (and the engine), or a drop.
LEMMA LaneRunsIs ==
    ASSUME Shapes, LaneRuns
    PROVE  LET j == Head(lane) IN
           /\ lane # <<>> /\ lane' = Tail(lane) /\ j \in Jobs
           /\ UNCHANGED <<items, held, evq, ld, snap, back>>
           /\ \/ /\ j.k = "add" /\ Goto(j.p, "added") /\ UNCHANGED <<chat, sent>>
                 /\ ToSet(rows') \subseteq ToSet(rows) \cup ToSet(j.ids)
              \/ /\ j.k \in Carry /\ UNCHANGED pc
                 /\ ToSet(rows') = ToSet(rows) \ ToSet(j.ids) /\ chat' = chat \o j.ids
                 /\ sent' = sent \/ (j.k # "steer" /\ ToEngine(j.ids))
              \/ /\ j.k = "send" /\ Goto(j.p, "stored") /\ UNCHANGED sent
                 /\ ToSet(rows') = ToSet(rows) \ ToSet(j.ids) /\ chat' = chat \o j.ids
              \/ /\ j.k = "drop" /\ Goto(j.p, "dropped") /\ UNCHANGED <<chat, sent>>
                 /\ ToSet(rows') = ToSet(rows) \ ToSet(j.ids)
              \/ j.k = "end" /\ UNCHANGED <<rows, chat, pc, sent>>
<1> DEFINE j == Head(lane)
<1>1. /\ lane # <<>> /\ lane' = Tail(lane)
      /\ UNCHANGED <<items, held, evq, ld, snap, back>>
      /\ JobAdd(j) \/ JobAccept(j) \/ JobSend(j) \/ JobDrop(j) \/ JobEnd(j)
  BY DEF LaneRuns, queue, loading
<1>2. j \in Jobs /\ j.ids \in Seq(Msgs) /\ rows \in Seq(Msgs)
  BY <1>1, HeadJob DEF Shapes, TableShape
<1> HIDE DEF j
<1>3. /\ ToSet(rows \o j.ids) = ToSet(rows) \cup ToSet(j.ids)
      /\ ToSet(Without(rows, ToSet(j.ids))) = ToSet(rows) \ ToSet(j.ids)
  BY <1>2, ConcatSet, WithoutIs
<1>4. \/ /\ j.k = "add" /\ Goto(j.p, "added") /\ UNCHANGED <<chat, sent>>
         /\ ToSet(rows') \subseteq ToSet(rows) \cup ToSet(j.ids)
      \/ /\ j.k \in Carry /\ UNCHANGED pc
         /\ ToSet(rows') = ToSet(rows) \ ToSet(j.ids) /\ chat' = chat \o j.ids
         /\ sent' = sent \/ (j.k # "steer" /\ ToEngine(j.ids))
      \/ /\ j.k = "send" /\ Goto(j.p, "stored") /\ UNCHANGED sent
         /\ ToSet(rows') = ToSet(rows) \ ToSet(j.ids) /\ chat' = chat \o j.ids
      \/ /\ j.k = "drop" /\ Goto(j.p, "dropped") /\ UNCHANGED <<chat, sent>>
         /\ ToSet(rows') = ToSet(rows) \ ToSet(j.ids)
      \/ j.k = "end" /\ UNCHANGED <<rows, chat, pc, sent>>
  <2>1. CASE JobAdd(j)
    <3>1. /\ j.k = "add" /\ Goto(j.p, "added") /\ UNCHANGED <<chat, sent>>
          /\ rows' = rows \/ rows' = rows \o j.ids
      BY <2>1 DEF JobAdd
    <3>2. ToSet(rows') \subseteq ToSet(rows) \cup ToSet(j.ids)
      BY <1>3, <3>1
    <3> QED
      BY <3>1, <3>2
  <2>2. CASE JobAccept(j)
    <3>1. /\ j.k \in Carry /\ UNCHANGED pc /\ rows' = Without(rows, ToSet(j.ids))
          /\ chat' = chat \o j.ids
          /\ sent' = sent \/ (j.k # "steer" /\ ToEngine(j.ids))
      BY <2>2 DEF JobAccept, Carry, Waiter
    <3>2. ToSet(rows') = ToSet(rows) \ ToSet(j.ids)
      BY <1>3, <3>1
    <3> QED
      BY <3>1, <3>2, Zenon
  <2>3. CASE JobSend(j)
    <3>1. /\ j.k = "send" /\ Goto(j.p, "stored") /\ UNCHANGED sent
          /\ rows' = Without(rows, ToSet(j.ids)) /\ chat' = chat \o j.ids
      BY <2>3 DEF JobSend
    <3>2. ToSet(rows') = ToSet(rows) \ ToSet(j.ids)
      BY <1>3, <3>1
    <3> QED
      BY <3>1, <3>2
  <2>4. CASE JobDrop(j)
    <3>1. /\ j.k = "drop" /\ Goto(j.p, "dropped") /\ UNCHANGED <<chat, sent>>
          /\ rows' = Without(rows, ToSet(j.ids))
      BY <2>4 DEF JobDrop
    <3>2. ToSet(rows') = ToSet(rows) \ ToSet(j.ids)
      BY <1>3, <3>1
    <3> QED
      BY <3>1, <3>2
  <2>5. CASE JobEnd(j)
    <3>1. j.k = "end" /\ UNCHANGED <<rows, chat, pc, sent>>
      BY <2>5 DEF JobEnd, tables
    <3> QED
      BY <3>1
  <2> QED
    BY <1>1, <2>1, <2>2, <2>3, <2>4, <2>5
<1> QED
  BY <1>1, <1>2, <1>4 DEF j

\* A job that raises: what a producer waited for goes back; of an idle send the taken
\* messages may have their rows.
LEMMA LaneFailsIs ==
    ASSUME Shapes, NumInv, LaneFails
    PROVE  LET j == Head(lane) IN
           /\ lane # <<>> /\ lane' = Tail(lane) /\ j \in Jobs
           /\ UNCHANGED <<held, ld, snap, sent, back>>
           /\ items' = items \/ (j.k \in {"accept", "turn"} /\ items' \subseteq items \cup ToSet(j.ids))
           /\ \A K : IdsOf(evq', K) = IdsOf(evq, K) /\ (Apart(evq, K) => Apart(evq', K))
           /\ (\A i \in 1..Len(evq) : Distinct(evq[i].ids))
                 => \A i \in 1..Len(evq') : Distinct(evq'[i].ids)
           /\ \/ UNCHANGED pc /\ j.k \notin OfProc
              \/ Goto(j.p, "failed") /\ j.k \in OfProc
           /\ \/ UNCHANGED <<rows, chat>>
              \/ /\ j.k = "send" /\ j.p \in Procs
                 /\ ToSet(rows') = ToSet(rows) \ held[j.p]
                 /\ \E s \in Seq(Msgs) : /\ chat' = chat \o s /\ ToSet(s) = held[j.p]
                                         /\ Distinct(s)
<1> DEFINE j == Head(lane)
<1>1. /\ lane # <<>> /\ lane' = Tail(lane) /\ JobFails(j)
      /\ UNCHANGED <<held, ld, snap, sent, back>>
  BY DEF LaneFails, loading, fates
<1>2. j \in Jobs /\ evq \in Seq(Events) /\ rows \in Seq(Msgs)
  BY <1>1, HeadJob DEF Shapes, TableShape, TurnShape
<1> HIDE DEF j
<1>3. items' = items \/ (j.k \in {"accept", "turn"} /\ items' \subseteq items \cup ToSet(j.ids))
  BY <1>1 DEF JobFails, PutBack
<1>4. /\ \A K : IdsOf(evq', K) = IdsOf(evq, K) /\ (Apart(evq, K) => Apart(evq', K))
      /\ (\A i \in 1..Len(evq) : Distinct(evq[i].ids))
            => \A i \in 1..Len(evq') : Distinct(evq'[i].ids)
  <2>1. evq' \in Mute \/ evq' = Append(evq, Head(Failure))
    BY <1>1 DEF JobFails, Mute
  <2>2. CASE evq' \in Mute
    BY <2>2, MuteIs
  <2>3. CASE evq' = Append(evq, Head(Failure))
    <3> DEFINE e == Head(Failure)
    <3>1. e \in Events /\ e.ids = <<>> /\ evq' = Append(evq, e)
      BY <2>3, Failures
    <3> HIDE DEF e
    <3>2. ToSet(e.ids) = {} /\ Distinct(e.ids)
      BY <3>1, SoleId
    <3>3. \A K : IdsOf(evq', K) = IdsOf(evq, K) /\ (Apart(evq, K) => Apart(evq', K))
      BY <1>2, <3>1, <3>2, IdsSkip
    <3>4. \A i \in 1..Len(evq') : (i \in 1..Len(evq) /\ evq'[i] = evq[i]) \/ evq'[i] = e
      BY <1>2, <3>1
    <3> QED
      BY <3>2, <3>3, <3>4
  <2> QED
    BY <2>1, <2>2, <2>3
<1>5. \/ UNCHANGED pc /\ j.k \notin OfProc
      \/ Goto(j.p, "failed") /\ j.k \in OfProc
  BY <1>1 DEF JobFails, Goto, OfProc
<1>6. \/ UNCHANGED <<rows, chat>>
      \/ /\ j.k = "send" /\ j.p \in Procs
         /\ ToSet(rows') = ToSet(rows) \ held[j.p]
         /\ \E s \in Seq(Msgs) : chat' = chat \o s /\ ToSet(s) = held[j.p] /\ Distinct(s)
  <2>1. \/ UNCHANGED tables
        \/ /\ j.k = "send" /\ rows' = Without(rows, held[j.p])
           /\ chat' = chat \o InOrder(held[j.p])
    BY <1>1 DEF JobFails
  <2>2. CASE UNCHANGED tables
    BY <2>2 DEF tables
  <2>3. CASE /\ j.k = "send" /\ rows' = Without(rows, held[j.p])
             /\ chat' = chat \o InOrder(held[j.p])
    <3>1. j.p \in Procs /\ held[j.p] \subseteq Numbered
      BY <1>2, <2>3 DEF Jobs, NumInv
    <3>2. /\ InOrder(held[j.p]) \in Seq(Msgs) /\ ToSet(InOrder(held[j.p])) = held[j.p]
          /\ Distinct(InOrder(held[j.p]))
      BY <3>1, InOrderIs
    <3>3. ToSet(Without(rows, held[j.p])) = ToSet(rows) \ held[j.p]
      BY <1>2, WithoutIs
    <3> QED
      BY <2>3, <3>1, <3>2, <3>3
  <2> QED
    BY <2>1, <2>2, <2>3
<1> QED
  BY <1>1, <1>2, <1>3, <1>4, <1>5, <1>6 DEF j

LEMMA ApartMono == \A s, K, M : K \subseteq M /\ Apart(s, M) => Apart(s, K)
  BY DEF Apart

LEMMA CarryInLane == InCarry \subseteq InLane
<1>1. Carry \subseteq JobKinds
  BY DEF Carry, JobKinds
<1> QED
  BY <1>1, IdsMono DEF InCarry, InLane

LEMMA OwnMoves ==
    ASSUME Shapes, NEW p \in Procs, NEW l, Goto(p, l)
    PROVE  /\ pc'[p] = l /\ \A q \in Procs \ {p} : pc'[q] = pc[q] /\ Own(q)' = Own(q)
           /\ p \notin Frames \/ l \notin {"steered", "storing", "stored"} => Own(p)' = {}
           /\ p \in Frames /\ l \in {"steered", "storing", "stored"} => Own(p)' = {Of[p]}
<1>1. pc'[p] = l /\ \A q \in Procs \ {p} : pc'[q] = pc[q]
  BY DEF Shapes, ProcShape, Goto
<1> QED
  BY <1>1 DEF Own

LEMMA CarryGrows ==
    ASSUME Shapes, NEW j \in Jobs, lane' = Append(lane, j)
    PROVE  /\ j.k \in Carry => /\ InCarry' = InCarry \cup ToSet(j.ids)
                               /\ Apart(lane, Carry) /\ ToSet(j.ids) \cap InCarry = {}
                                    => Apart(lane', Carry)
           /\ j.k \notin Carry => /\ InCarry' = InCarry
                                  /\ Apart(lane, Carry) => Apart(lane', Carry)
<1>1. lane \in Seq(Jobs)
  BY DEF Shapes, TurnShape
<1>2. IdsOf(Append(lane, j), Carry)
        = IdsOf(lane, Carry) \cup (IF j.k \in Carry THEN ToSet(j.ids) ELSE {})
  BY <1>1, IdsAppend
<1>3. Apart(lane, Carry) /\ (j.k \in Carry => ToSet(j.ids) \cap IdsOf(lane, Carry) = {})
        => Apart(Append(lane, j), Carry)
  BY <1>1, IdsAppend
<1> QED
  BY <1>2, <1>3 DEF InCarry

LEMMA CarryRuns ==
    ASSUME Shapes, Apart(lane, Carry), lane # <<>>, lane' = Tail(lane)
    PROVE  /\ InCarry' \subseteq InCarry /\ Apart(lane', Carry)
           /\ Head(lane).k \in Carry => /\ ToSet(Head(lane).ids) \cap InCarry' = {}
                                        /\ ToSet(Head(lane).ids) \subseteq InCarry
<1>1. lane \in Seq(Jobs)
  BY DEF Shapes, TurnShape
<1>2. IdsOf(lane, Carry) = IdsOf(Tail(lane), Carry)
                             \cup (IF Head(lane).k \in Carry THEN ToSet(Head(lane).ids) ELSE {})
  BY <1>1, IdsTail
<1>3. Apart(Tail(lane), Carry)
  BY <1>1, IdsTail
<1>4. Head(lane).k \in Carry => ToSet(Head(lane).ids) \cap IdsOf(Tail(lane), Carry) = {}
  BY <1>1, IdsTail
<1> QED
  BY <1>2, <1>3, <1>4 DEF InCarry

LEMMA OneSeatMoves ==
    ASSUME Shapes, NumInv, JobsFit, OneSeat, Moved
    PROVE  OneSeat'
<1>a. /\ lane \in Seq(Jobs) /\ held \in [Procs -> SUBSET Msgs] /\ items \subseteq Numbered
      /\ \A p \in Procs : held[p] \subseteq Numbered
      /\ Outside \subseteq Procs /\ Tasks \subseteq Outside /\ Outside \cap Frames = {}
  BY QueueAssumption DEF Shapes, TurnShape, ProcShape, NumInv, Outside, Procs
<1>b. Seats /\ Apart(lane, Carry) /\ Apart(evq, EventKinds)
  BY DEF OneSeat
<1>c. /\ \A p \in Procs : Grip[p] = held[p] \cup Own(p) /\ Grip'[p] = held'[p] \cup Own(p)'
      /\ \A p \in Outside : Own(p) = {} /\ Own(p)' = {}
  BY <1>a DEF Grip, Own
<1>d. UNCHANGED pc => \A p \in Procs : Own(p)' = Own(p)
  BY DEF Own
<1>e. UNCHANGED lane => InCarry' = InCarry /\ Apart(lane', Carry)
  BY <1>b DEF InCarry
<1>f. UNCHANGED evq => InEvq' = InEvq /\ Apart(evq', EventKinds)
  BY <1>b DEF InEvq
<1>g. evq' = <<>> => InEvq' = {} /\ Apart(evq', EventKinds)
  BY IdsEmpty DEF InEvq
<1>h. ASSUME NEW S, S \subseteq Numbered, NEW p \in Procs, lane' = Append(lane, Job("drop", InOrder(S), p))
      PROVE  InCarry' = InCarry /\ Apart(lane', Carry)
  <2> DEFINE j == Job("drop", InOrder(S), p)
  <2>1. j \in Jobs /\ j.k = "drop" /\ lane' = Append(lane, j)
    BY <1>h, DropJob
  <2> HIDE DEF j
  <2>2. j.k \notin Carry
    BY <2>1 DEF Carry
  <2> QED
    BY <1>b, <2>1, <2>2, CarryGrows
<1>i. \A p \in Procs : held' = [held EXCEPT ![p] = {}]
        => held'[p] = {} /\ \A q \in Procs \ {p} : held'[q] = held[q]
  BY <1>a
<1>j. \A p \in Procs : \A l : Goto(p, l) => \A q \in Procs \ {p} : Own(q)' = Own(q)
  BY OwnMoves
<1> HIDE DEF Grip, InEvq, InCarry
<1>1. CASE Rests
  <2>1. InEvq' = InEvq /\ Apart(evq', EventKinds)
    BY <1>1, <1>b, MuteIs DEF Rests, InEvq
  <2>2. \A p \in Procs : Own(p)' \subseteq Own(p)
    <3>1. ASSUME NEW p \in Procs, NEW to, Calm(p, to), Goto(p, to), NEW q \in Procs
          PROVE  Own(q)' \subseteq Own(q)
      <4>1. Own(p)' = {}
        BY <3>1, OwnMoves DEF Calm
      <4>2. CASE q = p
        BY <4>1, <4>2
      <4>3. CASE q # p
        BY <1>j, <3>1, <4>3
      <4> QED
        BY <4>2, <4>3
    <3> QED
      BY <1>1, <1>d, <3>1 DEF Rests
  <2>3. \A p \in Procs : Grip'[p] \subseteq Grip[p]
    BY <1>1, <1>c, <2>2 DEF Rests
  <2>4. Seats'
    BY <1>1, <1>b, <1>e, <2>1, <2>3, SeatsShrink DEF Rests
  <2> QED
    BY <1>1, <1>e, <2>1, <2>4 DEF Rests, OneSeat
<1>2. CASE Ended
  <2> DEFINE S == IdsOf(evq, {"steer"})
  <2>1. PICK tl \in Seq(Jobs) :
           /\ lane' = lane \o tl
           /\ \A K : IdsOf(tl, K) = IF "steer" \in K THEN S ELSE {}
           /\ \A K : Apart(evq, {"steer"}) => Apart(tl, K)
    BY <1>2, LoopEndsIs DEF Ended
  <2>2. evq' = <<>>
    BY <1>2, LoopEndsIs DEF Ended
  <2>3. {"steer"} \subseteq EventKinds /\ "steer" \in Carry
    BY DEF EventKinds, Carry
  <2>4. S \subseteq InEvq /\ Apart(evq, {"steer"})
    BY <1>b, <2>3, IdsMono, ApartMono DEF InEvq
  <2>5. IdsOf(tl, Carry) = S /\ Apart(tl, Carry)
    BY <2>1, <2>3, <2>4
  <2>6. IdsOf(lane \o tl, Carry) = IdsOf(lane, Carry) \cup IdsOf(tl, Carry)
    BY <1>a, IdsConcat
  <2>7. Apart(lane, Carry) /\ Apart(tl, Carry) /\ IdsOf(lane, Carry) \cap IdsOf(tl, Carry) = {}
          => Apart(lane \o tl, Carry)
    BY <1>a, IdsConcat
  <2> HIDE DEF S
  <2>8. InCarry' = InCarry \cup S /\ InCarry = IdsOf(lane, Carry)
    BY <2>1, <2>5, <2>6 DEF InCarry
  <2>9. /\ S \cap items = {} /\ S \cap InCarry = {} /\ \A p \in Procs : Grip[p] \cap S = {}
    BY <1>b, <2>4 DEF Seats
  <2>10. \A p \in Procs : Grip'[p] = Grip[p]
    BY <1>2, <1>c, <1>d DEF Ended
  <2>11. Seats'
    <3>1. /\ items' \subseteq items \ S /\ InEvq' \subseteq InEvq \ S
          /\ InCarry' \subseteq InCarry \cup S /\ \A p \in Procs : Grip'[p] \subseteq Grip[p] \ S
      BY <1>2, <1>g, <2>2, <2>8, <2>9, <2>10 DEF Ended
    <3> QED
      BY <1>b, <3>1, SeatsLane
  <2> QED
    BY <1>b, <1>g, <2>1, <2>2, <2>5, <2>7, <2>8, <2>9, <2>11 DEF OneSeat
<1>3. ASSUME NEW p \in Outside, NEW S \in SUBSET items, Takes(p, S) PROVE OneSeat'
  <2>1. p \in Procs /\ S \subseteq Numbered /\ items' = items \ S /\ evq' = evq
        /\ held' = [held EXCEPT ![p] = S]
    BY <1>a, <1>3 DEF Takes
  <2>2. InCarry' = InCarry /\ Apart(lane', Carry)
    BY <1>3, <1>e, <1>h, <2>1 DEF Takes
  <2>3. S \cap InEvq = {} /\ S \cap InCarry = {} /\ \A q \in Procs : Grip[q] \cap S = {}
    BY <1>b DEF Seats
  <2>4. held'[p] = S /\ \A q \in Procs \ {p} : held'[q] = held[q]
    BY <1>a, <2>1
  <2>5. \A q \in Procs : Own(q)' = Own(q)
    <3>1. pc' = pc \/ \E l : Goto(p, l)
      BY <1>3 DEF Takes
    <3> QED
      BY <1>c, <1>d, <1>j, <2>1, <3>1
  <2>6. Grip'[p] \subseteq Grip[p] \cup S /\ \A q \in Procs \ {p} : Grip'[q] \subseteq Grip[q] \ S
    BY <1>c, <2>1, <2>3, <2>4, <2>5
  <2>7. Seats'
    <3>1. items' \subseteq items \ S /\ InEvq' \subseteq InEvq \ S /\ InCarry' \subseteq InCarry \ S
      BY <1>f, <2>1, <2>2, <2>3
    <3> QED
      BY <1>b, <2>1, <2>6, <3>1, SeatsHand
  <2> QED
    BY <1>f, <2>1, <2>2, <2>7 DEF OneSeat
<1>4. ASSUME NEW t \in Tasks, Gates(t) PROVE OneSeat'
  <2>1. t \in Procs /\ t \in Outside /\ held[t] \subseteq Numbered
    BY <1>a
  <2>2. InCarry' = InCarry /\ Apart(lane', Carry)
    BY <1>4, <1>h, <2>1 DEF Gates
  <2>3. \A q \in Procs : Own(q)' = Own(q)
    BY <1>4, <1>c, <1>j, <2>1 DEF Gates
  <2>4. \A q \in Procs : Grip'[q] = Grip[q]
    BY <1>4, <1>c, <2>3 DEF Gates
  <2>5. Seats'
    BY <1>4, <1>b, <1>f, <2>2, <2>4, SeatsShrink DEF Gates
  <2> QED
    BY <1>4, <1>f, <2>2, <2>5 DEF OneSeat, Gates
<1>5. ASSUME NEW p \in Outside, Defers(p) PROVE OneSeat'
  <2>1. /\ p \in Procs /\ held'[p] = {} /\ \A q \in Procs \ {p} : held'[q] = held[q]
        /\ items' \subseteq items \cup held[p] /\ UNCHANGED <<lane, evq>>
    BY <1>5, <1>a, <1>i DEF Defers, PutBack
  <2>2. \A q \in Procs : Own(q)' = Own(q)
    BY <1>5, <1>c, <1>j, <2>1 DEF Defers
  <2>3. Grip[p] = held[p]
    BY <1>c, <2>1
  <2>4. /\ held[p] \cap InEvq = {} /\ held[p] \cap InCarry = {}
        /\ \A q \in Procs \ {p} : Grip[q] \cap held[p] = {}
    BY <1>b, <2>1, <2>3 DEF Seats
  <2>5. \A q \in Procs : Grip'[q] \subseteq Grip[q] \ held[p]
    BY <1>c, <2>1, <2>2, <2>4
  <2>6. Seats'
    <3> DEFINE S == held[p]
    <3>1. /\ items' \subseteq items \cup S /\ InEvq' \subseteq InEvq \ S
          /\ InCarry' \subseteq InCarry \ S /\ \A q \in Procs : Grip'[q] \subseteq Grip[q] \ S
      BY <1>e, <1>f, <2>1, <2>4, <2>5
    <3> HIDE DEF S
    <3> QED
      BY <1>b, <3>1, SeatsItems
  <2> QED
    BY <1>e, <1>f, <2>1, <2>6 DEF OneSeat
<1>6. ASSUME NEW p \in Outside, Launched(p) PROVE OneSeat'
  <2>1. /\ p \in Procs /\ held'[p] = {} /\ \A q \in Procs \ {p} : held'[q] = held[q]
        /\ UNCHANGED items /\ evq' = <<>>
    BY <1>6, <1>a, <1>i DEF Launched
  <2>2. PICK j \in Jobs : lane' = Append(lane, j) /\ j.k = "accept" /\ ToSet(j.ids) = held[p]
    BY <1>6 DEF Launched
  <2>3. \A q \in Procs : Own(q)' = Own(q)
    BY <1>6, <1>c, <1>j, <2>1 DEF Launched
  <2>4. Grip[p] = held[p]
    BY <1>c, <2>1
  <2>5. /\ held[p] \cap InEvq = {} /\ held[p] \cap InCarry = {} /\ held[p] \cap items = {}
        /\ \A q \in Procs \ {p} : Grip[q] \cap held[p] = {}
    BY <1>b, <2>1, <2>4 DEF Seats
  <2>6. j.k \in Carry
    BY <2>2 DEF Carry
  <2>7. InCarry' = InCarry \cup held[p] /\ Apart(lane', Carry)
    BY <1>b, <2>2, <2>5, <2>6, CarryGrows
  <2>8. Seats'
    <3> DEFINE S == held[p]
    <3>1. /\ items' \subseteq items \ S /\ InEvq' \subseteq InEvq \ S
          /\ InCarry' \subseteq InCarry \cup S /\ \A q \in Procs : Grip'[q] \subseteq Grip[q] \ S
      BY <1>c, <1>g, <2>1, <2>3, <2>5, <2>7
    <3> HIDE DEF S
    <3> QED
      BY <1>b, <3>1, SeatsLane
  <2> QED
    BY <1>g, <2>1, <2>7, <2>8 DEF OneSeat
<1>7. ASSUME NEW p \in Procs, LetsGo(p) PROVE OneSeat'
  <2>1. /\ held'[p] = {} /\ \A q \in Procs \ {p} : held'[q] = held[q] /\ UNCHANGED <<items, lane, evq>>
    BY <1>7, <1>i DEF LetsGo
  <2>2. Own(p)' = {} /\ \A q \in Procs \ {p} : Own(q)' = Own(q)
    <3>1. \E l \in {"done", "letgo", "off"} : Goto(p, l)
      BY <1>7 DEF LetsGo
    <3> QED
      BY <3>1, OwnMoves
  <2>3. \A q \in Procs : Grip'[q] \subseteq Grip[q]
    BY <1>c, <2>1, <2>2
  <2>4. UNCHANGED <<items, lane, evq>>
    BY <1>7 DEF LetsGo
  <2>5. Seats'
    BY <1>b, <1>e, <1>f, <2>3, <2>4, SeatsShrink
  <2> QED
    BY <1>e, <1>f, <2>4, <2>5 DEF OneSeat
<1> QED
  BY <1>1, <1>2, <1>3, <1>4, <1>5, <1>6, <1>7 DEF Moved

-----------------------------------------------------------------------------
(* The lists on the lane, and the queue before it is loaded *)

\* No row of a message is still to be written behind the job that uses it up.
AddsFirst(s) ==
    \A i, n \in 1..Len(s) :
        s[i].k = "add" /\ s[n].k # "add" /\ ToSet(s[i].ids) \cap ToSet(s[n].ids) # {} => i < n

ListInv ==
    /\ AddsFirst(lane)
    /\ \A i \in 1..Len(lane) : Distinct(lane[i].ids)
    /\ \A i \in 1..Len(evq) : Distinct(evq[i].ids)

\* Before the queue is loaded nothing of it is under way.
QuietInv ==
    /\ ld # "yes" => Afoot = {} /\ \A p \in Procs : pc[p] \in {"off", "done", "stopping"}
    /\ ld # "listed" => snap = <<>>

LEMMA ListAppend ==
    ASSUME Shapes, AddsFirst(lane), \A i \in 1..Len(lane) : Distinct(lane[i].ids),
           NEW j \in Jobs, lane' = Append(lane, j), Distinct(j.ids),
           j.k = "add" => ToSet(j.ids) \cap InLane = {}
    PROVE  AddsFirst(lane') /\ \A i \in 1..Len(lane') : Distinct(lane'[i].ids)
<1>1. /\ lane \in Seq(Jobs) /\ Len(lane) \in Nat /\ Len(lane') = Len(lane) + 1
      /\ \A i \in 1..Len(lane') : \/ i \in 1..Len(lane) /\ lane'[i] = lane[i]
                                  \/ i = Len(lane) + 1 /\ lane'[i] = j
  BY DEF Shapes, TurnShape
<1>2. \A i \in 1..Len(lane) : lane[i].k \in JobKinds /\ ToSet(lane[i].ids) \subseteq InLane
  <2>1. ASSUME NEW i \in 1..Len(lane)
        PROVE  lane[i].k \in JobKinds /\ ToSet(lane[i].ids) \subseteq InLane
    <3>1. lane[i].k \in JobKinds
      BY <1>1 DEF Jobs
    <3> QED
      BY <3>1, IdsIn DEF InLane
  <2> QED
    BY <2>1
<1>3. ASSUME NEW i \in 1..Len(lane'), NEW n \in 1..Len(lane'), lane'[i].k = "add", lane'[n].k # "add",
             ToSet(lane'[i].ids) \cap ToSet(lane'[n].ids) # {}
      PROVE  i < n
  <2>1. CASE i \in 1..Len(lane) /\ lane'[i] = lane[i] /\ n \in 1..Len(lane) /\ lane'[n] = lane[n]
    BY <1>3, <2>1 DEF AddsFirst
  <2>2. CASE i \in 1..Len(lane) /\ n = Len(lane) + 1
    BY <1>1, <2>2
  <2>3. CASE i = Len(lane) + 1 /\ lane'[i] = j /\ n \in 1..Len(lane) /\ lane'[n] = lane[n]
    BY <1>2, <1>3, <2>3
  <2>4. CASE i = Len(lane) + 1 /\ lane'[i] = j /\ n = Len(lane) + 1 /\ lane'[n] = j
    BY <1>3, <2>4
  <2> QED
    BY <1>1, <2>1, <2>2, <2>3, <2>4
<1>4. \A i \in 1..Len(lane') : Distinct(lane'[i].ids)
  BY <1>1
<1> QED
  BY <1>3, <1>4 DEF AddsFirst

LEMMA ListTail ==
    ASSUME Shapes, AddsFirst(lane), \A i \in 1..Len(lane) : Distinct(lane[i].ids),
           lane # <<>>, lane' = Tail(lane)
    PROVE  AddsFirst(lane') /\ \A i \in 1..Len(lane') : Distinct(lane'[i].ids)
<1>1. /\ lane \in Seq(Jobs) /\ Len(lane) \in Nat
      /\ \A i \in 1..Len(lane') : i + 1 \in 1..Len(lane) /\ lane'[i] = lane[i + 1] /\ i \in Int
  BY DEF Shapes, TurnShape
<1>2. ASSUME NEW i \in 1..Len(lane'), NEW n \in 1..Len(lane'), lane'[i].k = "add", lane'[n].k # "add",
             ToSet(lane'[i].ids) \cap ToSet(lane'[n].ids) # {}
      PROVE  i < n
  <2>1. i + 1 < n + 1
    BY <1>1, <1>2 DEF AddsFirst
  <2> QED
    BY <1>1, <2>1
<1> QED
  BY <1>1, <1>2 DEF AddsFirst

LEMMA ListConcat ==
    ASSUME Shapes, AddsFirst(lane), \A i \in 1..Len(lane) : Distinct(lane[i].ids),
           NEW tl \in Seq(Jobs), lane' = lane \o tl,
           \A i \in 1..Len(tl) : tl[i].k # "add" /\ Distinct(tl[i].ids)
    PROVE  AddsFirst(lane') /\ \A i \in 1..Len(lane') : Distinct(lane'[i].ids)
<1>1. /\ lane \in Seq(Jobs) /\ Len(lane) \in Nat /\ Len(tl) \in Nat
      /\ \A i \in 1..Len(lane') : \/ i \in 1..Len(lane) /\ lane'[i] = lane[i]
                                  \/ /\ i \in Int /\ i > Len(lane) /\ i - Len(lane) \in 1..Len(tl)
                                     /\ lane'[i] = tl[i - Len(lane)]
  BY DEF Shapes, TurnShape
<1>2. ASSUME NEW i \in 1..Len(lane'), NEW n \in 1..Len(lane'), lane'[i].k = "add", lane'[n].k # "add",
             ToSet(lane'[i].ids) \cap ToSet(lane'[n].ids) # {}
      PROVE  i < n
  <2>1. i \in 1..Len(lane) /\ lane'[i] = lane[i]
    BY <1>1, <1>2
  <2>2. CASE n \in 1..Len(lane) /\ lane'[n] = lane[n]
    BY <1>2, <2>1, <2>2 DEF AddsFirst
  <2>3. CASE n \in Int /\ n > Len(lane)
    BY <1>1, <2>1, <2>3
  <2> QED
    BY <1>1, <2>2, <2>3
<1>3. \A i \in 1..Len(lane') : Distinct(lane'[i].ids)
  BY <1>1
<1> QED
  BY <1>2, <1>3 DEF AddsFirst

LEMMA ListKept ==
    ASSUME Shapes, NumInv, PreInv, ListInv, [Next]_vars
    PROVE  ListInv'
<1>a. /\ lane \in Seq(Jobs) /\ evq \in Seq(Events) /\ items \subseteq Numbered
      /\ \A p \in Procs : held[p] \subseteq Numbered
      /\ Outside \subseteq Procs /\ Tasks \subseteq Procs /\ InLane \subseteq Seen /\ items \subseteq Seen
  BY DEF Shapes, TurnShape, NumInv, Outside, Procs, Seen, Afoot
<1> DEFINE LaneOk == AddsFirst(lane) /\ \A i \in 1..Len(lane) : Distinct(lane[i].ids)
           EvqOk  == \A i \in 1..Len(evq) : Distinct(evq[i].ids)
<1>b. ListInv <=> LaneOk /\ EvqOk
  BY DEF ListInv
<1>c. ListInv' <=> LaneOk' /\ EvqOk'
  BY DEF ListInv
<1>d. (lane' = lane => LaneOk') /\ (evq' = evq => EvqOk') /\ (evq' \in Mute => EvqOk')
  BY <1>b, MuteIs
<1>e. (lane' = <<>> => LaneOk') /\ (evq' = <<>> => EvqOk')
  BY DEF AddsFirst
<1>f. ASSUME NEW S, S \subseteq Numbered, NEW p \in Procs, lane' = Append(lane, Job("drop", InOrder(S), p))
      PROVE  LaneOk'
  <2> DEFINE j == Job("drop", InOrder(S), p)
  <2>1. j \in Jobs /\ j.k = "drop" /\ lane' = Append(lane, j) /\ Distinct(j.ids)
    BY <1>f, DropJob
  <2> HIDE DEF j
  <2> QED
    BY <1>b, <2>1, ListAppend
<1>g. ASSUME NEW e \in Events, evq' = Append(evq, e), Distinct(e.ids) PROVE EvqOk'
  <2>1. \A i \in 1..Len(evq') : (i \in 1..Len(evq) /\ evq'[i] = evq[i]) \/ evq'[i] = e
    BY <1>a, <1>g
  <2> QED
    BY <1>b, <1>g, <2>1
<1> HIDE DEF LaneOk, EvqOk
<1>1. CASE Rests
  BY <1>1, <1>c, <1>d DEF Rests
<1>2. CASE Ended
  <2>1. PICK tl \in Seq(Jobs) :
           /\ lane' = lane \o tl
           /\ \A i \in 1..Len(tl) :
                \/ tl[i].k = "end" /\ tl[i].ids = <<>>
                \/ tl[i].k = "steer" /\ \E n \in 1..Len(evq) : evq[n].ids = tl[i].ids
    BY <1>2, LoopEndsIs DEF Ended
  <2>2. evq' = <<>>
    BY <1>2, LoopEndsIs DEF Ended
  <2>3. \A i \in 1..Len(tl) : tl[i].k # "add" /\ Distinct(tl[i].ids)
    BY <1>b, <2>1, SoleId DEF ListInv
  <2>4. LaneOk'
    BY <1>b, <2>1, <2>3, ListConcat DEF LaneOk
  <2> QED
    BY <1>c, <1>e, <2>2, <2>4
<1>3. ASSUME NEW p \in Outside, NEW S \in SUBSET items, Takes(p, S) PROVE ListInv'
  <2>1. lane' = lane \/ lane' = Append(lane, Job("drop", InOrder(S), p))
    BY <1>3 DEF Takes
  <2>2. evq' = evq
    BY <1>3 DEF Takes
  <2>3. p \in Procs /\ S \subseteq Numbered
    BY <1>a
  <2> QED
    BY <1>c, <1>d, <1>f, <2>1, <2>2, <2>3
<1>4. ASSUME NEW t \in Tasks, Gates(t) PROVE ListInv'
  <2>1. lane' = Append(lane, Job("drop", InOrder(held[t]), t)) /\ evq' = evq
    BY <1>4 DEF Gates
  <2>2. t \in Procs /\ held[t] \subseteq Numbered
    BY <1>a
  <2> QED
    BY <1>c, <1>d, <1>f, <2>1, <2>2
<1>5. ASSUME NEW p \in Procs, Defers(p) \/ LetsGo(p) PROVE ListInv'
  BY <1>5, <1>c, <1>d DEF Defers, LetsGo
<1>6. ASSUME NEW p \in Outside, Launched(p) PROVE ListInv'
  <2>1. PICK j \in Jobs : lane' = Append(lane, j) /\ j.k = "accept" /\ Distinct(j.ids)
    BY <1>6 DEF Launched
  <2>2. LaneOk'
    BY <1>b, <2>1, ListAppend DEF LaneOk
  <2> QED
    BY <1>6, <1>c, <1>e, <2>2 DEF Launched
<1>7. CASE Moved
  BY <1>1, <1>2, <1>3, <1>4, <1>5, <1>6, <1>7, <1>a DEF Moved
<1>8. CASE LoadRead \/ LoadEnd
  <2>1. UNCHANGED <<lane, evq>>
    BY <1>8 DEF LoadRead, LoadEnd, turn
  <2> QED
    BY <2>1, <1>c, <1>d
<1>9. ASSUME NEW f \in Frames, Steered(f) \/ RecordSteer(f) \/ Add(f) \/ SendJob(f) \/ StartTurn(f)
      PROVE  ListInv'
  <2>1. CASE Steered(f)
    BY <2>1, <1>c, <1>d DEF Steered, turn
  <2>2. CASE RecordSteer(f)
    <3>1. CASE UNCHANGED lane /\ \E e \in Events : evq' = Append(evq, e) /\ e.ids = <<Of[f]>>
      BY <1>c, <1>d, <1>g, <3>1, SoleId
    <3>2. CASE /\ UNCHANGED evq
               /\ \E j \in Jobs : lane' = Append(lane, j) /\ j.k = "steer" /\ j.ids = <<Of[f]>>
      <4>1. PICK j \in Jobs : lane' = Append(lane, j) /\ j.k = "steer" /\ j.ids = <<Of[f]>>
        BY <3>2
      <4>2. Distinct(j.ids) /\ j.k # "add"
        BY <4>1, SoleId
      <4>3. LaneOk'
        BY <1>b, <4>1, <4>2, ListAppend DEF LaneOk
      <4> QED
        BY <1>c, <1>d, <3>2, <4>3
    <3> QED
      BY <2>2, <3>1, <3>2, RecordSteerIs
  <2>3. CASE Add(f)
    <3>1. UNCHANGED evq /\ pc[f] = "add"
      BY <2>3, AddIs
    <3>2. Of[f] \notin InLane
      BY <1>a, <3>1 DEF PreInv, Early
    <3>3. CASE \E j \in Jobs : lane' = Append(lane, j) /\ j.k = "add" /\ j.ids = <<Of[f]>>
      <4>1. PICK j \in Jobs : lane' = Append(lane, j) /\ j.k = "add" /\ j.ids = <<Of[f]>>
        BY <3>3
      <4>2. Distinct(j.ids) /\ ToSet(j.ids) \cap InLane = {}
        BY <3>2, <4>1, SoleId
      <4>3. LaneOk'
        BY <1>b, <4>1, <4>2, ListAppend DEF LaneOk
      <4> QED
        BY <1>c, <1>d, <3>1, <4>3
    <3>4. CASE UNCHANGED lane
      BY <1>c, <1>d, <3>1, <3>4
    <3> QED
      BY <2>3, <3>3, <3>4, AddIs
  <2>4. CASE SendJob(f)
    <3>1. pc[f] = "gates" /\ UNCHANGED evq
      BY <2>4 DEF SendJob, turn
    <3>2. Of[f] \notin items
      BY <1>a, <3>1 DEF PreInv, Early
    <3>3. PICK j \in Jobs : lane' = Append(lane, j) /\ j.k = "send" /\ Distinct(j.ids)
      BY <2>4, <3>2, SendJobIs
    <3>4. LaneOk'
      BY <1>b, <3>3, ListAppend DEF LaneOk
    <3> QED
      BY <1>c, <1>d, <3>1, <3>4
  <2>5. CASE StartTurn(f)
    <3>1. UNCHANGED lane /\ (evq' = evq \/ evq' = <<>>)
      BY <2>5 DEF StartTurn, turn
    <3> QED
      BY <1>c, <1>d, <1>e, <3>1
  <2> QED
    BY <1>9, <2>1, <2>2, <2>3, <2>4, <2>5
<1>10. CASE TurnEnds /\ items' # items
  <2>1. UNCHANGED lane /\ \E e \in Events : evq' = Append(evq, e) /\ Distinct(e.ids)
    BY <1>10, TurnEndsIs
  <2> QED
    BY <1>c, <1>d, <1>g, <2>1
<1>11. CASE PumpAccepts
  <2>1. /\ evq # <<>> /\ evq' = Tail(evq)
        /\ \E j \in Jobs : lane' = Append(lane, j) /\ j.k \in {"turn", "steer"} /\ j.ids = Head(evq).ids
    BY <1>11, PumpAcceptsIs
  <2>2. Distinct(Head(evq).ids) /\ EvqOk'
    <3>1. Head(evq) = evq[1] /\ 1 \in 1..Len(evq)
      BY <2>1, HeadEvent
    <3>2. \A i \in 1..Len(evq') : i + 1 \in 1..Len(evq) /\ evq'[i] = evq[i + 1]
      BY <1>a, <2>1
    <3> QED
      BY <1>b, <3>1, <3>2 DEF EvqOk
  <2>3. LaneOk'
    BY <1>b, <2>1, <2>2, ListAppend DEF LaneOk
  <2> QED
    BY <1>c, <2>2, <2>3
<1>12. CASE LaneRuns
  <2>1. lane # <<>> /\ lane' = Tail(lane) /\ evq' = evq
    BY <1>12, LaneRunsIs
  <2>2. LaneOk'
    BY <1>b, <2>1, ListTail DEF LaneOk
  <2> QED
    BY <1>c, <1>d, <2>1, <2>2
<1>13. CASE LaneFails
  <2>1. lane # <<>> /\ lane' = Tail(lane) /\ (EvqOk => EvqOk')
    BY <1>13, LaneFailsIs DEF EvqOk
  <2>2. LaneOk'
    BY <1>b, <2>1, ListTail DEF LaneOk
  <2> QED
    BY <1>b, <1>c, <2>1, <2>2
<1>14. CASE (\E p \in Returners : GiveBack(p)) \/ (\E a \in Authors : Revoke(a)) \/ RevokeEnds
  <2>1. UNCHANGED <<lane, evq>>
    BY <1>14 DEF GiveBack, Revoke, RevokeEnds, turn
  <2> QED
    BY <1>c, <1>d, <2>1
<1>15. CASE Crash
  BY <1>15, <1>c, <1>e DEF Crash
<1> QED
  BY <1>7, <1>8, <1>9, <1>10, <1>11, <1>12, <1>13, <1>14, <1>15, StepsAre DEF Acted

LEMMA QuietKept ==
    ASSUME Shapes, NumInv, JobsFit, QuietInv, [Next]_vars
    PROVE  QuietInv'
<1>a. /\ lane \in Seq(Jobs) /\ evq \in Seq(Events) /\ pc \in [Procs -> Places]
      /\ Outside \subseteq Procs /\ Tasks \subseteq Procs /\ Frames \subseteq Procs
      /\ Returners \subseteq Procs
  BY DEF Shapes, TurnShape, ProcShape, Outside, Procs, Returners
<1>b. ld # "yes" => /\ items = {} /\ Hands = {} /\ InEvq = {} /\ InLane = {}
                    /\ \A p \in Procs : pc[p] \in {"off", "done", "stopping"}
  BY DEF QuietInv, Afoot
<1>c. \A p \in Procs : \A l : Goto(p, l) /\ pc[p] \in {"off", "done", "stopping"}
        /\ l \in {"off", "done", "stopping"} /\ (\A q \in Procs : pc[q] \in {"off", "done", "stopping"})
          => \A q \in Procs : pc'[q] \in {"off", "done", "stopping"}
  BY <1>a DEF Goto
<1>d. UNCHANGED <<ld, snap, pc>> /\ (ld # "yes" => Afoot' = {}) => QuietInv'
  BY DEF QuietInv
<1>e. ld = "yes" /\ UNCHANGED <<ld, snap>> => QuietInv'
  BY DEF QuietInv
<1>f. UNCHANGED <<items, held, evq, lane>> => Afoot' = Afoot
  BY DEF Afoot, Hands, InEvq, InLane
<1>1. CASE Moved /\ UNCHANGED fixed
  <2>1. UNCHANGED <<ld, snap>> /\ Afoot' \subseteq Afoot
    BY <1>1, AfootMoves DEF fixed
  <2>2. ASSUME ld # "yes" PROVE \A q \in Procs : pc'[q] \in {"off", "done", "stopping"}
    <3>1. CASE Rests
      <4>1. ASSUME NEW p \in Procs, NEW to, Calm(p, to), Goto(p, to)
            PROVE  \A q \in Procs : pc'[q] \in {"off", "done", "stopping"}
        <5>1. to = "stopping"
          BY <1>b, <2>2, <4>1 DEF Calm
        <5> QED
          BY <1>b, <1>c, <2>2, <4>1, <5>1
      <4> QED
        BY <1>b, <2>2, <3>1, <4>1 DEF Rests
    <3>2. CASE Ended
      BY <1>b, <2>2, <3>2 DEF Ended
    <3>3. ASSUME NEW p \in Outside, NEW S, Takes(p, S) PROVE FALSE
      BY <1>a, <1>b, <2>2, <3>3 DEF Takes
    <3>4. ASSUME NEW p \in Procs, Gates(p) \/ Defers(p) \/ Launched(p) \/ LetsGo(p) PROVE FALSE
      BY <1>b, <2>2, <3>4 DEF Gates, Defers, Launched, LetsGo
    <3> QED
      BY <1>1, <1>a, <3>1, <3>2, <3>3, <3>4 DEF Moved
  <2> QED
    BY <2>1, <2>2 DEF QuietInv
<1>2. CASE LoadRead
  <2>1. UNCHANGED <<items, held, evq, lane, pc>> /\ ld' = "listed" /\ ld = "no"
    BY <1>2 DEF LoadRead, queue, turn, procs
  <2> QED
    BY <1>f, <2>1 DEF QuietInv
<1>3. CASE LoadEnd
  <2>1. ld' = "yes" /\ snap' = <<>>
    BY <1>3 DEF LoadEnd
  <2> QED
    BY <2>1 DEF QuietInv
<1>4. ASSUME NEW f \in Frames, Steered(f) \/ RecordSteer(f) \/ Add(f) \/ SendJob(f) \/ StartTurn(f)
      PROVE  QuietInv'
  <2>1. UNCHANGED <<ld, snap>> /\ pc[f] \in {"steer", "steered", "add", "gates", "stored"}
    BY <1>4 DEF Steered, RecordSteer, Add, SendJob, StartTurn, loading
  <2> QED
    BY <1>a, <1>b, <1>e, <2>1
<1>5. CASE TurnEnds /\ items' # items
  <2>1. UNCHANGED <<ld, snap>> /\ \E S \in SUBSET items : items' = items \ S
    BY <1>5, TurnEndsIs
  <2> QED
    BY <1>5, <1>b, <1>e, <2>1
<1>6. CASE PumpAccepts
  <2>1. /\ UNCHANGED <<items, held, pc, ld, snap>> /\ evq # <<>> /\ evq' = Tail(evq)
        /\ \E j \in Jobs : lane' = Append(lane, j) /\ j.ids = Head(evq).ids
    BY <1>6, PumpAcceptsIs
  <2>2. InLane' = InLane \cup ToSet(Head(evq).ids)
    BY <2>1, LaneGrows
  <2>3. InEvq' \subseteq InEvq /\ ToSet(Head(evq).ids) \subseteq InEvq /\ Hands' = Hands
    BY <2>1, EvqHead DEF InEvq, Hands
  <2>4. ld # "yes" => Afoot' = {}
    BY <1>b, <2>1, <2>2, <2>3 DEF Afoot
  <2> QED
    BY <1>d, <2>1, <2>4
<1>7. CASE LaneRuns \/ LaneFails
  <2> DEFINE j == Head(lane)
  <2>1. /\ UNCHANGED <<held, ld, snap>> /\ lane # <<>> /\ lane' = Tail(lane) /\ j \in Jobs
        /\ items' \subseteq items \cup ToSet(j.ids)
        /\ InEvq' = InEvq
        /\ j.k \notin OfProc => pc' = pc
    <3>1. CASE LaneRuns
      BY <3>1, LaneRunsIs DEF OfProc, InEvq
    <3>2. CASE LaneFails
      <4>1. UNCHANGED <<held, ld, snap>> /\ lane # <<>> /\ lane' = Tail(lane) /\ j \in Jobs
        BY <3>2, LaneFailsIs
      <4>2. items' \subseteq items \cup ToSet(j.ids) /\ (j.k \notin OfProc => pc' = pc)
        BY <3>2, LaneFailsIs
      <4>3. \A K : IdsOf(evq', K) = IdsOf(evq, K)
        BY <3>2, LaneFailsIs
      <4> QED
        BY <4>1, <4>2, <4>3 DEF InEvq
    <3> QED
      BY <1>7, <3>1, <3>2
  <2>2. InLane' \subseteq InLane /\ ToSet(j.ids) \subseteq InLane /\ Hands' = Hands
    BY <2>1, LaneHead DEF InLane, Hands
  <2>3. ld # "yes" => j.k \notin OfProc
    <3>1. j = lane[1] /\ 1 \in 1..Len(lane)
      BY <2>1, HeadJob
    <3>2. Fits(j, pc, held) /\ (j.k \in OfProc => j.p \in Procs)
      BY <2>1, <3>1 DEF JobsFit, Jobs, OfProc
    <3> QED
      BY <1>b, <3>2 DEF Fits, OfProc
  <2>4. ld # "yes" => Afoot' = {}
    BY <1>b, <2>1, <2>2 DEF Afoot
  <2> QED
    BY <1>d, <1>e, <2>1, <2>3, <2>4
<1>8. ASSUME NEW p \in Returners, GiveBack(p) PROVE QuietInv'
  <2>1. UNCHANGED <<ld, snap>> /\ pc[p] = "dropped"
    BY <1>8 DEF GiveBack, loading
  <2> QED
    BY <1>a, <1>b, <1>e, <2>1
<1>9. ASSUME NEW a \in Authors, Revoke(a) PROVE QuietInv'
  <2>1. UNCHANGED <<items, held, evq, lane, pc, ld, snap>>
    BY <1>9 DEF Revoke, queue, turn, procs, loading
  <2> QED
    BY <1>d, <1>f, <2>1 DEF QuietInv
<1>10. CASE RevokeEnds
  <2>1. UNCHANGED <<held, evq, lane, pc, ld, snap>> /\ items' \subseteq items
    BY <1>10 DEF RevokeEnds, turn, procs, loading
  <2>2. Afoot' \subseteq Afoot
    BY <2>1 DEF Afoot, Hands, InEvq, InLane
  <2> QED
    BY <1>d, <2>1, <2>2 DEF QuietInv
<1>11. CASE Crash
  <2>1. /\ items' = {} /\ lane' = <<>> /\ evq' = <<>> /\ snap' = <<>>
        /\ held' = [p \in Procs |-> {}]
        /\ pc' = [p \in Procs |-> IF p \in Frames /\ pc[p] # "off" THEN "done" ELSE "off"]
    BY <1>11 DEF Crash
  <2>2. Hands' = {} /\ InEvq' = {} /\ InLane' = {}
    BY <2>1, IdsEmpty DEF Hands, InEvq, InLane
  <2> QED
    BY <2>1, <2>2 DEF QuietInv, Afoot
<1> QED
  BY <1>1, <1>2, <1>3, <1>4, <1>5, <1>6, <1>7, <1>8, <1>9, <1>10, <1>11, StepsAre DEF Acted

LEMMA EvqTail ==
    ASSUME Shapes, Apart(evq, EventKinds), evq # <<>>, evq' = Tail(evq)
    PROVE  /\ InEvq' \subseteq InEvq \ ToSet(Head(evq).ids) /\ ToSet(Head(evq).ids) \subseteq InEvq
           /\ Apart(evq', EventKinds)
<1>1. evq \in Seq(Events) /\ Head(evq).k \in EventKinds
  BY HeadEvent DEF Shapes, TurnShape, Events
<1>2. IdsOf(evq, EventKinds) = IdsOf(Tail(evq), EventKinds)
                                 \cup (IF Head(evq).k \in EventKinds THEN ToSet(Head(evq).ids) ELSE {})
  BY <1>1, IdsTail
<1>3. /\ Apart(Tail(evq), EventKinds)
      /\ ToSet(Head(evq).ids) \cap IdsOf(Tail(evq), EventKinds) = {}
  BY <1>1, IdsTail
<1> QED
  BY <1>1, <1>2, <1>3 DEF InEvq

LEMMA EvqAppend ==
    ASSUME Shapes, Apart(evq, EventKinds), NEW e \in Events, evq' = Append(evq, e),
           ToSet(e.ids) \cap InEvq = {}
    PROVE  InEvq' = InEvq \cup ToSet(e.ids) /\ Apart(evq', EventKinds)
<1>1. evq \in Seq(Events)
  BY DEF Shapes, TurnShape
<1>2. Apart(evq, EventKinds) /\ (e.k \in EventKinds => ToSet(e.ids) \cap IdsOf(evq, EventKinds) = {})
        => Apart(Append(evq, e), EventKinds)
  BY <1>1, IdsAppend
<1>3. InEvq' = InEvq \cup ToSet(e.ids)
  BY EvqGrows
<1> QED
  BY <1>2, <1>3 DEF InEvq

LEMMA OneSeatActs ==
    ASSUME SentOnce, Shapes, NumInv, JobsFit, PreInv, QuietInv, OneSeat, Acted
    PROVE  OneSeat'
<1>a. /\ lane \in Seq(Jobs) /\ held \in [Procs -> SUBSET Msgs] /\ pc \in [Procs -> Places]
      /\ Frames \subseteq Procs /\ Returners \subseteq Procs
      /\ \A f \in Frames : Of[f] \in Msgs
  BY QueueAssumption DEF Shapes, TurnShape, ProcShape, Procs, Returners
<1>b. Seats /\ Apart(lane, Carry) /\ Apart(evq, EventKinds)
  BY DEF OneSeat
<1>c. \A p \in Procs : Grip[p] = held[p] \cup Own(p) /\ Grip'[p] = held'[p] \cup Own(p)'
  BY DEF Grip
<1>d. UNCHANGED pc => \A p \in Procs : Own(p)' = Own(p)
  BY DEF Own
<1>e. UNCHANGED lane => InCarry' = InCarry /\ Apart(lane', Carry)
  BY <1>b DEF InCarry
<1>f. UNCHANGED evq => InEvq' = InEvq /\ Apart(evq', EventKinds)
  BY <1>b DEF InEvq
<1>g. evq' = <<>> => InEvq' = {} /\ Apart(evq', EventKinds)
  BY IdsEmpty DEF InEvq
<1>h. /\ items \subseteq Seen /\ InEvq \subseteq Seen /\ InCarry \subseteq Seen
      /\ \A p \in Procs : held[p] \subseteq Seen
  BY CarryInLane, HandsIs DEF Seen, Afoot
<1>i. \A p \in Procs : held' = [held EXCEPT ![p] = {}]
        => held'[p] = {} /\ \A q \in Procs \ {p} : held'[q] = held[q]
  BY <1>a
\* A message nobody has seen is in no hand but its own frame's.
<1>j. ASSUME NEW f \in Frames, pc[f] \in Early, NEW p \in Procs, p # f PROVE Of[f] \notin Grip[p]
  <2>1. Of[f] \notin Seen
    BY <1>j DEF PreInv
  <2>2. p \in Frames => Of[p] # Of[f]
    BY <1>j DEF SentOnce
  <2> QED
    BY <1>c, <1>h, <2>1, <2>2 DEF Own
<1>k. \A p \in Procs : Own(p) = {} \/ (p \in Frames /\ Own(p) = {Of[p]})
  BY DEF Own
<1>1. CASE LoadRead
  <2>1. UNCHANGED <<items, lane, evq, held, pc>>
    BY <1>1 DEF LoadRead, queue, turn, procs
  <2>2. \A p \in Procs : Grip'[p] = Grip[p]
    BY <1>c, <1>d, <2>1
  <2>3. Seats'
    BY <1>b, <1>e, <1>f, <2>1, <2>2, SeatsShrink
  <2> QED
    BY <1>e, <1>f, <2>1, <2>3 DEF OneSeat
<1>2. CASE LoadEnd
  <2>1. UNCHANGED <<lane, evq, held, pc>> /\ ld = "listed"
    BY <1>2 DEF LoadEnd, turn, procs
  <2>2. InEvq = {} /\ InLane = {} /\ \A p \in Procs : held[p] = {} /\ Own(p) = {}
    BY <2>1, HandsIs DEF QuietInv, Afoot, Own
  <2>3. InEvq' = {} /\ InCarry' = {} /\ \A p \in Procs : Grip'[p] = {}
    BY <1>c, <1>d, <1>e, <1>f, <2>1, <2>2, CarryInLane
  <2>4. Seats'
    BY <2>3 DEF Seats
  <2> QED
    BY <1>e, <1>f, <2>1, <2>4 DEF OneSeat
<1>3. ASSUME NEW f \in Frames, Steered(f) PROVE OneSeat'
  <2>1. UNCHANGED <<items, lane, evq, held>> /\ pc[f] = "steer" /\ Goto(f, "steered")
    BY <1>3 DEF Steered, queue, turn
  <2>2. f \in Procs /\ Of[f] \notin Seen
    BY <1>a, <2>1 DEF PreInv, Early
  <2>3. Own(f)' = {Of[f]} /\ \A q \in Procs \ {f} : Own(q)' = Own(q)
    BY <2>1, <2>2, OwnMoves
  <2>4. \A q \in Procs \ {f} : Of[f] \notin Grip[q]
    BY <1>j, <2>1 DEF Early
  <2> DEFINE S == {Of[f]}
  <2>5. /\ items' \subseteq items \ S /\ InEvq' \subseteq InEvq \ S /\ InCarry' \subseteq InCarry \ S
        /\ Grip'[f] \subseteq Grip[f] \cup S /\ \A q \in Procs \ {f} : Grip'[q] \subseteq Grip[q] \ S
    <3>1. Grip'[f] \subseteq Grip[f] \cup S /\ \A q \in Procs \ {f} : Grip'[q] \subseteq Grip[q] \ S
      BY <1>c, <2>1, <2>2, <2>3, <2>4
    <3> QED
      BY <1>e, <1>f, <1>h, <2>1, <2>2, <3>1
  <2> HIDE DEF S
  <2>6. Seats'
    BY <1>b, <2>2, <2>5, SeatsHand
  <2> QED
    BY <1>e, <1>f, <2>1, <2>6 DEF OneSeat
<1>4. ASSUME NEW f \in Frames, RecordSteer(f) PROVE OneSeat'
  <2>1. UNCHANGED <<items, held>> /\ pc[f] = "steered" /\ Goto(f, "done") /\ f \in Procs
    BY <1>4, <1>a, RecordSteerIs
  <2>2. Own(f) = {Of[f]} /\ Own(f)' = {} /\ \A q \in Procs \ {f} : Own(q)' = Own(q)
    <3>1. Own(f) = {Of[f]}
      BY <2>1 DEF Own
    <3> QED
      BY <2>1, <3>1, OwnMoves
  <2>3. held[f] = {}
    BY <2>1 DEF JobsFit, Keeps
  <2> DEFINE S == {Of[f]}
  <2>4. /\ Grip[f] = S /\ \A q \in Procs : Grip'[q] \subseteq Grip[q] \ S
        /\ S \cap items = {} /\ S \cap InEvq = {} /\ S \cap InCarry = {}
    <3>1. Grip[f] = S /\ Grip'[f] = {}
      BY <1>c, <2>1, <2>2, <2>3
    <3>2. /\ S \cap items = {} /\ S \cap InEvq = {} /\ S \cap InCarry = {}
          /\ \A q \in Procs \ {f} : Grip[q] \cap S = {}
      BY <1>b, <2>1, <3>1 DEF Seats
    <3> QED
      BY <1>c, <2>1, <2>2, <3>1, <3>2
  <2>5. CASE UNCHANGED lane /\ \E e \in Events : evq' = Append(evq, e) /\ e.ids = <<Of[f]>>
    <3>1. PICK e \in Events : evq' = Append(evq, e) /\ ToSet(e.ids) = S
      BY <2>5, SoleId
    <3> HIDE DEF S
    <3>2. InEvq' = InEvq \cup S /\ Apart(evq', EventKinds)
      BY <1>b, <2>4, <3>1, EvqAppend
    <3>3. items' \subseteq items \ S /\ InCarry' \subseteq InCarry \ S /\ InEvq' \subseteq InEvq \cup S
      BY <1>e, <2>1, <2>4, <2>5, <3>2
    <3>4. Seats'
      BY <1>b, <2>4, <3>3, SeatsEvq
    <3> QED
      BY <1>e, <2>5, <3>2, <3>4 DEF OneSeat
  <2>6. CASE /\ UNCHANGED evq
             /\ \E j \in Jobs : lane' = Append(lane, j) /\ j.k = "steer" /\ j.ids = <<Of[f]>>
    <3>1. PICK j \in Jobs : lane' = Append(lane, j) /\ j.k \in Carry /\ ToSet(j.ids) = S
      BY <2>6, SoleId DEF Carry
    <3> HIDE DEF S
    <3>2. InCarry' = InCarry \cup S /\ Apart(lane', Carry)
      BY <1>b, <2>4, <3>1, CarryGrows
    <3>3. items' \subseteq items \ S /\ InEvq' \subseteq InEvq \ S /\ InCarry' \subseteq InCarry \cup S
      BY <1>f, <2>1, <2>4, <2>6, <3>2
    <3>4. Seats'
      BY <1>b, <2>4, <3>3, SeatsLane
    <3> QED
      BY <1>f, <2>6, <3>2, <3>4 DEF OneSeat
  <2> QED
    BY <1>4, <2>5, <2>6, RecordSteerIs
<1>5. ASSUME NEW f \in Frames, Add(f) PROVE OneSeat'
  <2>1. UNCHANGED <<held, evq>> /\ pc[f] = "add" /\ f \in Procs
    BY <1>5, <1>a, AddIs
  <2>2. PICK l \in {"adding", "added", "done"} : Goto(f, l)
    BY <1>5, AddIs
  <2>3. \A q \in Procs : Own(q)' = Own(q)
    <3>1. Own(f) = {} /\ Own(f)' = {} /\ \A q \in Procs \ {f} : Own(q)' = Own(q)
      <4>1. Own(f) = {}
        BY <2>1 DEF Own
      <4> QED
        BY <2>1, <2>2, <4>1, OwnMoves
    <3> QED
      BY <3>1
  <2>4. \A q \in Procs : Grip'[q] = Grip[q]
    BY <1>c, <2>1, <2>3
  <2>5. CASE UNCHANGED <<items, lane>>
    <3>1. Seats'
      BY <1>b, <1>e, <1>f, <2>1, <2>4, <2>5, SeatsShrink
    <3> QED
      BY <1>e, <1>f, <2>1, <2>5, <3>1 DEF OneSeat
  <2>6. CASE /\ items' = items \cup {Of[f]}
             /\ \E j \in Jobs : lane' = Append(lane, j) /\ j.k = "add" /\ j.ids = <<Of[f]>>
    <3> DEFINE S == {Of[f]}
    <3>1. InCarry' = InCarry /\ Apart(lane', Carry)
      <4>1. PICK j \in Jobs : lane' = Append(lane, j) /\ j.k \notin Carry
        BY <2>6 DEF Carry
      <4> QED
        BY <1>b, <4>1, CarryGrows
    <3>2. Of[f] \notin Seen
      BY <2>1 DEF PreInv, Early
    <3>3. \A q \in Procs : Grip[q] \cap S = {}
      <4>1. Grip[f] \cap S = {}
        <5>1. Own(f) = {} /\ held[f] \subseteq Seen
          BY <1>h, <2>1 DEF Own
        <5> QED
          BY <1>c, <2>1, <3>2, <5>1
      <4>2. \A q \in Procs \ {f} : Of[f] \notin Grip[q]
        BY <1>j, <2>1 DEF Early
      <4> QED
        BY <4>1, <4>2
    <3>4. /\ items' \subseteq items \cup S /\ InEvq' \subseteq InEvq \ S /\ InCarry' \subseteq InCarry \ S
          /\ \A q \in Procs : Grip'[q] \subseteq Grip[q] \ S
      BY <1>f, <1>h, <2>1, <2>4, <2>6, <3>1, <3>2, <3>3
    <3> HIDE DEF S
    <3>5. Seats'
      BY <1>b, <3>4, SeatsItems
    <3> QED
      BY <1>f, <2>1, <3>1, <3>5 DEF OneSeat
  <2> QED
    BY <1>5, <2>5, <2>6, AddIs
<1>6. ASSUME NEW f \in Frames, SendJob(f) PROVE OneSeat'
  <2> DEFINE M == By(Who(f))
             S == M \cup {Of[f]}
  <2>1. /\ UNCHANGED evq /\ pc[f] = "gates" /\ items' = items \ M /\ Goto(f, "storing")
        /\ held' = [held EXCEPT ![f] = M] /\ f \in Procs /\ M \subseteq items
    BY <1>6, <1>a DEF SendJob, turn, By
  <2>2. PICK j \in Jobs : lane' = Append(lane, j) /\ j.k = "send"
    BY <1>6, SendJobIs
  <2> HIDE DEF M
  <2>3. InCarry' = InCarry /\ Apart(lane', Carry)
    <3>1. j.k \notin Carry
      BY <2>2 DEF Carry
    <3> QED
      BY <1>b, <2>2, <3>1, CarryGrows
  <2>4. Of[f] \notin Seen
    BY <2>1 DEF PreInv, Early
  <2>5. held'[f] = M /\ \A q \in Procs \ {f} : held'[q] = held[q]
    BY <1>a, <2>1
  <2>6. Own(f)' = {Of[f]} /\ \A q \in Procs \ {f} : Own(q)' = Own(q)
    BY <2>1, OwnMoves
  <2>7. \A q \in Procs \ {f} : Grip[q] \cap S = {}
    <3>1. \A q \in Procs : Grip[q] \cap M = {}
      BY <1>b, <2>1 DEF Seats
    <3>2. \A q \in Procs \ {f} : Of[f] \notin Grip[q]
      BY <1>j, <2>1 DEF Early
    <3> QED
      BY <3>1, <3>2
  <2>8. InEvq \cap S = {} /\ InCarry \cap S = {} /\ items \cap {Of[f]} = {}
    BY <1>b, <1>h, <2>1, <2>4 DEF Seats
  <2>9. /\ items' \subseteq items \ S /\ InEvq' \subseteq InEvq \ S /\ InCarry' \subseteq InCarry \ S
        /\ Grip'[f] \subseteq Grip[f] \cup S /\ \A q \in Procs \ {f} : Grip'[q] \subseteq Grip[q] \ S
    <3>1. Grip'[f] \subseteq Grip[f] \cup S
      BY <1>c, <2>1, <2>5, <2>6
    <3>2. \A q \in Procs \ {f} : Grip'[q] \subseteq Grip[q] \ S
      BY <1>c, <2>5, <2>6, <2>7
    <3> QED
      BY <1>f, <2>1, <2>3, <2>8, <3>1, <3>2
  <2> HIDE DEF S
  <2>10. Seats'
    BY <1>b, <2>1, <2>9, SeatsHand
  <2> QED
    BY <1>f, <2>1, <2>3, <2>10 DEF OneSeat
<1>7. ASSUME NEW f \in Frames, StartTurn(f) PROVE OneSeat'
  <2>1. /\ UNCHANGED <<items, lane>> /\ evq' \in {evq, <<>>} /\ held' = [held EXCEPT ![f] = {}]
        /\ Goto(f, "done") /\ f \in Procs
    BY <1>7, <1>a DEF StartTurn, queue, turn
  <2>2. Own(f)' = {} /\ \A q \in Procs \ {f} : Own(q)' = Own(q)
    BY <2>1, OwnMoves
  <2>3. \A q \in Procs : Grip'[q] \subseteq Grip[q]
    BY <1>c, <1>i, <2>1, <2>2
  <2>4. InEvq' \subseteq InEvq /\ Apart(evq', EventKinds)
    BY <1>f, <1>g, <2>1
  <2>5. Seats'
    BY <1>b, <1>e, <2>1, <2>3, <2>4, SeatsShrink
  <2> QED
    BY <1>e, <2>1, <2>4, <2>5 DEF OneSeat
<1>8. CASE TurnEnds /\ items' # items
  <2>1. UNCHANGED <<lane, held, pc>>
    BY <1>8, TurnEndsIs
  <2>2. PICK S \in SUBSET items : \E e \in Events :
           items' = items \ S /\ evq' = Append(evq, e) /\ ToSet(e.ids) = S
    BY <1>8, TurnEndsIs
  <2>3. S \cap InEvq = {} /\ S \cap InCarry = {} /\ \A p \in Procs : Grip[p] \cap S = {}
    BY <1>b DEF Seats
  <2>4. InEvq' = InEvq \cup S /\ Apart(evq', EventKinds)
    BY <1>b, <2>2, <2>3, EvqAppend
  <2>5. \A p \in Procs : Grip'[p] \subseteq Grip[p] \ S
    BY <1>c, <1>d, <2>1, <2>3
  <2>6. items' \subseteq items \ S /\ InCarry' \subseteq InCarry \ S /\ InEvq' \subseteq InEvq \cup S
    BY <1>e, <2>1, <2>2, <2>3, <2>4
  <2>7. Seats'
    BY <1>b, <2>5, <2>6, SeatsEvq
  <2> QED
    BY <1>e, <2>1, <2>4, <2>7 DEF OneSeat
<1>9. CASE PumpAccepts
  <2> DEFINE S == ToSet(Head(evq).ids)
  <2>1. UNCHANGED <<items, held, pc>> /\ evq # <<>> /\ evq' = Tail(evq)
    BY <1>9, PumpAcceptsIs
  <2>2. PICK j \in Jobs : lane' = Append(lane, j) /\ j.k \in Carry /\ ToSet(j.ids) = S
    <3>1. PICK j \in Jobs : /\ lane' = Append(lane, j) /\ j.k = Head(evq).k
                            /\ j.ids = Head(evq).ids
      BY <1>9, PumpAcceptsIs
    <3>2. Head(evq).k \in Carry
      BY <1>9, PumpAcceptsIs DEF Carry
    <3> QED
      BY <3>1, <3>2
  <2>3. S \subseteq InEvq /\ InEvq' \subseteq InEvq \ S /\ Apart(evq', EventKinds)
    BY <1>b, <2>1, EvqTail
  <2> HIDE DEF S
  <2>4. S \cap items = {} /\ S \cap InCarry = {} /\ \A p \in Procs : Grip[p] \cap S = {}
    BY <1>b, <2>3 DEF Seats
  <2>5. InCarry' = InCarry \cup S /\ Apart(lane', Carry)
    BY <1>b, <2>2, <2>4, CarryGrows
  <2>6. \A p \in Procs : Grip'[p] \subseteq Grip[p] \ S
    BY <1>c, <1>d, <2>1, <2>4
  <2>7. items' \subseteq items \ S /\ InEvq' \subseteq InEvq \ S /\ InCarry' \subseteq InCarry \cup S
    BY <2>1, <2>3, <2>4, <2>5
  <2>8. Seats'
    BY <1>b, <2>6, <2>7, SeatsLane
  <2> QED
    BY <2>3, <2>5, <2>8 DEF OneSeat
\* A process whose job has run holds what it held.
<1>m. ASSUME lane # <<>>, NEW l \in {"added", "stored", "dropped", "failed"},
             \/ UNCHANGED pc
             \/ Head(lane).k \in OfProc /\ Head(lane) \in Jobs /\ Goto(Head(lane).p, l)
                /\ (l = "stored" => Head(lane).k = "send")
      PROVE  \A q \in Procs : Own(q)' \subseteq Own(q)
  <2>0. PICK p : p = Head(lane).p
    OBVIOUS
  <2>1. CASE UNCHANGED pc
    BY <1>d, <2>1
  <2>2. CASE Head(lane).k \in OfProc /\ Head(lane) \in Jobs /\ Goto(p, l)
             /\ (l = "stored" => Head(lane).k = "send")
    <3>1. p \in Procs
      BY <2>0, <2>2 DEF Jobs, OfProc
    <3>2. \A q \in Procs \ {p} : Own(q)' = Own(q)
      BY <2>2, <3>1, OwnMoves
    <3>3. CASE l = "stored"
      <4>1. Head(lane) = lane[1] /\ 1 \in 1..Len(lane)
        BY <1>m, HeadJob
      <4>2. p \in Frames /\ pc[p] = "storing"
        BY <2>0, <2>2, <3>3, <4>1 DEF JobsFit, Fits
      <4>3. Own(p) = {Of[p]} /\ Own(p)' = {Of[p]}
        <5>1. Own(p) = {Of[p]}
          BY <4>2 DEF Own
        <5> QED
          BY <2>2, <3>1, <3>3, <4>2, <5>1, OwnMoves
      <4> QED
        BY <3>2, <4>3
    <3>4. CASE l # "stored"
      <4>1. Own(p)' = {}
        BY <2>2, <3>1, <3>4, OwnMoves
      <4> QED
        BY <3>2, <4>1
    <3> QED
      BY <3>3, <3>4
  <2> QED
    BY <1>m, <2>0, <2>1, <2>2
<1>10. CASE LaneRuns
  <2>1. lane # <<>> /\ lane' = Tail(lane) /\ UNCHANGED <<items, held, evq>>
    BY <1>10, LaneRunsIs
  <2>2. \E l \in {"added", "stored", "dropped", "failed"} :
           \/ UNCHANGED pc
           \/ Head(lane).k \in OfProc /\ Head(lane) \in Jobs /\ Goto(Head(lane).p, l)
              /\ (l = "stored" => Head(lane).k = "send")
    BY <1>10, LaneRunsIs DEF OfProc
  <2>3. \A q \in Procs : Own(q)' \subseteq Own(q)
    BY <1>m, <2>1, <2>2
  <2>4. \A q \in Procs : Grip'[q] \subseteq Grip[q]
    BY <1>c, <2>1, <2>3
  <2>5. InCarry' \subseteq InCarry /\ Apart(lane', Carry)
    BY <1>b, <2>1, CarryRuns
  <2>6. Seats'
    BY <1>b, <1>f, <2>1, <2>4, <2>5, SeatsShrink
  <2> QED
    BY <1>f, <2>1, <2>5, <2>6 DEF OneSeat
<1>11. CASE LaneFails
  <2> DEFINE j == Head(lane)
             S == IF j.k \in {"accept", "turn"} THEN ToSet(j.ids) ELSE {}
  <2>1. lane # <<>> /\ lane' = Tail(lane) /\ UNCHANGED held /\ items' \subseteq items \cup S
    BY <1>11, LaneFailsIs
  <2>2. InEvq' = InEvq /\ Apart(evq', EventKinds)
    <3>1. \A K : IdsOf(evq', K) = IdsOf(evq, K) /\ (Apart(evq, K) => Apart(evq', K))
      BY <1>11, LaneFailsIs
    <3> QED
      BY <1>b, <3>1 DEF InEvq
  <2>3. UNCHANGED pc \/ (j.k \in OfProc /\ j \in Jobs /\ Goto(j.p, "failed"))
    BY <1>11, LaneFailsIs
  <2>4. \A q \in Procs : Own(q)' \subseteq Own(q)
    BY <1>m, <2>1, <2>3
  <2>5. InCarry' \subseteq InCarry \ S /\ Apart(lane', Carry) /\ S \subseteq InCarry
    <3>1. InCarry' \subseteq InCarry /\ Apart(lane', Carry)
          /\ (j.k \in Carry => ToSet(j.ids) \cap InCarry' = {} /\ ToSet(j.ids) \subseteq InCarry)
      BY <1>b, <2>1, CarryRuns
    <3>2. j.k \in {"accept", "turn"} => j.k \in Carry
      BY DEF Carry
    <3> QED
      BY <3>1, <3>2
  <2> HIDE DEF S
  <2>6. S \cap InEvq = {} /\ \A q \in Procs : Grip[q] \cap S = {}
    BY <1>b, <2>5 DEF Seats
  <2>7. \A q \in Procs : Grip'[q] \subseteq Grip[q] \ S
    BY <1>c, <2>1, <2>4, <2>6
  <2>8. InEvq' \subseteq InEvq \ S
    BY <2>2, <2>6
  <2>9. Seats'
    BY <1>b, <2>1, <2>5, <2>7, <2>8, SeatsItems
  <2> QED
    BY <2>2, <2>5, <2>9 DEF OneSeat
<1>12. ASSUME NEW p \in Returners, GiveBack(p) PROVE OneSeat'
  <2>1. /\ UNCHANGED <<items, lane, evq>> /\ held' = [held EXCEPT ![p] = {}] /\ p \in Procs
        /\ pc[p] = "dropped" /\ Goto(p, Resume(p))
    BY <1>12, <1>a DEF GiveBack, queue, turn
  <2>2. \A q \in Procs : Own(q)' \subseteq Own(q)
    <3>1. Resume(p) \notin {"steered", "storing", "stored"}
      BY DEF Resume
    <3>2. Own(p)' = {} /\ \A q \in Procs \ {p} : Own(q)' = Own(q)
      BY <2>1, <3>1, OwnMoves
    <3> QED
      BY <3>2
  <2>3. \A q \in Procs : Grip'[q] \subseteq Grip[q]
    BY <1>c, <1>i, <2>1, <2>2
  <2>4. Seats'
    BY <1>b, <1>e, <1>f, <2>1, <2>3, SeatsShrink
  <2> QED
    BY <1>e, <1>f, <2>1, <2>4 DEF OneSeat
<1>13. CASE (\E a \in Authors : Revoke(a)) \/ RevokeEnds
  <2>1. UNCHANGED <<lane, evq, held, pc>> /\ items' \subseteq items
    BY <1>13 DEF Revoke, RevokeEnds, queue, turn, procs
  <2>2. \A q \in Procs : Grip'[q] = Grip[q]
    BY <1>c, <1>d, <2>1
  <2>3. Seats'
    BY <1>b, <1>e, <1>f, <2>1, <2>2, SeatsShrink
  <2> QED
    BY <1>e, <1>f, <2>1, <2>3 DEF OneSeat
<1>14. CASE Crash
  <2>1. /\ items' = {} /\ lane' = <<>> /\ evq' = <<>> /\ held' = [p \in Procs |-> {}]
        /\ pc' = [p \in Procs |-> IF p \in Frames /\ pc[p] # "off" THEN "done" ELSE "off"]
    BY <1>14 DEF Crash
  <2>2. \A q \in Procs : Grip'[q] = {}
    BY <1>c, <2>1 DEF Own
  <2>3. InCarry' = {} /\ Apart(lane', Carry)
    BY <2>1, IdsEmpty DEF InCarry
  <2>4. Seats'
    BY <1>g, <2>1, <2>2, <2>3 DEF Seats
  <2> QED
    BY <1>g, <2>1, <2>3, <2>4 DEF OneSeat
<1> QED
  BY <1>1, <1>2, <1>3, <1>4, <1>5, <1>6, <1>7, <1>8, <1>9, <1>10, <1>11, <1>12, <1>13, <1>14 DEF Acted

LEMMA SeatedAtStart == Init => ListInv /\ QuietInv /\ OneSeat
<1> SUFFICES ASSUME Init PROVE ListInv /\ QuietInv /\ OneSeat
  OBVIOUS
<1>1. /\ items = {} /\ held = [p \in Procs |-> {}] /\ evq = <<>> /\ lane = <<>> /\ snap = <<>>
      /\ pc = [p \in Procs |-> "off"]
  BY DEF Init
<1>2. Hands = {} /\ InEvq = {} /\ InLane = {} /\ InCarry = {}
      /\ Apart(lane, Carry) /\ Apart(evq, EventKinds)
  BY <1>1, IdsEmpty DEF Hands, InEvq, InLane, InCarry
<1>3. \A p \in Procs : Grip[p] = {}
  BY <1>1 DEF Grip, Own
<1>4. Len(lane) = 0 /\ Len(evq) = 0
  BY <1>1
<1> QED
  BY <1>1, <1>2, <1>3, <1>4 DEF ListInv, AddsFirst, QuietInv, Afoot, OneSeat, Seats

LEMMA AlwaysSeated ==
    ASSUME SentOnce
    PROVE  Spec => [](Shapes /\ NumInv /\ JobsFit /\ PreInv /\ ListInv /\ QuietInv /\ OneSeat)
<1>1. Shapes /\ NumInv /\ JobsFit /\ PreInv /\ ListInv /\ QuietInv /\ OneSeat /\ [Next]_vars
        => ListInv' /\ QuietInv' /\ OneSeat'
  BY ListKept, QuietKept, OneSeatMoves, OneSeatActs, StepsAre
<1> QED
  BY <1>1, SeatedAtStart, AlwaysUnseen, PTL DEF Spec

-----------------------------------------------------------------------------
(* What was answered, and what was returned *)

\* Jobs that carry a message nobody has answered yet.
Rowed == {"add", "accept", "turn", "send", "drop"}

Shown == ToSet(chat) \cup back
Paid  == Answered \cup Shown
Drawn == {m \in Msgs : \E p \in Outside : m \in held[p]}
Taken == {m \in Msgs : \E f \in Frames : pc[f] = "steered" /\ m = Of[f]}
Fresh == items \cup ToSet(rows) \cup ToSet(snap) \cup IdsOf(lane, Rowed) \cup IdsOf(evq, {"turn"})
         \cup Drawn
Steering == IdsOf(lane, {"steer"}) \cup IdsOf(evq, {"steer"}) \cup Taken

\* What waits is neither answered nor in the chat nor with its author ...
WaitsInv == Paid \cap Fresh = {} /\ back \cap (Answered \cup ToSet(chat)) = {}

\* ... what the running turn took in is answered and not in the chat yet ...
SteerInv == Steering \subseteq Answered /\ Steering \cap Shown = {}

\* ... a send whose rows stand is not answered yet ...
StoredInv == \A f \in Frames : pc[f] = "stored" =>
                held[f] \cup {Of[f]} \subseteq ToSet(chat) /\ (held[f] \cup {Of[f]}) \cap Answered = {}

\* ... and a return whose rows are gone leaves none behind.
ReturnInv == \A p \in Procs : pc[p] = "dropped" =>
                held[p] \cap ToSet(rows) = {} /\ held[p] \cap IdsOf(lane, {"add"}) = {}

OnceInv == (\A m \in Msgs : sent[m] <= 1) /\ Distinct(chat)

SpentInv == WaitsInv /\ SteerInv /\ StoredInv /\ ReturnInv /\ OnceInv

LEMMA LaneAdds ==
    ASSUME Shapes, NEW j \in Jobs, lane' = Append(lane, j), NEW K
    PROVE  IdsOf(lane', K) = IdsOf(lane, K) \cup (IF j.k \in K THEN ToSet(j.ids) ELSE {})
<1>1. lane \in Seq(Jobs)
  BY DEF Shapes, TurnShape
<1> QED
  BY <1>1, IdsAppend

LEMMA LanePops ==
    ASSUME Shapes, lane # <<>>, lane' = Tail(lane), NEW K
    PROVE  /\ IdsOf(lane', K) \subseteq IdsOf(lane, K)
           /\ Head(lane).k \in K => ToSet(Head(lane).ids) \subseteq IdsOf(lane, K)
<1>1. lane \in Seq(Jobs)
  BY DEF Shapes, TurnShape
<1>2. IdsOf(lane, K) = IdsOf(Tail(lane), K)
                         \cup (IF Head(lane).k \in K THEN ToSet(Head(lane).ids) ELSE {})
  BY <1>1, IdsTail
<1> QED
  BY <1>2

LEMMA EvqAdds ==
    ASSUME Shapes, NEW e \in Events, evq' = Append(evq, e), NEW K
    PROVE  IdsOf(evq', K) = IdsOf(evq, K) \cup (IF e.k \in K THEN ToSet(e.ids) ELSE {})
<1>1. evq \in Seq(Events)
  BY DEF Shapes, TurnShape
<1> QED
  BY <1>1, IdsAppend

LEMMA EvqPops ==
    ASSUME Shapes, evq # <<>>, evq' = Tail(evq), NEW K
    PROVE  /\ IdsOf(evq', K) \subseteq IdsOf(evq, K)
           /\ Head(evq).k \in K => ToSet(Head(evq).ids) \subseteq IdsOf(evq, K)
<1>1. evq \in Seq(Events)
  BY DEF Shapes, TurnShape
<1>2. IdsOf(evq, K) = IdsOf(Tail(evq), K)
                        \cup (IF Head(evq).k \in K THEN ToSet(Head(evq).ids) ELSE {})
  BY <1>1, IdsTail
<1> QED
  BY <1>2

LEMMA DistinctConcat ==
    ASSUME NEW X, NEW s \in Seq(X), NEW t \in Seq(X), Distinct(s), Distinct(t),
           ToSet(s) \cap ToSet(t) = {}
    PROVE  Distinct(s \o t)
<1> DEFINE w == s \o t
<1>1. /\ Len(s) \in Nat /\ Len(t) \in Nat /\ Len(w) = Len(s) + Len(t)
      /\ \A i \in 1..Len(w) : \/ i \in 1..Len(s) /\ w[i] = s[i]
                              \/ /\ i \in Int /\ ~(i <= Len(s)) /\ i - Len(s) \in 1..Len(t)
                                 /\ w[i] = t[i - Len(s)]
  OBVIOUS
<1> HIDE DEF w
<1>2. ASSUME NEW i \in 1..Len(w), NEW j \in 1..Len(w), w[i] = w[j] PROVE i = j
  <2>1. CASE i \in 1..Len(s) /\ w[i] = s[i] /\ j \in 1..Len(s) /\ w[j] = s[j]
    BY <1>2, <2>1 DEF Distinct
  <2>2. ASSUME NEW a \in 1..Len(s), NEW b \in 1..Len(t) PROVE s[a] # t[b]
    BY DEF ToSet
  <2>3. ASSUME i \in Int, j \in Int, i - Len(s) \in 1..Len(t), j - Len(s) \in 1..Len(t),
               w[i] = t[i - Len(s)], w[j] = t[j - Len(s)]
        PROVE  i = j
    <3>1. i - Len(s) = j - Len(s)
      BY <1>2, <2>3 DEF Distinct
    <3> QED
      BY <1>1, <2>3, <3>1
  <2> QED
    BY <1>1, <1>2, <2>1, <2>2, <2>3
<1>3. Distinct(w)
  BY <1>2 DEF Distinct
<1> QED
  BY <1>3 DEF w

\* A step that answers, shows and returns nothing and brings nothing new.
LEMMA SpentRests ==
    ASSUME SpentInv, UNCHANGED <<chat, sent, back>>, Fresh' \subseteq Fresh, Steering' \subseteq Steering,
           \A f \in Frames : pc'[f] = "stored" => pc[f] = "stored" /\ held'[f] = held[f],
           \A p \in Procs : pc'[p] = "dropped" =>
              \/ pc[p] = "dropped" /\ held'[p] = held[p]
              \/ held'[p] \cap ToSet(rows') = {} /\ held'[p] \cap IdsOf(lane', {"add"}) = {},
           ToSet(rows') \cup IdsOf(lane', {"add"}) \subseteq ToSet(rows) \cup IdsOf(lane, {"add"})
    PROVE  SpentInv'
<1>1. Answered' = Answered /\ Shown' = Shown /\ Paid' = Paid
  BY DEF Answered, Shown, Paid
<1>2. WaitsInv' /\ SteerInv' /\ OnceInv'
  BY <1>1 DEF SpentInv, WaitsInv, SteerInv, OnceInv
<1>3. StoredInv'
  BY <1>1 DEF SpentInv, StoredInv
<1>4. ReturnInv'
  BY DEF SpentInv, ReturnInv
<1> QED
  BY <1>2, <1>3, <1>4 DEF SpentInv

LEMMA JobSeat ==
    ASSUME Shapes, JobsFit, NEW i \in 1..Len(lane), lane[i].k \in {"send", "drop"}
    PROVE  lane[i].p \in Procs /\ ToSet(lane[i].ids) = Grip[lane[i].p]
<1>1. Fits(lane[i], pc, held) /\ Frames \subseteq Procs /\ Outside \subseteq Procs /\ Outside \cap Frames = {}
  BY QueueAssumption DEF JobsFit, Procs, Outside
<1> DEFINE p == lane[i].p
<1>2. CASE lane[i].k = "send"
  <2>1. p \in Frames /\ pc[p] = "storing" /\ ToSet(lane[i].ids) = held[p] \cup {Of[p]}
    BY <1>1, <1>2 DEF Fits
  <2> HIDE DEF p
  <2>2. p \in Procs /\ Own(p) = {Of[p]}
    BY <1>1, <2>1 DEF Own
  <2>3. ToSet(lane[i].ids) = Grip[p]
    BY <2>1, <2>2 DEF Grip
  <2> QED
    BY <2>2, <2>3 DEF p
<1>3. CASE lane[i].k = "drop"
  <2>1. p \in Outside /\ ToSet(lane[i].ids) = held[p]
    BY <1>1, <1>3 DEF Fits
  <2> HIDE DEF p
  <2>2. p \in Procs /\ Own(p) = {}
    BY <1>1, <2>1 DEF Own
  <2>3. ToSet(lane[i].ids) = Grip[p]
    BY <2>1, <2>2 DEF Grip
  <2> QED
    BY <2>2, <2>3 DEF p
<1> QED
  BY <1>2, <1>3

\* What the job at the head of the lane carries is on no job behind it.
LEMMA HeadLeaves ==
    ASSUME Shapes, JobsFit, ListInv, OneSeat, lane # <<>>, lane' = Tail(lane),
           Head(lane).k \in {"accept", "turn", "steer", "send", "drop"}
    PROVE  ToSet(Head(lane).ids) \cap IdsOf(lane', JobKinds \ {"end"}) = {}
<1>1. /\ lane \in Seq(Jobs) /\ Head(lane) = lane[1] /\ 1 \in 1..Len(lane)
      /\ \A i \in 1..Len(lane') : i + 1 \in 1..Len(lane) /\ i + 1 # 1 /\ lane'[i] = lane[i + 1]
  BY HeadJob DEF Shapes, TurnShape
<1>2. SUFFICES ASSUME NEW n \in 1..Len(lane), n # 1, lane[n].k \in JobKinds \ {"end"}
               PROVE  ToSet(lane[1].ids) \cap ToSet(lane[n].ids) = {}
  <2>1. \A i \in 1..Len(lane') : lane'[i].k \in JobKinds \ {"end"}
          => ToSet(lane[1].ids) \cap ToSet(lane'[i].ids) = {}
    BY <1>1, <1>2
  <2> QED
    BY <1>1, <2>1, IdsMember
<1>3. \A i \in 1..Len(lane) : lane[i].k \in Carry => ToSet(lane[i].ids) \subseteq InCarry
  BY IdsMember DEF InCarry
<1>4. \A i \in 1..Len(lane) : lane[i].k \in {"send", "drop"}
        => lane[i].p \in Procs /\ ToSet(lane[i].ids) = Grip[lane[i].p]
  BY JobSeat
<1>5. /\ \A p \in Procs : Grip[p] \cap InCarry = {}
      /\ \A p, q \in Procs : p # q => Grip[p] \cap Grip[q] = {}
      /\ Apart(lane, Carry)
  BY DEF OneSeat, Seats
<1>6. CASE lane[n].k = "add"
  <2>1. lane[1].k # "add" /\ ~(n < 1)
    BY <1>1
  <2>2. AddsFirst(lane)
    BY DEF ListInv
  <2> QED
    BY <1>1, <1>6, <2>1, <2>2 DEF AddsFirst
<1>7. CASE lane[1].k \in Carry /\ lane[n].k \in Carry
  BY <1>1, <1>2, <1>5, <1>7 DEF Apart
<1>8. CASE (lane[1].k \in Carry /\ lane[n].k \in {"send", "drop"})
           \/ (lane[n].k \in Carry /\ lane[1].k \in {"send", "drop"})
  BY <1>1, <1>3, <1>4, <1>5, <1>8
<1>9. CASE lane[1].k \in {"send", "drop"} /\ lane[n].k \in {"send", "drop"}
  <2>1. lane[1].p # lane[n].p
    BY <1>1, <1>2, <1>9 DEF JobsFit, OfProc
  <2> QED
    BY <1>1, <1>4, <1>5, <1>9, <2>1
<1> QED
  BY <1>1, <1>2, <1>6, <1>7, <1>8, <1>9 DEF Carry, JobKinds

LEMMA PlacesKept ==
    ASSUME Shapes, Moved, NEW l \in {"steered", "stored", "dropped"}, NEW p \in Procs, pc'[p] = l
    PROVE  pc[p] = l /\ held'[p] = held[p]
<1>a. /\ pc \in [Procs -> Places] /\ held \in [Procs -> SUBSET Msgs]
      /\ Outside \subseteq Procs /\ Tasks \subseteq Procs
  BY DEF Shapes, ProcShape, Outside, Procs
<1>b. \A q \in Procs : \A to : Goto(q, to) => pc'[q] = to /\ \A r \in Procs \ {q} : pc'[r] = pc[r]
  BY <1>a DEF Goto
<1>c. \A q \in Procs : \A S : held' = [held EXCEPT ![q] = S] => \A r \in Procs \ {q} : held'[r] = held[r]
  BY <1>a
<1>d. ASSUME NEW q \in Procs, NEW to, Goto(q, to), to # l,
             UNCHANGED held \/ \E S : held' = [held EXCEPT ![q] = S]
      PROVE  pc[p] = l /\ held'[p] = held[p]
  <2>1. p # q
    BY <1>b, <1>d
  <2> QED
    BY <1>b, <1>c, <1>d, <2>1
<1>e. UNCHANGED <<pc, held>> => pc[p] = l /\ held'[p] = held[p]
  OBVIOUS
<1>1. CASE Rests
  <2>1. ASSUME NEW q \in Procs, NEW to, Calm(q, to), Goto(q, to) PROVE pc[p] = l /\ held'[p] = held[p]
    <3>1. to # l /\ UNCHANGED held
      BY <1>1, <2>1 DEF Calm, Rests
    <3> QED
      BY <1>d, <2>1, <3>1
  <2> QED
    BY <1>1, <1>e, <2>1 DEF Rests
<1>2. CASE Ended
  BY <1>2, <1>e DEF Ended
<1>3. ASSUME NEW q \in Outside, NEW S \in SUBSET items, Takes(q, S) PROVE pc[p] = l /\ held'[p] = held[p]
  <2>1. q \in Procs /\ held' = [held EXCEPT ![q] = S] /\ pc[q] \notin {"steered", "stored", "dropped"}
    BY <1>3, <1>a DEF Takes
  <2>2. CASE \E to \in {"starting", "letgo", "abort", "dropping"} : Goto(q, to)
    BY <1>d, <2>1, <2>2
  <2>3. CASE UNCHANGED pc
    <3>1. p # q
      BY <2>1, <2>3
    <3> QED
      BY <1>c, <2>1, <2>3, <3>1
  <2> QED
    BY <1>3, <2>2, <2>3 DEF Takes
<1>4. ASSUME NEW t \in Tasks, Gates(t) PROVE pc[p] = l /\ held'[p] = held[p]
  <2>1. t \in Procs /\ Goto(t, "dropping") /\ UNCHANGED held
    BY <1>4, <1>a DEF Gates
  <2> QED
    BY <1>d, <2>1
<1>5. ASSUME NEW q \in Outside, Defers(q) \/ Launched(q) PROVE pc[p] = l /\ held'[p] = held[p]
  <2>1. q \in Procs /\ Goto(q, "off") /\ held' = [held EXCEPT ![q] = {}]
    BY <1>5, <1>a DEF Defers, Launched
  <2> QED
    BY <1>d, <2>1
<1>6. ASSUME NEW q \in Procs, LetsGo(q) PROVE pc[p] = l /\ held'[p] = held[p]
  <2>1. held' = [held EXCEPT ![q] = {}] /\ \E to \in {"done", "letgo", "off"} : Goto(q, to)
    BY <1>6 DEF LetsGo
  <2> QED
    BY <1>d, <2>1
<1> QED
  BY <1>1, <1>2, <1>3, <1>4, <1>5, <1>6 DEF Moved

LEMMA FreshMoves ==
    ASSUME Shapes, NumInv, Moved, UNCHANGED fixed
    PROVE  Fresh' \subseteq Fresh
<1> DEFINE R == IdsOf(lane, Rowed)
           T == IdsOf(evq, {"turn"})
           Known == ToSet(rows) \cup ToSet(snap)
<1>a. /\ lane \in Seq(Jobs) /\ held \in [Procs -> SUBSET Msgs] /\ items \subseteq Numbered
      /\ items \subseteq Msgs /\ \A p \in Procs : held[p] \subseteq Numbered
      /\ Outside \subseteq Procs /\ Tasks \subseteq Outside
      /\ "drop" \in Rowed /\ "accept" \in Rowed /\ "steer" \notin Rowed
  BY DEF Shapes, TurnShape, ProcShape, QueueShape, NumInv, Outside, Procs, Rowed
<1>b. Known' = Known
  BY DEF fixed
<1>c. Fresh = items \cup Known \cup R \cup T \cup Drawn
      /\ Fresh' = items' \cup Known' \cup R' \cup T' \cup Drawn'
  BY DEF Fresh
<1>d. (UNCHANGED lane => R' = R) /\ (UNCHANGED evq => T' = T) /\ (UNCHANGED held => Drawn' = Drawn)
  BY DEF Drawn
<1>e. evq' = <<>> => T' = {}
  BY IdsEmpty
<1>f. \A p \in Outside : held[p] \subseteq Drawn
  BY <1>a DEF Drawn
<1>g. ASSUME NEW p \in Procs, NEW S, held' = [held EXCEPT ![p] = S] PROVE Drawn' \subseteq Drawn \cup S
  BY <1>a, <1>g DEF Drawn
<1>h. ASSUME NEW p \in Procs, NEW S, S \subseteq Numbered, lane' = Append(lane, Job("drop", InOrder(S), p))
      PROVE  R' = R \cup S
  <2> DEFINE j == Job("drop", InOrder(S), p)
  <2>1. j \in Jobs /\ j.k = "drop" /\ ToSet(j.ids) = S /\ lane' = Append(lane, j)
    BY <1>h, DropJob
  <2> HIDE DEF j
  <2> QED
    BY <1>a, <2>1, LaneAdds
<1> HIDE DEF R, T, Known
<1>1. CASE Rests
  <2>1. T' = T
    BY <1>1, MuteIs DEF Rests, T
  <2> QED
    BY <1>1, <1>b, <1>c, <1>d, <2>1 DEF Rests
<1>2. CASE Ended
  <2>1. PICK tl \in Seq(Jobs) :
           lane' = lane \o tl /\ \A K : IdsOf(tl, K) = IF "steer" \in K THEN IdsOf(evq, {"steer"}) ELSE {}
    BY <1>2, LoopEndsIs DEF Ended
  <2>2. IdsOf(lane \o tl, Rowed) = IdsOf(lane, Rowed) \cup IdsOf(tl, Rowed)
    BY <1>a, IdsConcat
  <2>3. R' = R
    BY <1>a, <2>1, <2>2 DEF R
  <2>4. evq' = <<>>
    BY <1>2, LoopEndsIs DEF Ended
  <2> QED
    BY <1>2, <1>b, <1>c, <1>d, <1>e, <2>3, <2>4 DEF Ended
<1>3. ASSUME NEW p \in Outside, NEW S \in SUBSET items, Takes(p, S) PROVE Fresh' \subseteq Fresh
  <2>1. p \in Procs /\ S \subseteq Numbered
    BY <1>a
  <2>2. Drawn' \subseteq Drawn \cup S /\ items' \subseteq items /\ T' = T
    BY <1>3, <1>d, <1>g, <2>1 DEF Takes
  <2>3. R' \subseteq R \cup S
    BY <1>3, <1>d, <1>h, <2>1 DEF Takes
  <2> QED
    BY <1>b, <1>c, <2>2, <2>3
<1>4. ASSUME NEW t \in Tasks, Gates(t) PROVE Fresh' \subseteq Fresh
  <2>1. t \in Procs /\ held[t] \subseteq Numbered /\ held[t] \subseteq Drawn
    BY <1>a, <1>f
  <2>2. R' = R \cup held[t]
    BY <1>4, <1>h, <2>1 DEF Gates
  <2> QED
    BY <1>4, <1>b, <1>c, <1>d, <2>1, <2>2 DEF Gates
<1>5. ASSUME NEW p \in Outside, Defers(p) PROVE Fresh' \subseteq Fresh
  <2>1. p \in Procs /\ held[p] \subseteq Drawn /\ held' = [held EXCEPT ![p] = {}]
    BY <1>5, <1>a, <1>f DEF Defers
  <2>2. Drawn' \subseteq Drawn \cup {}
    BY <1>g, <2>1
  <2> QED
    BY <1>5, <1>b, <1>c, <1>d, <2>1, <2>2 DEF Defers, PutBack
<1>6. ASSUME NEW p \in Outside, Launched(p) PROVE Fresh' \subseteq Fresh
  <2>1. p \in Procs /\ held[p] \subseteq Drawn /\ held' = [held EXCEPT ![p] = {}]
    BY <1>6, <1>a, <1>f DEF Launched
  <2>2. Drawn' \subseteq Drawn \cup {}
    BY <1>g, <2>1
  <2>3. R' = R \cup held[p]
    BY <1>6, <1>a, LaneAdds DEF Launched, R
  <2> QED
    BY <1>6, <1>b, <1>c, <1>e, <2>1, <2>2, <2>3 DEF Launched
<1>7. ASSUME NEW p \in Procs, LetsGo(p) PROVE Fresh' \subseteq Fresh
  <2>1. Drawn' \subseteq Drawn \cup {}
    BY <1>7, <1>g DEF LetsGo
  <2> QED
    BY <1>7, <1>b, <1>c, <1>d, <2>1 DEF LetsGo
<1> QED
  BY <1>1, <1>2, <1>3, <1>4, <1>5, <1>6, <1>7 DEF Moved

\* What a step that only moves messages leaves on the lane and in the event queue.
LEMMA SteeringMoves ==
    ASSUME Shapes, NumInv, Moved
    PROVE  Steering' \subseteq Steering /\ IdsOf(lane', {"add"}) \subseteq IdsOf(lane, {"add"})
<1> DEFINE L == IdsOf(lane, {"steer"})
           A == IdsOf(lane, {"add"})
           E == IdsOf(evq, {"steer"})
<1>a. /\ lane \in Seq(Jobs) /\ items \subseteq Numbered /\ \A p \in Procs : held[p] \subseteq Numbered
      /\ Outside \subseteq Procs /\ Tasks \subseteq Procs /\ Frames \subseteq Procs
  BY DEF Shapes, TurnShape, NumInv, Outside, Procs
<1>b. Taken' \subseteq Taken
  BY <1>a, PlacesKept DEF Taken
<1>c. Steering = L \cup E \cup Taken /\ Steering' = L' \cup E' \cup Taken'
  BY DEF Steering
<1>d. (UNCHANGED lane => L' = L /\ A' = A) /\ (UNCHANGED evq => E' = E)
  OBVIOUS
<1>e. evq' = <<>> => E' = {}
  BY IdsEmpty
<1>f. ASSUME NEW j \in Jobs, lane' = Append(lane, j), j.k \in {"drop", "accept"}
      PROVE  L' = L /\ A' = A
  <2>1. /\ L' = L \cup (IF j.k \in {"steer"} THEN ToSet(j.ids) ELSE {})
        /\ A' = A \cup (IF j.k \in {"add"} THEN ToSet(j.ids) ELSE {})
    BY <1>f, LaneAdds
  <2> QED
    BY <1>f, <2>1
<1>g. ASSUME NEW p \in Procs, NEW S, S \subseteq Numbered, lane' = Append(lane, Job("drop", InOrder(S), p))
      PROVE  L' = L /\ A' = A
  <2> DEFINE j == Job("drop", InOrder(S), p)
  <2>1. j \in Jobs /\ j.k = "drop" /\ lane' = Append(lane, j)
    BY <1>g, DropJob
  <2> HIDE DEF j, L, A
  <2> QED
    BY <1>f, <2>1
<1> HIDE DEF L, A, E
<1>h. (L' \subseteq L \cup E /\ A' \subseteq A /\ E' \subseteq E)
        => Steering' \subseteq Steering /\ A' \subseteq A
  BY <1>b, <1>c
<1>1. CASE Rests
  <2>1. E' = E
    BY <1>1, MuteIs DEF Rests, E
  <2> QED
    BY <1>1, <1>d, <1>h, <2>1 DEF Rests, A
<1>2. CASE Ended
  <2>1. PICK tl \in Seq(Jobs) :
           lane' = lane \o tl /\ \A K : IdsOf(tl, K) = IF "steer" \in K THEN IdsOf(evq, {"steer"}) ELSE {}
    BY <1>2, LoopEndsIs DEF Ended
  <2>2. \A K : IdsOf(lane \o tl, K) = IdsOf(lane, K) \cup IdsOf(tl, K)
    BY <1>a, IdsConcat
  <2>3. IdsOf(tl, {"steer"}) = E /\ IdsOf(tl, {"add"}) = {}
    BY <2>1 DEF E
  <2>4. L' = L \cup E /\ A' = A
    BY <2>1, <2>2, <2>3 DEF L, A
  <2>5. evq' = <<>>
    BY <1>2, LoopEndsIs DEF Ended
  <2> QED
    BY <1>e, <1>h, <2>4, <2>5 DEF A
<1>3. ASSUME NEW p \in Outside, NEW S \in SUBSET items, Takes(p, S)
      PROVE  Steering' \subseteq Steering /\ A' \subseteq A
  <2>1. p \in Procs /\ S \subseteq Numbered
    BY <1>a
  <2>2. L' = L /\ A' = A /\ E' = E
    BY <1>3, <1>d, <1>g, <2>1 DEF Takes
  <2> QED
    BY <1>h, <2>2
<1>4. ASSUME NEW t \in Tasks, Gates(t) PROVE Steering' \subseteq Steering /\ A' \subseteq A
  <2>1. L' = L /\ A' = A /\ E' = E
    BY <1>4, <1>a, <1>d, <1>g DEF Gates
  <2> QED
    BY <1>h, <2>1
<1>5. ASSUME NEW p \in Outside, Defers(p) PROVE Steering' \subseteq Steering /\ A' \subseteq A
  BY <1>5, <1>d, <1>h DEF Defers
<1>6. ASSUME NEW p \in Outside, Launched(p) PROVE Steering' \subseteq Steering /\ A' \subseteq A
  <2>1. L' = L /\ A' = A
    BY <1>6, <1>f DEF Launched
  <2> QED
    BY <1>6, <1>e, <1>h, <2>1 DEF Launched
<1>7. ASSUME NEW p \in Procs, LetsGo(p) PROVE Steering' \subseteq Steering /\ A' \subseteq A
  BY <1>7, <1>d, <1>h DEF LetsGo
<1> QED
  BY <1>1, <1>2, <1>3, <1>4, <1>5, <1>6, <1>7 DEF Moved, A

LEMMA SpentMoves ==
    ASSUME Shapes, NumInv, SpentInv, Moved, UNCHANGED fixed
    PROVE  SpentInv'
<1>1. UNCHANGED <<chat, sent, back, rows>>
  BY DEF fixed
<1>2. Fresh' \subseteq Fresh
  BY FreshMoves
<1>3. Steering' \subseteq Steering /\ IdsOf(lane', {"add"}) \subseteq IdsOf(lane, {"add"})
  BY SteeringMoves
<1>4. /\ \A f \in Frames : pc'[f] = "stored" => pc[f] = "stored" /\ held'[f] = held[f]
      /\ \A p \in Procs : pc'[p] = "dropped" => pc[p] = "dropped" /\ held'[p] = held[p]
  <2>1. Frames \subseteq Procs
    BY DEF Procs
  <2> QED
    BY <2>1, PlacesKept
<1> QED
  BY <1>1, <1>2, <1>3, <1>4, SpentRests

\* The engine gets messages it has not got.
LEMMA ToEngineIs ==
    ASSUME Shapes, NEW ids, ToSet(ids) \subseteq Msgs, ToEngine(ids)
    PROVE  /\ Answered' = Answered \cup ToSet(ids)
           /\ (\A m \in Msgs : sent[m] <= 1) /\ ToSet(ids) \cap Answered = {}
                 => \A m \in Msgs : sent'[m] <= 1
<1> DEFINE S == ToSet(ids)
<1>1. sent \in [Msgs -> Nat] /\ S \subseteq Msgs
  BY DEF Shapes, FateShape
<1>2. sent' = [m \in Msgs |-> IF m \in S THEN sent[m] + 1 ELSE sent[m]]
  BY DEF ToEngine
<1> HIDE DEF S
<1>3. \A m \in Msgs : /\ m \in S => sent'[m] = sent[m] + 1 /\ sent[m] + 1 # 0
                      /\ m \notin S => sent'[m] = sent[m]
  BY <1>1, <1>2
<1>4. Answered' = Answered \cup S
  BY <1>1, <1>3 DEF Answered
<1>5. ASSUME \A m \in Msgs : sent[m] <= 1, S \cap Answered = {}, NEW m \in Msgs PROVE sent'[m] <= 1
  <2>1. CASE m \in S
    <3>1. sent[m] = 0
      BY <1>5, <2>1 DEF Answered
    <3> QED
      BY <1>3, <2>1, <3>1
  <2> QED
    BY <1>3, <1>5, <2>1
<1> QED
  BY <1>4, <1>5 DEF S

\* A step that writes rows of the chat.
LEMMA SpentShows ==
    ASSUME Shapes, SpentInv, NEW s \in Seq(Msgs), chat' = chat \o s, Distinct(s), UNCHANGED back,
           ToSet(s) \cap Shown = {}, ToSet(s) \cap Fresh' = {}, ToSet(s) \cap Steering' = {},
           Fresh' \subseteq Fresh, Steering' \subseteq Steering,
           Answered \subseteq Answered', Answered' \subseteq Answered \cup ToSet(s),
           \A m \in Msgs : sent'[m] <= 1,
           \A f \in Frames : pc'[f] = "stored" =>
              \/ pc[f] = "stored" /\ held'[f] = held[f] /\ ToSet(s) \cap (held[f] \cup {Of[f]}) = {}
              \/ Answered' = Answered /\ ToSet(s) \cap Answered = {} /\ held'[f] \cup {Of[f]} = ToSet(s),
           \A p \in Procs : pc'[p] = "dropped" => pc[p] = "dropped" /\ held'[p] = held[p],
           ToSet(rows') \subseteq ToSet(rows), IdsOf(lane', {"add"}) \subseteq IdsOf(lane, {"add"})
    PROVE  SpentInv'
<1> DEFINE S == ToSet(s)
<1>1. chat \in Seq(Msgs) /\ WaitsInv /\ SteerInv /\ StoredInv /\ ReturnInv /\ OnceInv
  BY DEF Shapes, TableShape, SpentInv
<1>2. ToSet(chat') = ToSet(chat) \cup S /\ ToSet(chat) \cap S = {}
  BY <1>1, ConcatSet DEF Shown
<1>3. Distinct(chat')
  BY <1>1, <1>2, DistinctConcat DEF OnceInv
<1> HIDE DEF S
<1>4. S \cap Shown = {} /\ S \cap Fresh' = {} /\ S \cap Steering' = {} /\ Answered' \subseteq Answered \cup S
  BY DEF S
<1>5. Shown' = Shown \cup S /\ back \cap S = {}
  BY <1>2, <1>4 DEF Shown
<1>6. Paid' \subseteq Paid \cup S
  BY <1>4, <1>5 DEF Paid
<1>7. WaitsInv'
  <2>1. Paid' \cap Fresh' = {}
    BY <1>1, <1>4, <1>6 DEF WaitsInv
  <2>2. back' \cap (Answered' \cup ToSet(chat')) = {}
    BY <1>1, <1>2, <1>4, <1>5 DEF WaitsInv
  <2> QED
    BY <2>1, <2>2 DEF WaitsInv
<1>8. SteerInv'
  BY <1>1, <1>4, <1>5 DEF SteerInv
<1>9. StoredInv'
  <2>1. ASSUME NEW f \in Frames, pc[f] = "stored", held'[f] = held[f], S \cap (held[f] \cup {Of[f]}) = {}
        PROVE  /\ held'[f] \cup {Of[f]} \subseteq ToSet(chat')
               /\ (held'[f] \cup {Of[f]}) \cap Answered' = {}
    <3>1. /\ held[f] \cup {Of[f]} \subseteq ToSet(chat) /\ (held[f] \cup {Of[f]}) \cap Answered = {}
      BY <1>1, <2>1 DEF StoredInv
    <3> QED
      BY <1>2, <1>4, <2>1, <3>1
  <2>2. ASSUME NEW f \in Frames, Answered' = Answered, S \cap Answered = {}, held'[f] \cup {Of[f]} = S
        PROVE  /\ held'[f] \cup {Of[f]} \subseteq ToSet(chat')
               /\ (held'[f] \cup {Of[f]}) \cap Answered' = {}
    BY <1>2, <2>2
  <2> QED
    BY <2>1, <2>2 DEF StoredInv, S
<1>10. ReturnInv'
  BY <1>1 DEF ReturnInv
<1> QED
  BY <1>3, <1>7, <1>8, <1>9, <1>10 DEF SpentInv, OnceInv

\* What the lane takes to the chat is nowhere else.
LEMMA HeadApart ==
    ASSUME Shapes, JobsFit, ListInv, QuietInv, OneSeat, lane # <<>>, lane' = Tail(lane),
           Head(lane).k \in {"accept", "turn", "steer", "send"},
           UNCHANGED <<items, held, snap>>, \A K : IdsOf(evq', K) = IdsOf(evq, K),
           \A f \in Frames : pc'[f] = "steered" => pc[f] = "steered",
           NEW S, S \subseteq ToSet(Head(lane).ids), ToSet(rows') \cap S = {}
    PROVE  /\ S \cap Fresh' = {} /\ S \cap Steering' = {}
           /\ \A f \in Frames : pc[f] = "stored" => S \cap (held[f] \cup {Of[f]}) = {}
<1> DEFINE j == Head(lane)
<1>a. j = lane[1] /\ 1 \in 1..Len(lane) /\ j \in Jobs
  BY HeadJob
<1>b. Frames \subseteq Procs /\ Outside \subseteq Procs /\ Outside \cap Frames = {}
  BY QueueAssumption DEF Procs, Outside
<1>c. /\ items \cap InEvq = {} /\ items \cap InCarry = {} /\ InEvq \cap InCarry = {}
      /\ \A p \in Procs : Grip[p] \cap items = {} /\ Grip[p] \cap InEvq = {} /\ Grip[p] \cap InCarry = {}
      /\ \A p, q \in Procs : p # q => Grip[p] \cap Grip[q] = {}
  BY DEF OneSeat, Seats
<1>d. \A p \in Procs : Grip[p] = held[p] \cup Own(p)
  BY DEF Grip
<1>1. \/ S \subseteq InCarry
      \/ \E p \in Frames : pc[p] = "storing" /\ S \subseteq Grip[p]
  <2>1. CASE j.k \in Carry
    BY <1>a, <2>1, IdsIn DEF InCarry
  <2>2. CASE j.k = "send"
    <3>1. j.p \in Frames /\ pc[j.p] = "storing"
      BY <1>a, <2>2 DEF JobsFit, Fits
    <3>2. S \subseteq Grip[j.p]
      BY <1>a, <2>2, JobSeat
    <3> QED
      BY <3>1, <3>2
  <2> QED
    BY <2>1, <2>2 DEF Carry
<1>2. S \cap items = {} /\ S \cap InEvq = {}
  BY <1>1, <1>b, <1>c
<1>3. \A q \in Procs : q \notin Frames \/ pc[q] # "storing" => S \cap Grip[q] = {}
  BY <1>1, <1>b, <1>c
<1>4. S \cap IdsOf(lane', Rowed) = {} /\ S \cap IdsOf(lane', {"steer"}) = {}
  <2>1. ToSet(j.ids) \cap IdsOf(lane', JobKinds \ {"end"}) = {}
    BY HeadLeaves
  <2>2. Rowed \subseteq JobKinds \ {"end"} /\ {"steer"} \subseteq JobKinds \ {"end"}
    BY DEF Rowed, JobKinds
  <2>3. /\ IdsOf(lane', Rowed) \subseteq IdsOf(lane', JobKinds \ {"end"})
        /\ IdsOf(lane', {"steer"}) \subseteq IdsOf(lane', JobKinds \ {"end"})
    BY <2>2, IdsMono
  <2> QED
    BY <2>1, <2>3
<1>5. S \cap IdsOf(evq', {"turn"}) = {} /\ S \cap IdsOf(evq', {"steer"}) = {}
  <2>1. {"turn"} \subseteq EventKinds /\ {"steer"} \subseteq EventKinds
    BY DEF EventKinds
  <2>2. IdsOf(evq, {"turn"}) \subseteq InEvq /\ IdsOf(evq, {"steer"}) \subseteq InEvq
    BY <2>1, IdsMono DEF InEvq
  <2> QED
    BY <1>2, <2>2
<1>6. S \cap Drawn' = {}
  BY <1>3, <1>b, <1>d DEF Drawn
<1>7. S \cap ToSet(snap') = {}
  <2>1. CASE S = {}
    BY <2>1
  <2>2. CASE S # {}
    <3>1. S \subseteq InLane
      BY LaneHead
    <3>2. ld = "yes"
      BY <2>2, <3>1 DEF QuietInv, Afoot
    <3>3. snap' = <<>>
      BY <3>2 DEF QuietInv
    <3> QED
      BY <3>3 DEF ToSet
  <2> QED
    BY <2>1, <2>2
<1>8. ASSUME NEW f \in Frames, pc[f] \in {"steered", "stored"} PROVE S \cap (held[f] \cup {Of[f]}) = {}
  <2>1. f \in Procs /\ Own(f) = {Of[f]}
    BY <1>8, <1>b DEF Own
  <2> QED
    BY <1>3, <1>8, <1>d, <2>1
<1>9. S \cap Taken' = {}
  BY <1>8 DEF Taken
<1>10. S \cap Fresh' = {}
  BY <1>2, <1>4, <1>5, <1>6, <1>7 DEF Fresh
<1>11. S \cap Steering' = {}
  BY <1>4, <1>5, <1>9 DEF Steering
<1> QED
  BY <1>8, <1>10, <1>11

\* A step that answers, shows and returns nothing and brings M to where messages wait.
LEMMA SpentBrings ==
    ASSUME SpentInv, UNCHANGED <<chat, sent, back>>, NEW M, M \cap Paid = {},
           Fresh' \subseteq Fresh \cup M, Steering' \subseteq Steering,
           \A f \in Frames : pc'[f] = "stored" => pc[f] = "stored" /\ held'[f] = held[f],
           \A p \in Procs : pc'[p] = "dropped" =>
              pc[p] = "dropped" /\ held'[p] = held[p] /\ held[p] \cap M = {},
           ToSet(rows') \subseteq ToSet(rows), IdsOf(lane', {"add"}) \subseteq IdsOf(lane, {"add"}) \cup M
    PROVE  SpentInv'
<1>1. Answered' = Answered /\ Shown' = Shown /\ Paid' = Paid
  BY DEF Answered, Shown, Paid
<1>2. WaitsInv' /\ SteerInv' /\ OnceInv'
  BY <1>1 DEF SpentInv, WaitsInv, SteerInv, OnceInv
<1>3. StoredInv'
  BY <1>1 DEF SpentInv, StoredInv
<1>4. ReturnInv'
  BY DEF SpentInv, ReturnInv
<1> QED
  BY <1>2, <1>3, <1>4 DEF SpentInv

LEMMA SpentLoads ==
    ASSUME Shapes, SpentInv, LoadRead \/ LoadEnd \/ (\E a \in Authors : Revoke(a)) \/ RevokeEnds
    PROVE  SpentInv'
<1>1. UNCHANGED <<chat, sent, back, lane, evq, pc, held>>
  BY DEF LoadRead, LoadEnd, Revoke, RevokeEnds, tables, turn, procs, fates
<1>2. ToSet(rows') \subseteq ToSet(rows)
  <2>1. ASSUME NEW a \in Authors, Revoke(a) PROVE ToSet(rows') \subseteq ToSet(rows)
    <3> DEFINE S == {m \in Msgs : Author[m] = a}
    <3>1. rows' = Without(rows, S) /\ rows \in Seq(Msgs)
      BY <2>1 DEF Revoke, Shapes, TableShape
    <3> HIDE DEF S
    <3> QED
      BY <3>1, WithoutIs
  <2> QED
    BY <2>1 DEF LoadRead, LoadEnd, RevokeEnds, tables
<1>3. items' \cup ToSet(snap') \subseteq items \cup ToSet(snap) \cup ToSet(rows)
  <2>1. CASE LoadRead
    BY <2>1 DEF LoadRead, queue
  <2>2. CASE LoadEnd
    <3>1. items' \subseteq items \cup ToSet(snap)
      BY <2>2, LoadsIs
    <3>2. ToSet(snap') = {}
      BY <2>2, SoleId DEF LoadEnd
    <3> QED
      BY <3>1, <3>2
  <2>3. CASE (\E a \in Authors : Revoke(a)) \/ RevokeEnds
    BY <2>3 DEF Revoke, RevokeEnds, queue, loading
  <2> QED
    BY <2>1, <2>2, <2>3
<1>4. Fresh' \subseteq Fresh /\ Steering' \subseteq Steering
  BY <1>1, <1>2, <1>3 DEF Fresh, Drawn, Steering, Taken
<1> QED
  BY <1>1, <1>2, <1>4, SpentRests

LEMMA SpentTurns ==
    ASSUME Shapes, NumInv, SpentInv, (TurnEnds /\ items' # items) \/ PumpAccepts
    PROVE  SpentInv'
<1>a. "turn" \in Rowed /\ "steer" \notin Rowed
  BY DEF Rowed
<1>1. UNCHANGED <<chat, sent, back, rows, snap, pc, held>>
  BY TurnEndsIs, PumpAcceptsIs
<1>2. Drawn' = Drawn /\ Taken' = Taken
  BY <1>1 DEF Drawn, Taken
<1>3. CASE TurnEnds /\ items' # items
  <2>1. PICK S \in SUBSET items : \E e \in Events :
           items' = items \ S /\ evq' = Append(evq, e) /\ e.k = "turn" /\ ToSet(e.ids) = S
    BY <1>3, TurnEndsIs
  <2>2. /\ IdsOf(evq', {"turn"}) = IdsOf(evq, {"turn"}) \cup S
        /\ IdsOf(evq', {"steer"}) = IdsOf(evq, {"steer"})
    BY <2>1, EvqAdds
  <2>3. UNCHANGED lane /\ items' \cup S \subseteq items
    BY <1>3, <2>1, TurnEndsIs
  <2>4. Fresh' \subseteq Fresh /\ Steering' \subseteq Steering
    BY <1>1, <1>2, <2>2, <2>3 DEF Fresh, Steering
  <2> QED
    BY <1>1, <2>3, <2>4, SpentRests
<1>4. CASE PumpAccepts
  <2>1. evq # <<>> /\ evq' = Tail(evq) /\ Head(evq).k \in {"turn", "steer"} /\ UNCHANGED items
    BY <1>4, PumpAcceptsIs
  <2>2. PICK j \in Jobs : lane' = Append(lane, j) /\ j.k = Head(evq).k /\ j.ids = Head(evq).ids
    BY <1>4, PumpAcceptsIs
  <2>3. \A K : /\ IdsOf(evq', K) \subseteq IdsOf(evq, K)
               /\ Head(evq).k \in K => ToSet(Head(evq).ids) \subseteq IdsOf(evq, K)
    BY <2>1, EvqPops
  <2>4. \A K : IdsOf(lane', K) = IdsOf(lane, K) \cup (IF j.k \in K THEN ToSet(j.ids) ELSE {})
    BY <2>2, LaneAdds
  <2>5. /\ IdsOf(lane', Rowed) \cup IdsOf(evq', {"turn"})
             \subseteq IdsOf(lane, Rowed) \cup IdsOf(evq, {"turn"})
        /\ IdsOf(lane', {"steer"}) \cup IdsOf(evq', {"steer"})
             \subseteq IdsOf(lane, {"steer"}) \cup IdsOf(evq, {"steer"})
        /\ IdsOf(lane', {"add"}) = IdsOf(lane, {"add"})
    <3>1. /\ IdsOf(lane', Rowed) = IdsOf(lane, Rowed) \cup (IF j.k \in Rowed THEN ToSet(j.ids) ELSE {})
          /\ IdsOf(lane', {"steer"})
               = IdsOf(lane, {"steer"}) \cup (IF j.k \in {"steer"} THEN ToSet(j.ids) ELSE {})
          /\ IdsOf(lane', {"add"})
               = IdsOf(lane, {"add"}) \cup (IF j.k \in {"add"} THEN ToSet(j.ids) ELSE {})
      BY <2>4
    <3>2. /\ IdsOf(evq', {"turn"}) \subseteq IdsOf(evq, {"turn"})
          /\ IdsOf(evq', {"steer"}) \subseteq IdsOf(evq, {"steer"})
          /\ Head(evq).k \in {"turn"} => ToSet(Head(evq).ids) \subseteq IdsOf(evq, {"turn"})
          /\ Head(evq).k \in {"steer"} => ToSet(Head(evq).ids) \subseteq IdsOf(evq, {"steer"})
      BY <2>3
    <3>3. j.k \in {"turn", "steer"} /\ ToSet(j.ids) = ToSet(Head(evq).ids)
      BY <2>1, <2>2
    <3>4. CASE j.k = "turn"
      BY <1>a, <2>2, <3>1, <3>2, <3>4
    <3>5. CASE j.k = "steer"
      BY <1>a, <2>2, <3>1, <3>2, <3>5
    <3> QED
      BY <3>3, <3>4, <3>5
  <2>6. Fresh' \subseteq Fresh /\ Steering' \subseteq Steering
    BY <1>1, <1>2, <2>1, <2>5 DEF Fresh, Steering
  <2> QED
    BY <1>1, <2>5, <2>6, SpentRests
<1> QED
  BY <1>3, <1>4

LEMMA SpentSteers ==
    ASSUME SentOnce, Shapes, PreInv, SpentInv, NEW f \in Frames, Steered(f) \/ RecordSteer(f)
    PROVE  SpentInv'
<1>a. /\ Frames \subseteq Procs /\ Of[f] \in Msgs /\ f \in Procs
      /\ WaitsInv /\ SteerInv /\ StoredInv /\ ReturnInv /\ OnceInv
  BY QueueAssumption DEF Procs, SpentInv
<1>b. ASSUME NEW l \in {"steered", "done"}, Goto(f, l)
      PROVE  /\ \A p \in Procs : pc'[p] \in {"stored", "dropped"} => pc[p] = pc'[p] /\ p # f
             /\ Taken' \subseteq Taken \cup (IF l = "steered" THEN {Of[f]} ELSE {})
  <2>1. pc'[f] = l /\ \A q \in Procs \ {f} : pc'[q] = pc[q]
    BY <1>a, <1>b, OwnMoves
  <2> QED
    BY <1>a, <1>b, <2>1 DEF Taken
<1>1. CASE Steered(f)
  <2>1. /\ UNCHANGED <<items, lane, evq, held, rows, snap, chat, back>> /\ pc[f] = "steer"
        /\ Goto(f, "steered") /\ sent' = [sent EXCEPT ![Of[f]] = @ + 1]
    BY <1>1 DEF Steered, queue, turn, tables, loading
  <2>2. Of[f] \notin Seen
    BY <2>1 DEF PreInv, Early
  <2>3. /\ Of[f] \notin Fresh /\ Of[f] \notin Shown /\ Of[f] \notin Answered
        /\ \A p \in Procs : Of[f] \notin held[p]
    <3>1. Rowed \subseteq JobKinds /\ {"turn"} \subseteq EventKinds /\ Outside \subseteq Procs
      BY DEF Rowed, JobKinds, EventKinds, Outside, Procs
    <3>2. IdsOf(lane, Rowed) \subseteq InLane /\ IdsOf(evq, {"turn"}) \subseteq InEvq
      BY <3>1, IdsMono DEF InLane, InEvq
    <3>3. Drawn \subseteq Hands
      BY <3>1, HandsIs DEF Drawn
    <3>4. Of[f] \notin Shown /\ Of[f] \notin Answered /\ \A p \in Procs : Of[f] \notin held[p]
      BY <2>2, HandsIs DEF Seen, Afoot, Settled, Shown
    <3> QED
      BY <2>2, <3>2, <3>3, <3>4 DEF Fresh, Seen, Afoot, Settled
  <2>4. Answered' = Answered \cup {Of[f]} /\ \A m \in Msgs : sent'[m] <= 1
    <3>1. sent \in [Msgs -> Nat] /\ sent[Of[f]] = 0 /\ \A m \in Msgs : sent[m] <= 1
      BY <1>a, <2>3 DEF Shapes, FateShape, Answered, OnceInv
    <3>2. sent'[Of[f]] = 1 /\ \A m \in Msgs \ {Of[f]} : sent'[m] = sent[m]
      BY <1>a, <2>1, <3>1
    <3> QED
      BY <1>a, <3>1, <3>2 DEF Answered
  <2>5. Fresh' = Fresh /\ Shown' = Shown /\ Steering' \subseteq Steering \cup {Of[f]}
    <3>1. Taken' \subseteq Taken \cup {Of[f]}
      BY <1>b, <2>1
    <3> QED
      BY <2>1, <3>1 DEF Fresh, Drawn, Shown, Steering
  <2>6. WaitsInv' /\ SteerInv' /\ OnceInv'
    <3>1. WaitsInv'
      BY <1>a, <2>1, <2>3, <2>4, <2>5 DEF WaitsInv, Paid, Shown
    <3>2. SteerInv'
      BY <1>a, <2>3, <2>4, <2>5 DEF SteerInv
    <3>3. OnceInv'
      BY <1>a, <2>1, <2>4 DEF OnceInv
    <3> QED
      BY <3>1, <3>2, <3>3
  <2>7. StoredInv'
    <3>1. ASSUME NEW g \in Frames, pc'[g] = "stored"
          PROVE  held'[g] \cup {Of[g]} \subseteq ToSet(chat') /\ (held'[g] \cup {Of[g]}) \cap Answered' = {}
      <4>1. pc[g] = "stored" /\ g # f
        BY <1>a, <1>b, <2>1, <3>1
      <4>2. Of[g] # Of[f] /\ Of[f] \notin held[g]
        BY <1>a, <2>3, <4>1 DEF SentOnce
      <4> QED
        BY <1>a, <2>1, <2>4, <4>1, <4>2 DEF StoredInv
    <3> QED
      BY <3>1 DEF StoredInv
  <2>8. ReturnInv'
    BY <1>a, <1>b, <2>1 DEF ReturnInv
  <2> QED
    BY <2>6, <2>7, <2>8 DEF SpentInv
<1>2. CASE RecordSteer(f)
  <2>1. UNCHANGED <<items, held, snap, rows, chat, sent, back>> /\ pc[f] = "steered" /\ Goto(f, "done")
    BY <1>2, RecordSteerIs
  <2>2. Taken' \subseteq Taken /\ Of[f] \in Taken
    <3>1. Taken' \subseteq Taken
      BY <1>b, <2>1
    <3> QED
      BY <1>a, <2>1, <3>1 DEF Taken
  <2>3. /\ IdsOf(lane', Rowed) = IdsOf(lane, Rowed) /\ IdsOf(lane', {"add"}) = IdsOf(lane, {"add"})
        /\ IdsOf(evq', {"turn"}) = IdsOf(evq, {"turn"})
        /\ IdsOf(lane', {"steer"}) \subseteq IdsOf(lane, {"steer"}) \cup {Of[f]}
        /\ IdsOf(evq', {"steer"}) \subseteq IdsOf(evq, {"steer"}) \cup {Of[f]}
    <3>1. CASE /\ UNCHANGED lane
               /\ \E e \in Events : evq' = Append(evq, e) /\ e.k = "steer" /\ e.ids = <<Of[f]>>
      BY <3>1, EvqAdds, SoleId
    <3>2. CASE /\ UNCHANGED evq
               /\ \E j \in Jobs : lane' = Append(lane, j) /\ j.k = "steer" /\ j.ids = <<Of[f]>>
      <4>1. PICK j \in Jobs : lane' = Append(lane, j) /\ j.k = "steer" /\ ToSet(j.ids) = {Of[f]}
        BY <3>2, SoleId
      <4>2. \A K : IdsOf(lane', K) = IdsOf(lane, K) \cup (IF j.k \in K THEN ToSet(j.ids) ELSE {})
        BY <4>1, LaneAdds
      <4>3. "steer" \notin Rowed
        BY DEF Rowed
      <4> QED
        BY <3>2, <4>1, <4>2, <4>3
    <3> QED
      BY <1>2, <3>1, <3>2, RecordSteerIs
  <2>4. Fresh' \subseteq Fresh /\ Steering' \subseteq Steering
    BY <2>1, <2>2, <2>3 DEF Fresh, Drawn, Steering
  <2>5. /\ \A g \in Frames : pc'[g] = "stored" => pc[g] = "stored" /\ held'[g] = held[g]
        /\ \A p \in Procs : pc'[p] = "dropped" => pc[p] = "dropped" /\ held'[p] = held[p]
    BY <1>a, <1>b, <2>1
  <2> QED
    BY <2>1, <2>3, <2>4, <2>5, SpentRests
<1> QED
  BY <1>1, <1>2

LEMMA SpentQueues ==
    ASSUME Shapes, NumInv, PreInv, SpentInv, NEW f \in Frames, Add(f) \/ SendJob(f)
    PROVE  SpentInv'
<1> DEFINE M == {Of[f]}
<1>a. /\ Frames \subseteq Procs /\ f \in Procs /\ Outside \subseteq Procs /\ f \notin Outside
      /\ held \in [Procs -> SUBSET Msgs]
      /\ "add" \in Rowed /\ "send" \in Rowed
  BY QueueAssumption DEF Procs, Outside, Rowed, Shapes, ProcShape
<1>1. pc[f] \in Early /\ Of[f] \notin Seen
  <2>1. pc[f] \in Early
    BY DEF Add, SendJob, Early
  <2> QED
    BY <2>1 DEF PreInv
<1>2. M \cap Paid = {} /\ \A p \in Procs : held[p] \cap M = {}
  BY <1>1, HandsIs DEF Seen, Afoot, Settled, Paid, Shown
<1>3. UNCHANGED <<chat, sent, back, rows, snap, evq>>
  BY DEF Add, SendJob, loading, tables, turn, fates
<1>4. /\ \A g \in Frames : pc'[g] = "stored" => pc[g] = "stored" /\ held'[g] = held[g]
      /\ \A p \in Procs : pc'[p] = "dropped" => pc[p] = "dropped" /\ held'[p] = held[p]
      /\ Taken' \subseteq Taken /\ Drawn' = Drawn
  <2>1. PICK l \in {"adding", "added", "done", "storing"} : Goto(f, l)
    BY AddIs DEF SendJob
  <2>2. \A p \in Procs \ {f} : held'[p] = held[p]
    BY <1>a DEF Add, SendJob
  <2>3. pc'[f] = l /\ \A p \in Procs \ {f} : pc'[p] = pc[p]
    BY <1>a, <2>1, OwnMoves
  <2>4. Taken' \subseteq Taken
    BY <1>a, <2>1, <2>3 DEF Taken
  <2>5. Drawn' = Drawn
    BY <1>a, <2>2 DEF Drawn
  <2> QED
    BY <1>a, <2>1, <2>2, <2>3, <2>4, <2>5
<1>5. /\ items' \cup IdsOf(lane', Rowed) \subseteq items \cup IdsOf(lane, Rowed) \cup M
      /\ IdsOf(lane', {"steer"}) = IdsOf(lane, {"steer"})
      /\ IdsOf(lane', {"add"}) \subseteq IdsOf(lane, {"add"}) \cup M
  <2>1. ASSUME NEW j \in Jobs, lane' = Append(lane, j), j.k \in {"add", "send"},
               ToSet(j.ids) \subseteq items \cup M, j.k = "add" => ToSet(j.ids) \subseteq M
        PROVE  /\ IdsOf(lane', Rowed) \subseteq items \cup IdsOf(lane, Rowed) \cup M
               /\ IdsOf(lane', {"steer"}) = IdsOf(lane, {"steer"})
               /\ IdsOf(lane', {"add"}) \subseteq IdsOf(lane, {"add"}) \cup M
    <3>1. /\ IdsOf(lane', Rowed) = IdsOf(lane, Rowed) \cup (IF j.k \in Rowed THEN ToSet(j.ids) ELSE {})
          /\ IdsOf(lane', {"steer"})
               = IdsOf(lane, {"steer"}) \cup (IF j.k \in {"steer"} THEN ToSet(j.ids) ELSE {})
          /\ IdsOf(lane', {"add"})
               = IdsOf(lane, {"add"}) \cup (IF j.k \in {"add"} THEN ToSet(j.ids) ELSE {})
      BY <2>1, LaneAdds
    <3> QED
      BY <1>a, <2>1, <3>1
  <2>2. CASE Add(f)
    <3>1. CASE UNCHANGED <<items, lane>>
      BY <3>1
    <3>2. CASE /\ items' = items \cup M
               /\ \E j \in Jobs : lane' = Append(lane, j) /\ j.k = "add" /\ j.ids = <<Of[f]>>
      <4>1. PICK j \in Jobs : lane' = Append(lane, j) /\ j.k = "add" /\ ToSet(j.ids) = M
        BY <3>2, SoleId
      <4> HIDE DEF M
      <4>2. /\ IdsOf(lane', Rowed) \subseteq items \cup IdsOf(lane, Rowed) \cup M
            /\ IdsOf(lane', {"steer"}) = IdsOf(lane, {"steer"})
            /\ IdsOf(lane', {"add"}) \subseteq IdsOf(lane, {"add"}) \cup M
        BY <2>1, <4>1
      <4> QED
        BY <3>2, <4>2
    <3> QED
      BY <2>2, <3>1, <3>2, AddIs
  <2>3. CASE SendJob(f)
    <3>1. PICK j \in Jobs : lane' = Append(lane, j) /\ j.k = "send" /\ ToSet(j.ids) = By(Who(f)) \cup M
      BY <2>3, SendJobIs
    <3>2. By(Who(f)) \subseteq items /\ items' \subseteq items
      BY <2>3 DEF SendJob, By
    <3> HIDE DEF M
    <3>3. /\ IdsOf(lane', Rowed) \subseteq items \cup IdsOf(lane, Rowed) \cup M
          /\ IdsOf(lane', {"steer"}) = IdsOf(lane, {"steer"})
          /\ IdsOf(lane', {"add"}) \subseteq IdsOf(lane, {"add"}) \cup M
      BY <2>1, <3>1, <3>2
    <3> QED
      BY <3>2, <3>3
  <2> QED
    BY <2>2, <2>3
<1> HIDE DEF M
<1>6. Fresh' \subseteq Fresh \cup M /\ Steering' \subseteq Steering
  BY <1>3, <1>4, <1>5 DEF Fresh, Steering
<1> QED
  BY <1>2, <1>3, <1>4, <1>5, <1>6, SpentBrings

LEMMA SpentStarts ==
    ASSUME Shapes, NumInv, OneSeat, SpentInv, NEW f \in Frames, StartTurn(f)
    PROVE  SpentInv'
<1> DEFINE H == InOrder(held[f])
           ids == Append(H, Of[f])
           S == held[f] \cup {Of[f]}
<1>a. /\ Frames \subseteq Procs /\ f \in Procs /\ Outside \subseteq Procs /\ f \notin Outside
      /\ Of[f] \in Msgs /\ held \in [Procs -> SUBSET Msgs] /\ held[f] \subseteq Numbered
      /\ WaitsInv /\ SteerInv /\ StoredInv /\ ReturnInv /\ OnceInv
  BY QueueAssumption DEF Procs, Outside, Shapes, ProcShape, NumInv, SpentInv
<1>1. /\ UNCHANGED <<items, rows, snap, chat, back, lane>> /\ evq' \in {evq, <<>>}
      /\ pc[f] = "stored" /\ Goto(f, "done") /\ held' = [held EXCEPT ![f] = {}]
      /\ ToEngine(ids) \/ UNCHANGED sent
  BY DEF StartTurn, queue, loading, tables, turn, ToEngine
<1>2. ToSet(ids) = S /\ S \subseteq Msgs
  <2>1. H \in Seq(Msgs) /\ ToSet(H) = held[f]
    BY <1>a, InOrderIs
  <2> HIDE DEF H
  <2> QED
    BY <1>a, <2>1, AppendSet
<1> HIDE DEF ids
<1>3. S \subseteq ToSet(chat) /\ S \cap Answered = {}
  BY <1>a, <1>1 DEF StoredInv
<1>4. /\ Answered \subseteq Answered' /\ Answered' \subseteq Answered \cup S
      /\ \A m \in Msgs : sent'[m] <= 1
  <2>1. CASE UNCHANGED sent
    BY <1>a, <2>1 DEF Answered, OnceInv
  <2>2. CASE ToEngine(ids)
    BY <1>a, <1>2, <1>3, <2>2, ToEngineIs DEF OnceInv
  <2> QED
    BY <1>1, <2>1, <2>2
<1>5. /\ pc'[f] = "done" /\ \A p \in Procs \ {f} : pc'[p] = pc[p] /\ held'[p] = held[p]
  BY <1>a, <1>1, OwnMoves
<1>6. Fresh' \subseteq Fresh /\ Steering' \subseteq Steering
  <2>1. Drawn' = Drawn /\ Taken' \subseteq Taken
    <3>1. Drawn' = Drawn
      BY <1>a, <1>5 DEF Drawn
    <3>2. Taken' \subseteq Taken
      BY <1>a, <1>5 DEF Taken
    <3> QED
      BY <3>1, <3>2
  <2>2. IdsOf(evq', {"turn"}) \subseteq IdsOf(evq, {"turn"})
        /\ IdsOf(evq', {"steer"}) \subseteq IdsOf(evq, {"steer"})
    BY <1>1, IdsEmpty
  <2> QED
    BY <1>1, <2>1, <2>2 DEF Fresh, Steering
<1>7. Shown' = Shown
  BY <1>1 DEF Shown
<1>8. Paid' = Paid
  <2>1. S \subseteq Shown
    BY <1>3 DEF Shown
  <2> HIDE DEF S
  <2> QED
    BY <1>4, <1>7, <2>1 DEF Paid
<1>9. WaitsInv'
  <2>1. back \cap S = {}
    BY <1>a, <1>3 DEF WaitsInv
  <2> HIDE DEF S
  <2>2. back' \cap (Answered' \cup ToSet(chat')) = {}
    BY <1>a, <1>1, <1>4, <2>1 DEF WaitsInv
  <2> QED
    BY <1>a, <1>6, <1>8, <2>2 DEF WaitsInv
<1>10. SteerInv'
  BY <1>a, <1>4, <1>6, <1>7 DEF SteerInv
<1>11. StoredInv'
  <2>1. ASSUME NEW g \in Frames, pc'[g] = "stored"
        PROVE  held'[g] \cup {Of[g]} \subseteq ToSet(chat') /\ (held'[g] \cup {Of[g]}) \cap Answered' = {}
    <3>1. g # f /\ g \in Procs
      BY <1>a, <1>5, <2>1
    <3>2. pc[g] = "stored" /\ held'[g] = held[g]
      BY <1>5, <2>1, <3>1
    <3>3. Grip[g] = held[g] \cup {Of[g]} /\ Grip[f] = S
      BY <1>a, <1>1, <3>1, <3>2 DEF Grip, Own
    <3>4. (held[g] \cup {Of[g]}) \cap S = {}
      BY <1>a, <3>1, <3>3 DEF OneSeat, Seats
    <3>5. held[g] \cup {Of[g]} \subseteq ToSet(chat) /\ (held[g] \cup {Of[g]}) \cap Answered = {}
      BY <1>a, <3>2 DEF StoredInv
    <3> HIDE DEF S
    <3> QED
      BY <1>1, <1>4, <3>2, <3>4, <3>5
  <2> QED
    BY <2>1 DEF StoredInv
<1>12. ReturnInv'
  <2>1. \A p \in Procs : pc'[p] = "dropped" => pc[p] = "dropped" /\ held'[p] = held[p]
    BY <1>5
  <2> QED
    BY <1>a, <1>1, <2>1 DEF ReturnInv
<1>13. OnceInv'
  BY <1>a, <1>1, <1>4 DEF OnceInv
<1> QED
  BY <1>9, <1>10, <1>11, <1>12, <1>13 DEF SpentInv

LEMMA SpentReturns ==
    ASSUME Shapes, JobsFit, QuietInv, OneSeat, SpentInv, NEW p \in Returners, GiveBack(p)
    PROVE  SpentInv'
<1> DEFINE S == held[p]
<1>a. /\ Frames \subseteq Procs /\ Outside \subseteq Procs /\ p \in Outside /\ p \in Procs /\ p \notin Frames
      /\ held \in [Procs -> SUBSET Msgs] /\ S \subseteq Msgs
      /\ WaitsInv /\ SteerInv /\ StoredInv /\ ReturnInv /\ OnceInv
  BY QueueAssumption DEF Procs, Outside, Returners, Shapes, ProcShape, SpentInv
<1>1. /\ UNCHANGED <<items, rows, snap, chat, sent, lane, evq>> /\ back' = back \cup S
      /\ pc[p] = "dropped" /\ Goto(p, Resume(p)) /\ held' = [held EXCEPT ![p] = {}]
  BY DEF GiveBack, queue, loading, tables, turn
<1>2. /\ pc'[p] = Resume(p) /\ \A q \in Procs \ {p} : pc'[q] = pc[q] /\ held'[q] = held[q]
      /\ held'[p] = {} /\ Resume(p) \notin {"steered", "stored", "dropped"}
  <2>1. Resume(p) \notin {"steered", "stored", "dropped"}
    BY DEF Resume
  <2> QED
    BY <1>a, <1>1, <2>1, OwnMoves
<1>3. S \subseteq Drawn /\ S \cap Paid = {}
  <2>1. S \subseteq Drawn
    BY <1>a DEF Drawn
  <2> QED
    BY <1>a, <2>1 DEF WaitsInv, Fresh
<1>4. Grip[p] = S
  BY <1>a DEF Grip, Own
<1>5. /\ S \cap items = {} /\ S \cap InEvq = {} /\ S \cap InCarry = {}
      /\ \A q \in Procs \ {p} : Grip[q] \cap S = {}
  BY <1>a, <1>4 DEF OneSeat, Seats
<1>6. S \cap ToSet(rows) = {} /\ S \cap IdsOf(lane, {"add"}) = {}
  BY <1>a, <1>1 DEF ReturnInv
<1>7. S \cap IdsOf(lane, Rowed) = {}
  <2>1. ASSUME NEW i \in 1..Len(lane), lane[i].k \in Rowed PROVE S \cap ToSet(lane[i].ids) = {}
    <3>1. CASE lane[i].k = "add"
      BY <1>6, <3>1, IdsIn
    <3>2. CASE lane[i].k \in {"accept", "turn"}
      BY <1>5, <3>2, IdsIn DEF InCarry, Carry
    <3>3. CASE lane[i].k \in {"send", "drop"}
      <4>1. lane[i].p \in Procs /\ ToSet(lane[i].ids) = Grip[lane[i].p]
        BY <3>3, JobSeat
      <4>2. Fits(lane[i], pc, held)
        BY DEF JobsFit
      <4>3. pc[lane[i].p] \in {"storing", "dropping"}
        BY <3>3, <4>2 DEF Fits
      <4>4. lane[i].p # p
        BY <1>1, <4>3
      <4> QED
        BY <1>5, <4>1, <4>4
    <3> QED
      BY <2>1, <3>1, <3>2, <3>3 DEF Rowed
  <2> QED
    BY <2>1, IdsMember
<1>8. S \cap IdsOf(lane, {"steer"}) = {} /\ S \cap IdsOf(evq, {"turn"}) = {} /\ S \cap IdsOf(evq, {"steer"}) = {}
  <2>1. {"steer"} \subseteq Carry /\ {"steer"} \subseteq EventKinds /\ {"turn"} \subseteq EventKinds
    BY DEF Carry, EventKinds
  <2>2. /\ IdsOf(lane, {"steer"}) \subseteq InCarry
        /\ IdsOf(evq, {"turn"}) \subseteq InEvq /\ IdsOf(evq, {"steer"}) \subseteq InEvq
    BY <2>1, IdsMono DEF InCarry, InEvq
  <2> QED
    BY <1>5, <2>2
<1>9. S \cap ToSet(snap) = {}
  <2>1. ld = "yes"
    BY <1>a, <1>1 DEF QuietInv
  <2>2. snap = <<>>
    BY <2>1 DEF QuietInv
  <2> QED
    BY <2>2, SoleId
<1>10. Drawn' \subseteq Drawn /\ S \cap Drawn' = {}
  <2>1. \A q \in Outside : held'[q] \subseteq held[q] /\ S \cap held'[q] = {}
    <3>1. \A q \in Procs : held[q] \subseteq Grip[q]
      BY DEF Grip
    <3> QED
      BY <1>a, <1>2, <1>5, <3>1
  <2> HIDE DEF S
  <2> QED
    BY <2>1 DEF Drawn
<1>11. Taken' = Taken /\ S \cap Taken = {}
  <2>1. \A f \in Frames : pc'[f] = pc[f]
    BY <1>a, <1>2
  <2>2. ASSUME NEW f \in Frames, pc[f] = "steered" PROVE Of[f] \notin S
    <3>1. f \in Procs \ {p} /\ Of[f] \in Grip[f]
      BY <1>a, <2>2 DEF Grip, Own
    <3> QED
      BY <1>5, <3>1
  <2> HIDE DEF S
  <2>3. Taken' = Taken
    BY <2>1 DEF Taken
  <2> QED
    BY <2>2, <2>3 DEF Taken
<1> HIDE DEF S
<1>12. Fresh' \subseteq Fresh /\ S \cap Fresh' = {}
  BY <1>1, <1>5, <1>6, <1>7, <1>8, <1>9, <1>10 DEF Fresh
<1>13. Steering' = Steering /\ S \cap Steering = {}
  BY <1>1, <1>8, <1>11 DEF Steering
<1>14. Answered' = Answered /\ Shown' = Shown \cup S /\ Paid' = Paid \cup S
  BY <1>1 DEF Answered, Shown, Paid
<1>15. WaitsInv'
  <2>1. S \cap (Answered \cup ToSet(chat)) = {}
    BY <1>3 DEF Paid, Shown
  <2>2. back' \cap (Answered' \cup ToSet(chat')) = {}
    BY <1>a, <1>1, <1>14, <2>1 DEF WaitsInv
  <2> QED
    BY <1>a, <1>12, <1>14, <2>2 DEF WaitsInv
<1>16. SteerInv'
  BY <1>a, <1>13, <1>14 DEF SteerInv
<1>17. StoredInv'
  <2>1. \A f \in Frames : pc'[f] = pc[f] /\ held'[f] = held[f]
    BY <1>a, <1>2
  <2> QED
    BY <1>a, <1>1, <1>14, <2>1 DEF StoredInv
<1>18. ReturnInv'
  <2>1. \A q \in Procs : pc'[q] = "dropped" => pc[q] = "dropped" /\ held'[q] = held[q]
    BY <1>2
  <2> QED
    BY <1>a, <1>1, <2>1 DEF ReturnInv
<1>19. OnceInv'
  BY <1>a, <1>1 DEF OnceInv
<1> QED
  BY <1>15, <1>16, <1>17, <1>18, <1>19 DEF SpentInv

LEMMA SpentRuns ==
    ASSUME Shapes, JobsFit, ListInv, QuietInv, OneSeat, SpentInv, LaneRuns
    PROVE  SpentInv'
<1> DEFINE j == Head(lane)
           ids == j.ids
           S == ToSet(ids)
<1>a. /\ j \in Jobs /\ j = lane[1] /\ 1 \in 1..Len(lane) /\ lane # <<>> /\ lane' = Tail(lane)
      /\ ids \in Seq(Msgs) /\ S \subseteq Msgs /\ Frames \subseteq Procs /\ Outside \subseteq Procs
      /\ UNCHANGED <<items, held, evq, snap, back>>
  <2>1. lane # <<>> /\ lane' = Tail(lane) /\ UNCHANGED <<items, held, evq, snap, back>>
    BY LaneRunsIs
  <2> QED
    BY <2>1, HeadJob DEF Procs, Outside
<1>b. WaitsInv /\ SteerInv /\ OnceInv /\ \A i \in 1..Len(lane) : Distinct(lane[i].ids)
  BY DEF SpentInv, ListInv
<1>c. Fits(j, pc, held)
  BY <1>a DEF JobsFit
<1>d. \A K : IdsOf(lane', K) \subseteq IdsOf(lane, K) /\ (j.k \in K => S \subseteq IdsOf(lane, K))
  BY <1>a, LanePops
<1>e. ASSUME NEW p \in Procs, NEW l, Goto(p, l)
      PROVE  pc'[p] = l /\ \A q \in Procs \ {p} : pc'[q] = pc[q]
  BY <1>e, OwnMoves
<1>f. Drawn' = Drawn
  BY <1>a DEF Drawn
<1>g. ASSUME ToSet(rows') \subseteq ToSet(rows) \cup IdsOf(lane, Rowed),
             \A f \in Frames : pc'[f] = "steered" => pc[f] = "steered"
      PROVE  Fresh' \subseteq Fresh /\ Steering' \subseteq Steering
  <2>1. Taken' \subseteq Taken
    BY <1>g DEF Taken
  <2>2. /\ IdsOf(lane', Rowed) \subseteq IdsOf(lane, Rowed)
        /\ IdsOf(lane', {"steer"}) \subseteq IdsOf(lane, {"steer"})
    BY <1>d
  <2> QED
    BY <1>a, <1>f, <1>g, <2>1, <2>2 DEF Fresh, Steering
<1>h. IdsOf(lane', {"add"}) \subseteq IdsOf(lane, {"add"})
  BY <1>d
<1>1. CASE /\ j.k = "add" /\ Goto(j.p, "added") /\ UNCHANGED <<chat, sent>>
           /\ ToSet(rows') \subseteq ToSet(rows) \cup S
  <2>1. j.p \in Procs
    BY <1>1, <1>a, <1>c DEF Fits
  <2>2. \A q \in Procs : pc'[q] \in {"steered", "stored", "dropped"} => pc[q] = pc'[q]
    BY <1>1, <1>e, <2>1
  <2>3. S \subseteq IdsOf(lane, Rowed) /\ S \subseteq IdsOf(lane, {"add"})
    <3>1. j.k \in Rowed /\ j.k \in {"add"}
      BY <1>1 DEF Rowed
    <3> QED
      BY <1>d, <3>1
  <2> HIDE DEF S, j
  <2>4. Fresh' \subseteq Fresh /\ Steering' \subseteq Steering
    BY <1>1, <1>a, <1>g, <2>2, <2>3
  <2>5. /\ \A f \in Frames : pc'[f] = "stored" => pc[f] = "stored" /\ held'[f] = held[f]
        /\ \A p \in Procs : pc'[p] = "dropped" => pc[p] = "dropped" /\ held'[p] = held[p]
    BY <1>a, <2>2
  <2> QED
    BY <1>1, <1>a, <1>h, <2>3, <2>4, <2>5, SpentRests
<1>2. CASE /\ j.k = "drop" /\ Goto(j.p, "dropped") /\ UNCHANGED <<chat, sent>>
           /\ ToSet(rows') = ToSet(rows) \ S
  <2>1. j.p \in Procs /\ j.p \notin Frames /\ S = held[j.p]
    BY <1>2, <1>a, <1>c, QueueAssumption DEF Fits, Outside
  <2>2. \A q \in Procs : pc'[q] \in {"steered", "stored"} => pc[q] = pc'[q]
    BY <1>2, <1>e, <2>1
  <2>3. S \cap IdsOf(lane', {"add"}) = {}
    <3>1. S \cap IdsOf(lane', JobKinds \ {"end"}) = {}
      BY <1>2, <1>a, HeadLeaves
    <3>2. {"add"} \subseteq JobKinds \ {"end"}
      BY DEF JobKinds
    <3>3. IdsOf(lane', {"add"}) \subseteq IdsOf(lane', JobKinds \ {"end"})
      BY <3>2, IdsMono
    <3> QED
      BY <3>1, <3>3
  <2> HIDE DEF S, j
  <2>4. Fresh' \subseteq Fresh /\ Steering' \subseteq Steering
    BY <1>2, <1>a, <1>g, <2>2
  <2>5. ASSUME NEW p \in Procs, pc'[p] = "dropped"
        PROVE  \/ pc[p] = "dropped" /\ held'[p] = held[p]
               \/ held'[p] \cap ToSet(rows') = {} /\ held'[p] \cap IdsOf(lane', {"add"}) = {}
    BY <1>2, <1>a, <1>e, <2>1, <2>3, <2>5
  <2>6. \A f \in Frames : pc'[f] = "stored" => pc[f] = "stored" /\ held'[f] = held[f]
    BY <1>a, <2>2
  <2> QED
    BY <1>2, <1>a, <1>h, <2>4, <2>5, <2>6, SpentRests
<1>3. CASE j.k = "end" /\ UNCHANGED <<rows, chat, pc, sent>>
  <2>1. Fresh' \subseteq Fresh /\ Steering' \subseteq Steering
    BY <1>3, <1>g
  <2> QED
    BY <1>3, <1>a, <1>h, <2>1, SpentRests
<1>4. ASSUME j.k \in {"accept", "turn", "steer", "send"}, chat' = chat \o ids,
             ToSet(rows') = ToSet(rows) \ S,
             \A f \in Frames : pc'[f] = "steered" => pc[f] = "steered"
      PROVE  /\ Distinct(ids) /\ S \cap Shown = {} /\ (j.k # "steer" => S \cap Answered = {})
             /\ S \cap Fresh' = {} /\ S \cap Steering' = {}
             /\ Fresh' \subseteq Fresh /\ Steering' \subseteq Steering
             /\ \A f \in Frames : pc[f] = "stored" => S \cap (held[f] \cup {Of[f]}) = {}
  <2>1. Distinct(ids)
    BY <1>a, <1>b
  <2>2. S \cap Shown = {} /\ (j.k # "steer" => S \cap Answered = {})
    <3>1. CASE j.k = "steer"
      <4>1. j.k \in {"steer"}
        BY <3>1
      <4>2. S \subseteq IdsOf(lane, {"steer"})
        BY <1>d, <4>1
      <4>3. S \subseteq Steering
        BY <4>2 DEF Steering
      <4> QED
        BY <1>b, <3>1, <4>3 DEF SteerInv
    <3>2. CASE j.k # "steer"
      <4>1. j.k \in Rowed
        BY <1>4, <3>2 DEF Rowed
      <4>2. S \subseteq IdsOf(lane, Rowed)
        BY <1>d, <4>1
      <4>3. S \subseteq Fresh
        BY <4>2 DEF Fresh
      <4> QED
        BY <1>b, <4>3 DEF WaitsInv, Paid
    <3> QED
      BY <3>1, <3>2
  <2>3. Fresh' \subseteq Fresh /\ Steering' \subseteq Steering
    BY <1>4, <1>g
  <2>4. /\ S \cap Fresh' = {} /\ S \cap Steering' = {}
        /\ \A f \in Frames : pc[f] = "stored" => S \cap (held[f] \cup {Of[f]}) = {}
    <3>1. /\ ToSet(rows') \cap S = {} /\ S \subseteq ToSet(Head(lane).ids)
          /\ Head(lane).k \in {"accept", "turn", "steer", "send"}
          /\ \A K : IdsOf(evq', K) = IdsOf(evq, K)
      BY <1>4, <1>a
    <3> HIDE DEF S, j
    <3> QED
      BY <1>4, <1>a, <3>1, HeadApart
  <2> QED
    BY <2>1, <2>2, <2>3, <2>4
<1>5. CASE /\ j.k \in Carry /\ UNCHANGED pc
           /\ ToSet(rows') = ToSet(rows) \ S /\ chat' = chat \o ids
           /\ sent' = sent \/ (j.k # "steer" /\ ToEngine(ids))
  <2>1. /\ Distinct(ids) /\ S \cap Shown = {} /\ (j.k # "steer" => S \cap Answered = {})
        /\ S \cap Fresh' = {} /\ S \cap Steering' = {}
        /\ Fresh' \subseteq Fresh /\ Steering' \subseteq Steering
        /\ \A f \in Frames : pc[f] = "stored" => S \cap (held[f] \cup {Of[f]}) = {}
    <3>1. j.k \in {"accept", "turn", "steer", "send"}
      BY <1>5 DEF Carry
    <3> QED
      BY <1>4, <1>5, <3>1
  <2>2. /\ Answered \subseteq Answered' /\ Answered' \subseteq Answered \cup S
        /\ \A m \in Msgs : sent'[m] <= 1
    <3>1. CASE sent' = sent
      BY <1>b, <3>1 DEF Answered, OnceInv
    <3>2. CASE j.k # "steer" /\ ToEngine(ids)
      BY <1>a, <1>b, <2>1, <3>2, ToEngineIs DEF OnceInv
    <3> QED
      BY <1>5, <3>1, <3>2
  <2> HIDE DEF j, ids
  <2>3. /\ \A f \in Frames : pc'[f] = "stored" =>
             pc[f] = "stored" /\ held'[f] = held[f] /\ ToSet(ids) \cap (held[f] \cup {Of[f]}) = {}
        /\ \A p \in Procs : pc'[p] = "dropped" => pc[p] = "dropped" /\ held'[p] = held[p]
        /\ ToSet(rows') \subseteq ToSet(rows) /\ chat' = chat \o ids /\ UNCHANGED back
    BY <1>5, <1>a, <2>1
  <2> QED
    BY <1>a, <1>h, <2>1, <2>2, <2>3, SpentShows
<1>6. CASE /\ j.k = "send" /\ Goto(j.p, "stored") /\ UNCHANGED sent
           /\ ToSet(rows') = ToSet(rows) \ S /\ chat' = chat \o ids
  <2>1. j.p \in Frames /\ j.p \in Procs /\ S = held[j.p] \cup {Of[j.p]}
    BY <1>6, <1>a, <1>c DEF Fits
  <2>2. \A q \in Procs : /\ pc'[q] \in {"steered", "dropped"} => pc[q] = pc'[q]
                         /\ pc'[q] = "stored" => q = j.p \/ pc[q] = "stored"
    BY <1>6, <1>e, <2>1
  <2>3. /\ Distinct(ids) /\ S \cap Shown = {} /\ S \cap Answered = {}
        /\ S \cap Fresh' = {} /\ S \cap Steering' = {}
        /\ Fresh' \subseteq Fresh /\ Steering' \subseteq Steering
        /\ \A f \in Frames : pc[f] = "stored" => S \cap (held[f] \cup {Of[f]}) = {}
    <3>1. j.k \in {"accept", "turn", "steer", "send"} /\ j.k # "steer"
      BY <1>6
    <3>2. \A f \in Frames : pc'[f] = "steered" => pc[f] = "steered"
      BY <1>a, <2>2
    <3> QED
      BY <1>4, <1>6, <3>1, <3>2
  <2>4. Answered' = Answered /\ \A m \in Msgs : sent'[m] <= 1
    BY <1>6, <1>b DEF Answered, OnceInv
  <2> HIDE DEF j, ids
  <2>5. ASSUME NEW f \in Frames, pc'[f] = "stored"
        PROVE  \/ pc[f] = "stored" /\ held'[f] = held[f] /\ ToSet(ids) \cap (held[f] \cup {Of[f]}) = {}
               \/ Answered' = Answered /\ ToSet(ids) \cap Answered = {} /\ held'[f] \cup {Of[f]} = ToSet(ids)
    BY <1>a, <2>1, <2>2, <2>3, <2>4, <2>5
  <2>6. /\ \A p \in Procs : pc'[p] = "dropped" => pc[p] = "dropped" /\ held'[p] = held[p]
        /\ ToSet(rows') \subseteq ToSet(rows) /\ chat' = chat \o ids /\ UNCHANGED back
    BY <1>6, <1>a, <2>2
  <2> QED
    BY <1>a, <1>h, <2>3, <2>4, <2>5, <2>6, SpentShows
<1> QED
  BY <1>1, <1>2, <1>3, <1>5, <1>6, LaneRunsIs

LEMMA SpentFails ==
    ASSUME Shapes, NumInv, JobsFit, ListInv, QuietInv, OneSeat, SpentInv, LaneFails
    PROVE  SpentInv'
<1> DEFINE j == Head(lane)
           S == ToSet(j.ids)
<1>a. /\ j \in Jobs /\ j = lane[1] /\ 1 \in 1..Len(lane) /\ lane # <<>> /\ lane' = Tail(lane)
      /\ S \subseteq Msgs /\ Frames \subseteq Procs /\ Outside \subseteq Procs
      /\ UNCHANGED <<held, snap, sent, back>>
      /\ items' = items \/ (j.k \in {"accept", "turn"} /\ items' \subseteq items \cup S)
      /\ \A K : IdsOf(evq', K) = IdsOf(evq, K)
      /\ \/ UNCHANGED pc /\ j.k \notin OfProc
         \/ Goto(j.p, "failed") /\ j.k \in OfProc
  <2>1. lane # <<>>
    BY LaneFailsIs
  <2> QED
    BY <2>1, HeadJob, LaneFailsIs DEF Procs, Outside
<1>b. WaitsInv /\ SteerInv /\ OnceInv
  BY DEF SpentInv
<1>c. Fits(j, pc, held)
  BY <1>a DEF JobsFit
<1>d. \A K : IdsOf(lane', K) \subseteq IdsOf(lane, K) /\ (j.k \in K => S \subseteq IdsOf(lane, K))
  BY <1>a, LanePops
<1>e. \A q \in Procs : pc'[q] \in {"steered", "stored", "dropped"} => pc[q] = pc'[q]
  <2>1. CASE UNCHANGED pc
    BY <2>1
  <2>2. CASE Goto(j.p, "failed") /\ j.k \in OfProc
    <3>1. j.p \in Procs
      BY <1>a, <2>2 DEF Jobs, OfProc
    <3> QED
      BY <2>2, <3>1, OwnMoves
  <2> QED
    BY <1>a, <2>1, <2>2
<1>f. items' \subseteq items \cup IdsOf(lane, Rowed)
  <2>1. {"accept", "turn"} \subseteq Rowed
    BY DEF Rowed
  <2> QED
    BY <1>a, <1>d, <2>1
<1>g. /\ \A f \in Frames : pc'[f] = "stored" => pc[f] = "stored" /\ held'[f] = held[f]
      /\ \A p \in Procs : pc'[p] = "dropped" => pc[p] = "dropped" /\ held'[p] = held[p]
      /\ IdsOf(lane', {"add"}) \subseteq IdsOf(lane, {"add"})
  BY <1>a, <1>d, <1>e
<1>h. ToSet(rows') \subseteq ToSet(rows) => Fresh' \subseteq Fresh /\ Steering' \subseteq Steering
  <2>1. Drawn' = Drawn /\ Taken' \subseteq Taken
    BY <1>a, <1>e DEF Drawn, Taken
  <2>2. /\ IdsOf(lane', Rowed) \subseteq IdsOf(lane, Rowed)
        /\ IdsOf(lane', {"steer"}) \subseteq IdsOf(lane, {"steer"})
    BY <1>d
  <2> QED
    BY <1>a, <1>f, <2>1, <2>2 DEF Fresh, Steering
<1>1. CASE UNCHANGED <<rows, chat>>
  BY <1>1, <1>a, <1>g, <1>h, SpentRests
<1>2. CASE /\ j.k = "send" /\ j.p \in Procs /\ ToSet(rows') = ToSet(rows) \ held[j.p]
           /\ \E s \in Seq(Msgs) : chat' = chat \o s /\ ToSet(s) = held[j.p] /\ Distinct(s)
  <2>1. PICK s \in Seq(Msgs) : chat' = chat \o s /\ ToSet(s) = held[j.p] /\ Distinct(s)
    BY <1>2
  <2>2. ToSet(s) \subseteq S
    BY <1>2, <1>c, <2>1 DEF Fits
  <2>3. ToSet(s) \cap Shown = {}
    <3>1. j.k \in Rowed
      BY <1>2 DEF Rowed
    <3>2. S \subseteq IdsOf(lane, Rowed)
      BY <1>d, <3>1
    <3>3. ToSet(s) \subseteq Fresh
      BY <2>2, <3>2 DEF Fresh
    <3> QED
      BY <1>b, <3>3 DEF WaitsInv, Paid
  <2>4. Fresh' \subseteq Fresh /\ Steering' \subseteq Steering
    BY <1>2, <1>h
  <2>5. /\ ToSet(s) \cap Fresh' = {} /\ ToSet(s) \cap Steering' = {}
        /\ \A f \in Frames : pc[f] = "stored" => ToSet(s) \cap (held[f] \cup {Of[f]}) = {}
    <3>1. /\ ToSet(rows') \cap ToSet(s) = {} /\ ToSet(s) \subseteq ToSet(Head(lane).ids)
          /\ Head(lane).k \in {"accept", "turn", "steer", "send"} /\ UNCHANGED <<items, held, snap>>
      BY <1>2, <1>a, <2>1, <2>2
    <3>2. \A f \in Frames : pc'[f] = "steered" => pc[f] = "steered"
      BY <1>a, <1>e
    <3> HIDE DEF S, j
    <3> QED
      BY <1>a, <3>1, <3>2, HeadApart
  <2>6. Answered' = Answered /\ \A m \in Msgs : sent'[m] <= 1
    BY <1>a, <1>b DEF Answered, OnceInv
  <2>7. \A f \in Frames : pc'[f] = "stored" =>
           pc[f] = "stored" /\ held'[f] = held[f] /\ ToSet(s) \cap (held[f] \cup {Of[f]}) = {}
    BY <1>g, <2>5
  <2>8. ToSet(rows') \subseteq ToSet(rows) /\ UNCHANGED back
    BY <1>2, <1>a
  <2> QED
    BY <1>g, <2>1, <2>3, <2>4, <2>5, <2>6, <2>7, <2>8, SpentShows
<1> QED
  BY <1>1, <1>2, LaneFailsIs

LEMMA SpentKept ==
    ASSUME SentOnce, Shapes, NumInv, JobsFit, PreInv, ListInv, QuietInv, OneSeat, SpentInv, [Next]_vars
    PROVE  SpentInv'
<1>1. CASE Crash
  <2>1. /\ UNCHANGED <<rows, chat, sent, back>> /\ items' = {} /\ snap' = <<>> /\ lane' = <<>>
        /\ evq' = <<>> /\ held' = [p \in Procs |-> {}] /\ Frames \subseteq Procs /\ Outside \subseteq Procs
        /\ pc' = [p \in Procs |-> IF p \in Frames /\ pc[p] # "off" THEN "done" ELSE "off"]
    BY <1>1 DEF Crash, tables, Procs, Outside
  <2>2. \A K : IdsOf(lane', K) = {} /\ IdsOf(evq', K) = {}
    BY <2>1, IdsEmpty
  <2>3. Drawn' = {} /\ Taken' = {} /\ ToSet(snap') = {}
    <3>1. Drawn' = {} /\ Taken' = {}
      BY <2>1 DEF Drawn, Taken
    <3> QED
      BY <2>1, <3>1, SoleId
  <2>4. Fresh' \subseteq Fresh /\ Steering' \subseteq Steering
    BY <2>1, <2>2, <2>3 DEF Fresh, Steering
  <2>5. \A p \in Procs : pc'[p] \notin {"stored", "dropped"}
    BY <2>1
  <2>6. ToSet(rows') \cup IdsOf(lane', {"add"}) \subseteq ToSet(rows) \cup IdsOf(lane, {"add"})
    BY <2>1, <2>2
  <2> QED
    BY <2>1, <2>4, <2>5, <2>6, SpentRests
<1> QED
  BY <1>1, SpentMoves, SpentLoads, SpentTurns, SpentSteers, SpentQueues, SpentStarts, SpentReturns,
     SpentRuns, SpentFails, StepsAre DEF Acted

LEMMA SpentAtStart == Init => SpentInv
<1> SUFFICES ASSUME Init PROVE SpentInv
  OBVIOUS
<1>1. /\ items = {} /\ rows = <<>> /\ snap = <<>> /\ chat = <<>> /\ lane = <<>> /\ evq = <<>>
      /\ held = [p \in Procs |-> {}] /\ pc = [p \in Procs |-> "off"] /\ back = {}
      /\ sent = [m \in Msgs |-> 0] /\ Frames \subseteq Procs /\ Outside \subseteq Procs
  BY DEF Init, Procs, Outside
<1>2. \A K : IdsOf(lane, K) = {} /\ IdsOf(evq, K) = {}
  BY <1>1, IdsEmpty
<1>3. Paid = {} /\ Shown = {} /\ Answered = {}
  BY <1>1, SoleId DEF Paid, Shown, Answered
<1>4. Steering = {}
  BY <1>1, <1>2 DEF Steering, Taken
<1>5. WaitsInv /\ SteerInv
  BY <1>1, <1>3, <1>4 DEF WaitsInv, SteerInv
<1>6. StoredInv /\ ReturnInv
  BY <1>1 DEF StoredInv, ReturnInv
<1>7. OnceInv
  <2>1. \A m \in Msgs : sent[m] = 0
    BY <1>1
  <2>2. Distinct(chat)
    BY <1>1, SoleId
  <2> QED
    BY <2>1, <2>2 DEF OnceInv
<1> QED
  BY <1>5, <1>6, <1>7 DEF SpentInv

LEMMA AlwaysSpent ==
    ASSUME SentOnce
    PROVE  Spec => [](Shapes /\ SpentInv)
<1>1. /\ Shapes /\ NumInv /\ JobsFit /\ PreInv /\ ListInv /\ QuietInv /\ OneSeat /\ SpentInv /\ [Next]_vars
      => SpentInv'
  BY SpentKept
<1> QED
  BY <1>1, SpentAtStart, AlwaysSeated, PTL DEF Spec

\* The engine gets a message its author sent once at most once, and the chat shows it at
\* most once, whoever takes it, whatever is put back or fails half-way, and over any
\* restart (_accept_queue_turn, accept_chat_inputs).
THEOREM AnsweredOnce ==
    ASSUME SentOnce
    PROVE  Spec => []NeverTwice
<1>1. Shapes /\ SpentInv => NeverTwice
  <2> SUFFICES ASSUME Shapes, SpentInv, NEW m \in Msgs PROVE sent[m] <= 1 /\ Occurs(m, chat) <= 1
    BY DEF NeverTwice
  <2>1. sent[m] <= 1 /\ Distinct(chat)
    BY DEF SpentInv, OnceInv
  <2> DEFINE at == {i \in 1..Len(chat) : chat[i] = m}
  <2>2. Occurs(m, chat) = Cardinality(at)
    BY DEF Occurs
  <2>3. \A i \in at : at = {i}
    BY <2>1 DEF Distinct
  <2> HIDE DEF at
  <2>4. CASE at = {}
    <3>1. Cardinality(at) = 0
      BY <2>4, FS_EmptySet
    <3> QED
      BY <2>1, <2>2, <3>1
  <2>5. ASSUME NEW i \in at PROVE Occurs(m, chat) <= 1
    <3>1. at = {i}
      BY <2>3, <2>5
    <3>2. Cardinality(at) = 1
      BY <3>1, FS_Singleton
    <3> QED
      BY <2>2, <3>2
  <2> QED
    BY <2>1, <2>4, <2>5
<1> QED
  BY <1>1, AlwaysSpent, PTL

\* A message its author got back is neither with the engine nor in the chat, then or
\* ever after: nobody sends what the composer holds again (return_items).
THEOREM ReturnedIsUnanswered ==
    ASSUME SentOnce
    PROVE  Spec => []OneFate
<1>1. Shapes /\ SpentInv => OneFate
  <2> SUFFICES ASSUME Shapes, SpentInv, NEW m \in back PROVE sent[m] = 0 /\ m \notin ToSet(chat)
    BY DEF OneFate
  <2>1. m \notin Answered /\ m \notin ToSet(chat) /\ m \in Msgs
    BY DEF SpentInv, WaitsInv, Shapes, FateShape
  <2> QED
    BY <2>1 DEF Answered
<1> QED
  BY <1>1, AlwaysSpent, PTL
-----------------------------------------------------------------------------
(* The events of a turn: nothing waits behind its end *)

\* Only an add or a headless delivery may fail, no pump dies and nothing is revoked:
\* each of the steps this leaves out may strand a row.
Faultless == Breakable \subseteq {"add", "accept"} /\ ~PumpRaises /\ MaxRevokes = 0

Closers == {"error", "done"}

\* Only a live pump has events, and once one says that the turn is over, its producer
\* has ended and no queued turn comes behind it.
CloseInv ==
    /\ evq # <<>> => Live
    /\ \A i \in 1..Len(evq) : evq[i].k \in Closers => pump.prod = "ended"
    /\ \A i, n \in 1..Len(evq) : i < n /\ evq[i].k \in Closers => evq[n].k # "turn"

\* The messages the pump will hear of.
Told == IdsOf(evq, {"turn", "steer"})

LEMMA CloseConcat ==
    ASSUME Shapes, CloseInv, Live, Live', NEW s \in Seq(Events), evq' = evq \o s,
           pump.prod = "ended" => pump'.prod = "ended" /\ \A i \in 1..Len(s) : s[i].k # "turn",
           \A i \in 1..Len(s) : s[i].k \in Closers => pump'.prod = "ended",
           \A i, n \in 1..Len(s) : i < n /\ s[i].k \in Closers => s[n].k # "turn"
    PROVE  CloseInv' /\ Told \subseteq Told'
<1>1. evq \in Seq(Events)
  BY DEF Shapes, TurnShape
<1>2. /\ Len(evq') = Len(evq) + Len(s) /\ Len(evq) \in Nat /\ Len(s) \in Nat
      /\ \A i \in 1..Len(evq) : evq'[i] = evq[i]
      /\ \A i \in 1..Len(evq') : i \in 1..Len(evq)
            \/ (i > Len(evq) /\ i - Len(evq) \in 1..Len(s) /\ evq'[i] = s[i - Len(evq)])
  BY <1>1
<1>3. \A i \in 1..Len(evq') : evq'[i].k \in Closers => pump'.prod = "ended"
  BY <1>2 DEF CloseInv
<1>4. ASSUME NEW i \in 1..Len(evq'), NEW n \in 1..Len(evq'), i < n, evq'[i].k \in Closers
      PROVE  evq'[n].k # "turn"
  <2>1. CASE n \in 1..Len(evq)
    BY <1>2, <1>4, <2>1 DEF CloseInv
  <2>2. CASE n \notin 1..Len(evq) /\ i \in 1..Len(evq)
    BY <1>2, <1>4, <2>2 DEF CloseInv
  <2>3. CASE n \notin 1..Len(evq) /\ i \notin 1..Len(evq)
    BY <1>2, <1>4, <2>3
  <2> QED
    BY <2>1, <2>2, <2>3
<1>5. Told \subseteq Told'
  BY <1>1, IdsConcat DEF Told
<1> QED
  BY <1>3, <1>4, <1>5 DEF CloseInv

LEMMA CloseAppend ==
    ASSUME Shapes, CloseInv, Live, Live', NEW e \in Events, evq' = Append(evq, e),
           pump.prod = "ended" => pump'.prod = "ended" /\ e.k # "turn",
           e.k \in Closers => pump'.prod = "ended"
    PROVE  CloseInv' /\ Told \subseteq Told'
<1> DEFINE s == <<e>>
<1>1. s \in Seq(Events) /\ Len(s) = 1 /\ s[1] = e
  OBVIOUS
<1>2. evq' = evq \o s
  <2>1. evq \in Seq(Events)
    BY DEF Shapes, TurnShape
  <2> QED
    BY <2>1, AppendIsConcat
<1> HIDE DEF s
<1> QED
  BY <1>1, <1>2, CloseConcat

\* A turn that says nothing.
LEMMA CloseStays ==
    ASSUME CloseInv, evq' = evq, evq # <<>> => Live', pump.prod = "ended" => pump'.prod = "ended"
    PROVE  CloseInv' /\ Told \subseteq Told'
  BY DEF CloseInv, Told

LEMMA CloseFresh ==
    ASSUME evq' = <<>>
    PROVE  CloseInv'
  BY DEF CloseInv

\* No event of a pump that is over.
LEMMA QuietTurn ==
    ASSUME CloseInv, ~Live
    PROVE  evq = <<>> /\ Told = {}
  BY IdsEmpty DEF CloseInv, Told

\* What the pump was told of stays with it or goes on to the lane, and the turn closes
\* as it began.
Heard == CloseInv' /\ (ld' = "yes" => Told \subseteq Told' \cup IdsOf(lane', Carry))

LEMMA CloseStarts ==
    ASSUME Shapes, NumInv, ClaimInv, CloseInv, [Next]_vars, gen' # gen, evq' = <<>>
    PROVE  Heard
<1>1. ~Live
  BY StartsAlone
<1> QED
  BY <1>1, QuietTurn, CloseFresh DEF Heard

LEMMA CloseQuiet ==
    ASSUME CloseInv, UNCHANGED <<pump, evq>>
    PROVE  Heard
  BY CloseStays DEF Heard, CloseInv, Live

LEMMA CloseEnds ==
    ASSUME Shapes, CloseInv, PumpReads("error") \/ PumpReads("done"),
           NEW up, NEW completed, LoopEnds(up, completed)
    PROVE  Heard
<1>1. evq' = <<>> /\ lane \in Seq(Jobs) /\ evq # <<>> /\ Head(evq).k \in Closers
  BY LoopEndsIs DEF PumpReads, Closers, Shapes, TurnShape
<1>2. \A i \in 1..Len(evq) : evq[i].k # "turn"
  <2>1. 1 \in 1..Len(evq) /\ Len(evq) \in Nat /\ evq[1].k \in Closers
    BY <1>1, HeadEvent DEF Shapes, TurnShape
  <2>2. \A i \in 1..Len(evq) : i = 1 \/ 1 < i
    BY <2>1
  <2> QED
    BY <2>1, <2>2 DEF CloseInv, Closers
<1>3. Told \subseteq IdsOf(evq, {"steer"})
  BY <1>2, IdsMember DEF Told
<1>4. PICK tl \in Seq(Jobs) : lane' = lane \o tl
        /\ \A K : IdsOf(tl, K) = IF "steer" \in K THEN IdsOf(evq, {"steer"}) ELSE {}
  BY LoopEndsIs
<1>5. IdsOf(tl, Carry) = IdsOf(evq, {"steer"})
  <2>1. "steer" \in Carry
    BY DEF Carry
  <2> QED
    BY <1>4, <2>1
<1>6. IdsOf(lane', Carry) = IdsOf(lane, Carry) \cup IdsOf(tl, Carry)
  BY <1>1, <1>4, IdsConcat
<1> QED
  BY <1>1, <1>3, <1>5, <1>6, CloseFresh DEF Heard

\* Frames, deliveries and viewers.
LEMMA CloseCallers ==
    ASSUME Shapes, NumInv, ClaimInv, CloseInv, [Next]_vars,
           \/ \E f \in Frames : Handler(f)
           \/ \E t \in Tasks : Delivery(t)
           \/ \E a \in Authors : Viewer(a)
    PROVE  Heard
<1>a. /\ \A f \in Frames : Of[f] \in Msgs /\ Who(f) \in Authors
      /\ pump \in Pumps /\ gen \in Nat /\ Tasks \subseteq Procs /\ Authors \subseteq Procs
      /\ gen + 1 # gen /\ todo \in [Procs -> Seq(Authors)]
      /\ \A t \in Tasks : pc[t] = "starting" => Head(todo[t]) \in Authors
  BY QueueAssumption DEF Who, Shapes, TurnShape, ProcShape, Procs
<1>1. ASSUME NEW f \in Frames, Handler(f) PROVE Heard
  <2>1. CASE \/ SendBusy(f) \/ SendIdle(f) \/ Steered(f) \/ SteerRefused(f) \/ Add(f) \/ Added(f)
             \/ Refused(f) \/ QueueUntilReconnect(f) \/ SendJob(f) \/ SendFailed(f)
    <3>1. UNCHANGED <<pump, evq>>
      BY <2>1 DEF SendBusy, SendIdle, Steered, SteerRefused, Add, Added, Refused,
         QueueUntilReconnect, SendJob, SendFailed, turn
    <3> QED
      BY <3>1, CloseQuiet
  <2>2. CASE RecordSteer(f)
    <3>1. CASE evq' = evq
      BY <2>2, <3>1, CloseQuiet DEF RecordSteer
    <3>2. ASSUME Live, evq' = Append(evq, [k |-> "steer", ids |-> <<Of[f]>>]) PROVE Heard
      <4>1. pump' = pump /\ Live'
        BY <2>2, <3>2 DEF RecordSteer, Live
      <4>2. <<Of[f]>> \in Seq(Msgs) /\ "steer" \in EventKinds
        BY <1>a DEF EventKinds
      <4>3. [k |-> "steer", ids |-> <<Of[f]>>] \in Events
        BY <4>2, Posts
      <4> QED
        BY <3>2, <4>1, <4>3, CloseAppend DEF Heard, Closers
    <3> QED
      BY <2>2, <3>1, <3>2 DEF RecordSteer
  <2>3. CASE StartTurn(f)
    <3>1. UNCHANGED <<pump, evq>> \/ (gen' = gen + 1 /\ evq' = <<>>)
      BY <2>3 DEF StartTurn, turn
    <3> QED
      BY <1>a, <3>1, CloseQuiet, CloseStarts
  <2> QED
    BY <1>1, <2>1, <2>2, <2>3 DEF Handler
<1>2. ASSUME NEW t \in Tasks, Delivery(t) PROVE Heard
  <2>1. CASE DeliverStart(t) \/ DeliverNext(t) \/ DeliverDeferred(t) \/ DeliverGated(t)
    <3>1. UNCHANGED <<pump, evq>>
      BY <2>1 DEF DeliverStart, DeliverNext, DeliverDeferred, DeliverGated, turn
    <3> QED
      BY <3>1, CloseQuiet
  <2>2. CASE DeliverSent(t)
    <3>1. gen' = gen + 1 /\ evq' = <<>>
      BY <2>2 DEF DeliverSent, Launch
    <3> QED
      BY <1>a, <3>1, CloseStarts
  <2> QED
    BY <1>2, <2>1, <2>2 DEF Delivery
<1>3. ASSUME NEW a \in Authors, Viewer(a) PROVE Heard
  <2>1. CASE DrainClaim(a) \/ DrainGated(a) \/ DrainTake(a) \/ DrainDeferred(a) \/ DrainLetsGo(a)
    <3>1. UNCHANGED <<pump, evq>>
      BY <2>1 DEF DrainClaim, DrainGated, DrainTake, DrainDeferred, DrainLetsGo, turn
    <3> QED
      BY <3>1, CloseQuiet
  <2>2. CASE DrainSent(a)
    <3>1. gen' = gen + 1 /\ evq' = <<>>
      BY <2>2 DEF DrainSent, Launch
    <3> QED
      BY <1>a, <3>1, CloseStarts
  <2> QED
    BY <1>3, <2>1, <2>2 DEF Viewer
<1> QED
  BY <1>1, <1>2, <1>3

LEMMA CloseFails ==
    ASSUME Shapes, CloseInv, Live, Live', pump.prod # "ended", pump'.prod = "ended",
           evq' = evq \o Failure
    PROVE  Heard
<1>1. Failure \in Seq(Events) /\ \A i \in 1..Len(Failure) : Failure[i].k # "turn"
  <2>1. \A i \in 1..Len(Failure) : i = 1 \/ i = 2
    BY Failures
  <2> QED
    BY <2>1, Failures
<1>2. CloseInv' /\ Told \subseteq Told'
  BY <1>1, CloseConcat
<1> QED
  BY <1>2 DEF Heard

\* The turn and its pump.
LEMMA CloseTurns ==
    ASSUME Faultless, Shapes, NumInv, ClaimInv, CloseInv, Turn
    PROVE  Heard
<1>a. pump \in Pumps /\ evq \in Seq(Events) /\ lane \in Seq(Jobs)
  BY DEF Shapes, TurnShape
<1>b. [k |-> "done", ids |-> <<>>] \in Events
  BY DEF Events, EventKinds
<1>1. CASE TurnEnds
  <2> DEFINE next == {m \in items : DrainAs(m)}
  <2>1. Live /\ pump.prod = "turn" /\ Live'
    BY <1>1, <1>a DEF TurnEnds, Live, Pumps
  <2>2. CASE next # {}
    <3>1. items' # items
      BY <1>1, <2>2 DEF TurnEnds
    <3>2. PICK e \in Events : evq' = Append(evq, e) /\ e.k = "turn"
      BY <1>1, <3>1, TurnEndsIs
    <3> QED
      BY <2>1, <3>2, CloseAppend DEF Heard, Closers
  <2>3. CASE next = {}
    <3>1. evq' = Append(evq, [k |-> "done", ids |-> <<>>]) /\ pump'.prod = "ended"
      BY <1>1, <1>a, <2>3 DEF TurnEnds, Pumps
    <3> QED
      BY <1>b, <2>1, <3>1, CloseAppend DEF Heard
  <2> QED
    BY <2>2, <2>3
<1>2. CASE TurnFails
  <2>1. /\ Live /\ Live' /\ pump'.prod = "ended" /\ pump.prod = "turn" /\ evq' = evq \o Failure
    BY <1>2, <1>a DEF TurnFails, Live, Pumps, Failure
  <2> QED
    BY <2>1, CloseFails
<1>3. CASE PumpAccepts
  <2>1. /\ Live /\ Live' /\ pump'.prod = pump.prod /\ evq # <<>> /\ evq' = Tail(evq)
        /\ Head(evq).k \in {"turn", "steer"}
        /\ \E j \in Jobs : lane' = Append(lane, j) /\ j.k = Head(evq).k /\ j.ids = Head(evq).ids
    BY <1>3, <1>a, PumpAcceptsIs DEF PumpAccepts, PumpReads, Live, Pumps
  <2>2. /\ Len(evq') = Len(evq) - 1 /\ Len(evq) \in Nat \ {0}
        /\ \A i \in 1..Len(evq') : i + 1 \in 1..Len(evq) /\ evq'[i] = evq[i + 1]
    BY <1>a, <2>1
  <2>3. CloseInv'
    BY <2>1, <2>2 DEF CloseInv
  <2>4. Told = Told' \cup ToSet(Head(evq).ids)
    BY <1>a, <2>1, IdsTail DEF Told
  <2>5. ToSet(Head(evq).ids) \subseteq IdsOf(lane', Carry)
    BY <2>1, LaneAdds DEF Carry
  <2> QED
    BY <2>3, <2>4, <2>5 DEF Heard
<1>4. CASE PumpError \/ PumpDone
  BY <1>4, CloseEnds DEF PumpError, PumpDone
<1>5. CASE PumpDies
  BY <1>5 DEF PumpDies, Faultless
<1>6. CASE PumpEnds
  <2>1. ~Live /\ evq' = evq
    BY <1>6 DEF PumpEnds, Live
  <2> QED
    BY <2>1, QuietTurn, CloseFresh DEF Heard
<1>7. CASE AfterEnd
  BY <1>7, CloseQuiet DEF AfterEnd, turn
<1> QED
  BY <1>1, <1>2, <1>3, <1>4, <1>5, <1>6, <1>7 DEF Turn

\* The lane's answers.
LEMMA CloseLane ==
    ASSUME Faultless, Shapes, CloseInv, LaneRuns \/ LaneFails
    PROVE  Heard
<1> DEFINE j == Head(lane)
<1>a. pump \in Pumps /\ evq \in Seq(Events) /\ lane \in Seq(Jobs)
  BY DEF Shapes, TurnShape
<1>b. Waiter(j) => Live /\ pump.prod \in {"rows", "accept"}
  BY DEF Waiter
<1> HIDE DEF j
<1>1. CASE LaneRuns
  <2>1. JobAdd(j) \/ JobAccept(j) \/ JobSend(j) \/ JobDrop(j) \/ JobEnd(j)
    BY <1>1 DEF LaneRuns, j
  <2>2. evq' = evq
    BY <1>1 DEF LaneRuns
  <2>3. CASE JobAccept(j)
    <3>1. pump'.st = pump.st /\ (pump'.prod = pump.prod \/ (Waiter(j) /\ pump'.prod = "turn"))
      BY <1>a, <2>3 DEF JobAccept, Pumps
    <3>2. pump.prod = "ended" => pump'.prod = "ended"
      BY <1>b, <3>1
    <3>3. evq # <<>> => Live'
      BY <3>1 DEF CloseInv, Live
    <3> QED
      BY <2>2, <3>2, <3>3, CloseStays DEF Heard
  <2>4. CASE JobAdd(j) \/ JobSend(j) \/ JobDrop(j) \/ JobEnd(j)
    BY <2>2, <2>4, CloseQuiet DEF JobAdd, JobSend, JobDrop, JobEnd
  <2> QED
    BY <2>1, <2>3, <2>4
<1>2. CASE LaneFails
  <2>1. JobFails(j) /\ j.k \in {"add", "accept"}
    BY <1>2 DEF LaneFails, JobFails, Faultless, j
  <2>2. CASE Waiter(j)
    <3>1. Live /\ Live' /\ pump.prod # "ended" /\ pump'.prod = "ended" /\ evq' = evq \o Failure
      BY <1>a, <1>b, <2>1, <2>2 DEF JobFails, Live, Pumps
    <3> QED
      BY <3>1, CloseFails
  <2>3. CASE ~Waiter(j)
    <3>1. evq' = evq /\ pump'.prod = pump.prod /\ pump'.st = pump.st
      BY <1>a, <2>1, <2>3 DEF JobFails, PumpWaits, Pumps
    <3>2. evq # <<>> => Live'
      BY <3>1 DEF CloseInv, Live
    <3> QED
      BY <3>1, <3>2, CloseStays DEF Heard
  <2> QED
    BY <2>2, <2>3
<1> QED
  BY <1>1, <1>2

LEMMA CloseKept ==
    ASSUME Faultless, Shapes, NumInv, ClaimInv, CloseInv, [Next]_vars
    PROVE  Heard
<1>1. CASE \/ \E f \in Frames : Handler(f)
           \/ \E t \in Tasks : Delivery(t)
           \/ \E a \in Authors : Viewer(a)
  BY <1>1, CloseCallers
<1>2. CASE Turn
  BY <1>2, CloseTurns
<1>3. CASE LaneRuns \/ LaneFails
  BY <1>3, CloseLane
<1>4. CASE StopTurn
  <2>1. pump'.prod = pump.prod /\ pump'.st = pump.st /\ evq' = evq
    BY <1>4 DEF StopTurn, Shapes, TurnShape, Pumps
  <2>2. evq # <<>> => Live'
    BY <2>1 DEF CloseInv, Live
  <2> QED
    BY <2>1, <2>2, CloseStays DEF Heard
<1>5. CASE StopAborts
  <2>1. CASE UNCHANGED <<pump, evq>>
    BY <2>1, CloseQuiet
  <2>2. CASE /\ Live /\ pump.prod # "ended"
             /\ pump' = [pump EXCEPT !.prod = "ended", !.batch = <<>>]
             /\ evq' = Append(evq, [k |-> "done", ids |-> <<>>])
    <3>1. [k |-> "done", ids |-> <<>>] \in Events
      BY DEF Events, EventKinds
    <3>2. Live' /\ pump'.prod = "ended"
      BY <2>2 DEF Live, Shapes, TurnShape, Pumps
    <3> QED
      BY <2>2, <3>1, <3>2, CloseAppend DEF Heard
  <2> QED
    BY <1>5, <2>1, <2>2 DEF StopAborts
<1>6. CASE Crash
  BY <1>6, CloseFresh DEF Crash, Heard
<1>7. CASE \/ LoadRead \/ LoadEnd \/ StopReturns \/ CancelSome \/ RevokeEnds \/ UNCHANGED vars
           \/ \E a \in Authors : Revoke(a) \/ Connect(a) \/ Touch(a)
           \/ \E p \in Returners : GiveBack(p) \/ GiveBackFails(p)
  <2>1. UNCHANGED <<pump, evq>>
    BY <1>7 DEF LoadRead, LoadEnd, StopReturns, CancelSome, Cancel, RevokeEnds, Revoke, Connect, Touch,
       GiveBack, GiveBackFails, turn, vars
  <2> QED
    BY <2>1, CloseQuiet
<1> QED
  BY <1>1, <1>2, <1>3, <1>4, <1>5, <1>6, <1>7 DEF Next

-----------------------------------------------------------------------------
(* Whose hands a waiting row is in *)

\* Whoever waits for a job that failed holds nothing, and nothing is dropped.
FailInv ==
    /\ \A p \in Procs : pc[p] = "failed" => held[p] = {}
    /\ revoking = <<>> /\ dropped = {}

LEMMA FailKept ==
    ASSUME Faultless, Shapes, NumInv, JobsFit, FailInv, [Next]_vars
    PROVE  FailInv'
<1>a. /\ pc \in [Procs -> Places] /\ held \in [Procs -> SUBSET Msgs] /\ Frames \subseteq Procs
      /\ Outside \subseteq Procs /\ used \in [Bounds -> Nat] /\ Returners \subseteq Procs
      /\ Tasks \subseteq Procs
  BY QueueAssumption DEF Shapes, ProcShape, FateShape, Procs, Outside, Returners
<1>b. ASSUME NEW a \in Authors, Revoke(a) PROVE FALSE
  <2>1. used["revoke"] < Limit["revoke"]
    BY <1>b DEF Revoke, Spend
  <2>2. Limit["revoke"] = 0 /\ used["revoke"] \in Nat
    BY <1>a DEF Limit, Faultless, Bounds
  <2> QED
    BY <2>1, <2>2
<1>1. revoking' = <<>> /\ dropped' = {}
  <2>1. Moved /\ UNCHANGED fixed => revoking' = <<>> /\ dropped' = {}
    BY DEF fixed, FailInv
  <2>2. Acted => revoking' = <<>> /\ dropped' = {}
    BY <1>b DEF Acted, LoadRead, LoadEnd, Steered, RecordSteer, Add, SendJob, StartTurn, TurnEnds,
       PumpAccepts, LaneRuns, LaneFails, GiveBack, RevokeEnds, Crash, queue, FailInv
  <2> QED
    BY <2>1, <2>2, StepsAre
<1>2. SUFFICES ASSUME NEW q \in Procs, pc'[q] = "failed" PROVE held'[q] = {}
  BY <1>1, <1>2 DEF FailInv
<1>c. pc[q] = "failed" => held[q] = {}
  BY DEF FailInv
<1>d. ASSUME NEW p \in Procs, NEW to, Goto(p, to), to # "failed",
             \A r \in Procs \ {p} : held'[r] = held[r]
      PROVE  held'[q] = {}
  BY <1>2, <1>a, <1>c, <1>d DEF Goto
<1>e. ASSUME UNCHANGED <<pc, held>> PROVE held'[q] = {}
  BY <1>2, <1>c, <1>e
<1>3. CASE Moved
  <2>1. CASE Rests
    <3>1. CASE UNCHANGED pc
      BY <1>e, <2>1, <3>1 DEF Rests
    <3>2. ASSUME NEW p \in Procs, NEW to \in Places, Calm(p, to), Goto(p, to) PROVE held'[q] = {}
      BY <1>d, <2>1, <3>2 DEF Rests, Calm
    <3> QED
      BY <2>1, <3>1, <3>2 DEF Rests
  <2>2. CASE Ended
    BY <1>e, <2>2 DEF Ended
  <2>3. ASSUME NEW p \in Outside, NEW S \in SUBSET items, Takes(p, S) PROVE held'[q] = {}
    <3>1. held' = [held EXCEPT ![p] = S] /\ p \in Procs
      BY <1>a, <2>3 DEF Takes
    <3>2. CASE UNCHANGED pc /\ pc[p] = "off"
      BY <1>2, <1>a, <1>c, <3>1, <3>2
    <3>3. CASE \E to \in {"starting", "letgo", "abort", "dropping"} : Goto(p, to)
      BY <1>a, <1>d, <3>1, <3>3
    <3> QED
      BY <2>3, <3>2, <3>3 DEF Takes
  <2>4. ASSUME NEW t \in Tasks, Gates(t) PROVE held'[q] = {}
    BY <1>a, <1>d, <2>4 DEF Gates
  <2>5. ASSUME NEW p \in Outside, Defers(p) \/ Launched(p) PROVE held'[q] = {}
    BY <1>a, <1>d, <2>5 DEF Defers, Launched
  <2>6. ASSUME NEW p \in Procs, LetsGo(p) PROVE held'[q] = {}
    BY <1>a, <1>d, <2>6 DEF LetsGo
  <2> QED
    BY <1>3, <2>1, <2>2, <2>3, <2>4, <2>5, <2>6 DEF Moved
<1>4. CASE LoadRead \/ LoadEnd \/ (TurnEnds /\ items' # items) \/ PumpAccepts \/ RevokeEnds
           \/ \E a \in Authors : Revoke(a)
  BY <1>4, <1>e DEF LoadRead, LoadEnd, TurnEnds, PumpAccepts, RevokeEnds, Revoke, procs
<1>5. ASSUME NEW f \in Frames, Steered(f) \/ RecordSteer(f) \/ Add(f) PROVE held'[q] = {}
  BY <1>5, <1>a, <1>d DEF Steered, RecordSteer, Add, Goto
<1>6. ASSUME NEW f \in Frames, SendJob(f) \/ StartTurn(f) PROVE held'[q] = {}
  <2>1. \E to \in {"storing", "done"} : Goto(f, to)
    BY <1>6 DEF SendJob, StartTurn
  <2>2. \A r \in Procs \ {f} : held'[r] = held[r]
    BY <1>6, <1>a DEF SendJob, StartTurn
  <2> QED
    BY <1>a, <1>d, <2>1, <2>2
<1>7. CASE LaneRuns
  BY <1>7, <1>a, <1>d, <1>e, LaneRunsIs, HeadJob DEF Jobs
<1>8. CASE LaneFails
  <2> DEFINE j == Head(lane)
  <2>1. j.k \in {"add", "accept"} /\ held' = held
    BY <1>8 DEF LaneFails, JobFails, Faultless
  <2>2. lane # <<>> /\ (UNCHANGED pc \/ (Goto(j.p, "failed") /\ j.k \in OfProc))
    BY <1>8, LaneFailsIs
  <2>3. Fits(j, pc, held) /\ \A p \in Procs : held[p] # {} => pc[p] \in Keeps
    BY <2>2, HeadJob DEF JobsFit
  <2> HIDE DEF j
  <2>4. CASE j.k = "add"
    <3>1. j.p \in Frames /\ pc[j.p] = "adding"
      BY <2>3, <2>4 DEF Fits
    <3>2. held[j.p] = {}
      BY <1>a, <2>3, <3>1 DEF Keeps
    <3>3. q = j.p \/ pc[q] = "failed"
      BY <1>2, <1>a, <2>2, <3>1 DEF Goto
    <3> QED
      BY <1>c, <2>1, <3>2, <3>3
  <2>5. CASE j.k = "accept"
    BY <1>e, <2>1, <2>2, <2>5 DEF OfProc
  <2> QED
    BY <2>1, <2>4, <2>5
<1>9. ASSUME NEW p \in Returners, GiveBack(p) PROVE held'[q] = {}
  <2>1. held' = [held EXCEPT ![p] = {}] /\ \E to \in {"loop", "letgo", "abort", "off"} : Goto(p, to)
    BY <1>9 DEF GiveBack, Resume
  <2> QED
    BY <1>a, <1>d, <2>1
<1>10. CASE Crash
  BY <1>10 DEF Crash
<1> QED
  BY <1>3, <1>4, <1>5, <1>6, <1>7, <1>8, <1>9, <1>10, StepsAre DEF Acted

\* A row that stands or is to be written ...
Waiting == ToSet(rows) \cup IdsOf(lane, {"add"})

\* ... is of a message that somebody has: the queue, a process, the pump, or a job that
\* uses the row up.
Users == {"accept", "turn", "steer", "send", "drop"}
Home  == items \cup Hands \cup Told \cup IdsOf(lane, Users)

HomeInv ==
    /\ ld = "yes" => Waiting \subseteq Home
    /\ ld = "listed" => ToSet(rows) \subseteq ToSet(snap)

LEMMA HandsMove ==
    ASSUME Shapes, NEW p \in Procs, NEW S, held' = [held EXCEPT ![p] = S]
    PROVE  Hands \subseteq Hands' \cup held[p] /\ S \subseteq Hands'
<1>1. held \in [Procs -> SUBSET Msgs] /\ held'[p] = S /\ \A q \in Procs \ {p} : held'[q] = held[q]
  BY DEF Shapes, ProcShape
<1>2. ASSUME NEW m \in Hands PROVE m \in Hands' \/ m \in held[p]
  <2>1. PICK q \in Procs : m \in held[q]
    BY <1>2 DEF Hands
  <2> QED
    BY <1>1, <2>1 DEF Hands
<1> QED
  BY <1>1, <1>2 DEF Hands

\* Nobody's messages change hands, or those of G come to somebody, or the rows of X go.
LEMMA HomeStays ==
    ASSUME Waiting \subseteq Home, Waiting' \subseteq Waiting,
           items \cup Hands \cup IdsOf(lane, Users) \subseteq Home', Told \subseteq Home'
    PROVE  Waiting' \subseteq Home'
  BY DEF Home

LEMMA HomeGains ==
    ASSUME Waiting \subseteq Home, NEW G, Waiting' \subseteq Waiting \cup G, G \subseteq Home',
           items \cup Hands \cup IdsOf(lane, Users) \subseteq Home', Told \subseteq Home'
    PROVE  Waiting' \subseteq Home'
  BY DEF Home

LEMMA HomeLeaves ==
    ASSUME Waiting \subseteq Home, Waiting' \subseteq Waiting, NEW X, X \cap Waiting' = {},
           items \cup Hands \cup IdsOf(lane, Users) \subseteq Home' \cup X, Told \subseteq Home'
    PROVE  Waiting' \subseteq Home'
  BY DEF Home

LEMMA UsersCarry == \A s : IdsOf(s, Carry) \subseteq IdsOf(s, Users)
  BY IdsMono DEF Carry, Users

\* A job is added.
LEMMA HomeJob ==
    ASSUME Shapes, NEW j \in Jobs, lane' = Append(lane, j)
    PROVE  /\ IdsOf(lane, Users) \subseteq IdsOf(lane', Users)
           /\ j.k \in Users => ToSet(j.ids) \subseteq IdsOf(lane', Users)
           /\ j.k # "add" => IdsOf(lane', {"add"}) = IdsOf(lane, {"add"})
           /\ j.k = "add" => IdsOf(lane', {"add"}) = IdsOf(lane, {"add"}) \cup ToSet(j.ids)
<1>1. IdsOf(lane', Users) = IdsOf(lane, Users) \cup (IF j.k \in Users THEN ToSet(j.ids) ELSE {})
  BY LaneAdds
<1>2. IdsOf(lane', {"add"}) = IdsOf(lane, {"add"}) \cup (IF j.k \in {"add"} THEN ToSet(j.ids) ELSE {})
  BY LaneAdds
<1> QED
  BY <1>1, <1>2

\* The steps that move messages between hands.
LEMMA HomeGoes ==
    ASSUME Shapes, NumInv, JobsFit, FailInv, Moved, UNCHANGED fixed, Waiting \subseteq Home,
           Told \subseteq Told' \cup IdsOf(lane', Carry)
    PROVE  Waiting' \subseteq Home'
<1>a. /\ held \in [Procs -> SUBSET Msgs] /\ Outside \subseteq Procs /\ Tasks \subseteq Procs
      /\ \A p \in Procs : held[p] # {} => pc[p] \in Keeps
      /\ \A p \in Procs : held[p] \subseteq Numbered
      /\ items \subseteq Numbered /\ lane \in Seq(Jobs)
  BY QueueAssumption DEF Shapes, ProcShape, TurnShape, Procs, Outside, JobsFit, NumInv
<1>b. rows' = rows /\ dropped = {}
  BY DEF fixed, FailInv
<1>c. Told \subseteq Home'
  BY UsersCarry DEF Home
<1>d. ASSUME IdsOf(lane', {"add"}) \subseteq IdsOf(lane, {"add"}),
             IdsOf(lane, Users) \subseteq IdsOf(lane', Users), items \cup Hands \subseteq Home'
      PROVE  Waiting' \subseteq Home'
  <2>1. Waiting' \subseteq Waiting
    BY <1>b, <1>d DEF Waiting
  <2>2. items \cup Hands \cup IdsOf(lane, Users) \subseteq Home'
    BY <1>d DEF Home
  <2> QED
    BY <1>c, <2>1, <2>2, HomeStays
<1>1. CASE Rests
  BY <1>1, <1>d DEF Rests, Home, Hands
<1>2. CASE Ended
  <2>1. PICK tl \in Seq(Jobs) : lane' = lane \o tl
          /\ \A K : IdsOf(tl, K) = IF "steer" \in K THEN IdsOf(evq, {"steer"}) ELSE {}
    BY <1>2, LoopEndsIs DEF Ended
  <2>2. \A K : IdsOf(lane', K) = IdsOf(lane, K) \cup IdsOf(tl, K)
    BY <1>a, <2>1, IdsConcat
  <2>3. IdsOf(tl, {"add"}) = {}
    BY <2>1
  <2>4. IdsOf(lane', {"add"}) \subseteq IdsOf(lane, {"add"}) /\ IdsOf(lane, Users) \subseteq IdsOf(lane', Users)
    BY <2>2, <2>3
  <2>5. items \cup Hands \subseteq Home'
    BY <1>2 DEF Ended, Home, Hands
  <2> QED
    BY <1>d, <2>4, <2>5
<1>3. ASSUME NEW p \in Outside, NEW S \in SUBSET items, Takes(p, S) PROVE Waiting' \subseteq Home'
  <2>1. held[p] = {} /\ items' = items \ S
    BY <1>3, <1>a DEF Takes, Keeps
  <2>2. Hands \subseteq Hands' /\ S \subseteq Hands'
    BY <1>3, <1>a, <2>1, HandsMove DEF Takes
  <2>3. items \cup Hands \subseteq Home'
    BY <2>1, <2>2 DEF Home
  <2>4. CASE lane' = lane
    BY <1>d, <2>3, <2>4
  <2>5. CASE lane' = Append(lane, Job("drop", InOrder(S), p))
    <3>1. Job("drop", InOrder(S), p) \in Jobs /\ Job("drop", InOrder(S), p).k = "drop"
      BY <1>3, <1>a, DropJob
    <3> QED
      BY <1>d, <2>3, <2>5, <3>1, HomeJob
  <2> QED
    BY <1>3, <2>4, <2>5 DEF Takes
<1>4. ASSUME NEW t \in Tasks, Gates(t) PROVE Waiting' \subseteq Home'
  <2>1. /\ Job("drop", InOrder(held[t]), t) \in Jobs /\ Job("drop", InOrder(held[t]), t).k = "drop"
        /\ lane' = Append(lane, Job("drop", InOrder(held[t]), t))
    BY <1>4, <1>a, DropJob DEF Gates
  <2>2. items \cup Hands \subseteq Home'
    BY <1>4 DEF Gates, Home, Hands
  <2> QED
    BY <1>d, <2>1, <2>2, HomeJob
<1>5. ASSUME NEW p \in Outside, Defers(p) PROVE Waiting' \subseteq Home'
  <2>1. lane' = lane /\ items' = items \cup held[p]
    BY <1>5, <1>b DEF Defers, PutBack
  <2>2. Hands \subseteq Hands' \cup held[p]
    BY <1>5, <1>a, HandsMove DEF Defers
  <2>3. items \cup Hands \subseteq Home'
    BY <2>1, <2>2 DEF Home
  <2> QED
    BY <1>d, <2>1, <2>3
<1>6. ASSUME NEW p \in Outside, Launched(p) PROVE Waiting' \subseteq Home'
  <2>1. PICK j \in Jobs : lane' = Append(lane, j) /\ j.k = "accept" /\ ToSet(j.ids) = held[p]
    BY <1>6 DEF Launched
  <2>2. Hands \subseteq Hands' \cup held[p] /\ items' = items
    BY <1>6, <1>a, HandsMove DEF Launched
  <2>3. /\ IdsOf(lane, Users) \subseteq IdsOf(lane', Users) /\ held[p] \subseteq IdsOf(lane', Users)
        /\ IdsOf(lane', {"add"}) = IdsOf(lane, {"add"})
    BY <2>1, HomeJob DEF Users
  <2>4. items \cup Hands \subseteq Home'
    BY <2>2, <2>3 DEF Home
  <2> QED
    BY <1>d, <2>3, <2>4
<1>7. ASSUME NEW p \in Procs, LetsGo(p) PROVE Waiting' \subseteq Home'
  <2>1. held[p] = {} /\ UNCHANGED <<items, lane>>
    BY <1>7 DEF LetsGo, FailInv
  <2>2. Hands \subseteq Hands'
    BY <1>7, <2>1, HandsMove DEF LetsGo
  <2>3. items \cup Hands \subseteq Home'
    BY <2>1, <2>2 DEF Home
  <2> QED
    BY <1>d, <2>1, <2>3
<1> QED
  BY <1>1, <1>2, <1>3, <1>4, <1>5, <1>6, <1>7 DEF Moved

\* The lane uses rows up, writes them, or fails to.
LEMMA HomeLane ==
    ASSUME Faultless, Shapes, NumInv, JobsFit, ListInv, OneSeat, FailInv, LaneRuns \/ LaneFails,
           Waiting \subseteq Home, Told \subseteq Told' \cup IdsOf(lane', Carry)
    PROVE  Waiting' \subseteq Home'
<1> DEFINE j == Head(lane)
           X == ToSet(j.ids)
<1>a. lane # <<>> /\ lane' = Tail(lane) /\ lane \in Seq(Jobs) /\ j \in Jobs
  BY HeadJob DEF LaneRuns, LaneFails, Shapes, TurnShape
<1>b. \A K : IdsOf(lane, K) = IdsOf(lane', K) \cup (IF j.k \in K THEN X ELSE {})
  BY <1>a, IdsTail
<1>c. Told \subseteq Home'
  BY UsersCarry DEF Home
<1>d. held' = held /\ Hands' = Hands
  BY DEF LaneRuns, LaneFails, Hands
<1>e. j.k \in Users => X \cap IdsOf(lane', {"add"}) = {}
  <2>1. ASSUME j.k \in Users PROVE X \cap IdsOf(lane', JobKinds \ {"end"}) = {}
    BY <1>a, <2>1, HeadLeaves DEF Users
  <2>2. IdsOf(lane', {"add"}) \subseteq IdsOf(lane', JobKinds \ {"end"})
    BY IdsMono DEF JobKinds
  <2> QED
    BY <2>1, <2>2
<1> HIDE DEF j, X
<1>1. CASE LaneRuns
  <2>1. /\ items' = items
        /\ \/ j.k = "add" /\ ToSet(rows') \subseteq ToSet(rows) \cup X
           \/ j.k \in Users /\ ToSet(rows') = ToSet(rows) \ X
           \/ j.k = "end" /\ rows' = rows
    BY <1>1, LaneRunsIs DEF j, X, Carry, Users
  <2>2. CASE j.k = "add" /\ ToSet(rows') \subseteq ToSet(rows) \cup X
    <3>1. Waiting' \subseteq Waiting
      BY <1>b, <2>2 DEF Waiting
    <3>2. IdsOf(lane, Users) = IdsOf(lane', Users)
      BY <1>b, <2>2 DEF Users
    <3>3. items \cup Hands \cup IdsOf(lane, Users) \subseteq Home'
      BY <1>d, <2>1, <3>2 DEF Home
    <3> QED
      BY <1>c, <3>1, <3>3, HomeStays
  <2>3. CASE j.k \in Users /\ ToSet(rows') = ToSet(rows) \ X
    <3>1. Waiting' \subseteq Waiting \cup {} /\ X \cap Waiting' = {}
      BY <1>b, <1>e, <2>3 DEF Waiting
    <3>2. IdsOf(lane, Users) \subseteq IdsOf(lane', Users) \cup X
      BY <1>b
    <3>3. items \cup Hands \cup IdsOf(lane, Users) \subseteq Home' \cup X
      BY <1>d, <2>1, <3>2 DEF Home
    <3> QED
      BY <1>c, <3>1, <3>3, HomeLeaves
  <2>4. CASE j.k = "end" /\ rows' = rows
    <3>1. IdsOf(lane, Users) = IdsOf(lane', Users) /\ IdsOf(lane, {"add"}) = IdsOf(lane', {"add"})
      BY <1>b, <2>4 DEF Users
    <3>2. Waiting' \subseteq Waiting
      BY <2>4, <3>1 DEF Waiting
    <3>3. items \cup Hands \cup IdsOf(lane, Users) \subseteq Home'
      BY <1>d, <2>1, <3>1 DEF Home
    <3> QED
      BY <1>c, <3>2, <3>3, HomeStays
  <2> QED
    BY <2>1, <2>2, <2>3, <2>4
<1>2. CASE LaneFails
  <2>1. JobFails(j) /\ j.k \in {"add", "accept"}
    BY <1>2 DEF LaneFails, JobFails, Faultless, j
  <2>2. rows' = rows /\ (j.k = "add" => items' = items) /\ (j.k = "accept" => items' = items \cup X)
    BY <2>1 DEF JobFails, PutBack, FailInv, tables, X
  <2>3. Waiting' \subseteq Waiting
    BY <1>b, <2>2 DEF Waiting
  <2>4. IdsOf(lane, Users) \subseteq IdsOf(lane', Users) \cup (IF j.k = "accept" THEN X ELSE {})
    BY <1>b, <2>1 DEF Users
  <2>5. items \cup Hands \cup IdsOf(lane, Users) \subseteq Home'
    BY <1>d, <2>1, <2>2, <2>4 DEF Home
  <2> QED
    BY <1>c, <2>3, <2>5, HomeStays
<1> QED
  BY <1>1, <1>2

\* The steps that change what a message is.
LEMMA HomeActs ==
    ASSUME Shapes, NumInv, JobsFit, ListInv, OneSeat, SpentInv, FailInv,
           \/ \E f \in Frames : Steered(f) \/ RecordSteer(f) \/ Add(f) \/ SendJob(f) \/ StartTurn(f)
           \/ (TurnEnds /\ items' # items) \/ PumpAccepts
           \/ \E p \in Returners : GiveBack(p),
           Waiting \subseteq Home, Told \subseteq Told' \cup IdsOf(lane', Carry)
    PROVE  Waiting' \subseteq Home'
<1>a. /\ held \in [Procs -> SUBSET Msgs] /\ Frames \subseteq Procs /\ Returners \subseteq Procs
      /\ \A p \in Procs : held[p] # {} => pc[p] \in Keeps
      /\ \A f \in Frames : Of[f] \in Msgs
      /\ WaitsInv /\ StoredInv /\ ReturnInv
  BY QueueAssumption DEF Shapes, ProcShape, Procs, Returners, JobsFit, SpentInv
<1>c. Told \subseteq Home'
  BY UsersCarry DEF Home
<1>d. ASSUME rows' = rows, IdsOf(lane', {"add"}) \subseteq IdsOf(lane, {"add"}),
             IdsOf(lane, Users) \subseteq IdsOf(lane', Users), items \cup Hands \subseteq Home'
      PROVE  Waiting' \subseteq Home'
  <2>1. Waiting' \subseteq Waiting
    BY <1>d DEF Waiting
  <2>2. items \cup Hands \cup IdsOf(lane, Users) \subseteq Home'
    BY <1>d DEF Home
  <2> QED
    BY <1>c, <2>1, <2>2, HomeStays
\* A batch leaves the hands of a process when its rows are gone.
<1>e. ASSUME NEW p \in Procs, held' = [held EXCEPT ![p] = {}], UNCHANGED <<rows, lane, items>>,
             held[p] \cap Waiting = {}
      PROVE  Waiting' \subseteq Home'
  <2>1. Waiting' \subseteq Waiting \cup {} /\ held[p] \cap Waiting' = {}
    BY <1>e DEF Waiting
  <2>2. Hands \subseteq Hands' \cup held[p]
    BY <1>e, HandsMove
  <2>3. items \cup Hands \cup IdsOf(lane, Users) \subseteq Home' \cup held[p]
    BY <1>e, <2>2 DEF Home
  <2> QED
    BY <1>c, <2>1, <2>3, HomeLeaves
<1>1. ASSUME NEW f \in Frames, Steered(f) PROVE Waiting' \subseteq Home'
  BY <1>1, <1>d DEF Steered, queue, tables, Home, Hands
<1>2. ASSUME NEW f \in Frames, RecordSteer(f) PROVE Waiting' \subseteq Home'
  <2>1. items \cup Hands \subseteq Home' /\ rows' = rows
    BY <1>2, RecordSteerIs DEF Home, Hands
  <2>2. CASE lane' = lane
    BY <1>d, <2>1, <2>2
  <2>3. ASSUME NEW j \in Jobs, lane' = Append(lane, j), j.k = "steer" PROVE Waiting' \subseteq Home'
    BY <1>d, <2>1, <2>3, HomeJob
  <2> QED
    BY <1>2, <2>2, <2>3, RecordSteerIs
<1>3. ASSUME NEW f \in Frames, Add(f) PROVE Waiting' \subseteq Home'
  <2>1. UNCHANGED <<held, rows>>
    BY <1>3, AddIs
  <2>2. CASE UNCHANGED <<items, lane>>
    BY <1>d, <2>1, <2>2 DEF Home, Hands
  <2>3. ASSUME items' = items \cup {Of[f]}, NEW j \in Jobs, lane' = Append(lane, j), j.k = "add",
               j.ids = <<Of[f]>>
        PROVE  Waiting' \subseteq Home'
    <3>1. /\ ToSet(j.ids) = {Of[f]}
          /\ IdsOf(lane', {"add"}) = IdsOf(lane, {"add"}) \cup ToSet(j.ids)
          /\ IdsOf(lane, Users) \subseteq IdsOf(lane', Users)
      BY <2>3, SoleId, HomeJob
    <3>2. Waiting' \subseteq Waiting \cup {Of[f]} /\ {Of[f]} \subseteq Home'
      BY <2>1, <2>3, <3>1 DEF Waiting, Home
    <3>3. items \cup Hands \cup IdsOf(lane, Users) \subseteq Home'
      BY <2>1, <2>3, <3>1 DEF Home, Hands
    <3> QED
      BY <1>c, <3>2, <3>3, HomeGains
  <2> QED
    BY <1>3, <2>2, <2>3, AddIs
<1>4. ASSUME NEW f \in Frames, SendJob(f) PROVE Waiting' \subseteq Home'
  <2>1. /\ pc[f] = "gates" /\ items' = items \ By(Who(f)) /\ rows' = rows
        /\ held' = [held EXCEPT ![f] = By(Who(f))]
    BY <1>4 DEF SendJob, tables
  <2>2. held[f] = {}
    BY <1>a, <2>1 DEF Keeps
  <2>3. Hands \subseteq Hands' /\ By(Who(f)) \subseteq Hands'
    BY <1>a, <2>1, <2>2, HandsMove
  <2>4. items \cup Hands \subseteq Home'
    BY <2>1, <2>3 DEF Home
  <2>5. PICK j \in Jobs : lane' = Append(lane, j) /\ j.k = "send"
    BY <1>4, SendJobIs
  <2> QED
    BY <1>d, <2>1, <2>4, <2>5, HomeJob
<1>5. ASSUME NEW f \in Frames, StartTurn(f) PROVE Waiting' \subseteq Home'
  <2>1. /\ pc[f] = "stored" /\ held' = [held EXCEPT ![f] = {}] /\ UNCHANGED <<rows, lane, items>>
    BY <1>5 DEF StartTurn, queue, tables
  <2>2. held[f] \subseteq Paid
    BY <1>a, <2>1 DEF StoredInv, Paid, Shown
  <2>3. IdsOf(lane, {"add"}) \subseteq IdsOf(lane, Rowed)
    BY IdsMono DEF Rowed
  <2>4. held[f] \cap Waiting = {}
    BY <1>a, <2>2, <2>3 DEF WaitsInv, Fresh, Waiting
  <2> QED
    BY <1>a, <1>e, <2>1, <2>4
<1>6. CASE TurnEnds /\ items' # items
  <2>1. /\ UNCHANGED <<lane, held, rows>>
        /\ \E S \in SUBSET items : \E e \in Events :
              items' = items \ S /\ evq' = Append(evq, e) /\ e.k = "turn" /\ ToSet(e.ids) = S
    BY <1>6, TurnEndsIs
  <2>2. PICK S \in SUBSET items : \E e \in Events :
              items' = items \ S /\ evq' = Append(evq, e) /\ e.k = "turn" /\ ToSet(e.ids) = S
    BY <2>1
  <2>3. items' = items \ S /\ S \subseteq Told'
    BY <2>2, EvqAdds DEF Told
  <2>4. items \cup Hands \subseteq Home'
    BY <2>1, <2>3 DEF Home, Hands
  <2> QED
    BY <1>d, <2>1, <2>4
<1>7. CASE PumpAccepts
  <2>1. /\ UNCHANGED <<items, held, rows>>
        /\ \E j \in Jobs : lane' = Append(lane, j) /\ j.k \in {"turn", "steer"}
    BY <1>7, PumpAcceptsIs
  <2>2. items \cup Hands \subseteq Home'
    BY <2>1 DEF Home, Hands
  <2> QED
    BY <1>d, <2>1, <2>2, HomeJob
<1>8. ASSUME NEW p \in Returners, GiveBack(p) PROVE Waiting' \subseteq Home'
  <2>1. /\ pc[p] = "dropped" /\ held' = [held EXCEPT ![p] = {}] /\ UNCHANGED <<rows, lane, items>>
    BY <1>8 DEF GiveBack, queue, tables
  <2>2. held[p] \cap Waiting = {}
    BY <1>a, <2>1 DEF ReturnInv, Waiting
  <2> QED
    BY <1>a, <1>e, <2>1, <2>2
<1> QED
  BY <1>1, <1>2, <1>3, <1>4, <1>5, <1>6, <1>7, <1>8

LEMMA HomeKept ==
    ASSUME Faultless, Shapes, NumInv, JobsFit, ListInv, QuietInv, OneSeat, SpentInv, FailInv,
           HomeInv, Heard, [Next]_vars
    PROVE  HomeInv'
<1>a. ASSUME NEW a \in Authors, Revoke(a) PROVE FALSE
  <2>1. used["revoke"] < Limit["revoke"] /\ Limit["revoke"] = 0
    BY <1>a DEF Revoke, Spend, Limit, Faultless, Bounds
  <2>2. used["revoke"] \in Nat
    BY DEF Shapes, FateShape, Bounds
  <2> QED
    BY <2>1, <2>2
<1>b. ASSUME RevokeEnds PROVE FALSE
  BY <1>b DEF RevokeEnds, FailInv
<1>c. ld # "yes" => InLane = {} /\ items = {}
  BY DEF QuietInv, Afoot
<1>1. CASE LoadRead
  BY <1>1 DEF LoadRead, HomeInv, tables
<1>2. CASE LoadEnd
  <2>1. ld = "listed" /\ ld' = "yes" /\ UNCHANGED <<rows, lane>>
    BY <1>2 DEF LoadEnd, tables
  <2>2. items' = items \cup (ToSet(snap) \ items)
    BY <1>2, LoadsIs
  <2>3. IdsOf(lane', {"add"}) = {}
    BY <1>c, <2>1, IdsMono DEF InLane, JobKinds
  <2>4. Waiting' \subseteq items'
    BY <2>1, <2>2, <2>3 DEF Waiting, HomeInv
  <2> QED
    BY <2>1, <2>4 DEF HomeInv, Home
<1>3. CASE Crash
  BY <1>3 DEF Crash, HomeInv
<1>4. CASE Moved /\ UNCHANGED fixed
  <2>1. UNCHANGED <<ld, rows, snap>>
    BY <1>4 DEF fixed
  <2>2. ld' = "yes" => Waiting' \subseteq Home'
    BY <1>4, <2>1, HomeGoes DEF Heard, HomeInv
  <2> QED
    BY <2>1, <2>2 DEF HomeInv
<1>5. CASE LaneRuns \/ LaneFails
  <2>1. UNCHANGED <<ld, snap>>
    BY <1>5 DEF LaneRuns, LaneFails, loading
  <2>2. ld' = "yes" => Waiting' \subseteq Home'
    BY <1>5, <2>1, HomeLane DEF Heard, HomeInv
  <2>3. ld' = "listed" => ToSet(rows') \subseteq ToSet(rows)
    <3>1. CASE LaneRuns
      <4>1. ToSet(rows') \subseteq ToSet(rows) \cup ToSet(Head(lane).ids) /\ lane # <<>>
        BY <3>1, LaneRunsIs
      <4> QED
        BY <1>c, <2>1, <4>1, LaneHead
    <3>2. CASE LaneFails
      <4>1. rows' = rows
        BY <3>2 DEF LaneFails, JobFails, Faultless, tables
      <4> QED
        BY <4>1
    <3> QED
      BY <1>5, <3>1, <3>2
  <2> QED
    BY <2>1, <2>2, <2>3 DEF HomeInv
<1>6. CASE \/ \E f \in Frames : Steered(f) \/ RecordSteer(f) \/ Add(f) \/ SendJob(f) \/ StartTurn(f)
           \/ (TurnEnds /\ items' # items) \/ PumpAccepts
           \/ \E p \in Returners : GiveBack(p)
  <2>1. UNCHANGED <<ld, snap, rows>>
    BY <1>6 DEF Steered, RecordSteer, Add, SendJob, StartTurn, TurnEnds, PumpAccepts, GiveBack,
       loading, tables
  <2>2. ld' = "yes" => Waiting' \subseteq Home'
    BY <1>6, <2>1, HomeActs DEF Heard, HomeInv
  <2> QED
    BY <2>1, <2>2 DEF HomeInv
<1> QED
  BY <1>a, <1>b, <1>1, <1>2, <1>3, <1>4, <1>5, <1>6, StepsAre DEF Acted

LEMMA HomeAtStart == Init => FailInv /\ CloseInv /\ HomeInv
<1> SUFFICES ASSUME Init PROVE FailInv /\ CloseInv /\ HomeInv
  OBVIOUS
<1>1. /\ ld = "no" /\ evq = <<>> /\ held = [p \in Procs |-> {}] /\ revoking = <<>> /\ dropped = {}
  BY DEF Init
<1> QED
  BY <1>1 DEF FailInv, CloseInv, HomeInv

\* Where no job that uses rows up fails but a headless delivery's, nothing is revoked and
\* no pump dies, every row of the loaded queue has somebody who will send it or give it
\* back, over Stops, deferrals, ended turns and restarts (put_back, _persist_tail, load).
THEOREM RowsAreInHand ==
    ASSUME SentOnce, Faultless
    PROVE  Spec => []NoneStranded
<1>1. /\ Shapes /\ NumInv /\ JobsFit /\ ClaimInv /\ ListInv /\ QuietInv /\ OneSeat /\ SpentInv
      /\ FailInv /\ CloseInv /\ HomeInv /\ [Next]_vars
      => FailInv' /\ CloseInv' /\ HomeInv'
  BY FailKept, CloseKept, HomeKept DEF Heard
<1>2. HomeInv => NoneStranded
  <2>1. Home \subseteq InHand
    <3> DEFINE L == UNION {ToSet(lane[i].ids) : i \in 1..Len(lane)}
               E == UNION {ToSet(evq[i].ids) : i \in 1..Len(evq)}
    <3>1. IdsOf(lane, Users) \subseteq L
      BY DEF IdsOf
    <3>2. Told \subseteq E
      BY DEF Told, IdsOf
    <3>3. InHand = items \cup Hands \cup ToSet(pump.batch) \cup E \cup L
      BY DEF InHand, Hands
    <3> HIDE DEF L, E
    <3> QED
      BY <3>1, <3>2, <3>3 DEF Home
  <2> QED
    BY <2>1 DEF HomeInv, Waiting, NoneStranded
<1> QED
  BY <1>1, <1>2, HomeAtStart, AlwaysHeld, AlwaysSeated, AlwaysSpent, PTL DEF Spec

=============================================================================
