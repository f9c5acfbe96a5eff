--------------------------- MODULE AdmissionProofs ---------------------------
(***************************************************************************)
(* Theorems about the admission ledger, for any calls, sessions, people,   *)
(* estimates and bounds: its types, the exact sum of reservations, the     *)
(* budget and the caps, the ring of waiting runs, the slots behind the     *)
(* sessions and the line.                                                  *)
(*                                                                         *)
(* The estimates are summed by a fold.  That the fold has a value at all,  *)
(* and what adding or taking away a session does to it, is proved from the *)
(* existence of minimal counterexamples.                                   *)
(***************************************************************************)
EXTENDS Admission, FiniteSetTheorems, SequenceTheorems, WellFoundedInduction, TLAPS

-----------------------------------------------------------------------------
(* Sums of estimates *)

\* Of finitely many finite sets one has no other below it.
LEMMA MinimalSubset ==
    ASSUME NEW S, IsFiniteSet(S), NEW A, \A T \in A : T \subseteq S, A # {}
    PROVE  \E T \in A : \A U \in A : U \subseteq T => U = T
<1>1. IsWellFoundedOn(StrictSubsetOrdering(S), SUBSET S)
  BY FS_StrictSubsetOrderingWellFounded, FS_FiniteSubsetsOfFinite
<1>2. PICK T \in A : \A U \in A : <<U, T>> \notin StrictSubsetOrdering(S)
  <2>1. A \subseteq SUBSET S
    OBVIOUS
  <2> QED
    BY <1>1, <2>1, WFMin
<1> QED
  BY <1>2 DEF StrictSubsetOrdering

LEMMA LeastNumber ==
    ASSUME NEW N \in SUBSET Nat, N # {}
    PROVE  \E n \in N : \A m \in N : n <= m
<1>1. PICK k \in N : TRUE
  OBVIOUS
<1> DEFINE A == {0..n : n \in N \cap 0..k}
<1>2. IsFiniteSet(0..k)
  BY FS_Interval
<1>3. (\A T \in A : T \subseteq 0..k) /\ A # {}
  <2>1. \A n \in N \cap 0..k : 0..n \subseteq 0..k
    OBVIOUS
  <2>2. 0..k \in A
    OBVIOUS
  <2> QED
    BY <2>1, <2>2
<1>4. PICK T \in A : \A U \in A : U \subseteq T => U = T
  <2> HIDE DEF A
  <2> QED
    BY <1>2, <1>3, MinimalSubset
<1>5. PICK n \in N \cap 0..k : T = 0..n
  BY <1>4
<1>6. ASSUME NEW m \in N, m < n PROVE FALSE
  <2>1. 0..m \in A
    BY <1>5, <1>6
  <2>2. 0..m \subseteq T /\ n \notin 0..m /\ n \in T
    BY <1>5, <1>6
  <2> HIDE DEF A
  <2> QED
    BY <1>4, <2>1, <2>2
<1> QED
  BY <1>5, <1>6

Pick(s) == CHOOSE x \in s : TRUE

Sums(f, D) ==
    f = [T \in D |-> IF T = {} THEN 0 ELSE Est[Pick(T)] + f[T \ {Pick(T)}]]

LEMMA PickIsMember == \A T : T # {} => Pick(T) \in T
  BY DEF Pick

LEMMA SumIs ==
    ASSUME NEW S \in SUBSET Sids
    PROVE EstSum(S) = (CHOOSE f : Sums(f, SUBSET S))[S]
BY DEF EstSum, MapThenSumSet, MapThenFoldSet, Sums, Pick

Small(S, n) == {T \in SUBSET S : Cardinality(T) <= n}

LEMMA SmallStep ==
    ASSUME NEW S \in SUBSET Sids, NEW n \in Nat, NEW f, Sums(f, Small(S, n))
    PROVE  \E g : Sums(g, Small(S, n + 1))
<1> DEFINE D == Small(S, n)
           E1 == Small(S, n + 1)
           g == [T \in E1 |-> IF T = {} THEN 0 ELSE Est[Pick(T)] + f[T \ {Pick(T)}]]
<1>1. IsFiniteSet(S)
  BY AdmissionAssumption, FS_Subset
<1>2. ASSUME NEW T \in E1, T # {} PROVE T \ {Pick(T)} \in D
  <2>1. IsFiniteSet(T)
    BY <1>1, FS_Subset DEF Small
  <2>2. Pick(T) \in T
    BY <1>2, PickIsMember
  <2>3. Cardinality(T \ {Pick(T)}) = Cardinality(T) - 1 /\ Cardinality(T) \in Nat
    BY <2>1, <2>2, FS_RemoveElement, FS_CardinalityType
  <2>4. Cardinality(T) <= n + 1 /\ T \subseteq S
    BY DEF Small
  <2> HIDE DEF g
  <2> QED
    BY <2>3, <2>4 DEF Small
<1>3. ASSUME NEW T \in D PROVE T \in E1 /\ g[T] = f[T]
  <2>1. T \in E1
    <3>1. Cardinality(T) \in Nat
      BY <1>1, FS_Subset, FS_CardinalityType DEF Small
    <3> QED
      BY <3>1 DEF Small
  <2>2. f[T] = IF T = {} THEN 0 ELSE Est[Pick(T)] + f[T \ {Pick(T)}]
    BY DEF Sums
  <2> QED
    BY <2>1, <2>2
<1>4. \A T \in E1 : g[T] = IF T = {} THEN 0 ELSE Est[Pick(T)] + f[T \ {Pick(T)}]
  OBVIOUS
<1>5. g = [T \in E1 |-> g[T]]
  OBVIOUS
<1>6. \A T \in E1 : g[T] = IF T = {} THEN 0 ELSE Est[Pick(T)] + g[T \ {Pick(T)}]
  <2> HIDE DEF g, D, E1
  <2> QED
    BY <1>2, <1>3, <1>4
<1>7. Sums(g, E1)
  <2> HIDE DEF g, D, E1
  <2> QED
    BY <1>5, <1>6 DEF Sums
<1> QED
  BY <1>7

LEMMA SumsExist ==
    ASSUME NEW S \in SUBSET Sids
    PROVE  \E f : Sums(f, SUBSET S)
<1> DEFINE N == {n \in Nat : ~ \E f : Sums(f, Small(S, n))}
<1>1. IsFiniteSet(S)
  BY AdmissionAssumption, FS_Subset
<1>2. 0 \notin N
  <2> DEFINE f == [T \in {{}} |-> 0]
  <2>1. \A T \in SUBSET S : Cardinality(T) \in Nat /\ (Cardinality(T) = 0 <=> T = {})
    BY <1>1, FS_Subset, FS_CardinalityType, FS_EmptySet
  <2>2. Small(S, 0) = {{}}
    BY <2>1 DEF Small
  <2>3. f = [T \in {{}} |-> IF T = {} THEN 0 ELSE Est[Pick(T)] + f[T \ {Pick(T)}]]
    OBVIOUS
  <2>4. Sums(f, Small(S, 0))
    BY <2>2, <2>3 DEF Sums
  <2> QED
    BY <2>4
<1>3. ASSUME NEW n \in Nat, n \notin N PROVE n + 1 \notin N
  BY <1>3, SmallStep
<1>4. N = {}
  <2> SUFFICES ASSUME N # {} PROVE FALSE
    OBVIOUS
  <2>1. PICK n \in N : \A m \in N : n <= m
    BY LeastNumber
  <2>2. n \in Nat /\ n # 0
    BY <1>2
  <2> HIDE DEF N
  <2>3. n - 1 \in Nat /\ n - 1 \notin N
    BY <2>1, <2>2
  <2> QED
    BY <1>3, <2>2, <2>3
<1>5. Cardinality(S) \in Nat
  BY <1>1, FS_CardinalityType
<1>6. Small(S, Cardinality(S)) = SUBSET S
  BY <1>1, FS_Subset DEF Small
<1>7. \E f : Sums(f, Small(S, Cardinality(S)))
  BY <1>4, <1>5
<1> QED
  BY <1>6, <1>7

LEMMA SumsAgree ==
    ASSUME NEW R \in SUBSET Sids, NEW f, NEW g,
           Sums(f, SUBSET Sids), Sums(g, SUBSET R)
    PROVE  \A T \in SUBSET R : f[T] = g[T]
<1> DEFINE A == {T \in SUBSET R : f[T] # g[T]}
<1> SUFFICES ASSUME A # {} PROVE FALSE
  OBVIOUS
<1>1. IsFiniteSet(R)
  BY AdmissionAssumption, FS_Subset
<1>2. PICK T \in A : \A U \in A : U \subseteq T => U = T
  <2>1. \A T \in A : T \subseteq R
    OBVIOUS
  <2> HIDE DEF A
  <2> QED
    BY <1>1, <2>1, MinimalSubset
<1>3. /\ f[T] = IF T = {} THEN 0 ELSE Est[Pick(T)] + f[T \ {Pick(T)}]
      /\ g[T] = IF T = {} THEN 0 ELSE Est[Pick(T)] + g[T \ {Pick(T)}]
  BY DEF Sums
<1>4. T # {}
  BY <1>3
<1>5. Pick(T) \in T
  BY <1>4, PickIsMember
<1>6. f[T \ {Pick(T)}] = g[T \ {Pick(T)}]
  BY <1>2, <1>5
<1> QED
  BY <1>3, <1>4, <1>6

\* What the sums of a set of sessions are, as one function.
SumOf == CHOOSE f : Sums(f, SUBSET Sids)

LEMMA SumOfSums == Sums(SumOf, SUBSET Sids)
  BY SumsExist DEF SumOf

LEMMA SumIsSumOf == \A S \in SUBSET Sids : EstSum(S) = SumOf[S]
<1> TAKE S \in SUBSET Sids
<1> DEFINE h == CHOOSE f : Sums(f, SUBSET S)
<1>1. Sums(h, SUBSET S)
  BY SumsExist
<1>2. EstSum(S) = h[S]
  BY SumIs
<1> HIDE DEF h
<1>3. \A T \in SUBSET S : SumOf[T] = h[T]
  BY <1>1, SumOfSums, SumsAgree
<1> QED
  BY <1>2, <1>3

LEMMA SumStep ==
    ASSUME NEW T \in SUBSET Sids
    PROVE  /\ SumOf[T] = IF T = {} THEN 0 ELSE Est[Pick(T)] + SumOf[T \ {Pick(T)}]
BY SumOfSums DEF Sums

LEMMA SumType == \A T \in SUBSET Sids : SumOf[T] \in Nat
<1> DEFINE A == {T \in SUBSET Sids : SumOf[T] \notin Nat}
<1> SUFFICES ASSUME A # {} PROVE FALSE
  OBVIOUS
<1>1. PICK T \in A : \A U \in A : U \subseteq T => U = T
  <2>1. \A T \in A : T \subseteq Sids
    OBVIOUS
  <2> HIDE DEF A
  <2> QED
    BY AdmissionAssumption, <2>1, MinimalSubset
<1>2. T # {}
  BY SumStep
<1>3. Pick(T) \in T
  BY <1>2, PickIsMember
<1>4. SumOf[T \ {Pick(T)}] \in Nat
  BY <1>1, <1>3
<1>5. Est[Pick(T)] \in Nat
  BY <1>3, AdmissionAssumption
<1> QED
  BY <1>2, <1>4, <1>5, SumStep

LEMMA SumMember ==
    \A T \in SUBSET Sids : \A x \in T : SumOf[T] = Est[x] + SumOf[T \ {x}]
<1> DEFINE A == {T \in SUBSET Sids : \E x \in T : SumOf[T] # Est[x] + SumOf[T \ {x}]}
<1> SUFFICES ASSUME A # {} PROVE FALSE
  OBVIOUS
<1>1. PICK T \in A : \A U \in A : U \subseteq T => U = T
  <2>1. \A T \in A : T \subseteq Sids
    OBVIOUS
  <2> HIDE DEF A
  <2> QED
    BY AdmissionAssumption, <2>1, MinimalSubset
<1>2. PICK x \in T : SumOf[T] # Est[x] + SumOf[T \ {x}]
  BY <1>1
<1> DEFINE p == Pick(T)
<1>3. p \in T
  BY <1>2, PickIsMember
<1>4. SumOf[T] = Est[p] + SumOf[T \ {p}]
  BY <1>2, SumStep
<1>5. p # x
  BY <1>2, <1>4
<1> HIDE DEF p
<1>6. T \ {p} \notin A /\ T \ {x} \notin A
  BY <1>1, <1>2, <1>3
<1>7. /\ SumOf[T \ {p}] = Est[x] + SumOf[(T \ {p}) \ {x}]
      /\ SumOf[T \ {x}] = Est[p] + SumOf[(T \ {x}) \ {p}]
  BY <1>2, <1>3, <1>5, <1>6
<1>8. (T \ {p}) \ {x} = (T \ {x}) \ {p}
  OBVIOUS
<1>9. Est[p] \in Nat /\ Est[x] \in Nat /\ SumOf[(T \ {x}) \ {p}] \in Nat
  BY <1>2, <1>3, SumType, AdmissionAssumption
<1>10. SumOf[T] = Est[p] + (Est[x] + SumOf[(T \ {x}) \ {p}])
  BY <1>4, <1>7, <1>8
<1>11. Est[x] + SumOf[T \ {x}] = Est[x] + (Est[p] + SumOf[(T \ {x}) \ {p}])
  BY <1>7
<1> QED
  BY <1>2, <1>9, <1>10, <1>11

LEMMA EstSumEmpty == EstSum({}) = 0
  BY SumIsSumOf, SumStep

LEMMA EstSumType == \A S \in SUBSET Sids : EstSum(S) \in Nat
  BY SumIsSumOf, SumType

LEMMA EstSumAdd ==
    ASSUME NEW S \in SUBSET Sids, NEW s \in Sids \ S
    PROVE  EstSum(S \cup {s}) = EstSum(S) + Est[s]
<1>1. (S \cup {s}) \ {s} = S
  OBVIOUS
<1>2. SumOf[S \cup {s}] = Est[s] + SumOf[S]
  BY <1>1, SumMember
<1> QED
  BY <1>2, SumIsSumOf, SumType, AdmissionAssumption

LEMMA EstSumUnion ==
    ASSUME NEW S \in SUBSET Sids
    PROVE  \A T \in SUBSET (Sids \ S) : EstSum(S \cup T) = EstSum(S) + EstSum(T)
<1> DEFINE A == {T \in SUBSET (Sids \ S) : EstSum(S \cup T) # EstSum(S) + EstSum(T)}
<1> SUFFICES ASSUME A # {} PROVE FALSE
  OBVIOUS
<1>1. IsFiniteSet(Sids \ S)
  BY AdmissionAssumption, FS_Subset
<1>2. PICK T \in A : \A U \in A : U \subseteq T => U = T
  <2>1. \A T \in A : T \subseteq (Sids \ S)
    OBVIOUS
  <2> HIDE DEF A
  <2> QED
    BY <1>1, <2>1, MinimalSubset
<1>3. T # {}
  <2>1. S \cup {} = S
    OBVIOUS
  <2>2. EstSum(S) = EstSum(S) + EstSum({})
    BY EstSumEmpty, EstSumType
  <2>3. EstSum(S \cup T) # EstSum(S) + EstSum(T)
    BY <1>2
  <2> HIDE DEF A
  <2> QED
    BY <2>1, <2>2, <2>3
<1>4. PICK x \in T : TRUE
  BY <1>3
<1> DEFINE U == T \ {x}
<1>5. U \notin A /\ U \in SUBSET (Sids \ S)
  BY <1>2, <1>4
<1>6. /\ T = U \cup {x} /\ S \cup T = (S \cup U) \cup {x}
      /\ x \in Sids \ U /\ x \in Sids \ (S \cup U)
  BY <1>4
<1>7. EstSum(T) = EstSum(U) + Est[x]
  BY <1>5, <1>6, EstSumAdd
<1>8. EstSum(S \cup T) = EstSum(S \cup U) + Est[x]
  BY <1>5, <1>6, EstSumAdd
<1>9. EstSum(S \cup U) = EstSum(S) + EstSum(U)
  BY <1>5
<1>10. EstSum(S) \in Nat /\ EstSum(U) \in Nat /\ Est[x] \in Nat
  BY <1>5, <1>6, EstSumType, AdmissionAssumption
<1> HIDE DEF U
<1> QED
  BY <1>2, <1>7, <1>8, <1>9, <1>10

LEMMA EstSumPart ==
    ASSUME NEW S \in SUBSET Sids, NEW T \in SUBSET S
    PROVE  EstSum(S \ T) = EstSum(S) - EstSum(T) /\ EstSum(S \ T) <= EstSum(S)
<1>1. S = (S \ T) \cup T
  OBVIOUS
<1>2. EstSum(S) = EstSum(S \ T) + EstSum(T)
  BY <1>1, EstSumUnion
<1> QED
  BY <1>2, EstSumType

-----------------------------------------------------------------------------
(* Leaving a line *)

\* What is left of a sequence without its element at position i.
LEMMA RemoveAtIs ==
    ASSUME NEW S, NEW s \in Seq(S), NEW i \in 1..Len(s)
    PROVE  /\ RemoveAt(s, i) \in Seq(S)
           /\ Len(RemoveAt(s, i)) = Len(s) - 1
           /\ \A j \in 1..(Len(s) - 1) : RemoveAt(s, i)[j] = s[IF j < i THEN j ELSE j + 1]
<1> DEFINE a == SubSeq(s, 1, i - 1)
           b == SubSeq(s, i + 1, Len(s))
<1>1. Len(s) \in Nat /\ i \in Nat
  OBVIOUS
<1>2. a \in Seq(S) /\ Len(a) = i - 1 /\ \A j \in 1..(i - 1) : a[j] = s[j]
  BY <1>1, SubSeqProperties
<1>3. b \in Seq(S) /\ Len(b) = Len(s) - i /\ \A j \in 1..(Len(s) - i) : b[j] = s[i + j]
  BY <1>1, SubSeqProperties
<1> HIDE DEF a, b
<1>4. /\ a \o b \in Seq(S) /\ Len(a \o b) = Len(s) - 1
      /\ \A j \in 1..(Len(s) - 1) :
            (a \o b)[j] = IF j <= i - 1 THEN a[j] ELSE b[j - (i - 1)]
  <2>1. Len(a) + Len(b) = Len(s) - 1
    BY <1>1, <1>2, <1>3
  <2>2. /\ a \o b \in Seq(S) /\ Len(a \o b) = Len(a) + Len(b)
        /\ \A j \in 1..(Len(a) + Len(b)) :
              (a \o b)[j] = IF j <= Len(a) THEN a[j] ELSE b[j - Len(a)]
    BY <1>2, <1>3, ConcatProperties
  <2> QED
    BY <1>2, <2>1, <2>2
<1>5. RemoveAt(s, i) = a \o b
  BY DEF RemoveAt, a, b
<1>6. ASSUME NEW j \in 1..(Len(s) - 1)
      PROVE  RemoveAt(s, i)[j] = s[IF j < i THEN j ELSE j + 1]
  <2>1. CASE j < i
    <3>1. j \in 1..(i - 1)
      BY <1>1, <2>1
    <3> QED
      BY <1>1, <1>2, <1>4, <1>5, <2>1, <3>1
  <2>2. CASE ~ (j < i)
    <3>1. j - (i - 1) \in 1..(Len(s) - i) /\ i + (j - (i - 1)) = j + 1 /\ ~ (j <= i - 1)
      BY <1>1, <2>2
    <3>2. (a \o b)[j] = b[j - (i - 1)]
      BY <1>4, <3>1
    <3>3. b[j - (i - 1)] = s[i + (j - (i - 1))]
      BY <1>3, <3>1
    <3> QED
      BY <1>5, <2>2, <3>1, <3>2, <3>3
  <2> QED
    BY <2>1, <2>2
<1> QED
  BY <1>4, <1>5, <1>6

LEMMA RemoveFirstIs ==
    ASSUME NEW S, NEW s \in Seq(S), NEW e
    PROVE  \/ RemoveFirst(s, e) = s /\ ~Contains(s, e)
           \/ \E i \in 1..Len(s) : s[i] = e /\ RemoveFirst(s, e) = RemoveAt(s, i)
<1> DEFINE I == {i \in 1..Len(s) : s[i] = e}
<1>1. CASE I = {}
  BY <1>1 DEF RemoveFirst, Contains
<1>2. CASE I # {}
  <2>1. \E n \in I : \A m \in I : n <= m
    <3>1. I \in SUBSET Nat
      OBVIOUS
    <3> HIDE DEF I
    <3> QED
      BY <1>2, <3>1, LeastNumber
  <2>2. Min(I) \in I
    BY <2>1 DEF Min
  <2>3. SelectInSeq(s, LAMBDA v : v = e) = Min(I)
    BY <1>2 DEF SelectInSeq
  <2> QED
    BY <1>2, <2>2, <2>3 DEF RemoveFirst
<1> QED
  BY <1>1, <1>2

LEMMA RemoveFirstType ==
    ASSUME NEW S, NEW s \in Seq(S), NEW e
    PROVE  RemoveFirst(s, e) \in Seq(S)
BY RemoveFirstIs, RemoveAtIs

-----------------------------------------------------------------------------
(* What a step does to the ledger *)

\* The reservations stay.
Kept == kind' = kind /\ reserved' = reserved

\* The untracked sessions S are reserved.
Took(S) ==
    /\ S \in SUBSET (Sids \ Tracked)
    /\ Tracked' = Tracked \cup S
    /\ reserved' = reserved + EstSum(S)

\* There is room for S, or nothing is tracked and S is one session.
Roomy(S) ==
    \/ /\ reserved + EstSum(S) <= Budget
       /\ Cap # 0 => Cardinality(Tracked) + Cardinality(S) <= Cap
    \/ Tracked = {} /\ \E s \in Sids : S = {s}

LEMMA OneEstimate == \A s \in Sids : EstSum({s}) = Est[s] /\ Est[s] \in Nat
<1> TAKE s \in Sids
<1>1. {s} = {} \cup {s} /\ s \in Sids \ {} /\ {} \in SUBSET Sids
  OBVIOUS
<1>2. EstSum({s}) = 0 + Est[s]
  BY <1>1, EstSumAdd, EstSumEmpty
<1> QED
  BY <1>2, AdmissionAssumption

LEMMA AddTakes ==
    ASSUME TypeOK, NEW s \in Sids \ Tracked, NEW k \in Kinds, NEW u, Add(s, k, u)
    PROVE  Took({s})
<1>1. Tracked' = Tracked \cup {s}
  BY DEF Add, Tracked, TypeOK, Kinds
<1> QED
  BY <1>1, OneEstimate DEF Add, Took

LEMMA TrackedFinite ==
    /\ IsFiniteSet(Tracked) /\ Cardinality(Tracked) \in Nat /\ Tracked \in SUBSET Sids
<1>1. Tracked \in SUBSET Sids
  BY DEF Tracked
<1> QED
  BY <1>1, AdmissionAssumption, FS_Subset, FS_CardinalityType

\* Each gate leaves room for what it lets in.
LEMMA GateIsRoomy ==
    ASSUME TypeOK, NEW s \in Sids,
           \/ HasRoom(Est[s], TRUE) \/ HasRoom(Est[s], FALSE)
           \/ \E u : SpeculativeRoom(Est[s], u)
    PROVE  Roomy({s})
<1> USE AdmissionAssumption, OneEstimate, TrackedFinite
<1>1. ASSUME NEW t \in BOOLEAN, HasRoom(Est[s], t)
      PROVE  /\ reserved + Est[s] <= Budget
             /\ Cap # 0 => Cardinality(Tracked) + 1 <= Cap
  <2>1. reserved + Est[s] <= Budget - (IF t THEN Heavy ELSE 0)
    BY <1>1 DEF HasRoom, Gate1, Headroom
  <2>2. Cap # 0 => Cardinality(Tracked) + (IF t /\ Cap >= 2 THEN 1 ELSE 0) < Cap
    BY <1>1 DEF HasRoom, Gate1
  <2> QED
    BY <2>1, <2>2 DEF TypeOK
<1>2. ASSUME NEW u, SpeculativeRoom(Est[s], u)
      PROVE  /\ reserved + Est[s] <= Budget
             /\ Cap # 0 => Cardinality(Tracked) + 1 <= Cap
  <2>1. /\ reserved + Est[s] + Heavy <= Budget
        /\ Cap # 0 => Cardinality(Tracked) + 2 <= Cap
    BY <1>2 DEF SpeculativeRoom
  <2> QED
    BY <2>1 DEF TypeOK
<1>3. Cardinality({s}) = 1
  BY FS_Singleton
<1> QED
  BY <1>1, <1>2, <1>3 DEF Roomy

LEMMA MeetingTakes ==
    ASSUME TypeOK, NEW r \in Reqs, AcquireMeeting(r)
    PROVE  Kept \/ (Took(Participants \ Tracked) /\ Roomy(Participants \ Tracked))
<1> DEFINE new == Participants \ Tracked
<1>1. CASE UNCHANGED ledger
  BY <1>1 DEF ledger, Kept
<1>2. CASE ~ UNCHANGED ledger
  <2>1. /\ Cap # 0 => Cardinality(Tracked) + Cardinality(new) <= Cap
        /\ reserved + EstSum(new) <= Budget
        /\ kind' = [s \in Sids |-> IF s \in new THEN "meeting" ELSE kind[s]]
        /\ reserved' = reserved + EstSum(new)
    BY <1>2, Zenon DEF AcquireMeeting
  <2>2. new \in SUBSET (Sids \ Tracked)
    BY AdmissionAssumption
  <2>3. Tracked' = Tracked \cup new
    BY <2>1, <2>2 DEF Tracked
  <2> QED
    BY <2>1, <2>2, <2>3 DEF Took, Roomy
<1> QED
  BY <1>1, <1>2

\* A step keeps the reservations, frees some, or takes what there is room for.
LEMMA LedgerSteps ==
    ASSUME TypeOK, [Next]_vars
    PROVE  \/ Kept
           \/ \E S \in SUBSET Sids : Drop(S)
           \/ \E S \in SUBSET Sids : Took(S) /\ Roomy(S)
<1> DEFINE Grew == \E S \in SUBSET Sids : Took(S) /\ Roomy(S)
           Shrank == \E S \in SUBSET Sids : Drop(S)
<1> USE AdmissionAssumption DEF ledger, queues, world, control
<1>1. \A r \in Reqs : Sid(r) \in Sids /\ Req[r].kind \in Kinds
  BY DEF Sid, RequestType
<1>2. ASSUME NEW s \in Sids \ Tracked, NEW k \in Kinds, NEW u, Add(s, k, u),
             \/ HasRoom(Est[s], TRUE) \/ HasRoom(Est[s], FALSE)
             \/ \E v : SpeculativeRoom(Est[s], v)
             \/ Tracked = {}
      PROVE  Grew
  <2>1. Took({s})
    BY <1>2, AddTakes
  <2>2. Roomy({s})
    BY <1>2, GateIsRoomy DEF Roomy
  <2> QED
    BY <2>1, <2>2
<1>3. ASSUME NEW s \in Sids, NEW u, FillOwner(s, u) PROVE Kept
  BY <1>3 DEF FillOwner, Kept
<1>4. ASSUME NEW r, NEW why, Refuse(r, why) PROVE Kept
  BY <1>4 DEF Refuse, Kept
<1>5. ASSUME UNCHANGED ledger PROVE Kept
  BY <1>5 DEF Kept
<1> HIDE DEF Grew, Shrank
<1>6. ASSUME NEW r \in Reqs,
             Arrive(r) \/ QueueTop(r) \/ QueueDeadline(r) \/ QueueWake(r) \/ Scan(r)
             \/ Verdict(r) \/ EvictClaim(r) \/ EvictClose(r) \/ MaintenancePass(r)
             \/ WakeGivesWay(r) \/ WakeTimeout(r) \/ Abandon(r) \/ Cancel(r)
      PROVE  Kept
  BY <1>6, Zenon
  DEF Arrive, QueueTop, QueueDeadline, QueueWake, Scan, Verdict, EvictClaim, EvictClose,
      MaintenancePass, WakeGivesWay, WakeTimeout, Abandon, Cancel, Refuse, Kept
<1>7. ASSUME NEW r \in Reqs, CapCheck(r) PROVE Kept
  BY <1>7, Zenon DEF CapCheck, AdmitTracked, FillOwner, Kept
<1>8. ASSUME NEW r \in Reqs,
             FastPath(r) \/ AcquireSpeculative(r) \/ QueueCheck(r) \/ AdmitLoop(r)
      PROVE  Kept \/ Grew
  <2>1. CASE FastPath(r)
    BY <1>1, <1>2, <1>3, <1>4, <1>5, <2>1 DEF FastPath, AdmitTracked, AdmitNew, E
  <2>2. CASE AcquireSpeculative(r)
    BY <1>1, <1>2, <1>3, <1>4, <1>5, <2>2 DEF AcquireSpeculative, AdmitTracked, AdmitNew, E
  <2>3. CASE QueueCheck(r)
    BY <1>1, <1>2, <1>3, <1>4, <1>5, <2>3 DEF QueueCheck, AdmitTracked, AdmitNew, E
  <2>4. CASE AdmitLoop(r)
    BY <1>1, <1>2, <1>3, <1>4, <1>5, <2>4 DEF AdmitLoop, AdmitTracked, AdmitNew, E
  <2> QED
    BY <1>8, <2>1, <2>2, <2>3, <2>4
<1>9. ASSUME NEW r \in Reqs, AcquireTask(r) PROVE Kept \/ Grew
  BY <1>1, <1>2, <1>3, <1>5, <1>9 DEF AcquireTask, E
<1>10. ASSUME NEW r \in Reqs, RingAdmit(r) PROVE Kept \/ Grew
  <2>1. CASE FillOwner(Sid(r), User(r))
    BY <1>1, <1>3, <2>1
  <2>2. CASE /\ Sid(r) \notin Tracked /\ RingTurn(r)
             /\ Add(Sid(r), Req[r].kind, User(r))
    <3>1. HasRoom(E(r), TRUE)
      BY <2>2 DEF RingTurn
    <3> QED
      BY <1>1, <1>2, <2>2, <3>1 DEF E
  <2> QED
    BY <1>10, <2>1, <2>2 DEF RingAdmit
<1>11. ASSUME NEW r \in Reqs, ReserveBackground(r) \/ WakeRecheck(r) PROVE Kept \/ Grew
  <2>1. ASSUME WakeLook(r) PROVE Kept \/ Grew
    <3>1. "chat" \in Kinds
      BY DEF Kinds
    <3> QED
      BY <1>1, <1>2, <1>5, <2>1, <3>1 DEF WakeLook, E
  <2> QED
    BY <1>5, <1>11, <2>1 DEF ReserveBackground, WakeRecheck
<1>12. ASSUME NEW r \in Reqs, AcquireMeeting(r) PROVE Kept \/ Grew
  <2>1. Participants \ Tracked \in SUBSET Sids
    OBVIOUS
  <2> QED
    BY <1>12, <2>1, MeetingTakes DEF Grew
<1>13. ASSUME NEW r \in Reqs, EvictRemove(r) \/ EvictRelease(r) PROVE Shrank \/ Kept
  <2>1. Drop({victim[r]})
    BY <1>13 DEF EvictRemove, EvictRelease
  <2>2. CASE victim[r] \in Sids
    BY <2>1, <2>2 DEF Shrank
  <2>3. CASE victim[r] \notin Sids
    <3>1. {victim[r]} \cap Tracked = {} /\ {} \cap Tracked = {}
      BY <2>3 DEF Tracked
    <3>2. Drop({})
      BY <2>1, <3>1, Zenon DEF Drop
    <3> QED
      BY <3>2 DEF Shrank
  <2> QED
    BY <2>2, <2>3
<1>14. ASSUME NEW r \in Reqs, RunEnds(r) PROVE Shrank
  <2>1. PICK own \in SUBSET Sids : Drop(own)
    BY <1>1, <1>14 DEF RunEnds, Seats
  <2> QED
    BY <2>1 DEF Shrank
<1>15. ASSUME NEW s \in Sids, SpawnFails(s) \/ CloseEnds(s) PROVE Shrank
  <2>1. Drop({s})
    BY <1>15 DEF SpawnFails, CloseEnds
  <2> QED
    BY <2>1 DEF Shrank
<1>16. ASSUME NEW s \in Sids,
              Spawn(s) \/ CloseBegins(s) \/ AgeOut(s)
              \/ \E m \in {"active", "idle", "background"} : SetMode(s, m)
       PROVE  Kept
  BY <1>16, Zenon DEF Spawn, CloseBegins, AgeOut, SetMode, Kept
<1>17. ASSUME HostMemory \/ ReconcileReads \/ UNCHANGED vars PROVE Kept
  BY <1>17, Zenon DEF HostMemory, ReconcileReads, vars, Kept
<1>18. ASSUME ReconcileFrees PROVE Shrank
  <2>1. Drop({s \in recon : kind[s] \notin {"none", "task"} /\ age[s] = "old"})
    BY <1>18 DEF ReconcileFrees
  <2>2. {s \in recon : kind[s] \notin {"none", "task"} /\ age[s] = "old"} \in SUBSET Sids
    BY DEF TypeOK
  <2> QED
    BY <2>1, <2>2 DEF Shrank
<1>19. Kept \/ Shrank \/ Grew
  BY <1>6, <1>7, <1>8, <1>9, <1>10, <1>11, <1>12, <1>13, <1>14, <1>15, <1>16, <1>17, <1>18
  DEF Next
<1> QED
  BY <1>19 DEF Grew, Shrank

\* Freeing gives back exactly the estimates of what was tracked.
LEMMA DropIs ==
    ASSUME TypeOK, LedgerExact, NEW S \in SUBSET Sids, Drop(S)
    PROVE  /\ Tracked' = Tracked \ S
           /\ reserved' = EstSum(Tracked \ S)
           /\ reserved' <= reserved
<1> DEFINE held == S \cap Tracked
<1>1. Tracked' = Tracked \ S
  BY DEF Drop, Tracked
<1>2. /\ EstSum(Tracked \ held) = EstSum(Tracked) - EstSum(held)
      /\ EstSum(Tracked \ held) <= EstSum(Tracked)
  BY TrackedFinite, EstSumPart
<1>3. Tracked \ held = Tracked \ S
  OBVIOUS
<1>4. EstSum(Tracked \ held) \in Nat
  BY TrackedFinite, EstSumType
<1>5. reserved' = IF reserved - EstSum(held) < 0 THEN 0 ELSE reserved - EstSum(held)
  BY Zenon DEF Drop
<1> HIDE DEF held
<1> QED
  BY <1>1, <1>2, <1>3, <1>4, <1>5 DEF LedgerExact

LEMMA ExactStep ==
    ASSUME TypeOK, LedgerExact, [Next]_vars
    PROVE  LedgerExact'
<1>1. CASE Kept
  BY <1>1 DEF Kept, LedgerExact, Tracked
<1>2. ASSUME NEW S \in SUBSET Sids, Drop(S) PROVE LedgerExact'
  BY <1>2, DropIs DEF LedgerExact
<1>3. ASSUME NEW S \in SUBSET Sids, Took(S) PROVE LedgerExact'
  <2>1. EstSum(Tracked \cup S) = EstSum(Tracked) + EstSum(S)
    BY <1>3, TrackedFinite, EstSumUnion DEF Took
  <2> QED
    BY <1>3, <2>1 DEF Took, LedgerExact
<1> QED
  BY <1>1, <1>2, <1>3, LedgerSteps

LEMMA BudgetStep ==
    ASSUME TypeOK, LedgerExact, BudgetKept, [Next]_vars
    PROVE  BudgetKept'
<1> USE AdmissionAssumption, TrackedFinite
<1>1. CASE Kept
  BY <1>1 DEF Kept, BudgetKept, Tracked
<1>2. ASSUME NEW S \in SUBSET Sids, Drop(S) PROVE BudgetKept'
  <2>1. /\ Tracked' = Tracked \ S
        /\ EstSum(Tracked') <= EstSum(Tracked) /\ EstSum(Tracked') \in Nat
        /\ EstSum(Tracked) \in Nat
    <3>1. EstSum(Tracked \ S) \in Nat /\ EstSum(Tracked) \in Nat
      BY EstSumType
    <3> QED
      BY <1>2, <3>1, DropIs DEF LedgerExact
  <2>2. /\ Cardinality(Tracked') \in Nat /\ Cardinality(Tracked') <= Cardinality(Tracked)
        /\ Cardinality(Tracked') = Cardinality(Tracked) => Tracked' = Tracked
        /\ Cardinality(Tracked') = 0 => Tracked' = {}
    BY <2>1, FS_Subset, FS_CardinalityType, FS_EmptySet
  <2>3. EstSum(Tracked') <= Budget \/ Cardinality(Tracked') = 1
    <3>1. Budget \in Nat
      OBVIOUS
    <3>2. CASE EstSum(Tracked) <= Budget
      BY <2>1, <3>1, <3>2
    <3>3. CASE Cardinality(Tracked) = 1
      <4>1. Cardinality(Tracked') = 1 \/ Tracked' = {}
        BY <2>2, <3>3
      <4>2. ASSUME Tracked' = {} PROVE EstSum(Tracked') <= Budget
        <5>1. EstSum(Tracked') = 0
          BY <4>2, EstSumEmpty, Zenon
        <5> QED
          BY <3>1, <5>1
      <4> QED
        BY <4>1, <4>2
    <3> QED
      BY <3>2, <3>3 DEF BudgetKept
  <2>4. Cap # 0 => Cardinality(Tracked') <= Cap
    BY <2>2 DEF BudgetKept
  <2> QED
    BY <2>3, <2>4 DEF BudgetKept
<1>3. ASSUME NEW S \in SUBSET Sids, Took(S), Roomy(S) PROVE BudgetKept'
  <2>1. EstSum(Tracked') = reserved + EstSum(S) /\ Tracked' = Tracked \cup S
    <3>1. EstSum(Tracked \cup S) = EstSum(Tracked) + EstSum(S)
      BY <1>3, EstSumUnion DEF Took
    <3> QED
      BY <1>3, <3>1 DEF Took, LedgerExact
  <2>2. Cardinality(Tracked') = Cardinality(Tracked) + Cardinality(S)
    <3>1. Tracked \cap S = {} /\ IsFiniteSet(S)
      BY <1>3, FS_Subset DEF Took
    <3>2. Cardinality({}) = 0 /\ Cardinality(S) \in Nat
      BY <3>1, FS_EmptySet, FS_CardinalityType
    <3>3. Cardinality(Tracked \cup S)
            = Cardinality(Tracked) + Cardinality(S) - Cardinality(Tracked \cap S)
      BY <3>1, FS_Union
    <3>4. Cardinality(Tracked \cap S) = 0
      BY <3>1, <3>2
    <3>5. Cardinality(Tracked) \in Nat
      OBVIOUS
    <3> QED
      BY <2>1, <3>2, <3>3, <3>4, <3>5
  <2>3. CASE /\ reserved + EstSum(S) <= Budget
             /\ Cap # 0 => Cardinality(Tracked) + Cardinality(S) <= Cap
    BY <2>1, <2>2, <2>3 DEF BudgetKept
  <2>4. CASE Tracked = {} /\ \E s \in Sids : S = {s}
    <3>1. PICK s \in Sids : Tracked' = {s}
      BY <2>1, <2>4
    <3>2. Cardinality(Tracked') = 1
      BY <3>1, FS_Singleton
    <3> QED
      BY <3>2 DEF BudgetKept
  <2> QED
    BY <1>3, <2>3, <2>4 DEF Roomy
<1> QED
  BY <1>1, <1>2, <1>3, LedgerSteps

-----------------------------------------------------------------------------
(* Types *)

LedgerTypes ==
    /\ kind \in [Sids -> Kinds \cup {"none"}]
    /\ owner \in [Sids -> Users \cup {NoUser}]
    /\ age \in [Sids -> {"new", "old"}]
    /\ reserved \in Nat

QueueTypes ==
    /\ line \in Seq(Reqs)
    /\ ring \in [Creators -> Seq(Reqs)]
    /\ ringOrder \in Seq(Creators)
    /\ passed \in [Reqs -> [Creators -> Nat]]

WorldTypes ==
    /\ live \in Readings
    /\ alive \in [Sids -> BOOLEAN]
    /\ mode \in [Sids -> {"active", "idle", "background"}]
    /\ prewarm \in SUBSET Sids /\ reaping \in SUBSET Sids /\ recon \in SUBSET Sids

ControlTypes ==
    /\ pc \in [Reqs -> Places]
    /\ victim \in [Reqs -> Sids \cup {NoSid}]
    /\ back \in [Reqs -> {"idle", "cap", "loop"}]

LEMMA ReqTypes ==
    \A r \in Reqs : /\ Sid(r) \in Sids /\ Req[r].kind \in Kinds /\ Path(r) \in Paths
                    /\ User(r) \in Users \cup {NoUser} /\ Req[r].creator \in Creators
                    /\ Req[r].capped \in BOOLEAN
  BY AdmissionAssumption DEF Sid, Path, User, RequestType

LEMMA LedgerTypesStep ==
    ASSUME TypeOK, LedgerExact, [Next]_vars
    PROVE  LedgerTypes'
<1> USE AdmissionAssumption DEF ledger, queues, world, control
<1>1. reserved' \in Nat
  <2>1. ASSUME NEW S \in SUBSET Sids, Drop(S) PROVE reserved' \in Nat
    <3>1. Tracked \ S \in SUBSET Sids
      BY DEF Tracked
    <3> QED
      BY <2>1, <3>1, DropIs, EstSumType
  <2>2. ASSUME NEW S \in SUBSET Sids, Took(S) PROVE reserved' \in Nat
    <3>1. EstSum(S) \in Nat /\ reserved \in Nat
      BY EstSumType DEF TypeOK
    <3> QED
      BY <2>2, <3>1 DEF Took
  <2> QED
    BY <2>1, <2>2, LedgerSteps DEF Kept, TypeOK
<1> DEFINE Named == /\ kind' \in [Sids -> Kinds \cup {"none"}]
                    /\ owner' \in [Sids -> Users \cup {NoUser}]
                    /\ age' \in [Sids -> {"new", "old"}]
<1>2. ASSUME NEW s \in Sids, NEW k \in Kinds, NEW u \in Users \cup {NoUser}, Add(s, k, u)
      PROVE  Named
  BY <1>2 DEF Add, TypeOK
<1>3. ASSUME NEW s \in Sids, NEW u \in Users \cup {NoUser}, FillOwner(s, u) PROVE Named
  BY <1>3 DEF FillOwner, TypeOK
<1>4. ASSUME NEW S, Drop(S) PROVE Named
  BY <1>4 DEF Drop, TypeOK
<1>5. ASSUME UNCHANGED ledger PROVE Named
  BY <1>5 DEF TypeOK
<1> HIDE DEF Named
<1>6. ASSUME NEW r \in Reqs,
             Arrive(r) \/ QueueTop(r) \/ QueueDeadline(r) \/ QueueWake(r) \/ Scan(r)
             \/ Verdict(r) \/ EvictClaim(r) \/ EvictClose(r) \/ MaintenancePass(r)
             \/ WakeGivesWay(r) \/ WakeTimeout(r) \/ Abandon(r) \/ Cancel(r)
      PROVE  UNCHANGED ledger
  BY <1>6, Zenon
  DEF Arrive, QueueTop, QueueDeadline, QueueWake, Scan, Verdict, EvictClaim, EvictClose,
      MaintenancePass, WakeGivesWay, WakeTimeout, Abandon, Cancel, Refuse
<1>7. ASSUME NEW r \in Reqs,
             CapCheck(r) \/ FastPath(r) \/ AcquireSpeculative(r) \/ QueueCheck(r)
             \/ AdmitLoop(r) \/ AcquireTask(r) \/ RingAdmit(r)
      PROVE  Named
  BY <1>2, <1>3, <1>5, <1>7, ReqTypes, Zenon
  DEF CapCheck, FastPath, AcquireSpeculative, QueueCheck, AdmitLoop, AcquireTask, RingAdmit,
      AdmitTracked, AdmitNew, Refuse
<1>8. ASSUME NEW r \in Reqs, ReserveBackground(r) \/ WakeRecheck(r) PROVE Named
  <2>1. "chat" \in Kinds /\ NoUser \in Users \cup {NoUser}
    BY DEF Kinds
  <2> QED
    BY <1>2, <1>5, <1>8, <2>1, ReqTypes, Zenon DEF ReserveBackground, WakeRecheck, WakeLook
<1>9. ASSUME NEW r \in Reqs, AcquireMeeting(r) PROVE Named
  <2>1. CASE UNCHANGED ledger
    BY <1>5, <2>1
  <2>2. CASE ~ UNCHANGED ledger
    <3> DEFINE new == Participants \ Tracked
    <3>1. /\ kind' = [s \in Sids |-> IF s \in new THEN "meeting" ELSE kind[s]]
          /\ owner' = [s \in Sids |-> IF s \in new THEN NoUser ELSE owner[s]]
          /\ age' = [s \in Sids |-> IF s \in new THEN "new" ELSE age[s]]
      BY <1>9, <2>2, Zenon DEF AcquireMeeting
    <3> HIDE DEF new
    <3> QED
      BY <3>1 DEF TypeOK, Named, Kinds
  <2> QED
    BY <2>1, <2>2
<1>10. ASSUME NEW r \in Reqs, EvictRemove(r) \/ EvictRelease(r) \/ RunEnds(r) PROVE Named
  BY <1>4, <1>10, Zenon DEF EvictRemove, EvictRelease, RunEnds
<1>11. ASSUME NEW s \in Sids, SpawnFails(s) \/ CloseEnds(s) PROVE Named
  BY <1>4, <1>11, Zenon DEF SpawnFails, CloseEnds
<1>12. ASSUME NEW s \in Sids,
              Spawn(s) \/ CloseBegins(s)
              \/ \E m \in {"active", "idle", "background"} : SetMode(s, m)
       PROVE  UNCHANGED ledger
  BY <1>12, Zenon DEF Spawn, CloseBegins, SetMode
<1>13. ASSUME NEW s \in Sids, AgeOut(s) PROVE Named
  BY <1>13 DEF AgeOut, TypeOK, Named
<1>14. ASSUME HostMemory \/ ReconcileReads \/ UNCHANGED vars PROVE UNCHANGED ledger
  BY <1>14, Zenon DEF HostMemory, ReconcileReads, vars
<1>15. ASSUME ReconcileFrees PROVE Named
  BY <1>4, <1>15, Zenon DEF ReconcileFrees
<1>16. Named
  BY <1>5, <1>6, <1>7, <1>8, <1>9, <1>10, <1>11, <1>12, <1>13, <1>14, <1>15 DEF Next
<1> QED
  BY <1>1, <1>16 DEF Named, LedgerTypes

LEMMA QueueTypesStep ==
    ASSUME TypeOK, [Next]_vars
    PROVE  QueueTypes'
<1> USE DEF ledger, queues, world, control
<1>1. ASSUME NEW r \in Reqs
      PROVE  RemoveFirst(line, r) \in Seq(Reqs) /\ Append(line, r) \in Seq(Reqs)
  BY RemoveFirstType, AppendProperties DEF TypeOK
<1>2. ASSUME NEW r \in Reqs, Leave(r) \/ line' = Append(line, r) \/ UNCHANGED line
      PROVE  line' \in Seq(Reqs)
  BY <1>1, <1>2 DEF Leave, TypeOK
<1>3. ASSUME NEW r \in Reqs, RingLeaveRotate(r)
      PROVE  ring' \in [Creators -> Seq(Reqs)] /\ ringOrder' \in Seq(Creators)
  <2> DEFINE k == Req[r].creator
             rest == RemoveFirst(ring[k], r)
             others == RemoveFirst(ringOrder, k)
  <2>1. k \in Creators
    BY ReqTypes
  <2>2. ring[k] \in Seq(Reqs) /\ ringOrder \in Seq(Creators)
    BY <2>1 DEF TypeOK
  <2>3. rest \in Seq(Reqs) /\ others \in Seq(Creators) /\ Append(others, k) \in Seq(Creators)
    BY <2>1, <2>2, RemoveFirstType, AppendProperties
  <2>4. /\ ring' = [ring EXCEPT ![k] = rest]
        /\ ringOrder' = IF rest = <<>> THEN others ELSE Append(others, k)
    BY <1>3 DEF RingLeaveRotate
  <2> HIDE DEF k, rest, others
  <2> QED
    BY <2>1, <2>3, <2>4 DEF TypeOK
<1>4. ASSUME NEW r \in Reqs, RingJoin(r)
      PROVE  ring' \in [Creators -> Seq(Reqs)] /\ ringOrder' \in Seq(Creators)
  <2> DEFINE k == Req[r].creator
  <2>1. k \in Creators
    BY ReqTypes
  <2>2. Append(ring[k], r) \in Seq(Reqs) /\ Append(ringOrder, k) \in Seq(Creators)
    BY <2>1, AppendProperties DEF TypeOK
  <2>3. /\ ring' = [ring EXCEPT ![k] = Append(ring[k], r)]
        /\ ringOrder' = IF ring[k] = <<>> THEN Append(ringOrder, k) ELSE ringOrder
    BY <1>4 DEF RingJoin
  <2> HIDE DEF k
  <2> QED
    BY <2>1, <2>2, <2>3 DEF TypeOK
<1> DEFINE Rings == UNCHANGED <<ring, ringOrder, passed>>
<1>5. ASSUME NEW r \in Reqs, Rings, Leave(r) \/ line' = Append(line, r) \/ UNCHANGED line
      PROVE  QueueTypes'
  BY <1>2, <1>5 DEF QueueTypes, TypeOK
<1>6. ASSUME UNCHANGED queues PROVE QueueTypes'
  BY <1>6 DEF QueueTypes, TypeOK
<1>7. ASSUME NEW r \in Reqs,
             Arrive(r) \/ CapCheck(r) \/ FastPath(r) \/ AcquireSpeculative(r)
             \/ QueueTop(r) \/ QueueCheck(r) \/ QueueDeadline(r) \/ QueueWake(r)
             \/ AdmitLoop(r) \/ Scan(r) \/ Verdict(r)
      PROVE  QueueTypes'
  <2>1. Rings /\ (Leave(r) \/ line' = Append(line, r) \/ UNCHANGED line)
    BY <1>7, Zenon
    DEF Arrive, CapCheck, FastPath, AcquireSpeculative, QueueTop, QueueCheck, QueueDeadline,
        QueueWake, AdmitLoop, Scan, Verdict, Enter, AdmitTracked, AdmitNew, Refuse
  <2> QED
    BY <1>5, <2>1
<1>8. ASSUME NEW r \in Reqs,
             EvictClaim(r) \/ EvictRemove(r) \/ EvictClose(r) \/ EvictRelease(r)
             \/ MaintenancePass(r) \/ AcquireMeeting(r) \/ Abandon(r) \/ RunEnds(r)
      PROVE  QueueTypes'
  BY <1>6, <1>8, Zenon
  DEF EvictClaim, EvictRemove, EvictClose, EvictRelease, MaintenancePass, AcquireMeeting,
      Abandon, RunEnds
<1>9. ASSUME NEW r \in Reqs,
             ReserveBackground(r) \/ WakeRecheck(r) \/ WakeGivesWay(r) \/ WakeTimeout(r)
      PROVE  QueueTypes'
  <2>1. Rings /\ UNCHANGED line
    BY <1>9, Zenon DEF ReserveBackground, WakeRecheck, WakeGivesWay, WakeTimeout
  <2> QED
    BY <1>5, <2>1
<1>10. ASSUME NEW r \in Reqs, AcquireTask(r) PROVE QueueTypes'
  <2>1. CASE UNCHANGED queues
    BY <1>6, <2>1
  <2>2. CASE RingJoin(r) /\ UNCHANGED <<line, passed>>
    BY <1>4, <2>2 DEF QueueTypes, TypeOK
  <2> QED
    BY <1>10, <2>1, <2>2, Zenon DEF AcquireTask
<1>11. ASSUME NEW r \in Reqs, RingAdmit(r) PROVE QueueTypes'
  <2>1. passed' \in [Reqs -> [Creators -> Nat]]
    <3>1. CASE UNCHANGED passed
      BY <3>1 DEF TypeOK
    <3>2. CASE passed' = [q \in Reqs |->
                  IF pc[q] = "parked" /\ Req[q].creator # Req[r].creator
                  THEN [passed[q] EXCEPT ![Req[r].creator] = @ + 1] ELSE passed[q]]
      <4>1. ASSUME NEW q \in Reqs
            PROVE  [passed[q] EXCEPT ![Req[r].creator] = @ + 1] \in [Creators -> Nat]
        <5>1. Req[r].creator \in Creators /\ passed[q] \in [Creators -> Nat]
          BY ReqTypes DEF TypeOK
        <5> QED
          BY <5>1
      <4> QED
        BY <3>2, <4>1 DEF TypeOK
    <3> QED
      BY <1>11, <3>1, <3>2 DEF RingAdmit
  <2>2. RingLeaveRotate(r) /\ UNCHANGED line
    BY <1>11 DEF RingAdmit
  <2> QED
    BY <1>3, <2>1, <2>2 DEF QueueTypes, TypeOK
<1>12. ASSUME NEW r \in Reqs, Cancel(r) PROVE QueueTypes'
  <2>1. UNCHANGED passed
    BY <1>12 DEF Cancel
  <2>2. CASE Leave(r) /\ UNCHANGED <<ring, ringOrder>>
    BY <1>5, <2>1, <2>2
  <2>3. CASE RingLeaveRotate(r) /\ UNCHANGED line
    BY <1>3, <2>1, <2>3 DEF QueueTypes, TypeOK
  <2>4. CASE UNCHANGED <<line, ring, ringOrder>>
    BY <1>6, <2>1, <2>4 DEF QueueTypes, TypeOK
  <2> QED
    BY <1>12, <2>2, <2>3, <2>4, Zenon DEF Cancel
<1>13. ASSUME NEW s \in Sids,
              Spawn(s) \/ SpawnFails(s) \/ CloseBegins(s) \/ CloseEnds(s) \/ AgeOut(s)
              \/ \E m \in {"active", "idle", "background"} : SetMode(s, m)
       PROVE  QueueTypes'
  BY <1>6, <1>13, Zenon DEF Spawn, SpawnFails, CloseBegins, CloseEnds, AgeOut, SetMode
<1>14. ASSUME HostMemory \/ ReconcileReads \/ ReconcileFrees \/ UNCHANGED vars
       PROVE  QueueTypes'
  BY <1>6, <1>14, Zenon DEF HostMemory, ReconcileReads, ReconcileFrees, vars
<1> QED
  BY <1>7, <1>8, <1>9, <1>10, <1>11, <1>12, <1>13, <1>14 DEF Next

LEMMA BestIsSids == \A r \in Reqs : Best(r) \subseteq Sids
  BY DEF Best, Evictable

LEMMA WorldTypesStep ==
    ASSUME TypeOK, [Next]_vars
    PROVE  WorldTypes'
<1> USE DEF ledger, queues, world, control
<1>1. ASSUME UNCHANGED world PROVE WorldTypes'
  BY <1>1 DEF WorldTypes, TypeOK
<1>2. ASSUME NEW r \in Reqs,
             CapCheck(r) \/ FastPath(r) \/ AcquireSpeculative(r) \/ QueueTop(r)
             \/ QueueCheck(r) \/ QueueDeadline(r) \/ QueueWake(r) \/ AdmitLoop(r)
             \/ Scan(r) \/ Verdict(r) \/ EvictRemove(r) \/ EvictRelease(r)
             \/ MaintenancePass(r) \/ AcquireTask(r) \/ RingAdmit(r)
             \/ ReserveBackground(r) \/ WakeRecheck(r) \/ WakeGivesWay(r) \/ WakeTimeout(r)
             \/ Abandon(r) \/ Cancel(r)
      PROVE  UNCHANGED world
  BY <1>2, Zenon
  DEF CapCheck, FastPath, AcquireSpeculative, QueueTop, QueueCheck, QueueDeadline, QueueWake,
      AdmitLoop, Scan, Verdict, EvictRemove, EvictRelease, MaintenancePass, AcquireTask,
      RingAdmit, ReserveBackground, WakeRecheck, WakeGivesWay, WakeTimeout, Abandon, Cancel
<1>3. ASSUME NEW r \in Reqs, Arrive(r) PROVE WorldTypes'
  BY <1>3 DEF Arrive, WorldTypes, TypeOK
<1>4. ASSUME NEW r \in Reqs, EvictClaim(r) PROVE WorldTypes'
  BY <1>4 DEF EvictClaim, WorldTypes, TypeOK
<1>5. ASSUME NEW r \in Reqs, EvictClose(r) PROVE WorldTypes'
  BY <1>5 DEF EvictClose, WorldTypes, TypeOK
<1>6. ASSUME NEW r \in Reqs, AcquireMeeting(r) PROVE WorldTypes'
  <2>1. /\ UNCHANGED <<live, mode, prewarm, reaping, recon>>
        /\ \/ alive' = alive
           \/ alive' = [s \in Sids |-> alive[s] \/ s \in Participants]
    BY <1>6, Zenon DEF AcquireMeeting
  <2> QED
    BY <2>1 DEF WorldTypes, TypeOK
<1>7. ASSUME NEW r \in Reqs, RunEnds(r) PROVE WorldTypes'
  BY <1>7 DEF RunEnds, WorldTypes, TypeOK
<1>8. ASSUME NEW s \in Sids, Spawn(s) PROVE WorldTypes'
  BY <1>8 DEF Spawn, WorldTypes, TypeOK
<1>9. ASSUME NEW s \in Sids, SpawnFails(s) \/ AgeOut(s) PROVE UNCHANGED world
  BY <1>9, Zenon DEF SpawnFails, AgeOut
<1>10. ASSUME NEW s \in Sids, CloseBegins(s) PROVE WorldTypes'
  BY <1>10 DEF CloseBegins, WorldTypes, TypeOK
<1>11. ASSUME NEW s \in Sids, CloseEnds(s) PROVE WorldTypes'
  BY <1>11 DEF CloseEnds, WorldTypes, TypeOK
<1>12. ASSUME NEW s \in Sids, NEW m \in {"active", "idle", "background"}, SetMode(s, m)
       PROVE  WorldTypes'
  BY <1>12 DEF SetMode, WorldTypes, TypeOK
<1>13. ASSUME HostMemory PROVE WorldTypes'
  BY <1>13 DEF HostMemory, WorldTypes, TypeOK
<1>14. ASSUME ReconcileReads PROVE WorldTypes'
  BY <1>14 DEF ReconcileReads, Tracked, WorldTypes, TypeOK
<1>15. ASSUME ReconcileFrees PROVE WorldTypes'
  BY <1>15 DEF ReconcileFrees, WorldTypes, TypeOK
<1>16. ASSUME UNCHANGED vars PROVE UNCHANGED world
  BY <1>16 DEF vars
<1> QED
  BY <1>1, <1>2, <1>3, <1>4, <1>5, <1>6, <1>7, <1>8, <1>9, <1>10, <1>11, <1>12, <1>13,
     <1>14, <1>15, <1>16
  DEF Next

\* The calls that wait for room without a place in the admission line.
Parkers == {r \in Reqs : pc[r] \in {"parked", "waking"}}

\* parked_tasks counts them.
ParkedExact == parked = Cardinality(Parkers)

LEMMA ParkersFinite ==
    ParkedExact => IsFiniteSet(Parkers) /\ Cardinality(Parkers) \in Nat /\ parked \in Nat
<1>1. Parkers \in SUBSET Reqs
  BY DEF Parkers
<1> QED
  BY <1>1, AdmissionAssumption, FS_Subset, FS_CardinalityType DEF ParkedExact

LEMMA ParkerLeaves ==
    ASSUME TypeOK, ParkedExact, NEW r \in Parkers, Parkers' = Parkers \ {r},
           parked' = parked - 1
    PROVE  ParkedExact'
BY ParkersFinite, FS_RemoveElement DEF ParkedExact

LEMMA ParkerComes ==
    ASSUME TypeOK, ParkedExact, NEW r \in Reqs \ Parkers, Parkers' = Parkers \cup {r},
           parked' = parked + 1
    PROVE  ParkedExact'
BY ParkersFinite, FS_AddElement DEF ParkedExact

LEMMA ControlStep ==
    ASSUME TypeOK, ParkedExact, [Next]_vars
    PROVE  ControlTypes' /\ ParkedExact'
<1> USE DEF ledger, queues, world, control
<1> DEFINE Sleep == {"parked", "waking"}
           Targets == UNCHANGED <<victim, back>>
<1>1. ASSUME NEW r \in Reqs, NEW x \in Places, Goto(r, x), Targets PROVE ControlTypes'
  BY <1>1 DEF Goto, ControlTypes, TypeOK
<1>2. ASSUME NEW r \in Reqs, pc[r] \notin Sleep, NEW x \in Places \ Sleep, Goto(r, x),
             UNCHANGED parked
      PROVE  ParkedExact'
  <2>1. Parkers' = Parkers
    BY <1>2 DEF Goto, Parkers, TypeOK
  <2> QED
    BY <1>2, <2>1 DEF ParkedExact
<1>3. ASSUME NEW r \in Reqs, pc[r] \notin Sleep, NEW x \in Sleep, Goto(r, x),
             parked' = parked + 1
      PROVE  ParkedExact'
  <2>1. Parkers' = Parkers \cup {r} /\ r \notin Parkers
    BY <1>3 DEF Goto, Parkers, TypeOK
  <2> QED
    BY <1>3, <2>1, ParkerComes
<1>4. ASSUME NEW r \in Reqs, pc[r] \in Sleep, NEW x \in Places \ Sleep, Goto(r, x),
             parked' = parked - 1
      PROVE  ParkedExact'
  <2>1. Parkers' = Parkers \ {r} /\ r \in Parkers
    BY <1>4 DEF Goto, Parkers, TypeOK
  <2> QED
    BY <1>4, <2>1, ParkerLeaves
<1>5. ASSUME UNCHANGED control, UNCHANGED parked PROVE ControlTypes' /\ ParkedExact'
  BY <1>5 DEF ControlTypes, ParkedExact, Parkers, TypeOK
<1>6. Sleep \subseteq Places
  BY DEF Places
<1> DEFINE Goes(r) == /\ pc[r] \notin Sleep /\ UNCHANGED parked /\ Targets
                      /\ \E x \in Places \ Sleep : Goto(r, x)
<1>7. ASSUME NEW r \in Reqs, Goes(r) PROVE ControlTypes' /\ ParkedExact'
  BY <1>1, <1>2, <1>7
<1> HIDE DEF Goes
<1> DEFINE Open == {"idle", "cap", "capscan", "fast", "top", "check", "wait", "loop", "scan",
                    "verdict", "verdictbg", "claim", "remove", "close", "release",
                    "admitted", "running", "done", "gone", "busy", "busy_background",
                    "host_memory", "user_cap", "speculative", "superseded", "timeout"}
<1>8. Open = Places \ Sleep
  BY DEF Places, Waiting, Trying, Evicting, Refusals
<1>9. ASSUME NEW r \in Reqs, NEW x \in Open, pc[r] \in Open, Goto(r, x), UNCHANGED parked, Targets
      PROVE  Goes(r)
  BY <1>8, <1>9 DEF Goes
<1>10. ASSUME NEW r \in Reqs,
             Arrive(r) \/ CapCheck(r) \/ FastPath(r) \/ AcquireSpeculative(r)
             \/ QueueTop(r) \/ QueueCheck(r) \/ QueueDeadline(r) \/ QueueWake(r)
             \/ AdmitLoop(r) \/ Verdict(r)
       PROVE  Goes(r)
  BY <1>9, <1>10
  DEF Arrive, CapCheck, FastPath, AcquireSpeculative, QueueTop, QueueCheck, QueueDeadline,
      QueueWake, AdmitLoop, Verdict, Enter, AdmitTracked, AdmitNew, Refuse
<1>11. ASSUME NEW r \in Reqs, Scan(r) PROVE ControlTypes' /\ ParkedExact'
  <2>1. UNCHANGED parked /\ pc[r] \in Open
    BY <1>11 DEF Scan
  <2>2. PICK x \in Open : Goto(r, x)
    BY <1>11 DEF Scan
  <2>3. \/ Targets
        \/ \E s \in Best(r) : victim' = [victim EXCEPT ![r] = s]
                              /\ back' = [back EXCEPT ![r] = IF pc[r] = "capscan" THEN "cap"
                                           ELSE IF Path(r) = "maintenance" THEN "idle"
                                           ELSE "loop"]
    BY <1>11, Zenon DEF Scan
  <2>4. ControlTypes'
    <3>1. pc' \in [Reqs -> Places]
      BY <2>2, <1>8 DEF Goto, TypeOK
    <3>2. CASE Targets
      BY <3>1, <3>2 DEF ControlTypes, TypeOK
    <3>3. CASE ~Targets
      <4>1. PICK s \in Sids, b \in {"idle", "cap", "loop"} :
                victim' = [victim EXCEPT ![r] = s] /\ back' = [back EXCEPT ![r] = b]
        BY <2>3, <3>3, BestIsSids
      <4> QED
        BY <3>1, <4>1 DEF ControlTypes, TypeOK
    <3> QED
      BY <3>2, <3>3
  <2> QED
    BY <1>2, <1>8, <2>1, <2>2, <2>4
<1>12. ASSUME NEW r \in Reqs,
              EvictClaim(r) \/ EvictRemove(r) \/ EvictClose(r) \/ EvictRelease(r)
       PROVE  Goes(r)
  <2>1. back[r] \in Open
    BY DEF TypeOK
  <2> QED
    BY <1>9, <1>12, <2>1 DEF EvictClaim, EvictRemove, EvictClose, EvictRelease
<1>13. ASSUME NEW r \in Reqs,
              MaintenancePass(r) \/ AcquireMeeting(r) \/ Abandon(r) \/ RunEnds(r)
       PROVE  Goes(r)
  BY <1>9, <1>13 DEF MaintenancePass, AcquireMeeting, Abandon, RunEnds
<1>14. ASSUME NEW r \in Reqs, AcquireTask(r) PROVE ControlTypes' /\ ParkedExact'
  <2>1. CASE Goto(r, "admitted") /\ UNCHANGED queues
    BY <1>7, <1>9, <1>14, <2>1 DEF AcquireTask
  <2>2. CASE Goto(r, "parked") /\ parked' = parked + 1
    BY <1>1, <1>3, <1>6, <1>14, <2>2 DEF AcquireTask
  <2> QED
    BY <1>14, <2>1, <2>2, Zenon DEF AcquireTask
<1>15. ASSUME NEW r \in Reqs, RingAdmit(r) PROVE ControlTypes' /\ ParkedExact'
  <2>1. pc[r] = "parked" /\ parked' = parked - 1 /\ Goto(r, "admitted") /\ Targets
    BY <1>15 DEF RingAdmit
  <2> QED
    BY <1>1, <1>4, <1>8, <2>1
<1>16. ASSUME NEW r \in Reqs, NEW x \in Open, WakeEnds(r, x), Targets,
              pc[r] \in {"idle", "waking"}
       PROVE  ControlTypes' /\ ParkedExact'
  <2>1. CASE pc[r] = "waking"
    BY <1>1, <1>4, <1>8, <1>16, <2>1 DEF WakeEnds
  <2>2. CASE pc[r] = "idle"
    BY <1>7, <1>9, <1>16, <2>2 DEF WakeEnds
  <2> QED
    BY <1>16, <2>1, <2>2
<1>17. ASSUME NEW r \in Reqs,
              ReserveBackground(r) \/ WakeRecheck(r) \/ WakeGivesWay(r) \/ WakeTimeout(r)
       PROVE  ControlTypes' /\ ParkedExact'
  <2>1. pc[r] \in {"idle", "waking"} /\ Targets
    BY <1>17 DEF ReserveBackground, WakeRecheck, WakeGivesWay, WakeTimeout
  <2>2. CASE \E x \in Open : WakeEnds(r, x)
    BY <1>16, <2>1, <2>2
  <2>3. CASE pc[r] = "idle" /\ Goto(r, "waking") /\ parked' = parked + 1
    BY <1>1, <1>3, <1>6, <2>1, <2>3
  <2> QED
    BY <1>17, <2>2, <2>3
    DEF ReserveBackground, WakeRecheck, WakeGivesWay, WakeTimeout, WakeLook
<1>18. ASSUME NEW r \in Reqs, Cancel(r) PROVE ControlTypes' /\ ParkedExact'
  <2>1. Goto(r, "gone") /\ Targets
    BY <1>18 DEF Cancel
  <2>2. CASE pc[r] \in Sleep /\ parked' = parked - 1
    BY <1>1, <1>4, <1>8, <2>1, <2>2
  <2>3. CASE pc[r] \in Open /\ UNCHANGED parked
    BY <1>7, <1>9, <2>1, <2>3
  <2> QED
    BY <1>18, <2>2, <2>3 DEF Cancel, Waiting
<1>19. ASSUME NEW s \in Sids, Spawn(s) \/ SpawnFails(s) PROVE ControlTypes' /\ ParkedExact'
  <2>1. UNCHANGED parked /\ Targets
    BY <1>19 DEF Spawn, SpawnFails
  <2>2. \A r \in Spawners(s) : pc[r] = "admitted"
    BY DEF Spawners
  <2>3. PICK x \in [Reqs -> Open] :
            pc' = [r \in Reqs |-> IF r \in Spawners(s) THEN x[r] ELSE pc[r]]
    <3>1. CASE Spawn(s)
      <4> DEFINE x == [r \in Reqs |-> IF Path(r) = "task" THEN "running" ELSE "done"]
      <4>1. x \in [Reqs -> Open]
        OBVIOUS
      <4>2. pc' = [r \in Reqs |-> IF r \in Spawners(s) THEN x[r] ELSE pc[r]]
        BY <3>1 DEF Spawn
      <4> QED
        BY <4>1, <4>2
    <3>2. CASE SpawnFails(s)
      <4> DEFINE x == [r \in Reqs |-> "gone"]
      <4>1. x \in [Reqs -> Open]
        OBVIOUS
      <4>2. pc' = [r \in Reqs |-> IF r \in Spawners(s) THEN x[r] ELSE pc[r]]
        BY <3>2 DEF SpawnFails
      <4> QED
        BY <4>1, <4>2
    <3> QED
      BY <1>19, <3>1, <3>2
  <2>4. Open \subseteq Places
    BY <1>8
  <2>5. Parkers' = Parkers
    BY <1>8, <2>2, <2>3 DEF Parkers
  <2>6. ControlTypes'
    BY <2>1, <2>3, <2>4 DEF ControlTypes, TypeOK
  <2> QED
    BY <2>1, <2>5, <2>6 DEF ParkedExact
<1>20. ASSUME NEW s \in Sids,
              CloseBegins(s) \/ CloseEnds(s) \/ AgeOut(s)
              \/ \E m \in {"active", "idle", "background"} : SetMode(s, m)
       PROVE  UNCHANGED control /\ UNCHANGED parked
  BY <1>20, Zenon DEF CloseBegins, CloseEnds, AgeOut, SetMode
<1>21. ASSUME HostMemory \/ ReconcileReads \/ ReconcileFrees \/ UNCHANGED vars
       PROVE  UNCHANGED control /\ UNCHANGED parked
  BY <1>21, Zenon DEF HostMemory, ReconcileReads, ReconcileFrees, vars
<1> QED
  BY <1>5, <1>7, <1>10, <1>11, <1>12, <1>13, <1>14, <1>15, <1>17, <1>18, <1>19, <1>20, <1>21
  DEF Next

-----------------------------------------------------------------------------
(* The ledger's theorems *)

LedgerInv == TypeOK /\ LedgerExact /\ BudgetKept /\ ParkedExact

LEMMA LedgerInit == Init => LedgerInv
<1> SUFFICES ASSUME Init PROVE LedgerInv
  OBVIOUS
<1>1. Tracked = {} /\ Parkers = {}
  BY DEF Init, Tracked, Parkers
<1>2. EstSum(Tracked) = 0
  BY <1>1, EstSumEmpty
<1>3. LedgerExact /\ BudgetKept /\ ParkedExact
  BY <1>1, <1>2, FS_EmptySet, AdmissionAssumption
  DEF Init, LedgerExact, BudgetKept, ParkedExact
<1>4. TypeOK
  <2>1. <<>> \in Seq(Reqs) /\ <<>> \in Seq(Creators)
    OBVIOUS
  <2>2. "idle" \in Places
    BY DEF Places
  <2> QED
    BY <2>1, <2>2 DEF Init, TypeOK
<1> QED
  BY <1>3, <1>4 DEF LedgerInv

\* Every action remembers.
LEMMA Remembered == Next => Remember
  BY Zenon
  DEF Next, Arrive, CapCheck, FastPath, AcquireSpeculative, QueueTop, QueueCheck,
      QueueDeadline, QueueWake, AdmitLoop, Scan, Verdict, EvictClaim, EvictRemove,
      EvictClose, EvictRelease, MaintenancePass, AcquireTask, RingAdmit, ReserveBackground,
      WakeRecheck, WakeGivesWay, WakeTimeout, AcquireMeeting, Abandon, RunEnds, Cancel,
      Spawn, SpawnFails, CloseBegins, CloseEnds, AgeOut, SetMode, HostMemory,
      ReconcileReads, ReconcileFrees

LEMMA LedgerStep == LedgerInv /\ [Next]_vars => LedgerInv'
<1> SUFFICES ASSUME LedgerInv, [Next]_vars PROVE LedgerInv'
  OBVIOUS
<1>1. TypeOK /\ LedgerExact /\ BudgetKept /\ ParkedExact
  BY DEF LedgerInv
<1>2. LedgerTypes' /\ QueueTypes' /\ WorldTypes' /\ ControlTypes' /\ ParkedExact'
  BY <1>1, LedgerTypesStep, QueueTypesStep, WorldTypesStep, ControlStep
<1>3. parked' \in Nat
  <2>1. IsFiniteSet(Parkers')
    <3>1. Parkers' \in SUBSET Reqs
      BY DEF Parkers
    <3> QED
      BY <3>1, AdmissionAssumption, FS_Subset
  <2> QED
    BY <1>2, <2>1, FS_CardinalityType DEF ParkedExact
<1>4. TypeOK'
  <2>1. returned' \in SUBSET Sids
    BY <1>1, Remembered DEF Remember, vars, TypeOK
  <2> QED
    BY <1>2, <1>3, <2>1 DEF TypeOK, LedgerTypes, QueueTypes, WorldTypes, ControlTypes
<1> QED
  BY <1>1, <1>2, <1>4, ExactStep, BudgetStep DEF LedgerInv

LEMMA LedgerHolds == Spec => []LedgerInv
BY LedgerInit, LedgerStep, PTL DEF Spec

\* Every variable of the ledger, the line, the ring and the calls keeps its type.
THEOREM TypeCorrect == Spec => []TypeOK
<1>1. LedgerInv => TypeOK
  BY DEF LedgerInv
<1> QED
  BY <1>1, LedgerHolds, PTL

\* _reserved_mb is at any time the sum of the estimates of the tracked sessions.
THEOREM LedgerNeverDrifts == Spec => []LedgerExact
<1>1. LedgerInv => LedgerExact
  BY DEF LedgerInv
<1> QED
  BY <1>1, LedgerHolds, PTL

\* What is reserved stays in the budget, but for the only session of an empty
\* platform, and the count cap is kept.
THEOREM BudgetIsKept == Spec => []BudgetKept
<1>1. LedgerInv => BudgetKept
  BY DEF LedgerInv
<1> QED
  BY <1>1, LedgerHolds, PTL

-----------------------------------------------------------------------------
(* Where a call can be *)

\* Where a person's call waits and evicts.
Lobby == {"idle", "cap", "capscan", "loop", "scan", "verdict", "verdictbg", "admitted",
          "done", "gone", "busy", "busy_background", "host_memory", "user_cap"}
         \cup Evicting

PlacesOf(path) ==
    CASE path = "plain"       -> Lobby \cup {"fast"}
      [] path = "queued"      -> Lobby \cup Waiting
      [] path = "speculative" -> {"idle", "admitted", "done", "gone", "speculative"}
      [] path = "task"        -> {"idle", "parked", "admitted", "running", "gone"}
      [] path = "wake"        -> {"idle", "waking", "admitted", "done", "gone",
                                  "superseded", "timeout"}
      [] path = "meeting"     -> {"idle", "running", "gone", "busy", "host_memory"}
      [] OTHER                -> {"idle", "scan"} \cup Evicting

\* A call is where its path leads, and comes back from an eviction to its path.
PlacesFit ==
    \A r \in Reqs :
        /\ pc[r] \in PlacesOf(Path(r))
        /\ pc[r] \in Evicting =>
              (Path(r) = "maintenance" <=> back[r] = "idle")

\* The steps of call r.
Own(r) ==
    \/ Arrive(r) \/ CapCheck(r) \/ FastPath(r) \/ AcquireSpeculative(r)
    \/ QueueTop(r) \/ QueueCheck(r) \/ QueueDeadline(r) \/ QueueWake(r)
    \/ AdmitLoop(r) \/ Scan(r) \/ Verdict(r)
    \/ EvictClaim(r) \/ EvictRemove(r) \/ EvictClose(r) \/ EvictRelease(r)
    \/ MaintenancePass(r)
    \/ AcquireTask(r) \/ RingAdmit(r)
    \/ ReserveBackground(r) \/ WakeRecheck(r) \/ WakeGivesWay(r) \/ WakeTimeout(r)
    \/ AcquireMeeting(r)
    \/ Abandon(r) \/ RunEnds(r) \/ Cancel(r)

\* The start that a call waits for succeeds or fails.
Started(r) == \E s \in Sids : (Spawn(s) \/ SpawnFails(s)) /\ r \in Spawners(s)

Stays(r) == pc'[r] = pc[r] /\ victim'[r] = victim[r] /\ back'[r] = back[r]

LEMMA Movers ==
    ASSUME TypeOK, NEW r \in Reqs, [Next]_vars
    PROVE  Own(r) \/ Started(r) \/ Stays(r)
<1> USE DEF ledger, queues, world, control
<1>1. ASSUME NEW q \in Reqs \ {r}, Own(q) PROVE Stays(r)
  <2>1. ASSUME NEW x, Goto(q, x) PROVE pc'[r] = pc[r]
    BY <2>1 DEF Goto, TypeOK
  <2>2. CASE Scan(q)
    <3>1. (\E x : Goto(q, x)) /\ victim'[r] = victim[r] /\ back'[r] = back[r]
      BY <2>2 DEF Scan, TypeOK
    <3> QED
      BY <2>1, <3>1 DEF Stays
  <2>3. CASE UNCHANGED <<victim, back>>
    <3>1. \E x : Goto(q, x)
      BY <1>1, Zenon
      DEF Own, Arrive, CapCheck, FastPath, AcquireSpeculative, QueueTop, QueueCheck,
          QueueDeadline, QueueWake, AdmitLoop, Scan, Verdict, EvictClaim, EvictRemove,
          EvictClose, EvictRelease, MaintenancePass, AcquireTask, RingAdmit,
          ReserveBackground, WakeRecheck, WakeGivesWay, WakeTimeout, AcquireMeeting, Abandon,
          RunEnds, Cancel, Enter, AdmitTracked, AdmitNew, Refuse, WakeLook, WakeEnds
    <3> QED
      BY <2>1, <2>3, <3>1 DEF Stays
  <2> QED
    BY <1>1, <2>2, <2>3, Zenon
    DEF Own, Arrive, CapCheck, FastPath, AcquireSpeculative, QueueTop, QueueCheck,
        QueueDeadline, QueueWake, AdmitLoop, Verdict, EvictClaim, EvictRemove,
        EvictClose, EvictRelease, MaintenancePass, AcquireTask, RingAdmit,
        ReserveBackground, WakeRecheck, WakeGivesWay, WakeTimeout, AcquireMeeting, Abandon,
        RunEnds, Cancel
<1>2. ASSUME NEW s \in Sids, Spawn(s) \/ SpawnFails(s), ~ Started(r) PROVE Stays(r)
  <2>1. r \notin Spawners(s) /\ UNCHANGED <<victim, back>>
    BY <1>2 DEF Started, Spawn, SpawnFails
  <2>2. pc'[r] = pc[r]
    BY <1>2, <2>1 DEF Spawn, SpawnFails
  <2> QED
    BY <2>1, <2>2 DEF Stays
<1>3. ASSUME NEW s \in Sids,
             CloseBegins(s) \/ CloseEnds(s) \/ AgeOut(s)
             \/ \E m \in {"active", "idle", "background"} : SetMode(s, m)
      PROVE  Stays(r)
  BY <1>3, Zenon DEF CloseBegins, CloseEnds, AgeOut, SetMode, Stays
<1>4. ASSUME HostMemory \/ ReconcileReads \/ ReconcileFrees \/ UNCHANGED vars
      PROVE  Stays(r)
  BY <1>4, Zenon DEF HostMemory, ReconcileReads, ReconcileFrees, vars, Stays
<1>5. ASSUME NEW q \in Reqs, Own(q) PROVE Own(r) \/ Stays(r)
  BY <1>1, <1>5
<1>6. Next => \/ \E q \in Reqs : Own(q)
              \/ \E s \in Sids : Spawn(s) \/ SpawnFails(s) \/ CloseBegins(s) \/ CloseEnds(s)
                                 \/ AgeOut(s)
                                 \/ \E m \in {"active", "idle", "background"} : SetMode(s, m)
              \/ HostMemory \/ ReconcileReads \/ ReconcileFrees
  BY Zenon DEF Next, Own
<1> QED
  BY <1>2, <1>3, <1>4, <1>5, <1>6

LEMMA PlacesStep ==
    ASSUME TypeOK, PlacesFit, [Next]_vars
    PROVE  PlacesFit'
<1> SUFFICES ASSUME NEW r \in Reqs
             PROVE  /\ pc'[r] \in PlacesOf(Path(r))
                    /\ pc'[r] \in Evicting => (Path(r) = "maintenance" <=> back'[r] = "idle")
  BY DEF PlacesFit
<1> DEFINE Fits == /\ pc'[r] \in PlacesOf(Path(r))
                   /\ pc'[r] \in Evicting => (Path(r) = "maintenance" <=> back'[r] = "idle")
<1>1. /\ pc[r] \in PlacesOf(Path(r)) /\ Path(r) \in Paths
      /\ pc[r] \in Evicting => (Path(r) = "maintenance" <=> back[r] = "idle")
      /\ back[r] \in {"idle", "cap", "loop"}
  BY ReqTypes DEF PlacesFit, TypeOK
<1>2. ASSUME NEW x, Goto(r, x) PROVE pc'[r] = x
  BY <1>2 DEF Goto, TypeOK
<1>3. CASE Stays(r)
  BY <1>1, <1>3 DEF Stays
<1> USE DEF PlacesOf, Lobby, Waiting, Evicting, Paths
<1>4. CASE Started(r)
  <2>1. /\ pc[r] = "admitted" /\ Path(r) # "maintenance"
        /\ \/ pc'[r] = "gone"
           \/ pc'[r] = IF Path(r) = "task" THEN "running" ELSE "done"
    BY <1>4 DEF Started, Spawners, Spawn, SpawnFails, PlacesFit, PlacesOf, Lobby, Waiting, Evicting
  <2> QED
    BY <1>1, <2>1
<1>5. CASE Arrive(r)
  BY <1>1, <1>2, <1>5 DEF Arrive, Enter
<1>6. CASE CapCheck(r)
  BY <1>1, <1>2, <1>6 DEF CapCheck, Enter, AdmitTracked
<1>7. CASE FastPath(r) \/ AcquireSpeculative(r)
  BY <1>1, <1>2, <1>7 DEF FastPath, AcquireSpeculative, AdmitTracked, AdmitNew, Refuse
<1>8. CASE QueueTop(r) \/ QueueCheck(r) \/ QueueDeadline(r) \/ QueueWake(r)
  BY <1>1, <1>2, <1>8
  DEF QueueTop, QueueCheck, QueueDeadline, QueueWake, AdmitTracked, AdmitNew, Refuse
<1>9. CASE AdmitLoop(r) \/ Verdict(r)
  BY <1>1, <1>2, <1>9 DEF AdmitLoop, Verdict, AdmitTracked, AdmitNew, Refuse
<1>10. CASE Scan(r)
  <2>1. pc[r] \in {"scan", "capscan"}
    BY <1>10 DEF Scan
  <2>2. CASE \E s \in Best(r) :
               /\ back' = [back EXCEPT ![r] = IF pc[r] = "capscan" THEN "cap"
                                             ELSE IF Path(r) = "maintenance" THEN "idle"
                                             ELSE "loop"]
               /\ Goto(r, IF s \in prewarm THEN "claim" ELSE "remove")
    <3>1. back'[r] = IF pc[r] = "capscan" THEN "cap"
                     ELSE IF Path(r) = "maintenance" THEN "idle" ELSE "loop"
      BY <2>2 DEF TypeOK
    <3>2. pc'[r] \in {"claim", "remove"}
      BY <1>2, <2>2
    <3> QED
      BY <1>1, <2>1, <3>1, <3>2
  <2>3. CASE IF pc[r] = "capscan" THEN Goto(r, "user_cap")
             ELSE Goto(r, IF Path(r) = "maintenance" THEN "idle"
                          ELSE IF Spared(r) # {} THEN "verdictbg" ELSE "verdict")
    <3>1. pc'[r] = IF pc[r] = "capscan" THEN "user_cap"
                   ELSE IF Path(r) = "maintenance" THEN "idle"
                   ELSE IF Spared(r) # {} THEN "verdictbg" ELSE "verdict"
      BY <1>2, <2>3
    <3> QED
      BY <1>1, <2>1, <3>1
  <2> QED
    BY <1>10, <2>2, <2>3, Zenon DEF Scan
<1>11. CASE EvictClaim(r) \/ EvictRemove(r) \/ EvictClose(r) \/ EvictRelease(r)
  BY <1>1, <1>2, <1>11 DEF EvictClaim, EvictRemove, EvictClose, EvictRelease
<1>12. CASE MaintenancePass(r) \/ AcquireMeeting(r) \/ Abandon(r) \/ RunEnds(r)
  BY <1>1, <1>2, <1>12 DEF MaintenancePass, AcquireMeeting, Abandon, RunEnds
<1>13. CASE AcquireTask(r) \/ RingAdmit(r)
  BY <1>1, <1>2, <1>13 DEF AcquireTask, RingAdmit
<1>14. CASE ReserveBackground(r) \/ WakeRecheck(r) \/ WakeGivesWay(r) \/ WakeTimeout(r)
  BY <1>1, <1>2, <1>14
  DEF ReserveBackground, WakeRecheck, WakeGivesWay, WakeTimeout, WakeLook, WakeEnds
<1>15. CASE Cancel(r)
  BY <1>1, <1>2, <1>15 DEF Cancel
<1> QED
  BY <1>3, <1>4, <1>5, <1>6, <1>7, <1>8, <1>9, <1>10, <1>11, <1>12, <1>13, <1>14, <1>15,
     Movers
  DEF Own

\* A call that may spawn was let in by a step of its own.
Admits(r) == pc[r] # "admitted" /\ pc'[r] = "admitted"

\* One more session takes its person's count up by at most one.
LEMMA OneMoreOwned ==
    ASSUME TypeOK, NEW s \in Sids, NEW k, NEW w, Add(s, k, w), NEW u, ~AtUserCap(u)
    PROVE  Owned(u)' <= UserCap
<1> DEFINE A == {t \in Sids : kind[t] = "chat" /\ owner[t] = u}
           B == {t \in Sids : kind'[t] = "chat" /\ owner'[t] = u}
<1>1. B \subseteq A \cup {s}
  BY DEF Add, TypeOK
<1>2. IsFiniteSet(A) /\ IsFiniteSet(A \cup {s})
  BY AdmissionAssumption, FS_Subset
<1>3. Cardinality(A \cup {s}) <= Cardinality(A) + 1
  BY <1>2, FS_AddElement, FS_CardinalityType
<1>4. Cardinality(B) <= Cardinality(A \cup {s})
  BY <1>1, <1>2, FS_Subset
<1>5. Cardinality(A) \in Nat /\ Cardinality(A \cup {s}) \in Nat /\ Cardinality(B) \in Nat
  BY <1>1, <1>2, FS_Subset, FS_CardinalityType
<1>6. Cardinality(A) = Owned(u) /\ Cardinality(B) = Owned(u)'
  BY DEF Owned
<1> HIDE DEF A, B
<1>7. Cardinality(A) < UserCap
  BY <1>5, <1>6, AdmissionAssumption DEF AtUserCap
<1> QED
  BY <1>3, <1>4, <1>5, <1>6, <1>7, AdmissionAssumption

LEMMA CapStep ==
    ASSUME TypeOK, PlacesFit, [Next]_vars, NEW r \in Reqs,
           CapBound(r), Sid(r) \notin Tracked, Admits(r)
    PROVE  Owned(User(r))' <= UserCap
<1>1. ASSUME NEW x, Goto(r, x) PROVE x = "admitted"
  BY <1>1 DEF Goto, Admits, TypeOK
<1>2. Path(r) \in {"plain", "queued", "speculative"}
  BY AdmissionAssumption DEF CapBound, Path
<1>3. pc[r] \notin {"parked", "waking"}
  BY <1>2 DEF PlacesFit, PlacesOf, Lobby, Waiting, Evicting
<1>4. User(r) # NoUser /\ UserCap > 0
  BY DEF CapBound
<1>5. /\ Sid(r) \in Sids
      /\ pc[r] \in Evicting => back[r] # "admitted"
  BY ReqTypes DEF TypeOK
<1>6. ASSUME Add(Sid(r), Req[r].kind, User(r)), ~AtUserCap(User(r))
      PROVE  Owned(User(r))' <= UserCap
  BY <1>5, <1>6, OneMoreOwned
<1>7. CASE FastPath(r)
  BY <1>1, <1>6, <1>7 DEF FastPath, AdmitNew, Refuse
<1>8. CASE AcquireSpeculative(r)
  BY <1>1, <1>4, <1>6, <1>8 DEF AcquireSpeculative, SpeculativeRoom, AdmitNew, Refuse
<1>9. CASE QueueCheck(r)
  BY <1>1, <1>6, <1>9 DEF QueueCheck, AdmitNew, Refuse
<1>10. CASE AdmitLoop(r)
  BY <1>1, <1>6, <1>10 DEF AdmitLoop, AdmitNew, Refuse
<1>11. CASE CapCheck(r)
  BY <1>1, <1>11 DEF CapCheck, Enter
<1>12. CASE Arrive(r)
  BY <1>1, <1>12 DEF Arrive, Enter
<1>13. CASE QueueTop(r) \/ QueueDeadline(r) \/ QueueWake(r) \/ Verdict(r) \/ Cancel(r)
  BY <1>1, <1>13 DEF QueueTop, QueueDeadline, QueueWake, Verdict, Cancel, Refuse
<1>14. CASE Scan(r)
  BY <1>1, <1>14 DEF Scan
<1>15. CASE EvictClaim(r) \/ EvictRemove(r) \/ EvictClose(r) \/ EvictRelease(r)
  BY <1>1, <1>5, <1>15 DEF EvictClaim, EvictRemove, EvictClose, EvictRelease, Evicting
<1>16. CASE MaintenancePass(r) \/ AcquireMeeting(r) \/ Abandon(r) \/ RunEnds(r)
  BY <1>1, <1>16 DEF MaintenancePass, AcquireMeeting, Abandon, RunEnds
<1>17. CASE AcquireTask(r) \/ RingAdmit(r) \/ ReserveBackground(r) \/ WakeRecheck(r)
            \/ WakeGivesWay(r) \/ WakeTimeout(r)
  BY <1>2, <1>3, <1>17
  DEF AcquireTask, RingAdmit, ReserveBackground, WakeRecheck, WakeGivesWay, WakeTimeout
<1>18. CASE Started(r) \/ Stays(r)
  BY <1>18 DEF Started, Stays, Spawners, Admits
<1> QED
  BY <1>7, <1>8, <1>9, <1>10, <1>11, <1>12, <1>13, <1>14, <1>15, <1>16, <1>17, <1>18, Movers
  DEF Own

LEMMA PlacesInit == Init => PlacesFit
  BY ReqTypes DEF Init, PlacesFit, PlacesOf, Lobby, Evicting, Paths

\* A call that is held to the per-person cap and opens a session never takes its
\* person past it, whoever came in during its waits and evictions.
THEOREM CapHolds == Spec => NewChatKeepsCap
<1>1. ASSUME LedgerInv, PlacesFit, [Next]_vars PROVE PlacesFit'
  BY <1>1, PlacesStep DEF LedgerInv
<1>2. Spec => [](LedgerInv /\ PlacesFit)
  BY <1>1, LedgerInit, LedgerStep, PlacesInit, PTL DEF Spec
<1>3. ASSUME LedgerInv, PlacesFit, [Next]_vars
      PROVE  [\A r \in Reqs :
                 /\ CapBound(r) /\ Sid(r) \notin Tracked
                 /\ pc[r] # "admitted" /\ pc'[r] = "admitted"
                 => Owned(User(r))' <= UserCap]_vars
  BY <1>3, CapStep DEF LedgerInv, Admits
<1> QED
  BY <1>2, <1>3, PTL DEF Spec, NewChatKeepsCap
-----------------------------------------------------------------------------
(* The headroom of tasks *)

Tasks == {s \in Sids : kind[s] = "task"}

\* acquire() sends every call with blocking to _acquire_task, and lanes.py and
\* task_run.py, which reserve for tasks, pass it.
TasksBlock == \A r \in Reqs : Req[r].kind = "task" => Path(r) = "task"

\* A task takes its place through the gate that keeps a heavy reserve back.
TaskComes(s) ==
    /\ Tasks' = Tasks \cup {s}
    /\ s \in Sids \ Tracked
    /\ reserved + Est[s] + Heavy <= Budget

LEMMA TaskSteps ==
    ASSUME TypeOK, PlacesFit, TasksBlock, [Next]_vars
    PROVE  Tasks' \subseteq Tasks \/ \E s \in Sids : TaskComes(s)
<1> DEFINE Fewer == Tasks' \subseteq Tasks
           More == \E s \in Sids : TaskComes(s)
<1> USE AdmissionAssumption DEF ledger, queues, world, control
<1>1. \A r \in Reqs : Sid(r) \in Sids /\ Req[r].kind \in Kinds
  BY DEF Sid, RequestType
<1>2. ASSUME NEW s \in Sids, NEW k \in Kinds \ {"task"}, NEW u, Add(s, k, u) PROVE Fewer
  BY <1>2 DEF Add, Tasks, TypeOK
<1>3. ASSUME NEW s \in Sids \ Tracked, NEW u, Add(s, "task", u), HasRoom(Est[s], TRUE)
      PROVE  More
  <2>1. Tasks' = Tasks \cup {s}
    BY <1>3 DEF Add, Tasks, TypeOK, Kinds
  <2>2. reserved + Est[s] + Heavy <= Budget
    BY <1>3 DEF HasRoom, Gate1, Headroom, TypeOK
  <2> QED
    BY <1>3, <2>1, <2>2 DEF TaskComes
<1>4. ASSUME UNCHANGED kind PROVE Fewer
  BY <1>4 DEF Tasks
<1>5. ASSUME NEW S, Drop(S) PROVE Fewer
  BY <1>5 DEF Drop, Tasks
<1>6. ASSUME NEW r \in Reqs, Path(r) # "task" PROVE Req[r].kind \in Kinds \ {"task"}
  BY <1>1, <1>6 DEF TasksBlock
<1> HIDE DEF Fewer, More
<1>7. ASSUME NEW r \in Reqs,
             Arrive(r) \/ QueueTop(r) \/ QueueDeadline(r) \/ QueueWake(r) \/ Scan(r)
             \/ Verdict(r) \/ EvictClaim(r) \/ EvictClose(r) \/ MaintenancePass(r)
             \/ WakeGivesWay(r) \/ WakeTimeout(r) \/ Abandon(r) \/ Cancel(r) \/ CapCheck(r)
      PROVE  Fewer
  <2>1. UNCHANGED kind
    BY <1>7, Zenon
    DEF Arrive, QueueTop, QueueDeadline, QueueWake, Scan, Verdict, EvictClaim, EvictClose,
        MaintenancePass, WakeGivesWay, WakeTimeout, Abandon, Cancel, CapCheck, Refuse,
        AdmitTracked, FillOwner
  <2> QED
    BY <1>4, <2>1
<1>8. ASSUME NEW r \in Reqs,
             FastPath(r) \/ AcquireSpeculative(r) \/ QueueCheck(r) \/ AdmitLoop(r)
      PROVE  Fewer
  <2>1. Path(r) # "task"
    BY <1>8 DEF PlacesFit, PlacesOf, FastPath, AcquireSpeculative, QueueCheck, AdmitLoop
  <2>2. UNCHANGED kind \/ Add(Sid(r), Req[r].kind, User(r))
    BY <1>8, Zenon
    DEF FastPath, AcquireSpeculative, QueueCheck, AdmitLoop, AdmitTracked, AdmitNew,
        FillOwner, Refuse
  <2> QED
    BY <1>1, <1>2, <1>4, <1>6, <2>1, <2>2
<1>9. ASSUME NEW r \in Reqs, AcquireTask(r) \/ RingAdmit(r) PROVE Fewer \/ More
  <2>1. \/ UNCHANGED kind
        \/ /\ Sid(r) \in Sids \ Tracked /\ HasRoom(Est[Sid(r)], TRUE)
           /\ Add(Sid(r), Req[r].kind, User(r))
    BY <1>1, <1>9 DEF AcquireTask, RingAdmit, RingTurn, FillOwner, E
  <2> QED
    BY <1>1, <1>2, <1>3, <1>4, <2>1
<1>10. ASSUME NEW r \in Reqs, ReserveBackground(r) \/ WakeRecheck(r) PROVE Fewer
  <2>1. UNCHANGED kind \/ Add(Sid(r), "chat", NoUser)
    BY <1>10, Zenon DEF ReserveBackground, WakeRecheck, WakeLook
  <2>2. "chat" \in Kinds \ {"task"}
    BY DEF Kinds
  <2> QED
    BY <1>1, <1>2, <1>4, <2>1, <2>2
<1>11. ASSUME NEW r \in Reqs, AcquireMeeting(r) PROVE Fewer
  <2>1. CASE UNCHANGED ledger
    BY <1>4, <2>1
  <2>2. CASE ~ UNCHANGED ledger
    <3>1. PICK new : kind' = [s \in Sids |-> IF s \in new THEN "meeting" ELSE kind[s]]
      BY <1>11, <2>2, Zenon DEF AcquireMeeting
    <3> QED
      BY <3>1 DEF Fewer, Tasks
  <2> QED
    BY <2>1, <2>2
<1>12. ASSUME NEW r \in Reqs, EvictRemove(r) \/ EvictRelease(r) PROVE Fewer
  <2>1. Drop({victim[r]})
    BY <1>12 DEF EvictRemove, EvictRelease
  <2> QED
    BY <1>5, <2>1
<1>13. ASSUME NEW r \in Reqs, RunEnds(r) PROVE Fewer
  <2>1. PICK own : Drop(own)
    BY <1>13 DEF RunEnds
  <2> QED
    BY <1>5, <2>1
<1>14. ASSUME NEW s \in Sids, SpawnFails(s) \/ CloseEnds(s) PROVE Fewer
  <2>1. Drop({s})
    BY <1>14 DEF SpawnFails, CloseEnds
  <2> QED
    BY <1>5, <2>1
<1>15. ASSUME NEW s \in Sids,
              Spawn(s) \/ CloseBegins(s) \/ AgeOut(s)
              \/ \E m \in {"active", "idle", "background"} : SetMode(s, m)
       PROVE  Fewer
  <2>1. UNCHANGED kind
    BY <1>15, Zenon DEF Spawn, CloseBegins, AgeOut, SetMode
  <2> QED
    BY <1>4, <2>1
<1>16. ASSUME HostMemory \/ ReconcileReads \/ UNCHANGED vars PROVE Fewer
  <2>1. UNCHANGED kind
    BY <1>16, Zenon DEF HostMemory, ReconcileReads, vars
  <2> QED
    BY <1>4, <2>1
<1>17. ASSUME ReconcileFrees PROVE Fewer
  <2>1. \E S : Drop(S)
    BY <1>17 DEF ReconcileFrees
  <2> QED
    BY <1>5, <2>1
<1>18. Fewer \/ More
  BY <1>7, <1>8, <1>9, <1>10, <1>11, <1>12, <1>13, <1>14, <1>15, <1>16, <1>17 DEF Next
<1> QED
  BY <1>18 DEF Fewer, More

LEMMA HeadroomIs == TaskHeadroomKept <=> (Tasks # {} => EstSum(Tasks) + Heavy <= Budget)
  BY DEF TaskHeadroomKept, Tasks

LEMMA HeadroomStep ==
    ASSUME TypeOK, PlacesFit, TasksBlock, LedgerExact, TaskHeadroomKept, [Next]_vars
    PROVE  TaskHeadroomKept'
<1> USE AdmissionAssumption
<1>1. Tasks \in SUBSET Tracked /\ Tasks \in SUBSET Sids
  BY DEF Tasks, Tracked
<1>2. EstSum(Tasks) \in Nat /\ EstSum(Tracked) \in Nat /\ EstSum(Tracked \ Tasks) \in Nat
  BY <1>1, EstSumType, TrackedFinite
<1>3. CASE Tasks' \subseteq Tasks
  <2>1. EstSum(Tasks \ (Tasks \ Tasks')) <= EstSum(Tasks) /\ Tasks \ (Tasks \ Tasks') = Tasks'
    BY <1>1, <1>3, EstSumPart
  <2>2. EstSum(Tasks \ (Tasks \ Tasks')) \in Nat
    BY <1>1, EstSumType
  <2>3. EstSum(Tasks') <= EstSum(Tasks) /\ EstSum(Tasks') \in Nat
    BY <2>1, <2>2, Zenon
  <2>4. Tasks' # {} => EstSum(Tasks') + Heavy <= Budget
    BY <1>2, <1>3, <2>3, HeadroomIs
  <2> QED
    BY <2>4, Zenon DEF TaskHeadroomKept, Tasks
<1>4. ASSUME NEW s \in Sids, TaskComes(s) PROVE TaskHeadroomKept'
  <2>1. EstSum(Tracked \ (Tracked \ Tasks)) <= EstSum(Tracked)
        /\ Tracked \ (Tracked \ Tasks) = Tasks
    BY <1>1, TrackedFinite, EstSumPart
  <2>2. EstSum(Tasks \cup {s}) = EstSum(Tasks) + Est[s]
    <3>1. s \in Sids \ Tasks
      BY <1>1, <1>4 DEF TaskComes
    <3> QED
      BY <1>1, <3>1, EstSumAdd
  <2>3. Est[s] \in Nat /\ EstSum(Tasks) <= reserved
    BY <2>1, OneEstimate DEF LedgerExact
  <2>4. EstSum(Tasks \cup {s}) + Heavy <= Budget
    BY <1>2, <1>4, <2>2, <2>3 DEF TaskComes, TypeOK
  <2>5. Tasks' = Tasks \cup {s}
    BY <1>4 DEF TaskComes
  <2> QED
    BY <2>4, <2>5 DEF TaskHeadroomKept, Tasks
<1> QED
  BY <1>3, <1>4, TaskSteps

\* "Background work never consumes the room a human interactive session needs":
\* whatever people, wakes and the reconciler do meanwhile, the running tasks leave
\* one heavy reserve of the budget free of tasks.
THEOREM TasksLeaveHeadroom ==
    ASSUME TasksBlock
    PROVE  Spec => []TaskHeadroomKept
<1>1. Init => TaskHeadroomKept
  BY DEF Init, TaskHeadroomKept
<1>2. ASSUME LedgerInv, PlacesFit, TaskHeadroomKept, [Next]_vars PROVE TaskHeadroomKept'
  BY <1>2, HeadroomStep DEF LedgerInv
<1>3. ASSUME LedgerInv, PlacesFit, [Next]_vars PROVE LedgerInv' /\ PlacesFit'
  BY <1>3, LedgerStep, PlacesStep DEF LedgerInv
<1> QED
  BY <1>1, <1>2, <1>3, LedgerInit, PlacesInit, PTL DEF Spec

-----------------------------------------------------------------------------
(* The ring of parked tasks *)

Distinct(s) == \A i, j \in 1..Len(s) : s[i] = s[j] => i = j

Before(s, a, b) == \E i, j \in 1..Len(s) : i < j /\ s[i] = a /\ s[j] = b

\* Leaving a sequence without repetition takes one element out and keeps the
\* order of the others.
LEMMA LeavingKeeps ==
    ASSUME NEW S, NEW s \in Seq(S), NEW e, Distinct(s)
    PROVE  /\ Distinct(RemoveFirst(s, e))
           /\ \A x : Contains(RemoveFirst(s, e), x) <=> Contains(s, x) /\ x # e
           /\ \A a, b : Before(RemoveFirst(s, e), a, b) => Before(s, a, b)
<1>1. CASE RemoveFirst(s, e) = s /\ ~Contains(s, e)
  BY <1>1
<1>2. CASE \E i \in 1..Len(s) : s[i] = e /\ RemoveFirst(s, e) = RemoveAt(s, i)
  <2> PICK i \in 1..Len(s) : s[i] = e /\ RemoveFirst(s, e) = RemoveAt(s, i)
    BY <1>2
  <2> DEFINE t == RemoveAt(s, i)
             up(j) == IF j < i THEN j ELSE j + 1
  <2>1. /\ Len(s) \in Nat /\ Len(t) = Len(s) - 1
        /\ \A j \in 1..Len(t) : t[j] = s[up(j)]
    <3>1. Len(s) \in Nat /\ Len(t) = Len(s) - 1
      BY RemoveAtIs
    <3>2. \A j \in 1..(Len(s) - 1) : t[j] = s[IF j < i THEN j ELSE j + 1]
      BY RemoveAtIs
    <3> QED
      BY <3>1, <3>2
  <2>2. \A j \in 1..Len(t) : up(j) \in 1..Len(s) /\ up(j) # i
    BY <2>1
  <2>3. \A j, m \in 1..Len(t) : (up(j) = up(m) => j = m) /\ (j < m => up(j) < up(m))
    BY <2>1
  <2>4. \A m \in 1..Len(s) : m # i => \E j \in 1..Len(t) : up(j) = m
    <3> TAKE m \in 1..Len(s)
    <3>1. CASE m < i
      <4>1. m \in 1..Len(t) /\ up(m) = m
        BY <2>1, <3>1
      <4> QED
        BY <4>1
    <3>2. CASE m > i
      <4>1. m - 1 \in 1..Len(t) /\ up(m - 1) = m
        BY <2>1, <3>2
      <4> QED
        BY <4>1
    <3> QED
      BY <3>1, <3>2
  <2> HIDE DEF t, up
  <2>5. Distinct(t)
    BY <2>1, <2>2, <2>3 DEF Distinct
  <2>6. ASSUME NEW x PROVE Contains(t, x) <=> Contains(s, x) /\ x # e
    <3>1. ASSUME Contains(t, x) PROVE Contains(s, x) /\ x # e
      <4> PICK j \in 1..Len(t) : t[j] = x
        BY <3>1 DEF Contains
      <4>1. s[up(j)] = x /\ up(j) \in 1..Len(s) /\ up(j) # i
        BY <2>1, <2>2
      <4>2. x # e
        BY <4>1 DEF Distinct
      <4> QED
        BY <4>1, <4>2 DEF Contains
    <3>2. ASSUME Contains(s, x), x # e PROVE Contains(t, x)
      <4> PICK m \in 1..Len(s) : s[m] = x
        BY <3>2 DEF Contains
      <4>1. m # i
        BY <3>2
      <4> PICK j \in 1..Len(t) : up(j) = m
        BY <2>4, <4>1
      <4> QED
        BY <2>1 DEF Contains
    <3> QED
      BY <3>1, <3>2
  <2>7. ASSUME NEW a, NEW b, Before(t, a, b) PROVE Before(s, a, b)
    BY <2>1, <2>2, <2>3, <2>7 DEF Before
  <2> QED
    BY <2>5, <2>6, <2>7 DEF t
<1> QED
  BY <1>1, <1>2, RemoveFirstIs

\* Joining at the end puts the newcomer after the others.
LEMMA JoiningKeeps ==
    ASSUME NEW S, NEW s \in Seq(S), NEW e \in S, Distinct(s), ~Contains(s, e)
    PROVE  /\ Distinct(Append(s, e))
           /\ \A x : Contains(Append(s, e), x) <=> Contains(s, x) \/ x = e
           /\ \A a, b : Before(Append(s, e), a, b) => Before(s, a, b) \/ b = e
<1> DEFINE t == Append(s, e)
<1>1. /\ Len(s) \in Nat /\ Len(t) = Len(s) + 1
      /\ t[Len(s) + 1] = e
      /\ \A j \in 1..Len(s) : t[j] = s[j]
  BY AppendProperties
<1> HIDE DEF t
<1>2. \A j \in 1..Len(t) : j \in 1..Len(s) \/ j = Len(s) + 1
  BY <1>1
<1>3. 1..Len(s) \subseteq 1..Len(t) /\ Len(s) + 1 \in 1..Len(t)
  BY <1>1
<1>4. Distinct(t)
  BY <1>1, <1>2 DEF Distinct, Contains
<1>5. ASSUME NEW x PROVE Contains(t, x) <=> Contains(s, x) \/ x = e
  BY <1>1, <1>2, <1>3 DEF Contains
<1>6. ASSUME NEW a, NEW b, Before(t, a, b) PROVE Before(s, a, b) \/ b = e
  <2> PICK i, j \in 1..Len(t) : i < j /\ t[i] = a /\ t[j] = b
    BY <1>6 DEF Before
  <2>1. CASE j = Len(s) + 1
    BY <1>1, <2>1
  <2>2. CASE j \in 1..Len(s)
    <3>1. i \in 1..Len(s)
      BY <1>1, <2>2
    <3> QED
      BY <1>1, <2>2, <3>1 DEF Before
  <2> QED
    BY <1>2, <2>1, <2>2
<1> QED
  BY <1>4, <1>5, <1>6 DEF t

\* A line is empty when nobody stands in it.
LEMMA EmptyLine ==
    ASSUME NEW S, NEW s \in Seq(S)
    PROVE  s = <<>> <=> \A x \in S : ~Contains(s, x)
<1>1. s = <<>> => \A x \in S : ~Contains(s, x)
  BY DEF Contains
<1>2. ASSUME s # <<>> PROVE \E x \in S : Contains(s, x)
  <2>1. 1 \in 1..Len(s) /\ s[1] \in S
    BY <1>2
  <2> QED
    BY <2>1 DEF Contains
<1> QED
  BY <1>1, <1>2
\* The ring and its order hold the parked tasks, each in its creator's line.
RingKept ==
    /\ \A k \in Creators : \A r \in Reqs :
          Contains(ring[k], r) <=> pc[r] = "parked" /\ Req[r].creator = k
    /\ \A k \in Creators :
          Distinct(ring[k]) /\ (Contains(ringOrder, k) <=> ring[k] # <<>>)
    /\ Distinct(ringOrder)

\* No task is smaller than that of call r.
Lightest(r) == \A q \in Reqs : Path(q) = "task" => E(r) <= E(q)

\* A creator that was let in while the single run r waited stands behind it now.
PassedBehind ==
    \A r \in Reqs : SingleRun(r) /\ Lightest(r) =>
        /\ pc[r] = "idle" => \A k \in Creators : passed[r][k] = 0
        /\ pc[r] = "parked" => \A k \in Creators :
              \/ passed[r][k] = 0
              \/ passed[r][k] = 1 /\ ~Before(ringOrder, k, Req[r].creator)

Quiet ==
    /\ UNCHANGED <<ring, ringOrder, passed>>
    /\ \A q \in Reqs : pc'[q] = "parked" <=> pc[q] = "parked"

Joins(r) ==
    /\ pc[r] = "idle" /\ Path(r) = "task"
    /\ Goto(r, "parked") /\ RingJoin(r)
    /\ UNCHANGED passed

LetIn(r) ==
    /\ RingTurn(r)
    /\ passed' = [q \in Reqs |->
           IF pc[q] = "parked" /\ Req[q].creator # Req[r].creator
           THEN [passed[q] EXCEPT ![Req[r].creator] = @ + 1] ELSE passed[q]]

Leaves(r) ==
    /\ pc[r] = "parked"
    /\ Goto(r, "admitted") \/ Goto(r, "gone")
    /\ RingLeaveRotate(r)
    /\ UNCHANGED passed \/ LetIn(r)

\* Nothing else touches the ring.
LEMMA RingMoves ==
    ASSUME TypeOK, [Next]_vars
    PROVE  Quiet \/ \E r \in Reqs : Joins(r) \/ Leaves(r)
<1> USE DEF ledger, queues, world, control
<1> DEFINE Rings == UNCHANGED <<ring, ringOrder, passed>>
<1>1. ASSUME NEW r \in Reqs, NEW x, x # "parked", pc[r] # "parked", Goto(r, x), Rings
      PROVE  Quiet
  BY <1>1 DEF Quiet, Goto, TypeOK
<1>2. ASSUME UNCHANGED pc, Rings PROVE Quiet
  BY <1>2 DEF Quiet
<1>3. ASSUME NEW r \in Reqs,
             Arrive(r) \/ CapCheck(r) \/ FastPath(r) \/ AcquireSpeculative(r)
             \/ QueueTop(r) \/ QueueCheck(r) \/ QueueDeadline(r) \/ QueueWake(r)
             \/ AdmitLoop(r) \/ Scan(r) \/ Verdict(r)
      PROVE  Quiet
  <2>1. Rings
    BY <1>3, Zenon
    DEF Arrive, CapCheck, FastPath, AcquireSpeculative, QueueTop, QueueCheck,
        QueueDeadline, QueueWake, AdmitLoop, Scan, Verdict
  <2>2. pc[r] # "parked"
    BY <1>3
    DEF Arrive, CapCheck, FastPath, AcquireSpeculative, QueueTop, QueueCheck,
        QueueDeadline, QueueWake, AdmitLoop, Scan, Verdict
  <2>3. ASSUME \A x : Goto(r, x) => x = "parked" PROVE FALSE
    <3>1. CASE Arrive(r) \/ CapCheck(r)
      BY <2>3, <3>1 DEF Arrive, CapCheck, Enter, AdmitTracked
    <3>2. CASE FastPath(r) \/ AcquireSpeculative(r)
      BY <2>3, <3>2 DEF FastPath, AcquireSpeculative, AdmitTracked, AdmitNew, Refuse
    <3>3. CASE QueueTop(r) \/ QueueCheck(r) \/ QueueDeadline(r) \/ QueueWake(r)
      BY <2>3, <3>3 DEF QueueTop, QueueCheck, QueueDeadline, QueueWake, AdmitTracked,
                        AdmitNew, Refuse
    <3>4. CASE AdmitLoop(r) \/ Verdict(r)
      BY <2>3, <3>4 DEF AdmitLoop, Verdict, AdmitTracked, AdmitNew, Refuse
    <3>5. CASE Scan(r)
      BY <2>3, <3>5 DEF Scan
    <3> QED
      BY <1>3, <3>1, <3>2, <3>3, <3>4, <3>5
  <2> QED
    BY <1>1, <2>1, <2>2, <2>3
<1>4. ASSUME NEW r \in Reqs,
             EvictClaim(r) \/ EvictRemove(r) \/ EvictClose(r) \/ EvictRelease(r)
             \/ MaintenancePass(r) \/ AcquireMeeting(r) \/ Abandon(r) \/ RunEnds(r)
      PROVE  Quiet
  <2>1. Rings
    BY <1>4, Zenon
    DEF EvictClaim, EvictRemove, EvictClose, EvictRelease, MaintenancePass, AcquireMeeting,
        Abandon, RunEnds
  <2>2. pc[r] # "parked"
    BY <1>4
    DEF EvictClaim, EvictRemove, EvictClose, EvictRelease, MaintenancePass, AcquireMeeting,
        Abandon, RunEnds
  <2>3. back[r] # "parked"
    BY DEF TypeOK
  <2>4. \E x : x # "parked" /\ Goto(r, x)
    <3>1. CASE EvictClaim(r) \/ EvictRemove(r) \/ EvictClose(r) \/ EvictRelease(r)
      BY <2>3, <3>1 DEF EvictClaim, EvictRemove, EvictClose, EvictRelease
    <3>2. CASE MaintenancePass(r) \/ AcquireMeeting(r) \/ Abandon(r) \/ RunEnds(r)
      BY <3>2 DEF MaintenancePass, AcquireMeeting, Abandon, RunEnds
    <3> QED
      BY <1>4, <3>1, <3>2
  <2> QED
    BY <1>1, <2>1, <2>2, <2>4
<1>5. ASSUME NEW r \in Reqs,
             ReserveBackground(r) \/ WakeRecheck(r) \/ WakeGivesWay(r) \/ WakeTimeout(r)
      PROVE  Quiet
  <2>1. Rings
    BY <1>5, Zenon DEF ReserveBackground, WakeRecheck, WakeGivesWay, WakeTimeout
  <2>2. pc[r] # "parked"
    BY <1>5 DEF ReserveBackground, WakeRecheck, WakeGivesWay, WakeTimeout
  <2>3. \E x : x # "parked" /\ Goto(r, x)
    BY <1>5
    DEF ReserveBackground, WakeRecheck, WakeGivesWay, WakeTimeout, WakeLook, WakeEnds
  <2> QED
    BY <1>1, <2>1, <2>2, <2>3
<1>6. ASSUME NEW r \in Reqs, AcquireTask(r) PROVE Quiet \/ Joins(r)
  <2>1. pc[r] = "idle" /\ Path(r) = "task"
    BY <1>6 DEF AcquireTask
  <2>2. CASE Goto(r, "admitted") /\ UNCHANGED queues
    BY <1>1, <2>1, <2>2
  <2>3. CASE RingJoin(r) /\ Goto(r, "parked") /\ UNCHANGED passed
    BY <2>1, <2>3 DEF Joins
  <2> QED
    BY <1>6, <2>2, <2>3, Zenon DEF AcquireTask
<1>7. ASSUME NEW r \in Reqs, RingAdmit(r) PROVE Leaves(r)
  BY <1>7, Zenon DEF RingAdmit, Leaves, LetIn
<1>8. ASSUME NEW r \in Reqs, Cancel(r) PROVE Quiet \/ Leaves(r)
  <2>1. Goto(r, "gone") /\ UNCHANGED passed
    BY <1>8 DEF Cancel
  <2>2. CASE pc[r] # "parked" /\ UNCHANGED <<ring, ringOrder>>
    BY <1>1, <2>1, <2>2
  <2>3. CASE pc[r] = "parked" /\ RingLeaveRotate(r)
    BY <2>1, <2>3 DEF Leaves
  <2>4. pc[r] \in Waiting \cup {"cap", "capscan", "loop", "scan"} => pc[r] # "parked"
    BY DEF Waiting
  <2> QED
    BY <1>8, <2>2, <2>3, <2>4 DEF Cancel
<1>9. ASSUME NEW s \in Sids, Spawn(s) \/ SpawnFails(s) PROVE Quiet
  <2>1. Rings
    BY <1>9, Zenon DEF Spawn, SpawnFails
  <2>2. \A q \in Reqs : pc'[q] = "parked" <=> pc[q] = "parked"
    BY <1>9 DEF Spawn, SpawnFails, Spawners
  <2> QED
    BY <2>1, <2>2 DEF Quiet
<1>10. ASSUME NEW s \in Sids,
              CloseBegins(s) \/ CloseEnds(s) \/ AgeOut(s)
              \/ \E m \in {"active", "idle", "background"} : SetMode(s, m)
       PROVE  Quiet
  BY <1>2, <1>10, Zenon DEF CloseBegins, CloseEnds, AgeOut, SetMode
<1>11. ASSUME HostMemory \/ ReconcileReads \/ ReconcileFrees \/ UNCHANGED vars PROVE Quiet
  BY <1>2, <1>11, Zenon DEF HostMemory, ReconcileReads, ReconcileFrees, vars
<1> QED
  BY <1>3, <1>4, <1>5, <1>6, <1>7, <1>8, <1>9, <1>10, <1>11 DEF Next
LEMMA RingTypes ==
    ASSUME TypeOK
    PROVE  /\ ringOrder \in Seq(Creators)
           /\ \A k \in Creators : ring[k] \in Seq(Reqs)
           /\ \A r \in Reqs : Req[r].creator \in Creators
  BY ReqTypes DEF TypeOK

\* A task that parks stands last in its creator's line.
LEMMA JoinKeeps ==
    ASSUME TypeOK, RingKept, NEW r \in Reqs, Joins(r)
    PROVE  RingKept'
<1> DEFINE k == Req[r].creator
<1>1. /\ k \in Creators /\ ring[k] \in Seq(Reqs) /\ ringOrder \in Seq(Creators)
      /\ Distinct(ring[k]) /\ Distinct(ringOrder)
      /\ Contains(ringOrder, k) <=> ring[k] # <<>>
  BY RingTypes DEF RingKept
<1>2. pc' = [pc EXCEPT ![r] = "parked"] /\ pc \in [Reqs -> Places] /\ pc[r] = "idle"
  BY DEF Joins, Goto, TypeOK
<1>3. ~Contains(ring[k], r)
  BY <1>1, <1>2 DEF RingKept
<1>4. /\ ring' = [ring EXCEPT ![k] = Append(ring[k], r)]
      /\ ringOrder' = IF ring[k] = <<>> THEN Append(ringOrder, k) ELSE ringOrder
      /\ DOMAIN ring = Creators
  BY DEF Joins, RingJoin, TypeOK
<1>5. /\ Distinct(Append(ring[k], r))
      /\ \A x : Contains(Append(ring[k], r), x) <=> Contains(ring[k], x) \/ x = r
  BY <1>1, <1>3, JoiningKeeps
<1>6. Append(ring[k], r) # <<>>
  BY <1>1, AppendProperties
<1>7. /\ Distinct(ringOrder')
      /\ \A x : Contains(ringOrder', x) <=> Contains(ringOrder, x) \/ x = k
  <2>1. CASE ring[k] = <<>>
    BY <1>1, <1>4, <2>1, JoiningKeeps
  <2>2. CASE ring[k] # <<>>
    BY <1>1, <1>4, <2>2
  <2> QED
    BY <2>1, <2>2
<1>8. ASSUME NEW c \in Creators
      PROVE  /\ \A q \in Reqs : Contains(ring'[c], q) <=> pc'[q] = "parked" /\ Req[q].creator = c
             /\ Distinct(ring'[c])
             /\ Contains(ringOrder', c) <=> ring'[c] # <<>>
  <2>1. \A q \in Reqs : Contains(ring[c], q) <=> pc[q] = "parked" /\ Req[q].creator = c
    BY DEF RingKept
  <2>2. CASE c = k
    <3>1. ring'[c] = Append(ring[k], r)
      BY <1>4, <1>1, <2>2
    <3> QED
      BY <1>2, <1>5, <1>6, <1>7, <2>1, <2>2, <3>1
  <2>3. CASE c # k
    <3>1. ring'[c] = ring[c] /\ Req[r].creator # c
      BY <1>4, <2>3
    <3>2. Distinct(ring[c]) /\ (Contains(ringOrder, c) <=> ring[c] # <<>>)
      BY DEF RingKept
    <3> HIDE DEF k
    <3> QED
      BY <1>2, <1>7, <2>1, <2>3, <3>1, <3>2
  <2> QED
    BY <2>2, <2>3
<1> QED
  BY <1>7, <1>8 DEF RingKept

\* What leaving the ring does to it, and to the order of the others.
LEMMA LeaveIs ==
    ASSUME TypeOK, RingKept, NEW r \in Reqs, RingLeaveRotate(r), pc[r] = "parked",
           NEW k, k = Req[r].creator
    PROVE  /\ ring' = [ring EXCEPT ![k] = ring'[k]]
           /\ Distinct(ring'[k]) /\ Distinct(ringOrder')
           /\ \A x : Contains(ring'[k], x) <=> Contains(ring[k], x) /\ x # r
           /\ \A x : x # k => (Contains(ringOrder', x) <=> Contains(ringOrder, x))
           /\ Contains(ringOrder', k) <=> ring'[k] # <<>>
           /\ \A a, b : b # k /\ Before(ringOrder', a, b) => a # k /\ Before(ringOrder, a, b)
<1> DEFINE rest == RemoveFirst(ring[k], r)
           others == RemoveFirst(ringOrder, k)
<1>1. /\ k \in Creators /\ ring[k] \in Seq(Reqs) /\ ringOrder \in Seq(Creators)
      /\ Distinct(ring[k]) /\ Distinct(ringOrder)
  BY RingTypes DEF RingKept
<1>2. /\ ring' = [ring EXCEPT ![k] = rest]
      /\ ringOrder' = IF rest = <<>> THEN others ELSE Append(others, k)
  BY DEF RingLeaveRotate
<1>3. /\ Distinct(rest)
      /\ \A x : Contains(rest, x) <=> Contains(ring[k], x) /\ x # r
  BY <1>1, LeavingKeeps
<1>4. /\ others \in Seq(Creators) /\ Distinct(others)
      /\ \A x : Contains(others, x) <=> Contains(ringOrder, x) /\ x # k
      /\ \A a, b : Before(others, a, b) => Before(ringOrder, a, b)
  BY <1>1, LeavingKeeps, RemoveFirstType
<1> HIDE DEF rest, others
<1>5. /\ Distinct(Append(others, k))
      /\ \A x : Contains(Append(others, k), x) <=> Contains(others, x) \/ x = k
      /\ \A a, b : Before(Append(others, k), a, b) => Before(others, a, b) \/ b = k
  BY <1>1, <1>4, JoiningKeeps
<1>6. ring'[k] = rest
  BY <1>1, <1>2 DEF TypeOK
<1>7. \A a, b : Before(others, a, b) => Contains(others, a)
  BY DEF Before, Contains
<1>8. CASE rest = <<>>
  BY <1>2, <1>3, <1>4, <1>6, <1>7, <1>8
<1>9. CASE rest # <<>>
  BY <1>2, <1>3, <1>4, <1>5, <1>6, <1>7, <1>9
<1> QED
  BY <1>8, <1>9

LEMMA LeaveKeeps ==
    ASSUME TypeOK, RingKept, NEW r \in Reqs, Leaves(r)
    PROVE  RingKept'
<1> DEFINE k == Req[r].creator
<1>1. RingLeaveRotate(r) /\ pc[r] = "parked" /\ k \in Creators /\ DOMAIN ring = Creators
  BY ReqTypes DEF Leaves, TypeOK
<1>2. \A q \in Reqs : pc'[q] = "parked" <=> pc[q] = "parked" /\ q # r
  BY DEF Leaves, Goto, TypeOK
<1>3. /\ ring' = [ring EXCEPT ![k] = ring'[k]]
      /\ Distinct(ring'[k]) /\ Distinct(ringOrder')
      /\ \A x : Contains(ring'[k], x) <=> Contains(ring[k], x) /\ x # r
      /\ \A x : x # k => (Contains(ringOrder', x) <=> Contains(ringOrder, x))
      /\ Contains(ringOrder', k) <=> ring'[k] # <<>>
  BY <1>1, LeaveIs
<1>4. ASSUME NEW c \in Creators
      PROVE  /\ \A q \in Reqs : Contains(ring'[c], q) <=> pc'[q] = "parked" /\ Req[q].creator = c
             /\ Distinct(ring'[c])
             /\ Contains(ringOrder', c) <=> ring'[c] # <<>>
  <2>1. /\ \A q \in Reqs : Contains(ring[c], q) <=> pc[q] = "parked" /\ Req[q].creator = c
        /\ Distinct(ring[c]) /\ (Contains(ringOrder, c) <=> ring[c] # <<>>)
    BY DEF RingKept
  <2>2. CASE c = k
    BY <1>2, <1>3, <2>1, <2>2
  <2>3. CASE c # k
    <3>1. ring'[c] = ring[c]
      BY <1>1, <1>3, <2>3
    <3> QED
      BY <1>2, <1>3, <2>1, <2>3, <3>1
  <2> QED
    BY <2>2, <2>3
<1> QED
  BY <1>3, <1>4 DEF RingKept

LEMMA RingKeptStep ==
    ASSUME TypeOK, RingKept, [Next]_vars
    PROVE  RingKept'
<1>1. CASE Quiet
  BY <1>1 DEF Quiet, RingKept
<1> QED
  BY <1>1, RingMoves, JoinKeeps, LeaveKeeps

LEMMA RingKeptInit == Init => RingKept
<1> SUFFICES ASSUME Init PROVE RingKept
  OBVIOUS
<1>1. \A x : ~Contains(<<>>, x)
  BY DEF Contains
<1>2. Distinct(<<>>)
  BY DEF Distinct
<1> QED
  BY <1>1, <1>2 DEF Init, RingKept
LEMMA EstTypes ==
    ASSUME TypeOK
    PROVE  /\ \A r \in Reqs : E(r) \in Nat
           /\ reserved \in Nat /\ live \in Int /\ GrowinDebit \in Nat
           /\ Budget \in Nat /\ Floor \in Nat /\ Heavy \in Nat
<1>1. {s \in Tracked : age[s] = "new"} \in SUBSET Sids
  BY DEF Tracked
<1>2. GrowinDebit \in Nat
  BY <1>1, EstSumType DEF GrowinDebit
<1> QED
  BY <1>2, ReqTypes, AdmissionAssumption DEF TypeOK, E

\* A smaller session fits wherever a larger one does.
LEMMA SmallerFits ==
    ASSUME TypeOK, NEW r \in Reqs, NEW q \in Reqs, E(r) <= E(q), HasRoom(E(q), TRUE)
    PROVE  HasRoom(E(r), TRUE)
<1>1. Gate1(E(r), TRUE)
  BY EstTypes DEF HasRoom, Gate1, Headroom
<1>2. Gate2(E(r), TRUE)
  BY EstTypes DEF HasRoom, Gate2, Headroom
<1> QED
  BY <1>1, <1>2 DEF HasRoom

\* Only tasks park.
LEMMA ParkedIsTask ==
    ASSUME PlacesFit
    PROVE  \A r \in Reqs : pc[r] = "parked" => Path(r) = "task"
  BY ReqTypes DEF PlacesFit, PlacesOf, Lobby, Waiting, Evicting, Paths

\* Nobody returns to the door of the ring.
LEMMA NoWayBack ==
    ASSUME TypeOK, PlacesFit, [Next]_vars, NEW r \in Reqs, Path(r) = "task",
           pc'[r] = "idle"
    PROVE  pc[r] = "idle"
<1> SUFFICES ASSUME pc[r] # "idle" PROVE FALSE
  OBVIOUS
<1>1. pc[r] \in {"parked", "admitted", "running", "gone"}
  BY DEF PlacesFit, PlacesOf
<1>2. ASSUME NEW x, x # "idle", Goto(r, x) PROVE FALSE
  BY <1>2 DEF Goto, TypeOK
<1>3. CASE Stays(r)
  BY <1>3 DEF Stays
<1>4. CASE Started(r)
  BY <1>4 DEF Started, Spawn, SpawnFails
<1>5. CASE Arrive(r) \/ CapCheck(r) \/ FastPath(r) \/ AcquireSpeculative(r)
           \/ QueueTop(r) \/ QueueCheck(r) \/ QueueDeadline(r) \/ QueueWake(r)
           \/ AdmitLoop(r) \/ Scan(r) \/ Verdict(r)
  BY <1>1, <1>5
  DEF Arrive, CapCheck, FastPath, AcquireSpeculative, QueueTop, QueueCheck, QueueDeadline,
      QueueWake, AdmitLoop, Scan, Verdict
<1>6. CASE EvictClaim(r) \/ EvictRemove(r) \/ EvictClose(r) \/ EvictRelease(r)
           \/ MaintenancePass(r) \/ AcquireMeeting(r) \/ AcquireTask(r)
           \/ ReserveBackground(r) \/ WakeRecheck(r) \/ WakeGivesWay(r) \/ WakeTimeout(r)
  BY <1>1, <1>6
  DEF EvictClaim, EvictRemove, EvictClose, EvictRelease, MaintenancePass, AcquireMeeting,
      AcquireTask, ReserveBackground, WakeRecheck, WakeGivesWay, WakeTimeout
<1>7. CASE RingAdmit(r) \/ Abandon(r) \/ RunEnds(r) \/ Cancel(r)
  BY <1>2, <1>7 DEF RingAdmit, Abandon, RunEnds, Cancel
<1> QED
  BY <1>3, <1>4, <1>5, <1>6, <1>7, Movers DEF Own

\* Whose turn it is stands before every single run that is no larger.
LEMMA TurnIsBefore ==
    ASSUME TypeOK, RingKept, PlacesFit, NEW q \in Reqs, RingTurn(q),
           NEW r \in Reqs, pc[r] = "parked", SingleRun(r), Lightest(r),
           Req[q].creator # Req[r].creator, pc[q] = "parked"
    PROVE  Before(ringOrder, Req[q].creator, Req[r].creator)
<1> DEFINE kr == Req[r].creator
<1>1. PICK i \in 1..Len(ringOrder) :
        /\ ring[ringOrder[i]] # <<>>
        /\ Head(ring[ringOrder[i]]) = q
        /\ HasRoom(E(q), TRUE)
        /\ \A m \in 1..(i - 1) :
              ring[ringOrder[m]] # <<>> => ~HasRoom(E(Head(ring[ringOrder[m]])), TRUE)
  BY DEF RingTurn
<1>2. \A k \in Creators : ring[k] # <<>> =>
        Head(ring[k]) \in Reqs /\ Contains(ring[k], Head(ring[k]))
  <2> SUFFICES ASSUME NEW k \in Creators, ring[k] # <<>>
               PROVE  Head(ring[k]) \in Reqs /\ Contains(ring[k], Head(ring[k]))
    OBVIOUS
  <2>1. ring[k] \in Seq(Reqs)
    BY RingTypes
  <2>2. Head(ring[k]) = ring[k][1] /\ 1 \in 1..Len(ring[k]) /\ ring[k][1] \in Reqs
    BY <2>1
  <2> QED
    BY <2>2 DEF Contains
<1>3. ringOrder[i] = Req[q].creator
  <2>1. ringOrder[i] \in Creators
    BY RingTypes
  <2> QED
    BY <1>1, <1>2, <2>1 DEF RingKept
<1>4. kr \in Creators /\ Contains(ring[kr], r)
  BY RingTypes DEF RingKept
<1>5. ring[kr] # <<>>
  BY <1>4 DEF Contains
<1>6. PICK j \in 1..Len(ringOrder) : ringOrder[j] = kr
  BY <1>4, <1>5 DEF RingKept, Contains
<1>7. Head(ring[kr]) = r
  <2>1. /\ Head(ring[kr]) \in Reqs /\ pc[Head(ring[kr])] = "parked"
        /\ Req[Head(ring[kr])].creator = kr
    BY <1>2, <1>4, <1>5 DEF RingKept
  <2>2. Path(Head(ring[kr])) = "task"
    BY <2>1, ParkedIsTask
  <2> QED
    BY <2>1, <2>2 DEF SingleRun
<1>8. HasRoom(E(r), TRUE)
  <2>1. E(r) <= E(q)
    BY ParkedIsTask DEF Lightest
  <2> QED
    BY <1>1, <2>1, SmallerFits
<1>9. ~ (j < i)
  <2> SUFFICES ASSUME j < i PROVE FALSE
    OBVIOUS
  <2>1. j \in 1..(i - 1)
    OBVIOUS
  <2> QED
    BY <1>1, <1>5, <1>6, <1>7, <1>8, <2>1
<1>10. i # j
  BY <1>3, <1>6
<1>11. i < j
  BY <1>9, <1>10
<1> QED
  BY <1>3, <1>6, <1>11 DEF Before

LEMMA PassedStep ==
    ASSUME TypeOK, RingKept, PlacesFit, PassedBehind, [Next]_vars
    PROVE  PassedBehind'
<1> SUFFICES ASSUME NEW r \in Reqs, SingleRun(r), Lightest(r)
             PROVE  /\ pc'[r] = "idle" => \A k \in Creators : passed'[r][k] = 0
                    /\ pc'[r] = "parked" => \A k \in Creators :
                          \/ passed'[r][k] = 0
                          \/ passed'[r][k] = 1 /\ ~Before(ringOrder', k, Req[r].creator)
  BY DEF PassedBehind, SingleRun, Lightest
<1> DEFINE kr == Req[r].creator
<1>1. /\ Path(r) = "task" /\ kr \in Creators
      /\ pc[r] = "idle" => \A k \in Creators : passed[r][k] = 0
      /\ pc[r] = "parked" => \A k \in Creators :
            \/ passed[r][k] = 0
            \/ passed[r][k] = 1 /\ ~Before(ringOrder, k, kr)
  BY ReqTypes DEF PassedBehind, SingleRun
<1>2. pc'[r] = "idle" => pc[r] = "idle"
  BY <1>1, NoWayBack
<1>3. CASE Quiet
  BY <1>1, <1>2, <1>3 DEF Quiet
<1>4. ASSUME NEW q \in Reqs, Joins(q)
      PROVE  \A k \in Creators :
                /\ pc'[r] = "idle" => passed'[r][k] = 0
                /\ pc'[r] = "parked" => \/ passed'[r][k] = 0
                                        \/ /\ passed'[r][k] = 1
                                           /\ ~Before(ringOrder', k, kr)
  <2>1. passed' = passed /\ pc' = [pc EXCEPT ![q] = "parked"] /\ pc[q] = "idle"
    BY <1>4 DEF Joins, Goto
  <2>2. CASE q = r
    BY <1>1, <1>2, <2>1, <2>2
  <2>3. CASE q # r
    <3> DEFINE kq == Req[q].creator
    <3>1. kq # kr
      BY <1>4, <2>3 DEF SingleRun, Joins
    <3>2. pc'[r] = pc[r]
      BY <2>1, <2>3
    <3>3. kq \in Creators /\ ringOrder \in Seq(Creators) /\ Distinct(ringOrder)
      BY RingTypes DEF RingKept
    <3>4. ringOrder' = IF ring[kq] = <<>> THEN Append(ringOrder, kq) ELSE ringOrder
      BY <1>4 DEF Joins, RingJoin
    <3>5. ring[kq] = <<>> => ~Contains(ringOrder, kq)
      BY <3>3 DEF RingKept
    <3>6. \A k : Before(ringOrder', k, kr) => Before(ringOrder, k, kr)
      <4>1. CASE ring[kq] = <<>>
        <5>1. \A a, b : Before(Append(ringOrder, kq), a, b) => Before(ringOrder, a, b) \/ b = kq
          BY <3>3, <3>5, <4>1, JoiningKeeps
        <5> QED
          BY <3>1, <3>4, <4>1, <5>1
      <4>2. CASE ring[kq] # <<>>
        BY <3>4, <4>2
      <4> QED
        BY <4>1, <4>2
    <3> QED
      BY <1>1, <2>1, <3>2, <3>6
  <2> QED
    BY <2>2, <2>3
<1>5. ASSUME NEW q \in Reqs, Leaves(q)
      PROVE  \A k \in Creators :
                /\ pc'[r] = "idle" => passed'[r][k] = 0
                /\ pc'[r] = "parked" => \/ passed'[r][k] = 0
                                        \/ /\ passed'[r][k] = 1
                                           /\ ~Before(ringOrder', k, kr)
  <2> DEFINE kq == Req[q].creator
  <2>1. /\ pc[q] = "parked" /\ RingLeaveRotate(q) /\ (UNCHANGED passed \/ LetIn(q))
        /\ Path(q) = "task" /\ kq \in Creators
    BY <1>5, ParkedIsTask, ReqTypes DEF Leaves
  <2>2. pc'[q] \in {"admitted", "gone"} /\ (q # r => pc'[r] = pc[r])
    BY <1>5 DEF Leaves, Goto, TypeOK
  <2>3. CASE q = r
    BY <2>2, <2>3
  <2>4. CASE q # r
    <3>1. kq # kr
      BY <2>1, <2>4 DEF SingleRun
    <3>2. \A a, b : b # kq /\ Before(ringOrder', a, b) => a # kq /\ Before(ringOrder, a, b)
      BY <2>1, LeaveIs
    <3>3. /\ ~Before(ringOrder', kq, kr)
          /\ \A k : Before(ringOrder', k, kr) => Before(ringOrder, k, kr)
      BY <3>1, <3>2
    <3>4. CASE UNCHANGED passed
      BY <1>1, <2>2, <2>4, <3>3, <3>4
    <3>5. CASE LetIn(q) /\ pc[r] # "parked"
      <4>1. passed'[r] = passed[r]
        BY <3>5 DEF LetIn
      <4> QED
        BY <1>1, <2>2, <2>4, <3>5, <4>1
    <3>6. CASE LetIn(q) /\ pc[r] = "parked"
      <4>1. passed'[r] = [passed[r] EXCEPT ![kq] = @ + 1] /\ passed[r] \in [Creators -> Nat]
        BY <3>1, <3>6 DEF LetIn, TypeOK
      <4>2. Before(ringOrder, kq, kr)
        BY <2>1, <3>1, <3>6, TurnIsBefore DEF LetIn
      <4>3. passed[r][kq] = 0
        BY <1>1, <2>1, <3>6, <4>2
      <4>4. passed'[r][kq] = 1 /\ \A k \in Creators : k # kq => passed'[r][k] = passed[r][k]
        BY <2>1, <4>1, <4>3
      <4>5. pc'[r] = "parked"
        BY <2>2, <2>4, <3>6
      <4> HIDE DEF kq, kr
      <4> QED
        BY <1>1, <3>3, <3>6, <4>4, <4>5
    <3> QED
      BY <2>1, <3>4, <3>5, <3>6
  <2> QED
    BY <2>3, <2>4
<1> QED
  BY <1>3, <1>4, <1>5, RingMoves

RingInv == LedgerInv /\ PlacesFit /\ RingKept /\ PassedBehind

LEMMA RingHolds == Spec => []RingInv
<1>1. Init => RingInv
  <2>1. Init => PassedBehind
    BY DEF Init, PassedBehind
  <2> QED
    BY <2>1, LedgerInit, PlacesInit, RingKeptInit DEF RingInv
<1>2. RingInv /\ [Next]_vars => RingInv'
  BY LedgerStep, PlacesStep, RingKeptStep, PassedStep DEF RingInv, LedgerInv
<1> QED
  BY <1>1, <1>2, PTL DEF Spec

\* The ring holds every parked task once, in its creator's line, and the order has
\* exactly the creators that have somebody waiting, each once.
THEOREM RingIsExact == Spec => []RingExact
<1>1. RingInv => RingExact
  <2> SUFFICES ASSUME RingInv PROVE RingExact
    OBVIOUS
  <2>1. \A r \in Reqs : pc[r] = "parked" <=> Contains(ring[Req[r].creator], r)
    BY ReqTypes DEF RingInv, RingKept
  <2> QED
    BY <2>1 DEF RingInv, RingKept, RingExact, Distinct
<1> QED
  BY <1>1, RingHolds, PTL

\* "a single run waits behind at most one run of each other creator": so it is for
\* every single run that needs no more room than another task does.
THEOREM LightestIsFair ==
    Spec => [](\A r \in Reqs : SingleRun(r) /\ Lightest(r) /\ pc[r] = "parked" =>
                  \A k \in Creators : passed[r][k] <= 1)
<1>1. RingInv => \A r \in Reqs : SingleRun(r) /\ Lightest(r) /\ pc[r] = "parked" =>
                    \A k \in Creators : passed[r][k] <= 1
  BY DEF RingInv, PassedBehind
<1> QED
  BY <1>1, RingHolds, PTL

\* Where all tasks are estimated alike it is so for every single run.
THEOREM RingIsFair ==
    ASSUME \A r, q \in Reqs : Path(r) = "task" /\ Path(q) = "task" => E(r) = E(q)
    PROVE  Spec => []RingFair
<1>1. \A r \in Reqs : E(r) \in Nat
  BY ReqTypes, AdmissionAssumption DEF E
<1>2. \A r \in Reqs : SingleRun(r) => Lightest(r)
  BY <1>1 DEF SingleRun, Lightest
<1>3. RingInv => RingFair
  BY <1>2 DEF RingInv, PassedBehind, RingFair
<1> QED
  BY <1>3, RingHolds, PTL

-----------------------------------------------------------------------------
(* The slots behind the sessions *)

\* What the ledger, the registries and those who close s agree on: who starts s holds
\* a slot that is new unless s is alive; a close under way found it without a starter;
\* what an evictor is closing has no slot; what the reconciler may still free is dead.
Safe(s) ==
    /\ Spawners(s) # {} => s \in Tracked /\ ~Closing(s)
    /\ Spawners(s) # {} /\ ~alive[s] => age[s] = "new"
    /\ s \in reaping => ~alive[s]
    /\ \A r \in Reqs : pc[r] \in {"close", "release"} /\ victim[r] = s => s \notin Tracked
    /\ s \in recon /\ s \in Tracked /\ age[s] = "old" => ~alive[s] /\ Spawners(s) = {}
    /\ alive[s] => s \in Tracked \/ \E r \in Reqs : pc[r] = "close" /\ victim[r] = s

\* A return is the only way out of it.
SlotsInv == \A s \in Sids : s \notin returned => Safe(s)

LEMMA TrackedIs ==
    /\ \A s \in Sids : s \in Tracked <=> kind[s] # "none"
    /\ \A s \in Sids : (s \in Tracked)' <=> kind'[s] # "none"
    /\ Tracked \subseteq Sids /\ Tracked' \subseteq Sids
  BY DEF Tracked

\* What is gone is safe.
LEMMA GoneIsSafe == \A s \in Sids : Gone(s) => Safe(s)
  BY DEF Gone, Safe, Closing

\* A step that gives s to a call, or to a meeting that starts.
Admits1(s) ==
    /\ Takes(s) /\ s \in Tracked'
    /\ alive'[s] = alive[s] \/ alive'[s]
    /\ age'[s] = "new" \/ (age'[s] = age[s] /\ s \in Tracked)
    /\ s \in reaping' => s \in reaping
    /\ s \in recon' => s \in recon
    /\ \A r \in Reqs : pc'[r] \in {"close", "release"} /\ victim'[r] = s =>
          pc[r] \in {"close", "release"} /\ victim[r] = s

\* A step that gives s to nobody: its slot stays or goes, its session goes on or ends.
Sheds(s) ==
    /\ \/ (s \in Tracked' <=> s \in Tracked) /\ age'[s] = age[s]
       \/ s \notin Tracked' /\ Spawners(s)' = {}
    /\ alive'[s] => alive[s]
    /\ alive[s] /\ ~alive'[s] => Spawners(s)' = {}
    /\ Spawners(s)' # {} => Spawners(s) # {}
    /\ s \in reaping' => s \in reaping \/ ~alive'[s]
    /\ s \in recon' => s \in recon
    /\ \A r \in Reqs : pc'[r] \in {"close", "release"} /\ victim'[r] = s =>
          s \notin Tracked' \/ (pc[r] \in {"close", "release"} /\ victim[r] = s)
    /\ alive'[s] /\ s \notin Tracked' => \E r \in Reqs : pc'[r] = "close" /\ victim'[r] = s

LEMMA AdmitKeeps ==
    ASSUME TypeOK, NEW s \in Sids, Safe(s), ~Returns(s), Admits1(s)
    PROVE  Safe(s)'
<1>1. ~Closing(s) /\ ~Left(s) /\ (Spawners(s)' # {} => ~Closing(s)')
  BY DEF Returns, Admits1
<1>2. alive[s] \in BOOLEAN
  BY DEF TypeOK
<1>3. s \notin reaping /\ \A r \in Reqs : ~ (pc[r] \in {"close", "release"} /\ victim[r] = s)
  BY <1>1 DEF Closing
<1>4. s \in Tracked /\ ~alive[s] => age[s] = "new"
  BY <1>1 DEF Left, Safe, TypeOK
<1>5. s \in recon /\ s \in Tracked => age[s] # "old"
  BY <1>1 DEF Left, Safe
<1> QED
  BY <1>1, <1>2, <1>3, <1>4, <1>5 DEF Safe, Admits1

LEMMA ShedKeeps ==
    ASSUME TypeOK, NEW s \in Sids, Safe(s), ~Returns(s), Sheds(s)
    PROVE  Safe(s)'
<1>1. Spawners(s)' # {} => ~Closing(s)'
  BY DEF Returns
<1>2. alive[s] \in BOOLEAN
  BY DEF TypeOK
<1> QED
  BY <1>1, <1>2 DEF Safe, Sheds

\* A step that leaves s alone but for calls that leave it.
Still(s) ==
    /\ kind'[s] = kind[s] /\ age'[s] = age[s] /\ alive'[s] = alive[s]
    /\ s \in reaping' => s \in reaping
    /\ s \in recon' => s \in recon
    /\ Spawners(s)' # {} => Spawners(s) # {}
    /\ \A r \in Reqs : pc'[r] = "close" /\ victim'[r] = s <=> pc[r] = "close" /\ victim[r] = s
    /\ \A r \in Reqs : pc'[r] = "release" /\ victim'[r] = s =>
          pc[r] = "release" /\ victim[r] = s

LEMMA StillSheds ==
    ASSUME TypeOK, NEW s \in Sids, Safe(s), Still(s)
    PROVE  Sheds(s)
  BY TrackedIs DEF Still, Sheds, Safe, TypeOK

\* A call on its way.
Walk(r) ==
    /\ Path(r) \notin {"maintenance", "meeting"}
    /\ pc[r] \notin Evicting \cup {"admitted"} /\ pc'[r] \notin Evicting
    /\ \A q \in Reqs \ {r} : pc'[q] = pc[q]
    /\ \/ UNCHANGED <<kind, age>> /\ (pc'[r] = "admitted" => Sid(r) \in Tracked)
       \/ /\ pc'[r] = "admitted"
          /\ \E k \in Kinds : kind' = [kind EXCEPT ![Sid(r)] = k]
          /\ age' = [age EXCEPT ![Sid(r)] = "new"]
    /\ UNCHANGED <<alive, reaping, recon, victim>>

LEMMA WalkKeeps ==
    ASSUME TypeOK, NEW s \in Sids, Safe(s), ~Returns(s), NEW r \in Reqs, Walk(r)
    PROVE  Safe(s)'
<1>1. /\ Sid(r) \in Sids /\ "none" \notin Kinds /\ DOMAIN kind = Sids /\ DOMAIN age = Sids
      /\ UNCHANGED <<alive, reaping, recon, victim>>
  BY ReqTypes DEF Walk, TypeOK, Kinds
<1>2. \A q \in Reqs : /\ pc'[q] = "close" <=> pc[q] = "close"
                      /\ pc'[q] = "release" <=> pc[q] = "release"
  BY DEF Walk, Evicting
<1>3. CASE Sid(r) = s /\ pc'[r] = "admitted"
  <2>1. Takes(s)
    BY <1>3 DEF Walk, Takes, Seats
  <2>2. s \in Tracked' /\ (age'[s] = "new" \/ (age'[s] = age[s] /\ s \in Tracked))
    BY <1>1, <1>3, TrackedIs DEF Walk
  <2>3. Admits1(s)
    BY <1>1, <1>2, <2>1, <2>2 DEF Admits1
  <2> QED
    BY <2>3, AdmitKeeps
<1>4. CASE ~ (Sid(r) = s /\ pc'[r] = "admitted")
  <2>1. kind'[s] = kind[s] /\ age'[s] = age[s]
    BY <1>1, <1>4 DEF Walk
  <2>2. Spawners(s)' # {} => Spawners(s) # {}
    BY <1>4 DEF Walk, Spawners, Sid
  <2>3. Still(s)
    BY <1>1, <1>2, <2>1, <2>2 DEF Still
  <2> QED
    BY <2>3, StillSheds, ShedKeeps
<1> QED
  BY <1>3, <1>4

\* A call, or the maintenance loop, that looks for somebody to evict.
Look(r) ==
    /\ pc[r] \notin {"close", "release"} /\ pc'[r] \notin {"close", "release", "admitted"}
    /\ \A q \in Reqs \ {r} : pc'[q] = pc[q] /\ victim'[q] = victim[q]
    /\ UNCHANGED <<kind, age, alive, reaping, recon>>

LEMMA LookKeeps ==
    ASSUME TypeOK, NEW s \in Sids, Safe(s), ~Returns(s), NEW r \in Reqs, Look(r)
    PROVE  Safe(s)'
<1>1. Spawners(s)' # {} => Spawners(s) # {}
  BY DEF Look, Spawners, Sid
<1>2. \A q \in Reqs : /\ pc'[q] = "close" /\ victim'[q] = s <=> pc[q] = "close" /\ victim[q] = s
                      /\ pc'[q] = "release" /\ victim'[q] = s => pc[q] = "release" /\ victim[q] = s
  BY DEF Look
<1>3. Still(s)
  BY <1>1, <1>2 DEF Look, Still
<1> QED
  BY <1>3, StillSheds, ShedKeeps

\* The steps of an eviction: what others do with the victim since the scan is found
\* at the slot, and a slot that is given back after the close is nobody's.
LEMMA EvictKeeps ==
    ASSUME TypeOK, NEW s \in Sids, Safe(s), ~Returns(s), NEW r \in Reqs,
           EvictClaim(r) \/ EvictRemove(r) \/ EvictClose(r) \/ EvictRelease(r)
    PROVE  Safe(s)'
<1> USE DEF ledger, queues, world, control
<1>1. /\ back[r] \in {"idle", "cap", "loop"} /\ pc[r] \in Evicting
      /\ \A q \in Reqs \ {r} : pc'[q] = pc[q]
      /\ pc'[r] \in {"remove", "close", "release", back[r]}
      /\ UNCHANGED <<reaping, recon, victim>>
  BY DEF EvictClaim, EvictRemove, EvictClose, EvictRelease, Goto, TypeOK, Evicting
<1>2. Spawners(s)' # {} => Spawners(s) # {}
  BY <1>1 DEF Spawners, Sid, Evicting
<1>3. CASE EvictClaim(r)
  <2>1. /\ UNCHANGED <<kind, age, alive>> /\ pc[r] = "claim"
        /\ pc'[r] \notin {"close", "release", "admitted"}
    BY <1>1, <1>3 DEF EvictClaim, Goto, TypeOK
  <2>2. Look(r)
    BY <1>1, <2>1 DEF Look
  <2> QED
    BY <2>2, LookKeeps
<1>4. CASE EvictRemove(r)
  <2>1. /\ pc[r] = "remove" /\ UNCHANGED alive /\ Drop({victim[r]})
        /\ pc'[r] = IF victim[r] \in Tracked THEN "close" ELSE back[r]
    BY <1>4 DEF EvictRemove, Goto, TypeOK
  <2>2. CASE victim[r] = s /\ s \in Tracked
    <3>1. s \notin Tracked' /\ pc'[r] = "close"
      BY <2>1, <2>2, TrackedIs DEF Drop
    <3>2. Closing(s)'
      BY <1>1, <2>2, <3>1 DEF Closing
    <3>3. Spawners(s)' = {}
      BY <3>2 DEF Returns
    <3>4. Sheds(s)
      BY <1>1, <1>2, <2>1, <2>2, <3>1, <3>3 DEF Sheds, Safe
    <3> QED
      BY <3>4, ShedKeeps
  <2>3. CASE ~ (victim[r] = s /\ s \in Tracked)
    <3>1. kind'[s] = kind[s] /\ age'[s] = age[s]
      BY <2>1, <2>3 DEF Drop, Tracked
    <3>2. victim[r] = s => pc'[r] = back[r]
      BY <2>1, <2>3
    <3>3. Still(s)
      BY <1>1, <1>2, <2>1, <3>1, <3>2 DEF Still
    <3> QED
      BY <3>3, StillSheds, ShedKeeps
  <2> QED
    BY <2>2, <2>3
<1>5. CASE EvictClose(r)
  <2>1. /\ pc[r] = "close" /\ UNCHANGED <<kind, age>>
        /\ alive' = [alive EXCEPT ![victim[r]] = FALSE]
        /\ pc'[r] \in {"release", back[r]}
    BY <1>5 DEF EvictClose, Goto, TypeOK
  <2>2. CASE victim[r] = s
    <3>1. Spawners(s) = {} /\ ~alive'[s]
      BY <2>1, <2>2 DEF Safe, Closing, TypeOK
    <3>2. Sheds(s)
      BY <1>1, <1>2, <2>1, <2>2, <3>1, TrackedIs DEF Sheds
    <3> QED
      BY <3>2, ShedKeeps
  <2>3. CASE victim[r] # s
    <3>1. alive'[s] = alive[s]
      BY <2>1, <2>3 DEF TypeOK
    <3>2. Still(s)
      BY <1>1, <1>2, <2>1, <2>3, <3>1 DEF Still
    <3> QED
      BY <3>2, StillSheds, ShedKeeps
  <2> QED
    BY <2>2, <2>3
<1>6. CASE EvictRelease(r)
  <2>1. /\ pc[r] = "release" /\ UNCHANGED alive /\ pc'[r] = back[r] /\ Drop({victim[r]})
    BY <1>6 DEF EvictRelease, Goto, TypeOK
  <2>2. ~ (victim[r] = s /\ s \in Tracked)
    BY <2>1 DEF Safe
  <2>3. kind'[s] = kind[s] /\ age'[s] = age[s]
    BY <2>1, <2>2 DEF Drop, Tracked
  <2>4. Still(s)
    BY <1>1, <1>2, <2>1, <2>3 DEF Still
  <2> QED
    BY <2>4, StillSheds, ShedKeeps
<1> QED
  BY <1>3, <1>4, <1>5, <1>6

LEMMA MeetingKeeps ==
    ASSUME TypeOK, NEW s \in Sids, Safe(s), ~Returns(s), NEW r \in Reqs, AcquireMeeting(r)
    PROVE  Safe(s)'
<1> USE DEF ledger, queues
<1>1. /\ Path(r) = "meeting" /\ pc[r] = "idle" /\ \A q \in Reqs \ {r} : pc'[q] = pc[q]
      /\ pc'[r] \in {"running", "host_memory", "busy"}
      /\ UNCHANGED <<reaping, recon, victim>>
  BY DEF AcquireMeeting, Goto, TypeOK
<1>2. \A q \in Reqs : /\ pc'[q] = "close" <=> pc[q] = "close"
                      /\ pc'[q] = "release" <=> pc[q] = "release"
                      /\ pc'[q] = "admitted" <=> pc[q] = "admitted"
  BY <1>1
<1>3. Spawners(s)' # {} => Spawners(s) # {}
  BY <1>2 DEF Spawners, Sid
<1>4. \/ UNCHANGED <<kind, age, alive>>
      \/ /\ \A t \in Sids : /\ kind'[t] = IF t \in Participants \ Tracked THEN "meeting" ELSE kind[t]
                            /\ age'[t] = IF t \in Participants \ Tracked THEN "new" ELSE age[t]
                            /\ alive'[t] = (alive[t] \/ t \in Participants)
         /\ pc'[r] = "running"
  <2>1. pc[r] = "idle" /\ pc \in [Reqs -> Places]
    BY DEF AcquireMeeting, TypeOK
  <2>2. ASSUME pc' = [pc EXCEPT ![r] = "running"],
               kind' = [t \in Sids |-> IF t \in Participants \ Tracked THEN "meeting" ELSE kind[t]],
               age' = [t \in Sids |-> IF t \in Participants \ Tracked THEN "new" ELSE age[t]],
               alive' = [t \in Sids |-> alive[t] \/ t \in Participants]
        PROVE  /\ \A t \in Sids : /\ kind'[t] = IF t \in Participants \ Tracked THEN "meeting" ELSE kind[t]
                                  /\ age'[t] = IF t \in Participants \ Tracked THEN "new" ELSE age[t]
                                  /\ alive'[t] = (alive[t] \/ t \in Participants)
               /\ pc'[r] = "running"
    BY <2>1, <2>2
  <2>3. \/ UNCHANGED <<kind, age, alive>>
        \/ /\ pc' = [pc EXCEPT ![r] = "running"]
           /\ kind' = [t \in Sids |-> IF t \in Participants \ Tracked THEN "meeting" ELSE kind[t]]
           /\ age' = [t \in Sids |-> IF t \in Participants \ Tracked THEN "new" ELSE age[t]]
           /\ alive' = [t \in Sids |-> alive[t] \/ t \in Participants]
    BY Zenon DEF AcquireMeeting, Goto
  <2> QED
    BY <2>2, <2>3
<1>5. CASE s \in Participants /\ ~UNCHANGED <<kind, age, alive>>
  <2>1. Takes(s)
    BY <1>1, <1>4, <1>5 DEF Takes, Seats
  <2>2. s \in Tracked' /\ alive'[s] /\ (age'[s] = "new" \/ (age'[s] = age[s] /\ s \in Tracked))
    BY <1>4, <1>5, TrackedIs
  <2>3. Admits1(s)
    BY <1>1, <1>2, <2>1, <2>2 DEF Admits1
  <2> QED
    BY <2>3, AdmitKeeps
<1>6. CASE s \notin Participants \/ UNCHANGED <<kind, age, alive>>
  <2>1. kind'[s] = kind[s] /\ age'[s] = age[s] /\ alive'[s] = alive[s]
    BY <1>4, <1>6 DEF TypeOK
  <2>2. Still(s)
    BY <1>1, <1>2, <1>3, <2>1 DEF Still
  <2> QED
    BY <2>2, StillSheds, ShedKeeps
<1> QED
  BY <1>5, <1>6

\* The start of t, which may be s.
LEMMA SpawnKeeps ==
    ASSUME TypeOK, NEW s \in Sids, Safe(s), ~Returns(s), NEW t \in Sids, Spawn(t)
    PROVE  Safe(s)'
<1> USE DEF ledger, queues
<1>1. /\ alive' = [alive EXCEPT ![t] = TRUE]
      /\ \A q \in Reqs : IF pc[q] = "admitted" /\ Sid(q) = t THEN pc'[q] \in {"running", "done"}
                                                              ELSE pc'[q] = pc[q]
      /\ UNCHANGED <<kind, age, reaping, recon, victim>>
  BY DEF Spawn, Spawners
<1>2. \A q \in Reqs : /\ pc'[q] = "close" <=> pc[q] = "close"
                      /\ pc'[q] = "release" <=> pc[q] = "release"
  BY <1>1
<1>3. CASE t = s
  <2>1. Spawners(s) # {} /\ s \in Tracked /\ ~Closing(s)
    BY <1>3 DEF Spawn, Safe
  <2>2. Spawners(s)' = {} /\ alive'[s] /\ s \in Tracked'
    BY <1>1, <1>3, <2>1, TrackedIs DEF Spawners, Sid, TypeOK
  <2>3. ~ (s \in recon /\ age[s] = "old")
    BY <2>1 DEF Safe
  <2> QED
    BY <1>1, <1>2, <2>1, <2>2, <2>3 DEF Safe, Closing
<1>4. CASE t # s
  <2>1. alive'[s] = alive[s]
    BY <1>1, <1>4 DEF TypeOK
  <2>2. Spawners(s)' # {} => Spawners(s) # {}
    BY <1>1 DEF Spawners, Sid
  <2>3. Still(s)
    BY <1>1, <1>2, <2>1, <2>2 DEF Still
  <2> QED
    BY <2>3, StillSheds, ShedKeeps
<1> QED
  BY <1>3, <1>4

\* A start that fails, a handler that is cancelled before its start.
LEMMA FailKeeps ==
    ASSUME TypeOK, NEW s \in Sids, Safe(s), ~Returns(s),
           (\E t \in Sids : SpawnFails(t)) \/ (\E r \in Reqs : Abandon(r))
    PROVE  Safe(s)'
<1> USE DEF ledger, queues, world
<1>1. UNCHANGED <<alive, reaping, recon, victim>>
  BY DEF SpawnFails, Abandon
<1>2. \A q \in Reqs : pc'[q] = pc[q] \/ (pc[q] = "admitted" /\ pc'[q] = "gone")
  <2>1. ASSUME NEW t \in Sids, SpawnFails(t), NEW q \in Reqs
        PROVE  pc'[q] = pc[q] \/ (pc[q] = "admitted" /\ pc'[q] = "gone")
    <3>1. pc'[q] = IF q \in Spawners(t) THEN "gone" ELSE pc[q]
      BY <2>1 DEF SpawnFails
    <3>2. q \in Spawners(t) => pc[q] = "admitted"
      BY DEF Spawners
    <3> QED
      BY <3>1, <3>2
  <2>2. ASSUME NEW r \in Reqs, Abandon(r), NEW q \in Reqs
        PROVE  pc'[q] = pc[q] \/ (pc[q] = "admitted" /\ pc'[q] = "gone")
    BY <2>2 DEF Abandon, Goto, TypeOK
  <2> QED
    BY <2>1, <2>2
<1>3. \A q \in Reqs : /\ pc'[q] = "close" <=> pc[q] = "close"
                      /\ pc'[q] = "release" <=> pc[q] = "release"
                      /\ pc'[q] = "admitted" => pc[q] = "admitted"
  BY <1>2
<1>4. Spawners(s)' # {} => Spawners(s) # {}
  BY <1>3 DEF Spawners, Sid
<1>5. CASE kind'[s] = kind[s] /\ age'[s] = age[s]
  <2>1. Still(s)
    BY <1>1, <1>3, <1>4, <1>5 DEF Still
  <2> QED
    BY <2>1, StillSheds, ShedKeeps
<1>6. CASE ~ (kind'[s] = kind[s] /\ age'[s] = age[s])
  <2>1. PICK t \in Sids : SpawnFails(t)
    BY <1>6 DEF Abandon
  <2>2. t = s /\ s \notin Tracked' /\ ~alive[s]
    BY <1>6, <2>1, TrackedIs DEF SpawnFails, Drop, Tracked
  <2>3. Spawners(s)' = {}
    BY <2>1, <2>2 DEF SpawnFails, Spawners, Sid
  <2>4. Sheds(s)
    BY <1>1, <1>3, <1>4, <2>2, <2>3 DEF Sheds
  <2> QED
    BY <2>4, ShedKeeps
<1> QED
  BY <1>5, <1>6

\* The end of a task or of a meeting: whoever is about to start s again returns.
LEMMA RunEndKeeps ==
    ASSUME TypeOK, NEW s \in Sids, Safe(s), ~Returns(s), NEW r \in Reqs, RunEnds(r)
    PROVE  Safe(s)'
<1> USE DEF queues
<1>1. /\ pc[r] = "running" /\ pc'[r] = "gone" /\ \A q \in Reqs \ {r} : pc'[q] = pc[q]
      /\ alive' = [t \in Sids |-> alive[t] /\ t \notin Seats(r)]
      /\ Drop(Seats(r)) /\ UNCHANGED <<reaping, recon, victim>>
  BY DEF RunEnds, Goto, TypeOK
<1>2. \A q \in Reqs : /\ pc'[q] = "close" <=> pc[q] = "close"
                      /\ pc'[q] = "release" <=> pc[q] = "release"
                      /\ pc'[q] = "admitted" <=> pc[q] = "admitted"
  BY <1>1
<1>3. Spawners(s)' # {} => Spawners(s) # {}
  BY <1>2 DEF Spawners, Sid
<1>4. CASE s \in Seats(r)
  <2>1. Ends(s)
    BY <1>1, <1>4 DEF Ends
  <2>2. Spawners(s)' = {} /\ ~alive'[s]
    BY <1>1, <1>4, <2>1 DEF Returns
  <2>3. s \notin Tracked'
    BY <1>1, <1>4, TrackedIs DEF Drop
  <2>4. Sheds(s)
    BY <1>1, <1>2, <2>2, <2>3 DEF Sheds
  <2> QED
    BY <2>4, ShedKeeps
<1>5. CASE s \notin Seats(r)
  <2>1. kind'[s] = kind[s] /\ age'[s] = age[s] /\ alive'[s] = alive[s]
    BY <1>1, <1>5 DEF Drop, Tracked, TypeOK
  <2>2. Still(s)
    BY <1>1, <1>2, <1>3, <2>1 DEF Still
  <2> QED
    BY <2>2, StillSheds, ShedKeeps
<1> QED
  BY <1>4, <1>5

\* A close that keeps the slot until it is over.
LEMMA CloseKeeps ==
    ASSUME TypeOK, NEW s \in Sids, Safe(s), ~Returns(s), NEW t \in Sids,
           CloseBegins(t) \/ CloseEnds(t)
    PROVE  Safe(s)'
<1> USE DEF ledger, queues, control
<1>1. UNCHANGED <<recon, pc, victim>>
  BY DEF CloseBegins, CloseEnds
<1>2. Spawners(s)' = Spawners(s)
  BY <1>1 DEF Spawners, Sid
<1>3. CASE CloseBegins(t)
  <2>1. /\ alive' = [alive EXCEPT ![t] = FALSE] /\ reaping' = reaping \cup {t}
        /\ UNCHANGED <<kind, age>>
    BY <1>3 DEF CloseBegins
  <2>2. CASE t = s
    <3>1. Closing(s)' /\ ~alive'[s]
      BY <2>1, <2>2 DEF Closing, TypeOK
    <3>2. Spawners(s)' = {}
      BY <3>1 DEF Returns
    <3>3. Sheds(s)
      BY <1>1, <2>1, <3>1, <3>2, TrackedIs DEF Sheds
    <3> QED
      BY <3>3, ShedKeeps
  <2>3. CASE t # s
    <3>1. alive'[s] = alive[s] /\ (s \in reaping' => s \in reaping)
      BY <2>1, <2>3 DEF TypeOK
    <3>2. Still(s)
      BY <1>1, <1>2, <2>1, <3>1 DEF Still
    <3> QED
      BY <3>2, StillSheds, ShedKeeps
  <2> QED
    BY <2>2, <2>3
<1>4. CASE CloseEnds(t)
  <2>1. /\ t \in reaping /\ reaping' = reaping \ {t} /\ Drop({t}) /\ UNCHANGED alive
    BY <1>4 DEF CloseEnds
  <2>2. CASE t = s
    <3>1. s \notin Tracked'
      BY <2>1, <2>2, TrackedIs DEF Drop
    <3>2. Spawners(s) = {} /\ ~alive[s]
      BY <2>1, <2>2 DEF Safe, Closing
    <3>3. Sheds(s)
      BY <1>1, <1>2, <2>1, <3>1, <3>2 DEF Sheds
    <3> QED
      BY <3>3, ShedKeeps
  <2>3. CASE t # s
    <3>1. kind'[s] = kind[s] /\ age'[s] = age[s]
      BY <2>1, <2>3 DEF Drop, Tracked
    <3>2. Still(s)
      BY <1>1, <1>2, <2>1, <3>1 DEF Still
    <3> QED
      BY <3>2, StillSheds, ShedKeeps
  <2> QED
    BY <2>2, <2>3
<1> QED
  BY <1>3, <1>4

\* The reconciler finds dead slots that nobody starts and frees no others.
LEMMA ReconcileKeeps ==
    ASSUME TypeOK, NEW s \in Sids, Safe(s), ~Returns(s), ReconcileReads \/ ReconcileFrees
    PROVE  Safe(s)'
<1> USE DEF ledger, queues, control
<1>1. UNCHANGED <<alive, reaping, pc, victim>>
  BY DEF ReconcileReads, ReconcileFrees
<1>2. Spawners(s)' = Spawners(s) /\ (Closing(s)' <=> Closing(s))
  BY <1>1 DEF Spawners, Sid, Closing
<1>3. CASE ReconcileReads
  <2>1. /\ recon' = {t \in Tracked : ~alive[t] /\ age[t] = "old"}
        /\ UNCHANGED <<kind, age>>
    BY <1>3 DEF ReconcileReads
  <2>2. s \in recon' => ~alive[s] /\ Spawners(s) = {}
    BY <2>1 DEF Safe
  <2> QED
    BY <1>1, <1>2, <2>1, <2>2, TrackedIs DEF Safe
<1>4. CASE ReconcileFrees
  <2> DEFINE D == {t \in recon : kind[t] \notin {"none", "task"} /\ age[t] = "old"}
  <2>1. /\ recon' = {} /\ Drop(D)
    BY <1>4 DEF ReconcileFrees
  <2>2. CASE s \in D
    <3>1. ~alive[s] /\ Spawners(s) = {}
      BY <2>2, TrackedIs DEF Safe
    <3>2. s \notin Tracked'
      BY <2>1, <2>2, TrackedIs DEF Drop
    <3>3. Sheds(s)
      BY <1>1, <1>2, <2>1, <3>1, <3>2 DEF Sheds
    <3> QED
      BY <3>3, ShedKeeps
  <2>3. CASE s \notin D
    <3> HIDE DEF D
    <3>1. kind'[s] = kind[s] /\ age'[s] = age[s]
      BY <2>1, <2>3 DEF Drop, Tracked
    <3>2. Still(s)
      BY <1>1, <1>2, <2>1, <3>1 DEF Still
    <3> QED
      BY <3>2, StillSheds, ShedKeeps
  <2> QED
    BY <2>2, <2>3
<1> QED
  BY <1>3, <1>4

LEMMA AgeKeeps ==
    ASSUME TypeOK, NEW s \in Sids, Safe(s), ~Returns(s), NEW t \in Sids, AgeOut(t)
    PROVE  Safe(s)'
<1> USE DEF queues, world, control
<1>1. /\ age' = [age EXCEPT ![t] = "old"] /\ t \notin recon /\ Spawners(t) = {}
      /\ UNCHANGED <<kind, alive, reaping, recon, pc, victim>>
  BY DEF AgeOut
<1>2. Spawners(s)' = Spawners(s) /\ (Closing(s)' <=> Closing(s))
  BY <1>1 DEF Spawners, Sid, Closing
<1>3. t # s => age'[s] = age[s]
  BY <1>1 DEF TypeOK
<1> QED
  BY <1>1, <1>2, <1>3, TrackedIs DEF Safe

\* A call that waits or asks walks.
LEMMA Walks ==
    ASSUME TypeOK, PlacesFit, NEW r \in Reqs,
           \/ Arrive(r) \/ CapCheck(r) \/ FastPath(r) \/ AcquireSpeculative(r)
           \/ QueueTop(r) \/ QueueCheck(r) \/ QueueDeadline(r) \/ QueueWake(r)
           \/ AdmitLoop(r) \/ Verdict(r) \/ AcquireTask(r) \/ RingAdmit(r)
           \/ ReserveBackground(r) \/ WakeRecheck(r) \/ WakeGivesWay(r) \/ WakeTimeout(r)
           \/ Cancel(r)
    PROVE  Walk(r)
<1> USE DEF ledger, queues, world
<1> DEFINE t == Sid(r)
           Holds == \/ UNCHANGED <<kind, age>> /\ (pc'[r] = "admitted" => t \in Tracked)
                    \/ /\ pc'[r] = "admitted"
                       /\ \E k \in Kinds : kind' = [kind EXCEPT ![t] = k]
                       /\ age' = [age EXCEPT ![t] = "new"]
           Goes == pc'[r] \notin Evicting /\ \A q \in Reqs \ {r} : pc'[q] = pc[q]
<1>1. ASSUME NEW x, Goto(r, x) PROVE pc'[r] = x /\ \A q \in Reqs \ {r} : pc'[q] = pc[q]
  BY <1>1 DEF Goto, TypeOK
<1>2. ASSUME NEW x, x \notin Evicting \cup {"admitted"}, Goto(r, x), UNCHANGED <<kind, age>>
      PROVE  Holds /\ Goes
  BY <1>1, <1>2
<1>3. ASSUME Goto(r, "admitted"), t \in Tracked, UNCHANGED <<kind, age>> PROVE Holds /\ Goes
  BY <1>1, <1>3 DEF Evicting
<1>4. ASSUME Goto(r, "admitted"), NEW k \in Kinds, NEW u, Add(t, k, u) PROVE Holds /\ Goes
  <2>1. pc'[r] = "admitted" /\ Goes
    BY <1>1, <1>4 DEF Evicting
  <2>2. kind' = [kind EXCEPT ![t] = k] /\ age' = [age EXCEPT ![t] = "new"]
    BY <1>4 DEF Add
  <2> QED
    BY <2>1, <2>2
<1>5. Req[r].kind \in Kinds /\ "chat" \in Kinds
  BY ReqTypes DEF Kinds
<1> HIDE DEF Holds, Goes
<1>6. UNCHANGED <<alive, reaping, recon, victim>>
  BY Zenon
  DEF Arrive, CapCheck, FastPath, AcquireSpeculative, QueueTop, QueueCheck, QueueDeadline,
      QueueWake, AdmitLoop, Verdict, AcquireTask, RingAdmit, ReserveBackground, WakeRecheck,
      WakeGivesWay, WakeTimeout, Cancel
<1>7. ASSUME Refuse(r, "busy") \/ Refuse(r, "busy_background") \/ Refuse(r, "host_memory")
             \/ Refuse(r, "user_cap") \/ Refuse(r, "speculative")
      PROVE  Holds /\ Goes
  BY <1>2, <1>7 DEF Refuse, Evicting
<1>8. ASSUME AdmitTracked(r), t \in Tracked PROVE Holds /\ Goes
  BY <1>3, <1>8 DEF AdmitTracked, FillOwner
<1>9. ASSUME NEW u, AdmitNew(r, u) PROVE Holds /\ Goes
  BY <1>4, <1>5, <1>9 DEF AdmitNew
<1>10. ASSUME Enter(r), UNCHANGED <<kind, age>> PROVE Holds /\ Goes
  BY <1>2, <1>10 DEF Enter, Evicting
<1>11. ASSUME WakeLook(r) PROVE Holds /\ Goes
  BY <1>2, <1>4, <1>5, <1>11 DEF WakeLook, WakeEnds, Evicting
<1>12. Holds /\ Goes
  <2>1. CASE Arrive(r)
    BY <1>2, <1>10, <2>1 DEF Arrive, Evicting
  <2>2. CASE CapCheck(r)
    BY <1>2, <1>8, <1>10, <2>2 DEF CapCheck, Evicting
  <2>3. CASE FastPath(r)
    BY <1>2, <1>7, <1>8, <1>9, <2>3 DEF FastPath, Evicting
  <2>4. CASE AcquireSpeculative(r)
    BY <1>2, <1>7, <1>8, <1>9, <2>4 DEF AcquireSpeculative
  <2>5. CASE QueueTop(r) \/ QueueWake(r)
    BY <1>2, <2>5 DEF QueueTop, QueueWake, Evicting
  <2>6. CASE QueueCheck(r)
    BY <1>2, <1>7, <1>8, <1>9, <2>6 DEF QueueCheck, Evicting
  <2>7. CASE QueueDeadline(r)
    BY <1>7, <2>7 DEF QueueDeadline
  <2>8. CASE AdmitLoop(r)
    BY <1>2, <1>7, <1>8, <1>9, <2>8 DEF AdmitLoop, Evicting
  <2>9. CASE Verdict(r)
    BY <1>2, <1>7, <2>9 DEF Verdict, Evicting
  <2>10. CASE AcquireTask(r)
    <3>1. CASE t \in Tracked /\ FillOwner(t, User(r)) /\ Goto(r, "admitted")
      BY <1>3, <3>1 DEF FillOwner
    <3>2. CASE Add(t, Req[r].kind, User(r)) /\ Goto(r, "admitted")
      BY <1>4, <1>5, <3>2
    <3>3. CASE Goto(r, "parked") /\ UNCHANGED ledger
      BY <1>2, <3>3 DEF Evicting
    <3> QED
      BY <2>10, <3>1, <3>2, <3>3, Zenon DEF AcquireTask
  <2>11. CASE RingAdmit(r)
    <3>1. CASE t \in Tracked /\ FillOwner(t, User(r)) /\ Goto(r, "admitted")
      BY <1>3, <3>1 DEF FillOwner
    <3>2. CASE Add(t, Req[r].kind, User(r)) /\ Goto(r, "admitted")
      BY <1>4, <1>5, <3>2
    <3> QED
      BY <2>11, <3>1, <3>2, Zenon DEF RingAdmit
  <2>12. CASE ReserveBackground(r)
    BY <1>2, <1>11, <2>12 DEF ReserveBackground, Evicting
  <2>13. CASE WakeRecheck(r)
    BY <1>11, <2>13 DEF WakeRecheck
  <2>14. CASE WakeGivesWay(r) \/ WakeTimeout(r) \/ Cancel(r)
    BY <1>2, <2>14 DEF WakeGivesWay, WakeTimeout, WakeEnds, Cancel, Evicting
  <2> QED
    BY <2>1, <2>2, <2>3, <2>4, <2>5, <2>6, <2>7, <2>8, <2>9, <2>10, <2>11, <2>12, <2>13, <2>14
<1>13. /\ Path(r) \notin {"maintenance", "meeting"}
       /\ pc[r] \notin Evicting \cup {"admitted"}
  <2>1. pc[r] \in PlacesOf(Path(r)) /\ Path(r) \in Paths
    BY ReqTypes DEF PlacesFit
  <2> USE DEF PlacesOf, Lobby, Waiting, Trying, Evicting, Paths
  <2>2. CASE Arrive(r) \/ AcquireSpeculative(r) \/ AcquireTask(r) \/ ReserveBackground(r)
             \/ WakeGivesWay(r)
    BY <2>1, <2>2 DEF Arrive, AcquireSpeculative, AcquireTask, ReserveBackground, WakeGivesWay
  <2>3. CASE CapCheck(r) \/ FastPath(r) \/ QueueTop(r) \/ QueueCheck(r) \/ QueueDeadline(r)
             \/ QueueWake(r) \/ AdmitLoop(r) \/ Verdict(r)
    <3>1. pc[r] \in {"cap", "fast", "top", "check", "wait", "loop", "verdict", "verdictbg"}
      BY <2>3 DEF CapCheck, FastPath, QueueTop, QueueCheck, QueueDeadline, QueueWake,
                  AdmitLoop, Verdict
    <3> QED
      BY <2>1, <3>1
  <2>4. CASE RingAdmit(r) \/ WakeRecheck(r) \/ WakeTimeout(r)
    BY <2>1, <2>4 DEF RingAdmit, WakeRecheck, WakeTimeout
  <2>5. CASE Cancel(r)
    BY <2>1, <2>5 DEF Cancel
  <2> QED
    BY <2>2, <2>3, <2>4, <2>5
<1> QED
  BY <1>6, <1>12, <1>13 DEF Walk, Holds, Goes

LEMMA SafeStep ==
    ASSUME TypeOK, PlacesFit, Next, NEW s \in Sids, Safe(s), ~Returns(s)
    PROVE  Safe(s)'
<1> USE DEF ledger, queues, world, control
<1>1. ASSUME NEW r \in Reqs,
             \/ Arrive(r) \/ CapCheck(r) \/ FastPath(r) \/ AcquireSpeculative(r)
             \/ QueueTop(r) \/ QueueCheck(r) \/ QueueDeadline(r) \/ QueueWake(r)
             \/ AdmitLoop(r) \/ Verdict(r) \/ AcquireTask(r) \/ RingAdmit(r)
             \/ ReserveBackground(r) \/ WakeRecheck(r) \/ WakeGivesWay(r) \/ WakeTimeout(r)
             \/ Cancel(r)
      PROVE  Safe(s)'
  BY <1>1, Walks, WalkKeeps
<1>2. ASSUME NEW r \in Reqs, MaintenancePass(r) PROVE Safe(s)'
  <2>1. Look(r)
    BY <1>2 DEF MaintenancePass, Look, Goto, TypeOK
  <2> QED
    BY <2>1, LookKeeps
<1>3. ASSUME NEW r \in Reqs, Scan(r) PROVE Safe(s)'
  <2>1. /\ pc[r] \in {"scan", "capscan"} /\ UNCHANGED <<kind, age, alive, reaping, recon>>
        /\ \A q \in Reqs \ {r} : victim'[q] = victim[q]
        /\ \E x \in {"claim", "remove", "user_cap", "idle", "verdict", "verdictbg"} : Goto(r, x)
    BY <1>3 DEF Scan, TypeOK
  <2>2. Look(r)
    BY <2>1 DEF Look, Goto, TypeOK
  <2> QED
    BY <2>2, LookKeeps
<1>4. ASSUME NEW r \in Reqs,
             EvictClaim(r) \/ EvictRemove(r) \/ EvictClose(r) \/ EvictRelease(r)
             \/ AcquireMeeting(r) \/ Abandon(r) \/ RunEnds(r)
      PROVE  Safe(s)'
  BY <1>4, EvictKeeps, MeetingKeeps, FailKeeps, RunEndKeeps
<1>5. ASSUME NEW t \in Sids,
             Spawn(t) \/ SpawnFails(t) \/ CloseBegins(t) \/ CloseEnds(t) \/ AgeOut(t)
      PROVE  Safe(s)'
  BY <1>5, SpawnKeeps, FailKeeps, CloseKeeps, AgeKeeps
<1>6. ASSUME HostMemory \/ \E t \in Sids, m \in {"active", "idle", "background"} : SetMode(t, m)
      PROVE  Safe(s)'
  <2>1. UNCHANGED <<kind, age, alive, reaping, recon, pc, victim>>
    BY <1>6 DEF SetMode, HostMemory
  <2>2. Still(s)
    BY <2>1 DEF Still, Spawners, Sid
  <2> QED
    BY <2>2, StillSheds, ShedKeeps
<1> QED
  BY <1>1, <1>2, <1>3, <1>4, <1>5, <1>6, ReconcileKeeps DEF Next

LEMMA SlotsStep ==
    ASSUME TypeOK, PlacesFit, SlotsInv, [Next]_vars
    PROVE  SlotsInv'
<1> SUFFICES ASSUME NEW s \in Sids, s \notin returned' PROVE Safe(s)'
  BY DEF SlotsInv
<1>1. CASE Next
  <2>1. (s \notin returned /\ ~Returns(s)) \/ Gone(s)'
    BY <1>1, Remembered DEF Remember
  <2>2. Gone(s)' => Safe(s)'
    BY DEF Gone, Safe, Closing
  <2>3. s \notin returned /\ ~Returns(s) => Safe(s)'
    BY <1>1, SafeStep DEF SlotsInv
  <2> QED
    BY <2>1, <2>2, <2>3
<1>2. CASE UNCHANGED vars
  BY <1>2
  DEF vars, ledger, queues, world, control, SlotsInv, Safe, Spawners, Sid, Closing, Tracked
<1> QED
  BY <1>1, <1>2

LEMMA SlotsInit == Init => SlotsInv
  BY DEF Init, SlotsInv, Safe, Spawners, Tracked

SlotsSafe == LedgerInv /\ PlacesFit /\ SlotsInv

LEMMA SlotsHold == Spec => []SlotsSafe
<1>1. SlotsSafe /\ [Next]_vars => SlotsSafe'
  BY LedgerStep, PlacesStep, SlotsStep DEF SlotsSafe, LedgerInv
<1>2. Init => SlotsSafe
  BY LedgerInit, PlacesInit, SlotsInit DEF SlotsSafe
<1> QED
  BY <1>1, <1>2, PTL DEF Spec

\* A session that runs holds a slot, or the one who took it is closing it: releases,
\* evictors with stale scans, closes, failed starts and the reconciler never take the
\* slot of a session that goes on, however they meet, unless somebody returned to it
\* during a close or to a slot left behind.
THEOREM SlotsAreBacked == Spec => []SlotBacksSession
<1>1. SlotsSafe => SlotBacksSession
  BY DEF SlotsSafe, SlotsInv, Safe, SlotBacksSession
<1> QED
  BY <1>1, SlotsHold, PTL

\* "The later release() from close_session is a no-op (already removed)": so it is,
\* with any number of evictors and closes, unless somebody returned to the id during
\* the close, which is the finding.
THEOREM LateReleaseAlone ==
    Spec => [](\A r \in Reqs : pc[r] = "release" /\ victim[r] \in Tracked =>
                  victim[r] \in returned)
<1>1. SlotsSafe => \A r \in Reqs : pc[r] = "release" /\ victim[r] \in Tracked =>
                      victim[r] \in returned
  BY DEF SlotsSafe, SlotsInv, Safe, Tracked
<1> QED
  BY <1>1, SlotsHold, PTL

\* The reconciler spares every slot whose session is being started, unless the start
\* is a return to a slot that somebody left behind, which is the finding, or to one
\* that was being closed.
THEOREM MidSpawnAlone ==
    Spec => [][ReconcileFrees => \A s \in Tracked :
                   Spawners(s) # {} /\ s \notin returned => s \in Tracked']_vars
<1>1. ASSUME SlotsSafe, ReconcileFrees, NEW s \in Tracked, Spawners(s) # {}, s \notin returned
      PROVE  s \in Tracked'
  <2>1. s \in Sids
    BY DEF Tracked
  <2>2. ~ (s \in recon /\ age[s] = "old")
    BY <1>1, <2>1 DEF SlotsSafe, SlotsInv, Safe
  <2> QED
    BY <1>1, <2>1, <2>2 DEF ReconcileFrees, Drop, Tracked
<1>2. SlotsSafe => [ReconcileFrees => \A s \in Tracked :
                       Spawners(s) # {} /\ s \notin returned => s \in Tracked']_vars
  BY <1>1
<1> QED
  BY <1>2, SlotsHold, PTL

-----------------------------------------------------------------------------
(* The line of people *)

\* The head stays in front when another one leaves.
LEMMA HeadStays ==
    ASSUME NEW S, NEW s \in Seq(S), s # <<>>, NEW e, e # Head(s)
    PROVE  RemoveFirst(s, e) # <<>> /\ Head(RemoveFirst(s, e)) = Head(s)
<1>1. CASE RemoveFirst(s, e) = s
  BY <1>1
<1>2. CASE \E i \in 1..Len(s) : s[i] = e /\ RemoveFirst(s, e) = RemoveAt(s, i)
  <2> PICK i \in 1..Len(s) : s[i] = e /\ RemoveFirst(s, e) = RemoveAt(s, i)
    BY <1>2
  <2> DEFINE t == RemoveAt(s, i)
  <2>1. /\ t \in Seq(S) /\ Len(t) = Len(s) - 1
        /\ \A j \in 1..(Len(s) - 1) : t[j] = s[IF j < i THEN j ELSE j + 1]
    BY RemoveAtIs
  <2>2. Len(s) \in Nat /\ Head(s) = s[1]
    OBVIOUS
  <2>3. i > 1
    BY <2>2
  <2>4. 1 \in 1..(Len(s) - 1)
    BY <2>2, <2>3
  <2> HIDE DEF t
  <2>5. t[1] = s[1] /\ t # <<>>
    BY <2>1, <2>3, <2>4
  <2>6. Head(t) = t[1]
    BY <2>1, <2>5
  <2> QED
    BY <2>2, <2>5, <2>6 DEF t
<1> QED
  BY <1>1, <1>2, RemoveFirstIs

\* Call r is in the attempt that only the head may make.
Attempts(r) == InQueue(r) /\ pc[r] \in Trying \cup Evicting

\* What a step of call r does to the line.
Lines(r) ==
    /\ \A q \in Reqs \ {r} : pc'[q] = pc[q] /\ back'[q] = back[q]
    /\ \/ /\ line' = Append(line, r) /\ ~InQueue(r)
          /\ InQueue(r)' /\ ~Attempts(r)'
       \/ /\ line' = RemoveFirst(line, r) /\ ~InQueue(r)'
       \/ /\ line' = line /\ (InQueue(r)' <=> InQueue(r))
          /\ Attempts(r)' => Attempts(r) \/ IsHead(r)

LineInv ==
    /\ \A r \in Reqs : Contains(line, r) <=> InQueue(r)
    /\ Distinct(line)
    /\ \A r \in Reqs : Attempts(r) => IsHead(r)

LEMMA LinesKeep ==
    ASSUME TypeOK, LineInv, NEW r \in Reqs, Lines(r)
    PROVE  LineInv'
<1>1. line \in Seq(Reqs) /\ Distinct(line)
  BY DEF TypeOK, LineInv
<1>2. \A q \in Reqs \ {r} : (InQueue(q)' <=> InQueue(q)) /\ (Attempts(q)' <=> Attempts(q))
  BY DEF Lines, InQueue, Attempts
<1>3. CASE /\ line' = Append(line, r) /\ ~InQueue(r)
           /\ InQueue(r)' /\ ~Attempts(r)'
  <2>1. ~Contains(line, r)
    BY <1>3 DEF LineInv
  <2>2. Distinct(line') /\ \A x : Contains(line', x) <=> Contains(line, x) \/ x = r
    BY <1>1, <1>3, <2>1, JoiningKeeps
  <2>3. line # <<>> => line' # <<>> /\ Head(line') = Head(line)
    <3> SUFFICES ASSUME line # <<>> PROVE line' # <<>> /\ Head(line') = Head(line)
      OBVIOUS
    <3>1. /\ Len(line) \in Nat \ {0} /\ Append(line, r) \in Seq(Reqs)
          /\ Len(Append(line, r)) = Len(line) + 1 /\ Append(line, r)[1] = line[1]
      BY <1>1, AppendProperties, EmptySeq
    <3> QED
      BY <1>1, <1>3, <3>1
  <2>4. \A q \in Reqs : Attempts(q)' => Attempts(q)
    BY <1>2, <1>3
  <2> QED
    BY <1>2, <1>3, <2>2, <2>3, <2>4 DEF LineInv, IsHead
<1>4. CASE line' = RemoveFirst(line, r) /\ ~InQueue(r)'
  <2>1. Distinct(line') /\ \A x : Contains(line', x) <=> Contains(line, x) /\ x # r
    BY <1>1, <1>4, LeavingKeeps
  <2>2. \A q \in Reqs : Attempts(q)' => q # r /\ Attempts(q) /\ IsHead(q)
    BY <1>2, <1>4 DEF LineInv, Attempts
  <2>3. ASSUME NEW q \in Reqs, Attempts(q)' PROVE IsHead(q)'
    <3>1. q # r /\ line # <<>> /\ Head(line) = q
      BY <2>2, <2>3 DEF IsHead
    <3>2. line' # <<>> /\ Head(line') = q
      BY <1>1, <1>4, <3>1, HeadStays
    <3> QED
      BY <3>2 DEF IsHead
  <2> QED
    BY <1>2, <1>4, <2>1, <2>3 DEF LineInv
<1>5. CASE /\ line' = line /\ (InQueue(r)' <=> InQueue(r))
           /\ Attempts(r)' => Attempts(r) \/ IsHead(r)
  BY <1>2, <1>5 DEF LineInv, IsHead
<1> QED
  BY <1>3, <1>4, <1>5 DEF Lines
LineQuiet ==
    /\ line' = line
    /\ \A q \in Reqs : (InQueue(q)' <=> InQueue(q)) /\ (Attempts(q)' => Attempts(q))

LEMMA LineSteps ==
    ASSUME TypeOK, PlacesFit, [Next]_vars
    PROVE  LineQuiet \/ \E r \in Reqs : Lines(r)
<1> USE DEF ledger, queues, world, control
<1> DEFINE Others(r) == \A q \in Reqs \ {r} : pc'[q] = pc[q] /\ back'[q] = back[q]
<1>1. ASSUME NEW r \in Reqs, NEW x, Goto(r, x), UNCHANGED back
      PROVE  pc'[r] = x /\ back'[r] = back[r] /\ Others(r)
  BY <1>1 DEF Goto, TypeOK
<1>2. ASSUME NEW r \in Reqs, NEW x, Goto(r, x), UNCHANGED back, Leave(r),
             x \notin Waiting \cup Trying \cup Evicting
      PROVE  Lines(r)
  BY <1>1, <1>2 DEF Lines, Leave, InQueue
<1>3. ASSUME NEW r \in Reqs, AdmitTracked(r) \/ (\E u : AdmitNew(r, u)), UNCHANGED back
      PROVE  Lines(r)
  BY <1>2, <1>3 DEF AdmitTracked, AdmitNew, Waiting, Trying, Evicting
<1>4. ASSUME NEW r \in Reqs, UNCHANGED back,
             Refuse(r, "busy") \/ Refuse(r, "busy_background") \/ Refuse(r, "host_memory")
             \/ Refuse(r, "user_cap") \/ Refuse(r, "speculative")
      PROVE  Lines(r)
  BY <1>2, <1>4 DEF Refuse, Waiting, Trying, Evicting
<1>5. ASSUME NEW r \in Reqs, NEW x, Goto(r, x), UNCHANGED <<back, line>>,
             Path(r) # "queued" \/ pc[r] \notin Waiting \cup Trying \cup Evicting,
             Path(r) # "queued" \/ x \notin Waiting \cup Trying \cup Evicting
      PROVE  Lines(r)
  BY <1>1, <1>5 DEF Lines, InQueue, Attempts
<1>6. ASSUME NEW r \in Reqs, NEW x, Goto(r, x), UNCHANGED <<back, line>>,
             pc[r] \in Waiting \cup Trying, x \in Waiting \cup Trying,
             x \in Trying => pc[r] \in Trying \/ IsHead(r)
      PROVE  Lines(r)
  BY <1>1, <1>6 DEF Lines, InQueue, Attempts, Waiting, Trying, Evicting
<1>7. ASSUME NEW r \in Reqs, Enter(r), UNCHANGED back,
             pc[r] \notin Waiting \cup Trying \cup Evicting
      PROVE  Lines(r)
  <2>1. CASE Path(r) = "queued"
    <3>1. Goto(r, "top") /\ line' = Append(line, r)
      BY <1>7, <2>1 DEF Enter
    <3>2. pc'[r] = "top" /\ Others(r)
      BY <1>1, <1>7, <3>1
    <3> QED
      BY <1>7, <2>1, <3>1, <3>2 DEF Lines, InQueue, Attempts, Waiting, Trying, Evicting
  <2>2. CASE Path(r) # "queued"
    BY <1>5, <1>7, <2>2 DEF Enter
  <2> QED
    BY <2>1, <2>2
<1>8. \A r \in Reqs : pc[r] \in PlacesOf(Path(r)) /\ Path(r) \in Paths
  BY ReqTypes DEF PlacesFit
<1>9. ASSUME NEW r \in Reqs, Arrive(r) \/ CapCheck(r) PROVE Lines(r)
  <2>1. pc[r] \in {"idle", "cap"} /\ UNCHANGED back
    BY <1>9 DEF Arrive, CapCheck
  <2>2. CASE Enter(r)
    BY <1>7, <2>1, <2>2 DEF Waiting, Trying, Evicting
  <2>3. CASE Goto(r, "cap") /\ UNCHANGED line
    BY <1>5, <2>1, <2>3 DEF Waiting, Trying, Evicting
  <2>4. CASE Goto(r, "capscan") /\ UNCHANGED line
    BY <1>5, <2>1, <2>4 DEF Waiting, Trying, Evicting
  <2>5. CASE AdmitTracked(r)
    BY <1>3, <2>1, <2>5
  <2> QED
    BY <1>9, <2>2, <2>3, <2>4, <2>5 DEF Arrive, CapCheck
<1>10. ASSUME NEW r \in Reqs, FastPath(r) \/ AcquireSpeculative(r) PROVE Lines(r)
  <2>1. CASE AdmitTracked(r) \/ AdmitNew(r, User(r)) \/ Refuse(r, "user_cap")
             \/ Refuse(r, "speculative")
    BY <1>3, <1>4, <1>10, <2>1 DEF FastPath, AcquireSpeculative
  <2>2. CASE pc[r] = "fast" /\ Goto(r, "loop") /\ UNCHANGED line
    <3>1. Path(r) # "queued"
      BY <1>8, <2>2 DEF PlacesOf, Lobby, Waiting, Evicting
    <3> QED
      BY <1>5, <1>10, <2>2, <3>1 DEF FastPath, AcquireSpeculative
  <2> QED
    BY <1>10, <2>1, <2>2 DEF FastPath, AcquireSpeculative
<1>11. ASSUME NEW r \in Reqs,
              QueueTop(r) \/ QueueCheck(r) \/ QueueDeadline(r) \/ QueueWake(r)
       PROVE  Lines(r)
  <2>1. UNCHANGED back /\ pc[r] \in Waiting
    BY <1>11 DEF QueueTop, QueueCheck, QueueDeadline, QueueWake, Waiting
  <2>2. CASE QueueTop(r)
    BY <1>6, <2>1, <2>2 DEF QueueTop, Waiting, Trying
  <2>3. CASE QueueCheck(r)
    <3>1. CASE Goto(r, "wait") /\ UNCHANGED line
      BY <1>6, <2>1, <3>1 DEF Waiting, Trying
    <3> QED
      BY <1>3, <1>4, <2>1, <2>3, <3>1 DEF QueueCheck
  <2>4. CASE QueueDeadline(r)
    BY <1>4, <2>1, <2>4 DEF QueueDeadline
  <2>5. CASE QueueWake(r)
    BY <1>6, <2>1, <2>5 DEF QueueWake, Waiting, Trying
  <2> QED
    BY <1>11, <2>2, <2>3, <2>4, <2>5
<1>12. ASSUME NEW r \in Reqs, AdmitLoop(r) \/ Verdict(r) PROVE Lines(r)
  <2>1. UNCHANGED back /\ pc[r] \in Trying
    BY <1>12 DEF AdmitLoop, Verdict, Trying
  <2>2. CASE AdmitTracked(r) \/ AdmitNew(r, User(r)) \/ Refuse(r, "user_cap")
             \/ Refuse(r, "host_memory") \/ Refuse(r, "busy") \/ Refuse(r, "busy_background")
    BY <1>3, <1>4, <2>1, <2>2
  <2>3. CASE (Goto(r, "scan") \/ Goto(r, "check")) /\ UNCHANGED line
    BY <1>6, <2>1, <2>3 DEF Waiting, Trying
  <2> QED
    BY <1>12, <2>2, <2>3 DEF AdmitLoop, Verdict
<1>13. ASSUME NEW r \in Reqs, Scan(r) PROVE Lines(r)
  <2>1. pc[r] \in {"scan", "capscan"}
    BY <1>13 DEF Scan
  <2>2. CASE \E s \in Best(r) :
               /\ back' = [back EXCEPT ![r] = IF pc[r] = "capscan" THEN "cap"
                                              ELSE IF Path(r) = "maintenance" THEN "idle"
                                              ELSE "loop"]
               /\ Goto(r, IF s \in prewarm THEN "claim" ELSE "remove")
               /\ UNCHANGED line
    <3>1. back'[r] = IF pc[r] = "capscan" THEN "cap"
                     ELSE IF Path(r) = "maintenance" THEN "idle" ELSE "loop"
      BY <2>2 DEF TypeOK
    <3>2. pc'[r] \in {"claim", "remove"} /\ Others(r) /\ line' = line
      BY <2>2 DEF Goto, TypeOK
    <3> QED
      BY <2>1, <3>1, <3>2 DEF Lines, InQueue, Attempts, Waiting, Trying, Evicting
  <2>3. CASE UNCHANGED back /\ pc[r] = "capscan" /\ Goto(r, "user_cap") /\ Leave(r)
    BY <1>2, <2>3 DEF Waiting, Trying, Evicting
  <2>4. CASE /\ UNCHANGED <<back, line>> /\ pc[r] # "capscan"
             /\ Goto(r, IF Path(r) = "maintenance" THEN "idle"
                        ELSE IF Spared(r) # {} THEN "verdictbg" ELSE "verdict")
    <3>1. CASE Path(r) = "maintenance"
      BY <1>5, <2>4, <3>1
    <3>2. CASE Path(r) # "maintenance"
      BY <1>6, <2>1, <2>4, <3>2 DEF Waiting, Trying
    <3> QED
      BY <3>1, <3>2
  <2> QED
    BY <1>13, <2>2, <2>3, <2>4, Zenon DEF Scan
<1>14. ASSUME NEW r \in Reqs,
              EvictClaim(r) \/ EvictRemove(r) \/ EvictClose(r) \/ EvictRelease(r)
       PROVE  Lines(r)
  <2>1. UNCHANGED <<back, line>> /\ pc[r] \in Evicting
    BY <1>14 DEF EvictClaim, EvictRemove, EvictClose, EvictRelease, Evicting
  <2>2. pc'[r] \in Evicting \cup {back[r]} /\ Others(r)
    BY <1>1, <1>14, <2>1 DEF EvictClaim, EvictRemove, EvictClose, EvictRelease, Evicting
  <2>3. back[r] \in {"idle", "cap", "loop"}
    BY DEF TypeOK
  <2> QED
    BY <2>1, <2>2, <2>3 DEF Lines, InQueue, Attempts, Waiting, Trying, Evicting
<1>15. ASSUME NEW r \in Reqs,
              MaintenancePass(r) \/ AcquireMeeting(r) \/ Abandon(r) \/ RunEnds(r)
       PROVE  Lines(r)
  BY <1>5, <1>15
  DEF MaintenancePass, AcquireMeeting, Abandon, RunEnds, Waiting, Trying, Evicting
<1>16. ASSUME NEW r \in Reqs,
              AcquireTask(r) \/ RingAdmit(r) \/ ReserveBackground(r) \/ WakeRecheck(r)
              \/ WakeGivesWay(r) \/ WakeTimeout(r)
       PROVE  Lines(r)
  <2>1. UNCHANGED <<back, line>> /\ pc[r] \in {"idle", "parked", "waking"}
    BY <1>16, Zenon
    DEF AcquireTask, RingAdmit, ReserveBackground, WakeRecheck, WakeGivesWay, WakeTimeout
  <2>2. \E x \in {"admitted", "parked", "waking", "superseded", "timeout"} : Goto(r, x)
    BY <1>16, Zenon
    DEF AcquireTask, RingAdmit, ReserveBackground, WakeRecheck, WakeGivesWay, WakeTimeout,
        WakeLook, WakeEnds
  <2> QED
    BY <1>5, <2>1, <2>2 DEF Waiting, Trying, Evicting
<1>17. ASSUME NEW r \in Reqs, Cancel(r) PROVE Lines(r)
  <2>1. Goto(r, "gone") /\ UNCHANGED back
    BY <1>17 DEF Cancel
  <2>2. CASE Leave(r)
    BY <1>2, <2>1, <2>2 DEF Waiting, Trying, Evicting
  <2>3. CASE pc[r] \in {"parked", "waking"} /\ UNCHANGED line
    BY <1>5, <2>1, <2>3 DEF Waiting, Trying, Evicting
  <2> QED
    BY <1>17, <2>2, <2>3, Zenon DEF Cancel
<1>18. ASSUME NEW s \in Sids, Spawn(s) \/ SpawnFails(s) PROVE LineQuiet
  <2>1. UNCHANGED <<back, line>>
    BY <1>18, Zenon DEF Spawn, SpawnFails
  <2>2. \A q \in Reqs : \/ pc'[q] = pc[q]
                        \/ pc[q] = "admitted" /\ pc'[q] \in {"gone", "running", "done"}
    BY <1>18 DEF Spawn, SpawnFails, Spawners
  <2> QED
    BY <2>1, <2>2 DEF LineQuiet, InQueue, Attempts, Waiting, Trying, Evicting
<1>19. ASSUME UNCHANGED <<pc, back, line>> PROVE LineQuiet
  BY <1>19 DEF LineQuiet, InQueue, Attempts
<1>20. ASSUME NEW s \in Sids,
              CloseBegins(s) \/ CloseEnds(s) \/ AgeOut(s)
              \/ \E m \in {"active", "idle", "background"} : SetMode(s, m)
       PROVE  LineQuiet
  BY <1>19, <1>20, Zenon DEF CloseBegins, CloseEnds, AgeOut, SetMode
<1>21. ASSUME HostMemory \/ ReconcileReads \/ ReconcileFrees \/ UNCHANGED vars
       PROVE  LineQuiet
  BY <1>19, <1>21, Zenon DEF HostMemory, ReconcileReads, ReconcileFrees, vars
<1> QED
  BY <1>9, <1>10, <1>11, <1>12, <1>13, <1>14, <1>15, <1>16, <1>17, <1>18, <1>20, <1>21
  DEF Next

LineSafe == LedgerInv /\ PlacesFit /\ LineInv

LEMMA LineHolds == Spec => []LineSafe
<1>1. Init => LineSafe
  <2>1. Init => LineInv
    BY DEF Init, LineInv, Contains, Distinct, InQueue, Attempts, Waiting, Trying, Evicting
  <2> QED
    BY <2>1, LedgerInit, PlacesInit DEF LineSafe
<1>2. ASSUME TypeOK, LineInv, LineQuiet PROVE LineInv'
  BY <1>2 DEF LineInv, LineQuiet, IsHead
<1>3. LineSafe /\ [Next]_vars => LineSafe'
  BY <1>2, LedgerStep, PlacesStep, LineSteps, LinesKeep DEF LineSafe, LedgerInv
<1> QED
  BY <1>1, <1>3, PTL DEF Spec

\* A ticket is in the line, once, exactly while its call is inside _acquire_queued:
\* a refused, admitted or cancelled call never holds up the people behind it.
THEOREM LineIsExact == Spec => []LineExact
<1>1. LineSafe => LineExact
  BY DEF LineSafe, LineInv, LineExact, Distinct
<1> QED
  BY <1>1, LineHolds, PTL

\* "Only the head attempts": what the check at the top of the loop saw is still so
\* after every await of the attempt, so nobody in the line is overtaken.
THEOREM OnlyTheHeadAttempts == Spec => []OnlyHeadAttempts
<1>1. LineSafe => OnlyHeadAttempts
  BY DEF LineSafe, LineInv, OnlyHeadAttempts, Attempts
<1> QED
  BY <1>1, LineHolds, PTL

=============================================================================
