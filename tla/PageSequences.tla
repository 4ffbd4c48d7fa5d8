--------------------------- MODULE PageSequences ---------------------------
(***************************************************************************)
(* What the proofs about the two pages need of sequences: of bubbles, of   *)
(* frames on a socket, and of acks.                                        *)
(***************************************************************************)
EXTENDS Integers, Sequences, FiniteSets, SequenceTheorems, FiniteSetTheorems,
        WellFoundedInduction, TLAPS

LEMMA AppendElements ==
    ASSUME NEW S, NEW s \in Seq(S), NEW e \in S
    PROVE  /\ Append(s, e) \in Seq(S) /\ Len(Append(s, e)) = Len(s) + 1
           /\ Append(s, e)[Len(s) + 1] = e
           /\ \A i \in DOMAIN s : i \in DOMAIN Append(s, e) /\ Append(s, e)[i] = s[i]
           /\ \A i \in DOMAIN Append(s, e) :
                 Append(s, e)[i] = e \/ \E j \in DOMAIN s : Append(s, e)[i] = s[j]
  BY AppendProperties

LEMMA ConcatElements ==
    ASSUME NEW S, NEW s \in Seq(S), NEW t \in Seq(S)
    PROVE  /\ s \o t \in Seq(S) /\ Len(s \o t) = Len(s) + Len(t)
           /\ \A i \in DOMAIN s : (s \o t)[i] = s[i]
           /\ \A i \in DOMAIN t : (s \o t)[i + Len(s)] = t[i]
           /\ \A i \in DOMAIN (s \o t) :
                 \/ \E j \in DOMAIN s : (s \o t)[i] = s[j]
                 \/ \E j \in DOMAIN t : (s \o t)[i] = t[j]
<1>1. /\ s \o t \in Seq(S)
      /\ Len(s \o t) = Len(s) + Len(t)
      /\ \A i \in 1 .. Len(s) + Len(t) : (s \o t)[i] = IF i <= Len(s) THEN s[i] ELSE t[i - Len(s)]
  BY ConcatProperties
<1>2. ASSUME NEW i \in DOMAIN (s \o t)
      PROVE  \/ \E j \in DOMAIN s : (s \o t)[i] = s[j]
             \/ \E j \in DOMAIN t : (s \o t)[i] = t[j]
  <2>1. i \in 1 .. Len(s) + Len(t)
    BY <1>1
  <2>2. CASE i <= Len(s)
    <3>1. i \in DOMAIN s /\ (s \o t)[i] = s[i]
      BY <1>1, <2>1, <2>2
    <3> QED
      BY <3>1
  <2>3. CASE ~(i <= Len(s))
    <3>1. i - Len(s) \in DOMAIN t /\ (s \o t)[i] = t[i - Len(s)]
      BY <1>1, <2>1, <2>3
    <3> QED
      BY <3>1
  <2> QED
    BY <2>2, <2>3
<1>3. \A i \in DOMAIN s : (s \o t)[i] = s[i]
  BY <1>1
<1>4. \A i \in DOMAIN t : (s \o t)[i + Len(s)] = t[i]
  <2> SUFFICES ASSUME NEW i \in DOMAIN t
               PROVE  (s \o t)[i + Len(s)] = t[i]
    OBVIOUS
  <2>1. /\ i \in 1 .. Len(t) /\ Len(s) \in Nat /\ i + Len(s) \in 1 .. Len(s) + Len(t)
        /\ ~(i + Len(s) <= Len(s)) /\ (i + Len(s)) - Len(s) = i
    OBVIOUS
  <2> QED
    BY <1>1, <2>1
<1> QED
  BY <1>1, <1>2, <1>3, <1>4

(* An element of a concatenation is of either part.                        *)
LEMMA ConcatIsOfParts ==
    ASSUME NEW S, NEW s \in Seq(S), NEW t \in Seq(S)
    PROVE  /\ s \o t \in Seq(S)
           /\ \A i \in DOMAIN (s \o t) :
                 (\E j \in DOMAIN s : (s \o t)[i] = s[j]) \/ (\E j \in DOMAIN t : (s \o t)[i] = t[j])
  BY ConcatElements

LEMMA TailElements ==
    ASSUME NEW S, NEW s \in Seq(S), s # <<>>
    PROVE  /\ Tail(s) \in Seq(S) /\ Head(s) \in S /\ Head(s) = s[1] /\ 1 \in DOMAIN s
           /\ \A i \in DOMAIN Tail(s) : \E j \in DOMAIN s : Tail(s)[i] = s[j]
<1>1. /\ Tail(s) \in Seq(S) /\ Head(s) \in S /\ Len(Tail(s)) = Len(s) - 1
      /\ \A i \in 1 .. Len(Tail(s)) : Tail(s)[i] = s[i + 1]
  BY HeadTailProperties
<1>2. ASSUME NEW i \in DOMAIN Tail(s)
      PROVE  \E j \in DOMAIN s : Tail(s)[i] = s[j]
  <2>1. i + 1 \in DOMAIN s /\ Tail(s)[i] = s[i + 1]
    BY <1>1
  <2> QED
    BY <2>1
<1>3. Head(s) = s[1] /\ 1 \in DOMAIN s
  OBVIOUS
<1> QED
  BY <1>1, <1>2, <1>3

LEMMA FunctionIsSequence ==
    ASSUME NEW S, NEW n \in Nat, NEW f \in [1 .. n -> S]
    PROVE  f \in Seq(S) /\ Len(f) = n
  OBVIOUS

(* A sequence that is changed in place.                                    *)
LEMMA MappedSequence ==
    ASSUME NEW S, NEW T, NEW s \in Seq(S), NEW f, f = [i \in DOMAIN s |-> f[i]],
           \A i \in DOMAIN s : f[i] \in T
    PROVE  f \in Seq(T) /\ DOMAIN f = DOMAIN s /\ Len(f) = Len(s)
<1>1. Len(s) \in Nat /\ DOMAIN s = 1 .. Len(s)
  OBVIOUS
<1>2. f \in [1 .. Len(s) -> T]
  BY <1>1
<1>3. f \in Seq(T)
  BY <1>1, <1>2, FunctionIsSequence
<1> QED
  BY <1>1, <1>2, <1>3

LEMMA ReplacedElement ==
    ASSUME NEW S, NEW s \in Seq(S), NEW k, NEW e, k \in DOMAIN s => e \in S
    PROVE  /\ [s EXCEPT ![k] = e] \in Seq(S) /\ DOMAIN [s EXCEPT ![k] = e] = DOMAIN s
           /\ Len([s EXCEPT ![k] = e]) = Len(s)
           /\ \A i \in DOMAIN s : [s EXCEPT ![k] = e][i] = IF i = k THEN e ELSE s[i]
<1> DEFINE f == [s EXCEPT ![k] = e]
<1>1. \A i \in DOMAIN s : f[i] = (IF i = k THEN e ELSE s[i]) /\ f[i] \in S
  OBVIOUS
<1>2. f = [i \in DOMAIN s |-> f[i]]
  OBVIOUS
<1> HIDE DEF f
<1>3. f \in Seq(S) /\ DOMAIN f = DOMAIN s /\ Len(f) = Len(s)
  BY <1>1, <1>2, MappedSequence
<1> QED
  BY <1>1, <1>3 DEF f

LEMMA RowsAreCounted ==
    ASSUME NEW m \in Nat, NEW R \in SUBSET (1 .. m)
    PROVE  IsFiniteSet(R) /\ Cardinality(R) \in Nat
<1>1. IsFiniteSet(1 .. m)
  BY FS_Interval
<1>2. IsFiniteSet(R)
  BY <1>1, FS_Subset
<1> QED
  BY <1>2, FS_CardinalityType

(* Rows that are listed once each are all listed.                          *)
LEMMA AllAreListed ==
    ASSUME NEW R, IsFiniteSet(R), NEW q \in [1 .. Cardinality(R) -> R],
           \A i, j \in 1 .. Cardinality(R) : q[i] = q[j] => i = j
    PROVE  \A r \in R : \E j \in 1 .. Cardinality(R) : q[j] = r
<1> DEFINE n == Cardinality(R)
<1>1. n \in Nat /\ IsFiniteSet(1 .. n) /\ Cardinality(1 .. n) = n
  <2>1. n \in Nat
    BY FS_CardinalityType
  <2>2. IsFiniteSet(1 .. n) /\ Cardinality(1 .. n) = IF 1 <= n THEN n - 1 + 1 ELSE 0
    BY <2>1, FS_Interval
  <2> QED
    BY <2>1, <2>2
<1>2. q \in Injection(1 .. n, R)
  BY DEF Injection, IsInjective
<1>3. q \in Surjection(1 .. n, R)
  BY <1>1, <1>2, FS_Injection
<1> QED
  BY <1>3 DEF Surjection

(* Where the elements of a sequence are after it grew or lost its head.    *)
LEMMA ConcatPlaces ==
    ASSUME NEW S, NEW s \in Seq(S), NEW t \in Seq(S)
    PROVE  /\ \A i \in DOMAIN s : i \in DOMAIN (s \o t) /\ (s \o t)[i] = s[i]
           /\ \A i \in DOMAIN t : i + Len(s) \in DOMAIN (s \o t) /\ (s \o t)[i + Len(s)] = t[i]
           /\ \A i \in DOMAIN (s \o t) \ DOMAIN s : i - Len(s) \in DOMAIN t /\ (s \o t)[i] = t[i - Len(s)]
<1>1. /\ Len(s) \in Nat /\ Len(t) \in Nat /\ DOMAIN s = 1 .. Len(s) /\ DOMAIN t = 1 .. Len(t)
      /\ DOMAIN (s \o t) = 1 .. Len(s) + Len(t)
      /\ \A i \in DOMAIN s : (s \o t)[i] = s[i]
      /\ \A i \in DOMAIN t : (s \o t)[i + Len(s)] = t[i]
  BY ConcatElements
<1>2. \A i \in DOMAIN s : i \in DOMAIN (s \o t)
  BY <1>1
<1>3. \A i \in DOMAIN t : i + Len(s) \in DOMAIN (s \o t)
  BY <1>1
<1>4. ASSUME NEW i \in DOMAIN (s \o t) \ DOMAIN s
      PROVE  i - Len(s) \in DOMAIN t /\ (s \o t)[i] = t[i - Len(s)]
  <2>1. i - Len(s) \in DOMAIN t /\ (i - Len(s)) + Len(s) = i
    BY <1>1
  <2> QED
    BY <1>1, <2>1
<1> QED
  BY <1>1, <1>2, <1>3, <1>4

LEMMA TailPlaces ==
    ASSUME NEW S, NEW s \in Seq(S), s # <<>>
    PROVE  /\ Tail(s) \in Seq(S) /\ Head(s) = s[1] /\ 1 \in DOMAIN s
           /\ \A k \in DOMAIN Tail(s) : k + 1 \in DOMAIN s /\ Tail(s)[k] = s[k + 1]
           /\ \A k \in DOMAIN s : k = 1 \/ (k - 1 \in DOMAIN Tail(s) /\ Tail(s)[k - 1] = s[k])
<1>1. /\ Tail(s) \in Seq(S) /\ Len(Tail(s)) = Len(s) - 1 /\ Head(s) = s[1]
      /\ \A k \in 1 .. Len(Tail(s)) : Tail(s)[k] = s[k + 1]
  BY HeadTailProperties
<1>2. Len(s) \in Nat /\ Len(s) # 0 /\ DOMAIN s = 1 .. Len(s) /\ DOMAIN Tail(s) = 1 .. Len(s) - 1
  BY <1>1
<1>3. \A k \in DOMAIN Tail(s) : k + 1 \in DOMAIN s /\ Tail(s)[k] = s[k + 1]
  BY <1>1, <1>2
<1>4. ASSUME NEW k \in DOMAIN s, k # 1
      PROVE  k - 1 \in DOMAIN Tail(s) /\ Tail(s)[k - 1] = s[k]
  <2>1. k - 1 \in DOMAIN Tail(s) /\ k - 1 + 1 = k
    BY <1>2, <1>4
  <2> QED
    BY <1>3, <2>1
<1> QED
  BY <1>1, <1>2, <1>3, <1>4

(* A set of places has a first one. *)
LEMMA FirstPlace ==
    ASSUME NEW n \in Nat, NEW I \in SUBSET (1 .. n), I # {}
    PROVE  \E i \in I : \A j \in I : i <= j
<1> DEFINE upto == {1 .. i : i \in I}
<1>1. \A i \in I : i \in Nat /\ i # 0 /\ IsFiniteSet(1 .. i)
  BY FS_Interval
<1>2. upto \subseteq FiniteSubsetsOf(Nat) /\ upto # {}
  BY <1>1 DEF FiniteSubsetsOf
<1>3. IsWellFoundedOn(StrictSubsetOrdering(Nat), FiniteSubsetsOf(Nat))
  BY FS_StrictSubsetOrderingWellFounded
<1>4. PICK x \in upto : \A y \in upto : ~(<<y, x>> \in StrictSubsetOrdering(Nat))
  <2> HIDE DEF upto
  <2> QED
    BY <1>2, <1>3, WFMin
<1>5. PICK i \in I : x = 1 .. i
  OBVIOUS
<1>6. ASSUME NEW j \in I, ~(i <= j)
      PROVE  FALSE
  <2>1. i \in Nat /\ j \in Nat /\ i # 0 /\ j < i
    BY <1>1, <1>6
  <2>2. 1 .. j \subseteq 1 .. i /\ i \in 1 .. i /\ i \notin 1 .. j
    BY <2>1
  <2>3. 1 .. j \in SUBSET Nat /\ 1 .. i \in SUBSET Nat
    BY <2>1
  <2>4. <<1 .. j, 1 .. i>> \in StrictSubsetOrdering(Nat)
    BY <2>2, <2>3 DEF StrictSubsetOrdering
  <2> QED
    BY <1>4, <1>5, <2>4
<1> QED
  BY <1>6
=============================================================================
