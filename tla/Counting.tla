------------------------------- MODULE Counting -------------------------------
(***************************************************************************)
(* Lemmas about natural numbers and the sizes of finite sets, in the form  *)
(* in which the proofs about the pods need them: posts, events and keys    *)
(* are counted one at a time.                                              *)
(***************************************************************************)
EXTENDS Integers, FiniteSets, FiniteSetTheorems, WellFoundedInduction, TLAPS

\* A set of numbers has a smallest one.
LEMMA Smallest ==
  ASSUME NEW S \in SUBSET Nat, S # {}
  PROVE  \E m \in S : \A k \in S : m <= k
<1> DEFINE R == OpToRel(<, Nat)
<1>1. IsWellFoundedOn(R, Nat)
  BY NatLessThanWellFounded
<1>2. \A k, m \in Nat : k < m => <<k, m>> \in R
  BY DEF OpToRel
<1> HIDE DEF R
<1>3. PICK m \in S : \A k \in S : ~(<<k, m>> \in R)
  BY <1>1, WFMin
<1>4. ASSUME NEW k \in S PROVE m <= k
  <2>1. k \in Nat /\ m \in Nat /\ ~(k < m)
    BY <1>2, <1>3
  <2> QED
    BY <2>1
<1> QED
  BY <1>3, <1>4

\* The size of a finite set is a number, and a part of it is no larger.
LEMMA Part ==
  ASSUME NEW S, IsFiniteSet(S), NEW T \in SUBSET S
  PROVE  /\ IsFiniteSet(T) /\ Cardinality(T) \in Nat /\ Cardinality(S) \in Nat
         /\ Cardinality(T) <= Cardinality(S)
  BY FS_Subset, FS_CardinalityType

\* One element more.
LEMMA OneMore ==
  ASSUME NEW S, IsFiniteSet(S), NEW x, NEW T \in SUBSET (S \cup {x})
  PROVE  /\ IsFiniteSet(T) /\ Cardinality(T) \in Nat /\ Cardinality(S) \in Nat
         /\ Cardinality(T) <= Cardinality(S) + 1
<1>1. /\ IsFiniteSet(S \cup {x})
      /\ Cardinality(S \cup {x}) = IF x \in S THEN Cardinality(S) ELSE Cardinality(S) + 1
  BY FS_AddElement
<1>2. Cardinality(S) \in Nat
  BY FS_CardinalityType
<1>3. IsFiniteSet(T) /\ Cardinality(T) \in Nat /\ Cardinality(T) <= Cardinality(S \cup {x})
  BY <1>1, Part
<1> QED
  BY <1>1, <1>2, <1>3

\* One element less.
LEMMA OneLess ==
  ASSUME NEW S, IsFiniteSet(S), NEW x \in S, NEW T \in SUBSET (S \ {x})
  PROVE  /\ IsFiniteSet(T) /\ Cardinality(T) \in Nat /\ Cardinality(S) \in Nat
         /\ Cardinality(T) + 1 <= Cardinality(S)
<1>1. IsFiniteSet(S \ {x}) /\ Cardinality(S \ {x}) = Cardinality(S) - 1
  BY FS_RemoveElement
<1>2. Cardinality(S) \in Nat
  BY FS_CardinalityType
<1>3. IsFiniteSet(T) /\ Cardinality(T) \in Nat /\ Cardinality(T) <= Cardinality(S \ {x})
  BY <1>1, Part
<1> QED
  BY <1>1, <1>2, <1>3

\* The numbers up to n, and some of them.
LEMMA UpTo ==
  ASSUME NEW n \in Nat
  PROVE  IsFiniteSet(1 .. n) /\ Cardinality(1 .. n) = n
<1>1. IsFiniteSet(1 .. n) /\ Cardinality(1 .. n) = IF 1 > n THEN 0 ELSE n - 1 + 1
  BY FS_Interval
<1> QED
  BY <1>1

\* A part of the first n numbers has at most n.
LEMMA SomeUpTo ==
  ASSUME NEW n \in Nat, NEW S \in SUBSET (1 .. n)
  PROVE  IsFiniteSet(S) /\ Cardinality(S) \in Nat /\ Cardinality(S) <= n
  BY UpTo, Part

\* A set of numbers that holds all the smaller ones is an interval.
LEMMA Segment ==
  ASSUME NEW n \in Nat, NEW S \in SUBSET (1 .. n), \A i \in S : 1 .. i \subseteq S
  PROVE  S = 1 .. Cardinality(S) /\ Cardinality(S) \in Nat /\ Cardinality(S) <= n
<1>1. \E k \in Nat : S = 1 .. k
  <2>1. CASE S = 1 .. n
    BY <2>1
  <2>2. CASE S # 1 .. n
    <3> DEFINE out == {k \in Nat : k \in 1 .. n /\ k \notin S}
    <3>0. \E k \in 1 .. n : k \notin S
      BY <2>2, Zenon
    <3>1. out # {} /\ out \in SUBSET Nat
      BY <3>0
    <3>2. PICK m \in out : \A k \in out : m <= k
      BY <3>1, Smallest
    <3>3. m \in 1 .. n /\ m \notin S /\ \A k \in 1 .. n : k \notin S => m <= k
      BY <3>2
    <3>4. \A k \in S : k < m
      BY <3>3
    <3>5. \A k \in 1 .. m - 1 : k \in S
      BY <3>3
    <3>6. \A k : k \in S <=> k \in 1 .. m - 1
      <4>1. \A k \in S : k \in 1 .. m - 1
        BY <3>3, <3>4
      <4> QED
        BY <3>5, <4>1
    <3>7. S = 1 .. m - 1
      BY <3>6, Zenon
    <3>8. m - 1 \in Nat
      BY <3>3
    <3> QED
      BY <3>7, <3>8
  <2> QED
    BY <2>1, <2>2
<1>2. PICK k \in Nat : S = 1 .. k
  BY <1>1
<1>3. Cardinality(S) = k
  BY <1>2, UpTo
<1> QED
  BY <1>2, <1>3, SomeUpTo

\* A set that can be mapped into another without a collision is no larger.
LEMMA Into ==
  ASSUME NEW S, NEW T, IsFiniteSet(T), NEW f \in [S -> T],
         \A x, y \in S : f[x] = f[y] => x = y
  PROVE  /\ IsFiniteSet(S) /\ Cardinality(S) \in Nat /\ Cardinality(T) \in Nat
         /\ Cardinality(S) <= Cardinality(T)
<1>1. f \in Injection(S, T)
  BY DEF Injection, IsInjective
<1>2. IsFiniteSet(S) /\ Cardinality(S) <= Cardinality(T)
  BY <1>1, FS_Injection
<1> QED
  BY <1>2, FS_CardinalityType

\* Moving numbers down keeps them apart.
LEMMA Shifted ==
  ASSUME NEW S \in SUBSET Int, NEW T, IsFiniteSet(T), NEW k \in Int, \A x \in S : x - k \in T
  PROVE  Cardinality(S) \in Nat /\ Cardinality(T) \in Nat /\ Cardinality(S) <= Cardinality(T)
<1> DEFINE f == [x \in S |-> x - k]
<1>1. f \in [S -> T]
  OBVIOUS
<1>2. \A x, y \in S : f[x] = f[y] => x = y
  OBVIOUS
<1> HIDE DEF f
<1>3. IsFiniteSet(S) /\ Cardinality(S) \in Nat /\ Cardinality(T) \in Nat
      /\ Cardinality(S) <= Cardinality(T)
  BY <1>1, <1>2, Into, Zenon
<1> QED
  BY <1>3

\* A finite set of numbers has a greatest one.
LEMMA Greatest ==
  ASSUME NEW S \in SUBSET Nat, IsFiniteSet(S), S # {}
  PROVE  \E m \in S : \A k \in S : k <= m
<1> DEFINE above(m) == {k \in S : k > m}
           sizes == {Cardinality(above(m)) : m \in S}
<1>1. \A m \in S : IsFiniteSet(above(m)) /\ Cardinality(above(m)) \in Nat
  BY Part
<1>2. PICK n \in sizes : \A k \in sizes : n <= k
  <2>1. sizes \in SUBSET Nat /\ sizes # {}
    BY <1>1
  <2> HIDE DEF sizes
  <2> QED
    BY <2>1, Smallest
<1>3. PICK m \in S : \A k \in S : Cardinality(above(m)) <= Cardinality(above(k))
  BY <1>2
<1>4. ASSUME NEW k \in S, k > m PROVE FALSE
  <2>1. k \in above(m) /\ above(k) \in SUBSET (above(m) \ {k})
    <3>1. ASSUME NEW x \in S, x > k PROVE x > m /\ x # k
      <4>1. x \in Nat /\ k \in Nat /\ m \in Nat
        OBVIOUS
      <4> QED
        BY <1>4, <3>1, <4>1
    <3> QED
      BY <1>4, <3>1
  <2> HIDE DEF above
  <2>2. /\ Cardinality(above(k)) + 1 <= Cardinality(above(m))
        /\ Cardinality(above(k)) \in Nat /\ Cardinality(above(m)) \in Nat
    BY <1>1, <2>1, OneLess
  <2>3. Cardinality(above(m)) <= Cardinality(above(k))
    BY <1>3, <1>4
  <2> QED
    BY <2>2, <2>3
<1> QED
  BY <1>4
=============================================================================
