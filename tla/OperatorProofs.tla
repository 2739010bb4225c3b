---------------------------- MODULE OperatorProofs ----------------------------
(* Lemmas on the operators that the models are built from: the greatest       *)
(* number of a set, sums over a finite set, and sequences.                    *)
EXTENDS Integers, FiniteSetsExt, FiniteSetTheorems, SequenceTheorems,
        WellFoundedInduction, TLAPS

-------------------------------------------------------------------------------
(* Numbers.                                                                   *)

\* A set of numbers that has a member has a least one.
LEMMA LeastNumber ==
    ASSUME NEW T \in SUBSET Nat, T # {}
    PROVE  \E n \in T : \A m \in Nat : m < n => m \notin T
<1> DEFINE R == OpToRel(<, Nat)
<1>1. IsWellFoundedOn(R, Nat)
  BY NatLessThanWellFounded, Zenon DEF R
<1>2. \A m, n \in Nat : m < n => <<m, n>> \in R
  BY DEF OpToRel
<1> HIDE DEF R
<1>3. PICK n \in T : \A m \in T : ~ (<<m, n>> \in R)
  BY <1>1, WFMin
<1>4. QED
  BY <1>2, <1>3

\* A member of a set of numbers that no other exceeds is the greatest one.
LEMMA MaxIs ==
    ASSUME NEW S \in SUBSET Nat, NEW m \in S, \A s \in S : s <= m
    PROVE  Max(S) = m
<1>1. m \in S /\ \A y \in S : m >= y
  OBVIOUS
<1>2. \A x \in S : (\A y \in S : x >= y) => x = m
  OBVIOUS
<1>3. QED
  BY <1>1, <1>2 DEF Max

\* A set of numbers that has a member and an upper bound has a greatest one.
LEMMA MaxOfBounded ==
    ASSUME NEW S \in SUBSET Nat, NEW b \in Nat, \A s \in S : s <= b, S # {}
    PROVE  Max(S) \in S /\ \A s \in S : s <= Max(S)
<1> DEFINE T == {n \in Nat : \A s \in S : s <= n}
<1>1. PICK m \in T : \A n \in Nat : n < m => n \notin T
  <2>1. T \in SUBSET Nat /\ T # {}
    OBVIOUS
  <2> HIDE DEF T
  <2>2. QED
    BY <2>1, LeastNumber
<1>2. m \in S
  <2>1. SUFFICES ASSUME m \notin S PROVE FALSE
    OBVIOUS
  <2>2. PICK s \in S : TRUE
    OBVIOUS
  <2>3. \A t \in S : t < m
    BY <2>1
  <2>4. m - 1 \in Nat /\ m - 1 \in T /\ m - 1 < m
    BY <2>2, <2>3
  <2> HIDE DEF T
  <2>5. QED
    BY <1>1, <2>4
<1>3. Max(S) = m
  BY <1>2, MaxIs
<1>4. QED
  BY <1>2, <1>3

-------------------------------------------------------------------------------
(* Sums.  The fold takes the elements out of the set one by one; that the      *)
(* recursion by which it is defined has a solution, and what this solution is, *)
(* follows from there being no smallest set without it.                        *)

Any(s) == CHOOSE x \in s : TRUE

\* The sum of the numbers f[x] of the members x of S.
SumOf(f, S) == MapThenSumSet(LAMBDA x : f[x], S)

\* g solves the recursion on the sets of D.
Sums(g, f, D) ==
    g = [s \in D |-> IF s = {} THEN 0 ELSE f[Any(s)] + g[s \ {Any(s)}]]

\* A set without one of its elements is a smaller one.
LEMMA WithoutAny ==
    ASSUME NEW s, IsFiniteSet(s), s # {}
    PROVE  /\ Any(s) \in s /\ IsFiniteSet(s \ {Any(s)})
           /\ Cardinality(s) \in Nat \ {0}
           /\ Cardinality(s \ {Any(s)}) = Cardinality(s) - 1
<1>1. Any(s) \in s
  BY DEF Any
<1>2. QED
  BY <1>1, FS_RemoveElement, FS_EmptySet, FS_CardinalityType

\* The recursion has a solution on the subsets of a finite set.
LEMMA SumsExist ==
    ASSUME NEW f, NEW S, IsFiniteSet(S)
    PROVE  \E g : Sums(g, f, SUBSET S)
<1> DEFINE Part(n) == {s \in SUBSET S : Cardinality(s) <= n}
           T == {n \in Nat : ~ \E g : Sums(g, f, Part(n))}
<1>1. \A s \in SUBSET S : IsFiniteSet(s) /\ Cardinality(s) \in Nat
  BY FS_Subset, FS_CardinalityType
<1>2. T = {}
  <2>1. SUFFICES ASSUME T # {} PROVE FALSE
    OBVIOUS
  <2>2. PICK n \in T : \A m \in Nat : m < n => m \notin T
    <3> HIDE DEF T
    <3>1. T \in SUBSET Nat
      BY DEF T
    <3>2. QED
      BY <2>1, <3>1, LeastNumber
  <2>3. CASE n = 0
    <3> DEFINE g == [s \in Part(0) |-> 0]
    <3>1. \A s \in Part(0) : s = {}
      BY <1>1, FS_EmptySet
    <3>2. Sums(g, f, Part(0))
      BY <3>1 DEF Sums
    <3>3. QED
      BY <2>3, <3>2
  <2>4. CASE n # 0
    <3>1. n - 1 \in Nat /\ n \in Nat /\ \E g : Sums(g, f, Part(n - 1))
      <4>1. n - 1 \in Nat /\ n \in Nat /\ n - 1 < n
        BY <2>4
      <4>2. n - 1 \notin T
        <5> HIDE DEF T
        <5>1. QED
          BY <2>2, <4>1
      <4>3. QED
        BY <4>1, <4>2
    <3>2. PICK g : Sums(g, f, Part(n - 1))
      BY <3>1
    <3> DEFINE Body(k, s) == IF s = {} THEN 0 ELSE f[Any(s)] + k[s \ {Any(s)}]
               h == [s \in Part(n) |-> Body(g, s)]
    <3>3. ASSUME NEW s \in Part(n) PROVE Body(g, s) = Body(h, s)
      <4>1. CASE s = {}
        BY <4>1
      <4>2. CASE s # {}
        <5> DEFINE t == s \ {Any(s)}
        <5>1. t \in Part(n - 1) /\ t \in Part(n)
          BY <1>1, <3>1, <4>2, WithoutAny
        <5>2. g[t] = Body(g, t)
          BY <3>2, <5>1 DEF Sums
        <5>3. h[t] = Body(g, t)
          BY <5>1
        <5> HIDE DEF h
        <5>4. g[t] = h[t]
          BY <5>2, <5>3
        <5>5. QED
          BY <4>2, <5>4
      <4>3. QED
        BY <4>1, <4>2
    <3>4. h = [s \in Part(n) |-> Body(h, s)]
      <4> HIDE DEF Body, Part
      <4>1. QED
        BY <3>3
    <3> HIDE DEF h
    <3>5. Sums(h, f, Part(n))
      BY <3>4 DEF Sums
    <3>6. QED
      BY <3>5
  <2>5. QED
    BY <2>3, <2>4
<1>3. Part(Cardinality(S)) = SUBSET S
  BY <1>1, FS_Subset
<1>4. Cardinality(S) \in Nat
  BY <1>1
<1> HIDE DEF Part
<1>5. QED
  BY <1>2, <1>3, <1>4

\* The sum over a finite set is what a solution of the recursion gives for it.
LEMMA SumIs ==
    ASSUME NEW f, NEW S, IsFiniteSet(S)
    PROVE  \E g : Sums(g, f, SUBSET S) /\ SumOf(f, S) = g[S]
<1> DEFINE g == CHOOSE h : Sums(h, f, SUBSET S)
<1>1. Sums(g, f, SUBSET S)
  BY SumsExist
<1>2. SumOf(f, S) = g[S]
  BY DEF SumOf, MapThenSumSet, MapThenFoldSet, Sums, Any
<1>3. QED
  BY <1>1, <1>2

\* A sum of naught is naught.
LEMMA SumOfZeros ==
    ASSUME NEW f, NEW S, IsFiniteSet(S), \A x \in S : f[x] = 0
    PROVE  SumOf(f, S) = 0
<1>1. PICK g : Sums(g, f, SUBSET S) /\ SumOf(f, S) = g[S]
  BY SumIs
<1> DEFINE T == {n \in Nat : \E s \in SUBSET S : Cardinality(s) = n /\ g[s] # 0}
<1>2. \A s \in SUBSET S : IsFiniteSet(s) /\ Cardinality(s) \in Nat
  BY FS_Subset, FS_CardinalityType
<1>3. T = {}
  <2>1. SUFFICES ASSUME T # {} PROVE FALSE
    OBVIOUS
  <2>2. PICK n \in T : \A m \in Nat : m < n => m \notin T
    <3> HIDE DEF T
    <3>1. T \in SUBSET Nat
      BY DEF T
    <3>2. QED
      BY <2>1, <3>1, LeastNumber
  <2>3. PICK s \in SUBSET S : Cardinality(s) = n /\ g[s] # 0
    BY <2>2
  <2>4. g[s] = IF s = {} THEN 0 ELSE f[Any(s)] + g[s \ {Any(s)}]
    BY <1>1 DEF Sums
  <2>5. s # {} /\ IsFiniteSet(s)
    BY <1>2, <2>3, <2>4
  <2> DEFINE t == s \ {Any(s)}
  <2>6. /\ Any(s) \in S /\ t \in SUBSET S
        /\ Cardinality(t) \in Nat /\ Cardinality(t) < n
    BY <1>2, <2>3, <2>5, WithoutAny
  <2>7. g[t] = 0
    <3>1. Cardinality(t) \notin T
      <4> HIDE DEF T, t
      <4>1. QED
        BY <2>2, <2>6
    <3>2. QED
      BY <2>6, <3>1
  <2>8. QED
    BY <2>3, <2>4, <2>5, <2>6, <2>7
<1>4. Cardinality(S) \in Nat /\ S \in SUBSET S
  BY <1>2
<1>5. QED
  BY <1>1, <1>3, <1>4

\* Where one of the numbers grows by one, the sum does.
LEMMA SumGrows ==
    ASSUME NEW S, IsFiniteSet(S), NEW f \in [S -> Nat], NEW a \in S,
           NEW f2, f2 = [f EXCEPT ![a] = @ + 1]
    PROVE  SumOf(f, S) \in Nat /\ SumOf(f2, S) = SumOf(f, S) + 1
<1>1. PICK g : Sums(g, f, SUBSET S) /\ SumOf(f, S) = g[S]
  BY SumIs
<1>2. PICK h : Sums(h, f2, SUBSET S) /\ SumOf(f2, S) = h[S]
  BY SumIs
<1> DEFINE Right(s) == g[s] \in Nat /\ h[s] = g[s] + (IF a \in s THEN 1 ELSE 0)
           T == {n \in Nat : \E s \in SUBSET S : Cardinality(s) = n /\ ~ Right(s)}
<1>3. \A s \in SUBSET S : IsFiniteSet(s) /\ Cardinality(s) \in Nat
  BY FS_Subset, FS_CardinalityType
<1>4. \A x \in S : f[x] \in Nat /\ f2[x] = f[x] + (IF x = a THEN 1 ELSE 0)
  OBVIOUS
<1>5. T = {}
  <2>1. SUFFICES ASSUME T # {} PROVE FALSE
    OBVIOUS
  <2>2. PICK n \in T : \A m \in Nat : m < n => m \notin T
    <3> HIDE DEF T
    <3>1. T \in SUBSET Nat
      BY DEF T
    <3>2. QED
      BY <2>1, <3>1, LeastNumber
  <2>3. PICK s \in SUBSET S : Cardinality(s) = n /\ ~ Right(s)
    BY <2>2
  <2>4. /\ g[s] = IF s = {} THEN 0 ELSE f[Any(s)] + g[s \ {Any(s)}]
        /\ h[s] = IF s = {} THEN 0 ELSE f2[Any(s)] + h[s \ {Any(s)}]
    BY <1>1, <1>2 DEF Sums
  <2>5. s # {} /\ IsFiniteSet(s)
    BY <1>3, <2>3, <2>4
  <2> DEFINE t == s \ {Any(s)}
  <2>6. /\ Any(s) \in s /\ Any(s) \in S /\ t \in SUBSET S
        /\ Cardinality(t) \in Nat /\ Cardinality(t) < n
    BY <1>3, <2>3, <2>5, WithoutAny
  <2>7. Right(t)
    <3>1. Cardinality(t) \notin T
      <4> HIDE DEF T, t
      <4>1. QED
        BY <2>2, <2>6
    <3> HIDE DEF Right, t
    <3>2. QED
      BY <2>6, <3>1
  <2>8. a \in s <=> a \in t \/ a = Any(s)
    BY <2>6
  <2>9. a = Any(s) => a \notin t
    OBVIOUS
  <2>10. /\ g[s] = f[Any(s)] + g[t]
         /\ h[s] = f2[Any(s)] + h[t]
    BY <2>4, <2>5
  <2>11. f[Any(s)] \in Nat /\ f2[Any(s)] = f[Any(s)] + (IF Any(s) = a THEN 1 ELSE 0)
    BY <1>4, <2>6
  <2> HIDE DEF t
  <2>12. Right(s)
    BY <2>7, <2>8, <2>9, <2>10, <2>11
  <2>13. QED
    BY <2>3, <2>12
<1>6. Cardinality(S) \in Nat /\ S \in SUBSET S
  BY <1>3
<1>7. Right(S)
  <2> HIDE DEF Right
  <2>1. QED
    BY <1>5, <1>6
<1>8. QED
  BY <1>1, <1>2, <1>7

-------------------------------------------------------------------------------
(* Sequences.                                                                 *)

\* A function on the first numbers is a sequence of that length.
LEMMA SequenceIs ==
    ASSUME NEW S, NEW n \in Nat, NEW f \in [1..n -> S]
    PROVE  f \in Seq(S) /\ Len(f) = n
<1>1. f \in Seq(S)
  BY SeqDef
<1>2. Len(f) \in Nat /\ 1..Len(f) = 1..n
  BY <1>1, LenProperties
<1>3. QED
  BY <1>1, <1>2

===============================================================================
