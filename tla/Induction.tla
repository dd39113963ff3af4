----------------------------- MODULE Induction -----------------------------
(***************************************************************************)
(* Induction over the numbers, for sets of them, and what it gives of the  *)
(* functions that the modules define by recursion: that there is one, and  *)
(* one only.  Loops of the code over links and characters are such         *)
(* functions.                                                              *)
(***************************************************************************)
EXTENDS Integers, Sequences, FiniteSetTheorems, WellFoundedInduction, TLAPS

\* A set of numbers has a least one: an interval from 0 has finitely many subsets, and
\* among the intervals that end in the set one is contained in the others.
LEMMA LeastNat ==
  ASSUME NEW S, S \subseteq Nat, S # {}
  PROVE  \E n \in S : \A m \in S : n <= m
<1>1. PICK top \in S : TRUE
  OBVIOUS
<1> DEFINE T == {0..m : m \in {k \in S : k <= top}}
<1>2. IsWellFoundedOn(StrictSubsetOrdering(0..top), SUBSET (0..top))
  <2>1. IsFiniteSet(0..top)
    BY <1>1, FS_Interval
  <2> QED
    BY <2>1, FS_FiniteSubsetsOfFinite, FS_StrictSubsetOrderingWellFounded
<1>3. T \subseteq SUBSET (0..top) /\ T # {}
  BY <1>1
<1>4. PICK x \in T : \A y \in T : <<y, x>> \notin StrictSubsetOrdering(0..top)
  <2> HIDE DEF T
  <2> QED
    BY <1>2, <1>3, WFMin
<1>5. PICK n \in S : n <= top /\ x = 0..n
  BY <1>4
<1>6. ASSUME NEW m \in S, m < n PROVE FALSE
  <2>1. 0..m \in T /\ 0..m \subseteq x /\ 0..m # x
    BY <1>1, <1>5, <1>6
  <2>2. <<0..m, x>> \in StrictSubsetOrdering(0..top)
    BY <1>3, <1>4, <2>1 DEF StrictSubsetOrdering
  <2> QED
    BY <1>4, <2>1, <2>2
<1> QED
  BY <1>5, <1>6

\* A bounded set of numbers has a greatest one.
LEMMA GreatestNat ==
  ASSUME NEW top \in Nat, NEW S, S \subseteq 0..top, S # {}
  PROVE  \E n \in S : \A m \in S : m <= n
<1> DEFINE T == {top - m : m \in S}
<1>0. \A m \in S : m \in Nat /\ top - m \in Nat
  OBVIOUS
<1>1. T \subseteq Nat /\ T # {}
  BY <1>0
<1>2. PICK t \in T : \A u \in T : t <= u
  <2> HIDE DEF T
  <2> QED
    BY <1>1, LeastNat
<1>3. PICK n \in S : t = top - n
  OBVIOUS
<1>4. ASSUME NEW m \in S PROVE m <= n
  <2>1. top - m \in T
    OBVIOUS
  <2>2. top - n <= top - m
    BY <1>2, <1>3, <2>1
  <2> QED
    BY <1>0, <2>2
<1> QED
  BY <1>4

\* The induction principle.
LEMMA NatSet ==
  ASSUME NEW S, 0 \in S, \A n \in Nat : n \in S => n + 1 \in S
  PROVE  Nat \subseteq S
<1>1. SUFFICES ASSUME Nat \ S # {} PROVE FALSE
  OBVIOUS
<1>2. PICK n \in Nat \ S : \A m \in Nat \ S : n <= m
  BY <1>1, LeastNat
<1>3. n # 0 /\ n - 1 \in Nat
  BY <1>2
<1>4. n - 1 \in S
  BY <1>2, <1>3
<1> QED
  BY <1>2, <1>3, <1>4

\* f is what the recursion over 0..top from base by step computes, in T.
Computes(f, T, base, top, step) ==
  /\ f \in [0..top -> T]
  /\ f[0] = base
  /\ \A n \in 1..top : f[n] = step[<<n, f[n - 1]>>]

\* A recursion whose step is total has a solution.
LEMMA RecursionExists ==
  ASSUME NEW T, NEW base \in T, NEW top \in Nat, NEW step \in [(1..top) \X T -> T]
  PROVE  \E f : Computes(f, T, base, top, step)
<1> DEFINE Solves(f, k) == f[0] = base /\ \A n \in 1..k : f[n] = step[<<n, f[n - 1]>>]
           S == {k \in Nat : k <= top => \E f \in [0..k -> T] : Solves(f, k)}
<1>1. 0 \in S
  <2>1. [n \in 0..0 |-> base] \in [0..0 -> T] /\ Solves([n \in 0..0 |-> base], 0)
    OBVIOUS
  <2> QED
    BY <2>1
<1>2. ASSUME NEW k \in Nat, k \in S PROVE k + 1 \in S
  <2>1. SUFFICES ASSUME k + 1 <= top PROVE \E f \in [0..(k + 1) -> T] : Solves(f, k + 1)
    OBVIOUS
  <2>2. PICK f \in [0..k -> T] : Solves(f, k)
    BY <1>2, <2>1
  <2> DEFINE g == [n \in 0..(k + 1) |-> IF n = k + 1 THEN step[<<k + 1, f[k]>>] ELSE f[n]]
  <2>3. g \in [0..(k + 1) -> T]
    BY <2>1, <2>2
  <2>4. Solves(g, k + 1)
    <3>1. g[0] = base
      BY <2>2
    <3>2. ASSUME NEW n \in 1..k PROVE g[n] = step[<<n, g[n - 1]>>]
      <4>1. n - 1 \in 0..k /\ n # k + 1 /\ n - 1 # k + 1 /\ n \in 0..(k + 1) /\ n - 1 \in 0..(k + 1)
        OBVIOUS
      <4>2. g[n] = f[n] /\ g[n - 1] = f[n - 1]
        BY <4>1
      <4> QED
        BY <2>2, <4>2
    <3>3. g[k + 1] = step[<<k + 1, g[(k + 1) - 1]>>]
      <4>1. (k + 1) - 1 = k /\ k # k + 1 /\ k \in 0..(k + 1) /\ k + 1 \in 0..(k + 1)
        OBVIOUS
      <4> QED
        BY <4>1
    <3>4. \A n \in 1..(k + 1) : n \in 1..k \/ n = k + 1
      OBVIOUS
    <3> HIDE DEF g
    <3>5. \A n \in 1..(k + 1) : g[n] = step[<<n, g[n - 1]>>]
      BY <3>2, <3>3, <3>4, Zenon
    <3> QED
      BY <3>1, <3>5
  <2> QED
    BY <2>3, <2>4
<1>3. top \in S
  <2> HIDE DEF S
  <2> QED
    BY <1>1, <1>2, NatSet
<1> QED
  BY <1>3 DEF Computes

\* An enumeration without repetition is no longer than the set.
LEMMA EnumerationBound ==
  ASSUME NEW S, IsFiniteSet(S), NEW n \in Nat, NEW l \in [1..n -> S],
         \A i, j \in 1..n : l[i] = l[j] => i = j
  PROVE  n <= Cardinality(S)
<1>1. IsFiniteSet(1..n) /\ Cardinality(1..n) = n /\ Cardinality(S) \in Nat
  BY FS_Interval, FS_CardinalityType
<1>2. l \in Injection(1..n, S)
  BY DEF Injection, IsInjective
<1> QED
  BY <1>1, <1>2, FS_Injection
=============================================================================
