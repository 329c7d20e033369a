---------------------------- MODULE Maxima_proofs ----------------------------
(***************************************************************************)
(* The greatest and the least number of a set: the last row of a log, the  *)
(* newest run of a filing, the first filing of a queue.                    *)
(***************************************************************************)
EXTENDS Naturals, FiniteSetsExt, FiniteSetTheorems, WellFoundedInduction, TLAPS

\* A set of naturals has a least element.
LEMMA LeastNatural ==
    ASSUME NEW T, T \subseteq Nat, T # {}
    PROVE  Min(T) \in T /\ \A m \in T : Min(T) <= m
  <1>1. PICK n \in T : \A m \in T : <<m, n>> \notin OpToRel(<, Nat)
    BY NatLessThanWellFounded, WFMin
  <1>2. \A m \in T : ~(m < n)
    BY <1>1 DEF OpToRel
  <1>3. \A m \in T : n <= m
    BY <1>2
  <1>. QED BY <1>3 DEF Min

\* The greatest element is the one that bounds the others.
LEMMA MaxIs ==
    ASSUME NEW n \in Nat, NEW S, n \in S, \A j \in S : j \in Nat /\ j <= n
    PROVE  Max(S) = n
  <1>1. \A y \in S : n >= y
    OBVIOUS
  <1>2. \A x \in S : (\A y \in S : x >= y) => x = n
    OBVIOUS
  <1>. QED BY <1>1, <1>2 DEF Max

\* A bounded set of numbers has a greatest: its least bound, or the bound below would do.
LEMMA BoundedMax ==
    ASSUME NEW S, S \subseteq Nat, S # {}, NEW b \in Nat, \A s \in S : s <= b
    PROVE  Max(S) \in S /\ \A s \in S : s <= Max(S)
  <1>. DEFINE Bounds == {n \in Nat : \A s \in S : s <= n}
  <1>1. PICK n \in Bounds : \A m \in Bounds : n <= m
    <2>1. Bounds \subseteq Nat /\ Bounds # {}
      OBVIOUS
    <2>. QED BY <2>1, LeastNatural
  <1>2. n \in S
    <2>. SUFFICES ASSUME n \notin S PROVE FALSE
      OBVIOUS
    <2>1. \A s \in S : s < n
      BY <1>1
    <2>2. PICK s \in S : s \in Nat /\ s < n
      BY <2>1
    <2>3. n - 1 \in Nat /\ \A x \in S : x <= n - 1
      BY <2>1, <2>2
    <2>. QED BY <1>1, <2>3
  <1>3. Max(S) = n
    BY <1>1, <1>2, MaxIs
  <1>. QED BY <1>1, <1>2, <1>3

\* A finite set of numbers is bounded: a smallest set that is not would lose its bound with
\* any one of its elements.
LEMMA FiniteIsBounded ==
    ASSUME NEW S, IsFiniteSet(S), S \subseteq Nat
    PROVE  \E b \in Nat : \A s \in S : s <= b
  <1>. DEFINE Unbounded == {T \in SUBSET S : ~\E b \in Nat : \A s \in T : s <= b}
  <1>. SUFFICES ASSUME Unbounded # {} PROVE FALSE
    OBVIOUS
  <1>1. PICK T \in Unbounded : \A R \in Unbounded : <<R, T>> \notin StrictSubsetOrdering(S)
    <2>1. IsWellFoundedOn(StrictSubsetOrdering(S), SUBSET S)
      BY FS_StrictSubsetOrderingWellFounded, FS_FiniteSubsetsOfFinite
    <2>2. Unbounded \subseteq SUBSET S
      OBVIOUS
    <2>. QED BY <2>1, <2>2, WFMin
  <1>2. PICK x \in T : TRUE
    BY <1>1
  <1>3. T \ {x} \notin Unbounded
    BY <1>1, <1>2 DEF StrictSubsetOrdering
  <1>4. PICK b \in Nat : \A s \in T \ {x} : s <= b
    BY <1>3
  <1>5. \A s \in T : s <= b + x
    BY <1>4
  <1>. QED BY <1>1, <1>5

\* A finite set of naturals has a greatest element.
LEMMA FiniteMax ==
    ASSUME NEW S, IsFiniteSet(S), S \subseteq Nat, S # {}
    PROVE  Max(S) \in S /\ \A s \in S : s <= Max(S)
  BY FiniteIsBounded, BoundedMax
=============================================================================
