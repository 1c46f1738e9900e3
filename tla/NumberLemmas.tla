---------------------------- MODULE NumberLemmas ----------------------------
(***************************************************************************)
(* What the proofs about the last entry of a table rest on.                *)
(***************************************************************************)
EXTENDS Naturals, WellFoundedInduction, TLAPS

\* A bounded set of numbers has a largest one: the last entry on a bug in _repairs
\* and the latest of the current facts of a field exist when there is one at all.
LEMMA LargestNumber ==
  ASSUME NEW n \in Nat, NEW S \in SUBSET (1..n), S # {}
  PROVE  \E m \in S : \A j \in S : j <= m
  <1> DEFINE T == {n - i : i \in S}
  <1>1. T \subseteq Nat /\ T # {}
    <2>1. \A i \in S : i \in 1..n /\ n - i \in Nat
      OBVIOUS
    <2>2. \E i \in S : n - i \in T
      OBVIOUS
    <2> QED
      BY <2>1, <2>2
  <1>2. PICK t \in T : \A u \in T : t <= u
    <2> DEFINE R == OpToRel(<, Nat)
    <2>1. \A u, t \in Nat : <<u, t>> \in R <=> u < t
      BY Zenon DEF OpToRel
    <2>2. \E t \in T : \A u \in T : <<u, t>> \notin R
      <3> HIDE DEF R, T
      <3> QED
        BY <1>1, NatLessThanWellFounded, WFMin, Zenon DEF R
    <2> HIDE DEF R, T
    <2>3. PICK t \in T : \A u \in T : <<u, t>> \notin R
      BY <2>2
    <2>4. \A u \in T : t \in Nat /\ u \in Nat /\ ~(u < t)
      BY <1>1, <2>1, <2>3
    <2>5. \A u \in T : t <= u
      BY <2>4
    <2> QED
      BY <2>5
  <1>3. PICK m \in S : t = n - m
    OBVIOUS
  <1>4. ASSUME NEW j \in S PROVE j <= m
    <2>1. n - m <= n - j
      BY <1>2, <1>3
    <2> QED
      BY <2>1
  <1> QED
    BY <1>4
=============================================================================
