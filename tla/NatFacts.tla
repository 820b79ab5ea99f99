------------------------------- MODULE NatFacts -------------------------------
(***************************************************************************)
(* Facts about the natural numbers that the proofs of several modules use. *)
(***************************************************************************)
EXTENDS Integers, FiniteSetTheorems, TLAPS

\* A set of naturals has a least member; intervals 0..n ordered by inclusion.
LEMMA LeastMember ==
    ASSUME NEW S \in SUBSET Nat, S # {}
    PROVE  \E m \in S : \A k \in S : m <= k
<1> DEFINE T == {0 .. m : m \in S}
<1>1. IsWellFoundedOn(StrictSubsetOrdering(Nat), FiniteSubsetsOf(Nat))
  BY FS_StrictSubsetOrderingWellFounded
<1>2. T \subseteq FiniteSubsetsOf(Nat) /\ T # {}
  <2>1. \A m \in S : IsFiniteSet(0 .. m)
    BY FS_Interval
  <2>2. \A m \in S : 0 .. m \in FiniteSubsetsOf(Nat)
    BY <2>1 DEF FiniteSubsetsOf
  <2>3. QED BY <2>2
<1> HIDE DEF T
<1>3. PICK x \in T : \A y \in T : ~(<<y, x>> \in StrictSubsetOrdering(Nat))
  BY <1>1, <1>2, WFMin
<1> USE DEF T
<1>4. PICK m \in S : x = 0 .. m
  BY <1>3
<1>5. ASSUME NEW k \in S, k < m PROVE FALSE
  <2>1. 0 .. k \in T /\ 0 .. k \subseteq x /\ 0 .. k # x
    <3>1. m \in 0 .. m /\ m \notin 0 .. k
      BY <1>5
    <3>2. QED BY <1>4, <1>5, <3>1
  <2>2. <<0 .. k, x>> \in StrictSubsetOrdering(Nat)
    <3>1. 0 .. k \in SUBSET Nat /\ x \in SUBSET Nat
      BY <1>4
    <3>2. QED BY <2>1, <3>1 DEF StrictSubsetOrdering
  <2>3. QED BY <1>3, <2>1, <2>2
<1>6. \A k \in S : m <= k
  BY <1>5
<1>7. QED BY <1>6
===============================================================================
