------------------------------ MODULE WellOrder ------------------------------
(***************************************************************************)
(* Two facts about the natural numbers that the proofs need: a set of them *)
(* that is not empty has a least element, and a set that holds 0 and the   *)
(* successor of each of its elements holds all of them.  The induction     *)
(* theorems of the library take an operator; here a set takes its place.   *)
(***************************************************************************)
EXTENDS Integers, FiniteSets, TLAPS, WellFoundedInduction, FiniteSetTheorems

\* A number is below another when its interval is a strict part of the other's,
\* and the finite sets are well-founded by that.
LEMMA LeastNatural ==
    ASSUME NEW S, S \subseteq Nat, S # {}
    PROVE  \E n \in S : \A m \in S : n <= m
<1> DEFINE T == {1 .. n : n \in S}
<1>1. IsWellFoundedOn(StrictSubsetOrdering(Nat), FiniteSubsetsOf(Nat))
  BY FS_StrictSubsetOrderingWellFounded
<1>2. T \subseteq FiniteSubsetsOf(Nat) /\ T # {}
  <2>1. \A n \in S : 1 .. n \subseteq Nat /\ IsFiniteSet(1 .. n)
    BY FS_Interval
  <2> QED
    BY <2>1 DEF FiniteSubsetsOf
<1>3. PICK x \in T : \A y \in T : <<y, x>> \notin StrictSubsetOrdering(Nat)
  BY <1>1, <1>2, WFMin
<1>4. PICK n \in S : x = 1 .. n
  OBVIOUS
<1>5. ASSUME NEW m \in S, m < n PROVE FALSE
  <2>1. 1 .. m \in T /\ (1 .. m) \subseteq (1 .. n) /\ n \in 1 .. n /\ n \notin 1 .. m
    BY <1>5
  <2>2. <<1 .. m, 1 .. n>> \in StrictSubsetOrdering(Nat)
    BY <2>1 DEF StrictSubsetOrdering
  <2> QED
    BY <2>1, <2>2, <1>3, <1>4
<1> QED
  BY <1>5

\* The same from above, when there is a bound.
LEMMA GreatestNatural ==
    ASSUME NEW S, S \subseteq Nat, S # {}, NEW bound \in Nat, \A m \in S : m <= bound
    PROVE  \E n \in S : \A m \in S : m <= n
<1> DEFINE T == {bound - m : m \in S}
<1>1. T \subseteq Nat /\ T # {}
  <2>1. \A m \in S : m \in Nat /\ bound - m \in Nat
    OBVIOUS
  <2> QED
    BY <2>1
<1>2. PICK t \in T : \A u \in T : t <= u
  BY <1>1, LeastNatural
<1>3. PICK n \in S : t = bound - n
  OBVIOUS
<1>4. ASSUME NEW m \in S PROVE m <= n
  <2>1. bound - m \in T /\ m \in Nat /\ n \in Nat
    OBVIOUS
  <2>2. bound - n <= bound - m
    BY <1>2, <1>3, <2>1
  <2> QED
    BY <2>1, <2>2
<1> QED
  BY <1>4

\* Induction, with a set for the formula.
LEMMA NaturalInduction ==
    ASSUME NEW S, 0 \in S, \A n \in Nat : n \in S => n + 1 \in S
    PROVE  Nat \subseteq S
<1> DEFINE B == {n \in Nat : n \notin S}
<1>1. ASSUME B # {} PROVE FALSE
  <2>1. PICK n \in B : \A m \in B : n <= m
    BY <1>1, LeastNatural
  <2>2. n # 0 /\ n - 1 \in Nat /\ n - 1 \notin B
    BY <2>1
  <2> QED
    BY <2>1, <2>2
<1> QED
  BY <1>1
=============================================================================
