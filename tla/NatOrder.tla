------------------------------ MODULE NatOrder ------------------------------
(***************************************************************************)
(* Least and greatest elements of sets of naturals: what the proofs use in *)
(* place of induction.                                                     *)
(***************************************************************************)
EXTENDS Integers, FiniteSets, FiniteSetTheorems, TLAPS

\* A set of naturals has a least element: the intervals 0..n for n in S are
\* finite sets, which the strict subset relation orders well.
LEMMA LeastNat ==
  ASSUME NEW S \in SUBSET Nat, S # {}
  PROVE  \E n \in S : \A m \in S : n <= m
<1> DEFINE I == {0..n : n \in S}
<1>1. I \subseteq FiniteSubsetsOf(Nat) /\ I # {}
  <2>1. \A n \in S : IsFiniteSet(0..n) /\ 0..n \subseteq Nat
    BY FS_Interval
  <2> QED
    BY <2>1 DEF FiniteSubsetsOf
<1>2. PICK x \in I : \A y \in I : ~(<<y, x>> \in StrictSubsetOrdering(Nat))
  <2> HIDE DEF I
  <2> QED
    BY <1>1, FS_StrictSubsetOrderingWellFounded, WFMin
<1>3. PICK n \in S : x = 0..n
  OBVIOUS
<1>4. ASSUME NEW m \in S PROVE n <= m
  <2>1. 0..m \in I /\ 0..n \in I /\ 0..m \subseteq Nat /\ 0..n \subseteq Nat
    OBVIOUS
  <2>2. ~(0..m \subseteq 0..n /\ 0..m # 0..n)
    BY <1>2, <1>3, <2>1 DEF StrictSubsetOrdering
  <2>3. CASE m < n
    <3>1. 0..m \subseteq 0..n /\ n \in 0..n /\ n \notin 0..m
      BY <2>3
    <3> QED
      BY <2>2, <3>1
  <2> QED
    BY <2>3
<1> QED
  BY <1>4

\* A bounded set of naturals has a greatest element.
LEMMA GreatestNat ==
  ASSUME NEW b \in Nat, NEW S \in SUBSET (0..b), S # {}
  PROVE  \E n \in S : \A m \in S : m <= n
<1> DEFINE D == {b - n : n \in S}
<1>1. D \in SUBSET Nat /\ D # {}
  <2>1. \A n \in S : b - n \in Nat
    OBVIOUS
  <2> QED
    BY <2>1, Zenon
<1>2. PICK d \in D : \A e \in D : d <= e
  <2> HIDE DEF D
  <2> QED
    BY <1>1, LeastNat
<1>3. PICK n \in S : d = b - n
  OBVIOUS
<1>4. ASSUME NEW m \in S PROVE m <= n
  <2>1. b - n <= b - m
    BY <1>2, <1>3
  <2> QED
    BY <2>1
<1> QED
  BY <1>4
=============================================================================
