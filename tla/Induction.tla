----------------------------- MODULE Induction -----------------------------
(***************************************************************************)
(* Induction over the natural numbers for one set: the proofs that follow  *)
(* sequences from one end to the other take the set of the lengths for     *)
(* which their statement holds.  The library's theorem takes an operator,  *)
(* which no prover here can instantiate; this one is proved from the       *)
(* well-foundedness of the subsets of a finite set.                        *)
(***************************************************************************)
EXTENDS Integers, FiniteSetTheorems, TLAPS

LEMMA SetInduction ==
    ASSUME NEW S, 0 \in S, \A n \in S \cap Nat : n + 1 \in S, NEW n \in Nat
    PROVE  n \in S
<1> SUFFICES ASSUME n \notin S PROVE FALSE
  OBVIOUS
<1> DEFINE F == {0 .. k : k \in (0 .. n) \ S}
<1>1. F \in SUBSET (SUBSET (0 .. n)) /\ F # {}
  OBVIOUS
<1>2. IsWellFoundedOn(StrictSubsetOrdering(0 .. n), SUBSET (0 .. n))
  <2>1. IsFiniteSet(0 .. n)
    BY FS_Interval
  <2>2. FiniteSubsetsOf(0 .. n) = SUBSET (0 .. n)
    BY <2>1, FS_FiniteSubsetsOfFinite
  <2> QED
    BY <2>2, FS_StrictSubsetOrderingWellFounded
<1>3. PICK X \in F : \A Y \in F : ~(<<Y, X>> \in StrictSubsetOrdering(0 .. n))
  <2> HIDE DEF F
  <2>1. F \subseteq SUBSET (0 .. n)
    BY <1>1
  <2> QED
    BY <2>1, <1>1, <1>2, WFMin
<1>4. PICK k \in (0 .. n) \ S : X = 0 .. k
  BY <1>3
<1>5. k # 0 /\ k - 1 \in 0 .. n /\ k - 1 \notin S
  <2>1. k \in Nat /\ k <= n /\ k # 0 /\ k \notin S
    BY <1>4
  <2>2. k - 1 \in Nat /\ (k - 1) + 1 = k
    BY <2>1
  <2>3. k - 1 \notin S
    BY <2>1, <2>2
  <2> QED
    BY <2>1, <2>3
<1>6. <<0 .. k - 1, 0 .. k>> \in StrictSubsetOrdering(0 .. n)
  BY <1>4, <1>5 DEF StrictSubsetOrdering
<1>7. 0 .. k - 1 \in F
  BY <1>5
<1> QED
  BY <1>3, <1>4, <1>6, <1>7
=============================================================================
