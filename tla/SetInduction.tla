----------------------------- MODULE SetInduction -----------------------------
(***************************************************************************)
(* Induction over the natural numbers for sets instead of predicates: the  *)
(* library's theorems take an operator as a parameter, which the provers   *)
(* cannot instantiate.  A set of numbers is an ordinary parameter.  What   *)
(* the recursive functions of the models compute is proved with it.        *)
(*                                                                         *)
(* The source is the library's theorem that strict inclusion is well       *)
(* founded on the finite subsets of a set.                                 *)
(***************************************************************************)
EXTENDS Naturals, FiniteSetTheorems, TLAPS

\* A set of numbers that is not empty has a least one: of the intervals that
\* end in an element, one contains no other.
LEMMA LeastNat ==
    ASSUME NEW T, T \subseteq Nat, T # {}
    PROVE  \E x \in T : \A y \in T : x <= y
  <1>1. PICK n \in T : TRUE
    OBVIOUS
  <1> DEFINE Below == 0 .. n
             Initial == {U \in SUBSET Below : \E m \in T : m <= n /\ U = 0 .. m}
  <1>2. FiniteSubsetsOf(Below) = SUBSET Below
    <2>1. IsFiniteSet(Below)
      BY FS_Interval
    <2> QED
      BY <2>1, FS_FiniteSubsetsOfFinite
  <1>3. IsWellFoundedOn(StrictSubsetOrdering(Below), SUBSET Below)
    BY <1>2, FS_StrictSubsetOrderingWellFounded
  <1>4. Initial \subseteq SUBSET Below /\ Initial # {}
    <2>1. Below \in Initial
      BY <1>1
    <2> QED
      BY <2>1
  <1>5. PICK U \in Initial :
          \A V \in Initial : <<V, U>> \notin StrictSubsetOrdering(Below)
    <2> HIDE DEF Initial, Below
    <2> QED
      BY <1>3, <1>4, WFMin
  <1>6. PICK m \in T : m <= n /\ U = 0 .. m
    OBVIOUS
  <1>7. ASSUME NEW y \in T, y < m PROVE FALSE
    <2>1. 0 .. y \in Initial
      BY <1>6, <1>7
    <2>2. 0 .. y \subseteq U /\ 0 .. y # U
      BY <1>6, <1>7
    <2>3. <<0 .. y, U>> \in StrictSubsetOrdering(Below)
      BY <2>1, <2>2 DEF StrictSubsetOrdering
    <2> QED
      BY <1>5, <2>1, <2>3
  <1> QED
    BY <1>6, <1>7

\* Induction: a set with 0 and every successor has every number.
LEMMA NatSetInduction ==
    ASSUME NEW S, 0 \in S, \A n \in Nat : n \in S => n + 1 \in S
    PROVE  Nat \subseteq S
  <1> SUFFICES ASSUME Nat \ S # {} PROVE FALSE
    OBVIOUS
  <1>1. PICK x \in Nat \ S : \A y \in Nat \ S : x <= y
    <2> DEFINE T == Nat \ S
    <2>1. T \subseteq Nat /\ T # {}
      OBVIOUS
    <2> HIDE DEF T
    <2>2. \E x \in T : \A y \in T : x <= y
      BY <2>1, LeastNat
    <2> QED
      BY <2>2 DEF T
  <1>2. x - 1 \in Nat /\ x - 1 \in S
    BY <1>1
  <1> QED
    BY <1>1, <1>2

\* Induction over the indices of a sequence.
LEMMA IndexInduction ==
    ASSUME NEW n \in Nat, NEW S, 1 \in S,
           \A i \in 1 .. n : i \in S /\ i < n => i + 1 \in S
    PROVE  1 .. n \subseteq S
  <1> DEFINE K == {k \in Nat : k + 1 <= n => k + 1 \in S}
  <1>1. 0 \in K /\ \A k \in Nat : k \in K => k + 1 \in K
    OBVIOUS
  <1> HIDE DEF K
  <1>2. Nat \subseteq K
    BY <1>1, NatSetInduction
  <1> QED
    <2>1. ASSUME NEW i \in 1 .. n PROVE i \in S
      <3>1. i - 1 \in K
        BY <1>2
      <3> QED
        BY <3>1 DEF K
    <2> QED
      BY <2>1

=============================================================================
