----------------------------- MODULE WellOrder -----------------------------
(***************************************************************************)
(* What the other proofs know of the order of the natural numbers: a set   *)
(* of them that is not empty has a least element.  It stands in for        *)
(* induction: of the numbers for which a claim fails, look at the least.   *)
(***************************************************************************)
EXTENDS Integers, WellFoundedInduction, TLAPS

\* The least counterexample.
LEMMA LeastNatural ==
    ASSUME NEW S, S \subseteq Nat, S # {}
    PROVE  \E x \in S : \A y \in S : x <= y
<1> DEFINE R == OpToRel(<, Nat)
<1>1. IsWellFoundedOn(R, Nat)
  BY NatLessThanWellFounded, Zenon
<1>2. \A a, b \in Nat : a < b => <<a, b>> \in R
  BY DEF OpToRel
<1> HIDE DEF R
<1>3. PICK x \in S : \A y \in S : ~ (<<y, x>> \in R)
  BY <1>1, WFMin, Zenon
<1>4. \A y \in S : ~ (y < x)
  BY <1>2, <1>3
<1> QED
  BY <1>4

\* Induction over a set of numbers, without a predicate to pass: a set that holds 0 and
\* with each number the next one holds all.
LEMMA FromZeroOn ==
    ASSUME NEW S, 0 \in S, \A n \in Nat : n \in S => n + 1 \in S
    PROVE  Nat \subseteq S
<1> SUFFICES ASSUME Nat \ S # {} PROVE FALSE
  OBVIOUS
<1>1. PICK n \in Nat \ S : \A m \in Nat \ S : n <= m
  BY LeastNatural
<1>2. n - 1 \in Nat /\ n - 1 \in S
  BY <1>1
<1> QED
  BY <1>1, <1>2
=============================================================================
