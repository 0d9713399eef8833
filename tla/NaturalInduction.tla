--------------------------- MODULE NaturalInduction ---------------------------
(***************************************************************************)
(* Induction over the natural numbers, stated for sets of numbers instead  *)
(* of predicates, so that it can be cited for a particular set.            *)
(***************************************************************************)
EXTENDS Integers, WellFoundedInduction, TLAPS

Below == {pair \in Nat \X Nat : pair[1] < pair[2]}

LEMMA BelowIsWellFounded == IsWellFoundedOn(Below, Nat)
  BY NatLessThanWellFounded, Zenon DEF OpToRel, Below

(* A set of natural numbers that is not empty has a least element.         *)
THEOREM LeastNumber ==
    ASSUME NEW S, S \subseteq Nat, S # {}
    PROVE  \E n \in S : \A m \in S : n <= m
<1>1. PICK n \in S : \A m \in S : <<m, n>> \notin Below
  BY BelowIsWellFounded, WFMin
<1>2. \A m \in S : ~(m < n)
  BY <1>1 DEF Below
<1>. QED BY <1>1, <1>2

(* A set that holds 0 and with each number the next one holds them all.    *)
THEOREM Induction ==
    ASSUME NEW S, 0 \in S, \A n \in Nat : n \in S => n + 1 \in S
    PROVE  Nat \subseteq S
<1> DEFINE Rest == Nat \ S
<1>1. SUFFICES ASSUME Rest # {} PROVE FALSE
  OBVIOUS
<1>2. PICK n \in Rest : \A m \in Rest : n <= m
  <2>1. Rest \subseteq Nat
    OBVIOUS
  <2> HIDE DEF Rest
  <2>. QED BY <1>1, <2>1, LeastNumber
<1>3. n \in Nat \ {0} /\ n \notin S
  BY <1>2
<1>4. n - 1 \in Nat /\ n - 1 \notin Rest
  BY <1>2, <1>3
<1>5. n - 1 \in S /\ (n - 1) + 1 = n
  BY <1>3, <1>4
<1>. QED BY <1>3, <1>4, <1>5
=============================================================================
