------------------------------ MODULE NatLemmas ------------------------------
(***************************************************************************)
(* Facts about the naturals that several proofs cite.                      *)
(***************************************************************************)
EXTENDS Integers, WellFoundedInduction, TLAPS

(* Induction over the naturals as a fact about a set: the lemmas about loops
   use it with the set of the lengths for which their claim holds. *)
LEMMA SetInduction ==
    ASSUME NEW S, 0 \in S, \A n \in Nat : n \in S => n + 1 \in S
    PROVE  \A n \in Nat : n \in S
<1> DEFINE R == OpToRel(<, Nat)
           T == Nat \ S
<1>1. IsWellFoundedOn(R, Nat)
  BY NatLessThanWellFounded
<1>2. \A x, y \in Nat : <<x, y>> \in R <=> x < y
  BY DEF OpToRel
<1> HIDE DEF R
<1> SUFFICES ASSUME T # {} PROVE FALSE
  OBVIOUS
<1>3. PICK x \in T : \A y \in T : ~(<<y, x>> \in R)
  BY <1>1, WFMin
<1>4. x \in Nat /\ x # 0 /\ x \notin S
  OBVIOUS
<1>5. x - 1 \in Nat /\ x - 1 < x /\ (x - 1) + 1 = x
  BY <1>4
<1>6. x - 1 \in S
  BY <1>2, <1>3, <1>4, <1>5
<1> QED
  BY <1>4, <1>5, <1>6

(* Multiplication by a natural keeps an order. *)
LEMMA TimesMonotone ==
    ASSUME NEW x \in Int, NEW y \in Int, NEW k \in Nat, x <= y
    PROVE  x * k <= y * k
OBVIOUS

(* What a division rounded down leaves can be multiplied back. *)
LEMMA DivTimes ==
    ASSUME NEW x \in Nat, NEW k \in Nat \ {0}, NEW n \in Int, n <= x \div k
    PROVE  n * k <= x
OBVIOUS

(* What is left after something is taken away, of a sum and of a part of it. *)
LEMMA TakenAway ==
    ASSUME NEW whole \in Int, NEW rest \in Int, NEW x \in Nat, rest + x = whole
    PROVE  /\ rest <= whole
           /\ \A sum, less \in Int : sum >= whole /\ sum = less + x => less >= rest
OBVIOUS

=============================================================================
