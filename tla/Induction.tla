------------------------------ MODULE Induction ------------------------------
(***************************************************************************)
(* Induction on the natural numbers, for sets instead of predicates.  The  *)
(* induction theorems of the library have an operator as a parameter; that *)
(* < is well-founded on Nat has none, and gives the same for subsets.      *)
(***************************************************************************)
EXTENDS Naturals, WellFoundedInduction, TLAPS

LEMMA NatOrder == IsWellFoundedOn({z \in Nat \X Nat : z[1] < z[2]}, Nat)
BY NatLessThanWellFounded, Zenon DEF OpToRel

\* A nonempty set of natural numbers has a least element.
LEMMA LeastNumber ==
    ASSUME NEW S \in SUBSET Nat, S # {}
    PROVE  \E m \in S : \A k \in S : m <= k
<1> DEFINE R == {z \in Nat \X Nat : z[1] < z[2]}
<1>1. IsWellFoundedOn(R, Nat)
  BY NatOrder
<1> HIDE DEF R
<1>2. PICK m \in S : \A k \in S : <<k, m>> \notin R
  BY <1>1, WFMin
<1>3. ASSUME NEW k \in S PROVE m <= k
  <2>1. <<k, m>> \notin R /\ k \in Nat /\ m \in Nat
    BY <1>2
  <2>2. <<k, m>>[1] = k /\ <<k, m>>[2] = m /\ <<k, m>> \in Nat \X Nat
    BY <2>1
  <2>3. ~(k < m)
    BY <2>1, <2>2 DEF R
  <2>. QED BY <2>1, <2>3
<1>. QED BY <1>3

\* A set of natural numbers with 0 and every successor has them all.
THEOREM NatSetInduction ==
    ASSUME NEW S \in SUBSET Nat, 0 \in S, \A n \in S : n + 1 \in S
    PROVE  S = Nat
<1> SUFFICES ASSUME Nat \ S # {} PROVE FALSE
  OBVIOUS
<1>1. PICK m \in Nat \ S : \A k \in Nat \ S : m <= k
  BY LeastNumber
<1>2. m - 1 \in S
  BY <1>1
<1>. QED BY <1>1, <1>2
=============================================================================
