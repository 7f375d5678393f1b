------------------------------ MODULE NatFacts ------------------------------
(***************************************************************************)
(* What the proofs need to know of the natural numbers, of quotients and   *)
(* products, and of Min of the community modules.                          *)
(***************************************************************************)
EXTENDS Integers, FiniteSetsExt, WellFoundedInduction, TLAPS

\* A non-empty set of natural numbers has a least member.
LEMMA LeastMember ==
    ASSUME NEW S \in SUBSET Nat, S # {}
    PROVE  \E x \in S : \A y \in S : x <= y
<1> DEFINE R == {ss \in Nat \X Nat : ss[1] < ss[2]}
<1>1. IsWellFoundedOn(R, Nat)
  BY NatLessThanWellFounded DEF OpToRel
<1> HIDE DEF R
<1>2. PICK x \in S : \A y \in S : ~ (<<y, x>> \in R)
  BY <1>1, WFMin
<1>3. \A y \in S : ~ (y < x)
  BY <1>2 DEF R
<1> QED BY <1>3

LEMMA MinIsMember ==
    ASSUME NEW S \in SUBSET Nat, S # {}
    PROVE  Min(S) \in S /\ \A y \in S : Min(S) <= y
BY LeastMember DEF Min

\* A non-empty set of bounded natural numbers has a greatest member.
LEMMA GreatestMember ==
    ASSUME NEW n \in Nat, NEW S \in SUBSET (0..n), S # {}
    PROVE  \E x \in S : \A y \in S : y <= x
<1> DEFINE T == {x \in 0..n : n - x \in S}
<1>1. T \in SUBSET Nat /\ T # {}
  <2>1. PICK y \in S : TRUE
    OBVIOUS
  <2>2. n - y \in 0..n /\ n - (n - y) = y
    OBVIOUS
  <2>3. n - y \in T
    BY <2>1, <2>2
  <2>4. T \in SUBSET Nat
    OBVIOUS
  <2> HIDE DEF T
  <2> QED BY <2>3, <2>4
<1>2. PICK x \in T : \A y \in T : x <= y
  BY <1>1, LeastMember
<1>3. n - x \in S /\ \A y \in S : y <= n - x
  <2> SUFFICES ASSUME NEW y \in S
               PROVE  n - x \in S /\ y <= n - x
    BY <1>2
  <2>1. n - y \in 0..n /\ n - (n - y) = y
    OBVIOUS
  <2> QED BY <1>2, <2>1
<1> QED BY <1>3

\* A number divided: the quotient and the rest.
LEMMA Divided ==
    ASSUME NEW a \in Nat, NEW b \in Nat \ {0}
    PROVE  /\ a \div b \in Nat /\ a % b \in 0 .. b - 1
           /\ a = (a \div b) * b + (a % b)
  <1>1. a \in Int /\ b \in Int /\ b > 0 /\ a >= 0
    OBVIOUS
  <1>2. a \div b \in Int /\ a % b \in 0 .. b - 1
    BY <1>1
  <1>3. PICK q \in Int, r \in Int : q = a \div b /\ r = a % b
    BY <1>2
  <1>4. a = q * b + r
    BY <1>1, <1>3, Z3T(30)
  <1>5. q >= 0
    <2> SUFFICES ASSUME q <= -1 PROVE FALSE
      OBVIOUS
    <2>1. q * b <= -b
      BY <1>1, Z3T(30)
    <2>2. PICK m \in Int : m = q * b
      BY <1>1
    <2>3. r < b
      BY <1>2, <1>3
    <2>4. QED
      BY <1>1, <1>4, <2>1, <2>2, <2>3
  <1>6. q \in Nat
    BY <1>5
  <1>7. QED
    BY <1>2, <1>3, <1>4, <1>6, Zenon

\* Whoever finds them has the quotient and the rest.
LEMMA DividedIs ==
    ASSUME NEW a \in Int, NEW b \in Int, b > 0, NEW q \in Int, NEW r \in Int,
           a = q * b + r, 0 <= r, r < b
    PROVE  a \div b = q /\ a % b = r
  BY Z3T(30)

\* A product is a number, and distributes.
LEMMA Product ==
    ASSUME NEW a \in Int, NEW b \in Int, NEW c \in Int
    PROVE  /\ a * c \in Int /\ c * a \in Int /\ c * a = a * c
           /\ (a + b) * c = a * c + b * c /\ (a - b) * c = a * c - b * c
           /\ c * (a + b) = c * a + c * b
  OBVIOUS

\* Products and quotients keep the order.
LEMMA ProductOrder ==
    ASSUME NEW a \in Int, NEW b \in Int, NEW c \in Nat, a <= b
    PROVE  a * c <= b * c
  BY Z3T(30)

LEMMA QuotientOrder ==
    ASSUME NEW a \in Int, NEW b \in Int, NEW c \in Nat \ {0}, a * c < b * c
    PROVE  a < b
  BY Z3T(30)
=============================================================================
