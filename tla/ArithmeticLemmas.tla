-------------------------- MODULE ArithmeticLemmas --------------------------
(***************************************************************************)
(* Products and quotients of natural numbers: what the proofs about amounts*)
(* and times need of them, as nonlinear facts the provers do not know; and *)
(* induction, as the least element that a set of naturals has: stated of a *)
(* set and not of a predicate, it needs no operator for a parameter.  Last,*)
(* that a function on 1..n is a sequence.                                  *)
(***************************************************************************)
EXTENDS Integers, WellFoundedInduction, SequenceTheorems, TLAPS

\* A set of naturals has a least element.
LEMMA LeastNumber ==
  ASSUME NEW S, S \subseteq Nat, S # {}
  PROVE  \E x \in S : \A y \in S : x <= y
<1> DEFINE R == OpToRel(<, Nat)
<1>1. IsWellFoundedOn(R, Nat)
  BY NatLessThanWellFounded
<1>2. \A a, b \in Nat : <<a, b>> \in R <=> a < b
  BY DEF OpToRel
<1> HIDE DEF R
<1>3. PICK x \in S : \A y \in S : ~ (<<y, x>> \in R)
  BY <1>1, WFMin
<1>4. ASSUME NEW y \in S PROVE x <= y
  <2>1. ~ (y < x)
    BY <1>2, <1>3
  <2> QED
    BY <2>1
<1> QED
  BY <1>4

\* A set that holds zero and the successor of each of its numbers holds them all.
LEMMA Induction ==
  ASSUME NEW T, 0 \in T, \A n \in Nat : n \in T => n + 1 \in T
  PROVE  \A n \in Nat : n \in T
<1> DEFINE S == Nat \ T
<1> SUFFICES ASSUME S # {} PROVE FALSE
  OBVIOUS
<1>1. PICK x \in S : \A y \in S : x <= y
  BY LeastNumber
<1>2. x # 0 /\ x - 1 \in Nat
  BY <1>1
<1>3. x - 1 \notin S
  BY <1>1
<1> QED
  BY <1>2, <1>3

\* Products grow with a factor.
LEMMA ProductMonotone ==
  ASSUME NEW a \in Nat, NEW b \in Nat, NEW c \in Nat, a <= b
  PROVE  /\ a * c \in Nat /\ b * c \in Nat
         /\ a * c <= b * c
  <1>1. PICK d \in Nat : b = a + d
    <2>1. b - a \in Nat /\ b = a + (b - a)
      OBVIOUS
    <2> QED
      BY <2>1
  <1>2. b * c = a * c + d * c
    BY <1>1, Z3
  <1>3. a * c \in Nat /\ d * c \in Nat /\ b * c \in Nat
    BY <1>1, Z3
  <1> QED
    BY <1>2, <1>3

\* One more of a number.
LEMMA OneMore ==
  ASSUME NEW a \in Nat, NEW b \in Nat
  PROVE  (a + 1) * b = a * b + b
  BY Z3

\* The factors change places.
LEMMA Commutes ==
  ASSUME NEW a \in Nat, NEW b \in Nat
  PROVE  a * b = b * a /\ a * b \in Nat
  BY Z3

\* A division without remainder is undone by the product.
LEMMA ExactDivision ==
  ASSUME NEW a \in Nat, NEW b \in Nat \ {0}, a % b = 0
  PROVE  (a \div b) * b = a
  BY Z3

\* Euclid's division, as facts about products.
LEMMA Division ==
  ASSUME NEW a \in Nat, NEW b \in Nat \ {0}
  PROVE  /\ a \div b \in Nat
         /\ (a \div b) * b <= a
         /\ a < (a \div b) * b + b
  BY Z3

\* The quotient is the only number between the two products.
LEMMA QuotientUnique ==
  ASSUME NEW a \in Nat, NEW b \in Nat \ {0}, NEW k \in Nat,
         k * b <= a, a < k * b + b
  PROVE  a \div b = k
  <1>1. /\ a \div b \in Nat
        /\ (a \div b) * b <= a
        /\ a < (a \div b) * b + b
    BY Division
  <1> DEFINE c == a \div b
  <1>2. c \in Nat /\ c * b <= a /\ a < c * b + b
    BY <1>1
  <1> HIDE DEF c
  <1>3. ~ c < k
    <2> SUFFICES ASSUME c < k PROVE FALSE
      OBVIOUS
    <2>1. (c + 1) * b <= k * b
      BY <1>2, ProductMonotone
    <2>2. (c + 1) * b = c * b + b
      BY <1>2, Z3
    <2> QED
      BY <2>1, <2>2, <1>2
  <1>4. ~ k < c
    <2> SUFFICES ASSUME k < c PROVE FALSE
      OBVIOUS
    <2>1. (k + 1) * b <= c * b
      BY <1>2, ProductMonotone
    <2>2. (k + 1) * b = k * b + b
      BY <1>2, Z3
    <2> QED
      BY <2>1, <2>2, <1>2
  <1> QED
    BY <1>2, <1>3, <1>4 DEF c

\* A product divided by a factor is the other.
LEMMA QuotientOfProduct ==
  ASSUME NEW p \in Nat, NEW n \in Nat \ {0}
  PROVE  p * n \in Nat /\ (p * n) \div n = p
  <1>1. p * n \in Nat
    BY Z3
  <1> QED
    BY <1>1, QuotientUnique

\* A product that wraps around comes out smaller.
LEMMA WrappedQuotient ==
  ASSUME NEW p \in Nat, NEW n \in Nat \ {0}, NEW W \in Nat, n < W, ~ p * n < W
  PROVE  ((p * n) % W) \div n # p
  <1> DEFINE x == p * n
             r == x % W
             q == r \div n
  <1>1. x \in Nat /\ W \in Nat \ {0} /\ ~ x < W
    BY QuotientOfProduct
  <1> HIDE DEF x
  <1>2. r \in Nat /\ r <= x - W
    BY <1>1, Z3
  <1> HIDE DEF r
  <1>3. q \in Nat /\ q * n <= r
    BY <1>2, Division
  <1> HIDE DEF q
  <1>4. q * n < x
    BY <1>1, <1>2, <1>3, QuotientOfProduct
  <1>5. q # p
    BY <1>4 DEF x
  <1> QED
    BY <1>5 DEF q, r, x

\* A share of an amount is a natural number, and no more than the amount.
LEMMA ShareBound ==
  ASSUME NEW x \in Nat, NEW s \in Nat, NEW D \in Nat \ {0}, s <= D
  PROVE  x * s \in Nat /\ (x * s) \div D \in Nat /\ (x * s) \div D <= x
<1>1. x * s \in Nat /\ x * D \in Nat
  BY Commutes
<1>2. x * s <= x * D
  <2>1. s * x <= D * x /\ s * x \in Nat /\ D * x \in Nat
    BY ProductMonotone
  <2> QED
    BY <2>1, Commutes
<1> DEFINE k == (x * s) \div D
<1>3. k \in Nat /\ k * D <= x * s
  BY <1>1, Division
<1> HIDE DEF k
<1>4. k <= x
  <2> SUFFICES ASSUME x + 1 <= k PROVE FALSE
    BY <1>3
  <2>1. (x + 1) * D <= k * D /\ k * D \in Nat
    BY <1>3, ProductMonotone
  <2>2. (x + 1) * D = x * D + D
    BY OneMore
  <2> QED
    BY <1>1, <1>2, <1>3, <2>1, <2>2
<1> QED
  BY <1>1, <1>3, <1>4 DEF k

\* What is left after a share, rounded down, and the share, rounded down, lose at
\* most an atom together.
LEMMA ShareAndRest ==
  ASSUME NEW x \in Nat, NEW s \in Nat, NEW D \in Nat \ {0}, s <= D
  PROVE  x - (x * s) \div D - (x * (D - s)) \div D \in {0, 1}
<1> DEFINE a == x * s
           b == x * (D - s)
           k == a \div D
           m == b \div D
<1>1. D - s \in Nat
  OBVIOUS
<1>2. a \in Nat /\ b \in Nat
  BY <1>1, Commutes
<1>3. a + b = x * D
  BY Z3
<1> HIDE DEF a, b
<1>4. k \in Nat /\ m \in Nat /\ k * D <= a /\ a < k * D + D /\ m * D <= b /\ b < m * D + D
  BY <1>2, Division
<1> HIDE DEF k, m
<1>5. (k + m) * D = k * D + m * D /\ (k + m + 2) * D = k * D + m * D + D + D
  BY <1>4, Z3
<1>6. k * D \in Nat /\ m * D \in Nat /\ x * D \in Nat
  BY <1>4, Commutes
<1>7. ~ x + 1 <= k + m
  <2> SUFFICES ASSUME x + 1 <= k + m PROVE FALSE
    OBVIOUS
  <2>1. k + m \in Nat /\ x + 1 \in Nat
    BY <1>4
  <2>2. (x + 1) * D <= (k + m) * D
    BY <2>1, ProductMonotone
  <2>3. (x + 1) * D = x * D + D
    BY OneMore
  <2> QED
    BY <1>2, <1>3, <1>4, <1>5, <1>6, <2>2, <2>3
<1>8. ~ k + m + 2 <= x
  <2> SUFFICES ASSUME k + m + 2 <= x PROVE FALSE
    OBVIOUS
  <2>1. k + m + 2 \in Nat
    BY <1>4
  <2>2. (k + m + 2) * D <= x * D
    BY <2>1, ProductMonotone
  <2> QED
    BY <1>2, <1>3, <1>4, <1>5, <1>6, <2>2
<1>9. x - k - m \in {0, 1}
  BY <1>4, <1>7, <1>8
<1> QED
  BY <1>9 DEF k, m, a, b

\* A share of a sum is the sum of the shares, or an atom more.
LEMMA ShareOfSum ==
  ASSUME NEW x \in Nat, NEW y \in Nat, NEW s \in Nat, NEW D \in Nat \ {0}
  PROVE  ((x + y) * s) \div D - (x * s) \div D - (y * s) \div D \in {0, 1}
<1> DEFINE a == x * s
           b == y * s
           c == (x + y) * s
           k == a \div D
           m == b \div D
           n == c \div D
<1>1. a \in Nat /\ b \in Nat
  BY Commutes
<1>2. c = a + b
  BY Z3
<1> HIDE DEF a, b, c
<1>3. /\ k \in Nat /\ k * D <= a /\ a < k * D + D
      /\ m \in Nat /\ m * D <= b /\ b < m * D + D
      /\ n \in Nat /\ n * D <= c /\ c < n * D + D
  BY <1>1, <1>2, Division
<1> HIDE DEF k, m, n
<1>4. /\ (k + m) * D = k * D + m * D /\ (k + m + 2) * D = k * D + m * D + D + D
      /\ (n + 1) * D = n * D + D
  BY <1>3, Z3
<1>5. k * D \in Nat /\ m * D \in Nat /\ n * D \in Nat
  BY <1>3, Commutes
<1>6. ~ n + 1 <= k + m
  <2> SUFFICES ASSUME n + 1 <= k + m PROVE FALSE
    OBVIOUS
  <2>1. k + m \in Nat /\ n + 1 \in Nat
    BY <1>3
  <2>2. (n + 1) * D <= (k + m) * D
    BY <2>1, ProductMonotone
  <2> QED
    BY <1>1, <1>2, <1>3, <1>4, <1>5, <2>2
<1>7. ~ k + m + 2 <= n
  <2> SUFFICES ASSUME k + m + 2 <= n PROVE FALSE
    OBVIOUS
  <2>1. k + m + 2 \in Nat
    BY <1>3
  <2>2. (k + m + 2) * D <= n * D
    BY <1>3, <2>1, ProductMonotone
  <2> QED
    BY <1>1, <1>2, <1>3, <1>4, <1>5, <2>2
<1>8. n - k - m \in {0, 1}
  BY <1>3, <1>6, <1>7
<1> QED
  BY <1>8 DEF k, m, n, a, b, c

\* Raising an amount by a share and adding the share to it are the same.
LEMMA RaisedByShare ==
  ASSUME NEW x \in Nat, NEW s \in Nat, NEW D \in Nat \ {0}
  PROVE  (x * (D + s)) \div D = x + (x * s) \div D
<1> DEFINE a == x * s
           k == a \div D
           p == x + k
<1>1. a \in Nat /\ x * D \in Nat
  BY Commutes
<1>2. x * (D + s) = x * D + a
  BY Z3
<1> HIDE DEF a
<1>3. k \in Nat /\ k * D <= a /\ a < k * D + D
  BY <1>1, Division
<1> HIDE DEF k
<1>4. (x + k) * D = x * D + k * D /\ k * D \in Nat
  BY <1>3, Z3
<1>5. p \in Nat /\ p * D <= x * D + a /\ x * D + a < p * D + D
  BY <1>1, <1>3, <1>4
<1> HIDE DEF p
<1>6. (x * D + a) \div D = p
  BY <1>1, <1>5, QuotientUnique
<1> QED
  BY <1>2, <1>6 DEF p, k, a

\* Quotients grow with the number divided.
LEMMA QuotientMonotone ==
  ASSUME NEW a \in Nat, NEW b \in Nat, NEW D \in Nat \ {0}, a <= b
  PROVE  a \div D <= b \div D
<1> DEFINE k == a \div D
           m == b \div D
<1>1. k \in Nat /\ k * D <= a /\ m \in Nat /\ b < m * D + D
  BY Division
<1> HIDE DEF k, m
<1>2. ~ m + 1 <= k
  <2> SUFFICES ASSUME m + 1 <= k PROVE FALSE
    OBVIOUS
  <2>1. m + 1 \in Nat
    BY <1>1
  <2>2. (m + 1) * D <= k * D /\ (m + 1) * D = m * D + D
    BY <1>1, <2>1, ProductMonotone, OneMore
  <2>3. k * D \in Nat /\ m * D \in Nat
    BY <1>1, Commutes
  <2> QED
    BY <1>1, <2>2, <2>3
<1>3. k <= m
  BY <1>1, <1>2
<1> QED
  BY <1>3 DEF k, m

\* A quotient is no more than the number divided.
LEMMA ShareBelow ==
  ASSUME NEW a \in Nat, NEW D \in Nat \ {0}
  PROVE  a \div D <= a
<1>1. a * 1 = a
  BY Z3
<1> QED
  BY <1>1, ShareBound
-----------------------------------------------------------------------------
\* A function on 1..n is a sequence.
LEMMA FunctionIsSeq ==
  ASSUME NEW n \in Nat, NEW S, NEW s \in [1..n -> S]
  PROVE  s \in Seq(S) /\ Len(s) = n
<1>1. s \in Seq(S)
  BY SeqDef
<1>2. Len(s) \in Nat /\ 1..Len(s) = 1..n
  BY <1>1, LenProperties
<1>3. n = Len(s)
  <2>1. ~ n < Len(s)
    <3> SUFFICES ASSUME n < Len(s) PROVE FALSE
      OBVIOUS
    <3>1. Len(s) \in 1..Len(s) /\ Len(s) \notin 1..n
      BY <1>2
    <3> QED
      BY <1>2, <3>1
  <2>2. ~ Len(s) < n
    <3> SUFFICES ASSUME Len(s) < n PROVE FALSE
      OBVIOUS
    <3>1. n \in 1..n /\ n \notin 1..Len(s)
      BY <1>2
    <3> QED
      BY <1>2, <3>1
  <2> QED
    BY <1>2, <2>1, <2>2
<1> QED
  BY <1>1, <1>3
=============================================================================
