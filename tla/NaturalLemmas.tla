---------------------------- MODULE NaturalLemmas ----------------------------
(***************************************************************************)
(* Least elements and induction, as statements about sets of natural       *)
(* numbers, so that a proof can use them for any predicate: it forms the   *)
(* set of the numbers that satisfy it.  Division by any number, and powers *)
(* of two, which the provers know nothing of: how they grow is counted     *)
(* from the subsets of a finite set.                                       *)
(***************************************************************************)
EXTENDS Integers, FiniteSetTheorems, WellFoundedInduction, TLAPS

\* A set of natural numbers that has an element has a least one.
LEMMA LeastNatural ==
    ASSUME NEW T \in SUBSET Nat, T # {}
    PROVE  \E m \in T : \A k \in T : m <= k
<1> DEFINE R == OpToRel(<, Nat)
<1>1. IsWellFoundedOn(R, Nat)
  BY NatLessThanWellFounded
<1>2. \A x, y \in Nat : x < y => <<x, y>> \in R
  BY DEF OpToRel
<1> HIDE DEF R
<1>3. PICK m \in T : \A k \in T : <<k, m>> \notin R
  BY <1>1, WFMin
<1>4. \A k \in T : ~(k < m)
  BY <1>2, <1>3
<1>5. QED
  BY <1>4

\* A set of natural numbers with 0 and with every successor is all of them.
LEMMA Induction ==
    ASSUME NEW S \in SUBSET Nat, 0 \in S, \A n \in S : n + 1 \in S
    PROVE  S = Nat
<1> SUFFICES ASSUME Nat \ S # {} PROVE FALSE
  OBVIOUS
<1>1. PICK m \in Nat \ S : \A k \in Nat \ S : m <= k
  BY LeastNatural
<1>2. m - 1 \in Nat /\ ~(m <= m - 1)
  BY <1>1
<1>3. m - 1 \in S
  BY <1>1, <1>2
<1>4. QED
  BY <1>1, <1>3

-----------------------------------------------------------------------------
\* A multiple of n and less than n more.
LEMMA Quotient ==
    ASSUME NEW n \in Nat, n > 0, NEW m \in Nat, NEW e \in 0 .. n - 1
    PROVE  (m * n + e) \div n = m /\ (m * n + e) % n = e
  BY SMTT(20)

\* Every number is one.
LEMMA Division ==
    ASSUME NEW n \in Nat, n > 0, NEW x \in Nat
    PROVE  \E m \in Nat, e \in 0 .. n - 1 : x = m * n + e
<1> DEFINE y == n * (x \div n)
<1>1. x \div n \in Nat
  OBVIOUS
<1>2. x >= y /\ x - y < n
  BY SMTT(20)
<1>3. y \in Nat /\ y = (x \div n) * n
  BY <1>1
<1> HIDE DEF y
<1>4. x - y \in 0 .. n - 1 /\ x = y + (x - y)
  BY <1>2, <1>3
<1>5. QED
  BY <1>1, <1>3, <1>4

-----------------------------------------------------------------------------
\* The subsets with and without the last of n + 1 numbers: a power of two doubles.
LEMMA PowerDoubles ==
    ASSUME NEW n \in Nat
    PROVE  2^n \in Nat /\ 2^(n + 1) = 2 * 2^n
<1> DEFINE S == 1 .. n
           with == {A \cup {n + 1} : A \in SUBSET S}
<1>1. IsFiniteSet(S) /\ Cardinality(S) = n
  BY FS_Interval
<1>2. /\ IsFiniteSet(SUBSET S) /\ Cardinality(SUBSET S) = 2^n
      /\ Cardinality(SUBSET S) \in Nat
  BY <1>1, FS_SUBSET, FS_CardinalityType
<1>3. IsFiniteSet(with) /\ Cardinality(with) = 2^n
  <2> DEFINE f == [A \in SUBSET S |-> A \cup {n + 1}]
  <2>1. \A A \in SUBSET S : A = f[A] \ {n + 1}
    OBVIOUS
  <2>2. \A A, B \in SUBSET S : f[A] = f[B] => A = B
    BY <2>1
  <2>3. f \in [SUBSET S -> with] /\ \A y \in with : \E A \in SUBSET S : f[A] = y
    OBVIOUS
  <2> HIDE DEF f
  <2>4. f \in Bijection(SUBSET S, with)
    BY <2>2, <2>3 DEF Bijection, Injection, Surjection, IsInjective
  <2>5. ExistsBijection(SUBSET S, with)
    BY <2>4 DEF ExistsBijection
  <2>6. QED
    BY <1>2, <2>5, FS_Bijection
<1>4. SUBSET (1 .. n + 1) = (SUBSET S) \cup with
  <2>1. ASSUME NEW A \in SUBSET (1 .. n + 1), n + 1 \in A
        PROVE  A \in with
    <3>1. A \ {n + 1} \in SUBSET S /\ A = (A \ {n + 1}) \cup {n + 1}
      BY <2>1
    <3>2. QED
      BY <3>1
  <2>2. ASSUME NEW A \in SUBSET (1 .. n + 1), n + 1 \notin A
        PROVE  A \in SUBSET S
    BY <2>2
  <2>3. S \subseteq 1 .. n + 1 /\ n + 1 \in 1 .. n + 1
    OBVIOUS
  <2>4. ASSUME NEW A \in with
        PROVE  A \in SUBSET (1 .. n + 1)
    BY <2>3
  <2>5. ASSUME NEW A \in SUBSET S
        PROVE  A \in SUBSET (1 .. n + 1)
    BY <2>3
  <2> HIDE DEF with, S
  <2>6. QED
    BY <2>1, <2>2, <2>4, <2>5
<1>5. (SUBSET S) \cap with = {}
  <2>1. n + 1 \notin S
    OBVIOUS
  <2>2. QED
    BY <2>1
<1>6. Cardinality({}) = 0
  BY FS_EmptySet
<1> HIDE DEF with
<1>7. Cardinality((SUBSET S) \cup with) = 2^n + 2^n
  <2>1. Cardinality((SUBSET S) \cup with)
            = Cardinality(SUBSET S) + Cardinality(with) - Cardinality((SUBSET S) \cap with)
    BY <1>2, <1>3, FS_Union
  <2>2. \A c \in Nat : c + c - 0 = c + c
    OBVIOUS
  <2>3. QED
    BY <1>2, <1>3, <1>5, <1>6, <2>1, <2>2
<1>8. Cardinality(SUBSET (1 .. n + 1)) = 2^(n + 1)
  <2>1. IsFiniteSet(1 .. n + 1) /\ Cardinality(1 .. n + 1) = n + 1
    BY FS_Interval
  <2>2. QED
    BY <2>1, FS_SUBSET
<1>9. 2^(n + 1) = 2^n + 2^n
  BY <1>4, <1>7, <1>8
<1>10. QED
  BY <1>2, <1>9

\* A power of two is positive.
LEMMA PowerPositive == ASSUME NEW n \in Nat PROVE 2^n \in Nat /\ 2^n > 0
<1> DEFINE P == {k \in Nat : 2^k > 0}
<1>1. 0 \in P
  OBVIOUS
<1>2. ASSUME NEW k \in P PROVE k + 1 \in P
  BY PowerDoubles
<1> HIDE DEF P
<1>3. n \in P
  BY <1>1, <1>2, Induction DEF P
<1>4. QED
  BY <1>3, PowerDoubles DEF P

\* Powers of two multiply by adding what they are raised to.
LEMMA PowerSum ==
    ASSUME NEW m \in Nat, NEW n \in Nat
    PROVE  2^(m + n) = 2^m * 2^n
<1> DEFINE P == {k \in Nat : 2^(m + k) = 2^m * 2^k}
<1>1. 0 \in P
  BY PowerPositive
<1>2. ASSUME NEW k \in P PROVE k + 1 \in P
  <2>1. k \in Nat /\ 2^(m + k) = 2^m * 2^k
    OBVIOUS
  <2>2. 2^(k + 1) = 2 * 2^k /\ 2^((m + k) + 1) = 2 * 2^(m + k)
    BY <2>1, PowerDoubles
  <2>3. m + (k + 1) = (m + k) + 1
    BY <2>1
  <2>4. 2^m \in Nat /\ 2^k \in Nat
    BY <2>1, PowerPositive
  <2>5. 2 * (2^m * 2^k) = 2^m * (2 * 2^k)
    BY <2>4
  <2>6. 2^(m + (k + 1)) = 2^m * 2^(k + 1)
    BY <2>1, <2>2, <2>3, <2>5
  <2>7. QED
    BY <2>1, <2>6
<1> HIDE DEF P
<1>3. n \in P
  BY <1>1, <1>2, Induction DEF P
<1>4. QED
  BY <1>3 DEF P

\* They grow with it.
LEMMA PowerGrows ==
    ASSUME NEW m \in Nat, NEW n \in Nat, m <= n
    PROVE  2^m <= 2^n /\ (m < n => 2 * 2^m <= 2^n)
<1>1. 2^m \in Nat /\ 2^m > 0
  BY PowerPositive
<1>2. CASE m = n
  BY <1>1, <1>2
<1>3. CASE m < n
  <2> DEFINE k == n - m - 1
  <2>1. k \in Nat /\ n = (m + 1) + k
    BY <1>3
  <2> HIDE DEF k
  <2>2. 2^n = 2^(m + 1) * 2^k /\ 2^(m + 1) = 2 * 2^m
    BY <2>1, PowerSum, PowerDoubles
  <2>3. 2^k \in Nat /\ 2^k > 0
    BY <2>1, PowerPositive
  <2> DEFINE a == 2^m  b == 2^k
  <2>4. 2^n = (2 * a) * b /\ a \in Nat /\ b \in Nat /\ b >= 1 /\ a > 0
    BY <1>1, <2>2, <2>3
  <2> HIDE DEF a, b
  <2>5. (2 * a) * b >= 2 * a
    BY <2>4
  <2>6. 2^n >= 2 * a
    BY <2>4, <2>5
  <2>7. QED
    BY <2>4, <2>6 DEF a
<1>4. QED
  BY <1>2, <1>3

=============================================================================
