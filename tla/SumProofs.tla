------------------------------ MODULE SumProofs ------------------------------
(***************************************************************************)
(* What the proofs about several components rest on.  First arithmetic:    *)
(* quotients, recursive functions with their powers, and numbers taken     *)
(* place by place.  Then what SumFunction and SumFunctionOnSet, by which   *)
(* the models keep books and count nonces, are worth: sums over finite     *)
(* sets do not depend on the order of the elements, and an element can be  *)
(* taken out or put in.                                                    *)
(*                                                                         *)
(* Sums are folds, which are recursive functions on sets.  Everything      *)
(* rests on induction over the natural numbers, stated here for a set of   *)
(* numbers instead of a predicate.                                         *)
(***************************************************************************)
EXTENDS Functions, FiniteSetTheorems, WellFoundedInduction, TLAPS

-----------------------------------------------------------------------------
(* Quotient and remainder, rounding down.                                  *)

LEMMA DivModFacts ==
    ASSUME NEW n \in Nat \ {0}, NEW x \in Nat
    PROVE  /\ x \div n \in Nat /\ x % n \in 0..(n - 1)
           /\ x = n * (x \div n) + (x % n)
  OBVIOUS

LEMMA FloorFacts ==
    ASSUME NEW n \in Nat \ {0}, NEW x \in Int
    PROVE  /\ x \div n \in Int /\ x % n \in 0..(n - 1)
           /\ x = n * (x \div n) + (x % n)
  OBVIOUS

(* A quotient is known by its remainder.                                   *)
LEMMA QuotientIs ==
    ASSUME NEW n \in Nat \ {0}, NEW x \in Int, NEW q \in Int, NEW r \in 0..(n - 1),
           x = n * q + r
    PROVE  x \div n = q
  OBVIOUS

(* A quotient of a quotient.                                               *)
LEMMA QuotientOfQuotient ==
    ASSUME NEW x \in Nat, NEW n \in Nat \ {0}, NEW b \in Nat \ {0}
    PROVE  (x \div n) \div b = x \div (b * n)
<1> DEFINE q == x \div n
           r == x % n
           h == q \div b
           t == q % b
<1>1. q \in Nat /\ r \in 0..(n - 1) /\ x = n * q + r
  BY DivModFacts
<1> HIDE DEF q, r
<1>2. h \in Nat /\ t \in 0..(b - 1) /\ q = b * h + t
  BY <1>1, DivModFacts
<1> HIDE DEF h, t
<1>3. n * t \in Nat /\ n * t <= n * (b - 1) /\ n * (b - 1) = b * n - n /\ b * n \in Nat \ {0}
  BY <1>2
<1>4. n * (b * h + t) = (b * n) * h + n * t
  BY <1>2
<1> DEFINE u == n * t + r
           bn == b * n
           m == n * t
<1>5. u \in 0..(bn - 1) /\ bn \in Nat \ {0}
  <2> HIDE DEF bn, m
  <2>1. m \in Nat /\ m <= bn - n /\ bn \in Nat \ {0}
    BY <1>3 DEF bn, m
  <2>2. m + r \in 0 .. (bn - 1)
    BY <1>1, <2>1
  <2>. QED BY <2>1, <2>2 DEF m
<1>6. x = bn * h + u
  <2>1. bn * h \in Nat
    BY <1>2, <1>5
  <2>2. x = (bn * h + m) + r
    BY <1>1, <1>2, <1>4
  <2> HIDE DEF bn, m
  <2>. QED BY <1>1, <1>3, <2>1, <2>2 DEF m
<1> HIDE DEF u, bn
<1>7. x \div bn = h
  BY <1>2, <1>5, <1>6, QuotientIs
<1>. QED BY <1>7 DEF h, q, bn

-----------------------------------------------------------------------------
(* Induction.                                                              *)

(* A set of numbers that has 0 and every successor has them all: a number  *)
(* that is missing has a least one among those that are.                   *)
LEMMA NatSetInduction ==
    ASSUME NEW T, 0 \in T, \A n \in Nat : n \in T => n + 1 \in T
    PROVE  \A n \in Nat : n \in T
<1> DEFINE R == OpToRel(<, Nat)
           U == Nat \ T
<1>1. \A i, j \in Nat : i < j => <<i, j>> \in R
  BY DEF OpToRel
<1>2. IsWellFoundedOn(R, Nat)
  BY NatLessThanWellFounded
<1> HIDE DEF R
<1> SUFFICES ASSUME U # {} PROVE FALSE
  OBVIOUS
<1>3. PICK x \in U : \A y \in U : ~(<<y, x>> \in R)
  BY <1>2, WFMin
<1>4. x # 0 /\ x - 1 \in Nat /\ x - 1 < x /\ (x - 1) + 1 = x
  BY <1>3
<1>5. x - 1 \in T
  BY <1>1, <1>3, <1>4
<1>. QED BY <1>3, <1>4, <1>5

(* A collection with every set whose elements can be taken out one at a    *)
(* time without leaving it has every subset of a finite set.               *)
LEMMA SubsetInduction ==
    ASSUME NEW S, IsFiniteSet(S), NEW G,
           \A U \in SUBSET S : (\A x \in U : U \ {x} \in G) => U \in G
    PROVE  \A U \in SUBSET S : U \in G
<1> DEFINE N == {n \in Nat : \A U \in SUBSET S : Cardinality(U) = n => U \in G}
<1>1. \A U \in SUBSET S : IsFiniteSet(U) /\ Cardinality(U) \in Nat
  BY FS_Subset, FS_CardinalityType
<1>2. 0 \in N
  <2> SUFFICES ASSUME NEW U \in SUBSET S, Cardinality(U) = 0 PROVE U \in G
    OBVIOUS
  <2>1. U = {}
    BY <1>1, FS_EmptySet
  <2>. QED BY <2>1
<1>3. ASSUME NEW n \in Nat, n \in N PROVE n + 1 \in N
  <2> SUFFICES ASSUME NEW U \in SUBSET S, Cardinality(U) = n + 1 PROVE U \in G
    OBVIOUS
  <2>1. ASSUME NEW x \in U PROVE U \ {x} \in G
    <3>1. Cardinality(U \ {x}) = Cardinality(U) - 1
      BY <1>1, FS_RemoveElement
    <3>2. Cardinality(U \ {x}) = n /\ U \ {x} \in SUBSET S
      BY <3>1
    <3>. QED BY <1>3, <3>2
  <2>. QED BY <2>1
<1> HIDE DEF N
<1>4. \A n \in Nat : n \in N
  BY <1>2, <1>3, NatSetInduction
<1>. QED BY <1>1, <1>4 DEF N

-----------------------------------------------------------------------------
(* Recursive functions: there is one that satisfies the equation, so that  *)
(* the chosen one does.                                                    *)

(* The first n + 1 values of a recursion g[k + 1] = b * g[k] + d[k].       *)
LinearUpTo(b, c, d, g, n) == g[0] = c /\ \A k \in 0 .. n - 1 : g[k + 1] = b * g[k] + d[k]

LEMMA LinearExists ==
    ASSUME NEW b, NEW c, NEW d
    PROVE  \A n \in Nat : \E g : LinearUpTo(b, c, d, g, n)
<1> DEFINE N == {n \in Nat : \E g : LinearUpTo(b, c, d, g, n)}
<1>1. 0 \in N
  <2> DEFINE g == [k \in {0} |-> c]
  <2>1. LinearUpTo(b, c, d, g, 0)
    BY DEF LinearUpTo
  <2>. QED BY <2>1
<1>2. ASSUME NEW n \in Nat, n \in N PROVE n + 1 \in N
  <2>1. PICK g : LinearUpTo(b, c, d, g, n)
    BY <1>2
  <2> DEFINE h == [k \in 0 .. n + 1 |-> IF k = n + 1 THEN b * g[n] + d[n] ELSE g[k]]
  <2>2. h[n + 1] = b * g[n] + d[n] /\ \A k \in 0 .. n : h[k] = g[k]
    OBVIOUS
  <2> HIDE DEF h
  <2>3. h[0] = c
    BY <2>1, <2>2 DEF LinearUpTo
  <2>4. ASSUME NEW k \in 0 .. n PROVE h[k + 1] = b * h[k] + d[k]
    <3>1. CASE k = n
      BY <2>2, <3>1
    <3>2. CASE k # n
      <4>1. k \in 0 .. n - 1 /\ k + 1 \in 0 .. n
        BY <3>2
      <4>2. g[k + 1] = b * g[k] + d[k]
        BY <2>1, <4>1 DEF LinearUpTo
      <4>3. h[k] = g[k] /\ h[k + 1] = g[k + 1]
        BY <2>2, <4>1
      <4>. QED BY <4>2, <4>3
    <3>. QED BY <3>1, <3>2
  <2>5. LinearUpTo(b, c, d, h, n + 1)
    BY <2>3, <2>4 DEF LinearUpTo
  <2>. QED BY <2>5
<1> HIDE DEF N
<1>3. \A n \in Nat : n \in N
  BY <1>1, <1>2, NatSetInduction
<1>. QED BY <1>3 DEF N

(* The values are determined.                                              *)
LEMMA LinearAgrees ==
    ASSUME NEW b, NEW c, NEW d, NEW n \in Nat, NEW g, NEW h,
           LinearUpTo(b, c, d, g, n), LinearUpTo(b, c, d, h, n)
    PROVE  \A k \in 0 .. n : g[k] = h[k]
<1> DEFINE N == {k \in Nat : k <= n => g[k] = h[k]}
<1>1. 0 \in N
  BY DEF LinearUpTo
<1>2. ASSUME NEW k \in Nat, k \in N PROVE k + 1 \in N
  <2> SUFFICES ASSUME k + 1 <= n PROVE g[k + 1] = h[k + 1]
    OBVIOUS
  <2>1. k \in 0 .. n - 1 /\ g[k] = h[k]
    BY <1>2
  <2>. QED BY <2>1 DEF LinearUpTo
<1> HIDE DEF N
<1>3. \A k \in Nat : k \in N
  BY <1>1, <1>2, NatSetInduction
<1>. QED BY <1>3 DEF N

(* A recursion over all numbers, put together from those; over the integers*)
(* it stays there.                                                         *)
LEMMA LinearRecursion ==
    ASSUME NEW b \in Int, NEW c \in Int, NEW d \in [Nat -> Int]
    PROVE  \E g \in [Nat -> Int] :
              g[0] = c /\ \A k \in Nat : g[k + 1] = b * g[k] + d[k]
<1> DEFINE P(n) == CHOOSE g : LinearUpTo(b, c, d, g, n)
           G == [n \in Nat |-> P(n)[n]]
<1>1. \A n \in Nat : LinearUpTo(b, c, d, P(n), n)
  BY LinearExists
<1> HIDE DEF P
<1>2. G[0] = c
  BY <1>1 DEF LinearUpTo
<1>3. ASSUME NEW k \in Nat PROVE G[k + 1] = b * G[k] + d[k]
  <2> DEFINE h == P(k + 1)
  <2>1. LinearUpTo(b, c, d, h, k + 1)
    BY <1>1
  <2> HIDE DEF h
  <2>2. k \in 0 .. (k + 1) - 1 /\ \A j \in 0 .. k - 1 : j \in 0 .. (k + 1) - 1
    OBVIOUS
  <2>3. h[k + 1] = b * h[k] + d[k] /\ LinearUpTo(b, c, d, h, k)
    BY <2>1, <2>2 DEF LinearUpTo
  <2>4. h[k] = P(k)[k]
    <3>1. LinearUpTo(b, c, d, P(k), k) /\ k \in 0 .. k
      BY <1>1
    <3>. QED BY <2>3, <3>1, LinearAgrees
  <2>. QED BY <2>3, <2>4 DEF h
<1>4. \A k \in Nat : G[k] \in Int
  <2> HIDE DEF G
  <2> DEFINE N == {k \in Nat : G[k] \in Int}
  <2>1. 0 \in N
    BY <1>2
  <2>2. ASSUME NEW k \in Nat, k \in N PROVE k + 1 \in N
    <3>1. G[k] \in Int /\ d[k] \in Int
      BY <2>2
    <3>2. b * G[k] + d[k] \in Int
      BY <3>1
    <3>. QED BY <1>3, <3>2
  <2> HIDE DEF N
  <2>3. \A k \in Nat : k \in N
    BY <2>1, <2>2, NatSetInduction
  <2>. QED BY <2>3 DEF N
<1>5. G \in [Nat -> Int]
  BY <1>4
<1>. QED BY <1>2, <1>3, <1>5

(* The powers of a number, as a recursive function.                        *)
PowersOf(b, f) == f = [k \in Nat |-> IF k = 0 THEN 1 ELSE b * f[k - 1]]

LEMMA Powers ==
    ASSUME NEW b \in Int, NEW f, f = CHOOSE g : PowersOf(b, g)
    PROVE  /\ f[0] = 1 /\ \A k \in Nat : f[k + 1] = b * f[k]
           /\ \A k \in Nat : f[k] \in Int
<1> DEFINE d == [k \in Nat |-> 0]
<1>1. d \in [Nat -> Int]
  OBVIOUS
<1> HIDE DEF d
<1> DEFINE one == 1
<1>2. one \in Int
  OBVIOUS
<1> HIDE DEF one
<1>20. PICK g \in [Nat -> Int] : g[0] = one /\ \A k \in Nat : g[k + 1] = b * g[k] + d[k]
  BY <1>1, <1>2, LinearRecursion
<1>3. \A k \in Nat : g[k + 1] = b * g[k]
  <2> SUFFICES ASSUME NEW k \in Nat PROVE g[k + 1] = b * g[k]
    OBVIOUS
  <2>1. g[k + 1] = b * g[k] + 0 /\ g[k] \in Int
    BY <1>20 DEF d
  <2>. QED BY <2>1
<1>4. \A k \in Nat : k # 0 => g[k] = b * g[k - 1]
  <2> SUFFICES ASSUME NEW k \in Nat, k # 0 PROVE g[k] = b * g[k - 1]
    OBVIOUS
  <2>1. k - 1 \in Nat /\ (k - 1) + 1 = k
    OBVIOUS
  <2>. QED BY <1>3, <2>1
<1>5. PowersOf(b, g)
  BY <1>20, <1>4 DEF PowersOf, one
<1>6. PowersOf(b, f)
  BY <1>5
<1>7. \A k \in Nat : f[k] = IF k = 0 THEN 1 ELSE b * f[k - 1]
  BY <1>6 DEF PowersOf
<1>8. ASSUME NEW k \in Nat PROVE f[k + 1] = b * f[k]
  <2>1. k + 1 \in Nat /\ k + 1 # 0 /\ (k + 1) - 1 = k
    OBVIOUS
  <2>. QED BY <1>7, <2>1
<1>9. f[0] = 1
  BY <1>7
<1> DEFINE N == {k \in Nat : f[k] \in Int}
<1>10. 0 \in N
  BY <1>9
<1>11. ASSUME NEW k \in Nat, k \in N PROVE k + 1 \in N
  <2>1. f[k + 1] = b * f[k] /\ f[k] \in Int
    BY <1>8, <1>11
  <2>. QED BY <2>1
<1> HIDE DEF N
<1>12. \A k \in Nat : k \in N
  BY <1>10, <1>11, NatSetInduction
<1>. QED BY <1>8, <1>9, <1>12 DEF N

-----------------------------------------------------------------------------
(* Numbers place by place.                                                 *)

LEMMA Regroup ==
    ASSUME NEW b \in Int, NEW p \in Int, NEW x \in Int, NEW y \in Int
    PROVE  b * (p * x + y) = (b * p) * x + b * y
OBVIOUS

(* A factor goes in at every place.                                        *)
LEMMA Distributed ==
    ASSUME NEW b \in Int, NEW n \in Int, NEW l0 \in Int, NEW l1 \in Int, NEW l2 \in Int,
           NEW l3 \in Int
    PROVE  (b * (b * (b * l0 + l1) + l2) + l3) * n
             = b * (b * (b * (l0 * n) + l1 * n) + l2 * n) + l3 * n
<1>1. \A x \in Int, y \in Int : (b * x + y) * n = b * (x * n) + y * n
  OBVIOUS
<1> DEFINE x1 == b * l0 + l1
           x2 == b * x1 + l2
<1>2. x1 \in Int /\ x2 \in Int
  OBVIOUS
<1>3. x1 * n = b * (l0 * n) + l1 * n
  BY <1>1
<1>4. x2 * n = b * (x1 * n) + l2 * n
  <2> HIDE DEF x1
  <2>. QED BY <1>1, <1>2
<1>5. (b * x2 + l3) * n = b * (x2 * n) + l3 * n
  <2> HIDE DEF x2
  <2>. QED BY <1>1, <1>2
<1> HIDE DEF x1, x2
<1>6. (b * x2 + l3) * n = b * (b * (b * (l0 * n) + l1 * n) + l2 * n) + l3 * n
  BY <1>3, <1>4, <1>5
<1>. QED BY <1>6 DEF x1, x2

(* Digits are less than the base, and order numbers of one length.         *)
LEMMA DigitOrder ==
    ASSUME NEW b \in Nat \ {0}, NEW x \in Nat, NEW y \in Nat,
           NEW c \in 0 .. b - 1, NEW d \in 0 .. b - 1
    PROVE  /\ b * x + c < b * y + d <=> x < y \/ (x = y /\ c < d)
           /\ b * x + c = b * y + d <=> x = y /\ c = d
           /\ x < y => b * x + c < b * y
<1>1. b * x \in Nat /\ b * y \in Nat
  OBVIOUS
<1>2. ASSUME x < y PROVE b * x + b <= b * y
  <2>1. x + 1 <= y
    BY <1>2
  <2>2. b * (x + 1) <= b * y
    BY <2>1
  <2>3. b * (x + 1) = b * x + b
    OBVIOUS
  <2>. QED BY <2>2, <2>3
<1>3. ASSUME y < x PROVE b * y + b <= b * x
  <2>1. y + 1 <= x
    BY <1>3
  <2>2. b * (y + 1) <= b * x
    BY <2>1
  <2>3. b * (y + 1) = b * y + b
    OBVIOUS
  <2>. QED BY <2>2, <2>3
<1> DEFINE X == b * x
           Y == b * y
<1>4. /\ X \in Nat /\ Y \in Nat /\ (x = y => X = Y)
      /\ (x < y => X + b <= Y) /\ (y < x => Y + b <= X)
  BY <1>1, <1>2, <1>3
<1> HIDE DEF X, Y
<1>5. /\ X + c < Y + d <=> x < y \/ (x = y /\ c < d)
      /\ X + c = Y + d <=> x = y /\ c = d
      /\ x < y => X + c < Y
  BY <1>4
<1>. QED BY <1>5 DEF X, Y

(* One place of the sum, with the carry in and out.                        *)
LEMMA CarryStep ==
    ASSUME NEW b \in Int, NEW P \in Int, NEW h \in Int, NEW c \in Int, NEW w \in Int,
           NEW g \in Int, NEW d \in Int, NEW e \in Int, NEW v, NEW t,
           v = P + h + c, b * c + e = w + g + d, b * h + w = t
    PROVE  b * v + e = (b * P + t) + g + d
<1> DEFINE bP == b * P
           bh == b * h
           bc == b * c
<1>1. b * (P + h + c) = bP + bh + bc /\ bP \in Int /\ bh \in Int /\ bc \in Int
  OBVIOUS
<1> HIDE DEF bP, bh, bc
<1>2. bc + e = w + g + d /\ bh + w = t
  BY DEF bc, bh
<1>3. (bP + bh + bc) + e = (bP + t) + g + d
  BY <1>1, <1>2
<1>. QED BY <1>1, <1>3 DEF bP

(* One place of the long division.                                         *)
LEMMA DivisionStep ==
    ASSUME NEW b \in Int, NEW den \in Int, NEW X \in Int, NEW Q \in Int, NEW r \in Int,
           NEW a \in Int, NEW q \in Int, NEW s \in Int,
           X = den * Q + r, r * b + a = den * q + s
    PROVE  b * X + a = den * (b * Q + q) + s
<1>1. b * (den * Q + r) = den * (b * Q) + r * b
  OBVIOUS
<1>2. den * (b * Q + q) = den * (b * Q) + den * q
  OBVIOUS
<1> DEFINE u == den * (b * Q)
           v == r * b
           z == den * q
<1>3. u \in Int /\ v \in Int /\ z \in Int
  OBVIOUS
<1>4. v + a = z + s /\ b * X = u + v
  BY <1>1
<1> HIDE DEF u, v, z
<1>5. (u + v) + a = (u + z) + s
  BY <1>3, <1>4
<1>. QED BY <1>2, <1>4, <1>5 DEF u, z

(* One place fits: its dividend in two words, its quotient in one.         *)
LEMMA PlaceFits ==
    ASSUME NEW b \in Nat \ {0}, NEW den \in 1 .. b, NEW r \in 0 .. den - 1, NEW a \in 0 .. b - 1
    PROVE  LET x == r * b + a
           IN  /\ x < b * b
               /\ x \div den \in 0 .. b - 1 /\ x % den \in 0 .. den - 1
               /\ x = den * (x \div den) + (x % den)
<1> DEFINE x == r * b + a
           k == x \div den
           s == x % den
           A == r * b
           C == den * b
<1>1. A \in Nat /\ C \in Nat /\ x = A + a /\ x \in Nat /\ den \in Nat \ {0}
  OBVIOUS
<1>2. C <= b * b /\ b * b \in Nat
  OBVIOUS
<1>3. A + b <= C
  <2>1. (r + 1) * b <= den * b
    OBVIOUS
  <2>2. (r + 1) * b = r * b + b
    OBVIOUS
  <2>. QED BY <2>1, <2>2
<1>5. C = den * b
  OBVIOUS
<1> HIDE DEF x, A, C
<1>4. k \in Nat /\ s \in 0 .. den - 1 /\ x = den * k + s
  BY <1>1, DivModFacts
<1> HIDE DEF k, s
<1>6. x < C
  BY <1>1, <1>3
<1>7. k < b
  <2> SUFFICES ASSUME k >= b PROVE FALSE
    BY <1>4
  <2>1. den * k >= den * b /\ den * k \in Nat
    BY <1>4
  <2>. QED BY <1>1, <1>4, <1>5, <1>6, <2>1
<1>8. x < b * b
  BY <1>1, <1>2, <1>6
<1>. QED BY <1>4, <1>7, <1>8 DEF x, k, s

(* Five places of a long division, in base b.                              *)
LEMMA FivePlaces ==
    ASSUME NEW b \in Nat, NEW den \in Nat \ {0},
           NEW a0 \in Nat, NEW a1 \in Nat, NEW a2 \in Nat, NEW a3 \in Nat, NEW a4 \in Nat,
           NEW q0 \in Nat, NEW q1 \in Nat, NEW q2 \in Nat, NEW q3 \in Nat, NEW q4 \in Nat,
           NEW r1 \in Nat, NEW r2 \in Nat, NEW r3 \in Nat, NEW r4 \in Nat,
           NEW r5 \in 0 .. den - 1,
           a0 = den * q0 + r1, r1 * b + a1 = den * q1 + r2, r2 * b + a2 = den * q2 + r3,
           r3 * b + a3 = den * q3 + r4, r4 * b + a4 = den * q4 + r5
    PROVE  LET A == b * (b * (b * (b * a0 + a1) + a2) + a3) + a4
               Q == b * (b * (b * (b * q0 + q1) + q2) + q3) + q4
           IN  A \in Nat /\ Q \in Nat /\ Q = A \div den
<1> DEFINE A1 == b * a0 + a1
           A2 == b * A1 + a2
           A3 == b * A2 + a3
           A4 == b * A3 + a4
           Q1 == b * q0 + q1
           Q2 == b * Q1 + q2
           Q3 == b * Q2 + q3
           Q4 == b * Q3 + q4
<1>0. A1 \in Nat /\ Q1 \in Nat
  OBVIOUS
<1>1. A1 = den * Q1 + r2
  BY DivisionStep
<1>2. A2 = b * A1 + a2 /\ Q2 = b * Q1 + q2
  OBVIOUS
<1> HIDE DEF A1, Q1
<1>3. A2 = den * Q2 + r3
  BY <1>0, <1>1, DivisionStep
<1>4. A2 \in Nat /\ Q2 \in Nat
  BY <1>0
<1> HIDE DEF A2, Q2
<1>5. A3 = den * Q3 + r4
  BY <1>3, <1>4, DivisionStep
<1>6. A3 \in Nat /\ Q3 \in Nat
  BY <1>4
<1> HIDE DEF A3, Q3
<1>7. A4 = den * Q4 + r5
  BY <1>5, <1>6, DivisionStep
<1>8. A4 \in Nat /\ Q4 \in Nat
  BY <1>6
<1> HIDE DEF A4, Q4
<1>9. Q4 = A4 \div den
  BY <1>7, <1>8, QuotientIs
<1>. QED BY <1>8, <1>9 DEF A1, A2, A3, A4, Q1, Q2, Q3, Q4

-----------------------------------------------------------------------------
(* The recursive function behind a sum.                                    *)

Chosen(s) == CHOOSE x \in s : TRUE

Unfolded(f, g, s) == IF s = {} THEN 0 ELSE f[Chosen(s)] + g[s \ {Chosen(s)}]

(* g gives the sum of f over each set of the collection D.                 *)
Sums(f, g, D) == g = [s \in D |-> Unfolded(f, g, s)]

AgreeOn(f, e, S) == \A i \in S : f[i] = e[i]

(* Any element may be the one that is taken out.                           *)
Splits(f, g, D) == \A U \in D : \A x \in U : g[U] = f[x] + g[U \ {x}]

LEMMA ChosenIsIn == ASSUME NEW s, s # {} PROVE Chosen(s) \in s
BY DEF Chosen

(* The sum of the community modules, with its operators unfolded.          *)
LEMMA SumDefinition ==
    ASSUME NEW f, NEW S
    PROVE  SumFunctionOnSet(f, S) = (CHOOSE g : Sums(f, g, SUBSET S))[S]
BY DEF SumFunctionOnSet, FoldFunctionOnSet, MapThenFoldSet, Sums, Unfolded, Chosen

(* There is such a function: built for sets of at most n elements, one     *)
(* after the other.                                                        *)
LEMMA SumsExist ==
    ASSUME NEW f, NEW S, IsFiniteSet(S)
    PROVE  \E g : Sums(f, g, SUBSET S)
<1> DEFINE D(n) == {s \in SUBSET S : Cardinality(s) <= n}
           N == {n \in Nat : \E g : Sums(f, g, D(n))}
<1>1. \A s \in SUBSET S : IsFiniteSet(s) /\ Cardinality(s) \in Nat
  BY FS_Subset, FS_CardinalityType
<1>2. 0 \in N
  <2> DEFINE g == [s \in D(0) |-> 0]
  <2>1. \A s \in D(0) : s = {}
    BY <1>1, FS_EmptySet
  <2>2. Sums(f, g, D(0))
    BY <2>1 DEF Sums, Unfolded
  <2>. QED BY <2>2
<1>3. ASSUME NEW n \in Nat, n \in N PROVE n + 1 \in N
  <2>1. PICK g : Sums(f, g, D(n))
    BY <1>3
  <2> DEFINE h == [s \in D(n + 1) |-> Unfolded(f, g, s)]
  <2>2. \A s \in D(n) : g[s] = Unfolded(f, g, s)
    BY <2>1 DEF Sums
  <2>3. ASSUME NEW s \in D(n + 1), s # {}
        PROVE  s \ {Chosen(s)} \in D(n) /\ s \ {Chosen(s)} \in D(n + 1)
    BY <1>1, <2>3, ChosenIsIn, FS_RemoveElement
  <2>4. \A s \in D(n + 1) : h[s] = Unfolded(f, g, s)
    OBVIOUS
  <2>5. ASSUME NEW s \in D(n + 1) PROVE Unfolded(f, g, s) = Unfolded(f, h, s)
    <3>1. CASE s = {}
      BY <3>1 DEF Unfolded
    <3>2. CASE s # {}
      <4>1. h[s \ {Chosen(s)}] = g[s \ {Chosen(s)}]
        BY <2>2, <2>3, <2>4, <3>2
      <4>. QED BY <4>1 DEF Unfolded
    <3>. QED BY <3>1, <3>2
  <2>6. Sums(f, h, D(n + 1))
    BY <2>4, <2>5 DEF Sums
  <2> HIDE DEF D, h
  <2>. QED BY <2>6
<1> HIDE DEF N
<1>4. \A n \in Nat : n \in N
  BY <1>2, <1>3, NatSetInduction
<1>5. PICK g : Sums(f, g, D(Cardinality(S)))
  BY <1>1, <1>4 DEF N
<1>6. D(Cardinality(S)) = SUBSET S
  BY FS_Subset
<1>. QED BY <1>5, <1>6

(* Sums of functions that agree on a set agree, wherever they come from.   *)
LEMMA SumsAgree ==
    ASSUME NEW f, NEW g, NEW S, Sums(f, g, SUBSET S),
           NEW e, NEW h, NEW T \in SUBSET S, Sums(e, h, SUBSET T),
           IsFiniteSet(T), AgreeOn(f, e, T)
    PROVE  AgreeOn(g, h, SUBSET T)
<1> DEFINE G == {U \in SUBSET T : g[U] = h[U]}
<1>1. ASSUME NEW U \in SUBSET T, \A x \in U : U \ {x} \in G PROVE U \in G
  <2>1. g[U] = Unfolded(f, g, U) /\ h[U] = Unfolded(e, h, U)
    BY DEF Sums
  <2>2. CASE U = {}
    BY <2>1, <2>2 DEF Unfolded
  <2>3. CASE U # {}
    <3>1. Chosen(U) \in U
      BY <2>3, ChosenIsIn
    <3>2. g[U \ {Chosen(U)}] = h[U \ {Chosen(U)}] /\ f[Chosen(U)] = e[Chosen(U)]
      BY <1>1, <3>1 DEF AgreeOn
    <3>. QED BY <2>1, <3>2 DEF Unfolded
  <2>. QED BY <2>2, <2>3
<1> HIDE DEF G
<1>2. \A U \in SUBSET T : U \in G
  BY <1>1, SubsetInduction
<1>. QED BY <1>2 DEF G, AgreeOn

(* A sum of integers is an integer, and one of naturals a natural.         *)
LEMMA SumsTyped ==
    ASSUME NEW f, NEW g, NEW S, IsFiniteSet(S), Sums(f, g, SUBSET S),
           NEW N, 0 \in N, \A i, j \in N : i + j \in N,
           \A i \in S : f[i] \in N
    PROVE  \A U \in SUBSET S : g[U] \in N
<1> DEFINE G == {U \in SUBSET S : g[U] \in N}
<1>1. ASSUME NEW U \in SUBSET S, \A x \in U : U \ {x} \in G PROVE U \in G
  <2>1. g[U] = Unfolded(f, g, U)
    BY DEF Sums
  <2>2. U # {} => Chosen(U) \in U
    BY ChosenIsIn
  <2>. QED BY <1>1, <2>1, <2>2 DEF Unfolded
<1> HIDE DEF G
<1>2. \A U \in SUBSET S : U \in G
  BY <1>1, SubsetInduction
<1>. QED BY <1>2 DEF G

LEMMA SumsRemove ==
    ASSUME NEW f, NEW g, NEW S, IsFiniteSet(S), Sums(f, g, SUBSET S),
           \A i \in S : f[i] \in Int
    PROVE  Splits(f, g, SUBSET S)
<1> DEFINE G == {U \in SUBSET S : \A x \in U : g[U] = f[x] + g[U \ {x}]}
<1>0. \A U \in SUBSET S : g[U] \in Int
  <2>1. 0 \in Int /\ \A i, j \in Int : i + j \in Int
    OBVIOUS
  <2>. QED BY <2>1, SumsTyped
<1>1. ASSUME NEW U \in SUBSET S, \A x \in U : U \ {x} \in G PROVE U \in G
  <2> SUFFICES ASSUME NEW x \in U PROVE g[U] = f[x] + g[U \ {x}]
    OBVIOUS
  <2> DEFINE c == Chosen(U)
  <2>1. c \in U /\ g[U] = f[c] + g[U \ {c}]
    BY ChosenIsIn DEF Sums, Unfolded
  <2> HIDE DEF c
  <2>2. CASE x = c
    BY <2>1, <2>2
  <2>3. CASE x # c
    <3> DEFINE V == (U \ {c}) \ {x}
    <3>1. /\ g[U \ {c}] = f[x] + g[V]
          /\ g[U \ {x}] = f[c] + g[V]
      <4>1. V = (U \ {x}) \ {c} /\ x \in U \ {c} /\ c \in U \ {x}
        BY <2>1, <2>3
      <4>. QED BY <1>1, <2>1, <4>1
    <3>2. f[x] \in Int /\ f[c] \in Int /\ g[V] \in Int
      BY <1>0, <2>1
    <3>. QED BY <2>1, <3>1, <3>2
  <2>. QED BY <2>2, <2>3
<1> HIDE DEF G
<1>2. \A U \in SUBSET S : U \in G
  BY <1>1, SubsetInduction
<1>. QED BY <1>2 DEF G, Splits

-----------------------------------------------------------------------------
(* What the models' proofs use.                                            *)

(* The sum over a set is the value of one function for all its subsets.    *)
LEMMA SumsGive ==
    ASSUME NEW f, NEW S, IsFiniteSet(S)
    PROVE  \E g : /\ Sums(f, g, SUBSET S)
                  /\ \A U \in SUBSET S : SumFunctionOnSet(f, U) = g[U]
<1>1. PICK g : Sums(f, g, SUBSET S)
  BY SumsExist
<1>2. ASSUME NEW U \in SUBSET S PROVE SumFunctionOnSet(f, U) = g[U]
  <2> DEFINE h == CHOOSE h : Sums(f, h, SUBSET U)
  <2>1. IsFiniteSet(U)
    BY FS_Subset
  <2>2. Sums(f, h, SUBSET U)
    BY <2>1, SumsExist
  <2>3. SumFunctionOnSet(f, U) = h[U]
    BY SumDefinition
  <2> HIDE DEF h
  <2>4. AgreeOn(f, f, U)
    BY DEF AgreeOn
  <2>5. AgreeOn(g, h, SUBSET U)
    BY <1>1, <2>1, <2>2, <2>4, SumsAgree
  <2>. QED BY <2>3, <2>5 DEF AgreeOn
<1>. QED BY <1>1, <1>2

(* Nothing sums to nothing.                                                *)
LEMMA SumEmpty == ASSUME NEW f PROVE SumFunctionOnSet(f, {}) = 0
<1>1. PICK g : Sums(f, g, SUBSET {}) /\ SumFunctionOnSet(f, {}) = g[{}]
  BY SumsGive, FS_EmptySet
<1>. QED BY <1>1 DEF Sums, Unfolded

(* A sum depends on nothing but the values that are added.                 *)
LEMMA SumAgree ==
    ASSUME NEW f, NEW e, NEW S, IsFiniteSet(S), AgreeOn(f, e, S)
    PROVE  SumFunctionOnSet(f, S) = SumFunctionOnSet(e, S)
<1>1. PICK g : Sums(f, g, SUBSET S) /\ SumFunctionOnSet(f, S) = g[S]
  BY SumsGive
<1>2. PICK h : Sums(e, h, SUBSET S) /\ SumFunctionOnSet(e, S) = h[S]
  BY SumsGive
<1>3. AgreeOn(g, h, SUBSET S)
  BY <1>1, <1>2, SumsAgree
<1>. QED BY <1>1, <1>2, <1>3 DEF AgreeOn

(* Sums of integers are integers, and sums of naturals naturals.           *)
LEMMA SumTyped ==
    ASSUME NEW f, NEW S, IsFiniteSet(S), \A i \in S : f[i] \in Int
    PROVE  /\ SumFunctionOnSet(f, S) \in Int
           /\ (\A i \in S : f[i] \in Nat) => SumFunctionOnSet(f, S) \in Nat
<1>1. PICK g : Sums(f, g, SUBSET S) /\ SumFunctionOnSet(f, S) = g[S]
  BY SumsGive
<1>2. /\ 0 \in Int /\ \A i, j \in Int : i + j \in Int
      /\ 0 \in Nat /\ \A i, j \in Nat : i + j \in Nat
  OBVIOUS
<1>3. \A U \in SUBSET S : g[U] \in Int
  BY <1>1, <1>2, SumsTyped
<1>4. (\A i \in S : f[i] \in Nat) => \A U \in SUBSET S : g[U] \in Nat
  BY <1>1, <1>2, SumsTyped
<1>. QED BY <1>1, <1>3, <1>4

(* Zeros sum to zero.                                                      *)
LEMMA SumZero ==
    ASSUME NEW f, NEW S, IsFiniteSet(S), \A i \in S : f[i] = 0
    PROVE  SumFunctionOnSet(f, S) = 0
<1>1. PICK g : Sums(f, g, SUBSET S) /\ SumFunctionOnSet(f, S) = g[S]
  BY SumsGive
<1> DEFINE Z == {0}
<1>2. 0 \in Z /\ (\A i, j \in Z : i + j \in Z) /\ \A i \in S : f[i] \in Z
  OBVIOUS
<1> HIDE DEF Z
<1>3. \A U \in SUBSET S : g[U] \in Z
  BY <1>1, <1>2, SumsTyped
<1>. QED BY <1>1, <1>3 DEF Z

(* A sum is any one of its terms and the sum of the others.                *)
LEMMA SumRemove ==
    ASSUME NEW f, NEW S, IsFiniteSet(S), \A i \in S : f[i] \in Int, NEW x \in S
    PROVE  SumFunctionOnSet(f, S) = f[x] + SumFunctionOnSet(f, S \ {x})
<1>1. PICK g : /\ Sums(f, g, SUBSET S)
               /\ \A U \in SUBSET S : SumFunctionOnSet(f, U) = g[U]
  BY SumsGive
<1>2. Splits(f, g, SUBSET S)
  BY <1>1, SumsRemove
<1>. QED BY <1>1, <1>2 DEF Splits

(* One more term.                                                          *)
LEMMA SumAdd ==
    ASSUME NEW f, NEW S, IsFiniteSet(S), NEW x, x \notin S,
           \A i \in S \union {x} : f[i] \in Int
    PROVE  SumFunctionOnSet(f, S \union {x}) = SumFunctionOnSet(f, S) + f[x]
<1> DEFINE T == S \union {x}
<1>1. IsFiniteSet(T) /\ x \in T /\ T \ {x} = S
  BY FS_AddElement
<1>2. SumFunctionOnSet(f, T) = f[x] + SumFunctionOnSet(f, S)
  BY <1>1, SumRemove
<1>3. f[x] \in Int /\ SumFunctionOnSet(f, S) \in Int
  BY SumTyped
<1>. QED BY <1>2, <1>3

(* One term is changed.                                                    *)
LEMMA SumChange ==
    ASSUME NEW f, NEW e, NEW S, IsFiniteSet(S), NEW x \in S,
           \A i \in S : f[i] \in Int /\ e[i] \in Int,
           \A i \in S \ {x} : e[i] = f[i]
    PROVE  SumFunctionOnSet(e, S) = SumFunctionOnSet(f, S) - f[x] + e[x]
<1>1. IsFiniteSet(S \ {x})
  BY FS_RemoveElement
<1>2. SumFunctionOnSet(e, S \ {x}) = SumFunctionOnSet(f, S \ {x})
  BY <1>1, SumAgree DEF AgreeOn
<1>3. /\ SumFunctionOnSet(f, S) = f[x] + SumFunctionOnSet(f, S \ {x})
      /\ SumFunctionOnSet(e, S) = e[x] + SumFunctionOnSet(e, S \ {x})
  BY SumRemove
<1>4. SumFunctionOnSet(f, S \ {x}) \in Int
  BY <1>1, SumTyped
<1>. QED BY <1>2, <1>3, <1>4

(* A sum over a whole function, one entry of which may be new.             *)
LEMMA SumAppend ==
    ASSUME NEW f, NEW e, NEW n \in Nat, DOMAIN f = 1..n, DOMAIN e = 1..(n + 1),
           \A i \in 1..n : f[i] \in Int /\ e[i] = f[i], e[n + 1] \in Int
    PROVE  SumFunction(e) = SumFunction(f) + e[n + 1]
<1>1. /\ IsFiniteSet(1..n)
      /\ n + 1 \notin 1..n /\ 1..(n + 1) = 1..n \union {n + 1}
  <2>1. IsFiniteSet(1..n)
    BY FS_Interval
  <2>. QED BY <2>1
<1>2. \A i \in 1..n \union {n + 1} : e[i] \in Int
  OBVIOUS
<1>3. SumFunctionOnSet(e, 1..n \union {n + 1}) = SumFunctionOnSet(e, 1..n) + e[n + 1]
  BY <1>1, <1>2, SumAdd
<1>4. SumFunctionOnSet(e, 1..n) = SumFunctionOnSet(f, 1..n)
  BY <1>1, SumAgree DEF AgreeOn
<1>. QED BY <1>1, <1>3, <1>4 DEF SumFunction

(* Terms between 0 and c: their sum is at most c for each, and no less     *)
(* when every term is c.                                                   *)
LEMMA SumBound ==
    ASSUME NEW f, NEW S, IsFiniteSet(S), NEW c \in Nat, \A i \in S : f[i] \in 0..c
    PROVE  /\ SumFunctionOnSet(f, S) <= c * Cardinality(S)
           /\ (\A i \in S : f[i] = c) => SumFunctionOnSet(f, S) = c * Cardinality(S)
<1> DEFINE sum(U) == SumFunctionOnSet(f, U)
           G == {U \in SUBSET S :
                   /\ sum(U) <= c * Cardinality(U)
                   /\ (\A i \in U : f[i] = c) => sum(U) = c * Cardinality(U)}
<1>1. ASSUME NEW U \in SUBSET S, \A x \in U : U \ {x} \in G PROVE U \in G
  <2>1. IsFiniteSet(U)
    BY FS_Subset
  <2>2. CASE U = {}
    <3>1. sum(U) = 0 /\ Cardinality(U) = 0 /\ c * 0 = 0
      BY <2>2, SumEmpty, FS_EmptySet
    <3>. QED BY <3>1
  <2>3. CASE U # {}
    <3>1. PICK x \in U : TRUE
      BY <2>3
    <3> DEFINE V == U \ {x}
               v == sum(V)
               n == Cardinality(V)
    <3>2. sum(U) = f[x] + v
      BY <2>1, SumRemove
    <3>3. IsFiniteSet(V) /\ V \in G
      BY <1>1, <2>1, FS_RemoveElement
    <3>4. v \in Int
      BY <3>3, SumTyped
    <3>5. n \in Nat /\ Cardinality(U) = n + 1
      <4>1. n = Cardinality(U) - 1 /\ Cardinality(U) \in Nat
        BY <2>1, <3>1, FS_RemoveElement, FS_CardinalityType
      <4>2. n \in Nat
        BY <3>3, FS_CardinalityType
      <4>. QED BY <4>1, <4>2
    <3>6. v <= c * n /\ ((\A i \in V : f[i] = c) => v = c * n)
      BY <3>3
    <3>7. f[x] \in 0..c /\ c * n \in Int /\ c * (n + 1) = c * n + c
      BY <3>1, <3>5
    <3> HIDE DEF v, n, sum
    <3>8. sum(U) <= c * (n + 1)
      BY <3>2, <3>4, <3>6, <3>7
    <3>9. ASSUME \A i \in U : f[i] = c PROVE sum(U) = c * (n + 1)
      <4>1. f[x] = c /\ \A i \in V : f[i] = c
        BY <3>1, <3>9
      <4>. QED BY <3>2, <3>6, <3>7, <4>1
    <3>. QED BY <3>5, <3>8, <3>9
  <2>. QED BY <2>2, <2>3
<1> HIDE DEF G
<1>2. \A U \in SUBSET S : U \in G
  BY <1>1, SubsetInduction
<1>. QED BY <1>2 DEF G

=============================================================================
