----------------------------- MODULE FoldLemmas -----------------------------
(***************************************************************************)
(* What the operators of the fold kernel compute, for all rational numbers *)
(* and for lists of any length: the arithmetic of Rationals, sums, the     *)
(* loops that take from the front of a list, what a deposit, a cover and a *)
(* drain do to a bucket, and the legs of a trade to the wallet, the        *)
(* trackers and the accumulators.  Cited by FoldKernelProofs.              *)
(*                                                                         *)
(* Induction over lists and sums is done with sets: of the numbers up to   *)
(* which a claim fails, WellFoundedInduction gives the least.              *)
(***************************************************************************)
EXTENDS FoldKernel, FiniteSetTheorems, SequenceTheorems, WellFoundedInduction,
        TLAPS

Pos == Nat \ {0}

(***************************************************************************)
(* Induction over the natural numbers                                      *)
(***************************************************************************)

LessThan == OpToRel(<, Nat)

LEMMA LessThanFacts ==
  /\ IsWellFoundedOn(LessThan, Nat)
  /\ \A x \in Nat : \A y \in Nat : <<y, x>> \in LessThan <=> y < x
<1>1. IsWellFoundedOn(LessThan, Nat)
  BY NatLessThanWellFounded DEF LessThan
<1>2. \A x \in Nat : \A y \in Nat : <<y, x>> \in LessThan <=> y < x
  BY DEF OpToRel, LessThan
<1> QED
  BY <1>1, <1>2

LEMMA NotLess == \A x \in Nat : \A y \in Nat : ~(y < x) => x <= y
OBVIOUS

\* A set of natural numbers has a least element.
LEMMA HasLeast ==
  ASSUME NEW T, T \subseteq Nat, T # {}
  PROVE  \E x \in T : \A y \in T : x <= y
<1>1. PICK x \in T : \A y \in T : <<y, x>> \notin LessThan
  BY LessThanFacts, WFMin
<1>2. \A y \in T : x <= y
  BY <1>1, LessThanFacts, NotLess, Zenon
<1> QED
  BY <1>1, <1>2

\* Induction, the property being given as a set.
LEMMA Induction ==
  ASSUME NEW S, 0 \in S, \A n \in Nat : n \in S => n + 1 \in S
  PROVE  \A n \in Nat : n \in S
<1> SUFFICES ASSUME NEW k \in Nat, k \notin S PROVE FALSE
  OBVIOUS
<1> DEFINE T == {n \in Nat : n \notin S}
<1>1. PICK x \in T : \A y \in T : x <= y
  <2>1. T # {} /\ T \subseteq Nat
    OBVIOUS
  <2> HIDE DEF T
  <2> QED
    BY <2>1, HasLeast
<1>2. x # 0 /\ x \in Nat
  OBVIOUS
<1>3. x - 1 \in Nat /\ x - 1 \notin T
  BY <1>1, <1>2
<1>4. x - 1 \in S
  BY <1>3
<1> QED
  BY <1>1, <1>2, <1>3, <1>4

(***************************************************************************)
(* Rational numbers                                                        *)
(***************************************************************************)

LEMMA DivMod ==
  ASSUME NEW m \in Int, NEW d \in Pos
  PROVE  m = d * (m \div d) + (m % d) /\ m \div d \in Int /\ m % d \in 0..d-1
BY DEF Pos

LEMMA ModZero ==
  ASSUME NEW p \in Int, NEW d \in Pos
  PROVE  (p * d) % d = 0 /\ (p * d) \div d = p
BY DEF Pos

LEMMA Cancel ==
  ASSUME NEW a \in Int, NEW b \in Int, NEW d \in Pos, a * d = b * d
  PROVE a = b
BY DEF Pos

Divisible(n, d, q) == (n * q) % d = 0

\* The least denominator is one, and no smaller one is.
LEMMA LeastDenProp ==
  ASSUME NEW n \in Int, NEW d \in Pos
  PROVE  /\ LeastDen(n, d) \in 1..d
         /\ Divisible(n, d, LeastDen(n, d))
         /\ \A r \in 1..LeastDen(n, d) - 1 : ~Divisible(n, d, r)
<1> DEFINE S == {q \in 1..d : Divisible(n, d, q)}
<1>1. d \in S
  BY ModZero DEF Divisible, Pos
<1>2. S \subseteq Nat
  OBVIOUS
<1>3. PICK q \in S : \A m \in S : q <= m
  <2> HIDE DEF S
  <2> QED BY <1>1, <1>2, HasLeast
<1>4. \A r \in 1..q - 1 : ~Divisible(n, d, r)
  BY <1>3 DEF Pos
<1>5. \E k \in 1..d : (n * k) % d = 0 /\ \A r \in 1..k - 1 : (n * r) % d # 0
  BY <1>3, <1>4 DEF Divisible
<1> QED
  BY <1>5 DEF LeastDen, Divisible

\* A denominator in equations.
LEMMA DivisibleEq ==
  ASSUME NEW n \in Int, NEW d \in Pos, NEW q \in Pos
  PROVE  /\ Divisible(n, d, q) <=> \E p \in Int : p * d = n * q
         /\ Divisible(n, d, q) => ((n * q) \div d) * d = n * q
<1>0. n * q \in Int
  BY DEF Pos
<1>1. Divisible(n, d, q) => ((n * q) \div d) * d = n * q /\ (n * q) \div d \in Int
  <2> DEFINE m == n * q
  <2> m \in Int BY <1>0
  <2> HIDE DEF m
  <2>1. m % d = 0 => (m \div d) * d = m /\ m \div d \in Int
    BY DivMod DEF Pos
  <2> QED BY <2>1 DEF m, Divisible
<1>2. ASSUME NEW p \in Int, p * d = n * q PROVE Divisible(n, d, q)
  BY <1>2, ModZero DEF Divisible
<1> QED
  BY <1>1, <1>2

\* Equal ratios have the same denominators,
LEMMA SameDens ==
  ASSUME NEW n \in Int, NEW d \in Pos, NEW m \in Int, NEW e \in Pos, n * e = m * d,
         NEW q \in Pos, Divisible(n, d, q)
  PROVE  Divisible(m, e, q)
<1>1. PICK p \in Int : p * d = n * q
  BY DivisibleEq
<1>2. (p * e) * d = (m * q) * d
  BY <1>1 DEF Pos
<1>3. p * e = m * q
  BY <1>2, Cancel DEF Pos
<1> QED
  BY <1>3, DivisibleEq

\* and so the same canonical form.
LEMMA SameRatio ==
  ASSUME NEW n \in Int, NEW d \in Pos, NEW m \in Int, NEW e \in Pos, n * e = m * d
  PROVE  Reduced(n, d) = Reduced(m, e)
<1> DEFINE q == LeastDen(n, d)
           r == LeastDen(m, e)
<1>1. q \in Pos /\ Divisible(n, d, q) /\ \A k \in 1..q - 1 : ~Divisible(n, d, k)
  <2>1. /\ q \in 1..d /\ Divisible(n, d, q)
        /\ \A k \in 1..q - 1 : ~Divisible(n, d, k)
    BY LeastDenProp, Zenon
  <2> QED
    BY <2>1 DEF Pos
<1>2. r \in Pos /\ Divisible(m, e, r) /\ \A k \in 1..r - 1 : ~Divisible(m, e, k)
  <2>1. /\ r \in 1..e /\ Divisible(m, e, r)
        /\ \A k \in 1..r - 1 : ~Divisible(m, e, k)
    BY LeastDenProp, Zenon
  <2> QED
    BY <2>1 DEF Pos
<1> HIDE DEF q, r
<1>3. Divisible(m, e, q) /\ Divisible(n, d, r)
  BY <1>1, <1>2, SameDens
<1>4. q = r
  BY <1>1, <1>2, <1>3 DEF Pos
<1>5. ((n * q) \div d) * d = n * q /\ ((m * q) \div e) * e = m * q
  BY <1>1, <1>3, DivisibleEq
<1> DEFINE p == (n * q) \div d
           s == (m * q) \div e
<1>6. p \in Int /\ s \in Int
  <2>1. n * q \in Int /\ m * q \in Int BY <1>1 DEF Pos
  <2> QED BY <2>1, DivMod
<1>7. p * d = n * q /\ s * e = m * q
  BY <1>5
<1> HIDE DEF p, s
<1>8. (p * e) * d = (s * e) * d
  BY <1>6, <1>7, <1>1 DEF Pos
<1>9. p * e = s * e
  BY <1>6, <1>8, Cancel DEF Pos
<1>10. p = s
  BY <1>6, <1>9, Cancel
<1> QED
  BY <1>4, <1>10 DEF p, s, q, r, Reduced, WithDen

\* The canonical form of a ratio is equal to it.
LEMMA ReducedIs ==
  ASSUME NEW n \in Int, NEW d \in Pos
  PROVE  /\ Reduced(n, d) = <<Reduced(n, d)[1], Reduced(n, d)[2]>>
         /\ Reduced(n, d)[1] \in Int /\ Reduced(n, d)[2] \in Pos
         /\ Reduced(n, d)[1] * d = n * Reduced(n, d)[2]
<1> DEFINE q == LeastDen(n, d)
<1>1. q \in Pos /\ Divisible(n, d, q)
  BY LeastDenProp DEF Pos
<1> HIDE DEF q
<1>2. ((n * q) \div d) * d = n * q
  BY <1>1, DivisibleEq
<1>3. (n * q) \div d \in Int
  <2>1. n * q \in Int BY <1>1 DEF Pos
  <2> QED BY <2>1, DivMod
<1>4. Reduced(n, d) = <<(n * q) \div d, q>>
  BY DEF q, Reduced, WithDen
<1> QED
  BY <1>1, <1>2, <1>3, <1>4

\* Every rational number is a ratio, and every ratio a rational number.
LEMMA RatRatio ==
  ASSUME NEW r \in Rat
  PROVE  /\ r[1] \in Int /\ r[2] \in Pos
         /\ r = Reduced(r[1], r[2])
BY DEF Rat, Pos

LEMMA RatioRat ==
  ASSUME NEW n \in Int, NEW d \in Pos
  PROVE  Reduced(n, d) \in Rat
<1> DEFINE p == Reduced(n, d)[1]
           q == Reduced(n, d)[2]
<1>1. p \in Int /\ q \in Pos /\ p * d = n * q /\ Reduced(n, d) = <<p, q>>
  BY ReducedIs, Zenon
<1> HIDE DEF p, q
<1>2. Reduced(p, q) = Reduced(n, d)
  BY <1>1, SameRatio
<1>3. <<p, q>>[1] = p /\ <<p, q>>[2] = q
  OBVIOUS
<1>4. <<p, q>> \in Int \X (Nat \ {0})
  BY <1>1 DEF Pos
<1> QED
  BY <1>1, <1>2, <1>3, <1>4 DEF Rat

\* Numbers with a common denominator are equal if their numerators are.
LEMMA RatioEq ==
  ASSUME NEW d \in Pos, NEW x \in Int, NEW y \in Int, Reduced(x, d) = Reduced(y, d)
  PROVE  x = y
<1> DEFINE p == Reduced(x, d)[1]
           q == Reduced(x, d)[2]
<1>1. p \in Int /\ q \in Pos /\ p * d = x * q /\ p * d = y * q
  BY ReducedIs
<1> QED
  BY <1>1, Cancel

LEMMA RatioLess ==
  ASSUME NEW d \in Pos, NEW x \in Int, NEW y \in Int
  PROVE  /\ Reduced(x, d) \prec Reduced(y, d) <=> x < y
         /\ Reduced(x, d) \preceq Reduced(y, d) <=> x <= y
<1> DEFINE p == Reduced(x, d)[1]
           q == Reduced(x, d)[2]
           r == Reduced(y, d)[1]
           s == Reduced(y, d)[2]
<1>1. p \in Int /\ q \in Pos /\ r \in Int /\ s \in Pos /\ p * d = x * q /\ r * d = y * s
  BY ReducedIs
<1>2. /\ Reduced(x, d) \prec Reduced(y, d) <=> p * s < r * q
      /\ Reduced(x, d) \preceq Reduced(y, d) <=> p * s <= r * q
  BY DEF \prec, \preceq
<1> HIDE DEF p, q, r, s
<1>3. (p * s) * d = x * (q * s) /\ (r * q) * d = y * (q * s)
  BY <1>1 DEF Pos
<1>4. q * s \in Pos /\ p * s \in Int /\ r * q \in Int
  BY <1>1 DEF Pos
<1>5. p * s < r * q <=> x < y
  <2> DEFINE u == p * s
             v == r * q
             w == q * s
  <2> u \in Int /\ v \in Int /\ w \in Pos
    BY <1>4
  <2>1. u * d = x * w /\ v * d = y * w
    BY <1>3
  <2> HIDE DEF u, v, w
  <2>2. u < v <=> u * d < v * d
    BY DEF Pos
  <2>3. x < y <=> x * w < y * w
    BY DEF Pos
  <2>4. u < v <=> x < y
    BY <2>1, <2>2, <2>3
  <2> QED
    BY <2>4 DEF u, v
<1>6. p * s = r * q <=> x = y
  <2>1. x = y => (p * s) * d = (r * q) * d
    BY <1>3
  <2>2. x = y => p * s = r * q
    BY <2>1, <1>4, Cancel
  <2>3. p * s = r * q => x * (q * s) = y * (q * s)
    BY <1>3
  <2>4. p * s = r * q => x = y
    BY <2>3, <1>4, Cancel
  <2> QED
    BY <2>2, <2>4
<1>7. p * s <= r * q <=> x <= y
  BY <1>4, <1>5, <1>6
<1> QED
  BY <1>2, <1>5, <1>7

\* Sums and differences of numbers with a common denominator,
LEMMA RatioAdd ==
  ASSUME NEW d \in Pos, NEW x \in Int, NEW y \in Int
  PROVE  /\ Reduced(x, d) ++ Reduced(y, d) = Reduced(x + y, d)
         /\ Reduced(x, d) -- Reduced(y, d) = Reduced(x - y, d)
<1> DEFINE p == Reduced(x, d)[1]
           q == Reduced(x, d)[2]
           r == Reduced(y, d)[1]
           s == Reduced(y, d)[2]
<1>1. p \in Int /\ q \in Pos /\ r \in Int /\ s \in Pos /\ p * d = x * q /\ r * d = y * s
  BY ReducedIs
<1>2. /\ Reduced(x, d) ++ Reduced(y, d) = Reduced(p * s + r * q, q * s)
      /\ Reduced(x, d) -- Reduced(y, d) = Reduced(p * s - r * q, q * s)
  BY DEF ++, --
<1> HIDE DEF p, q, r, s
<1>3. (p * s) * d = x * (q * s) /\ (r * q) * d = y * (q * s)
  BY <1>1 DEF Pos
<1>4. q * s \in Pos /\ p * s \in Int /\ r * q \in Int
  BY <1>1 DEF Pos
<1>5. /\ p * s + r * q \in Int /\ p * s - r * q \in Int
      /\ (p * s + r * q) * d = (x + y) * (q * s)
      /\ (p * s - r * q) * d = (x - y) * (q * s)
  <2> DEFINE u == p * s
             v == r * q
             w == q * s
  <2> u \in Int /\ v \in Int /\ w \in Pos
    BY <1>4
  <2>1. u * d = x * w /\ v * d = y * w
    BY <1>3
  <2> HIDE DEF u, v, w
  <2>2. (u + v) * d = u * d + v * d /\ (u - v) * d = u * d - v * d
    BY DEF Pos
  <2>3. (x + y) * w = x * w + y * w /\ (x - y) * w = x * w - y * w
    BY DEF Pos
  <2>4. (u + v) * d = (x + y) * w /\ (u - v) * d = (x - y) * w
    BY <2>1, <2>2, <2>3
  <2> QED
    BY <2>4 DEF u, v, w
<1>6. x + y \in Int /\ x - y \in Int
  OBVIOUS
<1>7. Reduced(p * s + r * q, q * s) = Reduced(x + y, d)
  BY <1>4, <1>5, <1>6, SameRatio
<1>8. Reduced(p * s - r * q, q * s) = Reduced(x - y, d)
  BY <1>4, <1>5, <1>6, SameRatio
<1> QED
  BY <1>2, <1>7, <1>8

\* products, and quotients.
LEMMA RatioMul ==
  ASSUME NEW d \in Pos, NEW e \in Pos, NEW x \in Int, NEW y \in Int
  PROVE  Reduced(x, d) ** Reduced(y, e) = Reduced(x * y, d * e)
<1> DEFINE p == Reduced(x, d)[1]
           q == Reduced(x, d)[2]
           r == Reduced(y, e)[1]
           s == Reduced(y, e)[2]
<1>1. p \in Int /\ q \in Pos /\ r \in Int /\ s \in Pos /\ p * d = x * q /\ r * e = y * s
  BY ReducedIs
<1>2. Reduced(x, d) ** Reduced(y, e) = Reduced(p * r, q * s)
  BY DEF **
<1> HIDE DEF p, q, r, s
<1>3. (p * r) * (d * e) = (p * d) * (r * e)
  BY <1>1 DEF Pos
<1>4. (x * y) * (q * s) = (x * q) * (y * s)
  BY <1>1 DEF Pos
<1>5. (p * r) * (d * e) = (x * y) * (q * s)
  BY <1>1, <1>3, <1>4
<1>6. p * r \in Int /\ q * s \in Pos /\ x * y \in Int /\ d * e \in Pos
  BY <1>1 DEF Pos
<1>7. Reduced(p * r, q * s) = Reduced(x * y, d * e)
  BY <1>5, <1>6, SameRatio
<1> QED
  BY <1>2, <1>7

LEMMA RatioDiv ==
  ASSUME NEW d \in Pos, NEW x \in Int, NEW y \in Pos
  PROVE  Reduced(x, d) // Reduced(y, d) = Reduced(x, y)
<1> DEFINE p == Reduced(x, d)[1]
           q == Reduced(x, d)[2]
           r == Reduced(y, d)[1]
           s == Reduced(y, d)[2]
<1>0. y \in Int
  BY DEF Pos
<1>1. p \in Int /\ q \in Pos /\ r \in Int /\ s \in Pos /\ p * d = x * q /\ r * d = y * s
  BY <1>0, ReducedIs
<1>2. Reduced(x, d) // Reduced(y, d) = Reduced(p * s, q * r)
  BY DEF //
<1> HIDE DEF p, q, r, s
<1>3. r \in Pos
  <2>1. y * s > 0
    BY <1>1 DEF Pos
  <2> QED
    BY <1>1, <2>1 DEF Pos
<1>4. (p * s) * y * d = (p * d) * (s * y)
  BY <1>0, <1>1 DEF Pos
<1>5. (x * (q * r)) * d = (x * q) * (r * d)
  BY <1>0, <1>1 DEF Pos
<1>6. ((p * s) * y) * d = (x * (q * r)) * d
  BY <1>0, <1>1, <1>4, <1>5 DEF Pos
<1>7. p * s \in Int /\ q * r \in Pos /\ (p * s) * y \in Int /\ x * (q * r) \in Int
  BY <1>0, <1>1, <1>3 DEF Pos
<1>8. (p * s) * y = x * (q * r)
  BY <1>6, <1>7, Cancel
<1>9. Reduced(p * s, q * r) = Reduced(x, y)
  BY <1>7, <1>8, SameRatio
<1> QED
  BY <1>2, <1>9

LEMMA RatioScale ==
  ASSUME NEW d \in Pos, NEW k \in Pos, NEW x \in Int
  PROVE  d * k \in Pos /\ x * k \in Int /\ Reduced(x, d) = Reduced(x * k, d * k)
<1>1. d * k \in Pos /\ x * k \in Int
  BY DEF Pos
<1>2. x * (d * k) = (x * k) * d
  BY DEF Pos
<1> QED
  BY <1>1, <1>2, SameRatio

\* A common denominator can be widened to one more number,
LEMMA Widen ==
  ASSUME NEW d \in Pos, NEW c \in Rat
  PROVE  \E k \in Pos, z \in Int :
           /\ d * k \in Pos
           /\ c = Reduced(z, d * k)
           /\ \A x \in Int : x * k \in Int /\ Reduced(x, d) = Reduced(x * k, d * k)
<1>1. c[1] \in Int /\ c[2] \in Pos /\ c = Reduced(c[1], c[2])
  BY RatRatio
<1>2. d * c[2] = c[2] * d
  BY <1>1 DEF Pos
<1>3. c[2] * d \in Pos /\ c[1] * d \in Int /\ c = Reduced(c[1] * d, c[2] * d)
  BY <1>1, RatioScale
<1>4. \A x \in Int : x * c[2] \in Int /\ Reduced(x, d) = Reduced(x * c[2], d * c[2])
  BY <1>1, RatioScale
<1> QED
  BY <1>1, <1>2, <1>3, <1>4

\* so finitely many numbers have one.
LEMMA Common2 ==
  ASSUME NEW a \in Rat, NEW b \in Rat
  PROVE  \E d \in Pos, x \in Int, y \in Int : a = Reduced(x, d) /\ b = Reduced(y, d)
<1>1. a[1] \in Int /\ a[2] \in Pos /\ a = Reduced(a[1], a[2])
  BY RatRatio
<1>2. PICK k \in Pos, z \in Int :
        /\ a[2] * k \in Pos
        /\ b = Reduced(z, a[2] * k)
        /\ \A x \in Int : x * k \in Int /\ Reduced(x, a[2]) = Reduced(x * k, a[2] * k)
  BY <1>1, Widen
<1> QED
  BY <1>1, <1>2

LEMMA Common3 ==
  ASSUME NEW a \in Rat, NEW b \in Rat, NEW c \in Rat
  PROVE  \E d \in Pos, x \in Int, y \in Int, z \in Int :
           a = Reduced(x, d) /\ b = Reduced(y, d) /\ c = Reduced(z, d)
<1>1. PICK d \in Pos, x \in Int, y \in Int : a = Reduced(x, d) /\ b = Reduced(y, d)
  BY Common2
<1>2. PICK k \in Pos, z \in Int :
        /\ d * k \in Pos
        /\ c = Reduced(z, d * k)
        /\ \A n \in Int : n * k \in Int /\ Reduced(n, d) = Reduced(n * k, d * k)
  BY Widen
<1> QED
  BY <1>1, <1>2

HaveCommon(a, b, c, e) ==
  \E d \in Pos, x \in Int, y \in Int, z \in Int, u \in Int :
    /\ a = Reduced(x, d) /\ b = Reduced(y, d)
    /\ c = Reduced(z, d) /\ e = Reduced(u, d)

LEMMA Common4 ==
  ASSUME NEW a \in Rat, NEW b \in Rat, NEW c \in Rat, NEW e \in Rat
  PROVE  HaveCommon(a, b, c, e)
<1>1. PICK d \in Pos, x \in Int, y \in Int, z \in Int :
        a = Reduced(x, d) /\ b = Reduced(y, d) /\ c = Reduced(z, d)
  BY Common3
<1>2. PICK k \in Pos, u \in Int :
        /\ d * k \in Pos
        /\ e = Reduced(u, d * k)
        /\ \A n \in Int : n * k \in Int /\ Reduced(n, d) = Reduced(n * k, d * k)
  BY Widen
<1> QED
  BY <1>1, <1>2 DEF HaveCommon

LEMMA ZeroRatio == ASSUME NEW d \in Pos PROVE Zero = Reduced(0, d)
<1>1. Reduced(0, 1) = Reduced(0, d)
  <2>1. 0 * d = 0 * 1 /\ 0 \in Int /\ 1 \in Pos
    BY DEF Pos
  <2> QED
    BY <2>1, SameRatio
<1>0. 0 \in Int /\ 1 \in Pos
  BY DEF Pos
<1>2. Reduced(0, 1)[1] * 1 = 0 * Reduced(0, 1)[2]
  BY <1>0, ReducedIs
<1>3. Reduced(0, 1) = <<Reduced(0, 1)[1], Reduced(0, 1)[2]>>
      /\ Reduced(0, 1)[1] \in Int /\ Reduced(0, 1)[2] \in Pos
  BY <1>0, ReducedIs
<1>4. Reduced(0, 1)[1] = 0
  BY <1>2, <1>3 DEF Pos
<1>5. Reduced(0, 1)[2] = 1
  <2>1. LeastDen(0, 1) \in 1..1
    BY LeastDenProp DEF Pos
  <2> QED
    BY <2>1 DEF Reduced, WithDen
<1> QED
  BY <1>1, <1>3, <1>4, <1>5 DEF Zero, Q

LEMMA OneRatio == One = Reduced(1, 1) /\ One \in Rat
<1>1. LeastDen(1, 1) \in 1..1
  BY LeastDenProp DEF Pos
<1>2. LeastDen(1, 1) = 1
  BY <1>1
<1>3. (1 * 1) \div 1 = 1
  OBVIOUS
<1>4. Reduced(1, 1) = <<1, 1>>
  BY <1>2, <1>3 DEF Reduced, WithDen
<1> QED
  BY <1>4, RatioRat DEF One, Q, Pos

(***************************************************************************)
(* The laws of rational arithmetic                                         *)
(***************************************************************************)

LEMMA ZeroType == Zero \in Rat
BY ZeroRatio, RatioRat DEF Pos

LEMMA AddType ==
  ASSUME NEW a \in Rat, NEW b \in Rat
  PROVE  a ++ b \in Rat /\ a -- b \in Rat
<1>1. PICK d \in Pos, x \in Int, y \in Int : a = Reduced(x, d) /\ b = Reduced(y, d)
  BY Common2
<1>2. x + y \in Int /\ x - y \in Int
  OBVIOUS
<1> QED
  BY <1>1, <1>2, RatioAdd, RatioRat

LEMMA MulType ==
  ASSUME NEW a \in Rat, NEW b \in Rat
  PROVE  a ** b \in Rat
<1>1. PICK d \in Pos, x \in Int, y \in Int : a = Reduced(x, d) /\ b = Reduced(y, d)
  BY Common2
<1>2. x * y \in Int /\ d * d \in Pos
  BY DEF Pos
<1> QED
  BY <1>1, <1>2, RatioMul, RatioRat

LEMMA DivType ==
  ASSUME NEW a \in Rat, NEW b \in Rat, Positive(b)
  PROVE  a // b \in Rat
<1>1. PICK d \in Pos, x \in Int, y \in Int : a = Reduced(x, d) /\ b = Reduced(y, d)
  BY Common2
<1>2. Reduced(0, d) \prec Reduced(y, d)
  BY <1>1, ZeroRatio DEF Positive
<1>3. 0 < y
  BY <1>2, RatioLess
<1>4. y \in Pos
  BY <1>3 DEF Pos
<1> QED
  BY <1>1, <1>4, RatioDiv, RatioRat

LEMMA AddZero ==
  ASSUME NEW a \in Rat
  PROVE  a ++ Zero = a /\ Zero ++ a = a /\ a -- Zero = a /\ a -- a = Zero
<1>1. PICK d \in Pos, x \in Int, y \in Int : a = Reduced(x, d) /\ a = Reduced(y, d)
  BY Common2
<1>2. x + 0 = x /\ 0 + x = x /\ x - 0 = x /\ x - x = 0 /\ 0 \in Int
  OBVIOUS
<1> QED
  BY <1>1, <1>2, RatioAdd, ZeroRatio

LEMMA AddComm ==
  ASSUME NEW a \in Rat, NEW b \in Rat
  PROVE  a ++ b = b ++ a
<1>1. PICK d \in Pos, x \in Int, y \in Int : a = Reduced(x, d) /\ b = Reduced(y, d)
  BY Common2
<1>2. x + y = y + x
  OBVIOUS
<1> QED
  BY <1>1, <1>2, RatioAdd

LEMMA AddAssoc ==
  ASSUME NEW a \in Rat, NEW b \in Rat, NEW c \in Rat
  PROVE  (a ++ b) ++ c = a ++ (b ++ c)
<1>1. PICK d \in Pos, x \in Int, y \in Int, z \in Int :
        a = Reduced(x, d) /\ b = Reduced(y, d) /\ c = Reduced(z, d)
  BY Common3
<1>2. x + y \in Int /\ y + z \in Int /\ (x + y) + z = x + (y + z)
  OBVIOUS
<1>3. (a ++ b) ++ c = Reduced((x + y) + z, d)
  BY <1>1, <1>2, RatioAdd
<1>4. a ++ (b ++ c) = Reduced(x + (y + z), d)
  BY <1>1, <1>2, RatioAdd
<1> QED
  BY <1>2, <1>3, <1>4

LEMMA MinMax ==
  ASSUME NEW a \in Rat, NEW b \in Rat
  PROVE  Lesser(a, b) \in Rat /\ Greater(a, b) \in Rat
BY DEF Lesser, Greater

LEMMA RatioMinMax ==
  ASSUME NEW d \in Pos, NEW x \in Int, NEW y \in Int
  PROVE  /\ Lesser(Reduced(x, d), Reduced(y, d)) = Reduced(IF x < y THEN x ELSE y, d)
         /\ Greater(Reduced(x, d), Reduced(y, d)) = Reduced(IF x < y THEN y ELSE x, d)
BY RatioLess DEF Lesser, Greater

LEMMA RatioPositive ==
  ASSUME NEW d \in Pos, NEW x \in Int
  PROVE  /\ Positive(Reduced(x, d)) <=> 0 < x
         /\ Zero \preceq Reduced(x, d) <=> 0 <= x
BY ZeroRatio, RatioLess DEF Positive

LEMMA RatioSame ==
  ASSUME NEW d \in Pos, NEW x \in Int, NEW y \in Int
  PROVE  Reduced(x, d) = Reduced(y, d) <=> x = y
BY RatioEq

LEMMA MulDist ==
  ASSUME NEW a \in Rat, NEW b \in Rat, NEW c \in Rat
  PROVE  /\ (a ++ b) ** c = (a ** c) ++ (b ** c)
         /\ (a -- b) ** c = (a ** c) -- (b ** c)
         /\ c ** (a ++ b) = (c ** a) ++ (c ** b)
         /\ c ** (a -- b) = (c ** a) -- (c ** b)
<1>1. PICK d \in Pos, x \in Int, y \in Int, z \in Int :
        a = Reduced(x, d) /\ b = Reduced(y, d) /\ c = Reduced(z, d)
  BY Common3
<1>2. /\ x + y \in Int /\ x - y \in Int /\ x * z \in Int /\ y * z \in Int
      /\ z * x \in Int /\ z * y \in Int /\ d * d \in Pos
  BY DEF Pos
<1>3. /\ (x + y) * z = x * z + y * z /\ (x - y) * z = x * z - y * z
      /\ z * (x + y) = z * x + z * y /\ z * (x - y) = z * x - z * y
  OBVIOUS
<1>4. a ++ b = Reduced(x + y, d) /\ a -- b = Reduced(x - y, d)
  BY <1>1, RatioAdd
<1>5. /\ (a ++ b) ** c = Reduced((x + y) * z, d * d)
      /\ (a -- b) ** c = Reduced((x - y) * z, d * d)
      /\ c ** (a ++ b) = Reduced(z * (x + y), d * d)
      /\ c ** (a -- b) = Reduced(z * (x - y), d * d)
      /\ a ** c = Reduced(x * z, d * d) /\ b ** c = Reduced(y * z, d * d)
      /\ c ** a = Reduced(z * x, d * d) /\ c ** b = Reduced(z * y, d * d)
  BY <1>1, <1>2, <1>4, RatioMul
<1> QED
  BY <1>2, <1>3, <1>5, RatioAdd

LEMMA MulUnit ==
  ASSUME NEW a \in Rat
  PROVE  /\ a ** One = a /\ One ** a = a
         /\ a ** Zero = Zero /\ Zero ** a = Zero
<1>1. a[1] \in Int /\ a[2] \in Pos /\ a = Reduced(a[1], a[2])
  BY RatRatio
<1> DEFINE x == a[1]
           d == a[2]
<1>2. x \in Int /\ d \in Pos /\ a = Reduced(x, d)
  BY <1>1
<1> HIDE DEF x, d
<1>3. /\ x * 1 = x /\ 1 * x = x /\ x * 0 = 0 /\ 0 * x = 0 /\ 1 \in Int /\ 0 \in Int
      /\ 1 \in Pos /\ d * 1 = d /\ 1 * d = d /\ d * d \in Pos
  BY <1>2 DEF Pos
<1>4. a ** One = Reduced(x * 1, d * 1) /\ One ** a = Reduced(1 * x, 1 * d)
  BY <1>2, <1>3, OneRatio, RatioMul
<1>5. Zero = Reduced(0, d) /\ Zero = Reduced(0, d * d)
  BY <1>2, <1>3, ZeroRatio
<1>6. a ** Zero = Reduced(x * 0, d * d) /\ Zero ** a = Reduced(0 * x, d * d)
  BY <1>2, <1>3, <1>5, RatioMul
<1> QED
  BY <1>2, <1>3, <1>4, <1>5, <1>6

LEMMA AddSwap ==
  ASSUME NEW a \in Rat, NEW b \in Rat, NEW c \in Rat, NEW e \in Rat
  PROVE  /\ (a ++ b) ++ (c ++ e) = (a ++ c) ++ (b ++ e)
         /\ (a -- b) ++ (c -- e) = (a ++ c) -- (b ++ e)
<1>0. HaveCommon(a, b, c, e)
  BY Common4
<1>1. PICK d \in Pos, x \in Int, y \in Int, z \in Int, u \in Int :
        /\ a = Reduced(x, d) /\ b = Reduced(y, d)
        /\ c = Reduced(z, d) /\ e = Reduced(u, d)
  BY <1>0 DEF HaveCommon
<1>2. /\ x + y \in Int /\ z + u \in Int /\ x + z \in Int /\ y + u \in Int
      /\ x - y \in Int /\ z - u \in Int
  OBVIOUS
<1>3. /\ a ++ b = Reduced(x + y, d) /\ c ++ e = Reduced(z + u, d)
      /\ a ++ c = Reduced(x + z, d) /\ b ++ e = Reduced(y + u, d)
      /\ a -- b = Reduced(x - y, d) /\ c -- e = Reduced(z - u, d)
  BY <1>1, RatioAdd
<1>4. /\ (a ++ b) ++ (c ++ e) = Reduced((x + y) + (z + u), d)
      /\ (a ++ c) ++ (b ++ e) = Reduced((x + z) + (y + u), d)
      /\ (a -- b) ++ (c -- e) = Reduced((x - y) + (z - u), d)
      /\ (a ++ c) -- (b ++ e) = Reduced((x + z) - (y + u), d)
  BY <1>2, <1>3, RatioAdd
<1>5. (x + y) + (z + u) = (x + z) + (y + u) /\ (x - y) + (z - u) = (x + z) - (y + u)
  OBVIOUS
<1> QED
  BY <1>4, <1>5

LEMMA AddSwapped ==
  ASSUME NEW a \in Rat, NEW b \in Rat, NEW c \in Rat, NEW e \in Rat
  PROVE  (a ++ b) ++ (c ++ e) = (a ++ c) ++ (b ++ e)
BY AddSwap

LEMMA SubSwapped ==
  ASSUME NEW a \in Rat, NEW b \in Rat, NEW c \in Rat, NEW e \in Rat
  PROVE  (a -- b) ++ (c -- e) = (a ++ c) -- (b ++ e)
BY AddSwap

LEMMA AddSub ==
  ASSUME NEW a \in Rat, NEW b \in Rat
  PROVE  /\ (a ++ b) -- b = a
         /\ (a -- b) ++ b = a
         /\ a -- (a -- b) = b
         /\ b ++ (a -- b) = a
<1>1. PICK d \in Pos, x \in Int, y \in Int : a = Reduced(x, d) /\ b = Reduced(y, d)
  BY Common2
<1>2. x + y \in Int /\ x - y \in Int
  OBVIOUS
<1>3. a ++ b = Reduced(x + y, d) /\ a -- b = Reduced(x - y, d)
  BY <1>1, RatioAdd
<1>4. /\ (a ++ b) -- b = Reduced((x + y) - y, d) /\ (a -- b) ++ b = Reduced((x - y) + y, d)
      /\ a -- (a -- b) = Reduced(x - (x - y), d) /\ b ++ (a -- b) = Reduced(y + (x - y), d)
  BY <1>1, <1>2, <1>3, RatioAdd
<1>5. (x + y) - y = x /\ (x - y) + y = x /\ x - (x - y) = y /\ y + (x - y) = x
  OBVIOUS
<1> QED
  BY <1>1, <1>4, <1>5

LEMMA NotNegative ==
  ASSUME NEW a \in Rat
  PROVE  /\ Zero \preceq a <=> Positive(a) \/ a = Zero
         /\ ~Positive(a) \/ a # Zero
         /\ ~Positive(Zero)
<1>1. PICK d \in Pos, x \in Int, y \in Int : a = Reduced(x, d) /\ a = Reduced(y, d)
  BY Common2
<1>2. Positive(a) <=> 0 < x
  BY <1>1, RatioPositive
<1>3. Zero \preceq a <=> 0 <= x
  BY <1>1, RatioPositive
<1>4. a = Zero <=> x = 0
  <2>1. 0 \in Int /\ Zero = Reduced(0, d)
    BY ZeroRatio
  <2> QED
    <3>1. x = 0 => a = Zero
      BY <1>1, <2>1
    <3>2. a = Zero => x = 0
      BY <1>1, <2>1, RatioEq
    <3> QED
      BY <3>1, <3>2
<1>5. ~Positive(Zero)
  BY ZeroRatio, RatioPositive
<1> QED
  BY <1>2, <1>3, <1>4, <1>5

(***************************************************************************)
(* Sequences and their sums                                                *)
(***************************************************************************)

Recursive(f, N, init, step) ==
  f[0] = init /\ \A i \in 1..N : f[i] = step[i][f[i - 1]]

\* A function that is defined by recursion over 0..N exists.
LEMMA Recursion ==
  ASSUME NEW X, NEW N \in Nat, NEW init \in X, NEW step \in [1..N -> [X -> X]]
  PROVE  \E f \in [0..N -> X] : Recursive(f, N, init, step)
<1> DEFINE Upto(n) == \E f \in [0..n -> X] :
                        f[0] = init /\ \A i \in 1..n : f[i] = step[i][f[i - 1]]
           S == {n \in Nat : n <= N => Upto(n)}
<1>1. 0 \in S
  <2>1. [i \in 0..0 |-> init] \in [0..0 -> X]
    OBVIOUS
  <2>2. [i \in 0..0 |-> init][0] = init /\ \A i \in 1..0 : FALSE
    OBVIOUS
  <2>3. Upto(0)
    BY <2>1, <2>2
  <2> QED
    BY <2>3
<1>2. ASSUME NEW n \in Nat, n \in S PROVE n + 1 \in S
  <2> SUFFICES ASSUME n + 1 <= N PROVE Upto(n + 1)
    OBVIOUS
  <2>1. PICK f \in [0..n -> X] :
          f[0] = init /\ \A i \in 1..n : f[i] = step[i][f[i - 1]]
    BY <1>2
  <2> DEFINE g == [i \in 0..n + 1 |-> IF i = n + 1 THEN step[n + 1][f[n]] ELSE f[i]]
  <2>2. step[n + 1] \in [X -> X] /\ f[n] \in X
    BY <2>1
  <2>3. g \in [0..n + 1 -> X]
    BY <2>1, <2>2
  <2>4. g[0] = init
    BY <2>1
  <2>5. ASSUME NEW i \in 1..n + 1 PROVE g[i] = step[i][g[i - 1]]
    <3>1. CASE i = n + 1
      BY <3>1
    <3>2. CASE i # n + 1
      <4>1. i \in 1..n /\ i - 1 \in 0..n + 1 /\ i - 1 # n + 1
        BY <3>2
      <4> QED
        BY <2>1, <4>1, <3>2
    <3> QED
      BY <3>1, <3>2
  <2> QED
    BY <2>3, <2>4, <2>5
<1>3. \A n \in Nat : n \in S
  <2> HIDE DEF S
  <2> QED
    BY <1>1, <1>2, Induction
<1>4. Upto(N)
  BY <1>3
<1> QED
  BY <1>4 DEF Recursive

LEMMA FunSeq ==
  ASSUME NEW S, NEW n \in Nat, NEW q \in [1..n -> S]
  PROVE  q \in Seq(S) /\ Len(q) = n /\ DOMAIN q = 1..n
OBVIOUS

\* The equation of Sums.
LEMMA SumsProp ==
  ASSUME NEW q \in Seq(Rat)
  PROVE  /\ Sums(q) \in [0..Len(q) -> Rat]
         /\ Sums(q)[0] = Zero
         /\ \A i \in 1..Len(q) : Sums(q)[i] = Sums(q)[i - 1] ++ q[i]
<1>1. Len(q) \in Nat /\ \A i \in 1..Len(q) : q[i] \in Rat
  OBVIOUS
<1> DEFINE N == Len(q)
           step == [i \in 1..N |-> [a \in Rat |-> a ++ q[i]]]
           P(s) == s = [i \in 0..N |-> IF i = 0 THEN Zero ELSE s[i - 1] ++ q[i]]
<1>2. step \in [1..N -> [Rat -> Rat]]
  BY <1>1, AddType
<1>p. PICK f \in [0..N -> Rat] : Recursive(f, N, Zero, step)
  <2> HIDE DEF step, N
  <2>1. N \in Nat
    BY <1>1 DEF N
  <2> QED
    BY <1>2, <2>1, ZeroType, Recursion
<1>3. f[0] = Zero /\ \A i \in 1..N : f[i] = step[i][f[i - 1]]
  BY <1>p DEF Recursive
<1>4. ASSUME NEW i \in 1..N PROVE f[i] = f[i - 1] ++ q[i]
  <2>1. f[i - 1] \in Rat
    BY <1>1, <1>3
  <2>2. step[i] = [a \in Rat |-> a ++ q[i]]
    OBVIOUS
  <2>3. f[i] = step[i][f[i - 1]]
    BY <1>3
  <2> HIDE DEF step
  <2> QED
    BY <2>1, <2>2, <2>3
<1>5. P(f)
  BY <1>1, <1>3, <1>4
<1>6. Sums(q) = CHOOSE s : P(s)
  BY DEF Sums
<1>7. P(Sums(q))
  <2> HIDE DEF P
  <2> QED
    BY <1>5, <1>6
<1> DEFINE g == Sums(q)
<1>8. g = [i \in 0..N |-> IF i = 0 THEN Zero ELSE g[i - 1] ++ q[i]]
  BY <1>7
<1> HIDE DEF g
<1>9. g[0] = Zero /\ \A i \in 1..N : g[i] = g[i - 1] ++ q[i]
  BY <1>1, <1>8
<1>10. \A i \in Nat : i \in {j \in Nat : j <= N => g[j] = f[j]}
  <2> DEFINE S == {j \in Nat : j <= N => g[j] = f[j]}
  <2>1. 0 \in S
    BY <1>3, <1>9
  <2>2. ASSUME NEW n \in Nat, n \in S PROVE n + 1 \in S
    <3> SUFFICES ASSUME n + 1 <= N PROVE g[n + 1] = f[n + 1]
      OBVIOUS
    <3>1. n + 1 \in 1..N /\ (n + 1) - 1 = n
      BY <1>1
    <3> QED
      BY <1>4, <1>9, <2>2, <3>1
  <2> HIDE DEF S
  <2>3. \A n \in Nat : n \in S
    BY <2>1, <2>2, Induction
  <2> QED
    BY <2>3 DEF S
<1>11. \A i \in 0..N : g[i] = f[i]
  BY <1>1, <1>10
<1>12. g \in [0..N -> Rat]
  BY <1>8, <1>11
<1> QED
  BY <1>9, <1>12 DEF g

LEMMA SumType == ASSUME NEW q \in Seq(Rat) PROVE SumOf(q) \in Rat
<1>1. Len(q) \in 0..Len(q)
  OBVIOUS
<1> QED
  BY <1>1, SumsProp DEF SumOf

\* A sum is determined by its numbers.
LEMMA SumsSame ==
  ASSUME NEW q \in Seq(Rat), NEW r \in Seq(Rat), NEW N \in Nat,
         N <= Len(q), N <= Len(r), \A i \in 1..N : q[i] = r[i]
  PROVE  \A n \in 0..N : Sums(q)[n] = Sums(r)[n]
<1> DEFINE S == {j \in Nat : j <= N => Sums(q)[j] = Sums(r)[j]}
<1>1. 0 \in S
  BY SumsProp
<1>2. ASSUME NEW n \in Nat, n \in S PROVE n + 1 \in S
  <2> SUFFICES ASSUME n + 1 <= N PROVE Sums(q)[n + 1] = Sums(r)[n + 1]
    OBVIOUS
  <2>1. n + 1 \in 1..Len(q) /\ n + 1 \in 1..Len(r) /\ n + 1 \in 1..N /\ (n + 1) - 1 = n
    OBVIOUS
  <2>2. Sums(q)[n + 1] = Sums(q)[n] ++ q[n + 1] /\ Sums(r)[n + 1] = Sums(r)[n] ++ r[n + 1]
    BY <2>1, SumsProp
  <2> QED
    BY <1>2, <2>1, <2>2
<1> HIDE DEF S
<1>3. \A n \in Nat : n \in S
  BY <1>1, <1>2, Induction
<1> QED
  BY <1>3 DEF S

LEMMA SumEmpty == SumOf(<<>>) = Zero
<1>1. <<>> \in Seq(Rat) /\ Len(<<>>) = 0
  OBVIOUS
<1>2. Sums(<<>>)[0] = Zero
  BY <1>1, SumsProp
<1> QED
  BY <1>1, <1>2 DEF SumOf

LEMMA SumAppend ==
  ASSUME NEW q \in Seq(Rat), NEW x \in Rat
  PROVE  SumOf(Append(q, x)) = SumOf(q) ++ x
<1> DEFINE r == Append(q, x)
<1>1. r \in Seq(Rat) /\ Len(r) = Len(q) + 1 /\ r[Len(q) + 1] = x
      /\ Len(q) \in Nat /\ \A i \in 1..Len(q) : r[i] = q[i]
  OBVIOUS
<1> HIDE DEF r
<1>2. \A n \in 0..Len(q) : Sums(q)[n] = Sums(r)[n]
  BY <1>1, SumsSame
<1>3. Sums(r)[Len(q) + 1] = Sums(r)[(Len(q) + 1) - 1] ++ r[Len(q) + 1]
  BY <1>1, SumsProp
<1>4. (Len(q) + 1) - 1 = Len(q) /\ Len(q) \in 0..Len(q)
  BY <1>1
<1>5. SumOf(r) = Sums(r)[Len(r)] /\ SumOf(q) = Sums(q)[Len(q)]
  BY DEF SumOf
<1>6. SumOf(r) = SumOf(q) ++ x
  BY <1>1, <1>2, <1>3, <1>4, <1>5
<1> QED
  BY <1>6 DEF r

\* Sums of sums, of differences, and of multiples, number by number.
LEMMA SumsAdd ==
  ASSUME NEW p \in Seq(Rat), NEW q \in Seq(Rat), NEW r \in Seq(Rat),
         Len(p) = Len(r), Len(q) = Len(r),
         \A i \in 1..Len(r) : r[i] = p[i] ++ q[i]
  PROVE  \A n \in 0..Len(r) : Sums(r)[n] = Sums(p)[n] ++ Sums(q)[n]
<1> DEFINE S == {j \in Nat : j <= Len(r) => Sums(r)[j] = Sums(p)[j] ++ Sums(q)[j]}
<1>1. 0 \in S
  BY SumsProp, ZeroType, AddZero
<1>2. ASSUME NEW n \in Nat, n \in S PROVE n + 1 \in S
  <2> SUFFICES ASSUME n + 1 <= Len(r)
               PROVE  Sums(r)[n + 1] = Sums(p)[n + 1] ++ Sums(q)[n + 1]
    OBVIOUS
  <2>1. n + 1 \in 1..Len(r) /\ (n + 1) - 1 = n /\ n \in 0..Len(r)
    OBVIOUS
  <2>2. /\ Sums(r)[n + 1] = Sums(r)[n] ++ r[n + 1]
        /\ Sums(p)[n + 1] = Sums(p)[n] ++ p[n + 1]
        /\ Sums(q)[n + 1] = Sums(q)[n] ++ q[n + 1]
    BY <2>1, SumsProp
  <2>3. Sums(r)[n] = Sums(p)[n] ++ Sums(q)[n] /\ r[n + 1] = p[n + 1] ++ q[n + 1]
    BY <1>2, <2>1
  <2>4. Sums(p)[n] \in Rat /\ Sums(q)[n] \in Rat /\ p[n + 1] \in Rat /\ q[n + 1] \in Rat
    BY <2>1, SumsProp
  <2>5. (Sums(p)[n] ++ Sums(q)[n]) ++ (p[n + 1] ++ q[n + 1])
          = (Sums(p)[n] ++ p[n + 1]) ++ (Sums(q)[n] ++ q[n + 1])
    <3> DEFINE a == Sums(p)[n]
               b == Sums(q)[n]
               c == p[n + 1]
               e == q[n + 1]
    <3>1. a \in Rat /\ b \in Rat /\ c \in Rat /\ e \in Rat
      BY <2>4
    <3> HIDE DEF a, b, c, e
    <3>2. (a ++ b) ++ (c ++ e) = (a ++ c) ++ (b ++ e)
      BY <3>1, AddSwapped
    <3> QED
      BY <3>2 DEF a, b, c, e
  <2> QED
    BY <2>2, <2>3, <2>5
<1> HIDE DEF S
<1>3. \A n \in Nat : n \in S
  BY <1>1, <1>2, Induction
<1> QED
  BY <1>3 DEF S

LEMMA SumsSub ==
  ASSUME NEW p \in Seq(Rat), NEW q \in Seq(Rat), NEW r \in Seq(Rat),
         Len(p) = Len(r), Len(q) = Len(r),
         \A i \in 1..Len(r) : r[i] = p[i] -- q[i]
  PROVE  \A n \in 0..Len(r) : Sums(r)[n] = Sums(p)[n] -- Sums(q)[n]
<1> DEFINE S == {j \in Nat : j <= Len(r) => Sums(r)[j] = Sums(p)[j] -- Sums(q)[j]}
<1>1. 0 \in S
  BY SumsProp, ZeroType, AddZero
<1>2. ASSUME NEW n \in Nat, n \in S PROVE n + 1 \in S
  <2> SUFFICES ASSUME n + 1 <= Len(r)
               PROVE  Sums(r)[n + 1] = Sums(p)[n + 1] -- Sums(q)[n + 1]
    OBVIOUS
  <2>1. n + 1 \in 1..Len(r) /\ (n + 1) - 1 = n /\ n \in 0..Len(r)
    OBVIOUS
  <2>2. /\ Sums(r)[n + 1] = Sums(r)[n] ++ r[n + 1]
        /\ Sums(p)[n + 1] = Sums(p)[n] ++ p[n + 1]
        /\ Sums(q)[n + 1] = Sums(q)[n] ++ q[n + 1]
    BY <2>1, SumsProp
  <2>3. Sums(r)[n] = Sums(p)[n] -- Sums(q)[n] /\ r[n + 1] = p[n + 1] -- q[n + 1]
    BY <1>2, <2>1
  <2>4. Sums(p)[n] \in Rat /\ Sums(q)[n] \in Rat /\ p[n + 1] \in Rat /\ q[n + 1] \in Rat
    BY <2>1, SumsProp
  <2>5. (Sums(p)[n] -- Sums(q)[n]) ++ (p[n + 1] -- q[n + 1])
          = (Sums(p)[n] ++ p[n + 1]) -- (Sums(q)[n] ++ q[n + 1])
    <3> DEFINE a == Sums(p)[n]
               b == Sums(q)[n]
               c == p[n + 1]
               e == q[n + 1]
    <3>1. a \in Rat /\ b \in Rat /\ c \in Rat /\ e \in Rat
      BY <2>4
    <3> HIDE DEF a, b, c, e
    <3>2. (a -- b) ++ (c -- e) = (a ++ c) -- (b ++ e)
      BY <3>1, SubSwapped
    <3> QED
      BY <3>2 DEF a, b, c, e
  <2> QED
    BY <2>2, <2>3, <2>5
<1> HIDE DEF S
<1>3. \A n \in Nat : n \in S
  BY <1>1, <1>2, Induction
<1> QED
  BY <1>3 DEF S

LEMMA SumsMul ==
  ASSUME NEW p \in Seq(Rat), NEW r \in Seq(Rat), NEW k \in Rat,
         Len(p) = Len(r), \A i \in 1..Len(r) : r[i] = p[i] ** k
  PROVE  \A n \in 0..Len(r) : Sums(r)[n] = Sums(p)[n] ** k
<1> DEFINE S == {j \in Nat : j <= Len(r) => Sums(r)[j] = Sums(p)[j] ** k}
<1>1. 0 \in S
  BY SumsProp, ZeroType, MulUnit
<1>2. ASSUME NEW n \in Nat, n \in S PROVE n + 1 \in S
  <2> SUFFICES ASSUME n + 1 <= Len(r)
               PROVE  Sums(r)[n + 1] = Sums(p)[n + 1] ** k
    OBVIOUS
  <2>1. n + 1 \in 1..Len(r) /\ (n + 1) - 1 = n /\ n \in 0..Len(r)
    OBVIOUS
  <2>2. /\ Sums(r)[n + 1] = Sums(r)[n] ++ r[n + 1]
        /\ Sums(p)[n + 1] = Sums(p)[n] ++ p[n + 1]
    BY <2>1, SumsProp
  <2>3. Sums(r)[n] = Sums(p)[n] ** k /\ r[n + 1] = p[n + 1] ** k
    BY <1>2, <2>1
  <2>4. Sums(p)[n] \in Rat /\ p[n + 1] \in Rat
    <3>1. n \in 0..Len(p) /\ n + 1 \in 1..Len(p)
      BY <2>1
    <3>2. p[n + 1] \in Rat
      BY <3>1
    <3>3. Sums(p)[n] \in Rat
      BY <3>1, SumsProp
    <3> QED
      BY <3>2, <3>3
  <2>5. (Sums(p)[n] ** k) ++ (p[n + 1] ** k) = (Sums(p)[n] ++ p[n + 1]) ** k
    BY <2>4, MulDist
  <2> QED
    BY <2>2, <2>3, <2>5
<1> HIDE DEF S
<1>3. \A n \in Nat : n \in S
  BY <1>1, <1>2, Induction
<1> QED
  BY <1>3 DEF S

\* The same of the whole sums.
LEMMA SumPointwise ==
  ASSUME NEW p \in Seq(Rat), NEW q \in Seq(Rat), NEW r \in Seq(Rat),
         Len(p) = Len(r), Len(q) = Len(r)
  PROVE  /\ (\A i \in 1..Len(r) : r[i] = p[i] ++ q[i]) => SumOf(r) = SumOf(p) ++ SumOf(q)
         /\ (\A i \in 1..Len(r) : r[i] = p[i] -- q[i]) => SumOf(r) = SumOf(p) -- SumOf(q)
<1>1. Len(r) \in 0..Len(r)
  OBVIOUS
<1>2. (\A i \in 1..Len(r) : r[i] = p[i] ++ q[i])
        => Sums(r)[Len(r)] = Sums(p)[Len(r)] ++ Sums(q)[Len(r)]
  BY <1>1, SumsAdd
<1>3. (\A i \in 1..Len(r) : r[i] = p[i] -- q[i])
        => Sums(r)[Len(r)] = Sums(p)[Len(r)] -- Sums(q)[Len(r)]
  BY <1>1, SumsSub
<1> QED
  BY <1>2, <1>3 DEF SumOf

LEMMA SumMul ==
  ASSUME NEW p \in Seq(Rat), NEW r \in Seq(Rat), NEW k \in Rat,
         Len(p) = Len(r), \A i \in 1..Len(r) : r[i] = p[i] ** k
  PROVE  SumOf(r) = SumOf(p) ** k
<1>1. Len(r) \in 0..Len(r)
  OBVIOUS
<1>2. Sums(r)[Len(r)] = Sums(p)[Len(r)] ** k
  BY <1>1, SumsMul
<1> QED
  BY <1>2 DEF SumOf

LEMMA SumSame ==
  ASSUME NEW q \in Seq(Rat), NEW r \in Seq(Rat), Len(q) = Len(r),
         \A i \in 1..Len(q) : q[i] = r[i]
  PROVE  SumOf(q) = SumOf(r)
<1>1. q = r
  BY SeqEqual
<1> QED
  BY <1>1

LEMMA SumConcat ==
  ASSUME NEW p \in Seq(Rat), NEW q \in Seq(Rat)
  PROVE  SumOf(p \o q) = SumOf(p) ++ SumOf(q)
<1> DEFINE r == p \o q
           m == Len(p)
<1>1. /\ r \in Seq(Rat) /\ Len(r) = m + Len(q) /\ m \in Nat /\ Len(q) \in Nat
      /\ \A i \in 1..m : r[i] = p[i]
      /\ \A i \in 1..Len(q) : r[m + i] = q[i]
  OBVIOUS
<1> HIDE DEF r, m
<1> DEFINE S == {j \in Nat : j <= Len(q) => Sums(r)[m + j] = SumOf(p) ++ Sums(q)[j]}
<1>2. 0 \in S
  <2>1. m \in 0..m /\ m <= Len(p) /\ m <= Len(r) /\ m + 0 = m
    BY <1>1 DEF m
  <2>2. Sums(p)[m] = Sums(r)[m]
    BY <1>1, <2>1, SumsSame
  <2>3. SumOf(p) = Sums(p)[m]
    BY DEF SumOf, m
  <2>4. SumOf(p) ++ Zero = SumOf(p)
    BY SumType, AddZero
  <2> QED
    BY <2>1, <2>2, <2>3, <2>4, SumsProp
<1>3. ASSUME NEW n \in Nat, n \in S PROVE n + 1 \in S
  <2> SUFFICES ASSUME n + 1 <= Len(q)
               PROVE  Sums(r)[m + (n + 1)] = SumOf(p) ++ Sums(q)[n + 1]
    OBVIOUS
  <2>1. /\ n + 1 \in 1..Len(q) /\ (n + 1) - 1 = n /\ n \in 0..Len(q)
        /\ m + (n + 1) \in 1..Len(r) /\ (m + (n + 1)) - 1 = m + n
    BY <1>1
  <2>2. /\ Sums(r)[m + (n + 1)] = Sums(r)[m + n] ++ r[m + (n + 1)]
        /\ Sums(q)[n + 1] = Sums(q)[n] ++ q[n + 1]
    BY <1>1, <2>1, SumsProp
  <2>3. Sums(r)[m + n] = SumOf(p) ++ Sums(q)[n] /\ r[m + (n + 1)] = q[n + 1]
    BY <1>1, <1>3, <2>1
  <2>4. Sums(q)[n] \in Rat /\ q[n + 1] \in Rat /\ SumOf(p) \in Rat
    BY <2>1, SumsProp, SumType
  <2> QED
    BY <2>2, <2>3, <2>4, AddAssoc
<1> HIDE DEF S
<1>4. \A n \in Nat : n \in S
  BY <1>2, <1>3, Induction
<1>5. Sums(r)[m + Len(q)] = SumOf(p) ++ Sums(q)[Len(q)]
  BY <1>1, <1>4 DEF S
<1> QED
  BY <1>1, <1>5 DEF SumOf, r

(***************************************************************************)
(* Sums of a value of each element                                         *)
(***************************************************************************)

Vals(seq, val) == [i \in DOMAIN seq |-> val[seq[i]]]
ValSum(seq, val) == SumOf(Vals(seq, val))

LEMMA ValsType ==
  ASSUME NEW L, NEW seq \in Seq(L), NEW val \in [L -> Rat]
  PROVE  /\ Vals(seq, val) \in Seq(Rat)
         /\ Len(Vals(seq, val)) = Len(seq)
         /\ \A i \in 1..Len(seq) : Vals(seq, val)[i] = val[seq[i]]
         /\ ValSum(seq, val) \in Rat
<1>1. DOMAIN seq = 1..Len(seq) /\ Len(seq) \in Nat /\ \A i \in 1..Len(seq) : seq[i] \in L
  OBVIOUS
<1>2. Vals(seq, val) \in [1..Len(seq) -> Rat]
  BY <1>1 DEF Vals
<1>3. \A i \in 1..Len(seq) : Vals(seq, val)[i] = val[seq[i]]
  BY <1>1 DEF Vals
<1>4. Vals(seq, val) \in Seq(Rat) /\ Len(Vals(seq, val)) = Len(seq)
  BY <1>1, <1>2, FunSeq
<1> QED
  BY <1>3, <1>4, SumType DEF ValSum

LEMMA ValSumEmpty ==
  ASSUME NEW val
  PROVE  ValSum(<<>>, val) = Zero
<1>1. Vals(<<>>, val) = <<>>
  BY DEF Vals
<1> QED
  BY <1>1, SumEmpty DEF ValSum

LEMMA ValSumAppend ==
  ASSUME NEW L, NEW seq \in Seq(L), NEW val \in [L -> Rat], NEW l \in L
  PROVE  ValSum(Append(seq, l), val) = ValSum(seq, val) ++ val[l]
<1> DEFINE t == Append(seq, l)
<1>1. /\ t \in Seq(L) /\ Len(t) = Len(seq) + 1 /\ Len(seq) \in Nat
      /\ t[Len(seq) + 1] = l /\ \A i \in 1..Len(seq) : t[i] = seq[i]
  OBVIOUS
<1> HIDE DEF t
<1>2. /\ Vals(t, val) \in Seq(Rat) /\ Len(Vals(t, val)) = Len(t)
      /\ \A i \in 1..Len(t) : Vals(t, val)[i] = val[t[i]]
  BY <1>1, ValsType
<1>3. /\ Vals(seq, val) \in Seq(Rat) /\ Len(Vals(seq, val)) = Len(seq)
      /\ \A i \in 1..Len(seq) : Vals(seq, val)[i] = val[seq[i]]
  BY ValsType
<1>4. val[l] \in Rat
  OBVIOUS
<1> DEFINE u == Append(Vals(seq, val), val[l])
<1>5. /\ u \in Seq(Rat) /\ Len(u) = Len(seq) + 1 /\ u[Len(seq) + 1] = val[l]
      /\ \A i \in 1..Len(seq) : u[i] = Vals(seq, val)[i]
  BY <1>3, <1>4
<1>6. SumOf(u) = SumOf(Vals(seq, val)) ++ val[l]
  BY <1>3, <1>4, SumAppend
<1> HIDE DEF u
<1>7. \A i \in 1..Len(t) : Vals(t, val)[i] = u[i]
  <2> TAKE i \in 1..Len(t)
  <2>1. CASE i = Len(seq) + 1
    BY <2>1, <1>1, <1>2, <1>5
  <2>2. CASE i # Len(seq) + 1
    <3>1. i \in 1..Len(seq)
      BY <2>2, <1>1
    <3> QED
      BY <3>1, <1>1, <1>2, <1>3, <1>5
  <2> QED
    BY <2>1, <2>2
<1>8. SumOf(Vals(t, val)) = SumOf(u)
  BY <1>1, <1>2, <1>5, <1>7, SumSame
<1> QED
  BY <1>6, <1>8 DEF t, ValSum

LEMMA ValSumConcat ==
  ASSUME NEW L, NEW seq \in Seq(L), NEW more \in Seq(L), NEW val \in [L -> Rat]
  PROVE  ValSum(seq \o more, val) = ValSum(seq, val) ++ ValSum(more, val)
<1> DEFINE t == seq \o more
           m == Len(seq)
<1>1. /\ t \in Seq(L) /\ Len(t) = m + Len(more) /\ m \in Nat /\ Len(more) \in Nat
      /\ \A i \in 1..m : t[i] = seq[i]
      /\ \A i \in 1..Len(more) : t[m + i] = more[i]
  OBVIOUS
<1> HIDE DEF t
<1>2. /\ Vals(t, val) \in Seq(Rat) /\ Len(Vals(t, val)) = Len(t)
      /\ \A i \in 1..Len(t) : Vals(t, val)[i] = val[t[i]]
  BY <1>1, ValsType
<1>3. /\ Vals(seq, val) \in Seq(Rat) /\ Len(Vals(seq, val)) = m
      /\ \A i \in 1..m : Vals(seq, val)[i] = val[seq[i]]
  BY ValsType
<1>4. /\ Vals(more, val) \in Seq(Rat) /\ Len(Vals(more, val)) = Len(more)
      /\ \A i \in 1..Len(more) : Vals(more, val)[i] = val[more[i]]
  BY ValsType
<1> HIDE DEF m
<1> DEFINE p == Vals(seq, val)
           q == Vals(more, val)
           u == p \o q
<1>5. p \in Seq(Rat) /\ q \in Seq(Rat) /\ Len(p) = m /\ Len(q) = Len(more)
  BY <1>3, <1>4
<1>6. /\ u \in Seq(Rat) /\ Len(u) = m + Len(more)
      /\ \A i \in 1..m : u[i] = p[i]
      /\ \A i \in 1..Len(more) : u[m + i] = q[i]
  <2> HIDE DEF p, q
  <2> QED
    BY <1>1, <1>5
<1>7. SumOf(u) = SumOf(p) ++ SumOf(q)
  BY <1>5, SumConcat
<1> HIDE DEF u
<1>8. \A i \in 1..Len(t) : Vals(t, val)[i] = u[i]
  <2> TAKE i \in 1..Len(t)
  <2>1. CASE i \in 1..m
    BY <2>1, <1>1, <1>2, <1>3, <1>6
  <2>2. CASE i \notin 1..m
    <3>1. i - m \in 1..Len(more) /\ m + (i - m) = i
      BY <2>2, <1>1
    <3>2. t[i] = more[i - m] /\ u[i] = q[i - m]
      BY <3>1, <1>1, <1>6
    <3> QED
      BY <3>1, <3>2, <1>2, <1>4
  <2> QED
    BY <2>1, <2>2
<1>9. SumOf(Vals(t, val)) = SumOf(u)
  BY <1>1, <1>2, <1>6, <1>8, SumSame
<1> QED
  BY <1>7, <1>9 DEF t, ValSum

\* The sums agree where the values do.
LEMMA ValSumSame ==
  ASSUME NEW L, NEW K, NEW seq \in Seq(L), NEW other \in Seq(K), NEW val \in [L -> Rat],
         NEW wal \in [K -> Rat],
         Len(seq) = Len(other), \A i \in 1..Len(seq) : val[seq[i]] = wal[other[i]]
  PROVE  ValSum(seq, val) = ValSum(other, wal)
<1>1. /\ Vals(seq, val) \in Seq(Rat) /\ Len(Vals(seq, val)) = Len(seq)
      /\ \A i \in 1..Len(seq) : Vals(seq, val)[i] = val[seq[i]]
  BY ValsType
<1>2. /\ Vals(other, wal) \in Seq(Rat) /\ Len(Vals(other, wal)) = Len(other)
      /\ \A i \in 1..Len(other) : Vals(other, wal)[i] = wal[other[i]]
  BY ValsType
<1>3. \A i \in 1..Len(Vals(seq, val)) : Vals(seq, val)[i] = Vals(other, wal)[i]
  BY <1>1, <1>2
<1> QED
  BY <1>1, <1>2, <1>3, SumSame DEF ValSum

(***************************************************************************)
(* The lots a loop keeps                                                   *)
(***************************************************************************)

KeptFn(lots) ==
  CHOOSE k : k = [i \in 0..Len(lots) |->
                    IF i = 0 THEN <<>>
                    ELSE IF Positive(lots[i].qty) THEN Append(k[i - 1], lots[i])
                    ELSE k[i - 1]]

\* The equation of Kept.
LEMMA KeptProp ==
  ASSUME NEW L, NEW lots \in Seq(L)
  PROVE  /\ KeptFn(lots) \in [0..Len(lots) -> Seq(L)]
         /\ KeptFn(lots)[0] = <<>>
         /\ \A i \in 1..Len(lots) :
              KeptFn(lots)[i] = IF Positive(lots[i].qty)
                                THEN Append(KeptFn(lots)[i - 1], lots[i])
                                ELSE KeptFn(lots)[i - 1]
         /\ Kept(lots) = KeptFn(lots)[Len(lots)]
<1>1. Len(lots) \in Nat /\ \A i \in 1..Len(lots) : lots[i] \in L
  OBVIOUS
<1> DEFINE N == Len(lots)
           X == Seq(L)
           step == [i \in 1..N |-> [a \in X |-> IF Positive(lots[i].qty)
                                                THEN Append(a, lots[i]) ELSE a]]
           P(k) == k = [i \in 0..N |-> IF i = 0 THEN <<>>
                                       ELSE IF Positive(lots[i].qty)
                                       THEN Append(k[i - 1], lots[i]) ELSE k[i - 1]]
<1>2. step \in [1..N -> [X -> X]]
  <2>1. \A i \in 1..N : \A a \in X : Append(a, lots[i]) \in X
    BY <1>1
  <2> HIDE DEF X
  <2> QED
    BY <2>1
<1>p. PICK f \in [0..N -> X] : Recursive(f, N, <<>>, step)
  <2>1. <<>> \in X /\ N \in Nat
    BY <1>1
  <2> HIDE DEF step, N, X
  <2> QED
    BY <1>2, <2>1, Recursion
<1>3. f[0] = <<>> /\ \A i \in 1..N : f[i] = step[i][f[i - 1]]
  BY <1>p DEF Recursive
<1>4. ASSUME NEW i \in 1..N
      PROVE  f[i] = IF Positive(lots[i].qty) THEN Append(f[i - 1], lots[i]) ELSE f[i - 1]
  <2>1. i - 1 \in 0..N
    BY <1>1
  <2>2. f[i - 1] \in X
    <3> HIDE DEF X, N
    <3> QED
      BY <2>1
  <2>3. step[i] = [a \in X |-> IF Positive(lots[i].qty) THEN Append(a, lots[i]) ELSE a]
    BY Zenon
  <2>4. f[i] = step[i][f[i - 1]]
    BY <1>3
  <2> HIDE DEF step, X, N
  <2> QED
    BY <2>2, <2>3, <2>4
<1>5. P(f)
  <2> HIDE DEF X, step
  <2>1. \A i \in 0..N : i # 0 => i \in 1..N
    BY <1>1
  <2> QED
    BY <1>3, <1>4, <2>1
<1>6. KeptFn(lots) = CHOOSE k : P(k)
  BY DEF KeptFn
<1>7. P(KeptFn(lots))
  <2> HIDE DEF P
  <2> QED
    BY <1>5, <1>6
<1> DEFINE g == KeptFn(lots)
<1>8. g = [i \in 0..N |-> IF i = 0 THEN <<>>
                          ELSE IF Positive(lots[i].qty)
                          THEN Append(g[i - 1], lots[i]) ELSE g[i - 1]]
  BY <1>7
<1> HIDE DEF g
<1>9. /\ g[0] = <<>>
      /\ \A i \in 1..N : g[i] = IF Positive(lots[i].qty)
                                THEN Append(g[i - 1], lots[i]) ELSE g[i - 1]
  <2> HIDE DEF N
  <2>1. N \in Nat
    BY <1>1 DEF N
  <2>2. 0 \in 0..N /\ \A i \in 1..N : i \in 0..N /\ i # 0
    BY <2>1
  <2>3. g[0] = <<>>
    BY <1>8, <2>2
  <2>4. ASSUME NEW i \in 1..N
        PROVE  g[i] = IF Positive(lots[i].qty)
                      THEN Append(g[i - 1], lots[i]) ELSE g[i - 1]
    BY <1>8, <2>2
  <2> QED
    BY <2>3, <2>4
<1>10. \A i \in Nat : i \in {j \in Nat : j <= N => g[j] \in X}
  <2> DEFINE S == {j \in Nat : j <= N => g[j] \in X}
  <2>1. 0 \in S
    <3>1. <<>> \in X
      OBVIOUS
    <3> HIDE DEF X
    <3> QED
      BY <1>9, <3>1
  <2>2. ASSUME NEW n \in Nat, n \in S PROVE n + 1 \in S
    <3> SUFFICES ASSUME n + 1 <= N PROVE g[n + 1] \in X
      OBVIOUS
    <3>1. n + 1 \in 1..N /\ (n + 1) - 1 = n /\ g[n] \in X
      BY <1>1, <2>2
    <3>2. lots[n + 1] \in L
      BY <1>1, <3>1
    <3>3. Append(g[n], lots[n + 1]) \in X
      BY <3>1, <3>2
    <3> HIDE DEF X, N
    <3>4. g[n + 1] = IF Positive(lots[n + 1].qty) THEN Append(g[n], lots[n + 1]) ELSE g[n]
      BY <1>9, <3>1
    <3> QED
      BY <3>1, <3>3, <3>4
  <2> HIDE DEF S
  <2>3. \A n \in Nat : n \in S
    BY <2>1, <2>2, Induction
  <2> QED
    BY <2>3 DEF S
<1>11. \A i \in 0..N : g[i] \in X
  BY <1>1, <1>10
<1>12. g \in [0..N -> X]
  <2> HIDE DEF X
  <2> QED
    BY <1>8, <1>11
<1>13. Kept(lots) = g[N]
  BY DEF Kept, KeptFn, g
<1> QED
  BY <1>9, <1>12, <1>13 DEF g

(***************************************************************************)
(* Order                                                                   *)
(***************************************************************************)

LEMMA NonNegativeSum ==
  ASSUME NEW a \in Rat, NEW b \in Rat, Zero \preceq a, Zero \preceq b
  PROVE  /\ Zero \preceq (a ++ b)
         /\ Positive(b) => Positive(a ++ b)
         /\ Positive(a) => Positive(a ++ b)
<1>1. PICK d \in Pos, x \in Int, y \in Int : a = Reduced(x, d) /\ b = Reduced(y, d)
  BY Common2
<1>2. x + y \in Int /\ 0 <= x /\ 0 <= y
  BY <1>1, RatioPositive
<1>3. a ++ b = Reduced(x + y, d)
  BY <1>1, RatioAdd
<1>4. /\ Zero \preceq (a ++ b) <=> 0 <= x + y
      /\ Positive(a ++ b) <=> 0 < x + y
      /\ Positive(a) <=> 0 < x
      /\ Positive(b) <=> 0 < y
  BY <1>1, <1>2, <1>3, RatioPositive
<1> QED
  BY <1>2, <1>4

\* One turn of a loop that takes what is left of a from x, after the lots
\* that add up to s.
LEMMA OneTaken ==
  ASSUME NEW a \in Rat, NEW s \in Rat, NEW x \in Rat, Zero \preceq x,
         NEW u, u = Greater(Zero, Lesser(x, a -- s))
  PROVE  /\ u \in Rat
         /\ Zero \preceq u
         /\ u \preceq x
         /\ Lesser(a, s) ++ u = Lesser(a, s ++ x)
<1>1. PICK d \in Pos, m \in Int, n \in Int, k \in Int :
        a = Reduced(m, d) /\ s = Reduced(n, d) /\ x = Reduced(k, d)
  BY Common3
<1>2. m - n \in Int /\ n + k \in Int /\ 0 \in Int /\ 0 <= k
  BY <1>1, RatioPositive
<1> DEFINE l == IF k < m - n THEN k ELSE m - n
           t == IF 0 < l THEN l ELSE 0
           p == IF m < n THEN m ELSE n
           q == IF m < n + k THEN m ELSE n + k
<1>3. l \in Int /\ t \in Int /\ p \in Int /\ q \in Int /\ 0 <= t /\ t <= k /\ p + t = q
  BY <1>2
<1>4. a -- s = Reduced(m - n, d) /\ s ++ x = Reduced(n + k, d)
  BY <1>1, RatioAdd
<1>5. Lesser(x, a -- s) = Reduced(l, d) /\ Lesser(a, s) = Reduced(p, d)
      /\ Lesser(a, s ++ x) = Reduced(q, d)
  BY <1>1, <1>2, <1>4, RatioMinMax
<1>6. Zero = Reduced(0, d)
  BY ZeroRatio
<1>7. Greater(Zero, Lesser(x, a -- s)) = Reduced(IF 0 < l THEN l ELSE 0, d)
  <2> HIDE DEF l
  <2> QED
    BY <1>2, <1>3, <1>5, <1>6, RatioMinMax
<1> HIDE DEF l, p, q
<1>8. Greater(Zero, Lesser(x, a -- s)) = Reduced(t, d)
  BY <1>7
<1> HIDE DEF t
<1>9. Reduced(t, d) \in Rat /\ Zero \preceq Reduced(t, d) /\ Reduced(t, d) \preceq Reduced(k, d)
  BY <1>2, <1>3, RatioRat, RatioPositive, RatioLess
<1>10. Lesser(a, s) ++ Reduced(t, d) = Lesser(a, s ++ x)
  <2>1. p \in Int /\ t \in Int /\ p + t = q
    BY <1>3
  <2>2. Reduced(p, d) ++ Reduced(t, d) = Reduced(p + t, d)
    BY <2>1, RatioAdd
  <2> QED
    BY <1>5, <2>1, <2>2
<1> QED
  BY <1>1, <1>8, <1>9, <1>10

LEMMA OrderFacts ==
  ASSUME NEW a \in Rat, NEW b \in Rat
  PROVE  /\ a \prec b <=> ~(b \preceq a)
         /\ a \preceq b <=> Zero \preceq (b -- a)
         /\ a \prec b <=> Positive(b -- a)
         /\ a \preceq b => (Lesser(a, b) = a /\ Lesser(b, a) = a)
         /\ a \preceq b => (Greater(a, b) = b /\ Greater(b, a) = b)
         /\ (a \preceq b /\ b \preceq a) => a = b
         /\ a \prec b => a \preceq b
         /\ a \preceq a
         /\ ~(a \prec a)
<1>1. PICK d \in Pos, x \in Int, y \in Int : a = Reduced(x, d) /\ b = Reduced(y, d)
  BY Common2
<1>2. y - x \in Int /\ b -- a = Reduced(y - x, d)
  BY <1>1, RatioAdd
<1>3. /\ a \prec b <=> x < y
      /\ a \preceq b <=> x <= y
      /\ b \preceq a <=> y <= x
      /\ b \prec a <=> y < x
      /\ a \preceq a <=> x <= x
      /\ a \prec a <=> x < x
      /\ Zero \preceq (b -- a) <=> 0 <= y - x
      /\ Positive(b -- a) <=> 0 < y - x
  BY <1>1, <1>2, RatioLess, RatioPositive
<1>4. a \preceq b => Lesser(a, b) = a /\ Lesser(b, a) = a
  <2>1. x = y => a = b
    BY <1>1
  <2> QED
    BY <1>3, <2>1 DEF Lesser
<1>5. a \preceq b => Greater(a, b) = b /\ Greater(b, a) = b
  <2>1. x = y => a = b
    BY <1>1
  <2> QED
    BY <1>3, <2>1 DEF Greater
<1>6. (a \preceq b /\ b \preceq a) => a = b
  BY <1>1, <1>3
<1> QED
  BY <1>3, <1>4, <1>5, <1>6

LEMMA OrderTrans ==
  ASSUME NEW a \in Rat, NEW b \in Rat, NEW c \in Rat
  PROVE  /\ (a \preceq b /\ b \preceq c) => a \preceq c
         /\ (a \prec b /\ b \preceq c) => a \prec c
         /\ (a \preceq b /\ b \prec c) => a \prec c
<1>1. PICK d \in Pos, x \in Int, y \in Int, z \in Int :
        a = Reduced(x, d) /\ b = Reduced(y, d) /\ c = Reduced(z, d)
  BY Common3
<1>2. /\ a \preceq b <=> x <= y
      /\ b \preceq c <=> y <= z
      /\ a \preceq c <=> x <= z
      /\ a \prec b <=> x < y
      /\ b \prec c <=> y < z
      /\ a \prec c <=> x < z
  BY <1>1, RatioLess
<1> QED
  BY <1>2

\* What a drain takes and what it must borrow add up to what is asked for.
LEMMA SplitAmount ==
  ASSUME NEW a \in Rat, NEW t \in Rat
  PROVE  /\ Lesser(a, t) ++ Greater(Zero, a -- t) = a
         /\ a -- Lesser(a, t) = Greater(Zero, a -- t)
         /\ t -- Lesser(a, t) = Greater(Zero, t -- a)
         /\ Positive(Greater(Zero, a -- t)) <=> t \prec a
<1>1. PICK d \in Pos, x \in Int, y \in Int : a = Reduced(x, d) /\ t = Reduced(y, d)
  BY Common2
<1> DEFINE l == IF x < y THEN x ELSE y
           g == IF 0 < x - y THEN x - y ELSE 0
           h == IF 0 < y - x THEN y - x ELSE 0
<1>2. /\ x - y \in Int /\ y - x \in Int /\ 0 \in Int /\ l \in Int /\ g \in Int /\ h \in Int
      /\ l + g = x /\ x - l = g /\ y - l = h /\ (0 < g <=> y < x)
  OBVIOUS
<1>3. a -- t = Reduced(x - y, d) /\ t -- a = Reduced(y - x, d) /\ Zero = Reduced(0, d)
  BY <1>1, RatioAdd, ZeroRatio
<1>4. Lesser(a, t) = Reduced(l, d)
  BY <1>1, RatioMinMax
<1>5. Greater(Zero, a -- t) = Reduced(g, d)
  BY <1>2, <1>3, RatioMinMax
<1>6. Greater(Zero, t -- a) = Reduced(h, d)
  BY <1>2, <1>3, RatioMinMax
<1> HIDE DEF l, g, h
<1>7. l + g = x /\ x - l = g /\ y - l = h
  BY <1>2
<1>8. /\ Lesser(a, t) ++ Greater(Zero, a -- t) = Reduced(l + g, d)
      /\ a -- Lesser(a, t) = Reduced(x - l, d)
      /\ t -- Lesser(a, t) = Reduced(y - l, d)
  BY <1>1, <1>2, <1>4, <1>5, RatioAdd
<1>9. Positive(Greater(Zero, a -- t)) <=> 0 < g
  BY <1>2, <1>5, RatioPositive
<1>10. t \prec a <=> y < x
  BY <1>1, RatioLess
<1> QED
  BY <1>1, <1>2, <1>5, <1>6, <1>8, <1>9, <1>10

\* What is kept is positive, and lacks only values that are zero.
LEMMA KeptFacts ==
  ASSUME NEW L, NEW lots \in Seq(L)
  PROVE  /\ Kept(lots) \in Seq(L)
         /\ AllPositive(Kept(lots))
<1> DEFINE k == KeptFn(lots)
           N == Len(lots)
           S == {j \in Nat : j <= N => AllPositive(k[j])}
<1>0. /\ k \in [0..N -> Seq(L)] /\ k[0] = <<>>
      /\ \A i \in 1..N : k[i] = IF Positive(lots[i].qty)
                                THEN Append(k[i - 1], lots[i]) ELSE k[i - 1]
      /\ Kept(lots) = k[N]
  BY KeptProp
<1>1. N \in Nat /\ \A i \in 1..N : lots[i] \in L
  OBVIOUS
<1> HIDE DEF k, N
<1>2. 0 \in S
  BY <1>0 DEF AllPositive
<1>3. ASSUME NEW n \in Nat, n \in S PROVE n + 1 \in S
  <2> SUFFICES ASSUME n + 1 <= N PROVE AllPositive(k[n + 1])
    OBVIOUS
  <2>1. n + 1 \in 1..N /\ (n + 1) - 1 = n /\ n \in 0..N
    BY <1>1
  <2>2. k[n] \in Seq(L) /\ lots[n + 1] \in L /\ AllPositive(k[n])
    BY <1>0, <1>1, <1>3, <2>1
  <2>3. k[n + 1] = IF Positive(lots[n + 1].qty) THEN Append(k[n], lots[n + 1]) ELSE k[n]
    BY <1>0, <2>1
  <2>4. ASSUME Positive(lots[n + 1].qty) PROVE AllPositive(Append(k[n], lots[n + 1]))
    BY <2>2, <2>4 DEF AllPositive
  <2> QED
    BY <2>2, <2>3, <2>4
<1> HIDE DEF S
<1>4. \A n \in Nat : n \in S
  BY <1>2, <1>3, Induction
<1>5. AllPositive(k[N]) /\ k[N] \in Seq(L)
  BY <1>0, <1>1, <1>4 DEF S
<1> QED
  BY <1>0, <1>5

LEMMA KeptSum ==
  ASSUME NEW L, NEW lots \in Seq(L), NEW val \in [L -> Rat],
         \A i \in 1..Len(lots) : Positive(lots[i].qty) \/ val[lots[i]] = Zero
  PROVE  ValSum(Kept(lots), val) = ValSum(lots, val)
<1> DEFINE k == KeptFn(lots)
           N == Len(lots)
           v == Vals(lots, val)
           S == {j \in Nat : j <= N => ValSum(k[j], val) = Sums(v)[j]}
<1>0. /\ k \in [0..N -> Seq(L)] /\ k[0] = <<>>
      /\ \A i \in 1..N : k[i] = IF Positive(lots[i].qty)
                                THEN Append(k[i - 1], lots[i]) ELSE k[i - 1]
      /\ Kept(lots) = k[N]
  BY KeptProp
<1>1. N \in Nat /\ \A i \in 1..N : lots[i] \in L
  OBVIOUS
<1>2. v \in Seq(Rat) /\ Len(v) = N /\ \A i \in 1..N : v[i] = val[lots[i]]
  BY ValsType
<1>3. /\ Sums(v)[0] = Zero
      /\ \A i \in 1..N : Sums(v)[i] = Sums(v)[i - 1] ++ v[i]
      /\ \A i \in 0..N : Sums(v)[i] \in Rat
  BY <1>2, SumsProp
<1>4. ValSum(lots, val) = Sums(v)[N]
  BY <1>2 DEF ValSum, SumOf
<1>z. \A i \in 1..N : Positive(lots[i].qty) \/ val[lots[i]] = Zero
  OBVIOUS
<1> HIDE DEF k, N, v
<1>5. 0 \in S
  BY <1>0, <1>3, ValSumEmpty
<1>6. ASSUME NEW n \in Nat, n \in S PROVE n + 1 \in S
  <2> SUFFICES ASSUME n + 1 <= N PROVE ValSum(k[n + 1], val) = Sums(v)[n + 1]
    OBVIOUS
  <2>1. n + 1 \in 1..N /\ (n + 1) - 1 = n /\ n \in 0..N
    BY <1>1
  <2>2. k[n] \in Seq(L) /\ lots[n + 1] \in L /\ ValSum(k[n], val) = Sums(v)[n]
    BY <1>0, <1>1, <1>6, <2>1
  <2>3. k[n + 1] = IF Positive(lots[n + 1].qty) THEN Append(k[n], lots[n + 1]) ELSE k[n]
    BY <1>0, <2>1
  <2>4. Sums(v)[n + 1] = Sums(v)[n] ++ val[lots[n + 1]]
    BY <1>2, <1>3, <2>1
  <2>5. CASE Positive(lots[n + 1].qty)
    <3>1. ValSum(Append(k[n], lots[n + 1]), val) = ValSum(k[n], val) ++ val[lots[n + 1]]
      BY <2>2, ValSumAppend
    <3> QED
      BY <2>2, <2>3, <2>4, <2>5, <3>1
  <2>6. CASE ~Positive(lots[n + 1].qty)
    <3>1. val[lots[n + 1]] = Zero
      BY <1>z, <2>1, <2>6
    <3>2. Sums(v)[n] \in Rat /\ Sums(v)[n] ++ Zero = Sums(v)[n]
      BY <1>3, <2>1, AddZero
    <3> QED
      BY <2>2, <2>3, <2>4, <2>6, <3>1, <3>2
  <2> QED
    BY <2>5, <2>6
<1> HIDE DEF S
<1>7. \A n \in Nat : n \in S
  BY <1>5, <1>6, Induction
<1> QED
  BY <1>0, <1>1, <1>4, <1>7 DEF S

(***************************************************************************)
(* What a loop takes from the front of lots                                *)
(***************************************************************************)

Qtys(lots) == [i \in DOMAIN lots |-> lots[i].qty]

LEMMA TotalQtyIs == ASSUME NEW lots PROVE TotalQty(lots) = SumOf(Qtys(lots))
BY DEF TotalQty, Total, Qtys

\* A set of lots.
LotSet(L) == \A l \in L : l.qty \in Rat

LEMMA QtysType ==
  ASSUME NEW L, LotSet(L), NEW lots \in Seq(L)
  PROVE  /\ Qtys(lots) \in Seq(Rat)
         /\ Len(Qtys(lots)) = Len(lots)
         /\ \A i \in 1..Len(lots) : Qtys(lots)[i] = lots[i].qty /\ lots[i].qty \in Rat
         /\ TotalQty(lots) \in Rat
<1>1. DOMAIN lots = 1..Len(lots) /\ Len(lots) \in Nat /\ \A i \in 1..Len(lots) : lots[i] \in L
  OBVIOUS
<1>2. \A i \in 1..Len(lots) : lots[i].qty \in Rat
  BY <1>1 DEF LotSet
<1>3. Qtys(lots) \in [1..Len(lots) -> Rat]
  BY <1>1, <1>2 DEF Qtys
<1>4. \A i \in 1..Len(lots) : Qtys(lots)[i] = lots[i].qty
  BY <1>1 DEF Qtys
<1>5. Qtys(lots) \in Seq(Rat) /\ Len(Qtys(lots)) = Len(lots)
  BY <1>1, <1>3, FunSeq
<1> QED
  BY <1>2, <1>4, <1>5, SumType, TotalQtyIs

TakenWell(lots, t, amount) ==
  /\ t \in Seq(Rat)
  /\ Len(t) = Len(lots)
  /\ DOMAIN t = 1..Len(lots)
  /\ \A i \in 1..Len(lots) : Zero \preceq t[i] /\ t[i] \preceq lots[i].qty
  /\ \A n \in 0..Len(lots) : Sums(t)[n] = Lesser(amount, Sums(Qtys(lots))[n])
  /\ SumOf(t) = Lesser(amount, TotalQty(lots))

\* Never more than a lot holds, in order, and the amount in all, while the
\* lots last.
LEMMA TakenFacts ==
  ASSUME NEW L, LotSet(L), NEW lots \in Seq(L), AllPositive(lots),
         NEW amount \in Rat, Zero \preceq amount
  PROVE  TakenWell(lots, Taken(lots, amount), amount)
<1> DEFINE N == Len(lots)
           q == Qtys(lots)
           t == Taken(lots, amount)
<1>1. N \in Nat /\ DOMAIN lots = 1..N
  OBVIOUS
<1>2. /\ q \in Seq(Rat) /\ Len(q) = N
      /\ \A i \in 1..N : q[i] = lots[i].qty /\ lots[i].qty \in Rat
  BY QtysType
<1>3. \A i \in 1..N : Zero \preceq lots[i].qty
  BY <1>1, <1>2, NotNegative DEF AllPositive
<1>4. t = [i \in 1..N |-> Greater(Zero, Lesser(lots[i].qty, amount -- Sums(q)[i - 1]))]
  BY <1>1 DEF Taken, Qtys
<1>5. /\ Sums(q)[0] = Zero
      /\ \A i \in 1..N : Sums(q)[i] = Sums(q)[i - 1] ++ q[i]
      /\ \A i \in 0..N : Sums(q)[i] \in Rat
  BY <1>2, SumsProp
<1> HIDE DEF N, q, t
<1>6. ASSUME NEW i \in 1..N
      PROVE  /\ t[i] \in Rat /\ Zero \preceq t[i] /\ t[i] \preceq lots[i].qty
             /\ Lesser(amount, Sums(q)[i - 1]) ++ t[i] = Lesser(amount, Sums(q)[i])
  <2>1. Sums(q)[i - 1] \in Rat /\ lots[i].qty \in Rat /\ Zero \preceq lots[i].qty
    BY <1>1, <1>2, <1>3, <1>5
  <2>2. t[i] = Greater(Zero, Lesser(lots[i].qty, amount -- Sums(q)[i - 1]))
    BY <1>4
  <2>3. Sums(q)[i] = Sums(q)[i - 1] ++ lots[i].qty
    BY <1>2, <1>5
  <2> DEFINE s == Sums(q)[i - 1]
             x == lots[i].qty
             u == t[i]
  <2>4. s \in Rat /\ x \in Rat /\ Zero \preceq x /\ u = Greater(Zero, Lesser(x, amount -- s))
    BY <2>1, <2>2
  <2> HIDE DEF s, x, u
  <2>5. /\ u \in Rat /\ Zero \preceq u /\ u \preceq x
        /\ Lesser(amount, s) ++ u = Lesser(amount, s ++ x)
    BY <2>4, OneTaken
  <2> QED
    BY <2>3, <2>5 DEF s, x, u
<1>7. t \in [1..N -> Rat]
  BY <1>4, <1>6
<1>8. t \in Seq(Rat) /\ Len(t) = N /\ DOMAIN t = 1..N
  BY <1>1, <1>7, FunSeq
<1>9. /\ Sums(t)[0] = Zero
      /\ \A i \in 1..N : Sums(t)[i] = Sums(t)[i - 1] ++ t[i]
  BY <1>8, SumsProp
<1> DEFINE S == {j \in Nat : j <= N => Sums(t)[j] = Lesser(amount, Sums(q)[j])}
<1>10. 0 \in S
  BY <1>5, <1>9, ZeroType, OrderFacts
<1>11. ASSUME NEW n \in Nat, n \in S PROVE n + 1 \in S
  <2> SUFFICES ASSUME n + 1 <= N PROVE Sums(t)[n + 1] = Lesser(amount, Sums(q)[n + 1])
    OBVIOUS
  <2>1. n + 1 \in 1..N /\ (n + 1) - 1 = n
    BY <1>1
  <2> QED
    <3>0. Sums(t)[n + 1] = Sums(t)[n] ++ t[n + 1]
      BY <1>9, <2>1
    <3>1. Sums(t)[n] = Lesser(amount, Sums(q)[n])
      BY <1>1, <1>11
    <3>2. Lesser(amount, Sums(q)[n]) ++ t[n + 1] = Lesser(amount, Sums(q)[n + 1])
      BY <1>6, <2>1
    <3> QED
      BY <3>0, <3>1, <3>2
<1> HIDE DEF S
<1>12. \A n \in Nat : n \in S
  BY <1>10, <1>11, Induction
<1>13. \A n \in 0..N : Sums(t)[n] = Lesser(amount, Sums(q)[n])
  BY <1>1, <1>12 DEF S
<1>14. SumOf(t) = Lesser(amount, TotalQty(lots))
  <2>1. N \in 0..N
    BY <1>1
  <2> QED
    BY <1>2, <1>8, <1>13, <2>1, TotalQtyIs DEF SumOf, q
<1>15. TakenWell(lots, t, amount)
  BY <1>6, <1>8, <1>13, <1>14 DEF TakenWell, N, q
<1> QED
  BY <1>15 DEF t

LEMMA PositiveTotal ==
  ASSUME NEW L, LotSet(L), NEW lots \in Seq(L), AllPositive(lots)
  PROVE  /\ Zero \preceq TotalQty(lots)
         /\ lots # <<>> => Positive(TotalQty(lots))
         /\ lots = <<>> <=> TotalQty(lots) = Zero
<1> DEFINE N == Len(lots)
           q == Qtys(lots)
<1>1. N \in Nat /\ DOMAIN lots = 1..N
  OBVIOUS
<1>2. /\ q \in Seq(Rat) /\ Len(q) = N
      /\ \A i \in 1..N : q[i] = lots[i].qty /\ lots[i].qty \in Rat
  BY QtysType
<1>3. \A i \in 1..N : q[i] \in Rat /\ Positive(q[i]) /\ Zero \preceq q[i]
  BY <1>1, <1>2, NotNegative DEF AllPositive
<1>4. /\ Sums(q)[0] = Zero
      /\ \A i \in 1..N : Sums(q)[i] = Sums(q)[i - 1] ++ q[i]
      /\ \A i \in 0..N : Sums(q)[i] \in Rat
  BY <1>2, SumsProp
<1>5. TotalQty(lots) = Sums(q)[N]
  BY <1>2, TotalQtyIs DEF SumOf
<1>6. lots = <<>> <=> N = 0
  BY EmptySeq
<1> HIDE DEF q, N
<1> DEFINE S == {j \in Nat : j <= N => /\ Zero \preceq Sums(q)[j]
                                       /\ j # 0 => Positive(Sums(q)[j])}
<1>7. 0 \in S
  BY <1>4, ZeroType, NotNegative
<1>8. ASSUME NEW n \in Nat, n \in S PROVE n + 1 \in S
  <2> SUFFICES ASSUME n + 1 <= N
               PROVE  Zero \preceq Sums(q)[n + 1] /\ Positive(Sums(q)[n + 1])
    OBVIOUS
  <2>1. n + 1 \in 1..N /\ (n + 1) - 1 = n /\ n \in 0..N
    BY <1>1
  <2> DEFINE a == Sums(q)[n]
             b == q[n + 1]
  <2>2. a \in Rat /\ b \in Rat /\ Positive(b) /\ Zero \preceq b /\ Zero \preceq a
    BY <1>1, <1>3, <1>4, <1>8, <2>1
  <2>3. Sums(q)[n + 1] = a ++ b
    BY <1>4, <2>1
  <2> HIDE DEF a, b
  <2> QED
    BY <2>2, <2>3, NonNegativeSum
<1> HIDE DEF S
<1>9. \A n \in Nat : n \in S
  BY <1>7, <1>8, Induction
<1>10. Zero \preceq Sums(q)[N] /\ (N # 0 => Positive(Sums(q)[N])) /\ Sums(q)[N] \in Rat
  BY <1>1, <1>4, <1>9 DEF S
<1>11. N = 0 => Sums(q)[N] = Zero
  BY <1>4
<1>12. N # 0 => Sums(q)[N] # Zero
  BY <1>10, NotNegative
<1> QED
  BY <1>5, <1>6, <1>10, <1>11, <1>12

\* Lots whose quantity can change.
Resizable(L) ==
  \A l \in L : \A q \in Rat :
    [l EXCEPT !.qty = q] \in L /\ [l EXCEPT !.qty = q].qty = q

\* What a lot weighs does not depend on its quantity.
WeightOf(L, w) ==
  /\ w \in [L -> Rat]
  /\ \A l \in L : \A q \in Rat : w[[l EXCEPT !.qty = q]] = w[l]

Weighed(L, w) == [l \in L |-> l.qty ** w[l]]

TakenVals(lots, t, w) == [i \in DOMAIN lots |-> t[i] ** w[lots[i]]]

LEMMA WeighedType ==
  ASSUME NEW L, LotSet(L), NEW w \in [L -> Rat]
  PROVE  Weighed(L, w) \in [L -> Rat]
BY MulType DEF LotSet, Weighed

LEMMA TakenValsType ==
  ASSUME NEW L, NEW lots \in Seq(L), NEW w \in [L -> Rat], NEW t \in Seq(Rat),
         Len(t) = Len(lots)
  PROVE  /\ TakenVals(lots, t, w) \in Seq(Rat)
         /\ Len(TakenVals(lots, t, w)) = Len(lots)
         /\ \A i \in 1..Len(lots) :
              /\ TakenVals(lots, t, w)[i] = t[i] ** w[lots[i]]
              /\ t[i] \in Rat /\ w[lots[i]] \in Rat
         /\ SumOf(TakenVals(lots, t, w)) \in Rat
<1>1. DOMAIN lots = 1..Len(lots) /\ Len(lots) \in Nat
  OBVIOUS
<1>2. \A i \in 1..Len(lots) : lots[i] \in L /\ t[i] \in Rat
  OBVIOUS
<1>3. \A i \in 1..Len(lots) : w[lots[i]] \in Rat
  BY <1>2
<1>4. \A i \in 1..Len(lots) : t[i] ** w[lots[i]] \in Rat
  BY <1>2, <1>3, MulType
<1>5. TakenVals(lots, t, w) \in [1..Len(lots) -> Rat]
  BY <1>1, <1>4 DEF TakenVals
<1>6. TakenVals(lots, t, w) \in Seq(Rat) /\ Len(TakenVals(lots, t, w)) = Len(lots)
  BY <1>1, <1>5, FunSeq
<1>7. \A i \in 1..Len(lots) : TakenVals(lots, t, w)[i] = t[i] ** w[lots[i]]
  BY <1>1 DEF TakenVals
<1> QED
  BY <1>2, <1>3, <1>6, <1>7, SumType

\* What the lots weigh less what is taken of them.
Left(lots, t) == [i \in DOMAIN lots |-> [lots[i] EXCEPT !.qty = @ -- t[i]]]

LEMMA LeftFacts ==
  ASSUME NEW L, LotSet(L), Resizable(L), NEW lots \in Seq(L), NEW t \in Seq(Rat),
         Len(t) = Len(lots)
  PROVE  /\ Left(lots, t) \in Seq(L) /\ Len(Left(lots, t)) = Len(lots)
         /\ \A i \in 1..Len(lots) :
              /\ Left(lots, t)[i] = [lots[i] EXCEPT !.qty = lots[i].qty -- t[i]]
              /\ Left(lots, t)[i].qty = lots[i].qty -- t[i]
              /\ lots[i].qty \in Rat /\ t[i] \in Rat /\ lots[i].qty -- t[i] \in Rat
<1>1. DOMAIN lots = 1..Len(lots) /\ Len(lots) \in Nat
  OBVIOUS
<1>2. \A i \in 1..Len(lots) : lots[i] \in L /\ t[i] \in Rat
  OBVIOUS
<1>3. \A i \in 1..Len(lots) : lots[i].qty \in Rat /\ lots[i].qty -- t[i] \in Rat
  BY <1>2, AddType DEF LotSet
<1>4. \A i \in 1..Len(lots) :
        /\ [lots[i] EXCEPT !.qty = lots[i].qty -- t[i]] \in L
        /\ [lots[i] EXCEPT !.qty = lots[i].qty -- t[i]].qty = lots[i].qty -- t[i]
  BY <1>2, <1>3 DEF Resizable
<1>5. Left(lots, t) \in [1..Len(lots) -> L]
  BY <1>1, <1>4 DEF Left
<1>6. \A i \in 1..Len(lots) :
        Left(lots, t)[i] = [lots[i] EXCEPT !.qty = lots[i].qty -- t[i]]
  BY <1>1 DEF Left
<1>7. Left(lots, t) \in Seq(L) /\ Len(Left(lots, t)) = Len(lots)
  BY <1>1, <1>5, FunSeq
<1> QED
  BY <1>2, <1>3, <1>4, <1>6, <1>7

LEMMA LeftSum ==
  ASSUME NEW L, LotSet(L), Resizable(L), NEW lots \in Seq(L), NEW t \in Seq(Rat),
         Len(t) = Len(lots), NEW w, WeightOf(L, w)
  PROVE  ValSum(Left(lots, t), Weighed(L, w))
           = ValSum(lots, Weighed(L, w)) -- SumOf(TakenVals(lots, t, w))
<1> DEFINE N == Len(lots)
           val == Weighed(L, w)
           left == Left(lots, t)
           p == Vals(lots, val)
           u == TakenVals(lots, t, w)
           r == Vals(left, val)
<1>0. w \in [L -> Rat] /\ \A l \in L : \A q \in Rat : w[[l EXCEPT !.qty = q]] = w[l]
  BY DEF WeightOf
<1>1. val \in [L -> Rat]
  BY <1>0, WeighedType
<1>2. /\ left \in Seq(L) /\ Len(left) = N
      /\ \A i \in 1..N :
           /\ left[i] = [lots[i] EXCEPT !.qty = lots[i].qty -- t[i]]
           /\ left[i].qty = lots[i].qty -- t[i]
           /\ lots[i].qty \in Rat /\ t[i] \in Rat /\ lots[i].qty -- t[i] \in Rat
  BY LeftFacts
<1>3. p \in Seq(Rat) /\ Len(p) = N /\ \A i \in 1..N : p[i] = val[lots[i]]
  BY <1>1, ValsType
<1>4. r \in Seq(Rat) /\ Len(r) = N /\ \A i \in 1..N : r[i] = val[left[i]]
  <2> HIDE DEF val, left
  <2> QED
    BY <1>1, <1>2, ValsType
<1>5. /\ u \in Seq(Rat) /\ Len(u) = N
      /\ \A i \in 1..N : u[i] = t[i] ** w[lots[i]] /\ w[lots[i]] \in Rat
  BY <1>0, TakenValsType
<1>6. \A i \in 1..N : lots[i] \in L
  OBVIOUS
<1>7. \A l \in L : val[l] = l.qty ** w[l]
  BY DEF Weighed
<1>8. ASSUME NEW i \in 1..N PROVE r[i] = p[i] -- u[i]
  <2>1. left[i] \in L /\ lots[i] \in L
    BY <1>2, <1>6
  <2>2. w[left[i]] = w[lots[i]]
    <3> HIDE DEF left, N
    <3>1. left[i] = [lots[i] EXCEPT !.qty = lots[i].qty -- t[i]] /\ lots[i].qty -- t[i] \in Rat
      BY <1>2
    <3>2. w[[lots[i] EXCEPT !.qty = lots[i].qty -- t[i]]] = w[lots[i]]
      BY <1>0, <2>1, <3>1
    <3> QED
      BY <3>1, <3>2
  <2>3. r[i] = (lots[i].qty -- t[i]) ** w[lots[i]] /\ p[i] = lots[i].qty ** w[lots[i]]
    <3> HIDE DEF val, left, p, r, N
    <3> QED
      BY <1>2, <1>3, <1>4, <1>7, <2>1, <2>2
  <2>4. lots[i].qty \in Rat /\ t[i] \in Rat /\ w[lots[i]] \in Rat
    BY <1>2, <1>5
  <2>5. (lots[i].qty -- t[i]) ** w[lots[i]]
          = (lots[i].qty ** w[lots[i]]) -- (t[i] ** w[lots[i]])
    BY <2>4, MulDist
  <2> QED
    BY <1>5, <2>3, <2>5
<1> HIDE DEF p, u, r, N
<1>9. SumOf(r) = SumOf(p) -- SumOf(u)
  <2>1. Len(p) = Len(r) /\ Len(u) = Len(r) /\ \A i \in 1..Len(r) : r[i] = p[i] -- u[i]
    BY <1>3, <1>4, <1>5, <1>8
  <2> QED
    BY <1>3, <1>4, <1>5, <2>1, SumPointwise
<1> QED
  BY <1>9 DEF ValSum, p, u, r

Ones(L) == [l \in L |-> One]

LEMMA OnesWeight == ASSUME NEW L, Resizable(L) PROVE WeightOf(L, Ones(L))
BY OneRatio DEF WeightOf, Ones, Resizable

LEMMA OnesTotal ==
  ASSUME NEW L, LotSet(L), NEW lots \in Seq(L)
  PROVE  ValSum(lots, Weighed(L, Ones(L))) = TotalQty(lots)
<1> DEFINE val == Weighed(L, Ones(L))
<1>1. \A l \in L : val[l] = l.qty
  BY MulUnit DEF Weighed, Ones, LotSet
<1>2. val \in [L -> Rat]
  BY OneRatio, WeighedType DEF Ones
<1> HIDE DEF val
<1>3. /\ Vals(lots, val) \in Seq(Rat) /\ Len(Vals(lots, val)) = Len(lots)
      /\ \A i \in 1..Len(lots) : Vals(lots, val)[i] = val[lots[i]]
  BY <1>2, ValsType
<1>4. /\ Qtys(lots) \in Seq(Rat) /\ Len(Qtys(lots)) = Len(lots)
      /\ \A i \in 1..Len(lots) : Qtys(lots)[i] = lots[i].qty
  BY QtysType
<1>5. \A i \in 1..Len(lots) : lots[i] \in L
  OBVIOUS
<1>6. \A i \in 1..Len(Vals(lots, val)) : Vals(lots, val)[i] = Qtys(lots)[i]
  BY <1>1, <1>3, <1>4, <1>5
<1>7. SumOf(Vals(lots, val)) = SumOf(Qtys(lots))
  BY <1>3, <1>4, <1>6, SumSame
<1> QED
  BY <1>7, TotalQtyIs DEF ValSum, val

LEMMA OnesTaken ==
  ASSUME NEW L, NEW lots \in Seq(L), NEW t \in Seq(Rat), Len(t) = Len(lots)
  PROVE  SumOf(TakenVals(lots, t, Ones(L))) = SumOf(t)
<1>1. Ones(L) \in [L -> Rat]
  BY OneRatio DEF Ones
<1>2. /\ TakenVals(lots, t, Ones(L)) \in Seq(Rat)
      /\ Len(TakenVals(lots, t, Ones(L))) = Len(lots)
      /\ \A i \in 1..Len(lots) :
           /\ TakenVals(lots, t, Ones(L))[i] = t[i] ** Ones(L)[lots[i]]
           /\ t[i] \in Rat
  BY <1>1, TakenValsType
<1>3. \A i \in 1..Len(lots) : lots[i] \in L
  OBVIOUS
<1>4. \A i \in 1..Len(lots) : TakenVals(lots, t, Ones(L))[i] = t[i]
  BY <1>2, <1>3, MulUnit DEF Ones
<1> QED
  BY <1>2, <1>4, SumSame

\* Adding and taking away are linear in the weight.
LEMMA TakenSplit ==
  ASSUME NEW L, NEW lots \in Seq(L), NEW t \in Seq(Rat), Len(t) = Len(lots),
         NEW w \in [L -> Rat], NEW v \in [L -> Rat], NEW c \in Rat,
         \A i \in 1..Len(lots) : v[lots[i]] = c -- w[lots[i]]
  PROVE  SumOf(TakenVals(lots, t, v)) = (SumOf(t) ** c) -- SumOf(TakenVals(lots, t, w))
<1> DEFINE N == Len(lots)
           p == TakenVals(lots, t, w)
           r == TakenVals(lots, t, v)
           q == [i \in 1..N |-> t[i] ** c]
<1>1. N \in Nat /\ \A i \in 1..N : t[i] \in Rat
  OBVIOUS
<1>2. p \in Seq(Rat) /\ Len(p) = N
      /\ \A i \in 1..N : p[i] = t[i] ** w[lots[i]] /\ w[lots[i]] \in Rat
  BY TakenValsType
<1>3. r \in Seq(Rat) /\ Len(r) = N /\ \A i \in 1..N : r[i] = t[i] ** v[lots[i]]
  BY TakenValsType
<1>4. q \in [1..N -> Rat] /\ \A i \in 1..N : q[i] = t[i] ** c
  BY <1>1, MulType
<1>v. \A i \in 1..N : v[lots[i]] = c -- w[lots[i]]
  OBVIOUS
<1>t. Len(t) = N
  OBVIOUS
<1> HIDE DEF N, p, r, q
<1>5. q \in Seq(Rat) /\ Len(q) = N
  BY <1>1, <1>4, FunSeq
<1>6. SumOf(q) = SumOf(t) ** c
  BY <1>4, <1>5, <1>t, SumMul
<1>7. ASSUME NEW i \in 1..N PROVE r[i] = q[i] -- p[i]
  <2>1. t[i] \in Rat /\ w[lots[i]] \in Rat
    BY <1>1, <1>2
  <2>2. t[i] ** (c -- w[lots[i]]) = (t[i] ** c) -- (t[i] ** w[lots[i]])
    BY <2>1, MulDist
  <2> QED
    BY <1>2, <1>3, <1>4, <1>v, <2>2
<1>8. SumOf(r) = SumOf(q) -- SumOf(p)
  <2>1. Len(q) = Len(r) /\ Len(p) = Len(r) /\ \A i \in 1..Len(r) : r[i] = q[i] -- p[i]
    BY <1>2, <1>3, <1>5, <1>7
  <2> QED
    BY <1>2, <1>3, <1>5, <2>1, SumPointwise
<1> QED
  BY <1>6, <1>8 DEF p, r

(***************************************************************************)
(* What the loop leaves                                                    *)
(***************************************************************************)

LEMMA RestIs ==
  ASSUME NEW lots, NEW amount
  PROVE  Rest(lots, amount) = Kept(Left(lots, Taken(lots, amount)))
BY DEF Rest, Left

LEMMA RestType ==
  ASSUME NEW L, LotSet(L), Resizable(L), NEW lots \in Seq(L), AllPositive(lots),
         NEW amount \in Rat, Zero \preceq amount
  PROVE  Rest(lots, amount) \in Seq(L) /\ AllPositive(Rest(lots, amount))
<1> DEFINE t == Taken(lots, amount)
<1>1. t \in Seq(Rat) /\ Len(t) = Len(lots)
  BY TakenFacts DEF TakenWell
<1> HIDE DEF t
<1>2. Left(lots, t) \in Seq(L)
  BY <1>1, LeftFacts
<1>3. Kept(Left(lots, t)) \in Seq(L) /\ AllPositive(Kept(Left(lots, t)))
  BY <1>2, KeptFacts
<1> QED
  BY <1>3, RestIs DEF t

LEMMA RestSum ==
  ASSUME NEW L, LotSet(L), Resizable(L), NEW lots \in Seq(L), AllPositive(lots),
         NEW amount \in Rat, Zero \preceq amount, NEW w, WeightOf(L, w)
  PROVE  ValSum(Rest(lots, amount), Weighed(L, w))
           = ValSum(lots, Weighed(L, w))
               -- SumOf(TakenVals(lots, Taken(lots, amount), w))
<1> DEFINE t == Taken(lots, amount)
           val == Weighed(L, w)
           left == Left(lots, t)
<1>1. /\ t \in Seq(Rat) /\ Len(t) = Len(lots)
      /\ \A i \in 1..Len(lots) : Zero \preceq t[i] /\ t[i] \preceq lots[i].qty
  BY TakenFacts DEF TakenWell
<1>0. w \in [L -> Rat]
  BY DEF WeightOf
<1> HIDE DEF t
<1>2. /\ left \in Seq(L) /\ Len(left) = Len(lots)
      /\ \A i \in 1..Len(lots) :
           /\ left[i] = [lots[i] EXCEPT !.qty = lots[i].qty -- t[i]]
           /\ left[i].qty = lots[i].qty -- t[i]
           /\ lots[i].qty \in Rat /\ t[i] \in Rat /\ lots[i].qty -- t[i] \in Rat
  BY <1>1, LeftFacts
<1>3. val \in [L -> Rat]
  BY <1>0, WeighedType
<1>4. ValSum(left, val) = ValSum(lots, val) -- SumOf(TakenVals(lots, t, w))
  BY <1>1, LeftSum
<1>5. \A l \in L : val[l] = l.qty ** w[l] /\ w[l] \in Rat
  BY <1>0 DEF Weighed
<1> HIDE DEF left, val
<1>6. ASSUME NEW i \in 1..Len(left) PROVE Positive(left[i].qty) \/ val[left[i]] = Zero
  <2>1. i \in 1..Len(lots) /\ left[i] \in L
    BY <1>2
  <2>2. Zero \preceq left[i].qty /\ left[i].qty \in Rat
    <3> DEFINE a == t[i]
               b == lots[i].qty
    <3>1. a \in Rat /\ b \in Rat /\ a \preceq b /\ left[i].qty = b -- a /\ b -- a \in Rat
      BY <1>1, <1>2, <2>1
    <3> HIDE DEF a, b
    <3>2. Zero \preceq (b -- a)
      BY <3>1, OrderFacts
    <3> QED
      BY <3>1, <3>2
  <2>3. Positive(left[i].qty) \/ left[i].qty = Zero
    BY <2>2, NotNegative
  <2>4. Zero ** w[left[i]] = Zero
    BY <1>5, <2>1, MulUnit
  <2> QED
    BY <1>5, <2>1, <2>3, <2>4
<1>7. ValSum(Kept(left), val) = ValSum(left, val)
  BY <1>2, <1>3, <1>6, KeptSum
<1> QED
  BY <1>4, <1>7, RestIs DEF left, t, val

RestWell(lots, rest, amount) ==
  /\ AllPositive(rest)
  /\ TotalQty(rest) = TotalQty(lots) -- Lesser(amount, TotalQty(lots))
  /\ rest = <<>> <=> TotalQty(lots) \preceq amount
  /\ TotalQty(lots) \in Rat /\ Zero \preceq TotalQty(lots)

LEMMA RestFacts ==
  ASSUME NEW L, LotSet(L), Resizable(L), NEW lots \in Seq(L), AllPositive(lots),
         NEW amount \in Rat, Zero \preceq amount
  PROVE  RestWell(lots, Rest(lots, amount), amount)
<1> DEFINE t == Taken(lots, amount)
           rest == Rest(lots, amount)
           tot == TotalQty(lots)
           w == Ones(L)
<1>1. t \in Seq(Rat) /\ Len(t) = Len(lots) /\ SumOf(t) = Lesser(amount, tot)
  BY TakenFacts DEF TakenWell
<1>2. rest \in Seq(L) /\ AllPositive(rest)
  BY RestType
<1>3. ValSum(rest, Weighed(L, w)) = ValSum(lots, Weighed(L, w)) -- SumOf(TakenVals(lots, t, w))
  BY OnesWeight, RestSum
<1>4. ValSum(lots, Weighed(L, w)) = tot
  BY OnesTotal
<1>5. SumOf(TakenVals(lots, t, w)) = SumOf(t)
  <2> HIDE DEF t
  <2> QED
    BY <1>1, OnesTaken
<1> HIDE DEF rest
<1>6. ValSum(rest, Weighed(L, w)) = TotalQty(rest)
  BY <1>2, OnesTotal
<1>7. TotalQty(rest) = tot -- Lesser(amount, tot)
  BY <1>1, <1>3, <1>4, <1>5, <1>6
<1>8. tot \in Rat /\ Zero \preceq tot
  BY QtysType, PositiveTotal
<1>9. rest = <<>> <=> TotalQty(rest) = Zero
  BY <1>2, PositiveTotal
<1> HIDE DEF tot
<1>10. tot -- Lesser(amount, tot) = Greater(Zero, tot -- amount)
  BY <1>8, SplitAmount
<1>11. Greater(Zero, tot -- amount) = Zero <=> tot \preceq amount
  <2> DEFINE g == Greater(Zero, tot -- amount)
  <2>1. Positive(g) <=> amount \prec tot
    BY <1>8, SplitAmount
  <2>2. g \in Rat
    BY <1>8, ZeroType, AddType, MinMax
  <2>3. Zero \preceq g
    <3>1. tot -- amount \in Rat
      BY <1>8, AddType
    <3>2. g = Zero \/ (g = tot -- amount /\ Zero \prec (tot -- amount))
      BY <3>1 DEF Greater
    <3> QED
      BY <2>2, <3>1, <3>2, ZeroType, OrderFacts
  <2>4. amount \prec tot <=> ~(tot \preceq amount)
    BY <1>8, OrderFacts
  <2> HIDE DEF g
  <2>5. g = Zero <=> ~Positive(g)
    BY <2>2, <2>3, NotNegative
  <2> QED
    BY <2>1, <2>4, <2>5 DEF g
<1> QED
  BY <1>2, <1>7, <1>8, <1>9, <1>10, <1>11 DEF RestWell, rest, tot

(***************************************************************************)
(* The types of the fold's state                                           *)
(***************************************************************************)

Partial(K, V) == UNION {[D -> V] : D \in SUBSET K}

CashLot   == [qty : Rat, fx : Rat]
BorrowId  == Nat \X Nat
BorrowLot == [borrow_id : BorrowId, qty : Rat]

BucketSet ==
  [fifo_lots : Seq(CashLot), borrow_lots : Seq(BorrowLot), avg_fx : Rat, lot_qty : Rat,
   gain_fifo : Rat, gain_avg : Rat, borrow_seq : Nat,
   fees_native : Rat, fees_base : Rat]

PendingRecord ==
  [consumer : Nat, consumer_kind : {"buy", "convert"}, from_ccy : Currency,
   borrowed_qty : Rat, lot_backed_qty : Rat, lot_backed_basis : Rat \cup {None},
   weighted : Rat, covered_qty : Rat, finalized : BOOLEAN,
   fee_native : Rat, from_broker_fx : Rat]

PendingSet ==
  {pb \in PendingRecord : Positive(pb.borrowed_qty) /\ Zero \preceq pb.lot_backed_qty}

EquityLot == [lot_id : Nat, entry : Nat, qty : Rat, price : Rat, fx : Rat]
TrackLot  == [qty : Rat, trade_id : Nat]

FifoSet ==
  [long : BOOLEAN, qty : Rat, lots : Seq(EquityLot),
   gross_native : Rat, gross_base : Rat, fx_gain : Rat]

AvgSet ==
  [long : BOOLEAN, qty : Rat, native : Rat, base : Rat, fx : Rat,
   gross_native : Rat, gross_base : Rat, fx_gain : Rat]

InstSet ==
  [fifo : FifoSet, avg : AvgSet, cycle_count : Nat, cycle_open : Nat, cycle_pnl : Rat]

StateSet ==
  [currencies : [Currency -> BucketSet],
   pending_borrows : Partial(BorrowId, PendingSet),
   buy_fx_basis : Partial(Nat, Rat),
   foreign_sell_fx_basis : Partial(Nat, Rat),
   open_lots_fx_tracker : [Instrument -> Seq(TrackLot)],
   instruments : [Instrument -> InstSet]]

LEMMA PutType ==
  ASSUME NEW K, NEW V, NEW d \in Partial(K, V), NEW k \in K, NEW v \in V
  PROVE  /\ Put(d, k, v) \in Partial(K, V)
         /\ DOMAIN Put(d, k, v) = DOMAIN d \cup {k}
         /\ Put(d, k, v)[k] = v
         /\ \A j \in DOMAIN d : j # k => Put(d, k, v)[j] = d[j]
<1>1. DOMAIN d \in SUBSET K /\ \A j \in DOMAIN d : d[j] \in V
  BY DEF Partial
<1>2. Put(d, k, v) \in [DOMAIN d \cup {k} -> V]
  BY <1>1 DEF Put
<1>3. DOMAIN d \cup {k} \in SUBSET K
  BY <1>1
<1> QED
  BY <1>2, <1>3 DEF Partial, Put

LEMMA PartialType ==
  ASSUME NEW K, NEW V, NEW d \in Partial(K, V)
  PROVE  DOMAIN d \subseteq K /\ \A j \in DOMAIN d : d[j] \in V
BY DEF Partial

LEMMA PartialExcept ==
  ASSUME NEW K, NEW V, NEW d \in Partial(K, V), NEW k \in DOMAIN d, NEW v \in V
  PROVE  /\ [d EXCEPT ![k] = v] \in Partial(K, V)
         /\ DOMAIN [d EXCEPT ![k] = v] = DOMAIN d
         /\ [d EXCEPT ![k] = v][k] = v
         /\ \A j \in DOMAIN d : j # k => [d EXCEPT ![k] = v][j] = d[j]
<1>1. PICK D \in SUBSET K : d \in [D -> V]
  BY DEF Partial
<1>2. [d EXCEPT ![k] = v] \in [D -> V]
  BY <1>1
<1> QED
  BY <1>1, <1>2 DEF Partial

LEMMA StateFields ==
  ASSUME NEW st \in StateSet
  PROVE  /\ st.currencies \in [Currency -> BucketSet]
         /\ st.pending_borrows \in Partial(BorrowId, PendingSet)
         /\ st.buy_fx_basis \in Partial(Nat, Rat)
         /\ st.foreign_sell_fx_basis \in Partial(Nat, Rat)
         /\ st.open_lots_fx_tracker \in [Instrument -> Seq(TrackLot)]
         /\ st.instruments \in [Instrument -> InstSet]
BY DEF StateSet

LEMMA BucketFields ==
  ASSUME NEW b \in BucketSet
  PROVE  /\ b.fifo_lots \in Seq(CashLot) /\ b.borrow_lots \in Seq(BorrowLot)
         /\ b.avg_fx \in Rat /\ b.lot_qty \in Rat /\ b.gain_fifo \in Rat /\ b.gain_avg \in Rat
         /\ b.borrow_seq \in Nat /\ b.fees_native \in Rat /\ b.fees_base \in Rat
BY DEF BucketSet

LEMMA PendingFields ==
  ASSUME NEW pb \in PendingSet
  PROVE  /\ pb \in PendingRecord
         /\ pb.consumer \in Nat /\ pb.consumer_kind \in {"buy", "convert"}
         /\ pb.from_ccy \in Currency /\ pb.borrowed_qty \in Rat /\ pb.lot_backed_qty \in Rat
         /\ pb.lot_backed_basis \in Rat \cup {None} /\ pb.weighted \in Rat
         /\ pb.covered_qty \in Rat /\ pb.finalized \in BOOLEAN
         /\ pb.fee_native \in Rat /\ pb.from_broker_fx \in Rat
         /\ Positive(pb.borrowed_qty) /\ Zero \preceq pb.lot_backed_qty
BY DEF PendingSet, PendingRecord

\* The sets of lots are what the lemmas about lots ask for.
LEMMA LotSets ==
  /\ LotSet(CashLot) /\ Resizable(CashLot)
  /\ LotSet(BorrowLot) /\ Resizable(BorrowLot)
  /\ LotSet(EquityLot) /\ Resizable(EquityLot)
  /\ LotSet(TrackLot) /\ Resizable(TrackLot)
<1>1. LotSet(CashLot) /\ Resizable(CashLot)
  BY DEF LotSet, Resizable, CashLot
<1>2. LotSet(BorrowLot) /\ Resizable(BorrowLot)
  BY DEF LotSet, Resizable, BorrowLot
<1>3. LotSet(EquityLot) /\ Resizable(EquityLot)
  BY DEF LotSet, Resizable, EquityLot
<1>4. LotSet(TrackLot) /\ Resizable(TrackLot)
  BY DEF LotSet, Resizable, TrackLot
<1> QED
  BY <1>1, <1>2, <1>3, <1>4

(***************************************************************************)
(* One bucket of the state                                                 *)
(***************************************************************************)

WithBucket(st, ccy, b) == [st EXCEPT !.currencies[ccy] = b]

\* Two states that differ in their buckets and pending borrows only.
SameEquity(st, s) ==
  /\ s.foreign_sell_fx_basis = st.foreign_sell_fx_basis
  /\ s.open_lots_fx_tracker = st.open_lots_fx_tracker
  /\ s.instruments = st.instruments

LEMMA WithBucketType ==
  ASSUME NEW st \in StateSet, NEW ccy \in Currency, NEW b \in BucketSet
  PROVE  /\ WithBucket(st, ccy, b) \in StateSet
         /\ WithBucket(st, ccy, b).currencies[ccy] = b
         /\ \A c \in Currency :
              c # ccy => WithBucket(st, ccy, b).currencies[c] = st.currencies[c]
         /\ WithBucket(st, ccy, b).pending_borrows = st.pending_borrows
         /\ WithBucket(st, ccy, b).buy_fx_basis = st.buy_fx_basis
         /\ SameEquity(st, WithBucket(st, ccy, b))
<1>1. WithBucket(st, ccy, b) \in StateSet
  BY DEF StateSet, WithBucket
<1>2. /\ WithBucket(st, ccy, b).currencies[ccy] = b
      /\ \A c \in Currency :
           c # ccy => WithBucket(st, ccy, b).currencies[c] = st.currencies[c]
  BY DEF StateSet, WithBucket
<1>3. /\ WithBucket(st, ccy, b).pending_borrows = st.pending_borrows
      /\ WithBucket(st, ccy, b).buy_fx_basis = st.buy_fx_basis
      /\ SameEquity(st, WithBucket(st, ccy, b))
  BY DEF StateSet, WithBucket, SameEquity
<1> QED
  BY <1>1, <1>2, <1>3

(***************************************************************************)
(* The operations of a bucket                                              *)
(***************************************************************************)

\* Two buckets with the same cash.
SameCash(a, b) ==
  /\ b.fifo_lots = a.fifo_lots /\ b.borrow_lots = a.borrow_lots
  /\ b.avg_fx = a.avg_fx /\ b.lot_qty = a.lot_qty /\ b.borrow_seq = a.borrow_seq

SameGains(a, b) == b.gain_fifo = a.gain_fifo /\ b.gain_avg = a.gain_avg

LEMMA FeesAdded ==
  ASSUME NEW b \in BucketSet, NEW native \in Rat, NEW fx \in Rat
  PROVE  /\ fees_added(b, native, fx) \in BucketSet
         /\ SameCash(b, fees_added(b, native, fx))
         /\ SameGains(b, fees_added(b, native, fx))
         /\ fees_added(b, native, fx).fees_native = b.fees_native ++ native
<1>1. b.fees_native ++ native \in Rat /\ b.fees_base ++ (native ** fx) \in Rat
  BY BucketFields, AddType, MulType
<1>2. fees_added(b, native, fx) \in BucketSet
  BY <1>1 DEF BucketSet, fees_added
<1>3. /\ SameCash(b, fees_added(b, native, fx))
      /\ SameGains(b, fees_added(b, native, fx))
      /\ fees_added(b, native, fx).fees_native = b.fees_native ++ native
  BY DEF BucketSet, fees_added, SameCash, SameGains
<1> QED
  BY <1>2, <1>3

LEMMA GainAdded ==
  ASSUME NEW b \in BucketSet, NEW gain \in Rat
  PROVE  /\ gained(b, gain) \in BucketSet
         /\ SameCash(b, gained(b, gain))
         /\ gained(b, gain).gain_fifo = b.gain_fifo ++ gain
         /\ gained(b, gain).gain_avg = b.gain_avg ++ gain
         /\ gained(b, gain).fees_native = b.fees_native
<1>1. b.gain_fifo ++ gain \in Rat /\ b.gain_avg ++ gain \in Rat
  BY BucketFields, AddType
<1>2. gained(b, gain) \in BucketSet
  BY <1>1 DEF BucketSet, gained
<1>3. /\ SameCash(b, gained(b, gain))
      /\ gained(b, gain).gain_fifo = b.gain_fifo ++ gain
      /\ gained(b, gain).gain_avg = b.gain_avg ++ gain
      /\ gained(b, gain).fees_native = b.fees_native
  BY DEF BucketSet, gained, SameCash
<1> QED
  BY <1>2, <1>3

LEMMA DivMul ==
  ASSUME NEW a \in Rat, NEW b \in Rat, Positive(b)
  PROVE  (a // b) ** b = a /\ a // b \in Rat
<1>1. PICK d \in Pos, x \in Int, y \in Int : a = Reduced(x, d) /\ b = Reduced(y, d)
  BY Common2
<1>2. y \in Pos
  BY <1>1, RatioPositive DEF Pos
<1>3. a // b = Reduced(x, y)
  BY <1>1, <1>2, RatioDiv
<1>4. Reduced(x, y) ** Reduced(y, d) = Reduced(x * y, y * d)
  BY <1>2, RatioMul
<1>5. Reduced(x * y, d * y) = Reduced(x, d) /\ y * d = d * y
  BY <1>1, <1>2, RatioScale DEF Pos
<1> QED
  BY <1>1, <1>3, <1>4, <1>5, DivType

LEMMA SubSub ==
  ASSUME NEW a \in Rat, NEW b \in Rat, NEW c \in Rat
  PROVE  /\ (a -- b) ++ c = a -- (b -- c)
         /\ (a -- b) ++ c = (a ++ c) -- b
         /\ (a -- b) -- c = a -- (b ++ c)
         /\ (a ++ b) -- c = a ++ (b -- c)
         /\ (a -- b) -- c = (a -- c) -- b
<1>1. PICK d \in Pos, x \in Int, y \in Int, z \in Int :
        a = Reduced(x, d) /\ b = Reduced(y, d) /\ c = Reduced(z, d)
  BY Common3
<1>2. /\ x - y \in Int /\ y - z \in Int /\ x + z \in Int /\ y + z \in Int /\ x + y \in Int
      /\ x - z \in Int
      /\ (x - y) + z = x - (y - z) /\ (x - y) + z = (x + z) - y
      /\ (x - y) - z = x - (y + z) /\ (x + y) - z = x + (y - z)
      /\ (x - y) - z = (x - z) - y
  OBVIOUS
<1>3. /\ a -- b = Reduced(x - y, d) /\ b -- c = Reduced(y - z, d) /\ a ++ c = Reduced(x + z, d)
      /\ b ++ c = Reduced(y + z, d) /\ a ++ b = Reduced(x + y, d) /\ a -- c = Reduced(x - z, d)
  BY <1>1, RatioAdd
<1>4. /\ (a -- b) ++ c = Reduced((x - y) + z, d) /\ a -- (b -- c) = Reduced(x - (y - z), d)
      /\ (a ++ c) -- b = Reduced((x + z) - y, d) /\ (a -- b) -- c = Reduced((x - y) - z, d)
      /\ a -- (b ++ c) = Reduced(x - (y + z), d) /\ (a ++ b) -- c = Reduced((x + y) - z, d)
      /\ a ++ (b -- c) = Reduced(x + (y - z), d) /\ (a -- c) -- b = Reduced((x - z) - y, d)
  BY <1>1, <1>2, <1>3, RatioAdd
<1> QED
  BY <1>2, <1>4

LEMMA TotalEmpty == TotalQty(<<>>) = Zero
<1>1. Qtys(<<>>) = <<>>
  BY DEF Qtys
<1> QED
  BY <1>1, TotalQtyIs, SumEmpty

LEMMA TotalAppend ==
  ASSUME NEW L, LotSet(L), NEW lots \in Seq(L), NEW l \in L
  PROVE  TotalQty(Append(lots, l)) = TotalQty(lots) ++ l.qty
<1>1. Qtys(lots) \in Seq(Rat) /\ Len(Qtys(lots)) = Len(lots)
      /\ \A i \in 1..Len(lots) : Qtys(lots)[i] = lots[i].qty
  BY QtysType
<1> DEFINE t == Append(lots, l)
<1>2. /\ t \in Seq(L) /\ Len(t) = Len(lots) + 1 /\ Len(lots) \in Nat
      /\ t[Len(lots) + 1] = l /\ \A i \in 1..Len(lots) : t[i] = lots[i]
  OBVIOUS
<1> HIDE DEF t
<1>3. Qtys(t) \in Seq(Rat) /\ Len(Qtys(t)) = Len(t)
      /\ \A i \in 1..Len(t) : Qtys(t)[i] = t[i].qty
  BY <1>2, QtysType
<1>4. l.qty \in Rat
  BY DEF LotSet
<1> DEFINE u == Append(Qtys(lots), l.qty)
<1>5. /\ u \in Seq(Rat) /\ Len(u) = Len(lots) + 1 /\ u[Len(lots) + 1] = l.qty
      /\ \A i \in 1..Len(lots) : u[i] = Qtys(lots)[i]
  BY <1>1, <1>4
<1>6. SumOf(u) = SumOf(Qtys(lots)) ++ l.qty
  BY <1>1, <1>4, SumAppend
<1> HIDE DEF u
<1>7. \A i \in 1..Len(Qtys(t)) : Qtys(t)[i] = u[i]
  <2> TAKE i \in 1..Len(Qtys(t))
  <2>1. CASE i = Len(lots) + 1
    BY <2>1, <1>2, <1>3, <1>5
  <2>2. CASE i # Len(lots) + 1
    <3>1. i \in 1..Len(lots) /\ i \in 1..Len(t)
      BY <2>2, <1>2, <1>3
    <3> QED
      BY <3>1, <1>1, <1>2, <1>3, <1>5
  <2> QED
    BY <2>1, <2>2
<1>8. SumOf(Qtys(t)) = SumOf(u)
  BY <1>2, <1>3, <1>5, <1>7, SumSame
<1> QED
  BY <1>6, <1>8, TotalQtyIs DEF t

\* A bucket whose lots add up.
BucketOK(b) ==
  /\ b \in BucketSet
  /\ AllPositive(b.fifo_lots) /\ AllPositive(b.borrow_lots)
  /\ b.fifo_lots = <<>> \/ b.borrow_lots = <<>>
  /\ b.lot_qty = TotalQty(b.fifo_lots) -- TotalQty(b.borrow_lots)

LEMMA SameCashOK ==
  ASSUME NEW a, BucketOK(a), NEW b \in BucketSet, SameCash(a, b)
  PROVE  BucketOK(b)
BY DEF BucketOK, SameCash

\* The quantities of a sound bucket.
LEMMA BucketTotals ==
  ASSUME NEW b, BucketOK(b)
  PROVE  /\ TotalQty(b.fifo_lots) \in Rat /\ Zero \preceq TotalQty(b.fifo_lots)
         /\ TotalQty(b.borrow_lots) \in Rat /\ Zero \preceq TotalQty(b.borrow_lots)
         /\ b.fifo_lots = <<>> <=> TotalQty(b.fifo_lots) = Zero
         /\ b.borrow_lots = <<>> <=> TotalQty(b.borrow_lots) = Zero
         /\ Greater(Zero, b.lot_qty) = TotalQty(b.fifo_lots)
<1>1. b \in BucketSet /\ b.fifo_lots \in Seq(CashLot) /\ b.borrow_lots \in Seq(BorrowLot)
  BY BucketFields DEF BucketOK
<1> DEFINE f == TotalQty(b.fifo_lots)
           g == TotalQty(b.borrow_lots)
<1>2. f \in Rat /\ Zero \preceq f /\ (b.fifo_lots = <<>> <=> f = Zero)
  BY <1>1, LotSets, QtysType, PositiveTotal DEF BucketOK
<1>3. g \in Rat /\ Zero \preceq g /\ (b.borrow_lots = <<>> <=> g = Zero)
  BY <1>1, LotSets, QtysType, PositiveTotal DEF BucketOK
<1>4. b.lot_qty = f -- g /\ (f = Zero \/ g = Zero)
  BY <1>2, <1>3 DEF BucketOK
<1> HIDE DEF f, g
<1>5. Greater(Zero, f -- g) = f
  <2>1. CASE g = Zero
    BY <2>1, <1>2, <1>3, AddZero, OrderFacts, ZeroType
  <2>2. CASE f = Zero
    <3>1. f -- g \in Rat
      BY <1>2, <1>3, AddType
    <3>2. Zero -- (f -- g) = g
      <4>1. (Zero -- Zero) ++ g = Zero -- (Zero -- g)
        BY <1>3, ZeroType, SubSub
      <4> QED
        BY <2>2, <4>1, <1>3, ZeroType, AddZero
    <3>3. (f -- g) \preceq Zero
      BY <3>1, <3>2, <1>3, ZeroType, OrderFacts
    <3> QED
      BY <2>2, <3>1, <3>3, ZeroType, OrderFacts
  <2> QED
    BY <1>4, <2>1, <2>2
<1> QED
  BY <1>2, <1>3, <1>4, <1>5 DEF f, g

\* What the borrows leave of a deposit.
LEMMA UncoveredIs ==
  ASSUME NEW borrows \in Seq(BorrowLot), AllPositive(borrows), NEW qty \in Rat, Positive(qty)
  PROVE  /\ uncovered(borrows, qty) \in Rat
         /\ qty -- uncovered(borrows, qty) = Lesser(qty, TotalQty(borrows))
         /\ Positive(uncovered(borrows, qty)) => TotalQty(borrows) \preceq qty
         /\ ~Positive(uncovered(borrows, qty)) =>
              uncovered(borrows, qty) = Zero /\ borrows # <<>>
         /\ Zero \preceq qty
<1> DEFINE g == TotalQty(borrows)
           m == Lesser(qty, g)
           u == uncovered(borrows, qty)
<1>1. g \in Rat /\ Zero \preceq g /\ (borrows = <<>> <=> g = Zero)
  BY LotSets, QtysType, PositiveTotal
<1>2. u = qty -- m
  BY DEF uncovered
<1> HIDE DEF g, u
<1>3. m \in Rat /\ u \in Rat
  BY <1>1, <1>2, MinMax, AddType
<1>4. u = Greater(Zero, qty -- g)
  BY <1>1, <1>2, SplitAmount
<1>5. qty -- u = m
  <2> HIDE DEF m
  <2> QED
    BY <1>2, <1>3, AddSub
<1>6. Positive(u) <=> g \prec qty
  BY <1>1, <1>4, SplitAmount
<1>7. u = Zero \/ Positive(u)
  <2>1. qty -- g \in Rat
    BY <1>1, AddType
  <2> QED
    BY <1>4, <2>1 DEF Greater, Positive
<1>8. g \prec qty => g \preceq qty
  BY <1>1, OrderFacts
<1>9. ASSUME borrows = <<>> PROVE Positive(u)
  BY <1>1, <1>6, <1>9 DEF Positive
<1>10. Zero \preceq qty
  BY NotNegative
<1> QED
  BY <1>3, <1>5, <1>6, <1>7, <1>8, <1>9, <1>10 DEF g, u

LEMMA Repaid ==
  ASSUME NEW b, BucketOK(b), NEW qty \in Rat, Positive(qty)
  PROVE  /\ BucketOK(repaid(b, qty))
         /\ repaid(b, qty).fifo_lots = b.fifo_lots
         /\ repaid(b, qty).borrow_lots = Rest(b.borrow_lots, qty)
         /\ repaid(b, qty).lot_qty
              = b.lot_qty ++ (qty -- uncovered(b.borrow_lots, qty))
         /\ repaid(b, qty).avg_fx = b.avg_fx
         /\ repaid(b, qty).borrow_seq = b.borrow_seq
         /\ repaid(b, qty).fees_native = b.fees_native
         /\ SameGains(b, repaid(b, qty))
         /\ Positive(uncovered(b.borrow_lots, qty)) => repaid(b, qty).borrow_lots = <<>>
<1> DEFINE r == repaid(b, qty)
           u == uncovered(b.borrow_lots, qty)
           rest == Rest(b.borrow_lots, qty)
           f == TotalQty(b.fifo_lots)
           g == TotalQty(b.borrow_lots)
           m == Lesser(qty, g)
<1>1. /\ b \in BucketSet /\ b.borrow_lots \in Seq(BorrowLot) /\ b.lot_qty \in Rat
      /\ AllPositive(b.borrow_lots) /\ AllPositive(b.fifo_lots)
      /\ b.fifo_lots = <<>> \/ b.borrow_lots = <<>>
      /\ b.lot_qty = f -- g
  BY BucketFields DEF BucketOK
<1>2. /\ u \in Rat /\ qty -- u = m /\ (Positive(u) => g \preceq qty) /\ Zero \preceq qty
  BY <1>1, UncoveredIs
<1>3. f \in Rat /\ g \in Rat /\ (b.borrow_lots = <<>> <=> g = Zero)
  BY BucketTotals
<1>4. rest \in Seq(BorrowLot) /\ AllPositive(rest)
  BY <1>1, <1>2, LotSets, RestType
<1>5. TotalQty(rest) = g -- m /\ (rest = <<>> <=> g \preceq qty)
  BY <1>1, <1>2, LotSets, RestFacts DEF RestWell
<1>6. /\ r.fifo_lots = b.fifo_lots /\ r.borrow_lots = rest
      /\ r.lot_qty = b.lot_qty ++ (qty -- u)
      /\ r.avg_fx = b.avg_fx /\ r.borrow_seq = b.borrow_seq /\ r.fees_native = b.fees_native
      /\ SameGains(b, r)
  BY <1>1 DEF BucketSet, repaid, SameGains
<1>7. m \in Rat /\ b.lot_qty ++ (qty -- u) \in Rat
  BY <1>1, <1>2, <1>3, MinMax, AddType
<1>8. r \in BucketSet
  <2> HIDE DEF u, rest
  <2>1. r = [b EXCEPT !.borrow_lots = rest, !.lot_qty = b.lot_qty ++ (qty -- u)]
    BY DEF repaid, rest, u
  <2> HIDE DEF r
  <2> QED
    BY <1>1, <1>4, <1>7, <2>1 DEF BucketSet
<1> HIDE DEF r, u, rest, f, g, m
<1>9. r.lot_qty = f -- (g -- m)
  <2>1. (f -- g) ++ m = f -- (g -- m)
    BY <1>3, <1>7, SubSub
  <2> QED
    BY <1>1, <1>2, <1>6, <2>1
<1>10. r.fifo_lots = <<>> \/ r.borrow_lots = <<>>
  BY <1>1, <1>2, <1>3, <1>5, <1>6, NotNegative DEF Positive
<1>11. BucketOK(r)
  BY <1>1, <1>4, <1>5, <1>6, <1>8, <1>9, <1>10 DEF BucketOK, f
<1> QED
  BY <1>2, <1>5, <1>6, <1>11 DEF r, u, rest

LEMMA AddLot ==
  ASSUME NEW b, BucketOK(b), b.borrow_lots = <<>>, NEW rest \in Rat, Positive(rest),
         NEW fx \in Rat, NEW before, before = Greater(Zero, b.lot_qty)
  PROVE  /\ BucketOK(add_lot(b, before, rest, fx))
         /\ add_lot(b, before, rest, fx).fifo_lots
              = Append(b.fifo_lots, [qty |-> rest, fx |-> fx])
         /\ add_lot(b, before, rest, fx).borrow_lots = <<>>
         /\ add_lot(b, before, rest, fx).lot_qty = b.lot_qty ++ rest
         /\ add_lot(b, before, rest, fx).avg_fx ** (before ++ rest)
              = (before ** b.avg_fx) ++ (rest ** fx)
         /\ add_lot(b, before, rest, fx).borrow_seq = b.borrow_seq
         /\ add_lot(b, before, rest, fx).fees_native = b.fees_native
         /\ SameGains(b, add_lot(b, before, rest, fx))
<1> DEFINE lot == [qty |-> rest, fx |-> fx]
           lots == Append(b.fifo_lots, lot)
           mean == ((before ** b.avg_fx) ++ (rest ** fx)) // (before ++ rest)
           qty == b.lot_qty ++ rest
           a == add_lot(b, before, rest, fx)
           f == TotalQty(b.fifo_lots)
<1>1. /\ b \in BucketSet /\ b.fifo_lots \in Seq(CashLot) /\ b.lot_qty \in Rat /\ b.avg_fx \in Rat
      /\ AllPositive(b.fifo_lots) /\ b.lot_qty = f -- TotalQty(<<>>)
  BY BucketFields DEF BucketOK
<1>2. f \in Rat /\ Zero \preceq f /\ before = f
  BY BucketTotals
<1>3. lot \in CashLot /\ lot.qty = rest
  BY DEF CashLot
<1>4. lots \in Seq(CashLot)
  BY <1>1, <1>3
<1>5. AllPositive(lots)
  BY <1>1, <1>3 DEF AllPositive
<1>6. TotalQty(lots) = f ++ rest
  <2> HIDE DEF lot
  <2> QED
    BY <1>1, <1>3, LotSets, TotalAppend
<1> HIDE DEF lot
<1>7. before ++ rest \in Rat /\ Positive(before ++ rest)
  <2>1. Zero \preceq rest
    BY NotNegative
  <2> QED
    BY <1>2, <2>1, NonNegativeSum, AddType
<1>8. (before ** b.avg_fx) ++ (rest ** fx) \in Rat
  BY <1>1, <1>2, MulType, AddType
<1>9. mean \in Rat /\ mean ** (before ++ rest) = (before ** b.avg_fx) ++ (rest ** fx)
  BY <1>7, <1>8, DivMul
<1>10. qty \in Rat /\ qty = TotalQty(lots) -- TotalQty(<<>>)
  <2>1. f -- Zero = f /\ f ++ rest \in Rat
    BY <1>2, AddZero, AddType
  <2> QED
    BY <1>1, <1>6, <2>1, TotalEmpty, AddZero
<1>11. a = [b EXCEPT !.fifo_lots = lots, !.avg_fx = mean, !.lot_qty = qty]
  BY DEF add_lot, lot
<1> HIDE DEF lots, mean, qty, a
<1>12. a \in BucketSet
  BY <1>1, <1>4, <1>9, <1>10, <1>11 DEF BucketSet
<1>13. /\ a.fifo_lots = lots /\ a.borrow_lots = <<>> /\ a.lot_qty = qty /\ a.avg_fx = mean
       /\ a.borrow_seq = b.borrow_seq /\ a.fees_native = b.fees_native /\ SameGains(b, a)
  BY <1>1, <1>11 DEF BucketSet, SameGains
<1>14. BucketOK(a)
  BY <1>5, <1>10, <1>12, <1>13 DEF BucketOK, AllPositive
<1> QED
  BY <1>9, <1>13, <1>14 DEF a, lots, lot, mean, qty

TakenGain(broker_fx, drained, basis) ==
  IF broker_fx = None THEN Zero ELSE (drained ** broker_fx) -- basis

TakenGainAvg(broker_fx, drained, avg) ==
  IF broker_fx = None THEN Zero ELSE drained ** (broker_fx -- avg)

\* The bucket t is b without what a drain takes from its lots.
TakenLots(b, amount, broker_fx, drained, basis, t) ==
  /\ BucketOK(t)
  /\ t.fifo_lots = Rest(b.fifo_lots, amount) /\ t.borrow_lots = b.borrow_lots
  /\ t.lot_qty = b.lot_qty -- drained
  /\ t.avg_fx = IF b.lot_qty = drained /\ b.borrow_lots = <<>> THEN Zero ELSE b.avg_fx
  /\ t.borrow_seq = b.borrow_seq /\ t.fees_native = b.fees_native
  /\ t.gain_fifo = b.gain_fifo ++ TakenGain(broker_fx, drained, basis)
  /\ t.gain_avg = b.gain_avg ++ TakenGainAvg(broker_fx, drained, b.avg_fx)

LEMMA TakeLots ==
  ASSUME NEW b, BucketOK(b), NEW amount \in Rat, Positive(amount),
         NEW broker_fx \in Rat \cup {None}, NEW basis \in Rat,
         NEW drained, drained = Lesser(amount, TotalQty(b.fifo_lots))
  PROVE  TakenLots(b, amount, broker_fx, drained, basis,
                   take_lots(b, amount, broker_fx, drained, basis))
<1> DEFINE rest == Rest(b.fifo_lots, amount)
           qty == b.lot_qty -- drained
           avg == IF b.lot_qty = drained /\ b.borrow_lots = <<>> THEN Zero ELSE b.avg_fx
           gf == IF broker_fx = None THEN b.gain_fifo
                 ELSE b.gain_fifo ++ ((drained ** broker_fx) -- basis)
           ga == IF broker_fx = None THEN b.gain_avg
                 ELSE b.gain_avg ++ (lot_backed(b, amount) ** (broker_fx -- b.avg_fx))
           t == take_lots(b, amount, broker_fx, drained, basis)
           f == TotalQty(b.fifo_lots)
           g == TotalQty(b.borrow_lots)
<1>1. /\ b \in BucketSet /\ b.fifo_lots \in Seq(CashLot) /\ b.lot_qty \in Rat /\ b.avg_fx \in Rat
      /\ b.gain_fifo \in Rat /\ b.gain_avg \in Rat
      /\ AllPositive(b.fifo_lots) /\ AllPositive(b.borrow_lots)
      /\ b.fifo_lots = <<>> \/ b.borrow_lots = <<>>
      /\ b.lot_qty = f -- g
  BY BucketFields DEF BucketOK
<1>2. /\ f \in Rat /\ g \in Rat /\ Zero \preceq f /\ Greater(Zero, b.lot_qty) = f
      /\ (b.fifo_lots = <<>> <=> f = Zero)
  BY BucketTotals
<1>3. Zero \preceq amount /\ drained \in Rat
  BY <1>2, NotNegative, MinMax
<1>4. rest \in Seq(CashLot) /\ AllPositive(rest)
  BY <1>1, <1>3, LotSets, RestType
<1>5. TotalQty(rest) = f -- drained /\ (rest = <<>> <=> f \preceq amount)
  BY <1>1, <1>3, LotSets, RestFacts DEF RestWell
<1>6. lot_backed(b, amount) = drained
  BY <1>2 DEF lot_backed
<1>7. broker_fx # None => broker_fx \in Rat
  OBVIOUS
<1>8. gf \in Rat /\ gf = b.gain_fifo ++ TakenGain(broker_fx, drained, basis)
  <2>1. CASE broker_fx = None
    BY <2>1, <1>1, AddZero DEF TakenGain
  <2>2. CASE broker_fx # None
    <3>1. (drained ** broker_fx) \in Rat
      BY <2>2, <1>3, <1>7, MulType
    <3>2. (drained ** broker_fx) -- basis \in Rat
      BY <3>1, AddType
    <3> QED
      BY <2>2, <3>2, <1>1, AddType DEF TakenGain
  <2> QED
    BY <2>1, <2>2
<1>9. ga \in Rat /\ ga = b.gain_avg ++ TakenGainAvg(broker_fx, drained, b.avg_fx)
  <2>1. CASE broker_fx = None
    BY <2>1, <1>1, AddZero DEF TakenGainAvg
  <2>2. CASE broker_fx # None
    <3>1. broker_fx -- b.avg_fx \in Rat
      BY <2>2, <1>1, <1>7, AddType
    <3>2. drained ** (broker_fx -- b.avg_fx) \in Rat
      BY <3>1, <1>3, MulType
    <3> QED
      BY <2>2, <3>2, <1>1, <1>6, AddType DEF TakenGainAvg
  <2> QED
    BY <2>1, <2>2
<1>10. qty \in Rat /\ avg \in Rat
  BY <1>1, <1>3, AddType, ZeroType
<1>11. t = [b EXCEPT !.fifo_lots = rest, !.lot_qty = qty, !.avg_fx = avg,
                     !.gain_fifo = gf, !.gain_avg = ga]
  BY DEF take_lots
<1> HIDE DEF rest, qty, avg, gf, ga, t
<1>12. t \in BucketSet
  BY <1>1, <1>4, <1>8, <1>9, <1>10, <1>11 DEF BucketSet
<1>13. /\ t.fifo_lots = rest /\ t.borrow_lots = b.borrow_lots /\ t.lot_qty = qty
       /\ t.avg_fx = avg /\ t.borrow_seq = b.borrow_seq /\ t.fees_native = b.fees_native
       /\ t.gain_fifo = gf /\ t.gain_avg = ga
  BY <1>1, <1>11 DEF BucketSet
<1>14. t.lot_qty = TotalQty(t.fifo_lots) -- TotalQty(t.borrow_lots)
  <2>1. (f -- g) -- drained = (f -- drained) -- g
    <3> HIDE DEF f, g
    <3> QED
      BY <1>2, <1>3, SubSub
  <2> QED
    BY <2>1, <1>1, <1>5, <1>13 DEF qty
<1>15. t.fifo_lots = <<>> \/ t.borrow_lots = <<>>
  <2>1. b.fifo_lots = <<>> => f \preceq amount
    BY <1>2, <1>3
  <2> QED
    BY <2>1, <1>1, <1>5, <1>13
<1>16. BucketOK(t)
  BY <1>1, <1>4, <1>12, <1>13, <1>14, <1>15 DEF BucketOK
<1> QED
  BY <1>8, <1>9, <1>13, <1>16 DEF TakenLots, t, rest, qty, avg

LEMMA BorrowRest ==
  ASSUME NEW b, BucketOK(b), NEW borrowed \in Rat, Zero \preceq borrowed,
         Positive(borrowed) => b.fifo_lots = <<>>, NEW id \in BorrowId
  PROVE  /\ BucketOK(borrow_rest(b, borrowed, id))
         /\ borrow_rest(b, borrowed, id).fifo_lots = b.fifo_lots
         /\ borrow_rest(b, borrowed, id).borrow_lots
              = IF Positive(borrowed)
                THEN Append(b.borrow_lots, [borrow_id |-> id, qty |-> borrowed])
                ELSE b.borrow_lots
         /\ borrow_rest(b, borrowed, id).lot_qty = b.lot_qty -- borrowed
         /\ borrow_rest(b, borrowed, id).avg_fx
              = IF Positive(borrowed) THEN Zero ELSE b.avg_fx
         /\ borrow_rest(b, borrowed, id).borrow_seq
              = IF Positive(borrowed) THEN b.borrow_seq + 1 ELSE b.borrow_seq
         /\ borrow_rest(b, borrowed, id).fees_native = b.fees_native
         /\ SameGains(b, borrow_rest(b, borrowed, id))
<1> DEFINE r == borrow_rest(b, borrowed, id)
           lot == [borrow_id |-> id, qty |-> borrowed]
           f == TotalQty(b.fifo_lots)
           g == TotalQty(b.borrow_lots)
<1>1. /\ b \in BucketSet /\ b.borrow_lots \in Seq(BorrowLot) /\ b.lot_qty \in Rat
      /\ b.borrow_seq \in Nat
      /\ AllPositive(b.fifo_lots) /\ AllPositive(b.borrow_lots)
      /\ b.lot_qty = f -- g
  BY BucketFields DEF BucketOK
<1>2. f \in Rat /\ g \in Rat
  BY BucketTotals
<1>3. CASE ~Positive(borrowed)
  <2>1. borrowed = Zero
    BY <1>3, NotNegative
  <2>2. r = b
    BY <1>3 DEF borrow_rest
  <2>3. b.lot_qty -- borrowed = b.lot_qty
    BY <1>1, <2>1, AddZero
  <2> QED
    BY <1>3, <2>2, <2>3 DEF SameGains
<1>4. CASE Positive(borrowed)
  <2> DEFINE lots == Append(b.borrow_lots, lot)
             qty == b.lot_qty -- borrowed
             seq == b.borrow_seq + 1
  <2>1. lot \in BorrowLot /\ lot.qty = borrowed
    BY DEF BorrowLot
  <2>2. lots \in Seq(BorrowLot)
    BY <1>1, <2>1
  <2>3. AllPositive(lots)
    BY <1>1, <1>4, <2>1 DEF AllPositive
  <2>4. TotalQty(lots) = g ++ borrowed
    <3> HIDE DEF lot
    <3> QED
      BY <1>1, <2>1, LotSets, TotalAppend
  <2> HIDE DEF lot
  <2>5. qty \in Rat /\ seq \in Nat
    BY <1>1, AddType
  <2>6. r = [b EXCEPT !.borrow_seq = seq, !.borrow_lots = lots, !.lot_qty = qty,
                      !.avg_fx = Zero]
    BY <1>4 DEF borrow_rest, lot
  <2> HIDE DEF lots, qty, seq, r
  <2>7. r \in BucketSet
    BY <1>1, <2>2, <2>5, <2>6, ZeroType DEF BucketSet
  <2>8. /\ r.fifo_lots = b.fifo_lots /\ r.borrow_lots = lots /\ r.lot_qty = qty
        /\ r.avg_fx = Zero /\ r.borrow_seq = seq /\ r.fees_native = b.fees_native
        /\ SameGains(b, r)
    BY <1>1, <2>6 DEF BucketSet, SameGains
  <2>9. r.lot_qty = TotalQty(r.fifo_lots) -- TotalQty(r.borrow_lots)
    <3>1. (f -- g) -- borrowed = f -- (g ++ borrowed)
      <4> HIDE DEF f, g
      <4> QED
        BY <1>2, SubSub
    <3> QED
      BY <1>1, <2>4, <2>8, <3>1 DEF qty
  <2>10. BucketOK(r)
    BY <1>1, <1>4, <2>3, <2>7, <2>8, <2>9 DEF BucketOK
  <2> QED
    BY <1>4, <2>8, <2>10 DEF r, lots, lot, qty, seq
<1> QED
  BY <1>3, <1>4

(***************************************************************************)
(* Covering a pending borrow                                               *)
(***************************************************************************)

WithPending(st, id, pb) == [st EXCEPT !.pending_borrows[id] = pb]
WithBasis(st, n, fx) == [st EXCEPT !.buy_fx_basis = Put(@, n, fx)]

LEMMA WithPendingType ==
  ASSUME NEW st \in StateSet, NEW id \in DOMAIN st.pending_borrows, NEW pb \in PendingSet
  PROVE  /\ WithPending(st, id, pb) \in StateSet
         /\ DOMAIN WithPending(st, id, pb).pending_borrows = DOMAIN st.pending_borrows
         /\ WithPending(st, id, pb).pending_borrows[id] = pb
         /\ \A j \in DOMAIN st.pending_borrows : j # id =>
              WithPending(st, id, pb).pending_borrows[j] = st.pending_borrows[j]
         /\ WithPending(st, id, pb).currencies = st.currencies
         /\ WithPending(st, id, pb).buy_fx_basis = st.buy_fx_basis
         /\ SameEquity(st, WithPending(st, id, pb))
<1> DEFINE p == [st.pending_borrows EXCEPT ![id] = pb]
<1>0. st.pending_borrows \in Partial(BorrowId, PendingSet)
  BY StateFields
<1>1. /\ p \in Partial(BorrowId, PendingSet)
      /\ DOMAIN p = DOMAIN st.pending_borrows /\ p[id] = pb
      /\ \A j \in DOMAIN st.pending_borrows : j # id => p[j] = st.pending_borrows[j]
  BY <1>0, PartialExcept
<1>2. WithPending(st, id, pb) = [st EXCEPT !.pending_borrows = p]
  BY DEF WithPending
<1> HIDE DEF p
<1>3. [st EXCEPT !.pending_borrows = p] \in StateSet
  BY <1>1 DEF StateSet
<1>4. /\ [st EXCEPT !.pending_borrows = p].pending_borrows = p
      /\ [st EXCEPT !.pending_borrows = p].currencies = st.currencies
      /\ [st EXCEPT !.pending_borrows = p].buy_fx_basis = st.buy_fx_basis
      /\ SameEquity(st, [st EXCEPT !.pending_borrows = p])
  BY DEF StateSet, SameEquity
<1> QED
  BY <1>1, <1>2, <1>3, <1>4

LEMMA WithBasisType ==
  ASSUME NEW st \in StateSet, NEW n \in Nat, NEW fx \in Rat
  PROVE  /\ WithBasis(st, n, fx) \in StateSet
         /\ WithBasis(st, n, fx).currencies = st.currencies
         /\ WithBasis(st, n, fx).pending_borrows = st.pending_borrows
         /\ WithBasis(st, n, fx).buy_fx_basis = Put(st.buy_fx_basis, n, fx)
         /\ SameEquity(st, WithBasis(st, n, fx))
<1> DEFINE p == Put(st.buy_fx_basis, n, fx)
<1>0. st.buy_fx_basis \in Partial(Nat, Rat)
  BY StateFields
<1>1. p \in Partial(Nat, Rat)
  BY <1>0, PutType
<1>2. WithBasis(st, n, fx) = [st EXCEPT !.buy_fx_basis = p]
  BY DEF WithBasis
<1> HIDE DEF p
<1>3. [st EXCEPT !.buy_fx_basis = p] \in StateSet
  BY <1>1 DEF StateSet
<1>4. /\ [st EXCEPT !.buy_fx_basis = p].buy_fx_basis = p
      /\ [st EXCEPT !.buy_fx_basis = p].currencies = st.currencies
      /\ [st EXCEPT !.buy_fx_basis = p].pending_borrows = st.pending_borrows
      /\ SameEquity(st, [st EXCEPT !.buy_fx_basis = p])
  BY DEF StateSet, SameEquity
<1> QED
  BY <1>2, <1>3, <1>4 DEF p

LEMMA CoveredBy ==
  ASSUME NEW pb \in PendingSet, NEW qty \in Rat, NEW fx \in Rat
  PROVE  /\ covered_by(pb, qty, fx) \in PendingSet
         /\ settled(covered_by(pb, qty, fx)) \in PendingSet
         /\ covered_by(pb, qty, fx) = [pb EXCEPT !.weighted = pb.weighted ++ (qty ** fx),
                                                 !.covered_qty = pb.covered_qty ++ qty]
         /\ covered_by(pb, qty, fx).weighted = pb.weighted ++ (qty ** fx)
         /\ covered_by(pb, qty, fx).covered_qty = pb.covered_qty ++ qty
<1> DEFINE w == pb.weighted ++ (qty ** fx)
           v == pb.covered_qty ++ qty
           p == covered_by(pb, qty, fx)
<1>1. pb \in PendingRecord /\ Positive(pb.borrowed_qty) /\ Zero \preceq pb.lot_backed_qty
  BY PendingFields
<1>2. w \in Rat /\ v \in Rat
  BY PendingFields, AddType, MulType
<1>3. p = [pb EXCEPT !.weighted = w, !.covered_qty = v]
  BY DEF covered_by
<1> HIDE DEF w, v, p
<1>4. p \in PendingRecord
  BY <1>1, <1>2, <1>3, Zenon DEF PendingRecord
<1>5. /\ p.borrowed_qty = pb.borrowed_qty /\ p.lot_backed_qty = pb.lot_backed_qty
      /\ p.weighted = w /\ p.covered_qty = v
  BY <1>1, <1>3 DEF PendingRecord
<1>6. settled(p) \in PendingRecord
  BY <1>4, Zenon DEF PendingRecord, settled
<1>7. settled(p).borrowed_qty = p.borrowed_qty /\ settled(p).lot_backed_qty = p.lot_backed_qty
  BY <1>4 DEF PendingRecord, settled
<1> QED
  BY <1>1, <1>3, <1>4, <1>5, <1>6, <1>7 DEF PendingSet, w, v, p

\* Two entries of the registry for the same loan.
SameLoan(a, b) ==
  /\ b.consumer = a.consumer /\ b.consumer_kind = a.consumer_kind /\ b.from_ccy = a.from_ccy
  /\ b.borrowed_qty = a.borrowed_qty /\ b.lot_backed_qty = a.lot_backed_qty
  /\ b.lot_backed_basis = a.lot_backed_basis
  /\ b.fee_native = a.fee_native /\ b.from_broker_fx = a.from_broker_fx

LEMMA SameLoans ==
  ASSUME NEW pb \in PendingSet, NEW qty \in Rat, NEW fx \in Rat
  PROVE  /\ SameLoan(pb, covered_by(pb, qty, fx))
         /\ covered_by(pb, qty, fx).finalized = pb.finalized
         /\ SameLoan(pb, settled(covered_by(pb, qty, fx)))
         /\ settled(covered_by(pb, qty, fx)).finalized = TRUE
         /\ settled(covered_by(pb, qty, fx)).covered_qty = covered_by(pb, qty, fx).covered_qty
         /\ settled(covered_by(pb, qty, fx)).weighted = covered_by(pb, qty, fx).weighted
<1> DEFINE w == pb.weighted ++ (qty ** fx)
           v == pb.covered_qty ++ qty
           p == covered_by(pb, qty, fx)
<1>1. pb \in PendingRecord
  BY PendingFields
<1>2. p = [pb EXCEPT !.weighted = w, !.covered_qty = v] /\ p \in PendingRecord
  BY CoveredBy, PendingFields
<1> HIDE DEF w, v, p
<1>3. SameLoan(pb, p)
  BY <1>1, <1>2 DEF PendingRecord, SameLoan
<1>4. p.finalized = pb.finalized
  BY <1>1, <1>2 DEF PendingRecord
<1>5. SameLoan(p, settled(p))
  BY <1>2 DEF PendingRecord, SameLoan, settled
<1>6. settled(p).finalized = TRUE
  BY <1>2 DEF PendingRecord, settled
<1>7. settled(p).covered_qty = p.covered_qty /\ settled(p).weighted = p.weighted
  BY <1>2 DEF PendingRecord, settled
<1>8. SameLoan(pb, settled(p))
  BY <1>3, <1>5 DEF SameLoan
<1> QED
  BY <1>3, <1>4, <1>6, <1>7, <1>8 DEF p

Backed(pb) ==
  IF pb.lot_backed_basis = None THEN Zero ELSE pb.lot_backed_qty ** pb.lot_backed_basis

\* The basis of a purchase that is paid for is the average of what it cost.
LEMMA MarginBasis ==
  ASSUME NEW pb \in PendingSet, fully_covered(pb)
  PROVE  /\ margin_basis(pb) \in Rat
         /\ margin_basis(pb) ** (pb.lot_backed_qty ++ pb.covered_qty)
              = Backed(pb) ++ pb.weighted
<1>1. /\ pb.borrowed_qty \in Rat /\ pb.lot_backed_qty \in Rat /\ pb.weighted \in Rat
      /\ pb.covered_qty \in Rat /\ pb.lot_backed_basis \in Rat \cup {None}
      /\ Positive(pb.borrowed_qty) /\ Zero \preceq pb.lot_backed_qty
  BY PendingFields
<1>2. Positive(pb.covered_qty)
  <2>1. pb.borrowed_qty \preceq pb.covered_qty
    BY DEF fully_covered
  <2> QED
    BY <1>1, <2>1, ZeroType, OrderTrans DEF Positive
<1>3. Zero \preceq pb.covered_qty
  BY <1>1, <1>2, NotNegative
<1>4. /\ pb.lot_backed_qty ++ pb.covered_qty \in Rat
      /\ Positive(pb.lot_backed_qty ++ pb.covered_qty)
  BY <1>1, <1>2, <1>3, AddType, NonNegativeSum
<1>5. Backed(pb) \in Rat
  BY <1>1, ZeroType, MulType DEF Backed
<1>6. Backed(pb) ++ pb.weighted \in Rat
  BY <1>1, <1>5, AddType
<1>7. margin_basis(pb) = (Backed(pb) ++ pb.weighted) // (pb.lot_backed_qty ++ pb.covered_qty)
  BY DEF margin_basis, Backed
<1> QED
  BY <1>4, <1>6, <1>7, DivMul

Open(st, id) == id \in DOMAIN st.pending_borrows /\ ~st.pending_borrows[id].finalized

\* The entry of a loan after a cover.
After(st, id, qty, fx) == covered_by(st.pending_borrows[id], qty, fx)

Settled(st, id, qty, fx) == WithPending(st, id, settled(After(st, id, qty, fx)))

FeeBooked(st, s, pb) ==
  WithBucket(s, pb.from_ccy,
             fees_added(st.currencies[pb.from_ccy], pb.fee_native, margin_basis(pb)))

GainBooked(st, s, pb) ==
  WithBucket(s, pb.from_ccy,
             gained(st.currencies[pb.from_ccy],
                    (pb.borrowed_qty ** pb.from_broker_fx) -- pb.weighted))

\* What on_cover does, case by case.
LEMMA OnCoverIs ==
  ASSUME NEW st \in StateSet, NEW id, NEW qty \in Rat, NEW fx \in Rat
  PROVE  /\ ~Open(st, id) => on_cover(st, id, qty, fx) = st
         /\ Open(st, id) /\ ~fully_covered(After(st, id, qty, fx)) =>
              on_cover(st, id, qty, fx) = WithPending(st, id, After(st, id, qty, fx))
         /\ Open(st, id) /\ fully_covered(After(st, id, qty, fx))
              /\ After(st, id, qty, fx).consumer_kind = "buy" =>
              on_cover(st, id, qty, fx)
                = WithBasis(FeeBooked(st, Settled(st, id, qty, fx), After(st, id, qty, fx)),
                            After(st, id, qty, fx).consumer,
                            margin_basis(After(st, id, qty, fx)))
         /\ Open(st, id) /\ fully_covered(After(st, id, qty, fx))
              /\ After(st, id, qty, fx).consumer_kind # "buy" =>
              on_cover(st, id, qty, fx)
                = GainBooked(st, Settled(st, id, qty, fx), After(st, id, qty, fx))
<1> DEFINE pb == After(st, id, qty, fx)
           st1 == WithPending(st, id, pb)
<1>1. CASE ~Open(st, id)
  BY <1>1 DEF Open, on_cover
<1>2. CASE Open(st, id)
  <2>1. id \in DOMAIN st.pending_borrows /\ ~st.pending_borrows[id].finalized
    BY <1>2 DEF Open
  <2>2. st.pending_borrows[id] \in PendingSet
    BY <2>1, StateFields, PartialType
  <2>3. pb \in PendingSet /\ settled(pb) \in PendingSet
    BY <2>2, CoveredBy DEF After
  <2>4. on_cover(st, id, qty, fx)
          = IF fully_covered(st1.pending_borrows[id]) THEN finalize_borrow(st1, id) ELSE st1
    BY <2>1, Zenon DEF on_cover, After, WithPending
  <2>5. st1.pending_borrows[id] = pb /\ st1 \in StateSet /\ st1.currencies = st.currencies
    BY <2>1, <2>3, WithPendingType
  <2> DEFINE done == [st1 EXCEPT !.pending_borrows[id] = settled(@)]
  <2>6. done = Settled(st, id, qty, fx)
    <3>1. done = WithPending(st1, id, settled(pb))
      BY <2>5 DEF WithPending
    <3>2. WithPending(st1, id, settled(pb)) = WithPending(st, id, settled(pb))
      <4> HIDE DEF pb
      <4> QED
        BY <2>1 DEF WithPending, StateSet
    <3> QED
      BY <3>1, <3>2 DEF Settled
  <2>7. done.currencies = st.currencies /\ done \in StateSet
    <3>1. Settled(st, id, qty, fx) = WithPending(st, id, settled(pb))
      BY DEF Settled
    <3> HIDE DEF done, pb
    <3> QED
      BY <2>1, <2>3, <2>6, <3>1, WithPendingType
  <2> HIDE DEF done, st1
  <2>8. ASSUME pb.consumer_kind = "buy"
        PROVE  finalize_borrow(st1, id)
                 = WithBasis(FeeBooked(st, done, pb), pb.consumer, margin_basis(pb))
    <3> HIDE DEF pb
    <3>1. add_fees(done, pb.from_ccy, pb.fee_native, margin_basis(pb)) = FeeBooked(st, done, pb)
      BY <2>7 DEF add_fees, FeeBooked, WithBucket
    <3>2. book_deferred_fee(done, pb) = FeeBooked(st, done, pb)
      BY <3>1 DEF book_deferred_fee
    <3>3. finalize_borrow(st1, id)
            = [book_deferred_fee(done, pb) EXCEPT
                 !.buy_fx_basis = Put(@, pb.consumer, margin_basis(pb))]
      BY <2>5, <2>8 DEF finalize_borrow, done
    <3> QED
      BY <3>2, <3>3 DEF WithBasis
  <2>9. ASSUME pb.consumer_kind # "buy"
        PROVE  finalize_borrow(st1, id) = GainBooked(st, done, pb)
    <3> HIDE DEF pb
    <3>1. finalize_borrow(st1, id)
            = [done EXCEPT !.currencies[pb.from_ccy] =
                 gained(@, (pb.borrowed_qty ** pb.from_broker_fx) -- pb.weighted)]
      BY <2>5, <2>9 DEF finalize_borrow, done
    <3> QED
      BY <2>7, <3>1 DEF GainBooked, WithBucket
  <2> QED
    BY <1>2, <2>4, <2>5, <2>6, <2>8, <2>9 DEF st1
<1> QED
  BY <1>1, <1>2

GainsApart(b) == b.gain_fifo -- b.gain_avg

\* What a cover never touches.
CoverKeeps(st, s) ==
  /\ s \in StateSet
  /\ SameEquity(st, s)
  /\ \A c \in Currency : SameCash(st.currencies[c], s.currencies[c])
  /\ \A c \in Currency : GainsApart(s.currencies[c]) = GainsApart(st.currencies[c])
  /\ DOMAIN s.pending_borrows = DOMAIN st.pending_borrows
  /\ \A id \in DOMAIN st.pending_borrows :
       SameLoan(st.pending_borrows[id], s.pending_borrows[id])
  /\ DOMAIN st.buy_fx_basis \subseteq DOMAIN s.buy_fx_basis

LEMMA CoverKeepsSelf == ASSUME NEW st \in StateSet PROVE CoverKeeps(st, st)
BY DEF CoverKeeps, SameEquity, SameCash, SameLoan

LEMMA CoverKeepsTrans ==
  ASSUME NEW st, NEW s, NEW u, CoverKeeps(st, s), CoverKeeps(s, u)
  PROVE  CoverKeeps(st, u)
<1>1. u \in StateSet /\ SameEquity(st, u)
  BY DEF CoverKeeps, SameEquity
<1>2. \A c \in Currency : SameCash(st.currencies[c], u.currencies[c])
  <2> TAKE c \in Currency
  <2> QED
    BY DEF CoverKeeps, SameCash
<1>3. \A c \in Currency : GainsApart(u.currencies[c]) = GainsApart(st.currencies[c])
  BY DEF CoverKeeps
<1>4. DOMAIN u.pending_borrows = DOMAIN st.pending_borrows
  BY DEF CoverKeeps
<1>5. \A id \in DOMAIN st.pending_borrows :
        SameLoan(st.pending_borrows[id], u.pending_borrows[id])
  <2> TAKE id \in DOMAIN st.pending_borrows
  <2>1. /\ SameLoan(st.pending_borrows[id], s.pending_borrows[id])
        /\ SameLoan(s.pending_borrows[id], u.pending_borrows[id])
    BY DEF CoverKeeps
  <2> QED
    BY <2>1 DEF SameLoan
<1>6. DOMAIN st.buy_fx_basis \subseteq DOMAIN u.buy_fx_basis
  BY DEF CoverKeeps
<1> QED
  BY <1>1, <1>2, <1>3, <1>4, <1>5, <1>6 DEF CoverKeeps

LEMMA WithPendingKeeps ==
  ASSUME NEW st \in StateSet, NEW id \in DOMAIN st.pending_borrows, NEW pb \in PendingSet,
         SameLoan(st.pending_borrows[id], pb)
  PROVE  CoverKeeps(st, WithPending(st, id, pb))
<1> DEFINE s == WithPending(st, id, pb)
<1>1. /\ s \in StateSet /\ DOMAIN s.pending_borrows = DOMAIN st.pending_borrows
      /\ s.pending_borrows[id] = pb
      /\ \A j \in DOMAIN st.pending_borrows : j # id =>
           s.pending_borrows[j] = st.pending_borrows[j]
      /\ s.currencies = st.currencies /\ s.buy_fx_basis = st.buy_fx_basis
      /\ SameEquity(st, s)
  BY WithPendingType
<1> HIDE DEF s
<1>2. ASSUME NEW j \in DOMAIN st.pending_borrows
      PROVE  SameLoan(st.pending_borrows[j], s.pending_borrows[j])
  <2>1. CASE j = id
    BY <2>1, <1>1
  <2>2. CASE j # id
    BY <2>2, <1>1 DEF SameLoan
  <2> QED
    BY <2>1, <2>2
<1>3. CoverKeeps(st, s)
  BY <1>1, <1>2 DEF CoverKeeps, SameCash
<1> QED
  BY <1>3 DEF s

LEMMA WithBucketKeeps ==
  ASSUME NEW st \in StateSet, NEW ccy \in Currency, NEW b \in BucketSet,
         SameCash(st.currencies[ccy], b), GainsApart(b) = GainsApart(st.currencies[ccy])
  PROVE  CoverKeeps(st, WithBucket(st, ccy, b))
<1> DEFINE s == WithBucket(st, ccy, b)
<1>1. /\ s \in StateSet /\ s.currencies[ccy] = b
      /\ \A c \in Currency : c # ccy => s.currencies[c] = st.currencies[c]
      /\ s.pending_borrows = st.pending_borrows /\ s.buy_fx_basis = st.buy_fx_basis
      /\ SameEquity(st, s)
  BY WithBucketType
<1> HIDE DEF s
<1>2. ASSUME NEW c \in Currency
      PROVE  /\ SameCash(st.currencies[c], s.currencies[c])
             /\ GainsApart(s.currencies[c]) = GainsApart(st.currencies[c])
  <2>1. CASE c = ccy
    BY <2>1, <1>1
  <2>2. CASE c # ccy
    BY <2>2, <1>1 DEF SameCash
  <2> QED
    BY <2>1, <2>2
<1>3. CoverKeeps(st, s)
  BY <1>1, <1>2 DEF CoverKeeps, SameLoan
<1> QED
  BY <1>3 DEF s

LEMMA WithBasisKeeps ==
  ASSUME NEW st \in StateSet, NEW n \in Nat, NEW fx \in Rat
  PROVE  CoverKeeps(st, WithBasis(st, n, fx))
<1> DEFINE s == WithBasis(st, n, fx)
<1>1. /\ s \in StateSet /\ s.currencies = st.currencies
      /\ s.pending_borrows = st.pending_borrows
      /\ s.buy_fx_basis = Put(st.buy_fx_basis, n, fx) /\ SameEquity(st, s)
  BY WithBasisType
<1> HIDE DEF s
<1>2. DOMAIN st.buy_fx_basis \subseteq DOMAIN s.buy_fx_basis
  BY <1>1 DEF Put
<1>3. CoverKeeps(st, s)
  BY <1>1, <1>2 DEF CoverKeeps, SameCash, SameLoan
<1> QED
  BY <1>3 DEF s

LEMMA OnCoverKeeps ==
  ASSUME NEW st \in StateSet, NEW id, NEW qty \in Rat, NEW fx \in Rat
  PROVE  CoverKeeps(st, on_cover(st, id, qty, fx))
<1> DEFINE pb == After(st, id, qty, fx)
           s == on_cover(st, id, qty, fx)
<1>1. CASE ~Open(st, id)
  BY <1>1, OnCoverIs, CoverKeepsSelf
<1>2. CASE Open(st, id)
  <2>1. id \in DOMAIN st.pending_borrows
    BY <1>2 DEF Open
  <2>2. st.pending_borrows[id] \in PendingSet
    BY <2>1, StateFields, PartialType
  <2>3. /\ pb \in PendingSet /\ settled(pb) \in PendingSet
        /\ SameLoan(st.pending_borrows[id], pb)
        /\ SameLoan(st.pending_borrows[id], settled(pb))
    BY <2>2, CoveredBy, SameLoans DEF After
  <2>4. pb.from_ccy \in Currency /\ pb.consumer \in Nat /\ pb.fee_native \in Rat
        /\ pb.borrowed_qty \in Rat /\ pb.from_broker_fx \in Rat /\ pb.weighted \in Rat
    <3> HIDE DEF pb
    <3> QED
      BY <2>3, PendingFields
  <2> DEFINE done == Settled(st, id, qty, fx)
             b == st.currencies[pb.from_ccy]
  <2>5. CoverKeeps(st, done) /\ done.currencies = st.currencies
    <3>1. done = WithPending(st, id, settled(pb))
      BY DEF Settled
    <3> HIDE DEF done, pb
    <3> QED
      BY <2>1, <2>3, <3>1, WithPendingKeeps, WithPendingType
  <2>6. b \in BucketSet
    BY <2>4, StateFields
  <2>7. CASE ~fully_covered(pb)
    <3>1. s = WithPending(st, id, pb)
      BY <1>2, <2>7, OnCoverIs
    <3> HIDE DEF pb, s
    <3> QED
      BY <2>1, <2>3, <3>1, WithPendingKeeps DEF s
  <2>8. CASE fully_covered(pb) /\ pb.consumer_kind = "buy"
    <3> DEFINE booked == FeeBooked(st, done, pb)
    <3>1. s = WithBasis(booked, pb.consumer, margin_basis(pb))
      BY <1>2, <2>8, OnCoverIs
    <3>2. margin_basis(pb) \in Rat
      <4> HIDE DEF pb
      <4> QED
        BY <2>3, <2>8, MarginBasis
    <3>3. /\ fees_added(b, pb.fee_native, margin_basis(pb)) \in BucketSet
          /\ SameCash(b, fees_added(b, pb.fee_native, margin_basis(pb)))
          /\ SameGains(b, fees_added(b, pb.fee_native, margin_basis(pb)))
      <4> HIDE DEF pb, b
      <4> QED
        BY <2>4, <2>6, <3>2, FeesAdded
    <3>4. CoverKeeps(done, booked)
      <4>1. booked = WithBucket(done, pb.from_ccy,
                                fees_added(b, pb.fee_native, margin_basis(pb)))
        BY DEF FeeBooked
      <4>2. done.currencies[pb.from_ccy] = b /\ done \in StateSet
        BY <2>5 DEF CoverKeeps
      <4> HIDE DEF done, pb, b, booked
      <4> QED
        BY <2>4, <3>3, <4>1, <4>2, WithBucketKeeps DEF GainsApart, SameGains
    <3> HIDE DEF done, pb, booked, s
    <3>5. CoverKeeps(booked, s)
      <4>1. booked \in StateSet
        BY <3>4 DEF CoverKeeps
      <4> QED
        BY <2>4, <3>1, <3>2, <4>1, WithBasisKeeps
    <3>6. CoverKeeps(st, s)
      BY <2>5, <3>4, <3>5, CoverKeepsTrans
    <3> QED
      BY <3>6 DEF s
  <2>9. CASE fully_covered(pb) /\ pb.consumer_kind # "buy"
    <3> DEFINE gain == (pb.borrowed_qty ** pb.from_broker_fx) -- pb.weighted
    <3>1. s = GainBooked(st, done, pb)
      BY <1>2, <2>9, OnCoverIs
    <3>2. gain \in Rat
      BY <2>4, MulType, AddType
    <3>3. /\ gained(b, gain) \in BucketSet /\ SameCash(b, gained(b, gain))
          /\ gained(b, gain).gain_fifo = b.gain_fifo ++ gain
          /\ gained(b, gain).gain_avg = b.gain_avg ++ gain
      <4> HIDE DEF gain, b
      <4> QED
        BY <2>6, <3>2, GainAdded
    <3>4. GainsApart(gained(b, gain)) = GainsApart(b)
      <4> DEFINE x == b.gain_fifo
                 y == b.gain_avg
      <4>1. x \in Rat /\ y \in Rat
        BY <2>6, BucketFields
      <4>2. (x ++ gain) -- (y ++ gain) = x -- y
        <5> HIDE DEF x, y, gain
        <5>1. (x -- y) ++ (gain -- gain) = (x ++ gain) -- (y ++ gain)
          BY <3>2, <4>1, SubSwapped
        <5>2. x -- y \in Rat
          BY <4>1, AddType
        <5> QED
          BY <3>2, <5>1, <5>2, AddZero
      <4> QED
        BY <3>3, <4>2 DEF GainsApart
    <3>5. CoverKeeps(done, s)
      <4>1. s = WithBucket(done, pb.from_ccy, gained(b, gain))
        BY <3>1 DEF GainBooked
      <4>2. done.currencies[pb.from_ccy] = b /\ done \in StateSet
        BY <2>5 DEF CoverKeeps
      <4> HIDE DEF done, pb, b, s, gain
      <4> QED
        BY <2>4, <3>3, <3>4, <4>1, <4>2, WithBucketKeeps
    <3> HIDE DEF done, s
    <3>6. CoverKeeps(st, s)
      BY <2>5, <3>5, CoverKeepsTrans
    <3> QED
      BY <3>6 DEF s
  <2> QED
    BY <2>7, <2>8, <2>9
<1> QED
  BY <1>1, <1>2

(***************************************************************************)
(* A deposit that covers the open borrows                                  *)
(***************************************************************************)

CoveredFn(st, borrows, taken, fx) ==
  CHOOSE k : k = [i \in 0..Len(borrows) |->
                    IF i = 0 THEN st
                    ELSE IF taken[i] = Zero THEN k[i - 1]
                    ELSE on_cover(k[i - 1], borrows[i].borrow_id, taken[i], fx)]

\* The equation of covered.
LEMMA CoveredProp ==
  ASSUME NEW st \in StateSet, NEW borrows \in Seq(BorrowLot), NEW taken \in Seq(Rat),
         Len(taken) = Len(borrows), NEW fx \in Rat
  PROVE  /\ CoveredFn(st, borrows, taken, fx) \in [0..Len(borrows) -> StateSet]
         /\ CoveredFn(st, borrows, taken, fx)[0] = st
         /\ \A i \in 1..Len(borrows) :
              CoveredFn(st, borrows, taken, fx)[i]
                = IF taken[i] = Zero THEN CoveredFn(st, borrows, taken, fx)[i - 1]
                  ELSE on_cover(CoveredFn(st, borrows, taken, fx)[i - 1],
                                borrows[i].borrow_id, taken[i], fx)
         /\ covered(st, borrows, taken, fx)
              = CoveredFn(st, borrows, taken, fx)[Len(borrows)]
<1>1. Len(borrows) \in Nat /\ \A i \in 1..Len(borrows) : taken[i] \in Rat
  OBVIOUS
<1> DEFINE N == Len(borrows)
           X == StateSet
           cover(a, i) == IF taken[i] = Zero THEN a
                          ELSE on_cover(a, borrows[i].borrow_id, taken[i], fx)
           step == [i \in 1..N |-> [a \in X |-> cover(a, i)]]
           P(k) == k = [i \in 0..N |-> IF i = 0 THEN st ELSE cover(k[i - 1], i)]
<1>c. \A i \in 1..N : \A a \in X : cover(a, i) \in X
  BY <1>1, OnCoverKeeps DEF CoverKeeps
<1>d. CoveredFn(st, borrows, taken, fx) = CHOOSE k : P(k)
  BY DEF CoveredFn
<1>e. covered(st, borrows, taken, fx) = CoveredFn(st, borrows, taken, fx)[N]
  BY DEF covered, CoveredFn
<1>f. \A i, a : cover(a, i) = IF taken[i] = Zero THEN a
                              ELSE on_cover(a, borrows[i].borrow_id, taken[i], fx)
  OBVIOUS
<1> HIDE DEF cover, X
<1>2. step \in [1..N -> [X -> X]]
  BY <1>c
<1>s. st \in X
  BY DEF X
<1>p. PICK f \in [0..N -> X] : Recursive(f, N, st, step)
  <2>1. N \in Nat
    BY <1>1
  <2> HIDE DEF step, N
  <2> QED
    BY <1>2, <1>s, <2>1, Recursion
<1>3. f[0] = st /\ \A i \in 1..N : f[i] = step[i][f[i - 1]]
  BY <1>p DEF Recursive
<1>4. ASSUME NEW i \in 1..N PROVE f[i] = cover(f[i - 1], i)
  <2>1. i - 1 \in 0..N
    BY <1>1
  <2>2. f[i - 1] \in X
    <3> HIDE DEF N
    <3> QED
      BY <2>1
  <2>3. step[i] = [a \in X |-> cover(a, i)]
    BY Zenon
  <2>4. f[i] = step[i][f[i - 1]]
    BY <1>3
  <2> HIDE DEF step, N
  <2> QED
    BY <2>2, <2>3, <2>4
<1>5. P(f)
  <2> HIDE DEF step
  <2>1. \A i \in 0..N : i # 0 => i \in 1..N
    BY <1>1
  <2> QED
    BY <1>3, <1>4, <2>1
<1> DEFINE g == CoveredFn(st, borrows, taken, fx)
<1>7. P(g)
  <2> HIDE DEF P
  <2> QED
    BY <1>5, <1>d
<1>8. g = [i \in 0..N |-> IF i = 0 THEN st ELSE cover(g[i - 1], i)]
  BY <1>7
<1> HIDE DEF g
<1>9. g[0] = st /\ \A i \in 1..N : g[i] = cover(g[i - 1], i)
  <2> HIDE DEF N
  <2>1. N \in Nat
    BY <1>1 DEF N
  <2>2. 0 \in 0..N /\ \A i \in 1..N : i \in 0..N /\ i # 0
    BY <2>1
  <2>3. g[0] = st
    BY <1>8, <2>2
  <2>4. ASSUME NEW i \in 1..N PROVE g[i] = cover(g[i - 1], i)
    BY <1>8, <2>2
  <2> QED
    BY <2>3, <2>4
<1>10. \A i \in Nat : i \in {j \in Nat : j <= N => g[j] \in X}
  <2> DEFINE S == {j \in Nat : j <= N => g[j] \in X}
  <2>1. 0 \in S
    BY <1>9, <1>s
  <2>2. ASSUME NEW n \in Nat, n \in S PROVE n + 1 \in S
    <3> SUFFICES ASSUME n + 1 <= N PROVE g[n + 1] \in X
      OBVIOUS
    <3>1. n + 1 \in 1..N /\ (n + 1) - 1 = n /\ g[n] \in X
      BY <1>1, <2>2
    <3>2. g[n + 1] = cover(g[n], n + 1)
      BY <1>9, <3>1
    <3> QED
      BY <1>c, <3>1, <3>2
  <2> HIDE DEF S
  <2>3. \A n \in Nat : n \in S
    BY <2>1, <2>2, Induction
  <2> QED
    BY <2>3 DEF S
<1>11. \A i \in 0..N : g[i] \in X
  BY <1>1, <1>10
<1>12. g \in [0..N -> X]
  BY <1>8, <1>11
<1> QED
  BY <1>9, <1>12, <1>e, <1>f DEF g, X

\* A relation between states that every cover extends holds of all of them.
LEMMA CoveredKeeps ==
  ASSUME NEW st \in StateSet, NEW borrows \in Seq(BorrowLot), NEW taken \in Seq(Rat),
         Len(taken) = Len(borrows), NEW fx \in Rat
  PROVE  CoverKeeps(st, covered(st, borrows, taken, fx))
<1> DEFINE g == CoveredFn(st, borrows, taken, fx)
           N == Len(borrows)
           S == {j \in Nat : j <= N => CoverKeeps(st, g[j])}
<1>1. N \in Nat /\ \A i \in 1..N : taken[i] \in Rat
  OBVIOUS
<1>2. /\ g \in [0..N -> StateSet] /\ g[0] = st
      /\ \A i \in 1..N : g[i] = IF taken[i] = Zero THEN g[i - 1]
                                ELSE on_cover(g[i - 1], borrows[i].borrow_id, taken[i], fx)
      /\ covered(st, borrows, taken, fx) = g[N]
  BY CoveredProp
<1> HIDE DEF g, N
<1>3. 0 \in S
  BY <1>2, CoverKeepsSelf
<1>4. ASSUME NEW n \in Nat, n \in S PROVE n + 1 \in S
  <2> SUFFICES ASSUME n + 1 <= N PROVE CoverKeeps(st, g[n + 1])
    OBVIOUS
  <2>1. n + 1 \in 1..N /\ (n + 1) - 1 = n /\ CoverKeeps(st, g[n])
    BY <1>1, <1>4
  <2> DEFINE u == taken[n + 1]
             id == borrows[n + 1].borrow_id
  <2>2. u \in Rat /\ g[n] \in StateSet
    BY <1>1, <2>1 DEF CoverKeeps
  <2>3. g[n + 1] = IF u = Zero THEN g[n] ELSE on_cover(g[n], id, u, fx)
    BY <1>2, <2>1
  <2> HIDE DEF u, id
  <2>4. CoverKeeps(g[n], on_cover(g[n], id, u, fx))
    BY <2>2, OnCoverKeeps
  <2>5. CoverKeeps(st, on_cover(g[n], id, u, fx))
    BY <2>1, <2>4, CoverKeepsTrans
  <2> QED
    BY <2>1, <2>3, <2>5
<1> HIDE DEF S
<1>5. \A n \in Nat : n \in S
  BY <1>3, <1>4, Induction
<1> QED
  BY <1>1, <1>2, <1>5 DEF S

LEMMA MulComm ==
  ASSUME NEW a \in Rat, NEW b \in Rat
  PROVE  a ** b = b ** a
<1>1. PICK d \in Pos, x \in Int, y \in Int : a = Reduced(x, d) /\ b = Reduced(y, d)
  BY Common2
<1>2. x * y = y * x
  BY <1>1
<1> QED
  BY <1>1, <1>2, RatioMul

LEMMA MulAssoc ==
  ASSUME NEW a \in Rat, NEW b \in Rat, NEW c \in Rat
  PROVE  (a ** b) ** c = a ** (b ** c)
<1>1. PICK d \in Pos, x \in Int, y \in Int, z \in Int :
        a = Reduced(x, d) /\ b = Reduced(y, d) /\ c = Reduced(z, d)
  BY Common3
<1>2. x * y \in Int /\ y * z \in Int /\ d * d \in Pos
  BY <1>1 DEF Pos
<1>3. a ** b = Reduced(x * y, d * d) /\ b ** c = Reduced(y * z, d * d)
  BY <1>1, RatioMul
<1>4. (a ** b) ** c = Reduced((x * y) * z, (d * d) * d)
  BY <1>1, <1>2, <1>3, RatioMul
<1>5. a ** (b ** c) = Reduced(x * (y * z), d * (d * d))
  BY <1>1, <1>2, <1>3, RatioMul
<1>6. (x * y) * z = x * (y * z) /\ (d * d) * d = d * (d * d)
  BY <1>1 DEF Pos
<1> QED
  BY <1>4, <1>5, <1>6

(***************************************************************************)
(* What the lots of a currency cost                                        *)
(***************************************************************************)

FxOf == [l \in CashLot |-> l.fx]

BasisTaken(lots, amount) == TakenSum(lots, amount, LAMBDA lot : lot.fx)

LEMMA FxOfWeight == WeightOf(CashLot, FxOf)
<1>1. FxOf \in [CashLot -> Rat]
  BY DEF FxOf, CashLot
<1>2. ASSUME NEW l \in CashLot, NEW q \in Rat PROVE FxOf[[l EXCEPT !.qty = q]] = FxOf[l]
  <2>1. [l EXCEPT !.qty = q] \in CashLot /\ [l EXCEPT !.qty = q].fx = l.fx
    BY DEF CashLot
  <2> QED
    BY <2>1 DEF FxOf
<1> QED
  BY <1>1, <1>2 DEF WeightOf

LEMMA ValueIs ==
  ASSUME NEW lots \in Seq(CashLot)
  PROVE  /\ Value(lots) = ValSum(lots, Weighed(CashLot, FxOf))
         /\ Value(lots) \in Rat
<1> DEFINE val == Weighed(CashLot, FxOf)
<1>1. val \in [CashLot -> Rat]
  BY FxOfWeight, LotSets, WeighedType DEF WeightOf
<1>2. \A i \in DOMAIN lots : val[lots[i]] = lots[i].qty ** lots[i].fx
  <2>1. \A i \in DOMAIN lots : lots[i] \in CashLot
    OBVIOUS
  <2> QED
    BY <2>1 DEF Weighed, FxOf
<1> HIDE DEF val
<1>3. [i \in DOMAIN lots |-> lots[i].qty ** lots[i].fx] = [i \in DOMAIN lots |-> val[lots[i]]]
  BY <1>2
<1>4. Value(lots) = ValSum(lots, val)
  BY <1>3 DEF Value, Total, ValSum, Vals
<1> QED
  BY <1>1, <1>4, ValsType DEF val

LEMMA BasisTakenIs ==
  ASSUME NEW lots \in Seq(CashLot), AllPositive(lots), NEW amount \in Rat, Zero \preceq amount
  PROVE  /\ BasisTaken(lots, amount) = SumOf(TakenVals(lots, Taken(lots, amount), FxOf))
         /\ BasisTaken(lots, amount) \in Rat
         /\ Value(Rest(lots, amount)) = Value(lots) -- BasisTaken(lots, amount)
<1> DEFINE t == Taken(lots, amount)
<1>1. t \in Seq(Rat) /\ Len(t) = Len(lots)
  BY LotSets, TakenFacts DEF TakenWell
<1>2. FxOf \in [CashLot -> Rat] /\ WeightOf(CashLot, FxOf)
  BY FxOfWeight DEF WeightOf
<1>3. \A i \in DOMAIN lots : FxOf[lots[i]] = lots[i].fx
  <2>1. \A i \in DOMAIN lots : lots[i] \in CashLot
    OBVIOUS
  <2> QED
    BY <2>1 DEF FxOf
<1>4. BasisTaken(lots, amount) = SumOf([i \in DOMAIN lots |-> t[i] ** lots[i].fx])
  BY DEF BasisTaken, TakenSum
<1> HIDE DEF t
<1>5. [i \in DOMAIN lots |-> t[i] ** lots[i].fx] = [i \in DOMAIN lots |-> t[i] ** FxOf[lots[i]]]
  BY <1>3
<1>6. BasisTaken(lots, amount) = SumOf(TakenVals(lots, t, FxOf))
  BY <1>4, <1>5 DEF TakenVals
<1>7. SumOf(TakenVals(lots, t, FxOf)) \in Rat
  BY <1>1, <1>2, TakenValsType
<1>8. Rest(lots, amount) \in Seq(CashLot)
  BY LotSets, RestType
<1>9. ValSum(Rest(lots, amount), Weighed(CashLot, FxOf))
        = ValSum(lots, Weighed(CashLot, FxOf)) -- SumOf(TakenVals(lots, t, FxOf))
  BY <1>2, LotSets, RestSum DEF t
<1> QED
  BY <1>6, <1>7, <1>8, <1>9, ValueIs DEF t

LEMMA ValueAppend ==
  ASSUME NEW lots \in Seq(CashLot), NEW qty \in Rat, NEW fx \in Rat
  PROVE  Value(Append(lots, [qty |-> qty, fx |-> fx])) = Value(lots) ++ (qty ** fx)
<1> DEFINE lot == [qty |-> qty, fx |-> fx]
           val == Weighed(CashLot, FxOf)
<1>1. val \in [CashLot -> Rat]
  BY FxOfWeight, LotSets, WeighedType DEF WeightOf
<1>2. lot \in CashLot /\ val[lot] = qty ** fx
  BY DEF CashLot, Weighed, FxOf
<1> HIDE DEF lot, val
<1>3. ValSum(Append(lots, lot), val) = ValSum(lots, val) ++ val[lot]
  BY <1>1, <1>2, ValSumAppend
<1>4. Append(lots, lot) \in Seq(CashLot)
  BY <1>2
<1> QED
  BY <1>2, <1>3, <1>4, ValueIs DEF lot, val

LEMMA ValueEmpty == Value(<<>>) = Zero
<1>1. <<>> \in Seq(CashLot)
  OBVIOUS
<1> QED
  BY <1>1, ValueIs, ValSumEmpty

\* What FIFO and average cost disagree on in the FX gain, less what they
\* disagree on in the cost of the cash that is left.
LotsApart(b) == Value(b.fifo_lots) -- (TotalQty(b.fifo_lots) ** b.avg_fx)
FxGap(b) == GainsApart(b) -- LotsApart(b)

LEMMA GapType ==
  ASSUME NEW b \in BucketSet
  PROVE  /\ GainsApart(b) \in Rat /\ LotsApart(b) \in Rat /\ FxGap(b) \in Rat
         /\ Value(b.fifo_lots) \in Rat /\ TotalQty(b.fifo_lots) \in Rat
<1>1. /\ b.fifo_lots \in Seq(CashLot) /\ b.avg_fx \in Rat
      /\ b.gain_fifo \in Rat /\ b.gain_avg \in Rat
  BY BucketFields
<1>2. Value(b.fifo_lots) \in Rat /\ TotalQty(b.fifo_lots) \in Rat
  BY <1>1, ValueIs, LotSets, QtysType
<1>3. TotalQty(b.fifo_lots) ** b.avg_fx \in Rat
  BY <1>1, <1>2, MulType
<1>4. GainsApart(b) \in Rat /\ LotsApart(b) \in Rat
  BY <1>1, <1>2, <1>3, AddType DEF GainsApart, LotsApart
<1> QED
  BY <1>2, <1>4, AddType DEF FxGap

LEMMA SameCashGap ==
  ASSUME NEW a, NEW b, SameCash(a, b), GainsApart(b) = GainsApart(a)
  PROVE  FxGap(b) = FxGap(a)
BY DEF SameCash, FxGap, LotsApart

LEMMA RepaidGap ==
  ASSUME NEW b, BucketOK(b), NEW qty \in Rat, Positive(qty)
  PROVE  FxGap(repaid(b, qty)) = FxGap(b)
<1> DEFINE r == repaid(b, qty)
<1>1. r.fifo_lots = b.fifo_lots /\ r.avg_fx = b.avg_fx /\ SameGains(b, r)
  BY Repaid
<1> HIDE DEF r
<1>2. FxGap(r) = FxGap(b)
  BY <1>1 DEF FxGap, LotsApart, GainsApart, SameGains
<1> QED
  BY <1>2 DEF r

LEMMA AddLotGap ==
  ASSUME NEW b, BucketOK(b), b.borrow_lots = <<>>, NEW rest \in Rat, Positive(rest),
         NEW fx \in Rat, NEW before, before = Greater(Zero, b.lot_qty)
  PROVE  FxGap(add_lot(b, before, rest, fx)) = FxGap(b)
<1> DEFINE a == add_lot(b, before, rest, fx)
           lot == [qty |-> rest, fx |-> fx]
           f == TotalQty(b.fifo_lots)
           v == Value(b.fifo_lots)
<1>1. /\ a.fifo_lots = Append(b.fifo_lots, lot)
      /\ a.avg_fx ** (before ++ rest) = (before ** b.avg_fx) ++ (rest ** fx)
      /\ SameGains(b, a) /\ BucketOK(a)
  BY AddLot
<1>2. b \in BucketSet /\ b.fifo_lots \in Seq(CashLot) /\ b.avg_fx \in Rat /\ a \in BucketSet
  BY <1>1, BucketFields DEF BucketOK
<1>3. before = f /\ f \in Rat /\ v \in Rat
  BY <1>2, BucketTotals, ValueIs
<1>4. Value(a.fifo_lots) = v ++ (rest ** fx)
  BY <1>1, <1>2, ValueAppend
<1>5. TotalQty(a.fifo_lots) = f ++ rest
  <2>1. lot \in CashLot /\ lot.qty = rest
    BY DEF CashLot
  <2> HIDE DEF lot
  <2> QED
    BY <1>1, <1>2, <2>1, LotSets, TotalAppend
<1>m. a.avg_fx \in Rat
  BY <1>2, BucketFields
<1> DEFINE x == f ** b.avg_fx
           y == rest ** fx
<1>6. (f ++ rest) ** a.avg_fx = x ++ y
  <2>1. f ++ rest \in Rat
    BY <1>3, AddType
  <2>2. (f ++ rest) ** a.avg_fx = a.avg_fx ** (f ++ rest)
    BY <2>1, <1>m, MulComm
  <2> QED
    BY <1>1, <1>3, <2>2
<1>7. x \in Rat /\ y \in Rat
  BY <1>2, <1>3, MulType
<1> HIDE DEF a, x, y, f, v
<1>8. (v ++ y) -- (x ++ y) = v -- x
  <2>1. (v -- x) ++ (y -- y) = (v ++ y) -- (x ++ y)
    BY <1>3, <1>7, SubSwapped
  <2>2. v -- x \in Rat
    BY <1>3, <1>7, AddType
  <2> QED
    BY <1>7, <2>1, <2>2, AddZero
<1>9. LotsApart(a) = LotsApart(b)
  BY <1>4, <1>5, <1>6, <1>8 DEF LotsApart, x, y, f, v
<1> QED
  BY <1>1, <1>9 DEF FxGap, GainsApart, SameGains, a

(***************************************************************************)
(* A deposit                                                               *)
(***************************************************************************)

CashSound(s) == s \in StateSet /\ \A c \in Currency : BucketOK(s.currencies[c])

\* What an operation on cash leaves of a state that is sound.
CashKeeps(st, s) ==
  /\ CashSound(s)
  /\ SameEquity(st, s)
  /\ DOMAIN st.buy_fx_basis \subseteq DOMAIN s.buy_fx_basis

\* It moves qty in ccy and nothing in the other currencies,
MovedBy(st, s, ccy, qty) ==
  \A c \in Currency :
    s.currencies[c].lot_qty = st.currencies[c].lot_qty ++ (IF c = ccy THEN qty ELSE Zero)

\* and leaves the gap between the methods alone.
GapsKept(st, s) ==
  \A c \in Currency : FxGap(s.currencies[c]) = FxGap(st.currencies[c])

LEMMA CashKeepsSelf ==
  ASSUME NEW st, CashSound(st)
  PROVE  CashKeeps(st, st) /\ GapsKept(st, st) /\ \A c : MovedBy(st, st, c, Zero)
<1>1. CashKeeps(st, st)
  BY DEF CashKeeps, SameEquity
<1>2. \A c \in Currency : st.currencies[c].lot_qty \in Rat
  BY StateFields, BucketFields DEF CashSound, BucketOK
<1> QED
  BY <1>1, <1>2, AddZero DEF GapsKept, MovedBy

LEMMA CashKeepsTrans ==
  ASSUME NEW st, NEW s, NEW u, CashKeeps(st, s), CashKeeps(s, u)
  PROVE  CashKeeps(st, u)
BY DEF CashKeeps, SameEquity

LEMMA GapsKeptTrans ==
  ASSUME NEW st, NEW s, NEW u, GapsKept(st, s), GapsKept(s, u)
  PROVE  GapsKept(st, u)
BY DEF GapsKept

LEMMA MovedTrans ==
  ASSUME NEW st, NEW s, NEW u, CashSound(st), NEW ccy, NEW a \in Rat, NEW b \in Rat,
         MovedBy(st, s, ccy, a), MovedBy(s, u, ccy, b)
  PROVE  MovedBy(st, u, ccy, a ++ b)
<1> SUFFICES ASSUME NEW c \in Currency
             PROVE  u.currencies[c].lot_qty
                      = st.currencies[c].lot_qty ++ (IF c = ccy THEN a ++ b ELSE Zero)
  BY DEF MovedBy
<1> DEFINE x == st.currencies[c].lot_qty
<1>1. x \in Rat
  BY StateFields, BucketFields DEF CashSound, BucketOK
<1>2. s.currencies[c].lot_qty = x ++ (IF c = ccy THEN a ELSE Zero)
  BY DEF MovedBy
<1>3. u.currencies[c].lot_qty = s.currencies[c].lot_qty ++ (IF c = ccy THEN b ELSE Zero)
  BY DEF MovedBy
<1> HIDE DEF x
<1>4. CASE c = ccy
  BY <1>1, <1>2, <1>3, <1>4, AddAssoc DEF x
<1>5. CASE c # ccy
  BY <1>1, <1>2, <1>3, <1>5, AddZero DEF x
<1> QED
  BY <1>4, <1>5

\* An operation on one bucket.
LEMMA WithBucketCash ==
  ASSUME NEW st, CashSound(st), NEW ccy \in Currency, NEW b, BucketOK(b), NEW qty \in Rat,
         b.lot_qty = st.currencies[ccy].lot_qty ++ qty
  PROVE  /\ CashKeeps(st, WithBucket(st, ccy, b))
         /\ MovedBy(st, WithBucket(st, ccy, b), ccy, qty)
         /\ FxGap(b) = FxGap(st.currencies[ccy]) => GapsKept(st, WithBucket(st, ccy, b))
         /\ \A c \in Currency : c # ccy =>
              FxGap(WithBucket(st, ccy, b).currencies[c]) = FxGap(st.currencies[c])
<1> DEFINE s == WithBucket(st, ccy, b)
<1>1. st \in StateSet /\ b \in BucketSet
  BY DEF CashSound, BucketOK
<1>2. /\ s \in StateSet /\ s.currencies[ccy] = b
      /\ \A c \in Currency : c # ccy => s.currencies[c] = st.currencies[c]
      /\ s.pending_borrows = st.pending_borrows /\ s.buy_fx_basis = st.buy_fx_basis
      /\ SameEquity(st, s)
  BY <1>1, WithBucketType
<1> HIDE DEF s
<1>3. \A c \in Currency : BucketOK(s.currencies[c])
  BY <1>2 DEF CashSound
<1>4. CashKeeps(st, s)
  BY <1>2, <1>3 DEF CashKeeps, CashSound
<1>5. ASSUME NEW c \in Currency
      PROVE  s.currencies[c].lot_qty
               = st.currencies[c].lot_qty ++ (IF c = ccy THEN qty ELSE Zero)
  <2>1. st.currencies[c].lot_qty \in Rat
    BY StateFields, BucketFields DEF CashSound, BucketOK
  <2>2. CASE c = ccy
    BY <2>2, <1>2
  <2>3. CASE c # ccy
    BY <2>1, <2>3, <1>2, AddZero
  <2> QED
    BY <2>2, <2>3
<1>6. FxGap(b) = FxGap(st.currencies[ccy]) => GapsKept(st, s)
  BY <1>2 DEF GapsKept
<1> QED
  BY <1>2, <1>4, <1>5, <1>6 DEF MovedBy, s

\* Fees leave cash alone.
LEMMA AddFees ==
  ASSUME NEW st, CashSound(st), NEW ccy \in Currency, NEW native \in Rat, NEW fx \in Rat
  PROVE  /\ CashKeeps(st, add_fees(st, ccy, native, fx))
         /\ GapsKept(st, add_fees(st, ccy, native, fx))
         /\ \A c : MovedBy(st, add_fees(st, ccy, native, fx), c, Zero)
<1> DEFINE b == st.currencies[ccy]
           b2 == fees_added(b, native, fx)
<1>1. b \in BucketSet /\ BucketOK(b) /\ b.lot_qty \in Rat
  BY BucketFields DEF CashSound, BucketOK
<1>2. b2 \in BucketSet /\ SameCash(b, b2) /\ SameGains(b, b2)
  <2> HIDE DEF b
  <2> QED
    BY <1>1, FeesAdded
<1>3. add_fees(st, ccy, native, fx) = WithBucket(st, ccy, b2)
  BY DEF add_fees, WithBucket
<1> HIDE DEF b2
<1>4. BucketOK(b2)
  BY <1>1, <1>2, SameCashOK
<1>5. b2.lot_qty = b.lot_qty ++ Zero
  BY <1>1, <1>2, AddZero DEF SameCash
<1>6. FxGap(b2) = FxGap(b)
  BY <1>2, SameCashGap DEF GainsApart, SameGains
<1>7. /\ CashKeeps(st, WithBucket(st, ccy, b2)) /\ GapsKept(st, WithBucket(st, ccy, b2))
      /\ MovedBy(st, WithBucket(st, ccy, b2), ccy, Zero)
  BY <1>4, <1>5, <1>6, ZeroType, WithBucketCash
<1> QED
  BY <1>3, <1>7 DEF MovedBy

LEMMA CoverBorrows ==
  ASSUME NEW st, CashSound(st), NEW ccy \in Currency, NEW qty \in Rat, Positive(qty),
         NEW fx \in Rat, NEW borrows, borrows = st.currencies[ccy].borrow_lots
  PROVE  /\ CashKeeps(st, cover_borrows(st, ccy, borrows, qty, fx))
         /\ GapsKept(st, cover_borrows(st, ccy, borrows, qty, fx))
         /\ MovedBy(st, cover_borrows(st, ccy, borrows, qty, fx), ccy,
                    qty -- uncovered(borrows, qty))
         /\ Positive(uncovered(borrows, qty)) =>
              cover_borrows(st, ccy, borrows, qty, fx).currencies[ccy].borrow_lots = <<>>
<1> DEFINE t == Taken(borrows, qty)
           cov == covered(st, borrows, t, fx)
           b == cov.currencies[ccy]
           r == repaid(b, qty)
           u == uncovered(borrows, qty)
<1>1. /\ st \in StateSet /\ borrows \in Seq(BorrowLot) /\ AllPositive(borrows)
      /\ Zero \preceq qty
  BY BucketFields, NotNegative DEF CashSound, BucketOK
<1>2. t \in Seq(Rat) /\ Len(t) = Len(borrows)
  BY <1>1, LotSets, TakenFacts DEF TakenWell
<1>3. CoverKeeps(st, cov)
  <2> HIDE DEF t
  <2> QED
    BY <1>1, <1>2, CoveredKeeps
<1> HIDE DEF cov
<1>4. cov \in StateSet /\ \A c \in Currency : cov.currencies[c] \in BucketSet
  BY <1>3, StateFields DEF CoverKeeps
<1>5. \A c \in Currency :
        /\ BucketOK(cov.currencies[c])
        /\ FxGap(cov.currencies[c]) = FxGap(st.currencies[c])
        /\ cov.currencies[c].lot_qty = st.currencies[c].lot_qty ++ Zero
  <2> TAKE c \in Currency
  <2>1. SameCash(st.currencies[c], cov.currencies[c]) /\ BucketOK(st.currencies[c])
        /\ GainsApart(cov.currencies[c]) = GainsApart(st.currencies[c])
    BY <1>3 DEF CoverKeeps, CashSound
  <2>2. st.currencies[c].lot_qty \in Rat
    BY <2>1, BucketFields DEF BucketOK
  <2>3. BucketOK(cov.currencies[c])
    BY <1>4, <2>1, SameCashOK
  <2>4. FxGap(cov.currencies[c]) = FxGap(st.currencies[c])
    BY <2>1, SameCashGap
  <2> QED
    BY <2>1, <2>2, <2>3, <2>4, AddZero DEF SameCash
<1>6. CashKeeps(st, cov) /\ CashSound(cov) /\ GapsKept(st, cov) /\ MovedBy(st, cov, ccy, Zero)
  BY <1>3, <1>4, <1>5 DEF CashKeeps, CashSound, CoverKeeps, GapsKept, MovedBy
<1>7. BucketOK(b) /\ b.borrow_lots = borrows
  BY <1>3, <1>5 DEF CoverKeeps, SameCash
<1> HIDE DEF b
<1>8. /\ BucketOK(r) /\ r.lot_qty = b.lot_qty ++ (qty -- u)
      /\ Positive(u) => r.borrow_lots = <<>>
  BY <1>7, Repaid
<1>9. FxGap(r) = FxGap(b)
  BY <1>7, RepaidGap
<1>10. u \in Rat /\ qty -- u \in Rat
  BY <1>1, UncoveredIs, AddType
<1> DEFINE s == cover_borrows(st, ccy, borrows, qty, fx)
<1>11. s = WithBucket(cov, ccy, r)
  BY DEF cover_borrows, WithBucket, cov, t, b
<1> HIDE DEF r, u, s
<1>12. /\ CashKeeps(cov, s) /\ GapsKept(cov, s) /\ MovedBy(cov, s, ccy, qty -- u)
  BY <1>6, <1>8, <1>9, <1>10, <1>11, WithBucketCash DEF b
<1>13. s.currencies[ccy] = r
  <2>1. r \in BucketSet
    BY <1>8 DEF BucketOK
  <2> QED
    BY <1>4, <1>11, <2>1, WithBucketType
<1>14. CashKeeps(st, s) /\ GapsKept(st, s)
  BY <1>6, <1>12, CashKeepsTrans, GapsKeptTrans
<1>15. MovedBy(st, s, ccy, qty -- u)
  <2>1. MovedBy(st, s, ccy, Zero ++ (qty -- u))
    BY <1>6, <1>10, <1>12, ZeroType, MovedTrans
  <2> QED
    BY <1>10, <2>1, AddZero
<1> QED
  BY <1>8, <1>13, <1>14, <1>15 DEF s, u

LEMMA AddLotQty ==
  ASSUME NEW b, BucketOK(b), b.borrow_lots = <<>>, NEW rest \in Rat, Positive(rest),
         NEW fx \in Rat, NEW before, before = Greater(Zero, b.lot_qty)
  PROVE  add_lot(b, before, rest, fx).lot_qty = b.lot_qty ++ rest
BY DEF add_lot, BucketOK, BucketSet

\* What a deposit does to the cash of a currency.
LEMMA Deposited ==
  ASSUME NEW st, CashSound(st), NEW ccy \in Currency, NEW qty \in Rat, NEW fx \in Rat
  PROVE  /\ CashKeeps(st, bucket_deposit(st, ccy, qty, fx))
         /\ GapsKept(st, bucket_deposit(st, ccy, qty, fx))
         /\ MovedBy(st, bucket_deposit(st, ccy, qty, fx), ccy, Moved(qty))
<1> DEFINE borrows == st.currencies[ccy].borrow_lots
           u == uncovered(borrows, qty)
           s == cover_borrows(st, ccy, borrows, qty, fx)
           b == s.currencies[ccy]
           before == Greater(Zero, b.lot_qty)
           a == add_lot(b, before, u, fx)
           d == bucket_deposit(st, ccy, qty, fx)
<1>1. CASE ~Positive(qty)
  <2>1. d = st /\ Moved(qty) = Zero
    BY <1>1 DEF bucket_deposit, Moved, Greater, Positive
  <2> HIDE DEF d
  <2>2. CashKeeps(st, d) /\ GapsKept(st, d) /\ MovedBy(st, d, ccy, Moved(qty))
    BY <2>1, CashKeepsSelf
  <2> QED
    BY <2>2 DEF d
<1>2. CASE Positive(qty)
  <2>1. Moved(qty) = qty
    BY <1>2 DEF Moved, Greater, Positive
  <2>2. borrows \in Seq(BorrowLot) /\ AllPositive(borrows)
    BY BucketFields DEF CashSound, BucketOK
  <2>3. /\ CashKeeps(st, s) /\ GapsKept(st, s) /\ MovedBy(st, s, ccy, qty -- u)
        /\ Positive(u) => b.borrow_lots = <<>>
    BY <1>2, CoverBorrows
  <2>4. u \in Rat /\ (~Positive(u) => u = Zero)
    BY <1>2, <2>2, UncoveredIs
  <2>5. d = deposit_rest(s, ccy, u, fx)
    BY <1>2 DEF bucket_deposit
  <2> HIDE DEF u, s, d
  <2>6. CASE ~Positive(u)
    <3>1. d = s
      BY <2>5, <2>6 DEF deposit_rest
    <3>2. qty -- u = qty
      BY <2>4, <2>6, AddZero
    <3> QED
      BY <2>1, <2>3, <3>1, <3>2 DEF d
  <2>7. CASE Positive(u)
    <3>1. d = WithBucket(s, ccy, a)
      BY <2>5, <2>7 DEF deposit_rest, WithBucket
    <3>2. CashSound(s) /\ BucketOK(b)
      BY <2>3 DEF CashKeeps, CashSound
    <3>b. before = Greater(Zero, b.lot_qty)
      OBVIOUS
    <3> HIDE DEF b, before
    <3>3. BucketOK(a) /\ a.lot_qty = b.lot_qty ++ u
      <4>1. BucketOK(add_lot(b, before, u, fx))
        BY <2>3, <2>4, <2>7, <3>2, <3>b, AddLot
      <4>2. add_lot(b, before, u, fx).lot_qty = b.lot_qty ++ u
        BY <2>3, <2>4, <2>7, <3>2, <3>b, AddLotQty
      <4> QED
        BY <4>1, <4>2
    <3>4. FxGap(a) = FxGap(b)
      BY <2>3, <2>4, <2>7, <3>2, <3>b, AddLotGap
    <3> HIDE DEF a
    <3>5. CashKeeps(s, d) /\ GapsKept(s, d) /\ MovedBy(s, d, ccy, u)
      BY <2>4, <3>1, <3>2, <3>3, <3>4, WithBucketCash DEF b
    <3>6. CashKeeps(st, d) /\ GapsKept(st, d)
      BY <2>3, <3>5, CashKeepsTrans, GapsKeptTrans
    <3>7. qty -- u \in Rat /\ (qty -- u) ++ u = qty
      BY <2>4, AddType, AddSub
    <3>8. MovedBy(st, d, ccy, (qty -- u) ++ u)
      BY <2>3, <2>4, <3>5, <3>7, MovedTrans
    <3> QED
      BY <2>1, <3>6, <3>7, <3>8 DEF d
  <2> QED
    BY <2>6, <2>7
<1> QED
  BY <1>1, <1>2

\* Identities of sums and differences.
LEMMA SubFrom ==
  ASSUME NEW a \in Rat, NEW b \in Rat, NEW c \in Rat
  PROVE  /\ (a -- b) -- (a -- c) = c -- b
         /\ (a ++ b) -- (a ++ c) = b -- c
<1>1. PICK d \in Pos, x \in Int, y \in Int, z \in Int :
        a = Reduced(x, d) /\ b = Reduced(y, d) /\ c = Reduced(z, d)
  BY Common3
<1>2. /\ x - y \in Int /\ x - z \in Int /\ x + y \in Int /\ x + z \in Int
      /\ (x - y) - (x - z) = z - y /\ (x + y) - (x + z) = y - z
  OBVIOUS
<1>3. /\ a -- b = Reduced(x - y, d) /\ a -- c = Reduced(x - z, d)
      /\ a ++ b = Reduced(x + y, d) /\ a ++ c = Reduced(x + z, d)
      /\ c -- b = Reduced(z - y, d) /\ b -- c = Reduced(y - z, d)
  BY <1>1, RatioAdd
<1>4. /\ (a -- b) -- (a -- c) = Reduced((x - y) - (x - z), d)
      /\ (a ++ b) -- (a ++ c) = Reduced((x + y) - (x + z), d)
  BY <1>1, <1>2, <1>3, RatioAdd
<1> QED
  BY <1>2, <1>3, <1>4

LEMMA SubSame ==
  ASSUME NEW a \in Rat, NEW b \in Rat, NEW c \in Rat
  PROVE  (a ++ c) -- (b ++ c) = a -- b
<1>1. a ++ c = c ++ a /\ b ++ c = c ++ b
  BY AddComm
<1> QED
  BY <1>1, SubFrom

LEMMA SubSplit ==
  ASSUME NEW a \in Rat, NEW b \in Rat, NEW c \in Rat, NEW e \in Rat
  PROVE  /\ (a -- b) -- (c -- e) = (a -- c) ++ (e -- b)
         /\ (a -- b) -- (c -- e) = (a -- c) -- (b -- e)
         /\ (a ++ b) -- (c ++ e) = (a -- c) ++ (b -- e)
<1>1. PICK d \in Pos, x \in Int, y \in Int, z \in Int, u \in Int :
        /\ a = Reduced(x, d) /\ b = Reduced(y, d)
        /\ c = Reduced(z, d) /\ e = Reduced(u, d)
  <2>1. HaveCommon(a, b, c, e)
    BY Common4
  <2> QED
    BY <2>1 DEF HaveCommon
<1>2. /\ x - y \in Int /\ z - u \in Int /\ x - z \in Int /\ u - y \in Int /\ y - u \in Int
      /\ x + y \in Int /\ z + u \in Int
      /\ (x - y) - (z - u) = (x - z) + (u - y)
      /\ (x - y) - (z - u) = (x - z) - (y - u)
      /\ (x + y) - (z + u) = (x - z) + (y - u)
  OBVIOUS
<1>3. /\ a -- b = Reduced(x - y, d) /\ c -- e = Reduced(z - u, d)
      /\ a -- c = Reduced(x - z, d) /\ e -- b = Reduced(u - y, d)
      /\ b -- e = Reduced(y - u, d)
      /\ a ++ b = Reduced(x + y, d) /\ c ++ e = Reduced(z + u, d)
  BY <1>1, RatioAdd
<1>4. /\ (a -- b) -- (c -- e) = Reduced((x - y) - (z - u), d)
      /\ (a -- c) ++ (e -- b) = Reduced((x - z) + (u - y), d)
      /\ (a -- c) -- (b -- e) = Reduced((x - z) - (y - u), d)
      /\ (a ++ b) -- (c ++ e) = Reduced((x + y) - (z + u), d)
      /\ (a -- c) ++ (b -- e) = Reduced((x - z) + (y - u), d)
  BY <1>1, <1>2, <1>3, RatioAdd
<1> QED
  BY <1>2, <1>4

LEMMA NoneNotRat == None \notin Rat
<1>1. ASSUME NEW r \in Rat PROVE r # None
  <2>1. r \in Int \X (Nat \ {0})
    BY DEF Rat
  <2>2. r = <<r[1], r[2]>>
    BY <2>1
  <2>3. Len(<<r[1], r[2]>>) = 2 /\ Len(<<>>) = 0
    OBVIOUS
  <2> QED
    BY <2>2, <2>3 DEF None
<1> QED
  BY <1>1

(***************************************************************************)
(* A drain                                                                 *)
(***************************************************************************)

LEMMA TakeLotsGap ==
  ASSUME NEW b, BucketOK(b), NEW amount \in Rat, Positive(amount), NEW broker_fx \in Rat,
         NEW drained, drained = Lesser(amount, TotalQty(b.fifo_lots))
  PROVE  FxGap(take_lots(b, amount, broker_fx, drained, BasisTaken(b.fifo_lots, amount)))
           = FxGap(b)
<1> DEFINE basis == BasisTaken(b.fifo_lots, amount)
           t == take_lots(b, amount, broker_fx, drained, basis)
           f == TotalQty(b.fifo_lots)
           v == Value(b.fifo_lots)
           avg == b.avg_fx
           gf == b.gain_fifo
           ga == b.gain_avg
<1>1. /\ b \in BucketSet /\ b.fifo_lots \in Seq(CashLot) /\ b.lot_qty \in Rat /\ avg \in Rat
      /\ gf \in Rat /\ ga \in Rat /\ AllPositive(b.fifo_lots)
      /\ b.lot_qty = f -- TotalQty(b.borrow_lots)
  BY BucketFields DEF BucketOK
<1>2. Zero \preceq amount /\ f \in Rat /\ drained \in Rat /\ v \in Rat
  BY <1>1, NotNegative, BucketTotals, MinMax, ValueIs
<1>3. basis \in Rat /\ Value(Rest(b.fifo_lots, amount)) = v -- basis
  BY <1>1, <1>2, BasisTakenIs
<1>4. TotalQty(Rest(b.fifo_lots, amount)) = f -- drained
  BY <1>1, <1>2, LotSets, RestFacts DEF RestWell
<1>n. broker_fx # None /\ broker_fx \in Rat \cup {None}
  BY NoneNotRat
<1> HIDE DEF basis
<1>5. /\ BucketOK(t)
      /\ t.fifo_lots = Rest(b.fifo_lots, amount)
      /\ t.avg_fx = IF b.lot_qty = drained /\ b.borrow_lots = <<>> THEN Zero ELSE avg
      /\ t.gain_fifo = gf ++ TakenGain(broker_fx, drained, basis)
      /\ t.gain_avg = ga ++ TakenGainAvg(broker_fx, drained, avg)
  <2>1. TakenLots(b, amount, broker_fx, drained, basis, t)
    BY <1>2, <1>3, <1>n, TakeLots
  <2> HIDE DEF t
  <2> QED
    BY <2>1 DEF TakenLots
<1>6. (f -- drained) ** t.avg_fx = (f -- drained) ** avg
  <2>1. CASE b.lot_qty = drained /\ b.borrow_lots = <<>>
    <3>1. b.lot_qty = f
      BY <1>1, <1>2, <2>1, TotalEmpty, AddZero
    <3>2. f -- drained = Zero
      BY <1>2, <2>1, <3>1, AddZero
    <3> QED
      BY <1>1, <1>5, <2>1, <3>2, MulUnit, ZeroType
  <2>2. CASE ~(b.lot_qty = drained /\ b.borrow_lots = <<>>)
    BY <1>5, <2>2
  <2> QED
    BY <2>1, <2>2
<1> DEFINE x == drained ** broker_fx
           y == drained ** avg
           z == f ** avg
<1>7. x \in Rat /\ y \in Rat /\ z \in Rat
  BY <1>1, <1>2, MulType
<1>8. TakenGain(broker_fx, drained, basis) = x -- basis
  BY <1>n DEF TakenGain
<1>9. TakenGainAvg(broker_fx, drained, avg) = x -- y
  <2>1. drained ** (broker_fx -- avg) = x -- y
    BY <1>1, <1>2, MulDist
  <2> QED
    BY <1>n, <2>1 DEF TakenGainAvg
<1>10. (f -- drained) ** avg = z -- y
  BY <1>1, <1>2, MulDist
<1>11. LotsApart(t) = (v -- basis) -- (z -- y)
  BY <1>3, <1>4, <1>5, <1>6, <1>10 DEF LotsApart
<1>12. LotsApart(b) = v -- z
  BY DEF LotsApart
<1>13. GainsApart(t) = (gf ++ (x -- basis)) -- (ga ++ (x -- y)) /\ GainsApart(b) = gf -- ga
  BY <1>5, <1>8, <1>9 DEF GainsApart
<1> HIDE DEF t, f, v, avg, gf, ga, x, y, z
<1>14. (gf ++ (x -- basis)) -- (ga ++ (x -- y)) = (gf -- ga) ++ (y -- basis)
  <2>1. x -- basis \in Rat /\ x -- y \in Rat
    BY <1>3, <1>7, AddType
  <2>2. (gf -- ga) ++ ((x -- basis) -- (x -- y)) = (gf ++ (x -- basis)) -- (ga ++ (x -- y))
    BY <1>1, <2>1, SubSwapped
  <2>3. (x -- basis) -- (x -- y) = y -- basis
    BY <1>3, <1>7, SubFrom
  <2> QED
    BY <2>2, <2>3
<1>15. (v -- basis) -- (z -- y) = (v -- z) ++ (y -- basis)
  BY <1>2, <1>3, <1>7, SubSplit
<1>16. ((gf -- ga) ++ (y -- basis)) -- ((v -- z) ++ (y -- basis)) = (gf -- ga) -- (v -- z)
  <2>1. gf -- ga \in Rat /\ y -- basis \in Rat /\ v -- z \in Rat
    BY <1>1, <1>2, <1>3, <1>7, AddType
  <2> QED
    BY <2>1, SubSame
<1> QED
  BY <1>11, <1>12, <1>13, <1>14, <1>15, <1>16 DEF FxGap, t, basis

LEMMA BorrowRestGap ==
  ASSUME NEW b, BucketOK(b), NEW borrowed \in Rat, Zero \preceq borrowed,
         Positive(borrowed) => b.fifo_lots = <<>>, NEW id \in BorrowId
  PROVE  FxGap(borrow_rest(b, borrowed, id)) = FxGap(b)
<1> DEFINE r == borrow_rest(b, borrowed, id)
<1>1. /\ r.fifo_lots = b.fifo_lots /\ BucketOK(r) /\ SameGains(b, r)
      /\ r.avg_fx = IF Positive(borrowed) THEN Zero ELSE b.avg_fx
  BY BorrowRest
<1> HIDE DEF r
<1>2. TotalQty(b.fifo_lots) ** r.avg_fx = TotalQty(b.fifo_lots) ** b.avg_fx
  <2>1. CASE Positive(borrowed)
    <3>1. r.avg_fx \in Rat /\ b.avg_fx \in Rat
      BY <1>1, BucketFields DEF BucketOK
    <3> QED
      BY <2>1, <3>1, TotalEmpty, MulUnit
  <2>2. CASE ~Positive(borrowed)
    BY <1>1, <2>2
  <2> QED
    BY <2>1, <2>2
<1>3. FxGap(r) = FxGap(b)
  BY <1>1, <1>2 DEF FxGap, LotsApart, GainsApart, SameGains
<1> QED
  BY <1>3 DEF r

\* What a drain is good for.
DrainWell(st, ccy, amount, broker_fx, res) ==
  /\ CashKeeps(st, res.st)
  /\ MovedBy(st, res.st, ccy, Zero -- Moved(amount))
  /\ \A c \in Currency : c # ccy \/ broker_fx # None =>
       FxGap(res.st.currencies[c]) = FxGap(st.currencies[c])
  /\ res.st.pending_borrows = st.pending_borrows
  /\ res.st.buy_fx_basis = st.buy_fx_basis
  /\ res.lot_backed_qty \in Rat /\ Zero \preceq res.lot_backed_qty
  /\ res.lot_backed_basis \in Rat \cup {None}
  /\ res.borrowed_qty \in Rat /\ Zero \preceq res.borrowed_qty
  /\ Positive(res.borrowed_qty) => res.borrow_id \in BorrowId

\* The bucket after a drain.
DrainedBucket(b, amount, broker_fx, drained, basis, borrowed, id) ==
  borrow_rest(take_lots(b, amount, broker_fx, drained, basis), borrowed, id)

DrainIs(b, amount, broker_fx, d) ==
  /\ BucketOK(d)
  /\ d.lot_qty = b.lot_qty ++ (Zero -- amount)
  /\ broker_fx # None => FxGap(d) = FxGap(b)

LEMMA BucketDrained ==
  ASSUME NEW b, BucketOK(b), NEW amount \in Rat, Positive(amount),
         NEW broker_fx \in Rat \cup {None}, NEW id \in BorrowId,
         NEW drained, drained = Lesser(amount, TotalQty(b.fifo_lots)),
         NEW borrowed, borrowed = Greater(Zero, amount -- TotalQty(b.fifo_lots)),
         NEW basis, basis = BasisTaken(b.fifo_lots, amount)
  PROVE  DrainIs(b, amount, broker_fx,
                 DrainedBucket(b, amount, broker_fx, drained, basis, borrowed, id))
<1> DEFINE f == TotalQty(b.fifo_lots)
           t == take_lots(b, amount, broker_fx, drained, basis)
           d == DrainedBucket(b, amount, broker_fx, drained, basis, borrowed, id)
           x == b.lot_qty
<1>1. b.fifo_lots \in Seq(CashLot) /\ AllPositive(b.fifo_lots) /\ x \in Rat
  BY BucketFields DEF BucketOK
<1>2. f \in Rat /\ Zero \preceq f
  BY BucketTotals
<1>3. Zero \preceq amount /\ drained \in Rat /\ amount -- f \in Rat /\ borrowed \in Rat
  BY <1>2, NotNegative, MinMax, AddType, ZeroType
<1>4. Zero \preceq borrowed
  <2>1. borrowed = Zero \/ Positive(borrowed)
    BY <1>3 DEF Greater, Positive
  <2> QED
    BY <1>3, <2>1, NotNegative
<1>5. basis \in Rat
  BY <1>1, <1>3, BasisTakenIs
<1>6. drained ++ borrowed = amount /\ (Positive(borrowed) <=> f \prec amount)
  BY <1>2, SplitAmount
<1>7. TakenLots(b, amount, broker_fx, drained, basis, t)
  BY <1>5, TakeLots
<1>8. Positive(borrowed) => t.fifo_lots = <<>>
  <2> SUFFICES ASSUME Positive(borrowed) PROVE t.fifo_lots = <<>>
    OBVIOUS
  <2>1. f \preceq amount
    BY <1>2, <1>6, OrderFacts
  <2>2. Rest(b.fifo_lots, amount) = <<>>
    BY <1>1, <1>3, <2>1, LotSets, RestFacts DEF RestWell
  <2> QED
    BY <1>7, <2>2 DEF TakenLots
<1>9. d = borrow_rest(t, borrowed, id)
  BY DEF DrainedBucket
<1> HIDE DEF t, d
<1>10. BucketOK(t) /\ t.lot_qty = x -- drained
  BY <1>7 DEF TakenLots
<1>11. BucketOK(d) /\ d.lot_qty = t.lot_qty -- borrowed
  BY <1>3, <1>4, <1>8, <1>9, <1>10, BorrowRest
<1>12. d.lot_qty = x ++ (Zero -- amount)
  <2>1. (x -- drained) -- borrowed = x -- (drained ++ borrowed)
    BY <1>1, <1>3, SubSub
  <2>2. (x ++ Zero) -- amount = x ++ (Zero -- amount)
    BY <1>1, ZeroType, SubSub
  <2> QED
    BY <1>1, <1>6, <1>10, <1>11, <2>1, <2>2, AddZero
<1>13. FxGap(d) = FxGap(t)
  BY <1>3, <1>4, <1>8, <1>9, <1>10, BorrowRestGap
<1>14. broker_fx # None => FxGap(t) = FxGap(b)
  <2> SUFFICES ASSUME broker_fx # None PROVE FxGap(t) = FxGap(b)
    OBVIOUS
  <2>1. broker_fx \in Rat
    OBVIOUS
  <2> QED
    BY <2>1, TakeLotsGap DEF t
<1> QED
  BY <1>11, <1>12, <1>13, <1>14 DEF DrainIs, d, x

LEMMA Drained ==
  ASSUME NEW st, CashSound(st), NEW ccy \in Currency, NEW amount \in Rat,
         NEW broker_fx \in Rat \cup {None}, NEW consumer \in Nat
  PROVE  DrainWell(st, ccy, amount, broker_fx,
                   bucket_drain(st, ccy, amount, broker_fx, consumer))
<1> DEFINE b == st.currencies[ccy]
           id == <<consumer, b.borrow_seq + 1>>
           drained == Lesser(amount, TotalQty(b.fifo_lots))
           basis == BasisTaken(b.fifo_lots, amount)
           borrowed == Greater(Zero, amount -- TotalQty(b.fifo_lots))
           d == DrainedBucket(b, amount, broker_fx, drained, basis, borrowed, id)
           res == bucket_drain(st, ccy, amount, broker_fx, consumer)
<1>1. BucketOK(b) /\ b.borrow_seq \in Nat /\ b.lot_qty \in Rat /\ st \in StateSet
  BY BucketFields DEF CashSound, BucketOK
<1>2. id \in BorrowId
  BY <1>1 DEF BorrowId
<1>3. CASE ~Positive(amount)
  <2>1. /\ res.st = st /\ res.lot_backed_qty = Zero /\ res.lot_backed_basis = None
        /\ res.borrowed_qty = Zero
    BY <1>3 DEF bucket_drain
  <2>2. Zero -- Moved(amount) = Zero
    BY <1>3, ZeroType, AddZero DEF Moved, Greater, Positive
  <2> HIDE DEF res
  <2>3. CashKeeps(st, st) /\ MovedBy(st, st, ccy, Zero)
    BY CashKeepsSelf
  <2>4. Zero \preceq Zero /\ ~Positive(Zero)
    BY ZeroType, NotNegative
  <2> QED
    BY <2>1, <2>2, <2>3, <2>4, ZeroType DEF DrainWell, res
<1>4. CASE Positive(amount)
  <2>1. res = drain_of(st, ccy, amount, broker_fx, drained, basis, borrowed, id)
    BY <1>4 DEF bucket_drain, BasisTaken
  <2> HIDE DEF id
  <2>2. /\ res.st = WithBucket(st, ccy, d)
        /\ res.lot_backed_qty = drained
        /\ res.lot_backed_basis = (IF Positive(drained) THEN basis // drained ELSE None)
        /\ res.borrowed_qty = borrowed
        /\ Positive(borrowed) => res.borrow_id = id
    <3> HIDE DEF drained, basis, borrowed, res
    <3> QED
      BY <2>1 DEF drain_of, WithBucket, DrainedBucket
  <2>3. TotalQty(b.fifo_lots) \in Rat /\ Zero \preceq TotalQty(b.fifo_lots)
        /\ b.fifo_lots \in Seq(CashLot) /\ AllPositive(b.fifo_lots)
    BY <1>1, BucketTotals, BucketFields DEF BucketOK
  <2>4. Zero \preceq amount /\ drained \in Rat /\ borrowed \in Rat /\ basis \in Rat
    BY <2>3, <1>4, NotNegative, MinMax, AddType, ZeroType, BasisTakenIs
  <2>5. Zero \preceq drained /\ Zero \preceq borrowed
    <3>1. Zero \preceq drained
      BY <2>3, <2>4 DEF Lesser
    <3>2. borrowed = Zero \/ Positive(borrowed)
      BY <2>4 DEF Greater, Positive
    <3> QED
      BY <2>4, <3>1, <3>2, NotNegative
  <2>6. DrainIs(b, amount, broker_fx, d)
    <3>1. \A e, g, h : e = drained /\ g = borrowed /\ h = basis =>
            DrainIs(b, amount, broker_fx, DrainedBucket(b, amount, broker_fx, e, h, g, id))
      <4> HIDE DEF b
      <4> QED
        BY <1>1, <1>2, <1>4, BucketDrained
    <3> QED
      BY <3>1
  <2> HIDE DEF drained, basis, borrowed, res, d, b
  <2>7. Moved(amount) = amount /\ Zero -- amount \in Rat
    BY <1>4, ZeroType, AddType DEF Moved, Greater, Positive
  <2>8. /\ CashKeeps(st, res.st) /\ MovedBy(st, res.st, ccy, Zero -- amount)
        /\ FxGap(d) = FxGap(b) => GapsKept(st, res.st)
        /\ \A c \in Currency : c # ccy => FxGap(res.st.currencies[c]) = FxGap(st.currencies[c])
    BY <2>2, <2>6, <2>7, WithBucketCash DEF DrainIs, b
  <2>9. /\ res.st.pending_borrows = st.pending_borrows
        /\ res.st.buy_fx_basis = st.buy_fx_basis
    <3>1. d \in BucketSet
      BY <2>6 DEF DrainIs, BucketOK
    <3> QED
      BY <1>1, <2>2, <3>1, WithBucketType
  <2>10. res.lot_backed_basis \in Rat \cup {None}
    BY <2>2, <2>4, DivMul
  <2>11. \A c \in Currency : c # ccy \/ broker_fx # None =>
           FxGap(res.st.currencies[c]) = FxGap(st.currencies[c])
    BY <2>6, <2>8 DEF GapsKept, DrainIs
  <2> QED
    BY <1>2, <2>2, <2>4, <2>5, <2>7, <2>8, <2>9, <2>10, <2>11 DEF DrainWell, res, id
<1> QED
  BY <1>3, <1>4

LEMMA Signs ==
  ASSUME NEW a \in Rat, NEW b \in Rat, Zero \preceq a, Positive(b)
  PROVE  /\ Zero \preceq (a ** b) /\ Zero \preceq (b ** a) /\ Zero \preceq (a // b)
         /\ Positive(a) => Positive(a ** b) /\ Positive(b ** a)
<1>1. PICK d \in Pos, x \in Int, y \in Int : a = Reduced(x, d) /\ b = Reduced(y, d)
  BY Common2
<1>2. 0 <= x /\ y \in Pos /\ (Positive(a) => 0 < x)
  BY <1>1, RatioPositive DEF Pos
<1>3. a ** b = Reduced(x * y, d * d) /\ b ** a = Reduced(y * x, d * d) /\ d * d \in Pos
  <2>1. d * d \in Pos
    BY <1>1, RatioScale
  <2>2. Reduced(x, d) ** Reduced(y, d) = Reduced(x * y, d * d)
    BY <1>1, RatioMul
  <2>3. Reduced(y, d) ** Reduced(x, d) = Reduced(y * x, d * d)
    BY <1>1, RatioMul
  <2> QED
    BY <1>1, <2>1, <2>2, <2>3
<1>4. a // b = Reduced(x, y)
  BY <1>1, <1>2, RatioDiv
<1>5. x * y \in Int /\ y * x \in Int /\ 0 <= x * y /\ 0 <= y * x
      /\ (0 < x => 0 < x * y /\ 0 < y * x)
  BY <1>1, <1>2 DEF Pos
<1>6. Zero \preceq (a ** b) /\ Zero \preceq (b ** a)
  BY <1>3, <1>5, RatioPositive
<1>7. Zero \preceq (a // b)
  BY <1>1, <1>2, <1>4, RatioPositive
<1>8. Positive(a) => Positive(a ** b) /\ Positive(b ** a)
  BY <1>2, <1>3, <1>5, RatioPositive
<1> QED
  BY <1>6, <1>7, <1>8

LEMMA SignSquare ==
  ASSUME NEW a \in Rat, NEW b \in Rat, Zero \preceq a, Zero \preceq b
  PROVE  Zero \preceq (a ** b)
<1>1. CASE Positive(b)
  BY <1>1, Signs
<1>2. CASE ~Positive(b)
  <2>1. b = Zero
    BY <1>2, NotNegative
  <2> QED
    BY <2>1, MulUnit, ZeroType, NotNegative
<1> QED
  BY <1>1, <1>2

(***************************************************************************)
(* The tracker of a foreign sale's basis                                   *)
(***************************************************************************)

\* Lots of the purchases D.
Tracked(D) == {l \in TrackLot : l.trade_id \in D}

TrackerOK(tracker, D) == tracker \in Seq(Tracked(D)) /\ AllPositive(tracker)

LEMMA TrackedSets ==
  ASSUME NEW D
  PROVE  LotSet(Tracked(D)) /\ Resizable(Tracked(D)) /\ Tracked(D) \subseteq TrackLot
BY DEF LotSet, Resizable, Tracked, TrackLot

LEMMA TrackedMore ==
  ASSUME NEW D, NEW E, D \subseteq E, NEW tracker, TrackerOK(tracker, D)
  PROVE  TrackerOK(tracker, E)
<1>1. Tracked(D) \subseteq Tracked(E)
  BY DEF Tracked
<1>2. Len(tracker) \in Nat /\ tracker \in [1..Len(tracker) -> Tracked(D)]
  BY DEF TrackerOK
<1>3. tracker \in [1..Len(tracker) -> Tracked(E)]
  BY <1>1, <1>2
<1>4. tracker \in Seq(Tracked(E))
  BY <1>2, <1>3
<1> QED
  BY <1>4 DEF TrackerOK

LEMMA TrackerBuy ==
  ASSUME NEW D, NEW tracker, TrackerOK(tracker, D), NEW qty \in Rat, Positive(qty),
         NEW id \in Nat, id \in D
  PROVE  /\ TrackerOK(tracker_buy(tracker, qty, id), D)
         /\ TotalQty(tracker_buy(tracker, qty, id)) = TotalQty(tracker) ++ qty
<1> DEFINE lot == [qty |-> qty, trade_id |-> id]
           t == Append(tracker, lot)
<1>1. lot \in Tracked(D) /\ lot.qty = qty
  BY DEF Tracked, TrackLot
<1>2. tracker_buy(tracker, qty, id) = t
  BY DEF tracker_buy
<1> HIDE DEF lot
<1>3. t \in Seq(Tracked(D)) /\ AllPositive(t)
  BY <1>1 DEF TrackerOK, AllPositive
<1>4. TotalQty(t) = TotalQty(tracker) ++ lot.qty
  BY <1>1, TrackedSets, TotalAppend DEF TrackerOK
<1> QED
  BY <1>1, <1>2, <1>3, <1>4 DEF TrackerOK

\* Lots of which a share is kept.
Shrunk(lots, share) == [i \in DOMAIN lots |-> [lots[i] EXCEPT !.qty = @ ** share]]

LEMMA ShrunkFacts ==
  ASSUME NEW L, LotSet(L), Resizable(L), NEW lots \in Seq(L), AllPositive(lots),
         NEW share \in Rat, Zero \preceq share
  PROVE  /\ Shrunk(lots, share) \in Seq(L)
         /\ Kept(Shrunk(lots, share)) \in Seq(L)
         /\ AllPositive(Kept(Shrunk(lots, share)))
         /\ TotalQty(Kept(Shrunk(lots, share))) = TotalQty(lots) ** share
<1> DEFINE m == Shrunk(lots, share)
           N == Len(lots)
           val == Weighed(L, Ones(L))
<1>1. N \in Nat /\ DOMAIN lots = 1..N
      /\ \A i \in 1..N : lots[i] \in L /\ lots[i].qty \in Rat /\ Positive(lots[i].qty)
  BY DEF LotSet, AllPositive
<1>2. \A i \in 1..N : lots[i].qty ** share \in Rat
  BY <1>1, MulType
<1>3. \A i \in 1..N :
        /\ [lots[i] EXCEPT !.qty = lots[i].qty ** share] \in L
        /\ [lots[i] EXCEPT !.qty = lots[i].qty ** share].qty = lots[i].qty ** share
  BY <1>1, <1>2 DEF Resizable
<1>4. \A i \in 1..N : m[i] = [lots[i] EXCEPT !.qty = lots[i].qty ** share]
  BY <1>1 DEF Shrunk
<1>5. m \in [1..N -> L]
  <2>1. DOMAIN m = 1..N /\ m = [i \in 1..N |-> m[i]]
    BY <1>1 DEF Shrunk
  <2> HIDE DEF m
  <2> QED
    BY <1>3, <1>4, <2>1
<1>6. m \in Seq(L) /\ Len(m) = N
  BY <1>1, <1>5, FunSeq
<1> HIDE DEF m, N, val
<1>7. \A i \in 1..N : m[i].qty = lots[i].qty ** share
  BY <1>3, <1>4
<1>8. \A i \in 1..N : Positive(m[i].qty) \/ m[i].qty = Zero
  <2> TAKE i \in 1..N
  <2>1. lots[i].qty \in Rat /\ Positive(lots[i].qty) /\ lots[i].qty ** share \in Rat
    BY <1>1, <1>2
  <2>2. Zero \preceq (lots[i].qty ** share)
    BY <2>1, Signs
  <2> QED
    BY <1>7, <2>1, <2>2, NotNegative
<1>9. val \in [L -> Rat] /\ \A l \in L : val[l] = l.qty
  <2>1. Ones(L) \in [L -> Rat]
    BY OneRatio DEF Ones
  <2>2. \A l \in L : val[l] = l.qty
    BY MulUnit DEF Weighed, Ones, LotSet, val
  <2> QED
    BY <2>1, <2>2, WeighedType DEF val
<1>10. ValSum(Kept(m), val) = ValSum(m, val)
  <2>1. \A i \in 1..N : m[i] \in L
    BY <1>5
  <2>2. \A i \in 1..Len(m) : Positive(m[i].qty) \/ val[m[i]] = Zero
    BY <1>6, <1>8, <1>9, <2>1
  <2> QED
    BY <1>6, <1>9, <2>2, KeptSum
<1>11. Kept(m) \in Seq(L) /\ AllPositive(Kept(m))
  BY <1>6, KeptFacts
<1>12. TotalQty(Kept(m)) = ValSum(Kept(m), val) /\ TotalQty(m) = ValSum(m, val)
  BY <1>6, <1>11, OnesTotal DEF val
<1>13. TotalQty(m) = TotalQty(lots) ** share
  <2>1. /\ Qtys(lots) \in Seq(Rat) /\ Len(Qtys(lots)) = N
        /\ \A i \in 1..N : Qtys(lots)[i] = lots[i].qty
    BY QtysType DEF N
  <2>2. /\ Qtys(m) \in Seq(Rat) /\ Len(Qtys(m)) = N
        /\ \A i \in 1..N : Qtys(m)[i] = m[i].qty
    BY <1>6, QtysType
  <2>3. \A i \in 1..Len(Qtys(m)) : Qtys(m)[i] = Qtys(lots)[i] ** share
    BY <1>7, <2>1, <2>2
  <2>4. SumOf(Qtys(m)) = SumOf(Qtys(lots)) ** share
    BY <2>1, <2>2, <2>3, SumMul
  <2> QED
    BY <2>4, TotalQtyIs
<1> QED
  BY <1>6, <1>10, <1>11, <1>12, <1>13 DEF m

LEMMA KeptShare ==
  ASSUME NEW total \in Rat, Positive(total), NEW qty \in Rat
  PROVE  /\ kept_share(total, qty) \in Rat
         /\ Zero \preceq kept_share(total, qty)
         /\ total ** kept_share(total, qty) = total -- Lesser(qty, total)
<1> DEFINE left == total -- Lesser(qty, total)
<1>1. left \in Rat
  BY MinMax, AddType
<1>2. Zero \preceq left
  <2>1. left = Greater(Zero, total -- qty)
    BY SplitAmount
  <2>2. total -- qty \in Rat
    BY AddType
  <2>3. left = Zero \/ Positive(left)
    BY <2>1, <2>2 DEF Greater, Positive
  <2> QED
    BY <1>1, <2>3, NotNegative
<1>3. kept_share(total, qty) = left // total
  BY DEF kept_share
<1> HIDE DEF left
<1>4. left // total \in Rat /\ (left // total) ** total = left /\ Zero \preceq (left // total)
  BY <1>1, <1>2, DivMul, Signs
<1>5. total ** (left // total) = (left // total) ** total
  BY <1>4, MulComm
<1> QED
  BY <1>3, <1>4, <1>5 DEF left

LEMMA TrackerSell ==
  ASSUME NEW D, NEW tracker, TrackerOK(tracker, D), NEW qty \in Rat, Positive(qty)
  PROVE  /\ TrackerOK(tracker_sell(tracker, qty), D)
         /\ TotalQty(tracker_sell(tracker, qty))
              = Greater(Zero, TotalQty(tracker) -- qty)
<1> DEFINE total == TotalQty(tracker)
           share == kept_share(total, qty)
<1>1. tracker \in Seq(Tracked(D)) /\ AllPositive(tracker)
  BY DEF TrackerOK
<1>2. total \in Rat /\ Zero \preceq total
  BY <1>1, TrackedSets, QtysType, PositiveTotal
<1>3. total -- Lesser(qty, total) = Greater(Zero, total -- qty)
  BY <1>2, SplitAmount
<1>4. CASE ~Positive(total)
  <2>1. total = Zero /\ tracker_sell(tracker, qty) = tracker
    BY <1>2, <1>4, NotNegative DEF tracker_sell
  <2>2. total \preceq qty
    BY <2>1, NotNegative
  <2>3. total -- Lesser(qty, total) = Zero
    BY <1>2, <2>2, OrderFacts, AddZero
  <2> QED
    BY <1>3, <2>1, <2>3
<1>5. CASE Positive(total)
  <2>1. tracker_sell(tracker, qty) = Kept(Shrunk(tracker, share))
    BY <1>5 DEF tracker_sell, Shrunk
  <2>2. share \in Rat /\ Zero \preceq share /\ total ** share = total -- Lesser(qty, total)
    <3> HIDE DEF total
    <3> QED
      BY <1>2, <1>5, KeptShare
  <2> HIDE DEF share
  <2>3. /\ Kept(Shrunk(tracker, share)) \in Seq(Tracked(D))
        /\ AllPositive(Kept(Shrunk(tracker, share)))
        /\ TotalQty(Kept(Shrunk(tracker, share))) = total ** share
    BY <1>1, <2>2, TrackedSets, ShrunkFacts
  <2> QED
    BY <1>3, <2>1, <2>2, <2>3 DEF TrackerOK
<1> QED
  BY <1>4, <1>5

\* The average of the tracked lots is a number.
LEMMA TrackerFx ==
  ASSUME NEW D, NEW tracker, TrackerOK(tracker, D), NEW basis \in Partial(Nat, Rat),
         NEW fallback \in Rat
  PROVE  tracker_fx(tracker, basis, fallback) \in Rat
<1> DEFINE Fx(id) == IF id \in DOMAIN basis THEN basis[id] ELSE fallback
           total == TotalQty(tracker)
           N == Len(tracker)
           q == [i \in DOMAIN tracker |-> tracker[i].qty ** Fx(tracker[i].trade_id)]
<1>1. N \in Nat /\ DOMAIN tracker = 1..N /\ tracker \in Seq(Tracked(D))
  BY DEF TrackerOK
<1>2. \A i \in 1..N : tracker[i].qty \in Rat
  <2>1. \A i \in 1..N : tracker[i] \in Tracked(D)
    BY <1>1
  <2> QED
    BY <2>1, TrackedSets DEF LotSet
<1>3. total \in Rat
  BY <1>1, TrackedSets, QtysType
<1>4. \A id : Fx(id) \in Rat
  BY PartialType
<1> HIDE DEF Fx
<1>5. q \in [1..N -> Rat]
  BY <1>1, <1>2, <1>4, MulType
<1>6. SumOf(q) \in Rat
  <2> HIDE DEF q, N
  <2>1. N \in Nat
    BY <1>1 DEF N
  <2>2. q \in Seq(Rat)
    BY <1>5, <2>1, FunSeq
  <2> QED
    BY <2>2, SumType
<1>7. tracker_fx(tracker, basis, fallback)
        = IF ~Positive(total) THEN fallback ELSE SumOf(q) // total
  BY DEF tracker_fx, Total, Fx
<1> HIDE DEF total, q
<1> QED
  BY <1>3, <1>6, <1>7, DivMul

(***************************************************************************)
(* The legs of a trade                                                     *)
(***************************************************************************)

\* The state is sound but for the instruments.
TrackersOK(s) ==
  \A i \in Instrument : TrackerOK(s.open_lots_fx_tracker[i], DOMAIN s.buy_fx_basis)

WalletOK(s) == CashSound(s) /\ TrackersOK(s)

\* What a cash leg keeps.
LegKeeps(st, s) ==
  /\ WalletOK(s)
  /\ s.instruments = st.instruments
  /\ DOMAIN st.buy_fx_basis \subseteq DOMAIN s.buy_fx_basis

SameTrackers(st, s) == s.open_lots_fx_tracker = st.open_lots_fx_tracker

LEMMA CashLeg ==
  ASSUME NEW st, WalletOK(st), NEW s, CashKeeps(st, s)
  PROVE  LegKeeps(st, s) /\ SameTrackers(st, s)
<1>1. /\ CashSound(s) /\ s.instruments = st.instruments
      /\ s.open_lots_fx_tracker = st.open_lots_fx_tracker
      /\ DOMAIN st.buy_fx_basis \subseteq DOMAIN s.buy_fx_basis
  BY DEF CashKeeps, SameEquity
<1>2. TrackersOK(s)
  <2> SUFFICES ASSUME NEW i \in Instrument
               PROVE  TrackerOK(s.open_lots_fx_tracker[i], DOMAIN s.buy_fx_basis)
    BY DEF TrackersOK
  <2>1. TrackerOK(st.open_lots_fx_tracker[i], DOMAIN st.buy_fx_basis)
    BY DEF WalletOK, TrackersOK
  <2> QED
    BY <1>1, <2>1, TrackedMore
<1> QED
  BY <1>1, <1>2 DEF LegKeeps, WalletOK, SameTrackers

LEMMA LegTrans ==
  ASSUME NEW st, NEW s, NEW u, LegKeeps(st, s), LegKeeps(s, u)
  PROVE  LegKeeps(st, u)
BY DEF LegKeeps

WithTracker(st, i, tracker) == [st EXCEPT !.open_lots_fx_tracker[i] = tracker]

\* An assignment to a tracker.
LEMMA WithTrackerLeg ==
  ASSUME NEW st, WalletOK(st), NEW i \in Instrument, NEW tracker,
         TrackerOK(tracker, DOMAIN st.buy_fx_basis)
  PROVE  /\ LegKeeps(st, WithTracker(st, i, tracker))
         /\ WithTracker(st, i, tracker).currencies = st.currencies
         /\ WithTracker(st, i, tracker).pending_borrows = st.pending_borrows
         /\ WithTracker(st, i, tracker).buy_fx_basis = st.buy_fx_basis
         /\ WithTracker(st, i, tracker).foreign_sell_fx_basis = st.foreign_sell_fx_basis
         /\ WithTracker(st, i, tracker).open_lots_fx_tracker
              = [st.open_lots_fx_tracker EXCEPT ![i] = tracker]
<1> DEFINE D == DOMAIN st.buy_fx_basis
           t == [st.open_lots_fx_tracker EXCEPT ![i] = tracker]
           s == WithTracker(st, i, tracker)
<1>1. st \in StateSet /\ st.open_lots_fx_tracker \in [Instrument -> Seq(TrackLot)]
  BY StateFields DEF WalletOK, CashSound
<1>2. tracker \in Seq(TrackLot)
  <2>1. Len(tracker) \in Nat /\ tracker \in [1..Len(tracker) -> Tracked(D)]
    BY DEF TrackerOK
  <2>2. tracker \in [1..Len(tracker) -> TrackLot]
    BY <2>1, TrackedSets
  <2> QED
    BY <2>1, <2>2
<1>3. t \in [Instrument -> Seq(TrackLot)] /\ t[i] = tracker
      /\ \A j \in Instrument : j # i => t[j] = st.open_lots_fx_tracker[j]
  BY <1>1, <1>2
<1>4. s = [st EXCEPT !.open_lots_fx_tracker = t]
  BY DEF WithTracker
<1> HIDE DEF t, s
<1>5. s \in StateSet
  BY <1>1, <1>3, <1>4 DEF StateSet
<1>6. /\ s.currencies = st.currencies /\ s.pending_borrows = st.pending_borrows
      /\ s.buy_fx_basis = st.buy_fx_basis
      /\ s.foreign_sell_fx_basis = st.foreign_sell_fx_basis
      /\ s.instruments = st.instruments /\ s.open_lots_fx_tracker = t
  BY <1>1, <1>4 DEF StateSet
<1>7. TrackersOK(s)
  <2> SUFFICES ASSUME NEW j \in Instrument
               PROVE  TrackerOK(s.open_lots_fx_tracker[j], DOMAIN s.buy_fx_basis)
    BY DEF TrackersOK
  <2>1. CASE j = i
    BY <1>3, <1>6, <2>1
  <2>2. CASE j # i
    BY <1>3, <1>6, <2>2 DEF WalletOK, TrackersOK
  <2> QED
    BY <2>1, <2>2
<1>8. CashSound(s)
  BY <1>5, <1>6 DEF WalletOK, CashSound
<1> QED
  BY <1>6, <1>7, <1>8 DEF LegKeeps, WalletOK, s, t

\* An FX basis is noted.
LEMMA WithBasisLeg ==
  ASSUME NEW st, WalletOK(st), NEW n \in Nat, NEW fx \in Rat
  PROVE  /\ LegKeeps(st, WithBasis(st, n, fx)) /\ SameTrackers(st, WithBasis(st, n, fx))
         /\ WithBasis(st, n, fx).currencies = st.currencies
         /\ WithBasis(st, n, fx).pending_borrows = st.pending_borrows
         /\ WithBasis(st, n, fx).foreign_sell_fx_basis = st.foreign_sell_fx_basis
         /\ n \in DOMAIN WithBasis(st, n, fx).buy_fx_basis
<1> DEFINE s == WithBasis(st, n, fx)
<1>1. st \in StateSet /\ CashSound(st)
  BY DEF WalletOK, CashSound
<1>2. /\ s \in StateSet /\ s.currencies = st.currencies
      /\ s.pending_borrows = st.pending_borrows
      /\ s.buy_fx_basis = Put(st.buy_fx_basis, n, fx) /\ SameEquity(st, s)
  BY <1>1, WithBasisType
<1> HIDE DEF s
<1>3. DOMAIN s.buy_fx_basis = DOMAIN st.buy_fx_basis \cup {n}
  BY <1>2 DEF Put
<1>4. CashKeeps(st, s)
  BY <1>1, <1>2, <1>3 DEF CashKeeps, CashSound
<1>5. LegKeeps(st, s) /\ SameTrackers(st, s)
  BY <1>4, CashLeg
<1> QED
  BY <1>2, <1>3, <1>5 DEF SameEquity, s

WithSaleBasis(st, n, fx) ==
  [st EXCEPT !.foreign_sell_fx_basis = Put(@, n, fx)]

LEMMA WithSaleBasisLeg ==
  ASSUME NEW st, WalletOK(st), NEW n \in Nat, NEW fx \in Rat
  PROVE  /\ LegKeeps(st, WithSaleBasis(st, n, fx))
         /\ SameTrackers(st, WithSaleBasis(st, n, fx))
         /\ WithSaleBasis(st, n, fx).currencies = st.currencies
         /\ WithSaleBasis(st, n, fx).pending_borrows = st.pending_borrows
         /\ WithSaleBasis(st, n, fx).buy_fx_basis = st.buy_fx_basis
         /\ WithSaleBasis(st, n, fx).foreign_sell_fx_basis
              = Put(st.foreign_sell_fx_basis, n, fx)
         /\ WithSaleBasis(st, n, fx).foreign_sell_fx_basis[n] = fx
<1> DEFINE p == Put(st.foreign_sell_fx_basis, n, fx)
           s == WithSaleBasis(st, n, fx)
<1>1. st \in StateSet /\ CashSound(st) /\ st.foreign_sell_fx_basis \in Partial(Nat, Rat)
  BY StateFields DEF WalletOK, CashSound
<1>2. p \in Partial(Nat, Rat) /\ p[n] = fx
  <2>1. Put(st.foreign_sell_fx_basis, n, fx) \in Partial(Nat, Rat)
    BY <1>1, PutType
  <2> QED
    BY <2>1 DEF Put
<1>3. s = [st EXCEPT !.foreign_sell_fx_basis = p]
  BY DEF WithSaleBasis
<1> HIDE DEF p, s
<1>4. s \in StateSet
  BY <1>1, <1>2, <1>3 DEF StateSet
<1>5. /\ s.currencies = st.currencies /\ s.pending_borrows = st.pending_borrows
      /\ s.buy_fx_basis = st.buy_fx_basis /\ s.foreign_sell_fx_basis = p
      /\ s.instruments = st.instruments /\ SameTrackers(st, s)
  BY <1>1, <1>3 DEF StateSet, SameTrackers
<1>6. LegKeeps(st, s)
  BY <1>1, <1>4, <1>5 DEF LegKeeps, WalletOK, CashSound, TrackersOK, SameTrackers
<1> QED
  BY <1>2, <1>5, <1>6 DEF s, p

\* A trade the fold may see.
TradeOK(ev) ==
  /\ ev.iid \in Instrument /\ ev.ccy \in Currency /\ ev.side \in {"buy", "sell"}
  /\ ev.qty \in Rat /\ ev.price \in Rat /\ ev.fees \in Rat
  /\ ev.rate = None \/ ev.rate \in Rat
  /\ Positive(ev.qty)

LEMMA TrackBuy ==
  ASSUME NEW st, WalletOK(st), NEW ev, TradeOK(ev), NEW basis \in Rat, sid \in Nat
  PROVE  /\ LegKeeps(st, track_buy(st, ev, basis))
         /\ track_buy(st, ev, basis).currencies = st.currencies
         /\ track_buy(st, ev, basis).pending_borrows = st.pending_borrows
         /\ track_buy(st, ev, basis).open_lots_fx_tracker
              = [st.open_lots_fx_tracker EXCEPT ![ev.iid] = tracker_buy(@, ev.qty, sid)]
         /\ sid \in DOMAIN track_buy(st, ev, basis).buy_fx_basis
<1> DEFINE i == ev.iid
           s == WithBasis(st, sid, basis)
           t == tracker_buy(st.open_lots_fx_tracker[i], ev.qty, sid)
           u == WithTracker(s, i, t)
<1>1. i \in Instrument /\ ev.qty \in Rat /\ Positive(ev.qty) /\ st \in StateSet
  BY DEF TradeOK, WalletOK, CashSound
<1>2. track_buy(st, ev, basis) = u
  <2>1. t = tracker_buy(s.open_lots_fx_tracker[i], ev.qty, sid)
    BY <1>1 DEF StateSet, WithBasis
  <2>2. [st EXCEPT !.buy_fx_basis = Put(@, sid, basis), !.open_lots_fx_tracker[i] = t]
          = [[st EXCEPT !.buy_fx_basis = Put(@, sid, basis)] EXCEPT
               !.open_lots_fx_tracker[i] = t]
    <3> HIDE DEF t, i
    <3> QED
      BY <1>1 DEF StateSet
  <2> QED
    BY <2>2 DEF track_buy, WithTracker, WithBasis
<1>3. /\ LegKeeps(st, s) /\ SameTrackers(st, s) /\ s.currencies = st.currencies
      /\ s.pending_borrows = st.pending_borrows /\ sid \in DOMAIN s.buy_fx_basis
  BY WithBasisLeg
<1>4. WalletOK(s)
  BY <1>3 DEF LegKeeps
<1> HIDE DEF s
<1>5. TrackerOK(t, DOMAIN s.buy_fx_basis)
  <2>1. TrackerOK(st.open_lots_fx_tracker[i], DOMAIN s.buy_fx_basis)
    BY <1>1, <1>3, <1>4 DEF WalletOK, TrackersOK, SameTrackers
  <2> QED
    BY <1>1, <1>3, <2>1, TrackerBuy
<1> HIDE DEF t, u, i
<1>6. /\ LegKeeps(s, u) /\ u.currencies = s.currencies
      /\ u.pending_borrows = s.pending_borrows /\ u.buy_fx_basis = s.buy_fx_basis
      /\ u.open_lots_fx_tracker = [s.open_lots_fx_tracker EXCEPT ![i] = t]
  BY <1>1, <1>4, <1>5, WithTrackerLeg DEF u
<1>7. LegKeeps(st, u)
  BY <1>3, <1>6, LegTrans
<1>8. u.open_lots_fx_tracker
        = [st.open_lots_fx_tracker EXCEPT ![i] = tracker_buy(@, ev.qty, sid)]
  BY <1>3, <1>6 DEF SameTrackers, t
<1> QED
  BY <1>2, <1>3, <1>6, <1>7, <1>8 DEF i

LEMMA TrackSell ==
  ASSUME NEW st, WalletOK(st), NEW ev, TradeOK(ev), NEW fallback \in Rat, sid \in Nat
  PROVE  /\ LegKeeps(st, track_sell(st, ev, fallback))
         /\ track_sell(st, ev, fallback).currencies = st.currencies
         /\ track_sell(st, ev, fallback).pending_borrows = st.pending_borrows
         /\ track_sell(st, ev, fallback).open_lots_fx_tracker
              = [st.open_lots_fx_tracker EXCEPT ![ev.iid] = tracker_sell(@, ev.qty)]
         /\ track_sell(st, ev, fallback).foreign_sell_fx_basis[sid] \in Rat
         /\ sid \in DOMAIN track_sell(st, ev, fallback).foreign_sell_fx_basis
<1> DEFINE i == ev.iid
           fx == tracker_fx(st.open_lots_fx_tracker[i], st.buy_fx_basis, fallback)
           s == WithSaleBasis(st, sid, fx)
           t == tracker_sell(st.open_lots_fx_tracker[i], ev.qty)
           u == WithTracker(s, i, t)
<1>1. i \in Instrument /\ ev.qty \in Rat /\ Positive(ev.qty) /\ st \in StateSet
  BY DEF TradeOK, WalletOK, CashSound
<1>2. track_sell(st, ev, fallback) = u
  <2>1. [st EXCEPT !.foreign_sell_fx_basis = Put(@, sid, fx), !.open_lots_fx_tracker[i] = t]
          = [[st EXCEPT !.foreign_sell_fx_basis = Put(@, sid, fx)] EXCEPT
               !.open_lots_fx_tracker[i] = t]
    <3> HIDE DEF t, i, fx
    <3> QED
      BY <1>1 DEF StateSet
  <2> QED
    BY <2>1 DEF track_sell, WithTracker, WithSaleBasis
<1>3. fx \in Rat
  <2>1. TrackerOK(st.open_lots_fx_tracker[i], DOMAIN st.buy_fx_basis)
    BY <1>1 DEF WalletOK, TrackersOK
  <2> QED
    BY <1>1, <2>1, StateFields, TrackerFx
<1> HIDE DEF fx
<1>4. /\ LegKeeps(st, s) /\ SameTrackers(st, s) /\ s.currencies = st.currencies
      /\ s.pending_borrows = st.pending_borrows /\ s.buy_fx_basis = st.buy_fx_basis
      /\ s.foreign_sell_fx_basis = Put(st.foreign_sell_fx_basis, sid, fx)
      /\ s.foreign_sell_fx_basis[sid] = fx
  BY <1>3, WithSaleBasisLeg
<1>5. WalletOK(s)
  BY <1>4 DEF LegKeeps
<1> HIDE DEF s
<1>6. TrackerOK(t, DOMAIN s.buy_fx_basis)
  <2>1. TrackerOK(st.open_lots_fx_tracker[i], DOMAIN s.buy_fx_basis)
    BY <1>1, <1>4 DEF WalletOK, TrackersOK
  <2> QED
    BY <1>1, <2>1, TrackerSell
<1> HIDE DEF t, u, i
<1>7. /\ LegKeeps(s, u) /\ u.currencies = s.currencies
      /\ u.pending_borrows = s.pending_borrows
      /\ u.foreign_sell_fx_basis = s.foreign_sell_fx_basis
      /\ u.open_lots_fx_tracker = [s.open_lots_fx_tracker EXCEPT ![i] = t]
  BY <1>1, <1>5, <1>6, WithTrackerLeg DEF u
<1>8. LegKeeps(st, u)
  BY <1>4, <1>7, LegTrans
<1>9. u.open_lots_fx_tracker
        = [st.open_lots_fx_tracker EXCEPT ![i] = tracker_sell(@, ev.qty)]
  BY <1>4, <1>7 DEF SameTrackers, t
<1>10. sid \in DOMAIN u.foreign_sell_fx_basis
  BY <1>4, <1>7 DEF Put
<1> QED
  BY <1>2, <1>3, <1>4, <1>7, <1>8, <1>9, <1>10 DEF i

\* The entry of a loan that is taken.
NewPending(res, kind, ccy, consumer, fee, broker_fx) ==
  [consumer |-> consumer, consumer_kind |-> kind, from_ccy |-> ccy,
   borrowed_qty |-> res.borrowed_qty,
   lot_backed_qty |-> res.lot_backed_qty,
   lot_backed_basis |-> res.lot_backed_basis,
   weighted |-> Zero, covered_qty |-> Zero, finalized |-> FALSE,
   fee_native |-> fee, from_broker_fx |-> broker_fx]

\* The result of a drain, but for its state.
ResultOK(res) ==
  /\ res.lot_backed_qty \in Rat /\ Zero \preceq res.lot_backed_qty
  /\ res.lot_backed_basis \in Rat \cup {None}
  /\ res.borrowed_qty \in Rat /\ Zero \preceq res.borrowed_qty
  /\ Positive(res.borrowed_qty) => res.borrow_id \in BorrowId

LEMMA Registered ==
  ASSUME NEW st, CashSound(st), NEW res, ResultOK(res), NEW kind \in {"buy", "convert"},
         NEW ccy \in Currency, NEW consumer \in Nat, NEW fee \in Rat, NEW broker_fx \in Rat
  PROVE  /\ CashKeeps(st, register_borrow(st, res, kind, ccy, consumer, fee, broker_fx))
         /\ register_borrow(st, res, kind, ccy, consumer, fee, broker_fx).currencies
              = st.currencies
         /\ register_borrow(st, res, kind, ccy, consumer, fee, broker_fx).buy_fx_basis
              = st.buy_fx_basis
<1> DEFINE s == register_borrow(st, res, kind, ccy, consumer, fee, broker_fx)
           pb == NewPending(res, kind, ccy, consumer, fee, broker_fx)
           p == Put(st.pending_borrows, res.borrow_id, pb)
<1>1. st \in StateSet /\ st.pending_borrows \in Partial(BorrowId, PendingSet)
  BY StateFields DEF CashSound
<1>2. CASE ~Positive(res.borrowed_qty)
  <2>1. s = st
    BY <1>2 DEF register_borrow
  <2> QED
    BY <2>1, CashKeepsSelf
<1>3. CASE Positive(res.borrowed_qty)
  <2>1. pb \in PendingSet
    <3>1. pb \in PendingRecord
      BY ZeroType, Zenon DEF NewPending, PendingRecord, ResultOK
    <3>2. pb.borrowed_qty = res.borrowed_qty /\ pb.lot_backed_qty = res.lot_backed_qty
      BY DEF NewPending
    <3> QED
      BY <1>3, <3>1, <3>2 DEF PendingSet, ResultOK
  <2>2. p \in Partial(BorrowId, PendingSet)
    <3>1. res.borrow_id \in BorrowId
      BY <1>3 DEF ResultOK
    <3> HIDE DEF pb
    <3> QED
      BY <1>1, <2>1, <3>1, PutType
  <2>3. s = [st EXCEPT !.pending_borrows = p]
    BY <1>3 DEF register_borrow, NewPending
  <2> HIDE DEF p, s
  <2>4. s \in StateSet
    BY <1>1, <2>2, <2>3 DEF StateSet
  <2>5. s.currencies = st.currencies /\ s.buy_fx_basis = st.buy_fx_basis /\ SameEquity(st, s)
    BY <1>1, <2>3 DEF StateSet, SameEquity
  <2>6. CashKeeps(st, s)
    BY <2>4, <2>5 DEF CashKeeps, CashSound
  <2> QED
    BY <2>5, <2>6 DEF s
<1> QED
  BY <1>2, <1>3

\* Moves of cash do not see what else changed.
LEMMA MovedSame ==
  ASSUME NEW st, NEW s, NEW u, NEW ccy, NEW qty
  PROVE  /\ s.currencies = st.currencies => (MovedBy(st, u, ccy, qty) <=> MovedBy(s, u, ccy, qty))
         /\ u.currencies = s.currencies => (MovedBy(st, s, ccy, qty) <=> MovedBy(st, u, ccy, qty))
BY DEF MovedBy

LEMMA MovedZero ==
  ASSUME NEW st, NEW s, NEW u, CashSound(st), NEW ccy, NEW qty \in Rat
  PROVE  /\ MovedBy(st, s, ccy, qty) /\ MovedBy(s, u, ccy, Zero) => MovedBy(st, u, ccy, qty)
         /\ MovedBy(st, s, ccy, Zero) /\ MovedBy(s, u, ccy, qty) => MovedBy(st, u, ccy, qty)
<1>1. qty ++ Zero = qty /\ Zero ++ qty = qty
  BY AddZero
<1>2. MovedBy(st, s, ccy, qty) /\ MovedBy(s, u, ccy, Zero) => MovedBy(st, u, ccy, qty ++ Zero)
  BY ZeroType, MovedTrans
<1>3. MovedBy(st, s, ccy, Zero) /\ MovedBy(s, u, ccy, qty) => MovedBy(st, u, ccy, Zero ++ qty)
  BY ZeroType, MovedTrans
<1> QED
  BY <1>1, <1>2, <1>3

\* The gaps of the currencies cs are what they were.
GapsIn(st, s, cs) == \A c \in cs : FxGap(s.currencies[c]) = FxGap(st.currencies[c])

\* The tracker that an instrument has after a leg.
TrackersAre(st, s, i, tracker) ==
  s.open_lots_fx_tracker = [st.open_lots_fx_tracker EXCEPT ![i] = tracker]

LegCcy(ev) == IF settled_in_base(ev) THEN Base ELSE ev.ccy
Rated(ev, amount) == IF settled_in_base(ev) THEN amount ** ev.rate ELSE amount
Pay(ev) == Rated(ev, Gross(ev) ++ ev.fees)
Proceeds(ev) == Rated(ev, Gross(ev) -- ev.fees)

\* What the cash leg of a purchase and of a sale does.
BuyLeg(st, s, ev) ==
  /\ LegKeeps(st, s)
  /\ MovedBy(st, s, LegCcy(ev), Zero -- Moved(Pay(ev)))
  /\ GapsIn(st, s, Currency \ {LegCcy(ev)})
  /\ IF ev.ccy = Base THEN SameTrackers(st, s)
     ELSE TrackersAre(st, s, ev.iid,
                      tracker_buy(st.open_lots_fx_tracker[ev.iid], ev.qty, sid))

SellLeg(st, s, ev) ==
  /\ LegKeeps(st, s)
  /\ MovedBy(st, s, LegCcy(ev), Moved(Proceeds(ev)))
  /\ GapsIn(st, s, Currency)
  /\ IF ev.ccy = Base THEN SameTrackers(st, s)
     ELSE TrackersAre(st, s, ev.iid,
                      tracker_sell(st.open_lots_fx_tracker[ev.iid], ev.qty))

LEMMA TradeAmounts ==
  ASSUME NEW ev, TradeOK(ev)
  PROVE  /\ Gross(ev) \in Rat /\ Gross(ev) ++ ev.fees \in Rat /\ Gross(ev) -- ev.fees \in Rat
         /\ Pay(ev) \in Rat /\ Proceeds(ev) \in Rat
         /\ settled_in_base(ev) => ev.rate \in Rat
<1>1. ev.qty \in Rat /\ ev.price \in Rat /\ ev.fees \in Rat /\ (ev.rate = None \/ ev.rate \in Rat)
  BY DEF TradeOK
<1>2. Gross(ev) \in Rat
  BY <1>1, MulType DEF Gross
<1>3. Gross(ev) ++ ev.fees \in Rat /\ Gross(ev) -- ev.fees \in Rat
  BY <1>1, <1>2, AddType
<1>4. settled_in_base(ev) => ev.rate \in Rat
  BY <1>1 DEF settled_in_base
<1> QED
  BY <1>2, <1>3, <1>4, MulType DEF Pay, Proceeds, Rated

LEMMA MovedType ==
  ASSUME NEW a \in Rat
  PROVE  Moved(a) \in Rat /\ Zero -- Moved(a) \in Rat
<1>1. Moved(a) \in Rat
  BY ZeroType, MinMax DEF Moved
<1> QED
  BY <1>1, ZeroType, AddType

\* A leg of which the cash moved first and the rest follows.
LEMMA BuyLegThen ==
  ASSUME NEW st, WalletOK(st), NEW s, NEW u, NEW ev, TradeOK(ev),
         BuyLeg(st, s, ev), CashKeeps(s, u), GapsKept(s, u), MovedBy(s, u, LegCcy(ev), Zero)
  PROVE  BuyLeg(st, u, ev)
<1>1. LegKeeps(s, u) /\ SameTrackers(s, u)
  BY CashLeg DEF BuyLeg, LegKeeps
<1>2. LegKeeps(st, u)
  BY <1>1, LegTrans DEF BuyLeg
<1>3. MovedBy(st, u, LegCcy(ev), Zero -- Moved(Pay(ev)))
  <2>1. Zero -- Moved(Pay(ev)) \in Rat
    BY TradeAmounts, MovedType
  <2> QED
    BY <2>1, MovedZero DEF BuyLeg, WalletOK
<1>4. GapsIn(st, u, Currency \ {LegCcy(ev)})
  BY DEF GapsIn, GapsKept, BuyLeg
<1> QED
  BY <1>1, <1>2, <1>3, <1>4 DEF BuyLeg, SameTrackers, TrackersAre

LEMMA SellLegThen ==
  ASSUME NEW st, WalletOK(st), NEW s, NEW u, NEW ev, TradeOK(ev),
         SellLeg(st, s, ev), CashKeeps(s, u), GapsKept(s, u), MovedBy(s, u, LegCcy(ev), Zero)
  PROVE  SellLeg(st, u, ev)
<1>1. LegKeeps(s, u) /\ SameTrackers(s, u)
  BY CashLeg DEF SellLeg, LegKeeps
<1>2. LegKeeps(st, u)
  BY <1>1, LegTrans DEF SellLeg
<1>3. MovedBy(st, u, LegCcy(ev), Moved(Proceeds(ev)))
  <2>1. Moved(Proceeds(ev)) \in Rat
    BY TradeAmounts, MovedType
  <2> QED
    BY <2>1, MovedZero DEF SellLeg, WalletOK
<1>4. GapsIn(st, u, Currency)
  BY DEF GapsIn, GapsKept, SellLeg
<1> QED
  BY <1>1, <1>2, <1>3, <1>4 DEF SellLeg, SameTrackers, TrackersAre

\* Tracking after the cash.
LEMMA TrackedBuy ==
  ASSUME NEW st, WalletOK(st), NEW s, NEW ev, TradeOK(ev), NEW basis \in Rat, sid \in Nat,
         CashKeeps(st, s), MovedBy(st, s, LegCcy(ev), Zero -- Moved(Pay(ev))),
         GapsIn(st, s, Currency \ {LegCcy(ev)}), ev.ccy # Base
  PROVE  BuyLeg(st, track_buy(s, ev, basis), ev)
<1> DEFINE u == track_buy(s, ev, basis)
<1>1. LegKeeps(st, s) /\ SameTrackers(st, s) /\ WalletOK(s)
  BY CashLeg DEF LegKeeps
<1>2. /\ LegKeeps(s, u) /\ u.currencies = s.currencies
      /\ u.open_lots_fx_tracker
           = [s.open_lots_fx_tracker EXCEPT ![ev.iid] = tracker_buy(@, ev.qty, sid)]
  BY <1>1, TrackBuy
<1> HIDE DEF u
<1>3. LegKeeps(st, u)
  BY <1>1, <1>2, LegTrans
<1>4. MovedBy(st, u, LegCcy(ev), Zero -- Moved(Pay(ev)))
  BY <1>2, MovedSame
<1>5. GapsIn(st, u, Currency \ {LegCcy(ev)})
  BY <1>2 DEF GapsIn
<1>6. TrackersAre(st, u, ev.iid, tracker_buy(st.open_lots_fx_tracker[ev.iid], ev.qty, sid))
  BY <1>1, <1>2 DEF TrackersAre, SameTrackers
<1> QED
  BY <1>3, <1>4, <1>5, <1>6 DEF BuyLeg, u

LEMMA BuyInCurrency ==
  ASSUME NEW st, WalletOK(st), NEW ev, TradeOK(ev), sid \in Nat, ~settled_in_base(ev)
  PROVE  BuyLeg(st, buy_in_currency(st, ev), ev)
<1> DEFINE amount == Gross(ev) ++ ev.fees
           res == bucket_drain(st, ev.ccy, amount, None, sid)
           prov == IF res.lot_backed_basis = None THEN One ELSE res.lot_backed_basis
           reg == register_borrow(res.st, res, "buy", ev.ccy, sid, ev.fees, One)
           tracked == track_buy(reg, ev, prov)
           s == buy_in_currency(st, ev)
<1>1. /\ ev.ccy \in Currency /\ ev.fees \in Rat /\ amount \in Rat
      /\ LegCcy(ev) = ev.ccy /\ Pay(ev) = amount
  BY TradeAmounts DEF TradeOK, LegCcy, Pay, Rated
<1> HIDE DEF amount
<1>2. DrainWell(st, ev.ccy, amount, None, res)
  BY <1>1, Drained DEF WalletOK
<1>3. s = IF ev.ccy = Base THEN add_fees(res.st, Base, ev.fees, One)
          ELSE IF Positive(res.borrowed_qty) THEN tracked
          ELSE add_fees(tracked, ev.ccy, ev.fees, prov)
  BY DEF buy_in_currency, bought_with, amount
<1> HIDE DEF res, s
<1>4. /\ CashKeeps(st, res.st) /\ CashSound(res.st) /\ ResultOK(res)
      /\ MovedBy(st, res.st, LegCcy(ev), Zero -- Moved(Pay(ev)))
      /\ GapsIn(st, res.st, Currency \ {LegCcy(ev)})
  BY <1>1, <1>2 DEF DrainWell, CashKeeps, ResultOK, GapsIn
<1>5. prov \in Rat
  BY <1>4, OneRatio DEF ResultOK
<1> HIDE DEF prov
<1>6. CASE ev.ccy = Base
  <2>1. s = add_fees(res.st, Base, ev.fees, One)
    BY <1>3, <1>6
  <2>2. BuyLeg(st, res.st, ev)
    BY <1>4, <1>6, CashLeg DEF BuyLeg
  <2>3. CashKeeps(res.st, s) /\ GapsKept(res.st, s) /\ MovedBy(res.st, s, LegCcy(ev), Zero)
    BY <1>1, <1>4, <2>1, OneRatio, BaseAssumption, AddFees
  <2> QED
    BY <2>2, <2>3, BuyLegThen DEF s
<1>7. CASE ev.ccy # Base
  <2>1. /\ CashKeeps(res.st, reg) /\ reg.currencies = res.st.currencies
    BY <1>1, <1>4, OneRatio, Registered
  <2> HIDE DEF reg
  <2>2. CashKeeps(st, reg)
    BY <1>4, <2>1, CashKeepsTrans
  <2>3. MovedBy(st, reg, LegCcy(ev), Zero -- Moved(Pay(ev)))
    BY <1>4, <2>1, MovedSame
  <2>4. GapsIn(st, reg, Currency \ {LegCcy(ev)})
    BY <1>4, <2>1 DEF GapsIn
  <2>5. BuyLeg(st, tracked, ev)
    BY <1>5, <1>7, <2>2, <2>3, <2>4, TrackedBuy
  <2> HIDE DEF tracked
  <2>6. CASE Positive(res.borrowed_qty)
    BY <1>3, <1>7, <2>5, <2>6 DEF s
  <2>7. CASE ~Positive(res.borrowed_qty)
    <3>1. s = add_fees(tracked, ev.ccy, ev.fees, prov)
      BY <1>3, <1>7, <2>7
    <3>2. CashSound(tracked)
      BY <2>5 DEF BuyLeg, LegKeeps, WalletOK
    <3>3. CashKeeps(tracked, s) /\ GapsKept(tracked, s) /\ MovedBy(tracked, s, LegCcy(ev), Zero)
      BY <1>1, <1>5, <3>1, <3>2, AddFees
    <3> QED
      BY <2>5, <3>3, BuyLegThen DEF s
  <2> QED
    BY <2>6, <2>7
<1> QED
  BY <1>6, <1>7

LEMMA TrackedSell ==
  ASSUME NEW st, WalletOK(st), NEW s, NEW ev, TradeOK(ev), NEW fallback \in Rat, sid \in Nat,
         CashKeeps(st, s), MovedBy(st, s, LegCcy(ev), Moved(Proceeds(ev))),
         GapsIn(st, s, Currency), ev.ccy # Base
  PROVE  SellLeg(st, track_sell(s, ev, fallback), ev)
<1> DEFINE u == track_sell(s, ev, fallback)
<1>1. LegKeeps(st, s) /\ SameTrackers(st, s) /\ WalletOK(s)
  BY CashLeg DEF LegKeeps
<1>2. /\ LegKeeps(s, u) /\ u.currencies = s.currencies
      /\ u.open_lots_fx_tracker
           = [s.open_lots_fx_tracker EXCEPT ![ev.iid] = tracker_sell(@, ev.qty)]
  BY <1>1, TrackSell
<1> HIDE DEF u
<1>3. LegKeeps(st, u)
  BY <1>1, <1>2, LegTrans
<1>4. MovedBy(st, u, LegCcy(ev), Moved(Proceeds(ev)))
  BY <1>2, MovedSame
<1>5. GapsIn(st, u, Currency)
  BY <1>2 DEF GapsIn
<1>6. TrackersAre(st, u, ev.iid, tracker_sell(st.open_lots_fx_tracker[ev.iid], ev.qty))
  BY <1>1, <1>2 DEF TrackersAre, SameTrackers
<1> QED
  BY <1>3, <1>4, <1>5, <1>6 DEF SellLeg, u

LEMMA SoldAt ==
  ASSUME NEW st, WalletOK(st), NEW ev, TradeOK(ev), ~settled_in_base(ev), NEW fx \in Rat
  PROVE  /\ CashKeeps(st, sold_at(st, ev, fx)) /\ GapsKept(st, sold_at(st, ev, fx))
         /\ MovedBy(st, sold_at(st, ev, fx), LegCcy(ev), Moved(Proceeds(ev)))
<1> DEFINE amount == Gross(ev) -- ev.fees
           d == bucket_deposit(st, ev.ccy, amount, fx)
           s == sold_at(st, ev, fx)
<1>1. /\ ev.ccy \in Currency /\ ev.fees \in Rat /\ amount \in Rat
      /\ LegCcy(ev) = ev.ccy /\ Proceeds(ev) = amount /\ Moved(amount) \in Rat
  BY TradeAmounts, MovedType DEF TradeOK, LegCcy, Proceeds, Rated
<1>2. s = add_fees(d, ev.ccy, ev.fees, fx)
  BY DEF sold_at
<1> HIDE DEF amount
<1>3. /\ CashKeeps(st, d) /\ GapsKept(st, d) /\ MovedBy(st, d, LegCcy(ev), Moved(Proceeds(ev)))
  BY <1>1, Deposited DEF WalletOK
<1>4. CashSound(d)
  BY <1>3 DEF CashKeeps
<1> HIDE DEF d, s
<1>5. CashKeeps(d, s) /\ GapsKept(d, s) /\ MovedBy(d, s, LegCcy(ev), Zero)
  BY <1>1, <1>2, <1>4, AddFees
<1>6. CashKeeps(st, s) /\ GapsKept(st, s)
  BY <1>3, <1>5, CashKeepsTrans, GapsKeptTrans
<1>7. MovedBy(st, s, LegCcy(ev), Moved(Proceeds(ev)))
  BY <1>1, <1>3, <1>5, MovedZero DEF WalletOK
<1> QED
  BY <1>6, <1>7 DEF s

LEMMA SellInCurrency ==
  ASSUME NEW st, WalletOK(st), NEW ev, TradeOK(ev), sid \in Nat, ~settled_in_base(ev)
  PROVE  SellLeg(st, sell_in_currency(st, ev), ev)
<1> DEFINE s == sell_in_currency(st, ev)
<1>1. CASE ev.ccy = Base
  <2>1. s = sold_at(st, ev, One)
    BY <1>1 DEF sell_in_currency
  <2> HIDE DEF s
  <2>2. /\ CashKeeps(st, s) /\ GapsKept(st, s)
        /\ MovedBy(st, s, LegCcy(ev), Moved(Proceeds(ev)))
    BY <2>1, OneRatio, SoldAt
  <2> QED
    BY <1>1, <2>2, CashLeg DEF SellLeg, GapsIn, GapsKept, s
<1>2. CASE ev.ccy # Base
  <2> DEFINE t == track_sell(st, ev, One)
             fx == t.foreign_sell_fx_basis[sid]
  <2>1. s = sold_at(t, ev, fx)
    BY <1>2 DEF sell_in_currency, sold_tracked
  <2>2. /\ LegKeeps(st, t) /\ t.currencies = st.currencies /\ fx \in Rat
        /\ t.open_lots_fx_tracker
             = [st.open_lots_fx_tracker EXCEPT ![ev.iid] = tracker_sell(@, ev.qty)]
    BY OneRatio, TrackSell
  <2> HIDE DEF t, fx, s
  <2>3. WalletOK(t)
    BY <2>2 DEF LegKeeps
  <2>4. /\ CashKeeps(t, s) /\ GapsKept(t, s)
        /\ MovedBy(t, s, LegCcy(ev), Moved(Proceeds(ev)))
    BY <2>1, <2>2, <2>3, SoldAt
  <2>5. LegKeeps(t, s) /\ SameTrackers(t, s)
    BY <2>3, <2>4, CashLeg
  <2>6. LegKeeps(st, s)
    BY <2>2, <2>5, LegTrans
  <2>7. MovedBy(st, s, LegCcy(ev), Moved(Proceeds(ev)))
    BY <2>2, <2>4, MovedSame
  <2>8. GapsIn(st, s, Currency)
    BY <2>2, <2>4 DEF GapsIn, GapsKept
  <2>9. TrackersAre(st, s, ev.iid, tracker_sell(st.open_lots_fx_tracker[ev.iid], ev.qty))
    BY <2>2, <2>5 DEF TrackersAre, SameTrackers
  <2> QED
    BY <1>2, <2>6, <2>7, <2>8, <2>9 DEF SellLeg, s
<1> QED
  BY <1>1, <1>2

LEMMA SettleInBase ==
  ASSUME NEW st, WalletOK(st), NEW ev, TradeOK(ev), sid \in Nat, settled_in_base(ev)
  PROVE  IF ev.side = "buy" THEN BuyLeg(st, settle_in_base(st, ev), ev)
         ELSE SellLeg(st, settle_in_base(st, ev), ev)
<1> DEFINE s == settle_in_base(st, ev)
<1>1. /\ ev.rate \in Rat /\ ev.ccy # Base /\ LegCcy(ev) = Base /\ Base \in Currency
      /\ ev.fees \in Rat /\ ev.fees ** ev.rate \in Rat
      /\ Pay(ev) = (Gross(ev) ++ ev.fees) ** ev.rate
      /\ Proceeds(ev) = (Gross(ev) -- ev.fees) ** ev.rate
      /\ Pay(ev) \in Rat /\ Proceeds(ev) \in Rat
  BY BaseAssumption, TradeAmounts, MulType
     DEF TradeOK, LegCcy, Pay, Proceeds, Rated, settled_in_base
<1>2. CASE ev.side = "buy"
  <2> DEFINE res == bucket_drain(st, Base, Pay(ev), None, sid)
             t == track_buy(res.st, ev, ev.rate)
  <2>1. s = add_fees(t, Base, ev.fees ** ev.rate, One)
    BY <1>1, <1>2 DEF settle_in_base, drain
  <2>2. DrainWell(st, Base, Pay(ev), None, res)
    BY <1>1, Drained DEF WalletOK
  <2> HIDE DEF res
  <2>3. /\ CashKeeps(st, res.st) /\ MovedBy(st, res.st, LegCcy(ev), Zero -- Moved(Pay(ev)))
        /\ GapsIn(st, res.st, Currency \ {LegCcy(ev)})
    BY <1>1, <2>2 DEF DrainWell, GapsIn
  <2>4. BuyLeg(st, t, ev)
    BY <1>1, <2>3, TrackedBuy
  <2> HIDE DEF t, s
  <2>5. CashSound(t)
    BY <2>4 DEF BuyLeg, LegKeeps, WalletOK
  <2>6. CashKeeps(t, s) /\ GapsKept(t, s) /\ MovedBy(t, s, LegCcy(ev), Zero)
    BY <1>1, <2>1, <2>5, OneRatio, AddFees
  <2> QED
    BY <1>2, <2>4, <2>6, BuyLegThen DEF s
<1>3. CASE ev.side # "buy"
  <2> DEFINE d == bucket_deposit(st, Base, Proceeds(ev), One)
             t == track_sell(d, ev, ev.rate)
  <2>1. s = add_fees(t, Base, ev.fees ** ev.rate, One)
    BY <1>1, <1>3 DEF settle_in_base
  <2>2. /\ CashKeeps(st, d) /\ GapsKept(st, d)
        /\ MovedBy(st, d, LegCcy(ev), Moved(Proceeds(ev)))
    BY <1>1, OneRatio, Deposited DEF WalletOK
  <2> HIDE DEF d
  <2>3. GapsIn(st, d, Currency)
    BY <2>2 DEF GapsIn, GapsKept
  <2>4. SellLeg(st, t, ev)
    BY <1>1, <2>2, <2>3, TrackedSell
  <2> HIDE DEF t, s
  <2>5. CashSound(t)
    BY <2>4 DEF SellLeg, LegKeeps, WalletOK
  <2>6. CashKeeps(t, s) /\ GapsKept(t, s) /\ MovedBy(t, s, LegCcy(ev), Zero)
    BY <1>1, <2>1, <2>5, OneRatio, AddFees
  <2> QED
    BY <1>3, <2>4, <2>6, SellLegThen DEF s
<1> QED
  BY <1>2, <1>3

\* The cash leg of a trade moves what the trade says, once.
LEMMA CashLegIs ==
  ASSUME NEW st, WalletOK(st), NEW ev, TradeOK(ev), sid \in Nat
  PROVE  /\ ev.side = "buy" => BuyLeg(st, cash_leg(st, ev), ev)
         /\ ev.side = "sell" => SellLeg(st, cash_leg(st, ev), ev)
<1>1. CASE settled_in_base(ev)
  BY <1>1, SettleInBase DEF cash_leg
<1>2. CASE ~settled_in_base(ev)
  BY <1>2, BuyInCurrency, SellInCurrency DEF cash_leg
<1> QED
  BY <1>1, <1>2

(***************************************************************************)
(* The accumulators of an instrument                                       *)
(***************************************************************************)

\* An instrument whose lots add up.
InstOK(inst) ==
  /\ inst \in InstSet
  /\ AllPositive(inst.fifo.lots)
  /\ inst.fifo.qty = TotalQty(inst.fifo.lots)
  /\ inst.fifo.long <=> Positive(inst.fifo.qty)
  /\ inst.avg.qty = inst.fifo.qty
  /\ inst.avg.long <=> inst.fifo.long

LEMMA InstFields ==
  ASSUME NEW inst \in InstSet
  PROVE  /\ inst.fifo \in FifoSet /\ inst.avg \in AvgSet
         /\ inst.cycle_count \in Nat /\ inst.cycle_open \in Nat /\ inst.cycle_pnl \in Rat
         /\ inst.fifo.qty \in Rat /\ inst.fifo.lots \in Seq(EquityLot)
         /\ inst.fifo.long \in BOOLEAN /\ inst.avg.long \in BOOLEAN
         /\ inst.fifo.gross_native \in Rat /\ inst.fifo.gross_base \in Rat
         /\ inst.fifo.fx_gain \in Rat
         /\ inst.avg.qty \in Rat /\ inst.avg.native \in Rat /\ inst.avg.base \in Rat
         /\ inst.avg.fx \in Rat /\ inst.avg.gross_native \in Rat /\ inst.avg.gross_base \in Rat
         /\ inst.avg.fx_gain \in Rat
BY DEF InstSet, FifoSet, AvgSet

LEMMA InstTotals ==
  ASSUME NEW inst, InstOK(inst)
  PROVE  /\ inst.fifo.qty \in Rat /\ Zero \preceq inst.fifo.qty
         /\ inst.fifo.lots = <<>> <=> inst.fifo.qty = Zero
         /\ inst.fifo.long <=> inst.fifo.qty # Zero
<1>1. inst.fifo.lots \in Seq(EquityLot) /\ inst.fifo.qty \in Rat
  BY InstFields DEF InstOK
<1>2. /\ Zero \preceq TotalQty(inst.fifo.lots)
      /\ inst.fifo.lots = <<>> <=> TotalQty(inst.fifo.lots) = Zero
  BY <1>1, LotSets, PositiveTotal DEF InstOK
<1> QED
  BY <1>1, <1>2, NotNegative DEF InstOK

LEMMA MeanIs ==
  ASSUME NEW avg, NEW lot, NEW old \in Rat, NEW new \in Rat,
         avg.qty \in Rat, Zero \preceq avg.qty, lot.qty \in Rat, Positive(lot.qty)
  PROVE  /\ Mean(avg, lot, old, new) \in Rat
         /\ (avg.qty ++ lot.qty) ** Mean(avg, lot, old, new)
              = (avg.qty ** old) ++ (lot.qty ** new)
<1> DEFINE sum == avg.qty ++ lot.qty
           cost == (avg.qty ** old) ++ (lot.qty ** new)
<1>1. sum \in Rat /\ Positive(sum)
  <2>1. Zero \preceq lot.qty
    BY NotNegative
  <2> QED
    BY <2>1, AddType, NonNegativeSum
<1>2. cost \in Rat
  BY MulType, AddType
<1>3. Mean(avg, lot, old, new) = cost // sum
  BY DEF Mean
<1> HIDE DEF sum, cost
<1>4. cost // sum \in Rat /\ (cost // sum) ** sum = cost
  BY <1>1, <1>2, DivMul
<1>5. sum ** (cost // sum) = (cost // sum) ** sum
  BY <1>1, <1>4, MulComm
<1> QED
  BY <1>3, <1>4, <1>5 DEF sum, cost

\* What opening a lot does.
Opened(inst, lot, id, o) ==
  /\ InstOK(o)
  /\ o.fifo.lots = Append(inst.fifo.lots, lot)
  /\ o.fifo.qty = inst.fifo.qty ++ lot.qty
  /\ o.fifo.gross_native = inst.fifo.gross_native /\ o.fifo.gross_base = inst.fifo.gross_base
  /\ o.avg.gross_native = inst.avg.gross_native /\ o.avg.gross_base = inst.avg.gross_base
  /\ o.avg.qty ** o.avg.native = (inst.avg.qty ** inst.avg.native) ++ (lot.qty ** lot.price)
  /\ o.avg.qty ** o.avg.base
       = (inst.avg.qty ** inst.avg.base) ++ (lot.qty ** (lot.price ** lot.fx))
  /\ o.cycle_count = inst.cycle_count
  /\ o.cycle_open = IF inst.fifo.qty = Zero THEN id ELSE inst.cycle_open
  /\ o.cycle_pnl = IF inst.fifo.qty = Zero THEN Zero ELSE inst.cycle_pnl

LEMMA OpenLot ==
  ASSUME NEW inst, InstOK(inst), NEW lot \in EquityLot, Positive(lot.qty), NEW id \in Nat
  PROVE  Opened(inst, lot, id, open_lot(inst, lot, id))
<1> DEFINE fifo == inst.fifo
           avg == inst.avg
           f == fifo_open(fifo, lot)
           a == avg_open(avg, lot)
           o == open_lot(inst, lot, id)
           lots == Append(fifo.lots, lot)
           fqty == fifo.qty ++ lot.qty
           aqty == avg.qty ++ lot.qty
           native == Mean(avg, lot, avg.native, lot.price)
           base == Mean(avg, lot, avg.base, lot.price ** lot.fx)
           mfx == Mean(avg, lot, avg.fx, lot.fx)
           copen == IF was_flat(inst) THEN id ELSE inst.cycle_open
           cpnl == IF was_flat(inst) THEN Zero ELSE inst.cycle_pnl
<1>1. /\ inst \in InstSet /\ fifo \in FifoSet /\ avg \in AvgSet
      /\ fifo.lots \in Seq(EquityLot) /\ AllPositive(fifo.lots)
      /\ fifo.qty = TotalQty(fifo.lots) /\ avg.qty = fifo.qty
      /\ avg.native \in Rat /\ avg.base \in Rat /\ avg.fx \in Rat
      /\ inst.cycle_open \in Nat /\ inst.cycle_pnl \in Rat
  BY InstFields DEF InstOK
<1>2. fifo.qty \in Rat /\ Zero \preceq fifo.qty /\ (fifo.long <=> fifo.qty # Zero)
  BY InstTotals
<1>3. lot.qty \in Rat /\ lot.price \in Rat /\ lot.fx \in Rat /\ lot.price ** lot.fx \in Rat
  BY MulType DEF EquityLot
<1>4. lots \in Seq(EquityLot) /\ AllPositive(lots) /\ TotalQty(lots) = fqty
  <2>1. lots \in Seq(EquityLot)
    BY <1>1
  <2>2. AllPositive(lots)
    BY <1>1 DEF AllPositive
  <2>3. TotalQty(lots) = TotalQty(fifo.lots) ++ lot.qty
    <3> HIDE DEF fifo
    <3> QED
      BY <1>1, LotSets, TotalAppend
  <2> QED
    BY <1>1, <2>1, <2>2, <2>3
<1>5. fqty \in Rat /\ aqty = fqty /\ Positive(fqty)
  <2>1. Zero \preceq lot.qty
    BY <1>3, NotNegative
  <2> QED
    BY <1>1, <1>2, <1>3, <2>1, AddType, NonNegativeSum
<1>6. f = [fifo EXCEPT !.long = TRUE, !.lots = lots, !.qty = fqty]
  BY DEF fifo_open
<1>7. a = [avg EXCEPT !.long = TRUE, !.qty = aqty, !.native = native, !.base = base,
                      !.fx = mfx]
  BY DEF avg_open
<1>8. o = [inst EXCEPT !.fifo = f, !.avg = a, !.cycle_open = copen, !.cycle_pnl = cpnl]
  BY DEF open_lot
<1>n. /\ native \in Rat /\ base \in Rat /\ mfx \in Rat
      /\ aqty ** native = (avg.qty ** avg.native) ++ (lot.qty ** lot.price)
      /\ aqty ** base = (avg.qty ** avg.base) ++ (lot.qty ** (lot.price ** lot.fx))
  <2> HIDE DEF fifo, avg
  <2>1. /\ native \in Rat
        /\ aqty ** native = (avg.qty ** avg.native) ++ (lot.qty ** lot.price)
    BY <1>1, <1>2, <1>3, MeanIs
  <2>2. /\ base \in Rat
        /\ aqty ** base = (avg.qty ** avg.base) ++ (lot.qty ** (lot.price ** lot.fx))
    BY <1>1, <1>2, <1>3, MeanIs
  <2>3. mfx \in Rat
    BY <1>1, <1>2, <1>3, MeanIs
  <2> QED
    BY <2>1, <2>2, <2>3
<1>c. copen \in Nat /\ cpnl \in Rat
  BY <1>1, ZeroType
<1>d. /\ copen = (IF fifo.qty = Zero THEN id ELSE inst.cycle_open)
      /\ cpnl = (IF fifo.qty = Zero THEN Zero ELSE inst.cycle_pnl)
  BY <1>2 DEF was_flat
<1> HIDE DEF fifo, avg, f, a, o, lots, fqty, aqty, native, base, mfx, copen, cpnl
<1>9. f \in FifoSet
  BY <1>1, <1>4, <1>5, <1>6, Zenon DEF FifoSet
<1>10. /\ f.long = TRUE /\ f.lots = lots /\ f.qty = fqty
       /\ f.gross_native = fifo.gross_native /\ f.gross_base = fifo.gross_base
  BY <1>1, <1>6 DEF FifoSet
<1>11. a \in AvgSet
  BY <1>1, <1>5, <1>7, <1>n, Zenon DEF AvgSet
<1>12. /\ a.long = TRUE /\ a.qty = aqty /\ a.native = native /\ a.base = base
       /\ a.gross_native = avg.gross_native /\ a.gross_base = avg.gross_base
  BY <1>1, <1>7 DEF AvgSet
<1>13. o \in InstSet
  BY <1>1, <1>8, <1>9, <1>11, <1>c DEF InstSet
<1>14. /\ o.fifo = f /\ o.avg = a /\ o.cycle_count = inst.cycle_count
       /\ o.cycle_open = copen /\ o.cycle_pnl = cpnl
  BY <1>1, <1>8 DEF InstSet
<1>15. InstOK(o)
  BY <1>4, <1>5, <1>10, <1>12, <1>13, <1>14 DEF InstOK
<1>16. Opened(inst, lot, id, o)
  BY <1>10, <1>12, <1>14, <1>15, <1>n, <1>d DEF Opened, lots, fqty, aqty, fifo, avg
<1> QED
  BY <1>16 DEF o

(***************************************************************************)
(* What the lots of an instrument cost                                     *)
(***************************************************************************)

NativeCost(lots) == Total(lots, LAMBDA lot : lot.qty ** lot.price)
BaseCost(lots)   == Total(lots, LAMBDA lot : lot.qty ** (lot.price ** lot.fx))

PriceOf == [l \in EquityLot |-> l.price]
BaseOf  == [l \in EquityLot |-> l.price ** l.fx]

\* The two fields that name a lot.
Keys == {"entry", "lot_id"}

LEMMA LotFields ==
  ASSUME NEW l \in EquityLot
  PROVE  /\ l.entry \in Nat /\ l.qty \in Rat /\ l.price \in Rat /\ l.fx \in Rat
         /\ l.price ** l.fx \in Rat
         /\ \A q \in Rat : /\ [l EXCEPT !.qty = q] \in EquityLot
                           /\ [l EXCEPT !.qty = q].price = l.price
                           /\ [l EXCEPT !.qty = q].fx = l.fx
                           /\ [l EXCEPT !.qty = q].entry = l.entry
                           /\ [l EXCEPT !.qty = q].qty = q
<1>1. l.entry \in Nat /\ l.qty \in Rat /\ l.price \in Rat /\ l.fx \in Rat
  BY DEF EquityLot
<1>2. \A q \in Rat : /\ [l EXCEPT !.qty = q] \in EquityLot
                     /\ [l EXCEPT !.qty = q].price = l.price
                     /\ [l EXCEPT !.qty = q].fx = l.fx
                     /\ [l EXCEPT !.qty = q].entry = l.entry
                     /\ [l EXCEPT !.qty = q].qty = q
  BY DEF EquityLot
<1> QED
  BY <1>1, <1>2, MulType

LEMMA LotKeys ==
  ASSUME NEW l \in EquityLot, NEW K \in Keys
  PROVE  /\ l[K] \in Nat /\ \A q \in Rat : [l EXCEPT !.qty = q][K] = l[K]
         /\ "entry" \in Keys /\ "lot_id" \in Keys
         /\ l["entry"] = l.entry /\ l["lot_id"] = l.lot_id
BY DEF EquityLot, Keys

LEMMA CostWeights == WeightOf(EquityLot, PriceOf) /\ WeightOf(EquityLot, BaseOf)
<1>1. PriceOf \in [EquityLot -> Rat] /\ BaseOf \in [EquityLot -> Rat]
  BY LotFields DEF PriceOf, BaseOf
<1>2. ASSUME NEW l \in EquityLot, NEW q \in Rat
      PROVE  /\ PriceOf[[l EXCEPT !.qty = q]] = PriceOf[l]
             /\ BaseOf[[l EXCEPT !.qty = q]] = BaseOf[l]
  <2> DEFINE m == [l EXCEPT !.qty = q]
  <2>1. m \in EquityLot /\ m.price = l.price /\ m.fx = l.fx
    BY LotFields
  <2> HIDE DEF m
  <2>2. PriceOf[m] = PriceOf[l] /\ BaseOf[m] = BaseOf[l]
    BY <2>1 DEF PriceOf, BaseOf
  <2> QED
    BY <2>2 DEF m
<1> QED
  BY <1>1, <1>2 DEF WeightOf

LEMMA CostIs ==
  ASSUME NEW lots \in Seq(EquityLot)
  PROVE  /\ NativeCost(lots) = ValSum(lots, Weighed(EquityLot, PriceOf))
         /\ BaseCost(lots) = ValSum(lots, Weighed(EquityLot, BaseOf))
         /\ NativeCost(lots) \in Rat /\ BaseCost(lots) \in Rat
<1> DEFINE native == Weighed(EquityLot, PriceOf)
           base == Weighed(EquityLot, BaseOf)
<1>1. native \in [EquityLot -> Rat] /\ base \in [EquityLot -> Rat]
  BY CostWeights, LotSets, WeighedType DEF WeightOf
<1>2. \A i \in DOMAIN lots : lots[i] \in EquityLot
  OBVIOUS
<1>3. \A i \in DOMAIN lots : native[lots[i]] = lots[i].qty ** lots[i].price
  BY <1>2 DEF Weighed, PriceOf
<1>4. \A i \in DOMAIN lots : base[lots[i]] = lots[i].qty ** (lots[i].price ** lots[i].fx)
  BY <1>2 DEF Weighed, BaseOf
<1> HIDE DEF native, base
<1>5. [i \in DOMAIN lots |-> lots[i].qty ** lots[i].price] = [i \in DOMAIN lots |-> native[lots[i]]]
  BY <1>3
<1>6. [i \in DOMAIN lots |-> lots[i].qty ** (lots[i].price ** lots[i].fx)]
        = [i \in DOMAIN lots |-> base[lots[i]]]
  BY <1>4
<1>7. NativeCost(lots) = ValSum(lots, native)
  BY <1>5 DEF NativeCost, Total, ValSum, Vals
<1>8. BaseCost(lots) = ValSum(lots, base)
  BY <1>6 DEF BaseCost, Total, ValSum, Vals
<1> QED
  BY <1>1, <1>7, <1>8, ValsType DEF native, base

LEMMA CostAppend ==
  ASSUME NEW lots \in Seq(EquityLot), NEW l \in EquityLot
  PROVE  /\ NativeCost(Append(lots, l)) = NativeCost(lots) ++ (l.qty ** l.price)
         /\ BaseCost(Append(lots, l)) = BaseCost(lots) ++ (l.qty ** (l.price ** l.fx))
<1> DEFINE native == Weighed(EquityLot, PriceOf)
           base == Weighed(EquityLot, BaseOf)
<1>1. native \in [EquityLot -> Rat] /\ base \in [EquityLot -> Rat]
  BY CostWeights, LotSets, WeighedType DEF WeightOf
<1>2. native[l] = l.qty ** l.price /\ base[l] = l.qty ** (l.price ** l.fx)
  BY DEF Weighed, PriceOf, BaseOf
<1> HIDE DEF native, base
<1>3. /\ ValSum(Append(lots, l), native) = ValSum(lots, native) ++ native[l]
      /\ ValSum(Append(lots, l), base) = ValSum(lots, base) ++ base[l]
  BY <1>1, ValSumAppend
<1>4. Append(lots, l) \in Seq(EquityLot)
  OBVIOUS
<1> QED
  BY <1>2, <1>3, <1>4, CostIs DEF native, base

LEMMA CostEmpty == NativeCost(<<>>) = Zero /\ BaseCost(<<>>) = Zero
<1>1. <<>> \in Seq(EquityLot)
  OBVIOUS
<1> QED
  BY <1>1, CostIs, ValSumEmpty

\* What the lots that are taken bring at the unit price c each, less what they
\* cost; what is left is what the rest costs.
LEMMA Realised ==
  ASSUME NEW L, LotSet(L), Resizable(L), NEW lots \in Seq(L), AllPositive(lots),
         NEW amount \in Rat, Zero \preceq amount, NEW w, WeightOf(L, w), NEW c \in Rat,
         NEW v \in [L -> Rat], \A i \in 1..Len(lots) : v[lots[i]] = c -- w[lots[i]]
  PROVE  SumOf(TakenVals(lots, Taken(lots, amount), v))
           -- ValSum(Rest(lots, amount), Weighed(L, w))
         = (Lesser(amount, TotalQty(lots)) ** c) -- ValSum(lots, Weighed(L, w))
<1> DEFINE t == Taken(lots, amount)
           s == SumOf(TakenVals(lots, t, w))
           cost == ValSum(lots, Weighed(L, w))
           sold == Lesser(amount, TotalQty(lots)) ** c
<1>1. t \in Seq(Rat) /\ Len(t) = Len(lots) /\ SumOf(t) = Lesser(amount, TotalQty(lots))
  BY TakenFacts DEF TakenWell
<1>2. w \in [L -> Rat]
  BY DEF WeightOf
<1>3. s \in Rat
  <2> HIDE DEF t
  <2> QED
    BY <1>1, <1>2, TakenValsType
<1>4. cost \in Rat
  BY <1>2, WeighedType, ValsType
<1>5. sold \in Rat
  BY QtysType, MinMax, MulType
<1>6. ValSum(Rest(lots, amount), Weighed(L, w)) = cost -- s
  BY RestSum
<1>7. SumOf(TakenVals(lots, t, v)) = sold -- s
  <2> HIDE DEF t
  <2>1. SumOf(TakenVals(lots, t, v)) = (SumOf(t) ** c) -- s
    BY <1>1, <1>2, TakenSplit
  <2> QED
    BY <1>1, <2>1
<1> HIDE DEF cost, sold, s
<1>8. (sold -- s) -- (cost -- s) = sold -- cost
  <2>1. (sold -- s) -- (cost -- s) = (sold -- cost) -- (s -- s)
    BY <1>3, <1>4, <1>5, SubSplit
  <2>2. sold -- cost \in Rat
    BY <1>4, <1>5, AddType
  <2> QED
    BY <1>3, <2>1, <2>2, AddZero
<1> QED
  BY <1>6, <1>7, <1>8 DEF cost, sold

NativeTaken(lots, amount, price) == TakenSum(lots, amount, LAMBDA lot : UnitNative(lot, price))
BaseTaken(lots, amount, price, fx, realize) ==
  TakenSum(lots, amount, LAMBDA lot : UnitBase(lot, price, fx, realize))
FxTaken(lots, amount, fx, realize) ==
  TakenSum(lots, amount, LAMBDA lot : UnitFx(lot, fx, realize))

NativeUnits(price) == [l \in EquityLot |-> UnitNative(l, price)]
BaseUnits(price, fx, realize) == [l \in EquityLot |-> UnitBase(l, price, fx, realize)]
FxUnits(fx, realize) == [l \in EquityLot |-> UnitFx(l, fx, realize)]

LEMMA UnitsType ==
  ASSUME NEW price \in Rat, NEW fx \in Rat, NEW realize \in BOOLEAN
  PROVE  /\ NativeUnits(price) \in [EquityLot -> Rat]
         /\ BaseUnits(price, fx, realize) \in [EquityLot -> Rat]
         /\ FxUnits(fx, realize) \in [EquityLot -> Rat]
<1> SUFFICES ASSUME NEW l \in EquityLot
             PROVE  /\ UnitNative(l, price) \in Rat /\ UnitBase(l, price, fx, realize) \in Rat
                    /\ UnitFx(l, fx, realize) \in Rat
  BY DEF NativeUnits, BaseUnits, FxUnits
<1> DEFINE p == l.price
           f == l.fx
<1>1. p \in Rat /\ f \in Rat /\ p ** f \in Rat /\ price ** fx \in Rat
  BY LotFields, MulType
<1> HIDE DEF p, f
<1>2. price -- p \in Rat /\ fx -- f \in Rat /\ (price ** fx) -- (p ** f) \in Rat
  BY <1>1, AddType
<1>3. (price -- p) ** f \in Rat /\ p ** (fx -- f) \in Rat
  BY <1>1, <1>2, MulType
<1> QED
  BY <1>2, <1>3, ZeroType DEF UnitNative, UnitBase, UnitFx, p, f

LEMMA UnitSums ==
  ASSUME NEW lots \in Seq(EquityLot), NEW amount, NEW price, NEW fx, NEW realize \in BOOLEAN
  PROVE  /\ NativeTaken(lots, amount, price)
              = SumOf(TakenVals(lots, Taken(lots, amount), NativeUnits(price)))
         /\ BaseTaken(lots, amount, price, fx, realize)
              = SumOf(TakenVals(lots, Taken(lots, amount), BaseUnits(price, fx, realize)))
         /\ FxTaken(lots, amount, fx, realize)
              = SumOf(TakenVals(lots, Taken(lots, amount), FxUnits(fx, realize)))
<1> DEFINE t == Taken(lots, amount)
           nu == NativeUnits(price)
           bu == BaseUnits(price, fx, realize)
           fu == FxUnits(fx, realize)
<1>1. \A i \in DOMAIN lots : lots[i] \in EquityLot
  OBVIOUS
<1>2. \A i \in DOMAIN lots : nu[lots[i]] = UnitNative(lots[i], price)
  BY <1>1 DEF NativeUnits
<1>3. \A i \in DOMAIN lots : bu[lots[i]] = UnitBase(lots[i], price, fx, realize)
  BY <1>1 DEF BaseUnits
<1>4. \A i \in DOMAIN lots : fu[lots[i]] = UnitFx(lots[i], fx, realize)
  BY <1>1 DEF FxUnits
<1>5. NativeTaken(lots, amount, price)
        = SumOf([i \in DOMAIN lots |-> t[i] ** UnitNative(lots[i], price)])
  BY DEF NativeTaken, TakenSum
<1>6. BaseTaken(lots, amount, price, fx, realize)
        = SumOf([i \in DOMAIN lots |-> t[i] ** UnitBase(lots[i], price, fx, realize)])
  BY DEF BaseTaken, TakenSum
<1>7. FxTaken(lots, amount, fx, realize)
        = SumOf([i \in DOMAIN lots |-> t[i] ** UnitFx(lots[i], fx, realize)])
  BY DEF FxTaken, TakenSum
<1> HIDE DEF t, nu, bu, fu
<1>8. [i \in DOMAIN lots |-> t[i] ** UnitNative(lots[i], price)]
        = [i \in DOMAIN lots |-> t[i] ** nu[lots[i]]]
  BY <1>2
<1>9. [i \in DOMAIN lots |-> t[i] ** UnitBase(lots[i], price, fx, realize)]
        = [i \in DOMAIN lots |-> t[i] ** bu[lots[i]]]
  BY <1>3
<1>10. [i \in DOMAIN lots |-> t[i] ** UnitFx(lots[i], fx, realize)]
        = [i \in DOMAIN lots |-> t[i] ** fu[lots[i]]]
  BY <1>4
<1>11. /\ NativeTaken(lots, amount, price) = SumOf(TakenVals(lots, t, nu))
       /\ BaseTaken(lots, amount, price, fx, realize) = SumOf(TakenVals(lots, t, bu))
       /\ FxTaken(lots, amount, fx, realize) = SumOf(TakenVals(lots, t, fu))
  BY <1>5, <1>6, <1>7, <1>8, <1>9, <1>10 DEF TakenVals
<1> QED
  BY <1>11 DEF t, nu, bu, fu

\* What a sale brings in, less what the lots that go had cost.
SaleIs(lots, amount, price, fx, realize, native, base) ==
  /\ native -- NativeCost(Rest(lots, amount))
       = (Lesser(amount, TotalQty(lots)) ** price) -- NativeCost(lots)
  /\ realize =>
       base -- BaseCost(Rest(lots, amount))
         = (Lesser(amount, TotalQty(lots)) ** (price ** fx)) -- BaseCost(lots)
  /\ native \in Rat /\ base \in Rat

LEMMA Sale ==
  ASSUME NEW lots \in Seq(EquityLot), AllPositive(lots), NEW amount \in Rat,
         Zero \preceq amount, NEW price \in Rat, NEW fx \in Rat, NEW realize \in BOOLEAN
  PROVE  /\ SaleIs(lots, amount, price, fx, realize, NativeTaken(lots, amount, price),
                   BaseTaken(lots, amount, price, fx, realize))
         /\ FxTaken(lots, amount, fx, realize) \in Rat
<1> DEFINE t == Taken(lots, amount)
           rest == Rest(lots, amount)
           nu == NativeUnits(price)
           bu == BaseUnits(price, fx, realize)
           fu == FxUnits(fx, realize)
           native == NativeTaken(lots, amount, price)
           base == BaseTaken(lots, amount, price, fx, realize)
           c == price ** fx
<1>1. t \in Seq(Rat) /\ Len(t) = Len(lots)
  BY LotSets, TakenFacts DEF TakenWell
<1>2. nu \in [EquityLot -> Rat] /\ bu \in [EquityLot -> Rat] /\ fu \in [EquityLot -> Rat]
  BY UnitsType
<1>3. /\ native = SumOf(TakenVals(lots, t, nu)) /\ base = SumOf(TakenVals(lots, t, bu))
      /\ FxTaken(lots, amount, fx, realize) = SumOf(TakenVals(lots, t, fu))
  BY UnitSums
<1>4. \A i \in 1..Len(lots) : lots[i] \in EquityLot
  OBVIOUS
<1>5. \A i \in 1..Len(lots) : nu[lots[i]] = price -- PriceOf[lots[i]]
  BY <1>4 DEF NativeUnits, UnitNative, PriceOf
<1>6. realize => \A i \in 1..Len(lots) : bu[lots[i]] = c -- BaseOf[lots[i]]
  BY <1>4 DEF BaseUnits, UnitBase, BaseOf
<1>7. rest \in Seq(EquityLot) /\ c \in Rat
  BY LotSets, RestType, MulType
<1>8. /\ SumOf(TakenVals(lots, t, nu)) \in Rat /\ SumOf(TakenVals(lots, t, bu)) \in Rat
      /\ SumOf(TakenVals(lots, t, fu)) \in Rat
  <2> HIDE DEF t, nu, bu, fu
  <2> QED
    BY <1>1, <1>2, TakenValsType
<1>9. SumOf(TakenVals(lots, t, nu)) -- ValSum(rest, Weighed(EquityLot, PriceOf))
        = (Lesser(amount, TotalQty(lots)) ** price) -- ValSum(lots, Weighed(EquityLot, PriceOf))
  <2> HIDE DEF nu
  <2> QED
    BY <1>2, <1>5, CostWeights, LotSets, Realised
<1>10. ASSUME realize
       PROVE  SumOf(TakenVals(lots, t, bu)) -- ValSum(rest, Weighed(EquityLot, BaseOf))
                = (Lesser(amount, TotalQty(lots)) ** c)
                    -- ValSum(lots, Weighed(EquityLot, BaseOf))
  <2> HIDE DEF bu, c
  <2> QED
    BY <1>2, <1>6, <1>7, <1>10, CostWeights, LotSets, Realised
<1>11. /\ NativeCost(rest) = ValSum(rest, Weighed(EquityLot, PriceOf))
       /\ BaseCost(rest) = ValSum(rest, Weighed(EquityLot, BaseOf))
       /\ NativeCost(lots) = ValSum(lots, Weighed(EquityLot, PriceOf))
       /\ BaseCost(lots) = ValSum(lots, Weighed(EquityLot, BaseOf))
  <2> HIDE DEF rest
  <2> QED
    BY <1>7, CostIs
<1> HIDE DEF t, nu, bu, fu, native, base
<1>12. SaleIs(lots, amount, price, fx, realize, native, base)
  BY <1>3, <1>8, <1>9, <1>10, <1>11 DEF SaleIs
<1> QED
  BY <1>3, <1>8, <1>12 DEF native, base

\* The realised profit less what the open position cost, in both methods.
FifoNative(fifo) == fifo.gross_native -- NativeCost(fifo.lots)
FifoBase(fifo)   == fifo.gross_base -- BaseCost(fifo.lots)
AvgNative(avg)   == avg.gross_native -- (avg.qty ** avg.native)
AvgBase(avg)     == avg.gross_base -- (avg.qty ** avg.base)

\* The accumulator f is fifo after a sale.
FifoSold(fifo, qty, price, fx, realize, f) ==
  /\ f \in FifoSet
  /\ f.lots = Rest(fifo.lots, qty)
  /\ AllPositive(f.lots) /\ f.qty = TotalQty(f.lots)
  /\ f.qty = Greater(Zero, fifo.qty -- qty)
  /\ f.long <=> f.qty # Zero
  /\ f.gross_base = fifo.gross_base ++ BaseTaken(fifo.lots, qty, price, fx, realize)
  /\ FifoNative(f) = FifoNative(fifo) ++ (Lesser(qty, fifo.qty) ** price)
  /\ realize => FifoBase(f) = FifoBase(fifo) ++ (Lesser(qty, fifo.qty) ** (price ** fx))

LEMMA NoLots ==
  ASSUME NEW amount \in Rat, Zero \preceq amount, NEW price, NEW fx, NEW realize \in BOOLEAN,
         NEW lots, lots = <<>>
  PROVE  /\ Rest(lots, amount) = <<>>
         /\ BaseTaken(lots, amount, price, fx, realize) = Zero
<1>1. lots \in Seq(EquityLot) /\ AllPositive(lots)
  BY DEF AllPositive
<1>2. TotalQty(lots) \preceq amount
  BY TotalEmpty
<1>3. Rest(lots, amount) = <<>>
  BY <1>1, <1>2, LotSets, RestFacts DEF RestWell
<1>4. BaseTaken(lots, amount, price, fx, realize) = SumOf(<<>>)
  BY DEF BaseTaken, TakenSum
<1> QED
  BY <1>3, <1>4, SumEmpty

LEMMA FifoClose ==
  ASSUME NEW inst, InstOK(inst), NEW qty \in Rat, Positive(qty), NEW price \in Rat,
         NEW fx \in Rat, NEW realize \in BOOLEAN
  PROVE  FifoSold(inst.fifo, qty, price, fx, realize,
                  fifo_close(inst.fifo, qty, price, fx, realize))
<1> DEFINE fifo == inst.fifo
           f == fifo_close(fifo, qty, price, fx, realize)
           lots == fifo.lots
           rest == Rest(lots, qty)
           left == Greater(Zero, fifo.qty -- qty)
           nt == NativeTaken(lots, qty, price)
           bt == BaseTaken(lots, qty, price, fx, realize)
           ft == FxTaken(lots, qty, fx, realize)
           sold == Lesser(qty, fifo.qty)
<1>1. /\ fifo \in FifoSet /\ lots \in Seq(EquityLot) /\ AllPositive(lots)
      /\ fifo.qty = TotalQty(lots) /\ fifo.long \in BOOLEAN
      /\ fifo.gross_native \in Rat /\ fifo.gross_base \in Rat /\ fifo.fx_gain \in Rat
  BY InstFields DEF InstOK
<1>2. /\ fifo.qty \in Rat /\ Zero \preceq fifo.qty /\ (fifo.long <=> fifo.qty # Zero)
      /\ lots = <<>> <=> fifo.qty = Zero
  BY InstTotals
<1>3. Zero \preceq qty
  BY NotNegative
<1>4. /\ rest \in Seq(EquityLot) /\ AllPositive(rest)
      /\ TotalQty(rest) = fifo.qty -- sold
      /\ rest = <<>> <=> fifo.qty \preceq qty
  <2>1. rest \in Seq(EquityLot)
    BY <1>1, <1>3, LotSets, RestType
  <2>2. RestWell(lots, rest, qty)
    BY <1>1, <1>3, LotSets, RestFacts
  <2> QED
    BY <1>1, <2>1, <2>2 DEF RestWell
<1>5. left \in Rat /\ fifo.qty -- sold = left
  BY <1>2, SplitAmount, AddType, MinMax, ZeroType
<1>6. left = Zero <=> rest = <<>>
  BY <1>4, <1>5, LotSets, PositiveTotal
<1>7. sold \in Rat /\ sold ** price \in Rat /\ sold ** (price ** fx) \in Rat
  BY <1>2, MinMax, MulType
<1>8. SaleIs(lots, qty, price, fx, realize, nt, bt) /\ ft \in Rat
  BY <1>1, <1>3, Sale
<1>9. /\ NativeCost(lots) \in Rat /\ BaseCost(lots) \in Rat
      /\ NativeCost(rest) \in Rat /\ BaseCost(rest) \in Rat
  <2> HIDE DEF rest, lots
  <2> QED
    BY <1>1, <1>4, CostIs
<1>10. CASE ~fifo.long
  <2>1. f = fifo
    BY <1>10 DEF fifo_close
  <2>2. lots = <<>> /\ fifo.qty = Zero
    BY <1>2, <1>10
  <2>3. rest = <<>> /\ bt = Zero
    BY <1>3, <2>2, NoLots
  <2>4. sold = Zero
    <3>1. Zero \preceq qty
      BY <1>3
    <3> QED
      BY <2>2, <3>1, ZeroType, OrderFacts
  <2>5. sold ** price = Zero /\ sold ** (price ** fx) = Zero
    BY <2>4, MulUnit, MulType
  <2>6. left = Zero
    BY <1>6, <2>3
  <2>7. FifoNative(fifo) \in Rat /\ FifoBase(fifo) \in Rat
    BY <1>1, <1>9, AddType DEF FifoNative, FifoBase
  <2> HIDE DEF f, left, bt, rest
  <2>8. FifoSold(fifo, qty, price, fx, realize, f)
    BY <1>1, <1>2, <2>1, <2>2, <2>3, <2>5, <2>6, <2>7, AddZero
    DEF FifoSold, left, bt, rest
  <2> QED
    BY <2>8 DEF f
<1>11. CASE fifo.long
  <2> DEFINE gn == fifo.gross_native ++ nt
             gb == fifo.gross_base ++ bt
             gf == fifo.fx_gain ++ ft
  <2>1. f = [long |-> left # Zero, qty |-> left,
             lots |-> IF left = Zero THEN <<>> ELSE rest,
             gross_native |-> gn, gross_base |-> gb, fx_gain |-> gf]
    BY <1>11 DEF fifo_close, fifo_left, NativeTaken, BaseTaken, FxTaken
  <2>2. gn \in Rat /\ gb \in Rat /\ gf \in Rat
    BY <1>1, <1>8, AddType DEF SaleIs
  <2> HIDE DEF f, left, rest, gn, gb, gf
  <2>3. f = [long |-> left # Zero, qty |-> left, lots |-> rest,
             gross_native |-> gn, gross_base |-> gb, fx_gain |-> gf]
    BY <1>6, <2>1
  <2>4. f \in FifoSet
    BY <1>4, <1>5, <2>2, <2>3 DEF FifoSet
  <2>5. /\ f.lots = rest /\ f.qty = left /\ (f.long <=> left # Zero)
        /\ f.gross_native = gn /\ f.gross_base = gb
    BY <2>3
  <2> HIDE DEF nt, bt, sold, lots, fifo
  <2>6. FifoNative(f) = FifoNative(fifo) ++ (sold ** price)
    <3> DEFINE g == fifo.gross_native
               c == NativeCost(lots)
               r == NativeCost(rest)
               s == sold ** price
    <3>1. nt -- r = s -- c /\ nt \in Rat
      BY <1>1, <1>8 DEF SaleIs, sold, rest
    <3>2. g \in Rat /\ c \in Rat /\ r \in Rat /\ s \in Rat
      BY <1>1, <1>7, <1>9
    <3>3. FifoNative(f) = (g ++ nt) -- r /\ FifoNative(fifo) = g -- c
      BY <2>5 DEF FifoNative, gn, lots
    <3> HIDE DEF g, c, r, s
    <3>4. (g ++ nt) -- r = g ++ (s -- c)
      BY <3>1, <3>2, SubSub
    <3>5. g ++ (s -- c) = (g ++ s) -- c
      BY <3>2, SubSub
    <3>6. (g ++ s) -- c = (g -- c) ++ s
      BY <3>2, SubSub
    <3> QED
      BY <3>3, <3>4, <3>5, <3>6 DEF s
  <2>7. ASSUME realize PROVE FifoBase(f) = FifoBase(fifo) ++ (sold ** (price ** fx))
    <3> DEFINE g == fifo.gross_base
               c == BaseCost(lots)
               r == BaseCost(rest)
               s == sold ** (price ** fx)
    <3>1. bt -- r = s -- c /\ bt \in Rat
      BY <1>1, <1>8, <2>7 DEF SaleIs, sold, rest
    <3>2. g \in Rat /\ c \in Rat /\ r \in Rat /\ s \in Rat
      BY <1>1, <1>7, <1>9
    <3>3. FifoBase(f) = (g ++ bt) -- r /\ FifoBase(fifo) = g -- c
      BY <2>5 DEF FifoBase, gb, lots
    <3> HIDE DEF g, c, r, s
    <3>4. (g ++ bt) -- r = g ++ (s -- c)
      BY <3>1, <3>2, SubSub
    <3>5. g ++ (s -- c) = (g ++ s) -- c
      BY <3>2, SubSub
    <3>6. (g ++ s) -- c = (g -- c) ++ s
      BY <3>2, SubSub
    <3> QED
      BY <3>3, <3>4, <3>5, <3>6 DEF s
  <2>8. FifoSold(fifo, qty, price, fx, realize, f)
    BY <1>4, <1>5, <2>4, <2>5, <2>6, <2>7 DEF FifoSold, left, rest, lots, sold, gb, bt
  <2> QED
    BY <2>8 DEF f, fifo
<1> QED
  BY <1>10, <1>11

\* Selling q of Q at p, when a unit costs n on average.
LEMMA AverageSale ==
  ASSUME NEW g \in Rat, NEW Q0 \in Rat, NEW q \in Rat, NEW p \in Rat, NEW n \in Rat
  PROVE  (g ++ (q ** (p -- n))) -- ((Q0 -- q) ** n) = (g -- (Q0 ** n)) ++ (q ** p)
<1> DEFINE a == q ** p
           b == q ** n
           c == Q0 ** n
<1>1. a \in Rat /\ b \in Rat /\ c \in Rat
  BY MulType
<1>2. q ** (p -- n) = a -- b /\ (Q0 -- q) ** n = c -- b
  BY MulDist
<1> HIDE DEF a, b, c
<1>3. (g ++ (a -- b)) -- (c -- b) = (g -- c) ++ a
  <2>1. PICK d \in Pos, x \in Int, y \in Int, z \in Int, u \in Int :
          /\ g = Reduced(x, d) /\ a = Reduced(y, d)
          /\ b = Reduced(z, d) /\ c = Reduced(u, d)
    <3>1. HaveCommon(g, a, b, c)
      BY <1>1, Common4
    <3> QED
      BY <3>1 DEF HaveCommon
  <2>2. /\ y - z \in Int /\ u - z \in Int /\ x + (y - z) \in Int /\ x - u \in Int
        /\ (x + (y - z)) - (u - z) = (x - u) + y
    OBVIOUS
  <2>3. a -- b = Reduced(y - z, d) /\ c -- b = Reduced(u - z, d) /\ g -- c = Reduced(x - u, d)
    BY <2>1, RatioAdd
  <2>4. g ++ (a -- b) = Reduced(x + (y - z), d) /\ (g -- c) ++ a = Reduced((x - u) + y, d)
    BY <2>1, <2>2, <2>3, RatioAdd
  <2>5. (g ++ (a -- b)) -- (c -- b) = Reduced((x + (y - z)) - (u - z), d)
    BY <2>2, <2>3, <2>4, RatioAdd
  <2> QED
    BY <2>2, <2>4, <2>5
<1> QED
  BY <1>2, <1>3 DEF a, b, c

\* The accumulator a is avg after a sale.
AvgSold(avg, qty, price, fx, realize, a) ==
  /\ a \in AvgSet
  /\ a.qty = Greater(Zero, avg.qty -- qty)
  /\ a.long <=> a.qty # Zero
  /\ qty \preceq avg.qty =>
       /\ AvgNative(a) = AvgNative(avg) ++ (qty ** price)
       /\ realize => AvgBase(a) = AvgBase(avg) ++ (qty ** (price ** fx))

LEMMA AvgClose ==
  ASSUME NEW avg \in AvgSet, avg.qty \in Rat, Zero \preceq avg.qty, avg.long <=> avg.qty # Zero,
         NEW qty \in Rat, Positive(qty), NEW price \in Rat, NEW fx \in Rat,
         NEW realize \in BOOLEAN
  PROVE  AvgSold(avg, qty, price, fx, realize, avg_close(avg, qty, price, fx, realize))
<1> DEFINE a == avg_close(avg, qty, price, fx, realize)
           left == avg.qty -- qty
           c == price ** fx
           unit == IF realize THEN c -- avg.base ELSE (price -- avg.native) ** avg.fx
           gn == avg.gross_native ++ (qty ** (price -- avg.native))
           gb == avg.gross_base ++ (qty ** unit)
           gf == IF realize THEN avg.fx_gain ++ ((qty ** avg.native) ** (fx -- avg.fx))
                 ELSE avg.fx_gain
           r == [avg EXCEPT !.qty = left, !.gross_native = gn, !.gross_base = gb, !.fx_gain = gf]
           flat == [r EXCEPT !.long = FALSE, !.qty = Zero, !.native = Zero, !.base = Zero,
                             !.fx = Zero]
<1>1. /\ avg.long \in BOOLEAN
      /\ avg.native \in Rat /\ avg.base \in Rat /\ avg.fx \in Rat
      /\ avg.gross_native \in Rat /\ avg.gross_base \in Rat /\ avg.fx_gain \in Rat
  BY DEF AvgSet
<1>2. left \in Rat /\ c \in Rat
  BY AddType, MulType
<1>3. gn \in Rat
  BY <1>1, AddType, MulType
<1>4. gb \in Rat
  <2>1. c -- avg.base \in Rat /\ price -- avg.native \in Rat
    BY <1>1, <1>2, AddType
  <2>2. unit \in Rat
    BY <1>1, <2>1, MulType
  <2> HIDE DEF unit
  <2> QED
    BY <1>1, <2>2, MulType, AddType
<1>5. gf \in Rat
  <2>1. fx -- avg.fx \in Rat /\ qty ** avg.native \in Rat
    BY <1>1, AddType, MulType
  <2>2. (qty ** avg.native) ** (fx -- avg.fx) \in Rat
    BY <2>1, MulType
  <2> QED
    BY <1>1, <2>2, AddType
<1>6. Zero \preceq qty
  BY NotNegative
<1>7. a = IF ~avg.long THEN avg ELSE IF Positive(left) THEN r ELSE flat
  BY DEF avg_close
<1>8. /\ Positive(left) => Greater(Zero, left) = left /\ left # Zero
      /\ ~Positive(left) => Greater(Zero, left) = Zero
  BY <1>2, NotNegative, ZeroType DEF Greater, Positive
<1>9. ~Positive(left) /\ qty \preceq avg.qty => left = Zero
  <2>1. qty \preceq avg.qty <=> Zero \preceq left
    BY OrderFacts
  <2> QED
    BY <1>2, <2>1, NotNegative
<1>10. gn -- (left ** avg.native) = AvgNative(avg) ++ (qty ** price)
  <2> DEFINE g == avg.gross_native
             held == avg.qty
             n == avg.native
  <2>1. g \in Rat /\ held \in Rat /\ n \in Rat
    BY <1>1
  <2> HIDE DEF g, held, n
  <2>2. (g ++ (qty ** (price -- n))) -- ((held -- qty) ** n) = (g -- (held ** n)) ++ (qty ** price)
    BY <2>1, AverageSale
  <2> QED
    BY <2>2 DEF AvgNative, g, held, n
<1>11. ASSUME realize PROVE gb -- (left ** avg.base) = AvgBase(avg) ++ (qty ** c)
  <2> DEFINE g == avg.gross_base
             held == avg.qty
             n == avg.base
  <2>1. g \in Rat /\ held \in Rat /\ n \in Rat
    BY <1>1
  <2>3. gb = g ++ (qty ** (c -- n))
    BY <1>11
  <2> HIDE DEF g, held, n, c, gb
  <2>2. (g ++ (qty ** (c -- n))) -- ((held -- qty) ** n) = (g -- (held ** n)) ++ (qty ** c)
    BY <1>2, <2>1, AverageSale
  <2> QED
    BY <2>2, <2>3 DEF AvgBase, g, held, n
<1>12. ASSUME avg.qty = Zero PROVE ~(qty \preceq avg.qty) /\ ~Positive(left)
  <2>1. ~(qty \preceq avg.qty)
    BY <1>12, ZeroType, OrderFacts DEF Positive
  <2>2. ~(Zero \preceq left)
    BY <2>1, <1>12, ZeroType, OrderFacts
  <2> QED
    BY <1>2, <2>1, <2>2, NotNegative
<1> HIDE DEF a, left, c, unit, gn, gb, gf
<1>13. r \in AvgSet /\ r.qty = left /\ r.gross_native = gn /\ r.gross_base = gb
       /\ r.native = avg.native /\ r.base = avg.base /\ r.long = avg.long
  BY <1>2, <1>3, <1>4, <1>5 DEF AvgSet
<1> HIDE DEF r
<1>14. flat \in AvgSet /\ flat.qty = Zero /\ flat.gross_native = gn /\ flat.gross_base = gb
       /\ flat.native = Zero /\ flat.base = Zero /\ flat.long = FALSE
  BY <1>13, ZeroType DEF AvgSet
<1> HIDE DEF flat
<1>15. CASE ~avg.long
  <2>1. a = avg /\ avg.qty = Zero
    BY <1>7, <1>15
  <2> QED
    BY <1>1, <1>8, <1>12, <1>15, <2>1 DEF AvgSold, left, a
<1>16. CASE avg.long /\ Positive(left)
  <2>1. a = r
    BY <1>7, <1>16
  <2>2. AvgNative(a) = AvgNative(avg) ++ (qty ** price)
    BY <1>10, <1>13, <2>1 DEF AvgNative
  <2>3. realize => AvgBase(a) = AvgBase(avg) ++ (qty ** c)
    BY <1>11, <1>13, <2>1 DEF AvgBase
  <2> QED
    BY <1>8, <1>13, <1>16, <2>1, <2>2, <2>3 DEF AvgSold, left, c, a
<1>17. CASE avg.long /\ ~Positive(left)
  <2>1. a = flat
    BY <1>7, <1>17
  <2>2. Zero ** Zero = Zero /\ Zero ** avg.native = Zero /\ Zero ** avg.base = Zero
    BY <1>1, MulUnit, ZeroType
  <2>3. left = Zero => AvgNative(a) = AvgNative(avg) ++ (qty ** price)
    BY <1>10, <1>14, <2>1, <2>2 DEF AvgNative
  <2>4. left = Zero /\ realize => AvgBase(a) = AvgBase(avg) ++ (qty ** c)
    BY <1>11, <1>14, <2>1, <2>2 DEF AvgBase
  <2> QED
    BY <1>8, <1>9, <1>14, <1>17, <2>1, <2>3, <2>4 DEF AvgSold, left, c, a
<1> QED
  BY <1>15, <1>16, <1>17

\* The instrument o is inst after a sale.
Closed(inst, qty, price, fx, realize, o) ==
  /\ InstOK(o)
  /\ FifoSold(inst.fifo, qty, price, fx, realize, o.fifo)
  /\ AvgSold(inst.avg, qty, price, fx, realize, o.avg)
  /\ IF o.fifo.qty = Zero /\ inst.cycle_open # NoEvent
     THEN o.cycle_count = inst.cycle_count + 1 /\ o.cycle_open = NoEvent /\ o.cycle_pnl = Zero
     ELSE /\ o.cycle_count = inst.cycle_count /\ o.cycle_open = inst.cycle_open
          /\ o.cycle_pnl = inst.cycle_pnl ++ (o.fifo.gross_base -- inst.fifo.gross_base)

LEMMA CloseQty ==
  ASSUME NEW inst, InstOK(inst), NEW qty \in Rat, Positive(qty), NEW price \in Rat,
         NEW fx \in Rat, NEW realize \in BOOLEAN
  PROVE  Closed(inst, qty, price, fx, realize, close_qty(inst, qty, price, fx, realize))
<1> DEFINE fifo == inst.fifo
           avg == inst.avg
           f == fifo_close(fifo, qty, price, fx, realize)
           a == avg_close(avg, qty, price, fx, realize)
           o == close_qty(inst, qty, price, fx, realize)
<1>1. /\ inst \in InstSet /\ avg \in AvgSet /\ avg.qty = fifo.qty /\ (avg.long <=> fifo.long)
      /\ fifo.gross_base \in Rat
      /\ inst.cycle_count \in Nat /\ inst.cycle_open \in Nat /\ inst.cycle_pnl \in Rat
  BY InstFields DEF InstOK
<1>2. fifo.qty \in Rat /\ Zero \preceq fifo.qty /\ (fifo.long <=> fifo.qty # Zero)
  BY InstTotals
<1>3. FifoSold(fifo, qty, price, fx, realize, f)
  BY FifoClose
<1>4. AvgSold(avg, qty, price, fx, realize, a)
  <2> HIDE DEF avg, fifo
  <2> QED
    BY <1>1, <1>2, AvgClose
<1>5. o = closed(inst, f, a)
  BY DEF close_qty
<1> HIDE DEF f, a, o
<1>6. /\ f \in FifoSet /\ AllPositive(f.lots) /\ f.qty = TotalQty(f.lots)
      /\ (f.long <=> f.qty # Zero) /\ f.qty = Greater(Zero, fifo.qty -- qty)
      /\ f.lots \in Seq(EquityLot) /\ f.gross_base \in Rat /\ f.qty \in Rat
  BY <1>3 DEF FifoSold, FifoSet
<1>7. a \in AvgSet /\ a.qty = f.qty /\ (a.long <=> f.long)
  BY <1>1, <1>4, <1>6 DEF AvgSold
<1>8. f.long <=> Positive(f.qty)
  <2>1. Zero \preceq TotalQty(f.lots)
    BY <1>6, LotSets, PositiveTotal
  <2> QED
    BY <1>6, <2>1, NotNegative
<1> DEFINE over == ~f.long /\ inst.cycle_open # NoEvent
           pnl == inst.cycle_pnl ++ (f.gross_base -- fifo.gross_base)
           count == inst.cycle_count + (IF over THEN 1 ELSE 0)
           copen == IF over THEN NoEvent ELSE inst.cycle_open
           cpnl == IF over THEN Zero ELSE pnl
<1>9. o = [fifo |-> f, avg |-> a, cycle_count |-> count, cycle_open |-> copen, cycle_pnl |-> cpnl]
  BY <1>5 DEF closed
<1>10. pnl \in Rat
  BY <1>1, <1>6, AddType
<1>11. over <=> f.qty = Zero /\ inst.cycle_open # NoEvent
  BY <1>6
<1> HIDE DEF pnl, fifo, avg
<1>12. count \in Nat /\ copen \in Nat /\ cpnl \in Rat
  BY <1>1, <1>10, ZeroType DEF NoEvent
<1>14. /\ over => count = inst.cycle_count + 1 /\ copen = NoEvent /\ cpnl = Zero
       /\ ~over => count = inst.cycle_count /\ copen = inst.cycle_open /\ cpnl = pnl
  BY <1>1
<1> HIDE DEF over, count, copen, cpnl
<1>13. /\ o \in InstSet /\ o.fifo = f /\ o.avg = a /\ o.cycle_count = count
       /\ o.cycle_open = copen /\ o.cycle_pnl = cpnl
  BY <1>6, <1>7, <1>9, <1>12 DEF InstSet
<1>15. InstOK(o)
  BY <1>6, <1>7, <1>8, <1>13 DEF InstOK
<1>16. Closed(inst, qty, price, fx, realize, o)
  BY <1>3, <1>4, <1>11, <1>13, <1>14, <1>15 DEF Closed, fifo, avg, pnl
<1> QED
  BY <1>16 DEF o

(***************************************************************************)
(* Sums that grow                                                          *)
(***************************************************************************)

LEMMA SumZero ==
  ASSUME NEW q \in Seq(Rat), \A i \in 1..Len(q) : q[i] = Zero
  PROVE  SumOf(q) = Zero
<1> DEFINE N == Len(q)
           S == {j \in Nat : j <= N => Sums(q)[j] = Zero}
<1>1. /\ N \in Nat /\ Sums(q)[0] = Zero
      /\ \A i \in 1..N : Sums(q)[i] = Sums(q)[i - 1] ++ q[i]
  BY SumsProp
<1>2. 0 \in S
  BY <1>1
<1>3. ASSUME NEW n \in Nat, n \in S PROVE n + 1 \in S
  <2> SUFFICES ASSUME n + 1 <= N PROVE Sums(q)[n + 1] = Zero
    OBVIOUS
  <2>1. n + 1 \in 1..N /\ (n + 1) - 1 = n
    BY <1>1
  <2>2. Sums(q)[n + 1] = Sums(q)[n] ++ q[n + 1] /\ Sums(q)[n] = Zero /\ q[n + 1] = Zero
    BY <1>1, <1>3, <2>1
  <2> QED
    BY <2>2, ZeroType, AddZero
<1> HIDE DEF S
<1>4. \A n \in Nat : n \in S
  BY <1>2, <1>3, Induction
<1> QED
  BY <1>1, <1>4 DEF S, SumOf

\* Sums of numbers that are not negative grow.
LEMMA SumsGrow ==
  ASSUME NEW q \in Seq(Rat), \A i \in 1..Len(q) : Zero \preceq q[i], NEW a \in 0..Len(q)
  PROVE  \A b \in a..Len(q) : Sums(q)[a] \preceq Sums(q)[b]
<1> DEFINE N == Len(q)
           S == {j \in Nat : a <= j /\ j <= N => Sums(q)[a] \preceq Sums(q)[j]}
<1>1. /\ N \in Nat /\ a \in Nat /\ a <= N
      /\ \A i \in 1..N : Sums(q)[i] = Sums(q)[i - 1] ++ q[i]
      /\ \A i \in 0..N : Sums(q)[i] \in Rat
      /\ \A i \in 1..N : q[i] \in Rat
  <2>1. N \in Nat /\ a \in Nat /\ a <= N /\ \A i \in 1..N : q[i] \in Rat
    OBVIOUS
  <2> QED
    BY <2>1, SumsProp
<1>2. Sums(q)[a] \in Rat /\ Sums(q)[a] \preceq Sums(q)[a]
  BY <1>1, OrderFacts
<1>3. 0 \in S
  <2>1. a <= 0 => a = 0
    BY <1>1
  <2> QED
    BY <1>2, <2>1
<1>4. ASSUME NEW n \in Nat, n \in S PROVE n + 1 \in S
  <2> SUFFICES ASSUME a <= n + 1, n + 1 <= N PROVE Sums(q)[a] \preceq Sums(q)[n + 1]
    OBVIOUS
  <2>1. CASE a = n + 1
    BY <1>2, <2>1
  <2>2. CASE a # n + 1
    <3>1. n + 1 \in 1..N /\ (n + 1) - 1 = n /\ a <= n /\ n <= N /\ n \in 0..N /\ n + 1 \in 0..N
      BY <1>1, <2>2
    <3>2. Sums(q)[n + 1] = Sums(q)[n] ++ q[n + 1] /\ Sums(q)[a] \preceq Sums(q)[n]
      BY <1>1, <1>4, <3>1
    <3> DEFINE x == Sums(q)[n]
               y == q[n + 1]
    <3>3. x \in Rat /\ y \in Rat /\ Zero \preceq y
      BY <1>1, <3>1
    <3> HIDE DEF x, y
    <3>4. x ++ y \in Rat /\ (x ++ y) -- x = y
      <4>1. x ++ y = y ++ x
        BY <3>3, AddComm
      <4> QED
        BY <3>3, <4>1, AddType, AddSub
    <3>5. x \preceq (x ++ y)
      BY <3>3, <3>4, OrderFacts
    <3> QED
      BY <1>2, <3>2, <3>3, <3>4, <3>5, OrderTrans DEF x, y
  <2> QED
    BY <2>1, <2>2
<1> HIDE DEF S
<1>5. \A n \in Nat : n \in S
  BY <1>3, <1>4, Induction
<1>6. \A b \in a..N : b \in Nat /\ a <= b /\ b <= N
  BY <1>1
<1> QED
  BY <1>5, <1>6 DEF S

\* A sum that is extended by one number.
LEMMA SumExtended ==
  ASSUME NEW N \in Nat, NEW p \in [1..N -> Rat], NEW r \in [1..N + 1 -> Rat],
         \A n \in 1..N : r[n] = p[n]
  PROVE  SumOf(r) = SumOf(p) ++ r[N + 1] /\ SumOf(p) \in Rat
<1>1. /\ p \in Seq(Rat) /\ Len(p) = N /\ DOMAIN p = 1..N
      /\ r \in Seq(Rat) /\ Len(r) = N + 1 /\ DOMAIN r = 1..N + 1
  <2>1. N + 1 \in Nat
    OBVIOUS
  <2> QED
    BY <2>1, FunSeq
<1>2. r[N + 1] \in Rat
  OBVIOUS
<1>3. r = Append(p, r[N + 1])
  <2> DEFINE a == Append(p, r[N + 1])
  <2>1. /\ a \in Seq(Rat) /\ Len(a) = N + 1 /\ a[N + 1] = r[N + 1]
        /\ \A n \in 1..N : a[n] = p[n]
    BY <1>1, <1>2
  <2> HIDE DEF a
  <2>2. \A n \in 1..N + 1 : a[n] = r[n]
    <3>1. \A n \in 1..N + 1 : n \in 1..N \/ n = N + 1
      OBVIOUS
    <3> QED
      BY <2>1, <3>1
  <2>3. a = r
    BY <1>1, <2>1, <2>2, SeqEqual
  <2> QED
    BY <2>3 DEF a
<1>4. SumOf(Append(p, r[N + 1])) = SumOf(p) ++ r[N + 1]
  BY <1>1, <1>2, SumAppend
<1> QED
  BY <1>1, <1>3, <1>4, SumType

(***************************************************************************)
(* What is open of a loan                                                  *)
(***************************************************************************)

IdIs(id) == [b \in BorrowLot |-> IF b.borrow_id = id THEN One ELSE Zero]
DebtOf(borrows, id) == ValSum(borrows, Weighed(BorrowLot, IdIs(id)))
Debt(st, c, id) == DebtOf(st.currencies[c].borrow_lots, id)
DebtTaken(borrows, t, id) == TakenVals(borrows, t, IdIs(id))

LEMMA BorrowFields ==
  ASSUME NEW b \in BorrowLot, NEW q \in Rat
  PROVE  /\ b.qty \in Rat /\ b.borrow_id \in BorrowId
         /\ [b EXCEPT !.qty = q] \in BorrowLot /\ [b EXCEPT !.qty = q].borrow_id = b.borrow_id
BY DEF BorrowLot

LEMMA IdWeight ==
  ASSUME NEW id
  PROVE  WeightOf(BorrowLot, IdIs(id)) /\ IdIs(id) \in [BorrowLot -> Rat]
<1>1. IdIs(id) \in [BorrowLot -> Rat]
  BY ZeroType, OneRatio DEF IdIs
<1>2. \A b \in BorrowLot : \A q \in Rat : IdIs(id)[[b EXCEPT !.qty = q]] = IdIs(id)[b]
  BY BorrowFields DEF IdIs
<1> QED
  BY <1>1, <1>2 DEF WeightOf

LEMMA IdWeighs ==
  ASSUME NEW id
  PROVE  /\ Weighed(BorrowLot, IdIs(id)) \in [BorrowLot -> Rat]
         /\ \A b \in BorrowLot :
              Weighed(BorrowLot, IdIs(id))[b] = IF b.borrow_id = id THEN b.qty ELSE Zero
<1>1. Weighed(BorrowLot, IdIs(id)) \in [BorrowLot -> Rat]
  BY LotSets, IdWeight, WeighedType
<1>2. ASSUME NEW b \in BorrowLot
      PROVE  Weighed(BorrowLot, IdIs(id))[b] = IF b.borrow_id = id THEN b.qty ELSE Zero
  <2>1. b.qty \in Rat
    BY DEF BorrowLot
  <2>2. b.qty ** One = b.qty /\ b.qty ** Zero = Zero
    BY <2>1, MulUnit
  <2>3. Weighed(BorrowLot, IdIs(id))[b]
          = b.qty ** (IF b.borrow_id = id THEN One ELSE Zero)
    BY DEF Weighed, IdIs
  <2> QED
    BY <2>2, <2>3
<1> QED
  BY <1>1, <1>2

LEMMA DebtIs ==
  ASSUME NEW borrows \in Seq(BorrowLot), NEW id
  PROVE  /\ OpenQty(borrows, id) = DebtOf(borrows, id)
         /\ DebtOf(borrows, id) \in Rat
<1> DEFINE val == Weighed(BorrowLot, IdIs(id))
           p == Vals(borrows, val)
           r == [i \in DOMAIN borrows |-> IF borrows[i].borrow_id = id THEN borrows[i].qty
                                          ELSE Zero]
<1>1. val \in [BorrowLot -> Rat]
  BY IdWeighs
<1>2. /\ p \in Seq(Rat) /\ Len(p) = Len(borrows) /\ SumOf(p) \in Rat
      /\ \A i \in 1..Len(borrows) : p[i] = val[borrows[i]]
  <2> HIDE DEF val
  <2> QED
    BY <1>1, ValsType DEF ValSum
<1>3. \A i \in 1..Len(borrows) : p[i] = r[i]
  BY <1>2, IdWeighs
<1>4. r = p
  <2>1. r = [i \in 1..Len(borrows) |-> r[i]] /\ p = [i \in 1..Len(borrows) |-> p[i]]
    BY DEF Vals
  <2> HIDE DEF r, p
  <2> QED
    BY <1>3, <2>1
<1>5. OpenQty(borrows, id) = SumOf(r)
  BY DEF OpenQty, Total
<1> QED
  BY <1>2, <1>4, <1>5 DEF DebtOf, ValSum

\* A loan is open while one of its lots is there.
LEMMA DebtSign ==
  ASSUME NEW borrows \in Seq(BorrowLot), AllPositive(borrows), NEW id
  PROVE  /\ Zero \preceq DebtOf(borrows, id)
         /\ \A n \in DOMAIN borrows :
              borrows[n].borrow_id = id => Positive(DebtOf(borrows, id))
         /\ (\A n \in DOMAIN borrows : borrows[n].borrow_id # id) => DebtOf(borrows, id) = Zero
<1> DEFINE val == Weighed(BorrowLot, IdIs(id))
           p == Vals(borrows, val)
           N == Len(borrows)
<1>1. /\ p \in Seq(Rat) /\ Len(p) = N /\ DebtOf(borrows, id) = SumOf(p)
      /\ \A i \in 1..N : p[i] = val[borrows[i]] /\ borrows[i] \in BorrowLot
  <2>1. val \in [BorrowLot -> Rat]
    BY IdWeighs
  <2> HIDE DEF val
  <2> QED
    BY <2>1, ValsType DEF ValSum, DebtOf, val
<1>2. \A i \in 1..N : /\ p[i] = IF borrows[i].borrow_id = id THEN borrows[i].qty ELSE Zero
                      /\ borrows[i].qty \in Rat /\ Positive(borrows[i].qty)
  <2> SUFFICES ASSUME NEW i \in 1..N
               PROVE  /\ p[i] = IF borrows[i].borrow_id = id THEN borrows[i].qty ELSE Zero
                      /\ borrows[i].qty \in Rat /\ Positive(borrows[i].qty)
    OBVIOUS
  <2>1. i \in DOMAIN borrows
    OBVIOUS
  <2>2. Positive(borrows[i].qty)
    BY <2>1 DEF AllPositive
  <2> DEFINE b == borrows[i]
  <2>3. p[i] = val[b] /\ b \in BorrowLot
    BY <1>1
  <2> HIDE DEF b, p
  <2>4. val[b] = IF b.borrow_id = id THEN b.qty ELSE Zero
    BY <2>3, IdWeighs
  <2>5. b.qty \in Rat
    BY <2>3 DEF BorrowLot
  <2> QED
    BY <2>2, <2>3, <2>4, <2>5 DEF b
<1> HIDE DEF p, val
<1>3. \A i \in 1..N : Zero \preceq p[i] /\ (borrows[i].borrow_id = id => Positive(p[i]))
  <2> TAKE i \in 1..N
  <2>1. Zero \preceq borrows[i].qty
    BY <1>2, NotNegative
  <2>2. Zero \preceq Zero
    BY ZeroType, NotNegative
  <2> QED
    BY <1>2, <2>1, <2>2
<1>4. /\ N \in Nat /\ Sums(p)[0] = Zero /\ SumOf(p) = Sums(p)[N]
      /\ \A i \in 0..N : Sums(p)[i] \in Rat
      /\ \A i \in 1..N : Sums(p)[i] = Sums(p)[i - 1] ++ p[i] /\ p[i] \in Rat
  BY <1>1, SumsProp DEF SumOf
<1>5. \A a \in 0..N : \A b \in a..N : Sums(p)[a] \preceq Sums(p)[b]
  BY <1>1, <1>3, SumsGrow
<1>6. Zero \preceq SumOf(p)
  <2>1. 0 \in 0..N /\ N \in 0..N
    BY <1>4
  <2> QED
    BY <1>4, <1>5, <2>1
<1>7. ASSUME NEW n \in DOMAIN borrows, borrows[n].borrow_id = id PROVE Positive(SumOf(p))
  <2>1. n \in 1..N /\ n - 1 \in 0..N /\ 0 \in 0..N /\ n - 1 \in 0..N /\ N \in n..N /\ n \in 0..N
    BY <1>4
  <2> DEFINE a == Sums(p)[n - 1]
             b == Sums(p)[n]
             x == p[n]
  <2>2. /\ a \in Rat /\ b \in Rat /\ x \in Rat /\ b = a ++ x /\ Positive(x)
        /\ Zero \preceq a /\ Zero \preceq x /\ b \preceq SumOf(p) /\ SumOf(p) \in Rat
    BY <1>3, <1>4, <1>5, <1>7, <2>1
  <2> HIDE DEF a, b, x
  <2>3. Positive(b)
    BY <2>2, NonNegativeSum
  <2> QED
    BY <2>2, <2>3, ZeroType, OrderTrans DEF Positive
<1>8. (\A n \in DOMAIN borrows : borrows[n].borrow_id # id) => SumOf(p) = Zero
  <2> SUFFICES ASSUME \A n \in DOMAIN borrows : borrows[n].borrow_id # id
               PROVE  SumOf(p) = Zero
    OBVIOUS
  <2>1. \A i \in 1..Len(p) : p[i] = Zero
    BY <1>1, <1>2
  <2> QED
    BY <1>1, <2>1, SumZero
<1> QED
  BY <1>1, <1>6, <1>7, <1>8

\* What is taken of a loan, and what that leaves.
LEMMA DebtRest ==
  ASSUME NEW borrows \in Seq(BorrowLot), AllPositive(borrows), NEW qty \in Rat,
         Zero \preceq qty, NEW t, t = Taken(borrows, qty), NEW id
  PROVE  /\ DebtOf(Rest(borrows, qty), id)
              = DebtOf(borrows, id) -- SumOf(DebtTaken(borrows, t, id))
         /\ DebtTaken(borrows, t, id) \in Seq(Rat)
         /\ Len(DebtTaken(borrows, t, id)) = Len(borrows)
         /\ \A i \in 1..Len(borrows) :
              /\ DebtTaken(borrows, t, id)[i]
                   = IF borrows[i].borrow_id = id THEN t[i] ELSE Zero
              /\ Zero \preceq DebtTaken(borrows, t, id)[i]
         /\ SumOf(DebtTaken(borrows, t, id)) \in Rat
         /\ SumOf(DebtTaken(borrows, t, id)) \preceq DebtOf(borrows, id)
         /\ DebtOf(Rest(borrows, qty), id) \in Rat
         /\ Zero \preceq DebtOf(Rest(borrows, qty), id)
<1> DEFINE w == IdIs(id)
           d == DebtTaken(borrows, t, id)
           rest == Rest(borrows, qty)
<1>1. TakenWell(borrows, t, qty)
  BY LotSets, TakenFacts
<1>2. /\ t \in Seq(Rat) /\ Len(t) = Len(borrows)
      /\ \A i \in 1..Len(borrows) : t[i] \in Rat /\ Zero \preceq t[i]
  BY <1>1 DEF TakenWell
<1>3. w \in [BorrowLot -> Rat] /\ WeightOf(BorrowLot, w)
  BY IdWeight
<1>4. /\ d \in Seq(Rat) /\ Len(d) = Len(borrows) /\ SumOf(d) \in Rat
      /\ \A i \in 1..Len(borrows) : d[i] = t[i] ** w[borrows[i]]
  <2> HIDE DEF w
  <2> QED
    BY <1>2, <1>3, TakenValsType DEF DebtTaken, w
<1>5. DebtOf(rest, id) = DebtOf(borrows, id) -- SumOf(d)
  <2> HIDE DEF w
  <2>1. ValSum(Rest(borrows, qty), Weighed(BorrowLot, w))
          = ValSum(borrows, Weighed(BorrowLot, w))
              -- SumOf(TakenVals(borrows, Taken(borrows, qty), w))
    BY <1>3, LotSets, RestSum
  <2> QED
    BY <2>1 DEF DebtOf, w, DebtTaken
<1>6. \A i \in 1..Len(borrows) :
        /\ d[i] = IF borrows[i].borrow_id = id THEN t[i] ELSE Zero
        /\ Zero \preceq d[i]
  <2> SUFFICES ASSUME NEW i \in 1..Len(borrows)
               PROVE  /\ d[i] = IF borrows[i].borrow_id = id THEN t[i] ELSE Zero
                      /\ Zero \preceq d[i]
    OBVIOUS
  <2>1. w[borrows[i]] = IF borrows[i].borrow_id = id THEN One ELSE Zero
    BY DEF IdIs
  <2>2. t[i] ** One = t[i] /\ t[i] ** Zero = Zero
    BY <1>2, MulUnit
  <2>3. Zero \preceq Zero
    BY ZeroType, NotNegative
  <2> QED
    BY <1>2, <1>4, <2>1, <2>2, <2>3
<1>7. rest \in Seq(BorrowLot) /\ AllPositive(rest)
  BY LotSets, RestType
<1> HIDE DEF d, rest, w
<1>8. DebtOf(rest, id) \in Rat /\ Zero \preceq DebtOf(rest, id)
  BY <1>7, DebtIs, DebtSign
<1>9. DebtOf(borrows, id) \in Rat
  BY DebtIs
<1>10. SumOf(d) \preceq DebtOf(borrows, id)
  BY <1>4, <1>5, <1>8, <1>9, OrderFacts
<1> QED
  BY <1>4, <1>5, <1>6, <1>8, <1>10 DEF d, rest

LEMMA DebtAppend ==
  ASSUME NEW borrows \in Seq(BorrowLot), NEW b \in BorrowLot, NEW id
  PROVE  DebtOf(Append(borrows, b), id)
           = DebtOf(borrows, id) ++ (IF b.borrow_id = id THEN b.qty ELSE Zero)
<1> DEFINE val == Weighed(BorrowLot, IdIs(id))
<1>1. val \in [BorrowLot -> Rat] /\ val[b] = IF b.borrow_id = id THEN b.qty ELSE Zero
  BY IdWeighs
<1> HIDE DEF val
<1> QED
  BY <1>1, ValSumAppend DEF DebtOf, val

(***************************************************************************)
(* What a cover does to the registry and to the books                      *)
(***************************************************************************)

\* The fee that is booked, and the gain, when the loan pb is settled.
FeeOf(pb)  == IF pb.finalized /\ pb.consumer_kind = "buy" THEN pb.fee_native ELSE Zero
GainOf(pb) ==
  IF pb.finalized /\ pb.consumer_kind # "buy"
  THEN (pb.borrowed_qty ** pb.from_broker_fx) -- pb.weighted ELSE Zero

\* The entry of the loan id goes from pb to new.
EntryStep(pb, new, qty, fx) ==
  /\ new \in PendingSet
  /\ SameLoan(pb, new)
  /\ new.covered_qty = pb.covered_qty ++ qty
  /\ new.weighted = pb.weighted ++ (qty ** fx)
  /\ new.finalized <=> fully_covered(new)

\* Only the books of its currency change.
BooksStep(st, s, new) ==
  /\ \A c \in Currency : c # new.from_ccy => s.currencies[c] = st.currencies[c]
  /\ s.currencies[new.from_ccy].fees_native
       = st.currencies[new.from_ccy].fees_native ++ FeeOf(new)
  /\ s.currencies[new.from_ccy].gain_fifo
       = st.currencies[new.from_ccy].gain_fifo ++ GainOf(new)
  /\ s.buy_fx_basis = IF new.finalized /\ new.consumer_kind = "buy"
                      THEN Put(st.buy_fx_basis, new.consumer, margin_basis(new))
                      ELSE st.buy_fx_basis

OthersKept(st, s, id) ==
  /\ DOMAIN s.pending_borrows = DOMAIN st.pending_borrows
  /\ \A j \in DOMAIN st.pending_borrows :
       j # id => s.pending_borrows[j] = st.pending_borrows[j]

LEMMA Settles ==
  ASSUME NEW pb \in PendingSet
  PROVE  /\ settled(pb) \in PendingSet
         /\ SameLoan(pb, settled(pb))
         /\ settled(pb).finalized = TRUE
         /\ settled(pb).covered_qty = pb.covered_qty /\ settled(pb).weighted = pb.weighted
         /\ margin_basis(settled(pb)) = margin_basis(pb)
         /\ fully_covered(settled(pb)) <=> fully_covered(pb)
<1>1. pb \in PendingRecord /\ Positive(pb.borrowed_qty) /\ Zero \preceq pb.lot_backed_qty
  BY DEF PendingSet
<1>2. settled(pb) \in PendingRecord
  BY <1>1 DEF settled, PendingRecord
<1>3. /\ SameLoan(pb, settled(pb))
      /\ settled(pb).finalized = TRUE
      /\ settled(pb).covered_qty = pb.covered_qty /\ settled(pb).weighted = pb.weighted
  BY <1>1 DEF settled, PendingRecord, SameLoan
<1> QED
  BY <1>1, <1>2, <1>3 DEF PendingSet, SameLoan, margin_basis, fully_covered

LEMMA OnCoverStep ==
  ASSUME NEW st \in StateSet, NEW id, Open(st, id), NEW qty \in Rat, NEW fx \in Rat,
         NEW s, s = on_cover(st, id, qty, fx)
  PROVE  /\ id \in DOMAIN st.pending_borrows
         /\ EntryStep(st.pending_borrows[id], s.pending_borrows[id], qty, fx)
         /\ BooksStep(st, s, s.pending_borrows[id])
         /\ OthersKept(st, s, id)
<1> DEFINE old == st.pending_borrows[id]
           pb == After(st, id, qty, fx)
           done == Settled(st, id, qty, fx)
           b == st.currencies[pb.from_ccy]
<1>1. id \in DOMAIN st.pending_borrows /\ old \in PendingSet /\ ~old.finalized
  <2>1. id \in DOMAIN st.pending_borrows
    BY DEF Open
  <2> QED
    BY <2>1, StateFields, PartialType DEF Open
<1>2. /\ pb \in PendingSet /\ SameLoan(old, pb)
      /\ pb.covered_qty = old.covered_qty ++ qty /\ pb.weighted = old.weighted ++ (qty ** fx)
      /\ pb.finalized = old.finalized
  <2> HIDE DEF old
  <2>1. pb = covered_by(old, qty, fx)
    BY DEF After, old
  <2> HIDE DEF pb
  <2>2. /\ covered_by(old, qty, fx) \in PendingSet
        /\ covered_by(old, qty, fx).covered_qty = old.covered_qty ++ qty
        /\ covered_by(old, qty, fx).weighted = old.weighted ++ (qty ** fx)
    BY <1>1, CoveredBy
  <2>3. old \in PendingSet
    BY <1>1
  <2>4. SameLoan(old, covered_by(old, qty, fx))
    BY <2>3, SameLoans
  <2>5. covered_by(old, qty, fx).finalized = old.finalized
    BY <2>3, SameLoans, Zenon
  <2> QED
    BY <2>1, <2>2, <2>4, <2>5
<1>3. pb.from_ccy \in Currency /\ pb.consumer \in Nat /\ pb.fee_native \in Rat
      /\ pb.borrowed_qty \in Rat /\ pb.from_broker_fx \in Rat /\ pb.weighted \in Rat
  <2> HIDE DEF pb
  <2> QED
    BY <1>2, PendingFields
<1>4. /\ settled(pb) \in PendingSet
      /\ SameLoan(pb, settled(pb))
      /\ settled(pb).finalized = TRUE
      /\ settled(pb).covered_qty = pb.covered_qty /\ settled(pb).weighted = pb.weighted
      /\ margin_basis(settled(pb)) = margin_basis(pb)
      /\ fully_covered(settled(pb)) <=> fully_covered(pb)
  <2> HIDE DEF pb
  <2> QED
    BY <1>2, Settles
<1>5. /\ done \in StateSet
      /\ DOMAIN done.pending_borrows = DOMAIN st.pending_borrows
      /\ done.pending_borrows[id] = settled(pb)
      /\ \A j \in DOMAIN st.pending_borrows : j # id =>
           done.pending_borrows[j] = st.pending_borrows[j]
      /\ done.currencies = st.currencies
      /\ done.buy_fx_basis = st.buy_fx_basis
  <2>1. done = WithPending(st, id, settled(pb))
    BY DEF Settled
  <2> HIDE DEF done, pb
  <2> QED
    BY <1>1, <1>4, <2>1, WithPendingType
<1>6. b \in BucketSet /\ b.fees_native \in Rat /\ b.gain_fifo \in Rat
  BY <1>3, StateFields, BucketFields
<1>7. EntryStep(old, settled(pb), qty, fx) <=> fully_covered(pb)
  BY <1>2, <1>4 DEF EntryStep, SameLoan
<1>8. CASE ~fully_covered(pb)
  <2>1. s = WithPending(st, id, pb)
    BY <1>8, OnCoverIs
  <2>2. /\ DOMAIN s.pending_borrows = DOMAIN st.pending_borrows
        /\ s.pending_borrows[id] = pb
        /\ \A j \in DOMAIN st.pending_borrows : j # id =>
             s.pending_borrows[j] = st.pending_borrows[j]
        /\ s.currencies = st.currencies
        /\ s.buy_fx_basis = st.buy_fx_basis
    <3> HIDE DEF pb
    <3> QED
      BY <1>1, <1>2, <2>1, WithPendingType
  <2>3. EntryStep(old, pb, qty, fx)
    BY <1>1, <1>2, <1>8 DEF EntryStep
  <2>4. FeeOf(pb) = Zero /\ GainOf(pb) = Zero
    BY <1>1, <1>2 DEF FeeOf, GainOf
  <2> HIDE DEF pb, b, old
  <2>5. b.fees_native = b.fees_native ++ FeeOf(pb) /\ b.gain_fifo = b.gain_fifo ++ GainOf(pb)
    BY <1>6, <2>4, AddZero
  <2>6. BooksStep(st, s, pb)
    BY <1>1, <1>2, <2>2, <2>5 DEF BooksStep, b
  <2> QED
    BY <1>1, <2>2, <2>3, <2>6 DEF OthersKept, old
<1>9. CASE fully_covered(pb) /\ pb.consumer_kind = "buy"
  <2> DEFINE basis == margin_basis(pb)
             b2 == fees_added(b, pb.fee_native, basis)
             booked == FeeBooked(st, done, pb)
  <2>1. s = WithBasis(booked, pb.consumer, basis)
    BY <1>9, OnCoverIs
  <2>2. basis \in Rat
    <3> HIDE DEF pb
    <3> QED
      BY <1>2, <1>9, MarginBasis
  <2>3. b2 \in BucketSet /\ b2.fees_native = b.fees_native ++ pb.fee_native
        /\ b2.gain_fifo = b.gain_fifo
    <3>1. b \in BucketSet /\ pb.fee_native \in Rat
      BY <1>3, <1>6
    <3> HIDE DEF pb, b, basis
    <3>2. b2 \in BucketSet
      BY <2>2, <3>1, FeesAdded
    <3>3. b2.fees_native = b.fees_native ++ pb.fee_native
      BY <2>2, <3>1, FeesAdded
    <3>4. b2.gain_fifo = b.gain_fifo
      BY <2>2, <3>1, FeesAdded DEF SameGains
    <3> QED
      BY <3>2, <3>3, <3>4
  <2>4. booked = WithBucket(done, pb.from_ccy, b2)
    BY DEF FeeBooked
  <2> HIDE DEF done, pb, b, booked, b2, basis, old
  <2>5. /\ booked \in StateSet
        /\ booked.currencies[pb.from_ccy] = b2
        /\ \A c \in Currency : c # pb.from_ccy => booked.currencies[c] = st.currencies[c]
        /\ booked.pending_borrows = done.pending_borrows
        /\ booked.buy_fx_basis = st.buy_fx_basis
    BY <1>3, <1>5, <2>3, <2>4, WithBucketType
  <2>6. /\ s.currencies = booked.currencies
        /\ s.pending_borrows = done.pending_borrows
        /\ s.buy_fx_basis = Put(st.buy_fx_basis, pb.consumer, basis)
    <3> DEFINE n == pb.consumer
    <3>1. n \in Nat /\ s = WithBasis(booked, n, basis)
      BY <1>3, <2>1
    <3> HIDE DEF n
    <3>2. /\ s.currencies = booked.currencies
          /\ s.pending_borrows = booked.pending_borrows
          /\ s.buy_fx_basis = Put(booked.buy_fx_basis, n, basis)
      BY <2>2, <2>5, <3>1, WithBasisType
    <3> QED
      BY <2>5, <3>2 DEF n
  <2> DEFINE new == settled(pb)
  <2>7. s.pending_borrows[id] = new /\ OthersKept(st, s, id)
    BY <1>5, <2>6 DEF OthersKept
  <2>8. /\ new.from_ccy = pb.from_ccy /\ new.consumer_kind = "buy" /\ new.finalized
        /\ new.consumer = pb.consumer /\ new.fee_native = pb.fee_native
        /\ margin_basis(new) = basis
    BY <1>4, <1>9 DEF SameLoan, basis
  <2> HIDE DEF new
  <2>9. FeeOf(new) = pb.fee_native /\ GainOf(new) = Zero
    BY <2>8 DEF FeeOf, GainOf
  <2>10. b.gain_fifo = b.gain_fifo ++ GainOf(new)
    BY <1>6, <2>9, AddZero
  <2>11. /\ s.currencies[new.from_ccy].fees_native = b.fees_native ++ FeeOf(new)
         /\ s.currencies[new.from_ccy].gain_fifo = b.gain_fifo ++ GainOf(new)
    BY <2>3, <2>5, <2>6, <2>8, <2>9, <2>10
  <2>12. \A c \in Currency : c # new.from_ccy => s.currencies[c] = st.currencies[c]
    BY <2>5, <2>6, <2>8
  <2>13. BooksStep(st, s, new)
    BY <2>6, <2>8, <2>11, <2>12 DEF BooksStep, b
  <2> QED
    BY <1>1, <1>7, <1>9, <2>7, <2>13 DEF new, old
<1>10. CASE fully_covered(pb) /\ pb.consumer_kind # "buy"
  <2> DEFINE gain == (pb.borrowed_qty ** pb.from_broker_fx) -- pb.weighted
             b2 == gained(b, gain)
  <2>1. s = WithBucket(done, pb.from_ccy, b2)
    BY <1>10, OnCoverIs DEF GainBooked
  <2>2. gain \in Rat
    BY <1>3, MulType, AddType
  <2>3. b2 \in BucketSet /\ b2.gain_fifo = b.gain_fifo ++ gain /\ b2.fees_native = b.fees_native
    <3> HIDE DEF b, gain
    <3> QED
      BY <1>6, <2>2, GainAdded
  <2> HIDE DEF done, pb, b, b2, gain, old
  <2>4. /\ s.currencies[pb.from_ccy] = b2
        /\ \A c \in Currency : c # pb.from_ccy => s.currencies[c] = st.currencies[c]
        /\ s.pending_borrows = done.pending_borrows
        /\ s.buy_fx_basis = st.buy_fx_basis
    BY <1>3, <1>5, <2>1, <2>3, WithBucketType
  <2> DEFINE new == settled(pb)
  <2>5. s.pending_borrows[id] = new /\ OthersKept(st, s, id)
    BY <1>5, <2>4 DEF OthersKept
  <2>6. /\ new.from_ccy = pb.from_ccy /\ new.consumer_kind # "buy" /\ new.finalized
        /\ new.borrowed_qty = pb.borrowed_qty /\ new.from_broker_fx = pb.from_broker_fx
        /\ new.weighted = pb.weighted
    BY <1>4, <1>10 DEF SameLoan
  <2> HIDE DEF new
  <2>7. FeeOf(new) = Zero /\ GainOf(new) = gain
    BY <2>6 DEF FeeOf, GainOf, gain
  <2>8. b.fees_native = b.fees_native ++ FeeOf(new)
    BY <1>6, <2>7, AddZero
  <2>9. BooksStep(st, s, new)
    BY <2>3, <2>4, <2>6, <2>7, <2>8 DEF BooksStep, b
  <2> QED
    BY <1>1, <1>7, <1>10, <2>5, <2>9 DEF new, old
<1> QED
  BY <1>8, <1>9, <1>10

(***************************************************************************)
(* The loans that a deposit covers                                         *)
(***************************************************************************)

LEMMA EntrySame ==
  ASSUME NEW pb \in PendingSet, pb.finalized <=> fully_covered(pb), NEW fx \in Rat
  PROVE  EntryStep(pb, pb, Zero, fx)
<1>1. pb.covered_qty \in Rat /\ pb.weighted \in Rat
  BY PendingFields
<1>2. Zero ** fx = Zero
  BY MulUnit
<1>3. pb.covered_qty ++ Zero = pb.covered_qty /\ pb.weighted ++ (Zero ** fx) = pb.weighted
  BY <1>1, <1>2, AddZero
<1> QED
  BY <1>3 DEF EntryStep, SameLoan

LEMMA EntryTrans ==
  ASSUME NEW pb \in PendingSet, NEW a, NEW b, NEW q \in Rat, NEW r \in Rat, NEW fx \in Rat,
         EntryStep(pb, a, q, fx), EntryStep(a, b, r, fx)
  PROVE  EntryStep(pb, b, q ++ r, fx)
<1> DEFINE x == pb.covered_qty
           y == pb.weighted
<1>1. x \in Rat /\ y \in Rat /\ q ** fx \in Rat /\ r ** fx \in Rat
  BY PendingFields, MulType
<1>2. /\ a.covered_qty = x ++ q /\ a.weighted = y ++ (q ** fx) /\ SameLoan(pb, a)
      /\ b.covered_qty = a.covered_qty ++ r /\ b.weighted = a.weighted ++ (r ** fx)
      /\ SameLoan(a, b) /\ b \in PendingSet /\ (b.finalized <=> fully_covered(b))
  BY DEF EntryStep
<1> HIDE DEF x, y
<1>3. b.covered_qty = x ++ (q ++ r)
  BY <1>1, <1>2, AddAssoc
<1>4. b.weighted = y ++ ((q ** fx) ++ (r ** fx))
  BY <1>1, <1>2, AddAssoc
<1>5. (q ++ r) ** fx = (q ** fx) ++ (r ** fx)
  BY MulDist
<1>6. SameLoan(pb, b)
  BY <1>2 DEF SameLoan
<1> QED
  BY <1>2, <1>3, <1>4, <1>5, <1>6 DEF EntryStep, x, y

\* A loan of which something is covered, within what is open of it, was open.
LEMMA StillOpen ==
  ASSUME NEW pb \in PendingSet, NEW a, NEW q \in Rat, NEW u \in Rat, NEW fx \in Rat,
         EntryStep(pb, a, q, fx), Positive(u),
         (q ++ u) \preceq (pb.borrowed_qty -- pb.covered_qty)
  PROVE  ~a.finalized
<1> DEFINE x == pb.covered_qty
           b == pb.borrowed_qty
           y == a.covered_qty
<1>1. x \in Rat /\ b \in Rat
  BY PendingFields
<1>2. y = x ++ q /\ a.borrowed_qty = b
  BY DEF EntryStep, SameLoan
<1>3. (q ++ u) \preceq (b -- x)
  OBVIOUS
<1>4. a.finalized <=> b \preceq y
  BY <1>2 DEF EntryStep, fully_covered
<1> HIDE DEF x, b, y
<1>5. ~(b \preceq y)
  <2>1. PICK d \in Pos, i \in Int, j \in Int, k \in Int, m \in Int :
          x = Reduced(i, d) /\ b = Reduced(j, d) /\ q = Reduced(k, d) /\ u = Reduced(m, d)
    <3>1. HaveCommon(x, b, q, u)
      BY <1>1, Common4
    <3> QED
      BY <3>1 DEF HaveCommon
  <2>2. i + k \in Int /\ k + m \in Int /\ j - i \in Int
    OBVIOUS
  <2>3. y = Reduced(i + k, d) /\ q ++ u = Reduced(k + m, d) /\ b -- x = Reduced(j - i, d)
    BY <1>2, <2>1, RatioAdd
  <2>4. 0 < m
    BY <2>1, RatioPositive
  <2>5. k + m <= j - i
    BY <1>3, <2>2, <2>3, RatioLess
  <2>6. ~(j <= i + k)
    BY <2>4, <2>5
  <2> QED
    BY <2>1, <2>2, <2>3, <2>6, RatioLess
<1> QED
  BY <1>4, <1>5

\* One turn of the loop: the entry of the loan id gets what is taken of it.
LEMMA EntryTurn ==
  ASSUME NEW st \in StateSet, NEW id \in DOMAIN st.pending_borrows, NEW lot \in BorrowLot,
         NEW u \in Rat, Zero \preceq u, NEW fx \in Rat, NEW pb \in PendingSet, NEW q \in Rat,
         EntryStep(pb, st.pending_borrows[id], q, fx),
         NEW v, v = (IF lot.borrow_id = id THEN u ELSE Zero),
         (q ++ v) \preceq (pb.borrowed_qty -- pb.covered_qty),
         NEW s, s = (IF u = Zero THEN st ELSE on_cover(st, lot.borrow_id, u, fx))
  PROVE  EntryStep(pb, s.pending_borrows[id], q ++ v, fx)
<1> DEFINE a == st.pending_borrows[id]
<1>1. v = Zero => q ++ v = q
  BY AddZero
<1>2. CASE s = st
  <2>1. v = Zero
    <3>1. CASE u = Zero
      BY <3>1
    <3>2. CASE u # Zero /\ lot.borrow_id # id
      BY <3>2
    <3>3. CASE u # Zero /\ lot.borrow_id = id
      <4>1. Positive(u) /\ v = u
        BY <3>3, NotNegative
      <4>2. ~a.finalized
        <5> HIDE DEF a
        <5>1. EntryStep(pb, a, q, fx)
          BY DEF a
        <5> QED
          BY <4>1, <5>1, StillOpen
      <4>3. Open(st, id)
        BY <4>2 DEF Open
      <4>4. s = on_cover(st, id, u, fx)
        BY <3>3
      <4>5. EntryStep(a, s.pending_borrows[id], u, fx)
        BY <4>3, <4>4, OnCoverStep
      <4>6. a.covered_qty = a.covered_qty ++ u /\ a.covered_qty \in Rat
        <5>1. a \in PendingSet
          BY StateFields, PartialType
        <5> HIDE DEF a
        <5> QED
          BY <1>2, <4>5, <5>1, PendingFields DEF EntryStep, a
      <4>7. u = Zero
        <5> DEFINE z == a.covered_qty
        <5> HIDE DEF a, z
        <5>1. (z ++ u) -- (z ++ Zero) = u -- Zero
          BY <4>6, ZeroType, SubFrom DEF z
        <5>2. z ++ Zero = z /\ z -- z = Zero /\ u -- Zero = u
          BY <4>6, AddZero DEF z
        <5> QED
          BY <4>6, <5>1, <5>2 DEF z
      <4> QED
        BY <3>3, <4>7
    <3> QED
      BY <3>1, <3>2, <3>3
  <2> QED
    BY <1>1, <1>2, <2>1
<1>3. CASE s # st
  <2>1. u # Zero /\ s = on_cover(st, lot.borrow_id, u, fx) /\ Open(st, lot.borrow_id)
    <3>1. u # Zero
      BY <1>3
    <3>2. s = on_cover(st, lot.borrow_id, u, fx)
      BY <3>1
    <3> QED
      BY <1>3, <3>1, <3>2, OnCoverIs
  <2>2. CASE lot.borrow_id = id
    <3>1. EntryStep(a, s.pending_borrows[id], u, fx)
      BY <2>1, <2>2, OnCoverStep
    <3>2. v = u
      BY <2>2
    <3> HIDE DEF a
    <3> QED
      BY <3>1, <3>2, EntryTrans DEF a
  <2>3. CASE lot.borrow_id # id
    <3>1. OthersKept(st, s, lot.borrow_id)
      BY <2>1, OnCoverStep
    <3>2. s.pending_borrows[id] = a
      BY <2>3, <3>1 DEF OthersKept
    <3>3. v = Zero
      BY <2>3
    <3> QED
      BY <1>1, <3>2, <3>3
  <2> QED
    BY <2>2, <2>3
<1> QED
  BY <1>2, <1>3

\* What the turns of the loop take of a loan stays within what is open of it.
LEMMA DebtSums ==
  ASSUME NEW borrows \in Seq(BorrowLot), AllPositive(borrows), NEW qty \in Rat,
         Zero \preceq qty, NEW t, t = Taken(borrows, qty), NEW id, NEW left \in Rat,
         DebtOf(borrows, id) \preceq left, NEW d, d = DebtTaken(borrows, t, id)
  PROVE  /\ Sums(d)[0] = Zero /\ SumOf(d) = Sums(d)[Len(borrows)]
         /\ \A i \in 0..Len(borrows) : Sums(d)[i] \in Rat /\ Sums(d)[i] \preceq left
         /\ \A i \in 1..Len(borrows) :
              /\ d[i] = IF borrows[i].borrow_id = id THEN t[i] ELSE Zero
              /\ d[i] \in Rat /\ Sums(d)[i] = Sums(d)[i - 1] ++ d[i]
<1> DEFINE N == Len(borrows)
<1>1. /\ d \in Seq(Rat) /\ Len(d) = N /\ SumOf(d) \preceq DebtOf(borrows, id)
      /\ \A i \in 1..N : /\ d[i] = IF borrows[i].borrow_id = id THEN t[i] ELSE Zero
                         /\ Zero \preceq d[i]
  BY DebtRest
<1>2. DebtOf(borrows, id) \in Rat /\ N \in Nat
  BY DebtIs
<1> HIDE DEF N
<1>3. /\ Sums(d) \in [0..N -> Rat] /\ Sums(d)[0] = Zero
      /\ \A i \in 1..N : Sums(d)[i] = Sums(d)[i - 1] ++ d[i] /\ d[i] \in Rat
  BY <1>1, SumsProp
<1>4. SumOf(d) = Sums(d)[N]
  BY <1>1 DEF SumOf
<1>5. \A a \in 0..N : \A b \in a..N : Sums(d)[a] \preceq Sums(d)[b]
  BY <1>1, SumsGrow
<1>6. \A i \in 0..N : Sums(d)[i] \in Rat /\ Sums(d)[i] \preceq left
  <2> TAKE i \in 0..N
  <2>1. N \in i..N /\ N \in 0..N
    BY <1>2
  <2>2. Sums(d)[i] \preceq SumOf(d) /\ SumOf(d) \in Rat /\ Sums(d)[i] \in Rat
    BY <1>3, <1>4, <1>5, <2>1
  <2>3. SumOf(d) \preceq left
    BY <1>1, <1>2, <2>2, OrderTrans
  <2> QED
    BY <2>2, <2>3, OrderTrans
<1> QED
  BY <1>1, <1>3, <1>4, <1>6 DEF N

\* The whole loop: the entry of a loan gets what is taken of it.
LEMMA CoverEntry ==
  ASSUME NEW st \in StateSet, NEW borrows \in Seq(BorrowLot), AllPositive(borrows),
         NEW qty \in Rat, Zero \preceq qty, NEW fx \in Rat, NEW t, t = Taken(borrows, qty),
         NEW id \in DOMAIN st.pending_borrows, NEW pb, pb = st.pending_borrows[id],
         pb.finalized <=> fully_covered(pb),
         DebtOf(borrows, id) \preceq (pb.borrowed_qty -- pb.covered_qty),
         NEW s, s = covered(st, borrows, t, fx)
  PROVE  EntryStep(pb, s.pending_borrows[id], SumOf(DebtTaken(borrows, t, id)), fx)
<1> DEFINE g == CoveredFn(st, borrows, t, fx)
           N == Len(borrows)
           d == DebtTaken(borrows, t, id)
           left == pb.borrowed_qty -- pb.covered_qty
           S == {j \in Nat : j <= N =>
                   /\ g[j] \in StateSet /\ id \in DOMAIN g[j].pending_borrows
                   /\ EntryStep(pb, g[j].pending_borrows[id], Sums(d)[j], fx)}
<1>1. TakenWell(borrows, t, qty)
  BY LotSets, TakenFacts
<1>2. /\ t \in Seq(Rat) /\ Len(t) = N /\ N \in Nat
      /\ \A i \in 1..N : t[i] \in Rat /\ Zero \preceq t[i] /\ borrows[i] \in BorrowLot
  BY <1>1 DEF TakenWell
<1>3. pb \in PendingSet /\ left \in Rat
  <2>1. pb \in PendingSet
    BY StateFields, PartialType
  <2> QED
    BY <2>1, PendingFields, AddType
<1>4. /\ g \in [0..N -> StateSet] /\ g[0] = st
      /\ \A i \in 1..N : g[i] = IF t[i] = Zero THEN g[i - 1]
                                ELSE on_cover(g[i - 1], borrows[i].borrow_id, t[i], fx)
      /\ s = g[N]
  BY <1>2, CoveredProp
<1> HIDE DEF g, left
<1>5. /\ Sums(d)[0] = Zero /\ SumOf(d) = Sums(d)[N]
      /\ \A i \in 0..N : Sums(d)[i] \in Rat /\ Sums(d)[i] \preceq left
      /\ \A i \in 1..N : /\ d[i] = IF borrows[i].borrow_id = id THEN t[i] ELSE Zero
                         /\ d[i] \in Rat /\ Sums(d)[i] = Sums(d)[i - 1] ++ d[i]
  <2>1. DebtOf(borrows, id) \preceq left
    BY DEF left
  <2> HIDE DEF d
  <2> QED
    BY <1>3, <2>1, DebtSums DEF d
<1> HIDE DEF N, d
<1>6. 0 \in S
  BY <1>3, <1>4, <1>5, EntrySame
<1>7. ASSUME NEW n \in Nat, n \in S PROVE n + 1 \in S
  <2> SUFFICES ASSUME n + 1 <= N
               PROVE  /\ g[n + 1] \in StateSet /\ id \in DOMAIN g[n + 1].pending_borrows
                      /\ EntryStep(pb, g[n + 1].pending_borrows[id], Sums(d)[n + 1], fx)
    OBVIOUS
  <2>1. /\ n + 1 \in 1..N /\ (n + 1) - 1 = n /\ n \in 0..N /\ n + 1 \in 0..N
    BY <1>2
  <2> DEFINE u == t[n + 1]
             lot == borrows[n + 1]
             v == d[n + 1]
             a == g[n]
             b == g[n + 1]
             q == Sums(d)[n]
  <2>2. /\ a \in StateSet /\ id \in DOMAIN a.pending_borrows
        /\ EntryStep(pb, a.pending_borrows[id], q, fx)
    BY <1>7, <2>1
  <2>3. /\ u \in Rat /\ Zero \preceq u /\ lot \in BorrowLot /\ q \in Rat
        /\ v = IF lot.borrow_id = id THEN u ELSE Zero
        /\ Sums(d)[n + 1] = q ++ v
        /\ (q ++ v) \preceq left
        /\ b = IF u = Zero THEN a ELSE on_cover(a, lot.borrow_id, u, fx)
        /\ b \in StateSet
    <3>1. u \in Rat /\ Zero \preceq u /\ lot \in BorrowLot
      BY <1>2, <2>1
    <3>2. q \in Rat /\ Sums(d)[n + 1] = q ++ v /\ Sums(d)[n + 1] \preceq left
      BY <1>5, <2>1
    <3>3. v = IF lot.borrow_id = id THEN u ELSE Zero
      BY <1>5, <2>1
    <3>4. b = IF u = Zero THEN a ELSE on_cover(a, lot.borrow_id, u, fx)
      BY <1>4, <2>1
    <3>5. b \in StateSet
      BY <1>4, <2>1
    <3> QED
      BY <3>1, <3>2, <3>3, <3>4, <3>5
  <2> HIDE DEF u, lot, v, a, b, q
  <2>4. EntryStep(pb, b.pending_borrows[id], q ++ v, fx)
    BY <1>3, <2>2, <2>3, EntryTurn DEF left
  <2>5. id \in DOMAIN b.pending_borrows
    <3>1. CoverKeeps(a, on_cover(a, lot.borrow_id, u, fx))
      BY <2>2, <2>3, OnCoverKeeps
    <3> QED
      BY <2>2, <2>3, <3>1 DEF CoverKeeps
  <2> QED
    BY <2>3, <2>4, <2>5 DEF b
<1> HIDE DEF S
<1>8. \A n \in Nat : n \in S
  BY <1>6, <1>7, Induction
<1> QED
  BY <1>2, <1>4, <1>5, <1>8 DEF S, d

\* What a deposit makes of the state that its covers leave.
DepositIs(st, d, cov, ccy, qty, fx) ==
  /\ d.pending_borrows = cov.pending_borrows /\ d.buy_fx_basis = cov.buy_fx_basis
  /\ \A c \in Currency : c # ccy => d.currencies[c] = cov.currencies[c]
  /\ d.currencies[ccy].borrow_lots = Rest(st.currencies[ccy].borrow_lots, qty)
  /\ d.currencies[ccy].borrow_seq = cov.currencies[ccy].borrow_seq
  /\ d.currencies[ccy].fees_native = cov.currencies[ccy].fees_native
  /\ d.currencies[ccy].gain_fifo = cov.currencies[ccy].gain_fifo
  /\ Value(d.currencies[ccy].fifo_lots)
       = Value(st.currencies[ccy].fifo_lots)
           ++ (uncovered(st.currencies[ccy].borrow_lots, qty) ** fx)

CoversOf(st, ccy, qty, fx) ==
  covered(st, st.currencies[ccy].borrow_lots, Taken(st.currencies[ccy].borrow_lots, qty), fx)

LEMMA DepositFacts ==
  ASSUME NEW st, CashSound(st), NEW ccy \in Currency, NEW qty \in Rat, Positive(qty),
         NEW fx \in Rat
  PROVE  /\ CoverKeeps(st, CoversOf(st, ccy, qty, fx))
         /\ DepositIs(st, bucket_deposit(st, ccy, qty, fx), CoversOf(st, ccy, qty, fx),
                      ccy, qty, fx)
<1> DEFINE borrows == st.currencies[ccy].borrow_lots
           t == Taken(borrows, qty)
           cov == CoversOf(st, ccy, qty, fx)
           u == uncovered(borrows, qty)
           b == cov.currencies[ccy]
           r == repaid(b, qty)
           s == cover_borrows(st, ccy, borrows, qty, fx)
           d == bucket_deposit(st, ccy, qty, fx)
<1>1. /\ st \in StateSet /\ borrows \in Seq(BorrowLot) /\ AllPositive(borrows)
      /\ Zero \preceq qty
  BY BucketFields, NotNegative DEF CashSound, BucketOK
<1>2. t \in Seq(Rat) /\ Len(t) = Len(borrows)
  BY <1>1, LotSets, TakenFacts DEF TakenWell
<1>3. CoverKeeps(st, cov)
  <2> HIDE DEF t
  <2> QED
    BY <1>1, <1>2, CoveredKeeps DEF CoversOf, t
<1>4. s = WithBucket(cov, ccy, r)
  BY DEF cover_borrows, WithBucket, CoversOf
<1>5. d = deposit_rest(s, ccy, u, fx)
  BY DEF bucket_deposit
<1> HIDE DEF cov, s, d
<1>6. cov \in StateSet /\ b \in BucketSet /\ SameCash(st.currencies[ccy], b)
  BY <1>3, StateFields DEF CoverKeeps
<1>7. BucketOK(b) /\ b.borrow_lots = borrows /\ b.fifo_lots = st.currencies[ccy].fifo_lots
  BY <1>6, SameCashOK DEF CashSound, SameCash
<1> HIDE DEF b
<1>8. /\ BucketOK(r) /\ r.fifo_lots = b.fifo_lots /\ r.borrow_lots = Rest(borrows, qty)
      /\ r.borrow_seq = b.borrow_seq /\ r.fees_native = b.fees_native
      /\ r.gain_fifo = b.gain_fifo
      /\ Positive(u) => r.borrow_lots = <<>>
  BY <1>7, Repaid DEF SameGains
<1>9. u \in Rat /\ (~Positive(u) => u = Zero)
  BY <1>1, UncoveredIs
<1> HIDE DEF r, u, borrows
<1>10. /\ s.currencies[ccy] = r /\ s \in StateSet
       /\ \A c \in Currency : c # ccy => s.currencies[c] = cov.currencies[c]
       /\ s.pending_borrows = cov.pending_borrows /\ s.buy_fx_basis = cov.buy_fx_basis
  BY <1>4, <1>6, <1>8, WithBucketType DEF BucketOK
<1>11. Value(b.fifo_lots) \in Rat /\ b.fifo_lots \in Seq(CashLot)
  BY <1>7, BucketFields, ValueIs DEF BucketOK
<1>12. CASE ~Positive(u)
  <2>1. d = s
    BY <1>5, <1>12 DEF deposit_rest
  <2>2. Value(r.fifo_lots) = Value(b.fifo_lots) ++ (u ** fx)
    BY <1>8, <1>9, <1>11, <1>12, MulUnit, AddZero
  <2> QED
    BY <1>3, <1>7, <1>8, <1>10, <2>1, <2>2 DEF DepositIs, b, u, borrows, d, cov
<1>13. CASE Positive(u)
  <2> DEFINE before == Greater(Zero, r.lot_qty)
             a == add_lot(r, before, u, fx)
  <2>1. d = WithBucket(s, ccy, a)
    BY <1>5, <1>10, <1>13 DEF deposit_rest, WithBucket
  <2>2. /\ BucketOK(a) /\ a.borrow_lots = <<>>
        /\ a.fifo_lots = Append(r.fifo_lots, [qty |-> u, fx |-> fx])
        /\ a.borrow_seq = r.borrow_seq /\ a.fees_native = r.fees_native
        /\ a.gain_fifo = r.gain_fifo
    BY <1>8, <1>9, <1>13, AddLot DEF SameGains
  <2> HIDE DEF a
  <2>3. /\ d.currencies[ccy] = a
        /\ \A c \in Currency : c # ccy => d.currencies[c] = s.currencies[c]
        /\ d.pending_borrows = s.pending_borrows /\ d.buy_fx_basis = s.buy_fx_basis
    BY <1>10, <2>1, <2>2, WithBucketType DEF BucketOK
  <2>4. Value(a.fifo_lots) = Value(b.fifo_lots) ++ (u ** fx)
    BY <1>8, <1>9, <1>11, <2>2, ValueAppend
  <2> QED
    BY <1>3, <1>7, <1>8, <1>10, <1>13, <2>2, <2>3, <2>4 DEF DepositIs, b, u, borrows, d, cov
<1> QED
  BY <1>12, <1>13

\* What a drain does, and what it reports.
DrainFacts(st, ccy, amount, broker_fx, res, id) ==
  /\ res.st.pending_borrows = st.pending_borrows /\ res.st.buy_fx_basis = st.buy_fx_basis
  /\ \A c \in Currency : c # ccy => res.st.currencies[c] = st.currencies[c]
  /\ res.st.currencies[ccy].borrow_lots
       = IF Positive(res.borrowed_qty)
         THEN Append(st.currencies[ccy].borrow_lots,
                     [borrow_id |-> id, qty |-> res.borrowed_qty])
         ELSE st.currencies[ccy].borrow_lots
  /\ res.st.currencies[ccy].borrow_seq
       = IF Positive(res.borrowed_qty) THEN st.currencies[ccy].borrow_seq + 1
         ELSE st.currencies[ccy].borrow_seq
  /\ Positive(res.borrowed_qty) => res.borrow_id = id
  /\ res.st.currencies[ccy].fees_native = st.currencies[ccy].fees_native
  /\ ResultOK(res)
  /\ res.lot_backed_qty ++ res.borrowed_qty = Moved(amount)
  /\ Value(res.st.currencies[ccy].fifo_lots)
       = Value(st.currencies[ccy].fifo_lots) -- Backed(res)
  /\ res.st.currencies[ccy].gain_fifo
       = st.currencies[ccy].gain_fifo
           ++ TakenGain(broker_fx, res.lot_backed_qty, Backed(res))

\* What a drain says its lots had cost is what they had cost.
LEMMA BackedIs ==
  ASSUME NEW lots \in Seq(CashLot), AllPositive(lots), NEW amount \in Rat, Positive(amount),
         NEW drained, drained = Lesser(amount, TotalQty(lots)),
         NEW basis, basis = BasisTaken(lots, amount),
         NEW res, res.lot_backed_qty = drained,
         res.lot_backed_basis = (IF Positive(drained) THEN basis // drained ELSE None)
  PROVE  Backed(res) = basis
<1>1. Zero \preceq amount /\ TotalQty(lots) \in Rat /\ Zero \preceq TotalQty(lots)
      /\ (lots = <<>> <=> TotalQty(lots) = Zero)
  <2>1. Zero \preceq amount
    BY NotNegative
  <2>2. TotalQty(lots) \in Rat /\ Zero \preceq TotalQty(lots)
        /\ (lots = <<>> <=> TotalQty(lots) = Zero)
    BY LotSets, QtysType, PositiveTotal
  <2> QED
    BY <2>1, <2>2
<1>2. basis \in Rat /\ drained \in Rat
  BY <1>1, BasisTakenIs, MinMax
<1>3. CASE Positive(drained)
  <2>1. (basis // drained) ** drained = basis /\ basis // drained \in Rat
    BY <1>2, <1>3, DivMul
  <2>2. basis // drained # None
    BY <2>1, NoneNotRat
  <2>3. Backed(res) = drained ** (basis // drained)
    BY <1>3, <2>2 DEF Backed
  <2> QED
    BY <1>2, <2>1, <2>3, MulComm
<1>4. CASE ~Positive(drained)
  <2>1. drained = amount \/ drained = TotalQty(lots)
    BY DEF Lesser
  <2>2. lots = <<>>
    BY <1>1, <1>4, <2>1, NotNegative
  <2>3. basis = Zero
    <3> DEFINE vals == TakenVals(lots, Taken(lots, amount), FxOf)
    <3>1. basis = SumOf(vals)
      BY <1>1, BasisTakenIs
    <3>2. vals = <<>>
      BY <2>2 DEF TakenVals
    <3> QED
      BY <3>1, <3>2, SumEmpty
  <2> QED
    BY <1>4, <2>3 DEF Backed
<1> QED
  BY <1>3, <1>4

LEMMA DrainDoes ==
  ASSUME NEW st, CashSound(st), NEW ccy \in Currency, NEW amount \in Rat,
         NEW broker_fx \in Rat \cup {None}, NEW consumer \in Nat,
         NEW id, id = <<consumer, st.currencies[ccy].borrow_seq + 1>>,
         NEW res, res = bucket_drain(st, ccy, amount, broker_fx, consumer)
  PROVE  DrainFacts(st, ccy, amount, broker_fx, res, id) /\ id \in BorrowId
<1> DEFINE b == st.currencies[ccy]
           lots == b.fifo_lots
           f == TotalQty(lots)
           drained == Lesser(amount, f)
           basis == BasisTaken(lots, amount)
           borrowed == Greater(Zero, amount -- f)
           t == take_lots(b, amount, broker_fx, drained, basis)
           d == borrow_rest(t, borrowed, id)
<1>1. /\ BucketOK(b) /\ b.borrow_seq \in Nat /\ b.gain_fifo \in Rat /\ st \in StateSet
      /\ lots \in Seq(CashLot) /\ AllPositive(lots)
  BY BucketFields DEF CashSound, BucketOK
<1>2. id \in BorrowId
  BY <1>1 DEF BorrowId
<1>w. ResultOK(res)
  <2>1. DrainWell(st, ccy, amount, broker_fx, res)
    BY Drained
  <2> QED
    BY <2>1 DEF DrainWell, ResultOK
<1>3. CASE ~Positive(amount)
  <2>1. /\ res.st = st /\ res.lot_backed_qty = Zero /\ res.lot_backed_basis = None
        /\ res.borrowed_qty = Zero
    BY <1>3 DEF bucket_drain
  <2>2. Moved(amount) = Zero /\ Zero ++ Zero = Zero /\ ~Positive(Zero)
    BY <1>3, ZeroType, AddZero, NotNegative DEF Moved, Greater, Positive
  <2>3. Backed(res) = Zero
    BY <2>1 DEF Backed
  <2>4. TakenGain(broker_fx, Zero, Zero) = Zero
    <3>1. broker_fx \in Rat => Zero ** broker_fx = Zero
      BY MulUnit
    <3> QED
      BY <3>1, ZeroType, AddZero DEF TakenGain
  <2>5. Value(lots) -- Zero = Value(lots) /\ b.gain_fifo ++ Zero = b.gain_fifo
    BY <1>1, ValueIs, AddZero
  <2> HIDE DEF b, lots
  <2> QED
    BY <1>2, <1>w, <2>1, <2>2, <2>3, <2>4, <2>5 DEF DrainFacts, b, lots
<1>4. CASE Positive(amount)
  <2>1. res = drain_of(st, ccy, amount, broker_fx, drained, basis, borrowed, id)
    BY <1>4 DEF bucket_drain, BasisTaken
  <2>2. /\ res.st = WithBucket(st, ccy, d)
        /\ res.lot_backed_qty = drained
        /\ res.lot_backed_basis = (IF Positive(drained) THEN basis // drained ELSE None)
        /\ res.borrowed_qty = borrowed
        /\ Positive(borrowed) => res.borrow_id = id
    <3> HIDE DEF drained, basis, borrowed, f, lots
    <3> QED
      BY <2>1 DEF drain_of, WithBucket
  <2>3. f \in Rat /\ Zero \preceq f
    BY <1>1, BucketTotals
  <2>4. Zero \preceq amount /\ drained \in Rat /\ borrowed \in Rat /\ basis \in Rat
        /\ Value(Rest(lots, amount)) = Value(lots) -- basis
    BY <1>1, <2>3, <1>4, NotNegative, MinMax, AddType, ZeroType, BasisTakenIs
  <2>5. Zero \preceq borrowed
    <3>1. borrowed = Zero \/ Positive(borrowed)
      BY <2>4 DEF Greater, Positive
    <3> QED
      BY <2>4, <3>1, NotNegative
  <2>6. drained ++ borrowed = amount /\ (Positive(borrowed) <=> f \prec amount)
    BY <2>3, SplitAmount
  <2>7. TakenLots(b, amount, broker_fx, drained, basis, t)
    BY <1>1, <1>4, <2>4, TakeLots
  <2>8. Positive(borrowed) => t.fifo_lots = <<>>
    <3> SUFFICES ASSUME Positive(borrowed) PROVE t.fifo_lots = <<>>
      OBVIOUS
    <3>1. f \preceq amount
      BY <2>3, <2>6, OrderFacts
    <3>2. Rest(lots, amount) = <<>>
      BY <1>1, <2>4, <3>1, LotSets, RestFacts DEF RestWell
    <3> QED
      BY <2>7, <3>2 DEF TakenLots
  <2> HIDE DEF t, d
  <2>9. /\ BucketOK(t) /\ t.fifo_lots = Rest(lots, amount) /\ t.borrow_lots = b.borrow_lots
        /\ t.borrow_seq = b.borrow_seq /\ t.fees_native = b.fees_native
        /\ t.gain_fifo = b.gain_fifo ++ TakenGain(broker_fx, drained, basis)
    BY <2>7 DEF TakenLots
  <2> HIDE DEF b, lots, f, drained, basis, borrowed
  <2>10. /\ BucketOK(d) /\ d.fifo_lots = t.fifo_lots
         /\ d.borrow_lots = IF Positive(borrowed)
                            THEN Append(t.borrow_lots, [borrow_id |-> id, qty |-> borrowed])
                            ELSE t.borrow_lots
         /\ d.borrow_seq = IF Positive(borrowed) THEN t.borrow_seq + 1 ELSE t.borrow_seq
         /\ d.fees_native = t.fees_native /\ d.gain_fifo = t.gain_fifo
    <3>1. d = borrow_rest(t, borrowed, id)
      BY DEF d
    <3> QED
      BY <1>2, <2>4, <2>5, <2>8, <2>9, <3>1, BorrowRest DEF SameGains
  <2>11. /\ res.st.currencies[ccy] = d
         /\ \A c \in Currency : c # ccy => res.st.currencies[c] = st.currencies[c]
         /\ res.st.pending_borrows = st.pending_borrows
         /\ res.st.buy_fx_basis = st.buy_fx_basis
    BY <1>1, <2>2, <2>10, WithBucketType DEF BucketOK
  <2>12. Backed(res) = basis
    BY <1>1, <1>4, <2>2, BackedIs DEF drained, basis, f
  <2>13. Moved(amount) = amount
    BY <1>4 DEF Moved, Greater, Positive
  <2>14. /\ res.st.currencies[ccy].borrow_lots
              = IF Positive(res.borrowed_qty)
                THEN Append(b.borrow_lots, [borrow_id |-> id, qty |-> res.borrowed_qty])
                ELSE b.borrow_lots
         /\ res.st.currencies[ccy].borrow_seq
              = IF Positive(res.borrowed_qty) THEN b.borrow_seq + 1 ELSE b.borrow_seq
    BY <2>2, <2>9, <2>10, <2>11
  <2>15. /\ Value(res.st.currencies[ccy].fifo_lots) = Value(lots) -- Backed(res)
         /\ res.st.currencies[ccy].gain_fifo
              = b.gain_fifo ++ TakenGain(broker_fx, res.lot_backed_qty, Backed(res))
    BY <2>2, <2>4, <2>9, <2>10, <2>11, <2>12
  <2> QED
    BY <1>2, <1>w, <2>2, <2>6, <2>9, <2>10, <2>11, <2>13, <2>14, <2>15 DEF DrainFacts, b, lots
<1> QED
  BY <1>3, <1>4

(***************************************************************************)
(* The loans of the registry                                               *)
(***************************************************************************)

\* An entry of the registry that says what is open of its loan, in one currency.
LoanOK(st, id) ==
  /\ st.pending_borrows[id].borrowed_qty -- st.pending_borrows[id].covered_qty
       = Debt(st, st.pending_borrows[id].from_ccy, id)
  /\ st.pending_borrows[id].finalized <=> fully_covered(st.pending_borrows[id])
  /\ \A c \in Currency : c # st.pending_borrows[id].from_ccy => Debt(st, c, id) = Zero

\* What the event m may do to the loans of the events before it.
LoansStep(st, s, m) ==
  /\ \A id \in DOMAIN st.pending_borrows :
       /\ id \in DOMAIN s.pending_borrows
       /\ id[1] # m /\ LoanOK(st, id) => LoanOK(s, id)
  /\ \A id \in DOMAIN s.pending_borrows : id \in DOMAIN st.pending_borrows \/ id[1] = m
  /\ \A id \in BorrowId : \A c \in Currency :
       id[1] # m /\ Debt(st, c, id) = Zero => Debt(s, c, id) = Zero

LEMMA LoansTrans ==
  ASSUME NEW st, NEW s, NEW u, NEW m, LoansStep(st, s, m), LoansStep(s, u, m)
  PROVE  LoansStep(st, u, m)
<1>1. /\ \A id \in DOMAIN st.pending_borrows :
           /\ id \in DOMAIN u.pending_borrows
           /\ id[1] # m /\ LoanOK(st, id) => LoanOK(u, id)
      /\ \A id \in DOMAIN u.pending_borrows : id \in DOMAIN st.pending_borrows \/ id[1] = m
  BY DEF LoansStep
<1>2. \A id \in BorrowId : \A c \in Currency :
        id[1] # m /\ Debt(st, c, id) = Zero => Debt(u, c, id) = Zero
  BY DEF LoansStep
<1> QED
  BY <1>1, <1>2 DEF LoansStep

\* Two states with the same loans.
LoansSame(st, s) ==
  /\ s.pending_borrows = st.pending_borrows
  /\ \A c \in Currency : s.currencies[c].borrow_lots = st.currencies[c].borrow_lots

LEMMA SameLoanOK ==
  ASSUME NEW st \in StateSet, NEW s, LoansSame(st, s), NEW id \in DOMAIN st.pending_borrows
  PROVE  LoanOK(s, id) <=> LoanOK(st, id)
<1>1. st.pending_borrows[id].from_ccy \in Currency
  BY StateFields, PartialType, PendingFields
<1>2. \A c \in Currency : Debt(s, c, id) = Debt(st, c, id)
  BY DEF LoansSame, Debt
<1> QED
  BY <1>1, <1>2 DEF LoanOK, LoansSame

LEMMA SameLoansStep ==
  ASSUME NEW st \in StateSet, NEW s, LoansSame(st, s), NEW m
  PROVE  LoansStep(st, s, m)
<1>1. \A id : \A c \in Currency : Debt(s, c, id) = Debt(st, c, id)
  BY DEF LoansSame, Debt
<1>2. DOMAIN s.pending_borrows = DOMAIN st.pending_borrows
  BY DEF LoansSame
<1> QED
  BY <1>1, <1>2, SameLoanOK DEF LoansStep

LEMMA LoansSameFees ==
  ASSUME NEW st, CashSound(st), NEW ccy \in Currency, NEW native \in Rat, NEW fx \in Rat
  PROVE  LoansSame(st, add_fees(st, ccy, native, fx))
<1> DEFINE b == fees_added(st.currencies[ccy], native, fx)
<1>1. st \in StateSet /\ st.currencies[ccy] \in BucketSet
  BY DEF CashSound, BucketOK
<1>2. b \in BucketSet /\ b.borrow_lots = st.currencies[ccy].borrow_lots
  BY <1>1, FeesAdded DEF SameCash
<1>3. add_fees(st, ccy, native, fx) = WithBucket(st, ccy, b)
  BY DEF add_fees, WithBucket
<1> HIDE DEF b
<1> QED
  BY <1>1, <1>2, <1>3, WithBucketType DEF LoansSame

\* What an operation keeps of the loans that are open.
LoansKept(st, s) ==
  /\ DOMAIN s.pending_borrows = DOMAIN st.pending_borrows
  /\ \A id \in DOMAIN st.pending_borrows : LoanOK(st, id) => LoanOK(s, id)
  /\ \A id \in BorrowId : \A c \in Currency :
       Debt(st, c, id) = Zero => Debt(s, c, id) = Zero
  /\ \A c \in Currency : s.currencies[c].borrow_seq = st.currencies[c].borrow_seq

LEMMA KeptStep ==
  ASSUME NEW st, NEW s, LoansKept(st, s), NEW m
  PROVE  LoansStep(st, s, m)
BY DEF LoansKept, LoansStep

\* What is open of a loan in any one currency is within what its entry lacks.
LEMMA DebtWithin ==
  ASSUME NEW st, CashSound(st), NEW ccy \in Currency, NEW borrows,
         borrows = st.currencies[ccy].borrow_lots,
         NEW id \in DOMAIN st.pending_borrows, LoanOK(st, id)
  PROVE  DebtOf(borrows, id) \preceq
           (st.pending_borrows[id].borrowed_qty -- st.pending_borrows[id].covered_qty)
<1> DEFINE pb == st.pending_borrows[id]
<1>1. borrows \in Seq(BorrowLot) /\ st \in StateSet
  BY BucketFields DEF CashSound, BucketOK
<1>2. pb \in PendingSet /\ pb.from_ccy \in Currency
  BY <1>1, StateFields, PartialType, PendingFields
<1>3. pb.borrowed_qty -- pb.covered_qty = Debt(st, pb.from_ccy, id)
  BY DEF LoanOK
<1>4. CASE pb.from_ccy = ccy
  <2>1. Debt(st, ccy, id) \in Rat
    BY <1>1, DebtIs DEF Debt
  <2> QED
    BY <1>3, <1>4, <2>1, OrderFacts DEF Debt
<1>5. CASE pb.from_ccy # ccy
  <2>1. DebtOf(borrows, id) = Zero
    BY <1>5 DEF LoanOK, Debt
  <2>2. st.currencies[pb.from_ccy].borrow_lots \in Seq(BorrowLot)
        /\ AllPositive(st.currencies[pb.from_ccy].borrow_lots)
    BY <1>2, BucketFields DEF CashSound, BucketOK
  <2>3. Zero \preceq Debt(st, pb.from_ccy, id)
    BY <2>2, DebtSign DEF Debt
  <2> QED
    BY <1>3, <2>1, <2>3
<1> QED
  BY <1>4, <1>5

\* A sum of what is not negative is not.
LEMMA SumNotNegative ==
  ASSUME NEW d \in Seq(Rat), \A i \in 1..Len(d) : Zero \preceq d[i]
  PROVE  SumOf(d) \in Rat /\ Zero \preceq SumOf(d)
<1>1. \A a \in 0..Len(d) : \A b \in a..Len(d) : Sums(d)[a] \preceq Sums(d)[b]
  BY SumsGrow
<1>2. Len(d) \in Nat /\ 0 \in 0..Len(d) /\ Len(d) \in 0..Len(d)
  OBVIOUS
<1>3. Sums(d)[0] \preceq Sums(d)[Len(d)]
  BY <1>1, <1>2
<1> QED
  BY <1>3, SumsProp, SumType DEF SumOf

\* What a deposit pays of the debt id: all of it in the currency of the deposit.
DebtPaid(st, ccy, qty, id) ==
  SumOf(DebtTaken(st.currencies[ccy].borrow_lots, Taken(st.currencies[ccy].borrow_lots, qty), id))

DebtsAfter(st, d, ccy, paid, id) ==
  /\ paid \in Rat /\ Zero \preceq paid /\ paid \preceq Debt(st, ccy, id)
  /\ Debt(st, ccy, id) \in Rat
  /\ Debt(d, ccy, id) = Debt(st, ccy, id) -- paid
  /\ \A c \in Currency : c # ccy => Debt(d, c, id) = Debt(st, c, id)

LEMMA DepositDebts ==
  ASSUME NEW st, CashSound(st), NEW ccy \in Currency, NEW qty \in Rat, Positive(qty),
         NEW fx \in Rat, NEW id, NEW d, d = bucket_deposit(st, ccy, qty, fx)
  PROVE  DebtsAfter(st, d, ccy, DebtPaid(st, ccy, qty, id), id)
<1> DEFINE borrows == st.currencies[ccy].borrow_lots
           t == Taken(borrows, qty)
           paid == SumOf(DebtTaken(borrows, t, id))
           cov == CoversOf(st, ccy, qty, fx)
<1>1. borrows \in Seq(BorrowLot) /\ AllPositive(borrows) /\ Zero \preceq qty
  BY BucketFields, NotNegative DEF CashSound, BucketOK
<1>2. CoverKeeps(st, cov) /\ DepositIs(st, d, cov, ccy, qty, fx)
  BY DepositFacts
<1> HIDE DEF cov
<1>3. \A c \in Currency : c # ccy => Debt(d, c, id) = Debt(st, c, id)
  BY <1>2 DEF CoverKeeps, DepositIs, SameCash, Debt
<1>4. d.currencies[ccy].borrow_lots = Rest(borrows, qty)
  BY <1>2 DEF DepositIs
<1>5. paid = DebtPaid(st, ccy, qty, id)
  BY DEF DebtPaid
<1> HIDE DEF borrows
<1>6. /\ DebtOf(Rest(borrows, qty), id) = DebtOf(borrows, id) -- paid
      /\ DebtTaken(borrows, t, id) \in Seq(Rat)
      /\ \A i \in 1..Len(DebtTaken(borrows, t, id)) : Zero \preceq DebtTaken(borrows, t, id)[i]
      /\ paid \preceq DebtOf(borrows, id)
  <2> HIDE DEF t
  <2>1. t = Taken(borrows, qty)
    BY DEF t
  <2> QED
    BY <1>1, <2>1, DebtRest
<1>7. DebtOf(borrows, id) \in Rat
  BY <1>1, DebtIs
<1>8. paid \in Rat /\ Zero \preceq paid
  <2> DEFINE v == DebtTaken(borrows, t, id)
  <2>1. v \in Seq(Rat) /\ \A i \in 1..Len(v) : Zero \preceq v[i]
    BY <1>6
  <2> HIDE DEF v
  <2>2. SumOf(v) \in Rat /\ Zero \preceq SumOf(v)
    BY <2>1, SumNotNegative
  <2> QED
    BY <2>2 DEF v
<1> HIDE DEF paid
<1> QED
  BY <1>3, <1>4, <1>5, <1>6, <1>7, <1>8 DEF DebtsAfter, Debt, borrows

\* The entry of a loan after a deposit.
LEMMA DepositEntry ==
  ASSUME NEW st, CashSound(st), NEW ccy \in Currency, NEW qty \in Rat, Positive(qty),
         NEW fx \in Rat, NEW id \in DOMAIN st.pending_borrows, LoanOK(st, id),
         NEW d, d = bucket_deposit(st, ccy, qty, fx)
  PROVE  EntryStep(st.pending_borrows[id], d.pending_borrows[id],
                   DebtPaid(st, ccy, qty, id), fx)
<1> DEFINE borrows == st.currencies[ccy].borrow_lots
           t == Taken(borrows, qty)
           pb == st.pending_borrows[id]
           cov == CoversOf(st, ccy, qty, fx)
<1>1. borrows \in Seq(BorrowLot) /\ AllPositive(borrows) /\ Zero \preceq qty /\ st \in StateSet
  BY BucketFields, NotNegative DEF CashSound, BucketOK
<1>2. DepositIs(st, d, cov, ccy, qty, fx)
  BY DepositFacts
<1>3. cov = covered(st, borrows, t, fx)
  BY DEF CoversOf
<1>4. DebtOf(borrows, id) \preceq (pb.borrowed_qty -- pb.covered_qty)
  BY DebtWithin
<1>5. pb.finalized <=> fully_covered(pb)
  BY DEF LoanOK
<1> HIDE DEF cov, borrows, t, pb
<1>6. t = Taken(borrows, qty) /\ pb = st.pending_borrows[id]
  BY DEF t, pb
<1>7. EntryStep(pb, cov.pending_borrows[id], SumOf(DebtTaken(borrows, t, id)), fx)
  BY <1>1, <1>3, <1>4, <1>5, <1>6, CoverEntry
<1> QED
  BY <1>2, <1>7 DEF DepositIs, DebtPaid, borrows, t, pb

LEMMA DepositLoan ==
  ASSUME NEW st, CashSound(st), NEW ccy \in Currency, NEW qty \in Rat, Positive(qty),
         NEW fx \in Rat, NEW id \in DOMAIN st.pending_borrows, LoanOK(st, id),
         NEW d, d = bucket_deposit(st, ccy, qty, fx)
  PROVE  LoanOK(d, id)
<1> DEFINE pb == st.pending_borrows[id]
           new == d.pending_borrows[id]
           paid == DebtPaid(st, ccy, qty, id)
           f == pb.from_ccy
<1>1. DebtsAfter(st, d, ccy, paid, id)
  BY DepositDebts
<1>2. EntryStep(pb, new, paid, fx)
  BY DepositEntry
<1>3. pb \in PendingSet /\ f \in Currency /\ pb.borrowed_qty \in Rat /\ pb.covered_qty \in Rat
  BY StateFields, PartialType, PendingFields DEF CashSound
<1>4. /\ pb.borrowed_qty -- pb.covered_qty = Debt(st, f, id)
      /\ \A c \in Currency : c # f => Debt(st, c, id) = Zero
  BY DEF LoanOK
<1> HIDE DEF pb, new, paid
<1>5. /\ new.from_ccy = f /\ new.borrowed_qty = pb.borrowed_qty
      /\ new.covered_qty = pb.covered_qty ++ paid
      /\ new.finalized <=> fully_covered(new)
  BY <1>2 DEF EntryStep, SameLoan
<1>6. /\ paid \in Rat /\ Zero \preceq paid /\ paid \preceq Debt(st, ccy, id)
      /\ Debt(st, ccy, id) \in Rat
      /\ Debt(d, ccy, id) = Debt(st, ccy, id) -- paid
      /\ \A c \in Currency : c # ccy => Debt(d, c, id) = Debt(st, c, id)
  BY <1>1 DEF DebtsAfter
<1>7. ccy # f => paid = Zero
  <2> SUFFICES ASSUME ccy # f PROVE paid = Zero
    OBVIOUS
  <2>1. Debt(st, ccy, id) = Zero
    BY <1>4
  <2> QED
    BY <1>6, <2>1, ZeroType, OrderFacts
<1>8. new.borrowed_qty -- new.covered_qty = Debt(d, f, id)
  <2>1. new.borrowed_qty -- new.covered_qty = (pb.borrowed_qty -- pb.covered_qty) -- paid
    BY <1>3, <1>5, <1>6, SubSub
  <2>2. CASE ccy = f
    BY <1>4, <1>6, <2>1, <2>2
  <2>3. CASE ccy # f
    <3>1. Debt(d, f, id) = Debt(st, f, id) /\ Debt(st, f, id) \in Rat
      BY <1>3, <1>4, <1>6, <2>3, AddType
    <3> QED
      BY <1>4, <1>7, <2>1, <2>3, <3>1, AddZero
  <2> QED
    BY <2>2, <2>3
<1>9. \A c \in Currency : c # f => Debt(d, c, id) = Zero
  <2> SUFFICES ASSUME NEW c \in Currency, c # f PROVE Debt(d, c, id) = Zero
    OBVIOUS
  <2>1. Debt(st, c, id) = Zero
    BY <1>4
  <2>2. CASE c = ccy
    BY <1>6, <1>7, <2>1, <2>2, ZeroType, AddZero
  <2> QED
    BY <1>6, <2>1, <2>2
<1> QED
  BY <1>5, <1>8, <1>9 DEF LoanOK, new

LEMMA DepositLoans ==
  ASSUME NEW st, CashSound(st), NEW ccy \in Currency, NEW qty \in Rat, NEW fx \in Rat,
         NEW d, d = bucket_deposit(st, ccy, qty, fx)
  PROVE  LoansKept(st, d)
<1>1. CASE ~Positive(qty)
  <2>1. d = st
    BY <1>1 DEF bucket_deposit
  <2> QED
    BY <2>1 DEF LoansKept
<1>2. CASE Positive(qty)
  <2> DEFINE cov == CoversOf(st, ccy, qty, fx)
  <2>1. CoverKeeps(st, cov) /\ DepositIs(st, d, cov, ccy, qty, fx)
    BY <1>2, DepositFacts
  <2> HIDE DEF cov
  <2>2. DOMAIN d.pending_borrows = DOMAIN st.pending_borrows
    BY <2>1 DEF CoverKeeps, DepositIs
  <2>3. \A c \in Currency : d.currencies[c].borrow_seq = st.currencies[c].borrow_seq
    <3>1. \A c \in Currency : cov.currencies[c].borrow_seq = st.currencies[c].borrow_seq
      BY <2>1 DEF CoverKeeps, SameCash
    <3>2. \A c \in Currency : d.currencies[c].borrow_seq = cov.currencies[c].borrow_seq
      BY <2>1 DEF DepositIs
    <3> QED
      BY <3>1, <3>2
  <2>4. \A id \in DOMAIN st.pending_borrows : LoanOK(st, id) => LoanOK(d, id)
    BY <1>2, DepositLoan
  <2>5. ASSUME NEW id \in BorrowId, NEW c \in Currency, Debt(st, c, id) = Zero
        PROVE  Debt(d, c, id) = Zero
    <3> DEFINE paid == DebtPaid(st, ccy, qty, id)
    <3>1. DebtsAfter(st, d, ccy, paid, id)
      BY <1>2, DepositDebts
    <3> HIDE DEF paid
    <3>2. CASE c = ccy
      <4>1. paid = Zero
        BY <2>5, <3>1, <3>2, ZeroType, OrderFacts DEF DebtsAfter
      <4> QED
        BY <2>5, <3>1, <3>2, <4>1, ZeroType, AddZero DEF DebtsAfter
    <3> QED
      BY <2>5, <3>1, <3>2 DEF DebtsAfter
  <2> QED
    BY <2>2, <2>3, <2>4, <2>5 DEF LoansKept
<1> QED
  BY <1>1, <1>2

\* The debts after a drain that borrowed for id.
DrainDebts(st, s, ccy, borrowed, id) ==
  /\ s.pending_borrows = st.pending_borrows
  /\ \A c \in Currency : \A j : c # ccy \/ j # id => Debt(s, c, j) = Debt(st, c, j)
  /\ Debt(st, ccy, id) \in Rat
  /\ Positive(borrowed) => Debt(s, ccy, id) = Debt(st, ccy, id) ++ borrowed
  /\ ~Positive(borrowed) => Debt(s, ccy, id) = Debt(st, ccy, id)
  /\ \A c \in Currency : c # ccy => s.currencies[c].borrow_seq = st.currencies[c].borrow_seq
  /\ Positive(borrowed) =>
       s.currencies[ccy].borrow_seq = st.currencies[ccy].borrow_seq + 1

LEMMA DrainedDebts ==
  ASSUME NEW st, CashSound(st), NEW ccy \in Currency, NEW amount, NEW broker_fx, NEW res,
         NEW id \in BorrowId, DrainFacts(st, ccy, amount, broker_fx, res, id)
  PROVE  DrainDebts(st, res.st, ccy, res.borrowed_qty, id)
<1> DEFINE borrows == st.currencies[ccy].borrow_lots
           q == res.borrowed_qty
           lot == [borrow_id |-> id, qty |-> q]
           s == res.st
<1>1. borrows \in Seq(BorrowLot)
  BY BucketFields DEF CashSound, BucketOK
<1>2. /\ s.pending_borrows = st.pending_borrows
      /\ \A c \in Currency : c # ccy => s.currencies[c] = st.currencies[c]
      /\ s.currencies[ccy].borrow_lots
           = IF Positive(q) THEN Append(borrows, lot) ELSE borrows
      /\ s.currencies[ccy].borrow_seq
           = IF Positive(q) THEN st.currencies[ccy].borrow_seq + 1
             ELSE st.currencies[ccy].borrow_seq
      /\ q \in Rat
  BY DEF DrainFacts, ResultOK
<1>3. lot \in BorrowLot /\ lot.borrow_id = id /\ lot.qty = q
  BY <1>2 DEF BorrowLot
<1> HIDE DEF borrows, q, lot, s
<1>4. \A j : /\ DebtOf(borrows, j) \in Rat
             /\ DebtOf(Append(borrows, lot), j)
                  = DebtOf(borrows, j) ++ (IF id = j THEN q ELSE Zero)
  BY <1>1, <1>3, DebtIs, DebtAppend
<1>5. \A j : j # id => DebtOf(Append(borrows, lot), j) = DebtOf(borrows, j)
  BY <1>4, AddZero
<1>6. \A j : j # id => Debt(s, ccy, j) = Debt(st, ccy, j)
  BY <1>2, <1>5 DEF Debt, borrows
<1>7. \A c \in Currency : \A j : c # ccy => Debt(s, c, j) = Debt(st, c, j)
  BY <1>2 DEF Debt
<1>8. Debt(st, ccy, id) \in Rat
  BY <1>4 DEF Debt, borrows
<1>9. Positive(q) => Debt(s, ccy, id) = Debt(st, ccy, id) ++ q
  BY <1>2, <1>4 DEF Debt, borrows
<1>10. ~Positive(q) => Debt(s, ccy, id) = Debt(st, ccy, id)
  BY <1>2 DEF Debt, borrows
<1> QED
  BY <1>2, <1>6, <1>7, <1>8, <1>9, <1>10 DEF DrainDebts, q, s

\* A drain leaves the loans with another id alone.
LEMMA DrainOther ==
  ASSUME NEW st \in StateSet, NEW s, NEW ccy \in Currency, NEW borrowed, NEW id,
         DrainDebts(st, s, ccy, borrowed, id),
         NEW j \in DOMAIN st.pending_borrows, j # id, LoanOK(st, j)
  PROVE  LoanOK(s, j)
<1>1. st.pending_borrows[j].from_ccy \in Currency
  BY StateFields, PartialType, PendingFields
<1>2. \A c \in Currency : Debt(s, c, j) = Debt(st, c, j)
  BY DEF DrainDebts
<1>3. s.pending_borrows = st.pending_borrows
  BY DEF DrainDebts
<1> QED
  BY <1>1, <1>2, <1>3 DEF LoanOK

LEMMA DrainLoans ==
  ASSUME NEW st \in StateSet, NEW s, NEW ccy \in Currency, NEW borrowed, NEW id,
         DrainDebts(st, s, ccy, borrowed, id)
  PROVE  LoansStep(st, s, id[1])
<1>1. s.pending_borrows = st.pending_borrows
  BY DEF DrainDebts
<1>2. \A j \in DOMAIN st.pending_borrows : j[1] # id[1] /\ LoanOK(st, j) => LoanOK(s, j)
  BY DrainOther
<1>3. \A j \in BorrowId : \A c \in Currency :
        j[1] # id[1] /\ Debt(st, c, j) = Zero => Debt(s, c, j) = Zero
  BY DEF DrainDebts
<1> QED
  BY <1>1, <1>2, <1>3 DEF LoansStep

\* A drain, as the events use it.
DrainOK(st, ccy, res, id) ==
  /\ DrainDebts(st, res.st, ccy, res.borrowed_qty, id)
  /\ LoansStep(st, res.st, id[1])
  /\ CashSound(res.st) /\ ResultOK(res)
  /\ id \in BorrowId /\ (Positive(res.borrowed_qty) => res.borrow_id = id)

NextId(st, ccy, m) == <<m, st.currencies[ccy].borrow_seq + 1>>

LEMMA Drains ==
  ASSUME NEW st, CashSound(st), NEW ccy \in Currency, NEW amount \in Rat,
         NEW broker_fx \in Rat \cup {None}, NEW m \in Nat
  PROVE  DrainOK(st, ccy, bucket_drain(st, ccy, amount, broker_fx, m), NextId(st, ccy, m))
<1> DEFINE res == bucket_drain(st, ccy, amount, broker_fx, m)
           id == NextId(st, ccy, m)
<1>0. id = <<m, st.currencies[ccy].borrow_seq + 1>>
  BY DEF NextId
<1> HIDE DEF id
<1>1. DrainFacts(st, ccy, amount, broker_fx, res, id) /\ id \in BorrowId
  BY <1>0, DrainDoes
<1> HIDE DEF res
<1>2. DrainDebts(st, res.st, ccy, res.borrowed_qty, id)
  BY <1>1, DrainedDebts
<1>3. LoansStep(st, res.st, id[1])
  BY <1>2, DrainLoans DEF CashSound
<1>4. CashSound(res.st)
  BY Drained DEF DrainWell, CashKeeps, res
<1>5. DrainOK(st, ccy, res, id)
  BY <1>1, <1>2, <1>3, <1>4 DEF DrainFacts, DrainOK
<1> QED
  BY <1>5 DEF res, id

LEMMA DrainNothing ==
  ASSUME NEW st, NEW ccy, NEW amount, ~Positive(amount), NEW broker_fx, NEW m
  PROVE  bucket_drain(st, ccy, amount, broker_fx, m).st = st
BY DEF bucket_drain

\* A loan that is entered in the registry.
RegisteredAs(s, u, ccy, res) ==
  /\ CashSound(u)
  /\ u.currencies = s.currencies /\ u.buy_fx_basis = s.buy_fx_basis
  /\ ~Positive(res.borrowed_qty) => u = s
  /\ Positive(res.borrowed_qty) =>
       /\ DOMAIN u.pending_borrows = DOMAIN s.pending_borrows \cup {res.borrow_id}
       /\ \A j \in DOMAIN s.pending_borrows :
            j # res.borrow_id => u.pending_borrows[j] = s.pending_borrows[j]
       /\ u.pending_borrows[res.borrow_id].borrowed_qty = res.borrowed_qty
       /\ u.pending_borrows[res.borrow_id].covered_qty = Zero
       /\ u.pending_borrows[res.borrow_id].finalized = FALSE
       /\ u.pending_borrows[res.borrow_id].from_ccy = ccy

LEMMA Registers ==
  ASSUME NEW s, CashSound(s), NEW res, ResultOK(res), NEW kind \in {"buy", "convert"},
         NEW ccy \in Currency, NEW m \in Nat, NEW fee \in Rat, NEW broker_fx \in Rat,
         NEW u, u = register_borrow(s, res, kind, ccy, m, fee, broker_fx)
  PROVE  RegisteredAs(s, u, ccy, res)
<1> DEFINE r == register_borrow(s, res, kind, ccy, m, fee, broker_fx)
<1>0. CashKeeps(s, r) /\ r.currencies = s.currencies /\ r.buy_fx_basis = s.buy_fx_basis
  BY Registered
<1> HIDE DEF r
<1>1. CashKeeps(s, u) /\ u.currencies = s.currencies /\ u.buy_fx_basis = s.buy_fx_basis
  BY <1>0 DEF r
<1> DEFINE new == NewPending(res, kind, ccy, m, fee, broker_fx)
           id == res.borrow_id
<1>2. CashSound(u)
  BY <1>1 DEF CashKeeps
<1>3. ~Positive(res.borrowed_qty) => u = s
  BY DEF register_borrow
<1>4. ASSUME Positive(res.borrowed_qty)
      PROVE  /\ DOMAIN u.pending_borrows = DOMAIN s.pending_borrows \cup {id}
             /\ \A j \in DOMAIN s.pending_borrows :
                  j # id => u.pending_borrows[j] = s.pending_borrows[j]
             /\ u.pending_borrows[id] = new
  <2>1. u.pending_borrows = Put(s.pending_borrows, id, new)
    <3>1. s \in StateSet
      BY DEF CashSound
    <3>2. u = [s EXCEPT !.pending_borrows = Put(@, id, new)]
      BY <1>4 DEF register_borrow, NewPending
    <3> HIDE DEF new
    <3> QED
      BY <3>1, <3>2 DEF StateSet
  <2> HIDE DEF new
  <2> QED
    BY <2>1 DEF Put
<1>5. /\ new.borrowed_qty = res.borrowed_qty /\ new.covered_qty = Zero
      /\ new.finalized = FALSE /\ new.from_ccy = ccy
  BY DEF NewPending
<1> HIDE DEF new
<1> QED
  BY <1>1, <1>2, <1>3, <1>4, <1>5 DEF RegisteredAs

LEMMA RegisterLoans ==
  ASSUME NEW s \in StateSet, NEW u, NEW ccy \in Currency, NEW res, RegisteredAs(s, u, ccy, res)
  PROVE  /\ ~Positive(res.borrowed_qty) => u = s
         /\ Positive(res.borrowed_qty) => LoansStep(s, u, res.borrow_id[1])
<1> SUFFICES ASSUME Positive(res.borrowed_qty) PROVE LoansStep(s, u, res.borrow_id[1])
  BY DEF RegisteredAs
<1> DEFINE id == res.borrow_id
<1>1. /\ DOMAIN u.pending_borrows = DOMAIN s.pending_borrows \cup {id}
      /\ \A j \in DOMAIN s.pending_borrows :
           j # id => u.pending_borrows[j] = s.pending_borrows[j]
      /\ u.currencies = s.currencies
  BY DEF RegisteredAs
<1> HIDE DEF id
<1>2. \A j : \A c \in Currency : Debt(u, c, j) = Debt(s, c, j)
  BY <1>1 DEF Debt
<1>3. ASSUME NEW j \in DOMAIN s.pending_borrows, j[1] # id[1], LoanOK(s, j)
      PROVE  LoanOK(u, j)
  <2>1. u.pending_borrows[j] = s.pending_borrows[j]
    BY <1>1, <1>3
  <2>2. s.pending_borrows[j].from_ccy \in Currency
    BY StateFields, PartialType, PendingFields
  <2> QED
    BY <1>2, <1>3, <2>1, <2>2 DEF LoanOK
<1>4. LoansStep(s, u, id[1])
  BY <1>1, <1>2, <1>3 DEF LoansStep
<1> QED
  BY <1>4 DEF id

\* It is in order when its debt is what was borrowed.
LEMMA RegisterOK ==
  ASSUME NEW s \in StateSet, NEW u, NEW ccy \in Currency, NEW res, ResultOK(res),
         RegisteredAs(s, u, ccy, res), Positive(res.borrowed_qty),
         Debt(s, ccy, res.borrow_id) = res.borrowed_qty,
         \A c \in Currency : c # ccy => Debt(s, c, res.borrow_id) = Zero
  PROVE  LoanOK(u, res.borrow_id)
<1> DEFINE id == res.borrow_id
           pb == u.pending_borrows[id]
<1>1. /\ pb.borrowed_qty = res.borrowed_qty /\ pb.covered_qty = Zero
      /\ pb.finalized = FALSE /\ pb.from_ccy = ccy /\ u.currencies = s.currencies
  BY DEF RegisteredAs
<1> HIDE DEF pb, id
<1>2. \A c \in Currency : Debt(u, c, id) = Debt(s, c, id)
  BY <1>1 DEF Debt
<1>3. res.borrowed_qty \in Rat
  BY DEF ResultOK
<1>4. ~fully_covered(pb)
  BY <1>1, <1>3, ZeroType, OrderFacts DEF fully_covered, Positive
<1>5. pb.borrowed_qty -- pb.covered_qty = Debt(u, ccy, id)
  BY <1>1, <1>2, <1>3, AddZero DEF id
<1>6. \A c \in Currency : c # ccy => Debt(u, c, id) = Zero
  BY <1>2 DEF id
<1>7. pb.finalized <=> fully_covered(pb)
  BY <1>1, <1>4
<1> QED
  BY <1>1, <1>5, <1>6, <1>7 DEF LoanOK, pb, id

(***************************************************************************)
(* The ledger: what the registry holds for each event                      *)
(***************************************************************************)

LEMMA SumSingle ==
  ASSUME NEW M \in Nat, NEW k \in 1..M, NEW x \in Rat, NEW d \in [1..M -> Rat],
         d[k] = x, \A i \in 1..M : i # k => d[i] = Zero
  PROVE  SumOf(d) = x
<1> DEFINE S == {j \in Nat : j <= M => Sums(d)[j] = IF j < k THEN Zero ELSE x}
<1>1. d \in Seq(Rat) /\ Len(d) = M /\ k \in Nat /\ 0 < k /\ k <= M
  BY FunSeq
<1>2. /\ Sums(d)[0] = Zero
      /\ \A i \in 1..M : Sums(d)[i] = Sums(d)[i - 1] ++ d[i]
  BY <1>1, SumsProp
<1>3. 0 \in S
  BY <1>1, <1>2
<1>4. ASSUME NEW n \in Nat, n \in S PROVE n + 1 \in S
  <2> SUFFICES ASSUME n + 1 <= M
               PROVE  Sums(d)[n + 1] = IF n + 1 < k THEN Zero ELSE x
    OBVIOUS
  <2>1. n + 1 \in 1..M /\ (n + 1) - 1 = n /\ n <= M
    OBVIOUS
  <2>2. Sums(d)[n + 1] = Sums(d)[n] ++ d[n + 1]
    BY <1>2, <2>1
  <2>3. Sums(d)[n] = IF n < k THEN Zero ELSE x
    BY <1>4, <2>1
  <2>4. d[n + 1] = IF n + 1 = k THEN x ELSE Zero
    BY <2>1
  <2>5. Zero ++ x = x /\ x ++ Zero = x /\ Zero ++ Zero = Zero
    BY ZeroType, AddZero, AddComm
  <2>6. CASE n + 1 < k
    BY <1>1, <2>2, <2>3, <2>4, <2>5, <2>6
  <2>7. CASE n + 1 = k
    BY <1>1, <2>2, <2>3, <2>4, <2>5, <2>7
  <2>8. CASE k < n + 1
    BY <1>1, <2>2, <2>3, <2>4, <2>5, <2>8
  <2> QED
    BY <1>1, <2>6, <2>7, <2>8
<1> HIDE DEF S
<1>5. \A n \in Nat : n \in S
  BY <1>3, <1>4, Induction
<1> QED
  BY <1>1, <1>5 DEF S, SumOf

\* A sum in which one number changes.
LEMMA SumChanged ==
  ASSUME NEW M \in Nat, NEW p \in [1..M -> Rat], NEW q \in [1..M -> Rat], NEW k \in 1..M,
         \A i \in 1..M : i # k => q[i] = p[i]
  PROVE  SumOf(q) = SumOf(p) ++ (q[k] -- p[k])
<1> DEFINE x == q[k] -- p[k]
           d == [i \in 1..M |-> IF i = k THEN x ELSE Zero]
<1>1. x \in Rat /\ p[k] \in Rat /\ q[k] \in Rat
  BY AddType
<1> HIDE DEF x
<1>2. SumOf(d) = x
  <2>1. d \in [1..M -> Rat] /\ d[k] = x /\ \A i \in 1..M : i # k => d[i] = Zero
    BY <1>1, ZeroType
  <2> HIDE DEF d
  <2> QED
    BY <1>1, <2>1, SumSingle
<1>3. /\ p \in Seq(Rat) /\ Len(p) = M /\ q \in Seq(Rat) /\ Len(q) = M
      /\ d \in Seq(Rat) /\ Len(d) = M
  <2>1. d \in [1..M -> Rat]
    BY <1>1, ZeroType
  <2> QED
    BY <2>1, FunSeq
<1>4. p[k] ++ x = q[k]
  BY <1>1, AddSub DEF x
<1>5. ASSUME NEW i \in 1..M PROVE q[i] = p[i] ++ d[i]
  <2>1. CASE i = k
    BY <1>4, <2>1
  <2>2. CASE i # k
    <3>1. p[i] \in Rat /\ d[i] = Zero /\ q[i] = p[i]
      BY <2>2
    <3> QED
      BY <3>1, AddZero
  <2> QED
    BY <2>1, <2>2
<1> HIDE DEF d
<1>6. SumOf(q) = SumOf(p) ++ SumOf(d)
  <2>1. Len(p) = Len(q) /\ Len(d) = Len(q) /\ \A i \in 1..Len(q) : q[i] = p[i] ++ d[i]
    BY <1>3, <1>5
  <2>2. p \in Seq(Rat) /\ q \in Seq(Rat) /\ d \in Seq(Rat)
    BY <1>3
  <2> QED
    BY <2>1, <2>2, SumPointwise
<1> QED
  BY <1>2, <1>6 DEF x

\* The entries of the registry that belong to the event n.
Slot(st, n) ==
  {id \in DOMAIN st.pending_borrows : st.pending_borrows[id].consumer = n}

\* Every entry belongs to one of the first M events, each of which has one at most.
Keyed(st, M) ==
  \A id \in DOMAIN st.pending_borrows :
    /\ st.pending_borrows[id].consumer \in 1..M
    /\ \A j \in DOMAIN st.pending_borrows :
         st.pending_borrows[j].consumer = st.pending_borrows[id].consumer => j = id

Only(S) == CHOOSE x \in S : TRUE

\* What the entry of n counts for, by the function w of entries.
At(st, n, w) ==
  IF Slot(st, n) = {} THEN Zero ELSE w[st.pending_borrows[Only(Slot(st, n))]]

Ledger(st, M, w) == [n \in 1..M |-> At(st, n, w)]

Weights == [PendingSet -> Rat]

LEMMA AtIs ==
  ASSUME NEW st, NEW M, Keyed(st, M), NEW id \in DOMAIN st.pending_borrows, NEW w
  PROVE  /\ Slot(st, st.pending_borrows[id].consumer) = {id}
         /\ At(st, st.pending_borrows[id].consumer, w) = w[st.pending_borrows[id]]
<1> DEFINE n == st.pending_borrows[id].consumer
<1>1. Slot(st, n) = {id}
  BY DEF Slot, Keyed
<1>2. Only({id}) = id
  BY DEF Only
<1> QED
  BY <1>1, <1>2 DEF At

LEMMA AtType ==
  ASSUME NEW st \in StateSet, NEW n, NEW w \in Weights
  PROVE  At(st, n, w) \in Rat
<1>1. CASE Slot(st, n) = {}
  BY <1>1, ZeroType DEF At
<1>2. CASE Slot(st, n) # {}
  <2> DEFINE id == Only(Slot(st, n))
  <2>1. id \in DOMAIN st.pending_borrows
    BY <1>2 DEF Slot, Only
  <2>2. st.pending_borrows[id] \in PendingSet
    BY <2>1, StateFields, PartialType
  <2> QED
    BY <1>2, <2>2 DEF At, Weights
<1> QED
  BY <1>1, <1>2

LEMMA LedgerType ==
  ASSUME NEW st \in StateSet, NEW M \in Nat, NEW w \in Weights
  PROVE  Ledger(st, M, w) \in [1..M -> Rat] /\ SumOf(Ledger(st, M, w)) \in Rat
<1>1. Ledger(st, M, w) \in [1..M -> Rat]
  BY AtType DEF Ledger
<1> HIDE DEF Ledger
<1> QED
  BY <1>1, FunSeq, SumType

\* One entry is replaced by another one of the same event.
LEMMA LedgerStep ==
  ASSUME NEW st \in StateSet, NEW s \in StateSet, NEW M \in Nat, Keyed(st, M),
         NEW id \in DOMAIN st.pending_borrows, OthersKept(st, s, id),
         s.pending_borrows[id].consumer = st.pending_borrows[id].consumer,
         NEW w \in Weights
  PROVE  /\ Keyed(s, M)
         /\ SumOf(Ledger(s, M, w))
              = SumOf(Ledger(st, M, w))
                  ++ (w[s.pending_borrows[id]] -- w[st.pending_borrows[id]])
<1> DEFINE k == st.pending_borrows[id].consumer
           p == Ledger(st, M, w)
           q == Ledger(s, M, w)
<1>1. DOMAIN s.pending_borrows = DOMAIN st.pending_borrows
  BY DEF OthersKept
<1>2. \A j \in DOMAIN st.pending_borrows :
        s.pending_borrows[j].consumer = st.pending_borrows[j].consumer
  BY DEF OthersKept
<1>3. Keyed(s, M)
  BY <1>1, <1>2 DEF Keyed
<1>4. k \in 1..M
  BY DEF Keyed
<1>5. \A n : Slot(s, n) = Slot(st, n)
  BY <1>1, <1>2 DEF Slot
<1>6. ASSUME NEW n \in 1..M, n # k PROVE At(s, n, w) = At(st, n, w)
  <2>1. CASE Slot(st, n) = {}
    BY <1>5, <2>1 DEF At
  <2>2. CASE Slot(st, n) # {}
    <3> DEFINE j == Only(Slot(st, n))
    <3>1. j \in DOMAIN st.pending_borrows /\ st.pending_borrows[j].consumer = n
      BY <2>2 DEF Slot, Only
    <3>2. j # id
      BY <1>6, <3>1
    <3>3. s.pending_borrows[j] = st.pending_borrows[j]
      BY <3>1, <3>2 DEF OthersKept
    <3> QED
      BY <1>5, <2>2, <3>3 DEF At
  <2> QED
    BY <2>1, <2>2
<1>7. /\ At(st, k, w) = w[st.pending_borrows[id]]
      /\ At(s, k, w) = w[s.pending_borrows[id]]
  <2>1. s.pending_borrows[id].consumer = k /\ id \in DOMAIN s.pending_borrows
    BY <1>1
  <2>2. At(s, s.pending_borrows[id].consumer, w) = w[s.pending_borrows[id]]
    BY <1>3, <2>1, AtIs
  <2>3. At(st, k, w) = w[st.pending_borrows[id]]
    BY AtIs
  <2> QED
    BY <2>1, <2>2, <2>3
<1>8. p \in [1..M -> Rat] /\ q \in [1..M -> Rat]
  BY LedgerType
<1>9. \A i \in 1..M : i # k => q[i] = p[i]
  BY <1>6 DEF Ledger
<1>10. q[k] = w[s.pending_borrows[id]] /\ p[k] = w[st.pending_borrows[id]]
  BY <1>4, <1>7 DEF Ledger
<1> HIDE DEF k, p, q
<1>11. SumOf(q) = SumOf(p) ++ (q[k] -- p[k])
  BY <1>4, <1>8, <1>9, SumChanged
<1> QED
  BY <1>3, <1>10, <1>11 DEF p, q

\* A first entry of the event k.
LEMMA LedgerEntry ==
  ASSUME NEW st \in StateSet, NEW s \in StateSet, NEW M \in Nat, Keyed(st, M),
         NEW k \in 1..M, Slot(st, k) = {}, NEW id, id \notin DOMAIN st.pending_borrows,
         DOMAIN s.pending_borrows = DOMAIN st.pending_borrows \cup {id},
         \A j \in DOMAIN st.pending_borrows : s.pending_borrows[j] = st.pending_borrows[j],
         s.pending_borrows[id].consumer = k, NEW w \in Weights
  PROVE  /\ Keyed(s, M)
         /\ SumOf(Ledger(s, M, w)) = SumOf(Ledger(st, M, w)) ++ w[s.pending_borrows[id]]
<1> DEFINE p == Ledger(st, M, w)
           q == Ledger(s, M, w)
           x == w[s.pending_borrows[id]]
<1>1. \A j \in DOMAIN st.pending_borrows : st.pending_borrows[j].consumer # k
  BY DEF Slot
<1>2. Keyed(s, M)
  BY <1>1 DEF Keyed
<1>3. \A n \in 1..M : n # k => Slot(s, n) = Slot(st, n)
  BY DEF Slot
<1>4. ASSUME NEW n \in 1..M, n # k PROVE At(s, n, w) = At(st, n, w)
  <2>1. CASE Slot(st, n) = {}
    BY <1>3, <1>4, <2>1 DEF At
  <2>2. CASE Slot(st, n) # {}
    <3> DEFINE j == Only(Slot(st, n))
    <3>1. j \in DOMAIN st.pending_borrows
      BY <2>2 DEF Slot, Only
    <3>2. s.pending_borrows[j] = st.pending_borrows[j]
      BY <3>1
    <3> QED
      BY <1>3, <1>4, <2>2, <3>2 DEF At
  <2> QED
    BY <2>1, <2>2
<1>5. At(st, k, w) = Zero
  BY DEF At
<1>6. At(s, k, w) = x
  <2>1. id \in DOMAIN s.pending_borrows /\ s.pending_borrows[id].consumer = k
    OBVIOUS
  <2>2. At(s, s.pending_borrows[id].consumer, w) = x
    BY <1>2, <2>1, AtIs
  <2> QED
    BY <2>1, <2>2
<1>7. p \in [1..M -> Rat] /\ q \in [1..M -> Rat] /\ x \in Rat
  <2>1. p \in [1..M -> Rat] /\ q \in [1..M -> Rat]
    BY LedgerType
  <2>2. x \in Rat
    BY <1>6, AtType
  <2> QED
    BY <2>1, <2>2
<1>8. \A i \in 1..M : i # k => q[i] = p[i]
  BY <1>4 DEF Ledger
<1>9. q[k] = x /\ p[k] = Zero
  BY <1>5, <1>6 DEF Ledger
<1> HIDE DEF p, q, x
<1>10. SumOf(q) = SumOf(p) ++ (q[k] -- p[k])
  BY <1>7, <1>8, SumChanged
<1>11. x -- Zero = x
  BY <1>7, AddZero
<1> QED
  BY <1>2, <1>9, <1>10, <1>11 DEF p, q, x

\* The ledger of one event more, which has no entry yet.
LEMMA LedgerLonger ==
  ASSUME NEW st \in StateSet, NEW N \in Nat, Keyed(st, N), NEW w \in Weights
  PROVE  /\ Keyed(st, N + 1) /\ Slot(st, N + 1) = {}
         /\ SumOf(Ledger(st, N + 1, w)) = SumOf(Ledger(st, N, w))
<1> DEFINE p == Ledger(st, N, w)
           r == Ledger(st, N + 1, w)
<1>1. Keyed(st, N + 1) /\ Slot(st, N + 1) = {}
  BY DEF Keyed, Slot
<1>2. p \in [1..N -> Rat] /\ r \in [1..N + 1 -> Rat]
  BY LedgerType
<1>3. \A n \in 1..N : r[n] = p[n]
  BY DEF Ledger
<1>4. r[N + 1] = Zero
  BY <1>1 DEF Ledger, At
<1> HIDE DEF p, r
<1>5. SumOf(r) = SumOf(p) ++ r[N + 1] /\ SumOf(p) \in Rat
  BY <1>2, <1>3, SumExtended
<1> QED
  BY <1>1, <1>4, <1>5, AddZero DEF p, r

LEMMA LedgerSame ==
  ASSUME NEW st, NEW s, NEW M, s.pending_borrows = st.pending_borrows, NEW w
  PROVE  /\ Keyed(s, M) <=> Keyed(st, M)
         /\ \A n : Slot(s, n) = Slot(st, n)
         /\ Ledger(s, M, w) = Ledger(st, M, w)
BY DEF Keyed, Ledger, At, Slot

\* What holds of a state, and of the state after each turn of the loop if it holds
\* of the one before, holds of what all the covers leave.
LEMMA CoveredAll ==
  ASSUME NEW st \in StateSet, NEW borrows \in Seq(BorrowLot), NEW taken \in Seq(Rat),
         Len(taken) = Len(borrows), NEW fx \in Rat, NEW X, <<0, st>> \in X,
         \A i \in 1..Len(borrows) : \A s \in StateSet :
           <<i - 1, s>> \in X =>
             <<i, IF taken[i] = Zero THEN s
                  ELSE on_cover(s, borrows[i].borrow_id, taken[i], fx)>> \in X
  PROVE  <<Len(borrows), covered(st, borrows, taken, fx)>> \in X
<1> DEFINE g == CoveredFn(st, borrows, taken, fx)
           N == Len(borrows)
           S == {j \in Nat : j <= N => <<j, g[j]>> \in X}
<1>1. /\ g \in [0..N -> StateSet] /\ g[0] = st
      /\ \A i \in 1..N : g[i] = IF taken[i] = Zero THEN g[i - 1]
                                ELSE on_cover(g[i - 1], borrows[i].borrow_id, taken[i], fx)
      /\ covered(st, borrows, taken, fx) = g[N]
  BY CoveredProp
<1>2. N \in Nat
  OBVIOUS
<1> HIDE DEF g
<1>3. 0 \in S
  BY <1>1
<1>4. ASSUME NEW n \in Nat, n \in S PROVE n + 1 \in S
  <2> SUFFICES ASSUME n + 1 <= N PROVE <<n + 1, g[n + 1]>> \in X
    OBVIOUS
  <2>1. n + 1 \in 1..N /\ (n + 1) - 1 = n /\ n \in 0..N
    BY <1>2
  <2>2. g[n] \in StateSet /\ <<n, g[n]>> \in X
    BY <1>1, <1>4, <2>1
  <2>3. g[n + 1] = IF taken[n + 1] = Zero THEN g[n]
                   ELSE on_cover(g[n], borrows[n + 1].borrow_id, taken[n + 1], fx)
    BY <1>1, <2>1
  <2> QED
    BY <2>1, <2>2, <2>3
<1> HIDE DEF S
<1>5. \A n \in Nat : n \in S
  BY <1>3, <1>4, Induction
<1> QED
  BY <1>1, <1>2, <1>5 DEF S

(***************************************************************************)
(* Fees, booked and to be booked                                           *)
(***************************************************************************)

\* The fee in c that an entry still has to book.
FeeW(c) ==
  [pb \in PendingSet |->
     IF pb.consumer_kind = "buy" /\ ~pb.finalized /\ pb.from_ccy = c
     THEN pb.fee_native ELSE Zero]

LEMMA FeeWeight ==
  ASSUME NEW c
  PROVE  /\ FeeW(c) \in Weights
         /\ \A pb \in PendingSet :
              FeeW(c)[pb] = IF pb.consumer_kind = "buy" /\ ~pb.finalized /\ pb.from_ccy = c
                            THEN pb.fee_native ELSE Zero
<1>1. \A pb \in PendingSet : pb.fee_native \in Rat /\ Zero \in Rat
  BY PendingFields, ZeroType
<1> QED
  BY <1>1 DEF FeeW, Weights

\* All fees in c of the first M events.
FeeBal(st, M, c) == st.currencies[c].fees_native ++ SumOf(Ledger(st, M, FeeW(c)))

FeesKept(st, s, M) ==
  /\ s \in StateSet /\ Keyed(s, M)
  /\ \A n : Slot(s, n) = Slot(st, n)
  /\ \A c \in Currency : FeeBal(s, M, c) = FeeBal(st, M, c)

LEMMA CoverSlots ==
  ASSUME NEW st, NEW s, CoverKeeps(st, s)
  PROVE  \A n : Slot(s, n) = Slot(st, n)
BY DEF CoverKeeps, SameLoan, Slot

LEMMA OneFee ==
  ASSUME NEW a \in Rat, NEW b \in Rat, NEW f \in Rat
  PROVE  (a ++ f) ++ (b ++ (Zero -- f)) = a ++ b
<1>1. PICK d \in Pos, i \in Int, j \in Int, k \in Int :
        a = Reduced(i, d) /\ b = Reduced(j, d) /\ f = Reduced(k, d)
  BY Common3
<1>2. Zero = Reduced(0, d)
  BY ZeroRatio
<1>3. /\ a ++ f = Reduced(i + k, d) /\ Zero -- f = Reduced(0 - k, d)
      /\ a ++ b = Reduced(i + j, d)
  BY <1>1, <1>2, RatioAdd
<1>4. i + k \in Int /\ 0 - k \in Int /\ j + (0 - k) \in Int
  OBVIOUS
<1>5. b ++ (Zero -- f) = Reduced(j + (0 - k), d)
  BY <1>1, <1>3, <1>4, RatioAdd
<1>6. (a ++ f) ++ (b ++ (Zero -- f)) = Reduced((i + k) + (j + (0 - k)), d)
  BY <1>3, <1>4, <1>5, RatioAdd
<1>7. (i + k) + (j + (0 - k)) = i + j
  OBVIOUS
<1> QED
  BY <1>3, <1>6, <1>7

\* A cover that settles a purchase books the fee that was to be booked.
LEMMA CoverFees ==
  ASSUME NEW st \in StateSet, NEW M \in Nat, Keyed(st, M), NEW id, NEW qty \in Rat,
         NEW fx \in Rat, NEW s, s = on_cover(st, id, qty, fx)
  PROVE  FeesKept(st, s, M)
<1>1. CoverKeeps(st, s)
  BY OnCoverKeeps
<1>2. s \in StateSet /\ \A n : Slot(s, n) = Slot(st, n)
  BY <1>1, CoverSlots DEF CoverKeeps
<1>3. CASE ~Open(st, id)
  <2>1. s = st
    BY <1>3, OnCoverIs
  <2> QED
    BY <2>1 DEF FeesKept
<1>4. CASE Open(st, id)
  <2> DEFINE pb == st.pending_borrows[id]
             new == s.pending_borrows[id]
  <2>1. /\ id \in DOMAIN st.pending_borrows /\ EntryStep(pb, new, qty, fx)
        /\ BooksStep(st, s, new) /\ OthersKept(st, s, id)
    BY <1>4, OnCoverStep
  <2>2. pb \in PendingSet /\ ~pb.finalized
    <3>1. pb \in PendingSet
      BY <2>1, StateFields, PartialType
    <3> QED
      BY <1>4, <3>1 DEF Open
  <2>3. new \in PendingSet /\ SameLoan(pb, new) /\ new.consumer = pb.consumer
    BY <2>1 DEF EntryStep, SameLoan
  <2>4. ASSUME NEW w \in Weights
        PROVE  /\ Keyed(s, M)
               /\ SumOf(Ledger(s, M, w)) = SumOf(Ledger(st, M, w)) ++ (w[new] -- w[pb])
    BY <1>2, <2>1, <2>3, LedgerStep
  <2>5. Keyed(s, M)
    BY <2>4, FeeWeight
  <2>6. ASSUME NEW c \in Currency PROVE FeeBal(s, M, c) = FeeBal(st, M, c)
    <3> DEFINE w == FeeW(c)
               a == st.currencies[c].fees_native
               b == SumOf(Ledger(st, M, w))
               f == pb.fee_native
    <3>1. w \in Weights
      BY FeeWeight
    <3>2. a \in Rat /\ b \in Rat /\ f \in Rat
      <4>1. a \in Rat
        BY StateFields, BucketFields
      <4>2. b \in Rat
        BY <3>1, LedgerType
      <4>3. f \in Rat
        BY <2>2, PendingFields
      <4> QED
        BY <4>1, <4>2, <4>3
    <3>3. /\ w[pb] = IF pb.consumer_kind = "buy" /\ pb.from_ccy = c THEN f ELSE Zero
          /\ w[new] = IF pb.consumer_kind = "buy" /\ ~new.finalized /\ pb.from_ccy = c
                      THEN f ELSE Zero
      <4>1. w[pb] = IF pb.consumer_kind = "buy" /\ pb.from_ccy = c THEN f ELSE Zero
        BY <2>2, FeeWeight
      <4>2. w[new] = IF new.consumer_kind = "buy" /\ ~new.finalized /\ new.from_ccy = c
                     THEN new.fee_native ELSE Zero
        BY <2>3, FeeWeight
      <4>3. new.consumer_kind = pb.consumer_kind /\ new.from_ccy = pb.from_ccy
            /\ new.fee_native = f
        BY <2>3 DEF SameLoan
      <4> QED
        BY <4>1, <4>2, <4>3
    <3>4. SumOf(Ledger(s, M, w)) = b ++ (w[new] -- w[pb])
      BY <2>4, <3>1
    <3>5. s.currencies[c].fees_native
            = IF pb.from_ccy = c THEN a ++ FeeOf(new) ELSE a
      BY <2>1, <2>3 DEF BooksStep, SameLoan
    <3>6. FeeOf(new) = IF new.finalized /\ pb.consumer_kind = "buy" THEN f ELSE Zero
      BY <2>3 DEF FeeOf, SameLoan
    <3> HIDE DEF w, a, b, f, pb, new
    <3>7. a ++ Zero = a /\ b ++ Zero = b /\ f -- f = Zero /\ Zero -- Zero = Zero
      BY <3>2, ZeroType, AddZero
    <3>8. CASE pb.consumer_kind = "buy" /\ pb.from_ccy = c /\ new.finalized
      <4>1. s.currencies[c].fees_native = a ++ f
        BY <3>5, <3>6, <3>8
      <4>2. SumOf(Ledger(s, M, w)) = b ++ (Zero -- f)
        BY <3>3, <3>4, <3>8
      <4>3. (a ++ f) ++ (b ++ (Zero -- f)) = a ++ b
        BY <3>2, OneFee
      <4> QED
        BY <4>1, <4>2, <4>3 DEF FeeBal, w, a, b
    <3>9. CASE ~(pb.consumer_kind = "buy" /\ pb.from_ccy = c /\ new.finalized)
      <4>1. s.currencies[c].fees_native = a
        BY <3>5, <3>6, <3>7, <3>9
      <4>2. w[new] = w[pb] /\ w[new] -- w[pb] = Zero
        BY <3>3, <3>7, <3>9
      <4>3. SumOf(Ledger(s, M, w)) = b
        BY <3>4, <3>7, <4>2
      <4> QED
        BY <4>1, <4>3 DEF FeeBal, w, a, b
    <3> QED
      BY <3>8, <3>9
  <2> QED
    BY <1>2, <2>5, <2>6 DEF FeesKept
<1> QED
  BY <1>3, <1>4

LEMMA FeesTrans ==
  ASSUME NEW st, NEW s, NEW u, NEW M, FeesKept(st, s, M), FeesKept(s, u, M)
  PROVE  FeesKept(st, u, M)
BY DEF FeesKept

LEMMA DepositFees ==
  ASSUME NEW st, CashSound(st), NEW ccy \in Currency, NEW qty \in Rat, NEW fx \in Rat,
         NEW M \in Nat, Keyed(st, M), NEW d, d = bucket_deposit(st, ccy, qty, fx)
  PROVE  FeesKept(st, d, M)
<1> DEFINE borrows == st.currencies[ccy].borrow_lots
           t == Taken(borrows, qty)
           cov == CoversOf(st, ccy, qty, fx)
           X == {x \in Nat \X StateSet : FeesKept(st, x[2], M)}
<1>1. st \in StateSet /\ borrows \in Seq(BorrowLot) /\ AllPositive(borrows)
  BY BucketFields DEF CashSound, BucketOK
<1>2. CASE ~Positive(qty)
  <2>1. d = st
    BY <1>2 DEF bucket_deposit
  <2> QED
    BY <1>1, <2>1 DEF FeesKept
<1>3. CASE Positive(qty)
  <2>1. t \in Seq(Rat) /\ Len(t) = Len(borrows) /\ \A i \in 1..Len(borrows) : t[i] \in Rat
    BY <1>1, <1>3, LotSets, TakenFacts, NotNegative DEF TakenWell
  <2>2. <<0, st>> \in X
    BY <1>1 DEF FeesKept
  <2>3. ASSUME NEW i \in 1..Len(borrows), NEW s \in StateSet, <<i - 1, s>> \in X
        PROVE  <<i, IF t[i] = Zero THEN s
                    ELSE on_cover(s, borrows[i].borrow_id, t[i], fx)>> \in X
    <3> DEFINE q == t[i]
               id == borrows[i].borrow_id
               u == on_cover(s, id, q, fx)
    <3>1. FeesKept(st, s, M) /\ Keyed(s, M) /\ q \in Rat /\ i \in Nat
      BY <2>1, <2>3 DEF FeesKept
    <3> HIDE DEF q, id
    <3>2. FeesKept(s, u, M)
      BY <3>1, CoverFees
    <3> HIDE DEF u
    <3>3. FeesKept(st, u, M) /\ u \in StateSet
      BY <3>1, <3>2, FeesTrans DEF FeesKept
    <3> QED
      BY <3>1, <3>3 DEF u, q, id
  <2> HIDE DEF X
  <2>4. cov = covered(st, borrows, t, fx)
    BY DEF CoversOf
  <2> HIDE DEF t, borrows, cov
  <2>5. <<Len(borrows), cov>> \in X
    BY <1>1, <2>1, <2>2, <2>3, <2>4, CoveredAll
  <2>6. FeesKept(st, cov, M)
    BY <2>5 DEF X
  <2>7. DepositIs(st, d, cov, ccy, qty, fx)
    BY <1>3, DepositFacts DEF cov
  <2>8. d \in StateSet
    BY Deposited DEF CashKeeps, CashSound
  <2>9. /\ \A c \in Currency : d.currencies[c].fees_native = cov.currencies[c].fees_native
        /\ d.pending_borrows = cov.pending_borrows
    BY <2>7 DEF DepositIs
  <2>10. /\ Keyed(d, M) <=> Keyed(cov, M)
         /\ \A n : Slot(d, n) = Slot(cov, n)
         /\ \A c : Ledger(d, M, FeeW(c)) = Ledger(cov, M, FeeW(c))
    BY <2>9, LedgerSame
  <2> QED
    BY <2>6, <2>8, <2>9, <2>10 DEF FeesKept, FeeBal
<1> QED
  BY <1>2, <1>3

(***************************************************************************)
(* The sum over the currencies                                             *)
(***************************************************************************)

\* The currencies in the order in which they are added up.
Codes == SetToSeq(Currency)

LEMMA CodesAre ==
  /\ Cardinality(Currency) \in Nat
  /\ Codes \in [1..Cardinality(Currency) -> Currency]
  /\ \A i, j \in 1..Cardinality(Currency) : Codes[i] = Codes[j] => i = j
  /\ \A c \in Currency : \E i \in 1..Cardinality(Currency) : Codes[i] = c
<1> DEFINE n == Cardinality(Currency)
           D == 1..n
<1>1. n \in Nat /\ ExistsBijection(D, Currency)
  BY CurrencyAssumption, FS_CardinalityType
<1>2. PICK b : b \in [D -> Currency] /\ IsInjective(b)
  BY <1>1 DEF ExistsBijection, Bijection, Injection
<1>3. Codes \in [D -> Currency] /\ IsInjective(Codes)
  BY <1>2 DEF Codes, SetToSeq
<1> HIDE DEF Codes
<1>4. Codes \in Injection(D, Currency)
  BY <1>3 DEF Injection
<1>5. Cardinality(D) = n
  BY <1>1, FS_Interval
<1>6. Codes \in Surjection(D, Currency)
  BY <1>4, <1>5, CurrencyAssumption, FS_Injection
<1> QED
  BY <1>1, <1>3, <1>6 DEF IsInjective, Surjection

\* The FX gain of a currency, less what its lots had cost.
Purse(b) == b.gain_fifo -- Value(b.fifo_lots)
PurseList(st) ==
  [k \in 1..Cardinality(Currency) |-> Purse(st.currencies[Codes[k]])]
Purses(st) == SumOf(PurseList(st))

LEMMA PurseType ==
  ASSUME NEW st \in StateSet, NEW c \in Currency
  PROVE  /\ Purse(st.currencies[c]) \in Rat
         /\ st.currencies[c].gain_fifo \in Rat
         /\ Value(st.currencies[c].fifo_lots) \in Rat
<1> DEFINE b == st.currencies[c]
<1>1. b \in BucketSet
  BY StateFields
<1> HIDE DEF b
<1>2. b.gain_fifo \in Rat /\ b.fifo_lots \in Seq(CashLot)
  BY <1>1, BucketFields
<1>3. Value(b.fifo_lots) \in Rat
  BY <1>2, ValueIs
<1>4. Purse(b) \in Rat
  BY <1>2, <1>3, AddType DEF Purse
<1> QED
  BY <1>2, <1>3, <1>4 DEF b

LEMMA PursesType ==
  ASSUME NEW st \in StateSet
  PROVE  /\ PurseList(st) \in [1..Cardinality(Currency) -> Rat]
         /\ Purses(st) \in Rat
<1> DEFINE n == Cardinality(Currency)
<1>1. n \in Nat /\ \A k \in 1..n : Codes[k] \in Currency
  BY CodesAre
<1>2. \A k \in 1..n : Purse(st.currencies[Codes[k]]) \in Rat
  BY <1>1, PurseType
<1>3. PurseList(st) \in [1..n -> Rat]
  BY <1>2 DEF PurseList
<1> HIDE DEF n
<1>4. PurseList(st) \in Seq(Rat)
  BY <1>1, <1>3, FunSeq
<1> QED
  BY <1>3, <1>4, SumType DEF Purses, n

\* The purse of one currency changes,
LEMMA PursesChanged ==
  ASSUME NEW st \in StateSet, NEW s \in StateSet, NEW ccy \in Currency, NEW x \in Rat,
         \A c \in Currency : c # ccy => Purse(s.currencies[c]) = Purse(st.currencies[c]),
         Purse(s.currencies[ccy]) = Purse(st.currencies[ccy]) ++ x
  PROVE  Purses(s) = Purses(st) ++ x
<1> DEFINE n == Cardinality(Currency)
           p == PurseList(st)
           q == PurseList(s)
<1>1. /\ n \in Nat /\ \A k \in 1..n : Codes[k] \in Currency
      /\ \A i, j \in 1..n : Codes[i] = Codes[j] => i = j
  BY CodesAre
<1>2. PICK k \in 1..n : Codes[k] = ccy
  BY CodesAre
<1>3. /\ p \in [1..n -> Rat] /\ \A i \in 1..n : p[i] = Purse(st.currencies[Codes[i]])
      /\ q \in [1..n -> Rat] /\ \A i \in 1..n : q[i] = Purse(s.currencies[Codes[i]])
  BY PursesType DEF PurseList
<1>4. \A i \in 1..n : i # k => q[i] = p[i]
  BY <1>1, <1>2, <1>3
<1>5. q[k] = p[k] ++ x /\ p[k] \in Rat
  BY <1>2, <1>3
<1>6. Purses(st) = SumOf(p) /\ Purses(s) = SumOf(q)
  BY DEF Purses
<1> HIDE DEF n, p, q
<1>7. SumOf(q) = SumOf(p) ++ (q[k] -- p[k])
  BY <1>1, <1>2, <1>3, <1>4, SumChanged
<1>8. q[k] -- p[k] = x
  BY <1>5, AddComm, AddSub
<1> QED
  BY <1>6, <1>7, <1>8

\* or none does.
LEMMA PursesSame ==
  ASSUME NEW st, NEW s,
         \A c \in Currency : Purse(s.currencies[c]) = Purse(st.currencies[c])
  PROVE  Purses(s) = Purses(st)
<1>1. \A k \in 1..Cardinality(Currency) : Codes[k] \in Currency
  BY CodesAre
<1>2. PurseList(s) = PurseList(st)
  BY <1>1 DEF PurseList
<1> QED
  BY <1>2 DEF Purses

\* The purses, as the sums of their two parts.
LEMMA PursesAre ==
  ASSUME state \in StateSet
  PROVE  /\ Purses(state)
              = OverCurrencies(LAMBDA c : Bucket(c).gain_fifo)
                  -- OverCurrencies(LAMBDA c : Value(Bucket(c).fifo_lots))
         /\ OverCurrencies(LAMBDA c : Bucket(c).gain_fifo) \in Rat
         /\ OverCurrencies(LAMBDA c : Value(Bucket(c).fifo_lots)) \in Rat
<1> DEFINE n == Cardinality(Currency)
           r == PurseList(state)
           p == [k \in 1..n |-> state.currencies[Codes[k]].gain_fifo]
           q == [k \in 1..n |-> Value(state.currencies[Codes[k]].fifo_lots)]
<1>1. n \in Nat /\ DOMAIN Codes = 1..n /\ \A k \in 1..n : Codes[k] \in Currency
  BY CodesAre
<1>2. /\ r \in [1..n -> Rat] /\ p \in [1..n -> Rat] /\ q \in [1..n -> Rat]
      /\ \A k \in 1..n : r[k] = p[k] -- q[k]
  <2>1. r \in [1..n -> Rat]
    BY PursesType
  <2>2. \A k \in 1..n : state.currencies[Codes[k]].gain_fifo \in Rat
                        /\ Value(state.currencies[Codes[k]].fifo_lots) \in Rat
    BY <1>1, PurseType
  <2> QED
    BY <2>1, <2>2 DEF PurseList, Purse
<1>3. /\ OverCurrencies(LAMBDA c : Bucket(c).gain_fifo) = SumOf(p)
      /\ OverCurrencies(LAMBDA c : Value(Bucket(c).fifo_lots)) = SumOf(q)
  BY <1>1 DEF OverCurrencies, Total, Bucket, Codes
<1> HIDE DEF n, r, p, q
<1>4. /\ r \in Seq(Rat) /\ p \in Seq(Rat) /\ q \in Seq(Rat)
      /\ Len(r) = n /\ Len(p) = n /\ Len(q) = n
  BY <1>1, <1>2, FunSeq
<1>5. SumOf(r) = SumOf(p) -- SumOf(q)
  BY <1>2, <1>4, SumPointwise
<1>6. SumOf(p) \in Rat /\ SumOf(q) \in Rat
  BY <1>4, SumType
<1> QED
  BY <1>3, <1>5, <1>6 DEF Purses, r

(***************************************************************************)
(* The base value that the fold holds                                      *)
(***************************************************************************)

\* What an entry adds to it: what a purchase has cost so far, and what an open
\* conversion is still to gain.
LoanW ==
  [pb \in PendingSet |->
     IF pb.consumer_kind = "buy" THEN Zero -- (pb.weighted ++ Backed(pb))
     ELSE IF pb.finalized THEN Zero
     ELSE (pb.borrowed_qty ** pb.from_broker_fx) -- pb.weighted]

LEMMA BackedType ==
  ASSUME NEW pb \in PendingSet
  PROVE  Backed(pb) \in Rat
<1>1. pb.lot_backed_qty \in Rat /\ pb.lot_backed_basis \in Rat \cup {None}
  BY PendingFields
<1> QED
  BY <1>1, MulType, ZeroType DEF Backed

LEMMA LoanWeight ==
  /\ LoanW \in Weights
  /\ \A pb \in PendingSet :
       LoanW[pb] = IF pb.consumer_kind = "buy" THEN Zero -- (pb.weighted ++ Backed(pb))
                   ELSE IF pb.finalized THEN Zero
                   ELSE (pb.borrowed_qty ** pb.from_broker_fx) -- pb.weighted
<1>1. ASSUME NEW pb \in PendingSet
      PROVE  /\ Zero -- (pb.weighted ++ Backed(pb)) \in Rat
             /\ (pb.borrowed_qty ** pb.from_broker_fx) -- pb.weighted \in Rat
  <2>1. /\ pb.weighted \in Rat /\ pb.borrowed_qty \in Rat /\ pb.from_broker_fx \in Rat
        /\ Backed(pb) \in Rat
    BY PendingFields, BackedType
  <2>2. pb.weighted ++ Backed(pb) \in Rat /\ pb.borrowed_qty ** pb.from_broker_fx \in Rat
    BY <2>1, AddType, MulType
  <2> QED
    BY <2>1, <2>2, AddType, ZeroType
<1> QED
  BY <1>1, ZeroType DEF LoanW, Weights

\* What was paid for the lots and the loans, less what they gained.
Worth(st, M) == Purses(st) ++ SumOf(Ledger(st, M, LoanW))

LEMMA WorthType ==
  ASSUME NEW st \in StateSet, NEW M \in Nat
  PROVE  Worth(st, M) \in Rat /\ Purses(st) \in Rat /\ SumOf(Ledger(st, M, LoanW)) \in Rat
<1>1. Purses(st) \in Rat /\ SumOf(Ledger(st, M, LoanW)) \in Rat
  BY PursesType, LoanWeight, LedgerType
<1> QED
  BY <1>1, AddType DEF Worth

\* The basis of a purchase whose loan is covered is what it has cost.
PaidFor(st, pb) ==
  /\ pb.consumer \in DOMAIN st.buy_fx_basis
  /\ st.buy_fx_basis[pb.consumer] ** (pb.lot_backed_qty ++ pb.covered_qty)
       = Backed(pb) ++ pb.weighted
Priced(st) ==
  \A id \in DOMAIN st.pending_borrows :
    st.pending_borrows[id].consumer_kind = "buy" /\ st.pending_borrows[id].finalized =>
      PaidFor(st, st.pending_borrows[id])

\* The purchases before M that borrowed nothing keep their basis, and so do the
\* sales before M.
BasisKept(st, s, M) ==
  /\ DOMAIN st.buy_fx_basis \subseteq DOMAIN s.buy_fx_basis
  /\ \A n \in DOMAIN st.buy_fx_basis :
       n # M /\ Slot(st, n) = {} => s.buy_fx_basis[n] = st.buy_fx_basis[n]
SaleBasis(st, n) == Get(st.foreign_sell_fx_basis, n, One)
SalesKept(st, s, M) ==
  /\ DOMAIN s.foreign_sell_fx_basis \subseteq DOMAIN st.foreign_sell_fx_basis \cup {M}
  /\ \A n : n # M => SaleBasis(s, n) = SaleBasis(st, n)

\* Entries are entered by the event M only.
EntriesFrom(st, s, M) ==
  \A id \in DOMAIN s.pending_borrows :
    \/ /\ id \in DOMAIN st.pending_borrows
       /\ SameLoan(st.pending_borrows[id], s.pending_borrows[id])
    \/ s.pending_borrows[id].consumer = M
SlotsKept(st, s, M) == \A n : n # M => Slot(s, n) = Slot(st, n)

\* A part of the event M: the worth grows by x.
WorthStep(st, s, M, x) ==
  /\ s \in StateSet /\ Keyed(s, M)
  /\ Worth(s, M) = Worth(st, M) ++ x
  /\ SlotsKept(st, s, M) /\ EntriesFrom(st, s, M)
  /\ BasisKept(st, s, M) /\ SalesKept(st, s, M)
  /\ Priced(st) => Priced(s)

LEMMA WorthTrans ==
  ASSUME NEW st \in StateSet, NEW s, NEW u, NEW M \in Nat, NEW x \in Rat, NEW y \in Rat,
         WorthStep(st, s, M, x), WorthStep(s, u, M, y)
  PROVE  WorthStep(st, u, M, x ++ y)
<1>1. Worth(st, M) \in Rat
  BY WorthType
<1>2. Worth(u, M) = Worth(st, M) ++ (x ++ y)
  <2> DEFINE w == Worth(st, M)
  <2>1. Worth(u, M) = (w ++ x) ++ y
    BY DEF WorthStep
  <2> HIDE DEF w
  <2>2. (w ++ x) ++ y = w ++ (x ++ y)
    BY <1>1, AddAssoc DEF w
  <2> QED
    BY <2>1, <2>2 DEF w
<1>3. SlotsKept(st, u, M)
  BY DEF WorthStep, SlotsKept
<1>4. EntriesFrom(st, u, M)
  <2> SUFFICES ASSUME NEW id \in DOMAIN u.pending_borrows,
                      u.pending_borrows[id].consumer # M
               PROVE  /\ id \in DOMAIN st.pending_borrows
                      /\ SameLoan(st.pending_borrows[id], u.pending_borrows[id])
    BY DEF EntriesFrom
  <2>1. /\ id \in DOMAIN s.pending_borrows
        /\ SameLoan(s.pending_borrows[id], u.pending_borrows[id])
    BY DEF WorthStep, EntriesFrom
  <2>2. s.pending_borrows[id].consumer # M
    BY <2>1 DEF SameLoan
  <2>3. /\ id \in DOMAIN st.pending_borrows
        /\ SameLoan(st.pending_borrows[id], s.pending_borrows[id])
    BY <2>1, <2>2 DEF WorthStep, EntriesFrom
  <2> QED
    BY <2>1, <2>3 DEF SameLoan
<1>5. BasisKept(st, u, M)
  BY DEF WorthStep, BasisKept, SlotsKept
<1>6. SalesKept(st, u, M)
  BY DEF WorthStep, SalesKept
<1> QED
  BY <1>2, <1>3, <1>4, <1>5, <1>6 DEF WorthStep

\* Books that are the same are worth the same.
LEMMA WorthSame ==
  ASSUME NEW st \in StateSet, NEW s \in StateSet, NEW M \in Nat, Keyed(st, M),
         s.pending_borrows = st.pending_borrows, s.buy_fx_basis = st.buy_fx_basis,
         \A c \in Currency : Purse(s.currencies[c]) = Purse(st.currencies[c]),
         SalesKept(st, s, M)
  PROVE  WorthStep(st, s, M, Zero)
<1>1. /\ Keyed(s, M)
      /\ \A n : Slot(s, n) = Slot(st, n)
      /\ Ledger(s, M, LoanW) = Ledger(st, M, LoanW)
  BY LedgerSame
<1>2. Worth(s, M) = Worth(st, M) /\ Worth(st, M) \in Rat
  BY <1>1, PursesSame, WorthType DEF Worth
<1>3. Worth(s, M) = Worth(st, M) ++ Zero
  BY <1>2, AddZero
<1>4. EntriesFrom(st, s, M)
  BY DEF EntriesFrom, SameLoan
<1>5. BasisKept(st, s, M)
  BY DEF BasisKept
<1>6. Priced(st) => Priced(s)
  BY DEF Priced, PaidFor
<1> QED
  BY <1>1, <1>3, <1>4, <1>5, <1>6 DEF WorthStep, SlotsKept

\* Identities of what a cover changes.
LEMMA OwedLess ==
  ASSUME NEW b \in Rat, NEW w \in Rat, NEW v \in Rat
  PROVE  /\ (Zero -- ((w ++ v) ++ b)) -- (Zero -- (w ++ b)) = Zero -- v
         /\ (b -- (w ++ v)) -- (b -- w) = Zero -- v
         /\ (b -- (w ++ v)) ++ (Zero -- (b -- w)) = Zero -- v
<1>1. PICK d \in Pos, i \in Int, j \in Int, k \in Int :
        b = Reduced(i, d) /\ w = Reduced(j, d) /\ v = Reduced(k, d)
  BY Common3
<1>2. Zero = Reduced(0, d)
  BY ZeroRatio
<1>3. /\ j + k \in Int /\ j + i \in Int /\ (j + k) + i \in Int /\ i - (j + k) \in Int
      /\ i - j \in Int /\ 0 - ((j + k) + i) \in Int /\ 0 - (j + i) \in Int
      /\ 0 - (i - j) \in Int /\ 0 - k \in Int
  OBVIOUS
<1>4. /\ w ++ v = Reduced(j + k, d) /\ w ++ b = Reduced(j + i, d)
      /\ b -- w = Reduced(i - j, d) /\ Zero -- v = Reduced(0 - k, d)
  BY <1>1, <1>2, RatioAdd
<1>5. /\ (w ++ v) ++ b = Reduced((j + k) + i, d)
      /\ b -- (w ++ v) = Reduced(i - (j + k), d)
      /\ Zero -- (w ++ b) = Reduced(0 - (j + i), d)
      /\ Zero -- (b -- w) = Reduced(0 - (i - j), d)
  BY <1>1, <1>2, <1>3, <1>4, RatioAdd
<1>6. Zero -- ((w ++ v) ++ b) = Reduced(0 - ((j + k) + i), d)
  BY <1>2, <1>3, <1>5, RatioAdd
<1>7. (Zero -- ((w ++ v) ++ b)) -- (Zero -- (w ++ b)) = Zero -- v
  <2>1. (0 - ((j + k) + i)) - (0 - (j + i)) = 0 - k
    OBVIOUS
  <2> QED
    BY <1>3, <1>4, <1>5, <1>6, <2>1, RatioAdd
<1>8. (b -- (w ++ v)) -- (b -- w) = Zero -- v
  <2>1. (i - (j + k)) - (i - j) = 0 - k
    OBVIOUS
  <2> QED
    BY <1>3, <1>4, <1>5, <2>1, RatioAdd
<1>9. (b -- (w ++ v)) ++ (Zero -- (b -- w)) = Zero -- v
  <2>1. (i - (j + k)) + (0 - (i - j)) = 0 - k
    OBVIOUS
  <2> QED
    BY <1>3, <1>4, <1>5, <2>1, RatioAdd
<1> QED
  BY <1>7, <1>8, <1>9

\* What is gained and what the entry loses are what the cover cost.
LEMMA EntryCosts ==
  ASSUME NEW pb \in PendingSet, ~pb.finalized, NEW new, NEW qty \in Rat, NEW fx \in Rat,
         EntryStep(pb, new, qty, fx)
  PROVE  /\ GainOf(new) ++ (LoanW[new] -- LoanW[pb]) = Zero -- (qty ** fx)
         /\ GainOf(new) \in Rat /\ LoanW[new] -- LoanW[pb] \in Rat
<1> DEFINE b == pb.borrowed_qty ** pb.from_broker_fx
           k == Backed(pb)
           w == pb.weighted
           v == qty ** fx
           buy == pb.consumer_kind = "buy"
<1>1. /\ w \in Rat /\ v \in Rat /\ b \in Rat /\ k \in Rat
  BY PendingFields, BackedType, MulType
<1>2. /\ new \in PendingSet /\ new.weighted = w ++ v
      /\ new.consumer_kind = pb.consumer_kind /\ Backed(new) = k
      /\ new.borrowed_qty ** new.from_broker_fx = b
  BY DEF EntryStep, SameLoan, Backed
<1>3. LoanW[pb] = IF buy THEN Zero -- (w ++ k) ELSE b -- w
  BY LoanWeight
<1>4. LoanW[new] = IF buy THEN Zero -- ((w ++ v) ++ k)
                   ELSE IF new.finalized THEN Zero ELSE b -- (w ++ v)
  BY <1>2, LoanWeight
<1>5. GainOf(new) = IF ~buy /\ new.finalized THEN b -- (w ++ v) ELSE Zero
  BY <1>2 DEF GainOf
<1>6. LoanW[new] \in Rat /\ LoanW[pb] \in Rat
  BY <1>2, LoanWeight DEF Weights
<1> HIDE DEF b, k, w, v
<1>7. GainOf(new) \in Rat
  BY <1>1, <1>5, ZeroType, AddType
<1>8. LoanW[new] -- LoanW[pb] \in Rat
  BY <1>6, AddType
<1>9. Zero -- v \in Rat /\ Zero ++ (Zero -- v) = Zero -- v
  BY <1>1, ZeroType, AddType, AddZero
<1>10. CASE buy
  <2>1. (Zero -- ((w ++ v) ++ k)) -- (Zero -- (w ++ k)) = Zero -- v
    BY <1>1, OwedLess
  <2> QED
    BY <1>3, <1>4, <1>5, <1>7, <1>8, <1>9, <1>10, <2>1 DEF v
<1>11. CASE ~buy /\ ~new.finalized
  <2>1. (b -- (w ++ v)) -- (b -- w) = Zero -- v
    BY <1>1, OwedLess
  <2> QED
    BY <1>3, <1>4, <1>5, <1>7, <1>8, <1>9, <1>11, <2>1 DEF v
<1>12. CASE ~buy /\ new.finalized
  <2>1. (b -- (w ++ v)) ++ (Zero -- (b -- w)) = Zero -- v
    BY <1>1, OwedLess
  <2> QED
    BY <1>3, <1>4, <1>5, <1>7, <1>8, <1>12, <2>1 DEF v
<1> QED
  BY <1>10, <1>11, <1>12

\* A cover of a loan that is open costs what is paid for it, whether the loan is
\* a purchase's or a conversion's, and whether it settles it or not.
LEMMA CoverWorth ==
  ASSUME NEW st \in StateSet, NEW M \in Nat, Keyed(st, M), NEW id, Open(st, id),
         NEW qty \in Rat, NEW fx \in Rat, NEW s, s = on_cover(st, id, qty, fx)
  PROVE  WorthStep(st, s, M, Zero -- (qty ** fx))
<1> DEFINE pb == st.pending_borrows[id]
           new == s.pending_borrows[id]
           ccy == new.from_ccy
<1>1. /\ id \in DOMAIN st.pending_borrows /\ EntryStep(pb, new, qty, fx)
      /\ BooksStep(st, s, new) /\ OthersKept(st, s, id)
  BY OnCoverStep
<1>2. CoverKeeps(st, s) /\ s \in StateSet
  <2>1. CoverKeeps(st, s)
    BY OnCoverKeeps
  <2> QED
    BY <2>1 DEF CoverKeeps
<1>3. pb \in PendingSet /\ ~pb.finalized
  BY <1>1, StateFields, PartialType DEF Open
<1>4. new \in PendingSet /\ SameLoan(pb, new) /\ new.consumer = pb.consumer /\ ccy \in Currency
  <2>1. new \in PendingSet /\ SameLoan(pb, new)
    BY <1>1 DEF EntryStep
  <2> QED
    BY <2>1, PendingFields DEF SameLoan
<1>5. /\ Keyed(s, M)
      /\ SumOf(Ledger(s, M, LoanW)) = SumOf(Ledger(st, M, LoanW)) ++ (LoanW[new] -- LoanW[pb])
  BY <1>1, <1>2, <1>4, LoanWeight, LedgerStep
<1>6. /\ \A c \in Currency : c # ccy => s.currencies[c] = st.currencies[c]
      /\ s.currencies[ccy].gain_fifo = st.currencies[ccy].gain_fifo ++ GainOf(new)
      /\ s.currencies[ccy].fifo_lots = st.currencies[ccy].fifo_lots
  BY <1>1, <1>2, <1>4 DEF BooksStep, CoverKeeps, SameCash
<1>7. /\ GainOf(new) ++ (LoanW[new] -- LoanW[pb]) = Zero -- (qty ** fx)
      /\ GainOf(new) \in Rat /\ LoanW[new] -- LoanW[pb] \in Rat
  <2> HIDE DEF pb, new
  <2> QED
    BY <1>1, <1>3, EntryCosts
<1>8. Purses(s) = Purses(st) ++ GainOf(new)
  <2> DEFINE a == st.currencies[ccy].gain_fifo
             v == Value(st.currencies[ccy].fifo_lots)
             g == GainOf(new)
  <2>1. a \in Rat /\ v \in Rat
    BY <1>4, PurseType
  <2>2. (a ++ g) -- v = (a -- v) ++ g
    <3> HIDE DEF a, v, g
    <3>1. g \in Rat
      BY <1>7 DEF g
    <3> QED
      BY <2>1, <3>1, SubSub
  <2>3. Purse(s.currencies[ccy]) = Purse(st.currencies[ccy]) ++ g
    BY <1>6, <2>2 DEF Purse
  <2>4. \A c \in Currency : c # ccy => Purse(s.currencies[c]) = Purse(st.currencies[c])
    BY <1>6
  <2> HIDE DEF ccy, g
  <2> QED
    BY <1>2, <1>4, <1>7, <2>3, <2>4, PursesChanged DEF g
<1>9. Worth(s, M) = Worth(st, M) ++ (Zero -- (qty ** fx))
  <2> DEFINE p == Purses(st)
             l == SumOf(Ledger(st, M, LoanW))
             g == GainOf(new)
             e == LoanW[new] -- LoanW[pb]
  <2>1. p \in Rat /\ l \in Rat
    BY WorthType
  <2>2. Worth(s, M) = (p ++ g) ++ (l ++ e) /\ Worth(st, M) = p ++ l
    BY <1>5, <1>8 DEF Worth
  <2>3. g \in Rat /\ e \in Rat /\ g ++ e = Zero -- (qty ** fx)
    BY <1>7
  <2> HIDE DEF p, l, g, e
  <2>4. (p ++ g) ++ (l ++ e) = (p ++ l) ++ (g ++ e)
    BY <2>1, <2>3, AddSwapped
  <2> QED
    BY <2>2, <2>3, <2>4
<1>10. SlotsKept(st, s, M) /\ EntriesFrom(st, s, M) /\ SalesKept(st, s, M)
  <2>1. \A n : Slot(s, n) = Slot(st, n)
    BY <1>2, CoverSlots
  <2>2. s.foreign_sell_fx_basis = st.foreign_sell_fx_basis
    BY <1>2 DEF CoverKeeps, SameEquity
  <2>3. EntriesFrom(st, s, M)
    BY <1>2 DEF CoverKeeps, EntriesFrom
  <2> QED
    BY <2>1, <2>2, <2>3 DEF SlotsKept, SalesKept, SaleBasis
<1>11. /\ DOMAIN st.buy_fx_basis \subseteq DOMAIN s.buy_fx_basis
       /\ \A n \in DOMAIN st.buy_fx_basis :
            n # new.consumer => s.buy_fx_basis[n] = st.buy_fx_basis[n]
       /\ new.finalized /\ new.consumer_kind = "buy" =>
            /\ new.consumer \in DOMAIN s.buy_fx_basis
            /\ s.buy_fx_basis[new.consumer] = margin_basis(new)
  <2>1. s.buy_fx_basis = IF new.finalized /\ new.consumer_kind = "buy"
                         THEN Put(st.buy_fx_basis, new.consumer, margin_basis(new))
                         ELSE st.buy_fx_basis
    BY <1>1 DEF BooksStep
  <2> HIDE DEF new
  <2> QED
    BY <2>1 DEF Put
<1>12. BasisKept(st, s, M)
  <2>1. Slot(st, new.consumer) # {}
    BY <1>1, <1>4 DEF Slot
  <2> QED
    BY <1>11, <2>1 DEF BasisKept
<1>13. ASSUME Priced(st) PROVE Priced(s)
  <2> SUFFICES ASSUME NEW j \in DOMAIN s.pending_borrows,
                      s.pending_borrows[j].consumer_kind = "buy",
                      s.pending_borrows[j].finalized
               PROVE  PaidFor(s, s.pending_borrows[j])
    BY DEF Priced
  <2>1. j \in DOMAIN st.pending_borrows
    BY <1>1 DEF OthersKept
  <2>2. CASE j = id
    <3>1. new.finalized /\ new.consumer_kind = "buy" /\ fully_covered(new)
      BY <1>1, <2>2 DEF EntryStep
    <3>2. margin_basis(new) ** (new.lot_backed_qty ++ new.covered_qty)
            = Backed(new) ++ new.weighted
      <4> HIDE DEF new
      <4> QED
        BY <1>4, <3>1, MarginBasis
    <3> QED
      BY <1>11, <2>2, <3>1, <3>2 DEF PaidFor
  <2>3. CASE j # id
    <3> DEFINE e == st.pending_borrows[j]
    <3>1. s.pending_borrows[j] = e
      BY <1>1, <2>1, <2>3 DEF OthersKept
    <3>2. PaidFor(st, e)
      BY <1>13, <2>1, <3>1 DEF Priced
    <3>3. e.consumer # new.consumer
      BY <1>1, <1>4, <2>1, <2>3 DEF Keyed
    <3> QED
      BY <1>11, <3>1, <3>2, <3>3 DEF PaidFor
  <2> QED
    BY <2>2, <2>3
<1> QED
  BY <1>2, <1>5, <1>9, <1>10, <1>12, <1>13 DEF WorthStep

\* Every debt in the currency c is entered in the registry, and what the
\* registry says of its loans is true.
Entered(st, c) ==
  \A id \in BorrowId : id \notin DOMAIN st.pending_borrows => Debt(st, c, id) = Zero
Lent(st) == \A id \in DOMAIN st.pending_borrows : LoanOK(st, id)

\* After i turns of the loop the entries have what was taken for them, and the
\* worth has fallen by what that cost.
CoverTurn(st, s, M, borrows, t, i, fx) ==
  /\ DOMAIN s.pending_borrows = DOMAIN st.pending_borrows
  /\ \A id \in DOMAIN st.pending_borrows :
       EntryStep(st.pending_borrows[id], s.pending_borrows[id],
                 Sums(DebtTaken(borrows, t, id))[i], fx)
  /\ WorthStep(st, s, M, Zero -- (Sums(t)[i] ** fx))

\* What the loop needs to know of the loan id.
TurnFacts(borrows, t, id, pb) ==
  \A i \in 1..Len(borrows) :
    LET d == DebtTaken(borrows, t, id)
    IN  /\ Sums(d)[i - 1] \in Rat /\ d[i] \in Rat
        /\ Sums(d)[i] = Sums(d)[i - 1] ++ d[i]
        /\ d[i] = IF borrows[i].borrow_id = id THEN t[i] ELSE Zero
        /\ (Sums(d)[i - 1] ++ d[i]) \preceq (pb.borrowed_qty -- pb.covered_qty)

LEMMA TurnsOf ==
  ASSUME NEW st, CashSound(st), NEW ccy \in Currency, NEW borrows,
         borrows = st.currencies[ccy].borrow_lots, NEW qty \in Rat, Zero \preceq qty,
         NEW t, t = Taken(borrows, qty), NEW id \in DOMAIN st.pending_borrows, LoanOK(st, id)
  PROVE  /\ TurnFacts(borrows, t, id, st.pending_borrows[id])
         /\ Sums(DebtTaken(borrows, t, id))[0] = Zero
<1> DEFINE pb == st.pending_borrows[id]
           left == pb.borrowed_qty -- pb.covered_qty
           d == DebtTaken(borrows, t, id)
<1>1. borrows \in Seq(BorrowLot) /\ AllPositive(borrows) /\ st \in StateSet
  BY BucketFields DEF CashSound, BucketOK
<1>2. pb \in PendingSet
  BY <1>1, StateFields, PartialType
<1>3. DebtOf(borrows, id) \preceq left
  BY DebtWithin
<1>4. left \in Rat
  <2> HIDE DEF pb
  <2> QED
    BY <1>2, PendingFields, AddType
<1> HIDE DEF left, pb
<1>5. /\ Sums(d)[0] = Zero
      /\ \A i \in 0..Len(borrows) : Sums(d)[i] \in Rat /\ Sums(d)[i] \preceq left
      /\ \A i \in 1..Len(borrows) :
           /\ d[i] = IF borrows[i].borrow_id = id THEN t[i] ELSE Zero
           /\ d[i] \in Rat /\ Sums(d)[i] = Sums(d)[i - 1] ++ d[i]
  <2> HIDE DEF d
  <2>1. d = DebtTaken(borrows, t, id)
    BY DEF d
  <2> QED
    BY <1>1, <1>3, <1>4, <2>1, DebtSums
<1> HIDE DEF d
<1>6. ASSUME NEW i \in 1..Len(borrows)
      PROVE  /\ Sums(d)[i - 1] \in Rat /\ d[i] \in Rat
             /\ Sums(d)[i] = Sums(d)[i - 1] ++ d[i]
             /\ d[i] = IF borrows[i].borrow_id = id THEN t[i] ELSE Zero
             /\ (Sums(d)[i - 1] ++ d[i]) \preceq left
  <2>1. i - 1 \in 0..Len(borrows) /\ i \in 0..Len(borrows)
    BY <1>1
  <2> QED
    BY <1>5, <2>1
<1> QED
  BY <1>5, <1>6 DEF TurnFacts, d, left, pb

\* One turn of the loop: what it takes, it takes of a loan that is open.
LEMMA TurnNext ==
  ASSUME NEW st \in StateSet, NEW borrows \in Seq(BorrowLot), AllPositive(borrows),
         NEW t \in Seq(Rat), Len(t) = Len(borrows),
         NEW i \in 1..Len(borrows), Zero \preceq t[i], NEW fx \in Rat, NEW M \in Nat,
         borrows[i].borrow_id \in DOMAIN st.pending_borrows,
         \A id \in DOMAIN st.pending_borrows :
           TurnFacts(borrows, t, id, st.pending_borrows[id]),
         NEW s \in StateSet, CoverTurn(st, s, M, borrows, t, i - 1, fx),
         NEW u, u = (IF t[i] = Zero THEN s ELSE on_cover(s, borrows[i].borrow_id, t[i], fx))
  PROVE  CoverTurn(st, u, M, borrows, t, i, fx)
<1> DEFINE q == t[i]
           lot == borrows[i]
           k == lot.borrow_id
<1>1. /\ q \in Rat /\ Zero \preceq q /\ lot \in BorrowLot /\ k \in DOMAIN st.pending_borrows
      /\ u = IF q = Zero THEN s ELSE on_cover(s, k, q, fx)
  OBVIOUS
<1>2. DOMAIN s.pending_borrows = DOMAIN st.pending_borrows /\ Keyed(s, M)
  BY DEF CoverTurn, WorthStep
<1>3. Sums(t)[i] = Sums(t)[i - 1] ++ q /\ Sums(t)[i - 1] \in Rat
  <2>1. i - 1 \in 0..Len(t) /\ i \in 1..Len(t)
    OBVIOUS
  <2> QED
    BY <2>1, SumsProp
<1>4. ASSUME NEW id \in DOMAIN st.pending_borrows
      PROVE  EntryStep(st.pending_borrows[id], u.pending_borrows[id],
                       Sums(DebtTaken(borrows, t, id))[i], fx)
  <2> DEFINE pb == st.pending_borrows[id]
             d == DebtTaken(borrows, t, id)
             a == Sums(d)[i - 1]
             v == d[i]
  <2>1. pb \in PendingSet
    BY StateFields, PartialType
  <2>2. /\ a \in Rat /\ v \in Rat /\ Sums(d)[i] = a ++ v
        /\ v = IF lot.borrow_id = id THEN q ELSE Zero
        /\ (a ++ v) \preceq (pb.borrowed_qty -- pb.covered_qty)
    BY DEF TurnFacts
  <2>3. EntryStep(pb, s.pending_borrows[id], a, fx) /\ id \in DOMAIN s.pending_borrows
    BY <1>2 DEF CoverTurn
  <2> HIDE DEF pb, a, v, q, lot
  <2>4. EntryStep(pb, u.pending_borrows[id], a ++ v, fx)
    BY <1>1, <2>1, <2>2, <2>3, EntryTurn
  <2> QED
    BY <2>2, <2>4 DEF pb
<1>5. WorthStep(st, u, M, Zero -- (Sums(t)[i] ** fx)) /\ DOMAIN u.pending_borrows = DOMAIN st.pending_borrows
  <2> DEFINE w == Sums(t)[i - 1]
  <2>1. WorthStep(st, s, M, Zero -- (w ** fx))
    BY DEF CoverTurn
  <2>2. w \in Rat /\ Sums(t)[i] = w ++ q
    BY <1>3
  <2>3. CASE q = Zero
    <3>1. Sums(t)[i] = w
      BY <2>2, <2>3, AddZero
    <3> QED
      BY <1>1, <1>2, <2>1, <2>3, <3>1
  <2>4. CASE q # Zero
    <3> DEFINE pb == st.pending_borrows[k]
               d == DebtTaken(borrows, t, k)
               a == Sums(d)[i - 1]
               e == s.pending_borrows[k]
    <3>1. /\ a \in Rat /\ d[i] = q
          /\ (a ++ q) \preceq (pb.borrowed_qty -- pb.covered_qty)
      BY DEF TurnFacts
    <3>2. pb \in PendingSet /\ EntryStep(pb, e, a, fx)
      BY StateFields, PartialType DEF CoverTurn
    <3>3. Positive(q)
      BY <1>1, <2>4, NotNegative
    <3>4. ~e.finalized
      <4> HIDE DEF pb, a, e, q
      <4> QED
        BY <1>1, <3>1, <3>2, <3>3, StillOpen
    <3>5. Open(s, k)
      BY <1>1, <1>2, <3>4 DEF Open
    <3>6. u = on_cover(s, k, q, fx)
      BY <1>1, <2>4
    <3> HIDE DEF k, q, w
    <3>7. WorthStep(s, u, M, Zero -- (q ** fx))
      BY <1>1, <1>2, <3>5, <3>6, CoverWorth
    <3>8. /\ Zero -- (w ** fx) \in Rat /\ Zero -- (q ** fx) \in Rat
          /\ w ** fx \in Rat /\ q ** fx \in Rat
      BY <1>1, <2>2, MulType, AddType, ZeroType
    <3>9. WorthStep(st, u, M, (Zero -- (w ** fx)) ++ (Zero -- (q ** fx)))
      BY <2>1, <3>7, <3>8, WorthTrans
    <3>10. (Zero -- (w ** fx)) ++ (Zero -- (q ** fx)) = Zero -- ((w ++ q) ** fx)
      <4>1. (w ++ q) ** fx = (w ** fx) ++ (q ** fx)
        BY <1>1, <2>2, MulDist
      <4>2. (Zero -- (w ** fx)) ++ (Zero -- (q ** fx)) = (Zero ++ Zero) -- ((w ** fx) ++ (q ** fx))
        BY <3>8, ZeroType, SubSwapped
      <4>3. Zero ++ Zero = Zero
        BY ZeroType, AddZero
      <4> QED
        BY <4>1, <4>2, <4>3
    <3>11. DOMAIN u.pending_borrows = DOMAIN s.pending_borrows
      <4>1. CoverKeeps(s, u)
        BY <1>1, <3>6, OnCoverKeeps
      <4> QED
        BY <4>1 DEF CoverKeeps
    <3> QED
      BY <1>2, <2>2, <3>9, <3>10, <3>11
  <2> QED
    BY <2>3, <2>4
<1> QED
  BY <1>4, <1>5 DEF CoverTurn

\* All the turns.
LEMMA CoversWorth ==
  ASSUME NEW st, CashSound(st), Lent(st), NEW ccy \in Currency, Entered(st, ccy),
         NEW qty \in Rat, Positive(qty), NEW fx \in Rat, NEW M \in Nat, Keyed(st, M),
         NEW t, t = Taken(st.currencies[ccy].borrow_lots, qty)
  PROVE  /\ WorthStep(st, CoversOf(st, ccy, qty, fx), M, Zero -- (SumOf(t) ** fx))
         /\ SumOf(t) \in Rat
<1> DEFINE borrows == st.currencies[ccy].borrow_lots
           N == Len(borrows)
           cov == CoversOf(st, ccy, qty, fx)
           X == {x \in Nat \X StateSet : CoverTurn(st, x[2], M, borrows, t, x[1], fx)}
<1>1. /\ st \in StateSet /\ borrows \in Seq(BorrowLot) /\ AllPositive(borrows)
      /\ Zero \preceq qty
  BY BucketFields, NotNegative DEF CashSound, BucketOK
<1>2. t \in Seq(Rat) /\ Len(t) = N /\ N \in Nat /\ \A i \in 1..N : Zero \preceq t[i]
  <2>1. TakenWell(borrows, t, qty)
    BY <1>1, LotSets, TakenFacts
  <2> QED
    BY <2>1 DEF TakenWell
<1>3. \A i \in 1..N : borrows[i].borrow_id \in DOMAIN st.pending_borrows
  <2> TAKE i \in 1..N
  <2> DEFINE id == borrows[i].borrow_id
  <2>1. i \in DOMAIN borrows /\ id \in BorrowId
    <3>1. i \in DOMAIN borrows /\ borrows[i] \in BorrowLot
      BY <1>1
    <3> QED
      BY <3>1 DEF BorrowLot
  <2>2. Positive(DebtOf(borrows, id))
    BY <1>1, <2>1, DebtSign
  <2>3. Debt(st, ccy, id) # Zero
    BY <2>2, NotNegative, ZeroType DEF Debt
  <2> QED
    BY <2>1, <2>3 DEF Entered
<1>4. \A id \in DOMAIN st.pending_borrows :
        /\ TurnFacts(borrows, t, id, st.pending_borrows[id])
        /\ Sums(DebtTaken(borrows, t, id))[0] = Zero
  <2> TAKE id \in DOMAIN st.pending_borrows
  <2> HIDE DEF borrows
  <2>1. borrows = st.currencies[ccy].borrow_lots /\ LoanOK(st, id)
    BY DEF borrows, Lent
  <2>2. t = Taken(borrows, qty)
    BY <2>1
  <2> QED
    BY <1>1, <2>1, <2>2, TurnsOf
<1>5. <<0, st>> \in X
  <2>1. ASSUME NEW id \in DOMAIN st.pending_borrows
        PROVE  EntryStep(st.pending_borrows[id], st.pending_borrows[id],
                         Sums(DebtTaken(borrows, t, id))[0], fx)
    <3> DEFINE pb == st.pending_borrows[id]
    <3>1. pb \in PendingSet /\ (pb.finalized <=> fully_covered(pb))
      BY <1>1, StateFields, PartialType DEF Lent, LoanOK
    <3> HIDE DEF pb
    <3>2. EntryStep(pb, pb, Zero, fx)
      BY <3>1, EntrySame
    <3> QED
      BY <1>4, <3>2 DEF pb
  <2>2. WorthStep(st, st, M, Zero)
    <3>1. SalesKept(st, st, M)
      BY DEF SalesKept
    <3> QED
      BY <1>1, <3>1, WorthSame
  <2>3. Sums(t)[0] = Zero
    BY <1>2, SumsProp
  <2>4. Zero -- (Zero ** fx) = Zero
    BY MulUnit, AddZero, ZeroType
  <2>5. CoverTurn(st, st, M, borrows, t, 0, fx)
    BY <2>1, <2>2, <2>3, <2>4 DEF CoverTurn
  <2> QED
    BY <1>1, <2>5
<1>6. ASSUME NEW i \in 1..N, NEW s \in StateSet, <<i - 1, s>> \in X
      PROVE  <<i, IF t[i] = Zero THEN s
                  ELSE on_cover(s, borrows[i].borrow_id, t[i], fx)>> \in X
  <2> DEFINE u == IF t[i] = Zero THEN s ELSE on_cover(s, borrows[i].borrow_id, t[i], fx)
  <2>1. CoverTurn(st, s, M, borrows, t, i - 1, fx)
    BY <1>6
  <2>2. Zero \preceq t[i] /\ borrows[i].borrow_id \in DOMAIN st.pending_borrows
    BY <1>2, <1>3
  <2>3. \A id \in DOMAIN st.pending_borrows :
          TurnFacts(borrows, t, id, st.pending_borrows[id])
    BY <1>4
  <2> HIDE DEF borrows, u, X
  <2>4. u = IF t[i] = Zero THEN s ELSE on_cover(s, borrows[i].borrow_id, t[i], fx)
    BY DEF u
  <2>5. CoverTurn(st, u, M, borrows, t, i, fx)
    BY <1>1, <1>2, <2>1, <2>2, <2>3, <2>4, TurnNext
  <2>6. u \in StateSet /\ i \in Nat
    BY <2>5 DEF CoverTurn, WorthStep
  <2> QED
    BY <2>5, <2>6 DEF X, u
<1> HIDE DEF X
<1>7. cov = covered(st, borrows, t, fx)
  BY DEF CoversOf
<1> HIDE DEF borrows, cov, N
<1>8. <<Len(borrows), cov>> \in X
  <2>1. Len(t) = Len(borrows) /\ t \in Seq(Rat)
    BY <1>2 DEF N
  <2>2. \A i \in 1..Len(borrows) : \A s \in StateSet :
          <<i - 1, s>> \in X =>
            <<i, IF t[i] = Zero THEN s
                 ELSE on_cover(s, borrows[i].borrow_id, t[i], fx)>> \in X
    BY <1>6 DEF N
  <2> QED
    BY <1>1, <1>5, <1>7, <2>1, <2>2, CoveredAll
<1>9. WorthStep(st, cov, M, Zero -- (Sums(t)[N] ** fx))
  BY <1>8 DEF X, CoverTurn, N
<1>10. SumOf(t) = Sums(t)[N] /\ SumOf(t) \in Rat
  BY <1>2, SumType DEF SumOf
<1> QED
  BY <1>9, <1>10 DEF cov

\* A deposit, whatever it covers, costs what it is worth.
LEMMA DepositWorth ==
  ASSUME NEW st, CashSound(st), Lent(st), NEW ccy \in Currency, Entered(st, ccy),
         NEW qty \in Rat, NEW fx \in Rat, NEW M \in Nat, Keyed(st, M),
         NEW d, d = bucket_deposit(st, ccy, qty, fx)
  PROVE  WorthStep(st, d, M, Zero -- (Moved(qty) ** fx))
<1>1. st \in StateSet
  BY DEF CashSound
<1>2. CASE ~Positive(qty)
  <2>1. d = st
    BY <1>2 DEF bucket_deposit
  <2>2. Moved(qty) = Zero
    BY <1>2 DEF Moved, Greater, Positive
  <2>3. Zero -- (Zero ** fx) = Zero
    BY MulUnit, AddZero, ZeroType
  <2>4. WorthStep(st, st, M, Zero)
    <3>1. SalesKept(st, st, M)
      BY DEF SalesKept
    <3> QED
      BY <1>1, <3>1, WorthSame
  <2> QED
    BY <2>1, <2>2, <2>3, <2>4
<1>3. CASE Positive(qty)
  <2> DEFINE borrows == st.currencies[ccy].borrow_lots
             t == Taken(borrows, qty)
             cov == CoversOf(st, ccy, qty, fx)
             u == uncovered(borrows, qty)
             y == Zero -- (SumOf(t) ** fx)
             z == Zero -- (u ** fx)
  <2>1. borrows \in Seq(BorrowLot) /\ AllPositive(borrows) /\ Zero \preceq qty
    BY BucketFields, NotNegative, <1>3 DEF CashSound, BucketOK
  <2>2. WorthStep(st, cov, M, y) /\ SumOf(t) \in Rat
    <3> HIDE DEF t
    <3>1. t = Taken(st.currencies[ccy].borrow_lots, qty)
      BY DEF t
    <3> QED
      BY <1>3, <3>1, CoversWorth
  <2>3. u \in Rat /\ SumOf(t) = qty -- u
    <3>1. u \in Rat /\ qty -- u = Lesser(qty, TotalQty(borrows))
      BY <1>3, <2>1, UncoveredIs
    <3>2. SumOf(t) = Lesser(qty, TotalQty(borrows))
      BY <2>1, LotSets, TakenFacts DEF TakenWell
    <3> QED
      BY <3>1, <3>2
  <2>4. CoverKeeps(st, cov) /\ DepositIs(st, d, cov, ccy, qty, fx)
    BY <1>3, DepositFacts
  <2>5. d \in StateSet /\ SameEquity(st, d)
    BY Deposited DEF CashKeeps, CashSound
  <2> HIDE DEF cov, t, u
  <2>6. cov \in StateSet /\ Keyed(cov, M)
    BY <2>2 DEF WorthStep
  <2>7. /\ d.pending_borrows = cov.pending_borrows /\ d.buy_fx_basis = cov.buy_fx_basis
        /\ d.foreign_sell_fx_basis = cov.foreign_sell_fx_basis
    <3>1. d.pending_borrows = cov.pending_borrows /\ d.buy_fx_basis = cov.buy_fx_basis
      BY <2>4 DEF DepositIs
    <3>2. d.foreign_sell_fx_basis = cov.foreign_sell_fx_basis
      BY <2>4, <2>5 DEF CoverKeeps, SameEquity
    <3> QED
      BY <3>1, <3>2
  <2>8. z \in Rat /\ y \in Rat /\ u ** fx \in Rat /\ SumOf(t) ** fx \in Rat
    BY <2>2, <2>3, MulType, AddType, ZeroType
  <2>9. Purses(d) = Purses(cov) ++ z
    <3> DEFINE a == cov.currencies[ccy].gain_fifo
               v == Value(cov.currencies[ccy].fifo_lots)
               k == u ** fx
    <3>1. a \in Rat /\ v \in Rat /\ k \in Rat
      BY <2>6, <2>8, PurseType
    <3>2. cov.currencies[ccy].fifo_lots = st.currencies[ccy].fifo_lots
      BY <2>4 DEF CoverKeeps, SameCash
    <3>3. d.currencies[ccy].gain_fifo = a /\ Value(d.currencies[ccy].fifo_lots) = v ++ k
      BY <2>4, <3>2 DEF DepositIs, u
    <3>4. a -- (v ++ k) = (a -- v) ++ (Zero -- k)
      <4> HIDE DEF a, v, k
      <4>1. (a -- v) ++ (Zero -- k) = (a ++ Zero) -- (v ++ k)
        BY <3>1, ZeroType, SubSwapped
      <4> QED
        BY <3>1, <4>1, AddZero
    <3>5. Purse(d.currencies[ccy]) = Purse(cov.currencies[ccy]) ++ z
      BY <3>3, <3>4 DEF Purse
    <3>6. \A c \in Currency : c # ccy => Purse(d.currencies[c]) = Purse(cov.currencies[c])
      BY <2>4 DEF DepositIs
    <3> HIDE DEF z
    <3> QED
      BY <2>5, <2>6, <2>8, <3>5, <3>6, PursesChanged
  <2>10. Worth(d, M) = Worth(cov, M) ++ z
    <3> DEFINE p == Purses(cov)
               l == SumOf(Ledger(cov, M, LoanW))
    <3>1. p \in Rat /\ l \in Rat
      BY <2>6, WorthType
    <3>2. Ledger(d, M, LoanW) = Ledger(cov, M, LoanW)
      BY <2>7, LedgerSame
    <3>3. Worth(d, M) = (p ++ z) ++ l /\ Worth(cov, M) = p ++ l
      BY <2>9, <3>2 DEF Worth
    <3> HIDE DEF p, l, z
    <3>4. (p ++ z) ++ (l ++ Zero) = (p ++ l) ++ (z ++ Zero)
      BY <2>8, <3>1, ZeroType, AddSwapped
    <3>5. l ++ Zero = l /\ z ++ Zero = z
      BY <2>8, <3>1, AddZero
    <3> QED
      BY <3>3, <3>4, <3>5
  <2>11. WorthStep(cov, d, M, z)
    <3>1. /\ Keyed(d, M)
          /\ \A n : Slot(d, n) = Slot(cov, n)
      BY <2>6, <2>7, LedgerSame
    <3>2. EntriesFrom(cov, d, M)
      BY <2>7 DEF EntriesFrom, SameLoan
    <3>3. BasisKept(cov, d, M) /\ SalesKept(cov, d, M)
      BY <2>7 DEF BasisKept, SalesKept, SaleBasis
    <3>4. Priced(cov) => Priced(d)
      BY <2>7 DEF Priced, PaidFor
    <3> HIDE DEF z
    <3> QED
      BY <2>5, <2>10, <3>1, <3>2, <3>3, <3>4 DEF WorthStep, SlotsKept
  <2>12. WorthStep(st, d, M, y ++ z)
    <3> HIDE DEF y, z
    <3> QED
      BY <1>1, <2>2, <2>8, <2>11, WorthTrans
  <2>13. y ++ z = Zero -- (qty ** fx)
    <3> DEFINE a == SumOf(t) ** fx
               k == u ** fx
    <3>1. a \in Rat /\ k \in Rat
      BY <2>8
    <3>2. SumOf(t) ++ u = qty
      BY <2>3, AddSub
    <3>3. a ++ k = qty ** fx
      BY <2>2, <2>3, <3>2, MulDist
    <3>4. (Zero -- a) ++ (Zero -- k) = (Zero ++ Zero) -- (a ++ k)
      <4> HIDE DEF a, k
      <4> QED
        BY <3>1, ZeroType, SubSwapped
    <3>5. Zero ++ Zero = Zero
      BY ZeroType, AddZero
    <3> QED
      BY <3>3, <3>4, <3>5
  <2>14. Moved(qty) = qty
    BY <1>3 DEF Moved, Greater, Positive
  <2> QED
    BY <2>12, <2>13, <2>14
<1> QED
  BY <1>2, <1>3
=============================================================================
