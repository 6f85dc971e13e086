------------------------------ MODULE Rationals ------------------------------
(***************************************************************************)
(* Exact rational numbers, the ideal of the doubles the fold kernel        *)
(* computes with.  The kernel's tolerances (EPS, EPS_LOT) become 0: what   *)
(* it calls "<= EPS" is "not positive" here.                               *)
(***************************************************************************)
EXTENDS Integers, Sequences

\* The least denominator of n / d.
LeastDen(n, d) ==
  CHOOSE q \in 1..d : (n * q) % d = 0 /\ \A r \in 1..q - 1 : (n * r) % d # 0

\* A number is <<numerator, denominator>> in lowest terms.
WithDen(n, d, q) == <<(n * q) \div d, q>>
Reduced(n, d) == WithDen(n, d, LeastDen(n, d))

Rat == {r \in Int \X (Nat \ {0}) : Reduced(r[1], r[2]) = r}

Q(n) == <<n, 1>>
Zero == Q(0)
One  == Q(1)

a ++ b == Reduced(a[1] * b[2] + b[1] * a[2], a[2] * b[2])
a -- b == Reduced(a[1] * b[2] - b[1] * a[2], a[2] * b[2])
a ** b == Reduced(a[1] * b[1], a[2] * b[2])

\* b is positive.
a // b == Reduced(a[1] * b[2], a[2] * b[1])

a \prec b   == a[1] * b[2] < b[1] * a[2]
a \preceq b == a[1] * b[2] <= b[1] * a[2]

Lesser(a, b)  == IF a \prec b THEN a ELSE b
Greater(a, b) == IF a \prec b THEN b ELSE a

Positive(a) == Zero \prec a

\* The sums of the first 0, 1, 2, ... numbers of q, and of all of them.
Sums(q) == LET s[i \in 0..Len(q)] == IF i = 0 THEN Zero ELSE s[i - 1] ++ q[i] IN s
SumOf(q) == Sums(q)[Len(q)]
=============================================================================
