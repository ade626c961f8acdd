----------------------------- MODULE Rationals ------------------------------
(***************************************************************************)
(* Exact fractions <<n, d>> in lowest terms with d > 0, where the code     *)
(* computes with f64.                                                      *)
(***************************************************************************)
EXTENDS Integers, SequencesExt

Magnitude(n) == IF n < 0 THEN -n ELSE n

\* The greatest common divisor of two naturals
gcd[p \in Nat \X Nat] == IF p[2] = 0 THEN p[1] ELSE gcd[<<p[2], p[1] % p[2]>>]

IsRational(x) == x \in Int \X (Nat \ {0}) /\ gcd[<<Magnitude(x[1]), x[2]>>] = 1

\* n / d, for d # 0
Ratio(n, d) ==
    LET g == gcd[<<Magnitude(n), Magnitude(d)>>]
        sign == IF d < 0 THEN -1 ELSE 1
    IN  <<(sign * n) \div g, Magnitude(d) \div g>>

Zero == <<0, 1>>
One == <<1, 1>>

Plus(x, y) ==
    LET g == gcd[<<x[2], y[2]>>]
    IN  Ratio(x[1] * (y[2] \div g) + y[1] * (x[2] \div g), (x[2] \div g) * y[2])
Times(x, y) ==
    LET v == Ratio(x[1], y[2])
        w == Ratio(y[1], x[2])
    IN  <<v[1] * w[1], v[2] * w[2]>>
Minus(x, y) == Plus(x, <<-y[1], y[2]>>)
Over(x, y) == Times(x, Ratio(y[2], y[1]))
AbsOf(x)    == <<Magnitude(x[1]), x[2]>>

Less(x, y) == x[1] * y[2] < y[1] * x[2]
Leq(x, y)  == x[1] * y[2] <= y[1] * x[2]

SumOf(xs) == FoldLeft(Plus, Zero, xs)
MeanOf(xs) == Over(SumOf(xs), <<Len(xs), 1>>)

\* Approx(x) == Approx(y), for the given defaults::accuracy::F64_ABS: their difference, rounded
\* to a multiple of the accuracy, is not above it.
AreClose(x, y, accuracy) == Less(AbsOf(Minus(x, y)), Times(<<3, 2>>, accuracy))
=============================================================================
