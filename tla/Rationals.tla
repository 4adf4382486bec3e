-------------------------------- MODULE Rationals ------------------------------
(***************************************************************************)
(* Exact rationals, for the Decimal and float arithmetic of calculations/, *)
(* and the one rounding it ends in (_rounded of metrics.py, ranking.py,    *)
(* forecasts.py and market.py).                                            *)
(***************************************************************************)
EXTENDS Integers, Sequences, SequencesExt

RECURSIVE Divisor(_, _)
Divisor(m, n) == IF n = 0 THEN m ELSE Divisor(n, m % n)

\* n / d in lowest terms, with a positive denominator.
Rat(n, d) ==
  LET size(x) == IF x < 0 THEN -x ELSE x
      common  == Divisor(size(n), size(d))
  IN  [ok |-> TRUE, n |-> (IF d < 0 THEN -n ELSE n) \div common, d |-> size(d) \div common]
Whole(n)  == Rat(n, 1)

Add(a, b) == LET common == Divisor(a.d, b.d)
             IN  Rat(a.n * (b.d \div common) + b.n * (a.d \div common), a.d * (b.d \div common))
Sub(a, b) == Add(a, [b EXCEPT !.n = -@])
Mul(a, b) == LET x == Rat(a.n, b.d)
                 y == Rat(b.n, a.d)
             IN  Rat(x.n * y.n, x.d * y.d)
Quo(a, b) == Mul(a, Rat(b.d, b.n))

Equals(a, b) == a.n = b.n /\ a.d = b.d
Less(a, b)   == Sub(a, b).n < 0
AtMost(a, b) == ~Less(b, a)

Least(a, b)    == IF Less(b, a) THEN b ELSE a
Greatest(a, b) == IF Less(a, b) THEN b ELSE a
SumOf(s)       == FoldLeft(Add, Whole(0), s)
ProductOf(s)   == FoldLeft(Mul, Whole(1), s)

\* ROUND_HALF_EVEN: the multiple of 1 / scale next to a, scale = 10 ^ precision,
\* and the even one of two that are equally near.
RoundHalfEven(a, scale) ==
  LET floor == (a.n * scale) \div a.d
      rest  == 2 * (a.n * scale - floor * a.d)
  IN  IF rest > a.d \/ (rest = a.d /\ floor % 2 = 1) THEN floor + 1 ELSE floor
================================================================================
