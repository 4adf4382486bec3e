------------------------------- MODULE Statistics ------------------------------
(***************************************************************************)
(* market_statistics (calculations/market.py) and calculate_arithmetic     *)
(* (calculations/arithmetic.py).                                           *)
(*                                                                         *)
(* Floats and Decimals are exact rationals, so a variance is zero exactly  *)
(* when all values are equal; of the metrics with a square root in them    *)
(* the square, or the condition under which they are available, is kept.   *)
(***************************************************************************)
EXTENDS Rationals, FiniteSetsExt

Mean(s) == Quo(SumOf(s), Whole(Len(s)))

\* _sample_covariance and _sample_variance
Covariance(x, y) ==
  Quo(SumOf([i \in DOMAIN x |-> Mul(Sub(x[i], Mean(x)), Sub(y[i], Mean(y)))]), Whole(Len(x) - 1))
Variance(x) == Covariance(x, x)

Zero(x)    == x.n = 0
Largest(s)  == FoldLeft(Greatest, s[1], s)
Smallest(s) == FoldLeft(Least, s[1], s)

--------------------------------------------------------------------------------
(* market_statistics: prices of whole units, or returns.                        *)

PricesRefused(prices)   == Len(prices) < 2 \/ \E i \in DOMAIN prices : prices[i] <= 0
ReturnsRefused(returns) == returns = <<>> \/ \E i \in DOMAIN returns : Less(returns[i], Whole(-1))
BenchmarkRefused(returns, benchmark) ==
  \/ \E i \in DOMAIN benchmark : Less(benchmark[i], Whole(-1))
  \/ Len(benchmark) # Len(returns)

ReturnsOf(prices) == [i \in 1..(Len(prices) - 1) |-> Sub(Rat(prices[i + 1], prices[i]), Whole(1))]

Grow(wealth, r) == Mul(wealth, Add(Whole(1), r))

\* _compound_return
CompoundReturn(returns) == Sub(FoldLeft(Grow, Whole(1), returns), Whole(1))

\* _max_drawdown
MaxDrawdown(returns) ==
  LET step(s, r) ==
        LET wealth == Grow(s.wealth, r)
            peak   == Greatest(s.peak, wealth)
        IN  [wealth |-> wealth, peak |-> peak,
             worst  |-> Least(s.worst, IF Zero(peak) THEN Whole(-1) ELSE Sub(Quo(wealth, peak), Whole(1)))]
  IN  FoldLeft(step, [wealth |-> Whole(1), peak |-> Whole(1), worst |-> Whole(0)], returns).worst

\* Which of the metrics with a root have a value.
VolatilityAvailable(returns) == Len(returns) >= 2
SharpeAvailable(returns)     == Len(returns) >= 2 /\ ~Zero(Variance(returns))
SortinoAvailable(returns, riskFree) ==
  LET downside(r) == LET d == Least(Sub(r, riskFree), Whole(0)) IN Mul(d, d)
  IN  ~Zero(Mean([i \in DOMAIN returns |-> downside(returns[i])]))
BenchmarkAvailable(returns, benchmark) == Len(returns) >= 2 /\ ~Zero(Variance(benchmark))
CorrelationAvailable(returns, benchmark) ==
  BenchmarkAvailable(returns, benchmark) /\ ~Zero(Variance(returns))

\* _benchmark_metrics
Beta(returns, benchmark) == Quo(Covariance(returns, benchmark), Variance(benchmark))
Alpha(returns, benchmark, riskFree, perYear) ==
  Mul(Sub(Sub(Mean(returns), riskFree),
          Mul(Beta(returns, benchmark), Sub(Mean(benchmark), riskFree))),
      Whole(perYear))
CorrelationSquared(returns, benchmark) ==
  Quo(Mul(Covariance(returns, benchmark), Covariance(returns, benchmark)),
      Mul(Variance(returns), Variance(benchmark)))

\* The return of the whole is last over first, and the drawdown the worst of all
\* pairs of a price and a later one; Sortino has a value if some return is below
\* the riskless one and Sharpe if two returns differ; what is left of the returns
\* after beta and alpha has no covariance with the benchmark and no mean; no
\* correlation exceeds one.
PricesSound(prices, benchmark, riskFree, perYear) ==
  LET returns  == ReturnsOf(prices)
      residual == [i \in DOMAIN returns |->
                     Sub(Sub(returns[i], riskFree),
                         Mul(Beta(returns, benchmark), Sub(benchmark[i], riskFree)))]
      pairs    == {Sub(Rat(prices[j], prices[i]), Whole(1)) :
                     <<i, j>> \in {p \in (DOMAIN prices) \X (DOMAIN prices) : p[1] <= p[2]}}
      drawdown == MaxDrawdown(returns)
  IN  PricesRefused(prices) \/ BenchmarkRefused(returns, benchmark)
      \/ /\ Equals(CompoundReturn(returns), Sub(Rat(Last(prices), prices[1]), Whole(1)))
         /\ drawdown \in pairs /\ \A p \in pairs : AtMost(drawdown, p)
         /\ SharpeAvailable(returns) <=> \E i, j \in DOMAIN returns : ~Equals(returns[i], returns[j])
         /\ SortinoAvailable(returns, riskFree) <=> \E i \in DOMAIN returns : Less(returns[i], riskFree)
         /\ BenchmarkAvailable(returns, benchmark) =>
              /\ Zero(Covariance(residual, benchmark))
              /\ Equals(Mul(Mean(residual), Whole(perYear)), Alpha(returns, benchmark, riskFree, perYear))
         /\ CorrelationAvailable(returns, benchmark) =>
              AtMost(CorrelationSquared(returns, benchmark), Whole(1))

\* A loss of everything stays one whatever follows it, and no drawdown is deeper.
ReturnsSound(returns) ==
  LET ruined == \E i \in DOMAIN returns : Equals(returns[i], Whole(-1))
  IN  ReturnsRefused(returns)
      \/ /\ ruined <=> Equals(CompoundReturn(returns), Whole(-1))
         /\ ruined <=> Equals(MaxDrawdown(returns), Whole(-1))
         /\ AtMost(MaxDrawdown(returns), Smallest(Append(returns, Whole(0))))

--------------------------------------------------------------------------------
(* calculate_arithmetic: [id, operation, values, weights] or                    *)
(* [id, operation, current, prior], current also numerator and end, prior also  *)
(* denominator and start.                                                       *)

OverValues  == {"sum", "product", "mean", "median", "weighted_average"}
OverPairs   == {"difference", "ratio", "percent_change", "basis_point_change"}

OperationRefused(o) ==
  \/ o.operation \notin OverValues \cup OverPairs
  \/ o.operation \in OverValues /\ o.values = <<>>
  \/ o.operation = "weighted_average" /\
       \/ Len(o.weights) # Len(o.values)
       \/ \E i \in DOMAIN o.weights : o.weights[i] < 0
       \/ \A i \in DOMAIN o.weights : o.weights[i] = 0
  \/ o.operation \in {"ratio", "percent_change"} /\ o.prior = 0

Median(s) ==
  LET sorted == SortSeq(s, LAMBDA a, b : a < b)
      n      == Len(s)
  IN  IF n % 2 = 1 THEN Whole(sorted[(n + 1) \div 2])
      ELSE Rat(sorted[n \div 2] + sorted[n \div 2 + 1], 2)

\* _execute
Execute(o) ==
  LET values  == [i \in DOMAIN o.values |-> Whole(o.values[i])]
      weights == [i \in DOMAIN o.weights |-> Whole(o.weights[i])]
  IN  CASE o.operation = "sum"     -> SumOf(values)
        [] o.operation = "product" -> ProductOf(values)
        [] o.operation = "mean"    -> Mean(values)
        [] o.operation = "median"  -> Median(o.values)
        [] o.operation = "weighted_average" ->
             Quo(SumOf([i \in DOMAIN values |-> Mul(values[i], weights[i])]), SumOf(weights))
        [] o.operation = "difference"     -> Whole(o.current - o.prior)
        [] o.operation = "ratio"          -> Rat(o.current, o.prior)
        [] o.operation = "percent_change" -> Rat(o.current - o.prior, o.prior)
        [] o.operation = "basis_point_change" -> Whole((o.current - o.prior) * 10000)

\* calculate_arithmetic: one operation that fails refuses the batch.
BatchRefused(os) ==
  os = <<>> \/ ~IsInjective([i \in DOMAIN os |-> os[i].id]) \/ \E i \in DOMAIN os : OperationRefused(os[i])
Calculate(os) == [i \in DOMAIN os |-> [id |-> os[i].id, value |-> Execute(os[i])]]

\* No mean leaves the range of its values; as many values are above the median as
\* below it; equal weights make the weighted average the mean, and a zero weight
\* drops its value; prior and percentage change lead back to current.
ArithmeticSound(o) ==
  LET as(operation) == [o EXCEPT !.operation = operation]
      number(s)     == [i \in DOMAIN s |-> Whole(s[i])]
      within(x)     == AtMost(Smallest(number(o.values)), x) /\ AtMost(x, Largest(number(o.values)))
      above(m)      == Cardinality({i \in DOMAIN o.values : Less(m, Whole(o.values[i]))})
      below(m)      == Cardinality({i \in DOMAIN o.values : Less(Whole(o.values[i]), m)})
      weighed       == SelectSeq([i \in DOMAIN o.weights |-> <<o.values[i], o.weights[i]>>],
                                 LAMBDA x : x[2] > 0)
      heavy         == [as("weighted_average") EXCEPT !.values  = [i \in DOMAIN weighed |-> weighed[i][1]],
                                                      !.weights = [i \in DOMAIN weighed |-> weighed[i][2]]]
  IN  OperationRefused(o)
      \/ /\ o.operation \in {"mean", "median", "weighted_average"} => within(Execute(o))
         /\ o.operation = "median" =>
              2 * above(Execute(o)) <= Len(o.values) /\ 2 * below(Execute(o)) <= Len(o.values)
         /\ o.operation = "weighted_average" =>
              /\ Equals(Execute(o), Execute(heavy))
              /\ Cardinality(ToSet(o.weights)) = 1 => Equals(Execute(o), Execute(as("mean")))
         /\ o.operation = "percent_change" =>
              /\ Equals(Mul(Whole(o.prior), Add(Whole(1), Execute(o))), Whole(o.current))
              /\ Equals(Execute(o), Sub(Execute(as("ratio")), Whole(1)))
================================================================================
