-------------------------------- MODULE Forecasts ------------------------------
(***************************************************************************)
(* forecast_growth and discounted_cash_flow (calculations/forecasts.py).   *)
(*                                                                         *)
(* Decimals are exact rationals.  The discount base 1 + discount_rate is   *)
(* the square of root, so that the mid-year convention, which divides by   *)
(* its square root, stays exact.  The CAGR is a root of ratio and has no   *)
(* value here, only the equation it solves.  Labels, units and the context *)
(* are text and left out.                                                  *)
(***************************************************************************)
EXTENDS Rationals

One == Whole(1)
Power(x, n) == ProductOf([t \in 1..n |-> x])

--------------------------------------------------------------------------------
(* forecast_growth(base, periods, rates), one scenario.                         *)

GrowthRefused(base, periods, rates) ==
  \/ ~Less(Whole(0), base) \/ periods < 1
  \/ Len(rates) \notin {1, periods}
  \/ \E i \in DOMAIN rates : AtMost(rates[i], Whole(-1))

Expanded(periods, rates) == IF Len(rates) = 1 THEN [t \in 1..periods |-> rates[1]] ELSE rates

\* The value after every period.
GrowthValues(base, periods, rates) ==
  FoldLeft(LAMBDA values, rate :
             Append(values, Mul(IF values = <<>> THEN base ELSE Last(values), Add(One, rate))),
           <<>>, Expanded(periods, rates))

TotalGrowth(base, values) == Sub(Quo(Last(values), base), One)

\* What the CAGR c of a forecast solves.
IsCagr(c, base, values) == Equals(Power(Add(One, c), Len(values)), Quo(Last(values), base))

\* Doing it in one go gives the same ending value; the total growth leads from the
\* base to it; one rate repeated is the CAGR, and in any case the CAGR is between
\* the smallest and the largest rate.
GrowthSound(base, periods, rates) ==
  LET values == GrowthValues(base, periods, rates)
      slow   == FoldLeft(Least, rates[1], rates)
      fast   == FoldLeft(Greatest, rates[1], rates)
      ratio  == Quo(Last(values), base)
  IN  GrowthRefused(base, periods, rates)
      \/ /\ Len(values) = periods
         /\ Equals(Last(values), Mul(base, ProductOf([t \in 1..periods |->
                                                        Add(One, Expanded(periods, rates)[t])])))
         /\ Equals(Mul(base, Add(One, TotalGrowth(base, values))), Last(values))
         /\ Len(rates) = 1 => IsCagr(rates[1], base, values)
         /\ AtMost(Power(Add(One, slow), periods), ratio)
         /\ AtMost(ratio, Power(Add(One, fast), periods))

--------------------------------------------------------------------------------
(* discounted_cash_flow.  q: [flows, root, midYear, netDebt, shares, terminal]; *)
(* shares 0 stands for none; terminal is [method, growth] or                    *)
(* [method, multiple, metric], metric <<>> or <<m>>.                            *)

DiscountBase(q) == Mul(q.root, q.root)
DiscountRate(q) == Sub(DiscountBase(q), One)

\* Mutant: half a period more in place of half a period less.
Factor_Late(q, period) ==
  LET whole == Power(DiscountBase(q), period)
  IN  Quo(One, IF q.midYear THEN Mul(whole, q.root) ELSE whole)
\* _discount_factor
Factor(q, period) ==
  LET whole == Power(DiscountBase(q), period)
  IN  Quo(One, IF q.midYear THEN Quo(whole, q.root) ELSE whole)

CashFlowRefused(q) ==
  \/ q.flows = <<>> \/ q.shares < 0
  \/ ~Less(Whole(0), DiscountBase(q))
  \/ q.terminal.method = "perpetuity_growth" /\
       (AtMost(q.terminal.growth, Whole(-1)) \/ AtMost(DiscountRate(q), q.terminal.growth))
  \/ q.terminal.method = "exit_multiple" /\ ~Less(Whole(0), q.terminal.multiple)

\* _terminal_value
TerminalValue(q) ==
  IF q.terminal.method = "perpetuity_growth"
  THEN Quo(Mul(Last(q.flows), Add(One, q.terminal.growth)), Sub(DiscountRate(q), q.terminal.growth))
  ELSE Mul(IF q.terminal.metric = <<>> THEN Last(q.flows) ELSE Head(q.terminal.metric),
           q.terminal.multiple)

PresentValues(q)   == [t \in DOMAIN q.flows |-> Mul(q.flows[t], Factor(q, t))]
PresentTerminal(q) == Mul(TerminalValue(q), Factor(q, Len(q.flows)))
CashFlowValue(q)   == Add(SumOf(PresentValues(q)), PresentTerminal(q))
EquityValue(q)     == Sub(CashFlowValue(q), q.netDebt)
PerShare(q)        == Quo(EquityValue(q), Whole(q.shares))

\* The value of the flows from t on, and of the terminal value, at the beginning
\* of period t: discounting one period at a time.
Horner(q) ==
  FoldRight(LAMBDA flow, later : Quo(Add(flow, later), DiscountBase(q)), q.flows, TerminalValue(q))

\* The schedule adds up to discounting step by step, half a period less under the
\* mid-year convention.  A perpetuity is what it says: one more year of forecast
\* at the terminal growth changes nothing.  A higher discount rate never makes a
\* company of positive flows worth more.
CashFlowSound(q) ==
  LET longer == [q EXCEPT !.flows = Append(@, Mul(Last(@), Add(One, q.terminal.growth)))]
      dearer == [q EXCEPT !.root = Add(@, One)]
      end    == Horner(q)
  IN  CashFlowRefused(q)
      \/ /\ Equals(CashFlowValue(q), IF q.midYear THEN Mul(q.root, end) ELSE end)
         /\ q.terminal.method = "perpetuity_growth" =>
              Equals(CashFlowValue(longer), CashFlowValue(q))
         /\ (\A t \in DOMAIN q.flows : Less(Whole(0), q.flows[t])) /\ q.terminal.method = "perpetuity_growth"
              => Less(CashFlowValue(dearer), CashFlowValue(q))
         /\ q.shares > 0 =>
              Equals(Add(Mul(PerShare(q), Whole(q.shares)), q.netDebt), CashFlowValue(q))
================================================================================
