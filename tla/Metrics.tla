--------------------------------- MODULE Metrics -------------------------------
(***************************************************************************)
(* calculate_metrics (calculations/metrics.py): the arithmetic the model   *)
(* may ask for but never does itself.  A metric is computed from operands; *)
(* an operand is a fact given under its name or an alias, or derived from  *)
(* other facts; a missing fact or a zero denominator makes the metric      *)
(* unavailable.  Next to the value the tool publishes the formula and the  *)
(* operands it was computed from.                                          *)
(*                                                                         *)
(* v is a partial function from names to integers, the facts of one call.  *)
(* Decimals are exact rationals; the messages of unavailable metrics stand *)
(* as their causes, "missing" and "zero".                                  *)
(***************************************************************************)
EXTENDS Rationals, Sequences, SequencesExt, Functions

Unavailable(why) == [ok |-> FALSE, why |-> why]

--------------------------------------------------------------------------------
(* _MetricCalculator: operands.                                                 *)

Aliases ==
  [revenue |-> <<"sales">>, prior_revenue |-> <<"prior_sales">>,
   cost_of_revenue |-> <<"cost_of_goods_sold", "cogs">>,
   prior_cost_of_revenue |-> <<"prior_cost_of_goods_sold", "prior_cogs">>,
   capital_expenditures |-> <<"capex">>, cash_and_equivalents |-> <<"cash">>,
   market_cap |-> <<"market_capitalization">>, total_debt |-> <<"debt">>,
   shareholders_equity |-> <<"stockholders_equity", "total_equity", "common_equity">>,
   average_shareholders_equity |-> <<"average_stockholders_equity", "average_total_equity">>,
   diluted_shares_outstanding |-> <<"weighted_average_diluted_shares", "shares_outstanding">>,
   prior_diluted_shares_outstanding |->
     <<"prior_weighted_average_diluted_shares", "prior_shares_outstanding">>,
   preferred_stock |-> <<"preferred_equity">>, minority_interest |-> <<"noncontrolling_interest">>,
   ebit |-> <<"earnings_before_interest_and_taxes">>,
   ebitda |-> <<"earnings_before_interest_taxes_depreciation_amortization">>,
   depreciation_and_amortization |-> <<"depreciation_amortization">>,
   interest_expense |-> <<"net_interest_expense">>, average_total_assets |-> <<"average_assets">>,
   average_accounts_receivable |-> <<"average_receivables">>,
   average_accounts_payable |-> <<"average_payables">>,
   net_operating_profit_after_tax |-> <<"nopat">>,
   average_invested_capital |-> <<"avg_invested_capital">>, effective_tax_rate |-> <<"tax_rate">>,
   dividends_paid |-> <<"common_dividends_paid", "cash_dividends_paid">>]

\* The first spelling of a fact that is given.
At(table, name)  == IF name \in DOMAIN table THEN table[name] ELSE <<>>
Given(v, found)  == IF found = <<>> THEN Unavailable({"missing"}) ELSE Whole(v[Head(found)])
Direct(v, name)  == Given(v, SelectSeq(<<name>> \o At(Aliases, name), LAMBDA s : s \in DOMAIN v))

\* The first alternative that is available, else the last one's reason.
Else(a, b) == IF a.ok THEN a ELSE b

OptionalZero(v, name) == Else(Direct(v, name), Whole(0))

\* Derived operands name their own alternatives when one of them is missing,
\* whatever the reason of the operand below was.
Derive(Op(_, _), a, b) == IF a.ok /\ b.ok THEN Op(a, b) ELSE Unavailable({"missing"})
Over(a, b) == IF b.n = 0 THEN Unavailable({"zero"}) ELSE Quo(a, b)

DeriveFrom(v, Op(_, _), left, right) == Derive(Op, Direct(v, left), Direct(v, right))

MarketCap(v)  == Else(Direct(v, "market_cap"),
                      DeriveFrom(v, Mul, "share_price", "diluted_shares_outstanding"))
Ebit(v)       == Else(Direct(v, "ebit"), Direct(v, "operating_income"))
Ebitda(v)     == Else(Direct(v, "ebitda"),
                      Derive(Add, Ebit(v), Direct(v, "depreciation_and_amortization")))
TaxRate(v)    == Else(Direct(v, "effective_tax_rate"),
                      DeriveFrom(v, Over, "income_tax_expense", "income_before_tax"))
QuickAssets(v) ==
  LET fromTotals == Derive(Sub, DeriveFrom(v, Sub, "current_assets", "inventory"),
                           OptionalZero(v, "prepaid_expenses"))
      fromParts  == Derive(Add, DeriveFrom(v, Add, "cash_and_equivalents", "accounts_receivable"),
                           OptionalZero(v, "short_term_investments"))
  IN  Else(Direct(v, "quick_assets"), Else(fromTotals, fromParts))
InvestedCapital(v) ==
  LET fromParts == Derive(Sub, DeriveFrom(v, Add, "total_debt", "shareholders_equity"),
                          Direct(v, "cash_and_equivalents"))
  IN  Else(Direct(v, "average_invested_capital"), Else(Direct(v, "invested_capital"), fromParts))
AfterTax(v) ==
  Else(Direct(v, "net_operating_profit_after_tax"),
       Derive(LAMBDA e, r : Mul(e, Sub(Whole(1), r)), Ebit(v), TaxRate(v)))

\* An average that is not given is taken to be the balance at the end.
Balance == [average_total_assets |-> "total_assets", average_inventory |-> "inventory",
            average_shareholders_equity |-> "shareholders_equity",
            average_accounts_receivable |-> "accounts_receivable",
            average_accounts_payable |-> "accounts_payable"]
DifferenceOf == [gross_profit |-> <<"revenue", "cost_of_revenue">>,
                 prior_gross_profit |-> <<"prior_revenue", "prior_cost_of_revenue">>,
                 free_cash_flow |-> <<"operating_cash_flow", "capital_expenditures">>,
                 net_debt |-> <<"total_debt", "cash_and_equivalents">>]
PerShareOf   == [earnings_per_share |-> <<"net_income", "diluted_shares_outstanding">>,
                 prior_earnings_per_share |->
                   <<"prior_net_income", "prior_diluted_shares_outstanding">>]

Reasons(xs)       == UNION {x.why : x \in {y \in ToSet(xs) : ~y.ok}}
AllAvailable(xs)  == \A i \in DOMAIN xs : xs[i].ok
Evaluated(xs, y)  == IF AllAvailable(xs) THEN y ELSE Unavailable(Reasons(xs))

EnterpriseOperands(v) ==
  <<MarketCap(v), Direct(v, "total_debt"), OptionalZero(v, "preferred_stock"),
    OptionalZero(v, "minority_interest"), Direct(v, "cash_and_equivalents")>>
EnterpriseValue(xs) ==
  Evaluated(xs, Sub(Add(Add(Add(xs[1], xs[2]), xs[3]), xs[4]), xs[5]))

Growth(xs)     == Evaluated(xs, Over(Sub(xs[1], xs[2]), xs[2]))
Ratio(xs)      == Evaluated(xs, Over(xs[1], xs[2]))
Difference(xs) == Evaluated(xs, Sub(xs[1], xs[2]))
Total(xs)      == Evaluated(xs, Add(xs[1], xs[2]))
CycleOf(xs)    == Evaluated(xs, Sub(Add(xs[1], xs[2]), xs[3]))
IncrementalMargin(xs) == Evaluated(xs, Over(Sub(xs[1], xs[2]), Sub(xs[3], xs[4])))

\* _component
Component(v, name) ==
  CASE name = "market_cap"     -> MarketCap(v)
    [] name = "ebit"           -> Ebit(v)
    [] name = "ebitda"         -> Ebitda(v)
    [] name = "quick_assets"   -> QuickAssets(v)
    [] name = "average_invested_capital"       -> InvestedCapital(v)
    [] name = "net_operating_profit_after_tax" -> AfterTax(v)
    [] name = "enterprise_value" ->
         Else(Direct(v, name), EnterpriseValue(EnterpriseOperands(v)))
    [] name = "dividends_paid" ->
         Else(Direct(v, name), DeriveFrom(v, Mul, "dividends_per_share", "diluted_shares_outstanding"))
    [] name \in DOMAIN Balance -> Else(Direct(v, name), Direct(v, Balance[name]))
    [] name \in DOMAIN DifferenceOf ->
         Else(Direct(v, name), DeriveFrom(v, Sub, DifferenceOf[name][1], DifferenceOf[name][2]))
    [] name \in DOMAIN PerShareOf ->
         Else(Direct(v, name), DeriveFrom(v, Over, PerShareOf[name][1], PerShareOf[name][2]))
    [] name = "revenue_growth" ->
         Else(Direct(v, name), Growth(<<Direct(v, "revenue"), Direct(v, "prior_revenue")>>))
    [] name = "ebitda_margin"  -> Else(Direct(v, name), Ratio(<<Ebitda(v), Direct(v, "revenue")>>))
    [] OTHER                   -> Direct(v, name)

--------------------------------------------------------------------------------
(* _MetricCalculator.evaluate: which operands a metric takes, and how.          *)

Differences == [gross_profit    |-> <<"revenue", "cost_of_revenue">>,
                free_cash_flow  |-> <<"operating_cash_flow", "capital_expenditures">>,
                working_capital |-> <<"current_assets", "current_liabilities">>,
                net_debt        |-> <<"total_debt", "cash_and_equivalents">>]
PerShares   == [earnings_per_share   |-> <<"net_income", "diluted_shares_outstanding">>,
                book_value_per_share |-> <<"shareholders_equity", "diluted_shares_outstanding">>]
Growths     == [revenue_growth            |-> <<"revenue", "prior_revenue">>,
                gross_profit_growth       |-> <<"gross_profit", "prior_gross_profit">>,
                operating_income_growth   |-> <<"operating_income", "prior_operating_income">>,
                net_income_growth         |-> <<"net_income", "prior_net_income">>,
                earnings_per_share_growth |-> <<"earnings_per_share", "prior_earnings_per_share">>]
Ratios ==
  [gross_margin |-> <<"gross_profit", "revenue">>, operating_margin |-> <<"operating_income", "revenue">>,
   ebit_margin |-> <<"ebit", "revenue">>, ebitda_margin |-> <<"ebitda", "revenue">>,
   net_margin |-> <<"net_income", "revenue">>,
   operating_cash_flow_margin |-> <<"operating_cash_flow", "revenue">>,
   free_cash_flow_margin |-> <<"free_cash_flow", "revenue">>,
   capex_intensity |-> <<"capital_expenditures", "revenue">>,
   current_ratio |-> <<"current_assets", "current_liabilities">>,
   quick_ratio |-> <<"quick_assets", "current_liabilities">>,
   debt_to_equity |-> <<"total_debt", "shareholders_equity">>,
   debt_to_ebitda |-> <<"total_debt", "ebitda">>, net_debt_to_ebitda |-> <<"net_debt", "ebitda">>,
   interest_coverage |-> <<"ebit", "interest_expense">>,
   asset_turnover |-> <<"revenue", "average_total_assets">>,
   return_on_assets |-> <<"net_income", "average_total_assets">>,
   return_on_equity |-> <<"net_income", "average_shareholders_equity">>,
   return_on_invested_capital |-> <<"net_operating_profit_after_tax", "average_invested_capital">>,
   cash_conversion_ratio |-> <<"operating_cash_flow", "net_income">>,
   price_to_earnings |-> <<"market_cap", "net_income">>, price_to_sales |-> <<"market_cap", "revenue">>,
   price_to_book |-> <<"market_cap", "shareholders_equity">>,
   enterprise_value_to_revenue |-> <<"enterprise_value", "revenue">>,
   enterprise_value_to_ebitda |-> <<"enterprise_value", "ebitda">>,
   enterprise_value_to_ebit |-> <<"enterprise_value", "ebit">>,
   free_cash_flow_yield |-> <<"free_cash_flow", "market_cap">>,
   earnings_yield |-> <<"net_income", "market_cap">>, dividend_yield |-> <<"dividends_paid", "market_cap">>,
   payout_ratio |-> <<"dividends_paid", "net_income">>]
Days == [days_sales_outstanding    |-> <<"average_accounts_receivable", "revenue">>,
         days_inventory_outstanding |-> <<"average_inventory", "cost_of_revenue">>,
         days_payables_outstanding |-> <<"average_accounts_payable", "cost_of_revenue">>]
Cycle == <<"days_sales_outstanding", "days_inventory_outstanding", "days_payables_outstanding">>
Incremental == <<"operating_income", "prior_operating_income", "revenue", "prior_revenue">>
Enterprise  == <<"market_cap", "total_debt", "preferred_stock", "minority_interest",
                 "cash_and_equivalents">>
RuleOf40    == <<"revenue_growth", "ebitda_margin">>

Metric == DOMAIN Differences \cup DOMAIN PerShares \cup DOMAIN Growths \cup DOMAIN Ratios
            \cup DOMAIN Days \cup {"enterprise_value", "incremental_operating_margin",
                                   "cash_conversion_cycle", "rule_of_40"}

\* An evaluation publishes its value and the operands that were available.
Evaluation(names, xs, y) ==
  [value  |-> y,
   inputs |-> [n \in {names[i] : i \in {j \in DOMAIN xs : xs[j].ok}} |->
                 xs[CHOOSE i \in DOMAIN names : names[i] = n]]]

Facts(v, names)    == [i \in DOMAIN names |-> Direct(v, names[i])]
Operands(v, names) == [i \in DOMAIN names |-> Component(v, names[i])]

\* The metric Value of the operands xs.
Apply(Value(_), names, xs) == Evaluation(names, xs, Value(xs))

\* Without a value some operands are not published.
Hiding(hidden, e) == [e EXCEPT !.inputs = Restrict(@, DOMAIN @ \ hidden)]
EnterpriseOf(xs) ==
  LET all == Apply(EnterpriseValue, Enterprise, xs)
  IN  IF all.value.ok THEN all ELSE Hiding({"preferred_stock", "minority_interest"}, all)

\* The last operand is the days in the period.
Times(ratio, days) == IF ratio.ok THEN Mul(ratio, days) ELSE ratio
InDays(xs) == Evaluated(xs, Times(Over(xs[1], xs[2]), xs[3]))

\* Mutant: a period that is given is ignored.
DaysOf_Year(v, m) ==
  Evaluation(Append(Days[m], "days_in_period"),
             Append(Operands(v, Days[m]), Else(Direct(v, "days_in_period"), Whole(365))),
             InDays(Append(Operands(v, Days[m]), Whole(365))))

Period(v) == Else(Direct(v, "days_in_period"), Whole(365))
DaysApart(names, xs, year) ==
  LET all == Apply(InDays, Append(names, "days_in_period"), Append(xs, year))
  IN  IF AllAvailable(xs) THEN all ELSE Hiding({"days_in_period"}, all)
DaysOf(v, m) == DaysApart(Days[m], Operands(v, Days[m]), Period(v))

Evaluate(v, m) ==
  CASE m \in DOMAIN Differences -> Apply(Difference, Differences[m], Facts(v, Differences[m]))
    [] m \in DOMAIN PerShares   -> Apply(Ratio, PerShares[m], Facts(v, PerShares[m]))
    [] m \in DOMAIN Growths     -> Apply(Growth, Growths[m], Operands(v, Growths[m]))
    [] m \in DOMAIN Ratios      -> Apply(Ratio, Ratios[m], Operands(v, Ratios[m]))
    [] m \in DOMAIN Days        -> DaysOf(v, m)
    [] m = "enterprise_value"   -> EnterpriseOf(EnterpriseOperands(v))
    [] m = "incremental_operating_margin" -> Apply(IncrementalMargin, Incremental, Facts(v, Incremental))
    [] m = "cash_conversion_cycle" ->
         Apply(CycleOf, Cycle, [i \in DOMAIN Cycle |-> DaysOf(v, Cycle[i]).value])
    [] m = "rule_of_40"         -> Apply(Total, RuleOf40, Operands(v, RuleOf40))

--------------------------------------------------------------------------------
(* _DEFINITIONS: the formula the tool publishes with a value, applied to the    *)
(* operands x it publishes with it.                                             *)

Change(x, y) == Quo(Sub(x, y), y)

Published(m, x) ==
  CASE m = "gross_profit"     -> Sub(x.revenue, x.cost_of_revenue)
    [] m = "free_cash_flow"   -> Sub(x.operating_cash_flow, x.capital_expenditures)
    [] m = "working_capital"  -> Sub(x.current_assets, x.current_liabilities)
    [] m = "net_debt"         -> Sub(x.total_debt, x.cash_and_equivalents)
    [] m = "enterprise_value" -> Sub(Add(Add(x.market_cap, x.total_debt),
                                         Add(x.preferred_stock, x.minority_interest)),
                                     x.cash_and_equivalents)
    [] m = "earnings_per_share"   -> Quo(x.net_income, x.diluted_shares_outstanding)
    [] m = "book_value_per_share" -> Quo(x.shareholders_equity, x.diluted_shares_outstanding)
    [] m = "revenue_growth"       -> Change(x.revenue, x.prior_revenue)
    [] m = "gross_profit_growth"  -> Change(x.gross_profit, x.prior_gross_profit)
    [] m = "operating_income_growth" -> Change(x.operating_income, x.prior_operating_income)
    [] m = "net_income_growth"    -> Change(x.net_income, x.prior_net_income)
    [] m = "earnings_per_share_growth" -> Change(x.earnings_per_share, x.prior_earnings_per_share)
    [] m = "gross_margin"     -> Quo(x.gross_profit, x.revenue)
    [] m = "operating_margin" -> Quo(x.operating_income, x.revenue)
    [] m = "ebit_margin"      -> Quo(x.ebit, x.revenue)
    [] m = "ebitda_margin"    -> Quo(x.ebitda, x.revenue)
    [] m = "net_margin"       -> Quo(x.net_income, x.revenue)
    [] m = "operating_cash_flow_margin" -> Quo(x.operating_cash_flow, x.revenue)
    [] m = "free_cash_flow_margin" -> Quo(x.free_cash_flow, x.revenue)
    [] m = "capex_intensity"  -> Quo(x.capital_expenditures, x.revenue)
    [] m = "incremental_operating_margin" -> Quo(Sub(x.operating_income, x.prior_operating_income),
                                                 Sub(x.revenue, x.prior_revenue))
    [] m = "current_ratio"    -> Quo(x.current_assets, x.current_liabilities)
    [] m = "quick_ratio"      -> Quo(x.quick_assets, x.current_liabilities)
    [] m = "debt_to_equity"   -> Quo(x.total_debt, x.shareholders_equity)
    [] m = "debt_to_ebitda"   -> Quo(x.total_debt, x.ebitda)
    [] m = "net_debt_to_ebitda" -> Quo(x.net_debt, x.ebitda)
    [] m = "interest_coverage" -> Quo(x.ebit, x.interest_expense)
    [] m = "asset_turnover"   -> Quo(x.revenue, x.average_total_assets)
    [] m = "return_on_assets" -> Quo(x.net_income, x.average_total_assets)
    [] m = "return_on_equity" -> Quo(x.net_income, x.average_shareholders_equity)
    [] m = "return_on_invested_capital" -> Quo(x.net_operating_profit_after_tax,
                                               x.average_invested_capital)
    [] m = "cash_conversion_ratio" -> Quo(x.operating_cash_flow, x.net_income)
    [] m = "days_sales_outstanding" ->
         Mul(Quo(x.average_accounts_receivable, x.revenue), x.days_in_period)
    [] m = "days_inventory_outstanding" ->
         Mul(Quo(x.average_inventory, x.cost_of_revenue), x.days_in_period)
    [] m = "days_payables_outstanding" ->
         Mul(Quo(x.average_accounts_payable, x.cost_of_revenue), x.days_in_period)
    [] m = "cash_conversion_cycle" -> Sub(Add(x.days_sales_outstanding, x.days_inventory_outstanding),
                                          x.days_payables_outstanding)
    [] m = "price_to_earnings" -> Quo(x.market_cap, x.net_income)
    [] m = "price_to_sales"   -> Quo(x.market_cap, x.revenue)
    [] m = "price_to_book"    -> Quo(x.market_cap, x.shareholders_equity)
    [] m = "enterprise_value_to_revenue" -> Quo(x.enterprise_value, x.revenue)
    [] m = "enterprise_value_to_ebitda" -> Quo(x.enterprise_value, x.ebitda)
    [] m = "enterprise_value_to_ebit" -> Quo(x.enterprise_value, x.ebit)
    [] m = "free_cash_flow_yield" -> Quo(x.free_cash_flow, x.market_cap)
    [] m = "earnings_yield"   -> Quo(x.net_income, x.market_cap)
    [] m = "dividend_yield"   -> Quo(x.dividends_paid, x.market_cap)
    [] m = "payout_ratio"     -> Quo(x.dividends_paid, x.net_income)
    [] m = "rule_of_40"       -> Add(x.revenue_growth, x.ebitda_margin)

\* The same facts, each under the last of its aliases.
Respelled(v) ==
  LET spelling(n) == IF n \in DOMAIN Aliases THEN Last(Aliases[n]) ELSE n
  IN  [s \in {spelling(n) : n \in DOMAIN v} |-> v[CHOOSE n \in DOMAIN v : spelling(n) = s]]

\* A published value is the published formula of the published operands, and
\* rounding keeps it within half a unit; an unavailable metric has a cause: an
\* operand that is missing, or a denominator that is zero.
Halfway(a, r) ==
  LET d == 2 * (r * a.d - 10 * a.n)
  IN  /\ -a.d <= d /\ d <= a.d
      /\ d \in {a.d, -a.d} => r % 2 = 0
Grounded(m, e) ==
  IF e.value.ok
    THEN Equals(e.value, Published(m, e.inputs)) /\ Halfway(e.value, RoundHalfEven(e.value, 10))
    ELSE e.value.why \subseteq {"missing", "zero"} /\ e.value.why # {}

\* And the spelling of a fact changes nothing.
Settled(v, m, e) == Grounded(m, e) /\ Evaluate(Respelled(v), m) = e
MetricSound(v, m) == Settled(v, m, Evaluate(v, m))
================================================================================
