------------------------------ MODULE MCAlgorithms -----------------------------
(***************************************************************************)
(* The pure algorithms over bounded inputs.  A behaviour picks a subject,  *)
(* the input of one algorithm, and evaluates it; the invariants compare    *)
(* the result with a reference definition.                                 *)
(***************************************************************************)
EXTENDS WorkflowSearch, Universe, Sourcing, ToolCalls, TLC

M == INSTANCE Metrics
R == INSTANCE Ranking
F == INSTANCE Forecasts
S == INSTANCE Statistics

SeqsUpTo(S0, n) == UNION {[1..k -> S0] : k \in 1..n}

--------------------------------------------------------------------------------
(* Workflows: every graph on four tasks, every order of the dependencies of     *)
(* three, and the budgets of one task around their limits.                      *)

Task(id, deps) == [id |-> id, deps |-> deps, tools |-> <<>>,
                   turns |-> 1, toolCalls |-> 0, perTurn |-> 1, repair |-> 0]
Ascending(d) == SetToSortSeq(d, LAMBDA a, b : a < b)
Orderings    == UNION {SetToSeqs(d) : d \in SUBSET (1..3)}

Graphs4 == {[i \in 1..4 |-> Task(i, Ascending(g[i]))] :
              g \in {f \in [1..4 -> SUBSET (1..4)] : \A i \in 1..4 : i \notin f[i]}}
Graphs3 == {[i \in 1..3 |-> Task(i, g[i])] : g \in [1..3 -> Orderings]}
Unsound == {<<Task(a, d), Task(b, <<>>)>> :
              a \in {1, 2}, b \in {1, 2}, d \in {<<>>, <<1>>, <<2>>, <<9>>, <<2, 2>>}} \cup {<<>>}
Budgets == {<<[Task(1, <<>>) EXCEPT !.tools = t, !.turns = n, !.toolCalls = c, !.perTurn = b, !.repair = r]>> :
              t \in {<<>>, <<"t">>, <<"t", "t">>}, n \in {0, 1, 16, 17}, c \in {0, 1, 2, 64, 65},
              b \in 0..9, r \in 0..2}

--------------------------------------------------------------------------------
(* Metrics: the facts a metric can reach, each with a number of its own, in     *)
(* every combination of present and absent, and with one of them zero.          *)

Leaves(name) ==
  LET ebit   == {"ebit", "operating_income"}
      ebitda == ebit \cup {"ebitda", "depreciation_and_amortization"}
      cap    == {"market_cap", "share_price", "diluted_shares_outstanding"}
  IN  CASE name = "market_cap" -> cap
        [] name = "ebit"       -> ebit
        [] name = "ebitda"     -> ebitda
        [] name = "quick_assets" -> {"quick_assets", "current_assets", "inventory", "prepaid_expenses",
                                     "cash_and_equivalents", "accounts_receivable", "short_term_investments"}
        [] name = "average_invested_capital" -> {"average_invested_capital", "invested_capital",
                                     "total_debt", "shareholders_equity", "cash_and_equivalents"}
        [] name = "net_operating_profit_after_tax" ->
             ebit \cup {"net_operating_profit_after_tax", "effective_tax_rate",
                        "income_tax_expense", "income_before_tax"}
        [] name = "enterprise_value" -> cap \cup {"enterprise_value", "total_debt", "preferred_stock",
                                                  "minority_interest", "cash_and_equivalents"}
        [] name = "dividends_paid" ->
             {"dividends_paid", "dividends_per_share", "diluted_shares_outstanding"}
        [] name \in DOMAIN M!Balance      -> {name, M!Balance[name]}
        [] name \in DOMAIN M!DifferenceOf -> {name} \cup ToSet(M!DifferenceOf[name])
        [] name \in DOMAIN M!PerShareOf   -> {name} \cup ToSet(M!PerShareOf[name])
        [] name = "revenue_growth"        -> {name, "revenue", "prior_revenue"}
        [] name = "ebitda_margin"         -> ebitda \cup {name, "revenue"}
        [] OTHER                          -> {name}

Reach(m) ==
  LET under(names) == UNION {Leaves(names[i]) : i \in DOMAIN names}
  IN  CASE m \in DOMAIN M!Differences -> ToSet(M!Differences[m])
        [] m \in DOMAIN M!PerShares   -> ToSet(M!PerShares[m])
        [] m \in DOMAIN M!Growths     -> under(M!Growths[m])
        [] m \in DOMAIN M!Ratios      -> under(M!Ratios[m])
        [] m \in DOMAIN M!Days        -> under(M!Days[m]) \cup {"days_in_period"}
        [] m = "enterprise_value"     -> Leaves(m) \ {m}
        [] m = "incremental_operating_margin" -> ToSet(M!Incremental)
        [] m = "cash_conversion_cycle" -> UNION {under(M!Days[d]) : d \in DOMAIN M!Days}
        [] m = "rule_of_40"           -> under(<<"revenue_growth", "ebitda_margin">>)

Numbered(names, zeros) ==
  LET order == FoldSet(LAMBDA n, s : Append(s, n), <<>>, names)
  IN  [n \in names |-> IF n \in zeros THEN 0 ELSE 2 * SelectInSeq(order, LAMBDA x : x = n) + 3]

\* One zero at a time; with many facts only when at most one is absent.
Zeros(names, given) ==
  {{}} \cup (IF Cardinality(names) > 6 /\ Cardinality(given) < Cardinality(names) - 1 THEN {}
             ELSE {{n} : n \in given})

--------------------------------------------------------------------------------
(* Rankings: three rows with two metrics, four rows with one.                   *)

Partial(D, V) == UNION {[d -> V] : d \in SUBSET D}
Rows(n, metrics, top) == {[i \in 1..n |-> [id |-> i, values |-> f[i]]] :
                            f \in [1..n -> Partial(metrics, 1..top)]}
By(m, higher, weight) == [metric |-> m, higher |-> higher, weight |-> weight]
Policies == {"exclude", "worst", "neutral"}

--------------------------------------------------------------------------------
(* Cohorts: screens of four rows, read in pages of one or two, where two        *)
(* tickers may be of one issuer, one row may be refused and the second page may *)
(* come from another day.                                                       *)

Policy(target, size, screened) == [minimum |-> 1, target |-> target, pageSize |-> size,
                                   maxScreened |-> screened, minimumCap |-> 2]
Row(ticker, cap, whole) == [ticker |-> ticker, equity |-> TRUE, listed |-> TRUE,
                            whole |-> whole, cap |-> cap, liquid |-> TRUE]
Screens == {[i \in 1..4 |-> Row(t[i], 6 - i, i # bad)] : t \in [1..4 -> 0..3], bad \in 0..4}
Later(screen) == {screen, Reverse(screen), Tail(screen)}
Identities == {[t \in 1..3 |-> [cik |-> IF t = 3 THEN 3 ELSE c, listed |-> t # 3 \/ here]] :
                 c \in {1}, here \in BOOLEAN}
              \cup {[t \in 1..2 |-> [cik |-> t, listed |-> TRUE]]}

--------------------------------------------------------------------------------
(* Evidence: facts, quotes and batches in every order.                          *)

Fact(concept, unit, form, accession, filed, start, val) ==
  [concept |-> concept, unit |-> unit, form |-> form, accession |-> accession, filed |-> filed,
   start |-> start, end |-> 5, val |-> val]
Contents ==
  {Fact(c, "USD", "10-K", "a", filed, 1, val) :
     c \in {"SalesRevenueNet", "Revenues", "PaymentsOfDividends"}, filed \in {1, 2}, val \in {-3, 5}}
  \cup {Fact("Revenues", "USD", "10-K", "a", 2, start, 5) : start \in {0, 4, 6}}
  \cup {Fact("Revenues", "EUR", "10-K", "a", 2, 1, 5), Fact("Revenues", "USD", "8-K", "a", 3, 1, 5),
        Fact("Revenues", "USD", "none", "a", 3, 1, 5), Fact("Revenues", "USD", "10-Q", "none", 3, 1, 5),
        Fact("Assets", "USD", "10-K", "a", 3, 1, 5), Fact("EarningsPerShareDiluted", "USD/shares", "10-K", "a", 1, 1, 5)}
FactPool ==
  LET order == FoldSet(LAMBDA f, s : Append(s, f), <<>>, Contents)
  IN  {[digest |-> i] @@ order[i] : i \in DOMAIN order}
Quotes  == [at : 0..2, field : {"close", "dividends"}, val : {-1, 0, 2}]
Amounts == [at : 0..1, field : HistoryFields, val : {-1, 0, 2}]

Evidence(id, body) == [id |-> id, body |-> body]
Fact2(id, series, cites) == [id |-> id, series |-> series, cites |-> cites, body |-> 0]
BatchPool ==
  {[observations |-> o, evidence |-> {Evidence(1, 0), Evidence(2, 0)}] :
     o \in {{Fact2(1, "a", {1})}, {Fact2(2, "a", {1, 2}), Fact2(3, "b", {2})}, {Fact2(1, "b", {2})},
            {Fact2(3, "b", {3})}}}
  \cup {[observations |-> {Fact2(4, "b", {1})}, evidence |-> {Evidence(1, 1)}],
        [observations |-> {Fact2(5, "b", {3})}, evidence |-> {Evidence(3, 0)}],
        [observations |-> {Fact2(1, "a", {1}), Fact2(4, "a", {3})},
         evidence |-> {Evidence(1, 0), Evidence(3, 0)}]}

--------------------------------------------------------------------------------
(* Values: forecasts, valuations, market series and arithmetic.                 *)

Rates == {F!Whole(-1), F!Rat(-1, 2), F!Whole(0), F!Rat(1, 2), F!Whole(1)}
Terminals == {[method |-> "perpetuity_growth", growth |-> g] :
                g \in {F!Whole(-1), F!Rat(-1, 2), F!Whole(0), F!Rat(5, 4)}}
             \cup {[method |-> "exit_multiple", growth |-> F!Whole(0), multiple |-> F!Whole(m), metric |-> x] :
                     m \in {0, 2}, x \in {<<>>, <<F!Whole(7)>>}}
Valuations == {[flows |-> [i \in DOMAIN f |-> F!Whole(f[i])], root |-> r, midYear |-> mid,
                netDebt |-> F!Whole(2 - s), shares |-> s, terminal |-> t] :
                 f \in SeqsUpTo({-2, 1, 3}, 3), r \in {F!Whole(1), F!Rat(3, 2), F!Whole(2)},
                 mid \in BOOLEAN, s \in {0, 3}, t \in Terminals}
Returns == {S!Whole(-1), S!Rat(-1, 2), S!Whole(0), S!Whole(1)}
Operations ==
  {[id |-> 1, operation |-> op, values |-> v, weights |-> w, current |-> 0, prior |-> 0] :
     op \in S!OverValues, v \in SeqsUpTo({-2, 0, 1, 3}, 3) \cup {<<>>}, w \in SeqsUpTo(0..2, 3)}
  \cup {[id |-> 1, operation |-> op, values |-> <<>>, weights |-> <<>>, current |-> c, prior |-> p] :
          op \in S!OverPairs, c \in -2..3, p \in -2..3}

--------------------------------------------------------------------------------
(* Bindings: observations that differ in one respect from another, cited in      *)
(* every order, one, two or three at a time, and batches of two calls.          *)

Noted(entity, value, kind, symbol, scale, end, sources) ==
  [entity |-> entity, value |-> value, kind |-> kind, symbol |-> symbol, scale |-> scale,
   end |-> end, sources |-> sources]
Packet ==
  "revenue"  :> Noted("A", 5, "currency", "USD", 1, 1, {1})
  @@ "later"   :> Noted("A", 7, "currency", "USD", 1, 2, {2})
  @@ "euros"   :> Noted("A", 4, "currency", "EUR", 1, 2, {1})
  @@ "other"   :> Noted("B", 6, "currency", "USD", 1, 1, {1})
  @@ "tens"    :> Noted("A", 3, "currency", "USD", 10, 2, {1})
  @@ "share"   :> Noted("A", 9, "currency_per_share", "EUR", 1, 1, {1, 2})
  @@ "margin"  :> Noted("A", 2, "ratio", "ratio", 100, 3, {2})
  @@ "count"   :> Noted("A", 8, "shares", "shares", 1, 2, {1})
  @@ "zero"    :> Noted("A", 0, "currency", "USD", 1, 3, {1})
  @@ "hidden"  :> Noted("A", 5, "currency", "USD", 1, 3, {3})
References == DOMAIN Packet \cup {"literal", "blank", "unknown"}
Call(tool, refs) ==
  [tool |-> tool, refs |-> refs, fields |-> {}, sources |-> IF tool \in BoundTools THEN {} ELSE {1},
   strict |-> TRUE, terminal |-> "none", shape |-> TRUE]
\* What a model may fill in: a field of the controller's, an assumption, or both.
OwnFields == {{}} \cup {{x} : x \in ToSet(Alphabetical)}
          \cup UNION {{{x}, {x, "net_debt"}} : x \in {"weights", "scenarios", "cash_flows", "annual_risk_free_rate"}}
In(slot, ids)    == [i \in DOMAIN ids |-> <<slot, ids[i]>>]
Slotted(slots, ids) == UNION {[1..n -> slots \X ids] : n \in 1..2}
AllTools == BoundTools \cup {"search"}
Citing(tool) == CASE tool = "discounted_cash_flow" -> <<<<"net_debt", "revenue">>>>
                  [] tool = "market_statistics"    -> In("prices", <<"revenue", "later">>)
                  [] OTHER                         -> In("operand", <<"revenue">>)
Proposals ==
  {Call(tool, In("operand", ids)) : tool \in AllTools, ids \in SeqsUpTo(References, 2) \cup {<<>>}}
  \cup {Call("metrics", In("operand", ids)) : ids \in SeqsUpTo(References, 3)}
  \cup {[Call("discounted_cash_flow", refs) EXCEPT !.terminal = t] : t \in {"none", "open", "valued"},
          refs \in Slotted({"net_debt", "terminal_metric_value", "other"}, References)}
  \cup {Call("market_statistics", In("prices", ids)) : ids \in SeqsUpTo(References, 3)}
  \cup {Call("market_statistics", In("prices", <<"revenue", "later">>) \o In("benchmark_prices", ids)) :
          ids \in SeqsUpTo(DOMAIN Packet, 2)}
  \cup {p \in {[Call(tool, Citing(tool)) EXCEPT !.fields = f, !.sources = s, !.strict = strict, !.shape = fits] :
                 tool \in AllTools, f \in OwnFields, s \in {{}, {3}}, strict \in BOOLEAN, fits \in BOOLEAN} :
           p.tool \in BoundTools /\ (p.sources # {} \/ ~p.strict) => "source_ids" \in p.fields}
Some == {Call("calculate", <<<<"operand", id>>>>) : id \in {"revenue", "literal", "hidden"}}
        \cup {[Call("search", <<>>) EXCEPT !.shape = fits] : fits \in BOOLEAN}
Batches == {<<p>> : p \in Proposals} \cup [1..2 -> Some]

--------------------------------------------------------------------------------
(* Tool sessions: three steps of two call IDs, a narrow scope and a late tool.   *)

Narrow == [tools |-> {"metrics", "late"}, sources |-> {"x"}, limited |-> TRUE, open |-> FALSE]
Broad  == [tools |-> {"metrics", "rank"}, sources |-> {}, limited |-> FALSE, open |-> FALSE]
ToolCall(id, name, arguments, sources) ==
  [id |-> id, name |-> name, arguments |-> arguments, sources |-> sources]
CallStep(scope, call, outcome) ==
  [op |-> "call", tool |-> "none", scope |-> scope, call |-> call, outcome |-> outcome]
CallSteps ==
  {CallStep(scope, ToolCall(1, "metrics", "a", {"x"}), outcome) :
     scope \in {Narrow, NoScope}, outcome \in Outcome}
  \cup {CallStep(scope, call, "ok") : scope \in {Narrow, Broad},
          call \in {ToolCall(1, "metrics", "b", {"x"}), ToolCall(1, "metrics", "a", {"y"}),
                    ToolCall(2, "rank", "a", {}), ToolCall(1, "metrics", "misshaped", {}),
                    ToolCall(2, "metrics", "a", {"malformed"}), ToolCall(2, "late", "a", {}),
                    ToolCall(NoId, "metrics", "a", {})}}
Registers == {[CallStep(NoScope, ToolCall(1, "metrics", "a", {}), "ok") EXCEPT !.op = "register", !.tool = "late"]}
SessionInputs == SeqsUpTo(CallSteps \cup Registers, 3)

--------------------------------------------------------------------------------
Subject(kind, input) == [kind |-> kind, input |-> input]
Pick(kind, inputs)   == \E x \in inputs : subject = Subject(kind, x)

Init ==
  /\ evaluated = FALSE
  /\ \/ Pick("workflow", {<<ts, 2>> : ts \in Graphs4 \cup Graphs3 \cup Unsound \cup Budgets})
     \/ Pick("workflow", {<<<<Task(1, <<>>)>>, slots>> : slots \in {0, 1, 8, 9}})
     \/ \E m \in M!Metric : \E given \in SUBSET Reach(m) :
          Pick("metric", {<<Numbered(given, z), m>> : z \in Zeros(Reach(m), given)})
     \/ Pick("ranking", {<<rows, criteria, policy, 2, 10>> :
               rows \in Rows(3, {"a", "b"}, 2), policy \in Policies,
               criteria \in {<<By("a", TRUE, 1), By("b", FALSE, 2)>>, <<By("a", TRUE, 0), By("b", TRUE, 1)>>}})
     \/ Pick("ranking", {<<rows, <<By("a", FALSE, 1)>>, policy, top, 10>> :
               rows \in Rows(4, {"a"}, 3), policy \in Policies, top \in {0, 1, 3}})
     \/ \E screen \in Screens : Pick("cohort", {<<Policy(target, size, screened), sec, <<screen, later, later, later>>>> :
               target \in 1..2, size \in 1..2, screened \in {3, 5}, sec \in Identities, later \in Later(screen)})
     \/ Pick("facts", SeqsUpTo(FactPool, 3))
     \/ Pick("quotes", SeqsUpTo(Quotes, 3) \cup SeqsUpTo(Amounts, 2))
     \/ Pick("batches", SeqsUpTo(BatchPool, 3) \X (SUBSET (1..3)))
     \/ Pick("growth", {<<base, n, rates>> : base \in {F!Whole(0), F!Whole(3)}, n \in 1..3,
                                             rates \in SeqsUpTo(Rates, 3)})
     \/ Pick("valuation", Valuations)
     \/ \E n \in 2..4 : Pick("prices", {<<prices, benchmark, S!Rat(1, 4), 4>> :
               prices \in [1..n -> 0..3], benchmark \in [1..(n - 1) -> {S!Rat(-1, 2), S!Whole(0), S!Whole(1)}]})
     \/ Pick("returns", SeqsUpTo(Returns, 3))
     \/ Pick("arithmetic", Operations)
     \/ Pick("binding", {<<batch, AllTools, {1, 2}, packet>> : batch \in Batches, packet \in {Packet, <<>>}})
     \/ Pick("binding", {<<batch, {"search"}, {1, 2}, Packet>> : batch \in [1..2 -> Some]})
     \/ Pick("session", {<<{"metrics", "rank"}, steps>> : steps \in SessionInputs})

Spec == Init /\ [][Evaluate]_<<subject, evaluated>>

--------------------------------------------------------------------------------
\* metrics.py: a value is what its published formula makes of its published inputs.
\* forecasts.py, market.py, arithmetic.py: the numbers agree with definitions that
\* compute them in another way.  ranking.py: ranks are fair to ties, to the order of
\* the rows and to better rows.
ValuesSound ==
  /\ Is("ranking")    => R!RankingSound(subject.input[1], subject.input[2], subject.input[3],
                                        subject.input[4], subject.input[5])
  /\ Is("metric")     => M!MetricSound(subject.input[1], subject.input[2])
  /\ Is("growth")     => F!GrowthSound(subject.input[1], subject.input[2], subject.input[3])
  /\ Is("valuation")  => F!CashFlowSound(subject.input)
  /\ Is("prices")     => S!PricesSound(subject.input[1], subject.input[2], subject.input[3], subject.input[4])
  /\ Is("returns")    => S!ReturnsSound(subject.input)
  /\ Is("arithmetic") => S!ArithmeticSound(subject.input)
================================================================================
