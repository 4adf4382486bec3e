--------------------------------- MODULE Binding ---------------------------------
(***************************************************************************)
(* The trusted argument binding of a fixed-DAG task (fixed_dag.py,         *)
(* _preflight_calls and _bind_finance_arguments): a model proposes a tool  *)
(* call that refers to observations, and the controller puts in their      *)
(* numbers, units, sources and context, or raises at the first reason not  *)
(* to.                                                                     *)
(*                                                                         *)
(* A proposal is [tool, fields, sources, strict, refs, terminal, shape]:   *)
(* the fields the model filled in with values of its own, the source IDs   *)
(* it cites and whether they are a proper list, the references in the      *)
(* order of the arguments (pairs of a slot and an ID, "literal" for        *)
(* anything that is not a reference, "blank" for an empty ID), for a       *)
(* discounted cash flow whether its terminal object is missing, open or    *)
(* already valued, and whether the values fit the tool's schema.           *)
(*                                                                         *)
(* A packet maps an observation ID to [entity, value, kind, symbol, scale, *)
(* end, sources].                                                          *)
(***************************************************************************)
EXTENDS Integers, Sequences, SequencesExt, FiniteSetsExt

BoundTools == {"calculate", "metrics", "forecast_growth", "discounted_cash_flow",
               "market_statistics", "rank"}

NoError == "none"

FirstError(errors) ==
  LET raised == {i \in DOMAIN errors : errors[i] # NoError}
  IN  IF raised = {} THEN NoError ELSE errors[Min(raised)]

--------------------------------------------------------------------------------
(* What a model must leave to the controller.                                   *)

ControllerFields(tool) ==
  CASE tool = "calculate"            -> {"source_ids", "context"}
    [] tool = "metrics"              -> {"values", "source_ids", "context"}
    [] tool = "forecast_growth"      -> {"source_ids", "context", "unit"}
    [] tool = "discounted_cash_flow" -> {"source_ids", "context", "unit", "net_debt", "shares_outstanding"}
    [] tool = "market_statistics"    -> {"prices", "returns", "benchmark_returns", "source_ids", "context"}
    [] OTHER                         -> {}

\* The supplied fields are sorted by name and the first one decides the code.
Alphabetical == <<"benchmark_returns", "context", "net_debt", "prices", "returns",
                  "shares_outstanding", "source_ids", "unit", "values">>

\* What a tool's schema leaves to the model besides the observations: the assumptions
\* of a forecast or a valuation and the options of a calculation (tools/finance.py).
\* They enter as the model wrote them.
Assumptions(tool) ==
  {"precision"} \cup
  CASE tool = "calculate"            -> {"periods", "weights"}
    [] tool = "metrics"              -> {"metrics"}
    [] tool = "forecast_growth"      -> {"periods", "scenarios", "period_labels"}
    [] tool = "discounted_cash_flow" -> {"cash_flows", "discount_rate", "terminal", "period_labels", "mid_year"}
    [] tool = "market_statistics"    -> {"periods_per_year", "annual_risk_free_rate"}
    [] OTHER                         -> {}

\* All that has a value of the model's, its terminal object included.
Own(p) == p.fields \cup (IF p.terminal = "none" THEN {} ELSE {"terminal"})

\* Mutant: only what the controller injects is looked for, not the numbers it binds.
RejectControllerFields_Numbers(p) ==
  IF p.fields \cap ControllerFields(p.tool) \cap {"source_ids", "context", "unit"} = {} THEN NoError
  ELSE "controller_field_not_allowed"

RejectControllerFields(p) ==
  LET supplied == {i \in DOMAIN Alphabetical : Alphabetical[i] \in p.fields \cap ControllerFields(p.tool)}
  IN  IF supplied = {} THEN NoError
      ELSE IF Alphabetical[Min(supplied)] \in {"source_ids", "context", "unit"}
        THEN "controller_field_not_allowed"
        ELSE "unbound_numeric_input"

--------------------------------------------------------------------------------
(* References, and the observations that may enter one calculation.             *)

ResolveObservation(ref, packet) ==
  IF ref = "literal" THEN "unbound_numeric_input"
  ELSE IF ref = "blank" THEN "invalid_observation_binding"
  ELSE IF ref \notin DOMAIN packet THEN "observation_not_allowed"
  ELSE NoError

Monetary(o) == o.kind \in {"currency", "currency_per_share"}

\* Mutant: prices per share are not compared with amounts.
Compatible_Amounts(obs) ==
  /\ Cardinality({o.entity : o \in ToSet(obs)}) = 1
  /\ Cardinality({o.scale : o \in {x \in ToSet(obs) : x.kind # "ratio"}}) <= 1
  /\ Cardinality({o.symbol : o \in {x \in ToSet(obs) : x.kind = "currency"}}) <= 1

\* _validate_observation_compatibility.
Compatible(obs) ==
  /\ Cardinality({o.entity : o \in ToSet(obs)}) = 1
  /\ Cardinality({o.scale : o \in {x \in ToSet(obs) : x.kind # "ratio"}}) <= 1
  /\ Cardinality({o.symbol : o \in {x \in ToSet(obs) : Monetary(x)}}) <= 1

CompatibilityError(obs) == IF Compatible(obs) THEN NoError ELSE "incompatible_observations"

Lineage(obs) == UNION {o.sources : o \in ToSet(obs)}

UnitLabel(o) == <<o.symbol, o.scale>>

ObservationContext(obs) ==
  LET money == {i \in DOMAIN obs : Monetary(obs[i])}
  IN  [entity  |-> obs[1].entity,
       asOf    |-> Max({o.end : o \in ToSet(obs)}),
       unit    |-> IF money = {} THEN <<>> ELSE UnitLabel(obs[Min(money)]),
       current |-> obs[1].end,
       prior   |-> IF Len(obs) >= 2 THEN obs[2].end ELSE 0]

NoContext == [entity |-> "none", asOf |-> 0, unit |-> <<>>, current |-> 0, prior |-> 0]

--------------------------------------------------------------------------------
(* The arguments a call runs with: [error, values, benchmark, unit, sources,    *)
(* context], the values being those of the references in order.                 *)

Refused(code) == [error |-> code, values |-> <<>>, benchmark |-> <<>>, unit |-> <<>>,
                  sources |-> {}, context |-> NoContext]

Bound(obs, unit) ==
  [error |-> CompatibilityError(obs), values |-> [i \in DOMAIN obs |-> obs[i].value],
   benchmark |-> <<>>, unit |-> unit, sources |-> Lineage(obs), context |-> ObservationContext(obs)]

Observations(refs, packet) == [i \in DOMAIN refs |-> packet[refs[i][2]]]

ResolveAll(refs, packet) ==
  FirstError([i \in DOMAIN refs |-> ResolveObservation(refs[i][2], packet)])

\* Operands are bound where they stand; without any there is no lineage.
BindCalculate(p, packet) ==
  LET error == ResolveAll(p.refs, packet)
  IN  IF error # NoError THEN Refused(error)
      ELSE IF p.refs = <<>> THEN Refused(NoError)
      ELSE Bound(Observations(p.refs, packet), <<>>)

BindMetrics(p, packet) ==
  LET error == ResolveAll(p.refs, packet)
  IN  IF p.refs = <<>> THEN Refused("invalid_observation_binding")
      ELSE IF error # NoError THEN Refused(error)
      ELSE Bound(Observations(p.refs, packet), <<>>)

BindForecast(p, packet) ==
  LET error == ResolveAll(p.refs, packet)
  IN  IF p.refs = <<>> THEN Refused(NoError)
      ELSE IF error # NoError THEN Refused(error)
      ELSE Bound(Observations(p.refs, packet), UnitLabel(packet[p.refs[1][2]]))

\* The terminal metric goes into the terminal object, which must be there and
\* must not bring a value of its own.  The label is the first input's unit.
TerminalError(p, slot) ==
  IF slot # "terminal_metric_value" THEN NoError
  ELSE IF p.terminal = "none" THEN "invalid_observation_binding"
  ELSE IF p.terminal = "valued" THEN "unbound_numeric_input"
  ELSE NoError

DcfSlots == {"net_debt", "shares_outstanding", "terminal_metric_value"}

BindDcf(p, packet) ==
  LET slots == {p.refs[i][1] : i \in DOMAIN p.refs}
      error == FirstError([i \in DOMAIN p.refs |->
                 FirstError(<<ResolveObservation(p.refs[i][2], packet), TerminalError(p, p.refs[i][1])>>)])
  IN  IF p.refs = <<>> \/ ~(slots \subseteq DcfSlots) THEN Refused("invalid_observation_binding")
      ELSE IF error # NoError THEN Refused(error)
      ELSE IF p.terminal = "valued" THEN Refused("unbound_numeric_input")
      ELSE Bound(Observations(p.refs, packet), UnitLabel(packet[p.refs[1][2]]))

Increasing(obs) == \A i \in 1..(Len(obs) - 1) : obs[i].end < obs[i + 1].end

\* _resolve_observation_series: two prices or more, each positive, of one
\* entity, currency and scale, and in order.
PriceError(ref, packet) ==
  IF ResolveObservation(ref, packet) # NoError THEN ResolveObservation(ref, packet)
  ELSE IF packet[ref].value <= 0 THEN "incompatible_observations"
  ELSE NoError

SeriesError(refs, packet) ==
  LET each == FirstError([i \in DOMAIN refs |-> PriceError(refs[i][2], packet)])
      obs  == Observations(refs, packet)
  IN  IF Len(refs) < 2 THEN "invalid_observation_binding"
      ELSE IF each # NoError THEN each
      ELSE IF ~Compatible(obs) \/ ~Increasing(obs) THEN "incompatible_observations"
      ELSE NoError

\* The benchmark's returns are computed here, as pairs <<current, prior>>.
SimpleReturns(obs) == [i \in 1..(Len(obs) - 1) |-> <<obs[i + 1].value - obs[i].value, obs[i].value>>]

\* The references of one slot, in their order.
Picking(refs, slot) ==
  LET picked[n \in 0..Len(refs)] == IF n = 0 THEN <<>>
                                    ELSE IF refs[n][1] = slot THEN Append(picked[n - 1], refs[n])
                                    ELSE picked[n - 1]
  IN  picked

InSlot(refs, slot) == Picking(refs, slot)[Len(refs)]

Ends(obs) == [i \in DOMAIN obs |-> obs[i].end]

BindMarketStatistics(p, packet) ==
  LET slots     == {p.refs[i][1] : i \in DOMAIN p.refs}
      prices    == InSlot(p.refs, "prices")
      others    == InSlot(p.refs, "benchmark_prices")
      error     == FirstError(<<SeriesError(prices, packet),
                                IF others = <<>> THEN NoError ELSE SeriesError(others, packet)>>)
      primary   == Observations(prices, packet)
      benchmark == Observations(others, packet)
  IN  IF p.refs = <<>> \/ ~(slots \subseteq {"prices", "benchmark_prices"})
        THEN Refused("invalid_observation_binding")
      ELSE IF error # NoError THEN Refused(error)
      ELSE IF others # <<>> /\ Ends(benchmark) # Ends(primary) THEN Refused("incompatible_observations")
      ELSE [Bound(primary, <<>>) EXCEPT
              !.benchmark = IF others = <<>> THEN <<>> ELSE SimpleReturns(benchmark),
              !.sources   = Lineage(primary \o benchmark)]

BindFinanceArguments(p, packet) ==
  IF RejectControllerFields(p) # NoError THEN Refused(RejectControllerFields(p))
  ELSE CASE p.tool = "calculate"            -> BindCalculate(p, packet)
         [] p.tool = "metrics"              -> BindMetrics(p, packet)
         [] p.tool = "forecast_growth"      -> BindForecast(p, packet)
         [] p.tool = "discounted_cash_flow" -> BindDcf(p, packet)
         [] p.tool = "market_statistics"    -> BindMarketStatistics(p, packet)
         [] p.tool = "rank"                 -> Refused("binding_not_supported")

--------------------------------------------------------------------------------
(* _preflight_calls for one proposal.  The other tools run with what the model  *)
(* wrote; a task without a packet has none.                                     *)

ProposalError(p, tools, sources, packet) ==
  IF p.tool \notin tools THEN "tool_not_allowed"
  ELSE IF ~p.strict THEN "invalid_source_ids"
  ELSE IF ~(p.sources \subseteq sources) THEN "source_not_allowed"
  ELSE IF p.tool \in BoundTools /\ packet = <<>> THEN "normalized_evidence_required"
  ELSE NoError

Bind(p, packet) ==
  IF p.tool \in BoundTools THEN BindFinanceArguments(p, packet)
  ELSE [Refused(NoError) EXCEPT !.sources = p.sources]

\* validate_json of the bound arguments: the schema names what the controller fills in too,
\* and nothing else.
FitsSchema(p) ==
  p.shape /\ (p.tool \in BoundTools => Own(p) \subseteq Assumptions(p.tool) \cup ControllerFields(p.tool))

\* The bound arguments are put into a copy of the proposal: its other fields stay there.
Filled(p, bound) ==
  [error |-> NoError, values |-> bound.values, benchmark |-> bound.benchmark, unit |-> bound.unit,
   sources |-> bound.sources, context |-> bound.context, own |-> Own(p)]

Prepare(p, tools, sources, packet) ==
  LET error == ProposalError(p, tools, sources, packet)
      bound == Bind(p, packet)
  IN  IF error # NoError THEN Refused(error)
      ELSE IF bound.error # NoError THEN Refused(bound.error)
      ELSE IF ~(bound.sources \subseteq sources) THEN Refused("source_not_allowed")
      ELSE IF ~FitsSchema(p) THEN Refused("invalid_schema")
      ELSE Filled(p, bound)

\* A batch is prepared in order and refused as a whole at its first error, which
\* may be repaired only when the schema is what it failed.
Preflight(batch, tools, sources, packet) ==
  LET prepared == [i \in DOMAIN batch |-> Prepare(batch[i], tools, sources, packet)]
      error    == FirstError([i \in DOMAIN prepared |-> prepared[i].error])
  IN  [error |-> error, repairable |-> error = "invalid_schema",
       calls |-> IF error = NoError THEN prepared ELSE <<>>]

--------------------------------------------------------------------------------
(* The reference: which proposals may run, told without an order of checks, and *)
(* what the numbers of the ones that run must be.                               *)

Cited(p, slot) == {i \in DOMAIN p.refs : slot \in {"any", p.refs[i][1]}}

\* Any two observations of a series are comparable.
OneSeries(p, slot, packet) ==
  \A i, j \in Cited(p, slot) :
     LET x == packet[p.refs[i][2]]
         y == packet[p.refs[j][2]]
     IN  /\ x.entity = y.entity
         /\ "ratio" \notin {x.kind, y.kind} => x.scale = y.scale
         /\ Monetary(x) /\ Monetary(y) => x.symbol = y.symbol

Dated(p, slot, packet) == {packet[p.refs[i][2]].end : i \in Cited(p, slot)}

\* A price series: two prices or more, all positive, the dates in their order.
PriceSeries(p, slot, packet) ==
  /\ Cardinality(Cited(p, slot)) >= 2
  /\ OneSeries(p, slot, packet)
  /\ \A i \in Cited(p, slot) : packet[p.refs[i][2]].value > 0
  /\ \A i, j \in Cited(p, slot) : i < j => packet[p.refs[i][2]].end < packet[p.refs[j][2]].end

MayBind(p, packet) ==
  LET ids   == {p.refs[i][2] : i \in DOMAIN p.refs}
      slots == {p.refs[i][1] : i \in DOMAIN p.refs}
  IN  /\ ids \subseteq DOMAIN packet
      /\ p.fields \cap ControllerFields(p.tool) = {}
      /\ CASE p.tool = "rank" -> FALSE
           [] p.tool = "market_statistics" ->
                /\ slots \in {{"prices"}, {"prices", "benchmark_prices"}}
                /\ \A s \in slots : PriceSeries(p, s, packet)
                /\ \A s \in slots : Dated(p, s, packet) = Dated(p, "prices", packet)
           [] p.tool = "discounted_cash_flow" ->
                /\ slots # {} /\ slots \subseteq DcfSlots
                /\ p.terminal # "valued"
                /\ "terminal_metric_value" \in slots => p.terminal = "open"
                /\ OneSeries(p, "any", packet)
           [] p.tool = "metrics" -> slots # {} /\ OneSeries(p, "any", packet)
           [] OTHER              -> OneSeries(p, "any", packet)

MayRun(p, tools, sources, packet) ==
  /\ p.tool \in tools /\ p.strict /\ p.shape /\ p.sources \subseteq sources
  /\ p.tool \in BoundTools =>
       /\ packet # <<>> /\ MayBind(p, packet) /\ Own(p) \subseteq Assumptions(p.tool)
       /\ \A i \in DOMAIN p.refs : packet[p.refs[i][2]].sources \subseteq sources

\* Whatever a bound call reads as observed is the number of an observation it cites; it
\* carries the sources of all of them, and its context speaks for every one.
Grounded(p, call, packet) ==
  LET primary == IF p.tool = "market_statistics" THEN "prices" ELSE "any"
      cited   == {packet[p.refs[i][2]] : i \in Cited(p, primary)}
  IN  /\ Range(call.values) = {o.value : o \in cited}
      /\ Len(call.values) = Cardinality(Cited(p, primary))
      /\ call.sources = UNION {packet[p.refs[i][2]].sources : i \in DOMAIN p.refs}
      /\ \A o \in cited :
           /\ o.entity = call.context.entity
           /\ o.end <= call.context.asOf
           /\ Monetary(o) => call.context.unit = UnitLabel(o)
      /\ cited # {} => \E o \in cited : o.end = call.context.asOf

\* The rest of the call is the model's: assumptions its tool leaves to it, and nothing
\* that is bound or injected.
Assumed(p, call) ==
  call.own = Own(p) /\ call.own \subseteq Assumptions(p.tool) \ ControllerFields(p.tool)

\* A batch runs when every call may run, as it was bound, and otherwise no call of it does.
BindingSound(batch, tools, sources, packet) ==
  LET result == Preflight(batch, tools, sources, packet)
  IN  /\ result.error = NoError <=> \A i \in DOMAIN batch : MayRun(batch[i], tools, sources, packet)
      /\ Len(result.calls) = (IF result.error = NoError THEN Len(batch) ELSE 0)
      /\ \A i \in DOMAIN result.calls :
           batch[i].tool \in BoundTools =>
             Grounded(batch[i], result.calls[i], packet) /\ Assumed(batch[i], result.calls[i])
      /\ result.repairable => \E i \in DOMAIN batch : ~FitsSchema(batch[i])
================================================================================
