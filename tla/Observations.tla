------------------------------ MODULE Observations -----------------------------
(***************************************************************************)
(* From provider payloads to observations: map_sec_company_facts           *)
(* (data/sec_mapping.py), map_yfinance_history (data/yfinance_mapping.py)  *)
(* and the batch they return (data/observations.py).                       *)
(*                                                                         *)
(* A SEC fact is [concept, unit, form, accession, filed, start, end, val,  *)
(* digest]; dates are numbers, start 0 is an instant, a field that is not  *)
(* usable is "bad" or 0.  digest stands for the content hash, from which   *)
(* the evidence ID is built: two facts share one only if they are equal.   *)
(***************************************************************************)
EXTENDS Integers, Sequences, SequencesExt, FiniteSetsExt

\* _CONCEPT_RULES: two concepts of one metric, two of a metric that is an
\* amount paid, and one of another unit stand for the table.
ConceptRule ==
  [SalesRevenueNet |-> [name |-> "revenue", kind |-> "currency", priority |-> 1, absolute |-> FALSE],
   Revenues        |-> [name |-> "revenue", kind |-> "currency", priority |-> 2, absolute |-> FALSE],
   PaymentsOfDividends |->
     [name |-> "dividends_paid", kind |-> "currency", priority |-> 0, absolute |-> TRUE],
   PaymentsOfDividendsCommonStock |->
     [name |-> "dividends_paid", kind |-> "currency", priority |-> 1, absolute |-> TRUE],
   EarningsPerShareDiluted |->
     [name |-> "earnings_per_share", kind |-> "currency_per_share", priority |-> 0, absolute |-> FALSE]]

\* _unit
UnitKind(u) == CASE u = "USD" -> "currency" [] u = "USD/shares" -> "currency_per_share"
                 [] u = "shares" -> "shares" [] u = "pure" -> "ratio" [] OTHER -> "none"

AllowedForms == {"10-K", "10-Q", "10-K/A", "10-Q/A"}

\* The issue a fact of a known concept raises; "skip" is a form nobody asked for.
FactIssue(f) ==
  CASE UnitKind(f.unit) # ConceptRule[f.concept].kind -> "unsupported_unit"
    [] f.form = "none"                                -> "missing_form"
    [] f.form \notin AllowedForms                     -> "skip"
    [] f.accession = "none"                           -> "missing_accession"
    [] f.filed = 0 \/ f.end = 0 \/ f.start > f.end    -> "invalid_fact"
    [] OTHER                                          -> "none"

Known(f) == f.concept \in DOMAIN ConceptRule

\* _candidate_key and _candidate_rank: the latest filing, then the preferred
\* concept, then the evidence ID.
KeyOf(f) == <<ConceptRule[f.concept].name, f.unit, f.start, f.end>>
\* Mutant: the preferred concept goes before the latest filing.
Outranks_Concept(f, g) ==
  \/ ConceptRule[f.concept].priority < ConceptRule[g.concept].priority
  \/ ConceptRule[f.concept].priority = ConceptRule[g.concept].priority
       /\ (f.filed > g.filed \/ (f.filed = g.filed /\ f.digest > g.digest))
Outranks(f, g) ==
  \/ f.filed > g.filed
  \/ f.filed = g.filed /\ ConceptRule[f.concept].priority < ConceptRule[g.concept].priority
  \/ f.filed = g.filed /\ ConceptRule[f.concept].priority = ConceptRule[g.concept].priority
       /\ f.digest > g.digest

Abs(n) == IF n < 0 THEN -n ELSE n
Observation(f) ==
  [name |-> ConceptRule[f.concept].name, unit |-> f.unit, start |-> f.start, end |-> f.end,
   value |-> IF ConceptRule[f.concept].absolute THEN Abs(f.val) ELSE f.val, evidence |-> f.digest]

Usable(f) == Known(f) /\ FactIssue(f) = "none"

\* One more fact: it takes the place of the one of its key if it outranks that.
Consider(selected, f) ==
  LET rivals == {g \in selected : KeyOf(g) = KeyOf(f)}
  IN  IF ~Usable(f) \/ (\E g \in rivals : ~Outranks(f, g)) THEN selected
      ELSE (selected \ rivals) \cup {f}

\* The facts that are selected before the first and after each.
Selecting(facts) ==
  LET selected[n \in 0..Len(facts)] == IF n = 0 THEN {} ELSE Consider(selected[n - 1], facts[n])
  IN  selected

MapSecFacts(facts) == {Observation(f) : f \in Selecting(facts)[Len(facts)]}

\* The issues before the first fact and after each.
Raising(facts) ==
  LET raised[n \in 0..Len(facts)] ==
        IF n = 0 THEN <<>>
        ELSE IF ~Known(facts[n]) \/ FactIssue(facts[n]) \in {"none", "skip"} THEN raised[n - 1]
        ELSE Append(raised[n - 1], FactIssue(facts[n]))
  IN  raised

SecIssues(facts) == Raising(facts)[Len(facts)]

\* bounded_issues
BoundedIssues(issues, maximum) ==
  IF Len(issues) <= maximum THEN issues
  ELSE Append(SubSeq(issues, 1, maximum - 1), "issues_truncated")

\* ObservationBatch.__post_init__: the evidence of an observation is in the batch.
BatchAdmitted(observations, evidence) ==
  /\ {o.evidence : o \in observations} \subseteq evidence
  /\ \A o, q \in observations : o # q => o.evidence # q.evidence

--------------------------------------------------------------------------------
(* map_yfinance_history: rows [at, field, val], one field of a row at a time.   *)

Prices        == {"open", "high", "low", "close", "adjclose"}
EventOnly     == {"dividends", "stocksplits", "capitalgains"}
HistoryFields == Prices \cup EventOnly \cup {"volume"}

\* A day without the event: skipped before its value is looked at.
NoEvent(r) == r.field \in EventOnly /\ r.val = 0

\* Mutant: capital gains are kept whatever their sign.
HistoryIssue_AnyGain(r) ==
  CASE r.at = 0                                                      -> "invalid_timestamp"
    [] r.field \in Prices /\ r.val <= 0                              -> "invalid_value"
    [] r.field \in {"volume", "dividends", "stocksplits"} /\ r.val < 0 -> "invalid_value"
    [] OTHER                                                         -> "none"

HistoryIssue(r) ==
  CASE r.at = 0                                                      -> "invalid_timestamp"
    [] r.field \in Prices /\ r.val <= 0                              -> "invalid_value"
    [] r.field \in EventOnly \cup {"volume"} /\ r.val < 0             -> "invalid_value"
    [] OTHER                                                         -> "none"

Valued(r)  == HistoryIssue(r) = "none" /\ ~NoEvent(r)

\* The values that are kept before the first row and after each: a usable one takes
\* the place of what its field had at its time.
Keeping(rows) ==
  LET kept[n \in 0..Len(rows)] ==
        IF n = 0 THEN {}
        ELSE IF ~Valued(rows[n]) THEN kept[n - 1]
        ELSE {q \in kept[n - 1] : <<q.field, q.at>> # <<rows[n].field, rows[n].at>>} \cup {rows[n]}
  IN  kept

MapHistory(rows) == Keeping(rows)[Len(rows)]

--------------------------------------------------------------------------------
(* Reference definitions.                                                       *)

\* Whatever order the payload lists its facts in, the same observations come out:
\* one for each metric, unit and exact period, with the value of the latest filing
\* and, within it, of the preferred concept; all evidence resolves, and what is
\* left out is a rival, a form nobody asked for or a counted issue.
SecFactsSound(facts) ==
  LET observed == MapSecFacts(facts)
      usable   == {f \in ToSet(facts) : Usable(f)}
  IN  /\ MapSecFacts(Reverse(facts)) = observed
      /\ \A f \in usable : Cardinality({o \in observed : <<o.name, o.unit, o.start, o.end>> = KeyOf(f)}) = 1
      /\ \A o \in observed : \E f \in usable :
           /\ Observation(f) = o
           /\ \A g \in usable : KeyOf(g) = KeyOf(f) =>
                g.filed <= f.filed /\ (g.filed = f.filed =>
                  ConceptRule[f.concept].priority <= ConceptRule[g.concept].priority)
      /\ BatchAdmitted(observed, {f.digest : f \in usable})
      /\ Len(BoundedIssues(SecIssues(facts), 2)) <= 2

\* What a history may show of a field: something dated, never less than nothing, and
\* nothing only as a volume.
Reportable(r) == r.at > 0 /\ (r.val > 0 \/ (r.val = 0 /\ r.field = "volume"))

\* Of several values of one field and time the last reportable one stays, and nothing else.
HistorySound(rows) ==
  MapHistory(rows) =
    {rows[i] : i \in {j \in DOMAIN rows :
       /\ Reportable(rows[j])
       /\ \A k \in (j + 1)..Len(rows) :
            <<rows[k].field, rows[k].at>> = <<rows[j].field, rows[j].at>> => ~Reportable(rows[k])}}
================================================================================
