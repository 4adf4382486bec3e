------------------------------- MODULE LiveRuntime -------------------------------
(***************************************************************************)
(* LiveRuntime.stream (live_runtime.py): collect evidence for the tickers  *)
(* an operator named, plan one analysis per trusted issuer and a           *)
(* validator, analyse, rank all of them, and surface every one of them as  *)
(* a candidate.  A step yields the next draft (or the drafts of one issuer *)
(* that follow each other unconditionally) and has reduce_event project    *)
(* it, as in AutomaticRun; issuers come in the order they were asked for.  *)
(***************************************************************************)
EXTENDS Integers, Sequences, SequencesExt, FiniteSets

CONSTANTS
  Tickers,   \* the requested tickers are 1..Tickers
  Budgets,   \* the values of spec.agent_budget
  Packets    \* what the collector may find for an issuer, see below

Ticker == 1..Tickers

\* A packet is [facts, dark, market]: the observations selected for the issuer,
\* the metrics whose inputs are there but have no value (a zero denominator),
\* and whether the market provider answered.
Facts   == {"revenue", "prior_revenue", "net_income", "operating_cash_flow",
            "capital_expenditures", "market_cap", "share_price"}
Metrics == {"revenue_growth", "net_margin", "free_cash_flow", "free_cash_flow_margin", "price_to_sales"}

ASSUME LiveAssumption ==
  /\ Tickers \in 1..8 /\ Budgets \subseteq 1..8
  /\ \A p \in Packets :
       /\ p.facts \subseteq Facts /\ "revenue" \in p.facts /\ p.dark \subseteq Metrics
       /\ p.market \in {"ok", "failed"}

VARIABLES
  budget,      \* spec.agent_budget
  at,          \* where the generator is suspended
  due,         \* of the loop in progress: who is still to come
  ready,       \* collection.issuers: issuer -> packet
  ranking,     \* ranked_rows: the issuers, best first
  status,      \* RunState.tasks[t].status
  agent,       \* RunState.agents[m].status
  recorded,    \* RunState.evidence
  candidates,  \* RunState.candidates
  client,      \* the owned SecDataClient: "open" or "closed"
  run          \* RunState.status; "refused": failed by reduce_event

projection == <<status, agent, recorded, candidates, run>>
vars == <<budget, at, due, ready, ranking, client, projection>>

Validator == 0
Issuers   == DOMAIN ready
First(S)  == {m \in S : \A k \in S : m <= k}
Running   == run = "running"
Success   == {"complete", "partial"}
Terminal  == Success \cup {"failed", "skipped"}

--------------------------------------------------------------------------------
(* An issuer's analysis (_analyze_one) and what is told of it.                  *)

InputsOf(metric) ==
  CASE metric = "revenue_growth"        -> {"revenue", "prior_revenue"}
    [] metric = "net_margin"            -> {"revenue", "net_income"}
    [] metric = "free_cash_flow"        -> {"operating_cash_flow", "capital_expenditures"}
    [] metric = "free_cash_flow_margin" -> {"revenue", "operating_cash_flow", "capital_expenditures"}
    [] metric = "price_to_sales"        -> {"revenue", "market_cap"}

AnalyzeOne(p) == {k \in Metrics : InputsOf(k) \subseteq p.facts} \ p.dark

\* _analysis_gaps: the free cash flow itself is not among the required metrics.
AnalysisGaps(p) ==
  (Metrics \ (AnalyzeOne(p) \cup {"free_cash_flow"}))
    \cup (IF p.market = "failed" THEN {"yfinance"} ELSE {})

\* Partial when the analysis has gaps.
Verdict(m) == IF AnalysisGaps(ready[m]) = {} THEN "complete" ELSE "partial"

\* Evidence IDs: of the issuer's identity, and of each selected observation.
Identity(m)       == <<m, "identity">>
EvidenceOf(m, ns) == {<<m, name>> : name \in ns}

\* Mutant: an analysis lists the sources of the facts its metrics use only.
SourceIds_Used(m) ==
  EvidenceOf(m, UNION {InputsOf(k) : k \in AnalyzeOne(ready[m])})

SourceIds(m) == EvidenceOf(m, ready[m].facts)

\* _candidate_financials: revenue, each surfaced metric with all its inputs at
\* hand, and the share price; each cites the evidence it rests on.
FinancialSources(m) ==
  LET p     == ready[m]
      shown == {k \in AnalyzeOne(p) \ {"free_cash_flow"} : InputsOf(k) \subseteq p.facts}
  IN  EvidenceOf(m, {"revenue"} \cup (UNION {InputsOf(k) : k \in shown}) \cup (p.facts \cap {"share_price"}))

Bucket(p, rank, count) ==
  IF p.market # "ok" THEN "exposure_unproven"
  ELSE IF rank = 1 THEN "advance"
  ELSE IF rank <= 2 \/ 2 * rank <= count + 1 THEN "valuation_gated"
  ELSE "deprioritized"

Quality(p) ==
  IF AnalysisGaps(p) = {} THEN "complete"
  ELSE IF Cardinality(AnalyzeOne(p)) >= 2 THEN "partial"
  ELSE "limited"

Confidence(p) ==
  LET available == Cardinality(AnalyzeOne(p))
  IN  IF p.market = "ok" /\ available >= 4 THEN "high" ELSE IF available >= 2 THEN "medium" ELSE "low"

CandidatePayload(m, rank) ==
  [rank       |-> rank,
   bucket     |-> Bucket(ready[m], rank, Cardinality(Issuers)),
   confidence |-> Confidence(ready[m]),
   quality    |-> Quality(ready[m]),
   cites      |-> {Identity(m)} \cup SourceIds(m),
   financials |-> FinancialSources(m)]

\* LiveCollection.snapshot: an issuer is missing, or a provider failed for one.
Partial == Issuers # Ticker \/ \E m \in Issuers : ready[m].market = "failed"

--------------------------------------------------------------------------------
(* reduce_event.                                                                *)

DependsOn(t) == IF t = Validator THEN Issuers ELSE {}

\* TASK_STARTED and TASK_COMPLETED; the agent of the validator is the first
\* issuer's, and a task event leaves its agent running.
Publish(t, from, to) ==
  /\ IF status[t] = from /\ (from = "queued" => \A d \in DependsOn(t) : status[d] \in Success)
       THEN /\ status' = [status EXCEPT ![t] = to]
            /\ agent' = [m \in DOMAIN agent |->
                 IF m = t \/ (t = Validator /\ m \in First(Issuers)) THEN "running" ELSE agent[m]]
            /\ UNCHANGED run
       ELSE run' = "refused" /\ UNCHANGED <<status, agent>>
  /\ UNCHANGED <<recorded, candidates>>

\* An event of an agent, which must be registered.
Tell(m, s) ==
  /\ IF m \in DOMAIN agent
       THEN agent' = [agent EXCEPT ![m] = s] /\ UNCHANGED run
       ELSE run' = "refused" /\ UNCHANGED agent
  /\ UNCHANGED <<status, recorded, candidates>>

--------------------------------------------------------------------------------
(* The stages of _stream.                                                       *)

\* An exception leaves the generator: _drive fails the run.
Raise(c) ==
  /\ at' = "done" /\ client' = c /\ run' = "failed"
  /\ UNCHANGED <<due, ready, ranking, status, agent, recorded, candidates>>

\* The spec is checked before the try that closes the client.
Reject == Running /\ at = "start" /\ Tickers > budget /\ Raise(client)

\* The universe stage, and the start of the evidence stage.
Open ==
  /\ Running /\ at = "start" /\ Tickers <= budget
  /\ at' = "collect"
  /\ UNCHANGED <<due, ready, ranking, client, projection>>

\* collector.collect raises, or no issuer has a trusted packet.
CollectionFails == Running /\ at = "collect" /\ Raise("closed")

Collect ==
  /\ Running /\ at = "collect"
  /\ \E S \in SUBSET Ticker \ {{}} : ready' \in [S -> Packets]
  /\ at' = "plan"
  /\ UNCHANGED <<due, ranking, client, projection>>

\* WORKFLOW_PLANNED with the tasks of _planned_tasks.
Plan ==
  /\ Running /\ at = "plan"
  /\ IF DOMAIN status = {} THEN status' = [t \in Issuers \cup {Validator} |-> "queued"] /\ UNCHANGED run
                            ELSE run' = "refused" /\ UNCHANGED status
  /\ due' = Issuers
  /\ at' = "register"
  /\ UNCHANGED <<ready, ranking, client, agent, recorded, candidates>>

\* AGENT_REGISTERED and AGENT_STARTED, and the identity and packet records.
Register ==
  /\ Running /\ at = "register" /\ due # {}
  /\ \E m \in First(due) :
       /\ IF m \in DOMAIN agent
            THEN run' = "refused" /\ UNCHANGED <<agent, recorded>>
            ELSE /\ agent' = [k \in DOMAIN agent \cup {m} |-> IF k = m THEN "running" ELSE agent[k]]
                 /\ recorded' = recorded \cup {Identity(m)} \cup SourceIds(m)
                 /\ UNCHANGED run
       /\ due' = due \ {m}
  /\ UNCHANGED <<at, ready, ranking, client, status, candidates>>

\* The analysis stage starts: for each issuer its task, then its tool.
EndRegister ==
  /\ Running /\ at = "register" /\ due = {}
  /\ due' = Issuers /\ at' = "start_task"
  /\ UNCHANGED <<ready, ranking, client, projection>>

StartTask ==
  /\ Running /\ at = "start_task" /\ due # {}
  /\ \E m \in First(due) : Publish(m, "queued", "running")
  /\ at' = "start_tool"
  /\ UNCHANGED <<due, ready, ranking, client>>

\* TOOL_STARTED names no task: only the agent waits.
StartTool ==
  /\ Running /\ at = "start_tool"
  /\ \E m \in First(due) : Tell(m, "waiting_tool") /\ due' = due \ {m}
  /\ at' = "start_task"
  /\ UNCHANGED <<ready, ranking, client>>

\* _analyze_issuers, see LaneWork: one analysis that raises fails the run.
AnalysisFails == Running /\ at = "start_task" /\ due = {} /\ Raise("closed")

Analyze ==
  /\ Running /\ at = "start_task" /\ due = {}
  /\ due' = Issuers /\ at' = "tool_done"
  /\ UNCHANGED <<ready, ranking, client, projection>>

ToolCompletes ==
  /\ Running /\ at = "tool_done" /\ due # {}
  /\ \E m \in First(due) : Tell(m, "running")
  /\ at' = "task_done"
  /\ UNCHANGED <<due, ready, ranking, client>>

CompleteTask ==
  /\ Running /\ at = "task_done"
  /\ \E m \in First(due) :
       /\ Publish(m, "running", Verdict(m))
       /\ due' = due \ {m}
  /\ at' = "tool_done"
  /\ UNCHANGED <<ready, ranking, client>>

\* RUN_SYNTHESIZING, the synthesis stage and the validator's start.
StartValidator ==
  /\ Running /\ at = "tool_done" /\ due = {}
  /\ Publish(Validator, "queued", "running")
  /\ at' = "rank"
  /\ UNCHANGED <<due, ready, ranking, client>>

\* Mutant: a market provider that failed leaves the ranking complete.
RankAnalyses_Complete ==
  /\ Running /\ at = "rank"
  /\ ranking' \in SetToSeqs(Issuers)
  /\ Publish(Validator, "running", IF Issuers # Ticker THEN "partial" ELSE "complete")
  /\ due' = 1..Cardinality(Issuers) /\ at' = "surface"
  /\ UNCHANGED <<ready, client>>

\* _rank_analyses keeps every issuer (missing metrics rank worst); the order is
\* up to the data.  The validator completes, partial if the collection is.
RankAnalyses ==
  /\ Running /\ at = "rank"
  /\ ranking' \in SetToSeqs(Issuers)
  /\ Publish(Validator, "running", IF Partial THEN "partial" ELSE "complete")
  /\ due' = 1..Cardinality(Issuers) /\ at' = "surface"
  /\ UNCHANGED <<ready, client>>

\* CANDIDATE_UPDATED by rank; Candidate refuses a financial whose source is not
\* among its evidence.
Surface ==
  /\ Running /\ at = "surface" /\ due # {}
  /\ \E r \in First(due) :
       LET c == CandidatePayload(ranking[r], r)
       IN  /\ IF c.financials \subseteq c.cites
                THEN /\ candidates' = [m \in DOMAIN candidates \cup {ranking[r]} |->
                                         IF m = ranking[r] THEN c ELSE candidates[m]]
                     /\ UNCHANGED run
                ELSE run' = "refused" /\ UNCHANGED candidates
           /\ due' = due \ {r}
  /\ UNCHANGED <<at, ready, ranking, client, status, agent, recorded>>

EndSurface ==
  /\ Running /\ at = "surface" /\ due = {}
  /\ due' = Issuers /\ at' = "retire"
  /\ UNCHANGED <<ready, ranking, client, projection>>

Retire ==
  /\ Running /\ at = "retire" /\ due # {}
  /\ \E m \in First(due) : Tell(m, "complete") /\ due' = due \ {m}
  /\ UNCHANGED <<at, ready, ranking, client>>

\* WORKFLOW_COMPLETED, which refuses tasks that are not over.
CompleteWorkflow ==
  /\ Running /\ at = "retire" /\ due = {}
  /\ run' = IF \A t \in DOMAIN status : status[t] \in Terminal THEN "running" ELSE "refused"
  /\ at' = "end"
  /\ UNCHANGED <<due, ready, ranking, client, status, agent, recorded, candidates>>

\* The finally of stream(), then RUN_COMPLETED.
Finish ==
  /\ Running /\ at = "end"
  /\ at' = "done" /\ client' = "closed" /\ run' = "complete"
  /\ UNCHANGED <<due, ready, ranking, status, agent, recorded, candidates>>

\* The operator cancels: an await raises in the generator, or the generator
\* stays suspended at its yield until it is finalised.
Cancel ==
  /\ Running
  /\ run' = "cancelled"
  /\ \/ /\ at \in {"collect", "start_task"} /\ (at = "start_task" => due = {})
        /\ at' = "done" /\ client' = "closed"
     \/ UNCHANGED <<at, client>>
  /\ UNCHANGED <<due, ready, ranking, status, agent, recorded, candidates>>

\* Mutant: the hook drops the generator without closing it.
Finalise_Dropped ==
  /\ ~Running /\ at # "done"
  /\ at' = "done"
  /\ UNCHANGED <<client, due, ready, ranking, projection>>

\* The event loop's hook closes an abandoned generator.
Finalise ==
  /\ ~Running /\ at # "done"
  /\ at' = "done" /\ client' = IF at = "start" THEN client ELSE "closed"
  /\ UNCHANGED <<due, ready, ranking, projection>>

--------------------------------------------------------------------------------

Init ==
  /\ budget \in Budgets
  /\ at = "start" /\ due = {}
  /\ ready = <<>> /\ ranking = <<>>
  /\ status = <<>> /\ agent = <<>> /\ recorded = {} /\ candidates = <<>>
  /\ client = "open" /\ run = "running"

Stage ==
  \/ Reject \/ Open \/ CollectionFails \/ Collect \/ Plan \/ Register \/ EndRegister
  \/ StartTask \/ StartTool \/ AnalysisFails \/ Analyze \/ ToolCompletes \/ CompleteTask
  \/ StartValidator \/ RankAnalyses \/ Surface \/ EndSurface \/ Retire \/ CompleteWorkflow \/ Finish

Next == (Stage \/ Cancel \/ Finalise) /\ UNCHANGED budget

Spec == Init /\ [][Next]_vars

\* The generator is resumed after every draft, what it awaits returns or times
\* out, and an abandoned generator is finalised; nobody owes a cancel.
FairSpec == Spec /\ WF_vars(Stage /\ UNCHANGED budget) /\ WF_vars(Finalise /\ UNCHANGED budget)

--------------------------------------------------------------------------------
(* Properties.                                                                  *)

\* No draft of a live run is refused by reduce_event: every task starts and
\* completes once, after what it depends on, every agent that is told of is
\* registered, and every candidate's figures cite evidence of that candidate.
LiveDraftsAccepted == run # "refused"

\* A live run that completes has settled everything it planned, has exactly one
\* candidate per issuer, at most one of them advanced and none without market
\* data, cites only evidence that was recorded, and hides nothing: a gap makes
\* the task partial and the data quality less than complete, and a missing
\* issuer or provider makes the ranking partial.
Accounted ==
  /\ \A m \in Issuers :
       /\ status[m] = (IF AnalysisGaps(ready[m]) = {} THEN "complete" ELSE "partial")
       /\ agent[m] = "complete"
       /\ candidates[m].cites \subseteq recorded
       /\ candidates[m].quality = "complete" =>
            ready[m].market = "ok" /\ Metrics \ {"free_cash_flow"} \subseteq AnalyzeOne(ready[m])
       /\ ready[m].market = "failed" =>
            candidates[m].bucket # "advance" /\ candidates[m].confidence # "high"
  /\ DOMAIN candidates = Issuers
  /\ {candidates[m].rank : m \in Issuers} = 1..Cardinality(Issuers)
  /\ Cardinality({m \in Issuers : candidates[m].bucket = "advance"}) <= 1
  /\ status[Validator] = "complete" =>
       Issuers = Ticker /\ \A m \in Ticker : ready[m].market = "ok"

LiveRunHonest == run = "complete" => Accounted

\* Every live run comes to an end, whatever fails or is cancelled on the way,
\* and once its first stage has begun its SEC client ends closed.
LiveEnds ==
  /\ <>(run # "running") /\ <>(at = "done")
  /\ [](at = "collect" => <>(client = "closed"))

--------------------------------------------------------------------------------
(* The inductive invariant: what the place of the generator says of the tasks,  *)
(* the agents, the evidence and the candidates.                                 *)

Place == {"start", "collect", "plan", "register", "start_task", "start_tool", "tool_done", "task_done",
          "rank", "surface", "retire", "end", "done"}

TypeOK ==
  /\ budget \in Budgets
  /\ at \in Place
  /\ due \subseteq Ticker
  /\ Issuers \subseteq Ticker /\ ready \in [Issuers -> Packets]
  /\ DOMAIN ranking \subseteq Ticker /\ ranking \in [DOMAIN ranking -> Issuers]
  /\ DOMAIN status \subseteq Issuers \cup {Validator}
  /\ status \in [DOMAIN status -> {"queued", "running"} \cup Success]
  /\ DOMAIN agent \subseteq Issuers
  /\ agent \in [DOMAIN agent -> {"running", "waiting_tool", "complete"}]
  /\ recorded \subseteq Ticker \X (Facts \cup {"identity"})
  /\ DOMAIN candidates \subseteq Issuers
  /\ \A m \in DOMAIN candidates : \E r \in Ticker : candidates[m] = CandidatePayload(m, r)
  /\ client \in {"open", "closed"}
  /\ run \in {"running", "complete", "failed", "cancelled", "refused"}

Planned == at \notin {"start", "collect", "plan", "done"}
Ranked  == at \in {"surface", "retire", "end"}

\* What the task of an issuer reads, and that of the validator.
StatusOf(m) ==
  CASE at = "register"                 -> "queued"
    [] at = "start_task"               -> IF m \in due THEN "queued" ELSE "running"
    [] at = "start_tool"               -> IF m \in due \ First(due) THEN "queued" ELSE "running"
    [] at \in {"tool_done", "task_done"} -> IF m \in due THEN "running" ELSE Verdict(m)
    [] OTHER                           -> Verdict(m)

StatusOfValidator ==
  IF Ranked THEN IF Partial THEN "partial" ELSE "complete"
            ELSE IF at = "rank" THEN "running" ELSE "queued"

Tasks ==
  /\ DOMAIN status = IF Planned THEN Issuers \cup {Validator} ELSE {}
  /\ Planned => status[Validator] = StatusOfValidator /\ \A m \in Issuers : status[m] = StatusOf(m)

\* Who is registered has its evidence recorded; who is retired has done its part.
Agents ==
  /\ at \in {"register", "start_task", "start_tool", "tool_done", "task_done", "retire"} => due \subseteq Issuers
  /\ DOMAIN agent = IF Planned THEN IF at = "register" THEN Issuers \ due ELSE Issuers ELSE {}
  /\ \A m \in DOMAIN agent : {Identity(m)} \cup SourceIds(m) \subseteq recorded
  /\ at = "retire" => \A m \in Issuers \ due : agent[m] = "complete"
  /\ at = "end" => \A m \in Issuers : agent[m] = "complete"

\* The ranks surfaced so far, each by the issuer that holds it.
Passed == IF at = "surface" THEN DOMAIN ranking \ due ELSE IF Ranked THEN DOMAIN ranking ELSE {}

Surfaced ==
  /\ Ranked => ranking \in SetToSeqs(Issuers)
  /\ at = "surface" => due \subseteq DOMAIN ranking
  /\ DOMAIN candidates = {ranking[r] : r \in Passed}
  /\ \A r \in Passed : candidates[ranking[r]].rank = r

Consistent ==
  /\ Running => at # "done" /\ Tasks /\ Agents /\ Surfaced
  /\ Running /\ at \in {"start", "collect"} => Issuers = {}
  /\ LiveDraftsAccepted
  /\ LiveRunHonest
================================================================================
