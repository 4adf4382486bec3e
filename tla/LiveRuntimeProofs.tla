---------------------------- MODULE LiveRuntimeProofs ----------------------------
(***************************************************************************)
(* LiveRuntime, for every number of tickers, every set of budgets and      *)
(* whatever the collector finds: the place of the generator determines     *)
(* what every task, agent and candidate reads (Consistent), and from it    *)
(* follow that reduce_event takes every draft and that a completed run has *)
(* accounted for every issuer and hidden no gap.                           *)
(*                                                                         *)
(* Then LaneWork, the loops that spread such analyses over slots and       *)
(* lanes, for every number of jobs, lanes and slots: the jobs inside a     *)
(* loop and the entries of its lines are the same (Queued), so that only   *)
(* the holder of a lane comes to a slot, and a line that nothing moves is  *)
(* one whose head works.                                                   *)
(***************************************************************************)
EXTENDS LiveRuntime, LaneWork, FiniteSetTheorems, FunctionTheorems, SequenceTheorems,
        WellFoundedInduction, TLAPS

USE DEF Running, Success, Terminal, Validator, Planned, Ranked

--------------------------------------------------------------------------------
(* The issuers and their packets.                                          *)

LEMMA Tickersize == Tickers \in Nat /\ IsFiniteSet(Ticker) /\ Validator \notin Ticker /\ Ticker \subseteq Nat
<1>1. Tickers \in Nat
  BY LiveAssumption
<1>2. IsFiniteSet(Ticker)
  BY <1>1, FS_Interval DEF Ticker
<1> QED
  BY <1>1, <1>2 DEF Ticker

LEMMA Sizes ==
  ASSUME TypeOK
  PROVE  /\ IsFiniteSet(Issuers) /\ Cardinality(Issuers) \in Nat /\ Cardinality(Issuers) <= Tickers
         /\ Issuers \subseteq Nat /\ Validator \notin Issuers
<1>1. Cardinality(Ticker) = Tickers
  BY Tickersize, FS_Interval DEF Ticker
<1> QED
  BY <1>1, Tickersize, FS_Subset, FS_CardinalityType DEF TypeOK

\* There is one first element at most.
LEMMA FirstUnique ==
  ASSUME NEW S \in SUBSET Int, NEW m \in First(S), NEW k \in First(S)
  PROVE  m = k
  BY DEF First

\* What is said of an issuer depends on its packet, and on nothing that changes.
LEMMA SameIssuers ==
  ASSUME ready' = ready
  PROVE  /\ Issuers' = Issuers
         /\ \A m : SourceIds(m)' = SourceIds(m) /\ Verdict(m)' = Verdict(m)
         /\ \A m, r : CandidatePayload(m, r)' = CandidatePayload(m, r)
         /\ Partial' = Partial
  BY DEF Issuers, SourceIds, Verdict, CandidatePayload, FinancialSources, Partial

LEMMA PayloadRank ==
  ASSUME NEW m, NEW r
  PROVE  /\ CandidatePayload(m, r).rank = r
         /\ CandidatePayload(m, r).cites = {Identity(m)} \cup SourceIds(m)
         /\ CandidatePayload(m, r).financials = FinancialSources(m)
         /\ CandidatePayload(m, r).bucket = Bucket(ready[m], r, Cardinality(Issuers))
         /\ CandidatePayload(m, r).quality = Quality(ready[m])
         /\ CandidatePayload(m, r).confidence = Confidence(ready[m])
  BY DEF CandidatePayload

\* The figures of a candidate rest on the observations selected for it.
LEMMA FiguresCited ==
  ASSUME TypeOK, NEW m \in Issuers
  PROVE  /\ FinancialSources(m) \subseteq SourceIds(m)
         /\ {Identity(m)} \cup SourceIds(m) \subseteq Ticker \X (Facts \cup {"identity"})
<1>1. ready[m] \in Packets /\ m \in Ticker
  BY DEF TypeOK
<1>2. ready[m].facts \subseteq Facts /\ "revenue" \in ready[m].facts
  BY <1>1, LiveAssumption
<1> DEFINE p     == ready[m]
           shown == {k \in AnalyzeOne(p) \ {"free_cash_flow"} : InputsOf(k) \subseteq p.facts}
           used  == {"revenue"} \cup (UNION {InputsOf(k) : k \in shown}) \cup (p.facts \cap {"share_price"})
<1>3. used \subseteq p.facts
  BY <1>2
<1>4. FinancialSources(m) = EvidenceOf(m, used)
  BY DEF FinancialSources
<1>5. FinancialSources(m) \subseteq SourceIds(m)
  <2> HIDE DEF used
  <2> QED
    BY <1>3, <1>4 DEF SourceIds, EvidenceOf
<1>6. {Identity(m)} \cup SourceIds(m) \subseteq Ticker \X (Facts \cup {"identity"})
  <2> HIDE DEF used
  <2> QED
    BY <1>1, <1>2 DEF SourceIds, EvidenceOf, Identity
<1> QED
  BY <1>5, <1>6

\* A ranking of all the issuers ranks every one of them, and each once.
LEMMA RankingOnto ==
  ASSUME TypeOK, ranking \in SetToSeqs(Issuers)
  PROVE  /\ DOMAIN ranking = 1..Cardinality(Issuers)
         /\ Issuers = {ranking[r] : r \in DOMAIN ranking}
         /\ \A r, q \in DOMAIN ranking : ranking[r] = ranking[q] => r = q
<1> DEFINE n == Cardinality(Issuers)
<1>1. n \in Nat /\ IsFiniteSet(Issuers)
  BY Sizes
<1>2. ranking \in [1..n -> Issuers] /\ \A r, q \in 1..n : r # q => ranking[r] # ranking[q]
  BY DEF SetToSeqs
<1>3. ranking \in Injection(1..n, Issuers)
  BY <1>2, Fun_IsInj
<1>4. Cardinality(1..n) = n
  <2> HIDE DEF n
  <2> QED
    BY <1>1, FS_Interval
<1>5. ranking \in Surjection(1..n, Issuers)
  BY <1>1, <1>3, <1>4, FS_Injection
<1>6. \A m \in Issuers : \E r \in 1..n : ranking[r] = m
  <2> HIDE DEF n
  <2> QED
    BY <1>5 DEF Surjection
<1>7. DOMAIN ranking = 1..n
  BY <1>2
<1>8. Issuers = {ranking[r] : r \in DOMAIN ranking}
  <2> HIDE DEF n
  <2> QED
    BY <1>2, <1>6, <1>7
<1> QED
  BY <1>2, <1>7, <1>8

--------------------------------------------------------------------------------
(* The steps of a run that goes on.                                        *)

Going ==
  /\ at # "done" /\ Tasks /\ Agents /\ Surfaced
  /\ at \in {"start", "collect"} => Issuers = {}

Goes == TypeOK' /\ Going' /\ run' = run

\* A draft about a task in the right status moves that task.
LEMMA Published ==
  ASSUME TypeOK, Tasks, Planned, NEW t \in Issuers \cup {Validator},
         NEW from \in {"queued", "running"}, NEW to \in {"running", "complete", "partial"},
         status[t] = from, from = "queued" => \A d \in DependsOn(t) : status[d] \in Success,
         Publish(t, from, to)
  PROVE  /\ DOMAIN status' = DOMAIN status
         /\ status'[t] = to /\ \A u \in DOMAIN status : u # t => status'[u] = status[u]
         /\ status' \in [DOMAIN status -> {"queued", "running"} \cup Success]
         /\ DOMAIN agent' = DOMAIN agent
         /\ agent' \in [DOMAIN agent -> {"running", "waiting_tool", "complete"}]
         /\ UNCHANGED <<run, recorded, candidates>>
<1>1. status' = [status EXCEPT ![t] = to] /\ UNCHANGED <<run, recorded, candidates>>
      /\ agent' = [m \in DOMAIN agent |->
                    IF m = t \/ (t = Validator /\ m \in First(Issuers)) THEN "running" ELSE agent[m]]
  BY DEF Publish
<1>2. DOMAIN status = Issuers \cup {Validator}
  BY DEF Tasks
<1>3. /\ status \in [DOMAIN status -> {"queued", "running"} \cup Success]
      /\ agent \in [DOMAIN agent -> {"running", "waiting_tool", "complete"}]
  BY DEF TypeOK
<1> QED
  BY <1>1, <1>2, <1>3

\* Who is told of is registered.
LEMMA Told ==
  ASSUME TypeOK, Agents, Planned, at # "register", NEW m \in Issuers,
         NEW s \in {"running", "waiting_tool", "complete"}, Tell(m, s)
  PROVE  /\ DOMAIN agent' = DOMAIN agent
         /\ agent'[m] = s /\ \A k \in DOMAIN agent : k # m => agent'[k] = agent[k]
         /\ agent' \in [DOMAIN agent -> {"running", "waiting_tool", "complete"}]
         /\ UNCHANGED <<run, status, recorded, candidates>>
<1>1. DOMAIN agent = Issuers /\ agent \in [DOMAIN agent -> {"running", "waiting_tool", "complete"}]
  BY DEF Agents, TypeOK
<1>2. agent' = [agent EXCEPT ![m] = s] /\ UNCHANGED <<run, status, recorded, candidates>>
  BY <1>1 DEF Tell
<1> QED
  BY <1>1, <1>2

\* A step that surfaces nothing.
LEMMA NothingSurfaced ==
  ASSUME Surfaced, ~Ranked, ~Ranked', UNCHANGED candidates
  PROVE  Surfaced'
  BY DEF Surfaced, Passed

\* The types that a step of the stages does not touch.
LEMMA KeepsTypes ==
  ASSUME TypeOK, UNCHANGED <<budget, ready, ranking, candidates, client>>,
         at' \in Place, due' \subseteq Ticker,
         status' \in [DOMAIN status' -> {"queued", "running"} \cup Success],
         DOMAIN status' \subseteq Issuers \cup {Validator},
         agent' \in [DOMAIN agent' -> {"running", "waiting_tool", "complete"}], DOMAIN agent' \subseteq Issuers,
         recorded' \subseteq Ticker \X (Facts \cup {"identity"}),
         run' \in {"running", "complete", "failed", "cancelled", "refused"}
  PROVE  TypeOK'
  BY SameIssuers DEF TypeOK

LEMMA OpenStep ==
  ASSUME TypeOK, Running, Going, Open, budget' = budget
  PROVE  Goes
<1> USE DEF Open, projection
<1>1. TypeOK'
  BY KeepsTypes DEF TypeOK, Place
<1>2. Tasks' /\ Agents'
  BY SameIssuers DEF Going, Tasks, Agents
<1>3. Surfaced'
  BY NothingSurfaced DEF Going
<1> QED
  BY <1>1, <1>2, <1>3, SameIssuers DEF Going, Goes

LEMMA CollectStep ==
  ASSUME TypeOK, Running, Going, Collect, budget' = budget
  PROVE  Goes
<1> USE DEF Collect, projection
<1>1. PICK S \in SUBSET Ticker : ready' \in [S -> Packets]
  OBVIOUS
<1>2. Issuers' \subseteq Ticker /\ ready' \in [Issuers' -> Packets] /\ Issuers = {}
  BY <1>1 DEF Issuers, Going
<1>3. DOMAIN status = {} /\ DOMAIN agent = {} /\ DOMAIN candidates = {} /\ DOMAIN ranking = {}
  BY <1>2 DEF Going, Tasks, Agents, Surfaced, Passed, TypeOK
<1>4. TypeOK'
  BY <1>2, <1>3 DEF TypeOK, Place
<1>5. Tasks' /\ Agents'
  BY <1>3 DEF Tasks, Agents
<1>6. Surfaced'
  BY NothingSurfaced DEF Going
<1> QED
  BY <1>4, <1>5, <1>6 DEF Going, Goes

LEMMA PlanStep ==
  ASSUME TypeOK, Running, Going, Plan, budget' = budget
  PROVE  Goes
<1> USE DEF Plan
<1>1. DOMAIN status = {} /\ DOMAIN agent = {}
  BY DEF Going, Tasks, Agents
<1>2. status' = [t \in Issuers \cup {Validator} |-> "queued"] /\ run' = run
  BY <1>1
<1>3. Issuers' = Issuers
  BY SameIssuers
<1>4. TypeOK'
  BY <1>2, KeepsTypes DEF TypeOK, Place
<1>5. Tasks' /\ Agents'
  BY <1>1, <1>2, <1>3, Sizes DEF Tasks, Agents, StatusOf, StatusOfValidator
<1>6. Surfaced'
  BY NothingSurfaced DEF Going
<1> QED
  BY <1>2, <1>4, <1>5, <1>6 DEF Going, Goes

LEMMA RegisterStep ==
  ASSUME TypeOK, Running, Going, Register, budget' = budget
  PROVE  Goes
<1> USE DEF Register
<1>1. PICK m \in First(due) :
        /\ IF m \in DOMAIN agent
             THEN run' = "refused" /\ UNCHANGED <<agent, recorded>>
             ELSE /\ agent' = [k \in DOMAIN agent \cup {m} |-> IF k = m THEN "running" ELSE agent[k]]
                  /\ recorded' = recorded \cup {Identity(m)} \cup SourceIds(m)
                  /\ UNCHANGED run
        /\ due' = due \ {m}
  OBVIOUS
<1>2. m \in Issuers /\ m \in due /\ due \subseteq Issuers /\ DOMAIN agent = Issuers \ due
  BY DEF Going, Agents, First
<1>3. /\ agent' = [k \in DOMAIN agent \cup {m} |-> IF k = m THEN "running" ELSE agent[k]]
      /\ recorded' = recorded \cup {Identity(m)} \cup SourceIds(m)
      /\ run' = run
  BY <1>1, <1>2
<1>4. /\ DOMAIN agent' = Issuers \ due'
      /\ agent' \in [DOMAIN agent' -> {"running", "waiting_tool", "complete"}]
  BY <1>1, <1>2, <1>3 DEF TypeOK
<1>5. recorded' \subseteq Ticker \X (Facts \cup {"identity"})
  BY <1>2, <1>3, FiguresCited DEF TypeOK
<1>6. TypeOK'
  BY <1>1, <1>3, <1>4, <1>5, KeepsTypes DEF TypeOK, Place
<1>7. Issuers' = Issuers /\ \A k : SourceIds(k)' = SourceIds(k)
  BY SameIssuers
<1>8. Tasks'
  BY <1>7 DEF Going, Tasks, StatusOf, StatusOfValidator
<1>9. Agents'
  <2>1. \A k \in DOMAIN agent' : {Identity(k)} \cup SourceIds(k) \subseteq recorded'
    BY <1>1, <1>2, <1>3, <1>4 DEF Going, Agents
  <2> QED
    BY <1>1, <1>2, <1>4, <1>7, <2>1 DEF Agents
<1>10. Surfaced'
  BY NothingSurfaced DEF Going
<1> QED
  BY <1>3, <1>6, <1>8, <1>9, <1>10 DEF Going, Goes

LEMMA EndRegisterStep ==
  ASSUME TypeOK, Running, Going, EndRegister, budget' = budget
  PROVE  Goes
<1> USE DEF EndRegister, projection
<1>1. Issuers' = Issuers /\ \A k : SourceIds(k)' = SourceIds(k)
  BY SameIssuers
<1>2. TypeOK'
  BY KeepsTypes DEF TypeOK, Place
<1>3. Tasks' /\ Agents'
  BY <1>1 DEF Going, Tasks, Agents, StatusOf, StatusOfValidator
<1>4. Surfaced'
  BY NothingSurfaced DEF Going
<1> QED
  BY <1>2, <1>3, <1>4 DEF Going, Goes

--------------------------------------------------------------------------------
(* The tasks and the tools of the issuers.                                 *)

\* The generator is at the first of those to come, who is an issuer.
LEMMA AtFirst ==
  ASSUME TypeOK, Going, NEW m \in First(due),
         at \in {"start_task", "start_tool", "tool_done", "task_done", "retire"}
  PROVE  /\ m \in Issuers /\ m \in due /\ m # Validator /\ due \subseteq Issuers
         /\ \A k \in First(due) : k = m
<1>1. due \subseteq Issuers /\ due \subseteq Int
  BY Sizes DEF Going, Agents
<1>2. m \in Issuers /\ m \in due
  BY <1>1 DEF First
<1> QED
  BY <1>1, <1>2, FirstUnique, Sizes

LEMMA StartTaskStep ==
  ASSUME TypeOK, Running, Going, StartTask, budget' = budget
  PROVE  Goes
<1> USE DEF StartTask
<1>1. PICK m \in First(due) : Publish(m, "queued", "running")
  OBVIOUS
<1>2. m \in Issuers /\ m \in due /\ m # Validator /\ due \subseteq Issuers /\ \A k \in First(due) : k = m
  BY AtFirst
<1>3. status[m] = "queued" /\ Tasks /\ DependsOn(m) = {}
  BY <1>2 DEF Going, Tasks, StatusOf, DependsOn
<1>4. /\ DOMAIN status' = DOMAIN status
      /\ status'[m] = "running" /\ \A u \in DOMAIN status : u # m => status'[u] = status[u]
      /\ status' \in [DOMAIN status -> {"queued", "running"} \cup Success]
      /\ DOMAIN agent' = DOMAIN agent
      /\ agent' \in [DOMAIN agent -> {"running", "waiting_tool", "complete"}]
      /\ UNCHANGED <<run, recorded, candidates>>
  BY <1>1, <1>2, <1>3, Published
<1>5. Issuers' = Issuers /\ \A k : SourceIds(k)' = SourceIds(k)
  BY SameIssuers
<1>6. TypeOK'
  BY <1>4, KeepsTypes DEF TypeOK, Place
<1>7. Tasks'
  BY <1>2, <1>4, <1>5 DEF Going, Tasks, StatusOf, StatusOfValidator
<1>8. Agents'
  BY <1>4, <1>5 DEF Going, Agents
<1>9. Surfaced'
  BY <1>4, NothingSurfaced DEF Going
<1> QED
  BY <1>4, <1>6, <1>7, <1>8, <1>9 DEF Going, Goes

LEMMA StartToolStep ==
  ASSUME TypeOK, Running, Going, StartTool, budget' = budget
  PROVE  Goes
<1> USE DEF StartTool
<1>1. PICK m \in First(due) : Tell(m, "waiting_tool") /\ due' = due \ {m}
  OBVIOUS
<1>2. m \in Issuers /\ m \in due /\ m # Validator /\ due \subseteq Issuers /\ \A k \in First(due) : k = m
  BY AtFirst
<1>3. /\ DOMAIN agent' = DOMAIN agent
      /\ agent' \in [DOMAIN agent -> {"running", "waiting_tool", "complete"}]
      /\ UNCHANGED <<run, status, recorded, candidates>>
  BY <1>1, <1>2, Told DEF Going
<1>4. Issuers' = Issuers /\ \A k : SourceIds(k)' = SourceIds(k)
  BY SameIssuers
<1>5. TypeOK'
  BY <1>1, <1>3, KeepsTypes DEF TypeOK, Place
<1>6. Tasks'
  BY <1>1, <1>2, <1>3, <1>4 DEF Going, Tasks, StatusOf, StatusOfValidator
<1>7. Agents'
  BY <1>1, <1>2, <1>3, <1>4 DEF Going, Agents
<1>8. Surfaced'
  BY <1>3, NothingSurfaced DEF Going
<1> QED
  BY <1>3, <1>5, <1>6, <1>7, <1>8 DEF Going, Goes

LEMMA AnalyzeStep ==
  ASSUME TypeOK, Running, Going, Analyze, budget' = budget
  PROVE  Goes
<1> USE DEF Analyze, projection
<1>1. Issuers' = Issuers /\ \A k : SourceIds(k)' = SourceIds(k)
  BY SameIssuers
<1>2. TypeOK'
  BY KeepsTypes DEF TypeOK, Place
<1>3. Tasks' /\ Agents'
  BY <1>1 DEF Going, Tasks, Agents, StatusOf, StatusOfValidator
<1>4. Surfaced'
  BY NothingSurfaced DEF Going
<1> QED
  BY <1>2, <1>3, <1>4 DEF Going, Goes

LEMMA ToolCompletesStep ==
  ASSUME TypeOK, Running, Going, ToolCompletes, budget' = budget
  PROVE  Goes
<1> USE DEF ToolCompletes
<1>1. PICK m \in First(due) : Tell(m, "running")
  OBVIOUS
<1>2. m \in Issuers /\ m \in due /\ m # Validator /\ due \subseteq Issuers /\ \A k \in First(due) : k = m
  BY AtFirst
<1>3. /\ DOMAIN agent' = DOMAIN agent
      /\ agent' \in [DOMAIN agent -> {"running", "waiting_tool", "complete"}]
      /\ UNCHANGED <<run, status, recorded, candidates>>
  BY <1>1, <1>2, Told DEF Going
<1>4. Issuers' = Issuers /\ \A k : SourceIds(k)' = SourceIds(k) /\ Verdict(k)' = Verdict(k)
  BY SameIssuers
<1>5. TypeOK'
  BY <1>3, KeepsTypes DEF TypeOK, Place
<1>6. Tasks'
  BY <1>3, <1>4 DEF Going, Tasks, StatusOf, StatusOfValidator
<1>7. Agents'
  BY <1>3, <1>4 DEF Going, Agents
<1>8. Surfaced'
  BY <1>3, NothingSurfaced DEF Going
<1> QED
  BY <1>3, <1>5, <1>6, <1>7, <1>8 DEF Going, Goes

LEMMA CompleteTaskStep ==
  ASSUME TypeOK, Running, Going, CompleteTask, budget' = budget
  PROVE  Goes
<1> USE DEF CompleteTask
<1>1. PICK m \in First(due) : Publish(m, "running", Verdict(m)) /\ due' = due \ {m}
  OBVIOUS
<1>2. m \in Issuers /\ m \in due /\ m # Validator /\ due \subseteq Issuers /\ \A k \in First(due) : k = m
  BY AtFirst
<1>3. status[m] = "running" /\ Tasks /\ Verdict(m) \in {"complete", "partial"}
  BY <1>2 DEF Going, Tasks, StatusOf, Verdict
<1>4. /\ DOMAIN status' = DOMAIN status
      /\ status'[m] = Verdict(m) /\ \A u \in DOMAIN status : u # m => status'[u] = status[u]
      /\ status' \in [DOMAIN status -> {"queued", "running"} \cup Success]
      /\ DOMAIN agent' = DOMAIN agent
      /\ agent' \in [DOMAIN agent -> {"running", "waiting_tool", "complete"}]
      /\ UNCHANGED <<run, recorded, candidates>>
  BY <1>1, <1>2, <1>3, Published
<1>5. Issuers' = Issuers /\ \A k : SourceIds(k)' = SourceIds(k) /\ Verdict(k)' = Verdict(k)
  BY SameIssuers
<1>6. TypeOK'
  BY <1>1, <1>4, KeepsTypes DEF TypeOK, Place
<1>7. Tasks'
  BY <1>1, <1>2, <1>4, <1>5 DEF Going, Tasks, StatusOf, StatusOfValidator
<1>8. Agents'
  BY <1>1, <1>4, <1>5 DEF Going, Agents
<1>9. Surfaced'
  BY <1>4, NothingSurfaced DEF Going
<1> QED
  BY <1>4, <1>6, <1>7, <1>8, <1>9 DEF Going, Goes

--------------------------------------------------------------------------------
(* The validator, the candidates and the retirement.                       *)

LEMMA StartValidatorStep ==
  ASSUME TypeOK, Running, Going, StartValidator, budget' = budget
  PROVE  Goes
<1> USE DEF StartValidator
<1>1. /\ status[Validator] = "queued" /\ DOMAIN status = Issuers \cup {Validator}
      /\ \A m \in Issuers : status[m] = Verdict(m)
  BY DEF Going, Tasks, StatusOf, StatusOfValidator
<1>2. \A d \in DependsOn(Validator) : status[d] \in Success
  BY <1>1 DEF DependsOn, Verdict
<1>3. /\ DOMAIN status' = DOMAIN status
      /\ status'[Validator] = "running" /\ \A u \in DOMAIN status : u # Validator => status'[u] = status[u]
      /\ status' \in [DOMAIN status -> {"queued", "running"} \cup Success]
      /\ DOMAIN agent' = DOMAIN agent
      /\ agent' \in [DOMAIN agent -> {"running", "waiting_tool", "complete"}]
      /\ UNCHANGED <<run, recorded, candidates>>
  BY <1>1, <1>2, Published DEF Going
<1>4. Issuers' = Issuers /\ \A k : SourceIds(k)' = SourceIds(k) /\ Verdict(k)' = Verdict(k)
  BY SameIssuers
<1>5. TypeOK'
  BY <1>3, KeepsTypes DEF TypeOK, Place
<1>6. Tasks'
  BY <1>1, <1>3, <1>4, Sizes DEF Tasks, StatusOf, StatusOfValidator
<1>7. Agents'
  BY <1>3, <1>4 DEF Going, Agents
<1>8. Surfaced'
  BY <1>3, NothingSurfaced DEF Going
<1> QED
  BY <1>3, <1>5, <1>6, <1>7, <1>8 DEF Going, Goes

LEMMA RankAnalysesStep ==
  ASSUME TypeOK, Running, Going, RankAnalyses, budget' = budget
  PROVE  Goes
<1> USE DEF RankAnalyses
<1> DEFINE to == IF Partial THEN "partial" ELSE "complete"
<1>1. /\ status[Validator] = "running" /\ DOMAIN status = Issuers \cup {Validator}
      /\ \A m \in Issuers : status[m] = Verdict(m)
  BY DEF Going, Tasks, StatusOf, StatusOfValidator
<1>2. /\ DOMAIN status' = DOMAIN status
      /\ status'[Validator] = to /\ \A u \in DOMAIN status : u # Validator => status'[u] = status[u]
      /\ status' \in [DOMAIN status -> {"queued", "running"} \cup Success]
      /\ DOMAIN agent' = DOMAIN agent
      /\ agent' \in [DOMAIN agent -> {"running", "waiting_tool", "complete"}]
      /\ UNCHANGED <<run, recorded, candidates>>
  <2>1. Publish(Validator, "running", to) /\ to \in {"partial", "complete"}
    OBVIOUS
  <2> HIDE DEF to, RankAnalyses
  <2>2. Planned /\ Tasks
    BY DEF RankAnalyses, Going
  <2> QED
    BY <1>1, <2>1, <2>2, Published
<1>3. /\ Issuers' = Issuers /\ Partial' = Partial
      /\ \A k : SourceIds(k)' = SourceIds(k) /\ Verdict(k)' = Verdict(k)
      /\ \A m, r : CandidatePayload(m, r)' = CandidatePayload(m, r)
  BY SameIssuers
<1>4. /\ ranking' \in SetToSeqs(Issuers) /\ DOMAIN ranking' = 1..Cardinality(Issuers)
      /\ ranking' \in [DOMAIN ranking' -> Issuers]
  BY DEF SetToSeqs
<1>5. DOMAIN candidates = {}
  BY DEF Going, Surfaced, Passed
<1>6. due' = DOMAIN ranking' /\ due' \subseteq Ticker
  BY <1>4, Sizes, Tickersize DEF Ticker
<1>7. TypeOK'
  BY <1>1, <1>2, <1>3, <1>4, <1>5, <1>6 DEF TypeOK, Place
<1>8. Tasks'
  BY <1>1, <1>2, <1>3, Sizes DEF Tasks, StatusOf, StatusOfValidator
<1>9. Agents'
  BY <1>2, <1>3 DEF Going, Agents
<1>10. Surfaced'
  BY <1>2, <1>3, <1>4, <1>5, <1>6 DEF Surfaced, Passed
<1> QED
  BY <1>2, <1>7, <1>8, <1>9, <1>10 DEF Going, Goes

\* Each rank surfaces its own issuer, with figures that cite its own evidence.
LEMMA SurfaceStep ==
  ASSUME TypeOK, Running, Going, Surface, budget' = budget
  PROVE  Goes
<1> USE DEF Surface
<1>1. PICK r \in First(due) :
        LET c == CandidatePayload(ranking[r], r)
        IN  /\ IF c.financials \subseteq c.cites
                 THEN /\ candidates' = [m \in DOMAIN candidates \cup {ranking[r]} |->
                                          IF m = ranking[r] THEN c ELSE candidates[m]]
                      /\ UNCHANGED run
                 ELSE run' = "refused" /\ UNCHANGED candidates
            /\ due' = due \ {r}
  OBVIOUS
<1> DEFINE m == ranking[r]
<1>2. r \in due /\ due \subseteq DOMAIN ranking /\ ranking \in SetToSeqs(Issuers) /\ Surfaced
  BY DEF Going, Surfaced, First
<1>3. m \in Issuers /\ \A q \in DOMAIN ranking : ranking[q] = m => q = r
  BY <1>2, RankingOnto
<1>4. CandidatePayload(m, r).financials \subseteq CandidatePayload(m, r).cites
  BY <1>3, PayloadRank, FiguresCited
<1>5. /\ candidates' = [k \in DOMAIN candidates \cup {m} |->
                         IF k = m THEN CandidatePayload(m, r) ELSE candidates[k]]
      /\ run' = run /\ due' = due \ {r}
  BY <1>1, <1>4
<1>6. /\ Issuers' = Issuers /\ Partial' = Partial
      /\ \A k : SourceIds(k)' = SourceIds(k) /\ Verdict(k)' = Verdict(k)
      /\ \A k, q : CandidatePayload(k, q)' = CandidatePayload(k, q)
  BY SameIssuers
<1>7. /\ DOMAIN candidates' = DOMAIN candidates \cup {m}
      /\ candidates'[m] = CandidatePayload(m, r)
      /\ \A k \in DOMAIN candidates : k # m => candidates'[k] = candidates[k]
  BY <1>5
<1>8. \A k \in DOMAIN candidates' : \E q \in Ticker : candidates'[k] = CandidatePayload(k, q)'
  <2> TAKE k \in DOMAIN candidates'
  <2>1. r \in Ticker
    BY <1>2 DEF TypeOK
  <2>2. CASE k = m
    BY <1>6, <1>7, <2>1, <2>2
  <2>3. CASE k # m
    <3>1. k \in DOMAIN candidates /\ candidates'[k] = candidates[k]
      BY <1>7, <2>3
    <3>2. PICK q \in Ticker : candidates[k] = CandidatePayload(k, q)
      BY <3>1 DEF TypeOK
    <3> QED
      BY <1>6, <3>1, <3>2
  <2> QED
    BY <2>2, <2>3
<1>9. TypeOK'
  BY <1>3, <1>5, <1>6, <1>7, <1>8 DEF TypeOK, Place
<1>10. Tasks' /\ Agents'
  BY <1>6 DEF Going, Tasks, Agents, StatusOf, StatusOfValidator
<1>11. Passed' = Passed \cup {r} /\ r \notin Passed /\ Passed \subseteq DOMAIN ranking
  BY <1>2, <1>5 DEF Passed
<1>12. DOMAIN candidates' = {ranking'[q] : q \in Passed'}
  BY <1>2, <1>7, <1>11 DEF Surfaced
<1>13. \A q \in Passed' : candidates'[ranking'[q]].rank = q
  <2> TAKE q \in Passed'
  <2>1. CASE q = r
    BY <1>7, <2>1, PayloadRank
  <2>2. CASE q # r
    <3>1. q \in Passed /\ q \in DOMAIN ranking
      BY <1>11, <2>2
    <3>2. ranking[q] \in DOMAIN candidates /\ ranking[q] # m /\ candidates[ranking[q]].rank = q
      BY <1>2, <1>3, <2>2, <3>1 DEF Surfaced
    <3> QED
      BY <1>7, <3>2
  <2> QED
    BY <2>1, <2>2
<1>14. Surfaced'
  BY <1>2, <1>5, <1>6, <1>12, <1>13 DEF Surfaced
<1> QED
  BY <1>5, <1>9, <1>10, <1>14 DEF Going, Goes

LEMMA EndSurfaceStep ==
  ASSUME TypeOK, Running, Going, EndSurface, budget' = budget
  PROVE  Goes
<1> USE DEF EndSurface, projection
<1>1. Issuers' = Issuers /\ Partial' = Partial
      /\ \A k : SourceIds(k)' = SourceIds(k) /\ Verdict(k)' = Verdict(k)
  BY SameIssuers
<1>2. TypeOK'
  BY KeepsTypes DEF TypeOK, Place
<1>3. Tasks' /\ Agents'
  BY <1>1 DEF Going, Tasks, Agents, StatusOf, StatusOfValidator
<1>4. Surfaced'
  BY <1>1 DEF Going, Surfaced, Passed
<1> QED
  BY <1>2, <1>3, <1>4 DEF Going, Goes

LEMMA RetireStep ==
  ASSUME TypeOK, Running, Going, Retire, budget' = budget
  PROVE  Goes
<1> USE DEF Retire
<1>1. PICK m \in First(due) : Tell(m, "complete") /\ due' = due \ {m}
  OBVIOUS
<1>2. m \in Issuers /\ m \in due /\ due \subseteq Issuers
  BY AtFirst
<1>3. /\ DOMAIN agent' = DOMAIN agent
      /\ agent'[m] = "complete" /\ \A k \in DOMAIN agent : k # m => agent'[k] = agent[k]
      /\ agent' \in [DOMAIN agent -> {"running", "waiting_tool", "complete"}]
      /\ UNCHANGED <<run, status, recorded, candidates>>
  BY <1>1, <1>2, Told DEF Going
<1>4. Issuers' = Issuers /\ Partial' = Partial
      /\ \A k : SourceIds(k)' = SourceIds(k) /\ Verdict(k)' = Verdict(k)
  BY SameIssuers
<1>5. TypeOK'
  BY <1>1, <1>3, KeepsTypes DEF TypeOK, Place
<1>6. Tasks'
  BY <1>3, <1>4 DEF Going, Tasks, StatusOf, StatusOfValidator
<1>7. Agents'
  BY <1>1, <1>2, <1>3, <1>4 DEF Going, Agents
<1>8. Surfaced'
  BY <1>3, <1>4 DEF Going, Surfaced, Passed
<1> QED
  BY <1>3, <1>5, <1>6, <1>7, <1>8 DEF Going, Goes

\* By then no task is open.
LEMMA CompleteWorkflowStep ==
  ASSUME TypeOK, Running, Going, CompleteWorkflow, budget' = budget
  PROVE  Goes
<1> USE DEF CompleteWorkflow
<1>1. \A t \in DOMAIN status : status[t] \in Terminal
  BY DEF Going, Tasks, StatusOf, StatusOfValidator, Verdict
<1>2. run' = run
  BY <1>1
<1>3. Issuers' = Issuers /\ Partial' = Partial
      /\ \A k : SourceIds(k)' = SourceIds(k) /\ Verdict(k)' = Verdict(k)
  BY SameIssuers
<1>4. TypeOK'
  BY <1>2, KeepsTypes DEF TypeOK, Place
<1>5. Tasks' /\ Agents'
  BY <1>3 DEF Going, Tasks, Agents, StatusOf, StatusOfValidator
<1>6. Surfaced'
  BY <1>3 DEF Going, Surfaced, Passed
<1> QED
  BY <1>2, <1>4, <1>5, <1>6 DEF Going, Goes

--------------------------------------------------------------------------------
(* The end of the run.                                                     *)

\* What one candidate shows of its issuer.
LEMMA CandidateHonest ==
  ASSUME TypeOK, Going, NEW m \in DOMAIN candidates
  PROVE  /\ candidates[m].cites \subseteq recorded \/ m \notin DOMAIN agent
         /\ candidates[m].quality = "complete" =>
              ready[m].market = "ok" /\ Metrics \ {"free_cash_flow"} \subseteq AnalyzeOne(ready[m])
         /\ ready[m].market = "failed" =>
              candidates[m].bucket # "advance" /\ candidates[m].confidence # "high"
         /\ candidates[m].bucket = "advance" => candidates[m].rank = 1
<1>1. PICK r \in Ticker : candidates[m] = CandidatePayload(m, r)
  BY DEF TypeOK
<1>2. /\ candidates[m].rank = r
      /\ candidates[m].cites = {Identity(m)} \cup SourceIds(m)
      /\ candidates[m].bucket = Bucket(ready[m], r, Cardinality(Issuers))
      /\ candidates[m].quality = Quality(ready[m])
      /\ candidates[m].confidence = Confidence(ready[m])
  BY <1>1, PayloadRank
<1>3. candidates[m].cites \subseteq recorded \/ m \notin DOMAIN agent
  BY <1>2 DEF Going, Agents
<1>4. ready[m].market \in {"ok", "failed"}
  BY LiveAssumption DEF TypeOK
<1>5. ASSUME Quality(ready[m]) = "complete"
      PROVE  ready[m].market = "ok" /\ Metrics \ {"free_cash_flow"} \subseteq AnalyzeOne(ready[m])
  <2>1. AnalysisGaps(ready[m]) = {}
    BY <1>5 DEF Quality
  <2> QED
    BY <1>4, <2>1 DEF AnalysisGaps
<1>6. ready[m].market = "failed" => Confidence(ready[m]) # "high"
  BY DEF Confidence
<1>7. ready[m].market = "failed" => Bucket(ready[m], r, Cardinality(Issuers)) # "advance"
  BY DEF Bucket
<1>8. Bucket(ready[m], r, Cardinality(Issuers)) = "advance" => r = 1
  BY DEF Bucket
<1> QED
  BY <1>2, <1>3, <1>5, <1>6, <1>7, <1>8

LEMMA AllAccounted ==
  ASSUME TypeOK, Going, at = "end"
  PROVE  Accounted
<1> DEFINE n == Cardinality(Issuers)
<1>1. /\ DOMAIN ranking = 1..n
      /\ Issuers = {ranking[r] : r \in DOMAIN ranking}
      /\ \A r, q \in DOMAIN ranking : ranking[r] = ranking[q] => r = q
  BY RankingOnto DEF Going, Surfaced
<1>2. DOMAIN candidates = Issuers /\ \A r \in DOMAIN ranking : candidates[ranking[r]].rank = r
  BY <1>1 DEF Going, Surfaced, Passed
<1>3. /\ DOMAIN agent = Issuers /\ \A m \in Issuers : agent[m] = "complete" /\ status[m] = Verdict(m)
      /\ status[Validator] = IF Partial THEN "partial" ELSE "complete"
  BY DEF Going, Agents, Tasks, StatusOf, StatusOfValidator
<1>4. {candidates[m].rank : m \in Issuers} = 1..n
  <2> HIDE DEF n
  <2> QED
    BY <1>1, <1>2
<1>5. Cardinality({m \in Issuers : candidates[m].bucket = "advance"}) <= 1
  <2> DEFINE lead == {m \in Issuers : candidates[m].bucket = "advance"}
  <2>1. \A m \in lead : candidates[m].rank = 1
    BY <1>2, CandidateHonest
  <2>2. lead \subseteq Issuers
    OBVIOUS
  <2>3. \A m \in Issuers : \E r \in DOMAIN ranking : ranking[r] = m /\ candidates[m].rank = r
    BY <1>1, <1>2
  <2> HIDE DEF lead
  <2>4. \A m, k \in lead : m = k
    BY <2>1, <2>2, <2>3
  <2>5. ASSUME lead = {} PROVE Cardinality(lead) <= 1
    BY <2>5, FS_EmptySet
  <2>6. ASSUME NEW m \in lead PROVE Cardinality(lead) <= 1
    <3>1. lead = {m}
      BY <2>4
    <3>2. Cardinality({m}) = 1
      BY FS_Singleton
    <3>3. Cardinality(lead) = 1
      BY <3>1, <3>2, Zenon
    <3> QED
      BY <3>3
  <2> QED
    BY <2>5, <2>6 DEF lead
<1>6. status[Validator] = "complete" => Issuers = Ticker /\ \A m \in Ticker : ready[m].market = "ok"
  <2> SUFFICES ASSUME ~Partial PROVE Issuers = Ticker /\ \A m \in Ticker : ready[m].market = "ok"
    BY <1>3
  <2>1. Issuers = Ticker /\ \A m \in Issuers : ready[m].market # "failed"
    BY DEF Partial
  <2>2. \A m \in Issuers : ready[m].market \in {"ok", "failed"}
    BY LiveAssumption DEF TypeOK
  <2> QED
    BY <2>1, <2>2
<1>7. ASSUME NEW m \in Issuers
      PROVE  /\ status[m] = (IF AnalysisGaps(ready[m]) = {} THEN "complete" ELSE "partial")
             /\ agent[m] = "complete"
             /\ candidates[m].cites \subseteq recorded
             /\ candidates[m].quality = "complete" =>
                  ready[m].market = "ok" /\ Metrics \ {"free_cash_flow"} \subseteq AnalyzeOne(ready[m])
             /\ ready[m].market = "failed" =>
                  candidates[m].bucket # "advance" /\ candidates[m].confidence # "high"
  <2>1. status[m] = (IF AnalysisGaps(ready[m]) = {} THEN "complete" ELSE "partial") /\ agent[m] = "complete"
    BY <1>3 DEF Verdict
  <2> QED
    BY <1>2, <1>3, <2>1, CandidateHonest
<1> QED
  BY <1>2, <1>4, <1>5, <1>6, <1>7 DEF Accounted

LEMMA AccountStays ==
  ASSUME Accounted, UNCHANGED <<ready, status, agent, recorded, candidates>>
  PROVE  Accounted'
<1>1. Issuers' = Issuers
  BY SameIssuers
<1> QED
  BY <1>1 DEF Accounted

--------------------------------------------------------------------------------
(* The invariant.                                                          *)

IInv == TypeOK /\ Consistent

LEMMA InitInv == Init => IInv
<1> SUFFICES ASSUME Init PROVE IInv
  OBVIOUS
<1> USE DEF Init
<1>1. Issuers = {} /\ DOMAIN status = {} /\ DOMAIN agent = {} /\ DOMAIN candidates = {} /\ DOMAIN ranking = {}
  BY DEF Issuers
<1>2. /\ ready \in [Issuers -> Packets] /\ ranking \in [DOMAIN ranking -> Issuers]
      /\ status \in [DOMAIN status -> {"queued", "running"} \cup Success]
      /\ agent \in [DOMAIN agent -> {"running", "waiting_tool", "complete"}]
  BY <1>1 DEF Issuers
<1>3. TypeOK
  BY <1>1, <1>2 DEF TypeOK, Place
<1>4. Tasks /\ Agents /\ Surfaced
  BY <1>1 DEF Tasks, Agents, Surfaced, Passed
<1> QED
  BY <1>1, <1>3, <1>4 DEF IInv, Consistent, LiveDraftsAccepted, LiveRunHonest

LEMMA GoesOn ==
  ASSUME IInv, Running, Goes
  PROVE  IInv'
BY DEF IInv, Goes, Going, Consistent, LiveDraftsAccepted, LiveRunHonest

\* The run is over: what it projected stays.
LEMMA Ends ==
  ASSUME IInv, UNCHANGED <<budget, due, ready, ranking, status, agent, recorded, candidates>>,
         at' \in Place, client' \in {"open", "closed"}, run' \in {"complete", "failed", "cancelled"},
         run' = "complete" => run = "complete" \/ (Running /\ at = "end")
  PROVE  IInv'
<1>1. TypeOK'
  BY SameIssuers DEF IInv, TypeOK
<1>2. ASSUME run' = "complete" PROVE Accounted
  <2>1. CASE run = "complete"
    BY <2>1 DEF IInv, Consistent, LiveRunHonest
  <2>2. CASE Running /\ at = "end"
    BY <2>2, AllAccounted DEF IInv, Consistent, Going
  <2> QED
    BY <1>2, <2>1, <2>2
<1>3. LiveRunHonest'
  BY <1>2, AccountStays DEF LiveRunHonest
<1> QED
  BY <1>1, <1>3 DEF IInv, Consistent, LiveDraftsAccepted

LEMMA StageStep ==
  ASSUME IInv, Stage, budget' = budget
  PROVE  IInv'
<1>1. TypeOK /\ Running /\ Going
  BY DEF IInv, Consistent, Going, Stage, Reject, Open, CollectionFails, Collect, Plan, Register, EndRegister,
         StartTask, StartTool, AnalysisFails, Analyze, ToolCompletes, CompleteTask, StartValidator, RankAnalyses,
         Surface, EndSurface, Retire, CompleteWorkflow, Finish
<1>2. CASE Reject \/ CollectionFails \/ AnalysisFails
  <2>1. /\ UNCHANGED <<budget, due, ready, ranking, status, agent, recorded, candidates>>
        /\ at' = "done" /\ client' \in {client, "closed"} /\ run' = "failed"
    BY <1>2 DEF Reject, CollectionFails, AnalysisFails, Raise
  <2> QED
    BY <1>1, <2>1, Ends DEF TypeOK, Place
<1>3. CASE Finish
  BY <1>1, <1>3, Ends DEF Finish, TypeOK, Place
<1>4. CASE ~(Reject \/ CollectionFails \/ AnalysisFails \/ Finish)
  <2>1. Goes
    BY <1>1, <1>4, OpenStep, CollectStep, PlanStep, RegisterStep, EndRegisterStep, StartTaskStep, StartToolStep,
       AnalyzeStep, ToolCompletesStep, CompleteTaskStep, StartValidatorStep, RankAnalysesStep, SurfaceStep,
       EndSurfaceStep, RetireStep, CompleteWorkflowStep DEF Stage
  <2> QED
    BY <1>1, <2>1, GoesOn
<1> QED
  BY <1>2, <1>3, <1>4

LEMMA NextStep == IInv /\ [Next]_vars => IInv'
<1> SUFFICES ASSUME IInv, [Next]_vars PROVE IInv'
  OBVIOUS
<1>1. CASE Stage /\ UNCHANGED budget
  BY <1>1, StageStep
<1>2. CASE Cancel /\ UNCHANGED budget
  <2>1. /\ UNCHANGED <<budget, due, ready, ranking, status, agent, recorded, candidates>>
        /\ at' \in {at, "done"} /\ client' \in {client, "closed"} /\ run' = "cancelled"
    BY <1>2 DEF Cancel
  <2> QED
    BY <2>1, Ends DEF IInv, TypeOK, Place
<1>3. CASE Finalise /\ UNCHANGED budget
  <2>1. /\ UNCHANGED <<budget, due, ready, ranking, status, agent, recorded, candidates>>
        /\ at' = "done" /\ client' \in {client, "closed"} /\ run' = run /\ run # "running"
    BY <1>3 DEF Finalise, projection
  <2>2. run \in {"complete", "failed", "cancelled"}
    BY <2>1 DEF IInv, TypeOK, Consistent, LiveDraftsAccepted
  <2> QED
    BY <2>1, <2>2, Ends DEF IInv, TypeOK, Place
<1>4. CASE UNCHANGED vars
  <2>1. /\ UNCHANGED <<budget, at, due, ready, ranking, status, agent, recorded, candidates, client, run>>
    BY <1>4 DEF vars, projection
  <2>2. CASE Running
    <3>1. TypeOK'
      BY <2>1, SameIssuers DEF IInv, TypeOK
    <3>2. Tasks' /\ Agents' /\ Surfaced'
      BY <2>1, <2>2, SameIssuers
         DEF IInv, Consistent, Tasks, Agents, Surfaced, Passed, StatusOf, StatusOfValidator
    <3> QED
      BY <2>1, <2>2, <3>1, <3>2, SameIssuers DEF IInv, Consistent, LiveDraftsAccepted, LiveRunHonest
  <2>3. CASE ~Running
    <3>1. run \in {"complete", "failed", "cancelled"}
      BY <2>3 DEF IInv, TypeOK, Consistent, LiveDraftsAccepted
    <3> QED
      BY <2>1, <3>1, Ends DEF IInv, TypeOK
  <2> QED
    BY <2>2, <2>3
<1> QED
  BY <1>1, <1>2, <1>3, <1>4 DEF Next

LEMMA AlwaysInv == Spec => []IInv
BY InitInv, NextStep, PTL DEF Spec

--------------------------------------------------------------------------------
(* The theorems.                                                           *)

\* Every variable keeps its type, for every number of tickers and budget and
\* whatever the collector finds, raises or is cancelled at.
THEOREM TypeCorrect == Spec => []TypeOK
BY AlwaysInv, PTL DEF IInv

\* reduce_event takes every draft LiveRuntime.stream yields: tasks in the right
\* order, agents registered before they are told of, figures with their sources.
THEOREM LiveDraftsStayAccepted == Spec => []LiveDraftsAccepted
BY AlwaysInv, PTL DEF IInv, Consistent

\* A live run that completes has one candidate per issuer, ranked 1 to n, cites
\* what it recorded and shows every gap, whatever the packets.
THEOREM LiveRunStaysHonest == Spec => []LiveRunHonest
BY AlwaysInv, PTL DEF IInv, Consistent

--------------------------------------------------------------------------------
(* Lines: first in, first out.                                             *)

\* What a line that no job stands in twice holds, and how much of it has a slot.
LEMMA LineSizes ==
  ASSUME NEW s \in Seq(Job), IsInjective(s), NEW n \in Nat
  PROVE  /\ IsFiniteSet(ToSet(s)) /\ Cardinality(ToSet(s)) = Len(s)
         /\ IsFiniteSet(FirstOf(s, n)) /\ Cardinality(FirstOf(s, n)) = (IF Len(s) < n THEN Len(s) ELSE n)
         /\ FirstOf(s, n) \subseteq ToSet(s) /\ ToSet(s) \subseteq Job
<1> DEFINE K(m) == {s[i] : i \in {k \in DOMAIN s : k <= m}}
<1>1. ASSUME NEW m \in Nat, m <= Len(s)
      PROVE  IsFiniteSet(K(m)) /\ Cardinality(K(m)) = m
  <2> DEFINE f == [i \in 1..m |-> s[i]]
  <2>1. f \in Bijection(1..m, K(m))
    BY <1>1 DEF IsInjective, Bijection, Injection, Surjection
  <2>2. IsFiniteSet(1..m) /\ Cardinality(1..m) = m
    BY FS_Interval
  <2>3. ExistsBijection(1..m, K(m))
    BY <2>1 DEF ExistsBijection
  <2> HIDE DEF K
  <2> QED
    BY <2>2, <2>3, FS_Bijection
<1>2. FirstOf(s, n) = K(IF Len(s) < n THEN Len(s) ELSE n)
  BY DEF FirstOf
<1>3. ToSet(s) = K(Len(s))
  BY DEF ToSet
<1>4. Len(s) \in Nat
  OBVIOUS
<1>5. FirstOf(s, n) \subseteq ToSet(s) /\ ToSet(s) \subseteq Job
  BY DEF FirstOf, ToSet
<1> HIDE DEF K
<1>6. CASE Len(s) < n
  BY <1>1, <1>2, <1>3, <1>4, <1>5, <1>6
<1>7. CASE ~(Len(s) < n)
  BY <1>1, <1>2, <1>3, <1>4, <1>5, <1>7
<1> QED
  BY <1>6, <1>7

\* Who joins a line stands behind all others.
LEMMA Joining ==
  ASSUME NEW s \in Seq(Job), IsInjective(s), NEW j \in Job, j \notin ToSet(s), NEW n \in Nat
  PROVE  /\ Append(s, j) \in Seq(Job) /\ IsInjective(Append(s, j))
         /\ ToSet(Append(s, j)) = ToSet(s) \cup {j}
         /\ FirstOf(s, n) \subseteq FirstOf(Append(s, j), n)
         /\ Len(s) < n => j \in FirstOf(Append(s, j), n)
         /\ Append(s, j) # <<>>
         /\ s # <<>> => Head(Append(s, j)) = Head(s)
         /\ s = <<>> => Head(Append(s, j)) = j
<1> DEFINE t == Append(s, j)
<1>1. /\ t \in Seq(Job) /\ Len(t) = Len(s) + 1 /\ Len(s) \in Nat
      /\ \A i \in 1..Len(s) : t[i] = s[i]
      /\ t[Len(s) + 1] = j /\ DOMAIN s = 1..Len(s) /\ DOMAIN t = 1..(Len(s) + 1)
  OBVIOUS
<1>2. \A i \in 1..Len(s) : s[i] # j
  BY <1>1 DEF ToSet
<1> HIDE DEF t
<1>3. IsInjective(t)
  BY <1>1, <1>2 DEF IsInjective
<1>4. ToSet(t) = ToSet(s) \cup {j}
  BY <1>1 DEF ToSet
<1>5. FirstOf(s, n) \subseteq FirstOf(t, n)
  BY <1>1 DEF FirstOf
<1>6. Len(s) < n => j \in FirstOf(t, n)
  BY <1>1 DEF FirstOf
<1>7. t # <<>> /\ (s # <<>> => Head(t) = Head(s)) /\ (s = <<>> => Head(t) = j)
  BY <1>1
<1> QED
  BY <1>1, <1>3, <1>4, <1>5, <1>6, <1>7 DEF t

\* Who leaves a line lets everybody behind move up, and nobody else.
LEMMA Leaving ==
  ASSUME NEW s \in Seq(Job), IsInjective(s), NEW j \in Job, NEW n \in Nat
  PROVE  /\ RemoveFirst(s, j) \in Seq(Job) /\ IsInjective(RemoveFirst(s, j))
         /\ ToSet(RemoveFirst(s, j)) = ToSet(s) \ {j}
         /\ FirstOf(s, n) \ {j} \subseteq FirstOf(RemoveFirst(s, j), n)
         /\ s # <<>> /\ Head(s) # j => RemoveFirst(s, j) # <<>> /\ Head(RemoveFirst(s, j)) = Head(s)
<1> DEFINE r == RemoveFirst(s, j)
<1>0. /\ Len(s) \in Nat /\ DOMAIN s = 1..Len(s)
      /\ ToSet(s) = {s[i] : i \in 1..Len(s)}
      /\ \A i \in 1..Len(s) : s[i] \in Job
  BY DEF ToSet
<1>1. CASE ~ \E i \in 1..Len(s) : s[i] = j
  <2>1. r = s
    BY <1>1 DEF RemoveFirst
  <2> QED
    BY <1>0, <1>1, <2>1
<1>2. CASE \E i \in 1..Len(s) : s[i] = j
  <2>1. PICK p \in 1..Len(s) : s[p] = j
    BY <1>2
  <2>2. \A i \in 1..Len(s) : s[i] = j <=> i = p
    BY <1>0, <2>1 DEF IsInjective
  <2>3. {i \in 1..Len(s) : s[i] = j} = {p}
    BY <2>2
  <2>31. Min({p}) = p
    BY DEF Min
  <2>32. RemoveFirst(s, j) = RemoveAt(s, IF {p} # {} THEN Min({p}) ELSE 0)
    BY <1>2, <2>3, Zenon DEF RemoveFirst, SelectInSeq
  <2>4. r = RemoveAt(s, p)
    BY <2>31, <2>32
  <2> DEFINE a == SubSeq(s, 1, p - 1)
             b == SubSeq(s, p + 1, Len(s))
  <2>51. a \in Seq(Job) /\ Len(a) = p - 1
    BY <1>0
  <2>52. \A i \in 1..(p - 1) : a[i] = s[i]
    BY <1>0
  <2>53. b \in Seq(Job) /\ Len(b) = Len(s) - p
    <3>1. /\ b \in Seq(Job)
          /\ Len(b) = IF p + 1 <= Len(s) THEN Len(s) - (p + 1) + 1 ELSE 0
      <4>1. \A i \in (p + 1)..Len(s) : s[i] \in Job
        BY <1>0
      <4>2. p + 1 \in Int /\ Len(s) \in Int
        BY <1>0
      <4> QED
        BY <4>1, <4>2, SubSeqProperties
    <3> HIDE DEF b
    <3>2. CASE p + 1 <= Len(s)
      BY <1>0, <3>1, <3>2
    <3>3. CASE ~(p + 1 <= Len(s))
      <4> DEFINE m == Len(s)
      <4>0. m \in Nat /\ p \in 1..m /\ ~(p + 1 <= m)
        BY <1>0, <3>3
      <4> HIDE DEF m
      <4>1. m - p = 0
        BY <4>0
      <4> QED
        BY <3>1, <3>3, <4>1 DEF m
    <3> QED
      BY <3>2, <3>3
  <2>54. \A i \in 1..(Len(s) - p) : b[i] = s[p + i]
    BY <1>0
  <2>5. r = a \o b
    BY <2>4 DEF RemoveAt
  <2> HIDE DEF a, b, r
  <2>6. /\ r \in Seq(Job) /\ Len(r) = Len(s) - 1 /\ DOMAIN r = 1..(Len(s) - 1)
        /\ \A i \in 1..(Len(s) - 1) : r[i] = IF i < p THEN s[i] ELSE s[i + 1]
    <3>1. r \in Seq(Job) /\ Len(r) = Len(a) + Len(b)
      BY <2>51, <2>53, <2>5, ConcatProperties
    <3>2. Len(r) = Len(s) - 1 /\ DOMAIN r = 1..(Len(s) - 1)
      BY <1>0, <2>51, <2>53, <3>1
    <3>3. ASSUME NEW i \in 1..(Len(s) - 1), i < p
          PROVE  r[i] = s[i]
      <4>1. i \in 1..Len(a)
        BY <2>51, <3>3
      <4>2. r[i] = a[i]
        BY <2>5, <2>51, <2>53, <4>1
      <4> QED
        BY <2>52, <3>3, <4>2
    <3>4. ASSUME NEW i \in 1..(Len(s) - 1), ~(i < p)
          PROVE  r[i] = s[i + 1]
      <4> DEFINE k == i - Len(a)
      <4>1. k \in 1..Len(b) /\ k \in 1..(Len(s) - p) /\ p + k = i + 1
        BY <1>0, <2>51, <2>53, <3>4
      <4>2. r[Len(a) + k] = b[k]
        BY <2>5, <2>51, <2>53, <4>1
      <4>3. Len(a) + k = i
        BY <2>51
      <4> QED
        BY <2>54, <4>1, <4>2, <4>3
    <3> QED
      BY <3>1, <3>2, <3>3, <3>4
  <2>7. IsInjective(r)
    BY <1>0, <2>6 DEF IsInjective
  <2>8. ASSUME NEW i \in 1..Len(s), i # p
        PROVE  \E k \in 1..(Len(s) - 1) : k <= i /\ r[k] = s[i]
    <3>1. CASE i < p
      BY <1>0, <2>6, <3>1
    <3>2. CASE i > p
      <4>1. i - 1 \in 1..(Len(s) - 1) /\ ~(i - 1 < p)
        BY <1>0, <3>2
      <4>2. r[i - 1] = s[i]
        BY <2>6, <4>1
      <4> QED
        BY <1>0, <4>1, <4>2
    <3> QED
      BY <2>8, <3>1, <3>2
  <2>9. ToSet(r) = ToSet(s) \ {j}
    <3>1. ToSet(r) = {r[i] : i \in 1..(Len(s) - 1)}
      BY <2>6 DEF ToSet
    <3>2. ToSet(s) \ {j} \subseteq ToSet(r)
      BY <1>0, <2>1, <2>8, <3>1
    <3>3. ASSUME NEW i \in 1..(Len(s) - 1)
          PROVE  r[i] \in ToSet(s) \ {j}
      <4>1. CASE i < p
        BY <1>0, <2>2, <2>6, <4>1
      <4>2. CASE ~(i < p)
        BY <1>0, <2>2, <2>6, <4>2
      <4> QED
        BY <4>1, <4>2
    <3> QED
      BY <3>1, <3>2, <3>3
  <2>10. FirstOf(s, n) \ {j} \subseteq FirstOf(r, n)
    <3> SUFFICES ASSUME NEW i \in 1..Len(s), i <= n, s[i] # j
                 PROVE  s[i] \in FirstOf(r, n)
      BY <1>0 DEF FirstOf
    <3>1. PICK k \in 1..(Len(s) - 1) : k <= i /\ r[k] = s[i]
      BY <2>1, <2>8
    <3> QED
      BY <1>0, <2>6, <3>1 DEF FirstOf
  <2>11. s # <<>> /\ Head(s) # j => r # <<>> /\ Head(r) = Head(s)
    <3> SUFFICES ASSUME Head(s) # j PROVE r # <<>> /\ Head(r) = Head(s)
      OBVIOUS
    <3>1. 1 < p
      BY <1>0, <2>1
    <3> QED
      BY <1>0, <2>6, <3>1
  <2> QED
    BY <2>6, <2>7, <2>9, <2>10, <2>11 DEF r
<1> QED
  BY <1>1, <1>2

--------------------------------------------------------------------------------
(* What the parts of the invariant say about one another.                  *)

LEMMA WorkSizes ==
  /\ Slots \in Nat /\ Jobs \in Nat /\ IsFiniteSet(Job) /\ Job \subseteq Nat
  /\ LaneOf \in [Job -> Lanes]
<1>1. Jobs \in Nat
  BY JobsAssumption
<1> QED
  BY <1>1, JobsAssumption, SlotsAssumption, FS_Interval DEF Job

\* Whoever calls holds its lane alone, and no more call than there are slots.
CallersAlone ==
  /\ IsFiniteSet(Calling) /\ Cardinality(Calling) \in Nat /\ Cardinality(Calling) <= Slots
  /\ mode # "live" => \A j, k \in Calling : LaneOf[j] = LaneOf[k] => j = k

LEMMA CallersHold == WorkTypeOK /\ Queued => CallersAlone
<1> SUFFICES ASSUME WorkTypeOK, Queued PROVE CallersAlone
  OBVIOUS
<1>1. Calling \subseteq FirstOf(slotLine, Slots)
  BY DEF Queued, HoldsSlot
<1>2. /\ IsFiniteSet(FirstOf(slotLine, Slots)) /\ FirstOf(slotLine, Slots) \subseteq ToSet(slotLine)
      /\ Cardinality(FirstOf(slotLine, Slots)) \in Nat
      /\ Cardinality(FirstOf(slotLine, Slots)) <= Slots
  <2>1. Len(slotLine) \in Nat
    BY DEF WorkTypeOK
  <2> QED
    BY <2>1, WorkSizes, LineSizes DEF Queued, WorkTypeOK
<1>3. IsFiniteSet(Calling) /\ Cardinality(Calling) \in Nat /\ Cardinality(Calling) <= Slots
  <2>1. IsFiniteSet(Calling) /\ Cardinality(Calling) <= Cardinality(FirstOf(slotLine, Slots))
    BY <1>1, <1>2, FS_Subset
  <2>2. Cardinality(Calling) \in Nat
    BY <2>1, FS_CardinalityType
  <2> QED
    BY <1>2, <2>1, <2>2, WorkSizes
<1>4. \A j \in Calling : HoldsLane(j)
  BY <1>1, <1>2 DEF Queued
<1> QED
  BY <1>3, <1>4 DEF HoldsLane, CallersAlone

\* A call that begins is counted.
LEMMA Started ==
  ASSUME WorkInv, NEW j \in Job, outcome # "cancelled", state[j] \in {"new", "waiting"},
         StartsCall(j), WorkTypeOK', Queued', UNCHANGED <<mode, verdict, given, outcome>>
  PROVE  Computing' /\ LanesAlone'
<1>1. Calling' = Calling \cup {j} /\ j \notin Calling /\ threads = Calling
  BY DEF WorkInv, WorkTypeOK, Computing, Calling, StartsCall
<1>2. threads' = Calling'
  BY <1>1 DEF StartsCall
<1>3. /\ Cardinality(Calling)' \in Nat /\ Cardinality(Calling)' <= Slots
      /\ mode' # "live" => \A i, k \in Calling' : LaneOf[i] = LaneOf[k] => i = k
  <2>1. CallersAlone'
    BY CallersHold, PTL
  <2> QED
    BY <2>1 DEF CallersAlone
<1>4. Cardinality(Calling') = Cardinality(Calling) + 1
  <2>1. IsFiniteSet(Calling)
    BY CallersHold DEF WorkInv, CallersAlone
  <2> QED
    BY <1>1, <2>1, FS_AddElement
<1>5. active' = Cardinality(Calling')
  BY <1>4 DEF StartsCall, WorkInv, LanesAlone
<1>6. active' <= peak' /\ peak' <= Slots
  <2>1. active \in Nat /\ peak \in Nat /\ active <= peak /\ peak <= Slots
    BY DEF WorkInv, WorkTypeOK, LanesAlone
  <2>2. active' = active + 1 /\ peak' = IF active + 1 > peak THEN active + 1 ELSE peak
    BY DEF StartsCall
  <2> QED
    BY <1>3, <1>5, <2>1, <2>2, WorkSizes
<1> QED
  BY <1>2, <1>3, <1>5, <1>6 DEF Computing, LanesAlone, WorkInv

\* A step in which nobody begins or ends a call, and no verdict falls.
LEMMA Idle ==
  ASSUME WorkInv, Calling' = Calling, threads' \subseteq threads, Calling' \subseteq threads',
         outcome # "cancelled" /\ outcome' # "cancelled" => threads' = threads,
         outcome' # "cancelled" => outcome # "cancelled",
         UNCHANGED <<mode, verdict, given, active, peak>>
  PROVE  Computing' /\ LanesAlone'
<1>1. Computing'
  BY DEF WorkInv, Computing
<1>2. IsFiniteSet(threads) /\ Cardinality(threads) <= Slots
  BY WorkSizes, FS_Subset DEF WorkInv, WorkTypeOK, LanesAlone
<1>3. Cardinality(threads') <= Slots
  <2>1. /\ Cardinality(threads') <= Cardinality(threads)
        /\ Cardinality(threads') \in Nat /\ Cardinality(threads) \in Nat
    BY <1>2, FS_Subset, FS_CardinalityType
  <2> QED
    BY <1>2, <2>1, WorkSizes
<1>4. mode' # "live" => \A j, k \in Calling' \cup threads' : LaneOf[j] = LaneOf[k] => j = k
  BY DEF WorkInv, LanesAlone
<1> QED
  BY <1>1, <1>3, <1>4 DEF WorkInv, LanesAlone

\* A call that ends is counted out.
LEMMA Ended ==
  ASSUME WorkInv, NEW j \in Job, state[j] = "calling",
         state' = [state EXCEPT ![j] = "done"], active' = active - 1,
         threads' = threads \ {j} \/ (threads' = threads /\ outcome = "cancelled"),
         UNCHANGED <<mode, peak>>, outcome' = "cancelled" <=> outcome = "cancelled",
         mode = "diligence" => \A k \in Job : verdict'[k] = "accepted" =>
            given'[k].request = k /\ given'[k].finish \in {"stop", "eos"} /\ given'[k].cites \subseteq {k}
  PROVE  Computing' /\ LanesAlone' /\ active' \in Nat
<1>1. Calling' = Calling \ {j} /\ j \in Calling
  BY DEF WorkInv, WorkTypeOK, Calling
<1>2. Computing'
  BY <1>1 DEF WorkInv, Computing
<1>3. /\ IsFiniteSet(threads) /\ Cardinality(threads) <= Slots
      /\ IsFiniteSet(Calling) /\ Cardinality(Calling) \in Nat /\ active = Cardinality(Calling)
  BY WorkSizes, CallersHold, FS_Subset DEF WorkInv, WorkTypeOK, LanesAlone, CallersAlone
<1>4. active' = Cardinality(Calling') /\ Cardinality(Calling') \in Nat
  <2>1. Cardinality(Calling') = Cardinality(Calling) - 1 /\ IsFiniteSet(Calling')
    BY <1>1, <1>3, FS_RemoveElement
  <2> QED
    BY <1>3, <2>1, FS_CardinalityType
<1>5. Cardinality(threads') <= Slots
  <2>1. /\ Cardinality(threads') <= Cardinality(threads)
        /\ Cardinality(threads') \in Nat /\ Cardinality(threads) \in Nat
    BY <1>3, FS_Subset, FS_CardinalityType
  <2> QED
    BY <1>3, <2>1, WorkSizes
<1>6. active' <= peak' /\ peak' <= Slots
  BY DEF WorkInv, WorkTypeOK, LanesAlone
<1>7. mode' # "live" => \A i, k \in Calling' \cup threads' : LaneOf[i] = LaneOf[k] => i = k
  BY <1>1 DEF WorkInv, LanesAlone
<1> QED
  BY <1>2, <1>4, <1>5, <1>6, <1>7 DEF LanesAlone

--------------------------------------------------------------------------------
(* The lines, step by step.                                                *)

\* A job that comes to the semaphore holding its lane.
LEMMA Seated ==
  ASSUME WorkTypeOK, Queued, NEW j \in Job, j \notin ToSet(slotLine), state[j] \in {"new", "waiting"},
         TakesSeat(j), UNCHANGED mode, line' \in [Lanes -> Seq(Job)], HoldsLane(j)',
         \A k \in Job : HoldsLane(k) => HoldsLane(k)',
         \A l \in Lanes : IsInjective(line'[l]),
         \A l \in Lanes : ToSet(line'[l]) = ToSet(line[l]) \cup {k \in {j} : mode # "live" /\ LaneOf[j] = l}
  PROVE  /\ Queued' /\ slotLine' \in Seq(Job)
         /\ state' \in [Job -> {"new", "waiting", "calling", "done"}]
<1>1. /\ slotLine' \in Seq(Job) /\ IsInjective(slotLine')
      /\ ToSet(slotLine') = ToSet(slotLine) \cup {j}
      /\ FirstOf(slotLine, Slots) \subseteq FirstOf(slotLine', Slots)
      /\ Len(slotLine) < Slots => j \in FirstOf(slotLine', Slots)
  BY WorkSizes, Joining DEF WorkTypeOK, Queued, TakesSeat
<1>2. /\ state' = [state EXCEPT ![j] = "calling"] \/ state' = [state EXCEPT ![j] = "waiting"]
      /\ state'[j] = "calling" => Len(slotLine) < Slots
  BY DEF TakesSeat, StartsCall, Waits, WorkTypeOK
<1>3. /\ state' \in [Job -> {"new", "waiting", "calling", "done"}]
      /\ Inside(j)' /\ \A k \in Job : k # j => state'[k] = state[k]
  BY <1>2 DEF WorkTypeOK, Inside
<1>4. \A l \in Lanes : ToSet(line'[l]) = {k \in Job : mode' # "live" /\ LaneOf[k] = l /\ Inside(k)'}
  <2> SUFFICES ASSUME NEW l \in Lanes
               PROVE  ToSet(line'[l]) = {k \in Job : mode' # "live" /\ LaneOf[k] = l /\ Inside(k)'}
    OBVIOUS
  <2>2. \A k \in Job : k # j => (Inside(k)' <=> Inside(k))
    BY <1>3 DEF Inside
  <2>3. ToSet(line[l]) = {k \in Job : mode # "live" /\ LaneOf[k] = l /\ Inside(k)}
    BY DEF Queued
  <2>4. ToSet(line'[l]) = ToSet(line[l]) \cup {k \in {j} : mode # "live" /\ LaneOf[j] = l}
    OBVIOUS
  <2> QED
    BY <1>3, <2>2, <2>3, <2>4
<1>5. \A k \in ToSet(slotLine') : Inside(k)' /\ HoldsLane(k)'
  <2>1. ToSet(slotLine) \subseteq Job
    BY DEF ToSet, WorkTypeOK
  <2> QED
    BY <1>1, <1>3, <2>1 DEF Queued, Inside
<1>6. mode' = "live" => \A k \in Job : Inside(k)' => k \in ToSet(slotLine')
  BY <1>1, <1>3 DEF Queued, Inside
<1>7. \A k \in Calling' : HoldsSlot(k)'
  BY <1>1, <1>2, <1>3 DEF Queued, Calling, HoldsSlot
<1> QED
  BY <1>1, <1>3, <1>4, <1>5, <1>6, <1>7 DEF Queued

\* A job that leaves, wherever it stood.
LEMMA Left ==
  ASSUME WorkTypeOK, Queued, NEW j \in Job, Leaves(j), UNCHANGED mode,
         state' = [state EXCEPT ![j] = "done"]
  PROVE  /\ Queued' /\ slotLine' \in Seq(Job) /\ line' \in [Lanes -> Seq(Job)]
         /\ state' \in [Job -> {"new", "waiting", "calling", "done"}]
<1>1. /\ slotLine' \in Seq(Job) /\ IsInjective(slotLine')
      /\ ToSet(slotLine') = ToSet(slotLine) \ {j}
      /\ FirstOf(slotLine, Slots) \ {j} \subseteq FirstOf(slotLine', Slots)
  BY WorkSizes, Leaving DEF WorkTypeOK, Queued, Leaves
<1>2. ASSUME NEW l \in Lanes
      PROVE  /\ line'[l] \in Seq(Job) /\ IsInjective(line'[l])
             /\ ToSet(line'[l]) = ToSet(line[l]) \ {j}
             /\ line[l] # <<>> /\ Head(line[l]) # j => line'[l] # <<>> /\ Head(line'[l]) = Head(line[l])
  <2>1. line[l] \in Seq(Job) /\ IsInjective(line[l]) /\ line'[l] = RemoveFirst(line[l], j)
    BY DEF WorkTypeOK, Queued, Leaves
  <2> QED
    BY <2>1, WorkSizes, Leaving
<1>3. line' \in [Lanes -> Seq(Job)]
  BY <1>2 DEF Leaves
<1>4. /\ state' \in [Job -> {"new", "waiting", "calling", "done"}]
      /\ ~Inside(j)' /\ \A k \in Job : k # j => state'[k] = state[k]
  BY DEF WorkTypeOK, Inside
<1>5. \A l \in Lanes : ToSet(line'[l]) = {k \in Job : mode' # "live" /\ LaneOf[k] = l /\ Inside(k)'}
  BY <1>2, <1>4 DEF Queued, Inside
<1>6. \A k \in ToSet(slotLine') : Inside(k)' /\ HoldsLane(k)'
  <2>1. ToSet(slotLine) \subseteq Job
    BY DEF ToSet, WorkTypeOK
  <2>2. \A k \in ToSet(slotLine') : Inside(k)' /\ HoldsLane(k) /\ k \in Job /\ k # j /\ LaneOf[k] \in Lanes
    BY <1>1, <1>4, <2>1, WorkSizes DEF Queued, Inside
  <2> QED
    BY <1>2, <2>2 DEF HoldsLane
<1>7. mode' = "live" => \A k \in Job : Inside(k)' => k \in ToSet(slotLine')
  BY <1>1, <1>4 DEF Queued, Inside
<1>8. \A k \in Calling' : HoldsSlot(k)'
  <2>1. \A k \in Calling' : k # j /\ k \in Calling
    BY <1>4 DEF Calling, Inside
  <2> QED
    BY <1>1, <2>1 DEF Queued, HoldsSlot
<1> QED
  BY <1>1, <1>2, <1>3, <1>4, <1>5, <1>6, <1>7, <1>8 DEF Queued

\* A job that comes to the lock of its lane.
LEMMA Lined ==
  ASSUME WorkTypeOK, Queued, NEW j \in Job, state[j] = "new", mode # "live", UNCHANGED mode,
         line' = [line EXCEPT ![LaneOf[j]] = Append(@, j)]
  PROVE  /\ line' \in [Lanes -> Seq(Job)]
         /\ \A l \in Lanes : IsInjective(line'[l])
         /\ \A l \in Lanes : ToSet(line'[l]) = ToSet(line[l]) \cup {k \in {j} : mode # "live" /\ LaneOf[j] = l}
         /\ \A k \in Job : HoldsLane(k) => HoldsLane(k)'
         /\ line[LaneOf[j]] = <<>> => HoldsLane(j)'
<1> DEFINE m == LaneOf[j]
<1>1. m \in Lanes
  BY WorkSizes
<1>2. line[m] \in Seq(Job) /\ IsInjective(line[m]) /\ j \notin ToSet(line[m])
  BY <1>1 DEF WorkTypeOK, Queued, Inside
<1>3. /\ Append(line[m], j) \in Seq(Job) /\ IsInjective(Append(line[m], j))
      /\ ToSet(Append(line[m], j)) = ToSet(line[m]) \cup {j}
      /\ Append(line[m], j) # <<>>
      /\ line[m] # <<>> => Head(Append(line[m], j)) = Head(line[m])
      /\ line[m] = <<>> => Head(Append(line[m], j)) = j
  BY <1>2, WorkSizes, Joining
<1> DEFINE a == Append(line[m], j)
<1>4. /\ line'[m] = a
      /\ \A l \in Lanes : l # m => line'[l] = line[l]
      /\ DOMAIN line' = Lanes
  BY <1>1 DEF WorkTypeOK
<1> HIDE DEF a
<1>5. \A l \in Lanes : line'[l] \in Seq(Job) /\ IsInjective(line'[l])
  BY <1>1, <1>3, <1>4 DEF WorkTypeOK, Queued, a
<1>6. line' \in [Lanes -> Seq(Job)]
  <2>1. line' = [l \in Lanes |-> line'[l]]
    BY <1>4
  <2> QED
    BY <1>5, <2>1
<1>7. \A l \in Lanes : ToSet(line'[l]) = ToSet(line[l]) \cup {k \in {j} : mode # "live" /\ LaneOf[j] = l}
  BY <1>1, <1>3, <1>4 DEF a
<1>8. \A k \in Job : HoldsLane(k) => HoldsLane(k)'
  BY <1>1, <1>3, <1>4, WorkSizes DEF HoldsLane, a
<1>9. line[m] = <<>> => HoldsLane(j)'
  BY <1>1, <1>3, <1>4 DEF HoldsLane, a
<1> QED
  BY <1>5, <1>6, <1>7, <1>8, <1>9

LEMMA AwayFromLines ==
  ASSUME WorkTypeOK, Queued, NEW j \in Job, ~Inside(j)
  PROVE  j \notin ToSet(slotLine) /\ \A l \in Lanes : j \notin ToSet(line[l])
BY DEF Queued

\* A job at the semaphore calls, or waits for a slot.
LEMMA WorkTakes ==
  ASSUME WorkInv, NEW j \in Job, state[j] \in {"new", "waiting"}, outcome # "cancelled", TakesSeat(j), Queued',
         line' \in [Lanes -> Seq(Job)], slotLine' \in Seq(Job),
         state' \in [Job -> {"new", "waiting", "calling", "done"}],
         UNCHANGED <<mode, verdict, given, outcome>>
  PROVE  WorkInv'
<1>1. CASE StartsCall(j)
  <2>1. WorkTypeOK'
    BY <1>1 DEF WorkInv, WorkTypeOK, StartsCall
  <2>2. Computing' /\ LanesAlone'
    BY <1>1, <2>1, Started
  <2> QED
    BY <2>1, <2>2 DEF WorkInv
<1>2. CASE Waits(j)
  <2>1. WorkTypeOK'
    BY <1>2 DEF WorkInv, WorkTypeOK, Waits
  <2>2. Calling' = Calling
    BY <1>2 DEF WorkInv, WorkTypeOK, Waits, Calling
  <2>3. Computing' /\ LanesAlone'
    BY <1>2, <2>2, Idle DEF Waits, WorkInv, Computing
  <2> QED
    BY <2>1, <2>3 DEF WorkInv
<1> QED
  BY <1>1, <1>2 DEF TakesSeat

LEMMA WorkBegin ==
  ASSUME WorkInv, NEW j \in Job, Begin(j)
  PROVE  WorkInv'
<1>0. WorkTypeOK /\ Queued /\ state[j] = "new" /\ outcome # "cancelled" /\ UNCHANGED <<mode, verdict, given, outcome>>
  BY DEF WorkInv, Begin, MayBegin
<1>1. j \notin ToSet(slotLine)
  BY <1>0, AwayFromLines DEF Inside
<1>2. ASSUME TakesSeat(j), Queued', line' \in [Lanes -> Seq(Job)], slotLine' \in Seq(Job),
             state' \in [Job -> {"new", "waiting", "calling", "done"}]
      PROVE  WorkInv'
  BY <1>0, <1>2, WorkTakes
<1>3. CASE mode = "live"
  <2>1. TakesSeat(j) /\ line' = line
    BY <1>3 DEF Begin
  <2>2. HoldsLane(j)' /\ \A k \in Job : HoldsLane(k) => HoldsLane(k)'
    BY <1>0, <1>3 DEF HoldsLane
  <2>3. \A l \in Lanes : ToSet(line'[l]) = ToSet(line[l]) \cup {k \in {j} : mode # "live" /\ LaneOf[j] = l}
    BY <1>3, <2>1
  <2>4. line' \in [Lanes -> Seq(Job)] /\ \A l \in Lanes : IsInjective(line'[l])
    BY <1>0, <2>1 DEF WorkTypeOK, Queued
  <2>5. Queued' /\ slotLine' \in Seq(Job) /\ state' \in [Job -> {"new", "waiting", "calling", "done"}]
    BY <1>0, <1>1, <2>1, <2>2, <2>3, <2>4, Seated
  <2> QED
    BY <1>2, <2>1, <2>4, <2>5
<1>4. CASE mode # "live"
  <2>1. line' = [line EXCEPT ![LaneOf[j]] = Append(@, j)]
    BY <1>4 DEF Begin
  <2>2. /\ line' \in [Lanes -> Seq(Job)]
        /\ \A l \in Lanes : IsInjective(line'[l])
        /\ \A l \in Lanes : ToSet(line'[l]) = ToSet(line[l]) \cup {k \in {j} : mode # "live" /\ LaneOf[j] = l}
        /\ \A k \in Job : HoldsLane(k) => HoldsLane(k)'
        /\ line[LaneOf[j]] = <<>> => HoldsLane(j)'
    BY <1>0, <1>4, <2>1, Lined
  <2>3. CASE line[LaneOf[j]] = <<>>
    <3>1. TakesSeat(j)
      BY <1>4, <2>3 DEF Begin
    <3>2. Queued' /\ slotLine' \in Seq(Job) /\ state' \in [Job -> {"new", "waiting", "calling", "done"}]
      BY <1>0, <1>1, <2>2, <2>3, <3>1, Seated
    <3> QED
      BY <1>2, <2>2, <3>1, <3>2
  <2>4. CASE line[LaneOf[j]] # <<>>
    <3>1. Waits(j) /\ slotLine' = slotLine
      BY <1>4, <2>4 DEF Begin
    <3>2. /\ state' \in [Job -> {"new", "waiting", "calling", "done"}]
          /\ Inside(j)' /\ \A k \in Job : k # j => state'[k] = state[k]
          /\ Calling' = Calling
      BY <1>0, <3>1 DEF WorkTypeOK, Inside, Waits, Calling
    <3>3. WorkTypeOK'
      BY <1>0, <2>2, <3>1, <3>2 DEF WorkTypeOK, Waits
    <3>4. ASSUME NEW l \in Lanes
          PROVE  ToSet(line'[l]) = {k \in Job : mode' # "live" /\ LaneOf[k] = l /\ Inside(k)'}
      <4>1. \A k \in Job : k # j => (Inside(k)' <=> Inside(k))
        BY <3>2 DEF Inside
      <4>2. ToSet(line[l]) = {k \in Job : mode # "live" /\ LaneOf[k] = l /\ Inside(k)}
        BY <1>0 DEF Queued
      <4> QED
        BY <1>0, <2>2, <3>2, <4>1, <4>2
    <3>5. \A k \in ToSet(slotLine') : Inside(k)' /\ HoldsLane(k)'
      <4>1. ToSet(slotLine) \subseteq Job
        BY <1>0 DEF ToSet, WorkTypeOK
      <4> QED
        BY <1>0, <1>1, <2>2, <3>1, <3>2, <4>1 DEF Queued, Inside
    <3>6. \A k \in Calling' : HoldsSlot(k)'
      BY <1>0, <3>1, <3>2 DEF Queued, HoldsSlot
    <3>7. Queued'
      BY <1>0, <1>4, <2>2, <3>1, <3>4, <3>5, <3>6 DEF Queued
    <3>8. Computing' /\ LanesAlone'
      BY <1>0, <3>1, <3>2, Idle DEF Waits, WorkInv, Computing
    <3> QED
      BY <3>3, <3>7, <3>8 DEF WorkInv
  <2> QED
    BY <2>3, <2>4
<1> QED
  BY <1>3, <1>4

LEMMA WorkSeat ==
  ASSUME WorkInv, NEW j \in Job, Seat(j)
  PROVE  WorkInv'
<1>0. /\ WorkTypeOK /\ Queued /\ state[j] = "waiting" /\ outcome # "cancelled"
      /\ j \notin ToSet(slotLine) /\ HoldsLane(j) /\ TakesSeat(j)
      /\ UNCHANGED <<mode, line, verdict, given, outcome>>
  BY DEF WorkInv, Seat, MaySeat
<1>1. HoldsLane(j)' /\ \A k \in Job : HoldsLane(k) => HoldsLane(k)'
  BY <1>0 DEF HoldsLane
<1>2. line' \in [Lanes -> Seq(Job)] /\ \A l \in Lanes : IsInjective(line'[l])
  BY <1>0 DEF WorkTypeOK, Queued
<1>3. \A l \in Lanes : ToSet(line'[l]) = ToSet(line[l]) \cup {k \in {j} : mode # "live" /\ LaneOf[j] = l}
  BY <1>0 DEF Queued, Inside
<1>4. Queued' /\ slotLine' \in Seq(Job) /\ state' \in [Job -> {"new", "waiting", "calling", "done"}]
  BY <1>0, <1>1, <1>2, <1>3, Seated
<1> QED
  BY <1>0, <1>2, <1>4, WorkTakes

LEMMA WorkCall ==
  ASSUME WorkInv, NEW j \in Job, Call(j)
  PROVE  WorkInv'
<1>0. /\ WorkTypeOK /\ Queued /\ state[j] = "waiting" /\ outcome # "cancelled"
      /\ HoldsLane(j) /\ HoldsSlot(j) /\ StartsCall(j)
      /\ UNCHANGED <<mode, line, slotLine, verdict, given, outcome>>
  BY DEF WorkInv, Call, MayCall
<1>1. /\ state' \in [Job -> {"new", "waiting", "calling", "done"}]
      /\ \A k \in Job : Inside(k)' <=> Inside(k)
      /\ \A k \in Job : k # j => state'[k] = state[k]
  BY <1>0 DEF WorkTypeOK, Inside, StartsCall
<1>2. WorkTypeOK'
  BY <1>0, <1>1 DEF WorkTypeOK, StartsCall
<1>3. ToSet(slotLine) \subseteq Job
  BY <1>0 DEF ToSet, WorkTypeOK
<1>4. Queued'
  <2>1. \A l \in Lanes : ToSet(line'[l]) = {k \in Job : mode' # "live" /\ LaneOf[k] = l /\ Inside(k)'}
    BY <1>0, <1>1 DEF Queued
  <2>2. \A k \in Calling' : HoldsSlot(k)'
    BY <1>0, <1>1 DEF Queued, Calling, HoldsSlot
  <2>3. \A k \in ToSet(slotLine') : Inside(k)' /\ HoldsLane(k)'
    BY <1>0, <1>1, <1>3 DEF Queued, HoldsLane
  <2> QED
    BY <1>0, <1>1, <2>1, <2>2, <2>3 DEF Queued
<1>5. Computing' /\ LanesAlone'
  BY <1>0, <1>2, <1>4, Started
<1> QED
  BY <1>2, <1>4, <1>5 DEF WorkInv

\* An accepted answer was the job's own and passed every check.
LEMMA AcceptedSound ==
  ASSUME NEW j, NEW a, ValidateResult(j, a) = "accepted"
  PROVE  a.request = j /\ a.finish \in {"stop", "eos"} /\ a.cites \subseteq {j}
<1>1. ModelResultError(j, a) \in {"none", "invalid_model_result", "request_id_mismatch", "action_too_large",
                                  "non_natural_finish", "invalid_model_trace"}
  BY DEF ModelResultError
<1>2. ModelResultError(j, a) = "none"
  BY <1>1 DEF ValidateResult
<1>3. a.cites \subseteq {j}
  BY <1>2 DEF ValidateResult, AllowedSources
<1> QED
  BY <1>2, <1>3 DEF ModelResultError

\* The end of a call: its verdict is kept, and what it held is given back.
LEMMA WorkFinishes ==
  ASSUME WorkInv, NEW j \in Job, NEW code, Finishes(j, code),
         outcome' \in {"running", "gathered", "failed", "cancelled"}, outcome' # "cancelled",
         given' \in [Job -> Answers \cup {NoAnswer}], \A k \in Job : k # j => given'[k] = given[k],
         code = "accepted" /\ mode = "diligence" =>
            given'[j].request = j /\ given'[j].finish \in {"stop", "eos"} /\ given'[j].cites \subseteq {j}
  PROVE  WorkInv'
<1>0. /\ WorkTypeOK /\ Queued /\ state[j] = "calling" /\ outcome # "cancelled"
      /\ state' = [state EXCEPT ![j] = "done"] /\ verdict' = [verdict EXCEPT ![j] = code]
      /\ active' = active - 1 /\ threads' = threads \ {j} /\ Leaves(j) /\ UNCHANGED <<mode, peak>>
  BY DEF WorkInv, Finishes
<1>1. /\ Queued' /\ slotLine' \in Seq(Job) /\ line' \in [Lanes -> Seq(Job)]
      /\ state' \in [Job -> {"new", "waiting", "calling", "done"}]
  BY <1>0, Left
<1>2. mode = "diligence" => \A k \in Job : verdict'[k] = "accepted" =>
         given'[k].request = k /\ given'[k].finish \in {"stop", "eos"} /\ given'[k].cites \subseteq {k}
  BY <1>0 DEF WorkInv, WorkTypeOK, LanesAlone
<1>3. Computing' /\ LanesAlone' /\ active' \in Nat
  BY <1>0, <1>2, Ended
<1>4. WorkTypeOK'
  BY <1>0, <1>1, <1>3 DEF WorkTypeOK
<1> QED
  BY <1>1, <1>3, <1>4 DEF WorkInv

LEMMA WorkEnd ==
  ASSUME WorkInv, NEW j \in Job, Answer(j) \/ Fail(j) \/ TimeOut(j)
  PROVE  WorkInv'
<1>0. given \in [Job -> Answers \cup {NoAnswer}] /\ outcome \in {"running", "gathered", "failed", "cancelled"}
  BY DEF WorkInv, WorkTypeOK
<1>1. CASE Answer(j) /\ mode = "diligence"
  <2>1. PICK a \in Answers : Finishes(j, ValidateResult(j, a)) /\ given' = [given EXCEPT ![j] = a] /\ outcome' = outcome
    BY <1>1 DEF Answer
  <2>2. given' \in [Job -> Answers \cup {NoAnswer}] /\ given'[j] = a /\ \A k \in Job : k # j => given'[k] = given[k]
    BY <1>0, <2>1
  <2>3. outcome # "cancelled"
    BY <2>1 DEF Finishes
  <2>4. ValidateResult(j, a) = "accepted" => a.request = j /\ a.finish \in {"stop", "eos"} /\ a.cites \subseteq {j}
    BY AcceptedSound
  <2> QED
    BY <1>0, <2>1, <2>2, <2>3, <2>4, WorkFinishes
<1>2. CASE Answer(j) /\ mode # "diligence"
  <2>1. Finishes(j, "accepted") /\ given' = given /\ outcome' = outcome
    BY <1>2 DEF Answer
  <2>2. outcome # "cancelled"
    BY <2>1 DEF Finishes
  <2> QED
    BY <1>0, <1>2, <2>1, <2>2, WorkFinishes
<1>3. CASE Fail(j)
  <2> DEFINE code == IF mode = "diligence" THEN "model_error" ELSE "failed"
  <2>1. Finishes(j, code) /\ given' = given /\ outcome' \in {outcome, "failed"} /\ code # "accepted"
    BY <1>3 DEF Fail
  <2>2. outcome # "cancelled"
    BY <2>1 DEF Finishes
  <2> QED
    BY <1>0, <2>1, <2>2, WorkFinishes
<1>4. CASE TimeOut(j)
  <2>1. Finishes(j, "model_timeout") /\ given' = given /\ outcome' = outcome
    BY <1>4 DEF TimeOut
  <2>2. outcome # "cancelled"
    BY <2>1 DEF Finishes
  <2> QED
    BY <1>0, <2>1, <2>2, WorkFinishes
<1> QED
  BY <1>1, <1>2, <1>3, <1>4

LEMMA WorkUnwind ==
  ASSUME WorkInv, NEW j \in Job, Unwind(j)
  PROVE  WorkInv'
<1>0. /\ WorkTypeOK /\ Queued /\ state[j] # "done" /\ outcome = "cancelled"
      /\ state' = [state EXCEPT ![j] = "done"] /\ Leaves(j)
      /\ active' = (IF state[j] = "calling" THEN active - 1 ELSE active)
      /\ threads' = (IF mode = "batch" THEN threads ELSE threads \ {j})
      /\ UNCHANGED <<mode, verdict, given, peak, outcome>>
  BY DEF WorkInv, Unwind
<1>1. /\ Queued' /\ slotLine' \in Seq(Job) /\ line' \in [Lanes -> Seq(Job)]
      /\ state' \in [Job -> {"new", "waiting", "calling", "done"}]
  BY <1>0, Left
<1>2. Computing' /\ LanesAlone' /\ active' \in Nat
  <2>1. CASE state[j] = "calling"
    <3>1. mode = "diligence" => \A k \in Job : verdict'[k] = "accepted" =>
            given'[k].request = k /\ given'[k].finish \in {"stop", "eos"} /\ given'[k].cites \subseteq {k}
      BY <1>0 DEF WorkInv, LanesAlone
    <3> QED
      BY <1>0, <2>1, <3>1, Ended
  <2>2. CASE state[j] # "calling"
    <3>1. Calling' = Calling /\ j \notin Calling
      BY <1>0, <2>2 DEF WorkTypeOK, Calling
    <3>2. Calling' \subseteq threads' /\ threads' \subseteq threads
      BY <1>0, <3>1 DEF WorkInv, Computing
    <3>3. active' = active /\ active \in Nat
      BY <1>0, <2>2 DEF WorkTypeOK
    <3> QED
      BY <1>0, <3>1, <3>2, <3>3, Idle
  <2> QED
    BY <2>1, <2>2
<1>3. WorkTypeOK'
  BY <1>0, <1>1, <1>2 DEF WorkTypeOK
<1> QED
  BY <1>1, <1>2, <1>3 DEF WorkInv

\* A step that moves no job.
LEMMA WorkStill ==
  ASSUME WorkInv, UNCHANGED <<mode, line, slotLine, state, verdict, given, active, peak>>,
         threads' \subseteq threads, Calling \subseteq threads',
         outcome' \in {"running", "gathered", "failed", "cancelled"},
         outcome' # "cancelled" => outcome # "cancelled" /\ threads' = threads
  PROVE  WorkInv'
<1>1. Calling' = Calling
  BY DEF Calling
<1>2. Queued'
  <2>1. \A k \in Job : (Inside(k)' <=> Inside(k)) /\ (HoldsLane(k)' <=> HoldsLane(k)) /\ (HoldsSlot(k)' <=> HoldsSlot(k))
    BY DEF Inside, HoldsLane, HoldsSlot
  <2>2. ToSet(slotLine) \subseteq Job /\ Calling \subseteq Job
    BY DEF ToSet, WorkInv, WorkTypeOK, Calling
  <2>3. \A l \in Lanes : ToSet(line'[l]) = {k \in Job : mode' # "live" /\ LaneOf[k] = l /\ Inside(k)'}
    BY <2>1 DEF WorkInv, Queued
  <2>4. \A k \in ToSet(slotLine') : Inside(k)' /\ HoldsLane(k)'
    BY <2>1, <2>2 DEF WorkInv, Queued
  <2>5. \A k \in Calling' : HoldsSlot(k)'
    BY <1>1, <2>1, <2>2 DEF WorkInv, Queued
  <2> QED
    BY <2>1, <2>3, <2>4, <2>5 DEF WorkInv, Queued
<1>3. Computing' /\ LanesAlone'
  BY <1>1, Idle
<1>4. WorkTypeOK'
  BY DEF WorkInv, WorkTypeOK
<1> QED
  BY <1>2, <1>3, <1>4 DEF WorkInv

LEMMA WorkStarts == WorkInit => WorkInv
<1> SUFFICES ASSUME WorkInit PROVE WorkInv
  OBVIOUS
<1>1. WorkTypeOK
  BY DEF WorkInit, WorkTypeOK
<1>2. Calling = {} /\ \A j \in Job : ~Inside(j)
  BY DEF WorkInit, Calling, Inside
<1>3. Queued
  BY <1>2 DEF WorkInit, Queued, IsInjective, ToSet
<1>4. Computing /\ LanesAlone
  BY <1>2, FS_EmptySet, WorkSizes DEF WorkInit, Computing, LanesAlone
<1> QED
  BY <1>1, <1>3, <1>4 DEF WorkInv

LEMMA WorkSteps == WorkInv /\ [WorkNext]_workVars => WorkInv'
<1> SUFFICES ASSUME WorkInv, [WorkNext]_workVars PROVE WorkInv'
  OBVIOUS
<1>0. outcome \in {"running", "gathered", "failed", "cancelled"} /\ Calling \subseteq threads
  BY DEF WorkInv, WorkTypeOK, Computing
<1>1. ASSUME NEW j \in Job, Begin(j) \/ Seat(j) \/ Call(j) PROVE WorkInv'
  BY <1>1, WorkBegin, WorkSeat, WorkCall
<1>2. ASSUME NEW j \in Job, Answer(j) \/ Fail(j) \/ TimeOut(j) PROVE WorkInv'
  BY <1>2, WorkEnd
<1>3. ASSUME NEW j \in Job, Unwind(j) PROVE WorkInv'
  BY <1>3, WorkUnwind
<1>4. ASSUME NEW j \in Job, ThreadEnds(j) PROVE WorkInv'
  <2>1. threads' = threads \ {j} /\ j \in threads /\ j \notin Calling
    BY <1>4 DEF ThreadEnds, Calling
  <2>2. outcome = "cancelled"
    BY <2>1 DEF WorkInv, Computing
  <2> QED
    BY <1>0, <1>4, <2>1, <2>2, WorkStill DEF ThreadEnds
<1>5. CASE Gather \/ CancelWork
  BY <1>0, <1>5, WorkStill DEF Gather, CancelWork
<1>6. CASE UNCHANGED workVars
  BY <1>0, <1>6, WorkStill DEF workVars
<1> QED
  BY <1>1, <1>2, <1>3, <1>4, <1>5, <1>6 DEF WorkNext

--------------------------------------------------------------------------------
(* Nobody waits for what is free.                                          *)

LEMMA LeastNat ==
  ASSUME NEW S \in SUBSET Nat, S # {}
  PROVE  \E n \in S : \A k \in S : n <= k
<1>1. \E n \in S : ~ \E k \in S : <<k, n>> \in OpToRel(<, Nat)
  BY WFMin, NatLessThanWellFounded, Zenon
<1> QED
  BY <1>1 DEF OpToRel

\* When nothing can be handed over, the semaphore's line has one job for each lane
\* with work left (in the live loop, every job), and the first of it call.
LEMMA NothingIdle == WorkInv => NoIdleSlot
<1> DEFINE still == {j \in Job : state[j] # "done"}
           lanes == {LaneOf[j] : j \in still}
<1> SUFFICES ASSUME WorkInv, outcome \in {"running", "failed"},
                    \A j \in Job : ~(MayBegin(j) \/ MaySeat(j) \/ MayCall(j))
             PROVE  LET busy == IF mode = "live" THEN still ELSE lanes
                    IN  Cardinality(Calling) = (IF Cardinality(busy) < Slots THEN Cardinality(busy) ELSE Slots)
  BY DEF NoIdleSlot
<1>0. WorkTypeOK /\ Queued /\ slotLine \in Seq(Job) /\ IsInjective(slotLine) /\ ToSet(slotLine) \subseteq Job
  BY DEF WorkInv, WorkTypeOK, Queued, ToSet
<1>1. \A j \in Job : state[j] # "new"
  <2> SUFFICES ASSUME {j \in Job : state[j] = "new"} # {} PROVE FALSE
    OBVIOUS
  <2>1. {j \in Job : state[j] = "new"} \in SUBSET Nat
    BY WorkSizes
  <2>2. PICK m \in {j \in Job : state[j] = "new"} : \A k \in {j \in Job : state[j] = "new"} : m <= k
    BY <2>1, LeastNat
  <2>3. m \in Job /\ state[m] = "new"
    BY <2>2
  <2>4. \A k \in 1..(m - 1) : k \in Job /\ ~(m <= k)
    BY <2>3, WorkSizes DEF Job
  <2>5. MayBegin(m)
    BY <2>2, <2>3, <2>4 DEF MayBegin
  <2> QED
    BY <2>3, <2>5
<1>2. still = {j \in Job : Inside(j)}
  BY <1>0, <1>1 DEF Inside, WorkTypeOK
<1>3. Calling \subseteq ToSet(slotLine)
  <2>1. FirstOf(slotLine, Slots) \subseteq ToSet(slotLine)
    BY DEF FirstOf, ToSet
  <2> QED
    BY <1>0, <2>1 DEF Queued, HoldsSlot
<1>4. Calling = FirstOf(slotLine, Slots)
  <2>1. \A j \in FirstOf(slotLine, Slots) : j \in ToSet(slotLine)
    BY DEF FirstOf, ToSet
  <2>2. \A j \in FirstOf(slotLine, Slots) : state[j] = "calling"
    BY <1>0, <2>1 DEF Queued, Inside, MayCall, HoldsSlot
  <2> QED
    BY <1>0, <2>1, <2>2 DEF Queued, HoldsSlot, Calling
<1>5. /\ IsFiniteSet(ToSet(slotLine)) /\ Cardinality(ToSet(slotLine)) = Len(slotLine)
      /\ Cardinality(Calling) = (IF Len(slotLine) < Slots THEN Len(slotLine) ELSE Slots)
  BY <1>0, <1>4, LineSizes, WorkSizes
<1>6. CASE mode = "live"
  <2>1. still = ToSet(slotLine)
    BY <1>0, <1>2, <1>6 DEF Queued
  <2> QED
    BY <1>5, <1>6, <2>1
<1>7. CASE mode # "live"
  <2> DEFINE f == [j \in ToSet(slotLine) |-> LaneOf[j]]
  <2>1. \A j \in ToSet(slotLine) : LaneOf[j] \in lanes
    BY <1>0, <1>2 DEF Queued
  <2>2. \A i, j \in ToSet(slotLine) : LaneOf[i] = LaneOf[j] => i = j
    BY <1>0, <1>7 DEF Queued, HoldsLane
  <2>3. ASSUME NEW j \in still
        PROVE  \E h \in ToSet(slotLine) : LaneOf[h] = LaneOf[j]
    <3> DEFINE l == LaneOf[j]
               h == Head(line[l])
    <3>1. l \in Lanes /\ Inside(j)
      BY <1>2, WorkSizes
    <3>2. line[l] \in Seq(Job) /\ j \in ToSet(line[l])
      BY <1>0, <1>7, <3>1 DEF WorkTypeOK, Queued
    <3>3. line[l] # <<>>
      BY <3>2 DEF ToSet
    <3>4. h \in ToSet(line[l])
      BY <3>2, <3>3 DEF ToSet
    <3>5. h \in Job /\ LaneOf[h] = l /\ Inside(h)
      BY <1>0, <3>1, <3>4 DEF Queued
    <3>6. HoldsLane(h)
      BY <3>3, <3>5 DEF HoldsLane
    <3> HIDE DEF h
    <3>7. h \in ToSet(slotLine)
      BY <1>3, <3>5, <3>6 DEF MaySeat, Inside, Calling
    <3> QED
      BY <3>5, <3>7
  <2>4. f \in Bijection(ToSet(slotLine), lanes)
    <3>1. f \in [ToSet(slotLine) -> lanes]
      BY <2>1
    <3>2. \A l \in lanes : \E h \in ToSet(slotLine) : f[h] = l
      BY <2>3
    <3> QED
      BY <2>2, <3>1, <3>2 DEF Bijection, Injection, Surjection, IsInjective
  <2>5. Cardinality(lanes) = Cardinality(ToSet(slotLine))
    <3>1. ExistsBijection(ToSet(slotLine), lanes)
      BY <2>4 DEF ExistsBijection
    <3> HIDE DEF lanes
    <3> QED
      BY <1>5, <3>1, FS_Bijection
  <2> QED
    BY <1>5, <1>7, <2>5
<1> QED
  BY <1>6, <1>7

\* What LaneWork.tla says of the lines, the lanes, the slots and the threads, in every
\* state of a batch.
THEOREM WorkInvariant == WorkSpec => []WorkInv
<1>1. WorkInit => WorkInv
  BY WorkStarts
<1>2. WorkInv /\ [WorkNext]_workVars => WorkInv'
  BY WorkSteps
<1> QED
  BY <1>1, <1>2, PTL DEF WorkSpec

\* automatic_diligence.py run, automatic_runtime.py _analyze_batch, live_runtime.py
\* _analyze_issuers: for every number of jobs, lanes and slots and whatever the calls do,
\* no lane works twice at a time, no more work than there are slots, and none of them is
\* left idle while a lane has work.
THEOREM LanesStayUsed == WorkSpec => []LanesUsed
<1>1. WorkInv => LanesUsed
  BY NothingIdle DEF WorkInv, LanesUsed
<1> QED
  BY <1>1, WorkInvariant, PTL
================================================================================
