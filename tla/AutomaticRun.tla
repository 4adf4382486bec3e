------------------------------ MODULE AutomaticRun ------------------------------
(***************************************************************************)
(* AutomaticLiveRuntime.stream: discover a cohort, collect evidence in     *)
(* batches, screen the trusted issuers in waves over the lanes, stop at    *)
(* the coverage gate or rank, let an optional model review the head of the *)
(* shortlist, and surface the shortlist.                                   *)
(*                                                                         *)
(* The generator is suspended at every yield until its draft is published, *)
(* so a step is: yield the next draft, and have reduce_event project it.   *)
(* Members, waves and batches are in manifest order: member m is the m-th, *)
(* and the next one of a loop is the first of those still to come.         *)
(***************************************************************************)
EXTENDS Integers, FiniteSets

CONSTANTS
  MinMembers,      \* policy.minimum_size
  MaxMembers,      \* policy.target_size
  Lanes,           \* LOGICAL_AGENT_LANES
  BatchSize,       \* collection_batch_size
  Slots,           \* min(spec.active_slots, LOGICAL_AGENT_LANES)
  MinScreened,     \* minimum_screened_count
  RatioNum,        \* minimum_screened_ratio is RatioNum / RatioDen
  RatioDen,
  CandidateLimit,  \* candidate_limit
  DiligenceLimit   \* diligence_limit, 0 without a diligence_model

\* What __init__ and UniversePolicy admit.
ASSUME AutomaticAssumption ==
  /\ MinMembers \in Nat \ {0} /\ MaxMembers \in Nat /\ MinMembers <= MaxMembers
  /\ Lanes \in Nat \ {0}
  /\ BatchSize \in Nat \ {0}
  /\ Slots \in 1..Lanes
  /\ MinScreened \in 1..MaxMembers
  /\ RatioDen \in Nat \ {0} /\ RatioNum \in 1..RatioDen
  /\ CandidateLimit \in 1..MaxMembers
  /\ DiligenceLimit \in Nat /\ DiligenceLimit <= CandidateLimit /\ DiligenceLimit <= Lanes

VARIABLES
  at,         \* where the generator is suspended: see Place
  size,       \* len(manifest.members), 0 before discovery
  offset,     \* members asked of the collector
  due,        \* of the loop in progress: who is still to come
  untrusted,  \* of a batch: the members without evidence still to fail
  ready,      \* ready_by_ticker
  failed,     \* progress.failed_tickers
  pending,    \* ready members in no wave yet
  wave,       \* the wave in progress
  broken,     \* of the wave or the jobs: those whose result is an error
  screened,   \* analyses
  shortlist,  \* [1..n -> member]: ranked_rows[:candidate_limit]
  deep,       \* diligence_by_entity
  client,     \* the owned SecDataClient: "open" or "closed"
  status,     \* RunState.tasks[t].status
  agent,      \* RunState.agents[l].status, the waiting status read as running
  evidence,   \* members whose records are in RunState.evidence
  surfaced,   \* RunState.candidates
  run         \* RunState.status; "refused": failed by reduce_event

cohort     == <<size, offset, ready>>
screening  == <<failed, pending, wave, screened>>
ranking    == <<shortlist, deep>>
projection == <<status, agent, evidence, surfaced, run>>
vars == <<at, due, untrusted, broken, client, cohort, screening, ranking, projection>>

Place == {"start", "discover", "batch", "reject", "screen", "tool", "results", "drop", "keep", "gate",
          "rank", "jobs", "turn", "outcomes", "outcome", "refuse", "validate", "surface",
          "retire", "end", "done"}

Lane      == 1..Lanes
Members   == 1..size

LaneOf(m) == ((m - 1) % Lanes) + 1

First(S) == {m \in S : \A k \in S : m <= k}
Lesser(a, b) == IF a <= b THEN a ELSE b
Greater(a, b) == IF a >= b THEN a ELSE b

--------------------------------------------------------------------------------
(* The plan: scaled_planned_tasks.                                         *)

Screen(m)    == <<"screen", m>>
Diligence(j) == <<"diligence", j>>
Validator    == <<"validator", 1>>

Screens     == {Screen(m) : m \in Members}
Diligences  == {Diligence(j) : j \in 1..DiligenceLimit}
Plan        == Screens \cup Diligences \cup {Validator}

AgentOf(t) == IF t \in Screens THEN LaneOf(t[2]) ELSE t[2]

DependsOn(t) ==
  IF t \in Screens THEN {} ELSE IF t = Validator THEN Screens \cup Diligences ELSE Screens

Success    == {"complete", "partial"}
Terminal   == Success \cup {"failed", "skipped"}
Active     == {"running", "waiting_model", "waiting_tool"}
TaskStatus == {"queued"} \cup Active \cup Terminal

--------------------------------------------------------------------------------
(* reduce_event.                                                           *)

\* The statuses a task event may find its task in, and the one it leaves it in.
From(kind) ==
  CASE kind = "TASK_STARTED" -> {"queued"}
    [] kind = "MODEL_TURN_COMPLETED" -> {"waiting_model"}
    [] kind \in {"TOOL_COMPLETED", "TOOL_FAILED"} -> {"waiting_tool"}
    [] kind = "TASK_FAILED" -> Active
    [] OTHER -> {"running"}

To(kind) ==
  CASE kind = "MODEL_TURN_STARTED" -> "waiting_model"
    [] kind = "TOOL_STARTED"       -> "waiting_tool"
    [] kind = "TASK_COMPLETED"     -> "complete"
    [] kind = "TASK_PARTIAL"       -> "partial"
    [] kind = "TASK_FAILED"        -> "failed"
    [] OTHER                       -> "running"

\* Only diligence and the validator allow failed dependencies; screens have none.
Accepts(kind, t) ==
  /\ status[t] \in From(kind)
  /\ kind = "TASK_STARTED" => \A d \in DependsOn(t) : status[d] \in Terminal

\* The draft is published, or the run fails with a StateInvariantError and the
\* generator is left where it is.
Publish(kind, t) ==
  /\ IF Accepts(kind, t)
       THEN /\ status' = [status EXCEPT ![t] = To(kind)]
            /\ agent' = [agent EXCEPT ![AgentOf(t)] = "running"]
            /\ UNCHANGED run
       ELSE run' = "refused" /\ UNCHANGED <<status, agent>>
  /\ UNCHANGED <<evidence, surfaced>>

Running == run = "running"
--------------------------------------------------------------------------------
(* The checks of stream(), and discovery.                                  *)

\* What a RunSpec may ask for; its own __post_init__ bounds the lanes.
Specs ==
  [mode : {"automatic_live", "live"}, universe_size : {MaxMembers, MaxMembers + 1}, agent_budget : 1..Lanes]

Fits(spec) ==
  spec.mode = "automatic_live" /\ spec.universe_size = MaxMembers /\ spec.agent_budget = Lanes

\* stream() checks the spec before the try that closes the client.
Reject ==
  /\ Running /\ at = "start"
  /\ \E spec \in Specs : ~Fits(spec)
  /\ at' = "done" /\ run' = "failed"
  /\ UNCHANGED <<client, due, untrusted, broken, cohort, screening, ranking, status, agent, evidence, surfaced>>

\* STAGE_STARTED of the universe.
Open ==
  /\ Running /\ at = "start"
  /\ \E spec \in Specs : Fits(spec)
  /\ at' = "discover"
  /\ UNCHANGED <<client, due, untrusted, broken, cohort, screening, ranking, projection>>

\* The generator raises inside the try: stream() closes the client, _drive fails
\* the run.
Raise ==
  /\ at' = "done"
  /\ client' = "closed"
  /\ run' = "failed"
  /\ UNCHANGED <<due, untrusted, broken, cohort, screening, ranking, status, agent, evidence, surfaced>>

\* UniverseCoverageError, UniverseDiscoveryError.
DiscoveryFails == Running /\ at = "discover" /\ Raise

\* The manifest, AGENT_REGISTERED and AGENT_STARTED for every lane, and
\* WORKFLOW_PLANNED.
Discover ==
  /\ Running /\ at = "discover"
  /\ size' \in MinMembers..MaxMembers
  /\ status' = [t \in Plan' |-> "queued"]
  /\ agent' = [l \in Lane |-> "running"]
  /\ at' = "batch"
  /\ UNCHANGED <<due, untrusted, broken, client, offset, ready, screening, ranking, evidence, surfaced, run>>

--------------------------------------------------------------------------------
(* Collection: a batch yields the records of its trusted issuers, then     *)
(* fails the screens of the others.                                        *)

Collect ==
  /\ Running /\ at = "batch" /\ due = {} /\ untrusted = {}
  /\ offset < size
  /\ offset' = Lesser(offset + BatchSize, size)
  /\ \E trusted \in SUBSET ((offset + 1)..offset') :
       /\ due' = trusted
       /\ ready' = ready \cup trusted
       /\ untrusted' = ((offset + 1)..offset') \ trusted
  /\ UNCHANGED <<at, broken, client, size, screening, ranking, projection>>

RecordEvidence ==
  /\ Running /\ at = "batch" /\ due # {}
  /\ \E m \in First(due) :
       /\ evidence' = evidence \cup {m}
       /\ due' = due \ {m}
  /\ UNCHANGED <<at, untrusted, broken, client, cohort, screening, ranking, status, agent, surfaced, run>>

\* Mutant: an issuer without evidence is not counted as failed.
AdmitUntrusted_Uncounted ==
  /\ Running /\ at = "batch" /\ due = {} /\ untrusted # {}
  /\ \E m \in First(untrusted) : Publish("TASK_STARTED", Screen(m))
  /\ at' = "reject"
  /\ UNCHANGED <<due, untrusted, broken, client, cohort, screening, ranking>>

AdmitUntrusted ==
  /\ Running /\ at = "batch" /\ due = {} /\ untrusted # {}
  /\ \E m \in First(untrusted) :
       /\ failed' = failed \cup {m}
       /\ Publish("TASK_STARTED", Screen(m))
  /\ at' = "reject"
  /\ UNCHANGED <<due, untrusted, broken, client, cohort, pending, wave, screened, ranking>>

RejectUntrusted ==
  /\ Running /\ at = "reject"
  /\ \E m \in First(untrusted) :
       /\ Publish("TASK_FAILED", Screen(m))
       /\ untrusted' = untrusted \ {m}
  /\ at' = "batch"
  /\ UNCHANGED <<due, broken, client, cohort, screening, ranking>>

EndCollection ==
  /\ Running /\ at = "batch" /\ due = {} /\ untrusted = {} /\ offset = size
  /\ pending' = ready
  /\ at' = "results"
  /\ UNCHANGED <<due, untrusted, broken, client, cohort, failed, wave, screened, ranking, projection>>

--------------------------------------------------------------------------------
(* Screening: _analysis_waves takes the issuers first fit, one per lane,   *)
(* up to the slots; a wave starts all its tasks, then reads all results.   *)

\* Mutant: the wave is filled whatever lanes are in use.
Wave_SharedLanes(S) == {m \in S : Cardinality({k \in S : k < m}) < Slots}

\* Mutant: a wave takes the last issuer of a lane first.
Wave_LastOfLane(S) ==
  LET lasts == {m \in S : \A k \in S : LaneOf(k) = LaneOf(m) => k <= m}
  IN  {m \in lasts : Cardinality({k \in lasts : k < m}) < Slots}

Wave(S) ==
  LET firsts == {m \in S : \A k \in S : LaneOf(k) = LaneOf(m) => m <= k}
  IN  {m \in firsts : Cardinality({k \in firsts : k < m}) < Slots}

PlanWave ==
  /\ Running /\ at = "results" /\ due = {} /\ pending # {}
  /\ wave' = Wave(pending)
  /\ due' = wave'
  /\ pending' = pending \ wave'
  /\ at' = "screen"
  /\ UNCHANGED <<untrusted, broken, client, cohort, failed, screened, ranking, projection>>

StartScreen ==
  /\ Running /\ at = "screen" /\ due # {}
  /\ \E m \in First(due) : Publish("TASK_STARTED", Screen(m))
  /\ at' = "tool"
  /\ UNCHANGED <<due, untrusted, broken, client, cohort, screening, ranking>>

StartTool ==
  /\ Running /\ at = "tool"
  /\ \E m \in First(due) :
       /\ Publish("TOOL_STARTED", Screen(m))
       /\ due' = due \ {m}
  /\ at' = "screen"
  /\ UNCHANGED <<untrusted, broken, client, cohort, screening, ranking>>

\* _analyze_batch: every result is an IssuerAnalysis or an exception.
AnalyseWave ==
  /\ Running /\ at = "screen" /\ due = {}
  /\ broken' \in SUBSET wave
  /\ due' = wave
  /\ at' = "results"
  /\ UNCHANGED <<untrusted, client, cohort, screening, ranking, projection>>

ToolFails ==
  /\ Running /\ at = "results" /\ due # {}
  /\ \E m \in First(due) \cap broken :
       /\ failed' = failed \cup {m}
       /\ Publish("TOOL_FAILED", Screen(m))
  /\ at' = "drop"
  /\ UNCHANGED <<due, untrusted, broken, client, cohort, pending, wave, screened, ranking>>

FailScreen ==
  /\ Running /\ at = "drop"
  /\ \E m \in First(due) :
       /\ Publish("TASK_FAILED", Screen(m))
       /\ due' = due \ {m}
  /\ at' = "results"
  /\ UNCHANGED <<untrusted, broken, client, cohort, screening, ranking>>

ToolCompletes ==
  /\ Running /\ at = "results" /\ due # {}
  /\ \E m \in First(due) \ broken :
       /\ screened' = screened \cup {m}
       /\ Publish("TOOL_COMPLETED", Screen(m))
  /\ at' = "keep"
  /\ UNCHANGED <<due, untrusted, broken, client, cohort, failed, pending, wave, ranking>>

\* Partial when _analysis_gaps finds gaps.
CompleteScreen ==
  /\ Running /\ at = "keep"
  /\ \E m \in First(due), kind \in {"TASK_COMPLETED", "TASK_PARTIAL"} :
       /\ Publish(kind, Screen(m))
       /\ due' = due \ {m}
  /\ at' = "results"
  /\ UNCHANGED <<untrusted, broken, client, cohort, screening, ranking>>

--------------------------------------------------------------------------------
(* The coverage gate.                                                      *)

\* Mutant: the ratio is rounded down.
Required_Down == Greater(MinScreened, (size * RatioNum) \div RatioDen)

\* Mutant: the minimum count is forgotten.
Required_RatioOnly == (size * RatioNum + RatioDen - 1) \div RatioDen

Required == Greater(MinScreened, (size * RatioNum + RatioDen - 1) \div RatioDen)

Screened == Running /\ at = "results" /\ due = {} /\ pending = {}

StopAtGate ==
  /\ Screened
  /\ Cardinality(screened) < Required
  /\ due' = Lane
  /\ at' = "gate"
  /\ UNCHANGED <<untrusted, broken, client, cohort, screening, ranking, projection>>

FailLane ==
  /\ Running /\ at = "gate" /\ due # {}
  /\ \E l \in First(due) :
       /\ agent' = [agent EXCEPT ![l] = "failed"]
       /\ due' = due \ {l}
  /\ UNCHANGED <<at, untrusted, broken, client, cohort, screening, ranking, status, evidence, surfaced, run>>

\* AutomaticCoverageError.
CoverageNotMet == Running /\ at = "gate" /\ due = {} /\ Raise

--------------------------------------------------------------------------------
(* Ranking and diligence.                                                  *)

\* ranked_rows[:candidate_limit]: which issuers lead is up to the data.
Shortlists ==
  {s \in [1..Lesser(CandidateLimit, Cardinality(screened)) -> screened] :
     \A i, j \in DOMAIN s : s[i] = s[j] => i = j}

Jobs == DOMAIN shortlist \cap 1..DiligenceLimit

\* RUN_SYNTHESIZING; the jobs are those of shortlist[:diligence_limit].
Rank ==
  /\ Screened
  /\ Cardinality(screened) >= Required
  /\ shortlist' \in Shortlists
  /\ due' = Jobs'
  /\ at' = "jobs"
  /\ UNCHANGED <<untrusted, broken, client, cohort, screening, deep, projection>>

StartJob ==
  /\ Running /\ at = "jobs" /\ due # {}
  /\ \E j \in First(due) : Publish("TASK_STARTED", Diligence(j))
  /\ at' = "turn"
  /\ UNCHANGED <<due, untrusted, broken, client, cohort, screening, ranking>>

StartTurn ==
  /\ Running /\ at = "turn"
  /\ \E j \in First(due) :
       /\ Publish("MODEL_TURN_STARTED", Diligence(j))
       /\ due' = due \ {j}
  /\ at' = "jobs"
  /\ UNCHANGED <<untrusted, broken, client, cohort, screening, ranking>>

\* BoundedDiligenceRunner.run: an output or a reason for every job.
RunJobs ==
  /\ Running /\ at = "jobs" /\ due = {}
  /\ broken' \in SUBSET Jobs
  /\ due' = Jobs
  /\ at' = "outcomes"
  /\ UNCHANGED <<untrusted, client, cohort, screening, ranking, projection>>

\* Mutant: an answer counts as a review before it is validated.
CompleteTurn_Counts ==
  /\ Running /\ at = "outcomes" /\ due # {}
  /\ \E j \in First(due) :
       /\ deep' = deep \cup {shortlist[j]}
       /\ Publish("MODEL_TURN_COMPLETED", Diligence(j))
  /\ at' = "outcome"
  /\ UNCHANGED <<due, untrusted, broken, client, cohort, screening, shortlist>>

CompleteTurn ==
  /\ Running /\ at = "outcomes" /\ due # {}
  /\ \E j \in First(due) : Publish("MODEL_TURN_COMPLETED", Diligence(j))
  /\ at' = "outcome"
  /\ UNCHANGED <<due, untrusted, broken, client, cohort, screening, ranking>>

RejectReview ==
  /\ Running /\ at = "outcome"
  /\ \E j \in First(due) \cap broken : Publish("ACTION_REJECTED", Diligence(j))
  /\ at' = "refuse"
  /\ UNCHANGED <<due, untrusted, broken, client, cohort, screening, ranking>>

FailReview ==
  /\ Running /\ at = "refuse"
  /\ \E j \in First(due) :
       /\ Publish("TASK_FAILED", Diligence(j))
       /\ due' = due \ {j}
  /\ at' = "outcomes"
  /\ UNCHANGED <<untrusted, broken, client, cohort, screening, ranking>>

CompleteReview ==
  /\ Running /\ at = "outcome"
  /\ \E j \in First(due) \ broken :
       /\ deep' = deep \cup {shortlist[j]}
       /\ Publish("TASK_COMPLETED", Diligence(j))
       /\ due' = due \ {j}
  /\ at' = "outcomes"
  /\ UNCHANGED <<untrusted, broken, client, cohort, screening, shortlist>>

--------------------------------------------------------------------------------
(* The validator, the candidates and the end.                              *)

StartValidator ==
  /\ Running /\ at = "outcomes" /\ due = {}
  /\ Publish("TASK_STARTED", Validator)
  /\ at' = "validate"
  /\ UNCHANGED <<due, untrusted, broken, client, cohort, screening, ranking>>

CompleteValidator ==
  /\ Running /\ at = "validate"
  /\ Publish(IF failed = {} THEN "TASK_COMPLETED" ELSE "TASK_PARTIAL", Validator)
  /\ due' = DOMAIN shortlist
  /\ at' = "surface"
  /\ UNCHANGED <<untrusted, broken, client, cohort, screening, ranking>>

\* CANDIDATE_UPDATED, by screen rank.
Surface ==
  /\ Running /\ at = "surface" /\ due # {}
  /\ \E r \in First(due) :
       /\ surfaced' = surfaced \cup {shortlist[r]}
       /\ due' = due \ {r}
  /\ UNCHANGED <<at, untrusted, broken, client, cohort, screening, ranking, status, agent, evidence, run>>

EndSurface ==
  /\ Running /\ at = "surface" /\ due = {}
  /\ due' = Lane
  /\ at' = "retire"
  /\ UNCHANGED <<untrusted, broken, client, cohort, screening, ranking, projection>>

\* Mutant: only lanes with a screen of their own are retired.
RetireLane_IfUsed ==
  /\ Running /\ at = "retire" /\ due # {}
  /\ \E l \in First(due) :
       /\ agent' = IF \E m \in Members : LaneOf(m) = l
                     THEN [agent EXCEPT ![l] = "complete"] ELSE agent
       /\ due' = due \ {l}
  /\ UNCHANGED <<at, untrusted, broken, client, cohort, screening, ranking, status, evidence, surfaced, run>>

RetireLane ==
  /\ Running /\ at = "retire" /\ due # {}
  /\ \E l \in First(due) :
       /\ agent' = [agent EXCEPT ![l] = "complete"]
       /\ due' = due \ {l}
  /\ UNCHANGED <<at, untrusted, broken, client, cohort, screening, ranking, status, evidence, surfaced, run>>

\* WORKFLOW_COMPLETED.
CompleteWorkflow ==
  /\ Running /\ at = "retire" /\ due = {}
  /\ run' = IF \A t \in Plan : status[t] \in Terminal THEN "running" ELSE "refused"
  /\ at' = "end"
  /\ UNCHANGED <<due, untrusted, broken, client, cohort, screening, ranking, status, agent, evidence, surfaced>>

\* Mutant: the client is closed only when something was raised.
Finish_KeepsClient ==
  /\ Running /\ at = "end"
  /\ at' = "done"
  /\ run' = "complete"
  /\ UNCHANGED <<due, untrusted, broken, client, cohort, screening, ranking, status, agent, evidence, surfaced>>

\* The finally of stream(), then RUN_COMPLETED.
Finish ==
  /\ Running /\ at = "end"
  /\ at' = "done"
  /\ client' = "closed"
  /\ run' = "complete"
  /\ UNCHANGED <<due, untrusted, broken, cohort, screening, ranking, status, agent, evidence, surfaced>>

\* The operator cancels: an await raises in the generator, which closes its
\* client; a generator suspended at a yield is left to the finaliser.
Cancel ==
  /\ Running
  /\ run' = "cancelled"
  /\ \/ at # "start" /\ at' = "done" /\ client' = "closed"
     \/ UNCHANGED <<at, client>>
  /\ UNCHANGED <<due, untrusted, broken, cohort, screening, ranking, status, agent, evidence, surfaced>>

\* The event loop's hook closes an abandoned generator; closing one that has not
\* begun runs none of it.
Finalise ==
  /\ ~Running /\ at # "done"
  /\ at' = "done"
  /\ client' = IF at = "start" THEN client ELSE "closed"
  /\ UNCHANGED <<due, untrusted, broken, cohort, screening, ranking, projection>>

--------------------------------------------------------------------------------
Opening == Reject \/ Open

Collection ==
  \/ Discover \/ DiscoveryFails
  \/ Collect \/ RecordEvidence \/ AdmitUntrusted \/ RejectUntrusted \/ EndCollection

Screening ==
  \/ PlanWave \/ StartScreen \/ StartTool \/ AnalyseWave
  \/ ToolFails \/ FailScreen \/ ToolCompletes \/ CompleteScreen
  \/ StopAtGate \/ FailLane \/ CoverageNotMet

Synthesis ==
  \/ Rank \/ StartJob \/ StartTurn \/ RunJobs
  \/ CompleteTurn \/ RejectReview \/ FailReview \/ CompleteReview
  \/ StartValidator \/ CompleteValidator \/ Surface \/ EndSurface
  \/ RetireLane \/ CompleteWorkflow \/ Finish

Init ==
  /\ at = "start"
  /\ size = 0
  /\ offset = 0
  /\ due = {} /\ untrusted = {} /\ ready = {} /\ failed = {} /\ pending = {}
  /\ wave = {} /\ broken = {} /\ screened = {} /\ deep = {}
  /\ shortlist = [j \in {} |-> 0]
  /\ client = "open"
  /\ status = [t \in {} |-> "queued"]
  /\ agent = [l \in {} |-> "running"]
  /\ evidence = {} /\ surfaced = {}
  /\ run = "running"

Next == Opening \/ Collection \/ Screening \/ Synthesis \/ Cancel \/ Finalise

Spec == Init /\ [][Next]_vars

\* The event loop resumes the generator, what it awaits answers or times out,
\* and the finaliser runs; nobody owes a cancel.
FairSpec == Spec /\ WF_vars(Opening \/ Collection \/ Screening \/ Synthesis) /\ WF_vars(Finalise)

--------------------------------------------------------------------------------
(* Properties.                                                             *)

TypeOK ==
  /\ at \in Place
  /\ size \in {0} \cup MinMembers..MaxMembers
  /\ offset \in 0..size
  /\ due \subseteq Members \cup Lane \cup 1..MaxMembers
  /\ untrusted \subseteq Members
  /\ ready \subseteq Members /\ failed \subseteq Members /\ pending \subseteq ready
  /\ wave \subseteq ready /\ screened \subseteq ready
  /\ broken \subseteq 1..MaxMembers
  /\ DOMAIN shortlist \subseteq 1..CandidateLimit
  /\ \A r \in DOMAIN shortlist : shortlist[r] \in screened
  /\ deep \subseteq screened
  /\ client \in {"open", "closed"}
  /\ status \in [IF size = 0 THEN {} ELSE Plan -> TaskStatus]
  /\ agent \in [IF size = 0 THEN {} ELSE Lane -> {"running", "complete", "failed"}]
  /\ evidence \subseteq ready
  /\ surfaced \subseteq screened
  /\ run \in {"running", "complete", "failed", "cancelled", "refused"}

\* A lane works on one screen at a time, and no more screens than slots are
\* under way, however batches, failures and waves cut up the cohort.
LanesExclusive ==
  LET underway == {m \in Members : size > 0 /\ status[Screen(m)] \in Active}
  IN  /\ Cardinality(underway) <= Slots
      /\ \A m, k \in underway : LaneOf(m) = LaneOf(k) => m = k

\* A lane screens its issuers in manifest order: none is overtaken by a later
\* one of its lane, in whatever waves they are deferred.
LaneOrder ==
  \A m, k \in ready :
    m < k /\ LaneOf(m) = LaneOf(k) /\ status[Screen(k)] # "queued" => status[Screen(m)] \in Terminal

\* _analysis_waves may cut the cohort up as it likes: lanes stay exclusive and in
\* order, and the slots suffice.
LanesKept == LanesExclusive /\ LaneOrder

\* The funnel adds up with the projection: a screen reads failed or done exactly
\* when its issuer was counted so, nobody is counted twice, and once a ranking
\* exists everybody is counted.
FunnelAgrees ==
  /\ failed \cap screened = {}
  /\ \A m \in Members :
       /\ status[Screen(m)] = "failed" => m \in failed
       /\ status[Screen(m)] \in Success => m \in screened \cap evidence
       /\ m \in failed \cup screened => status[Screen(m)] # "queued"
  /\ DOMAIN shortlist # {} => failed \cup screened = Members

\* Nothing is surfaced below the coverage the gate requires, from an unfinished
\* validation, or without its evidence in the journal.
CandidatesBacked ==
  surfaced # {} =>
    /\ surfaced \subseteq screened \cap evidence
    /\ RatioDen * Cardinality(screened) >= RatioNum * size
    /\ Cardinality(screened) >= MinScreened
    /\ status[Validator] \in Success

\* A shortlisted issuer counts as reviewed exactly when the task of its review
\* completed: a rejected answer, a timeout or a model error leaves no trace in
\* the funnel or the candidate.
ReviewsAgree ==
  \A j \in Jobs : shortlist[j] \in deep <=> status[Diligence(j)] = "complete"

\* A completed run left no task and no lane open, and surfaced the whole
\* shortlist, the reviewed issuers included; one stopped at the gate failed
\* every lane and surfaced nothing.
EndsSettled ==
  /\ run = "complete" =>
       /\ \A t \in Plan : status[t] \in Terminal
       /\ \A l \in Lane : agent[l] = "complete"
       /\ Cardinality(surfaced) = Lesser(CandidateLimit, Cardinality(screened))
       /\ deep \subseteq surfaced
  /\ run = "failed" => (\A l \in DOMAIN agent : agent[l] = "failed") /\ surfaced = {}

\* What a run ends with is what it did: candidates backed by the coverage the gate
\* asks for, reviews that took place, tasks and lanes that were closed.
ResultsHonest == CandidatesBacked /\ ReviewsAgree /\ EndsSettled

\* reduce_event accepts every draft of a run whose gate guarantees a row for
\* every planned review.
Enough == DiligenceLimit <= MinScreened
DraftsAccepted == Enough => run # "refused"

\* Every run comes to an end, and once its first stage has begun the client it owns
\* ends closed, on whichever way out.  Not so a run whose spec is refused: README,
\* section 4.
Settles ==
  /\ <>(run # "running") /\ <>(at = "done")
  /\ [](at = "discover" => <>(client = "closed"))

\* What the documentation says of the model: it "cannot change ... terminal
\* status".  A run that passed the gate does not fail.
StatusNotModels == run # "refused"

--------------------------------------------------------------------------------
(* The inductive invariant: what the place of the generator says of the    *)
(* funnel and of the projected tasks.                                      *)

Beginning  == at \in {"start", "discover"}
Collecting == at \in {"batch", "reject"}
Waving     == at \in {"screen", "tool", "results", "drop", "keep"}
Reviewing  == at \in {"jobs", "turn", "outcomes", "outcome", "refuse"}
Ending     == at \in {"validate", "surface", "retire", "end"}

Uncounted(m) == m \notin failed /\ m \notin screened
Waiting(m)   == Uncounted(m) /\ status[Screen(m)] = "queued"
Settled(m) ==
  \/ m \in screened /\ m \notin failed /\ status[Screen(m)] \in Success
  \/ m \in failed /\ m \notin screened /\ status[Screen(m)] = "failed"

\* The member the generator is at has its verdict, its screen not yet.
Verdict(m) ==
  /\ status[Screen(m)] = "running"
  /\ IF at = "keep" THEN m \in screened /\ m \notin failed ELSE m \in failed /\ m \notin screened

Started(m) == Uncounted(m) /\ status[Screen(m)] = "waiting_tool"

\* The members of the wave in progress.
InWave(m) ==
  CASE at = "screen" -> IF m \in due THEN Waiting(m) ELSE Started(m)
    [] at = "tool"   -> IF m \in First(due) THEN Uncounted(m) /\ status[Screen(m)] = "running"
                        ELSE IF m \in due THEN Waiting(m) ELSE Started(m)
    [] at \in {"drop", "keep"} ->
                        IF m \in First(due) THEN Verdict(m)
                        ELSE IF m \in due THEN Started(m) ELSE Settled(m)
    [] at = "results" -> IF m \in due THEN Started(m) ELSE Settled(m)
    [] OTHER         -> Settled(m)

\* Every member, from the batch it is asked for in to its verdict.
Member(m) ==
  /\ m > offset => m \notin ready /\ m \notin untrusted /\ Waiting(m)
  /\ m \in untrusted =>
       /\ m \notin ready
       /\ IF at = "reject" /\ m \in First(untrusted) THEN Verdict(m) ELSE Waiting(m)
  /\ m <= offset /\ m \notin ready /\ m \notin untrusted => Settled(m) /\ m \notin screened
  /\ m \in ready /\ Collecting => Waiting(m)
  /\ m \in pending => Waiting(m)
  /\ m \in wave => InWave(m)
  /\ m \in ready /\ ~Collecting => m \in pending \/ m \in wave \/ Settled(m)

\* The loops: what is still to come of what.
Loops ==
  /\ Collecting => pending = {} /\ wave = {} /\ due \subseteq ready
  /\ ~Collecting => offset = size /\ untrusted = {}
  /\ at = "reject" => due = {}
  /\ Waving => due \subseteq wave
  /\ at \in {"gate", "surface", "retire", "end", "validate"} \/ Reviewing => pending = {}
  /\ Reviewing => due \subseteq Jobs
  /\ at \in {"gate", "retire"} => due \subseteq Lane
  /\ at = "surface" => due \subseteq DOMAIN shortlist
  /\ pending \cap wave = {}
  /\ \A m \in (ready \ due) : Collecting => m \in evidence
  /\ ~Collecting => ready \subseteq evidence

\* First fit keeps the lanes in order.
WaveOrder ==
  /\ Cardinality(wave) <= Slots
  /\ \A m, k \in wave : LaneOf(m) = LaneOf(k) => m = k
  /\ \A m \in pending, k \in wave : LaneOf(m) = LaneOf(k) => k < m
  /\ ~Collecting =>
       \A m \in pending \cup wave, k \in ready :
         k \notin pending /\ k \notin wave /\ LaneOf(m) = LaneOf(k) => k < m

\* The reviews and the validator.
ReviewStatus(j) ==
  CASE at = "jobs"     -> IF j \in due THEN {"queued"} ELSE {"waiting_model"}
    [] at = "turn"     -> IF j \in First(due) THEN {"running"}
                          ELSE IF j \in due THEN {"queued"} ELSE {"waiting_model"}
    [] at = "outcomes" -> IF j \in due THEN {"waiting_model"} ELSE {"complete", "failed"}
    [] at \in {"outcome", "refuse"} ->
                          IF j \in First(due) THEN {"running"}
                          ELSE IF j \in due THEN {"waiting_model"} ELSE {"complete", "failed"}
    [] Ending          -> {"complete", "failed"}
    [] OTHER           -> {"queued"}

Reviews ==
  /\ \A j \in 1..DiligenceLimit :
       status[Diligence(j)] \in IF j \in Jobs THEN ReviewStatus(j) ELSE {"queued"}
  /\ status[Validator] \in
       CASE at = "validate" -> {"running"}
         [] at \in {"surface", "retire", "end"} -> Success
         [] OTHER -> {"queued"}

\* The gate is behind whoever has a shortlist.
Ranked ==
  IF Reviewing \/ Ending
    THEN Cardinality(screened) >= Required /\ shortlist \in Shortlists
    ELSE DOMAIN shortlist = {}

Placed == Loops /\ WaveOrder /\ Reviews /\ Ranked /\ \A m \in Members : Member(m)

\* The generator and the projection agree while the run goes on; what it left
\* behind is consistent when it has ended.
Consistent ==
  /\ Running /\ ~Beginning => size > 0 /\ Placed
  /\ Beginning => size = 0 /\ due = {}
  /\ Running => at # "done"

\* What a run has to show for itself so far: the rows surfaced, the reviews counted
\* and the lanes closed are those the generator is past, and the end kept them.
Past(r) == at # "surface" \/ r \notin due
Results ==
  /\ \A i, j \in DOMAIN shortlist : shortlist[i] = shortlist[j] => i = j
  /\ deep = {shortlist[j] : j \in {i \in Jobs : status[Diligence(i)] = "complete"}}
  /\ Running =>
       /\ surfaced = IF at \in {"surface", "retire", "end"}
                       THEN {shortlist[r] : r \in {q \in DOMAIN shortlist : Past(q)}} ELSE {}
       /\ at = "gate" => \A l \in Lane \ due : agent[l] = "failed"
       /\ at = "retire" => \A l \in Lane \ due : agent[l] = "complete"
       /\ at = "end" => (\A l \in Lane : agent[l] = "complete") /\ \A t \in Plan : status[t] \in Terminal
  /\ CandidatesBacked
  /\ EndsSettled
================================================================================
