---------------------------- MODULE DagSchedulerInv ----------------------------
(***************************************************************************)
(* The inductive invariant of DagScheduler: what holds of the scheduler's  *)
(* sets, of the queue, of the outcomes the workers write and of the        *)
(* projection the consumer builds, between any two steps.  The safety      *)
(* properties follow from it; DagSchedulerProofs proves that it is         *)
(* inductive.                                                              *)
(***************************************************************************)
EXTENDS DagScheduler

\* The generator still advances: no cancellation, no crash, no end.
Going == phase \in {"register", "scan", "yield", "get", "summary"}

\* The task the held draft is about, if the draft is of one of these kinds.
Drafted(kinds) == {t \in Task : draft.kind \in kinds /\ draft.task = t}
Starting == Drafted({"TASK_STARTED"})
Skipping == Drafted({"TASK_SKIPPED"})

Done == {"complete", "partial", "failed"}
Summing == {"AGENT_COMPLETED", "AGENT_FAILED", "WORKFLOW_COMPLETED"}

\* A worker puts its items in this order, and each worker state bounds how far
\* it has come.
Step(kind) == CASE kind = "PROGRESS" -> 1
                [] kind \in Verdict -> 2
                [] OTHER -> 3
Reached(w) == CASE w \in {"none", "created"} -> 0
                [] w = "live" -> 1
                [] w \in {"ended", "cancelling"} -> 2
                [] OTHER -> 3

--------------------------------------------------------------------------------
\* Where the generator is, and what that says of its draft and of the run.
PhaseInv ==
  /\ phase # "deadlocked"
  /\ phase = "yield" <=> draft.kind # "none"
  /\ Going => run = "running"
  /\ phase = "orphan" => run = "cancelled" /\ cause = "cancelled"
  /\ run \in {"complete", "failed"} => phase = "stopped"
  /\ phase = "drain" /\ run # "running" => cause = "cancelled"
  /\ phase = "register" \/ draft.kind \in {"AGENT_REGISTERED", "WORKFLOW_PLANNED"}
       => pending = Task /\ running = {} /\ busy = {}
  /\ phase = "summary" \/ draft.kind \in Summing => pending = {} /\ running = {}

\* Every task is pending, running or terminal, or the subject of the draft that
\* moves it from the first to one of the others.
PartitionInv ==
  /\ pending \cap running = {}
  /\ pending \cap terminal = {}
  /\ running \cap terminal = {}
  /\ (Starting \cup Skipping) \cap (pending \cup running \cup terminal) = {}
  /\ Going => Task \subseteq pending \cup running \cup terminal \cup Starting \cup Skipping

\* How far a task has come, in the scheduler's sets, its worker and its outcome.
Life(t) ==
  /\ t \in pending => outcome[t] = "queued" /\ worker[t] = "none"
  /\ t \in running => worker[t] # "none" /\ outcome[t] \in {"running"} \cup Done
  /\ t \in terminal => outcome[t] \in Terminal
  /\ t \in Starting => outcome[t] = "running" /\ worker[t] = "none"
  /\ t \in Skipping => outcome[t] = "skipped" /\ worker[t] = "none"
  /\ worker[t] \in Alive => t \in running
  /\ worker[t] \in {"created", "live"} => outcome[t] = "running"
  /\ worker[t] = "ended" => outcome[t] \in Done
LifeInv == \A t \in Task : Life(t)

\* The items of one task are in the worker's order, none is ahead of the worker,
\* and each says what the outcome says.
ItemInv(item) ==
  /\ item.task \in running
  /\ Step(item.kind) <= Reached(worker[item.task])
  /\ item.kind \in Verdict => outcome[item.task] = StatusAfter(item.kind)
  /\ item.kind = "FINISHED" => outcome[item.task] \in Done
  /\ item.kind = "CRASHED" => outcome[item.task] = "running"
QueueInv ==
  /\ \A i \in 1..Len(queue) : ItemInv(queue[i])
  /\ \A i, j \in 1..Len(queue) :
       i < j /\ queue[i].task = queue[j].task => Step(queue[i].kind) < Step(queue[j].kind)

\* The same of the draft, when it came out of the queue.
HeldInv ==
  draft.kind \in WorkerEvent =>
    /\ ItemInv(draft)
    /\ \A i \in 1..Len(queue) :
         queue[i].task = draft.task => Step(draft.kind) < Step(queue[i].kind)

\* t has emitted an event of one of these kinds that is not published yet.
InFlight(kinds, t) ==
  \/ draft.kind \in kinds /\ draft.task = t
  \/ \E i \in 1..Len(queue) : queue[i].kind \in kinds /\ queue[i].task = t

\* The projection lags behind the outcomes by exactly the results in flight.
Projected(t) ==
  /\ outcome[t] \in {"queued", "running"} => status[t] \in {"queued", "running"}
  /\ Going /\ t \in pending \cup Starting \cup Skipping => status[t] = "queued"
  /\ Going /\ t \in terminal => status[t] = outcome[t]
  /\ Going /\ t \in running => IF outcome[t] = "running" \/ InFlight(Verdict, t)
                                 THEN status[t] = "running"
                                 ELSE status[t] = outcome[t]
StatusInv == \A t \in Task : Projected(t)

\* Progress still to be published is progress of a task that runs.
ProgressInv ==
  Going => \A t \in Task : InFlight({"PROGRESS"}, t) => status[t] = "running"

\* Slots and agents: what is active is counted once, and everything active is
\* counted.
CapacityInv ==
  /\ Cardinality(running) <= Slots
  /\ Starting # {} => Cardinality(running) < Slots
  /\ \A t \in running \cup Starting : AgentOf[t] \in busy
  /\ \A t, u \in running \cup Starting : AgentOf[t] = AgentOf[u] => t = u
  /\ Going => \A a \in busy : \E t \in running \cup Starting : AgentOf[t] = a

\* A task is started or skipped over settled dependencies, and its ancestry is
\* empty exactly if all of them are complete.
DepsSettled(t) ==
  /\ t \in running \cup Starting \cup Skipping => Deps[t] \subseteq terminal
  /\ t \in Starting => t \in AllowFailed \/ FailedDeps(t) = {}
  /\ t \in Skipping => Blocked(t)
  /\ t \in running \cup Starting =>
       (ancestry[t] = {} <=> \A d \in Deps[t] : outcome[d] = "complete")
  /\ outcome[t] = "complete" => ancestry[t] = {}
  /\ outcome[t] = "partial" => ancestry[t] # {}
DepsInv == \A t \in Task : DepsSettled(t)

\* From the draft that starts it on, a task rests on settled outcomes only, and its
\* ancestry names what is not complete among the tasks that feed it.  Every task
\* with a result was started, no skipped one was, and no other has an ancestry.
Started(t) == t \in Starting \/ worker[t] # "none"
Settled    == {t \in Task : outcome[t] \in Terminal}
Rests(t) ==
  /\ outcome[t] \in Done => worker[t] # "none"
  /\ outcome[t] = "skipped" => worker[t] = "none"
  /\ worker[t] = "none" /\ t \notin Starting /\ Going => ancestry[t] = {}
  /\ Started(t) => /\ Deps[t] \subseteq Settled
                   /\ ancestry[t] = {u \in Feeding(outcome, t) : outcome[u] # "complete"}
AncestryInv == \A t \in Task : Rests(t)

\* What the summary reports of an agent.
AgentVerdict(a) == IF \E t \in Task : AgentOf[t] = a /\ outcome[t] \in Bad
                     THEN "failed" ELSE "complete"
DraftAgent == {a \in Agent : draft.kind \in AgentDraft /\ draft.agent = a}

\* Agents are registered once, before the plan, and reported once, after the
\* last task; a run that failed without the report left a task unfinished.
AgentInv ==
  /\ phase = "register" \/ draft.kind = "AGENT_REGISTERED" =>
       \A a \in Agent : agent[a] = "absent" <=> a \in left \cup DraftAgent
  /\ draft.kind \in AgentDraft => draft.agent \notin left
  /\ draft.kind \in {"WORKFLOW_PLANNED", "WORKFLOW_COMPLETED"} => left = {}
  /\ Going /\ phase # "register" /\ draft.kind # "AGENT_REGISTERED" =>
       \A a \in Agent : agent[a] # "absent"
  /\ phase = "summary" \/ draft.kind \in Summing =>
       \A a \in Agent \ (left \cup DraftAgent) : agent[a] = AgentVerdict(a)
  /\ draft.kind = "AGENT_FAILED" => AgentVerdict(draft.agent) = "failed"
  /\ draft.kind = "AGENT_COMPLETED" => AgentVerdict(draft.agent) = "complete"
  /\ phase = "drain" /\ cause = "failed" => \E t \in Task : status[t] \notin Terminal
  /\ AgentVerdicts

\* The inductive invariant: the scheduler's sets, its queue, the outcomes and the
\* published projection never disagree in a way that a later draft could expose.
Consistent ==
  /\ TypeOK
  /\ PhaseInv
  /\ PartitionInv
  /\ LifeInv
  /\ QueueInv
  /\ HeldInv
  /\ StatusInv
  /\ ProgressInv
  /\ CapacityInv
  /\ DepsInv
  /\ AncestryInv
  /\ AgentInv
================================================================================
