------------------------------ MODULE DagScheduler -----------------------------
(***************************************************************************)
(* FixedDagRuntime.stream with more than one effective slot: the scheduler *)
(* generator (_stream_concurrent_tasks), the worker tasks it creates       *)
(* (pump), the FIFO queue between them, and the consumer that publishes    *)
(* each draft through reduce_event (RunController._drive).                 *)
(*                                                                         *)
(* The scheduler and the workers are asyncio tasks of one thread; a step   *)
(* of this model is a piece of one of them between two suspension points   *)
(* or finer.  The scheduler is suspended in three places only: at a yield  *)
(* (the consumer holds the draft, for as long as the run is paused), at    *)
(* queue.get(), and in the gather of its finally block.                    *)
(*                                                                         *)
(* All drafts a worker emits between TASK_STARTED and its result (turns,   *)
(* tools, rejections) stand as one draft, "PROGRESS"; TaskLoop models them *)
(* one by one.  TASK_COMPLETED with partial = True is "TASK_PARTIAL".      *)
(***************************************************************************)
EXTENDS Naturals, Sequences, FiniteSets

CONSTANTS
  Task,         \* the tasks of the workflow
  Deps,         \* [Task -> SUBSET Task]: depends_on
  AgentOf,      \* [Task -> agent]: the agent a task belongs to
  Rank,         \* [Task -> 1, 2, ...]: position in topological_task_ids
  Required,     \* the tasks whose failure fails the run
  AllowFailed,  \* the tasks with allow_failed_dependencies
  Slots         \* min(workflow.active_slots, spec.active_slots)

\* What WorkflowDefinition.__post_init__ and its topological order guarantee.
ASSUME DagAssumption ==
  /\ IsFiniteSet(Task)
  /\ Deps \in [Task -> SUBSET Task]
  /\ DOMAIN AgentOf = Task
  /\ Rank \in [Task -> Nat \ {0}]
  /\ \A t, u \in Task : Rank[t] = Rank[u] => t = u
  /\ \A t \in Task : \A d \in Deps[t] : Rank[d] < Rank[t]
  /\ Required \subseteq Task
  /\ AllowFailed \subseteq Task
  /\ Slots \in Nat \ {0}

VARIABLES
  phase,       \* where the generator is: see Phase
  draft,       \* the draft it yielded and the consumer has not published yet
  pending,     \* pending: tasks neither started nor skipped
  terminal,    \* terminal: tasks the scheduler counts as settled
  running,     \* running.keys(): tasks with a worker in the dictionary
  busy,        \* active_agents
  cursor,      \* rank of the last task this pass over task_order started
  left,        \* agents still to be registered, or to be reported
  outcome,     \* outcomes[t].status ("queued" while t has no entry)
  ancestry,    \* outcomes[t].degraded_ancestry
  worker,      \* life of the asyncio task of t: see WorkerState
  queue,       \* the asyncio.Queue
  status,      \* RunState.tasks[t].status, the waiting states read as running
  agent,       \* RunState.agents[a].status, "absent" before registration
  run,         \* RunState.status
  cause,       \* what ends the run once the workers are drained
  gate         \* RunController._gate and who waits at it: see Gate

vars == <<phase, draft, pending, terminal, running, busy, cursor, left, outcome,
          ancestry, worker, queue, status, agent, run, cause, gate>>

scheduling == <<pending, terminal, running, busy, cursor, outcome, ancestry>>
projection == <<status, agent, run>>

--------------------------------------------------------------------------------
Agent == {AgentOf[t] : t \in Task}

Success    == {"complete", "partial"}
Bad        == {"failed", "skipped"}        \* _FAILED
Terminal   == Success \cup Bad             \* _TASK_TERMINAL
TaskStatus == {"queued", "running"} \cup Terminal

Phase == {"register", "scan", "yield", "get", "summary", "drain", "orphan",
          "stopped", "deadlocked"}
\* closed: set by pause(), a draft that reaches the gate is held there.  waking:
\* resume() has woken the holder, which has not run yet; slipped: paused again
\* before it ran (it will not look at the gate a second time).
Gate  == {"open", "closed", "waking", "slipped"}
WorkerState == {"none", "created", "live", "ended", "finished", "cancelling"}
Alive == {"created", "live", "ended", "cancelling"}

WorkerEvent == {"PROGRESS", "TASK_COMPLETED", "TASK_PARTIAL", "TASK_FAILED"}
TaskDraft   == {"TASK_STARTED", "TASK_SKIPPED"} \cup WorkerEvent
Verdict     == {"TASK_COMPLETED", "TASK_PARTIAL", "TASK_FAILED"}
AgentDraft  == {"AGENT_REGISTERED", "AGENT_COMPLETED", "AGENT_FAILED"}

NoDraft == [kind |-> "none"]
Drafts  == [kind : TaskDraft, task : Task] \cup [kind : AgentDraft, agent : Agent]
           \cup [kind : {"none", "WORKFLOW_PLANNED", "WORKFLOW_COMPLETED"}]
Items   == [kind : WorkerEvent \cup {"FINISHED", "CRASHED"}, task : Task]

Init ==
  /\ phase = "register"
  /\ draft = NoDraft
  /\ pending = Task
  /\ terminal = {}
  /\ running = {}
  /\ busy = {}
  /\ cursor = 0
  /\ left = Agent
  /\ outcome = [t \in Task |-> "queued"]
  /\ ancestry = [t \in Task |-> {}]
  /\ worker = [t \in Task |-> "none"]
  /\ queue = <<>>
  /\ status = [t \in Task |-> "queued"]
  /\ agent = [a \in Agent |-> "absent"]
  /\ run = "running"
  /\ cause = "failed"
  /\ gate = "open"

--------------------------------------------------------------------------------
(* The scheduler between two suspension points.                            *)

Yield(d) == phase' = "yield" /\ draft' = d

\* stream registers every agent, then plans the workflow.
RegisterAgent(a) ==
  /\ phase = "register"
  /\ a \in left
  /\ Yield([kind |-> "AGENT_REGISTERED", agent |-> a])
  /\ left' = left \ {a}
  /\ UNCHANGED <<scheduling, worker, queue, projection, cause, gate>>

PlanWorkflow ==
  /\ phase = "register"
  /\ left = {}
  /\ Yield([kind |-> "WORKFLOW_PLANNED"])
  /\ UNCHANGED <<scheduling, left, worker, queue, projection, cause, gate>>

\* Mutant: readiness read from the outcomes the workers write, not from the tasks
\* whose _WorkerFinished the scheduler has dequeued.
Ahead_ByOutcome ==
  {t \in pending : (\A d \in Deps[t] : outcome[d] \in Terminal) /\ Rank[t] > cursor}

\* Mutant: the slot limit is off by one.
Full_OffByOne == Cardinality(running) > Slots

\* The tasks this pass has still to look at, and the first one it acts on:
\* a blocked one is skipped, a ready one with no slot left ends the pass, one
\* whose agent is idle starts; one whose agent is active is passed over.
Ahead      == {t \in pending : Deps[t] \subseteq terminal /\ Rank[t] > cursor}
FailedDeps(t) == {d \in Deps[t] : outcome[d] \in Bad}
Blocked(t) == FailedDeps(t) # {} /\ t \notin AllowFailed
Full       == Cardinality(running) >= Slots
Decisive(t) == Blocked(t) \/ Full \/ AgentOf[t] \notin busy
FirstDecisive(t) ==
  /\ t \in Ahead
  /\ Decisive(t)
  /\ \A u \in Ahead : Decisive(u) => Rank[t] <= Rank[u]

\* Mutant: only the direct dependencies count.
DegradedAncestry_Direct(t) == {d \in Deps[t] : outcome[d] \in Bad \cup {"partial"}}

\* degraded_ancestry: failed, skipped and partial dependencies, and theirs.
DegradedAncestry(t) ==
  UNION {(IF outcome[d] \in Bad \cup {"partial"} THEN {d} ELSE {}) \cup ancestry[d] :
           d \in Deps[t]}

SkipTask(t) ==
  /\ phase = "scan"
  /\ FirstDecisive(t)
  /\ Blocked(t)
  /\ outcome' = [outcome EXCEPT ![t] = "skipped"]
  /\ pending' = pending \ {t}
  /\ Yield([kind |-> "TASK_SKIPPED", task |-> t])
  /\ UNCHANGED <<terminal, running, busy, cursor, ancestry, left, worker, queue,
                 projection, cause, gate>>

StartTask(t) ==
  /\ phase = "scan"
  /\ FirstDecisive(t)
  /\ ~Blocked(t)
  /\ ~Full
  /\ outcome' = [outcome EXCEPT ![t] = "running"]
  /\ ancestry' = [ancestry EXCEPT ![t] = DegradedAncestry(t)]
  /\ pending' = pending \ {t}
  /\ busy' = busy \cup {AgentOf[t]}
  /\ cursor' = Rank[t]
  /\ Yield([kind |-> "TASK_STARTED", task |-> t])
  /\ UNCHANGED <<terminal, running, left, worker, queue, projection, cause, gate>>

\* The pass ends: again from the top if it started a task, else wait for a
\* worker, else the workflow is done or nothing can ever run.
EndPass ==
  /\ phase = "scan"
  /\ \A t \in Ahead : FirstDecisive(t) => Full /\ ~Blocked(t)
  /\ cursor' = 0
  /\ phase' = IF cursor > 0 THEN "scan"
              ELSE IF running # {} THEN "get"
              ELSE IF pending = {} THEN "summary" ELSE "deadlocked"
  /\ left' = IF phase' = "summary" THEN Agent ELSE {}
  /\ UNCHANGED <<draft, pending, terminal, running, busy, outcome, ancestry, worker,
                 queue, projection, cause, gate>>

\* Mutant: a skipped task does not count against its agent.
ReportAgent_FailedOnly(a) ==
  /\ phase = "summary"
  /\ a \in left
  /\ Yield([kind  |-> IF \E t \in Task : AgentOf[t] = a /\ outcome[t] = "failed"
                        THEN "AGENT_FAILED" ELSE "AGENT_COMPLETED",
            agent |-> a])
  /\ left' = left \ {a}
  /\ UNCHANGED <<scheduling, worker, queue, projection, cause, gate>>

\* After the last task: one verdict per agent, then the workflow summary.
ReportAgent(a) ==
  /\ phase = "summary"
  /\ a \in left
  /\ Yield([kind  |-> IF \E t \in Task : AgentOf[t] = a /\ outcome[t] \in Bad
                        THEN "AGENT_FAILED" ELSE "AGENT_COMPLETED",
            agent |-> a])
  /\ left' = left \ {a}
  /\ UNCHANGED <<scheduling, worker, queue, projection, cause, gate>>

ReportWorkflow ==
  /\ phase = "summary"
  /\ left = {}
  /\ Yield([kind |-> "WORKFLOW_COMPLETED"])
  /\ UNCHANGED <<scheduling, left, worker, queue, projection, cause, gate>>

--------------------------------------------------------------------------------
(* The finally block: cancel every worker in `running', await them all.    *)

BeginDrain(workers, why) ==
  /\ worker' = [t \in Task |-> IF t \in workers /\ worker[t] \in Alive
                                 THEN "cancelling" ELSE worker[t]]
  /\ phase' = "drain"
  /\ cause' = why

\* item = await queue.get()
GetEvent ==
  /\ phase = "get"
  /\ queue # <<>>
  /\ Head(queue).kind \in WorkerEvent
  /\ Yield(Head(queue))
  /\ queue' = Tail(queue)
  /\ UNCHANGED <<scheduling, left, worker, projection, cause, gate>>

\* Mutant: the agent of a finished worker stays active.
GetFinished_KeepsAgent ==
  /\ phase = "get"
  /\ queue # <<>>
  /\ Head(queue).kind = "FINISHED"
  /\ queue' = Tail(queue)
  /\ running' = running \ {Head(queue).task}
  /\ terminal' = terminal \cup {Head(queue).task}
  /\ phase' = "scan"
  /\ UNCHANGED <<draft, pending, busy, cursor, left, outcome, ancestry, worker,
                 projection, cause, gate>>

GetFinished ==
  /\ phase = "get"
  /\ queue # <<>>
  /\ queue' = Tail(queue)
  /\ LET t == Head(queue).task
     IN  /\ running' = running \ {t}
         /\ busy' = busy \ {AgentOf[t]}
         /\ CASE Head(queue).kind = "FINISHED" ->
                   /\ terminal' = terminal \cup {t}
                   /\ phase' = "scan"
                   /\ UNCHANGED <<worker, cause, gate>>
              [] Head(queue).kind = "CRASHED" ->
                   /\ BeginDrain(running \ {t}, "failed")
                   /\ UNCHANGED terminal
              [] OTHER -> FALSE
  /\ UNCHANGED <<draft, pending, cursor, left, outcome, ancestry, projection, gate>>

--------------------------------------------------------------------------------
(* The consumer: reduce_event accepts the draft, the projection moves, and *)
(* the generator resumes behind its yield.                                 *)

Accepts(d) ==
  /\ run = "running"
  /\ d.kind = "AGENT_REGISTERED" => agent[d.agent] = "absent"
  /\ d.kind \in {"AGENT_COMPLETED", "AGENT_FAILED"} => agent[d.agent] # "absent"
  /\ d.kind \in {"TASK_STARTED", "TASK_SKIPPED"} => status[d.task] = "queued"
  /\ d.kind = "TASK_STARTED" =>
       \A e \in Deps[d.task] :
         status[e] \in (IF d.task \in AllowFailed THEN Terminal ELSE Success)
  /\ d.kind \in WorkerEvent => status[d.task] = "running"
  /\ d.kind = "WORKFLOW_COMPLETED" => \A t \in Task : status[t] \in Terminal

StatusAfter(kind) ==
  CASE kind \in {"TASK_STARTED", "PROGRESS"} -> "running"
    [] kind = "TASK_SKIPPED"   -> "skipped"
    [] kind = "TASK_COMPLETED" -> "complete"
    [] kind = "TASK_PARTIAL"   -> "partial"
    [] kind = "TASK_FAILED"    -> "failed"

\* The draft passes the gate and reduce_event accepts it.
TakeDraft(kinds) ==
  /\ phase = "yield"
  /\ gate # "closed"
  /\ draft.kind \in kinds
  /\ Accepts(draft)
  /\ draft' = NoDraft
  /\ gate' = IF gate = "slipped" THEN "closed" ELSE "open"

\* A task event also sets the projected status of the agent that owns the task
\* to running, whatever it was.
PublishTask(kinds) ==
  /\ TakeDraft(kinds)
  /\ status' = [status EXCEPT ![draft.task] = StatusAfter(draft.kind)]
  /\ agent' = [agent EXCEPT ![AgentOf[draft.task]] = "running"]
  /\ UNCHANGED run

PublishAgent(kinds, after) ==
  /\ TakeDraft(kinds)
  /\ agent' = [agent EXCEPT ![draft.agent] = after]
  /\ UNCHANGED <<status, run>>

ConsumeRegistered ==
  /\ PublishAgent({"AGENT_REGISTERED"}, "queued")
  /\ phase' = "register"
  /\ UNCHANGED <<scheduling, left, worker, queue, cause>>

ConsumePlanned ==
  /\ TakeDraft({"WORKFLOW_PLANNED"})
  /\ phase' = "scan"
  /\ UNCHANGED <<scheduling, left, worker, queue, projection, cause>>

ConsumeSkipped ==
  /\ PublishTask({"TASK_SKIPPED"})
  /\ terminal' = terminal \cup {draft.task}
  /\ cursor' = 0
  /\ phase' = "scan"
  /\ UNCHANGED <<pending, running, busy, outcome, ancestry, left, worker, queue, cause>>

ConsumeStarted ==
  /\ PublishTask({"TASK_STARTED"})
  /\ worker' = [worker EXCEPT ![draft.task] = "created"]
  /\ running' = running \cup {draft.task}
  /\ phase' = "scan"
  /\ UNCHANGED <<pending, terminal, busy, cursor, outcome, ancestry, left, queue, cause>>

ConsumeWorkerEvent ==
  /\ PublishTask(WorkerEvent)
  /\ phase' = "scan"
  /\ UNCHANGED <<scheduling, left, worker, queue, cause>>

ConsumeVerdict ==
  /\ PublishAgent({"AGENT_COMPLETED", "AGENT_FAILED"},
                  IF draft.kind = "AGENT_FAILED" THEN "failed" ELSE "complete")
  /\ phase' = "summary"
  /\ UNCHANGED <<scheduling, left, worker, queue, cause>>

\* The stream ends, or raises for the required tasks that failed; the consumer
\* publishes RUN_COMPLETED or RUN_FAILED.
ConsumeSummary ==
  /\ TakeDraft({"WORKFLOW_COMPLETED"})
  /\ phase' = "stopped"
  /\ run' = IF \E t \in Required : outcome[t] \in Bad THEN "failed" ELSE "complete"
  /\ UNCHANGED <<scheduling, left, worker, queue, status, agent, cause>>

--------------------------------------------------------------------------------
(* The worker of t: _stream_task, as far as the scheduler can see it.      *)

Put(kind, t) == queue' = Append(queue, [kind |-> kind, task |-> t])

WorkerProgress(t) ==
  /\ worker[t] = "created"
  /\ worker' = [worker EXCEPT ![t] = "live"]
  /\ Put("PROGRESS", t)
  /\ UNCHANGED <<phase, draft, scheduling, left, projection, cause, gate>>

\* Mutant: a result is complete whatever it rests on.
WorkerCompletes_NeverPartial(t) ==
  /\ worker[t] = "live"
  /\ worker' = [worker EXCEPT ![t] = "ended"]
  /\ outcome' = [outcome EXCEPT ![t] = "complete"]
  /\ Put("TASK_COMPLETED", t)
  /\ UNCHANGED <<phase, draft, pending, terminal, running, busy, cursor, ancestry,
                 left, projection, cause, gate>>

\* A valid final action: partial exactly when the ancestry is degraded.
WorkerCompletes(t) ==
  /\ worker[t] = "live"
  /\ worker' = [worker EXCEPT ![t] = "ended"]
  /\ LET partial == ancestry[t] # {}
     IN  /\ outcome' = [outcome EXCEPT ![t] = IF partial THEN "partial" ELSE "complete"]
         /\ Put(IF partial THEN "TASK_PARTIAL" ELSE "TASK_COMPLETED", t)
  /\ UNCHANGED <<phase, draft, pending, terminal, running, busy, cursor, ancestry,
                 left, projection, cause, gate>>

WorkerFails(t) ==
  /\ worker[t] = "live"
  /\ worker' = [worker EXCEPT ![t] = "ended"]
  /\ outcome' = [outcome EXCEPT ![t] = "failed"]
  /\ Put("TASK_FAILED", t)
  /\ UNCHANGED <<phase, draft, pending, terminal, running, busy, cursor, ancestry,
                 left, projection, cause, gate>>

\* Mutant: _WorkerFinished is put only after a task that succeeded.
WorkerFinishes_IfSucceeded(t) ==
  /\ worker[t] = "ended"
  /\ worker' = [worker EXCEPT ![t] = "finished"]
  /\ IF outcome[t] = "failed" THEN UNCHANGED queue ELSE Put("FINISHED", t)
  /\ UNCHANGED <<phase, draft, scheduling, left, projection, cause, gate>>

WorkerFinishes(t) ==
  /\ worker[t] = "ended"
  /\ worker' = [worker EXCEPT ![t] = "finished"]
  /\ Put("FINISHED", t)
  /\ UNCHANGED <<phase, draft, scheduling, left, projection, cause, gate>>

\* An exception that _stream_task does not turn into TASK_FAILED.
WorkerCrashes(t) ==
  /\ worker[t] \in {"created", "live"}
  /\ worker' = [worker EXCEPT ![t] = "finished"]
  /\ Put("CRASHED", t)
  /\ UNCHANGED <<phase, draft, scheduling, left, projection, cause, gate>>

\* Mutant: the worker swallows CancelledError.
WorkerUnwinds_Swallows(t) ==
  /\ worker[t] = "cancelling"
  /\ UNCHANGED vars

\* CancelledError has unwound the worker (what its finally block puts in the
\* abandoned queue is never read).
WorkerUnwinds(t) ==
  /\ worker[t] = "cancelling"
  /\ worker' = [worker EXCEPT ![t] = "finished"]
  /\ UNCHANGED <<phase, draft, scheduling, left, queue, projection, cause, gate>>

--------------------------------------------------------------------------------
(* The end of a run that does not reach WORKFLOW_COMPLETED.                *)

\* RUN_CANCELLED also marks every unfinished agent cancelled.
PublishCancelled ==
  /\ run' = "cancelled"
  /\ agent' = [a \in Agent |-> IF agent[a] \in {"queued", "running"} THEN "cancelled"
                                                                    ELSE agent[a]]

\* cancel() while the scheduler awaits its queue: the finally block drains.
CancelWaiting ==
  /\ phase = "get"
  /\ BeginDrain(running, "cancelled")
  /\ gate' = "open"
  /\ UNCHANGED <<draft, scheduling, left, queue, projection>>

\* cancel() while the consumer holds a draft at the gate: aclosing closes
\* stream, but nothing closes the inner generator stream was iterating.
CancelPaused ==
  /\ phase = "yield"
  /\ gate # "open"
  /\ gate' = "open"
  /\ draft' = NoDraft
  /\ phase' = "orphan"
  /\ cause' = "cancelled"
  /\ PublishCancelled
  /\ UNCHANGED <<scheduling, left, worker, queue, status>>

\* The event loop finalises the abandoned inner generator.
FinalizeOrphan ==
  /\ phase = "orphan"
  /\ BeginDrain(running, cause)
  /\ UNCHANGED <<draft, scheduling, left, queue, projection, gate>>

\* cancel() during the gather of the finally block, which goes on waiting for
\* every worker and then raises CancelledError instead of the worker's error.
CancelDraining ==
  /\ phase = "drain"
  /\ run = "running"
  /\ cause = "failed"
  /\ cause' = "cancelled"
  /\ gate' = "open"
  /\ UNCHANGED <<phase, draft, scheduling, left, worker, queue, projection>>

\* Mutant: the finally block cancels the workers and does not await them.
Drained_WithoutGather ==
  /\ phase = "drain"
  /\ phase' = "stopped"
  /\ \/ run # "running" /\ UNCHANGED <<run, agent>>
     \/ run = "running" /\ cause = "failed" /\ run' = "failed" /\ UNCHANGED agent
     \/ run = "running" /\ cause = "cancelled" /\ PublishCancelled
  /\ UNCHANGED <<draft, scheduling, left, worker, queue, status, cause, gate>>

\* The gather returns; the consumer publishes what ended the run.
Drained ==
  /\ phase = "drain"
  /\ \A t \in running : worker[t] = "finished"
  /\ phase' = "stopped"
  /\ \/ run # "running" /\ UNCHANGED <<run, agent>>
     \/ run = "running" /\ cause = "failed" /\ run' = "failed" /\ UNCHANGED agent
     \/ run = "running" /\ cause = "cancelled" /\ PublishCancelled
  /\ UNCHANGED <<draft, scheduling, left, worker, queue, status, cause, gate>>

\* Nothing is left to do.
Terminated ==
  /\ phase = "stopped"
  /\ \A t \in Task : worker[t] \notin Alive
  /\ UNCHANGED vars

--------------------------------------------------------------------------------
(* pause() and resume().  Outside the gather of the finally block, where    *)
(* the gate no longer matters, they run while the scheduler awaits its     *)
(* queue or its draft is held.                                             *)

Pause ==
  /\ \/ phase = "get" /\ gate = "open" /\ gate' = "closed"
     \/ phase = "yield" /\ gate = "waking" /\ gate' = "slipped"
  /\ UNCHANGED <<phase, draft, scheduling, left, worker, queue, projection, cause>>

Resume ==
  /\ gate \in {"closed", "slipped"}
  /\ phase \in {"get", "yield"}
  /\ gate' = IF phase = "get" THEN "open" ELSE "waking"
  /\ UNCHANGED <<phase, draft, scheduling, left, worker, queue, projection, cause>>

--------------------------------------------------------------------------------
Scheduler ==
  \/ \E a \in Agent : RegisterAgent(a) \/ ReportAgent(a)
  \/ PlanWorkflow \/ ReportWorkflow
  \/ \E t \in Task : SkipTask(t) \/ StartTask(t)
  \/ EndPass
  \/ GetEvent \/ GetFinished
  \/ Drained \/ FinalizeOrphan

Consumer ==
  \/ ConsumeRegistered \/ ConsumePlanned
  \/ ConsumeSkipped \/ ConsumeStarted \/ ConsumeWorkerEvent
  \/ ConsumeVerdict \/ ConsumeSummary

Worker(t) ==
  \/ WorkerProgress(t) \/ WorkerCompletes(t) \/ WorkerFails(t) \/ WorkerFinishes(t)
  \/ WorkerCrashes(t) \/ WorkerUnwinds(t)

Cancel == CancelWaiting \/ CancelPaused \/ CancelDraining

Next ==
  \/ Scheduler
  \/ Consumer
  \/ \E t \in Task : Worker(t)
  \/ Cancel
  \/ Pause \/ Resume
  \/ Terminated

Spec == Init /\ [][Next]_vars

\* asyncio resumes whatever can run; a model or a tool call eventually answers,
\* and a pause is eventually lifted.  The operator need not cancel.
Fairness ==
  /\ WF_vars(Scheduler)
  /\ WF_vars(Consumer)
  /\ WF_vars(Resume)
  /\ \A t \in Task : WF_vars(Worker(t))

FairSpec == Spec /\ Fairness
--------------------------------------------------------------------------------
(* Properties.                                                             *)

TypeOK ==
  /\ phase \in Phase
  /\ draft \in Drafts
  /\ pending \subseteq Task
  /\ terminal \subseteq Task
  /\ running \subseteq Task
  /\ busy \subseteq Agent
  /\ cursor \in Nat
  /\ left \subseteq Agent
  /\ outcome \in [Task -> TaskStatus]
  /\ ancestry \in [Task -> SUBSET Task]
  /\ worker \in [Task -> WorkerState]
  /\ queue \in Seq(Items)
  /\ status \in [Task -> TaskStatus]
  /\ agent \in [Agent -> {"absent", "queued", "running", "complete", "failed", "cancelled"}]
  /\ run \in {"running", "complete", "failed", "cancelled"}
  /\ cause \in {"failed", "cancelled"}
  /\ gate \in Gate

\* Two state machines that never talk: whatever the interleaving of workers,
\* queue and scheduler, reduce_event accepts the draft the scheduler yields
\* (else the run would fail on an event its own runtime produced).
ReducerAccepts == phase = "yield" => Accepts(draft)

\* The WorkflowExecutionError "scheduler deadlock with pending tasks" is never
\* raised: with no worker left, every pending task can be skipped or started.
NoSchedulerDeadlock == phase # "deadlocked"

\* No more live workers than slots, and never two of one agent: also while the
\* run is being cancelled, drained or after its generator was abandoned.
WorkersBounded ==
  LET alive == {t \in Task : worker[t] \in Alive}
  IN  /\ Cardinality(alive) <= Slots
      /\ \A t, u \in alive : AgentOf[t] = AgentOf[u] => t = u

\* RUN_COMPLETED, RUN_FAILED and, unless the run is paused, RUN_CANCELLED are
\* published only after the last worker is gone.
EndsDrained ==
  [][run = "running" /\ run' # "running" /\ (run' = "cancelled" => gate = "open") =>
       \A t \in Task : worker'[t] \notin Alive]_vars

\* Once the workflow is reported, an agent reads failed exactly if the
\* projection shows a task of its failed or skipped, although every event of a
\* task sets its agent back to running.
AgentVerdicts ==
  run \in {"complete", "failed"} /\ (\A t \in Task : status[t] \in Terminal) =>
    \A a \in Agent :
      agent[a] = IF \E t \in Task : AgentOf[t] = a /\ status[t] \in Bad
                   THEN "failed" ELSE "complete"

\* The scheduler decides by its own outcomes and the reducer by the events it has
\* seen: they agree on every draft, and in what the summary says of each agent.
ProjectionAgrees == ReducerAccepts /\ AgentVerdicts

\* The pool of _stream_concurrent_tasks is never overdrawn, and never runs dry
\* with tasks left: whatever is skipped, queued or waiting for a busy agent.
PoolSound == WorkersBounded /\ NoSchedulerDeadlock

\* The tasks that feed t, if o are the outcomes: the least set with the
\* dependencies of t that has, with a task that was not skipped, the dependencies
\* of that task too (a skipped task has no ancestry to hand on).
Closed(o, t) ==
  {S \in SUBSET Task :
     Deps[t] \subseteq S /\ \A v \in S : o[v] # "skipped" => Deps[v] \subseteq S}
Feeding(o, t) == {u \in Task : \A S \in Closed(o, t) : u \in S}

\* degraded_ancestry, built edge by edge when a task starts, is exactly the set
\* of tasks that did not complete cleanly and feed it.
AncestryExact ==
  \A t \in Task : worker[t] # "none" =>
    ancestry[t] = {u \in Feeding(outcome, t) : outcome[u] # "complete"}

\* The scheduler implements the contract its journal promises.
Contract == INSTANCE DagContract
ImplementsContract == Contract!Spec

\* Every run ends, and no worker survives it for good, one abandoned by a
\* cancellation included: no interleaving of slots, agents, skips and queued
\* events leaves the scheduler waiting for a worker that will never answer.
RunEnds == <>[](run # "running" /\ \A t \in Task : worker[t] \notin Alive)

\* What the RUN_CANCELLED event says of the run: "pending work was drained".
CancelledMeansDrained == run = "cancelled" => \A t \in Task : worker[t] \notin Alive
================================================================================
