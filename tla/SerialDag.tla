-------------------------------- MODULE SerialDag -------------------------------
(***************************************************************************)
(* FixedDagRuntime.stream with one effective slot: the tasks run one after *)
(* the other in topological order, each _stream_task iterated to its end   *)
(* before the next one is looked at.  There is no queue and no worker: the *)
(* generator is one draft ahead of the projection, no more.                *)
(***************************************************************************)
EXTENDS Naturals, FiniteSets

CONSTANTS
  Task,         \* the tasks of the workflow
  Deps,         \* [Task -> SUBSET Task]: depends_on
  AgentOf,      \* [Task -> agent]: the agent a task belongs to
  Rank,         \* [Task -> 1, 2, ...]: position in topological_tasks
  Required,     \* the tasks whose failure fails the run
  AllowFailed   \* the tasks with allow_failed_dependencies

\* What WorkflowDefinition.__post_init__ and its topological order guarantee.
ASSUME SerialAssumption ==
  /\ IsFiniteSet(Task)
  /\ Deps \in [Task -> SUBSET Task]
  /\ DOMAIN AgentOf = Task
  /\ Rank \in [Task -> Nat \ {0}]
  /\ \A t, u \in Task : Rank[t] = Rank[u] => t = u
  /\ \A t \in Task : \A d \in Deps[t] : Rank[d] < Rank[t]
  /\ Required \subseteq Task
  /\ AllowFailed \subseteq Task

VARIABLES
  left,        \* tasks the loop has not come to
  current,     \* {t} while the _stream_task of t is iterated, else {}
  draft,       \* the draft yielded and not yet published
  outcome,     \* outcomes[t].status
  ancestry,    \* outcomes[t].degraded_ancestry
  status,      \* RunState.tasks[t].status, the waiting states read as running
  owed,        \* agents whose verdict has not been yielded
  verdict,     \* the published verdicts, "open" before
  run          \* RunState.status, "running" until the run has ended

loop       == <<left, current, outcome, ancestry, owed>>
projection == <<status, verdict, run>>
vars == <<loop, draft, projection>>

Agent == {AgentOf[t] : t \in Task}

Bad      == {"failed", "skipped"}            \* _FAILED
Success  == {"complete", "partial"}
Terminal == Success \cup Bad
TaskStatus == {"queued", "running"} \cup Terminal

TaskDraft == {"TASK_STARTED", "TASK_SKIPPED", "PROGRESS", "TASK_COMPLETED", "TASK_PARTIAL", "TASK_FAILED"}
NoDraft == [kind |-> "none"]
Drafts ==
  {NoDraft, [kind |-> "WORKFLOW_COMPLETED"]}
    \cup [kind : TaskDraft, task : Task]
    \cup [kind : {"AGENT_COMPLETED", "AGENT_FAILED"}, agent : Agent]

Init ==
  /\ left = Task
  /\ current = {}
  /\ draft = NoDraft
  /\ outcome = [t \in Task |-> "queued"]
  /\ ancestry = [t \in Task |-> {}]
  /\ owed = Agent
  /\ status = [t \in Task |-> "queued"]
  /\ verdict = [a \in Agent |-> "open"]
  /\ run = "running"

--------------------------------------------------------------------------------
(* The generator.  It runs only when it is asked for the next draft.       *)

Resumed == run = "running" /\ draft = NoDraft

Yield(kind, t) == draft' = [kind |-> kind, task |-> t]

Comes(t) == t \in left /\ \A u \in left : Rank[t] <= Rank[u]

\* Mutant: a skipped dependency does not block.
Blocked_FailedOnly(t) == t \notin AllowFailed /\ \E d \in Deps[t] : outcome[d] = "failed"

Blocked(t) == t \notin AllowFailed /\ \E d \in Deps[t] : outcome[d] \in Bad

\* degraded_ancestry: failed, skipped and partial dependencies, and theirs.
DegradedAncestry(t) ==
  UNION {(IF outcome[d] \in Bad \cup {"partial"} THEN {d} ELSE {}) \cup ancestry[d] :
           d \in Deps[t]}

Skip(t) ==
  /\ Resumed /\ current = {}
  /\ Comes(t)
  /\ Blocked(t)
  /\ left' = left \ {t}
  /\ outcome' = [outcome EXCEPT ![t] = "skipped"]
  /\ Yield("TASK_SKIPPED", t)
  /\ UNCHANGED <<current, ancestry, owed, projection>>

Start(t) ==
  /\ Resumed /\ current = {}
  /\ Comes(t)
  /\ ~Blocked(t)
  /\ left' = left \ {t}
  /\ current' = {t}
  /\ outcome' = [outcome EXCEPT ![t] = "running"]
  /\ ancestry' = [ancestry EXCEPT ![t] = DegradedAncestry(t)]
  /\ Yield("TASK_STARTED", t)
  /\ UNCHANGED <<owed, projection>>

\* _stream_task, as TaskWorker describes it.
Progress(t) ==
  /\ Resumed /\ t \in current
  /\ Yield("PROGRESS", t)
  /\ UNCHANGED <<loop, projection>>

Settle(t, result, kind) ==
  /\ Resumed /\ t \in current
  /\ current' = {}
  /\ outcome' = [outcome EXCEPT ![t] = result]
  /\ Yield(kind, t)
  /\ UNCHANGED <<left, ancestry, owed, projection>>

Complete(t) ==
  IF ancestry[t] = {} THEN Settle(t, "complete", "TASK_COMPLETED")
                      ELSE Settle(t, "partial", "TASK_PARTIAL")

Fail(t) == Settle(t, "failed", "TASK_FAILED")

\* Mutant: an agent fails only with its last task.
Report_LastTask(a) ==
  /\ Resumed /\ current = {} /\ left = {}
  /\ a \in owed
  /\ owed' = owed \ {a}
  /\ draft' = [kind  |-> IF \E t \in Task : /\ AgentOf[t] = a /\ outcome[t] \in Bad
                                          /\ \A u \in Task : AgentOf[u] = a => Rank[u] <= Rank[t]
                            THEN "AGENT_FAILED" ELSE "AGENT_COMPLETED",
               agent |-> a]
  /\ UNCHANGED <<left, current, outcome, ancestry, projection>>

\* Behind the loop: one verdict per agent, then the workflow's summary.
Report(a) ==
  /\ Resumed /\ current = {} /\ left = {}
  /\ a \in owed
  /\ owed' = owed \ {a}
  /\ draft' = [kind  |-> IF \E t \in Task : AgentOf[t] = a /\ outcome[t] \in Bad
                            THEN "AGENT_FAILED" ELSE "AGENT_COMPLETED",
               agent |-> a]
  /\ UNCHANGED <<left, current, outcome, ancestry, projection>>

Summarise ==
  /\ Resumed /\ current = {} /\ left = {} /\ owed = {}
  /\ draft' = [kind |-> "WORKFLOW_COMPLETED"]
  /\ UNCHANGED <<loop, projection>>

--------------------------------------------------------------------------------
(* The consumer.                                                           *)

Accepts(d) ==
  /\ d.kind \in {"TASK_STARTED", "TASK_SKIPPED"} => status[d.task] = "queued"
  /\ d.kind = "TASK_STARTED" =>
       \A e \in Deps[d.task] :
         status[e] \in (IF d.task \in AllowFailed THEN Terminal ELSE Success)
  /\ d.kind \in {"PROGRESS", "TASK_COMPLETED", "TASK_PARTIAL", "TASK_FAILED"} =>
       status[d.task] = "running"
  /\ d.kind = "WORKFLOW_COMPLETED" => \A t \in Task : status[t] \in Terminal

StatusAfter(kind) ==
  CASE kind = "TASK_SKIPPED"   -> "skipped"
    [] kind = "TASK_COMPLETED" -> "complete"
    [] kind = "TASK_PARTIAL"   -> "partial"
    [] kind = "TASK_FAILED"    -> "failed"
    [] OTHER                   -> "running"

PublishTask ==
  /\ run = "running"
  /\ draft.kind \in TaskDraft
  /\ Accepts(draft)
  /\ status' = [status EXCEPT ![draft.task] = StatusAfter(draft.kind)]
  /\ draft' = NoDraft
  /\ UNCHANGED <<loop, verdict, run>>

PublishVerdict ==
  /\ run = "running"
  /\ draft.kind \in {"AGENT_COMPLETED", "AGENT_FAILED"}
  /\ verdict' = [verdict EXCEPT ![draft.agent] =
                   IF draft.kind = "AGENT_FAILED" THEN "failed" ELSE "complete"]
  /\ draft' = NoDraft
  /\ UNCHANGED <<loop, status, run>>

\* Mutant: the stream ends without the WorkflowExecutionError.
PublishSummary_NeverFails ==
  /\ run = "running"
  /\ draft.kind = "WORKFLOW_COMPLETED"
  /\ Accepts(draft)
  /\ draft' = NoDraft
  /\ run' = "complete"
  /\ UNCHANGED <<loop, status, verdict>>

\* WORKFLOW_COMPLETED, and the end of the stream or its WorkflowExecutionError.
PublishSummary ==
  /\ run = "running"
  /\ draft.kind = "WORKFLOW_COMPLETED"
  /\ Accepts(draft)
  /\ draft' = NoDraft
  /\ run' = IF \E t \in Required : outcome[t] \in Bad THEN "failed" ELSE "complete"
  /\ UNCHANGED <<loop, status, verdict>>

\* Cancelled by the operator, or an exception nobody turns into TASK_FAILED.
Abort ==
  /\ run = "running"
  /\ run' \in {"failed", "cancelled"}
  /\ draft' = NoDraft
  /\ UNCHANGED <<loop, status, verdict>>

--------------------------------------------------------------------------------
Loop ==
  \/ \E t \in Task : Skip(t) \/ Start(t) \/ Progress(t) \/ Complete(t) \/ Fail(t)
  \/ \E a \in Agent : Report(a)
  \/ Summarise

Next == Loop \/ PublishTask \/ PublishVerdict \/ PublishSummary \/ Abort

Spec == Init /\ [][Next]_vars

--------------------------------------------------------------------------------
(* Properties.                                                             *)

TypeOK ==
  /\ left \subseteq Task
  /\ current \subseteq Task
  /\ draft \in Drafts
  /\ outcome \in [Task -> TaskStatus]
  /\ ancestry \in [Task -> SUBSET Task]
  /\ owed \subseteq Agent
  /\ status \in [Task -> TaskStatus]
  /\ verdict \in [Agent -> {"open", "complete", "failed"}]
  /\ run \in {"running", "complete", "failed", "cancelled"}

\* reduce_event accepts every draft, although the loop decides by its outcomes
\* and the reducer by its projection.
DraftsAccepted == Accepts(draft)

\* A published verdict agrees with the tasks as they are projected, for good.
VerdictsAgree ==
  \A a \in Agent : verdict[a] # "open" =>
    (verdict[a] = "failed" <=> \E t \in Task : AgentOf[t] = a /\ status[t] \in Bad)

\* The journal of the serial loop is legal and says of agents what it says of
\* their tasks, although stream() decides both before anything is published.
JournalAgrees == DraftsAccepted /\ VerdictsAgree

\* The serial loop keeps the contract the concurrent scheduler keeps, with one
\* slot: which of the two ran a workflow cannot be told from its journal.
Contract == INSTANCE DagContract WITH Slots <- 1
ImplementsContract == Contract!Spec

--------------------------------------------------------------------------------
(* The inductive invariant: how the loop, its outcomes and the projection    *)
(* agree.                                                                    *)

\* The loop goes through the tasks by rank, one at a time.
LoopOrder ==
  /\ \A t, u \in current : t = u
  /\ \A t \in left : \A u \in Task \ left : Rank[u] < Rank[t]
  /\ \A t \in Task : t \in left <=> outcome[t] = "queued"
  /\ \A t \in Task : t \in current <=> outcome[t] = "running"
  /\ owed # Agent => left = {} /\ current = {}

\* A task was judged by the outcomes its dependencies keep.
Judged ==
  \A t \in Task \ left :
    /\ \A d \in Deps[t] : outcome[d] \in Terminal
    /\ Blocked(t) <=> outcome[t] = "skipped"
    /\ outcome[t] = "complete" => ancestry[t] = {}
    /\ outcome[t] = "partial"  => ancestry[t] # {}
    /\ outcome[t] # "skipped"  =>
         (ancestry[t] = {} <=> \A d \in Deps[t] : outcome[d] = "complete")

\* The projection is behind by the one draft that is out.
OneBehind ==
  /\ run = "running" =>
       \A t \in Task :
         (draft.kind \in TaskDraft /\ draft.task = t) \/ status[t] = outcome[t]
  /\ draft.kind \in TaskDraft =>
       /\ outcome[draft.task] = StatusAfter(draft.kind)
       /\ status[draft.task] =
            IF draft.kind \in {"TASK_STARTED", "TASK_SKIPPED"} THEN "queued" ELSE "running"
       /\ owed = Agent
  /\ draft.kind = "WORKFLOW_COMPLETED" => left = {} /\ current = {}
  /\ run # "running" => draft = NoDraft

\* A verdict is yielded once, over outcomes that no longer change.
VerdictsKept ==
  /\ \A a \in owed : verdict[a] = "open"
  /\ draft.kind \in {"AGENT_COMPLETED", "AGENT_FAILED"} =>
       /\ draft.agent \notin owed
       /\ (draft.kind = "AGENT_FAILED"
             <=> \E t \in Task : AgentOf[t] = draft.agent /\ outcome[t] \in Bad)
  /\ VerdictsAgree

Consistent == TypeOK /\ LoopOrder /\ Judged /\ OneBehind /\ VerdictsKept
================================================================================
