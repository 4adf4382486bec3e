--------------------------- MODULE DagSchedulerProofs --------------------------
EXTENDS DagSchedulerInv, TLAPS, FiniteSetTheorems, WellFoundedInduction

USE DagAssumption

\* A draft about a task or an agent names one of the workflow.
LEMMA DraftFields ==
  ASSUME TypeOK
  PROVE  /\ draft.kind \in TaskDraft => draft.task \in Task
         /\ draft.kind \in AgentDraft => draft.agent \in Agent
         /\ draft.kind \in TaskDraft \cup AgentDraft \cup
              {"none", "WORKFLOW_PLANNED", "WORKFLOW_COMPLETED"}
BY DEF TypeOK, Drafts, TaskDraft, AgentDraft, WorkerEvent

\* What queue.get() returns is an item, and the rest moves up by one.
LEMMA QueueHead ==
  ASSUME TypeOK, queue # <<>>
  PROVE  /\ Head(queue) \in Items
         /\ Head(queue) = queue[1]
         /\ Len(queue) \in Nat \ {0}
         /\ Tail(queue) \in Seq(Items)
         /\ Len(Tail(queue)) = Len(queue) - 1
         /\ \A i \in 1..Len(Tail(queue)) : Tail(queue)[i] = queue[i + 1]
BY DEF TypeOK

\* queue.put() adds one item at the end.
LEMMA QueuePut ==
  ASSUME TypeOK, NEW t \in Task, NEW k \in WorkerEvent \cup {"FINISHED", "CRASHED"},
         Put(k, t)
  PROVE  /\ queue' \in Seq(Items)
         /\ Len(queue) \in Nat
         /\ Len(queue') = Len(queue) + 1
         /\ \A i \in 1..Len(queue) : queue'[i] = queue[i]
         /\ queue'[Len(queue) + 1] = [kind |-> k, task |-> t]
BY DEF TypeOK, Put, Items

LEMMA NoDraftTyped == NoDraft \in Drafts
BY DEF NoDraft, Drafts

LEMMA TypeInit == Init => TypeOK
BY DEF Init, TypeOK, Phase, NoDraft, Drafts, TaskStatus, WorkerState, Gate

LEMMA TypeStep == TypeOK /\ [Next]_vars => TypeOK'
<1> SUFFICES ASSUME TypeOK, [Next]_vars PROVE TypeOK'
  OBVIOUS
<1> USE DraftFields
<1>1. CASE \E a \in Agent : RegisterAgent(a) \/ ReportAgent(a)
  BY <1>1 DEF TypeOK, RegisterAgent, ReportAgent, Yield, scheduling, projection, Phase,
              Drafts, AgentDraft
<1>2. CASE PlanWorkflow \/ ReportWorkflow
  BY <1>2 DEF TypeOK, PlanWorkflow, ReportWorkflow, Yield, scheduling, projection, Phase, Drafts
<1>3. ASSUME NEW t \in Task, SkipTask(t) PROVE TypeOK'
  BY <1>3 DEF TypeOK, SkipTask, Yield, projection, Phase, Drafts, TaskDraft, TaskStatus, Terminal, Bad
<1>4. ASSUME NEW t \in Task, StartTask(t) PROVE TypeOK'
  BY <1>4 DEF TypeOK, StartTask, Yield, projection, Phase, Drafts, TaskDraft, TaskStatus,
              DegradedAncestry, Agent
<1>5. CASE EndPass
  BY <1>5 DEF TypeOK, EndPass, projection, Phase
<1>6. CASE GetEvent
  BY <1>6, QueueHead DEF TypeOK, GetEvent, Yield, scheduling, projection, Phase, Drafts, TaskDraft, Items
<1>7. CASE GetFinished
  BY <1>7, QueueHead DEF TypeOK, GetFinished, BeginDrain, projection, Phase, Items, WorkerState
<1>8. CASE Consumer
  <2>1. draft' \in Drafts /\ gate' \in Gate
    BY <1>8, NoDraftTyped DEF Consumer, ConsumeRegistered, ConsumePlanned, ConsumeSkipped, ConsumeStarted,
         ConsumeWorkerEvent, ConsumeVerdict, ConsumeSummary, PublishTask, PublishAgent, TakeDraft, Gate
  <2>2. CASE ConsumeRegistered
    BY <2>1, <2>2 DEF TypeOK, ConsumeRegistered, PublishAgent, TakeDraft, scheduling, AgentDraft, Phase
  <2>3. CASE ConsumeVerdict
    BY <2>1, <2>3 DEF TypeOK, ConsumeVerdict, PublishAgent, TakeDraft, scheduling, AgentDraft, Phase
  <2>4. CASE ConsumePlanned \/ ConsumeSummary
    BY <2>1, <2>4 DEF TypeOK, ConsumePlanned, ConsumeSummary, TakeDraft, scheduling, projection, Phase
  <2>5. CASE ConsumeSkipped \/ ConsumeStarted \/ ConsumeWorkerEvent
    <3>1. draft.task \in Task /\ StatusAfter(draft.kind) \in TaskStatus
      BY <2>5 DEF ConsumeSkipped, ConsumeStarted, ConsumeWorkerEvent, PublishTask, TakeDraft,
                  TaskDraft, WorkerEvent, StatusAfter, TaskStatus, Terminal, Success, Bad
    <3>2. AgentOf[draft.task] \in Agent
      BY <3>1 DEF Agent
    <3>3. /\ status' = [status EXCEPT ![draft.task] = StatusAfter(draft.kind)]
          /\ agent' = [agent EXCEPT ![AgentOf[draft.task]] = "running"]
          /\ run' = run
      BY <2>5 DEF ConsumeSkipped, ConsumeStarted, ConsumeWorkerEvent, PublishTask
    <3>4. status' \in [Task -> TaskStatus]
      BY <3>1, <3>3 DEF TypeOK
    <3>5. agent' \in [Agent -> {"absent", "queued", "running", "complete", "failed", "cancelled"}]
      BY <3>2, <3>3 DEF TypeOK
    <3>6. CASE ConsumeSkipped
      BY <2>1, <3>1, <3>3, <3>4, <3>5, <3>6 DEF TypeOK, ConsumeSkipped, Phase
    <3>7. CASE ConsumeStarted
      BY <2>1, <3>1, <3>3, <3>4, <3>5, <3>7 DEF TypeOK, ConsumeStarted, Phase, WorkerState
    <3>8. CASE ConsumeWorkerEvent
      BY <2>1, <3>1, <3>3, <3>4, <3>5, <3>8 DEF TypeOK, ConsumeWorkerEvent, scheduling, Phase
    <3> QED BY <2>5, <3>6, <3>7, <3>8
  <2> QED BY <1>8, <2>2, <2>3, <2>4, <2>5 DEF Consumer
<1>9. ASSUME NEW t \in Task, Worker(t) PROVE TypeOK'
  <2>1. queue' \in Seq(Items)
    <3>1. ASSUME NEW k \in WorkerEvent \cup {"FINISHED", "CRASHED"}, Put(k, t)
          PROVE  queue' \in Seq(Items)
      BY <3>1, QueuePut
    <3> QED
      BY <1>9, <3>1 DEF TypeOK, Worker, WorkerProgress, WorkerFinishes, WorkerCrashes, WorkerUnwinds,
                          WorkerCompletes, WorkerFails, WorkerEvent
  <2>2. CASE WorkerProgress(t) \/ WorkerFinishes(t) \/ WorkerCrashes(t) \/ WorkerUnwinds(t)
    BY <2>1, <2>2 DEF TypeOK, WorkerProgress, WorkerFinishes, WorkerCrashes, WorkerUnwinds,
                      scheduling, projection, WorkerState
  <2>3. CASE WorkerCompletes(t)
    BY <2>1, <2>3 DEF TypeOK, WorkerCompletes, projection, WorkerState, TaskStatus, Terminal, Success
  <2>4. CASE WorkerFails(t)
    BY <2>1, <2>4 DEF TypeOK, WorkerFails, projection, WorkerState, TaskStatus, Terminal, Bad
  <2> QED BY <1>9, <2>2, <2>3, <2>4 DEF Worker
<1>10. CASE Cancel \/ FinalizeOrphan \/ Drained
  BY <1>10 DEF TypeOK, Cancel, CancelWaiting, CancelPaused, CancelDraining, FinalizeOrphan, Drained,
               BeginDrain, PublishCancelled, scheduling, projection, Phase, Drafts, NoDraft, Gate, WorkerState
<1>11. CASE Pause \/ Resume
  BY <1>11 DEF TypeOK, Pause, Resume, scheduling, projection, Gate
<1>12. CASE Terminated \/ UNCHANGED vars
  BY <1>12 DEF TypeOK, Terminated, vars
<1> QED BY <1>1, <1>2, <1>3, <1>4, <1>5, <1>6, <1>7, <1>8, <1>9, <1>10, <1>11, <1>12
        DEF Next, Scheduler

\* Every variable stays in its type, for every workflow.
THEOREM TypeCorrect == Spec => []TypeOK
BY TypeInit, TypeStep, PTL DEF Spec

--------------------------------------------------------------------------------
LEMMA InitConsistent == Init => Consistent
<1> SUFFICES ASSUME Init PROVE Consistent
  OBVIOUS
<1>1. TypeOK
  BY TypeInit
<1>2. Starting = {} /\ Skipping = {} /\ draft.kind = "none" /\ Len(queue) = 0
  BY DEF Init, Starting, Skipping, Drafted, NoDraft
<1>3. PhaseInv
  BY <1>2 DEF Init, PhaseInv, Going, Summing
<1>4. PartitionInv /\ LifeInv
  BY <1>2 DEF Init, PartitionInv, LifeInv, Life, Alive
<1>5. QueueInv /\ HeldInv /\ StatusInv /\ ProgressInv
  BY <1>2 DEF Init, QueueInv, HeldInv, StatusInv, Projected, ProgressInv, InFlight, WorkerEvent
<1>6. CapacityInv /\ DepsInv /\ AncestryInv
  BY <1>2, FS_EmptySet DEF Init, CapacityInv, DepsInv, DepsSettled, AncestryInv, Rests, Started, Done
<1>7. AgentInv
  BY <1>2 DEF Init, AgentInv, AgentVerdicts, Summing, DraftAgent, AgentDraft
<1> QED BY <1>1, <1>3, <1>4, <1>5, <1>6, <1>7 DEF Consistent

LEMMA LeastNat ==
  ASSUME NEW T \in SUBSET Nat, T # {}
  PROVE  \E x \in T : \A y \in T : x <= y
<1>1. PICK x \in T : \A y \in T : ~ (<<y, x>> \in OpToRel(<, Nat))
  BY WFMin, NatLessThanWellFounded, Zenon
<1>2. \A y \in T : ~(y < x)
  BY <1>1 DEF OpToRel
<1> QED BY <1>2

\* Some task of a set comes first in the topological order.
LEMMA FirstTask ==
  ASSUME NEW S \in SUBSET Task, S # {}
  PROVE  \E t \in S : \A u \in S : Rank[t] <= Rank[u]
<1> DEFINE T == {Rank[t] : t \in S}
<1>1. T \in SUBSET Nat /\ T # {}
  OBVIOUS
<1>2. PICK x \in T : \A y \in T : x <= y
  BY <1>1, LeastNat
<1> QED BY <1>2

\* With no worker and no task started in the pass, the first pending task is
\* settled: its dependencies come before it, so they are terminal; nobody is
\* active, so it is skipped or started.
LEMMA NeverStuck ==
  ASSUME TypeOK, PhaseInv, PartitionInv, CapacityInv,
         phase = "scan", cursor = 0, running = {}, pending # {}
  PROVE  \E t \in Ahead : FirstDecisive(t) /\ ~Full
<1>1. PICK t \in pending : \A u \in pending : Rank[t] <= Rank[u]
  BY FirstTask DEF TypeOK
<1>2. Starting = {} /\ Skipping = {}
  BY DEF PhaseInv, Starting, Skipping, Drafted
<1>3. Task = pending \cup terminal
  BY <1>2 DEF PartitionInv, Going, TypeOK
<1>4. Deps[t] \subseteq terminal
  <2> SUFFICES ASSUME NEW d \in Deps[t], d \notin terminal PROVE FALSE
    OBVIOUS
  <2>1. d \in Task /\ t \in Task
    BY DEF TypeOK
  <2>2. d \in pending
    BY <1>3, <2>1
  <2>3. Rank[d] < Rank[t] /\ Rank[d] \in Nat /\ Rank[t] \in Nat
    BY <2>1
  <2> QED BY <1>1, <2>2, <2>3
<1>5. busy = {}
  BY <1>2 DEF CapacityInv, Going
<1>6. ~Full
  BY FS_EmptySet DEF Full
<1>7. t \in Ahead /\ \A u \in Ahead : u \in pending
  BY <1>4 DEF Ahead, TypeOK
<1> QED BY <1>1, <1>5, <1>6, <1>7 DEF FirstDecisive, Decisive

LEMMA PhaseStep == Consistent /\ [Next]_vars => PhaseInv'
<1> SUFFICES ASSUME TypeOK, PhaseInv, PartitionInv, CapacityInv, [Next]_vars PROVE PhaseInv'
  BY DEF Consistent
<1> USE DEF PhaseInv, Going, Summing
<1>1. CASE \E a \in Agent : RegisterAgent(a) \/ ReportAgent(a)
  BY <1>1 DEF RegisterAgent, ReportAgent, Yield, scheduling, projection
<1>2. CASE PlanWorkflow \/ ReportWorkflow
  BY <1>2 DEF PlanWorkflow, ReportWorkflow, Yield, scheduling, projection
<1>3. ASSUME NEW t \in Task, SkipTask(t) \/ StartTask(t) PROVE PhaseInv'
  BY <1>3 DEF SkipTask, StartTask, Yield, projection
<1>4. CASE EndPass
  <2>1. ASSUME phase' = "deadlocked" PROVE FALSE
    <3>1. phase = "scan" /\ cursor = 0 /\ running = {} /\ pending # {}
      BY <1>4, <2>1 DEF EndPass, TypeOK
    <3> QED BY <1>4, <3>1, NeverStuck DEF EndPass
  <2> QED BY <1>4, <2>1 DEF EndPass, projection
<1>5. CASE GetEvent
  BY <1>5, QueueHead DEF GetEvent, Yield, scheduling, projection, WorkerEvent
<1>6. CASE GetFinished
  BY <1>6, QueueHead DEF GetFinished, BeginDrain, projection
<1>7. CASE Consumer
  BY <1>7 DEF Consumer, ConsumeRegistered, ConsumePlanned, ConsumeSkipped, ConsumeStarted,
       ConsumeWorkerEvent, ConsumeVerdict, ConsumeSummary, PublishTask, PublishAgent, TakeDraft,
       NoDraft, WorkerEvent, scheduling, projection
<1>8. ASSUME NEW t \in Task, Worker(t) PROVE PhaseInv'
  BY <1>8 DEF Worker, WorkerProgress, WorkerCompletes, WorkerFails, WorkerFinishes, WorkerCrashes,
       WorkerUnwinds, scheduling, projection
<1>9. CASE Cancel \/ FinalizeOrphan \/ Drained
  BY <1>9 DEF TypeOK, Cancel, CancelWaiting, CancelPaused, CancelDraining, FinalizeOrphan, Drained,
       BeginDrain, PublishCancelled, NoDraft, scheduling, projection
<1>10. CASE Pause \/ Resume \/ Terminated \/ UNCHANGED vars
  BY <1>10 DEF Pause, Resume, Terminated, vars, scheduling, projection
<1> QED BY <1>1, <1>2, <1>3, <1>4, <1>5, <1>6, <1>7, <1>8, <1>9, <1>10 DEF Next, Scheduler

LEMMA PartitionStep == Consistent /\ [Next]_vars => PartitionInv'
<1> SUFFICES ASSUME TypeOK, PhaseInv, PartitionInv, QueueInv, [Next]_vars PROVE PartitionInv'
  BY DEF Consistent
<1> USE DEF PartitionInv, PhaseInv, Going, Starting, Skipping, Drafted
<1>1. CASE \E a \in Agent : RegisterAgent(a) \/ ReportAgent(a)
  BY <1>1 DEF RegisterAgent, ReportAgent, Yield, scheduling
<1>2. CASE PlanWorkflow \/ ReportWorkflow
  BY <1>2 DEF PlanWorkflow, ReportWorkflow, Yield, scheduling
<1>3. ASSUME NEW t \in Task, SkipTask(t) \/ StartTask(t) PROVE PartitionInv'
  <2>1. t \in pending
    BY <1>3 DEF SkipTask, StartTask, FirstDecisive, Ahead
  <2> QED BY <1>3, <2>1 DEF SkipTask, StartTask, Yield
<1>4. CASE EndPass
  BY <1>4 DEF EndPass
<1>5. CASE GetEvent
  BY <1>5, QueueHead DEF GetEvent, Yield, scheduling, WorkerEvent
<1>6. CASE GetFinished
  <2>1. Head(queue).task \in running
    BY <1>6, QueueHead DEF GetFinished, QueueInv, ItemInv
  <2> QED BY <1>6, <2>1 DEF GetFinished, BeginDrain
<1>7. CASE Consumer
  BY <1>7, DraftFields DEF Consumer, ConsumeRegistered, ConsumePlanned, ConsumeSkipped, ConsumeStarted,
       ConsumeWorkerEvent, ConsumeVerdict, ConsumeSummary, PublishTask, PublishAgent, TakeDraft,
       NoDraft, TaskDraft, WorkerEvent, scheduling
<1>8. ASSUME NEW t \in Task, Worker(t) PROVE PartitionInv'
  BY <1>8 DEF Worker, WorkerProgress, WorkerCompletes, WorkerFails, WorkerFinishes, WorkerCrashes,
       WorkerUnwinds, scheduling
<1>9. CASE Cancel \/ FinalizeOrphan \/ Drained
  BY <1>9 DEF Cancel, CancelWaiting, CancelPaused, CancelDraining, FinalizeOrphan, Drained,
       BeginDrain, NoDraft, scheduling
<1>10. CASE Pause \/ Resume \/ Terminated \/ UNCHANGED vars
  BY <1>10 DEF Pause, Resume, Terminated, vars, scheduling
<1> QED BY <1>1, <1>2, <1>3, <1>4, <1>5, <1>6, <1>7, <1>8, <1>9, <1>10 DEF Next, Scheduler

LEMMA LifeStep == Consistent /\ [Next]_vars => LifeInv'
<1> SUFFICES ASSUME TypeOK, PhaseInv, PartitionInv, LifeInv, QueueInv, [Next]_vars,
                    NEW s \in Task
             PROVE  Life(s)'
  BY DEF Consistent, LifeInv
<1>0. Life(s)
  BY DEF LifeInv
<1> USE <1>0 DEF Life, PartitionInv, PhaseInv, Starting, Skipping, Drafted
<1>1. CASE \E a \in Agent : RegisterAgent(a) \/ ReportAgent(a)
  BY <1>1 DEF RegisterAgent, ReportAgent, Yield, scheduling
<1>2. CASE PlanWorkflow \/ ReportWorkflow
  BY <1>2 DEF PlanWorkflow, ReportWorkflow, Yield, scheduling
<1>3. ASSUME NEW t \in Task, SkipTask(t) \/ StartTask(t) PROVE Life(s)'
  <2>1. t \in pending
    BY <1>3 DEF SkipTask, StartTask, FirstDecisive, Ahead
  <2> QED BY <1>3, <2>1 DEF SkipTask, StartTask, Yield, TypeOK, WorkerState, Alive
<1>4. CASE EndPass
  BY <1>4 DEF EndPass
<1>5. CASE GetEvent
  BY <1>5, QueueHead DEF GetEvent, Yield, scheduling, WorkerEvent
<1>6. CASE GetFinished
  <2>1. ItemInv(Head(queue)) /\ Head(queue).task \in running
    BY <1>6, QueueHead DEF GetFinished, QueueInv, ItemInv
  <2>2. worker[Head(queue).task] \notin Alive
    BY <1>6, <2>1, QueueHead DEF GetFinished, ItemInv, Step, Reached, Alive, Verdict, TypeOK, Items
  <2> QED BY <1>6, <2>1, <2>2 DEF GetFinished, BeginDrain, ItemInv, Done, Terminal, Success, Bad, Alive, TypeOK
<1>7. CASE Consumer
  BY <1>7, DraftFields DEF Consumer, ConsumeRegistered, ConsumePlanned, ConsumeSkipped, ConsumeStarted,
       ConsumeWorkerEvent, ConsumeVerdict, ConsumeSummary, PublishTask, PublishAgent, TakeDraft,
       NoDraft, TaskDraft, WorkerEvent, scheduling, TypeOK, Terminal, Bad, Alive
<1>8. ASSUME NEW t \in Task, Worker(t) PROVE Life(s)'
  BY <1>8 DEF Worker, WorkerProgress, WorkerCompletes, WorkerFails, WorkerFinishes, WorkerCrashes,
       WorkerUnwinds, scheduling, TypeOK, Alive, Done
<1>9. CASE Cancel \/ FinalizeOrphan \/ Drained
  BY <1>9 DEF Cancel, CancelWaiting, CancelPaused, CancelDraining, FinalizeOrphan, Drained,
       BeginDrain, NoDraft, scheduling, TypeOK, Alive
<1>10. CASE Pause \/ Resume \/ Terminated \/ UNCHANGED vars
  BY <1>10 DEF Pause, Resume, Terminated, vars, scheduling
<1> QED BY <1>1, <1>2, <1>3, <1>4, <1>5, <1>6, <1>7, <1>8, <1>9, <1>10 DEF Next, Scheduler

--------------------------------------------------------------------------------
LEMMA StepsTyped ==
  /\ \A k : Step(k) \in {1, 2, 3}
  /\ \A w : Reached(w) \in {0, 1, 2, 3}
BY DEF Step, Reached

\* What a worker puts keeps the queue in order, if it goes beyond what the task
\* has in the queue and the items already there stay true.
LEMMA QueueGrows ==
  ASSUME TypeOK, QueueInv, NEW t \in Task, NEW k \in WorkerEvent \cup {"FINISHED", "CRASHED"},
         Put(k, t),
         \A q \in Items : q = [kind |-> k, task |-> t] => ItemInv(q)',
         \A q \in Items : ItemInv(q) => ItemInv(q)',
         \A i \in 1..Len(queue) : queue[i].task = t => Step(queue[i].kind) < Step(k)
  PROVE  QueueInv'
<1>1. /\ Len(queue) \in Nat
      /\ Len(queue') = Len(queue) + 1
      /\ \A i \in 1..Len(queue) : queue'[i] = queue[i] /\ queue[i] \in Items
      /\ queue'[Len(queue) + 1] = [kind |-> k, task |-> t]
      /\ [kind |-> k, task |-> t] \in Items
  <2>1. \A i \in 1..Len(queue) : queue[i] \in Items
    BY DEF TypeOK
  <2>2. [kind |-> k, task |-> t] \in Items
    BY DEF Items
  <2> QED BY <2>1, <2>2, QueuePut
<1>2. \A i \in 1..Len(queue') : \E q \in Items : q = queue'[i] /\ ItemInv(q)'
  <2> SUFFICES ASSUME NEW i \in 1..Len(queue')
               PROVE  \E q \in Items : q = queue'[i] /\ ItemInv(q)'
    OBVIOUS
  <2>1. CASE i = Len(queue) + 1
    BY <1>1, <2>1
  <2>2. CASE i \in 1..Len(queue)
    BY <1>1, <2>2 DEF QueueInv
  <2> QED BY <1>1, <2>1, <2>2
<1>3. ASSUME NEW i \in 1..Len(queue'), NEW j \in 1..Len(queue'),
             i < j, queue'[i].task = queue'[j].task
      PROVE  Step(queue'[i].kind) < Step(queue'[j].kind)
  <2>1. i \in 1..Len(queue)
    BY <1>1, <1>3
  <2>2. CASE j = Len(queue) + 1
    BY <1>1, <1>3, <2>1, <2>2
  <2>3. CASE j \in 1..Len(queue)
    BY <1>1, <1>3, <2>1, <2>3 DEF QueueInv
  <2> QED BY <1>1, <2>2, <2>3
<1> QED BY <1>2, <1>3 DEF QueueInv, ItemInv

\* A queue nobody touches stays in order if its items stay true.
LEMMA QueueStays ==
  ASSUME TypeOK, QueueInv, queue' = queue, \A q \in Items : ItemInv(q) => ItemInv(q)'
  PROVE  QueueInv'
<1>1. \A i \in 1..Len(queue) : queue[i] \in Items /\ ItemInv(queue[i])
  BY DEF TypeOK, QueueInv
<1>2. \A i \in 1..Len(queue) : \E q \in Items : q = queue[i] /\ ItemInv(q)'
  BY <1>1
<1> QED BY <1>2 DEF QueueInv, ItemInv

\* What a worker's step does to the scheduler: it leaves everything about other
\* tasks alone, makes no item of its own task false, and what it puts goes beyond
\* all it has put before.
LEMMA WorkerPuts ==
  ASSUME TypeOK, LifeInv, NEW t \in Task, Worker(t)
  PROVE  /\ UNCHANGED <<phase, draft, running, pending, terminal, busy, ancestry, status, agent, run, left, cause>>
         /\ \A u \in Task : u # t => worker'[u] = worker[u] /\ outcome'[u] = outcome[u]
         /\ outcome'[t] = outcome[t] \/ (worker[t] = "live" /\ outcome'[t] \in Done)
         /\ t \in running
         /\ \A q \in Items : ItemInv(q) => ItemInv(q)'
         /\ \/ queue' = queue /\ outcome' = outcome
            \/ \E k \in WorkerEvent \cup {"FINISHED", "CRASHED"} :
                 /\ Put(k, t)
                 /\ Reached(worker[t]) < Step(k)
                 /\ \A q \in Items : q = [kind |-> k, task |-> t] => ItemInv(q)'
                 /\ k = "PROGRESS" => outcome'[t] = "running"
                 /\ k \in Verdict <=> outcome'[t] # outcome[t]
<1>1. /\ UNCHANGED <<phase, draft, running, pending, terminal, busy, ancestry, status, agent, run, left, cause>>
      /\ \A u \in Task : u # t => worker'[u] = worker[u] /\ outcome'[u] = outcome[u]
  BY DEF Worker, WorkerProgress, WorkerCompletes, WorkerFails, WorkerFinishes, WorkerCrashes,
         WorkerUnwinds, scheduling, projection, TypeOK
<1>2. t \in running
  BY DEF Worker, WorkerProgress, WorkerCompletes, WorkerFails, WorkerFinishes, WorkerCrashes,
         WorkerUnwinds, LifeInv, Life, Alive
<1>3. outcome'[t] = outcome[t] \/ (worker[t] = "live" /\ outcome'[t] \in Done)
  BY DEF Worker, WorkerProgress, WorkerCompletes, WorkerFails, WorkerFinishes, WorkerCrashes,
         WorkerUnwinds, scheduling, TypeOK, Done
<1>4. Reached(worker[t]) <= Reached(worker'[t])
  BY DEF Worker, WorkerProgress, WorkerCompletes, WorkerFails, WorkerFinishes, WorkerCrashes,
         WorkerUnwinds, TypeOK, Reached
<1>5. ASSUME NEW q \in Items, ItemInv(q) PROVE ItemInv(q)'
  <2>1. CASE q.task # t
    BY <1>1, <1>5, <2>1 DEF ItemInv, Items
  <2>2. CASE q.task = t
    <3>1. Step(q.kind) <= Reached(worker'[t])
      BY <1>4, <1>5, <2>2, StepsTyped DEF ItemInv
    <3>2. CASE outcome'[t] = outcome[t]
      BY <1>1, <1>5, <2>2, <3>1, <3>2 DEF ItemInv
    <3>3. CASE worker[t] = "live"
      <4>1. Step(q.kind) = 1
        BY <1>5, <2>2, <3>3, StepsTyped DEF ItemInv, Reached
      <4>2. q.kind \notin Verdict /\ q.kind # "FINISHED" /\ q.kind # "CRASHED"
        BY <4>1 DEF Step, Verdict
      <4> QED BY <1>1, <1>5, <2>2, <3>1, <4>2 DEF ItemInv
    <3> QED BY <1>3, <3>2, <3>3
  <2> QED BY <2>1, <2>2
<1> DEFINE Puts(k) == /\ Put(k, t)
                      /\ Reached(worker[t]) < Step(k)
                      /\ \A q \in Items : q = [kind |-> k, task |-> t] => ItemInv(q)'
                      /\ k = "PROGRESS" => outcome'[t] = "running"
                      /\ k \in Verdict <=> outcome'[t] # outcome[t]
<1>6. ASSUME NEW k \in WorkerEvent \cup {"FINISHED", "CRASHED"}, Put(k, t),
             Reached(worker[t]) < Step(k),
             Step(k) <= Reached(worker'[t]),
             k \in Verdict => outcome'[t] = StatusAfter(k),
             k = "FINISHED" => outcome'[t] \in Done,
             k = "CRASHED" => outcome'[t] = "running",
             k = "PROGRESS" => outcome'[t] = "running",
             k \in Verdict <=> outcome'[t] # outcome[t]
      PROVE  Puts(k)
  BY <1>1, <1>2, <1>6 DEF ItemInv
<1>7. CASE WorkerProgress(t)
  <2>1. worker[t] = "created" /\ worker'[t] = "live" /\ outcome' = outcome /\ Put("PROGRESS", t)
    BY <1>7 DEF WorkerProgress, TypeOK, scheduling
  <2>2. outcome[t] = "running"
    BY <2>1 DEF LifeInv, Life
  <2>3. Puts("PROGRESS")
    BY <1>6, <2>1, <2>2 DEF Reached, Step, Verdict, WorkerEvent
  <2> QED BY <1>1, <1>2, <1>3, <1>5, <2>3 DEF WorkerEvent
<1>8. CASE WorkerCompletes(t) \/ WorkerFails(t)
  <2>1. PICK k \in Verdict : Put(k, t) /\ outcome'[t] = StatusAfter(k)
    BY <1>8 DEF WorkerCompletes, WorkerFails, Verdict, StatusAfter, TypeOK
  <2>2. worker[t] = "live" /\ worker'[t] = "ended" /\ outcome[t] = "running"
    BY <1>8 DEF WorkerCompletes, WorkerFails, TypeOK, LifeInv, Life
  <2>3. StatusAfter(k) # "running"
    BY DEF StatusAfter, Verdict
  <2>4. Puts(k)
    BY <1>6, <2>1, <2>2, <2>3 DEF Reached, Step, Verdict, WorkerEvent
  <2> QED BY <1>1, <1>2, <1>3, <1>5, <2>4 DEF WorkerEvent, Verdict
<1>9. CASE WorkerFinishes(t)
  <2>1. worker[t] = "ended" /\ worker'[t] = "finished" /\ outcome' = outcome /\ Put("FINISHED", t)
    BY <1>9 DEF WorkerFinishes, TypeOK, scheduling
  <2>2. outcome[t] \in Done
    BY <2>1 DEF LifeInv, Life
  <2>3. Puts("FINISHED")
    BY <1>6, <2>1, <2>2 DEF Reached, Step, Verdict
  <2> QED BY <1>1, <1>2, <1>3, <1>5, <2>3
<1>10. CASE WorkerCrashes(t)
  <2>1. /\ worker[t] \in {"created", "live"} /\ worker'[t] = "finished"
        /\ outcome' = outcome /\ Put("CRASHED", t)
    BY <1>10 DEF WorkerCrashes, TypeOK, scheduling
  <2>2. outcome[t] = "running"
    BY <2>1 DEF LifeInv, Life
  <2>3. Puts("CRASHED")
    BY <1>6, <2>1, <2>2 DEF Reached, Step, Verdict
  <2> QED BY <1>1, <1>2, <1>3, <1>5, <2>3
<1>11. CASE WorkerUnwinds(t)
  <2>1. queue' = queue /\ outcome' = outcome
    BY <1>11 DEF WorkerUnwinds, scheduling
  <2> QED BY <1>1, <1>2, <1>3, <1>5, <2>1
<1> QED BY <1>7, <1>8, <1>9, <1>10, <1>11 DEF Worker

LEMMA QueueStep == Consistent /\ [Next]_vars => QueueInv'
<1> SUFFICES ASSUME TypeOK, PhaseInv, PartitionInv, LifeInv, QueueInv, [Next]_vars
             PROVE  QueueInv'
  BY DEF Consistent
<1>0. /\ \A i \in 1..Len(queue) : queue[i] \in Items /\ ItemInv(queue[i])
      /\ \A q \in Items : q.task \in Task
      /\ \A q \in Items : ItemInv(q) => q.task \in running
  <2>1. \A i \in 1..Len(queue) : queue[i] \in Items /\ ItemInv(queue[i])
    BY DEF QueueInv, TypeOK
  <2> QED BY <2>1 DEF ItemInv, Items
<1>1. ASSUME UNCHANGED <<queue, running, worker, outcome>> PROVE QueueInv'
  BY <1>1, QueueStays DEF ItemInv
<1>2. CASE \/ \E a \in Agent : RegisterAgent(a) \/ ReportAgent(a)
           \/ PlanWorkflow \/ ReportWorkflow \/ EndPass
           \/ CancelPaused \/ CancelDraining \/ Drained \/ Pause \/ Resume
           \/ Terminated \/ UNCHANGED vars
  <2>1. UNCHANGED <<queue, running, worker, outcome>>
    BY <1>2 DEF RegisterAgent, ReportAgent, PlanWorkflow, ReportWorkflow, EndPass, CancelPaused,
         CancelDraining, Drained, Pause, Resume, Terminated, scheduling, vars
  <2> QED BY <1>1, <2>1
<1>11. CASE \/ ConsumeRegistered \/ ConsumePlanned \/ ConsumeSkipped \/ ConsumeWorkerEvent
            \/ ConsumeVerdict \/ ConsumeSummary
  <2>1. UNCHANGED <<queue, running, worker, outcome>>
    BY <1>11 DEF ConsumeRegistered, ConsumePlanned, ConsumeSkipped, ConsumeWorkerEvent,
         ConsumeVerdict, ConsumeSummary, scheduling
  <2> QED BY <1>1, <2>1
<1>3. ASSUME NEW t \in Task, SkipTask(t) \/ StartTask(t) PROVE QueueInv'
  <2>1. t \notin running
    BY <1>3 DEF SkipTask, StartTask, FirstDecisive, Ahead, PartitionInv
  <2>2. \A u \in Task : u # t => outcome'[u] = outcome[u]
    BY <1>3 DEF SkipTask, StartTask, TypeOK
  <2> QED BY <1>0, <1>3, <2>1, <2>2, QueueStays DEF SkipTask, StartTask, ItemInv
<1>4. CASE ConsumeStarted
  <2>1. draft.task \notin running /\ draft.task \in Task
    BY <1>4, DraftFields DEF ConsumeStarted, PublishTask, TakeDraft, PartitionInv, Starting, Drafted, TaskDraft
  <2>2. \A u \in Task : u # draft.task => worker'[u] = worker[u]
    BY <1>4, <2>1 DEF ConsumeStarted, TypeOK
  <2> QED BY <1>0, <1>4, <2>1, <2>2, QueueStays DEF ConsumeStarted, ItemInv
<1>5. ASSUME queue # <<>>, queue' = Tail(queue), outcome' = outcome,
             running \ {Head(queue).task} \subseteq running',
             running' = running \/ Step(Head(queue).kind) = 3,
             \A u \in Task : Reached(worker[u]) <= Reached(worker'[u])
      PROVE  QueueInv'
  <2>1. /\ Len(queue') \in Nat
        /\ \A i \in 1..Len(queue') : i + 1 \in 1..Len(queue) /\ queue'[i] = queue[i + 1]
    BY <1>5, QueueHead
  <2>2. ASSUME NEW i \in 1..Len(queue') PROVE queue[i + 1].task \in running'
    <3>1. /\ 1 \in 1..Len(queue) /\ i + 1 \in 1..Len(queue) /\ 1 < i + 1
          /\ Head(queue) = queue[1]
      BY <1>5, <2>1, QueueHead
    <3>2. queue[1].task = queue[i + 1].task => Step(queue[1].kind) < Step(queue[i + 1].kind)
      BY <3>1 DEF QueueInv
    <3>3. Step(queue[i + 1].kind) \in {1, 2, 3} /\ Step(queue[1].kind) \in {1, 2, 3}
      BY StepsTyped
    <3>4. queue[i + 1].task \in running
      BY <1>0, <3>1
    <3> QED BY <1>5, <3>1, <3>2, <3>3, <3>4
  <2>3. ASSUME NEW i \in 1..Len(queue'), NEW q \in Items, q = queue[i + 1] PROVE ItemInv(q)'
    <3>1. ItemInv(q) /\ q.task \in Task /\ q.task \in running'
      BY <1>0, <2>1, <2>2, <2>3
    <3>2. Step(q.kind) <= Reached(worker'[q.task])
      <4>1. /\ Step(q.kind) <= Reached(worker[q.task])
            /\ Reached(worker[q.task]) <= Reached(worker'[q.task])
        BY <1>5, <3>1 DEF ItemInv
      <4> QED BY <4>1, StepsTyped
    <3> QED BY <1>5, <3>1, <3>2 DEF ItemInv
  <2>4. \A i \in 1..Len(queue') : ItemInv(queue[i])'
    BY <1>0, <2>1, <2>3 DEF ItemInv
  <2>5. \A i, j \in 1..Len(queue') :
          i < j /\ queue'[i].task = queue'[j].task => Step(queue'[i].kind) < Step(queue'[j].kind)
    <3> SUFFICES ASSUME NEW i \in 1..Len(queue'), NEW j \in 1..Len(queue'),
                        i < j, queue'[i].task = queue'[j].task
                 PROVE  Step(queue'[i].kind) < Step(queue'[j].kind)
      OBVIOUS
    <3>1. /\ i + 1 \in 1..Len(queue) /\ j + 1 \in 1..Len(queue) /\ i + 1 < j + 1
          /\ queue'[i] = queue[i + 1] /\ queue'[j] = queue[j + 1]
      BY <2>1
    <3>2. Step(queue[i + 1].kind) < Step(queue[j + 1].kind)
      BY <3>1 DEF QueueInv
    <3> QED BY <3>1, <3>2
  <2> QED BY <2>4, <2>5 DEF QueueInv
<1>6. CASE GetEvent
  <2>1. worker' = worker /\ running' = running /\ outcome' = outcome
    BY <1>6 DEF GetEvent, scheduling
  <2>2. \A u \in Task : Reached(worker[u]) <= Reached(worker'[u])
    BY <2>1, StepsTyped
  <2> QED BY <1>5, <1>6, <2>1, <2>2 DEF GetEvent
<1>7. ASSUME NEW W \in SUBSET Task, NEW why, BeginDrain(W, why)
      PROVE  \A u \in Task : Reached(worker[u]) <= Reached(worker'[u])
  <2> SUFFICES ASSUME NEW u \in Task PROVE Reached(worker[u]) <= Reached(worker'[u])
    OBVIOUS
  <2>1. CASE worker[u] \in Alive /\ worker'[u] = "cancelling"
    BY <2>1 DEF Reached, Alive
  <2>2. CASE worker'[u] = worker[u]
    BY <2>2, StepsTyped
  <2> QED BY <1>7, <2>1, <2>2 DEF BeginDrain
<1>8. CASE GetFinished
  <2>1. Step(Head(queue).kind) = 3
    BY <1>8 DEF GetFinished, Step, Verdict
  <2>2. \A u \in Task : Reached(worker[u]) <= Reached(worker'[u])
    <3>1. CASE worker' = worker
      BY <3>1, StepsTyped
    <3>2. CASE BeginDrain(running \ {Head(queue).task}, "failed")
      <4>1. running \ {Head(queue).task} \in SUBSET Task
        BY DEF TypeOK
      <4> QED BY <1>7, <3>2, <4>1
    <3> QED BY <1>8, <3>1, <3>2 DEF GetFinished
  <2> QED BY <1>5, <1>8, <2>1, <2>2 DEF GetFinished
<1>9. CASE CancelWaiting \/ FinalizeOrphan
  <2>1. PICK why : BeginDrain(running, why)
    BY <1>9 DEF CancelWaiting, FinalizeOrphan
  <2>2. \A u \in Task : Reached(worker[u]) <= Reached(worker'[u])
    BY <1>7, <2>1 DEF TypeOK
  <2>3. UNCHANGED <<queue, running, outcome>>
    BY <1>9 DEF CancelWaiting, FinalizeOrphan, scheduling
  <2>4. ASSUME NEW q \in Items, ItemInv(q) PROVE Step(q.kind) <= Reached(worker'[q.task])
    BY <1>0, <2>2, <2>4, StepsTyped DEF ItemInv
  <2> QED BY <2>3, <2>4, QueueStays DEF ItemInv
<1>10. ASSUME NEW t \in Task, Worker(t) PROVE QueueInv'
  <2>1. CASE queue' = queue
    BY <1>10, <2>1, WorkerPuts, QueueStays
  <2>2. ASSUME NEW k \in WorkerEvent \cup {"FINISHED", "CRASHED"}, Put(k, t),
               Reached(worker[t]) < Step(k),
               \A q \in Items : q = [kind |-> k, task |-> t] => ItemInv(q)'
        PROVE  QueueInv'
    <3>1. \A i \in 1..Len(queue) : queue[i].task = t => Step(queue[i].kind) < Step(k)
      BY <1>0, <2>2, StepsTyped DEF ItemInv
    <3> QED BY <1>10, <2>2, <3>1, WorkerPuts, QueueGrows
  <2> QED BY <1>10, <2>1, <2>2, WorkerPuts
<1> QED BY <1>2, <1>3, <1>4, <1>6, <1>8, <1>9, <1>10, <1>11 DEF Next, Scheduler, Consumer, Cancel

LEMMA HeldStep == Consistent /\ [Next]_vars => HeldInv'
<1> SUFFICES ASSUME TypeOK, PhaseInv, PartitionInv, LifeInv, QueueInv, HeldInv, [Next]_vars
             PROVE  HeldInv'
  BY DEF Consistent
<1>1. ASSUME draft'.kind \notin WorkerEvent PROVE HeldInv'
  BY <1>1 DEF HeldInv
<1>2. CASE \/ \E a \in Agent : RegisterAgent(a) \/ ReportAgent(a)
           \/ PlanWorkflow \/ ReportWorkflow
           \/ \E t \in Task : SkipTask(t) \/ StartTask(t)
  <2>1. draft'.kind \notin WorkerEvent
    BY <1>2 DEF RegisterAgent, ReportAgent, PlanWorkflow, ReportWorkflow, SkipTask, StartTask, Yield,
         WorkerEvent
  <2> QED BY <1>1, <2>1
<1>3. CASE Consumer
  <2>1. draft'.kind \notin WorkerEvent
    BY <1>3 DEF Consumer, ConsumeRegistered, ConsumePlanned, ConsumeSkipped, ConsumeStarted,
         ConsumeWorkerEvent, ConsumeVerdict, ConsumeSummary, PublishTask, PublishAgent, TakeDraft,
         NoDraft, WorkerEvent
  <2> QED BY <1>1, <2>1
<1>4. CASE EndPass \/ GetFinished \/ CancelWaiting \/ CancelPaused \/ FinalizeOrphan \/ Drained \/ CancelDraining
  <2>1. draft'.kind = "none"
    BY <1>4 DEF EndPass, GetFinished, CancelWaiting, CancelPaused, FinalizeOrphan, Drained,
         CancelDraining, NoDraft, PhaseInv
  <2> QED BY <1>1, <2>1 DEF WorkerEvent
<1>5. CASE GetEvent
  <2>1. draft' = Head(queue) /\ queue' = Tail(queue) /\ UNCHANGED <<worker, running, outcome>>
    BY <1>5 DEF GetEvent, Yield, scheduling
  <2>2. /\ 1 \in 1..Len(queue) /\ Head(queue) = queue[1]
        /\ \A i \in 1..Len(Tail(queue)) :
             i + 1 \in 1..Len(queue) /\ 1 < i + 1 /\ Tail(queue)[i] = queue[i + 1]
    BY <1>5, QueueHead DEF GetEvent
  <2>3. ItemInv(queue[1])
    BY <2>2 DEF QueueInv
  <2>4. \A i \in 1..Len(queue') :
          queue'[i].task = draft'.task => Step(draft'.kind) < Step(queue'[i].kind)
    BY <2>1, <2>2 DEF QueueInv
  <2> QED BY <2>1, <2>2, <2>3, <2>4 DEF HeldInv, ItemInv
<1>6. ASSUME NEW t \in Task, Worker(t), draft.kind \in WorkerEvent PROVE HeldInv'
  <2>1. draft' = draft
    BY <1>6, WorkerPuts
  <2>2. draft \in Items
    BY <1>6 DEF TypeOK, Drafts, Items, TaskDraft, AgentDraft, WorkerEvent
  <2>3. ItemInv(draft)'
    <3>1. \E q \in Items : q = draft /\ ItemInv(q)'
      BY <1>6, <2>2, WorkerPuts DEF HeldInv
    <3> QED BY <2>1, <3>1 DEF ItemInv
  <2>4. CASE queue' = queue
    BY <1>6, <2>1, <2>3, <2>4 DEF HeldInv
  <2>5. ASSUME NEW k \in WorkerEvent \cup {"FINISHED", "CRASHED"}, Put(k, t),
               Reached(worker[t]) < Step(k)
        PROVE  HeldInv'
    <3>1. ASSUME NEW i \in 1..Len(queue'), queue'[i].task = draft.task
          PROVE  Step(draft.kind) < Step(queue'[i].kind)
      <4>1. CASE i \in 1..Len(queue)
        BY <1>6, <2>5, <3>1, <4>1, QueuePut DEF HeldInv
      <4>2. CASE i = Len(queue) + 1
        <5>1. queue'[i] = [kind |-> k, task |-> t]
          BY <2>5, <4>2, QueuePut
        <5>2. Step(draft.kind) <= Reached(worker[t])
          BY <1>6, <3>1, <5>1 DEF HeldInv, ItemInv
        <5> QED BY <2>5, <5>1, <5>2, StepsTyped
      <4>3. Len(queue) \in Nat /\ Len(queue') = Len(queue) + 1
        BY <2>5, QueuePut
      <4> QED BY <4>1, <4>2, <4>3
    <3> QED BY <2>1, <2>3, <3>1 DEF HeldInv
  <2> QED BY <1>6, <2>4, <2>5, WorkerPuts
<1>7. ASSUME NEW t \in Task, Worker(t), draft.kind \notin WorkerEvent PROVE HeldInv'
  BY <1>1, <1>7, WorkerPuts
<1>8. CASE Pause \/ Resume \/ Terminated \/ UNCHANGED vars
  <2>1. UNCHANGED <<draft, queue, worker, running, outcome>>
    BY <1>8 DEF Pause, Resume, Terminated, vars, scheduling
  <2> QED BY <2>1 DEF HeldInv, ItemInv
<1> QED BY <1>2, <1>3, <1>4, <1>5, <1>6, <1>7, <1>8 DEF Next, Scheduler, Cancel

--------------------------------------------------------------------------------
LEMMA CapacityStep == Consistent /\ [Next]_vars => CapacityInv'
<1> SUFFICES ASSUME TypeOK, PhaseInv, PartitionInv, LifeInv, QueueInv, CapacityInv, [Next]_vars
             PROVE  CapacityInv'
  BY DEF Consistent
<1> USE DEF CapacityInv, PhaseInv, Starting, Drafted
<1>0. /\ IsFiniteSet(running)
      /\ Cardinality(running) \in Nat
      /\ \A S \in SUBSET running : Cardinality(S) <= Cardinality(running) /\ Cardinality(S) \in Nat
  BY FS_Subset, FS_CardinalityType DEF TypeOK
<1>1. CASE \/ \E a \in Agent : RegisterAgent(a) \/ ReportAgent(a)
           \/ PlanWorkflow \/ ReportWorkflow
  BY <1>1 DEF RegisterAgent, ReportAgent, PlanWorkflow, ReportWorkflow, Yield, scheduling, Going
<1>2. ASSUME NEW t \in Task, SkipTask(t) PROVE CapacityInv'
  BY <1>2 DEF SkipTask, Yield, Going
<1>3. ASSUME NEW t \in Task, StartTask(t) PROVE CapacityInv'
  <2>1. AgentOf[t] \notin busy /\ Cardinality(running) < Slots
    BY <1>0, <1>3 DEF StartTask, FirstDecisive, Decisive, Full
  <2>2. Starting' = {t} /\ Starting = {} /\ running' = running /\ busy' = busy \cup {AgentOf[t]}
    BY <1>3 DEF StartTask, Yield
  <2> QED BY <1>3, <2>1, <2>2 DEF StartTask, Yield, Going
<1>4. CASE EndPass
  BY <1>4 DEF EndPass, Going
<1>5. CASE GetEvent
  BY <1>5, QueueHead DEF GetEvent, Yield, scheduling, WorkerEvent, Going
<1>6. CASE GetFinished
  <2> DEFINE t == Head(queue).task
  <2>1. t \in running /\ Starting = {} /\ Starting' = {}
    BY <1>6, QueueHead DEF GetFinished, QueueInv, ItemInv
  <2>2. running' = running \ {t} /\ busy' = busy \ {AgentOf[t]}
    BY <1>6 DEF GetFinished
  <2>3. Cardinality(running') <= Slots
    BY <1>0, <2>2
  <2>4. /\ \A u \in running' : AgentOf[u] \in busy'
        /\ \A u, v \in running' : AgentOf[u] = AgentOf[v] => u = v
    BY <2>1, <2>2
  <2>5. \A a \in busy' : Going => \E u \in running' : AgentOf[u] = a
    BY <2>1, <2>2
  <2> QED BY <1>6, <2>1, <2>3, <2>4, <2>5 DEF GetFinished, Going
<1>7. CASE ConsumeStarted
  <2>1. draft.task \in Starting /\ draft.task \in Task /\ Starting' = {}
    BY <1>7, DraftFields DEF ConsumeStarted, PublishTask, TakeDraft, NoDraft, TaskDraft
  <2>2. draft.task \notin running
    BY <2>1 DEF PartitionInv
  <2>3. running' = running \cup {draft.task} /\ busy' = busy
    BY <1>7 DEF ConsumeStarted
  <2>4. Cardinality(running') <= Slots
    <3>1. Cardinality(running') = Cardinality(running) + 1
      BY <1>0, <2>2, <2>3, FS_AddElement
    <3>2. Cardinality(running) < Slots
      BY <2>1
    <3> QED BY <1>0, <3>1, <3>2
  <2> QED BY <1>7, <2>1, <2>3, <2>4 DEF ConsumeStarted, Going
<1>8. CASE \/ ConsumeRegistered \/ ConsumePlanned \/ ConsumeSkipped \/ ConsumeWorkerEvent
           \/ ConsumeVerdict \/ ConsumeSummary
  <2>1. Starting = {} /\ Starting' = {} /\ running' = running /\ busy' = busy
    BY <1>8 DEF ConsumeRegistered, ConsumePlanned, ConsumeSkipped, ConsumeWorkerEvent,
         ConsumeVerdict, ConsumeSummary, PublishTask, PublishAgent, TakeDraft, NoDraft, WorkerEvent, scheduling
  <2>2. Going
    BY <1>8 DEF ConsumeRegistered, ConsumePlanned, ConsumeSkipped, ConsumeWorkerEvent,
         ConsumeVerdict, ConsumeSummary, PublishTask, PublishAgent, TakeDraft, Going
  <2> QED BY <2>1, <2>2
<1>9. ASSUME NEW t \in Task, Worker(t) PROVE CapacityInv'
  BY <1>9, WorkerPuts DEF Going
<1>10. CASE Cancel \/ FinalizeOrphan \/ Drained
  <2>1. Starting' = {} /\ running' = running /\ busy' = busy /\ ~Going'
    BY <1>10 DEF Cancel, CancelWaiting, CancelPaused, CancelDraining, FinalizeOrphan, Drained,
         BeginDrain, NoDraft, scheduling, Going
  <2> QED BY <2>1
<1>11. CASE Pause \/ Resume \/ Terminated \/ UNCHANGED vars
  BY <1>11 DEF Pause, Resume, Terminated, vars, scheduling, Going
<1> QED BY <1>1, <1>2, <1>3, <1>4, <1>5, <1>6, <1>7, <1>8, <1>9, <1>10, <1>11
        DEF Next, Scheduler, Consumer

LEMMA DepsStep == Consistent /\ [Next]_vars => DepsInv'
<1> SUFFICES ASSUME TypeOK, PhaseInv, PartitionInv, LifeInv, QueueInv, DepsInv, [Next]_vars,
                    NEW s \in Task
             PROVE  DepsSettled(s)'
  BY DEF Consistent, DepsInv
<1>0. DepsSettled(s)
  BY DEF DepsInv
<1> USE DEF DepsSettled, FailedDeps, Blocked, PhaseInv, Starting, Skipping, Drafted
<1>1. CASE \/ \E a \in Agent : RegisterAgent(a) \/ ReportAgent(a)
           \/ PlanWorkflow \/ ReportWorkflow \/ EndPass
  BY <1>0, <1>1 DEF RegisterAgent, ReportAgent, PlanWorkflow, ReportWorkflow, EndPass, Yield, scheduling
<1>2. ASSUME NEW t \in Task, SkipTask(t) \/ StartTask(t) PROVE DepsSettled(s)'
  <2>1. t \in pending /\ Deps[t] \subseteq terminal
    BY <1>2 DEF SkipTask, StartTask, FirstDecisive, Ahead
  <2>2. terminal' = terminal /\ running' = running
    BY <1>2 DEF SkipTask, StartTask
  <2>3. \A u \in terminal \cup running : u # t /\ outcome'[u] = outcome[u]
    BY <1>2, <2>1 DEF SkipTask, StartTask, PartitionInv, TypeOK
  <2>4. CASE s = t /\ SkipTask(t)
    BY <1>2, <2>1, <2>2, <2>3, <2>4 DEF SkipTask, Yield, Bad, TypeOK
  <2>5. CASE s = t /\ StartTask(t)
    <3>1. ancestry'[t] = DegradedAncestry(t) /\ outcome'[t] = "running"
      BY <2>5 DEF StartTask, TypeOK
    <3>2. \A d \in Deps[t] : outcome'[d] = outcome[d] /\ outcome[d] \in Terminal /\ d \in Task
      BY <2>1, <2>3 DEF LifeInv, Life, TypeOK
    <3>3. \A d \in Deps[t] : outcome[d] = "complete" => ancestry[d] = {}
      BY <3>2 DEF DepsInv
    <3>4. DegradedAncestry(t) = {} <=> \A d \in Deps[t] : outcome[d] = "complete"
      <4>1. ASSUME \A d \in Deps[t] : outcome[d] = "complete" PROVE DegradedAncestry(t) = {}
        BY <3>3, <4>1 DEF DegradedAncestry, Bad
      <4>2. ASSUME NEW d \in Deps[t], outcome[d] # "complete" PROVE d \in DegradedAncestry(t)
        BY <3>2, <4>2 DEF DegradedAncestry, Bad, Terminal, Success
      <4> QED BY <4>1, <4>2
    <3>5. t \in AllowFailed \/ FailedDeps(t)' = {}
      BY <2>5, <3>2 DEF StartTask
    <3>6. Skipping' = {} /\ Starting' = {t}
      BY <2>5 DEF StartTask, Yield
    <3> QED BY <2>1, <2>2, <2>5, <3>1, <3>2, <3>4, <3>5, <3>6
  <2>6. CASE s # t
    <3>1. s \notin Starting' /\ s \notin Skipping' /\ s \notin Starting /\ s \notin Skipping
      BY <1>2, <2>6 DEF SkipTask, StartTask, Yield
    <3>2. outcome'[s] = outcome[s] /\ ancestry'[s] = ancestry[s]
      BY <1>2, <2>6 DEF SkipTask, StartTask, TypeOK
    <3> QED BY <1>0, <2>2, <2>3, <3>1, <3>2
  <2> QED BY <1>2, <2>4, <2>5, <2>6
<1>3. CASE GetEvent
  BY <1>0, <1>3, QueueHead DEF GetEvent, Yield, scheduling, WorkerEvent
<1>4. CASE GetFinished
  <2>1. terminal \subseteq terminal' /\ running' \subseteq running /\ UNCHANGED <<draft, outcome, ancestry>>
    BY <1>4 DEF GetFinished
  <2> QED BY <1>0, <2>1
<1>5. CASE Consumer
  <2>1. terminal \subseteq terminal' /\ running' \subseteq running \cup Starting /\ UNCHANGED <<outcome, ancestry>>
    BY <1>5, DraftFields DEF Consumer, ConsumeRegistered, ConsumePlanned, ConsumeSkipped, ConsumeStarted,
         ConsumeWorkerEvent, ConsumeVerdict, ConsumeSummary, PublishTask, TakeDraft, TaskDraft, scheduling
  <2>2. Starting' = {} /\ Skipping' = {}
    BY <1>5 DEF Consumer, ConsumeRegistered, ConsumePlanned, ConsumeSkipped, ConsumeStarted,
         ConsumeWorkerEvent, ConsumeVerdict, ConsumeSummary, PublishTask, PublishAgent, TakeDraft, NoDraft
  <2> QED BY <1>0, <2>1, <2>2
<1>6. ASSUME NEW t \in Task, Worker(t) PROVE DepsSettled(s)'
  <2>1. /\ UNCHANGED <<draft, running, terminal, ancestry>>
        /\ \A u \in Task : u # t => outcome'[u] = outcome[u]
        /\ t \in running
    BY <1>6, WorkerPuts
  <2>2. \A d \in Deps[s] : d \in Task
    BY DEF TypeOK
  <2>3. t \notin terminal /\ t \notin Starting \cup Skipping
    BY <2>1 DEF PartitionInv
  <2>4. CASE s = t
    <3>1. \/ outcome'[t] = outcome[t]
          \/ outcome'[t] = "failed"
          \/ outcome'[t] = "complete" /\ ancestry[t] = {}
          \/ outcome'[t] = "partial" /\ ancestry[t] # {}
      BY <1>6 DEF Worker, WorkerProgress, WorkerCompletes, WorkerFails, WorkerFinishes, WorkerCrashes,
           WorkerUnwinds, scheduling, TypeOK
    <3>2. \A d \in Deps[t] : outcome'[d] = outcome[d]
      BY <1>0, <2>1, <2>2, <2>3, <2>4
    <3>3. t \notin Starting' \cup Skipping'
      BY <2>1, <2>3
    <3> QED BY <1>0, <2>1, <2>4, <3>1, <3>2, <3>3
  <2>5. CASE s # t
    <3>1. CASE s \in running \cup Starting \cup Skipping
      <4>1. \A d \in Deps[s] : outcome'[d] = outcome[d]
        BY <1>0, <2>1, <2>2, <2>3, <3>1
      <4> QED BY <1>0, <2>1, <2>5, <4>1
    <3>2. CASE s \notin running \cup Starting \cup Skipping
      BY <1>0, <2>1, <2>5, <3>2
    <3> QED BY <3>1, <3>2
  <2> QED BY <2>4, <2>5
<1>7. CASE Cancel \/ FinalizeOrphan \/ Drained
  <2>1. UNCHANGED <<running, terminal, ancestry, outcome>> /\ (draft' = draft \/ draft'.kind = "none")
    BY <1>7 DEF Cancel, CancelWaiting, CancelPaused, CancelDraining, FinalizeOrphan, Drained, NoDraft, scheduling
  <2> QED BY <1>0, <2>1
<1>8. CASE Pause \/ Resume \/ Terminated \/ UNCHANGED vars
  <2>1. UNCHANGED <<running, terminal, ancestry, outcome, draft>>
    BY <1>8 DEF Pause, Resume, Terminated, vars, scheduling
  <2> QED BY <1>0, <2>1
<1> QED BY <1>1, <1>2, <1>3, <1>4, <1>5, <1>6, <1>7, <1>8 DEF Next, Scheduler

--------------------------------------------------------------------------------
\* The tasks that feed t are a closed set themselves, and inside every other.
LEMMA FeedingClosed ==
  ASSUME NEW o, NEW t \in Task
  PROVE  /\ Feeding(o, t) \in Closed(o, t)
         /\ \A S \in Closed(o, t) : Feeding(o, t) \subseteq S
<1>1. Deps[t] \subseteq Feeding(o, t)
  BY DEF Feeding, Closed
<1>2. ASSUME NEW v \in Feeding(o, t), o[v] # "skipped" PROVE Deps[v] \subseteq Feeding(o, t)
  BY <1>2 DEF Feeding, Closed
<1>3. Feeding(o, t) \in SUBSET Task /\ \A S \in Closed(o, t) : Feeding(o, t) \subseteq S
  BY DEF Feeding
<1> QED BY <1>1, <1>2, <1>3 DEF Closed

\* One edge of the graph: what feeds t is its dependencies and what feeds those
\* of them that were not skipped.
LEMMA FeedingUnfold ==
  ASSUME NEW o, NEW t \in Task, NEW u
  PROVE  u \in Feeding(o, t) <=>
           \E d \in Deps[t] : u = d \/ (o[d] # "skipped" /\ u \in Feeding(o, d))
<1> DEFINE R == {v \in Task : \E d \in Deps[t] : v = d \/ (o[d] # "skipped" /\ v \in Feeding(o, d))}
<1>0. \A d \in Deps[t] : d \in Task
  OBVIOUS
<1>1. R \in Closed(o, t)
  <2>1. R \in SUBSET Task /\ Deps[t] \subseteq R
    BY <1>0
  <2>2. ASSUME NEW v \in R, o[v] # "skipped", NEW w \in Deps[v] PROVE w \in R
    <3>0. v \in Task /\ w \in Task
      OBVIOUS
    <3>1. PICK d \in Deps[t] : v = d \/ (o[d] # "skipped" /\ v \in Feeding(o, d))
      OBVIOUS
    <3>2. CASE v = d
      <4>1. Deps[v] \subseteq Feeding(o, v)
        BY <3>0, FeedingClosed DEF Closed
      <4> QED BY <2>2, <3>0, <3>2, <4>1
    <3>3. CASE o[d] # "skipped" /\ v \in Feeding(o, d)
      <4>1. Deps[v] \subseteq Feeding(o, d)
        BY <1>0, <2>2, <3>3, FeedingClosed DEF Closed
      <4> QED BY <3>0, <3>3, <4>1
    <3> QED BY <3>1, <3>2, <3>3
  <2> QED BY <2>1, <2>2 DEF Closed
<1>2. ASSUME NEW d \in Deps[t], o[d] # "skipped" PROVE Feeding(o, d) \subseteq Feeding(o, t)
  <2>1. Feeding(o, t) \in Closed(o, d)
    BY <1>0, <1>2, FeedingClosed DEF Closed
  <2> QED BY <1>0, <2>1, FeedingClosed
<1>3. Deps[t] \subseteq Feeding(o, t) /\ Feeding(o, t) \subseteq R
  BY <1>1, FeedingClosed DEF Closed
<1> QED BY <1>2, <1>3

\* Only the outcomes of the tasks that feed t decide which tasks feed t.
LEMMA FeedingStable ==
  ASSUME NEW o, NEW p, NEW t \in Task, \A v \in Feeding(o, t) : p[v] = o[v]
  PROVE  Feeding(p, t) = Feeding(o, t)
<1>1. Feeding(o, t) \in Closed(p, t)
  BY FeedingClosed DEF Closed
<1>2. Feeding(p, t) \subseteq Feeding(o, t)
  BY <1>1, FeedingClosed
<1>3. Feeding(p, t) \in Closed(o, t)
  BY <1>2, FeedingClosed DEF Closed
<1> QED BY <1>2, <1>3, FeedingClosed

\* What feeds a task over settled dependencies is settled.
LEMMA FeedingSettled ==
  ASSUME TypeOK, AncestryInv, NEW t \in Task, Deps[t] \subseteq Settled
  PROVE  Feeding(outcome, t) \subseteq Settled
<1>1. ASSUME NEW v \in Settled, outcome[v] # "skipped" PROVE Deps[v] \subseteq Settled
  BY <1>1 DEF AncestryInv, Rests, Settled, Started, Terminal, Success, Bad, Done
<1>2. Settled \in Closed(outcome, t)
  BY <1>1 DEF Closed, Settled
<1> QED BY <1>2, FeedingClosed

\* While no settled outcome changes, what a started task rests on does not.
LEMMA AncestryKept ==
  ASSUME TypeOK, AncestryInv, NEW s \in Task, Started(s), ancestry'[s] = ancestry[s],
         \A u \in Settled : outcome'[u] = outcome[u]
  PROVE  /\ Deps[s] \subseteq Settled'
         /\ ancestry'[s] = {u \in Feeding(outcome', s) : outcome'[u] # "complete"}
<1>1. Deps[s] \subseteq Settled /\ ancestry[s] = {u \in Feeding(outcome, s) : outcome[u] # "complete"}
  BY DEF AncestryInv, Rests
<1>2. Feeding(outcome, s) \subseteq Settled
  BY <1>1, FeedingSettled
<1>3. Feeding(outcome', s) = Feeding(outcome, s)
  BY <1>2, FeedingStable
<1> QED BY <1>1, <1>2, <1>3 DEF Settled

\* degraded_ancestry, computed from the dependencies and their ancestries, is what
\* is not complete among all the tasks that feed t.
LEMMA AncestryBuilt ==
  ASSUME TypeOK, AncestryInv, Going, NEW t \in Task, Deps[t] \subseteq Settled \ Starting
  PROVE  DegradedAncestry(t) = {u \in Feeding(outcome, t) : outcome[u] # "complete"}
<1>1. ASSUME NEW d \in Deps[t]
      PROVE  /\ d \in Task /\ outcome[d] \in Terminal
             /\ outcome[d] = "skipped" => ancestry[d] = {}
             /\ outcome[d] # "skipped" =>
                  ancestry[d] = {u \in Feeding(outcome, d) : outcome[u] # "complete"}
  BY DEF AncestryInv, Rests, Started, Settled, Terminal, Success, Bad, Done
<1>2. ASSUME NEW u
      PROVE  u \in DegradedAncestry(t) <=>
               \E d \in Deps[t] : (u = d /\ outcome[d] # "complete") \/ u \in ancestry[d]
  BY <1>1 DEF DegradedAncestry, Terminal, Success, Bad
<1>3. ASSUME NEW u
      PROVE  u \in DegradedAncestry(t) <=> u \in Feeding(outcome, t) /\ outcome[u] # "complete"
  BY <1>1, <1>2, FeedingUnfold
<1> QED BY <1>3

LEMMA AncestryStep == Consistent /\ [Next]_vars => AncestryInv'
<1> SUFFICES ASSUME TypeOK, PhaseInv, PartitionInv, LifeInv, QueueInv, DepsInv, AncestryInv, [Next]_vars,
                    NEW s \in Task
             PROVE  Rests(s)'
  BY DEF Consistent, AncestryInv
<1> DEFINE Kept == \A u \in Settled : outcome'[u] = outcome[u]
<1>0. Rests(s)
  BY DEF AncestryInv
<1>1. ASSUME Kept, ancestry'[s] = ancestry[s], outcome'[s] = outcome[s],
             Started(s)' => Started(s), Going' => Going /\ (Started(s) => Started(s)'),
             worker'[s] = "none" <=> worker[s] = "none"
      PROVE  Rests(s)'
  <2>1. Started(s)' => /\ Deps[s] \subseteq Settled'
                       /\ ancestry'[s] = {u \in Feeding(outcome', s) : outcome'[u] # "complete"}
    BY <1>1, AncestryKept
  <2>2. worker'[s] = "none" /\ s \notin Starting' /\ Going' => ancestry'[s] = {}
    BY <1>0, <1>1 DEF Rests, Started
  <2> QED BY <1>0, <1>1, <2>1, <2>2 DEF Rests
<1> USE DEF PhaseInv, Starting, Drafted
<1>2. CASE \/ \E a \in Agent : RegisterAgent(a) \/ ReportAgent(a)
           \/ PlanWorkflow \/ ReportWorkflow \/ EndPass \/ GetEvent
  <2>1. UNCHANGED <<outcome, ancestry, worker>> /\ Starting' = Starting /\ Going
    BY <1>2, QueueHead DEF RegisterAgent, ReportAgent, PlanWorkflow, ReportWorkflow, EndPass, GetEvent,
         Yield, WorkerEvent, Going, scheduling
  <2> QED BY <1>1, <2>1 DEF Started
<1>3. ASSUME NEW t \in Task, SkipTask(t) \/ StartTask(t) PROVE Rests(s)'
  <2>1. /\ t \in pending /\ Deps[t] \subseteq terminal /\ outcome[t] = "queued" /\ worker[t] = "none"
        /\ Going /\ Starting = {} /\ worker' = worker
    BY <1>3 DEF SkipTask, StartTask, FirstDecisive, Ahead, LifeInv, Life, Going
  <2>2. Kept
    BY <1>3, <2>1 DEF SkipTask, StartTask, Settled, Terminal, Success, Bad, TypeOK
  <2>3. CASE s # t
    <3>1. s \notin Starting'
      BY <1>3, <2>3 DEF SkipTask, StartTask, Yield
    <3>2. outcome'[s] = outcome[s] /\ ancestry'[s] = ancestry[s]
      BY <1>3, <2>3 DEF SkipTask, StartTask, TypeOK
    <3> QED BY <1>1, <2>1, <2>2, <3>1, <3>2 DEF Started
  <2>4. CASE s = t /\ SkipTask(t)
    <3>1. outcome'[t] = "skipped" /\ ancestry' = ancestry /\ Starting' = {}
      BY <2>4 DEF SkipTask, Yield, TypeOK
    <3>2. ancestry[t] = {}
      BY <1>0, <2>1, <2>4 DEF Rests
    <3> QED BY <2>1, <2>4, <3>1, <3>2 DEF Rests, Started, Done
  <2>5. CASE s = t /\ StartTask(t)
    <3>1. outcome'[t] = "running" /\ ancestry'[t] = DegradedAncestry(t) /\ Starting' = {t}
      BY <2>5 DEF StartTask, Yield, TypeOK
    <3>2. Deps[t] \subseteq Settled
      BY <2>1 DEF LifeInv, Life, Settled, TypeOK
    <3>3. ancestry'[t] = {u \in Feeding(outcome, t) : outcome[u] # "complete"}
      BY <2>1, <3>1, <3>2, AncestryBuilt
    <3>4. Feeding(outcome, t) \subseteq Settled
      BY <3>2, FeedingSettled
    <3>5. Feeding(outcome', t) = Feeding(outcome, t)
      BY <2>2, <3>4, FeedingStable
    <3>6. ancestry'[t] = {u \in Feeding(outcome', t) : outcome'[u] # "complete"}
      BY <2>2, <3>3, <3>4, <3>5
    <3>7. Deps[t] \subseteq Settled'
      BY <2>2, <3>2 DEF Settled
    <3> QED BY <2>5, <3>1, <3>6, <3>7 DEF Rests, Done
  <2> QED BY <1>3, <2>3, <2>4, <2>5
<1>4. CASE GetFinished
  <2>1. UNCHANGED <<outcome, ancestry, draft>> /\ Going
    BY <1>4 DEF GetFinished, Going
  <2>2. worker' = worker \/ worker' = [u \in Task |-> IF u \in running \ {Head(queue).task} /\ worker[u] \in Alive
                                                      THEN "cancelling" ELSE worker[u]]
    BY <1>4 DEF GetFinished, BeginDrain
  <2>3. worker'[s] = "none" <=> worker[s] = "none"
    BY <2>2 DEF Alive
  <2> QED BY <1>1, <2>1, <2>3 DEF Started
<1>5. CASE ConsumeStarted /\ s = draft.task
  <2>1. UNCHANGED <<outcome, ancestry>> /\ s \in Starting /\ worker'[s] # "none" /\ outcome[s] = "running"
    BY <1>5 DEF ConsumeStarted, PublishTask, TakeDraft, TypeOK, LifeInv, Life
  <2>2. /\ Deps[s] \subseteq Settled'
        /\ ancestry'[s] = {u \in Feeding(outcome', s) : outcome'[u] # "complete"}
    BY <2>1, AncestryKept DEF Started
  <2> QED BY <2>1, <2>2 DEF Rests
<1>6. CASE Consumer /\ ~(ConsumeStarted /\ s = draft.task)
  <2>1. UNCHANGED <<outcome, ancestry>> /\ Going /\ worker'[s] = worker[s]
    BY <1>6, DraftFields DEF Consumer, ConsumeRegistered, ConsumePlanned, ConsumeSkipped, ConsumeStarted,
         ConsumeWorkerEvent, ConsumeVerdict, ConsumeSummary, PublishTask, PublishAgent, TakeDraft,
         TaskDraft, Going, scheduling, TypeOK
  <2>2. s \notin Starting /\ Starting' = {}
    BY <1>6 DEF Consumer, ConsumeRegistered, ConsumePlanned, ConsumeSkipped, ConsumeStarted,
         ConsumeWorkerEvent, ConsumeVerdict, ConsumeSummary, PublishTask, PublishAgent, TakeDraft,
         NoDraft, WorkerEvent
  <2> QED BY <1>1, <2>1, <2>2 DEF Started
<1>7. ASSUME NEW t \in Task, Worker(t) PROVE Rests(s)'
  <2>1. /\ UNCHANGED <<phase, draft, ancestry>>
        /\ \A u \in Task : u # t => worker'[u] = worker[u] /\ outcome'[u] = outcome[u]
        /\ outcome'[t] = outcome[t] \/ (outcome[t] = "running" /\ outcome'[t] \in Done)
    BY <1>7, WorkerPuts DEF LifeInv, Life
  <2>5. worker[t] # "none" /\ worker'[t] # "none"
    BY <1>7 DEF Worker, WorkerProgress, WorkerCompletes, WorkerFails, WorkerFinishes,
         WorkerCrashes, WorkerUnwinds, TypeOK
  <2>2. Kept
    BY <2>1 DEF Settled, Terminal, Success, Bad
  <2>3. CASE s # t
    BY <1>1, <2>1, <2>2, <2>3 DEF Started, Going
  <2>4. CASE s = t
    <3>1. /\ Deps[s] \subseteq Settled'
          /\ ancestry'[s] = {u \in Feeding(outcome', s) : outcome'[u] # "complete"}
      BY <2>1, <2>2, <2>4, <2>5, AncestryKept DEF Started
    <3> QED BY <1>0, <2>1, <2>4, <2>5, <3>1 DEF Rests, Done
  <2> QED BY <2>3, <2>4
<1>8. CASE Cancel \/ FinalizeOrphan \/ Drained
  <2>1. /\ UNCHANGED <<outcome, ancestry>> /\ (worker'[s] = "none" <=> worker[s] = "none")
        /\ ~Going' /\ (draft' = draft \/ draft'.kind = "none")
    BY <1>8 DEF Cancel, CancelWaiting, CancelPaused, CancelDraining, FinalizeOrphan, Drained,
         BeginDrain, Alive, NoDraft, Going, scheduling
  <2> QED BY <1>1, <2>1 DEF Started
<1>9. CASE Pause \/ Resume \/ Terminated \/ UNCHANGED vars
  <2>1. UNCHANGED <<outcome, ancestry, worker, draft, phase>>
    BY <1>9 DEF Pause, Resume, Terminated, vars, scheduling
  <2> QED BY <1>1, <2>1 DEF Started, Going
<1> QED BY <1>2, <1>3, <1>4, <1>5, <1>6, <1>7, <1>8, <1>9 DEF Next, Scheduler

--------------------------------------------------------------------------------
\* The results in flight: put by the worker, they move from the queue to the
\* draft without a gap.
LEMMA InFlightPut ==
  ASSUME TypeOK, NEW t \in Task, NEW k \in WorkerEvent \cup {"FINISHED", "CRASHED"}, Put(k, t),
         draft' = draft, NEW u \in Task, NEW K
  PROVE  InFlight(K, u)' <=> InFlight(K, u) \/ (u = t /\ k \in K)
<1>1. /\ Len(queue) \in Nat
      /\ Len(queue') = Len(queue) + 1
      /\ \A i \in 1..Len(queue) : queue'[i] = queue[i]
      /\ queue'[Len(queue) + 1].kind = k
      /\ queue'[Len(queue) + 1].task = t
  <2>1. queue'[Len(queue) + 1] = [kind |-> k, task |-> t]
    BY QueuePut
  <2> QED BY <2>1, QueuePut
<1>2. \A i \in 1..Len(queue') : i \in 1..Len(queue) \/ i = Len(queue) + 1
  BY <1>1
<1>3. Len(queue) + 1 \in 1..Len(queue') /\ \A i \in 1..Len(queue) : i \in 1..Len(queue')
  BY <1>1
<1> QED BY <1>1, <1>2, <1>3 DEF InFlight

LEMMA InFlightGet ==
  ASSUME TypeOK, NEW K, "none" \notin K,
         queue # <<>>, draft.kind = "none", queue' = Tail(queue),
         draft' = Head(queue) \/ (draft' = draft /\ Head(queue).kind \notin K), NEW u \in Task
  PROVE  InFlight(K, u)' <=> InFlight(K, u)
<1>1. /\ Len(queue) \in Nat \ {0}
      /\ Head(queue) = queue[1]
      /\ Len(queue') = Len(queue) - 1
      /\ \A i \in 1..Len(queue') : queue'[i] = queue[i + 1]
  BY QueueHead
<1>2. \A i \in 1..Len(queue) : i = 1 \/ (i - 1 \in 1..Len(queue') /\ (i - 1) + 1 = i)
  BY <1>1
<1>3. 1 \in 1..Len(queue) /\ \A i \in 1..Len(queue') : i + 1 \in 1..Len(queue)
  BY <1>1
<1>4. ASSUME NEW i \in 1..Len(queue), i # 1
      PROVE  \E j \in 1..Len(queue') : queue'[j] = queue[i]
  <2>1. i - 1 \in 1..Len(queue') /\ (i - 1) + 1 = i
    BY <1>2, <1>4
  <2>2. queue'[i - 1] = queue[i]
    BY <1>1, <2>1
  <2> QED BY <2>1, <2>2
<1> DEFINE Of(d) == d.kind \in K /\ d.task = u
<1>6. InFlight(K, u) <=> \E i \in 1..Len(queue) : Of(queue[i])
  BY DEF InFlight
<1>7. InFlight(K, u)' <=> Of(draft') \/ \E j \in 1..Len(queue') : Of(queue'[j])
  BY DEF InFlight
<1>8. Of(draft') <=> Of(queue[1])
  BY <1>1
<1>9. (\E i \in 1..Len(queue) : Of(queue[i])) <=>
        Of(queue[1]) \/ \E j \in 1..Len(queue') : Of(queue'[j])
  BY <1>1, <1>3, <1>4
<1> QED BY <1>6, <1>7, <1>8, <1>9

LEMMA StatusStep == Consistent /\ [Next]_vars => StatusInv'
<1> SUFFICES ASSUME TypeOK, PhaseInv, PartitionInv, LifeInv, QueueInv, HeldInv, StatusInv, [Next]_vars,
                    NEW s \in Task
             PROVE  Projected(s)'
  BY DEF Consistent, StatusInv
<1>0. Projected(s) /\ Life(s)
  BY DEF StatusInv, LifeInv
<1> USE DEF Projected, PhaseInv, Going, Starting, Skipping, Drafted
<1>1. CASE \/ \E a \in Agent : RegisterAgent(a) \/ ReportAgent(a)
           \/ PlanWorkflow \/ ReportWorkflow \/ EndPass
  <2>1. Starting' = Starting /\ Skipping' = Skipping /\ InFlight(Verdict, s)' = InFlight(Verdict, s)
    BY <1>1 DEF RegisterAgent, ReportAgent, PlanWorkflow, ReportWorkflow, EndPass, Yield, scheduling,
                InFlight, Verdict
  <2>2. UNCHANGED <<status, outcome, pending, terminal, running>> /\ Going
    BY <1>1 DEF RegisterAgent, ReportAgent, PlanWorkflow, ReportWorkflow, EndPass, Yield, scheduling, projection
  <2> QED BY <1>0, <2>1, <2>2
<1>2. ASSUME NEW t \in Task, SkipTask(t) \/ StartTask(t) PROVE Projected(s)'
  <2>1. t \in pending /\ status' = status /\ terminal' = terminal /\ running' = running /\ pending' = pending \ {t} /\ Going
    BY <1>2 DEF SkipTask, StartTask, FirstDecisive, Ahead, projection
  <2>2. outcome'[s] = IF s = t THEN (IF SkipTask(t) THEN "skipped" ELSE "running") ELSE outcome[s]
    BY <1>2 DEF SkipTask, StartTask, Yield, TypeOK
  <2>3. InFlight(Verdict, s)' = InFlight(Verdict, s)
    BY <1>2 DEF SkipTask, StartTask, Yield, InFlight, Verdict
  <2>4. s \in Starting' \cup Skipping' => s = t
    BY <1>2 DEF SkipTask, StartTask, Yield
  <2> QED BY <1>0, <2>1, <2>2, <2>3, <2>4 DEF PartitionInv
<1>3. CASE GetEvent
  <2>1. InFlight(Verdict, s)' <=> InFlight(Verdict, s)
    BY <1>3, InFlightGet DEF GetEvent, Yield, Verdict
  <2>2. Starting' = {} /\ Skipping' = {} /\ UNCHANGED <<status, outcome, pending, terminal, running>> /\ Going
    BY <1>3 DEF GetEvent, Yield, scheduling, projection, WorkerEvent
  <2> QED BY <1>0, <2>1, <2>2
<1>4. CASE GetFinished
  <2> DEFINE t == Head(queue).task
  <2>1. /\ queue # <<>> /\ Head(queue) = queue[1] /\ ItemInv(Head(queue)) /\ 1 \in 1..Len(queue)
        /\ draft' = draft /\ draft.kind = "none" /\ Head(queue).kind \notin Verdict
    <3>1. queue # <<>> /\ draft' = draft /\ draft.kind = "none" /\ Head(queue).kind \notin Verdict
      BY <1>4 DEF GetFinished, Verdict
    <3>2. Head(queue) = queue[1] /\ 1 \in 1..Len(queue)
      BY <3>1, QueueHead
    <3> QED BY <3>1, <3>2 DEF QueueInv
  <2>2. InFlight(Verdict, s)' <=> InFlight(Verdict, s)
    BY <1>4, <2>1, InFlightGet DEF GetFinished, Verdict
  <2>3. ~InFlight(Verdict, t)
    <3>1. Step(queue[1].kind) = 3
      BY <1>4, <2>1 DEF Step, Verdict, GetFinished
    <3>2. ASSUME NEW i \in 1..Len(queue), queue[i].task = t, queue[i].kind \in Verdict PROVE FALSE
      <4>1. Step(queue[i].kind) = 2
        BY <3>2 DEF Step, Verdict
      <4>2. i # 1 => 1 < i
        OBVIOUS
      <4>3. i = 1
        BY <2>1, <3>1, <3>2, <4>1, <4>2 DEF QueueInv
      <4> QED BY <3>1, <4>1, <4>3
    <3>3. draft.kind \notin Verdict
      BY <2>1 DEF Verdict
    <3> QED BY <3>2, <3>3 DEF InFlight
  <2>4. CASE Head(queue).kind = "FINISHED"
    <3>1. status[t] = outcome[t]
      BY <1>4, <2>1, <2>3, <2>4 DEF ItemInv, StatusInv, Done, GetFinished, TypeOK
    <3> QED BY <1>0, <1>4, <2>1, <2>2, <2>4, <3>1 DEF GetFinished, projection
  <2>5. CASE Head(queue).kind = "CRASHED"
    BY <1>0, <1>4, <2>5 DEF GetFinished, BeginDrain, projection
  <2> QED BY <1>4, <2>4, <2>5 DEF GetFinished
<1>5. CASE ConsumeRegistered \/ ConsumePlanned \/ ConsumeVerdict \/ ConsumeSummary
  <2>1. /\ Starting = {} /\ Skipping = {} /\ Starting' = {} /\ Skipping' = {}
        /\ InFlight(Verdict, s)' = InFlight(Verdict, s) /\ Going
    BY <1>5 DEF ConsumeRegistered, ConsumePlanned, ConsumeVerdict, ConsumeSummary, PublishAgent, TakeDraft,
         NoDraft, InFlight, Verdict
  <2>2. UNCHANGED <<status, outcome, pending, terminal, running>>
    BY <1>5 DEF ConsumeRegistered, ConsumePlanned, ConsumeVerdict, ConsumeSummary, PublishAgent,
         scheduling, projection
  <2> QED BY <1>0, <2>1, <2>2
<1>6. CASE ConsumeSkipped \/ ConsumeStarted
  <2>1. /\ draft.task \in Task
        /\ status' = [status EXCEPT ![draft.task] = StatusAfter(draft.kind)]
        /\ Starting' = {} /\ Skipping' = {}
    BY <1>6, DraftFields DEF ConsumeSkipped, ConsumeStarted, PublishTask, TakeDraft, NoDraft, TaskDraft
  <2>2. InFlight(Verdict, s)' = InFlight(Verdict, s) /\ outcome' = outcome /\ pending' = pending
    BY <1>6 DEF ConsumeSkipped, ConsumeStarted, PublishTask, TakeDraft, NoDraft, InFlight, Verdict
  <2>3. CASE s # draft.task
    BY <1>0, <1>6, <2>1, <2>2, <2>3 DEF ConsumeSkipped, ConsumeStarted, PublishTask, TakeDraft, TypeOK
  <2>4. CASE s = draft.task /\ ConsumeSkipped
    <3>1. s \in Skipping /\ status'[s] = "skipped"
      BY <2>1, <2>4 DEF ConsumeSkipped, PublishTask, TakeDraft, StatusAfter, TypeOK
    <3> QED BY <1>0, <2>1, <2>2, <2>4, <3>1 DEF ConsumeSkipped, PartitionInv, Life
  <2>5. CASE s = draft.task /\ ConsumeStarted
    <3>1. s \in Starting /\ status'[s] = "running"
      BY <2>1, <2>5 DEF ConsumeStarted, PublishTask, TakeDraft, StatusAfter, TypeOK
    <3> QED BY <1>0, <2>1, <2>2, <2>5, <3>1 DEF ConsumeStarted, PartitionInv, Life
  <2> QED BY <1>6, <2>3, <2>4, <2>5
<1>7. CASE ConsumeWorkerEvent
  <2>1. /\ draft.kind \in WorkerEvent /\ draft.task \in running /\ draft.task \in Task
        /\ ItemInv(draft) /\ status[draft.task] = "running"
        /\ status' = [status EXCEPT ![draft.task] = StatusAfter(draft.kind)]
    BY <1>7 DEF ConsumeWorkerEvent, PublishTask, TakeDraft, Accepts, HeldInv, ItemInv, TypeOK
  <2>2. /\ Starting' = {} /\ Skipping' = {} /\ draft'.kind = "none" /\ queue' = queue
        /\ UNCHANGED <<outcome, pending, terminal, running>>
    BY <1>7 DEF ConsumeWorkerEvent, PublishTask, TakeDraft, NoDraft, scheduling
  <2>3. CASE s # draft.task
    <3>1. InFlight(Verdict, s)' = InFlight(Verdict, s)
      BY <2>2, <2>3 DEF InFlight, Verdict
    <3> QED BY <1>0, <1>7, <2>1, <2>2, <2>3, <3>1 DEF ConsumeWorkerEvent, PublishTask, TakeDraft, TypeOK
  <2>4. s \in running => s \notin pending /\ s \notin terminal
    BY DEF PartitionInv
  <2>5. CASE s = draft.task /\ draft.kind = "PROGRESS"
    <3>1. status'[s] = "running"
      BY <2>1, <2>5 DEF StatusAfter, TypeOK
    <3>2. InFlight(Verdict, s)' = InFlight(Verdict, s)
      BY <2>2, <2>5 DEF InFlight, Verdict
    <3>3. outcome[s] = "running" \/ InFlight(Verdict, s)
      BY <1>0, <1>7, <2>1, <2>5 DEF Life, ConsumeWorkerEvent, PublishTask, TakeDraft, Done
    <3> QED BY <1>0, <2>1, <2>2, <2>4, <2>5, <3>1, <3>2, <3>3
  <2>6. CASE s = draft.task /\ draft.kind \in Verdict
    <3>1. status'[s] = outcome[s] /\ outcome[s] \notin {"queued", "running"}
      BY <2>1, <2>6 DEF ItemInv, TypeOK, StatusAfter, Verdict
    <3>2. ~InFlight(Verdict, s)'
      <4>1. Step(draft.kind) = 2
        BY <2>6 DEF Step, Verdict
      <4>2. ASSUME NEW i \in 1..Len(queue), queue[i].task = s, queue[i].kind \in Verdict PROVE FALSE
        <5>1. Step(queue[i].kind) = 2
          BY <4>2 DEF Step, Verdict
        <5>2. Step(draft.kind) < Step(queue[i].kind)
          BY <2>1, <2>6, <4>2 DEF HeldInv
        <5> QED BY <4>1, <5>1, <5>2
      <4> QED BY <2>2, <4>2 DEF InFlight, Verdict
    <3> QED BY <2>1, <2>2, <2>4, <2>6, <3>1, <3>2
  <2>7. draft.kind = "PROGRESS" \/ draft.kind \in Verdict
    BY <2>1 DEF WorkerEvent, Verdict
  <2> QED BY <2>3, <2>5, <2>6, <2>7
<1>8. ASSUME NEW t \in Task, Worker(t) PROVE Projected(s)'
  <2>1. /\ UNCHANGED <<phase, draft, running, pending, terminal, status>>
        /\ \A u \in Task : u # t => outcome'[u] = outcome[u]
        /\ outcome'[t] = outcome[t] \/ (worker[t] = "live" /\ outcome'[t] \in Done)
        /\ t \in running
    BY <1>8, WorkerPuts
  <2>2. CASE queue' = queue /\ outcome' = outcome
    BY <1>0, <2>1, <2>2 DEF InFlight
  <2>3. ASSUME NEW k \in WorkerEvent \cup {"FINISHED", "CRASHED"}, Put(k, t),
               k \in Verdict <=> outcome'[t] # outcome[t]
        PROVE  Projected(s)'
    <3>1. InFlight(Verdict, s)' <=> InFlight(Verdict, s) \/ (s = t /\ k \in Verdict)
      BY <2>1, <2>3, InFlightPut
    <3>2. CASE s # t \/ k \notin Verdict
      BY <1>0, <2>1, <2>3, <3>1, <3>2
    <3>3. CASE s = t /\ k \in Verdict
      <4>1. outcome[t] = "running" /\ outcome'[t] \in Done
        BY <1>0, <2>1, <2>3, <3>3 DEF Life
      <4>2. t \notin pending /\ t \notin terminal /\ t \notin Starting \cup Skipping
        BY <2>1 DEF PartitionInv
      <4> QED BY <1>0, <2>1, <3>1, <3>3, <4>1, <4>2 DEF Done
    <3> QED BY <3>2, <3>3
  <2> QED BY <1>8, <2>2, <2>3, WorkerPuts
<1>9. CASE Cancel \/ FinalizeOrphan \/ Drained
  BY <1>0, <1>9 DEF Cancel, CancelWaiting, CancelPaused, CancelDraining, FinalizeOrphan, Drained,
       BeginDrain, scheduling, projection
<1>10. CASE Pause \/ Resume \/ Terminated \/ UNCHANGED vars
  <2>1. UNCHANGED <<phase, draft, queue, status, outcome, pending, terminal, running>>
    BY <1>10 DEF Pause, Resume, Terminated, vars, scheduling, projection
  <2> QED BY <1>0, <2>1 DEF InFlight
<1> QED BY <1>1, <1>2, <1>3, <1>4, <1>5, <1>6, <1>7, <1>8, <1>9, <1>10
        DEF Next, Scheduler, Consumer

LEMMA ProgressStep == Consistent /\ [Next]_vars => ProgressInv'
<1> SUFFICES ASSUME TypeOK, PhaseInv, PartitionInv, LifeInv, QueueInv, HeldInv, StatusInv, ProgressInv,
                    [Next]_vars, Going', NEW s \in Task, InFlight({"PROGRESS"}, s)'
             PROVE  status'[s] = "running"
  BY DEF Consistent, ProgressInv
<1> USE DEF ProgressInv, PhaseInv, Going
<1>1. CASE \/ \E a \in Agent : RegisterAgent(a) \/ ReportAgent(a)
           \/ PlanWorkflow \/ ReportWorkflow \/ EndPass
           \/ \E t \in Task : SkipTask(t) \/ StartTask(t)
  <2>1. Going /\ status' = status /\ queue' = queue
    BY <1>1 DEF RegisterAgent, ReportAgent, PlanWorkflow, ReportWorkflow, EndPass, SkipTask, StartTask,
         Yield, projection
  <2>2. draft'.kind # "PROGRESS"
    BY <1>1 DEF RegisterAgent, ReportAgent, PlanWorkflow, ReportWorkflow, EndPass, SkipTask, StartTask, Yield
  <2> QED BY <2>1, <2>2 DEF InFlight
<1>2. CASE GetEvent
  <2>1. Going /\ status' = status /\ InFlight({"PROGRESS"}, s)
    BY <1>2, InFlightGet DEF GetEvent, Yield, projection
  <2> QED BY <2>1
<1>3. CASE GetFinished
  <2>1. Going /\ status' = status /\ InFlight({"PROGRESS"}, s)
    BY <1>3, InFlightGet DEF GetFinished, projection
  <2> QED BY <2>1
<1>4. CASE Consumer
  <2>1. draft'.kind = "none" /\ queue' = queue /\ Going
    BY <1>4 DEF Consumer, ConsumeRegistered, ConsumePlanned, ConsumeSkipped, ConsumeStarted,
         ConsumeWorkerEvent, ConsumeVerdict, ConsumeSummary, PublishTask, PublishAgent, TakeDraft, NoDraft
  <2>2. PICK i \in 1..Len(queue) : queue[i].kind = "PROGRESS" /\ queue[i].task = s
    BY <2>1 DEF InFlight
  <2>3. status[s] = "running" /\ s \in running
    BY <2>1, <2>2 DEF InFlight, QueueInv, ItemInv
  <2>4. CASE status' = status
    BY <2>3, <2>4
  <2>5. CASE ConsumeSkipped \/ ConsumeStarted
    <3>1. draft.task \in Starting \cup Skipping
      BY <2>5, DraftFields DEF ConsumeSkipped, ConsumeStarted, PublishTask, TakeDraft, Starting, Skipping,
           Drafted, TaskDraft
    <3>2. draft.task # s
      BY <2>3, <3>1 DEF PartitionInv
    <3> QED BY <2>3, <2>5, <3>2 DEF ConsumeSkipped, ConsumeStarted, PublishTask, TypeOK
  <2>6. CASE ConsumeWorkerEvent
    <3>1. draft.kind \in WorkerEvent /\ status' = [status EXCEPT ![draft.task] = StatusAfter(draft.kind)]
      BY <2>6 DEF ConsumeWorkerEvent, PublishTask, TakeDraft
    <3>2. CASE draft.task = s
      <4>1. Step(draft.kind) < Step("PROGRESS")
        BY <2>2, <3>1, <3>2 DEF HeldInv
      <4> QED BY <4>1, StepsTyped DEF Step
    <3>3. CASE draft.task # s
      BY <2>3, <3>1, <3>3 DEF TypeOK
    <3> QED BY <3>2, <3>3
  <2> QED BY <1>4, <2>4, <2>5, <2>6 DEF Consumer, ConsumeRegistered, ConsumePlanned, ConsumeVerdict,
        ConsumeSummary, PublishAgent, projection
<1>5. ASSUME NEW t \in Task, Worker(t) PROVE status'[s] = "running"
  <2>1. UNCHANGED <<phase, draft, running, status>> /\ t \in running /\ Going
    BY <1>5, WorkerPuts
  <2>2. CASE InFlight({"PROGRESS"}, s)
    BY <2>1, <2>2
  <2>3. CASE ~InFlight({"PROGRESS"}, s)
    <3>1. CASE queue' = queue
      BY <2>1, <2>3, <3>1 DEF InFlight
    <3>2. ASSUME NEW k \in WorkerEvent \cup {"FINISHED", "CRASHED"}, Put(k, t),
                 k = "PROGRESS" => outcome'[t] = "running",
                 outcome'[t] = outcome[t] \/ k \in Verdict
          PROVE  status[s] = "running"
      <4>1. s = t /\ k = "PROGRESS"
        BY <2>1, <2>3, <3>2, InFlightPut
      <4>2. outcome[t] = "running"
        BY <3>2, <4>1 DEF Verdict
      <4> QED BY <2>1, <4>1, <4>2 DEF StatusInv, Projected
    <3> QED BY <1>5, <2>1, <3>1, <3>2, WorkerPuts
  <2> QED BY <2>2, <2>3
<1>6. CASE Cancel \/ FinalizeOrphan \/ Drained
  BY <1>6 DEF Cancel, CancelWaiting, CancelPaused, CancelDraining, FinalizeOrphan, Drained, BeginDrain
<1>7. CASE Pause \/ Resume \/ Terminated \/ UNCHANGED vars
  <2>1. UNCHANGED <<phase, draft, queue, status>>
    BY <1>7 DEF Pause, Resume, Terminated, vars, projection
  <2> QED BY <2>1 DEF InFlight
<1> QED BY <1>1, <1>2, <1>3, <1>4, <1>5, <1>6, <1>7 DEF Next, Scheduler

--------------------------------------------------------------------------------
LEMMA AgentStep == Consistent /\ [Next]_vars => AgentInv'
<1> SUFFICES ASSUME TypeOK, PhaseInv, PartitionInv, LifeInv, QueueInv, StatusInv, AgentInv, [Next]_vars
             PROVE  AgentInv'
  BY DEF Consistent
<1> USE DEF AgentInv, PhaseInv, Going, DraftAgent, AgentDraft, Summing
<1>1. ASSUME run' = "running" PROVE AgentVerdicts'
  BY <1>1 DEF AgentVerdicts
<1>2. ASSUME NEW a \in Agent, RegisterAgent(a) PROVE AgentInv'
  BY <1>1, <1>2 DEF RegisterAgent, Yield, projection
<1>3. CASE PlanWorkflow
  BY <1>1, <1>3 DEF PlanWorkflow, Yield, projection
<1>4. ASSUME NEW t \in Task, SkipTask(t) \/ StartTask(t) PROVE AgentInv'
  BY <1>1, <1>4 DEF SkipTask, StartTask, Yield, projection
<1>5. CASE EndPass
  BY <1>1, <1>5 DEF EndPass, projection
<1>6. ASSUME NEW a \in Agent, ReportAgent(a) PROVE AgentInv'
  <2>1. /\ draft'.agent = a /\ draft'.kind \in {"AGENT_FAILED", "AGENT_COMPLETED"}
        /\ draft'.kind = "AGENT_FAILED" <=> AgentVerdict(a) = "failed"
    BY <1>6 DEF ReportAgent, Yield, AgentVerdict
  <2>2. /\ left' = left \ {a} /\ phase' = "yield" /\ UNCHANGED <<agent, run, outcome, status>>
        /\ phase = "summary" /\ a \in left /\ DraftAgent = {}
    BY <1>6 DEF ReportAgent, Yield, projection, scheduling
  <2>3. \A b \in Agent : AgentVerdict(b)' = AgentVerdict(b) /\ AgentVerdict(b) \in {"failed", "complete"}
    BY <2>2 DEF AgentVerdict
  <2> QED BY <1>1, <2>1, <2>2, <2>3
<1>7. CASE ReportWorkflow
  <2>1. \A b \in Agent : AgentVerdict(b)' = AgentVerdict(b)
    BY <1>7 DEF ReportWorkflow, scheduling, AgentVerdict
  <2> QED BY <1>1, <1>7, <2>1 DEF ReportWorkflow, Yield, projection
<1>8. CASE GetEvent
  BY <1>1, <1>8, QueueHead DEF GetEvent, Yield, projection, WorkerEvent
<1>9. CASE GetFinished
  <2>1. CASE Head(queue).kind = "FINISHED"
    BY <1>1, <1>9, <2>1 DEF GetFinished, projection
  <2>2. CASE Head(queue).kind = "CRASHED"
    <3>1. ItemInv(Head(queue)) /\ Head(queue).task \in Task
      BY <1>9, QueueHead DEF GetFinished, QueueInv, Items
    <3>2. status[Head(queue).task] \notin Terminal
      BY <2>2, <3>1 DEF ItemInv, StatusInv, Projected, Terminal, Success, Bad
    <3> QED BY <1>1, <1>9, <2>2, <3>1, <3>2 DEF GetFinished, BeginDrain, projection
  <2> QED BY <1>9, <2>1, <2>2 DEF GetFinished
<1>10. CASE ConsumeRegistered
  BY <1>1, <1>10, DraftFields DEF ConsumeRegistered, PublishAgent, TakeDraft, NoDraft, TypeOK
<1>11. CASE ConsumePlanned
  BY <1>1, <1>11 DEF ConsumePlanned, TakeDraft, NoDraft, projection
<1>12. CASE ConsumeSkipped \/ ConsumeStarted \/ ConsumeWorkerEvent
  <2>1. /\ agent' = [agent EXCEPT ![AgentOf[draft.task]] = "running"]
        /\ phase' = "scan" /\ draft' = NoDraft /\ run' = run
        /\ phase = "yield" /\ draft.kind \notin {"AGENT_REGISTERED", "none"}
    BY <1>12 DEF ConsumeSkipped, ConsumeStarted, ConsumeWorkerEvent, PublishTask, TakeDraft, WorkerEvent
  <2> QED BY <1>1, <2>1 DEF NoDraft, TypeOK
<1>13. CASE ConsumeVerdict
  <2>1. /\ draft.agent \in Agent /\ draft.agent \notin left
        /\ agent' = [agent EXCEPT ![draft.agent] = AgentVerdict(draft.agent)]
        /\ AgentVerdict(draft.agent) \in {"failed", "complete"}
    BY <1>13, DraftFields DEF ConsumeVerdict, PublishAgent, TakeDraft
  <2>2. /\ phase = "yield" /\ phase' = "summary" /\ draft' = NoDraft
        /\ UNCHANGED <<run, left, outcome>> /\ DraftAgent = {draft.agent}
    BY <1>13, <2>1 DEF ConsumeVerdict, PublishAgent, TakeDraft, scheduling
  <2>3. \A b \in Agent : AgentVerdict(b)' = AgentVerdict(b)
    BY <2>2 DEF AgentVerdict
  <2>4. draft.kind \in {"AGENT_FAILED", "AGENT_COMPLETED"}
    BY <1>13 DEF ConsumeVerdict, PublishAgent, TakeDraft
  <2> QED BY <1>1, <2>1, <2>2, <2>3, <2>4 DEF NoDraft, TypeOK
<1>14. CASE ConsumeSummary
  <2>1. /\ phase = "yield" /\ draft.kind = "WORKFLOW_COMPLETED" /\ phase' = "stopped" /\ draft' = NoDraft
        /\ UNCHANGED <<agent, status>>
    BY <1>14 DEF ConsumeSummary, TakeDraft
  <2>2. \A a \in Agent : agent[a] = AgentVerdict(a)
    BY <2>1
  <2>3. \A t \in Task : status[t] = outcome[t]
    BY <2>1 DEF PartitionInv, Starting, Skipping, Drafted, StatusInv, Projected
  <2>4. AgentVerdicts'
    BY <2>1, <2>2, <2>3 DEF AgentVerdicts, AgentVerdict
  <2> QED BY <2>1, <2>4 DEF NoDraft
<1>15. ASSUME NEW t \in Task, Worker(t) PROVE AgentInv'
  <2>1. /\ UNCHANGED <<phase, draft, agent, left, run, cause, status, running>>
        /\ t \in running
    BY <1>15, WorkerPuts
  <2>2. AgentVerdicts'
    BY <2>1 DEF AgentVerdicts
  <2> QED BY <2>1, <2>2
<1>16. CASE Cancel \/ FinalizeOrphan
  <2>1. AgentVerdicts'
    BY <1>16 DEF AgentVerdicts, Cancel, CancelWaiting, CancelPaused, CancelDraining, FinalizeOrphan,
         PublishCancelled, projection
  <2> QED BY <1>16, <2>1 DEF Cancel, CancelWaiting, CancelPaused, CancelDraining, FinalizeOrphan,
         BeginDrain, NoDraft, projection
<1>17. CASE Drained
  <2>1. AgentVerdicts'
    BY <1>17 DEF AgentVerdicts, Drained, PublishCancelled, TypeOK
  <2> QED BY <1>17, <2>1 DEF Drained
<1>18. CASE Pause \/ Resume \/ Terminated \/ UNCHANGED vars
  <2>1. UNCHANGED <<phase, draft, agent, left, run, cause, status, outcome>>
    BY <1>18 DEF Pause, Resume, Terminated, vars, scheduling, projection
  <2> QED BY <2>1 DEF AgentVerdict, AgentVerdicts
<1> QED BY <1>2, <1>3, <1>4, <1>5, <1>6, <1>7, <1>8, <1>9, <1>10, <1>11, <1>12, <1>13, <1>14, <1>15,
           <1>16, <1>17, <1>18 DEF Next, Scheduler, Consumer

LEMMA ConsistentStep == Consistent /\ [Next]_vars => Consistent'
BY TypeStep, PhaseStep, PartitionStep, LifeStep, QueueStep, HeldStep, StatusStep, ProgressStep, CapacityStep,
   DepsStep, AncestryStep, AgentStep DEF Consistent

\* Between any two steps the scheduler's sets, the queue, the outcomes and the
\* projection agree.
THEOREM AlwaysConsistent == Spec => []Consistent
BY InitConsistent, ConsistentStep, PTL DEF Spec

--------------------------------------------------------------------------------
LEMMA AcceptsHeld == Consistent => ReducerAccepts
<1> SUFFICES ASSUME TypeOK, PhaseInv, PartitionInv, LifeInv, QueueInv, HeldInv, StatusInv, ProgressInv,
                    DepsInv, AgentInv,
                    phase = "yield"
             PROVE  Accepts(draft)
  BY DEF Consistent, ReducerAccepts
<1>1. run = "running"
  BY DEF PhaseInv, Going
<1>2. /\ draft.kind = "AGENT_REGISTERED" => agent[draft.agent] = "absent"
      /\ draft.kind \in {"AGENT_COMPLETED", "AGENT_FAILED"} => agent[draft.agent] # "absent"
  BY DraftFields DEF AgentInv, Going, AgentDraft, DraftAgent
<1>3. ASSUME draft.kind \in {"TASK_STARTED", "TASK_SKIPPED"} PROVE status[draft.task] = "queued"
  <2>1. draft.task \in Starting \cup Skipping /\ draft.task \in Task
    BY <1>3, DraftFields DEF Starting, Skipping, Drafted, TaskDraft
  <2> QED BY <2>1 DEF StatusInv, Projected, Going
<1>4. ASSUME draft.kind = "TASK_STARTED", NEW e \in Deps[draft.task]
      PROVE  status[e] \in (IF draft.task \in AllowFailed THEN Terminal ELSE Success)
  <2>1. draft.task \in Starting /\ draft.task \in Task
    BY <1>4, DraftFields DEF Starting, Drafted, TaskDraft
  <2>2. e \in terminal /\ e \in Task
    BY <1>4, <2>1 DEF DepsInv, DepsSettled, TypeOK
  <2>3. status[e] = outcome[e] /\ outcome[e] \in Terminal
    BY <2>2 DEF StatusInv, Projected, Going, LifeInv, Life
  <2>4. draft.task \in AllowFailed \/ outcome[e] \notin Bad
    BY <1>4, <2>1 DEF DepsInv, DepsSettled, FailedDeps
  <2> QED BY <2>3, <2>4 DEF Terminal
<1>5. ASSUME draft.kind \in WorkerEvent PROVE status[draft.task] = "running"
  <2>1. draft.task \in running /\ draft.task \in Task /\ ItemInv(draft)
    BY <1>5 DEF HeldInv, ItemInv, TypeOK
  <2>2. CASE draft.kind \in Verdict
    BY <2>1, <2>2 DEF StatusInv, Projected, Going, InFlight
  <2>3. CASE draft.kind = "PROGRESS"
    BY <2>1, <2>3 DEF ProgressInv, Going, InFlight
  <2> QED BY <1>5, <2>2, <2>3 DEF WorkerEvent, Verdict
<1>6. ASSUME draft.kind = "WORKFLOW_COMPLETED", NEW t \in Task PROVE status[t] \in Terminal
  <2>1. t \in terminal
    BY <1>6 DEF PhaseInv, PartitionInv, Going, Starting, Skipping, Drafted, Summing
  <2> QED BY <2>1 DEF StatusInv, Projected, Going, LifeInv, Life
<1> QED BY <1>1, <1>2, <1>3, <1>4, <1>5, <1>6 DEF Accepts

\* Whatever the workflow and the interleaving, reduce_event accepts every draft
\* the scheduler yields: a run never fails on an event of its own runtime.
THEOREM DraftsAccepted == Spec => []ReducerAccepts
BY AlwaysConsistent, AcceptsHeld, PTL

\* The scheduler never runs into its own "scheduler deadlock" error.
THEOREM DeadlockNeverRaised == Spec => []NoSchedulerDeadlock
<1>1. Consistent => NoSchedulerDeadlock
  BY DEF Consistent, PhaseInv, NoSchedulerDeadlock
<1> QED BY <1>1, AlwaysConsistent, PTL

\* Live workers never exceed the slots and never share an agent, also while the
\* run drains or after its generator was abandoned.
THEOREM BoundedWorkers == Spec => []WorkersBounded
<1>1. Consistent => WorkersBounded
  <2> SUFFICES ASSUME TypeOK, LifeInv, CapacityInv PROVE WorkersBounded
    BY DEF Consistent
  <2> DEFINE alive == {t \in Task : worker[t] \in Alive}
  <2>1. alive \subseteq running
    BY DEF LifeInv, Life
  <2>2. IsFiniteSet(running) /\ Cardinality(running) \in Nat
    BY FS_Subset, FS_CardinalityType DEF TypeOK
  <2>3. Cardinality(alive) <= Cardinality(running) /\ Cardinality(alive) \in Nat
    BY <2>1, <2>2, FS_Subset, FS_CardinalityType
  <2>4. Cardinality(alive) <= Slots
    BY <2>2, <2>3 DEF CapacityInv
  <2> QED BY <2>1, <2>4 DEF CapacityInv, WorkersBounded
<1> QED BY <1>1, AlwaysConsistent, PTL

\* What the summary says of an agent agrees with the projected status of its tasks.
THEOREM VerdictsAgree == Spec => []AgentVerdicts
<1>1. Consistent => AgentVerdicts
  BY DEF Consistent, AgentInv
<1> QED BY <1>1, AlwaysConsistent, PTL

\* What the scheduler decides by its outcomes the reducer accepts by its events,
\* and the summary agrees with the projected tasks.
THEOREM ProjectionsAgree == Spec => []ProjectionAgrees
BY DraftsAccepted, VerdictsAgree, PTL DEF ProjectionAgrees

\* The pool is never overdrawn and never stuck, for every validated workflow.
THEOREM PoolStaysSound == Spec => []PoolSound
BY BoundedWorkers, DeadlockNeverRaised, PTL DEF PoolSound

\* When a task starts, degraded_ancestry names exactly what did not complete among
\* the tasks that feed it, and nothing that happens later makes it wrong: for every
\* dependency graph and every interleaving.
THEOREM AncestryStaysExact == Spec => []AncestryExact
<1>1. Consistent => AncestryExact
  BY DEF Consistent, AncestryInv, Rests, Started, AncestryExact
<1> QED BY <1>1, AlwaysConsistent, PTL

\* A run that was not paused when it was cancelled ends only after its last worker.
THEOREM EndsAfterWorkers == Spec => EndsDrained
<1> DEFINE Act == run = "running" /\ run' # "running" /\ (run' = "cancelled" => gate = "open") =>
                    \A t \in Task : worker'[t] \notin Alive
<1>1. Consistent /\ [Next]_vars => [Act]_vars
  <2> SUFFICES ASSUME TypeOK, PhaseInv, LifeInv, [Next]_vars, run = "running", run' # "running",
                      run' = "cancelled" => gate = "open", NEW t \in Task
               PROVE  worker'[t] \notin Alive
    BY DEF Consistent
  <2>1. CASE ConsumeSummary
    BY <2>1 DEF ConsumeSummary, TakeDraft, PhaseInv, Summing, LifeInv, Life
  <2>2. CASE Drained
    BY <2>2 DEF Drained, LifeInv, Life, Alive
  <2>3. CASE CancelPaused
    BY <2>3 DEF CancelPaused, PublishCancelled
  <2>4. CASE Scheduler /\ ~Drained
    BY <2>4 DEF Scheduler, RegisterAgent, ReportAgent, PlanWorkflow, ReportWorkflow, SkipTask, StartTask,
         EndPass, GetEvent, GetFinished, FinalizeOrphan, projection
  <2>5. CASE Consumer /\ ~ConsumeSummary
    BY <2>5 DEF Consumer, ConsumeRegistered, ConsumePlanned, ConsumeSkipped, ConsumeStarted,
         ConsumeWorkerEvent, ConsumeVerdict, PublishTask, PublishAgent, projection
  <2>6. ASSUME NEW u \in Task, Worker(u) PROVE FALSE
    BY <2>6, WorkerPuts
  <2>7. CASE CancelWaiting \/ CancelDraining \/ Pause \/ Resume \/ Terminated \/ UNCHANGED vars
    BY <2>7 DEF CancelWaiting, CancelDraining, Pause, Resume, Terminated, vars, projection
  <2> QED BY <2>1, <2>2, <2>3, <2>4, <2>5, <2>6, <2>7 DEF Next, Cancel
<1>2. Spec => [][Act]_vars
  BY <1>1, AlwaysConsistent, PTL DEF Spec
<1> QED BY <1>2 DEF EndsDrained

--------------------------------------------------------------------------------
\* One draft published is at most one step of the contract.
LEMMA ContractStep == Consistent /\ [Next]_vars => [Contract!Next]_(Contract!vars)
<1> SUFFICES ASSUME TypeOK, PhaseInv, PartitionInv, LifeInv, QueueInv, HeldInv, StatusInv, CapacityInv, DepsInv,
                    [Next]_vars
             PROVE  [Contract!Next]_(Contract!vars)
  BY DEF Consistent
<1> USE DEF PhaseInv, Going
<1>0. \A t \in Task : \A d \in Deps[t] : d \in Task
  OBVIOUS
<1>1. ASSUME UNCHANGED <<status, run>> PROVE [Contract!Next]_(Contract!vars)
  BY <1>1 DEF Contract!vars
<1>2. CASE Scheduler /\ ~Drained
  <2>1. UNCHANGED <<status, run>>
    BY <1>2 DEF Scheduler, RegisterAgent, ReportAgent, PlanWorkflow, ReportWorkflow, SkipTask, StartTask,
         EndPass, GetEvent, GetFinished, FinalizeOrphan, projection
  <2> QED BY <1>1, <2>1
<1>3. CASE ConsumeRegistered \/ ConsumePlanned \/ ConsumeVerdict
  <2>1. UNCHANGED <<status, run>>
    BY <1>3 DEF ConsumeRegistered, ConsumePlanned, ConsumeVerdict, PublishAgent, projection
  <2> QED BY <1>1, <2>1
<1>5. CASE ConsumeSkipped
  <2> DEFINE t == draft.task
  <2>1. /\ t \in Task /\ t \in Skipping /\ phase = "yield"
        /\ status' = [status EXCEPT ![t] = "skipped"] /\ run' = run /\ run = "running"
    BY <1>5, DraftFields DEF ConsumeSkipped, PublishTask, TakeDraft, Skipping, Drafted, TaskDraft, StatusAfter
  <2>2. \A d \in Deps[t] : status[d] = outcome[d] /\ outcome[d] \in Terminal
    BY <1>0, <2>1 DEF DepsInv, DepsSettled, StatusInv, Projected, LifeInv, Life
  <2>3. status[t] = "queued" /\ t \notin AllowFailed /\ \E d \in Deps[t] : outcome[d] \in Bad
    BY <2>1 DEF DepsInv, DepsSettled, Blocked, FailedDeps, StatusInv, Projected
  <2>4. Contract!Skip(t)
    BY <2>1, <2>2, <2>3 DEF Contract!Skip, Contract!DepsSettled, Contract!BadDeps, Contract!Terminal,
         Contract!Success, Contract!Bad, Terminal, Success, Bad
  <2> QED BY <2>1, <2>4 DEF Contract!Next
<1>6. CASE ConsumeStarted
  <2> DEFINE t == draft.task
  <2>1. /\ t \in Task /\ t \in Starting /\ phase = "yield"
        /\ status' = [status EXCEPT ![t] = "running"] /\ run' = run /\ run = "running"
    BY <1>6, DraftFields DEF ConsumeStarted, PublishTask, TakeDraft, Starting, Drafted, TaskDraft, StatusAfter
  <2>2. \A d \in Deps[t] : status[d] = outcome[d] /\ outcome[d] \in Terminal
    BY <1>0, <2>1 DEF DepsInv, DepsSettled, StatusInv, Projected, LifeInv, Life
  <2>3. status[t] = "queued" /\ (t \in AllowFailed \/ \A d \in Deps[t] : outcome[d] \notin Bad)
    BY <2>1 DEF DepsInv, DepsSettled, FailedDeps, StatusInv, Projected
  <2>4. Contract!Active \subseteq running
    <3> SUFFICES ASSUME NEW u \in Task, status[u] = "running", u \notin running PROVE FALSE
      BY DEF Contract!Active
    <3> QED BY <2>1 DEF PartitionInv, StatusInv, Projected, LifeInv, Life, Terminal, Success, Bad
  <2>5. Cardinality(Contract!Active) < Slots
    <3>1. IsFiniteSet(running) /\ Cardinality(running) \in Nat
      BY FS_Subset, FS_CardinalityType DEF TypeOK
    <3>2. Cardinality(Contract!Active) <= Cardinality(running) /\ Cardinality(Contract!Active) \in Nat
      BY <2>4, <3>1, FS_Subset, FS_CardinalityType
    <3>3. Cardinality(running) < Slots
      BY <2>1 DEF CapacityInv
    <3> QED BY <3>1, <3>2, <3>3
  <2>6. \A u \in Contract!Active : AgentOf[u] # AgentOf[t]
    BY <2>1, <2>4 DEF CapacityInv, PartitionInv
  <2>7. Contract!DepsSettled(t)
    BY <2>2 DEF Contract!DepsSettled, Contract!Terminal, Contract!Success, Contract!Bad,
                Terminal, Success, Bad
  <2>8. t \in AllowFailed \/ Contract!BadDeps(t) = {}
    BY <2>2, <2>3 DEF Contract!BadDeps, Contract!Bad, Bad
  <2>9. Contract!Start(t)
    <3>1. Cardinality(Contract!Active) < Slots /\ \A u \in Contract!Active : AgentOf[u] # AgentOf[t]
      BY <2>5, <2>6
    <3>2. status[t] = "queued" /\ status' = [status EXCEPT ![t] = "running"] /\ run' = run
      BY <2>1, <2>3
    <3> QED BY ONLY <2>7, <2>8, <3>1, <3>2 DEF Contract!Start, Contract!Cardinality, Cardinality
  <2> QED BY <2>1, <2>9 DEF Contract!Next
<1>7. CASE ConsumeWorkerEvent
  <2> DEFINE t == draft.task
  <2>1. /\ draft.kind \in WorkerEvent /\ t \in Task /\ t \in running /\ ItemInv(draft)
        /\ status' = [status EXCEPT ![t] = StatusAfter(draft.kind)] /\ run' = run /\ run = "running"
        /\ status[t] = "running"
    BY <1>7 DEF ConsumeWorkerEvent, PublishTask, TakeDraft, Accepts, HeldInv, ItemInv, TypeOK
  <2>2. CASE draft.kind = "PROGRESS"
    BY <1>1, <2>1, <2>2 DEF StatusAfter, TypeOK
  <2>3. CASE draft.kind = "TASK_FAILED"
    <3>1. Contract!Fail(t)
      BY <2>1, <2>3 DEF StatusAfter, Contract!Fail
    <3> QED BY <2>1, <3>1 DEF Contract!Next
  <2>4. CASE draft.kind \in {"TASK_COMPLETED", "TASK_PARTIAL"}
    <3>1. StatusAfter(draft.kind) = outcome[t] /\ outcome[t] \in {"complete", "partial"}
      BY <2>1, <2>4 DEF ItemInv, StatusAfter, Verdict
    <3>2. \A d \in Deps[t] : status[d] = outcome[d]
      BY <1>0, <1>7, <2>1 DEF DepsInv, DepsSettled, StatusInv, Projected, ConsumeWorkerEvent, PublishTask, TakeDraft
    <3>3. outcome[t] = "complete" <=> Contract!CleanDeps(t)
      BY <2>1, <3>1, <3>2 DEF DepsInv, DepsSettled, Contract!CleanDeps
    <3>4. Contract!Complete(t)
      BY <2>1, <3>1, <3>3 DEF Contract!Complete
    <3> QED BY <2>1, <3>4 DEF Contract!Next
  <2> QED BY <2>1, <2>2, <2>3, <2>4 DEF WorkerEvent
<1>8. CASE ConsumeSummary
  <2>1. /\ phase = "yield" /\ draft.kind = "WORKFLOW_COMPLETED" /\ run = "running" /\ status' = status
        /\ run' = IF \E t \in Required : outcome[t] \in Bad THEN "failed" ELSE "complete"
    BY <1>8 DEF ConsumeSummary, TakeDraft, Accepts
  <2>2. \A t \in Task : status[t] = outcome[t] /\ outcome[t] \in Terminal
    BY <2>1 DEF PartitionInv, Starting, Skipping, Drafted, StatusInv, Projected, Summing, LifeInv, Life
  <2>3. Contract!Finish
    BY <2>1, <2>2 DEF Contract!Finish, Contract!Terminal, Contract!Success, Contract!Bad,
         Terminal, Success, Bad
  <2> QED BY <2>1, <2>3 DEF Contract!Next
<1>9. ASSUME NEW t \in Task, Worker(t) PROVE [Contract!Next]_(Contract!vars)
  BY <1>1, <1>9, WorkerPuts
<1>10. CASE CancelPaused \/ Drained
  <2>1. CASE run = "running" /\ run' \in {"failed", "cancelled"}
    <3>1. Contract!Abort
      BY <1>10, <2>1 DEF CancelPaused, Drained, Contract!Abort
    <3> QED BY <2>1, <3>1 DEF Contract!Next
  <2>2. CASE run' = run
    BY <1>1, <1>10, <2>2 DEF CancelPaused, Drained
  <2> QED BY <1>10, <2>1, <2>2 DEF CancelPaused, Drained, PublishCancelled
<1>11. CASE CancelWaiting \/ CancelDraining \/ Pause \/ Resume \/ Terminated \/ UNCHANGED vars
  <2>1. UNCHANGED <<status, run>>
    BY <1>11 DEF CancelWaiting, CancelDraining, Pause, Resume, Terminated, vars, projection
  <2> QED BY <1>1, <2>1
<1> QED BY <1>2, <1>3, <1>5, <1>6, <1>7, <1>8, <1>9, <1>10, <1>11 DEF Next, Consumer, Cancel

\* What the journal of a run shows is a behaviour of the contract: tasks start
\* over settled dependencies within the slots, results that rest on anything less
\* than complete dependencies are partial, and the run completes only over a
\* settled workflow.
THEOREM ContractImplemented == Spec => ImplementsContract
<1>1. Init => Contract!Init
  BY DEF Init, Contract!Init
<1>2. Spec => Contract!Spec
  BY <1>1, ContractStep, AlwaysConsistent, PTL DEF Spec, Contract!Spec
<1> QED BY <1>2 DEF ImplementsContract
================================================================================
