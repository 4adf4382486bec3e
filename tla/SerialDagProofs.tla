---------------------------- MODULE SerialDagProofs ----------------------------
(***************************************************************************)
(* SerialDag, for every workflow: the invariant Consistent is inductive,   *)
(* every draft is accepted, and the loop implements DagContract with one   *)
(* slot.  A task is judged when the loop comes to it; by then its          *)
(* dependencies, which rank below it, are settled and never change again.  *)
(*                                                                         *)
(* Workflow, for every definition: what passes the validation is what      *)
(* SerialDag and DagScheduler assume of their workflow, and what is        *)
(* refused as cyclic has no order.  The argument is an invariant of the    *)
(* pops of Kahn's algorithm: a task is ready when nothing it waits for is  *)
(* left out of the order, so whatever is left out at the end waits for     *)
(* something left out.  The order is the earliest there is, since any      *)
(* other one takes a task that was ready where the two part.  The cycle    *)
(* search has an invariant of its own (SearchInv): the stack is a path of  *)
(* dependencies, and the tasks it has left rank behind theirs; it makes a  *)
(* move it has not made until it is over, so it ends with a cycle or with  *)
(* a ranking of all tasks.                                                 *)
(***************************************************************************)
EXTENDS SerialDag, WorkflowSearch, FiniteSetTheorems, SequenceTheorems, WellFoundedInduction, TLAPS

USE DEF Bad, Success, Terminal, TaskStatus, TaskDraft

\* The ancestry collected for a task holds tasks only.
LEMMA AncestryTyped ==
  ASSUME TypeOK, NEW t \in Task
  PROVE  DegradedAncestry(t) \in SUBSET Task
  BY SerialAssumption DEF DegradedAncestry, TypeOK

\* When the loop comes to a task all its dependencies are settled.
LEMMA ComesSettled ==
  ASSUME Consistent, current = {}, NEW t \in Task, Comes(t)
  PROVE  \A d \in Deps[t] : d \in Task /\ d \notin left /\ d # t /\ outcome[d] \in Terminal
<1> SUFFICES ASSUME NEW d \in Deps[t]
             PROVE  d \in Task /\ d \notin left /\ d # t /\ outcome[d] \in Terminal
  OBVIOUS
<1>1. d \in Task /\ Rank[d] < Rank[t] /\ Rank[d] \in Nat /\ Rank[t] \in Nat
  BY SerialAssumption
<1>2. d \notin left /\ d # t
  BY <1>1 DEF Comes
<1>3. outcome[d] \in TaskStatus /\ outcome[d] # "queued" /\ outcome[d] # "running"
  BY <1>1, <1>2 DEF Consistent, TypeOK, LoopOrder
<1> QED
  BY <1>1, <1>2, <1>3

\* The ancestry of a task is empty exactly when all its dependencies are complete.
LEMMA AncestryMeans ==
  ASSUME Consistent, NEW t \in Task,
         \A d \in Deps[t] : d \in Task /\ d \notin left /\ outcome[d] \in Terminal
  PROVE  DegradedAncestry(t) = {} <=> \A d \in Deps[t] : outcome[d] = "complete"
<1>1. ASSUME \A d \in Deps[t] : outcome[d] = "complete"
      PROVE  DegradedAncestry(t) = {}
  <2>1. \A d \in Deps[t] : ancestry[d] = {}
    BY <1>1 DEF Consistent, Judged
  <2> QED
    BY <1>1, <2>1 DEF DegradedAncestry
<1>2. ASSUME DegradedAncestry(t) = {}, NEW d \in Deps[t]
      PROVE  outcome[d] = "complete"
  <2>1. outcome[d] \notin Bad \cup {"partial"}
    BY <1>2 DEF DegradedAncestry
  <2> QED
    BY <2>1
<1> QED
  BY <1>1, <1>2

\* Judged survives a change of one outcome of a task that nothing judged rests on.
LEMMA JudgedKept ==
  ASSUME Consistent, NEW u \in Task, u \in left \cup current,
         left' \in SUBSET left, left \ left' \in SUBSET {u},
         \A d \in Task : d # u => outcome'[d] = outcome[d] /\ ancestry'[d] = ancestry[d]
  PROVE  \A t \in Task \ left' : t # u =>
           /\ \A d \in Deps[t] : outcome'[d] \in Terminal
           /\ Blocked(t)' <=> outcome'[t] = "skipped"
           /\ outcome'[t] = "complete" => ancestry'[t] = {}
           /\ outcome'[t] = "partial"  => ancestry'[t] # {}
           /\ outcome'[t] # "skipped"  =>
                (ancestry'[t] = {} <=> \A d \in Deps[t] : outcome'[d] = "complete")
<1> SUFFICES ASSUME NEW t \in Task \ left', t # u
             PROVE  /\ \A d \in Deps[t] : outcome'[d] \in Terminal
                    /\ Blocked(t)' <=> outcome'[t] = "skipped"
                    /\ outcome'[t] = "complete" => ancestry'[t] = {}
                    /\ outcome'[t] = "partial"  => ancestry'[t] # {}
                    /\ outcome'[t] # "skipped"  =>
                         (ancestry'[t] = {} <=> \A d \in Deps[t] : outcome'[d] = "complete")
  OBVIOUS
<1>1. t \in Task \ left
  OBVIOUS
<1>2. \A d \in Deps[t] : d \in Task /\ outcome[d] \in Terminal
  BY <1>1, SerialAssumption DEF Consistent, Judged
<1>3. outcome[u] \in {"queued", "running"}
  BY DEF Consistent, LoopOrder
<1>4. \A d \in Deps[t] : d # u /\ outcome'[d] = outcome[d]
  BY <1>2, <1>3
<1>5. outcome'[t] = outcome[t] /\ ancestry'[t] = ancestry[t]
  OBVIOUS
<1>6. Blocked(t)' <=> Blocked(t)
  BY <1>4 DEF Blocked
<1> QED
  BY <1>1, <1>2, <1>4, <1>5, <1>6 DEF Consistent, Judged

\* Taking the first task out of left keeps the order of the loop.
LEMMA OrderKept ==
  ASSUME Consistent, NEW t \in Task, Comes(t)
  PROVE  \A s \in left \ {t} : \A u \in Task \ (left \ {t}) : Rank[u] < Rank[s]
<1> SUFFICES ASSUME NEW s \in left \ {t}, NEW u \in Task \ (left \ {t})
             PROVE  Rank[u] < Rank[s]
  OBVIOUS
<1>1. s \in Task /\ Rank[s] \in Nat /\ Rank[t] \in Nat
  BY SerialAssumption DEF Consistent, TypeOK
<1>2. CASE u = t
  BY <1>1, <1>2, SerialAssumption DEF Comes
<1>3. CASE u # t
  BY <1>3 DEF Consistent, LoopOrder
<1> QED
  BY <1>2, <1>3

LEMMA InitConsistent == Init => Consistent
<1> SUFFICES ASSUME Init PROVE Consistent
  OBVIOUS
<1>1. TypeOK
  BY DEF Init, TypeOK, Drafts, NoDraft
<1>2. LoopOrder /\ Judged
  BY DEF Init, LoopOrder, Judged
<1>3. OneBehind /\ VerdictsKept
  BY DEF Init, OneBehind, VerdictsKept, VerdictsAgree, NoDraft
<1> QED
  BY <1>1, <1>2, <1>3 DEF Consistent

\* The loop skips or starts the task it comes to.
LEMMA SkipConsistent ==
  ASSUME Consistent, NEW t \in Task, Skip(t)
  PROVE  Consistent'
<1> USE DEF Skip, Resumed, Yield, projection
<1>1. TypeOK'
  BY DEF Consistent, TypeOK, Drafts
<1>2. LoopOrder'
  <2>1. left' = left \ {t} /\ t \in left /\ current' = {} /\ owed' = Agent
    BY DEF Consistent, LoopOrder, Comes
  <2>2. /\ outcome'[t] = "skipped"
        /\ \A u \in Task : u # t => outcome'[u] = outcome[u]
    BY DEF Consistent, TypeOK
  <2> QED
    BY <2>1, <2>2, OrderKept DEF Consistent, TypeOK, LoopOrder
<1>3. \A d \in Deps[t] : d \in Task /\ d # t /\ outcome[d] \in Terminal
  BY ComesSettled
<1>4. outcome'[t] = "skipped" /\ \A d \in Task : d # t => outcome'[d] = outcome[d]
  BY DEF Consistent, TypeOK
<1>5. Blocked(t)'
  BY <1>3, <1>4 DEF Blocked
<1>6. Judged'
  <2>1. t \in left /\ ancestry' = ancestry
    BY DEF Comes
  <2> QED
    BY JudgedKept, <1>3, <1>4, <1>5, <2>1 DEF Judged
<1>7. OneBehind'
  <2>1. t \in left /\ status[t] = "queued" /\ owed = Agent
    BY DEF Consistent, LoopOrder, OneBehind, NoDraft, Comes
  <2>2. \A u \in Task : u # t => status[u] = outcome[u]
    BY DEF Consistent, OneBehind, NoDraft
  <2> QED
    BY <1>4, <2>1, <2>2 DEF OneBehind, StatusAfter
<1>8. VerdictsKept'
  BY DEF Consistent, VerdictsKept, VerdictsAgree
<1> QED
  BY <1>1, <1>2, <1>6, <1>7, <1>8 DEF Consistent

LEMMA StartConsistent ==
  ASSUME Consistent, NEW t \in Task, Start(t)
  PROVE  Consistent'
<1> USE DEF Start, Resumed, Yield, projection
<1>1. TypeOK'
  BY AncestryTyped DEF Consistent, TypeOK, Drafts
<1>2. LoopOrder'
  <2>1. left' = left \ {t} /\ t \in left /\ current' = {t} /\ owed' = Agent
    BY DEF Consistent, LoopOrder, Comes
  <2>2. /\ outcome'[t] = "running"
        /\ \A u \in Task : u # t => outcome'[u] = outcome[u]
    BY DEF Consistent, TypeOK
  <2> QED
    BY <2>1, <2>2, OrderKept DEF Consistent, TypeOK, LoopOrder
<1>3. \A d \in Deps[t] : d \in Task /\ d \notin left /\ d # t /\ outcome[d] \in Terminal
  BY ComesSettled
<1>4. /\ outcome'[t] = "running" /\ ancestry'[t] = DegradedAncestry(t)
      /\ \A d \in Task : d # t => outcome'[d] = outcome[d] /\ ancestry'[d] = ancestry[d]
  BY DEF Consistent, TypeOK
<1>5. ~Blocked(t)'
  BY <1>3, <1>4 DEF Blocked
<1>6. DegradedAncestry(t) = {} <=> \A d \in Deps[t] : outcome'[d] = "complete"
  BY <1>3, <1>4, AncestryMeans
<1>7. Judged'
  <2>1. t \in left
    BY DEF Comes
  <2>2. \A d \in Deps[t] : outcome'[d] \in Terminal
    BY <1>3, <1>4
  <2> QED
    BY JudgedKept, <1>4, <1>5, <1>6, <2>1, <2>2 DEF Judged
<1>8. OneBehind'
  <2>1. t \in left /\ status[t] = "queued" /\ owed = Agent
    BY DEF Consistent, LoopOrder, OneBehind, NoDraft, Comes
  <2>2. \A u \in Task : u # t => status[u] = outcome[u]
    BY DEF Consistent, OneBehind, NoDraft
  <2> QED
    BY <1>4, <2>1, <2>2 DEF OneBehind, StatusAfter
<1>9. VerdictsKept'
  BY DEF Consistent, VerdictsKept, VerdictsAgree
<1> QED
  BY <1>1, <1>2, <1>7, <1>8, <1>9 DEF Consistent

LEMMA ProgressConsistent ==
  ASSUME Consistent, NEW t \in Task, Progress(t)
  PROVE  Consistent'
<1> USE DEF Progress, Resumed, Yield, loop, projection
<1>1. TypeOK'
  BY DEF Consistent, TypeOK, Drafts
<1>2. LoopOrder' /\ Judged'
  BY DEF Consistent, LoopOrder, Judged, Blocked
<1>3. OneBehind'
  BY DEF Consistent, LoopOrder, OneBehind, StatusAfter, NoDraft
<1>4. VerdictsKept'
  BY DEF Consistent, VerdictsKept, VerdictsAgree
<1> QED
  BY <1>1, <1>2, <1>3, <1>4 DEF Consistent

\* What a task ends with says whether its ancestry is empty.
LEMMA SettleConsistent ==
  ASSUME Consistent, NEW t \in Task, NEW result \in {"complete", "partial", "failed"},
         NEW kind \in {"TASK_COMPLETED", "TASK_PARTIAL", "TASK_FAILED"},
         Settle(t, result, kind), result = StatusAfter(kind),
         result = "complete" => ancestry[t] = {},
         result = "partial"  => ancestry[t] # {}
  PROVE  Consistent'
<1> USE DEF Settle, Resumed, Yield, projection
<1>1. TypeOK'
  BY DEF Consistent, TypeOK, Drafts
<1>2. current = {t} /\ t \notin left /\ outcome[t] = "running" /\ status[t] = "running"
  BY DEF Consistent, TypeOK, LoopOrder, OneBehind, NoDraft
<1>3. outcome'[t] = result /\ \A d \in Task : d # t => outcome'[d] = outcome[d]
  BY DEF Consistent, TypeOK
<1>4. LoopOrder'
  BY <1>2, <1>3 DEF Consistent, TypeOK, LoopOrder
<1>5. Judged'
  <2>1. \A d \in Deps[t] : d \in Task /\ d # t /\ outcome'[d] = outcome[d] /\ outcome[d] \in Terminal
    BY <1>2, <1>3, SerialAssumption DEF Consistent, Judged
  <2>2. ~Blocked(t) /\ (ancestry[t] = {} <=> \A d \in Deps[t] : outcome[d] = "complete")
    BY <1>2 DEF Consistent, Judged
  <2>3. ~Blocked(t)'
    BY <2>1, <2>2 DEF Blocked
  <2> QED
    BY JudgedKept, <1>2, <1>3, <2>1, <2>2, <2>3 DEF Judged
<1>6. OneBehind'
  <2>1. owed = Agent
    BY <1>2 DEF Consistent, LoopOrder
  <2>2. \A u \in Task : u # t => status[u] = outcome[u]
    BY DEF Consistent, OneBehind, NoDraft
  <2> QED
    BY <1>2, <1>3, <2>1, <2>2 DEF OneBehind
<1>7. VerdictsKept'
  BY DEF Consistent, VerdictsKept, VerdictsAgree
<1> QED
  BY <1>1, <1>4, <1>5, <1>6, <1>7 DEF Consistent

LEMMA EndConsistent ==
  ASSUME Consistent, NEW t \in Task, Complete(t) \/ Fail(t)
  PROVE  Consistent'
<1>1. CASE Complete(t) /\ ancestry[t] = {}
  BY <1>1, SettleConsistent DEF Complete, StatusAfter
<1>2. CASE Complete(t) /\ ancestry[t] # {}
  BY <1>2, SettleConsistent DEF Complete, StatusAfter
<1>3. CASE Fail(t)
  BY <1>3, SettleConsistent DEF Fail, StatusAfter
<1> QED
  BY <1>1, <1>2, <1>3

LEMMA SummaryConsistent ==
  ASSUME Consistent, (\E a \in Agent : Report(a)) \/ Summarise
  PROVE  Consistent'
<1>1. CASE Summarise
  <2> USE DEF Summarise, Resumed, loop, projection
  <2>1. TypeOK'
    BY <1>1 DEF Consistent, TypeOK, Drafts
  <2>2. LoopOrder' /\ Judged'
    BY <1>1 DEF Consistent, LoopOrder, Judged, Blocked
  <2>3. OneBehind'
    BY <1>1 DEF Consistent, OneBehind, NoDraft
  <2>4. VerdictsKept'
    BY <1>1 DEF Consistent, VerdictsKept, VerdictsAgree
  <2> QED
    BY <2>1, <2>2, <2>3, <2>4 DEF Consistent
<1>2. ASSUME NEW a \in Agent, Report(a) PROVE Consistent'
  <2> DEFINE lost == \E t \in Task : AgentOf[t] = a /\ outcome[t] \in Bad
             said == IF lost THEN "AGENT_FAILED" ELSE "AGENT_COMPLETED"
  <2> USE <1>2 DEF Resumed, projection
  <2>1. draft' = [kind |-> said, agent |-> a] /\ said \in {"AGENT_COMPLETED", "AGENT_FAILED"}
    BY DEF Report
  <2>2. said = "AGENT_FAILED" <=> lost
    OBVIOUS
  <2> HIDE DEF said
  <2>3. TypeOK'
    BY <2>1 DEF Consistent, TypeOK, Drafts, Report
  <2>4. LoopOrder' /\ Judged'
    BY DEF Consistent, LoopOrder, Judged, Blocked, Report
  <2>5. OneBehind'
    BY <2>1 DEF Consistent, OneBehind, NoDraft, Report
  <2>6. VerdictsKept'
    BY <2>1, <2>2 DEF Consistent, VerdictsKept, VerdictsAgree, Report
  <2> QED
    BY <2>3, <2>4, <2>5, <2>6 DEF Consistent
<1> QED
  BY <1>1, <1>2

\* The consumer catches up by the one draft.
LEMMA PublishConsistent ==
  ASSUME Consistent, PublishTask \/ PublishVerdict \/ PublishSummary \/ Abort
  PROVE  Consistent'
<1> USE DEF loop
<1>1. CASE PublishTask
  <2> DEFINE t == draft.task
  <2>1. /\ t \in Task /\ outcome[t] = StatusAfter(draft.kind) /\ owed = Agent
        /\ status'[t] = outcome[t]
        /\ \A u \in Task : u # t => status'[u] = status[u] /\ status[u] = outcome[u]
    BY <1>1 DEF PublishTask, Consistent, TypeOK, OneBehind, Drafts, NoDraft
  <2>2. TypeOK'
    BY <1>1, <2>1 DEF PublishTask, Consistent, TypeOK, Drafts
  <2>3. LoopOrder' /\ Judged'
    BY <1>1 DEF PublishTask, Consistent, LoopOrder, Judged, Blocked
  <2>4. OneBehind'
    BY <1>1, <2>1 DEF PublishTask, OneBehind, NoDraft
  <2>5. VerdictsKept'
    <3>1. \A a \in Agent : verdict'[a] = "open"
      BY <1>1, <2>1 DEF PublishTask, Consistent, VerdictsKept
    <3> QED
      BY <1>1, <3>1 DEF PublishTask, VerdictsKept, VerdictsAgree, NoDraft, Consistent
  <2> QED
    BY <2>2, <2>3, <2>4, <2>5 DEF Consistent
<1>2. CASE PublishVerdict
  <2>1. draft.agent \in Agent /\ draft.agent \notin owed
    BY <1>2 DEF PublishVerdict, Consistent, TypeOK, Drafts, NoDraft, VerdictsKept
  <2>2. TypeOK'
    BY <1>2, <2>1 DEF PublishVerdict, Consistent, TypeOK, Drafts
  <2>3. LoopOrder' /\ Judged'
    BY <1>2 DEF PublishVerdict, Consistent, LoopOrder, Judged, Blocked
  <2>4. \A u \in Task : status[u] = outcome[u]
    BY <1>2 DEF PublishVerdict, Consistent, OneBehind
  <2>5. OneBehind'
    BY <1>2, <2>4 DEF PublishVerdict, OneBehind, NoDraft
  <2>6. VerdictsKept'
    <3>1. /\ verdict'[draft.agent] = IF draft.kind = "AGENT_FAILED" THEN "failed" ELSE "complete"
          /\ \A a \in Agent : a # draft.agent => verdict'[a] = verdict[a]
      BY <1>2, <2>1 DEF PublishVerdict, Consistent, TypeOK
    <3>2. verdict'[draft.agent] = "failed"
            <=> \E t \in Task : AgentOf[t] = draft.agent /\ status[t] \in Bad
      BY <1>2, <2>4, <3>1 DEF PublishVerdict, Consistent, VerdictsKept
    <3>3. VerdictsAgree'
      BY <1>2, <3>1, <3>2 DEF PublishVerdict, Consistent, VerdictsKept, VerdictsAgree
    <3> QED
      BY <1>2, <2>1, <3>1, <3>3 DEF PublishVerdict, Consistent, VerdictsKept, NoDraft
  <2> QED
    BY <2>2, <2>3, <2>5, <2>6 DEF Consistent
<1>3. CASE PublishSummary \/ Abort
  <2> USE <1>3 DEF PublishSummary, Abort
  <2>1. TypeOK'
    BY DEF Consistent, TypeOK, Drafts
  <2>2. LoopOrder' /\ Judged'
    BY DEF Consistent, LoopOrder, Judged, Blocked
  <2>3. OneBehind'
    BY DEF OneBehind, NoDraft
  <2>4. VerdictsKept'
    BY DEF Consistent, VerdictsKept, VerdictsAgree, NoDraft
  <2> QED
    BY <2>1, <2>2, <2>3, <2>4 DEF Consistent
<1> QED
  BY <1>1, <1>2, <1>3

LEMMA StepConsistent == Consistent /\ [Next]_vars => Consistent'
<1> SUFFICES ASSUME Consistent, [Next]_vars PROVE Consistent'
  OBVIOUS
<1>1. CASE \E t \in Task : Skip(t)
  BY <1>1, SkipConsistent
<1>2. CASE \E t \in Task : Start(t)
  BY <1>2, StartConsistent
<1>3. CASE \E t \in Task : Progress(t)
  BY <1>3, ProgressConsistent
<1>4. CASE \E t \in Task : Complete(t) \/ Fail(t)
  BY <1>4, EndConsistent
<1>5. CASE (\E a \in Agent : Report(a)) \/ Summarise
  BY <1>5, SummaryConsistent
<1>6. CASE PublishTask \/ PublishVerdict \/ PublishSummary \/ Abort
  BY <1>6, PublishConsistent
<1>7. CASE UNCHANGED vars
  BY <1>7 DEF vars, loop, projection, Consistent, TypeOK, LoopOrder, Judged, Blocked, OneBehind,
              VerdictsKept, VerdictsAgree
<1> QED
  BY <1>1, <1>2, <1>3, <1>4, <1>5, <1>6, <1>7 DEF Next, Loop

\* The loop, its outcomes and the projection agree between any two steps
\* (stream, and reduce_event behind it), for every workflow.
THEOREM SerialConsistent == Spec => []Consistent
<1>1. Init => Consistent
  BY InitConsistent
<1>2. Consistent /\ [Next]_vars => Consistent'
  BY StepConsistent
<1> QED
  BY <1>1, <1>2, PTL DEF Spec

\* The dependencies of the task that is being started are settled, and not bad
\* unless the task tolerates it.
LEMMA StartsSettled ==
  ASSUME Consistent, draft.kind = "TASK_STARTED"
  PROVE  /\ draft.task \in Task /\ run = "running" /\ draft.task \in current
         /\ status[draft.task] = "queued" /\ outcome[draft.task] = "running"
         /\ \A d \in Deps[draft.task] :
              /\ d \in Task /\ d # draft.task /\ status[d] = outcome[d]
              /\ status[d] \in IF draft.task \in AllowFailed THEN Terminal ELSE {"complete", "partial"}
<1>1. draft.task \in Task /\ run = "running"
  BY DEF Consistent, TypeOK, Drafts, NoDraft, OneBehind
<1>2. status[draft.task] = "queued" /\ outcome[draft.task] = "running"
  BY DEF Consistent, OneBehind, StatusAfter
<1>3. draft.task \in current /\ draft.task \notin left
  BY <1>1, <1>2 DEF Consistent, LoopOrder
<1>4. ASSUME NEW d \in Deps[draft.task]
      PROVE  /\ d \in Task /\ d # draft.task /\ status[d] = outcome[d]
             /\ status[d] \in IF draft.task \in AllowFailed THEN Terminal ELSE {"complete", "partial"}
  <2>1. d \in Task /\ outcome[d] \in Terminal
    BY <1>1, <1>3, SerialAssumption DEF Consistent, Judged
  <2>2. d # draft.task /\ status[d] = outcome[d]
    BY <1>1, <1>2, <2>1 DEF Consistent, OneBehind
  <2>3. draft.task \notin AllowFailed => outcome[d] \notin Bad
    BY <1>1, <1>2, <1>3 DEF Consistent, Judged, Blocked
  <2> QED
    BY <2>1, <2>2, <2>3
<1> QED
  BY <1>1, <1>2, <1>3, <1>4

\* The invariant makes the draft that is out acceptable.
LEMMA ConsistentAccepts == Consistent => DraftsAccepted
<1> SUFFICES ASSUME Consistent PROVE Accepts(draft)
  BY DEF DraftsAccepted
<1>1. CASE draft.kind = "TASK_STARTED"
  BY <1>1, StartsSettled DEF Accepts
<1>2. CASE draft.kind \in {"TASK_SKIPPED", "PROGRESS", "TASK_COMPLETED", "TASK_PARTIAL", "TASK_FAILED"}
  BY <1>2 DEF Accepts, Consistent, OneBehind
<1>3. CASE draft.kind = "WORKFLOW_COMPLETED"
  <2>1. \A t \in Task : status[t] = outcome[t] /\ outcome[t] \in TaskStatus
    BY <1>3 DEF Consistent, TypeOK, OneBehind, NoDraft
  <2>2. \A t \in Task : outcome[t] # "queued" /\ outcome[t] # "running"
    BY <1>3 DEF Consistent, OneBehind, LoopOrder
  <2> QED
    BY <1>3, <2>1, <2>2 DEF Accepts
<1>4. CASE draft.kind \notin TaskDraft \cup {"WORKFLOW_COMPLETED"}
  BY <1>4 DEF Accepts
<1> QED
  BY <1>1, <1>2, <1>3, <1>4

\* reduce_event accepts every draft the serial loop yields.
THEOREM SerialAccepted == Spec => []DraftsAccepted
  BY SerialConsistent, ConsistentAccepts, PTL

\* Every published agent verdict agrees with the projected tasks of the agent,
\* until the run ends and behind it.
THEOREM SerialVerdicts == Spec => []VerdictsAgree
<1>1. Consistent => VerdictsAgree
  BY DEF Consistent, VerdictsKept
<1> QED
  BY <1>1, SerialConsistent, PTL

\* The journal of the serial loop is legal and consistent, for every workflow.
THEOREM SerialJournalAgrees == Spec => []JournalAgrees
  BY SerialAccepted, SerialVerdicts, PTL DEF JournalAgrees

--------------------------------------------------------------------------------
(* The refinement.                                                            *)

LEMMA StepImplements ==
  Consistent /\ [Next]_vars => [Contract!Next]_<<status, run>>
<1> SUFFICES ASSUME Consistent, [Next]_vars PROVE [Contract!Next]_<<status, run>>
  OBVIOUS
<1>1. CASE Loop \/ UNCHANGED vars \/ PublishVerdict
  BY <1>1 DEF Loop, vars, loop, projection, PublishVerdict, Skip, Start, Progress, Complete, Fail,
              Settle, Report, Summarise
<1>2. CASE PublishTask
  <2> DEFINE t == draft.task
  <2> USE <1>2 DEF PublishTask
  <2>1. t \in Task /\ run = "running" /\ run' = run /\ outcome[t] = StatusAfter(draft.kind)
    BY DEF Consistent, TypeOK, Drafts, NoDraft, OneBehind
  <2>2. status' = [status EXCEPT ![t] = StatusAfter(draft.kind)]
    OBVIOUS
  <2>3. \A u \in Task : u # t => status[u] = outcome[u]
    BY <2>1 DEF Consistent, OneBehind
  <2>4. \A d \in Deps[t] : d \in Task /\ d # t /\ status[d] \in Terminal /\ status[d] = outcome[d]
    <3>1. t \notin left
      BY <2>1 DEF Consistent, LoopOrder, StatusAfter
    <3>2. \A d \in Deps[t] : d \in Task /\ Rank[d] < Rank[t] /\ outcome[d] \in Terminal
      BY <2>1, <3>1, SerialAssumption DEF Consistent, Judged
    <3>3. \A d \in Deps[t] : d # t
      BY <2>1, <3>2, SerialAssumption
    <3> QED
      BY <2>3, <3>2, <3>3
  <2>5. CASE draft.kind = "TASK_STARTED"
    <3>1. Contract!Active = {}
      <4>1. \A u \in Task : u # t => outcome[u] # "running"
        BY <2>1, <2>5, StartsSettled DEF Consistent, LoopOrder
      <4> QED
        BY <2>3, <2>5, <4>1, StartsSettled DEF Contract!Active
    <3>2. Contract!Cardinality(Contract!Active) = 0
      BY <3>1, FS_EmptySet DEF Contract!Cardinality, Cardinality
    <3>3. t \in AllowFailed \/ Contract!BadDeps(t) = {}
      BY <2>5, StartsSettled DEF Contract!BadDeps, Contract!Bad
    <3>4. Contract!Start(t)
      BY <2>1, <2>2, <2>4, <2>5, <3>1, <3>2, <3>3, StartsSettled
         DEF Contract!Start, Contract!DepsSettled, Contract!Terminal, Contract!Success, Contract!Bad,
             StatusAfter
    <3> QED
      BY <2>1, <3>4 DEF Contract!Next
  <2>6. CASE draft.kind = "TASK_SKIPPED"
    <3>1. status[t] = "queued" /\ outcome[t] = "skipped" /\ t \notin left
      BY <2>1, <2>6 DEF Consistent, OneBehind, LoopOrder, StatusAfter
    <3>2. t \notin AllowFailed /\ \E d \in Deps[t] : outcome[d] \in Bad
      BY <2>1, <3>1 DEF Consistent, Judged, Blocked
    <3>3. Contract!Skip(t)
      BY <2>1, <2>2, <2>4, <2>6, <3>1, <3>2
         DEF Contract!Skip, Contract!DepsSettled, Contract!BadDeps, Contract!Terminal,
             Contract!Success, Contract!Bad, StatusAfter
    <3> QED
      BY <2>1, <3>3 DEF Contract!Next
  <2>7. CASE draft.kind = "PROGRESS"
    <3>1. status[t] = "running"
      BY <2>7 DEF Consistent, OneBehind
    <3>2. status' = status
      BY <2>2, <2>7, <3>1 DEF StatusAfter, Consistent, TypeOK
    <3> QED
      BY <2>1, <3>2
  <2>8. CASE draft.kind \in {"TASK_COMPLETED", "TASK_PARTIAL"}
    <3>1. status[t] = "running" /\ t \notin left
      BY <2>1, <2>8 DEF Consistent, OneBehind, LoopOrder, StatusAfter
    <3>2. outcome[t] = "complete" <=> Contract!CleanDeps(t)
      BY <2>1, <2>4, <2>8, <3>1 DEF Consistent, Judged, Contract!CleanDeps, StatusAfter
    <3>3. StatusAfter(draft.kind) = IF Contract!CleanDeps(t) THEN "complete" ELSE "partial"
      BY <2>1, <2>8, <3>2 DEF StatusAfter
    <3>4. Contract!Complete(t)
      BY <2>1, <2>2, <3>1, <3>3 DEF Contract!Complete
    <3> QED
      BY <2>1, <3>4 DEF Contract!Next
  <2>9. CASE draft.kind = "TASK_FAILED"
    <3>1. Contract!Fail(t)
      BY <2>1, <2>2, <2>9 DEF Consistent, OneBehind, Contract!Fail, StatusAfter
    <3> QED
      BY <2>1, <3>1 DEF Contract!Next
  <2> QED
    BY <2>5, <2>6, <2>7, <2>8, <2>9
<1>3. CASE PublishSummary
  <2> USE <1>3 DEF PublishSummary
  <2>1. \A t \in Task : status[t] \in Terminal
    BY DEF Accepts
  <2>2. \A t \in Task : status[t] = outcome[t]
    BY DEF Consistent, OneBehind
  <2>3. Contract!Finish
    BY <2>1, <2>2, SerialAssumption
       DEF Contract!Finish, Contract!Terminal, Contract!Success, Contract!Bad
  <2> QED
    BY <2>3 DEF Contract!Next
<1>4. CASE Abort
  BY <1>4 DEF Abort, Contract!Next, Contract!Abort
<1> QED
  BY <1>1, <1>2, <1>3, <1>4 DEF Next

\* The serial loop implements DagContract with one slot.
THEOREM SerialImplements == Spec => ImplementsContract
<1>1. Init => Contract!Init
  BY DEF Init, Contract!Init
<1>2. Consistent /\ [Next]_vars => [Contract!Next]_<<status, run>>
  BY StepImplements
<1> QED
  BY <1>1, <1>2, SerialConsistent, PTL DEF Spec, ImplementsContract, Contract!Spec, Contract!vars

--------------------------------------------------------------------------------
(* Every validated workflow.                                                    *)

\* A nonempty set of naturals has a least member.
LEMMA LeastNat ==
  ASSUME NEW S, S \in SUBSET Nat, S # {}
  PROVE  \E m \in S : \A k \in S : m <= k
<1>1. PICK m \in S : \A y \in Nat : <<y, m>> \in OpToRel(<, Nat) => ~(y \in S)
  BY WFMin, NatLessThanWellFounded, Zenon
<1>2. \A k \in S : ~(k < m)
  BY <1>1 DEF OpToRel
<1> QED
  BY <1>2

\* Induction up to a bound, over a set.
LEMMA UpTo ==
  ASSUME NEW n \in Nat, NEW S, 0 \in S, \A m \in 1..n : m - 1 \in S => m \in S
  PROVE  \A m \in 0..n : m \in S
<1> DEFINE Out == {m \in 0..n : m \notin S}
<1>1. ASSUME Out # {} PROVE FALSE
  <2>1. PICK m \in Out : \A k \in Out : m <= k
    <3>1. Out \in SUBSET Nat
      OBVIOUS
    <3> HIDE DEF Out
    <3> QED
      BY <1>1, <3>1, LeastNat
  <2>2. m \in 1..n /\ m - 1 \in S
    BY <2>1
  <2> QED
    BY <2>1, <2>2
<1> QED
  BY <1>1

--------------------------------------------------------------------------------
(* The ordering of a workflow, pop by pop.                                      *)

\* g is what Kahn's algorithm holds before the first of the n pops and after each.
Pops(g, n, ts) == g = [i \in 0..n |-> IF i = 0 THEN Begun(ts) ELSE Pop(ts, g[i - 1])]

LEMMA PoppingExists ==
  ASSUME NEW ts, NEW N \in Nat
  PROVE  \E g : Pops(g, N, ts)
<1> DEFINE Stuck == {n \in 0..N : ~ \E g : Pops(g, n, ts)}
<1>1. ASSUME Stuck # {} PROVE FALSE
  <2>1. PICK m \in Stuck : \A k \in Stuck : m <= k
    <3>1. Stuck \in SUBSET Nat
      OBVIOUS
    <3> HIDE DEF Stuck
    <3> QED
      BY <1>1, <3>1, LeastNat
  <2>2. CASE m = 0
    <3>1. Pops([i \in 0..0 |-> Begun(ts)], 0, ts)
      BY DEF Pops
    <3> QED
      BY <2>1, <2>2, <3>1
  <2>3. CASE m > 0
    <3>1. PICK g : Pops(g, m - 1, ts)
      BY <2>1, <2>3
    <3> DEFINE h == [i \in 0..m |-> IF i < m THEN g[i] ELSE Pop(ts, g[m - 1])]
    <3>2. ASSUME NEW i \in 0..m
          PROVE  h[i] = IF i = 0 THEN Begun(ts) ELSE Pop(ts, h[i - 1])
      BY <2>1, <2>3, <3>1 DEF Pops
    <3>3. Pops(h, m, ts)
      BY <3>2 DEF Pops
    <3> QED
      BY <2>1, <3>3
  <2> QED
    BY <2>1, <2>2, <2>3
<1> QED
  BY <1>1

LEMMA PoppingAt ==
  ASSUME NEW X, NEW ts \in Seq(X)
  PROVE  /\ Popping(ts)[0] = Begun(ts)
         /\ \A n \in 1..Len(ts) : Popping(ts)[n] = Pop(ts, Popping(ts)[n - 1])
<1>0. Len(ts) \in Nat
  OBVIOUS
<1>1. \E g : Pops(g, Len(ts), ts)
  BY <1>0, PoppingExists
<1>2. Pops(Popping(ts), Len(ts), ts)
  BY <1>1 DEF Pops, Popping
<1> DEFINE P == Popping(ts)
<1>3. P = [i \in 0..Len(ts) |-> IF i = 0 THEN Begun(ts) ELSE Pop(ts, P[i - 1])]
  BY <1>2, Zenon DEF Pops
<1> HIDE DEF P
<1>4. P[0] = Begun(ts) /\ \A n \in 1..Len(ts) : P[n] = Pop(ts, P[n - 1])
  BY <1>0, <1>3
<1> QED
  BY <1>4 DEF P

\* A line without repetitions is as long as it has members.
LEMMA LineSize ==
  ASSUME NEW X, NEW s \in Seq(X), IsInjective(s)
  PROVE  IsFiniteSet(ToSet(s)) /\ Cardinality(ToSet(s)) = Len(s) /\ ToSet(s) \subseteq X
<1>1. s \in Bijection(1..Len(s), ToSet(s))
  BY DEF IsInjective, ToSet, Bijection, Injection, Surjection
<1>2. ExistsBijection(1..Len(s), ToSet(s))
  BY <1>1 DEF ExistsBijection
<1>3. Len(s) \in Nat /\ 1 \in Int /\ Len(s) \in Int
  OBVIOUS
<1>4. IsFiniteSet(1..Len(s)) /\ Cardinality(1..Len(s)) = Len(s)
  BY <1>3, FS_Interval
<1> QED
  BY <1>2, <1>4, FS_Bijection DEF ToSet

\* The fields a definition reads.
TaskOf(Name, Tool) ==
  [id : Name, deps : Seq(Name), tools : Seq(Tool),
   turns : Int, toolCalls : Int, perTurn : Int, repair : Int]

\* What WorkflowError has made sure of before it orders the tasks.
SoundIds(ts) ==
  /\ \A i, j \in DOMAIN ts : ts[i].id = ts[j].id => i = j
  /\ \A i \in DOMAIN ts : IsInjective(ts[i].deps) /\ ToSet(ts[i].deps) \subseteq Ids(ts) \ {ts[i].id}

\* The dependencies of the q-th task that are not ordered yet.
Waits(ts, s, q) == ToSet(ts[q].deps) \ ToSet(s.ordered)

\* What holds of the ready positions, the counts and the order between two pops.
KahnInv(ts, s) ==
  /\ s \in [ready : SUBSET (DOMAIN ts), missing : [DOMAIN ts -> Nat], ordered : Seq(Ids(ts))]
  /\ IsInjective(s.ordered)
  /\ \A q \in DOMAIN ts : s.missing[q] = Cardinality(Waits(ts, s, q))
  /\ s.ready = {q \in DOMAIN ts : Waits(ts, s, q) = {} /\ ts[q].id \notin ToSet(s.ordered)}
  /\ \A q \in DOMAIN ts, i \in DOMAIN s.ordered :
       s.ordered[i] = ts[q].id => ToSet(ts[q].deps) \subseteq {s.ordered[j] : j \in 1..(i - 1)}

LEMMA WaitsFinite ==
  ASSUME NEW Name, NEW Tool, NEW ts \in Seq(TaskOf(Name, Tool)), SoundIds(ts), NEW s, NEW q \in DOMAIN ts
  PROVE  /\ ts[q].deps \in Seq(Name)
         /\ IsFiniteSet(ToSet(ts[q].deps)) /\ Cardinality(ToSet(ts[q].deps)) = Len(ts[q].deps)
         /\ IsFiniteSet(Waits(ts, s, q)) /\ Cardinality(Waits(ts, s, q)) \in Nat
         /\ Cardinality(Waits(ts, s, q)) = 0 <=> Waits(ts, s, q) = {}
<1>1. ts[q] \in TaskOf(Name, Tool)
  OBVIOUS
<1>2. ts[q].deps \in Seq(Name)
  BY <1>1 DEF TaskOf
<1>3. IsFiniteSet(ToSet(ts[q].deps)) /\ Cardinality(ToSet(ts[q].deps)) = Len(ts[q].deps)
  BY <1>2, LineSize DEF SoundIds
<1>4. IsFiniteSet(Waits(ts, s, q))
  <2>1. Waits(ts, s, q) \in SUBSET ToSet(ts[q].deps)
    BY DEF Waits
  <2> QED
    BY <1>3, <2>1, FS_Subset
<1> QED
  BY <1>2, <1>3, <1>4, FS_CardinalityType, FS_EmptySet

LEMMA KahnBegins ==
  ASSUME NEW Name, NEW Tool, NEW ts \in Seq(TaskOf(Name, Tool)), SoundIds(ts)
  PROVE  KahnInv(ts, Begun(ts))
<1> DEFINE s == Begun(ts)
<1>1. s.ordered = <<>> /\ ToSet(s.ordered) = {} /\ IsInjective(s.ordered) /\ DOMAIN s.ordered = {}
  BY DEF Begun, ToSet, IsInjective
<1>2. \A q \in DOMAIN ts : Waits(ts, s, q) = ToSet(ts[q].deps)
  BY <1>1 DEF Waits
<1>3. \A q \in DOMAIN ts :
        /\ s.missing[q] = Cardinality(Waits(ts, s, q)) /\ s.missing[q] \in Nat
        /\ s.missing[q] = 0 <=> Waits(ts, s, q) = {}
  <2> TAKE q \in DOMAIN ts
  <2>1. s.missing[q] = Len(ts[q].deps)
    BY DEF Begun
  <2> QED
    BY <1>2, <2>1, WaitsFinite
<1>4. /\ s.ready = {q \in DOMAIN ts : s.missing[q] = 0}
      /\ s.missing = [q \in DOMAIN ts |-> s.missing[q]]
      /\ s = [ready |-> s.ready, missing |-> s.missing, ordered |-> s.ordered]
  BY DEF Begun
<1> HIDE DEF s
<1>41. s.missing \in [DOMAIN ts -> Nat] /\ s.ready \in SUBSET (DOMAIN ts) /\ s.ordered \in Seq(Ids(ts))
  BY <1>1, <1>3, <1>4
<1>5. s \in [ready : SUBSET (DOMAIN ts), missing : [DOMAIN ts -> Nat], ordered : Seq(Ids(ts))]
  BY <1>4, <1>41
<1>6. KahnInv(ts, s)
  BY <1>1, <1>3, <1>4, <1>5 DEF KahnInv
<1> QED
  BY <1>6 DEF s

LEMMA KahnPops ==
  ASSUME NEW Name, NEW Tool, NEW ts \in Seq(TaskOf(Name, Tool)), SoundIds(ts),
         NEW s, KahnInv(ts, s), s.ready # {}
  PROVE  KahnInv(ts, Pop(ts, s)) /\ Len(Pop(ts, s).ordered) = Len(s.ordered) + 1
<1> DEFINE p == Min(s.ready)
           x == ts[p].id
           o == Append(s.ordered, x)
           dependents == {q \in DOMAIN ts : x \in ToSet(ts[q].deps)}
           fewer == [q \in DOMAIN ts |-> IF q \in dependents THEN s.missing[q] - 1 ELSE s.missing[q]]
           n == Pop(ts, s)
<1>1. p \in s.ready
  <2>1. s.ready \in SUBSET Nat
    BY DEF KahnInv
  <2> QED
    BY <2>1, LeastNat DEF Min
<1>2. /\ p \in DOMAIN ts /\ Waits(ts, s, p) = {} /\ x \notin ToSet(s.ordered) /\ x \in Ids(ts)
      /\ s.ordered \in Seq(Ids(ts))
  BY <1>1 DEF KahnInv, Ids
<1>3. /\ n.ready = (s.ready \ {p}) \cup {q \in dependents : fewer[q] = 0}
      /\ n.missing = fewer /\ n.ordered = o
      /\ n = [ready |-> n.ready, missing |-> n.missing, ordered |-> n.ordered]
  BY DEF Pop
<1> HIDE DEF p, n
<1>4. /\ o \in Seq(Ids(ts)) /\ Len(o) = Len(s.ordered) + 1 /\ Len(s.ordered) \in Nat
      /\ \A i \in 1..Len(s.ordered) : o[i] = s.ordered[i]
      /\ o[Len(s.ordered) + 1] = x /\ DOMAIN s.ordered = 1..Len(s.ordered)
      /\ DOMAIN o = 1..(Len(s.ordered) + 1)
  BY <1>2
<1> HIDE DEF o
<1>5. \A i \in 1..Len(s.ordered) : s.ordered[i] # x
  BY <1>2, <1>4 DEF ToSet
<1>6. IsInjective(o)
  BY <1>4, <1>5 DEF IsInjective, KahnInv
<1>7. ToSet(o) = ToSet(s.ordered) \cup {x}
  <2>1. ToSet(o) = {o[i] : i \in 1..(Len(s.ordered) + 1)} /\ ToSet(s.ordered) = {s.ordered[i] : i \in 1..Len(s.ordered)}
    BY <1>4 DEF ToSet
  <2>2. \A i \in 1..(Len(s.ordered) + 1) : i \in 1..Len(s.ordered) \/ i = Len(s.ordered) + 1
    BY <1>4
  <2>3. \A i \in 1..Len(s.ordered) : i \in 1..(Len(s.ordered) + 1)
    BY <1>4
  <2>4. Len(s.ordered) + 1 \in 1..(Len(s.ordered) + 1)
    BY <1>4
  <2> HIDE DEF x
  <2> QED
    BY <1>4, <2>1, <2>2, <2>3, <2>4, Zenon
<1>8. \A q \in DOMAIN ts : Waits(ts, n, q) = Waits(ts, s, q) \ {x}
  BY <1>3, <1>7 DEF Waits
<1>9. \A q \in DOMAIN ts : q \in dependents <=> x \in Waits(ts, s, q)
  BY <1>2 DEF Waits
<1>10. \A q \in DOMAIN ts :
         /\ fewer[q] = Cardinality(Waits(ts, n, q)) /\ fewer[q] \in Nat
         /\ fewer[q] = 0 <=> Waits(ts, n, q) = {}
  <2> TAKE q \in DOMAIN ts
  <2>1. IsFiniteSet(Waits(ts, s, q)) /\ Cardinality(Waits(ts, s, q)) = s.missing[q]
        /\ Cardinality(Waits(ts, s, q)) \in Nat
    BY WaitsFinite DEF KahnInv
  <2>2. Cardinality(Waits(ts, s, q) \ {x}) =
          IF x \in Waits(ts, s, q) THEN Cardinality(Waits(ts, s, q)) - 1 ELSE Cardinality(Waits(ts, s, q))
    BY <2>1, FS_RemoveElement
  <2>3. fewer[q] = Cardinality(Waits(ts, n, q))
    BY <1>8, <1>9, <2>1, <2>2
  <2>4. Cardinality(Waits(ts, n, q)) \in Nat /\ (Cardinality(Waits(ts, n, q)) = 0 <=> Waits(ts, n, q) = {})
    BY WaitsFinite
  <2> HIDE DEF fewer
  <2> QED
    BY <2>3, <2>4
<1>11. ASSUME NEW q \in DOMAIN ts
       PROVE  q \in n.ready <=> Waits(ts, n, q) = {} /\ ts[q].id \notin ToSet(o)
  <2>1. q \in s.ready <=> Waits(ts, s, q) = {} /\ ts[q].id \notin ToSet(s.ordered)
    BY DEF KahnInv
  <2>2. q = p <=> ts[q].id = x
    BY <1>2 DEF SoundIds
  <2>3. q \in n.ready <=> (q \in s.ready /\ q # p) \/ (q \in dependents /\ Waits(ts, n, q) = {})
    BY <1>3, <1>10
  <2>4. q \in dependents => ts[q].id \notin ToSet(o)
    <3>1. q \in dependents => ts[q].id # x
      BY <1>2, <2>2 DEF SoundIds
    <3>2. ASSUME q \in dependents, NEW i \in DOMAIN s.ordered, s.ordered[i] = ts[q].id PROVE FALSE
      <4>1. ToSet(ts[q].deps) \subseteq {s.ordered[j] : j \in 1..(i - 1)}
        BY <3>2 DEF KahnInv
      <4>2. \A j \in 1..(i - 1) : j \in 1..Len(s.ordered)
        BY <1>4, <3>2
      <4> QED
        BY <1>5, <3>2, <4>1, <4>2
    <3> QED
      BY <1>7, <3>1, <3>2 DEF ToSet
  <2> QED
    BY <1>7, <1>8, <1>9, <2>1, <2>2, <2>3, <2>4
<1>12. n.ready \subseteq DOMAIN ts
  BY <1>3 DEF KahnInv
<1>13. ASSUME NEW q \in DOMAIN ts, NEW i \in DOMAIN o, o[i] = ts[q].id
       PROVE  ToSet(ts[q].deps) \subseteq {o[j] : j \in 1..(i - 1)}
  <2>1. CASE i \in 1..Len(s.ordered)
    <3>1. ToSet(ts[q].deps) \subseteq {s.ordered[j] : j \in 1..(i - 1)}
      BY <1>4, <1>13, <2>1 DEF KahnInv
    <3>2. \A j \in 1..(i - 1) : o[j] = s.ordered[j]
      BY <1>4, <2>1
    <3> QED
      BY <3>1, <3>2
  <2>2. CASE i = Len(s.ordered) + 1
    <3>1. q = p
      BY <1>2, <1>4, <1>13, <2>2 DEF SoundIds
    <3>2. ToSet(ts[q].deps) \subseteq ToSet(s.ordered)
      BY <1>2, <3>1 DEF Waits
    <3>3. ToSet(s.ordered) = {s.ordered[j] : j \in 1..(i - 1)}
      <4>1. DOMAIN s.ordered = 1..(i - 1)
        BY <1>4, <2>2
      <4> QED
        BY <4>1 DEF ToSet
    <3>4. \A j \in 1..(i - 1) : o[j] = s.ordered[j]
      BY <1>4, <2>2
    <3> QED
      BY <3>2, <3>3, <3>4
  <2> QED
    BY <1>4, <2>1, <2>2
<1>14. n \in [ready : SUBSET (DOMAIN ts), missing : [DOMAIN ts -> Nat], ordered : Seq(Ids(ts))]
  <2>1. n.missing \in [DOMAIN ts -> Nat]
    BY <1>3, <1>10
  <2> QED
    BY <1>3, <1>4, <1>12, <2>1
<1>15. KahnInv(ts, n)
  <2>1. n.ready = {q \in DOMAIN ts : Waits(ts, n, q) = {} /\ ts[q].id \notin ToSet(n.ordered)}
    BY <1>3, <1>11, <1>12
  <2>2. \A q \in DOMAIN ts : n.missing[q] = Cardinality(Waits(ts, n, q))
    BY <1>3, <1>10
  <2>3. IsInjective(n.ordered)
    BY <1>3, <1>6
  <2>4. \A q \in DOMAIN ts, i \in DOMAIN n.ordered :
          n.ordered[i] = ts[q].id => ToSet(ts[q].deps) \subseteq {n.ordered[j] : j \in 1..(i - 1)}
    BY <1>3, <1>13
  <2> HIDE DEF fewer, dependents, x
  <2> QED
    BY <1>6, <1>14, <2>1, <2>2, <2>3, <2>4 DEF KahnInv
<1> QED
  BY <1>3, <1>4, <1>15 DEF n

\* The order after all pops, and why it may be short.
LEMMA KahnEnds ==
  ASSUME NEW Name, NEW Tool, NEW ts \in Seq(TaskOf(Name, Tool)), SoundIds(ts)
  PROVE  LET s == Popping(ts)[Len(ts)]
         IN  KahnInv(ts, s) /\ (s.ready = {} \/ Len(s.ordered) = Len(ts))
<1> DEFINE P == Popping(ts)
           Holds(k) == KahnInv(ts, P[k]) /\ (P[k].ready = {} \/ Len(P[k].ordered) = k)
           Broken == {k \in 0..Len(ts) : ~Holds(k)}
<1>0. Len(ts) \in Nat
  OBVIOUS
<1>1. P[0] = Begun(ts) /\ \A k \in 1..Len(ts) : P[k] = Pop(ts, P[k - 1])
  BY PoppingAt
<1> HIDE DEF P
<1>2. Holds(0)
  <2>1. KahnInv(ts, P[0])
    BY <1>1, KahnBegins
  <2>2. Len(P[0].ordered) = 0
    BY <1>1 DEF Begun
  <2> QED
    BY <2>1, <2>2
<1>3. ASSUME NEW k \in 1..Len(ts), Holds(k - 1) PROVE Holds(k)
  <2>1. CASE P[k - 1].ready = {}
    <3>1. P[k] = P[k - 1]
      BY <1>1, <2>1 DEF Pop
    <3> QED
      BY <1>3, <2>1, <3>1
  <2>2. CASE P[k - 1].ready # {}
    <3>1. KahnInv(ts, P[k]) /\ Len(P[k].ordered) = Len(P[k - 1].ordered) + 1
      BY <1>1, <1>3, <2>2, KahnPops
    <3>2. Len(P[k - 1].ordered) = k - 1
      BY <1>3, <2>2
    <3> QED
      BY <3>1, <3>2
  <2> QED
    BY <2>1, <2>2
<1>4. ASSUME Broken # {} PROVE FALSE
  <2>1. PICK m \in Broken : \A k \in Broken : m <= k
    <3>1. Broken \in SUBSET Nat
      OBVIOUS
    <3> HIDE DEF Broken
    <3> QED
      BY <1>4, <3>1, LeastNat
  <2>2. m \in 1..Len(ts) /\ m - 1 \notin Broken /\ m - 1 \in 0..Len(ts)
    BY <1>0, <1>2, <2>1
  <2> QED
    BY <1>3, <2>1, <2>2
<1>5. Holds(Len(ts))
  BY <1>0, <1>4
<1> QED
  BY <1>5 DEF P

\* What a sequence of as many IDs as there are tasks holds.
LEMMA AllOrdered ==
  ASSUME NEW Name, NEW Tool, NEW ts \in Seq(TaskOf(Name, Tool)), SoundIds(ts),
         NEW order \in Seq(Ids(ts)), IsInjective(order)
  PROVE  /\ IsFiniteSet(Ids(ts))
         /\ Len(order) = Len(ts) <=> ToSet(order) = Ids(ts)
<1> DEFINE ids == [i \in 1..Len(ts) |-> ts[i].id]
<1>1. \A i \in 1..Len(ts) : ts[i] \in TaskOf(Name, Tool)
  OBVIOUS
<1>2. \A i \in 1..Len(ts) : ts[i].id \in Name
  BY <1>1 DEF TaskOf
<1>3. ids \in Seq(Name) /\ Len(ids) = Len(ts) /\ DOMAIN ids = 1..Len(ts) /\ Len(ts) \in Nat /\ Len(order) \in Nat
  BY <1>2
<1>4. IsInjective(ids)
  BY DEF IsInjective, SoundIds
<1>5. ToSet(ids) = Ids(ts)
  BY DEF ToSet, Ids
<1> HIDE DEF ids
<1>6. IsFiniteSet(Ids(ts)) /\ Cardinality(Ids(ts)) = Len(ts)
  BY <1>3, <1>4, <1>5, LineSize
<1>7. ToSet(order) \in SUBSET Ids(ts) /\ Cardinality(ToSet(order)) = Len(order)
  BY LineSize
<1> QED
  BY <1>6, <1>7, FS_Subset

\* A workflow whose IDs are sound is ordered completely, or cannot be ordered:
\* a task left out waits for another one left out, and none of them ranks least.
LEMMA KahnDecides ==
  ASSUME NEW Name, NEW Tool, NEW ts \in Seq(TaskOf(Name, Tool)), SoundIds(ts)
  PROVE  LET order == StableTopologicalIds(ts)
         IN  /\ Len(order) = Len(ts) => Schedulable(ts)
             /\ Len(order) # Len(ts) => \A rank \in [Ids(ts) -> Nat] : ~Ranks(ts, rank)
<1> DEFINE s == Popping(ts)[Len(ts)]
           order == s.ordered
<1>1. KahnInv(ts, s) /\ (s.ready = {} \/ Len(order) = Len(ts))
  BY KahnEnds
<1>2. StableTopologicalIds(ts) = order
  BY DEF StableTopologicalIds
<1> HIDE DEF s
<1>3. /\ order \in Seq(Ids(ts)) /\ IsInjective(order)
      /\ DOMAIN order = 1..Len(order) /\ Len(order) \in Nat
  BY <1>1 DEF KahnInv
<1>4. IsFiniteSet(Ids(ts)) /\ (Len(order) = Len(ts) <=> ToSet(order) = Ids(ts))
  BY <1>3, AllOrdered
<1>5. \A q \in DOMAIN ts : ts[q].id \in Ids(ts) /\ ToSet(ts[q].deps) \subseteq Ids(ts)
  BY DEF SoundIds, Ids
<1>6. \A q \in DOMAIN ts : DependsOn(ts)[ts[q].id] = ToSet(ts[q].deps)
  <2> TAKE q \in DOMAIN ts
  <2>1. {k \in DOMAIN ts : ts[k].id = ts[q].id} = {q}
    BY DEF SoundIds
  <2>2. DependsOn(ts)[ts[q].id] = UNION {ToSet(ts[i].deps) : i \in {k \in DOMAIN ts : ts[k].id = ts[q].id}}
    BY <1>5 DEF DependsOn
  <2> QED
    BY <2>1, <2>2
<1>7. \A id \in Ids(ts) : \E q \in DOMAIN ts : ts[q].id = id
  BY DEF Ids
<1>8. ASSUME Len(order) = Len(ts) PROVE Schedulable(ts)
  <2> DEFINE place == Place(ts)
  <2>1. \A id \in Ids(ts) : place[id] \in DOMAIN order /\ order[place[id]] = id
    <3> TAKE id \in Ids(ts)
    <3>1. \E i \in DOMAIN order : order[i] = id
      BY <1>4, <1>8 DEF ToSet
    <3>2. place[id] = CHOOSE i \in DOMAIN order : order[i] = id
      BY <1>2 DEF Place
    <3> QED
      BY <3>1, <3>2
  <2>2. place = [id \in Ids(ts) |-> place[id]]
    BY DEF Place
  <2>3. DependsOn(ts) \in [Ids(ts) -> SUBSET Ids(ts)]
    <3>1. \A id \in Ids(ts) : DependsOn(ts)[id] \in SUBSET Ids(ts)
      BY <1>5, <1>6, <1>7
    <3> QED
      BY <3>1 DEF DependsOn
  <2> HIDE DEF place, order
  <2>4. place \in [Ids(ts) -> Nat \ {0}]
    <3>1. \A id \in Ids(ts) : place[id] \in Nat \ {0}
      BY <1>3, <2>1
    <3> QED
      BY <2>2, <3>1
  <2>5. ASSUME NEW id \in Ids(ts), NEW d \in DependsOn(ts)[id] PROVE place[d] < place[id]
    <3>1. PICK q \in DOMAIN ts : ts[q].id = id
      BY <1>7
    <3>2. d \in ToSet(ts[q].deps)
      BY <1>6, <2>5, <3>1
    <3>3. ToSet(ts[q].deps) \subseteq {order[j] : j \in 1..(place[id] - 1)}
      BY <1>1, <2>1, <3>1 DEF KahnInv, order
    <3>4. PICK j \in 1..(place[id] - 1) : order[j] = d
      BY <3>2, <3>3
    <3>5. d \in Ids(ts) /\ j \in DOMAIN order
      BY <1>3, <1>5, <2>1, <3>2, <3>4
    <3>6. place[d] = j
      BY <1>3, <2>1, <3>4, <3>5 DEF IsInjective
    <3> QED
      BY <1>3, <2>1, <3>4, <3>6
  <2>6. \A a, b \in Ids(ts) : place[a] = place[b] => a = b
    BY <2>1
  <2> QED
    BY <1>4, <2>3, <2>4, <2>5, <2>6 DEF Schedulable, Ranks, place
<1>9. ASSUME Len(order) # Len(ts), NEW rank \in [Ids(ts) -> Nat], Ranks(ts, rank) PROVE FALSE
  <2> DEFINE Late == {n \in Nat : \E q \in DOMAIN ts : ts[q].id \notin ToSet(order) /\ rank[ts[q].id] = n}
  <2>1. \E q \in DOMAIN ts : ts[q].id \notin ToSet(order)
    <3>1. ToSet(order) \subseteq Ids(ts)
      BY <1>3 DEF ToSet
    <3> QED
      BY <1>4, <1>7, <1>9, <3>1
  <2>2. \E n \in Late : \A k \in Late : n <= k
    <3>1. Late # {} /\ Late \in SUBSET Nat
      BY <1>5, <2>1
    <3> HIDE DEF Late
    <3> QED
      BY <3>1, LeastNat
  <2>3. PICK q \in DOMAIN ts : /\ ts[q].id \notin ToSet(order)
                               /\ \A k \in Late : rank[ts[q].id] <= k
    BY <2>2
  <2>4. Waits(ts, s, q) # {}
    BY <1>1, <1>9, <2>3 DEF KahnInv
  <2>5. PICK d : d \in ToSet(ts[q].deps) /\ d \notin ToSet(order)
    BY <2>4 DEF Waits
  <2>6. d \in Ids(ts) /\ rank[d] < rank[ts[q].id] /\ rank[d] \in Nat /\ rank[ts[q].id] \in Nat
    BY <1>5, <1>6, <2>5, <1>9 DEF Ranks
  <2>7. rank[d] \in Late
    BY <1>7, <2>5, <2>6
  <2> HIDE DEF Late
  <2> QED
    BY <2>3, <2>6, <2>7
<1> QED
  BY <1>2, <1>8, <1>9

\* What the checks before the ordering have made sure of, and where a refusal came from.
LEMMA Checked ==
  ASSUME NEW Name, NEW Tool, NEW ts \in Seq(TaskOf(Name, Tool)), NEW slots \in Int
  PROVE  /\ WorkflowError(ts, slots) = "none" =>
              SoundIds(ts) /\ slots \in 1..MaxActiveSlots /\ Len(StableTopologicalIds(ts)) = Len(ts)
         /\ WorkflowError(ts, slots) = "dependency_cycle" =>
              \/ \E i \in DOMAIN ts : ts[i].id \in ToSet(ts[i].deps)
              \/ SoundIds(ts) /\ Len(StableTopologicalIds(ts)) # Len(ts)
<1> DEFINE broken == {i \in DOMAIN ts : TaskError(ts[i]) # "none"}
<1>1. CASE broken # {}
  <2>1. Min(broken) \in broken
    <3>1. broken \in SUBSET Nat
      OBVIOUS
    <3> HIDE DEF broken
    <3> QED
      BY <1>1, <3>1, LeastNat DEF Min
  <2>2. WorkflowError(ts, slots) = TaskError(ts[Min(broken)])
    BY <1>1 DEF WorkflowError
  <2>3. PICK i \in DOMAIN ts : TaskError(ts[i]) # "none" /\ WorkflowError(ts, slots) = TaskError(ts[i])
    BY <2>1, <2>2
  <2> QED
    BY <2>3 DEF TaskError
<1>2. CASE broken = {}
  <2> DEFINE named == [i \in DOMAIN ts |-> ts[i].id]
             known == \A i \in DOMAIN ts : ToSet(ts[i].deps) \subseteq Ids(ts)
             whole == Len(StableTopologicalIds(ts)) = Len(ts)
  <2>1. \A i \in DOMAIN ts : ts[i].id \notin ToSet(ts[i].deps) /\ IsInjective(ts[i].deps)
    BY <1>2 DEF TaskError, Repeats
  <2>2. WorkflowError(ts, slots) =
          IF Len(ts) \notin 1..MaxTasks \/ slots \notin 1..MaxActiveSlots THEN "invalid_field"
          ELSE IF ~IsInjective(named) THEN "duplicate_task"
          ELSE IF ~known THEN "unknown_dependency"
          ELSE IF ~whole THEN "dependency_cycle"
          ELSE "none"
    BY <1>2 DEF WorkflowError, Repeats
  <2>3. IsInjective(named) /\ known => SoundIds(ts)
    BY <2>1 DEF SoundIds, IsInjective
  <2> HIDE DEF named, known
  <2> QED
    BY <2>2, <2>3
<1> QED
  BY <1>1, <1>2

\* A workflow that passes its validation is one the scheduler and the serial loop
\* can run: its tasks are finitely many, the positions of topological_tasks are
\* theirs alone, and every dependency is a task that stands earlier.  These are
\* the assumptions of DagScheduler and SerialDag about their workflow.
THEOREM ValidatedIsSchedulable ==
  ASSUME NEW Name, NEW Tool, NEW ts \in Seq(TaskOf(Name, Tool)), NEW slots \in Int,
         WorkflowError(ts, slots) = "none"
  PROVE  Schedulable(ts) /\ slots \in 1..MaxActiveSlots
BY Checked, KahnDecides

\* A workflow is refused as cyclic only if nothing could order it: no ranking of
\* its tasks, by topological_ids or otherwise, puts every task behind its dependencies.
THEOREM RefusedIsCyclic ==
  ASSUME NEW Name, NEW Tool, NEW ts \in Seq(TaskOf(Name, Tool)), NEW slots \in Int,
         WorkflowError(ts, slots) = "dependency_cycle", NEW rank \in [Ids(ts) -> Nat]
  PROVE  ~Ranks(ts, rank)
<1>1. CASE SoundIds(ts) /\ Len(StableTopologicalIds(ts)) # Len(ts)
  BY <1>1, KahnDecides
<1>2. ASSUME NEW i \in DOMAIN ts, ts[i].id \in ToSet(ts[i].deps)
      PROVE  ~Ranks(ts, rank)
  <2>1. ts[i].id \in Ids(ts)
    BY DEF Ids
  <2>2. ts[i].id \in DependsOn(ts)[ts[i].id]
    BY <1>2, <2>1 DEF DependsOn
  <2>3. rank[ts[i].id] \in Nat
    BY <2>1
  <2> QED
    BY <2>1, <2>2, <2>3 DEF Ranks
<1> QED
  BY <1>1, <1>2, Checked

--------------------------------------------------------------------------------
(* The order of an accepted workflow, among all its topological orders.        *)

\* A pop orders the first of the ready tasks.
LEMMA PopAppends ==
  ASSUME NEW ts, NEW s, s.ready # {}
  PROVE  Pop(ts, s).ordered = Append(s.ordered, ts[Min(s.ready)].id)
BY DEF Pop

\* What is ordered stands behind what it depends on.
LEMMA KahnBehind ==
  ASSUME NEW ts, NEW s, KahnInv(ts, s), NEW q \in DOMAIN ts, NEW i \in DOMAIN s.ordered,
         s.ordered[i] = ts[q].id
  PROVE  ToSet(ts[q].deps) \subseteq {s.ordered[j] : j \in 1..(i - 1)}
BY DEF KahnInv

\* The order of a workflow is the earliest of its topological orders.
LEMMA Ordered ==
  ASSUME NEW Name, NEW Tool, NEW ts \in Seq(TaskOf(Name, Tool)), SoundIds(ts),
         Len(StableTopologicalIds(ts)) = Len(ts)
  PROVE  \E o \in TopologicalOrders(ts) :
           /\ StableTopologicalIds(ts) = [i \in DOMAIN o |-> ts[o[i]].id]
           /\ \A q \in TopologicalOrders(ts) : q = o \/ Earlier(o, q)
<1> DEFINE P == Popping(ts)
           N == Len(ts)
           Line(k) ==
             \/ /\ \A j \in 1..k : P[j - 1].ready # {} /\ P[k].ordered[j] = ts[Min(P[j - 1].ready)].id
                /\ Len(P[k].ordered) = k
             \/ P[k].ready = {} /\ Len(P[k].ordered) < k
           S == {k \in 0..N : KahnInv(ts, P[k]) /\ Line(k)}
<1>0. N \in Nat /\ DOMAIN ts = 1..N
  OBVIOUS
<1>1. P[0] = Begun(ts) /\ \A k \in 1..N : P[k] = Pop(ts, P[k - 1])
  BY PoppingAt
<1> HIDE DEF P
<1>2. 0 \in S
  <2>1. P[0].ordered = <<>>
    BY <1>1 DEF Begun
  <2> QED
    BY <1>0, <1>1, <2>1, KahnBegins
<1>3. ASSUME NEW k \in 1..N, k - 1 \in S PROVE k \in S
  <2>1. CASE P[k - 1].ready = {}
    <3>1. P[k] = P[k - 1]
      BY <1>1, <2>1 DEF Pop
    <3>2. Len(P[k - 1].ordered) < k
      BY <1>3
    <3> QED
      BY <1>3, <2>1, <3>1, <3>2
  <2>2. CASE P[k - 1].ready # {}
    <3>1. KahnInv(ts, P[k]) /\ P[k].ordered = Append(P[k - 1].ordered, ts[Min(P[k - 1].ready)].id)
      <4>1. KahnInv(ts, P[k])
        BY <1>1, <1>3, <2>2, KahnPops
      <4>2. P[k].ordered = Append(P[k - 1].ordered, ts[Min(P[k - 1].ready)].id)
        BY <1>1, <2>2, PopAppends
      <4> QED
        BY <4>1, <4>2
    <3>2. P[k - 1].ordered \in Seq(Ids(ts)) /\ Len(P[k - 1].ordered) = k - 1
      BY <1>3, <2>2 DEF KahnInv
    <3>3. \A j \in 1..(k - 1) : P[j - 1].ready # {} /\ P[k - 1].ordered[j] = ts[Min(P[j - 1].ready)].id
      BY <1>3, <2>2
    <3>4. Len(P[k].ordered) = k /\ P[k].ordered[k] = ts[Min(P[k - 1].ready)].id
          /\ \A j \in 1..(k - 1) : P[k].ordered[j] = P[k - 1].ordered[j]
      BY <3>1, <3>2
    <3>5. Line(k)
      <4>1. \A j \in 1..k : j = k \/ j \in 1..(k - 1)
        OBVIOUS
      <4> QED
        BY <2>2, <3>3, <3>4, <4>1
    <3>6. k \in 0..N
      BY <1>0
    <3> HIDE DEF Line
    <3> QED
      BY <3>1, <3>5, <3>6
  <2> QED
    BY <2>1, <2>2
<1>4. \A k \in 0..N : KahnInv(ts, P[k]) /\ Line(k)
  <2> HIDE DEF S
  <2>1. \A k \in 1..N : k - 1 \in S => k \in S
    BY <1>3
  <2>2. \A k \in 0..N : k \in S
    BY <1>0, <1>2, <2>1, UpTo, Zenon
  <2> QED
    BY <2>2 DEF S
<1> DEFINE o == [j \in 1..N |-> Min(P[j - 1].ready)]
           order == StableTopologicalIds(ts)
<1>5. order = P[N].ordered /\ Len(order) = N /\ order \in Seq(Ids(ts)) /\ IsInjective(order)
  BY <1>0, <1>4 DEF StableTopologicalIds, P, KahnInv
<1>6. \A j \in 1..N : P[j - 1].ready # {} /\ order[j] = ts[o[j]].id
  BY <1>0, <1>4, <1>5
<1>7. \A j \in 1..N : o[j] \in P[j - 1].ready /\ (\A i \in P[j - 1].ready : o[j] <= i) /\ o[j] \in 1..N
  <2> TAKE j \in 1..N
  <2>1. P[j - 1].ready \in SUBSET (1..N) /\ P[j - 1].ready # {}
    <3>1. j - 1 \in 0..N
      BY <1>0
    <3>2. KahnInv(ts, P[j - 1])
      BY <1>4, <3>1
    <3>3. P[j - 1].ready \in SUBSET (1..N)
      BY <1>0, <3>2 DEF KahnInv
    <3> QED
      BY <1>6, <3>3
  <2>2. \E m \in P[j - 1].ready : \A i \in P[j - 1].ready : m <= i
    <3>1. P[j - 1].ready \in SUBSET Nat
      BY <2>1
    <3> QED
      BY <2>1, <3>1, LeastNat
  <2> QED
    BY <2>1, <2>2 DEF Min
<1>8. \A j \in 0..N : P[j].ordered = [i \in 1..j |-> order[i]]
  <2> TAKE j \in 0..N
  <2>1. P[j].ordered \in Seq(Ids(ts)) /\ Line(j)
    BY <1>4 DEF KahnInv
  <2>2. Len(P[j].ordered) = j /\ \A i \in 1..j : P[j].ordered[i] = ts[Min(P[i - 1].ready)].id
    <3>1. j < N => P[j].ready # {}
      <4>1. j < N => j + 1 \in 1..N /\ (j + 1) - 1 = j
        BY <1>0
      <4> QED
        BY <1>6, <4>1
    <3>2. j = N => Len(P[j].ordered) = j
      BY <1>5
    <3>3. j < N \/ j = N
      BY <1>0
    <3>4. ~(P[j].ready = {} /\ Len(P[j].ordered) < j)
      BY <1>0, <3>1, <3>2, <3>3
    <3>5. /\ Len(P[j].ordered) = j
          /\ \A i \in 1..j : P[i - 1].ready # {} /\ P[j].ordered[i] = ts[Min(P[i - 1].ready)].id
      BY <2>1, <3>4
    <3> QED
      BY <3>5
  <2>3. \A i \in 1..j : i \in 1..N
    BY <1>0
  <2>4. \A i \in 1..j : P[j].ordered[i] = order[i]
    BY <1>6, <2>2, <2>3
  <2>5. P[j].ordered = [i \in 1..j |-> P[j].ordered[i]]
    BY <2>1, <2>2
  <2> QED
    BY <2>4, <2>5
<1> HIDE DEF o, order
<1>9. order = [i \in DOMAIN o |-> ts[o[i]].id] /\ DOMAIN o = 1..N /\ o \in [1..N -> 1..N]
  <2>1. DOMAIN o = 1..N /\ o = [i \in 1..N |-> o[i]]
    BY DEF o
  <2>2. order = [i \in 1..N |-> order[i]]
    BY <1>5
  <2> QED
    BY <1>6, <1>7, <2>1, <2>2
<1>10. Cardinality(DOMAIN ts) = N
  <2> HIDE DEF N
  <2>1. 1 \in Int /\ N \in Int /\ (1 > N => N = 0) /\ N - 1 + 1 = N
    BY <1>0
  <2>2. Cardinality(1..N) = N
    BY <2>1, FS_Interval
  <2> QED
    BY <1>0, <2>2
<1>11. o \in TopologicalOrders(ts)
  <2>1. \A i, j \in 1..N : i # j => o[i] # o[j]
    <3>1. DOMAIN order = 1..N
      BY <1>5
    <3>2. \A i, j \in 1..N : i # j => order[i] # order[j]
      BY <1>5, <3>1 DEF IsInjective
    <3> QED
      BY <1>6, <3>2
  <2>2. o \in SetToSeqs(DOMAIN ts)
    BY <1>0, <1>9, <1>10, <2>1 DEF SetToSeqs
  <2>3. ASSUME NEW i \in DOMAIN o PROVE ToSet(ts[o[i]].deps) \subseteq {ts[o[j]].id : j \in 1..(i - 1)}
    <3>1. i \in 1..N /\ i \in DOMAIN order /\ order[i] = ts[o[i]].id /\ o[i] \in DOMAIN ts
      BY <1>0, <1>5, <1>6, <1>7, <1>9
    <3>2. KahnInv(ts, P[N]) /\ i \in DOMAIN P[N].ordered /\ P[N].ordered[i] = ts[o[i]].id
      <4>1. N \in 0..N
        BY <1>0
      <4> QED
        BY <1>4, <1>5, <3>1, <4>1
    <3>3. ToSet(ts[o[i]].deps) \subseteq {P[N].ordered[j] : j \in 1..(i - 1)}
      BY <3>1, <3>2, KahnBehind
    <3>4. \A j \in 1..(i - 1) : P[N].ordered[j] = ts[o[j]].id
      <4>1. \A j \in 1..(i - 1) : j \in 1..N
        BY <1>0, <3>1
      <4> HIDE DEF N
      <4> QED
        BY <1>5, <1>6, <4>1, Zenon
    <3> HIDE DEF N
    <3> QED
      BY <3>3, <3>4
  <2> QED
    BY <2>2, <2>3 DEF TopologicalOrders
<1>12. ASSUME NEW q \in TopologicalOrders(ts), q # o PROVE Earlier(o, q)
  <2>1. /\ q \in [1..N -> 1..N] /\ \A i, j \in 1..N : i # j => q[i] # q[j]
        /\ \A i \in 1..N : ToSet(ts[q[i]].deps) \subseteq {ts[q[j]].id : j \in 1..(i - 1)}
    BY <1>0, <1>10 DEF TopologicalOrders, SetToSeqs
  <2> DEFINE Apart == {i \in 1..N : q[i] # o[i]}
  <2>2. \E m \in Apart : \A k \in Apart : m <= k
    <3>1. Apart # {} /\ Apart \in SUBSET Nat
      <4>1. Apart = {} => \A i \in 1..N : q[i] = o[i]
        OBVIOUS
      <4> QED
        BY <1>9, <1>12, <2>1, <4>1
    <3> HIDE DEF Apart
    <3> QED
      BY <3>1, LeastNat
  <2>3. PICK i \in 1..N : q[i] # o[i] /\ \A k \in 1..N : q[k] # o[k] => i <= k
    BY <2>2
  <2>4. \A j \in 1..(i - 1) : q[j] = o[j] /\ j \in 1..N /\ i # j
    <3> TAKE j \in 1..(i - 1)
    <3>1. j \in 1..N /\ ~(i <= j)
      BY <1>0
    <3> QED
      BY <2>3, <3>1
  <2>5. ToSet(P[i - 1].ordered) = {ts[q[j]].id : j \in 1..(i - 1)}
    <3>1. i - 1 \in 0..N
      BY <1>0
    <3>2. P[i - 1].ordered = [j \in 1..(i - 1) |-> order[j]]
      BY <1>8, <3>1
    <3>3. ToSet(P[i - 1].ordered) = {order[j] : j \in 1..(i - 1)}
      BY <3>2 DEF ToSet
    <3>4. \A j \in 1..(i - 1) : order[j] = ts[q[j]].id
      BY <1>6, <2>4
    <3> QED
      BY <3>3, <3>4
  <2>6. q[i] \in P[i - 1].ready
    <3>1. q[i] \in DOMAIN ts /\ KahnInv(ts, P[i - 1])
      BY <1>0, <1>4, <2>1
    <3>2. Waits(ts, P[i - 1], q[i]) = {}
      BY <2>1, <2>5 DEF Waits
    <3>3. ts[q[i]].id \notin ToSet(P[i - 1].ordered)
      <4>1. ASSUME NEW j \in 1..(i - 1), ts[q[i]].id = ts[q[j]].id PROVE FALSE
        <5>1. j \in 1..N /\ i # j /\ q[j] \in DOMAIN ts
          BY <1>0, <2>1, <2>4
        <5>2. q[i] = q[j]
          BY <3>1, <4>1, <5>1 DEF SoundIds
        <5> QED
          BY <2>1, <5>1, <5>2
      <4> QED
        BY <2>5, <4>1
    <3> QED
      BY <3>1, <3>2, <3>3 DEF KahnInv
  <2>7. o[i] < q[i]
    <3>1. o[i] <= q[i] /\ o[i] \in 1..N /\ q[i] \in 1..N
      BY <1>7, <2>1, <2>6
    <3> QED
      BY <1>0, <2>3, <3>1
  <2> QED
    BY <1>9, <2>4, <2>7 DEF Earlier
<1> QED
  BY <1>9, <1>11, <1>12 DEF order

--------------------------------------------------------------------------------
(* The cycle search, move by move.                                              *)

\* What a reported cycle is.
CycleSound(ts, cycle) ==
  /\ cycle \in Seq(Ids(ts)) /\ Len(cycle) > 2 /\ Head(cycle) = Last(cycle)
  /\ IsInjective(Front(cycle))
  /\ \A i \in 1..(Len(cycle) - 1) : cycle[i + 1] \in ToSet(DepsOf(ts, cycle[i]))

SearchState(ts) == [state : [Ids(ts) -> 0..2], next : [Ids(ts) -> Nat], stack : Seq(Ids(ts)), cycle : Seq(Ids(ts))]

\* A task that is left has been through its loop, one that is unseen has not begun it.
Looping(ts, s) == \A id \in Ids(ts) :
  /\ s.next[id] \in 1..(Len(DepsOf(ts, id)) + 1)
  /\ s.state[id] = 0 => s.next[id] = 1
  /\ s.state[id] = 2 => s.next[id] = Len(DepsOf(ts, id)) + 1

\* The stack holds the tasks that are on it, each of them by way of the one below.
Stacked(ts, s) ==
  /\ IsInjective(s.stack)
  /\ \A id \in Ids(ts) : s.state[id] = 1 <=> \E i \in 1..Len(s.stack) : s.stack[i] = id
  /\ \A i \in 1..(Len(s.stack) - 1) : s.stack[i + 1] \in ToSet(DepsOf(ts, s.stack[i]))

\* What a loop is past is left, or the call it waits for.
Above(s, id, d) == \E i \in 1..(Len(s.stack) - 1) : s.stack[i] = id /\ s.stack[i + 1] = d
Followed(ts, s) == \A id \in Ids(ts) : \A k \in 1..(s.next[id] - 1) :
  s.state[DepsOf(ts, id)[k]] = 2 \/ Above(s, id, DepsOf(ts, id)[k])

\* r ranks the tasks that are left, in the order they were, below b.
LeftBehind(ts, s, r, b) == \A id \in Ids(ts) : s.state[id] = 2 =>
  r[id] < b /\ \A k \in 1..Len(DepsOf(ts, id)) : r[DepsOf(ts, id)[k]] < r[id]
Finished(ts, s) == \E r \in [Ids(ts) -> Nat], b \in Nat : LeftBehind(ts, s, r, b)

SearchInv(ts, s) ==
  /\ s \in SearchState(ts)
  /\ s.cycle = <<>> => Looping(ts, s) /\ Stacked(ts, s) /\ Followed(ts, s) /\ Finished(ts, s)
  /\ s.cycle # <<>> => CycleSound(ts, s.cycle)

\* The moves a search has made, and what a further one does to them.
Made(ts, s) == {w \in Moves(ts) : s.state[w[1]] # 0 /\ (w[2] < s.next[w[1]] \/ s.state[w[1]] = 2)}
Advances(ts, s, t) == Made(ts, s) \subseteq Made(ts, t) /\ \E w \in Made(ts, t) : w \notin Made(ts, s)

\* The graph of a workflow with sound IDs.
Graph(ts) == \A id \in Ids(ts) :
  /\ DepsOf(ts, id) \in Seq(Ids(ts))
  /\ id \notin ToSet(DepsOf(ts, id))

\* Sound IDs name tasks that can be looked up, and finitely many moves.
LEMMA GraphFacts ==
  ASSUME NEW Name, NEW Tool, NEW ts \in Seq(TaskOf(Name, Tool)), SoundIds(ts)
  PROVE  /\ \A q \in DOMAIN ts : DepsOf(ts, ts[q].id) = ts[q].deps
         /\ Graph(ts)
         /\ \A id : \A j : <<id, j>> \in Moves(ts) <=> id \in Ids(ts) /\ j \in 0..(Len(DepsOf(ts, id)) + 1)
         /\ \A w \in Moves(ts) : w = <<w[1], w[2]>>
         /\ IsFiniteSet(Moves(ts))
<1>1. ASSUME NEW q \in DOMAIN ts PROVE DepsOf(ts, ts[q].id) = ts[q].deps
  <2>1. ts[q] \in ToSet(ts) /\ \A t \in ToSet(ts) : t.id = ts[q].id => t = ts[q]
    BY DEF ToSet, SoundIds
  <2>2. (CHOOSE t \in ToSet(ts) : t.id = ts[q].id) = ts[q]
    BY <2>1
  <2> QED
    BY <2>2 DEF DepsOf
<1>2. ASSUME NEW q \in DOMAIN ts PROVE ts[q].deps \in Seq(Ids(ts)) /\ ts[q].id \notin ToSet(ts[q].deps)
  <2>1. ts[q].deps \in Seq(Name)
    BY WaitsFinite
  <2>2. \A i \in 1..Len(ts[q].deps) : ts[q].deps[i] \in Ids(ts)
    BY <2>1 DEF SoundIds, ToSet
  <2>3. ts[q].deps \in Seq(Ids(ts))
    BY <2>1, <2>2
  <2> QED
    BY <2>3 DEF SoundIds
<1>3. \A id \in Ids(ts) : \E q \in DOMAIN ts : ts[q].id = id
  BY DEF Ids
<1>4. Graph(ts)
  BY <1>1, <1>2, <1>3 DEF Graph
<1>5. \A w : w \in Moves(ts) <=> \E q \in DOMAIN ts : w \in {ts[q].id} \X (0..(Len(ts[q].deps) + 1))
  BY DEF Moves
<1>6. \A id : \A j : <<id, j>> \in Moves(ts) <=> id \in Ids(ts) /\ j \in 0..(Len(DepsOf(ts, id)) + 1)
  <2> TAKE id
  <2> TAKE j
  <2>1. <<id, j>> \in Moves(ts) <=> \E q \in DOMAIN ts : id = ts[q].id /\ j \in 0..(Len(ts[q].deps) + 1)
    BY <1>5
  <2>2. \A q \in DOMAIN ts : ts[q].id \in Ids(ts)
    BY DEF Ids
  <2> QED
    BY <1>1, <1>3, <2>1, <2>2
<1>7. \A w \in Moves(ts) : w = <<w[1], w[2]>>
  BY <1>5
<1>8. IsFiniteSet(Moves(ts))
  <2> DEFINE M(n) == UNION {{ts[i].id} \X (0..(Len(ts[i].deps) + 1)) : i \in 1..n}
             S == {n \in 0..Len(ts) : IsFiniteSet(M(n))}
  <2>0. Len(ts) \in Nat /\ DOMAIN ts = 1..Len(ts)
    OBVIOUS
  <2>1. 0 \in S
    <3>1. M(0) = {}
      OBVIOUS
    <3> HIDE DEF M
    <3> QED
      BY <2>0, <3>1, FS_EmptySet
  <2>2. ASSUME NEW n \in 1..Len(ts), n - 1 \in S PROVE n \in S
    <3> DEFINE T == {ts[n].id} \X (0..(Len(ts[n].deps) + 1))
    <3>1. M(n) = M(n - 1) \cup T
      <4>1. \A i \in 1..n : i = n \/ i \in 1..(n - 1)
        OBVIOUS
      <4>2. n \in 1..n /\ \A i \in 1..(n - 1) : i \in 1..n
        OBVIOUS
      <4> QED
        BY <4>1, <4>2
    <3>2. IsFiniteSet(T)
      <4> DEFINE l == Len(ts[n].deps) + 1
      <4>1. 0 \in Int /\ l \in Int
        BY <1>2, <2>0
      <4> HIDE DEF l
      <4>2. IsFiniteSet({ts[n].id}) /\ IsFiniteSet(0..l)
        BY <4>1, FS_Singleton, FS_Interval
      <4> QED
        BY <4>2, FS_Product DEF l
    <3> HIDE DEF M, T
    <3>3. IsFiniteSet(M(n - 1))
      BY <2>2
    <3>4. IsFiniteSet(M(n))
      BY <3>1, <3>2, <3>3, FS_Union
    <3>5. n \in 0..Len(ts)
      BY <2>0
    <3> QED
      BY <3>4, <3>5
  <2>3. Len(ts) \in S
    <3> HIDE DEF S
    <3>1. \A n \in 1..Len(ts) : n - 1 \in S => n \in S
      BY <2>2
    <3>2. \A n \in 0..Len(ts) : n \in S
      BY <2>0, <2>1, <3>1, UpTo, Zenon
    <3> QED
      BY <2>0, <3>2
  <2> QED
    BY <2>0, <2>3 DEF Moves
<1> QED
  BY <1>1, <1>4, <1>6, <1>7, <1>8

\* The search starts with nothing seen.
LEMMA SearchBegins ==
  ASSUME NEW ts, Graph(ts)
  PROVE  SearchInv(ts, Started(ts))
<1> DEFINE s == Started(ts)
<1>1. /\ s \in SearchState(ts) /\ s.stack = <<>> /\ s.cycle = <<>>
      /\ \A id \in Ids(ts) : s.state[id] = 0 /\ s.next[id] = 1
  BY DEF Started, SearchState
<1> HIDE DEF s
<1>2. Looping(ts, s)
  BY <1>1 DEF Looping, Graph
<1>3. Stacked(ts, s)
  BY <1>1 DEF Stacked, IsInjective
<1>4. Followed(ts, s)
  BY <1>1 DEF Followed
<1>5. Finished(ts, s)
  <2>1. [id \in Ids(ts) |-> 0] \in [Ids(ts) -> Nat] /\ 0 \in Nat
    OBVIOUS
  <2>2. LeftBehind(ts, s, [id \in Ids(ts) |-> 0], 0)
    BY <1>1 DEF LeftBehind
  <2> QED
    BY <2>1, <2>2 DEF Finished
<1> QED
  BY <1>1, <1>2, <1>3, <1>4, <1>5 DEF SearchInv, s

\* Who calls visit for id: the loop over all tasks, or the call on top of the stack.
Called(ts, s, t, id) ==
  LET top == s.stack[Len(s.stack)]
  IN  \/ s.stack = <<>> /\ t.next = s.next
      \/ /\ s.stack # <<>> /\ s.next[top] <= Len(DepsOf(ts, top))
         /\ id = DepsOf(ts, top)[s.next[top]]
         /\ t.next = [s.next EXCEPT ![top] = @ + 1]

\* A task that has not been seen goes on the stack.
LEMMA EnterKeeps ==
  ASSUME NEW ts, Graph(ts), NEW s, SearchInv(ts, s), s.cycle = <<>>,
         NEW id \in Ids(ts), s.state[id] = 0, NEW t \in SearchState(ts),
         t.state = [s.state EXCEPT ![id] = 1], t.stack = Append(s.stack, id), t.cycle = <<>>,
         Called(ts, s, t, id)
  PROVE  SearchInv(ts, t)
<1> DEFINE n == Len(s.stack)
           top == s.stack[n]
<1>1. /\ s.state \in [Ids(ts) -> 0..2] /\ s.next \in [Ids(ts) -> Nat] /\ s.stack \in Seq(Ids(ts))
      /\ Looping(ts, s) /\ Stacked(ts, s) /\ Followed(ts, s) /\ Finished(ts, s)
  BY DEF SearchInv, SearchState
<1>2. /\ n \in Nat /\ Len(t.stack) = n + 1 /\ t.stack[n + 1] = id /\ DOMAIN s.stack = 1..n
      /\ DOMAIN t.stack = 1..(n + 1)
      /\ \A i \in 1..n : t.stack[i] = s.stack[i] /\ s.stack[i] \in Ids(ts)
  BY <1>1
<1>3. \A x \in Ids(ts) : t.state[x] = IF x = id THEN 1 ELSE s.state[x]
  BY <1>1
<1>4. \A i \in 1..n : s.stack[i] # id
  BY <1>1, <1>2 DEF Stacked
<1>5. \A x \in Ids(ts) : Len(DepsOf(ts, x)) \in Nat /\ \A k \in 1..Len(DepsOf(ts, x)) : DepsOf(ts, x)[k] \in Ids(ts)
  BY DEF Graph
<1>6. \/ n = 0 /\ t.next = s.next
      \/ /\ n > 0 /\ top \in Ids(ts) /\ s.state[top] = 1 /\ top # id
         /\ s.next[top] <= Len(DepsOf(ts, top)) /\ id = DepsOf(ts, top)[s.next[top]]
         /\ t.next = [s.next EXCEPT ![top] = @ + 1]
  <2>1. CASE s.stack = <<>>
    BY <1>2, <2>1 DEF Called
  <2>2. CASE s.stack # <<>>
    <3>1. n > 0 /\ n \in 1..n
      BY <1>1, <1>2, <2>2
    <3>2. top \in Ids(ts) /\ top # id
      BY <1>2, <1>4, <3>1
    <3>3. s.state[top] = 1
      BY <1>1, <3>1, <3>2 DEF Stacked
    <3> QED
      BY <2>2, <3>1, <3>2, <3>3 DEF Called
  <2> QED
    BY <2>1, <2>2
<1> HIDE DEF n, top
<1>7. \A x \in Ids(ts) : t.next[x] = IF n > 0 /\ x = top THEN s.next[x] + 1 ELSE s.next[x]
  BY <1>1, <1>2, <1>6
<1>8. Looping(ts, t)
  <2> SUFFICES ASSUME NEW x \in Ids(ts)
               PROVE  /\ t.next[x] \in 1..(Len(DepsOf(ts, x)) + 1)
                      /\ t.state[x] = 0 => t.next[x] = 1
                      /\ t.state[x] = 2 => t.next[x] = Len(DepsOf(ts, x)) + 1
    BY DEF Looping
  <2>1. /\ s.next[x] \in 1..(Len(DepsOf(ts, x)) + 1)
        /\ s.state[x] = 0 => s.next[x] = 1
        /\ s.state[x] = 2 => s.next[x] = Len(DepsOf(ts, x)) + 1
    BY <1>1 DEF Looping
  <2>2. Len(DepsOf(ts, x)) \in Nat
    BY <1>5
  <2>3. CASE n > 0 /\ x = top
    BY <1>3, <1>6, <1>7, <2>1, <2>2, <2>3
  <2>4. CASE ~(n > 0 /\ x = top)
    BY <1>3, <1>7, <2>1, <2>4
  <2> QED
    BY <2>3, <2>4
<1>9. Stacked(ts, t)
  <2>1. IsInjective(t.stack)
    <3>1. \A i, j \in 1..n : s.stack[i] = s.stack[j] => i = j
      BY <1>1, <1>2 DEF Stacked, IsInjective
    <3>2. \A i \in 1..(n + 1) : i = n + 1 \/ i \in 1..n
      BY <1>2
    <3>3. ASSUME NEW i \in 1..(n + 1), NEW j \in 1..(n + 1), t.stack[i] = t.stack[j] PROVE i = j
      <4>1. CASE i \in 1..n /\ j \in 1..n
        BY <1>2, <3>1, <3>3, <4>1
      <4>2. CASE i = n + 1 /\ j \in 1..n
        BY <1>2, <1>4, <3>3, <4>2
      <4>3. CASE i \in 1..n /\ j = n + 1
        BY <1>2, <1>4, <3>3, <4>3
      <4> QED
        BY <3>2, <4>1, <4>2, <4>3
    <3> QED
      BY <1>2, <3>3 DEF IsInjective
  <2>2. ASSUME NEW x \in Ids(ts) PROVE t.state[x] = 1 <=> \E i \in 1..Len(t.stack) : t.stack[i] = x
    <3>1. s.state[x] = 1 <=> \E i \in 1..n : s.stack[i] = x
      BY <1>1 DEF Stacked, n
    <3>2. n + 1 \in 1..(n + 1) /\ (\A i \in 1..n : i \in 1..(n + 1)) /\ \A i \in 1..(n + 1) : i = n + 1 \/ i \in 1..n
      BY <1>2
    <3> QED
      BY <1>2, <1>3, <3>1, <3>2
  <2>3. ASSUME NEW i \in 1..(Len(t.stack) - 1) PROVE t.stack[i + 1] \in ToSet(DepsOf(ts, t.stack[i]))
    <3>1. CASE i = n
      <4>1. n > 0 /\ s.next[top] \in 1..Len(DepsOf(ts, top))
        BY <1>1, <1>2, <1>5, <1>6, <3>1 DEF Looping
      <4>2. t.stack[i] = top /\ t.stack[i + 1] = DepsOf(ts, top)[s.next[top]]
        BY <1>2, <1>6, <3>1, <4>1 DEF top
      <4>3. DOMAIN DepsOf(ts, top) = 1..Len(DepsOf(ts, top))
        BY <1>6, <4>1 DEF Graph
      <4> QED
        BY <4>1, <4>2, <4>3 DEF ToSet
    <3>2. CASE i # n
      <4>1. i \in 1..(n - 1) /\ i \in 1..n /\ i + 1 \in 1..n
        BY <1>2, <3>2
      <4>2. s.stack[i + 1] \in ToSet(DepsOf(ts, s.stack[i]))
        BY <1>1, <4>1 DEF Stacked, n
      <4> QED
        BY <1>2, <4>1, <4>2
    <3> QED
      BY <3>1, <3>2
  <2> QED
    BY <2>1, <2>2, <2>3 DEF Stacked
<1>10. Followed(ts, t)
  <2> SUFFICES ASSUME NEW x \in Ids(ts), NEW k \in 1..(t.next[x] - 1)
               PROVE  t.state[DepsOf(ts, x)[k]] = 2 \/ Above(t, x, DepsOf(ts, x)[k])
    BY DEF Followed
  <2> DEFINE d == DepsOf(ts, x)[k]
  <2>1. CASE n > 0 /\ x = top /\ k = s.next[top]
    <3>1. t.stack[n] = x /\ t.stack[n + 1] = d /\ n \in 1..(Len(t.stack) - 1)
      BY <1>2, <1>6, <2>1 DEF top
    <3> QED
      BY <3>1 DEF Above
  <2>2. CASE ~(n > 0 /\ x = top /\ k = s.next[top])
    <3>0. s.next[x] \in Nat /\ s.next[x] - 1 <= Len(DepsOf(ts, x))
      BY <1>1, <1>5 DEF Looping
    <3>1. k \in 1..(s.next[x] - 1) /\ d \in Ids(ts)
      BY <1>5, <1>7, <2>2, <3>0
    <3>2. s.state[d] = 2 \/ Above(s, x, d)
      BY <1>1, <3>1 DEF Followed
    <3>3. s.state[d] = 2 => t.state[d] = 2
      BY <1>3, <3>1
    <3>4. Above(s, x, d) => Above(t, x, d)
      <4>1. \A i \in 1..(n - 1) : i \in 1..n /\ i + 1 \in 1..n /\ i \in 1..(Len(t.stack) - 1)
        BY <1>2
      <4> HIDE DEF d
      <4> QED
        BY <1>2, <4>1 DEF Above, n
    <3> QED
      BY <3>2, <3>3, <3>4
  <2> QED
    BY <2>1, <2>2
<1>11. Finished(ts, t)
  <2>1. PICK r \in [Ids(ts) -> Nat], b \in Nat : LeftBehind(ts, s, r, b)
    BY <1>1 DEF Finished
  <2>2. LeftBehind(ts, t, r, b)
    BY <1>3, <2>1 DEF LeftBehind
  <2> QED
    BY <2>2 DEF Finished
<1> QED
  BY <1>8, <1>9, <1>10, <1>11 DEF SearchInv

\* What the three other moves start from: a task on top of the stack.
LEMMA OnTop ==
  ASSUME NEW ts, Graph(ts), NEW s, SearchInv(ts, s), s.cycle = <<>>, s.stack # <<>>
  PROVE  LET n == Len(s.stack)
             top == s.stack[n]
         IN  /\ n \in Nat \ {0} /\ DOMAIN s.stack = 1..n /\ n \in 1..n
             /\ \A i \in 1..n : s.stack[i] \in Ids(ts)
             /\ \A i, j \in 1..n : s.stack[i] = s.stack[j] => i = j
             /\ top \in Ids(ts) /\ s.state[top] = 1
             /\ DepsOf(ts, top) \in Seq(Ids(ts)) /\ top \notin ToSet(DepsOf(ts, top))
             /\ s.next[top] \in 1..(Len(DepsOf(ts, top)) + 1)
<1> DEFINE n == Len(s.stack)
           top == s.stack[n]
<1>1. s.stack \in Seq(Ids(ts)) /\ Looping(ts, s) /\ Stacked(ts, s)
  BY DEF SearchInv, SearchState
<1>2. n \in Nat \ {0} /\ DOMAIN s.stack = 1..n /\ n \in 1..n /\ \A i \in 1..n : s.stack[i] \in Ids(ts)
  BY <1>1
<1> HIDE DEF n
<1>3. \A i, j \in 1..n : s.stack[i] = s.stack[j] => i = j
  BY <1>1, <1>2 DEF Stacked, IsInjective
<1>4. top \in Ids(ts)
  BY <1>2
<1>5. s.state[top] = 1
  BY <1>1, <1>2, <1>4 DEF Stacked, n
<1>6. DepsOf(ts, top) \in Seq(Ids(ts)) /\ top \notin ToSet(DepsOf(ts, top))
  BY <1>4 DEF Graph
<1>7. s.next[top] \in 1..(Len(DepsOf(ts, top)) + 1)
  BY <1>1, <1>4 DEF Looping
<1> QED
  BY <1>2, <1>3, <1>4, <1>5, <1>6, <1>7 DEF n

\* The next dependency has been left: nothing to do for it.
LEMMA PassKeeps ==
  ASSUME NEW ts, Graph(ts), NEW s, SearchInv(ts, s), s.cycle = <<>>, s.stack # <<>>,
         NEW t \in SearchState(ts), NEW top, top = s.stack[Len(s.stack)],
         s.next[top] <= Len(DepsOf(ts, top)), s.state[DepsOf(ts, top)[s.next[top]]] = 2,
         t.state = s.state, t.stack = s.stack, t.cycle = <<>>,
         t.next = [s.next EXCEPT ![top] = @ + 1]
  PROVE  SearchInv(ts, t)
<1>1. /\ s.state \in [Ids(ts) -> 0..2] /\ s.next \in [Ids(ts) -> Nat]
      /\ Looping(ts, s) /\ Stacked(ts, s) /\ Followed(ts, s) /\ Finished(ts, s)
  BY DEF SearchInv, SearchState
<1>2. /\ top \in Ids(ts) /\ s.state[top] = 1 /\ DepsOf(ts, top) \in Seq(Ids(ts))
      /\ s.next[top] \in 1..Len(DepsOf(ts, top))
  BY OnTop
<1>3. \A x \in Ids(ts) : t.next[x] = IF x = top THEN s.next[x] + 1 ELSE s.next[x]
  BY <1>1, <1>2
<1>4. Looping(ts, t)
  <2> SUFFICES ASSUME NEW x \in Ids(ts)
               PROVE  /\ t.next[x] \in 1..(Len(DepsOf(ts, x)) + 1)
                      /\ s.state[x] = 0 => t.next[x] = 1
                      /\ s.state[x] = 2 => t.next[x] = Len(DepsOf(ts, x)) + 1
    BY DEF Looping
  <2>1. CASE x = top
    BY <1>2, <1>3, <2>1
  <2>2. CASE x # top
    BY <1>1, <1>3, <2>2 DEF Looping
  <2> QED
    BY <2>1, <2>2
<1>5. Stacked(ts, t)
  BY <1>1 DEF Stacked
<1>6. Followed(ts, t)
  <2> SUFFICES ASSUME NEW x \in Ids(ts), NEW k \in 1..(t.next[x] - 1)
               PROVE  t.state[DepsOf(ts, x)[k]] = 2 \/ Above(t, x, DepsOf(ts, x)[k])
    BY DEF Followed
  <2>1. CASE x = top /\ k = s.next[top]
    BY <2>1
  <2>2. CASE ~(x = top /\ k = s.next[top])
    <3>1. k \in 1..(s.next[x] - 1)
      BY <1>1, <1>2, <1>3, <2>2
    <3> QED
      BY <1>1, <3>1 DEF Followed, Above
  <2> QED
    BY <2>1, <2>2
<1>7. Finished(ts, t)
  BY <1>1 DEF Finished, LeftBehind
<1> QED
  BY <1>4, <1>5, <1>6, <1>7 DEF SearchInv

\* A line from its start-th member on, closed by it.
Closing(line, start) == Append(SubSeq(line, start, Len(line)), line[start])

\* What Append returns.
LEMMA Appended ==
  ASSUME NEW X, NEW line \in Seq(X), NEW e \in X
  PROVE  /\ Append(line, e) \in Seq(X) /\ Len(Append(line, e)) = Len(line) + 1
         /\ Append(line, e)[Len(line) + 1] = e
         /\ \A i \in 1..Len(line) : Append(line, e)[i] = line[i]
OBVIOUS

\* A closed line, place by place.
LEMMA ClosingMeans ==
  ASSUME NEW X, NEW line \in Seq(X), NEW start \in 1..(Len(line) - 1),
         NEW c, c = Closing(line, start), NEW m, m = Len(line) - start + 1
  PROVE  /\ c \in Seq(X) /\ Len(c) = m + 1 /\ c[m + 1] = line[start]
         /\ \A i \in 1..m : c[i] = line[start + i - 1]
<1> DEFINE n == Len(line)
           p == SubSeq(line, start, n)
<1>1. line[start] \in X /\ start \in 1..n
  OBVIOUS
<1>2. p \in Seq(X) /\ Len(p) = n - start + 1 /\ \A i \in 1..(n - start + 1) : p[i] = line[start + i - 1]
  OBVIOUS
<1>3. c = Append(p, line[start])
  BY DEF Closing
<1> HIDE DEF p
<1>4. Len(p) = m
  BY <1>2
<1>5. p \in Seq(X) /\ \A i \in 1..m : p[i] = line[start + i - 1]
  BY <1>2
<1>6. c \in Seq(X) /\ Len(c) = Len(p) + 1 /\ c[Len(p) + 1] = line[start] /\ \A i \in 1..Len(p) : c[i] = p[i]
  BY <1>1, <1>3, <1>5, Appended
<1> QED
  BY <1>4, <1>5, <1>6

\* A line that repeats nothing but its last member has an injective front.
LEMMA FrontMeans ==
  ASSUME NEW X, NEW c \in Seq(X), Len(c) > 0,
         \A i, j \in 1..(Len(c) - 1) : c[i] = c[j] => i = j
  PROVE  IsInjective(Front(c))
<1>1. Front(c) = SubSeq(c, 1, Len(c) - 1)
  BY DEF Front
<1>2. DOMAIN SubSeq(c, 1, Len(c) - 1) = 1..(Len(c) - 1)
      /\ \A i \in 1..(Len(c) - 1) : SubSeq(c, 1, Len(c) - 1)[i] = c[i]
  OBVIOUS
<1> QED
  BY <1>1, <1>2 DEF IsInjective


\* Lines whose last member closes a cycle, in numbers.
LEMMA ClosingPlaces ==
  ASSUME NEW n \in Nat, NEW start \in 1..(n - 1), NEW m, m = n - start + 1
  PROVE  /\ m \in Nat /\ m > 1 /\ n - start + 2 = m + 1 /\ start + m - 1 = n
         /\ \A i \in 1..m : start + i - 1 \in 1..n
         /\ \A i \in 1..m : i # m =>
              i + 1 \in 1..m /\ start + i - 1 \in 1..(n - 1) /\ start + (i + 1) - 1 = (start + i - 1) + 1
         /\ \A i, j \in 1..m : start + i - 1 = start + j - 1 => i = j
OBVIOUS

\* A line in which each member leads to the next and the last leads back.
LeadsBack(ts, line, start) ==
  /\ \A i, j \in 1..Len(line) : line[i] = line[j] => i = j
  /\ \A i \in 1..(Len(line) - 1) : line[i + 1] \in ToSet(DepsOf(ts, line[i]))
  /\ line[start] \in ToSet(DepsOf(ts, line[Len(line)]))

\* Such a line, closed, is a cycle.
LEMMA ClosingIsSound ==
  ASSUME NEW ts, NEW line \in Seq(Ids(ts)), NEW start \in 1..(Len(line) - 1),
         LeadsBack(ts, line, start),
         NEW c, c = Closing(line, start), NEW m, m = Len(line) - start + 1
  PROVE  CycleSound(ts, c)
<1> DEFINE n == Len(line)
<1>2. /\ c \in Seq(Ids(ts)) /\ Len(c) = m + 1 /\ c[m + 1] = line[start]
      /\ \A i \in 1..m : c[i] = line[start + i - 1]
  BY ClosingMeans
<1>6. n \in Nat /\ start \in 1..(n - 1) /\ m = n - start + 1
  OBVIOUS
<1>1. /\ m \in Nat /\ m > 1 /\ n - start + 2 = m + 1 /\ start + m - 1 = n
      /\ \A i \in 1..m : start + i - 1 \in 1..n
      /\ \A i \in 1..m : i # m =>
           i + 1 \in 1..m /\ start + i - 1 \in 1..(n - 1) /\ start + (i + 1) - 1 = (start + i - 1) + 1
      /\ \A i, j \in 1..m : start + i - 1 = start + j - 1 => i = j
  <2>1. m \in Nat /\ m > 1 /\ n - start + 2 = m + 1 /\ start + m - 1 = n
    BY <1>6, ClosingPlaces
  <2>2. \A i \in 1..m : start + i - 1 \in 1..n
    BY <1>6, ClosingPlaces
  <2>3. \A i \in 1..m : i # m =>
           i + 1 \in 1..m /\ start + i - 1 \in 1..(n - 1) /\ start + (i + 1) - 1 = (start + i - 1) + 1
    BY <1>6, <2>1
  <2>4. \A i, j \in 1..m : start + i - 1 = start + j - 1 => i = j
    BY <1>6, ClosingPlaces
  <2> QED
    BY <2>1, <2>2, <2>3, <2>4
<1>0. /\ \A i, j \in 1..n : line[i] = line[j] => i = j
      /\ \A i \in 1..(n - 1) : line[i + 1] \in ToSet(DepsOf(ts, line[i]))
      /\ line[start] \in ToSet(DepsOf(ts, line[n]))
  BY DEF LeadsBack
<1>3. c # <<>> /\ Len(c) > 2 /\ Head(c) = Last(c)
  <2>1. c # <<>> /\ Head(c) = c[1] /\ Last(c) = c[m + 1]
    BY <1>1, <1>2 DEF Last
  <2>2. 1 \in 1..m /\ start + 1 - 1 = start
    BY <1>1
  <2> QED
    BY <1>1, <1>2, <2>1, <2>2
<1>4. IsInjective(Front(c))
  <2>1. ASSUME NEW i \in 1..m, NEW j \in 1..m, c[i] = c[j] PROVE i = j
    <3>1. line[start + i - 1] = line[start + j - 1]
      BY <1>2, <2>1
    <3>2. start + i - 1 = start + j - 1
      BY <1>0, <1>1, <3>1
    <3> QED
      BY <1>1, <3>2
  <2>2. Len(c) > 0 /\ Len(c) - 1 = m
    BY <1>1, <1>2
  <2> QED
    BY <1>2, <2>1, <2>2, FrontMeans
<1>5. ASSUME NEW i \in 1..(Len(c) - 1) PROVE c[i + 1] \in ToSet(DepsOf(ts, c[i]))
  <2>0. i \in 1..m
    BY <1>1, <1>2
  <2>1. CASE i = m
    <3>1. c[m] = line[start + m - 1]
      BY <1>2, <2>0, <2>1
    <3>2. c[i] = line[n] /\ c[i + 1] = line[start]
      BY <1>1, <1>2, <2>1, <3>1
    <3> QED
      BY <1>0, <3>2
  <2>2. CASE i # m
    <3> DEFINE k == start + i - 1
    <3>1. i + 1 \in 1..m /\ k \in 1..(n - 1) /\ start + (i + 1) - 1 = k + 1
      BY <1>1, <2>0, <2>2
    <3>2. c[i] = line[k] /\ c[i + 1] = line[k + 1]
      BY <1>2, <2>0, <3>1
    <3> QED
      BY <1>0, <3>1, <3>2
  <2> QED
    BY <2>1, <2>2
<1> QED
  BY <1>2, <1>3, <1>4, <1>5 DEF CycleSound

\* The next dependency is on the stack: the stack from there on is a cycle.
LEMMA CloseKeeps ==
  ASSUME NEW ts, Graph(ts), NEW s, SearchInv(ts, s), s.cycle = <<>>, s.stack # <<>>,
         NEW t \in SearchState(ts), NEW top, top = s.stack[Len(s.stack)],
         NEW start \in DOMAIN s.stack, s.stack[start] \in ToSet(DepsOf(ts, top)),
         t.cycle = Closing(s.stack, start)
  PROVE  SearchInv(ts, t)
<1> DEFINE n == Len(s.stack)
<1>1. s.stack \in Seq(Ids(ts)) /\ Stacked(ts, s)
  BY DEF SearchInv, SearchState
<1>2. /\ n \in Nat \ {0} /\ DOMAIN s.stack = 1..n /\ n \in 1..n /\ top = s.stack[n]
      /\ \A i, j \in 1..n : s.stack[i] = s.stack[j] => i = j
      /\ top \in Ids(ts) /\ top \notin ToSet(DepsOf(ts, top))
  BY OnTop
<1>3. \A i \in 1..(n - 1) : s.stack[i + 1] \in ToSet(DepsOf(ts, s.stack[i]))
  BY <1>1 DEF Stacked
<1>4. n = Len(s.stack)
  OBVIOUS
<1> HIDE DEF n
<1>5. start \in 1..(n - 1)
  BY <1>2
<1>6. CycleSound(ts, t.cycle)
  <2>1. n \in Nat /\ LeadsBack(ts, s.stack, start)
    BY <1>2, <1>3, <1>4 DEF LeadsBack
  <2> DEFINE m == n - start + 1
  <2>2. m = n - start + 1
    OBVIOUS
  <2> HIDE DEF m
  <2> QED
    BY <1>1, <1>4, <1>5, <2>1, <2>2, ClosingIsSound
<1>7. t.cycle # <<>>
  BY <1>6 DEF CycleSound
<1> QED
  BY <1>6, <1>7 DEF SearchInv

\* The task on top of the stack is through its loop: everything it depends on is left.
LEMMA LeaveKeeps ==
  ASSUME NEW ts, Graph(ts), NEW s, SearchInv(ts, s), s.cycle = <<>>, s.stack # <<>>,
         NEW t \in SearchState(ts), NEW top, top = s.stack[Len(s.stack)],
         s.next[top] > Len(DepsOf(ts, top)),
         t.state = [s.state EXCEPT ![top] = 2], t.stack = SubSeq(s.stack, 1, Len(s.stack) - 1),
         t.cycle = <<>>, t.next = s.next
  PROVE  SearchInv(ts, t)
<1> DEFINE n == Len(s.stack)
<1>1. /\ s.state \in [Ids(ts) -> 0..2] /\ s.next \in [Ids(ts) -> Nat] /\ s.stack \in Seq(Ids(ts))
      /\ Looping(ts, s) /\ Stacked(ts, s) /\ Followed(ts, s) /\ Finished(ts, s)
  BY DEF SearchInv, SearchState
<1>2. /\ n \in Nat \ {0} /\ DOMAIN s.stack = 1..n /\ n \in 1..n /\ top = s.stack[n]
      /\ \A i, j \in 1..n : s.stack[i] = s.stack[j] => i = j
      /\ top \in Ids(ts) /\ s.state[top] = 1 /\ DepsOf(ts, top) \in Seq(Ids(ts))
      /\ s.next[top] = Len(DepsOf(ts, top)) + 1
  BY OnTop
<1>3. \A x \in Ids(ts) : t.state[x] = IF x = top THEN 2 ELSE s.state[x]
  BY <1>1, <1>2
<1>4. Len(t.stack) = n - 1 /\ DOMAIN t.stack = 1..(n - 1) /\ \A i \in 1..(n - 1) : t.stack[i] = s.stack[i] /\ i \in 1..n
  BY <1>1, <1>2
<1> HIDE DEF n
<1>5. \A x \in Ids(ts) : \A k \in 1..Len(DepsOf(ts, x)) : DepsOf(ts, x)[k] \in Ids(ts)
  BY DEF Graph
<1>6. ASSUME NEW x \in Ids(ts), s.state[x] = 2 \/ x = top, NEW k \in 1..Len(DepsOf(ts, x))
      PROVE  s.state[DepsOf(ts, x)[k]] = 2
  <2>1. k \in 1..(s.next[x] - 1)
    <3>1. s.next[x] = Len(DepsOf(ts, x)) + 1
      BY <1>1, <1>2, <1>6 DEF Looping
    <3>2. Len(DepsOf(ts, x)) \in Nat
      BY DEF Graph
    <3> QED
      BY <3>1, <3>2
  <2>2. ASSUME NEW i \in 1..(n - 1), s.stack[i] = x PROVE FALSE
    <3>1. i \in 1..n /\ i # n
      BY <1>2
    <3>2. s.state[x] = 1
      BY <1>1, <2>2, <3>1 DEF Stacked, n
    <3> QED
      BY <1>2, <1>6, <2>2, <3>1, <3>2
  <2> QED
    BY <1>1, <2>1, <2>2 DEF Followed, Above, n
<1>7. Looping(ts, t)
  BY <1>1, <1>2, <1>3 DEF Looping
<1>8. Stacked(ts, t)
  <2>1. IsInjective(t.stack)
    BY <1>2, <1>4 DEF IsInjective
  <2>2. ASSUME NEW x \in Ids(ts) PROVE t.state[x] = 1 <=> \E i \in 1..Len(t.stack) : t.stack[i] = x
    <3>1. s.state[x] = 1 <=> \E i \in 1..n : s.stack[i] = x
      BY <1>1 DEF Stacked, n
    <3>2. \A i \in 1..n : i = n \/ i \in 1..(n - 1)
      BY <1>2
    <3>3. \A i \in 1..(n - 1) : s.stack[i] # top
      <4>1. \A i \in 1..(n - 1) : i \in 1..n /\ i # n
        BY <1>2
      <4> QED
        BY <1>2, <4>1
    <3> QED
      BY <1>2, <1>3, <1>4, <3>1, <3>2, <3>3
  <2>3. ASSUME NEW i \in 1..(Len(t.stack) - 1) PROVE t.stack[i + 1] \in ToSet(DepsOf(ts, t.stack[i]))
    <3>1. i \in 1..(n - 1) /\ i + 1 \in 1..(n - 1)
      BY <1>2, <1>4
    <3>2. s.stack[i + 1] \in ToSet(DepsOf(ts, s.stack[i]))
      BY <1>1, <3>1 DEF Stacked, n
    <3> QED
      BY <1>4, <3>1, <3>2
  <2> QED
    BY <2>1, <2>2, <2>3 DEF Stacked
<1>9. Followed(ts, t)
  <2> SUFFICES ASSUME NEW x \in Ids(ts), NEW k \in 1..(t.next[x] - 1)
               PROVE  t.state[DepsOf(ts, x)[k]] = 2 \/ Above(t, x, DepsOf(ts, x)[k])
    BY DEF Followed
  <2> DEFINE d == DepsOf(ts, x)[k]
  <2>1. d \in Ids(ts)
    BY <1>1, <1>5 DEF Looping, Graph
  <2>2. s.state[d] = 2 \/ Above(s, x, d)
    BY <1>1 DEF Followed
  <2> HIDE DEF d
  <2>3. CASE s.state[d] = 2
    BY <1>3, <2>1, <2>3 DEF d
  <2>4. ASSUME NEW i \in 1..(n - 1), s.stack[i] = x, s.stack[i + 1] = d
        PROVE  t.state[d] = 2 \/ Above(t, x, d)
    <3>1. CASE i + 1 = n
      BY <1>2, <1>3, <2>4, <3>1
    <3>2. CASE i + 1 # n
      <4>1. i \in 1..((n - 1) - 1) /\ i + 1 \in 1..(n - 1)
        BY <1>2, <3>2
      <4> QED
        BY <1>4, <2>4, <4>1 DEF Above
    <3> QED
      BY <3>1, <3>2
  <2> QED
    BY <2>2, <2>3, <2>4 DEF Above, n, d
<1>10. Finished(ts, t)
  <2>1. PICK r \in [Ids(ts) -> Nat], b \in Nat : LeftBehind(ts, s, r, b)
    BY <1>1 DEF Finished
  <2> DEFINE q == [r EXCEPT ![top] = b]
  <2>2. q \in [Ids(ts) -> Nat] /\ b + 1 \in Nat /\ \A x \in Ids(ts) : q[x] = IF x = top THEN b ELSE r[x]
    BY <1>2, <2>1
  <2> HIDE DEF q
  <2>3. ASSUME NEW x \in Ids(ts), t.state[x] = 2
        PROVE  q[x] < b + 1 /\ \A k \in 1..Len(DepsOf(ts, x)) : q[DepsOf(ts, x)[k]] < q[x]
    <3>1. s.state[x] = 2 \/ x = top
      BY <1>3, <2>3
    <3>2. r[x] \in Nat /\ (s.state[x] = 2 => r[x] < b)
      BY <2>1 DEF LeftBehind
    <3>3. q[x] < b + 1
      BY <2>1, <2>2, <3>1, <3>2
    <3>4. ASSUME NEW k \in 1..Len(DepsOf(ts, x)) PROVE q[DepsOf(ts, x)[k]] < q[x]
      <4>1. s.state[DepsOf(ts, x)[k]] = 2 /\ DepsOf(ts, x)[k] \in Ids(ts)
        BY <1>5, <1>6, <3>1
      <4>2. q[DepsOf(ts, x)[k]] = r[DepsOf(ts, x)[k]]
        BY <1>2, <2>2, <4>1
      <4>3. r[DepsOf(ts, x)[k]] < b
        BY <2>1, <4>1 DEF LeftBehind
      <4>4. CASE x = top
        BY <2>2, <4>2, <4>3, <4>4
      <4>5. CASE x # top
        <5>1. r[DepsOf(ts, x)[k]] < r[x]
          BY <2>1, <3>1, <4>5 DEF LeftBehind
        <5> QED
          BY <2>2, <4>2, <4>5, <5>1
      <4> QED
        BY <4>4, <4>5
    <3> QED
      BY <3>3, <3>4
  <2>4. LeftBehind(ts, t, q, b + 1)
    BY <2>3 DEF LeftBehind
  <2> QED
    BY <2>2, <2>4 DEF Finished
<1> QED
  BY <1>7, <1>8, <1>9, <1>10 DEF SearchInv

\* The four steps of a search, field by field.
Enters(s, t, id) ==
  t.state = [s.state EXCEPT ![id] = 1] /\ t.stack = Append(s.stack, id) /\ t.cycle = <<>>

\* visit is called: the task goes on the stack.
LEMMA EnterMeans ==
  ASSUME NEW ts, NEW s \in SearchState(ts), s.cycle = <<>>, NEW id \in Ids(ts)
  PROVE  Enter(s, id) \in SearchState(ts) /\ Enters(s, Enter(s, id), id) /\ Enter(s, id).next = s.next
<1> DEFINE t == Enter(s, id)
<1>1. /\ s.state \in [Ids(ts) -> 0..2] /\ s.stack \in Seq(Ids(ts)) /\ s.next \in [Ids(ts) -> Nat]
      /\ s = [state |-> s.state, next |-> s.next, stack |-> s.stack, cycle |-> s.cycle]
  BY DEF SearchState
<1>2. t = [state |-> [s.state EXCEPT ![id] = 1], next |-> s.next, stack |-> Append(s.stack, id), cycle |-> s.cycle]
  <2> DEFINE longer == Append(s.stack, id)
  <2>1. t = [s EXCEPT !.state[id] = 1, !.stack = longer]
    BY DEF Enter
  <2> HIDE DEF longer, t
  <2>2. t = [state |-> [s.state EXCEPT ![id] = 1], next |-> s.next, stack |-> longer, cycle |-> s.cycle]
    BY <1>1, <2>1
  <2> QED
    BY <2>2 DEF longer
<1> HIDE DEF t
<1>3. t.state = [s.state EXCEPT ![id] = 1] /\ t.next = s.next /\ t.stack = Append(s.stack, id) /\ t.cycle = s.cycle
  BY <1>2
<1>4. [s.state EXCEPT ![id] = 1] \in [Ids(ts) -> 0..2] /\ Append(s.stack, id) \in Seq(Ids(ts)) /\ s.cycle \in Seq(Ids(ts))
  BY <1>1
<1>5. t \in SearchState(ts)
  BY <1>1, <1>2, <1>4 DEF SearchState
<1> QED
  BY <1>3, <1>5 DEF Enters, t

\* visit returns: the task leaves the stack.
LEMMA LeaveMeans ==
  ASSUME NEW ts, NEW s \in SearchState(ts), s.stack # <<>>, NEW top \in Ids(ts), top = s.stack[Len(s.stack)],
         NEW t, t = Leave(s)
  PROVE  /\ t \in SearchState(ts) /\ t.state = [s.state EXCEPT ![top] = 2] /\ t.next = s.next
         /\ t.stack = SubSeq(s.stack, 1, Len(s.stack) - 1) /\ t.cycle = s.cycle
<1> DEFINE rest == SubSeq(s.stack, 1, Len(s.stack) - 1)
<1>1. /\ s.state \in [Ids(ts) -> 0..2] /\ s.stack \in Seq(Ids(ts)) /\ s.next \in [Ids(ts) -> Nat]
      /\ s.cycle \in Seq(Ids(ts))
      /\ s = [state |-> s.state, next |-> s.next, stack |-> s.stack, cycle |-> s.cycle]
  BY DEF SearchState
<1>2. rest \in Seq(Ids(ts))
  BY <1>1
<1>3. t = [s EXCEPT !.state[top] = 2, !.stack = rest]
  BY DEF Leave, Last, Front
<1> HIDE DEF rest
<1>4. t = [state |-> [s.state EXCEPT ![top] = 2], next |-> s.next, stack |-> rest, cycle |-> s.cycle]
  BY <1>1, <1>3
<1>5. t.state = [s.state EXCEPT ![top] = 2] /\ t.next = s.next /\ t.stack = rest /\ t.cycle = s.cycle
  BY <1>4
<1>6. [s.state EXCEPT ![top] = 2] \in [Ids(ts) -> 0..2]
  BY <1>1
<1>7. t \in SearchState(ts)
  BY <1>1, <1>2, <1>4, <1>6 DEF SearchState
<1> QED
  BY <1>5, <1>7 DEF rest

\* The next dependency is visited, closes a cycle or is passed over.
LEMMA FollowMeans ==
  ASSUME NEW ts, NEW s \in SearchState(ts), s.cycle = <<>>, NEW d \in Ids(ts),
         NEW top \in Ids(ts), top = s.stack[Len(s.stack)],
         s.state[d] = 1 => \E i \in DOMAIN s.stack : s.stack[i] = d,
         NEW t, t = Follow(s, d)
  PROVE  /\ t \in SearchState(ts) /\ t.next = [s.next EXCEPT ![top] = @ + 1]
         /\ \/ s.state[d] = 0 /\ Enters(s, t, d)
            \/ /\ s.state[d] = 1 /\ t.state = s.state
               /\ \E start \in DOMAIN s.stack : s.stack[start] = d /\ t.cycle = Closing(s.stack, start)
            \/ s.state[d] = 2 /\ t.state = s.state /\ t.stack = s.stack /\ t.cycle = <<>>
<1> DEFINE past == [s EXCEPT !.next[top] = @ + 1]
           n == Len(s.stack)
           from == CHOOSE i \in DOMAIN s.stack : s.stack[i] = d
           round == Append(SubSeq(s.stack, from, n), d)
<1>1. /\ s.state \in [Ids(ts) -> 0..2] /\ s.stack \in Seq(Ids(ts)) /\ s.next \in [Ids(ts) -> Nat]
      /\ s.cycle \in Seq(Ids(ts))
      /\ s = [state |-> s.state, next |-> s.next, stack |-> s.stack, cycle |-> s.cycle]
  BY DEF SearchState
<1>2. /\ past = [state |-> s.state, next |-> [s.next EXCEPT ![top] = @ + 1], stack |-> s.stack, cycle |-> s.cycle]
      /\ [s.next EXCEPT ![top] = @ + 1] \in [Ids(ts) -> Nat]
  <2> DEFINE onward == [s.next EXCEPT ![top] = s.next[top] + 1]
  <2>1. onward \in [Ids(ts) -> Nat]
    BY <1>1
  <2>2. past = [s EXCEPT !.next = onward]
    BY <1>1
  <2> HIDE DEF onward, past
  <2>3. past = [state |-> s.state, next |-> onward, stack |-> s.stack, cycle |-> s.cycle]
    BY <1>1, <2>2
  <2> QED
    BY <2>1, <2>3 DEF onward
<1>3. t = CASE s.state[d] = 0 -> Enter(past, d)
            [] s.state[d] = 1 -> [past EXCEPT !.cycle = round]
            [] s.state[d] = 2 -> past
  BY DEF Follow, Last
<1> HIDE DEF past
<1>4. /\ past.state = s.state /\ past.next = [s.next EXCEPT ![top] = @ + 1] /\ past.stack = s.stack
      /\ past.cycle = <<>> /\ past \in SearchState(ts)
  BY <1>1, <1>2 DEF SearchState
<1>5. CASE s.state[d] = 0
  <2>1. t = Enter(past, d)
    BY <1>3, <1>5
  <2>2. t \in SearchState(ts) /\ Enters(past, t, d) /\ t.next = past.next
    BY <1>4, <2>1, EnterMeans
  <2> QED
    BY <1>4, <1>5, <2>2 DEF Enters
<1>6. CASE s.state[d] = 1
  <2>1. from \in DOMAIN s.stack /\ s.stack[from] = d
    BY <1>6
  <2> HIDE DEF from
  <2>2. round = Closing(s.stack, from)
    BY <2>1 DEF Closing
  <2>3. round \in Seq(Ids(ts))
    <3>1. SubSeq(s.stack, from, n) \in Seq(Ids(ts))
      BY <1>1, <2>1
    <3> QED
      BY <3>1, Appended
  <2> HIDE DEF round
  <2>4. t = [past EXCEPT !.cycle = round]
    BY <1>3, <1>6
  <2>5. t = [state |-> s.state, next |-> [s.next EXCEPT ![top] = @ + 1], stack |-> s.stack, cycle |-> round]
    BY <1>2, <2>4
  <2>6. t.state = s.state /\ t.next = [s.next EXCEPT ![top] = @ + 1] /\ t.cycle = round
    BY <2>5
  <2>7. t \in SearchState(ts)
    BY <1>1, <1>2, <2>3, <2>5 DEF SearchState
  <2>8. \E start \in DOMAIN s.stack : s.stack[start] = d /\ t.cycle = Closing(s.stack, start)
    BY <2>1, <2>2, <2>6
  <2> QED
    BY <1>6, <2>6, <2>7, <2>8
<1>7. CASE s.state[d] = 2
  <2>1. t = past
    BY <1>3, <1>7
  <2> QED
    BY <1>4, <1>7, <2>1
<1>8. s.state[d] \in 0..2
  BY <1>1
<1> QED
  BY <1>5, <1>6, <1>7, <1>8

\* A step that undoes nothing and makes the move <<x, j>>.
LEMMA Advancing ==
  ASSUME NEW Name, NEW Tool, NEW ts \in Seq(TaskOf(Name, Tool)), SoundIds(ts),
         NEW s \in SearchState(ts), NEW t \in SearchState(ts),
         \A id \in Ids(ts) : /\ s.state[id] # 0 => t.state[id] # 0
                             /\ s.state[id] = 2 => t.state[id] = 2
                             /\ s.next[id] <= t.next[id],
         NEW x \in Ids(ts), NEW j \in 0..(Len(DepsOf(ts, x)) + 1),
         t.state[x] # 0, j < t.next[x] \/ t.state[x] = 2,
         s.state[x] # 0 => ~(j < s.next[x]) /\ s.state[x] # 2
  PROVE  Advances(ts, s, t)
<1>1. /\ \A id : \A i : <<id, i>> \in Moves(ts) <=> id \in Ids(ts) /\ i \in 0..(Len(DepsOf(ts, id)) + 1)
      /\ \A w \in Moves(ts) : w = <<w[1], w[2]>>
      /\ \A id \in Ids(ts) : Len(DepsOf(ts, id)) \in Nat
  <2>1. Graph(ts)
    BY GraphFacts
  <2>2. \A id : \A i : <<id, i>> \in Moves(ts) <=> id \in Ids(ts) /\ i \in 0..(Len(DepsOf(ts, id)) + 1)
    BY GraphFacts
  <2>3. \A w \in Moves(ts) : w = <<w[1], w[2]>>
    BY GraphFacts
  <2> QED
    BY <2>1, <2>2, <2>3 DEF Graph
<1>2. ASSUME NEW w \in Moves(ts), w \in Made(ts, s) PROVE w \in Made(ts, t)
  <2>1. w[1] \in Ids(ts) /\ w[2] \in Nat
    <3>1. w = <<w[1], w[2]>>
      BY <1>1
    <3>2. <<w[1], w[2]>> \in Moves(ts)
      BY <3>1
    <3> HIDE DEF Moves
    <3>3. w[1] \in Ids(ts) /\ w[2] \in 0..(Len(DepsOf(ts, w[1])) + 1)
      BY <1>1, <3>2
    <3> QED
      BY <1>1, <3>3
  <2>2. s.next[w[1]] \in Nat /\ t.next[w[1]] \in Nat
    BY <2>1 DEF SearchState
  <2>3. s.state[w[1]] # 0 /\ (w[2] < s.next[w[1]] \/ s.state[w[1]] = 2)
    BY <1>2 DEF Made
  <2>4. t.state[w[1]] # 0 /\ (w[2] < t.next[w[1]] \/ t.state[w[1]] = 2)
    BY <2>1, <2>2, <2>3
  <2> QED
    BY <2>4 DEF Made
<1>3. Made(ts, s) \subseteq Made(ts, t)
  <2>1. \A w \in Made(ts, s) : w \in Moves(ts)
    BY DEF Made
  <2> QED
    BY <1>2, <2>1
<1>4. <<x, j>> \in Made(ts, t) /\ <<x, j>> \notin Made(ts, s)
  <2>1. <<x, j>> \in Moves(ts) /\ <<x, j>>[1] = x /\ <<x, j>>[2] = j
    BY <1>1
  <2> QED
    BY <2>1 DEF Made
<1> QED
  BY <1>3, <1>4 DEF Advances

\* A search that is not over keeps its invariant and makes a move it has not made.
LEMMA SearchSteps ==
  ASSUME NEW Name, NEW Tool, NEW ts \in Seq(TaskOf(Name, Tool)), SoundIds(ts),
         NEW s, SearchInv(ts, s), ~SearchOver(ts, s)
  PROVE  SearchInv(ts, Search(ts, s)) /\ Advances(ts, s, Search(ts, s))
<1> DEFINE t == Search(ts, s)
           n == Len(s.stack)
           top == s.stack[n]
           deps == DepsOf(ts, top)
           seen == ts[Min(Unseen(ts, s))].id
<1>1. /\ s \in SearchState(ts) /\ s.state \in [Ids(ts) -> 0..2] /\ s.next \in [Ids(ts) -> Nat]
      /\ s.stack \in Seq(Ids(ts)) /\ s.cycle = <<>>
      /\ Looping(ts, s) /\ Stacked(ts, s) /\ Followed(ts, s) /\ Finished(ts, s)
  BY DEF SearchInv, SearchState, SearchOver
<1>2. Graph(ts)
  BY GraphFacts
<1>3. t = IF s.stack = <<>> THEN Enter(s, seen)
          ELSE IF s.next[top] > Len(deps) THEN Leave(s)
          ELSE Follow(s, deps[s.next[top]])
  BY DEF Search, Last
<1> HIDE DEF t
<1>4. CASE s.stack = <<>>
  <2>1. seen \in Ids(ts) /\ s.state[seen] = 0
    <3> DEFINE U == Unseen(ts, s)
    <3>1. U # {} /\ U \in SUBSET Nat
      BY <1>4 DEF SearchOver, Unseen
    <3> HIDE DEF U
    <3>2. \E m \in U : \A k \in U : m <= k
      BY <3>1, LeastNat
    <3>3. Min(U) \in U
      BY <3>2 DEF Min
    <3> QED
      BY <3>3 DEF U, Unseen, Ids
  <2>2. t = Enter(s, seen)
    BY <1>3, <1>4
  <2> HIDE DEF seen
  <2>3. t \in SearchState(ts) /\ Enters(s, t, seen) /\ t.next = s.next
    BY <1>1, <2>1, <2>2, EnterMeans
  <2>4. t.state = [s.state EXCEPT ![seen] = 1] /\ t.stack = Append(s.stack, seen) /\ t.cycle = <<>>
    BY <2>3 DEF Enters
  <2>5. SearchInv(ts, t)
    <3>1. Called(ts, s, t, seen)
      BY <1>4, <2>3 DEF Called
    <3> QED
      BY <1>1, <1>2, <2>1, <2>3, <2>4, <3>1, EnterKeeps
  <2>6. \A id \in Ids(ts) : t.state[id] = IF id = seen THEN 1 ELSE s.state[id]
    BY <1>1, <2>4
  <2>7. s.next[seen] = 1 /\ Len(DepsOf(ts, seen)) \in Nat
    BY <1>1, <1>2, <2>1 DEF Looping, Graph
  <2>8. 0 \in 0..(Len(DepsOf(ts, seen)) + 1) /\ 0 < t.next[seen]
    BY <2>3, <2>7
  <2>9. Advances(ts, s, t)
    <3>1. \A id \in Ids(ts) : /\ s.state[id] # 0 => t.state[id] # 0
                              /\ s.state[id] = 2 => t.state[id] = 2
                              /\ s.next[id] <= t.next[id]
      BY <1>1, <2>1, <2>3, <2>6
    <3>2. t.state[seen] # 0
      BY <2>1, <2>6
    <3> QED
      BY <1>1, <2>1, <2>3, <2>8, <3>1, <3>2, Advancing
  <2> QED
    BY <2>5, <2>9 DEF t
<1>5. CASE s.stack # <<>>
  <2>1. /\ n \in 1..n /\ DOMAIN s.stack = 1..n
        /\ top \in Ids(ts) /\ s.state[top] = 1
        /\ deps \in Seq(Ids(ts)) /\ top \notin ToSet(deps)
        /\ s.next[top] \in 1..(Len(deps) + 1)
    BY <1>1, <1>2, <1>5, OnTop
  <2>2. top = s.stack[Len(s.stack)] /\ deps = DepsOf(ts, top)
    OBVIOUS
  <2> HIDE DEF top, deps, n
  <2>3. CASE s.next[top] > Len(deps)
    <3>1. t = Leave(s)
      BY <1>3, <1>5, <2>3
    <3>2. /\ t \in SearchState(ts) /\ t.state = [s.state EXCEPT ![top] = 2] /\ t.next = s.next
          /\ t.stack = SubSeq(s.stack, 1, Len(s.stack) - 1) /\ t.cycle = <<>>
      <4>1. s \in SearchState(ts) /\ s.cycle = <<>>
        BY <1>1
      <4>2. /\ t \in SearchState(ts) /\ t.state = [s.state EXCEPT ![top] = 2] /\ t.next = s.next
            /\ t.stack = SubSeq(s.stack, 1, Len(s.stack) - 1) /\ t.cycle = s.cycle
        <5>1. top \in Ids(ts) /\ top = s.stack[Len(s.stack)]
          BY <2>1, <2>2
        <5> QED
          BY <1>5, <3>1, <4>1, <5>1, LeaveMeans
      <4> QED
        BY <4>1, <4>2
    <3>3. SearchInv(ts, t)
      <4>1. s.cycle = <<>> /\ s.next[top] > Len(DepsOf(ts, top))
        BY <1>1, <2>2, <2>3
      <4> QED
        BY <1>2, <1>5, <2>2, <3>2, <4>1, LeaveKeeps, Zenon
    <3>4. \A id \in Ids(ts) : t.state[id] = IF id = top THEN 2 ELSE s.state[id]
      BY <1>1, <3>2
    <3>5. Advances(ts, s, t)
      <4>1. \A id \in Ids(ts) : /\ s.state[id] # 0 => t.state[id] # 0
                                /\ s.state[id] = 2 => t.state[id] = 2
                                /\ s.next[id] <= t.next[id]
        BY <1>1, <3>2, <3>4
      <4> DEFINE j == Len(deps) + 1
      <4>2. t.state[top] = 2 /\ ~(j < s.next[top])
        BY <2>1, <3>4
      <4>3. j \in 0..(Len(DepsOf(ts, top)) + 1)
        BY <2>1, <2>2
      <4> HIDE DEF j
      <4>4. t.state[top] # 0 /\ s.state[top] # 2
        BY <2>1, <4>2
      <4> QED
        BY <1>1, <2>1, <3>2, <4>1, <4>2, <4>3, <4>4, Advancing
    <3> QED
      BY <3>3, <3>5 DEF t
  <2>4. CASE ~(s.next[top] > Len(deps))
    <3> DEFINE d == deps[s.next[top]]
    <3>1. s.next[top] \in 1..Len(deps) /\ s.next[top] <= Len(deps)
      BY <2>1, <2>4
    <3>2. d \in Ids(ts) /\ d \in ToSet(deps) /\ d # top
      BY <2>1, <3>1 DEF ToSet
    <3>3. t = Follow(s, d)
      BY <1>3, <1>5, <2>4
    <3>4. d = DepsOf(ts, top)[s.next[top]]
      BY <2>2
    <3> HIDE DEF d
    <3>5. s.state[d] = 1 => \E i \in DOMAIN s.stack : s.stack[i] = d
      BY <1>1, <2>1, <3>2 DEF Stacked, n
    <3>6. /\ t \in SearchState(ts) /\ t.next = [s.next EXCEPT ![top] = @ + 1]
          /\ \/ s.state[d] = 0 /\ Enters(s, t, d)
             \/ /\ s.state[d] = 1 /\ t.state = s.state
                /\ \E start \in DOMAIN s.stack : s.stack[start] = d /\ t.cycle = Closing(s.stack, start)
             \/ s.state[d] = 2 /\ t.state = s.state /\ t.stack = s.stack /\ t.cycle = <<>>
      <4>1. s \in SearchState(ts) /\ s.cycle = <<>> /\ d \in Ids(ts)
        BY <1>1, <3>2
      <4> QED
        <5>1. top \in Ids(ts) /\ top = s.stack[Len(s.stack)]
          BY <2>1, <2>2
        <5> QED
          BY <3>3, <3>5, <4>1, <5>1, FollowMeans
    <3>7. \A id \in Ids(ts) : t.next[id] = IF id = top THEN s.next[id] + 1 ELSE s.next[id]
      BY <1>1, <3>6
    <3>8. \A id \in Ids(ts) : s.state[id] # 0 => t.state[id] = s.state[id]
      BY <1>1, <3>2, <3>6 DEF Enters
    <3>9. Advances(ts, s, t)
      <4>1. \A id \in Ids(ts) : /\ s.state[id] # 0 => t.state[id] # 0
                                /\ s.state[id] = 2 => t.state[id] = 2
                                /\ s.next[id] <= t.next[id]
        <5>1. \A id \in Ids(ts) : s.next[id] \in Nat
          BY <1>1
        <5> QED
          BY <3>7, <3>8, <5>1
      <4>2. /\ t.state[top] # 0 /\ s.next[top] \in 0..(Len(deps) + 1) /\ s.next[top] < t.next[top]
            /\ ~(s.next[top] < s.next[top]) /\ s.state[top] # 2
        BY <2>1, <3>1, <3>7, <3>8
      <4> QED
        BY <1>1, <2>1, <2>2, <3>6, <4>1, <4>2, Advancing
    <3>10. SearchInv(ts, t)
      <4>1. CASE s.state[d] = 0 /\ Enters(s, t, d)
        <5>1. t.state = [s.state EXCEPT ![d] = 1] /\ t.stack = Append(s.stack, d) /\ t.cycle = <<>>
          BY <4>1 DEF Enters
        <5>2. Called(ts, s, t, d)
          BY <1>5, <2>2, <3>1, <3>4, <3>6 DEF Called
        <5>3. t \in SearchState(ts) /\ s.cycle = <<>> /\ d \in Ids(ts) /\ s.state[d] = 0
          BY <1>1, <3>2, <3>6, <4>1
        <5> QED
          BY <1>2, <5>1, <5>2, <5>3, EnterKeeps, Zenon
      <4>2. ASSUME NEW start \in DOMAIN s.stack, s.stack[start] = d, t.cycle = Closing(s.stack, start)
            PROVE  SearchInv(ts, t)
        BY <1>1, <1>2, <1>5, <2>2, <3>2, <3>6, <4>2, CloseKeeps
      <4>3. CASE s.state[d] = 2 /\ t.state = s.state /\ t.stack = s.stack /\ t.cycle = <<>>
        BY <1>1, <1>2, <1>5, <2>2, <3>1, <3>4, <3>6, <4>3, PassKeeps
      <4> QED
        BY <3>6, <4>1, <4>2, <4>3
    <3> QED
      BY <3>9, <3>10 DEF t
  <2> QED
    BY <2>3, <2>4
<1> QED
  BY <1>4, <1>5

\* g is what the search holds before the first of n moves and after each.
Searches(g, n, ts) == g = [i \in 0..n |-> IF i = 0 THEN Started(ts) ELSE Search(ts, g[i - 1])]

\* There is such a g, so Searching is one.
LEMMA SearchingExists ==
  ASSUME NEW ts, NEW N \in Nat
  PROVE  \E g : Searches(g, N, ts)
<1> DEFINE Reached == {n \in 0..N : \E g : Searches(g, n, ts)}
<1>1. 0 \in Reached
  <2>1. Searches([i \in 0..0 |-> Started(ts)], 0, ts)
    BY DEF Searches
  <2> QED
    BY <2>1
<1>2. ASSUME NEW m \in 1..N, m - 1 \in Reached PROVE m \in Reached
  <2>1. PICK g : Searches(g, m - 1, ts)
    BY <1>2
  <2> DEFINE h == [i \in 0..m |-> IF i < m THEN g[i] ELSE Search(ts, g[m - 1])]
  <2>2. ASSUME NEW i \in 0..m
        PROVE  h[i] = IF i = 0 THEN Started(ts) ELSE Search(ts, h[i - 1])
    BY <2>1 DEF Searches
  <2>3. Searches(h, m, ts)
    BY <2>2 DEF Searches
  <2> QED
    BY <2>3
<1> HIDE DEF Reached
<1>3. \A m \in 1..N : m - 1 \in Reached => m \in Reached
  BY <1>2
<1>4. \A m \in 0..N : m \in Reached
  BY <1>1, <1>3, UpTo, Zenon
<1>5. N \in Reached
  BY <1>4
<1> QED
  BY <1>5 DEF Reached

\* What Searching holds, move by move.
LEMMA SearchingAt ==
  ASSUME NEW ts, NEW N \in Nat
  PROVE  /\ Searching(ts, N)[0] = Started(ts)
         /\ \A n \in 1..N : Searching(ts, N)[n] = Search(ts, Searching(ts, N)[n - 1])
<1>1. \E g : Searches(g, N, ts)
  BY SearchingExists
<1>2. Searches(Searching(ts, N), N, ts)
  BY <1>1 DEF Searches, Searching
<1> DEFINE P == Searching(ts, N)
<1>3. P = [i \in 0..N |-> IF i = 0 THEN Started(ts) ELSE Search(ts, P[i - 1])]
  BY <1>2, Zenon DEF Searches
<1> HIDE DEF P
<1>4. P[0] = Started(ts) /\ \A n \in 1..N : P[n] = Search(ts, P[n - 1])
  BY <1>3
<1> QED
  BY <1>4 DEF P

\* When every move is made, every task is left.
LEMMA MadeEnds ==
  ASSUME NEW Name, NEW Tool, NEW ts \in Seq(TaskOf(Name, Tool)), SoundIds(ts),
         NEW s, SearchInv(ts, s), Made(ts, s) = Moves(ts)
  PROVE  SearchOver(ts, s)
<1>1. /\ s \in SearchState(ts) /\ s.stack \in Seq(Ids(ts))
      /\ s.cycle = <<>> => Looping(ts, s) /\ Stacked(ts, s)
  BY DEF SearchInv, SearchState
<1>2. \A id : \A i : <<id, i>> \in Moves(ts) <=> id \in Ids(ts) /\ i \in 0..(Len(DepsOf(ts, id)) + 1)
  BY GraphFacts
<1>3. Graph(ts)
  BY GraphFacts
<1>4. ASSUME s.cycle = <<>>, NEW id \in Ids(ts) PROVE s.state[id] = 2
  <2> DEFINE l == Len(DepsOf(ts, id)) + 1
  <2>1. l \in Nat /\ s.next[id] \in 1..l
    BY <1>1, <1>3, <1>4 DEF Graph, Looping
  <2>2. l \in 0..(Len(DepsOf(ts, id)) + 1)
    BY <2>1
  <2> HIDE DEF l
  <2>3. <<id, l>> \in Moves(ts)
    BY <1>2, <2>2
  <2>4. <<id, l>> \in Made(ts, s)
    BY <2>3
  <2>5. l < s.next[id] \/ s.state[id] = 2
    BY <2>4 DEF Made
  <2> QED
    BY <2>1, <2>5
<1>5. ASSUME s.cycle = <<>> PROVE s.stack = <<>> /\ Unseen(ts, s) = {}
  <2>1. Unseen(ts, s) = {}
    BY <1>4, <1>5 DEF Unseen, Ids
  <2>2. ASSUME s.stack # <<>> PROVE FALSE
    <3>1. LET top == s.stack[Len(s.stack)] IN top \in Ids(ts) /\ s.state[top] = 1
      BY <1>3, <1>5, <2>2, OnTop
    <3> QED
      BY <1>4, <1>5, <3>1
  <2> QED
    BY <2>1, <2>2
<1> QED
  BY <1>5 DEF SearchOver

\* The search is over after as many moves as there are.
LEMMA SearchEnds ==
  ASSUME NEW Name, NEW Tool, NEW ts \in Seq(TaskOf(Name, Tool)), SoundIds(ts),
         NEW N, N = Cardinality(Moves(ts)), NEW P, P = Searching(ts, N)
  PROVE  SearchInv(ts, P[N]) /\ SearchOver(ts, P[N])
<1> DEFINE Far(k) == SearchOver(ts, P[k]) \/ Cardinality(Made(ts, P[k])) >= k
           S == {k \in 0..N : SearchInv(ts, P[k]) /\ Far(k)}
<1>1. IsFiniteSet(Moves(ts)) /\ Graph(ts)
  BY GraphFacts
<1>2. N \in Nat
  BY <1>1, FS_CardinalityType
<1>3. P[0] = Started(ts) /\ \A k \in 1..N : P[k] = Search(ts, P[k - 1])
  BY <1>2, SearchingAt
<1>4. \A s : Made(ts, s) \in SUBSET Moves(ts) /\ IsFiniteSet(Made(ts, s)) /\ Cardinality(Made(ts, s)) \in Nat
             /\ (Cardinality(Made(ts, s)) >= N => Made(ts, s) = Moves(ts))
  <2> TAKE s
  <2>1. Made(ts, s) \in SUBSET Moves(ts)
    BY DEF Made
  <2> QED
    BY <1>1, <1>2, <2>1, FS_Subset, FS_CardinalityType
<1>5. 0 \in S
  <2>1. SearchInv(ts, P[0])
    BY <1>1, <1>3, SearchBegins
  <2>2. Far(0)
    BY <1>4
  <2> QED
    BY <1>2, <2>1, <2>2
<1>6. ASSUME NEW k \in 1..N, k - 1 \in S PROVE k \in S
  <2> DEFINE s == P[k - 1]
             t == P[k]
  <2>1. t = Search(ts, s) /\ SearchInv(ts, s) /\ Far(k - 1)
    BY <1>3, <1>6
  <2>2. CASE SearchOver(ts, s)
    <3>1. t = s
      BY <2>1, <2>2 DEF Search
    <3>2. SearchInv(ts, t) /\ SearchOver(ts, t)
      BY <2>1, <2>2, <3>1
    <3> QED
      BY <1>2, <3>2
  <2>3. CASE ~SearchOver(ts, s)
    <3>1. SearchInv(ts, t) /\ Advances(ts, s, t)
      BY <2>1, <2>3, SearchSteps
    <3>2. Cardinality(Made(ts, s)) >= k - 1
      BY <2>1, <2>3
    <3>3. Made(ts, s) \in SUBSET Made(ts, t) /\ Made(ts, s) # Made(ts, t)
      BY <3>1 DEF Advances
    <3> HIDE DEF s, t
    <3>4. IsFiniteSet(Made(ts, t))
      BY <1>4
    <3>5. Cardinality(Made(ts, s)) <= Cardinality(Made(ts, t)) /\ Cardinality(Made(ts, s)) # Cardinality(Made(ts, t))
      BY <3>3, <3>4, FS_Subset
    <3>6. Cardinality(Made(ts, t)) >= k
      <4>1. Cardinality(Made(ts, s)) \in Nat /\ Cardinality(Made(ts, t)) \in Nat
        BY <1>4
      <4> QED
        BY <1>2, <3>2, <3>5, <4>1
    <3>7. Far(k)
      BY <3>6 DEF t
    <3>8. SearchInv(ts, P[k])
      BY <3>1 DEF t
    <3>9. k \in 0..N
      BY <1>2
    <3> HIDE DEF Far
    <3> QED
      BY <3>7, <3>8, <3>9
  <2> QED
    BY <2>2, <2>3
<1> HIDE DEF S
<1>7. N \in S
  <2>1. \A m \in 1..N : m - 1 \in S => m \in S
    BY <1>6
  <2>2. \A m \in 0..N : m \in S
    BY <1>2, <1>5, <2>1, UpTo, Zenon
  <2> QED
    BY <1>2, <2>2
<1>8. SearchInv(ts, P[N]) /\ (SearchOver(ts, P[N]) \/ Made(ts, P[N]) = Moves(ts))
  BY <1>4, <1>7 DEF S
<1> QED
  BY <1>8, MadeEnds

\* The search reports a cycle, or has left every task behind what it depends on.
LEMMA CycleFound ==
  ASSUME NEW Name, NEW Tool, NEW ts \in Seq(TaskOf(Name, Tool)), SoundIds(ts)
  PROVE  /\ FindCycle(ts) # <<>> => CycleSound(ts, FindCycle(ts))
         /\ FindCycle(ts) = <<>> => \E r \in [Ids(ts) -> Nat] :
              \A id \in Ids(ts) : \A k \in 1..Len(DepsOf(ts, id)) : r[DepsOf(ts, id)[k]] < r[id]
<1> DEFINE s == Searching(ts, Cardinality(Moves(ts)))[Cardinality(Moves(ts))]
<1>1. SearchInv(ts, s) /\ SearchOver(ts, s)
  BY SearchEnds
<1>2. FindCycle(ts) = s.cycle
  BY DEF FindCycle
<1> HIDE DEF s
<1>3. ASSUME s.cycle = <<>>
      PROVE  \E r \in [Ids(ts) -> Nat] :
              \A id \in Ids(ts) : \A k \in 1..Len(DepsOf(ts, id)) : r[DepsOf(ts, id)[k]] < r[id]
  <2>1. /\ s.state \in [Ids(ts) -> 0..2] /\ Stacked(ts, s) /\ Finished(ts, s)
        /\ s.stack = <<>> /\ Unseen(ts, s) = {}
    BY <1>1, <1>3 DEF SearchInv, SearchState, SearchOver
  <2>2. \A id \in Ids(ts) : s.state[id] # 1
    BY <2>1 DEF Stacked
  <2>3. \A id \in Ids(ts) : s.state[id] # 0
    BY <2>1 DEF Unseen, Ids
  <2>4. \A id \in Ids(ts) : s.state[id] = 2
    BY <2>1, <2>2, <2>3
  <2>5. PICK r \in [Ids(ts) -> Nat], b \in Nat : LeftBehind(ts, s, r, b)
    BY <2>1 DEF Finished
  <2> QED
    BY <2>4, <2>5 DEF LeftBehind
<1> QED
  BY <1>1, <1>2, <1>3 DEF SearchInv

\* Along a cycle nothing can rank ever lower.
LEMMA CycleUnranked ==
  ASSUME NEW ts, NEW c, CycleSound(ts, c), NEW r \in [Ids(ts) -> Nat],
         \A id \in Ids(ts) : \A d \in ToSet(DepsOf(ts, id)) : r[d] < r[id]
  PROVE  FALSE
<1> DEFINE n == Len(c) - 1
           S == {m \in 0..n : m = 0 \/ r[c[m + 1]] < r[c[1]]}
<1>1. /\ c \in Seq(Ids(ts)) /\ Len(c) > 2 /\ c[1] = c[Len(c)]
      /\ \A i \in 1..(Len(c) - 1) : c[i + 1] \in ToSet(DepsOf(ts, c[i]))
  BY DEF CycleSound, Last
<1>2. n \in Nat /\ n > 1 /\ n + 1 = Len(c) /\ \A m \in 0..n : c[m + 1] \in Ids(ts) /\ r[c[m + 1]] \in Nat
  BY <1>1
<1>3. 0 \in S
  BY <1>2
<1>4. ASSUME NEW m \in 1..n, m - 1 \in S PROVE m \in S
  <2>1. m \in 1..(Len(c) - 1) /\ m - 1 \in 0..n /\ m \in 0..n /\ (m - 1) + 1 = m
    BY <1>2
  <2>2. c[m] \in Ids(ts) /\ r[c[m]] \in Nat /\ r[c[m + 1]] \in Nat /\ r[c[1]] \in Nat
    BY <1>1, <1>2, <2>1
  <2>3. r[c[m + 1]] < r[c[m]]
    BY <1>1, <2>1, <2>2
  <2>4. m - 1 = 0 \/ r[c[m]] < r[c[1]]
    BY <1>4, <2>1
  <2>5. m - 1 = 0 => m = 1
    BY <2>1
  <2>6. r[c[m + 1]] < r[c[1]]
    BY <2>2, <2>3, <2>4, <2>5
  <2> QED
    BY <2>1, <2>6
<1> HIDE DEF S
<1>5. n \in S
  <2>1. \A m \in 1..n : m - 1 \in S => m \in S
    BY <1>4
  <2> HIDE DEF n
  <2>2. \A m \in 0..n : m \in S
    BY <1>2, <1>3, <2>1, UpTo, Zenon
  <2> QED
    BY <1>2, <2>2
<1>6. r[c[n + 1]] < r[c[1]] /\ r[c[1]] \in Nat
  BY <1>1, <1>2, <1>5 DEF S
<1> QED
  BY <1>1, <1>2, <1>6

--------------------------------------------------------------------------------
(* The validation and its reference.                                            *)

\* What depends on what, by position and by name.
LEMMA DependsMeans ==
  ASSUME NEW Name, NEW Tool, NEW ts \in Seq(TaskOf(Name, Tool)), SoundIds(ts)
  PROVE  /\ \A q \in DOMAIN ts : DependsOn(ts)[ts[q].id] = ToSet(ts[q].deps)
         /\ \A id \in Ids(ts) : DependsOn(ts)[id] = ToSet(DepsOf(ts, id))
<1>1. \A q \in DOMAIN ts : DependsOn(ts)[ts[q].id] = ToSet(ts[q].deps)
  <2> TAKE q \in DOMAIN ts
  <2>1. {k \in DOMAIN ts : ts[k].id = ts[q].id} = {q}
    BY DEF SoundIds
  <2>2. DependsOn(ts)[ts[q].id] = UNION {ToSet(ts[i].deps) : i \in {k \in DOMAIN ts : ts[k].id = ts[q].id}}
    BY DEF DependsOn, Ids
  <2> QED
    BY <2>1, <2>2
<1>2. \A q \in DOMAIN ts : DepsOf(ts, ts[q].id) = ts[q].deps
  BY GraphFacts
<1>3. \A id \in Ids(ts) : \E q \in DOMAIN ts : ts[q].id = id
  BY DEF Ids
<1> QED
  BY <1>1, <1>2, <1>3

\* A topological order ranks its tasks by their position in it.
LEMMA OrderRanks ==
  ASSUME NEW Name, NEW Tool, NEW ts \in Seq(TaskOf(Name, Tool)), SoundIds(ts),
         NEW o \in TopologicalOrders(ts)
  PROVE  \E rank \in [Ids(ts) -> Nat] : Ranks(ts, rank)
<1> DEFINE N == Len(ts)
           rank == [id \in Ids(ts) |-> CHOOSE i \in 1..N : ts[o[i]].id = id]
<1>0. N \in Nat /\ DOMAIN ts = 1..N /\ 1 \in Int /\ N \in Int /\ (1 > N => N = 0) /\ N - 1 + 1 = N
  OBVIOUS
<1> HIDE DEF N
<1>1. IsFiniteSet(1..N) /\ Cardinality(1..N) = N
  BY <1>0, FS_Interval
<1>2. /\ o \in [1..N -> 1..N] /\ \A i, j \in 1..N : i # j => o[i] # o[j]
      /\ \A i \in 1..N : ToSet(ts[o[i]].deps) \subseteq {ts[o[j]].id : j \in 1..(i - 1)}
  BY <1>0, <1>1 DEF TopologicalOrders, SetToSeqs
<1>3. \A q \in 1..N : \E i \in 1..N : o[i] = q
  <2>1. o \in Seq(1..N) /\ Len(o) = N
    BY <1>0, <1>2
  <2>2. IsInjective(o)
    BY <1>2 DEF IsInjective
  <2>3. ToSet(o) \in SUBSET (1..N) /\ Cardinality(ToSet(o)) = N
    BY <2>1, <2>2, LineSize
  <2>4. ToSet(o) = 1..N
    BY <1>1, <2>3, FS_Subset
  <2> QED
    BY <1>2, <2>4 DEF ToSet
<1>4. \A id \in Ids(ts) : rank[id] \in 1..N /\ ts[o[rank[id]]].id = id
  <2> TAKE id \in Ids(ts)
  <2>1. \E i \in 1..N : ts[o[i]].id = id
    BY <1>0, <1>3 DEF Ids
  <2>2. rank[id] = CHOOSE i \in 1..N : ts[o[i]].id = id
    OBVIOUS
  <2> QED
    BY <2>1, <2>2
<1>5. rank \in [Ids(ts) -> Nat]
  <2>1. \A id \in Ids(ts) : rank[id] \in Nat
    BY <1>0, <1>4
  <2>2. rank = [id \in Ids(ts) |-> rank[id]]
    OBVIOUS
  <2> HIDE DEF rank
  <2> QED
    BY <2>1, <2>2
<1> HIDE DEF rank
<1>6. ASSUME NEW id \in Ids(ts), NEW d \in DependsOn(ts)[id] PROVE rank[d] < rank[id]
  <2> DEFINE i == rank[id]
             q == o[i]
  <2>1. i \in 1..N /\ q \in 1..N /\ ts[q].id = id
    BY <1>2, <1>4
  <2> HIDE DEF i
  <2>2. d \in ToSet(ts[q].deps)
    BY <1>0, <1>6, <2>1, DependsMeans
  <2>3. PICK j \in 1..(i - 1) : d = ts[o[j]].id
    BY <1>2, <2>1, <2>2
  <2>4. j \in 1..N /\ o[j] \in 1..N
    BY <1>0, <1>2, <2>1
  <2>5. d \in Ids(ts)
    BY <1>0, <2>3, <2>4 DEF Ids
  <2>6. rank[d] \in 1..N /\ ts[o[rank[d]]].id = ts[o[j]].id /\ o[rank[d]] \in 1..N
    BY <1>2, <1>4, <2>3, <2>5
  <2>7. o[rank[d]] = o[j]
    BY <1>0, <2>4, <2>6 DEF SoundIds
  <2>8. rank[d] = j
    BY <1>2, <2>4, <2>6, <2>7
  <2> QED
    BY <2>1, <2>3, <2>8 DEF i
<1>7. Ranks(ts, rank)
  BY <1>6 DEF Ranks
<1> QED
  BY <1>5, <1>7

\* What an accepted workflow has of each of its tasks.
LEMMA TasksChecked ==
  ASSUME NEW Name, NEW Tool, NEW ts \in Seq(TaskOf(Name, Tool)), NEW slots,
         WorkflowError(ts, slots) = "none", NEW i \in DOMAIN ts, ts[i].tools # <<>>
  PROVE  ts[i].perTurn <= ts[i].toolCalls
<1> DEFINE broken == {k \in DOMAIN ts : TaskError(ts[k]) # "none"}
<1>1. broken = {}
  <2> SUFFICES ASSUME broken # {} PROVE FALSE
    OBVIOUS
  <2>1. Min(broken) \in broken
    <3>1. broken \in SUBSET Nat
      OBVIOUS
    <3> HIDE DEF broken
    <3> QED
      BY <3>1, LeastNat DEF Min
  <2>2. WorkflowError(ts, slots) = TaskError(ts[Min(broken)])
    BY DEF WorkflowError
  <2> QED
    BY <2>1, <2>2
<1>2. TaskError(ts[i]) = "none"
  BY <1>1
<1>3. BudgetsFit(ts[i])
  BY <1>2 DEF TaskError
<1>4. ts[i].toolCalls \in Int
  <2>1. ts[i] \in TaskOf(Name, Tool)
    OBVIOUS
  <2> QED
    BY <2>1 DEF TaskOf
<1> QED
  BY <1>3, <1>4 DEF BudgetsFit

\* The validation of one workflow agrees with the reference.
LEMMA WorkflowIsSound ==
  ASSUME NEW Name, NEW Tool, NEW ts \in Seq(TaskOf(Name, Tool)), NEW slots \in Int
  PROVE  WorkflowSound(ts, slots)
<1> DEFINE error == WorkflowError(ts, slots)
           order == StableTopologicalIds(ts)
           cycle == FindCycle(ts)
           First == \E o \in TopologicalOrders(ts) :
                      /\ order = [i \in DOMAIN o |-> ts[o[i]].id]
                      /\ \A q \in TopologicalOrders(ts) : q = o \/ Earlier(o, q)
           Fits == \A i \in DOMAIN ts : ts[i].tools # <<>> => ts[i].perTurn <= ts[i].toolCalls
           Cyclic == /\ Len(cycle) > 2 /\ Head(cycle) = Last(cycle)
                     /\ IsInjective(Front(cycle))
                     /\ \A i \in 1..(Len(cycle) - 1) : cycle[i + 1] \in ToSet(DepsOf(ts, cycle[i]))
<1>1. ASSUME error = "none" PROVE First /\ Schedulable(ts) /\ cycle = <<>> /\ Fits
  <2>1. SoundIds(ts) /\ Len(order) = Len(ts)
    BY <1>1, Checked
  <2>2. Schedulable(ts)
    BY <1>1, ValidatedIsSchedulable
  <2>3. First
    BY <2>1, Ordered
  <2>4. Fits
    BY <1>1, TasksChecked
  <2>5. cycle = <<>>
    <3> SUFFICES ASSUME cycle # <<>> PROVE FALSE
      OBVIOUS
    <3>1. CycleSound(ts, cycle)
      BY <2>1, CycleFound
    <3> DEFINE r == Place(ts)
    <3>2. r \in [Ids(ts) -> Nat] /\ Ranks(ts, r)
      BY <2>2 DEF Schedulable
    <3> HIDE DEF r, cycle
    <3>3. \A id \in Ids(ts) : DependsOn(ts)[id] = ToSet(DepsOf(ts, id))
      BY <2>1, DependsMeans
    <3>4. \A id \in Ids(ts) : \A d \in ToSet(DepsOf(ts, id)) : r[d] < r[id]
      BY <3>2, <3>3 DEF Ranks
    <3> QED
      BY <3>1, <3>2, <3>4, CycleUnranked
  <2> HIDE DEF First, cycle, Fits
  <2> QED
    BY <2>2, <2>3, <2>4, <2>5
<1>2. ASSUME error = "dependency_cycle", \A i \in DOMAIN ts : TaskError(ts[i]) = "none"
      PROVE  TopologicalOrders(ts) = {} /\ Cyclic
  <2>1. SoundIds(ts)
    <3>1. \A i \in DOMAIN ts : ts[i].id \notin ToSet(ts[i].deps)
      BY <1>2 DEF TaskError
    <3> QED
      BY <1>2, <3>1, Checked
  <2>2. \A r \in [Ids(ts) -> Nat] : ~Ranks(ts, r)
    BY <1>2, RefusedIsCyclic
  <2>3. TopologicalOrders(ts) = {}
    BY <2>1, <2>2, OrderRanks
  <2>4. cycle # <<>>
    <3> SUFFICES ASSUME cycle = <<>> PROVE FALSE
      OBVIOUS
    <3>1. PICK r \in [Ids(ts) -> Nat] :
            \A id \in Ids(ts) : \A k \in 1..Len(DepsOf(ts, id)) : r[DepsOf(ts, id)[k]] < r[id]
      BY <2>1, CycleFound
    <3>2. \A id \in Ids(ts) : DependsOn(ts)[id] = ToSet(DepsOf(ts, id)) /\ DepsOf(ts, id) \in Seq(Ids(ts))
      <4>1. Graph(ts)
        BY <2>1, GraphFacts
      <4> QED
        BY <2>1, <4>1, DependsMeans DEF Graph
    <3>3. \A id \in Ids(ts) : \A d \in DependsOn(ts)[id] : r[d] < r[id]
      BY <3>1, <3>2 DEF ToSet
    <3> QED
      BY <2>2, <3>3 DEF Ranks
  <2>5. CycleSound(ts, cycle)
    BY <2>1, <2>4, CycleFound
  <2> HIDE DEF cycle
  <2> QED
    BY <2>3, <2>5 DEF CycleSound
<1>3. WorkflowSound(ts, slots) <=>
        /\ error = "none" => First /\ Schedulable(ts) /\ cycle = <<>> /\ Fits
        /\ error = "dependency_cycle" /\ (\A i \in DOMAIN ts : TaskError(ts[i]) = "none") =>
             TopologicalOrders(ts) = {} /\ Cyclic
  BY DEF WorkflowSound
<1> HIDE DEF error, First, cycle, Fits, Cyclic
<1> QED
  BY <1>1, <1>2, <1>3

\* A workflow as it is put to the validation: tasks with the fields it reads, and
\* a number of slots.
WorkflowsAsked(Name, Tool) == subject.kind = "workflow" =>
  subject.input[1] \in Seq(TaskOf(Name, Tool)) /\ subject.input[2] \in Int

\* dag.py, for every workflow whatever its size, its names and its budgets: what is
\* accepted has a topological order, and the runtime schedules by the first of all,
\* position by position; its tasks can spend a whole batch; and what is refused as
\* cyclic, its tasks sound, has none, and the cycle reported for it is one.
THEOREM WorkflowsStaySound ==
  ASSUME NEW Name, NEW Tool
  PROVE  WorkflowsAsked(Name, Tool) /\ Evaluating => []WorkflowsSound
<1>1. WorkflowsAsked(Name, Tool) => WorkflowsSound
  BY WorkflowIsSound DEF WorkflowsAsked, WorkflowsSound, Is
<1>2. WorkflowsAsked(Name, Tool) /\ [Evaluate]_<<subject, evaluated>> => WorkflowsAsked(Name, Tool)'
  BY DEF WorkflowsAsked, Evaluate
<1> QED
  BY <1>1, <1>2, PTL DEF Evaluating
================================================================================
