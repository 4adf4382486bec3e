-------------------------------- MODULE Workflow -------------------------------
(***************************************************************************)
(* The validation of a fixed workflow (dag.py): TaskDefinition and         *)
(* WorkflowDefinition check their fields in order and raise at the first   *)
(* one that fails; the definitions that pass are ordered topologically, by *)
(* position in the definition where the dependencies leave a choice.       *)
(*                                                                         *)
(* A task is a record [id, deps, tools, turns, toolCalls, perTurn, repair];*)
(* names, prompt keys and output schemas are text and left out.            *)
(***************************************************************************)
EXTENDS Integers, Sequences, SequencesExt, FiniteSetsExt

MaxTasks        == 256
MaxDependencies == 64
MaxAllowedTools == 32
MaxActiveSlots  == 8
MaxTurnBudget   == 16
MaxCallBudget   == 64
MaxBatchBudget  == 8
MaxRepairBudget == 1

Ids(ts)   == {ts[i].id : i \in DOMAIN ts}
Repeats(s) == ~IsInjective(s)

--------------------------------------------------------------------------------
(* TaskDefinition.__post_init__ and WorkflowDefinition.__post_init__.           *)

BudgetsBounded(t) ==
  /\ t.turns \in 1..MaxTurnBudget
  /\ t.toolCalls \in 0..MaxCallBudget
  /\ t.perTurn \in 1..MaxBatchBudget
  /\ t.repair \in 0..MaxRepairBudget

\* A task without any call budget may keep the default batch size.
BudgetsFit(t) ==
  /\ t.toolCalls # 0 => t.perTurn <= t.toolCalls
  /\ t.tools # <<>> => t.toolCalls > 0

TaskError(t) ==
  IF Len(t.deps) > MaxDependencies \/ Len(t.tools) > MaxAllowedTools THEN "invalid_field"
  ELSE IF t.id \in ToSet(t.deps) THEN "dependency_cycle"
  ELSE IF Repeats(t.deps) \/ Repeats(t.tools) \/ ~BudgetsBounded(t) \/ ~BudgetsFit(t)
    THEN "invalid_field"
    ELSE "none"

\* Kahn's algorithm with a heap of positions: ready holds the positions whose
\* tasks have no unordered dependency left, missing counts those they have.
Begun(ts) ==
  LET indegree == [p \in DOMAIN ts |-> Len(ts[p].deps)]
  IN  [ready |-> {p \in DOMAIN ts : indegree[p] = 0}, missing |-> indegree, ordered |-> <<>>]

\* Mutant: a queue of whole layers in place of the heap.
Pop_Layers(ts, s) ==
  LET layer == SetToSortSeq(s.ready, LAMBDA a, b : a < b)
      ids   == {ts[p].id : p \in s.ready}
      fewer == [q \in DOMAIN ts |-> s.missing[q] - Cardinality(ids \cap ToSet(ts[q].deps))]
      freed == {q \in DOMAIN ts : s.missing[q] > 0 /\ fewer[q] = 0}
  IN  [ready |-> freed, missing |-> fewer, ordered |-> s.ordered \o [i \in DOMAIN layer |-> ts[layer[i]].id]]

Pop(ts, s) ==
  IF s.ready = {} THEN s
  ELSE LET p       == Min(s.ready)
           dependents == {q \in DOMAIN ts : ts[p].id \in ToSet(ts[q].deps)}
           fewer   == [q \in DOMAIN ts |-> IF q \in dependents THEN s.missing[q] - 1 ELSE s.missing[q]]
       IN  [ready   |-> (s.ready \ {p}) \cup {q \in dependents : fewer[q] = 0},
            missing |-> fewer,
            ordered |-> Append(s.ordered, ts[p].id)]

\* The heap is empty after at most as many pops as there are tasks.
Popping(ts) ==
  LET s[n \in 0..Len(ts)] == IF n = 0 THEN Begun(ts) ELSE Pop(ts, s[n - 1])
  IN  s

StableTopologicalIds(ts) == Popping(ts)[Len(ts)].ordered

WorkflowError(ts, slots) ==
  LET broken == {i \in DOMAIN ts : TaskError(ts[i]) # "none"}
  IN  IF broken # {} THEN TaskError(ts[Min(broken)])
      ELSE IF Len(ts) \notin 1..MaxTasks \/ slots \notin 1..MaxActiveSlots THEN "invalid_field"
      ELSE IF Repeats([i \in DOMAIN ts |-> ts[i].id]) THEN "duplicate_task"
      ELSE IF \E i \in DOMAIN ts : ~(ToSet(ts[i].deps) \subseteq Ids(ts)) THEN "unknown_dependency"
      ELSE IF Len(StableTopologicalIds(ts)) # Len(ts) THEN "dependency_cycle"
      ELSE "none"

--------------------------------------------------------------------------------
(* What the runtime reads off an accepted workflow, and what it relies on.      *)

DependsOn(ts) == [id \in Ids(ts) |-> UNION {ToSet(ts[i].deps) : i \in {k \in DOMAIN ts : ts[k].id = id}}]

\* The position in topological_tasks.
Place(ts) ==
  LET order == StableTopologicalIds(ts)
  IN  [id \in Ids(ts) |-> CHOOSE i \in DOMAIN order : order[i] = id]

\* rank places every task behind its dependencies.
Ranks(ts, rank) == \A id \in Ids(ts) : \A d \in DependsOn(ts)[id] : rank[d] < rank[id]

\* What DagScheduler and SerialDag assume of their workflow.
Schedulable(ts) ==
  /\ IsFiniteSet(Ids(ts))
  /\ DependsOn(ts) \in [Ids(ts) -> SUBSET Ids(ts)]
  /\ Place(ts) \in [Ids(ts) -> Nat \ {0}]
  /\ \A a, b \in Ids(ts) : Place(ts)[a] = Place(ts)[b] => a = b
  /\ Ranks(ts, Place(ts))
================================================================================
