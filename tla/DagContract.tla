------------------------------ MODULE DagContract ------------------------------
(***************************************************************************)
(* What a fixed-DAG run promises to whoever reads its journal, however the *)
(* tasks are scheduled: the projected status of every task, and the status *)
(* of the run.  A task starts once, after all its dependencies settled, in *)
(* a free slot and while its agent does nothing else; it is skipped only   *)
(* because a dependency went bad; a result that rests on anything less     *)
(* than complete dependencies is partial; the run completes only over a    *)
(* fully settled workflow without a bad required task.                     *)
(***************************************************************************)
EXTENDS Naturals, FiniteSets

CONSTANTS
  Task,         \* the tasks of the workflow
  Deps,         \* [Task -> SUBSET Task]: depends_on
  AgentOf,      \* [Task -> agent]: the agent a task belongs to
  Required,     \* the tasks whose failure fails the run
  AllowFailed,  \* the tasks with allow_failed_dependencies
  Slots         \* min(workflow.active_slots, spec.active_slots)

VARIABLES
  status,       \* RunState.tasks[t].status, the waiting states read as running
  run           \* RunState.status

vars == <<status, run>>

Success  == {"complete", "partial"}
Bad      == {"failed", "skipped"}
Terminal == Success \cup Bad

Active       == {t \in Task : status[t] = "running"}
BadDeps(t)   == {d \in Deps[t] : status[d] \in Bad}
CleanDeps(t) == \A d \in Deps[t] : status[d] = "complete"
DepsSettled(t) == \A d \in Deps[t] : status[d] \in Terminal

Init ==
  /\ status = [t \in Task |-> "queued"]
  /\ run = "running"

Start(t) ==
  /\ status[t] = "queued"
  /\ DepsSettled(t)
  /\ t \in AllowFailed \/ BadDeps(t) = {}
  /\ Cardinality(Active) < Slots
  /\ \A u \in Active : AgentOf[u] # AgentOf[t]
  /\ status' = [status EXCEPT ![t] = "running"]
  /\ UNCHANGED run

Skip(t) ==
  /\ status[t] = "queued"
  /\ DepsSettled(t)
  /\ t \notin AllowFailed
  /\ BadDeps(t) # {}
  /\ status' = [status EXCEPT ![t] = "skipped"]
  /\ UNCHANGED run

Complete(t) ==
  /\ status[t] = "running"
  /\ status' = [status EXCEPT ![t] = IF CleanDeps(t) THEN "complete" ELSE "partial"]
  /\ UNCHANGED run

Fail(t) ==
  /\ status[t] = "running"
  /\ status' = [status EXCEPT ![t] = "failed"]
  /\ UNCHANGED run

Finish ==
  /\ \A t \in Task : status[t] \in Terminal
  /\ run' = IF \E t \in Required : status[t] \in Bad THEN "failed" ELSE "complete"
  /\ UNCHANGED status

\* Cancelled by the operator, or failed because a worker raised.
Abort ==
  /\ run' \in {"failed", "cancelled"}
  /\ UNCHANGED status

Next ==
  /\ run = "running"
  /\ \/ \E t \in Task : Start(t) \/ Skip(t) \/ Complete(t) \/ Fail(t)
     \/ Finish
     \/ Abort

Spec == Init /\ [][Next]_vars
================================================================================
