------------------------------- MODULE TaskWorker -------------------------------
(***************************************************************************)
(* What the scheduler relies on when it runs a task (DagScheduler's        *)
(* WorkerProgress, WorkerCompletes and WorkerFails): any number of drafts  *)
(* in between, then exactly one verdict, written into the outcome in the   *)
(* step that emits it, partial exactly when the ancestry is degraded; or   *)
(* the task is cancelled and emits nothing more.                           *)
(***************************************************************************)
CONSTANT Degraded     \* is degraded_ancestry non-empty

VARIABLES
  emitted,            \* the last draft: "progress", or the verdict
  outcome             \* outcomes[t].status

vars == <<emitted, outcome>>

Init == emitted = "progress" /\ outcome = "running"

Progress == outcome = "running" /\ emitted' = "progress" /\ UNCHANGED outcome

Complete ==
  /\ outcome = "running"
  /\ emitted' = IF Degraded THEN "partial" ELSE "complete"
  /\ outcome' = emitted'

Fail ==
  /\ outcome = "running"
  /\ emitted' = "failed"
  /\ outcome' = "failed"

Next == Progress \/ Complete \/ Fail

Spec == Init /\ [][Next]_vars
================================================================================
