------------------------------- MODULE RunJournal -------------------------------
(***************************************************************************)
(* What the journal of a run promises to whoever replays it: a gapless,    *)
(* append-only sequence of events whose reduction is the published state,  *)
(* with nothing after the event that ends the run.                         *)
(***************************************************************************)
EXTENDS Integers, Sequences

VARIABLES
  journal,   \* the events on disk, in file order
  status     \* RunState.status

vars == <<journal, status>>

Ending    == {"complete", "cancelled", "failed"}
EventKind == {"RUN_CREATED", "RUN_STARTED", "RUN_PAUSED", "RUN_RESUMED",
              "RUN_SYNTHESIZING", "RUN_COMPLETED", "RUN_CANCELLED", "RUN_FAILED", "DRAFT"}

\* The status a lifecycle event leads to, whatever the status before; all the
\* other events ("DRAFT") leave it.
StatusAfter(s, kind) ==
  CASE kind = "RUN_CREATED"      -> "planning"
    [] kind = "RUN_STARTED"      -> "running"
    [] kind = "RUN_PAUSED"       -> "paused"
    [] kind = "RUN_RESUMED"      -> "running"
    [] kind = "RUN_SYNTHESIZING" -> "synthesizing"
    [] kind = "RUN_COMPLETED"    -> "complete"
    [] kind = "RUN_CANCELLED"    -> "cancelled"
    [] kind = "RUN_FAILED"       -> "failed"
    [] OTHER                     -> s

Init ==
  /\ journal = <<>>
  /\ status = "idle"

\* Event sequences start at 0.
Record(kind) ==
  /\ status \notin Ending
  /\ journal' = Append(journal, [seq |-> Len(journal), kind |-> kind])
  /\ status' = StatusAfter(status, kind)

Next == \E kind \in EventKind : Record(kind)

Spec == Init /\ [][Next]_vars
================================================================================
