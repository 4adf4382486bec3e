------------------------------ MODULE RunController -----------------------------
(***************************************************************************)
(* RunController (controller.py): the asyncio task that drives a runtime   *)
(* and publishes its drafts (_drive), and the operator's calls that race   *)
(* with it (start, pause, resume, cancel, an abandoned wait).              *)
(*                                                                         *)
(* Everything runs on one event loop.  _publish never suspends (its lock   *)
(* is free whenever it is asked for), so the operator's calls are atomic   *)
(* and interleave with _drive only where _drive is suspended: before its   *)
(* first step, while the runtime produces the next draft, at the gate, and *)
(* while the runtime unwinds.  "handler" is the exception handler that     *)
(* runs on without suspending: nothing interleaves there.                  *)
(*                                                                         *)
(* A publication can fail three ways that are not the reducer's refusal:   *)
(*   unwritten  append raises before the record reaches the file           *)
(*   retained   append raises in flush, the record stays in the write      *)
(*              buffer and reaches the file with the next one              *)
(*   unseen     a subscriber raises after the state is published           *)
(***************************************************************************)
EXTENDS Integers, Sequences

CONSTANTS
  Faults,       \* the failures of a publication that may occur
  MaxFaults,    \* bound: how many of them
  MaxDrafts,    \* bound: drafts the runtime yields
  MaxPauses,    \* bound: calls to pause() that get past its guard
  Stubborn      \* may the runtime swallow a CancelledError and go on

ASSUME ControllerAssumption ==
  /\ Faults \subseteq {"unwritten", "retained", "unseen"}
  /\ MaxFaults \in Nat
  /\ MaxDrafts \in Nat
  /\ MaxPauses \in Nat
  /\ Stubborn \in BOOLEAN

VARIABLES
  status,       \* RunState.status
  last,         \* RunState.last_sequence
  journal,      \* the records of the journal file, in order
  closed,       \* _journal_closed
  gate,         \* _gate.is_set()
  drive,        \* where the _drive task is: see DriveState
  held,         \* the draft it holds at the gate, "none" otherwise
  fate,         \* the exception that unwinds it: "none", "failed", "cancelled"
  interrupt,    \* CancelledError is thrown at the task's next step
  cancelled,    \* _cancel_requested
  drafts,       \* drafts the runtime has yielded
  pauses,       \* pauses so far
  faults,       \* failures so far
  swallowed     \* the runtime has swallowed a CancelledError

vars == <<status, last, journal, closed, gate, drive, held, fate, interrupt,
          cancelled, drafts, pauses, faults, swallowed>>

published == <<status, last, journal, faults>>

Ending == {"complete", "cancelled", "failed"}      \* RunState.terminal
Status == {"idle", "planning", "running", "paused", "synthesizing"} \cup Ending

\* What a runtime yields: any event without effect on the status, the one
\* lifecycle event runtimes emit, and a draft reduce_event refuses.
DraftKind == {"DRAFT", "RUN_SYNTHESIZING", "INVALID"}
EventKind == {"RUN_CREATED", "RUN_STARTED", "RUN_PAUSED", "RUN_RESUMED",
              "RUN_SYNTHESIZING", "RUN_COMPLETED", "RUN_CANCELLED", "RUN_FAILED", "DRAFT"}

DriveState == {"absent", "created", "stream", "gate", "woken", "unwinding", "handler", "done"}

Init ==
  /\ status = "idle"
  /\ last = -1
  /\ journal = <<>>
  /\ closed = FALSE
  /\ gate = TRUE
  /\ drive = "absent"
  /\ held = "none"
  /\ fate = "none"
  /\ interrupt = FALSE
  /\ cancelled = FALSE
  /\ swallowed = FALSE
  /\ drafts = 0
  /\ pauses = 0
  /\ faults = 0

--------------------------------------------------------------------------------
(* _publish: reduce, append, assign the state, call the subscribers.       *)

StatusAfter(s, kind) ==
  CASE kind = "RUN_CREATED"      -> "planning"
    [] kind = "RUN_STARTED"      -> "running"
    [] kind = "RUN_PAUSED"       -> "paused"
    [] kind = "RUN_RESUMED"      -> "running"
    [] kind = "RUN_SYNTHESIZING" -> "synthesizing"
    [] kind = "RUN_COMPLETED"    -> "complete"
    [] kind = "RUN_CANCELLED"    -> "cancelled"
    [] kind = "RUN_FAILED"       -> "failed"
    [] OTHER                     -> s

Reducible(kind) == kind # "INVALID" /\ status \notin Ending

\* How a publication may end: "refused" by the reducer or by a closed journal.
Outcomes(kind) ==
  IF ~Reducible(kind) \/ closed THEN {"refused"}
  ELSE {"ok"} \cup (IF faults < MaxFaults THEN Faults ELSE {})

\* Mutant: the state is assigned before the record is appended.
Publish_StateFirst(kind, outcome) ==
  /\ journal' = IF outcome \in {"ok", "unseen", "retained"}
                THEN Append(journal, [seq |-> last + 1, kind |-> kind]) ELSE journal
  /\ last' = IF outcome # "refused" THEN last + 1 ELSE last
  /\ status' = IF outcome # "refused" THEN StatusAfter(status, kind) ELSE status
  /\ faults' = IF outcome \in Faults THEN faults + 1 ELSE faults

Publish(kind, outcome) ==
  /\ journal' = IF outcome \in {"ok", "unseen", "retained"}
                THEN Append(journal, [seq |-> last + 1, kind |-> kind]) ELSE journal
  /\ last' = IF outcome \in {"ok", "unseen"} THEN last + 1 ELSE last
  /\ status' = IF outcome \in {"ok", "unseen"} THEN StatusAfter(status, kind) ELSE status
  /\ faults' = IF outcome \in Faults THEN faults + 1 ELSE faults

--------------------------------------------------------------------------------
(* The operator.                                                           *)

OperatorRuns == drive # "handler"

\* start(): the task exists only if RUN_CREATED was published without a raise.
Start ==
  /\ drive = "absent"
  /\ \E outcome \in Outcomes("RUN_CREATED") :
       /\ Publish("RUN_CREATED", outcome)
       /\ drive' = IF outcome = "ok" THEN "created" ELSE "absent"
  /\ UNCHANGED <<closed, gate, held, fate, interrupt, cancelled, drafts, pauses, swallowed>>

\* Mutant: the gate is never closed.
Pause_GateOpen ==
  /\ OperatorRuns
  /\ status \in {"running", "synthesizing"}
  /\ pauses < MaxPauses
  /\ pauses' = pauses + 1
  /\ \E outcome \in Outcomes("RUN_PAUSED") : Publish("RUN_PAUSED", outcome)
  /\ UNCHANGED <<closed, gate, drive, held, fate, interrupt, cancelled, drafts, swallowed>>

Pause ==
  /\ OperatorRuns
  /\ status \in {"running", "synthesizing"}
  /\ pauses < MaxPauses
  /\ pauses' = pauses + 1
  /\ \E outcome \in Outcomes("RUN_PAUSED") :
       /\ Publish("RUN_PAUSED", outcome)
       /\ gate' = IF outcome = "ok" THEN FALSE ELSE gate
  /\ UNCHANGED <<closed, drive, held, fate, interrupt, cancelled, drafts, swallowed>>

\* Mutant: the gate is replaced by a new event that is set; nobody wakes the waiter
\* of the old one.
OpenGate_NewEvent ==
  /\ gate' = TRUE
  /\ UNCHANGED drive

\* Event.set wakes the waiter, which runs later and does not look again.
OpenGate ==
  /\ gate' = TRUE
  /\ drive' = IF drive = "gate" THEN "woken" ELSE drive

Resume ==
  /\ OperatorRuns
  /\ status = "paused"
  /\ OpenGate
  /\ \E outcome \in Outcomes("RUN_RESUMED") : Publish("RUN_RESUMED", outcome)
  /\ UNCHANGED <<closed, held, fate, interrupt, cancelled, drafts, pauses, swallowed>>

\* cancel() without a task publishes the end itself; a raise leaves the journal open.
CancelUnstarted ==
  /\ drive = "absent"
  /\ status \notin Ending
  /\ cancelled' = TRUE
  /\ gate' = TRUE
  /\ \E outcome \in Outcomes("RUN_CANCELLED") :
       /\ Publish("RUN_CANCELLED", outcome)
       /\ closed' = (closed \/ outcome = "ok")
  /\ UNCHANGED <<drive, held, fate, interrupt, drafts, pauses, swallowed>>

\* Mutant: cancel() only asks for a cooperative stop.
Cancel_Cooperative ==
  /\ OperatorRuns
  /\ drive # "absent"
  /\ status \notin Ending
  /\ cancelled' = TRUE
  /\ OpenGate
  /\ UNCHANGED <<published, closed, held, fate, interrupt, drafts, pauses, swallowed>>

\* cancel() with a task: Task.cancel() has no effect on a task that is done.
Cancel ==
  /\ OperatorRuns
  /\ drive # "absent"
  /\ status \notin Ending
  /\ cancelled' = TRUE
  /\ OpenGate
  /\ interrupt' = (drive # "done")
  /\ UNCHANGED <<published, closed, held, fate, drafts, pauses, swallowed>>

\* Cancelling a caller of wait() cancels the task it awaits (RunScreen's worker).
AbandonWait ==
  /\ drive \notin {"absent", "handler", "done"}
  /\ interrupt' = TRUE
  /\ UNCHANGED <<published, closed, gate, drive, held, fate, cancelled, drafts, pauses, swallowed>>

--------------------------------------------------------------------------------
(* _drive.                                                                 *)

Raise(exception) == drive' = "handler" /\ fate' = exception

\* A cancelled task that never ran never enters its try statement.
NeverBegins ==
  /\ drive = "created"
  /\ interrupt
  /\ drive' = "done"
  /\ interrupt' = FALSE
  /\ UNCHANGED <<published, closed, gate, held, fate, cancelled, drafts, pauses, swallowed>>

Begin ==
  /\ drive = "created"
  /\ ~interrupt
  /\ \E outcome \in Outcomes("RUN_STARTED") :
       /\ Publish("RUN_STARTED", outcome)
       /\ IF outcome = "ok" THEN drive' = "stream" /\ UNCHANGED fate ELSE Raise("failed")
  /\ UNCHANGED <<closed, gate, held, interrupt, cancelled, drafts, pauses, swallowed>>

\* The body of the loop once the gate has let the draft through.  Leaving the
\* loop, by break or by an exception, closes the runtime first (aclosing).
Consume(kind) ==
  IF cancelled
  THEN /\ drive' = "unwinding"
       /\ UNCHANGED <<published, fate>>
  ELSE \E outcome \in Outcomes(kind) :
         /\ Publish(kind, outcome)
         /\ drive' = IF outcome = "ok" THEN "stream" ELSE "unwinding"
         /\ fate' = IF outcome = "ok" THEN fate ELSE "failed"

DraftArrives(kind) ==
  /\ drive = "stream"
  /\ ~interrupt
  /\ drafts < MaxDrafts
  /\ drafts' = drafts + 1
  /\ IF gate
     THEN Consume(kind) /\ UNCHANGED held
     ELSE drive' = "gate" /\ held' = kind /\ UNCHANGED <<published, fate>>
  /\ UNCHANGED <<closed, gate, interrupt, cancelled, pauses, swallowed>>

PassGate ==
  /\ drive = "woken"
  /\ ~interrupt
  /\ Consume(held)
  /\ held' = "none"
  /\ UNCHANGED <<closed, gate, interrupt, cancelled, drafts, pauses, swallowed>>

\* The runtime is exhausted: neither the gate nor a pause is looked at.
StreamEnds ==
  /\ drive = "stream"
  /\ ~interrupt
  /\ IF cancelled
     THEN drive' = "done" /\ closed' = TRUE /\ UNCHANGED <<published, fate>>
     ELSE \E outcome \in Outcomes("RUN_COMPLETED") :
            /\ Publish("RUN_COMPLETED", outcome)
            /\ IF outcome = "ok"
               THEN drive' = "done" /\ closed' = TRUE /\ UNCHANGED fate
               ELSE Raise("failed") /\ UNCHANGED closed
  /\ UNCHANGED <<gate, held, interrupt, cancelled, drafts, pauses, swallowed>>

StreamRaises ==
  /\ drive = "stream"
  /\ ~interrupt
  /\ Raise("failed")
  /\ UNCHANGED <<published, closed, gate, held, interrupt, cancelled, drafts, pauses, swallowed>>

\* CancelledError is thrown where the task is suspended; the runtime unwinds.
Interrupted ==
  /\ drive \in {"stream", "gate", "woken", "unwinding"}
  /\ interrupt
  /\ interrupt' = FALSE
  /\ drive' = "unwinding"
  /\ fate' = "cancelled"
  /\ held' = "none"
  /\ UNCHANGED <<published, closed, gate, cancelled, drafts, pauses, swallowed>>

\* A runtime that swallows CancelledError is asked for its next draft as before.
Swallowed ==
  /\ Stubborn
  /\ drive = "stream"
  /\ interrupt
  /\ interrupt' = FALSE
  /\ swallowed' = TRUE
  /\ UNCHANGED <<published, closed, gate, drive, held, fate, cancelled, drafts, pauses>>

\* The runtime has unwound: with the exception it was unwound by, with one of
\* its own, or without any after a break.
Unwound ==
  /\ drive = "unwinding"
  /\ ~interrupt
  /\ \/ fate # "none" /\ drive' = "handler" /\ UNCHANGED <<fate, closed>>
     \/ Raise("failed") /\ UNCHANGED closed
     \/ fate = "none" /\ drive' = "done" /\ closed' = TRUE /\ UNCHANGED fate
  /\ UNCHANGED <<published, gate, held, interrupt, cancelled, drafts, pauses, swallowed>>

\* Mutant: the journal is closed only when the final event was published.
Handle_CloseIfPublished ==
  /\ drive = "handler"
  /\ \E outcome \in Outcomes(IF fate = "cancelled" THEN "RUN_CANCELLED" ELSE "RUN_FAILED") :
       /\ Publish(IF fate = "cancelled" THEN "RUN_CANCELLED" ELSE "RUN_FAILED", outcome)
       /\ closed' = (outcome = "ok")
  /\ drive' = "done"
  /\ UNCHANGED <<gate, held, fate, interrupt, cancelled, drafts, pauses, swallowed>>

\* Mutant: CancelledError gets to the finally clause unhandled.
Handle_FailureOnly ==
  /\ drive = "handler"
  /\ IF fate = "failed"
     THEN \E outcome \in Outcomes("RUN_FAILED") : Publish("RUN_FAILED", outcome)
     ELSE UNCHANGED published
  /\ closed' = TRUE
  /\ drive' = "done"
  /\ UNCHANGED <<gate, held, fate, interrupt, cancelled, drafts, pauses, swallowed>>

\* The except clauses and the finally clause.
Handle ==
  /\ drive = "handler"
  /\ \E outcome \in Outcomes(IF fate = "cancelled" THEN "RUN_CANCELLED" ELSE "RUN_FAILED") :
       Publish(IF fate = "cancelled" THEN "RUN_CANCELLED" ELSE "RUN_FAILED", outcome)
  /\ closed' = TRUE
  /\ drive' = "done"
  /\ UNCHANGED <<gate, held, fate, interrupt, cancelled, drafts, pauses, swallowed>>

--------------------------------------------------------------------------------
Operator == Start \/ Pause \/ Resume \/ CancelUnstarted \/ Cancel \/ AbandonWait

\* Steps the event loop takes by itself once they are possible.
Drive ==
  \/ NeverBegins \/ Begin \/ PassGate \/ Interrupted \/ Handle

\* Steps that wait for the runtime.
Answers == (\E kind \in DraftKind : DraftArrives(kind)) \/ StreamEnds \/ StreamRaises
Runtime == Answers \/ Swallowed \/ Unwound

Next == Operator \/ Drive \/ Runtime

Spec == Init /\ [][Next]_vars

\* The loop runs what is ready and the runtime answers in the end, the next draft
\* and its cleanup also when it is cancelled over and over; the operator owes nothing.
FairSpec ==
  Spec /\ WF_vars(Drive) /\ WF_vars(Runtime) /\ SF_vars(Answers) /\ SF_vars(Unwound)

--------------------------------------------------------------------------------
(* Properties.                                                             *)

TypeOK ==
  /\ status \in Status
  /\ last \in Int
  /\ journal \in Seq([seq : Int, kind : EventKind])
  /\ closed \in BOOLEAN
  /\ gate \in BOOLEAN
  /\ drive \in DriveState
  /\ held \in DraftKind \cup {"none"}
  /\ fate \in {"none", "failed", "cancelled"}
  /\ interrupt \in BOOLEAN
  /\ cancelled \in BOOLEAN
  /\ swallowed \in BOOLEAN
  /\ drafts \in 0..MaxDrafts
  /\ pauses \in 0..MaxPauses
  /\ faults \in 0..MaxFaults

Contract == INSTANCE RunJournal

\* However the operator's calls and the runtime interleave, and whatever
\* publications fail (short of a record left in the write buffer), the journal
\* is a gapless sequence whose reduction is RunState, and nothing follows the
\* event that ends the run: the controller implements RunJournal.
ImplementsJournal == Contract!Spec

Begun == \E i \in DOMAIN journal : journal[i].kind = "RUN_STARTED"

\* A run that published RUN_STARTED never ends without a terminal status and a
\* closed journal, unless publications failed or the runtime swallowed the
\* cancellation: the except and finally clauses of _drive cover every exit.
SettledWhenDone ==
  drive = "done" /\ Begun =>
    /\ closed
    /\ status \in Ending \/ faults > 0 \/ swallowed

\* A closed journal is never asked for another record: no call of the operator
\* gets past its status guard once _drive has closed it.
ClosedMeansOver ==
  closed /\ Begun /\ faults = 0 => status \in Ending \/ swallowed

Consumed(kind) == kind \in {"DRAFT", "RUN_SYNTHESIZING"}

\* Between a RUN_PAUSED and the next RUN_RESUMED at most one draft is consumed:
\* the one the gate had already let go when pause() closed it.
OneSlipPerPause ==
  faults = 0 =>
    \A i, j, k \in DOMAIN journal :
      /\ i < j /\ j < k
      /\ journal[i].kind = "RUN_PAUSED"
      /\ Consumed(journal[j].kind) /\ Consumed(journal[k].kind)
      => \E m \in i..k : journal[m].kind = "RUN_RESUMED"

\* The inductive strengthening of OneSlipPerPause: while a pause has not been
\* resumed, the gate is closed unless cancel() opened it or the task is done, and
\* the draft the gate had already let go is the first one after the pause.
Unresumed(i) ==
  /\ journal[i].kind = "RUN_PAUSED"
  /\ \A m \in DOMAIN journal : i < m => journal[m].kind # "RUN_RESUMED"
SlipInv ==
  /\ drive \in {"absent", "created"} => \A i \in DOMAIN journal : journal[i].kind # "RUN_PAUSED"
  /\ faults = 0 =>
       \A i \in DOMAIN journal : Unresumed(i) =>
         /\ ~gate \/ cancelled \/ drive = "done"
         /\ drive = "woken" /\ ~cancelled =>
              \A j \in DOMAIN journal : i < j => ~Consumed(journal[j].kind)
  /\ OneSlipPerPause

\* A waiter at the gate is one that a pause put there and nobody has released:
\* nobody waits at an open gate, and a released draft is never lost.
WaitsOnlyWhenClosed ==
  /\ drive = "gate" => ~gate
  /\ held # "none" <=> drive \in {"gate", "woken"}

\* The inductive strengthening of SettledWhenDone: what each place of _drive says
\* about the journal, the status and the cancellation.
Lifecycle ==
  /\ drive \in {"absent", "created"} => ~Begun
  /\ drive = "absent" => status \in {"idle", "planning", "cancelled"}
  /\ drive = "absent" /\ cancelled => status = "cancelled" \/ faults > 0
  /\ drive = "created" => status = "planning"
  /\ closed => drive = "done" \/ (drive = "absent" /\ status = "cancelled")
  /\ drive = "done" /\ ~closed => ~Begun /\ status = "planning"
  /\ cancelled /\ drive \in {"created", "stream", "gate", "woken"} /\ ~interrupt
       => swallowed \/ faults > 0
  /\ drive = "unwinding" /\ fate = "none" => cancelled /\ (swallowed \/ faults > 0)
  /\ drive = "handler" => fate # "none"
  /\ SettledWhenDone

\* A run whose gate stays open in the end comes to its end, and cancel() ends the
\* task of a started run whatever is done afterwards, resume() or not (a failure
\* before that may be a cancel() that raised before there was a task).
RunEnds ==
  /\ <>[]gate => (drive = "created" ~> drive = "done")
  /\ cancelled /\ drive # "absent" /\ faults = 0 ~> drive = "done" \/ swallowed

\* Disagreement: a draft is consumed while the run is paused.
PausedConsumesNothing ==
  [][status = "paused" /\ journal' # journal => ~Consumed(journal'[Len(journal')].kind)]_vars

\* Disagreement: a cancelled run whose task has ended has not ended.
CancelledRunHasEnded == cancelled /\ drive = "done" => status \in Ending
================================================================================
