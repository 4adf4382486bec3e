-------------------------------- MODULE TaskLoop --------------------------------
(***************************************************************************)
(* FixedDagRuntime._stream_task: one task of a fixed workflow, from its    *)
(* TASK_STARTED to its verdict.  A bounded number of turns asks the model  *)
(* for one action; an action is refused, possibly with one repair, or is a *)
(* batch of tool calls, executed one after the other, or is final.         *)
(*                                                                         *)
(* Each step resumes the generator, which runs to its next yield, and      *)
(* reduce_event projects the draft it yields (the drafts of one task reach *)
(* the reducer in the order of their yields: see DagScheduler's queue).    *)
(***************************************************************************)
EXTENDS Naturals

CONSTANTS
  MaxTurns,          \* task.max_turns
  MaxToolCalls,      \* task.max_tool_calls
  MaxCallsPerTurn,   \* task.max_calls_per_turn
  RepairBudget,      \* task.repair_budget
  Source,            \* the source IDs a model or a tool may name
  Allowed,           \* allowed_sources of the task
  Degraded           \* is degraded_ancestry non-empty

\* What TaskDefinition.__post_init__ admits.
ASSUME TaskAssumption ==
  /\ MaxTurns \in Nat \ {0}
  /\ MaxToolCalls \in Nat
  /\ MaxCallsPerTurn \in Nat \ {0}
  /\ RepairBudget \in Nat
  /\ Allowed \subseteq Source
  /\ Degraded \in BOOLEAN

VARIABLES
  at,           \* where the generator is suspended: see Place
  turn,         \* outcome.turns
  repairs,      \* repairs_used
  toolCalls,    \* outcome.tool_calls
  batch,        \* calls of the batch in progress
  index,        \* call_index: calls of it that are over
  outcome,      \* outcome.status
  used,         \* outcome.source_ids
  event,        \* the last draft
  projected     \* RunState.tasks[t]: status, turns, tool_calls

vars == <<at, turn, repairs, toolCalls, batch, index, outcome, used, event, projected>>

budgets == <<turn, repairs, toolCalls>>
calls   == <<batch, index>>
result  == <<outcome, used>>

\* turn: before the next turn; model: MODEL_TURN_STARTED was yielded; act: the
\* result is in; broken: it is unusable; call: before the next call of the batch;
\* tool: TOOL_STARTED was yielded; rejected: TOOL_REJECTED was; fail: a draft was
\* yielded after which only TASK_FAILED can follow.
Place == {"turn", "model", "act", "broken", "call", "tool", "rejected", "fail", "done", "unwound"}

EventKind == {"TASK_STARTED", "MODEL_TURN_STARTED", "MODEL_TURN_COMPLETED", "ACTION_REJECTED",
              "TOOL_STARTED", "TOOL_COMPLETED", "TOOL_REJECTED", "TOOL_FAILED",
              "TASK_COMPLETED", "TASK_FAILED"}

Init ==
  /\ at = "turn"
  /\ turn = 0
  /\ repairs = 0
  /\ toolCalls = 0
  /\ batch = 0
  /\ index = 0
  /\ outcome = "running"
  /\ used = {}
  /\ event = [kind |-> "TASK_STARTED", repair |-> FALSE, turns |-> 0, toolCalls |-> 0]
  /\ projected = [status |-> "running", turns |-> 0, toolCalls |-> 0]

--------------------------------------------------------------------------------
(* reduce_event on the drafts of a started task.                           *)

\* The statuses an event may find the task in, and the one it leaves it in.
From(kind) ==
  CASE kind = "MODEL_TURN_COMPLETED" -> {"waiting_model"}
    [] kind \in {"TOOL_COMPLETED", "TOOL_REJECTED", "TOOL_FAILED"} -> {"waiting_tool"}
    [] kind = "TASK_FAILED" -> {"running", "waiting_model", "waiting_tool"}
    [] OTHER -> {"running"}

To(kind) ==
  CASE kind = "MODEL_TURN_STARTED" -> "waiting_model"
    [] kind = "TOOL_STARTED"       -> "waiting_tool"
    [] kind = "TASK_COMPLETED"     -> IF Degraded THEN "partial" ELSE "complete"
    [] kind = "TASK_FAILED"        -> "failed"
    [] OTHER                       -> "running"

\* Yield a draft; repair, turns and tool_calls are the payload fields the
\* properties read.
Emit(kind, repair) ==
  /\ event' = [kind |-> kind, repair |-> repair, turns |-> turn', toolCalls |-> toolCalls']
  /\ projected' =
       [status    |-> IF projected.status \in From(kind) THEN To(kind) ELSE "refused",
        turns     |-> projected.turns + (IF kind = "MODEL_TURN_STARTED" THEN 1 ELSE 0),
        toolCalls |-> projected.toolCalls + (IF kind = "TOOL_STARTED" THEN 1 ELSE 0)]

--------------------------------------------------------------------------------
(* A turn: the request and its result.                                     *)

BeginTurn ==
  /\ at = "turn"
  /\ turn < MaxTurns
  /\ turn' = turn + 1
  /\ UNCHANGED <<repairs, toolCalls>>
  /\ Emit("MODEL_TURN_STARTED", FALSE)
  /\ at' = "model"
  /\ UNCHANGED <<calls, result>>

\* complete() returns, or raises and is given an empty result: the result is
\* usable or _model_result_error finds fault with it.
ModelAnswers ==
  /\ at = "model"
  /\ UNCHANGED budgets
  /\ Emit("MODEL_TURN_COMPLETED", FALSE)
  /\ at' \in {"act", "broken"}
  /\ UNCHANGED <<calls, result>>

--------------------------------------------------------------------------------
(* Refusals and failures.                                                  *)

\* Mutant: a repair is offered in the last turn, too.
CanRepair_LastTurn(repairable) == repairable /\ repairs < RepairBudget

\* Mutant: the repair budget is not looked at.
CanRepair_Unlimited(repairable) == repairable /\ turn < MaxTurns

CanRepair(repairable) == repairable /\ repairs < RepairBudget /\ turn < MaxTurns

Reject(repairable) ==
  /\ repairs' = IF CanRepair(repairable) THEN repairs + 1 ELSE repairs
  /\ UNCHANGED <<turn, toolCalls>>
  /\ Emit("ACTION_REJECTED", CanRepair(repairable))
  /\ at' = IF CanRepair(repairable) THEN "turn" ELSE "fail"
  /\ UNCHANGED <<calls, result>>

\* _fail_task.
Fail ==
  /\ UNCHANGED budgets
  /\ Emit("TASK_FAILED", FALSE)
  /\ outcome' = "failed"
  /\ at' = "done"
  /\ UNCHANGED <<calls, used>>

FailAfterRejection == at = "fail" /\ Fail

\* Mutant: the loop ends without a verdict.
TurnsExhausted_Silent ==
  /\ at = "turn"
  /\ turn = MaxTurns
  /\ at' = "done"
  /\ UNCHANGED <<budgets, calls, result, event, projected>>

TurnsExhausted == at = "turn" /\ turn = MaxTurns /\ Fail

RejectBroken == at = "broken" /\ Reject(FALSE)

\* parse_action: everything is repairable but an action that is too large and a
\* batch with too many calls.
RejectUnparsable == at = "act" /\ \E repairable \in BOOLEAN : Reject(repairable)

--------------------------------------------------------------------------------
(* A final action.                                                         *)

RejectOutput == at = "act" /\ Reject(TRUE)

\* The cited IDs are malformed, or not all of them are allowed.
RejectCitations == at = "act" /\ Reject(FALSE)

\* Mutant: the citations are not checked against the allowed sources.
Complete_AnySource(cited) ==
  /\ at = "act"
  /\ UNCHANGED budgets
  /\ Emit("TASK_COMPLETED", FALSE)
  /\ outcome' = To("TASK_COMPLETED")
  /\ used' = used \cup cited
  /\ at' = "done"
  /\ UNCHANGED calls

\* Mutant: a degraded ancestry is journaled but the outcome is not partial.
Complete_NeverPartial(cited) ==
  /\ at = "act"
  /\ cited \subseteq Allowed
  /\ UNCHANGED budgets
  /\ Emit("TASK_COMPLETED", FALSE)
  /\ outcome' = "complete"
  /\ used' = used \cup cited
  /\ at' = "done"
  /\ UNCHANGED calls

Complete(cited) ==
  /\ at = "act"
  /\ cited \subseteq Allowed
  /\ UNCHANGED budgets
  /\ Emit("TASK_COMPLETED", FALSE)
  /\ outcome' = To("TASK_COMPLETED")
  /\ used' = used \cup cited
  /\ at' = "done"
  /\ UNCHANGED calls

--------------------------------------------------------------------------------
(* A batch of tool calls: the whole batch is checked before the first call *)
(* starts.                                                                 *)

Fits(size) == toolCalls + size <= MaxToolCalls

RejectOverBudget ==
  /\ at = "act"
  /\ \E size \in 1..MaxCallsPerTurn : ~Fits(size)
  /\ Reject(FALSE)

\* _preflight_calls refuses a call; only a schema error is repairable.
RejectUnbound ==
  /\ at = "act"
  /\ \E size \in 1..MaxCallsPerTurn : Fits(size)
  /\ \E repairable \in BOOLEAN : Reject(repairable)

\* Mutant: a batch is charged as one call.
StartTool_OncePerBatch(offset) ==
  /\ toolCalls' = IF offset = 0 THEN toolCalls + 1 ELSE toolCalls
  /\ UNCHANGED <<turn, repairs>>
  /\ Emit("TOOL_STARTED", FALSE)
  /\ index' = offset
  /\ at' = "tool"
  /\ UNCHANGED result

\* Start a call; offset is its position in the batch.
StartTool(offset) ==
  /\ toolCalls' = toolCalls + 1
  /\ UNCHANGED <<turn, repairs>>
  /\ Emit("TOOL_STARTED", FALSE)
  /\ index' = offset
  /\ at' = "tool"
  /\ UNCHANGED result

\* Mutant: one call beyond the budget is let through.
AcceptBatch_OffByOne(size) ==
  /\ at = "act"
  /\ toolCalls + size <= MaxToolCalls + 1
  /\ batch' = size
  /\ StartTool(0)

AcceptBatch(size) ==
  /\ at = "act"
  /\ Fits(size)
  /\ batch' = size
  /\ StartTool(0)

NextCall ==
  /\ at = "call"
  /\ StartTool(index)
  /\ UNCHANGED batch

\* The tool raises, or _validate_tool_result refuses what it returned.
ToolRaises ==
  /\ at = "tool"
  /\ UNCHANGED budgets
  /\ Emit("TOOL_FAILED", FALSE)
  /\ at' = "fail"
  /\ UNCHANGED <<calls, result>>

\* Mutant: a call that succeeded is followed by a second one of the same start.
ToolSucceeds_NoStart(sources) ==
  /\ at = "tool"
  /\ sources \subseteq Allowed
  /\ UNCHANGED budgets
  /\ Emit("TOOL_COMPLETED", FALSE)
  /\ used' = used \cup sources
  /\ index' = index + 1
  /\ at' = IF index' < batch THEN "tool" ELSE "turn"
  /\ UNCHANGED <<batch, outcome>>

ToolSucceeds(sources) ==
  /\ at = "tool"
  /\ sources \subseteq Allowed
  /\ UNCHANGED budgets
  /\ Emit("TOOL_COMPLETED", FALSE)
  /\ used' = used \cup sources
  /\ index' = index + 1
  /\ at' = IF index' < batch THEN "call" ELSE "turn"
  /\ UNCHANGED <<batch, outcome>>

ToolRejects ==
  /\ at = "tool"
  /\ UNCHANGED budgets
  /\ Emit("TOOL_REJECTED", FALSE)
  /\ at' = "rejected"
  /\ UNCHANGED <<calls, result>>

\* _tool_error decides whether the refusal is repairable; the rest of the batch
\* is dropped either way.
RejectCall == at = "rejected" /\ \E repairable \in BOOLEAN : Reject(repairable)

--------------------------------------------------------------------------------
\* CancelledError or GeneratorExit at any suspension point.
Unwind ==
  /\ at \notin {"done", "unwound"}
  /\ at' = "unwound"
  /\ UNCHANGED <<budgets, calls, result, event, projected>>

Step ==
  \/ BeginTurn \/ ModelAnswers \/ FailAfterRejection \/ TurnsExhausted \/ RejectBroken
  \/ RejectUnparsable \/ RejectOutput \/ RejectCitations
  \/ \E cited \in SUBSET Source : Complete(cited)
  \/ RejectOverBudget \/ RejectUnbound
  \/ \E size \in 1..MaxCallsPerTurn : AcceptBatch(size)
  \/ NextCall \/ ToolRaises
  \/ \E sources \in SUBSET Source : ToolSucceeds(sources)
  \/ ToolRejects \/ RejectCall

Next == Step \/ Unwind

Spec == Init /\ [][Next]_vars

\* The model and the tools answer, and the generator is resumed.
FairSpec == Spec /\ WF_vars(Step)

--------------------------------------------------------------------------------
(* Properties.                                                             *)

TaskStatus == {"running", "waiting_model", "waiting_tool", "complete", "partial", "failed"}

TypeOK ==
  /\ at \in Place
  /\ turn \in 0..MaxTurns
  /\ repairs \in 0..RepairBudget
  /\ toolCalls \in 0..MaxToolCalls
  /\ batch \in 0..MaxCallsPerTurn
  /\ index \in Nat /\ index <= batch
  /\ outcome \in {"running", "complete", "partial", "failed"}
  /\ used \subseteq Source
  /\ event \in [kind : EventKind, repair : BOOLEAN, turns : Nat, toolCalls : Nat]
  /\ projected \in [status : TaskStatus \cup {"refused"}, turns : Nat, toolCalls : Nat]

\* reduce_event accepts every draft of the task, in whatever way the model and
\* the tools answer: no path through the loop leaves a request or a call open.
DraftsAccepted == projected.status # "refused"

\* The turns and tool calls the runtime charges, and puts into the verdict, are
\* the ones the reducer counts from the events.
CountsAgree ==
  /\ projected.turns = turn /\ projected.toolCalls = toolCalls
  /\ event.turns = turn /\ event.toolCalls = toolCalls

\* No batch, however the earlier ones ended, can take the task over its budget
\* of calls: the calls of a started batch that are still to come fit, too.
BatchFits ==
  /\ at \in {"tool", "call"} => index < batch
  /\ at = "tool" => toolCalls + batch <= MaxToolCalls + index + 1
  /\ at = "call" => toolCalls + batch <= MaxToolCalls + index

\* The budgets of a task bind: what the runtime charges is what the journal shows
\* it used, no batch of calls can exceed what is left, and bad answers are repaired
\* as often as the budget allows, whatever they are refused for.
BudgetsKept == CountsAgree /\ BatchFits /\ repairs <= RepairBudget

\* A refusal that announces a repair is followed by a turn, one that does not by
\* the failure of the task: the last turn never announces what cannot follow.
RepairsKept ==
  [][event.kind = "ACTION_REJECTED" /\ event' # event =>
       event'.kind = IF event.repair THEN "MODEL_TURN_STARTED" ELSE "TASK_FAILED"]_vars

\* Only allowed sources count as used by the task, and so reach its dependents.
SourcesTrusted == used \subseteq Allowed

Emitted ==
  IF event.kind \in {"TASK_COMPLETED", "TASK_FAILED"} THEN projected.status ELSE "progress"

Worker == INSTANCE TaskWorker WITH emitted <- Emitted

\* The loop is a worker as DagScheduler models it: progress, then one verdict,
\* written to the outcome in the same step, partial exactly when degraded.
ImplementsWorker == Worker!Spec

\* Where the generator is suspended decides what the projection shows: a reader of
\* RunState never sees a task wait for a model or a tool that has answered.
PlaceShows ==
  /\ outcome = "running" <=> at # "done"
  /\ at # "unwound" =>
       projected.status = CASE at = "model" -> "waiting_model"
                            [] at = "tool"  -> "waiting_tool"
                            [] at = "done"  -> outcome
                            [] OTHER        -> "running"

\* A task whose model and tools answer comes to a verdict or is cancelled.
Settles == <>(outcome # "running" \/ at = "unwound")
================================================================================
