----------------------------- MODULE TaskLoopProofs -----------------------------
(***************************************************************************)
(* The task loop for every budget, every set of sources and every ancestry,*)
(* and the registry it calls its tools through for every session, whatever *)
(* the tools, the IDs, the names, the arguments and the sources; and the   *)
(* binding of a batch of proposals, for every batch and every packet.      *)
(***************************************************************************)
EXTENDS TaskLoop, ToolCalls, FiniteSetTheorems, SequenceTheorems, WellFoundedInduction, TLAPS

(* What the generator's place says about the projection, the counters and  *)
(* the batch: everything the safety properties need.                       *)
LoopInv ==
  /\ TypeOK
  /\ DraftsAccepted
  /\ CountsAgree
  /\ BatchFits
  /\ SourcesTrusted
  /\ PlaceShows
  /\ event.kind = "ACTION_REJECTED" /\ at # "unwound" =>
       at = (IF event.repair THEN "turn" ELSE "fail") /\ (event.repair => turn < MaxTurns)
  /\ event.kind = "TASK_COMPLETED" \/ event.kind = "TASK_FAILED" <=> at = "done"
  /\ outcome = "running" \/ outcome = projected.status

LEMMA InitLoop == Init => LoopInv
BY TaskAssumption DEF Init, LoopInv, TypeOK, Place, EventKind, TaskStatus, DraftsAccepted, CountsAgree,
   BatchFits, SourcesTrusted, PlaceShows

(* A refusal leaves the loop before the next turn or before its failure.   *)
LEMMA RejectStep ==
  ASSUME LoopInv, at \in {"act", "broken", "rejected"}, NEW repairable \in BOOLEAN, Reject(repairable)
  PROVE  LoopInv'
<1>. USE TaskAssumption
     DEF LoopInv, TypeOK, Place, EventKind, TaskStatus, DraftsAccepted, CountsAgree,
         BatchFits, SourcesTrusted, PlaceShows, Reject, Emit, From, To, calls, result
<1>1. PICK granted \in BOOLEAN : granted = CanRepair(repairable)
  BY DEF CanRepair
<1>2. /\ event' = [kind |-> "ACTION_REJECTED", repair |-> granted, turns |-> turn', toolCalls |-> toolCalls']
      /\ at' = IF granted THEN "turn" ELSE "fail"
      /\ repairs' = IF granted THEN repairs + 1 ELSE repairs
      /\ granted => turn < MaxTurns /\ repairs < RepairBudget
  BY <1>1 DEF CanRepair
<1>3. /\ UNCHANGED <<turn, toolCalls, batch, index, outcome, used>>
      /\ projected' = [status |-> "running", turns |-> projected.turns, toolCalls |-> projected.toolCalls]
  OBVIOUS
<1>4. TypeOK'
  BY <1>2, <1>3
<1>5. (DraftsAccepted /\ CountsAgree /\ BatchFits /\ SourcesTrusted /\ PlaceShows)'
  BY <1>2, <1>3
<1>. QED
  BY <1>2, <1>3, <1>4, <1>5

LEMMA FailStep ==
  ASSUME LoopInv, at \in {"turn", "fail"}, Fail
  PROVE  LoopInv'
BY TaskAssumption
   DEF LoopInv, TypeOK, Place, EventKind, TaskStatus, DraftsAccepted, CountsAgree,
       BatchFits, SourcesTrusted, PlaceShows, Fail, Emit, From, To, calls, budgets

LEMMA LoopStep == LoopInv /\ [Next]_vars => LoopInv'
<1>. SUFFICES ASSUME LoopInv, [Next]_vars PROVE LoopInv'
  OBVIOUS
<1>. USE TaskAssumption
<1>1. CASE BeginTurn
  BY <1>1 DEF BeginTurn, LoopInv, TypeOK, Place, EventKind, TaskStatus, DraftsAccepted, CountsAgree,
     BatchFits, SourcesTrusted, PlaceShows, Emit, From, To, calls, result
<1>2. CASE ModelAnswers
  BY <1>2 DEF ModelAnswers, LoopInv, TypeOK, Place, EventKind, TaskStatus, DraftsAccepted, CountsAgree,
     BatchFits, SourcesTrusted, PlaceShows, Emit, From, To, budgets, calls, result
<1>3. CASE FailAfterRejection \/ TurnsExhausted
  BY <1>3, FailStep DEF FailAfterRejection, TurnsExhausted
<1>4. CASE \/ RejectBroken \/ RejectUnparsable \/ RejectOutput \/ RejectCitations
           \/ RejectOverBudget \/ RejectUnbound \/ RejectCall
  BY <1>4, RejectStep
     DEF RejectBroken, RejectUnparsable, RejectOutput, RejectCitations, RejectOverBudget,
         RejectUnbound, RejectCall
<1>5. ASSUME NEW cited \in SUBSET Source, Complete(cited)
      PROVE LoopInv'
  BY <1>5 DEF Complete, LoopInv, TypeOK, Place, EventKind, TaskStatus, DraftsAccepted, CountsAgree,
     BatchFits, SourcesTrusted, PlaceShows, Emit, From, To, budgets, calls
<1>6. ASSUME NEW size \in 1..MaxCallsPerTurn, AcceptBatch(size)
      PROVE LoopInv'
  BY <1>6 DEF AcceptBatch, Fits, StartTool, LoopInv, TypeOK, Place, EventKind, TaskStatus,
     DraftsAccepted, CountsAgree, BatchFits, SourcesTrusted, PlaceShows, Emit, From, To, result
<1>7. CASE NextCall
  BY <1>7 DEF NextCall, StartTool, LoopInv, TypeOK, Place, EventKind, TaskStatus,
     DraftsAccepted, CountsAgree, BatchFits, SourcesTrusted, PlaceShows, Emit, From, To, result
<1>8. CASE ToolRaises
  BY <1>8 DEF ToolRaises, LoopInv, TypeOK, Place, EventKind, TaskStatus,
     DraftsAccepted, CountsAgree, BatchFits, SourcesTrusted, PlaceShows, Emit, From, To,
     budgets, calls, result
<1>9. ASSUME NEW sources \in SUBSET Source, ToolSucceeds(sources)
      PROVE LoopInv'
  BY <1>9 DEF ToolSucceeds, LoopInv, TypeOK, Place, EventKind, TaskStatus,
     DraftsAccepted, CountsAgree, BatchFits, SourcesTrusted, PlaceShows, Emit, From, To, budgets
<1>10. CASE ToolRejects
  BY <1>10 DEF ToolRejects, LoopInv, TypeOK, Place, EventKind, TaskStatus,
     DraftsAccepted, CountsAgree, BatchFits, SourcesTrusted, PlaceShows, Emit, From, To,
     budgets, calls, result
<1>11. CASE Unwind
  BY <1>11 DEF Unwind, LoopInv, TypeOK, Place, EventKind, TaskStatus,
     DraftsAccepted, CountsAgree, BatchFits, SourcesTrusted, PlaceShows, budgets, calls, result
<1>12. CASE UNCHANGED vars
  BY <1>12 DEF vars, LoopInv, TypeOK, DraftsAccepted, CountsAgree, BatchFits, SourcesTrusted, PlaceShows
<1>. QED
  BY <1>1, <1>2, <1>3, <1>4, <1>5, <1>6, <1>7, <1>8, <1>9, <1>10, <1>11, <1>12 DEF Next, Step

LEMMA AlwaysLoop == Spec => []LoopInv
BY InitLoop, LoopStep, PTL DEF Spec

(* Every variable of the loop stays in its type and its budget.            *)
THEOREM TypeCorrect == Spec => []TypeOK
BY AlwaysLoop, PTL DEF LoopInv

(* reduce_event accepts every draft of a task, whatever the model and the  *)
(* tools answer and wherever the task is cancelled.                        *)
THEOREM LoopDraftsAccepted == Spec => []DraftsAccepted
BY AlwaysLoop, PTL DEF LoopInv

(* The charges of the runtime are the counts of the reducer.               *)
THEOREM ChargesAgree == Spec => []CountsAgree
BY AlwaysLoop, PTL DEF LoopInv

(* A started batch of calls fits into what is left of the budget.          *)
THEOREM BatchesFit == Spec => []BatchFits
BY AlwaysLoop, PTL DEF LoopInv

(* The budgets bind, for every budget and every answer.                   *)
THEOREM BudgetsAreKept == Spec => []BudgetsKept
<1>1. TypeOK => repairs <= RepairBudget
  BY DEF TypeOK
<1>. QED
  BY <1>1, TypeCorrect, ChargesAgree, BatchesFit, PTL DEF BudgetsKept

(* No source outside the allowlist is ever counted as used.                *)
THEOREM OnlyTrustedSources == Spec => []SourcesTrusted
BY AlwaysLoop, PTL DEF LoopInv

(* The projection shows a task waiting exactly while it waits.             *)
THEOREM ProjectionInStep == Spec => []PlaceShows
BY AlwaysLoop, PTL DEF LoopInv

(* A refusal that announces a repair is followed by a turn, one that does  *)
(* not by the failure of the task.                                         *)
THEOREM RepairsAreKept == Spec => RepairsKept
<1>1. LoopInv /\ [Next]_vars =>
        [event.kind = "ACTION_REJECTED" /\ event' # event =>
           event'.kind = IF event.repair THEN "MODEL_TURN_STARTED" ELSE "TASK_FAILED"]_vars
  <2>. SUFFICES ASSUME LoopInv, Next, event.kind = "ACTION_REJECTED", event' # event
                PROVE event'.kind = IF event.repair THEN "MODEL_TURN_STARTED" ELSE "TASK_FAILED"
    BY DEF vars
  <2>1. at \in {"turn", "fail", "unwound"} /\ (at = "turn" => event.repair /\ turn < MaxTurns)
        /\ (at = "fail" => ~event.repair)
    BY DEF LoopInv
  <2>2. ~Unwind
    BY DEF Unwind
  <2>3. BeginTurn \/ FailAfterRejection \/ TurnsExhausted
    BY <2>1, <2>2
       DEF Next, Step, ModelAnswers, RejectBroken, RejectUnparsable, RejectOutput, RejectCitations,
           Complete, RejectOverBudget, RejectUnbound, AcceptBatch, NextCall, ToolRaises,
           ToolSucceeds, ToolRejects, RejectCall
  <2>4. ~TurnsExhausted
    BY <2>1, TaskAssumption DEF TurnsExhausted, LoopInv, TypeOK
  <2>5. CASE BeginTurn
    BY <2>1, <2>5 DEF BeginTurn, Emit
  <2>6. CASE FailAfterRejection
    BY <2>1, <2>6 DEF FailAfterRejection, Fail, Emit
  <2>. QED
    BY <2>3, <2>4, <2>5, <2>6
<1>. QED
  BY <1>1, AlwaysLoop, PTL DEF Spec, RepairsKept

(* The loop is a worker as DagScheduler models it.                         *)
THEOREM WorkerImplemented == Spec => ImplementsWorker
<1>1. Init => Worker!Init
  BY DEF Init, Worker!Init, Emitted
<1>2. LoopInv /\ LoopInv' /\ [Next]_vars => [Worker!Next]_(Worker!vars)
  <2>. SUFFICES ASSUME LoopInv, LoopInv', [Next]_vars
                PROVE Worker!Next \/ UNCHANGED <<Emitted, outcome>>
    BY DEF Worker!vars
  <2>1. CASE UNCHANGED vars \/ Unwind
    BY <2>1 DEF vars, Unwind, result, Emitted
  <2>2. CASE FailAfterRejection \/ TurnsExhausted
    <3>1. outcome = "running" /\ Fail
      BY <2>2 DEF FailAfterRejection, TurnsExhausted, LoopInv, PlaceShows
    <3>2. Emitted' = "failed"
      BY <3>1 DEF Fail, Emit, To, Emitted, LoopInv, DraftsAccepted
    <3>. QED
      BY <3>1, <3>2 DEF Fail, Worker!Next, Worker!Fail
  <2>3. ASSUME NEW cited \in SUBSET Source, Complete(cited)
        PROVE Worker!Next
    <3>1. outcome = "running"
      BY <2>3 DEF Complete, LoopInv, PlaceShows
    <3>2. Emitted' = To("TASK_COMPLETED") /\ outcome' = To("TASK_COMPLETED")
      BY <2>3 DEF Complete, Emit, Emitted, LoopInv, DraftsAccepted
    <3>. QED
      BY <3>1, <3>2 DEF Worker!Next, Worker!Complete, To
  <2>4. ASSUME outcome = "running", UNCHANGED outcome, at' # "done"
        PROVE Worker!Next
    <3>1. Emitted' = "progress"
      BY <2>4 DEF Emitted, LoopInv
    <3>. QED
      BY <2>4, <3>1 DEF Worker!Next, Worker!Progress
  <2>5. CASE \/ BeginTurn \/ ModelAnswers \/ RejectBroken \/ RejectUnparsable \/ RejectOutput
             \/ RejectCitations \/ RejectOverBudget \/ RejectUnbound \/ NextCall \/ ToolRaises
             \/ ToolRejects \/ RejectCall
    BY <2>4, <2>5
       DEF BeginTurn, ModelAnswers, RejectBroken, RejectUnparsable, RejectOutput, RejectCitations,
           RejectOverBudget, RejectUnbound, NextCall, StartTool, ToolRaises, ToolRejects,
           RejectCall, Reject, result, LoopInv, PlaceShows
  <2>6. ASSUME NEW size \in 1..MaxCallsPerTurn, AcceptBatch(size)
        PROVE Worker!Next
    BY <2>4, <2>6 DEF AcceptBatch, StartTool, result, LoopInv, PlaceShows
  <2>7. ASSUME NEW sources \in SUBSET Source, ToolSucceeds(sources)
        PROVE Worker!Next
    BY <2>4, <2>7 DEF ToolSucceeds, LoopInv, PlaceShows
  <2>. QED
    BY <2>1, <2>2, <2>3, <2>5, <2>6, <2>7 DEF Next, Step
<1>. QED
  BY <1>1, <1>2, AlwaysLoop, PTL DEF Spec, ImplementsWorker, Worker!Spec

--------------------------------------------------------------------------------
(* Every session of the tool registry.                                          *)

\* What calls, scopes, steps and answers are made of.
CallOf(Id, Name, Arg, Src) == [id : Id, name : Name, arguments : Arg, sources : SUBSET Src]
ScopeOf(Name, Src) ==
  {NoScope} \cup [tools : SUBSET Name, sources : SUBSET Src, limited : BOOLEAN, open : {FALSE}]
StepOf(Id, Name, Arg, Src) ==
  [op : {"call", "register"}, tool : Name, scope : ScopeOf(Name, Src),
   call : CallOf(Id, Name, Arg, Src), outcome : Outcome]
AnswerCode == {"ok", "invalid_call_id", "unknown_tool", "invalid_schema", "invalid_arguments",
               "result_too_large", "calculation_error", "raised", "call_id_conflict",
               "tool_not_allowed", "source_not_allowed"}
AnswerOf(Id, Src) == [id : Id, code : AnswerCode, sources : SUBSET Src, run : Nat]
RegistryOf(Id, Name, Arg, Src) ==
  [tools : SUBSET Name,
   cache : SUBSET [call : CallOf(Id, Name, Arg, Src), answer : AnswerOf(Id, Src)],
   runs : Seq([call : CallOf(Id, Name, Arg, Src), outcome : Outcome]),
   answers : Seq([scope : ScopeOf(Name, Src), call : CallOf(Id, Name, Arg, Src),
                  answer : AnswerOf(Id, Src)])]

\* A kept answer belongs to its call; a result is a run of it, with its sources.
CacheFits(s, c) ==
  /\ c.answer.id = c.call.id
  /\ c.answer.code \notin ByScope \cup {"raised", "call_id_conflict"}
  /\ c.answer.code # "ok" => c.answer.sources = {}
  /\ c.answer.code = "ok" =>
       /\ Listed(c.call) /\ c.answer.sources = Sources(c.call)
       /\ c.answer.run \in DOMAIN s.runs
       /\ s.runs[c.answer.run] = [call |-> c.call, outcome |-> "ok"]

\* An answer was refused by its scope, or it is what is kept for its ID.
AnswerFits(s, g) ==
  \/ \E code \in ByScope : g.answer = Failure(g.call, code)
  \/ /\ ScopeRefusal(g.scope, g.call) = "none"
     /\ \E c \in s.cache :
          /\ c.call.id = g.call.id
          /\ g.answer = IF c.call = g.call THEN c.answer ELSE Failure(g.call, "call_id_conflict")

RegistryInv(s) ==
  /\ \A c, d \in s.cache : c.call.id = d.call.id => c = d
  /\ \A c \in s.cache : CacheFits(s, c)
  /\ \A i \in DOMAIN s.runs :
       s.runs[i].outcome # "raised" => \E c \in s.cache : c.call.id = s.runs[i].call.id
  /\ RunsOnce(s)
  /\ \A i \in DOMAIN s.answers : AnswerFits(s, s.answers[i])

\* An answer that fits is added.
LEMMA AnsweredKeeps ==
  ASSUME NEW Id, NEW Name, NEW Arg, NEW Src,
         NEW s \in RegistryOf(Id, Name, Arg, Src), RegistryInv(s),
         NEW step \in StepOf(Id, Name, Arg, Src), NEW answer \in AnswerOf(Id, Src),
         AnswerFits(s, [scope |-> step.scope, call |-> step.call, answer |-> answer])
  PROVE  /\ Answered(s, step, answer) \in RegistryOf(Id, Name, Arg, Src)
         /\ RegistryInv(Answered(s, step, answer))
<1> DEFINE t == Answered(s, step, answer)
           g == [scope |-> step.scope, call |-> step.call, answer |-> answer]
           n == Len(s.answers)
<1>1. /\ s.answers \in Seq([scope : ScopeOf(Name, Src), call : CallOf(Id, Name, Arg, Src),
                            answer : AnswerOf(Id, Src)])
      /\ g \in [scope : ScopeOf(Name, Src), call : CallOf(Id, Name, Arg, Src), answer : AnswerOf(Id, Src)]
  BY DEF RegistryOf, StepOf
<1>2. /\ t.tools = s.tools /\ t.cache = s.cache /\ t.runs = s.runs
      /\ t.answers = Append(s.answers, g)
      /\ t = [tools |-> t.tools, cache |-> t.cache, runs |-> t.runs, answers |-> t.answers]
  <2>1. s = [tools |-> s.tools, cache |-> s.cache, runs |-> s.runs, answers |-> s.answers]
    BY DEF RegistryOf
  <2>2. t = [s EXCEPT !.answers = Append(s.answers, g)]
    BY DEF Answered
  <2> HIDE DEF t, g
  <2>3. t = [tools |-> s.tools, cache |-> s.cache, runs |-> s.runs, answers |-> Append(s.answers, g)]
    BY <2>1, <2>2
  <2> QED
    BY <2>3
<1> HIDE DEF t, g
<1>3. /\ DOMAIN t.answers = 1..(n + 1) /\ n \in Nat /\ DOMAIN s.answers = 1..n
      /\ \A i \in 1..n : t.answers[i] = s.answers[i]
      /\ t.answers[n + 1] = g
  BY <1>1, <1>2
<1>4. t.answers \in Seq([scope : ScopeOf(Name, Src), call : CallOf(Id, Name, Arg, Src),
                         answer : AnswerOf(Id, Src)])
  BY <1>1, <1>2
<1>5. t \in RegistryOf(Id, Name, Arg, Src)
  BY <1>2, <1>4 DEF RegistryOf
<1>6. \A h : AnswerFits(s, h) <=> AnswerFits(t, h)
  BY <1>2 DEF AnswerFits
<1>7. \A i \in DOMAIN t.answers : AnswerFits(t, t.answers[i])
  <2> TAKE i \in DOMAIN t.answers
  <2>1. CASE i \in 1..n
    BY <1>3, <1>6, <2>1 DEF RegistryInv
  <2>2. CASE i = n + 1
    <3>1. AnswerFits(s, g)
      BY DEF g
    <3> QED
      BY <1>3, <1>6, <2>2, <3>1
  <2> QED
    BY <1>3, <2>1, <2>2
<1>8. RegistryInv(t)
  BY <1>2, <1>7 DEF RegistryInv, CacheFits, RunsOnce
<1> QED
  BY <1>5, <1>8 DEF t

\* A handler runs for an ID for which nothing is kept.
LEMMA RunKeeps ==
  ASSUME NEW Id, NEW Name, NEW Arg, NEW Src,
         NEW s \in RegistryOf(Id, Name, Arg, Src), RegistryInv(s),
         NEW call \in CallOf(Id, Name, Arg, Src), Kept(s, call.id) = {}, NEW o \in Outcome,
         NEW e, e = [call |-> call, outcome |-> o],
         NEW t, t.runs = Append(s.runs, e), s.cache \subseteq t.cache
  PROVE  /\ Len(s.runs) + 1 \in DOMAIN t.runs /\ Len(s.runs) + 1 \in Nat
         /\ t.runs[Len(s.runs) + 1] = e
         /\ RunsOnce(t)
         /\ \A c \in s.cache : CacheFits(t, c)
         /\ \A i \in DOMAIN t.runs :
              t.runs[i].outcome # "raised" =>
                (\E c \in t.cache : c.call.id = t.runs[i].call.id) \/ t.runs[i] = e
<1> DEFINE n == Len(s.runs)
<1>1. /\ s.runs \in Seq([call : CallOf(Id, Name, Arg, Src), outcome : Outcome])
      /\ e \in [call : CallOf(Id, Name, Arg, Src), outcome : Outcome]
      /\ e.call = call /\ e.outcome = o
  BY DEF RegistryOf
<1>2. /\ t.runs \in Seq([call : CallOf(Id, Name, Arg, Src), outcome : Outcome])
      /\ DOMAIN t.runs = 1..(n + 1) /\ n \in Nat /\ DOMAIN s.runs = 1..n
      /\ \A i \in 1..n : t.runs[i] = s.runs[i]
      /\ t.runs[n + 1] = e
  BY <1>1
<1>3. \A i \in 1..n : s.runs[i].call.id = call.id => s.runs[i].outcome = "raised"
  <2> TAKE i \in 1..n
  <2>1. \A c \in s.cache : c.call.id # call.id
    BY DEF Kept
  <2>2. s.runs[i].outcome # "raised" => \E c \in s.cache : c.call.id = s.runs[i].call.id
    BY <1>2 DEF RegistryInv
  <2> QED
    BY <2>1, <2>2
<1>4. RunsOnce(t)
  <2> SUFFICES ASSUME NEW i \in DOMAIN t.runs, NEW j \in DOMAIN t.runs, i < j,
                      t.runs[i].call.id = t.runs[j].call.id
               PROVE  t.runs[i].outcome = "raised"
    BY DEF RunsOnce
  <2>1. CASE j \in 1..n
    <3>1. i \in 1..n
      BY <1>2, <2>1
    <3> QED
      BY <1>2, <2>1, <3>1 DEF RegistryInv, RunsOnce
  <2>2. CASE j = n + 1
    <3>1. i \in 1..n
      BY <1>2, <2>2
    <3> QED
      BY <1>1, <1>2, <1>3, <2>2, <3>1
  <2> QED
    BY <1>2, <2>1, <2>2
<1>5. \A c \in s.cache : CacheFits(t, c)
  <2> TAKE c \in s.cache
  <2>1. CacheFits(s, c)
    BY DEF RegistryInv
  <2> QED
    BY <1>2, <2>1 DEF CacheFits
<1>6. \A i \in DOMAIN t.runs :
        t.runs[i].outcome # "raised" =>
          (\E c \in t.cache : c.call.id = t.runs[i].call.id) \/ t.runs[i] = e
  <2> TAKE i \in DOMAIN t.runs
  <2>1. CASE i \in 1..n
    BY <1>2, <2>1 DEF RegistryInv
  <2>2. CASE i = n + 1
    BY <1>2, <2>2
  <2> QED
    BY <1>2, <2>1, <2>2
<1> QED
  BY <1>2, <1>4, <1>5, <1>6

\* What nothing is kept for is run, or refused for good.
LEMMA RunCallKeeps ==
  ASSUME NEW Id, NEW Name, NEW Arg, NEW Src,
         NEW s \in RegistryOf(Id, Name, Arg, Src), RegistryInv(s),
         NEW step \in StepOf(Id, Name, Arg, Src),
         Kept(s, step.call.id) = {}, ScopeRefusal(step.scope, step.call) = "none"
  PROVE  /\ RunCall(s, step) \in RegistryOf(Id, Name, Arg, Src)
         /\ RegistryInv(RunCall(s, step))
<1> DEFINE call == step.call
           o == step.outcome
           answer == ExecuteOnce(s, call, o)
           e == [call |-> call, outcome |-> o]
           c == [call |-> call, answer |-> answer]
           ran == IF Refusal(s, call) # "none" THEN s ELSE [s EXCEPT !.runs = Append(@, e)]
           kept == [ran EXCEPT !.cache = @ \cup {c}]
<1>0. call \in CallOf(Id, Name, Arg, Src) /\ o \in Outcome
  BY DEF StepOf
<1>1. s = [tools |-> s.tools, cache |-> s.cache, runs |-> s.runs, answers |-> s.answers]
  BY DEF RegistryOf
<1>2. RunCall(s, step) = IF answer.code = "raised" THEN ran ELSE Answered(kept, step, answer)
  BY DEF RunCall
<1>3. /\ Len(s.runs) + 1 \in Nat
      /\ Sources(call) \in SUBSET Src /\ call.id \in Id
  BY <1>0 DEF RegistryOf, CallOf, Sources
<1>4. /\ answer \in AnswerOf(Id, Src) /\ answer.id = call.id
      /\ answer.code \notin ByScope \cup {"call_id_conflict"}
      /\ answer.code = "raised" => Refusal(s, call) = "none" /\ o = "raised"
      /\ answer.code # "ok" => answer.sources = {}
      /\ answer.code = "ok" =>
           /\ Refusal(s, call) = "none" /\ o = "ok"
           /\ answer.sources = Sources(call) /\ answer.run = Len(s.runs) + 1
  <2>1. Refusal(s, call) \in {"none", "invalid_call_id", "unknown_tool", "invalid_schema", "invalid_arguments"}
    BY DEF Refusal
  <2>2. o \in {"ok", "result_too_large", "invalid_arguments", "calculation_error", "raised"}
    BY <1>0 DEF Outcome
  <2> HIDE DEF call, o
  <2>3. CASE Refusal(s, call) # "none"
    <3>1. answer = [id |-> call.id, code |-> Refusal(s, call), sources |-> {}, run |-> 0]
      BY <2>3 DEF ExecuteOnce, Failure
    <3> HIDE DEF answer
    <3> QED
      BY <1>3, <2>1, <2>3, <3>1 DEF AnswerOf, AnswerCode, ByScope
  <2>4. CASE Refusal(s, call) = "none" /\ o = "ok"
    <3>1. answer = [id |-> call.id, code |-> "ok", sources |-> Sources(call), run |-> Len(s.runs) + 1]
      BY <2>4 DEF ExecuteOnce
    <3> HIDE DEF answer
    <3> QED
      BY <1>3, <2>4, <3>1 DEF AnswerOf, AnswerCode, ByScope
  <2>5. CASE Refusal(s, call) = "none" /\ o # "ok"
    <3>1. answer = [id |-> call.id, code |-> o, sources |-> {}, run |-> 0]
      BY <2>5 DEF ExecuteOnce, Failure
    <3> HIDE DEF answer
    <3> QED
      BY <1>3, <2>2, <2>5, <3>1 DEF AnswerOf, AnswerCode, ByScope
  <2> QED
    BY <2>3, <2>4, <2>5
<1>5. Refusal(s, call) = "none" => Listed(call)
  BY DEF Refusal
<1>6. \A d \in s.cache : d.call.id # call.id
  BY DEF Kept
<1> HIDE DEF answer, call, o
<1>7. CASE Refusal(s, call) # "none"
  <2>1. answer.code \notin {"ok", "raised"}
    BY <1>4, <1>7
  <2>2. kept = [tools |-> s.tools, cache |-> s.cache \cup {c}, runs |-> s.runs, answers |-> s.answers]
    BY <1>1, <1>7
  <2>3. c \in [call : CallOf(Id, Name, Arg, Src), answer : AnswerOf(Id, Src)]
        /\ c.call = call /\ c.answer = answer
    BY <1>0, <1>4
  <2> HIDE DEF c, kept
  <2>4. kept \in RegistryOf(Id, Name, Arg, Src)
    BY <2>2, <2>3 DEF RegistryOf
  <2>5. CacheFits(kept, c)
    BY <1>4, <2>1, <2>3 DEF CacheFits
  <2>6. RegistryInv(kept)
    BY <1>6, <2>2, <2>3, <2>5 DEF RegistryInv, CacheFits, RunsOnce, AnswerFits
  <2>7. AnswerFits(kept, [scope |-> step.scope, call |-> step.call, answer |-> answer])
    BY <2>2, <2>3 DEF AnswerFits, call
  <2> QED
    BY <1>2, <1>4, <2>1, <2>4, <2>6, <2>7, AnsweredKeeps
<1>8. CASE Refusal(s, call) = "none"
  <2>1. ran = [tools |-> s.tools, cache |-> s.cache, runs |-> Append(s.runs, e), answers |-> s.answers]
    BY <1>1, <1>8
  <2>2. kept = [tools |-> s.tools, cache |-> s.cache \cup {c}, runs |-> Append(s.runs, e), answers |-> s.answers]
    <3>1. kept = [ran EXCEPT !.cache = ran.cache \cup {c}]
      OBVIOUS
    <3> HIDE DEF ran, c, e, kept
    <3> QED
      BY <2>1, <3>1
  <2>3. c \in [call : CallOf(Id, Name, Arg, Src), answer : AnswerOf(Id, Src)]
        /\ c.call = call /\ c.answer = answer
    BY <1>0, <1>4
  <2>4. Kept(s, call.id) = {}
    BY DEF call
  <2> HIDE DEF c, kept, ran
  <2>5. CASE answer.code = "raised"
    <3>0. ran.runs \in Seq([call : CallOf(Id, Name, Arg, Src), outcome : Outcome])
      BY <1>0, <2>1 DEF RegistryOf
    <3>1. /\ RunsOnce(ran)
          /\ \A d \in s.cache : CacheFits(ran, d)
          /\ \A i \in DOMAIN ran.runs :
               ran.runs[i].outcome # "raised" =>
                 (\E d \in ran.cache : d.call.id = ran.runs[i].call.id) \/ ran.runs[i] = e
      <4>1. ran.runs = Append(s.runs, e) /\ s.cache \subseteq ran.cache /\ e = [call |-> call, outcome |-> o]
        BY <2>1
      <4> HIDE DEF e
      <4> QED
        BY <1>0, <2>4, <4>1, RunKeeps
    <3>2. e.outcome = "raised"
      BY <1>4, <2>5
    <3>3. ran \in RegistryOf(Id, Name, Arg, Src)
      BY <2>1, <3>0 DEF RegistryOf
    <3> HIDE DEF e
    <3>4. RegistryInv(ran)
      BY <2>1, <3>1, <3>2 DEF RegistryInv, AnswerFits
    <3> QED
      BY <1>2, <2>5, <3>3, <3>4
  <2>6. CASE answer.code # "raised"
    <3>0. kept.runs \in Seq([call : CallOf(Id, Name, Arg, Src), outcome : Outcome])
      BY <1>0, <2>2 DEF RegistryOf
    <3>1. /\ Len(s.runs) + 1 \in DOMAIN kept.runs
          /\ kept.runs[Len(s.runs) + 1] = e
          /\ RunsOnce(kept)
          /\ \A d \in s.cache : CacheFits(kept, d)
          /\ \A i \in DOMAIN kept.runs :
               kept.runs[i].outcome # "raised" =>
                 (\E d \in kept.cache : d.call.id = kept.runs[i].call.id) \/ kept.runs[i] = e
      <4>1. kept.runs = Append(s.runs, e) /\ s.cache \subseteq kept.cache /\ e = [call |-> call, outcome |-> o]
        BY <2>2
      <4> HIDE DEF e
      <4> QED
        BY <1>0, <2>4, <4>1, RunKeeps
    <3>2. e.call = call /\ (o = "ok" => e = [call |-> call, outcome |-> "ok"])
      OBVIOUS
    <3>3. kept \in RegistryOf(Id, Name, Arg, Src)
      BY <2>2, <2>3, <3>0 DEF RegistryOf
    <3> HIDE DEF e
    <3>4. CacheFits(kept, c)
      BY <1>4, <1>5, <2>3, <2>6, <3>1, <3>2 DEF CacheFits
    <3>5. RegistryInv(kept)
      <4>1. \A d1, d2 \in kept.cache : d1.call.id = d2.call.id => d1 = d2
        BY <1>6, <2>2, <2>3 DEF RegistryInv
      <4>2. \A d \in kept.cache : CacheFits(kept, d)
        BY <2>2, <3>1, <3>4
      <4>3. \A i \in DOMAIN kept.answers : AnswerFits(kept, kept.answers[i])
        BY <2>2 DEF RegistryInv, AnswerFits
      <4>4. c \in kept.cache
        BY <2>2
      <4> QED
        BY <2>3, <3>1, <3>2, <4>1, <4>2, <4>3, <4>4 DEF RegistryInv
    <3>6. AnswerFits(kept, [scope |-> step.scope, call |-> step.call, answer |-> answer])
      BY <2>2, <2>3 DEF AnswerFits, call
    <3> QED
      BY <1>2, <1>4, <2>6, <3>3, <3>5, <3>6, AnsweredKeeps
  <2> QED
    BY <2>5, <2>6
<1> QED
  BY <1>7, <1>8

\* A refusal is a typed answer without sources.
LEMMA FailureTyped ==
  ASSUME NEW Id, NEW Name, NEW Arg, NEW Src, NEW call \in CallOf(Id, Name, Arg, Src),
         NEW code \in AnswerCode
  PROVE  Failure(call, code) \in AnswerOf(Id, Src)
<1>1. call.id \in Id /\ {} \in SUBSET Src /\ 0 \in Nat
  BY DEF CallOf
<1> QED
  BY <1>1 DEF Failure, AnswerOf

\* Every step, a registration, a refusal, a repetition or a run, keeps the invariant.
LEMMA ServeKeeps ==
  ASSUME NEW Id, NEW Name, NEW Arg, NEW Src,
         NEW s \in RegistryOf(Id, Name, Arg, Src), RegistryInv(s),
         NEW step \in StepOf(Id, Name, Arg, Src)
  PROVE  Serve(s, step) \in RegistryOf(Id, Name, Arg, Src) /\ RegistryInv(Serve(s, step))
<1>0. step.call \in CallOf(Id, Name, Arg, Src) /\ step.tool \in Name
  BY DEF StepOf
<1>1. CASE step.op = "register"
  <2> DEFINE t == [s EXCEPT !.tools = @ \cup {step.tool}]
  <2>1. s = [tools |-> s.tools, cache |-> s.cache, runs |-> s.runs, answers |-> s.answers]
    BY DEF RegistryOf
  <2>2. t = [tools |-> s.tools \cup {step.tool}, cache |-> s.cache, runs |-> s.runs, answers |-> s.answers]
    BY <2>1
  <2>3. Serve(s, step) = t
    BY <1>1 DEF Serve, Register
  <2> HIDE DEF t
  <2>4. t \in RegistryOf(Id, Name, Arg, Src)
    BY <1>0, <2>2 DEF RegistryOf
  <2>5. RegistryInv(t)
    BY <2>2 DEF RegistryInv, CacheFits, AnswerFits, RunsOnce
  <2> QED
    BY <2>3, <2>4, <2>5
<1>2. CASE step.op # "register" /\ ScopeRefusal(step.scope, step.call) # "none"
  <2> DEFINE code == ScopeRefusal(step.scope, step.call)
             answer == Failure(step.call, code)
  <2>1. code \in ByScope
    BY <1>2 DEF ScopeRefusal, ByScope
  <2>2. Serve(s, step) = Answered(s, step, answer)
    BY <1>2 DEF Serve, ScopedExecute
  <2> HIDE DEF code
  <2>3. answer \in AnswerOf(Id, Src)
    BY <1>0, <2>1, FailureTyped DEF ByScope, AnswerCode
  <2>4. AnswerFits(s, [scope |-> step.scope, call |-> step.call, answer |-> answer])
    BY <2>1 DEF AnswerFits
  <2> HIDE DEF answer
  <2> QED
    BY <2>2, <2>3, <2>4, AnsweredKeeps
<1>3. CASE step.op # "register" /\ ScopeRefusal(step.scope, step.call) = "none"
  <2> DEFINE kept == Kept(s, step.call.id)
             c == CHOOSE c \in kept : TRUE
             answer == IF c.call = step.call THEN c.answer ELSE Failure(step.call, "call_id_conflict")
  <2>1. Serve(s, step) = IF kept = {} THEN RunCall(s, step) ELSE Answered(s, step, answer)
    BY <1>3 DEF Serve, ScopedExecute, Execute
  <2>2. CASE kept = {}
    BY <1>3, <2>1, <2>2, RunCallKeeps
  <2>3. CASE kept # {}
    <3>1. c \in kept
      BY <2>3
    <3>2. c \in s.cache /\ c.call.id = step.call.id
      BY <3>1 DEF Kept
    <3> HIDE DEF c, kept
    <3>3. c.answer \in AnswerOf(Id, Src)
      BY <3>2 DEF RegistryOf
    <3>4. answer \in AnswerOf(Id, Src)
      BY <1>0, <3>3, FailureTyped DEF AnswerCode
    <3>5. AnswerFits(s, [scope |-> step.scope, call |-> step.call, answer |-> answer])
      BY <1>3, <3>2 DEF AnswerFits
    <3> HIDE DEF answer
    <3> QED
      BY <2>1, <2>3, <3>4, <3>5, AnsweredKeeps
  <2> QED
    BY <2>2, <2>3
<1> QED
  BY <1>1, <1>2, <1>3

\* What the invariant says to whoever reads the answers.
LEMMA RegistryHonest ==
  ASSUME NEW Id, NEW Name, NEW Arg, NEW Src,
         NEW s \in RegistryOf(Id, Name, Arg, Src), RegistryInv(s)
  PROVE  RunsOnce(s) /\ AnswersStand(s) /\ ScopesHold(s)
<1>1. ASSUME NEW g \in ToSet(s.answers)
      PROVE  /\ AnswerFits(s, g)
             /\ g.scope \in ScopeOf(Name, Src)
  <2>1. PICK i \in DOMAIN s.answers : g = s.answers[i]
    BY DEF ToSet
  <2> DEFINE G == [scope : ScopeOf(Name, Src), call : CallOf(Id, Name, Arg, Src), answer : AnswerOf(Id, Src)]
  <2>2. g \in G
    <3>1. s.answers \in Seq(G)
      BY DEF RegistryOf
    <3> HIDE DEF G
    <3> QED
      BY <2>1, <3>1
  <2> QED
    BY <2>1, <2>2 DEF RegistryInv
\* An answer its scope did not refuse is the kept one, or a conflict with it.
<1> DEFINE Stands(g, c) ==
      /\ ScopeRefusal(g.scope, g.call) = "none"
      /\ c.call.id = g.call.id
      /\ g.answer = IF c.call = g.call THEN c.answer ELSE Failure(g.call, "call_id_conflict")
<1>2. ASSUME NEW g \in Served(s)
      PROVE  \E c \in s.cache : Stands(g, c)
  <2>1. g \in ToSet(s.answers) /\ g.answer.code \notin ByScope
    BY DEF Served
  <2>2. \A code \in ByScope : g.answer # Failure(g.call, code)
    BY <2>1 DEF Failure
  <2> QED
    BY <1>1, <2>1, <2>2 DEF AnswerFits
<1>3. ASSUME NEW g \in ToSet(s.answers), g.answer.code = "ok"
      PROVE  /\ ScopeRefusal(g.scope, g.call) = "none"
             /\ \E c \in s.cache : c.call = g.call /\ c.answer = g.answer /\ CacheFits(s, c)
  <2>1. g \in Served(s)
    BY <1>3 DEF Served, ByScope
  <2>2. PICK c \in s.cache : Stands(g, c)
    BY <1>2, <2>1
  <2>3. c.call = g.call
    BY <1>3, <2>2 DEF Failure
  <2> QED
    BY <2>2, <2>3 DEF RegistryInv
<1>4. ASSUME NEW g \in Served(s), NEW h \in Served(s), g.call.id = h.call.id
      PROVE  /\ g.call = h.call => g.answer = h.answer
             /\ g.call # h.call => "call_id_conflict" \in {g.answer.code, h.answer.code}
  <2>1. PICK c \in s.cache : Stands(g, c)
    BY <1>2
  <2>2. PICK d \in s.cache : Stands(h, d)
    BY <1>2
  <2>3. c = d
    BY <1>4, <2>1, <2>2 DEF RegistryInv
  <2> QED
    BY <2>1, <2>2, <2>3 DEF Failure
<1>5. AnswersStand(s)
  <2>1. \A g, h \in Served(s) : g.call = h.call => g.answer = h.answer
    BY <1>4
  <2>2. \A g \in ToSet(s.answers) : g.answer.code = "ok" =>
          g.answer.run \in DOMAIN s.runs /\ s.runs[g.answer.run] = [call |-> g.call, outcome |-> "ok"]
    BY <1>3 DEF CacheFits
  <2>3. \A g, h \in Served(s) : g.call.id = h.call.id /\ g.call # h.call =>
          "call_id_conflict" \in {g.answer.code, h.answer.code}
    BY <1>4
  <2> QED
    BY <2>1, <2>2, <2>3 DEF AnswersStand
<1>6. ASSUME NEW g \in ToSet(s.answers)
      PROVE  /\ g.answer.code = "ok" /\ ~g.scope.open => g.call.name \in g.scope.tools
             /\ ToolResultAccepted(g.scope, g.call, g.answer)
  <2>1. ScopeRefusal(g.scope, g.call) = "none" /\ ~g.scope.open =>
          /\ g.call.name \in g.scope.tools
          /\ g.scope.limited /\ Listed(g.call) => Sources(g.call) \subseteq g.scope.sources
    BY DEF ScopeRefusal
  <2>2. g.scope.limited => ~g.scope.open
    <3>1. \/ g.scope = [tools |-> {}, sources |-> {}, limited |-> FALSE, open |-> TRUE]
          \/ g.scope \in [tools : SUBSET Name, sources : SUBSET Src, limited : BOOLEAN, open : {FALSE}]
      BY <1>1, <1>6 DEF ScopeOf, NoScope
    <3>2. CASE g.scope = [tools |-> {}, sources |-> {}, limited |-> FALSE, open |-> TRUE]
      BY <3>2
    <3>3. CASE g.scope \in [tools : SUBSET Name, sources : SUBSET Src, limited : BOOLEAN, open : {FALSE}]
      <4>1. g.scope.open = FALSE
        BY <3>3
      <4> QED
        BY <4>1
    <3> QED
      BY <3>1, <3>2, <3>3
  <2>3. CASE g.answer.code = "ok"
    <3>1. PICK c \in s.cache : c.call = g.call /\ c.answer = g.answer /\ CacheFits(s, c)
      BY <1>3, <2>3
    <3>2. g.answer.id = g.call.id /\ Listed(g.call) /\ g.answer.sources = Sources(g.call)
      BY <2>3, <3>1 DEF CacheFits
    <3> QED
      BY <1>3, <2>1, <2>2, <2>3, <3>2 DEF ToolResultAccepted
  <2>4. CASE g.answer.code # "ok"
    <3>1. g.answer.id = g.call.id /\ g.answer.sources = {}
      <4>1. CASE \E code : g.answer = Failure(g.call, code)
        BY <4>1 DEF Failure
      <4>2. CASE \E c \in s.cache : c.call.id = g.call.id /\ g.answer = c.answer
        BY <2>4, <4>2 DEF RegistryInv, CacheFits
      <4> QED
        BY <1>1, <1>6, <4>1, <4>2 DEF AnswerFits
    <3> QED
      BY <2>4, <3>1 DEF ToolResultAccepted
  <2> QED
    BY <2>3, <2>4
<1>7. ScopesHold(s)
  BY <1>6 DEF ScopesHold
<1>8. RunsOnce(s)
  BY DEF RegistryInv
<1> QED
  BY <1>5, <1>7, <1>8

\* g is the registry before the first of the n steps and after each.
Serves(g, n, tools, steps) ==
  g = [i \in 0..n |-> IF i = 0 THEN Fresh(tools) ELSE Serve(g[i - 1], steps[i])]

\* A set of numbers that is not empty has a least one.
LEMMA LeastNat ==
  ASSUME NEW S, S \in SUBSET Nat, S # {}
  PROVE  \E m \in S : \A k \in S : m <= k
<1>1. PICK m \in S : \A y \in Nat : <<y, m>> \in OpToRel(<, Nat) => ~(y \in S)
  BY WFMin, NatLessThanWellFounded, Zenon
<1>2. \A k \in S : ~(k < m)
  BY <1>1 DEF OpToRel
<1> QED
  BY <1>2

LEMMA SessionsExist ==
  ASSUME NEW tools, NEW steps, NEW N \in Nat
  PROVE  \E g : Serves(g, N, tools, steps)
<1> DEFINE Stuck == {n \in 0..N : ~ \E g : Serves(g, n, tools, steps)}
<1>1. ASSUME Stuck # {} PROVE FALSE
  <2>1. PICK m \in Stuck : \A k \in Stuck : m <= k
    <3>1. Stuck \in SUBSET Nat
      OBVIOUS
    <3> HIDE DEF Stuck
    <3> QED
      BY <1>1, <3>1, LeastNat
  <2>2. CASE m = 0
    <3>1. Serves([i \in 0..0 |-> Fresh(tools)], 0, tools, steps)
      BY DEF Serves
    <3> QED
      BY <2>1, <2>2, <3>1
  <2>3. CASE m > 0
    <3>1. PICK g : Serves(g, m - 1, tools, steps)
      BY <2>1, <2>3
    <3> DEFINE h == [i \in 0..m |-> IF i < m THEN g[i] ELSE Serve(g[m - 1], steps[m])]
    <3>2. ASSUME NEW i \in 0..m
          PROVE  h[i] = IF i = 0 THEN Fresh(tools) ELSE Serve(h[i - 1], steps[i])
      BY <2>1, <2>3, <3>1 DEF Serves
    <3>3. Serves(h, m, tools, steps)
      BY <3>2 DEF Serves
    <3> QED
      BY <2>1, <3>3
  <2> QED
    BY <2>1, <2>2, <2>3
<1> QED
  BY <1>1

LEMMA SessionsAt ==
  ASSUME NEW X, NEW steps \in Seq(X), NEW tools
  PROVE  /\ Sessions(tools, steps)[0] = Fresh(tools)
         /\ \A n \in 1..Len(steps) :
              Sessions(tools, steps)[n] = Serve(Sessions(tools, steps)[n - 1], steps[n])
<1>0. Len(steps) \in Nat
  OBVIOUS
<1>1. \E g : Serves(g, Len(steps), tools, steps)
  BY <1>0, SessionsExist
<1>2. Serves(Sessions(tools, steps), Len(steps), tools, steps)
  BY <1>1 DEF Serves, Sessions
<1> DEFINE P == Sessions(tools, steps)
<1>3. P = [i \in 0..Len(steps) |-> IF i = 0 THEN Fresh(tools) ELSE Serve(P[i - 1], steps[i])]
  BY <1>2, Zenon DEF Serves
<1> HIDE DEF P
<1>4. P[0] = Fresh(tools) /\ \A n \in 1..Len(steps) : P[n] = Serve(P[n - 1], steps[n])
  BY <1>0, <1>3
<1> QED
  BY <1>4 DEF P

LEMMA SessionKeeps ==
  ASSUME NEW Id, NEW Name, NEW Arg, NEW Src,
         NEW tools \in SUBSET Name, NEW steps \in Seq(StepOf(Id, Name, Arg, Src))
  PROVE  /\ Session(tools, steps) \in RegistryOf(Id, Name, Arg, Src)
         /\ RegistryInv(Session(tools, steps))
<1> DEFINE P == Sessions(tools, steps)
           Holds(k) == P[k] \in RegistryOf(Id, Name, Arg, Src) /\ RegistryInv(P[k])
           Broken == {k \in 0..Len(steps) : ~Holds(k)}
<1>0. Len(steps) \in Nat
  OBVIOUS
<1>1. P[0] = Fresh(tools) /\ \A k \in 1..Len(steps) : P[k] = Serve(P[k - 1], steps[k])
  BY SessionsAt
<1> HIDE DEF P
<1>2. Holds(0)
  <2>1. P[0] \in RegistryOf(Id, Name, Arg, Src)
    BY <1>1 DEF Fresh, RegistryOf
  <2>2. P[0].cache = {} /\ DOMAIN P[0].runs = {} /\ DOMAIN P[0].answers = {}
    BY <1>1 DEF Fresh
  <2>3. RegistryInv(P[0])
    BY <2>2 DEF RegistryInv, RunsOnce
  <2> QED
    BY <2>1, <2>3
<1>3. ASSUME NEW k \in 1..Len(steps), Holds(k - 1) PROVE Holds(k)
  <2>1. steps[k] \in StepOf(Id, Name, Arg, Src)
    OBVIOUS
  <2> QED
    BY <1>1, <1>3, <2>1, ServeKeeps
<1>4. ASSUME Broken # {} PROVE FALSE
  <2>1. PICK m \in Broken : \A k \in Broken : m <= k
    <3>1. Broken \in SUBSET Nat
      OBVIOUS
    <3> HIDE DEF Broken
    <3> QED
      BY <1>4, <3>1, LeastNat
  <2>2. m \in 1..Len(steps) /\ m - 1 \notin Broken /\ m - 1 \in 0..Len(steps)
    BY <1>0, <1>2, <2>1
  <2> QED
    BY <1>3, <2>1, <2>2
<1>5. Holds(Len(steps))
  BY <1>0, <1>4
<1> QED
  BY <1>5 DEF P, Session

\* What calls to come are answered from: everything but the answers given.
SameCore(r, s) == r.cache = s.cache /\ r.runs = s.runs /\ r.tools = s.tools

LEMMA AnsweredCore ==
  ASSUME NEW Id, NEW Name, NEW Arg, NEW Src, NEW s \in RegistryOf(Id, Name, Arg, Src), NEW step, NEW answer
  PROVE  SameCore(Answered(s, step, answer), s)
BY DEF RegistryOf, Answered, SameCore

\* A scope's refusal changes nothing but the answers.
LEMMA RefusedCore ==
  ASSUME NEW Id, NEW Name, NEW Arg, NEW Src, NEW s \in RegistryOf(Id, Name, Arg, Src), NEW step, ~Passes(step)
  PROVE  SameCore(Serve(s, step), s)
<1>1. Serve(s, step) = Answered(s, step, Failure(step.call, ScopeRefusal(step.scope, step.call)))
  BY DEF Passes, Serve, ScopedExecute
<1> QED
  BY <1>1, AnsweredCore

\* A run adds to the cache and to the runs what the cache and the runs decide.
Ran(s, step) ==
  IF Refusal(s, step.call) # "none" THEN s
  ELSE [s EXCEPT !.runs = Append(@, [call |-> step.call, outcome |-> step.outcome])]

Keeping(s, step, answer) ==
  [Ran(s, step) EXCEPT !.cache = @ \cup {[call |-> step.call, answer |-> answer]}]

LEMMA RunCallMade ==
  ASSUME NEW s, NEW step, NEW answer, answer = ExecuteOnce(s, step.call, step.outcome)
  PROVE  RunCall(s, step) = IF answer.code = "raised" THEN Ran(s, step)
                            ELSE Answered(Keeping(s, step, answer), step, answer)
<1>1. RunCall(s, step) = IF ExecuteOnce(s, step.call, step.outcome).code = "raised" THEN Ran(s, step)
                         ELSE Answered(Keeping(s, step, ExecuteOnce(s, step.call, step.outcome)), step,
                                       ExecuteOnce(s, step.call, step.outcome))
  BY DEF RunCall, Ran, Keeping
<1> QED
  BY <1>1

LEMMA RunCallCore ==
  ASSUME NEW Id, NEW Name, NEW Arg, NEW Src, NEW r \in RegistryOf(Id, Name, Arg, Src),
         NEW s \in RegistryOf(Id, Name, Arg, Src), SameCore(r, s), NEW step
  PROVE  SameCore(RunCall(r, step), RunCall(s, step))
<1>1. PICK answer : answer = ExecuteOnce(s, step.call, step.outcome)
  OBVIOUS
<1>2. Refusal(r, step.call) = Refusal(s, step.call) /\ answer = ExecuteOnce(r, step.call, step.outcome)
  BY <1>1 DEF SameCore, Refusal, ExecuteOnce
<1>3. /\ RunCall(r, step) = IF answer.code = "raised" THEN Ran(r, step)
                            ELSE Answered(Keeping(r, step, answer), step, answer)
      /\ RunCall(s, step) = IF answer.code = "raised" THEN Ran(s, step)
                            ELSE Answered(Keeping(s, step, answer), step, answer)
  BY <1>1, <1>2, RunCallMade
<1>4. SameCore(Ran(r, step), Ran(s, step))
  BY <1>2 DEF Ran, SameCore, RegistryOf
<1>5. ASSUME NEW t \in RegistryOf(Id, Name, Arg, Src)
      PROVE  SameCore(Answered(Keeping(t, step, answer), step, answer),
                      [tools |-> t.tools, runs |-> Ran(t, step).runs,
                       cache |-> t.cache \cup {[call |-> step.call, answer |-> answer]}])
  BY DEF Keeping, Ran, Answered, SameCore, RegistryOf
<1>6. SameCore(Answered(Keeping(r, step, answer), step, answer), Answered(Keeping(s, step, answer), step, answer))
  BY <1>4, <1>5 DEF SameCore
<1> QED
  BY <1>3, <1>4, <1>6

LEMMA ServeCore ==
  ASSUME NEW Id, NEW Name, NEW Arg, NEW Src, NEW r \in RegistryOf(Id, Name, Arg, Src),
         NEW s \in RegistryOf(Id, Name, Arg, Src), SameCore(r, s), NEW step
  PROVE  SameCore(Serve(r, step), Serve(s, step))
<1>1. CASE step.op = "register"
  BY <1>1 DEF Serve, Register, RegistryOf, SameCore
<1>2. CASE ~Passes(step)
  BY <1>2, RefusedCore DEF SameCore
<1>3. CASE step.op # "register" /\ Passes(step)
  <2>1. Serve(r, step) = Execute(r, step) /\ Serve(s, step) = Execute(s, step)
    BY <1>3 DEF Passes, Serve, ScopedExecute
  <2>2. Kept(r, step.call.id) = Kept(s, step.call.id)
    BY DEF SameCore, Kept
  <2>3. CASE Kept(s, step.call.id) = {}
    BY <2>1, <2>2, <2>3, RunCallCore DEF Execute
  <2>4. CASE Kept(s, step.call.id) # {}
    <3>1. PICK a, b : Execute(r, step) = Answered(r, step, a) /\ Execute(s, step) = Answered(s, step, b)
      BY <2>2, <2>4 DEF Execute
    <3> QED
      BY <2>1, <3>1, AnsweredCore DEF SameCore
  <2> QED
    BY <2>3, <2>4
<1> QED
  BY <1>1, <1>2, <1>3

\* g is the session before the first of the n steps and after each, refused ones left out.
Skips(g, n, tools, steps) ==
  g = [i \in 0..n |-> IF i = 0 THEN Fresh(tools)
                      ELSE IF Passes(steps[i]) THEN Serve(g[i - 1], steps[i]) ELSE g[i - 1]]

LEMMA QuietExists ==
  ASSUME NEW tools, NEW steps, NEW N \in Nat
  PROVE  \E g : Skips(g, N, tools, steps)
<1> DEFINE Stuck == {n \in 0..N : ~ \E g : Skips(g, n, tools, steps)}
<1>1. ASSUME Stuck # {} PROVE FALSE
  <2>1. PICK m \in Stuck : \A k \in Stuck : m <= k
    <3>1. Stuck \in SUBSET Nat
      OBVIOUS
    <3> HIDE DEF Stuck
    <3> QED
      BY <1>1, <3>1, LeastNat
  <2>2. CASE m = 0
    <3>1. Skips([i \in 0..0 |-> Fresh(tools)], 0, tools, steps)
      BY DEF Skips
    <3> QED
      BY <2>1, <2>2, <3>1
  <2>3. CASE m > 0
    <3>1. PICK g : Skips(g, m - 1, tools, steps)
      BY <2>1, <2>3
    <3> DEFINE last == IF Passes(steps[m]) THEN Serve(g[m - 1], steps[m]) ELSE g[m - 1]
               h == [i \in 0..m |-> IF i < m THEN g[i] ELSE last]
    <3>2. ASSUME NEW i \in 0..m
          PROVE  h[i] = IF i = 0 THEN Fresh(tools)
                        ELSE IF Passes(steps[i]) THEN Serve(h[i - 1], steps[i]) ELSE h[i - 1]
      BY <2>1, <2>3, <3>1 DEF Skips
    <3>3. Skips(h, m, tools, steps)
      BY <3>2 DEF Skips
    <3> QED
      BY <2>1, <3>3
  <2> QED
    BY <2>1, <2>2, <2>3
<1> QED
  BY <1>1

LEMMA QuietAt ==
  ASSUME NEW X, NEW steps \in Seq(X), NEW tools
  PROVE  /\ Quiet(tools, steps)[0] = Fresh(tools)
         /\ \A n \in 1..Len(steps) :
              Quiet(tools, steps)[n] = IF Passes(steps[n]) THEN Serve(Quiet(tools, steps)[n - 1], steps[n])
                                       ELSE Quiet(tools, steps)[n - 1]
<1>0. Len(steps) \in Nat
  OBVIOUS
<1>1. \E g : Skips(g, Len(steps), tools, steps)
  BY <1>0, QuietExists
<1>2. Skips(Quiet(tools, steps), Len(steps), tools, steps)
  BY <1>1 DEF Skips, Quiet
<1> DEFINE Q == Quiet(tools, steps)
<1>3. Q = [i \in 0..Len(steps) |-> IF i = 0 THEN Fresh(tools)
                                   ELSE IF Passes(steps[i]) THEN Serve(Q[i - 1], steps[i]) ELSE Q[i - 1]]
  BY <1>2, Zenon DEF Skips
<1> HIDE DEF Q
<1>4. Q[0] = Fresh(tools) /\ \A n \in 1..Len(steps) : Q[n] = IF Passes(steps[n]) THEN Serve(Q[n - 1], steps[n]) ELSE Q[n - 1]
  BY <1>0, <1>3
<1> QED
  BY <1>4 DEF Q

LEMMA SessionUnseen ==
  ASSUME NEW Id, NEW Name, NEW Arg, NEW Src,
         NEW tools \in SUBSET Name, NEW steps \in Seq(StepOf(Id, Name, Arg, Src))
  PROVE  RefusalsUnseen(tools, steps)
<1> DEFINE P == Sessions(tools, steps)
           Q == Quiet(tools, steps)
           Good(t) == t \in RegistryOf(Id, Name, Arg, Src) /\ RegistryInv(t)
           Holds(k) == Good(P[k]) /\ Good(Q[k]) /\ SameCore(Q[k], P[k])
           Broken == {k \in 0..Len(steps) : ~Holds(k)}
<1>0. Len(steps) \in Nat
  OBVIOUS
<1>1. P[0] = Fresh(tools) /\ \A k \in 1..Len(steps) : P[k] = Serve(P[k - 1], steps[k])
  BY SessionsAt
<1>2. /\ Q[0] = Fresh(tools)
      /\ \A k \in 1..Len(steps) : Q[k] = IF Passes(steps[k]) THEN Serve(Q[k - 1], steps[k]) ELSE Q[k - 1]
  BY QuietAt
<1> HIDE DEF P, Q
<1>3. Holds(0)
  <2>1. Fresh(tools) \in RegistryOf(Id, Name, Arg, Src)
    BY DEF Fresh, RegistryOf
  <2>2. RegistryInv(Fresh(tools))
    BY DEF Fresh, RegistryInv, RunsOnce
  <2> QED
    BY <1>1, <1>2, <2>1, <2>2 DEF SameCore
<1>4. ASSUME NEW k \in 1..Len(steps), Holds(k - 1) PROVE Holds(k)
  <2>1. steps[k] \in StepOf(Id, Name, Arg, Src)
    OBVIOUS
  <2>2. Good(P[k]) /\ Good(Serve(Q[k - 1], steps[k]))
    BY <1>1, <1>4, <2>1, ServeKeeps
  <2>3. SameCore(Serve(Q[k - 1], steps[k]), P[k])
    BY <1>1, <1>4, ServeCore
  <2>4. ASSUME ~Passes(steps[k]) PROVE SameCore(Q[k - 1], P[k])
    BY <1>1, <1>4, <2>4, RefusedCore DEF SameCore
  <2> QED
    BY <1>2, <1>4, <2>2, <2>3, <2>4
<1>5. ASSUME Broken # {} PROVE FALSE
  <2>1. PICK m \in Broken : \A k \in Broken : m <= k
    <3>1. Broken \in SUBSET Nat
      OBVIOUS
    <3> HIDE DEF Broken
    <3> QED
      BY <1>5, <3>1, LeastNat
  <2>2. m \in 1..Len(steps) /\ m - 1 \notin Broken /\ m - 1 \in 0..Len(steps)
    BY <1>0, <1>3, <2>1
  <2> QED
    BY <1>4, <2>1, <2>2
<1>6. Holds(Len(steps))
  BY <1>0, <1>5
<1> QED
  BY <1>6 DEF P, Q, Session, SameCore, RefusalsUnseen

\* Over a session of any length, with tools registered along the way and handlers
\* that need not do the same twice: a handler that has returned for a call ID never
\* runs for it again, one call has one answer, an ID stands for one call, every result
\* is that of a run of the very call, nothing outside of a scope gets through it, and
\* what a scope refuses leaves no trace.
THEOREM SessionsStaySound ==
  ASSUME NEW Id, NEW Name, NEW Arg, NEW Src,
         NEW tools \in SUBSET Name, NEW steps \in Seq(StepOf(Id, Name, Arg, Src))
  PROVE  SessionSound(tools, steps)
BY SessionKeeps, RegistryHonest, SessionUnseen DEF SessionSound

--------------------------------------------------------------------------------
(* What the trusted argument binding lets run.                                  *)

\* The least number of a set is one of the set.
LEMMA MinNat ==
  ASSUME NEW S, S \in SUBSET Nat, S # {}
  PROVE  Min(S) \in S
<1>1. \E m \in S : \A k \in S : m <= k
  BY LeastNat
<1> QED
  BY <1>1 DEF Min

\* The first error is one of the errors, if there is any.
LEMMA FirstErrorFacts ==
  ASSUME NEW errors, DOMAIN errors \subseteq Nat
  PROVE  /\ FirstError(errors) = NoError <=> \A i \in DOMAIN errors : errors[i] = NoError
         /\ FirstError(errors) # NoError => \E i \in DOMAIN errors : errors[i] = FirstError(errors)
<1> DEFINE raised == {i \in DOMAIN errors : errors[i] # NoError}
<1>1. CASE raised = {}
  BY <1>1 DEF FirstError
<1>2. CASE raised # {}
  <2>1. Min(raised) \in raised
    <3>1. raised \in SUBSET Nat
      OBVIOUS
    <3> HIDE DEF raised
    <3> QED
      BY <1>2, <3>1, MinNat
  <2>2. FirstError(errors) = errors[Min(raised)]
    BY <1>2 DEF FirstError
  <2> QED
    BY <2>1, <2>2
<1> QED
  BY <1>1, <1>2

\* One field of the controller is enough to be refused.
LEMMA RejectFacts ==
  ASSUME NEW p
  PROVE  /\ RejectControllerFields(p) = NoError <=> p.fields \cap ControllerFields(p.tool) = {}
         /\ RejectControllerFields(p) \in {NoError, "controller_field_not_allowed", "unbound_numeric_input"}
<1> DEFINE all == {"benchmark_returns", "context", "net_debt", "prices", "returns",
                   "shares_outstanding", "source_ids", "unit", "values"}
           supplied == {i \in DOMAIN Alphabetical : Alphabetical[i] \in p.fields \cap ControllerFields(p.tool)}
<1>1. ControllerFields(p.tool) \subseteq all
  BY DEF ControllerFields
<1>2. \A f \in all : \E i \in 1..9 : Alphabetical[i] = f
  <2>1. /\ Alphabetical[1] = "benchmark_returns" /\ Alphabetical[2] = "context" /\ Alphabetical[3] = "net_debt"
        /\ Alphabetical[4] = "prices" /\ Alphabetical[5] = "returns" /\ Alphabetical[6] = "shares_outstanding"
        /\ Alphabetical[7] = "source_ids" /\ Alphabetical[8] = "unit" /\ Alphabetical[9] = "values"
    BY DEF Alphabetical
  <2> QED
    BY <2>1
<1>3. DOMAIN Alphabetical = 1..9
  BY DEF Alphabetical
<1>4. supplied = {} <=> p.fields \cap ControllerFields(p.tool) = {}
  BY <1>1, <1>2, <1>3
<1>5. RejectControllerFields(p) = IF supplied = {} THEN NoError
      ELSE IF Alphabetical[Min(supplied)] \in {"source_ids", "context", "unit"}
        THEN "controller_field_not_allowed"
        ELSE "unbound_numeric_input"
  BY DEF RejectControllerFields
<1> HIDE DEF supplied
<1> QED
  BY <1>4, <1>5 DEF NoError

\* A function on a finite set takes finitely many values.
LEMMA ImageFinite ==
  ASSUME NEW f, IsFiniteSet(DOMAIN f)
  PROVE  IsFiniteSet({f[x] : x \in DOMAIN f})
<1> DEFINE T == {f[x] : x \in DOMAIN f}
           g == [x \in DOMAIN f |-> f[x]]
<1>1. g \in Surjection(DOMAIN f, T)
  BY DEF Surjection
<1> HIDE DEF T, g
<1> QED
  BY <1>1, FS_Surjection DEF T

\* Cardinalities up to one, without counting.
LEMMA AtMostOne ==
  ASSUME NEW S, IsFiniteSet(S)
  PROVE  /\ Cardinality(S) <= 1 <=> \A x, y \in S : x = y
         /\ Cardinality(S) = 1 <=> S # {} /\ \A x, y \in S : x = y
<1>1. Cardinality(S) \in Nat /\ (Cardinality(S) = 0 <=> S = {})
  BY FS_CardinalityType, FS_EmptySet
<1>2. Cardinality(S) = 1 <=> \E x : S = {x}
  BY FS_Singleton
<1> QED
  BY <1>1, <1>2

\* What _validate_observation_compatibility counts is a relation of any two.
Comparable(x, y) ==
  /\ x.entity = y.entity
  /\ "ratio" \notin {x.kind, y.kind} => x.scale = y.scale
  /\ Monetary(x) /\ Monetary(y) => x.symbol = y.symbol

\* Observations are compatible when any two of them are comparable.
LEMMA CompatiblePairs ==
  ASSUME NEW obs, NEW n \in Nat, n > 0, DOMAIN obs = 1..n
  PROVE  Compatible(obs) <=> \A i, j \in 1..n : Comparable(obs[i], obs[j])
<1> DEFINE all == ToSet(obs)
           entities == {o.entity : o \in all}
           scales == {o.scale : o \in {x \in all : x.kind # "ratio"}}
           symbols == {o.symbol : o \in {x \in all : Monetary(x)}}
<1>1. IsFiniteSet(1..n)
  BY FS_Interval
<1>2. IsFiniteSet(entities) /\ IsFiniteSet(scales) /\ IsFiniteSet(symbols)
  <2> DEFINE f == [i \in 1..n |-> obs[i].entity]
             g == [i \in 1..n |-> obs[i].scale]
             h == [i \in 1..n |-> obs[i].symbol]
  <2>1. IsFiniteSet({f[x] : x \in DOMAIN f})
    BY <1>1, ImageFinite
  <2>2. IsFiniteSet({g[x] : x \in DOMAIN g})
    BY <1>1, ImageFinite
  <2>3. IsFiniteSet({h[x] : x \in DOMAIN h})
    BY <1>1, ImageFinite
  <2>4. /\ entities \subseteq {f[x] : x \in DOMAIN f}
        /\ scales \subseteq {g[x] : x \in DOMAIN g}
        /\ symbols \subseteq {h[x] : x \in DOMAIN h}
    BY DEF ToSet
  <2> HIDE DEF f, g, h, entities, scales, symbols
  <2> QED
    BY <2>1, <2>2, <2>3, <2>4, FS_Subset
<1>3. Compatible(obs) <=> Cardinality(entities) = 1 /\ Cardinality(scales) <= 1 /\ Cardinality(symbols) <= 1
  BY DEF Compatible
<1>4. Compatible(obs) <=> /\ entities # {} /\ \A x, y \in entities : x = y
                          /\ \A x, y \in scales : x = y
                          /\ \A x, y \in symbols : x = y
  <2> HIDE DEF entities, scales, symbols
  <2> QED
    BY <1>2, <1>3, AtMostOne
<1>5. all = {obs[i] : i \in 1..n} /\ 1 \in 1..n
  BY DEF ToSet
<1>6. entities # {}
  BY <1>5
<1>7. /\ \A e : e \in entities <=> \E i \in 1..n : e = obs[i].entity
      /\ \A e : e \in scales <=> \E i \in 1..n : obs[i].kind # "ratio" /\ e = obs[i].scale
      /\ \A e : e \in symbols <=> \E i \in 1..n : Monetary(obs[i]) /\ e = obs[i].symbol
  <2> HIDE DEF all
  <2> QED
    BY <1>5
<1> HIDE DEF all, entities, scales, symbols
<1>8. (\A x, y \in entities : x = y) <=> \A i, j \in 1..n : obs[i].entity = obs[j].entity
  <2> DEFINE f == [i \in 1..n |-> obs[i].entity]
  <2>1. \A e : e \in entities <=> \E i \in 1..n : e = f[i]
    BY <1>7
  <2>2. \A i \in 1..n : f[i] = obs[i].entity
    OBVIOUS
  <2> HIDE DEF f
  <2>3. (\A x, y \in entities : x = y) <=> \A i, j \in 1..n : f[i] = f[j]
    <3>1. ASSUME \A x, y \in entities : x = y, NEW i \in 1..n, NEW j \in 1..n PROVE f[i] = f[j]
      <4>1. f[i] \in entities /\ f[j] \in entities
        BY <2>1
      <4> QED
        BY <3>1, <4>1
    <3>2. ASSUME \A i, j \in 1..n : f[i] = f[j], NEW x \in entities, NEW y \in entities PROVE x = y
      <4>1. PICK i \in 1..n, j \in 1..n : x = f[i] /\ y = f[j]
        BY <2>1
      <4> QED
        BY <3>2, <4>1
    <3> QED
      BY <3>1, <3>2
  <2> QED
    BY <2>2, <2>3
<1>9. (\A x, y \in scales : x = y)
        <=> \A i, j \in 1..n : obs[i].kind # "ratio" /\ obs[j].kind # "ratio" => obs[i].scale = obs[j].scale
  <2> DEFINE f == [i \in 1..n |-> obs[i].scale]
             I == {i \in 1..n : obs[i].kind # "ratio"}
  <2>1. \A e : e \in scales <=> \E i \in I : e = f[i]
    BY <1>7
  <2>2. \A i \in 1..n : f[i] = obs[i].scale
    OBVIOUS
  <2> HIDE DEF f
  <2>3. (\A x, y \in scales : x = y) <=> \A i, j \in I : f[i] = f[j]
    <3> HIDE DEF I
    <3>1. ASSUME \A x, y \in scales : x = y, NEW i \in I, NEW j \in I PROVE f[i] = f[j]
      <4>1. f[i] \in scales /\ f[j] \in scales
        BY <2>1
      <4> QED
        BY <3>1, <4>1
    <3>2. ASSUME \A i, j \in I : f[i] = f[j], NEW x \in scales, NEW y \in scales PROVE x = y
      <4>1. PICK i \in I, j \in I : x = f[i] /\ y = f[j]
        BY <2>1
      <4> QED
        BY <3>2, <4>1
    <3> QED
      BY <3>1, <3>2
  <2> QED
    BY <2>2, <2>3
<1>10. (\A x, y \in symbols : x = y)
        <=> \A i, j \in 1..n : Monetary(obs[i]) /\ Monetary(obs[j]) => obs[i].symbol = obs[j].symbol
  BY <1>7
<1> QED
  BY <1>4, <1>6, <1>8, <1>9, <1>10 DEF Comparable

--------------------------------------------------------------------------------
(* The references of one slot.                                                  *)

\* g is what the first n references have in the slot, before the first and after each.
Picks(g, n, refs, slot) ==
  g = [i \in 0..n |-> IF i = 0 THEN <<>>
                      ELSE IF refs[i][1] = slot THEN Append(g[i - 1], refs[i]) ELSE g[i - 1]]

\* The picking of references is defined for every number of them.
LEMMA PickingExists ==
  ASSUME NEW refs, NEW slot, NEW N \in Nat
  PROVE  \E g : Picks(g, N, refs, slot)
<1> DEFINE Stuck == {n \in 0..N : ~ \E g : Picks(g, n, refs, slot)}
<1>1. ASSUME Stuck # {} PROVE FALSE
  <2>1. PICK m \in Stuck : \A k \in Stuck : m <= k
    <3>1. Stuck \in SUBSET Nat
      OBVIOUS
    <3> HIDE DEF Stuck
    <3> QED
      BY <1>1, <3>1, LeastNat
  <2>2. CASE m = 0
    <3>1. Picks([i \in 0..0 |-> <<>>], 0, refs, slot)
      BY DEF Picks
    <3> QED
      BY <2>1, <2>2, <3>1
  <2>3. CASE m > 0
    <3>1. PICK g : Picks(g, m - 1, refs, slot)
      BY <2>1, <2>3
    <3> DEFINE last == IF refs[m][1] = slot THEN Append(g[m - 1], refs[m]) ELSE g[m - 1]
               h == [i \in 0..m |-> IF i < m THEN g[i] ELSE last]
    <3>2. ASSUME NEW i \in 0..m
          PROVE  h[i] = IF i = 0 THEN <<>>
                        ELSE IF refs[i][1] = slot THEN Append(h[i - 1], refs[i]) ELSE h[i - 1]
      <4>1. \A k \in 0..(m - 1) : h[k] = g[k]
        BY <2>1, <2>3
      <4>2. CASE i < m
        <5>0. i \in 0..(m - 1)
          BY <2>1, <4>2
        <5>1. g[i] = IF i = 0 THEN <<>>
                     ELSE IF refs[i][1] = slot THEN Append(g[i - 1], refs[i]) ELSE g[i - 1]
          BY <3>1, <5>0, Zenon DEF Picks
        <5>2. h[i] = g[i] /\ (i # 0 => h[i - 1] = g[i - 1])
          BY <2>1, <4>1, <4>2
        <5> HIDE DEF h
        <5> QED
          BY <5>1, <5>2
      <4>3. CASE i = m
        <5>1. h[i] = last /\ h[i - 1] = g[m - 1] /\ i # 0
          BY <2>1, <2>3, <4>1, <4>3
        <5> HIDE DEF h
        <5> QED
          BY <4>3, <5>1
      <4> QED
        BY <2>1, <4>2, <4>3
    <3>3. Picks(h, m, refs, slot)
      BY <3>2 DEF Picks
    <3> QED
      BY <2>1, <3>3
  <2> QED
    BY <2>1, <2>2, <2>3
<1> QED
  BY <1>1

\* One more reference is appended when its slot is the one that is picked.
LEMMA PickingAt ==
  ASSUME NEW X, NEW refs \in Seq(X), NEW slot
  PROVE  /\ Picking(refs, slot)[0] = <<>>
         /\ \A n \in 1..Len(refs) :
              Picking(refs, slot)[n] = IF refs[n][1] = slot THEN Append(Picking(refs, slot)[n - 1], refs[n])
                                       ELSE Picking(refs, slot)[n - 1]
<1>0. Len(refs) \in Nat
  OBVIOUS
<1>1. \E g : Picks(g, Len(refs), refs, slot)
  BY <1>0, PickingExists
<1>2. Picks(Picking(refs, slot), Len(refs), refs, slot)
  BY <1>1 DEF Picks, Picking
<1> DEFINE P == Picking(refs, slot)
<1>3. P = [i \in 0..Len(refs) |-> IF i = 0 THEN <<>>
                                  ELSE IF refs[i][1] = slot THEN Append(P[i - 1], refs[i]) ELSE P[i - 1]]
  BY <1>2, Zenon DEF Picks
<1> HIDE DEF P
<1>4. P[0] = <<>>
  BY <1>0, <1>3
<1>5. ASSUME NEW n \in 1..Len(refs)
      PROVE  P[n] = IF refs[n][1] = slot THEN Append(P[n - 1], refs[n]) ELSE P[n - 1]
  <2>1. n \in 0..Len(refs) /\ n # 0
    BY <1>0
  <2> QED
    BY <1>3, <2>1, Zenon
<1> QED
  BY <1>4, <1>5 DEF P

\* pos leads from the places of s to all of C, upwards.
Lists(pos, s, refs, C) ==
  /\ pos \in [1..Len(s) -> C]
  /\ \A i, j \in 1..Len(s) : i < j => pos[i] < pos[j]
  /\ \A c \in C : \E k \in 1..Len(s) : pos[k] = c
  /\ \A k \in 1..Len(s) : s[k] = refs[pos[k]]

\* The references of a slot are those whose first component it is, in their order.
LEMMA PickedFacts ==
  ASSUME NEW X, NEW refs \in Seq(X), NEW slot
  PROVE  LET picked == InSlot(refs, slot)
             C == {i \in 1..Len(refs) : refs[i][1] = slot}
         IN  picked \in Seq(X) /\ Len(picked) = Cardinality(C) /\ \E pos : Lists(pos, picked, refs, C)
<1> DEFINE P == Picking(refs, slot)
           C(n) == {i \in 1..n : refs[i][1] = slot}
           Good(n) == P[n] \in Seq(X) /\ Len(P[n]) = Cardinality(C(n)) /\ \E pos : Lists(pos, P[n], refs, C(n))
           Broken == {k \in 0..Len(refs) : ~Good(k)}
<1>0. Len(refs) \in Nat
  OBVIOUS
<1>1. P[0] = <<>> /\ \A n \in 1..Len(refs) : P[n] = IF refs[n][1] = slot THEN Append(P[n - 1], refs[n]) ELSE P[n - 1]
  BY PickingAt
<1> HIDE DEF P
<1>2. Good(0)
  <2>1. C(0) = {} /\ P[0] = <<>> /\ Len(P[0]) = 0
    BY <1>1
  <2>2. Lists([k \in 1..0 |-> 0], P[0], refs, {})
    BY <2>1 DEF Lists
  <2> QED
    BY <2>1, <2>2, FS_EmptySet
<1>3. ASSUME NEW n \in 1..Len(refs), Good(n - 1) PROVE Good(n)
  <2>0. n \in Nat /\ n - 1 \in Nat /\ refs[n] \in X
    BY <1>0
  <2>1. PICK pos : Lists(pos, P[n - 1], refs, C(n - 1))
    BY <1>3
  <2>2. CASE refs[n][1] # slot
    <3>1. C(n) = C(n - 1)
      BY <2>0, <2>2
    <3>2. P[n] = P[n - 1]
      BY <1>1, <2>2
    <3> QED
      BY <1>3, <3>1, <3>2
  <2>3. CASE refs[n][1] = slot
    <3> DEFINE s == P[n - 1]
               t == P[n]
               L == Len(s)
               D == C(n - 1)
               next == [k \in 1..(L + 1) |-> IF k = L + 1 THEN n ELSE pos[k]]
    <3>1. s \in Seq(X) /\ L = Len(s) /\ L \in Nat /\ L = Cardinality(D) /\ Lists(pos, s, refs, D)
      BY <1>3, <2>1
    <3>2. t = Append(s, refs[n])
      BY <1>1, <2>3
    <3>3. C(n) = D \cup {n} /\ n \notin D /\ \A c \in D : c \in Nat /\ c < n
      BY <2>0, <2>3
    <3>0. D = C(n - 1) /\ D \in SUBSET (1..Len(refs))
      BY <1>0
    <3> HIDE DEF s, t, D, C, L
    <3>4. t \in Seq(X) /\ Len(t) = L + 1 /\ t[L + 1] = refs[n] /\ \A k \in 1..L : t[k] = s[k]
      <4>1. PICK e \in X : e = refs[n]
        BY <2>0
      <4>2. t = Append(s, e)
        BY <3>2, <4>1
      <4>3. s \in Seq(X)
        BY <3>1, Zenon
      <4>4. t \in Seq(X)
        BY <4>2, <4>3, AppendProperties
      <4>5. Len(t) = Len(s) + 1 /\ t[Len(s) + 1] = e /\ \A k \in 1..Len(s) : t[k] = s[k]
        BY <4>2, <4>3, AppendProperties
      <4> QED
        BY <3>1, <4>1, <4>4, <4>5, Zenon
    <3>5. Cardinality(C(n)) = L + 1
      <4>1. IsFiniteSet(1..Len(refs))
        BY <1>0, FS_Interval
      <4>2. IsFiniteSet(D)
        BY <3>0, <4>1, FS_Subset
      <4>3. Cardinality(D \cup {n}) = L + 1
        BY <3>1, <3>3, <4>2, FS_AddElement
      <4> QED
        BY <3>3, <4>3
    <3>6. Lists(next, t, refs, D \cup {n})
      <4>0. pos \in [1..L -> D] /\ (\A i, j \in 1..L : i < j => pos[i] < pos[j])
            /\ (\A c \in D : \E k \in 1..L : pos[k] = c) /\ \A k \in 1..L : s[k] = refs[pos[k]]
        BY <3>1 DEF Lists
      <4>1. ASSUME NEW k \in 1..L PROVE next[k] = pos[k] /\ pos[k] \in D /\ pos[k] < n /\ pos[k] \in Nat
        <5>1. pos[k] \in D
          BY <4>0
        <5>2. k \in 1..(L + 1) /\ k # L + 1
          BY <3>1
        <5>3. next[k] = pos[k]
          BY <5>2
        <5> QED
          BY <3>3, <5>1, <5>3
      <4>2. next[L + 1] = n
        BY <3>1
      <4>3. next \in [1..(L + 1) -> D \cup {n}]
        <5>1. ASSUME NEW k \in 1..(L + 1) PROVE next[k] \in D \cup {n}
          <6>1. k = L + 1 \/ k \in 1..L
            BY <3>1
          <6> HIDE DEF next
          <6> QED
            BY <4>1, <4>2, <6>1
        <5>2. next = [k \in 1..(L + 1) |-> next[k]]
          OBVIOUS
        <5> HIDE DEF next
        <5> QED
          BY <5>1, <5>2
      <4> HIDE DEF next
      <4>4. ASSUME NEW i \in 1..(L + 1), NEW j \in 1..(L + 1), i < j PROVE next[i] < next[j]
        <5>1. i \in 1..L
          BY <3>1, <4>4
        <5>2. CASE j = L + 1
          BY <4>1, <4>2, <5>1, <5>2
        <5>3. CASE j \in 1..L
          BY <4>0, <4>1, <4>4, <5>1, <5>3
        <5> QED
          BY <3>1, <5>2, <5>3
      <4>5. ASSUME NEW c \in D \cup {n} PROVE \E k \in 1..(L + 1) : next[k] = c
        <5>1. CASE c = n
          BY <3>1, <4>2, <5>1
        <5>2. CASE c \in D
          <6>1. PICK k \in 1..L : pos[k] = c
            BY <4>0, <5>2
          <6> QED
            BY <3>1, <4>1, <6>1
        <5> QED
          BY <5>1, <5>2
      <4>6. ASSUME NEW k \in 1..(L + 1) PROVE t[k] = refs[next[k]]
        <5>1. CASE k = L + 1
          BY <3>4, <4>2, <5>1
        <5>2. CASE k \in 1..L
          BY <3>4, <4>0, <4>1, <5>2
        <5> QED
          BY <3>1, <5>1, <5>2
      <4> QED
        BY <3>4, <4>3, <4>4, <4>5, <4>6 DEF Lists
    <3> QED
      BY <3>3, <3>4, <3>5, <3>6, Zenon DEF t
  <2> QED
    BY <2>2, <2>3
<1> HIDE DEF Good
<1>4. ASSUME Broken # {} PROVE FALSE
  <2>1. PICK m \in Broken : \A k \in Broken : m <= k
    <3>1. Broken \in SUBSET Nat
      OBVIOUS
    <3> HIDE DEF Broken
    <3> QED
      BY <1>4, <3>1, LeastNat
  <2>2. m \in 1..Len(refs) /\ m - 1 \notin Broken /\ m - 1 \in 0..Len(refs)
    BY <1>0, <1>2, <2>1
  <2> QED
    BY <1>3, <2>1, <2>2
<1>5. Good(Len(refs))
  BY <1>0, <1>4
<1> QED
  BY <1>5 DEF InSlot, P, Good

\* The places of the references that are picked, in ascending order.
LEMMA PickedLists ==
  ASSUME NEW X, NEW refs \in Seq(X), NEW slot
  PROVE  \E pos : Lists(pos, InSlot(refs, slot), refs, {i \in 1..Len(refs) : refs[i][1] = slot})
BY PickedFacts, Zenon

--------------------------------------------------------------------------------
(* Series of observations.                                                      *)

\* Neighbours in order are all in order.
LEMMA IncreasingPairs ==
  ASSUME NEW X, NEW obs \in Seq(X), \A i \in 1..Len(obs) : obs[i].end \in Int
  PROVE  Increasing(obs) <=> \A i, j \in 1..Len(obs) : i < j => obs[i].end < obs[j].end
<1>0. Len(obs) \in Nat
  OBVIOUS
<1>1. ASSUME \A i, j \in 1..Len(obs) : i < j => obs[i].end < obs[j].end PROVE Increasing(obs)
  BY <1>0, <1>1 DEF Increasing
<1>2. ASSUME Increasing(obs), NEW i \in 1..Len(obs) PROVE \A j \in 1..Len(obs) : i < j => obs[i].end < obs[j].end
  <2> DEFINE Broken == {j \in 1..Len(obs) : i < j /\ ~(obs[i].end < obs[j].end)}
  <2>1. ASSUME Broken # {} PROVE FALSE
    <3>1. PICK m \in Broken : \A k \in Broken : m <= k
      <4>1. Broken \in SUBSET Nat
        OBVIOUS
      <4> HIDE DEF Broken
      <4> QED
        BY <2>1, <4>1, LeastNat
    <3>2. m - 1 \in 1..(Len(obs) - 1) /\ m - 1 \notin Broken /\ m - 1 \in 1..Len(obs)
      BY <1>0, <3>1
    <3>3. obs[m - 1].end < obs[m].end
      <4>1. obs[m - 1].end < obs[(m - 1) + 1].end
        BY <1>2, <3>2 DEF Increasing
      <4> QED
        BY <3>1, <4>1
    <3>4. obs[i].end < obs[m].end
      <4>1. CASE i = m - 1
        BY <3>3, <4>1
      <4>2. CASE i < m - 1
        BY <3>1, <3>2, <3>3, <4>2
      <4> QED
        BY <1>0, <3>1, <4>1, <4>2
    <3> QED
      BY <3>1, <3>4
  <2> QED
    BY <2>1
<1> QED
  BY <1>1, <1>2

\* Two ascending series of the same numbers are the same series.
LEMMA SameSeries ==
  ASSUME NEW m \in Nat, NEW n \in Nat, NEW s \in [1..m -> Int], NEW t \in [1..n -> Int],
         \A i, j \in 1..m : i < j => s[i] < s[j],
         \A i, j \in 1..n : i < j => t[i] < t[j],
         {s[i] : i \in 1..m} = {t[i] : i \in 1..n}
  PROVE  s = t
<1> DEFINE Apart == {k \in 1..m : ~(k \in 1..n /\ s[k] = t[k])}
<1>0. /\ \A i \in 1..m : \E j \in 1..n : s[i] = t[j]
      /\ \A j \in 1..n : \E i \in 1..m : s[i] = t[j]
  OBVIOUS
<1>1. ASSUME Apart # {} PROVE FALSE
  <2>1. PICK k \in Apart : \A l \in Apart : k <= l
    <3>1. Apart \in SUBSET Nat
      OBVIOUS
    <3> HIDE DEF Apart
    <3> QED
      BY <1>1, <3>1, LeastNat
  <2>2. \A l \in 1..m : l < k => l \in 1..n /\ s[l] = t[l]
    BY <2>1
  <2>3. PICK j \in 1..n : s[k] = t[j]
    BY <1>0, <2>1
  <2>4. ~(j < k)
    <3>1. ASSUME j < k PROVE FALSE
      <4>1. j \in 1..m /\ s[j] = t[j]
        BY <2>1, <2>2, <3>1
      <4> QED
        BY <2>1, <2>3, <3>1, <4>1
    <3> QED
      BY <3>1
  <2>5. k \in 1..n
    BY <2>1, <2>4
  <2>6. PICK i \in 1..m : s[i] = t[k]
    BY <1>0, <2>5
  <2>7. ~(i < k)
    <3>1. ASSUME i < k PROVE FALSE
      <4>1. i \in 1..n /\ s[i] = t[i]
        BY <2>2, <3>1
      <4>2. t[i] < t[k]
        BY <2>5, <3>1, <4>1
      <4> QED
        BY <2>5, <2>6, <4>1, <4>2
    <3> QED
      BY <3>1
  <2>8. t[k] <= t[j]
    <3>1. k = j \/ k < j
      BY <2>1, <2>4
    <3> QED
      BY <2>5, <3>1
  <2>9. s[k] <= s[i]
    <3>1. k = i \/ k < i
      BY <2>1, <2>7
    <3> QED
      BY <2>1, <3>1
  <2> QED
    BY <2>1, <2>3, <2>5, <2>6, <2>8, <2>9
<1>2. \A k \in 1..m : k \in 1..n /\ s[k] = t[k]
  BY <1>1
<1>3. m = n
  <2>1. CASE n = 0
    BY <1>2, <2>1
  <2>2. CASE n > 0
    <3>1. PICK i \in 1..m : s[i] = t[n]
      BY <1>0, <2>2
    <3>2. i = n
      BY <1>2, <2>2, <3>1
    <3> QED
      BY <1>2, <2>2, <3>1, <3>2
  <2> QED
    BY <2>1, <2>2
<1> QED
  BY <1>2, <1>3

\* Finitely many numbers have a greatest one.
LEMMA GreatestOf ==
  ASSUME NEW n \in Nat, n > 0, NEW f \in [1..n -> Int]
  PROVE  \E m \in 1..n : \A k \in 1..n : f[k] <= f[m]
<1> DEFINE Has(k) == \E m \in 1..k : \A l \in 1..k : f[l] <= f[m]
           Broken == {k \in 1..n : ~Has(k)}
<1>1. ASSUME Broken # {} PROVE FALSE
  <2>1. PICK k \in Broken : \A l \in Broken : k <= l
    <3>1. Broken \in SUBSET Nat
      OBVIOUS
    <3> HIDE DEF Broken
    <3> QED
      BY <1>1, <3>1, LeastNat
  <2>2. CASE k = 1
    <3>1. \A l \in 1..1 : f[l] <= f[1]
      BY <2>1, <2>2
    <3> QED
      BY <2>1, <2>2, <3>1
  <2>3. CASE k > 1
    <3>1. Has(k - 1)
      <4>1. k - 1 \in 1..n /\ ~(k <= k - 1)
        BY <2>1, <2>3
      <4> HIDE DEF Has
      <4> QED
        BY <2>1, <4>1
    <3>2. PICK m \in 1..(k - 1) : \A l \in 1..(k - 1) : f[l] <= f[m]
      BY <3>1
    <3>3. m \in 1..n /\ k \in 1..n /\ f[m] \in Int /\ f[k] \in Int
      BY <2>1, <2>3
    <3>4. CASE f[k] <= f[m]
      <4>1. \A l \in 1..k : f[l] <= f[m]
        BY <2>1, <3>2, <3>4
      <4> QED
        BY <2>1, <3>2, <4>1
    <3>5. CASE f[m] < f[k]
      <4>1. ASSUME NEW l \in 1..k PROVE f[l] <= f[k]
        <5>1. l = k \/ l \in 1..(k - 1)
          BY <2>1
        <5>2. l \in 1..n /\ f[l] \in Int
          BY <2>1
        <5> QED
          BY <3>2, <3>3, <3>5, <5>1, <5>2
      <4> QED
        BY <2>1, <4>1
    <3> QED
      BY <3>3, <3>4, <3>5
  <2> QED
    BY <2>1, <2>2, <2>3
<1>2. Has(n)
  <2> HIDE DEF Has
  <2> QED
    BY <1>1
<1> QED
  BY <1>2

\* The context of comparable observations speaks for every one of them.
LEMMA ContextFacts ==
  ASSUME NEW obs, NEW n \in Nat, n > 0, DOMAIN obs = 1..n, \A i \in 1..n : obs[i].end \in Int, Compatible(obs)
  PROVE  LET c == ObservationContext(obs)
         IN  /\ \A i \in 1..n : /\ obs[i].entity = c.entity /\ obs[i].end <= c.asOf
                                /\ Monetary(obs[i]) => c.unit = UnitLabel(obs[i])
             /\ \E i \in 1..n : obs[i].end = c.asOf
<1> DEFINE c == ObservationContext(obs)
           ends == {o.end : o \in ToSet(obs)}
           money == {i \in DOMAIN obs : Monetary(obs[i])}
<1>0. 1 \in 1..n
  OBVIOUS
<1>1. \A i, j \in 1..n : Comparable(obs[i], obs[j])
  BY CompatiblePairs
<1>2. c.entity = obs[1].entity /\ c.asOf = Max(ends)
      /\ c.unit = IF money = {} THEN <<>> ELSE UnitLabel(obs[Min(money)])
  BY DEF ObservationContext
<1>3. Max(ends) \in ends /\ \A e \in ends : e <= Max(ends)
  <2> DEFINE f == [i \in 1..n |-> obs[i].end]
  <2>1. f \in [1..n -> Int]
    OBVIOUS
  <2>2. ends = {f[i] : i \in 1..n}
    BY DEF ToSet
  <2>3. PICK m \in 1..n : \A k \in 1..n : f[k] <= f[m]
    BY <2>1, GreatestOf
  <2>4. f[m] \in ends /\ \A e \in ends : e \in Int /\ f[m] >= e
    BY <2>1, <2>2, <2>3
  <2> HIDE DEF f, ends
  <2>5. Max(ends) \in ends /\ \A e \in ends : Max(ends) >= e
    BY <2>4 DEF Max
  <2> QED
    BY <2>4, <2>5
<1>4. \A i \in 1..n : obs[i].end \in ends
  BY DEF ToSet
<1>5. \A e \in ends : \E i \in 1..n : obs[i].end = e
  BY DEF ToSet
<1>6. ASSUME NEW i \in 1..n, Monetary(obs[i]) PROVE c.unit = UnitLabel(obs[i])
  <2>1. money # {} /\ money \in SUBSET Nat
    BY <1>6
  <2>2. Min(money) \in money
    <3> HIDE DEF money
    <3> QED
      BY <2>1, MinNat
  <2>3. PICK j \in 1..n : j = Min(money) /\ Monetary(obs[j])
    BY <2>2
  <2>4. obs[j].scale = obs[i].scale /\ obs[j].symbol = obs[i].symbol
    <3>1. Comparable(obs[j], obs[i])
      BY <1>1
    <3>2. obs[i].kind # "ratio" /\ obs[j].kind # "ratio"
      BY <1>6, <2>3 DEF Monetary
    <3> QED
      BY <1>6, <2>3, <3>1, <3>2 DEF Comparable
  <2> HIDE DEF money
  <2> QED
    BY <1>2, <2>1, <2>3, <2>4 DEF UnitLabel
<1>7. \A i \in 1..n : obs[i].entity = c.entity
  BY <1>0, <1>1, <1>2 DEF Comparable
<1> HIDE DEF c, ends, money
<1>8. \A i \in 1..n : obs[i].end <= c.asOf
  BY <1>2, <1>3, <1>4
<1>9. \E i \in 1..n : obs[i].end = c.asOf
  BY <1>2, <1>3, <1>5
<1> QED
  BY <1>6, <1>7, <1>8, <1>9 DEF c

--------------------------------------------------------------------------------
(* References into a packet.                                                    *)

\* A packet maps IDs to observations, and what is no reference is no ID.
PacketTyped(packet) ==
  /\ "literal" \notin DOMAIN packet /\ "blank" \notin DOMAIN packet
  /\ \A id \in DOMAIN packet : packet[id].value \in Int /\ packet[id].end \in Int

\* A reference resolves when it names an observation of the packet.
LEMMA ResolveFacts ==
  ASSUME NEW packet, PacketTyped(packet), NEW ref
  PROVE  /\ ResolveObservation(ref, packet) = NoError <=> ref \in DOMAIN packet
         /\ ResolveObservation(ref, packet) # "invalid_schema"
BY DEF ResolveObservation, PacketTyped, NoError

\* References resolve when each of them does.
LEMMA ResolveAllFacts ==
  ASSUME NEW packet, PacketTyped(packet), NEW X, NEW refs \in Seq(X)
  PROVE  /\ ResolveAll(refs, packet) = NoError <=> \A i \in 1..Len(refs) : refs[i][2] \in DOMAIN packet
         /\ ResolveAll(refs, packet) # "invalid_schema"
<1> DEFINE errors == [i \in DOMAIN refs |-> ResolveObservation(refs[i][2], packet)]
<1>1. DOMAIN refs = 1..Len(refs) /\ Len(refs) \in Nat
  OBVIOUS
<1>2. DOMAIN errors = 1..Len(refs) /\ \A i \in 1..Len(refs) : errors[i] = ResolveObservation(refs[i][2], packet)
  BY <1>1
<1>3. ResolveAll(refs, packet) = FirstError(errors)
  BY DEF ResolveAll
<1> HIDE DEF errors
<1>4. DOMAIN errors \subseteq Nat
  BY <1>1, <1>2
<1>5. /\ FirstError(errors) = NoError <=> \A i \in DOMAIN errors : errors[i] = NoError
      /\ FirstError(errors) # NoError => \E i \in DOMAIN errors : errors[i] = FirstError(errors)
  BY <1>4, FirstErrorFacts
<1> QED
  BY <1>2, <1>3, <1>5, ResolveFacts DEF NoError

\* There is one observation for a reference, in the same place.
LEMMA ObservationsFacts ==
  ASSUME NEW packet, NEW X, NEW refs \in Seq(X)
  PROVE  LET obs == Observations(refs, packet)
         IN  /\ DOMAIN obs = 1..Len(refs) /\ Len(obs) = Len(refs)
             /\ \A i \in 1..Len(refs) : obs[i] = packet[refs[i][2]]
<1>1. DOMAIN refs = 1..Len(refs) /\ Len(refs) \in Nat
  OBVIOUS
<1>2. Observations(refs, packet) = [i \in 1..Len(refs) |-> packet[refs[i][2]]]
  BY <1>1 DEF Observations
<1> QED
  BY <1>1, <1>2

\* The observations of references, as a sequence of those they name.
LEMMA ObservationsTyped ==
  ASSUME NEW packet, NEW X, NEW refs \in Seq(X)
  PROVE  Observations(refs, packet) \in Seq({packet[refs[i][2]] : i \in 1..Len(refs)})
<1>1. DOMAIN refs = 1..Len(refs) /\ Len(refs) \in Nat
  OBVIOUS
<1>2. Observations(refs, packet) = [i \in 1..Len(refs) |-> packet[refs[i][2]]]
  BY <1>1 DEF Observations
<1> QED
  BY <1>1, <1>2

\* A call that binds comparable observations, exactly those its references name,
\* is grounded in them.
LEMMA BoundGrounded ==
  ASSUME NEW p, NEW call, NEW packet, NEW obs, NEW n \in Nat, n > 0, DOMAIN obs = 1..n,
         \A i \in 1..n : obs[i].end \in Int, Compatible(obs),
         NEW primary, primary = IF p.tool = "market_statistics" THEN "prices" ELSE "any",
         ToSet(obs) = {packet[p.refs[i][2]] : i \in Cited(p, primary)}, n = Cardinality(Cited(p, primary)),
         call.values = [i \in DOMAIN obs |-> obs[i].value], call.context = ObservationContext(obs),
         call.sources = UNION {packet[p.refs[i][2]].sources : i \in DOMAIN p.refs}
  PROVE  Grounded(p, call, packet)
<1> DEFINE cited == {packet[p.refs[i][2]] : i \in Cited(p, primary)}
<1>1. cited = {obs[i] : i \in 1..n}
  BY DEF ToSet
<1>2. Range(call.values) = {o.value : o \in {obs[i] : i \in 1..n}}
  BY DEF Range
<1>3. Len(call.values) = n
  BY DEF ToSet
<1>4. /\ \A i \in 1..n : /\ obs[i].entity = call.context.entity /\ obs[i].end <= call.context.asOf
                         /\ Monetary(obs[i]) => call.context.unit = UnitLabel(obs[i])
      /\ \E i \in 1..n : obs[i].end = call.context.asOf
  BY ContextFacts
<1>5. \A o \in cited : \E i \in 1..n : o = obs[i]
  BY <1>1
<1>6. \A i \in 1..n : obs[i] \in cited
  BY <1>1
<1>7. /\ \A o \in cited : /\ o.entity = call.context.entity /\ o.end <= call.context.asOf
                          /\ Monetary(o) => call.context.unit = UnitLabel(o)
      /\ \E o \in cited : o.end = call.context.asOf
  <2> HIDE DEF cited
  <2> QED
    BY <1>4, <1>5, <1>6
<1>8. Range(call.values) = {o.value : o \in cited}
  BY <1>1, <1>2
<1> HIDE DEF cited
<1> QED
  BY <1>3, <1>7, <1>8 DEF Grounded, cited

--------------------------------------------------------------------------------
(* Each tool binds what may be bound, and nothing else.                         *)

BindsRight(p, call, packet) ==
  /\ call.error = NoError <=> MayBind(p, packet)
  /\ call.error # "invalid_schema"
  /\ call.error = NoError => Grounded(p, call, packet)

\* A refusal has the code it is given.
LEMMA RefusedFacts ==
  ASSUME NEW code
  PROVE  Refused(code).error = code
BY DEF Refused

\* Without a slot, a series has all references.
LEMMA OneSeriesAny ==
  ASSUME NEW X, NEW p, p.refs \in Seq(X), NEW packet
  PROVE  /\ Cited(p, "any") = 1..Len(p.refs)
         /\ OneSeries(p, "any", packet)
              <=> \A i, j \in 1..Len(p.refs) : Comparable(packet[p.refs[i][2]], packet[p.refs[j][2]])
<1>1. Cited(p, "any") = 1..Len(p.refs)
  BY DEF Cited
<1> QED
  BY <1>1 DEF OneSeries, Comparable

\* All references of a call are bound.
LEMMA BoundAny ==
  ASSUME NEW X, NEW p, p.refs \in Seq(X), p.refs # <<>>, p.tool # "market_statistics",
         NEW packet, PacketTyped(packet), \A i \in 1..Len(p.refs) : p.refs[i][2] \in DOMAIN packet, NEW unit
  PROVE  LET call == Bound(Observations(p.refs, packet), unit)
         IN  /\ call.error = NoError <=> OneSeries(p, "any", packet)
             /\ call.error # "invalid_schema"
             /\ call.error = NoError => Grounded(p, call, packet)
<1> DEFINE obs == Observations(p.refs, packet)
           n == Len(p.refs)
           call == Bound(obs, unit)
<1>0. n \in Nat /\ n > 0 /\ DOMAIN p.refs = 1..n
  OBVIOUS
<1>1. DOMAIN obs = 1..n /\ \A i \in 1..n : obs[i] = packet[p.refs[i][2]]
  BY ObservationsFacts
<1>2. /\ call.error = CompatibilityError(obs) /\ call.values = [i \in DOMAIN obs |-> obs[i].value]
      /\ call.sources = Lineage(obs) /\ call.context = ObservationContext(obs)
  BY DEF Bound
<1> HIDE DEF obs, call
<1>3. Compatible(obs) <=> OneSeries(p, "any", packet)
  <2> HIDE DEF n
  <2>1. Compatible(obs) <=> \A i, j \in 1..n : Comparable(obs[i], obs[j])
    BY <1>0, <1>1, CompatiblePairs
  <2>2. OneSeries(p, "any", packet) <=> \A i, j \in 1..n : Comparable(packet[p.refs[i][2]], packet[p.refs[j][2]])
    BY OneSeriesAny DEF n
  <2> QED
    BY <1>1, <2>1, <2>2
<1>4. /\ call.error = NoError <=> Compatible(obs)
      /\ call.error # "invalid_schema"
  BY <1>2 DEF CompatibilityError, NoError
<1>5. ASSUME Compatible(obs) PROVE Grounded(p, call, packet)
  <2>1. ToSet(obs) = {packet[p.refs[i][2]] : i \in Cited(p, "any")}
    BY <1>1, OneSeriesAny DEF ToSet
  <2>2. n = Cardinality(Cited(p, "any"))
    <3>1. Cited(p, "any") = 1..n
      BY OneSeriesAny
    <3> HIDE DEF n
    <3>2. Cardinality(1..n) = n
      BY <1>0, FS_Interval
    <3> QED
      BY <3>1, <3>2
  <2>3. call.sources = UNION {packet[p.refs[i][2]].sources : i \in DOMAIN p.refs}
    BY <1>0, <1>1, <1>2 DEF Lineage, ToSet
  <2>4. \A i \in 1..n : obs[i].end \in Int
    BY <1>1 DEF PacketTyped
  <2> HIDE DEF n
  <2> QED
    BY <1>0, <1>1, <1>2, <1>5, <2>1, <2>2, <2>3, <2>4, BoundGrounded
<1> QED
  BY <1>3, <1>4, <1>5 DEF call, obs

\* Without references nothing is bound, and nothing has to be grounded.
LEMMA EmptyGrounded ==
  ASSUME NEW p, p.refs = <<>>, NEW packet
  PROVE  Grounded(p, Refused(NoError), packet)
<1>1. \A slot : Cited(p, slot) = {}
  BY DEF Cited
<1>2. Cardinality({}) = 0
  BY FS_EmptySet
<1>3. Refused(NoError).values = <<>> /\ Refused(NoError).sources = {}
  BY DEF Refused
<1>4. Range(<<>>) = {} /\ Len(<<>>) = 0
  BY DEF Range
<1> DEFINE call == Refused(NoError)
           primary == IF p.tool = "market_statistics" THEN "prices" ELSE "any"
           cited == {packet[p.refs[i][2]] : i \in Cited(p, primary)}
<1>5. cited = {} /\ {o.value : o \in cited} = {} /\ Cardinality(Cited(p, primary)) = 0
  BY <1>1, <1>2
<1>6. UNION {packet[p.refs[i][2]].sources : i \in DOMAIN p.refs} = {}
  OBVIOUS
<1> HIDE DEF cited, primary, call
<1>7. call.values = <<>> /\ call.sources = {}
  BY <1>3 DEF call
<1> QED
  BY <1>4, <1>5, <1>6, <1>7 DEF Grounded, cited, primary, call

\* There is no place in an empty sequence.
LEMMA EmptyRange ==
  ASSUME NEW n \in Nat
  PROVE  1..n = {} <=> n = 0
<1>1. n # 0 => 1 \in 1..n
  OBVIOUS
<1>2. n = 0 => 1..n = {}
  OBVIOUS
<1> QED
  BY <1>1, <1>2

\* Only a proposal without references has no slots.
LEMMA NoSlots ==
  ASSUME NEW X, NEW refs \in Seq(X)
  PROVE  /\ DOMAIN refs = 1..Len(refs) /\ Len(refs) \in Nat
         /\ {refs[i][1] : i \in DOMAIN refs} = {} <=> refs = <<>>
<1>1. DOMAIN refs = 1..Len(refs) /\ Len(refs) \in Nat /\ (refs = <<>> <=> Len(refs) = 0)
  OBVIOUS
<1>2. 1..Len(refs) = {} <=> Len(refs) = 0
  BY <1>1, EmptyRange
<1> QED
  BY <1>1, <1>2

\* The IDs of a proposal are of the packet when each reference is.
LEMMA IdsFacts ==
  ASSUME NEW X, NEW p, p.refs \in Seq(X), NEW packet
  PROVE  {p.refs[i][2] : i \in DOMAIN p.refs} \subseteq DOMAIN packet
           <=> \A i \in 1..Len(p.refs) : p.refs[i][2] \in DOMAIN packet
<1>1. DOMAIN p.refs = 1..Len(p.refs)
  OBVIOUS
<1> QED
  BY <1>1

\* _bind_calculate: any operands that are observations of one series.
LEMMA CalculateRight ==
  ASSUME NEW X, NEW p, p.refs \in Seq(X), NEW packet, PacketTyped(packet),
         p.tool = "calculate", p.fields \cap ControllerFields(p.tool) = {}
  PROVE  BindsRight(p, BindCalculate(p, packet), packet)
<1> DEFINE ids == \A i \in 1..Len(p.refs) : p.refs[i][2] \in DOMAIN packet
           call == BindCalculate(p, packet)
<1>1. MayBind(p, packet) <=> ids /\ OneSeries(p, "any", packet)
  BY IdsFacts DEF MayBind
<1>2. /\ ResolveAll(p.refs, packet) = NoError <=> ids
      /\ ResolveAll(p.refs, packet) # "invalid_schema"
  BY ResolveAllFacts
<1>3. CASE ~ids
  BY <1>1, <1>2, <1>3, RefusedFacts DEF BindCalculate, BindsRight
<1>4. CASE p.refs = <<>> /\ ids
  <2>1. call = Refused(NoError)
    BY <1>2, <1>4 DEF BindCalculate
  <2>2. OneSeries(p, "any", packet)
    <3>1. Len(p.refs) = 0
      BY <1>4
    <3> QED
      BY <3>1, OneSeriesAny
  <2> QED
    BY <1>1, <1>4, <2>1, <2>2, RefusedFacts, EmptyGrounded DEF BindsRight, NoError
<1>5. CASE p.refs # <<>> /\ ids
  <2>1. call = Bound(Observations(p.refs, packet), <<>>)
    BY <1>2, <1>5 DEF BindCalculate
  <2> QED
    BY <1>1, <1>5, <2>1, BoundAny DEF BindsRight
<1> QED
  BY <1>3, <1>4, <1>5

\* _bind_forecast: as calculate, with the unit of the first reference.
LEMMA ForecastRight ==
  ASSUME NEW X, NEW p, p.refs \in Seq(X), NEW packet, PacketTyped(packet),
         p.tool = "forecast_growth", p.fields \cap ControllerFields(p.tool) = {}
  PROVE  BindsRight(p, BindForecast(p, packet), packet)
<1> DEFINE ids == \A i \in 1..Len(p.refs) : p.refs[i][2] \in DOMAIN packet
           call == BindForecast(p, packet)
<1>1. MayBind(p, packet) <=> ids /\ OneSeries(p, "any", packet)
  BY IdsFacts DEF MayBind
<1>2. /\ ResolveAll(p.refs, packet) = NoError <=> ids
      /\ ResolveAll(p.refs, packet) # "invalid_schema"
  BY ResolveAllFacts
<1>3. CASE p.refs = <<>>
  <2>1. call = Refused(NoError)
    BY <1>3 DEF BindForecast
  <2>2. ids /\ OneSeries(p, "any", packet)
    <3>1. Len(p.refs) = 0
      BY <1>3
    <3> QED
      BY <3>1, OneSeriesAny
  <2> QED
    BY <1>1, <1>3, <2>1, <2>2, RefusedFacts, EmptyGrounded DEF BindsRight, NoError
<1>4. CASE p.refs # <<>> /\ ~ids
  BY <1>1, <1>2, <1>4, RefusedFacts DEF BindForecast, BindsRight
<1>5. CASE p.refs # <<>> /\ ids
  <2>1. PICK unit : call = Bound(Observations(p.refs, packet), unit)
    BY <1>2, <1>5 DEF BindForecast
  <2> QED
    BY <1>1, <1>5, <2>1, BoundAny DEF BindsRight
<1> QED
  BY <1>3, <1>4, <1>5

\* _bind_metrics: at least one reference.
LEMMA MetricsRight ==
  ASSUME NEW X, NEW p, p.refs \in Seq(X), NEW packet, PacketTyped(packet),
         p.tool = "metrics", p.fields \cap ControllerFields(p.tool) = {}
  PROVE  BindsRight(p, BindMetrics(p, packet), packet)
<1> DEFINE ids == \A i \in 1..Len(p.refs) : p.refs[i][2] \in DOMAIN packet
           slots == {p.refs[i][1] : i \in DOMAIN p.refs}
           call == BindMetrics(p, packet)
<1>0. slots = {} <=> p.refs = <<>>
  BY NoSlots
<1>1. MayBind(p, packet) <=> ids /\ slots # {} /\ OneSeries(p, "any", packet)
  BY IdsFacts DEF MayBind
<1>2. /\ ResolveAll(p.refs, packet) = NoError <=> ids
      /\ ResolveAll(p.refs, packet) # "invalid_schema"
  BY ResolveAllFacts
<1> HIDE DEF slots
<1>3. CASE p.refs = <<>>
  BY <1>0, <1>1, <1>3, RefusedFacts DEF BindMetrics, BindsRight, NoError
<1>4. CASE p.refs # <<>> /\ ~ids
  BY <1>1, <1>2, <1>4, RefusedFacts DEF BindMetrics, BindsRight
<1>5. CASE p.refs # <<>> /\ ids
  <2>1. call = Bound(Observations(p.refs, packet), <<>>)
    BY <1>2, <1>5 DEF BindMetrics
  <2> QED
    BY <1>0, <1>1, <1>5, <2>1, BoundAny DEF BindsRight
<1> QED
  BY <1>3, <1>4, <1>5

\* _bind_dcf: three slots, one of which needs an open terminal object.
LEMMA DcfRight ==
  ASSUME NEW X, NEW p, p.refs \in Seq(X), NEW packet, PacketTyped(packet),
         p.terminal \in {"none", "open", "valued"},
         p.tool = "discounted_cash_flow", p.fields \cap ControllerFields(p.tool) = {}
  PROVE  BindsRight(p, BindDcf(p, packet), packet)
<1> DEFINE ids == \A i \in 1..Len(p.refs) : p.refs[i][2] \in DOMAIN packet
           slots == {p.refs[i][1] : i \in DOMAIN p.refs}
           pair(i) == <<ResolveObservation(p.refs[i][2], packet), TerminalError(p, p.refs[i][1])>>
           errors == [i \in DOMAIN p.refs |-> FirstError(pair(i))]
           open == "terminal_metric_value" \in slots => p.terminal = "open"
           call == BindDcf(p, packet)
<1>0. DOMAIN p.refs = 1..Len(p.refs) /\ Len(p.refs) \in Nat /\ (slots = {} <=> p.refs = <<>>)
  BY NoSlots
<1>1. MayBind(p, packet) <=> /\ ids /\ slots # {} /\ slots \subseteq DcfSlots
                             /\ p.terminal # "valued" /\ open /\ OneSeries(p, "any", packet)
  BY IdsFacts DEF MayBind
<1>2. ASSUME NEW i \in 1..Len(p.refs)
      PROVE  /\ FirstError(pair(i)) = NoError
                  <=> /\ p.refs[i][2] \in DOMAIN packet
                      /\ p.refs[i][1] = "terminal_metric_value" => p.terminal = "open"
             /\ FirstError(pair(i)) # "invalid_schema"
  <2>1. /\ ResolveObservation(p.refs[i][2], packet) = NoError <=> p.refs[i][2] \in DOMAIN packet
        /\ ResolveObservation(p.refs[i][2], packet) # "invalid_schema"
    BY ResolveFacts
  <2>2. /\ TerminalError(p, p.refs[i][1]) = NoError
             <=> (p.refs[i][1] = "terminal_metric_value" => p.terminal = "open")
        /\ TerminalError(p, p.refs[i][1]) # "invalid_schema"
    BY DEF TerminalError, NoError
  <2>3. /\ DOMAIN pair(i) = 1..2 /\ pair(i)[1] = ResolveObservation(p.refs[i][2], packet)
        /\ pair(i)[2] = TerminalError(p, p.refs[i][1])
    OBVIOUS
  <2> HIDE DEF pair
  <2>4. /\ FirstError(pair(i)) = NoError <=> \A k \in 1..2 : pair(i)[k] = NoError
        /\ FirstError(pair(i)) # NoError => \E k \in 1..2 : pair(i)[k] = FirstError(pair(i))
    <3>1. DOMAIN pair(i) \subseteq Nat
      BY <2>3
    <3> QED
      BY <2>3, <3>1, FirstErrorFacts
  <2>5. \A k \in 1..2 : k = 1 \/ k = 2
    OBVIOUS
  <2> QED
    BY <2>1, <2>2, <2>3, <2>4, <2>5 DEF NoError
<1>3. /\ FirstError(errors) = NoError <=> \A i \in 1..Len(p.refs) : FirstError(pair(i)) = NoError
      /\ FirstError(errors) # "invalid_schema"
  <2>1. DOMAIN errors = 1..Len(p.refs) /\ \A i \in 1..Len(p.refs) : errors[i] = FirstError(pair(i))
    BY <1>0
  <2> HIDE DEF errors, pair
  <2>2. DOMAIN errors \subseteq Nat
    BY <1>0, <2>1
  <2> QED
    BY <1>2, <2>1, <2>2, FirstErrorFacts DEF NoError
<1>4. FirstError(errors) = NoError <=> ids /\ open
  BY <1>0, <1>2, <1>3
<1>5. call = IF p.refs = <<>> \/ ~(slots \subseteq DcfSlots) THEN Refused("invalid_observation_binding")
             ELSE IF FirstError(errors) # NoError THEN Refused(FirstError(errors))
             ELSE IF p.terminal = "valued" THEN Refused("unbound_numeric_input")
             ELSE Bound(Observations(p.refs, packet), UnitLabel(packet[p.refs[1][2]]))
  BY DEF BindDcf
<1> HIDE DEF slots, errors, open, call
<1>6. CASE p.refs = <<>> \/ ~(slots \subseteq DcfSlots)
  BY <1>0, <1>1, <1>5, <1>6, RefusedFacts DEF call, BindsRight, NoError
<1>7. CASE ~(p.refs = <<>> \/ ~(slots \subseteq DcfSlots)) /\ FirstError(errors) # NoError
  BY <1>1, <1>3, <1>4, <1>5, <1>7, RefusedFacts DEF call, BindsRight
<1>8. CASE ~(p.refs = <<>> \/ ~(slots \subseteq DcfSlots)) /\ FirstError(errors) = NoError /\ p.terminal = "valued"
  BY <1>1, <1>5, <1>8, RefusedFacts DEF call, BindsRight, NoError
<1>9. CASE ~(p.refs = <<>> \/ ~(slots \subseteq DcfSlots)) /\ FirstError(errors) = NoError /\ p.terminal # "valued"
  <2>1. PICK unit : call = Bound(Observations(p.refs, packet), unit)
    BY <1>5, <1>9
  <2> QED
    BY <1>0, <1>1, <1>4, <1>9, <2>1, BoundAny DEF call, BindsRight
<1> QED
  BY <1>6, <1>7, <1>8, <1>9

\* A price is an observation of the packet with a positive value.
LEMMA PriceErrorFacts ==
  ASSUME NEW packet, PacketTyped(packet), NEW ref
  PROVE  /\ PriceError(ref, packet) = NoError <=> ref \in DOMAIN packet /\ packet[ref].value > 0
         /\ PriceError(ref, packet) # "invalid_schema"
<1>1. ref \in DOMAIN packet => (packet[ref].value <= 0 <=> ~(packet[ref].value > 0))
  BY DEF PacketTyped
<1> QED
  BY <1>1, ResolveFacts DEF PriceError, NoError

\* What a reader of the references sees of a series the controller accepts, and why
\* it refuses the others.
SeriesRight(p, slot, packet) ==
  LET picked == InSlot(p.refs, slot)
      obs == Observations(picked, packet)
      C == Cited(p, slot)
  IN  /\ SeriesError(picked, packet) = NoError
           <=> (\A i \in C : p.refs[i][2] \in DOMAIN packet) /\ PriceSeries(p, slot, packet)
      /\ SeriesError(picked, packet) # "invalid_schema"
      /\ picked = <<>> <=> C = {}
      /\ DOMAIN obs = 1..Len(picked) /\ Len(picked) \in Nat
      /\ ToSet(obs) = {packet[p.refs[i][2]] : i \in C}
      /\ SeriesError(picked, packet) = NoError =>
           /\ Compatible(obs)
           /\ Len(picked) > 0 /\ Len(picked) = Cardinality(C)
           /\ \A k \in 1..Len(picked) : obs[k].end \in Int
           /\ \A j, k \in 1..Len(picked) : j < k => obs[j].end < obs[k].end

LEMMA SeriesFacts ==
  ASSUME NEW X, NEW p, p.refs \in Seq(X), NEW packet, PacketTyped(packet), NEW slot, slot # "any"
  PROVE  SeriesRight(p, slot, packet)
<1> DEFINE picked == InSlot(p.refs, slot)
           obs == Observations(picked, packet)
           C == Cited(p, slot)
           L == Len(picked)
           here == \A i \in C : p.refs[i][2] \in DOMAIN packet
           of(i) == packet[p.refs[i][2]]
<1>0. C = {i \in 1..Len(p.refs) : p.refs[i][1] = slot} /\ Len(p.refs) \in Nat /\ C \in SUBSET Nat
  BY DEF Cited
<1>1. picked \in Seq(X)
  BY PickedFacts
<1>2. L = Cardinality(C)
  BY <1>0, PickedFacts
<1>3. PICK pos : Lists(pos, picked, p.refs, C)
  <2> DEFINE D == {i \in 1..Len(p.refs) : p.refs[i][1] = slot}
  <2>1. \E pos : Lists(pos, picked, p.refs, D)
    BY PickedLists, Zenon
  <2>2. C = D
    BY <1>0
  <2> HIDE DEF C, D, picked
  <2> QED
    BY <2>1, <2>2
<1>4. L \in Nat /\ DOMAIN picked = 1..L /\ (picked = <<>> <=> L = 0)
  BY <1>1
<1>5. /\ pos \in [1..L -> C] /\ (\A j, k \in 1..L : j < k => pos[j] < pos[k])
      /\ (\A i \in C : \E k \in 1..L : pos[k] = i) /\ \A k \in 1..L : picked[k] = p.refs[pos[k]]
  BY <1>3 DEF Lists
<1>6. DOMAIN obs = 1..L /\ Len(obs) = L /\ \A k \in 1..L : obs[k] = packet[picked[k][2]]
  BY <1>1, ObservationsFacts
<1>7. \A k \in 1..L : pos[k] \in C /\ obs[k] = of(pos[k]) /\ picked[k][2] = p.refs[pos[k]][2]
  BY <1>5, <1>6
<1>8. obs \in Seq({packet[picked[k][2]] : k \in 1..L})
  BY <1>1, ObservationsTyped
<1>9. picked = <<>> <=> C = {}
  <2>1. IsFiniteSet(C)
    <3>1. IsFiniteSet(1..Len(p.refs)) /\ C \in SUBSET (1..Len(p.refs))
      BY <1>0, FS_Interval
    <3> QED
      BY <3>1, FS_Subset
  <2> HIDE DEF C, L
  <2> QED
    BY <1>2, <1>4, <2>1, FS_EmptySet
<1> HIDE DEF picked, obs, C, L
<1>10. \A j, k \in 1..L : j < k <=> pos[j] < pos[k]
  <2> SUFFICES ASSUME NEW j \in 1..L, NEW k \in 1..L, pos[j] < pos[k] PROVE j < k
    BY <1>5
  <2>1. pos[j] \in Nat /\ pos[k] \in Nat
    BY <1>0, <1>5
  <2>2. ~(k < j) /\ k # j
    BY <1>5, <2>1
  <2> QED
    BY <1>4, <2>2
<1> DEFINE each == FirstError([k \in DOMAIN picked |-> PriceError(picked[k][2], packet)])
<1>11. /\ each = NoError <=> \A k \in 1..L : picked[k][2] \in DOMAIN packet /\ packet[picked[k][2]].value > 0
       /\ each # "invalid_schema"
  <2> DEFINE errors == [k \in DOMAIN picked |-> PriceError(picked[k][2], packet)]
  <2>1. DOMAIN errors = 1..L /\ \A k \in 1..L : errors[k] = PriceError(picked[k][2], packet)
    BY <1>4
  <2> HIDE DEF errors
  <2>2. DOMAIN errors \subseteq Nat
    BY <1>4, <2>1
  <2>3. each = FirstError(errors)
    BY DEF errors
  <2> HIDE DEF each
  <2>4. /\ each = NoError <=> \A k \in 1..L : errors[k] = NoError
        /\ each # NoError => \E k \in 1..L : errors[k] = each
    BY <2>1, <2>2, <2>3, FirstErrorFacts
  <2>5. \A k \in 1..L : /\ errors[k] = NoError <=> picked[k][2] \in DOMAIN packet /\ packet[picked[k][2]].value > 0
                        /\ errors[k] # "invalid_schema"
    BY <2>1, PriceErrorFacts
  <2> QED
    BY <2>4, <2>5 DEF NoError
<1>12. SeriesError(picked, packet) =
         IF L < 2 THEN "invalid_observation_binding"
         ELSE IF each # NoError THEN each
         ELSE IF ~Compatible(obs) \/ ~Increasing(obs) THEN "incompatible_observations"
         ELSE NoError
  BY DEF SeriesError, obs, L
<1> HIDE DEF each
<1>13. /\ SeriesError(picked, packet) = NoError <=> L >= 2 /\ each = NoError /\ Compatible(obs) /\ Increasing(obs)
       /\ SeriesError(picked, packet) # "invalid_schema"
  BY <1>4, <1>11, <1>12 DEF NoError
<1>14. each = NoError <=> here /\ \A i \in C : of(i).value > 0
  BY <1>5, <1>7, <1>11
<1>15. ASSUME here, L > 0
       PROVE  /\ Compatible(obs) <=> OneSeries(p, slot, packet)
              /\ Increasing(obs) <=> \A i, j \in C : i < j => of(i).end < of(j).end
              /\ \A k \in 1..L : obs[k].end \in Int
              /\ Increasing(obs) => \A j, k \in 1..L : j < k => obs[j].end < obs[k].end
  <2>1. \A k \in 1..L : obs[k].end \in Int
    BY <1>7, <1>15 DEF PacketTyped
  <2>2. Compatible(obs) <=> \A j, k \in 1..L : Comparable(obs[j], obs[k])
    BY <1>4, <1>6, <1>15, CompatiblePairs
  <2>3. OneSeries(p, slot, packet) <=> \A i, j \in C : Comparable(of(i), of(j))
    BY DEF OneSeries, Comparable, C
  <2> HIDE DEF of
  <2>4. (\A j, k \in 1..L : Comparable(obs[j], obs[k])) <=> \A i, j \in C : Comparable(of(i), of(j))
    <3>1. ASSUME \A i, j \in C : Comparable(of(i), of(j)), NEW j \in 1..L, NEW k \in 1..L
          PROVE  Comparable(obs[j], obs[k])
      BY <1>7, <3>1
    <3>2. ASSUME \A j, k \in 1..L : Comparable(obs[j], obs[k]), NEW a \in C, NEW b \in C
          PROVE  Comparable(of(a), of(b))
      <4>1. PICK j \in 1..L, k \in 1..L : pos[j] = a /\ pos[k] = b
        BY <1>5
      <4>2. obs[j] = of(a) /\ obs[k] = of(b) /\ Comparable(obs[j], obs[k])
        BY <1>7, <3>2, <4>1
      <4> QED
        BY <4>2
    <3> QED
      BY <3>1, <3>2
  <2>5. Increasing(obs) <=> \A j, k \in 1..L : j < k => obs[j].end < obs[k].end
    BY <1>6, <1>8, <2>1, IncreasingPairs
  <2>6. (\A j, k \in 1..L : j < k => obs[j].end < obs[k].end) <=> \A i, j \in C : i < j => of(i).end < of(j).end
    <3>1. ASSUME \A i, j \in C : i < j => of(i).end < of(j).end, NEW j \in 1..L, NEW k \in 1..L, j < k
          PROVE  obs[j].end < obs[k].end
      <4>1. pos[j] \in C /\ pos[k] \in C /\ pos[j] < pos[k] /\ obs[j] = of(pos[j]) /\ obs[k] = of(pos[k])
        BY <1>7, <1>10, <3>1
      <4> QED
        BY <3>1, <4>1
    <3>2. ASSUME \A j, k \in 1..L : j < k => obs[j].end < obs[k].end, NEW a \in C, NEW b \in C, a < b
          PROVE  of(a).end < of(b).end
      <4>1. PICK j \in 1..L, k \in 1..L : pos[j] = a /\ pos[k] = b
        BY <1>5
      <4>2. obs[j] = of(a) /\ obs[k] = of(b) /\ j < k
        BY <1>7, <1>10, <3>2, <4>1
      <4> QED
        BY <3>2, <4>2
    <3> QED
      BY <3>1, <3>2
  <2> QED
    BY <2>1, <2>2, <2>3, <2>4, <2>5, <2>6
<1>16. PriceSeries(p, slot, packet) <=> /\ L >= 2 /\ OneSeries(p, slot, packet)
                                        /\ \A i \in C : of(i).value > 0
                                        /\ \A i, j \in C : i < j => of(i).end < of(j).end
  BY <1>2 DEF PriceSeries, C
<1>17. SeriesError(picked, packet) = NoError <=> here /\ PriceSeries(p, slot, packet)
  <2> HIDE DEF here, of
  <2> QED
    BY <1>4, <1>13, <1>14, <1>15, <1>16
<1>18. ToSet(obs) = {packet[p.refs[i][2]] : i \in C}
  <2>1. \A k \in 1..L : obs[k] \in {packet[p.refs[i][2]] : i \in C}
    BY <1>7
  <2>2. \A i \in C : \E k \in 1..L : packet[p.refs[i][2]] = obs[k]
    BY <1>5, <1>7
  <2>3. ToSet(obs) = {obs[k] : k \in 1..L}
    BY <1>6 DEF ToSet
  <2> QED
    BY <2>1, <2>2, <2>3
<1>19. SeriesError(picked, packet) = NoError =>
         /\ Compatible(obs) /\ L > 0 /\ \A k \in 1..L : obs[k].end \in Int
         /\ \A j, k \in 1..L : j < k => obs[j].end < obs[k].end
  <2> HIDE DEF here, of
  <2> QED
    BY <1>4, <1>13, <1>14, <1>15
<1> QED
  BY <1>2, <1>4, <1>6, <1>9, <1>13, <1>17, <1>18, <1>19 DEF picked, obs, C, L, SeriesRight

\* The observations of references, as a sequence over the observations of all.
LEMMA ObservationsOf ==
  ASSUME NEW packet, NEW X, NEW refs \in Seq(X)
  PROVE  Observations(refs, packet) \in Seq({packet[x[2]] : x \in X})
<1>1. DOMAIN refs = 1..Len(refs) /\ Len(refs) \in Nat /\ \A i \in 1..Len(refs) : refs[i] \in X
  OBVIOUS
<1>2. Observations(refs, packet) = [i \in 1..Len(refs) |-> packet[refs[i][2]]]
  BY <1>1 DEF Observations
<1>3. \A i \in 1..Len(refs) : packet[refs[i][2]] \in {packet[x[2]] : x \in X}
  BY <1>1
<1> QED
  BY <1>1, <1>2, <1>3

\* A concatenation has the elements of both sequences.
LEMMA ToSetBoth ==
  ASSUME NEW Y, NEW a \in Seq(Y), NEW b \in Seq(Y)
  PROVE  ToSet(a \o b) = ToSet(a) \cup ToSet(b)
<1>1. /\ Len(a) \in Nat /\ DOMAIN a = 1..Len(a) /\ Len(b) \in Nat /\ DOMAIN b = 1..Len(b)
      /\ DOMAIN (a \o b) = 1..(Len(a) + Len(b))
      /\ \A i \in 1..(Len(a) + Len(b)) : (a \o b)[i] = IF i <= Len(a) THEN a[i] ELSE b[i - Len(a)]
  OBVIOUS
<1> DEFINE c == a \o b
<1>2. DOMAIN c = 1..(Len(a) + Len(b)) /\ \A i \in 1..(Len(a) + Len(b)) : c[i] = IF i <= Len(a) THEN a[i] ELSE b[i - Len(a)]
  BY <1>1
<1> HIDE DEF c
<1>3. \A i \in DOMAIN a : i \in DOMAIN c /\ c[i] = a[i]
  BY <1>1, <1>2
<1>4. \A i \in DOMAIN b : Len(a) + i \in DOMAIN c /\ c[Len(a) + i] = b[i]
  BY <1>1, <1>2
<1>5. ASSUME NEW i \in DOMAIN c PROVE c[i] \in ToSet(a) \cup ToSet(b)
  <2>1. CASE i <= Len(a)
    BY <1>1, <1>2, <1>5, <2>1 DEF ToSet
  <2>2. CASE ~(i <= Len(a))
    <3>1. i - Len(a) \in DOMAIN b /\ c[i] = b[i - Len(a)]
      BY <1>1, <1>2, <1>5, <2>2
    <3> QED
      BY <3>1 DEF ToSet
  <2> QED
    BY <2>1, <2>2
<1>6. ToSet(c) = ToSet(a) \cup ToSet(b)
  BY <1>3, <1>4, <1>5 DEF ToSet
<1> QED
  BY <1>6 DEF c

\* The dates of a series are those its references name.
LEMMA EndsFacts ==
  ASSUME NEW X, NEW p, p.refs \in Seq(X), NEW packet, NEW slot,
         SeriesRight(p, slot, packet), SeriesError(InSlot(p.refs, slot), packet) = NoError
  PROVE  LET obs == Observations(InSlot(p.refs, slot), packet)
             m == Len(InSlot(p.refs, slot))
         IN  /\ m \in Nat /\ Ends(obs) \in [1..m -> Int]
             /\ \A j, k \in 1..m : j < k => Ends(obs)[j] < Ends(obs)[k]
             /\ {Ends(obs)[k] : k \in 1..m} = Dated(p, slot, packet)
<1> DEFINE obs == Observations(InSlot(p.refs, slot), packet)
           m == Len(InSlot(p.refs, slot))
<1>1. /\ m \in Nat /\ DOMAIN obs = 1..m /\ ToSet(obs) = {packet[p.refs[i][2]] : i \in Cited(p, slot)}
      /\ \A k \in 1..m : obs[k].end \in Int
      /\ \A j, k \in 1..m : j < k => obs[j].end < obs[k].end
  BY DEF SeriesRight
<1> HIDE DEF obs, m
<1>2. Ends(obs) = [k \in 1..m |-> obs[k].end]
  BY <1>1 DEF Ends
<1>3. {Ends(obs)[k] : k \in 1..m} = {o.end : o \in ToSet(obs)}
  BY <1>1, <1>2 DEF ToSet
<1>4. {o.end : o \in ToSet(obs)} = Dated(p, slot, packet)
  BY <1>1 DEF Dated
<1>5. Ends(obs) \in [1..m -> Int] /\ \A j, k \in 1..m : j < k => Ends(obs)[j] < Ends(obs)[k]
  BY <1>1, <1>2
<1> QED
  BY <1>1, <1>3, <1>4, <1>5 DEF obs, m

\* Two slots, the first of which must be there.
LEMMA SlotPair ==
  ASSUME NEW slots, NEW a, NEW b, a # b
  PROVE  slots \in {{a}, {a, b}} <=> slots \subseteq {a, b} /\ a \in slots
OBVIOUS

\* _bind_market_statistics: a price series, and a benchmark with the same dates.
LEMMA MarketRight ==
  ASSUME NEW X, NEW p, p.refs \in Seq(X), NEW packet, PacketTyped(packet),
         p.tool = "market_statistics", p.fields \cap ControllerFields(p.tool) = {}
  PROVE  BindsRight(p, BindMarketStatistics(p, packet), packet)
<1> DEFINE slots == {p.refs[i][1] : i \in DOMAIN p.refs}
           prices == InSlot(p.refs, "prices")
           others == InSlot(p.refs, "benchmark_prices")
           first == SeriesError(prices, packet)
           second == IF others = <<>> THEN NoError ELSE SeriesError(others, packet)
           both == <<first, second>>
           primary == Observations(prices, packet)
           benchmark == Observations(others, packet)
           call == BindMarketStatistics(p, packet)
           bound == [Bound(primary, <<>>) EXCEPT
                       !.benchmark = IF others = <<>> THEN <<>> ELSE SimpleReturns(benchmark),
                       !.sources   = Lineage(primary \o benchmark)]
           ids == \A i \in 1..Len(p.refs) : p.refs[i][2] \in DOMAIN packet
           C(slot) == Cited(p, slot)
           here(slot) == \A i \in Cited(p, slot) : p.refs[i][2] \in DOMAIN packet
<1>0. DOMAIN p.refs = 1..Len(p.refs) /\ Len(p.refs) \in Nat
  OBVIOUS
<1>1. SeriesRight(p, "prices", packet) /\ SeriesRight(p, "benchmark_prices", packet)
  BY SeriesFacts
<1>2. /\ MayBind(p, packet)
            <=> /\ ids /\ slots \in {{"prices"}, {"prices", "benchmark_prices"}}
                /\ \A s \in slots : PriceSeries(p, s, packet)
                /\ \A s \in slots : Dated(p, s, packet) = Dated(p, "prices", packet)
  BY IdsFacts DEF MayBind
<1>3. call = IF p.refs = <<>> \/ ~(slots \subseteq {"prices", "benchmark_prices"})
               THEN Refused("invalid_observation_binding")
             ELSE IF FirstError(both) # NoError THEN Refused(FirstError(both))
             ELSE IF others # <<>> /\ Ends(benchmark) # Ends(primary) THEN Refused("incompatible_observations")
             ELSE bound
  BY DEF BindMarketStatistics
<1>4. \A slot \in {"prices", "benchmark_prices"} : C(slot) = {} <=> slot \notin slots
  BY <1>0 DEF Cited
<1>5. slots \subseteq {"prices", "benchmark_prices"} => DOMAIN p.refs = C("prices") \cup C("benchmark_prices")
  BY <1>0 DEF Cited
<1>6. slots = {} <=> p.refs = <<>>
  BY NoSlots
<1>7. /\ FirstError(both) = NoError <=> first = NoError /\ second = NoError
      /\ FirstError(both) # "invalid_schema"
  <2>1. DOMAIN both = 1..2 /\ both[1] = first /\ both[2] = second
    OBVIOUS
  <2>2. first # "invalid_schema" /\ second # "invalid_schema"
    BY <1>1 DEF SeriesRight, NoError
  <2> HIDE DEF both, first, second
  <2>3. /\ FirstError(both) = NoError <=> \A k \in 1..2 : both[k] = NoError
        /\ FirstError(both) # NoError => \E k \in 1..2 : both[k] = FirstError(both)
    <3>1. DOMAIN both \subseteq Nat
      BY <2>1
    <3> QED
      BY <2>1, <3>1, FirstErrorFacts
  <2>4. \A k \in 1..2 : k = 1 \/ k = 2
    OBVIOUS
  <2> QED
    BY <2>1, <2>2, <2>3, <2>4 DEF NoError
<1>8. /\ first = NoError <=> here("prices") /\ PriceSeries(p, "prices", packet)
      /\ second = NoError <=> (others # <<>> => here("benchmark_prices") /\ PriceSeries(p, "benchmark_prices", packet))
      /\ others = <<>> <=> "benchmark_prices" \notin slots
      /\ prices = <<>> <=> "prices" \notin slots
  BY <1>1, <1>4 DEF SeriesRight
<1>9. first = NoError => "prices" \in slots
  <2>1. first = NoError => Len(prices) > 0
    BY <1>1 DEF SeriesRight
  <2>2. Len(<<>>) = 0
    OBVIOUS
  <2> HIDE DEF first, prices
  <2> QED
    BY <1>8, <2>1, <2>2
<1>10. slots \subseteq {"prices", "benchmark_prices"} => (ids <=> here("prices") /\ here("benchmark_prices"))
  BY <1>0, <1>5
<1>11. "benchmark_prices" \notin slots => here("benchmark_prices")
  BY <1>4
<1>12. ASSUME first = NoError, SeriesError(others, packet) = NoError
       PROVE  Ends(benchmark) = Ends(primary)
                <=> Dated(p, "benchmark_prices", packet) = Dated(p, "prices", packet)
  <2> DEFINE m == Len(prices)
             n == Len(others)
  <2>1. /\ m \in Nat /\ Ends(primary) \in [1..m -> Int]
        /\ \A j, k \in 1..m : j < k => Ends(primary)[j] < Ends(primary)[k]
        /\ {Ends(primary)[k] : k \in 1..m} = Dated(p, "prices", packet)
    BY <1>1, <1>12, EndsFacts
  <2>2. /\ n \in Nat /\ Ends(benchmark) \in [1..n -> Int]
        /\ \A j, k \in 1..n : j < k => Ends(benchmark)[j] < Ends(benchmark)[k]
        /\ {Ends(benchmark)[k] : k \in 1..n} = Dated(p, "benchmark_prices", packet)
    BY <1>1, <1>12, EndsFacts
  <2> DEFINE s == Ends(primary)
             t == Ends(benchmark)
  <2> HIDE DEF m, n, s, t
  <2>3. ASSUME s = t PROVE {s[k] : k \in 1..m} = {t[k] : k \in 1..n}
    <3>1. DOMAIN s = 1..m /\ DOMAIN t = 1..n
      BY <2>1, <2>2 DEF s, t
    <3> QED
      BY <2>3, <3>1
  <2>4. ASSUME {s[k] : k \in 1..m} = {t[k] : k \in 1..n} PROVE s = t
    BY <2>1, <2>2, <2>4, SameSeries DEF s, t
  <2> QED
    BY <2>1, <2>2, <2>3, <2>4 DEF s, t
<1>13. SUFFICES ASSUME p.refs # <<>>, slots \subseteq {"prices", "benchmark_prices"}
       PROVE  BindsRight(p, call, packet)
  <2>1. CASE p.refs = <<>> \/ ~(slots \subseteq {"prices", "benchmark_prices"})
    <3>1. call = Refused("invalid_observation_binding")
      BY <1>3, <2>1
    <3>2. ~MayBind(p, packet)
      BY <1>2, <1>6, <2>1
    <3> HIDE DEF call
    <3> QED
      BY <3>1, <3>2, RefusedFacts DEF call, BindsRight, NoError
  <2> QED
    BY <2>1
<1> HIDE DEF slots, first, second, both, bound, call, ids, here, C
<1>14. MayBind(p, packet) <=> /\ first = NoError /\ second = NoError
                              /\ others # <<>> => Ends(benchmark) = Ends(primary)
  <2>1. slots \in {{"prices"}, {"prices", "benchmark_prices"}} <=> "prices" \in slots
    BY <1>13, SlotPair
  <2>2. second = IF others = <<>> THEN NoError ELSE SeriesError(others, packet)
    BY DEF second
  <2>3. CASE others = <<>>
    <3>1. slots \subseteq {"prices"} /\ here("benchmark_prices")
      BY <1>8, <1>11, <1>13, <2>3
    <3> QED
      BY <1>2, <1>8, <1>9, <1>10, <1>13, <2>1, <2>3, <3>1
  <2>4. CASE others # <<>>
    <3>1. "benchmark_prices" \in slots
      BY <1>8, <2>4
    <3> QED
      BY <1>2, <1>8, <1>9, <1>10, <1>12, <1>13, <2>1, <2>2, <2>4, <3>1
  <2> QED
    BY <2>3, <2>4
<1>15. CASE FirstError(both) # NoError
  BY <1>3, <1>7, <1>13, <1>14, <1>15, RefusedFacts DEF BindsRight
<1>16. CASE FirstError(both) = NoError /\ others # <<>> /\ Ends(benchmark) # Ends(primary)
  <2>1. call = Refused("incompatible_observations")
    BY <1>3, <1>13, <1>16
  <2> QED
    BY <1>14, <1>16, <2>1, RefusedFacts DEF BindsRight, NoError
<1>17. CASE FirstError(both) = NoError /\ ~(others # <<>> /\ Ends(benchmark) # Ends(primary))
  <2>1. call = bound
    BY <1>3, <1>13, <1>17
  <2>2. /\ bound.error = CompatibilityError(primary) /\ bound.values = [i \in DOMAIN primary |-> primary[i].value]
        /\ bound.sources = Lineage(primary \o benchmark) /\ bound.context = ObservationContext(primary)
    BY DEF bound, Bound
  <2>3. /\ Compatible(primary) /\ DOMAIN primary = 1..Len(prices) /\ Len(prices) \in Nat
        /\ Len(prices) > 0 /\ Len(prices) = Cardinality(Cited(p, "prices"))
        /\ \A k \in 1..Len(prices) : primary[k].end \in Int
        /\ ToSet(primary) = {packet[p.refs[i][2]] : i \in Cited(p, "prices")}
        /\ ToSet(benchmark) = {packet[p.refs[i][2]] : i \in Cited(p, "benchmark_prices")}
    BY <1>1, <1>7, <1>17 DEF SeriesRight, first
  <2>4. bound.error = NoError
    BY <2>2, <2>3 DEF CompatibilityError
  <2>5. bound.sources = UNION {packet[p.refs[i][2]].sources : i \in DOMAIN p.refs}
    <3>1. prices \in Seq(X) /\ others \in Seq(X)
      BY PickedFacts
    <3>2. primary \in Seq({packet[x[2]] : x \in X}) /\ benchmark \in Seq({packet[x[2]] : x \in X})
      BY <3>1, ObservationsOf
    <3>3. ToSet(primary \o benchmark) = ToSet(primary) \cup ToSet(benchmark)
      BY <3>2, ToSetBoth
    <3>4. ToSet(primary \o benchmark) = {packet[p.refs[i][2]] : i \in DOMAIN p.refs}
      BY <1>5, <1>13, <2>3, <3>3 DEF C
    <3> QED
      BY <2>2, <3>4 DEF Lineage
  <2>6. Grounded(p, bound, packet)
    BY <2>2, <2>3, <2>5, BoundGrounded
  <2> QED
    BY <1>7, <1>14, <1>17, <2>1, <2>4, <2>6 DEF BindsRight, NoError
<1> QED
  BY <1>15, <1>16, <1>17 DEF call

\* _bind_finance_arguments binds what its tool may bind.
LEMMA BindRight ==
  ASSUME NEW X, NEW p, p.refs \in Seq(X), NEW packet, PacketTyped(packet),
         p.terminal \in {"none", "open", "valued"}, p.tool \in BoundTools
  PROVE  BindsRight(p, BindFinanceArguments(p, packet), packet)
<1> DEFINE call == BindFinanceArguments(p, packet)
<1>0. /\ RejectControllerFields(p) = NoError <=> p.fields \cap ControllerFields(p.tool) = {}
      /\ RejectControllerFields(p) # "invalid_schema"
  BY RejectFacts DEF NoError
<1>1. CASE RejectControllerFields(p) # NoError
  <2>1. call = Refused(RejectControllerFields(p))
    BY <1>1 DEF BindFinanceArguments
  <2>2. ~MayBind(p, packet)
    BY <1>0, <1>1 DEF MayBind
  <2> HIDE DEF call
  <2> QED
    BY <1>0, <1>1, <2>1, <2>2, RefusedFacts DEF call, BindsRight
<1>2. CASE RejectControllerFields(p) = NoError
  <2>0. p.fields \cap ControllerFields(p.tool) = {}
    BY <1>0, <1>2
  <2>1. CASE p.tool = "calculate"
    <3>1. call = BindCalculate(p, packet)
      BY <1>2, <2>1 DEF BindFinanceArguments
    <3> QED
      BY <2>0, <2>1, <3>1, CalculateRight
  <2>2. CASE p.tool = "metrics"
    <3>1. call = BindMetrics(p, packet)
      BY <1>2, <2>2 DEF BindFinanceArguments
    <3> QED
      BY <2>0, <2>2, <3>1, MetricsRight
  <2>3. CASE p.tool = "forecast_growth"
    <3>1. call = BindForecast(p, packet)
      BY <1>2, <2>3 DEF BindFinanceArguments
    <3> QED
      BY <2>0, <2>3, <3>1, ForecastRight
  <2>4. CASE p.tool = "discounted_cash_flow"
    <3>1. call = BindDcf(p, packet)
      BY <1>2, <2>4 DEF BindFinanceArguments
    <3> QED
      BY <2>0, <2>4, <3>1, DcfRight
  <2>5. CASE p.tool = "market_statistics"
    <3>1. call = BindMarketStatistics(p, packet)
      BY <1>2, <2>5 DEF BindFinanceArguments
    <3> QED
      BY <2>0, <2>5, <3>1, MarketRight
  <2>6. CASE p.tool = "rank"
    <3>1. call = Refused("binding_not_supported")
      BY <1>2, <2>6 DEF BindFinanceArguments
    <3>2. ~MayBind(p, packet)
      BY <2>6 DEF MayBind
    <3> HIDE DEF call
    <3> QED
      BY <3>1, <3>2, RefusedFacts DEF call, BindsRight, NoError
  <2> QED
    BY <2>1, <2>2, <2>3, <2>4, <2>5, <2>6 DEF BoundTools
<1> QED
  BY <1>1, <1>2

--------------------------------------------------------------------------------
(* One proposal, and the batch.                                                 *)

ProposalTyped(p, X) ==
  p.refs \in Seq(X) /\ p.terminal \in {"none", "open", "valued"}

\* A grounded call carries the sources of every observation it cites.
LEMMA GroundedSources ==
  ASSUME NEW p, NEW call, NEW packet, Grounded(p, call, packet), NEW sources
  PROVE  call.sources \subseteq sources
           <=> \A i \in DOMAIN p.refs : packet[p.refs[i][2]].sources \subseteq sources
<1>1. call.sources = UNION {packet[p.refs[i][2]].sources : i \in DOMAIN p.refs}
  BY DEF Grounded
<1> QED
  BY <1>1

\* _preflight_calls for one proposal: it is prepared exactly when it may run.
LEMMA PrepareFacts ==
  ASSUME NEW X, NEW p, ProposalTyped(p, X), NEW packet, PacketTyped(packet), NEW tools, NEW sources
  PROVE  LET call == Prepare(p, tools, sources, packet)
         IN  /\ call.error = NoError <=> MayRun(p, tools, sources, packet)
             /\ call.error = "invalid_schema" => ~FitsSchema(p)
             /\ call.error = NoError /\ p.tool \in BoundTools => Grounded(p, call, packet) /\ Assumed(p, call)
<1> DEFINE call == Prepare(p, tools, sources, packet)
           error == ProposalError(p, tools, sources, packet)
           bound == Bind(p, packet)
           fit == bound.sources \subseteq sources
           cited == \A i \in DOMAIN p.refs : packet[p.refs[i][2]].sources \subseteq sources
           given == Filled(p, bound)
<1>1. call = IF error # NoError THEN Refused(error)
             ELSE IF bound.error # NoError THEN Refused(bound.error)
             ELSE IF ~fit THEN Refused("source_not_allowed")
             ELSE IF ~FitsSchema(p) THEN Refused("invalid_schema")
             ELSE given
  BY DEF Prepare
<1>2. /\ error = NoError <=> /\ p.tool \in tools /\ p.strict /\ p.sources \subseteq sources
                             /\ p.tool \in BoundTools => packet # <<>>
      /\ error # "invalid_schema"
  BY DEF ProposalError, NoError
<1>3. MayRun(p, tools, sources, packet)
        <=> /\ p.tool \in tools /\ p.strict /\ p.shape /\ p.sources \subseteq sources
            /\ p.tool \in BoundTools => /\ packet # <<>> /\ MayBind(p, packet) /\ cited
                                        /\ Own(p) \subseteq Assumptions(p.tool)
  BY DEF MayRun
<1>4. CASE p.tool \in BoundTools
  <2>1. BindsRight(p, bound, packet)
    <3>1. bound = BindFinanceArguments(p, packet)
      BY <1>4 DEF Bind
    <3> QED
      BY <1>4, <3>1, BindRight DEF ProposalTyped
  <2>2. bound.error = NoError => (fit <=> cited)
    BY <2>1, GroundedSources DEF BindsRight
  <2>3. Grounded(p, bound, packet) => Grounded(p, given, packet)
    BY DEF Grounded, Filled
  <2>4. ASSUME MayBind(p, packet)
        PROVE  /\ FitsSchema(p) <=> p.shape /\ Own(p) \subseteq Assumptions(p.tool)
               /\ FitsSchema(p) => Assumed(p, given)
    <3>1. p.fields \cap ControllerFields(p.tool) = {} /\ "terminal" \notin ControllerFields(p.tool)
      BY <2>4 DEF MayBind, ControllerFields
    <3>2. Own(p) \cap ControllerFields(p.tool) = {}
      BY <3>1 DEF Own
    <3>3. given.own = Own(p)
      BY DEF Filled
    <3> QED
      BY <1>4, <3>2, <3>3 DEF FitsSchema, Assumed
  <2>5. given.error = NoError
    BY DEF Filled
  <2> HIDE DEF call, error, bound, fit, cited, given
  <2> QED
    BY <1>1, <1>2, <1>3, <1>4, <2>1, <2>2, <2>3, <2>4, <2>5, RefusedFacts DEF call, BindsRight, NoError
<1>5. CASE p.tool \notin BoundTools
  <2>1. bound.error = NoError /\ bound.sources = p.sources /\ given.error = NoError
    BY <1>5 DEF Bind, Refused, Filled
  <2>2. FitsSchema(p) <=> p.shape
    BY <1>5 DEF FitsSchema
  <2> HIDE DEF call, error, bound, cited, given
  <2> QED
    BY <1>1, <1>2, <1>3, <1>5, <2>1, <2>2, RefusedFacts DEF call, NoError
<1> QED
  BY <1>4, <1>5

\* A batch of proposals runs when each of them may run, and then as the controller
\* bound it: with the numbers and the sources of the observations it cites, under a
\* context that speaks for all of them, and with nothing of the model's but what its
\* tool leaves to it.  Otherwise no call of the batch runs, and only a schema error may
\* be repaired.
THEOREM BindingsStaySound ==
  ASSUME NEW X, NEW Proposals, \A p \in Proposals : ProposalTyped(p, X),
         NEW tools, NEW sources, NEW packet, PacketTyped(packet), NEW proposals \in Seq(Proposals)
  PROVE  BindingSound(proposals, tools, sources, packet)
<1> DEFINE prepared == [i \in DOMAIN proposals |-> Prepare(proposals[i], tools, sources, packet)]
           errors == [i \in DOMAIN prepared |-> prepared[i].error]
           error == FirstError(errors)
           answer == Preflight(proposals, tools, sources, packet)
           n == Len(proposals)
<1>1. n \in Nat /\ DOMAIN proposals = 1..n /\ \A i \in 1..n : ProposalTyped(proposals[i], X)
  OBVIOUS
<1>2. /\ answer.error = error /\ answer.repairable = (error = "invalid_schema")
      /\ answer.calls = IF error = NoError THEN prepared ELSE <<>>
  BY DEF Preflight
<1>3. DOMAIN prepared = 1..n /\ \A i \in 1..n : prepared[i] = Prepare(proposals[i], tools, sources, packet)
  BY <1>1
<1>4. Len(prepared) = n
  BY <1>1, <1>3
<1>5. \A i \in 1..n :
        /\ prepared[i].error = NoError <=> MayRun(proposals[i], tools, sources, packet)
        /\ prepared[i].error = "invalid_schema" => ~FitsSchema(proposals[i])
        /\ prepared[i].error = NoError /\ proposals[i].tool \in BoundTools =>
             Grounded(proposals[i], prepared[i], packet) /\ Assumed(proposals[i], prepared[i])
  BY <1>1, <1>3, PrepareFacts
<1>6. DOMAIN errors = 1..n /\ \A i \in 1..n : errors[i] = prepared[i].error
  BY <1>3
<1> HIDE DEF prepared, errors, answer, n
<1>7. /\ error = NoError <=> \A i \in 1..n : errors[i] = NoError
      /\ error # NoError => \E i \in 1..n : errors[i] = error
  <2>1. DOMAIN errors \subseteq Nat
    BY <1>1, <1>6
  <2> QED
    BY <1>6, <2>1, FirstErrorFacts
<1> HIDE DEF error
<1>8. answer.error = NoError <=> \A i \in DOMAIN proposals : MayRun(proposals[i], tools, sources, packet)
  BY <1>1, <1>2, <1>5, <1>6, <1>7
<1>9. Len(answer.calls) = IF answer.error = NoError THEN Len(proposals) ELSE 0
  BY <1>2, <1>4 DEF n
<1>10. ASSUME NEW i \in DOMAIN answer.calls, proposals[i].tool \in BoundTools
       PROVE  Grounded(proposals[i], answer.calls[i], packet) /\ Assumed(proposals[i], answer.calls[i])
  <2>1. error = NoError
    <3>1. DOMAIN <<>> = {}
      OBVIOUS
    <3> QED
      BY <1>2, <1>10, <3>1
  <2>2. i \in 1..n /\ answer.calls = prepared
    BY <1>2, <1>3, <1>10, <2>1
  <2> QED
    BY <1>5, <1>6, <1>7, <1>10, <2>1, <2>2
<1>11. ASSUME answer.repairable PROVE \E i \in DOMAIN proposals : ~FitsSchema(proposals[i])
  <2>1. error = "invalid_schema" /\ error # NoError
    BY <1>2, <1>11 DEF NoError
  <2>2. PICK i \in 1..n : errors[i] = error
    BY <1>7, <2>1
  <2>3. prepared[i].error = "invalid_schema"
    BY <1>6, <2>1, <2>2
  <2> QED
    BY <1>1, <1>5, <2>3
<1> QED
  BY <1>8, <1>9, <1>10, <1>11, Zenon DEF BindingSound, answer

\* What is asked about tool calls: a batch of proposals with a packet, a session's steps.
CallsAsked(Proposals, Id, Name, Arg, Src) ==
  /\ subject.kind = "binding" => subject.input[1] \in Seq(Proposals) /\ PacketTyped(subject.input[4])
  /\ subject.kind = "session" => /\ subject.input[1] \in SUBSET Name
                                 /\ subject.input[2] \in Seq(StepOf(Id, Name, Arg, Src))

\* _preflight_calls, _bind_finance_arguments, LocalToolRegistry.execute: for batches and
\* sessions of any length, any allow-list, packet and scope, what runs is bound to
\* comparable observations of the packet, with their sources, a batch with one bad call
\* does not run at all, and a call ID stands for one call, which runs once.
THEOREM ToolCallsStaySound ==
  ASSUME NEW X, NEW Proposals, \A p \in Proposals : ProposalTyped(p, X),
         NEW Id, NEW Name, NEW Arg, NEW Src
  PROVE  CallsAsked(Proposals, Id, Name, Arg, Src) /\ Evaluating => []ToolCallsSound
<1> DEFINE Asked == CallsAsked(Proposals, Id, Name, Arg, Src)
<1>1. ASSUME Asked PROVE ToolCallsSound
  <2>1. ASSUME Is("binding")
        PROVE  BindingSound(subject.input[1], subject.input[2], subject.input[3], subject.input[4])
    <3>1. subject.input[1] \in Seq(Proposals) /\ PacketTyped(subject.input[4])
      BY <1>1, <2>1 DEF CallsAsked, Is
    <3> QED
      BY <3>1, BindingsStaySound
  <2>2. ASSUME Is("session") PROVE SessionSound(subject.input[1], subject.input[2])
    <3>1. subject.input[1] \in SUBSET Name /\ subject.input[2] \in Seq(StepOf(Id, Name, Arg, Src))
      BY <1>1, <2>2 DEF CallsAsked, Is
    <3> QED
      BY <3>1, SessionsStaySound
  <2> QED
    BY <2>1, <2>2 DEF ToolCallsSound
<1>2. Asked /\ [Evaluate]_<<subject, evaluated>> => Asked'
  BY DEF CallsAsked, Evaluate
<1> QED
  BY <1>1, <1>2, PTL DEF Evaluating
================================================================================
