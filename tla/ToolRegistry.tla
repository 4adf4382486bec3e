------------------------------- MODULE ToolRegistry ------------------------------
(***************************************************************************)
(* The registry of local tools (tools/registry.py): scoped and direct      *)
(* calls, answers kept by call ID, and tools registered along the way.     *)
(*                                                                         *)
(* execute holds a lock but awaits nothing inside it and handlers are      *)
(* synchronous, so calls do not overlap: what a registry lives through is  *)
(* a sequence of steps, and a session is that sequence.                    *)
(*                                                                         *)
(* A step registers a tool or calls one: [op, tool, scope, call, outcome]. *)
(* A call is [id, name, arguments, sources]: the arguments say which of a  *)
(* tool's calls it is, or that they fail its schema ("misshaped");         *)
(* "malformed" stands for sources that are not a list of strings.  The     *)
(* outcome is what the handler, run at that moment, would do: it need not  *)
(* be the same twice.                                                      *)
(***************************************************************************)
EXTENDS Integers, Sequences, SequencesExt, FiniteSetsExt

NoId     == 0                        \* a blank call ID
NoScope  == [tools |-> {}, sources |-> {}, limited |-> FALSE, open |-> TRUE]

\* What a handler may do: a result, one that is too large, the two families of
\* exceptions the registry answers, and any other exception.
Outcome == {"ok", "result_too_large", "invalid_arguments", "calculation_error", "raised"}

Sources(call) == call.sources \ {"malformed"}
Listed(call)  == "malformed" \notin call.sources

--------------------------------------------------------------------------------
(* Answers.  The run field tells the invocation a result came from.             *)

Failure(call, code) == [id |-> call.id, code |-> code, sources |-> {}, run |-> 0]

\* The registry: its tools, the answers by ID with the call they belong to, every
\* invocation of a handler, and every answer given.
Fresh(tools) == [tools |-> tools, cache |-> {}, runs |-> <<>>, answers |-> <<>>]

Kept(s, id) == {c \in s.cache : c.call.id = id}

\* _execute_once: what is refused before the handler, then the handler's outcome.
Refusal(s, call) ==
  IF call.id = NoId THEN "invalid_call_id"
  ELSE IF call.name \notin s.tools THEN "unknown_tool"
  ELSE IF call.arguments = "misshaped" THEN "invalid_schema"
  ELSE IF ~Listed(call) THEN "invalid_arguments"
  ELSE "none"

ExecuteOnce(s, call, outcome) ==
  IF Refusal(s, call) # "none" THEN Failure(call, Refusal(s, call))
  ELSE IF outcome = "ok"
    THEN [id |-> call.id, code |-> "ok", sources |-> Sources(call), run |-> Len(s.runs) + 1]
    ELSE Failure(call, outcome)

\* A scope lets its own tools pass, and sources of its own; sources that are not a
\* list pass here and are refused further on.
ScopeRefusal(scope, call) ==
  IF scope.open THEN "none"
  ELSE IF call.name \notin scope.tools THEN "tool_not_allowed"
  ELSE IF scope.limited /\ Listed(call) /\ ~(Sources(call) \subseteq scope.sources)
    THEN "source_not_allowed"
    ELSE "none"

Answered(s, step, answer) ==
  [s EXCEPT !.answers = Append(@, [scope |-> step.scope, call |-> step.call, answer |-> answer])]

\* The handler runs; an exception it lets escape answers nothing and keeps nothing.
RunCall(s, step) ==
  LET answer == ExecuteOnce(s, step.call, step.outcome)
      ran    == IF Refusal(s, step.call) # "none" THEN s
                ELSE [s EXCEPT !.runs = Append(@, [call |-> step.call, outcome |-> step.outcome])]
  IN  IF answer.code = "raised" THEN ran
      ELSE Answered([ran EXCEPT !.cache = @ \cup {[call |-> step.call, answer |-> answer]}], step, answer)

\* Mutant: an ID answers whatever call it comes with.
Execute_ById(s, step) ==
  LET kept == Kept(s, step.call.id)
  IN  IF kept = {} THEN RunCall(s, step) ELSE Answered(s, step, (CHOOSE c \in kept : TRUE).answer)

\* execute: the kept answer for the same call, a conflict for another one.
Execute(s, step) ==
  LET kept == Kept(s, step.call.id)
  IN  IF kept = {} THEN RunCall(s, step)
      ELSE LET c == CHOOSE c \in kept : TRUE
           IN  Answered(s, step, IF c.call = step.call THEN c.answer
                                 ELSE Failure(step.call, "call_id_conflict"))

ScopedExecute(s, step) ==
  LET refusal == ScopeRefusal(step.scope, step.call)
  IN  IF refusal = "none" THEN Execute(s, step)
      ELSE Answered(s, step, Failure(step.call, refusal))

\* A name is registered once; a second time raises.
Register(s, tool) == [s EXCEPT !.tools = @ \cup {tool}]

Serve(s, step) == IF step.op = "register" THEN Register(s, step.tool) ELSE ScopedExecute(s, step)

\* The registry before the first step and after each.
Sessions(tools, steps) ==
  LET s[n \in 0..Len(steps)] == IF n = 0 THEN Fresh(tools) ELSE Serve(s[n - 1], steps[n])
  IN  s

Session(tools, steps) == Sessions(tools, steps)[Len(steps)]

\* fixed_dag.py _validate_tool_result: what the task loop takes for an answer.
ToolResultAccepted(scope, call, answer) ==
  answer.id = call.id /\ (scope.limited => answer.sources \subseteq scope.sources)

--------------------------------------------------------------------------------
(* What a registry promises over a session.                                     *)

ByScope == {"tool_not_allowed", "source_not_allowed"}

Served(s) == {g \in ToSet(s.answers) : g.answer.code \notin ByScope}

\* once a handler has returned for an ID it does not run for it again
RunsOnce(s) == \A i, j \in DOMAIN s.runs :
  i < j /\ s.runs[i].call.id = s.runs[j].call.id => s.runs[i].outcome = "raised"

\* one call has one answer, a result is a run of the very call, and an ID has one call
AnswersStand(s) ==
  /\ \A g, h \in Served(s) : g.call = h.call => g.answer = h.answer
  /\ \A g \in ToSet(s.answers) : g.answer.code = "ok" =>
       g.answer.run \in DOMAIN s.runs /\ s.runs[g.answer.run] = [call |-> g.call, outcome |-> "ok"]
  /\ \A g, h \in Served(s) : g.call.id = h.call.id /\ g.call # h.call =>
       "call_id_conflict" \in {g.answer.code, h.answer.code}

\* what a scope lets through is what it may see, and the task loop accepts it
ScopesHold(s) ==
  /\ \A g \in ToSet(s.answers) : g.answer.code = "ok" /\ ~g.scope.open => g.call.name \in g.scope.tools
  /\ \A g \in ToSet(s.answers) : ToolResultAccepted(g.scope, g.call, g.answer)

\* what a scope refuses leaves no trace: the session ends as if it had been left out
Passes(step) == step.op = "register" \/ ScopeRefusal(step.scope, step.call) = "none"

Quiet(tools, steps) ==
  LET s[n \in 0..Len(steps)] == IF n = 0 THEN Fresh(tools)
                                ELSE IF Passes(steps[n]) THEN Serve(s[n - 1], steps[n])
                                ELSE s[n - 1]
  IN  s

RefusalsUnseen(tools, steps) ==
  LET end   == Session(tools, steps)
      quiet == Quiet(tools, steps)[Len(steps)]
  IN  quiet.cache = end.cache /\ quiet.runs = end.runs /\ quiet.tools = end.tools

SessionSound(tools, steps) ==
  LET end == Session(tools, steps)
  IN  RunsOnce(end) /\ AnswersStand(end) /\ ScopesHold(end) /\ RefusalsUnseen(tools, steps)
================================================================================
