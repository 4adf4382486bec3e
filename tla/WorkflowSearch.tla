----------------------------- MODULE WorkflowSearch -----------------------------
(***************************************************************************)
(* The cycle search of dag.py, which only words the refusal of a cyclic    *)
(* workflow, and the reference for the validation in Workflow, as the      *)
(* subject of an evaluation.                                               *)
(***************************************************************************)
EXTENDS Workflow, Evaluation

--------------------------------------------------------------------------------
(* _find_cycle: a depth-first search along the dependencies.  state: 0 unseen,  *)
(* 1 on the stack, 2 left; next: the place in its loop that a call of visit has *)
(* come to.  The first dependency found on the stack closes the cycle, and      *)
(* nothing is visited after it.                                                 *)

DepsOf(ts, id) == (CHOOSE t \in ToSet(ts) : t.id = id).deps

Started(ts) == [state |-> [id \in Ids(ts) |-> 0], next |-> [id \in Ids(ts) |-> 1],
                stack |-> <<>>, cycle |-> <<>>]

Unseen(ts, s) == {i \in DOMAIN ts : s.state[ts[i].id] = 0}

\* visit is called, and returns without a cycle.
Enter(s, id) == [s EXCEPT !.state[id] = 1, !.stack = Append(@, id)]
Leave(s)     == [s EXCEPT !.state[Last(s.stack)] = 2, !.stack = Front(@)]

\* The next dependency of the task on top of the stack.
Follow(s, d) ==
  LET past  == [s EXCEPT !.next[Last(s.stack)] = @ + 1]
      start == CHOOSE i \in DOMAIN s.stack : s.stack[i] = d
  IN  CASE s.state[d] = 0 -> Enter(past, d)
        [] s.state[d] = 1 -> [past EXCEPT !.cycle = Append(SubSeq(s.stack, start, Len(s.stack)), d)]
        [] s.state[d] = 2 -> past

SearchOver(ts, s) == s.cycle # <<>> \/ (s.stack = <<>> /\ Unseen(ts, s) = {})

Search(ts, s) ==
  LET id   == Last(s.stack)
      deps == DepsOf(ts, id)
  IN  IF SearchOver(ts, s) THEN s
      ELSE IF s.stack = <<>> THEN Enter(s, ts[Min(Unseen(ts, s))].id)
      ELSE IF s.next[id] > Len(deps) THEN Leave(s)
      ELSE Follow(s, deps[s.next[id]])

\* A search enters and leaves each task and follows each dependency, once at most.
Moves(ts) == UNION {{ts[i].id} \X (0..(Len(ts[i].deps) + 1)) : i \in DOMAIN ts}

Searching(ts, moves) ==
  LET s[n \in 0..moves] == IF n = 0 THEN Started(ts) ELSE Search(ts, s[n - 1])
  IN  s

FindCycle(ts) == LET moves == Cardinality(Moves(ts)) IN Searching(ts, moves)[moves].cycle

--------------------------------------------------------------------------------
(* Reference definitions.                                                       *)

\* The positions of ts in an order in which every dependency comes first.
TopologicalOrders(ts) ==
  {o \in SetToSeqs(DOMAIN ts) :
     \A i \in DOMAIN o : ToSet(ts[o[i]].deps) \subseteq {ts[o[j]].id : j \in 1..(i - 1)}}

Earlier(o, q) == \E i \in DOMAIN o : o[i] < q[i] /\ \A j \in 1..(i - 1) : o[j] = q[j]

\* A workflow is accepted only if it has a topological order, and refused as
\* cyclic only if it has none (once its IDs are sound); the order the runtime
\* schedules by is the earliest of all of them, position by position; a reported
\* cycle is one; an accepted task can spend a whole batch (TaskLoop) and depends
\* only on tasks before it (DagScheduler, SerialDag).
WorkflowSound(ts, slots) ==
  LET error == WorkflowError(ts, slots)
      order == StableTopologicalIds(ts)
      cycle == FindCycle(ts)
  IN  /\ error = "none" =>
           /\ \E o \in TopologicalOrders(ts) :
                /\ order = [i \in DOMAIN o |-> ts[o[i]].id]
                /\ \A q \in TopologicalOrders(ts) : q = o \/ Earlier(o, q)
           /\ Schedulable(ts)
           /\ cycle = <<>>
           /\ \A i \in DOMAIN ts : ts[i].tools # <<>> => ts[i].perTurn <= ts[i].toolCalls
      /\ error = "dependency_cycle" /\ (\A i \in DOMAIN ts : TaskError(ts[i]) = "none") =>
           /\ TopologicalOrders(ts) = {}
           /\ Len(cycle) > 2 /\ Head(cycle) = Last(cycle)
           /\ IsInjective(Front(cycle))
           /\ \A i \in 1..(Len(cycle) - 1) : cycle[i + 1] \in ToSet(DepsOf(ts, cycle[i]))

\* dag.py: the definitions that pass are those with a topological order, and the
\* runtime schedules by the first one.
WorkflowsSound == Is("workflow") => WorkflowSound(subject.input[1], subject.input[2])
================================================================================
