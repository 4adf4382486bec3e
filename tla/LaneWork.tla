--------------------------------- MODULE LaneWork --------------------------------
(***************************************************************************)
(* The three loops that spread work over the logical agent lanes, each an  *)
(* asyncio.gather over coroutines that take the same shape:                *)
(*                                                                         *)
(*   "diligence"  BoundedDiligenceRunner.run (automatic_diligence.py):     *)
(*                lane lock, then provider slot, a model call under a      *)
(*                timeout, whose answer validate_result judges;            *)
(*   "batch"      _analyze_batch (automatic_runtime.py): lane lock, then   *)
(*                slot, the analysis in a thread, an exception is a        *)
(*                result;                                                  *)
(*   "live"       _analyze_issuers (live_runtime.py): a slot only, and an  *)
(*                exception leaves the gather while its siblings go on.    *)
(*                                                                         *)
(* asyncio locks and semaphores are first in, first out: the head of a     *)
(* line holds its lock, the first Slots entries of slotLine hold a slot.   *)
(***************************************************************************)
EXTENDS Integers, Sequences, SequencesExt, FiniteSets

CONSTANTS
  Jobs,         \* the jobs are 1..Jobs, in the order they are given
  Lanes,        \* the logical agent lanes
  LaneOf,       \* the lane of each job
  Slots,        \* active_slots, or the runner's slots
  Answers       \* the answers a model may give

Job == 1..Jobs

ASSUME JobsAssumption  == Jobs \in Nat \ {0} /\ LaneOf \in [Job -> Lanes]
ASSUME SlotsAssumption == Slots \in 1..8

VARIABLES
  mode,         \* the loop that runs
  line,         \* line[l]: the jobs at the lock of lane l, its holder first
  slotLine,     \* the jobs at the semaphore, the holders of a slot first
  state,        \* per job: new, waiting, calling or done
  verdict,      \* per job: none, accepted, or the code of its error
  given,        \* per job: the answer behind its verdict
  active, peak, \* the counters under counter_lock
  threads,      \* the jobs whose thread (or model call) still computes
  outcome       \* running, gathered, failed (an exception left) or cancelled

workVars == <<mode, line, slotLine, state, verdict, given, active, peak, threads, outcome>>

Modes    == {"diligence", "batch", "live"}
NoAnswer == [kind |-> "none"]

\* The first `n` entries of a line.
FirstOf(s, n) == {s[i] : i \in {k \in DOMAIN s : k <= n}}

HoldsLane(j) == mode = "live" \/ (line[LaneOf[j]] # <<>> /\ Head(line[LaneOf[j]]) = j)
HoldsSlot(j) == j \in FirstOf(slotLine, Slots)
Calling      == {j \in Job : state[j] = "calling"}

\* A job that leaves its `async with` gives back its slot and its lane.
Leaves(j) ==
  /\ line' = [l \in Lanes |-> RemoveFirst(line[l], j)]
  /\ slotLine' = RemoveFirst(slotLine, j)

--------------------------------------------------------------------------------
(* validate_result: the first check an answer fails names its error.  An answer *)
(* is [kind, request, size, finish, trace, action, shape, cites]: whether it is *)
(* an ActionModelResult, the request it names, whether its text fits, how the   *)
(* generation ended, whether its trace is bounded, what parse_action makes of   *)
(* its text, whether the payload has the schema's shape, and the sources cited. *)

ModelResultError(j, a) ==
  IF a.kind # "result"                     THEN "invalid_model_result"
  ELSE IF a.request # j                    THEN "request_id_mismatch"
  ELSE IF a.size # "fits"                  THEN "action_too_large"
  ELSE IF a.finish \notin {"stop", "eos"}  THEN "non_natural_finish"
  ELSE IF a.trace # "bounded"              THEN "invalid_model_trace"
  ELSE "none"

\* The sources of a job's request are the job's own.
AllowedSources(j) == {j}

ValidateResult(j, a) ==
  LET error == ModelResultError(j, a)
  IN  IF error # "none"              THEN error
      ELSE IF a.action = "malformed" THEN "invalid_json"
      ELSE IF a.action = "calls"     THEN "diligence_tool_calls_disallowed"
      ELSE IF ~a.shape               THEN "invalid_diligence_output"
      ELSE IF ~(a.cites \subseteq AllowedSources(j)) THEN "source_not_allowed"
      ELSE "accepted"

--------------------------------------------------------------------------------

WorkInit ==
  /\ mode \in Modes
  /\ line = [l \in Lanes |-> <<>>]
  /\ slotLine = <<>>
  /\ state = [j \in Job |-> "new"]
  /\ verdict = [j \in Job |-> "none"]
  /\ given = [j \in Job |-> NoAnswer]
  /\ active = 0 /\ peak = 0
  /\ threads = {}
  /\ outcome = "running"

\* What the event loop can hand over: the next coroutine of the gather, a lane to the
\* next job of its line, a slot to the first job that waits for one.
MayBegin(j) == outcome # "cancelled" /\ state[j] = "new" /\ \A k \in 1..(j - 1) : state[k] # "new"
MaySeat(j)  == outcome # "cancelled" /\ state[j] = "waiting" /\ HoldsLane(j) /\ j \notin ToSet(slotLine)
MayCall(j)  == outcome # "cancelled" /\ state[j] = "waiting" /\ HoldsLane(j) /\ HoldsSlot(j)

\* A job at the semaphore: with a slot free it counts itself in and calls at
\* once, else it waits its turn.
StartsCall(j) ==
  /\ state' = [state EXCEPT ![j] = "calling"]
  /\ active' = active + 1
  /\ peak' = IF active + 1 > peak THEN active + 1 ELSE peak
  /\ threads' = threads \cup {j}

Waits(j) ==
  /\ state' = [state EXCEPT ![j] = "waiting"]
  /\ UNCHANGED <<active, peak, threads>>

TakesSeat(j) ==
  /\ slotLine' = Append(slotLine, j)
  /\ IF Len(slotLine) < Slots THEN StartsCall(j) ELSE Waits(j)

\* Mutant: the semaphore is taken before the lane lock.
Begin_SlotFirst(j) ==
  /\ MayBegin(j)
  /\ slotLine' = Append(slotLine, j)
  /\ line' = IF mode = "live" THEN line ELSE [line EXCEPT ![LaneOf[j]] = Append(@, j)]
  /\ IF Len(slotLine) < Slots /\ (mode = "live" \/ line[LaneOf[j]] = <<>>)
     THEN StartsCall(j) ELSE Waits(j)
  /\ UNCHANGED <<mode, verdict, given, outcome>>

\* gather starts its coroutines in order; a free lane is taken on the way.
Begin(j) ==
  /\ MayBegin(j)
  /\ IF mode = "live"
     THEN TakesSeat(j) /\ UNCHANGED line
     ELSE /\ line' = [line EXCEPT ![LaneOf[j]] = Append(@, j)]
          /\ IF line[LaneOf[j]] = <<>> THEN TakesSeat(j) ELSE Waits(j) /\ UNCHANGED slotLine
  /\ UNCHANGED <<mode, verdict, given, outcome>>

\* The lane's lock passes to its next job, which goes on to the semaphore.
Seat(j) ==
  /\ MaySeat(j)
  /\ TakesSeat(j)
  /\ UNCHANGED <<mode, line, verdict, given, outcome>>

\* A slot passes to the first job that waits for one.
Call(j) ==
  /\ MayCall(j)
  /\ StartsCall(j)
  /\ UNCHANGED <<mode, line, slotLine, verdict, given, outcome>>

\* Mutant: the slot of a call that ended is never given back.
Finishes_SlotLeak(j, code) ==
  /\ outcome # "cancelled" /\ state[j] = "calling"
  /\ state' = [state EXCEPT ![j] = "done"]
  /\ verdict' = [verdict EXCEPT ![j] = code]
  /\ active' = active - 1
  /\ threads' = threads \ {j}
  /\ line' = [l \in Lanes |-> RemoveFirst(line[l], j)]
  /\ UNCHANGED <<mode, peak, slotLine>>

\* A call is over: its verdict is kept, its slot and its lane are given back.
Finishes(j, code) ==
  /\ outcome # "cancelled" /\ state[j] = "calling"
  /\ state' = [state EXCEPT ![j] = "done"]
  /\ verdict' = [verdict EXCEPT ![j] = code]
  /\ active' = active - 1
  /\ threads' = threads \ {j}
  /\ Leaves(j)
  /\ UNCHANGED <<mode, peak>>

\* The model answers (in the other modes, the analysis returns).
Answer(j) ==
  /\ IF mode = "diligence"
     THEN \E a \in Answers :
            Finishes(j, ValidateResult(j, a)) /\ given' = [given EXCEPT ![j] = a]
     ELSE Finishes(j, "accepted") /\ UNCHANGED given
  /\ UNCHANGED outcome

\* The call raises: an error result, except in the live loop, where the
\* exception leaves the gather and the run fails without waiting for the rest.
Fail(j) ==
  /\ Finishes(j, IF mode = "diligence" THEN "model_error" ELSE "failed")
  /\ outcome' = IF mode = "live" /\ outcome = "running" THEN "failed" ELSE outcome
  /\ UNCHANGED given

\* asyncio.wait_for runs out: the model's call is cancelled with it.
TimeOut(j) ==
  /\ mode = "diligence"
  /\ Finishes(j, "model_timeout")
  /\ UNCHANGED <<given, outcome>>

\* Every coroutine has returned, and the awaiting run goes on.
Gather ==
  /\ outcome = "running" /\ \A j \in Job : state[j] = "done"
  /\ outcome' = "gathered"
  /\ UNCHANGED <<mode, line, slotLine, state, verdict, given, active, peak, threads>>

\* The run is cancelled: gather cancels every coroutine before any of them
\* runs again, so that no waiter takes the lane or the slot another gives back.
CancelWork ==
  /\ outcome = "running"
  /\ outcome' = "cancelled"
  /\ UNCHANGED <<mode, line, slotLine, state, verdict, given, active, peak, threads>>

\* Mutant: the finally of the counter is missing.
Unwind_Counted(j) ==
  /\ outcome = "cancelled" /\ state[j] # "done"
  /\ state' = [state EXCEPT ![j] = "done"]
  /\ threads' = IF mode = "batch" THEN threads ELSE threads \ {j}
  /\ Leaves(j)
  /\ UNCHANGED <<mode, verdict, given, active, peak, outcome>>

\* A cancelled coroutine leaves its `async with`.  The thread of an analysis
\* cannot be cancelled and goes on; a model call is cancelled with its await.
Unwind(j) ==
  /\ outcome = "cancelled" /\ state[j] # "done"
  /\ state' = [state EXCEPT ![j] = "done"]
  /\ active' = IF state[j] = "calling" THEN active - 1 ELSE active
  /\ threads' = IF mode = "batch" THEN threads ELSE threads \ {j}
  /\ Leaves(j)
  /\ UNCHANGED <<mode, verdict, given, peak, outcome>>

\* The thread of a cancelled analysis ends, and nobody reads what it returns.
ThreadEnds(j) ==
  /\ j \in threads /\ state[j] = "done"
  /\ threads' = threads \ {j}
  /\ UNCHANGED <<mode, line, slotLine, state, verdict, given, active, peak, outcome>>

WorkNext ==
  \/ \E j \in Job : \/ Begin(j) \/ Seat(j) \/ Call(j)
                    \/ Answer(j) \/ Fail(j) \/ TimeOut(j)
                    \/ Unwind(j) \/ ThreadEnds(j)
  \/ Gather
  \/ CancelWork

WorkSpec == WorkInit /\ [][WorkNext]_workVars

\* The event loop runs what is ready, and a call ends: its timeout, the return
\* of the analysis.  Nobody has to cancel.
FairWorkSpec ==
  /\ WorkSpec /\ WF_workVars(Gather)
  /\ \A j \in Job :
       /\ WF_workVars(Begin(j)) /\ WF_workVars(Seat(j)) /\ WF_workVars(Call(j))
       /\ WF_workVars(Answer(j) \/ Fail(j) \/ TimeOut(j))
       /\ WF_workVars(Unwind(j))

--------------------------------------------------------------------------------

\* A lane never works twice at a time, not even in a thread that outlives its
\* cancelled coroutine; the counter is the number of calls under way, never
\* above the slots or the peak that is reported; an accepted
\* answer was given to the job's own request and cites that job's sources.
LanesAlone ==
  /\ mode # "live" =>
       \A j, k \in Calling \cup threads : LaneOf[j] = LaneOf[k] => j = k
  /\ active = Cardinality(Calling) /\ active <= peak /\ peak <= Slots
  /\ Cardinality(threads) <= Slots
  /\ mode = "diligence" =>
       \A j \in Job : verdict[j] = "accepted" =>
         given[j].request = j /\ given[j].finish \in {"stop", "eos"} /\ given[j].cites \subseteq {j}

\* Nobody waits while a slot is free for it: once the event loop has nothing to
\* hand over, the calls under way are as many as the slots, or as the lanes
\* with work left.  A job waits for its slot holding its lane, never the other
\* way round, which would let two jobs of one lane take two slots.
NoIdleSlot ==
  LET open    == {j \in Job : state[j] # "done"}
      busy    == IF mode = "live" THEN open ELSE {LaneOf[j] : j \in open}
      quiet   == \A j \in Job : ~(MayBegin(j) \/ MaySeat(j) \/ MayCall(j))
  IN  outcome \in {"running", "failed"} /\ quiet =>
        Cardinality(Calling) = (IF Cardinality(busy) < Slots THEN Cardinality(busy) ELSE Slots)

\* The lanes and slots of a batch are neither shared nor wasted.
LanesUsed == LanesAlone /\ NoIdleSlot

\* A batch that nobody cancels comes to its end with a verdict for every job,
\* whatever its calls do; only in the live loop may a raised exception end it
\* first, and even then every job that was left behind comes to its own end.
WorkEnds ==
  /\ <>[](outcome # "running")
  /\ <>[](\A j \in Job : state[j] = "done")
  /\ [](outcome = "gathered" => \A j \in Job : verdict[j] # "none")
  /\ [](outcome = "failed" => mode = "live")

--------------------------------------------------------------------------------
(* What holds in every state, and implies LanesUsed.                            *)

WorkTypeOK ==
  /\ mode \in Modes
  /\ line \in [Lanes -> Seq(Job)] /\ slotLine \in Seq(Job)
  /\ state \in [Job -> {"new", "waiting", "calling", "done"}]
  /\ DOMAIN verdict = Job /\ given \in [Job -> Answers \cup {NoAnswer}]
  /\ active \in Nat /\ peak \in Nat
  /\ threads \subseteq Job
  /\ outcome \in {"running", "gathered", "failed", "cancelled"}

Inside(j) == state[j] \in {"waiting", "calling"}

\* Every open job stands once in the line of its lane, at the semaphore stand only
\* holders of a lane, and who calls is among the first of them.
Queued ==
  /\ IsInjective(slotLine) /\ \A l \in Lanes : IsInjective(line[l])
  /\ \A l \in Lanes : ToSet(line[l]) = {j \in Job : mode # "live" /\ LaneOf[j] = l /\ Inside(j)}
  /\ \A j \in ToSet(slotLine) : Inside(j) /\ HoldsLane(j)
  /\ mode = "live" => \A j \in Job : Inside(j) => j \in ToSet(slotLine)
  /\ \A j \in Calling : HoldsSlot(j)

\* A thread without its call is left over from a cancelled batch, in which no call begins.
Computing ==
  /\ Calling \subseteq threads
  /\ outcome # "cancelled" => threads = Calling

WorkInv == WorkTypeOK /\ Queued /\ Computing /\ LanesAlone
================================================================================
