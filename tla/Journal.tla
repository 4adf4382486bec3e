--------------------------------- MODULE Journal ---------------------------------
(***************************************************************************)
(* The journal file of a run (journal.py): written by the controller one   *)
(* record at a time, possibly cut short by the death of the process,       *)
(* possibly damaged afterwards, and replayed.                              *)
(*                                                                         *)
(* A record is [seq, run, version, kind, body].  The body is a function    *)
(* from fields to values: "written" is the value the runtime gave the      *)
(* field, "null" is null, and a field that holds another value holds one   *)
(* of its own, named after it.  The hash of a value is named by the value, *)
(* so two fields agree when both hold what was written; nobody computes a  *)
(* new hash for what is altered.  A field written as null (the error of a  *)
(* call that succeeded, a truncated output) is left out: payload.get reads *)
(* a field that is null and one that is not there alike.                   *)
(*                                                                         *)
(* Three kinds of runtime write journals: the fixed DAG hashes its plan    *)
(* and every exchange; the automatic runtime plans without a hashed plan   *)
(* but hashes its exchanges; the live and demo runtimes hash nothing.      *)
(***************************************************************************)
EXTENDS Integers, Sequences, SequencesExt

CONSTANTS
  Runtimes,     \* the kinds of runtime that may write the journal
  MaxRecords,   \* bound: records of a run
  MaxDamage     \* bound: how often the file is damaged

ASSUME JournalAssumption ==
  /\ Runtimes \subseteq {"fixed", "automatic", "plain"}
  /\ MaxRecords \in Nat /\ MaxDamage \in Nat

VARIABLES
  runtime,      \* who writes
  file,         \* the lines of the file: [whole, record]
  state,        \* the controller's RunState: see Reduce
  writing,      \* the record being written: its append has not returned
  alive,        \* the process that writes
  damage        \* how often the file was damaged

vars == <<runtime, file, state, writing, alive, damage>>

--------------------------------------------------------------------------------
(* What each runtime writes.  TOOL_COMPLETED stands for TOOL_REJECTED as well:  *)
(* both carry an envelope, and _verify_tool_result treats them alike.           *)

Lifecycle == {"RUN_CREATED", "RUN_STARTED", "RUN_COMPLETED", "RUN_CANCELLED", "RUN_FAILED"}
Traced    == {"WORKFLOW_PLANNED", "MODEL_TURN_STARTED", "MODEL_TURN_COMPLETED",
              "TOOL_STARTED", "TOOL_COMPLETED", "TOOL_FAILED", "WORKFLOW_COMPLETED"}
Kinds     == Lifecycle \cup Traced \cup {"OTHER"}

Identity == {"workflow_id", "workflow_version"}
Result   == {"call_id", "result", "source_ids", "retryable", "error"}
Envelope == Result \cup {"result_envelope", "result_hash"}
Turn     == {"trace", "trace_hash", "output", "output_hash", "output_truncated"}

CallFields(by) ==
  CASE by = "fixed"     -> {"task_id", "source_ids", "arguments", "arguments_hash",
                            "proposed_arguments", "proposed_arguments_hash"}
    [] by = "automatic" -> {"task_id", "source_ids", "arguments", "arguments_hash"}
    [] by = "plain"     -> {"source_ids"}

\* What a turn repeats of its request and of its trace without comparing it; the session
\* id goes with the request id.
Copies == {"request_id", "output_bytes"}

Fields(by, kind) ==
  CASE kind = "WORKFLOW_PLANNED" ->
         Identity \cup {"tasks"} \cup (IF by = "fixed" THEN {"plan", "plan_hash"} ELSE {})
    [] kind = "WORKFLOW_COMPLETED" ->
         IF by = "plain" THEN {"workflow_id"} ELSE Identity \cup (IF by = "fixed" THEN {"plan_hash"} ELSE {})
    [] kind = "MODEL_TURN_STARTED" -> {"request", "request_hash", "request_id"}
    [] kind = "MODEL_TURN_COMPLETED" -> Turn \cup Copies
    [] kind = "TOOL_STARTED"   -> CallFields(by)
    [] kind = "TOOL_COMPLETED" -> IF by = "plain" THEN {"result", "source_ids"} ELSE Envelope
    [] kind = "TOOL_FAILED"    -> IF by = "plain" THEN {"error"} ELSE {"call_id", "error", "result_envelope", "result_hash"}
    [] kind = "RUN_CREATED"    -> {"run_id"}
    [] OTHER                   -> {"detail"}   \* what nothing here looks at

Written(by, kind) == [f \in Fields(by, kind) |-> "written"]

\* payload.get: a field that is not there reads as null.
Has(e, f) == f \in DOMAIN e.body
Get(e, f) == IF Has(e, f) THEN e.body[f] ELSE "null"

--------------------------------------------------------------------------------
(* reduce_event, as far as the sequence of events goes.  The rest of the        *)
(* projection is a function of the events reduced, so it is their history.      *)

Ending == {"complete", "cancelled", "failed"}

\* Before the first event: RunState(spec).
Idle(run) == [status |-> "idle", run |-> run, seq |-> -1, planned |-> FALSE, events |-> <<>>, valid |-> TRUE]

StatusAfter(status, kind) ==
  CASE kind = "RUN_CREATED"   -> "planning"
    [] kind = "RUN_STARTED"   -> "running"
    [] kind = "RUN_COMPLETED" -> "complete"
    [] kind = "RUN_CANCELLED" -> "cancelled"
    [] kind = "RUN_FAILED"    -> "failed"
    [] OTHER                  -> status

Reducible(s, e) ==
  /\ s.valid /\ s.status \notin Ending
  /\ e.version = "written" /\ e.run = s.run /\ e.seq = s.seq + 1
  /\ e.kind = "WORKFLOW_PLANNED" => ~s.planned /\ \A f \in Identity \cup {"tasks"} : Get(e, f) # "null"
  /\ e.kind = "WORKFLOW_COMPLETED" => s.planned

Reduce(s, e) ==
  IF ~Reducible(s, e) THEN [s EXCEPT !.valid = FALSE]
  ELSE [s EXCEPT !.status = StatusAfter(@, e.kind), !.seq = e.seq, !.events = Append(@, e),
                 !.planned = @ \/ e.kind = "WORKFLOW_PLANNED"]

--------------------------------------------------------------------------------
(* _IntegrityVerifier: what one record must agree with.                         *)

\* _verify_canonical_field: the hash is a digest, and that of the value.
Covers(e, hash, value) == Has(e, value) /\ Get(e, hash) # "null" /\ e.body[hash] = e.body[value]

\* A field is the part of the whole that it repeats.
Agrees(e, f, whole) == Get(e, f) = e.body[whole]

\* A plan that is null is none: the record is that of a runtime that hashes no plan.
Plans(e) == e.kind = "WORKFLOW_PLANNED" /\ Get(e, "plan") # "null"

PlanIdentity(e) == [f \in Identity \cup {"plan_hash"} |-> e.body[f]]
NoPlan          == <<>>

VerifyPlanned(plan, e) ==
  Plans(e) =>
    /\ Covers(e, "plan_hash", "plan")
    /\ \A f \in Identity \cup {"tasks"} : Agrees(e, f, "plan")
    /\ plan = NoPlan

VerifyCompleted(plan, e) == \A f \in DOMAIN plan : Get(e, f) = plan[f]

VerifyTurn(e) ==
  /\ Covers(e, "trace_hash", "trace")
  /\ Covers(e, "output_hash", "output")
  /\ \A f \in {"output", "output_hash", "output_truncated"} : Agrees(e, f, "trace")

\* Mutant: the hash of the arguments is asked of every runtime.
VerifyCall_Strict(plan, e) ==
  /\ Covers(e, "arguments_hash", "arguments")
  /\ Has(e, "proposed_arguments") => Covers(e, "proposed_arguments_hash", "proposed_arguments")

VerifyCall(plan, e) ==
  plan # NoPlan \/ Has(e, "task_id") \/ Has(e, "arguments_hash") =>
    /\ Covers(e, "arguments_hash", "arguments")
    /\ Has(e, "proposed_arguments") \/ Has(e, "proposed_arguments_hash") =>
         Covers(e, "proposed_arguments_hash", "proposed_arguments")

\* Mutant: the envelope is checked against its hash, and the copies of its parts are not.
VerifyResult_HashOnly(plan, e) ==
  IF Get(e, "result_envelope") # "null" THEN Covers(e, "result_hash", "result_envelope")
  ELSE plan = NoPlan

\* Without an envelope and without a plan, the hash is that of the parts put together, if
\* there is a hash.
VerifyResult(plan, e) ==
  \/ /\ Get(e, "result_envelope") # "null"
     /\ Covers(e, "result_hash", "result_envelope")
     /\ \A f \in Result : Agrees(e, f, "result_envelope")
  \/ /\ Get(e, "result_envelope") = "null" /\ plan = NoPlan
     /\ Has(e, "result_hash") =>
          Get(e, "result_hash") # "null" /\ \A f \in Result : Agrees(e, f, "result_hash")

Verify(plan, e) ==
  CASE e.kind = "WORKFLOW_PLANNED"     -> VerifyPlanned(plan, e)
    [] e.kind = "WORKFLOW_COMPLETED"   -> VerifyCompleted(plan, e)
    [] e.kind = "MODEL_TURN_STARTED"   -> Covers(e, "request_hash", "request")
    [] e.kind = "MODEL_TURN_COMPLETED" -> VerifyTurn(e)
    [] e.kind = "TOOL_STARTED"         -> VerifyCall(plan, e)
    [] e.kind = "TOOL_COMPLETED"       -> VerifyResult(plan, e)
    [] OTHER                           -> TRUE

--------------------------------------------------------------------------------
(* load_events and replay.                                                      *)

Unread == [events |-> <<>>, plan |-> NoPlan, valid |-> TRUE]

LoadLine(loaded, line) ==
  IF ~line.whole \/ ~Verify(loaded.plan, line.record) THEN [loaded EXCEPT !.valid = FALSE]
  ELSE [loaded EXCEPT
          !.events = Append(@, line.record),
          !.plan = IF Plans(line.record) THEN PlanIdentity(line.record) ELSE @]

\* What is loaded before the first line and after each.
Loading(lines) ==
  LET loaded[n \in 0..Len(lines)] == IF n = 0 THEN Unread ELSE LoadLine(loaded[n - 1], lines[n])
  IN  loaded

LoadEvents(lines) == Loading(lines)[Len(lines)]

Refused == [Idle("none") EXCEPT !.valid = FALSE]

\* The state before the first event and after each.
Reducing(run, events) ==
  LET reduced[n \in 0..Len(events)] == IF n = 0 THEN Idle(run) ELSE Reduce(reduced[n - 1], events[n])
  IN  reduced

ReduceAll(run, events) == Reducing(run, events)[Len(events)]

\* The state is built for the run the first record's spec names; null is a name, str(None).
Begins(events) == events # <<>> /\ Head(events).kind = "RUN_CREATED" /\ Has(Head(events), "run_id")

Replay(lines) ==
  LET loaded == LoadEvents(lines)
  IN  IF ~loaded.valid \/ ~Begins(loaded.events) THEN Refused
      ELSE ReduceAll(Head(loaded.events).body["run_id"], loaded.events)

--------------------------------------------------------------------------------
(* The writer.  Its runs go on after the start, plan at most once, and complete *)
(* the workflow before they end.                                                *)

Nothing == <<>>

Init ==
  /\ runtime \in Runtimes
  /\ file = <<>> /\ state = Idle("written")
  /\ writing = Nothing /\ alive = TRUE /\ damage = 0

\* The order runtimes and the controller keep; cancel() may come before start().
May(kind) ==
  CASE kind = "RUN_CREATED"   -> state.status = "idle"
    [] kind = "RUN_STARTED"   -> state.status = "planning"
    [] kind = "RUN_CANCELLED" -> TRUE
    [] kind = "RUN_FAILED"    -> state.status # "idle"
    [] kind \in {"MODEL_TURN_STARTED", "MODEL_TURN_COMPLETED"} -> state.planned /\ runtime # "plain"
    [] kind \in {"TOOL_STARTED", "TOOL_COMPLETED", "TOOL_FAILED"} -> state.planned
    [] OTHER                  -> state.status = "running"

Event(kind) ==
  [seq |-> state.seq + 1, run |-> state.run, version |-> "written", kind |-> kind,
   body |-> Written(runtime, kind)]

\* _publish reduces, then appends: the line is in the file when append returns.
AppendRecord(kind) ==
  /\ alive /\ writing = Nothing /\ state.seq + 1 < MaxRecords
  /\ May(kind)
  /\ Reducible(state, Event(kind))
  /\ file' = Append(file, [whole |-> TRUE, record |-> Event(kind)])
  /\ writing' = <<Event(kind)>>
  /\ UNCHANGED <<runtime, state, alive, damage>>

\* Then it assigns the state and calls the subscribers.
Publish ==
  /\ alive /\ writing # Nothing
  /\ state' = Reduce(state, Head(writing))
  /\ writing' = Nothing
  /\ UNCHANGED <<runtime, file, alive, damage>>

\* The run is over, and nothing is being written.
Close ==
  /\ alive /\ writing = Nothing /\ state.status \in Ending
  /\ alive' = FALSE
  /\ UNCHANGED <<runtime, file, state, writing, damage>>

--------------------------------------------------------------------------------
(* Death and damage.                                                            *)

\* The process dies: between records, after a line is written and before its state
\* is, or with only a part of the line in the file.
Die ==
  /\ alive /\ alive' = FALSE
  /\ \/ UNCHANGED file
     \/ writing # Nothing /\ file' = [file EXCEPT ![Len(file)].whole = FALSE]
     \/ writing # Nothing /\ file' = Front(file)
  /\ UNCHANGED <<runtime, state, writing, damage>>

\* Nobody writes any more: a line is lost, doubled, cut or out of order, or its record is
\* another one.
Losing(i)   == RemoveAt(file, i)
Doubling(i) == InsertAt(file, i, file[i])
Cutting(i)  == [file EXCEPT ![i].whole = FALSE]
Swapping(i) == [file EXCEPT ![i] = file[i + 1], ![i + 1] = file[i]]

\* A body of which one field is another value, null, or not there.
Spoiling(b) ==
  {[b EXCEPT ![f] = f] : f \in DOMAIN b} \cup {[b EXCEPT ![f] = "null"] : f \in DOMAIN b}
  \cup {Restrict(b, DOMAIN b \ {f}) : f \in DOMAIN b}

\* A record without its version, run, number or kind is not read at all: Cutting.
Altering(e) ==
  {[e EXCEPT !.run = run] : run \in {"run", "null"}} \cup {[e EXCEPT !.version = "version"]}
  \cup {[e EXCEPT !.kind = kind] : kind \in Kinds}
  \cup {[e EXCEPT !.body = body] : body \in Spoiling(e.body)}

Damage ==
  /\ ~alive /\ damage < MaxDamage /\ damage' = damage + 1
  /\ \E i \in DOMAIN file :
       \/ file' \in {Losing(i), Doubling(i), Cutting(i)}
       \/ i < Len(file) /\ file' = Swapping(i)
       \/ \E e \in Altering(file[i].record) : file' = [file EXCEPT ![i].record = e]
  /\ UNCHANGED <<runtime, state, writing, alive>>

\* A sequence number is another one.  It comes alone: one that happens to close the gap
\* of a lost line, or to number a doubled one, nobody can tell from the original.
Renumber ==
  /\ ~alive /\ damage = 0 /\ damage < MaxDamage /\ damage' = MaxDamage
  /\ \E i \in DOMAIN file, n \in 0..MaxRecords : file' = [file EXCEPT ![i].record.seq = n]
  /\ UNCHANGED <<runtime, state, writing, alive>>

Next == (\E kind \in Kinds : AppendRecord(kind)) \/ Publish \/ Close \/ Die \/ Damage \/ Renumber

Spec == Init /\ [][Next]_vars

--------------------------------------------------------------------------------
(* Properties.                                                                  *)

\* What was published, with the record that may have been written and not published.
History == state.events \o writing

\* journal.py replay: the states the file may stand for are the one the controller
\* published and, for a record written and not yet published, the next one.  A line
\* cut by the death of the process, an empty file, and a run that was cancelled before
\* it was created are refused.
ReplayRebuilds ==
  damage = 0 =>
    LET replayed == Replay(file)
        cut      == \E i \in DOMAIN file : ~file[i].whole
        begun    == file # <<>> /\ Head(file).record.kind = "RUN_CREATED"
    IN  /\ replayed.valid <=> begun /\ ~cut
        /\ replayed.valid => \/ replayed = state
                             \/ writing # Nothing /\ replayed = Reduce(state, Head(writing))

\* The fields of an accepted record that the verifier has compared; planned: the journal
\* has a hashed plan before it.
Vouched(e, planned) ==
  CASE Plans(e)                                     -> Identity \cup {"tasks", "plan", "plan_hash"}
    [] e.kind = "WORKFLOW_COMPLETED" /\ planned     -> Identity \cup {"plan_hash"}
    [] e.kind = "MODEL_TURN_STARTED"                -> {"request", "request_hash"}
    [] e.kind = "MODEL_TURN_COMPLETED"              -> Turn
    [] e.kind = "TOOL_STARTED" /\ (planned \/ Has(e, "task_id") \/ Has(e, "arguments_hash")) ->
         {"arguments", "arguments_hash"}
         \cup ({"proposed_arguments", "proposed_arguments_hash"} \cap DOMAIN e.body)
    [] e.kind = "TOOL_COMPLETED" /\ planned         -> Envelope
    [] e.kind = "TOOL_COMPLETED" /\ ~planned /\ Has(e, "result_hash") -> Result \cup {"result_hash"}
    [] OTHER                                        -> {}

\* The i-th record that replays reads as it was recorded, as far as it was compared.
SameRecord(events, i) ==
  LET e       == events[i]
      planned == \E j \in 1..(i - 1) : Plans(events[j])
  IN  \A f \in Vouched(e, planned) : e.kind = History[i].kind /\ Has(e, f) /\ e.body[f] = History[i].body[f]

\* docs/architecture.md, "State, journaling, and replay": lines that were lost, doubled, cut
\* or put in another order are refused or replay the beginning of the run as it was
\* recorded.  Whatever else happens to the records, each that replays is in its place and
\* of the one run, and every plan, request, trace, argument and result that the verifier
\* looks at is the one recorded there.
DamageShows ==
  LET replayed == Replay(file)
      events   == replayed.events
  IN  replayed.valid =>
        /\ Len(events) <= Len(History) /\ replayed.run \in {state.run, "null"}
        /\ \A i \in DOMAIN events : SameRecord(events, i)
        /\ (\A i \in DOMAIN file : \E j \in DOMAIN History : file[i].record = History[j]) =>
              events = SubSeq(History, 1, Len(events))

\* The rest is not what the code does (README, section 4), and no run checks it.

\* docs/architecture.md, lines 96-101: loading a journal rejects hash mismatches; the
\* envelopes of failed calls carry hashes as well.
FailuresCovered ==
  LET replayed == Replay(file)
  IN  replayed.valid =>
        \A i \in DOMAIN replayed.events :
           LET e == replayed.events[i]
           IN  e.kind = "TOOL_FAILED" /\ Has(e, "result_hash") => Covers(e, "result_hash", "result_envelope")

\* The same lines: loading rejects inconsistent duplicated envelope fields; the request id
\* and the size of an output are in the record of a turn and in its trace.
CopiesCovered ==
  LET replayed == Replay(file)
  IN  replayed.valid =>
        \A i \in DOMAIN replayed.events :
           LET e == replayed.events[i]
           IN  e.kind = "MODEL_TURN_COMPLETED" => \A f \in Copies : Agrees(e, f, "trace")

\* No hash covers the kind of a record: a run that failed can replay as one that completed.
KindsCovered ==
  LET replayed == Replay(file)
  IN  replayed.valid => \A i \in DOMAIN replayed.events : replayed.events[i].kind = History[i].kind

\* A journal whose plan is null or not there is read as that of a runtime that hashes none,
\* and most of its other records are then accepted without their hashes.
PlansCovered ==
  LET replayed == Replay(file)
  IN  replayed.valid /\ runtime = "fixed" =>
        \A i \in DOMAIN replayed.events :
           replayed.events[i].kind = "WORKFLOW_PLANNED" => Plans(replayed.events[i])

--------------------------------------------------------------------------------
(* What holds in every state, and implies the properties.                       *)

Names  == UNION {Fields(by, kind) : by \in {"fixed", "automatic", "plain"}, kind \in Kinds}
Texts  == Names \cup {"written", "run", "version", "null"}
Bodies == UNION {[fields -> Texts] : fields \in SUBSET Names}
Record == [seq : Int, run : Texts, version : Texts, kind : Kinds, body : Bodies]
Line   == [whole : BOOLEAN, record : Record]
RunState ==
  [status : {"idle", "planning", "running"} \cup Ending, run : Texts, seq : Int,
   planned : BOOLEAN, events : Seq(Record), valid : BOOLEAN]

TypeOK ==
  /\ runtime \in Runtimes /\ file \in Seq(Line) /\ state \in RunState
  /\ writing \in Seq(Record) /\ Len(writing) <= 1
  /\ alive \in BOOLEAN /\ damage \in 0..MaxDamage

\* The i-th record of the run, as the runtime wrote it.
Genuine(e, i) ==
  /\ e.seq = i - 1 /\ e.run = "written" /\ e.version = "written"
  /\ e.body = Written(runtime, e.kind)

Recorded ==
  /\ \A i \in DOMAIN History : Genuine(History[i], i)
  /\ \A i, j \in DOMAIN History :
        History[i].kind = "WORKFLOW_PLANNED" /\ History[j].kind = "WORKFLOW_PLANNED" => i = j
  /\ state.planned <=> \E i \in DOMAIN state.events : state.events[i].kind = "WORKFLOW_PLANNED"
  /\ \A i \in DOMAIN History : History[i].kind = "RUN_CREATED" => i = 1
  /\ state.status = "idle" => state.events = <<>>
  /\ state.status = "idle" /\ writing # Nothing => Head(writing).kind \in {"RUN_CREATED", "RUN_CANCELLED"}

\* The state is what reducing its events gives, and goes on with the record being written.
Reduced ==
  /\ state = ReduceAll("written", state.events)
  /\ state.valid /\ state.run = "written" /\ state.seq + 1 = Len(state.events)
  /\ writing # Nothing => Reducible(state, Head(writing))

Lines(events) == [i \in 1..Len(events) |-> [whole |-> TRUE, record |-> events[i]]]

\* What death leaves: the record being written may be cut short or missing.
Undamaged ==
  \/ file = Lines(History)
  \/ /\ ~alive /\ writing # Nothing
     /\ \/ file = Lines(state.events)
        \/ file = [Lines(History) EXCEPT ![Len(History)].whole = FALSE]

\* A record of which fields are other values, null, or not there, whatever its kind.
Altered(e, given) ==
  /\ e.run \in {given.run, "run", "null"}
  /\ DOMAIN e.body \subseteq DOMAIN given.body
  /\ \A f \in DOMAIN e.body : e.body[f] \in {given.body[f], f, "null"}

\* Every line tells by its number which record it was; once a number is another one,
\* every line is still in its place.
Numbered == \A i \in DOMAIN file :
  LET e == file[i].record IN e.seq + 1 \in DOMAIN History /\ Altered(e, History[e.seq + 1])
InPlace  == \A i \in DOMAIN file : i \in DOMAIN History /\ Altered(file[i].record, History[i])

Kept ==
  /\ alive => damage = 0
  /\ damage = 0 => Undamaged
  /\ Numbered \/ (damage = MaxDamage /\ damage # 0 /\ InPlace)

JournalInv == TypeOK /\ Recorded /\ Reduced /\ Kept
================================================================================
