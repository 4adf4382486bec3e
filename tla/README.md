# AlphaOrchestration in TLA+

AlphaOrchestration is a local, single-process orchestrator for equity research: a
*runtime* (scripted demo, fixed task graph, manual live tickers, or the automatic
broad-universe screen) produces a stream of event drafts, a *controller* validates each
one through a pure reducer, appends it to a JSONL journal and publishes the new state to
the terminal interface. This directory holds the TLA+ models of that machinery, the TLC
configurations that check them, and the TLAPS proofs about them.

Paths without a prefix are relative to `src/alpha_orchestration/` of the repository.

## 1. The system

### 1.1 Components

| Component | State it keeps | Operations | What must hold |
|---|---|---|---|
| Run controller (`controller.py`) | `RunState`, `_gate`, `_task`, `_cancel_requested`, `_journal_closed` | `start`, `run`/`wait`, `_drive`, `pause`, `resume`, `cancel`, `_publish` | the journal is gapless and reduces to the published state; every way out of `_drive` settles the run; a pause holds drafts; a cancel ends the task |
| Reducer (`reducer.py`) | none (pure) | `reduce_event` | a run's, a task's and an agent's life cycle; refuses what does not fit |
| Journal (`journal.py`) | open file, close flag | `append`, `close`, `load_events`, `replay`, integrity verifier | replay rebuilds the state the run published |
| Fixed-DAG runtime (`fixed_dag.py`) | outcomes, pending/terminal/running sets, a FIFO queue, one asyncio task per running workflow task | serial loop, concurrent scheduler, `pump` workers, task loop, argument binding | dependencies and agents respected, no deadlock, drafts acceptable to the reducer, budgets kept, workers drained |
| Workflow definitions (`dag.py`) | none | validation, stable topological order, cycle search | the order is a topological one |
| Automatic runtime (`automatic_runtime.py`, `automatic_projection.py`) | evidence, analyses, funnel progress | discovery, batches of evidence, lane waves, coverage gate, ranking, diligence, surfacing | each issuer screened once, one task per lane at a time, the gate, the model cannot change the outcome |
| Diligence runner (`automatic_diligence.py`) | lane locks, semaphore | one bounded model turn per job | slots, lanes, isolation of failures |
| Live runtime (`live_runtime.py`) | analyses | collection, analysis, ranking for one to eight tickers | as above, smaller |
| Live collector (`data/live.py`), SEC client (`data/sec.py`), yfinance client | semaphore, rate lock, cache | provider calls with timeouts | slots, rate limit, isolation of failures |
| Cache (`data/cache.py`) | blobs and references on disk | `get`, `put` | a reference never names a missing or wrong blob |
| Universe discovery (`data/universe.py`) | none | paging, joining, ranking | the cohort is the best `target_size` eligible issuers of the inspected pages |
| Ledger (`data/ledger.py`), observations | records and indexes | `ingest`, `select`, `evidence_packet` | idempotent, collision-safe |
| Tool registry (`tools/registry.py`) | results by call ID | `execute`, scoped execution | one execution per call ID |
| Calculations (`calculations/`) | none | metrics, forecasts, ranking | decimal arithmetic |
| TUI and CLI (`tui/`, `cli.py`) | screens | pause, resume, cancel, restart | calls the controller, renders its state |

`PROJECT.json` lists every part, the ones that are not modelled included, with the reason.

### 1.2 How they interact

One event loop. `RunController._drive` iterates `runtime.stream(spec)` as an async
generator: for each draft it waits at the gate (an `asyncio.Event`), stops if a
cancellation was requested, and publishes: reduce, append to the journal, assign the
state, call the subscribers. The operator's calls run on the same loop between its
suspension points. The fixed-DAG runtime with more than one slot is itself concurrent:
worker tasks iterate `_stream_task` and put drafts into a queue; the scheduler, a nested
async generator, takes them out and yields them. The projection the reducer builds is
therefore always *behind* what the workers have written into their outcomes.

### 1.3 What is hard

* **Two state machines that never talk.** The scheduler decides by its own sets and by
  outcomes the workers write ahead of their drafts; the reducer decides by its projection.
  If they disagree, the run fails on an event its own runtime produced.
* **Suspension points.** `pause`, `resume`, `cancel`, a cancelled waiter and a raising
  subscriber can come between any two of them, including before the first step of a task.
* **Nested generators and cancellation.** `aclosing` closes the generator it was given and
  not the one that generator was iterating.
* **Partial failure of a publication.** Four steps, of which the reducer, the file and the
  subscribers can each fail.
* **Budgets at their limits**: slots, turns, calls per batch, repairs.

* **Lanes inside slots.** A job waits for a slot holding its lane, times out, is cancelled,
  or leaves a thread behind that nothing can stop.
* **Files that outlive the process.** A journal ends anywhere, and what is read back must be
  the run that was written.
* **Selections under gaps.** Screens that stop early, ties, missing metrics, competing facts
  and observations of different units: the pure code must choose the same in every order.

`PROJECT.json` lists these hazards one by one, each at its line, with the property that
would catch it.

## 2. The modules

| Module | Models | Kind |
|---|---|---|
| `DagContract` | what a workflow's journal promises about its tasks | abstract specification |
| `DagScheduler` | `FixedDagRuntime.stream` with more than one slot, its workers, its queue, the consumer, gate and cancellation | detailed |
| `DagSchedulerInv` | the inductive invariant of `DagScheduler` | definitions |
| `DagSchedulerProofs` | theorems about `DagScheduler` | proofs |
| `SerialDag` | `FixedDagRuntime.stream` with one slot | detailed |
| `SerialDagProofs` | theorems about `SerialDag`, and about `Workflow` and its cycle search, which meet its assumption | proofs |
| `TaskWorker` | what the schedulers rely on when they run a task | abstract specification |
| `TaskLoop` | `FixedDagRuntime._stream_task` | detailed |
| `TaskLoopProofs` | theorems about `TaskLoop`, and about the sessions and batches of `ToolCalls` | proofs |
| `RunJournal` | what the journal of a run promises to whoever replays it | abstract specification |
| `RunController` | `RunController`, its driving task and the operator | detailed |
| `RunControllerProofs` | theorems about `RunController` | proofs |
| `AutomaticRun` | `AutomaticLiveRuntime.stream`, from discovery to surfacing | detailed |
| `AutomaticRunProofs` | theorems about `AutomaticRun`, and about the cohort it starts from (`Universe`) | proofs |
| `LiveCollector` | `LiveDataCollector`, the rate lock of `SecDataClient`, the cache as they use it | detailed |
| `LiveCollectorProofs` | theorems about `LiveCollector`, and about the mappings and the ledger of `Sourcing` | proofs |
| `LaneWork` | `BoundedDiligenceRunner.run`, `_analyze_batch` of the automatic and `_analyze_issuers` of the manual runtime | detailed |
| `LiveRuntime` | `LiveRuntime.stream` (manual tickers) | detailed |
| `LiveRuntimeProofs` | theorems about `LiveRuntime` and `LaneWork` | proofs |
| `Journal` | `JsonlJournal`, the integrity verifier, `load_events`, `replay`, and what can happen to the file | detailed |
| `JournalProofs` | theorems about `Journal` | proofs |
| `Workflow` | `dag.py`: validation and topological order | pure |
| `Evaluation` | how a pure algorithm is put to its question | shared by the pure modules |
| `WorkflowSearch` | `dag.py`: the cycle search, step by step, and the reference for `Workflow` | pure |
| `Binding` | `_preflight_calls` and the binding of finance arguments in `fixed_dag.py` | pure |
| `ToolRegistry` | `tools/registry.py`, over whole sessions | pure |
| `ToolCalls` | what `Binding` and `ToolRegistry` promise together | property |
| `Universe` | `data/universe.py`: paging, join, cohort | pure |
| `Observations` | `data/sec_mapping.py`, `data/yfinance_mapping.py`, `data/observations.py` | pure |
| `Ledger` | `data/ledger.py` | pure |
| `Sourcing` | what `Observations` and `Ledger` promise together | property |
| `Metrics`, `Ranking`, `Forecasts`, `Statistics` | `calculations/` | pure |
| `Rationals` | exact fractions and half-even rounding for the four | pure |
| `MC...` | instances for TLC; `MCAlgorithms` holds the inputs of all pure modules | |

How they compose: `TaskLoop` implements `TaskWorker`, and `DagScheduler`'s worker actions
(`WorkerProgress`, `WorkerCompletes`, `WorkerFails`) and `SerialDag`'s (`Progress`,
`Complete`, `Fail`) are `TaskWorker`'s actions, so the task loop may be read as one worker
of either scheduler. Both schedulers implement the one `DagContract`: which of them ran a
workflow cannot be told from its journal. `RunController` leaves its runtime open (any
draft, an end, a raise), so it covers every runtime; `DagScheduler` keeps the part of the
controller that matters to a scheduler: the gate, the consumption of a draft, cancel.
`LaneWork` is what happens inside one step of `AutomaticRun` (`AnalyseWave`, `RunJobs`) and of
`LiveRuntime` (`Analyze`). `Binding` decides what `TaskLoop` leaves open (`RejectUnbound` or
`AcceptBatch`), `ToolRegistry` what a call answers; `Workflow` establishes what `DagScheduler`
and `SerialDag` assume of their workflow. `Journal` reads back what `RunController` writes.

### 2.1 DagScheduler

The variables keep the names of the code: `pending`, `terminal`, `running`, `busy`
(`active_agents`), `outcome` and `ancestry` (`outcomes[t].status`, `.degraded_ancestry`),
`queue`; `worker` is the life of the asyncio task of `t`; `status`, `agent` and `run` are
the projection. `phase` says where the scheduler generator is, `draft` what it yielded and
the consumer has not published, `gate` the controller's gate with its waiter. A pass over
the topological order is abstracted to the *decisive* tasks, in the order of their rank:
tasks the pass looks at and leaves alone (dependency open, agent busy) are no steps;
`cursor` is where the pass is, so that a started task is not followed by an earlier one in
the same pass, as in the code. All drafts a worker emits between start and verdict stand
as one `PROGRESS`; `TaskLoop` models them one by one.

The scheduler is interruptible in three places only: holding a draft at the gate
(`CancelPaused`), at `queue.get()` (`CancelWaiting`) and in the gather of its `finally`
(`CancelDraining`).

### 2.2 SerialDag, TaskLoop, RunController

`SerialDag` is one draft ahead of the projection and no more. `TaskLoop` takes one step per
draft: the place `at` is the `yield` at which the generator is suspended. What the model
answers, what `parse_action`, `_preflight_calls`, `_cited_source_ids` and `_tool_error`
decide is a choice; what the loop does with the answer is not. `RunController` takes one
step per piece between two suspension points; `_publish` is atomic because nothing in it
suspends (its lock is free whenever it is requested: no publisher suspends while holding
it). A publication ends `ok`, `refused` by the reducer or the closed journal, `unwritten`,
`retained` (raised in `flush`, with the record left in the write buffer) or `unseen` (a
subscriber raised after the state was published). With `Stubborn` the runtime may swallow a
cancellation and go on; the history variable `swallowed` remembers that it did.

### 2.3 AutomaticRun

One generator, suspended at every `yield`, against the projection `reduce_event` builds:
a step yields the next draft and has it published, or refused (`run = "refused"`).
Members of the cohort are numbered in manifest order, tasks are `Screen(m)`,
`Diligence(j)` and `Validator`. `at` is where the generator is, `due` who is still to come
in the loop it is in. `offset`, `ready`, `untrusted` are the batches of the collection;
`pending`, `wave` and `Wave` the first-fit waves of `_analysis_waves`; `failed`,
`screened` and `deep` what the funnel counts; `Required` the coverage gate with its ratio
rounded up. Which issuers have evidence, which analyses fail or have gaps, which rank
first and which reviews are rejected are choices. The collector, the analyses of a wave
and the model behind the reviews are each one step between two drafts: what runs
concurrently inside them (`data/live.py`, `_analyze_batch`, `automatic_diligence.py`)
cannot be seen from the drafts. Drafts of stages and of agent reports change none of the
modelled state and stand with the step they accompany. `Cancel` covers both outcomes of a cancellation: one
delivered at an `await` of the generator runs its `finally`, one delivered at a suspended
`yield` leaves the generator to the event loop's finaliser (`Finalise`). `Reject` is a
specification that `stream` refuses: it raises before the `try` that closes the client, so
the run ends with the client as it was; `Open` is the first draft of an accepted one.

### 2.4 LiveCollector

`at` is where the collector is: mapping tickers (`Collect`, `Resolve`), in a gather, or
suspended at the `yield` of `iter_collect_manifest` (`NextBatch`, `Deliver`). Inside a
gather every provider request lives on its own: `request[r]` goes from `waiting` for a slot
(`Acquire`: `_provider_call`, the semaphore and the counters) over `locking` (`Lock`:
`_rate_lock`) and `pacing` (`Send`: the sleep of `_get_json`) to `sent`, and ends by
`Answer` and `Store`, `Reject`, `Fail` (an exception or a timeout, in the queue for the
lock or later) or `Unwind` (the cancellation of its task). `Ask` is the look into the
cache; a hit takes neither slot nor lock. `Assemble` is what `_collect_issuer` and
`_collect_manifest_issuer` make of the settled requests: a packet, or a failure with its
phase. `Restart` is the next process on the same cache directory, after the end of the
one before or its death anywhere, between the two writes of `put` included.

Abstracted: a payload is its key; which tickers resolve, which references are fresh and
which payloads normalise is a choice; waiters of the semaphore and of the lock are taken
in any order (the code's is first come, first served, so the model allows more); the lock
and the slot of a request that ends are given back in one step, because nothing but the
unwinding of one task runs in between. Time is a pair of clocks, one since the client's
own `_last_request_at` (`sinceLast`), one since the latest request was really sent
(`sinceSent`): the first is what the code decides by, the second what the properties are
about. The thread of a quote that timed out runs on in the code; nothing reads its result,
and it is not modelled. One process uses the cache at a time.

### 2.5 LaneWork, LiveRuntime, Journal

`LaneWork` runs one batch of jobs in one of three modes: `diligence` (a lane lock, then the
semaphore, then a model call under a timeout; a failure is a verdict), `automatic` (the same
locks around an analysis in a thread) and `live` (a bare `gather` over a semaphore, where an
exception fails the batch while the sibling coroutines go on). `line` and `slotLine` are the
FIFO queues of the locks, `threads` the threads that are alive, cancelled or not. Calls of a
model are coroutines and end with their `await`; `asyncio.to_thread` work does not.
`ValidateResult` is the whole check of an answer, field by field in the code's order.
`MayBegin`, `MaySeat` and `MayCall` are the guards of the three steps that put a free slot or lane
to use, so that "no slot idles" (`NoIdleSlot`) is a statement about states; its formulas carry the
prefix `Work` because one module of proofs extends `LiveRuntime` as well.

`LiveRuntime` takes one step per draft, like `AutomaticRun`: the place `at` names the next
draft, `due` the issuers or candidates still to come, and each draft is published through
the reducer's conditions or refused. What a packet holds decides which metrics an analysis
has, which gaps it reports, which sources it cites and its place in the ranking; `budget` is
the tool budget of the run's specification.

`Journal` has a run written by one of three kinds of runtime (`fixed` with hashed plans and
arguments, `automatic`, and `plain` for live and demo runs), record by record, with a process
that may die between two records; then up to `MaxDamage` damages: a line lost, doubled, cut,
exchanged with its neighbour, or its record altered (`Altering`): another run or version, any
other kind, or a field of the payload that is another value, null, or not there. A field reads
`written` where the runtime wrote a value, `null` where it is null, and its own name where it was
altered; a hash is the value it was taken of, so nothing altered hashes to anything recorded, and
an alteration that also computes the new hash is outside. Fields a runtime writes as null (the
error of a call that succeeded) are left out, since the code reads a null and a missing field
alike, or refuses both. The fields repeated from a request or a trace without being compared
(`Copies`) are there too. What the reducer asks of a payload is modelled for `WORKFLOW_PLANNED`
only, and of tasks and agents not at all: the reducer of the code refuses more of the damaged
records, so what `DamageShows` says of those that replay covers the code's. `LoadEvents`, `Verify` and `Replay` read the file as
the code does, line by line: `Loading` and `Reducing` are functions from the number of lines read to
what is known then. `TOOL_COMPLETED` stands for `TOOL_REJECTED` as well; the verifier treats them alike.

### 2.6 The pure modules

Each states the algorithm as the code computes it and, next to it, a *reference*: a
definition of the result that does not follow the code's steps. `Evaluation` puts an
algorithm to its question: a behaviour has a `subject`, an input of one algorithm, and evaluates it
once; `WorkflowsSound`, `SelectionsSound`, `EvidenceSound`, `ToolCallsSound` and `ValuesSound` then
compare. `MCAlgorithms` picks the inputs for TLC; the theorems take any input of the types the code
reads. Where the code loops, the modules that are proved about have a function over the
turns of the loop (`Reading`, `Selecting`, `IngestAll`), which a proof can follow index by index.

* `Workflow`, `WorkflowSearch`: an accepted workflow has a topological order, a refused one (`dependency_cycle`)
  has none; the order is the earliest position by position; a reported cycle is one. The
  search for a cycle, which recurses in the code, is the sequence of its moves (`Enter`, `Follow`,
  `Leave`) with the stack as data; no move is made twice, so the number of `Moves` bounds it.
* `Universe`: every row that was fetched is a member or has one exclusion, no two members are of
  one ticker or one issuer, and the manifest passes its own validation, whatever the pages say. Over a
  sorted screen that does not change while it is read, and none of whose pages is refused
  altogether, the cohort is the largest issuers of all rows within `maxScreened`. A page may come out
  of the cache of another day, so each is cut out of a screen of its own. A row is known by its place
  in the screen; rows in the order of their size are listed by how many are larger (`BySize`).
* `Observations`, `Ledger`: the same observations whatever the order of the payload; the latest
  filing and the preferred concept win; of a price history every price is positive, no volume,
  dividend or capital gain is negative, and the last usable value of a field and time stays; ingestion is idempotent and order-free without
  collisions, a refused batch leaves no trace, a packet is closed under citation.
* `Metrics`: a value is the published formula of the published operands; an unavailable one has
  a cause, an operand that is missing or a denominator of zero.
* `Ranking`: mid-ranks; a row that is nowhere worse scores no less; the order of rows is
  irrelevant; `top_n` only cuts.
* `Forecasts`, `Statistics`: period-by-period discounting against the closed form, drawdown
  against all pairs of prices, alpha and beta against their residuals, medians, means.
* `Binding`: whatever a call reads as observed (operands, metric values, a base value, net debt,
  shares, the terminal metric, prices) is an observation of the packet that the model cited,
  comparable with the others as its tool demands, with its sources injected; a batch with one bad
  call does not run at all. The *assumptions* of a calculation are the model's and enter as it
  wrote them, as `docs/financial-tools.md` says: periods and weights, growth rates and scenarios,
  cash flows, discount rate, terminal growth or multiple, periods per year, the risk-free
  rate, labels, precision and the choice of metrics. A proposal names the fields it fills in
  itself (`Own`), and a call that runs has no more of the model than its tool's `Assumptions`:
  nothing that is bound or injected.
* `ToolRegistry`: a call ID stands for one call, which runs once and is answered alike ever
  after; a call outside of its scope never runs and leaves no trace.

## 3. What is checked

All passing runs finish within the time limit; numbers are distinct states.

| Run | Instance | Question | Result |
|---|---|---|---|
| `dag` | 5 tasks, 2 slots, one shared agent, two tolerant tasks, fair | under every interleaving of scheduler, workers, queue, consumer, pause and cancel: drafts and verdicts agree with the projection, the pool is never overdrawn or stuck, exact degraded ancestry, drained end, contract, the run and its workers end | holds (166,017) |
| `dag_cancel_drain` | 3 independent tasks, 2 slots | "Run cancelled; pending work was drained" | **violated** |
| `serial_dag` | 6 tasks with a failed, a skipped and a partial path into a tolerant join | the serial loop keeps the same contract | holds |
| `task_loop` | 4 turns, 4 calls, 3 calls per turn, 1 repair; own, inherited and foreign sources; degraded ancestry; fair | drafts reducible, budgets, repairs, sources, projection, contract of a worker, a verdict in the end | holds |
| `controller` | 3 drafts, 2 pauses, one failing publication, a runtime that may swallow a cancellation; fair | the journal contract, exits of `_drive`, the gate; cancel ends the task, an open gate ends the run | holds (70,991) |
| `controller_lost_cancel` | smaller, no failure | a cancelled run ends | **violated** |
| `automatic` | 1 to 4 issuers, 3 lanes, 2 slots, batches of 3, a gate of at least 2 and two thirds, 2 reviews, a shortlist of 3; fair | one screen per lane, lanes in order, funnel and projection agree, gate closed below coverage, a completed run settled, every draft accepted, a review counts iff its task completed, every run ends, with its client closed once discovery has begun | holds (184,027) |
| `collector` | two tickers or a manifest of three, two of them with one CIK, batches of 2, 2 slots, an interval of one tick, two processes; fair | slots and lock given back, cache readable, failures isolated, answered SEC requests spaced, every collection ends | holds (756,569) |
| `algorithms` | 209,467 inputs, listed in `MCAlgorithms` | every pure module against its reference | holds (418,934) |
| `journal` | up to 4 records, by each kind of runtime, up to 2 damages | what loads undamaged replays to the published state; lines lost, doubled, cut or moved are refused or leave a beginning of the run; of altered records that replay, whatever the verifier compares is as it was recorded | holds (823,136) |
| `lane_work` | 4 jobs on 3 lanes, 2 slots, in each of the three modes, with errors, timeouts, wrong answers and a cancellation; fair | no lane works twice, threads included; no slot idles; answers are their job's own; every batch ends with a verdict for every job | holds |
| `live_runtime` | 3 tickers, four kinds of packets, two budgets, collection and analyses that may raise, a cancellation; fair | drafts accepted, nothing started unplanned, no gap hidden, everything settled, the run ends with its client closed | holds |

The runs check what is deepest. Each module also states its type invariant and the
strengthenings its proofs need (`Consistent`, `Lifecycle`, `SlipInv`, `PlaceShows`,
`WaitsOnlyWhenClosed`, `Results`, `WorkInv`, `JournalInv`); these are proved for every value of the constants, and a cfg can
name them to see them hold on an instance.

### 3.1 Bounds and why they are enough

* *Graphs.* The five tasks have a join of two branches, a dependency at distance two, a
  tolerant task on one branch only and a tolerant join, so failed, skipped and partial tasks
  meet; the free task shares an agent with the source and waits with a slot free; more tasks
  are ready than slots, so `Full` ends passes and two verdicts race in the queue. `serial_dag`
  uses six tasks so that a skipped task has a dependent of its own.
* *Budgets.* In `task_loop` a batch of three fits once and not twice, so the second batch
  meets the limit with calls left; four turns leave room for a repair, a batch cut short, a
  further batch and the last turn.
* *Controller.* Three drafts and two pauses give a draft before, between and after two
  pauses (the second one may come between wake-up and step); one failing publication can hit any
  event. More of each repeats the same places.
* *Automatic run.* Four issuers over three lanes and two slots put two issuers on one
  lane, leave a lane free while the slots are used up, and defer an issuer for a wave;
  batches of three cut the cohort unevenly. Two thirds of four is no integer, so the rounding
  of the gate shows. With two reviews and a shortlist of three, rows without a review and
  reviews that fail and succeed side by side occur.

* *Collector.* Two tickers have four requests of both providers for two slots, so requests
  wait for a slot while others wait for the lock; a manifest of three and batches of two give
  a full batch and a rest; tickers with one CIK share a key of the cache; an interval of
  one tick tells "at once" from "after the interval"; the second process starts on every
  cache the first can leave.

* *Lanes.* Two jobs of one lane and two of their own lanes over two slots: somebody always
  waits for a lane, somebody for a slot, and for both at once.
* *Live run.* Three tickers give a first, a middle and a last; the packets are complete,
  without market data, nearly empty, and with a metric that cannot be computed.
* *Journal.* Four records hold a creation, a start, a plan and one record judged by that plan, of
  each kind there is; two damages can compensate each other (a line lost and one doubled) or work
  together (a plan made null and then a record judged without it). With five records, so that a
  turn or a call has its answer, the same properties hold over 7.4 million states; that instance
  takes minutes and is left to a reader.
* *Algorithms.* Four tasks are the smallest number with every kind of cycle and a diamond;
  three rows give a tie with a rest; three facts give a winner, a rival and a bystander;
  pages of one and two rows over four rows end within, at and after a page.

The theorems of section 5 remove these bounds for the safety properties.

### 3.2 Fairness

Liveness is checked under weak fairness of what the event loop resumes (scheduler,
consumer, `_drive`) and of what is awaited from outside (a model or tool answers: worker,
`Runtime`), which `asyncio`'s FIFO ready queue and the timeouts of the callers justify. A
pause is eventually lifted only where the property says so (`Resume` in `dag`;
`<>[]gate` in `RunEnds` of the controller). The operator owes no cancel. `Unwound` has
strong fairness because repeated cancellation can disable it again and again, while a
cleanup that awaits something does finish between two key presses; so have the runtime's
`Answers` (a draft, its end or an exception), which cancelling again and again a runtime
that swallows it would otherwise starve. A runtime that swallows its cancellation owes nothing: `swallowed`
remembers it, and `RunEnds` and `SettledWhenDone` say what holds otherwise. `AutomaticRun` assumes
weak fairness of the generator (what it awaits answers or times out) and of the event
loop's finaliser for abandoned generators, which `asyncio` runs as a task of its own.
`LiveCollector` assumes that its event loop goes on, time included: a request is answered
or times out (`asyncio.timeout` in `_provider_call`) and the consumer comes back for the
next batch; nobody owes a cancellation or a new process. `LaneWork` assumes that the event loop
runs what is ready and that every call ends: the diligence call by its timeout, an analysis
by returning. `LiveRuntime` assumes the same of its generator and of the finaliser.
`MCAlgorithms` and `Journal` have no liveness: the first evaluates, the second may stop
anywhere, which is the point.

## 4. Findings

Two have a violation run; each was reproduced on the code.

1. *Cancel while paused does not drain* (`dag_cancel_drain`). `aclosing` closes the outer
   generator of `FixedDagRuntime.stream`; the inner one it was iterating, and its workers,
   are left to the event loop's finaliser. "Run cancelled; pending work was drained" is
   journaled while they run.
2. *A cancel is lost* (`controller_lost_cancel`). `cancel()` before the first step of
   `_drive` leaves a run that is `planning` for ever, with its journal open.

Six more follow. All but one are stated as definitions of the modules, to be named in a cfg as
the only property of an instance; TLC refutes each of them. Number 6 is a step of the model.

3. *A paused run consumes a draft* (`RunController!PausedConsumesNothing`). A `pause()` between
   the gate's wake-up and the next step of `_drive` does not stop the draft that was held;
   when that draft is `RUN_SYNTHESIZING` the run is not `paused` any more with its gate
   closed, and `resume()` has no effect. `OneSlipPerPause` says what does hold.
4. *A model changes the terminal status* (`AutomaticRun!StatusNotModels`, with
   `MinScreened = 1`). The plan names `diligence_limit` review tasks and a validator that
   depends on all of them; only rows of the shortlist get a review started. When fewer issuers
   than that pass a gate with a low `minimum_screened_count`, the validator's `TASK_STARTED` is
   refused and the run fails, while the same cohort without a model completes, although
   `docs/automatic-universe.md` says a model cannot change the terminal status.
   `DraftsAccepted` holds, and is proved, for every gate that asks for at least
   `diligence_limit` issuers (the defaults, 100 and 8, do).
5. *The SEC ceiling is not kept after a failure* (`LiveCollector!CeilingKept`). `_get_json` takes
   the time of a request when its response is there. A request that gets none leaves the old
   time, and the next waiter of the rate lock sends at once. `PaceKept` says what does
   hold, and is proved: after an answered request the interval is kept.
6. *A refused automatic run leaves its client open.* The checks of `AutomaticLiveRuntime.stream`
   (lines 135-140) raise before the `try` at 141 whose `finally` closes the client, so a client
   the runtime owns is not closed then (`Reject`). `Settles` claims it for the runs whose first stage
   began. `LiveRuntime` does the same (lines 125-130), as its `Reject` says.
7. *Envelopes of failed calls are not verified* (`Journal!FailuresCovered`). A `TOOL_FAILED` record
   carries an envelope and its hash (`fixed_dag.py:940`, `automatic_runtime.py:431`), and the
   verifier looks at `TOOL_COMPLETED` and `TOOL_REJECTED` only (`journal.py:40`), while
   `docs/architecture.md` says that loading a journal rejects hash mismatches.
8. *Duplicated fields of a turn are not all compared* (`Journal!CopiesCovered`). The request id, the
   session id and the size of the output are in the record of a turn and in its trace
   (`fixed_dag.py:676-679`, `automatic_runtime.py:636-639`), and `_verify_model_turn_completed` compares
   the output, its hash and whether it was truncated only, while `docs/architecture.md` (lines 98-100)
   says that inconsistent duplicated envelope fields are rejected.

Remarks without a property, since no document promises otherwise.

`RunController`: the end of the stream is published without asking the gate, so a run that
is paused after its last draft completes (`StreamEnds`); and `cancel()` before `start()`
makes `run_cancelled` the first record of a journal, which replay refuses (`CancelUnstarted`); and a `flush` that
fails once leaves its record in the write buffer, so that two records of the file can share
a sequence number (`retained`; `ImplementsJournal` is checked and proved without that fault, since it is
false with it: that half of the hazard is a known behaviour and no property guards it).

`LiveRuntime`: one analysis that raises fails the run while the other coroutines go on as orphans (`LaneWork`, mode `live`). `LaneWork`: a thread of
`data/yfinance.py` outlives the timeout, and so the provider slot, of its call.

`Journal`: nothing is synced, so a crash of the machine may lose trailing lines, which reads
as an earlier end; a value and its hash altered together, and a line renumbered after another
was lost, cannot be told. No hash covers the kind of a record, so that a run whose failure reads as a
completion replays (`KindsCovered`). A journal whose `plan` field is null or gone is judged by the
rules for legacy journals, in which a tool result may lack its envelope and its hash (`PlansCovered`);
TLC refutes both definitions. Messages, and most fields of runtimes other than the fixed one, have no
hash. `DamageShows` says what holds all the same.

`ToolRegistry`: the lock of `execute` guards no `await` and handlers are synchronous, so calls
are atomic; failures are cached like results, so `unknown_tool` stays after the tool is
registered and a transient failure stays; an exception that escapes caches nothing.
`Binding`: the assumptions of a model have no source and are not marked as such in the result; that a slot's observation has the kind the slot means is not checked (a valuation
whose only bound input is a number of shares is labelled in shares), and a benchmark series
may be of another currency than the asset's.

`Metrics`: some metrics ignore a value that is given directly while others, as components, use
it; an after-tax profit with a pretax income of zero is reported as missing. `Universe`: a page
whose rows are all refused ends the paging. `Ledger`: an evidence ID does not cover the time
of retrieval, so one fact fetched twice collides. `Observations`: one issue stands for a fact
in the model, for a list of a unit in the code. `Statistics`: exact fractions stand for
decimals; growth rates and deviations that need roots are judged by the equation they solve,
or by whether they are available.

## 5. What is proved

TLAPS checks, for every value of the constants that satisfies the module's assumption:

* **`DagSchedulerProofs`**, for every finite acyclic workflow, every assignment of agents and
  every number of slots: `TypeOK`, `ProjectionAgrees` (`ReducerAccepts` and `AgentVerdicts`),
  `PoolSound` (`WorkersBounded` and `NoSchedulerDeadlock`), `EndsDrained`, and that `DagScheduler` implements
  `DagContract`. The argument is one inductive invariant, `Consistent`
  (`DagSchedulerInv`): the phases and the sets partition the tasks
  (`PartitionInv`); a worker's life, its entry in `running` and its outcome go together
  (`LifeInv`); what is in the queue about a task is a prefix of
  progress/verdict/finished that leads from its projected status to its outcome
  (`QueueInv`); the draft that is held fits (`HeldInv`). None of the properties is inductive by itself:
  `ReducerAccepts`, for example, needs to know that what is dequeued next about a task
  has not overtaken anything else about it, which is `QueueInv`. Absence of deadlock is by
  the topological rank: the pending task of least rank is startable or blocked when nothing runs.
  `AncestryExact` compares the ancestry, which is collected along the dependencies, with the
  tasks in every set closed under dependency (`Feeding`); that the two agree is shown for the
  least of these sets, from the outcomes of settled tasks, which never change again.
* **`SerialDagProofs`**: `Consistent` (the loop, its outcomes and the projection one draft
  behind), `JournalAgrees` (`DraftsAccepted` and `VerdictsAgree`), and the same contract with one slot.
  And about every workflow definition: one that passes the validation meets what `SerialDag`
  and `DagScheduler` assume of their workflow (`ValidatedIsSchedulable`), and one that is refused with
  `dependency_cycle` has no ranking of its tasks at all (`RefusedIsCyclic`). The invariant of the pops
  (`KahnInv`) counts for every task the dependencies that are not ordered yet; when nothing is ready
  and something is left out, each task left out waits for another one.
  `WorkflowsStaySound` states the whole of `WorkflowsSound`. The order is the earliest because
  any other topological order takes, where it first departs, a task that was ready and larger. For the
  search, `SearchInv` says that the stack is a path of dependencies and that a task that was left
  ranks after all it depends on; each step makes a move that was not made before, so the search
  ends within `Moves`, with a cycle on its stack or with a ranking of all tasks, which a refused
  workflow does not have. Assumed are tasks whose fields have the types the code reads, and an integer
  number of slots.
* **`TaskLoopProofs`**, for all budgets: type correctness, `DraftsAccepted`, `BudgetsKept`
  (`CountsAgree`, `BatchFits` and the repairs), `SourcesTrusted`, `PlaceShows`, `RepairsKept`, and that the loop implements
  `TaskWorker`, from one invariant `LoopInv` that says what each place means for the
  projection, the batch and the budgets.
  And about every session of a tool registry, of any length and with tools registered along the
  way (`SessionsStaySound`, the whole of `SessionSound`): the invariant `RegistryInv` keeps one
  answer for an ID, whose result names a run of the very call, and something for every ID whose
  handler has returned; an answer given is the kept one, a conflict with it, or a refusal of its
  scope (`AnswerFits`). A session without the calls its scopes refused ends with the same registry,
  because a step reads nothing of the registry but its tools, its cache and its runs (`ServeCore`).
  And about every batch of proposals, whatever the allow-list, the sources and the packet
  (`BindingsStaySound`, the whole of `BindingSound`): a batch runs exactly when each proposal of it may
  run by itself, and then what it reads as observed are the numbers its references name, with their
  sources, and what else it has of the model are assumptions of its tool. Counting the values of a
  set is turned into a relation of any two observations (`CompatiblePairs`), the references picked for a
  slot into an ascending list of their places (`PickedFacts`), and two price series have the same dates
  in order when they have the same set of dates (`SameSeries`). Assumed is a packet whose values and
  period ends are numbers and whose IDs differ from the two markers of a bad reference, and a terminal
  object that is missing, open or valued. `ToolCallsStaySound` states both as `ToolCallsSound`.
* **`RunControllerProofs`**, whatever fails and whoever interrupts: type correctness,
  `WaitsOnlyWhenClosed`, `Lifecycle` (the strengthening of `SettledWhenDone`: what each place
  of `_drive` says about journal, status and cancellation), `SettledWhenDone`,
  `ClosedMeansOver`, `OneSlipPerPause`, and that the controller implements `RunJournal` as long as no record
  stays in the write buffer. `OneSlipPerPause` speaks of the whole journal; the invariant (`SlipInv`)
  adds that a pause nobody resumed means a closed gate, or a run cancelled or over, and that a
  draft that was already woken when the pause came is the only one that can still slip.
* **`AutomaticRunProofs`**, for every cohort, batch size, number of lanes and slots, gate and
  number of reviews: type correctness, `LanesKept` (`LanesExclusive` and `LaneOrder`), `FunnelAgrees`,
  `ResultsHonest` and `DraftsAccepted`. The inductive part is `Consistent`: while the run goes on, the
  generator's place determines what each member of the cohort (`Member`) and each planned
  review (`Reviews`) reads in the projection; the waves keep every lane in order
  (`WaveOrder`); whoever has a shortlist passed the gate (`Ranked`). The properties follow
  from it at every place and are carried over the end of the run because nothing but `run`,
  `at` and `client` changes there. `DraftsAccepted` rests on `EnoughRows`: past such a gate
  the shortlist has a row for every planned review. `ResultsHonest` rests on `Results`: which rows of
  the shortlist are surfaced is what the loops of surfacing and retirement are past, and a row
  counts as reviewed exactly if its task completed.
  And about the cohort a run starts from, for every policy, every map of identities and screens of
  any length, changing or not (`SelectionsStaySound`, the whole of `SelectionsSound`). After every page
  (`ReadInv`) the rows kept and the rows excluded are those fetched, and the fetched are the first
  of the screen unless its total changed. That members and exclusions add up is a count: one best row
  for every ticker (`BestCounted`), one issuer for every eligible row (`EligibleSingle`), one place for
  every row in the order of their size (`ListedBySize`, from `Places`: whoever is ordered
  by a strict order has a place of its own). For the early stop (`SteadyInv`), what was read of a
  screen that does not change is its first rows, and the loop ends with enough of them
  or with all; in a sorted screen later rows change neither who is eligible among the first
  nor their order (`PrefixEligible`, `PrefixCohort`). Assumed (`CohortsAsked`) are a policy and rows of
  the types the code reads, and a screen for every page there can be.

* **`LiveCollectorProofs`**, for every number of tickers, members, slots and processes, every
  assignment of CIKs and every interval: type correctness, `SlotsHonest`, `CacheReadable`,
  `FailuresIsolated` and `PaceKept`. The invariant has a part per resource: `Alive` says which requests
  can be alive at each place, without which "a collection that is over holds nothing" is not
  inductive; `Locked` ties the holder of the lock to the one request that is paced or sent;
  `Paced` orders the two clocks once the latest request has been answered; `Stored` knows
  the blob of a request that is between its two writes; `Told` gives each issuer no verdict
  while its batch is out, and one afterwards. A step of one request is split by resource
  (`OneRequest`, `OneSlot`, `OnePace`, `OneStored`).
  And about a ledger after any batches, refused ones included (`LedgersStaySound`, the whole of
  `LedgerSound`): a ledger is what its records determine, index included (`LedgerOf`), a batch that
  is taken adds exactly its records (`IngestAdds`), and without collisions every batch is taken, so
  that the ledger is the union of the batches (`IngestedUnion`) whatever their order and however
  often they come (`BatchOrderIsFree`).
  `EvidenceStaysSound` adds the mappings and states the whole of `EvidenceSound`: of the usable facts
  the latest and best of each key is selected (`SelectedAreBest`), so the observations do not depend
  on the order of the payload (`SecFactsStaySound`), and of a history the last usable value of a field
  and time stays (`HistoriesStaySound`). Assumed are facts whose dates and digests are
  numbers, two different facts never of one digest, as the code relies on.

* **`LiveRuntimeProofs`**, for every number of tickers, all budgets and whatever the collector
  finds: type correctness of `LiveRuntime`, `LiveDraftsAccepted` and `LiveRunHonest`. As for the
  automatic run, the place of the generator determines what every task, agent and candidate reads
  (`Consistent`).
  For every number of jobs, lanes and slots, in each of the three modes of `LaneWork`: `WorkInv` and
  `LanesUsed`. The invariant says that the entries of the lines and the jobs inside the loops are
  the same (`Queued`) and that who computes holds a place within the slots and the head of a lane
  (`Computing`). That no slot idles is a count: the first `Slots` entries of the semaphore's line are
  matched one to one with lanes that have work.
* **`JournalProofs`**, for every number of records and damages and each kind of runtime:
  `JournalInv`, `ReplayRebuilds` and `DamageShows`. `JournalInv` says what was recorded (`Recorded`),
  that the published state is the reduction of it (`Reduced`), and what a damaged file still is
  (`Kept`): lines that name the record they were by its number (`Numbered`), or, once a number
  itself is altered, lines in their places (`InPlace`), of any kind and with fields that are other
  values, null or gone (`Altered`). `DamageShows` follows line by line (`DamageFollows`): a record that
  is reduced has the number of its place, so it is the one recorded there, altered or not; what the
  verifier compares in it holds one value in all its copies, and a hash that no alteration
  computes leaves the recorded one (`VouchedSays`, and `PlanSays` for the plan a journal is judged by);
  without an altered record the events are the history's own. The functions `Loading` and `Reducing` are
  shown to exist, and to have a property at every index, by the least index at which they would fail.

**Model-checked only**: everything that is liveness (`RunEnds`, `Settles`, `Ends`, `WorkEnds`,
`LiveEnds`), because proofs under fairness are out of the prover's reach; and `ValuesSound`, the
calculations (`Metrics`, `Ranking`, `Forecasts`, `Statistics`): exact fractions by a recursive
divisor, folds, sorts and selections that take an operator, for which the provers have no induction.
All other properties of the runs, safety and refinement, are proved.

The theorems about pure modules are theorems of `Evaluating` under a hypothesis that types the input
(`WorkflowsAsked`, `CohortsAsked`, `EvidenceAsked`, `CallsAsked`). The inputs of `MCAlgorithms` satisfy
them, so the run `algorithms` is an instance of each.

## 6. What is not modelled, and what may follow

Outside of the models for good: text and payload parsing (`actions.py`, `domain.py`,
`universe_mapping.py`), the schema language and the definitions of the tools (`tools/schema.py`,
`tools/finance.py`, but for the names of the fields, which `Binding` has), rendering (`tui/`), the command line, the constant drafts of the demo
(`adapters/demo.py`), the pass-through to an engine outside of the repository
(`adapters/kernelcubed.py`), HTTP and vendor libraries, the scripts, and the harnesses, which
build fixtures and check finished journals.

What may follow, in order of importance: theorems about the calculations, beginning with the mid-ranks
of `Ranking`, whose counts need no fractions; damaged files and a second process in the cache; the life
of a run screen in the terminal interface, whose calls on the controller `RunController` has
(`AbandonWait`, `Cancel`).
