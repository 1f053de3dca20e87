# Chronoq: specification and proofs

TLA+ models of Chronoq, a learned task scheduler: a ranker that predicts how
long tasks take and retrains itself on what it observes, a gate that puts it in
front of a Celery broker, a demo server that puts it in front of a Redis queue,
a simulator that measures it on traces, and programs that show it at work. This
directory holds the modules, the TLC configurations and the TLAPS proofs about
them.

## 1. Inventory

| Part | Source (below `src/`) | State it keeps | Operations | Talks to |
|---|---|---|---|---|
| LearnedScheduler | `integrations/celery/chronoq_celery/scheduler.py` | heap of (score, seq, apply_fn, id), arrival counter, registry id -> entry; one lock | `submit`, `dispatch_next`, `record_start`, `record_completion`, `cleanup_registry` | TaskRanker (scores, records), TypeStatsTracker, the broker through `apply_fn` |
| Signal wiring | `.../signals.py` | none | prerun, success, failure, revoked handlers | Celery workers call it; it calls LearnedScheduler |
| TypeStatsTracker | `.../rolling.py` | ring buffer of durations per task type; one lock | `record`, `snapshot`, `seed` | LearnedScheduler |
| TaskRanker | `ranker/chronoq_ranker/ranker.py` | estimator pointer (locked), records-since-retrain counter (not locked), drift detector, telemetry store | `predict`, `predict_scores`, `record`, `retrain`, `drift_status`, warm start | store, estimators, DriftDetector |
| Estimators | `ranker/chronoq_ranker/models/` | heuristic and gradient: fitted values; LambdaRank: model, encoder, rho, incremental count (locked piecewise) | `fit`, `predict`, `predict_batch` | TaskRanker |
| DriftDetector | `ranker/chronoq_ranker/drift.py` | reference distributions, last report | `set_reference`, `check` | TaskRanker |
| Telemetry stores | `ranker/chronoq_ranker/storage/` | list of records, in memory or SQLite; one lock | `save`, `get_all`, `get_by_type`, `count`, `count_since` | TaskRanker |
| Demo server | `demo-server/chronoq_demo_server/` | Redis sorted set and task hashes, worker pool, prediction tracker | submit, batch, queue, metrics and retrain endpoints; worker loop; start and stop | TaskRanker, Redis |
| Simulator | `bench/chronoq_bench/simulator.py`, `baselines/` | simulated clock, waiting list, servers, completed jobs | arrivals, selection, service | schedulers (FCFS, SJF, SRPT, priority, random, LambdaRank) |
| Baselines | `bench/chronoq_bench/baselines/` | a random generator (random policy only) | `select` | Simulator |
| Experiments | `bench/chronoq_bench/experiments/` | grids of runs | `run_experiment`, `main` | Simulator, TaskRanker, trace loaders |
| Metrics | `bench/chronoq_bench/metrics/`, `models/lambdarank.py` | none | mean, percentile, head-of-line count, Jain, Spearman, Kendall, pairwise accuracy | simulator, LambdaRank |
| Trace loaders | `bench/chronoq_bench/traces/` | cached parquet files, Azure's archive; no lock | `load`: fixture, cache, download, parse, fallback, select | experiments |
| Celery examples | `examples/celery-docker/`, `integrations/celery/examples/toggle_demo.py`, `integrations/celery/demo.py` | results being polled, times of completion | submit all, flush or kick, poll, report | LearnedScheduler, Celery |

**How the parts interact.** An application calls `LearnedScheduler.submit()`;
the gate asks `TaskRanker` for a score and keeps the task in its heap until
somebody calls `dispatch_next()`, which hands it to the broker through
`apply_fn`. Celery's workers call the signal handlers, which feed the measured
duration back to the ranker and dispatch the next task. The ranker saves every
record in a telemetry store and, every `retrain_every_n` records, retrains
itself inside the call that brought the last of them. The demo server is a
second front end of the same ranker, with a Redis sorted set as its queue and an
asyncio pool as its workers. The simulator replays traces against a policy, one
of which is a ranker.

**What is hard.**

- The gate is called by any number of threads and its one lock is released
  between scoring, pushing, popping and `apply_fn`; the ranker locks its
  estimator pointer and nothing else; LambdaRank's state is locked piecewise.
- Failures, retries, revocations, redelivery and exceptions out of `apply_fn`
  and out of automatic retrains each take another way through the handlers.
- The demo server spreads one logical step (take a task off the queue, mark it,
  run it, mark it again, record it) over five awaits, each of which can raise, be
  cancelled by `stop()` or be the last thing a dying process did.
- The simulator's correctness depends on the order in which simpy processes
  events of one instant.
- `LambdaRankEstimator.fit()` takes its lock four times and prepares, trains and
  evaluates without it, over an encoder that predictions extend as well.
- Loads share files that are written in place: a process may be killed or another
  may read, write or download at any moment.
- The eager demo executes each task inside the success handler of the one before;
  the producer polls results that may never come.

**What makes each component correct.**

- Gate: no accepted task is lost or dispatched twice; heap and registry agree;
  least score first, first come first among equals; a completion lets out at
  most one task; what waits is dispatched while anything is in flight.
- Ranker: the retrain trigger is never missed and never loops; a model is
  complete before anybody can predict with it; a better model is not replaced by
  a worse one; the drift reference describes the model in use; a promotion survives
  restarts.
- Demo server: at-most-once execution across crashes, one place per task, the
  queue is drained while the server is up, and what a reply acknowledged is known
  to the store.
- LambdaRank: model and rho are published together, an extension never loses more
  than its tolerance against the model it extended, trees are bounded, a
  prediction's rows are coded as its model's were, the metrics agree.
- Trace loaders: loading again gives the same jobs, and they are those that the
  published file tells of.
- Examples: tasks go out in the order that was promised, the report is true and
  complete, and the program ends.
- Simulator: the selection never finds the list empty, no worker idles while a
  job waits, the policy is kept, the textbook schedule is reproduced.

## 2. The modules

| Module | What it is |
|---|---|
| `LearnedScheduler` | the gate, its signal handlers and the size of its statistics |
| `PriorityGate` | what the gate promises in active mode, without threads, registry or broker |
| `LearnedSchedulerRefinement` | the refinement mapping between the two |
| `LearnedSchedulerProofs` | proofs about the gate: places, counts of submissions and of dispatch rights |
| `LearnedSchedulerRefinementProofs` | the proof that the gate implements `PriorityGate` |
| `TaskRanker` | records, retrain trigger, estimator life cycle, drift reference, restart |
| `TaskRankerProofs` | proofs about the ranker, under threads and with a single one |
| `DemoServer` | endpoints, Redis queue, worker pool, stop, crash and restart |
| `TaskLedger` | what the demo server promises about each task |
| `DemoServerProofs` | proofs about the demo server, its refinement of the ledger among them |
| `Simulator` | simpy's calendar and resource, the arrival and worker processes, the policies |
| `SimulatorProofs` | proofs about the simulator, the schedules it produces and their metrics |
| `JctMetrics` | metrics of completion times, used by `Simulator` |
| `RankMetrics` | training groups, labels, held-out groups and rank metrics, used by `LambdaRank` |
| `LambdaRank` | one estimator under threads that fit it and threads that predict with it |
| `LambdaRankProofs` | proofs about what `LambdaRank` accepts, how far it extends a model and how it codes rows |
| `TraceRows` | what each loader makes of a published file: rows and jobs |
| `TraceFiles` | `load()` over fixture, cache and download by several processes |
| `TraceFilesProofs` | the proofs that loads agree and that the jobs they return happened |
| `CeleryDemos` | the producer with its broker and the eager demo, from first submission to report |
| `CeleryDemosProofs` | proofs about the order of dispatch and the report |
| `MC...` | the instances of each for TLC: task ids, symmetry |

A definition that starts with the comment "Mutant:" is a variant of the action
below it with one plausible slip in it. It is used by no specification; it
documents which mistake each property would catch.

### 2.1 LearnedScheduler

| Model | Code |
|---|---|
| `heap`, `arrivals`, `registry`, `mode` | `_heap`, `_arrival_counter`, `_registry`, `_mode` of `scheduler.py` |
| `stats` | number of observations in each ring buffer of `TypeStatsTracker` |
| `broker` | messages sent by `apply_fn` and not received, per task |
| `pc`, `job`, `prio` | where a thread is between two critical sections, and its local variables |
| `SubmitFifo`, `ScoreTask`, `Push`, `Reject`, `SendDirect(Raises)` | `submit()` |
| `Kick`, `DispatchNext`, `DispatchNothing`, `Apply(Raises)` | `dispatch_next()`, called by a client or by the success handler |
| `Receive`, `Retry`, `Redeliver` | Celery and its broker |
| `Prerun` | `task_prerun` -> `record_start()` |
| `CompletePop`, `RecordStats`, `RankerRecord(Raises)` | `task_success` -> `record_completion()` |
| `Fail`, `Revoke` | `task_failure`, `task_revoked` -> `cleanup_registry()` |

One action is one critical section of `self._lock`, or one call made outside it.
`accepted`, `finished`, `succeeded`, `dropped`, `telemetry`, `kicks` and `events`
are history: no action's guard reads them except to bound the run.

A *dispatch right* is whatever may still lead to a `dispatch_next()` without a
new outside call: a thread about to send, a message at the broker, a busy worker.
The gate has no dispatch loop, so its whole liveness is a statement about rights:
they are created by outside calls, exchanged by successes, and die.

### 2.2 TaskRanker

| Model | Code |
|---|---|
| `saved` | number of records in the store |
| `counter` | `_records_since_last_retrain`, not locked |
| `estimator` | `_estimator`: kind, rows it was fitted to or identity of its instance |
| `lr` | each `LambdaRankEstimator`: rows of its model, incremental fits since the last full one |
| `reference` | the drift reference: 0 when the dictionary is empty |
| `Record`, `Save`, `Count` or `CountLoad`/`CountStore`/`CountTest` | `record()` |
| `Snapshot` ... `Reset` | `retrain()`, one action per access to shared state |
| `FitInsufficient`, `FitError` | the exceptions of `fit()` inside `retrain()` |
| `Crash`, `WarmStart` | the process dies; the constructor of the next one with its `_warm_start()` |
| `WarmStartInsufficient`, `WarmStartError` | the same exceptions, out of the constructor: the process stays down until somebody tries again |

A model is identified by the number of records it was fitted to, which is what
the trigger, the promotion, the choice between full and incremental fits and the
drift reference depend on. `FullFitMin` stands for the number of records at which
the store holds `min_groups` groups. `Atomic` chooses between an interpreter that
does not switch threads inside `+= 1` followed by a comparison and one that may
(free-threaded builds, and what the language guarantees). `Durable` chooses
between the two stores. `fresh`, `tried`, `promoted`, `refused`, `referenced` and
`unchecked` are history: `promoted` remembers that LambdaRank was published on
the records of this store, `refused` that a constructor raised for want of groups.

### 2.3 DemoServer

| Model | Code |
|---|---|
| `queue`, `status` | the sorted set and the `status` field of the hashes in Redis |
| `up` | the pool is started |
| `cjob`, `cscore`, `left`, `replies` | one request's progress through its batch |
| `wpc`, `wjob` | what a worker awaits and the task it holds |
| `stat` | `_stats[w]["status"]`, which `/metrics` publishes |
| `Submit`, `Enqueue`, `RequestFails` | `submit_task`, `submit_batch`, `score_and_enqueue`, `TaskQueue.enqueue` |
| `Dequeue`, `Fetch` | the two commands of `TaskQueue.dequeue` |
| `Start`, `Run`, `Finish`, `Report(Raises)`, `WorkerFails` | one turn of `_worker_loop` |
| `StartPool`, `StopPool`, `Crash` | `lifespan`, `WorkerPool.start` and `stop`, the end of the process |

One event loop runs everything, so an action reaches from the effect of one
awaited Redis command to the next await. A caller that is cancelled or gets an
exception while it awaits Redis may or may not have had its effect: that is why
`RequestFails` has both outcomes, and why `WorkerFails` may follow any of the
worker's steps. Members of equal score leave the sorted set in any order (Redis
orders them by member, here a random id).

### 2.4 Simulator

`calendar` is simpy's heap of events ordered by time, urgency and creation;
`users` and `queued` are the resource; `waiting`, `running`, `start` and `end`
are the lists and stamps of `Simulator.run`. `Arrive`, `Request`, `Acquire`,
`Finish` and `Release` are what happens when an event of each kind is processed.
simpy is not part of the repository. It is modelled by the behaviour this code
relies on: process start-ups are urgent, events of one instant are processed in
order of creation, and the resource grants at most one request each time it is
asked or released. `Ranked` is the policy of the experiments
(`LambdaRankScheduler`): scores depend on the length of the queue, so they are
any at every selection. At the end of every run `JctMetrics` summarises the
completion times; fractions are compared by their products. `Percentile` reads off
the value whose rank in the sorted list is the nearest rank, without sorting
(`Rank`), and sums are recursive functions (`Sums`), so that both can be proved
about. `Lindley` is the textbook schedule that a run is compared with.

### 2.5 LambdaRank

| Model | Code |
|---|---|
| `model`, `rho`, `incrementals` | `_model`, `_last_rho`, `_incremental_count` |
| `encoder` | `_encoder`; `gen` tells the dictionary from the one that replaces it |
| `Begin`, `ReadPrevious` or `Reset` | the lock sections of `fit()` and `_incremental_fit()`, the new dictionary of `_full_fit()` |
| `Look`, `Put`, `Encode`, `Score` | `_build_matrix()`: the test and the insertion of each type, then the rows |
| `Train`, `TrainFails`, `Publish`, `Count` | LightGBM, the evaluation and rejection, the swap, the count |
| `Ask`, `Answer` | `predict()` and `predict_batch()` |
| `Groups`, `Label`, `HeldOut` (`RankMetrics`) | `_prepare_data()` |
| `Spearman`, `Kendall`, `PairwiseAccuracy` | the functions of the same names; `metrics/ranking.py` wraps them |

A model is what it was made of: how often it was extended, the codes of its
matrix, its rho and the rho it started from. What the trees have learned is any
scoring of the held-out rows, so every rho that such rows can have occurs, with
the real formulas (groups of up to three records make every value a whole number
of hundredths). `alone` and `stranded` are history: whether calls have ever
overlapped, and whether the last full fit raised after it had dropped the codes.
`TaskRanker` uses a coarser view of the same object (`lr`).

### 2.6 TraceRows and TraceFiles

| Model | Code |
|---|---|
| `BurstNormalise`, `PhillyNormalise`, `HeliosNormalise`, `AzureProcess`, `BorgProcess` | what each loader does with the file it has downloaded |
| `PhillySynthetic`, `HeliosSynthetic`, `SyntheticJobs` | the generated samples |
| `BurstJob` ... `MooncakeJob` | `_to_trace_jobs()` of each loader |
| `cache`, `tarball`, `written` | the parquet file, Azure's archive, and what the overlapping writes would put into the cache |
| `Load` | `load()` up to the choice between fixture, cache and download |
| `Fetch`, `Fetched`, `FetchFails`, `Parse` | the download and what is made of it; `Without` is the fallback, or the error |
| `BeginWrite`, `EndWrite` | `to_parquet()`, which truncates the file and then fills it |
| `ReadFixture`, `ReadCache`, `Finish` | the other sources; schema check, selection, conversion |
| `Crash`, `Delete` | the process is killed; the user deletes a cache that cannot be used |

A file is a table with named columns (the aliases of a column are one name) and
rows of small numbers; a random generator with a fixed seed is one fixed sequence
and a shuffle one fixed permutation for each length.

`Arranged(s, T, key)` is pandas' work on rows: of the positions `T` those with the
smaller keys first, equal ones as they come. With a key that is constant it is a
filter (`Kept`), with the arrival it is `sort_values`, with the class the strata of
Borg's sample. `UpTo(sizes)` are the running sums by which rows that come in groups
(the files of Helios' archive, Azure's pairs of a function and a minute) are
numbered; `GroupOf` and `PlaceOf` lead from a row to its group and back. These take
the place of `SelectSeq`, `SortSeq` and folds, which mean the same and which the
provers cannot expand.

### 2.7 CeleryDemos

| Model | Code |
|---|---|
| `heap`, `registry`, `First`, `Dispatch` | the gate, as far as one thread with fresh ids can tell |
| `queue`, `work`, `result` | the broker, the worker processes, the result backend |
| `stack` | eager mode: tasks in execution, each inside the handler of the one before |
| `Submit`, `Submitted`, `Flush`, `Round`, `Ask`, `Deadline`, `Report`, `SendFails` | `main()` of `producer.py` |
| `Kick`, `Prerun`, `Succeed`, `Raise`, `Unwind` | `_run_mode()` of `toggle_demo.py` and its handlers |
| `DemoOrder` | the order that `demo.py` calculates without executing anything |

Both programs run one batch through the gate; the modes are those of the gate.
A worker process has a gate of its own with an empty heap: it measures and
nothing else, and is left out.

## 3. What TLC checks

Every bound is a constant of the configuration and appears in the guard of the
action it limits.

| Run | Instance | States | What it shows |
|---|---|---|---|
| `gate_modes` | every mode; 2 clients, 2 workers, 3 ids each submitted twice, 2 outside dispatches, 2 abnormal events | 314,000 | nothing lost or doubled; heap and registry agree; the registry outlives no task; every success is measured; the window of dispatch rights is kept; a right dies only idle or abnormally; `PriorityGate` implemented |
| `gate_drain` | active mode, redelivery, fairness | 179,000 | one living right drains the heap, even if messages are delivered twice |
| `gate_failure_stalls` | one kick, one failure | - | **fails**: see section 6 |
| `ranker_single` | 1 thread, 14 records, 2 direct retrains, 1 error of a fit or a warm start, 1 crash | 73,000 | the sequential contract: trigger in time, reference follows model, drift checked, no demotion, attempts spaced |
| `ranker_parallel` | 2 threads, non-atomic counter, no permission to degrade, 1 error, 2 crashes | 532,000 | the trigger is served and left; no unfit model is published; a promotion survives restarts |
| `ranker_demotion` | 2 threads, one direct retrain | - | **fails**: see section 6 |
| `lambdarank` | 2 fitters, 1 predictor, 3 fits of 3 datasets, a full refit after 1 increment | 1,917,000 | model and rho agree and nothing worse than tolerated is accepted, by whatever fits overlap; trees bounded and codes right for calls that do not overlap; rank metrics agree |
| `lambdarank_codes` | 1 fitter, 1 predictor | - | **fails**: see section 6 |
| `demo_pool` | 2 requests of up to 2 tasks, 2 workers, 3 ids, 2 exceptions, 1 stop or crash | 302,000 | at-most-once, one place, acknowledged ids kept, ledger implemented, queue drained |
| `celery_demos` | both programs, every mode, 4 jobs, 2 worker processes, 1 fault | 386,000 | dispatch order as promised, report true and complete, both programs end |
| `trace_files` | 7 loaders, 2 processes, small files of every shape, 1 crash or failed download | 613,000 | repeated loads agree; the jobs are those the file tells of |
| `simulator_runs` | every trace of 4 jobs over 3 arrival times, 2 durations and 2 priorities; 1 and 2 workers; 5 policies | 336,000 | no empty selection, slots counted, policy kept, work conserving, textbook schedule, metrics as their names say |

Why these bounds are enough to be interesting:

- Gate: three ids and two submissions of each give a resubmission while the
  first is in every possible place, ties and inversions of two scores with a
  third task in flight, and two threads inside `dispatch_next()` at once. Two
  abnormal events allow a retry that then fails, or an `apply_fn` that raises
  next to a lost training.
- Ranker: with `retrain_every_n` 2, cold start 3, five records for a full fit
  and a full refit after 2 incrementals, 14 records pass through heuristic,
  gradient, promotion, both incremental outcomes, a forced full refit and another
  round after a restart. With two threads, four records and a threshold of two
  already lose updates and race promotions. Without permission to degrade a crash
  between cold start and the first full fit leaves a store that every constructor
  refuses; the second crash reaches a store on which the restart promoted.
- Demo server: two requests and two workers give every race for the head of the
  queue; two errors reach an exception while another is being handled; one
  stop or crash is met at every await and followed by a restart.
- LambdaRank: three fits are a promotion, an increment and a forced full refit, or
  two increments of one model racing a third call; of the datasets one has named
  groups of two and of three and types that come in another order, one has time
  windows, and one too few groups for a full fit and none to hold out.
- Traces: each file has rows that count and one row of every kind that does not,
  and the columns that a loader can do without are there or not. Borg's tasks are
  resubmitted and end again at every position; Azure's expansion reaches its cap
  inside a minute and at its end. Requests are for none, some and all rows. Two
  processes at a time load only the traces of `ContendedTraces` (the other loaders
  use files in the same way, with fewer cases).
- Examples: with four jobs and two scores the order has ties and inversions, two
  worker processes finish out of order, and one fault is enough to strand the
  chain, to lose a message or to leave a poll hanging.
- Simulator: four jobs are the fewest with which two workers have both a queue
  and ties among the queued, and with three arrival times and two durations every
  order of arrivals, completions and coincidences occurs.

### Fairness

- Gate: weak fairness of each worker and of each client call that has begun.
  Threads are scheduled, locks are released, workers poll the broker and task
  bodies end. Nobody is obliged to submit or to dispatch, nor to produce the
  abnormal events (fairness of a worker is of its whole step; a normal step is
  always possible where an abnormal one is).
- Ranker: weak fairness of calls in progress. Nobody is obliged to record, nor to
  start again a process that died.
- LambdaRank and the trace loaders state safety properties only, and nothing is
  fair in them.
- Demo server: weak fairness of each worker's regular step, which the event loop
  gives it; none of requests, exceptions, starts and stops. `QueueIsDrained` is
  therefore conditional on the server staying up.
- Simulator: weak fairness of `Next`; `env.run()` is a loop over the calendar.
- Examples: weak fairness of the main program, eager tasks included, and of the
  deadline, since time passes. Worker processes and the broker need not be fair:
  `DemosEnd` holds even if no task is ever executed.

## 4. What is proved

All theorems are for every value of the constants that satisfies the module's
assumption: any number of threads, workers, tasks, records and mishaps, and no
bound is needed.

| Theorem | Statement |
|---|---|
| `LearnedSchedulerProofs!TypeCorrect` | `Spec => []TypeOK` |
| `RegistryStaysLive` | `PassesIds` implies `Spec => []RegistryIsLive` |
| `ActiveNeverTwice` | `PassesIds` and `OnceDelivered` imply `Spec => []NeverTwice` |
| `WaitingStaysRegistered` | `PassesIds` and `OnceDelivered` imply `Spec => []WaitingIsRegistered` |
| `SubmissionsAreKept` | `OnceDelivered` implies `Spec => []NothingLost` |
| `WindowStaysKept` | `OnceDelivered` implies `Spec => []WindowIsKept` |
| `RightsOnlyDieIdle` | `Spec => RightsDieIdle` |
| `SuccessesAreMeasured` | `PassesIds` and `OnceDelivered` imply `Spec => []SuccessIsMeasured` |
| `LearnedSchedulerRefinementProofs!GateIsImplemented` | `PassesIds` and `OnceDelivered` imply `Spec => ImplementsGate` |
| `TaskRankerProofs!TypeCorrect` | `Spec => []TypeOK` |
| `TriggerIsNeverMissed` | `Spec => []ThresholdIsServed` |
| `ModelBeforePublication` | `Spec => []PublishedIsFit` |
| `RestartsResume` | `Spec => PromotionSurvives` |
| `SequentialRetrainsInTime` | `Sequential` implies `Spec => []RetrainedInTime` |
| `SequentialReferenceFollows` | `Sequential` implies `Spec => []ReferenceFollowsModel` |
| `SequentialChecksDrift` | `Sequential` implies `Spec => []DriftIsChecked` |
| `SequentialNeverDemotes` | `Sequential` implies `Spec => NeverDemoted` |
| `SequentialSpacesAttempts` | `Sequential` implies `Spec => AttemptsAreSpaced` |
| `DemoServerProofs!TypeCorrect` | `Spec => []TypeOK` |
| `EachTaskInOnePlace` | `Spec => []OnePlace` |
| `ExecutedAtMostOnce` | `Spec => []AtMostOnce` |
| `AcknowledgedIsKept` | `Spec => []AckedIsKept` |
| `ServerKeepsLedger` | `Spec => Ledger!LedgerSpec` |
| `LambdaRankProofs!AcceptedSafe` | `Spec => []AcceptedWithinDelta` |
| `TreesStayBounded` | `Spec => []TreesAreBounded` |
| `PredictionsStayMatched` | `Spec => []SequentialPredictionsMatch` |
| `SimulatorProofs!SelectHasChoiceHolds` | `Spec => []SelectHasChoice` |
| `WorkConservingHolds` | `Spec => WorkConserving` |
| `PolicyIsKeptHolds` | `Spec => []PolicyIsKept` |
| `MatchesTheoryHolds` | `Spec => []MatchesTheory` |
| `SummaryIsTrue` | `Summarised(s)` for every sequence `s` of completion times |
| `CeleryDemosProofs!OrderStaysScheduled` | `Spec => []OrderIsScheduled` |
| `ReportStaysTrue` | `Spec => []ReportIsTrue` |
| `TraceFilesProofs!LoadsKeepAgreeing` | `Spec => []LoadsAgree` |
| `JobsStayTrue` | `Spec => []JobsAreTrue` |

**Gate: places.** `PassesIds` says that `apply_fn` passes the task id on to Celery,
as the demos do; `OnceDelivered`, that no message is delivered twice. The registry's
theorem needs the first: with foreign ids the entry of `submit()` is never
removed, and TLC shows it. The next two need the second: TLC finds both
violated under redelivery. `RegistryIsLive` is inductive with the types: a step
that moves a task keeps it alive (`MoveOwed`, `OthersOwed`), the two that create
an entry create it for a task that is alive, and the three outcomes of an
execution remove it (`OutcomeOf`). `NeverTwice` is not inductive: the critical
section of `submit()` looks only at the registry, so it could let an id in again
that is still on its way. `ActiveInv` therefore adds "every live task has an
entry" and "nobody sends past the heap", and `GateInv` adds that outside the
active mode nothing ever enters the heap.

**Gate: counts.** `NothingLost` says that what was accepted under an id is,
counted with multiplicity, what waits, is in hand, is at the broker, executes,
is over or was dropped. One lemma says how a count over threads changes when one
thread moves; with it each action is a line of arithmetic (`Conserves`,
`Balance`). That a push adds exactly one entry needs that arrival numbers in the
heap are below the counter (`NumbersAreFresh`). `RightsDieIdle` and
`WindowIsKept` count dispatch rights in the same way: `RightsMove` says that a
step keeps their number, adds one with a dispatch from outside, or loses one to
an empty heap or an abnormal event. Neither looks at the registry, so neither
needs `PassesIds`. `SuccessIsMeasured` is last because its invariant stands on
the others: as long as a watched id is in execution its entry is started
(`MeasureInv`), because only one worker has it (`WatchedRunsAlone`, by `GateInv`
in active mode and by the count in shadow mode).

**Gate: refinement.** The abstract queue is the heap in the order of arrival;
the mapping gives the entry with k smaller arrival numbers the place k+1.
`HeapIsListed` is the fact behind it: the heap is finite and its numbers differ,
so that the order lists each entry once. Adding the newest entry is `Append`,
and removing the least entry by score and number removes the first of the least
score in the abstract queue. Under `RefInv` each action is one abstract step or
none: `Push` is an admission, `Pop` a departure that is either asked for from
outside or takes the right of a completion, outcomes end a task, everything else
leaves the mapped state alone.

**Ranker: any number of threads.** `ThresholdIsServed` is inductive with the types:
whoever lifts the counter to the threshold is itself a thread that has yet to
test it. With lost updates a thread may store a value that another thread's reset
has made stale, and it is that thread which then tests and retrains.
`PublishedIsFit` needs `FitInv`: an instance in the hands of a thread that is past
its fit has a model, one that is being initialised is known to nobody else, and
the estimator in use is never re-initialised. A promotion that raced another one
is harmless because each has its own instance. `PromotionSurvives` is about a state
that is gone when it matters: what the constructor does depends on the store, and
what is promised depends on what retrains published before the crash. `StoreInv`
connects them: whatever has a model, published or not, was fitted to enough
records, an increment is only chosen for an instance that has a model
(`SnapInv`), and the store does not shrink while it lives. Two retrains may still
demote the estimator (section 6); the restart after that promotes again.

**Ranker: one thread.** `Sequential` says that one thread calls the ranker; TLC
shows with two that `NeverDemoted` fails then, and section 6 tells of the
others. For one thread the five properties hold across failed fits, crashes and
restarts in all four combinations of `Atomic` and `Durable`. `SeqInv` has four
parts: `TallyInv`, the records saved are those of the last attempt and those the
counter knows, but for one that is saved and not counted; `PromotedInv`, a
LambdaRank model is published only with enough records for a full fit;
`CandidateInv`, what is about to be swapped in never demotes and was fitted to
the snapshot; `ReferenceInv`, the reference describes the published model except
between the swap and its filling.

**Demo server.** `PlaceInv` splits by where a task can be: `QueueInv` (members
of the sorted set are pending, one member per id, held by no worker),
`RequestInv` (the id a request is about to enqueue is unknown to everybody else),
`WorkerInv` (no two workers hold one task, and the status of what a worker holds
is what its program counter says). `TallyInv` relates the counts of executions
and records to the same program counters. `AckInv` is about promises: what a reply
holds, or will hold, is known to Redis, and while no exception, stop or crash
interfered everything known waits, is at work or is completed. The ledger then
follows step by step: each action moves at most one task, and forwards.

**LambdaRank.** `AcceptedWithinDelta` speaks of the published model only; it is
kept because of what a fit carries through its unlocked stretch. `AcceptInv`
adds `KnowsPrevious` (from its second lock section on, an extension holds a
model together with that model's own rho) and `HasPassed` (what is about to be
published was tested against just that rho). Neither depends on what other
threads publish meanwhile (`OthersAccept`), so two fits may overlap. What
training and evaluation return stays any value: the proof uses of them only that
a rejected fit publishes nothing. The other two are about calls that do not
overlap. `AloneInv` turns the history variable into a fact about the present:
while `alone`, at most one thread is busy. On it stand `TreesInv` (the count of
increments is at least the extensions of the model, and a fit in progress was
decided on a count below the limit) and `MatchInv` (the encoder codes every type
of the published model's matrix as that matrix does, unless a full fit has
dropped the codes; a fit that prepares its matrix still wants the types that
have no code). `RowsAssumption` says of the datasets that flattening their
groups gives a sequence of rows; it is true of every dataset and only stated
because the flattening is a fold.

**Simulator.** `SimInv` is about the calendar. Let the pending events of each
kind be counted: as many jobs wait as there are processes that have a slot or
are on their way to one (`SelectHasChoice`); a free slot beside a waiting
request is about to be given out by a release (`SlotsAreOffered`); processes
that go on at once are due now (`Punctual`); exactly one arrival is pending, the
next (`ArrivalInv`). Time passes only when no event is due, and then every slot
is taken or nobody waits, which is `WorkConserving`. `PolicyIsKept` is inductive
with `SimInv`: a selection takes the least job of those in the list, and whoever
had arrived before that instant and has not started is in it.

**Simulator: the theory.** `MatchesTheory` speaks of finished runs; `RunInv` is what
is true all along. Each job that has started ends exactly its length later
(`EndInv`), and a free worker beside a waiting job is one whose last job has ended
now, or the first arrivals are of now (`IdleInv`). For one worker:

- `Packed(L)`: the started jobs are all done at L, which is the arrival of some job
  b plus the work of the started jobs from b on, and not less than that for any
  other job in place of b. `LindleyBusy` shows that the last value of Lindley's
  recursion is just this maximum over busy periods, so that the last end is the
  same under every policy.
- `FcfsInv`: under FCFS the jobs start in order of arrival, each when Lindley's
  recursion lets it; `AcquireFcfs` is the step.
- `SjfInv`: under shortest-job-first what has started is no longer than an earlier
  job that waits, and the ends of the c jobs started so far add up to no more than
  the first c ends under FCFS. `ShortestFirst` is the exchange argument: the started
  jobs from b on are no more work than the c - b + 1 jobs from b on in order of
  arrival, so the c-th job to start ends no later than the c-th of FCFS does.

The metrics need nothing of the simulator. `SummaryIsTrue` rests on ranks being one
to one onto 1..n (`RankIs`, `RankTaken`), so that the value of rank r has r values
that do not exceed it and fewer below; on Markov's inequality for the count of
blocked jobs (`FewBlock`); and on the sum over i of (n s[i] - S)^2 not being negative,
with squares adding up to no more than the square of the sum (`Squares`).

Sums and schedules are recursive functions, and facts about them need induction. It
is done over the *set* of the numbers that have the property: if the set contains
0 and with n also n+1, it has no least number outside (`Induction`, from
`LeastNatural`). `Recursion` shows in the same way that the recursive definitions
define something.

**Celery examples.** `Placed` gives each sent job its rank in the order of score
and submission; `OrderInv` adds that what waits comes after all that was sent. A
dispatch takes the least of the rest (`LeastNatural` shows that it exists), so
the ranks stay consecutive; this is the same whether `flush` or a nested handler
dispatches. `EagerInv` is the argument for the eager program: at most the task
on top of the stack is sent and not complete, and after a fault, one task at
most that has raised. `PollInv` is the producer's: what it counts as complete
has a result.

**Trace files.** `FileInv` says of every frame in memory, in the cache or under way
into it that it is the frame which the published file gives for its origin, and
of every result that it is the beginning of the jobs of such a frame; it holds
through partial writes, crashes and deletions, since an incomplete file is an
error for its readers. For `LoadsAgree` nothing more is needed: loads agree, whatever
the normalisation does.

`JobsStayTrue` is about what it does. Every result is the beginning of the jobs of one
frame, so it is enough that the rows of every origin are true (`TrueRows`: each makes a
job with a length and an arrival, and no two have the same id) and that reversing
and cutting keep this. `ArrangedIs` is the lemma below all loaders: the rank of a
position among those before it is an injection into `1..n`, hence onto, so
arranging puts every position somewhere and each once. Borg's rows are last attempts
because the dictionaries keep the last line of a task, and the times of the lines do
not decrease. For Azure, division by the number of functions takes the pairs apart
(`PairIs`, `PlaceOfPair`), the running sums grow, and so a missing task of a minute
lies beyond the pair at which the expansion ended (`AzureMinutes`).

This takes credible files, and `TracesAreCredible` says what that is: tables, ids
that are not repeated where there is a column of ids, numbers where the loaders
calculate with them, Borg's events in order of time. The loaders check none of it.
TLC evaluates it for the files of the run, which lack columns, miss values, repeat
events, hold jobs that failed or have no length, and cannot be read.

**Only model-checked.** Liveness (`RightsDrainTheHeap`, `ThresholdIsLeft`,
`QueueIsDrained`, `EveryJobEnds`, `DemosEnd`) is out of the
prover's reach. One invariant is checked on the instances only. `MetricsAgree` is
about rank metrics in whole hundredths, which are exact for groups of up to three
only: for larger groups the model would have to compute with fractions, so there is
no theorem for every value of the constants to prove.

## 5. Assumptions about what is not in the repository

Celery: a worker runs one message at a time, sends `task_prerun` first and then
at most one of `task_success`, `task_failure` and `task_revoked`, or nothing on a
retry. Redis: commands and transactions are atomic and nothing is lost.
`uuid4()` never repeats. asyncio: no interruption between awaits. simpy: section
2.4. CPython: `heapq`, `dict` and `list` operations are atomic where they happen
under a lock, and single `dict` operations also without one. LightGBM: training
either raises or returns a model that continues the one it was given. pandas:
`to_parquet()` is not atomic, and reading a file that is incomplete raises. A
broker list is first in, first out. Eager Celery with `task_eager_propagates`
raises out of `apply_async()`; a signal swallows what its receivers raise.

## 6. Where code and documentation disagree

1. **`gate_failure_stalls`** (`RightsDrainTheHeap`). The failure and revoked
   handlers clean up and dispatch nothing, so each failure loses one dispatch
   right; with one task in flight the gate stops.
2. **`ranker_demotion`** (`NeverDemoted`). Two retrains at once: the one with
   the older snapshot, still below the cold start, swaps last and replaces
   LambdaRank by a heuristic.
3. **`lambdarank_codes`** (`PredictionIsOfItsModel`). A full fit replaces the
   encoder that predictions use long before it replaces the model, so for the
   length of a training the old model is fed rows coded for the new one.

Observations that no run is spent on.

Gate and its wiring:

- In active mode `submit()` only pushes, and the only automatic caller of
  `dispatch_next()` is the success handler. An application wired as
  `docs/v2/INTEGRATIONS.md` says ("called automatically ... no manual bookkeeping
  needed") executes nothing. The repository's own programs know: `toggle_demo.py`
  dispatches once to start the chain and `producer.py` flushes the heap.
- `attach_signals()` connects closures, and Celery keeps weak references:
  nothing holds the handlers once the call has returned. `toggle_demo.py:10-15`
  says so and keeps its own; `worker.py` does not.
- The quickstart's `apply_fn` does not pass `task_id` on, so Celery invents
  another id: the registry entry of `submit()` is never removed and that id is
  refused from then on. `CeleryId` in the model is the parameter to see it with.
- Statistics are recorded under the name of the Celery task but read under the
  `task_type` given to `submit()`; when the two differ the scores never see any.
- Two threads that pop in score order may call `apply_fn` in the other order:
  `ImplementsGate` orders the pops, not the sends.
- In shadow and fifo mode nothing refuses a duplicate id; the completion of one
  execution takes the registry entry of the other, which is why
  `SuccessIsMeasured` asks there for ids submitted once.

Ranker and LambdaRank:

- `retrain()` sets the counter to 0 when it ends; with two threads, records that
  landed while it was fitting are forgotten although the fit never saw them.
  `RetrainedInTime` is therefore a property of one thread.
- Every retrain below the cold start makes a new `HeuristicEstimator`, whose
  version begins again at `heuristic-v1`: records of different models carry the
  same `model_version_at_record`.
- Equal scores get ranks by position: a model that ties everything has rho -1,
  and in a group of more than ten, where labels repeat, a perfect one stays below
  1. An extension tested on no rows resets rho to 0.
- The count of increments includes rejected ones. Two fits at a time can lose a
  full refit: the later swap publishes an extension of the model before it.
- A full fit that raises after it has rebuilt the encoder leaves the old model
  with the new codes until the next one (`stranded`).
- Two threads that extend the encoder at once can give two types one code.
- The docstring of `_compute_psi` promises 0 for a constant reference, but the
  widened edges leave two bins.
- The comment at `ranker.py:57` calls the counter "records since last successful
  retrain"; the `finally` branch resets it after a failed one too. That is what
  `AttemptsAreSpaced` relies on.
- With `allow_degrade` off and a store between `cold_start_threshold` and enough
  groups, `retrain()` raises out of `record()` at every trigger, and after a restart
  the constructor raises, each time, until somebody adds records to the store or
  changes the configuration (`WarmStartInsufficient`). `PromotionSurvives` says which
  stores are safe from this.
- Only the fit, the swap and `set_reference()` are inside the `try` whose `finally`
  resets the counter. An exception of `store.get_all()` (`ranker.py:159`) or one of
  the drift check that is not a `RuntimeError` (line 168) leaves the counter at its
  threshold, and the next `record()` retrains again, which is what the comment at
  lines 213-219 means to exclude. These exceptions are not modelled, so
  `ThresholdIsServed`, `ThresholdIsLeft` and `AttemptsAreSpaced` speak of runs
  without them.
- With two threads a drift check can meet the reference between clearing and
  filling; the exception is taken for "no reference yet" and the check is
  skipped. `DriftIsChecked` is therefore a property of one thread.

Demo server and simulator:

- `stop()` says "Gracefully stop all workers" and cancels them wherever they are;
  a task that has left the queue stays `pending` or `running` in Redis for ever.
- `recent(0)` of the prediction tracker returns every entry, `entries[-0:]` being
  the whole list.
- Scores stay in the sorted set when the model is promoted: durations of the old
  model are compared with rank scores of the new one.
- Three simultaneous arrivals with an idle worker: a selection may happen before
  the third is in the list. `PolicyIsKept` compares only jobs that had arrived
  before the selection's instant.

Trace loaders:

- After a failed download Philly writes the synthetic fallback to the cache of the
  real trace. Later loads read it without the warning that the docstring promises
  ("so the caller knows real data was not used"), and a second process whose
  download fails may overwrite real data with it.
- `load(0)` is `load()` wherever the code says `n or max_rows`.
- Azure: an archive that was cut off is never fetched again, and the expansion may
  exceed its cap by the rest of a group; only the first minutes of a day are left.
- Borg: a task that is resubmitted after it has finished loses both attempts; the
  sample gives every class a row at least and is then cut, so that with many small
  classes the last ones are dropped; a class smaller than its share is not made up for.
- Borg and Azure files without a usable row raise `KeyError`.

Examples:

- A task of the eager demo that raises inside a nested dispatch is swallowed by
  the signal of the one before: the rest of the batch stays in the heap and the
  program reports as if all were well.
- The nesting is as deep as the batch is long.
- The producer counts failed tasks as completed (`ready()`), and its own gate's
  registry is never emptied, since its process has no handlers.

## 7. What is not modelled

| Part | Why |
|---|---|
| Numeric features, PSI, regression, boosting, plots | arithmetic over floats; the state machines see scores and models as opaque values |
| The experiments, apart from `LambdaRankScheduler` | straight-line drivers that call simulator, ranker and loaders over a grid; no state outlives a call |
| The pre-training of the demos, their printing and plotting | the same loop of `record()` calls before the first submission; layout |
| `TypeStatsTracker.seed`, `snapshot`, `predict*` of `TaskRanker`, `peek`, `length`, GET endpoints | they read, or seed before the first step; none changes the state the properties are about |
| Tallies of the demo server's workers, prediction tracker, configuration | counters and constants nobody acts on |
| Exceptions of the store, of the drift check and of `set_reference()` (`ranker.py:142`, `159`, `168`, `211`) | they depend on the disk and on the extractor; section 6 tells what those before the `try` do |
| SQL of `SqliteStore`, conversion of records | layout; the stores are a count of records that survives a restart or does not |
| Oracle estimator, deprecated names | identity and re-exports |
| Garbage collection of the signal closures; Python's recursion limit; expiry of Celery results | below the level of the models |

## 8. Plan

Done: all modules of section 2, with every safety invariant and action property
of the passing runs proved, except for one about computed data
(section 4, "only model-checked").

What could follow:

1. Rank metrics as pairs of numerator and denominator, and their bounds.
2. `WaitingIsRegistered` and `NeverTwice` under foreign ids: which part of
   `ActiveInv` survives without `PassesIds`.
3. Two workers under FCFS against the schedule of Kiefer and Wolfowitz.
