# Sentinel: TLA+ models and proofs

TLA+ models of the Sentinel AI-slop triage engine: the Go gateway that takes
GitHub webhooks, triages pull requests on a worker pool and writes to GitHub,
and the parts of the Python model service and training pipeline that decide
which cutoff the gateway acts on and what becomes of a maintainer's correction. TLC checks the models on small instances;
TLAPS proves the main properties for every value of the constants.

`PROJECT.json` lists the components, the runs, the mutants that show each
property can fail, the source lines every definition stands for, the hazards
and the findings. In the modules a definition named "Mutant of X" is the same
definition with a plausible bug in it; nothing uses it unless it is put in the
place of X.

## 1. The system

| component | source | state | operations | interacts with |
|---|---|---|---|---|
| delivery ledger | `internal/webhook/dedupe.go` | map `seen`, ring, slot pointer `pos`, under a mutex | `Claim` | called by the handler for every actionable delivery |
| feedback log | `internal/webhook/feedback.go` | bounded channel, writer goroutine, file | `Start`, `Record`, `Close`, `run` | `Record` from request goroutines, `Close` from Shutdown |
| handler | `internal/webhook/webhook.go` | bounded job channel, worker goroutines, wait group, counters | `Start`, `ServeHTTP`, `recordDisagreement`, `worker`, `process`, `act`, `Shutdown` | ledger, log, counters, GitHub client, triage client |
| counters | `internal/webhook/stats.go` | atomics | `inc*`, `observeLatency`, `Snapshot` | written by workers and requests, read by `/stats` |
| gateway process | `cmd/sentinel/main.go` | HTTP server, signal goroutine | start, serve, stop | starts and shuts down the handler |
| GitHub client | `internal/github/github.go` | none between calls | `doRetrying` and the calls on top of it | remote API, context of the worker |
| triage client | `internal/triage/triage.go` | none | `Analyze`, `FetchHealth` | model service |
| configuration | `internal/config/config.go` | none | `Load` | environment |
| signature check | `internal/verify/verify.go` | none | `Middleware` | in front of the handler |
| model service | `model/app.py`, `inference.py`, `encoding.py` | loaded weights and cutoff | startup, `/healthz`, `/predict` | artifact directory |
| training and gate | `ml/train.py`, `thresholds.py`, `evaluate.py` | artifact directory | save, `select_threshold`, gate | artifact directory |
| dataset build | `ml/build_dataset.py` | three parquet files | feedback rows, split, leakage assertion, writing | feedback log, GitHub, training, gate |
| collection | `ml/collect_prs.py` | raw dataset | paging, rate-limit pauses | GitHub search API |
| deployment | `docker-compose.yml` | two containers | start order, restarts | gateway, model service |

A delivery goes: signature check, event filter, ledger claim, queue (or
feedback log), 200 to GitHub; later a worker fetches the diff, asks the model,
compares with the cutoff and, for a flag outside shadow mode, writes label,
comment and check run.

What is hard about it, and what makes each part correct:

* **Ledger.** An off-by-one between map, ring and count would leak entries for
  ever or forget the wrong ID. Correct: an ID is refused exactly while it is
  among the latest accepted ones.
* **Handler.** Redeliveries race each other, a worker can finish a job before
  the request that enqueued it has counted it, a queue can be full after the
  claim, a shutdown can come at any point. Correct: no job is lost between
  goroutines or triaged twice, counters account for every job, an answer never
  depends on a worker, a `Shutdown` that returned nil left nothing behind, and
  GitHub is written to for flagged jobs only and then completely.
* **Feedback log.** A writer that cannot open its file, a full buffer, two
  callers of `Close`. Correct: one row per accepted signal in order, the buffer
  always drains, `Close` ends.
* **Admission.** Nine checks in two files stand before the ledger, some of which
  exempt what a later one is for. Correct: an unsigned request learns nothing,
  what is wanted gets through, and nothing else reaches the ledger.
* **Process.** Two shutdowns in sequence on a goroutine nobody waits for, kills,
  restarts with an empty ledger. Correct: no send on a closed channel in an
  orderly stop, at most one comment per delivery and life, accepted work is
  drained (it is not: see Findings).
* **Retries.** Late timers, server-imposed pauses, lost answers, stale status
  of an earlier attempt, and five calls of a job on one budget. Correct: within
  the budget, spaced, given up only when it must, repeated only in doubt, and
  the worker is free again.
* **Counters.** Lock-free maximum and unsynchronised snapshot.
* **Cutoff.** Chosen by a scan, written in a file beside weights that were
  written earlier, read by a service that may be restarted, asked for once by a
  gateway that may be restarted, and compared on different sides of a rounding.
* **Configuration.** Good and bad settings together. Correct: all of them in
  force or no start.
* **Dataset.** A correction goes through a log, a fetch and a shuffle into files
  that are overwritten one by one while others read them. Correct: it arrives,
  and no model is judged on what it was fit to.

## 2. Modules

| module | models | state and actions |
|---|---|---|
| `DedupWindow` | what the ledger promises | `behind[id]`: how many other IDs were accepted after `id`, capped. `Accept`, `Refuse` |
| `Ledger` | `dedupe.go` as it is | `seen`, `ring`, `pos`, and `count` = `len(seen)`. One `Claim` is one step, for it holds the mutex throughout: `Grant` (true) or `Refuse` (false) |
| `FeedbackLog` | `feedback.go` | `ch`, `writer`, `hand` (signal being encoded), `file`, `closer`. Every channel operation and every file operation is a step; open and encode may fail |
| `Handler` | `webhook.go`, with `DedupWindow` for the ledger and `FeedbackLog` for the log | `reqAt[r]` is the program counter of a request goroutine, `workerAt[w]` that of a worker, `stopper[s]` that of a call of `Shutdown`. A job is named by the request it came from |
| `GatewaySpec` | what the gateway promises for an accepted pull request | `fate[r]`, `tried[r]`, `alive`. `Accept`, `Conclude`, `Mark`; with `Crash`, what a process may leave undone |
| `Admission` | `verify.go` and the checks of `ServeHTTP`, in front of `Ledger` | `faults[r]` beside `Handler`'s request variables. `Checks` is the sequence of checks, each named by its answer, and `Stops` says which fire; `Arrive` ends at the first |
| `Sentinel` | `main.go` around `Handler` | `up`, `drainer` (the signal goroutine), `life`. Kill and restart; memory is lost, GitHub and the log file are not |
| `Retry` | `doRetrying` | `attempt`, `backoff`, time in ticks; `landed` counts the attempts the remote side applied |
| `TriageJob` | a worker's job: `process`, `act`, `Analyze` and the callers of `doRetrying` | `stage` is the call the worker is in; each GitHub call is a whole run of `Retry`, on one clock and one deadline |
| `Stats` | `stats.go` | every atomic operation and every load of a snapshot is a step |
| `Threshold` | `thresholds.py`, `evaluate.py`, `predict`, the gateway's comparison | the scan as a loop; gate and serving as operators |
| `Config` | `config.Load` | functions of the environment, no state |
| `Startup` | `train.py`'s writing of the artifact, the model service's loading of it, the gateway's configuration and sourcing of its cutoff, compose | `dir` (file by file), `model`, `gateway`, `env`; training, kills and restarts at any point |
| `Dataset` | `build_dataset.py`, and what `train.py` and `evaluate.py` read of its files, beside `FeedbackLog` | `builder`, `files` (one by one), `learned`, `model`, `tested`; `spoilt`: the log has a broken row. A build is given the log or not; it may abort on a log it cannot read or on its assertion, or break off between two files |
| `LedgerProofs`, `HandlerProofs`, `JobProofs`, `StartupProofs`, `LoopProofs`, `SentinelProofs`, `StatsProofs`, `ThresholdProofs` | theorems | |
| `MCHandler`, `MCSentinel`, `MCAdmission` | symmetry for TLC; the fault combinations of a request | |
| `MCStartup`, `MCDataset` | environments; pull requests, rows and draws | |

How they compose: `Ledger` implements `DedupWindow` (checked and proved), so
`Handler` uses `DedupWindow`'s `Remembered` and `Pushed` in place of the ring:
a `Claim` is atomic in the code and in both. `Handler` instantiates
`FeedbackLog` with its own variables and takes its actions as conjuncts of its
own (`Record*` in a request, `Close` and `CloseReturns` in `Shutdown`).
`Sentinel` extends `Handler` and wraps each of its actions. `TriageJob` extends
`Retry` and enters it anew for each call, the clock going on. `Startup` extends
`Config`, `Dataset` extends `FeedbackLog`.

Four refinements tie them together, all checked and proved. `Handler` implements `GatewaySpec`
(`ImplementsPromise`), and `Sentinel`, with its stops and
kills, the same with crashes (`KeepsPromise`). In the other direction, what is
one step in `Handler` is taken apart twice and shown to be that step: the arrival
of a request by `Admission` (`ImplementsRequests`, with the ring in the place of
the window), and each call of a job by `TriageJob` (`ImplementsWorker`).

Abstractions worth knowing when reading a diff against the code:

* A delivery is a model value in one of the sets `Pulls`, `Removals`, `Others`.
  The filters before the ledger (event, action, bot author, missing ID, other
  label) all end in the same "ignored" answer without effect; `Arrive` is that
  choice, and `Admission` says which answer and why. `NoSHA` are the pull requests without a head SHA, which get no check run.
* In `Handler` the fetch and the model call succeed or fail nondeterministically;
  each GitHub write is "ok" or "error"; the retries and the clock are `TriageJob`.
* `Config` leaves out how a text is parsed: a setting is a value of its type, in
  or beyond its range, `Bad` for a text of no value, or `Unset`.
* A row of the dataset is its pull request, for the diff, with the title it was
  fetched with and its label. The shuffle is any choice of the right sizes, and
  the synthetic rows any of a set of draws.
* A send on a closed channel panics. `net/http` recovers a panic of a request
  goroutine, so it ends that request (`reply` "panic") and nothing else.
* `incFlagged` and `incSkipped`, two additions each, are one step in `Handler`;
  `Stats` takes them apart.
* In `Startup` the cutoff chosen for build *b* is written *b*; the value 0 is
  the default of both services (0.95 in `config.go:36` and in `inference.py`).
* In `Retry` an answer is "ok" when it has the status its caller asks for: 200
  for the diff (`github.go:56`), any 2xx for a write. Any other that is not worth retrying is "final".
* A request may come on a connection accepted before the listener was closed;
  `Reachable` in `Sentinel` says until when. `srv.Shutdown` waits for it like for
  any other.
* `Dataset` knows a row of the log that broke off by its effect on the reader
  (`spoilt`): a line that is no JSON makes every build given the log abort
  (`build_dataset.py:115`). In `FeedbackLog` the row is simply not written.
* In `Dataset` the variables `torn` and `whole` are history: whether the three
  files are of one build, and whether they have been since a model read them.

## 3. Runs

Passing runs; every property of each has a mutant that violates it.

| run | bounds | what it shows |
|---|---|---|
| `admission` | 4 requests, 6 deliveries of every kind, 7 combinations of faults, 2 slots | the checks in their order, and the ledger behind them: map and ring agree and refine the window. Four requests on two slots wrap the pointer, evict, and claim an evicted ID again; the proof covers every size |
| `feedback_loop` | 3 signals, two of one pull request, buffer 2, 2 closers, one in 3 rows to each side, 1 build over the files of an earlier one, 1 training | rows in order, flush, ends: the buffer fills with one signal in the writer's hand. Corrections arrive as LEGIT rows; the gate judges on held-out rows unless a build came in between. The same pull request twice in the log, and in the log and the collection with opposite labels, makes builds that pass and builds that abort; so do builds without the log and a log with a broken row |
| `handler_pipeline` | 3 requests on 2 pulls and a removal, 2 workers, queue 1, ledger 1, 1 Shutdown, log off | the handler's invariants. Three requests on one delivery or on several: redelivery, eviction (ledger of 1), a full queue while both workers are busy, and a Shutdown that races everything. Every step is one of `GatewaySpec` |
| `handler_liveness` | 2 requests over deliveries of every kind, 2 workers, log on with a buffer of 1, 1 Shutdown | requests are answered without any help from workers; accepted deliveries get verdicts; Shutdown returns, and a nil one flushed the log, whatever was recorded, refused for a full buffer or raced the close |
| `sentinel_lives` | 3 requests for a pull and 2 removals, 2 lives | no panic in an orderly stop, one comment per life, and nothing but the end of a process leaves accepted work undone. Two lives are the least that have a restart between them |
| `triage_job` | 2 retries, deadline 9 ticks, GitHub calls of at most 3, model call of at most 6 (45, 15 and 30 s), timers 1 late, hints 0, 1, 3, 9 and a reset at 6 | budget, spacing, giving up, repeating, over all five calls; the job ends; its calls are the worker steps of `Handler`. The hints are below, at and above the backoffs (1, 2) and at the deadline; a slow fetch leaves the later calls no time |
| `stats` | 2 runs, 2 durations, 1 snapshot | the maximum loses no update and its loop ends; the mean of a snapshot is never too low. Two runs are enough for a swap to be lost, two durations for the loser to be the longer or the shorter one |
| `threshold` | 3 samples, 6 probabilities, any labelling | scan, gate, serving agree. The probabilities lie on a candidate, between two, at one half, below the first and above the last |
| `startup` | 2 training runs, 2 starts of the model service, 2 of the gateway, 48 environments with one setting on either side of its bound | never half-configured; cutoff and weights match unless training was cut or overlapped with a load; the gateway uses what it was told |

`CHECK_DEADLOCK FALSE` is set where the system comes to rest: when all
requests are answered and nothing is left to do, after the process has ended
for the last time, when a job is done, or when the bounds on builds, starts and
trainings are used up.

Findings are runs that TLC must find violated, each of a sentence of the
repository about itself:

| run | the sentence | what happens |
|---|---|---|
| `sentinel_stop` | `main.go:110-111`: an accepted delivery is drained, "not lost mid-process" | `main` returns as soon as the listener is closed; nobody waits for the goroutine that drains |
| `job_whole_diff` | constitution 22-24: a "diff fetch error" leads to no mutation | a read error of the body is dropped (`github.go:147`), a truncated diff is a success, and the pull request is marked on the verdict about it |
| `startup_advertised` | SC-006 (`specs/004-train-and-run/spec.md:121`): the effective threshold "equals the value advertised by the artifact" | the gateway asks once; if the model is still loading, which compose's `service_started` makes the usual case, the default stays for good |

More sentences promise more than the code does, as the models show without a run
of their own:

* Constitution 22-24 and `README.md:69-70` say a failed label or comment leaves
  the pull request untouched; `act` goes on after a failed label, as its own
  comment intends, and `WritesMatchVerdict` is what it does promise.
* `README.md:60-61` says "exactly one label + comment"; a POST whose answer is
  lost is posted again (`landed` in `Retry` can pass 1; `RepeatedOnlyInDoubt` is
  what holds), and a delivery repeated after a restart is commented on again
  (`OneCommentPerLife` counts per life).
* `data-model.md:28` of specs/001 says true "exactly once per ID per process
  lifetime"; the ledger forgets, and `OncePerWindow` says when.
* `data-model.md:20-21` of specs/001: only 413 and 401 are not acknowledged with
  200; a wrong method (405), an unreadable body, a missing delivery ID and a
  payload that is no JSON (400) are not either (`Checks` in `Admission`).
* `spec.md:168` of specs/001: a missing event type is "rejected as malformed";
  it is acknowledged with 200 like any other event (`webhook.go:204`).
* `spec.md:164` of specs/001: an out-of-range confidence is "treated as an
  error"; `Analyze` (`triage.go:140`) does not look at it.
* `config.go:63` refuses a threshold "out of range [0,1]"; `NaN` parses and passes
  both comparisons, and then no confidence is below it (`webhook.go:362`). An
  advertised threshold need only be positive (`main.go:80`). In `Config` and
  `Startup` both are values like any other, so the cutoff properties hold of them.
* `stats.go:65-68` says "off by one across fields"; it is off by as many as there
  are workers between two additions.
* SC-003 (`specs/004-train-and-run/spec.md:118`): "a passing precision result
  cannot be produced from a leaked dataset". The assertion compares the splits of
  one build; a build that writes, or broke off, between training and the gate
  brings rows of training into the test file (`HeldOut` has this as its
  hypothesis). And a title that could not be fetched is "" (`build_dataset.py:133`),
  which makes another hash of the same diff.

## 4. Fairness

Goroutines are scheduled: weak fairness on each request's, each worker's and
the log writer's steps, because the Go runtime preempts and every one of these
steps is enabled until it is taken. In `Handler` the specification `AckSpec`
assumes it of request goroutines only, so `EveryRequestAnswered` does not lean
on workers; `AcceptedGetsVerdict` and `ShutdownReturns` state the rest as their
hypothesis `OthersScheduled`. That the context of a `Shutdown` ever ends is not
assumed anywhere. In `Startup` nothing is assumed: every
service may hang, die or never be started. In `TriageJob` the job as a
whole is fair: its worker is scheduled, and every wait in it ends, because timers
fire (at most `Lateness` late) and both clients have timeouts. In `Dataset` only
the log's goroutines are fair; nobody need ever build or train. The runs with
liveness properties use no symmetry.

GitHub and model calls return because both HTTP clients have timeouts (15 s,
30 s) and the worker's context a budget (45 s); in `Handler` they are single
steps of the worker, which `TriageJob` shows them to be, and to end.

## 5. Proofs

Every statement below is proved by TLAPS for all values of the constants, under
the named assumptions of the modules. What these ask for, the code gives:
capacities, timeouts and retries are positive or natural numbers, the workers,
samples and runs are finitely many, `NoJob` and the like are none of the things they
stand beside, there is one call of `Shutdown` in the process (`main.go`), a run
takes time, and the files an earlier build left passed its own check for
leakage (`EarlierAssumption`: `build_dataset.py` asserts before it writes).

The modules under proof write alternatives with disjunctions, functions and
`IF`, never with `CASE`: tlapm's translation to SMT does not tell apart two `CASE`
expressions with as many arms in one obligation, and an obligation that holds
two of them could be proved without being true.

**`LedgerProofs`.** Inductive invariant `IInv` = `TypeOK` and
`RingMatchesSeen`: the keys of the map are the IDs in the live slots, each in
one slot, and before the ring is full the pointer is the count. From it
`LedgerTypeOK`, `LedgerRingMatchesSeen` and `LedgerImplementsWindow`:
`Spec => Window!Spec` under the mapping `behindBar`, which is the age of an
ID's slot. The argument: a granted claim makes every slot one older except the
one it overwrites, which was the oldest (`AgeAfterGrant`), so each remembered
ID falls one behind and the one at `Cap - 1` falls out.

The second half puts the checks in front of it. `FirstRefusal` says what the
first check that fires is, once for all combinations of faults; `UnsignedRefused`
and `RefusedUnlessWanted` follow from the order of the nine. `AdmissionInv`
then places each request on its way (`WayOf`): still to come, stopped by the
first of its checks, or past all of them. From it
`AdmissionUnverifiedLearnsNothing` and `AdmissionWantedGetsThrough`. The steps of
requests use the ledger by `Claim` only (`AdmissionUsesLedger`), so
`AdmissionLedger` carries the ledger's results over, and
`AdmissionImplementsRequests` maps checks, map and ring to `Handler`'s requests
and window: what is proved of the handler rests on the ring as coded.

**`HandlerProofs`.** `TypeOK` is not inductive: a worker's job is a request
only because of where the worker is, and the queue's jobs are in one place only
because a request enqueues once. `IInv` adds
`RequestsPlaced` (a claim is on an ID of the ledger; only finished requests
have an answer), `WorkersPlaced` (workers start together, hold a job exactly
while busy, leave only a closed and empty queue), `ShutdownPlaced` (past
`wg.Wait` no worker is left) and `JobsPlaced` (`OnePlace` without the counting:
the queue has no job twice, no two workers hold one, and queue, triage and
verdict exclude each other and cover the enqueued requests). From it:
`HandlerTypeOK`, `HandlerOnePlace`, `HandlerDrainedOnNil`. The parameter `old`
of these invariants is the set of requests of earlier lives of the process,
whose job may be lost; it is empty for the handler by itself, and every step is
proved for any such set, so that `SentinelProofs` can use it again.

* `HandlerWritesMatchVerdict`: a second invariant, `WritesPlaced`, says what has
  been tried from where the job's worker is (`TriedBefore`), and that a
  job no worker holds any more has had all that is due.
* `HandlerCountersAgree`: `Balanced` is the equation with its sets named: those who
  have sent and not counted, and the workers in triage. A step moves one job, so
  one set, the queue or a counter goes up and another down.
* `HandlerOncePerWindow`: `Windowed` says that with an ID which is *n* behind at
  least *n* other IDs were let through (`WindowCounted`), and that two requests are
  let through on one ID only with `LedgerCap` others (`WindowKept`). What was let
  through only grows.
* `HandlerLogFlushedOnNil`: `LogKept` lists where a recorded disagreement can be
  (file, hand, channel, or given up on a file error) and that the writer ends
  only on a closed and empty channel.
* `HandlerImplementsPromise`: `Spec => ImplementsPromise`. An enqueue is an
  `Accept` (the job was in no place before), a worker's conclusion a `Conclude`
  (a job it holds has no verdict yet, and no other worker or the queue holds it),
  a write a `Mark` (it has not been tried and the earlier ones have), and every
  other step leaves the mapped state alone: a take moves a job from the queue to a
  worker, both of which are `Alive`.

**`SentinelProofs`.** Every step of the process is `Within` (a step of the handler
in this life), `Ends` (memory gone) or `Beside` (`StepOfProcess`).
`ProcInv` = the types, `LivesPlaced` (a request belongs to the life it arrived
in) and `StopPlaced` (queue and log are closed by the drainer, after the server,
with no request in flight unless the server was cut off). `HandlerInv` is
the handler's invariants with `Old`, the requests of lives that are over, in the
place of `old`: a step within a life keeps it by the handler's own lemmas, the
end of one makes all requests old and the handler new (`EndHandlerInv`).
From these `SentinelTypeOK`, `SentinelNoPanicUnlessCut` (a send panics on a closed
channel only), `SentinelOneCommentPerLife` (by `WindowKept`: within a life
a second job of a delivery needs more other deliveries than there are) and
`SentinelKeepsPromise`, the refinement of `GatewaySpec` with crashes.

**`LoopProofs`.** `LogInv` = the types, `LogPlaced` (the channel is closed before
the writer ends, and that before a `Close` returns), `SentOnce` and
`RowsInOrder` itself: file, hand and channel in one line. A step
lengthens the line at its end (`RowAdded`), moves a signal along it (`LineSame`)
or takes one out (`RowDropped`). `LogRowsInOrder` is for the log alone;
a step of the dataset loop is one of the log or leaves it alone, hence
`LoopRowsInOrder` and `LoopFlushedOnClose`. For `LoopHeldOut`, `HeldInv` adds
that a build which writes has passed its check and the files behind it are its
own (`Writing`), and that a reading which counts as whole is of the files that
are there (`OfTheseFiles`): then what was trained on and what is
judged on are of one build, which does not leak.

**`StartupProofs`.** `CutoffsMatch`: while training was never cut and never
overlapped with a load, an idle directory has a cutoff of its weights or none,
and what is loaded from it does too. `GatewayHeard`: within the life of the
service that answered, nothing else is loaded. From these
`StartupCutoffOfWeights` and `StartupCutoffAsAdvertised`. `GatewayConfigured` (a
gateway past `Load` has what `Load` makes of its environment, and was not refused)
gives `StartupNeverHalfConfigured`.

**`JobProofs`.** For `JobSpec`, so for all calls of a job on one clock, not for
`Retry` alone. `LoopPlaced` says how many requests have gone out at each place of
the loop, and that where the loop goes on, or an attempt ended without an
answer, the status that stands is that of a throttling or none: this is why a
stale status is never an outcome. With it
the types (never more attempts than retries + 1), `WithinBudget` and
`FailsOnlyWhenItMust` are inductive (`JobTypeInvariant`, `JobWithinBudget`,
`JobFailsOnlyWhenItMust`), and `JobRepeatedOnlyInDoubt` follows from it. The
argument for the budget: a pause is begun only if it ends before the deadline, an
attempt ends with the context, and both timers are at most `Lateness` late.

`JobSpacedAttempts` needs `Paused` (a pause is at least the backoff and the hint)
and `Doubled` (the backoff is the first one times a power of two). The provers
have no meaning for `^`; the theorem takes the defining equations of 2^n
(`PowersOfTwo`) as its hypothesis, and nothing else. `JobImplementsWorker` maps
a job to `Handler` with one worker and one request: an attempt that does not
end its call is a stutter, one that does is the worker's step.

**`StatsProofs`.** `SwapRaises`: a run about to swap loaded a maximum below its own
duration, so a swap that goes through only raises it; with it `MaxIsMax` is
inductive (`StatsMaxIsMax`). For the snapshot, `SumInv`: the sum is the total
of the runs that added to it, the count the number of those that added to
both, and what a snapshot has read of the count is the number of some runs the
sum had by then (`Read`). `Total(m)` says that *m* is the
total duration of every set of runs by what an additive function is, without the recursion
that computes one. `StatsSnapshotCovers` holds of every such *m*;
`StatsSnapshotSums` is the property of the run, with the hypothesis that the
sum it is written with (`MapThenSumSet`) is a `Total`.

**`ThresholdProofs`.** `BestFound` and `MostFound` say what the scan knows of the
candidates it has passed: the least that clears the bar, and the least of the
most precise ones. Precisions are fractions compared by cross-multiplication;
`FractionOrder` and `PreciseOrder` make that a strict order. From these
`ThresholdSelectsLowestClearing`, `ThresholdGateIsHonest` and
`ThresholdServedAsEvaluated`.

Only model-checked:

* All liveness (`AcceptedGetsVerdict`, `ShutdownReturns`, `EveryRequestAnswered`,
  `BufferFrees`, `CloseEnds`, `LoopsEnd`, `JobEnds`): fairness needs `ENABLED`,
  which the prover does not reach.
* `CorrectionsKept`: it speaks of a `SelectSeq` of the log, and what a recursive
  definition computes for every sequence takes induction over data.
* That 2^n obeys `PowersOfTwo` and that `MapThenSumSet` is a `Total`, for the same
  reason: the hypotheses of `JobSpacedAttempts` and `StatsSnapshotSums`. TLC finds both
  properties to hold without them on the runs `triage_job` and `stats`.
* The three runs of the findings, which are counterexamples.

## 6. Not modelled

* The texts of comment, check run and logs; escaping; JSON decoding; how a
  setting's text is parsed. None of it is state.
* The cutting of a long diff before it goes to the model (`triage.go`), the same
  cut on both sides of training and serving: a conversion of text.
* Tokenizing, the forward pass and training proper: a library's.
* `collect_prs.py`: one script, one page counter, nothing that runs beside it.
* The HTTP server's read and write timeouts, `/healthz` and `/stats` beyond the
  snapshot, and the container's health probe (`main.go:143-163`), which reads
  `PORT` from the environment that `Load` reads and on whose answer nothing is restarted.
* The content of synthetic rows and the seeds: any draw and any shuffle.

## 7. Plan

Done, in this order: `DedupWindow`, `Ledger`, `LedgerProofs`, `FeedbackLog`,
`Handler`, `Sentinel`, `Retry`, `Stats`, `Threshold`, `HandlerProofs`, `Startup`,
`StartupProofs`, `TriageJob`, `GatewaySpec`, `Admission`, `Config`, `Dataset`,
`JobProofs`, `LoopProofs`, `StatsProofs`, `ThresholdProofs`, `SentinelProofs`.

Next: `CorrectionsKept` with the log's rows picked out by their positions in the
place of `SelectSeq`; the action properties the runs check and no theorem
states yet; the safety half of `ShutdownReturns` (a `Shutdown` past
`wg.Wait` waits for the writer alone).
