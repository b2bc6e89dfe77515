# Fast Startup Engine in TLA+

TLA+ specifications of `fast_startup_engine` (`src/fes`): the job queue in Postgres, the workers that
run jobs, the API calls that cancel and stop them, the reconciler that cleans up after all of them, the
Modal sandboxes that cost money for as long as they run, the event log users follow, the artifact
catalog and the volumes it describes, the agent that starts SGLang on a GPU host, the benchmark jobs,
and the pure functions plans and pages are computed with.  TLC checks the specifications on small
instances; TLAPS proves what is listed under *Proofs* for every instance.

## The system

| Component | State | Operations | Hard part |
|---|---|---|---|
| Job queue, `store.py` | tables `jobs`, `events`, `workers` | create, claim, update, cancel_if_queued, request_cancel, heartbeat, stale_running, append, events | many processes; one statement is atomic, two are not |
| Job API, `jobs.py` `JobAPI`, `stop_engine` | none | submit, cancel, stop an engine | each call is a sequence of reads, kills and writes that anything may interleave |
| Job worker, `jobs.py` `JobWorker` | `running` (cancel events), `sandboxes` | claim, execute, monitor, cleanup, reap_stale, reattach_serving | crash at any step; a cancel seen late; handing a job over to the registry |
| Reconciler, `reconciler.py` | the engines of the tick in hand | tick: drop exited engines, stop expired ones, reap | works from what it read at the start of a tick; one per worker process |
| Scheduler, `scheduler.py` | none | plan, execute, sync_catalog, reconcile | plan from a stale catalog; two sandboxes, one registry entry per GPU group |
| Sandbox workers, `workers.py` | Modal's sandboxes | prepare_weights, start_engine, wait, stop_engine, stop_group | exit codes are the only record of why one ended |
| Engine agent, `engine_agent.py` | server processes, helper threads | launch all groups, READY, WRITEBACK, serve until the last server exits | partial failure of a group, shared compile cache |
| Registry and catalog, `catalog.py` | tables `engines`, `artifacts`, `artifact_locations`, `stats` | add/remove engine, register, validate, remove, remove_location, observe | read-modify-write across processes |
| Event stream, `api.py` `job_stream` | position of the reader | replay, follow, end | the status changes before its event is appended |
| Benchmarks, `bench.py`, `bench_runner.py` | trials, their sandboxes, a temporary volume; results on a volume and locally | run_matrix, run_trial, the runner in the sandbox, recover | cancel between and inside trials; a lost output stream; recovery cut off half way |
| Launch logs, `sglang_engine.py`, `dashboard.py` | none | marks, segments, waits, import breakdown | ranks that interleave, clocks and origins that differ |
| Requests and plans, `scheduler.py`, `common.py` | none | from_dict, group_layout, plan's estimates, sizes, cache keys | two computations of one rule that must agree |

They interact through the database (jobs, events, registry), through sandboxes (a kill by one
process ends the stream another one reads) and, inside a worker process, through the cancel event.

What makes each of them correct:

* **queue**: first come, first served; a job is run once, by one worker, or withdrawn; never both;
* **worker, API, reconciler together**: a sandbox that is known (its id is in the event log) is never
  forgotten while it runs; the registry never loses an engine that serves; the status a job ends
  with is the reason it ended; a serving engine is not killed by somebody's clean-up;
* **progress**: a job does not stay `running`, and a dead engine leaves the registry, as long as some
  worker process stays alive;
* **event stream**: a reader skips and repeats nothing, every end is announced, and a stream ends;
* **catalog**: a sync drops only what is gone, and what is gone is dropped; no GPU is claimed for
  weights that are not there; what several processes learn about a model is what was measured of it;
* **engine agent**: what it prints is true of its servers, it never leaves the scheduler waiting, and an
  engine is registered, and what it ran on called proven, only when every group has served;
* **benchmarks**: one sandbox at a time, nothing left behind, a row only for what was measured, and a
  cancel that ends the job;
* **functions**: rules that are written twice (the completeness of a checkpoint, the cache key, the
  marks of a launch) agree on every input.

## Modules

```
Sandboxes          Modal sandboxes and the agent in them          workers.py, engine_agent.py, Modal
  Store            jobs table, event-log ids, engine registry     store.py, catalog.py, jobs.py helpers
    JobWorker      slot and monitor threads                       jobs.py, scheduler.execute, workers.py
      Reconciler   recovery, ticks, reaping                       reconciler.py, jobs.py
    JobAPI         cancel and stop calls                          jobs.py, api.py
ControlPlane       all of them, crash and start, properties       control_plane.py
JobQueue           what the queue promises (abstract)
QueueRefinement    the jobs table as a JobQueue
MCQueue            bounds for checking the refinement
ControlPlaneProofs TLAPS proofs: TypeOK, ClaimedOnce,
                   UnregisteredIsDown
CauseProofs        TLAPS proofs: CausesKnown, EndStatusHasCause
HeldProofs         TLAPS proofs: ServingKilledForCause, NoLostSandbox
QueueProofs        TLAPS proof: ImplementsQueue

EventLog           append, events and streams of one job          store.py, api.py
  JobStory         its status and its events together             jobs.py, api.py
MCJobStory         bounds for JobStory
StoryProofs        TLAPS proofs: NoneSkipped, LostToOthers,
                   LogTypeOK, EndIsAnnounced

Catalog            the artifact catalog, volumes, repairs         catalog.py, scheduler.py
  EngineAgent      the agent's threads and its lines              engine_agent.py, sglang_engine.py
    StartEngine    plan and execute of a start job                scheduler.py, workers.py
MCStart            bounds for StartEngine
StartProofs        TLAPS proofs: GpuFindsWeights, SyncSparesCopies,
                   LinesAreTrue, ProvenHasServed

BenchRunner        one trial in its sandbox                       bench_runner.py
  Bench            a bench job: trials, cancel, crash             bench.py, jobs.py

HostPlan           requests, sizes, layouts, estimates            scheduler.py, common.py
  Measures         cache keys, what a launch teaches              catalog.py, scheduler.py, sglang_engine.py
StartupFiles       complete checkpoints, caches to save           scheduler.py, workers.py, sglang_engine.py
LaunchLog          marks, segments, waits, import times           sglang_engine.py, dashboard.py
Timings            learned timings of several processes           catalog.py
Results            copying finished trials                        bench.py
MCFunctions        inputs for the last six
FunctionProofs     TLAPS proofs: all their properties
```

`ControlPlane` EXTENDS `Reconciler` and `JobAPI`; each process's thread is one function of a state
record with a program counter (`slot[w]`, `rec[w]`, `call[c]`), so that any two threads interleave at
every call of `Store`, `Catalog` and Modal.

How the state of `ControlPlane` corresponds to the code:

* A **sandbox** is `<<job, role>>` and an **engine** `<<job, group>>`.  `execute` creates at most one
  prep and one engine sandbox, and `ClaimedOnce` says that a job is executed once, so the names are
  unique; nothing in the modelled code depends on the ids themselves.  (That the real engine ids have
  a resolution of one second is a hazard the name hides; see below.)
* `code[s]` is `unborn`, `running`, or Modal's exit code: 124 (lifetime cap), 137 (terminate), any
  other (of a prep sandbox, whose code nobody reads, any but 137).  Once set it stays, which is what makes
  "the exit code is authoritative" work.
* `servers` and `ready` are what the agent has reached; a server is up when its process and its
  sandbox are.
* `jobs[j].stale` stands for a heartbeat older than `STALE_AFTER_S`.  It can become true only when the
  job's worker is dead, or under the fault `lag`; a heartbeat of the owner resets it.
* `logged` is the set of ids in events of type `sandbox`, all the code ever reads back from the log.
* `registered` is the `engines` table.  `expired` are the jobs past `expires_at`.
* `slot[w].event` is the in-process cancel event; `slot[w].todo`/`spare` what
  `terminate_job_sandboxes` listed (sandboxes; those registered at that time).
* `rec[w].engs`/`late` are what a tick read at its start and has not handled; `rec[w].back` says
  whether `finish_engine_job` was called by the recovery or by a tick.
* `call[c]` is one cancel or stop request.  Both run `finish_engine_job` at the end.

Granularity.  A call of `Store` or `Catalog` is one statement or one transaction on an autocommit
connection, so one atomic step; `claim` is linearised at its row lock (a second claim skips the
locked row, as if it came later).  Reads whose result cannot be told apart from one read are merged:
the two lists of `terminate_job_sandboxes` (at most the engine sandbox of a job can be in the
registry, and its id was logged before it was registered), and `claim`'s read-back with the entry into
`running`.  The status read and the kill of `terminate_job_sandboxes` are one step: a kill in between
is the kill of an engine that was handed over at that very moment, and would show in the same way.
`self.sandboxes` is not a variable, because `emit` adds an id to it and to the log in one go.

A worker process has one slot (the default).  A restarted process is another worker constant: nothing
of the old one survives but the database.

Faults are a constant of `Store`, `Faults`, so that each run names those it allows: `stream` (any exception but
the sandbox's exit reaches `_execute`), `kill` (a terminate whose caller swallows exceptions does
nothing), `poll` (asking for an exit code raises), `lag` (late heartbeats), `tick` (an exception
abandons a tick between dropping an engine and closing its job), `api` (a request dies half way).
Crashes are limited to the workers in `Mortal`.  Lifetime cap, exits, failing servers and READY happen
at any time in every run.

The other state machines:

* **EventLog / JobStory** (one job).  `log` is the set of rows in `events`; `lock[p]` the lock of a
  process's `Store`; `pen[t]` where a thread is between its read of `MAX(seq)` and its insert, and how
  many clashes it has had; `reader[r]` a `job_stream` (its position, the batch in hand, what its client
  has received over all connections).  A thread has a program, `thread[t].todo`, of status updates and
  appends in the order `jobs.py` has them; `EndRun` chooses how a run ends and so what is left to do.
  `AppendRaises` takes the except clauses of `_execute` when inside the try block and ends the thread
  otherwise.  A worker that starts lists the serving jobs without an engine (`Reattach`) and writes
  `serving` once more, which it announces to nobody, on its way to the end it found (`AttachLost`);
  meanwhile others may have closed the job.  A crash removes a process's threads wherever they are.
* **Catalog / EngineAgent / StartEngine** (one model).  `arts` is what the catalog says of the weights
  and of the compile cache (absent, listed, proven); `weights` and `tar` what the two volumes hold (a
  checkpoint may be gone, partial with or without `config.json`, or complete); `sync` and `repair` the
  local variables of a `sync_catalog` and a `reconcile` under way.  A reconcile looks twice, for any bytes
  and for all files, then lists the tars; each call may go unanswered, which it takes for nothing there,
  or raise where the code lets it.  `agent[j]` is the agent of a start
  with its main thread, its restorer and a launch per group; `agent[j].out` the lines printed and not
  yet read by `wait`.  `job[j]` is where `execute` is, with what its last `plan` found.  A cancel is
  the step `Cancelled`, wherever `execute` or `wait` looks at it.  The catalog may
  be stale, and the volume half full, in the initial states: another process may have left them so.
* **Bench / BenchRunner**.  `at` is where the slot's thread is in `run_matrix`, `run_trial`,
  `_exec_text` and `_trial`, with `call.failing` for an exception that unwinds through the finally
  clauses; `box` the sandboxes, of which the worker knows `known`, the event log `logged`, and nobody
  `lost` (their first event could not be appended, or `terminate()` raised, which the code does not try
  again); `runner` the process in the GPU sandbox, with its sampler, the Redis and the server of a
  ModelExpress trial (`infra`) and its engines.  The terminations of the clean-up, of a cancel and of the
  reaper are taken to work here; what comes of one that does not is `ControlPlane`'s fault `kill`.
* **Timings**.  `own[m]` is the stats table of model `m`; `fold[w]` an `observe` between its read and
  its write; in between, each measurement is folded in at a step of its own (`ObserveFold`), which asks
  the table again whether the model has an estimate of its own.  Values are integers, so that an average of two keeps what the properties need.
* **Results**.  `volume[t]` and `local[t]` hold a trial's log and summary (none, empty, part, whole).

`HostPlan`, `Measures`, `StartupFiles` and `LaunchLog` have no state: they translate functions, and
`MCFunctions` gives them one input per initial state.  Sizes are in GiB and times in whole seconds;
names in a cache key are sequences of pieces, so that two names may run into each other as strings do.

## Properties

Control plane (`ControlPlane.tla`, `QueueRefinement.tla`):

* `TypeOK`: the type invariant.
* `ClaimedOnce`: whatever a slot runs is its own row and neither absent nor queued: no two slots run
  one job, and no cancel, reaper or late update puts a claimed job back.
* `NoLostSandbox`: a logged sandbox that runs has somebody who will end it (a slot, the reaper, a
  registry entry) or is about to exit.
* `UnregisteredIsDown`: an engine that leaves the registry was stopped or seen exited first.
* `EndStatusHasCause`: `timeout`, `stopped`, `failed`, `cancelled`, `interrupted` are what happened.  A
  job that `failed` had an engine that exited, or a download that did and never an engine.
* `ServingKilledForCause`: the sandbox of a serving job is terminated only on request or at the end of
  its lifetime, never by a clean-up or a reaper that decided earlier.
* `ImplementsQueue` (`QueueRefinement.tla`): the control plane refines `JobQueue`.  `waiting` is the
  queued rows in the order of `created`, `holder` the column `worker`, `withdrawn` the rows cancelled
  without a worker.

* `RunningEnds`, `ExitedIsDeregistered`: a running job ends; a dead engine leaves the registry.

Event log (`EventLog.tla`, `JobStory.tla`):

* `LogTypeOK`: the type invariant; in it, an append makes at most `Attempts` attempts.
* `NoneSkipped`: an event a reader has stepped over is one it has received, although numbers are handed
  out without a lock of the table.
* `LostToOthers`: an append loses a number only to another process; the lock keeps one's own away.
* `EndIsAnnounced`: a status that ends a stream is told in the log, or a thread is about to tell it or
  to replace it, or one died on the way.
* `StreamsEnd`: a client that keeps reading is told the end, although its connection may break.

Starting an engine (`Catalog.tla`, `EngineAgent.tla`, `StartEngine.tla`):

* `GpuFindsWeights`: under `late_claim` no GPU is claimed before the checkpoint is complete, unless
  somebody deletes it.
* `SyncSparesCopies`: a copy that was on its volume throughout a sync is not dropped by it, even if Modal
  does not answer.  `GoneIsForgotten`: a copy that is gone is forgotten or there again.
* `LinesAreTrue`: READY means that every group has served, SAVED that there was something to save under.
* `ProvenHasServed`: an artifact becomes proven in the catalog, and an engine registered, only at a step
  of a start all of whose groups have served; a compile cache only if that start restored it.
* `StartEnds`: every start ends, whichever thread of the agent fails, hangs back or prints nothing.

Benchmarks (`Bench.tla`, `BenchRunner.tla`, `Results.tla`):

* `Sequential`: no two sandboxes of a job at once.  `NothingLeft`: what is up, and which temporary
  volume is there, after each end of the job.  `RowsAreTrue`: a row counts only what was measured.
  `ServersStopped`: once it has begun a launch, the runner leaves no server, no sampler and nothing of
  ModelExpress.  Before that it may: `start_mx` (`mx_runner.py:34-55`) raises when a port does not open,
  at `bench_runner.py:198` and so before the try block at 218, and then the sampler, and what of
  `start_mx` was started, run on until the sandbox is terminated.  `CancelEnds`: a cancelled bench ends.
* `ShownTrialsAreWhole`: a trial with a local summary has its whole log, or it could not be fetched.

Functions (`MCFunctions.tla`, each a definition of the module it is about):

* `GroupsShareNothing`: GPU groups have GPUs and ports of their own within the host.
  `PrefetchHasRoom`: a host that prefetches has room for two copies.  `PlansAreKept`: `execute`
  and the agent's configuration decide about the download again, and do what the plan said, once, on the
  CPU or on the GPU box; what the two policies are predicted to take differs by nothing else.  (A
  request may name any policy: with one that is neither, nothing is planned and nothing downloaded.)
* `CompletenessAgrees`: the scheduler's and the prep worker's rule agree on every listing.
  `CachesAreSaved`: every new cache file is under exactly one saved root, and no root is skipped.
* `PageShowsTheMarks`: the page's marks are the agent's, for ranks that interleave in any order.
  `SegmentsAreTrue`: the segments of a group do not overlap, and the import times of a trace add up.
  `WaitsAreExcluded`: the wait for a host is counted once, whatever the clocks say, and a trial's
  download is billed when it was on the GPU box.
* `OwnMeasurements`: an estimate of a model lies within what was measured of it, unless two of its
  launches were folded in at once.  `EstimatesMeanIt`: a load is learned as what it was.
  `KeysAgree`: scheduler and agent compute one key, and two configurations share none.

## Runs

| Run | Instance | Result |
|---|---|---|
| `queue` | 2 jobs, 2 workers (one may crash), one cancel; faults stream, lag, api; no sandbox gets created | ClaimedOnce, ImplementsQueue hold; 0.5 M states |
| `handover` | 1 job with prep, 2 workers (one may crash), one cancel | NoLostSandbox, EndStatusHasCause, ServingKilledForCause, UnregisteredIsDown hold; 6.7 M states |
| `groups` | 1 job with 2 groups, 1 worker, 2 stop calls; faults api, tick | TypeOK, NoLostSandbox, UnregisteredIsDown hold; 1.6 M states |
| `liveness` | 1 job, 2 workers (one may crash); faults stream, poll, kill | RunningEnds, ExitedIsDeregistered hold; 0.3 M states |
| `story` | 1 job, 2 processes (the worker may crash), 3 threads, 1 stream; 2 attempts, batches of 2 | LogTypeOK, NoneSkipped, LostToOthers, EndIsAnnounced, StreamsEnd hold; 0.6 M states |
| `start` | 2 starts of a model, one per policy, as far as the launch; cancels, sync, reconcile, a deletion, Modal unreachable | GpuFindsWeights, SyncSparesCopies hold; 2.0 M states |
| `agent` | 1 `asap` start of 2 groups to its end; a cancel, sync, a deletion | LinesAreTrue, ProvenHasServed, StartEnds, GoneIsForgotten hold; 0.4 M states |
| `bench` | 2 trials, 3 download modes, 2 groups; cancel, crash, failing calls, lost streams | TypeOK, Sequential, NothingLeft, RowsAreTrue, ServersStopped, CancelEnds hold; 0.9 M states |
| `functions` | bounded inputs of each kind; 3 launches in 2 workers; 2 trials to recover | the twelve properties of the last three groups above hold; 69 k states |
| `laststop`, `lostcancel`, `stream` | the smallest instance that shows each finding | violated, see *Findings* |

Bounds.  Jobs interact only through the queue (a slot runs one, every other statement names its job),
so two jobs are enough for the queue and one for everything after the claim.  Two workers give every
pair of a slot, a monitor and two reconcilers, one dead and one alive; a third would repeat one of the
two roles.  A call is enumerated once each; two stop calls are the smallest number that can meet in
`stop_engine`.  `MCQueue` cuts behaviours off when a sandbox is created (the queue's rows do not change
from there in a way the mapping sees, and `TheTableIsAQueue` needs no such cut) and keeps mortal workers'
recovery at its first step.  Jobs are interchangeable there, and the run checks safety only.
In `story` the second process is the API and another worker in one: an append cares only whether the
other thread is in its own process.  Two attempts and batches of two rows are the smallest numbers at
which an append retries, one gives up, and a stream needs a second fetch.  The statuses a run may end
with are cut to one of each kind (`Endings`), as the code treats the others alike.  `start` stops at the
launch (`Preparing`), from where a start no longer changes the weights before another one's check;
`agent` takes over with one start, because agents share nothing but the catalog and the cache.  Two
trials are enough for what one may leave to the next.  `Tries` and `Reads` are 2 instead of 3 and 12:
one attempt that may be repeated and the last one.  In `functions` the inputs lie on both sides of every
comparison in the code: hosts of 1, 2 and 8 GPUs, checkpoints below and above half of their memory, all
subsets of the files of a checkpoint, all interleavings of two ranks that print what SGLang prints today,
what it printed before its two captures of CUDA graphs had names, or nothing of graphs.

Deadlock is checked in the runs of the control plane: a live worker's reconciler always has a next tick,
and each instance keeps at least one worker that does not crash.  The other runs model one job or one
call, which stops when it is over, so they check no deadlock; that they do not stop early is what
`StreamsEnd`, `StartEnds`, `GoneIsForgotten` and `CancelEnds` say.

Fairness.  `Fairness` of `ControlPlane` assumes that the threads of a live process run, that time passes
(a heartbeat nobody refreshes ages), that Modal enforces the lifetime cap, that an agent whose servers
are gone exits, and that an operator starts the workers that do not crash.  All are weak: each of these
steps stays possible until it is taken.  Nothing is assumed of users, of READY, of requests, or of a
mortal worker's start or crash.

`JobStory` assumes that a thread inside `append` gets on (it holds a lock streams need, and the loop is
bounded) and that a client keeps reading; not that runs end or that anybody appends.  `StartEngine`
assumes that the worker's, the agent's and Modal's threads get on, and of a sync that Modal answers now
and then: the answer to one query may be missing each time, so that is strong fairness of `SyncAsk`.
Launches and downloads may fail or succeed as they like, and nobody has to stop an engine.  `Bench`
assumes the slot's thread, the monitor and the cancelling call, and that a sandbox does not outlive its
timeout; the runner may hang for ever, which is why `CancelEnds` is worth checking.

## Findings

* `laststop` (`jobs.py:59`): two concurrent stops of the two engines of a sandbox both see a sibling
  and both kill only their own server.  The sandbox ends by itself when its agent notices, but both
  registry entries are gone, so no tick closes the job, which stays `serving` until a worker restarts
  and `reattach_serving` finds it, against "the sandbox
  (and the job) ends with the last one".
* `lostcancel` (`jobs.py:77`, `200-204`): a cancel that lands between the worker's last look at the
  cancel event and its update to `serving` returns without ending anything.
* `stream` (`api.py:198`): writers update the status first and append its event second; a stream that
  fetches in between finds nothing new and a final status, and ends without the last event.

Further behaviours the models show.  They have no run of their own; the first four are counterexamples
TLC gives in the instance of `liveness` (with one cancel for the last of them) to the definitions named,
which `ControlPlane.tla` keeps for that:

* one failed request for an exit code (`reconciler.py:34`, fault `poll`) unregisters a healthy engine and
  closes its job as `failed`, and the sandbox runs on, unknown to the control plane; `UnregisteredIsDown`
  is therefore claimed only without that fault;
* the worker's update to `serving` (`jobs.py:204`) overwrites the end a reconciler has written after the
  engine was registered (`TerminalIsFinal`);
* a crash between the creation of a sandbox and the event that names it (`scheduler.py:352-356`) leaves a
  sandbox nobody can find (`InterruptedHasNoSandbox`); `NoLostSandbox` is about logged sandboxes;
* an exception that races a cancel (`jobs.py:214-216`) skips `cleanup()` (`CancelledHasNoSandbox`);
* a launch that predicted a cache hit and finds no tar runs without `write_back`, so nobody writes
  the cache until a sync has dropped the copy from the catalog and another start missed it
  (`scheduler.py:343`);
* two engines that save one key share `path + ".tmp"` (`sglang_engine.py:95`), and two workers that
  start one policy in one second share an engine id (`jobs.py:236`): both are outside the models;
* a local `summary.json` cut off while `recover` writes it counts as copied (`bench.py:418`).

## Proofs

`ControlPlaneProofs` proves, for all values of the constants that satisfy the assumptions (`Groups` is
positive, `NoWorker` and `NoJob` are not members, `Cold`, `Faults`, `Mortal` are subsets, calls are of
one kind), all orders of steps and all faults:

* `TypeCorrect`: `Spec => []TypeOK`;
* `NeverClaimedTwice`: `Spec => []ClaimedOnce`.

`ClaimedOnce` is not inductive.  A status is decided at one step (an except clause, a poll) and
written at a later one, so that the write does not put a job back into the queue depends on what the
thread has carried since.  The inductive invariant `IInv` adds `SlotOK` (a slot that is closing a job
carries an end status; an idle one has no job; a registering one has groups left) and `RecOK` (the same
for a reconciler that is about to close a job).  The argument then splits in two: every step that is
not a claim changes no owner and queues no row (`JobsKept`) and gives no slot a new job (`SlotsKeep`),
and together these keep `ClaimedOnce` (`ClaimedOnceKept`); a claim takes a row from the queue, so no
slot can have it (`ClaimStep`).  `SlotStep`, `RecStep` and `CallStep` have one step per action.

Its second part proves, for the same constants and every fault but `poll` and `kill`:

* `UnregisteredWasDown`: `Answers => (Spec => UnregisteredIsDown)`.

Only the theorem has the hypothesis.  The invariant `UInv` holds under all faults: where it speaks of an
engine that is down because somebody polled or terminated it, it says `Stopped`, down if `Answers`, and
all the rest (what is READY, what has a result, what is registered) does not depend on it.
Whoever removes an engine has seen or made it down at an earlier step, so the property needs two things.
First, down is for ever (`ModalKept`): an exit code stays, and an agent starts its servers once, before
READY, which every registered engine has behind it (`ReadyInv`).  Second, every thread that is about to
remove an engine holds only engines that are down (`RecDown`, `CallDown`).  The one caller that goes by
the registry is a cancel that finds none of the job's engines registered; that stays so because only the
slot that runs a job registers its engines, and a job with a result is in no slot any more (`ResultInv`,
which needs `ClaimedOnce`).  With either fault the property is false.

`CauseProofs` proves, for the same constants and all faults, and then without `stream`, `poll` and `lag`:

* `CausesAreKnown`: `Spec => []CausesKnown`;
* `EndsForACause`: `NoLies => (Spec => []EndStatusHasCause)`.

With one of the three faults the code takes something for what it is not (a broken stream or an unanswered
poll for a failure, late heartbeats for a death), and `EndStatusHasCause` is false.  But each of them makes
one status doubtful and leaves the others alone: `timeout`, `stopped` and `cancelled` keep their meaning
whatever fails, `failed` unless an exception is not an exit (`Truthful`), `interrupted` unless a live
worker can look dead (`Punctual`).  `CausesKnown` says so, and `EndsForACause` is what it comes to when
neither happens (`NoLies`).  A status is decided several
steps before it is written, by a slot, a reconciler or a call.  The inductive invariant `CInv` says what
has already happened when one of them carries a status (`SlotCause`, `RecCause`), and `EndedKept` that it
cannot be undone: exit codes and requests stay, the dead stay dead.  That a stale running row belongs to a
dead worker (`RowOK`) needs that a queued row has no worker.  That a download failed is only a cause while no
engine can follow, so `failed` after a download says more (`GivenUp`): the engine does not exist, and the
slot that has the job, if there is one, is on its way out, from where no step leads back (`SlotsMove`).  A
reconciler that writes `failed` has seen the exit of the engine itself (`RecEnded`).
`RowMoves` says what a step may do to a row
(nothing, submit, claim, a status for a cause), so `SlotCauseStep`, `RecCauseStep` and `CallCauseStep`
have one step per action and `RowsKept` one per kind of move.

The first part of `HeldProofs` proves, for the same constants and every fault but `lag`:

* `KilledForCause`: `Punctual => (Spec => []ServingKilledForCause)`.

A kill is decided when the todo list is read and done later, so the property needs to know who may hold
such a list.  The invariant `KInv` says that an engine was terminated because somebody asked, or its job
has no result and no slot but one that gives it up (`JobKills`); that a reaper holds only jobs without a
result (`RecKills`); and that every list names sandboxes of its own job.  A job gets a result only from the
slot that has it, at `handover`; a slot that kills does not go back there, and a reaped job has no slot,
because its worker is dead (`OrphanFree`, the one place that needs `Punctual`).  So neither the clean-up
nor the reaper can meet a serving job, whatever `spare` says and whether or not `terminate` and `poll`
work.  With `lag` the property is false.

The second part proves, for every fault but `stream`, `poll`, `lag` and `kill`:

* `NothingIsLost`: `NoLies /\ Answers => (Spec => []NoLostSandbox)`.

It is not inductive: whether a sandbox is held changes at the step that gives its job an end status, and
what makes that right happened earlier, in another thread.  `HInv` says what each of them knows.  A job
that has no result and is not `running` has no logged sandbox up; one with a result has every engine
registered or down (`JobHolds`).  A slot that closes a job has killed what was logged, and what is up was
logged (`SlotHolds`); a reaper's list names what is up of its job, which has no slot (`RecHolds`); a
reconciler saw an exit code; a call terminated the sandbox, or its job had been handed over
(`CallHolds`).  `Effects` says what a step does to the jobs it is not about (no sandbox appears, none is
logged, a row gets an end status only from one who knows), so that each actor's lemma (`SlotHeldStep`,
`RecHeldStep`, `CallHeldStep`) looks at its own action and one lemma per part of `HInv` carries the others
over the step (`HeldFrom`).  The proof also uses what the four before it give of a step: `IInv`, `UInv`,
`CInv`, `KInv`.

The hypotheses are not there for the proofs' sake.  With the fault added to `Faults` in the run's
configuration, TLC refutes `UnregisteredIsDown` under `poll` and under `kill`; `EndStatusHasCause` under
`stream`, under `poll` and under `lag`; `ServingKilledForCause` under `lag`; `NoLostSandbox` under
`stream`, under `poll`, under `kill`, and under `lag` together with a crash.

`QueueProofs` proves, for the same constants and all faults:

* `TheTableIsAQueue`: `Spec => ImplementsQueue`.

Every step of the control plane is an `Enqueue`, `Take` or `Withdraw` of `JobQueue`, or leaves its variables
alone.  What the table does not show directly is which jobs count as withdrawn: `cancelled` without a
worker.  So `QueueInv` adds to `IInv` that whoever is about to write a status names a job somebody has
taken (`TakenInv`: a slot, a reconciler, a call that has read one), for then the write cannot look like a
withdrawal, and that `created` tells all rows apart and new rows come last (`OrderInv`).  The abstract
queue is a sequence and the table a set with a column, so the mapping is a CHOOSE; the lemmas about it
say that a finite set with an order is listed by exactly one sequence, by which adding the last, taking
the first and removing any of the rows become `Append`, `Tail` and `RemoveAt`.

The first part of `StoryProofs` proves, for any processes, threads, streams, attempts and batch sizes:

* `NothingIsSkipped`: `Spec => []NoneSkipped`;
* `OnlyOthersWin`: `Spec => []LostToOthers`;
* `LogKeepsItsTypes`: `Spec => []LogTypeOK`.

A reader steps over a number when it takes a later row, so nothing may be inserted below a row it has
seen.  An insert takes `MAX + 1`, read at some earlier moment; that nothing was inserted since is what
the primary key enforces, and is not in the state.  The inductive invariant `LogInv` therefore says that
the numbers in the log have no gap (`NoGap`) and are unique, that a pen's `top` is not above the log's
(`PensOK`: so a successful insert goes exactly on top), and that a reader's batch is what the log has
between its ends (`ReadersOK`).  `StepOfLog` classifies each action of `JobStory` as one of the few kinds
of `LogStep`, so that each conjunct has one step per kind and not one per action.

The second part proves, for any number of threads in each role:

* `EndsAnnounced`: `Spec => []EndIsAnnounced`.

A program is a sequence, so the invariant `Programs` says what programs there are: every update in a
program is followed at once by the append that announces it, and a thread with nothing to do has an empty
program.  Then a thread that has just updated the row is about to announce it, a thread that raises is
named in the property, and an append that succeeds leaves its row in the log for ever.

`StartProofs` proves, for any number of starts and GPU groups, any catalog and volume to begin with and
any repairs and deletions:

* `WeightsBeforeGpu`: `Spec => []GpuFindsWeights`;
* `CopiesSpared`: `Spec => []SyncSparesCopies`;
* `AgentsTellTheTruth`: `Spec => []LinesAreTrue`;
* `ValidatedHasServed`: `Spec => ProvenHasServed`.

A plan believes what the catalog says, and the catalog may be wrong: so `GpuFindsWeights` rests on what
can have written the entry a job finds when it plans a second time.  `check` has removed the entry, and from
then on every step that lists the weights does so for a complete checkpoint (`EntryIsTrue`): a prep
worker has just seen one, an engine has served from one, and a reconcile has looked (`RepairOK`, what it
carries between looking and writing).  A step that removes an entry or adds to a volume disturbs none of
that, so a claim made on the second plan is still right when the GPU is claimed.  `StartInv` is this, the
types, `SyncOK` (a sync has seen what it spares), and for each start what its agent may have printed
(`AgentOK`) and what its job may have read (`JobOK`).  Steps are classified before they are combined:
`AgentStep`, `JobStep` and `CatalogStep` have one step per action and say what each may do to the others
(`AgentMoves`, `VolumesGrow`, `JobMoves`, `EntriesTrue`), and `OthersKept` takes care of all other starts.

`BenchProofs` proves, for any number of trials, attempts and GPU groups and any download modes:

* `OneSandbox`: `Spec => []Sequential`;
* `NothingStays`: `Spec => []NothingLeft`;
* `RowsWereMeasured`: `Spec => []RowsAreTrue`;
* `RunnerStops`: `Spec => []ServersStopped`.

None of these is inductive.  That a creation never finds another sandbox needs where one may be up
(`PlaceOK`, `BoxesOK`): the prep sandbox while the volume is prepared, the GPU sandbox at the places
`Measuring`, and no other but one whose termination was lost.  A row is written from a summary the slot
heard, and a summary is printed by a runner that has come to its end (`WordOK`), so the runner's own order
(`RunnerOK`) comes in: off before it starts, nothing up once its finally clause is past, and no engine
before `start_mx` is.  A temporary
volume belongs to the trial under way (`VolumesOK`), so that the one thing to look at is the step that
ends the trial or the job.

`FunctionProofs` is about the parts `MCFunctions` checks over bounded inputs.  Two of them move, and are
systems of their own, for any workers, models, estimates and trials:

* `EstimatesAreMeasured`: `TimingsInit /\ [][TimingsNext]_timingVars => []OwnMeasurements`.  An `observe`
  writes what it computed from a read that may be out of date, so `FoldsTrue` says of every one under way
  what its reads are worth, `UpdatesTrue` what it has computed so far, and `RacesKnown` that two of one model are known as a race;
* `RecoveredTrialsAreWhole`: `ResultsInit /\ [][ResultsNext]_resultsVars => []ShownTrialsAreWhole`.  A
  summary is on the volume only if its log is whole (`SummaryIsLast`), and `PassOK` says of the trial in
  hand that its summary comes after its log, wherever the pass is cut off.

The others are about one input, whatever it is, and are theorems without steps:

* `OneRuleForCheckpoints` (`CompletenessAgrees`), `WaitsAreExcludedOnce` (`WaitsAreExcluded`),
  `PrefetchedFits` (`PrefetchHasRoom`), `GroupsHaveTheirOwn` (`GroupsShareNothing`),
  `LaunchesTeachTheirKind` (`EstimatesMeanIt`): sets and arithmetic;
* `PlansAreCarriedOut` (`PlansAreKept`), for any text of a policy: a plan is a set of steps and its cost a
  sum over it;
* `PageAgreesWithEngine` (`PageShowsTheMarks`): `parse_log` is a fold over the lines, and `IsMarks` says what
  it has after the first n of them, which is also what the engine takes from the log of the launch
  (the page also reads the graph lines of older SGLang, so a log may not have both kinds, `OneVersion`);
* `SegmentsAddUp` (`SegmentsAreTrue`): the segments of a group are at most four, and what their lengths
  add up to follows from the order of the marks; the parts of the import breakdown split a sum in two;
* `CachesAreWhole` (`CachesAreSaved`): `cache_roots` is a fold over the directories, and `RootsOf` says what
  the roots have to do with those seen so far;
* `KeysTellApart` and, of the configurations in use, `KeysAreIdentities` (`KeysAgree`): the parts of a key
  are hashed without separators, so two keys are equal when two concatenations are.  The name of the GPU
  shows where the version ends, its second piece which GPU it is, and after it comes one digit, so that
  each part can be found again (`PartsAreTheKeys`).

Their hypotheses say what an input is: `IsDict` and `IsLearned` that numbers are numbers and rates not
zero, `IsStart` and `IsLaunch` in which order things happen, `IsLaunchLog` that a rank loads before it
captures graphs, those for prefill before those for decode, that no rank begins or ends a phase after the
first request was done, and that the server reports itself after all of that and at most one line later
than the first request, `EndsBy` that no rank ends a phase after the first request was done, `OneVersion`
which lines a log has, `IsTrace` that there are finitely many rows, `IsListing` that files have paths, `IsConfiguration`
that the version of SGLang does not name a GPU, and that the GPU is one of the table and part of a host of
eight.  All inputs of
`functions` satisfy them.  A sum or a fold in the library is a recursive function over the subsets of a
set, so Part 4 proves what these are: that one exists (`FoldExists`), that a sum does not depend on the
order of its terms (`SumAnyOrder`, `SumOfOneMore`) and splits with its set (`SumOfParts`).  The induction
principles that takes are stated for a set of numbers, or of subsets (`NumbersInductively`,
`SubsetsInductively`), and follow from the fact that a well-founded relation has minimal elements.

Only model-checked: liveness (fairness and ENABLED are out of the prover's reach).

## Not modelled, and the plan

Not modelled at all: HTTP routing and the prompt proxy, which keep no state; pages, and the run lists and
comparison tables of the dashboard, which select and format; `db.py`, whose autocommit connections are
what makes a call one step; image definitions, import patches, documentation builders and experiments
(configuration or measurement without shared state).  Modelled in part:

* the control plane with one slot per worker, and without database errors in `update`, `claim` and the
  monitor thread (an `append` that raises is in `JobStory`);
* the prefetches of weights, libraries and imports, which only warm the page cache: their sizes and
  thread counts are in `HostPlan`, nothing waits for them;
* the measurements of a trial (serving load, correctness, storage probe) are steps that may raise;
* engine ids and temporary file names that clash, because engines and caches are named by their job and
  key; the `workers` table and `queue_position`, which are only shown.

What would come next: the copying of results for the dashboard (`sync_from_modal`), which skips a
directory an interrupted copy has left.
