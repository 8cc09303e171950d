# ForgeRun in TLA+

A TLA+ model of ForgeRun, the self-hosted CI runner in this repository: a webhook
becomes a job row, a scheduler hands the job to a runner, the runner builds it and
reports, and a reaper takes jobs back from runners that fell silent. The modules
are translated from the Go and SQL sources; TLC checks them on small instances and
TLAPS proves every safety property of the passing runs for every instance, some of them
under assumptions on faults or timeouts that are named below.

## The system

| Part | State | Operations | Talks to |
|---|---|---|---|
| models (`internal/models`) | none | the two transition tables, `CanTransitionTo`, `Terminal`, `CanRun` | used by all |
| store (`internal/store`, `migrations/0001_init.sql`) | tables `jobs`, `runners`, the index `jobs_active_unique` | `CreateJob`, `AssignJob`, `StartJob`, `CompleteJob`, `RequeueJob`, `CancelJob`, `RegisterRunner`, `Heartbeat`, `IdleRunners`, `ReapOfflineRunners`, logs | called by API and scheduler |
| queue (`internal/queue`) | Redis lists `pending`, `inflight`, one mailbox per runner | `Enqueue`, `Dequeue`, `Ack`, `Requeue`, `Recover`, `Dispatch`, `Receive` | called by API and scheduler |
| scheduler (`internal/scheduler`) | what its two goroutines hold | `Run`/`assign`, `reapLoop`, `CapabilityScheduler.Schedule` | store, queue |
| API (`internal/api`) | none beyond requests under way | webhook, cancel, start, result, heartbeat, poll, register, logs, reads | store, queue, GitHub |
| runner agent (`internal/runner`) | the active job and its `abandoned` flag | register, poll, execute, abandon, report, heartbeat loop, log shipping, workspace | API over HTTP, executor |
| workspace and executor (`internal/runner/workspace.go`, `internal/executor`) | directories and containers on the machine, both named after the job | `prepareWorkspace`, `Execute`, the deferred cleanups | git, Docker |
| GitHub (`internal/github`) | caches of installation ids and tokens | parse, verify, `SetStatus`, `CloneToken`, `send` with retries | GitHub over HTTP |
| migrations (`internal/store/migrate.go`, `migrations/`) | the schema and `schema_migrations` | `Migrate` at each start of the API, `Rollback` by hand | PostgreSQL |

The processes share no memory. They meet in PostgreSQL and Redis only, and no
operation spans both, so every job lives in up to four places at once: its row, a
list, a mailbox and a runner. What is hard:

- each store operation reads a row and writes it later, with only the status
  compared in between;
- every call of a handler is a separate step, and any of them can fail, or
  succeed and lose its answer, or be the last one before a crash;
- the reaper decides by silence, so it may be wrong about a runner that lives;
- a runner learns that it lost its job only from the answer to a heartbeat, so an
  old attempt and a new one may overlap, even on one machine;
- reports to GitHub and log requests are retried, given up and overtaken, and each
  has a time budget of its own;
- several copies of the API may start, migrate and mint tokens at once.

What makes each part correct: the store keeps rows that agree with each other and
moves a job only along its life; the queue never loses an id while somebody works
on it; the scheduler and the API leave no unfinished job without somebody who will
go on with it; the agent builds only what it still holds and reports only what it
built; its log reaches the table in order and whole; a machine keeps nothing of an
attempt that is over; GitHub is told the outcome, and the true one; a live runner is
never taken for a dead one, and a dead one is noticed in bounded time. `hazards` in `PROJECT.json` lists, line by line, where this can go wrong.

## Modules

| Module | Models |
|---|---|
| `Models` | statuses, `jobTransitions`, `runnerTransitions`, `CanRun` |
| `Store` | the tables and every operation on status, owner and runner rows; client processes with reads and writes apart |
| `JobLifecycle` | the abstract promise: one owner at a time, one end, one unfinished job per key |
| `RedisQueue` | the three kinds of list, one step per Redis command |
| `Faults` | which faults a run allows and how many |
| `SchedulerService` | `Service.Run`, `assign`, `requeue`, `reapLoop`; crash, restart, failing calls |
| `ApiServer` | the handlers that change state |
| `RunnerAgent` | `Agent.Run`, `execute`, `reportResult`, `heartbeatLoop`; death, silence, lost answers |
| `ForgeRun` | the composition, its fairness and the system properties |
| `LogStream` | the output of one job: `logStreamer`, the log requests, `handleJobLogs`, `AppendLogs` |
| `Host` | one machine with several agents and several attempts of one job: `prepareWorkspace`, `Execute`, cleanup |
| `HeartbeatTiming` | intervals, timeouts and tickers of heartbeat loop and reaper, in discrete time |
| `CapabilityScheduler` | `Schedule` and `lessRecentlyUsed` over the pool that `IdleRunners` returns |
| `CommitStatus` | `Server.report`, `SetStatus` and `send` for the jobs of one commit |
| `GitHubApp` | the installation and token caches of `AppClient`, with time |
| `Migrations` | `Migrate` by several instances, and `Rollback` |
| `StoreProofs`, `ForgeRunProofs`, `HeartbeatProofs`, `LogStreamProofs`, `HostProofs`, `MigrationsProofs`, `CapabilitySchedulerProofs`, `GitHubProofs` | the theorems about the module named (the last: `GitHubApp` and `CommitStatus`), with their inductive invariants |
| `MCStore`, `MCForgeRun`, `MCCommitStatus`, `MCCapabilityScheduler` | instances for TLC |

`SchedulerService` and `ApiServer` extend `Store`, `RedisQueue` and `Faults`;
`RunnerAgent` extends `ApiServer`, because its requests are served there;
`ForgeRun` extends all of them. `CommitStatus` extends `JobLifecycle`: its jobs move as
the abstract specification allows, which is what `Store` is proved to implement. The
other new modules look closely at one thing that `ForgeRun` abstracts: `HeartbeatTiming`
at the flag `fresh`, `CapabilityScheduler` at the open choice of `ChooseRunner`, `Host`
and `LogStream` at what happens during the one step `ExecutionEnds`. The comment before each action names the function
it models, and `map` in `PROJECT.json` gives the lines.

How the state corresponds to the code:

- A row that does not exist has status `"NONE"`. Ids are uuids and are not reused,
  so each job of `Jobs` is created at most once and each runner of `Runners`
  registers at most once; a restarted agent is another runner, as in the code.
- `call[c]` is the store operation that goroutine `c` has under way: the row it
  read (`seen`, `owner`) and what it still has to do. `Transition` is the first
  half of `StartJob`, `CompleteJob`, `RequeueJob` and `CancelJob`, which differ
  only in the target status; `TransitionUpdate`/`TransitionConflict` is the
  UPDATE; `ReleaseRunner` is the separate statement that three of them end with.
- The transaction of `AssignJob` is one step. Both rows are written or none is;
  the row locks it takes are held until commit, so no other writer of these rows
  runs in between, and no other operation reads the job and the runner together.
  `ReapOfflineRunners` is one SQL statement and one step.
- `fresh[r]` stands for `last_heartbeat`: true until the heartbeat timeout has
  passed since the last heartbeat. It is lowered by `FallsSilent`.
- The left end of a Redis list is the head of the sequence.
- `sched` and `reap` hold what the scheduler's goroutines hold between two calls.
  `Recover` keeps the snapshot of `LRANGE` in `sched.ids`. The reaper's map is a
  set, taken in any order.
- `hook[j]` is the webhook handler that created `j`, `req[r]` the start or result
  request of runner `r`, and one user cancels jobs. Every store or queue call in a
  handler is a step. Handlers pass `r.Context()` to the store, and it ends when the client
  hangs up: `RequestCut` cuts a runner's request short (`WebhookDies` and `CancelFails` a
  webhook and a cancel) between any two statements, so that a job may be finished and its
  runner not released.
- `agent[r].abandoned` is `activeJob.abandoned` (with the cancelled context),
  `hb[r]` the job named in a heartbeat whose answer is outstanding. The variable
  `verdicts` is history: it records how each build ended, for `SuccessWasEarned` and
  `ResultIsTheHolders`.
- `Orphans` leaves out the rows without a job, which `reapLoop` skips.
- `LogStream`: `stream[a]` is the `logStreamer` of attempt `a` (`buf`, `seq`, who holds
  `sendMu`) and how far its `execute` is; `posts` are the requests under way, also those
  the client no longer waits for. A line is the pair of its attempt and its number, and
  `ChunkCap` is the 1 MiB of one request in lines. `accepted` is history.
- `Host`: `dir` is the directory `forgerun-<id>` by what the git commands left in it,
  `container` the container of that name and the attempt that created it. The job's
  context is `live`, `cancelled` (heartbeat) or `expired` (deadline of `Execute`).
  `lease` and `final` are the control plane as far as one job can tell. `os.RemoveAll`
  takes any number of steps (`RemoveSome`): it may stop half way because the agent dies,
  or return an error, which `workspace.go` ignores and `execute` logs. `att[n].removal` is
  history: what the removal of attempt `n` left, the directory as it was or a part of it.
- `HeartbeatTiming`: `age` is `now() - last_heartbeat`; `left` is what remains of the
  loop's wait or of its request; time advances only when no timer is overrun. The
  timeouts of the runner and of the scheduler are two constants, because each process
  reads its own environment. A request arrives and is answered within `Delay`, or hangs
  for `HTTPTimeout`.
- `CapabilityScheduler`: times are modelled by their order (`recent`); a runner's id is
  a number. `waiting` and `passed` are history.
- `CommitStatus`: `reports` are the goroutines of `report`, with attempts made and time
  left, in units of five seconds; the backoff of at most one second is neglected against
  it. The two requests that fetch a token are one phase. `shown` is what GitHub shows for
  the commit, the last status it accepted.
- `GitHubApp`: both caches are read and written under the mutex, in steps of their own,
  and the requests to GitHub lie between them. `real` is the installation as GitHub has
  it. The unit of time is `Margin`, the two minutes.
- `Migrations`: files are numbered in filename order. The transaction of `runMigration`
  is one step; PostgreSQL's DDL is transactional. `Builds` and `Dropped` say which
  files need and which destroy the effect of another.

Left out of the modelled parts, because no property tells it apart: timestamps,
`attempts`, exit codes and messages, names and labels beyond the subset test,
clone tokens, log text. An agent that is shut down gracefully reports FAILED and then dies, which is
`ExecutionEnds` and `AgentDies`. While a failed checkout is reported the job is
still active in the code; an answer that arrives then changes nothing, so the
model clears it at once. The window between setting `abandoned` and cancelling
the context, or between the last git command and the return of
`prepareWorkspace`, is the same as the answer arriving just after the checkout.

## Faults and bounds

Eight kinds of fault (`Faults`), each an action guarded by `Fault(kind)`:

- `agent`: a runner dies; `network`: a live runner is silent for the whole timeout;
- `reply`: a runner's request or its answer is lost, or the connection breaks while the
  request is served (also a failed read after BRPOP);
- `client`: the user who cancels, or GitHub with a webhook, hangs up before the end;
- `scheduler`: the scheduler dies at a point in `CrashPoints` and restarts; the
  element `"reaping"` allows it while the reaper is at work too;
- `api`: the API dies between creating a job and enqueueing it;
- `redis`, `db`: a command or statement fails, or takes effect and its answer is
  lost, with the error branch of the code that follows.

The connection of a dead runner breaks sooner or later, so its request may be cut off at
any step and this counts as no further fault.

`MaxFaults` bounds the faults of a behaviour. `SlowRequests` says whether a request
or store operation may outlast the heartbeat timeout (seconds to minutes against
milliseconds); `Quiet` is that assumption, and a run that needs it says so below.

One job and two runners are enough for a job to change hands, which is where the
difficult interleavings are; two jobs add a runner that is given a second job and a
queue with an order. Two faults in `deaths` let both runners die, or a runner and the
scheduler, one after the other. In `MCStore` both jobs have the same key, so that the index matters, and two
clients race. Symmetry is used in `store` and `deaths`, which check no liveness.

The other modules have faults of their own, listed at their constants: lost and late
log requests, death and silence of a runner (`LogStream`); death, silence, a
container that is not removed, an `os.RemoveAll` that fails (`Host`); a hung heartbeat, death (`HeartbeatTiming`); 5xx, hung and refused
requests, a failed read (also because the runner hung up), death of the API
(`CommitStatus`); failing requests and a
reinstallation (`GitHubApp`); kills (`Migrations`); silence (`CapabilityScheduler`).
Two attempts and two lines are enough for a chunk to overtake another and for a second
counter to start; two attempts on a machine for one to find what the other left, or to
have it removed under its hands. Only with three can two containers be wanted at once
(the second attempt must first remove the directory of the first): the invariants of
`host` also pass with three attempts and two faults, in two minutes without the liveness
property, and the proofs cover any number of attempts.
The clocks of `HeartbeatTiming` run over the real defaults (45 s, 5 s, 40 s) in
seconds, and stop beyond every bound the properties name. Three runners
with two kinds of job let one be passed over by two others. Three instances and three
files with rollbacks of two let a file be undone, applied again and raced for. One job that is
taken back once has up to four reports under way; reports of two jobs only share what
GitHub shows last.

## Runs that pass

| Run | Instance | Shows |
|---|---|---|
| `store` | 2 jobs of one key, 2 runners, 2 clients, any statement may fail | types, `OwnerMatchesStatus`, `BusyIffHolding`, `OneActivePerKey`, `RunnerMovesAreLegal`, and that `Store` implements `JobLifecycle` |
| `deaths` | 2 jobs, 2 runners, two deaths of runners or the scheduler, prompt requests | every QUEUED, ASSIGNED and RUNNING job has somebody who will go on with it (`QueuedJobIsQueued`, `AssignedJobIsDelivered`, `RunningJobIsExecuted`); the job row and the runner row agree on the holder (`RowsAgree`); no live runner stays BUSY for nothing, but through the stale cancel of `silent_overwrite` (`BusyRunnerIsReleased`) |
| `progress` | 1 job, 2 runners, one death of a runner or the scheduler | every accepted job finishes, no two runners build it at once (`NoDoubleExecution`), and the recorded result is that of the runner the row names, not a former holder's (`ResultIsTheHolders`) |
| `all_faults` | 1 job, 2 runners, one fault of any kind at any point, slow requests | `SuccessWasEarned`, `WorkIsInflight`, `LostLeaseStopsWork`; and however the fault left the job behind, a user who asks again until it works gets it to a final status, and its commit can be built again (`CancelRescues`) |
| `log_stream` | 2 attempts, 2 runners, 2 lines each, two faults | lines of an attempt are stored in order and once (`LogsInOrder`); without a fault none is lost when `Close` has returned (`EveryLineIsKept`); `Close` returns (`CloseReturns`) |
| `host` | 2 attempts on a machine that may overlap, three faults: deaths, silences, failing removals | an attempt that begins when the earlier one is over sees none of its files, whatever a death or a refused removal left, unless a removal stopped half way (`NoStateCarriedOver`); when all have returned, a directory is left only by a removal that failed (`NoDirectoryLeft`); `OwnContainer`; a cancelled attempt stops in every phase (`AbandonedStops`) |
| `heartbeat` | defaults, in seconds, two faults of hung requests and death | a live runner none of whose heartbeats hung since the last answer is never OFFLINE (`LiveRunnerIsKept`), and its cancelled build is told within an idle interval (`CancelIsHeeded`); a silent one is noticed after at most one and a half timeouts (`SilenceIsSeen`) |
| `runner_choice` | 3 runners that come and go, jobs with and without a GPU | `Schedule` is the reference definition of least recently used for every order of the pool; nobody is passed over twice by the same runner; once runners stop falling silent, nobody waits in the pool for ever (`EveryRunnerWorks`) |
| `commit_status` | 1 job taken back at most once, any two faults | GitHub never shows an outcome that the job does not have (`NoFalseOutcome`); 5xx answers and a hung request, also together, do not keep the outcome from it (`OutcomeIsPosted`) |
| `github_app` | 2 goroutines, failing requests, a reinstallation | `TokenFits`, and `NeverExpiresInUse` for uses within the margin |
| `migrations` | 3 instances, 3 files, two rollbacks, two kills | `SchemaAgrees`, `AppliedInOrder`, `AppliedOnce`; of the instances that race, the losers exit, but one gets ready with the whole schema (`RaceHasAWinner`) |

Each module states the types of its variables. Those of `Store` and `HeartbeatTiming`
are checked by their runs and proved. `TypeOK` of `ForgeRun` is the theorem
`TypeCorrect`, and `HostTypeOK` and `ChoiceTypeOK` are parts of inductive invariants.
`LogTypeOK`, `StatusTypeOK` and `AppTypeOK` hold in the instances of the runs; the proofs
use the types they need.

`deaths` and `progress` leave out the crash points from which the code does not recover:
between LREM and LPUSH of `Requeue` (pc `push`, reproduced by `crash_in_requeue.cfg`),
after `AssignJob` committed and before the id is dispatched or given back (`dispatch`,
`undo`, `undoing`; `crash_before_dispatch.cfg`), and while the reaper is at work
(`crash_while_reaping.cfg`). `all_faults` takes all of these steps.
`BusyRunnerIsReleased` has one exception: once a runner was given up, the stale cancel of
`silent_overwrite` can leave another one BUSY for the cancelled job. `deaths` leaves out
the faults that skip the release of a live runner: with `"reply"`, `"client"` or `"db"`
added to its `FaultKinds`, TLC refutes `BusyRunnerIsReleased` (the connection breaks, or
the statement fails, between the UPDATE and `releaseRunner`). `all_faults` takes
those steps. `ResultIsTheHolders` and `OwnerBuilds`, that a runner builds an unfinished job
only while the row names it, also pass as invariants of `progress.cfg` with two faults of
the kinds `"agent"`, `"reply"`, `"client"`, `"scheduler"`, `"api"` and `"db"`. What refutes them is a silence,
after which a live runner builds on (`two_runners.cfg`), and a failing Redis command, for instance a
`Dispatch` whose LPUSH succeeded and whose EXPIRE failed is undone, and the runner receives
a job that is no longer its own. In `deaths` all runners
may end up dead, where the system has nothing left to do, so deadlock is not checked
there. Nor is it in the modules about one job, one commit or one call, which end with it;
in `HeartbeatTiming`, where time never stops, it is.

## Where the code disagrees with its words

`silent_overwrite` is a run of the project: it checks the sentence of
`docs/architecture.md:82-83`, "A job that changed underneath you produces an error, never
a silent overwrite", and TLC refutes it. The other configurations below are not runs;
each reproduces a behaviour that the passing runs exclude by their bounds or by the
wording of a property, with the sentence of the code or the docs it is at odds with.
`tlc -config <name>.cfg <module>` prints the counterexample.

| Configuration, module | Property and sentence | Counterexample |
|---|---|---|
| `enqueue_failure`, `MCForgeRun` | `QueuedJobIsQueued`; webhook.go:75-76: "rather than leaving a job that is QUEUED forever" | (one Redis error) `handleWebhook` creates the job, `Enqueue` fails, `CompleteJob(FAILED)` is refused because QUEUED to FAILED is not in `jobTransitions`, the error is discarded: QUEUED for ever, in no list |
| `two_runners`, `MCForgeRun` | `NoDoubleExecution`; architecture.md:68-70: "two runners never execute the same job" | (one silence) a live runner is reaped, its job requeued and started elsewhere before its next heartbeat is answered: two builds of one job |
| `crash_in_requeue`, `MCForgeRun` | `QueuedJobIsQueued`; architecture.md:73-74: "a scheduler crash between dequeue and assignment loses nothing" | (one scheduler crash) no runner is free, `Requeue` has removed the id from inflight, the process dies: the id is in neither list |
| `silent_overwrite`, `MCForgeRun` | `NoSilentOverwrite`; as above | (one dead runner) `CancelJob` reads ASSIGNED on r1; r1 is reaped, the job goes to r2 and is ASSIGNED again; the UPDATE matches and r1 is released instead of r2, which stays BUSY |
| `lease_unreadable`, `MCForgeRun` | `AbandonedJobHasMovedOn`; agent.go:309-311: "the job already has a terminal status (CANCELLED) or belongs to another runner" | (one database error) `leaseLost` cannot read the job and answers "lost"; the runner stops a build that is still its own and reports nothing |
| `crash_before_dispatch`, `MCForgeRun` | `AssignedJobIsDelivered`; queue.go:20-21: "a crashed consumer never loses the job" | (one scheduler crash) `AssignJob` has committed, `Dispatch` has not run; `Recover` puts the id back, `assign` drops it as "no longer queued": ASSIGNED to a live runner that never hears of it |
| `crash_while_reaping`, `MCForgeRun` | `RunningJobIsExecuted`; service.go:126: "what stops a crashed runner from stalling a job forever" | (a dead runner, then a scheduler crash) `ReapOfflineRunners` has cleared `current_job_id`, `RequeueJob` has not run: RUNNING, and no later reap finds it |
| `redelivery`, `MCForgeRun` | `NoSecondBuild`; webhook.go:64: "a retry must not start a second build" | (none) the index covers unfinished jobs: a delivery repeated after the first build starts a second one |
| `log_restart`, `LogStream` | `AcceptedIsStored`; store.go:209: "either the job is gone or this chunk already landed" | (one dead runner) `RequeueJob` keeps `log_seq`; chunk 1 of the second attempt is answered 202 and dropped |
| `log_stream` with `ChunkCap = 1`, `LogStream` | `EveryLineIsKept`; logstream.go:72: "the tail of a build is never lost" | (none) a chunk above the cap is refused and was already taken out of the buffer |
| `leftover_workspace`, `Host` | `FreshWorkspace`; workspace.go:23: "creates a fresh directory" | (one dead agent) the retry finds the old directory, `git remote add` fails, the job is FAILED |
| `container_leak`, `Host` | `NoContainerLeft`; docker.go:103: "Cleanup runs even if the job is cancelled or the context expired" | (none) the context ends during `ContainerCreate`: an error is returned, the container exists, the removal was not deferred yet |
| `workspace_removed`, `Host` | `WorkspaceStays`; security.md:89: "a fresh directory that is deleted when the job ends" | (one silence) the reaped agent's cleanup removes the directory in which another agent of the machine builds the job |
| `partial_removal`, `Host` | `NothingLeftToFind`; workspace.go:25-26: "a runner never carries repository state from one job to the next" | (a silence and a failed removal) the reaped agent's `os.RemoveAll` has taken `.git` and cannot take files the container wrote as root; the error is only logged; on the retry `git init` and `git remote add` succeed in the old directory, and the old files are built with |
| `hung_heartbeat`, `HeartbeatTiming` | `HungRunnerIsKept`; agent.go:132: "well inside the server's timeout" | (one hung request) 15 s of wait and 40 s of HTTP timeout are more than the 45 s of the reaper |
| `cancel_latency`, `HeartbeatTiming` | `CancelWithinBusyInterval`; agent.go:129-130: the shorter interval "bounds how long a cancelled build keeps burning CPU" | (none) a build that starts during an idle wait is told of its cancellation after that wait, not after a busy one |
| `idle_longest`, `MCCapabilityScheduler` | `IdleLongestWins`; scheduler.go:26: "we take the one idle the longest" | (none) `last_assigned_at` decides: a runner just back from a long build is preferred to one that has been idle since a short one |
| `status_order`, `MCCommitStatus` | `OutcomeIsShown`; reference.md:8-9: "reports the result back to GitHub" | (none) the goroutine of "pending" is slower than that of the outcome, and the commit stays pending |
| `github_app` with `MaxUse = 2`, `GitHubApp` | `NeverExpiresInUse`; app.go:95-96: "a token never expires mid-clone" | (none) a clone longer than two minutes outlives a token from the cache |
| `reinstalled`, `GitHubApp` | `SelfCorrects`; app.go:143-145: "self-corrects if an app is reinstalled" | (a reinstallation) the id in the cache is never dropped; minting fails until the API restarts |
| `rollback_race`, `Migrations` | `SchemaAgrees`; migrate.go:119-120: "the schema and schema_migrations can never disagree" | (none) a start between two steps of a rollback applies a file again, whose tables the next step drops while its row stays |

## Fairness

`Fairness` gives weak fairness to each goroutine that exists in the code: the
scheduler loop, the reaper, a cancel, each webhook handler, each request, each agent's
main loop and, separately, the sending and the answering of its heartbeats. None of
them waits for another without a timeout, so one that can go on does. A dead runner's
silence is fair, since time passes. A build whose context was cancelled ends (the
executor kills the container). There is no fairness for faults, pushes or cancels,
and none for a build that nobody stops: `LostLeaseStopsWork` therefore shows that the
lease, not the end of the build, stops it. `EveryJobFinishes` adds `BuildsEnd`, which
is the job timeout. `CancelRescues` adds `UserInsists`: somebody repeats the cancel.

In the other modules a goroutine that can go on does, and a request ends by the timeout
of its HTTP client: `LogFairness` for requests, `Close` and the client's timeout,
`HostSpec` for an attempt's own steps (not for the end of a build), `AppFairness` for
calls under way (used by `SelfCorrects` only), `StatusSpec` for the goroutines of `report`. `SelfCorrects` assumes
`KeepsAsking`, callers that go on asking. `MSpec` assumes that a running
instance goes on, and nothing of starts, restarts and rollbacks: `main.go:58-61` exits
without a retry and `docker-compose.yml:37-65` has no restart policy, so an instance that
lost the race stays down. `ChoiceSpec` assumes that builds end and
that jobs of every kind keep coming (strong fairness of `Choose`, because the pool may
be empty now and then). `HeartbeatTiming` has no fairness: its bounds are invariants.

## What is proved

`StoreProofs` proves, for any sets of jobs, runners and clients and any keys:

- `StoreTypeCorrect`, `OwnerCorrect`, `BusyCorrect`, `KeysCorrect`: the four
  invariants of the `store` run;
- `RunnerMovesCorrect`: the action property `RunnerMovesAreLegal`;
- `StoreImplementsLifecycle`: `StoreSpec` implements `JobLifecycle!Spec` with
  `owner` mapped to `runner_id`.

The only assumption used is `NullAssumption` (NULL is not an id). The inductive
invariant is `StoreInv`: the type invariant, the three invariants and
`CallsAreLegal`. The last is what makes it inductive. An UPDATE is written long after
the row was read and is guarded only by the status it saw; to know that the write is
a legal move one must know that the operation was checked against `jobTransitions`
for exactly that status, that only `AssignJob` writes ASSIGNED, and that an operation
that will release or assign names a runner. `OneActivePerKey` then follows because
no legal move leads from a finished status back to an active one (`TableFacts`),
although the index is consulted by `CreateJob` alone. There is one lemma per action
(or group of actions with the same effect); `UpdateMaps` and `AssignMaps` are the
step-by-step refinement.

`ForgeRunProofs` proves, of the whole system, for any jobs and runners:

- `TypeCorrect`, `SystemUsesStore` (`Spec => StoreSpec`, a lemma for the others),
  `SystemImplementsLifecycle`, with every kind of
  fault, any number of faults, and slow requests. Each step of the scheduler, the
  reaper, a handler or an agent is shown to be a step of `StoreNext` or to leave the
  tables alone (`StepUsesStore`), which needs only the types of what each goroutine
  holds (`TypeInv`). So all theorems of `StoreProofs` hold of the system;
- `InflightCorrect`: `WorkIsInflight`, with every kind of fault. It is inductive with
  the types; the argument is that only the scheduler's loop takes an id out of inflight,
  and the lemmas about lists say that LREM of one id keeps the others;
- `SuccessCorrect`: `SuccessWasEarned`, with every kind of fault. The invariant `Earned`
  follows the verdict from the build through the report, the request and the UPDATE;
- `QueuedCorrect`: `QueuedJobIsQueued`, assuming `QueueIsSafe`: no Redis command and no
  statement fails, the API does not die and GitHub does not hang up in a webhook, and the
  scheduler dies neither between LREM and
  LPUSH nor while it reaps. All other faults are allowed, in any number.
  `enqueue_failure.cfg` and `crash_in_requeue.cfg` show that the assumption is needed.
  The invariant `QueueInv` says where the id is at every moment
  (`OnItsWay`: in a list, or with the one goroutine that will push it), and that only the
  reaper's operation writes QUEUED;
- `RowsCorrect`, `ExecutionCorrect`, `BuilderCorrect`, `ResultCorrect`: `RowsAgree`,
  `NoDoubleExecution`, `OwnerBuilds` and `ResultIsTheHolders`, assuming `RowsAreSafe`: no
  Redis command and no statement fails, no live runner falls silent for the whole timeout
  and no request outlasts it, and the scheduler does not die while it reaps. Runners and
  the scheduler otherwise die anywhere, the API dies in a webhook, requests and answers are
  lost and connections break while a request is served, any number of times;
- `ReleaseCorrect`: `BusyRunnerIsReleased`, assuming `RowsAreSafe` and `ConnectionsHold`:
  the connection of a live runner or of a user does not break while its request is served.
  A dead runner's may: it is then for the reaper to take that runner out. The assumption
  is needed: see `deaths` with `"reply"` or `"client"` above. The proof shows for
  each step that a runner that is BUSY after it was spared by it or is about to be
  released (`StepSpares`, `StepRelease`);
- `DeliveryCorrect`, `RunningCorrect`: `AssignedJobIsDelivered` and
  `RunningJobIsExecuted`, assuming `LeasesAreSafe`: as `RowsAreSafe`, and no request or
  answer of a live runner is lost or cut off, and the scheduler does not die between `AssignJob` and `Dispatch`;
- `AbandonCorrect`: `AbandonedJobHasMovedOn`, an action property, assuming `RowsAreSafe`.
  No passing run checks this one: it is the sentence that `lease_unreadable.cfg` refutes
  with a database error, and the theorem says that it takes a failing statement or Redis
  command, a silence, a slow request or a crash of the reaper to break it;
- `TablesCorrect`: the invariants and the action property of the `store` run hold of the
  tables of the whole system, with every kind of fault;
- `LeaseCorrect`: `LiveLeaseStays`, assuming `RowsAreSafe`: no step takes a job from a live
  runner, nor moves it on but to its end by a cancel or by the runner's own request;
- `StaleCorrect`: `StaleOnlyAfterGivingUp`, assuming `RowsAreSafe`: an UPDATE writes over
  the lease of another runner than it read only if that runner was given up in between.
  It says exactly how far the overwrite of `silent_overwrite` can go;
- `OverwriteCorrect`: `NoSilentOverwrite`, the sentence that `silent_overwrite` refutes,
  assuming `RowsAreSafe` and that no runner dies. So the death of a runner is what it takes.

The theorems that assume `RowsAreSafe` or `LeasesAreSafe` share their invariants, each resting on the ones before it:

1. `Roles`: which goroutine asks what of the store (only the scheduler assigns, only the
   reaper requeues, requests only report), and that a silent runner is a dead one with
   no request left. Without it a stale UPDATE could be anybody's.
2. `RowsInv`: the job a runner holds names it; the reaper's orphans still name the
   runner it gave up; the owner an UPDATE has read is still the owner, or is OFFLINE
   (`OwnerWasRead`); a release under way is for the finished job the runner still holds,
   and is the only one (`ReleaseIsDue`, `ReleasedOnce`). `RowsAgree` alone is not
   inductive because a release, which is a statement of its own, might clear a runner
   that has been given the next job; these parts exclude it.
3. `NamesInv`: mailbox and build of a live runner, and what the scheduler is about to
   send it, are jobs that name it. It follows from `LeaseKept`: no step takes a job from a
   live runner, and only a cancel or the runner's own request moves it on.
4. `LeaseInv`: the phase of the agent, of its request and of its heartbeat fit the
   status of its job (`EachPhase`), a job is sent to a runner once (`SentOnce`), and
   every job that names a live runner is with the scheduler, in the mailbox or with the agent
   (`Attended`).
5. `AbandonInv`: a live runner abandons a job only after it has ended.

Four of the assumptions are shown to be needed: `two_runners.cfg` (a silence),
`crash_while_reaping.cfg`, `crash_before_dispatch.cfg` and `lease_unreadable.cfg` (a
failing statement) each drop one and refute a property.
`silent_overwrite` shows what remains possible under them: its stale UPDATE releases a
runner that is OFFLINE, and leaves another one BUSY, which is the exception in
`BusyRunnerIsReleased`.

The assumptions are `ClientsAssumption`, which says that goroutines, jobs and runners
have different names, and `FaultsAssumption`, the type of the bounds.

`HeartbeatProofs` proves, for any timeouts, delays, units and faults:

- `TimingTypes`: the type invariant;
- `SilenceSeen`: `SilenceIsSeen`, from the inductive invariant `SeenInTime`: a listed
  runner's silence plus the time to the next tick is at most the limit plus a period.
  The property itself is not inductive, since it says nothing of the ticker;
- `LiveRunnerKept`: `LiveRunnerIsKept` under one assumption, that the runner's idle wait
  plus two delays is within the scheduler's whole seconds (`Idle + 2 * Delay <= Limit`);
  a runner configured with a longer timeout than the scheduler's does not meet it. The
  invariant `AgeInLoop` bounds the row's age by what the loop has used up of its wait or
  of its request, as long as no heartbeat has hung since the last answer (the history
  flag `missed`); `hung_heartbeat.cfg` shows what that flag is for;
- `HungRunnerKept`: `HungRunnerIsKept`, the sentence that `hung_heartbeat.cfg` refutes,
  under the assumption that `MaxFaults` hung requests, each with one more idle wait and
  one HTTP timeout, still fit into the limit
  (`Idle + 2 * Delay + MaxFaults * (Idle + HTTPTimeout) <= Limit`). `HungInLoop` is
  `AgeInLoop` with the time lost to the faults so far. The defaults (45 s and 40 s) do not
  meet it for one hung request. The bound is tight on the instances tried: with an idle
  wait of 5, an HTTP timeout of 20, delays of 2 and two faults, TLC passes at a limit of 59
  and finds a counterexample at 58;
- `CancelHeeded`: `CancelIsHeeded`, from `HeedInLoop`, which does the same for the time
  since the cancel.

`TimingAssumption` gives the constants their types, `PeriodAssumption` keeps the
reaper's ticker from a period of 0, at which `time.NewTicker` panics.

The other modules, each for any number of everything it counts:

- `LogStreamProofs`: `LogsInOrderAlways`, with every fault. The invariant `OrderInv`
  orders buffer, requests under way and table: of two requests of an attempt the one with
  the higher number has the later lines, and what is stored comes before what may still
  be. `EveryLineIsKeptAlways` assumes that one request can carry what a build writes
  (`MaxLines <= ChunkCap`; `log_stream.cfg` with `ChunkCap = 1` shows why); its invariant `KeptInv` says that,
  while nothing has failed, one attempt has the job and its one request holds exactly the
  lines that are neither in the buffer nor in the table. `AcceptedIsStoredAlways` proves
  `AcceptedIsStored` when requests are lost and nothing else fails. `log_restart.cfg` shows
  that a second attempt breaks it; so does a request that the client gave up on and that
  the next one overtakes (`"late"`), which is then answered 202 and dropped. `SoleInv` says
  that there is one attempt with one request, numbered above everything stored.
- `HostProofs`: `OwnContainerAlways`, `DirectoryIsRemoved`, `NothingCarriedOver`, with
  every fault, failing and half-done removals included: the properties except only the
  directory of a removal that failed and the files that a removal left when it stopped
  half way (`partial_removal.cfg` shows why). `HostInv` adds that a
  directory is always owed a removal by some attempt (or by one that died, or whose removal
  failed), that attempts come in order, and that, as long as no removal stopped half way, whoever got
  past `git remote add` alone found a directory without files. `WorkspaceIsKept` proves
  `WorkspaceStays` when no live agent falls silent, with any deaths and failed removals;
  `workspace_removed.cfg` shows what a silence does. `HolderOnly` says that then only the
  attempt that has the job is at work on the machine.
- `MigrationsProofs`: `AppliedOnceAlways` without a condition; `SchemaAgreesAlways` and
  `AppliedInOrderAlways` assuming `~Overlap`, that no instance starts while a rollback
  runs (`rollback_race.cfg` shows why). `SchemaInv` says that what is applied and what is
  recorded is the same initial part of the files, and that a rollback undoes its end.
- `CapabilitySchedulerProofs`: `ChoiceCorrect` (`ChoiceIsLeastRecent`) and `LoadIsSpread`
  (`PassedOverOnce`), for any runners, labels and order of the pool. `Schedule` is a fold
  over a sequence; `FoldExists` and `LoopOfSchedule` show that it is the loop of the code,
  by an induction stated as a least counterexample among the lengths (`LeastElement`,
  `LoopInduction`), since the provers cannot instantiate the library's induction theorems.
  `LeastRecentIsAnOrder` says that `lessRecentlyUsed` orders the runners, never-assigned
  ones first and these by id; hence the loop's result does not depend on the order of the
  pool. The inductive invariant `ChoiceInv` adds `PickIsLeast`, that the chosen runner is
  still the least recently used of its pool when `AssignJob` commits, whatever came and
  went in between (only `AssignJob` writes `last_assigned_at`), and `PassedIsBehind`, that
  whoever passed a waiting runner was assigned later than it, which is why it cannot
  pass it again. `PassedOverOnce` alone is a bound on counters and says neither.
  `ChoiceAssumption` is used, by which NULL is neither an id nor a time.
- `GitHubProofs`: `TokenFitsAlways` without a condition; `NoTokenExpiresInUse`
  assuming `MaxUse <= Margin`. `AppInv` says that a cache entry's key is that of its
  token and that a token was given out with more than the margin left.
  `NoFalseOutcomeAlways`, of `CommitStatus`, with every fault: every report under way
  claims what is true, and a job that has ended never changes, so it stays true.

Only model-checked is liveness (`EveryJobFinishes`, `LostLeaseStopsWork`, `CancelRescues`,
`CloseReturns`, `AbandonedStops`, `RaceHasAWinner`, `OutcomeIsPosted`,
`EveryRunnerWorks`), which is outside the prover's reach.

## Not modelled

The parsing of webhooks and of `forgerun.yml`, signatures, keys and tokens: functions of
one request or file without state; that they may refuse is part of the guards. The
reads of the API, logging and wiring change nothing the properties speak of. Of the
configuration only the heartbeat timeout matters here. A graceful shutdown of the API
drains its requests, which is a death with nothing under way; one of an agent cancels the
context of log requests, which is a lost request in `LogStream`.

`DRAINING` is in the tables of `models` but no code sets it. A mailbox that expires
under a live runner would need an hour without a poll, and is left out; the race of
`ReapOfflineRunners` with a concurrent heartbeat inside one SQL statement (its CTE
reads a snapshot) is left out too. `Limit` in `HeartbeatTiming` says how a timeout below
one second behaves, but no run has one: every runner would be reaped at each tick.

## Plan

1. Done: `Models`, `Store`, `JobLifecycle` and its proofs; `RedisQueue`,
   `SchedulerService`, `ApiServer`, `RunnerAgent`, `ForgeRun` and their runs.
2. Done: `LogStream`, `Host`, `HeartbeatTiming` and its proofs, `CapabilityScheduler`,
   `CommitStatus`, `GitHubApp`, `Migrations`; the crash points and faults that were only
   listed before, as steps of `all_faults` or configurations of `ForgeRun`.
3. Done: `ForgeRun` implements `StoreSpec`, and with it the theorems of `StoreProofs`; the
   safety properties of the queue and of results; the proofs of `LogStream`, `Host`,
   `Migrations`, `GitHubApp` and `CommitStatus`.
4. Done: the properties of a job's lease, from invariants about its row, its runner's
   row, the mailbox, the request and the agent.
5. Done: the choice of a runner, from the loop to the fairness of its result; theorems
   that delimit the counterexamples of `silent_overwrite`, `hung_heartbeat`, `log_restart`
   and `workspace_removed`.
6. Left: liveness stays with TLC. Weaker assumptions than `RowsAreSafe` and
   `LeasesAreSafe` would give stronger theorems, up to the counterexamples above.
