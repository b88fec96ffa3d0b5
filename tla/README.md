# Verification of the distributed task platform

TLA+ modules, TLC configurations and TLAPS proofs for the platform in this
repository: a job scheduler made of an API service, worker processes and
scheduler processes that share a Postgres database and a Redis server, with a
dashboard, a workflow builder and a lab in front of it. Paths
are relative to the repository's root; "version" is the column `Job.version`.

Contents: 1 inventory of the system, 2 what is modelled and how it
corresponds to the code, 3 the runs, 4 fairness, 5 the proofs, 6 where the code
and its documents disagree, 7 what is not modelled, 8 the plan.

## 1. Inventory

### The job path (services/, shared/)

| component | code | state | operations |
|---|---|---|---|
| job store | `api-service/prisma/schema.prisma`, `shared/constants/redis.ts`, `*/queue*.ts` | `Job` rows (`status, version, workerId, retryCount, progress, nextRetryAt, createdAt, updatedAt`), `Result` rows (unique on `jobId`), five Redis lists workers pop from, `processing-queue` | unconditional update by id, conditional `updateMany`, `LPUSH`, `RPOPLPUSH`, `LREM` |
| API job requests | `api-service/src/services/job.service.ts`, `repositories/job.repository.ts` | none of its own; locals of a handler across awaits | createJob with its rollback, cancelJob, retryJob, idempotent create |
| worker loops | `worker-service/src/worker.ts`, `queue/consumer.ts`, `processors/` | `WORKER_CONCURRENCY` loops per process, all with the one `WORKER_ID` of the process; locals `job`, `currentVersion` | waitForJob, claim, process, complete, catch block with retry or failure |
| scheduler sweeps | `scheduler-service/src/scheduler.ts`, `services/{retry,recovery,pending-reconciler}.service.ts` | the snapshot a query returned | processRetries, processPendingJobs, processStaleQueuedJobs, recoverProcessingQueue, recoverWorkerJobs |
| worker registry and monitor | `worker-service/src/heartbeat.ts`, `services/worker.service.ts`, `scheduler-service/src/worker-monitor.ts` | `worker:<id>` keys with a 30 s TTL, set `workers:active`, strikes per worker in the scheduler's memory | register, heartbeat, load up/down, monitor round, removeWorker |
| leader election | `scheduler-service/src/leader-election/leader.service.ts` | one Redis key with a 15 s TTL | acquire, isLeader, renew, release |
| job events | `*/event.service.ts`, `api-service/src/routes/events.route.ts` | `JobEvent` rows, a pub/sub channel, one subscriber per API process, the streams of the dashboard | insert, PUBLISH, connect once at boot, broadcast |
| webhook dispatcher | `api-service/src/integration/` | the deliveries under way in each API process | handleEvent with two reads, post, retry with a growing delay |
| rate limiter | `api-service/src/middleware/` | one Redis counter per bucket and user | INCR, EXPIRE, TTL, decision; open on an exception |
| idempotent create and reads | `api-service/src/services/job.service.ts` | locals of a handler; the unique column `idempotencyKey` | look-up, insert, answer after P2002; four kinds of reads; the process may die between any two calls |
| accounts | `api-service/src/services/auth.service.ts`, the register and login pages | `User` rows, unique on `email` | register (look-up, hash, insert), login, the login that follows a registration |

Workers, schedulers and the API interact through the store alone: none calls
another. The lab service and the dashboard call the API over HTTP; the dispatcher
calls whoever left a callback. A job's life is

    API: INSERT PENDING -> UPDATE QUEUED -> LPUSH
    worker: RPOPLPUSH to processing-queue -> SELECT -> claim (QUEUED -> RUNNING)
            -> handler -> transaction (COMPLETED + Result) -> LREM
            or, on an exception, SELECT again -> RETRYING / FAILED -> LREM
    scheduler: RETRYING -> QUEUED + LPUSH;  LPUSH + PENDING -> QUEUED;
            QUEUED in no list -> LPUSH again;  processing-queue -> LPUSH + LREM;
            RUNNING under a dead worker -> RETRYING

and every arrow is a separate call to Postgres or Redis, so anything else may
happen in between, and each call may throw with or without having taken effect.

### The rest of the repository

| component | code | state and operations | what makes it correct |
|---|---|---|---|
| workflow compiler | `runtime/workflow/compilation-service.ts` | pure: diagnostics, translation and hash of a task graph | succeeds exactly for closed, acyclic graphs without repeated ids; warns of exactly the unreachable tasks |
| plugin host | `runtime/plugins/`, `runtime/registry/handler-registry.ts` | the map of loaded plugins, the registry of handlers, the locals of each loadAll | dependencies before dependants, also after a call that stopped half way |
| workflow builder | `apps/dashboard/src/builder/`, `src/components/Builder/`, `src/app/api/` | nodes, edges, clipboard, undo and redo stacks (50), the compile and run buttons under way, the maps of the three routes | undo is the inverse of do, ids stay unique, an export survives its import, only valid definitions are run |
| lab service | `services/lab-service` | runs with their scenario, the open streams | a verdict follows from what became of the jobs; every run ends |
| dashboard pages | `apps/dashboard/src/app/{jobs/[id],lab}`, `src/hooks`, `src/lib/auth.tsx` | the page's state, an EventSource, requests under way, `localStorage` | what is shown was once true, of the run it is shown for |
| expressions, templates, scripting, plugins | `runtime/expressions`, `runtime/template`, `runtime/scripting`, `plugins/` | pure data | not protocol state |
| metrics, health, lists | `api-service/src/services/metrics.service.ts`, the other pages | reads, rendering | no state |

### What is hard here

* **Unfenced writers.** The completion compares version, workerId and status;
  the catch block compares workerId only in effect (it takes over the version
  it has just read, `worker.ts:168`); the API's `updateStatus` and `retryJob`
  compare nothing.
* **One WORKER_ID for several loops**, so the workerId column does not tell
  attempts apart.
* **Two stores.** A row and a list are never updated together: each order of
  the two calls leaves a different debris when the second fails, and each
  sweep exists to clean up one kind of it.
* **Snapshots.** A sweep works through what its query returned while workers,
  requests and another scheduler go on.
* **Leases looked at once.** `runScheduler` renews before a sweep and never
  inside it.
* **False suspicion.** A slow worker is declared dead and goes on running.
* **Check and insert apart.** createJob and register look for a row, wait, and
  insert; the unique index decides, and what the loser is told differs.
* **Fire and forget.** A publish nobody waits for, to whoever listens now: a
  dispatcher that boots, a stream that reconnects and a page that is about to
  register miss it, and each has another way to learn of it, or none.
* **Answers that overtake each other.** The dashboard fetches and listens at
  once, and leaves requests under way when the user moves on.
* **Commands with memory.** An edit command of the builder collects private
  fields when it is executed, and executes again on redo, on another canvas.

The hazards, each at its line, are in `PROJECT.json`.

## 2. The modules

| module | models | state |
|---|---|---|
| `JobStore` | the rows, the Result table, the Redis lists | `job`, `result`, `ready`, `processing`, `failures` |
| `WorkerLoops` | `processOneJob` and the process that may die | `loop[l]`: program counter, job and `currentVersion` of each loop |
| `SchedulerSweeps` | the body of `runScheduler` | `sched[s]`: phase, snapshot, job in hand and its version |
| `ApiRequests` | createJob, cancelJob, retryJob | `create[j]`, `request[r]` |
| `JobPlatform` | the composition, time, fairness, the properties | all of the above |
| `JobLifecycle` | abstract specification: the life of a job nobody cancels; which of its edges are documented, and where, is in section 6 | `status`, `accepted` |
| `JobPlatform_proofs` | typing, the inductive invariant, the retry budget, no stranded jobs, the refinement of `JobLifecycle` | |
| `MCJobPlatform` | values of the constants for the runs of `JobPlatform` | |
| `Faults` | counted failures of the cluster modules | `failures` |
| `LeaderLease` | the leader's key and the loop of `runScheduler` around it | `lease`, `at[s]` |
| `WorkerRegistry` | registration, heartbeats and shutdown of workers | `key`, `active`, `beat[w]`, `stop[w]`, `starts[w]`, `busy`, `orphaned` |
| `ClusterMonitor` | `monitorWorkers`, composed with both; time, fairness, the properties | `mon[s]`, `strikes[s]` and the above |
| `ClusterMonitor_proofs` | typing, mutual exclusion, accuracy | |
| `RateLimiter` | authMiddleware and the rate limiter in front of a handler | `gate[r]`, `counter[b]` |
| `JobEvents` | JobEvent rows, PUBLISH, the subscriber of an API process | `events`, `outbox`, `subscriber[s]` |
| `JobRequests` | createJob with an idempotency key, the reads, and what they see of workers, sweeps and users who cancel or retry | `row[j]`, `closing[j]`, `asked[j]`, `handler[r]` |
| `WebhookDispatcher` | handleEvent, payload, posts and retries; death and boot of API processes | `called`, `listening[s]`, `deliveries`, `received` |
| `AccountRequests` | register, login, the register page | `user[e]`, `form[r]` |
| `ApiEdge` | composition of the five, fairness, the properties | all of the above |
| `ApiEdge_proofs` | the invariants of the limiter, of rows and answers, of callbacks and of accounts; nine theorems | |
| `MCApiEdge` | values for `edge` | |
| `WorkflowCompiler` | `CompilationService` as operators, and its reference | |
| `WorkflowAdapter` | serialize, deserialize, layout and validation of a canvas | |
| `BuilderCommands` | the edit commands and the history | |
| `Builder` | the canvas, panel, toolbar and its routes; the properties | `store`, `history`, `requests`, `compiled`, `executions`, ... |
| `PluginHost` | PluginDAG, PluginManager, HandlerRegistry | `manager`, `calls[c]` |
| `DataFacts` | lemmas about numbers, loops, recursions and sequences for the next three | |
| `Builder_proofs` | the search, the worklist and the compiler on every definition; the shape of a canvas, runs and imports; the layout; the types of the values | |
| `BuilderHistory_proofs` | undo and redo: the age of the ids, the tale of the history | |
| `PluginHost_proofs` | the visits of resolveOrder, the invariant of the host | |
| `MCBuilder` | values for `builder`; a behaviour is of the builder or of the plugin host | |
| `JobFeed` | jobs and their events as the console sees them | `job[j]`, `held[j]`, `owed[j]`, `outbox` |
| `LabService` | runs of the four scenarios, their streams | `runs[r]`, `clients`, `wire[r]` |
| `JobPage` | the page of a job with its stream and requests | `view` |
| `LabPage` | the lab page with its stored run, stream and requests | `lab`, `saved`, `displaced` |
| `Console` | composition of the four with the session; fairness, the properties | and `session`, `path` |
| `Console_proofs` | the invariant of jobs, runs and pages and five theorems | |
| `MCConsole` | values for `console` | |

There are five compositions. `JobPlatform` follows the rows and lists through
workers, schedulers and API, and takes from failure detection only two facts:
with timely workers nobody is suspected who lives, and a dead worker is suspected
in the end. `ClusterMonitor` is where these two come from: its
`NoFalseRecovery` and `DeadWorkersRecovered` are the same facts, over the Redis keys and the
monitor's rounds, with the rows of a worker reduced to "a loop works on one"
(`busy`) and "its loop died" (`orphaned`). The atomic `RecoverJobs` there is the
phase `recoverWorkerJobs` of `SchedulerSweeps`, call by call.

`ApiEdge` and `Console` look at the platform from outside. There a job is its status
and the number of its run, and any step of a worker or a scheduler that a client can
tell from another is one action (`PlatformStep` of `JobRequests`, `JobStep` of
`JobFeed`). `PlatformStep` has no versions, so a conditional update may come whenever the
status and the worker it asks for are there, and every unconditional update may come late:
createJob's mark, a cancel or a retry whose look at the status is long past
(`asked[j]`). `Builder`
and `PluginHost` touch neither the store nor each other; they are checked in one run
as they share the runtime library and nothing else.

**One action per awaited call.** An action begins where the code resumes after
an await and ends with the next call to Postgres or Redis, so every
interleaving of the services at their awaits is an interleaving of actions.
`loop[l].pc` says before which call a loop is: `popped` is before
`findUnique` (`worker.ts:42`), `found` before the claim (`:66`), `running` is
the handler up to the completion transaction (`:100`), `completed` before the
`LREM` (`:141`), `caught` before the catch block's `findUnique` (`:158`),
`retrying` and `failing` before its updates (`:177`, `:216`), `released`
before its `LREM`. `sched[s].pc` does the same for the five phases, `create[j]`
for createJob. A module's comments list the values.

**Failures.** A call that throws is an action of its own (`...Throws`), with
both outcomes, effect or none, where it is an update. Inside the try block it
leads to the catch block, inside the catch block out of `processOneJob`
(`runWorkerLoop` catches it and takes the next job), inside a sweep to what the
nearest catch does. The exceptions of calls that are otherwise left out
(JobEvent rows, load counters) are kept: they throw at the place of the
neighbouring modelled call. `Crash(w)` stops every loop of a process; a
restarted process has a fresh random WORKER_ID and is another member of
`Workers`; what happens if the environment gives it the old one is the run
`restarted` of `ClusterMonitor`. `FailureModes` and `MaxFailures` say which failures an instance has
and how many.

**Data left out.** Payload, priority (the five lists are one counter per job,
as which job is popped first is nothing the properties tell apart), error texts,
timestamps. The progress column is kept with three values: a replaced attempt
may overwrite it by id.

**Time.** The code compares timestamps with thresholds: 10 s since `createdAt`
(PENDING), 10 s or 30 s since `updatedAt` (QUEUED), `nextRetryAt`, three
missed heartbeats. The model has no clock. A query takes the set `old` of jobs
past the threshold, any subset the environment likes, so a threshold may run
out for any job at any moment. `Timely` says which actors are assumed to be
done with their step before it does: `"api"` (a create request is over before
the grace period), `"workers"` (an id is popped, read and claimed before its
row counts as stale, and a worker that lives is not suspected), `"schedulers"`
(the push that follows an update comes before the row counts as stale). With
`Timely = {}` no relation between clocks and steps is assumed at all; the
safety theorems hold there.

**Keys with a TTL** (`ClusterMonitor`). A key may expire at any step, except
that the key of a timely worker (`"workers" \in Timely`) does not while its process
is up: it is renewed every 5 s and lives 30 s (`worker.service.ts:4`,
`heartbeat.ts:20`). A timely worker also registers, SADD then SET, within
one poll interval of a scheduler (5 s), so a scheduler does not start its next
round while a registration is open: `PollInterval`. The key of a timely scheduler
does not expire between the SET that took it and the renewal, nor between the
renewal and the end of the round (15 s each).

**The monitor's process memory.** `missedHeartbeats` belongs to a scheduler
process, not to a term of leadership: `strikes[s]` survives the loss of the lease and is
cleared by a crash or restart. `mon[s]` holds the locals of `monitorWorkers`:
the snapshot of SMEMBERS and the worker in hand.

**The API edge.** `gate[r].at` says before which call of the middleware a request is: `limiter`
before INCR (`rate-limiter.middleware.ts:36`), `expire` before EXPIRE, `ttl` before TTL and the
decision. Then it is `counted` (let in), `refused` (429), `unauthorized` (401), `open`: a call
threw and the request was let in uncounted, or `lost`: the API process died. `handler[r].at` is
the same for the handlers of `job.service.ts`, `form[r].at` for `auth.service.ts`.
`counter[b].window` numbers the lives of a Redis key, so that requests counted in different
windows can be told apart. A delivery is a record [server, event, at, attempt, body] in the set
`deliveries`. A death (`Death(s)`) takes the deliveries of the process with it, and the requests
it serves, wherever they are: what they have written stays, and no answer comes. What the
receiver does with a post is free: take it, refuse it, or take it and lose the answer. A
password is a value that is equal to another or not; a job's `reason` and `result` are the
number of the run they are of.

**The builder.** JavaScript handlers run to completion, so an action is a handler.
`Dispatch(c)` is `executeCommand` of `builder-store.ts`: the command is executed, pushed
and the redo stack emptied in one step. `Execute` answers the command with the private
fields it has collected, as `redo` executes the same object again. Ids are pairs of
`Date.now()` and an index: `clock` moves with each operation that reads it, so the
assumption is that two operations of a user are a millisecond apart. The two
toolbar buttons that await a server take the canvas of the click and go on in steps of
their own (`requests`). `WorkflowCompiler` and `WorkflowAdapter` are operators
that translate the algorithms as they are written, the search for cycles with its
colours and its early return, Kahn's layers with their decrement below zero; the
properties compare them with definitions that contain no search (`Cyclic`, `Leads`,
`Resolvable`).

**The console.** A page that is left loses its state and the answers under way to it.
An effect runs some time after the state it depends on was set: `view.latest` is the
event an effect is due for, and a second event that arrives before replaces it, which
is what `sseEvents[0]` does. A request under way is a member of `view.calls`,
`lab.gets` or `lab.posts` from the click to the arrival, with its answer from the
moment the server reads. `held[j]` (all statuses job j ever had) and
`displaced` (an answer to a request for one run was shown in the place of another) are
ghosts: no action depends on them. The clock of a scenario's deadline is free:
a pass may be the last one at any time.

## 3. The runs

The runs of `JobPlatform` have one job. Actors never wait for one another across jobs: each
action touches the row, the counters and the snapshot entry of a single job, and
the properties speak of one job at a time, except that a loop busy with another
job is slow for this one, and loops may be arbitrarily slow as they are. The
proofs, where they exist, cover any set of jobs.

| run | instance | checked | shows |
|---|---|---|---|
| `races` | 1 worker with 2 loops (shared WORKER_ID), 1 scheduler, a create and a cancel request, one database call that throws, nobody timely, MaxVersion 3; 4.0 M states | `TypeOK`, `VersionsFenced`, `RetryBudget`, `ResultFromLatestAttempt`, `CompletionStands` | versions tell attempts apart however late anybody is; a result is the latest attempt's; no error after the commit undoes a completion |
| `recovery` | 2 workers, 1 scheduler, a manual retry, any 1 failure (database, Redis, API death, scheduler death, worker death), everybody timely, `FairSpec`; 0.1 M states | `NoJobStranded`, `ImplementsLifecycle`, `EventuallyFinished` | no failure leaves a row that no recovery path looks at; the life of the job is that of `JobLifecycle` and its result is accepted once; every stored job ends, and again after a manual retry, unless every worker died |
| `schedulers` | 2 schedulers inside sweeps, 1 loop, 1 failure, workers and schedulers of any speed; 0.4 M states | `DispatchedOnce` | two believers in their own leadership never carry the same version of a job to the lists |
| `late_cancel` | 1 loop, a cancel request, no failure | `CompletedIsFinal` (violated) | see section 6 |
| `shared_id` | 2 loops of one process, no failure, slow worker | `ZombieCannotMoveJob` (violated) | see section 6 |
| `stranded` | 1 loop, a call of the catch block throws | `NoJobStranded` (violated) | see section 6 |
| `registry` | 1 worker (1 start), 2 schedulers, threshold 3, any 3 faults (crashes, scheduler shutdowns, calls that throw), both sides timely, `FairSpec`; 35 thousand states | `TypeOK`, `OneCoordinator`, `NoFalseRecovery`, `DeadWorkersRecovered`, `DeadWorkersForgotten` | one coordinator at a time; no job is taken from a live worker; every dead worker is recovered and then forgotten, whatever fails on the way |
| `restarted` | the same with 2 starts under one WORKER_ID and 1 fault | `DeadWorkersRecovered` (violated) | see section 6 |
| `edge` | 2 API processes, 5 scenes (below), 1 failing call, 1 refused post, 1 death; 1.0 M states | `TypeOK`, `LimitEnforced`, `ExpiryOnItsWay`, `IdempotentAnswers`, `CompletedAnswerHasResult`, `CallbackTellsTheTruth`, `EventIdsDeduplicate`, `RegisteredCanLogIn`, `ResultStands`, `CallbackArrives` | no window lets in more than its limit; overlapping creates with one key give one job and one answer; a callback tells what happened to the run it is about, can be told from others, and arrives; a stored result stands whatever is written to its row late; who was told "registered" can log in |
| `builder` | history of 2, 3 operations that read the clock, 4 files to import, 156 posted definitions, 2 callers of loadAll with 69 + 3 lists of plugins; 56 thousand states | `TypeOK`, `UndoneToTheStart`, `IdsStayUnique`, `CompilerAgrees`, `LayoutFollowsEdges`, `ReimportKeepsTasks`, `RunsOnlyValid`, `PluginsInOrder` | undo leads back to the start; the compiler, the layout and the order of plugins agree with definitions by closure; the run button hands on only what the compiler accepted, whatever is edited meanwhile |
| `console` | 3 scenes (below), 1 failing call; 0.3 M states | `TypeOK`, `ShownStatusHeld`, `VerdictShownIsTrue`, `PassMeansProgress`, `RunEnds` | a page shows only what was true; PASS means at least that a job completed (recovery) or that all have ended (priority); a run ends whatever becomes of its jobs |
| `lab_pass` | one run of any scenario, no failing call | `PassKeepsPromise` (violated) | see section 6 |

Bounds. `MaxRetries = 1` (`MAX_RETRIES` is 4) has each branch of the comparison
taken, with a retry in between. `MaxVersion = 3` stops time from running out
again on a row of that version when somebody is slow; the row goes on to
version 6 or so by the steps that are not timeouts, which is enough for an attempt, a
wrong recovery, a second attempt and the reaction of the first to it. With
everybody timely (`recovery`) no such bound is in force: the run
is finite because failures, retries and requests are. Deadlock checking is
off: the system rests when its job is finished, and in `races` when time
has stopped at the bound.

`registry` has one worker: the monitor treats the workers of its snapshot one
after another, and they share nothing but the list, so what a second one adds is
delay. The worker's shutdown, its heartbeats (`GET`, then `SET` or the whole
registration) and its crash interleave with two schedulers that may each hold
strikes from an earlier term. Three faults are enough for a worker that dies, a
leader that dies in the recovery and a call of its successor that throws.

`edge` has five scenes, chosen in `Init`, since the actors of different scenes share no
state but the failure: two create requests with one key (the limit of the bucket is 1, so
that the second is refused, let in by the next window or by a failing call), with the death
of a process; a create request whose job may be cancelled, and a read; the same with a
callback; a create request with a callback whose job may be retried and so run up to twice
(`MaxRuns`), with the death and boot of a process; two registrations of one email with the
logins that follow, and a stranger's login, in a bucket of 3 per window. A cancel or a retry
is checked at one moment and written at any later one, any number of times, also over a
completed row. Deaths in the other three scenes would add about a million states
each, and find requests at the same calls with the same `lost`; the proofs have a death at any
moment. `MaxWindows = 1` gives each bucket two windows. `MaxRetries` is 1 (3 in the code): with
one refusal a post is tried again, and the mutant that gives up is told apart.

`builder`: `MaxClock = 4` allows three operations that read the clock, with any number of
undo, redo, selections and server steps between them, which the history of two bounds: a
drop, a second and a connection, or a drop, a copy and a paste, or an import and two
edits; the third push trims the history. The posted definitions are all graphs of two
tasks with a default route each, also to a missing task, all of three, all of three with
a condition in front, a repeated id and a wrong entry. `MCSpec` lets a behaviour be one
of the builder or one of the plugin host. The lists of the first caller are all lists of
three plugins that depend on at most one another each, and lists with a conflict,
an id twice, a missing plugin; the second caller shares ids and handlers with it.

`console` has three scenes: one run of any scenario with batches of two jobs (two batches for
the benchmark), no page; two runs whose submissions are refused, on a lab page that starts them,
reloads, leaves and comes back; and the page of a job that runs up to twice with its stream, its
retry button and reloads. `lab_pass` is the same instance without a failing call. The scenes
split what does not interact: a scenario never looks at a page, and the page of a job never at a
run.

Deadlock checking is off in `edge` and `console`, which end when their requests and runs
have; in `builder` the validate button, or the way back to the builder, is always there.

`NoJobStranded` deserves a word: for each status it names who will act on the
row. PENDING, RETRYING and QUEUED without a workerId are found by a query. A
QUEUED row that kept a workerId (after a cancel or a user's retry of an odd
row) is invisible to both QUEUED queries, so its id must still be on its way to
a loop. A RUNNING row is looked at only when its worker is dead, so while it
lives one of its loops must own the row's present version.

Mutants. For each property of each passing run `PROJECT.json` names one change
of a modelled operation (a dropped version increment, a dropped comparison, `<=` for `<`,
an unconditional update, ...) under which TLC finds the property violated.

## 4. Fairness

`FairSpec` adds:

* weak fairness of each loop's next step, each create handler's next step and
  each scheduler's next step: they await promises that settle, in loops with
  no exit (`worker.ts:260-272`, `scheduler.ts:26-66`). A job handler is part of
  this: handlers have a timeout, they return or throw. Nothing is assumed of
  which;
* strong fairness of "the query finds this row": `updatedAt`, `createdAt` and
  `nextRetryAt` do not move unless the row is written, so a row that stays as it is
  is past every threshold from some moment on; a scheduler asks again every
  round. The clock cannot always return sets without it. Strong fairness is
  needed as the scheduler is at its query only once in a round;
* strong fairness of "the monitor counts this dead worker out". That it is
  justified is `DeadWorkersRecovered` of `ClusterMonitor`, which
  assumes only weak fairness.

Users, failures and progress reports are free: no fairness.

`FairSpec` of `ClusterMonitor` has weak fairness of the next step of each
scheduler and of each worker that registers, beats or shuts down, of the restart of a
scheduler that is down (`docker-compose.yml` restarts it), and of the TTLs:
a key nobody renews expires. Nothing makes a worker beat, take a job, end a job or
shut down. The two liveness properties hold without strong fairness as faults
are finite, and an undisturbed leader comes back to each listed worker every round.

`Spec` of `ApiEdge` has weak fairness of "some publish goes through" and "some delivery goes
on": Redis takes what a connected client sends, and handleEvent awaits calls that settle.
Nothing is assumed of requests, of workers, of the boot of a process or of the receiver.
`CallbackArrives` then says: an event that has a callback is delivered, or a call failed, or
the receiver refused more often than there are retries. That one process dies is not
an excuse, since every process delivers every event; the dead one need not return.

`Spec` of `Console` has weak fairness of the steps of a scenario and strong fairness of
its conclusion: the loops of `services/lab-service/src/scenarios` compare the clock with
their deadline after every pass, so a loop that passes there again and again leaves in the
end. Jobs, pages and users are free, and so `RunEnds` does not depend on them.

## 5. The proofs

`JobPlatform_proofs` proves first `Spec => []TypeOK` for all values of the constants
that satisfy the named assumptions (`StoreAssumption`, `LoopAssumption`,
`RequestAssumption`, `PlatformAssumption`): besides the shapes of records, that
the Redis counters never go negative. It has one typing lemma per operator that
builds a row or a state, one step per action.

It proves then, again for any jobs, workers, loops, schedulers,
requests, failures and timing:

| theorem | statement |
|---|---|
| `AttemptsAreFenced` | `Spec => []VersionsFenced` |
| `NeverDispatchedTwice` | `Spec => []DispatchedOnce` |
| `CompletionsStand` | `Spec => CompletionStands` |
| `LatestAttemptWins` | `Spec => ResultFromLatestAttempt` |

The inductive invariant `IInv` conjoins `TypeOK`, `VersionsFenced` and
`DispatchedOnce` with the facts they need:

* `Born`: a row exists exactly from its create request's INSERT on, and before
  that no loop and no request knows the job. Without it the INSERT, which sets
  version 1, could go below the version of an attempt;
* `CompletedUnowned`: a COMPLETED row has no workerId. This is the whole reason
  why the catch block cannot touch a committed completion: its update asks for
  workerId = WORKER_ID (`worker.ts:178`);
* `OneInHand` and `DispatchBehind`: a sweep that is between its update and its
  push carries one job, at a version below the row's.

The argument has three layers. `RowSteps` looks at every action once and says
what a step can do to a row: nothing, create it, or update it with a version
that does not fall and never from COMPLETED to RETRYING or FAILED; `VersionsGrow`
follows. `LoopSteps` (a loop that runs an attempt was running it before, or has
just claimed at the row's new version) and `SweepMoves`/`SweepSteps` do the
same for loops and sweeps. `AttemptsFenced` and `DispatchFenced` then follow
without another look at the actions: a new attempt has a version above
all others, an old one keeps its own. `Inductive` puts them together.
`LatestAttemptWins` uses that the completion commits only at the row's present
version, and that by `VersionsFenced` every other attempt is strictly below it.

It builds on `IInv` and proves the rest of what the runs check of
`JobPlatform`:

| theorem | statement | assumption |
|---|---|---|
| `RetriesAreBounded` | `Spec => []RetryBudget` | `IsFiniteSet(RetryRequests)` |
| `PlatformImplementsLifecycle` | `Spec => ImplementsLifecycle` | `Undisturbed` |
| `NoneIsStranded` | `Spec => []NoJobStranded` | `Undisturbed`, `"catch" \notin FailureModes` |

`RowMoves` is the one look at the actions: a step leaves the rows alone, or does one of
thirteen things to one row (reports progress, claims, accepts, postpones or gives up; recovers,
requeues or dispatches; inserts, marks, withdraws, cancels or revives). The three theorems are
argued from these.

`RetryBudget` counts manual retries in its bound, not in the state. `BudgetInv` makes up for
it: `Served` is the set of retry requests that are over, `Spent` bounds
each `retryCount` by `MAX_RETRIES` plus their number, and `Entitled` says that a loop
about to write RETRYING has seen a row below `MAX_RETRIES` at the version it still
compares; so of several loops under one WORKER_ID only one gets to count.

`Undisturbed` is what sections 3 and 6 set aside, and no more: create requests are over before
the grace period, nobody cancels, and there is one manual retry at most. cancelJob and retryJob
write by id alone, which is finding 1; two retries that overlap could revive a job that runs
already. Nothing is assumed of the speed of workers and schedulers, of shared WORKER_IDs or of
the number of failures and deaths, so the theorems say more than the run `recovery`, where
everybody is timely. `Recoverable` is inductive on top of `IInv`: only a RUNNING row has an
owner (`Unowned`), a row is PENDING until its create request has marked it (`FreshPending`), the
pending sweep holds only jobs whose create request is done (`SweptCreated`), and what a retry
has checked is still FAILED (`ChecksHold`). With it each row move maps to a step of
`JobLifecycle` under the map `Statuses`, `result`. `NoneIsStranded` adds `Owned`: a RUNNING row
of a living worker has a loop at its present version, on its way to the completion or to the
catch block. A failing catch block breaks exactly this (finding 3).

`ClusterMonitor_proofs` proves for any workers, schedulers, faults and strikes:

| theorem | statement | assumption |
|---|---|---|
| `TypeCorrect` | `Spec => []TypeOK` | |
| `CoordinatorsTakeTurns` | `Spec => []OneCoordinator` | `"schedulers" \in Timely` |
| `NoFalseRecoveries` | `Spec => []NoFalseRecovery` | `Accurate` |

`CoordinatorsTakeTurns` is proved from `HolderLeads`: a scheduler in its round is the value of
the key. It rests on `renewLeadership` comparing and extending in one script; isLeader and SET
NX alone would not do. Without the assumption the property fails, as the lease is not looked at
during a round; what then protects the jobs is the version, which `NeverDispatchedTwice` shows
without any assumption on leases.

`Accurate` says that workers are timely, that a WORKER_ID is used once, and that
`MissThreshold > 1`. The last one is needed: between SADD and SET a live
worker is listed without a key, and one strike would be enough to recover
it. The invariant `AccInv` has as its centre `OneStrike` (while a worker
registers, each scheduler has counted at most one strike, and if one then it is in
the round whose snapshot no longer has the worker), `Fresh` (an id
that was never started is nowhere, so no strikes wait for it), `Keyed` (a
worker that runs loops has its key) and `OnlyGone` (who is in the monitor's hand
is dead or past its jobs). `WorkerAccurate`, `ExpiryAccurate` and
`SchedulerAccurate` show that the steps of the three kinds of actors keep it.

`ApiEdge_proofs` proves for any requests, buckets, limits, windows, keys, processes and
failures:

| theorem | statement |
|---|---|
| `LimitsHold` | `Spec => []LimitEnforced` |
| `CountersExpire` | `Spec => []ExpiryOnItsWay` |

`LimitEnforced` counts requests and is not inductive: nothing in it forbids two requests
with the same number, or a counter that has fallen behind. `LimiterInv` adds that requests
counted in one window of a bucket hold different numbers (`Apart`), that none is above the
counter while its window lasts (`Numbered`), and that who is let in has a number within the limit
(`Within`); the first two need each other for the INCR, which hands out a number above
all others. The theorem then follows by counting: `LetInByNumber` maps the requests let in
by a window to `1 .. MaxRequests[b]`, an injection by `Apart`. `GateSteps` looks at every action of
the composition once and says what it can do to the limiter; `MovingKeeps`, `IncrementKeeps`
and `WindowKeeps` are the three kinds of steps that remain. The only assumption is
`LimiterAssumption`, and `AccountAssumption` for the login a registration sends.

`CountersExpire` names the only ways to a counter without a TTL: the request that opened its
window is about to call EXPIRE, or it threw or its process died before that. The
last two are for good (section 6); the theorem says that nothing else, and no overlap, leads there.

It proves of the answers, for any requests, keys, runs of a job, processes, deaths and failures:

| theorem | statement |
|---|---|
| `OneJobPerKey` | `Spec => []IdempotentAnswers` |
| `CompletedComesWithResult` | `Spec => []CompletedAnswerHasResult` |
| `ResultsStand` | `Spec => ResultStands` |

`AnswerInv` has three parts. `Rows` says that a key has one row (`OneRow`), that a RUNNING row
has been claimed and that a COMPLETED row has its result; `RowSteps` shows that every step keeps
this and takes away neither a row nor a result (`RowsStay`). `AskedOfJobs` says that what users
were let go on with concerns a job that exists, so that their updates by id make no row. The
unique index is what makes `OneRow` inductive: a row appears only when `OfKey` is empty at the
moment of the INSERT, whatever the look-up before it saw. The third part, `Handlers`, says what
each answer under way owes to the rows: past its insert a request has its row, without which
MarkQueued, which updates by id, could make a second one of the key; a read that holds COMPLETED
finds a result. It survives the steps of others because of `RowsStay`, so that `HandlerWrite`
needs to look at one handler only; `DeathKeeps` looks at the requests a death takes. Nothing
protects the status of a completed row: a late mark, cancel or retry overwrites it (finding 1),
and this is in the steps. What stands is the result, as the unique index of the table rolls back
a second completion, and `ResultsStand` follows from `RowsStay` alone. The assumption is
`JobRequestAssumption`.

It proves of callbacks and accounts, for any requests, processes, refused posts and failures:

| theorem | statement |
|---|---|
| `CallbacksAreTrue` | `Spec => []CallbackTellsTheTruth` |
| `OneIdPerEvent` | `Spec => []EventIdsDeduplicate` |
| `RegisteredLogIn` | `Spec => []RegisteredCanLogIn` |
| `EdgeTyped` | `Spec => []TypeOK` |

A callback is posted long after the transaction it tells of, and its body is made of a
row and a result read at two more moments, when the row may be cancelled, PENDING again or
running. `CallbackInv` says why it is true all the same: `History` ties each written
JOB_COMPLETED to a result that is there, whatever the status by now, and each JOB_FAILED to
the reason it carries itself; results stay (`RowsStay`); `Closing` says the same of what a
worker that has committed is about to write, and `Posts` carries body and event through the
attempts of a delivery, whose eventId is the number of the event.

`AccountInv` relates a form to the table: who was told 201 is stored (`StoredWhenTold`), and
goes on being stored as an email is inserted once; the login that follows is sent after that
(`SentAfterwards`) with the same password, so it can only be refused by a call that threw
(`LoginSucceeds`). `AccountAssumption` says that a password differs from `NoUser`, the
marker of a free email, and `EdgeAssumption` that the login of the register page does not also
arrive by itself.

`Console_proofs` proves for any jobs, runs, scenes, batches and failures:

| theorem | statement |
|---|---|
| `PageShowsHistory` | `Spec => []ShownStatusHeld` |
| `VerdictsAreOfTheirRun` | `Spec => []VerdictShownIsTrue` |
| `PassesMeanProgress` | `Spec => []PassMeansProgress` |
| `VerdictsStay` | a run with a verdict keeps it |
| `ConsoleTyped` | `Spec => []TypeOK` |

`ConsoleInv` has a part for each module. `FeedInv`: an event, written or on its way, tells of
a status its job has had. `ViewInv`: so do the answers under way to the page of a job, the event its
effect is due for, and what it shows; nothing is said of their order. `RunsInv`: what a
scenario has counted in its polls has really happened to jobs of its run (`Progress`, which grows
with `held`). `PassesMeanProgress` says what the code checks before a PASS, which is less than the
documents promise (finding 5). `Streams` and `Page` follow a verdict from the run to the wire, to
the page and to the stored run: a STATUS on the wire of a run is that run's, and an answer under
way is about the run it was asked for. The page shows one run and has one stream, and
`displaced` marks the single step where the two part. `Apart` says that a page that is not
open keeps nothing. `ConsoleAssumption` says that "none", the id of no run, is not the id of a
run, and that scenes use the four scenarios.

`DataFacts` holds what the algorithms of the dashboard and the runtime need and no library
states. Induction theorems that take an operator cannot be used by the installed provers,
so each induction is an argument by the least number: `LeastNumber` (a set of numbers that is
not empty has a least element) comes from the well-founded order of the library, and from
it `LoopExists` (a loop with a measure that goes down is a function of the state it starts in),
`LoopKeeps` (what every step keeps holds of the state it ends in) and `RecursionExists` (a
recursion over `0 .. N` defines a function). A loop of the code is written in the models as such
a recursive function, which is what makes them provable. `Flattened`, `SequenceCut` and the
others say of each sequence operator what it returns.

`Builder_proofs` begins with the compiler: `CompileIsDocumented`, for every workflow definition:

* `SearchGoes`: each step of the depth-first search of detectCycles uses up a root, a node
  of the path or a neighbour (`Remaining`), so that it ends; `VisitGrows` says the same of
  the worklist of findReachable;
* `SearchInv` is what the steps keep as long as no cycle is found: the grey nodes are the path,
  each node of which leads to the next; a black node leads to black nodes only, and no black
  node is on a cycle (`BlackHasNoCycle`). Once a cycle is found it stays first in the list;
* `SearchFindsCycles`: with the roots all black nobody is on a cycle; a grey neighbour closes
  one. A cycle is a set of nodes each of which leads to another of the set, so that no path
  needs to be built;
* `ReachIsJoined` and `CompileAcceptsValid` put diagnostics, warnings and success together.

`PluginHost_proofs` proves `HostSpec => []PluginsInOrder` for any ids, lists and number of
calls, from `HostAssumption` (the lists are finite sequences of plugins). `VisitInv` is to
resolveOrder what `SearchInv` is to detectCycles: what is in order has no conflict and its
dependencies before it; what is in progress is on the stack once, each plugin needing the next;
an error is a reason why there is no order. `ResolveOrderIsRight` concludes: an order is found
exactly when there is one. `HostInv` is the invariant of the calls: `CallRight` says that a
plugin a call still has to load has its dependencies loaded or before it in the same call, also
of the plugin that is being initialized, across whose await others load and replace entries. It
survives the steps of other calls as the map of plugins only grows and an entry keeps its place
(`Extends`), which is JavaScript's `Map.set`.

On the builder `Builder_proofs` and `BuilderHistory_proofs` prove, for any palette, places,
posted definitions, length of the history and clock:

| theorem | statement | assumption |
|---|---|---|
| `BuilderShape` | `Spec => []Shape` | |
| `CompilerIsRight` | `Spec => []CompilerAgrees` | |
| `OnlyValidRuns` | `Spec => []RunsOnlyValid` | |
| `ReimportIsHarmless` | `Spec => []ReimportKeepsTasks` | |
| `LayoutIsTidy` | `Spec => []LayoutFollowsEdges` | |
| `LayoutTerminates` | distinct task ids => `LayoutEnds` of the import | |
| `BuilderTyped` | `Spec => []TypeOK` | `ValuesAreTyped` |
| `IdsAreOld` | `Spec => []Aged` | `FileIdsAreOld` |
| `HistoryIsATale` | `Spec => []Recorded` | `FileIdsAreOld` |
| `UndoGoesBack` | `Spec => []UndoneToTheStart` | `FileIdsAreOld` |
| `IdsAreUnique` | `Spec => []IdsStayUnique` | `FileIdsAreOld` |

`Shape` says that the store holds sequences of nodes and edges, the stacks commands with
their private fields, and the file a sequence of tasks. It is inductive, with one lemma for
execute and one for undo. The model writes filter as a recursive function of its own, and
`FilterProperties` (which elements stay, in which order) is what all commands that
select rest on. `CompilerIsRight` is `CompileIsDocumented` on the exports of such stores.
`OnlyValidRuns` needs `Runs`: a request that waits for its compilation carries a definition
under an id made of the clock, for which nothing is held yet; what waits for its execution is
held. It is about what the run button hands over, not about what the execute route keeps
of it (section 6). `ReimportIsHarmless` looks at a task and the edges it is drawn with: an edge
is lost on export only if its node has an earlier one for the same outcome, and
`RoutesRedrawn` shows that the edges that are left give the same routes back, whatever
the layout does to positions.

The layout is Kahn's algorithm on rows, and three invariants follow its three loops.
Within a node, `ReleaseTargets` takes one from the degree of each target
(`TargetsFree`); within a row, `NextLayer` does so for each of its nodes (`LayerFrees`);
and between rows `PassInv` holds: the degree of an id counts the edges into it
whose source is in no row yet, the queue is what has come to 0 and is in no row, and
the edges into what has been placed come from earlier rows. An id is therefore in one row
and once, and as long as the queue is not empty each pass places one more, so that the
queue is empty after as many passes as there are ids (`KahnEnds`, from which
`LayoutTerminates`; it needs distinct ids, see section 6). What is never placed has
an edge from something else that is never placed, and so holds a cycle (`ReachedIsCyclic`):
without a cycle every edge goes down a row (`EdgesGoDown`). `PlaceFound` and
`CoordinatesApart` say that two nodes differ in row or column and therefore in position,
although each row is centred for itself.

`TypeOK` is not inductive: a position on the canvas comes back from a command, the
clipboard, or a file. `Typed` says of all of them what `TypeOK` says of the canvas, and that
both stacks together hold `MaxHistory` commands at most, as an undo moves one to the other
and a new command empties the redo stack. `ValuesAreTyped` is the assumption that the plugins
of the palette and the fields of a file have the types that `CanvasNode` and
`TaskDefinition` declare. TLC evaluates it in `builder`.

`FileIdsAreOld` says of the constant `Files` that the ids in files from elsewhere are not ids
that this canvas is going to make: those begin with the clock, which stands for
`Date.now()`, and a file that exists was written before. TLC evaluates it in `builder`.

`UndoneToTheStart` looks at a canvas whose undo stack is empty, and says nothing of any
other. What holds of all of them is `Recorded`: put the undo stack and the redo stack, the
latter backwards, into one line of commands (`LineOf`), of which the first n are
executed. Then

* what a command will bring is not on the canvas, and what it took is not there any more
  (`StoreFree`), and the same between any two commands of the line (`AddsFree`);
* an edge that occurs anywhere is the only one with its id (`OneEach`), and the one that an
  undone disconnection remembers will be there when it is redone (`Remembered`);
* a node of an id has one value before and one after each command, whatever is executed or
  undone (`Valued`): that is why MOVE_NODE and UPDATE_PROPERTY, which remember an
  old value, give back the right one;
* undoing the n commands one by one leads to the first canvas (`Told`).

The edges of copies are the exception. A paste that is executed again makes new ids and adds
them to those it made before, and an edge that an undone command remembers may join copies that
are gone. Such an edge is `Junk`: the undo of that paste takes it away with the copies, so
the line is only told up to junk, and at its beginning there is none. `TaleBack`,
`TaleForth` and `TaleNew` are the steps of undo, redo and a new command; a paste that is redone
is the case for which `Aged` is needed: all ids there are were made before the time on the
clock, and so what is made now is in nobody's way. The trim of the oldest command makes
the origin unknown, and nothing is said from there on. Before the proof TLC had checked
the same statements on longer histories than `builder` has (up to 12 steps with 3 commands and 5
operations that read the clock, 5 million states), and on simulated behaviours with 8 and 25.

Only model-checked: `EventuallyFinished`, `DeadWorkersRecovered`, `DeadWorkersForgotten`,
`CallbackArrives` and `RunEnds` (liveness is beyond the prover, as is ENABLED, on which
weak fairness rests). Every safety property of every passing run is proved.

## 6. Where the code and its documents disagree

1. **A late cancel overwrites a completion** (`late_cancel`). `cancelJob` checks
   the status it read and updates by id alone (`job.service.ts:188-202`,
   `job.repository.ts:51-60`); a worker can claim and complete in between. The
   documented state machine (`PROJECT_STATE.md:249`, `ARCHITECTURE.md:246`) has no
   way out of COMPLETED. Retrying such a job later runs into the unique index of
   `Result`.
2. **A zombie moves another attempt's job** (`shared_id`). `PROJECT_STATE.md:311`
   promises that optimistic concurrency control keeps zombies from overwriting
   recovered jobs. It does for completions (theorem `LatestAttemptWins`), but
   the catch block takes over the version it reads (`worker.ts:168`) and so
   compares only the WORKER_ID, which the loops of a process share.
3. **A failing catch block strands a job** (`stranded`). If a call at
   `worker.ts:158`, `:177` or `:216` throws, the row stays RUNNING under a worker
   that lives on, and no sweep looks at it, against `DEMO.md:76`.

4. **A restart hides a death** (`restarted`). If WORKER_ID comes from the
   environment (`worker.ts:27`; `PROJECT_STATE.md:178` sets `worker-1`) and the
   process is restarted before the monitor has counted three strikes, its key is
   there again and the strikes return to 0. The row the first process left
   RUNNING is owned by a living WORKER_ID that does not know it, and no sweep
   looks at it, against `PROJECT_STATE.md:309-310`.

5. **PASS promises more than the scenarios check** (`lab_pass`). The documents say that CRITICAL
   finishes before HIGH, MEDIUM and LOW before the test "completes with a `PASS` status"
   (`DEMO.md:53`, `lab/page.tsx:105-106`); that the orphaned job "is safely requeued and
   processed by a surviving worker" (`DEMO.md:75`, `lab/page.tsx:113`); and that the benchmark
   displays PASS "once all jobs reach a terminal state" (`DEMO.md:116`). The code only logs an
   order that is not the expected one (`priority.ts:56-60`), and takes the order from polls that
   ask in the order of submission (`:29-40`), so that two jobs completed between two polls count
   as LOW first; passes a recovery with one completed job of five, and kills no worker itself
   (`recovery.ts:63-69`); and goes on after the deadline of a batch whatever has ended
   (`benchmark.ts:31-48`). TLC finds a recovery with one of two jobs completed at the deadline.
   Checked one at a time, the other two conjuncts of `PassKeepsPromise` are violated as well: a
   priority run whose order is LOW, CRITICAL, and a benchmark past a batch that is not done. The
   promise for the failover scenario ("a new leader is elected within the TTL window",
   `DEMO.md:96`, `lab/page.tsx:120`) is not part of the property, as the model has no leader
   there: `failover.ts` kills no scheduler, compares no leaders and passes unless a call throws.

The run `recovery` has the failure mode `"catch"` switched off for the third
reason and no cancel request for the first, and each of its workers has a single
loop for the second. What its job then goes through is `JobLifecycle`.

### The documented state machine and `JobLifecycle`

`PROJECT_STATE.md:236-249` and `ARCHITECTURE.md:242-252` draw a machine, and
`JobLifecycle` is not that machine: the code has edges the drawings lack. So `ImplementsLifecycle`
does not say that the code implements the documented machine; it says that these are all the
edges the code has, for a job nobody cancels, and that a result is accepted once.

| action of `JobLifecycle` | edge | where it is documented |
|---|---|---|
| `Submit`, `Dispatch`, `Begin`, `Accept`, `Fail` | ABSENT -> PENDING, PENDING or RETRYING -> QUEUED -> RUNNING -> COMPLETED or FAILED | the two drawings |
| `Postpone` | RUNNING -> RETRYING | the two drawings, for an attempt that failed. Recovery from a dead worker takes the same edge (`recovery.service.ts`), where the other diagram of `ARCHITECTURE.md` (`:91`) says "Reset job → QUEUED, clear workerId": neither the drawings nor the code have RUNNING -> QUEUED |
| `Revive` | FAILED -> PENDING | `project_design/09 - API Design.md:232-250` only; in the drawings FAILED has no successor |
| `Withdraw` | QUEUED -> PENDING, QUEUED -> RETRYING | nowhere. The rollback of createJob after an enqueue that failed (`job.service.ts:77-81`), and of processRetries (`retry.service.ts:43-55`) |

Cancels are left out of it, as finding 1 has them leave COMPLETED. The drawings cancel
from PENDING and QUEUED; the code also cancels from RETRYING (`job.service.ts:188-192`), which
only `project_design/09 - API Design.md:194-200` lists.

### Seen while modelling, without a run of their own

The models contain the following behaviour of the code; the properties are stated so
that they hold with it (an `origin` that becomes unknown, a ghost `displaced`, the gates
`open` and `lost` in `ExpiryOnItsWay`). Where a document says otherwise the entry names it.

API edge:

* INCR (`rate-limiter.middleware.ts:32`) and EXPIRE (`:36`) are two calls. If EXPIRE fails after
  an INCR that gave 1, if the INCR takes effect and its answer is lost, or if the process dies
  in between, the counter never expires; once it passes the limit the user is locked out. These
  are the gates `open` and `lost` of `ExpiryOnItsWay`.
* The look-up by idempotency key ignores the user (`job.service.ts:12`), and the column is
  unique over all users: who sends a key another user has sent is answered that user's job
  and gets none, against "Users can only see and modify their own jobs"
  (`PROJECT_STATE.md:314`). The model has no users: `IdempotentAnswers` is about all
  requests of a key.
* createJob's mark, cancelJob and retryJob write by id. A row that is RUNNING or COMPLETED by
  then becomes QUEUED, CANCELLED or PENDING (finding 1); the result stands.
* JOB_COMPLETED and JOB_FAILED are written after the transaction: a worker that dies in
  between loses the callback for good (`AnnounceLost`).
* A subscriber that cannot connect at boot is never tried again (`ConnectSubscriber`), so
  the process goes on without callbacks and streams.
* The server listens before its Redis client is connected, and `subClient` is never quit.
* A callback of an earlier run may arrive after the one of a later run: TASK_FAILED after
  TASK_COMPLETED. `CallbackTellsTheTruth` is about the contents of each, not their order.

Builder:

* A paste that is redone makes nodes with new ids, and takes the clipboard of now;
  a connection to the old ids that is redone after it is an edge to nowhere.
* Undo of a deletion appends what it restores (`clipboard-commands.ts`): the order of
  edges may change, and with it the default route of a task. `UndoneToTheStart` compares sets.
* An import replaces the canvas behind the back of the history; undo then works on a
  canvas it does not belong to (`origin = Unknown`).
* The run button executes nothing. The toolbar sends `compiledWorkflowId`
  (`BuilderToolbar.tsx:174`), the execute route stores `body.workflowId`
  (`execute/route.ts:30`), so the record it makes holds no workflow (`ServeExecute`); and the
  toolbar reads `executionId` where the route answers `id`, so that the page is
  `/executions/undefined`. `RunsOnlyValid` is about what the button hands over.
* An export keeps one edge per outcome and the first edge of a task; parallel edges are
  lost (`ReimportKeepsTasks` is about tasks and routes), and the entry of the import may differ.
* After the first cycle `detectCycles` may name edges that are on none, as the nodes
  of its path stay grey; `Agrees` speaks of the first one.
* A file without positions in which an id occurs twice and feeds a cycle makes the layout
  loop for ever (`auto-layout-service.ts:46-60`): a degree of 0 counts as 1 again, and the ids
  of the cycle are queued again and again. `LayoutEnds` tells such files; their
  import does nothing in the model, where the page hangs. With distinct ids the layout
  ends (`LayoutTerminates`), and those are what `LayoutFollowsEdges` is about.

Plugin host: after `disposeAll` the registry keeps its handlers, so a plugin with handlers
cannot be loaded again; a plugin that fails half way leaves handlers registered and can
never be loaded; `addNode` keeps the dependencies of a plugin it replaces. No service uses the
manager; that nobody disposes while a load is under way is an assumption.

Console:

* A STATUS sent between the page's GET and its registration for the stream is lost, and
  the page says RUNNING until it is reloaded.
* A late GET of an old run replaces the new run that is shown (`displaced`); the stream's
  next STATUS then counts for the wrong one.
* The page of a job drops events that arrive before the job is loaded, and looks only at the last
  of several.
* `me()` that fails for any reason removes the token, also the new one of another tab.
* The scenarios poll faster than the limiter allows; `getJobStatus` is then null, so a
  recovery can FAIL although its jobs completed. What a PASS does not show is finding 5.
* A lab service that restarts forgets its runs. RecoveryPage waits for event types nobody
  publishes.

## 7. What is not modelled

The worker's load counters (their writes of the worker's key do what a
heartbeat does, nothing but gauges reads the number, and no document promises its value);
overlapping heartbeats of one worker; metrics, health and the pages that only
fetch and render; the work of the job handlers; contents
of jobs; templates, expressions, scripting and the single plugins; password hashes and
the contents of tokens; `readyAll` and `shutdownAll`, which change nothing, and registries
that overwrite. `DeleteNodeCommand` is used by a test only. The execution viewer polls a
route that always answers 404 or 500, as its runtime is never set. JobEvent rows that feed
lists of the dashboard are left out, and so are cleanup after a lab service restart and the
docker call of the failover scenario, whose outcome is only logged; with it the promise
that this scenario shows a new leader (finding 5). Workers do not shut down in
`JobPlatform`, only in `ClusterMonitor`; there a shutdown that throws
is a process that stops when it is killed. A worker paused for longer than its TTL between
the GET and the SET of a heartbeat comes back with a key and outside of
`workers:active`: it is outside of the assumption on timely workers, and so of
what the runs show. Each component with its status is in `PROJECT.json`.

## 8. Plan

Done: the job path (`JobPlatform` and its parts), failure detection and the lease
(`ClusterMonitor` and its parts), the edge (`ApiEdge`), the builder with the compiler and
the plugin host (`Builder`, `PluginHost`), the lab and the pages (`Console`); the safety
properties of all of them are proved.
To come, most important first:

1. `FencedAttempts`: an abstract specification of claim, recovery and
   completion by versions alone, with `JobPlatform` shown to implement it, first
   by TLC and then by proof from `RowMoves` and `VersionsFenced` (it needs no timeliness).
2. A weaker `Undisturbed`: several manual retries that do not overlap, and a cancel that
   comes before the job is claimed.
3. An instance of `recovery` with two jobs if its states allow.
