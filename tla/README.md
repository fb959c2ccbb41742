# A verification project for the bulk-action engine and the libraries around it

This directory holds TLA+ models of the parts of this repository that have a protocol of
their own: first of all `src/libs/bulk-action`, a multi-instance job system on Redis with a
fair queue, admission control, workers with leases, orphan recovery, dead letters, and
the life of job groups up to their aggregated result; then the web client with retries,
the interceptors and filters of the server, and the transactions with events. The rest
(controllers, entities, clients of external services, utilities) is glue around
libraries; the inventory lists it and says why it is left out.

Contents: [inventory](#inventory) · [modules](#modules) · [abstractions](#abstractions) ·
[runs](#runs) · [fairness](#fairness) · [refinement](#refinement) ·
[disagreements](#where-the-code-and-its-documents-disagree) ·
[proofs](#proofs) · [not modelled](#not-modelled) · [plan](#plan)

How to run: `tlc -config <name>.cfg <MC module>.tla` with the pairs of the table of
[runs](#runs) (`PROJECT.json` has them too), and `tlapm <name>Proofs.tla`.

## Inventory

A job travels: client → `BulkActionService` → **fair queue** → `FetcherService` →
`BackpressureService.admit` → **ready queue**, or **non-ready queue** and
`DispatcherService` → `Worker` (**in-flight queue**) → `WorkerPoolService` →
`AggregatorService.recordJobResult` and `FairQueueService.ack` → group complete →
`AggregatorService.finalizeGroup`. Beside it run, on every instance, a loop of
`OrphanRecoveryService` and one of `WatcherService`. All shared state is in Redis;
a Lua script is atomic, and between two calls of the TypeScript code anything may
happen, on any instance.

| Component | State (Redis keys unless noted) | Operations | What is hard | What makes it correct |
|---|---|---|---|---|
| Fair queue (`fair-queue/`, `enqueue.lua`, `dequeue.lua`, `ack.lua`) | three sorted sets of groups, a list per group, `totalJobs`, `doneJobs`, `status` in the meta hash, `status` in the job hash | enqueue, dequeue, ack | one group in several priority levels; empty groups left behind; scores move with time and with what is done; lists and sorted sets are separate keys | a group with jobs can be found; every job is served; the boost overtakes boundedly; counters agree with the jobs |
| Submission (`BulkActionService`) | the group's `registeredJobs`, `timeoutAt`, the watchers' active set | `submitJob`, `submitBulkJobs` | enqueues job by job while workers already work | a group is not completed while it is being filled |
| Fetcher, admission, ready queue (`FetcherService`, `BackpressureService`, `ReadyQueueService`) | the ready queue (a list); a job in a local variable between two calls | `fetchCycle`, `admit`, `requeue` | the capacity is checked three times, in three calls, by several instances; the job is already out of the fair queue | bounded queue; no job twice; no job lost |
| Dispatcher, congestion (`DispatcherService`, `CongestionControlService`, `move-to-ready.lua`, `congestion-backoff.lua`) | the non-ready sorted set, a counter per group, `dispatching` (local) | `dispatch`, `addToNonReady`, `resetGroupStats` | batch pushed on a length read one call earlier; counter kept by four scripts | bound of the ready queue; counter not above the congestion; every backoff ends |
| Rate limiter (`RateLimiterService`, `rate-limit-check.lua`) | two counters per window with an expiry, `active-groups` | `checkRateLimit` | window computed before the call that counts; one counter is rolled back when the other refuses | rates per group and in total; the counters agree |
| Worker, worker pool (`Worker`, `WorkerPoolService`) | `retryCount`, `status` of a job; current job, timers (local) | `tick`, heartbeat, `handleJobComplete`, `handleJobFailed`, `handleDeadLetter`, shutdown | timeout against a late answer; exceptions that are logged; a lease given up before the job is safe elsewhere | a job is handled once unless its lease ran out; retries are bounded; losses |
| Reliable queue, orphan recovery (`ReliableQueueService`, `OrphanRecoveryService`, four scripts) | the in-flight sorted set, a hash per lease | `dequeue` (four calls), `ack`, `nack`, `extendDeadline`, `runOnce` | peek and pop are not atomic, so that a lease can name another job's group; acks have no owner; recovery in batches, with a loop after the script | a lease describes its job unless a worker came between peek and pop; every lease ends |
| Dead letter queue (`DeadLetterService`) | a list of entries | `retry`, `retryAll`, `purge`, `cleanup` | the list is rewritten in several calls while workers append; a retried job has already been counted by its group | no entry lost or repeated; a job handled once per retry; results that never shrink |
| Aggregator (`AggregatorService`, `record-job-result.lua`, `transition-status.lua`) | result list, counters, the stored result, `status`, `aggregationStartAt` | `recordJobResult`, `aggregate`, `finalizeGroup` | called by the last worker, by recovery and by every watcher | one aggregation at a time; the result covers all jobs |
| Watcher (`WatcherService`, `StateMachine`) | the active set | `watchCycle` → `checkGroup` | acts on a hash read earlier; cycles overlap between instances; forced and stale transitions | every group ends; the rules are kept |
| Distributed lock (`DistributedLockService`) | a key with a token and a TTL | `acquire`, `release`, `withLock` | TTL runs out under the holder; a crash leaves the key | exclusion while the TTL outlasts the work |
| Life of an instance (`BulkActionModule`, `LuaScriptLoader`, `WorkerPoolService`, `RedisService`) | the loops, their abort signals, a timer, the connection (local) | hooks of start and stop | the connection is closed before the loops are stopped; errors that nobody catches | the commands are there before the first call; no loop dies; the exit waits; the stop ends |
| Idempotency (`IdempotencyService`) | a key per job | `isProcessed`, `reset` | marked before the work is done | no caller yet |
| Redis client (`libs/redis`) | – | wrappers | – | the sorted-set calls are in `RedisSortedSet` |
| Transactions and events (`libs/entity/.../TransactionService`, `libs/event-emitter`) | buffered events per phase (local), the transaction | `transactionalWithEvent`, `flush` | a listener that throws after the commit; a commit whose answer is lost | events follow the outcome |
| Web client (`libs/web-client`) | the request that is being built, shared by all users of a client (local) | `retrieve`, the loop of `RetryExecutor` | which failures are retried; what an attempt sends | bounded attempts of the own request; an end |
| Interceptors and filters (`libs/web-common`, `setNestApp`) | errors seen so far (local) | retry, timeout, error responses | a handler that goes on after its timeout | no change is made twice for no reason; an answer |

Without state or protocol of their own: the HTTP API and the web conventions, the
entities, the integrations (chat, files, mail, Slack, PDF), the event publisher and
listener, and the utilities (crypto, configuration, logging, telemetry, templates).
`PROJECT.json` has one entry for each of them, and the list of hazards, each at the
line where it bites.

## Modules

| Module | Models |
|---|---|
| `RedisSortedSet` | ZADD, ZREM and a ZRANGEBYSCORE as operators on functions |
| `Counting` | how often something is in a list, and what a filter keeps of it |
| `BulkActionConfig` | the defaults of the configuration, the merge of `register`, and the relations between values that the other modules rely on (an `ASSUME` that TLC evaluates) |
| `FairQueue` | the fair queue: `Enqueue`, `DequeueFrom` / `DequeueNothing`, `Ack`, one action for each script |
| `Backpressure` | fetchers, admission, dispatchers, congestion counter, and the workers as far as they touch these queues |
| `ReliableQueue` | `Worker.tick` call by call, leases, heartbeats, orphan recovery, retries and dead letters |
| `JobDelivery` | abstract: what is owed to a job, and what a job may be owed again for |
| `ReliableDelivery` | the refinement mapping from `ReliableQueue` to `JobDelivery` |
| `GroupLifecycle` | one group: submission, the end of its jobs, `finalizeGroup`, watchers, the two locks |
| `DeadLetterQueue` | `retry`, `retryAll`, `purge`, `cleanup`, call by call |
| `GroupResults` | the results of one group: `recordJobResult`, acks, the pages and the reduction of `aggregate` |
| `Redelivery` | extends these two: dead letters that are retried while their group is worked on |
| `RateLimiter` | windows, counters with expiry, shares |
| `Admission` | extends it: fetchers, congestion control and workers under the rate limit, with answers that are lost |
| `ApplicationInstance` | one instance from its first hook to its exit: hooks, loops, timer, connection |
| `TransactionEvents` | `transactionalWithEvent`: the three phases, commits and listeners that fail |
| `WebClient` | `FetchClient`, `GotClient`, `RetryExecutor` |
| `Requests` | extends these two: a call from its client through interceptors and filters to its transaction and back |
| `MC*` | the small instances for TLC |
| `*Proofs` | theorems about `FairQueue`, `Backpressure`, `ReliableQueue` with `ReliableDelivery`, `GroupLifecycle`, `Redelivery`, `Admission`, and in `ApplicationProofs` about `ApplicationInstance` and `Requests` |
| `CountingTheorems` | lemmas about sums over finite sets, occurrences in lists and filters, which several of them use |

How code becomes TLA+, in all of them: a Redis key is a variable; a Lua script is one
action; a TypeScript method that awaits `n` calls is `n` actions, with a program
counter (`fetcher`, `dispatcher`, `pc`) that names the call made next and a variable
for each local that survives a call (`held`, `peeked`, `loaded`, `expected`, `listed`).
An early return is a disjunct or an `IF` that sends the program counter to its end. An
exception or a stop of the process is an action of its own (`FetchFails`,
`DispatchFails`, `WorkerDrops`, `Throws`, `Crash`, `AckThrows`, `RecoveryFails`) that does what the
`catch` and `finally` blocks do, or nothing. `PROJECT.json` maps every definition to
its lines.

**FairQueue.** `fairQueue[level]` is the sorted set of a priority level, `groupJobs[g]`
the list, `totalJobs`, `doneJobs`, `groupStatus` the meta hash. `Score` is the formula
of `PriorityCalculator` and the scripts, `-now + basePriority + alpha * (-1 + total/remaining)`,
multiplied by `Scale` so that it is an integer. `DequeueFrom(level, g)` is the scan of
`dequeue.lua`: levels in order, groups by descending score and name, groups with an
empty list removed on the way; the group served is scored again, or removed with its
last job. `touchedAt` is a history variable of one property.

**Backpressure.** `FetchCapacity → FetchDequeue → AdmitCapacity → AdmitRate → AdmitPush`
or `AdmitBackoff` are the calls of `fetchCycle` and `admit`; `DispatchCapacity →
DispatchMove` those of `dispatch`. `FixedBackoff` is the fallback of `addToNonReady`,
which does not count the job. `FetchUnanswered` is a dequeue that has run although its call
throws. `WorkerTake → WorkerRelease → WorkerCount → WorkerRequeue`, or `WorkerFinish →
ResetStats`, are the calls of a worker that matter to these queues, and `WorkerDrops` is
the error that `handleJobFailed` and `handleJobComplete` log and swallow after the release;
leases are in `ReliableQueue`.

**ReliableQueue.** `Length → Peek → ReadPeeked → Pop` is `ReliableQueueService.dequeue`;
`Load → WorkEnds → Release → Complete`, or `Failed → Requeue`, is the rest of `tick` and
its handlers. `DeadlinePasses` lets a lease run out, of a worker that is gone or of one
that is only slow (a *stall*). `Recover` is `recover-orphans.lua`, `OrphanEnd` and
`RecoveryFails` the loop after it. A hash in `meta` has the retry count and the group that
the worker has read of the job it peeked, and as a history whether that was another job
(`raced`); `ExtendDeadline` writes both keys of a lease, as the script does. `astray` counts
the ends of orphans that are recorded and acknowledged for another group than their own.

**GroupLifecycle.** `Submit*` are the calls of `submitBulkJobs`. A *delivery* is one
completed handling of a job, with the kind of its handler: `handleJobComplete`, the
dead-letter handler (which drops the answer of `ack`), or orphan recovery. The last one
ends a job for the group that its lease names: a delivery of `OtherJob` is the end of some
other group's orphan that is recorded and counted here, and an own job that has ended for
another group is one whose delivery never comes. Watchers and
deliveries share `Finalize*` and `Aggregate*`, the calls of `finalizeGroup`. `Decision`
is the `switch` of `checkGroup`, `IsValidTransition` the table of `StateMachine`, `Progress` what
the API shows of the group (`ProgressPercent` is its rounding). `lock` holds, per lock key, the agent whose token is
stored.

**JobDelivery, ReliableDelivery.** See [refinement](#refinement).

**DeadLetterQueue, GroupResults, Redelivery.** An element of `Calls` is one call of the
service: `Retry`, `Purge` and `Cleanup` look for entries in the list they have read,
`PopHead → Reset → Push` is the loop of `retryAll`, `Reset → Push` the first part of
`retry`. `ReadAll → Delete → AppendKept` is `removeFromDLQ`; `Stop` ends a call at any
point of it. `Bury` is the append of a worker. In `GroupResults` a handler records and
acknowledges, takes the lock, reads the status, then the counters, then the pages one
by one, reduces and stores. `Redelivery` is the loop that joins them: a worker takes a
job from the queue a retry has pushed it to, and fails or succeeds again.

**RateLimiter, Admission.** `Ask` computes the window, `Check` is the script, at any later
time; `Incr` and `Expiry` are INCR and EXPIRE on a key that may have expired; `Status` is what
`getStatus` shows. `Fetch →
CheckRate → Push` or `AddCounted` is `admit`; `AddUnanswered` is the script that has run
although the call throws, after which `AddFixed` is the fallback of `addToNonReady`.
`Dispatch`, `Take`, `Fail`, `Finish` and `ResetStats` are the rest of a job's life.

**ApplicationInstance.** `InitHook` runs the `onModuleInit` hooks in the order of the
providers; `Quit`, `Shutdown`, `WorkerStopped`, `GracePasses` and `Exit` are the way out.
The loops of fetcher, dispatcher and workers are there call by call, each call may throw,
and after `Quit` every one does; `timers` are the intervals of recovery and watcher, with
`WatchCycle` as one tick of the second, and `PoolStatus` is what the status of the pool shows.
`places` are the queues that have a job, of which there may be several, and none while a loop
has it. `RecoveryScan` takes leases at any time, of calls that have thrown and of workers that
are still at work (`late`, for the jobs in `SlowJobs`), and gives the jobs to the ready queue
or to the dead letters. `Quit` may throw, which ends the process. `RecoveryThrows` is the promise that
the interval of `OrphanRecoveryService` drops: an unhandled rejection ends the process.

**TransactionEvents, WebClient, Requests.** An execution is a record that moves from `fn`
over `commit` and `flush` to `value` or `error`. A client is a builder that holds the
request of whoever configured it last; `Retrieve`, `AttemptAgain` and `GotSendsAgain` send
what it holds. `Receive`, `AnswerValue`, `HandlerError`, `TimedOut` and `Resubscribe` are the
server: `RetryInterceptor` outside of `TimeoutInterceptor`, and the two filters.

**How they compose.** `Redelivery`, `Admission` and `Requests` extend the modules of their
components and interleave them on shared variables. Where a component would only add
states, the others see it by contract: `FairQueue` is a set in `Backpressure`, which
`QueueIsASet` proves of it; admission
and dispatching are `Admit` and `MoveToReady` in `ReliableQueue`; the end of a job is a
delivery in `GroupLifecycle`; a queue either has a job or not in `ApplicationInstance`.

## Abstractions

- Time. `FairQueue` and `Admission` have a clock (`now`, up to `MaxNow`); `Backpressure`
  counts the seconds left of a backoff; elsewhere a deadline, a TTL, a timeout, a grace
  period or a delay may pass at any moment, which covers every configuration of the
  intervals.
- A Redis call that fails has had no effect, except where a lost answer makes the difference:
  the dequeue of the fair queue in `Backpressure`, the script of a backoff in `Admission`, and
  the commit in `TransactionEvents`. A QUIT that never answers is not modelled; nothing would
  end such a process.
- A job has its hash when a worker loads it: no code deletes or expires one, and the branch of
  `Worker.tick` for a missing hash (Worker.ts:96) is left out.
- Every request of a group carries the same base priority, and a job id is submitted once.
- Groups come from `submitBulkJobs`. One that `submitJob` alone has made has neither
  `registeredJobs` nor `timeoutAt` and is not modelled.
- The verdict of the rate limiter is a free choice in `Backpressure` and computed in
  `Admission`, whose ready queue has room. The order in which jobs that are equally
  overdue come out of a sorted set is free.
- The result of an aggregation is the set of jobs it has seen in `GroupLifecycle`, where
  the two hash writes that store it are one step; `GroupResults` has counters, list and
  pages, and no TTL of the lock.
- In `GroupLifecycle` a delivery happens once, and whether it happens at all is open. Repeated handling is what `ReliableQueue`
  (`DuplicatesNeedStalls`) and `Redelivery` (`HandlingsNeedRetries`) are about.
- `SubmitBeforeWork` (no job ends before `submitBulkJobs` returns) and `ExpireLive` (a TTL
  may run out under a working holder) are constants of `GroupLifecycle`. They are
  assumptions about the environment that the code does not enforce; each run says what
  it assumes, and the theorem `RulesKept` assumes neither.
- A worker of `Redelivery` takes a job together with its `retryCount`, the jobs start with
  their retries used up, and a requeue goes straight to the ready queue; leases and backoffs are in the other modules.
- Libraries, from how the code uses them: NestJS runs the `onModuleInit` hooks of one module
  in the order of its providers and, on the way out, `onModuleDestroy` of all modules
  before `onApplicationShutdown` of any; `@nestjs/event-emitter` 2.0.0 calls listeners
  synchronously; the `take(2)` of `RetryInterceptor` completes the response at the second
  error while the handler is run a third time; `got` repeats a GET up to twice by itself.
  No handler of `apps/api` uses all of the interceptors at once: `Requests` shows how the
  libraries fit together. When an `onModuleDestroy` hook throws, NestJS calls no further
  hook and ends the process.

## Runs

States are distinct states; every run takes less than three minutes on two cores.

| Run | Files | Instance | Question and answer |
|---|---|---|---|
| `fair_queue` | `FairQueue.cfg`, `MCFairQueue` | 4 jobs of 2 groups (3 + 1), levels 1 and 3, unequal base priorities, alpha 1, clock to 3; 126 000 | No group with jobs is in no level (`NoStrandedGroup`); a fetch takes a job that waits, and nothing only when none does (`ActsAsSet`); `totalJobs` = waiting + running + done (`GroupCounters`); a younger group is served first only within the bound that the boost and the base priority give (`OvertakingBounded`); every waiting job is served (`EveryJobServed`) |
| `backpressure` | `Backpressure.cfg`, `MCBackpressure` | 3 jobs of 2 groups, 2 fetchers, 2 dispatchers, ready maximum 1, batch 2, 1 retry; 389 000 | Every dispatcher between its look at the queue and its move has a batch in reserve (`ReserveForArmed`); no job in two places (`JobInOnePlace`); the congestion counter is never above the group's non-ready jobs (`CounterNeverOver`); a job disappears only while a fetcher holds it, with an unanswered dequeue, or with a worker that has released its lease (`LossOnlyInHands`); every non-ready job reaches a worker (`BackoffEnds`) |
| `group` | `Group.cfg`, `MCGroupLifecycle` | 2 dead-lettered jobs and the orphan of another group, 2 watch cycles, 1 failure, no TTL under a working holder, no work before the submission ends; 804 000 | One aggregation at a time (`AggregationExclusive`); a completed group's result has all jobs but one, at most, for each foreign orphan (`CompletedCoversJobs`); no timeout during an aggregation (`NoFailureDuringAggregation`); only `ack.lua` breaks the transition rules (`OnlyAckBreaksRules`); the group reaches a terminal state (`GroupEnds`) |
| `group_stuck` | `GroupStuck.cfg`, `MCGroupLifecycle` | 2 completed jobs, 1 watcher, 1 crash | Violated: a group left in AGGREGATING is taken up again |
| `group_early` | `GroupEarly.cfg`, `MCGroupLifecycle` | 2 completed jobs that may end while the submission goes on | Violated: a completed group's result has all jobs |
| `reliable_queue` | `ReliableQueue.cfg`, `MCReliableQueue` | 2 jobs of 2 groups, 2 workers, 1 retry, 1 recovery, 2 crashes, 1 stall per job; 2.9 million with symmetry | A lease has its hash, and the hash describes its job unless the worker had peeked another one (`LeasesDescribeJobs`); only after that does the end of an orphan go to another group (`AstrayNeedsRace`); every handling beyond the first needs a stall (`DuplicatesNeedStalls`); the retry count is bounded by its maximum, the crashes and the stalls (`RetriesBounded`); a job disappears only with a worker that has released it, or with one that was late for it (`LossOnlyAfterRelease`) |
| `reliable_live` | `ReliableLive.cfg`, `MCReliableQueue` | 2 jobs, 2 workers, no retries, 1 crash, 1 exception of the ack, 1 stall per job; 858 000 | Every handling that is owed to a job ends or is lost (`DebtsSettled`); all of it implements `JobDelivery` (`Delivered`) |
| `redelivery` | `Redelivery.cfg`, `MCRedelivery` | 2 jobs that have used up their first retries, 2 workers, 2 calls, 2 failures, each of them a burial, a requeue or for good, 1 stop of a call, pages of 2; 1.2 million with symmetry | A rewriting of the list is exact unless the list changed between its read and its delete, or it stopped (`RewriteExact`); the failures a result counts are named in it (`FailuresNamed`); a job is handled exactly once, and once more for every push (`HandlingsNeedRetries`); a result lacks no more jobs than there were retries (`EarlyOnlyByRetries`); a later result never has less than an earlier one (`ResultsOnlyGrow`) |
| `admission` | `Admission.cfg`, `MCAdmission` | 3 jobs of 2 groups, 2 fetchers, 2 workers, rate 2 per second, keys live 2 seconds, clock to 2, 1 retry, 1 lost answer; 1.6 million with symmetry | The rate is kept unless a call is later than the keys outlive their window (`RateKept`), and until then global and group counters agree (`CountersAgree`); the statistics show the counter (`StatsAgree`); a second copy of a job, and a counter above the jobs that wait, are paid for by lost answers (`CopiesNeedLostAnswers`, `DriftNeedsLostAnswers`) |
| `instance` | `Instance.cfg`, `MCApplicationInstance` | 1 job, which recovery may take from a worker at work on it, 2 workers, batch 2, custom processors, 1 call that throws before QUIT is done; 894 000 | An exit within the grace period leaves no worker in its loop (`ExitWaitsForLoops`); a shutdown ends without the grace period (`ShutdownEnds`) |
| `requests` | `Requests.cfg`, `MCRequests` | a GET and a POST that use one client of either kind, one retry, `got` limit 1, 2 faults; 1.1 million | Requests per call are bounded (`RequestsBounded`) and are the call's own unless its client was reconfigured meanwhile (`RequestsAreOwn`); listeners hear of what has happened (`EventsMatchOutcome`); a change is made twice only after it was given up in doubt (`RepeatsNeedDoubt`); a call ends or hangs in a body of fetch (`CallsEnd`) |
| `requests_multiplied` | `RequestsMultiplied.cfg`, `MCRequests` | as `requests` | Violated: one request per attempt |

The type invariant of `Redelivery` (`TypeOK`) is checked by its run and proved, those of the
other modules are proved, for every value of the constants (see [proofs](#proofs)).

**Why the bounds are enough.** `fair_queue`: two levels and two groups are what it takes
for one group to be in several levels and to pass the other; a group of three jobs has
scores with three different values of `remaining` (`Scale` = 6 makes them exact), and
level 2 behaves like the others. `backpressure`: `ReserveForArmed` is tight with three
jobs (a push at the limit breaks it); the bound of the queue that follows from it would
need five jobs to be reached, and is proved instead (`ReadyQueueBounded`). `group`: two
jobs make the difference between the last ack and an earlier one; two watchers and two
deliveries are four contenders for one lock, and the foreign orphan takes the place of one of
the group's own jobs, whose delivery may stay away; the one failure crashes the finalizer in
the middle of an aggregation. `reliable_queue`: two workers and two jobs
are the smallest instance in which one worker peeks what the other pops, and in which a
late ack hits the other's lease; the second crash is needed for the
loss of a job whose lease somebody else has released. `redelivery`: two calls race for one entry, a second
burial changes the list in between, or a job that a call has reset is requeued by its worker,
and pages of two are a full one and an empty one with two results, and more with retries.
`admission`: window, time to live and backoffs are the defaults of `BulkActionConfig` in
seconds; with a rate of two the third job is
limited and the share of two groups is one; three seconds of clock are a window, its
successor and the expiry of its keys. `instance`: two workers are needed for one that has
ended while the other has not, and for a job that recovery gives to the second one. `requests`: a stale builder needs two calls of one client;
two faults reach the third execution of `RetryInterceptor`. Every property of a passing run
has a mutant of the code in `PROJECT.json` that breaks it under the same bounds.

**Deadlock** is checked for `fair_queue` and `backpressure`, where fetchers always have a
step. The other runs have it off: when the group is finished, all jobs or calls are done,
or the process has ended, nothing is left to do. **Symmetry** (workers, fetchers, calls,
jobs) is used in runs without liveness properties only.

**Bounds in guards**: `MaxNow`, `MaxFailures`, `MaxCrashes`, `MaxThrows`, `MaxStalls`,
`MaxStops`, `MaxLost`, `MaxFaults`; they bound the environment, not the code.

## Fairness

- Loops (`WF` on `Dequeue`, `FetcherStep`, `WorkerStep`, `AgentStep`, `Recovery`,
  `DispatchCapacity`, `WorkerTake`): `setInterval` and `while` loops run as long as the
  application does, and an await returns or throws.
- `SF` on `DispatchMove`: a dispatch may fail, repeatedly, which takes the dispatcher
  out of the state in which it moves; it does not fail for ever.
- `WF` on `WorkerStep(j)`: `jobTimeoutMs` ends every job, and each later call answers or throws.
- `GroupLifecycle` assumes of the end of a job only that it goes on once it has begun
  (`pc[a] # "wait"`): a job may be lost, or end for another group, and `GroupEnds` holds
  nevertheless, by the timeout.
- `WF` on `LockExpires`, `TimeoutPasses`, `AggregationGoesStale`, `DeadlinePasses`,
  `Tick`: time passes. In `ReliableQueue` a deadline that passes under a live worker is
  bounded by `MaxStalls`, so that a lease is not assumed to run out by itself.
- `ApplicationInstance`: `WF` on the hooks, the exit and the steps of each worker, since a
  call answers or throws and `jobTimeoutMs` ends a processor. Nothing is assumed of the
  grace period, so that `ShutdownEnds` does not rest on it.
- `Requests`: one `WF` for everything that is neither a fault nor the start of a call.
  Timers fire, promises resolve, the database answers; every behaviour is finite, so that
  what is not taken stays enabled and one condition is enough.
- No fairness for clients, heartbeats, failures, crashes, lost answers and the verdict of
  the rate limiter. `Redelivery` and `Admission` state safety only.

## Refinement

`JobDelivery` says what the reliable queue promises of a job without naming workers, leases
or queues: it is owed one handling when it is submitted; a handling ends, is lost, or is
late; and only for having been late may it be owed once more. `ReliableDelivery` maps
`ReliableQueue` to it: owed are the places of a job in the ready and the non-ready queue,
the workers that have it, a lease that no worker stands for any more, and an orphan whose
end is still to be recorded; `late` are the deadlines that passed under a live worker.
The run `reliable_live` checks that every step of `Length → Peek → ReadPeeked → Pop → …`,
of recovery and of every crash is a step of `JobDelivery` or a stutter (`Delivered`), and
`ReliableQueueProofs` proves it for all constants (`QueueDelivers`), and what it implies
(`EndsBounded`): no job ends, or is still owed, more often than it was late, and once.

## Where the code and its documents disagree

Three runs check a sentence of the documents against what the code does and find it
violated; `PROJECT.json` quotes the lines.

- `group_early`: `totalJobs` grows while `submitBulkJobs` enqueues, so that workers that
  keep up with it complete the group with a part of its jobs.
- `group_stuck`: a late `ack` sets a group AGGREGATING that has timed out and that the
  watcher has dropped; if the instance stops then, no watcher takes it up.
- `requests_multiplied`: `GotClient` leaves the retries of `got` on, so that a GET is sent
  up to three times within every attempt of `RetryExecutor`.

The passing runs state what holds instead of other sentences:

- A job that `admit` rejects has left the fair queue and is not put back
  (`LossOnlyInHands`); `doc/spike_load/step2-backpressure-rate-limiting.md:1837` says
  that nothing is lost because it is in flight already.
- The lease is given up before the job is requeued or recorded (`LossOnlyAfterRelease`);
  `doc/spike_load/step6-reliable-queue.md:72` says that no job is lost.
- `dequeue` reads the hash of the head it has peeked and pops whatever is the head later, so
  that a lease may carry the group and the retry count of another job;
  `test/reliable-queue/ReliableQueueService.spec.ts:98` expects those of the job. If such a
  job is orphaned and dead-lettered, `OrphanRecoveryService.ts:122` records and acknowledges it
  for the wrong group, which then completes without one of its own jobs, while the right one
  waits for its timeout. `LeasesDescribeJobs` and `AstrayNeedsRace` say that it takes another
  worker between peek and pop, `RetriesBounded` how far the count can go, and
  `CompletedCoversJobs` what a group can lose by it; `doc/spike_load/step5-aggregator-watcher.md:88`
  has all jobs done when a group is aggregated.
- `AFTER_ROLLBACK` is not heard on rollback only, as
  `doc/event-emitter/TRANSACTIONAL_EVENT_EMITTER_PLAN.md:276` says (and :167, and the diagram at
  :199): the flush of `AFTER_COMMIT` is inside of the `try`, so that a listener that throws makes
  `TransactionService.ts:44` flush the rollback events of a committed transaction, and a commit
  whose answer is lost does too. `EventsMatchOutcome` says that these are the only two ways, and
  that the caller gets an error in each.
- A group does not stay COMPLETED: a watcher can aggregate when all results are recorded and the
  last `ack` is still on its way, which then sets AGGREGATING (`OnlyAckBreaksRules`);
  `doc/spike_load/step5-aggregator-watcher.md:89` has the final result settled then. What is
  settled is the content: `ResultIsWhole`.
- `readyQueueMaxSize` is passed by up to a batch for each instance (`ReadyQueueBounded`).
- The counter of non-ready jobs is at most, and not always, their number: a fixed backoff
  is not counted (`CounterNeverOver`), and after a lost answer it may be above it
  (`DriftNeedsLostAnswers`).
- `RedisService.onModuleDestroy` (`src/libs/redis/src/RedisService.ts:40`) closes the connection before
  `WorkerPoolService.onApplicationShutdown` waits for the workers, so that a job that is
  finished during the grace period cannot be recorded; the section on the graceful
  shutdown of `doc/spike_load/step4-worker-pool.md` lets it finish. `ShutdownEnds` says that
  the shutdown at least ends.

## Proofs

All theorems are for arbitrary values of the constants, from the named assumptions of
the modules only (`FairQueueAssumption`, `BackpressureAssumption`,
`GroupLifecycleAssumption`, `ReliableQueueAssumption`, `RedeliveryAssumption`,
`AdmissionAssumption`, `InstanceAssumption`, `ClientAssumption`, `EventsAssumption`,
`ServerAssumption`): finite sets where cardinalities are taken (jobs,
groups, workers, fetchers, calls of the dead letter service), natural numbers where the configuration has them,
`GroupOf` total, a time to live that is not shorter than the window. TLC evaluates each of
them on the instance of its run. Every inductive invariant below was checked by TLC on that
instance before it was proved.

| Module | Theorems | Argument |
|---|---|---|
| `FairQueueProofs` | `TypeCorrect`, `NoGroupStranded` | `NoStrandedGroup` is inductive together with the types. The crux is `RescoredKeepsWaiting`: in the level that serves, the groups removed on the way come before the best waiting one, hence have empty lists; and the levels above are emptied only because nothing in them waits |
| | `ListsHoldPending`, `CountersExact`, `QueueIsASet` | A list without repetitions stays one under RPUSH of a new job and LPOP, and its range changes by that job; each status of a job then counts in exactly one term of `totalJobs`. With `NoStrandedGroup` this is what the set `fair` of `Backpressure` stands for: a job that waits is in a list, its group is in a level, so that `dequeue.lua` finds one |
| | `OvertakingIsBounded` | `ScoresBounded`: a score lies between the base score of the moment at which it was set and that plus `alpha * (totalJobs - 1)`; `totalJobs` grows afterwards and only widens the interval. Whoever is served has the larger score, which leaves the bound after a division by `Scale` |
| `BackpressureProofs` | `TypeCorrect`, `ReserveHolds`, `ReadyQueueBounded` | The bound alone is not inductive: a dispatcher about to move could push beyond it. `ReserveForArmed`, length + batch for every dispatcher between its look and its move ≤ the bound, is; arming needs a queue below its maximum, and moving pays with the reserve |
| | `OnePlace`, `OnlyHandsLose` | `Placement`: the eight places of a job are disjoint, two fetchers never hold the same job, and what is anywhere has been submitted, so that a new job is nowhere. Every action then moves a job between two places, or takes it from a fetcher, an unanswered dequeue or a worker after its release |
| | `CounterBounded` | Each script that moves a job changes counter and queue by the same amount, or the counter by less; the batch of `move-to-ready.lua` is counted group by group |
| `GroupLifecycleProofs` | `TypeCorrect`, `OneAggregates`, `NoTimeoutDuringAggregation`, `RulesKept` | `Exclusion` = whoever works under the aggregation lock holds it (`HolderWorks`), nothing happens before the first job (`NothingBeforeFirstJob`), a transition without a lock never expects AGGREGATING (`UnlockedExpect`), and a group that is aggregated is AGGREGATING (`StatusWhileAggregating`). The first two theorems after the types assume `ExpireLive = FALSE`; `RulesKept` does not: it needs only that watchers expect a status from which their change is allowed (`Expectations`) and that a delivery is acknowledged once (`AckedOnce`) |
| | `ResultCoversJobs`, `ResultIsWhole` | Results are recorded before they are acknowledged (`ResultsInOrder`), and nobody is on the way to an aggregation before the list lacks no more jobs than it has foreign orphans (`ResultComplete`, `NearlyWhole`): `successCount + failedCount` and `doneJobs` count both. It assumes `SubmitBeforeWork` (without it the run `group_early` is the counterexample) and that none of the group's own jobs is handled twice (`HandledOnce`, which the runs satisfy), and does not need the locks at all. `ResultIsWhole` says it of whatever result is stored at any time, also while a late `ack` has opened a completed group again |
| | `ProgressBounded` | Only an enqueued job is acknowledged, so that `doneJobs` is at most `totalJobs` and the foreign orphans at every point of the submission; again under `HandledOnce` |
| `ReliableQueueProofs` | `TypeCorrect`, `LeasesAreDescribed`, `AstrayEndsNeedRaces` | The types are split into queues, leases, counters and workers and preserved part by part. Each script that changes the domain of one of in-flight queue and hashes changes the other (`KeysAgree`); the heartbeat, which writes both keys, finds the hash whenever it finds the lease. A count that has been read of a job is at most what it is later (`PeekedBehind`, `RetriesGrow`), so that a hash written by a pop can mislead only about a job that was not peeked (`PopDescribes`). What recovery reads in it decides where the end of an orphan goes |
| | `DuplicatesBounded`, `QueueDelivers`, `EndsBounded` | `Accounted`: the copies of a job (places, workers, unattended lease, unrecorded end) and its ends are at most one more than its stalls, and a lease that has run out under its worker is already paid for (`LateCovered`). The refinement needs the same account to know which abstract step each action is |
| | `RetriesAreBounded` | What may still be added to `retryCount` is reserved: the workers that will count a failure (`Armed`) and the recovery of a lease (`Unsettled`) are part of the sum that is bounded |
| | `LossesAreNarrow` | `TraceKept`: while a worker has a job, the job is also somewhere else or with a worker that has released it, unless a second worker that had it has crashed |
| `RedeliveryProofs` | `TypeCorrect`, `HandlingsAreAsked` | The lists of a call are made of entries that exist (`LettersMade`); then every action moves one handling between queue, worker and result list, or adds one with its push |
| | `RewritesAreExact` | `EntriesExact`: an entry made is in the list, in a list that is being appended, in the hands of `retryAll`, or removed, and in exactly one of them; what `removeFromDLQ` has read is still the list when it deletes (`RewriteReady`), unless the run has raced |
| | `FailuresAreNamed`, `EarlyNeedsRetries`, `ResultsGrow` | `ResultsInv`: the counters agree with the list and with the acks under way (`Counted`), pages are a prefix of a list that only grows (`PrefixLoaded`), and a finalizer that has loaded everything has at least what is stored (`AllLoaded`). How many jobs may be missing follows from `HandlingsNeedRetries` by a sum over the jobs (`FewMissing`) |
| `AdmissionProofs` | `TypeCorrect`, `StatsShowCounter` | The types of the limiter need that what is taken back from a counter was counted before (`KeysCount`); `StatsAgree` is inductive with them, because every script that writes one count writes the other (`CounterFloor` for the two that are clamped at zero) |
| | `RateIsKept`, `StatusIsBounded`, `CountersAddUp` | `RateInv`: a key that counts outlives its window, the script takes back what is above the limit, and no call that was let in is forgotten while none was late. For the sums: the key of a group never expires before the global one (`CountersSum`) |
| | `ExtraCopiesArePaid`, `DriftIsBounded` | `CopiesKept`: one copy of a job, and one more at most for each lost answer. (The module rejects no job; losses are the subject of `LossOnlyInHands`.) The drift of a group is paid for together with the copies of its jobs: counter + copies beyond the first ≤ jobs that wait + lost answers, of which the first bound alone would not be inductive |
| `ApplicationProofs` | `TypeCorrect`, `LoopsOrdered`, `JobsHaveOneHolder`, `StatusIsTrue` | `PhaseInv` ties the loops to the phase of the application: nothing runs before the last hook (`HooksLeft`), everything runs and nobody has asked for a stop while it is up, a worker counts as stopped only when its loop has ended. `OneHolder` adds who has a job, and is inductive outside of `late`: a worker at its processor has the one lease of its job, a lease leaves with the release or with recovery, and recovery makes a job late exactly when it takes the lease of a worker at work. A worker that the status shows as busy has such a job, or one that is late |
| | `RequestsTypeCorrect`, `EventsFollowOutcome` | `Wellformed`: besides the types, calls, requests and executions refer to each other consistently (`Links`), and what an execution has emitted follows from the place it is at and from what has become of its transaction (`ExecutionInv`). Every action is first shown to have one of six shapes (`PostStep`, `RejectStep`, `EndStep`, `BeginStep`, `ReleaseStep`, `ExecutionStep`); the invariants are then kept shape by shape |
| | `RequestsAreBounded` | `Budgeted`: the requests of a call are at most its attempts so far times what one attempt may send, and those of the attempt under way; `got` sends again only what it has sent as a GET. A rejection closes the account of its attempt |
| | `OnlyOwnRequests` | `Owned`: a call that is active, and whose client nobody has taken, finds its own configuration there |
| | `RepeatsAreDoubted` | `Account`: of the executions of a call's change that have committed, may still commit, or are waited for, the requests that may start one, and the right of the call to send again without a doubt, there are at most one more than its doubts. Commits alone are not inductive: they come after the requests that lead to them |

`ApplicationProofs` holds both components of the application's own process, its life
cycle and what it does with requests; they share no variable.

The library has no theorems about `SumFunctionOnSet` or filtered lists, and its induction
theorems are out of the prover's reach (they take an operator). `CountingTheorems` gets what is
needed about every finite set by the smallest counterexample: the cardinalities of the sets
that refute a statement have a least element, from which one element can be taken away.

Only model-checked is liveness (`EveryJobServed`, `BackoffEnds`, `GroupEnds`, `DebtsSettled`,
`ShutdownEnds`, `CallsEnd`), since the prover handles neither fairness of this kind nor
ENABLED.

All invariants and action properties of the passing runs are theorems. Two proofs changed the
model: `LossOnlyAfterRelease` used to say that a job is lost only by a
worker that has released it, which TLC confirmed with one crash; with two, a worker that was
late can be the last one to have a job that the crashed one had released, and its own crash
loses it. The run has two crashes since. And `Answered`, what a client makes
of an answer, was a CASE with overlapping conditions, of which TLC took the first; the prover
could not know which, and they exclude each other now.

No module here declares a RECURSIVE operator.

## Not modelled

- `IdempotencyService` and `CongestionStatsService`: no caller in the application; what they
  would protect or report is not in this repository.
- The methods without a caller: `releaseFromNonReady`, `popReady`, `deactivateGroup`,
  `NonReadyQueueService.push` and `remove`. Statistics and queries that no decision reads.
- A group that `submitJob` alone has made, and a job whose hash is missing.
- The lengths of delays, and with them the backoff policy of `RetryExecutor`; the jitter.
- What processors, `map` and `reduce` of an application compute (`GroupResults` has the
  default aggregator).
- Controllers, entities, integrations and utilities: no protocol to check. The event
  publisher is one call of a broker, the listener an empty file.

## Plan

In this order:

1. `DistributedLock`: an abstract lock with fencing by token, implemented by the locks of
   `GroupLifecycle` while no TTL runs out under its holder.
2. The composition of admission, dispatching and recovery on one ready queue: its bound
   when recovery and dead-letter retries push without a look at it.
3. Groups of `submitJob`, and the branch of `Worker.tick` for a job without a hash.
