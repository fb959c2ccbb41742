-------------------------- MODULE BulkActionConfig ---------------------------
(***************************************************************************)
(* The configuration of BulkActionModule: the defaults of its sections,    *)
(* the merge of register, and the relations between values that the other  *)
(* modules rely on.  Nothing in the code checks these relations: an        *)
(* application that overrides a default is outside of what is modelled     *)
(* when it breaks one.                                                     *)
(*                                                                         *)
(* Left out are redis, which no module depends on, and the retentions,     *)
(* which are not compared with another value.                              *)
(***************************************************************************)
EXTENDS Integers, TLC

DEFAULT_BACKPRESSURE_CONFIG ==
  [globalRps |-> 10000, readyQueueMaxSize |-> 10000, rateLimitWindowSec |-> 1,
   rateLimitKeyTtlSec |-> 2, dispatchIntervalMs |-> 100, dispatchBatchSize |-> 100,
   defaultBackoffMs |-> 1000, maxBackoffMs |-> 60000]

DEFAULT_CONGESTION_CONFIG ==
  [enabled |-> TRUE, baseBackoffMs |-> 1000, maxBackoffMs |-> 120000]

DEFAULT_WORKER_POOL_CONFIG ==
  [workerCount |-> 10, fetchIntervalMs |-> 200, fetchBatchSize |-> 50, workerTimeoutSec |-> 5,
   jobTimeoutMs |-> 30000, maxRetryCount |-> 3, shutdownGracePeriodMs |-> 30000]

DEFAULT_WATCHER_CONFIG ==
  [intervalMs |-> 5000, groupTimeoutMs |-> 3600000, lockTtlMs |-> 30000, lockRetryCount |-> 3,
   lockRetryDelayMs |-> 200, staleGroupThresholdMs |-> 60000]

DEFAULT_RELIABLE_QUEUE_CONFIG ==
  [ackTimeoutMs |-> 40000, orphanRecoveryIntervalMs |-> 5000, orphanRecoveryBatchSize |-> 100,
   maxRetryCount |-> 3, workerPollIntervalMs |-> 200]

Defaults ==
  [fairQueue |-> [alpha |-> 10000], backpressure |-> DEFAULT_BACKPRESSURE_CONFIG,
   congestion |-> DEFAULT_CONGESTION_CONFIG, workerPool |-> DEFAULT_WORKER_POOL_CONFIG,
   watcher |-> DEFAULT_WATCHER_CONFIG, reliableQueue |-> DEFAULT_RELIABLE_QUEUE_CONFIG]

\* register: what is given replaces a default field by field, and a section that
\* is not given is the default.
MergedConfig(given) ==
  [section \in DOMAIN Defaults |->
     IF section \in DOMAIN given THEN given[section] @@ Defaults[section] ELSE Defaults[section]]

\* Worker.executeWithHeartbeat: Math.floor(jobTimeoutMs * 0.6).
HeartbeatIntervalMs(config) == (config.workerPool.jobTimeoutMs * 3) \div 5

-----------------------------------------------------------------------------
\* A rate-limit key outlives the window it counts (RateLimiter), a batch and a
\* queue have room for a job (Backpressure), and a backoff is within its maximum.
AdmissionIsUsable(config) ==
  LET b == config.backpressure
      c == config.congestion
  IN /\ b.rateLimitKeyTtlSec >= b.rateLimitWindowSec /\ b.rateLimitWindowSec > 0
     /\ b.globalRps > 0 /\ b.readyQueueMaxSize > 0 /\ b.dispatchBatchSize > 0
     /\ c.baseBackoffMs <= c.maxBackoffMs

\* A job is extended, and timed out, before its lease is over: only a worker that
\* stalls between two of its steps is late (ReliableQueue).
LeaseIsUsable(config) ==
  /\ HeartbeatIntervalMs(config) < config.workerPool.jobTimeoutMs
  /\ config.workerPool.jobTimeoutMs < config.reliableQueue.ackTimeoutMs
  /\ config.reliableQueue.orphanRecoveryBatchSize > 0

\* A watcher looks for a stale aggregation when the lock of an instance that has
\* gone down is free again, and long before the group times out (GroupLifecycle).
WatcherIsUsable(config) ==
  LET w == config.watcher
  IN /\ w.lockRetryCount * w.lockRetryDelayMs < w.lockTtlMs
     /\ w.lockTtlMs < w.staleGroupThresholdMs
     /\ w.staleGroupThresholdMs + w.intervalMs < w.groupTimeoutMs

ConfigIsUsable(config) ==
  AdmissionIsUsable(config) /\ LeaseIsUsable(config) /\ WatcherIsUsable(config)

ASSUME DefaultsAreUsable == ConfigIsUsable(Defaults)
=============================================================================
