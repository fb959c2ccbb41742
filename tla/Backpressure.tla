---------------------------- MODULE Backpressure ----------------------------
(***************************************************************************)
(* Admission of jobs into the bounded ready queue: the fetchers of several *)
(* application instances (FetcherService, BackpressureService), the        *)
(* dispatchers that bring jobs back after a backoff (DispatcherService,    *)
(* move-to-ready.lua), the congestion counters (CongestionControlService,  *)
(* congestion-backoff.lua) and, reduced to what they do to these queues,   *)
(* the workers.                                                            *)
(*                                                                         *)
(* Every await of the TypeScript code is a step of its own; every Lua      *)
(* script is atomic.  The fair queue is a set here (see FairQueue) and the *)
(* verdict of the rate limiter is a free choice.  One unit of time is the  *)
(* second that congestion-backoff.lua multiplies by; the score of a        *)
(* non-ready job is the time left until it is due, and zero once it is.    *)
(* A Redis call that fails had no effect here, except for the dequeue of   *)
(* the fair queue, whose answer can be lost (Admission has the others).    *)
(***************************************************************************)
EXTENDS RedisSortedSet, Sequences, FiniteSets

CONSTANTS
  Jobs, Groups,
  GroupOf,      \* job.groupId
  Fetchers,     \* one FetcherService per application instance
  Dispatchers,  \* one DispatcherService per application instance
  ReadyMax,     \* config.backpressure.readyQueueMaxSize
  Batch,        \* config.backpressure.dispatchBatchSize
  GlobalRps,    \* config.backpressure.globalRps
  BaseBackoff,  \* config.congestion.baseBackoffMs
  MaxBackoff,   \* config.congestion.maxBackoffMs
  MaxRetry,     \* config.workerPool.maxRetryCount
  NoJob

ASSUME BackpressureAssumption ==
  /\ GroupOf \in [Jobs -> Groups]
  /\ IsFiniteSet(Jobs) /\ IsFiniteSet(Groups) /\ IsFiniteSet(Dispatchers)
  /\ ReadyMax \in Nat \ {0} /\ Batch \in Nat \ {0} /\ GlobalRps \in Nat \ {0}
  /\ BaseBackoff \in Nat /\ MaxBackoff \in Nat /\ MaxRetry \in Nat
  /\ NoJob \notin Jobs

VARIABLES
  submitted,    \* the jobs that BulkActionService has enqueued
  fair,         \* the jobs in the fair queue
  ready,        \* the ready queue, a list
  nonReady,     \* the non-ready queue, a sorted set of jobs
  running,      \* the jobs workers have taken and whose lease they hold
  released,     \* the jobs whose handler has given up the lease, and goes on
  counted,      \* those of them whose retry is counted, and not yet requeued
  done,         \* the jobs workers have acknowledged
  retryCount,   \* job.retryCount
  count,        \* group -> congestion:{group}:non-ready-count
  activeGroups, \* the set active-groups
  resetDue,     \* groups whose completion is seen, resetGroupStats still to run
  fetcher,      \* fetcher -> the call it makes next
  held,         \* fetcher -> the job in its local variable
  dispatcher    \* dispatcher -> the call it makes next

queues == <<fair, ready, nonReady, running, released, counted, done>>
vars == <<submitted, queues, retryCount, count, activeGroups, resetDue,
          fetcher, held, dispatcher>>

-----------------------------------------------------------------------------
Larger(a, b) == IF a >= b THEN a ELSE b
Smaller(a, b) == IF a <= b THEN a ELSE b

HasCapacity == Len(ready) < ReadyMax

NonReadyOf(g) == {j \in DOMAIN nonReady : GroupOf[j] = g}

\* congestion-backoff.lua: base + floor(count / speed) seconds, at most the
\* maximum, where speed is the group's share of the global rate.
Backoff(n) ==
  LET speed == Larger(1, GlobalRps \div Larger(1, Cardinality(activeGroups)))
  IN  Smaller(BaseBackoff + n \div speed, MaxBackoff)

Init ==
  /\ submitted = {} /\ fair = {}
  /\ running = {} /\ released = {} /\ counted = {} /\ done = {}
  /\ ready = <<>>
  /\ nonReady = EmptyZSet
  /\ retryCount = [j \in Jobs |-> 0]
  /\ count = [g \in Groups |-> 0]
  /\ activeGroups = {} /\ resetDue = {}
  /\ fetcher = [f \in Fetchers |-> "idle"]
  /\ held = [f \in Fetchers |-> NoJob]
  /\ dispatcher = [d \in Dispatchers |-> "idle"]

\* A client submits a job: it is in the fair queue.
Submit(j) ==
  /\ j \notin submitted
  /\ submitted' = submitted \cup {j}
  /\ fair' = fair \cup {j}
  /\ UNCHANGED <<ready, nonReady, running, released, counted, done, retryCount, count, activeGroups,
                 resetDue, fetcher, held, dispatcher>>

\* congestion-backoff.lua: count the job, then put it aside.
CongestionBackoff(j) ==
  LET n == count[GroupOf[j]] + 1
  IN  /\ count' = [count EXCEPT ![GroupOf[j]] = n]
      /\ nonReady' = ZAdd(nonReady, j, Backoff(n))

\* What addToNonReady does when congestion control is disabled or its script
\* throws: a fixed backoff, and the job is not counted.
FixedBackoff(j) ==
  /\ nonReady' = ZAdd(nonReady, j, BaseBackoff)
  /\ UNCHANGED count

AddToNonReady(j) == CongestionBackoff(j) \/ FixedBackoff(j)

-----------------------------------------------------------------------------
(* FetcherService.fetchCycle and BackpressureService.admit *)

Goto(f, pc, job) ==
  /\ fetcher' = [fetcher EXCEPT ![f] = pc]
  /\ held' = [held EXCEPT ![f] = job]

\* 1. hasCapacity before a dequeue; without capacity the cycle pauses.
FetchCapacity(f) ==
  /\ fetcher[f] = "idle" /\ HasCapacity
  /\ Goto(f, "dequeue", NoJob)
  /\ UNCHANGED <<submitted, queues, retryCount, count, activeGroups, resetDue, dispatcher>>

\* 2. The job leaves the fair queue; with none there the cycle ends.
FetchDequeue(f) ==
  /\ fetcher[f] = "dequeue"
  /\ \/ \E j \in fair : fair' = fair \ {j} /\ Goto(f, "admit", j)
     \/ fair = {} /\ UNCHANGED fair /\ Goto(f, "idle", NoJob)
  /\ UNCHANGED <<submitted, ready, nonReady, running, released, counted, done, retryCount, count,
                 activeGroups, resetDue, dispatcher>>

\* 3. admit looks at the capacity again; a rejected job is held by nobody.
AdmitCapacity(f) ==
  /\ fetcher[f] = "admit"
  /\ IF HasCapacity THEN Goto(f, "rate", held[f]) ELSE Goto(f, "idle", NoJob)
  /\ UNCHANGED <<submitted, queues, retryCount, count, activeGroups, resetDue, dispatcher>>

\* rate-limit-check.lua registers the group before it decides.
AdmitRate(f) ==
  /\ fetcher[f] = "rate"
  /\ activeGroups' = activeGroups \cup {GroupOf[held[f]]}
  /\ \E verdict \in {"push", "backoff"} : Goto(f, verdict, held[f])
  /\ UNCHANGED <<submitted, queues, retryCount, count, resetDue, dispatcher>>

\* Mutant of PushAllowed: one job too many.
PushAllowedAtLimit == Len(ready) <= ReadyMax

\* ready-queue-push.lua compares the length once more, atomically.
PushAllowed == Len(ready) < ReadyMax

\* ready-queue-push.lua; at the limit the job is rejected.
AdmitPush(f) ==
  /\ fetcher[f] = "push"
  /\ ready' = IF PushAllowed THEN Append(ready, held[f]) ELSE ready
  /\ Goto(f, "idle", NoJob)
  /\ UNCHANGED <<submitted, fair, nonReady, running, released, counted, done, retryCount, count,
                 activeGroups, resetDue, dispatcher>>

AdmitBackoff(f) ==
  /\ fetcher[f] = "backoff"
  /\ AddToNonReady(held[f])
  /\ Goto(f, "idle", NoJob)
  /\ UNCHANGED <<submitted, fair, ready, running, released, counted, done, retryCount, activeGroups,
                 resetDue, dispatcher>>

\* A call throws or the process stops: fetchCycle logs the error, or nobody does.
FetchFails(f) ==
  /\ fetcher[f] # "idle"
  /\ Goto(f, "idle", NoJob)
  /\ UNCHANGED <<submitted, queues, retryCount, count, activeGroups, resetDue, dispatcher>>

\* dequeue.lua has run and its answer is lost: the job is in no queue.
FetchUnanswered(f) ==
  /\ fetcher[f] = "dequeue"
  /\ \E j \in fair : fair' = fair \ {j}
  /\ Goto(f, "idle", NoJob)
  /\ UNCHANGED <<submitted, ready, nonReady, running, released, counted, done, retryCount,
                 count, activeGroups, resetDue, dispatcher>>

-----------------------------------------------------------------------------
(* DispatcherService.dispatch; the flag `dispatching' is dispatcher[d] # "idle" *)

DispatchCapacity(d) ==
  /\ dispatcher[d] = "idle" /\ HasCapacity
  /\ dispatcher' = [dispatcher EXCEPT ![d] = "move"]
  /\ UNCHANGED <<submitted, queues, retryCount, count, activeGroups, resetDue, fetcher, held>>

\* Mutant of CountAfterMove: the counter is not decremented.
CountUnchanged(moved) == count

\* move-to-ready.lua decrements once for every job moved, never below zero.
CountAfterMove(moved) ==
  [g \in Groups |-> Larger(0, count[g] - Cardinality({j \in Range(moved) : GroupOf[j] = g}))]

\* Mutant of DueBatches: the script waits for a full batch.
FullBatches == {<<>>} \cup {m \in [1..Batch -> ZDue(nonReady, 0)] : IsInjective(m)}

\* The batches the script can move: due jobs, at most Batch of them, all of
\* them when they are fewer.  How late a job is decides the order in Redis; the
\* score does not tell it here, so every order is possible.
DueBatches ==
  {m \in UNION {[1..n -> ZDue(nonReady, 0)] : n \in 0..Batch} :
     IsInjective(m) /\ (Len(m) = Batch \/ Range(m) = ZDue(nonReady, 0))}

\* Mutant of Moved: the list is trimmed to its maximum.
MovedAndTrimmed(moved) == SubSeq(ready \o moved, 1, Smaller(Len(ready \o moved), ReadyMax))

\* RPUSH of every job moved.
Moved(moved) == ready \o moved

\* Mutant of Remaining: the jobs stay in the sorted set.
RemainingAll(moved) == nonReady

\* ZREM of every job moved.
Remaining(moved) == ZRem(nonReady, Range(moved))

\* move-to-ready.lua: no look at the length of the ready queue.
DispatchMove(d) ==
  /\ dispatcher[d] = "move"
  /\ \E moved \in DueBatches :
       /\ ready' = Moved(moved)
       /\ nonReady' = Remaining(moved)
       /\ count' = CountAfterMove(moved)
  /\ dispatcher' = [dispatcher EXCEPT ![d] = "idle"]
  /\ UNCHANGED <<submitted, fair, running, released, counted, done, retryCount, activeGroups,
                 resetDue, fetcher, held>>

\* The call of dispatch throws, or the instance is restarted.
DispatchFails(d) ==
  /\ dispatcher[d] # "idle"
  /\ dispatcher' = [dispatcher EXCEPT ![d] = "idle"]
  /\ UNCHANGED <<submitted, queues, retryCount, count, activeGroups, resetDue, fetcher, held>>

-----------------------------------------------------------------------------
(* Workers and time *)

WorkerTake ==
  /\ ready # <<>>
  /\ running' = running \cup {Head(ready)}
  /\ ready' = Tail(ready)
  /\ UNCHANGED <<submitted, fair, nonReady, released, counted, done, retryCount, count,
                 activeGroups, resetDue, fetcher, held, dispatcher>>

\* reliableAck or reliableNack: from here on recovery cannot bring the job back.
WorkerRelease(j) ==
  /\ j \in running
  /\ running' = running \ {j}
  /\ released' = released \cup {j}
  /\ UNCHANGED <<submitted, fair, ready, nonReady, counted, done, retryCount, count,
                 activeGroups, resetDue, fetcher, held, dispatcher>>

\* handleJobFailed below the retry limit: HINCRBY retryCount.
WorkerCount(j) ==
  /\ j \in released /\ retryCount[j] < MaxRetry
  /\ retryCount' = [retryCount EXCEPT ![j] = @ + 1]
  /\ released' = released \ {j}
  /\ counted' = counted \cup {j}
  /\ UNCHANGED <<submitted, fair, ready, nonReady, running, done, count, activeGroups,
                 resetDue, fetcher, held, dispatcher>>

\* Two calls later: BackpressureService.requeue.
WorkerRequeue(j) ==
  /\ j \in counted
  /\ counted' = counted \ {j}
  /\ AddToNonReady(j)
  /\ UNCHANGED <<submitted, fair, ready, running, released, done, retryCount, activeGroups,
                 resetDue, fetcher, held, dispatcher>>

\* fairQueue.ack of handleJobComplete, which tells whether all jobs known so far
\* are done, or, at the retry limit, of handleDeadLetter, which ignores the answer.
WorkerFinish(j) ==
  LET g == GroupOf[j]
  IN /\ j \in released
     /\ released' = released \ {j}
     /\ done' = done \cup {j}
     /\ \/ resetDue' = IF {i \in submitted : GroupOf[i] = g} \subseteq done'
                         THEN resetDue \cup {g} ELSE resetDue
        \/ retryCount[j] = MaxRetry /\ UNCHANGED resetDue
     /\ UNCHANGED <<submitted, fair, ready, nonReady, running, counted, retryCount, count,
                    activeGroups, fetcher, held, dispatcher>>

\* A call after the release throws, and handleJobFailed or handleJobComplete logs
\* the error; or the process stops there.
WorkerDrops(j) ==
  /\ j \in released \cup counted
  /\ released' = released \ {j}
  /\ counted' = counted \ {j}
  /\ UNCHANGED <<submitted, fair, ready, nonReady, running, done, retryCount, count,
                 activeGroups, resetDue, fetcher, held, dispatcher>>

\* handleJobComplete, next call: CongestionControlService.resetGroupStats.
ResetStats(g) ==
  /\ g \in resetDue
  /\ resetDue' = resetDue \ {g}
  /\ count' = [count EXCEPT ![g] = 0]
  /\ UNCHANGED <<submitted, queues, retryCount, activeGroups, fetcher, held, dispatcher>>

\* A second passes: every backoff that has not run out gets shorter.
Tick ==
  /\ ZDue(nonReady, 0) # DOMAIN nonReady
  /\ nonReady' = [j \in DOMAIN nonReady |-> Larger(0, nonReady[j] - 1)]
  /\ UNCHANGED <<submitted, fair, ready, running, released, counted, done, retryCount, count,
                 activeGroups, resetDue, fetcher, held, dispatcher>>

FetcherStep(f) ==
  \/ FetchCapacity(f) \/ FetchDequeue(f) \/ AdmitCapacity(f)
  \/ AdmitRate(f) \/ AdmitPush(f) \/ AdmitBackoff(f)

DispatcherStep(d) == DispatchCapacity(d) \/ DispatchMove(d)

WorkerStep(j) ==
  WorkerRelease(j) \/ WorkerCount(j) \/ WorkerRequeue(j) \/ WorkerFinish(j)

Next ==
  \/ \E j \in Jobs : Submit(j) \/ WorkerStep(j) \/ WorkerDrops(j)
  \/ \E f \in Fetchers : FetcherStep(f) \/ FetchFails(f) \/ FetchUnanswered(f)
  \/ \E d \in Dispatchers : DispatcherStep(d) \/ DispatchFails(d)
  \/ \E g \in Groups : ResetStats(g)
  \/ WorkerTake
  \/ Tick

\* The loops of the services run for as long as the application does, the
\* workers finish or fail every job they take, and no call fails for ever.
Fairness ==
  /\ \A f \in Fetchers : WF_vars(FetcherStep(f))
  /\ \A d \in Dispatchers : WF_vars(DispatchCapacity(d)) /\ SF_vars(DispatchMove(d))
  /\ WF_vars(WorkerTake) /\ WF_vars(Tick)
  /\ \A j \in Jobs : WF_vars(WorkerStep(j))

Spec == Init /\ [][Next]_vars /\ Fairness

-----------------------------------------------------------------------------
FetcherPCs == {"idle", "dequeue", "admit", "rate", "push", "backoff"}
Holding == {"admit", "rate", "push", "backoff"}

\* A fetcher has a job exactly between the dequeue and the end of admit.
FetchersTypeOK ==
  /\ fetcher \in [Fetchers -> FetcherPCs]
  /\ held \in [Fetchers -> Jobs \cup {NoJob}]
  /\ \A f \in Fetchers : held[f] \in Jobs <=> fetcher[f] \in Holding

\* The values the keys and the local variables can hold.
TypeOK ==
  /\ FetchersTypeOK
  /\ submitted \subseteq Jobs /\ fair \subseteq Jobs
  /\ running \subseteq Jobs /\ released \subseteq Jobs /\ counted \subseteq Jobs
  /\ done \subseteq Jobs
  /\ ready \in Seq(Jobs)
  /\ DOMAIN nonReady \subseteq Jobs /\ nonReady \in [DOMAIN nonReady -> Nat]
  /\ retryCount \in [Jobs -> 0..MaxRetry]
  /\ count \in [Groups -> Nat]
  /\ activeGroups \subseteq Groups /\ resetDue \subseteq Groups
  /\ dispatcher \in [Dispatchers -> {"idle", "move"}]

Armed == {d \in Dispatchers : dispatcher[d] = "move"}

\* Every dispatcher that has decided to move still has its batch in reserve:
\* move-to-ready.lua pushes on the strength of a length read one call earlier, in
\* which time fetchers may have filled the queue and the other dispatchers may
\* have decided the same.
ReserveForArmed ==
  Len(ready) + Batch * Cardinality(Armed) <= ReadyMax + Batch * Cardinality(Dispatchers)

\* What follows for the queue: it passes its configured maximum by at most one
\* dispatch batch per application instance.
ReadyQueueBound == Len(ready) <= ReadyMax + Batch * Cardinality(Dispatchers)

HeldJobs == {held[f] : f \in Fetchers} \ {NoJob}

\* The jobs that some queue, fetcher or worker still has, or that are done.
Placed ==
  fair \cup HeldJobs \cup Range(ready) \cup DOMAIN nonReady
    \cup running \cup released \cup counted \cup done

\* A job is in one place at a time: admission, dispatching and retries, on all
\* instances together, never put one job where two workers could find it.
JobInOnePlace ==
  /\ IsInjective(ready)
  /\ \A f, g \in Fetchers : f # g /\ held[f] # NoJob => held[f] # held[g]
  /\ LET places == <<fair, HeldJobs, Range(ready), DOMAIN nonReady,
                     running, released, counted, done>>
     IN  \A p, q \in DOMAIN places : p # q => places[p] \cap places[q] = {}

\* The congestion counter of a group never exceeds the jobs of the group that
\* wait in the non-ready queue, so that no backoff is longer than the actual
\* congestion: neither the fixed backoffs, which are not counted, nor a reset
\* between the ack and the reset call, nor batches of mixed groups break it.
CounterNeverOver == \A g \in Groups : count[g] <= Cardinality(NonReadyOf(g))

\* The jobs in the fair queue while a dequeue goes unanswered: one of them has
\* left it without anybody knowing.
Unanswered == {j \in fair : \E f \in Fetchers : fetcher[f] = "dequeue" /\ fetcher'[f] = "idle"}

\* A job that disappears from the system was in somebody's hands: in the local
\* variable of a fetcher, in the answer of a dequeue that did not arrive, or with
\* a worker that has released its lease and not yet requeued or finished it.  No
\* script drops one: not the moves of dispatchers into a queue that is full, not
\* backoffs, and no failure while a job waits or is processed under its lease.
LossOnlyInHands ==
  [][Placed \ Placed' \subseteq HeldJobs \cup Unanswered \cup released \cup counted]_vars

\* No job waits for ever: from some time on nothing is in the non-ready queue or
\* in the ready queue, although full dispatches are skipped, fetchers take the
\* free places and failed jobs come back.
BackoffEnds == <>[](DOMAIN nonReady = {} /\ ready = <<>>)
=============================================================================
