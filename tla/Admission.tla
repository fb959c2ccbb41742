----------------------------- MODULE Admission -------------------------------
(***************************************************************************)
(* The rate limiter and congestion control at work: fetchers admit jobs    *)
(* under the limits of RateLimiter, put the others aside with a backoff    *)
(* (CongestionControlService), the dispatcher brings them back, and        *)
(* workers requeue the jobs that fail.                                     *)
(*                                                                         *)
(* Backpressure has the capacity of the ready queue and calls that fail    *)
(* without an effect; here the queue has room, and the answer of a script  *)
(* may be lost after the script has run.  One unit of time is a second.    *)
(***************************************************************************)
EXTENDS RateLimiter, RedisSortedSet, SequencesExt

CONSTANTS
  Jobs,
  Fetchers, Workers,
  BaseBackoff, MaxBackoff, \* config.congestion
  MaxRetry,                \* config.workerPool.maxRetryCount
  MaxLost,                 \* bound: answers that are lost
  NoJob

ASSUME AdmissionAssumption ==
  /\ Calls = Jobs /\ CallGroup \in [Jobs -> Groups] /\ NoJob \notin Jobs
  /\ IsFiniteSet(Jobs) /\ IsFiniteSet(Groups) /\ IsFiniteSet(Fetchers \cup Workers)
  /\ Fetchers \cap Workers = {}
  /\ GlobalRps \in Nat \ {0} /\ Window \in Nat \ {0} /\ Ttl \in Nat /\ Ttl >= Window
  /\ MaxNow \in Nat /\ MaxRetry \in Nat

VARIABLES
  ready,     \* the ready queue
  nonReady,  \* the non-ready queue: job -> the time at which it is due
  count,     \* congestion:{group}:non-ready-count
  shown,     \* group -> currentNonReadyCount of congestion:{group}:stats
  retries,   \* job.retryCount
  ended,     \* job -> how often it was completed
  pc, has,   \* fetcher or worker -> the call it makes next, and its job
  lost       \* job -> how many answers about it were lost

queueVars == <<ready, nonReady, count, shown>>
vars == <<now, limiterVars, queueVars, retries, ended, pc, has, lost>>

Actors == Fetchers \cup Workers
GroupJobs(g) == {j \in Jobs : CallGroup[j] = g}

Init ==
  /\ now = 0 /\ LimiterInit
  /\ ready = <<>> /\ nonReady = EmptyZSet
  /\ count = [g \in Groups |-> 0] /\ shown = count
  /\ retries = [j \in Jobs |-> 0] /\ ended = retries /\ lost = retries
  /\ pc = [a \in Actors |-> "idle"] /\ has = [a \in Actors |-> NoJob]

Goto(a, step, j) == pc' = [pc EXCEPT ![a] = step] /\ has' = [has EXCEPT ![a] = j]

-----------------------------------------------------------------------------
(* FetcherService and BackpressureService.admit *)

\* A job leaves the fair queue and checkRateLimit fixes its window.
Fetch(f, j) ==
  /\ pc[f] = "idle" /\ Ask(j)
  /\ Goto(f, "check", j)
  /\ UNCHANGED <<now, queueVars, retries, ended, lost>>

CheckRate(f) ==
  /\ pc[f] = "check" /\ Check(has[f])
  /\ Goto(f, IF verdict'[has[f]] = "allowed" THEN "push" ELSE "backoff", has[f])
  /\ UNCHANGED <<now, queueVars, retries, ended, lost>>

Push(f) ==
  /\ pc[f] = "push"
  /\ ready' = Append(ready, has[f])
  /\ Goto(f, "idle", NoJob)
  /\ UNCHANGED <<now, limiterVars, nonReady, count, shown, retries, ended, lost>>

-----------------------------------------------------------------------------
(* CongestionControlService.addToNonReady *)

\* congestion-backoff.lua and BackoffCalculator.calculate.
Backoff(n) ==
  Min({BaseBackoff + n \div Share(Cardinality(activeGroups)), MaxBackoff})

\* congestion-backoff.lua.
CongestionBackoff(j) ==
  LET g == CallGroup[j]
      n == count[g] + 1
  IN /\ count' = [count EXCEPT ![g] = n]
     /\ shown' = [shown EXCEPT ![g] = n]
     /\ nonReady' = ZAdd(nonReady, j, now + Backoff(n))
     /\ UNCHANGED ready

\* The script runs and answers.
AddCounted(a) ==
  /\ pc[a] = "backoff"
  /\ CongestionBackoff(has[a])
  /\ Goto(a, "idle", NoJob)
  /\ UNCHANGED <<now, limiterVars, retries, ended, lost>>

\* The script runs, and the call throws all the same.
AddUnanswered(a) ==
  /\ pc[a] = "backoff" /\ SumFunction(lost) < MaxLost
  /\ CongestionBackoff(has[a])
  /\ lost' = [lost EXCEPT ![has[a]] = @ + 1]
  /\ Goto(a, "fallback", has[a])
  /\ UNCHANGED <<now, limiterVars, retries, ended>>

\* The script does not run, or congestion control is disabled.
AddRefused(a) ==
  /\ pc[a] = "backoff"
  /\ Goto(a, "fallback", has[a])
  /\ UNCHANGED <<now, limiterVars, queueVars, retries, ended, lost>>

\* fixedBackoff: the job is not counted.
AddFixed(a) ==
  /\ pc[a] = "fallback"
  /\ nonReady' = ZAdd(nonReady, has[a], now + BaseBackoff)
  /\ Goto(a, "idle", NoJob)
  /\ UNCHANGED <<now, limiterVars, ready, count, shown, retries, ended, lost>>

-----------------------------------------------------------------------------
(* The dispatcher, the workers and time *)

\* Mutant of CountAfterMove: the counter is left to the reset.
CountKept(g) == count[g]

CountAfterMove(g) == Max({0, count[g] - 1})

\* Mutant of ShownAfterMove: the value that DECR answered.
ShownBelowZero(g) == count[g] - 1

ShownAfterMove(g) == Max({0, count[g] - 1})

\* Mutant of Remaining: the job stays in the sorted set.
RemainingAll(j) == nonReady

\* ZREM.
Remaining(j) == ZRem(nonReady, {j})

\* move-to-ready.lua, one job of its batch.
Dispatch(j) ==
  LET g == CallGroup[j]
  IN /\ j \in ZDue(nonReady, now)
     /\ nonReady' = Remaining(j)
     /\ ready' = Append(ready, j)
     /\ count' = [count EXCEPT ![g] = CountAfterMove(g)]
     /\ shown' = [shown EXCEPT ![g] = ShownAfterMove(g)]
     /\ UNCHANGED <<now, limiterVars, retries, ended, pc, has, lost>>

Take(w) ==
  /\ pc[w] = "idle" /\ ready # <<>>
  /\ Goto(w, "work", Head(ready))
  /\ ready' = Tail(ready)
  /\ UNCHANGED <<now, limiterVars, nonReady, count, shown, retries, ended, lost>>

\* handleJobFailed below the limit: count the retry, then BackpressureService.requeue.
Fail(w) ==
  /\ pc[w] = "work" /\ retries[has[w]] < MaxRetry
  /\ retries' = [retries EXCEPT ![has[w]] = @ + 1]
  /\ Goto(w, "backoff", has[w])
  /\ UNCHANGED <<now, limiterVars, queueVars, ended, lost>>

\* ack.lua: doneJobs, which counts every end of a job, against totalJobs.
GroupDone(g, ends) == SumFunctionOnSet(ends, GroupJobs(g)) >= Cardinality(GroupJobs(g))

\* handleJobComplete, whose last ack of a group goes on to resetGroupStats, or, at
\* the retry limit, handleDeadLetter, which ignores what the ack answers.
Finish(w) ==
  LET j == has[w]
  IN /\ pc[w] = "work"
     /\ ended' = [ended EXCEPT ![j] = @ + 1]
     /\ \/ GroupDone(CallGroup[j], ended') /\ Goto(w, "reset", j)
        \/ (~GroupDone(CallGroup[j], ended') \/ retries[j] = MaxRetry) /\ Goto(w, "idle", NoJob)
     /\ UNCHANGED <<now, limiterVars, queueVars, retries, lost>>

\* resetGroupStats deletes the counter and the statistics.
ResetStats(w) ==
  LET g == CallGroup[has[w]]
  IN /\ pc[w] = "reset"
     /\ count' = [count EXCEPT ![g] = 0]
     /\ shown' = [shown EXCEPT ![g] = 0]
     /\ Goto(w, "idle", NoJob)
     /\ UNCHANGED <<now, limiterVars, ready, nonReady, retries, ended, lost>>

Tick ==
  /\ now < MaxNow /\ now' = now + 1
  /\ UNCHANGED <<limiterVars, queueVars, retries, ended, pc, has, lost>>

Next ==
  \/ \E f \in Fetchers : (\E j \in Jobs : Fetch(f, j)) \/ CheckRate(f) \/ Push(f)
  \/ \E a \in Actors : AddCounted(a) \/ AddUnanswered(a) \/ AddRefused(a) \/ AddFixed(a)
  \/ \E w \in Workers : Take(w) \/ Fail(w) \/ Finish(w) \/ ResetStats(w)
  \/ \E j \in Jobs : Dispatch(j)
  \/ Tick

Spec == Init /\ [][Next]_vars

-----------------------------------------------------------------------------
\* The values of the keys and of the local variables.
QueuesTypeOK ==
  /\ ready \in Seq(Jobs) /\ DOMAIN nonReady \subseteq Jobs
  /\ count \in [Groups -> Nat] /\ shown \in [Groups -> Nat]

ActorsTypeOK ==
  /\ pc \in [Actors -> {"idle", "check", "push", "backoff", "fallback", "work", "reset"}]
  /\ has \in [Actors -> Jobs \cup {NoJob}]
  /\ \A a \in Actors : has[a] \in Jobs <=> pc[a] # "idle"
  /\ retries \in [Jobs -> 0..MaxRetry] /\ ended \in [Jobs -> Nat] /\ lost \in [Jobs -> Nat]

TypeOK == LimiterTypeOK /\ QueuesTypeOK /\ ActorsTypeOK

\* The count that getCongestionState and an operator can read in the statistics
\* is the counter that the backoffs are computed from, whichever of the scripts
\* and calls that write the two ran last.
StatsAgree == \A g \in Groups : shown[g] = count[g]

Holding(a) == pc[a] \notin {"idle", "reset"}

\* What there is of a job: in the fair queue, with a fetcher or a worker, in a
\* queue, or completed.
CopiesOf(j) ==
  Cardinality({q \in {"fair"} : verdict[j] = "new"})
  + Cardinality({a \in Actors : Holding(a) /\ has[a] = j})
  + Cardinality({i \in DOMAIN ready : ready[i] = j})
  + Cardinality({j} \cap DOMAIN nonReady)
  + ended[j]

\* Every copy of a job beyond the first is paid for by a lost answer: the fixed
\* backoff that follows one puts a job aside that the dispatcher may have moved on
\* already, and a job that is put aside twice is one entry again.  (That a job is
\* not lost is no claim of this module: see LossOnlyInHands of Backpressure.)
CopiesNeedLostAnswers == \A j \in Jobs : CopiesOf(j) <= 1 + lost[j]

Excess(g) == SumFunction([j \in GroupJobs(g) |-> CopiesOf(j) - 1])

Waiting(g) == DOMAIN nonReady \cap GroupJobs(g)

\* A congestion counter that is above the jobs that wait, which lengthens every
\* backoff of the group, is paid for by a lost answer, and so is every copy of a
\* job: when two copies are put aside as one entry, both count.
DriftNeedsLostAnswers ==
  \A g \in Groups :
    count[g] + Excess(g)
      <= Cardinality(Waiting(g)) + SumFunctionOnSet(lost, GroupJobs(g))
=============================================================================
