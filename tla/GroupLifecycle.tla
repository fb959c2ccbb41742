--------------------------- MODULE GroupLifecycle ---------------------------
(***************************************************************************)
(* The life of one job group: BulkActionService.submitBulkJobs fills it,   *)
(* the handlers of its jobs record results and acknowledge them            *)
(* (WorkerPoolService, OrphanRecoveryService), AggregatorService finalizes *)
(* it under a lock, and the WatcherService of every instance moves it      *)
(* along, repairs it and times it out.                                     *)
(*                                                                         *)
(* Every await is a step.  A delivery is one completed handling of a job;  *)
(* a job that orphan recovery gave to a second worker has two.  An orphan  *)
(* ends for the group that its lease names, which is another job's when    *)
(* the worker had peeked that job: such ends of a job of some other group  *)
(* (OtherJob) are deliveries here, and a job of this group that ended for  *)
(* another one is a job without a delivery, or whose delivery stops before *)
(* it has recorded anything.  The meta counters are the sizes of sets of   *)
(* deliveries: successCount+failedCount of results, doneJobs of acked.     *)
(* Time is a free choice: timeoutAt and aggregationStartAt only have the   *)
(* values the code distinguishes.                                          *)
(***************************************************************************)
EXTENDS Integers, FiniteSets

CONSTANTS
  NumJobs,          \* the jobs of the request are 1..NumJobs
  Deliveries,
  JobOf,            \* delivery -> job, of this group or OtherJob
  KindOf,           \* delivery -> who handles its end, see Kinds
  Watchers,         \* watch cycles that can overlap
  SubmitBeforeWork, \* whether no job is handled before submitBulkJobs returns
  ExpireLive,       \* whether a lock's TTL can run out while its holder works
  MaxFailures,      \* bound: crashes and exceptions of agents
  OtherJob,         \* stands for every job of another group
  None

Jobs == 1..NumJobs
Agents == Deliveries \cup Watchers

\* handleJobComplete, WorkerPoolService.handleDeadLetter and
\* OrphanRecoveryService.handleDeadLetteredOrphans.
Kinds == {"complete", "deadLetter", "orphan"}

ASSUME GroupLifecycleAssumption ==
  /\ NumJobs \in Nat \ {0}
  /\ IsFiniteSet(Deliveries)
  /\ OtherJob \notin Jobs
  /\ JobOf \in [Deliveries -> Jobs \cup {OtherJob}]
  /\ KindOf \in [Deliveries -> Kinds]
  /\ \A d \in Deliveries : JobOf[d] = OtherJob => KindOf[d] = "orphan"
  /\ Deliveries \cap Watchers = {}
  /\ SubmitBeforeWork \in BOOLEAN /\ ExpireLive \in BOOLEAN
  /\ MaxFailures \in Nat
  /\ None \notin Agents /\ \A s \in SUBSET (Jobs \cup {OtherJob}) : s # None

VARIABLES
  status,     \* meta.status, "NONE" before the first enqueue
  total,      \* meta.totalJobs
  registered, \* meta.registeredJobs
  timeoutAt,  \* meta.timeoutAt: "unset", "set" or "passed"
  aggStart,   \* meta.aggregationStartAt: "unset", "fresh" or "stale"
  results,    \* the deliveries in the job-results list
  acked,      \* the deliveries that ack.lua has counted
  result,     \* the jobs in the stored result, None before the first
  watched,    \* the group is in watcher:active-groups
  submitter,  \* the call submitBulkJobs makes next
  lock,       \* lock key -> the agent whose token it holds
  pc,         \* agent -> the call it makes next
  expected,   \* agent -> the status it read and will transition from
  listed,     \* agent -> the jobs whose results it has loaded
  failures

meta == <<status, total, registered, timeoutAt, aggStart>>
vars == <<meta, results, acked, result, watched, submitter, lock, pc, expected, listed, failures>>

Locks == {"aggregation", "transition"}
Terminal == {"COMPLETED", "FAILED"}

-----------------------------------------------------------------------------
Goto(a, label) == pc' = [pc EXCEPT ![a] = label]

\* Where an agent goes on when finalizeGroup returns.
Return(a) ==
  IF a \in Deliveries THEN "done"
  ELSE IF lock["transition"] = a THEN "transUnlock" ELSE "idle"

Init ==
  /\ status = "NONE" /\ total = 0 /\ registered = 0
  /\ timeoutAt = "unset" /\ aggStart = "unset"
  /\ results = {} /\ acked = {} /\ result = None
  /\ watched = FALSE
  /\ submitter = "enqueue"
  /\ lock = [l \in Locks |-> None]
  /\ pc = [a \in Agents |-> IF a \in Deliveries THEN "wait" ELSE "idle"]
  /\ expected = [a \in Agents |-> None]
  /\ listed = [a \in Agents |-> {}]
  /\ failures = 0

-----------------------------------------------------------------------------
(* BulkActionService.submitBulkJobs *)

\* enqueue.lua for the next job of the request.
SubmitEnqueue ==
  /\ submitter = "enqueue"
  /\ total' = total + 1
  /\ status' = IF total' = 1 THEN "CREATED" ELSE status
  /\ submitter' = IF total' = NumJobs THEN "register" ELSE "enqueue"
  /\ UNCHANGED <<registered, timeoutAt, aggStart, results, acked, result, watched,
                 lock, pc, expected, listed, failures>>

SubmitRegister ==
  /\ submitter = "register"
  /\ registered' = NumJobs
  /\ submitter' = "watch"
  /\ UNCHANGED <<status, total, timeoutAt, aggStart, results, acked, result, watched,
                 lock, pc, expected, listed, failures>>

SubmitWatch ==
  /\ submitter = "watch"
  /\ watched' = TRUE
  /\ submitter' = "timeout"
  /\ UNCHANGED <<meta, results, acked, result, lock, pc, expected, listed, failures>>

SubmitTimeout ==
  /\ submitter = "timeout"
  /\ timeoutAt' = "set"
  /\ submitter' = "done"
  /\ UNCHANGED <<status, total, registered, aggStart, results, acked, result, watched,
                 lock, pc, expected, listed, failures>>

-----------------------------------------------------------------------------
(* The end of a job: recordJobResult, then ack, then perhaps finalizeGroup *)

\* The job has been enqueued; or, for another group's, one of this group has been,
\* which a worker could peek.
CanBeHandled(d) == IF JobOf[d] \in Jobs THEN JobOf[d] <= total ELSE total > 0

\* record-job-result.lua; firstJobStartedAt is set when results is not empty.
Record(d) ==
  /\ pc[d] = "wait"
  /\ CanBeHandled(d)
  /\ SubmitBeforeWork => submitter = "done"
  /\ results' = results \cup {d}
  /\ Goto(d, "ack")
  /\ UNCHANGED <<meta, acked, result, watched, submitter, lock, expected, listed, failures>>

\* Mutant of AckStatus: the group is complete one job early.
AckStatusEarly(done) == IF done + 1 >= total THEN "AGGREGATING" ELSE status

\* ack.lua does not look at the status it overwrites.
AckStatus(done) == IF done >= total THEN "AGGREGATING" ELSE status

\* ack.lua; handleDeadLetter ignores that the group is complete.
Ack(d) ==
  LET done == Cardinality(acked \cup {d})
  IN /\ pc[d] = "ack"
     /\ acked' = acked \cup {d}
     /\ status' = AckStatus(done)
     /\ Goto(d, IF done >= total /\ KindOf[d] # "deadLetter" THEN "lock" ELSE "done")
     /\ UNCHANGED <<total, registered, timeoutAt, aggStart, results, result, watched,
                    submitter, lock, expected, listed, failures>>

-----------------------------------------------------------------------------
(* AggregatorService.finalizeGroup, by the handler of a job or by a watcher *)

\* Mutant of Free: the lock does not exclude anyone.
AlwaysFree(l) == TRUE

\* SET NX: the key does not exist.
Free(l) == lock[l] = None

\* withLock: acquire, or give up after the configured retries.
FinalizeLock(a) ==
  /\ pc[a] = "lock"
  /\ \/ Free("aggregation") /\ lock' = [lock EXCEPT !["aggregation"] = a] /\ Goto(a, "read")
     \/ ~Free("aggregation") /\ UNCHANGED lock /\ Goto(a, Return(a))
  /\ UNCHANGED <<meta, results, acked, result, watched, submitter, expected, listed, failures>>

FinalizeRead(a) ==
  /\ pc[a] = "read"
  /\ Goto(a, CASE status = "AGGREGATING" -> "list"
               [] status = "RUNNING"     -> "casAggregating"
               [] OTHER                  -> "unlock")
  /\ UNCHANGED <<meta, results, acked, result, watched, submitter, lock, expected, listed,
                 failures>>

\* Mutant of Transition: the status is not compared with the expected one.
TransitionUnchecked(from, to) ==
  /\ status' = to
  /\ aggStart' = IF to = "AGGREGATING" THEN "fresh" ELSE aggStart

\* transition-status.lua: the status changes only if it is the expected one,
\* and a transition to AGGREGATING notes its time.
Transition(from, to) ==
  /\ status' = IF status = from THEN to ELSE status
  /\ aggStart' = IF status = from /\ to = "AGGREGATING" THEN "fresh" ELSE aggStart

FinalizeStart(a) ==
  /\ pc[a] = "casAggregating"
  /\ Transition("RUNNING", "AGGREGATING")
  /\ Goto(a, IF status = "RUNNING" THEN "list" ELSE "unlock")
  /\ UNCHANGED <<total, registered, timeoutAt, results, acked, result, watched,
                 submitter, lock, expected, listed, failures>>

\* aggregate: the pages of the job-results list; what the last page adds is
\* seen, what is appended after it is not.
AggregateList(a) ==
  /\ pc[a] = "list"
  /\ listed' = [listed EXCEPT ![a] = {JobOf[d] : d \in results}]
  /\ Goto(a, "store")
  /\ UNCHANGED <<meta, results, acked, result, watched, submitter, lock, expected, failures>>

AggregateStore(a) ==
  /\ pc[a] = "store"
  /\ result' = listed[a]
  /\ listed' = [listed EXCEPT ![a] = {}]
  /\ Goto(a, "casCompleted")
  /\ UNCHANGED <<meta, results, acked, watched, submitter, lock, expected, failures>>

FinalizeEnd(a) ==
  /\ pc[a] = "casCompleted"
  /\ Transition("AGGREGATING", "COMPLETED")
  /\ Goto(a, "unlock")
  /\ UNCHANGED <<total, registered, timeoutAt, results, acked, result, watched,
                 submitter, lock, expected, listed, failures>>

\* release-lock.lua: only the holder of the token deletes the key.
Released(l, a) == IF lock[l] = a THEN [lock EXCEPT ![l] = None] ELSE lock

FinalizeUnlock(a) ==
  /\ pc[a] = "unlock"
  /\ lock' = Released("aggregation", a)
  /\ Goto(a, Return(a))
  /\ UNCHANGED <<meta, results, acked, result, watched, submitter, expected, listed, failures>>

-----------------------------------------------------------------------------
(* WatcherService *)

\* StateMachine.ts, TRANSITION_RULES.
Rules ==
  {<<"CREATED", "DISPATCHED">>, <<"DISPATCHED", "RUNNING">>, <<"RUNNING", "AGGREGATING">>,
   <<"AGGREGATING", "COMPLETED">>, <<"CREATED", "FAILED">>, <<"DISPATCHED", "FAILED">>,
   <<"RUNNING", "FAILED">>, <<"AGGREGATING", "FAILED">>}

IsValidTransition(from, to) == <<from, to>> \in Rules

\* transition and forceTransition: what the state machine does not know is not tried.
WatcherTransition(from, to) ==
  IF IsValidTransition(from, to) THEN Transition(from, to) ELSE UNCHANGED <<status, aggStart>>

Recorded == Cardinality(results)

\* Mutant of TimedOut: no group ever times out.
NeverTimedOut == FALSE

TimedOut == timeoutAt = "passed"

\* Mutant of ForceNeedsLock: forced transitions rely on the status alone.
ForceWithoutLock == FALSE

\* StateMachine.requiresLock, for a transition to FAILED.
ForceNeedsLock == status = "AGGREGATING"

\* checkGroup: what the watcher does for the meta hash it reads.
Decision ==
  CASE status = "NONE"                                    -> "idle"
    [] status \in Terminal                                -> "unwatch"
    [] status \notin Terminal \cup {"NONE"} /\ TimedOut   ->
         IF ForceNeedsLock THEN "forceLock" ELSE "force"
    [] OTHER ->
         IF \/ status = "CREATED" /\ registered >= total /\ total > 0
            \/ status = "DISPATCHED" /\ results # {}
           THEN "advance"
         ELSE IF status = "RUNNING" /\ Recorded >= total /\ total > 0 THEN "transLock"
         ELSE IF status = "AGGREGATING" /\ aggStart \in {"unset", "stale"} THEN "lock"
         ELSE "idle"

\* watchCycle: the members of the active set, read before the first group.
WatchMembers(w) ==
  /\ pc[w] = "idle" /\ watched
  /\ Goto(w, "check")
  /\ UNCHANGED <<meta, results, acked, result, watched, submitter, lock, expected, listed,
                 failures>>

WatchRead(w) ==
  /\ pc[w] = "check"
  /\ Goto(w, Decision)
  /\ expected' = [expected EXCEPT ![w] = IF Decision \in {"force", "advance"} THEN status ELSE None]
  /\ UNCHANGED <<meta, results, acked, result, watched, submitter, lock, listed, failures>>

\* A terminal group leaves the active set.
WatchUnwatch(w) ==
  /\ pc[w] = "unwatch"
  /\ watched' = FALSE
  /\ Goto(w, "idle")
  /\ UNCHANGED <<meta, results, acked, result, submitter, lock, expected, listed, failures>>

\* checkCreatedToDispatched and checkDispatchedToRunning.
WatchAdvance(w) ==
  /\ pc[w] = "advance"
  /\ WatcherTransition(expected[w], IF expected[w] = "CREATED" THEN "DISPATCHED" ELSE "RUNNING")
  /\ expected' = [expected EXCEPT ![w] = None]
  /\ Goto(w, "idle")
  /\ UNCHANGED <<total, registered, timeoutAt, results, acked, result, watched,
                 submitter, lock, listed, failures>>

\* forceTransition of a state whose rule needs no lock.
WatchForce(w) ==
  /\ pc[w] = "force"
  /\ WatcherTransition(expected[w], "FAILED")
  /\ expected' = [expected EXCEPT ![w] = None]
  /\ Goto(w, "idle")
  /\ UNCHANGED <<total, registered, timeoutAt, results, acked, result, watched,
                 submitter, lock, listed, failures>>

\* forceTransition of AGGREGATING: under the lock of the aggregation.
WatchForceLock(w) ==
  /\ pc[w] = "forceLock"
  /\ \/ Free("aggregation") /\ lock' = [lock EXCEPT !["aggregation"] = w] /\ Goto(w, "forceRead")
     \/ ~Free("aggregation") /\ UNCHANGED lock /\ Goto(w, "idle")
  /\ UNCHANGED <<meta, results, acked, result, watched, submitter, expected, listed, failures>>

WatchForceRead(w) ==
  /\ pc[w] = "forceRead"
  /\ IF status \in Terminal \/ ~IsValidTransition(status, "FAILED")
       THEN Goto(w, "forceUnlock") /\ UNCHANGED expected
       ELSE Goto(w, "forceCas") /\ expected' = [expected EXCEPT ![w] = status]
  /\ UNCHANGED <<meta, results, acked, result, watched, submitter, lock, listed, failures>>

WatchForceCas(w) ==
  /\ pc[w] = "forceCas"
  /\ Transition(expected[w], "FAILED")
  /\ expected' = [expected EXCEPT ![w] = None]
  /\ Goto(w, "forceUnlock")
  /\ UNCHANGED <<total, registered, timeoutAt, results, acked, result, watched,
                 submitter, lock, listed, failures>>

WatchForceUnlock(w) ==
  /\ pc[w] = "forceUnlock"
  /\ lock' = Released("aggregation", w)
  /\ Goto(w, "idle")
  /\ UNCHANGED <<meta, results, acked, result, watched, submitter, expected, listed, failures>>

\* checkRunningToAggregating: a lock of its own, and a second look inside.
WatchTransLock(w) ==
  /\ pc[w] = "transLock"
  /\ \/ Free("transition") /\ lock' = [lock EXCEPT !["transition"] = w] /\ Goto(w, "transRead")
     \/ ~Free("transition") /\ UNCHANGED lock /\ Goto(w, "idle")
  /\ UNCHANGED <<meta, results, acked, result, watched, submitter, expected, listed, failures>>

WatchTransRead(w) ==
  /\ pc[w] = "transRead"
  /\ Goto(w, IF status = "RUNNING" THEN "lock" ELSE "transUnlock")
  /\ UNCHANGED <<meta, results, acked, result, watched, submitter, lock, expected, listed,
                 failures>>

WatchTransUnlock(w) ==
  /\ pc[w] = "transUnlock"
  /\ lock' = Released("transition", w)
  /\ Goto(w, "idle")
  /\ UNCHANGED <<meta, results, acked, result, watched, submitter, expected, listed, failures>>

-----------------------------------------------------------------------------
(* What the API shows of a group *)

\* progressPercent of the two progress queries.
ProgressPercent(done) == IF total > 0 THEN (done * 100) \div total ELSE 0

\* AggregatorService.getProgress: one read of the meta hash.
Progress ==
  [totalJobs |-> total, recordedJobs |-> Recorded, doneJobs |-> Cardinality(acked),
   progressPercent |-> ProgressPercent(Cardinality(acked)),
   status |-> IF status = "NONE" THEN "UNKNOWN" ELSE status]

-----------------------------------------------------------------------------
(* Time and failures *)

TimeoutPasses ==
  /\ timeoutAt = "set"
  /\ timeoutAt' = "passed"
  /\ UNCHANGED <<status, total, registered, aggStart, results, acked, result, watched,
                 submitter, lock, pc, expected, listed, failures>>

AggregationGoesStale ==
  /\ aggStart = "fresh"
  /\ aggStart' = "stale"
  /\ UNCHANGED <<status, total, registered, timeoutAt, results, acked, result, watched,
                 submitter, lock, pc, expected, listed, failures>>

InFinalize == {"read", "casAggregating", "list", "store", "casCompleted"}
InForce == {"forceRead", "forceCas"}
InTransition == {"transRead"} \cup {"lock", "unlock", "transUnlock"} \cup InFinalize

\* The callers of withLock still working under the lock.
Works(a, l) ==
  \/ l = "aggregation" /\ pc[a] \in InFinalize \cup InForce \cup {"unlock", "forceUnlock"}
  \/ l = "transition" /\ a \in Watchers /\ pc[a] \in InTransition

\* PX: the key disappears when its TTL has run out.
LockExpires(l) ==
  /\ lock[l] # None
  /\ ExpireLive \/ ~Works(lock[l], l)
  /\ lock' = [lock EXCEPT ![l] = None]
  /\ UNCHANGED <<meta, results, acked, result, watched, submitter, pc, expected, listed, failures>>

\* A Redis call throws: withLock releases its lock, the caller logs the error.
Throws(a) ==
  /\ failures < MaxFailures
  /\ failures' = failures + 1
  /\ pc[a] \in InFinalize \cup InForce
  /\ Goto(a, IF pc[a] \in InForce THEN "forceUnlock" ELSE "unlock")
  /\ expected' = [expected EXCEPT ![a] = None]
  /\ listed' = [listed EXCEPT ![a] = {}]
  /\ UNCHANGED <<meta, results, acked, result, watched, submitter, lock>>

\* The instance stops; a lock it holds stays until it expires.  A watcher is
\* there again when the instance is restarted, the end of a job is not.
Crash(a) ==
  /\ failures < MaxFailures
  /\ failures' = failures + 1
  /\ pc[a] \notin {"done", "idle"}
  /\ Goto(a, IF a \in Deliveries THEN "done" ELSE "idle")
  /\ expected' = [expected EXCEPT ![a] = None]
  /\ listed' = [listed EXCEPT ![a] = {}]
  /\ UNCHANGED <<meta, results, acked, result, watched, submitter, lock>>

-----------------------------------------------------------------------------
Submit == SubmitEnqueue \/ SubmitRegister \/ SubmitWatch \/ SubmitTimeout

Finalize(a) ==
  \/ FinalizeLock(a) \/ FinalizeRead(a) \/ FinalizeStart(a) \/ AggregateList(a)
  \/ AggregateStore(a) \/ FinalizeEnd(a) \/ FinalizeUnlock(a)

Watch(w) ==
  \/ WatchMembers(w) \/ WatchRead(w) \/ WatchUnwatch(w) \/ WatchAdvance(w) \/ WatchForce(w)
  \/ WatchForceLock(w) \/ WatchForceRead(w) \/ WatchForceCas(w) \/ WatchForceUnlock(w)
  \/ WatchTransLock(w) \/ WatchTransRead(w) \/ WatchTransUnlock(w)

AgentStep(a) ==
  \/ a \in Deliveries /\ (Record(a) \/ Ack(a))
  \/ a \in Watchers /\ Watch(a)
  \/ Finalize(a)

Next ==
  \/ Submit
  \/ \E a \in Agents : AgentStep(a) \/ Throws(a) \/ Crash(a)
  \/ \E l \in Locks : LockExpires(l)
  \/ TimeoutPasses
  \/ AggregationGoesStale

\* Every instance keeps running its loops and awaits return; time passes.  That a
\* job is ever handled to its end, or that another group's is, is not assumed.
Fairness ==
  /\ WF_vars(Submit)
  /\ \A a \in Agents : WF_vars(pc[a] # "wait" /\ AgentStep(a))
  /\ \A l \in Locks : WF_vars(LockExpires(l))
  /\ WF_vars(TimeoutPasses) /\ WF_vars(AggregationGoesStale)

Spec == Init /\ [][Next]_vars /\ Fairness

-----------------------------------------------------------------------------
Statuses == {"NONE", "CREATED", "DISPATCHED", "RUNNING", "AGGREGATING"} \cup Terminal
DeliveryPCs == {"wait", "ack", "lock", "unlock", "done"} \cup InFinalize
WatcherPCs == {"idle", "check", "unwatch", "advance", "force", "forceLock", "forceUnlock",
               "transLock", "lock", "unlock", "transRead", "transUnlock"}
                \cup InFinalize \cup InForce

\* Every agent is at a place of its own program.
ProgramsTypeOK ==
  /\ pc \in [Agents -> DeliveryPCs \cup WatcherPCs]
  /\ \A a \in Agents : pc[a] \in IF a \in Deliveries THEN DeliveryPCs ELSE WatcherPCs

\* The values of the meta hash, of the other keys and of the local variables.
TypeOK ==
  /\ ProgramsTypeOK
  /\ status \in Statuses /\ total \in 0..NumJobs /\ registered \in {0, NumJobs}
  /\ timeoutAt \in {"unset", "set", "passed"} /\ aggStart \in {"unset", "fresh", "stale"}
  /\ results \subseteq Deliveries /\ acked \subseteq Deliveries
  /\ result = None \/ result \subseteq Jobs \cup {OtherJob}
  /\ watched \in BOOLEAN
  /\ submitter \in {"enqueue", "register", "watch", "timeout", "done"}
  /\ submitter = "enqueue" <=> total < NumJobs
  /\ lock \in [Locks -> Agents \cup {None}]
  /\ expected \in [Agents -> Statuses \cup {None}]
  /\ listed \in [Agents -> SUBSET (Jobs \cup {OtherJob})]
  /\ failures \in 0..MaxFailures

Aggregating == {a \in Agents : pc[a] \in {"list", "store", "casCompleted"}}

\* No two agents aggregate the group at the same time: not the handler that saw
\* the last ack, a watcher that repairs the group and another instance, however
\* a crash or an exception leaves the lock (as long as the TTL outlasts the work).
AggregationExclusive == Cardinality(Aggregating) <= 1

\* A group is never failed by a timeout while somebody aggregates it: the forced
\* transitions of the other states take no lock, and rely on the status alone.
NoFailureDuringAggregation ==
  [][status' = "FAILED" /\ status # "FAILED" => Aggregating = {}]_vars

\* The deliveries that are the end of another group's job.
Foreign(deliveries) == {d \in deliveries : JobOf[d] = OtherJob}

\* A completed group has a result, and the result covers every job of the
\* request: whoever finalized it, and after whatever failures, read the list
\* after the last job was recorded.  Only an orphan of another group that was
\* recorded here (OrphanRecoveryService.ts:122) takes the place of a job.
CompletedCoversJobs ==
  status = "COMPLETED" =>
    result # None /\ Cardinality(Jobs \ result) <= Cardinality(Foreign(results))

\* The status changes as the state machine allows, although the watchers and the
\* finalizers of all instances act on a status they read some calls earlier; the
\* one exception is ack.lua, which sets AGGREGATING whatever the status is.
OnlyAckBreaksRules ==
  [][status' # status /\ status # "NONE" =>
       \/ <<status, status'>> \in Rules
       \/ status' = "AGGREGATING" /\ acked' # acked]_vars

\* At every point of the submission, which counts totalJobs while handlers count
\* doneJobs, the progress shown for a group stays within 100 percent: both are
\* counters of their own, and only a second ack of a job, or the ack of another
\* group's orphan (OrphanRecoveryService.ts:134), brings them apart.
ProgressWithinBounds ==
  /\ Progress.doneJobs <= Progress.totalJobs + Cardinality(Foreign(acked))
  /\ Foreign(acked) = {} => Progress.progressPercent \in 0..100

\* doc/spike_load/step5-aggregator-watcher.md: when an instance goes down in the
\* middle of an aggregation, a watcher finds the group and aggregates it again.
AggregationResumes == status = "AGGREGATING" ~> status # "AGGREGATING"

\* A submitted group reaches a terminal state, whatever happens to the ends of
\* its jobs and to the instance that finalizes it: by an ack, by the safety nets
\* of a watcher or by its timeout.
GroupEnds == <>(status \in Terminal)
=============================================================================
