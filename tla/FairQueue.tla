----------------------------- MODULE FairQueue ------------------------------
(***************************************************************************)
(* The fair queue of libs/bulk-action: one sorted set of groups for every  *)
(* priority level, one list of waiting jobs for every group, and the       *)
(* counters of the group's meta hash.  enqueue.lua, dequeue.lua and        *)
(* ack.lua run atomically inside Redis, so each of them is one action.     *)
(*                                                                         *)
(* A score is the real one times Scale: the boost alpha*(total/remaining)  *)
(* is a fraction, and it is exact here when every value that `remaining'   *)
(* takes divides Scale.                                                    *)
(***************************************************************************)
EXTENDS RedisSortedSet, Sequences, FiniteSets

CONSTANTS
  Jobs,          \* the job ids a client may submit, each of them once
  Groups,        \* group ids; the integer is their lexicographic rank
  GroupOf,       \* the jobGroupId in the request that submits a job
  BasePriority,  \* the basePriority in the requests of a group
  Alpha,         \* config.fairQueue.alpha
  Scale,
  RequestLevels, \* the priority levels that requests name
  MaxNow         \* bound: the clock stops there

Levels == 1..3   \* HIGH, NORMAL, LOW, in the order dequeue.lua looks at them

ASSUME FairQueueAssumption ==
  /\ Groups \subseteq Int
  /\ GroupOf \in [Jobs -> Groups]
  /\ BasePriority \in [Groups -> Int]
  /\ Alpha \in Nat
  /\ Scale \in Nat \ {0}
  /\ RequestLevels \subseteq Levels
  /\ MaxNow \in Nat

VARIABLES
  now,         \* Redis TIME, in milliseconds
  fairQueue,   \* level -> sorted set of groups
  groupJobs,   \* group -> list of the jobs that wait
  totalJobs,   \* group -> meta.totalJobs
  doneJobs,    \* group -> meta.doneJobs
  groupStatus, \* group -> meta.status, "NONE" while the hash does not exist
  jobStatus,   \* job -> job.status, "NONE" while the hash does not exist
  touchedAt    \* history: when the score of a group in a level was last set

vars == <<now, fairQueue, groupJobs, totalJobs, doneJobs, groupStatus,
          jobStatus, touchedAt>>

-----------------------------------------------------------------------------
Larger(a, b) == IF a >= b THEN a ELSE b

\* Mutant of Score: the time is added, so the newest group comes first.
ScoreNewestFirst(group, total, done) ==
  LET remaining == Larger(1, total - done)
  IN  Scale * (BasePriority[group] + now)
        + (Alpha * Scale * (total - remaining)) \div remaining

\* -now + basePriority + alpha * (-1 + total / remaining), times Scale.
Score(group, total, done) ==
  LET remaining == Larger(1, total - done)
  IN  Scale * (BasePriority[group] - now)
        + (Alpha * Scale * (total - remaining)) \div remaining

\* The groups of a level whose list is not empty.
Waiting(level) == {g \in DOMAIN fairQueue[level] : groupJobs[g] # <<>>}

\* ZREVRANGE returns g before h: a larger score, or the same and a larger name.
Before(level, g, h) ==
  \/ fairQueue[level][g] > fairQueue[level][h]
  \/ fairQueue[level][g] = fairQueue[level][h] /\ g > h

\* Mutant of Best: a group with an empty list hides the groups behind it.
BestOfAll(level) ==
  {g \in Waiting(level) : \A h \in DOMAIN fairQueue[level] \ {g} : Before(level, g, h)}

\* The group dequeue.lua stops at: the first one returned that has a job.
Best(level) ==
  {g \in Waiting(level) : \A h \in Waiting(level) \ {g} : Before(level, g, h)}

Init ==
  /\ now = 0
  /\ fairQueue = [l \in Levels |-> EmptyZSet]
  /\ groupJobs = [g \in Groups |-> <<>>]
  /\ totalJobs = [g \in Groups |-> 0]
  /\ doneJobs = [g \in Groups |-> 0]
  /\ groupStatus = [g \in Groups |-> "NONE"]
  /\ jobStatus = [j \in Jobs |-> "NONE"]
  /\ touchedAt = [l \in Levels |-> [g \in Groups |-> 0]]

\* Mutant of FirstOfGroup: every enqueue initialises the meta hash.
AlwaysFirst(total) == TRUE

\* enqueue.lua initialises the meta hash when the incremented total is 1.
FirstOfGroup(total) == total = 1

\* enqueue.lua: the score goes into the queue of the level this call names.
Enqueue(job, level) ==
  LET g == GroupOf[job]
      total == totalJobs[g] + 1
  IN /\ jobStatus[job] = "NONE"
     /\ jobStatus' = [jobStatus EXCEPT ![job] = "PENDING"]
     /\ groupJobs' = [groupJobs EXCEPT ![g] = Append(@, job)]
     /\ totalJobs' = [totalJobs EXCEPT ![g] = total]
     /\ groupStatus' = [groupStatus EXCEPT ![g] = IF FirstOfGroup(total) THEN "CREATED" ELSE @]
     /\ doneJobs' = [doneJobs EXCEPT ![g] = IF FirstOfGroup(total) THEN 0 ELSE @]
     /\ fairQueue' = [fairQueue EXCEPT ![level] = ZAdd(@, g, Score(g, total, doneJobs[g]))]
     /\ touchedAt' = [touchedAt EXCEPT ![level][g] = now]
     /\ UNCHANGED now

\* Mutant of Rescored: the group leaves the queue whatever its list holds.
RescoredDropsGroup(level, g) ==
  ZRem(fairQueue[level], {g} \cup {h \in DOMAIN fairQueue[level] \ {g} : Before(level, h, g)})

\* What dequeue.lua leaves in a level in which group g is served: the groups it
\* found empty on the way are removed, and g is removed or scored again.
Rescored(level, g) ==
  LET kept == ZRem(fairQueue[level],
                   {h \in DOMAIN fairQueue[level] \ {g} : Before(level, h, g)})
  IN  IF Len(groupJobs[g]) = 1
        THEN ZRem(kept, {g})
        ELSE ZAdd(kept, g, Score(g, totalJobs[g], doneJobs[g]))

\* Mutant of Rest: the script looks at the first job and leaves it there.
RestWithHead(g) == groupJobs[g]

\* LPOP of the job that is returned.
Rest(g) == Tail(groupJobs[g])

\* dequeue.lua when it finds a job: the first one of the best group that has
\* one, in the first level that has such a group.
DequeueFrom(level, g) ==
  /\ g \in Best(level)
  /\ \A l \in Levels : l < level => Waiting(l) = {}
  /\ jobStatus' = [jobStatus EXCEPT ![Head(groupJobs[g])] = "PROCESSING"]
  /\ groupJobs' = [groupJobs EXCEPT ![g] = Rest(g)]
  /\ fairQueue' = [l \in Levels |-> IF l < level THEN EmptyZSet
                                    ELSE IF l = level THEN Rescored(l, g)
                                    ELSE fairQueue[l]]
  /\ touchedAt' = [touchedAt EXCEPT ![level][g] = now]
  /\ UNCHANGED <<now, totalJobs, doneJobs, groupStatus>>

\* dequeue.lua when no group has a job: the empty groups are all removed.
DequeueNothing ==
  /\ \A l \in Levels : Waiting(l) = {}
  /\ fairQueue' = [l \in Levels |-> EmptyZSet]
  /\ UNCHANGED <<now, groupJobs, totalJobs, doneJobs, groupStatus, jobStatus, touchedAt>>

\* ack.lua overwrites the status, whatever it was, once all jobs are done.
StatusAfterAck(g, done) ==
  IF done >= totalJobs[g] THEN "AGGREGATING" ELSE groupStatus[g]

\* ack.lua, called by the holder of a dequeued job once it is processed.
Ack(job) ==
  LET g == GroupOf[job]
      done == doneJobs[g] + 1
  IN /\ jobStatus[job] = "PROCESSING"
     /\ jobStatus' = [jobStatus EXCEPT ![job] = "COMPLETED"]
     /\ doneJobs' = [doneJobs EXCEPT ![g] = done]
     /\ groupStatus' = [groupStatus EXCEPT ![g] = StatusAfterAck(g, done)]
     /\ UNCHANGED <<now, fairQueue, groupJobs, totalJobs, touchedAt>>

Tick == /\ now < MaxNow
        /\ now' = now + 1
        /\ UNCHANGED <<fairQueue, groupJobs, totalJobs, doneJobs, groupStatus, jobStatus, touchedAt>>

Dequeue == DequeueNothing \/ \E level \in Levels, g \in Groups : DequeueFrom(level, g)

Next ==
  \/ \E job \in Jobs, level \in RequestLevels : Enqueue(job, level)
  \/ \E level \in Levels, g \in Groups : DequeueFrom(level, g)
  \/ DequeueNothing
  \/ \E job \in Jobs : Ack(job)
  \/ Tick

\* The fetchers poll the queue for as long as the application runs.
Fairness == WF_vars(Dequeue)

Spec == Init /\ [][Next]_vars /\ Fairness

-----------------------------------------------------------------------------
JobsIn(group, status) == {j \in Jobs : GroupOf[j] = group /\ jobStatus[j] = status}

\* The values the Redis keys can hold.
TypeOK ==
  /\ now \in 0..MaxNow
  /\ DOMAIN fairQueue = Levels
  /\ \A l \in Levels : /\ DOMAIN fairQueue[l] \subseteq Groups
                        /\ fairQueue[l] \in [DOMAIN fairQueue[l] -> Int]
  /\ groupJobs \in [Groups -> Seq(Jobs)]
  /\ totalJobs \in [Groups -> Nat]
  /\ doneJobs \in [Groups -> Nat]
  /\ groupStatus \in [Groups -> {"NONE", "CREATED", "AGGREGATING"}]
  /\ jobStatus \in [Jobs -> {"NONE", "PENDING", "PROCESSING", "COMPLETED"}]
  /\ touchedAt \in [Levels -> [Groups -> 0..MaxNow]]

\* A group that has a waiting job is in the sorted set of some level, so that
\* dequeue.lua can find the job: the list and the sorted sets are separate
\* keys, enqueue.lua may put one group into several levels, and dequeue.lua
\* takes groups out of one level at a time.
NoStrandedGroup ==
  \A g \in Groups : groupJobs[g] # <<>> => \E l \in Levels : g \in DOMAIN fairQueue[l]

\* A group's list holds its PENDING jobs, each of them once.
ListHoldsPendingJobs ==
  \A g \in Groups : /\ Range(groupJobs[g]) = JobsIn(g, "PENDING")
                     /\ IsInjective(groupJobs[g])

\* The counters by which ack.lua decides that a group is complete agree with
\* the jobs: totalJobs counts the waiting, the running and the done ones.
GroupCounters ==
  \A g \in Groups :
    totalJobs[g] = Len(groupJobs[g]) + Cardinality(JobsIn(g, "PROCESSING")) + doneJobs[g]

PendingJobs == {j \in Jobs : jobStatus[j] = "PENDING"}

\* What Backpressure takes the fair queue for: a set to which a submission adds a
\* job, and from which a fetch takes one, or nothing only when the set is empty.
\* The set is kept as sorted sets, lists and hashes, which each script changes
\* in a part: a fetch may neither miss a job nor get one for the second time.
ActsAsSet ==
  [][\/ \E j \in Jobs \ PendingJobs : PendingJobs' = PendingJobs \cup {j}
     \/ \E j \in PendingJobs : PendingJobs' = PendingJobs \ {j}
     \/ PendingJobs' = PendingJobs /\ (Dequeue => PendingJobs = {})]_vars

\* How far the boost for nearly finished groups can reorder a level: a group h
\* of the same level that has jobs and was scored before the served group g
\* was passed over only because of g's base priority or because of a boost,
\* which is never worth more than alpha * (totalJobs - 1) milliseconds.
OvertakingBounded ==
  [][\A level \in Levels : \A g, h \in Waiting(level) :
       DequeueFrom(level, g) =>
         touchedAt[level][g] - touchedAt[level][h]
           <= BasePriority[g] - BasePriority[h] + Alpha * (totalJobs[g] - 1)]_vars

\* A job that waits is eventually handed to a fetcher, also when its group was
\* enqueued in several levels or sits behind groups whose lists are empty.
EveryJobServed ==
  \A j \in Jobs : jobStatus[j] = "PENDING" ~> jobStatus[j] = "PROCESSING"
=============================================================================
