---------------------------- MODULE ReliableQueue ----------------------------
(***************************************************************************)
(* At-least-once delivery from the ready queue: the workers (Worker.tick), *)
(* the in-flight queue with its leases (ReliableQueueService), the orphan  *)
(* recovery, and what becomes of a job that fails (WorkerPoolService).     *)
(*                                                                         *)
(* Every await is a step, every Lua script is atomic.  The score of a job  *)
(* in the in-flight queue is Live until its deadline has passed, then      *)
(* Overdue.  A worker that stops starts again with nothing; a Redis call   *)
(* that throws has had no effect.                                          *)
(***************************************************************************)
EXTENDS RedisSortedSet, SequencesExt, Counting

CONSTANTS
  Jobs,
  GroupOf,        \* job.groupId
  Workers,
  MaxRetry,       \* config.workerPool.maxRetryCount
  MaxRecoveries,  \* config.reliableQueue.maxRetryCount
  RecoveryBatch,  \* config.reliableQueue.orphanRecoveryBatchSize
  MaxCrashes,     \* bound: workers and recovery cycles that stop
  MaxThrows,      \* bound: calls of reliableAck that throw
  MaxStalls,      \* bound: deadlines that pass while a worker is alive
  NoJob, NoGroup

ASSUME ReliableQueueAssumption ==
  /\ IsFiniteSet(Jobs) /\ IsFiniteSet(Workers)
  /\ MaxRetry \in Nat /\ MaxRecoveries \in Nat /\ RecoveryBatch \in Nat \ {0}
  /\ MaxCrashes \in Nat /\ MaxThrows \in Nat /\ MaxStalls \in Nat
  /\ NoJob \notin Jobs
  /\ DOMAIN GroupOf = Jobs /\ NoGroup \notin Range(GroupOf)

Live == 1
Overdue == 0

VARIABLES
  admitted,   \* the jobs that admission has pushed
  ready,      \* the ready queue, a list
  inFlight,   \* the in-flight queue, a sorted set
  meta,       \* the in-flight:{job} hashes, and (history) whether their worker raced
  retryCount, \* job.retryCount
  nonReady,   \* the jobs in the non-ready queue
  dead,       \* the jobs that have an entry in the dead letter queue
  pc,         \* worker -> the call it makes next
  job,        \* worker -> the job it has
  peeked,     \* worker -> what dequeue has read of the head of the list
  loaded,     \* worker -> the retryCount it has loaded with the job
  orphanEnds, \* job -> its ends that recovery still has to record and acknowledge
  astray,     \* job -> those of them that will be for another group, or for none
  ends,       \* job -> how often its end was recorded and acknowledged
  crashes, throws,
  stalls      \* job -> the deadlines that passed while a worker had it

workerVars == <<pc, job, peeked, loaded>>
orphanVars == <<orphanEnds, astray>>
failureVars == <<crashes, throws, stalls>>
vars == <<admitted, ready, inFlight, meta, retryCount, nonReady, dead, workerVars,
          orphanVars, ends, failureVars>>

-----------------------------------------------------------------------------
NothingPeeked == [job |-> NoJob, retry |-> 0]

Goto(w, label) == pc' = [pc EXCEPT ![w] = label]

\* Mutant of Forget: the finally block is missing.
KeepJob(w) == job

\* The finally block of tick.
Forget(w) == [job EXCEPT ![w] = NoJob]

EndTick(w) ==
  /\ job' = Forget(w)
  /\ loaded' = [loaded EXCEPT ![w] = 0]
  /\ Goto(w, "idle")

Holders(j) == {w \in Workers : job[w] = j}

\* The calls after which a job is in no queue: it is known to its worker only.
Released == {"complete", "failed", "requeue"}

\* The workers for which a lease of the job may stand.
Keepers(j) == {w \in Holders(j) : pc[w] \notin Released}

Init ==
  /\ admitted = {} /\ ready = <<>> /\ nonReady = {} /\ dead = {}
  /\ inFlight = EmptyZSet /\ meta = EmptyZSet
  /\ retryCount = [j \in Jobs |-> 0]
  /\ orphanEnds = [j \in Jobs |-> 0] /\ astray = orphanEnds
  /\ ends = [j \in Jobs |-> 0]
  /\ pc = [w \in Workers |-> "idle"]
  /\ job = [w \in Workers |-> NoJob]
  /\ peeked = [w \in Workers |-> NothingPeeked]
  /\ loaded = [w \in Workers |-> 0]
  /\ crashes = 0 /\ throws = 0
  /\ stalls = [j \in Jobs |-> 0]

\* A fetcher pushes an admitted job.
Admit(j) ==
  /\ j \notin admitted
  /\ admitted' = admitted \cup {j}
  /\ ready' = Append(ready, j)
  /\ UNCHANGED <<inFlight, meta, retryCount, nonReady, dead, workerVars, orphanVars, ends,
                 failureVars>>

\* The dispatcher brings a job back whose backoff has run out.
MoveToReady(j) ==
  /\ j \in nonReady
  /\ nonReady' = nonReady \ {j}
  /\ ready' = Append(ready, j)
  /\ UNCHANGED <<admitted, inFlight, meta, retryCount, dead, workerVars, orphanVars, ends,
                 failureVars>>

-----------------------------------------------------------------------------
(* ReliableQueueService.dequeue: four calls *)

Length(w) ==
  /\ pc[w] = "idle" /\ ready # <<>>
  /\ Goto(w, "peek")
  /\ UNCHANGED <<admitted, ready, inFlight, meta, retryCount, nonReady, dead, job, peeked,
                 loaded, orphanVars, ends, failureVars>>

\* LRANGE 0 0; the list may be empty by now, and other workers may see the same
\* job.
Peek(w) ==
  /\ pc[w] = "peek"
  /\ peeked' = [peeked EXCEPT ![w].job = IF ready = <<>> THEN NoJob ELSE Head(ready)]
  /\ Goto(w, IF ready = <<>> THEN "pop" ELSE "read")
  /\ UNCHANGED <<admitted, ready, inFlight, meta, retryCount, nonReady, dead, job,
                 loaded, orphanVars, ends, failureVars>>

\* The two HGETs; a groupId never changes.
ReadPeeked(w) ==
  /\ pc[w] = "read"
  /\ peeked' = [peeked EXCEPT ![w].retry = retryCount[peeked[w].job]]
  /\ Goto(w, "pop")
  /\ UNCHANGED <<admitted, ready, inFlight, meta, retryCount, nonReady, dead, job,
                 loaded, orphanVars, ends, failureVars>>

\* Mutant of PeekedGroup: the group is never read.
NoPeekedGroup(w) == NoGroup

PeekedGroup(w) == IF peeked[w].job = NoJob THEN NoGroup ELSE GroupOf[peeked[w].job]

\* The hash of the job that is popped; its worker raced if it had peeked another
\* job, or an empty list.
PeekedMeta(w) ==
  [retry |-> peeked[w].retry, group |-> PeekedGroup(w), raced |-> peeked[w].job # Head(ready)]

\* Mutant of Leased: the job is popped and not put in flight.
NotLeased(j) == inFlight

\* ZADD with a new deadline.
Leased(j) == ZAdd(inFlight, j, Live)

\* Mutant of Popped: the head is read and stays in the list.
StillListed == ready

\* LPOP.
Popped == Tail(ready)

\* reliable-dequeue.lua: the hash of the popped job gets what was peeked.
Pop(w) ==
  /\ pc[w] = "pop"
  /\ IF ready = <<>>
       THEN Goto(w, "idle") /\ UNCHANGED <<ready, inFlight, meta, job>>
       ELSE /\ ready' = Popped
            /\ inFlight' = Leased(Head(ready))
            /\ meta' = ZAdd(meta, Head(ready), PeekedMeta(w))
            /\ job' = [job EXCEPT ![w] = Head(ready)]
            /\ Goto(w, "load")
  /\ peeked' = [peeked EXCEPT ![w] = NothingPeeked]
  /\ UNCHANGED <<admitted, retryCount, nonReady, dead, loaded, orphanVars, ends, failureVars>>

-----------------------------------------------------------------------------
(* Worker.tick *)

\* loadJob: the copy that handleJobFailed will look at.
Load(w) ==
  /\ pc[w] = "load"
  /\ loaded' = [loaded EXCEPT ![w] = retryCount[job[w]]]
  /\ Goto(w, "work")
  /\ UNCHANGED <<admitted, ready, inFlight, meta, retryCount, nonReady, dead, job, peeked,
                 orphanVars, ends, failureVars>>

\* Mutant of MayExtend: no look at the in-flight queue.
AlwaysExtend(j) == TRUE

\* extend-deadline.lua: ZSCORE finds the job.
MayExtend(j) == j \in DOMAIN inFlight

\* What recovery reads in a hash that has a deadline and nothing else.
BareMeta == [retry |-> 0, group |-> NoGroup, raced |-> FALSE]

\* extend-deadline.lua: ZADD, and HSET of the deadline, which creates a hash that
\* is not there.
ExtendDeadline(j) ==
  /\ MayExtend(j)
  /\ inFlight' = Leased(j)
  /\ meta' = IF j \in DOMAIN meta THEN meta ELSE ZAdd(meta, j, BareMeta)

\* The heartbeat of executeWithHeartbeat.
Heartbeat(w) ==
  /\ pc[w] = "work"
  /\ ExtendDeadline(job[w])
  /\ UNCHANGED <<admitted, ready, retryCount, nonReady, dead, workerVars, orphanVars, ends,
                 failureVars>>

\* The processor ends, or the timeout does: a result that is a success or not
\* retryable, one that is retryable, or an exception.
WorkEnds(w) ==
  /\ pc[w] = "work"
  /\ Goto(w, "ack") \/ Goto(w, "nack")
  /\ UNCHANGED <<admitted, ready, inFlight, meta, retryCount, nonReady, dead, job, peeked,
                 loaded, orphanVars, ends, failureVars>>

\* reliable-ack.lua: it knows no owner.
ReliableAck(j) == inFlight' = ZRem(inFlight, {j}) /\ meta' = ZRem(meta, {j})

\* ReliableQueueService.ack and nack, which call the same script; nobody looks at
\* what they return.
Release(w) ==
  /\ pc[w] \in {"ack", "nack"}
  /\ ReliableAck(job[w])
  /\ Goto(w, IF pc[w] = "ack" THEN "complete" ELSE "failed")
  /\ UNCHANGED <<admitted, ready, retryCount, nonReady, dead, job, peeked, loaded,
                 orphanVars, ends, failureVars>>

\* reliableAck throws: the catch block treats the job as failed.
AckThrows(w) ==
  /\ pc[w] = "ack" /\ throws < MaxThrows
  /\ throws' = throws + 1
  /\ Goto(w, "nack")
  /\ UNCHANGED <<admitted, ready, inFlight, meta, retryCount, nonReady, dead, job, peeked,
                 loaded, orphanVars, ends, crashes, stalls>>

\* handleJobComplete: recordJobResult and FairQueueService.ack.
Complete(w) ==
  /\ pc[w] = "complete"
  /\ ends' = [ends EXCEPT ![job[w]] = @ + 1]
  /\ EndTick(w)
  /\ UNCHANGED <<admitted, ready, inFlight, meta, retryCount, nonReady, dead, peeked,
                 orphanVars, failureVars>>

\* Mutant of MayRetry: one retry too many.
MayRetryOnceMore(w) == loaded[w] <= MaxRetry

MayRetry(w) == loaded[w] < MaxRetry

\* handleJobFailed: the retry is counted, or the job goes to the dead letters
\* and is then recorded and acknowledged like a complete one.
Failed(w) ==
  /\ pc[w] = "failed"
  /\ IF MayRetry(w)
       THEN /\ retryCount' = [retryCount EXCEPT ![job[w]] = @ + 1]
            /\ Goto(w, "requeue")
            /\ UNCHANGED dead
       ELSE /\ dead' = dead \cup {job[w]}
            /\ Goto(w, "complete")
            /\ UNCHANGED retryCount
  /\ UNCHANGED <<admitted, ready, inFlight, meta, nonReady, job, peeked, loaded, orphanVars,
                 ends, failureVars>>

\* BackpressureService.requeue.
Requeue(w) ==
  /\ pc[w] = "requeue"
  /\ nonReady' = nonReady \cup {job[w]}
  /\ EndTick(w)
  /\ UNCHANGED <<admitted, ready, inFlight, meta, retryCount, dead, peeked, orphanVars,
                 ends, failureVars>>

\* The process stops and a worker starts anew.  The same is left behind by an
\* exception anywhere else in tick, or in the handlers, which log and return.
Crash(w) ==
  /\ pc[w] # "idle" /\ crashes < MaxCrashes
  /\ crashes' = crashes + 1
  /\ peeked' = [peeked EXCEPT ![w] = NothingPeeked]
  /\ EndTick(w)
  /\ UNCHANGED <<admitted, ready, inFlight, meta, retryCount, nonReady, dead, orphanVars,
                 ends, throws, stalls>>

-----------------------------------------------------------------------------
(* OrphanRecoveryService.runOnce *)

\* The deadline of a job passes: its worker is gone, or it has not come to
\* extend it (a blocked event loop, a slow connection).
DeadlinePasses(j) ==
  /\ j \in DOMAIN inFlight /\ inFlight[j] = Live
  /\ inFlight' = ZAdd(inFlight, j, Overdue)
  /\ IF Keepers(j) = {}
       THEN UNCHANGED stalls
       ELSE stalls[j] < MaxStalls /\ stalls' = [stalls EXCEPT ![j] = @ + 1]
  /\ UNCHANGED <<admitted, ready, meta, retryCount, nonReady, dead, workerVars, orphanVars,
                 ends, crashes, throws>>

OverdueJobs == ZDue(inFlight, Overdue)

\* Mutant of Orphans: only full batches are recovered.
FullBatches == {batch \in SUBSET OverdueJobs : Cardinality(batch) = RecoveryBatch}

\* What ZRANGEBYSCORE with LIMIT can return: how late a job is decides, and the
\* score does not tell it here.
Orphans ==
  {batch \in SUBSET OverdueJobs \ {{}} :
     \/ Cardinality(batch) = RecoveryBatch
     \/ Cardinality(batch) < RecoveryBatch /\ batch = OverdueJobs}

Exhausted(j) == meta[j].retry >= MaxRecoveries

\* ZREM of every orphan.
StillInFlight(orphans) == ZRem(inFlight, orphans)

\* recover-orphans.lua decides by the retryCount in the hash: dead letters, whose
\* groups it takes from the hash too, or back into the ready queue in the order of
\* their deadlines.
Recover(orphans) ==
  LET lost == {j \in orphans : Exhausted(j)}
  IN /\ inFlight' = StillInFlight(orphans)
     /\ meta' = ZRem(meta, orphans)
     /\ \E back \in SetToSeqs(orphans \ lost) : ready' = ready \o back
     /\ retryCount' = [j \in Jobs |-> IF j \in orphans \ lost THEN retryCount[j] + 1
                                      ELSE retryCount[j]]
     /\ dead' = dead \cup lost
     /\ orphanEnds' = [j \in Jobs |-> orphanEnds[j] + CountIf(j \in lost)]
     /\ astray' = [j \in Jobs |->
                     astray[j] + CountIf(j \in lost /\ meta[j].group # GroupOf[j])]
     /\ UNCHANGED <<admitted, nonReady, workerVars, ends, failureVars>>

\* One end of each of the jobs is taken off the list, and it was astray for some.
Taken(jobs, stray) ==
  /\ \A j \in jobs : IF j \in stray THEN astray[j] > 0 ELSE orphanEnds[j] > astray[j]
  /\ orphanEnds' = [j \in Jobs |-> orphanEnds[j] - CountIf(j \in jobs)]
  /\ astray' = [j \in Jobs |-> astray[j] - CountIf(j \in stray)]

\* handleDeadLetteredOrphans: the end is recorded and acknowledged for the group
\* that the hash has named.
OrphanEnd(j) ==
  /\ \E stray \in SUBSET {j} : Taken({j}, stray)
  /\ ends' = [ends EXCEPT ![j] = @ + 1]
  /\ UNCHANGED <<admitted, ready, inFlight, meta, retryCount, nonReady, dead, workerVars,
                 failureVars>>

\* The instance stops, or a call throws: the rest of the loop is not done.
RecoveryFails ==
  /\ crashes < MaxCrashes
  /\ crashes' = crashes + 1
  /\ \E jobs \in SUBSET Jobs \ {{}} : \E stray \in SUBSET jobs : Taken(jobs, stray)
  /\ UNCHANGED <<admitted, ready, inFlight, meta, retryCount, nonReady, dead, workerVars,
                 ends, throws, stalls>>

-----------------------------------------------------------------------------
WorkerStep(w) ==
  \/ Length(w) \/ Peek(w) \/ ReadPeeked(w) \/ Pop(w) \/ Load(w) \/ WorkEnds(w)
  \/ Release(w) \/ Complete(w) \/ Failed(w) \/ Requeue(w)

Recovery == \E orphans \in Orphans : Recover(orphans)

Next ==
  \/ \E j \in Jobs : Admit(j) \/ MoveToReady(j) \/ DeadlinePasses(j) \/ OrphanEnd(j)
  \/ \E w \in Workers : WorkerStep(w) \/ Heartbeat(w) \/ AckThrows(w) \/ Crash(w)
  \/ Recovery
  \/ RecoveryFails

\* Workers poll and their timeout ends every job; deadlines pass; the recovery
\* runs at an interval on every instance.
Fairness ==
  /\ \A w \in Workers : WF_vars(WorkerStep(w))
  /\ \A j \in Jobs : WF_vars(DeadlinePasses(j)) /\ WF_vars(OrphanEnd(j)) /\ WF_vars(MoveToReady(j))
  /\ WF_vars(Recovery)

Spec == Init /\ [][Next]_vars /\ Fairness

-----------------------------------------------------------------------------
PCs == {"idle", "peek", "read", "pop", "load", "work", "ack", "nack"} \cup Released
HasJob == {"load", "work", "ack", "nack"} \cup Released

QueuesTypeOK ==
  /\ admitted \subseteq Jobs /\ ready \in Seq(Jobs) /\ nonReady \subseteq Jobs
  /\ dead \subseteq Jobs

LeasesTypeOK ==
  /\ DOMAIN inFlight \subseteq Jobs /\ inFlight \in [DOMAIN inFlight -> {Live, Overdue}]
  /\ DOMAIN meta \subseteq Jobs
  /\ meta \in [DOMAIN meta -> [retry : Nat, group : Range(GroupOf) \cup {NoGroup},
                             raced : BOOLEAN]]

CountersTypeOK ==
  /\ retryCount \in [Jobs -> Nat] /\ ends \in [Jobs -> Nat]
  /\ orphanEnds \in [Jobs -> Nat] /\ astray \in [Jobs -> Nat]
  /\ \A j \in Jobs : astray[j] <= orphanEnds[j]
  /\ crashes \in 0..MaxCrashes /\ throws \in 0..MaxThrows
  /\ stalls \in [Jobs -> 0..MaxStalls]

WorkersTypeOK ==
  /\ pc \in [Workers -> PCs]
  /\ job \in [Workers -> Jobs \cup {NoJob}]
  /\ \A w \in Workers : job[w] # NoJob <=> pc[w] \in HasJob
  /\ peeked \in [Workers -> [job : Jobs \cup {NoJob}, retry : Nat]]
  /\ \A w \in Workers : pc[w] = "read" => peeked[w].job # NoJob
  /\ loaded \in [Workers -> Nat]

\* The values of the keys and of the workers' local variables; a worker has a
\* job from the pop to the end of its tick.
TypeOK == QueuesTypeOK /\ LeasesTypeOK /\ CountersTypeOK /\ WorkersTypeOK

\* A lease names a group that is not the job's, or counts retries that it never had.
Misleading(j) == meta[j].group # GroupOf[j] \/ meta[j].retry > retryCount[j]

\* Every job in flight has the hash that describes it, and no other job has one,
\* whatever late acks, heartbeats and recoveries cross each other: recovery never
\* falls back on a missing hash, and a late heartbeat leaves no lease behind that
\* nobody took.  The hash describes another job only if another worker came
\* between the peek and the pop.
LeasesDescribeJobs ==
  /\ DOMAIN meta = DOMAIN inFlight
  /\ \A j \in DOMAIN meta : Misleading(j) => meta[j].raced

\* The end of an orphan goes to another group, which it then completes early while
\* its own waits for it, only if a worker popped the job after it had peeked another
\* one: retries, recoveries, crashes and late heartbeats do not cause it.
AstrayNeedsRace ==
  [][\A j \in Jobs : astray'[j] > astray[j] => j \in DOMAIN meta /\ meta[j].raced]_vars

\* The places from which a job will be worked on or ended, and its past ends.
Copies(j) ==
  Cardinality({i \in DOMAIN ready : ready[i] = j}) + Cardinality(Holders(j))
    + CountIf(j \in nonReady) + CountIf(j \in DOMAIN inFlight /\ Keepers(j) = {})
    + orphanEnds[j] + ends[j]

\* A job is worked on by one worker at a time and ended once, except that each
\* deadline that passes while a worker is alive may add one more handling:
\* crashes, exceptions and retries never duplicate a job.
DuplicatesNeedStalls == \A j \in Jobs : Copies(j) <= 1 + stalls[j]

\* A job whose retries are spent is not tried for ever: its count passes the
\* configured maximum at most once for every crash and every passed deadline.
RetriesBounded == \A j \in Jobs : retryCount[j] <= MaxRetry + crashes + stalls[j]

\* The jobs that a queue or a worker still has, that are dead letters or ended.
Placed ==
  Range(ready) \cup DOMAIN inFlight \cup nonReady \cup dead
    \cup ({job[w] : w \in Workers} \ {NoJob}) \cup {j \in Jobs : ends[j] > 0}

\* A job can only disappear with a worker that has released it and has not yet
\* recorded its end or requeued it; until then every crash leaves it in flight.
\* Only when a job was late, so that another worker could release it and crash,
\* may the worker that was late take the last trace of it away.
LossOnlyAfterRelease ==
  [][\A j \in Placed \ Placed' :
       \E w \in Holders(j) : pc[w] \in Released \/ (crashes > 0 /\ stalls[j] > 0)]_vars

\* Every handling that is owed to a job comes to an end: it is recorded, or it
\* is lost with its worker, but no lease, retry or recovery goes on for ever,
\* whichever worker stops.
DebtsSettled == <>[](\A j \in Jobs : Copies(j) = ends[j])

=============================================================================
