------------------------ MODULE ApplicationInstance --------------------------
(***************************************************************************)
(* One application instance from its first hook to its exit: the order in  *)
(* which NestJS calls the hooks of the providers of BulkActionModule, the  *)
(* loops that WorkerPoolService starts and stops (FetcherService,          *)
(* DispatcherService, Worker), the timers of WatcherService and            *)
(* OrphanRecoveryService, and the Redis connection that all of them share. *)
(*                                                                         *)
(* What the calls do to the queues is in the other modules; here a queue   *)
(* has a job or not, and a job may be in several: recovery can take the    *)
(* lease of a worker that is still at work, at any time, since a deadline  *)
(* is a time.  A call answers, or it throws and has done nothing: up to    *)
(* MaxThrows times while the connection is open, and always after QUIT.    *)
(***************************************************************************)
EXTENDS Naturals, Sequences

CONSTANTS
  Jobs, Workers,
  TypeOf,      \* job.processorType
  DefaultTypes, CustomTypes, \* the processors of the module and of registerProcessors
  BatchSize,   \* config.workerPool.fetchBatchSize
  MaxThrows,   \* bound: calls that throw while the connection is open
  SlowJobs,    \* bound: jobs whose deadline may pass while a worker is at work on them
  NoJob

ASSUME InstanceAssumption ==
  /\ BatchSize \in Nat \ {0} /\ MaxThrows \in Nat /\ NoJob \notin Jobs
  /\ SlowJobs \subseteq Jobs

VARIABLES
  phase,      \* of the application
  hook,       \* how many onModuleInit hooks have run
  loaded,     \* whether the client knows the Lua commands
  connection, \* of the Redis client
  aborted,    \* the AbortController of fetcher and dispatcher
  fetcher, fetched, held, \* the loop of FetcherService and its variables
  dispatcher, \* the loop of DispatcherService
  timers,     \* the services whose interval is set
  recovery,   \* runOnce of OrphanRecoveryService
  state, pc, job,  \* worker -> its state, the call it makes next, and its job
  graceOver,  \* whether the grace period has passed
  places,     \* job -> the queues that have it
  late,       \* history: the jobs recovery took from a worker that was at work on them
  throws

lifeVars == <<phase, hook, loaded, connection, aborted, timers, graceOver>>
fetcherVars == <<fetcher, fetched, held>>
workerVars == <<state, pc, job>>
vars == <<lifeVars, fetcherVars, dispatcher, recovery, workerVars, places, late, throws>>

Init ==
  /\ phase = "init" /\ hook = 0 /\ loaded = FALSE /\ connection = "open"
  /\ aborted = FALSE /\ timers = {} /\ graceOver = FALSE
  /\ fetcher = "off" /\ fetched = 0 /\ held = NoJob
  /\ dispatcher = "off" /\ recovery = "off"
  /\ state = [w \in Workers |-> "IDLE"]
  /\ pc = [w \in Workers |-> "off"]
  /\ job = [w \in Workers |-> NoJob]
  /\ places = [j \in Jobs |-> {"fair"}]
  /\ late = {}
  /\ throws = 0

Alive == phase \in {"up", "quitting", "stopping"}

Answers == connection = "open" /\ UNCHANGED throws

Throws ==
  \/ connection = "closed" /\ UNCHANGED throws
  \/ connection = "open" /\ throws < MaxThrows /\ throws' = throws + 1

\* A script takes a job out of one queue, and puts it into another.
Leaves(j, queue) == places' = [places EXCEPT ![j] = @ \ {queue}]
Enters(j, queue) == places' = [places EXCEPT ![j] = @ \cup {queue}]
Moves(j, from, to) == places' = [places EXCEPT ![j] = (@ \ {from}) \cup {to}]

-----------------------------------------------------------------------------
(* Start: the onModuleInit hooks *)

\* The providers of the module that have the hook, in their order: NestJS calls
\* the hooks in it, and none of them waits for anything.
InitHooks ==
  <<"LuaScriptLoader", "WatcherService", "OrphanRecoveryService", "WorkerPoolService">>

\* start: an AbortController, and the first cycle of the loop.
StartFetcher == fetcher' = "capacity"
StartDispatcher == dispatcher' = "capacity"

\* WorkerPoolService.startAll, and the start methods it calls.
StartAll ==
  /\ StartFetcher /\ StartDispatcher
  /\ state' = [w \in Workers |-> "RUNNING"]
  /\ pc' = [w \in Workers |-> "dequeue"]

\* The hooks of WatcherService and OrphanRecoveryService set an interval.
TimersAfter(name) == timers \cup ({name} \cap {"WatcherService", "OrphanRecoveryService"})

InitHook ==
  LET name == InitHooks[hook + 1]
  IN /\ phase = "init"
     /\ hook' = hook + 1
     /\ phase' = IF hook' = Len(InitHooks) THEN "up" ELSE "init"
     /\ loaded' = (loaded \/ name = "LuaScriptLoader")
     /\ timers' = TimersAfter(name)
     /\ IF name = "WorkerPoolService"
          THEN StartAll ELSE UNCHANGED <<fetcher, dispatcher, state, pc>>
     /\ UNCHANGED <<connection, aborted, graceOver, fetched, held, recovery, job, places, late,
                    throws>>

-----------------------------------------------------------------------------
(* FetcherService.runLoop and fetchCycle *)

\* fetchCycle catches what it and admit throw.
AfterFetchError == "sleep"

FetcherGoes(next, n, j) == fetcher' = next /\ fetched' = n /\ held' = j

FetchCapacity ==
  /\ fetcher = "capacity" /\ Answers
  /\ \/ FetcherGoes("dequeue", fetched, NoJob)
     \/ FetcherGoes("sleep", fetched, NoJob)
  /\ UNCHANGED places

FetchDequeue ==
  /\ fetcher = "dequeue" /\ Answers
  /\ \/ \E j \in Jobs :
          /\ "fair" \in places[j] /\ Leaves(j, "fair")
          /\ FetcherGoes("admit", fetched, j)
     \/ /\ \A j \in Jobs : "fair" \notin places[j]
        /\ FetcherGoes("sleep", fetched, NoJob)
        /\ UNCHANGED places

\* admit puts the job into a queue, or rejects it: then no queue has it.
FetchAdmit ==
  /\ fetcher = "admit" /\ Answers
  /\ \/ /\ \E queue \in {"ready", "nonReady"} : Enters(held, queue)
        /\ FetcherGoes(IF fetched + 1 < BatchSize THEN "capacity" ELSE "sleep", fetched + 1, NoJob)
     \/ FetcherGoes("sleep", fetched, NoJob) /\ UNCHANGED places

FetchThrows ==
  /\ fetcher \in {"capacity", "dequeue", "admit"} /\ Throws
  /\ FetcherGoes(AfterFetchError, fetched, NoJob) /\ UNCHANGED places

\* stop is seen between two cycles only.
FetchSleep ==
  /\ fetcher = "sleep"
  /\ FetcherGoes(IF aborted THEN "ended" ELSE "capacity", 0, NoJob)
  /\ UNCHANGED <<places, throws>>

FetcherStep ==
  /\ FetchCapacity \/ FetchDequeue \/ FetchAdmit \/ FetchThrows \/ FetchSleep
  /\ UNCHANGED <<lifeVars, dispatcher, recovery, workerVars, late>>

-----------------------------------------------------------------------------
(* DispatcherService.runLoop and dispatch *)

DispatchStep ==
  /\ \/ /\ dispatcher = "capacity" /\ Answers
        /\ dispatcher' \in {"move", "sleep"} /\ UNCHANGED places
     \/ /\ dispatcher = "move" /\ Answers
        /\ dispatcher' = "sleep"
        /\ \E j \in Jobs : "nonReady" \in places[j] /\ Moves(j, "nonReady", "ready")
     \/ /\ dispatcher = "move" /\ Answers
        /\ dispatcher' = "sleep" /\ UNCHANGED places
     \/ /\ dispatcher \in {"capacity", "move"} /\ Throws
        /\ dispatcher' = "sleep" /\ UNCHANGED places
     \/ /\ dispatcher = "sleep"
        /\ dispatcher' = (IF aborted THEN "ended" ELSE "capacity")
        /\ UNCHANGED <<places, throws>>
  /\ UNCHANGED <<lifeVars, fetcherVars, recovery, workerVars, late>>

-----------------------------------------------------------------------------
(* Worker.loop and tick *)

\* Mutant of AfterTick: the loop looks for STOPPED, which follows its end.
LoopUntilStopped(w) == IF state[w] # "STOPPED" THEN "dequeue" ELSE "ended"

\* The condition of the loop, after a tick.
AfterTick(w) == IF state[w] = "RUNNING" THEN "dequeue" ELSE "ended"

\* register and registerProcessors: custom processors replace the module's own.
Processors == IF CustomTypes = {} THEN DefaultTypes ELSE CustomTypes

\* The finally block of tick.
JobAfterTick(w) == NoJob

\* processorMap, which the constructor of WorkerPoolService fills.
HasProcessor(j) == TypeOf[j] \in Processors

Goto(w, next) == pc' = [pc EXCEPT ![w] = next] /\ UNCHANGED <<state, job>>
EndTick(w) ==
  /\ pc' = [pc EXCEPT ![w] = AfterTick(w)]
  /\ job' = [job EXCEPT ![w] = JobAfterTick(w)]
  /\ UNCHANGED state

\* The calls during which a worker counts on its lease, and those after it.
Leased == {"load", "process", "ack", "nackResult", "nack"}
Released == {"complete", "failed"}

\* An empty ready queue makes the worker wait for the poll interval.
Dequeue(w) ==
  /\ pc[w] = "dequeue" /\ Answers
  /\ \/ \E j \in Jobs :
          /\ "ready" \in places[j] /\ Moves(j, "ready", "inFlight")
          /\ job' = [job EXCEPT ![w] = j]
          /\ pc' = [pc EXCEPT ![w] = "load"]
          /\ UNCHANGED state
     \/ /\ \A j \in Jobs : "ready" \notin places[j]
        /\ Goto(w, "wait") /\ UNCHANGED places

Load(w) == pc[w] = "load" /\ Answers /\ Goto(w, "process") /\ UNCHANGED places

\* The processor answers, throws or times out; without one tick throws.
Process(w) ==
  /\ pc[w] = "process"
  /\ \/ HasProcessor(job[w]) /\ \E next \in {"ack", "nackResult"} : Goto(w, next)
     \/ Goto(w, "nack")
  /\ UNCHANGED <<places, throws>>

\* ack and nack take away the job's lease, whoever has it by now; tick goes on
\* whether there was one or not.
Release(w) ==
  /\ pc[w] \in {"ack", "nackResult", "nack"} /\ Answers
  /\ Leaves(job[w], "inFlight")
  /\ Goto(w, IF pc[w] = "ack" THEN "complete" ELSE "failed")

\* handleJobComplete, handleJobFailed: the job is done, or it is requeued.
Handle(w) ==
  /\ pc[w] \in Released /\ Answers
  /\ \/ UNCHANGED places
     \/ pc[w] = "failed" /\ Enters(job[w], "nonReady")
  /\ EndTick(w)

\* The two handlers catch what they throw, and no queue has the job then;
\* everything else ends up in the catch of tick or, from there, in that of the
\* loop, and the lease stays.
WorkerThrows(w) ==
  /\ Throws
  /\ CASE pc[w] \in {"dequeue", "load", "nack"} ->
            /\ pc' = [pc EXCEPT ![w] = "wait"]
            /\ job' = [job EXCEPT ![w] = JobAfterTick(w)]
            /\ UNCHANGED state
       [] pc[w] \in {"ack", "nackResult"} -> Goto(w, "nack")
       [] pc[w] \in Released -> EndTick(w)
       [] OTHER -> FALSE
  /\ UNCHANGED places

\* The poll interval, or the second after an error.
Wait(w) == pc[w] = "wait" /\ EndTick(w) /\ UNCHANGED <<places, throws>>

WorkerStep(w) ==
  /\ Dequeue(w) \/ Load(w) \/ Process(w) \/ Release(w) \/ Handle(w) \/ WorkerThrows(w) \/ Wait(w)
  /\ UNCHANGED <<lifeVars, fetcherVars, dispatcher, recovery, late>>

-----------------------------------------------------------------------------
(* OrphanRecoveryService: the interval calls runOnce and drops its promise *)

RecoveryStarts ==
  /\ recovery = "off" /\ "OrphanRecoveryService" \in timers
  /\ recovery' = "scan"
  /\ UNCHANGED <<places, late, throws>>

\* recover-orphans.lua: leases whose time is over, of jobs that nobody works on
\* any more or somebody still does.  Those that have no retries left (dead) go to
\* the dead letters and are recorded next, the others to the ready queue.
RecoveryScan ==
  /\ recovery = "scan" /\ Answers
  /\ \E taken \in SUBSET {j \in Jobs : "inFlight" \in places[j]} :
     \E dead \in SUBSET taken :
       /\ places' = [j \in Jobs |->
                      IF j \in dead THEN places[j] \ {"inFlight"}
                      ELSE IF j \in taken THEN (places[j] \ {"inFlight"}) \cup {"ready"}
                      ELSE places[j]]
       /\ late' = late \cup {j \in taken : \E w \in Workers : job[w] = j /\ pc[w] \in Leased}
       /\ late' \subseteq SlowJobs
       /\ recovery' = IF dead = {} THEN "off" ELSE "record"

\* handleDeadLetteredOrphans.
RecoveryRecords ==
  /\ recovery = "record" /\ Answers
  /\ recovery' = "off"
  /\ UNCHANGED <<places, late>>

RecoveryStep ==
  /\ RecoveryStarts \/ RecoveryScan \/ RecoveryRecords
  /\ UNCHANGED <<lifeVars, fetcherVars, dispatcher, workerVars>>

\* Nothing catches what runOnce throws: an unhandled rejection ends the process.
RecoveryThrows ==
  /\ recovery # "off" /\ Throws
  /\ phase' = "crashed"
  /\ UNCHANGED <<hook, loaded, connection, aborted, timers, graceOver, fetcherVars, dispatcher,
                 recovery, workerVars, places, late>>

(* WatcherService: the interval calls watchCycle and catches what it throws *)

\* What a cycle does to the groups is in GroupLifecycle.
WatchCycle ==
  /\ "WatcherService" \in timers
  /\ Answers \/ Throws
  /\ UNCHANGED <<lifeVars, fetcherVars, dispatcher, recovery, workerVars, places, late>>

-----------------------------------------------------------------------------
(* Stop: NestJS calls onModuleDestroy, of the module farthest from the root    *)
(* first, and onApplicationShutdown afterwards                                 *)

\* RedisService.onModuleDestroy: what is sent after QUIT is not answered.  When
\* QUIT itself throws, no other hook is called and NestJS ends the process.
Quit ==
  /\ phase = "up"
  /\ connection' = "closed"
  /\ \/ phase' = "quitting" /\ UNCHANGED throws
     \/ phase' = "crashed" /\ Throws
  /\ UNCHANGED <<hook, loaded, aborted, timers, graceOver, fetcherVars, dispatcher, recovery,
                 workerVars, places, late>>

ClearTimers == timers' = {}

\* stop of FetcherService and DispatcherService.
AbortLoops == aborted' = TRUE

\* The hooks of BulkActionModule's providers, then WorkerPoolService.shutdown as
\* far as the grace period.
Shutdown ==
  /\ phase = "quitting"
  /\ phase' = "stopping"
  /\ ClearTimers /\ AbortLoops
  /\ state' = [w \in Workers |-> "STOPPING"]
  /\ UNCHANGED <<hook, loaded, connection, graceOver, fetcherVars, dispatcher, recovery, pc, job,
                 places, late, throws>>

\* Mutant of StopResolves: stop does not wait for the loop.
StopAtOnce(w) == state[w] = "STOPPING"

\* Worker.stop waits for its loop.
StopResolves(w) == state[w] = "STOPPING" /\ pc[w] = "ended"

WorkerStopped(w) ==
  /\ StopResolves(w)
  /\ state' = [state EXCEPT ![w] = "STOPPED"]
  /\ UNCHANGED <<lifeVars, fetcherVars, dispatcher, recovery, pc, job, places, late, throws>>

GracePasses ==
  /\ phase = "stopping" /\ ~graceOver /\ graceOver' = TRUE
  /\ UNCHANGED <<phase, hook, loaded, connection, aborted, timers, fetcherVars, dispatcher,
                 recovery, workerVars, places, late, throws>>

\* The race in shutdown is decided, and the process ends.
Exit ==
  /\ phase = "stopping"
  /\ graceOver \/ \A w \in Workers : state[w] = "STOPPED"
  /\ phase' = "exited"
  /\ UNCHANGED <<hook, loaded, connection, aborted, timers, graceOver, fetcherVars, dispatcher,
                 recovery, workerVars, places, late, throws>>

-----------------------------------------------------------------------------
Next ==
  \/ InitHook
  \/ Quit \/ Shutdown \/ GracePasses \/ Exit
  \/ Alive /\ (FetcherStep \/ DispatchStep \/ RecoveryStep \/ RecoveryThrows \/ WatchCycle)
  \/ \E w \in Workers : Alive /\ (WorkerStep(w) \/ WorkerStopped(w))

\* The hooks run to their end; a call answers or throws, and a processor is ended
\* by the timeout of its job.  Nothing is assumed of the grace period.
Fairness ==
  /\ WF_vars(InitHook) /\ WF_vars(Shutdown) /\ WF_vars(Exit)
  /\ \A w \in Workers : WF_vars(Alive /\ (WorkerStep(w) \/ WorkerStopped(w)))

Spec == Init /\ [][Next]_vars /\ Fairness

-----------------------------------------------------------------------------
FetcherPCs == {"off", "capacity", "dequeue", "admit", "sleep", "ended"}
WorkerPCs ==
  {"off", "dequeue", "load", "process", "ack", "nackResult", "nack", "complete", "failed", "wait",
   "ended"}
Queues == {"fair", "ready", "nonReady", "inFlight"}

\* The variables of the application and of the loops.
LifeTypeOK ==
  /\ phase \in {"init", "up", "quitting", "stopping", "exited", "crashed"}
  /\ hook \in 0..Len(InitHooks) /\ connection \in {"open", "closed"}
  /\ loaded \in BOOLEAN /\ aborted \in BOOLEAN /\ graceOver \in BOOLEAN
  /\ timers \subseteq {"WatcherService", "OrphanRecoveryService"}
  /\ throws \in 0..MaxThrows

LoopsTypeOK ==
  /\ fetcher \in FetcherPCs /\ fetched \in 0..BatchSize /\ held \in Jobs \cup {NoJob}
  /\ fetcher # "sleep" => fetched < BatchSize
  /\ held # NoJob <=> fetcher = "admit"
  /\ dispatcher \in {"off", "capacity", "move", "sleep", "ended"}
  /\ recovery \in {"off", "scan", "record"}

WorkersTypeOK ==
  /\ state \in [Workers -> {"IDLE", "RUNNING", "STOPPING", "STOPPED"}]
  /\ pc \in [Workers -> WorkerPCs] /\ job \in [Workers -> Jobs \cup {NoJob}]
  /\ \A w \in Workers : job[w] = NoJob <=> pc[w] \in {"off", "dequeue", "wait", "ended"}

JobsTypeOK == places \in [Jobs -> SUBSET Queues] /\ late \subseteq Jobs

TypeOK == LifeTypeOK /\ LoopsTypeOK /\ WorkersTypeOK /\ JobsTypeOK

\* Only a recovery that takes the lease of a worker which is still at work brings
\* a job into more hands than one.  Every other job is in one queue, or with the
\* one loop that has taken it out, or nowhere: no call that throws half-way, and
\* no recovery of what such a call has left behind, makes a second holder.
OneHolder ==
  \A j \in Jobs \ late :
    /\ \A p, q \in places[j] : p = q
    /\ held = j => places[j] = {}
    /\ \A w \in Workers : job[w] = j =>
         /\ places[j] = (IF pc[w] \in Leased THEN {"inFlight"} ELSE {})
         /\ held # j
         /\ \A v \in Workers : job[v] = j => v = w

\* No loop runs before the client knows the commands it calls: the order of the
\* providers is what the first calls of fetcher and workers rely on.
LoadedBeforeCalls ==
  fetcher # "off" \/ dispatcher # "off" \/ recovery # "off" => loaded

\* isRunning of FetcherService and DispatcherService: whether they have an
\* AbortController.
FetcherRunning == fetcher # "off" /\ ~aborted
DispatcherRunning == dispatcher # "off" /\ ~aborted

\* WorkerPoolService.getPoolStatus: the sets of workers whose sizes it returns.
\* A worker has a current job after loadJob.
PoolStatus ==
  LET active == {w \in Workers : state[w] = "RUNNING"}
  IN [activeWorkers |-> active,
      idleWorkers |-> {w \in active : job[w] = NoJob \/ pc[w] = "load"},
      fetcherRunning |-> FetcherRunning, dispatcherRunning |-> DispatcherRunning]

\* While the application is up no loop has ended, whatever call threw and
\* whatever was half done then, and the pool status says so.
LoopsSurvive ==
  phase = "up" =>
    /\ fetcher \notin {"off", "ended"} /\ dispatcher \notin {"off", "ended"}
    /\ \A w \in Workers : pc[w] \notin {"off", "ended"}
    /\ PoolStatus.fetcherRunning /\ PoolStatus.dispatcherRunning
    /\ PoolStatus.activeWorkers = Workers

\* A worker that the pool status counts as active and not idle has a job that no
\* queue offers to anybody else, unless recovery has taken it away meanwhile: what
\* it shows as busy is work in hand.
BusyWorkersHaveJobs ==
  \A w \in PoolStatus.activeWorkers \ PoolStatus.idleWorkers :
    job[w] \in late \/ places[job[w]] \subseteq {"inFlight"}

\* An exit before the grace period is over leaves no worker in the middle of a
\* job: every loop has ended.
ExitWaitsForLoops ==
  phase = "exited" /\ ~graceOver => \A w \in Workers : pc[w] = "ended"

\* A shutdown ends, and not only because the grace period does: the closed
\* connection, which makes every call of a worker throw, keeps none of them in
\* its loop.
ShutdownEnds == phase = "quitting" ~> phase \in {"exited", "crashed"}
=============================================================================
