-------------------------- MODULE ApplicationProofs --------------------------
(***************************************************************************)
(* What holds inside one process of the application.                       *)
(*                                                                         *)
(* The life of an instance, for every number of jobs and workers, every    *)
(* batch size and every sequence of calls that throw: the types, who has a *)
(* job, and what its start and its shutdown guarantee of the loops.        *)
(*                                                                         *)
(* The calls it makes and serves, for every set of calls and clients, any  *)
(* number of attempts, retries, failures and events: the types, what a     *)
(* call sends, what the listeners of a transaction hear, and how often a   *)
(* change is made.                                                         *)
(***************************************************************************)
EXTENDS ApplicationInstance, Requests, SequenceTheorems, FiniteSetTheorems, TLAPS

-----------------------------------------------------------------------------
(* The life of an instance                                                 *)

LEMMA InitTypeOK == InstanceAssumption /\ Init => TypeOK
<1> SUFFICES ASSUME InstanceAssumption, Init PROVE TypeOK
  OBVIOUS
<1> USE DEF Init, InstanceAssumption
<1>0. Len(InitHooks) = 4
  BY DEF InitHooks
<1>1. LifeTypeOK
  <2>1. hook \in 0..Len(InitHooks) /\ throws \in 0..MaxThrows
    BY <1>0
  <2>2. loaded = FALSE /\ aborted = FALSE /\ timers = {} /\ graceOver = FALSE
    BY Zenon
  <2> QED
    BY <2>1, <2>2 DEF LifeTypeOK
<1>2. LoopsTypeOK
  BY DEF LoopsTypeOK, FetcherPCs
<1>3. WorkersTypeOK
  BY DEF WorkersTypeOK, WorkerPCs
<1>4. JobsTypeOK
  BY DEF JobsTypeOK, Queues
<1> QED
  BY <1>1, <1>2, <1>3, <1>4 DEF TypeOK

\* The hook that runs next, by its number.
LEMMA NextHook ==
  ASSUME TypeOK, InitHook, hook < Len(InitHooks)
  PROVE  /\ hook' \in 0..Len(InitHooks)
         /\ \/ hook' < Len(InitHooks) /\ phase' = "init" /\ InitHooks[hook + 1] # "WorkerPoolService"
            \/ hook' = Len(InitHooks) /\ phase' = "up" /\ InitHooks[hook + 1] = "WorkerPoolService"
         /\ hook = 0 => InitHooks[hook + 1] = "LuaScriptLoader"
<1>1. hook \in 0..3 /\ Len(InitHooks) = 4
  BY DEF TypeOK, LifeTypeOK, InitHooks
<1>2. hook' = hook + 1 /\ phase' = IF hook' = 4 THEN "up" ELSE "init"
  BY <1>1 DEF InitHook
<1>3. /\ InitHooks[1] = "LuaScriptLoader" /\ InitHooks[2] = "WatcherService"
      /\ InitHooks[3] = "OrphanRecoveryService" /\ InitHooks[4] = "WorkerPoolService"
  BY DEF InitHooks
<1>4. hook = 0 \/ hook = 1 \/ hook = 2 \/ hook = 3
  BY <1>1
<1> QED
  BY <1>1, <1>2, <1>3, <1>4

\* No hook is left to run when the application is up.
HooksLeft == phase = "init" => hook < Len(InitHooks)

LEMMA LifeKeepsType ==
  ASSUME InstanceAssumption, TypeOK, HooksLeft, [Next]_vars
  PROVE  LifeTypeOK'
<1> USE DEF TypeOK, LifeTypeOK
<1>1. throws' \in 0..MaxThrows
  <2>1. Answers \/ Throws \/ UNCHANGED throws => throws' \in 0..MaxThrows
    BY DEF Answers, Throws, InstanceAssumption
  <2>2. Answers \/ Throws \/ UNCHANGED throws
    BY DEF Next, vars, InitHook, Quit, Shutdown, GracePasses, Exit, FetcherStep, FetchCapacity,
      FetchDequeue, FetchAdmit, FetchThrows, FetchSleep, DispatchStep, RecoveryStep,
      RecoveryStarts, RecoveryScan, RecoveryRecords, RecoveryThrows, WatchCycle, WorkerStep,
      Dequeue, Load, Process, Release, Handle, WorkerThrows, Wait, WorkerStopped
  <2> QED
    BY <2>1, <2>2
<1>2. CASE InitHook
  BY <1>1, <1>2, NextHook DEF InitHook, HooksLeft, TimersAfter
<1>3. CASE UNCHANGED lifeVars
  BY <1>1, <1>3 DEF lifeVars
<1>4. CASE RecoveryThrows \/ Quit \/ Shutdown \/ GracePasses \/ Exit
  BY <1>1, <1>4 DEF RecoveryThrows, Quit, Shutdown, GracePasses, Exit, AbortLoops, ClearTimers
<1> QED
  BY <1>2, <1>3, <1>4 DEF Next, vars, FetcherStep, DispatchStep, RecoveryStep, WatchCycle,
    WorkerStep, WorkerStopped

LEMMA LoopsKeepType ==
  ASSUME InstanceAssumption, TypeOK, HooksLeft, [Next]_vars,
         phase = "init" => fetched = 0 /\ held = NoJob
  PROVE  LoopsTypeOK'
<1> USE DEF TypeOK, LoopsTypeOK, FetcherPCs
<1>1. CASE UNCHANGED <<fetcherVars, dispatcher, recovery>>
  BY <1>1 DEF fetcherVars
<1>2. CASE InitHook
  BY <1>2 DEF InitHook, StartAll, StartFetcher, StartDispatcher, InstanceAssumption
<1>3. CASE FetcherStep
  <2> USE DEF FetcherGoes, InstanceAssumption
  <2>1. UNCHANGED <<dispatcher, recovery>>
    BY <1>3 DEF FetcherStep
  <2>2. CASE FetchCapacity
    BY <2>1, <2>2 DEF FetchCapacity
  <2>3. CASE FetchDequeue
    BY <2>1, <2>3 DEF FetchDequeue
  <2>4. CASE FetchAdmit
    BY <2>1, <2>4 DEF FetchAdmit
  <2>5. CASE FetchThrows
    BY <2>1, <2>5 DEF FetchThrows, AfterFetchError
  <2>6. CASE FetchSleep
    BY <2>1, <2>6 DEF FetchSleep
  <2> QED
    BY <1>3, <2>2, <2>3, <2>4, <2>5, <2>6 DEF FetcherStep
<1>4. CASE DispatchStep
  BY <1>4 DEF DispatchStep, fetcherVars
<1>5. CASE RecoveryStep
  BY <1>5 DEF RecoveryStep, RecoveryStarts, RecoveryScan, RecoveryRecords, fetcherVars
<1> QED
  BY <1>1, <1>2, <1>3, <1>4, <1>5 DEF Next, vars, Quit, Shutdown, GracePasses, Exit, RecoveryThrows,
    WatchCycle, WorkerStep, WorkerStopped

LEMMA WorkersKeepType ==
  ASSUME InstanceAssumption, TypeOK, [Next]_vars, phase = "init" => \A w \in Workers : pc[w] = "off"
  PROVE  WorkersTypeOK'
<1> USE DEF TypeOK, WorkersTypeOK, WorkerPCs
<1>1. CASE UNCHANGED workerVars
  BY <1>1 DEF workerVars
<1>2. CASE InitHook
  BY <1>2 DEF InitHook, StartAll
<1>3. CASE Shutdown
  BY <1>3 DEF Shutdown
<1>4. ASSUME NEW w \in Workers, WorkerStopped(w) PROVE WorkersTypeOK'
  BY <1>4 DEF WorkerStopped
<1>5. ASSUME NEW w \in Workers, WorkerStep(w) PROVE WorkersTypeOK'
  <2> USE DEF Goto, EndTick, AfterTick, JobAfterTick
  <2>1. CASE Dequeue(w)
    BY <2>1 DEF Dequeue, InstanceAssumption
  <2>2. CASE Load(w) \/ Process(w) \/ Release(w)
    BY <2>2 DEF Load, Process, Release
  <2>3. CASE Handle(w) \/ Wait(w)
    BY <2>3 DEF Handle, Wait, Released
  <2>4. CASE WorkerThrows(w)
    <3>1. CASE pc[w] \in {"dequeue", "load", "nack"}
      BY <2>4, <3>1 DEF WorkerThrows
    <3>2. CASE pc[w] \in {"ack", "nackResult"}
      BY <2>4, <3>2 DEF WorkerThrows
    <3>3. CASE pc[w] \in {"complete", "failed"}
      BY <2>4, <3>3 DEF WorkerThrows, Released
    <3> QED
      BY <2>4, <3>1, <3>2, <3>3 DEF WorkerThrows, Released
  <2> QED
    BY <1>5, <2>1, <2>2, <2>3, <2>4 DEF WorkerStep
<1> QED
  BY <1>1, <1>2, <1>3, <1>4, <1>5 DEF Next, vars, Quit, GracePasses, Exit, RecoveryThrows,
    FetcherStep, DispatchStep, RecoveryStep, WatchCycle

LEMMA JobsKeepType ==
  ASSUME TypeOK, [Next]_vars
  PROVE  JobsTypeOK'
<1> USE DEF TypeOK, JobsTypeOK, Queues, Leaves, Enters, Moves
<1>1. CASE UNCHANGED <<places, late>>
  BY <1>1
<1>2. CASE FetcherStep
  BY <1>2 DEF FetcherStep, FetchCapacity, FetchDequeue, FetchAdmit, FetchThrows, FetchSleep
<1>3. CASE DispatchStep
  BY <1>3 DEF DispatchStep
<1>4. ASSUME NEW w \in Workers, WorkerStep(w) PROVE JobsTypeOK'
  BY <1>4 DEF WorkerStep, Dequeue, Load, Process, Release, Handle, WorkerThrows, Wait
<1>5. CASE RecoveryStep
  BY <1>5 DEF RecoveryStep, RecoveryStarts, RecoveryScan, RecoveryRecords
<1> QED
  BY <1>1, <1>2, <1>3, <1>4, <1>5 DEF Next, vars, InitHook, Quit, Shutdown, GracePasses, Exit,
    RecoveryThrows, WatchCycle, WorkerStopped

-----------------------------------------------------------------------------
\* Before the last hook nothing runs; while the application is up every loop
\* runs and no stop has been asked for; and a worker counts as stopped only when
\* its loop has ended.
LoopsFollowPhase ==
  /\ HooksLeft
  /\ hook # 0 => loaded
  /\ phase # "init" => loaded
  /\ phase = "init" =>
       /\ fetcher = "off" /\ fetched = 0 /\ held = NoJob
       /\ dispatcher = "off" /\ recovery = "off" /\ ~aborted
       /\ \A w \in Workers : pc[w] = "off"
  /\ phase = "up" => ~aborted /\ \A w \in Workers : state[w] = "RUNNING"
  /\ \A w \in Workers : state[w] = "STOPPED" => pc[w] = "ended"

\* The loops themselves, without what getPoolStatus says of them.
LoopsRun ==
  phase = "up" =>
    /\ fetcher \notin {"off", "ended"} /\ dispatcher \notin {"off", "ended"}
    /\ \A w \in Workers : pc[w] \notin {"off", "ended"}

PhaseInv == LoopsFollowPhase /\ LoadedBeforeCalls /\ LoopsRun /\ ExitWaitsForLoops

LEMMA InitPhaseInv == Init => PhaseInv
  BY DEF Init, PhaseInv, LoopsFollowPhase, HooksLeft, InitHooks, LoadedBeforeCalls, LoopsRun,
    ExitWaitsForLoops

LEMMA TypeKept == InstanceAssumption /\ TypeOK /\ PhaseInv /\ [Next]_vars => TypeOK'
<1> SUFFICES ASSUME InstanceAssumption, TypeOK, PhaseInv, [Next]_vars PROVE TypeOK'
  OBVIOUS
<1>1. HooksLeft /\ (phase = "init" => fetched = 0 /\ held = NoJob /\ \A w \in Workers : pc[w] = "off")
  BY DEF PhaseInv, LoopsFollowPhase
<1>2. LifeTypeOK' /\ LoopsTypeOK' /\ WorkersTypeOK' /\ JobsTypeOK'
  BY <1>1, LifeKeepsType, LoopsKeepType, WorkersKeepType, JobsKeepType
<1> QED
  BY <1>2 DEF TypeOK

\* A step of a worker's loop leaves its state, ends the loop only when the state
\* is not RUNNING, and is not taken by a loop that has ended or not begun.
LEMMA WorkerLoop ==
  ASSUME TypeOK, NEW w \in Workers, WorkerStep(w)
  PROVE  /\ state' = state /\ pc[w] \notin {"off", "ended"}
         /\ \A v \in Workers : v # w => pc'[v] = pc[v]
         /\ pc'[w] # "off" /\ (state[w] = "RUNNING" => pc'[w] # "ended")
<1> USE DEF TypeOK, WorkersTypeOK, Goto, EndTick, AfterTick
<1>1. CASE Dequeue(w)
  BY <1>1 DEF Dequeue
<1>2. CASE Load(w) \/ Process(w) \/ Release(w)
  BY <1>2 DEF Load, Process, Release
<1>3. CASE Handle(w) \/ Wait(w)
  BY <1>3 DEF Handle, Wait, Released
<1>4. CASE WorkerThrows(w)
  <2>1. CASE pc[w] \in {"dequeue", "load", "nack"}
    BY <1>4, <2>1 DEF WorkerThrows
  <2>2. CASE pc[w] \in {"ack", "nackResult"}
    BY <1>4, <2>2 DEF WorkerThrows
  <2>3. CASE pc[w] \in {"complete", "failed"}
    BY <1>4, <2>3 DEF WorkerThrows, Released
  <2> QED
    BY <1>4, <2>1, <2>2, <2>3 DEF WorkerThrows, Released
<1> QED
  BY <1>1, <1>2, <1>3, <1>4 DEF WorkerStep

LEMMA PhaseInvKept == InstanceAssumption /\ TypeOK /\ PhaseInv /\ [Next]_vars => PhaseInv'
<1> SUFFICES ASSUME InstanceAssumption, TypeOK, PhaseInv, [Next]_vars PROVE PhaseInv'
  OBVIOUS
<1> USE DEF PhaseInv, LoopsFollowPhase, HooksLeft, LoadedBeforeCalls, LoopsRun, ExitWaitsForLoops
<1>1. CASE InitHook
  <2>1. phase = "init" /\ hook' = hook + 1 /\ Len(InitHooks)' = Len(InitHooks)
    BY <1>1 DEF InitHook
  <2>2. loaded'
    BY <1>1, <2>1, NextHook DEF InitHook
  <2>3. /\ state \in [Workers -> {"IDLE", "RUNNING", "STOPPING", "STOPPED"}]
        /\ pc \in [Workers -> WorkerPCs] /\ aborted' = aborted /\ aborted \in BOOLEAN
    BY <1>1 DEF InitHook, TypeOK, WorkersTypeOK, LifeTypeOK
  <2>4. CASE InitHooks[hook + 1] = "WorkerPoolService"
    <3>1. phase' = "up" /\ StartAll
      BY <1>1, <2>1, <2>4, NextHook DEF InitHook
    <3> QED
      BY <2>1, <2>2, <2>3, <3>1 DEF StartAll, StartFetcher, StartDispatcher
  <2>5. CASE InitHooks[hook + 1] # "WorkerPoolService"
    <3>1. phase' = "init" /\ hook' < Len(InitHooks)
      BY <1>1, <2>1, <2>5, NextHook
    <3>2. UNCHANGED <<fetcher, dispatcher, state, pc, fetched, held, recovery>>
      BY <1>1, <2>5 DEF InitHook
    <3> QED
      BY <2>1, <2>2, <2>3, <3>1, <3>2
  <2> QED
    BY <2>4, <2>5
<1>2. CASE Alive /\ FetcherStep
  <2>1. fetcher' # "off" /\ (fetcher' = "ended" => aborted)
    BY <1>2 DEF FetcherStep, FetchCapacity, FetchDequeue, FetchAdmit, FetchThrows, FetchSleep,
      FetcherGoes, AfterFetchError
  <2> QED
    BY <1>2, <2>1 DEF FetcherStep, Alive, lifeVars, workerVars
<1>3. CASE Alive /\ DispatchStep
  <2>1. dispatcher' # "off" /\ (dispatcher' = "ended" => aborted)
    BY <1>3 DEF DispatchStep
  <2> QED
    BY <1>3, <2>1 DEF DispatchStep, Alive, lifeVars, fetcherVars, workerVars
<1>4. CASE Alive /\ RecoveryStep
  <2>1. recovery' # "off" => loaded
    BY <1>4 DEF RecoveryStep, RecoveryStarts, RecoveryScan, RecoveryRecords, Alive
  <2> QED
    BY <1>4, <2>1 DEF RecoveryStep, Alive, lifeVars, fetcherVars, workerVars
<1>5. CASE Alive /\ RecoveryThrows
  BY <1>5 DEF RecoveryThrows, Alive, fetcherVars, workerVars
<1>12. CASE Alive /\ WatchCycle
  BY <1>12 DEF WatchCycle, Alive, lifeVars, fetcherVars, workerVars
<1>6. ASSUME NEW w \in Workers, Alive, WorkerStep(w) PROVE PhaseInv'
  BY <1>6, WorkerLoop DEF WorkerStep, Alive, lifeVars, fetcherVars
<1>7. ASSUME NEW w \in Workers, Alive, WorkerStopped(w) PROVE PhaseInv'
  BY <1>7 DEF WorkerStopped, StopResolves, Alive, lifeVars, fetcherVars, TypeOK, WorkersTypeOK
<1>8. CASE Quit
  BY <1>8 DEF Quit, fetcherVars, workerVars
<1>9. CASE Shutdown
  BY <1>9 DEF Shutdown, AbortLoops, fetcherVars, workerVars
<1>10. CASE GracePasses \/ Exit
  BY <1>10 DEF GracePasses, Exit, fetcherVars, workerVars
<1>11. CASE UNCHANGED vars
  BY <1>11 DEF vars, lifeVars, fetcherVars, workerVars
<1> QED
  BY <1>1, <1>2, <1>3, <1>4, <1>5, <1>6, <1>7, <1>8, <1>9, <1>10, <1>11, <1>12 DEF Next

-----------------------------------------------------------------------------
LEMMA InitOneHolder == InstanceAssumption /\ Init => OneHolder
<1> SUFFICES ASSUME InstanceAssumption, Init, NEW j \in Jobs
             PROVE  /\ held # j /\ \A w \in Workers : job[w] # j
                    /\ \A p, q \in places[j] : p = q
  BY DEF OneHolder
<1>1. held # j /\ \A w \in Workers : job[w] # j
  BY DEF Init, InstanceAssumption
<1>2. places[j] = {"fair"}
  BY DEF Init
<1> QED
  BY <1>1, <1>2

\* What OneHolder says of one job.
HolderOf(j) ==
  /\ \A p, q \in places[j] : p = q
  /\ held = j => places[j] = {}
  /\ \A w \in Workers : job[w] = j =>
       /\ places[j] = (IF pc[w] \in Leased THEN {"inFlight"} ELSE {})
       /\ held # j
       /\ \A v \in Workers : job[v] = j => v = w

\* The steps of the fetcher move jobs of the fair queue and the one it holds.
LEMMA FetcherKeepsHolder ==
  ASSUME InstanceAssumption, TypeOK, OneHolder, FetcherStep
  PROVE  OneHolder'
<1> SUFFICES ASSUME NEW j \in Jobs, j \notin late PROVE HolderOf(j)'
  BY DEF OneHolder, HolderOf, FetcherStep
<1> USE DEF TypeOK, LoopsTypeOK, JobsTypeOK, HolderOf, FetcherGoes, InstanceAssumption
<1>1. UNCHANGED <<pc, job>> /\ HolderOf(j)
  BY DEF FetcherStep, workerVars, OneHolder
<1>2. CASE FetchCapacity
  BY <1>1, <1>2 DEF FetchCapacity
<1>3. CASE FetchDequeue
  <2>1. held = NoJob
    BY <1>3 DEF FetchDequeue
  <2>2. CASE UNCHANGED places /\ held' = NoJob
    BY <1>1, <2>1, <2>2
  <2>3. ASSUME NEW i \in Jobs, "fair" \in places[i], Leaves(i, "fair"), held' = i
        PROVE  HolderOf(j)'
    <3>1. \A p \in places[i] : i = j => p = "fair"
      BY <1>1, <2>3
    <3>2. i = j => \A w \in Workers : job[w] # j
      BY <1>1, <2>3
    <3>3. places'[j] = IF i = j THEN places[j] \ {"fair"} ELSE places[j]
      BY <2>3 DEF Leaves
    <3> QED
      BY <1>1, <2>1, <2>3, <3>1, <3>2, <3>3
  <2> QED
    BY <1>3, <2>2, <2>3 DEF FetchDequeue
<1>4. CASE FetchAdmit
  <2>1. held \in Jobs /\ held' = NoJob
    BY <1>4 DEF FetchAdmit
  <2>2. CASE UNCHANGED places
    BY <1>1, <2>1, <2>2
  <2>3. ASSUME NEW queue \in {"ready", "nonReady"}, Enters(held, queue) PROVE HolderOf(j)'
    <3>1. places'[j] = IF held = j THEN places[j] \cup {queue} ELSE places[j]
      BY <2>3 DEF Enters
    <3>2. held = j => places[j] = {} /\ \A w \in Workers : job[w] # j
      BY <1>1
    <3> QED
      BY <1>1, <2>1, <3>1, <3>2
  <2> QED
    BY <1>4, <2>2, <2>3 DEF FetchAdmit
<1>5. CASE FetchThrows \/ FetchSleep
  BY <1>1, <1>5 DEF FetchThrows, FetchSleep
<1> QED
  BY <1>2, <1>3, <1>4, <1>5 DEF FetcherStep

LEMMA WorkerKeepsHolder ==
  ASSUME InstanceAssumption, TypeOK, OneHolder, NEW w \in Workers, WorkerStep(w)
  PROVE  OneHolder'
<1> SUFFICES ASSUME NEW j \in Jobs, j \notin late PROVE HolderOf(j)'
  BY DEF OneHolder, HolderOf, WorkerStep
<1> USE DEF TypeOK, WorkersTypeOK, JobsTypeOK, HolderOf, Goto, Leased, Released, InstanceAssumption
<1>1. held' = held /\ HolderOf(j)
  BY DEF WorkerStep, fetcherVars, OneHolder
<1>2. \A v \in Workers : pc[v] \in Leased \cup Released <=> job[v] \in Jobs
  BY DEF WorkerPCs
\* A worker that gives its job up, and maybe puts it into a queue.
<1>3. ASSUME job' = [job EXCEPT ![w] = NoJob], pc' = [pc EXCEPT ![w] = pc'[w]],
             \/ UNCHANGED places
             \/ pc[w] \in Released /\ Enters(job[w], "nonReady")
      PROVE  HolderOf(j)'
  <2>1. \A v \in Workers : job'[v] = j => v # w /\ job[v] = j /\ pc'[v] = pc[v]
    BY <1>3
  <2>2. CASE UNCHANGED places
    BY <1>1, <2>1, <2>2
  <2>3. CASE pc[w] \in Released /\ Enters(job[w], "nonReady")
    <3>1. CASE job[w] = j
      <4>1. places[j] = {} /\ held # j /\ \A v \in Workers : job'[v] # j
        BY <1>1, <2>1, <2>3, <3>1
      <4>2. places'[j] = {"nonReady"}
        BY <2>3, <3>1, <4>1 DEF Enters
      <4> QED
        BY <1>1, <4>1, <4>2
    <3>2. CASE job[w] # j
      <4>1. places'[j] = places[j]
        BY <2>3, <3>2 DEF Enters
      <4> QED
        BY <1>1, <2>1, <4>1
    <3> QED
      BY <3>1, <3>2
  <2> QED
    BY <1>3, <2>2, <2>3
\* A worker that goes on with its job, its lease untouched.
<1>4. ASSUME NEW next \in Leased, pc[w] \in Leased, Goto(w, next), UNCHANGED places
      PROVE  HolderOf(j)'
  BY <1>1, <1>4
<1>5. CASE Dequeue(w)
  <2>1. CASE Goto(w, "wait") /\ UNCHANGED places
    BY <1>1, <1>2, <1>5, <2>1 DEF Dequeue
  <2>2. ASSUME NEW i \in Jobs, "ready" \in places[i], Moves(i, "ready", "inFlight"),
               job' = [job EXCEPT ![w] = i], pc' = [pc EXCEPT ![w] = "load"]
        PROVE  HolderOf(j)'
    <3>1. job[w] # j
      BY <1>2, <1>5 DEF Dequeue
    <3>2. CASE i = j
      <4>1. places[j] = {"ready"} /\ held # j /\ \A v \in Workers : job[v] # j
        BY <1>1, <2>2, <3>2
      <4>2. places'[j] = {"inFlight"}
        BY <2>2, <3>2, <4>1 DEF Moves
      <4> QED
        BY <1>1, <2>2, <3>2, <4>1, <4>2
    <3>3. CASE i # j
      <4>1. places'[j] = places[j] /\ job'[w] # j
        BY <2>2, <3>3 DEF Moves
      <4>2. \A v \in Workers : job'[v] = j => v # w /\ job[v] = j /\ pc'[v] = pc[v]
        BY <2>2, <4>1
      <4> QED
        BY <1>1, <4>1, <4>2
    <3> QED
      BY <3>2, <3>3
  <2> QED
    BY <1>5, <2>1, <2>2 DEF Dequeue
<1>6. CASE Load(w) \/ Process(w)
  BY <1>4, <1>6 DEF Load, Process
<1>7. CASE Release(w)
  <2>1. pc[w] \in Leased /\ pc'[w] \in Released /\ pc' = [pc EXCEPT ![w] = pc'[w]] /\ job' = job
    BY <1>7 DEF Release
  <2>2. places'[j] = IF job[w] = j THEN places[j] \ {"inFlight"} ELSE places[j]
    BY <1>7 DEF Release, Leaves
  <2>3. CASE job[w] = j
    <3>1. places[j] = {"inFlight"} /\ held # j /\ \A v \in Workers : job[v] = j => v = w
      BY <1>1, <2>1, <2>3
    <3> QED
      BY <1>1, <2>1, <2>2, <2>3, <3>1
  <2>4. CASE job[w] # j
    BY <1>1, <2>1, <2>2, <2>4
  <2> QED
    BY <2>3, <2>4
<1>8. CASE Handle(w) \/ Wait(w)
  BY <1>3, <1>8 DEF Handle, Wait, EndTick, JobAfterTick
<1>9. CASE WorkerThrows(w)
  <2>1. CASE pc[w] \in {"dequeue", "load", "nack"}
    BY <1>3, <1>9, <2>1 DEF WorkerThrows, JobAfterTick
  <2>2. CASE pc[w] \in {"ack", "nackResult"}
    BY <1>4, <1>9, <2>2 DEF WorkerThrows
  <2>3. CASE pc[w] \in {"complete", "failed"}
    BY <1>3, <1>9, <2>3 DEF WorkerThrows, EndTick, JobAfterTick
  <2> QED
    BY <1>9, <2>1, <2>2, <2>3 DEF WorkerThrows
<1> QED
  BY <1>5, <1>6, <1>7, <1>8, <1>9 DEF WorkerStep

\* A lease that recovery takes, of a job that is not late, had no worker at work.
LEMMA RecoveryKeepsHolder ==
  ASSUME InstanceAssumption, TypeOK, OneHolder, RecoveryStep
  PROVE  OneHolder'
<1> SUFFICES ASSUME NEW j \in Jobs, j \notin late' PROVE HolderOf(j)'
  BY DEF OneHolder, HolderOf
<1> USE DEF TypeOK, WorkersTypeOK, JobsTypeOK, HolderOf
<1>1. UNCHANGED <<held, pc, job>>
  BY DEF RecoveryStep, fetcherVars, workerVars
<1>2. CASE UNCHANGED <<places, late>>
  BY <1>1, <1>2 DEF OneHolder
<1>3. CASE RecoveryScan
  <2>1. PICK taken \in SUBSET {i \in Jobs : "inFlight" \in places[i]} :
          /\ late' = late \cup {i \in taken : \E w \in Workers : job[w] = i /\ pc[w] \in Leased}
          /\ \/ places'[j] = places[j] /\ j \notin taken
             \/ j \in taken /\ places'[j] \in {places[j] \ {"inFlight"},
                                              (places[j] \ {"inFlight"}) \cup {"ready"}}
    BY <1>3 DEF RecoveryScan
  <2>2. HolderOf(j)
    BY <2>1 DEF OneHolder
  <2>3. CASE j \notin taken
    BY <1>1, <2>1, <2>2, <2>3
  <2>4. CASE j \in taken
    <3>1. \A w \in Workers : job[w] # j
      BY <2>1, <2>2, <2>4
    <3>2. places[j] = {"inFlight"} /\ held # j
      BY <2>1, <2>2, <2>4
    <3> QED
      BY <1>1, <2>1, <2>4, <3>1, <3>2
  <2> QED
    BY <2>3, <2>4
<1> QED
  BY <1>2, <1>3 DEF RecoveryStep, RecoveryStarts, RecoveryRecords

LEMMA OneHolderKept == InstanceAssumption /\ TypeOK /\ PhaseInv /\ OneHolder /\ [Next]_vars => OneHolder'
<1> SUFFICES ASSUME InstanceAssumption, TypeOK, PhaseInv, OneHolder, [Next]_vars PROVE OneHolder'
  OBVIOUS
<1>1. CASE UNCHANGED <<held, pc, job, places, late>>
  BY <1>1 DEF OneHolder
<1>2. CASE InitHook
  <2>1. \A w \in Workers : job[w] = NoJob
    BY <1>2 DEF InitHook, PhaseInv, LoopsFollowPhase, TypeOK, WorkersTypeOK
  <2>2. UNCHANGED <<held, job, places, late>>
    BY <1>2 DEF InitHook
  <2> QED
    BY <2>1, <2>2 DEF OneHolder, InstanceAssumption
<1>3. CASE DispatchStep
  <2>1. UNCHANGED <<held, pc, job, late>>
    BY <1>3 DEF DispatchStep, fetcherVars, workerVars
  <2>2. CASE UNCHANGED places
    BY <1>1, <2>1, <2>2
  <2>3. ASSUME NEW i \in Jobs, "nonReady" \in places[i], Moves(i, "nonReady", "ready")
        PROVE  OneHolder'
    <3> SUFFICES ASSUME NEW j \in Jobs \ late PROVE HolderOf(j)'
      BY <2>1 DEF OneHolder, HolderOf
    <3>1. HolderOf(j) /\ places \in [Jobs -> SUBSET Queues]
      BY DEF OneHolder, HolderOf, TypeOK, JobsTypeOK
    <3>2. i = j => places[j] = {"nonReady"} /\ places'[j] = {"ready"}
      BY <2>3, <3>1 DEF Moves, HolderOf
    <3>3. i # j => places'[j] = places[j]
      BY <2>3, <3>1 DEF Moves
    <3> QED
      BY <2>1, <3>1, <3>2, <3>3 DEF HolderOf
  <2> QED
    BY <1>3, <2>2, <2>3 DEF DispatchStep
<1> QED
  BY <1>1, <1>2, <1>3, FetcherKeepsHolder, WorkerKeepsHolder, RecoveryKeepsHolder DEF Next, vars,
    fetcherVars, workerVars, Quit, Shutdown, GracePasses, Exit, RecoveryThrows, WatchCycle,
    WorkerStopped

\* The variables of the instance have their types in every reachable state.
THEOREM TypeCorrect == InstanceAssumption => (Spec => []TypeOK)
<1> SUFFICES ASSUME InstanceAssumption PROVE Spec => []TypeOK
  OBVIOUS
<1>1. Init => TypeOK /\ PhaseInv
  BY InitTypeOK, InitPhaseInv
<1>2. TypeOK /\ PhaseInv /\ [Next]_vars => (TypeOK /\ PhaseInv)'
  BY TypeKept, PhaseInvKept
<1> QED
  BY <1>1, <1>2, PTL DEF Spec

\* The hooks run in an order in which the commands are defined before a loop
\* calls them, no loop ends while the application is up, and an exit before the
\* end of the grace period has waited for every worker's loop.
THEOREM LoopsOrdered ==
  InstanceAssumption => (Spec => [](LoadedBeforeCalls /\ LoopsSurvive /\ ExitWaitsForLoops))
<1> SUFFICES ASSUME InstanceAssumption
             PROVE  Spec => [](LoadedBeforeCalls /\ LoopsSurvive /\ ExitWaitsForLoops)
  OBVIOUS
<1>1. Init => TypeOK /\ PhaseInv
  BY InitTypeOK, InitPhaseInv
<1>2. TypeOK /\ PhaseInv /\ [Next]_vars => (TypeOK /\ PhaseInv)'
  BY TypeKept, PhaseInvKept
<1>3. TypeOK /\ PhaseInv => LoadedBeforeCalls /\ LoopsSurvive /\ ExitWaitsForLoops
  BY DEF PhaseInv, LoopsFollowPhase, LoopsRun, LoopsSurvive, PoolStatus, FetcherRunning,
    DispatcherRunning
<1> QED
  BY <1>1, <1>2, <1>3, PTL DEF Spec

\* Whatever throws, and whatever recovery moves, a job has one holder: a queue or
\* one loop of the instance.  Only a job that recovery has taken from a worker at
\* work on it may have more.
THEOREM JobsHaveOneHolder == InstanceAssumption => (Spec => []OneHolder)
<1> SUFFICES ASSUME InstanceAssumption PROVE Spec => []OneHolder
  OBVIOUS
<1>1. Init => TypeOK /\ PhaseInv /\ OneHolder
  BY InitTypeOK, InitPhaseInv, InitOneHolder
<1>2. TypeOK /\ PhaseInv /\ OneHolder /\ [Next]_vars => (TypeOK /\ PhaseInv /\ OneHolder)'
  BY TypeKept, PhaseInvKept, OneHolderKept
<1> QED
  BY <1>1, <1>2, PTL DEF Spec

\* What the pool status counts as busy is a worker with a job in hand: the state
\* it shows and the place of the job are kept by different steps.
THEOREM StatusIsTrue == InstanceAssumption => (Spec => []BusyWorkersHaveJobs)
<1> SUFFICES ASSUME InstanceAssumption PROVE Spec => []BusyWorkersHaveJobs
  OBVIOUS
<1>1. Init => TypeOK /\ PhaseInv /\ OneHolder
  BY InitTypeOK, InitPhaseInv, InitOneHolder
<1>2. TypeOK /\ PhaseInv /\ OneHolder /\ [Next]_vars => (TypeOK /\ PhaseInv /\ OneHolder)'
  BY TypeKept, PhaseInvKept, OneHolderKept
<1>3. TypeOK /\ OneHolder => BusyWorkersHaveJobs
  BY DEF TypeOK, WorkersTypeOK, WorkerPCs, OneHolder, BusyWorkersHaveJobs, PoolStatus, Leased
<1> QED
  BY <1>1, <1>2, <1>3, PTL DEF Spec

-----------------------------------------------------------------------------
(* Transactions and their events                                           *)

\* Up to the commit nobody but the listeners of BEFORE_COMMIT has heard anything.
HeardInside == [NoEvents EXCEPT !["BEFORE_COMMIT"] = EventsOf["BEFORE_COMMIT"]]

\* What an execution has emitted, and still holds, at each place of its way.
ExecutionInv(e) ==
  /\ e.at = "fn" => e.tx = "open" /\ e.emitted = NoEvents
  /\ e.at = "commit" => e.tx = "open"
  /\ e.at = "flush" => e.tx = "committed"
  /\ e.at \in {"commit", "flush"} =>
       /\ e.emitted = HeardInside
       /\ e.buffer = [EventsOf EXCEPT !["BEFORE_COMMIT"] = 0]
  /\ e.at = "value" => e.tx = "committed" /\ e.emitted = [EventsOf EXCEPT !["AFTER_ROLLBACK"] = 0]
  /\ e.at = "error" =>
       /\ e.tx # "open"
       /\ e.emitted["AFTER_COMMIT"] > 0 => e.tx = "committed"
       /\ e.tx = "committed" => e.emitted["AFTER_COMMIT"] > 0

ExecutionOK(e) == e \in Execution(Nat) /\ ExecutionInv(e)

\* What a step makes of an execution, and what it may not undo: the request it
\* works for stays, and one that is over and not committed does not commit later.
Advances(e, f) ==
  /\ ExecutionOK(f) /\ f.request = e.request
  /\ Running(e)
  /\ Running(f) \/ Committed(f) => Running(e) \/ Committed(e)

LEMMA StartedOK ==
  ASSUME EventsAssumption, NEW r \in Nat
  PROVE  ExecutionOK(Started(r)) /\ Started(r).request = r /\ Running(Started(r))
  BY DEF EventsAssumption, ExecutionOK, ExecutionInv, Execution, Started, NoEvents, EventCounts,
         Running

\* Flushing the buffer of a phase that has not been flushed before.
LEMMA FlushedCounts ==
  ASSUME EventsAssumption, NEW e \in Execution(Nat), NEW p \in Phases, e.emitted[p] = 0
  PROVE  /\ Flushed(e, p) \in Execution(Nat)
         /\ Flushed(e, p).emitted = [e.emitted EXCEPT ![p] = e.buffer[p]]
         /\ Flushed(e, p).buffer = [e.buffer EXCEPT ![p] = 0]
         /\ Flushed(e, p).at = e.at /\ Flushed(e, p).tx = e.tx
         /\ Flushed(e, p).request = e.request
<1>1. /\ e.emitted \in [Phases -> Nat] /\ e.buffer \in [Phases -> Nat]
      /\ \A q \in Phases : e.emitted[q] <= EventsOf[q] /\ e.buffer[q] <= EventsOf[q]
  BY DEF Execution, EventCounts
<1>2. [e.emitted EXCEPT ![p] = e.buffer[p]] \in EventCounts
  BY <1>1 DEF EventCounts
<1>3. [e.buffer EXCEPT ![p] = 0] \in EventCounts
  BY <1>1 DEF EventCounts, EventsAssumption
<1>4. e.emitted[p] + e.buffer[p] = e.buffer[p]
  BY <1>1
<1>5. Flushed(e, p) = [e EXCEPT !.emitted = [e.emitted EXCEPT ![p] = e.buffer[p]],
                                !.buffer = [e.buffer EXCEPT ![p] = 0]]
  BY <1>1, <1>4 DEF Flushed, Execution
<1> QED
  BY <1>2, <1>3, <1>5 DEF Execution

LEMMA InterruptedCounts ==
  ASSUME EventsAssumption, NEW e \in Execution(Nat), NEW p \in Phases, e.emitted[p] = 0,
         NEW f \in Interrupted(e, p)
  PROVE  /\ f \in Execution(Nat) /\ f.buffer = e.buffer
         /\ f.at = e.at /\ f.tx = e.tx /\ f.request = e.request
         /\ \E k \in 1 .. e.buffer[p] : f.emitted = [e.emitted EXCEPT ![p] = k]
<1>1. /\ e.emitted \in [Phases -> Nat] /\ e.buffer \in [Phases -> Nat]
      /\ \A q \in Phases : e.emitted[q] <= EventsOf[q] /\ e.buffer[q] <= EventsOf[q]
  BY DEF Execution, EventCounts
<1>2. PICK k \in 1 .. e.buffer[p] : f = [e EXCEPT !.emitted[p] = @ + k]
  BY DEF Interrupted
<1>3. k \in Nat /\ e.emitted[p] + k = k /\ k <= EventsOf[p]
  BY <1>1, <1>2 DEF EventsAssumption
<1>4. [e.emitted EXCEPT ![p] = k] \in EventCounts
  BY <1>1, <1>3 DEF EventCounts
<1>5. f = [e EXCEPT !.emitted = [e.emitted EXCEPT ![p] = k]]
  BY <1>1, <1>2, <1>3 DEF Execution
<1> QED
  BY <1>2, <1>4, <1>5 DEF Execution

\* The catch block only adds events of AFTER_ROLLBACK.
LEMMA CaughtCounts ==
  ASSUME EventsAssumption, NEW e \in Execution(Nat), e.emitted["AFTER_ROLLBACK"] = 0,
         NEW f \in Caught(e)
  PROVE  /\ f \in Execution(Nat) /\ f.at = "error" /\ f.tx = e.tx /\ f.request = e.request
         /\ f.emitted["AFTER_COMMIT"] = e.emitted["AFTER_COMMIT"]
<1> DEFINE p == "AFTER_ROLLBACK"
<1>0. p \in Phases /\ p # "AFTER_COMMIT" /\ "AFTER_COMMIT" \in Phases /\ NoEvents \in EventCounts
      /\ e.emitted[p] = 0
  BY DEF Phases, NoEvents, EventCounts, EventsAssumption
<1>1. PICK g \in {Flushed(e, p)} \cup Interrupted(e, p) : f = [g EXCEPT !.at = "error", !.buffer = NoEvents]
  BY DEF Caught
<1> HIDE DEF p
<1>2. /\ g \in Execution(Nat) /\ g.tx = e.tx /\ g.request = e.request
      /\ g.emitted["AFTER_COMMIT"] = e.emitted["AFTER_COMMIT"]
  <2>1. \A k : [e.emitted EXCEPT ![p] = k]["AFTER_COMMIT"] = e.emitted["AFTER_COMMIT"]
    BY <1>0 DEF Execution, EventCounts
  <2>2. CASE g = Flushed(e, p)
    <3>1. /\ g \in Execution(Nat) /\ g.tx = e.tx /\ g.request = e.request
          /\ g.emitted = [e.emitted EXCEPT ![p] = e.buffer[p]]
      BY <1>0, <2>2, FlushedCounts
    <3> QED
      BY <2>1, <3>1
  <2>3. CASE g \in Interrupted(e, p)
    <3>1. /\ g \in Execution(Nat) /\ g.tx = e.tx /\ g.request = e.request
          /\ \E k \in 1 .. e.buffer[p] : g.emitted = [e.emitted EXCEPT ![p] = k]
      BY <1>0, <2>3, InterruptedCounts
    <3> QED
      BY <2>1, <3>1
  <2> QED
    BY <1>1, <2>2, <2>3
<1>3. f.emitted = g.emitted /\ f.request = g.request /\ f.tx = g.tx /\ f.at = "error"
      /\ f \in Execution(Nat)
  BY <1>0, <1>1, <1>2 DEF Execution
<1> QED
  BY <1>2, <1>3

\* An execution that fails inside of its transaction rolls back.
LEMMA RolledBackAdvances ==
  ASSUME EventsAssumption, NEW e \in Execution(Nat), NEW d, ExecutionOK(d), Running(d),
         e.request = d.request, e.emitted["AFTER_ROLLBACK"] = 0, e.emitted["AFTER_COMMIT"] = 0,
         NEW f \in Caught([e EXCEPT !.tx = "rolledback"])
  PROVE  Advances(d, f)
<1> DEFINE r == [e EXCEPT !.tx = "rolledback"]
<1>1. r \in Execution(Nat) /\ r.emitted = e.emitted /\ r.request = e.request /\ r.tx = "rolledback"
  BY DEF Execution
<1>2. f \in Caught(r)
  OBVIOUS
<1> HIDE DEF r
<1>3. /\ f \in Execution(Nat) /\ f.at = "error" /\ f.tx = "rolledback" /\ f.request = d.request
      /\ f.emitted["AFTER_COMMIT"] = 0
  BY <1>1, <1>2, CaughtCounts
<1> QED
  BY <1>3 DEF Advances, ExecutionOK, ExecutionInv, Running, Committed

LEMMA StepAdvances ==
  ASSUME EventsAssumption, NEW x \in DOMAIN execs, ExecutionOK(execs[x]), Runs(x) \/ Fails(x)
  PROVE  \E f : execs' = [execs EXCEPT ![x] = f] /\ Advances(execs[x], f)
<1> DEFINE e == execs[x]
<1>0. /\ e \in Execution(Nat) /\ ExecutionInv(e)
      /\ Phases = {"BEFORE_COMMIT", "AFTER_COMMIT", "AFTER_ROLLBACK"}
      /\ EventsOf \in EventCounts /\ NoEvents \in EventCounts
      /\ NoEvents \in [Phases -> Nat] /\ \A p \in Phases : NoEvents[p] = 0
  BY DEF ExecutionOK, Phases, EventCounts, NoEvents, EventsAssumption
<1>1. ASSUME NEW next, NEW from, Step(x, from, next),
             \A f \in next : e.at = from => Advances(e, f)
      PROVE  \E f : execs' = [execs EXCEPT ![x] = f] /\ Advances(e, f)
  BY <1>1 DEF Step
\* What fn has raised is in the buffer, nothing has been heard.
<1>2. ASSUME e.at = "fn", NEW b \in EventCounts
      PROVE  /\ WithEvents(x, b) \in Execution(Nat) /\ WithEvents(x, b).emitted = NoEvents
             /\ WithEvents(x, b).buffer = b /\ WithEvents(x, b).request = e.request
             /\ WithEvents(x, b).tx = "open"
  BY <1>0, <1>2 DEF WithEvents, ExecutionInv, Execution
<1>3. CASE FnReturns(x)
  <2> DEFINE g == Flushed(WithEvents(x, EventsOf), "BEFORE_COMMIT")
             f == [g EXCEPT !.at = "commit"]
  <2>1. Step(x, "fn", {f})
    BY <1>3 DEF FnReturns, PhaseInside
  <2>2. e.at = "fn" => Advances(e, f)
    <3> SUFFICES ASSUME e.at = "fn" PROVE Advances(e, f)
      OBVIOUS
    <3> DEFINE w == WithEvents(x, EventsOf)
    <3>0. /\ w \in Execution(Nat) /\ w.emitted = NoEvents /\ w.buffer = EventsOf
          /\ w.request = e.request /\ w.tx = "open" /\ g = Flushed(w, PhaseInside)
          /\ PhaseInside \in Phases /\ w.emitted[PhaseInside] = 0
      BY <1>0, <1>2 DEF PhaseInside
    <3> HIDE DEF w, g
    <3>1. /\ g \in Execution(Nat) /\ g.request = e.request /\ g.tx = "open"
          /\ g.emitted = HeardInside /\ g.buffer = [EventsOf EXCEPT !["BEFORE_COMMIT"] = 0]
      <4>1. /\ g \in Execution(Nat) /\ g.request = w.request /\ g.tx = w.tx
            /\ g.emitted = [w.emitted EXCEPT ![PhaseInside] = w.buffer[PhaseInside]]
            /\ g.buffer = [w.buffer EXCEPT ![PhaseInside] = 0]
        BY <3>0, FlushedCounts
      <4> QED
        BY <3>0, <4>1 DEF HeardInside, PhaseInside
    <3>2. /\ f \in Execution(Nat) /\ f.request = e.request /\ f.tx = "open" /\ f.at = "commit"
          /\ f.emitted = HeardInside /\ f.buffer = [EventsOf EXCEPT !["BEFORE_COMMIT"] = 0]
      BY <3>1 DEF Execution
    <3> HIDE DEF f
    <3> QED
      BY <3>2 DEF Advances, ExecutionOK, ExecutionInv, Running, Committed
  <2> QED
    BY <1>1, <2>1, <2>2
<1>4. CASE Commit(x)
  <2> DEFINE f == [e EXCEPT !.tx = "committed", !.at = "flush"]
  <2>1. e.at = "commit" => Advances(e, f)
    <3> SUFFICES ASSUME e.at = "commit" PROVE Advances(e, f)
      OBVIOUS
    <3>1. /\ f \in Execution(Nat) /\ f.request = e.request /\ f.tx = "committed" /\ f.at = "flush"
          /\ f.emitted = e.emitted /\ f.buffer = e.buffer
      BY <1>0 DEF Execution
    <3> HIDE DEF f
    <3> QED
      BY <1>0, <3>1 DEF Advances, ExecutionOK, ExecutionInv, Running, Committed
  <2> QED
    BY <1>1, <1>4, <2>1 DEF Commit
\* After the commit the events of AFTER_COMMIT are still to be heard.
<1>5. ASSUME e.at = "flush"
      PROVE  /\ e.tx = "committed" /\ e.emitted["AFTER_COMMIT"] = 0
             /\ e.emitted["AFTER_ROLLBACK"] = 0 /\ e.emitted = HeardInside
             /\ e.buffer["AFTER_COMMIT"] = EventsOf["AFTER_COMMIT"]
  BY <1>0, <1>5 DEF ExecutionInv, HeardInside, EventCounts
<1>6. CASE AfterCommit(x)
  <2> DEFINE g == Flushed(e, "AFTER_COMMIT")
             f == [g EXCEPT !.at = "value", !.buffer = NoEvents]
  <2>1. e.at = "flush" => Advances(e, f)
    <3> SUFFICES ASSUME e.at = "flush" PROVE Advances(e, f)
      OBVIOUS
    <3>1. /\ g \in Execution(Nat) /\ g.request = e.request /\ g.tx = "committed"
          /\ g.emitted = [HeardInside EXCEPT !["AFTER_COMMIT"] = EventsOf["AFTER_COMMIT"]]
      BY <1>0, <1>5, FlushedCounts
    <3> HIDE DEF g
    <3>2. /\ f \in Execution(Nat) /\ f.request = e.request /\ f.tx = "committed" /\ f.at = "value"
          /\ f.emitted = [HeardInside EXCEPT !["AFTER_COMMIT"] = EventsOf["AFTER_COMMIT"]]
      BY <1>0, <3>1 DEF Execution
    <3>3. [HeardInside EXCEPT !["AFTER_COMMIT"] = EventsOf["AFTER_COMMIT"]]
            = [EventsOf EXCEPT !["AFTER_ROLLBACK"] = 0]
      BY <1>0 DEF HeardInside, NoEvents, EventsAssumption
    <3> HIDE DEF f
    <3> QED
      BY <1>0, <3>2, <3>3, <1>5 DEF Advances, ExecutionOK, ExecutionInv, Running, Committed
  <2> QED
    BY <1>1, <1>6, <2>1 DEF AfterCommit
<1>7. CASE FnThrows(x)
  <2> DEFINE next == RolledBack({WithEvents(x, b) : b \in {NoEvents, EventsOf}})
  <2>1. ASSUME NEW f \in next, e.at = "fn" PROVE Advances(e, f)
    <3>1. PICK b \in {NoEvents, EventsOf} : f \in Caught([WithEvents(x, b) EXCEPT !.tx = "rolledback"])
      BY <2>1 DEF RolledBack
    <3> QED
      BY <1>0, <1>2, <2>1, <3>1, RolledBackAdvances DEF ExecutionOK, Running
  <2> HIDE DEF next
  <2> QED
    BY <1>1, <1>7, <2>1 DEF FnThrows, next
<1>8. CASE BeforeCommitThrows(x)
  <2> DEFINE next == RolledBack(Interrupted(WithEvents(x, EventsOf), PhaseInside))
  <2>1. ASSUME NEW f \in next, e.at = "fn" PROVE Advances(e, f)
    <3>1. PICK g \in Interrupted(WithEvents(x, EventsOf), PhaseInside) :
            f \in Caught([g EXCEPT !.tx = "rolledback"])
      BY <2>1 DEF RolledBack
    <3> DEFINE w == WithEvents(x, EventsOf)
    <3>0. /\ w \in Execution(Nat) /\ w.emitted = NoEvents /\ w.request = e.request
          /\ PhaseInside \in Phases /\ w.emitted[PhaseInside] = 0 /\ g \in Interrupted(w, PhaseInside)
      BY <1>0, <1>2, <2>1, <3>1 DEF PhaseInside
    <3> HIDE DEF w
    <3>2. /\ g \in Execution(Nat) /\ g.request = e.request
          /\ \E k : g.emitted = [NoEvents EXCEPT !["BEFORE_COMMIT"] = k]
      <4>1. /\ g \in Execution(Nat) /\ g.request = w.request
            /\ \E k \in 1 .. w.buffer[PhaseInside] : g.emitted = [w.emitted EXCEPT ![PhaseInside] = k]
        BY <3>0, InterruptedCounts
      <4> QED
        BY <3>0, <4>1 DEF PhaseInside
    <3>3. g.emitted["AFTER_ROLLBACK"] = 0 /\ g.emitted["AFTER_COMMIT"] = 0
      BY <1>0, <3>2 DEF NoEvents
    <3> QED
      BY <2>1, <3>1, <3>2, <3>3, RolledBackAdvances DEF Running
  <2> HIDE DEF next
  <2> QED
    BY <1>1, <1>8, <2>1 DEF BeforeCommitThrows, next
\* What the listeners have heard when the commit is tried.
<1>9. ASSUME e.at = "commit"
      PROVE  e.emitted["AFTER_COMMIT"] = 0 /\ e.emitted["AFTER_ROLLBACK"] = 0
  BY <1>0, <1>9 DEF ExecutionInv, HeardInside
<1>10. CASE CommitRefused(x)
  <2>1. ASSUME NEW f \in RolledBack({e}), e.at = "commit" PROVE Advances(e, f)
    <3>1. f \in Caught([e EXCEPT !.tx = "rolledback"])
      BY <2>1 DEF RolledBack
    <3> QED
      BY <1>0, <1>9, <2>1, <3>1, RolledBackAdvances DEF Running
  <2> QED
    BY <1>1, <1>10, <2>1 DEF CommitRefused
<1>11. CASE CommitAnswerLost(x)
  <2> DEFINE u == [e EXCEPT !.tx = "unsure"]
  <2>1. ASSUME NEW f \in Caught(u), e.at = "commit" PROVE Advances(e, f)
    <3>1. u \in Execution(Nat) /\ u.emitted = e.emitted /\ u.request = e.request /\ u.tx = "unsure"
      BY <1>0 DEF Execution
    <3> HIDE DEF u
    <3>2. /\ f \in Execution(Nat) /\ f.at = "error" /\ f.tx = "unsure" /\ f.request = e.request
          /\ f.emitted["AFTER_COMMIT"] = 0
      BY <1>9, <2>1, <3>1, CaughtCounts
    <3> QED
      BY <2>1, <3>2 DEF Advances, ExecutionOK, ExecutionInv, Running, Committed
  <2> QED
    BY <1>1, <1>11, <2>1 DEF CommitAnswerLost
<1>12. CASE AfterCommitThrows(x)
  <2> DEFINE next == UNION {Caught(g) : g \in Interrupted(e, "AFTER_COMMIT")}
  <2>1. ASSUME NEW f \in next, e.at = "flush" PROVE Advances(e, f)
    <3>1. PICK g \in Interrupted(e, "AFTER_COMMIT") : f \in Caught(g)
      BY <2>1
    <3>2. /\ g \in Execution(Nat) /\ g.request = e.request /\ g.tx = "committed"
          /\ \E k \in 1 .. e.buffer["AFTER_COMMIT"] : g.emitted = [e.emitted EXCEPT !["AFTER_COMMIT"] = k]
      BY <1>0, <1>5, <2>1, <3>1, InterruptedCounts
    <3>3. g.emitted["AFTER_COMMIT"] > 0 /\ g.emitted["AFTER_ROLLBACK"] = 0
      BY <1>0, <1>5, <2>1, <3>2 DEF Execution, EventCounts
    <3>4. /\ f \in Execution(Nat) /\ f.at = "error" /\ f.tx = "committed" /\ f.request = e.request
          /\ f.emitted["AFTER_COMMIT"] > 0
      BY <3>1, <3>2, <3>3, CaughtCounts
    <3> QED
      BY <2>1, <3>4 DEF Advances, ExecutionOK, ExecutionInv, Running, Committed
  <2> HIDE DEF next
  <2> QED
    BY <1>1, <1>12, <2>1 DEF AfterCommitThrows, next
<1> QED
  BY <1>3, <1>4, <1>6, <1>7, <1>8, <1>10, <1>11, <1>12 DEF Runs, Fails

-----------------------------------------------------------------------------
(* What a step of a client does                                            *)

Assumptions == ClientAssumption /\ EventsAssumption /\ ServerAssumption

\* Links between the three sequences of records that no step breaks.
Linked(r) ==
  /\ http[r].stage = "handler" =>
       http[r].exec \in DOMAIN execs /\ execs[http[r].exec].request = r
  /\ http[r].stage \in {"sent", "handler"} => http[r].errors < RetryCount
  /\ http[r].reply = "ok" => http[r].stage = "answered"

Addressed(c) ==
  /\ call[c].at \in {"flight", "inner", "body"} =>
       call[c].request \in DOMAIN http /\ RequestOf(c).by = c
  /\ call[c].at = "body" => RequestOf(c).stage = "answered"

Links ==
  /\ \A r \in DOMAIN http : Linked(r)
  /\ \A c \in Calls : Addressed(c)
  /\ \A x \in DOMAIN execs : ExecutionInv(execs[x])

Wellformed == RequestsTypeOK /\ Links

\* A call is over, or waits in vain.
Active(c) == call[c].at \notin {"new", "value", "error"}

\* What a call has configured stays in its client as long as the call is
\* active, unless another call takes the client; what another call's
\* configuration has sent shows that one has.
Owned ==
  /\ \A c \in Calls : call[c].at # "new" => built[call[c].client].target \in Calls
  /\ \A c \in Calls : Active(c) /\ ~call[c].reused => built[call[c].client].target = c
  /\ RequestsAreOwn

\* The requests of one attempt.
PerAttempt(c) == IF KindOf[call[c].client] = "got" /\ SendsGet(c) THEN 1 + GotLimit ELSE 1

ThisAttempt(c) == call[c].inner + One(call[c].at \notin {"new", "backoff", "inner"})

Budgeted(c) ==
  /\ call[c].inner > 0 => KindOf[call[c].client] = "got" /\ SendsGet(c)
  /\ Cardinality(SentBy(c)) <= call[c].attempt * PerAttempt(c) + ThisAttempt(c)

\* The stages in which a request can still be executed.
Unserved == {"sent", "handler", "delay"}

\* The executions that have changed, or may still change, what call t asks to
\* change, or whose outcome the response waits for; the requests that may start
\* another one; and whether t may send another request without a doubt.
Awaited(x) == LET r == http[execs[x].request] IN r.stage = "handler" /\ r.exec = x

Held(t) ==
  {x \in DOMAIN execs : /\ http[execs[x].request].target = t
                        /\ Committed(execs[x]) \/ Running(execs[x]) \/ Awaited(x)}

Pending(t) == {r \in DOMAIN http : http[r].target = t /\ http[r].stage \in {"sent", "delay"}}

Failing(t) ==
  \/ RequestOf(t).target # t
  \/ RequestOf(t).stage \notin Unserved /\ RequestOf(t).reply # "ok"

Free(t) ==
  \/ call[t].at \in {"new", "backoff", "inner"}
  \/ call[t].at \in {"flight", "body"} /\ Failing(t)

Account(t) ==
  Cardinality(Held(t)) + Cardinality(Pending(t)) + One(Free(t)) <= 1 + doubt[t]

LEMMA RejectedFacts ==
  ASSUME Assumptions, NEW d \in CallStates
  PROVE  /\ Rejected(d) \in CallStates
         /\ Rejected(d).client = d.client /\ Rejected(d).request = d.request
         /\ Rejected(d).reused = d.reused
         /\ \/ /\ Rejected(d).at = "backoff" /\ Rejected(d).attempt = d.attempt + 1
               /\ Rejected(d).inner = 0
            \/ /\ Rejected(d).at = "error" /\ Rejected(d).attempt = d.attempt
               /\ Rejected(d).inner = d.inner
<1>1. CASE d.attempt < MaxRetries
  <2> DEFINE e == [d EXCEPT !.at = "backoff", !.attempt = @ + 1, !.inner = 0]
  <2>1. Rejected(d) = e
    BY <1>1 DEF Rejected, AnotherAttempt
  <2>2. d.attempt + 1 \in 0 .. MaxRetries /\ 0 \in 0 .. GotLimit
    BY <1>1 DEF CallStates, Assumptions, ClientAssumption, PolicyIsValid
  <2>3. /\ e \in CallStates /\ e.client = d.client /\ e.request = d.request /\ e.reused = d.reused
        /\ e.at = "backoff" /\ e.attempt = d.attempt + 1 /\ e.inner = 0
    BY <2>2 DEF CallStates
  <2> HIDE DEF e
  <2> QED
    BY <2>1, <2>3
<1>2. CASE ~(d.attempt < MaxRetries)
  BY <1>2 DEF Rejected, AnotherAttempt, CallStates
<1> QED
  BY <1>1, <1>2

\* got's own retry, or the catch of RetryExecutor.
LEMMA FailedFacts ==
  ASSUME Assumptions, NEW d \in CallStates, NEW t
  PROVE  /\ Failed(d, t) \in CallStates
         /\ Failed(d, t).client = d.client /\ Failed(d, t).request = d.request
         /\ Failed(d, t).reused = d.reused
         /\ \/ /\ Failed(d, t).at = "inner" /\ Failed(d, t).attempt = d.attempt
               /\ Failed(d, t).inner = d.inner + 1
               /\ KindOf[d.client] = "got" /\ t \in GetCalls
            \/ /\ Failed(d, t).at = "backoff" /\ Failed(d, t).attempt = d.attempt + 1
               /\ Failed(d, t).inner = 0
            \/ /\ Failed(d, t).at = "error" /\ Failed(d, t).attempt = d.attempt
               /\ Failed(d, t).inner = d.inner
<1>1. CASE RetriedByGot(d, t)
  <2> DEFINE e == [d EXCEPT !.at = "inner", !.inner = @ + 1]
  <2>1. Failed(d, t) = e
    BY <1>1 DEF Failed
  <2>2. d.inner + 1 \in 0 .. GotLimit /\ KindOf[d.client] = "got" /\ t \in GetCalls
    BY <1>1 DEF CallStates, Assumptions, ClientAssumption, RetriedByGot
  <2>3. /\ e \in CallStates /\ e.client = d.client /\ e.request = d.request /\ e.reused = d.reused
        /\ e.at = "inner" /\ e.attempt = d.attempt /\ e.inner = d.inner + 1
    BY <2>2 DEF CallStates
  <2> HIDE DEF e
  <2> QED
    BY <2>1, <2>2, <2>3
<1>2. CASE ~RetriedByGot(d, t)
  BY <1>2, RejectedFacts DEF Failed
<1> QED
  BY <1>1, <1>2

\* A call whose reused may have been set, and nothing else.
SameCall(d, e) ==
  /\ e.at = d.at /\ e.client = d.client /\ e.attempt = d.attempt
  /\ e.inner = d.inner /\ e.request = d.request
  /\ d.reused => e.reused

\* The request that call c sends for what t has configured.
NewRequest(c, t) ==
  [by |-> c, target |-> t, stage |-> "sent", reply |-> "none", exec |-> 0, errors |-> 0]

\* One call sends a request, the others are not moved.
PostStep(c, t) ==
  /\ call[c].at \in {"new", "backoff", "inner"}
  /\ t \in Calls /\ http' = Append(http, NewRequest(c, t))
  /\ call' \in [Calls -> CallStates]
  /\ call'[c].at = "flight" /\ call'[c].request = Len(http) + 1
  /\ call'[c].attempt = call[c].attempt /\ call'[c].inner = call[c].inner
  /\ call'[c].client = call[c].client /\ call'[c].reused = call[c].reused
  /\ \A b \in Calls \ {c} : SameCall(call[b], call'[b])
  /\ doubt' = [doubt EXCEPT ![t] = @ + One(t # c)]
  /\ UNCHANGED <<execs, faults>>

\* A call that is not new leaves the clients as they are; a new one configures its
\* client, and the other calls that use it know.
Configures(c) ==
  LET k == call[c].client IN
  \/ call[c].at # "new" /\ built' = built
  \/ /\ call[c].at = "new"
     /\ built' \in [Clients -> [target : Calls \cup {NoCall}, body : Calls \cup {NoCall}]]
     /\ built'[k].target = c /\ \A l \in Clients \ {k} : built'[l] = built[l]
     /\ \A b \in Calls \ {c} : Active(b) /\ call[b].client = k => call'[b].reused

\* A call that cannot send its request fails one attempt.
RejectStep(c) ==
  /\ call[c].at \in {"new", "backoff"}
  /\ call' \in [Calls -> CallStates]
  /\ call'[c].client = call[c].client /\ call'[c].request = call[c].request
  /\ call'[c].reused = call[c].reused
  /\ \/ call'[c].at = "backoff" /\ call'[c].attempt = call[c].attempt + 1 /\ call'[c].inner = 0
     \/ call'[c].at = "error" /\ call'[c].attempt = call[c].attempt /\ call'[c].inner = call[c].inner
  /\ \A b \in Calls \ {c} : SameCall(call[b], call'[b])
  /\ UNCHANGED <<http, execs, faults, doubt>>

\* A call that waits for its request, or its body, goes on: it has its answer, or
\* fails, and when it tries again then because the request has failed or in doubt.
EndStep(c) ==
  LET r == call[c].request
      d == call'[c]
  IN
  /\ call[c].at \in {"flight", "body"}
  /\ call' \in [Calls -> CallStates]
  /\ d.client = call[c].client /\ d.request = r /\ d.reused = call[c].reused
  /\ \A b \in Calls \ {c} : call'[b] = call[b]
  /\ http' \in Seq(HttpRequests) /\ Len(http') = Len(http)
  /\ \A q \in DOMAIN http \ {r} : http'[q] = http[q]
  /\ \E s \in Stages : /\ http'[r] = [http[r] EXCEPT !.stage = s]
                       /\ s = http[r].stage \/ (http[r].stage = "sent" /\ s = "lost")
  /\ \/ /\ d.at \in {"body", "value", "stalled"} /\ d.attempt = call[c].attempt
        /\ d.inner = call[c].inner
        /\ d.at = "body" => http'[r].stage = "answered"
     \/ d.at = "error" /\ d.attempt = call[c].attempt /\ d.inner = call[c].inner
     \/ d.at = "backoff" /\ d.attempt = call[c].attempt + 1 /\ d.inner = 0
     \/ /\ d.at = "inner" /\ d.attempt = call[c].attempt /\ d.inner = call[c].inner + 1
        /\ KindOf[d.client] = "got" /\ http[r].target \in GetCalls
  /\ \E n \in Nat :
       /\ doubt' = [doubt EXCEPT ![http[r].target] = @ + n]
       /\ d.at \in {"backoff", "inner"} =>
            n >= 1 \/ (http'[r].stage \notin Unserved /\ http[r].reply # "ok")
  /\ UNCHANGED <<built, execs>>
  /\ faults' \in 0 .. MaxFaults

LEMMA AppendedSeq ==
  ASSUME NEW S, NEW s \in Seq(S), NEW x \in S
  PROVE  LET t == Append(s, x) IN
           /\ t \in Seq(S) /\ Len(t) = Len(s) + 1 /\ Len(s) \in Nat
           /\ DOMAIN t = DOMAIN s \cup {Len(s) + 1} /\ Len(s) + 1 \notin DOMAIN s
           /\ \A i \in DOMAIN s : t[i] = s[i]
           /\ t[Len(s) + 1] = x
  OBVIOUS

LEMMA MemberOfSeq ==
  ASSUME NEW S, NEW s \in Seq(S), NEW i \in DOMAIN s
  PROVE  s[i] \in S
  OBVIOUS

LEMMA UpdatedSeq ==
  ASSUME NEW S, NEW s \in Seq(S), NEW i \in DOMAIN s, NEW x \in S
  PROVE  LET t == [s EXCEPT ![i] = x] IN
           /\ t \in Seq(S) /\ Len(t) = Len(s) /\ DOMAIN t = DOMAIN s
           /\ \A j \in DOMAIN s \ {i} : t[j] = s[j]
           /\ t[i] = x
  BY ExceptSeq

LEMMA AttemptShape ==
  ASSUME Assumptions, NEW c \in Calls, NEW config, config.target \in Calls,
         NEW others \in [Calls -> CallStates], http \in Seq(HttpRequests), Attempt(c, config, others)
  PROVE  /\ call' \in [Calls -> CallStates] /\ \A b \in Calls \ {c} : call'[b] = others[b]
         /\ call'[c].client = others[c].client /\ call'[c].reused = others[c].reused
         /\ \/ /\ http' = Append(http, NewRequest(c, config.target))
               /\ call'[c].at = "flight" /\ call'[c].request = Len(http) + 1
               /\ call'[c].attempt = others[c].attempt /\ call'[c].inner = others[c].inner
            \/ /\ http' = http /\ call'[c].request = others[c].request
               /\ \/ /\ call'[c].at = "backoff" /\ call'[c].attempt = others[c].attempt + 1
                     /\ call'[c].inner = 0
                  \/ /\ call'[c].at = "error" /\ call'[c].attempt = others[c].attempt
                     /\ call'[c].inner = others[c].inner
<1>1. CASE Sendable(config)
  <2> DEFINE e == Waiting(others[c])
  <2>1. http' = Append(http, NewRequest(c, config.target)) /\ call' = [others EXCEPT ![c] = e]
    BY <1>1 DEF Attempt, Post, NewRequest
  <2>2. /\ e \in CallStates /\ e.client = others[c].client /\ e.reused = others[c].reused
        /\ e.at = "flight" /\ e.request = Len(http) + 1
        /\ e.attempt = others[c].attempt /\ e.inner = others[c].inner
    <3>1. Len(http) + 1 \in Nat /\ others[c] \in CallStates
      OBVIOUS
    <3>2. e = [[others[c] EXCEPT !.at = "flight"] EXCEPT !.request = Len(http) + 1]
      BY DEF Waiting
    <3> HIDE DEF e
    <3> QED
      BY <3>1, <3>2 DEF CallStates
  <2> HIDE DEF e
  <2> QED
    BY <2>1, <2>2
<1>2. CASE ~Sendable(config)
  <2> DEFINE e == Rejected(others[c])
  <2>1. http' = http /\ call' = [others EXCEPT ![c] = e]
    BY <1>2 DEF Attempt
  <2>2. /\ e \in CallStates /\ e.client = others[c].client /\ e.request = others[c].request
        /\ e.reused = others[c].reused
        /\ \/ e.at = "backoff" /\ e.attempt = others[c].attempt + 1 /\ e.inner = 0
           \/ e.at = "error" /\ e.attempt = others[c].attempt /\ e.inner = others[c].inner
    BY RejectedFacts
  <2> HIDE DEF e
  <2> QED
    BY <2>1, <2>2
<1> QED
  BY <1>1, <1>2

\* The history variable counts the one request that is misdirected.
LEMMA MisdirectedCount ==
  ASSUME http \in Seq(HttpRequests), doubt \in [Calls -> Nat], NEW c \in Calls, NEW t \in Calls,
         http' = Append(http, NewRequest(c, t)),
         doubt' = [d \in Calls |-> doubt[d] + Cardinality({r \in Misdirected : http'[r].target = d})]
  PROVE  doubt' = [doubt EXCEPT ![t] = @ + One(t # c)]
<1> DEFINE n == Len(http) + 1
           hits(d) == {r \in Misdirected : http'[r].target = d}
<1>1. NewRequest(c, t) \in HttpRequests
  BY DEF NewRequest, HttpRequests, Stages
<1>2. DOMAIN http' \ DOMAIN http = {n} /\ http'[n] = NewRequest(c, t)
  BY <1>1, AppendedSeq
<1>3. \A d \in Calls : hits(d) = IF d = t /\ t # c THEN {n} ELSE {}
  BY <1>2 DEF Misdirected, NewRequest
<1>4. Cardinality({n}) = 1 /\ Cardinality({}) = 0
  BY FS_Singleton, FS_EmptySet
<1>5. \A d \in Calls : Cardinality(hits(d)) = IF d = t /\ t # c THEN 1 ELSE 0
  BY <1>3, <1>4
<1>6. doubt' = [d \in Calls |-> doubt[d] + Cardinality(hits(d))]
  OBVIOUS
<1> HIDE DEF hits
<1> HIDE DEF n
<1>7. ASSUME NEW d \in Calls
      PROVE  doubt'[d] = IF d = t THEN doubt[d] + One(t # c) ELSE doubt[d]
  <2>1. doubt'[d] = doubt[d] + Cardinality(hits(d)) /\ doubt[d] \in Nat
    BY <1>6
  <2>2. Cardinality(hits(d)) = IF d = t /\ t # c THEN 1 ELSE 0
    BY <1>5
  <2>3. d = t => (Cardinality(hits(d)) = One(t # c))
    BY <2>2 DEF One
  <2>4. d # t => Cardinality(hits(d)) = 0
    BY <2>2
  <2>5. doubt[d] + 0 = doubt[d]
    BY <2>1
  <2> QED
    BY <2>1, <2>3, <2>4, <2>5, Zenon
<1>8. doubt' = [d \in Calls |-> doubt'[d]]
  BY <1>6
<1> QED
  BY <1>7, <1>8

LEMMA NothingMisdirected ==
  ASSUME doubt \in [Calls -> Nat], http' = http,
         doubt' = [d \in Calls |-> doubt[d] + Cardinality({r \in Misdirected : http'[r].target = d})]
  PROVE  doubt' = doubt
<1>1. \A d \in Calls : {r \in Misdirected : http'[r].target = d} = {}
  BY DEF Misdirected
<1>2. \A d \in Calls : doubt'[d] = doubt[d] + 0
  BY <1>1, FS_EmptySet
<1> QED
  BY <1>2

LEMMA SendShape ==
  ASSUME Assumptions, Wellformed, NEW c \in Calls, Send(c),
         built[call[c].client].target \in Calls \/ call[c].at = "new"
  PROVE  /\ Configures(c)
         /\ PostStep(c, built'[call[c].client].target) \/ RejectStep(c)
<1>0. /\ http \in Seq(HttpRequests) /\ doubt \in [Calls -> Nat] /\ call \in [Calls -> CallStates]
      /\ built \in [Clients -> [target : Calls \cup {NoCall}, body : Calls \cup {NoCall}]]
      /\ call[c].client \in Clients
  BY DEF Wellformed, RequestsTypeOK, ClientTypeOK, CallStates
<1> DEFINE k == call[c].client
<1>1. ASSUME NEW others \in [Calls -> CallStates], others[c] = call[c],
             \A b \in Calls \ {c} : SameCall(call[b], others[b]),
             call[c].at \in {"new", "backoff"},
             built'[k].target \in Calls, Attempt(c, built'[k], others)
      PROVE  /\ PostStep(c, built'[k].target) \/ RejectStep(c)
             /\ \A b \in Calls \ {c} : call'[b] = others[b]
  <2> DEFINE t == built'[k].target
  <2> HIDE DEF t
  <2>0. t \in Calls
    BY <1>1 DEF t
  <2>1. /\ call' \in [Calls -> CallStates] /\ \A b \in Calls \ {c} : call'[b] = others[b]
        /\ call'[c].client = call[c].client /\ call'[c].reused = call[c].reused
        /\ \/ /\ http' = Append(http, NewRequest(c, t))
              /\ call'[c].at = "flight" /\ call'[c].request = Len(http) + 1
              /\ call'[c].attempt = call[c].attempt /\ call'[c].inner = call[c].inner
           \/ /\ http' = http /\ call'[c].request = call[c].request
              /\ \/ /\ call'[c].at = "backoff" /\ call'[c].attempt = call[c].attempt + 1
                    /\ call'[c].inner = 0
                 \/ /\ call'[c].at = "error" /\ call'[c].attempt = call[c].attempt
                    /\ call'[c].inner = call[c].inner
    BY <1>0, <1>1, AttemptShape DEF t
  <2>2. /\ doubt' = [d \in Calls |-> doubt[d] + Cardinality({r \in Misdirected : http'[r].target = d})]
        /\ UNCHANGED <<execs, faults>>
    BY DEF Send
  <2>3. CASE http' = Append(http, NewRequest(c, t))
    <3>1. doubt' = [doubt EXCEPT ![t] = @ + One(t # c)]
      BY <1>0, <2>0, <2>2, <2>3, MisdirectedCount
    <3>2. http' # http
      BY <1>0, <2>3
    <3>3. PostStep(c, t)
      BY <1>1, <2>0, <2>1, <2>2, <2>3, <3>1, <3>2 DEF PostStep
    <3> QED
      BY <2>1, <3>3 DEF t
  <2>4. CASE http' = http
    <3>1. doubt' = doubt
      BY <1>0, <2>2, <2>4, NothingMisdirected
    <3>2. http # Append(http, NewRequest(c, t))
      BY <1>0
    <3> QED
      BY <1>1, <2>1, <2>2, <2>4, <3>1, <3>2 DEF RejectStep
  <2> QED
    BY <2>1, <2>3, <2>4
<1>2. CASE Retrieve(c)
  <2> DEFINE used(d) == call[d].reused \/ (d # c /\ call[d].client = k /\ call[d].at # "new" /\ ~Ended(d))
             others == [d \in Calls |-> [call[d] EXCEPT !.reused = used(d)]]
             config == Configured(built[k], c)
  <2>1. /\ call[c].at = "new" /\ built' = [built EXCEPT ![k] = config]
        /\ Attempt(c, built'[k], others)
    BY <1>2 DEF Retrieve
  <2>2. config \in [target : Calls \cup {NoCall}, body : Calls \cup {NoCall}] /\ config.target = c
    BY <1>0 DEF Configured
  <2>3. \A d \in Calls : used(d) \in BOOLEAN /\ (call[d].reused => used(d))
    BY <1>0 DEF CallStates
  <2>4. /\ used(c) = call[c].reused
        /\ \A b \in Calls \ {c} : Active(b) /\ call[b].client = k => used(b)
    BY <1>0 DEF CallStates, Active, Ended
  <2> HIDE DEF used, config
  <2>5. \A d \in Calls : /\ others[d] \in CallStates /\ SameCall(call[d], others[d])
                         /\ others[d].reused = used(d)
    BY <1>0, <2>3 DEF CallStates, SameCall
  <2>6. others[c] = call[c]
    BY <1>0, <2>4 DEF CallStates
  <2>7. others \in [Calls -> CallStates]
    BY <2>5
  <2> HIDE DEF others
  <2>8. built' \in [Clients -> [target : Calls \cup {NoCall}, body : Calls \cup {NoCall}]]
        /\ built'[k] = config /\ \A l \in Clients \ {k} : built'[l] = built[l]
    BY <1>0, <2>1, <2>2
  <2>9. /\ PostStep(c, built'[k].target) \/ RejectStep(c)
        /\ \A b \in Calls \ {c} : call'[b] = others[b]
    BY <1>1, <2>1, <2>2, <2>5, <2>6, <2>7, <2>8
  <2>10. Configures(c)
    BY <2>1, <2>2, <2>4, <2>5, <2>8, <2>9 DEF Configures
  <2> QED
    BY <2>9, <2>10
<1>3. CASE AttemptAgain(c)
  <2>1. built' = built /\ call[c].at = "backoff" /\ Attempt(c, built'[k], call)
    BY <1>3 DEF AttemptAgain
  <2>2. \A d \in Calls : SameCall(call[d], call[d])
    BY DEF SameCall
  <2> QED
    BY <1>0, <1>1, <2>1, <2>2 DEF Configures
<1> QED
  BY <1>2, <1>3 DEF Send

\* got's own retry asks for what the attempt began with.
LEMMA ResendShape ==
  ASSUME Wellformed, NEW c \in Calls, Resend(c)
  PROVE  /\ PostStep(c, RequestOf(c).target) /\ built' = built
         /\ call[c].request \in DOMAIN http /\ RequestOf(c).by = c
<1>0. /\ http \in Seq(HttpRequests) /\ call \in [Calls -> CallStates] /\ call[c].at = "inner"
      /\ call[c].request \in DOMAIN http /\ RequestOf(c).by = c /\ call[c] \in CallStates
  BY DEF Wellformed, RequestsTypeOK, ClientTypeOK, Links, Addressed, Resend, GotSendsAgain
<1>1. RequestOf(c).target \in Calls /\ Len(http) + 1 \in Nat
  <2>1. RequestOf(c) \in HttpRequests
    BY <1>0, MemberOfSeq DEF RequestOf
  <2> QED
    BY <1>0, <2>1 DEF HttpRequests
<1> DEFINE e == Waiting(call[c])
<1>2. /\ e \in CallStates /\ e.client = call[c].client /\ e.reused = call[c].reused
      /\ e.at = "flight" /\ e.request = Len(http) + 1
      /\ e.attempt = call[c].attempt /\ e.inner = call[c].inner
  <2>1. e = [[call[c] EXCEPT !.at = "flight"] EXCEPT !.request = Len(http) + 1]
    BY DEF Waiting
  <2> HIDE DEF e
  <2> QED
    BY <1>0, <1>1, <2>1 DEF CallStates
<1>3. /\ call' = [call EXCEPT ![c] = e] /\ built' = built /\ UNCHANGED <<execs, faults>>
      /\ http' = Append(http, NewRequest(c, RequestOf(c).target))
      /\ doubt' = [doubt EXCEPT ![RequestOf(c).target] = @ + One(RequestOf(c).target # c)]
  BY DEF Resend, GotSendsAgain, Post, NewRequest, Doubt
<1> HIDE DEF e
<1> QED
  BY <1>0, <1>1, <1>2, <1>3 DEF PostStep, SameCall

LEMMA EndShape ==
  ASSUME Assumptions, Wellformed, NEW c \in Calls,
         ClientStep(c) \/ Disconnect(c) \/ BodyLost(c) \/ Stall(c)
  PROVE  EndStep(c)
<1> DEFINE r == call[c].request
           t == http[r].target
<1>0. /\ http \in Seq(HttpRequests) /\ call \in [Calls -> CallStates] /\ call[c] \in CallStates
      /\ doubt \in [Calls -> Nat] /\ faults \in 0 .. MaxFaults /\ MaxFaults \in Nat
  BY DEF Wellformed, RequestsTypeOK, ClientTypeOK, Assumptions, ServerAssumption
<1>1. call[c].at \in {"flight", "body"}
  BY DEF ClientStep, Disconnect, BodyLost, Stall, ReceiveAnswer, ReadBody, TimerFires,
         ConnectionFails, GivesUp, BodyFails, BodyStalls
<1>2. r \in DOMAIN http /\ http[r] \in HttpRequests /\ t \in Calls
  <2>1. r \in DOMAIN http
    BY <1>1 DEF Wellformed, Links, Addressed
  <2>2. http[r] \in HttpRequests
    BY <1>0, <2>1, MemberOfSeq
  <2> QED
    BY <2>1, <2>2 DEF HttpRequests
<1>3. /\ http[r].stage \in Stages
      /\ http[r].reply = "ok" => http[r].stage = "answered"
      /\ call[c].at = "body" => http[r].stage = "answered"
  BY <1>2 DEF HttpRequests, Wellformed, Links, Linked, Addressed, RequestOf
<1>4. /\ faults' \in 0 .. MaxFaults /\ UNCHANGED <<built, execs>>
  <2>1. faults' = faults \/ Fault
    BY DEF ClientStep, Disconnect, BodyLost, Stall
  <2>2. UNCHANGED <<built, execs>>
    BY DEF ClientStep, Disconnect, BodyLost, Stall, ReceiveAnswer, ReadBody, TimerFires,
           ConnectionFails, GivesUp, BodyFails, BodyStalls
  <2> QED
    BY <1>0, <2>1, <2>2 DEF Fault
<1> DEFINE moves(d) ==
      /\ d \in CallStates /\ d.client = call[c].client /\ d.request = r
      /\ d.reused = call[c].reused
      /\ \/ /\ d.at \in {"body", "value", "stalled"} /\ d.attempt = call[c].attempt
            /\ d.inner = call[c].inner
            /\ d.at = "body" => http[r].stage = "answered"
         \/ d.at = "error" /\ d.attempt = call[c].attempt /\ d.inner = call[c].inner
         \/ d.at = "backoff" /\ d.attempt = call[c].attempt + 1 /\ d.inner = 0
         \/ /\ d.at = "inner" /\ d.attempt = call[c].attempt /\ d.inner = call[c].inner + 1
            /\ KindOf[d.client] = "got" /\ http[r].target \in GetCalls
    changes(s) ==
      /\ s \in Stages /\ (s = http[r].stage \/ (http[r].stage = "sent" /\ s = "lost"))
      /\ http' = [http EXCEPT ![r].stage = s]
    becomes(d) == call' = [call EXCEPT ![c] = d]
    counts(n) == n \in Nat /\ doubt' = [doubt EXCEPT ![t] = @ + n]
    costs(n, d, s) ==
      d.at \in {"backoff", "inner"} => n >= 1 \/ (s \notin Unserved /\ http[r].reply # "ok")
<1>5. ASSUME NEW d, moves(d), becomes(d), NEW s, changes(s), NEW n, counts(n), costs(n, d, s)
      PROVE  EndStep(c)
  <2> DEFINE q == [http[r] EXCEPT !.stage = s]
  <2>1. q \in HttpRequests /\ q.stage = s /\ http' = [http EXCEPT ![r] = q]
    BY <1>2, <1>5 DEF HttpRequests
  <2>2. /\ http' \in Seq(HttpRequests) /\ Len(http') = Len(http) /\ http'[r] = q
        /\ \A p \in DOMAIN http \ {r} : http'[p] = http[p]
    <3> HIDE DEF q, r
    <3> QED
      BY <1>0, <1>2, <2>1, UpdatedSeq
  <2>3. /\ call'[c] = d /\ call' \in [Calls -> CallStates]
        /\ \A b \in Calls \ {c} : call'[b] = call[b]
    BY <1>0, <1>5
  <2>4. \E v \in Stages : /\ http'[r] = [http[r] EXCEPT !.stage = v]
                          /\ v = http[r].stage \/ (http[r].stage = "sent" /\ v = "lost")
    BY <1>5, <2>2
  <2>5. \E m \in Nat :
          /\ doubt' = [doubt EXCEPT ![http[r].target] = @ + m]
          /\ d.at \in {"backoff", "inner"} =>
               m >= 1 \/ (http'[r].stage \notin Unserved /\ http[r].reply # "ok")
    BY <1>5, <2>1, <2>2
  <2>6. \/ /\ d.at \in {"body", "value", "stalled"} /\ d.attempt = call[c].attempt
           /\ d.inner = call[c].inner
           /\ d.at = "body" => http'[r].stage = "answered"
        \/ d.at = "error" /\ d.attempt = call[c].attempt /\ d.inner = call[c].inner
        \/ d.at = "backoff" /\ d.attempt = call[c].attempt + 1 /\ d.inner = 0
        \/ /\ d.at = "inner" /\ d.attempt = call[c].attempt /\ d.inner = call[c].inner + 1
           /\ KindOf[d.client] = "got" /\ http[r].target \in GetCalls
    BY <1>5, <2>1, <2>2
  <2>7. d.client = call[c].client /\ d.request = r /\ d.reused = call[c].reused
    BY <1>5
  <2> HIDE DEF q, moves, changes, costs, becomes, counts
  <2> QED
    BY <1>1, <1>4, <2>2, <2>3, <2>4, <2>5, <2>6, <2>7 DEF EndStep
<1>6. ASSUME NEW d, moves(d), becomes(d), http' = http,
             NEW n, counts(n), costs(n, d, http[r].stage)
      PROVE  EndStep(c)
  <2>1. [http[r] EXCEPT !.stage = http[r].stage] = http[r]
    BY <1>2 DEF HttpRequests
  <2>2. http = [http EXCEPT ![r] = http[r]]
    BY <1>0
  <2>3. http' = [http EXCEPT ![r].stage = http[r].stage]
    BY <1>6, <2>1, <2>2
  <2>4. changes(http[r].stage)
    BY <1>3, <2>3, Zenon
  <2> HIDE DEF r, t, moves, changes, costs, becomes, counts
  <2> QED
    BY <1>5, <1>6, <2>4
<1>7. moves(Failed(call[c], t)) /\ moves(Rejected(call[c]))
  BY <1>0, <1>2, FailedFacts, RejectedFacts
<1>8. ASSUME NEW w \in {"body", "value", "stalled"}, w = "body" => http[r].stage = "answered",
             call' = [call EXCEPT ![c] = [call[c] EXCEPT !.at = w]], http' = http, doubt' = doubt
      PROVE  EndStep(c)
  <2> DEFINE d == [call[c] EXCEPT !.at = w]
  <2>1. moves(d) /\ d.at = w
    BY <1>0, <1>8 DEF CallStates
  <2>2. costs(0, d, http[r].stage)
    BY <1>8, <2>1
  <2>3. counts(0)
    BY <1>0, <1>2, <1>8
  <2>4. becomes(d)
    BY <1>8
  <2> HIDE DEF d, r, t, moves, costs, becomes, counts
  <2> QED
    BY <1>6, <1>8, <2>1, <2>2, <2>3, <2>4
<1>9. CASE ClientStep(c)
  <2>0. doubt' = doubt /\ counts(0)
    BY <1>0, <1>2, <1>9 DEF ClientStep
  <2>1. CASE ReceiveAnswer(c)
    <3>1. /\ call' = [call EXCEPT ![c] = Answered(@, http[r])] /\ http' = http
          /\ http[r].stage = "answered"
      BY <2>1 DEF ReceiveAnswer, RequestOf
    <3>2. CASE KindOf[call[c].client] = "fetch"
      <4>1. Answered(call[c], http[r]) = [call[c] EXCEPT !.at = "body"]
        BY <3>2 DEF Answered
      <4>2. call' = [call EXCEPT ![c] = [call[c] EXCEPT !.at = "body"]]
        BY <3>1, <4>1, Zenon
      <4> QED
        BY <1>8, <2>0, <3>1, <4>2
    <3>3. CASE KindOf[call[c].client] # "fetch" /\ http[r].reply = "ok"
      <4>1. Answered(call[c], http[r]) = [call[c] EXCEPT !.at = "value"]
        BY <3>3 DEF Answered
      <4>2. call' = [call EXCEPT ![c] = [call[c] EXCEPT !.at = "value"]]
        BY <3>1, <4>1, Zenon
      <4> QED
        BY <1>8, <2>0, <3>1, <4>2
    <3>4. CASE KindOf[call[c].client] # "fetch" /\ http[r].reply # "ok"
      <4>1. becomes(Failed(call[c], t))
        BY <3>1, <3>4 DEF Answered
      <4>2. costs(0, Failed(call[c], t), http[r].stage)
        BY <3>1, <3>4 DEF Unserved
      <4> HIDE DEF r, t, moves, costs, becomes, counts
      <4> QED
        BY <1>6, <1>7, <2>0, <3>1, <4>1, <4>2
    <3> QED
      BY <3>2, <3>3, <3>4
  <2>2. CASE ReadBody(c)
    <3>1. call' = [call EXCEPT ![c] = [call[c] EXCEPT !.at = "value"]] /\ http' = http
      BY <1>0, <2>2 DEF ReadBody
    <3> QED
      BY <1>8, <2>0, <3>1
  <2>3. CASE TimerFires(c)
    <3>1. /\ call' = [call EXCEPT ![c] = Failed(call[c], t)] /\ http[r].stage = "silent"
          /\ http' = [http EXCEPT ![r].stage = "silent"]
      BY <2>3 DEF TimerFires, Unanswerable, GivesUp, RequestOf
    <3>2. costs(0, Failed(call[c], t), "silent") /\ becomes(Failed(call[c], t))
      BY <1>3, <3>1 DEF Unserved
    <3>3. changes("silent")
      BY <1>3, <3>1, Zenon
    <3> HIDE DEF r, t, moves, costs, changes, becomes, counts
    <3> QED
      BY <1>5, <1>7, <2>0, <3>2, <3>3
  <2> QED
    BY <1>9, <2>1, <2>2, <2>3 DEF ClientStep
<1>10. CASE Disconnect(c)
  <2>1. PICK v \in {http[r].stage} \cup (IF http[r].stage = "sent" THEN {"lost"} ELSE {}) :
          GivesUp(c, v)
    BY <1>10 DEF Disconnect, ConnectionFails, RequestOf
  <2>2. becomes(Failed(call[c], t)) /\ http' = [http EXCEPT ![r].stage = v]
    BY <2>1 DEF GivesUp, RequestOf
  <2>3. changes(v)
    <3>1. v \in Stages /\ (v = http[r].stage \/ (http[r].stage = "sent" /\ v = "lost"))
      BY <1>3, <2>1 DEF Stages
    <3> QED
      BY <2>2, <3>1, Zenon
  <2>4. http'[r].stage = v
    <3>1. [http[r] EXCEPT !.stage = v].stage = v
      BY <1>2 DEF HttpRequests
    <3> QED
      BY <1>2, <2>2, <3>1
  <2> DEFINE n == One(Unfinished(r) \/ http[r].reply = "ok")
  <2>5. counts(n)
    BY <1>10 DEF Disconnect, Doubt, RequestOf, One
  <2>6. costs(n, Failed(call[c], t), v)
    BY <2>4 DEF One, Unfinished, Unserved
  <2> HIDE DEF n, r, t, moves, costs, changes, becomes, counts
  <2> QED
    BY <1>5, <1>7, <2>2, <2>3, <2>5, <2>6
<1>11. CASE BodyLost(c)
  <2> DEFINE n == One(http[r].reply = "ok")
  <2>1. /\ becomes(Failed(call[c], t)) /\ http' = http /\ call[c].at = "body" /\ counts(n)
    BY <1>11 DEF BodyLost, BodyFails, Doubt, RequestOf, One
  <2>2. costs(n, Failed(call[c], t), http[r].stage)
    BY <1>3, <2>1 DEF One, Unserved
  <2> HIDE DEF n, r, t, moves, costs, becomes, counts
  <2> QED
    BY <1>6, <1>7, <2>1, <2>2
<1>12. CASE Stall(c)
  <2>1. /\ call' = [call EXCEPT ![c] = [call[c] EXCEPT !.at = "stalled"]] /\ http' = http
        /\ doubt' = doubt
    BY <1>0, <1>12 DEF Stall, BodyStalls
  <2> QED
    BY <1>8, <2>1
<1> QED
  BY <1>9, <1>10, <1>11, <1>12

-----------------------------------------------------------------------------
(* What a step of the server does                                          *)

\* What a step of the server leaves as it is in a request.
SameRequest(p, q) ==
  q \in HttpRequests /\ q.by = p.by /\ q.target = p.target /\ q.errors <= RetryCount

\* An execution begins for request r, which becomes q; after the last retry
\* its client gets an error at once.
BeginStep(r, q) ==
  /\ http[r].stage \in {"sent", "delay"}
  /\ execs' = Append(execs, Started(r))
  /\ SameRequest(http[r], q) /\ http' = [http EXCEPT ![r] = q]
  /\ q.exec = Len(execs) + 1 /\ q.reply # "ok"
  /\ \/ q.stage = "handler" /\ q.errors < RetryCount /\ doubt' = doubt
     \/ q.stage = "answered" /\ doubt' = [doubt EXCEPT ![http[r].target] = @ + 1]
  /\ UNCHANGED <<built, call, faults>>

\* The server stops waiting for the execution of request r, which becomes q: the
\* execution has committed, or has failed without a commit, or there is a doubt.
ReleaseStep(r, q) ==
  LET e == execs[http[r].exec] IN
  /\ http[r].stage = "handler"
  /\ SameRequest(http[r], q) /\ http' = [http EXCEPT ![r] = q] /\ q.exec = http[r].exec
  /\ q.stage \in {"delay", "silent", "answered"}
  /\ \E n \in Nat :
       /\ doubt' = [doubt EXCEPT ![http[r].target] = @ + n]
       /\ \/ q.stage = "answered" /\ q.reply = "ok" /\ Committed(e)
          \/ q.reply # "ok" /\ (n >= 1 \/ ~(Running(e) \/ Committed(e)))
  /\ faults' \in 0 .. MaxFaults
  /\ UNCHANGED <<built, call, execs>>

LEMMA FilteredFacts ==
  ASSUME NEW q \in HttpRequests, q.errors <= RetryCount, q.reply # "ok", NEW domain \in BOOLEAN
  PROVE  LET f == Filtered(q, domain) IN
           /\ SameRequest(q, f) /\ f.exec = q.exec /\ f.errors = q.errors /\ f.reply # "ok"
           /\ f.stage \in {"silent", "answered"}
           /\ ~domain => f.stage = "answered"
<1>1. CASE domain
  <2> DEFINE f == [q EXCEPT !.stage = "silent"]
  <2>1. f = Filtered(q, domain)
    BY <1>1 DEF Filtered
  <2>2. /\ f \in HttpRequests /\ f.by = q.by /\ f.target = q.target /\ f.exec = q.exec
        /\ f.errors = q.errors /\ f.reply = q.reply /\ f.stage = "silent"
    BY DEF HttpRequests, Stages
  <2> HIDE DEF f
  <2> QED
    BY <1>1, <2>1, <2>2 DEF SameRequest
<1>2. CASE ~domain
  <2> DEFINE f == [q EXCEPT !.stage = "answered", !.reply = "error"]
  <2>1. f = Filtered(q, domain)
    BY <1>2 DEF Filtered
  <2>2. /\ f \in HttpRequests /\ f.by = q.by /\ f.target = q.target /\ f.exec = q.exec
        /\ f.errors = q.errors /\ f.reply = "error" /\ f.stage = "answered"
    BY DEF HttpRequests, Stages
  <2> HIDE DEF f
  <2> QED
    BY <1>2, <2>1, <2>2 DEF SameRequest
<1> QED
  BY <1>1, <1>2

LEMMA AfterErrorFacts ==
  ASSUME Assumptions, NEW q \in HttpRequests, q.errors < RetryCount, q.reply # "ok",
         NEW domain \in BOOLEAN
  PROVE  LET f == AfterError(q, domain) IN
           /\ SameRequest(q, f) /\ f.exec = q.exec /\ f.reply # "ok"
           /\ f.stage \in {"delay", "silent", "answered"}
<1>0. q.errors \in Nat /\ RetryCount \in Nat
  BY DEF HttpRequests, Assumptions, ServerAssumption
<1>1. CASE q.target \in RetriedCalls
  <2> DEFINE f == [q EXCEPT !.stage = "delay", !.errors = @ + 1]
  <2>1. f = AfterError(q, domain)
    BY <1>1 DEF AfterError
  <2>2. /\ f \in HttpRequests /\ f.by = q.by /\ f.target = q.target /\ f.exec = q.exec
        /\ f.errors = q.errors + 1 /\ f.reply = q.reply /\ f.stage = "delay"
    <3>1. q.errors + 1 \in Nat
      BY <1>0
    <3>2. f = [[q EXCEPT !.stage = "delay"] EXCEPT !.errors = q.errors + 1]
      BY DEF HttpRequests
    <3> HIDE DEF f
    <3> QED
      BY <3>1, <3>2 DEF HttpRequests, Stages
  <2> HIDE DEF f
  <2> QED
    BY <1>0, <2>1, <2>2 DEF SameRequest
<1>2. CASE q.target \notin RetriedCalls
  <2>1. q.errors <= RetryCount
    BY <1>0
  <2> QED
    BY <1>2, <2>1, FilteredFacts DEF AfterError
<1> QED
  BY <1>1, <1>2

LEMMA ServerShape ==
  ASSUME Assumptions, Wellformed, NEW r \in DOMAIN http, ServerStep(r) \/ ServerTimeout(r)
  PROVE  \E q : BeginStep(r, q) \/ ReleaseStep(r, q)
<1> DEFINE p == http[r]
           e == execs[p.exec]
<1>0. /\ p \in HttpRequests /\ p.errors <= RetryCount /\ p.errors \in Nat /\ p.target \in Calls
      /\ doubt \in [Calls -> Nat] /\ execs \in Seq(Execution(DOMAIN http))
      /\ faults \in 0 .. MaxFaults /\ MaxFaults \in Nat /\ RetryCount \in Nat
  <2>1. p \in HttpRequests /\ p.errors <= RetryCount
    BY MemberOfSeq DEF Wellformed, RequestsTypeOK, ClientTypeOK
  <2> QED
    BY <2>1 DEF Wellformed, RequestsTypeOK, HttpRequests, Assumptions, ServerAssumption
<1>1. Linked(r)
  BY DEF Wellformed, Links
<1>2. Len(execs) + 1 \in Nat
  BY <1>0
<1>3. doubt = [doubt EXCEPT ![p.target] = @ + 0]
  BY <1>0
\* What Begin makes of a request.
<1>4. ASSUME NEW q, SameRequest(p, q)
      PROVE  LET f == [q EXCEPT !.exec = Len(execs) + 1] IN
               /\ SameRequest(p, f) /\ f.exec = Len(execs) + 1 /\ f.reply = q.reply
               /\ f.stage = q.stage /\ f.errors = q.errors
  BY <1>2, <1>4 DEF SameRequest, HttpRequests
<1>5. CASE Receive(r)
  <2> DEFINE q == [p EXCEPT !.stage = "handler"]
             f == [q EXCEPT !.exec = Len(execs) + 1]
  <2>1. /\ p.stage = "sent" /\ execs' = Append(execs, Started(r)) /\ http' = [http EXCEPT ![r] = f]
        /\ UNCHANGED <<built, call, faults, doubt>>
    BY <1>5 DEF Receive, Begin
  <2>2. /\ SameRequest(p, q) /\ q.stage = "handler" /\ q.reply = p.reply /\ q.errors = p.errors
    BY <1>0 DEF SameRequest, HttpRequests, Stages
  <2>3. p.reply # "ok" /\ p.errors < RetryCount
    BY <1>1, <2>1 DEF Linked
  <2> HIDE DEF q
  <2>4. /\ SameRequest(p, f) /\ f.exec = Len(execs) + 1 /\ f.reply # "ok"
        /\ f.stage = "handler" /\ f.errors < RetryCount
    BY <1>4, <2>2, <2>3
  <2> HIDE DEF f
  <2>5. BeginStep(r, f)
    BY <2>1, <2>4 DEF BeginStep
  <2> QED
    BY <2>5
<1>6. CASE Resubscribe(r)
  <2> DEFINE n == One(LastRetry(p))
             q == IF LastRetry(p) THEN Filtered(p, FALSE) ELSE [p EXCEPT !.stage = "handler"]
             f == [q EXCEPT !.exec = Len(execs) + 1]
  <2>1. /\ p.stage = "delay" /\ execs' = Append(execs, Started(r)) /\ http' = [http EXCEPT ![r] = f]
        /\ UNCHANGED <<built, call, faults>> /\ doubt' = [doubt EXCEPT ![p.target] = @ + n]
    BY <1>6 DEF Resubscribe, Begin, Doubt
  <2>2. p.reply # "ok"
    BY <1>1, <2>1 DEF Linked
  <2>3. /\ SameRequest(p, q) /\ q.reply # "ok" /\ q.errors = p.errors
        /\ q.stage = IF LastRetry(p) THEN "answered" ELSE "handler"
    <3>1. CASE LastRetry(p)
      BY <1>0, <2>2, <3>1, FilteredFacts
    <3>2. CASE ~LastRetry(p)
      BY <1>0, <2>2, <3>2 DEF SameRequest, HttpRequests, Stages
    <3> QED
      BY <3>1, <3>2
  <2>4. \/ q.stage = "handler" /\ q.errors < RetryCount /\ doubt' = doubt
        \/ q.stage = "answered" /\ doubt' = [doubt EXCEPT ![p.target] = @ + 1]
    <3>1. CASE LastRetry(p)
      BY <2>1, <2>3, <3>1 DEF One
    <3>2. CASE ~LastRetry(p)
      <4>1. n = 0 /\ p.errors < RetryCount
        BY <1>0, <3>2 DEF One, LastRetry
      <4> QED
        BY <1>3, <2>1, <2>3, <3>2, <4>1
    <3> QED
      BY <3>1, <3>2
  <2> HIDE DEF n, q
  <2>5. /\ SameRequest(p, f) /\ f.exec = Len(execs) + 1 /\ f.reply # "ok"
        /\ f.stage = q.stage /\ f.errors = q.errors
    BY <1>4, <2>3
  <2> HIDE DEF f
  <2>6. BeginStep(r, f)
    BY <2>1, <2>4, <2>5 DEF BeginStep
  <2> QED
    BY <2>6
\* The execution the response waits for.
<1>7. ASSUME p.stage = "handler"
      PROVE  /\ p.exec \in DOMAIN execs /\ ExecutionInv(e) /\ p.reply # "ok"
             /\ p.errors < RetryCount
  BY <1>1, <1>7 DEF Linked, Wellformed, Links
<1>8. CASE AnswerValue(r)
  <2> DEFINE q == [p EXCEPT !.stage = "answered", !.reply = "ok"]
  <2>1. /\ p.stage = "handler" /\ e.at = "value" /\ http' = [http EXCEPT ![r] = q]
        /\ UNCHANGED <<built, call, execs, faults, doubt>>
    BY <1>8 DEF AnswerValue, AnswerWith
  <2>2. SameRequest(p, q) /\ q.stage = "answered" /\ q.reply = "ok" /\ q.exec = p.exec
    BY <1>0 DEF SameRequest, HttpRequests, Stages
  <2>3. Committed(e)
    BY <1>7, <2>1 DEF ExecutionInv, Committed
  <2>4. doubt' = [doubt EXCEPT ![p.target] = @ + 0]
    BY <1>3, <2>1
  <2> HIDE DEF q
  <2>5. ReleaseStep(r, q)
    BY <1>0, <2>1, <2>2, <2>3, <2>4 DEF ReleaseStep
  <2> QED
    BY <2>5
<1>9. CASE HandlerError(r)
  <2> DEFINE n == One(Committed(e))
  <2>1. PICK domain \in BOOLEAN : AnswerWith(r, AfterError(p, domain))
    BY <1>9 DEF HandlerError
  <2> DEFINE q == AfterError(p, domain)
  <2>2. /\ p.stage = "handler" /\ e.at = "error" /\ http' = [http EXCEPT ![r] = q]
        /\ UNCHANGED <<built, call, execs, faults>> /\ doubt' = [doubt EXCEPT ![p.target] = @ + n]
    BY <1>9, <2>1 DEF HandlerError, AnswerWith, Doubt
  <2>3. /\ SameRequest(p, q) /\ q.exec = p.exec /\ q.reply # "ok"
        /\ q.stage \in {"delay", "silent", "answered"}
    BY <1>0, <1>7, <2>2, AfterErrorFacts
  <2>4. n \in Nat /\ (n >= 1 \/ ~(Running(e) \/ Committed(e)))
    BY <2>2 DEF One, Running
  <2> HIDE DEF n, q
  <2>5. ReleaseStep(r, q)
    BY <1>0, <2>2, <2>3, <2>4 DEF ReleaseStep
  <2> QED
    BY <2>5
<1>10. CASE ServerTimeout(r)
  <2> DEFINE q == AfterError(p, FALSE)
  <2>1. /\ p.stage = "handler" /\ http' = [http EXCEPT ![r] = q] /\ faults < MaxFaults
        /\ UNCHANGED <<built, call, execs>> /\ doubt' = [doubt EXCEPT ![p.target] = @ + 1]
        /\ faults' = faults + 1
    BY <1>10 DEF ServerTimeout, TimedOut, Fault, AnswerWith, Doubt
  <2>2. /\ SameRequest(p, q) /\ q.exec = p.exec /\ q.reply # "ok"
        /\ q.stage \in {"delay", "silent", "answered"}
    BY <1>0, <1>7, <2>1, AfterErrorFacts
  <2>3. faults' \in 0 .. MaxFaults
    BY <1>0, <2>1
  <2>4. \E n \in Nat : doubt' = [doubt EXCEPT ![p.target] = @ + n] /\ n >= 1
    <3> DEFINE counts(n) == doubt' = [doubt EXCEPT ![p.target] = @ + n]
    <3>1. counts(1) /\ 1 \in Nat /\ 1 >= 1
      BY <2>1
    <3> HIDE DEF counts
    <3>2. \E n \in Nat : counts(n) /\ n >= 1
      BY <3>1
    <3> QED
      BY <3>2 DEF counts
  <2> HIDE DEF q
  <2>5. ReleaseStep(r, q)
    BY <2>1, <2>2, <2>3, <2>4 DEF ReleaseStep
  <2> QED
    BY <2>5
<1> QED
  BY <1>5, <1>6, <1>8, <1>9, <1>10 DEF ServerStep

-----------------------------------------------------------------------------
(* Types and links                                                         *)

LEMMA SeqOfMore ==
  ASSUME NEW S, NEW T, S \subseteq T, NEW s \in Seq(S)
  PROVE  s \in Seq(T)
  OBVIOUS

\* What the types say, one by one.
LEMMA FormFacts ==
  ASSUME Wellformed
  PROVE  /\ built \in [Clients -> [target : Calls \cup {NoCall}, body : Calls \cup {NoCall}]]
         /\ call \in [Calls -> CallStates] /\ \A c \in Calls : call[c] \in CallStates
         /\ http \in Seq(HttpRequests)
         /\ \A r \in DOMAIN http : /\ http[r] \in HttpRequests /\ http[r].errors <= RetryCount
                                   /\ http[r].by \in Calls /\ http[r].target \in Calls /\ Linked(r)
         /\ execs \in Seq(Execution(DOMAIN http))
         /\ \A x \in DOMAIN execs : /\ execs[x] \in Execution(DOMAIN http)
                                    /\ execs[x].request \in DOMAIN http /\ ExecutionInv(execs[x])
         /\ faults \in 0 .. MaxFaults /\ doubt \in [Calls -> Nat]
         /\ \A c \in Calls : Addressed(c)
<1>1. /\ built \in [Clients -> [target : Calls \cup {NoCall}, body : Calls \cup {NoCall}]]
      /\ call \in [Calls -> CallStates] /\ http \in Seq(HttpRequests)
      /\ execs \in Seq(Execution(DOMAIN http)) /\ faults \in 0 .. MaxFaults
      /\ doubt \in [Calls -> Nat] /\ \A r \in DOMAIN http : http[r].errors <= RetryCount
      /\ \A r \in DOMAIN http : Linked(r)
      /\ \A c \in Calls : Addressed(c)
      /\ \A x \in DOMAIN execs : ExecutionInv(execs[x])
  BY DEF Wellformed, RequestsTypeOK, ClientTypeOK, Links
<1>2. \A r \in DOMAIN http : http[r] \in HttpRequests
  BY <1>1, MemberOfSeq
<1>3. \A r \in DOMAIN http : http[r].by \in Calls /\ http[r].target \in Calls
  BY <1>2 DEF HttpRequests
<1>4. \A x \in DOMAIN execs : execs[x] \in Execution(DOMAIN http)
  BY <1>1, MemberOfSeq
<1>5. \A x \in DOMAIN execs : execs[x].request \in DOMAIN http
  BY <1>4 DEF Execution
<1> QED
  BY <1>1, <1>2, <1>3, <1>4, <1>5

LEMMA PostKeepsForm ==
  ASSUME Assumptions, Wellformed, NEW c \in Calls, NEW t, PostStep(c, t),
         built' \in [Clients -> [target : Calls \cup {NoCall}, body : Calls \cup {NoCall}]]
  PROVE  Wellformed'
<1> DEFINE n == Len(http) + 1
           q == NewRequest(c, t)
<1>0. /\ call' \in [Calls -> CallStates] /\ http' = Append(http, q) /\ t \in Calls
      /\ doubt' \in [Calls -> Nat] /\ faults' \in 0 .. MaxFaults /\ execs' = execs
      /\ RetryCount \in Nat \ {0}
  BY FormFacts DEF PostStep, One, Assumptions, ServerAssumption
<1>1. /\ q \in HttpRequests /\ q.by = c /\ q.stage = "sent" /\ q.errors = 0 /\ q.reply = "none"
  BY <1>0 DEF NewRequest, HttpRequests, Stages
<1>2. call'[c].at = "flight" /\ call'[c].request = n
  BY DEF PostStep
<1> HIDE DEF q
<1>3. /\ http' \in Seq(HttpRequests) /\ n \in Nat
      /\ DOMAIN http' = DOMAIN http \cup {n} /\ n \notin DOMAIN http
      /\ \A r \in DOMAIN http : http'[r] = http[r]
      /\ http'[n] = q
  BY <1>0, <1>1, FormFacts, AppendedSeq
<1> HIDE DEF n
<1>4. RequestsTypeOK'
  <2>1. \A r \in DOMAIN http' : http'[r].errors <= RetryCount
    BY <1>0, <1>1, <1>3, FormFacts
  <2>2. execs' \in Seq(Execution(DOMAIN http'))
    <3>1. Execution(DOMAIN http) \subseteq Execution(DOMAIN http')
      BY <1>3 DEF Execution
    <3> QED
      BY <1>0, <3>1, FormFacts, SeqOfMore
  <2> QED
    BY <1>0, <1>3, <2>1, <2>2 DEF RequestsTypeOK, ClientTypeOK
<1>5. ASSUME NEW r \in DOMAIN http' PROVE Linked(r)'
  <2>1. CASE r = n
    BY <1>0, <1>1, <1>3, <2>1 DEF Linked
  <2>2. CASE r # n
    BY <1>0, <1>3, <2>2, FormFacts DEF Linked
  <2> QED
    BY <2>1, <2>2
<1>6. ASSUME NEW b \in Calls PROVE Addressed(b)'
  <2>1. CASE b = c
    BY <1>1, <1>2, <1>3, <2>1 DEF Addressed, RequestOf
  <2>2. CASE b # c
    <3>1. call'[b].at = call[b].at /\ call'[b].request = call[b].request
      BY <2>2 DEF PostStep, SameCall
    <3>2. Addressed(b)
      BY FormFacts
    <3> QED
      BY <1>3, <3>1, <3>2 DEF Addressed, RequestOf
  <2> QED
    BY <2>1, <2>2
<1>7. \A x \in DOMAIN execs' : ExecutionInv(execs'[x])
  BY <1>0, FormFacts
<1>8. Links'
  BY <1>5, <1>6, <1>7 DEF Links
<1> QED
  BY <1>4, <1>8 DEF Wellformed

LEMMA RejectKeepsForm ==
  ASSUME Assumptions, Wellformed, NEW c \in Calls, RejectStep(c),
         built' \in [Clients -> [target : Calls \cup {NoCall}, body : Calls \cup {NoCall}]]
  PROVE  Wellformed'
<1>0. /\ call' \in [Calls -> CallStates] /\ UNCHANGED <<http, execs, faults, doubt>>
  BY DEF RejectStep
<1>1. RequestsTypeOK'
  BY <1>0, FormFacts DEF RequestsTypeOK, ClientTypeOK
<1>2. \A r \in DOMAIN http' : Linked(r)'
  BY <1>0, FormFacts DEF Linked
<1>3. ASSUME NEW b \in Calls PROVE Addressed(b)'
  <2>1. CASE b = c
    BY <2>1 DEF RejectStep, Addressed
  <2>2. CASE b # c
    <3>1. call'[b].at = call[b].at /\ call'[b].request = call[b].request
      BY <2>2 DEF RejectStep, SameCall
    <3>2. Addressed(b)
      BY FormFacts
    <3> QED
      BY <1>0, <3>1, <3>2 DEF Addressed, RequestOf
  <2> QED
    BY <2>1, <2>2
<1>4. \A x \in DOMAIN execs' : ExecutionInv(execs'[x])
  BY <1>0, FormFacts
<1>5. Links'
  BY <1>2, <1>3, <1>4 DEF Links
<1> QED
  BY <1>1, <1>5 DEF Wellformed

LEMMA EndKeepsForm ==
  ASSUME Assumptions, Wellformed, NEW c \in Calls, EndStep(c)
  PROVE  Wellformed'
<1> DEFINE r == call[c].request
<1>0. /\ call' \in [Calls -> CallStates] /\ http' \in Seq(HttpRequests) /\ Len(http') = Len(http)
      /\ UNCHANGED <<built, execs>> /\ faults' \in 0 .. MaxFaults
      /\ \A q \in DOMAIN http \ {r} : http'[q] = http[q]
  BY DEF EndStep
<1>1. r \in DOMAIN http /\ http[r].by = c /\ http[r] \in HttpRequests
  <2>1. Addressed(c) /\ call[c].at \in {"flight", "body"}
    BY FormFacts DEF EndStep
  <2>2. r \in DOMAIN http /\ http[r].by = c
    BY <2>1 DEF Addressed, RequestOf
  <2> QED
    BY <2>2, FormFacts
<1>2. DOMAIN http' = DOMAIN http
  BY <1>0, FormFacts
<1>3. PICK s \in Stages :
        /\ http'[r] = [http[r] EXCEPT !.stage = s]
        /\ s = http[r].stage \/ (http[r].stage = "sent" /\ s = "lost")
  BY DEF EndStep
<1>4. /\ http'[r].by = http[r].by /\ http'[r].target = http[r].target
      /\ http'[r].reply = http[r].reply /\ http'[r].exec = http[r].exec
      /\ http'[r].errors = http[r].errors /\ http'[r].stage = s
  BY <1>1, <1>3 DEF HttpRequests
<1>5. doubt' \in [Calls -> Nat]
  <2>1. http[r].target \in Calls /\ doubt \in [Calls -> Nat]
    BY <1>1, FormFacts
  <2>2. PICK n \in Nat : doubt' = [doubt EXCEPT ![http[r].target] = @ + n]
    BY Zenon DEF EndStep
  <2>3. doubt[http[r].target] + n \in Nat
    BY <2>1, <2>2
  <2> QED
    BY <2>1, <2>2, <2>3
<1>6. RequestsTypeOK'
  <2>1. \A q \in DOMAIN http' : http'[q].errors <= RetryCount
    BY <1>0, <1>1, <1>2, <1>4, FormFacts
  <2>2. execs' \in Seq(Execution(DOMAIN http'))
    BY <1>0, <1>2, FormFacts
  <2> QED
    BY <1>0, <1>5, <2>1, <2>2, FormFacts DEF RequestsTypeOK, ClientTypeOK
<1> HIDE DEF r
<1>7. ASSUME NEW q \in DOMAIN http' PROVE Linked(q)'
  <2>0. Linked(q)
    BY <1>2, FormFacts
  <2>1. CASE q = r
    BY <1>0, <1>3, <1>4, <2>0, <2>1 DEF Linked
  <2>2. CASE q # r
    BY <1>0, <1>2, <2>0, <2>2 DEF Linked
  <2> QED
    BY <2>1, <2>2
<1>8. ASSUME NEW b \in Calls PROVE Addressed(b)'
  <2>0. Addressed(b)
    BY FormFacts
  <2>1. CASE b = c
    <3>1. call'[c].request = r /\ (call'[c].at = "body" => http'[r].stage = "answered")
      BY DEF EndStep, r
    <3> QED
      BY <1>1, <1>2, <1>4, <2>1, <3>1 DEF Addressed, RequestOf
  <2>2. CASE b # c
    <3>1. call'[b] = call[b]
      BY <2>2 DEF EndStep
    <3>2. call[b].at \in {"flight", "inner", "body"} => call[b].request # r
      BY <1>1, <2>0, <2>2 DEF Addressed, RequestOf
    <3> QED
      BY <1>0, <1>2, <2>0, <3>1, <3>2 DEF Addressed, RequestOf
  <2> QED
    BY <2>1, <2>2
<1>9. \A x \in DOMAIN execs' : ExecutionInv(execs'[x])
  BY <1>0, FormFacts
<1>10. Links'
  BY <1>7, <1>8, <1>9 DEF Links
<1> QED
  BY <1>6, <1>10 DEF Wellformed

\* A request that is rewritten in its place.
LEMMA Rewritten ==
  ASSUME Wellformed, NEW r \in DOMAIN http, NEW q, SameRequest(http[r], q),
         http' = [http EXCEPT ![r] = q]
  PROVE  /\ http' \in Seq(HttpRequests) /\ DOMAIN http' = DOMAIN http /\ http'[r] = q
         /\ \A p \in DOMAIN http \ {r} : http'[p] = http[p]
         /\ \A p \in DOMAIN http : /\ http'[p].by = http[p].by /\ http'[p].target = http[p].target
                                   /\ http'[p].errors <= RetryCount
<1>1. q \in HttpRequests
  BY DEF SameRequest
<1>2. /\ http' \in Seq(HttpRequests) /\ DOMAIN http' = DOMAIN http /\ http'[r] = q
      /\ \A p \in DOMAIN http \ {r} : http'[p] = http[p]
  BY <1>1, FormFacts, UpdatedSeq
<1> QED
  BY <1>2, FormFacts DEF SameRequest

LEMMA BeginKeepsForm ==
  ASSUME Assumptions, Wellformed, NEW r \in DOMAIN http, NEW q, BeginStep(r, q)
  PROVE  Wellformed'
<1> DEFINE n == Len(execs) + 1
           e == Started(r)
<1>0. /\ SameRequest(http[r], q) /\ http' = [http EXCEPT ![r] = q] /\ q.exec = n
      /\ q.reply # "ok" /\ q.stage \in {"handler", "answered"}
      /\ q.stage = "handler" => q.errors < RetryCount
      /\ UNCHANGED <<built, call, faults>> /\ execs' = Append(execs, e)
      /\ http[r].stage \in {"sent", "delay"}
  BY DEF BeginStep
<1>1. /\ http' \in Seq(HttpRequests) /\ DOMAIN http' = DOMAIN http /\ http'[r] = q
      /\ \A p \in DOMAIN http \ {r} : http'[p] = http[p]
      /\ \A p \in DOMAIN http : /\ http'[p].by = http[p].by /\ http'[p].target = http[p].target
                                /\ http'[p].errors <= RetryCount
  BY <1>0, Rewritten
<1>2. e \in Execution(DOMAIN http) /\ ExecutionInv(e) /\ e.request = r
  <2>1. r \in Nat
    BY FormFacts
  <2>2. /\ e \in Execution(Nat) /\ ExecutionInv(e) /\ e.request = r
    BY <2>1, StartedOK DEF Assumptions, ExecutionOK
  <2> QED
    BY <2>2 DEF Execution
<1> HIDE DEF e
<1>3. /\ execs' \in Seq(Execution(DOMAIN http)) /\ DOMAIN execs' = DOMAIN execs \cup {n}
      /\ n \notin DOMAIN execs /\ execs'[n] = e /\ \A x \in DOMAIN execs : execs'[x] = execs[x]
  BY <1>0, <1>2, FormFacts, AppendedSeq
<1>4. doubt' \in [Calls -> Nat]
  <2>1. http[r].target \in Calls /\ doubt \in [Calls -> Nat]
    BY FormFacts
  <2> QED
    BY <2>1 DEF BeginStep
<1> HIDE DEF n
<1>5. RequestsTypeOK'
  BY <1>0, <1>1, <1>3, <1>4, FormFacts DEF RequestsTypeOK, ClientTypeOK
<1>6. ASSUME NEW p \in DOMAIN http' PROVE Linked(p)'
  <2>0. p \in DOMAIN http /\ Linked(p)
    BY <1>1, FormFacts
  <2>1. CASE p = r
    BY <1>0, <1>1, <1>2, <1>3, <2>1 DEF Linked
  <2>2. CASE p # r
    BY <1>1, <1>3, <2>0, <2>2 DEF Linked
  <2> QED
    BY <2>1, <2>2
<1>7. ASSUME NEW c \in Calls PROVE Addressed(c)'
  <2>0. Addressed(c)
    BY FormFacts
  <2>1. call[c].at \in {"flight", "inner", "body"} =>
          call[c].request \in DOMAIN http' /\ http'[call[c].request].by = c
    BY <1>1, <2>0 DEF Addressed, RequestOf
  <2>2. call[c].at = "body" => http'[call[c].request].stage = "answered"
    <3>1. call[c].at = "body" => call[c].request \in DOMAIN http /\ call[c].request # r
      BY <1>0, <2>0 DEF Addressed, RequestOf
    <3> QED
      BY <1>1, <2>0, <3>1 DEF Addressed, RequestOf
  <2> QED
    BY <1>0, <2>1, <2>2 DEF Addressed, RequestOf
<1>8. \A x \in DOMAIN execs' : ExecutionInv(execs'[x])
  BY <1>2, <1>3, FormFacts
<1>9. Links'
  BY <1>6, <1>7, <1>8 DEF Links
<1> QED
  BY <1>5, <1>9 DEF Wellformed

LEMMA ReleaseKeepsForm ==
  ASSUME Assumptions, Wellformed, NEW r \in DOMAIN http, NEW q, ReleaseStep(r, q)
  PROVE  Wellformed'
<1>0. /\ SameRequest(http[r], q) /\ http' = [http EXCEPT ![r] = q]
      /\ q.stage \in {"delay", "silent", "answered"}
      /\ q.reply = "ok" => q.stage = "answered"
      /\ UNCHANGED <<built, call, execs>> /\ faults' \in 0 .. MaxFaults
      /\ http[r].stage = "handler"
  BY DEF ReleaseStep
<1>1. /\ http' \in Seq(HttpRequests) /\ DOMAIN http' = DOMAIN http /\ http'[r] = q
      /\ \A p \in DOMAIN http \ {r} : http'[p] = http[p]
      /\ \A p \in DOMAIN http : /\ http'[p].by = http[p].by /\ http'[p].target = http[p].target
                                /\ http'[p].errors <= RetryCount
  BY <1>0, Rewritten
<1>2. doubt' \in [Calls -> Nat]
  <2>1. http[r].target \in Calls /\ doubt \in [Calls -> Nat]
    BY FormFacts
  <2> QED
    BY <2>1 DEF ReleaseStep
<1>3. RequestsTypeOK'
  BY <1>0, <1>1, <1>2, FormFacts DEF RequestsTypeOK, ClientTypeOK
<1>4. ASSUME NEW p \in DOMAIN http' PROVE Linked(p)'
  <2>0. p \in DOMAIN http /\ Linked(p)
    BY <1>1, FormFacts
  <2>1. CASE p = r
    BY <1>0, <1>1, <2>1 DEF Linked
  <2>2. CASE p # r
    BY <1>0, <1>1, <2>0, <2>2 DEF Linked
  <2> QED
    BY <2>1, <2>2
<1>5. ASSUME NEW c \in Calls PROVE Addressed(c)'
  <2>0. Addressed(c)
    BY FormFacts
  <2>1. call[c].at \in {"flight", "inner", "body"} =>
          call[c].request \in DOMAIN http' /\ http'[call[c].request].by = c
    BY <1>1, <2>0 DEF Addressed, RequestOf
  <2>2. call[c].at = "body" => http'[call[c].request].stage = "answered"
    <3>1. call[c].at = "body" => call[c].request \in DOMAIN http /\ call[c].request # r
      BY <1>0, <2>0 DEF Addressed, RequestOf
    <3> QED
      BY <1>1, <2>0, <3>1 DEF Addressed, RequestOf
  <2> QED
    BY <1>0, <2>1, <2>2 DEF Addressed, RequestOf
<1>6. \A x \in DOMAIN execs' : ExecutionInv(execs'[x])
  BY <1>0, FormFacts
<1>7. Links'
  BY <1>4, <1>5, <1>6 DEF Links
<1> QED
  BY <1>3, <1>7 DEF Wellformed

\* One execution takes a step, and nothing else happens.
ExecutionStep(x) ==
  /\ \E f : execs' = [execs EXCEPT ![x] = f] /\ Advances(execs[x], f)
  /\ faults' \in 0 .. MaxFaults
  /\ UNCHANGED <<built, call, http, doubt>>

LEMMA ExecutionShape ==
  ASSUME Assumptions, Wellformed, NEW x \in DOMAIN execs, Execute(x) \/ ExecutionFails(x)
  PROVE  ExecutionStep(x)
<1>1. ExecutionOK(execs[x])
  <2>1. execs[x] \in Execution(DOMAIN http) /\ ExecutionInv(execs[x]) /\ DOMAIN http \subseteq Nat
    BY FormFacts
  <2> QED
    BY <2>1 DEF ExecutionOK, Execution
<1>2. /\ Runs(x) \/ Fails(x)
      /\ UNCHANGED <<built, call, http, doubt>>
      /\ faults' = faults \/ Fault
  BY DEF Execute, ExecutionFails, clientVars
<1>3. faults' \in 0 .. MaxFaults
  BY <1>2, FormFacts DEF Fault, Assumptions, ServerAssumption
<1> QED
  BY <1>1, <1>2, <1>3, StepAdvances DEF ExecutionStep, Assumptions

LEMMA ExecutionKeepsForm ==
  ASSUME Assumptions, Wellformed, NEW x \in DOMAIN execs, ExecutionStep(x)
  PROVE  Wellformed'
<1>1. PICK f : execs' = [execs EXCEPT ![x] = f] /\ Advances(execs[x], f)
  BY DEF ExecutionStep
<1>2. f \in Execution(DOMAIN http) /\ ExecutionInv(f) /\ f.request = execs[x].request
  <2>1. f \in Execution(Nat) /\ ExecutionInv(f) /\ f.request = execs[x].request
    BY <1>1 DEF Advances, ExecutionOK
  <2>2. f.request \in DOMAIN http
    BY <2>1, FormFacts
  <2> QED
    BY <2>1, <2>2 DEF Execution
<1>3. /\ execs' \in Seq(Execution(DOMAIN http)) /\ DOMAIN execs' = DOMAIN execs
      /\ execs'[x] = f /\ \A y \in DOMAIN execs \ {x} : execs'[y] = execs[y]
  BY <1>1, <1>2, FormFacts, UpdatedSeq
<1>4. faults' \in 0 .. MaxFaults /\ UNCHANGED <<built, call, http, doubt>>
  BY DEF ExecutionStep
<1>5. RequestsTypeOK'
  BY <1>3, <1>4, FormFacts DEF RequestsTypeOK, ClientTypeOK
<1>6. ASSUME NEW r \in DOMAIN http' PROVE Linked(r)'
  <2>1. Linked(r) /\ \A y \in DOMAIN execs : execs'[y].request = execs[y].request
    BY <1>2, <1>3, <1>4, FormFacts
  <2> QED
    BY <1>3, <1>4, <2>1 DEF Linked
<1>7. \A c \in Calls : Addressed(c)'
  BY <1>4, FormFacts DEF Addressed, RequestOf
<1>8. \A y \in DOMAIN execs' : ExecutionInv(execs'[y])
  BY <1>2, <1>3, FormFacts
<1>9. Links'
  BY <1>6, <1>7, <1>8 DEF Links
<1> QED
  BY <1>5, <1>9 DEF Wellformed

-----------------------------------------------------------------------------
(* Whose request a call sends                                              *)

\* What a step of one call leaves of the others, and of its own.
LEMMA OthersStay ==
  ASSUME Wellformed, NEW c \in Calls, NEW t, PostStep(c, t) \/ RejectStep(c)
  PROVE  /\ \A b \in Calls : /\ call'[b].client = call[b].client
                             /\ call[b].reused => call'[b].reused
         /\ \A b \in Calls \ {c} : call'[b].at = call[b].at
         /\ call'[c].reused = call[c].reused
         /\ call[c].at \in {"new", "backoff", "inner"} /\ call'[c].at # "new"
  BY DEF PostStep, RejectStep, SameCall

LEMMA SendKeepsOwned ==
  ASSUME Assumptions, Wellformed, Owned, NEW c \in Calls, Configures(c), NEW t,
         t = built'[call[c].client].target,
         PostStep(c, t) \/ RejectStep(c), call[c].at # "inner"
  PROVE  Owned'
<1> DEFINE k == call[c].client
<1>0. /\ \A b \in Calls : call[b].client \in Clients /\ call[b].reused \in BOOLEAN
      /\ \A b \in Calls : call'[b].client = call[b].client
      /\ \A b \in Calls : call[b].reused => call'[b].reused
      /\ \A b \in Calls \ {c} : call'[b].at = call[b].at
      /\ call'[c].reused = call[c].reused
      /\ call[c].at \in {"new", "backoff"} /\ call'[c].at # "new"
  <2>1. \A b \in Calls : call[b].client \in Clients /\ call[b].reused \in BOOLEAN
    BY FormFacts DEF CallStates
  <2> QED
    BY <2>1, OthersStay
<1>1. \/ call[c].at = "backoff" /\ built' = built
      \/ /\ call[c].at = "new" /\ built'[k].target = c
         /\ \A l \in Clients \ {k} : built'[l] = built[l]
         /\ \A b \in Calls \ {c} : Active(b) /\ call[b].client = k => call'[b].reused
  BY <1>0 DEF Configures
<1>2. /\ \A b \in Calls : call[b].at # "new" => built[call[b].client].target \in Calls
      /\ \A b \in Calls : Active(b) /\ ~call[b].reused => built[call[b].client].target = b
      /\ \A r \in DOMAIN http : http[r].target # http[r].by => call[http[r].by].reused
  BY DEF Owned, RequestsAreOwn
<1>3. ASSUME NEW b \in Calls, call'[b].at # "new"
      PROVE  built'[call'[b].client].target \in Calls
  BY <1>0, <1>1, <1>2, <1>3
<1>4. ASSUME NEW b \in Calls, Active(b)', ~call'[b].reused
      PROVE  built'[call'[b].client].target = b
  <2>1. CASE b = c
    BY <1>0, <1>1, <1>2, <1>4, <2>1 DEF Active
  <2>2. CASE b # c
    <3>1. Active(b) /\ ~call[b].reused
      BY <1>0, <1>4, <2>2 DEF Active
    <3> QED
      BY <1>0, <1>1, <1>2, <1>4, <2>2, <3>1
  <2> QED
    BY <2>1, <2>2
<1>5. t # c => call[c].reused
  BY <1>0, <1>1, <1>2 DEF Active
<1>6. ASSUME NEW r \in DOMAIN http', http'[r].target # http'[r].by
      PROVE  call'[http'[r].by].reused
  <2>1. CASE PostStep(c, t)
    <3> DEFINE n == Len(http) + 1
    <3>1. http' = Append(http, NewRequest(c, t)) /\ http \in Seq(HttpRequests)
      BY <2>1, FormFacts DEF PostStep
    <3>2. CASE r = n
      <4>1. http'[r] = NewRequest(c, t)
        BY <3>1, <3>2
      <4> QED
        BY <1>0, <1>5, <1>6, <4>1 DEF NewRequest
    <3>3. CASE r # n
      <4>1. r \in DOMAIN http /\ http'[r] = http[r]
        BY <3>1, <3>3
      <4> QED
        BY <1>0, <1>2, <1>6, <4>1, FormFacts
    <3> QED
      BY <3>2, <3>3
  <2>2. CASE RejectStep(c)
    BY <1>0, <1>2, <1>6, <2>2, FormFacts DEF RejectStep
  <2> QED
    BY <2>1, <2>2
<1> QED
  BY <1>3, <1>4, <1>6 DEF Owned, RequestsAreOwn

LEMMA ResendKeepsOwned ==
  ASSUME Assumptions, Wellformed, Owned, NEW c \in Calls, PostStep(c, RequestOf(c).target),
         built' = built, call[c].request \in DOMAIN http, RequestOf(c).by = c,
         call[c].at = "inner"
  PROVE  Owned'
<1> DEFINE n == Len(http) + 1
           t == RequestOf(c).target
<1>0. /\ \A b \in Calls : call'[b].client = call[b].client
      /\ \A b \in Calls : call[b].reused => call'[b].reused
      /\ \A b \in Calls \ {c} : call'[b].at = call[b].at
      /\ call'[c].reused = call[c].reused
      /\ http' = Append(http, NewRequest(c, t)) /\ http \in Seq(HttpRequests)
      /\ \A b \in Calls : call[b].reused \in BOOLEAN
  <2>1. \A b \in Calls : call[b].reused \in BOOLEAN
    BY FormFacts DEF CallStates
  <2>2. http' = Append(http, NewRequest(c, t)) /\ http \in Seq(HttpRequests)
    BY FormFacts DEF PostStep
  <2> QED
    BY <2>1, <2>2, OthersStay
<1>2. /\ \A b \in Calls : call[b].at # "new" => built[call[b].client].target \in Calls
      /\ \A b \in Calls : Active(b) /\ ~call[b].reused => built[call[b].client].target = b
      /\ \A r \in DOMAIN http : http[r].target # http[r].by => call[http[r].by].reused
  BY DEF Owned, RequestsAreOwn
<1>3. ASSUME NEW b \in Calls, call'[b].at # "new"
      PROVE  built'[call'[b].client].target \in Calls
  BY <1>0, <1>2, <1>3
<1>4. ASSUME NEW b \in Calls, Active(b)', ~call'[b].reused
      PROVE  built'[call'[b].client].target = b
  BY <1>0, <1>2, <1>4 DEF Active
<1>5. t # c => call[c].reused
  BY <1>2 DEF RequestOf
<1>6. ASSUME NEW r \in DOMAIN http', http'[r].target # http'[r].by
      PROVE  call'[http'[r].by].reused
  <2> HIDE DEF t
  <2>2. CASE r = n
    <3>1. http'[r] = NewRequest(c, t)
      BY <1>0, <2>2
    <3> QED
      BY <1>0, <1>5, <1>6, <3>1 DEF NewRequest
  <2>3. CASE r # n
    <3>1. r \in DOMAIN http /\ http'[r] = http[r]
      BY <1>0, <2>3
    <3> QED
      BY <1>0, <1>2, <1>6, <3>1, FormFacts
  <2> QED
    BY <2>2, <2>3
<1> QED
  BY <1>3, <1>4, <1>6 DEF Owned, RequestsAreOwn

\* The other steps change neither the clients nor who has sent what.
LEMMA OwnedStays ==
  ASSUME Wellformed, Owned, built' = built, DOMAIN http' = DOMAIN http,
         \A r \in DOMAIN http : http'[r].by = http[r].by /\ http'[r].target = http[r].target,
         \A c \in Calls : /\ call'[c].client = call[c].client
                          /\ call'[c].reused = call[c].reused
                          /\ call'[c].at # "new" => call[c].at # "new"
                          /\ Active(c)' => Active(c)
  PROVE  Owned'
<1>1. /\ \A b \in Calls : call[b].at # "new" => built[call[b].client].target \in Calls
      /\ \A b \in Calls : Active(b) /\ ~call[b].reused => built[call[b].client].target = b
      /\ \A r \in DOMAIN http : http[r].target # http[r].by => call[http[r].by].reused
  BY DEF Owned, RequestsAreOwn
<1>2. /\ \A b \in Calls : call'[b].at # "new" => built'[call'[b].client].target \in Calls
      /\ \A b \in Calls : Active(b)' /\ ~call'[b].reused => built'[call'[b].client].target = b
  BY <1>1
<1>3. \A r \in DOMAIN http' : http'[r].target # http'[r].by => call'[http'[r].by].reused
  BY <1>1, FormFacts
<1> QED
  BY <1>2, <1>3 DEF Owned, RequestsAreOwn

\* A request that only changes its stage.
LEMMA EndFacts ==
  ASSUME Wellformed, NEW c \in Calls, EndStep(c)
  PROVE  /\ call[c].request \in DOMAIN http /\ DOMAIN http' = DOMAIN http
         /\ RequestOf(c).by = c
         /\ \A p \in DOMAIN http \ {call[c].request} : http'[p] = http[p]
         /\ \A p \in DOMAIN http : /\ http'[p].by = http[p].by /\ http'[p].target = http[p].target
                                   /\ http'[p].reply = http[p].reply /\ http'[p].exec = http[p].exec
                                   /\ \/ http'[p].stage = http[p].stage
                                      \/ http[p].stage = "sent" /\ http'[p].stage = "lost"
<1> DEFINE r == call[c].request
<1>0. /\ Len(http') = Len(http) /\ http' \in Seq(HttpRequests)
      /\ \A p \in DOMAIN http \ {r} : http'[p] = http[p]
  BY DEF EndStep
<1>1. r \in DOMAIN http /\ RequestOf(c).by = c /\ http[r] \in HttpRequests
  <2>1. Addressed(c) /\ call[c].at \in {"flight", "body"}
    BY FormFacts DEF EndStep
  <2>2. r \in DOMAIN http /\ RequestOf(c).by = c
    BY <2>1 DEF Addressed
  <2> QED
    BY <2>2, FormFacts
<1>2. DOMAIN http' = DOMAIN http
  BY <1>0, FormFacts
<1>3. PICK s \in Stages :
        /\ http'[r] = [http[r] EXCEPT !.stage = s]
        /\ s = http[r].stage \/ (http[r].stage = "sent" /\ s = "lost")
  BY DEF EndStep
<1>4. /\ http'[r].by = http[r].by /\ http'[r].target = http[r].target
      /\ http'[r].reply = http[r].reply /\ http'[r].exec = http[r].exec
      /\ http'[r].stage = s
  BY <1>1, <1>3 DEF HttpRequests
<1> HIDE DEF r
<1>5. ASSUME NEW p \in DOMAIN http
      PROVE  /\ http'[p].by = http[p].by /\ http'[p].target = http[p].target
             /\ http'[p].reply = http[p].reply /\ http'[p].exec = http[p].exec
             /\ \/ http'[p].stage = http[p].stage
                \/ http[p].stage = "sent" /\ http'[p].stage = "lost"
  BY <1>0, <1>3, <1>4
<1> QED
  BY <1>0, <1>1, <1>2, <1>5 DEF r

LEMMA EndKeepsOwned ==
  ASSUME Assumptions, Wellformed, Owned, NEW c \in Calls, EndStep(c)
  PROVE  Owned'
<1>1. built' = built /\ call[c].at \in {"flight", "body"}
  BY DEF EndStep
<1>2. \A b \in Calls : /\ call'[b].client = call[b].client
                       /\ call'[b].reused = call[b].reused
                       /\ call'[b].at # "new" => call[b].at # "new"
                       /\ Active(b)' => Active(b)
  BY <1>1 DEF EndStep, Active
<1> QED
  BY <1>1, <1>2, EndFacts, OwnedStays

LEMMA ServerKeepsOwned ==
  ASSUME Assumptions, Wellformed, Owned, NEW r \in DOMAIN http, NEW q,
         BeginStep(r, q) \/ ReleaseStep(r, q)
  PROVE  Owned'
<1>1. /\ SameRequest(http[r], q) /\ http' = [http EXCEPT ![r] = q] /\ UNCHANGED <<built, call>>
  BY DEF BeginStep, ReleaseStep
<1>2. /\ DOMAIN http' = DOMAIN http
      /\ \A p \in DOMAIN http : http'[p].by = http[p].by /\ http'[p].target = http[p].target
  BY <1>1, Rewritten
<1> QED
  BY <1>1, <1>2, OwnedStays DEF Active

-----------------------------------------------------------------------------
(* How many requests a call sends                                          *)

\* What lies in a sequence's domain can be counted.
LEMMA CountedIn ==
  ASSUME NEW S, NEW s \in Seq(S), NEW T, T \subseteq DOMAIN s
  PROVE  IsFiniteSet(T) /\ Cardinality(T) \in Nat
<1>1. IsFiniteSet(DOMAIN s)
  <2>1. DOMAIN s = 1 .. Len(s) /\ Len(s) \in Int /\ 1 \in Int
    OBVIOUS
  <2> QED
    BY <2>1, FS_Interval
<1> QED
  BY <1>1, FS_Subset, FS_CardinalityType

LEMMA OneMore ==
  ASSUME NEW S, NEW T, NEW x, IsFiniteSet(S), T \subseteq S \cup {x}
  PROVE  /\ Cardinality(T) \in Nat /\ Cardinality(S) \in Nat
         /\ Cardinality(T) <= Cardinality(S) + 1
<1>1. /\ IsFiniteSet(S \cup {x}) /\ Cardinality(S) \in Nat
      /\ Cardinality(S \cup {x}) = IF x \in S THEN Cardinality(S) ELSE Cardinality(S) + 1
  BY FS_AddElement, FS_CardinalityType
<1>2. IsFiniteSet(T) /\ Cardinality(T) <= Cardinality(S \cup {x})
  BY <1>1, FS_Subset
<1>3. Cardinality(T) \in Nat /\ Cardinality(S \cup {x}) \in Nat
  BY <1>1, <1>2, FS_CardinalityType
<1> QED
  BY <1>1, <1>2, <1>3

LEMMA OneLess ==
  ASSUME NEW S, NEW T, NEW x \in S, IsFiniteSet(S), T \subseteq S \ {x}
  PROVE  /\ Cardinality(T) \in Nat /\ Cardinality(S) \in Nat
         /\ Cardinality(T) + 1 <= Cardinality(S)
<1>1. /\ IsFiniteSet(S \ {x}) /\ Cardinality(S) \in Nat
      /\ Cardinality(S \ {x}) = Cardinality(S) - 1
  BY FS_RemoveElement, FS_CardinalityType
<1>2. IsFiniteSet(T) /\ Cardinality(T) <= Cardinality(S \ {x})
  BY <1>1, FS_Subset
<1>3. Cardinality(T) \in Nat /\ Cardinality(S \ {x}) \in Nat
  BY <1>1, <1>2, FS_CardinalityType
<1> QED
  BY <1>1, <1>2, <1>3

LEMMA NoneMore ==
  ASSUME NEW S, NEW T, IsFiniteSet(S), T \subseteq S
  PROVE  /\ Cardinality(T) \in Nat /\ Cardinality(S) \in Nat
         /\ Cardinality(T) <= Cardinality(S)
  BY FS_Subset, FS_CardinalityType

LEMMA TimesMonotone ==
  ASSUME NEW a \in Nat, NEW m \in Nat, NEW n \in Nat, m <= n
  PROVE  a * m \in Nat /\ a * n \in Nat /\ a * m <= a * n
<1>1. PICK k \in Nat : n = m + k
  <2>1. n - m \in Nat /\ n = m + (n - m)
    OBVIOUS
  <2> QED
    BY <2>1
<1>2. a * (m + k) = a * m + a * k /\ a * m \in Nat /\ a * k \in Nat
  OBVIOUS
<1> QED
  BY <1>1, <1>2

\* A retry within an attempt is one of those that PerAttempt counts.
LEMMA PerAttemptFacts ==
  ASSUME Assumptions, Wellformed, NEW c \in Calls, Budgeted(c)
  PROVE  PerAttempt(c) \in Nat /\ call[c].inner + 1 <= PerAttempt(c)
<1>1. call[c].inner \in 0 .. GotLimit /\ GotLimit \in Nat
  BY FormFacts DEF CallStates, Assumptions, ClientAssumption
<1> QED
  BY <1>1 DEF Budgeted, PerAttempt

\* The ways in which a call, and the number of its requests, may move.
Sending(c) ==
  /\ Cardinality(SentBy(c)') <= Cardinality(SentBy(c)) + 1
  /\ call'[c].attempt = call[c].attempt /\ call'[c].inner = call[c].inner
  /\ call[c].at \in {"new", "backoff", "inner"} /\ call'[c].at = "flight"

Moving(c) ==
  /\ Cardinality(SentBy(c)') <= Cardinality(SentBy(c))
  /\ \/ /\ call'[c].attempt = call[c].attempt /\ call'[c].inner = call[c].inner
        /\ call'[c].at \notin {"new", "backoff", "inner"} \/ call'[c].at = call[c].at
     \/ /\ call'[c].attempt = call[c].attempt + 1 /\ call'[c].inner = 0
        /\ call'[c].at = "backoff"
     \/ /\ call'[c].attempt = call[c].attempt /\ call'[c].inner = call[c].inner + 1
        /\ call'[c].at = "inner"
        /\ KindOf[call[c].client] = "got" /\ SendsGet(c)'

LEMMA BudgetMoves ==
  ASSUME Assumptions, Wellformed, Wellformed', NEW c \in Calls, Budgeted(c),
         call'[c].client = call[c].client, SendsGet(c) => SendsGet(c)',
         Cardinality(SentBy(c)) \in Nat, Cardinality(SentBy(c)') \in Nat,
         Sending(c) \/ Moving(c)
  PROVE  Budgeted(c)'
<1> DEFINE a == call[c].attempt
           i == call[c].inner
           m == PerAttempt(c)
           k == PerAttempt(c)'
           w == One(call[c].at \notin {"new", "backoff", "inner"})
           v == One(call'[c].at \notin {"new", "backoff", "inner"})
           s == Cardinality(SentBy(c))
           z == Cardinality(SentBy(c)')
<1>1. /\ a \in Nat /\ i \in Nat /\ m \in Nat /\ i + 1 <= m /\ GotLimit \in Nat
  BY FormFacts, PerAttemptFacts DEF CallStates, Assumptions, ClientAssumption, PolicyIsValid
<1>2. k \in Nat /\ m <= k
  BY <1>1 DEF PerAttempt
<1>3. s <= a * m + (i + w) /\ (i > 0 => KindOf[call[c].client] = "got" /\ SendsGet(c))
  BY DEF Budgeted, ThisAttempt
<1>4. /\ a * m \in Nat /\ a * k \in Nat /\ a * m <= a * k
      /\ (a + 1) * k = a * k + k
  <2>1. a * m \in Nat /\ a * k \in Nat /\ a * m <= a * k
    BY <1>1, <1>2, TimesMonotone
  <2> HIDE DEF a, k
  <2>2. (a + 1) * k = a * k + k
    BY <1>1, <1>2
  <2> QED
    BY <2>1, <2>2
<1>5. w \in {0, 1} /\ v \in {0, 1}
  BY DEF One
<1>6. z \in Nat /\ s \in Nat
  OBVIOUS
<1>7. /\ call'[c].inner > 0 => KindOf[call'[c].client] = "got" /\ SendsGet(c)'
      /\ z <= call'[c].attempt * k + (call'[c].inner + v)
  <2>1. CASE Sending(c)
    <3>1. w = 0 /\ v = 1 /\ z <= s + 1 /\ call'[c].attempt = a /\ call'[c].inner = i
      BY <2>1 DEF Sending, One
    <3> HIDE DEF a, i, m, k, w, v, s, z
    <3>2. z <= a * k + (i + v)
      BY <1>1, <1>2, <1>3, <1>4, <1>6, <3>1
    <3> QED
      BY <1>3, <3>1, <3>2
  <2>2. CASE Moving(c)
    <3>0. z <= s
      BY <2>2 DEF Moving
    <3>1. CASE /\ call'[c].attempt = a /\ call'[c].inner = i
               /\ call'[c].at \notin {"new", "backoff", "inner"} \/ call'[c].at = call[c].at
      <4>1. w <= v
        BY <3>1 DEF One
      <4> HIDE DEF a, i, m, k, w, v, s, z
      <4>2. z <= a * k + (i + v)
        BY <1>1, <1>2, <1>3, <1>4, <1>5, <1>6, <3>0, <4>1
      <4> QED
        BY <1>3, <3>1, <4>2
    <3>2. CASE call'[c].attempt = a + 1 /\ call'[c].inner = 0
      <4> HIDE DEF a, i, m, k, w, v, s, z
      <4>1. z <= a * k + k
        BY <1>1, <1>2, <1>3, <1>4, <1>5, <1>6, <3>0
      <4>2. z <= (a + 1) * k + (0 + v)
        BY <1>2, <1>4, <1>5, <1>6, <4>1
      <4> QED
        BY <1>3, <3>2, <4>2
    <3>3. CASE /\ call'[c].attempt = a /\ call'[c].inner = i + 1
               /\ KindOf[call[c].client] = "got" /\ SendsGet(c)'
      <4> HIDE DEF a, i, m, k, w, v, s, z
      <4>1. z <= a * k + ((i + 1) + v)
        BY <1>1, <1>2, <1>3, <1>4, <1>5, <1>6, <3>0
      <4> QED
        BY <1>3, <3>3, <4>1
    <3> QED
      BY <2>2, <3>1, <3>2, <3>3 DEF Moving
  <2> QED
    BY <2>1, <2>2
<1> QED
  BY <1>7 DEF Budgeted, ThisAttempt

LEMMA SentIsCounted ==
  ASSUME Wellformed, NEW c \in Calls
  PROVE  IsFiniteSet(SentBy(c)) /\ Cardinality(SentBy(c)) \in Nat
<1>1. SentBy(c) \subseteq DOMAIN http /\ http \in Seq(HttpRequests)
  BY FormFacts DEF SentBy
<1> QED
  BY <1>1, CountedIn

LEMMA PostKeepsBudget ==
  ASSUME Assumptions, Wellformed, Wellformed', NEW c \in Calls, NEW t, PostStep(c, t),
         \A b \in Calls : Budgeted(b), NEW b \in Calls
  PROVE  Budgeted(b)'
<1> DEFINE n == Len(http) + 1
<1>1. /\ http \in Seq(HttpRequests) /\ http' = Append(http, NewRequest(c, t))
  BY FormFacts DEF PostStep
<1>2. /\ DOMAIN http' = DOMAIN http \cup {n} /\ n \notin DOMAIN http
      /\ http'[n] = NewRequest(c, t) /\ \A r \in DOMAIN http : http'[r] = http[r]
  BY <1>1
<1> HIDE DEF n
<1>3. NewRequest(c, t).by = c
  BY DEF NewRequest
<1>4. SentBy(b) \subseteq SentBy(b)' /\ SentBy(b)' \subseteq SentBy(b) \cup {n}
      /\ (b # c => SentBy(b)' \subseteq SentBy(b))
  BY <1>2, <1>3 DEF SentBy
<1>5. SendsGet(b) => SendsGet(b)'
  <2>1. SentBy(b) \subseteq DOMAIN http
    BY DEF SentBy
  <2> QED
    BY <1>2, <1>4, <2>1 DEF SendsGet
<1>6. /\ IsFiniteSet(SentBy(b)) /\ Cardinality(SentBy(b)) \in Nat
      /\ Cardinality(SentBy(b)') \in Nat
  <2>1. Cardinality(SentBy(b)') \in Nat
    BY <1>4, SentIsCounted, OneMore
  <2> QED
    BY <2>1, SentIsCounted
<1>7. CASE b = c
  <2>1. Cardinality(SentBy(b)') <= Cardinality(SentBy(b)) + 1
    BY <1>4, <1>6, OneMore
  <2>2. Sending(b) /\ call'[b].client = call[b].client
    BY <1>7, <2>1 DEF Sending, PostStep
  <2> QED
    BY <1>5, <1>6, <2>2, BudgetMoves
<1>8. CASE b # c
  <2>1. Cardinality(SentBy(b)') <= Cardinality(SentBy(b))
    BY <1>4, <1>6, <1>8, NoneMore
  <2>2. Moving(b) /\ call'[b].client = call[b].client
    BY <1>8, <2>1 DEF Moving, PostStep, SameCall
  <2> QED
    BY <1>5, <1>6, <2>2, BudgetMoves
<1> QED
  BY <1>7, <1>8

\* A step that sends no request.
LEMMA BudgetStays ==
  ASSUME Assumptions, Wellformed, Wellformed', DOMAIN http' = DOMAIN http,
         \A r \in DOMAIN http : http'[r].by = http[r].by /\ http'[r].target = http[r].target,
         NEW b \in Calls, Budgeted(b), call'[b].client = call[b].client,
         \/ /\ call'[b].attempt = call[b].attempt /\ call'[b].inner = call[b].inner
            /\ call'[b].at \notin {"new", "backoff", "inner"} \/ call'[b].at = call[b].at
         \/ /\ call'[b].attempt = call[b].attempt + 1 /\ call'[b].inner = 0
            /\ call'[b].at = "backoff"
         \/ /\ call'[b].attempt = call[b].attempt /\ call'[b].inner = call[b].inner + 1
            /\ call'[b].at = "inner"
            /\ KindOf[call[b].client] = "got" /\ SendsGet(b)
  PROVE  Budgeted(b)'
<1>1. SentBy(b)' = SentBy(b)
  BY DEF SentBy
<1>2. SendsGet(b) => SendsGet(b)'
  <2>1. SentBy(b) \subseteq DOMAIN http
    BY DEF SentBy
  <2> QED
    BY <1>1, <2>1 DEF SendsGet
<1>3. Cardinality(SentBy(b)) \in Nat
  BY SentIsCounted
<1>4. Cardinality(SentBy(b)') \in Nat /\ Cardinality(SentBy(b)') <= Cardinality(SentBy(b))
  BY <1>1, <1>3
<1>5. Moving(b)
  BY <1>2, <1>4 DEF Moving
<1> QED
  BY <1>2, <1>3, <1>4, <1>5, BudgetMoves

LEMMA RejectKeepsBudget ==
  ASSUME Assumptions, Wellformed, Wellformed', NEW c \in Calls, RejectStep(c),
         \A b \in Calls : Budgeted(b), NEW b \in Calls
  PROVE  Budgeted(b)'
<1>1. /\ http' = http /\ call'[b].client = call[b].client
      /\ \/ /\ call'[b].attempt = call[b].attempt /\ call'[b].inner = call[b].inner
            /\ call'[b].at \notin {"new", "backoff", "inner"} \/ call'[b].at = call[b].at
         \/ /\ call'[b].attempt = call[b].attempt + 1 /\ call'[b].inner = 0
            /\ call'[b].at = "backoff"
  <2>1. CASE b = c
    BY <2>1 DEF RejectStep
  <2>2. CASE b # c
    BY <2>2 DEF RejectStep, SameCall
  <2> QED
    BY <2>1, <2>2
<1> QED
  BY <1>1, BudgetStays

LEMMA EndKeepsBudget ==
  ASSUME Assumptions, Wellformed, Wellformed', NEW c \in Calls, EndStep(c),
         \A b \in Calls : Budgeted(b), NEW b \in Calls
  PROVE  Budgeted(b)'
<1>1. /\ DOMAIN http' = DOMAIN http
      /\ \A r \in DOMAIN http : http'[r].by = http[r].by /\ http'[r].target = http[r].target
  BY EndFacts
<1>2. CASE b = c
  <2>1. http[call[c].request].target \in GetCalls => SendsGet(c)
    BY EndFacts DEF SendsGet, SentBy, RequestOf
  <2>2. call'[c].client = call[c].client
    BY DEF EndStep
  <2>3. \/ /\ call'[c].attempt = call[c].attempt /\ call'[c].inner = call[c].inner
           /\ call'[c].at \notin {"new", "backoff", "inner"}
        \/ /\ call'[c].attempt = call[c].attempt + 1 /\ call'[c].inner = 0
           /\ call'[c].at = "backoff"
        \/ /\ call'[c].attempt = call[c].attempt /\ call'[c].inner = call[c].inner + 1
           /\ call'[c].at = "inner"
           /\ KindOf[call[c].client] = "got" /\ SendsGet(c)
    BY <2>1, <2>2 DEF EndStep
  <2> QED
    BY <1>1, <1>2, <2>2, <2>3, BudgetStays
<1>3. CASE b # c
  <2>1. call'[b] = call[b]
    BY <1>3 DEF EndStep
  <2> QED
    BY <1>1, <2>1, BudgetStays
<1> QED
  BY <1>2, <1>3

LEMMA ServerKeepsBudget ==
  ASSUME Assumptions, Wellformed, Wellformed', NEW r \in DOMAIN http, NEW q,
         BeginStep(r, q) \/ ReleaseStep(r, q), NEW b \in Calls, Budgeted(b)
  PROVE  Budgeted(b)'
<1>1. SameRequest(http[r], q) /\ http' = [http EXCEPT ![r] = q] /\ call' = call
  BY DEF BeginStep, ReleaseStep
<1>2. /\ DOMAIN http' = DOMAIN http
      /\ \A p \in DOMAIN http : http'[p].by = http[p].by /\ http'[p].target = http[p].target
  BY <1>1, Rewritten
<1> QED
  BY <1>1, <1>2, BudgetStays

\* The bound that the budget gives at every moment.
LEMMA BudgetBounds ==
  ASSUME Assumptions, Wellformed, \A c \in Calls : Budgeted(c)
  PROVE  RequestsBounded
<1> SUFFICES ASSUME NEW c \in Calls
             PROVE  Cardinality(SentBy(c)) <= (MaxRetries + 1) * PerAttempt(c)
  BY DEF RequestsBounded, PerAttempt
<1> DEFINE a == call[c].attempt
           m == PerAttempt(c)
           s == Cardinality(SentBy(c))
           i == ThisAttempt(c)
<1>1. a \in Nat /\ a <= MaxRetries /\ MaxRetries \in Nat
  BY FormFacts DEF CallStates, Assumptions, ClientAssumption, PolicyIsValid
<1>2. m \in Nat /\ call[c].inner \in Nat /\ call[c].inner + 1 <= m
  BY FormFacts, PerAttemptFacts DEF CallStates
<1>3. i \in Nat /\ i <= m
  BY <1>2 DEF ThisAttempt, One
<1>4. s \in Nat /\ s <= a * m + i
  BY SentIsCounted DEF Budgeted
<1> HIDE DEF a, m, s, i
<1>5. m * a \in Nat /\ m * MaxRetries \in Nat /\ m * a <= m * MaxRetries
  BY <1>1, <1>2, TimesMonotone
<1>6. a * m = m * a /\ (MaxRetries + 1) * m = m * MaxRetries + m
  BY <1>1, <1>2
<1>7. s <= (MaxRetries + 1) * m
  BY <1>2, <1>3, <1>4, <1>5, <1>6
<1> QED
  BY <1>7 DEF m, s

-----------------------------------------------------------------------------
(* How often a change is made                                              *)

LEMMA AccountIsCounted ==
  ASSUME Wellformed, NEW t
  PROVE  /\ IsFiniteSet(Held(t)) /\ Cardinality(Held(t)) \in Nat
         /\ IsFiniteSet(Pending(t)) /\ Cardinality(Pending(t)) \in Nat
         /\ Held(t) \subseteq DOMAIN execs /\ Pending(t) \subseteq DOMAIN http
<1>1. /\ Held(t) \subseteq DOMAIN execs /\ execs \in Seq(Execution(DOMAIN http))
      /\ Pending(t) \subseteq DOMAIN http /\ http \in Seq(HttpRequests)
  BY FormFacts DEF Held, Pending
<1> QED
  BY <1>1, CountedIn

\* What a step adds to the three parts is paid for with doubt.
LEMMA AccountMoves ==
  ASSUME Wellformed, Wellformed', NEW t \in Calls, Account(t),
         NEW h \in Int, NEW p \in Int, NEW f \in Int,
         Cardinality(Held(t)') <= Cardinality(Held(t)) + h,
         Cardinality(Pending(t)') <= Cardinality(Pending(t)) + p,
         One(Free(t)') <= One(Free(t)) + f,
         doubt[t] + h + p + f <= doubt'[t]
  PROVE  Account(t)'
<1>1. Cardinality(Held(t)) \in Nat /\ Cardinality(Pending(t)) \in Nat
  BY AccountIsCounted
<1>2. Cardinality(Held(t)') \in Nat /\ Cardinality(Pending(t)') \in Nat
  <2>1. /\ Held(t)' \subseteq DOMAIN execs' /\ execs' \in Seq(Execution(DOMAIN http'))
        /\ Pending(t)' \subseteq DOMAIN http' /\ http' \in Seq(HttpRequests)
    BY DEF Held, Pending, Wellformed, RequestsTypeOK, ClientTypeOK
  <2> QED
    BY <2>1, CountedIn
<1>3. One(Free(t)) \in {0, 1} /\ One(Free(t)') \in {0, 1}
  BY DEF One
<1>4. doubt[t] \in Nat /\ doubt'[t] \in Nat
  BY DEF Wellformed, RequestsTypeOK
<1>5. Cardinality(Held(t)) + Cardinality(Pending(t)) + One(Free(t)) <= 1 + doubt[t]
  BY DEF Account
<1>6. Cardinality(Held(t)') + Cardinality(Pending(t)') + One(Free(t)') <= 1 + doubt'[t]
  BY <1>1, <1>2, <1>3, <1>4, <1>5
<1> QED
  BY <1>6 DEF Account

\* A call that nothing happens to, or to whose request nothing happens.
LEMMA FreeStays ==
  ASSUME NEW t, call'[t].at = call[t].at, call'[t].request = call[t].request,
         call[t].at \in {"flight", "body"} => http'[call[t].request] = http[call[t].request]
  PROVE  One(Free(t)') <= One(Free(t)) + 0
<1>1. Free(t)' <=> Free(t)
  BY DEF Free, Failing, RequestOf
<1> QED
  BY <1>1 DEF One

LEMMA PostKeepsAccount ==
  ASSUME Assumptions, Wellformed, Wellformed', NEW c \in Calls, NEW u, PostStep(c, u),
         NEW t \in Calls, Account(t)
  PROVE  Account(t)'
<1> DEFINE n == Len(http) + 1
           q == NewRequest(c, u)
<1>0. /\ http \in Seq(HttpRequests) /\ http' = Append(http, q) /\ execs' = execs /\ u \in Calls
      /\ doubt \in [Calls -> Nat] /\ doubt' = [doubt EXCEPT ![u] = @ + One(u # c)]
      /\ call[c].at \in {"new", "backoff", "inner"}
      /\ call'[c].at = "flight" /\ call'[c].request = n
  BY FormFacts DEF PostStep
<1>1. /\ DOMAIN http' = DOMAIN http \cup {n} /\ n \notin DOMAIN http
      /\ http'[n] = q /\ \A r \in DOMAIN http : http'[r] = http[r]
  BY <1>0
<1>2. q.target = u /\ q.stage = "sent" /\ q.by = c
  BY DEF NewRequest
<1> HIDE DEF n, q
<1>3. Held(t)' = Held(t)
  BY <1>0, <1>1, FormFacts DEF Held, Awaited
<1>4. Pending(t)' \subseteq Pending(t) \cup {n} /\ (u # t => Pending(t)' \subseteq Pending(t))
  BY <1>1, <1>2 DEF Pending
<1>5. /\ Cardinality(Held(t)') <= Cardinality(Held(t)) + 0
      /\ Cardinality(Pending(t)') <= Cardinality(Pending(t)) + 1
      /\ u # t => Cardinality(Pending(t)') <= Cardinality(Pending(t)) + 0
  <2>1. Cardinality(Held(t)) \in Nat /\ IsFiniteSet(Pending(t))
    BY AccountIsCounted
  <2>2. Cardinality(Pending(t)') <= Cardinality(Pending(t)) + 1
    BY <1>4, <2>1, OneMore
  <2>3. ASSUME u # t PROVE Cardinality(Pending(t)') <= Cardinality(Pending(t)) + 0
    BY <1>4, <2>1, <2>3, NoneMore
  <2> QED
    BY <1>3, <2>1, <2>2, <2>3
<1>6. t # c => One(Free(t)') <= One(Free(t)) + 0
  <2> SUFFICES ASSUME t # c PROVE One(Free(t)') <= One(Free(t)) + 0
    OBVIOUS
  <2>1. call'[t].at = call[t].at /\ call'[t].request = call[t].request
    BY DEF PostStep, SameCall
  <2>2. call[t].at \in {"flight", "body"} => call[t].request \in DOMAIN http
    BY FormFacts DEF Addressed
  <2> QED
    BY <1>1, <2>1, <2>2, FreeStays
<1>7. /\ t = c => Free(t)
      /\ t = c /\ u = c => ~Free(t)'
  BY <1>0, <1>1, <1>2 DEF Free, Failing, RequestOf, Unserved
<1>8. /\ t = c => One(Free(t)') <= One(Free(t)) + 0
      /\ t = c /\ u = c => One(Free(t)') <= One(Free(t)) + (0 - 1)
  BY <1>7 DEF One
<1>9. CASE u # t
  <2>1. doubt[t] + 0 + 0 + 0 <= doubt'[t]
    BY <1>0, <1>9
  <2> QED
    BY <1>5, <1>6, <1>8, <1>9, <2>1, AccountMoves
<1>10. CASE u = t /\ t # c
  <2>1. doubt[t] + 0 + 1 + 0 <= doubt'[t]
    BY <1>0, <1>10 DEF One
  <2> QED
    BY <1>5, <1>6, <1>10, <2>1, AccountMoves
<1>11. CASE u = t /\ t = c
  <2>1. doubt[t] + 0 + 1 + (0 - 1) <= doubt'[t]
    BY <1>0, <1>11 DEF One
  <2>2. 0 - 1 \in Int
    OBVIOUS
  <2> QED
    BY <1>5, <1>8, <1>11, <2>1, <2>2, AccountMoves
<1> QED
  BY <1>9, <1>10, <1>11

LEMMA RejectKeepsAccount ==
  ASSUME Assumptions, Wellformed, Wellformed', NEW c \in Calls, RejectStep(c),
         NEW t \in Calls, Account(t)
  PROVE  Account(t)'
<1>0. UNCHANGED <<http, execs, doubt>> /\ doubt[t] \in Nat
  BY FormFacts DEF RejectStep
<1>1. Held(t)' = Held(t) /\ Pending(t)' = Pending(t)
  BY <1>0 DEF Held, Pending, Awaited
<1>2. One(Free(t)') <= One(Free(t)) + 0
  <2>1. CASE t = c
    <3>1. Free(t)
      BY <2>1 DEF RejectStep, Free
    <3> QED
      BY <3>1 DEF One
  <2>2. CASE t # c
    <3>1. call'[t].at = call[t].at /\ call'[t].request = call[t].request
      BY <2>2 DEF RejectStep, SameCall
    <3> QED
      BY <1>0, <3>1, FreeStays
  <2> QED
    BY <2>1, <2>2
<1>3. /\ Cardinality(Held(t)') <= Cardinality(Held(t)) + 0
      /\ Cardinality(Pending(t)') <= Cardinality(Pending(t)) + 0
      /\ doubt[t] + 0 + 0 + 0 <= doubt'[t]
  BY <1>0, <1>1, AccountIsCounted
<1> QED
  BY <1>2, <1>3, AccountMoves

LEMMA EndKeepsAccount ==
  ASSUME Assumptions, Wellformed, Wellformed', NEW c \in Calls, EndStep(c),
         NEW t \in Calls, Account(t)
  PROVE  Account(t)'
<1> DEFINE r == call[c].request
           u == http[r].target
<1>0. /\ r \in DOMAIN http /\ DOMAIN http' = DOMAIN http /\ http[r].by = c /\ u \in Calls
      /\ \A p \in DOMAIN http \ {r} : http'[p] = http[p]
      /\ \A p \in DOMAIN http :
           /\ http'[p].target = http[p].target
           /\ http'[p].reply = http[p].reply /\ http'[p].exec = http[p].exec
           /\ http'[p].stage = http[p].stage \/ (http[p].stage = "sent" /\ http'[p].stage = "lost")
      /\ execs' = execs /\ doubt \in [Calls -> Nat] /\ call[c].at \in {"flight", "body"}
      /\ call'[c].request = r /\ \A b \in Calls \ {c} : call'[b] = call[b]
  <2>1. execs' = execs /\ call[c].at \in {"flight", "body"} /\ call'[c].request = r
        /\ \A b \in Calls \ {c} : call'[b] = call[b]
    BY DEF EndStep
  <2>2. /\ r \in DOMAIN http /\ DOMAIN http' = DOMAIN http /\ http[r].by = c
        /\ \A p \in DOMAIN http \ {r} : http'[p] = http[p]
        /\ \A p \in DOMAIN http :
             /\ http'[p].target = http[p].target
             /\ http'[p].reply = http[p].reply /\ http'[p].exec = http[p].exec
             /\ http'[p].stage = http[p].stage \/ (http[p].stage = "sent" /\ http'[p].stage = "lost")
    BY EndFacts DEF RequestOf
  <2> QED
    BY <2>1, <2>2, FormFacts
<1>1. PICK n \in Nat :
        /\ doubt' = [doubt EXCEPT ![u] = @ + n]
        /\ call'[c].at \in {"backoff", "inner"} =>
             n >= 1 \/ (http'[r].stage \notin Unserved /\ http[r].reply # "ok")
  BY DEF EndStep
<1>2. /\ call'[c].at \in {"body", "value", "stalled", "error", "backoff", "inner"}
      /\ call'[c].at = "body" => http'[r].stage = "answered"
  BY DEF EndStep
<1>3. doubt[t] \in Nat /\ doubt'[t] \in Nat /\ doubt[t] <= doubt'[t]
      /\ (t = u => doubt'[t] = doubt[t] + n)
  BY <1>0, <1>1
<1> HIDE DEF r, u
<1>4. Held(t)' = Held(t)
  <2>1. \A x \in DOMAIN execs : Awaited(x)' <=> Awaited(x)
    BY <1>0, FormFacts DEF Awaited
  <2> QED
    BY <1>0, <2>1, FormFacts DEF Held
<1>5. Pending(t)' \subseteq Pending(t)
  BY <1>0 DEF Pending
<1>6. /\ Cardinality(Held(t)') <= Cardinality(Held(t)) + 0
      /\ Cardinality(Pending(t)') <= Cardinality(Pending(t)) + 0
  BY <1>4, <1>5, AccountIsCounted, NoneMore
<1>7. CASE t # c
  <2>1. call[t].at \in {"flight", "body"} => call[t].request \in DOMAIN http \ {r}
    BY <1>0, <1>7, FormFacts DEF Addressed, RequestOf
  <2>2. One(Free(t)') <= One(Free(t)) + 0
    BY <1>0, <1>7, <2>1, FreeStays
  <2>3. doubt[t] + 0 + 0 + 0 <= doubt'[t]
    BY <1>3
  <2> QED
    BY <1>6, <2>2, <2>3, AccountMoves
<1>8. CASE t = c /\ call'[c].at \notin {"backoff", "inner"}
  <2>1. Free(t)' => Free(t)
    <3>1. ASSUME call'[c].at = "body" PROVE http'[r].stage = http[r].stage
      BY <1>0, <1>2, <3>1
    <3> QED
      BY <1>0, <1>2, <1>8, <3>1 DEF Free, Failing, RequestOf, r
  <2>2. One(Free(t)') <= One(Free(t)) + 0
    BY <2>1 DEF One
  <2>3. doubt[t] + 0 + 0 + 0 <= doubt'[t]
    BY <1>3
  <2> QED
    BY <1>6, <2>2, <2>3, AccountMoves
<1>9. CASE t = c /\ call'[c].at \in {"backoff", "inner"}
  <2>1. CASE Free(t)
    <3>1. One(Free(t)') <= One(Free(t)) + 0
      BY <2>1 DEF One
    <3>2. doubt[t] + 0 + 0 + 0 <= doubt'[t]
      BY <1>3
    <3> QED
      BY <1>6, <3>1, <3>2, AccountMoves
  <2>2. CASE ~Free(t)
    <3>0. One(Free(t)') <= One(Free(t)) + 1
      BY DEF One
    <3>1. u = t /\ (http[r].stage \in Unserved \/ http[r].reply = "ok")
      BY <1>0, <1>9, <2>2 DEF Free, Failing, RequestOf, r, u
    <3>2. CASE n >= 1
      <4>1. doubt[t] + 0 + 0 + 1 <= doubt'[t]
        BY <1>3, <3>1, <3>2
      <4> QED
        BY <1>6, <3>0, <4>1, AccountMoves
    <3>3. CASE http'[r].stage \notin Unserved /\ http[r].reply # "ok"
      <4>1. http[r].stage = "sent" /\ http'[r].stage = "lost"
        BY <1>0, <3>1, <3>3
      <4>2. r \in Pending(t) /\ Pending(t)' \subseteq Pending(t) \ {r}
        BY <1>0, <1>5, <3>1, <4>1 DEF Pending, u
      <4>3. Cardinality(Pending(t)') <= Cardinality(Pending(t)) + (0 - 1)
        <5>1. /\ Cardinality(Pending(t)') \in Nat /\ Cardinality(Pending(t)) \in Nat
              /\ Cardinality(Pending(t)') + 1 <= Cardinality(Pending(t))
          BY <4>2, AccountIsCounted, OneLess
        <5> QED
          BY <5>1
      <4>4. doubt[t] + 0 + (0 - 1) + 1 <= doubt'[t] /\ 0 - 1 \in Int
        BY <1>3
      <4> QED
        BY <1>6, <3>0, <4>3, <4>4, AccountMoves
    <3> QED
      BY <1>1, <1>9, <3>2, <3>3
  <2> QED
    BY <2>1, <2>2
<1> QED
  BY <1>7, <1>8, <1>9

\* A step of the server moves no call, and only the account of its request's target.
LEMMA OtherAccountStays ==
  ASSUME Wellformed, Wellformed', NEW r \in DOMAIN http, NEW q, SameRequest(http[r], q),
         http' = [http EXCEPT ![r] = q], call' = call, NEW t \in Calls, t # http[r].target,
         Held(t)' \subseteq Held(t), doubt'[t] = doubt[t], Account(t)
  PROVE  Account(t)'
<1>1. /\ DOMAIN http' = DOMAIN http /\ http'[r] = q
      /\ \A p \in DOMAIN http \ {r} : http'[p] = http[p]
      /\ \A p \in DOMAIN http : http'[p].target = http[p].target
  BY Rewritten
<1>2. Pending(t)' \subseteq Pending(t)
  BY <1>1 DEF Pending
<1>3. Free(t)' => Free(t)
  <2>1. call[t].at \in {"flight", "body"} => call[t].request \in DOMAIN http
    BY FormFacts DEF Addressed
  <2>2. CASE call[t].request = r
    BY <2>2 DEF Free, Failing, RequestOf
  <2>3. CASE call[t].request # r
    BY <1>1, <2>1, <2>3 DEF Free, Failing, RequestOf
  <2> QED
    BY <2>2, <2>3
<1>4. /\ Cardinality(Held(t)') <= Cardinality(Held(t)) + 0
      /\ Cardinality(Pending(t)') <= Cardinality(Pending(t)) + 0
      /\ One(Free(t)') <= One(Free(t)) + 0
  BY <1>2, <1>3, AccountIsCounted, NoneMore DEF One
<1>5. doubt[t] + 0 + 0 + 0 <= doubt'[t]
  BY FormFacts
<1> QED
  BY <1>4, <1>5, AccountMoves

LEMMA BeginKeepsAccount ==
  ASSUME Assumptions, Wellformed, Wellformed', NEW r \in DOMAIN http, NEW q, BeginStep(r, q),
         NEW t \in Calls, Account(t)
  PROVE  Account(t)'
<1> DEFINE n == Len(execs) + 1
           u == http[r].target
           e == Started(r)
<1>0. /\ SameRequest(http[r], q) /\ http' = [http EXCEPT ![r] = q] /\ q.exec = n
      /\ q.reply # "ok" /\ q.stage \in {"handler", "answered"}
      /\ call' = call /\ execs' = Append(execs, e)
      /\ http[r].stage \in {"sent", "delay"} /\ u \in Calls /\ doubt \in [Calls -> Nat]
      /\ execs \in Seq(Execution(DOMAIN http))
      /\ \/ q.stage = "handler" /\ doubt' = doubt
         \/ q.stage = "answered" /\ doubt' = [doubt EXCEPT ![u] = @ + 1]
  BY FormFacts DEF BeginStep
<1>1. /\ DOMAIN http' = DOMAIN http /\ http'[r] = q
      /\ \A p \in DOMAIN http \ {r} : http'[p] = http[p]
      /\ \A p \in DOMAIN http : http'[p].target = http[p].target
  BY <1>0, Rewritten
<1>2. e.request = r
  BY DEF Started
<1> HIDE DEF e
<1>3. /\ DOMAIN execs' = DOMAIN execs \cup {n}
      /\ n \notin DOMAIN execs /\ execs'[n] = e /\ \A x \in DOMAIN execs : execs'[x] = execs[x]
  BY <1>0
<1> HIDE DEF n, u
<1>4. \A x \in DOMAIN execs : Awaited(x)' => Awaited(x)
  BY <1>0, <1>1, <1>3, FormFacts DEF Awaited
<1>5. /\ Held(t)' \subseteq Held(t) \cup {n}
      /\ t # u => Held(t)' \subseteq Held(t)
  BY <1>1, <1>2, <1>3, <1>4, FormFacts DEF Held, u
<1>6. CASE t # u
  BY <1>0, <1>5, <1>6, OtherAccountStays DEF u
<1>7. CASE t = u
  <2>1. Cardinality(Held(t)') <= Cardinality(Held(t)) + 1
    BY <1>5, AccountIsCounted, OneMore
  <2>2. r \in Pending(t) /\ Pending(t)' \subseteq Pending(t) \ {r}
    BY <1>0, <1>1, <1>7 DEF Pending, u
  <2>3. Cardinality(Pending(t)') <= Cardinality(Pending(t)) + (0 - 1)
    BY <2>2, AccountIsCounted, OneLess
  <2>4. 0 - 1 \in Int /\ 0 \in Int /\ 1 \in Int
    OBVIOUS
  <2>5. CASE q.stage = "handler"
    <3>1. Free(t)' => Free(t)
      <4>1. call[t].at \in {"flight", "body"} => call[t].request \in DOMAIN http
        BY FormFacts DEF Addressed
      <4>2. CASE call[t].request = r
        BY <1>0, <1>1, <1>7, <2>5, <4>2 DEF Free, Failing, RequestOf, Unserved, u
      <4>3. CASE call[t].request # r
        BY <1>0, <1>1, <4>1, <4>3 DEF Free, Failing, RequestOf
      <4> QED
        BY <4>2, <4>3
    <3>2. One(Free(t)') <= One(Free(t)) + 0
      BY <3>1 DEF One
    <3>3. doubt[t] + 1 + (0 - 1) + 0 <= doubt'[t]
      BY <1>0, <2>5
    <3> QED
      BY <2>1, <2>3, <2>4, <3>2, <3>3, AccountMoves
  <2>6. CASE q.stage = "answered"
    <3>1. One(Free(t)') <= One(Free(t)) + 1
      BY DEF One
    <3>2. doubt[t] + 1 + (0 - 1) + 1 <= doubt'[t]
      BY <1>0, <1>7, <2>6
    <3> QED
      BY <2>1, <2>3, <2>4, <3>1, <3>2, AccountMoves
  <2> QED
    BY <1>0, <2>5, <2>6
<1> QED
  BY <1>6, <1>7

LEMMA ReleaseKeepsAccount ==
  ASSUME Assumptions, Wellformed, Wellformed', NEW r \in DOMAIN http, NEW q, ReleaseStep(r, q),
         NEW t \in Calls, Account(t)
  PROVE  Account(t)'
<1> DEFINE x == http[r].exec
           u == http[r].target
<1>0. /\ SameRequest(http[r], q) /\ http' = [http EXCEPT ![r] = q] /\ q.exec = x
      /\ q.stage \in {"delay", "silent", "answered"} /\ http[r].stage = "handler"
      /\ call' = call /\ execs' = execs /\ u \in Calls /\ doubt \in [Calls -> Nat]
      /\ x \in DOMAIN execs /\ execs[x].request = r
  BY FormFacts DEF ReleaseStep, Linked
<1>1. /\ DOMAIN http' = DOMAIN http /\ http'[r] = q
      /\ \A p \in DOMAIN http \ {r} : http'[p] = http[p]
      /\ \A p \in DOMAIN http : http'[p].target = http[p].target
  BY <1>0, Rewritten
<1>2. PICK n \in Nat :
        /\ doubt' = [doubt EXCEPT ![u] = @ + n]
        /\ \/ q.stage = "answered" /\ q.reply = "ok" /\ Committed(execs[x])
           \/ q.reply # "ok" /\ (n >= 1 \/ ~(Running(execs[x]) \/ Committed(execs[x])))
  BY DEF ReleaseStep
<1> HIDE DEF x, u
<1>3. \A y \in DOMAIN execs : Awaited(y)' => Awaited(y) /\ y # x
  BY <1>0, <1>1, FormFacts DEF Awaited
<1>4. /\ Held(t)' \subseteq Held(t)
      /\ ~(Running(execs[x]) \/ Committed(execs[x])) => x \notin Held(t)'
  BY <1>0, <1>1, <1>3, FormFacts DEF Held
<1>5. CASE t # u
  BY <1>0, <1>2, <1>4, <1>5, OtherAccountStays DEF u
<1>6. CASE t = u
  <2>0. /\ doubt[t] \in Nat /\ doubt'[t] = doubt[t] + n
        /\ 0 - 1 \in Int /\ 0 \in Int /\ 1 \in Int
    BY <1>0, <1>2, <1>6
  <2>1. Cardinality(Held(t)') <= Cardinality(Held(t)) + 0
    BY <1>4, AccountIsCounted, NoneMore
  <2>2. ASSUME ~(Running(execs[x]) \/ Committed(execs[x]))
        PROVE  Cardinality(Held(t)') <= Cardinality(Held(t)) + (0 - 1)
    <3>1. Awaited(x)
      BY <1>0 DEF Awaited, x
    <3>2. x \in Held(t)
      BY <1>0, <1>6, <3>1 DEF Held, u
    <3>3. Held(t)' \subseteq Held(t) \ {x}
      BY <1>4, <2>2
    <3> QED
      BY <3>2, <3>3, AccountIsCounted, OneLess
  <2>3. /\ Pending(t)' \subseteq Pending(t) \cup {r}
        /\ q.stage # "delay" => Pending(t)' \subseteq Pending(t)
    BY <1>0, <1>1 DEF Pending
  <2>4. /\ Cardinality(Pending(t)') <= Cardinality(Pending(t)) + 1
        /\ q.stage # "delay" => Cardinality(Pending(t)') <= Cardinality(Pending(t)) + 0
    <3>1. Cardinality(Pending(t)') <= Cardinality(Pending(t)) + 1
      BY <2>3, AccountIsCounted, OneMore
    <3>2. ASSUME q.stage # "delay"
          PROVE  Cardinality(Pending(t)') <= Cardinality(Pending(t)) + 0
      BY <2>3, <3>2, AccountIsCounted, NoneMore
    <3> QED
      BY <3>1, <3>2
  <2>5. q.stage = "delay" \/ q.reply = "ok" => (Free(t)' => Free(t))
    <3>1. call[t].at \in {"flight", "body"} => call[t].request \in DOMAIN http
      BY FormFacts DEF Addressed
    <3>2. CASE call[t].request = r
      BY <1>0, <1>1, <1>6, <3>2 DEF Free, Failing, RequestOf, Unserved, u
    <3>3. CASE call[t].request # r
      BY <1>0, <1>1, <3>1, <3>3 DEF Free, Failing, RequestOf
    <3> QED
      BY <3>2, <3>3
  <2>6. /\ One(Free(t)') <= One(Free(t)) + 1
        /\ q.stage = "delay" \/ q.reply = "ok" => One(Free(t)') <= One(Free(t)) + 0
    BY <2>5 DEF One
  <2>7. CASE q.stage = "answered" /\ q.reply = "ok"
    <3>1. doubt[t] + 0 + 0 + 0 <= doubt'[t]
      BY <2>0
    <3> QED
      BY <2>0, <2>1, <2>4, <2>6, <2>7, <3>1, AccountMoves
  <2>8. CASE n >= 1
    <3>1. doubt[t] + 0 + 1 + 0 <= doubt'[t] /\ doubt[t] + 0 + 0 + 1 <= doubt'[t]
      BY <2>0, <2>8
    <3>2. CASE q.stage = "delay"
      BY <2>0, <2>1, <2>4, <2>6, <3>1, <3>2, AccountMoves
    <3>3. CASE q.stage # "delay"
      BY <2>0, <2>1, <2>4, <2>6, <3>1, <3>3, AccountMoves
    <3> QED
      BY <3>2, <3>3
  <2>9. CASE ~(Running(execs[x]) \/ Committed(execs[x]))
    <3>1. doubt[t] + (0 - 1) + 1 + 0 <= doubt'[t] /\ doubt[t] + (0 - 1) + 0 + 1 <= doubt'[t]
      BY <2>0
    <3>2. CASE q.stage = "delay"
      BY <2>0, <2>2, <2>4, <2>6, <2>9, <3>1, <3>2, AccountMoves
    <3>3. CASE q.stage # "delay"
      BY <2>0, <2>2, <2>4, <2>6, <2>9, <3>1, <3>3, AccountMoves
    <3> QED
      BY <3>2, <3>3
  <2> QED
    BY <1>2, <2>7, <2>8, <2>9
<1> QED
  BY <1>5, <1>6

LEMMA ExecutionKeepsAccount ==
  ASSUME Assumptions, Wellformed, Wellformed', NEW x \in DOMAIN execs, ExecutionStep(x),
         NEW t \in Calls, Account(t)
  PROVE  Account(t)'
<1>1. PICK f : execs' = [execs EXCEPT ![x] = f] /\ Advances(execs[x], f)
  BY DEF ExecutionStep
<1>2. /\ UNCHANGED <<call, http, doubt>> /\ DOMAIN execs' = DOMAIN execs /\ execs'[x] = f
      /\ \A y \in DOMAIN execs \ {x} : execs'[y] = execs[y]
      /\ f.request = execs[x].request
      /\ Running(f) \/ Committed(f) => Running(execs[x]) \/ Committed(execs[x])
  BY <1>1, FormFacts DEF ExecutionStep, Advances
<1>3. Held(t)' \subseteq Held(t)
  <2>1. \A y \in DOMAIN execs : Awaited(y)' => Awaited(y)
    BY <1>2 DEF Awaited
  <2> QED
    BY <1>2, <2>1 DEF Held
<1>4. Pending(t)' = Pending(t)
  BY <1>2 DEF Pending
<1>5. One(Free(t)') <= One(Free(t)) + 0
  BY <1>2, FreeStays
<1>6. /\ Cardinality(Held(t)') <= Cardinality(Held(t)) + 0
      /\ Cardinality(Pending(t)') <= Cardinality(Pending(t)) + 0
  BY <1>3, <1>4, AccountIsCounted, NoneMore
<1>7. doubt[t] + 0 + 0 + 0 <= doubt'[t]
  BY <1>2, FormFacts
<1> QED
  BY <1>5, <1>6, <1>7, AccountMoves

-----------------------------------------------------------------------------
(* The inductive invariant                                                 *)

RequestsInv ==
  /\ Wellformed /\ Owned
  /\ \A c \in Calls : Budgeted(c)
  /\ \A c \in Calls : Account(c)

LEMMA InitRequestsInv ==
  ASSUME Assumptions, RequestsInit
  PROVE  RequestsInv
<1>0. /\ http = <<>> /\ execs = <<>> /\ faults = 0 /\ doubt = [c \in Calls |-> 0]
      /\ built = [k \in Clients |-> [target |-> NoCall, body |-> NoCall]]
      /\ MaxFaults \in Nat /\ MaxRetries \in Nat /\ GotLimit \in Nat
      /\ Uses \subseteq [Calls -> Clients]
  BY DEF RequestsInit, ClientInit, Assumptions, ClientAssumption, ServerAssumption, PolicyIsValid
<1>1. PICK k \in Uses :
        call = [c \in Calls |-> [at |-> "new", client |-> k[c], attempt |-> 0, inner |-> 0,
                                 request |-> 0, reused |-> FALSE]]
  BY DEF RequestsInit, ClientInit
<1>2. \A c \in Calls : /\ call[c] \in CallStates
                       /\ call[c].at = "new" /\ call[c].attempt = 0 /\ call[c].inner = 0
  <2>1. \A c \in Calls : k[c] \in Clients
    BY <1>0, <1>1
  <2> QED
    BY <1>0, <1>1, <2>1 DEF CallStates
<1>3. call \in [Calls -> CallStates]
  BY <1>1, <1>2
<1>4. DOMAIN http = {} /\ DOMAIN execs = {}
  BY <1>0
<1>5. Wellformed
  <2>1. RequestsTypeOK
    BY <1>0, <1>3, <1>4 DEF RequestsTypeOK, ClientTypeOK
  <2>2. Links
    BY <1>2, <1>4 DEF Links, Addressed
  <2> QED
    BY <2>1, <2>2 DEF Wellformed
<1>6. Owned
  BY <1>2, <1>4 DEF Owned, Active, RequestsAreOwn
<1>7. ASSUME NEW c \in Calls PROVE Budgeted(c)
  <2>1. SentBy(c) = {}
    BY <1>4 DEF SentBy
  <2>2. Cardinality(SentBy(c)) = 0
    BY <2>1, FS_EmptySet
  <2>3. PerAttempt(c) \in Nat /\ ThisAttempt(c) = 0 /\ 0 * PerAttempt(c) = 0
    BY <1>0, <1>2, <1>7 DEF PerAttempt, ThisAttempt, One
  <2> QED
    BY <1>2, <1>7, <2>2, <2>3 DEF Budgeted
<1>8. ASSUME NEW c \in Calls PROVE Account(c)
  <2>1. Held(c) = {} /\ Pending(c) = {}
    BY <1>4 DEF Held, Pending
  <2>2. Cardinality(Held(c)) = 0 /\ Cardinality(Pending(c)) = 0
    BY <2>1, FS_EmptySet
  <2> QED
    BY <1>0, <2>2 DEF Account, One
<1> QED
  BY <1>5, <1>6, <1>7, <1>8 DEF RequestsInv

LEMMA NextRequestsInv ==
  ASSUME Assumptions, RequestsInv, [RequestsNext]_requestsVars
  PROVE  RequestsInv'
<1>0. /\ Wellformed /\ Owned /\ (\A c \in Calls : Budgeted(c)) /\ (\A c \in Calls : Account(c))
  BY DEF RequestsInv
<1>1. ASSUME NEW c \in Calls, Send(c) PROVE RequestsInv'
  <2> DEFINE t == built'[call[c].client].target
  <2>1. built[call[c].client].target \in Calls \/ call[c].at = "new"
    BY <1>0 DEF Owned
  <2>2. Configures(c) /\ (PostStep(c, t) \/ RejectStep(c))
    BY <1>0, <1>1, <2>1, SendShape
  <2>3. built' \in [Clients -> [target : Calls \cup {NoCall}, body : Calls \cup {NoCall}]]
    BY <1>0, <2>2, FormFacts DEF Configures
  <2>4. call[c].at # "inner"
    BY <1>1 DEF Send, Retrieve, AttemptAgain
  <2> HIDE DEF t
  <2>5. Wellformed'
    BY <1>0, <2>2, <2>3, PostKeepsForm, RejectKeepsForm
  <2>6. Owned'
    BY <1>0, <2>2, <2>4, SendKeepsOwned DEF t
  <2>7. \A b \in Calls : Budgeted(b)'
    BY <1>0, <2>2, <2>5, PostKeepsBudget, RejectKeepsBudget
  <2>8. \A b \in Calls : Account(b)'
    BY <1>0, <2>2, <2>5, PostKeepsAccount, RejectKeepsAccount
  <2> QED
    BY <2>5, <2>6, <2>7, <2>8 DEF RequestsInv
<1>2. ASSUME NEW c \in Calls, Resend(c) PROVE RequestsInv'
  <2> DEFINE t == RequestOf(c).target
  <2>1. /\ PostStep(c, t) /\ built' = built
        /\ call[c].request \in DOMAIN http /\ RequestOf(c).by = c
    BY <1>0, <1>2, ResendShape
  <2>2. built' \in [Clients -> [target : Calls \cup {NoCall}, body : Calls \cup {NoCall}]]
    BY <1>0, <2>1, FormFacts
  <2>3. call[c].at = "inner"
    BY <1>2 DEF Resend, GotSendsAgain
  <2>4. Owned'
    BY <1>0, <2>1, <2>3, ResendKeepsOwned
  <2> HIDE DEF t
  <2>5. Wellformed'
    BY <1>0, <2>1, <2>2, PostKeepsForm
  <2>6. \A b \in Calls : Budgeted(b)'
    BY <1>0, <2>1, <2>5, PostKeepsBudget
  <2>7. \A b \in Calls : Account(b)'
    BY <1>0, <2>1, <2>5, PostKeepsAccount
  <2> QED
    BY <2>4, <2>5, <2>6, <2>7 DEF RequestsInv
<1>3. ASSUME NEW c \in Calls, ClientStep(c) \/ Disconnect(c) \/ BodyLost(c) \/ Stall(c)
      PROVE  RequestsInv'
  <2>1. EndStep(c)
    BY <1>0, <1>3, EndShape
  <2>2. Wellformed' /\ Owned'
    BY <1>0, <2>1, EndKeepsForm, EndKeepsOwned
  <2>3. \A b \in Calls : Budgeted(b)'
    BY <1>0, <2>1, <2>2, EndKeepsBudget
  <2>4. \A b \in Calls : Account(b)'
    BY <1>0, <2>1, <2>2, EndKeepsAccount
  <2> QED
    BY <2>2, <2>3, <2>4 DEF RequestsInv
<1>4. ASSUME NEW r \in DOMAIN http, ServerStep(r) \/ ServerTimeout(r) PROVE RequestsInv'
  <2>1. PICK q : BeginStep(r, q) \/ ReleaseStep(r, q)
    BY <1>0, <1>4, ServerShape
  <2>2. Wellformed' /\ Owned'
    BY <1>0, <2>1, BeginKeepsForm, ReleaseKeepsForm, ServerKeepsOwned
  <2>3. \A b \in Calls : Budgeted(b)'
    BY <1>0, <2>1, <2>2, ServerKeepsBudget
  <2>4. \A b \in Calls : Account(b)'
    BY <1>0, <2>1, <2>2, BeginKeepsAccount, ReleaseKeepsAccount
  <2> QED
    BY <2>2, <2>3, <2>4 DEF RequestsInv
\* What leaves calls and requests alone.
<1>5. ASSUME Wellformed', UNCHANGED <<built, call, http>> PROVE Owned' /\ \A b \in Calls : Budgeted(b)'
  <2>1. Owned'
    BY <1>0, <1>5, OwnedStays DEF Active
  <2>2. \A b \in Calls : Budgeted(b)'
    BY <1>0, <1>5, BudgetStays
  <2> QED
    BY <2>1, <2>2
<1>6. ASSUME NEW x \in DOMAIN execs, Execute(x) \/ ExecutionFails(x) PROVE RequestsInv'
  <2>1. ExecutionStep(x)
    BY <1>0, <1>6, ExecutionShape
  <2>2. Wellformed' /\ UNCHANGED <<built, call, http>>
    BY <1>0, <2>1, ExecutionKeepsForm DEF ExecutionStep
  <2>3. \A b \in Calls : Account(b)'
    BY <1>0, <2>1, <2>2, ExecutionKeepsAccount
  <2> QED
    BY <1>5, <2>2, <2>3 DEF RequestsInv
<1>7. CASE UNCHANGED requestsVars
  <2>1. UNCHANGED <<built, call, http, execs, faults, doubt>>
    BY <1>7 DEF requestsVars, clientVars
  <2>2. Wellformed'
    BY <1>0, <2>1 DEF Wellformed, RequestsTypeOK, ClientTypeOK, Links, Linked, Addressed, RequestOf
  <2>3. \A b \in Calls : Account(b)'
    BY <1>0, <2>1 DEF Account, Held, Pending, Free, Failing, Awaited, RequestOf
  <2> QED
    BY <1>5, <2>1, <2>2, <2>3 DEF RequestsInv
<1> QED
  BY <1>1, <1>2, <1>3, <1>4, <1>6, <1>7 DEF RequestsNext

\* The requests, the calls and the transactions keep the invariant.
THEOREM RequestsInvariant == RequestsSpec => []RequestsInv
<1>1. Assumptions
  BY ClientAssumption, EventsAssumption, ServerAssumption DEF Assumptions
<1>2. RequestsInit => RequestsInv
  BY <1>1, InitRequestsInv
<1>3. RequestsInv /\ [RequestsNext]_requestsVars => RequestsInv'
  BY <1>1, NextRequestsInv
<1> QED
  BY <1>2, <1>3, PTL DEF RequestsSpec

-----------------------------------------------------------------------------
(* The theorems                                                            *)

\* Every call, request and execution keeps its type; RetryInterceptor never sees
\* more errors than its RETRY_COUNT, and no execution emits more than fn raised.
THEOREM RequestsTypeCorrect == RequestsSpec => []RequestsTypeOK
<1>1. RequestsInv => RequestsTypeOK
  BY DEF RequestsInv, Wellformed
<1> QED
  BY <1>1, RequestsInvariant, PTL

\* A call sends one request for each of its attempts, times got's own retries for
\* a GET of a GotClient (RetryExecutor, GotClient), however many calls share its
\* client and whatever fails.
THEOREM RequestsAreBounded == RequestsSpec => []RequestsBounded
<1>1. Assumptions
  BY ClientAssumption, EventsAssumption, ServerAssumption DEF Assumptions
<1>2. RequestsInv => RequestsBounded
  BY <1>1, BudgetBounds DEF RequestsInv
<1> QED
  BY <1>2, RequestsInvariant, PTL

\* A call sends another call's request only when that one has taken its client
\* (FetchClient, GotClient: the builder is read anew by every attempt).
THEOREM OnlyOwnRequests == RequestsSpec => []RequestsAreOwn
<1>1. RequestsInv => RequestsAreOwn
  BY DEF RequestsInv, Owned
<1> QED
  BY <1>1, RequestsInvariant, PTL

\* What the listeners of a transaction hear agrees with what becomes of it
\* (TransactionService, TransactionEventContext), for any number of events.
THEOREM EventsFollowOutcome == RequestsSpec => []EventsMatchOutcome
<1>1. Assumptions
  BY ClientAssumption, EventsAssumption, ServerAssumption DEF Assumptions
<1>2. RequestsInv => EventsMatchOutcome
  <2> SUFFICES ASSUME RequestsInv PROVE EventsMatchOutcome
    OBVIOUS
  <2> SUFFICES ASSUME NEW x \in DOMAIN execs
               PROVE  LET e == execs[x] IN
                        /\ e.emitted["AFTER_COMMIT"] > 0 => e.tx = "committed"
                        /\ e.at = "value" => e.emitted = [EventsOf EXCEPT !["AFTER_ROLLBACK"] = 0]
                        /\ e.emitted["AFTER_ROLLBACK"] > 0 =>
                             /\ e.at = "error"
                             /\ \/ e.tx \in {"rolledback", "unsure"}
                                \/ e.tx = "committed" /\ e.emitted["AFTER_COMMIT"] > 0
    BY DEF EventsMatchOutcome
  <2> DEFINE e == execs[x]
  <2>1. e \in Execution(DOMAIN http) /\ ExecutionInv(e)
    BY FormFacts DEF RequestsInv
  <2>2. /\ e.at \in {"fn", "commit", "flush", "value", "error"}
        /\ \A p \in Phases : NoEvents[p] = 0 /\ EventsOf[p] \in Nat
        /\ NoEvents \in [Phases -> Nat] /\ EventsOf \in [Phases -> Nat]
        /\ Phases = {"BEFORE_COMMIT", "AFTER_COMMIT", "AFTER_ROLLBACK"}
    BY <1>1, <2>1 DEF Execution, NoEvents, Assumptions, EventsAssumption, Phases
  <2> HIDE DEF e
  <2>3. CASE e.at = "fn"
    BY <2>1, <2>2, <2>3 DEF ExecutionInv, e
  <2>4. CASE e.at \in {"commit", "flush"}
    <3>1. e.emitted["AFTER_COMMIT"] = 0 /\ e.emitted["AFTER_ROLLBACK"] = 0
      BY <2>1, <2>2, <2>4 DEF ExecutionInv, HeardInside
    <3> QED
      BY <2>4, <3>1 DEF e
  <2>5. CASE e.at = "value"
    <3>1. e.tx = "committed" /\ e.emitted = [EventsOf EXCEPT !["AFTER_ROLLBACK"] = 0]
      BY <2>1, <2>5 DEF ExecutionInv
    <3>2. e.emitted["AFTER_ROLLBACK"] = 0
      BY <2>2, <3>1
    <3> QED
      BY <3>1, <3>2 DEF e
  <2>6. CASE e.at = "error"
    <3>1. e.tx \in {"open", "committed", "unsure", "rolledback"}
      BY <2>1 DEF Execution
    <3>2. /\ e.tx # "open"
          /\ e.emitted["AFTER_COMMIT"] > 0 => e.tx = "committed"
          /\ e.tx = "committed" => e.emitted["AFTER_COMMIT"] > 0
      BY <2>1, <2>6 DEF ExecutionInv
    <3> QED
      BY <2>6, <3>1, <3>2 DEF e
  <2> QED
    BY <2>2, <2>3, <2>4, <2>5, <2>6
<1> QED
  BY <1>2, RequestsInvariant, PTL

\* A change is committed once, and once more for every time that it was given up
\* although it had been, or could still be, committed: by a timer of the client or
\* the server, a broken connection, a listener that throws after the commit, the
\* last retry of RetryInterceptor or a client that two calls share.
THEOREM RepeatsAreDoubted == RequestsSpec => []RepeatsNeedDoubt
<1>1. RequestsInv => RepeatsNeedDoubt
  <2> SUFFICES ASSUME RequestsInv, NEW c \in Calls
               PROVE  Cardinality(Commits(c)) <= 1 + doubt[c]
    BY DEF RepeatsNeedDoubt
  <2>1. Commits(c) \subseteq Held(c)
    BY DEF Commits, Held
  <2>2. Wellformed /\ Account(c) /\ doubt[c] \in Nat
    BY FormFacts DEF RequestsInv
  <2>3. /\ Cardinality(Commits(c)) \in Nat
        /\ Cardinality(Held(c)) \in Nat /\ Cardinality(Pending(c)) \in Nat
        /\ Cardinality(Commits(c)) <= Cardinality(Held(c))
    BY <2>1, <2>2, AccountIsCounted, NoneMore
  <2>4. One(Free(c)) \in {0, 1}
    BY DEF One
  <2> QED
    BY <2>2, <2>3, <2>4 DEF Account
<1> QED
  BY <1>1, RequestsInvariant, PTL
=============================================================================
