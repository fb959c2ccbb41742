------------------------- MODULE ReliableQueueProofs -------------------------
(***************************************************************************)
(* What holds of the in-flight queue for every number of jobs and workers  *)
(* and every sequence of crashes, exceptions and stalls: the types, that   *)
(* the leases and the hashes that describe them agree, what a duplicate, a *)
(* retry and a loss need, and that the queue implements JobDelivery, with  *)
(* the bound that JobDelivery puts on the handlings of a job.              *)
(***************************************************************************)
EXTENDS ReliableDelivery, CountingTheorems

LEMMA InitTypeOK == ReliableQueueAssumption /\ Init => TypeOK
<1> SUFFICES ASSUME ReliableQueueAssumption, Init PROVE TypeOK
  OBVIOUS
<1> USE DEF Init, EmptyZSet
<1>1. QueuesTypeOK
  BY DEF QueuesTypeOK
<1>2. LeasesTypeOK
  BY DEF LeasesTypeOK
<1>3. CountersTypeOK
  BY DEF CountersTypeOK, ReliableQueueAssumption
<1>4. WorkersTypeOK
  BY DEF WorkersTypeOK, PCs, HasJob, Released, NothingPeeked
<1> QED
  BY <1>1, <1>2, <1>3, <1>4 DEF TypeOK

\* A list of jobs takes a job at its end and gives its head away.
LEMMA ListOfJobs ==
  ASSUME ready \in Seq(Jobs)
  PROVE  /\ \A j \in Jobs : Append(ready, j) \in Seq(Jobs)
         /\ ready # <<>> => Head(ready) \in Jobs /\ Tail(ready) \in Seq(Jobs)
  BY AppendProperties, HeadTailProperties

LEMMA FunctionIsSeq ==
  ASSUME NEW S, NEW n \in Nat, NEW f \in [1..n -> S]
  PROVE  f \in Seq(S)
  BY SeqDef, Zenon

\* The steps that change the queues and the leases, whoever takes them.
LEMMA QueuesKeepType ==
  ASSUME ReliableQueueAssumption, TypeOK, [Next]_vars
  PROVE  QueuesTypeOK'
<1> USE DEF TypeOK, QueuesTypeOK
<1>1. CASE UNCHANGED <<admitted, ready, nonReady, dead>>
  BY <1>1
<1>2. ASSUME NEW j \in Jobs, Admit(j) \/ MoveToReady(j) \/ DeadlinePasses(j) \/ OrphanEnd(j)
      PROVE  QueuesTypeOK'
  BY <1>2, ListOfJobs DEF Admit, MoveToReady, DeadlinePasses, OrphanEnd
<1>3. ASSUME NEW w \in Workers, WorkerStep(w) \/ Heartbeat(w) \/ AckThrows(w) \/ Crash(w)
      PROVE  QueuesTypeOK'
  <2>1. CASE Pop(w)
    BY <2>1, ListOfJobs DEF Pop, Popped
  <2>2. pc[w] \in HasJob => job[w] \in Jobs
    BY DEF WorkersTypeOK
  <2>3. CASE Failed(w)
    BY <2>2, <2>3 DEF Failed, HasJob, Released
  <2>4. CASE Requeue(w)
    BY <2>2, <2>4 DEF Requeue, HasJob, Released
  <2>5. CASE ~(Pop(w) \/ Failed(w) \/ Requeue(w))
    BY <1>1, <1>3, <2>5 DEF WorkerStep, Length, Peek, ReadPeeked, Load, WorkEnds, Release,
      ReliableAck, Complete, Heartbeat, ExtendDeadline, AckThrows, Crash
  <2> QED
    BY <2>1, <2>3, <2>4, <2>5
<1>4. ASSUME NEW orphans \in Orphans, Recover(orphans) PROVE QueuesTypeOK'
  <2>1. orphans \subseteq Jobs
    BY DEF Orphans, OverdueJobs, ZDue, LeasesTypeOK
  <2> DEFINE kept == orphans \ {j \in orphans : Exhausted(j)}
  <2>2. PICK back \in SetToSeqs(kept) : ready' = ready \o back
    BY <1>4 DEF Recover
  <2>3. back \in Seq(Jobs)
    <3>1. IsFiniteSet(kept)
      BY <2>1, FS_Subset DEF ReliableQueueAssumption
    <3>2. Cardinality(kept) \in Nat
      BY <3>1, FS_CardinalityType
    <3>3. back \in [1..Cardinality(kept) -> kept]
      BY <2>2 DEF SetToSeqs
    <3>4. back \in [1..Cardinality(kept) -> Jobs]
      BY <2>1, <3>3
    <3> QED
      BY <3>2, <3>4, FunctionIsSeq
  <2>4. ready' \in Seq(Jobs)
    BY <2>2, <2>3, ConcatProperties
  <2> QED
    BY <1>4, <2>1, <2>4 DEF Recover
<1>5. CASE RecoveryFails
  BY <1>5 DEF RecoveryFails
<1> QED
  BY <1>1, <1>2, <1>3, <1>4, <1>5 DEF Next, Recovery, vars

LEMMA LeasesKeepType ==
  ASSUME ReliableQueueAssumption, TypeOK, [Next]_vars
  PROVE  LeasesTypeOK'
<1> USE DEF TypeOK, LeasesTypeOK, ZAdd, ZRem, Restrict
<1>1. CASE UNCHANGED <<inFlight, meta>>
  BY <1>1
<1>2. ASSUME NEW j \in Jobs, DeadlinePasses(j) PROVE LeasesTypeOK'
  BY <1>2 DEF DeadlinePasses
<1>3. ASSUME NEW w \in Workers, WorkerStep(w) \/ Heartbeat(w) \/ AckThrows(w) \/ Crash(w)
      PROVE  LeasesTypeOK'
  <2>1. CASE Pop(w)
    <3>1. PeekedMeta(w) \in [retry : Nat, group : Range(GroupOf) \cup {NoGroup}, raced : BOOLEAN]
      BY DEF PeekedMeta, PeekedGroup, WorkersTypeOK, Range, ReliableQueueAssumption
    <3>2. ready # <<>> => Head(ready) \in Jobs
      BY ListOfJobs DEF QueuesTypeOK
    <3>3. DOMAIN inFlight' \subseteq Jobs /\ inFlight' \in [DOMAIN inFlight' -> {Live, Overdue}]
      BY <2>1, <3>2 DEF Pop, Popped, Leased
    <3>4. DOMAIN meta' \subseteq Jobs
      BY <2>1, <3>2 DEF Pop, Popped
    <3>5. meta' \in [DOMAIN meta' -> [retry : Nat, group : Range(GroupOf) \cup {NoGroup},
                                     raced : BOOLEAN]]
      BY <2>1, <3>1 DEF Pop, Popped
    <3> QED
      BY <3>3, <3>4, <3>5
  <2>2. CASE Release(w)
    BY <2>2 DEF Release, ReliableAck
  <2>3. CASE Heartbeat(w)
    <3>1. BareMeta \in [retry : Nat, group : Range(GroupOf) \cup {NoGroup}, raced : BOOLEAN]
      BY DEF BareMeta
    <3>2. job[w] \in Jobs
      BY <2>3 DEF Heartbeat, WorkersTypeOK, HasJob
    <3> QED
      BY <2>3, <3>1, <3>2 DEF Heartbeat, ExtendDeadline, MayExtend, Leased
  <2>4. CASE ~(Pop(w) \/ Release(w) \/ Heartbeat(w))
    BY <1>1, <1>3, <2>4 DEF WorkerStep, Length, Peek, ReadPeeked, Load, WorkEnds, Complete,
      Failed, Requeue, AckThrows, Crash
  <2> QED
    BY <2>1, <2>2, <2>3, <2>4
<1>4. ASSUME NEW orphans \in Orphans, Recover(orphans) PROVE LeasesTypeOK'
  BY <1>4 DEF Recover, StillInFlight
<1>5. ASSUME NEW j \in Jobs, Admit(j) \/ MoveToReady(j) \/ OrphanEnd(j) PROVE LeasesTypeOK'
  BY <1>1, <1>5 DEF Admit, MoveToReady, OrphanEnd
<1>6. CASE RecoveryFails
  BY <1>1, <1>6 DEF RecoveryFails
<1> QED
  BY <1>1, <1>2, <1>3, <1>4, <1>5, <1>6 DEF Next, Recovery, vars

\* Counting up stays in Nat, and below a bound that the guard has looked at.
LEMMA OneMore ==
  ASSUME NEW D, NEW f \in [D -> Nat], NEW d \in D
  PROVE  [f EXCEPT ![d] = @ + 1] \in [D -> Nat]
<1>1. f[d] + 1 \in Nat
  OBVIOUS
<1> QED
  BY <1>1

\* The ends of orphans that are taken off the list are on it.
LEMMA TakenTypes ==
  ASSUME TypeOK, NEW jobs \in SUBSET Jobs, NEW stray \in SUBSET jobs, Taken(jobs, stray)
  PROVE  /\ orphanEnds' \in [Jobs -> Nat] /\ astray' \in [Jobs -> Nat]
         /\ \A j \in Jobs : /\ astray'[j] <= orphanEnds'[j]
                           /\ orphanEnds'[j] + CountIf(j \in jobs) = orphanEnds[j]
<1>1. \A j \in Jobs : orphanEnds[j] \in Nat /\ astray[j] \in Nat /\ astray[j] <= orphanEnds[j]
  BY DEF TypeOK, CountersTypeOK
<1>2. ASSUME NEW j \in Jobs
      PROVE  /\ orphanEnds[j] - CountIf(j \in jobs) \in Nat
             /\ astray[j] - CountIf(j \in stray) \in Nat
             /\ astray[j] - CountIf(j \in stray) <= orphanEnds[j] - CountIf(j \in jobs)
             /\ (orphanEnds[j] - CountIf(j \in jobs)) + CountIf(j \in jobs) = orphanEnds[j]
  <2>1. CASE j \in stray
    BY <1>1, <2>1 DEF Taken, CountIf
  <2>2. CASE j \in jobs \ stray
    BY <1>1, <2>2 DEF Taken, CountIf
  <2>3. CASE j \notin jobs
    BY <1>1, <2>3 DEF CountIf
  <2> QED
    BY <2>1, <2>2, <2>3
<1> QED
  BY <1>2 DEF Taken

\* Recovery adds one end for each dead letter, and it is astray or not.
LEMMA RecoverTypes ==
  ASSUME TypeOK, NEW orphans \in Orphans, Recover(orphans)
  PROVE  /\ orphanEnds' \in [Jobs -> Nat] /\ astray' \in [Jobs -> Nat]
         /\ \A j \in Jobs : astray'[j] <= orphanEnds'[j]
<1> DEFINE lost == {j \in orphans : Exhausted(j)}
           lostAstray(j) == j \in lost /\ meta[j].group # GroupOf[j]
<1>1. /\ orphanEnds' = [j \in Jobs |-> orphanEnds[j] + CountIf(j \in lost)]
      /\ astray' = [j \in Jobs |-> astray[j] + CountIf(lostAstray(j))]
  BY DEF Recover
<1>2. \A j \in Jobs : CountIf(j \in lost) \in 0..1 /\ CountIf(lostAstray(j)) \in 0..1
                       /\ CountIf(lostAstray(j)) <= CountIf(j \in lost)
  <2> HIDE DEF lost
  <2> QED
    BY DEF CountIf
<1>3. \A j \in Jobs : orphanEnds[j] \in Nat /\ astray[j] \in Nat /\ astray[j] <= orphanEnds[j]
  BY DEF TypeOK, CountersTypeOK
<1> HIDE DEF lost, lostAstray
<1>4. ASSUME NEW j \in Jobs
      PROVE  /\ orphanEnds[j] + CountIf(j \in lost) \in Nat
             /\ astray[j] + CountIf(lostAstray(j)) \in Nat
             /\ astray[j] + CountIf(lostAstray(j)) <= orphanEnds[j] + CountIf(j \in lost)
  BY <1>2, <1>3
<1> QED
  BY <1>1, <1>4

LEMMA CountersKeepType ==
  ASSUME ReliableQueueAssumption, TypeOK, [Next]_vars
  PROVE  CountersTypeOK'
<1> USE DEF TypeOK, CountersTypeOK
<1>1. CASE UNCHANGED <<retryCount, ends, orphanEnds, astray, crashes, throws, stalls>>
  BY <1>1
<1>2. ASSUME NEW j \in Jobs, DeadlinePasses(j) PROVE CountersTypeOK'
  <2>1. stalls[j] < MaxStalls => stalls[j] + 1 \in 0..MaxStalls
    BY DEF ReliableQueueAssumption
  <2> QED
    BY <1>2, <2>1 DEF DeadlinePasses, orphanVars
<1>3. ASSUME NEW j \in Jobs, OrphanEnd(j) PROVE CountersTypeOK'
  <2>1. ends' \in [Jobs -> Nat]
    BY <1>3, OneMore DEF OrphanEnd
  <2>2. orphanEnds' \in [Jobs -> Nat] /\ astray' \in [Jobs -> Nat]
        /\ \A i \in Jobs : astray'[i] <= orphanEnds'[i]
    <3>1. PICK stray \in SUBSET {j} : Taken({j}, stray)
      BY <1>3 DEF OrphanEnd
    <3> QED
      BY <3>1, TakenTypes
  <2> QED
    BY <1>3, <2>1, <2>2 DEF OrphanEnd, failureVars
<1>4. ASSUME NEW w \in Workers, WorkerStep(w) \/ Heartbeat(w) \/ AckThrows(w) \/ Crash(w)
      PROVE  CountersTypeOK'
  <2>1. pc[w] \in HasJob => job[w] \in Jobs
    BY DEF WorkersTypeOK
  <2>2. CASE Complete(w)
    <3>1. ends' \in [Jobs -> Nat]
      BY <2>1, <2>2, OneMore DEF Complete, HasJob, Released
    <3> QED
      BY <2>2, <3>1 DEF Complete, failureVars, orphanVars
  <2>3. CASE Failed(w)
    <3>1. [retryCount EXCEPT ![job[w]] = @ + 1] \in [Jobs -> Nat]
      BY <2>1, <2>3, OneMore DEF Failed, HasJob, Released
    <3>2. retryCount' \in [Jobs -> Nat]
      BY <2>3, <3>1 DEF Failed
    <3> QED
      BY <2>3, <3>2 DEF Failed, failureVars, orphanVars
  <2>4. CASE AckThrows(w)
    BY <2>4 DEF AckThrows, ReliableQueueAssumption, orphanVars
  <2>5. CASE Crash(w)
    BY <2>5 DEF Crash, ReliableQueueAssumption, orphanVars
  <2>6. CASE ~(Complete(w) \/ Failed(w) \/ AckThrows(w) \/ Crash(w))
    BY <1>1, <1>4, <2>6 DEF WorkerStep, Length, Peek, ReadPeeked, Pop, Popped, Load, WorkEnds,
      Release, ReliableAck, Requeue, Heartbeat, ExtendDeadline, failureVars, orphanVars
  <2> QED
    BY <2>2, <2>3, <2>4, <2>5, <2>6
<1>5. ASSUME NEW orphans \in Orphans, Recover(orphans) PROVE CountersTypeOK'
  <2>1. \A j \in Jobs : retryCount[j] + 1 \in Nat
    OBVIOUS
  <2>2. retryCount' \in [Jobs -> Nat]
    BY <1>5, <2>1 DEF Recover
  <2>3. /\ orphanEnds' \in [Jobs -> Nat] /\ astray' \in [Jobs -> Nat]
        /\ \A j \in Jobs : astray'[j] <= orphanEnds'[j]
    BY <1>5, RecoverTypes
  <2> QED
    BY <1>5, <2>2, <2>3 DEF Recover, failureVars
<1>6. ASSUME NEW j \in Jobs, Admit(j) \/ MoveToReady(j) PROVE CountersTypeOK'
  BY <1>1, <1>6 DEF Admit, MoveToReady, failureVars, orphanVars
<1>7. CASE RecoveryFails
  <2>1. PICK jobs \in SUBSET Jobs : \E stray \in SUBSET jobs : Taken(jobs, stray)
    BY <1>7 DEF RecoveryFails
  <2>2. /\ orphanEnds' \in [Jobs -> Nat] /\ astray' \in [Jobs -> Nat]
        /\ \A j \in Jobs : astray'[j] <= orphanEnds'[j]
    BY <2>1, TakenTypes
  <2> QED
    BY <1>7, <2>2 DEF RecoveryFails, ReliableQueueAssumption
<1> QED
  BY <1>1, <1>2, <1>3, <1>4, <1>5, <1>6, <1>7 DEF Next, Recovery, vars, failureVars, orphanVars

LEMMA WorkersKeepType ==
  ASSUME ReliableQueueAssumption, TypeOK, [Next]_vars
  PROVE  WorkersTypeOK'
<1> USE DEF TypeOK, WorkersTypeOK, workerVars
<1>1. CASE UNCHANGED workerVars
  BY <1>1
<1>2. ASSUME NEW w \in Workers, WorkerStep(w) PROVE WorkersTypeOK'
  <2> USE DEF Goto, PCs, HasJob, Released, ReliableQueueAssumption
  <2>1. ready # <<>> => Head(ready) \in Jobs
    BY ListOfJobs DEF QueuesTypeOK
  <2>2. CASE Length(w)
    BY <2>2 DEF Length
  <2>3. CASE Peek(w)
    <3>1. PICK seen \in Jobs \cup {NoJob} :
            /\ peeked' = [peeked EXCEPT ![w].job = seen]
            /\ pc' = [pc EXCEPT ![w] = IF seen = NoJob THEN "pop" ELSE "read"]
      BY <2>1, <2>3 DEF Peek
    <3>2. peeked' \in [Workers -> [job : Jobs \cup {NoJob}, retry : Nat]]
      BY <3>1
    <3>3. \A v \in Workers : pc'[v] = "read" => peeked'[v].job # NoJob
      BY <3>1
    <3> QED
      BY <2>3, <3>1, <3>2, <3>3 DEF Peek
  <2>4. CASE ReadPeeked(w)
    <3>1. retryCount[peeked[w].job] \in Nat
      BY <2>4 DEF ReadPeeked, CountersTypeOK
    <3>2. peeked' \in [Workers -> [job : Jobs \cup {NoJob}, retry : Nat]]
      BY <2>4, <3>1 DEF ReadPeeked
    <3>3. \A v \in Workers : pc'[v] = "read" => peeked'[v].job # NoJob
      BY <2>4 DEF ReadPeeked
    <3> QED
      BY <2>4, <3>2, <3>3 DEF ReadPeeked
  <2>5. CASE Pop(w)
    <3>1. peeked' \in [Workers -> [job : Jobs \cup {NoJob}, retry : Nat]]
      BY <2>5 DEF Pop, NothingPeeked
    <3>2. \A v \in Workers : pc'[v] = "read" => peeked'[v].job # NoJob
      BY <2>5 DEF Pop, Popped
    <3>3. CASE ready = <<>>
      BY <2>5, <3>1, <3>2, <3>3 DEF Pop, Popped
    <3>4. CASE ready # <<>>
      <4>1. pc' = [pc EXCEPT ![w] = "load"] /\ job' = [job EXCEPT ![w] = Head(ready)]
        BY <2>5, <3>4 DEF Pop, Popped
      <4>2. pc' \in [Workers -> PCs] /\ job' \in [Workers -> Jobs \cup {NoJob}]
        BY <2>1, <3>4, <4>1
      <4>3. \A v \in Workers : job'[v] # NoJob <=> pc'[v] \in HasJob
        BY <2>1, <3>4, <4>1
      <4>4. loaded' = loaded
        BY <2>5 DEF Pop, Popped
      <4> QED
        BY <3>1, <3>2, <4>2, <4>3, <4>4
    <3> QED
      BY <3>3, <3>4
  <2>6. CASE Load(w)
    <3>1. retryCount[job[w]] \in Nat
      BY <2>6 DEF Load, CountersTypeOK
    <3> QED
      BY <2>6, <3>1 DEF Load
  <2>7. CASE WorkEnds(w)
    BY <2>7 DEF WorkEnds
  <2>8. CASE Release(w)
    BY <2>8 DEF Release, ReliableAck
  <2>9. CASE Complete(w)
    BY <2>9 DEF Complete, EndTick, Forget
  <2>10. CASE Failed(w)
    BY <2>10 DEF Failed
  <2>11. CASE Requeue(w)
    BY <2>11 DEF Requeue, EndTick, Forget
  <2> QED
    BY <1>2, <2>2, <2>3, <2>4, <2>5, <2>6, <2>7, <2>8, <2>9, <2>10, <2>11 DEF WorkerStep
<1>3. ASSUME NEW w \in Workers, AckThrows(w) PROVE WorkersTypeOK'
  BY <1>3 DEF AckThrows, Goto, PCs, HasJob, Released
<1>4. ASSUME NEW w \in Workers, Crash(w) PROVE WorkersTypeOK'
  <2>1. peeked' \in [Workers -> [job : Jobs \cup {NoJob}, retry : Nat]]
    BY <1>4 DEF Crash, NothingPeeked
  <2> QED
    BY <1>4, <2>1 DEF Crash, EndTick, Forget, Goto, PCs, HasJob, Released
<1>5. ASSUME NEW w \in Workers, Heartbeat(w) PROVE WorkersTypeOK'
  BY <1>1, <1>5 DEF Heartbeat, ExtendDeadline
<1>6. ASSUME NEW j \in Jobs, Admit(j) \/ MoveToReady(j) \/ DeadlinePasses(j) \/ OrphanEnd(j)
      PROVE  WorkersTypeOK'
  BY <1>1, <1>6 DEF Admit, MoveToReady, DeadlinePasses, OrphanEnd
<1>7. CASE Recovery \/ RecoveryFails
  BY <1>1, <1>7 DEF Recovery, Recover, RecoveryFails
<1> QED
  BY <1>1, <1>2, <1>3, <1>4, <1>5, <1>6, <1>7 DEF Next, vars

\* The keys and the local variables of the workers only ever hold values of
\* their types; a worker has a job exactly from the pop to the end of its tick.
THEOREM TypeCorrect == Spec => []TypeOK
<1>1. Init => TypeOK
  BY ReliableQueueAssumption, InitTypeOK
<1>2. TypeOK /\ [Next]_vars => TypeOK'
  BY ReliableQueueAssumption, QueuesKeepType, LeasesKeepType, CountersKeepType, WorkersKeepType DEF
    TypeOK
<1> QED
  BY <1>1, <1>2, PTL DEF Spec

-----------------------------------------------------------------------------
\* No step takes a retry off the count of a job.
LEMMA RetriesGrow ==
  ASSUME TypeOK, [Next]_vars, NEW j \in Jobs
  PROVE  retryCount'[j] \in Nat /\ retryCount'[j] >= retryCount[j]
<1>1. retryCount \in [Jobs -> Nat]
  BY DEF TypeOK, CountersTypeOK
<1>2. CASE UNCHANGED retryCount
  BY <1>1, <1>2
<1>3. ASSUME NEW w \in Workers, Failed(w)
      PROVE  retryCount'[j] \in Nat /\ retryCount'[j] >= retryCount[j]
  BY <1>1, <1>3 DEF Failed
<1>4. CASE Recovery
  <2>1. retryCount'[j] \in {retryCount[j], retryCount[j] + 1}
    BY <1>4 DEF Recovery, Recover
  <2> QED
    BY <1>1, <2>1
<1>5. Recovery \/ (\E w \in Workers : Failed(w)) \/ UNCHANGED retryCount
  BY DEF Next, WorkerStep, Length, Peek, ReadPeeked, Pop, Load, WorkEnds, Release, ReliableAck,
    Complete, Requeue, Heartbeat, ExtendDeadline, AckThrows, Crash, Admit, MoveToReady,
    DeadlinePasses, OrphanEnd, RecoveryFails, vars
<1> QED
  BY <1>2, <1>3, <1>4, <1>5

\* What a worker has read of the job that it peeked at is not ahead of the job.
PeekedBehind ==
  \A w \in Workers : pc[w] = "pop" /\ peeked[w].job # NoJob
                       => peeked[w].retry <= retryCount[peeked[w].job]

LEMMA PeekedStaysBehind ==
  ASSUME TypeOK, PeekedBehind, [Next]_vars
  PROVE  PeekedBehind'
<1> SUFFICES ASSUME NEW w \in Workers, pc'[w] = "pop", peeked'[w].job # NoJob
             PROVE  peeked'[w].retry <= retryCount'[peeked'[w].job]
  BY DEF PeekedBehind
<1>1. /\ pc \in [Workers -> PCs] /\ retryCount \in [Jobs -> Nat]
      /\ peeked \in [Workers -> [job : Jobs \cup {NoJob}, retry : Nat]]
  BY DEF TypeOK, WorkersTypeOK, CountersTypeOK
<1>2. CASE pc'[w] = pc[w] /\ peeked'[w] = peeked[w]
  <2>1. peeked[w].job \in Jobs /\ peeked[w].retry <= retryCount[peeked[w].job]
    BY <1>1, <1>2 DEF PeekedBehind
  <2>2. retryCount'[peeked[w].job] \in Nat /\ retryCount'[peeked[w].job] >= retryCount[peeked[w].job]
    BY <2>1, RetriesGrow
  <2> QED
    BY <1>1, <1>2, <2>1, <2>2
<1>3. CASE Peek(w)
  <2>1. ready # <<>> => pc'[w] = "read"
    BY <1>1, <1>3 DEF Peek, Goto
  <2>2. ready = <<>> => peeked'[w].job = NoJob
    BY <1>1, <1>3 DEF Peek
  <2> QED
    BY <2>1, <2>2
<1>4. CASE ReadPeeked(w)
  <2>1. peeked'[w] = [peeked[w] EXCEPT !.retry = retryCount[peeked[w].job]]
    BY <1>1, <1>4 DEF ReadPeeked
  <2>2. peeked'[w].job = peeked[w].job /\ peeked'[w].retry = retryCount[peeked[w].job]
    BY <1>1, <2>1
  <2>3. retryCount' = retryCount /\ peeked[w].job \in Jobs
    BY <1>1, <1>4, <2>2 DEF ReadPeeked
  <2> QED
    BY <1>1, <2>2, <2>3
<1>5. ASSUME NEW v \in Workers, WorkerStep(v) \/ Heartbeat(v) \/ AckThrows(v) \/ Crash(v), v # w
      PROVE  pc'[w] = pc[w] /\ peeked'[w] = peeked[w]
  BY <1>1, <1>5 DEF WorkerStep, Length, Peek, ReadPeeked, Pop, Load, WorkEnds, Release,
    ReliableAck, Complete, Failed, Requeue, EndTick, Goto, Heartbeat, ExtendDeadline, AckThrows,
    Crash, workerVars
<1>6. ASSUME WorkerStep(w) \/ Heartbeat(w) \/ AckThrows(w) \/ Crash(w)
      PROVE  Peek(w) \/ ReadPeeked(w) \/ (pc'[w] = pc[w] /\ peeked'[w] = peeked[w])
  BY <1>1, <1>6 DEF WorkerStep, Length, Pop, Load, WorkEnds, Release, ReliableAck, Complete,
    Failed, Requeue, EndTick, Goto, Heartbeat, ExtendDeadline, AckThrows, Crash, workerVars
<1>7. (\E v \in Workers : WorkerStep(v) \/ Heartbeat(v) \/ AckThrows(v) \/ Crash(v))
        \/ UNCHANGED <<pc, peeked>>
  BY DEF Next, Recovery, Recover, RecoveryFails, Admit, MoveToReady, DeadlinePasses, OrphanEnd,
    workerVars, vars
<1> QED
  BY <1>2, <1>3, <1>4, <1>5, <1>6, <1>7

LEMMA PeekedHolds == Spec => []PeekedBehind
<1>1. Init => PeekedBehind
  BY DEF Init, PeekedBehind
<1>2. TypeOK /\ PeekedBehind /\ [Next]_vars => PeekedBehind'
  BY PeekedStaysBehind
<1> QED
  BY <1>1, <1>2, TypeCorrect, PTL DEF Spec

\* The pop of a job that its worker has peeked at describes the job.
LEMMA PopDescribes ==
  ASSUME TypeOK, PeekedBehind, NEW w \in Workers, Pop(w), ready # <<>>,
         ~PeekedMeta(w).raced
  PROVE  /\ PeekedMeta(w).group = GroupOf[Head(ready)]
         /\ PeekedMeta(w).retry <= retryCount[Head(ready)]
<1>1. peeked[w].job = Head(ready) /\ Head(ready) \in Jobs /\ pc[w] = "pop"
  BY ListOfJobs DEF PeekedMeta, Pop, TypeOK, QueuesTypeOK
<1>2. peeked[w].job # NoJob
  BY <1>1, ReliableQueueAssumption
<1> QED
  BY <1>1, <1>2 DEF PeekedMeta, PeekedGroup, PeekedBehind

\* The keys of the leases: each script that changes one changes the other.
LEMMA KeysAgree ==
  ASSUME TypeOK, DOMAIN meta = DOMAIN inFlight, [Next]_vars
  PROVE  DOMAIN meta' = DOMAIN inFlight'
<1> USE DEF ZAdd, ZRem, Restrict
<1>1. ASSUME UNCHANGED <<inFlight, meta>> PROVE DOMAIN meta' = DOMAIN inFlight'
  BY <1>1
<1>2. ASSUME NEW j \in Jobs, Admit(j) \/ MoveToReady(j) \/ DeadlinePasses(j) \/ OrphanEnd(j)
      PROVE  DOMAIN meta' = DOMAIN inFlight'
  BY <1>2 DEF Admit, MoveToReady, DeadlinePasses, OrphanEnd
<1>3. ASSUME NEW w \in Workers, WorkerStep(w) \/ Heartbeat(w) \/ AckThrows(w) \/ Crash(w)
      PROVE  DOMAIN meta' = DOMAIN inFlight'
  <2>1. CASE Pop(w)
    BY <2>1 DEF Pop, Popped, Leased
  <2>2. CASE Release(w)
    BY <2>2 DEF Release, ReliableAck
  <2>3. CASE Heartbeat(w)
    BY <2>3 DEF Heartbeat, ExtendDeadline, MayExtend, Leased
  <2>4. CASE ~(Pop(w) \/ Release(w) \/ Heartbeat(w))
    BY <1>1, <1>3, <2>4 DEF WorkerStep, Length, Peek, ReadPeeked, Load, WorkEnds, Complete,
      Failed, Requeue, AckThrows, Crash
  <2> QED
    BY <2>1, <2>2, <2>3, <2>4
<1>4. CASE Recovery
  BY <1>4 DEF Recovery, Recover, StillInFlight
<1>5. CASE RecoveryFails
  BY <1>1, <1>5 DEF RecoveryFails
<1>6. CASE UNCHANGED vars
  BY <1>1, <1>6 DEF vars
<1> QED
  BY <1>2, <1>3, <1>4, <1>5, <1>6 DEF Next

\* A hash is only ever written by a pop, or by a heartbeat when it is not there,
\* which the keys exclude.
LEMMA HashesAreOfPops ==
  ASSUME TypeOK, DOMAIN meta = DOMAIN inFlight, [Next]_vars, NEW j \in DOMAIN meta'
  PROVE  \/ j \in DOMAIN meta /\ meta'[j] = meta[j]
         \/ \E w \in Workers : /\ Pop(w) /\ ready # <<>> /\ j = Head(ready)
                               /\ meta'[j] = PeekedMeta(w)
<1>1. ASSUME UNCHANGED meta PROVE j \in DOMAIN meta /\ meta'[j] = meta[j]
  BY <1>1
<1>2. ASSUME NEW S, meta' = ZRem(meta, S) PROVE j \in DOMAIN meta /\ meta'[j] = meta[j]
  BY <1>2 DEF ZRem, Restrict
<1>3. ASSUME NEW w \in Workers, Pop(w), ready # <<>>
      PROVE  \/ j \in DOMAIN meta /\ meta'[j] = meta[j]
             \/ j = Head(ready) /\ meta'[j] = PeekedMeta(w)
  BY <1>3 DEF Pop, ZAdd
<1>4. ASSUME NEW w \in Workers, Heartbeat(w) PROVE UNCHANGED meta
  BY <1>4 DEF Heartbeat, ExtendDeadline, MayExtend
<1>5. \/ UNCHANGED meta \/ \E S : meta' = ZRem(meta, S)
      \/ \E w \in Workers : Pop(w) /\ ready # <<>>
      \/ \E w \in Workers : Heartbeat(w)
  BY DEF Next, WorkerStep, Length, Peek, ReadPeeked, Pop, Load, WorkEnds, Release, ReliableAck,
    Complete, Failed, Requeue, AckThrows, Crash, Admit, MoveToReady, DeadlinePasses, OrphanEnd,
    Recovery, Recover, RecoveryFails, vars
<1> QED
  BY <1>1, <1>2, <1>3, <1>4, <1>5

\* Every lease has its hash and no hash outlives its lease, although a heartbeat
\* writes both keys and may come after the acknowledgement of another worker or
\* after a recovery; and a hash names another group, or counts retries that the
\* job never had, only when another worker came between the peek and the pop.
THEOREM LeasesAreDescribed == Spec => []LeasesDescribeJobs
<1>1. Init => LeasesDescribeJobs
  BY DEF Init, LeasesDescribeJobs, EmptyZSet
<1>2. TypeOK /\ TypeOK' /\ PeekedBehind /\ LeasesDescribeJobs /\ [Next]_vars => LeasesDescribeJobs'
  <2> SUFFICES ASSUME TypeOK, TypeOK', PeekedBehind, LeasesDescribeJobs, [Next]_vars
               PROVE  LeasesDescribeJobs'
    OBVIOUS
  <2>1. DOMAIN meta = DOMAIN inFlight /\ DOMAIN meta' = DOMAIN inFlight'
    BY KeysAgree DEF LeasesDescribeJobs
  <2>2. ASSUME NEW j \in DOMAIN meta', ~meta'[j].raced
        PROVE  meta'[j].group = GroupOf[j] /\ meta'[j].retry <= retryCount'[j]
    <3>1. j \in Jobs /\ meta'[j].retry \in Nat /\ meta'[j].raced \in BOOLEAN
      BY DEF TypeOK, LeasesTypeOK
    <3>2. retryCount[j] \in Nat /\ retryCount'[j] \in Nat /\ retryCount'[j] >= retryCount[j]
      BY <3>1, RetriesGrow DEF TypeOK, CountersTypeOK
    <3>3. meta'[j].group = GroupOf[j] /\ meta'[j].retry <= retryCount[j]
      <4>1. CASE j \in DOMAIN meta /\ meta'[j] = meta[j]
        <5>1. ~Misleading(j) /\ retryCount[j] \in Nat /\ meta[j].retry \in Nat
          BY <2>2, <3>1, <3>2, <4>1 DEF LeasesDescribeJobs
        <5> QED
          BY <4>1, <5>1 DEF Misleading
      <4>2. ASSUME NEW w \in Workers, Pop(w), ready # <<>>, j = Head(ready),
                   meta'[j] = PeekedMeta(w)
            PROVE  meta'[j].group = GroupOf[j] /\ meta'[j].retry <= retryCount[j]
        BY <2>2, <4>2, PopDescribes
      <4> QED
        BY <2>1, <4>1, <4>2, HashesAreOfPops
    <3> QED
      BY <3>1, <3>2, <3>3
  <2>3. ASSUME NEW j \in DOMAIN meta', Misleading(j)' PROVE meta'[j].raced
    <3>1. j \in Jobs /\ meta'[j].retry \in Nat /\ retryCount'[j] \in Nat
      BY DEF TypeOK, LeasesTypeOK, CountersTypeOK
    <3>2. meta'[j].group # GroupOf[j] \/ meta'[j].retry > retryCount'[j]
      BY <2>3 DEF Misleading
    <3> QED
      BY <2>2, <3>1, <3>2
  <2> QED
    BY <2>1, <2>3 DEF LeasesDescribeJobs
<1> QED
  BY <1>1, <1>2, TypeCorrect, PeekedHolds, PTL DEF Spec

\* The end of a dead-lettered orphan is recorded and acknowledged for another
\* group than its own only if the worker that popped it had peeked another job,
\* or none: no crash, retry, recovery or late heartbeat leads there.
THEOREM AstrayEndsNeedRaces == Spec => AstrayNeedsRace
<1>1. TypeOK /\ LeasesDescribeJobs /\ [Next]_vars =>
        \A j \in Jobs : astray'[j] > astray[j] => j \in DOMAIN meta /\ meta[j].raced
  <2> SUFFICES ASSUME TypeOK, LeasesDescribeJobs, [Next]_vars, NEW j \in Jobs,
                      astray'[j] > astray[j]
               PROVE  j \in DOMAIN meta /\ meta[j].raced
    OBVIOUS
  <2>1. astray[j] \in Nat /\ astray \in [Jobs -> Nat]
    BY DEF TypeOK, CountersTypeOK
  <2>2. astray' # astray
    BY <2>1
  <2>3. ASSUME NEW jobs \in SUBSET Jobs, NEW stray \in SUBSET jobs, Taken(jobs, stray) PROVE FALSE
    <3>1. astray'[j] = astray[j] - CountIf(j \in stray) /\ CountIf(j \in stray) \in {0, 1}
      BY <2>3 DEF Taken, CountIf
    <3> QED
      BY <2>1, <3>1
  <2>4. PICK orphans \in Orphans : Recover(orphans)
    <3>1. ~RecoveryFails
      BY <2>3 DEF RecoveryFails
    <3>2. \A x \in Jobs : ~OrphanEnd(x)
      BY <2>3 DEF OrphanEnd
    <3>3. Recovery
      BY <2>2, <3>1, <3>2 DEF Next, WorkerStep, Length, Peek, ReadPeeked, Pop, Load, WorkEnds,
        Release, ReliableAck, Complete, Failed, Requeue, Heartbeat, ExtendDeadline, AckThrows,
        Crash, Admit, MoveToReady, DeadlinePasses, vars, orphanVars
    <3> QED
      BY <3>3 DEF Recovery
  <2> DEFINE lost == {x \in orphans : Exhausted(x)}
             strays == j \in lost /\ meta[j].group # GroupOf[j]
  <2>5. astray'[j] = astray[j] + CountIf(strays)
    BY <2>4 DEF Recover
  <2>6. strays
    BY <2>1, <2>5 DEF CountIf
  <2>7. orphans \subseteq DOMAIN inFlight
    BY DEF Orphans, OverdueJobs, ZDue
  <2> QED
    BY <2>6, <2>7 DEF LeasesDescribeJobs, Misleading
<1> QED
  BY <1>1, TypeCorrect, LeasesAreDescribed, PTL DEF AstrayNeedsRace, Spec

-----------------------------------------------------------------------------
(* How often a job is in a list. *)

\* RPUSH of a batch of different jobs.
LEMMA BatchCount ==
  ASSUME NEW S, NEW s \in Seq(S), NEW b \in Seq(S), NEW x,
         \A i, k \in DOMAIN b : i # k => b[i] # b[k]
  PROVE  Count(s \o b, x) = Count(s, x) + CountIf(x \in Range(b))
<1> DEFINE t == s \o b
<1>1. /\ Len(s) \in Nat /\ Len(b) \in Nat /\ DOMAIN s = 1..Len(s) /\ DOMAIN b = 1..Len(b)
      /\ t \in Seq(S) /\ Len(t) = Len(s) + Len(b)
      /\ \A i \in 1..Len(s) + Len(b) : t[i] = IF i <= Len(s) THEN s[i] ELSE b[i - Len(s)]
  BY LenProperties, ConcatProperties
<1>2. DOMAIN t = 1..(Len(s) + Len(b))
  BY <1>1, LenProperties
<1>3. \A i \in DOMAIN s : i \in DOMAIN t /\ t[i] = s[i]
  BY <1>1, <1>2
<1>4. \A k \in DOMAIN b : Len(s) + k \in DOMAIN t \ DOMAIN s /\ t[Len(s) + k] = b[k]
  BY <1>1, <1>2
<1>5. \A i \in DOMAIN t \ DOMAIN s : i - Len(s) \in DOMAIN b /\ t[i] = b[i - Len(s)]
  BY <1>1, <1>2
<1> HIDE DEF t
<1>6. IsFiniteSet(Positions(s, x)) /\ Count(s, x) \in Nat
  BY PositionsFinite
<1>7. CASE x \in Range(b)
  <2>1. PICK k \in DOMAIN b : b[k] = x
    BY <1>7 DEF Range
  <2>2. \A i \in DOMAIN t \ DOMAIN s : t[i] = x => i = Len(s) + k
    BY <1>1, <1>2, <1>5, <2>1
  <2>3. Positions(t, x) = Positions(s, x) \cup {Len(s) + k} /\ Len(s) + k \notin Positions(s, x)
    BY <1>3, <1>4, <2>1, <2>2 DEF Positions
  <2> QED
    BY <1>6, <1>7, <2>3, FS_AddElement DEF Count, CountIf, t
<1>8. CASE x \notin Range(b)
  <2>1. \A i \in DOMAIN t \ DOMAIN s : t[i] # x
    BY <1>5, <1>8 DEF Range
  <2>2. Positions(t, x) = Positions(s, x)
    BY <1>3, <2>1 DEF Positions
  <2> QED
    BY <1>6, <1>8, <2>2 DEF Count, CountIf, t
<1> QED
  BY <1>7, <1>8

-----------------------------------------------------------------------------
(* The account of one job: what of Copies each step moves. *)

Listed(j) == Count(ready, j)
Held(j) == Cardinality(Holders(j))
Waits(j) == CountIf(j \in nonReady)
Left(j) == CountIf(j \in DOMAIN inFlight /\ Keepers(j) = {})
Ending(j) == orphanEnds[j]

\* A lease that has run out under a worker that is still alive.
Late(j) == j \in DOMAIN inFlight /\ inFlight[j] = Overdue /\ Keepers(j) # {}

Adds(j) ==
  /\ Copies(j) = Listed(j) + Held(j) + Waits(j) + Left(j) + Ending(j) + ends[j]
  /\ Owed(j) = Listed(j) + Held(j) + Waits(j) + Left(j) + Ending(j)
  /\ Listed(j) \in Nat /\ Held(j) \in Nat /\ ends[j] \in Nat /\ stalls[j] \in Nat
  /\ Waits(j) \in {0, 1} /\ Left(j) \in {0, 1} /\ Ending(j) \in Nat
  /\ IsFiniteSet(Holders(j)) /\ (Keepers(j) # {} => Held(j) > 0)

AddUp == \A j \in Jobs : Adds(j)

LEMMA Parts == TypeOK => AddUp
<1> SUFFICES ASSUME TypeOK, NEW j \in Jobs PROVE Adds(j)
  BY DEF AddUp
<1> USE ReliableQueueAssumption
<1>1. Listed(j) \in Nat
  BY PositionsFinite DEF TypeOK, QueuesTypeOK, Listed
<1>2. IsFiniteSet(Holders(j))
  BY FS_Subset DEF Holders, ReliableQueueAssumption
<1>3. Held(j) \in Nat /\ (Holders(j) # {} => Held(j) # 0)
  BY <1>2, FS_CardinalityType, FS_EmptySet DEF Held
<1>4. ends[j] \in Nat /\ stalls[j] \in Nat
  BY DEF TypeOK, CountersTypeOK
<1>5. Waits(j) \in {0, 1} /\ Left(j) \in {0, 1} /\ Ending(j) \in Nat
  BY DEF Waits, Left, Ending, CountIf, TypeOK, CountersTypeOK
<1>6. Keepers(j) # {} => Held(j) > 0
  BY <1>3 DEF Keepers
<1>7. Copies(j) = Listed(j) + Held(j) + Waits(j) + Left(j) + Ending(j) + ends[j]
  BY DEF Copies, Listed, Count, Positions, Held, Waits, Left, Ending
<1>8. Owed(j) = Listed(j) + Held(j) + Waits(j) + Left(j) + Ending(j)
  <2> DEFINE o == Listed(j) + Held(j) + Waits(j) + Left(j) + Ending(j)
  <2>1. o \in Nat /\ Owed(j) = (o + ends[j]) - ends[j]
    BY <1>1, <1>3, <1>5, <1>7 DEF Owed
  <2> HIDE DEF o
  <2>2. Owed(j) = o
    BY <1>4, <2>1
  <2> QED
    BY <2>2 DEF o
<1> QED
  BY <1>1, <1>2, <1>3, <1>4, <1>5, <1>6, <1>7, <1>8 DEF Adds

LEMMA PartsNext == TypeOK' => AddUp'
  BY Parts, PTL

Rests(j) == Owed(j)' = Owed(j) /\ ends'[j] = ends[j] /\ stalls'[j] = stalls[j]
Finishes(j) ==
  Owed(j) > 0 /\ Owed(j)' = Owed(j) - 1 /\ ends'[j] = ends[j] + 1 /\ stalls'[j] = stalls[j]
Drops(j) ==
  Owed(j) > 0 /\ Owed(j)' = Owed(j) - 1 /\ ends'[j] = ends[j] /\ stalls'[j] = stalls[j]
Delays(j) ==
  Owed(j) > 0 /\ Owed(j)' = Owed(j) /\ ends'[j] = ends[j] /\ stalls'[j] = stalls[j] + 1
Repeats(j) ==
  Late(j) /\ Owed(j)' = Owed(j) + 1 /\ ends'[j] = ends[j] /\ stalls'[j] = stalls[j]

\* What every step but the admission of the job does to its account: it takes a
\* late lease to start one more handling, and only delays make a lease late.
Moves(j) ==
  /\ Rests(j) \/ Finishes(j) \/ Drops(j) \/ Delays(j) \/ Repeats(j)
  /\ Late(j)' => Delays(j) \/ (Late(j) /\ ~Repeats(j))
  /\ j \in DOMAIN inFlight' => j \in DOMAIN inFlight \/ Listed(j) > 0

\* A step that leaves the places of a job alone.
LEMMA Unmoved ==
  ASSUME TypeOK, TypeOK', NEW j \in Jobs,
         Listed(j)' = Listed(j), Held(j)' = Held(j), Waits(j)' = Waits(j), Ending(j)' = Ending(j),
         Keepers(j)' = Keepers(j), ends'[j] = ends[j], stalls'[j] = stalls[j],
         j \in DOMAIN inFlight' <=> j \in DOMAIN inFlight,
         j \in DOMAIN inFlight => inFlight'[j] = inFlight[j] \/ inFlight'[j] = Live
  PROVE  Moves(j)
<1>1. Left(j)' = Left(j)
  BY DEF Left
<1>2. Adds(j) /\ Adds(j)'
  BY Parts, PartsNext DEF AddUp
<1>3. Owed(j)' = Owed(j) /\ Owed(j) \in Nat
  BY <1>1, <1>2 DEF Adds
<1>4. Rests(j)
  BY <1>3 DEF Rests
<1>5. Late(j)' => Late(j)
  BY DEF Late, Live, Overdue
<1> QED
  BY <1>3, <1>4, <1>5 DEF Moves, Rests, Repeats

LEMMA SameKeepers ==
  ASSUME NEW j \in Jobs, UNCHANGED job,
         \A v \in Holders(j) : pc'[v] \in Released <=> pc[v] \in Released
  PROVE  Holders(j)' = Holders(j) /\ Held(j)' = Held(j) /\ Keepers(j)' = Keepers(j)
<1>1. Holders(j)' = Holders(j)
  BY DEF Holders
<1> QED
  BY <1>1 DEF Held, Keepers

\* Steps inside a worker: it still has its job, and has released it or not.
LEMMA WorkerMoves ==
  ASSUME TypeOK, TypeOK', NEW j \in Jobs, NEW w \in Workers,
         Length(w) \/ Peek(w) \/ ReadPeeked(w) \/ Load(w) \/ WorkEnds(w) \/ Failed(w) \/ AckThrows(w)
           \/ Heartbeat(w)
  PROVE  Moves(j)
<1>1. /\ UNCHANGED <<ready, nonReady, orphanEnds, ends, stalls, job>>
      /\ DOMAIN inFlight' = DOMAIN inFlight
      /\ \A k \in DOMAIN inFlight : inFlight'[k] = inFlight[k] \/ inFlight'[k] = Live
  BY DEF Length, Peek, ReadPeeked, Load, WorkEnds, Failed, AckThrows, Heartbeat, ExtendDeadline,
    failureVars, workerVars, MayExtend, Leased, ZAdd, orphanVars
<1>2. \A v \in Workers \ {w} : pc'[v] = pc[v]
  BY DEF Length, Peek, ReadPeeked, Load, WorkEnds, Failed, AckThrows, Heartbeat, ExtendDeadline,
    Goto, workerVars, TypeOK, WorkersTypeOK
<1>3. job[w] # NoJob => (pc'[w] \in Released <=> pc[w] \in Released)
  BY DEF Length, Peek, ReadPeeked, Load, WorkEnds, Failed, AckThrows, Heartbeat, ExtendDeadline,
    Goto, Released, HasJob, workerVars, TypeOK, WorkersTypeOK
<1>4. j # NoJob
  BY ReliableQueueAssumption
<1>5. \A v \in Holders(j) : pc'[v] \in Released <=> pc[v] \in Released
  BY <1>2, <1>3, <1>4 DEF Holders
<1>6. Held(j)' = Held(j) /\ Keepers(j)' = Keepers(j)
  BY <1>1, <1>5, SameKeepers
<1>7. Listed(j)' = Listed(j) /\ Waits(j)' = Waits(j) /\ Ending(j)' = Ending(j)
  BY <1>1 DEF Listed, Count, Positions, Waits, Ending
<1> QED
  BY <1>1, <1>6, <1>7, Unmoved

\* A worker takes the head of the list; the new lease replaces one that nobody
\* stood for.
LEMMA PopMoves ==
  ASSUME TypeOK, TypeOK', NEW j \in Jobs, NEW w \in Workers, Pop(w)
  PROVE  Moves(j)
<1>1. UNCHANGED <<nonReady, orphanEnds, ends, stalls>> /\ job[w] = NoJob /\ pc[w] = "pop" /\ j # NoJob
  BY ReliableQueueAssumption DEF Pop, failureVars, orphanVars, TypeOK, WorkersTypeOK, HasJob,
    Released
<1>2. CASE ready = <<>>
  <2>1. UNCHANGED <<ready, inFlight, job>> /\ \A v \in Workers \ {w} : pc'[v] = pc[v]
    BY <1>2 DEF Pop, Goto, TypeOK, WorkersTypeOK
  <2>2. \A v \in Holders(j) : pc'[v] \in Released <=> pc[v] \in Released
    BY <1>1, <2>1 DEF Holders
  <2>3. Held(j)' = Held(j) /\ Keepers(j)' = Keepers(j)
    BY <2>1, <2>2, SameKeepers
  <2>4. Listed(j)' = Listed(j) /\ Waits(j)' = Waits(j) /\ Ending(j)' = Ending(j)
    BY <1>1, <2>1 DEF Listed, Count, Positions, Waits, Ending
  <2> QED
    BY <1>1, <2>1, <2>3, <2>4, Unmoved
<1>3. CASE ready # <<>>
  <2> DEFINE x == Head(ready)
  <2>1. /\ ready' = Tail(ready) /\ inFlight' = ZAdd(inFlight, x, Live)
        /\ job' = [job EXCEPT ![w] = x] /\ pc' = [pc EXCEPT ![w] = "load"]
    BY <1>3 DEF Pop, Popped, Leased, Goto
  <2>2. ready \in Seq(Jobs) /\ x \in Jobs
    BY <1>3, HeadTailProperties DEF TypeOK, QueuesTypeOK
  <2>3. Listed(j) = Listed(j)' + CountIf(j = x)
    BY <1>3, <2>1, <2>2, TailCount DEF Listed
  <2> HIDE DEF x
  <2>4. \A v \in Workers : /\ job'[v] = IF v = w THEN x ELSE job[v]
                           /\ pc'[v] = IF v = w THEN "load" ELSE pc[v]
    BY <2>1 DEF TypeOK, WorkersTypeOK
  <2>5. Waits(j)' = Waits(j) /\ Ending(j)' = Ending(j)
    BY <1>1 DEF Waits, Ending
  <2>6. Adds(j) /\ Adds(j)'
    BY Parts, PartsNext DEF AddUp
  <2>7. CASE j = x
    <3>1. Holders(j)' = Holders(j) \cup {w} /\ w \notin Holders(j)
      BY <1>1, <2>4, <2>7 DEF Holders
    <3>2. Held(j)' = Held(j) + 1
      BY <2>6, <3>1, FS_AddElement DEF Held, Adds
    <3>3. w \in Keepers(j)'
      BY <2>4, <3>1 DEF Keepers, Released
    <3>4. Left(j)' = 0 /\ ~Late(j)'
      BY <2>1, <2>7, <3>3 DEF Left, CountIf, Late, ZAdd, Live, Overdue
    <3>5. Listed(j) = Listed(j)' + 1
      BY <2>3, <2>7 DEF CountIf
    <3>6. Owed(j)' = Owed(j) \/ (Owed(j) > 0 /\ Owed(j)' = Owed(j) - 1)
      BY <2>5, <2>6, <3>2, <3>4, <3>5 DEF Adds
    <3>7. Rests(j) \/ Drops(j)
      BY <1>1, <3>6 DEF Rests, Drops
    <3>8. Listed(j) > 0
      BY <2>6, <3>5 DEF Adds
    <3> QED
      BY <3>4, <3>7, <3>8 DEF Moves
  <2>8. CASE j # x
    <3>1. Holders(j)' = Holders(j)
      BY <1>1, <2>4, <2>8 DEF Holders
    <3>2. Held(j)' = Held(j) /\ Keepers(j)' = Keepers(j)
      BY <1>1, <2>4, <3>1 DEF Held, Keepers, Holders
    <3>3. Listed(j)' = Listed(j)
      BY <2>3, <2>6, <2>8 DEF CountIf, Adds
    <3>4. /\ j \in DOMAIN inFlight' <=> j \in DOMAIN inFlight
          /\ j \in DOMAIN inFlight => inFlight'[j] = inFlight[j]
      BY <2>1, <2>8 DEF ZAdd
    <3> QED
      BY <1>1, <2>5, <3>2, <3>3, <3>4, Unmoved
  <2> QED
    BY <2>7, <2>8
<1> QED
  BY <1>2, <1>3

\* A lease goes with whoever gives the job back, the own one or another's.
LEMMA ReleaseMoves ==
  ASSUME TypeOK, TypeOK', NEW j \in Jobs, NEW w \in Workers, Release(w)
  PROVE  Moves(j)
<1>1. /\ UNCHANGED <<ready, nonReady, orphanEnds, ends, stalls, job>>
      /\ inFlight' = ZRem(inFlight, {job[w]})
  BY DEF Release, ReliableAck, failureVars, orphanVars
<1>2. \A v \in Workers : v # w => pc'[v] = pc[v]
  BY DEF Release, ReliableAck, Goto, TypeOK, WorkersTypeOK
<1>3. Held(j)' = Held(j) /\ Holders(j)' = Holders(j)
  BY <1>1 DEF Held, Holders
<1>4. Listed(j)' = Listed(j) /\ Waits(j)' = Waits(j) /\ Ending(j)' = Ending(j)
  BY <1>1 DEF Listed, Count, Positions, Waits, Ending
<1>5. Adds(j) /\ Adds(j)'
  BY Parts, PartsNext DEF AddUp
<1>6. CASE j = job[w]
  <2>1. j \notin DOMAIN inFlight'
    BY <1>1, <1>6 DEF ZRem, Restrict
  <2>2. Left(j)' = 0 /\ ~Late(j)'
    BY <2>1 DEF Left, CountIf, Late
  <2>3. Owed(j)' = Owed(j) \/ (Owed(j) > 0 /\ Owed(j)' = Owed(j) - 1)
    BY <1>3, <1>4, <1>5, <2>2 DEF Adds
  <2>4. Rests(j) \/ Drops(j)
    BY <1>1, <2>3 DEF Rests, Drops
  <2> QED
    BY <2>1, <2>2, <2>4 DEF Moves
<1>7. CASE j # job[w]
  <2>1. Keepers(j)' = Keepers(j)
    BY <1>2, <1>3, <1>7 DEF Keepers, Holders
  <2>2. /\ j \in DOMAIN inFlight' <=> j \in DOMAIN inFlight
        /\ j \in DOMAIN inFlight => inFlight'[j] = inFlight[j]
    BY <1>1, <1>7 DEF ZRem, Restrict
  <2> QED
    BY <1>1, <1>3, <1>4, <2>1, <2>2, Unmoved
<1> QED
  BY <1>6, <1>7

\* The end of a tick takes the job from its worker and from nobody else.
LEMMA EndTickHolders ==
  ASSUME TypeOK, NEW j \in Jobs, NEW w \in Workers, EndTick(w)
  PROVE  /\ Holders(j)' = Holders(j) \ {w}
         /\ Held(j)' = IF j = job[w] THEN Held(j) - 1 ELSE Held(j)
         /\ Keepers(j)' = Keepers(j) \ {w}
<1>1. j # NoJob
  BY ReliableQueueAssumption
<1>2. \A v \in Workers : /\ job'[v] = IF v = w THEN NoJob ELSE job[v]
                         /\ pc'[v] = IF v = w THEN "idle" ELSE pc[v]
  BY DEF EndTick, Forget, Goto, TypeOK, WorkersTypeOK
<1>3. Holders(j)' = Holders(j) \ {w} /\ Holders(j) \subseteq Workers
  BY <1>1, <1>2 DEF Holders
<1>4. Keepers(j)' = Keepers(j) \ {w}
  <2>1. \A v \in Holders(j)' : v \in Holders(j) /\ v # w /\ pc'[v] = pc[v]
    BY <1>2, <1>3
  <2>2. \A v \in Holders(j) \ {w} : v \in Holders(j)'
    BY <1>3
  <2> QED
    BY <2>1, <2>2 DEF Keepers
<1>5. IsFiniteSet(Holders(j)) /\ (w \in Holders(j) <=> j = job[w])
  BY Parts DEF AddUp, Adds, Holders
<1>6. Held(j)' = IF j = job[w] THEN Held(j) - 1 ELSE Held(j)
  BY <1>3, <1>5, FS_RemoveElement DEF Held
<1> QED
  BY <1>3, <1>4, <1>6

LEMMA TickEndMoves ==
  ASSUME TypeOK, TypeOK', NEW j \in Jobs, NEW w \in Workers, Complete(w) \/ Requeue(w) \/ Crash(w)
  PROVE  Moves(j)
<1>1. UNCHANGED <<ready, orphanEnds, inFlight, stalls>> /\ EndTick(w)
  BY DEF Complete, Requeue, Crash, failureVars, orphanVars
<1>2. /\ Held(j)' = IF j = job[w] THEN Held(j) - 1 ELSE Held(j)
      /\ Keepers(j)' = Keepers(j) \ {w}
  BY <1>1, EndTickHolders
<1>3. Listed(j)' = Listed(j) /\ Ending(j)' = Ending(j)
  BY <1>1 DEF Listed, Count, Positions, Ending
<1>4. Adds(j) /\ Adds(j)'
  BY Parts, PartsNext DEF AddUp
<1>5. j = job[w] => Held(j) > 0
  <2>1. j = job[w] => w \in Holders(j)
    BY DEF Holders
  <2>2. Held(j) # 0 \/ Holders(j) = {}
    BY <1>4, FS_EmptySet DEF Adds, Held
  <2> QED
    BY <1>4, <2>1, <2>2 DEF Adds
<1>6. Late(j)' => Late(j)
  BY <1>1, <1>2 DEF Late
<1>7. CASE j # job[w]
  <2>1. Keepers(j)' = Keepers(j)
    BY <1>2, <1>7 DEF Keepers, Holders
  <2>2. ends'[j] = ends[j] /\ Waits(j)' = Waits(j)
    BY <1>7 DEF Complete, Requeue, Crash, Waits, TypeOK, CountersTypeOK
  <2> QED
    BY <1>1, <1>2, <1>3, <1>7, <2>1, <2>2, Unmoved
<1>8. CASE j = job[w] /\ (Complete(w) \/ Requeue(w))
  <2>1. Keepers(j)' = Keepers(j)
    BY <1>2, <1>8 DEF Complete, Requeue, Keepers, Released
  <2>2. Left(j)' = Left(j)
    BY <1>1, <2>1 DEF Left
  <2>3. CASE Complete(w)
    <3>1. Waits(j)' = Waits(j) /\ ends'[j] = ends[j] + 1
      BY <1>8, <2>3 DEF Complete, Waits, TypeOK, CountersTypeOK
    <3>2. Owed(j) > 0 /\ Owed(j)' = Owed(j) - 1
      BY <1>2, <1>3, <1>4, <1>5, <1>8, <2>2, <3>1 DEF Adds
    <3>3. Finishes(j) /\ Owed(j)' # Owed(j) + 1
      BY <1>1, <1>4, <3>1, <3>2 DEF Finishes, Adds
    <3> QED
      BY <1>1, <1>6, <3>3 DEF Moves, Repeats
  <2>4. CASE Requeue(w)
    <3>1. Waits(j)' = 1 /\ ends' = ends
      BY <1>8, <2>4 DEF Requeue, Waits, CountIf
    <3>2. Owed(j)' = Owed(j) \/ (Owed(j) > 0 /\ Owed(j)' = Owed(j) - 1)
      BY <1>2, <1>3, <1>4, <1>5, <1>8, <2>2, <3>1 DEF Adds
    <3>3. (Rests(j) \/ Drops(j)) /\ Owed(j)' # Owed(j) + 1
      BY <1>1, <1>4, <3>1, <3>2 DEF Rests, Drops, Adds
    <3> QED
      BY <1>1, <1>6, <3>3 DEF Moves, Repeats
  <2> QED
    BY <1>8, <2>3, <2>4
<1>9. CASE j = job[w] /\ Crash(w)
  <2>1. Waits(j)' = Waits(j) /\ ends' = ends
    BY <1>9 DEF Crash, Waits
  <2>2. Left(j) = 1 => Left(j)' = 1
    BY <1>1, <1>2 DEF Left, CountIf
  <2>3. Owed(j)' = Owed(j) \/ (Owed(j) > 0 /\ Owed(j)' = Owed(j) - 1)
    BY <1>2, <1>3, <1>4, <1>5, <1>9, <2>1, <2>2 DEF Adds
  <2>4. (Rests(j) \/ Drops(j)) /\ Owed(j)' # Owed(j) + 1
    BY <1>1, <1>4, <2>1, <2>3 DEF Rests, Drops, Adds
  <2> QED
    BY <1>1, <1>6, <2>4 DEF Moves, Repeats
<1> QED
  BY <1>7, <1>8, <1>9

LEMMA AdmitMoves ==
  ASSUME TypeOK, TypeOK', NEW j \in Jobs, NEW x \in Jobs, Admit(x)
  PROVE  /\ j # x => Moves(j)
         /\ Owed(x)' = Owed(x) + 1 /\ ends' = ends /\ stalls' = stalls
         /\ Late(j)' = Late(j) /\ DOMAIN inFlight' = DOMAIN inFlight
<1>1. /\ UNCHANGED <<inFlight, nonReady, orphanEnds, ends, stalls, job, pc>>
      /\ ready' = Append(ready, x)
  BY DEF Admit, workerVars, failureVars, orphanVars
<1>2. \A k \in Jobs : Holders(k)' = Holders(k)
  BY <1>1 DEF Holders
<1>3. \A k \in Jobs : Held(k)' = Held(k) /\ Keepers(k)' = Keepers(k)
  BY <1>1, <1>2 DEF Held, Keepers
<1>4. \A k \in Jobs : Waits(k)' = Waits(k) /\ Ending(k)' = Ending(k) /\ Left(k)' = Left(k)
  BY <1>1, <1>3 DEF Waits, Ending, Left
<1>5. \A k \in Jobs : Listed(k)' = Listed(k) + CountIf(k = x)
  BY <1>1, AppendCount DEF Listed, TypeOK, QueuesTypeOK
<1>6. j # x => Moves(j)
  <2> SUFFICES ASSUME j # x PROVE Moves(j)
    OBVIOUS
  <2>1. Listed(j)' = Listed(j) + 0 /\ Listed(j) \in Nat
    BY <1>5, Parts DEF CountIf, AddUp, Adds
  <2>2. Listed(j)' = Listed(j)
    BY <2>1
  <2> QED
    BY <1>1, <1>3, <1>4, <2>2, Unmoved
<1>7. Owed(x)' = Owed(x) + 1
  <2>1. Adds(x) /\ Adds(x)'
    BY Parts, PartsNext DEF AddUp
  <2>2. Listed(x)' = Listed(x) + 1
    BY <1>5 DEF CountIf
  <2> QED
    BY <1>3, <1>4, <2>1, <2>2 DEF Adds
<1>8. Late(j)' = Late(j)
  BY <1>1, <1>3 DEF Late
<1> QED
  BY <1>1, <1>6, <1>7, <1>8

\* The dispatcher and the end of a dead-lettered orphan move one place.
LEMMA QueueMoves ==
  ASSUME TypeOK, TypeOK', NEW j \in Jobs, NEW x \in Jobs, MoveToReady(x) \/ OrphanEnd(x)
  PROVE  Moves(j)
<1>1. UNCHANGED <<inFlight, stalls, job, pc>>
  BY DEF MoveToReady, OrphanEnd, workerVars, failureVars, orphanVars
<1>2. Holders(j)' = Holders(j)
  BY <1>1 DEF Holders
<1>3. Held(j)' = Held(j) /\ Keepers(j)' = Keepers(j)
  BY <1>1, <1>2 DEF Held, Keepers
<1>4. Left(j)' = Left(j) /\ Late(j)' = Late(j)
  BY <1>1, <1>3 DEF Left, Late
<1>5. Adds(j) /\ Adds(j)'
  BY Parts, PartsNext DEF AddUp
<1>6. CASE MoveToReady(x)
  <2>1. UNCHANGED <<orphanEnds, ends>> /\ x \in nonReady
    BY <1>6 DEF MoveToReady, orphanVars
  <2>2. Listed(j)' = Listed(j) + CountIf(j = x)
    BY <1>6, AppendCount DEF MoveToReady, Listed, TypeOK, QueuesTypeOK
  <2>3. Waits(j) = Waits(j)' + CountIf(j = x)
    BY <1>6 DEF MoveToReady, Waits, CountIf
  <2>4. CountIf(j = x) \in {0, 1}
    BY DEF CountIf
  <2>5. Ending(j)' = Ending(j)
    BY <2>1 DEF Ending
  <2>6. Owed(j)' = Owed(j) /\ Owed(j) \in Nat
    BY <1>3, <1>4, <1>5, <2>2, <2>3, <2>4, <2>5 DEF Adds
  <2> QED
    BY <1>1, <1>4, <2>1, <2>6 DEF Moves, Rests, Repeats
<1>7. CASE OrphanEnd(x)
  <2>1. UNCHANGED <<ready, nonReady>> /\ Ending(j)' + CountIf(j = x) = Ending(j)
    <3>1. PICK stray \in SUBSET {x} : Taken({x}, stray)
      BY <1>7 DEF OrphanEnd
    <3>2. Ending(j)' + CountIf(j \in {x}) = Ending(j)
      BY <3>1, TakenTypes DEF Ending
    <3> QED
      BY <1>7, <3>2 DEF OrphanEnd, CountIf
  <2>2. Listed(j)' = Listed(j) /\ Waits(j)' = Waits(j)
    BY <2>1 DEF Listed, Count, Positions, Waits
  <2>3. CASE j = x
    <3>1. Ending(j)' + 1 = Ending(j) /\ ends'[j] = ends[j] + 1
      BY <1>7, <2>1, <2>3 DEF OrphanEnd, CountIf, TypeOK, CountersTypeOK
    <3>2. Owed(j) > 0 /\ Owed(j)' = Owed(j) - 1 /\ Owed(j)' # Owed(j) + 1
      BY <1>3, <1>4, <1>5, <2>2, <3>1 DEF Adds
    <3> QED
      BY <1>1, <1>4, <3>1, <3>2 DEF Moves, Finishes, Repeats
  <2>4. CASE j # x
    <3>1. Ending(j)' = Ending(j) /\ ends'[j] = ends[j]
      BY <1>5, <1>7, <2>1, <2>4 DEF OrphanEnd, CountIf, Adds, TypeOK, CountersTypeOK
    <3> QED
      BY <1>1, <1>3, <2>2, <3>1, Unmoved
  <2> QED
    BY <2>3, <2>4
<1> QED
  BY <1>6, <1>7

\* A deadline passes: that a worker is late is counted.
LEMMA DeadlineMoves ==
  ASSUME TypeOK, TypeOK', NEW j \in Jobs, NEW x \in Jobs, DeadlinePasses(x)
  PROVE  Moves(j)
<1>1. /\ UNCHANGED <<ready, nonReady, orphanEnds, ends, job, pc>>
      /\ x \in DOMAIN inFlight /\ inFlight' = ZAdd(inFlight, x, Overdue)
  BY DEF DeadlinePasses, workerVars, orphanVars
<1>2. Holders(j)' = Holders(j)
  BY <1>1 DEF Holders
<1>3. Held(j)' = Held(j) /\ Keepers(j)' = Keepers(j)
  BY <1>1, <1>2 DEF Held, Keepers
<1>4. Listed(j)' = Listed(j) /\ Waits(j)' = Waits(j) /\ Ending(j)' = Ending(j)
  BY <1>1 DEF Listed, Count, Positions, Waits, Ending
<1>5. DOMAIN inFlight' = DOMAIN inFlight
  BY <1>1 DEF ZAdd
<1>6. Left(j)' = Left(j)
  BY <1>3, <1>5 DEF Left
<1>7. Adds(j) /\ Adds(j)'
  BY Parts, PartsNext DEF AddUp
<1>8. Owed(j)' = Owed(j) /\ Owed(j) \in Nat
  BY <1>3, <1>4, <1>6, <1>7 DEF Adds
<1>9. CASE j = x /\ Keepers(x) # {}
  <2>1. stalls'[j] = stalls[j] + 1
    BY <1>9 DEF DeadlinePasses, TypeOK, CountersTypeOK
  <2>2. Owed(j) > 0
    BY <1>7, <1>9 DEF Adds
  <2>3. Delays(j)
    BY <1>1, <1>8, <2>1, <2>2 DEF Delays
  <2> QED
    BY <1>5, <2>3 DEF Moves
<1>10. CASE j # x \/ Keepers(x) = {}
  <2>1. stalls'[j] = stalls[j]
    BY <1>10 DEF DeadlinePasses, TypeOK, CountersTypeOK
  <2>2. Rests(j)
    BY <1>1, <1>8, <2>1 DEF Rests
  <2>3. Late(j)' => Late(j)
    BY <1>1, <1>3, <1>10 DEF Late, ZAdd
  <2> QED
    BY <1>5, <1>8, <2>2, <2>3 DEF Moves, Rests, Repeats
<1> QED
  BY <1>9, <1>10

\* A batch has every job that it takes back once.
LEMMA BatchIs ==
  ASSUME NEW S \in SUBSET Jobs, NEW b \in SetToSeqs(S)
  PROVE  /\ b \in Seq(Jobs) /\ Range(b) = S
         /\ \A i, k \in DOMAIN b : i # k => b[i] # b[k]
<1> DEFINE n == Cardinality(S)
<1>1. IsFiniteSet(S) /\ n \in Nat
  BY ReliableQueueAssumption, FS_Subset, FS_CardinalityType
<1>2. b \in [1..n -> S] /\ \A i, k \in 1..n : i # k => b[i] # b[k]
  BY DEF SetToSeqs
<1> HIDE DEF n
<1>3. IsFiniteSet(1..n) /\ Cardinality(1..n) = n
  BY <1>1, FS_Interval
<1>4. b \in Injection(1..n, S)
  BY <1>2 DEF Injection, IsInjective
<1>5. b \in Surjection(1..n, S)
  BY <1>1, <1>3, <1>4, FS_Injection DEF n
<1>6. Range(b) = S
  BY <1>2, <1>5 DEF Surjection, Range
<1>7. b \in Seq(Jobs)
  BY <1>1, <1>2, FunctionIsSeq
<1> QED
  BY <1>2, <1>6, <1>7

\* Recovery answers for every lease it takes: the handling it starts stands for
\* one that was given up, or follows from a delay that has been counted.
LEMMA RecoverMoves ==
  ASSUME TypeOK, TypeOK', NEW j \in Jobs, NEW orphans \in Orphans, Recover(orphans)
  PROVE  Moves(j)
<1> DEFINE lost == {x \in orphans : Exhausted(x)}
           kept == orphans \ lost
<1>1. /\ UNCHANGED <<nonReady, ends, stalls, job, pc>>
      /\ inFlight' = ZRem(inFlight, orphans) /\ Ending(j)' = Ending(j) + CountIf(j \in lost)
  BY DEF Recover, StillInFlight, workerVars, failureVars, Ending
<1>2. orphans \subseteq Jobs /\ \A x \in orphans : x \in DOMAIN inFlight /\ inFlight[x] = Overdue
  BY DEF Orphans, OverdueJobs, ZDue, TypeOK, LeasesTypeOK, Overdue, Live
<1>3. PICK b \in SetToSeqs(kept) : ready' = ready \o b
  BY DEF Recover
<1>4. b \in Seq(Jobs) /\ Range(b) = kept /\ \A i, k \in DOMAIN b : i # k => b[i] # b[k]
  BY <1>2, BatchIs
<1> HIDE DEF lost, kept
<1>5. Listed(j)' = Listed(j) + CountIf(j \in kept)
  <2>1. ready \in Seq(Jobs)
    BY DEF TypeOK, QueuesTypeOK
  <2> QED
    BY <1>3, <1>4, <2>1, BatchCount DEF Listed
<1>6. Holders(j)' = Holders(j)
  BY <1>1 DEF Holders
<1>7. Held(j)' = Held(j) /\ Keepers(j)' = Keepers(j)
  BY <1>1, <1>6 DEF Held, Keepers
<1>8. Waits(j)' = Waits(j)
  BY <1>1 DEF Waits
<1>9. Adds(j) /\ Adds(j)'
  BY Parts, PartsNext DEF AddUp
<1>10. CASE j \notin orphans
  <2>1. j \notin kept /\ j \notin lost
    BY <1>10 DEF kept, lost
  <2>2. Ending(j)' = Ending(j) /\ Listed(j)' = Listed(j)
    BY <1>1, <1>5, <1>9, <2>1 DEF CountIf, Adds
  <2>3. /\ j \in DOMAIN inFlight' <=> j \in DOMAIN inFlight
        /\ j \in DOMAIN inFlight => inFlight'[j] = inFlight[j]
    BY <1>1, <1>10 DEF ZRem, Restrict
  <2> QED
    BY <1>1, <1>7, <1>8, <2>2, <2>3, Unmoved
<1>11. CASE j \in orphans
  <2>1. j \notin DOMAIN inFlight' /\ j \in DOMAIN inFlight /\ inFlight[j] = Overdue
    BY <1>1, <1>2, <1>11 DEF ZRem, Restrict
  <2>2. Left(j)' = 0 /\ ~Late(j)'
    BY <2>1 DEF Left, Late, CountIf
  <2>3. Left(j) = 1 \/ (Left(j) = 0 /\ Late(j))
    BY <2>1 DEF Left, Late, CountIf
  <2>4. Listed(j)' + Ending(j)' = Listed(j) + Ending(j) + 1
    <3>1. j \in kept <=> j \notin lost
      BY <1>11 DEF kept
    <3> QED
      BY <1>1, <1>5, <1>9, <3>1 DEF CountIf, Adds
  <2>5. \/ Owed(j)' = Owed(j)
        \/ Owed(j) > 0 /\ Owed(j)' = Owed(j) - 1
        \/ Late(j) /\ Owed(j)' = Owed(j) + 1
    BY <1>7, <1>8, <1>9, <2>2, <2>3, <2>4 DEF Adds
  <2>6. Rests(j) \/ Drops(j) \/ Repeats(j)
    BY <1>1, <2>5 DEF Rests, Drops, Repeats
  <2> QED
    BY <2>1, <2>2, <2>6 DEF Moves
<1> QED
  BY <1>10, <1>11

LEMMA RecoveryFailsMoves ==
  ASSUME TypeOK, TypeOK', NEW j \in Jobs, RecoveryFails
  PROVE  Moves(j)
<1>1. /\ UNCHANGED <<ready, inFlight, nonReady, ends, stalls, job, pc>>
      /\ Ending(j)' = Ending(j) \/ Ending(j)' + 1 = Ending(j)
  <2>1. PICK jobs \in SUBSET Jobs : \E stray \in SUBSET jobs : Taken(jobs, stray)
    BY DEF RecoveryFails
  <2>2. Ending(j)' + CountIf(j \in jobs) = Ending(j) /\ Ending(j) \in Nat /\ Ending(j)' \in Nat
    BY <2>1, TakenTypes DEF Ending, TypeOK, CountersTypeOK
  <2> QED
    BY <2>2 DEF RecoveryFails, workerVars, CountIf
<1>2. Holders(j)' = Holders(j)
  BY <1>1 DEF Holders
<1>3. Held(j)' = Held(j) /\ Keepers(j)' = Keepers(j)
  BY <1>1, <1>2 DEF Held, Keepers
<1>4. /\ Listed(j)' = Listed(j) /\ Waits(j)' = Waits(j) /\ Left(j)' = Left(j)
      /\ Late(j)' = Late(j)
  BY <1>1, <1>3 DEF Listed, Count, Positions, Waits, Left, Late
<1>5. Adds(j) /\ Adds(j)'
  BY Parts, PartsNext DEF AddUp
<1>6. Owed(j)' # Owed(j) + 1 /\ (Owed(j)' = Owed(j) \/ (Owed(j) > 0 /\ Owed(j)' = Owed(j) - 1))
  BY <1>1, <1>3, <1>4, <1>5 DEF Adds
<1> QED
  BY <1>1, <1>4, <1>6 DEF Moves, Rests, Drops, Repeats

LEMMA EveryStepMoves ==
  ASSUME TypeOK, TypeOK', [Next]_vars, NEW j \in Jobs
  PROVE  \/ Moves(j) /\ (j \in admitted' <=> j \in admitted)
         \/ Admit(j)
<1>1. ASSUME NEW w \in Workers, WorkerStep(w) \/ Heartbeat(w) \/ AckThrows(w) \/ Crash(w)
      PROVE  Moves(j) /\ admitted' = admitted
  <2>1. admitted' = admitted
    BY <1>1 DEF WorkerStep, Length, Peek, ReadPeeked, Pop, Load, WorkEnds, Release, ReliableAck,
      Complete, Failed, Requeue, Heartbeat, ExtendDeadline, AckThrows, Crash
  <2> QED
    BY <1>1, <2>1, WorkerMoves, PopMoves, ReleaseMoves, TickEndMoves DEF WorkerStep
<1>2. ASSUME NEW x \in Jobs, MoveToReady(x) \/ DeadlinePasses(x) \/ OrphanEnd(x)
      PROVE  Moves(j) /\ admitted' = admitted
  <2>1. admitted' = admitted
    BY <1>2 DEF MoveToReady, DeadlinePasses, OrphanEnd
  <2> QED
    BY <1>2, <2>1, QueueMoves, DeadlineMoves
<1>3. ASSUME NEW x \in Jobs, Admit(x), x # j
      PROVE  Moves(j) /\ (j \in admitted' <=> j \in admitted)
  <2>1. j \in admitted' <=> j \in admitted
    BY <1>3 DEF Admit
  <2> QED
    BY <1>3, <2>1, AdmitMoves
<1>4. ASSUME NEW orphans \in Orphans, Recover(orphans) PROVE Moves(j) /\ admitted' = admitted
  <2>1. admitted' = admitted
    BY <1>4 DEF Recover
  <2> QED
    BY <1>4, <2>1, RecoverMoves
<1>5. CASE RecoveryFails
  <2>1. admitted' = admitted
    BY <1>5 DEF RecoveryFails
  <2> QED
    BY <1>5, <2>1, RecoveryFailsMoves
<1>6. CASE UNCHANGED vars
  <2>1. UNCHANGED <<admitted, ready, nonReady, orphanEnds, inFlight, ends, stalls, job, pc>>
    BY <1>6 DEF vars, workerVars, failureVars, orphanVars
  <2>2. Held(j)' = Held(j) /\ Keepers(j)' = Keepers(j)
    BY <2>1, SameKeepers
  <2>3. Listed(j)' = Listed(j) /\ Waits(j)' = Waits(j) /\ Ending(j)' = Ending(j)
    BY <2>1 DEF Listed, Count, Positions, Waits, Ending
  <2> QED
    BY <2>1, <2>2, <2>3, Unmoved
<1> QED
  BY <1>1, <1>2, <1>3, <1>4, <1>5, <1>6 DEF Next, Recovery

\* Nothing is known of a job before it is admitted, and the repetition that a
\* late lease will lead to is paid for by the delay.
NothingBefore == \A j \in Jobs \ admitted : Copies(j) = 0 /\ j \notin DOMAIN inFlight
LateCovered == \A j \in Jobs : Late(j) => Copies(j) <= stalls[j]

Accounted == NothingBefore /\ LateCovered /\ DuplicatesNeedStalls

LEMMA AccountedInit == Init => Accounted
<1> SUFFICES ASSUME Init, NEW j \in Jobs
             PROVE  Copies(j) = 0 /\ j \notin DOMAIN inFlight /\ stalls[j] = 0 /\ ~Late(j)
  BY DEF Accounted, NothingBefore, LateCovered, DuplicatesNeedStalls
<1>1. j \notin DOMAIN inFlight /\ stalls[j] = 0 /\ ~Late(j) /\ ends[j] = 0
  BY DEF Init, EmptyZSet, Late
<1>2. Waits(j) = 0 /\ Left(j) = 0 /\ Ending(j) = 0
  BY <1>1 DEF Init, Waits, Left, Ending, CountIf
<1>3. Holders(j) = {} /\ Positions(ready, j) = {}
  BY ReliableQueueAssumption DEF Init, Holders, Positions
<1>4. Held(j) = 0 /\ Listed(j) = 0
  BY <1>3, FS_EmptySet DEF Held, Listed, Count
<1>5. TypeOK
  BY InitTypeOK, ReliableQueueAssumption
<1>6. Copies(j) = 0
  BY <1>1, <1>2, <1>4, <1>5, Parts DEF AddUp, Adds
<1> QED
  BY <1>1, <1>6

CopiesAreOwed ==
  \A j \in Jobs : /\ Copies(j) = Owed(j) + ends[j]
                  /\ Owed(j) \in Nat /\ ends[j] \in Nat /\ stalls[j] \in Nat

LEMMA CopiesAre == TypeOK => CopiesAreOwed
BY Parts DEF AddUp, Adds, CopiesAreOwed

LEMMA CopiesAreNext == TypeOK' => CopiesAreOwed'
BY CopiesAre, PTL

LEMMA AccountedStep ==
  ASSUME TypeOK, TypeOK', Accounted, [Next]_vars
  PROVE  Accounted'
<1> SUFFICES ASSUME NEW j \in Jobs
             PROVE  /\ j \notin admitted' => Copies(j)' = 0 /\ j \notin DOMAIN inFlight'
                    /\ Late(j)' => Copies(j)' <= stalls'[j]
                    /\ Copies(j)' <= 1 + stalls'[j]
  BY DEF Accounted, NothingBefore, LateCovered, DuplicatesNeedStalls
<1>1. /\ Copies(j) = Owed(j) + ends[j] /\ Copies(j)' = Owed(j)' + ends'[j]
      /\ Owed(j) \in Nat /\ ends[j] \in Nat /\ stalls[j] \in Nat
      /\ Owed(j)' \in Nat /\ ends'[j] \in Nat /\ stalls'[j] \in Nat
  BY CopiesAre, CopiesAreNext DEF CopiesAreOwed
<1>2. /\ j \notin admitted => Copies(j) = 0 /\ j \notin DOMAIN inFlight
      /\ Late(j) => Copies(j) <= stalls[j]
      /\ Copies(j) <= 1 + stalls[j]
  BY DEF Accounted, NothingBefore, LateCovered, DuplicatesNeedStalls
<1>3. CASE Admit(j)
  <2>1. Owed(j)' = Owed(j) + 1 /\ ends'[j] = ends[j] /\ stalls'[j] = stalls[j] /\ Late(j)' = Late(j)
    BY <1>3, AdmitMoves
  <2>2. Copies(j) = 0 /\ ~Late(j)
    BY <1>2, <1>3 DEF Admit, Late
  <2>3. j \in admitted'
    BY <1>3 DEF Admit
  <2> QED
    BY <1>1, <2>1, <2>2, <2>3
<1>4. CASE Moves(j) /\ (j \in admitted' <=> j \in admitted)
  <2>1. Rests(j) \/ Finishes(j) \/ Drops(j) \/ Delays(j) \/ Repeats(j)
    BY <1>4 DEF Moves
  <2>2. Late(j)' => Delays(j) \/ (Late(j) /\ ~Repeats(j))
    BY <1>4 DEF Moves
  <2>3. Copies(j)' <= 1 + stalls'[j]
    BY <1>1, <1>2, <2>1 DEF Rests, Finishes, Drops, Delays, Repeats
  <2>4. Late(j)' => Copies(j)' <= stalls'[j]
    BY <1>1, <1>2, <2>1, <2>2 DEF Rests, Finishes, Drops, Delays
  <2>5. ASSUME j \notin admitted PROVE Copies(j)' = 0 /\ j \notin DOMAIN inFlight'
    <3>1. Owed(j) = 0 /\ ends[j] = 0 /\ j \notin DOMAIN inFlight
      BY <1>1, <1>2, <2>5
    <3>2. Listed(j) = 0
      BY <3>1, Parts DEF AddUp, Adds
    <3>3. Rests(j)
      BY <2>1, <3>1 DEF Finishes, Drops, Delays, Repeats, Late
    <3>4. Copies(j)' = 0
      BY <1>1, <3>1, <3>3 DEF Rests
    <3> QED
      BY <1>4, <3>1, <3>2, <3>4 DEF Moves
  <2> QED
    BY <1>4, <2>3, <2>4, <2>5
<1> QED
  BY <1>3, <1>4, EveryStepMoves

LEMMA AccountsHold == Spec => []Accounted
<1>1. TypeOK /\ TypeOK' /\ Accounted /\ [Next]_vars => Accounted'
  BY AccountedStep
<1> QED
  BY <1>1, AccountedInit, TypeCorrect, PTL DEF Spec

\* A job is worked on by one worker at a time and ended once, except that every
\* deadline that passes under a live worker may add one handling: no crash, no
\* exception and no retry duplicates a job, whatever the workers, the recovery
\* and the dispatcher do at the same time.
THEOREM DuplicatesBounded == Spec => []DuplicatesNeedStalls
BY AccountsHold, PTL DEF Accounted

-----------------------------------------------------------------------------
(* The reliable queue implements JobDelivery. *)

LEMMA DeliveryInit == Init => Delivery!Init
<1> SUFFICES ASSUME Init PROVE Delivery!Init
  OBVIOUS
<1>1. admitted = {} /\ ends = [j \in Jobs |-> 0] /\ stalls = [j \in Jobs |-> 0] /\ TypeOK
  BY InitTypeOK, ReliableQueueAssumption DEF Init
<1>2. \A j \in Jobs : Owed(j) = 0
  <2> SUFFICES ASSUME NEW j \in Jobs PROVE Owed(j) = 0
    OBVIOUS
  <2>1. Copies(j) = 0
    BY <1>1, AccountedInit DEF Accounted, NothingBefore
  <2> QED
    BY <1>1, <2>1, CopiesAre DEF CopiesAreOwed
<1> QED
  BY <1>1, <1>2 DEF Delivery!Init

LEMMA DeliveryStep ==
  ASSUME TypeOK, TypeOK', Accounted, [Next]_vars
  PROVE  Delivery!Next
<1> DEFINE owed == [j \in Jobs |-> Owed(j)]
<1>1. admitted \subseteq admitted' /\ admitted' \subseteq Jobs
  <2>1. \A j \in Jobs : j \in admitted => j \in admitted'
    BY EveryStepMoves DEF Admit
  <2> QED
    BY <2>1 DEF TypeOK, QueuesTypeOK
<1>2. owed' \in [Jobs -> Nat] /\ ends' \in [Jobs -> Nat] /\ stalls' \in [Jobs -> Nat]
  BY CopiesAreNext, ReliableQueueAssumption DEF CopiesAreOwed, TypeOK, CountersTypeOK
<1>3. ASSUME NEW j \in Jobs
      PROVE  LET a == Delivery!Account(j)
                 b == Delivery!Account(j)'
             IN  IF j \in admitted' \ admitted THEN a.done = 0 /\ Delivery!Submitted(a, b)
                 ELSE \/ a = b \/ Delivery!Finished(a, b) \/ Delivery!Dropped(a, b)
                      \/ Delivery!Delayed(a, b) \/ Delivery!Repeated(a, b)
  <2> DEFINE a == Delivery!Account(j)
             b == Delivery!Account(j)'
  <2>1. /\ a = [owed |-> Owed(j), done |-> ends[j], late |-> stalls[j]]
        /\ b = [owed |-> Owed(j)', done |-> ends'[j], late |-> stalls'[j]]
    BY DEF Delivery!Account
  <2>2. /\ Copies(j) = Owed(j) + ends[j] /\ Owed(j) \in Nat /\ ends[j] \in Nat /\ stalls[j] \in Nat
        /\ Late(j) => Copies(j) <= stalls[j]
        /\ j \notin admitted => Copies(j) = 0
    BY CopiesAre DEF CopiesAreOwed, Accounted, LateCovered, NothingBefore
  <2> HIDE DEF a, b
  <2>3. CASE Admit(j)
    <3>1. Owed(j)' = Owed(j) + 1 /\ ends'[j] = ends[j] /\ stalls'[j] = stalls[j]
      BY <2>3, AdmitMoves
    <3>2. j \in admitted' \ admitted
      BY <2>3 DEF Admit
    <3>3. Owed(j) = 0 /\ ends[j] = 0
      BY <2>2, <3>2
    <3>4. a.done = 0 /\ Delivery!Submitted(a, b)
      BY <2>1, <3>1, <3>3 DEF Delivery!Submitted
    <3> QED
      BY <3>2, <3>4 DEF a, b
  <2>4. CASE Moves(j) /\ (j \in admitted' <=> j \in admitted)
    <3>1. CASE Rests(j)
      <4>1. a = b
        BY <2>1, <3>1 DEF Rests
      <4> QED
        BY <2>4, <4>1 DEF a, b
    <3>2. CASE Finishes(j)
      <4>1. a \in [owed : Int, done : Int, late : Int] /\ b \in [owed : Int, done : Int, late : Int]
        BY <2>1, <2>2, <3>2 DEF Finishes
      <4>2. a.owed > 0 /\ b.owed = a.owed - 1 /\ b.done = a.done + 1 /\ b.late = a.late
        BY <2>1, <3>2 DEF Finishes
      <4>3. a.owed - 1 \in Int /\ a.done + 1 \in Int
        BY <4>1
      <4>4. Delivery!Finished(a, b)
        BY <4>1, <4>2, <4>3 DEF Delivery!Finished
      <4> QED
        BY <2>4, <4>4 DEF a, b
    <3>3. CASE Drops(j)
      <4>1. Delivery!Dropped(a, b)
        BY <2>1, <3>3 DEF Drops, Delivery!Dropped
      <4> QED
        BY <2>4, <4>1 DEF a, b
    <3>4. CASE Delays(j)
      <4>1. Delivery!Delayed(a, b)
        BY <2>1, <3>4 DEF Delays, Delivery!Delayed
      <4> QED
        BY <2>4, <4>1 DEF a, b
    <3>5. CASE Repeats(j)
      <4>1. Owed(j) > 0 /\ Owed(j) + ends[j] <= stalls[j]
        BY <2>2, <3>5, Parts DEF Repeats, Late, AddUp, Adds
      <4>2. Delivery!Repeated(a, b)
        BY <2>1, <3>5, <4>1 DEF Repeats, Delivery!Repeated
      <4> QED
        BY <2>4, <4>2 DEF a, b
    <3> QED
      BY <2>4, <3>1, <3>2, <3>3, <3>4, <3>5 DEF Moves
  <2> QED
    BY <2>3, <2>4, EveryStepMoves
<1> QED
  BY <1>1, <1>2, <1>3 DEF Delivery!Next

\* Workers, leases, retries, recoveries and crashes together only do to a job
\* what JobDelivery allows: a handling that is owed ends, is given up, or is
\* repeated because its worker was late.
THEOREM QueueDelivers == Spec => Delivered
<1>1. TypeOK /\ TypeOK' /\ Accounted /\ [Next]_vars => Delivery!Next
  BY DeliveryStep
<1>2. Spec => [][Delivery!Next]_(Delivery!vars)
  BY <1>1, TypeCorrect, AccountsHold, PTL DEF Spec
<1> QED
  BY <1>2, DeliveryInit, PTL DEF Spec, Delivered, Delivery!Spec

(* What the promise implies. *)

LEMMA DeliveryTypes == Delivery!Spec => []Delivery!TypeOK
<1>1. Delivery!Init => Delivery!TypeOK
  BY DEF Delivery!Init, Delivery!TypeOK
<1>2. Delivery!TypeOK /\ [Delivery!Next]_(Delivery!vars) => Delivery!TypeOK'
  BY DEF Delivery!TypeOK, Delivery!Next, Delivery!vars
<1> QED
  BY <1>1, <1>2, PTL DEF Delivery!Spec

\* One job's account keeps the promise, whatever happens to it.
LEMMA AccountKept ==
  ASSUME Delivery!TypeOK, Delivery!TypeOK', NEW j \in Jobs, Delivery!Next,
         Owed(j) + ends[j] <= 1 + stalls[j]
  PROVE  Owed(j)' + ends'[j] <= 1 + stalls'[j]
<1> DEFINE a == Delivery!Account(j)
           b == Delivery!Account(j)'
<1>1. /\ Owed(j) \in Nat /\ ends[j] \in Nat /\ stalls[j] \in Nat
      /\ Owed(j)' \in Nat /\ ends'[j] \in Nat /\ stalls'[j] \in Nat
  BY DEF Delivery!TypeOK
<1>2. /\ a = [owed |-> Owed(j), done |-> ends[j], late |-> stalls[j]]
      /\ b = [owed |-> Owed(j)', done |-> ends'[j], late |-> stalls'[j]]
  BY DEF Delivery!Account
<1>3. \/ a.done = 0 /\ Delivery!Submitted(a, b)
      \/ a = b \/ Delivery!Finished(a, b) \/ Delivery!Dropped(a, b)
      \/ Delivery!Delayed(a, b) \/ Delivery!Repeated(a, b)
  BY DEF Delivery!Next
<1> HIDE DEF a, b
<1>4. CASE a.done = 0 /\ Delivery!Submitted(a, b)
  <2>1. b.owed = 1 /\ b.done = a.done /\ b.late = a.late
    BY <1>2, <1>4 DEF Delivery!Submitted
  <2> QED
    BY <1>1, <1>2, <1>4, <2>1
<1>5. CASE a = b
  BY <1>1, <1>2, <1>5
<1>6. CASE Delivery!Finished(a, b)
  <2>1. b.owed = a.owed - 1 /\ b.done = a.done + 1 /\ b.late = a.late
    BY <1>2, <1>6 DEF Delivery!Finished
  <2> QED
    BY <1>1, <1>2, <2>1
<1>7. CASE Delivery!Dropped(a, b)
  <2>1. b.owed = a.owed - 1 /\ b.done = a.done /\ b.late = a.late
    BY <1>2, <1>7 DEF Delivery!Dropped
  <2> QED
    BY <1>1, <1>2, <2>1
<1>8. CASE Delivery!Delayed(a, b)
  <2>1. b.owed = a.owed /\ b.done = a.done /\ b.late = a.late + 1
    BY <1>2, <1>8 DEF Delivery!Delayed
  <2> QED
    BY <1>1, <1>2, <2>1
<1>9. CASE Delivery!Repeated(a, b)
  <2>1. a.owed + a.done <= a.late /\ b.owed = a.owed + 1 /\ b.done = a.done /\ b.late = a.late
    BY <1>2, <1>9 DEF Delivery!Repeated
  <2> QED
    BY <1>1, <1>2, <2>1
<1> QED
  BY <1>3, <1>4, <1>5, <1>6, <1>7, <1>8, <1>9

\* The promise alone bounds the handlings: a job ends, or is still owed, at most
\* once more than it was late.  Nothing of the queues, the leases and the workers
\* is used but that they keep the promise.
THEOREM EndsBounded == Delivered => []Delivery!EndsAtMostOnceMore
<1>1. Delivery!Init => Delivery!EndsAtMostOnceMore
  <2> SUFFICES ASSUME Delivery!Init, NEW j \in Jobs
               PROVE  Owed(j) + ends[j] <= 1 + stalls[j]
    BY DEF Delivery!EndsAtMostOnceMore
  <2> DEFINE owed == [i \in Jobs |-> Owed(i)]
  <2>1. owed[j] = 0 /\ ends[j] = 0 /\ stalls[j] = 0
    <3> HIDE DEF owed
    <3>1. owed = [i \in Jobs |-> 0]
      BY DEF Delivery!Init, owed
    <3> QED
      BY <3>1 DEF Delivery!Init
  <2> QED
    BY <2>1
<1>2. /\ Delivery!TypeOK /\ Delivery!TypeOK' /\ Delivery!EndsAtMostOnceMore
      /\ [Delivery!Next]_(Delivery!vars)
      => Delivery!EndsAtMostOnceMore'
  <2> SUFFICES ASSUME Delivery!TypeOK, Delivery!TypeOK', Delivery!EndsAtMostOnceMore,
                      [Delivery!Next]_(Delivery!vars)
               PROVE  Delivery!EndsAtMostOnceMore'
    OBVIOUS
  <2>1. CASE Delivery!Next
    <3> SUFFICES ASSUME NEW j \in Jobs PROVE Owed(j)' + ends'[j] <= 1 + stalls'[j]
      BY DEF Delivery!EndsAtMostOnceMore
    <3>1. Owed(j) + ends[j] <= 1 + stalls[j]
      BY DEF Delivery!EndsAtMostOnceMore
    <3> QED
      BY <2>1, <3>1, AccountKept
  <2>2. CASE UNCHANGED Delivery!vars
    BY <2>2 DEF Delivery!EndsAtMostOnceMore, Delivery!vars
  <2> QED
    BY <2>1, <2>2
<1> QED
  BY <1>1, <1>2, DeliveryTypes, PTL DEF Delivery!Spec, Delivered

-----------------------------------------------------------------------------
(* Retries: what may still be added to the count of a job is reserved. *)

\* The workers that will count one more retry if their work fails.
Armed(j) ==
  {w \in Holders(j) : pc[w] \in {"work", "ack", "nack", "failed"} /\ loaded[w] < MaxRetry}

\* Recovery will take the lease of the job, if nobody extends it.
Unsettled(j) == j \in DOMAIN inFlight /\ (Keepers(j) = {} \/ inFlight[j] = Overdue)

Budget(j) ==
  retryCount[j] + Cardinality(Armed(j)) + CountIf(Unsettled(j)) <= MaxRetry + crashes + stalls[j]

RetriesReserved == \A j \in Jobs : Budget(j)

ArmedFew ==
  \A j \in Jobs : /\ IsFiniteSet(Armed(j)) /\ Cardinality(Armed(j)) \in Nat
                  /\ Cardinality(Armed(j)) <= Held(j)
                  /\ retryCount[j] \in Nat /\ stalls[j] \in Nat /\ crashes \in Nat

LEMMA ArmedAreFew == TypeOK => ArmedFew
<1> SUFFICES ASSUME TypeOK, NEW j \in Jobs
             PROVE  /\ IsFiniteSet(Armed(j)) /\ Cardinality(Armed(j)) \in Nat
                    /\ Cardinality(Armed(j)) <= Held(j)
                    /\ retryCount[j] \in Nat /\ stalls[j] \in Nat /\ crashes \in Nat
  BY DEF ArmedFew
<1>1. IsFiniteSet(Holders(j)) /\ Armed(j) \subseteq Holders(j)
  BY Parts DEF AddUp, Adds, Armed
<1>2. IsFiniteSet(Armed(j)) /\ Cardinality(Armed(j)) <= Held(j)
  BY <1>1, FS_Subset DEF Held
<1>3. retryCount[j] \in Nat /\ stalls[j] \in Nat /\ crashes \in Nat
  BY ReliableQueueAssumption DEF TypeOK, CountersTypeOK
<1> QED
  BY <1>2, <1>3, FS_CardinalityType

LEMMA ArmedAreFewNext == TypeOK' => ArmedFew'
BY ArmedAreFew, PTL

\* A step that adds nothing to what is counted or reserved.
LEMMA BudgetKept ==
  ASSUME TypeOK, TypeOK', NEW j \in Jobs, Budget(j),
         retryCount'[j] = retryCount[j], Armed(j)' \subseteq Armed(j), Unsettled(j)' => Unsettled(j),
         crashes' >= crashes, stalls'[j] >= stalls[j]
  PROVE  Budget(j)'
<1>1. /\ IsFiniteSet(Armed(j)) /\ Cardinality(Armed(j)) \in Nat /\ Cardinality(Armed(j)') \in Nat
      /\ retryCount[j] \in Nat /\ stalls[j] \in Nat /\ crashes \in Nat
      /\ stalls'[j] \in Nat /\ crashes' \in Nat
  BY ArmedAreFew, ArmedAreFewNext DEF ArmedFew
<1>2. Cardinality(Armed(j)') <= Cardinality(Armed(j))
  BY <1>1, FS_Subset
<1>3. /\ CountIf(Unsettled(j)') \in {0, 1} /\ CountIf(Unsettled(j)) \in {0, 1}
      /\ CountIf(Unsettled(j)') <= CountIf(Unsettled(j))
  BY DEF CountIf
<1>4. MaxRetry \in Nat
  BY ReliableQueueAssumption
<1> QED
  BY <1>1, <1>2, <1>3, <1>4 DEF Budget

\* The workers' steps that count no retry and take no look at the count.
LEMMA CalmWorker ==
  ASSUME TypeOK, TypeOK', NEW j \in Jobs, NEW w \in Workers, Budget(j),
         \/ Length(w) \/ Peek(w) \/ ReadPeeked(w) \/ Pop(w) \/ WorkEnds(w) \/ Release(w)
         \/ Complete(w) \/ Requeue(w) \/ AckThrows(w) \/ Heartbeat(w)
  PROVE  Budget(j)'
<1>1. UNCHANGED <<retryCount, stalls, crashes>> /\ j # NoJob
  BY ReliableQueueAssumption DEF Length, Peek, ReadPeeked, Pop, WorkEnds, Release, ReliableAck,
    Complete, Requeue, AckThrows, Heartbeat, ExtendDeadline, failureVars
<1>2. crashes' >= crashes /\ stalls'[j] >= stalls[j]
  BY <1>1, ArmedAreFew DEF ArmedFew
<1>3. Armed(j)' \subseteq Armed(j)
  <2>1. \A v \in Workers : v # w => job'[v] = job[v] /\ pc'[v] = pc[v] /\ loaded'[v] = loaded[v]
    BY DEF Length, Peek, ReadPeeked, Pop, WorkEnds, Release, ReliableAck, Complete, Requeue,
      AckThrows, Heartbeat, ExtendDeadline, EndTick, Forget, Goto, workerVars, TypeOK,
      WorkersTypeOK
  <2>2. w \in Armed(j)' => w \in Armed(j)
    <3> SUFFICES ASSUME w \in Armed(j)' PROVE w \in Armed(j)
      OBVIOUS
    <3>1. job'[w] = j /\ pc'[w] \in {"work", "ack", "nack", "failed"} /\ loaded'[w] < MaxRetry
      BY DEF Armed, Holders
    <3>2. /\ pc[w] \in {"work", "ack", "nack"} /\ job' = job /\ loaded' = loaded
      BY <1>1, <3>1 DEF Length, Peek, ReadPeeked, Pop, WorkEnds, Release, ReliableAck, Complete,
        Requeue, AckThrows, Heartbeat, ExtendDeadline, EndTick, Forget, Goto, workerVars, TypeOK,
        WorkersTypeOK
    <3> QED
      BY <3>1, <3>2 DEF Armed, Holders
  <2> QED
    BY <2>1, <2>2 DEF Armed, Holders
<1>4. Unsettled(j)' => Unsettled(j)
  <2>1. CASE Length(w) \/ Peek(w) \/ ReadPeeked(w) \/ WorkEnds(w) \/ AckThrows(w) \/ Heartbeat(w)
    <3>1. /\ job' = job /\ DOMAIN inFlight' = DOMAIN inFlight
          /\ \A k \in DOMAIN inFlight : inFlight'[k] = inFlight[k] \/ inFlight'[k] = Live
      BY <2>1 DEF Length, Peek, ReadPeeked, WorkEnds, AckThrows, Heartbeat, ExtendDeadline,
        workerVars, MayExtend, Leased, ZAdd
    <3>2. \A v \in Workers : v # w => pc'[v] = pc[v]
      BY <2>1 DEF Length, Peek, ReadPeeked, WorkEnds, AckThrows, Heartbeat, ExtendDeadline, Goto,
        workerVars, TypeOK, WorkersTypeOK
    <3>3. job[w] = j => (pc'[w] \in Released <=> pc[w] \in Released)
      BY <1>1, <2>1 DEF Length, Peek, ReadPeeked, WorkEnds, AckThrows, Heartbeat, ExtendDeadline,
        Goto, Released, HasJob, workerVars, TypeOK, WorkersTypeOK
    <3>4. Keepers(j)' = Keepers(j)
      BY <3>1, <3>2, <3>3, SameKeepers DEF Holders
    <3> QED
      BY <3>1, <3>4 DEF Unsettled, Live, Overdue
  <2>2. CASE Complete(w) \/ Requeue(w)
    <3>1. inFlight' = inFlight /\ EndTick(w) /\ pc[w] \in Released
      BY <2>2 DEF Complete, Requeue, Released
    <3>2. Keepers(j)' = Keepers(j)
      BY <3>1, EndTickHolders DEF Keepers
    <3> QED
      BY <3>1, <3>2 DEF Unsettled
  <2>3. CASE Release(w)
    <3>1. CASE j = job[w]
      BY <2>3, <3>1 DEF Release, ReliableAck, Unsettled, ZRem, Restrict
    <3>2. CASE j # job[w]
      <4>1. Keepers(j)' = Keepers(j)
        BY <2>3, <3>2, SameKeepers DEF Release, ReliableAck, Goto, Holders, TypeOK, WorkersTypeOK
      <4> QED
        BY <2>3, <3>2, <4>1 DEF Release, ReliableAck, Unsettled, ZRem, Restrict
    <3> QED
      BY <3>1, <3>2
  <2>4. CASE Pop(w)
    <3>1. pc[w] = "pop" /\ job[w] = NoJob
      BY <2>4 DEF Pop, TypeOK, WorkersTypeOK, HasJob, Released
    <3>2. CASE ready = <<>>
      <4>1. Keepers(j)' = Keepers(j)
        BY <1>1, <2>4, <3>1, <3>2, SameKeepers DEF Pop, Goto, Holders, TypeOK, WorkersTypeOK
      <4> QED
        BY <2>4, <3>2, <4>1 DEF Pop, Unsettled
    <3>3. CASE ready # <<>> /\ j = Head(ready)
      <4>1. w \in Keepers(j)'
        BY <2>4, <3>3 DEF Pop, Goto, Keepers, Holders, Released, TypeOK, WorkersTypeOK
      <4> QED
        BY <2>4, <3>3, <4>1 DEF Pop, Leased, Unsettled, ZAdd, Live, Overdue
    <3>4. CASE ready # <<>> /\ j # Head(ready)
      <4>1. \A v \in Workers : /\ job'[v] = IF v = w THEN Head(ready) ELSE job[v]
                               /\ v # w => pc'[v] = pc[v]
        BY <2>4, <3>4 DEF Pop, Goto, TypeOK, WorkersTypeOK
      <4>2. Holders(j)' = Holders(j) /\ w \notin Holders(j)
        BY <1>1, <3>1, <3>4, <4>1 DEF Holders
      <4>3. Keepers(j)' = Keepers(j)
        BY <4>1, <4>2 DEF Keepers, Holders
      <4> QED
        BY <2>4, <3>4, <4>3 DEF Pop, Leased, Unsettled, ZAdd
    <3> QED
      BY <3>2, <3>3, <3>4
  <2> QED
    BY <2>1, <2>2, <2>3, <2>4
<1> QED
  BY <1>1, <1>2, <1>3, <1>4, BudgetKept

\* A worker that may still retry has looked at a count below the maximum, and
\* there are no more of them than handlings.
LEMMA LoadBudget ==
  ASSUME TypeOK, TypeOK', Accounted, NEW j \in Jobs, NEW w \in Workers, Budget(j), Load(w)
  PROVE  Budget(j)'
<1>1. /\ UNCHANGED <<retryCount, stalls, crashes, inFlight, job>> /\ pc[w] = "load"
      /\ pc' = [pc EXCEPT ![w] = "work"] /\ loaded' = [loaded EXCEPT ![w] = retryCount[job[w]]]
  BY DEF Load, Goto, failureVars
<1>2. Holders(j)' = Holders(j) /\ Held(j)' = Held(j) /\ Keepers(j)' = Keepers(j)
  BY <1>1, SameKeepers DEF Released, TypeOK, WorkersTypeOK
<1>3. Unsettled(j)' <=> Unsettled(j)
  BY <1>1, <1>2 DEF Unsettled
<1>4. \A v \in Workers : v # w => pc'[v] = pc[v] /\ loaded'[v] = loaded[v]
  BY <1>1 DEF TypeOK, WorkersTypeOK
<1>5. /\ retryCount[j] \in Nat /\ stalls[j] \in Nat /\ crashes \in Nat /\ MaxRetry \in Nat
      /\ Cardinality(Armed(j)') \in Nat /\ Cardinality(Armed(j)') <= Held(j)
  BY <1>2, ArmedAreFew, ArmedAreFewNext, ReliableQueueAssumption DEF ArmedFew
<1>6. CASE retryCount[j] < MaxRetry
  <2>1. /\ Copies(j) = Owed(j) + ends[j] /\ Owed(j) \in Nat /\ ends[j] \in Nat
        /\ Copies(j) <= 1 + stalls[j] /\ (Late(j) => Copies(j) <= stalls[j])
    BY CopiesAre DEF CopiesAreOwed, Accounted, LateCovered, DuplicatesNeedStalls
  <2>2. Adds(j)
    BY Parts DEF AddUp
  <2>3. Unsettled(j) => Left(j) = 1 \/ Late(j)
    BY DEF Unsettled, Left, Late, CountIf
  <2>4. Held(j) + CountIf(Unsettled(j)) <= 1 + stalls[j]
    BY <2>1, <2>2, <2>3 DEF Adds, CountIf
  <2>5. CountIf(Unsettled(j)') = CountIf(Unsettled(j)) /\ CountIf(Unsettled(j)) \in {0, 1}
    BY <1>3 DEF CountIf
  <2>6. Held(j) \in Nat
    BY <2>2 DEF Adds
  <2> QED
    BY <1>1, <1>5, <1>6, <2>4, <2>5, <2>6 DEF Budget
<1>7. CASE ~(retryCount[j] < MaxRetry)
  <2>1. \A v \in Armed(j)' : v # w
    <3> SUFFICES ASSUME w \in Armed(j)' PROVE FALSE
      OBVIOUS
    <3>1. job[w] = j /\ loaded'[w] < MaxRetry
      BY <1>1 DEF Armed, Holders
    <3>2. loaded'[w] = retryCount[j]
      BY <1>1, <3>1 DEF TypeOK, WorkersTypeOK
    <3> QED
      BY <1>7, <3>1, <3>2
  <2>2. Armed(j)' \subseteq Armed(j)
    BY <1>2, <1>4, <2>1 DEF Armed, Holders
  <2> QED
    BY <1>1, <1>3, <1>5, <2>2, BudgetKept
<1> QED
  BY <1>6, <1>7

\* A retry was reserved by the worker that counts it.
LEMMA FailedBudget ==
  ASSUME TypeOK, TypeOK', NEW j \in Jobs, NEW w \in Workers, Budget(j), Failed(w)
  PROVE  Budget(j)'
<1>1. /\ UNCHANGED <<stalls, crashes, inFlight, job, loaded>> /\ pc[w] = "failed"
      /\ pc' = [pc EXCEPT ![w] = "requeue"] \/ pc' = [pc EXCEPT ![w] = "complete"]
  BY DEF Failed, Goto, failureVars
<1>2. Holders(j)' = Holders(j) /\ Keepers(j)' = Keepers(j)
  <2>1. \A v \in Workers : pc'[v] \in Released <=> pc[v] \in Released
    BY <1>1 DEF Released, TypeOK, WorkersTypeOK
  <2>2. \A v \in Holders(j) : pc'[v] \in Released <=> pc[v] \in Released
    BY <2>1 DEF Holders
  <2> QED
    BY <1>1, <2>2, SameKeepers
<1>3. Unsettled(j)' <=> Unsettled(j)
  BY <1>1, <1>2 DEF Unsettled
<1>4. \A v \in Workers : pc'[v] = IF v = w THEN pc'[w] ELSE pc[v]
  BY <1>1 DEF TypeOK, WorkersTypeOK
<1>5. pc'[w] \in {"requeue", "complete"}
  BY <1>1 DEF TypeOK, WorkersTypeOK
<1>6. Armed(j)' = Armed(j) \ {w}
  <2>1. \A v \in Armed(j)' : v \in Armed(j) /\ v # w
    BY <1>1, <1>2, <1>4, <1>5 DEF Armed, Holders
  <2>2. \A v \in Armed(j) \ {w} : v \in Armed(j)'
    BY <1>1, <1>2, <1>4 DEF Armed, Holders
  <2> QED
    BY <2>1, <2>2
<1>7. stalls[j] \in Nat /\ crashes \in Nat
  BY ArmedAreFew DEF ArmedFew
<1>8. CASE j = job[w] /\ MayRetry(w)
  <2>1. retryCount'[j] = retryCount[j] + 1
    BY <1>8 DEF Failed, TypeOK, CountersTypeOK
  <2>2. w \in Armed(j)
    BY <1>1, <1>8 DEF Armed, Holders, MayRetry
  <2>3. IsFiniteSet(Armed(j)) /\ Cardinality(Armed(j)) \in Nat /\ retryCount[j] \in Nat
    BY ArmedAreFew DEF ArmedFew
  <2>4. Cardinality(Armed(j)') = Cardinality(Armed(j)) - 1
    BY <1>6, <2>2, <2>3, FS_RemoveElement
  <2>5. CountIf(Unsettled(j)') = CountIf(Unsettled(j)) /\ CountIf(Unsettled(j)) \in {0, 1}
    BY <1>3 DEF CountIf
  <2> QED
    BY <1>1, <1>7, <2>1, <2>3, <2>4, <2>5, ReliableQueueAssumption DEF Budget
<1>9. CASE ~(j = job[w] /\ MayRetry(w))
  <2>1. retryCount'[j] = retryCount[j]
    BY <1>9 DEF Failed, TypeOK, CountersTypeOK
  <2> QED
    BY <1>1, <1>3, <1>6, <1>7, <2>1, BudgetKept
<1> QED
  BY <1>8, <1>9

\* A crash may leave a lease behind, and is counted.
LEMMA CrashBudget ==
  ASSUME TypeOK, TypeOK', NEW j \in Jobs, NEW w \in Workers, Budget(j), Crash(w)
  PROVE  Budget(j)'
<1>1. UNCHANGED <<retryCount, stalls, inFlight>> /\ crashes' = crashes + 1 /\ EndTick(w)
  BY DEF Crash
<1>2. Armed(j)' \subseteq Armed(j)
  <2>1. \A v \in Workers : v # w => job'[v] = job[v] /\ pc'[v] = pc[v] /\ loaded'[v] = loaded[v]
    BY <1>1 DEF EndTick, Forget, Goto, TypeOK, WorkersTypeOK
  <2>2. w \notin Armed(j)'
    BY <1>1 DEF EndTick, Goto, Armed, TypeOK, WorkersTypeOK
  <2> QED
    BY <2>1, <2>2 DEF Armed, Holders
<1>3. /\ IsFiniteSet(Armed(j)) /\ Cardinality(Armed(j)) \in Nat /\ Cardinality(Armed(j)') \in Nat
      /\ retryCount[j] \in Nat /\ stalls[j] \in Nat /\ crashes \in Nat /\ MaxRetry \in Nat
  BY ArmedAreFew, ArmedAreFewNext, ReliableQueueAssumption DEF ArmedFew
<1>4. Cardinality(Armed(j)') <= Cardinality(Armed(j))
  BY <1>2, <1>3, FS_Subset
<1>5. CountIf(Unsettled(j)) \in {0, 1} /\ CountIf(Unsettled(j)') \in {0, 1}
  BY DEF CountIf
<1> QED
  BY <1>1, <1>3, <1>4, <1>5 DEF Budget

\* A deadline passes: a lease that nobody stands for was reserved already, for
\* another the delay is counted.
LEMMA DeadlineBudget ==
  ASSUME TypeOK, TypeOK', NEW j \in Jobs, NEW x \in Jobs, Budget(j), DeadlinePasses(x)
  PROVE  Budget(j)'
<1>1. /\ UNCHANGED <<retryCount, crashes, job, pc, loaded>> /\ x \in DOMAIN inFlight
      /\ inFlight' = ZAdd(inFlight, x, Overdue)
  BY DEF DeadlinePasses, workerVars
<1>2. Holders(j)' = Holders(j)
  BY <1>1 DEF Holders
<1>3. Armed(j)' = Armed(j) /\ Keepers(j)' = Keepers(j)
  BY <1>1, <1>2 DEF Armed, Keepers
<1>4. /\ Cardinality(Armed(j)) \in Nat /\ retryCount[j] \in Nat /\ stalls[j] \in Nat
      /\ crashes \in Nat /\ MaxRetry \in Nat /\ stalls'[j] \in Nat
  BY ArmedAreFew, ArmedAreFewNext, ReliableQueueAssumption DEF ArmedFew
<1>5. CASE j = x /\ Keepers(x) # {}
  <2>1. stalls'[j] = stalls[j] + 1
    BY <1>5 DEF DeadlinePasses, TypeOK, CountersTypeOK
  <2>2. CountIf(Unsettled(j)) \in {0, 1} /\ CountIf(Unsettled(j)') \in {0, 1}
    BY DEF CountIf
  <2> QED
    BY <1>1, <1>3, <1>4, <2>1, <2>2 DEF Budget
<1>6. CASE j # x \/ Keepers(x) = {}
  <2>1. stalls'[j] = stalls[j]
    BY <1>6 DEF DeadlinePasses, TypeOK, CountersTypeOK
  <2>2. Unsettled(j)' => Unsettled(j)
    BY <1>1, <1>3, <1>6 DEF Unsettled, ZAdd
  <2> QED
    BY <1>1, <1>3, <1>4, <2>1, <2>2, BudgetKept
<1> QED
  BY <1>5, <1>6

\* Recovery counts one retry for each lease that it takes.
LEMMA RecoverBudget ==
  ASSUME TypeOK, TypeOK', NEW j \in Jobs, NEW orphans \in Orphans, Budget(j), Recover(orphans)
  PROVE  Budget(j)'
<1>1. /\ UNCHANGED <<crashes, stalls, job, pc, loaded>> /\ inFlight' = ZRem(inFlight, orphans)
      /\ retryCount'[j] = retryCount[j] \/ (j \in orphans /\ retryCount'[j] = retryCount[j] + 1)
  BY DEF Recover, StillInFlight, workerVars, failureVars
<1>2. Holders(j)' = Holders(j)
  BY <1>1 DEF Holders
<1>3. Armed(j)' = Armed(j) /\ Keepers(j)' = Keepers(j)
  BY <1>1, <1>2 DEF Armed, Keepers
<1>4. /\ Cardinality(Armed(j)) \in Nat /\ retryCount[j] \in Nat /\ stalls[j] \in Nat
      /\ crashes \in Nat /\ MaxRetry \in Nat
  BY ArmedAreFew, ReliableQueueAssumption DEF ArmedFew
<1>5. CASE j \in orphans
  <2>1. j \in DOMAIN inFlight /\ inFlight[j] = Overdue /\ j \notin DOMAIN inFlight'
    BY <1>1, <1>5 DEF Orphans, OverdueJobs, ZDue, TypeOK, LeasesTypeOK, Overdue, Live, ZRem,
      Restrict
  <2>2. CountIf(Unsettled(j)) = 1 /\ CountIf(Unsettled(j)') = 0
    BY <2>1 DEF Unsettled, CountIf
  <2> QED
    BY <1>1, <1>3, <1>4, <2>2 DEF Budget
<1>6. CASE j \notin orphans
  <2>1. Unsettled(j)' => Unsettled(j)
    BY <1>1, <1>3, <1>6 DEF Unsettled, ZRem, Restrict
  <2> QED
    BY <1>1, <1>3, <1>4, <1>6, <2>1, BudgetKept
<1> QED
  BY <1>5, <1>6

\* The steps of the queues leave leases, workers and counts alone.
LEMMA QueueBudget ==
  ASSUME TypeOK, TypeOK', NEW j \in Jobs, Budget(j),
         \/ \E x \in Jobs : Admit(x) \/ MoveToReady(x) \/ OrphanEnd(x)
         \/ RecoveryFails
         \/ UNCHANGED vars
  PROVE  Budget(j)'
<1>1. UNCHANGED <<retryCount, stalls, job, pc, loaded, inFlight>>
  BY DEF Admit, MoveToReady, OrphanEnd, RecoveryFails, vars, workerVars, failureVars
<1>2. crashes \in Nat /\ (crashes' = crashes \/ crashes' = crashes + 1) /\ stalls[j] \in Nat
  BY ArmedAreFew DEF Admit, MoveToReady, OrphanEnd, RecoveryFails, vars, failureVars, ArmedFew
<1>3. Holders(j)' = Holders(j)
  BY <1>1 DEF Holders
<1>4. Armed(j)' = Armed(j) /\ Keepers(j)' = Keepers(j)
  BY <1>1, <1>3 DEF Armed, Keepers
<1>5. Unsettled(j)' => Unsettled(j)
  BY <1>1, <1>4 DEF Unsettled
<1> QED
  BY <1>1, <1>2, <1>4, <1>5, BudgetKept

LEMMA ReservesHold == Spec => []RetriesReserved
<1>1. Init => RetriesReserved
  <2> SUFFICES ASSUME Init, NEW j \in Jobs PROVE Budget(j)
    BY DEF RetriesReserved
  <2>1. Armed(j) = {} /\ ~Unsettled(j)
    <3>1. \A w \in Workers : pc[w] = "idle"
      BY DEF Init
    <3>2. Armed(j) = {}
      BY <3>1 DEF Armed, Holders
    <3> QED
      BY <3>2 DEF Init, Unsettled, EmptyZSet
  <2>2. retryCount[j] = 0 /\ stalls[j] = 0 /\ crashes = 0 /\ Cardinality(Armed(j)) = 0
    BY <2>1, FS_EmptySet DEF Init
  <2> QED
    BY <2>1, <2>2, ReliableQueueAssumption DEF Budget, CountIf
<1>2. TypeOK /\ TypeOK' /\ Accounted /\ RetriesReserved /\ [Next]_vars => RetriesReserved'
  <2> SUFFICES ASSUME TypeOK, TypeOK', Accounted, [Next]_vars, NEW j \in Jobs, Budget(j)
               PROVE  Budget(j)'
    BY DEF RetriesReserved
  <2>1. ASSUME NEW w \in Workers, WorkerStep(w) \/ Heartbeat(w) \/ AckThrows(w) \/ Crash(w)
        PROVE  Budget(j)'
    BY <2>1, CalmWorker, LoadBudget, FailedBudget, CrashBudget DEF WorkerStep
  <2>2. ASSUME NEW x \in Jobs, Admit(x) \/ MoveToReady(x) \/ DeadlinePasses(x) \/ OrphanEnd(x)
        PROVE  Budget(j)'
    BY <2>2, QueueBudget, DeadlineBudget
  <2>3. CASE Recovery
    BY <2>3, RecoverBudget DEF Recovery
  <2>4. CASE RecoveryFails \/ UNCHANGED vars
    BY <2>4, QueueBudget
  <2> QED
    BY <2>1, <2>2, <2>3, <2>4 DEF Next
<1> QED
  BY <1>1, <1>2, TypeCorrect, AccountsHold, PTL DEF Spec

\* The retries of a job do not go on for ever: whatever workers look at the
\* count, change it and crash at the same time, it passes the configured maximum
\* at most once for every crash and every deadline that passed under a worker.
THEOREM RetriesAreBounded == Spec => []RetriesBounded
<1>1. TypeOK /\ RetriesReserved => RetriesBounded
  <2> SUFFICES ASSUME TypeOK, RetriesReserved, NEW j \in Jobs
               PROVE  retryCount[j] <= MaxRetry + crashes + stalls[j]
    BY DEF RetriesBounded
  <2>1. /\ Cardinality(Armed(j)) \in Nat /\ retryCount[j] \in Nat /\ stalls[j] \in Nat
        /\ crashes \in Nat /\ MaxRetry \in Nat
    BY ArmedAreFew, ReliableQueueAssumption DEF ArmedFew
  <2>2. CountIf(Unsettled(j)) \in {0, 1}
    BY DEF CountIf
  <2> QED
    BY <2>1, <2>2 DEF RetriesReserved, Budget
<1> QED
  BY <1>1, TypeCorrect, ReservesHold, PTL

-----------------------------------------------------------------------------
(* What may be lost, and when. *)

\* A trace of the job that does not depend on a worker that still works on it.
Somewhere(j) ==
  \/ j \in Range(ready) \/ j \in DOMAIN inFlight \/ j \in nonReady \/ j \in dead \/ ends[j] > 0
  \/ \E v \in Holders(j) : pc[v] \in Released

\* The worker that was late may hold a job whose lease another worker has given
\* back: then that one still has it, or has handed it on, or has crashed.
TraceKept ==
  \A j \in Jobs : Keepers(j) # {} => Somewhere(j) \/ (crashes > 0 /\ stalls[j] > 0)

Stays(j) ==
  /\ Somewhere(j) => Somewhere(j)'
  /\ Keepers(j) # {} => Keepers(j)' # {} \/ Somewhere(j)'
  /\ Keepers(j)' # {} => Keepers(j) # {} \/ Somewhere(j)'

\* A step that leaves the workers of a job alone and takes it out of no queue.
LEMMA Unstirred ==
  ASSUME NEW j \in Jobs, Holders(j)' = Holders(j),
         \A v \in Holders(j) : pc'[v] \in Released <=> pc[v] \in Released,
         j \in Range(ready) => Somewhere(j)', j \in DOMAIN inFlight => Somewhere(j)',
         j \in nonReady => Somewhere(j)',
         dead \subseteq dead', ends[j] > 0 => ends'[j] > 0
  PROVE  Stays(j)
<1>1. Keepers(j)' = Keepers(j)
  BY DEF Keepers
<1>2. (\E v \in Holders(j) : pc[v] \in Released) => Somewhere(j)'
  BY DEF Somewhere
<1>3. j \in dead \/ ends[j] > 0 => Somewhere(j)'
  BY DEF Somewhere
<1> QED
  BY <1>1, <1>2, <1>3 DEF Stays, Somewhere

LEMMA WorkerStays ==
  ASSUME TypeOK, NEW j \in Jobs, NEW w \in Workers,
         \/ Length(w) \/ Peek(w) \/ ReadPeeked(w) \/ Load(w) \/ WorkEnds(w) \/ Failed(w) \/ AckThrows(w)
         \/ Heartbeat(w)
  PROVE  Stays(j)
<1>1. /\ UNCHANGED <<ready, nonReady, ends, job>> /\ dead \subseteq dead'
      /\ DOMAIN inFlight' = DOMAIN inFlight
  BY DEF Length, Peek, ReadPeeked, Load, WorkEnds, Failed, AckThrows, Heartbeat, ExtendDeadline,
    workerVars, MayExtend, Leased, ZAdd
<1>2. \A v \in Workers \ {w} : pc'[v] = pc[v]
  BY DEF Length, Peek, ReadPeeked, Load, WorkEnds, Failed, AckThrows, Heartbeat, ExtendDeadline,
    Goto, workerVars, TypeOK, WorkersTypeOK
<1>3. job[w] = j => (pc'[w] \in Released <=> pc[w] \in Released)
  BY ReliableQueueAssumption DEF Length, Peek, ReadPeeked, Load, WorkEnds, Failed, AckThrows,
    Heartbeat, ExtendDeadline, Goto, Released, HasJob, workerVars, TypeOK, WorkersTypeOK
<1>4. Holders(j)' = Holders(j) /\ \A v \in Holders(j) : pc'[v] \in Released <=> pc[v] \in Released
  BY <1>1, <1>2, <1>3 DEF Holders
<1>5. j \in Range(ready) \/ j \in DOMAIN inFlight \/ j \in nonReady => Somewhere(j)'
  BY <1>1 DEF Somewhere
<1> QED
  BY <1>1, <1>4, <1>5, Unstirred

LEMMA PopStays ==
  ASSUME TypeOK, NEW j \in Jobs, NEW w \in Workers, Pop(w)
  PROVE  Stays(j)
<1>1. UNCHANGED <<nonReady, dead, ends>> /\ pc[w] = "pop" /\ job[w] = NoJob /\ j # NoJob
  BY ReliableQueueAssumption DEF Pop, TypeOK, WorkersTypeOK, HasJob, Released
<1>2. \A v \in Workers \ {w} : pc'[v] = pc[v] /\ job'[v] = job[v]
  BY DEF Pop, Goto, TypeOK, WorkersTypeOK
<1>3. CASE ready = <<>>
  <2>1. UNCHANGED <<ready, inFlight, job>>
    BY <1>3 DEF Pop
  <2>2. Holders(j)' = Holders(j) /\ \A v \in Holders(j) : pc'[v] = pc[v]
    BY <1>1, <1>2, <2>1 DEF Holders
  <2>3. j \in Range(ready) \/ j \in DOMAIN inFlight \/ j \in nonReady => Somewhere(j)'
    BY <1>1, <2>1 DEF Somewhere
  <2> QED
    BY <1>1, <2>2, <2>3, Unstirred
<1>4. CASE ready # <<>>
  <2> DEFINE x == Head(ready)
  <2>1. ready' = Tail(ready) /\ inFlight' = ZAdd(inFlight, x, Live) /\ job' = [job EXCEPT ![w] = x]
    BY <1>4 DEF Pop, Popped, Leased
  <2>2. Range(ready) \subseteq Range(Tail(ready)) \cup {x}
    <3>1. /\ ready \in Seq(Jobs) /\ Len(ready) \in Nat \ {0} /\ DOMAIN ready = 1..Len(ready)
          /\ Tail(ready) \in Seq(Jobs) /\ Len(Tail(ready)) = Len(ready) - 1 /\ x = ready[1]
          /\ \A i \in 1..Len(Tail(ready)) : Tail(ready)[i] = ready[i + 1]
      BY <1>4, EmptySeq, LenProperties, HeadTailProperties DEF TypeOK, QueuesTypeOK
    <3>2. DOMAIN Tail(ready) = 1..Len(Tail(ready))
      BY <3>1, LenProperties
    <3>3. \A i \in DOMAIN ready : i = 1 \/ (i - 1 \in DOMAIN Tail(ready) /\ ready[i] = Tail(ready)[i - 1])
      BY <3>1, <3>2
    <3>4. ASSUME NEW i \in DOMAIN ready PROVE ready[i] \in Range(Tail(ready)) \cup {x}
      <4>1. CASE i = 1
        BY <3>1, <4>1
      <4>2. CASE i # 1
        BY <3>3, <4>2 DEF Range
      <4> QED
        BY <4>1, <4>2
    <3> HIDE DEF x
    <3> QED
      BY <3>4 DEF Range
  <2> HIDE DEF x
  <2>3. j = x \/ j \in DOMAIN inFlight => Somewhere(j)'
    BY <2>1 DEF Somewhere, ZAdd
  <2>4. CASE j = x
    BY <2>3, <2>4 DEF Stays
  <2>5. CASE j # x
    <3>1. job'[w] = x
      BY <2>1 DEF TypeOK, WorkersTypeOK
    <3>2. Holders(j)' = Holders(j) /\ \A v \in Holders(j) : pc'[v] = pc[v]
      BY <1>1, <1>2, <2>5, <3>1 DEF Holders
    <3>3. j \in Range(ready) => Somewhere(j)'
      BY <2>1, <2>2, <2>5 DEF Somewhere
    <3>4. j \in nonReady => Somewhere(j)'
      BY <1>1 DEF Somewhere
    <3> QED
      BY <1>1, <2>3, <3>2, <3>3, <3>4, Unstirred
  <2> QED
    BY <2>4, <2>5
<1> QED
  BY <1>3, <1>4

\* Whoever gives a lease back, records an end or requeues leaves a trace.
LEMMA HandOverStays ==
  ASSUME TypeOK, NEW j \in Jobs, NEW w \in Workers, Release(w) \/ Complete(w) \/ Requeue(w)
  PROVE  Stays(j)
<1>1. UNCHANGED <<ready, dead>> /\ job[w] # NoJob /\ j # NoJob
  BY ReliableQueueAssumption DEF Release, ReliableAck, Complete, Requeue, TypeOK, WorkersTypeOK,
    HasJob, Released
<1>2. \A v \in Workers \ {w} : pc'[v] = pc[v] /\ job'[v] = job[v]
  BY DEF Release, ReliableAck, Complete, Requeue, EndTick, Forget, Goto, TypeOK, WorkersTypeOK
<1>3. CASE j = job[w]
  <2>1. CASE Release(w)
    <3>1. job'[w] = j /\ pc'[w] \in Released
      BY <1>3, <2>1 DEF Release, ReliableAck, Goto, Released, TypeOK, WorkersTypeOK
    <3>2. Somewhere(j)'
      BY <3>1 DEF Somewhere, Holders
    <3> QED
      BY <3>2 DEF Stays
  <2>2. CASE Complete(w)
    <3>1. ends'[j] > 0
      BY <1>3, <2>2 DEF Complete, TypeOK, CountersTypeOK
    <3> QED
      BY <3>1 DEF Stays, Somewhere
  <2>3. CASE Requeue(w)
    <3>1. j \in nonReady'
      BY <1>3, <2>3 DEF Requeue
    <3> QED
      BY <3>1 DEF Stays, Somewhere
  <2> QED
    BY <2>1, <2>2, <2>3
<1>4. CASE j # job[w]
  <2>1. job'[w] # j
    BY <1>1, <1>4 DEF Release, ReliableAck, Complete, Requeue, EndTick, Forget, TypeOK,
      WorkersTypeOK
  <2>2. Holders(j)' = Holders(j) /\ \A v \in Holders(j) : pc'[v] = pc[v]
    BY <1>2, <1>4, <2>1 DEF Holders
  <2>3. ends'[j] = ends[j]
    BY <1>4 DEF Release, ReliableAck, Complete, Requeue, TypeOK, CountersTypeOK
  <2>4. j \in DOMAIN inFlight => j \in DOMAIN inFlight'
    BY <1>4 DEF Release, ReliableAck, Complete, Requeue, ZRem, Restrict
  <2>5. j \in nonReady => j \in nonReady'
    BY DEF Release, ReliableAck, Complete, Requeue
  <2>6. j \in Range(ready) \/ j \in DOMAIN inFlight \/ j \in nonReady => Somewhere(j)'
    BY <1>1, <2>4, <2>5 DEF Somewhere
  <2> QED
    BY <1>1, <2>2, <2>3, <2>6, Unstirred
<1> QED
  BY <1>3, <1>4

LEMMA QueueStays ==
  ASSUME TypeOK, NEW j \in Jobs,
         \/ \E x \in Jobs : Admit(x) \/ MoveToReady(x) \/ DeadlinePasses(x) \/ OrphanEnd(x)
         \/ RecoveryFails
         \/ UNCHANGED vars
  PROVE  Stays(j)
<1>1. UNCHANGED <<job, pc, dead>> /\ DOMAIN inFlight' = DOMAIN inFlight
  BY DEF Admit, MoveToReady, DeadlinePasses, OrphanEnd, RecoveryFails, vars, workerVars, ZAdd
<1>2. Holders(j)' = Holders(j) /\ \A v \in Holders(j) : pc'[v] = pc[v]
  BY <1>1 DEF Holders
<1>3. ends[j] > 0 => ends'[j] > 0
  <2>1. ends[j] \in Nat /\ ends \in [Jobs -> Nat]
    BY DEF TypeOK, CountersTypeOK
  <2>2. ASSUME NEW x \in Jobs, OrphanEnd(x) PROVE ends[j] > 0 => ends'[j] > 0
    BY <2>1, <2>2 DEF OrphanEnd
  <2>3. ends' = ends \/ \E x \in Jobs : OrphanEnd(x)
    BY DEF Admit, MoveToReady, DeadlinePasses, RecoveryFails, vars
  <2> QED
    BY <2>2, <2>3
<1>4. ASSUME NEW x \in Jobs, ready' = Append(ready, x)
      PROVE  Range(ready') = Range(ready) \cup {x}
  <2>1. /\ ready \in Seq(Jobs) /\ Len(ready) \in Nat /\ DOMAIN ready = 1..Len(ready)
        /\ DOMAIN Append(ready, x) = 1..(Len(ready) + 1)
        /\ Append(ready, x)[Len(ready) + 1] = x
        /\ \A i \in 1..Len(ready) : Append(ready, x)[i] = ready[i]
    BY LenProperties, AppendProperties DEF TypeOK, QueuesTypeOK
  <2> DEFINE t == Append(ready, x)
  <2>2. /\ DOMAIN t = DOMAIN ready \cup {Len(ready) + 1} /\ t[Len(ready) + 1] = x
        /\ \A i \in DOMAIN ready : t[i] = ready[i]
    BY <2>1
  <2> HIDE DEF t
  <2>3. Range(t) = Range(ready) \cup {x}
    BY <2>2 DEF Range
  <2> QED
    BY <1>4, <2>3 DEF t
<1>5. j \in Range(ready) => j \in Range(ready')
  BY <1>4 DEF Admit, MoveToReady, DeadlinePasses, OrphanEnd, RecoveryFails, vars
<1>6. j \in nonReady => j \in nonReady' \/ j \in Range(ready')
  BY <1>4 DEF Admit, MoveToReady, DeadlinePasses, OrphanEnd, RecoveryFails, vars
<1>7. j \in Range(ready) \/ j \in DOMAIN inFlight \/ j \in nonReady => Somewhere(j)'
  BY <1>1, <1>5, <1>6 DEF Somewhere
<1> QED
  BY <1>1, <1>2, <1>3, <1>7, Unstirred

LEMMA RecoverStays ==
  ASSUME TypeOK, NEW j \in Jobs, NEW orphans \in Orphans, Recover(orphans)
  PROVE  Stays(j)
<1> DEFINE lost == {x \in orphans : Exhausted(x)}
           kept == orphans \ lost
<1>1. /\ UNCHANGED <<nonReady, ends, job, pc>>
      /\ inFlight' = ZRem(inFlight, orphans) /\ dead' = dead \cup lost
  BY DEF Recover, StillInFlight, workerVars
<1>2. orphans \subseteq Jobs
  BY DEF Orphans, OverdueJobs, ZDue, TypeOK, LeasesTypeOK
<1>3. PICK b \in SetToSeqs(kept) : ready' = ready \o b
  BY DEF Recover
<1>4. b \in Seq(Jobs) /\ Range(b) = kept
  BY <1>2, BatchIs
<1> HIDE DEF lost, kept
<1>5. Range(ready) \subseteq Range(ready') /\ kept \subseteq Range(ready')
  <2>1. /\ ready \in Seq(Jobs) /\ Len(ready) \in Nat /\ Len(b) \in Nat
        /\ DOMAIN ready = 1..Len(ready) /\ DOMAIN b = 1..Len(b)
        /\ ready' \in Seq(Jobs) /\ Len(ready') = Len(ready) + Len(b)
        /\ \A i \in 1..(Len(ready) + Len(b)) :
             ready'[i] = IF i <= Len(ready) THEN ready[i] ELSE b[i - Len(ready)]
    BY <1>3, <1>4, LenProperties, ConcatProperties DEF TypeOK, QueuesTypeOK
  <2>2. DOMAIN ready' = 1..(Len(ready) + Len(b))
    BY <2>1, LenProperties
  <2>3. \A i \in DOMAIN ready : i \in DOMAIN ready' /\ ready'[i] = ready[i]
    BY <2>1, <2>2
  <2>4. \A k \in DOMAIN b : Len(ready) + k \in DOMAIN ready' /\ ready'[Len(ready) + k] = b[k]
    BY <2>1, <2>2
  <2>5. Range(ready) \subseteq Range(ready')
    BY <2>3 DEF Range
  <2>6. Range(b) \subseteq Range(ready')
    BY <2>4 DEF Range
  <2> QED
    BY <1>4, <2>5, <2>6
<1>6. Holders(j)' = Holders(j) /\ \A v \in Holders(j) : pc'[v] = pc[v]
  BY <1>1 DEF Holders
<1>7. j \in DOMAIN inFlight => Somewhere(j)'
  BY <1>1, <1>5 DEF Somewhere, ZRem, Restrict, kept
<1>8. j \in Range(ready) \/ j \in nonReady => Somewhere(j)'
  BY <1>1, <1>5 DEF Somewhere
<1> QED
  BY <1>1, <1>6, <1>7, <1>8, Unstirred

LEMMA OnlyCrashesLose ==
  ASSUME TypeOK, [Next]_vars, NEW j \in Jobs
  PROVE  Stays(j) \/ \E w \in Workers : Crash(w)
<1>1. ASSUME NEW w \in Workers, WorkerStep(w) \/ Heartbeat(w) \/ AckThrows(w) PROVE Stays(j)
  BY <1>1, WorkerStays, PopStays, HandOverStays DEF WorkerStep
<1>2. ASSUME Recovery PROVE Stays(j)
  BY <1>2, RecoverStays DEF Recovery
<1> QED
  BY <1>1, <1>2, QueueStays DEF Next

\* A crash takes a job from one worker; the queues keep theirs.
LEMMA CrashTakes ==
  ASSUME TypeOK, NEW j \in Jobs, NEW w \in Workers, Crash(w)
  PROVE  /\ Keepers(j)' = Keepers(j) \ {w}
         /\ Somewhere(j) => Somewhere(j)' \/ (w \in Holders(j) /\ pc[w] \in Released)
<1>1. UNCHANGED <<ready, inFlight, nonReady, dead, ends>> /\ EndTick(w)
  BY DEF Crash
<1>2. Holders(j)' = Holders(j) \ {w} /\ Keepers(j)' = Keepers(j) \ {w}
  BY <1>1, EndTickHolders
<1>3. \A v \in Holders(j) : v # w => pc'[v] = pc[v]
  BY <1>1 DEF EndTick, Goto, Holders, TypeOK, WorkersTypeOK
<1>4. ASSUME NEW v \in Holders(j), pc[v] \in Released, v # w PROVE Somewhere(j)'
  BY <1>2, <1>3, <1>4 DEF Somewhere
<1> QED
  BY <1>1, <1>2, <1>4 DEF Somewhere

LEMMA CrashesAreCounted ==
  ASSUME [Next]_vars
  PROVE  crashes' = crashes \/ crashes' = crashes + 1
<1>1. ASSUME NEW w \in Workers, WorkerStep(w) \/ Heartbeat(w) \/ AckThrows(w) \/ Crash(w)
      PROVE  crashes' = crashes \/ crashes' = crashes + 1
  BY <1>1 DEF WorkerStep, Length, Peek, ReadPeeked, Pop, Load, WorkEnds, Release, ReliableAck,
    Complete, Failed, Requeue, Heartbeat, ExtendDeadline, AckThrows, Crash, failureVars
<1>2. ASSUME NEW j \in Jobs, Admit(j) \/ MoveToReady(j) \/ DeadlinePasses(j) \/ OrphanEnd(j)
      PROVE  crashes' = crashes
  BY <1>2 DEF Admit, MoveToReady, DeadlinePasses, OrphanEnd, failureVars
<1>3. CASE Recovery \/ RecoveryFails \/ UNCHANGED vars
  BY <1>3 DEF Recovery, Recover, RecoveryFails, vars, failureVars
<1> QED
  BY <1>1, <1>2, <1>3 DEF Next

LEMMA TracesHold == Spec => []TraceKept
<1>1. Init => TraceKept
  <2> SUFFICES ASSUME Init, NEW j \in Jobs PROVE Keepers(j) = {}
    BY DEF TraceKept
  <2>1. Holders(j) = {}
    BY ReliableQueueAssumption DEF Init, Holders
  <2> QED
    BY <2>1 DEF Keepers
<1>2. TypeOK /\ TypeOK' /\ Accounted /\ TraceKept /\ [Next]_vars => TraceKept'
  <2> SUFFICES ASSUME TypeOK, TypeOK', Accounted, TraceKept, [Next]_vars, NEW j \in Jobs,
                      Keepers(j)' # {}
               PROVE  Somewhere(j)' \/ (crashes' > 0 /\ stalls'[j] > 0)
    BY DEF TraceKept
  <2>1. Keepers(j) # {} => Somewhere(j) \/ (crashes > 0 /\ stalls[j] > 0)
    BY DEF TraceKept
  <2>2. crashes \in Nat /\ stalls[j] \in Nat
    BY ArmedAreFew DEF ArmedFew
  <2>3. CASE Stays(j)
    <3>1. crashes > 0 => crashes' > 0
      BY <2>2, CrashesAreCounted
    <3>2. stalls[j] > 0 => stalls'[j] > 0
      <4>1. Admit(j) => stalls'[j] = stalls[j]
        BY DEF Admit, failureVars
      <4>2. Moves(j) => stalls'[j] = stalls[j] \/ stalls'[j] = stalls[j] + 1
        BY DEF Moves, Rests, Finishes, Drops, Delays, Repeats
      <4> QED
        BY <2>2, <4>1, <4>2, EveryStepMoves
    <3> QED
      BY <2>1, <2>3, <3>1, <3>2 DEF Stays
  <2>4. ASSUME NEW w \in Workers, Crash(w)
        PROVE  Somewhere(j)' \/ (crashes' > 0 /\ stalls'[j] > 0)
    <3>1. crashes' = crashes + 1 /\ stalls' = stalls
      BY <2>4 DEF Crash
    <3>2. PICK v \in Keepers(j) : v # w
      BY <2>4, CrashTakes
    <3>3. Somewhere(j) => Somewhere(j)' \/ (w \in Holders(j) /\ pc[w] \in Released)
      BY <2>4, CrashTakes
    <3>4. w \in Holders(j) => stalls[j] > 0
      <4> SUFFICES ASSUME w \in Holders(j) PROVE stalls[j] > 0
        OBVIOUS
      <4>1. Adds(j)
        BY Parts DEF AddUp
      <4>2. {v, w} \subseteq Holders(j) /\ v # w /\ IsFiniteSet(Holders(j))
        BY <3>2, <4>1 DEF Keepers, Adds
      <4>3. Held(j) >= 2
        <5>1. Cardinality(Holders(j) \ {v}) = Held(j) - 1 /\ IsFiniteSet(Holders(j) \ {v})
          BY <4>2, FS_RemoveElement DEF Held
        <5>2. Cardinality(Holders(j) \ {v}) # 0 /\ Cardinality(Holders(j) \ {v}) \in Nat
          BY <4>2, <5>1, FS_EmptySet, FS_CardinalityType
        <5> QED
          BY <4>1, <5>1, <5>2 DEF Adds
      <4>4. Copies(j) <= 1 + stalls[j]
        BY DEF Accounted, DuplicatesNeedStalls
      <4> QED
        BY <2>2, <4>1, <4>3, <4>4 DEF Adds
    <3> QED
      BY <2>1, <2>2, <3>1, <3>2, <3>3, <3>4
  <2> QED
    BY <2>3, <2>4, OnlyCrashesLose
<1> QED
  BY <1>1, <1>2, TypeCorrect, AccountsHold, PTL DEF Spec

\* A job disappears only with a worker that crashes between the release of its
\* lease and the record of its end, or with one that was late and whose job
\* another worker had released before it crashed.
THEOREM LossesAreNarrow == Spec => LossOnlyAfterRelease
<1>1. TypeOK /\ TraceKept /\ [Next]_vars =>
        \A j \in Placed \ Placed' :
          \E w \in Holders(j) : pc[w] \in Released \/ (crashes > 0 /\ stalls[j] > 0)
  <2> SUFFICES ASSUME TypeOK, TraceKept, [Next]_vars, NEW j \in Placed \ Placed'
               PROVE  \E w \in Holders(j) : pc[w] \in Released \/ (crashes > 0 /\ stalls[j] > 0)
    OBVIOUS
  <2>1. j \in Jobs
    BY DEF Placed, Range, TypeOK, QueuesTypeOK, LeasesTypeOK, WorkersTypeOK
  <2>2. Somewhere(j) \/ Keepers(j) # {}
    BY <2>1 DEF Placed, Somewhere, Keepers, Holders
  <2>3. ~Somewhere(j)' /\ Keepers(j)' = {}
    BY <2>1, ReliableQueueAssumption DEF Placed, Somewhere, Keepers, Holders
  <2>4. PICK w \in Workers : Crash(w)
    BY <2>1, <2>2, <2>3, OnlyCrashesLose DEF Stays
  <2>5. CASE Somewhere(j)
    BY <2>1, <2>3, <2>4, <2>5, CrashTakes
  <2>6. CASE ~Somewhere(j)
    <3>1. Keepers(j) # {} /\ crashes > 0 /\ stalls[j] > 0
      BY <2>1, <2>2, <2>6 DEF TraceKept
    <3> QED
      BY <3>1 DEF Keepers
  <2> QED
    BY <2>5, <2>6
<1> QED
  BY <1>1, TypeCorrect, TracesHold, PTL DEF Spec, LossOnlyAfterRelease
=============================================================================
