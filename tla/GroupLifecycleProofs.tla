------------------------ MODULE GroupLifecycleProofs -------------------------
(***************************************************************************)
(* What holds of a group for every number of jobs, deliveries and          *)
(* watchers: the types, the rules of the state machine and the progress    *)
(* that is shown, and, as long as no lock expires under its holder, that   *)
(* one agent aggregates at a time, that no timeout fails a group that is   *)
(* being aggregated and that the result of a completed group has all jobs, *)
(* or other groups' orphans for those it lacks.                            *)
(***************************************************************************)
EXTENDS GroupLifecycle, FiniteSetTheorems, TLAPS

\* Where finalizeGroup returns to is a place of the agent's own program.
LEMMA ReturnType ==
  ASSUME NEW a \in Agents
  PROVE  Return(a) \in IF a \in Deliveries THEN DeliveryPCs ELSE WatcherPCs
  BY DEF Return, DeliveryPCs, WatcherPCs

LEMMA MoveType ==
  ASSUME ProgramsTypeOK, NEW a \in Agents,
         NEW label \in IF a \in Deliveries THEN DeliveryPCs ELSE WatcherPCs, Goto(a, label)
  PROVE  ProgramsTypeOK'
  BY DEF ProgramsTypeOK, Goto

\* The calls of finalizeGroup are part of both programs.
LEMMA FinalizeLabels ==
  ASSUME NEW a \in Agents, NEW label \in InFinalize \cup {"lock", "unlock"}
  PROVE  label \in IF a \in Deliveries THEN DeliveryPCs ELSE WatcherPCs
  BY DEF DeliveryPCs, WatcherPCs

\* Every call of finalizeGroup moves its agent within the agent's own program.
LEMMA FinalizeTypeOK ==
  ASSUME GroupLifecycleAssumption, TypeOK, NEW a \in Agents, Finalize(a)
  PROVE  TypeOK'
<1>1. ASSUME NEW label \in InFinalize \cup {"lock", "unlock"}, Goto(a, label)
      PROVE  ProgramsTypeOK'
  BY <1>1, FinalizeLabels, MoveType DEF TypeOK
<1>2. Goto(a, Return(a)) => ProgramsTypeOK'
  BY ReturnType, MoveType DEF TypeOK
<1>3. CASE FinalizeLock(a)
  BY <1>1, <1>2, <1>3 DEF FinalizeLock, TypeOK, InFinalize, Locks, meta
<1>4. CASE FinalizeRead(a)
  <2>1. ProgramsTypeOK'
    BY <1>1, <1>4 DEF FinalizeRead, InFinalize
  <2> QED
    BY <1>4, <2>1 DEF FinalizeRead, TypeOK, meta
<1>5. CASE FinalizeStart(a)
  BY <1>1, <1>5 DEF FinalizeStart, Transition, TypeOK, InFinalize, Statuses
<1>6. CASE AggregateList(a)
  <2>1. ProgramsTypeOK'
    BY <1>1, <1>6 DEF AggregateList, InFinalize
  <2> QED
    BY <1>6, <2>1 DEF AggregateList, TypeOK, meta, GroupLifecycleAssumption
<1>7. CASE AggregateStore(a)
  <2>1. ProgramsTypeOK'
    BY <1>1, <1>7 DEF AggregateStore, InFinalize
  <2> QED
    BY <1>7, <2>1 DEF AggregateStore, TypeOK, meta
<1>8. CASE FinalizeEnd(a)
  BY <1>1, <1>8 DEF FinalizeEnd, Transition, TypeOK, Statuses, Terminal
<1>9. CASE FinalizeUnlock(a)
  BY <1>2, <1>9 DEF FinalizeUnlock, Released, TypeOK, Locks, meta
<1> QED
  BY <1>3, <1>4, <1>5, <1>6, <1>7, <1>8, <1>9 DEF Finalize

\* What a watcher decides is a place of its program.
LEMMA DecisionLabels == Decision \in WatcherPCs
<1>1. Decision \in {"idle", "unwatch", "forceLock", "force", "advance", "transLock", "lock"}
  BY DEF Decision
<1> QED
  BY <1>1 DEF WatcherPCs

LEMMA WatchTypeOK ==
  ASSUME GroupLifecycleAssumption, TypeOK, NEW w \in Watchers, Watch(w)
  PROVE  TypeOK'
<1>0. w \in Agents /\ w \notin Deliveries
  BY DEF Agents, GroupLifecycleAssumption
<1>1. ASSUME NEW label \in WatcherPCs, Goto(w, label)
      PROVE  ProgramsTypeOK'
  BY <1>0, <1>1, MoveType DEF TypeOK
<1>2. {"idle", "check", "lock", "forceRead", "forceCas", "forceUnlock", "transRead", "transUnlock"}
        \subseteq WatcherPCs
  BY DEF WatcherPCs, InForce
<1>3. ProgramsTypeOK'
  <2>1. CASE WatchRead(w)
    BY <1>1, <2>1, DecisionLabels DEF WatchRead
  <2>2. CASE ~WatchRead(w)
    BY <1>1, <1>2, <2>2 DEF Watch, WatchMembers, WatchUnwatch, WatchAdvance, WatchForce,
        WatchForceLock, WatchForceRead, WatchForceCas, WatchForceUnlock, WatchTransLock,
        WatchTransRead, WatchTransUnlock
  <2> QED
    BY <2>1, <2>2
<1>4. CASE WatchMembers(w) \/ WatchUnwatch(w) \/ WatchTransRead(w)
  BY <1>3, <1>4 DEF WatchMembers, WatchUnwatch, WatchTransRead, TypeOK, meta
<1>5. CASE WatchRead(w) \/ WatchForceRead(w)
  BY <1>0, <1>3, <1>5 DEF WatchRead, WatchForceRead, TypeOK, meta
<1>6. CASE WatchAdvance(w) \/ WatchForce(w) \/ WatchForceCas(w)
  <2>1. status' \in Statuses /\ aggStart' \in {"unset", "fresh", "stale"}
    BY <1>6 DEF WatchAdvance, WatchForce, WatchForceCas, WatcherTransition, Transition, TypeOK,
      Statuses, Terminal
  <2> QED
    BY <1>0, <1>3, <1>6, <2>1 DEF WatchAdvance, WatchForce, WatchForceCas, TypeOK
<1>7. CASE WatchForceLock(w) \/ WatchTransLock(w)
  BY <1>0, <1>3, <1>7 DEF WatchForceLock, WatchTransLock, TypeOK, Locks, meta
<1>8. CASE WatchForceUnlock(w) \/ WatchTransUnlock(w)
  BY <1>3, <1>8 DEF WatchForceUnlock, WatchTransUnlock, Released, TypeOK, Locks, meta
<1> QED
  BY <1>4, <1>5, <1>6, <1>7, <1>8 DEF Watch

LEMMA NextTypeOK ==
  ASSUME GroupLifecycleAssumption, TypeOK, [Next]_vars
  PROVE  TypeOK'
<1>1. CASE Submit
  <2>1. CASE SubmitEnqueue
    <3>1. total' \in 0..NumJobs /\ (submitter' = "enqueue" <=> total' < NumJobs)
      BY <2>1 DEF SubmitEnqueue, TypeOK, GroupLifecycleAssumption
    <3>2. status' \in Statuses
      BY <2>1 DEF SubmitEnqueue, TypeOK, Statuses
    <3>3. submitter' \in {"enqueue", "register"}
      BY <2>1 DEF SubmitEnqueue
    <3>4. UNCHANGED <<registered, timeoutAt, aggStart, results, acked, result, watched, lock, pc,
                      expected, listed, failures>>
      BY <2>1 DEF SubmitEnqueue
    <3> QED
      BY <3>1, <3>2, <3>3, <3>4 DEF TypeOK, ProgramsTypeOK
  <2>2. CASE SubmitRegister
    BY <2>2 DEF SubmitRegister, TypeOK, ProgramsTypeOK
  <2>3. CASE SubmitWatch
    BY <2>3 DEF SubmitWatch, TypeOK, ProgramsTypeOK, meta
  <2>4. CASE SubmitTimeout
    BY <2>4 DEF SubmitTimeout, TypeOK, ProgramsTypeOK
  <2> QED
    BY <1>1, <2>1, <2>2, <2>3, <2>4 DEF Submit
<1>2. ASSUME NEW a \in Deliveries, Record(a)
      PROVE  TypeOK'
  <2>1. a \in Agents /\ "ack" \in DeliveryPCs
    BY DEF Agents, DeliveryPCs
  <2>2. ProgramsTypeOK'
    BY <1>2, <2>1, MoveType DEF Record, TypeOK
  <2> QED
    BY <1>2, <2>2 DEF Record, TypeOK, meta
<1>3. ASSUME NEW a \in Deliveries, Ack(a)
      PROVE  TypeOK'
  <2>1. a \in Agents /\ "lock" \in DeliveryPCs /\ "done" \in DeliveryPCs
    BY DEF Agents, DeliveryPCs
  <2>2. ProgramsTypeOK'
    <3>1. Goto(a, "lock") \/ Goto(a, "done")
      BY <1>3 DEF Ack
    <3> QED
      BY <2>1, <3>1, MoveType DEF TypeOK
  <2> QED
    BY <1>3, <2>2 DEF Ack, AckStatus, TypeOK, Statuses
<1>4. ASSUME NEW a \in Watchers, Watch(a)
      PROVE  TypeOK'
  BY <1>4, WatchTypeOK
<1>5. ASSUME NEW a \in Agents, Finalize(a)
      PROVE  TypeOK'
  BY <1>5, FinalizeTypeOK
<1>6. ASSUME NEW a \in Agents, Throws(a)
      PROVE  TypeOK'
  <2>1. CASE pc[a] \in InForce
    <3>1. a \notin Deliveries /\ "forceUnlock" \in WatcherPCs
      BY <2>1 DEF TypeOK, ProgramsTypeOK, DeliveryPCs, WatcherPCs, InFinalize, InForce
    <3>2. ProgramsTypeOK'
      BY <1>6, <2>1, <3>1, MoveType DEF Throws, TypeOK
    <3> QED
      BY <1>6, <3>2 DEF Throws, TypeOK, meta, GroupLifecycleAssumption
  <2>2. CASE pc[a] \notin InForce
    <3>1. ProgramsTypeOK'
      BY <1>6, <2>2, FinalizeLabels, MoveType DEF Throws, TypeOK
    <3> QED
      BY <1>6, <3>1 DEF Throws, TypeOK, meta, GroupLifecycleAssumption
  <2> QED
    BY <2>1, <2>2
<1>7. ASSUME NEW a \in Agents, Crash(a)
      PROVE  TypeOK'
  <2>1. "done" \in DeliveryPCs /\ "idle" \in WatcherPCs
    BY DEF DeliveryPCs, WatcherPCs
  <2>2. ProgramsTypeOK'
    BY <1>7, <2>1, MoveType DEF Crash, TypeOK
  <2> QED
    BY <1>7, <2>2 DEF Crash, TypeOK, meta, GroupLifecycleAssumption
<1>8. ASSUME NEW l \in Locks, LockExpires(l)
      PROVE  TypeOK'
  BY <1>8 DEF LockExpires, TypeOK, ProgramsTypeOK, meta
<1>9. CASE TimeoutPasses
  BY <1>9 DEF TimeoutPasses, TypeOK, ProgramsTypeOK
<1>10. CASE AggregationGoesStale
  BY <1>10 DEF AggregationGoesStale, TypeOK, ProgramsTypeOK
<1>11. CASE UNCHANGED vars
  BY <1>11 DEF vars, meta, TypeOK, ProgramsTypeOK
<1> QED
  BY <1>1, <1>2, <1>3, <1>4, <1>5, <1>6, <1>7, <1>8, <1>9, <1>10, <1>11 DEF Next, AgentStep

\* The meta hash, the locks and the programs of all agents only ever hold
\* values of their types; nobody ever runs a step of another kind of agent.
THEOREM TypeCorrect == Spec => []TypeOK
<1>1. Init => TypeOK
  <2> SUFFICES ASSUME Init PROVE TypeOK
    OBVIOUS
  <2>1. \A a \in Agents : pc[a] \in IF a \in Deliveries THEN DeliveryPCs ELSE WatcherPCs
    BY DEF Init, DeliveryPCs, WatcherPCs
  <2>2. pc \in [Agents -> DeliveryPCs \cup WatcherPCs]
    BY DEF Init, DeliveryPCs, WatcherPCs
  <2>3. 0 < NumJobs /\ 0 \in 0..NumJobs /\ 0 \in 0..MaxFailures
    BY GroupLifecycleAssumption DEF GroupLifecycleAssumption
  <2> QED
    BY <2>1, <2>2, <2>3 DEF Init, TypeOK, ProgramsTypeOK, Statuses, Locks
<1>2. TypeOK /\ [Next]_vars => TypeOK'
  BY GroupLifecycleAssumption, NextTypeOK
<1> QED
  BY <1>1, <1>2, PTL DEF Spec

-----------------------------------------------------------------------------
\* Whoever works under the lock of the aggregation has its token.
HolderWorks == \A a \in Agents : Works(a, "aggregation") => lock["aggregation"] = a

\* Before the first enqueue nobody is past the point where it would see a status.
NothingBeforeFirstJob ==
  total = 0 => status = "NONE" /\ \A a \in Agents : pc[a] \in {"wait", "done", "idle", "check"}

\* A transition that takes no lock never expects AGGREGATING.
UnlockedExpect ==
  \A a \in Agents : pc[a] \in {"force", "advance"} =>
    expected[a] \in {"CREATED", "DISPATCHED", "RUNNING"}

\* A group that is being aggregated is AGGREGATING.
StatusWhileAggregating == Aggregating # {} => status = "AGGREGATING"

Exclusion == HolderWorks /\ NothingBeforeFirstJob /\ UnlockedExpect /\ StatusWhileAggregating

LEMMA HolderIsOnlyOne ==
  ASSUME GroupLifecycleAssumption, HolderWorks
  PROVE  AggregationExclusive
<1>1. Aggregating \subseteq {lock["aggregation"]}
  BY DEF Aggregating, HolderWorks, Works, InFinalize
<1>2. IsFiniteSet({lock["aggregation"]}) /\ Cardinality({lock["aggregation"]}) = 1
  BY FS_Singleton
<1>3. Cardinality(Aggregating) <= 1
  BY <1>1, <1>2, FS_Subset
<1> QED
  BY <1>3 DEF AggregationExclusive

\* A lock is only taken while it is free, and no holder loses it.
LEMMA NextHolderWorks ==
  ASSUME GroupLifecycleAssumption, ExpireLive = FALSE, TypeOK, HolderWorks, [Next]_vars
  PROVE  HolderWorks'
<1> USE DEF Goto, InFinalize, InForce, Works, Locks
<1>0. None \notin Agents
  BY DEF GroupLifecycleAssumption
<1>1. ASSUME UNCHANGED <<pc, lock>> PROVE HolderWorks'
  BY <1>1 DEF HolderWorks
<1>2. CASE Submit \/ TimeoutPasses \/ AggregationGoesStale \/ UNCHANGED vars
  BY <1>1, <1>2 DEF Submit, SubmitEnqueue, SubmitRegister, SubmitWatch, SubmitTimeout,
                    TimeoutPasses, AggregationGoesStale, vars
<1>3. ASSUME NEW a \in Deliveries, Record(a) \/ Ack(a)
      PROVE  HolderWorks'
  <2>1. a \in Agents /\ UNCHANGED lock /\ \E label \in {"ack", "lock", "done"} :
          pc' = [pc EXCEPT ![a] = label]
    BY <1>3 DEF Record, Ack, Agents
  <2> QED
    BY <1>0, <2>1 DEF HolderWorks, TypeOK, ProgramsTypeOK
<1>4. ASSUME NEW a \in Agents, Finalize(a)
      PROVE  HolderWorks'
  <2>1. Return(a) \in {"done", "transUnlock", "idle"}
    BY DEF Return
  <2>2. CASE FinalizeLock(a)
    BY <1>0, <2>1, <2>2 DEF FinalizeLock, Free, HolderWorks, TypeOK, ProgramsTypeOK
  <2>3. CASE FinalizeRead(a) \/ FinalizeStart(a) \/ AggregateList(a) \/ AggregateStore(a)
                \/ FinalizeEnd(a)
    BY <1>0, <2>3 DEF FinalizeRead, FinalizeStart, AggregateList, AggregateStore, FinalizeEnd,
                      HolderWorks, TypeOK, ProgramsTypeOK
  <2>4. CASE FinalizeUnlock(a)
    BY <1>0, <2>1, <2>4 DEF FinalizeUnlock, Released, HolderWorks, TypeOK, ProgramsTypeOK
  <2> QED
    BY <1>4, <2>2, <2>3, <2>4 DEF Finalize
<1>5. ASSUME NEW w \in Watchers, Watch(w)
      PROVE  HolderWorks'
  <2>0. w \in Agents
    BY DEF Agents
  <2>1. CASE WatchMembers(w) \/ WatchUnwatch(w) \/ WatchAdvance(w) \/ WatchForce(w)
    BY <1>0, <2>0, <2>1 DEF WatchMembers, WatchUnwatch, WatchAdvance, WatchForce, HolderWorks,
      TypeOK, ProgramsTypeOK
  <2>2. CASE WatchRead(w)
    <3>1. Decision \in {"idle", "unwatch", "forceLock", "force", "advance", "transLock", "lock"}
      BY DEF Decision
    <3> QED
      BY <1>0, <2>0, <2>2, <3>1 DEF WatchRead, HolderWorks, TypeOK, ProgramsTypeOK
  <2>3. CASE WatchForceLock(w)
    BY <1>0, <2>0, <2>3 DEF WatchForceLock, Free, HolderWorks, TypeOK, ProgramsTypeOK
  <2>4. CASE WatchForceRead(w) \/ WatchForceCas(w)
    BY <1>0, <2>0, <2>4 DEF WatchForceRead, WatchForceCas, HolderWorks, TypeOK, ProgramsTypeOK
  <2>5. CASE WatchForceUnlock(w)
    BY <1>0, <2>0, <2>5 DEF WatchForceUnlock, Released, HolderWorks, TypeOK, ProgramsTypeOK
  <2>6. CASE WatchTransLock(w)
    BY <1>0, <2>0, <2>6 DEF WatchTransLock, HolderWorks, TypeOK, ProgramsTypeOK
  <2>7. CASE WatchTransRead(w)
    BY <1>0, <2>0, <2>7 DEF WatchTransRead, HolderWorks, TypeOK, ProgramsTypeOK
  <2>8. CASE WatchTransUnlock(w)
    BY <1>0, <2>0, <2>8 DEF WatchTransUnlock, Released, HolderWorks, TypeOK, ProgramsTypeOK
  <2> QED
    BY <1>5, <2>1, <2>2, <2>3, <2>4, <2>5, <2>6, <2>7, <2>8 DEF Watch
<1>6. ASSUME NEW a \in Agents, Throws(a)
      PROVE  HolderWorks'
  BY <1>0, <1>6 DEF Throws, HolderWorks, TypeOK, ProgramsTypeOK
<1>7. ASSUME NEW a \in Agents, Crash(a)
      PROVE  HolderWorks'
  BY <1>0, <1>7 DEF Crash, HolderWorks, TypeOK, ProgramsTypeOK
<1>8. ASSUME NEW l \in Locks, LockExpires(l)
      PROVE  HolderWorks'
  BY <1>8 DEF LockExpires, HolderWorks, TypeOK, ProgramsTypeOK
<1> QED
  BY <1>2, <1>3, <1>4, <1>5, <1>6, <1>7, <1>8 DEF Next, AgentStep

-----------------------------------------------------------------------------
LEMMA NextNothingBefore ==
  ASSUME GroupLifecycleAssumption, TypeOK, NothingBeforeFirstJob, [Next]_vars
  PROVE  NothingBeforeFirstJob'
<1> SUFFICES ASSUME total' = 0
             PROVE  status' = "NONE" /\ \A a \in Agents : pc'[a] \in {"wait", "done", "idle", "check"}
  BY DEF NothingBeforeFirstJob
<1> USE DEF Goto, InFinalize, InForce, meta
<1>1. CASE Submit
  <2>1. ~SubmitEnqueue
    BY DEF SubmitEnqueue, TypeOK
  <2> QED
    BY <1>1, <2>1 DEF Submit, SubmitRegister, SubmitWatch, SubmitTimeout, NothingBeforeFirstJob
<1>2. CASE ~Submit
  <2>0. total' = total /\ total = 0
    BY <1>2 DEF Next, AgentStep, Record, Ack, Watch, Finalize, Throws, Crash, LockExpires,
        TimeoutPasses, AggregationGoesStale, vars, FinalizeLock, FinalizeRead, FinalizeStart,
        AggregateList, AggregateStore, FinalizeEnd, FinalizeUnlock, WatchMembers, WatchRead,
        WatchUnwatch, WatchAdvance, WatchForce, WatchForceLock, WatchForceRead, WatchForceCas,
        WatchForceUnlock, WatchTransLock, WatchTransRead, WatchTransUnlock
  <2>1. status = "NONE" /\ \A a \in Agents : pc[a] \in {"wait", "done", "idle", "check"}
    BY <2>0 DEF NothingBeforeFirstJob
  <2>2. ASSUME NEW a \in Deliveries, Record(a) \/ Ack(a) PROVE FALSE
    <3>1. a \in Agents /\ (JobOf[a] \in Jobs => JobOf[a] > total)
      BY <2>0 DEF Agents, Jobs
    <3> QED
      BY <2>0, <2>1, <2>2, <3>1 DEF Record, Ack, CanBeHandled, Jobs
  <2>3. ASSUME NEW a \in Agents, Finalize(a) PROVE FALSE
    BY <2>1, <2>3 DEF Finalize, FinalizeLock, FinalizeRead, FinalizeStart, AggregateList,
        AggregateStore, FinalizeEnd, FinalizeUnlock
  <2>4. ASSUME NEW w \in Watchers, Watch(w)
        PROVE  status' = "NONE" /\ \A a \in Agents : pc'[a] \in {"wait", "done", "idle", "check"}
    <3>0. w \in Agents
      BY DEF Agents
    <3>1. WatchMembers(w) \/ WatchRead(w)
      BY <2>1, <2>4, <3>0 DEF Watch, WatchUnwatch, WatchAdvance, WatchForce, WatchForceLock,
        WatchForceRead, WatchForceCas, WatchForceUnlock, WatchTransLock, WatchTransRead,
        WatchTransUnlock
    <3>2. Decision = "idle"
      BY <2>1 DEF Decision, Terminal
    <3> QED
      BY <2>1, <3>0, <3>1, <3>2 DEF WatchMembers, WatchRead, TypeOK, ProgramsTypeOK
  <2>5. ASSUME NEW a \in Agents, Throws(a) PROVE FALSE
    BY <2>1, <2>5 DEF Throws
  <2>6. ASSUME NEW a \in Agents, Crash(a)
        PROVE  status' = "NONE" /\ \A b \in Agents : pc'[b] \in {"wait", "done", "idle", "check"}
    BY <2>1, <2>6 DEF Crash, TypeOK, ProgramsTypeOK
  <2>7. CASE TimeoutPasses \/ AggregationGoesStale \/ UNCHANGED vars \/ \E l \in Locks : LockExpires(l)
    BY <2>1, <2>7 DEF TimeoutPasses, AggregationGoesStale, vars, LockExpires
  <2> QED
    BY <1>2, <2>2, <2>3, <2>4, <2>5, <2>6, <2>7 DEF Next, AgentStep
<1> QED
  BY <1>1, <1>2

LEMMA NextUnlockedExpect ==
  ASSUME GroupLifecycleAssumption, TypeOK, UnlockedExpect, [Next]_vars
  PROVE  UnlockedExpect'
<1> USE DEF Goto, InFinalize, InForce
<1>1. ASSUME UNCHANGED <<pc, expected>> PROVE UnlockedExpect'
  BY <1>1 DEF UnlockedExpect
<1>2. ASSUME NEW a \in Agents, NEW label, label \notin {"force", "advance"},
             pc' = [pc EXCEPT ![a] = label],
             \A b \in Agents \ {a} : expected'[b] = expected[b]
      PROVE  UnlockedExpect'
  BY <1>2 DEF UnlockedExpect, TypeOK, ProgramsTypeOK
<1>3. CASE Submit \/ TimeoutPasses \/ AggregationGoesStale \/ UNCHANGED vars
            \/ \E l \in Locks : LockExpires(l)
  BY <1>1, <1>3 DEF Submit, SubmitEnqueue, SubmitRegister, SubmitWatch, SubmitTimeout,
                    TimeoutPasses, AggregationGoesStale, vars, LockExpires
<1>4. ASSUME NEW a \in Deliveries, Record(a) \/ Ack(a)
      PROVE  UnlockedExpect'
  BY <1>2, <1>4 DEF Record, Ack, Agents
<1>5. ASSUME NEW a \in Agents, Finalize(a)
      PROVE  UnlockedExpect'
  <2>1. Return(a) \in {"done", "transUnlock", "idle"}
    BY DEF Return
  <2> QED
    BY <1>2, <1>5, <2>1 DEF Finalize, FinalizeLock, FinalizeRead, FinalizeStart, AggregateList,
        AggregateStore, FinalizeEnd, FinalizeUnlock
<1>6. ASSUME NEW w \in Watchers, Watch(w)
      PROVE  UnlockedExpect'
  <2>0. w \in Agents
    BY DEF Agents
  <2>1. CASE WatchRead(w)
    <3>1. Decision \in {"force", "advance"} => status \in {"CREATED", "DISPATCHED", "RUNNING"}
      BY DEF Decision, ForceNeedsLock, TypeOK, Statuses, Terminal
    <3>2. pc' = [pc EXCEPT ![w] = Decision]
      BY <2>1 DEF WatchRead
    <3>3. expected' = [expected EXCEPT ![w] = IF Decision \in {"force", "advance"} THEN status ELSE None]
      BY <2>1 DEF WatchRead
    <3> QED
      BY <2>0, <3>1, <3>2, <3>3 DEF UnlockedExpect, TypeOK, ProgramsTypeOK
  <2>2. CASE ~WatchRead(w)
    <3>1. \A b \in Agents \ {w} : expected'[b] = expected[b]
      BY <1>6, <2>2 DEF TypeOK, Watch, WatchMembers, WatchUnwatch, WatchAdvance, WatchForce,
        WatchForceLock, WatchForceRead, WatchForceCas, WatchForceUnlock, WatchTransLock,
        WatchTransRead, WatchTransUnlock
    <3>2. \E label : label \notin {"force", "advance"} /\ pc' = [pc EXCEPT ![w] = label]
      BY <1>6, <2>2 DEF Watch, WatchMembers, WatchUnwatch, WatchAdvance, WatchForce,
        WatchForceLock, WatchForceRead, WatchForceCas, WatchForceUnlock, WatchTransLock,
        WatchTransRead, WatchTransUnlock
    <3> QED
      BY <1>2, <2>0, <3>1, <3>2
  <2> QED
    BY <2>1, <2>2
<1>7. ASSUME NEW a \in Agents, Throws(a) \/ Crash(a)
      PROVE  UnlockedExpect'
  BY <1>2, <1>7 DEF Throws, Crash, TypeOK, ProgramsTypeOK
<1> QED
  BY <1>3, <1>4, <1>5, <1>6, <1>7 DEF Next, AgentStep

\* Where the status of a group that is being aggregated can change: only in the
\* hands of the one that aggregates it.
LEMMA NextStatusWhileAggregating ==
  ASSUME GroupLifecycleAssumption, TypeOK, Exclusion, [Next]_vars
  PROVE  StatusWhileAggregating'
<1> USE DEF Goto, InFinalize, InForce, meta
<1> DEFINE Works3 == {"list", "store", "casCompleted"}
<1>1. ASSUME Aggregating' \subseteq Aggregating, status' = status
      PROVE  StatusWhileAggregating'
  BY <1>1 DEF StatusWhileAggregating, Exclusion
<1>2. ASSUME NEW a \in Agents, NEW label, label \notin Works3 \/ a \in Aggregating,
             pc' = [pc EXCEPT ![a] = label]
      PROVE  Aggregating' \subseteq Aggregating
  BY <1>2 DEF Aggregating, TypeOK, ProgramsTypeOK
<1>3. ASSUME NEW a \in Agents, a \notin Aggregating, Works(a, "aggregation")
      PROVE  Aggregating = {}
  BY <1>3 DEF Aggregating, Works, Exclusion, HolderWorks
<1>4. CASE Submit
  <2>1. Aggregating' = Aggregating
    BY <1>4 DEF Submit, SubmitEnqueue, SubmitRegister, SubmitWatch, SubmitTimeout, Aggregating
  <2>2. CASE SubmitEnqueue /\ total = 0
    <3>1. Aggregating = {}
      BY <2>2 DEF Exclusion, NothingBeforeFirstJob, Aggregating
    <3> QED
      BY <2>1, <3>1 DEF StatusWhileAggregating
  <2>3. CASE SubmitEnqueue /\ total # 0
    <3>1. status' = status
      BY <2>3 DEF SubmitEnqueue, TypeOK
    <3> QED
      BY <1>1, <2>1, <3>1
  <2>4. CASE ~SubmitEnqueue
    <3>1. status' = status
      BY <1>4, <2>4 DEF Submit, SubmitRegister, SubmitWatch, SubmitTimeout
    <3> QED
      BY <1>1, <2>1, <3>1
  <2> QED
    BY <2>2, <2>3, <2>4
<1>5. CASE TimeoutPasses \/ AggregationGoesStale \/ UNCHANGED vars
            \/ \E l \in Locks : LockExpires(l)
  BY <1>1, <1>5 DEF TimeoutPasses, AggregationGoesStale, vars, LockExpires, Aggregating
<1>6. ASSUME NEW a \in Deliveries, Record(a) \/ Ack(a)
      PROVE  StatusWhileAggregating'
  <2>1. a \in Agents /\ Aggregating' \subseteq Aggregating
    BY <1>2, <1>6 DEF Agents, Record, Ack
  <2>2. status' \in {status, "AGGREGATING"}
    BY <1>6 DEF Record, Ack, AckStatus
  <2> QED
    BY <2>1, <2>2 DEF Exclusion, StatusWhileAggregating
<1>7. ASSUME NEW a \in Agents, Finalize(a)
      PROVE  StatusWhileAggregating'
  <2>1. Return(a) \notin Works3
    BY DEF Return
  <2>2. CASE FinalizeLock(a) \/ FinalizeUnlock(a)
    <3>1. Aggregating' \subseteq Aggregating /\ status' = status
      BY <1>2, <2>1, <2>2 DEF FinalizeLock, FinalizeUnlock
    <3> QED
      BY <1>1, <3>1
  <2>3. CASE FinalizeRead(a)
    <3>1. status' = status
      BY <2>3 DEF FinalizeRead
    <3>2. CASE status = "AGGREGATING"
      BY <3>1, <3>2 DEF StatusWhileAggregating
    <3>3. CASE status # "AGGREGATING"
      <4>1. Aggregating' \subseteq Aggregating
        BY <1>2, <2>3, <3>3 DEF FinalizeRead
      <4> QED
        BY <1>1, <3>1, <4>1
    <3> QED
      BY <3>2, <3>3
  <2>4. CASE FinalizeStart(a)
    <3>1. CASE status = "RUNNING"
      BY <2>4, <3>1 DEF FinalizeStart, Transition, StatusWhileAggregating
    <3>2. CASE status # "RUNNING"
      <4>1. Aggregating' \subseteq Aggregating /\ status' = status
        BY <1>2, <2>4, <3>2 DEF FinalizeStart, Transition
      <4> QED
        BY <1>1, <4>1
    <3> QED
      BY <3>1, <3>2
  <2>5. CASE AggregateList(a) \/ AggregateStore(a)
    <3>1. a \in Aggregating /\ status' = status
      BY <2>5 DEF AggregateList, AggregateStore, Aggregating
    <3>2. Aggregating' \subseteq Aggregating
      BY <1>2, <2>5, <3>1 DEF AggregateList, AggregateStore
    <3> QED
      BY <1>1, <3>1, <3>2
  <2>6. CASE FinalizeEnd(a)
    <3>1. \A b \in Aggregating : b = a
      BY <2>6 DEF FinalizeEnd, Exclusion, HolderWorks, Works, Aggregating
    <3>2. Aggregating' = {}
      BY <2>6, <3>1 DEF FinalizeEnd, Aggregating, TypeOK, ProgramsTypeOK
    <3> QED
      BY <3>2 DEF StatusWhileAggregating
  <2> QED
    BY <1>7, <2>2, <2>3, <2>4, <2>5, <2>6 DEF Finalize
<1>8. ASSUME NEW w \in Watchers, Watch(w)
      PROVE  StatusWhileAggregating'
  <2>0. w \in Agents
    BY DEF Agents
  <2>1. \E label : label \notin Works3 /\ pc' = [pc EXCEPT ![w] = label]
    <3>1. Decision \notin Works3
      BY DEF Decision
    <3> QED
      BY <1>8, <3>1 DEF Watch, WatchMembers, WatchRead, WatchUnwatch, WatchAdvance, WatchForce,
        WatchForceLock, WatchForceRead, WatchForceCas, WatchForceUnlock, WatchTransLock,
        WatchTransRead, WatchTransUnlock
  <2>2. Aggregating' \subseteq Aggregating
    BY <1>2, <2>0, <2>1
  <2>3. CASE WatchAdvance(w) \/ WatchForce(w)
    <3>1. expected[w] # "AGGREGATING"
      BY <2>0, <2>3 DEF WatchAdvance, WatchForce, Exclusion, UnlockedExpect
    <3>2. status = "AGGREGATING" => status' = status
      BY <2>3, <3>1 DEF WatchAdvance, WatchForce, WatcherTransition, Transition
    <3> QED
      BY <2>2, <3>2 DEF Exclusion, StatusWhileAggregating
  <2>4. CASE WatchForceCas(w)
    <3>1. Aggregating = {}
      BY <1>3, <2>0, <2>4 DEF WatchForceCas, Works, Aggregating
    <3> QED
      BY <2>2, <3>1 DEF StatusWhileAggregating
  <2>5. CASE ~(WatchAdvance(w) \/ WatchForce(w) \/ WatchForceCas(w))
    <3>1. status' = status
      BY <1>8, <2>5 DEF Watch, WatchMembers, WatchRead, WatchUnwatch, WatchForceLock,
        WatchForceRead, WatchForceUnlock, WatchTransLock, WatchTransRead, WatchTransUnlock
    <3> QED
      BY <1>1, <2>2, <3>1
  <2> QED
    BY <2>3, <2>4, <2>5
<1>9. ASSUME NEW a \in Agents, Throws(a) \/ Crash(a)
      PROVE  StatusWhileAggregating'
  <2>1. Aggregating' \subseteq Aggregating /\ status' = status
    BY <1>2, <1>9 DEF Throws, Crash
  <2> QED
    BY <1>1, <2>1
<1> QED
  BY <1>4, <1>5, <1>6, <1>7, <1>8, <1>9 DEF Next, AgentStep

-----------------------------------------------------------------------------
LEMMA ExclusionHolds == ExpireLive = FALSE => (Spec => []Exclusion)
<1>1. Init => Exclusion
  BY GroupLifecycleAssumption
     DEF Init, Exclusion, HolderWorks, NothingBeforeFirstJob, UnlockedExpect,
         StatusWhileAggregating, Aggregating, Works, InFinalize, InForce, Agents,
         GroupLifecycleAssumption
<1>2. ExpireLive = FALSE /\ TypeOK /\ Exclusion /\ [Next]_vars => Exclusion'
  BY GroupLifecycleAssumption, NextHolderWorks, NextNothingBefore, NextUnlockedExpect,
     NextStatusWhileAggregating DEF Exclusion
<1>3. CASE ExpireLive = FALSE
  BY <1>1, <1>2, <1>3, TypeCorrect, PTL DEF Spec
<1> QED
  BY <1>3

\* One agent aggregates at a time, for every number of jobs, handlers and
\* watchers and every sequence of crashes, as long as a lock outlasts its work.
THEOREM OneAggregates == ExpireLive = FALSE => (Spec => []AggregationExclusive)
<1>1. Exclusion => AggregationExclusive
  BY GroupLifecycleAssumption, HolderIsOnlyOne DEF Exclusion
<1> QED
  BY <1>1, ExclusionHolds, PTL

\* No timeout fails a group while somebody aggregates it: neither by a forced
\* transition that takes the lock nor by one that relies on the status.
THEOREM NoTimeoutDuringAggregation == ExpireLive = FALSE => (Spec => NoFailureDuringAggregation)
<1>1. TypeOK /\ Exclusion /\ [Next]_vars =>
        [status' = "FAILED" /\ status # "FAILED" => Aggregating = {}]_vars
  <2> SUFFICES ASSUME TypeOK, Exclusion, Next, status' = "FAILED", status # "FAILED"
               PROVE  Aggregating = {}
    BY DEF vars, meta
  <2>1. PICK w \in Watchers : WatchForce(w) \/ WatchForceCas(w)
    <3>1. ~Submit /\ ~TimeoutPasses /\ ~AggregationGoesStale /\ \A l \in Locks : ~LockExpires(l)
      BY DEF Submit, SubmitEnqueue, SubmitRegister, SubmitWatch, SubmitTimeout, TimeoutPasses,
             AggregationGoesStale, LockExpires, meta
    <3>2. \A a \in Agents : ~Throws(a) /\ ~Crash(a) /\ ~Finalize(a) /\ ~Record(a) /\ ~Ack(a)
      BY DEF Throws, Crash, Finalize, FinalizeLock, FinalizeRead, FinalizeStart, AggregateList,
             AggregateStore, FinalizeEnd, FinalizeUnlock, Record, Ack, AckStatus, Transition, meta
    <3>3. \E w \in Watchers : Watch(w)
      BY <3>1, <3>2 DEF Next, AgentStep
    <3> QED
      BY <3>3 DEF Watch, WatchMembers, WatchRead, WatchUnwatch, WatchAdvance, WatchForceLock,
        WatchForceRead, WatchForceUnlock, WatchTransLock, WatchTransRead, WatchTransUnlock,
        WatcherTransition, Transition, meta
  <2>2. w \in Agents
    BY DEF Agents
  <2>3. CASE WatchForce(w)
    BY <2>2, <2>3 DEF WatchForce, WatcherTransition, Transition, Exclusion, UnlockedExpect,
      StatusWhileAggregating
  <2>4. CASE WatchForceCas(w)
    BY <2>2, <2>4 DEF WatchForceCas, Exclusion, HolderWorks, Works, Aggregating, InFinalize, InForce
  <2> QED
    BY <2>1, <2>3, <2>4
<1> QED
  BY <1>1, TypeCorrect, ExclusionHolds, PTL DEF Spec, NoFailureDuringAggregation

-----------------------------------------------------------------------------
\* What a watcher may expect when it comes to change the status: it has read a
\* status from which the change it is about to make is allowed.
Expectations ==
  \A a \in Agents : /\ pc[a] = "advance" => expected[a] \in {"CREATED", "DISPATCHED"}
                    /\ pc[a] \in {"force", "forceCas"} => expected[a] \notin Terminal

LEMMA NextExpectations ==
  ASSUME GroupLifecycleAssumption, TypeOK, Expectations, [Next]_vars
  PROVE  Expectations'
<1> USE DEF Goto, InFinalize, InForce
<1>1. ASSUME UNCHANGED <<pc, expected>> PROVE Expectations'
  BY <1>1 DEF Expectations
<1>2. ASSUME NEW a \in Agents, NEW label, label \notin {"force", "forceCas", "advance"},
             pc' = [pc EXCEPT ![a] = label],
             \A b \in Agents \ {a} : expected'[b] = expected[b]
      PROVE  Expectations'
  BY <1>2 DEF Expectations, TypeOK, ProgramsTypeOK
<1>3. CASE Submit \/ TimeoutPasses \/ AggregationGoesStale \/ UNCHANGED vars
            \/ \E l \in Locks : LockExpires(l)
  BY <1>1, <1>3 DEF Submit, SubmitEnqueue, SubmitRegister, SubmitWatch, SubmitTimeout,
                    TimeoutPasses, AggregationGoesStale, vars, LockExpires
<1>4. ASSUME NEW a \in Deliveries, Record(a) \/ Ack(a)
      PROVE  Expectations'
  BY <1>2, <1>4 DEF Record, Ack, Agents
<1>5. ASSUME NEW a \in Agents, Finalize(a)
      PROVE  Expectations'
  <2>1. Return(a) \in {"done", "transUnlock", "idle"}
    BY DEF Return
  <2> QED
    BY <1>2, <1>5, <2>1 DEF Finalize, FinalizeLock, FinalizeRead, FinalizeStart, AggregateList,
        AggregateStore, FinalizeEnd, FinalizeUnlock
<1>6. ASSUME NEW w \in Watchers, Watch(w)
      PROVE  Expectations'
  <2>0. w \in Agents
    BY DEF Agents
  <2>1. CASE WatchRead(w)
    <3>1. /\ Decision = "advance" => status \in {"CREATED", "DISPATCHED"}
          /\ Decision = "force" => status \notin Terminal
          /\ Decision # "forceCas"
      BY DEF Decision, Terminal
    <3>2. pc' = [pc EXCEPT ![w] = Decision]
      BY <2>1 DEF WatchRead
    <3>3. expected' = [expected EXCEPT ![w] = IF Decision \in {"force", "advance"} THEN status ELSE None]
      BY <2>1 DEF WatchRead
    <3> QED
      BY <2>0, <3>1, <3>2, <3>3 DEF Expectations, TypeOK, ProgramsTypeOK
  <2>2. CASE WatchForceRead(w)
    BY <2>0, <2>2 DEF WatchForceRead, Expectations, TypeOK, ProgramsTypeOK
  <2>3. CASE ~WatchRead(w) /\ ~WatchForceRead(w)
    <3>1. \A b \in Agents \ {w} : expected'[b] = expected[b]
      BY <1>6, <2>3 DEF TypeOK, Watch, WatchMembers, WatchUnwatch, WatchAdvance, WatchForce,
        WatchForceLock, WatchForceCas, WatchForceUnlock, WatchTransLock, WatchTransRead,
        WatchTransUnlock
    <3>2. \E label : label \notin {"force", "forceCas", "advance"} /\ pc' = [pc EXCEPT ![w] = label]
      BY <1>6, <2>3 DEF Watch, WatchMembers, WatchUnwatch, WatchAdvance, WatchForce,
        WatchForceLock, WatchForceCas, WatchForceUnlock, WatchTransLock, WatchTransRead,
        WatchTransUnlock
    <3> QED
      BY <1>2, <2>0, <3>1, <3>2
  <2> QED
    BY <2>1, <2>2, <2>3
<1>7. ASSUME NEW a \in Agents, Throws(a) \/ Crash(a)
      PROVE  Expectations'
  BY <1>2, <1>7 DEF Throws, Crash, TypeOK, ProgramsTypeOK
<1> QED
  BY <1>3, <1>4, <1>5, <1>6, <1>7 DEF Next, AgentStep

\* A delivery is acknowledged once.
AckedOnce == \A d \in Deliveries : pc[d] \in {"wait", "ack"} => d \notin acked

LEMMA NextAckedOnce ==
  ASSUME GroupLifecycleAssumption, TypeOK, AckedOnce, [Next]_vars
  PROVE  AckedOnce'
<1> USE DEF Goto, InFinalize, InForce
<1>0. Deliveries \subseteq Agents
  BY DEF Agents
<1>1. ASSUME UNCHANGED <<pc, acked>> PROVE AckedOnce'
  BY <1>1 DEF AckedOnce
<1>2. ASSUME NEW a \in Agents, NEW label, label \notin {"wait", "ack"},
             pc' = [pc EXCEPT ![a] = label], acked' \subseteq acked \cup {a}
      PROVE  AckedOnce'
  BY <1>0, <1>2 DEF AckedOnce, TypeOK, ProgramsTypeOK
<1>3. CASE Submit \/ TimeoutPasses \/ AggregationGoesStale \/ UNCHANGED vars
            \/ \E l \in Locks : LockExpires(l)
  BY <1>1, <1>3 DEF Submit, SubmitEnqueue, SubmitRegister, SubmitWatch, SubmitTimeout,
                    TimeoutPasses, AggregationGoesStale, vars, LockExpires
<1>4. ASSUME NEW a \in Deliveries, Record(a)
      PROVE  AckedOnce'
  BY <1>0, <1>4 DEF Record, AckedOnce, TypeOK, ProgramsTypeOK
<1>5. ASSUME NEW a \in Deliveries, Ack(a)
      PROVE  AckedOnce'
  <2>1. pc' = [pc EXCEPT ![a] = "lock"] \/ pc' = [pc EXCEPT ![a] = "done"]
    BY <1>5 DEF Ack
  <2>2. acked' = acked \cup {a}
    BY <1>5 DEF Ack
  <2> QED
    BY <1>0, <1>2, <2>1, <2>2
<1>6. ASSUME NEW a \in Agents, Finalize(a) \/ Throws(a) \/ Crash(a)
      PROVE  AckedOnce'
  <2>1. Return(a) \in {"done", "transUnlock", "idle"}
    BY DEF Return
  <2>2. acked' = acked
    BY <1>6 DEF Finalize, FinalizeLock, FinalizeRead, FinalizeStart, AggregateList,
        AggregateStore, FinalizeEnd, FinalizeUnlock, Throws, Crash
  <2>3. \E label : label \notin {"wait", "ack"} /\ pc' = [pc EXCEPT ![a] = label]
    BY <1>6, <2>1 DEF Finalize, FinalizeLock, FinalizeRead, FinalizeStart, AggregateList,
        AggregateStore, FinalizeEnd, FinalizeUnlock, Throws, Crash
  <2> QED
    BY <1>2, <2>2, <2>3
<1>7. ASSUME NEW w \in Watchers, Watch(w)
      PROVE  AckedOnce'
  <2>1. w \in Agents /\ Decision \notin {"wait", "ack"}
    BY DEF Agents, Decision
  <2>2. acked' = acked
    BY <1>7 DEF Watch, WatchMembers, WatchRead, WatchUnwatch, WatchAdvance, WatchForce,
        WatchForceLock, WatchForceRead, WatchForceCas, WatchForceUnlock, WatchTransLock,
        WatchTransRead, WatchTransUnlock
  <2>3. \E label : label \notin {"wait", "ack"} /\ pc' = [pc EXCEPT ![w] = label]
    BY <1>7, <2>1 DEF Watch, WatchMembers, WatchRead, WatchUnwatch, WatchAdvance, WatchForce,
        WatchForceLock, WatchForceRead, WatchForceCas, WatchForceUnlock, WatchTransLock,
        WatchTransRead, WatchTransUnlock
  <2> QED
    BY <1>2, <2>1, <2>2, <2>3
<1> QED
  BY <1>3, <1>4, <1>5, <1>6, <1>7 DEF Next, AgentStep

\* The steps that can change the status of a group that exists.
LEMMA StatusSteps ==
  ASSUME GroupLifecycleAssumption, TypeOK, NothingBeforeFirstJob, Next,
         status' # status, status # "NONE"
  PROVE  \/ \E d \in Deliveries : Ack(d)
         \/ \E a \in Agents : FinalizeStart(a) \/ FinalizeEnd(a)
         \/ \E w \in Watchers : WatchAdvance(w) \/ WatchForce(w) \/ WatchForceCas(w)
<1>1. ~Submit
  <2>1. total # 0
    BY DEF NothingBeforeFirstJob
  <2>2. ~SubmitEnqueue
    BY <2>1 DEF SubmitEnqueue, TypeOK
  <2> QED
    BY <2>2 DEF Submit, SubmitRegister, SubmitWatch, SubmitTimeout, meta
<1>2. ~TimeoutPasses /\ ~AggregationGoesStale /\ \A l \in Locks : ~LockExpires(l)
  BY DEF TimeoutPasses, AggregationGoesStale, LockExpires, meta
<1>3. \A a \in Agents : ~Throws(a) /\ ~Crash(a)
  BY DEF Throws, Crash, meta
<1>4. PICK a \in Agents : AgentStep(a)
  BY <1>1, <1>2, <1>3 DEF Next
<1>5. CASE a \in Deliveries /\ (Record(a) \/ Ack(a))
  BY <1>5 DEF Record, meta
<1>6. CASE a \in Watchers /\ Watch(a)
  BY <1>6 DEF Watch, WatchMembers, WatchRead, WatchUnwatch, WatchForceLock, WatchForceRead,
        WatchForceUnlock, WatchTransLock, WatchTransRead, WatchTransUnlock, meta
<1>7. CASE Finalize(a)
  BY <1>7 DEF Finalize, FinalizeLock, FinalizeRead, AggregateList, AggregateStore,
        FinalizeUnlock, meta
<1> QED
  BY <1>4, <1>5, <1>6, <1>7 DEF AgentStep

\* The status of a group only changes as the state machine allows, or to
\* AGGREGATING by an ack, whatever the locks do: for every number of watchers
\* and every status that was read and is out of date when it is acted upon.
THEOREM RulesKept == Spec => OnlyAckBreaksRules
<1>1. Init => Expectations /\ AckedOnce /\ NothingBeforeFirstJob
  BY DEF Init, Expectations, AckedOnce, NothingBeforeFirstJob, Agents
<1>2. TypeOK /\ Expectations /\ AckedOnce /\ NothingBeforeFirstJob /\ [Next]_vars
        => (Expectations /\ AckedOnce /\ NothingBeforeFirstJob)'
  BY GroupLifecycleAssumption, NextExpectations, NextAckedOnce, NextNothingBefore
<1>3. TypeOK /\ Expectations /\ AckedOnce /\ NothingBeforeFirstJob /\ [Next]_vars =>
        [status' # status /\ status # "NONE" =>
           \/ <<status, status'>> \in Rules
           \/ status' = "AGGREGATING" /\ acked' # acked]_vars
  <2> SUFFICES ASSUME TypeOK, Expectations, AckedOnce, NothingBeforeFirstJob, Next,
                      status' # status, status # "NONE"
               PROVE  \/ <<status, status'>> \in Rules
                      \/ status' = "AGGREGATING" /\ acked' # acked
    BY DEF vars, meta
  <2>1. ASSUME NEW d \in Deliveries, Ack(d) PROVE status' = "AGGREGATING" /\ acked' # acked
    BY <2>1 DEF Ack, AckStatus, AckedOnce
  <2>2. ASSUME NEW a \in Agents, FinalizeStart(a) \/ FinalizeEnd(a)
        PROVE  <<status, status'>> \in Rules
    BY <2>2 DEF FinalizeStart, FinalizeEnd, Transition, Rules
  <2>3. ASSUME NEW w \in Watchers, WatchAdvance(w) PROVE <<status, status'>> \in Rules
    BY <2>3 DEF WatchAdvance, WatcherTransition, IsValidTransition, Transition, Rules,
      Expectations, Agents
  <2>4. ASSUME NEW w \in Watchers, WatchForce(w) \/ WatchForceCas(w)
        PROVE  <<status, status'>> \in Rules
    <3>1. status \notin Terminal /\ status' = "FAILED"
      BY <2>4 DEF WatchForce, WatchForceCas, WatcherTransition, IsValidTransition, Transition,
        Expectations, Agents
    <3> QED
      BY <3>1 DEF TypeOK, Statuses, Rules
  <2> QED
    BY GroupLifecycleAssumption, StatusSteps, <2>1, <2>2, <2>3, <2>4
<1> QED
  BY <1>1, <1>2, <1>3, TypeCorrect, PTL DEF Spec, OnlyAckBreaksRules

-----------------------------------------------------------------------------
(* The result of a completed group *)

\* No job of the group is handled twice: orphan recovery gave none to a second
\* worker.
HandledOnce ==
  \A d, e \in Deliveries : JobOf[d] = JobOf[e] /\ JobOf[d] # OtherJob => d = e

\* The job-results list is as long as the request.
Covered == Cardinality(results) >= NumJobs

\* A result lacks no more jobs of the request than other groups' orphans have been
\* recorded for this one.
NearlyWhole(r) == r # None /\ Cardinality(Jobs \ r) <= Cardinality(Foreign(results))

\* The calls after which an agent finalizes the group, or may.
ToFinalize == {"transLock", "transRead", "lock", "read", "casAggregating"}
                \cup {"list", "store", "casCompleted"}

\* Results come after the whole submission, and acks after the results.
ResultsInOrder ==
  /\ results # {} => submitter = "done"
  /\ acked \subseteq results
  /\ \A d \in Deliveries : pc[d] = "ack" => d \in results

\* Nobody is on the way to an aggregation, or has brought the group there, before
\* the list is long enough, and what was read from it then is nearly whole.
ResultComplete ==
  /\ status \in {"AGGREGATING", "COMPLETED"} => Covered
  /\ \A a \in Agents : /\ pc[a] \in ToFinalize => Covered
                       /\ pc[a] = "store" => NearlyWhole(listed[a])
                       /\ pc[a] = "casCompleted" => NearlyWhole(result)
  /\ status = "COMPLETED" => NearlyWhole(result)

\* The jobs that a list of deliveries has, when it is as long as the request: all
\* but one, at most, for every delivery that is another group's.
LEMMA ListedNearlyWhole ==
  ASSUME GroupLifecycleAssumption, HandledOnce, TypeOK, Covered
  PROVE  NearlyWhole({JobOf[d] : d \in results})
<1> DEFINE L == {JobOf[d] : d \in results}
           Own == results \ Foreign(results)
<1>1. /\ results \subseteq Deliveries /\ IsFiniteSet(results) /\ Cardinality(results) \in Nat
      /\ NumJobs \in Nat /\ Cardinality(results) >= NumJobs
  BY FS_Subset, FS_CardinalityType DEF TypeOK, GroupLifecycleAssumption, Covered
<1>2. L \in SUBSET (Jobs \cup {OtherJob}) /\ L # None
  BY <1>1 DEF GroupLifecycleAssumption
<1>3. IsFiniteSet(Jobs) /\ Cardinality(Jobs) = NumJobs
  BY <1>1, FS_Interval DEF Jobs
<1>4. /\ IsFiniteSet(Own) /\ Cardinality(Own) = Cardinality(results) - Cardinality(Foreign(results))
      /\ Cardinality(Foreign(results)) \in Nat
  <2>1. results \cap Foreign(results) = Foreign(results) /\ Foreign(results) \subseteq results
    BY DEF Foreign
  <2> QED
    BY <1>1, <2>1, FS_Difference, FS_Subset, FS_CardinalityType
<1>5. /\ IsFiniteSet(Jobs \cap L) /\ Cardinality(Jobs \cap L) \in Nat
      /\ Cardinality(Jobs \ L) = NumJobs - Cardinality(Jobs \cap L)
  BY <1>3, FS_Difference, FS_Intersection, FS_CardinalityType
<1>6. Cardinality(Own) <= Cardinality(Jobs \cap L)
  <2> DEFINE f == [d \in Own |-> JobOf[d]]
  <2>1. f \in [Own -> Jobs \cap L]
    BY <1>1 DEF GroupLifecycleAssumption, Foreign
  <2>2. \A d, e \in Own : d # e => f[d] # f[e]
    BY <1>1 DEF HandledOnce, Foreign
  <2> HIDE DEF f, Own, L
  <2>3. Cardinality(Own) \in Nat
    BY <1>4, FS_CardinalityType
  <2>4. ~(Cardinality(Jobs \cap L) < Cardinality(Own))
    BY <1>4, <1>5, <2>1, <2>2, FS_PigeonHole
  <2> QED
    BY <1>5, <2>3, <2>4
<1> HIDE DEF L, Own
<1>7. Cardinality(Jobs \ L) <= Cardinality(Foreign(results))
  BY <1>1, <1>4, <1>5, <1>6
<1> QED
  BY <1>2, <1>7 DEF NearlyWhole, L

LEMMA NextResultsInOrder ==
  ASSUME GroupLifecycleAssumption, SubmitBeforeWork, TypeOK, ResultsInOrder, [Next]_vars
  PROVE  ResultsInOrder' /\ results \subseteq results'
<1> USE DEF Goto, meta
<1>0. Deliveries \subseteq Agents
  BY DEF Agents
<1>1. ASSUME UNCHANGED <<results, acked>>, submitter = "done" => submitter' = "done",
             \A d \in Deliveries : pc'[d] = "ack" => pc[d] = "ack"
      PROVE  ResultsInOrder' /\ results \subseteq results'
  BY <1>1 DEF ResultsInOrder
<1>2. CASE Submit
  <2>1. UNCHANGED <<results, acked, pc>> /\ submitter # "done"
    BY <1>2 DEF Submit, SubmitEnqueue, SubmitRegister, SubmitWatch, SubmitTimeout
  <2> QED
    BY <1>1, <2>1
<1>3. CASE TimeoutPasses \/ AggregationGoesStale \/ UNCHANGED vars \/ \E l \in Locks : LockExpires(l)
  BY <1>1, <1>3 DEF TimeoutPasses, AggregationGoesStale, vars, LockExpires
<1>4. ASSUME NEW d \in Deliveries, Record(d)
      PROVE  ResultsInOrder' /\ results \subseteq results'
  <2>1. /\ submitter' = "done" /\ results' = results \cup {d} /\ acked' = acked
        /\ pc' = [pc EXCEPT ![d] = "ack"]
    BY <1>4 DEF Record
  <2>2. \A e \in Deliveries : pc'[e] = "ack" => e = d \/ pc[e] = "ack"
    BY <2>1, <1>0 DEF TypeOK, ProgramsTypeOK
  <2> QED
    BY <2>1, <2>2 DEF ResultsInOrder
<1>5. ASSUME NEW d \in Deliveries, Ack(d)
      PROVE  ResultsInOrder' /\ results \subseteq results'
  <2>1. /\ results' = results /\ acked' = acked \cup {d} /\ pc[d] = "ack" /\ submitter' = submitter
        /\ \E label \in {"lock", "done"} : pc' = [pc EXCEPT ![d] = label]
    BY <1>5 DEF Ack
  <2>2. \A e \in Deliveries : pc'[e] = "ack" => pc[e] = "ack"
    BY <2>1, <1>0 DEF TypeOK, ProgramsTypeOK
  <2> QED
    BY <2>1, <2>2 DEF ResultsInOrder
<1>6. ASSUME NEW a \in Agents, NEW label, label # "ack", pc' = [pc EXCEPT ![a] = label],
             UNCHANGED <<results, acked, submitter>>
      PROVE  ResultsInOrder' /\ results \subseteq results'
  BY <1>0, <1>1, <1>6 DEF TypeOK, ProgramsTypeOK
<1>7. ASSUME NEW a \in Agents, Finalize(a) \/ Throws(a) \/ Crash(a)
      PROVE  ResultsInOrder' /\ results \subseteq results'
  <2>1. Return(a) # "ack"
    BY DEF Return
  <2>2. UNCHANGED <<results, acked, submitter>>
    BY <1>7 DEF Finalize, FinalizeLock, FinalizeRead, FinalizeStart, AggregateList,
        AggregateStore, FinalizeEnd, FinalizeUnlock, Throws, Crash
  <2>3. \E label : label # "ack" /\ pc' = [pc EXCEPT ![a] = label]
    BY <1>7, <2>1 DEF Finalize, FinalizeLock, FinalizeRead, FinalizeStart, AggregateList,
        AggregateStore, FinalizeEnd, FinalizeUnlock, Throws, Crash
  <2> QED
    BY <1>6, <2>2, <2>3
<1>8. ASSUME NEW w \in Watchers, Watch(w)
      PROVE  ResultsInOrder' /\ results \subseteq results'
  <2>1. w \in Agents /\ Decision # "ack"
    BY DEF Agents, Decision
  <2>2. UNCHANGED <<results, acked, submitter>>
    BY <1>8 DEF Watch, WatchMembers, WatchRead, WatchUnwatch, WatchAdvance, WatchForce,
        WatchForceLock, WatchForceRead, WatchForceCas, WatchForceUnlock, WatchTransLock,
        WatchTransRead, WatchTransUnlock
  <2>3. \E label : label # "ack" /\ pc' = [pc EXCEPT ![w] = label]
    BY <1>8, <2>1 DEF Watch, WatchMembers, WatchRead, WatchUnwatch, WatchAdvance, WatchForce,
        WatchForceLock, WatchForceRead, WatchForceCas, WatchForceUnlock, WatchTransLock,
        WatchTransRead, WatchTransUnlock
  <2> QED
    BY <1>6, <2>1, <2>2, <2>3
<1> QED
  BY <1>2, <1>3, <1>4, <1>5, <1>7, <1>8 DEF Next, AgentStep

\* The list only grows.
LEMMA CoveredStays ==
  ASSUME GroupLifecycleAssumption, TypeOK, TypeOK', results \subseteq results'
  PROVE  (Covered => Covered') /\ \A r : NearlyWhole(r) => NearlyWhole(r)'
<1>1. /\ IsFiniteSet(results) /\ IsFiniteSet(results')
      /\ Cardinality(results) \in Nat /\ Cardinality(results') \in Nat
      /\ Cardinality(results) <= Cardinality(results')
  BY FS_Subset, FS_CardinalityType DEF TypeOK, GroupLifecycleAssumption
<1>2. NumJobs \in Nat /\ IsFiniteSet(Jobs)
  BY FS_Interval DEF GroupLifecycleAssumption, Jobs
<1>3. /\ Foreign(results) \in SUBSET Foreign(results') /\ Foreign(results') \in SUBSET results'
  BY DEF Foreign
<1>4. /\ Cardinality(Foreign(results)) <= Cardinality(Foreign(results'))
      /\ Cardinality(Foreign(results)) \in Nat /\ Cardinality(Foreign(results')) \in Nat
  <2>1. IsFiniteSet(Foreign(results'))
    BY <1>1, <1>3, FS_Subset
  <2> QED
    BY <1>3, <2>1, FS_Subset, FS_CardinalityType
<1>5. \A r : Cardinality(Jobs \ r) \in Nat
  BY <1>2, FS_Difference, FS_CardinalityType
<1> QED
  BY <1>1, <1>2, <1>4, <1>5 DEF Covered, NearlyWhole

\* A step of one agent, which only goes on when the list is long enough.
LEMMA StepComplete ==
  ASSUME GroupLifecycleAssumption, TypeOK, TypeOK', ResultComplete, results \subseteq results',
         NEW a \in Agents, NEW label,
         pc' = [pc EXCEPT ![a] = label],
         label \in ToFinalize => Covered, label = "store" => NearlyWhole(listed'[a]),
         label = "casCompleted" => NearlyWhole(result'),
         \A b \in Agents \ {a} : listed'[b] = listed[b], result' = result \/ NearlyWhole(result'),
         status' \in {"AGGREGATING", "COMPLETED"} => Covered,
         status' = "COMPLETED" => NearlyWhole(result')
  PROVE  ResultComplete'
<1>1. \A b \in Agents : pc'[b] = IF b = a THEN label ELSE pc[b]
  BY DEF TypeOK, ProgramsTypeOK
<1>2. (Covered => Covered') /\ \A r : NearlyWhole(r) => NearlyWhole(r)'
  BY CoveredStays
<1>3. status' \in {"AGGREGATING", "COMPLETED"} => Covered'
  BY <1>2
<1>4. status' = "COMPLETED" => NearlyWhole(result)'
  BY <1>2 DEF NearlyWhole
<1>5. ASSUME NEW b \in Agents
      PROVE  /\ pc'[b] \in ToFinalize => Covered'
             /\ pc'[b] = "store" => NearlyWhole(listed[b])'
             /\ pc'[b] = "casCompleted" => NearlyWhole(result)'
  <2>1. CASE b = a
    BY <1>1, <1>2, <2>1 DEF NearlyWhole
  <2>2. CASE b # a
    <3>1. pc'[b] = pc[b] /\ listed'[b] = listed[b]
      BY <1>1, <2>2
    <3>2. /\ pc[b] \in ToFinalize => Covered
          /\ pc[b] = "store" => NearlyWhole(listed'[b])
          /\ pc[b] = "casCompleted" => NearlyWhole(result')
      BY <3>1 DEF ResultComplete
    <3> QED
      BY <1>2, <3>1, <3>2 DEF NearlyWhole
  <2> QED
    BY <2>1, <2>2
<1> QED
  BY <1>3, <1>4, <1>5 DEF ResultComplete

\* Enough results, or enough acks, in a group that is submitted as a whole.
LEMMA EnoughResults ==
  ASSUME GroupLifecycleAssumption, TypeOK, ResultsInOrder,
         NEW S \in SUBSET results, S # {}, Cardinality(S) >= total
  PROVE  Covered
<1>1. total = NumJobs /\ NumJobs \in Nat
  BY DEF TypeOK, ResultsInOrder, GroupLifecycleAssumption
<1>2. /\ Cardinality(S) <= Cardinality(results)
      /\ Cardinality(S) \in Nat /\ Cardinality(results) \in Nat
  BY FS_Subset, FS_CardinalityType DEF TypeOK, GroupLifecycleAssumption
<1> QED
  BY <1>1, <1>2 DEF Covered

LEMMA AckComplete ==
  ASSUME GroupLifecycleAssumption, TypeOK, TypeOK', ResultsInOrder, ResultComplete,
         NEW d \in Deliveries, Ack(d)
  PROVE  ResultComplete'
<1> DEFINE n == Cardinality(acked \cup {d})
<1>1. /\ acked \cup {d} \in SUBSET results /\ acked \cup {d} # {} /\ d \in Agents
      /\ results \subseteq results'
  BY DEF Ack, ResultsInOrder, Agents
<1>2. n >= total => Covered
  BY <1>1, EnoughResults
<1> HIDE DEF n
<1>3. /\ status' = IF n >= total THEN "AGGREGATING" ELSE status
      /\ UNCHANGED <<listed, result>>
      /\ pc' = [pc EXCEPT ![d] = IF n >= total /\ KindOf[d] # "deadLetter" THEN "lock" ELSE "done"]
  BY DEF Ack, AckStatus, Goto, n
<1>4. status' \in {"AGGREGATING", "COMPLETED"} => Covered
  BY <1>2, <1>3 DEF ResultComplete
<1>5. status' = "COMPLETED" => NearlyWhole(result')
  BY <1>3 DEF ResultComplete
<1>6. CASE n >= total /\ KindOf[d] # "deadLetter"
  BY <1>1, <1>2, <1>3, <1>4, <1>5, <1>6, StepComplete
<1>7. CASE ~(n >= total /\ KindOf[d] # "deadLetter")
  <2>1. pc' = [pc EXCEPT ![d] = "done"] /\ "done" \notin ToFinalize
    BY <1>3, <1>7 DEF ToFinalize
  <2> QED
    BY <1>1, <1>3, <1>4, <1>5, <2>1, StepComplete
<1> QED
  BY <1>6, <1>7

LEMMA FinalizeComplete ==
  ASSUME GroupLifecycleAssumption, HandledOnce, TypeOK, TypeOK', ResultComplete, NEW a \in Agents, Finalize(a)
  PROVE  ResultComplete'
<1> USE DEF Goto, meta
<1>1. Return(a) \notin ToFinalize
  BY DEF Return, ToFinalize
<1>2. ASSUME NEW label, label \notin ToFinalize, Goto(a, label),
             UNCHANGED <<status, results, result, listed>>
      PROVE  ResultComplete'
  BY <1>2, StepComplete DEF ResultComplete, ToFinalize
<1>3. ASSUME NEW label \in {"read", "list", "casAggregating"}, Goto(a, label),
             pc[a] \in ToFinalize,
             UNCHANGED <<results, result, listed>>, status' \in {status, "AGGREGATING"}
      PROVE  ResultComplete'
  <2>1. Covered
    BY <1>3 DEF ResultComplete
  <2> QED
    BY <1>3, <2>1, StepComplete DEF ResultComplete
<1>4. CASE FinalizeLock(a)
  <2>1. pc[a] \in ToFinalize /\ (Goto(a, "read") \/ Goto(a, Return(a)))
    BY <1>4 DEF FinalizeLock, ToFinalize
  <2>2. UNCHANGED <<status, results, result, listed>>
    BY <1>4 DEF FinalizeLock
  <2> QED
    BY <1>1, <1>2, <1>3, <2>1, <2>2
<1>5. CASE FinalizeRead(a)
  <2>1. pc[a] \in ToFinalize /\ (Goto(a, "list") \/ Goto(a, "casAggregating") \/ Goto(a, "unlock"))
    BY <1>5 DEF FinalizeRead, ToFinalize
  <2>2. UNCHANGED <<status, results, result, listed>> /\ "unlock" \notin ToFinalize
    BY <1>5 DEF FinalizeRead, ToFinalize
  <2> QED
    BY <1>2, <1>3, <2>1, <2>2
<1>6. CASE FinalizeStart(a)
  <2>1. CASE status = "RUNNING"
    <3>1. /\ pc[a] \in ToFinalize /\ Goto(a, "list") /\ UNCHANGED <<results, result, listed>>
          /\ status' \in {status, "AGGREGATING"}
      BY <1>6, <2>1 DEF FinalizeStart, ToFinalize, Transition
    <3> QED
      BY <1>3, <3>1
  <2>2. CASE status # "RUNNING"
    <3>1. /\ "unlock" \notin ToFinalize /\ Goto(a, "unlock")
          /\ UNCHANGED <<status, results, result, listed>>
      BY <1>6, <2>2 DEF FinalizeStart, ToFinalize, Transition
    <3> QED
      BY <1>2, <3>1
  <2> QED
    BY <2>1, <2>2
<1>7. CASE AggregateList(a)
  <2>1. Covered
    BY <1>7 DEF AggregateList, ResultComplete, ToFinalize
  <2>2. NearlyWhole({JobOf[d] : d \in results})
    BY <2>1, ListedNearlyWhole
  <2>3. /\ listed' = [listed EXCEPT ![a] = {JobOf[d] : d \in results}]
        /\ pc' = [pc EXCEPT ![a] = "store"] /\ UNCHANGED <<status, results, result>>
    BY <1>7 DEF AggregateList
  <2>4. NearlyWhole(listed'[a]) /\ \A b \in Agents \ {a} : listed'[b] = listed[b]
    BY <2>2, <2>3 DEF TypeOK
  <2> QED
    BY <2>1, <2>3, <2>4, StepComplete DEF ResultComplete
<1>8. CASE AggregateStore(a)
  <2>1. Covered /\ NearlyWhole(listed[a])
    BY <1>8 DEF AggregateStore, ResultComplete, ToFinalize
  <2>2. /\ NearlyWhole(result') /\ listed' = [listed EXCEPT ![a] = {}]
        /\ pc' = [pc EXCEPT ![a] = "casCompleted"] /\ UNCHANGED <<status, results>>
    BY <1>8, <2>1 DEF AggregateStore
  <2>3. \A b \in Agents \ {a} : listed'[b] = listed[b]
    BY <2>2 DEF TypeOK
  <2> QED
    BY <2>1, <2>2, <2>3, StepComplete
<1>9. CASE FinalizeEnd(a)
  <2>1. Covered /\ NearlyWhole(result)
    BY <1>9 DEF FinalizeEnd, ResultComplete, ToFinalize
  <2>2. pc' = [pc EXCEPT ![a] = "unlock"] /\ UNCHANGED <<results, result, listed>>
    BY <1>9 DEF FinalizeEnd
  <2> QED
    BY <2>1, <2>2, StepComplete
<1>10. CASE FinalizeUnlock(a)
  BY <1>1, <1>2, <1>10 DEF FinalizeUnlock
<1> QED
  BY <1>4, <1>5, <1>6, <1>7, <1>8, <1>9, <1>10 DEF Finalize

LEMMA WatchComplete ==
  ASSUME GroupLifecycleAssumption, TypeOK, TypeOK', Expectations, ResultsInOrder,
         ResultComplete, NEW w \in Watchers, Watch(w)
  PROVE  ResultComplete'
<1> USE DEF Goto, meta
<1>0. w \in Agents
  BY DEF Agents
<1>1. UNCHANGED <<results, result, listed>>
  BY DEF Watch, WatchMembers, WatchRead, WatchUnwatch, WatchAdvance, WatchForce,
      WatchForceLock, WatchForceRead, WatchForceCas, WatchForceUnlock, WatchTransLock,
      WatchTransRead, WatchTransUnlock
<1>2. ASSUME NEW label, label \notin {"store", "casCompleted"}, Goto(w, label),
             label \in ToFinalize => Covered,
             status' # status => status' \notin {"AGGREGATING", "COMPLETED"}
      PROVE  ResultComplete'
  BY <1>0, <1>1, <1>2, StepComplete DEF ResultComplete
<1>3. CASE WatchRead(w)
  <2>1. Decision = "transLock" => Covered
    <3> SUFFICES ASSUME Decision = "transLock" PROVE Covered
      OBVIOUS
    <3>1. Cardinality(results) >= total /\ total > 0
      BY DEF Decision, Recorded
    <3>2. total \in Int
      BY DEF TypeOK, GroupLifecycleAssumption
    <3>3. results # {}
      BY <3>1, <3>2, FS_EmptySet
    <3> QED
      BY <3>1, <3>3, EnoughResults
  <2>2. Decision = "lock" => Covered
    BY DEF Decision, ResultComplete
  <2>3. Decision \in {"idle", "unwatch", "forceLock", "force", "advance", "transLock", "lock"}
    BY DEF Decision
  <2>4. Decision \notin {"store", "casCompleted"} /\ (Decision \in ToFinalize => Covered)
    BY <2>1, <2>2, <2>3 DEF ToFinalize
  <2>5. Goto(w, Decision) /\ status' = status
    BY <1>3 DEF WatchRead
  <2> HIDE DEF Goto
  <2> QED
    BY <1>2, <2>4, <2>5
<1>4. CASE WatchTransLock(w) \/ WatchTransRead(w)
  <2>1. Covered
    BY <1>0, <1>4 DEF WatchTransLock, WatchTransRead, ResultComplete, ToFinalize
  <2>2. /\ status' = status
        /\ \E label \in {"transRead", "idle", "lock", "transUnlock"} : Goto(w, label)
    BY <1>4 DEF WatchTransLock, WatchTransRead
  <2> QED
    BY <1>2, <2>1, <2>2
<1>5. CASE \/ WatchMembers(w) \/ WatchUnwatch(w) \/ WatchForceLock(w) \/ WatchForceRead(w)
           \/ WatchForceUnlock(w) \/ WatchTransUnlock(w)
  <2>1. /\ status' = status
        /\ \E label \in {"check", "idle", "forceRead", "forceUnlock", "forceCas"} : Goto(w, label)
    BY <1>5 DEF WatchMembers, WatchUnwatch, WatchForceLock, WatchForceRead, WatchForceUnlock,
                WatchTransUnlock
  <2> QED
    BY <1>2, <2>1 DEF ToFinalize
<1>6. CASE WatchAdvance(w) \/ WatchForce(w) \/ WatchForceCas(w)
  <2>1. status' \in {status, "DISPATCHED", "RUNNING", "FAILED"}
    BY <1>6 DEF WatchAdvance, WatchForce, WatchForceCas, WatcherTransition, Transition
  <2>2. \E label \in {"idle", "forceUnlock"} : Goto(w, label)
    BY <1>6 DEF WatchAdvance, WatchForce, WatchForceCas
  <2> QED
    BY <1>2, <2>1, <2>2 DEF ToFinalize
<1> QED
  BY <1>3, <1>4, <1>5, <1>6 DEF Watch

LEMMA NextComplete ==
  ASSUME GroupLifecycleAssumption, HandledOnce, SubmitBeforeWork, TypeOK, ResultsInOrder,
         ResultComplete, Expectations, [Next]_vars
  PROVE  ResultComplete'
<1>0. TypeOK'
  BY NextTypeOK
<1> USE DEF Goto, meta
<1>1. ASSUME UNCHANGED <<results, result, listed, pc>>, status' \in {status, "CREATED"}
      PROVE  ResultComplete'
  BY <1>1 DEF ResultComplete, Covered, NearlyWhole
<1>2. CASE \/ Submit \/ TimeoutPasses \/ AggregationGoesStale \/ UNCHANGED vars
           \/ \E l \in Locks : LockExpires(l)
  <2>1. UNCHANGED <<results, result, listed, pc>>
    BY <1>2 DEF Submit, SubmitEnqueue, SubmitRegister, SubmitWatch, SubmitTimeout,
                TimeoutPasses, AggregationGoesStale, vars, LockExpires
  <2>2. status' \in {status, "CREATED"}
    BY <1>2 DEF Submit, SubmitEnqueue, SubmitRegister, SubmitWatch, SubmitTimeout,
                TimeoutPasses, AggregationGoesStale, vars, LockExpires
  <2> QED
    BY <1>1, <2>1, <2>2
<1>3. ASSUME NEW d \in Deliveries, Record(d) PROVE ResultComplete'
  <2>1. d \in Agents /\ pc' = [pc EXCEPT ![d] = "ack"] /\ results \subseteq results'
        /\ UNCHANGED <<status, result, listed>> /\ "ack" \notin ToFinalize
    BY <1>3 DEF Record, Agents, ToFinalize
  <2> QED
    BY <1>0, <2>1, StepComplete DEF ResultComplete
<1>4. ASSUME NEW d \in Deliveries, Ack(d) PROVE ResultComplete'
  BY <1>0, <1>4, AckComplete
<1>5. ASSUME NEW a \in Agents, Finalize(a) PROVE ResultComplete'
  BY <1>0, <1>5, FinalizeComplete
<1>6. ASSUME NEW w \in Watchers, Watch(w) PROVE ResultComplete'
  BY <1>0, <1>6, WatchComplete
<1>7. ASSUME NEW a \in Agents, Throws(a) \/ Crash(a) PROVE ResultComplete'
  <2>1. \E label \in {"forceUnlock", "unlock", "done", "idle"} : pc' = [pc EXCEPT ![a] = label]
    BY <1>7 DEF Throws, Crash
  <2>2. listed' = [listed EXCEPT ![a] = {}] /\ UNCHANGED <<status, results, result>>
    BY <1>7 DEF Throws, Crash
  <2>3. \A b \in Agents \ {a} : listed'[b] = listed[b]
    BY <2>2 DEF TypeOK
  <2> QED
    BY <1>0, <2>1, <2>2, <2>3, StepComplete DEF ResultComplete, ToFinalize
<1> QED
  BY <1>2, <1>3, <1>4, <1>5, <1>6, <1>7 DEF Next, AgentStep

\* Whoever is past the point where it decided to aggregate has as many results as
\* there are jobs.
LEMMA ResultInOrder ==
  SubmitBeforeWork /\ HandledOnce => (Spec => [](TypeOK /\ ResultsInOrder /\ ResultComplete))
<1>1. Init => ResultsInOrder /\ ResultComplete /\ Expectations
  BY DEF Init, ResultsInOrder, ResultComplete, Expectations, Agents, ToFinalize
<1>2. /\ SubmitBeforeWork /\ HandledOnce /\ TypeOK
      /\ ResultsInOrder /\ ResultComplete /\ Expectations /\ [Next]_vars
      => (ResultsInOrder /\ ResultComplete /\ Expectations)'
  BY GroupLifecycleAssumption, NextResultsInOrder, NextComplete, NextExpectations
<1>3. CASE SubmitBeforeWork /\ HandledOnce
  BY <1>1, <1>2, <1>3, TypeCorrect, PTL DEF Spec
<1> QED
  BY <1>3

\* A completed group has a result that covers every job of its request but one, at
\* most, for each orphan of another group that was recorded for it, however the ends
\* of its jobs, the watchers and the crashes interleave and even if locks expire
\* under their holders: when the request was submitted before its first job was
\* handled, and none of its own jobs is handled twice.
THEOREM ResultCoversJobs ==
  SubmitBeforeWork /\ HandledOnce => (Spec => []CompletedCoversJobs)
<1>1. ResultComplete => CompletedCoversJobs
  BY DEF ResultComplete, CompletedCoversJobs, NearlyWhole
<1> QED
  BY <1>1, ResultInOrder, PTL

\* What is stored, once something is.
ResultNeverPartial == result # None => NearlyWhole(result)

\* Only the end of an aggregation stores a result.
LEMMA ResultSteps ==
  ASSUME [Next]_vars
  PROVE  UNCHANGED result \/ \E a \in Agents : AggregateStore(a)
<1> USE DEF meta
<1>1. CASE Submit
  BY <1>1 DEF Submit, SubmitEnqueue, SubmitRegister, SubmitWatch, SubmitTimeout
<1>2. ASSUME NEW d \in Deliveries, Record(d) \/ Ack(d) PROVE UNCHANGED result
  BY <1>2 DEF Record, Ack
<1>3. ASSUME NEW w \in Watchers, Watch(w) PROVE UNCHANGED result
  BY <1>3 DEF Watch, WatchMembers, WatchRead, WatchUnwatch, WatchAdvance, WatchForce,
      WatchForceLock, WatchForceRead, WatchForceCas, WatchForceUnlock, WatchTransLock,
      WatchTransRead, WatchTransUnlock
<1>4. ASSUME NEW a \in Agents, Finalize(a) PROVE UNCHANGED result \/ AggregateStore(a)
  BY <1>4 DEF Finalize, FinalizeLock, FinalizeRead, FinalizeStart, AggregateList,
      FinalizeEnd, FinalizeUnlock
<1>5. ASSUME NEW a \in Agents, Throws(a) \/ Crash(a) PROVE UNCHANGED result
  BY <1>5 DEF Throws, Crash
<1>6. ASSUME NEW l \in Locks, LockExpires(l) PROVE UNCHANGED result
  BY <1>6 DEF LockExpires
<1>7. CASE TimeoutPasses \/ AggregationGoesStale \/ UNCHANGED vars
  BY <1>7 DEF TimeoutPasses, AggregationGoesStale, vars
<1> QED
  BY <1>1, <1>2, <1>3, <1>4, <1>5, <1>6, <1>7 DEF Next, AgentStep

\* No reader ever sees a result that lacks more jobs than other groups' orphans were
\* recorded here, not even while the ack of a late handler has opened a completed
\* group again and it is aggregated for the second time: without such orphans what
\* is stored is complete from the first time on.
THEOREM ResultIsWhole ==
  SubmitBeforeWork /\ HandledOnce => (Spec => []ResultNeverPartial)
<1>1. Init => ResultNeverPartial
  BY DEF Init, ResultNeverPartial
<1>2. SubmitBeforeWork /\ TypeOK /\ ResultsInOrder /\ ResultComplete /\ ResultNeverPartial /\ [Next]_vars
      => ResultNeverPartial'
  <2> SUFFICES ASSUME TypeOK, ResultsInOrder, ResultComplete, ResultNeverPartial, [Next]_vars,
                      SubmitBeforeWork
               PROVE  ResultNeverPartial'
    OBVIOUS
  <2>0. TypeOK' /\ results \subseteq results'
    BY NextTypeOK, NextResultsInOrder, GroupLifecycleAssumption
  <2>1. ASSUME NEW a \in Agents, AggregateStore(a) PROVE NearlyWhole(result')
    BY <2>1 DEF AggregateStore, ResultComplete
  <2>2. CASE UNCHANGED result
    BY <2>0, <2>2, CoveredStays, GroupLifecycleAssumption DEF ResultNeverPartial, NearlyWhole
  <2>3. CASE NearlyWhole(result')
    BY <2>0, <2>3, CoveredStays, GroupLifecycleAssumption DEF ResultNeverPartial, NearlyWhole
  <2>4. UNCHANGED result \/ \E a \in Agents : AggregateStore(a)
    BY ResultSteps
  <2> QED
    BY <2>1, <2>2, <2>3, <2>4
<1>3. CASE SubmitBeforeWork /\ HandledOnce
  BY <1>1, <1>2, <1>3, ResultInOrder, PTL DEF Spec
<1> QED
  BY <1>3

-----------------------------------------------------------------------------
(* The progress that the API shows *)

\* Of the group's own jobs only one that has been enqueued is acknowledged.
AcksOfEnqueued ==
  \A d \in Deliveries :
    (pc[d] = "ack" \/ d \in acked) /\ JobOf[d] # OtherJob => JobOf[d] \in 1..total

LEMMA NextAcksOfEnqueued ==
  ASSUME GroupLifecycleAssumption, TypeOK, AcksOfEnqueued, [Next]_vars
  PROVE  AcksOfEnqueued'
<1> USE DEF Goto, meta
<1>0. Deliveries \subseteq Agents /\ pc \in [Agents -> DeliveryPCs \cup WatcherPCs] /\ total \in Nat
  BY DEF Agents, TypeOK, ProgramsTypeOK, GroupLifecycleAssumption
<1>1. CASE SubmitEnqueue
  BY <1>0, <1>1 DEF SubmitEnqueue, AcksOfEnqueued
<1>2. ASSUME NEW d \in Deliveries, Record(d) PROVE AcksOfEnqueued'
  BY <1>0, <1>2 DEF Record, CanBeHandled, AcksOfEnqueued, GroupLifecycleAssumption, Jobs
<1>3. ASSUME NEW d \in Deliveries, Ack(d) PROVE AcksOfEnqueued'
  <2>1. acked' = acked \cup {d} /\ total' = total /\ pc[d] = "ack"
    BY <1>3 DEF Ack
  <2>2. \A e \in Deliveries : e # d => pc'[e] = pc[e]
    BY <1>0, <1>3 DEF Ack
  <2>3. pc'[d] # "ack"
    BY <1>0, <1>3 DEF Ack
  <2> QED
    BY <2>1, <2>2, <2>3 DEF AcksOfEnqueued
<1>4. ASSUME NEW a \in Agents, Finalize(a) \/ Throws(a) \/ Crash(a) \/ (a \in Watchers /\ Watch(a))
      PROVE  AcksOfEnqueued'
  <2>1. total' = total /\ acked' = acked /\ \A b \in Agents : b # a => pc'[b] = pc[b]
    BY <1>0, <1>4 DEF Finalize, FinalizeLock, FinalizeRead, FinalizeStart, AggregateList,
      AggregateStore, FinalizeEnd, FinalizeUnlock, Throws, Crash, Watch, WatchMembers, WatchRead,
      WatchUnwatch, WatchAdvance, WatchForce, WatchForceLock, WatchForceRead, WatchForceCas,
      WatchForceUnlock, WatchTransLock, WatchTransRead, WatchTransUnlock
  <2>2. a \in Deliveries => pc'[a] # "ack"
    <3>1. CASE Finalize(a)
      BY <1>0, <3>1 DEF Finalize, FinalizeLock, FinalizeRead, FinalizeStart, AggregateList,
        AggregateStore, FinalizeEnd, FinalizeUnlock, Return
    <3>2. CASE Throws(a) \/ Crash(a)
      BY <1>0, <3>2 DEF Throws, Crash
    <3>3. CASE a \in Watchers /\ Watch(a)
      BY <3>3 DEF GroupLifecycleAssumption
    <3> QED
      BY <1>4, <3>1, <3>2, <3>3
  <2> QED
    BY <1>0, <2>1, <2>2 DEF AcksOfEnqueued
<1>5. CASE UNCHANGED <<total, acked, pc>>
  BY <1>5 DEF AcksOfEnqueued
<1> QED
  BY <1>1, <1>2, <1>3, <1>4, <1>5 DEF Next, Submit, SubmitRegister, SubmitWatch, SubmitTimeout,
    AgentStep, LockExpires, TimeoutPasses, AggregationGoesStale, vars

\* Deliveries of different jobs, all of them among the first n, are at most n.
LEMMA AtMostEnqueued ==
  ASSUME GroupLifecycleAssumption, HandledOnce, NEW n \in Nat, NEW S \in SUBSET Deliveries,
         \A d \in S : JobOf[d] \in 1..n /\ JobOf[d] # OtherJob
  PROVE  Cardinality(S) \in 0..n
<1>1. IsFiniteSet(S) /\ Cardinality(S) \in Nat
  BY FS_Subset, FS_CardinalityType DEF GroupLifecycleAssumption
<1>2. IsFiniteSet(1..n) /\ Cardinality(1..n) = n
  BY FS_Interval
<1>3. SUFFICES ASSUME Cardinality(1..n) < Cardinality(S) PROVE FALSE
  BY <1>1, <1>2
<1> DEFINE f == [d \in S |-> JobOf[d]]
<1>4. f \in [S -> 1..n]
  OBVIOUS
<1>5. \A d, e \in S : d # e => f[d] # f[e]
  BY DEF HandledOnce
<1> HIDE DEF f
<1> QED
  BY <1>1, <1>2, <1>3, <1>4, <1>5, FS_PigeonHole

LEMMA PercentBounded ==
  ASSUME NEW t \in Nat \ {0}, NEW c \in 0..t
  PROVE  (c * 100) \div t \in 0..100
<1> DEFINE q == (c * 100) \div t
<1>1. q \in Int /\ t * q <= c * 100 /\ c * 100 < t * (q + 1)
  OBVIOUS
<1> HIDE DEF q
<1>2. q >= 0
  <2> SUFFICES ASSUME q + 1 <= 0 PROVE FALSE
    BY <1>1
  <2>1. t * (q + 1) <= 0
    BY <1>1
  <2> QED
    BY <1>1, <2>1
<1>3. q <= 100
  <2> SUFFICES ASSUME q - 100 >= 1 PROVE FALSE
    BY <1>1
  <2>1. t * (q - 100) >= t /\ t * (q - 100) = t * q - t * 100
    BY <1>1
  <2> QED
    BY <1>1, <2>1
<1> QED
  BY <1>1, <1>2, <1>3 DEF q

\* The progress of a group whose jobs are handled once never leaves 0..100,
\* during the submission and after it, whatever fails, as long as no orphan of
\* another group is acknowledged for it: doneJobs overtakes totalJobs by those only.
THEOREM ProgressBounded == HandledOnce => (Spec => []ProgressWithinBounds)
<1>1. Init => AcksOfEnqueued
  BY DEF Init, AcksOfEnqueued, Agents
<1>2. TypeOK /\ AcksOfEnqueued /\ [Next]_vars => AcksOfEnqueued'
  BY GroupLifecycleAssumption, NextAcksOfEnqueued
<1>3. HandledOnce /\ TypeOK /\ AcksOfEnqueued => ProgressWithinBounds
  <2> SUFFICES ASSUME HandledOnce, TypeOK, AcksOfEnqueued PROVE ProgressWithinBounds
    OBVIOUS
  <2>1. total \in Nat /\ acked \in SUBSET Deliveries
    BY GroupLifecycleAssumption DEF TypeOK, GroupLifecycleAssumption
  <2>2. /\ IsFiniteSet(acked) /\ Cardinality(acked) \in Nat
        /\ Foreign(acked) \in SUBSET acked /\ acked \cap Foreign(acked) = Foreign(acked)
    BY <2>1, FS_Subset, FS_CardinalityType, GroupLifecycleAssumption DEF GroupLifecycleAssumption,
      Foreign
  <2>3. Cardinality(acked \ Foreign(acked)) \in 0..total
    BY <2>1, AtMostEnqueued, GroupLifecycleAssumption DEF AcksOfEnqueued, Foreign
  <2>4. /\ Cardinality(Foreign(acked)) \in Nat
        /\ Cardinality(acked \ Foreign(acked)) = Cardinality(acked) - Cardinality(Foreign(acked))
    <3>1. Cardinality(Foreign(acked)) \in Nat
      BY <2>2, FS_Subset, FS_CardinalityType
    <3>2. Cardinality(acked \ Foreign(acked)) = Cardinality(acked) - Cardinality(acked \cap Foreign(acked))
      BY <2>2, FS_Difference
    <3> QED
      BY <2>2, <3>1, <3>2
  <2>5. Progress.doneJobs <= Progress.totalJobs + Cardinality(Foreign(acked))
    BY <2>1, <2>2, <2>3, <2>4 DEF Progress
  <2>6. ASSUME Foreign(acked) = {} PROVE Progress.progressPercent \in 0..100
    <3>1. Cardinality(acked) \in 0..total
      BY <2>3, <2>6
    <3>2. total > 0 => (Cardinality(acked) * 100) \div total \in 0..100
      BY <2>1, <3>1, PercentBounded
    <3> QED
      BY <2>1, <3>2 DEF Progress, ProgressPercent
  <2> QED
    BY <2>5, <2>6 DEF ProgressWithinBounds
<1>4. CASE HandledOnce
  BY <1>1, <1>2, <1>3, <1>4, TypeCorrect, PTL DEF Spec
<1> QED
  BY <1>4
=============================================================================
