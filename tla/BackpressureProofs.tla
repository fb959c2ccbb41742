------------------------- MODULE BackpressureProofs --------------------------
(***************************************************************************)
(* What holds of admission and dispatching for every number of jobs,       *)
(* fetchers and dispatchers and every configuration: the types, how far    *)
(* the ready queue can pass its maximum, that a job is in one place, that  *)
(* only fetchers and workers lose one, and that no counter is above the    *)
(* backoffs that it counts.                                                *)
(***************************************************************************)
EXTENDS Backpressure, SequenceTheorems, FiniteSetTheorems, TLAPS

\* A backoff is a number of seconds.
LEMMA BackoffNat ==
  ASSUME BackpressureAssumption, activeGroups \subseteq Groups, NEW n \in Nat
  PROVE  Backoff(n) \in Nat
<1> DEFINE groups == Larger(1, Cardinality(activeGroups))
           speed == Larger(1, GlobalRps \div groups)
<1>1. Cardinality(activeGroups) \in Nat
  BY FS_Subset, FS_CardinalityType DEF BackpressureAssumption
<1>2. groups \in Nat \ {0}
  BY <1>1 DEF Larger
<1>3. GlobalRps \div groups \in Nat
  BY <1>2 DEF BackpressureAssumption
<1>4. speed \in Nat \ {0}
  BY <1>3 DEF Larger
<1>5. n \div speed \in Nat
  BY <1>4
<1>6. BaseBackoff + n \div speed \in Nat
  BY <1>5 DEF BackpressureAssumption
<1>7. Backoff(n) = Smaller(BaseBackoff + n \div speed, MaxBackoff)
  BY DEF Backoff
<1> QED
  BY <1>6, <1>7 DEF Smaller, BackpressureAssumption

LEMMA InitTypeOK == BackpressureAssumption /\ Init => TypeOK
  BY DEF Init, TypeOK, FetchersTypeOK, EmptyZSet, Holding, FetcherPCs, BackpressureAssumption

\* Putting a job aside keeps the types, counted or not.
LEMMA AddToNonReadyType ==
  ASSUME BackpressureAssumption, TypeOK, NEW j \in Jobs, AddToNonReady(j)
  PROVE  /\ DOMAIN nonReady' \subseteq Jobs /\ nonReady' \in [DOMAIN nonReady' -> Nat]
         /\ count' \in [Groups -> Nat]
<1> DEFINE n == count[GroupOf[j]] + 1
<1>1. /\ DOMAIN nonReady \subseteq Jobs /\ nonReady \in [DOMAIN nonReady -> Nat]
      /\ count \in [Groups -> Nat] /\ activeGroups \subseteq Groups
      /\ GroupOf[j] \in Groups
  BY DEF TypeOK, BackpressureAssumption
<1>2. n \in Nat
  <2>1. count[GroupOf[j]] \in Nat
    BY <1>1
  <2> QED
    BY <2>1
<1>3. ASSUME NEW score \in Nat, nonReady' = ZAdd(nonReady, j, score)
      PROVE  DOMAIN nonReady' \subseteq Jobs /\ nonReady' \in [DOMAIN nonReady' -> Nat]
  BY <1>1, <1>3 DEF ZAdd
<1>4. CASE CongestionBackoff(j)
  <2>1. Backoff(n) \in Nat
    BY <1>1, <1>2, BackoffNat
  <2>2. count' \in [Groups -> Nat]
    BY <1>1, <1>2, <1>4 DEF CongestionBackoff
  <2>3. nonReady' = ZAdd(nonReady, j, Backoff(n))
    BY <1>4 DEF CongestionBackoff
  <2> QED
    BY <1>3, <2>1, <2>2, <2>3
<1>5. CASE FixedBackoff(j)
  BY <1>1, <1>3, <1>5 DEF FixedBackoff, BackpressureAssumption
<1> QED
  BY <1>4, <1>5 DEF AddToNonReady

\* What move-to-ready.lua moves is a list of at most Batch jobs.
LEMMA DueBatchType ==
  ASSUME BackpressureAssumption, TypeOK, NEW moved \in DueBatches
  PROVE  moved \in Seq(Jobs) /\ Len(moved) <= Batch
<1>1. PICK n \in 0..Batch : moved \in [1..n -> ZDue(nonReady, 0)]
  BY DEF DueBatches
<1>2. ZDue(nonReady, 0) \subseteq Jobs
  BY DEF ZDue, TypeOK
<1>3. moved \in [1..n -> Jobs] /\ n \in Nat
  BY <1>1, <1>2
<1>4. moved \in Seq(Jobs) /\ Len(moved) = n
  BY <1>3
<1> QED
  BY <1>4 DEF BackpressureAssumption

\* The counters never fall below zero.
LEMMA CountAfterMoveType ==
  ASSUME BackpressureAssumption, TypeOK, NEW moved \in Seq(Jobs)
  PROVE  CountAfterMove(moved) \in [Groups -> Nat]
<1> SUFFICES ASSUME NEW g \in Groups
             PROVE  Larger(0, count[g] - Cardinality({j \in Range(moved) : GroupOf[j] = g})) \in Nat
  BY DEF CountAfterMove
<1> DEFINE hit == {j \in Range(moved) : GroupOf[j] = g}
<1>1. IsFiniteSet(Jobs) /\ hit \subseteq Jobs
  BY RangeOfSeq DEF BackpressureAssumption
<1>2. Cardinality(hit) \in Nat
  BY <1>1, FS_Subset, FS_CardinalityType
<1>3. count[g] \in Nat
  BY DEF TypeOK
<1> HIDE DEF hit
<1>4. count[g] - Cardinality(hit) \in Int
  BY <1>2, <1>3
<1> QED
  BY <1>4 DEF Larger, hit

\* A fetcher has a job where its program says that it has one.
LEMMA GotoType ==
  ASSUME BackpressureAssumption, FetchersTypeOK, NEW f \in Fetchers,
         NEW label \in FetcherPCs, NEW j \in Jobs \cup {NoJob},
         j \in Jobs <=> label \in Holding, Goto(f, label, j)
  PROVE  FetchersTypeOK'
  BY DEF FetchersTypeOK, Goto

\* The job that a fetcher has.
LEMMA HeldType ==
  ASSUME FetchersTypeOK, NEW f \in Fetchers, fetcher[f] \in Holding
  PROVE  held[f] \in Jobs
  BY DEF FetchersTypeOK

LEMMA NextTypeOK ==
  ASSUME BackpressureAssumption, TypeOK, [Next]_vars
  PROVE  TypeOK'
<1>1. ASSUME NEW j \in Jobs, Submit(j) PROVE TypeOK'
  BY <1>1 DEF Submit, TypeOK, FetchersTypeOK
<1>2. ASSUME NEW j \in Jobs, WorkerRequeue(j) PROVE TypeOK'
  <2>1. /\ DOMAIN nonReady' \subseteq Jobs /\ nonReady' \in [DOMAIN nonReady' -> Nat]
        /\ count' \in [Groups -> Nat]
    BY <1>2, AddToNonReadyType DEF WorkerRequeue
  <2>2. counted' \subseteq Jobs
    BY <1>2 DEF WorkerRequeue, TypeOK
  <2>3. UNCHANGED <<submitted, fair, ready, running, released, done, retryCount, activeGroups,
                   resetDue, fetcher, held, dispatcher>>
    BY <1>2 DEF WorkerRequeue
  <2> QED
    BY <2>1, <2>2, <2>3 DEF TypeOK, FetchersTypeOK
<1>3. ASSUME NEW j \in Jobs,
             WorkerRelease(j) \/ WorkerCount(j) \/ WorkerFinish(j) \/ WorkerDrops(j)
      PROVE  TypeOK'
  <2>1. CASE WorkerCount(j)
    <3>1. retryCount' \in [Jobs -> 0..MaxRetry]
      BY <2>1 DEF WorkerCount, TypeOK, BackpressureAssumption
    <3> QED
      BY <2>1, <3>1 DEF WorkerCount, TypeOK, FetchersTypeOK
  <2>2. CASE WorkerRelease(j) \/ WorkerDrops(j)
    BY <2>2 DEF WorkerRelease, WorkerDrops, TypeOK, FetchersTypeOK
  <2>3. CASE WorkerFinish(j)
    BY <2>3 DEF WorkerFinish, TypeOK, FetchersTypeOK, BackpressureAssumption
  <2> QED
    BY <1>3, <2>1, <2>2, <2>3
<1>4. ASSUME NEW f \in Fetchers, FetcherStep(f) \/ FetchFails(f) \/ FetchUnanswered(f)
      PROVE  FetchersTypeOK'
  <2>1. /\ {"idle", "dequeue", "admit", "rate", "push", "backoff"} \subseteq FetcherPCs
        /\ {"admit", "rate", "push", "backoff"} = Holding
        /\ "idle" \notin Holding /\ "dequeue" \notin Holding
    BY DEF FetcherPCs, Holding
  <2>2. /\ Goto(f, "idle", NoJob) => FetchersTypeOK'
        /\ Goto(f, "dequeue", NoJob) => FetchersTypeOK'
    BY <2>1, GotoType DEF TypeOK, BackpressureAssumption
  <2>3. ASSUME NEW label \in Holding, NEW j \in Jobs, Goto(f, label, j)
        PROVE  FetchersTypeOK'
    BY <2>1, <2>3, GotoType DEF TypeOK
  <2>4. CASE FetchCapacity(f) \/ FetchFails(f) \/ FetchUnanswered(f) \/ AdmitPush(f) \/ AdmitBackoff(f)
    BY <2>2, <2>4 DEF FetchCapacity, FetchFails, FetchUnanswered, AdmitPush, AdmitBackoff
  <2>5. CASE FetchDequeue(f)
    BY <2>1, <2>2, <2>3, <2>5 DEF FetchDequeue, TypeOK
  <2>6. CASE AdmitCapacity(f) \/ AdmitRate(f)
    <3>1. fetcher[f] \in Holding
      BY <2>1, <2>6 DEF AdmitCapacity, AdmitRate
    <3>2. held[f] \in Jobs
      BY <3>1, HeldType DEF TypeOK
    <3> QED
      BY <2>1, <2>2, <2>3, <2>6, <3>2 DEF AdmitCapacity, AdmitRate
  <2> QED
    BY <1>4, <2>4, <2>5, <2>6 DEF FetcherStep
<1>5. ASSUME NEW f \in Fetchers, FetchCapacity(f) \/ AdmitCapacity(f) \/ FetchFails(f)
      PROVE  TypeOK'
  <2>1. FetchersTypeOK'
    BY <1>4, <1>5 DEF FetcherStep
  <2> QED
    BY <1>5, <2>1 DEF FetchCapacity, AdmitCapacity, FetchFails, TypeOK, queues
<1>6. ASSUME NEW f \in Fetchers, FetchDequeue(f) \/ FetchUnanswered(f) PROVE TypeOK'
  <2>1. FetchersTypeOK'
    BY <1>4, <1>6 DEF FetcherStep
  <2> QED
    BY <1>6, <2>1 DEF FetchDequeue, FetchUnanswered, TypeOK
<1>7. ASSUME NEW f \in Fetchers, AdmitRate(f) PROVE TypeOK'
  <2>1. FetchersTypeOK'
    BY <1>4, <1>7 DEF FetcherStep
  <2>2. GroupOf[held[f]] \in Groups
    BY <1>7, HeldType DEF AdmitRate, Holding, TypeOK, BackpressureAssumption
  <2> QED
    BY <1>7, <2>1, <2>2 DEF AdmitRate, TypeOK, queues
<1>8. ASSUME NEW f \in Fetchers, AdmitPush(f) PROVE TypeOK'
  <2>1. FetchersTypeOK'
    BY <1>4, <1>8 DEF FetcherStep
  <2>2. held[f] \in Jobs
    BY <1>8, HeldType DEF AdmitPush, Holding, TypeOK
  <2>3. ready' \in Seq(Jobs)
    BY <1>8, <2>2, AppendProperties DEF AdmitPush, TypeOK
  <2> QED
    BY <1>8, <2>1, <2>3 DEF AdmitPush, TypeOK
<1>9. ASSUME NEW f \in Fetchers, AdmitBackoff(f) PROVE TypeOK'
  <2>1. FetchersTypeOK'
    BY <1>4, <1>9 DEF FetcherStep
  <2>2. held[f] \in Jobs
    BY <1>9, HeldType DEF AdmitBackoff, Holding, TypeOK
  <2>3. /\ DOMAIN nonReady' \subseteq Jobs /\ nonReady' \in [DOMAIN nonReady' -> Nat]
        /\ count' \in [Groups -> Nat]
    BY <1>9, <2>2, AddToNonReadyType DEF AdmitBackoff
  <2> QED
    BY <1>9, <2>1, <2>3 DEF AdmitBackoff, TypeOK
<1> USE DEF TypeOK, FetchersTypeOK, queues
<1>11. ASSUME NEW d \in Dispatchers, DispatchCapacity(d) PROVE TypeOK'
  BY <1>11 DEF DispatchCapacity
<1>12. ASSUME NEW d \in Dispatchers, DispatchMove(d) PROVE TypeOK'
  <2>1. PICK moved \in DueBatches : /\ ready' = Moved(moved)
                                    /\ nonReady' = Remaining(moved)
                                    /\ count' = CountAfterMove(moved)
    BY <1>12 DEF DispatchMove
  <2>2. moved \in Seq(Jobs)
    BY DueBatchType
  <2>3. ready' \in Seq(Jobs)
    BY <2>1, <2>2, ConcatProperties DEF Moved
  <2>4. DOMAIN nonReady' \subseteq Jobs /\ nonReady' \in [DOMAIN nonReady' -> Nat]
    BY <2>1 DEF Remaining, ZRem, Restrict
  <2>5. count' \in [Groups -> Nat]
    BY <2>1, <2>2, CountAfterMoveType
  <2>6. dispatcher' \in [Dispatchers -> {"idle", "move"}]
    BY <1>12 DEF DispatchMove
  <2>7. UNCHANGED <<submitted, fair, running, released, counted, done, retryCount, activeGroups, resetDue, fetcher, held>>
    BY <1>12 DEF DispatchMove
  <2> QED
    BY <2>3, <2>4, <2>5, <2>6, <2>7
<1>13. ASSUME NEW d \in Dispatchers, DispatchFails(d) PROVE TypeOK'
  BY <1>13 DEF DispatchFails
<1>14. ASSUME NEW g \in Groups, ResetStats(g) PROVE TypeOK'
  BY <1>14 DEF ResetStats
<1>15. CASE WorkerTake
  <2>1. ready' \in Seq(Jobs) /\ running' \subseteq Jobs
    BY <1>15, HeadTailProperties DEF WorkerTake
  <2>2. UNCHANGED <<submitted, fair, nonReady, released, counted, done, retryCount, count, activeGroups, resetDue,
                   fetcher, held, dispatcher>>
    BY <1>15 DEF WorkerTake
  <2> QED
    BY <2>1, <2>2
<1>16. CASE Tick
  <2>1. /\ DOMAIN nonReady' = DOMAIN nonReady
        /\ \A j \in DOMAIN nonReady : nonReady'[j] = Larger(0, nonReady[j] - 1)
    BY <1>16 DEF Tick
  <2>2. nonReady' \in [DOMAIN nonReady' -> Nat]
    BY <1>16, <2>1 DEF Tick, Larger
  <2>3. UNCHANGED <<submitted, fair, ready, running, released, counted, done, retryCount, count, activeGroups,
                   resetDue, fetcher, held, dispatcher>>
    BY <1>16 DEF Tick
  <2> QED
    BY <2>1, <2>2, <2>3
<1>17. CASE UNCHANGED vars
  BY <1>17 DEF vars
<1> HIDE DEF TypeOK, FetchersTypeOK
<1> QED
  BY <1>1, <1>2, <1>3, <1>5, <1>6, <1>7, <1>8, <1>9, <1>11, <1>12,
     <1>13, <1>14, <1>15, <1>16, <1>17 DEF Next, FetcherStep, DispatcherStep, WorkerStep

\* The keys and the local variables of the loops only ever hold values of their
\* types: no counter is negative, no fetcher holds a job it is done with, no
\* retry passes the maximum.
THEOREM TypeCorrect == Spec => []TypeOK
<1>1. Init => TypeOK
  BY BackpressureAssumption, InitTypeOK
<1>2. TypeOK /\ [Next]_vars => TypeOK'
  BY BackpressureAssumption, NextTypeOK
<1> QED
  BY <1>1, <1>2, PTL DEF Spec

-----------------------------------------------------------------------------
\* The dispatchers that have decided to move are some of the dispatchers.
LEMMA ArmedBound ==
  ASSUME BackpressureAssumption
  PROVE  /\ IsFiniteSet(Armed)
         /\ Cardinality(Armed) \in Nat /\ Cardinality(Dispatchers) \in Nat
         /\ Cardinality(Armed) <= Cardinality(Dispatchers)
<1>1. Armed \subseteq Dispatchers /\ IsFiniteSet(Dispatchers)
  BY DEF Armed, BackpressureAssumption
<1> QED
  BY <1>1, FS_Subset, FS_CardinalityType

LEMMA TimesMonotonic ==
  ASSUME NEW k \in Nat, NEW a \in Nat, NEW b \in Nat, a <= b
  PROVE  k * a <= k * b
  OBVIOUS

\* A step that lengthens the ready queue by no more than Batch for every
\* dispatcher it disarms, and arms none, keeps the reserve.
LEMMA ReserveKept ==
  ASSUME BackpressureAssumption, TypeOK, TypeOK', ReserveForArmed,
         NEW k \in Nat, Len(ready') <= Len(ready) + Batch * k,
         Cardinality(Armed') + k <= Cardinality(Armed)
  PROVE  ReserveForArmed'
<1> DEFINE a == Cardinality(Armed)
           b == Cardinality(Armed')
           c == Cardinality(Dispatchers)
<1>1. a \in Nat /\ b \in Nat /\ c \in Nat /\ Batch \in Nat /\ ReadyMax \in Nat
  <2>1. a \in Nat /\ c \in Nat
    BY ArmedBound
  <2>2. Armed' \subseteq Dispatchers /\ IsFiniteSet(Dispatchers)
    BY DEF Armed, BackpressureAssumption
  <2>3. b \in Nat
    BY <2>2, FS_Subset, FS_CardinalityType
  <2> QED
    BY <2>1, <2>3 DEF BackpressureAssumption
<1>2. Len(ready) \in Nat /\ Len(ready') \in Nat
  BY DEF TypeOK
<1>3. Len(ready) + Batch * a <= ReadyMax + Batch * c
  BY DEF ReserveForArmed
<1>4. b + k <= a /\ Len(ready') <= Len(ready) + Batch * k
  OBVIOUS
<1> HIDE DEF a, b, c
<1>5. Batch * (b + k) <= Batch * a
  BY <1>1, <1>4, TimesMonotonic
<1>6. Batch * (b + k) = Batch * b + Batch * k
  BY <1>1
<1>7. Batch * a \in Nat /\ Batch * b \in Nat /\ Batch * c \in Nat /\ Batch * k \in Nat
  BY <1>1
<1>8. Len(ready') + Batch * b <= ReadyMax + Batch * c
  BY <1>1, <1>2, <1>3, <1>4, <1>5, <1>6, <1>7
<1> QED
  BY <1>8 DEF ReserveForArmed, a, b, c

\* While the ready queue is not above its maximum, every dispatcher may decide.
LEMMA ReserveWithinMax ==
  ASSUME BackpressureAssumption, TypeOK', Len(ready') <= ReadyMax
  PROVE  ReserveForArmed'
<1> DEFINE b == Cardinality(Armed')
           c == Cardinality(Dispatchers)
<1>1. Armed' \subseteq Dispatchers /\ IsFiniteSet(Dispatchers)
  BY DEF Armed, BackpressureAssumption
<1>2. b \in Nat /\ c \in Nat /\ b <= c
  BY <1>1, FS_Subset, FS_CardinalityType
<1>3. Batch \in Nat /\ ReadyMax \in Nat /\ Len(ready') \in Nat
  BY DEF TypeOK, BackpressureAssumption
<1> HIDE DEF b, c
<1>4. Batch * b <= Batch * c /\ Batch * b \in Nat /\ Batch * c \in Nat
  BY <1>2, <1>3, TimesMonotonic
<1>5. Len(ready') + Batch * b <= ReadyMax + Batch * c
  BY <1>3, <1>4
<1> QED
  BY <1>5 DEF ReserveForArmed, b, c

\* A step that arms no dispatcher and does not lengthen the ready queue.
LEMMA ReserveUntouched ==
  ASSUME BackpressureAssumption, TypeOK, TypeOK', ReserveForArmed,
         Len(ready') <= Len(ready), UNCHANGED dispatcher
  PROVE  ReserveForArmed'
<1>1. Cardinality(Armed') + 0 <= Cardinality(Armed)
  <2>1. Armed' = Armed
    BY DEF Armed
  <2> QED
    BY <2>1, ArmedBound
<1>2. Len(ready') <= Len(ready) + Batch * 0
  BY DEF BackpressureAssumption, TypeOK
<1> QED
  BY <1>1, <1>2, ReserveKept

LEMMA MoveKeepsReserve ==
  ASSUME BackpressureAssumption, TypeOK, TypeOK', ReserveForArmed,
         NEW d \in Dispatchers, DispatchMove(d)
  PROVE  ReserveForArmed'
<1>1. PICK moved \in DueBatches : ready' = Moved(moved)
  BY DEF DispatchMove
<1>2. Len(ready') <= Len(ready) + Batch * 1
  <2>1. moved \in Seq(Jobs) /\ Len(moved) <= Batch
    BY DueBatchType
  <2>2. Len(ready') = Len(ready) + Len(moved)
    BY <1>1, <2>1, ConcatProperties DEF Moved, TypeOK
  <2>3. Len(moved) \in Nat /\ Len(ready) \in Nat /\ Batch \in Nat
    BY <2>1 DEF TypeOK, BackpressureAssumption
  <2> QED
    BY <2>1, <2>2, <2>3
<1>3. Armed' = Armed \ {d} /\ d \in Armed
  BY DEF DispatchMove, Armed, TypeOK
<1>4. Cardinality(Armed') + 1 <= Cardinality(Armed)
  <2>1. IsFiniteSet(Armed) /\ Cardinality(Armed) \in Nat
    BY ArmedBound
  <2>2. Cardinality(Armed \ {d}) = Cardinality(Armed) - 1
    BY <1>3, <2>1, FS_RemoveElement
  <2>3. Cardinality(Armed') = Cardinality(Armed) - 1
    BY <1>3, <2>2
  <2> QED
    BY <2>1, <2>3
<1> QED
  BY <1>2, <1>4, ReserveKept

LEMMA FailureKeepsReserve ==
  ASSUME BackpressureAssumption, TypeOK, TypeOK', ReserveForArmed,
         NEW d \in Dispatchers, DispatchFails(d)
  PROVE  ReserveForArmed'
<1>1. Armed' \subseteq Armed
  BY DEF DispatchFails, Armed, TypeOK
<1>2. Cardinality(Armed') + 0 <= Cardinality(Armed)
  <2>1. Cardinality(Armed') <= Cardinality(Armed) /\ IsFiniteSet(Armed')
    BY <1>1, ArmedBound, FS_Subset
  <2>2. Cardinality(Armed') \in Nat /\ Cardinality(Armed) \in Nat
    BY <2>1, ArmedBound, FS_CardinalityType
  <2> QED
    BY <2>1, <2>2
<1>3. Len(ready') <= Len(ready) + Batch * 0
  BY DEF DispatchFails, queues, TypeOK, BackpressureAssumption
<1> QED
  BY <1>2, <1>3, ReserveKept

LEMMA NextReserve ==
  ASSUME BackpressureAssumption, TypeOK, TypeOK', ReserveForArmed, [Next]_vars
  PROVE  ReserveForArmed'
<1>0. Len(ready) \in Nat /\ ReadyMax \in Nat
  BY DEF TypeOK, BackpressureAssumption
<1>1. ASSUME UNCHANGED <<ready, dispatcher>> PROVE ReserveForArmed'
  BY <1>0, <1>1, ReserveUntouched
<1>2. ASSUME NEW j \in Jobs, Submit(j) \/ WorkerStep(j) \/ WorkerDrops(j)
      PROVE  ReserveForArmed'
  BY <1>1, <1>2 DEF Submit, WorkerStep, WorkerRelease, WorkerCount, WorkerRequeue, WorkerFinish,
                    WorkerDrops
<1>3. ASSUME NEW f \in Fetchers, FetcherStep(f) \/ FetchFails(f) \/ FetchUnanswered(f)
      PROVE  ReserveForArmed'
  <2>1. CASE AdmitPush(f) /\ PushAllowed
    <3>1. held[f] \in Jobs
      BY <2>1, HeldType DEF AdmitPush, TypeOK, Holding
    <3>2. ready' = Append(ready, held[f]) /\ Len(ready) < ReadyMax
      BY <2>1 DEF AdmitPush, PushAllowed
    <3>3. Len(ready') = Len(ready) + 1
      BY <3>1, <3>2, AppendProperties DEF TypeOK
    <3> QED
      BY <1>0, <3>2, <3>3, ReserveWithinMax
  <2>2. CASE AdmitPush(f) /\ ~PushAllowed
    BY <1>1, <2>2 DEF AdmitPush
  <2>3. CASE ~AdmitPush(f)
    BY <1>1, <1>3, <2>3 DEF FetcherStep, FetchCapacity, FetchDequeue, AdmitCapacity, AdmitRate,
                            AdmitBackoff, FetchFails, FetchUnanswered, queues
  <2> QED
    BY <2>1, <2>2, <2>3
<1>4. ASSUME NEW d \in Dispatchers, DispatchCapacity(d)
      PROVE  ReserveForArmed'
  BY <1>0, <1>4, ReserveWithinMax DEF DispatchCapacity, HasCapacity, queues
<1>5. ASSUME NEW d \in Dispatchers, DispatchMove(d)
      PROVE  ReserveForArmed'
  BY <1>5, MoveKeepsReserve
<1>6. ASSUME NEW d \in Dispatchers, DispatchFails(d)
      PROVE  ReserveForArmed'
  BY <1>6, FailureKeepsReserve
<1>7. ASSUME NEW g \in Groups, ResetStats(g)
      PROVE  ReserveForArmed'
  BY <1>1, <1>7 DEF ResetStats, queues
<1>8. CASE WorkerTake
  <2>1. ready \in Seq(Jobs) /\ ready # <<>> /\ ready' = Tail(ready)
    BY <1>8 DEF WorkerTake, TypeOK
  <2>2. Len(ready') <= Len(ready)
    BY <1>0, <2>1, HeadTailProperties
  <2> QED
    BY <1>8, <2>2, ReserveUntouched DEF WorkerTake
<1>9. CASE Tick
  BY <1>1, <1>9 DEF Tick
<1>10. CASE UNCHANGED vars
  BY <1>1, <1>10 DEF vars, queues
<1> QED
  BY <1>2, <1>3, <1>4, <1>5, <1>6, <1>7, <1>8, <1>9, <1>10 DEF Next, DispatcherStep, WorkerStep

\* Every dispatcher that has decided to move has room for its batch above the
\* configured maximum: ready-queue-push.lua never takes it.
THEOREM ReserveHolds == Spec => []ReserveForArmed
<1>1. Init => ReserveForArmed
  <2> SUFFICES ASSUME Init PROVE ReserveForArmed
    OBVIOUS
  <2>1. Armed = {} /\ Len(ready) = 0
    BY DEF Init, Armed
  <2>2. Cardinality(Armed) = 0 /\ Cardinality(Dispatchers) \in Nat
    BY <2>1, FS_EmptySet, ArmedBound, BackpressureAssumption
  <2>3. Batch \in Nat /\ ReadyMax \in Nat
    BY BackpressureAssumption DEF BackpressureAssumption
  <2>4. Batch * 0 = 0 /\ Batch * Cardinality(Dispatchers) \in Nat
    BY <2>2, <2>3
  <2> QED
    BY <2>1, <2>2, <2>3, <2>4 DEF ReserveForArmed
<1>2. TypeOK /\ TypeOK' /\ ReserveForArmed /\ [Next]_vars => ReserveForArmed'
  BY BackpressureAssumption, NextReserve
<1> QED
  BY <1>1, <1>2, TypeCorrect, PTL DEF Spec

\* The ready queue passes its maximum by at most one batch per dispatcher, for
\* every number of instances and every batch size.
THEOREM ReadyQueueBounded == Spec => []ReadyQueueBound
<1>1. TypeOK /\ ReserveForArmed => ReadyQueueBound
  <2> SUFFICES ASSUME TypeOK, ReserveForArmed PROVE ReadyQueueBound
    OBVIOUS
  <2>1. Cardinality(Armed) \in Nat /\ Cardinality(Dispatchers) \in Nat
    BY ArmedBound, BackpressureAssumption
  <2>2. Batch \in Nat /\ ReadyMax \in Nat /\ Len(ready) \in Nat
    BY BackpressureAssumption DEF TypeOK, BackpressureAssumption
  <2>3. Batch * Cardinality(Armed) \in Nat /\ Batch * Cardinality(Dispatchers) \in Nat
    BY <2>1, <2>2
  <2> QED
    BY <2>2, <2>3 DEF ReserveForArmed, ReadyQueueBound
<1> QED
  BY <1>1, TypeCorrect, ReserveHolds, PTL

-----------------------------------------------------------------------------
(* One job, one place *)

\* JobInOnePlace, pair by pair.
PairsApart ==
  /\ fair \cap HeldJobs = {} /\ fair \cap Range(ready) = {} /\ fair \cap DOMAIN nonReady = {}
  /\ fair \cap running = {} /\ fair \cap done = {}
  /\ HeldJobs \cap Range(ready) = {} /\ HeldJobs \cap DOMAIN nonReady = {}
  /\ HeldJobs \cap running = {} /\ HeldJobs \cap done = {}
  /\ Range(ready) \cap DOMAIN nonReady = {} /\ Range(ready) \cap running = {}
  /\ Range(ready) \cap done = {}
  /\ DOMAIN nonReady \cap running = {} /\ DOMAIN nonReady \cap done = {}
  /\ running \cap done = {}
  /\ \A hands \in {released, counted} :
       /\ fair \cap hands = {} /\ HeldJobs \cap hands = {} /\ Range(ready) \cap hands = {}
       /\ DOMAIN nonReady \cap hands = {} /\ running \cap hands = {} /\ hands \cap done = {}
  /\ released \cap counted = {}

HoldersApart == \A f, g \in Fetchers : f # g /\ held[f] # NoJob => held[f] # held[g]

\* The inductive strengthening: what is in some place has been submitted, so that
\* a job that is submitted is in none.
Placement ==
  /\ IsInjective(ready) /\ HoldersApart /\ PairsApart
  /\ Placed \subseteq submitted

LEMMA PlacementSuffices == Placement => JobInOnePlace
<1> SUFFICES ASSUME Placement PROVE JobInOnePlace
  OBVIOUS
<1> DEFINE places == <<fair, HeldJobs, Range(ready), DOMAIN nonReady, running, released, counted, done>>
<1>1. \A p, q \in 1..8 : p # q => places[p] \cap places[q] = {}
  <2>1. PairsApart
    BY DEF Placement
  <2> SUFFICES ASSUME NEW p \in 1..8, NEW q \in 1..8, p # q
               PROVE  places[p] \cap places[q] = {}
    OBVIOUS
  <2>2. \A n \in 1..8 : n = 1 \/ n = 2 \/ n = 3 \/ n = 4 \/ n = 5 \/ n = 6 \/ n = 7 \/ n = 8
    OBVIOUS
  <2>3. /\ places[1] = fair /\ places[2] = HeldJobs /\ places[3] = Range(ready)
        /\ places[4] = DOMAIN nonReady /\ places[5] = running
        /\ places[6] = released /\ places[7] = counted /\ places[8] = done
    OBVIOUS
  <2> HIDE DEF places
  <2> QED
    BY <2>1, <2>2, <2>3 DEF PairsApart
<1>2. DOMAIN places = 1..8
  OBVIOUS
<1> HIDE DEF places
<1> QED
  BY <1>1, <1>2 DEF JobInOnePlace, Placement, HoldersApart, places

\* What Append, Tail and concatenation do to a list without repetitions.
LEMMA AppendPlaces ==
  ASSUME NEW S, NEW s \in Seq(S), NEW e \in S, IsInjective(s), e \notin Range(s)
  PROVE  IsInjective(Append(s, e)) /\ Range(Append(s, e)) = Range(s) \cup {e}
<1> DEFINE t == Append(s, e)
<1>1. /\ t \in Seq(S) /\ Len(t) = Len(s) + 1 /\ Len(s) \in Nat
      /\ \A i \in 1..Len(s) : t[i] = s[i]
      /\ t[Len(s) + 1] = e
  BY AppendProperties
<1>2. DOMAIN t = 1..(Len(s) + 1) /\ DOMAIN s = 1..Len(s)
  BY <1>1
<1> HIDE DEF t
<1>3. DOMAIN t = DOMAIN s \cup {Len(s) + 1}
  BY <1>1, <1>2
<1>4. \A i \in DOMAIN s : t[i] = s[i] /\ s[i] # e
  BY <1>1, <1>2 DEF Range
<1>5. Range(t) = Range(s) \cup {e}
  BY <1>1, <1>3, <1>4 DEF Range
<1>6. IsInjective(t)
  BY <1>1, <1>3, <1>4 DEF IsInjective
<1> QED
  BY <1>5, <1>6 DEF t

LEMMA TailPlaces ==
  ASSUME NEW S, NEW s \in Seq(S), s # <<>>, IsInjective(s)
  PROVE  IsInjective(Tail(s)) /\ Range(Tail(s)) = Range(s) \ {Head(s)} /\ Head(s) \in Range(s)
<1> DEFINE t == Tail(s)
<1>1. /\ t \in Seq(S) /\ Len(t) = Len(s) - 1 /\ Len(s) \in Nat \ {0}
      /\ \A i \in 1..Len(t) : t[i] = s[i + 1]
  BY HeadTailProperties, EmptySeq
<1>2. DOMAIN t = 1..(Len(s) - 1) /\ DOMAIN s = 1..Len(s) /\ Head(s) = s[1]
  BY <1>1
<1> HIDE DEF t
<1>3. \A i \in DOMAIN t : i + 1 \in DOMAIN s \ {1} /\ t[i] = s[i + 1]
  BY <1>1, <1>2
<1>4. \A k \in DOMAIN s \ {1} : k - 1 \in DOMAIN t /\ t[k - 1] = s[k]
  BY <1>1, <1>2
<1>5. 1 \in DOMAIN s
  BY <1>1, <1>2
<1>6. \A k \in DOMAIN s \ {1} : s[k] # s[1]
  BY <1>5 DEF IsInjective
<1>7. Range(t) = Range(s) \ {Head(s)}
  BY <1>2, <1>3, <1>4, <1>5, <1>6 DEF Range
<1>8. IsInjective(t)
  BY <1>2, <1>3 DEF IsInjective
<1> QED
  BY <1>2, <1>5, <1>7, <1>8 DEF t, Range

LEMMA ConcatPlaces ==
  ASSUME NEW S, NEW s \in Seq(S), NEW m \in Seq(S), IsInjective(s), IsInjective(m),
         Range(s) \cap Range(m) = {}
  PROVE  IsInjective(s \o m) /\ Range(s \o m) = Range(s) \cup Range(m)
<1> DEFINE t == s \o m
<1>1. /\ t \in Seq(S) /\ Len(t) = Len(s) + Len(m) /\ Len(s) \in Nat /\ Len(m) \in Nat
      /\ \A i \in 1..(Len(s) + Len(m)) : t[i] = IF i <= Len(s) THEN s[i] ELSE m[i - Len(s)]
  BY ConcatProperties
<1>2. /\ DOMAIN t = 1..(Len(s) + Len(m)) /\ DOMAIN s = 1..Len(s) /\ DOMAIN m = 1..Len(m)
  BY <1>1
<1> HIDE DEF t
<1>3. \A i \in DOMAIN t : \/ i \in DOMAIN s /\ t[i] = s[i]
                          \/ i \notin DOMAIN s /\ i - Len(s) \in DOMAIN m /\ t[i] = m[i - Len(s)]
  BY <1>1, <1>2
<1>4. \A i \in DOMAIN s : i \in DOMAIN t /\ t[i] = s[i]
  BY <1>1, <1>2
<1>5. \A i \in DOMAIN m : i + Len(s) \in DOMAIN t /\ t[i + Len(s)] = m[i]
  BY <1>1, <1>2
<1>6. Range(t) = Range(s) \cup Range(m)
  BY <1>3, <1>4, <1>5 DEF Range
<1>7. IsInjective(t)
  <2> SUFFICES ASSUME NEW i \in DOMAIN t, NEW k \in DOMAIN t, t[i] = t[k] PROVE i = k
    BY DEF IsInjective
  <2>1. CASE i \in DOMAIN s /\ k \in DOMAIN s
    BY <1>4, <2>1 DEF IsInjective
  <2>2. CASE i \notin DOMAIN s /\ k \notin DOMAIN s
    BY <1>1, <1>2, <1>3, <2>2 DEF IsInjective
  <2>3. CASE i \in DOMAIN s /\ k \notin DOMAIN s
    BY <1>3, <1>4, <2>3 DEF Range
  <2>4. CASE i \notin DOMAIN s /\ k \in DOMAIN s
    BY <1>3, <1>4, <2>4 DEF Range
  <2> QED
    BY <2>1, <2>2, <2>3, <2>4
<1> QED
  BY <1>6, <1>7 DEF t

\* A fetcher that lets its job go, keeps it, or takes one that nobody holds.
LEMMA HeldAfter ==
  ASSUME BackpressureAssumption, FetchersTypeOK, HoldersApart,
         NEW f \in Fetchers, NEW label, NEW j \in Jobs \cup {NoJob}, Goto(f, label, j)
  PROVE  /\ j = NoJob => HoldersApart' /\ HeldJobs' = HeldJobs \ {held[f]}
         /\ j = held[f] => HoldersApart' /\ HeldJobs' = HeldJobs
         /\ held[f] = NoJob /\ j \in Jobs \ HeldJobs =>
              HoldersApart' /\ HeldJobs' = HeldJobs \cup {j}
<1>1. /\ held \in [Fetchers -> Jobs \cup {NoJob}] /\ held' = [held EXCEPT ![f] = j]
      /\ NoJob \notin Jobs
  BY DEF FetchersTypeOK, Goto, BackpressureAssumption
<1>2. \A g \in Fetchers : held'[g] = IF g = f THEN j ELSE held[g]
  BY <1>1
<1>3. ASSUME j = NoJob PROVE HoldersApart' /\ HeldJobs' = HeldJobs \ {held[f]}
  BY <1>1, <1>2, <1>3 DEF HoldersApart, HeldJobs
<1>4. ASSUME j = held[f] PROVE HoldersApart' /\ HeldJobs' = HeldJobs
  BY <1>1, <1>2, <1>4 DEF HoldersApart, HeldJobs
<1>5. ASSUME held[f] = NoJob, j \in Jobs \ HeldJobs
      PROVE  HoldersApart' /\ HeldJobs' = HeldJobs \cup {j}
  BY <1>1, <1>2, <1>5 DEF HoldersApart, HeldJobs
<1> QED
  BY <1>3, <1>4, <1>5

\* The job of a fetcher that has one is nowhere else, and is lost with it.
LEMMA HeldIsApart ==
  ASSUME BackpressureAssumption, TypeOK, Placement, NEW f \in Fetchers, fetcher[f] \in Holding
  PROVE  /\ held[f] \in Jobs /\ held[f] \in HeldJobs /\ held[f] \in submitted
         /\ held[f] \notin fair \cup Range(ready) \cup DOMAIN nonReady \cup running \cup released \cup counted \cup done
<1>1. held[f] \in Jobs
  BY HeldType DEF TypeOK
<1>2. held[f] \in HeldJobs
  BY <1>1 DEF HeldJobs, BackpressureAssumption
<1> QED
  BY <1>1, <1>2 DEF Placement, PairsApart, Placed

LEMMA AddPlaces ==
  ASSUME NEW j, AddToNonReady(j)
  PROVE  DOMAIN nonReady' = DOMAIN nonReady \cup {j}
  BY DEF AddToNonReady, CongestionBackoff, FixedBackoff, ZAdd

\* A fetch cycle takes a job from the fair queue to one of the other queues, or
\* loses it.
LEMMA FetcherPlacement ==
  ASSUME BackpressureAssumption, TypeOK, Placement,
         NEW f \in Fetchers, FetcherStep(f) \/ FetchFails(f) \/ FetchUnanswered(f)
  PROVE  Placement'
<1>1. FetchersTypeOK /\ HoldersApart /\ held[f] \in Jobs \cup {NoJob}
  BY DEF TypeOK, FetchersTypeOK, Placement
<1>2. ASSUME NEW label, Goto(f, label, NoJob)
      PROVE  HoldersApart' /\ HeldJobs' = HeldJobs \ {held[f]}
  BY <1>1, <1>2, HeldAfter
<1>3. ASSUME NEW label, Goto(f, label, held[f])
      PROVE  HoldersApart' /\ HeldJobs' = HeldJobs
  BY <1>1, <1>3, HeldAfter
<1>4. ASSUME UNCHANGED <<submitted, queues>>, HoldersApart', HeldJobs' \subseteq HeldJobs
      PROVE  Placement'
  BY <1>4 DEF queues, Placement, PairsApart, Placed
<1>5. CASE FetchCapacity(f) \/ FetchFails(f) \/ AdmitCapacity(f) \/ AdmitRate(f)
  <2>1. UNCHANGED <<submitted, queues>>
    BY <1>5 DEF FetchCapacity, FetchFails, AdmitCapacity, AdmitRate, queues
  <2>2. \E label : Goto(f, label, NoJob) \/ Goto(f, label, held[f])
    BY <1>5 DEF FetchCapacity, FetchFails, AdmitCapacity, AdmitRate
  <2> QED
    BY <1>2, <1>3, <1>4, <2>1, <2>2
<1>6. CASE FetchDequeue(f)
  <2>1. CASE fair = {} /\ UNCHANGED fair /\ Goto(f, "idle", NoJob)
    BY <1>2, <1>4, <1>6, <2>1 DEF FetchDequeue, queues
  <2>2. CASE \E j \in fair : fair' = fair \ {j} /\ Goto(f, "admit", j)
    <3>1. PICK j \in fair : fair' = fair \ {j} /\ Goto(f, "admit", j)
      BY <2>2
    <3>2. held[f] = NoJob
      BY <1>1, <1>6 DEF FetchDequeue, FetchersTypeOK, Holding
    <3>3. j \in Jobs \ HeldJobs
      BY DEF TypeOK, Placement, PairsApart
    <3>4. HoldersApart' /\ HeldJobs' = HeldJobs \cup {j}
      BY <1>1, <3>1, <3>2, <3>3, HeldAfter
    <3>5. UNCHANGED <<submitted, ready, nonReady, running, released, counted, done>>
      BY <1>6 DEF FetchDequeue
    <3> QED
      BY <3>1, <3>4, <3>5 DEF Placement, PairsApart, Placed
  <2> QED
    BY <1>6, <2>1, <2>2 DEF FetchDequeue
<1>7. CASE AdmitPush(f)
  <2>1. HoldersApart' /\ HeldJobs' = HeldJobs \ {held[f]}
    BY <1>2, <1>7 DEF AdmitPush
  <2>2. UNCHANGED <<submitted, fair, nonReady, running, released, counted, done>>
    BY <1>7 DEF AdmitPush
  <2>3. CASE ready' = ready
    BY <1>4, <2>1, <2>2, <2>3 DEF queues
  <2>4. CASE ready' = Append(ready, held[f])
    <3>1. /\ held[f] \in Jobs /\ held[f] \in HeldJobs /\ held[f] \in submitted
          /\ held[f] \notin fair \cup Range(ready) \cup DOMAIN nonReady \cup running \cup released \cup counted \cup done
      BY <1>7, HeldIsApart DEF AdmitPush, Holding
    <3>2. IsInjective(ready') /\ Range(ready') = Range(ready) \cup {held[f]}
      BY <2>4, <3>1, AppendPlaces DEF TypeOK, Placement
    <3> QED
      BY <2>1, <2>2, <3>1, <3>2 DEF Placement, PairsApart, Placed
  <2> QED
    BY <1>7, <2>3, <2>4 DEF AdmitPush
<1>8. CASE AdmitBackoff(f)
  <2>1. HoldersApart' /\ HeldJobs' = HeldJobs \ {held[f]}
    BY <1>2, <1>8 DEF AdmitBackoff
  <2>2. UNCHANGED <<submitted, fair, ready, running, released, counted, done>>
    BY <1>8 DEF AdmitBackoff
  <2>3. DOMAIN nonReady' = DOMAIN nonReady \cup {held[f]}
    BY <1>8, AddPlaces DEF AdmitBackoff
  <2>4. /\ held[f] \in HeldJobs /\ held[f] \in submitted
        /\ held[f] \notin fair \cup Range(ready) \cup DOMAIN nonReady \cup running \cup released \cup counted \cup done
    BY <1>8, HeldIsApart DEF AdmitBackoff, Holding
  <2> QED
    BY <2>1, <2>2, <2>3, <2>4 DEF Placement, PairsApart, Placed
<1>9. CASE FetchUnanswered(f)
  <2>1. HoldersApart' /\ HeldJobs' \subseteq HeldJobs
    BY <1>2, <1>9 DEF FetchUnanswered
  <2>2. fair' \subseteq fair /\ UNCHANGED <<submitted, ready, nonReady, running, released, counted, done>>
    BY <1>9 DEF FetchUnanswered
  <2> QED
    BY <2>1, <2>2 DEF Placement, PairsApart, Placed
<1> QED
  BY <1>5, <1>6, <1>7, <1>8, <1>9 DEF FetcherStep

\* What move-to-ready.lua moves: different jobs, all of them in the sorted set.
LEMMA MovedJobs ==
  ASSUME BackpressureAssumption, TypeOK, NEW moved \in DueBatches
  PROVE  moved \in Seq(Jobs) /\ IsInjective(moved) /\ Range(moved) \subseteq DOMAIN nonReady
<1>1. PICK n \in 0..Batch : moved \in [1..n -> ZDue(nonReady, 0)]
  BY DEF DueBatches
<1>2. Range(moved) \subseteq DOMAIN nonReady
  BY <1>1 DEF Range, ZDue
<1> QED
  BY <1>2, DueBatchType DEF DueBatches

LEMMA NextPlacement ==
  ASSUME BackpressureAssumption, TypeOK, Placement, [Next]_vars
  PROVE  Placement'
<1>1. ASSUME UNCHANGED held PROVE HeldJobs' = HeldJobs /\ HoldersApart'
  BY <1>1 DEF HeldJobs, HoldersApart, Placement
<1>2. ASSUME UNCHANGED <<submitted, fair, ready, running, released, counted, done, held>>,
             DOMAIN nonReady' = DOMAIN nonReady
      PROVE  Placement'
  BY <1>1, <1>2 DEF Placement, PairsApart, Placed
<1>3. ASSUME NEW j \in Jobs, Submit(j) PROVE Placement'
  <2>1. /\ submitted' = submitted \cup {j} /\ fair' = fair \cup {j} /\ j \notin submitted
        /\ UNCHANGED <<ready, nonReady, running, released, counted, done, held>>
    BY <1>3 DEF Submit
  <2> QED
    BY <1>1, <2>1 DEF Placement, PairsApart, Placed
<1>4. ASSUME NEW j \in Jobs, WorkerRequeue(j) PROVE Placement'
  <2>1. /\ j \in counted /\ counted' = counted \ {j}
        /\ UNCHANGED <<submitted, fair, ready, running, released, done, held>>
    BY <1>4 DEF WorkerRequeue
  <2>2. DOMAIN nonReady' = DOMAIN nonReady \cup {j}
    BY <1>4, AddPlaces DEF WorkerRequeue
  <2> QED
    BY <1>1, <2>1, <2>2 DEF Placement, PairsApart, Placed
<1>5. ASSUME NEW j \in Jobs,
             WorkerRelease(j) \/ WorkerCount(j) \/ WorkerFinish(j) \/ WorkerDrops(j)
      PROVE  Placement'
  <2>1. UNCHANGED <<submitted, fair, ready, nonReady, held>>
    BY <1>5 DEF WorkerRelease, WorkerCount, WorkerFinish, WorkerDrops
  <2>2. CASE /\ j \in running /\ running' = running \ {j} /\ released' = released \cup {j}
             /\ UNCHANGED <<counted, done>>
    BY <1>1, <2>1, <2>2 DEF Placement, PairsApart, Placed
  <2>3. CASE /\ j \in released /\ released' = released \ {j} /\ counted' = counted \cup {j}
             /\ UNCHANGED <<running, done>>
    BY <1>1, <2>1, <2>3 DEF Placement, PairsApart, Placed
  <2>4. CASE /\ j \in released /\ released' = released \ {j} /\ done' = done \cup {j}
             /\ UNCHANGED <<running, counted>>
    BY <1>1, <2>1, <2>4 DEF Placement, PairsApart, Placed
  <2>5. CASE /\ released' = released \ {j} /\ counted' = counted \ {j}
             /\ UNCHANGED <<running, done>>
    BY <1>1, <2>1, <2>5 DEF Placement, PairsApart, Placed
  <2> QED
    BY <1>5, <2>2, <2>3, <2>4, <2>5 DEF WorkerRelease, WorkerCount, WorkerFinish, WorkerDrops
<1>6. ASSUME NEW f \in Fetchers, FetcherStep(f) \/ FetchFails(f) \/ FetchUnanswered(f)
      PROVE  Placement'
  BY <1>6, FetcherPlacement
<1>7. ASSUME NEW d \in Dispatchers, DispatchMove(d) PROVE Placement'
  <2>1. PICK moved \in DueBatches : ready' = Moved(moved) /\ nonReady' = Remaining(moved)
    BY <1>7 DEF DispatchMove
  <2>2. moved \in Seq(Jobs) /\ IsInjective(moved) /\ Range(moved) \subseteq DOMAIN nonReady
    BY MovedJobs
  <2>3. DOMAIN nonReady' = DOMAIN nonReady \ Range(moved)
    BY <2>1 DEF Remaining, ZRem, Restrict
  <2>4. IsInjective(ready) /\ Range(ready) \cap Range(moved) = {} /\ ready \in Seq(Jobs)
    BY <2>2 DEF TypeOK, Placement, PairsApart
  <2>5. IsInjective(ready') /\ Range(ready') = Range(ready) \cup Range(moved)
    BY <2>1, <2>2, <2>4, ConcatPlaces DEF Moved
  <2>6. UNCHANGED <<submitted, fair, running, released, counted, done, held>>
    BY <1>7 DEF DispatchMove
  <2> QED
    BY <1>1, <2>2, <2>3, <2>5, <2>6 DEF Placement, PairsApart, Placed
<1>8. CASE WorkerTake
  <2>1. /\ ready # <<>> /\ ready' = Tail(ready) /\ running' = running \cup {Head(ready)}
        /\ UNCHANGED <<submitted, fair, nonReady, released, counted, done, held>>
    BY <1>8 DEF WorkerTake
  <2>2. /\ IsInjective(ready') /\ Range(ready') = Range(ready) \ {Head(ready)}
        /\ Head(ready) \in Range(ready)
    BY <2>1, TailPlaces DEF TypeOK, Placement
  <2> QED
    BY <1>1, <2>1, <2>2 DEF Placement, PairsApart, Placed
<1>9. CASE Tick
  <2>1. DOMAIN nonReady' = DOMAIN nonReady
    BY <1>9 DEF Tick
  <2> QED
    BY <1>2, <1>9, <2>1 DEF Tick
<1>10. CASE \/ \E d \in Dispatchers : DispatchCapacity(d) \/ DispatchFails(d)
            \/ \E g \in Groups : ResetStats(g)
            \/ UNCHANGED vars
  BY <1>2, <1>10 DEF DispatchCapacity, DispatchFails, ResetStats, vars, queues
<1> QED
  BY <1>3, <1>4, <1>5, <1>6, <1>7, <1>8, <1>9, <1>10 DEF Next, DispatcherStep, WorkerStep

LEMMA PlacementHolds == Spec => []Placement
<1>1. Init => Placement
  <2> SUFFICES ASSUME Init PROVE Placement
    OBVIOUS
  <2>1. /\ fair = {} /\ running = {} /\ released = {} /\ counted = {} /\ done = {}
        /\ DOMAIN nonReady = {} /\ ready = <<>>
        /\ \A f \in Fetchers : held[f] = NoJob
    BY DEF Init, EmptyZSet
  <2>2. Range(ready) = {} /\ IsInjective(ready)
    BY <2>1 DEF Range, IsInjective
  <2>3. HeldJobs = {} /\ HoldersApart
    BY <2>1 DEF HeldJobs, HoldersApart
  <2> QED
    BY <2>1, <2>2, <2>3 DEF Placement, PairsApart, Placed
<1>2. TypeOK /\ Placement /\ [Next]_vars => Placement'
  BY BackpressureAssumption, NextPlacement
<1> QED
  BY <1>1, <1>2, TypeCorrect, PTL DEF Spec

\* A job is never where two workers could find it, for any number of instances
\* and with any interleaving of their fetch cycles, dispatches and retries.
THEOREM OnePlace == Spec => []JobInOnePlace
  BY PlacementHolds, PlacementSuffices, PTL

-----------------------------------------------------------------------------
(* Losses *)

LEMMA NextKeeps ==
  ASSUME BackpressureAssumption, TypeOK, Placement, Next
  PROVE  Placed \ Placed' \subseteq HeldJobs \cup Unanswered \cup released \cup counted
<1>1. /\ fair' \subseteq Placed' /\ HeldJobs' \subseteq Placed' /\ Range(ready') \subseteq Placed'
      /\ DOMAIN nonReady' \subseteq Placed' /\ running' \subseteq Placed' /\ done' \subseteq Placed'
      /\ released' \subseteq Placed' /\ counted' \subseteq Placed'
  BY DEF Placed
<1> DEFINE AllKept == /\ fair \subseteq Placed' \cup Unanswered /\ Range(ready) \subseteq Placed'
                      /\ DOMAIN nonReady \subseteq Placed' /\ running \subseteq Placed'
                      /\ done \subseteq Placed'
<1>2. SUFFICES AllKept
  BY DEF Placed
<1>3. ASSUME UNCHANGED queues PROVE AllKept
  <2>1. UNCHANGED <<fair, ready, nonReady, running, released, counted, done>>
    BY <1>3 DEF queues
  <2> QED
    BY <1>1, <2>1
<1>4. ASSUME NEW j \in Jobs, Submit(j) PROVE AllKept
  <2>1. fair' = fair \cup {j} /\ UNCHANGED <<ready, nonReady, running, released, counted, done>>
    BY <1>4 DEF Submit
  <2> QED
    BY <1>1, <2>1
<1>5. ASSUME NEW j \in Jobs, WorkerRequeue(j) PROVE AllKept
  <2>1. DOMAIN nonReady' = DOMAIN nonReady \cup {j}
    BY <1>5, AddPlaces DEF WorkerRequeue
  <2>2. UNCHANGED <<fair, ready, running, done>>
    BY <1>5 DEF WorkerRequeue
  <2> QED
    BY <1>1, <2>1, <2>2
<1>6. ASSUME NEW j \in Jobs,
             WorkerRelease(j) \/ WorkerCount(j) \/ WorkerFinish(j) \/ WorkerDrops(j)
      PROVE  AllKept
  <2>1. UNCHANGED <<fair, ready, nonReady>> /\ running \subseteq running' \cup released'
        /\ done \subseteq done'
    BY <1>6 DEF WorkerRelease, WorkerCount, WorkerFinish, WorkerDrops
  <2> QED
    BY <1>1, <2>1
<1>7. ASSUME NEW f \in Fetchers, FetchDequeue(f) PROVE AllKept
  <2>1. UNCHANGED <<ready, nonReady, running, released, counted, done>>
    BY <1>7 DEF FetchDequeue
  <2>2. CASE fair' = fair
    BY <1>1, <2>1, <2>2
  <2>3. ASSUME NEW j \in fair, fair' = fair \ {j}, Goto(f, "admit", j) PROVE AllKept
    <3>1. held'[f] = j /\ j # NoJob
      BY <2>3 DEF Goto, TypeOK, FetchersTypeOK, BackpressureAssumption
    <3>2. j \in HeldJobs'
      BY <3>1 DEF HeldJobs
    <3> QED
      BY <1>1, <2>1, <2>3, <3>2
  <2> QED
    BY <1>7, <2>2, <2>3 DEF FetchDequeue
<1>8. ASSUME NEW f \in Fetchers, AdmitPush(f) PROVE AllKept
  <2>1. UNCHANGED <<fair, nonReady, running, released, counted, done>>
    BY <1>8 DEF AdmitPush
  <2>2. fetcher[f] \in Holding
    BY <1>8 DEF AdmitPush, Holding
  <2>3. held[f] \in Jobs /\ held[f] \notin Range(ready)
    BY <2>2, HeldIsApart
  <2>4. Range(ready) \subseteq Range(Append(ready, held[f]))
    BY <2>3, AppendPlaces DEF TypeOK, Placement
  <2>5. Range(ready) \subseteq Range(ready')
    BY <1>8, <2>4 DEF AdmitPush
  <2> QED
    BY <1>1, <2>1, <2>5
<1>9. ASSUME NEW f \in Fetchers, AdmitBackoff(f) PROVE AllKept
  <2>1. DOMAIN nonReady' = DOMAIN nonReady \cup {held[f]}
    BY <1>9, AddPlaces DEF AdmitBackoff
  <2>2. UNCHANGED <<fair, ready, running, released, counted, done>>
    BY <1>9 DEF AdmitBackoff
  <2> QED
    BY <1>1, <2>1, <2>2
<1>10. ASSUME NEW d \in Dispatchers, DispatchMove(d) PROVE AllKept
  <2>1. PICK moved \in DueBatches : ready' = Moved(moved) /\ nonReady' = Remaining(moved)
    BY <1>10 DEF DispatchMove
  <2>2. moved \in Seq(Jobs) /\ IsInjective(moved) /\ Range(moved) \subseteq DOMAIN nonReady
    BY MovedJobs
  <2>3. DOMAIN nonReady' = DOMAIN nonReady \ Range(moved)
    BY <2>1 DEF Remaining, ZRem, Restrict
  <2>4. ready \in Seq(Jobs) /\ IsInjective(ready) /\ Range(ready) \cap Range(moved) = {}
    BY <2>2 DEF TypeOK, Placement, PairsApart
  <2>5. Range(ready') = Range(ready) \cup Range(moved)
    BY <2>1, <2>2, <2>4, ConcatPlaces DEF Moved
  <2>6. UNCHANGED <<fair, running, released, counted, done>>
    BY <1>10 DEF DispatchMove
  <2> QED
    BY <1>1, <2>3, <2>5, <2>6
<1>11. CASE WorkerTake
  <2>1. ready \in Seq(Jobs) /\ IsInjective(ready)
    BY DEF TypeOK, Placement
  <2>2. /\ ready # <<>> /\ ready' = Tail(ready) /\ running' = running \cup {Head(ready)}
        /\ UNCHANGED <<fair, nonReady, released, counted, done>>
    BY <1>11 DEF WorkerTake
  <2>3. Range(ready') = Range(ready) \ {Head(ready)}
    BY <2>1, <2>2, TailPlaces
  <2> QED
    BY <1>1, <2>2, <2>3
<1>12. CASE Tick
  <2>1. DOMAIN nonReady' = DOMAIN nonReady /\ UNCHANGED <<fair, ready, running, released, counted, done>>
    BY <1>12 DEF Tick
  <2> QED
    BY <1>1, <2>1
<1>13. ASSUME NEW f \in Fetchers, FetchCapacity(f) \/ AdmitCapacity(f) \/ AdmitRate(f) \/ FetchFails(f)
       PROVE  AllKept
  BY <1>3, <1>13 DEF FetchCapacity, AdmitCapacity, AdmitRate, FetchFails
<1>14. ASSUME NEW d \in Dispatchers, DispatchCapacity(d) \/ DispatchFails(d) PROVE AllKept
  BY <1>3, <1>14 DEF DispatchCapacity, DispatchFails
<1>15. ASSUME NEW g \in Groups, ResetStats(g) PROVE AllKept
  BY <1>3, <1>15 DEF ResetStats
<1>16. ASSUME NEW f \in Fetchers, FetchUnanswered(f) PROVE AllKept
  <2>1. UNCHANGED <<ready, nonReady, running, done>>
    BY <1>16 DEF FetchUnanswered
  <2>2. fetcher[f] = "dequeue" /\ fetcher'[f] = "idle"
    BY <1>16 DEF FetchUnanswered, Goto, TypeOK, FetchersTypeOK
  <2>3. fair \subseteq Unanswered
    BY <2>2 DEF Unanswered
  <2> QED
    BY <1>1, <2>1, <2>3
<1> HIDE DEF AllKept
<1> QED
  BY <1>4, <1>5, <1>6, <1>7, <1>8, <1>9, <1>10, <1>11, <1>12, <1>13, <1>14, <1>15,
     <1>16 DEF Next, FetcherStep, DispatcherStep, WorkerStep

\* A job is lost in the hands of a fetcher, with the answer of a dequeue, or by a
\* worker between the release of its lease and the requeue or the ack, and never
\* by a script or while it waits: for any number of instances and of jobs.
THEOREM OnlyHandsLose == Spec => LossOnlyInHands
<1>1. TypeOK /\ Placement /\ [Next]_vars
        => [Placed \ Placed' \subseteq HeldJobs \cup Unanswered \cup released \cup counted]_vars
  BY NextKeeps, BackpressureAssumption
<1> QED
  BY <1>1, TypeCorrect, PlacementHolds, PTL DEF Spec, LossOnlyInHands

-----------------------------------------------------------------------------
(* Congestion counters *)

\* The non-ready jobs of a group are finitely many.
LEMMA WaitingFinite ==
  ASSUME BackpressureAssumption, TypeOK, NEW g \in Groups
  PROVE  IsFiniteSet(NonReadyOf(g)) /\ Cardinality(NonReadyOf(g)) \in Nat
<1>1. NonReadyOf(g) \in SUBSET Jobs
  BY DEF NonReadyOf, TypeOK
<1> QED
  BY <1>1, FS_Subset, FS_CardinalityType DEF BackpressureAssumption

\* What does not touch a counter, and removes no job from the sorted set.
LEMMA CountUntouched ==
  ASSUME BackpressureAssumption, TypeOK, TypeOK', CounterNeverOver,
         count' = count, DOMAIN nonReady \subseteq DOMAIN nonReady'
  PROVE  CounterNeverOver'
<1> SUFFICES ASSUME NEW g \in Groups PROVE count'[g] <= Cardinality(NonReadyOf(g)')
  BY DEF CounterNeverOver
<1>1. IsFiniteSet(NonReadyOf(g)') /\ Cardinality(NonReadyOf(g)') \in Nat
  <2>1. NonReadyOf(g)' \in SUBSET Jobs
    BY DEF NonReadyOf, TypeOK
  <2> QED
    BY <2>1, FS_Subset, FS_CardinalityType DEF BackpressureAssumption
<1>2. NonReadyOf(g) \in SUBSET NonReadyOf(g)'
  BY DEF NonReadyOf
<1>3. Cardinality(NonReadyOf(g)) <= Cardinality(NonReadyOf(g)')
  BY <1>1, <1>2, FS_Subset
<1>4. count'[g] \in Nat /\ count'[g] <= Cardinality(NonReadyOf(g))
  BY DEF CounterNeverOver, TypeOK
<1> QED
  BY <1>1, <1>3, <1>4, WaitingFinite

\* congestion-backoff.lua counts a job that was not in the sorted set yet.
LEMMA AddKeepsCounter ==
  ASSUME BackpressureAssumption, TypeOK, TypeOK', CounterNeverOver,
         NEW j \in Jobs \ DOMAIN nonReady, AddToNonReady(j)
  PROVE  CounterNeverOver'
<1>1. DOMAIN nonReady' = DOMAIN nonReady \cup {j}
  BY AddPlaces
<1>2. CASE FixedBackoff(j)
  BY <1>1, <1>2, CountUntouched DEF FixedBackoff
<1>3. CASE CongestionBackoff(j)
  <2> SUFFICES ASSUME NEW g \in Groups PROVE count'[g] <= Cardinality(NonReadyOf(g)')
    BY DEF CounterNeverOver
  <2>1. count \in [Groups -> Nat] /\ count[g] <= Cardinality(NonReadyOf(g))
    BY DEF CounterNeverOver, TypeOK
  <2>2. count' = [count EXCEPT ![GroupOf[j]] = count[GroupOf[j]] + 1]
    BY <1>3 DEF CongestionBackoff
  <2>3. CASE GroupOf[j] = g
    <3>1. NonReadyOf(g)' = NonReadyOf(g) \cup {j} /\ j \notin NonReadyOf(g)
      BY <1>1, <2>3 DEF NonReadyOf
    <3>2. Cardinality(NonReadyOf(g)') = Cardinality(NonReadyOf(g)) + 1
      BY <3>1, WaitingFinite, FS_AddElement
    <3>3. count'[g] = count[g] + 1
      BY <2>1, <2>2, <2>3
    <3> QED
      BY <2>1, <3>2, <3>3, WaitingFinite
  <2>4. CASE GroupOf[j] # g
    <3>1. NonReadyOf(g)' = NonReadyOf(g)
      BY <1>1, <2>4 DEF NonReadyOf
    <3>2. count'[g] = count[g]
      BY <2>1, <2>2, <2>4
    <3> QED
      BY <2>1, <3>1, <3>2
  <2> QED
    BY <2>3, <2>4
<1> QED
  BY <1>2, <1>3 DEF AddToNonReady

\* move-to-ready.lua takes as many from a counter as it takes jobs of the group
\* from the sorted set, unless the counter is at zero already.
LEMMA MoveKeepsCounter ==
  ASSUME BackpressureAssumption, TypeOK, CounterNeverOver, NEW d \in Dispatchers, DispatchMove(d)
  PROVE  CounterNeverOver'
<1>1. PICK moved \in DueBatches : /\ nonReady' = Remaining(moved)
                                  /\ count' = CountAfterMove(moved)
  BY DEF DispatchMove
<1>2. Range(moved) \subseteq DOMAIN nonReady
  BY MovedJobs
<1>3. DOMAIN nonReady' = DOMAIN nonReady \ Range(moved)
  BY <1>1 DEF Remaining, ZRem, Restrict
<1> SUFFICES ASSUME NEW g \in Groups PROVE count'[g] <= Cardinality(NonReadyOf(g)')
  BY DEF CounterNeverOver
<1> DEFINE hit == {j \in Range(moved) : GroupOf[j] = g}
<1>4. hit \in SUBSET NonReadyOf(g)
  BY <1>2 DEF NonReadyOf
<1>5. NonReadyOf(g)' = NonReadyOf(g) \ hit /\ NonReadyOf(g) \cap hit = hit
  BY <1>3, <1>4 DEF NonReadyOf
<1>6. /\ Cardinality(NonReadyOf(g)') = Cardinality(NonReadyOf(g)) - Cardinality(hit)
      /\ Cardinality(hit) \in Nat /\ Cardinality(hit) <= Cardinality(NonReadyOf(g))
  <2>1. IsFiniteSet(hit) /\ Cardinality(hit) <= Cardinality(NonReadyOf(g))
    BY <1>4, WaitingFinite, FS_Subset
  <2> HIDE DEF hit
  <2> QED
    BY <1>5, <2>1, WaitingFinite, FS_Difference, FS_CardinalityType
<1>7. count'[g] = Larger(0, count[g] - Cardinality(hit))
  BY <1>1 DEF CountAfterMove
<1>8. count[g] \in Nat /\ count[g] <= Cardinality(NonReadyOf(g))
  BY DEF CounterNeverOver, TypeOK
<1> HIDE DEF hit
<1> QED
  BY <1>6, <1>7, <1>8, WaitingFinite DEF Larger

LEMMA NextCounter ==
  ASSUME BackpressureAssumption, TypeOK, TypeOK', Placement, CounterNeverOver, [Next]_vars
  PROVE  CounterNeverOver'
<1>1. ASSUME count' = count, nonReady' = nonReady PROVE CounterNeverOver'
  BY <1>1, CountUntouched
<1>2. ASSUME NEW j \in Jobs, WorkerRequeue(j) PROVE CounterNeverOver'
  <2>1. j \notin DOMAIN nonReady
    BY <1>2 DEF WorkerRequeue, Placement, PairsApart
  <2> QED
    BY <1>2, <2>1, AddKeepsCounter DEF WorkerRequeue
<1>3. ASSUME NEW f \in Fetchers, AdmitBackoff(f) PROVE CounterNeverOver'
  <2>1. held[f] \in Jobs \ DOMAIN nonReady
    BY <1>3, HeldIsApart DEF AdmitBackoff, Holding
  <2> QED
    BY <1>3, <2>1, AddKeepsCounter DEF AdmitBackoff
<1>4. ASSUME NEW d \in Dispatchers, DispatchMove(d) PROVE CounterNeverOver'
  BY <1>4, MoveKeepsCounter
<1>5. ASSUME NEW g \in Groups, ResetStats(g) PROVE CounterNeverOver'
  <2>1. count' = [count EXCEPT ![g] = 0] /\ nonReady' = nonReady /\ count \in [Groups -> Nat]
    BY <1>5 DEF ResetStats, queues, TypeOK
  <2>2. \A h \in Groups : NonReadyOf(h)' = NonReadyOf(h)
    BY <2>1 DEF NonReadyOf
  <2>3. \A h \in Groups : count[h] <= Cardinality(NonReadyOf(h))
    BY DEF CounterNeverOver
  <2>4. \A h \in Groups : count'[h] <= Cardinality(NonReadyOf(h))
    BY <2>1, <2>3, WaitingFinite
  <2> QED
    BY <2>2, <2>4 DEF CounterNeverOver
<1>6. CASE Tick
  BY <1>6, CountUntouched DEF Tick
<1>7. ASSUME NEW j \in Jobs, \/ Submit(j) \/ WorkerRelease(j) \/ WorkerCount(j)
                             \/ WorkerFinish(j) \/ WorkerDrops(j)
      PROVE  CounterNeverOver'
  BY <1>1, <1>7 DEF Submit, WorkerRelease, WorkerCount, WorkerFinish, WorkerDrops
<1>8. ASSUME NEW f \in Fetchers, \/ FetchCapacity(f) \/ FetchDequeue(f) \/ AdmitCapacity(f)
                                 \/ AdmitRate(f) \/ AdmitPush(f) \/ FetchFails(f)
                                 \/ FetchUnanswered(f)
      PROVE  CounterNeverOver'
  BY <1>1, <1>8 DEF FetchCapacity, FetchDequeue, AdmitCapacity, AdmitRate, AdmitPush, FetchFails,
                    FetchUnanswered, queues
<1>9. ASSUME NEW d \in Dispatchers, DispatchCapacity(d) \/ DispatchFails(d)
      PROVE  CounterNeverOver'
  BY <1>1, <1>9 DEF DispatchCapacity, DispatchFails, queues
<1>10. CASE WorkerTake \/ UNCHANGED vars
  BY <1>1, <1>10 DEF WorkerTake, vars, queues
<1> QED
  BY <1>2, <1>3, <1>4, <1>5, <1>6, <1>7, <1>8, <1>9, <1>10
     DEF Next, FetcherStep, DispatcherStep, WorkerStep

\* The congestion counter of a group never exceeds the group's non-ready jobs, so
\* no backoff is computed from congestion that is not there: with any number of
\* instances, of groups and of batches, and with a reset at any time after the ack.
THEOREM CounterBounded == Spec => []CounterNeverOver
<1>1. Init => CounterNeverOver
  <2> SUFFICES ASSUME Init, NEW g \in Groups PROVE count[g] <= Cardinality(NonReadyOf(g))
    BY DEF CounterNeverOver
  <2>1. count[g] = 0 /\ NonReadyOf(g) = {}
    BY DEF Init, EmptyZSet, NonReadyOf
  <2> QED
    BY <2>1, FS_EmptySet
<1>2. TypeOK /\ TypeOK' /\ Placement /\ CounterNeverOver /\ [Next]_vars => CounterNeverOver'
  BY NextCounter, BackpressureAssumption
<1> QED
  BY <1>1, <1>2, TypeCorrect, PlacementHolds, PTL DEF Spec
=============================================================================
