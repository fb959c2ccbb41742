-------------------------- MODULE FairQueueProofs ---------------------------
(***************************************************************************)
(* What holds of the fair queue for every set of jobs and groups, every    *)
(* priority and every alpha: the types, that no waiting job is out of      *)
(* reach of dequeue.lua, that the lists and the counters of a group agree  *)
(* with the states of its jobs, and how far the boost of a nearly finished *)
(* group can overtake.                                                     *)
(***************************************************************************)
EXTENDS FairQueue, SequenceTheorems, FiniteSetTheorems, TLAPS

\* Every score is an integer: `remaining' is never zero.
LEMMA ScoreInteger ==
  ASSUME FairQueueAssumption,
         NEW g \in Groups, NEW total \in Nat, NEW done \in Nat, now \in Nat
  PROVE  Score(g, total, done) \in Int
<1> DEFINE remaining == Larger(1, total - done)
<1>1. remaining \in Nat \ {0}
  BY DEF Larger
<1>2. BasePriority[g] - now \in Int /\ Scale \in Int /\ Alpha \in Int
  BY DEF FairQueueAssumption
<1>3. Scale * (BasePriority[g] - now) \in Int
  BY <1>2
<1>4. Alpha * Scale * (total - remaining) \in Int
  <2>1. Alpha * Scale \in Int
    BY <1>2
  <2>2. total - remaining \in Int
    BY <1>1
  <2> QED
    BY <2>1, <2>2
<1>5. (Alpha * Scale * (total - remaining)) \div remaining \in Int
  BY <1>1, <1>4
<1> QED
  BY <1>3, <1>5 DEF Score

\* A dequeue of group g leaves a sorted set of groups behind in each level.
LEMMA RescoredType ==
  ASSUME FairQueueAssumption, TypeOK, NEW l \in Levels, NEW g \in Groups
  PROVE  /\ DOMAIN Rescored(l, g) \subseteq Groups
         /\ Rescored(l, g) \in [DOMAIN Rescored(l, g) -> Int]
<1> DEFINE gone == {h \in DOMAIN fairQueue[l] \ {g} : Before(l, h, g)}
           kept == ZRem(fairQueue[l], gone)
<1>1. /\ DOMAIN kept \subseteq Groups
      /\ kept \in [DOMAIN kept -> Int]
  BY DEF TypeOK, ZRem, Restrict
<1>2. Score(g, totalJobs[g], doneJobs[g]) \in Int
  BY ScoreInteger DEF TypeOK
<1>3. CASE Len(groupJobs[g]) = 1
  BY <1>1, <1>3 DEF Rescored, ZRem, Restrict
<1>4. CASE Len(groupJobs[g]) # 1
  <2>1. Rescored(l, g) = ZAdd(kept, g, Score(g, totalJobs[g], doneJobs[g]))
    BY <1>4 DEF Rescored
  <2> QED
    BY <1>1, <1>2, <2>1 DEF ZAdd
<1> QED
  BY <1>3, <1>4

\* The groups that are still in the level after group g was served: all of those
\* that had a waiting job.
LEMMA RescoredKeepsWaiting ==
  ASSUME FairQueueAssumption, TypeOK, NEW l \in Levels, NEW g \in Best(l),
         NEW h \in Waiting(l), h = g => Len(groupJobs[g]) # 1
  PROVE  h \in DOMAIN Rescored(l, g)
<1> DEFINE gone == {x \in DOMAIN fairQueue[l] \ {g} : Before(l, x, g)}
           kept == ZRem(fairQueue[l], gone)
<1>1. CASE h = g
  BY <1>1 DEF Rescored, ZAdd
<1>2. CASE h # g
  <2>1. Before(l, g, h)
    BY <1>2 DEF Best
  <2>2. /\ g \in Int /\ h \in Int
        /\ fairQueue[l][g] \in Int /\ fairQueue[l][h] \in Int
    BY DEF Best, Waiting, TypeOK, FairQueueAssumption
  <2>3. ~Before(l, h, g)
    BY <1>2, <2>1, <2>2 DEF Before
  <2>4. h \in DOMAIN kept
    BY <2>3 DEF Waiting, ZRem, Restrict
  <2> QED
    BY <1>2, <2>4 DEF Rescored, ZAdd, ZRem, Restrict
<1> QED
  BY <1>1, <1>2

-----------------------------------------------------------------------------
LEMMA InitTypeOK == FairQueueAssumption /\ Init => TypeOK
  BY DEF Init, TypeOK, EmptyZSet, Levels, FairQueueAssumption

LEMMA EnqueueTypeOK ==
  ASSUME FairQueueAssumption, TypeOK, NEW job \in Jobs, NEW level \in Levels,
         Enqueue(job, level)
  PROVE  TypeOK'
<1> DEFINE g == GroupOf[job]
           total == totalJobs[g] + 1
           score == Score(g, total, doneJobs[g])
<1>1. g \in Groups
  BY DEF FairQueueAssumption
<1>0. /\ totalJobs \in [Groups -> Nat] /\ doneJobs \in [Groups -> Nat] /\ now \in Nat
      /\ groupJobs \in [Groups -> Seq(Jobs)]
      /\ groupStatus \in [Groups -> {"NONE", "CREATED", "AGGREGATING"}]
      /\ jobStatus \in [Jobs -> {"NONE", "PENDING", "PROCESSING", "COMPLETED"}]
  BY DEF TypeOK
<1>2. total \in Nat
  <2>1. totalJobs[g] \in Nat
    BY <1>0, <1>1
  <2> QED
    BY <2>1
<1>3. score \in Int
  <2>1. doneJobs[g] \in Nat
    BY <1>1, <1>0
  <2> HIDE DEF total
  <2> QED
    BY <1>1, <1>2, <1>0, <2>1, ScoreInteger
<1>4. fairQueue' = [fairQueue EXCEPT ![level] = ZAdd(@, g, score)]
  BY DEF Enqueue
<1> HIDE DEF score, total
<1>5. /\ DOMAIN fairQueue' = Levels
      /\ \A l \in Levels : /\ DOMAIN fairQueue'[l] \subseteq Groups
                            /\ fairQueue'[l] \in [DOMAIN fairQueue'[l] -> Int]
  <2>1. \A l \in Levels : fairQueue'[l] = IF l = level THEN ZAdd(fairQueue[l], g, score)
                                                     ELSE fairQueue[l]
    BY <1>4 DEF TypeOK
  <2>2. DOMAIN fairQueue' = Levels
    BY <1>4 DEF TypeOK
  <2>3. ASSUME NEW l \in Levels
        PROVE  /\ DOMAIN fairQueue'[l] \subseteq Groups
               /\ fairQueue'[l] \in [DOMAIN fairQueue'[l] -> Int]
    <3>1. DOMAIN fairQueue[l] \subseteq Groups /\ fairQueue[l] \in [DOMAIN fairQueue[l] -> Int]
      BY DEF TypeOK
    <3>2. CASE l = level
      <4>1. fairQueue'[l] = [x \in DOMAIN fairQueue[l] \cup {g} |->
                              IF x = g THEN score ELSE fairQueue[l][x]]
        BY <2>1, <3>2 DEF ZAdd
      <4> QED
        BY <1>1, <1>3, <3>1, <4>1
    <3>3. CASE l # level
      BY <2>1, <3>1, <3>3
    <3> QED
      BY <3>2, <3>3
  <2> QED
    BY <2>2, <2>3
<1>6. /\ groupJobs' \in [Groups -> Seq(Jobs)]
      /\ totalJobs' \in [Groups -> Nat]
      /\ doneJobs' \in [Groups -> Nat]
      /\ groupStatus' \in [Groups -> {"NONE", "CREATED", "AGGREGATING"}]
      /\ jobStatus' \in [Jobs -> {"NONE", "PENDING", "PROCESSING", "COMPLETED"}]
  <2>1. groupJobs' = [groupJobs EXCEPT ![g] = Append(@, job)]
    BY DEF Enqueue
  <2>2. totalJobs' = [totalJobs EXCEPT ![g] = total]
    BY DEF Enqueue, total
  <2>3. doneJobs' = [doneJobs EXCEPT ![g] = IF FirstOfGroup(total) THEN 0 ELSE @]
    BY DEF Enqueue, total
  <2>4. groupStatus' = [groupStatus EXCEPT ![g] = IF FirstOfGroup(total) THEN "CREATED" ELSE @]
    BY DEF Enqueue, total
  <2>5. jobStatus' = [jobStatus EXCEPT ![job] = "PENDING"]
    BY DEF Enqueue
  <2>6. Append(groupJobs[g], job) \in Seq(Jobs)
    <3>1. groupJobs[g] \in Seq(Jobs)
      BY <1>0, <1>1
    <3> QED
      BY <3>1, AppendProperties
  <2>7. groupJobs' \in [Groups -> Seq(Jobs)]
    BY <1>0, <2>1, <2>6
  <2>8. totalJobs' \in [Groups -> Nat]
    BY <1>0, <1>2, <2>2
  <2>9. doneJobs' \in [Groups -> Nat]
    BY <1>0, <2>3
  <2>10. groupStatus' \in [Groups -> {"NONE", "CREATED", "AGGREGATING"}]
    BY <1>0, <2>4
  <2>11. jobStatus' \in [Jobs -> {"NONE", "PENDING", "PROCESSING", "COMPLETED"}]
    BY <1>0, <2>5
  <2> QED
    BY <2>7, <2>8, <2>9, <2>10, <2>11
<1>7. now' \in 0..MaxNow /\ touchedAt' \in [Levels -> [Groups -> 0..MaxNow]]
  BY <1>1 DEF Enqueue, TypeOK
<1> QED
  BY <1>5, <1>6, <1>7 DEF TypeOK

LEMMA DequeueTypeOK ==
  ASSUME FairQueueAssumption, TypeOK, NEW level \in Levels, NEW g \in Groups,
         DequeueFrom(level, g)
  PROVE  TypeOK'
<1>1. groupJobs[g] \in Seq(Jobs) /\ groupJobs[g] # <<>>
  BY DEF DequeueFrom, Best, Waiting, TypeOK
<1>2. Head(groupJobs[g]) \in Jobs /\ Tail(groupJobs[g]) \in Seq(Jobs)
  BY <1>1
<1>3. /\ groupJobs' \in [Groups -> Seq(Jobs)]
      /\ jobStatus' \in [Jobs -> {"NONE", "PENDING", "PROCESSING", "COMPLETED"}]
  BY <1>2 DEF DequeueFrom, Rest, TypeOK
<1>4. /\ DOMAIN fairQueue' = Levels
      /\ \A l \in Levels : /\ DOMAIN fairQueue'[l] \subseteq Groups
                            /\ fairQueue'[l] \in [DOMAIN fairQueue'[l] -> Int]
  <2>1. \A l \in Levels : fairQueue'[l] \in {EmptyZSet, Rescored(l, g), fairQueue[l]}
    BY DEF DequeueFrom
  <2>2. DOMAIN EmptyZSet = {} /\ EmptyZSet \in [{} -> Int]
    BY DEF EmptyZSet
  <2>3. DOMAIN fairQueue' = Levels
    BY DEF DequeueFrom
  <2>4. ASSUME NEW l \in Levels
        PROVE  /\ DOMAIN fairQueue'[l] \subseteq Groups
               /\ fairQueue'[l] \in [DOMAIN fairQueue'[l] -> Int]
    <3>1. CASE fairQueue'[l] = EmptyZSet
      BY <2>2, <3>1
    <3>2. CASE fairQueue'[l] = Rescored(l, g)
      BY <3>2, RescoredType
    <3>3. CASE fairQueue'[l] = fairQueue[l]
      BY <3>3 DEF TypeOK
    <3> QED
      BY <2>1, <3>1, <3>2, <3>3
  <2> QED
    BY <2>3, <2>4
<1>5. /\ now' \in 0..MaxNow /\ touchedAt' \in [Levels -> [Groups -> 0..MaxNow]]
      /\ UNCHANGED <<totalJobs, doneJobs, groupStatus>>
  BY DEF DequeueFrom, TypeOK
<1> QED
  BY <1>3, <1>4, <1>5 DEF TypeOK

LEMMA NextTypeOK ==
  ASSUME FairQueueAssumption, TypeOK, [Next]_vars
  PROVE  TypeOK'
<1>1. ASSUME NEW job \in Jobs, NEW level \in RequestLevels, Enqueue(job, level)
      PROVE  TypeOK'
  BY <1>1, EnqueueTypeOK DEF FairQueueAssumption
<1>2. ASSUME NEW level \in Levels, NEW g \in Groups, DequeueFrom(level, g)
      PROVE  TypeOK'
  BY <1>2, DequeueTypeOK
<1>3. CASE DequeueNothing
  BY <1>3 DEF DequeueNothing, TypeOK, EmptyZSet
<1>4. ASSUME NEW job \in Jobs, Ack(job)
      PROVE  TypeOK'
  <2>1. GroupOf[job] \in Groups
    BY DEF FairQueueAssumption
  <2>2. UNCHANGED <<now, fairQueue, groupJobs, totalJobs, touchedAt>>
    BY <1>4 DEF Ack
  <2>3. jobStatus' \in [Jobs -> {"NONE", "PENDING", "PROCESSING", "COMPLETED"}]
    BY <1>4 DEF Ack, TypeOK
  <2>4. doneJobs' \in [Groups -> Nat]
    <3>1. doneJobs \in [Groups -> Nat]
      BY DEF TypeOK
    <3>2. doneJobs[GroupOf[job]] + 1 \in Nat
      <4>1. doneJobs[GroupOf[job]] \in Nat
        BY <2>1, <3>1
      <4> QED
        BY <4>1
    <3>3. doneJobs' = [doneJobs EXCEPT ![GroupOf[job]] = doneJobs[GroupOf[job]] + 1]
      BY <1>4 DEF Ack
    <3> QED
      BY <3>1, <3>2, <3>3
  <2>5. groupStatus' \in [Groups -> {"NONE", "CREATED", "AGGREGATING"}]
    BY <1>4, <2>1 DEF Ack, StatusAfterAck, TypeOK
  <2> QED
    BY <2>2, <2>3, <2>4, <2>5 DEF TypeOK
<1>5. CASE Tick
  BY <1>5 DEF Tick, TypeOK, FairQueueAssumption
<1>6. CASE UNCHANGED vars
  BY <1>6 DEF vars, TypeOK
<1> QED
  BY <1>1, <1>2, <1>3, <1>4, <1>5, <1>6 DEF Next

\* The keys of the fair queue only ever hold values of their types; no call puts
\* a group into a level that does not exist or gives it a score that is none.
THEOREM TypeCorrect == Spec => []TypeOK
<1>1. Init => TypeOK
  BY FairQueueAssumption, InitTypeOK
<1>2. TypeOK /\ [Next]_vars => TypeOK'
  BY FairQueueAssumption, NextTypeOK
<1> QED
  BY <1>1, <1>2, PTL DEF Spec

-----------------------------------------------------------------------------
LEMMA EnqueueStrandsNone ==
  ASSUME FairQueueAssumption, TypeOK, NoStrandedGroup,
         NEW job \in Jobs, NEW level \in Levels, Enqueue(job, level)
  PROVE  NoStrandedGroup'
<1> DEFINE g == GroupOf[job]
<1>1. g \in Groups
  BY DEF FairQueueAssumption
<1>2. \A l \in Levels : DOMAIN fairQueue[l] \subseteq DOMAIN fairQueue'[l]
  BY DEF Enqueue, TypeOK, ZAdd
<1>3. g \in DOMAIN fairQueue'[level]
  BY DEF Enqueue, TypeOK, ZAdd
<1>4. \A h \in Groups \ {g} : groupJobs'[h] = groupJobs[h]
  BY <1>1 DEF Enqueue, TypeOK
<1> QED
  BY <1>2, <1>3, <1>4 DEF NoStrandedGroup

LEMMA DequeueStrandsNone ==
  ASSUME FairQueueAssumption, TypeOK, NoStrandedGroup,
         NEW level \in Levels, NEW g \in Groups, DequeueFrom(level, g)
  PROVE  NoStrandedGroup'
<1> SUFFICES ASSUME NEW h \in Groups, groupJobs'[h] # <<>>
             PROVE  \E l \in Levels : h \in DOMAIN fairQueue'[l]
  BY DEF NoStrandedGroup
<1>1. groupJobs[g] \in Seq(Jobs) /\ groupJobs[g] # <<>>
  BY DEF DequeueFrom, Best, Waiting, TypeOK
<1>2. groupJobs[h] # <<>> /\ (h = g => Len(groupJobs[g]) # 1)
  BY <1>1 DEF DequeueFrom, Rest, TypeOK
<1>3. PICK l \in Levels : h \in DOMAIN fairQueue[l] /\ (h = g => l = level)
  BY <1>2 DEF NoStrandedGroup, DequeueFrom, Best, Waiting
<1>4. h \in Waiting(l)
  BY <1>2, <1>3 DEF Waiting
<1>5. ~(l < level)
  BY <1>4 DEF DequeueFrom
<1>6. CASE l = level
  <2>1. h \in DOMAIN Rescored(level, g)
    BY <1>2, <1>4, <1>6, RescoredKeepsWaiting DEF DequeueFrom
  <2>2. fairQueue'[level] = Rescored(level, g)
    BY DEF DequeueFrom, Levels
  <2> QED
    BY <2>1, <2>2
<1>7. CASE l # level
  <2>1. fairQueue'[l] = fairQueue[l]
    BY <1>5, <1>7 DEF DequeueFrom
  <2> QED
    BY <1>3, <2>1
<1> QED
  BY <1>6, <1>7

\* Every waiting job stays within reach of dequeue.lua: a group whose list is not
\* empty is in some level, for every number of groups, priorities and levels
\* per group, and however equal scores are ordered.
THEOREM NoGroupStranded == Spec => []NoStrandedGroup
<1>1. Init => NoStrandedGroup
  BY DEF Init, NoStrandedGroup
<1>2. TypeOK /\ NoStrandedGroup /\ [Next]_vars => NoStrandedGroup'
  <2> SUFFICES ASSUME TypeOK, NoStrandedGroup, [Next]_vars
               PROVE  NoStrandedGroup'
    OBVIOUS
  <2> USE FairQueueAssumption
  <2>1. ASSUME NEW job \in Jobs, NEW level \in RequestLevels, Enqueue(job, level)
        PROVE  NoStrandedGroup'
    BY <2>1, EnqueueStrandsNone DEF FairQueueAssumption
  <2>2. ASSUME NEW level \in Levels, NEW g \in Groups, DequeueFrom(level, g)
        PROVE  NoStrandedGroup'
    BY <2>2, DequeueStrandsNone
  <2>3. CASE DequeueNothing
    BY <2>3 DEF DequeueNothing, Waiting, NoStrandedGroup
  <2>4. ASSUME NEW job \in Jobs, Ack(job)
        PROVE  NoStrandedGroup'
    BY <2>4 DEF Ack, NoStrandedGroup
  <2>5. CASE Tick
    BY <2>5 DEF Tick, NoStrandedGroup
  <2>6. CASE UNCHANGED vars
    BY <2>6 DEF vars, NoStrandedGroup
  <2> QED
    BY <2>1, <2>2, <2>3, <2>4, <2>5, <2>6 DEF Next
<1> QED
  BY <1>1, <1>2, TypeCorrect, PTL DEF Spec

-----------------------------------------------------------------------------
(* Lists, job states and counters *)

\* What Append and Tail do to a list without repetitions.
LEMMA AppendPlaces ==
  ASSUME NEW S, NEW s \in Seq(S), NEW e \in S, IsInjective(s), e \notin Range(s)
  PROVE  IsInjective(Append(s, e)) /\ Range(Append(s, e)) = Range(s) \cup {e}
<1> DEFINE t == Append(s, e)
<1>1. /\ t \in Seq(S) /\ Len(t) = Len(s) + 1 /\ Len(s) \in Nat
      /\ \A i \in 1..Len(s) : t[i] = s[i]
      /\ t[Len(s) + 1] = e
  BY AppendProperties
<1>2. DOMAIN t = 1..(Len(s) + 1) /\ DOMAIN s = 1..Len(s)
  BY <1>1
<1> HIDE DEF t
<1>3. DOMAIN t = DOMAIN s \cup {Len(s) + 1}
  BY <1>1, <1>2
<1>4. \A i \in DOMAIN s : t[i] = s[i] /\ s[i] # e
  BY <1>1, <1>2 DEF Range
<1>5. Range(t) = Range(s) \cup {e}
  BY <1>1, <1>3, <1>4 DEF Range
<1>6. IsInjective(t)
  BY <1>1, <1>3, <1>4 DEF IsInjective
<1> QED
  BY <1>5, <1>6 DEF t

LEMMA TailPlaces ==
  ASSUME NEW S, NEW s \in Seq(S), s # <<>>, IsInjective(s)
  PROVE  IsInjective(Tail(s)) /\ Range(Tail(s)) = Range(s) \ {Head(s)} /\ Head(s) \in Range(s)
<1> DEFINE t == Tail(s)
<1>1. /\ t \in Seq(S) /\ Len(t) = Len(s) - 1 /\ Len(s) \in Nat \ {0}
      /\ \A i \in 1..Len(t) : t[i] = s[i + 1]
  BY HeadTailProperties, EmptySeq
<1>2. DOMAIN t = 1..(Len(s) - 1) /\ DOMAIN s = 1..Len(s) /\ Head(s) = s[1]
  BY <1>1
<1> HIDE DEF t
<1>3. \A i \in DOMAIN t : i + 1 \in DOMAIN s \ {1} /\ t[i] = s[i + 1]
  BY <1>1, <1>2
<1>4. \A k \in DOMAIN s \ {1} : k - 1 \in DOMAIN t /\ t[k - 1] = s[k]
  BY <1>1, <1>2
<1>5. 1 \in DOMAIN s
  BY <1>1, <1>2
<1>6. \A k \in DOMAIN s \ {1} : s[k] # s[1]
  BY <1>5 DEF IsInjective
<1>7. Range(t) = Range(s) \ {Head(s)}
  BY <1>2, <1>3, <1>4, <1>5, <1>6 DEF Range
<1>8. IsInjective(t)
  BY <1>2, <1>3 DEF IsInjective
<1> QED
  BY <1>2, <1>5, <1>7, <1>8 DEF t, Range


LEMMA EnqueueLists ==
  ASSUME FairQueueAssumption, TypeOK, ListHoldsPendingJobs,
         NEW job \in Jobs, NEW level \in Levels, Enqueue(job, level)
  PROVE  /\ ListHoldsPendingJobs'
         /\ \A h \in Groups : JobsIn(h, "PROCESSING")' = JobsIn(h, "PROCESSING")
<1> DEFINE g == GroupOf[job]
<1>1. g \in Groups
  BY DEF FairQueueAssumption
<1>2. /\ jobStatus[job] = "NONE" /\ jobStatus' = [jobStatus EXCEPT ![job] = "PENDING"]
      /\ groupJobs' = [groupJobs EXCEPT ![g] = Append(groupJobs[g], job)]
  BY DEF Enqueue
<1>3. \A h \in Groups : /\ groupJobs[h] \in Seq(Jobs) /\ IsInjective(groupJobs[h])
                        /\ Range(groupJobs[h]) = JobsIn(h, "PENDING")
  BY DEF TypeOK, ListHoldsPendingJobs
<1>4. \A j \in Jobs : jobStatus'[j] = IF j = job THEN "PENDING" ELSE jobStatus[j]
  BY <1>2 DEF TypeOK
<1>5. \A h \in Groups : groupJobs'[h] = IF h = g THEN Append(groupJobs[g], job) ELSE groupJobs[h]
  BY <1>2 DEF TypeOK
<1>6. \A h \in Groups :
        /\ JobsIn(h, "PENDING")' = IF h = g THEN JobsIn(g, "PENDING") \cup {job}
                                   ELSE JobsIn(h, "PENDING")
        /\ JobsIn(h, "PROCESSING")' = JobsIn(h, "PROCESSING")
  BY <1>2, <1>4 DEF JobsIn
<1>7. job \notin Range(groupJobs[g])
  BY <1>1, <1>2, <1>3 DEF JobsIn
<1>8. /\ IsInjective(Append(groupJobs[g], job))
      /\ Range(Append(groupJobs[g], job)) = Range(groupJobs[g]) \cup {job}
  BY <1>1, <1>3, <1>7, AppendPlaces
<1> QED
  BY <1>3, <1>5, <1>6, <1>8 DEF ListHoldsPendingJobs

LEMMA DequeueLists ==
  ASSUME FairQueueAssumption, TypeOK, ListHoldsPendingJobs,
         NEW level \in Levels, NEW g \in Groups, DequeueFrom(level, g)
  PROVE  /\ ListHoldsPendingJobs'
         /\ Head(groupJobs[g]) \notin JobsIn(g, "PROCESSING")
         /\ \A h \in Groups :
              JobsIn(h, "PROCESSING")' = JobsIn(h, "PROCESSING") \cup
                                           IF h = g THEN {Head(groupJobs[g])} ELSE {}
<1> DEFINE job == Head(groupJobs[g])
<1>1. groupJobs[g] # <<>>
  BY DEF DequeueFrom, Best, Waiting
<1>2. /\ jobStatus' = [jobStatus EXCEPT ![job] = "PROCESSING"]
      /\ groupJobs' = [groupJobs EXCEPT ![g] = Tail(groupJobs[g])]
  BY DEF DequeueFrom, Rest
<1>3. \A h \in Groups : /\ groupJobs[h] \in Seq(Jobs) /\ IsInjective(groupJobs[h])
                        /\ Range(groupJobs[h]) = JobsIn(h, "PENDING")
  BY DEF TypeOK, ListHoldsPendingJobs
<1>4. /\ IsInjective(Tail(groupJobs[g])) /\ job \in Range(groupJobs[g])
      /\ Range(Tail(groupJobs[g])) = Range(groupJobs[g]) \ {job}
  BY <1>1, <1>3, TailPlaces
<1>5. job \in Jobs /\ GroupOf[job] = g /\ jobStatus[job] = "PENDING"
  BY <1>3, <1>4 DEF JobsIn
<1> HIDE DEF job
<1>6. \A j \in Jobs : jobStatus'[j] = IF j = job THEN "PROCESSING" ELSE jobStatus[j]
  BY <1>2 DEF TypeOK
<1>7. \A h \in Groups : groupJobs'[h] = IF h = g THEN Tail(groupJobs[g]) ELSE groupJobs[h]
  BY <1>2 DEF TypeOK
<1>8. \A h \in Groups :
        /\ JobsIn(h, "PENDING")' = JobsIn(h, "PENDING") \ IF h = g THEN {job} ELSE {}
        /\ JobsIn(h, "PROCESSING")' = JobsIn(h, "PROCESSING") \cup IF h = g THEN {job} ELSE {}
  BY <1>5, <1>6 DEF JobsIn
<1>9. ASSUME NEW h \in Groups
      PROVE  Range(groupJobs'[h]) = JobsIn(h, "PENDING")' /\ IsInjective(groupJobs'[h])
  <2>1. CASE h = g
    BY <1>3, <1>4, <1>7, <1>8, <2>1
  <2>2. CASE h # g
    BY <1>3, <1>7, <1>8, <2>2
  <2> QED
    BY <2>1, <2>2
<1>10. ListHoldsPendingJobs'
  BY <1>9 DEF ListHoldsPendingJobs
<1> QED
  BY <1>5, <1>8, <1>10 DEF JobsIn, job

LEMMA AckLists ==
  ASSUME FairQueueAssumption, TypeOK, ListHoldsPendingJobs, NEW job \in Jobs, Ack(job)
  PROVE  /\ ListHoldsPendingJobs'
         /\ job \in JobsIn(GroupOf[job], "PROCESSING")
         /\ \A h \in Groups :
              JobsIn(h, "PROCESSING")' = JobsIn(h, "PROCESSING") \
                                           IF h = GroupOf[job] THEN {job} ELSE {}
<1>1. /\ jobStatus[job] = "PROCESSING" /\ jobStatus' = [jobStatus EXCEPT ![job] = "COMPLETED"]
      /\ groupJobs' = groupJobs
  BY DEF Ack
<1>2. \A j \in Jobs : jobStatus'[j] = IF j = job THEN "COMPLETED" ELSE jobStatus[j]
  BY <1>1 DEF TypeOK
<1>3. \A h \in Groups :
        /\ JobsIn(h, "PENDING")' = JobsIn(h, "PENDING")
        /\ JobsIn(h, "PROCESSING")' = JobsIn(h, "PROCESSING") \
                                        IF h = GroupOf[job] THEN {job} ELSE {}
  BY <1>1, <1>2 DEF JobsIn
<1> QED
  BY <1>1, <1>3 DEF ListHoldsPendingJobs, JobsIn

\* Only finitely many jobs are handed out at a time, whatever Jobs is.
ProcessingFinite == \A g \in Groups : IsFiniteSet(JobsIn(g, "PROCESSING"))

Accounts == ListHoldsPendingJobs /\ ProcessingFinite /\ GroupCounters

\* A step that leaves lists, states and counters alone.
LEMMA AccountsUntouched ==
  ASSUME Accounts, UNCHANGED <<groupJobs, totalJobs, doneJobs, jobStatus>>
  PROVE  Accounts'
<1>1. \A h \in Groups : /\ JobsIn(h, "PENDING")' = JobsIn(h, "PENDING")
                        /\ JobsIn(h, "PROCESSING")' = JobsIn(h, "PROCESSING")
  BY DEF JobsIn
<1> QED
  BY <1>1 DEF Accounts, ListHoldsPendingJobs, ProcessingFinite, GroupCounters

LEMMA EnqueueAccounts ==
  ASSUME FairQueueAssumption, TypeOK, Accounts,
         NEW job \in Jobs, NEW level \in Levels, Enqueue(job, level)
  PROVE  Accounts'
<1> DEFINE g == GroupOf[job]
<1>1. g \in Groups
  BY DEF FairQueueAssumption
<1>2. ListHoldsPendingJobs' /\ \A h \in Groups : JobsIn(h, "PROCESSING")' = JobsIn(h, "PROCESSING")
  BY EnqueueLists DEF Accounts
<1>3. \A h \in Groups : /\ groupJobs[h] \in Seq(Jobs) /\ Len(groupJobs[h]) \in Nat
                        /\ totalJobs[h] \in Nat /\ doneJobs[h] \in Nat
                        /\ Cardinality(JobsIn(h, "PROCESSING")) \in Nat
  BY FS_CardinalityType, LenProperties DEF TypeOK, Accounts, ProcessingFinite
<1>4. \A h \in Groups :
        totalJobs[h] = Len(groupJobs[h]) + Cardinality(JobsIn(h, "PROCESSING")) + doneJobs[h]
  BY DEF Accounts, GroupCounters
<1>5. \A h \in Groups \ {g} : /\ totalJobs'[h] = totalJobs[h] /\ doneJobs'[h] = doneJobs[h]
                              /\ groupJobs'[h] = groupJobs[h]
  BY DEF Enqueue, TypeOK
<1>6. /\ totalJobs'[g] = totalJobs[g] + 1 /\ groupJobs'[g] = Append(groupJobs[g], job)
      /\ doneJobs'[g] = IF totalJobs[g] + 1 = 1 THEN 0 ELSE doneJobs[g]
  BY <1>1 DEF Enqueue, FirstOfGroup, TypeOK
<1>7. Len(groupJobs'[g]) = Len(groupJobs[g]) + 1
  BY <1>1, <1>3, <1>6, AppendProperties
<1>8. totalJobs'[g] = Len(groupJobs'[g]) + Cardinality(JobsIn(g, "PROCESSING")) + doneJobs'[g]
  <2> HIDE DEF g
  <2> DEFINE c == Cardinality(JobsIn(g, "PROCESSING"))
  <2>1. /\ Len(groupJobs[g]) \in Nat /\ totalJobs[g] \in Nat /\ doneJobs[g] \in Nat /\ c \in Nat
        /\ totalJobs[g] = Len(groupJobs[g]) + c + doneJobs[g]
    BY <1>1, <1>3, <1>4
  <2> HIDE DEF c
  <2>2. doneJobs'[g] = doneJobs[g]
    BY <1>6, <2>1
  <2>3. totalJobs'[g] = Len(groupJobs'[g]) + c + doneJobs'[g]
    BY <1>6, <1>7, <2>1, <2>2
  <2> QED
    BY <2>3 DEF c
<1>9. GroupCounters'
  BY <1>2, <1>4, <1>5, <1>8 DEF GroupCounters
<1> QED
  BY <1>2, <1>9 DEF Accounts, ProcessingFinite

LEMMA DequeueAccounts ==
  ASSUME FairQueueAssumption, TypeOK, Accounts,
         NEW level \in Levels, NEW g \in Groups, DequeueFrom(level, g)
  PROVE  Accounts'
<1> DEFINE job == Head(groupJobs[g])
<1>1. /\ ListHoldsPendingJobs' /\ job \notin JobsIn(g, "PROCESSING")
      /\ \A h \in Groups : JobsIn(h, "PROCESSING")' = JobsIn(h, "PROCESSING") \cup
                                                        IF h = g THEN {job} ELSE {}
  BY DequeueLists DEF Accounts
<1>2. \A h \in Groups : IsFiniteSet(JobsIn(h, "PROCESSING"))
  BY DEF Accounts, ProcessingFinite
<1>3. groupJobs[g] \in Seq(Jobs) /\ groupJobs[g] # <<>> /\ groupJobs' = [groupJobs EXCEPT ![g] = Tail(@)]
  BY DEF DequeueFrom, Best, Waiting, Rest, TypeOK
<1> HIDE DEF job
<1>4. Len(groupJobs[g]) \in Nat \ {0} /\ Len(Tail(groupJobs[g])) = Len(groupJobs[g]) - 1
  BY <1>3, HeadTailProperties, EmptySeq, LenProperties
<1>5. \A h \in Groups : groupJobs'[h] = IF h = g THEN Tail(groupJobs[g]) ELSE groupJobs[h]
  BY <1>3 DEF TypeOK
<1>6. /\ IsFiniteSet(JobsIn(g, "PROCESSING") \cup {job})
      /\ Cardinality(JobsIn(g, "PROCESSING") \cup {job}) = Cardinality(JobsIn(g, "PROCESSING")) + 1
  BY <1>1, <1>2, FS_AddElement
<1>7. \A h \in Groups \ {g} : JobsIn(h, "PROCESSING")' = JobsIn(h, "PROCESSING")
  BY <1>1
<1>8. JobsIn(g, "PROCESSING")' = JobsIn(g, "PROCESSING") \cup {job}
  BY <1>1
<1>9. ProcessingFinite'
  BY <1>2, <1>6, <1>7, <1>8 DEF ProcessingFinite
<1>10. totalJobs' = totalJobs /\ doneJobs' = doneJobs
  BY DEF DequeueFrom
<1>11. Cardinality(JobsIn(g, "PROCESSING")) \in Nat /\ totalJobs[g] \in Nat /\ doneJobs[g] \in Nat
  BY <1>2, FS_CardinalityType DEF TypeOK
<1>12. totalJobs[g] = Len(Tail(groupJobs[g])) + (Cardinality(JobsIn(g, "PROCESSING")) + 1) + doneJobs[g]
  BY <1>4, <1>11 DEF Accounts, GroupCounters
<1>13. GroupCounters'
  BY <1>5, <1>6, <1>7, <1>8, <1>10, <1>12 DEF Accounts, GroupCounters
<1> QED
  BY <1>1, <1>9, <1>13 DEF Accounts

LEMMA AckAccounts ==
  ASSUME FairQueueAssumption, TypeOK, Accounts, NEW job \in Jobs, Ack(job)
  PROVE  Accounts'
<1> DEFINE g == GroupOf[job]
<1>1. /\ ListHoldsPendingJobs' /\ job \in JobsIn(g, "PROCESSING")
      /\ \A h \in Groups : JobsIn(h, "PROCESSING")' = JobsIn(h, "PROCESSING") \
                                                        IF h = g THEN {job} ELSE {}
  BY AckLists DEF Accounts
<1>2. \A h \in Groups : IsFiniteSet(JobsIn(h, "PROCESSING"))
  BY DEF Accounts, ProcessingFinite
<1>3. g \in Groups
  BY DEF FairQueueAssumption
<1>4. /\ doneJobs' = [doneJobs EXCEPT ![g] = doneJobs[g] + 1]
      /\ totalJobs' = totalJobs /\ groupJobs' = groupJobs
  BY DEF Ack
<1> HIDE DEF g
<1>5. \A h \in Groups : doneJobs'[h] = IF h = g THEN doneJobs[g] + 1 ELSE doneJobs[h]
  BY <1>3, <1>4 DEF TypeOK
<1>6. /\ IsFiniteSet(JobsIn(g, "PROCESSING") \ {job})
      /\ Cardinality(JobsIn(g, "PROCESSING") \ {job}) = Cardinality(JobsIn(g, "PROCESSING")) - 1
  BY <1>1, <1>2, <1>3, FS_RemoveElement
<1>7. \A h \in Groups \ {g} : JobsIn(h, "PROCESSING")' = JobsIn(h, "PROCESSING")
  BY <1>1
<1>8. JobsIn(g, "PROCESSING")' = JobsIn(g, "PROCESSING") \ {job}
  BY <1>1, <1>3
<1>9. ProcessingFinite'
  BY <1>2, <1>6, <1>7, <1>8 DEF ProcessingFinite
<1>10. /\ Cardinality(JobsIn(g, "PROCESSING")) \in Nat /\ totalJobs[g] \in Nat
       /\ doneJobs[g] \in Nat /\ Len(groupJobs[g]) \in Nat
  BY <1>2, <1>3, FS_CardinalityType, LenProperties DEF TypeOK
<1>11. totalJobs[g] = Len(groupJobs[g]) + (Cardinality(JobsIn(g, "PROCESSING")) - 1) + (doneJobs[g] + 1)
  BY <1>3, <1>10 DEF Accounts, GroupCounters
<1>12. GroupCounters'
  BY <1>4, <1>5, <1>6, <1>7, <1>8, <1>11 DEF Accounts, GroupCounters
<1> QED
  BY <1>1, <1>9, <1>12 DEF Accounts

LEMMA AccountsHold == Spec => []Accounts
<1>1. Init => Accounts
  <2> SUFFICES ASSUME Init PROVE Accounts
    OBVIOUS
  <2>1. \A g \in Groups : /\ JobsIn(g, "PENDING") = {} /\ JobsIn(g, "PROCESSING") = {}
                          /\ groupJobs[g] = <<>> /\ totalJobs[g] = 0 /\ doneJobs[g] = 0
    BY DEF Init, JobsIn
  <2>2. Range(<<>>) = {} /\ IsInjective(<<>>) /\ Len(<<>>) = 0
    BY EmptySeq DEF Range, IsInjective
  <2>3. IsFiniteSet({}) /\ Cardinality({}) = 0
    BY FS_EmptySet
  <2>4. ListHoldsPendingJobs
    BY <2>1, <2>2 DEF ListHoldsPendingJobs
  <2>5. \A g \in Groups : IsFiniteSet(JobsIn(g, "PROCESSING")) /\ Cardinality(JobsIn(g, "PROCESSING")) = 0
    BY <2>1, <2>3
  <2>6. ProcessingFinite
    BY <2>5 DEF ProcessingFinite
  <2>7. GroupCounters
    <3> SUFFICES ASSUME NEW g \in Groups
                 PROVE  totalJobs[g] = Len(groupJobs[g]) + Cardinality(JobsIn(g, "PROCESSING")) + doneJobs[g]
      BY DEF GroupCounters
    <3>1. Len(groupJobs[g]) = 0
      BY <2>1, <2>2
    <3>2. Cardinality(JobsIn(g, "PROCESSING")) = 0 /\ totalJobs[g] = 0 /\ doneJobs[g] = 0
      BY <2>1, <2>5
    <3> QED
      BY <3>1, <3>2
  <2> QED
    BY <2>4, <2>6, <2>7 DEF Accounts
<1>2. TypeOK /\ Accounts /\ [Next]_vars => Accounts'
  <2> SUFFICES ASSUME TypeOK, Accounts, [Next]_vars PROVE Accounts'
    OBVIOUS
  <2> USE FairQueueAssumption
  <2>1. ASSUME NEW job \in Jobs, NEW level \in RequestLevels, Enqueue(job, level)
        PROVE  Accounts'
    BY <2>1, EnqueueAccounts DEF FairQueueAssumption
  <2>2. ASSUME NEW level \in Levels, NEW g \in Groups, DequeueFrom(level, g)
        PROVE  Accounts'
    BY <2>2, DequeueAccounts
  <2>3. ASSUME NEW job \in Jobs, Ack(job) PROVE Accounts'
    BY <2>3, AckAccounts
  <2>4. CASE DequeueNothing \/ Tick \/ UNCHANGED vars
    BY <2>4, AccountsUntouched DEF DequeueNothing, Tick, vars
  <2> QED
    BY <2>1, <2>2, <2>3, <2>4 DEF Next
<1> QED
  BY <1>1, <1>2, TypeCorrect, PTL DEF Spec

\* The list of a group holds exactly its waiting jobs, each of them once: no
\* script loses a job between the list and the hash or lists it twice.
THEOREM ListsHoldPending == Spec => []ListHoldsPendingJobs
  BY AccountsHold, PTL DEF Accounts

\* ack.lua can rely on the counters of a group: totalJobs is always the number of
\* its waiting, running and done jobs, in any order of submissions and acks.
THEOREM CountersExact == Spec => []GroupCounters
  BY AccountsHold, PTL DEF Accounts

\* A waiting job is found: its group is in a level, and there it waits.
LEMMA PendingWaits ==
  ASSUME FairQueueAssumption, TypeOK, NoStrandedGroup, ListHoldsPendingJobs, NEW j \in PendingJobs
  PROVE  \E l \in Levels : Waiting(l) # {}
<1>1. j \in Jobs /\ GroupOf[j] \in Groups /\ j \in JobsIn(GroupOf[j], "PENDING")
  BY DEF PendingJobs, JobsIn, FairQueueAssumption
<1>2. j \in Range(groupJobs[GroupOf[j]])
  BY <1>1 DEF ListHoldsPendingJobs
<1>3. groupJobs[GroupOf[j]] # <<>>
  BY <1>2 DEF Range
<1> QED
  BY <1>1, <1>3 DEF NoStrandedGroup, Waiting

LEMMA HeadIsPending ==
  ASSUME FairQueueAssumption, TypeOK, ListHoldsPendingJobs, NEW level \in Levels,
         NEW g \in Groups, DequeueFrom(level, g)
  PROVE  \E j \in PendingJobs : PendingJobs' = PendingJobs \ {j}
<1> DEFINE j == Head(groupJobs[g])
<1>1. groupJobs[g] \in Seq(Jobs) /\ groupJobs[g] # <<>>
  BY DEF DequeueFrom, Best, Waiting, TypeOK
<1>2. 1 \in DOMAIN groupJobs[g] /\ j = groupJobs[g][1]
  BY <1>1, EmptySeq, HeadTailProperties, LenProperties
<1>3. j \in Range(groupJobs[g])
  BY <1>2 DEF Range
<1>4. j \in Jobs /\ jobStatus[j] = "PENDING"
  BY <1>3 DEF ListHoldsPendingJobs, JobsIn
<1>5. jobStatus' = [jobStatus EXCEPT ![j] = "PROCESSING"]
  BY DEF DequeueFrom
<1> HIDE DEF j
<1>6. PendingJobs' = PendingJobs \ {j}
  BY <1>4, <1>5 DEF PendingJobs, TypeOK
<1> QED
  BY <1>4, <1>6 DEF PendingJobs

\* The other modules may take the fair queue for a set of jobs: a fetch gets a
\* job whenever one waits, and every job it gets has waited until then.
THEOREM QueueIsASet == Spec => ActsAsSet
<1>1. TypeOK /\ NoStrandedGroup /\ ListHoldsPendingJobs /\ [Next]_vars =>
        [\/ \E j \in Jobs \ PendingJobs : PendingJobs' = PendingJobs \cup {j}
         \/ \E j \in PendingJobs : PendingJobs' = PendingJobs \ {j}
         \/ PendingJobs' = PendingJobs /\ (Dequeue => PendingJobs = {})]_vars
  <2> SUFFICES ASSUME TypeOK, NoStrandedGroup, ListHoldsPendingJobs, Next
               PROVE  \/ \E j \in Jobs \ PendingJobs : PendingJobs' = PendingJobs \cup {j}
                      \/ \E j \in PendingJobs : PendingJobs' = PendingJobs \ {j}
                      \/ PendingJobs' = PendingJobs /\ (Dequeue => PendingJobs = {})
    OBVIOUS
  <2>1. ASSUME NEW job \in Jobs, NEW level \in RequestLevels, Enqueue(job, level)
        PROVE  job \notin PendingJobs /\ PendingJobs' = PendingJobs \cup {job}
    BY <2>1 DEF Enqueue, PendingJobs, TypeOK
  <2>2. ASSUME NEW level \in Levels, NEW g \in Groups, DequeueFrom(level, g)
        PROVE  \E j \in PendingJobs : PendingJobs' = PendingJobs \ {j}
    BY <2>2, HeadIsPending, FairQueueAssumption
  <2>3. CASE DequeueNothing
    <3>1. PendingJobs = {}
      BY <2>3, PendingWaits, FairQueueAssumption DEF DequeueNothing
    <3>2. PendingJobs' = PendingJobs
      BY <2>3 DEF DequeueNothing, PendingJobs
    <3> QED
      BY <3>1, <3>2
  <2>4. CASE ~Dequeue /\ ((\E job \in Jobs : Ack(job)) \/ Tick)
    BY <2>4 DEF Ack, Tick, PendingJobs, TypeOK
  <2> QED
    BY <2>1, <2>2, <2>3, <2>4 DEF Next, Dequeue
<1>2. Spec => [][Next]_vars
  BY DEF Spec
<1> QED
  BY <1>1, <1>2, TypeCorrect, NoGroupStranded, ListsHoldPending, PTL DEF ActsAsSet

-----------------------------------------------------------------------------
(* Overtaking.  A score is the time it was computed at, the base priority  *)
(* and a boost between nothing and what the group's size allows; a group   *)
(* that grows later only raises that limit.                                *)

LEMMA TimesMonotone ==
  ASSUME NEW k \in Nat, NEW a \in Int, NEW b \in Int, a <= b
  PROVE  k * a <= k * b
<1>1. b - a \in Nat /\ b = a + (b - a)
  OBVIOUS
<1>2. k * b = k * a + k * (b - a)
  BY <1>1
<1>3. k * (b - a) \in Nat /\ k * a \in Int
  BY <1>1
<1> QED
  BY <1>2, <1>3

LEMMA TimesCancel ==
  ASSUME NEW k \in Nat \ {0}, NEW a \in Int, NEW b \in Int, k * a <= k * b
  PROVE  a <= b
<1> SUFFICES ASSUME b + 1 <= a PROVE FALSE
  OBVIOUS
<1>1. k * (b + 1) <= k * a
  BY TimesMonotone
<1>2. k * (b + 1) = k * b + k /\ k * b \in Int /\ k * a \in Int
  OBVIOUS
<1> QED
  BY <1>1, <1>2

LEMMA Quotient ==
  ASSUME NEW x \in Nat, NEW r \in Nat \ {0}
  PROVE  x \div r \in Nat /\ x \div r <= x
<1> DEFINE q == x \div r
<1>1. q \in Int /\ r * q <= x /\ x < r * (q + 1)
  OBVIOUS
<1> HIDE DEF q
<1>2. q \in Nat
  <2> SUFFICES ASSUME q + 1 <= 0 PROVE FALSE
    BY <1>1
  <2>1. r * (q + 1) <= r * 0
    BY <1>1, TimesMonotone
  <2> QED
    BY <1>1, <2>1
<1>3. q <= r * q
  <2>1. q * 1 <= q * r
    BY <1>2, TimesMonotone
  <2> QED
    BY <1>2, <2>1
<1>4. q <= x
  <2>1. r * q \in Int
    BY <1>1
  <2> QED
    BY <1>1, <1>3, <2>1
<1> QED
  BY <1>2, <1>4 DEF q

At(g, time) == Scale * (BasePriority[g] - time)
BoostLimit(total) == (Alpha * Scale) * (total - 1)

LEMMA ScoreBounds ==
  ASSUME FairQueueAssumption, NEW g \in Groups, NEW total \in Nat \ {0}, NEW done \in Nat, now \in Nat
  PROVE  At(g, now) <= Score(g, total, done) /\ Score(g, total, done) <= At(g, now) + BoostLimit(total)
<1> DEFINE remaining == Larger(1, total - done)
           k == Alpha * Scale
           x == k * (total - remaining)
<1>1. remaining \in Nat \ {0} /\ 0 <= total - remaining /\ total - remaining <= total - 1
  BY DEF Larger
<1>2. k \in Nat /\ At(g, now) \in Int
  BY DEF FairQueueAssumption, At
<1>3. Score(g, total, done) = At(g, now) + x \div remaining
  BY DEF Score, At
<1>4. BoostLimit(total) = k * (total - 1)
  BY DEF BoostLimit
<1> HIDE DEF remaining, k
<1>5. x \in Nat /\ x <= k * (total - 1) /\ k * (total - 1) \in Int
  <2>1. total - remaining \in Nat /\ total - 1 \in Int
    BY <1>1
  <2>2. k * (total - remaining) <= k * (total - 1)
    BY <1>1, <1>2, <2>1, TimesMonotone
  <2> QED
    BY <1>2, <2>1, <2>2
<1> HIDE DEF x
<1>6. x \div remaining \in Nat /\ x \div remaining <= x
  BY <1>1, <1>5, Quotient
<1> QED
  BY <1>2, <1>3, <1>4, <1>5, <1>6

InBounds(g, time, score, total) ==
  At(g, time) <= score /\ score <= At(g, time) + BoostLimit(total)

ScoresBounded ==
  \A l \in Levels : \A g \in DOMAIN fairQueue[l] :
    totalJobs[g] >= 1 /\ InBounds(g, touchedAt[l][g], fairQueue[l][g], totalJobs[g])

\* The clock and what is recorded of it are numbers.
LEMMA TypedNumbers ==
  ASSUME FairQueueAssumption, TypeOK
  PROVE  now \in Nat /\ \A l \in Levels : \A g \in Groups : touchedAt[l][g] \in Int
<1>1. 0..MaxNow \subseteq Nat
  BY DEF FairQueueAssumption
<1> QED
  BY <1>1 DEF TypeOK

LEMMA LargerGroup ==
  ASSUME FairQueueAssumption, NEW g \in Groups, NEW time \in Int, NEW score \in Int,
         NEW total \in Nat, InBounds(g, time, score, total)
  PROVE  InBounds(g, time, score, total + 1)
<1> DEFINE k == Alpha * Scale
<1>1. k \in Nat /\ At(g, time) \in Int /\ BoostLimit(total) = k * (total - 1)
      /\ BoostLimit(total + 1) = k * total
  BY DEF FairQueueAssumption, At, BoostLimit
<1> HIDE DEF k
<1>2. k * (total - 1) <= k * total /\ k * (total - 1) \in Int /\ k * total \in Int
  BY <1>1, TimesMonotone
<1> QED
  BY <1>1, <1>2 DEF InBounds

LEMMA EnqueueKeepsBounds ==
  ASSUME FairQueueAssumption, TypeOK, ScoresBounded,
         NEW job \in Jobs, NEW level \in Levels, Enqueue(job, level)
  PROVE  ScoresBounded'
<1> DEFINE g == GroupOf[job]
           total == totalJobs[g] + 1
<1>1. g \in Groups /\ totalJobs \in [Groups -> Nat] /\ doneJobs[g] \in Nat /\ now \in Nat
  <2>1. g \in Groups
    BY DEF FairQueueAssumption
  <2> HIDE DEF g
  <2> QED
    BY <2>1, TypedNumbers DEF TypeOK
<1>2. /\ totalJobs' = [totalJobs EXCEPT ![g] = total]
      /\ fairQueue' = [fairQueue EXCEPT ![level] = ZAdd(@, g, Score(g, total, doneJobs[g]))]
      /\ touchedAt' = [touchedAt EXCEPT ![level][g] = now]
  BY DEF Enqueue
<1> HIDE DEF g
<1>3. /\ totalJobs'[g] = total /\ total \in Nat \ {0}
      /\ \A h \in Groups \ {g} : totalJobs'[h] = totalJobs[h]
  BY <1>1, <1>2
<1> HIDE DEF total
<1> SUFFICES ASSUME NEW l \in Levels, NEW h \in DOMAIN fairQueue'[l]
             PROVE  totalJobs'[h] >= 1 /\ InBounds(h, touchedAt'[l][h], fairQueue'[l][h], totalJobs'[h])
  BY DEF ScoresBounded
<1>4. CASE l = level /\ h = g
  <2>1. fairQueue'[l][h] = Score(g, total, doneJobs[g])
    BY <1>2, <1>4 DEF TypeOK, ZAdd
  <2>2. touchedAt'[l][h] = now
    BY <1>1, <1>2, <1>4 DEF TypeOK
  <2> QED
    BY <1>1, <1>3, <1>4, <2>1, <2>2, ScoreBounds DEF InBounds
<1>5. CASE ~(l = level /\ h = g)
  <2>1. h \in DOMAIN fairQueue[l] /\ fairQueue'[l][h] = fairQueue[l][h]
    BY <1>2, <1>5 DEF TypeOK, ZAdd
  <2>2. h \in Groups /\ fairQueue[l][h] \in Int /\ touchedAt[l][h] \in Int
    BY <2>1, TypedNumbers DEF TypeOK
  <2>3. touchedAt'[l][h] = touchedAt[l][h]
    BY <1>1, <1>2, <1>5, <2>2 DEF TypeOK
  <2>4. totalJobs[h] >= 1 /\ InBounds(h, touchedAt[l][h], fairQueue[l][h], totalJobs[h])
    BY <2>1 DEF ScoresBounded
  <2>5. CASE h = g
    <3>1. totalJobs'[h] = totalJobs[h] + 1 /\ totalJobs[h] \in Nat
      BY <1>1, <1>3, <2>5 DEF total
    <3> QED
      BY <2>1, <2>2, <2>3, <2>4, <3>1, LargerGroup
  <2>6. CASE h # g
    BY <1>3, <2>1, <2>2, <2>3, <2>4, <2>6
  <2> QED
    BY <2>5, <2>6
<1> QED
  BY <1>4, <1>5

LEMMA DequeueKeepsBounds ==
  ASSUME FairQueueAssumption, TypeOK, ScoresBounded,
         NEW level \in Levels, NEW g \in Groups, DequeueFrom(level, g)
  PROVE  ScoresBounded'
<1> DEFINE kept == ZRem(fairQueue[level], {h \in DOMAIN fairQueue[level] \ {g} : Before(level, h, g)})
           score == Score(g, totalJobs[g], doneJobs[g])
<1>1. /\ totalJobs' = totalJobs /\ totalJobs[g] \in Nat /\ doneJobs[g] \in Nat /\ now \in Nat
      /\ touchedAt' = [touchedAt EXCEPT ![level][g] = now]
      /\ g \in DOMAIN fairQueue[level]
  BY TypedNumbers DEF DequeueFrom, Best, Waiting, TypeOK
<1>2. \A l \in Levels : fairQueue'[l] = IF l < level THEN EmptyZSet
                                        ELSE IF l = level THEN Rescored(l, g)
                                        ELSE fairQueue[l]
  BY DEF DequeueFrom
<1>3. \/ Rescored(level, g) = ZRem(kept, {g})
      \/ Rescored(level, g) = ZAdd(kept, g, score)
  BY DEF Rescored
<1>4. DOMAIN kept \subseteq DOMAIN fairQueue[level] /\ \A h \in DOMAIN kept : kept[h] = fairQueue[level][h]
  BY DEF ZRem, Restrict
<1> HIDE DEF kept, score
<1> SUFFICES ASSUME NEW l \in Levels, NEW h \in DOMAIN fairQueue'[l]
             PROVE  totalJobs'[h] >= 1 /\ InBounds(h, touchedAt'[l][h], fairQueue'[l][h], totalJobs'[h])
  BY DEF ScoresBounded
<1>5. \/ l = level /\ h = g /\ fairQueue'[l][h] = score
      \/ ~(l = level /\ h = g) /\ h \in DOMAIN fairQueue[l] /\ fairQueue'[l][h] = fairQueue[l][h]
  <2>1. CASE l < level
    BY <1>2, <2>1 DEF EmptyZSet
  <2>2. CASE l = level /\ Rescored(level, g) = ZRem(kept, {g})
    BY <1>2, <1>4, <2>2 DEF ZRem, Restrict, Levels
  <2>3. CASE l = level /\ Rescored(level, g) = ZAdd(kept, g, score)
    BY <1>2, <1>4, <2>3 DEF ZAdd, Levels
  <2>4. CASE ~(l < level) /\ l # level
    BY <1>2, <2>4
  <2> QED
    BY <1>3, <2>1, <2>2, <2>3, <2>4
<1>6. CASE l = level /\ h = g /\ fairQueue'[l][h] = score
  <2>1. totalJobs[g] >= 1
    BY <1>1 DEF ScoresBounded
  <2>2. touchedAt'[l][h] = now
    BY <1>1, <1>6 DEF TypeOK
  <2>3. totalJobs[g] \in Nat \ {0}
    BY <1>1, <2>1
  <2>4. InBounds(g, now, score, totalJobs[g])
    BY <1>1, <2>3, ScoreBounds DEF InBounds, score
  <2> QED
    BY <1>1, <1>6, <2>1, <2>2, <2>4
<1>7. CASE ~(l = level /\ h = g) /\ h \in DOMAIN fairQueue[l] /\ fairQueue'[l][h] = fairQueue[l][h]
  <2>1. h \in Groups
    BY <1>7 DEF TypeOK
  <2>2. touchedAt'[l][h] = touchedAt[l][h]
    BY <1>1, <1>7, <2>1 DEF TypeOK
  <2> QED
    BY <1>1, <1>7, <2>2 DEF ScoresBounded
<1> QED
  BY <1>5, <1>6, <1>7

LEMMA BoundsHold == Spec => [](TypeOK /\ ScoresBounded)
<1>1. Init => ScoresBounded
  BY DEF Init, EmptyZSet, ScoresBounded
<1>2. TypeOK /\ ScoresBounded /\ [Next]_vars => ScoresBounded'
  <2> SUFFICES ASSUME TypeOK, ScoresBounded, [Next]_vars PROVE ScoresBounded'
    OBVIOUS
  <2> USE FairQueueAssumption
  <2>1. ASSUME NEW job \in Jobs, NEW level \in RequestLevels, Enqueue(job, level)
        PROVE  ScoresBounded'
    BY <2>1, EnqueueKeepsBounds DEF FairQueueAssumption
  <2>2. ASSUME NEW level \in Levels, NEW g \in Groups, DequeueFrom(level, g)
        PROVE  ScoresBounded'
    BY <2>2, DequeueKeepsBounds
  <2>3. CASE DequeueNothing
    BY <2>3 DEF DequeueNothing, EmptyZSet, ScoresBounded
  <2>4. ASSUME NEW job \in Jobs, Ack(job) PROVE ScoresBounded'
    BY <2>4 DEF Ack, ScoresBounded
  <2>5. CASE Tick \/ UNCHANGED vars
    BY <2>5 DEF Tick, vars, ScoresBounded
  <2> QED
    BY <2>1, <2>2, <2>3, <2>4, <2>5 DEF Next
<1> QED
  BY <1>1, <1>2, TypeCorrect, PTL DEF Spec

\* A group that waits in a level is passed over by one that was scored later only
\* within the difference of the base priorities and the largest boost.
LEMMA ServedWithinBound ==
  ASSUME FairQueueAssumption, TypeOK, ScoresBounded, NEW level \in Levels,
         NEW g \in Waiting(level), NEW h \in Waiting(level), g \in Best(level)
  PROVE  touchedAt[level][g] - touchedAt[level][h]
           <= BasePriority[g] - BasePriority[h] + Alpha * (totalJobs[g] - 1)
<1>1. /\ g \in DOMAIN fairQueue[level] /\ h \in DOMAIN fairQueue[level]
      /\ fairQueue[level][g] >= fairQueue[level][h]
  <2>1. /\ g \in DOMAIN fairQueue[level] /\ h \in DOMAIN fairQueue[level]
        /\ fairQueue[level][g] \in Int /\ fairQueue[level][h] \in Int
    BY DEF Waiting, TypeOK
  <2>2. h = g \/ Before(level, g, h)
    BY DEF Best
  <2> QED
    BY <2>1, <2>2 DEF Before
<1> DEFINE p == BasePriority[g] - touchedAt[level][g]
           q == BasePriority[h] - touchedAt[level][h]
           boost == Alpha * (totalJobs[g] - 1)
<1>2. /\ g \in Groups /\ h \in Groups /\ totalJobs[g] \in Nat
      /\ touchedAt[level][g] \in Int /\ touchedAt[level][h] \in Int
      /\ fairQueue[level][g] \in Int /\ fairQueue[level][h] \in Int
  BY <1>1, TypedNumbers DEF TypeOK
<1>3. /\ BasePriority[g] \in Int /\ BasePriority[h] \in Int /\ boost \in Int /\ p \in Int /\ q \in Int
      /\ Scale \in Nat \ {0} /\ Alpha \in Nat
  <2>1. BasePriority[g] \in Int /\ BasePriority[h] \in Int /\ Scale \in Nat \ {0} /\ Alpha \in Nat
    BY <1>2 DEF FairQueueAssumption
  <2>2. totalJobs[g] - 1 \in Int
    BY <1>2
  <2>3. boost \in Int
    BY <2>1, <2>2
  <2>4. p \in Int /\ q \in Int
    BY <1>2, <2>1
  <2> QED
    BY <2>1, <2>3, <2>4
<1>4. /\ At(h, touchedAt[level][h]) <= fairQueue[level][h]
      /\ fairQueue[level][g] <= At(g, touchedAt[level][g]) + BoostLimit(totalJobs[g])
  BY <1>1 DEF ScoresBounded, InBounds
<1>5. /\ At(h, touchedAt[level][h]) = Scale * q /\ At(g, touchedAt[level][g]) = Scale * p
  BY DEF At
<1>6. BoostLimit(totalJobs[g]) = Scale * boost
  <2>1. totalJobs[g] - 1 \in Int
    BY <1>2
  <2>2. (Alpha * Scale) * (totalJobs[g] - 1) = Scale * (Alpha * (totalJobs[g] - 1))
    BY <1>3, <2>1
  <2> QED
    BY <2>2 DEF BoostLimit
<1> HIDE DEF p, q, boost
<1>7. Scale * q <= Scale * (p + boost)
  <2>1. Scale * (p + boost) = Scale * p + Scale * boost
    BY <1>3
  <2>2. Scale * q \in Int /\ Scale * p \in Int /\ Scale * boost \in Int
    BY <1>3
  <2> QED
    BY <1>1, <1>2, <1>4, <1>5, <1>6, <2>1, <2>2
<1>8. q <= p + boost
  BY <1>3, <1>7, TimesCancel
<1> QED
  BY <1>2, <1>3, <1>8 DEF p, q, boost

\* The boost of a nearly finished group overtakes by a bounded time only, for any
\* alpha, any priorities and any number of groups in a level.
THEOREM OvertakingIsBounded == Spec => OvertakingBounded
<1>1. TypeOK /\ ScoresBounded /\ [Next]_vars =>
        [\A level \in Levels : \A g, h \in Waiting(level) :
           DequeueFrom(level, g) =>
             touchedAt[level][g] - touchedAt[level][h]
               <= BasePriority[g] - BasePriority[h] + Alpha * (totalJobs[g] - 1)]_vars
  BY FairQueueAssumption, ServedWithinBound DEF DequeueFrom
<1>2. Spec => [][Next]_vars
  BY DEF Spec
<1> QED
  BY <1>1, <1>2, BoundsHold, PTL DEF OvertakingBounded
=============================================================================
