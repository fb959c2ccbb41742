-------------------------- MODULE AdmissionProofs ----------------------------
(***************************************************************************)
(* What holds of admission, rate limiter and congestion control for every  *)
(* number of jobs, groups, fetchers and workers, every window and every    *)
(* sequence of lost answers: the types, that a rate is passed only by      *)
(* calls that are later than the keys live, that the counters of the       *)
(* limiter agree, as do the two places in which Redis keeps the count of   *)
(* a group's non-ready jobs, and what lost answers do to jobs and counts.  *)
(***************************************************************************)
EXTENDS Admission, CountingTheorems

-----------------------------------------------------------------------------
(* Types *)

\* INCR, EXPIRE and DECR keep a key a counter with an expiry, and what is taken
\* back was counted before.
LEMMA KeysCount ==
  ASSUME AdmissionAssumption, now \in Nat, NEW key \in Keys
  PROVE  Incr(key) \in Keys /\ AfterGroupLimit(key) \in Keys
<1>1. Expiry \in Nat
  BY DEF Expiry, AdmissionAssumption
<1>2. Incr(key) \in Keys /\ Incr(key).count >= 1
  <2>1. CASE Value(key) = 0
    BY <1>1, <2>1 DEF Incr, Keys
  <2>2. CASE Value(key) # 0
    <3>1. key.count \in Nat /\ key.count # 0 /\ Incr(key) = [key EXCEPT !.count = @ + 1]
      BY <2>2 DEF Value, Incr, Keys
    <3> QED
      BY <3>1 DEF Keys
  <2> QED
    BY <2>1, <2>2
<1>3. AfterGroupLimit(key) = [Incr(key) EXCEPT !.count = @ - 1]
  BY DEF AfterGroupLimit, Decr
<1> QED
  BY <1>2, <1>3 DEF Keys

LEMMA InitTypeOK == AdmissionAssumption /\ Init => TypeOK
<1> SUFFICES ASSUME AdmissionAssumption, Init PROVE TypeOK
  OBVIOUS
<1>1. LimiterTypeOK
  BY DEF Init, LimiterInit, LimiterTypeOK, NoKey, Keys, AdmissionAssumption
<1>2. QueuesTypeOK
  BY DEF Init, QueuesTypeOK, EmptyZSet
<1>3. ActorsTypeOK
  BY DEF Init, ActorsTypeOK, AdmissionAssumption
<1> QED
  BY <1>1, <1>2, <1>3 DEF TypeOK

\* Whoever is not idle has a job, and the job has a group.
LEMMA ActorHasJob ==
  ASSUME AdmissionAssumption, TypeOK, NEW a \in Actors, pc[a] # "idle"
  PROVE  has[a] \in Jobs /\ has[a] \in Calls /\ CallGroup[has[a]] \in Groups
  BY DEF AdmissionAssumption, TypeOK, ActorsTypeOK

LEMMA LimiterKeepsType ==
  ASSUME AdmissionAssumption, TypeOK, [Next]_vars
  PROVE  LimiterTypeOK'
<1> USE DEF TypeOK, LimiterTypeOK
<1>1. CASE UNCHANGED <<now, limiterVars>>
  BY <1>1 DEF limiterVars
<1>2. ASSUME NEW f \in Fetchers, NEW j \in Jobs, Fetch(f, j) PROVE LimiterTypeOK'
  BY <1>2 DEF Fetch, Ask, AdmissionAssumption
<1>3. ASSUME NEW f \in Fetchers, CheckRate(f) PROVE LimiterTypeOK'
  <2> DEFINE j == has[f]
             g == CallGroup[j]
             w == WindowOf(asked[j])
  <2>1. j \in Calls /\ g \in Groups
    BY <1>3, ActorHasJob DEF CheckRate, Actors
  <2>2. Check(j) /\ now' = now
    BY <1>3 DEF CheckRate
  <2>3. slowest' \in 0..MaxNow
    <3>1. asked[j] \in 0..MaxNow /\ slowest' = Max({slowest, now - asked[j]})
      BY <2>1, <2>2 DEF Check
    <3>2. slowest \in Int /\ now - asked[j] \in Int /\ now - asked[j] <= MaxNow
      BY <3>1 DEF AdmissionAssumption
    <3>3. slowest' \in {slowest, now - asked[j]} /\ slowest' >= slowest
      BY <3>1, <3>2, MaxOfTwo
    <3>4. slowest \in 0..MaxNow
      OBVIOUS
    <3> HIDE DEF j
    <3> QED
      BY <3>2, <3>3, <3>4 DEF AdmissionAssumption
  <2>4. globalKey' \in [Windows -> Keys]
    <3>1. w \in Windows => Incr(globalKey[w]) \in Keys /\ AfterGroupLimit(globalKey[w]) \in Keys
      BY KeysCount
    <3>2. \/ globalKey' = globalKey
          \/ globalKey' = [globalKey EXCEPT ![w] = AfterGroupLimit(@)]
          \/ globalKey' = [globalKey EXCEPT ![w] = Incr(@)]
      BY <2>2 DEF Check
    <3> QED
      BY <3>1, <3>2
  <2>5. groupKey' \in [Groups -> [Windows -> Keys]]
    <3>1. w \in Windows => Incr(groupKey[g][w]) \in Keys
      BY <2>1, KeysCount
    <3>2. groupKey' = groupKey \/ groupKey' = [groupKey EXCEPT ![g][w] = Incr(@)]
      BY <2>2 DEF Check
    <3>3. groupKey[g] \in [Windows -> Keys]
      BY <2>1
    <3> DEFINE counted == [groupKey[g] EXCEPT ![w] = Incr(@)]
    <3>4. counted \in [Windows -> Keys]
      BY <3>1, <3>3
    <3>5. groupKey' = groupKey \/ groupKey' = [groupKey EXCEPT ![g] = counted]
      BY <3>2
    <3> HIDE DEF counted, g, w, j
    <3> QED
      BY <2>1, <3>4, <3>5
  <2>6. activeGroups' \subseteq Groups
    BY <2>1, <2>2 DEF Check
  <2>7. verdict' \in [Calls -> {"new", "asked", "allowed", "limited"}]
    <3>1. PICK v \in {"allowed", "limited"} : verdict' = [verdict EXCEPT ![j] = v]
      BY <2>2 DEF Check
    <3> HIDE DEF j
    <3> QED
      BY <3>1
  <2>8. asked' = asked
    BY <2>2 DEF Check
  <2> QED
    BY <2>2, <2>3, <2>4, <2>5, <2>6, <2>7, <2>8
<1>4. CASE Tick
  BY <1>4 DEF Tick, limiterVars, AdmissionAssumption
<1>5. ASSUME NEW f \in Fetchers, Push(f) PROVE LimiterTypeOK'
  BY <1>1, <1>5 DEF Push
<1>6. ASSUME NEW a \in Actors, AddCounted(a) \/ AddUnanswered(a) \/ AddRefused(a) \/ AddFixed(a)
      PROVE  LimiterTypeOK'
  BY <1>1, <1>6 DEF AddCounted, AddUnanswered, AddRefused, AddFixed
<1>7. ASSUME NEW w \in Workers, Take(w) \/ Fail(w) \/ Finish(w) \/ ResetStats(w)
      PROVE  LimiterTypeOK'
  BY <1>1, <1>7 DEF Take, Fail, Finish, ResetStats
<1>8. ASSUME NEW j \in Jobs, Dispatch(j) PROVE LimiterTypeOK'
  BY <1>1, <1>8 DEF Dispatch
<1>9. CASE UNCHANGED vars
  BY <1>1, <1>9 DEF vars
<1> HIDE DEF TypeOK, LimiterTypeOK
<1> QED
  BY <1>2, <1>3, <1>4, <1>5, <1>6, <1>7, <1>8, <1>9 DEF Next

\* A counter that a move has decremented stays a natural number, in both places.
LEMMA CounterFloor ==
  ASSUME TypeOK, NEW g \in Groups
  PROVE  CountAfterMove(g) \in Nat /\ ShownAfterMove(g) = CountAfterMove(g)
<1>1. count[g] \in Nat
  BY DEF TypeOK, QueuesTypeOK
<1>2. count[g] - 1 \in Int /\ 0 \in Int
  BY <1>1
<1>3. Max({0, count[g] - 1}) \in {0, count[g] - 1} /\ Max({0, count[g] - 1}) >= 0
  BY <1>2, MaxOfTwo
<1> QED
  BY <1>2, <1>3 DEF CountAfterMove, ShownAfterMove

\* The script that puts a job aside.
LEMMA BackoffKeepsType ==
  ASSUME AdmissionAssumption, TypeOK, NEW j \in Jobs, CongestionBackoff(j)
  PROVE  QueuesTypeOK'
<1>1. CallGroup[j] \in Groups
  BY DEF AdmissionAssumption
<1>2. count[CallGroup[j]] + 1 \in Nat
  BY <1>1 DEF TypeOK, QueuesTypeOK
<1> QED
  BY <1>1, <1>2 DEF CongestionBackoff, TypeOK, QueuesTypeOK, ZAdd

LEMMA QueuesKeepType ==
  ASSUME AdmissionAssumption, TypeOK, [Next]_vars
  PROVE  QueuesTypeOK'
<1> USE DEF TypeOK, QueuesTypeOK
<1>1. CASE UNCHANGED queueVars
  BY <1>1 DEF queueVars
<1>2. ASSUME NEW f \in Fetchers, NEW j \in Jobs, Fetch(f, j) PROVE QueuesTypeOK'
  BY <1>1, <1>2 DEF Fetch
<1>3. ASSUME NEW f \in Fetchers, CheckRate(f) PROVE QueuesTypeOK'
  BY <1>1, <1>3 DEF CheckRate
<1>4. ASSUME NEW f \in Fetchers, Push(f) PROVE QueuesTypeOK'
  BY <1>4, ActorHasJob, AppendProperties DEF Push, Actors
<1>5. ASSUME NEW a \in Actors, AddCounted(a) \/ AddUnanswered(a) PROVE QueuesTypeOK'
  BY <1>5, ActorHasJob, BackoffKeepsType DEF AddCounted, AddUnanswered
<1>6. ASSUME NEW a \in Actors, AddRefused(a) PROVE QueuesTypeOK'
  BY <1>1, <1>6 DEF AddRefused
<1>7. ASSUME NEW a \in Actors, AddFixed(a) PROVE QueuesTypeOK'
  BY <1>7, ActorHasJob DEF AddFixed, ZAdd
<1>8. ASSUME NEW j \in Jobs, Dispatch(j) PROVE QueuesTypeOK'
  <2>1. CallGroup[j] \in Groups
    BY DEF AdmissionAssumption
  <2>2. ready' \in Seq(Jobs)
    BY <1>8, AppendProperties DEF Dispatch
  <2>3. DOMAIN nonReady' \subseteq Jobs
    BY <1>8 DEF Dispatch, Remaining, ZRem, Restrict
  <2>4. count' \in [Groups -> Nat] /\ shown' \in [Groups -> Nat]
    BY <1>8, <2>1, CounterFloor DEF Dispatch
  <2> QED
    BY <2>2, <2>3, <2>4
<1>9. ASSUME NEW w \in Workers, Take(w) PROVE QueuesTypeOK'
  BY <1>9, HeadTailProperties DEF Take
<1>10. ASSUME NEW w \in Workers, Fail(w) \/ Finish(w) PROVE QueuesTypeOK'
  BY <1>1, <1>10 DEF Fail, Finish
<1>11. ASSUME NEW w \in Workers, ResetStats(w) PROVE QueuesTypeOK'
  BY <1>11 DEF ResetStats
<1>12. CASE Tick
  BY <1>1, <1>12 DEF Tick
<1> QED
  BY <1>1, <1>2, <1>3, <1>4, <1>5, <1>6, <1>7, <1>8, <1>9, <1>10, <1>11, <1>12 DEF Next, vars

LEMMA ActorsKeepType ==
  ASSUME AdmissionAssumption, TypeOK, [Next]_vars
  PROVE  ActorsTypeOK'
<1> USE DEF TypeOK, ActorsTypeOK, Goto, Actors
<1>1. CASE UNCHANGED <<retries, ended, pc, has, lost>>
  BY <1>1
<1>2. ASSUME NEW f \in Fetchers, NEW j \in Jobs, Fetch(f, j) PROVE ActorsTypeOK'
  BY <1>2 DEF Fetch
<1>3. ASSUME NEW f \in Fetchers, CheckRate(f) PROVE ActorsTypeOK'
  BY <1>3, ActorHasJob DEF CheckRate
<1>4. ASSUME NEW f \in Fetchers, Push(f) PROVE ActorsTypeOK'
  BY <1>4 DEF Push, AdmissionAssumption
<1>5. ASSUME NEW a \in Actors, AddCounted(a) \/ AddRefused(a) \/ AddFixed(a) PROVE ActorsTypeOK'
  BY <1>5, ActorHasJob DEF AddCounted, AddRefused, AddFixed, AdmissionAssumption
<1>6. ASSUME NEW a \in Actors, AddUnanswered(a) PROVE ActorsTypeOK'
  <2>1. has[a] \in Jobs
    BY <1>6, ActorHasJob DEF AddUnanswered
  <2>2. lost[has[a]] + 1 \in Nat
    BY <2>1
  <2> QED
    BY <1>6, <2>1, <2>2 DEF AddUnanswered
<1>7. ASSUME NEW w \in Workers, Take(w) PROVE ActorsTypeOK'
  BY <1>7, HeadTailProperties DEF Take, QueuesTypeOK
<1>8. ASSUME NEW w \in Workers, Fail(w) PROVE ActorsTypeOK'
  <2>1. has[w] \in Jobs
    BY <1>8, ActorHasJob DEF Fail
  <2>2. retries[has[w]] + 1 \in 0..MaxRetry
    BY <1>8, <2>1 DEF Fail, AdmissionAssumption
  <2> QED
    BY <1>8, <2>1, <2>2 DEF Fail
<1>9. ASSUME NEW w \in Workers, Finish(w) PROVE ActorsTypeOK'
  <2>1. has[w] \in Jobs
    BY <1>9, ActorHasJob DEF Finish
  <2>2. ended[has[w]] + 1 \in Nat
    BY <2>1
  <2> QED
    BY <1>9, <2>1, <2>2 DEF Finish, AdmissionAssumption
<1>10. ASSUME NEW w \in Workers, ResetStats(w) PROVE ActorsTypeOK'
  BY <1>10 DEF ResetStats, AdmissionAssumption
<1>11. ASSUME NEW j \in Jobs, Dispatch(j) PROVE ActorsTypeOK'
  BY <1>1, <1>11 DEF Dispatch
<1>12. CASE Tick
  BY <1>1, <1>12 DEF Tick
<1> QED
  BY <1>1, <1>2, <1>3, <1>4, <1>5, <1>6, <1>7, <1>8, <1>9, <1>10, <1>11, <1>12 DEF Next, vars

\* The keys of the limiter, the queues and the variables of fetchers and workers
\* have their types in every reachable state.
THEOREM TypeCorrect == AdmissionAssumption => (Spec => []TypeOK)
<1> SUFFICES ASSUME AdmissionAssumption PROVE Spec => []TypeOK
  OBVIOUS
<1>1. Init => TypeOK
  BY InitTypeOK
<1>2. TypeOK /\ [Next]_vars => TypeOK'
  BY LimiterKeepsType, QueuesKeepType, ActorsKeepType DEF TypeOK
<1> QED
  BY <1>1, <1>2, PTL DEF Spec

LEMMA InitStatsAgree == Init => StatsAgree
  BY DEF Init, StatsAgree

\* Every script and every call that writes one of the two counts writes the
\* other with the same value, or neither.
LEMMA StatsStayEqual ==
  ASSUME AdmissionAssumption, TypeOK, StatsAgree, [Next]_vars
  PROVE  StatsAgree'
<1> USE DEF StatsAgree
<1>1. CASE UNCHANGED <<count, shown>>
  BY <1>1
<1>2. ASSUME NEW j \in Jobs, CongestionBackoff(j) PROVE StatsAgree'
  BY <1>2 DEF CongestionBackoff, TypeOK, QueuesTypeOK
<1>3. ASSUME NEW f \in Fetchers, NEW j \in Jobs, Fetch(f, j) PROVE StatsAgree'
  BY <1>1, <1>3 DEF Fetch, queueVars
<1>4. ASSUME NEW f \in Fetchers, CheckRate(f) \/ Push(f)
      PROVE  StatsAgree'
  BY <1>1, <1>4 DEF CheckRate, Push, queueVars
<1>5. ASSUME NEW a \in Actors, AddCounted(a) \/ AddUnanswered(a) PROVE StatsAgree'
  BY <1>2, <1>5, ActorHasJob DEF AddCounted, AddUnanswered
<1>6. ASSUME NEW a \in Actors, AddRefused(a) \/ AddFixed(a) PROVE StatsAgree'
  BY <1>1, <1>6 DEF AddRefused, AddFixed, queueVars
<1>7. ASSUME NEW j \in Jobs, Dispatch(j) PROVE StatsAgree'
  BY <1>7, CounterFloor DEF Dispatch, TypeOK, QueuesTypeOK, AdmissionAssumption
<1>8. ASSUME NEW w \in Workers, Take(w) \/ Fail(w) \/ Finish(w) PROVE StatsAgree'
  BY <1>1, <1>8 DEF Take, Fail, Finish, queueVars
<1>9. ASSUME NEW w \in Workers, ResetStats(w) PROVE StatsAgree'
  BY <1>9 DEF ResetStats, TypeOK, QueuesTypeOK
<1>10. CASE Tick
  BY <1>1, <1>10 DEF Tick, queueVars
<1> QED
  BY <1>1, <1>3, <1>4, <1>5, <1>6, <1>7, <1>8, <1>9, <1>10 DEF Next, vars, queueVars

\* The statistics that getCongestionState reads show the counter that the
\* backoffs are computed from, whatever the order of scripts, fallbacks, moves
\* and resets.
THEOREM StatsShowCounter == AdmissionAssumption => (Spec => []StatsAgree)
<1> SUFFICES ASSUME AdmissionAssumption PROVE Spec => []StatsAgree
  OBVIOUS
<1>1. Init => StatsAgree
  BY InitStatsAgree
<1>2. TypeOK /\ StatsAgree /\ [Next]_vars => StatsAgree'
  BY StatsStayEqual
<1> QED
  BY <1>1, <1>2, TypeCorrect, PTL DEF Spec

-----------------------------------------------------------------------------
(* The rate limiter *)

\* What a step can do to the rate limiter: nothing but to let time pass, to fix
\* the window of a call, or to run the script for a call.
LEMMA LimiterSteps ==
  ASSUME AdmissionAssumption, TypeOK, [Next]_vars
  PROVE  \/ UNCHANGED limiterVars /\ now' >= now
         \/ \E c \in Jobs : Ask(c) /\ now' = now
         \/ \E c \in Jobs : Check(c) /\ now' = now
<1> DEFINE Claim == \/ UNCHANGED limiterVars /\ now' >= now
                    \/ \E c \in Jobs : Ask(c) /\ now' = now
                    \/ \E c \in Jobs : Check(c) /\ now' = now
<1> SUFFICES Claim
  OBVIOUS
<1>1. CASE UNCHANGED <<now, limiterVars>>
  BY <1>1 DEF TypeOK, LimiterTypeOK, AdmissionAssumption
<1>2. ASSUME NEW f \in Fetchers, NEW j \in Jobs, Fetch(f, j) PROVE Claim
  BY <1>2 DEF Fetch
<1>3. ASSUME NEW f \in Fetchers, CheckRate(f) PROVE Claim
  BY <1>3, ActorHasJob DEF CheckRate, Actors
<1>4. CASE Tick
  BY <1>4 DEF Tick, TypeOK, LimiterTypeOK, AdmissionAssumption
<1>5. ASSUME NEW f \in Fetchers, Push(f) PROVE Claim
  BY <1>1, <1>5 DEF Push
<1>6. ASSUME NEW a \in Actors, AddCounted(a) \/ AddUnanswered(a) \/ AddRefused(a) \/ AddFixed(a)
      PROVE  Claim
  BY <1>1, <1>6 DEF AddCounted, AddUnanswered, AddRefused, AddFixed
<1>7. ASSUME NEW w \in Workers, Take(w) \/ Fail(w) \/ Finish(w) \/ ResetStats(w) PROVE Claim
  BY <1>1, <1>7 DEF Take, Fail, Finish, ResetStats
<1>8. ASSUME NEW j \in Jobs, Dispatch(j) PROVE Claim
  BY <1>1, <1>8 DEF Dispatch
<1>9. CASE UNCHANGED vars
  BY <1>1, <1>9 DEF vars
<1> HIDE DEF Claim
<1> QED
  BY <1>2, <1>3, <1>4, <1>5, <1>6, <1>7, <1>8, <1>9 DEF Next

\* A time lies in its window.
LEMMA WindowBounds ==
  ASSUME AdmissionAssumption, NEW t \in Nat
  PROVE  /\ WindowOf(t) \in Nat
         /\ WindowOf(t) * Window <= t /\ t < WindowOf(t) * Window + Window
<1>1. t \div Window \in Int /\ t % Window \in 0..(Window - 1)
  BY DEF AdmissionAssumption
<1>2. t = Window * (t \div Window) + (t % Window)
  BY DEF AdmissionAssumption
<1> QED
  BY <1>1, <1>2 DEF WindowOf, AdmissionAssumption

\* The clock was read before the script runs.
ReadInPast == \A c \in Jobs : asked[c] <= now

\* A counter that is not zero outlives its window by what a key outlives the
\* moment of its creation, whichever call has created it.
KeysOutliveWindow ==
  \A w \in Windows : globalKey[w].count > 0 => globalKey[w].expires >= w * Window + Ttl

\* What is counted above the limit is taken back in the same script.
GlobalWithinLimit == \A w \in Windows : globalKey[w].count <= GlobalRps

\* No call that was let in has been forgotten, while no call was late.
AllowedAreCounted ==
  Timely => \A w \in Windows : Cardinality(AllowedIn(w)) <= globalKey[w].count

RateInv == ReadInPast /\ KeysOutliveWindow /\ GlobalWithinLimit /\ AllowedAreCounted

LEMMA InitRateInv == AdmissionAssumption /\ Init => RateInv
<1> SUFFICES ASSUME AdmissionAssumption, Init PROVE RateInv
  OBVIOUS
<1>1. \A w \in Windows : globalKey[w] = [count |-> 0, expires |-> 0]
  BY DEF Init, LimiterInit, NoKey
<1>2. ReadInPast
  BY DEF Init, LimiterInit, ReadInPast, AdmissionAssumption
<1>3. KeysOutliveWindow /\ GlobalWithinLimit
  BY <1>1 DEF KeysOutliveWindow, GlobalWithinLimit, AdmissionAssumption
<1>4. \A w \in Windows : AllowedIn(w) = {}
  BY DEF Init, LimiterInit, AllowedIn
<1>5. AllowedAreCounted
  BY <1>1, <1>4, FS_EmptySet DEF AllowedAreCounted
<1> QED
  BY <1>2, <1>3, <1>5 DEF RateInv

\* What INCR, and INCR with DECR, make of a counter: it goes on, or it starts
\* anew because it was at zero or has expired.
LEMMA KeysAfterScript ==
  ASSUME AdmissionAssumption, now \in Nat, NEW key \in Keys
  PROVE  /\ \/ /\ Incr(key).count = key.count + 1 /\ Incr(key).expires = key.expires
               /\ key.count > 0
            \/ /\ Incr(key).count = 1 /\ Incr(key).expires = now + Ttl
               /\ key.count = 0 \/ ~Alive(key)
         /\ AfterGroupLimit(key).count = Incr(key).count - 1
         /\ AfterGroupLimit(key).expires = Incr(key).expires
<1>1. key = [count |-> key.count, expires |-> key.expires] /\ key.count \in Nat /\ key.expires \in Nat
  BY DEF Keys
<1>2. CASE Value(key) = 0
  <2>1. Incr(key) = [count |-> 1, expires |-> now + Ttl]
    BY <1>2 DEF Incr, Expiry
  <2>2. key.count = 0 \/ ~Alive(key)
    BY <1>2 DEF Value
  <2> QED
    BY <2>1, <2>2 DEF AfterGroupLimit, Decr
<1>3. CASE Value(key) # 0
  <2>1. key.count > 0
    BY <1>1, <1>3 DEF Value
  <2>2. Incr(key) = [count |-> key.count + 1, expires |-> key.expires]
    BY <1>1, <1>3 DEF Incr
  <2> QED
    BY <1>1, <2>1, <2>2 DEF AfterGroupLimit, Decr
<1> QED
  BY <1>2, <1>3

\* The calls that a step lets in.
LEMMA AllowedGrow ==
  ASSUME AdmissionAssumption, TypeOK, NEW w \in Windows
  PROVE  /\ UNCHANGED limiterVars => AllowedIn(w)' = AllowedIn(w)
         /\ \A c \in Jobs : Ask(c) => AllowedIn(w)' = AllowedIn(w)
         /\ \A c \in Jobs : Check(c) /\ ~(verdict'[c] = "allowed" /\ WindowOf(asked[c]) = w)
              => AllowedIn(w)' = AllowedIn(w)
         /\ \A c \in Jobs : Check(c) /\ verdict'[c] = "allowed" /\ WindowOf(asked[c]) = w
              => AllowedIn(w)' = AllowedIn(w) \cup {c} /\ c \notin AllowedIn(w)
<1> USE DEF TypeOK, LimiterTypeOK, AdmissionAssumption
<1>1. UNCHANGED limiterVars => AllowedIn(w)' = AllowedIn(w)
  BY DEF limiterVars, AllowedIn
<1>2. ASSUME NEW c \in Jobs, Ask(c) PROVE AllowedIn(w)' = AllowedIn(w)
  BY <1>2 DEF Ask, AllowedIn
<1>3. ASSUME NEW c \in Jobs, Check(c)
      PROVE  /\ ~(verdict'[c] = "allowed" /\ WindowOf(asked[c]) = w) => AllowedIn(w)' = AllowedIn(w)
             /\ verdict'[c] = "allowed" /\ WindowOf(asked[c]) = w
                  => AllowedIn(w)' = AllowedIn(w) \cup {c} /\ c \notin AllowedIn(w)
  <2>1. verdict[c] = "asked" /\ asked' = asked
    BY <1>3 DEF Check
  <2>2. \A i \in Jobs \ {c} : verdict'[i] = verdict[i]
    BY <1>3 DEF Check
  <2>3. AllowedIn(w)' = {i \in Jobs : verdict'[i] = "allowed" /\ asked[i] \div Window = w}
    BY <2>1 DEF AllowedIn
  <2>4. AllowedIn(w) = {i \in Jobs : verdict[i] = "allowed" /\ asked[i] \div Window = w}
    BY DEF AllowedIn
  <2> QED
    BY <2>1, <2>2, <2>3, <2>4 DEF WindowOf
<1> QED
  BY <1>1, <1>2, <1>3

\* The script keeps the keys, and lets no call in that it does not count.
LEMMA CheckKeepsRate ==
  ASSUME AdmissionAssumption, TypeOK, RateInv, NEW c \in Jobs, Check(c), now' = now
  PROVE  RateInv'
<1> DEFINE v == WindowOf(asked[c])
           key == globalKey[v]
<1>1. now \in Nat /\ asked[c] \in Nat /\ slowest \in Nat /\ asked[c] <= now
  BY DEF TypeOK, LimiterTypeOK, AdmissionAssumption, RateInv, ReadInPast
<1>2. v \in Nat /\ v * Window <= asked[c] /\ asked[c] < v * Window + Window
  BY <1>1, WindowBounds
<1>3. \A w \in Windows : w # v => globalKey'[w] = globalKey[w]
  BY DEF Check, TypeOK, LimiterTypeOK
<1>4. ASSUME v \in Windows
      PROVE  \/ verdict'[c] = "limited" /\ globalKey'[v] \in {key, AfterGroupLimit(key)}
             \/ /\ verdict'[c] = "allowed" /\ globalKey'[v] = Incr(key)
                /\ Incr(key).count <= GlobalRps
  <2>1. key \in Keys /\ verdict[c] = "asked"
    BY <1>4 DEF TypeOK, LimiterTypeOK, Check
  <2>2. Incr(key).count \in Nat
    BY <1>1, <2>1, KeysCount DEF Keys
  <2>3. Incr(key).count > GlobalRps \/ Incr(key).count <= GlobalRps
    BY <2>2 DEF AdmissionAssumption
  <2> HIDE DEF key, v
  <2> QED
    BY <1>4, <2>3 DEF Check, TypeOK, LimiterTypeOK, AdmissionAssumption, v, key
<1> DEFINE start == v * Window
<1>5. start \in Nat /\ start <= now /\ asked[c] < start + Window
      /\ Ttl \in Nat /\ Window \in Nat /\ GlobalRps \in Nat
  BY <1>1, <1>2 DEF AdmissionAssumption
<1>6. ASSUME v \in Windows
      PROVE  /\ key.count \in Nat /\ key.expires \in Nat /\ key.count <= GlobalRps
             /\ key.count > 0 => key.expires >= start + Ttl
             /\ key.count > 0 /\ ~Alive(key) => now >= key.expires
  BY <1>1, <1>6 DEF TypeOK, LimiterTypeOK, Keys, RateInv, KeysOutliveWindow, GlobalWithinLimit,
    Alive
<1>7. ASSUME v \in Windows
      PROVE  /\ \/ /\ Incr(key).count = key.count + 1 /\ Incr(key).expires = key.expires
                   /\ key.count > 0
                \/ /\ Incr(key).count = 1 /\ Incr(key).expires = now + Ttl
                   /\ key.count = 0 \/ ~Alive(key)
             /\ AfterGroupLimit(key).count = Incr(key).count - 1
             /\ AfterGroupLimit(key).expires = Incr(key).expires
  BY <1>1, <1>7, KeysAfterScript DEF TypeOK, LimiterTypeOK
<1>8. v \in Windows => /\ globalKey'[v].count > 0 => globalKey'[v].expires >= start + Ttl
                      /\ globalKey'[v].count <= GlobalRps
  <2> HIDE DEF key, start, v
  <2> QED
    BY <1>1, <1>4, <1>5, <1>6, <1>7 DEF key
<1>9. ReadInPast' /\ KeysOutliveWindow' /\ GlobalWithinLimit'
  <2>1. ReadInPast'
    BY DEF Check, RateInv, ReadInPast
  <2>2. KeysOutliveWindow' /\ GlobalWithinLimit'
    BY <1>3, <1>8 DEF RateInv, KeysOutliveWindow, GlobalWithinLimit
  <2> QED
    BY <2>1, <2>2
<1>10. AllowedAreCounted'
  <2> SUFFICES ASSUME Timely', NEW w \in Windows
               PROVE  Cardinality(AllowedIn(w))' <= globalKey'[w].count
    BY DEF AllowedAreCounted
  <2>1. slowest' >= slowest /\ slowest' >= now - asked[c] /\ slowest' \in Int
    <3>1. slowest' = Max({slowest, now - asked[c]})
      BY DEF Check
    <3>2. slowest \in Int /\ now - asked[c] \in Int
      BY <1>1
    <3>3. slowest' \in {slowest, now - asked[c]} /\ slowest' >= slowest /\ slowest' >= now - asked[c]
      BY <3>1, <3>2, MaxOfTwo
    <3> QED
      BY <3>2, <3>3
  <2>2. Timely /\ now < start + Ttl
    BY <1>1, <1>5, <2>1 DEF Timely
  <2>3. Cardinality(AllowedIn(w)) <= globalKey[w].count
    BY <2>2 DEF RateInv, AllowedAreCounted
  <2>4. IsFiniteSet(AllowedIn(w)) /\ Cardinality(AllowedIn(w)) \in Nat
    BY FS_Subset, FS_CardinalityType DEF AllowedIn, AdmissionAssumption
  <2>5. CASE w # v
    BY <1>3, <2>3, <2>5, AllowedGrow
  <2>6. CASE w = v
    <3>1. Incr(key).count = key.count + 1 /\ key.count \in Nat
      <4> HIDE DEF key, start, v
      <4> QED
        BY <1>1, <1>5, <1>6, <1>7, <2>2, <2>6
    <3>2. CASE verdict'[c] = "allowed"
      <4>1. Cardinality(AllowedIn(w))' = Cardinality(AllowedIn(w)) + 1
        BY <2>4, <2>6, <3>2, AllowedGrow, FS_AddElement
      <4>2. globalKey'[v] = Incr(key)
        BY <1>4, <2>6, <3>2
      <4> QED
        BY <2>3, <2>4, <2>6, <3>1, <4>1, <4>2
    <3>3. CASE verdict'[c] # "allowed"
      <4>1. AllowedIn(w)' = AllowedIn(w)
        BY <3>3, AllowedGrow
      <4>2. globalKey'[v] \in {key, AfterGroupLimit(key)}
        BY <1>4, <2>6, <3>3
      <4> QED
        BY <1>7, <2>3, <2>4, <2>6, <3>1, <4>1, <4>2
    <3> QED
      BY <3>2, <3>3
  <2> QED
    BY <2>5, <2>6
<1> QED
  BY <1>9, <1>10 DEF RateInv

LEMMA RateInvStep ==
  ASSUME AdmissionAssumption, TypeOK, RateInv, [Next]_vars
  PROVE  RateInv'
<1>1. CASE UNCHANGED limiterVars /\ now' >= now
  <2>1. \A w \in Windows : AllowedIn(w)' = AllowedIn(w)
    BY <1>1, AllowedGrow
  <2>2. UNCHANGED <<globalKey, asked, slowest>>
    BY <1>1 DEF limiterVars
  <2>3. ReadInPast'
    <3>1. now \in Nat /\ now' \in Nat /\ \A c \in Jobs : asked[c] \in Nat
      BY LimiterKeepsType DEF TypeOK, LimiterTypeOK, AdmissionAssumption
    <3> QED
      BY <1>1, <2>2, <3>1 DEF RateInv, ReadInPast
  <2>4. KeysOutliveWindow' /\ GlobalWithinLimit' /\ AllowedAreCounted'
    BY <2>1, <2>2 DEF RateInv, KeysOutliveWindow, GlobalWithinLimit, AllowedAreCounted, Timely
  <2> QED
    BY <2>3, <2>4 DEF RateInv
<1>2. ASSUME NEW c \in Jobs, Ask(c), now' = now PROVE RateInv'
  <2>1. \A w \in Windows : AllowedIn(w)' = AllowedIn(w)
    BY <1>2, AllowedGrow
  <2>2. ReadInPast'
    BY <1>2 DEF Ask, RateInv, ReadInPast, TypeOK, LimiterTypeOK, AdmissionAssumption
  <2>3. KeysOutliveWindow' /\ GlobalWithinLimit' /\ AllowedAreCounted'
    BY <1>2, <2>1
    DEF Ask, RateInv, KeysOutliveWindow, GlobalWithinLimit, AllowedAreCounted, Timely
  <2> QED
    BY <2>2, <2>3 DEF RateInv
<1> QED
  BY <1>1, <1>2, LimiterSteps, CheckKeepsRate

\* No more calls are allowed in a window than the global rate, as long as no
\* script runs later than the keys outlive their window: neither an expiry, nor
\* the order of the scripts, nor the roll-back of a refused call lets one more in.
THEOREM RateIsKept == AdmissionAssumption => (Spec => []RateKept)
<1> SUFFICES ASSUME AdmissionAssumption PROVE Spec => []RateKept
  OBVIOUS
<1>1. Init => RateInv
  BY InitRateInv
<1>2. TypeOK /\ RateInv /\ [Next]_vars => RateInv'
  BY RateInvStep
<1>3. TypeOK /\ RateInv => RateKept
  <2> SUFFICES ASSUME TypeOK, RateInv, Timely, NEW w \in Windows
               PROVE  Cardinality(AllowedIn(w)) <= GlobalRps
    BY DEF RateKept
  <2>1. Cardinality(AllowedIn(w)) <= globalKey[w].count /\ globalKey[w].count <= GlobalRps
    BY DEF RateInv, AllowedAreCounted, GlobalWithinLimit
  <2>2. Cardinality(AllowedIn(w)) \in Nat
    BY FS_Subset, FS_CardinalityType DEF AllowedIn, AdmissionAssumption
  <2>3. globalKey[w].count \in Nat /\ GlobalRps \in Nat
    BY DEF TypeOK, LimiterTypeOK, Keys, AdmissionAssumption
  <2> QED
    BY <2>1, <2>2, <2>3
<1> QED
  BY <1>1, <1>2, <1>3, TypeCorrect, PTL DEF Spec

\* A time that is not after another one is in no later window.
LEMMA WindowsInOrder ==
  ASSUME AdmissionAssumption, NEW s \in Nat, NEW t \in Nat, s <= t
  PROVE  WindowOf(s) <= WindowOf(t)
<1> DEFINE a == WindowOf(s)
           b == WindowOf(t)
<1>1. a \in Nat /\ b \in Nat /\ a * Window <= s /\ t < b * Window + Window
  BY WindowBounds
<1>2. Window \in Nat
  BY DEF AdmissionAssumption
<1> HIDE DEF a, b
<1>3. a * Window < (b + 1) * Window
  BY <1>1, <1>2
<1>4. a < b + 1
  <2> SUFFICES ASSUME a >= b + 1 PROVE FALSE
    BY <1>1
  <2>1. a * Window >= (b + 1) * Window
    BY <1>1, <1>2
  <2> QED
    BY <1>1, <1>2, <1>3, <2>1
<1> QED
  BY <1>1, <1>4 DEF a, b

\* getStatus shows no more calls than the limit in the current window, also for
\* keys that have expired and whatever the calls that are on their way.
THEOREM StatusIsBounded == AdmissionAssumption => (Spec => []StatusWithinLimit)
<1> SUFFICES ASSUME AdmissionAssumption PROVE Spec => []StatusWithinLimit
  OBVIOUS
<1>1. Init => RateInv
  BY InitRateInv
<1>2. TypeOK /\ RateInv /\ [Next]_vars => RateInv'
  BY RateInvStep
<1>3. TypeOK /\ RateInv => StatusWithinLimit
  <2> SUFFICES ASSUME TypeOK, RateInv
               PROVE  Value(globalKey[WindowOf(now)]) <= GlobalRps
    BY DEF StatusWithinLimit, Status
  <2>1. WindowOf(now) \in Windows
    <3>1. now \in Nat /\ MaxNow \in Nat /\ now <= MaxNow
      BY DEF TypeOK, LimiterTypeOK, AdmissionAssumption
    <3> QED
      BY <3>1, WindowsInOrder, WindowBounds DEF WindowOf, Windows
  <2>2. globalKey[WindowOf(now)].count <= GlobalRps
    BY <2>1 DEF RateInv, GlobalWithinLimit
  <2> QED
    BY <2>2 DEF Value, AdmissionAssumption
<1> QED
  BY <1>1, <1>2, <1>3, TypeCorrect, PTL DEF Spec

\* A group's counter, too, outlives its window when it is not zero.
GroupKeysOutlive ==
  \A g \in Groups, w \in Windows :
    groupKey[g][w].count > 0 => groupKey[g][w].expires >= w * Window + Ttl

\* No key lives longer than one that is created now.
ExpiryInReach == \A w \in Windows : globalKey[w].expires <= now + Ttl

GroupCounts(w) == [g \in Groups |-> groupKey[g][w].count]

\* The counters add up whether they have expired or not, and a group's counter
\* does not expire before the global one.
CountersSum ==
  Timely => \A w \in Windows :
    /\ globalKey[w].count = SumFunctionOnSet(GroupCounts(w), Groups)
    /\ \A g \in Groups :
         groupKey[g][w].count > 0 => groupKey[g][w].expires >= globalKey[w].expires

CountInv == GroupKeysOutlive /\ ExpiryInReach /\ CountersSum

LEMMA InitCountInv == AdmissionAssumption /\ Init => CountInv
<1> SUFFICES ASSUME AdmissionAssumption, Init PROVE CountInv
  OBVIOUS
<1>1. now = 0 /\ \A w \in Windows : globalKey[w] = [count |-> 0, expires |-> 0]
  BY DEF Init, LimiterInit, NoKey
<1>2. \A g \in Groups, w \in Windows : groupKey[g][w] = [count |-> 0, expires |-> 0]
  BY DEF Init, LimiterInit, NoKey
<1>3. GroupKeysOutlive /\ ExpiryInReach
  BY <1>1, <1>2 DEF GroupKeysOutlive, ExpiryInReach, AdmissionAssumption
<1>4. \A w \in Windows : SumFunctionOnSet(GroupCounts(w), Groups) = 0
  <2> SUFFICES ASSUME NEW w \in Windows PROVE SumFunctionOnSet(GroupCounts(w), Groups) = 0
    OBVIOUS
  <2>1. IsFiniteSet(Groups) /\ \A g \in Groups : GroupCounts(w)[g] = 0
    BY <1>2 DEF GroupCounts, AdmissionAssumption
  <2> QED
    BY <2>1, SumZero
<1>5. CountersSum
  BY <1>1, <1>2, <1>4 DEF CountersSum
<1> QED
  BY <1>3, <1>5 DEF CountInv

\* The two counters of a call: INCR of both, INCR and DECR of the global one, or
\* nothing; and while no call is late, a counter that is not zero is alive.
LEMMA CheckEffects ==
  ASSUME AdmissionAssumption, TypeOK, RateInv, CountInv, NEW c \in Jobs, Check(c), now' = now,
         NEW v, v = WindowOf(asked[c]), NEW g, g = CallGroup[c]
  PROVE  /\ \A w \in Windows \ {v} : /\ globalKey'[w] = globalKey[w]
                                     /\ \A h \in Groups : groupKey'[h][w] = groupKey[h][w]
         /\ v \in Windows => \A h \in Groups \ {g} : groupKey'[h][v] = groupKey[h][v]
         /\ v \in Windows =>
              \/ globalKey'[v] \in {globalKey[v], AfterGroupLimit(globalKey[v])}
                 /\ groupKey'[g][v] = groupKey[g][v]
              \/ globalKey'[v] = Incr(globalKey[v]) /\ groupKey'[g][v] = Incr(groupKey[g][v])
         /\ v * Window \in Nat /\ v * Window <= now
         /\ Timely' => Timely /\ now < v * Window + Ttl
<1>1. now \in Nat /\ asked[c] \in Nat /\ slowest \in Nat /\ asked[c] <= now /\ g \in Groups
      /\ Window \in Nat /\ Ttl \in Nat
  BY DEF TypeOK, LimiterTypeOK, AdmissionAssumption, RateInv, ReadInPast
<1>2. v \in Nat /\ v * Window <= asked[c] /\ asked[c] < v * Window + Window /\ v * Window \in Nat
  BY <1>1, WindowBounds
<1>3. \/ UNCHANGED <<globalKey, groupKey>>
      \/ globalKey' = [globalKey EXCEPT ![v] = AfterGroupLimit(@)] /\ UNCHANGED groupKey
      \/ /\ globalKey' = [globalKey EXCEPT ![v] = Incr(@)]
         /\ groupKey' = [groupKey EXCEPT ![g][v] = Incr(@)]
  BY DEF Check
<1>4. globalKey \in [Windows -> Keys] /\ groupKey \in [Groups -> [Windows -> Keys]]
  BY DEF TypeOK, LimiterTypeOK
<1>5. /\ \A w \in Windows \ {v} : /\ globalKey'[w] = globalKey[w]
                                  /\ \A h \in Groups : groupKey'[h][w] = groupKey[h][w]
      /\ v \in Windows => \A h \in Groups \ {g} : groupKey'[h][v] = groupKey[h][v]
      /\ v \in Windows =>
           \/ globalKey'[v] \in {globalKey[v], AfterGroupLimit(globalKey[v])}
              /\ groupKey'[g][v] = groupKey[g][v]
           \/ globalKey'[v] = Incr(globalKey[v]) /\ groupKey'[g][v] = Incr(groupKey[g][v])
  BY <1>1, <1>3, <1>4
<1>6. Timely' => Timely /\ now < v * Window + Ttl
  <2>1. slowest' = Max({slowest, now - asked[c]})
    BY DEF Check
  <2>2. slowest \in Int /\ now - asked[c] \in Int
    BY <1>1
  <2>3. slowest' \in {slowest, now - asked[c]} /\ slowest' >= slowest /\ slowest' >= now - asked[c]
    BY <2>1, <2>2, MaxOfTwo
  <2> DEFINE start == v * Window
  <2>4. start \in Nat /\ asked[c] < start + Window
    BY <1>2
  <2> HIDE DEF start
  <2>5. Timely' => Timely /\ now < start + Ttl
    BY <1>1, <2>2, <2>3, <2>4 DEF Timely
  <2> QED
    BY <2>5 DEF start
<1> QED
  BY <1>1, <1>2, <1>5, <1>6

\* The script adds to the global counter what it adds to the group's.
LEMMA CheckKeepsCounts ==
  ASSUME AdmissionAssumption, TypeOK, RateInv, CountInv, NEW c \in Jobs, Check(c), now' = now
  PROVE  CountInv'
<1> DEFINE v == WindowOf(asked[c])
           g == CallGroup[c]
           start == v * Window
           key == globalKey[v]
           gkey == groupKey[g][v]
<1>1. /\ \A w \in Windows \ {v} : /\ globalKey'[w] = globalKey[w]
                                  /\ \A h \in Groups : groupKey'[h][w] = groupKey[h][w]
      /\ v \in Windows => \A h \in Groups \ {g} : groupKey'[h][v] = groupKey[h][v]
  BY CheckEffects
<1>2. v \in Windows =>
        \/ globalKey'[v] \in {key, AfterGroupLimit(key)} /\ groupKey'[g][v] = gkey
        \/ globalKey'[v] = Incr(key) /\ groupKey'[g][v] = Incr(gkey)
  BY CheckEffects
<1>3. start \in Nat /\ start <= now /\ (Timely' => Timely /\ now < start + Ttl)
  BY CheckEffects
<1>4. now \in Nat /\ Ttl \in Nat /\ g \in Groups
  BY DEF TypeOK, LimiterTypeOK, AdmissionAssumption
<1>5. v \in Windows => /\ key \in Keys /\ key.count \in Nat /\ key.expires \in Nat
                       /\ gkey \in Keys /\ gkey.count \in Nat /\ gkey.expires \in Nat
  BY <1>4 DEF TypeOK, LimiterTypeOK, Keys
<1>6. v \in Windows => /\ key.count > 0 => key.expires >= start + Ttl
                       /\ gkey.count > 0 => gkey.expires >= start + Ttl
                       /\ key.expires <= now + Ttl
  BY <1>4 DEF RateInv, KeysOutliveWindow, CountInv, GroupKeysOutlive, ExpiryInReach
<1> HIDE DEF start, v, g, key, gkey
<1>7. ASSUME NEW k \in Keys
      PROVE  /\ \/ /\ Incr(k).count = k.count + 1 /\ Incr(k).expires = k.expires
                   /\ k.count > 0
                \/ /\ Incr(k).count = 1 /\ Incr(k).expires = now + Ttl
                   /\ k.count = 0 \/ ~Alive(k)
             /\ AfterGroupLimit(k).count = Incr(k).count - 1
             /\ AfterGroupLimit(k).expires = Incr(k).expires
  BY <1>4, KeysAfterScript
<1>8. v \in Windows => /\ groupKey'[g][v].count > 0 => groupKey'[g][v].expires >= start + Ttl
                       /\ globalKey'[v].expires <= now + Ttl
  BY <1>2, <1>3, <1>4, <1>5, <1>6, <1>7
<1>9. GroupKeysOutlive'
  <2> SUFFICES ASSUME NEW h \in Groups, NEW w \in Windows, groupKey'[h][w].count > 0
               PROVE  groupKey'[h][w].expires >= w * Window + Ttl
    BY DEF GroupKeysOutlive
  <2>1. CASE w = v /\ h = g
    BY <1>8, <2>1 DEF start
  <2>2. CASE w # v \/ h # g
    <3>1. groupKey'[h][w] = groupKey[h][w]
      BY <1>1, <2>2
    <3> QED
      BY <3>1 DEF CountInv, GroupKeysOutlive
  <2> QED
    BY <2>1, <2>2
<1>10. ExpiryInReach'
  <2> SUFFICES ASSUME NEW w \in Windows PROVE globalKey'[w].expires <= now + Ttl
    BY DEF ExpiryInReach
  <2>1. CASE w = v
    BY <1>8, <2>1
  <2>2. CASE w # v
    BY <1>1, <2>2 DEF CountInv, ExpiryInReach
  <2> QED
    BY <2>1, <2>2
<1>11. ASSUME Timely', NEW w \in Windows
       PROVE  /\ globalKey'[w].count = SumFunctionOnSet(GroupCounts(w)', Groups)
              /\ \A h \in Groups :
                   groupKey'[h][w].count > 0 => groupKey'[h][w].expires >= globalKey'[w].expires
  <2>1. /\ globalKey[w].count = SumFunctionOnSet(GroupCounts(w), Groups)
        /\ \A h \in Groups :
             groupKey[h][w].count > 0 => groupKey[h][w].expires >= globalKey[w].expires
    BY <1>3, <1>11 DEF CountInv, CountersSum
  <2>2. /\ GroupCounts(w)' = [h \in Groups |-> groupKey'[h][w].count]
        /\ \A h \in Groups : GroupCounts(w)[h] = groupKey[h][w].count /\ groupKey[h][w].count \in Nat
    BY DEF GroupCounts, TypeOK, LimiterTypeOK, Keys
  <2>3. CASE w # v
    <3>1. GroupCounts(w)' = GroupCounts(w)
      BY <1>1, <2>2, <2>3 DEF GroupCounts
    <3> QED
      BY <1>1, <2>1, <2>3, <3>1
  <2>4. CASE w = v
    <3>1. key = globalKey[w] /\ gkey = groupKey[g][w]
      BY <2>4 DEF key, gkey
    <3>2. /\ Incr(key).count = key.count + 1 /\ Incr(gkey).count = gkey.count + 1
          /\ key.count > 0 => Incr(key).expires = key.expires
          /\ key.count = 0 => Incr(key).expires = now + Ttl
          /\ gkey.count > 0 => Incr(gkey).expires = gkey.expires
          /\ gkey.count = 0 => Incr(gkey).expires = now + Ttl
      <4>1. /\ key.count > 0 => Alive(key)
            /\ gkey.count > 0 => Alive(gkey)
        BY <1>3, <1>4, <1>5, <1>6, <1>11, <2>4 DEF Alive
      <4> QED
        BY <1>4, <1>5, <1>7, <2>4, <4>1
    <3>3. key.count = 0 => \A h \in Groups : groupKey[h][w].count = 0
      <4>1. IsFiniteSet(Groups)
        BY DEF AdmissionAssumption
      <4>2. \A h \in Groups : GroupCounts(w)[h] \in Nat
        BY <2>2
      <4>3. \A h \in Groups : GroupCounts(w)[h] <= SumFunctionOnSet(GroupCounts(w), Groups)
        BY <4>1, <4>2, SumNat
      <4> QED
        BY <2>1, <2>2, <3>1, <4>3
    <3>4. CASE globalKey'[v] \in {key, AfterGroupLimit(key)} /\ groupKey'[g][v] = gkey
      <4>1. \A h \in Groups : groupKey'[h][w] = groupKey[h][w]
        BY <1>1, <2>4, <3>1, <3>4
      <4>2. GroupCounts(w)' = GroupCounts(w)
        BY <2>2, <4>1 DEF GroupCounts
      <4>3. globalKey'[w].count = key.count
        BY <1>5, <1>7, <2>4, <3>2, <3>4
      <4>4. key.count > 0 => globalKey'[w].expires = key.expires
        BY <1>5, <1>7, <2>4, <3>2, <3>4
      <4> QED
        BY <1>5, <2>1, <2>4, <3>1, <3>3, <4>1, <4>2, <4>3, <4>4
    <3>5. CASE globalKey'[v] = Incr(key) /\ groupKey'[g][v] = Incr(gkey)
      <4> DEFINE f == GroupCounts(w)
                 e == [h \in Groups |-> groupKey'[h][w].count]
      <4>1. \A h \in Groups \ {g} : groupKey'[h][w] = groupKey[h][w]
        BY <1>1, <2>4
      <4>2. /\ \A h \in Groups : f[h] \in Int /\ e[h] \in Int
            /\ \A h \in Groups \ {g} : f[h] = e[h]
            /\ e[g] = f[g] + 1
        BY <1>4, <1>5, <2>2, <2>4, <3>1, <3>2, <3>5, <4>1
      <4>3. IsFiniteSet(Groups) /\ g \in Groups
        BY <1>4 DEF AdmissionAssumption
      <4> HIDE DEF e, f
      <4>4. SumFunctionOnSet(e, Groups) = SumFunctionOnSet(f, Groups) + (e[g] - f[g])
        BY <4>2, <4>3, SumChange
      <4>5. SumFunctionOnSet(f, Groups) = key.count
        BY <2>1, <3>1 DEF f
      <4>6. e[g] - f[g] = 1
        BY <4>2, <4>3
      <4>7. globalKey'[w].count = SumFunctionOnSet(GroupCounts(w)', Groups)
        BY <2>2, <2>4, <3>2, <3>5, <4>4, <4>5, <4>6 DEF e
      <4>8. ASSUME NEW h \in Groups, groupKey'[h][w].count > 0
            PROVE  groupKey'[h][w].expires >= globalKey'[w].expires
        <5>1. CASE h = g
          BY <1>4, <1>5, <1>6, <2>1, <2>4, <3>1, <3>2, <3>3, <3>5, <5>1
        <5>2. CASE h # g
          BY <1>5, <2>1, <2>4, <3>1, <3>2, <3>3, <3>5, <4>1, <4>8, <5>2
        <5> QED
          BY <5>1, <5>2
      <4> QED
        BY <4>7, <4>8
    <3> QED
      BY <1>2, <2>4, <3>4, <3>5
  <2> QED
    BY <2>3, <2>4
<1> QED
  BY <1>9, <1>10, <1>11 DEF CountInv, CountersSum

LEMMA CountInvStep ==
  ASSUME AdmissionAssumption, TypeOK, RateInv, CountInv, [Next]_vars
  PROVE  CountInv'
<1>1. ASSUME UNCHANGED <<globalKey, groupKey, slowest>>, now' >= now PROVE CountInv'
  <2>1. \A w \in Windows : GroupCounts(w)' = GroupCounts(w)
    BY <1>1 DEF GroupCounts
  <2>2. GroupKeysOutlive' /\ CountersSum'
    BY <1>1, <2>1 DEF CountInv, GroupKeysOutlive, CountersSum, Timely
  <2>3. ExpiryInReach'
    <3> SUFFICES ASSUME NEW w \in Windows PROVE globalKey[w].expires <= now' + Ttl
      BY <1>1 DEF ExpiryInReach
    <3>1. globalKey[w].expires \in Nat /\ globalKey[w].expires <= now + Ttl
      BY DEF CountInv, ExpiryInReach, TypeOK, LimiterTypeOK, Keys
    <3>2. now \in Nat /\ now' \in Nat /\ Ttl \in Nat
      BY LimiterKeepsType DEF TypeOK, LimiterTypeOK, AdmissionAssumption
    <3> QED
      BY <1>1, <3>1, <3>2
  <2> QED
    BY <2>2, <2>3 DEF CountInv
<1>2. CASE UNCHANGED limiterVars /\ now' >= now
  BY <1>1, <1>2 DEF limiterVars
<1>3. ASSUME NEW c \in Jobs, Ask(c), now' = now PROVE CountInv'
  BY <1>1, <1>3 DEF Ask, TypeOK, LimiterTypeOK, AdmissionAssumption
<1> QED
  BY <1>2, <1>3, LimiterSteps, CheckKeepsCounts

\* The global counter of a window is the sum of its groups' counters, as long as
\* no script runs later than the keys outlive their window: the roll-back of the
\* one and the expiry of the other never let them part.
THEOREM CountersAddUp == AdmissionAssumption => (Spec => []CountersAgree)
<1> SUFFICES ASSUME AdmissionAssumption PROVE Spec => []CountersAgree
  OBVIOUS
<1>1. Init => RateInv /\ CountInv
  BY InitRateInv, InitCountInv
<1>2. TypeOK /\ RateInv /\ CountInv /\ [Next]_vars => RateInv' /\ CountInv'
  BY RateInvStep, CountInvStep
<1>3. TypeOK /\ CountInv => CountersAgree
  <2> SUFFICES ASSUME TypeOK, CountInv, Timely, NEW w \in Windows, Alive(globalKey[w])
               PROVE  Value(globalKey[w]) =
                        SumFunction([g \in Groups |-> Value(groupKey[g][w])])
    BY DEF CountersAgree
  <2> DEFINE f == [g \in Groups |-> Value(groupKey[g][w])]
  <2>1. /\ globalKey[w].count = SumFunctionOnSet(GroupCounts(w), Groups)
        /\ \A g \in Groups :
             groupKey[g][w].count > 0 => groupKey[g][w].expires >= globalKey[w].expires
    BY DEF CountInv, CountersSum
  <2>2. ASSUME NEW g \in Groups PROVE GroupCounts(w)[g] = f[g]
    <3>1. /\ groupKey[g][w].count \in Nat /\ groupKey[g][w].expires \in Nat
          /\ now \in Nat /\ globalKey[w].expires \in Nat
      BY DEF TypeOK, LimiterTypeOK, Keys, AdmissionAssumption
    <3>2. groupKey[g][w].count > 0 => Alive(groupKey[g][w])
      BY <2>1, <3>1 DEF Alive
    <3> QED
      BY <3>1, <3>2 DEF GroupCounts, Value
  <2>3. SumFunctionOnSet(GroupCounts(w), Groups) = SumFunctionOnSet(f, Groups)
    <3>1. IsFiniteSet(Groups) /\ \A g \in Groups : GroupCounts(w)[g] = f[g]
      BY <2>2 DEF AdmissionAssumption
    <3> HIDE DEF f
    <3> QED
      BY <3>1, SumSame
  <2>4. SumFunction(f) = SumFunctionOnSet(f, Groups)
    BY DEF SumFunction
  <2> QED
    BY <2>1, <2>3, <2>4 DEF Value
<1> QED
  BY <1>1, <1>2, <1>3, TypeCorrect, PTL DEF Spec

-----------------------------------------------------------------------------
(* The copies of a job: how often it is in a list, with an actor or aside. *)

\* The fetchers and workers that have the job.
Held(j) == {a \in Actors : Holding(a) /\ has[a] = j}

Parts(j) ==
  CountIf(verdict[j] = "new") + Cardinality(Held(j)) + Count(ready, j)
  + CountIf(j \in DOMAIN nonReady) + ended[j]

CopiesAreParts ==
  \A j \in Jobs :
    /\ CopiesOf(j) = Parts(j) /\ CopiesOf(j) \in Nat
    /\ Cardinality(Held(j)) \in Nat /\ Count(ready, j) \in Nat /\ ended[j] \in Nat
    /\ IsFiniteSet(Held(j))

LEMMA CopiesSplit == AdmissionAssumption /\ TypeOK => CopiesAreParts
<1> SUFFICES ASSUME AdmissionAssumption, TypeOK, NEW j \in Jobs
             PROVE  /\ CopiesOf(j) = Parts(j) /\ CopiesOf(j) \in Nat
                    /\ Cardinality(Held(j)) \in Nat /\ Count(ready, j) \in Nat
                    /\ ended[j] \in Nat /\ IsFiniteSet(Held(j))
  BY DEF CopiesAreParts
<1>1. Count(ready, j) \in Nat /\ ended[j] \in Nat
  BY PositionsFinite DEF TypeOK, QueuesTypeOK, ActorsTypeOK
<1>2. IsFiniteSet(Held(j)) /\ Cardinality(Held(j)) \in Nat
  BY FS_Subset, FS_CardinalityType DEF Held, Actors, AdmissionAssumption
<1>3. Cardinality({q \in {"fair"} : verdict[j] = "new"}) = CountIf(verdict[j] = "new")
  <2>1. CASE verdict[j] = "new"
    <3>1. {q \in {"fair"} : verdict[j] = "new"} = {"fair"}
      BY <2>1
    <3> QED
      BY <2>1, <3>1, FS_Singleton DEF CountIf
  <2>2. CASE verdict[j] # "new"
    <3>1. {q \in {"fair"} : verdict[j] = "new"} = {}
      BY <2>2
    <3> QED
      BY <2>2, <3>1, FS_EmptySet DEF CountIf
  <2> QED
    BY <2>1, <2>2
<1>4. Cardinality({j} \cap DOMAIN nonReady) = CountIf(j \in DOMAIN nonReady)
  <2>1. CASE j \in DOMAIN nonReady
    <3>1. {j} \cap DOMAIN nonReady = {j}
      BY <2>1
    <3> QED
      BY <2>1, <3>1, FS_Singleton DEF CountIf
  <2>2. CASE j \notin DOMAIN nonReady
    <3>1. {j} \cap DOMAIN nonReady = {}
      BY <2>2
    <3> QED
      BY <2>2, <3>1, FS_EmptySet DEF CountIf
  <2> QED
    BY <2>1, <2>2
<1>5. CopiesOf(j) = Parts(j)
  BY <1>3, <1>4 DEF CopiesOf, Parts, Held, Count, Positions
<1> QED
  BY <1>1, <1>2, <1>5 DEF Parts, CountIf

\* An actor that goes on to its next call keeps its job, puts it down or takes
\* another.
LEMMA HeldChange ==
  ASSUME AdmissionAssumption, TypeOK, NEW a \in Actors, NEW step, NEW k, Goto(a, step, k),
         NEW j \in Jobs
  PROVE  Cardinality(Held(j)') + CountIf(Holding(a) /\ has[a] = j)
           = Cardinality(Held(j)) + CountIf(step \notin {"idle", "reset"} /\ k = j)
<1> DEFINE H == Held(j)
           N == {b \in Actors : pc'[b] \notin {"idle", "reset"} /\ has'[b] = j}
<1>1. Held(j)' = N
  BY DEF Held, Holding
<1>2. /\ pc'[a] = step /\ has'[a] = k
      /\ \A b \in Actors \ {a} : pc'[b] = pc[b] /\ has'[b] = has[b]
  BY DEF Goto, TypeOK, ActorsTypeOK
<1>3. IsFiniteSet(H) /\ IsFiniteSet(N)
  BY FS_Subset DEF Held, Actors, AdmissionAssumption
<1>4. N \ {a} = H \ {a}
  BY <1>2 DEF Held, Holding
<1>5. /\ a \in H <=> Holding(a) /\ has[a] = j
      /\ a \in N <=> step \notin {"idle", "reset"} /\ k = j
  BY <1>2 DEF Held
<1>6. /\ Cardinality(H) = Cardinality(H \ {a}) + CountIf(Holding(a) /\ has[a] = j)
      /\ Cardinality(N)
           = Cardinality(N \ {a}) + CountIf(step \notin {"idle", "reset"} /\ k = j)
      /\ Cardinality(H \ {a}) \in Nat
  BY <1>3, <1>5, CardinalityWithout DEF CountIf
<1> DEFINE before == CountIf(Holding(a) /\ has[a] = j)
           after == CountIf(step \notin {"idle", "reset"} /\ k = j)
           rest == Cardinality(H \ {a})
<1>7. /\ before \in Nat /\ after \in Nat /\ rest \in Nat
      /\ Cardinality(H) = rest + before /\ Cardinality(N) = rest + after
  BY <1>4, <1>6 DEF CountIf
<1> HIDE DEF H, N, before, after, rest
<1>8. Cardinality(N) + before = Cardinality(H) + after
  BY <1>7
<1> QED
  BY <1>1, <1>8 DEF H, before, after

CopiesSame(J) == \A j \in J : CopiesOf(j)' = CopiesOf(j)

\* What a step can do to the copies of jobs, the counters, the entries that are
\* aside and the answers that were lost.
QuietStep == CopiesSame(Jobs) /\ UNCHANGED <<count, DOMAIN nonReady, lost>>

\* Job k is put aside, and a second entry of it would be the first one.
AsideStep(k) ==
  /\ CopiesSame(Jobs \ {k}) /\ DOMAIN nonReady' = DOMAIN nonReady \cup {k}
  /\ CopiesOf(k)' = CopiesOf(k) - CountIf(k \in DOMAIN nonReady)
  /\ count' \in {count, [count EXCEPT ![CallGroup[k]] = @ + 1]}
  /\ UNCHANGED lost

\* Job k is put aside and kept.
UnansweredStep(k) ==
  /\ CopiesSame(Jobs \ {k}) /\ DOMAIN nonReady' = DOMAIN nonReady \cup {k}
  /\ CopiesOf(k)' = CopiesOf(k) + CountIf(k \notin DOMAIN nonReady)
  /\ count' = [count EXCEPT ![CallGroup[k]] = @ + 1]
  /\ lost' = [lost EXCEPT ![k] = @ + 1]

\* Job k moves on.
DispatchStep(k) ==
  /\ CopiesSame(Jobs) /\ k \in DOMAIN nonReady /\ DOMAIN nonReady' = DOMAIN nonReady \ {k}
  /\ count' = [count EXCEPT ![CallGroup[k]] = CountAfterMove(CallGroup[k])]
  /\ UNCHANGED lost

ResetStep(g) ==
  /\ CopiesSame(Jobs) /\ count' = [count EXCEPT ![g] = 0]
  /\ UNCHANGED <<DOMAIN nonReady, lost>>

CopyStep ==
  \/ QuietStep
  \/ \E k \in Jobs : AsideStep(k) \/ UnansweredStep(k) \/ DispatchStep(k)
  \/ \E g \in Groups : ResetStep(g)

\* When no verdict changes between new and another, and none of the queues, the
\* copies of a job change with those who hold it and with its completions.
LEMMA CopiesByParts ==
  ASSUME AdmissionAssumption, TypeOK, TypeOK', NEW j \in Jobs
  PROVE  /\ CopiesOf(j) = Parts(j) /\ CopiesOf(j)' = Parts(j)'
         /\ CopiesOf(j) \in Nat /\ CopiesOf(j)' \in Nat
         /\ Cardinality(Held(j)) \in Nat /\ Cardinality(Held(j)') \in Nat
         /\ Count(ready, j) \in Nat /\ Count(ready', j) \in Nat
         /\ ended[j] \in Nat /\ ended'[j] \in Nat
<1>1. CopiesAreParts
  BY CopiesSplit
<1>2. CopiesAreParts'
  BY CopiesSplit, PTL
<1> QED
  BY <1>1, <1>2 DEF CopiesAreParts

\* An actor that puts its job down.
LEMMA HeldLess ==
  ASSUME AdmissionAssumption, TypeOK, TypeOK', NEW a \in Actors, NEW step \in {"idle", "reset"},
         NEW k, Goto(a, step, k), Holding(a), NEW j \in Jobs
  PROVE  Cardinality(Held(j)) = Cardinality(Held(j)') + CountIf(j = has[a])
<1>1. Cardinality(Held(j)') + CountIf(Holding(a) /\ has[a] = j)
        = Cardinality(Held(j)) + CountIf(step \notin {"idle", "reset"} /\ k = j)
  BY HeldChange
<1> QED
  BY <1>1, CopiesByParts DEF CountIf

\* An actor that keeps its job.
LEMMA HeldAlike ==
  ASSUME AdmissionAssumption, TypeOK, TypeOK', NEW a \in Actors, NEW step,
         step \notin {"idle", "reset"}, Goto(a, step, has[a]), Holding(a), NEW j \in Jobs
  PROVE  Cardinality(Held(j)') = Cardinality(Held(j))
<1>1. Cardinality(Held(j)') + CountIf(Holding(a) /\ has[a] = j)
        = Cardinality(Held(j)) + CountIf(step \notin {"idle", "reset"} /\ has[a] = j)
  BY HeldChange
<1> QED
  BY <1>1, CopiesByParts DEF CountIf

LEMMA CopySteps ==
  ASSUME AdmissionAssumption, TypeOK, TypeOK', [Next]_vars
  PROVE  CopyStep
<1>1. CASE UNCHANGED <<queueVars, verdict, ended, pc, has, lost>>
  <2>1. \A j \in Jobs : CopiesOf(j)' = CopiesOf(j)
    BY <1>1 DEF CopiesOf, Holding, queueVars
  <2> QED
    BY <1>1, <2>1 DEF CopyStep, QuietStep, CopiesSame, queueVars
<1>2. ASSUME NEW f \in Fetchers, NEW k \in Jobs, Fetch(f, k) PROVE CopyStep
  <2>1. ASSUME NEW j \in Jobs PROVE CopiesOf(j)' = CopiesOf(j)
    <3>1. Cardinality(Held(j)') + CountIf(Holding(f) /\ has[f] = j)
            = Cardinality(Held(j)) + CountIf(k = j)
      BY <1>2, HeldChange DEF Fetch, Actors, CountIf
    <3>2. CountIf(verdict[j] = "new") = CountIf(verdict'[j] = "new") + CountIf(k = j)
      BY <1>2 DEF Fetch, Ask, CountIf, TypeOK, LimiterTypeOK, AdmissionAssumption
    <3>3. ~Holding(f)
      BY <1>2 DEF Fetch, Holding
    <3> QED
      BY <1>2, <3>1, <3>2, <3>3, CopiesByParts DEF Parts, CountIf, Fetch, queueVars
  <2> QED
    BY <1>2, <2>1 DEF CopyStep, QuietStep, CopiesSame, Fetch, queueVars
<1>3. ASSUME NEW f \in Fetchers, CheckRate(f) PROVE CopyStep
  <2>1. ASSUME NEW j \in Jobs PROVE CopiesOf(j)' = CopiesOf(j)
    <3>1. Cardinality(Held(j)') = Cardinality(Held(j))
      <4>1. PICK step \in {"push", "backoff"} : Goto(f, step, has[f])
        BY <1>3 DEF CheckRate
      <4> QED
        BY <1>3, <4>1, HeldAlike DEF CheckRate, Actors, Holding
    <3>2. CountIf(verdict[j] = "new") = CountIf(verdict'[j] = "new")
      BY <1>3, ActorHasJob
      DEF CheckRate, Check, CountIf, TypeOK, LimiterTypeOK, AdmissionAssumption, Actors
    <3> QED
      BY <1>3, <3>1, <3>2, CopiesByParts DEF Parts, CountIf, CheckRate, queueVars
  <2> QED
    BY <1>3, <2>1 DEF CopyStep, QuietStep, CopiesSame, CheckRate, queueVars
<1>4. ASSUME NEW f \in Fetchers, Push(f) PROVE CopyStep
  <2>1. ASSUME NEW j \in Jobs PROVE CopiesOf(j)' = CopiesOf(j)
    <3>1. Cardinality(Held(j)) = Cardinality(Held(j)') + CountIf(j = has[f])
      BY <1>4, HeldLess DEF Push, Actors, Holding
    <3>2. Count(ready', j) = Count(ready, j) + CountIf(j = has[f])
      BY <1>4, ActorHasJob, AppendCount DEF Push, Actors, TypeOK, QueuesTypeOK
    <3>3. UNCHANGED <<verdict, nonReady, ended>>
      BY <1>4 DEF Push, limiterVars
    <3> QED
      BY <3>1, <3>2, <3>3, CopiesByParts DEF Parts, CountIf
  <2> QED
    BY <1>4, <2>1 DEF CopyStep, QuietStep, CopiesSame, Push
<1>5. ASSUME NEW a \in Actors, AddCounted(a) \/ AddFixed(a) PROVE CopyStep
  <2>0. PICK k \in Jobs : k = has[a]
    BY <1>5, ActorHasJob DEF AddCounted, AddFixed
  <2>1. Holding(a) /\ Goto(a, "idle", NoJob)
    BY <1>5 DEF AddCounted, AddFixed, Holding
  <2>2. /\ DOMAIN nonReady' = DOMAIN nonReady \cup {k}
        /\ count' \in {count, [count EXCEPT ![CallGroup[k]] = @ + 1]}
        /\ UNCHANGED <<verdict, ready, ended, lost>>
    BY <1>5, <2>0 DEF AddCounted, AddFixed, CongestionBackoff, ZAdd, limiterVars
  <2>3. ASSUME NEW j \in Jobs
        PROVE  CopiesOf(j)' = CopiesOf(j) - CountIf(j = k /\ k \in DOMAIN nonReady)
    <3>1. Cardinality(Held(j)) = Cardinality(Held(j)') + CountIf(j = k)
      BY <2>0, <2>1, HeldLess
    <3>2. CountIf(j \in DOMAIN nonReady')
            = CountIf(j \in DOMAIN nonReady) + CountIf(j = k /\ k \notin DOMAIN nonReady)
      BY <2>2 DEF CountIf
    <3> QED
      BY <2>2, <3>1, <3>2, CopiesByParts DEF Parts, CountIf
  <2>4. AsideStep(k)
    <3>1. ASSUME NEW j \in Jobs \ {k} PROVE CopiesOf(j)' = CopiesOf(j)
      <4>1. CopiesOf(j) \in Nat
        BY CopiesByParts
      <4> QED
        BY <2>3, <4>1 DEF CountIf
    <3>2. CopiesOf(k)' = CopiesOf(k) - CountIf(k \in DOMAIN nonReady)
      BY <2>3 DEF CountIf
    <3> QED
      BY <2>2, <3>1, <3>2 DEF AsideStep, CopiesSame
  <2> QED
    BY <2>4 DEF CopyStep
<1>6. ASSUME NEW a \in Actors, AddUnanswered(a) PROVE CopyStep
  <2>0. PICK k \in Jobs : k = has[a]
    BY <1>6, ActorHasJob DEF AddUnanswered
  <2>1. Holding(a) /\ Goto(a, "fallback", k)
    BY <1>6, <2>0 DEF AddUnanswered, Holding
  <2>2. /\ DOMAIN nonReady' = DOMAIN nonReady \cup {k}
        /\ count' = [count EXCEPT ![CallGroup[k]] = @ + 1]
        /\ lost' = [lost EXCEPT ![k] = @ + 1]
        /\ UNCHANGED <<verdict, ready, ended>>
    BY <1>6, <2>0 DEF AddUnanswered, CongestionBackoff, ZAdd, limiterVars
  <2>3. ASSUME NEW j \in Jobs
        PROVE  CopiesOf(j)' = CopiesOf(j) + CountIf(j = k /\ k \notin DOMAIN nonReady)
    <3>1. Cardinality(Held(j)') = Cardinality(Held(j))
      BY <2>0, <2>1, HeldAlike
    <3>2. CountIf(j \in DOMAIN nonReady')
            = CountIf(j \in DOMAIN nonReady) + CountIf(j = k /\ k \notin DOMAIN nonReady)
      BY <2>2 DEF CountIf
    <3> QED
      BY <2>2, <3>1, <3>2, CopiesByParts DEF Parts, CountIf
  <2>4. UnansweredStep(k)
    <3>1. ASSUME NEW j \in Jobs \ {k} PROVE CopiesOf(j)' = CopiesOf(j)
      <4>1. CopiesOf(j) \in Nat
        BY CopiesByParts
      <4> QED
        BY <2>3, <4>1 DEF CountIf
    <3>2. CopiesOf(k)' = CopiesOf(k) + CountIf(k \notin DOMAIN nonReady)
      BY <2>3 DEF CountIf
    <3> QED
      BY <2>2, <3>1, <3>2 DEF UnansweredStep, CopiesSame
  <2> QED
    BY <2>4 DEF CopyStep
<1>7. ASSUME NEW a \in Actors, AddRefused(a) \/ (a \in Workers /\ Fail(a)) PROVE CopyStep
  <2>1. PICK step \in {"fallback", "backoff"} : Goto(a, step, has[a])
    BY <1>7 DEF AddRefused, Fail
  <2>2. Holding(a) /\ UNCHANGED <<verdict, queueVars, ended, lost>>
    BY <1>7 DEF AddRefused, Fail, Holding, limiterVars
  <2>3. ASSUME NEW j \in Jobs PROVE CopiesOf(j)' = CopiesOf(j)
    <3>1. Cardinality(Held(j)') = Cardinality(Held(j))
      BY <2>1, <2>2, HeldAlike
    <3> QED
      BY <2>2, <3>1, CopiesByParts DEF Parts, queueVars
  <2> QED
    BY <2>2, <2>3 DEF CopyStep, QuietStep, CopiesSame, queueVars
<1>8. ASSUME NEW k \in Jobs, Dispatch(k) PROVE CopyStep
  <2>1. k \in DOMAIN nonReady /\ DOMAIN nonReady' = DOMAIN nonReady \ {k}
    BY <1>8 DEF Dispatch, ZDue, Remaining, ZRem, Restrict
  <2>2. ASSUME NEW j \in Jobs PROVE CopiesOf(j)' = CopiesOf(j)
    <3>1. Held(j)' = Held(j)
      BY <1>8 DEF Dispatch, Held, Holding
    <3>2. Count(ready', j) = Count(ready, j) + CountIf(j = k)
      BY <1>8, AppendCount DEF Dispatch, TypeOK, QueuesTypeOK
    <3>3. CountIf(j \in DOMAIN nonReady) = CountIf(j \in DOMAIN nonReady') + CountIf(j = k)
      BY <2>1 DEF CountIf
    <3>4. UNCHANGED <<verdict, ended>>
      BY <1>8 DEF Dispatch, limiterVars
    <3> QED
      BY <3>1, <3>2, <3>3, <3>4, CopiesByParts DEF Parts, CountIf
  <2> QED
    BY <1>8, <2>1, <2>2 DEF CopyStep, DispatchStep, CopiesSame, Dispatch
<1>9. ASSUME NEW w \in Workers, Take(w) PROVE CopyStep
  <2>1. Head(ready) \in Jobs
    BY <1>9, HeadTailProperties DEF Take, TypeOK, QueuesTypeOK
  <2>2. ASSUME NEW j \in Jobs PROVE CopiesOf(j)' = CopiesOf(j)
    <3>1. Cardinality(Held(j)') = Cardinality(Held(j)) + CountIf(j = Head(ready))
      <4>1. Cardinality(Held(j)') + CountIf(Holding(w) /\ has[w] = j)
              = Cardinality(Held(j)) + CountIf(Head(ready) = j)
        BY <1>9, HeldChange DEF Take, Actors, CountIf
      <4>2. ~Holding(w)
        BY <1>9 DEF Take, Holding
      <4> QED
        BY <4>1, <4>2, CopiesByParts DEF CountIf
    <3>2. Count(ready, j) = Count(ready', j) + CountIf(j = Head(ready))
      BY <1>9, TailCount DEF Take, TypeOK, QueuesTypeOK
    <3> QED
      BY <1>9, <3>1, <3>2, CopiesByParts DEF Parts, CountIf, Take, limiterVars
  <2> QED
    BY <1>9, <2>2 DEF CopyStep, QuietStep, CopiesSame, Take
<1>10. ASSUME NEW w \in Workers, Finish(w) PROVE CopyStep
  <2>1. PICK step \in {"idle", "reset"}, k \in {has[w], NoJob} : Goto(w, step, k)
    BY <1>10 DEF Finish
  <2>2. ASSUME NEW j \in Jobs PROVE CopiesOf(j)' = CopiesOf(j)
    <3>1. Cardinality(Held(j)) = Cardinality(Held(j)') + CountIf(j = has[w])
      BY <1>10, <2>1, HeldLess DEF Finish, Actors, Holding
    <3>2. ended'[j] = ended[j] + CountIf(j = has[w])
      BY <1>10 DEF Finish, CountIf, TypeOK, ActorsTypeOK
    <3>3. UNCHANGED <<verdict, ready, nonReady>>
      BY <1>10 DEF Finish, limiterVars, queueVars
    <3> QED
      BY <3>1, <3>2, <3>3, CopiesByParts DEF Parts, CountIf
  <2> QED
    BY <1>10, <2>2 DEF CopyStep, QuietStep, CopiesSame, Finish, queueVars
<1>11. ASSUME NEW w \in Workers, ResetStats(w) PROVE CopyStep
  <2>1. w \in Actors /\ CallGroup[has[w]] \in Groups
    BY <1>11, ActorHasJob DEF ResetStats, Actors
  <2>2. ASSUME NEW j \in Jobs PROVE CopiesOf(j)' = CopiesOf(j)
    <3>1. Held(j)' = Held(j)
      BY <1>11, <2>1 DEF ResetStats, Goto, Held, Holding, TypeOK, ActorsTypeOK
    <3> QED
      BY <1>11, <3>1, CopiesByParts DEF Parts, ResetStats, limiterVars
  <2> QED
    BY <1>11, <2>1, <2>2 DEF CopyStep, ResetStep, CopiesSame, ResetStats
<1> QED
  BY <1>1, <1>2, <1>3, <1>4, <1>5, <1>6, <1>7, <1>8, <1>9, <1>10, <1>11
  DEF Next, vars, Tick, limiterVars, Actors

\* The induction needs that there is a copy of a job at all: no rejection and no
\* error of an admission drops one in this module (Backpressure has those).
CopiesKept == \A j \in Jobs : CopiesOf(j) >= 1 /\ CopiesOf(j) <= 1 + lost[j]

LEMMA InitCopies == AdmissionAssumption /\ Init => CopiesKept
<1> SUFFICES ASSUME AdmissionAssumption, Init, NEW j \in Jobs
             PROVE  CopiesOf(j) >= 1 /\ CopiesOf(j) <= 1 + lost[j]
  BY DEF CopiesKept
<1>1. CopiesOf(j) = Parts(j)
  BY InitTypeOK, CopiesSplit DEF CopiesAreParts
<1>2. Cardinality(Held(j)) = 0 /\ Count(ready, j) = 0
  <2>1. Held(j) = {} /\ Positions(ready, j) = {}
    BY DEF Init, Held, Holding, Positions
  <2> QED
    BY <2>1, FS_EmptySet DEF Count
<1>3. /\ verdict[j] = "new" /\ j \notin DOMAIN nonReady /\ ended[j] = 0 /\ lost[j] = 0
  BY DEF Init, LimiterInit, EmptyZSet, AdmissionAssumption
<1> QED
  BY <1>1, <1>2, <1>3 DEF Parts, CountIf

LEMMA CopiesKeptStep ==
  ASSUME AdmissionAssumption, TypeOK, TypeOK', CopiesKept, [Next]_vars
  PROVE  CopiesKept'
<1> SUFFICES ASSUME NEW j \in Jobs
             PROVE  CopiesOf(j)' >= 1 /\ CopiesOf(j)' <= 1 + lost'[j]
  BY DEF CopiesKept
<1>1. /\ CopiesOf(j) \in Nat /\ CopiesOf(j)' \in Nat /\ lost[j] \in Nat
      /\ CopiesOf(j) >= 1 /\ CopiesOf(j) <= 1 + lost[j]
  BY CopiesByParts DEF CopiesKept, TypeOK, ActorsTypeOK
<1>2. ASSUME CopiesOf(j)' = CopiesOf(j), lost'[j] = lost[j]
      PROVE  CopiesOf(j)' >= 1 /\ CopiesOf(j)' <= 1 + lost'[j]
  BY <1>1, <1>2
<1>3. CASE \E k \in Jobs : AsideStep(k)
  <2>1. PICK k \in Jobs : AsideStep(k)
    BY <1>3
  <2>2. CASE k # j
    BY <1>2, <2>1, <2>2 DEF AsideStep, CopiesSame
  <2>3. CASE k = j
    <3>1. CopiesOf(j)' >= 1
      <4>1. CountIf(j \in DOMAIN nonReady') = 1
        BY <2>1, <2>3 DEF AsideStep, CountIf
      <4> QED
        BY <4>1, CopiesByParts DEF Parts, CountIf
    <3>2. CopiesOf(j)' <= CopiesOf(j) /\ lost'[j] = lost[j]
      BY <1>1, <2>1, <2>3 DEF AsideStep, CountIf
    <3> QED
      BY <1>1, <3>1, <3>2
  <2> QED
    BY <2>2, <2>3
<1>4. CASE \E k \in Jobs : UnansweredStep(k)
  <2>1. PICK k \in Jobs : UnansweredStep(k)
    BY <1>4
  <2>2. CASE k # j
    BY <1>2, <2>1, <2>2 DEF UnansweredStep, CopiesSame, TypeOK, ActorsTypeOK
  <2>3. CASE k = j
    <3>1. CopiesOf(j)' = CopiesOf(j) + CountIf(j \notin DOMAIN nonReady)
      BY <2>1, <2>3 DEF UnansweredStep
    <3>2. lost'[j] = lost[j] + 1
      BY <2>1, <2>3 DEF UnansweredStep, TypeOK, ActorsTypeOK
    <3> QED
      BY <1>1, <3>1, <3>2 DEF CountIf
  <2> QED
    BY <2>2, <2>3
<1>5. CASE \/ QuietStep
           \/ \E k \in Jobs : DispatchStep(k)
           \/ \E g \in Groups : ResetStep(g)
  BY <1>2, <1>5 DEF QuietStep, DispatchStep, ResetStep, CopiesSame
<1> QED
  BY <1>3, <1>4, <1>5, CopySteps DEF CopyStep

\* Whatever the scripts do whose answers are lost, and however the dispatcher and
\* the requeues of the workers come between: of no job there are more copies than
\* one and one for each lost answer about it.
THEOREM ExtraCopiesArePaid == AdmissionAssumption => (Spec => []CopiesNeedLostAnswers)
<1> SUFFICES ASSUME AdmissionAssumption PROVE Spec => []CopiesNeedLostAnswers
  OBVIOUS
<1>1. Init => CopiesKept
  BY InitCopies
<1>2. TypeOK /\ TypeOK' /\ CopiesKept /\ [Next]_vars => CopiesKept'
  BY CopiesKeptStep
<1>3. CopiesKept => CopiesNeedLostAnswers
  BY DEF CopiesKept, CopiesNeedLostAnswers
<1> QED
  BY <1>1, <1>2, <1>3, TypeCorrect, PTL DEF Spec

-----------------------------------------------------------------------------
(* The congestion counters *)

\* Excess(g) before and after a step.
Surplus == [j \in Jobs |-> CopiesOf(j) - 1]

GroupTotals ==
  \A g \in Groups :
    /\ Excess(g) = SumFunctionOnSet(Surplus, GroupJobs(g))
    /\ Excess(g) \in Int /\ Cardinality(Waiting(g)) \in Nat
    /\ SumFunctionOnSet(lost, GroupJobs(g)) \in Nat

LEMMA TotalsAreNumbers == AdmissionAssumption /\ TypeOK => GroupTotals
<1> SUFFICES ASSUME AdmissionAssumption, TypeOK, NEW g \in Groups
             PROVE  /\ Excess(g) = SumFunctionOnSet(Surplus, GroupJobs(g))
                    /\ Excess(g) \in Int /\ Cardinality(Waiting(g)) \in Nat
                    /\ SumFunctionOnSet(lost, GroupJobs(g)) \in Nat
  BY DEF GroupTotals
<1> DEFINE G == GroupJobs(g)
           e == [j \in G |-> CopiesOf(j) - 1]
<1>1. IsFiniteSet(G) /\ G \subseteq Jobs
  BY FS_Subset DEF GroupJobs, AdmissionAssumption
<1>2. \A j \in Jobs : CopiesOf(j) \in Nat
  BY CopiesSplit DEF CopiesAreParts
<1>3. Excess(g) = SumFunctionOnSet(e, G)
  BY DEF Excess, SumFunction
<1>4. \A j \in G : e[j] \in Int /\ e[j] = Surplus[j]
  BY <1>1, <1>2 DEF Surplus
<1>5. SumFunctionOnSet(lost, G) \in Nat
  <2>1. \A j \in G : lost[j] \in Nat
    BY <1>1 DEF TypeOK, ActorsTypeOK
  <2> HIDE DEF G
  <2> QED
    BY <1>1, <2>1, SumNat
<1>6. Cardinality(Waiting(g)) \in Nat
  BY <1>1, FS_Subset, FS_CardinalityType DEF Waiting
<1> HIDE DEF e, G
<1>7. SumFunctionOnSet(e, G) \in Int /\ SumFunctionOnSet(e, G) = SumFunctionOnSet(Surplus, G)
  BY <1>1, <1>4, SumType, SumSame
<1> QED
  BY <1>3, <1>5, <1>6, <1>7 DEF G

\* The copies there are too many of the jobs of a group are never more than the
\* answers that were lost.
LEMMA ExcessInLosses ==
  ASSUME AdmissionAssumption, TypeOK, CopiesKept, NEW g \in Groups
  PROVE  Excess(g) <= SumFunctionOnSet(lost, GroupJobs(g))
<1> DEFINE G == GroupJobs(g)
<1>1. IsFiniteSet(G) /\ G \subseteq Jobs
  BY FS_Subset DEF GroupJobs, AdmissionAssumption
<1>2. \A j \in G : Surplus[j] \in Int /\ lost[j] \in Int /\ Surplus[j] <= lost[j]
  <2> SUFFICES ASSUME NEW j \in Jobs
               PROVE  Surplus[j] \in Int /\ lost[j] \in Int /\ Surplus[j] <= lost[j]
    BY <1>1
  <2>1. CopiesOf(j) \in Nat /\ lost[j] \in Nat /\ CopiesOf(j) <= 1 + lost[j]
    BY CopiesSplit DEF CopiesAreParts, CopiesKept, TypeOK, ActorsTypeOK
  <2> QED
    BY <2>1 DEF Surplus
<1>3. Excess(g) = SumFunctionOnSet(Surplus, G)
  BY TotalsAreNumbers DEF GroupTotals
<1> HIDE DEF G
<1>4. SumFunctionOnSet(Surplus, G) <= SumFunctionOnSet(lost, G)
  BY <1>1, <1>2, SumMonotone
<1> QED
  BY <1>3, <1>4 DEF G

LEMMA TotalsByGroup ==
  ASSUME AdmissionAssumption, TypeOK, TypeOK', NEW g \in Groups
  PROVE  /\ Excess(g) = SumFunctionOnSet(Surplus, GroupJobs(g))
         /\ Excess(g)' = SumFunctionOnSet(Surplus', GroupJobs(g))
         /\ Excess(g) \in Int /\ Excess(g)' \in Int
         /\ Cardinality(Waiting(g)) \in Nat /\ Cardinality(Waiting(g)') \in Nat
         /\ SumFunctionOnSet(lost, GroupJobs(g)) \in Nat
         /\ SumFunctionOnSet(lost', GroupJobs(g)) \in Nat
         /\ count[g] \in Nat /\ count'[g] \in Nat
<1>1. GroupTotals
  BY TotalsAreNumbers
<1>2. GroupTotals'
  BY TotalsAreNumbers, PTL
<1>3. count[g] \in Nat /\ count'[g] \in Nat
  BY DEF TypeOK, QueuesTypeOK
<1> QED
  BY <1>1, <1>2, <1>3 DEF GroupTotals, GroupJobs

LEMMA ExcessSame ==
  ASSUME NEW g \in Groups, CopiesSame(GroupJobs(g))
  PROVE  Excess(g)' = Excess(g)
  BY DEF Excess, CopiesSame, GroupJobs

\* When only the copies of k change, only the excess of its group does.
LEMMA ExcessChange ==
  ASSUME AdmissionAssumption, TypeOK, TypeOK', NEW k \in Jobs, CopiesSame(Jobs \ {k}),
         NEW g \in Groups
  PROVE  Excess(g)' = Excess(g) + IF CallGroup[k] = g THEN CopiesOf(k)' - CopiesOf(k) ELSE 0
<1> DEFINE G == GroupJobs(g)
<1>1. CASE CallGroup[k] # g
  <2>1. CopiesSame(GroupJobs(g))
    BY <1>1 DEF CopiesSame, GroupJobs
  <2> QED
    BY <1>1, <2>1, ExcessSame, TotalsByGroup
<1>2. CASE CallGroup[k] = g
  <2>1. IsFiniteSet(G) /\ k \in G /\ G \subseteq Jobs
    BY <1>2, FS_Subset DEF GroupJobs, AdmissionAssumption
  <2>2. \A j \in Jobs : CopiesOf(j) \in Nat /\ CopiesOf(j)' \in Nat
    BY CopiesByParts
  <2>3. \A j \in Jobs : Surplus[j] = CopiesOf(j) - 1 /\ Surplus'[j] = CopiesOf(j)' - 1
    BY DEF Surplus
  <2>4. \A j \in G : Surplus[j] \in Int /\ Surplus'[j] \in Int
    BY <2>1, <2>2, <2>3
  <2>5. \A j \in G \ {k} : Surplus[j] = Surplus'[j]
    BY <2>1, <2>3 DEF CopiesSame
  <2>6. /\ Excess(g) = SumFunctionOnSet(Surplus, G)
        /\ Excess(g)' = SumFunctionOnSet(Surplus', G)
        /\ Excess(g) \in Int
    BY TotalsByGroup
  <2> DEFINE f == Surplus
             h == Surplus'
  <2> HIDE DEF G, f, h
  <2>7. SumFunctionOnSet(h, G) = SumFunctionOnSet(f, G) + (h[k] - f[k])
    BY <2>1, <2>4, <2>5, SumChange DEF f, h
  <2>8. h[k] - f[k] = CopiesOf(k)' - CopiesOf(k)
    BY <2>2, <2>3 DEF f, h
  <2> QED
    BY <1>2, <2>6, <2>7, <2>8 DEF f, h
<1> QED
  BY <1>1, <1>2

\* An entry more or less that waits.
LEMMA WaitingMore ==
  ASSUME AdmissionAssumption, TypeOK, TypeOK', NEW k \in Jobs, NEW g \in Groups,
         DOMAIN nonReady' = DOMAIN nonReady \cup {k}
  PROVE  Cardinality(Waiting(g)')
           = Cardinality(Waiting(g)) + CountIf(CallGroup[k] = g /\ k \notin DOMAIN nonReady)
<1> DEFINE W == Waiting(g)
           V == DOMAIN nonReady' \cap GroupJobs(g)
<1>1. Waiting(g)' = V
  BY DEF Waiting, GroupJobs
<1>2. IsFiniteSet(V) /\ IsFiniteSet(W)
  BY FS_Subset DEF Waiting, GroupJobs, AdmissionAssumption
<1>3. CASE CallGroup[k] = g /\ k \notin DOMAIN nonReady
  <2>1. V = W \cup {k} /\ k \notin W
    BY <1>3 DEF Waiting, GroupJobs
  <2> HIDE DEF V, W
  <2>2. Cardinality(V) = Cardinality(W) + 1
    BY <1>2, <2>1, FS_AddElement
  <2> QED
    BY <1>1, <1>3, <2>2 DEF CountIf, W
<1>4. CASE ~(CallGroup[k] = g /\ k \notin DOMAIN nonReady)
  <2>1. V = W
    BY <1>4 DEF Waiting, GroupJobs
  <2> QED
    BY <1>1, <1>4, <2>1, TotalsByGroup DEF CountIf
<1> QED
  BY <1>3, <1>4

LEMMA WaitingLess ==
  ASSUME AdmissionAssumption, TypeOK, TypeOK', NEW k \in Jobs, NEW g \in Groups,
         k \in DOMAIN nonReady, DOMAIN nonReady' = DOMAIN nonReady \ {k}
  PROVE  Cardinality(Waiting(g)) = Cardinality(Waiting(g)') + CountIf(CallGroup[k] = g)
<1> DEFINE W == Waiting(g)
<1>1. Waiting(g)' = W \ {k} /\ (k \in W <=> CallGroup[k] = g)
  BY DEF Waiting, GroupJobs
<1>2. IsFiniteSet(W)
  BY FS_Subset DEF Waiting, GroupJobs, AdmissionAssumption
<1> HIDE DEF W
<1>3. Cardinality(W) = Cardinality(W \ {k}) + CountIf(k \in W)
  BY <1>2, CardinalityWithout
<1>4. CountIf(k \in W) = CountIf(CallGroup[k] = g)
  BY <1>1 DEF CountIf
<1> QED
  BY <1>1, <1>3, <1>4 DEF W

\* One answer more that was lost about k.
LEMMA LostMore ==
  ASSUME AdmissionAssumption, TypeOK, TypeOK', NEW k \in Jobs, NEW g \in Groups,
         lost' = [lost EXCEPT ![k] = @ + 1]
  PROVE  SumFunctionOnSet(lost', GroupJobs(g))
           = SumFunctionOnSet(lost, GroupJobs(g)) + CountIf(CallGroup[k] = g)
<1> DEFINE G == GroupJobs(g)
           l == lost'
<1>1. IsFiniteSet(G) /\ G \subseteq Jobs /\ (k \in G <=> CallGroup[k] = g)
  BY FS_Subset DEF GroupJobs, AdmissionAssumption
<1>2. /\ \A j \in Jobs : lost[j] \in Nat /\ l[j] \in Nat
      /\ \A j \in Jobs \ {k} : lost[j] = l[j]
      /\ l[k] = lost[k] + 1
  BY DEF TypeOK, ActorsTypeOK
<1>3. SumFunctionOnSet(lost, G) \in Nat
  BY TotalsByGroup
<1> HIDE DEF G, l
<1>4. CASE k \in G
  <2>1. SumFunctionOnSet(l, G) = SumFunctionOnSet(lost, G) + (l[k] - lost[k])
    BY <1>1, <1>2, <1>4, SumChange
  <2> QED
    BY <1>1, <1>2, <1>3, <1>4, <2>1 DEF CountIf, G, l
<1>5. CASE k \notin G
  <2>1. SumFunctionOnSet(lost, G) = SumFunctionOnSet(l, G)
    BY <1>1, <1>2, <1>5, SumSame
  <2> QED
    BY <1>1, <1>3, <1>5, <2>1 DEF CountIf, G, l
<1> QED
  BY <1>4, <1>5

LEMMA DriftStep ==
  ASSUME AdmissionAssumption, TypeOK, TypeOK', CopiesKept, CopiesKept',
         DriftNeedsLostAnswers, [Next]_vars
  PROVE  DriftNeedsLostAnswers'
<1> SUFFICES ASSUME NEW g \in Groups
             PROVE  count'[g] + Excess(g)'
                      <= Cardinality(Waiting(g)') + SumFunctionOnSet(lost', GroupJobs(g))
  BY DEF DriftNeedsLostAnswers, GroupJobs
<1> DEFINE c == count[g]
           d == count'[g]
           e == Excess(g)
           i == Excess(g)'
           w == Cardinality(Waiting(g))
           v == Cardinality(Waiting(g)')
           s == SumFunctionOnSet(lost, GroupJobs(g))
           t == SumFunctionOnSet(lost', GroupJobs(g))
<1>1. /\ c \in Nat /\ d \in Nat /\ e \in Int /\ i \in Int /\ w \in Nat /\ v \in Nat
      /\ s \in Nat /\ t \in Nat
      /\ c + e <= w + s /\ e <= s
  BY TotalsByGroup, ExcessInLosses DEF DriftNeedsLostAnswers
<1> SUFFICES d + i <= v + t
  OBVIOUS
<1>2. ASSUME i = e, d = 0 \/ d = c, v = w, t = s PROVE d + i <= v + t
  BY <1>1, <1>2
<1>3. ASSUME UNCHANGED <<DOMAIN nonReady, lost>> PROVE v = w /\ t = s
  BY <1>3 DEF Waiting, GroupJobs
<1>4. ASSUME CopiesSame(Jobs) PROVE i = e
  BY <1>4, ExcessSame DEF CopiesSame, GroupJobs
<1>5. CASE QuietStep
  BY <1>2, <1>3, <1>4, <1>5 DEF QuietStep
<1>6. CASE \E h \in Groups : ResetStep(h)
  <2>1. d = 0 \/ d = c
    BY <1>6 DEF ResetStep, TypeOK, QueuesTypeOK
  <2> QED
    BY <1>2, <1>3, <1>4, <1>6, <2>1 DEF ResetStep
<1>7. ASSUME NEW k \in Jobs, AsideStep(k) PROVE d + i <= v + t
  <2>1. i = e + IF CallGroup[k] = g THEN CopiesOf(k)' - CopiesOf(k) ELSE 0
    BY <1>7, ExcessChange DEF AsideStep
  <2>2. v = w + CountIf(CallGroup[k] = g /\ k \notin DOMAIN nonReady)
    BY <1>7, WaitingMore DEF AsideStep
  <2>3. d <= c + CountIf(CallGroup[k] = g)
    BY <1>7 DEF AsideStep, CountIf, TypeOK, QueuesTypeOK
  <2>4. t = s
    BY <1>7 DEF AsideStep
  <2>5. CopiesOf(k)' = CopiesOf(k) - CountIf(k \in DOMAIN nonReady) /\ CopiesOf(k) \in Nat
    BY <1>7, CopiesByParts DEF AsideStep
  <2> HIDE DEF c, d, e, i, w, v, s, t
  <2> QED
    BY <1>1, <2>1, <2>2, <2>3, <2>4, <2>5 DEF CountIf
<1>8. ASSUME NEW k \in Jobs, UnansweredStep(k) PROVE d + i <= v + t
  <2>1. i = e + IF CallGroup[k] = g THEN CopiesOf(k)' - CopiesOf(k) ELSE 0
    BY <1>8, ExcessChange DEF UnansweredStep
  <2>2. v = w + CountIf(CallGroup[k] = g /\ k \notin DOMAIN nonReady)
    BY <1>8, WaitingMore DEF UnansweredStep
  <2>3. d <= c + CountIf(CallGroup[k] = g)
    BY <1>8 DEF UnansweredStep, CountIf, TypeOK, QueuesTypeOK
  <2>4. t = s + CountIf(CallGroup[k] = g)
    BY <1>8, LostMore DEF UnansweredStep
  <2>5. CopiesOf(k)' = CopiesOf(k) + CountIf(k \notin DOMAIN nonReady) /\ CopiesOf(k) \in Nat
    BY <1>8, CopiesByParts DEF UnansweredStep
  <2> HIDE DEF c, d, e, i, w, v, s, t
  <2> QED
    BY <1>1, <2>1, <2>2, <2>3, <2>4, <2>5 DEF CountIf
<1>9. ASSUME NEW k \in Jobs, DispatchStep(k) PROVE d + i <= v + t
  <2>1. i = e
    BY <1>4, <1>9 DEF DispatchStep
  <2>2. w = v + CountIf(CallGroup[k] = g)
    BY <1>9, WaitingLess DEF DispatchStep
  <2>3. t = s
    BY <1>9 DEF DispatchStep
  <2>4. \/ d = 0
        \/ d = c - CountIf(CallGroup[k] = g)
    <3>1. CASE CallGroup[k] = g
      <4>1. d = Max({0, c - 1})
        BY <1>9, <3>1 DEF DispatchStep, CountAfterMove, TypeOK, QueuesTypeOK
      <4>2. Max({0, c - 1}) \in {0, c - 1}
        <5>1. 0 \in Int /\ c - 1 \in Int
          BY <1>1
        <5> HIDE DEF c
        <5> QED
          BY <5>1, MaxOfTwo
      <4> QED
        BY <3>1, <4>1, <4>2 DEF CountIf
    <3>2. CASE CallGroup[k] # g
      BY <1>1, <1>9, <3>2 DEF DispatchStep, CountIf, TypeOK, QueuesTypeOK
    <3> QED
      BY <3>1, <3>2
  <2> HIDE DEF c, d, e, i, w, v, s, t
  <2> QED
    BY <1>1, <2>1, <2>2, <2>3, <2>4 DEF CountIf
<1> QED
  BY <1>5, <1>6, <1>7, <1>8, <1>9, CopySteps DEF CopyStep

LEMMA InitDrift == AdmissionAssumption /\ Init => DriftNeedsLostAnswers
<1> SUFFICES ASSUME AdmissionAssumption, Init, NEW g \in Groups
             PROVE  count[g] + Excess(g)
                      <= Cardinality(Waiting(g)) + SumFunctionOnSet(lost, GroupJobs(g))
  BY DEF DriftNeedsLostAnswers
<1>1. TypeOK /\ CopiesKept /\ count[g] = 0
  BY InitTypeOK, InitCopies DEF Init
<1>2. Excess(g) <= SumFunctionOnSet(lost, GroupJobs(g))
  BY <1>1, ExcessInLosses
<1>3. /\ Excess(g) \in Int /\ Cardinality(Waiting(g)) \in Nat
      /\ SumFunctionOnSet(lost, GroupJobs(g)) \in Nat
  BY <1>1, TotalsAreNumbers DEF GroupTotals
<1> QED
  BY <1>1, <1>2, <1>3

\* The counter that lengthens the backoffs of a group is above the jobs that wait
\* by no more than the answers that were lost, the copies they made included.
THEOREM DriftIsBounded == AdmissionAssumption => (Spec => []DriftNeedsLostAnswers)
<1> SUFFICES ASSUME AdmissionAssumption PROVE Spec => []DriftNeedsLostAnswers
  OBVIOUS
<1>1. Init => CopiesKept /\ DriftNeedsLostAnswers
  BY InitCopies, InitDrift
<1>2. TypeOK /\ TypeOK' /\ CopiesKept /\ [Next]_vars => CopiesKept'
  BY CopiesKeptStep
<1>3. /\ TypeOK /\ TypeOK' /\ CopiesKept /\ CopiesKept' /\ DriftNeedsLostAnswers
      /\ [Next]_vars
      => DriftNeedsLostAnswers'
  BY DriftStep
<1> QED
  BY <1>1, <1>2, <1>3, TypeCorrect, PTL DEF Spec
=============================================================================
