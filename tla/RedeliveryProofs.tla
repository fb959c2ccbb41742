-------------------------- MODULE RedeliveryProofs ---------------------------
(***************************************************************************)
(* What holds of the dead letter queue, of the results of a group and of   *)
(* the workers between them for every number of jobs, workers, calls,      *)
(* failures and stops: the types, that every handling was asked for, that  *)
(* rewriting the list of dead letters is exact, and what a stored result   *)
(* covers.                                                                 *)
(***************************************************************************)
EXTENDS Redelivery, CountingTheorems

-----------------------------------------------------------------------------
(* Types.  An entry is removed only after a worker has made it, so that    *)
(* what is in the lists of the calls belongs to the type.                  *)

LettersMade ==
  /\ IsFiniteSet(made)
  /\ deadLetters \in Seq(made)
  /\ doomed \in [Calls -> Seq(made)] /\ kept \in [Calls -> Seq(made)]

\* The permutations of the jobs are lists of jobs, each of them once.
LEMMA FirstList ==
  ASSUME NEW S, IsFiniteSet(S), NEW s \in SetToSeqs(S)
  PROVE  s \in Seq(S) /\ \A x \in S : Count(s, x) = 1
<1> DEFINE n == Cardinality(S)
<1>1. /\ n \in Nat /\ s \in [1..n -> S] /\ \A i, k \in 1..n : i # k => s[i] # s[k]
  BY FS_CardinalityType DEF SetToSeqs
<1> HIDE DEF n
<1>2. s \in Seq(S) /\ DOMAIN s = 1..n
  BY <1>1, SeqDef
<1>3. s \in Surjection(1..n, S)
  <2>1. s \in Injection(1..n, S)
    BY <1>1 DEF Injection, IsInjective
  <2>2. IsFiniteSet(1..n) /\ Cardinality(1..n) = n
    BY <1>1, FS_Interval
  <2> QED
    BY <2>1, <2>2, FS_Injection DEF n
<1>4. ASSUME NEW x \in S PROVE Count(s, x) = 1
  <2>1. PICK i \in 1..n : s[i] = x
    BY <1>3 DEF Surjection
  <2>2. Positions(s, x) = {i}
    BY <1>1, <1>2, <2>1 DEF Positions
  <2> QED
    BY <2>2, FS_Singleton DEF Count
<1> QED
  BY <1>2, <1>4

\* What is left to show of a step of a call, when its lists hold made entries.
CallsOK ==
  /\ ready \in Seq(Jobs) /\ pushes \in [Jobs -> Nat]
  /\ pc \in [Calls -> {"new", "reset", "push", "pop", "resetPopped", "pushPopped", "read",
                       "delete", "append", "end"}]
  /\ seen \in [Calls -> Seq(Entries)]
  /\ \A c \in Calls : pc[c] \in {"new", "pop", "end"} <=> doomed[c] = <<>>
  /\ \A c \in Calls : pc[c] = "append" => kept[c] # <<>>
  /\ made \subseteq Entries /\ removed \subseteq made
  /\ raced \in BOOLEAN /\ stops \in 0..MaxStops

LEMMA LettersSuffice ==
  LettersMade /\ CallsOK /\ retryCount \in [Jobs -> Nat] => LettersTypeOK
<1> SUFFICES ASSUME LettersMade, CallsOK, retryCount \in [Jobs -> Nat] PROVE LettersTypeOK
  OBVIOUS
<1>1. made \subseteq Entries
  BY DEF CallsOK
<1>2. deadLetters \in Seq(Entries)
  BY <1>1, SeqGrows DEF LettersMade
<1>3. Seq(made) \subseteq Seq(Entries)
  BY <1>1, SeqGrows
<1>4. doomed \in [Calls -> Seq(Entries)] /\ kept \in [Calls -> Seq(Entries)]
  BY <1>3 DEF LettersMade
<1> QED
  BY <1>2, <1>4 DEF CallsOK, LettersTypeOK

LEMMA InitTypeOK == RedeliveryAssumption /\ Init => TypeOK /\ LettersMade
<1> SUFFICES ASSUME RedeliveryAssumption, Init PROVE TypeOK /\ LettersMade
  OBVIOUS
<1>1. \A T : <<>> \in Seq(T)
  BY EmptySeq
<1>2. LettersMade
  BY <1>1, FS_EmptySet DEF Init, LettersInit, LettersMade
<1>3. ready \in Seq(Jobs)
  BY FirstList DEF Init, LettersInit, RedeliveryAssumption
<1>4. retryCount \in [Jobs -> 0..MaxRetry] /\ retryCount \in [Jobs -> Nat]
  BY DEF Init, RedeliveryAssumption
<1>5. LettersTypeOK
  <2>1. seen \in [Calls -> Seq(Entries)] /\ pushes \in [Jobs -> Nat]
    BY <1>1 DEF Init, LettersInit
  <2>2. \A c \in Calls : pc[c] = "new" /\ doomed[c] = <<>>
    BY DEF Init, LettersInit
  <2>3. made = {} /\ removed = {} /\ pc = [c \in Calls |-> "new"] /\ stops = 0
    BY DEF Init, LettersInit
  <2>4. stops \in 0..MaxStops /\ raced \in BOOLEAN
    <3>1. raced \in BOOLEAN
      BY Zenon DEF Init, LettersInit
    <3> QED
      BY <2>3, <3>1 DEF RedeliveryAssumption
  <2>5. CallsOK
    BY <1>3, <2>1, <2>2, <2>3, <2>4 DEF CallsOK
  <2> QED
    BY <1>2, <1>4, <2>5, LettersSuffice
<1>6. ResultsTypeOK
  BY <1>1 DEF Init, ResultsInit, ResultsTypeOK, Finalizing, RedeliveryAssumption
<1> QED
  BY <1>2, <1>4, <1>5, <1>6
  DEF Init, ResultsInit, TypeOK, Workers, Finalizing, RedeliveryAssumption


\* The values of the calls in a step of one of them.
LEMMA LettersAre ==
  ASSUME TypeOK, LettersMade
  PROVE  /\ CallsOK
         /\ \A c \in Calls :
              /\ doomed[c] \in Seq(made) /\ kept[c] \in Seq(made)
              /\ pc[c] \notin {"new", "pop", "end"} =>
                   /\ doomed[c] # <<>> /\ Head(doomed[c]) \in made
                   /\ Tail(doomed[c]) \in Seq(made)
                   /\ Len(doomed[c]) = 1 <=> Tail(doomed[c]) = <<>>
              /\ pc[c] = "append" =>
                   kept[c] # <<>> /\ Head(kept[c]) \in made /\ Tail(kept[c]) \in Seq(made)
         /\ deadLetters # <<>> => Head(deadLetters) \in made /\ Tail(deadLetters) \in Seq(made)
<1>1. CallsOK
  BY DEF TypeOK, LettersTypeOK, CallsOK
<1>2. deadLetters # <<>> => Head(deadLetters) \in made /\ Tail(deadLetters) \in Seq(made)
  BY HeadTailProperties DEF LettersMade
<1>3. ASSUME NEW c \in Calls
      PROVE  /\ doomed[c] \in Seq(made) /\ kept[c] \in Seq(made)
             /\ doomed[c] # <<>> =>
                  /\ Head(doomed[c]) \in made /\ Tail(doomed[c]) \in Seq(made)
                  /\ Len(doomed[c]) = 1 <=> Tail(doomed[c]) = <<>>
             /\ kept[c] # <<>> => Head(kept[c]) \in made /\ Tail(kept[c]) \in Seq(made)
  <2>1. doomed[c] \in Seq(made) /\ kept[c] \in Seq(made)
    BY DEF LettersMade
  <2>2. ASSUME NEW q \in Seq(made), q # <<>>
        PROVE  /\ Head(q) \in made /\ Tail(q) \in Seq(made)
               /\ Len(q) = 1 <=> Tail(q) = <<>>
    <3>1. /\ Head(q) \in made /\ Tail(q) \in Seq(made) /\ Len(Tail(q)) = Len(q) - 1
          /\ Len(q) \in Nat /\ (Len(Tail(q)) = 0 <=> Tail(q) = <<>>)
      BY <2>2, HeadTailProperties, LenProperties, EmptySeq
    <3> QED
      BY <3>1
  <2> QED
    BY <2>1, <2>2
<1> QED
  BY <1>1, <1>2, <1>3 DEF CallsOK

LEMMA OthersKept ==
  ASSUME NEW S, NEW s \in Seq(S), NEW e
  PROVE  Others(s, e) \in Seq(S)
BY FilterKeeps DEF Others

\* The steps of a call: its own program counter and lists, and what it shares.
LEMMA CallKeepsType ==
  ASSUME RedeliveryAssumption, TypeOK, LettersMade, NEW c \in Calls, CallStep(c) \/ Stop(c)
  PROVE  LettersMade' /\ CallsOK'
<1> DEFINE d == doomed[c]
           k == kept[c]
<1> USE LettersAre DEF LettersMade
<1>1. ASSUME NEW T, NEW label \in {"reset", "read"}, Found(c, Filter(deadLetters, T), label)
      PROVE  LettersMade' /\ CallsOK'
  <2>1. Filter(deadLetters, T) \in Seq(made)
    BY FilterKeeps
  <2> QED
    BY <1>1, <2>1 DEF Found, Goto, CallsOK
<1>2. ASSUME NEW j \in Jobs, Retry(c, j) PROVE LettersMade' /\ CallsOK'
  <2>1. EntriesOf(j) \in Seq(made)
    BY FilterKeeps DEF EntriesOf
  <2>2. FirstOf(EntriesOf(j)) \in Seq(made)
    BY <2>1, HeadTailProperties, EmptySeq DEF FirstOf
  <2> QED
    BY <1>2, <2>2 DEF Retry, Found, Goto, CallsOK
<1>3. ASSUME NEW j \in Jobs, Purge(c, j) PROVE LettersMade' /\ CallsOK'
  <2>1. EntriesOf(j) \in Seq(made)
    BY FilterKeeps DEF EntriesOf
  <2>2. FirstOf(EntriesOf(j)) \in Seq(made)
    BY <2>1, HeadTailProperties, EmptySeq DEF FirstOf
  <2> QED
    BY <1>3, <2>2 DEF Purge, Found, Goto, CallsOK
<1>4. ASSUME NEW cutoff, Cleanup(c, cutoff) PROVE LettersMade' /\ CallsOK'
  BY <1>1, <1>4 DEF Cleanup
<1>5. CASE PopHead(c)
  <2>1. CASE deadLetters = <<>>
    BY <1>5, <2>1 DEF PopHead, Goto, CallsOK
  <2>2. CASE deadLetters # <<>>
    <3>1. <<Head(deadLetters)>> \in Seq(made) /\ <<Head(deadLetters)>> # <<>>
      BY <2>2
    <3> QED
      BY <1>5, <2>2, <3>1 DEF PopHead, Goto, CallsOK
  <2> QED
    BY <2>1, <2>2
<1>6. CASE Reset(c)
  BY <1>6 DEF Reset, Goto, CallsOK
<1>7. CASE Push(c)
  <2>1. d # <<>> /\ Head(d) \in made /\ Head(d).job \in Jobs
    BY <1>7 DEF Push, CallsOK, Entries
  <2>2. ready' \in Seq(Jobs) /\ pushes' \in [Jobs -> Nat]
    BY <1>7, <2>1, AppendProperties DEF Push, CallsOK
  <2>3. removed' \subseteq made /\ <<>> \in Seq(made)
    BY <1>7, <2>1, EmptySeq DEF Push, CallsOK
  <2>4. CASE pc[c] = "push"
    <3>1. /\ pc' = [pc EXCEPT ![c] = "read"] /\ doomed' = doomed /\ removed' = removed
          /\ deadLetters' = deadLetters /\ kept' = kept /\ seen' = seen /\ made' = made
          /\ raced' = raced /\ stops' = stops
      BY <1>7, <2>4 DEF Push, Goto
    <3> QED
      BY <2>1, <2>2, <2>3, <2>4, <3>1 DEF CallsOK
  <2>5. CASE pc[c] = "pushPopped"
    <3>1. /\ pc' = [pc EXCEPT ![c] = "pop"] /\ doomed' = [doomed EXCEPT ![c] = <<>>]
          /\ deadLetters' = deadLetters /\ kept' = kept /\ seen' = seen /\ made' = made
          /\ raced' = raced /\ stops' = stops
      BY <1>7, <2>5 DEF Push, Goto
    <3> QED
      BY <2>1, <2>2, <2>3, <2>5, <3>1 DEF CallsOK
  <2> QED
    BY <1>7, <2>4, <2>5 DEF Push
<1>8. CASE ReadAll(c)
  <2>1. Others(deadLetters, Head(d)) \in Seq(made)
    BY OthersKept
  <2>2. deadLetters \in Seq(Entries)
    BY DEF TypeOK, LettersTypeOK
  <2> QED
    BY <1>8, <2>1, <2>2 DEF ReadAll, Goto, CallsOK
<1>9. CASE Delete(c)
  <2>1. d # <<>> /\ Head(d) \in made /\ k \in Seq(made)
    BY <1>9 DEF Delete
  <2>2. removed' \subseteq made /\ raced' \in BOOLEAN
    BY <1>9, <2>1 DEF Delete, CallsOK
  <2>3. CASE k # <<>>
    BY <1>9, <2>1, <2>2, <2>3, EmptySeq DEF Delete, AfterAppend, Goto, CallsOK
  <2>4. CASE k = <<>>
    BY <1>9, <2>1, <2>2, <2>4, EmptySeq DEF Delete, AfterAppend, Goto, CallsOK
  <2> QED
    BY <2>3, <2>4
<1>10. CASE AppendKept(c)
  <2>1. d # <<>> /\ Head(k) \in made /\ Tail(k) \in Seq(made)
    BY <1>10 DEF AppendKept
  <2>2. deadLetters' \in Seq(made)
    BY <1>10, <2>1, AppendProperties DEF AppendKept
  <2>3. CASE Tail(k) # <<>>
    BY <1>10, <2>1, <2>2, <2>3 DEF AppendKept, AfterAppend, Goto, CallsOK
  <2>4. CASE Tail(k) = <<>>
    BY <1>10, <2>1, <2>2, <2>4 DEF AppendKept, AfterAppend, Goto, CallsOK
  <2> QED
    BY <2>3, <2>4
<1>11. CASE Stop(c)
  BY <1>11, EmptySeq DEF Stop, Goto, CallsOK, RedeliveryAssumption
<1> QED
  BY <1>2, <1>3, <1>4, <1>5, <1>6, <1>7, <1>8, <1>9, <1>10, <1>11 DEF CallStep

-----------------------------------------------------------------------------
(* The types of the workers and of what they write.                        *)

\* Whoever loads pages has read the counters.
ContextRead ==
  \A h \in Handlers :
    step[h] \in {"page", "store"} => context[h] \in [successCount : Nat, failedCount : Nat]

LEMMA PageIs ==
  ASSUME NEW S, results \in Seq(S), PageSize \in Nat \ {0}, NEW offset \in Nat
  PROVE  /\ Page(offset) \in Seq(S)
         /\ \A i \in 1..Len(Page(offset)) : Page(offset)[i] = results[offset + i]
         /\ offset <= Len(results) =>
              /\ offset + Len(Page(offset)) <= Len(results)
              /\ Len(Page(offset)) < PageSize => offset + Len(Page(offset)) = Len(results)
<1> DEFINE n == PageEnd(offset)
           p == SubSeq(results, offset + 1, n)
           L == Len(results)
<1>1. L \in Nat /\ DOMAIN results = 1..L /\ \A i \in 1..L : results[i] \in S
  <2>1. \A T, s : s \in Seq(T) =>
          Len(s) \in Nat /\ DOMAIN s = 1..Len(s) /\ \A i \in 1..Len(s) : s[i] \in T
    BY LenProperties, ElementOfSeq
  <2> QED
    BY <2>1
<1>2. n \in {offset + PageSize, L} /\ n <= offset + PageSize /\ n <= L
  <2>1. offset + PageSize \in Nat /\ L \in Nat
    BY <1>1
  <2>2. \A a, b \in Nat : Min({a, b}) \in {a, b} /\ Min({a, b}) <= a /\ Min({a, b}) <= b
    BY MinOfTwo
  <2> QED
    BY <2>1, <2>2 DEF PageEnd
<1>3. n \in Nat /\ offset + 1 \in Nat
  BY <1>1, <1>2
<1> HIDE DEF n, L
<1>4. \A i \in offset + 1 .. n : results[i] \in S
  BY <1>1, <1>2, <1>3
<1>5. /\ p \in Seq(S) /\ Len(p) = IF offset + 1 <= n THEN n - (offset + 1) + 1 ELSE 0
      /\ \A i \in 1 .. n - (offset + 1) + 1 : p[i] = results[offset + 1 + i - 1]
  BY <1>3, <1>4, SubSeqProperties
<1>6. Page(offset) = p
  BY DEF Page, n
<1> HIDE DEF p
<1>7. \A i \in 1..Len(p) : p[i] = results[offset + i]
  BY <1>3, <1>5
<1>8. offset <= L => offset + Len(p) <= L /\ (Len(p) < PageSize => offset + Len(p) = L)
  BY <1>1, <1>2, <1>3, <1>5
<1> QED
  BY <1>5, <1>6, <1>7, <1>8 DEF L

LEMMA ReduceIs ==
  ASSUME NEW all \in Seq(Results), NEW ctx \in [successCount : Nat, failedCount : Nat]
  PROVE  Reduce(all, ctx) \in [successCount : Nat, failedCount : Nat, failedJobIds : Seq(Members),
                               averagedOver : SUBSET Members]
<1> DEFINE failed == Filter(all, {r \in Range(all) : ~r.success})
<1>1. failed \in Seq(Results)
  BY FilterKeeps
<1>2. Len(failed) \in Nat /\ DOMAIN failed = 1..Len(failed)
      /\ \A i \in 1..Len(failed) : failed[i] \in Results
  BY <1>1, LenProperties, ElementOfSeq
<1>3. DOMAIN all = 1..Len(all) /\ \A i \in DOMAIN all : all[i] \in Results
  BY LenProperties, ElementOfSeq
<1> HIDE DEF failed
<1>4. [i \in DOMAIN failed |-> failed[i].job] \in Seq(Members)
  <2>1. [i \in DOMAIN failed |-> failed[i].job] \in [1..Len(failed) -> Members]
    BY <1>2 DEF Results
  <2> QED
    BY <1>2, <2>1, SeqDef
<1>5. {all[i].job : i \in DOMAIN all} \subseteq Members
  BY <1>3 DEF Results
<1> QED
  BY <1>4, <1>5 DEF Reduce, failed

\* What a worker does to the lists of dead letters.
LEMMA WorkerKeepsLetters ==
  ASSUME RedeliveryAssumption, TypeOK, LettersMade, NEW w \in Workers, WorkerStep(w)
  PROVE  LettersMade' /\ CallsOK' /\ retryCount' \in [Jobs -> 0..MaxRetry]
<1>1. CallsOK /\ retryCount \in [Jobs -> 0..MaxRetry]
  BY LettersAre DEF TypeOK
<1>2. CASE UNCHANGED <<callVars, retryCount>> /\ ready' \in Seq(Jobs)
  BY <1>1, <1>2 DEF callVars, LettersMade, CallsOK
<1>3. CASE Take(w)
  <2>1. ready' \in Seq(Jobs)
    BY <1>1, <1>3, HeadTailProperties DEF Take, Popped, CallsOK
  <2> QED
    BY <1>2, <1>3, <2>1 DEF Take
<1>4. CASE FailAndRequeue(w)
  <2>1. job[w] \in Jobs
    BY <1>4 DEF FailAndRequeue, Fail, TypeOK
  <2>2. ready' \in Seq(Jobs)
    BY <1>1, <1>4, <2>1, AppendProperties DEF FailAndRequeue, CallsOK
  <2>3. Min({retryCount[job[w]] + 1, MaxRetry}) \in 0..MaxRetry
    <3>1. retryCount[job[w]] + 1 \in Nat /\ MaxRetry \in Nat
      BY <1>1, <2>1 DEF RedeliveryAssumption
    <3>2. \A a, b \in Nat : Min({a, b}) \in 0..b
      BY MinOfTwo
    <3> QED
      BY <3>1, <3>2
  <2>4. retryCount' \in [Jobs -> 0..MaxRetry]
    BY <1>1, <1>4, <2>1, <2>3 DEF FailAndRequeue
  <2>5. UNCHANGED callVars
    BY <1>4 DEF FailAndRequeue
  <2> QED
    BY <1>1, <2>2, <2>4, <2>5 DEF callVars, LettersMade, CallsOK
<1>5. CASE FailAndBury(w)
  <2> DEFINE e == [job |-> job[w], failedAt |-> Cardinality(made)]
  <2>1. job[w] \in Jobs
    BY <1>5 DEF FailAndBury, Fail, TypeOK
  <2>2. /\ deadLetters' = Append(deadLetters, e) /\ made' = made \cup {e}
        /\ UNCHANGED <<ready, retryCount, pc, doomed, kept, seen, removed, pushes, raced, stops>>
    BY <1>5 DEF FailAndBury, Bury
  <2>3. e \in Entries /\ IsFiniteSet(made')
    BY <1>1, <2>1, <2>2, FS_CardinalityType, FS_AddElement DEF LettersMade, Entries, CallsOK
  <2> HIDE DEF e
  <2>4. made \subseteq made' /\ e \in made' /\ made' \subseteq Entries
    BY <1>1, <2>2, <2>3 DEF CallsOK
  <2>5. deadLetters \in Seq(made') /\ Seq(made) \subseteq Seq(made')
    BY <2>4, SeqGrows DEF LettersMade
  <2>6. deadLetters' \in Seq(made')
    BY <2>2, <2>4, <2>5, AppendProperties
  <2>7. LettersMade'
    BY <2>2, <2>3, <2>5, <2>6 DEF LettersMade
  <2>8. CallsOK'
    BY <1>1, <2>2, <2>4 DEF CallsOK
  <2> QED
    BY <1>1, <2>2, <2>7, <2>8
<1>6. CASE UNCHANGED letterVars
  BY <1>1, <1>2, <1>6 DEF letterVars, callVars, CallsOK
<1>7. CASE FailForGood(w) \/ RecordEnd(w) \/ AckEnd(w)
  BY <1>6, <1>7 DEF FailForGood, RecordEnd, AckEnd
<1> QED
  BY <1>3, <1>4, <1>5, <1>6, <1>7 DEF WorkerStep

WorkersOK ==
  /\ step \in [Workers -> {"idle", "work", "record", "ack", "lock"} \cup Finalizing]
  /\ job \in [Workers -> Jobs \cup {NoJob}]
  /\ tries \in [Workers -> 0..MaxRetry] /\ buried \in [Workers -> BOOLEAN]
  /\ failures \in 0..MaxFailures
  /\ \A w \in Workers : job[w] # NoJob <=> step[w] \in {"work", "record"}
  /\ \A w \in Workers : tries[w] # 0 => step[w] = "work"

\* A result: the list grows by it, one of the counters by one.
LEMMA RecordKeepsType ==
  ASSUME RedeliveryAssumption, TypeOK, NEW j \in Jobs, NEW success \in BOOLEAN,
         Record(j, success)
  PROVE  results' \in Seq(Results) /\ successCount' \in Nat /\ failedCount' \in Nat
<1>1. [job |-> j, success |-> success] \in Results
  BY DEF Results, RedeliveryAssumption
<1>2. results \in Seq(Results) /\ successCount \in Nat /\ failedCount \in Nat
  BY DEF TypeOK, ResultsTypeOK
<1>3. results' \in Seq(Results)
  BY <1>1, <1>2, AppendProperties DEF Record
<1>4. \A b : CountIf(b) \in Nat
  BY DEF CountIf
<1>5. successCount' = successCount + CountIf(success) /\ failedCount' = failedCount + CountIf(~success)
  BY DEF Record
<1> QED
  BY <1>2, <1>3, <1>4, <1>5

LEMMA WorkerKeepsResults ==
  ASSUME RedeliveryAssumption, TypeOK, ContextRead, NEW w \in Workers, WorkerStep(w)
  PROVE  ResultsTypeOK' /\ WorkersOK' /\ ContextRead'
<1>1. ResultsTypeOK /\ WorkersOK /\ ready \in Seq(Jobs) /\ retryCount \in [Jobs -> 0..MaxRetry]
  BY DEF TypeOK, WorkersOK, LettersTypeOK
<1>2. CASE Take(w)
  <2>1. Head(ready) \in Jobs
    BY <1>1, <1>2, HeadTailProperties DEF Take
  <2>2. ResultsTypeOK'
    BY <1>1, <1>2 DEF Take, Then, counters, aggregates, ResultsTypeOK, Finalizing, Workers
  <2>3. WorkersOK' /\ ContextRead'
    BY <1>1, <1>2, <2>1
    DEF Take, Then, counters, aggregates, WorkersOK, ContextRead, Workers, RedeliveryAssumption
  <2> QED
    BY <2>2, <2>3
<1>3. CASE FailAndRequeue(w)
  <2>1. ResultsTypeOK'
    BY <1>1, <1>3
    DEF FailAndRequeue, Fail, Then, counters, aggregates, ResultsTypeOK, Finalizing, Workers
  <2>2. WorkersOK' /\ ContextRead'
    BY <1>1, <1>3
    DEF FailAndRequeue, Fail, Then, counters, aggregates, WorkersOK, ContextRead, Workers,
        RedeliveryAssumption
  <2> QED
    BY <2>1, <2>2
<1>4. CASE FailAndBury(w)
  <2>1. ResultsTypeOK'
    BY <1>1, <1>4
    DEF FailAndBury, Fail, Then, counters, aggregates, ResultsTypeOK, Finalizing, Workers
  <2>2. WorkersOK' /\ ContextRead'
    BY <1>1, <1>4
    DEF FailAndBury, Fail, Then, counters, aggregates, WorkersOK, ContextRead, Workers,
        RedeliveryAssumption
  <2> QED
    BY <2>1, <2>2
<1>5. CASE FailForGood(w)
  <2>1. job[w] \in Jobs
    BY <1>1, <1>5 DEF FailForGood, Fail, WorkersOK
  <2>2. results' \in Seq(Results) /\ successCount' \in Nat /\ failedCount' \in Nat
    BY <1>5, <2>1, RecordKeepsType DEF FailForGood
  <2>3. ResultsTypeOK'
    BY <1>1, <1>5, <2>2
    DEF FailForGood, Fail, Then, aggregates, ResultsTypeOK, Finalizing, Workers
  <2>4. WorkersOK' /\ ContextRead'
    BY <1>1, <1>5
    DEF FailForGood, Fail, Then, aggregates, WorkersOK, ContextRead, Workers, RedeliveryAssumption
  <2> QED
    BY <2>3, <2>4
<1>6. CASE RecordEnd(w)
  <2>1. job[w] \in Jobs /\ step[w] \in {"work", "record"}
    BY <1>1, <1>6 DEF RecordEnd, WorkersOK
  <2>2. results' \in Seq(Results) /\ successCount' \in Nat /\ failedCount' \in Nat
    <3>1. Record(job[w], TRUE) \/ Record(job[w], FALSE)
      <4>1. buried[w] = TRUE \/ buried[w] = FALSE
        BY <1>1 DEF WorkersOK
      <4>2. Record(job[w], ~buried[w])
        BY <1>6 DEF RecordEnd
      <4>3. (~TRUE) = FALSE /\ (~FALSE) = TRUE
        OBVIOUS
      <4> QED
        BY <4>1, <4>2, <4>3
    <3> QED
      BY <2>1, <3>1, RecordKeepsType
  <2>3. ResultsTypeOK'
    <3>1. step' = [step EXCEPT ![w] = "ack"] /\ UNCHANGED aggregates
      BY <1>6 DEF RecordEnd, Then
    <3>2. step'[w] = "ack" /\ \A h \in Handlers \ {w} : step'[h] = step[h]
      BY <1>1, <3>1 DEF WorkersOK, Workers
    <3>3. \A h \in Handlers : step'[h] \in Finalizing <=> lockedBy' = h
      BY <1>1, <2>1, <3>1, <3>2 DEF ResultsTypeOK, Finalizing, aggregates, Workers
    <3> QED
      BY <1>1, <2>2, <3>1, <3>3 DEF ResultsTypeOK, aggregates
  <2>4. WorkersOK' /\ ContextRead'
    BY <1>1, <1>6, <2>1
    DEF RecordEnd, Then, aggregates, WorkersOK, ContextRead, Workers, RedeliveryAssumption
  <2> QED
    BY <2>3, <2>4
<1>7. CASE AckEnd(w)
  <2>1. status' \in {"RUNNING", "AGGREGATING", "COMPLETED"} /\ doneJobs' \in Nat
    BY <1>1, <1>7 DEF AckEnd, Acknowledge, ResultsTypeOK
  <2>2. step' \in [Workers -> {"idle", "work", "record", "ack", "lock"} \cup Finalizing]
        /\ step'[w] \in {"idle", "lock"} /\ step[w] = "ack"
        /\ \A v \in Workers \ {w} : step'[v] = step[v]
    BY <1>1, <1>7 DEF AckEnd, Then, WorkersOK
  <2>3. UNCHANGED <<counters, stored, lockedBy, context, mapped, job, tries, failures>>
    BY <1>7 DEF AckEnd
  <2>4. ResultsTypeOK'
    BY <1>1, <2>1, <2>2, <2>3 DEF counters, ResultsTypeOK, Finalizing, Workers
  <2>5. buried' \in [Workers -> BOOLEAN]
    BY <1>1, <1>7 DEF AckEnd, WorkersOK
  <2>6. WorkersOK' /\ ContextRead'
    BY <1>1, <2>2, <2>3, <2>5 DEF WorkersOK, ContextRead, Workers
  <2> QED
    BY <2>4, <2>6
<1>8. CASE FinalizeStep(w) /\ UNCHANGED <<letterVars, workerVars>>
  <2>1. FinalizeStep(w) /\ UNCHANGED <<job, tries, buried, failures>>
    BY <1>8 DEF workerVars
  <2>2. WorkersOK'
    <3>1. step \in [Workers -> {"idle", "work", "record", "ack", "lock"} \cup Finalizing]
      BY <1>1 DEF WorkersOK
    <3>2. /\ step[w] \in {"lock"} \cup Finalizing
          /\ \E label \in {"idle"} \cup Finalizing : step' = [step EXCEPT ![w] = label]
      BY <2>1
      DEF FinalizeStep, Lock, ReadStatus, ReadContext, LoadPage, StoreResult, CompleteGroup, Unlock,
          Then, Finalizing
    <3> QED
      BY <1>1, <2>1, <3>1, <3>2 DEF WorkersOK, Finalizing, Workers
  <2> DEFINE Moves(from, to) ==
               /\ step[w] = from /\ step'[w] \in to
               /\ \A h \in Handlers \ {w} : step'[h] = step[h]
  <2>3. CASE Lock(w)
    <3>1. Moves("lock", {"idle", "status"})
      BY <1>1, <2>3 DEF Lock, Then, WorkersOK, Workers
    <3>2. \/ lockedBy' = w /\ lockedBy = None /\ step' = [step EXCEPT ![w] = "status"]
          \/ lockedBy' = lockedBy /\ step' = [step EXCEPT ![w] = "idle"]
      BY <2>3 DEF Lock, LockFree, Then
    <3>3. UNCHANGED <<results, successCount, failedCount, doneJobs, status, stored, context, mapped>>
      BY <2>3 DEF Lock
    <3>4. w # None
      BY DEF RedeliveryAssumption, Workers
    <3>5. \A h \in Handlers : step'[h] \in Finalizing <=> lockedBy' = h
      BY <1>1, <3>1, <3>2, <3>4 DEF ResultsTypeOK, WorkersOK, Finalizing, Workers,
                                     RedeliveryAssumption
    <3>6. lockedBy' \in Handlers \cup {None}
      BY <1>1, <3>2 DEF ResultsTypeOK, Workers
    <3>7. ResultsTypeOK'
      BY <1>1, <3>3, <3>5, <3>6 DEF ResultsTypeOK
    <3> QED
      BY <2>2, <3>1, <3>3, <3>7 DEF ContextRead
  <2>4. CASE ReadStatus(w)
    <3>1. Moves("status", {"context", "unlock"})
      BY <1>1, <2>4 DEF ReadStatus, Then, WorkersOK, Workers
    <3>2. UNCHANGED <<results, successCount, failedCount, doneJobs, status, stored, lockedBy,
                      context, mapped>>
      BY <2>4 DEF ReadStatus
    <3>3. \A h \in Handlers : step'[h] \in Finalizing <=> lockedBy' = h
      BY <1>1, <3>1, <3>2 DEF ResultsTypeOK, Finalizing, Workers
    <3>4. ResultsTypeOK'
      BY <1>1, <3>2, <3>3 DEF ResultsTypeOK
    <3> QED
      BY <2>2, <3>1, <3>2, <3>4 DEF ContextRead
  <2>5. CASE ReadContext(w)
    <3>1. Moves("context", {"page"})
      BY <1>1, <2>5 DEF ReadContext, Then, WorkersOK, Workers
    <3>2. UNCHANGED <<results, successCount, failedCount, doneJobs, status, stored, lockedBy, mapped>>
      BY <2>5 DEF ReadContext
    <3>3. \A h \in Handlers : step'[h] \in Finalizing <=> lockedBy' = h
      BY <1>1, <3>1, <3>2 DEF ResultsTypeOK, Finalizing, Workers
    <3> DEFINE ctx == [successCount |-> successCount, failedCount |-> failedCount]
    <3>4. context' = [context EXCEPT ![w] = ctx]
      BY <2>5 DEF ReadContext
    <3>5. ctx \in [successCount : Nat, failedCount : Nat]
      BY <1>1 DEF ResultsTypeOK
    <3> HIDE DEF ctx
    <3>6. context' \in [Handlers -> {None} \cup [successCount : Nat, failedCount : Nat]]
      BY <1>1, <3>4, <3>5 DEF ResultsTypeOK
    <3>7. ResultsTypeOK'
      BY <1>1, <3>2, <3>3, <3>6 DEF ResultsTypeOK
    <3>8. context'[w] = ctx
      BY <1>1, <3>4 DEF ResultsTypeOK, Workers
    <3> QED
      BY <2>2, <3>1, <3>4, <3>5, <3>7, <3>8 DEF ContextRead, Workers
  <2>6. CASE LoadPage(w)
    <3>1. Moves("page", {"store", "page"})
      BY <1>1, <2>6 DEF LoadPage, Then, WorkersOK, Workers
    <3>2. UNCHANGED <<results, successCount, failedCount, doneJobs, status, stored, lockedBy, context>>
      BY <2>6 DEF LoadPage
    <3>3. \A h \in Handlers : step'[h] \in Finalizing <=> lockedBy' = h
      BY <1>1, <3>1, <3>2 DEF ResultsTypeOK, Finalizing, Workers
    <3> DEFINE all == mapped[w] \o Page(Len(mapped[w]))
    <3>4. mapped' = [mapped EXCEPT ![w] = all]
      BY <2>6 DEF LoadPage
    <3>5. all \in Seq(Results)
      <4>1. mapped[w] \in Seq(Results) /\ Len(mapped[w]) \in Nat
        BY <1>1, LenProperties DEF ResultsTypeOK, Workers
      <4>2. Page(Len(mapped[w])) \in Seq(Results)
        BY <1>1, <4>1, PageIs DEF ResultsTypeOK, RedeliveryAssumption
      <4> QED
        BY <4>1, <4>2, ConcatProperties
    <3> HIDE DEF all
    <3>6. mapped' \in [Handlers -> Seq(Results)]
      BY <1>1, <3>4, <3>5 DEF ResultsTypeOK
    <3>7. ResultsTypeOK'
      BY <1>1, <3>2, <3>3, <3>6 DEF ResultsTypeOK
    <3> QED
      BY <2>2, <3>1, <3>2, <3>7 DEF ContextRead, Workers
  <2>7. CASE StoreResult(w)
    <3>1. Moves("store", {"complete"})
      BY <1>1, <2>7 DEF StoreResult, Then, WorkersOK, Workers
    <3>2. UNCHANGED <<results, successCount, failedCount, doneJobs, status, lockedBy>>
      BY <2>7 DEF StoreResult
    <3>3. \A h \in Handlers : step'[h] \in Finalizing <=> lockedBy' = h
      BY <1>1, <3>1, <3>2 DEF ResultsTypeOK, Finalizing, Workers
    <3>4. stored' \in [successCount : Nat, failedCount : Nat, failedJobIds : Seq(Members),
                       averagedOver : SUBSET Members]
      <4>1. mapped[w] \in Seq(Results) /\ context[w] \in [successCount : Nat, failedCount : Nat]
        BY <1>1, <3>1 DEF ResultsTypeOK, Workers, ContextRead
      <4>2. stored' = Reduce(mapped[w], context[w])
        BY <2>7 DEF StoreResult
      <4> QED
        BY <4>1, <4>2, ReduceIs
    <3>5. /\ mapped' = [mapped EXCEPT ![w] = <<>>] /\ context' = [context EXCEPT ![w] = None]
          /\ <<>> \in Seq(Results)
      BY <2>7, EmptySeq DEF StoreResult
    <3>6. /\ mapped' \in [Handlers -> Seq(Results)]
          /\ context' \in [Handlers -> {None} \cup [successCount : Nat, failedCount : Nat]]
      BY <1>1, <3>5 DEF ResultsTypeOK
    <3>7. ResultsTypeOK'
      BY <1>1, <3>2, <3>3, <3>4, <3>6 DEF ResultsTypeOK
    <3> QED
      BY <2>2, <3>1, <3>5, <3>7 DEF ContextRead, Workers
  <2>8. CASE CompleteGroup(w)
    <3>1. Moves("complete", {"unlock"})
      BY <1>1, <2>8 DEF CompleteGroup, Then, WorkersOK, Workers
    <3>2. UNCHANGED <<results, successCount, failedCount, doneJobs, stored, lockedBy, context, mapped>>
      BY <2>8 DEF CompleteGroup
    <3>3. \A h \in Handlers : step'[h] \in Finalizing <=> lockedBy' = h
      BY <1>1, <3>1, <3>2 DEF ResultsTypeOK, Finalizing, Workers
    <3>4. status' \in {"RUNNING", "AGGREGATING", "COMPLETED"}
      BY <1>1, <2>8 DEF CompleteGroup, ResultsTypeOK
    <3>5. ResultsTypeOK'
      BY <1>1, <3>2, <3>3, <3>4 DEF ResultsTypeOK
    <3> QED
      BY <2>2, <3>1, <3>2, <3>5 DEF ContextRead
  <2>9. CASE Unlock(w)
    <3>1. Moves("unlock", {"idle"})
      BY <1>1, <2>9 DEF Unlock, Then, WorkersOK, Workers
    <3>2. UNCHANGED <<results, successCount, failedCount, doneJobs, status, stored, context, mapped>>
      BY <2>9 DEF Unlock
    <3>3. lockedBy = w /\ lockedBy' = None /\ None \notin Handlers
      BY <1>1, <2>9, <3>1 DEF Unlock, ResultsTypeOK, Finalizing, Workers, RedeliveryAssumption
    <3>4. \A h \in Handlers : step'[h] \in Finalizing <=> lockedBy' = h
      BY <1>1, <3>1, <3>3 DEF ResultsTypeOK, Finalizing, Workers
    <3>5. ResultsTypeOK'
      BY <1>1, <3>2, <3>3, <3>4 DEF ResultsTypeOK
    <3> QED
      BY <2>2, <3>1, <3>2, <3>5 DEF ContextRead
  <2> QED
    BY <2>1, <2>2, <2>3, <2>4, <2>5, <2>6, <2>7, <2>8, <2>9 DEF FinalizeStep
<1> QED
  BY <1>2, <1>3, <1>4, <1>5, <1>6, <1>7, <1>8 DEF WorkerStep

RetriesOK == retryCount \in [Jobs -> 0..MaxRetry]

Types == TypeOK /\ LettersMade /\ ContextRead

LEMMA TypesSuffice ==
  LettersMade /\ CallsOK /\ ResultsTypeOK /\ WorkersOK /\ ContextRead
  /\ RetriesOK => Types
<1> SUFFICES ASSUME LettersMade, CallsOK, ResultsTypeOK, WorkersOK, ContextRead, RetriesOK
             PROVE  Types
  OBVIOUS
<1>1. retryCount \in [Jobs -> Nat]
  BY RedeliveryAssumption DEF RedeliveryAssumption, RetriesOK
<1>2. LettersTypeOK
  BY <1>1, LettersSuffice
<1> QED
  BY <1>2 DEF Types, TypeOK, WorkersOK, RetriesOK

LEMMA TypesKept == RedeliveryAssumption /\ Types /\ [Next]_vars => Types'
<1> SUFFICES ASSUME RedeliveryAssumption, Types, [Next]_vars PROVE Types'
  OBVIOUS
<1>0. TypeOK /\ LettersMade /\ ContextRead
  BY DEF Types
<1>1. CallsOK /\ ResultsTypeOK /\ WorkersOK /\ RetriesOK
  BY <1>0, LettersAre DEF TypeOK, WorkersOK, RetriesOK
<1>2. ASSUME NEW c \in Calls, CallStep(c) \/ Stop(c), UNCHANGED <<resultVars, workerVars>>
      PROVE  Types'
  <2>1. LettersMade' /\ CallsOK'
    BY <1>0, <1>2, CallKeepsType
  <2>2. RetriesOK'
    <3>1. CASE Reset(c)
      <4>1. 0 \in 0..MaxRetry
        BY DEF RedeliveryAssumption
      <4>2. retryCount' = [retryCount EXCEPT ![Head(doomed[c]).job] = 0]
        BY <3>1 DEF Reset
      <4> QED
        BY <1>1, <4>1, <4>2 DEF RetriesOK
    <3>2. CASE UNCHANGED retryCount
      BY <1>1, <3>2 DEF RetriesOK
    <3>3. CASE CallStep(c) /\ ~Reset(c)
      <4>1. ASSUME NEW j \in Jobs, Retry(c, j) \/ Purge(c, j) PROVE UNCHANGED retryCount
        BY <4>1 DEF Retry, Purge, Found
      <4>2. ASSUME NEW cutoff, Cleanup(c, cutoff) PROVE UNCHANGED retryCount
        BY <4>2 DEF Cleanup, Found
      <4>3. PopHead(c) \/ ReadAll(c) \/ Delete(c) \/ AppendKept(c) => UNCHANGED retryCount
        BY DEF PopHead, ReadAll, Delete, AppendKept
      <4>4. Push(c) => UNCHANGED retryCount
        BY DEF Push
      <4> QED
        BY <3>2, <3>3, <4>1, <4>2, <4>3, <4>4 DEF CallStep
    <3>4. CASE Stop(c)
      BY <3>2, <3>4 DEF Stop
    <3> QED
      BY <1>2, <3>1, <3>3, <3>4
  <2>3. ResultsTypeOK' /\ WorkersOK' /\ ContextRead'
    BY <1>0, <1>1, <1>2 DEF resultVars, workerVars, ResultsTypeOK, WorkersOK, ContextRead
  <2> QED
    BY <2>1, <2>2, <2>3, TypesSuffice, PTL
<1>3. ASSUME NEW w \in Workers, WorkerStep(w) PROVE Types'
  <2>1. /\ LettersMade' /\ CallsOK' /\ RetriesOK'
        /\ ResultsTypeOK' /\ WorkersOK' /\ ContextRead'
    BY <1>0, <1>3, WorkerKeepsLetters, WorkerKeepsResults DEF RetriesOK
  <2> QED
    BY <2>1, TypesSuffice, PTL
<1>4. CASE UNCHANGED vars
  BY <1>0, <1>4
  DEF vars, letterVars, resultVars, workerVars, Types, TypeOK, LettersTypeOK, ResultsTypeOK,
      LettersMade, ContextRead
<1> QED
  BY <1>2, <1>3, <1>4 DEF Next

\* The keys and the local variables of calls and workers keep their types,
\* however calls of the dead letter queue, workers and finalizers interleave.
THEOREM TypeCorrect == Spec => []TypeOK
<1>1. RedeliveryAssumption
  BY RedeliveryAssumption
<1>2. Init => Types
  BY <1>1, InitTypeOK DEF Types, Init, ResultsInit, ContextRead
<1>3. Types /\ [Next]_vars => Types'
  BY <1>1, TypesKept
<1>4. Types => TypeOK
  BY DEF Types
<1> QED
  BY <1>2, <1>3, <1>4, PTL DEF Spec

-----------------------------------------------------------------------------
(* Every handling of a job was asked for.                                  *)

Holders(j) == Cardinality({w \in Workers : job[w] = j})

LEMMA HoldersChange ==
  ASSUME RedeliveryAssumption, NEW w \in Workers, \A v \in Workers \ {w} : job'[v] = job[v], NEW j
  PROVE  /\ Holders(j) \in Nat /\ Holders(j)' \in Nat
         /\ Holders(j)' + CountIf(job[w] = j) = Holders(j) + CountIf(job'[w] = j)
<1> DEFINE H == {v \in Workers : job[v] = j}
           G == {v \in Workers : job'[v] = j}
<1>1. IsFiniteSet(H) /\ IsFiniteSet(G)
  BY FS_Subset DEF RedeliveryAssumption, Workers
<1>2. H \ {w} = G \ {w} /\ (w \in H <=> job[w] = j) /\ (w \in G <=> job'[w] = j)
  OBVIOUS
<1>3. Holders(j) = Cardinality(H) /\ Holders(j)' = Cardinality(G)
  BY DEF Holders
<1> HIDE DEF H, G
<1>4. /\ Cardinality(H) \in Nat /\ Cardinality(H) = Cardinality(H \ {w}) + CountIf(w \in H)
      /\ Cardinality(G) \in Nat /\ Cardinality(G) = Cardinality(G \ {w}) + CountIf(w \in G)
      /\ Cardinality(H \ {w}) \in Nat
  BY <1>1, CardinalityWithout
<1> QED
  BY <1>2, <1>3, <1>4 DEF CountIf

LEMMA EndsChange ==
  ASSUME RedeliveryAssumption, results \in Seq(Results), NEW j
  PROVE  /\ EndsOf(j) \in Nat
         /\ UNCHANGED results => EndsOf(j)' = EndsOf(j)
         /\ \A k \in Jobs, success \in BOOLEAN :
              Record(k, success) => EndsOf(j)' = EndsOf(j) + CountIf(k = j)
<1> DEFINE T == {r \in Results : r.job = j}
<1>1. \A s \in Seq(Results) : {i \in DOMAIN s : s[i].job = j} = {i \in DOMAIN s : s[i] \in T}
  BY LenProperties, ElementOfSeq
<1>2. EndsOf(j) = Matches(results, T)
  BY <1>1 DEF EndsOf, Matches
<1>3. EndsOf(j) \in Nat
  <2>1. [job |-> CHOOSE k \in Jobs : TRUE, success |-> TRUE] \in Results
    BY DEF Results, RedeliveryAssumption
  <2> QED
    BY <1>2, <2>1, AppendMatches
<1>4. ASSUME NEW k \in Jobs, NEW success \in BOOLEAN, Record(k, success)
      PROVE  EndsOf(j)' = EndsOf(j) + CountIf(k = j)
  <2> DEFINE r == [job |-> k, success |-> success]
  <2>1. r \in Results /\ r.job = k /\ results' = Append(results, r)
    BY <1>4 DEF Results, Record, RedeliveryAssumption
  <2> HIDE DEF r
  <2>2. results' \in Seq(Results)
    BY <2>1, AppendProperties
  <2>3. EndsOf(j)' = Matches(results', T)
    BY <1>1, <2>2 DEF EndsOf, Matches
  <2>4. Matches(Append(results, r), T) = Matches(results, T) + CountIf(r \in T)
    BY <2>1, AppendMatches
  <2>5. r \in T <=> k = j
    BY <2>1
  <2> QED
    BY <1>2, <2>1, <2>3, <2>4, <2>5 DEF CountIf
<1> QED
  BY <1>3, <1>4 DEF EndsOf

\* How the three parts of a job's handlings change adds up.
HandlingsAddUp ==
  \A j \in Jobs :
    /\ HandlingsOf(j) = Count(ready, j) + Holders(j) + EndsOf(j)
    /\ Count(ready, j) \in Nat /\ Holders(j) \in Nat /\ EndsOf(j) \in Nat

LEMMA HandlingsAre == Types => HandlingsAddUp
<1> SUFFICES ASSUME Types, NEW j \in Jobs
             PROVE  /\ HandlingsOf(j) = Count(ready, j) + Holders(j) + EndsOf(j)
                    /\ Count(ready, j) \in Nat /\ Holders(j) \in Nat /\ EndsOf(j) \in Nat
  BY DEF HandlingsAddUp
<1>1. RedeliveryAssumption
  BY RedeliveryAssumption
<1>2. TypeOK /\ ready \in Seq(Jobs) /\ results \in Seq(Results)
  BY DEF Types, TypeOK, LettersTypeOK, ResultsTypeOK
<1>3. Count(ready, j) \in Nat
  BY <1>2, PositionsFinite
<1>4. Holders(j) \in Nat
  BY <1>1, FS_Subset, FS_CardinalityType DEF RedeliveryAssumption, Workers, Holders
<1>5. EndsOf(j) \in Nat
  BY <1>1, <1>2, EndsChange
<1> QED
  BY <1>3, <1>4, <1>5 DEF HandlingsOf, Holders

LEMMA HandlingsKept ==
  ASSUME RedeliveryAssumption, Types, Types', HandlingsNeedRetries, [Next]_vars
  PROVE  HandlingsNeedRetries'
<1> SUFFICES ASSUME NEW j \in Jobs PROVE HandlingsOf(j)' = 1 + pushes'[j]
  BY DEF HandlingsNeedRetries
<1> DEFINE R == Count(ready, j)
           H == Holders(j)
           E == EndsOf(j)
<1>1. /\ R + H + E = 1 + pushes[j] /\ pushes[j] \in Nat
      /\ R \in Nat /\ H \in Nat /\ E \in Nat /\ R' \in Nat /\ H' \in Nat /\ E' \in Nat
      /\ HandlingsOf(j)' = R' + H' + E'
  <2>1. /\ HandlingsOf(j)' = Count(ready, j)' + Holders(j)' + EndsOf(j)'
        /\ Count(ready, j)' \in Nat /\ Holders(j)' \in Nat /\ EndsOf(j)' \in Nat
    <3>1. HandlingsAddUp'
      BY HandlingsAre, PTL
    <3> QED
      BY <3>1 DEF HandlingsAddUp
  <2>2. pushes[j] \in Nat
    BY DEF Types, TypeOK, LettersTypeOK
  <2> QED
    BY <2>1, <2>2, HandlingsAre DEF HandlingsNeedRetries, HandlingsAddUp
<1>2. /\ ready \in Seq(Jobs) /\ results \in Seq(Results)
      /\ job \in [Workers -> Jobs \cup {NoJob}] /\ buried \in [Workers -> BOOLEAN]
      /\ \A w \in Workers : job[w] # NoJob <=> step[w] \in {"work", "record"}
      /\ j # NoJob /\ CallsOK
  BY LettersAre DEF Types, TypeOK, LettersTypeOK, ResultsTypeOK, RedeliveryAssumption
<1>3. /\ UNCHANGED ready => R' = R
      /\ UNCHANGED job => H' = H
      /\ UNCHANGED results => E' = E
  BY DEF Holders, EndsOf, Workers
<1> HIDE DEF R, H, E
<1>4. CASE UNCHANGED <<ready, job, results, pushes>>
  BY <1>1, <1>3, <1>4
<1>5. ASSUME NEW c \in Calls, CallStep(c) \/ Stop(c), UNCHANGED <<resultVars, workerVars>>
      PROVE  R' + H' + E' = 1 + pushes'[j]
  <2>1. H' = H /\ E' = E
    BY <1>3, <1>5 DEF resultVars, workerVars
  <2>2. CASE Push(c)
    <3> DEFINE k == Head(doomed[c]).job
    <3>1. k \in Jobs /\ ready' = Append(ready, k) /\ pushes' = [pushes EXCEPT ![k] = @ + 1]
      <4>1. Head(doomed[c]) \in made /\ made \subseteq Entries
        BY <1>2, <2>2, LettersAre DEF Push, Types, CallsOK
      <4> QED
        BY <2>2, <4>1 DEF Push, Entries
    <3> HIDE DEF k
    <3>2. R' = R + CountIf(j = k)
      BY <1>2, <3>1, AppendCount DEF R
    <3>3. pushes'[j] = pushes[j] + CountIf(j = k)
      <4>1. pushes \in [Jobs -> Nat]
        BY <1>2 DEF CallsOK
      <4> QED
        BY <3>1, <4>1 DEF CountIf
    <3>4. CountIf(j = k) \in Nat
      BY DEF CountIf
    <3> QED
      BY <1>1, <2>1, <3>2, <3>3, <3>4
  <2>3. CASE UNCHANGED <<ready, pushes>>
    BY <1>1, <1>3, <2>1, <2>3
  <2>4. CASE ~Push(c)
    <3>1. ASSUME NEW k \in Jobs, Retry(c, k) \/ Purge(c, k) PROVE UNCHANGED <<ready, pushes>>
      BY <3>1 DEF Retry, Purge, Found
    <3>2. ASSUME NEW cutoff, Cleanup(c, cutoff) PROVE UNCHANGED <<ready, pushes>>
      BY <3>2 DEF Cleanup, Found
    <3>3. PopHead(c) \/ Reset(c) \/ ReadAll(c) => UNCHANGED <<ready, pushes>>
      BY DEF PopHead, Reset, ReadAll
    <3>4. Delete(c) \/ AppendKept(c) \/ Stop(c) => UNCHANGED <<ready, pushes>>
      BY DEF Delete, AppendKept, Stop
    <3> QED
      BY <1>5, <2>3, <2>4, <3>1, <3>2, <3>3, <3>4 DEF CallStep
  <2> QED
    BY <2>2, <2>4
<1>6. ASSUME NEW w \in Workers, WorkerStep(w) PROVE R' + H' + E' = 1 + pushes'[j]
  <2>1. ASSUME NEW x, job' = [job EXCEPT ![w] = x]
        PROVE  H' + CountIf(job[w] = j) = H + CountIf(x = j)
    <3>1. job'[w] = x /\ \A v \in Workers \ {w} : job'[v] = job[v]
      BY <1>2, <2>1
    <3>2. Holders(j)' + CountIf(job[w] = j) = Holders(j) + CountIf(job'[w] = j)
      BY <3>1, HoldersChange
    <3> QED
      BY <3>1, <3>2 DEF H
  <2>2. CountIf(NoJob = j) = 0 /\ \A b : CountIf(b) \in Nat
    BY <1>2 DEF CountIf
  <2>3. CASE Take(w)
    <3>1. /\ ready # <<>> /\ ready' = Tail(ready) /\ job' = [job EXCEPT ![w] = Head(ready)]
          /\ job[w] = NoJob /\ UNCHANGED <<results, pushes>>
      BY <1>2, <2>3 DEF Take, Popped, counters, callVars
    <3>2. R = R' + CountIf(j = Head(ready))
      BY <1>2, <3>1, TailCount DEF R
    <3>3. H' = H + CountIf(j = Head(ready))
      <4>1. H' + CountIf(NoJob = j) = H + CountIf(Head(ready) = j)
        BY <2>1, <3>1
      <4>2. CountIf(Head(ready) = j) = CountIf(j = Head(ready))
        BY DEF CountIf
      <4> QED
        BY <1>1, <2>2, <4>1, <4>2
    <3>4. E' = E /\ pushes'[j] = pushes[j]
      BY <1>3, <3>1
    <3> QED
      BY <1>1, <2>2, <3>2, <3>3, <3>4
  <2>4. CASE FailAndRequeue(w)
    <3>1. /\ job[w] \in Jobs /\ ready' = Append(ready, job[w])
          /\ job' = [job EXCEPT ![w] = NoJob] /\ UNCHANGED <<results, pushes>>
      BY <1>2, <2>4 DEF FailAndRequeue, Fail, counters, callVars
    <3>2. R' = R + CountIf(j = job[w])
      BY <1>2, <3>1, AppendCount DEF R
    <3>3. H' + CountIf(j = job[w]) = H
      <4>1. H' + CountIf(job[w] = j) = H + CountIf(NoJob = j)
        BY <2>1, <3>1
      <4>2. CountIf(job[w] = j) = CountIf(j = job[w])
        BY DEF CountIf
      <4> QED
        BY <1>1, <2>2, <4>1, <4>2
    <3>4. E' = E /\ pushes'[j] = pushes[j]
      BY <1>3, <3>1
    <3> QED
      BY <1>1, <2>2, <3>2, <3>3, <3>4
  <2>5. ASSUME NEW success \in BOOLEAN, Record(job[w], success), job[w] \in Jobs,
               job' = [job EXCEPT ![w] = NoJob], UNCHANGED <<ready, pushes>>
        PROVE  R' + H' + E' = 1 + pushes'[j]
    <3>1. E' = E + CountIf(job[w] = j)
      BY <1>2, <2>5, EndsChange DEF E
    <3>2. H' + CountIf(job[w] = j) = H + CountIf(NoJob = j)
      BY <2>1, <2>5
    <3>3. R' = R /\ pushes'[j] = pushes[j]
      BY <1>3, <2>5
    <3> QED
      BY <1>1, <2>2, <3>1, <3>2, <3>3
  <2>6. CASE FailForGood(w)
    BY <1>2, <2>5, <2>6 DEF FailForGood, Fail, letterVars
  <2>7. CASE RecordEnd(w)
    <3>1. Record(job[w], TRUE) \/ Record(job[w], FALSE)
      <4>1. buried[w] = TRUE \/ buried[w] = FALSE
        BY <1>2
      <4>2. Record(job[w], ~buried[w])
        BY <2>7 DEF RecordEnd
      <4>3. (~TRUE) = FALSE /\ (~FALSE) = TRUE
        OBVIOUS
      <4> QED
        BY <4>1, <4>2, <4>3
    <3>2. /\ job[w] \in Jobs /\ job' = [job EXCEPT ![w] = NoJob] /\ UNCHANGED <<ready, pushes>>
      BY <1>2, <2>7 DEF RecordEnd, letterVars
    <3> QED
      BY <2>5, <3>1, <3>2
  <2>8. CASE FailAndBury(w) \/ AckEnd(w)
    BY <1>1, <1>4, <2>8 DEF FailAndBury, Fail, Bury, AckEnd, counters, letterVars
  <2>9. CASE FinalizeStep(w) /\ UNCHANGED <<letterVars, workerVars>>
    <3>1. UNCHANGED results
      BY <2>9
      DEF FinalizeStep, Lock, ReadStatus, ReadContext, LoadPage, StoreResult, CompleteGroup, Unlock
    <3> QED
      BY <1>1, <1>4, <2>9, <3>1 DEF letterVars, workerVars
  <2> QED
    BY <1>6, <2>3, <2>4, <2>6, <2>7, <2>8, <2>9 DEF WorkerStep
<1>7. CASE UNCHANGED vars
  BY <1>1, <1>4, <1>7 DEF vars, letterVars, resultVars, workerVars
<1> QED
  BY <1>1, <1>5, <1>6, <1>7 DEF Next

LEMMA FirstHandlings == RedeliveryAssumption /\ Init => HandlingsNeedRetries
<1> SUFFICES ASSUME RedeliveryAssumption, Init, NEW j \in Jobs PROVE HandlingsOf(j) = 1 + pushes[j]
  BY DEF HandlingsNeedRetries
<1>1. Count(ready, j) = 1
  BY FirstList DEF Init, LettersInit, RedeliveryAssumption
<1>2. {w \in Workers : job[w] = j} = {} /\ {i \in DOMAIN results : results[i].job = j} = {}
  BY DEF Init, ResultsInit, RedeliveryAssumption
<1>3. pushes[j] = 0
  BY DEF Init, LettersInit
<1> QED
  BY <1>1, <1>2, <1>3, FS_EmptySet DEF HandlingsOf, EndsOf

\* A job is handled once, and once more for every push of a retry: it is in the
\* ready queue, with a worker or in the results as often as it was asked for.
THEOREM HandlingsAreAsked == Spec => []HandlingsNeedRetries
<1>1. RedeliveryAssumption
  BY RedeliveryAssumption
<1>2. Init => Types /\ HandlingsNeedRetries
  BY <1>1, InitTypeOK, FirstHandlings DEF Types, Init, ResultsInit, ContextRead
<1>3. Types /\ HandlingsNeedRetries /\ [Next]_vars => (Types /\ HandlingsNeedRetries)'
  BY <1>1, TypesKept, HandlingsKept
<1> QED
  BY <1>2, <1>3, PTL DEF Spec

-----------------------------------------------------------------------------
(* Rewriting the list is exact.  An entry that was made is in one place:   *)
(* the four parts of PlacesOf add up to one, and to nothing for an entry   *)
(* that was not made.  A call that deletes the list puts back what it has  *)
(* read, and it has read the whole list when nobody raced it.              *)

InKept(c, e) == pc[c] = "append" /\ e \in Range(kept[c])
IsPopped(c, e) == pc[c] \in {"resetPopped", "pushPopped"} /\ Head(doomed[c]) = e

KeptOf(e) == Cardinality({c \in Calls : InKept(c, e)})
PoppedOf(e) == Cardinality({c \in Calls : IsPopped(c, e)})

PlacesAddUp ==
  \A e \in Entries :
    /\ PlacesOf(e) = Count(deadLetters, e) + KeptOf(e) + PoppedOf(e) + CountIf(e \in removed)
    /\ Count(deadLetters, e) \in Nat /\ KeptOf(e) \in Nat /\ PoppedOf(e) \in Nat

LEMMA PlacesAre == Types => PlacesAddUp
<1> SUFFICES ASSUME Types, NEW e \in Entries
             PROVE  /\ PlacesOf(e) = Count(deadLetters, e) + KeptOf(e) + PoppedOf(e)
                                       + CountIf(e \in removed)
                    /\ Count(deadLetters, e) \in Nat /\ KeptOf(e) \in Nat /\ PoppedOf(e) \in Nat
  BY DEF PlacesAddUp
<1>1. Count(deadLetters, e) \in Nat
  BY PositionsFinite DEF Types, LettersMade
<1>2. \A S \in SUBSET Calls : Cardinality(S) \in Nat
  BY RedeliveryAssumption, FS_Subset, FS_CardinalityType DEF RedeliveryAssumption
<1>3. KeptOf(e) \in Nat /\ PoppedOf(e) \in Nat
  BY <1>2 DEF KeptOf, PoppedOf
<1> QED
  BY <1>1, <1>3 DEF PlacesOf, KeptOf, PoppedOf, InKept, IsPopped

\* A set of calls in a step of one call.
LEMMA CallsChange ==
  ASSUME NEW c \in Calls, NEW H \in SUBSET Calls, NEW G \in SUBSET Calls, H \ {c} = G \ {c}
  PROVE  Cardinality(G) + CountIf(c \in H) = Cardinality(H) + CountIf(c \in G)
<1>1. IsFiniteSet(H) /\ IsFiniteSet(G)
  BY RedeliveryAssumption, FS_Subset DEF RedeliveryAssumption
<1>2. /\ Cardinality(H) = Cardinality(H \ {c}) + CountIf(c \in H)
      /\ Cardinality(G) = Cardinality(G \ {c}) + CountIf(c \in G)
      /\ Cardinality(H \ {c}) \in Nat
  BY <1>1, CardinalityWithout
<1> QED
  BY <1>2 DEF CountIf

OnlyCall(c) ==
  \A b \in Calls \ {c} :
    pc'[b] = pc[b] /\ doomed'[b] = doomed[b] /\ kept'[b] = kept[b] /\ seen'[b] = seen[b]

LEMMA PlacesChange ==
  ASSUME NEW c \in Calls, OnlyCall(c), NEW e
  PROVE  /\ KeptOf(e)' + CountIf(InKept(c, e)) = KeptOf(e) + CountIf(InKept(c, e)')
         /\ PoppedOf(e)' + CountIf(IsPopped(c, e)) = PoppedOf(e) + CountIf(IsPopped(c, e)')
<1>1. \A b \in Calls \ {c} : (InKept(b, e)' <=> InKept(b, e)) /\ (IsPopped(b, e)' <=> IsPopped(b, e))
  BY DEF OnlyCall, InKept, IsPopped
<1> DEFINE H1 == {b \in Calls : InKept(b, e)}
           G1 == {b \in Calls : InKept(b, e)'}
           H2 == {b \in Calls : IsPopped(b, e)}
           G2 == {b \in Calls : IsPopped(b, e)'}
<1>2. H1 \ {c} = G1 \ {c} /\ H2 \ {c} = G2 \ {c}
  BY <1>1
<1>3. /\ KeptOf(e) = Cardinality(H1) /\ KeptOf(e)' = Cardinality(G1)
      /\ PoppedOf(e) = Cardinality(H2) /\ PoppedOf(e)' = Cardinality(G2)
  BY DEF KeptOf, PoppedOf
<1>4. /\ c \in H1 <=> InKept(c, e)
      /\ c \in G1 <=> InKept(c, e)'
      /\ c \in H2 <=> IsPopped(c, e)
      /\ c \in G2 <=> IsPopped(c, e)'
  OBVIOUS
<1>5. /\ H1 \in SUBSET Calls /\ G1 \in SUBSET Calls
      /\ H2 \in SUBSET Calls /\ G2 \in SUBSET Calls
  OBVIOUS
<1> HIDE DEF H1, G1, H2, G2
<1>6. /\ Cardinality(G1) + CountIf(c \in H1) = Cardinality(H1) + CountIf(c \in G1)
      /\ Cardinality(G2) + CountIf(c \in H2) = Cardinality(H2) + CountIf(c \in G2)
  BY <1>2, <1>5, CallsChange
<1> QED
  BY <1>3, <1>4, <1>6 DEF CountIf

\* A step of a call leaves the variables of the other calls alone.
LEMMA CallFrame ==
  ASSUME Types, NEW c \in Calls, CallStep(c) \/ Stop(c)
  PROVE  OnlyCall(c) /\ (pc'[c] = "delete" => ReadAll(c))
<1>1. CallsOK
  BY LettersAre DEF Types
<1>2. Calls \subseteq DOMAIN pc /\ Calls \subseteq DOMAIN doomed
      /\ Calls \subseteq DOMAIN kept /\ Calls \subseteq DOMAIN seen
  BY <1>1 DEF CallsOK, Types, LettersMade
<1>3. ASSUME NEW entries, NEW label \in {"reset", "read"}, Found(c, entries, label)
      PROVE  OnlyCall(c) /\ pc'[c] # "delete"
  BY <1>2, <1>3 DEF Found, Goto, OnlyCall
<1>4. ASSUME NEW j \in Jobs, Retry(c, j) \/ Purge(c, j) PROVE OnlyCall(c) /\ pc'[c] # "delete"
  BY <1>3, <1>4 DEF Retry, Purge
<1>5. ASSUME NEW cutoff, Cleanup(c, cutoff) PROVE OnlyCall(c) /\ pc'[c] # "delete"
  BY <1>3, <1>5 DEF Cleanup
<1>6. PopHead(c) => OnlyCall(c) /\ pc'[c] # "delete"
  BY <1>2 DEF PopHead, Goto, OnlyCall
<1>7. Reset(c) => OnlyCall(c) /\ pc'[c] # "delete"
  BY <1>2 DEF Reset, Goto, OnlyCall
<1>11. Push(c) => OnlyCall(c) /\ pc'[c] # "delete"
  BY <1>2 DEF Push, Goto, OnlyCall
<1>8. ReadAll(c) => OnlyCall(c)
  BY <1>2 DEF ReadAll, Goto, OnlyCall
<1>9. Delete(c) \/ AppendKept(c) => OnlyCall(c) /\ pc'[c] # "delete"
  BY <1>2 DEF Delete, AppendKept, AfterAppend, Goto, OnlyCall
<1>10. Stop(c) => OnlyCall(c) /\ pc'[c] # "delete"
  BY <1>2 DEF Stop, Goto, OnlyCall
<1> QED
  BY <1>4, <1>5, <1>6, <1>7, <1>8, <1>9, <1>10, <1>11 DEF CallStep

RewriteReady ==
  \A c \in Calls : pc[c] = "delete" => kept[c] = Others(seen[c], Head(doomed[c]))

LEMMA RewriteReadyKept ==
  ASSUME Types, RewriteReady, [Next]_vars
  PROVE  RewriteReady'
<1>1. ASSUME NEW c \in Calls, CallStep(c) \/ Stop(c) PROVE RewriteReady'
  <2> SUFFICES ASSUME NEW b \in Calls, pc'[b] = "delete"
               PROVE  kept'[b] = Others(seen'[b], Head(doomed'[b]))
    BY DEF RewriteReady
  <2>1. CASE b = c
    <3>1. ReadAll(c)
      BY <1>1, <2>1, CallFrame
    <3>2. CallsOK /\ kept \in [Calls -> Seq(made)]
      BY LettersAre DEF Types, LettersMade
    <3> QED
      BY <2>1, <3>1, <3>2 DEF ReadAll, CallsOK
  <2>2. CASE b # c
    BY <1>1, <2>2, CallFrame DEF OnlyCall, RewriteReady
  <2> QED
    BY <2>1, <2>2
<1>2. CASE UNCHANGED <<pc, doomed, kept, seen>>
  BY <1>2 DEF RewriteReady
<1>3. ASSUME NEW w \in Workers, WorkerStep(w) PROVE UNCHANGED <<pc, doomed, kept, seen>>
  <2>1. Take(w) \/ FailAndRequeue(w) => UNCHANGED <<pc, doomed, kept, seen>>
    BY DEF Take, FailAndRequeue, callVars
  <2>2. FailAndBury(w) => UNCHANGED <<pc, doomed, kept, seen>>
    BY DEF FailAndBury, Bury
  <2>3. FailForGood(w) \/ RecordEnd(w) \/ AckEnd(w) => UNCHANGED <<pc, doomed, kept, seen>>
    BY DEF FailForGood, RecordEnd, AckEnd, letterVars
  <2> QED
    BY <1>3, <2>1, <2>2, <2>3 DEF WorkerStep, letterVars
<1>4. UNCHANGED vars => UNCHANGED <<pc, doomed, kept, seen>>
  BY DEF vars, letterVars
<1> QED
  BY <1>1, <1>2, <1>3, <1>4 DEF Next

EntriesExact ==
  /\ \A e \in Entries : PlacesOf(e) = CountIf(e \in made)
  /\ \A c \in Calls : pc[c] = "append" => \A e \in Entries : Count(kept[c], e) <= 1

LEMMA OthersCount ==
  ASSUME NEW S, NEW s \in Seq(S), NEW h, NEW e \in S
  PROVE  Count(Others(s, h), e) = IF e \in Range(s) \ {h} THEN Count(s, e) ELSE 0
<1> DEFINE T == Range(s) \ {h}
<1> HIDE DEF T
<1>1. Count(Filter(s, T), e) = IF e \in T THEN Count(s, e) ELSE 0
  BY FilterKeeps
<1> QED
  BY <1>1 DEF Others, T

\* A call: what leaves one place comes into another.
LEMMA CallKeepsExact ==
  ASSUME Types, Types', EntriesExact, RewriteReady, NEW c \in Calls, CallStep(c), ~raced'
  PROVE  EntriesExact'
<1>1. OnlyCall(c)
  BY CallFrame
<1>2. CallsOK /\ TypeOK /\ LettersMade /\ made \subseteq Entries
  BY LettersAre DEF Types, CallsOK
<1>3. made' = made
  <2>1. ASSUME NEW j \in Jobs, Retry(c, j) \/ Purge(c, j) PROVE made' = made
    BY <2>1 DEF Retry, Purge, Found
  <2>2. ASSUME NEW cutoff, Cleanup(c, cutoff) PROVE made' = made
    BY <2>2 DEF Cleanup, Found
  <2>3. PopHead(c) \/ Reset(c) \/ Push(c) \/ ReadAll(c) => made' = made
    BY DEF PopHead, Reset, Push, ReadAll
  <2>4. Delete(c) \/ AppendKept(c) => made' = made
    BY DEF Delete, AppendKept
  <2> QED
    BY <2>1, <2>2, <2>3, <2>4 DEF CallStep
<1> SUFFICES ASSUME NEW e \in Entries
             PROVE  /\ PlacesOf(e)' = CountIf(e \in made)
                    /\ pc'[c] = "append" => Count(kept'[c], e) <= 1
  BY <1>1, <1>3 DEF EntriesExact, OnlyCall
<1> DEFINE A == Count(deadLetters, e)
           K == KeptOf(e)
           P == PoppedOf(e)
           D == CountIf(e \in removed)
           M == CountIf(e \in made)
           I == CountIf(InKept(c, e))
           Q == CountIf(IsPopped(c, e))
<1>4. /\ A + K + P + D = M /\ A \in Nat /\ K \in Nat /\ P \in Nat
      /\ PlacesOf(e)' = A' + K' + P' + D' /\ A' \in Nat /\ K' \in Nat /\ P' \in Nat
  <2>1. PlacesAddUp /\ PlacesAddUp'
    BY PlacesAre, PTL
  <2> QED
    BY <2>1 DEF PlacesAddUp, EntriesExact
<1>5. K' + I = K + I' /\ P' + Q = P + Q'
  BY <1>1, PlacesChange
<1>6. /\ D \in 0..1 /\ M \in 0..1 /\ I \in 0..1 /\ Q \in 0..1
      /\ D' \in 0..1 /\ I' \in 0..1 /\ Q' \in 0..1
  BY DEF CountIf
<1>7. I <= K /\ Q <= P
  <2>1. \A S \in SUBSET Calls : c \in S => Cardinality(S) >= 1
    <3>1. ASSUME NEW S \in SUBSET Calls, c \in S PROVE Cardinality(S) >= 1
      <4>1. IsFiniteSet(S)
        BY RedeliveryAssumption, FS_Subset DEF RedeliveryAssumption
      <4>2. /\ Cardinality(S) = Cardinality(S \ {c}) + CountIf(c \in S)
            /\ Cardinality(S \ {c}) \in Nat
        BY <4>1, CardinalityWithout
      <4> QED
        BY <3>1, <4>2 DEF CountIf
    <3> QED
      BY <3>1
  <2>2. InKept(c, e) => KeptOf(e) >= 1
    BY <2>1 DEF KeptOf
  <2>3. IsPopped(c, e) => PoppedOf(e) >= 1
    BY <2>1 DEF PoppedOf
  <2> QED
    BY <1>4, <2>2, <2>3 DEF CountIf
<1>8. /\ D = 1 <=> e \in removed
      /\ D' = 1 <=> e \in removed'
      /\ I = 1 <=> InKept(c, e)
      /\ I' = 1 <=> InKept(c, e)'
      /\ Q = 1 <=> IsPopped(c, e)
      /\ Q' = 1 <=> IsPopped(c, e)'
  BY DEF CountIf
<1>9. /\ UNCHANGED deadLetters => A' = A
      /\ UNCHANGED removed => D' = D
  OBVIOUS
<1> HIDE DEF A, K, P, D, I, Q, M
<1>10. ASSUME A' + I' + Q' + D' = A + I + Q + D PROVE PlacesOf(e)' = M
  <2>1. {A, K, P, D, I, Q, A', K', P', D', I', Q'} \subseteq Int
    BY <1>4, <1>6
  <2>2. (A' + D') + (I' + Q') = (A + D) + (I + Q)
    BY <1>10, <2>1
  <2>3. (K' + P') + (I + Q) = (K + P) + (I' + Q')
    BY <1>5, <2>1
  <2>4. (A' + D') + (K' + P') = (A + D) + (K + P)
    BY <2>1, <2>2, <2>3
  <2> QED
    BY <1>4, <2>1, <2>4
<1>11. ASSUME UNCHANGED <<deadLetters, removed>>,
              pc[c] \notin {"append", "resetPopped", "pushPopped"},
              pc'[c] \notin {"append", "resetPopped", "pushPopped"}
       PROVE  PlacesOf(e)' = M
  <2>1. I = 0 /\ I' = 0 /\ Q = 0 /\ Q' = 0
    BY <1>6, <1>8, <1>11 DEF InKept, IsPopped
  <2> QED
    BY <1>4, <1>6, <1>9, <1>10, <1>11, <2>1
<1>12. Calls \subseteq DOMAIN pc /\ Calls \subseteq DOMAIN doomed /\ Calls \subseteq DOMAIN kept
  BY <1>2 DEF CallsOK, LettersMade
<1>13. ASSUME NEW entries, NEW label \in {"reset", "read"}, pc[c] = "new",
              Found(c, entries, label)
       PROVE  PlacesOf(e)' = M /\ pc'[c] # "append"
  BY <1>11, <1>12, <1>13 DEF Found, Goto
<1>14. ASSUME NEW j \in Jobs, Retry(c, j) \/ Purge(c, j)
       PROVE  PlacesOf(e)' = M /\ pc'[c] # "append"
  BY <1>13, <1>14 DEF Retry, Purge
<1>15. ASSUME NEW cutoff, Cleanup(c, cutoff)
       PROVE  PlacesOf(e)' = M /\ pc'[c] # "append"
  BY <1>13, <1>15 DEF Cleanup
<1>16. ReadAll(c) => PlacesOf(e)' = M /\ pc'[c] # "append"
  BY <1>11, <1>12 DEF ReadAll, Goto
<1>17. ASSUME PopHead(c) PROVE PlacesOf(e)' = M /\ pc'[c] # "append"
  <2>1. CASE deadLetters = <<>>
    BY <1>11, <1>12, <1>17, <2>1 DEF PopHead, Goto
  <2>2. CASE deadLetters # <<>>
    <3>1. /\ pc[c] \in {"new", "pop"} /\ pc'[c] = "resetPopped"
          /\ doomed'[c] = <<Head(deadLetters)>> /\ deadLetters' = Tail(deadLetters)
          /\ removed' = removed
      BY <1>12, <1>17, <2>2 DEF PopHead, Goto
    <3>2. A = A' + CountIf(e = Head(deadLetters))
      BY <1>2, <2>2, <3>1, TailCount DEF A, LettersMade
    <3>3. I = 0 /\ I' = 0 /\ Q = 0
      BY <1>6, <1>8, <3>1 DEF InKept, IsPopped
    <3>4. Q' = CountIf(e = Head(deadLetters))
      BY <1>6, <1>8, <3>1 DEF IsPopped, CountIf
    <3>5. A' + I' + Q' + D' = A + I + Q + D
      <4>1. D' = D
        BY <1>9, <3>1
      <4> QED
        BY <1>4, <1>6, <3>2, <3>3, <3>4, <4>1
    <3> QED
      BY <1>10, <3>1, <3>5
  <2> QED
    BY <2>1, <2>2
<1>18. ASSUME Reset(c) PROVE PlacesOf(e)' = M /\ pc'[c] # "append"
  <2>1. CASE pc[c] = "reset"
    BY <1>11, <1>12, <1>18, <2>1 DEF Reset, Goto
  <2>2. CASE pc[c] = "resetPopped"
    <3>1. pc'[c] = "pushPopped" /\ UNCHANGED <<deadLetters, removed, doomed>>
      BY <1>12, <1>18, <2>2 DEF Reset, Goto
    <3>2. I = 0 /\ I' = 0 /\ Q' = Q
      BY <1>6, <1>8, <2>2, <3>1 DEF InKept, IsPopped
    <3> QED
      BY <1>4, <1>6, <1>9, <1>10, <3>1, <3>2
  <2> QED
    BY <1>18, <2>1, <2>2 DEF Reset
<1>19. ASSUME Push(c) PROVE PlacesOf(e)' = M /\ pc'[c] # "append"
  <2>1. CASE pc[c] = "push"
    BY <1>11, <1>12, <1>19, <2>1 DEF Push, Goto
  <2>2. CASE pc[c] = "pushPopped"
    <3>1. /\ pc'[c] = "pop" /\ UNCHANGED deadLetters
          /\ removed' = removed \cup {Head(doomed[c])}
      BY <1>12, <1>19, <2>2 DEF Push, Goto
    <3>2. I = 0 /\ I' = 0 /\ Q' = 0
      BY <1>6, <1>8, <2>2, <3>1 DEF InKept, IsPopped
    <3>3. Q = 1 => D = 0
      BY <1>4, <1>6, <1>7
    <3>4. D' = D + Q
      BY <1>6, <1>8, <2>2, <3>1, <3>3 DEF IsPopped
    <3>5. A' + I' + Q' + D' = A + I + Q + D
      <4>1. A' = A
        BY <1>9, <3>1
      <4> QED
        BY <1>4, <1>6, <3>2, <3>4, <4>1
    <3> QED
      BY <1>10, <3>1, <3>5
  <2> QED
    BY <1>19, <2>1, <2>2 DEF Push
<1>20. ASSUME Delete(c) PROVE PlacesOf(e)' = M /\ (pc'[c] = "append" => Count(kept'[c], e) <= 1)
  <2> DEFINE h == Head(doomed[c])
             k == kept[c]
  <2>1. /\ pc[c] = "delete" /\ deadLetters' = <<>> /\ kept'[c] = k
        /\ removed' = removed \cup ({h} \cap Range(deadLetters))
        /\ k # <<>> => pc'[c] = "append"
        /\ k = <<>> => pc'[c] \in {"end", "read"}
    BY <1>12, <1>20 DEF Delete, AfterAppend, Goto
  <2>2. k = Others(deadLetters, h)
    <3>1. deadLetters = seen[c]
      BY <1>20 DEF Delete
    <3> QED
      BY <2>1, <3>1 DEF RewriteReady
  <2>3. deadLetters \in Seq(Entries) /\ k \in Seq(Entries)
    BY <1>2 DEF TypeOK, LettersTypeOK
  <2>4. Count(k, e) = IF e \in Range(deadLetters) \ {h} THEN A ELSE 0
    BY <2>2, <2>3, OthersCount DEF A
  <2>5. /\ e \in Range(deadLetters) <=> A > 0
        /\ e \in Range(k) <=> Count(k, e) > 0
    BY <2>3, CountInRange DEF A
  <2>6. A <= 1 /\ (A = 1 => D = 0)
    BY <1>4, <1>6
  <2>7. A' = 0
    <3>1. Positions(<<>>, e) = {}
      BY DEF Positions
    <3> QED
      BY <2>1, <3>1, FS_EmptySet DEF A, Count
  <2>8. I = 0 /\ Q = 0 /\ Q' = 0
    BY <1>6, <1>8, <2>1 DEF InKept, IsPopped
  <2>9. I' = 1 <=> e \in Range(k)
    <3>1. k = <<>> => e \notin Range(k)
      BY DEF Range
    <3> QED
      BY <1>8, <2>1, <3>1 DEF InKept
  <2>10. D' = 1 <=> D = 1 \/ (e = h /\ e \in Range(deadLetters))
    BY <1>8, <2>1
  <2> HIDE DEF h, k
  <2>11. CASE e = h
    <3>1. I' = 0 /\ D' = D + A /\ Count(k, e) <= 1
      BY <1>4, <1>6, <2>4, <2>5, <2>6, <2>9, <2>10, <2>11
    <3>2. A' + I' + Q' + D' = A + I + Q + D
      BY <1>4, <1>6, <2>7, <2>8, <3>1
    <3> QED
      BY <1>10, <2>1, <3>1, <3>2
  <2>12. CASE e # h
    <3>1. I' = A /\ D' = D /\ Count(k, e) <= 1
      BY <1>4, <1>6, <2>4, <2>5, <2>6, <2>9, <2>10, <2>12
    <3>2. A' + I' + Q' + D' = A + I + Q + D
      BY <1>4, <1>6, <2>7, <2>8, <3>1
    <3> QED
      BY <1>10, <2>1, <3>1, <3>2
  <2> QED
    BY <2>11, <2>12
<1>21. ASSUME AppendKept(c)
       PROVE  PlacesOf(e)' = M /\ (pc'[c] = "append" => Count(kept'[c], e) <= 1)
  <2> DEFINE k == kept[c]
             t == Tail(k)
  <2>1. /\ pc[c] = "append" /\ k # <<>> /\ k \in Seq(made) /\ Head(k) \in made /\ t \in Seq(made)
        /\ deadLetters \in Seq(made)
    BY <1>2, <1>21, LettersAre DEF AppendKept, LettersMade
  <2>2. /\ deadLetters' = Append(deadLetters, Head(k)) /\ removed' = removed /\ kept'[c] = t
        /\ t # <<>> => pc'[c] = "append"
        /\ t = <<>> => pc'[c] \in {"end", "read"}
    BY <1>12, <1>21 DEF AppendKept, AfterAppend, Goto
  <2>3. A' = A + CountIf(e = Head(k))
    BY <2>1, <2>2, AppendCount DEF A
  <2>4. Count(k, e) = Count(t, e) + CountIf(e = Head(k)) /\ Count(k, e) <= 1
    BY <2>1, TailCount DEF EntriesExact
  <2>5. /\ Count(k, e) \in Nat /\ (e \in Range(k) <=> Count(k, e) > 0)
        /\ Count(t, e) \in Nat /\ (e \in Range(t) <=> Count(t, e) > 0)
    BY <2>1, CountInRange
  <2>6. Q = 0 /\ Q' = 0 /\ D' = D
    BY <1>6, <1>8, <1>9, <2>1, <2>2 DEF IsPopped
  <2>7. I = 1 <=> e \in Range(k)
    BY <1>8, <2>1 DEF InKept
  <2>8. I' = 1 <=> e \in Range(t)
    <3>1. t = <<>> => e \notin Range(t)
      BY DEF Range
    <3> QED
      BY <1>8, <2>2, <3>1 DEF InKept
  <2> HIDE DEF k, t
  <2>9. CountIf(e = Head(k)) \in 0..1
    BY DEF CountIf
  <2>10. Count(t, e) <= 1 /\ I = Count(k, e) /\ I' = Count(t, e)
    BY <1>6, <2>4, <2>5, <2>7, <2>8, <2>9
  <2>11. A' + I' + Q' + D' = A + I + Q + D
    BY <1>4, <1>6, <2>3, <2>4, <2>5, <2>6, <2>9, <2>10
  <2> QED
    BY <1>10, <2>2, <2>10, <2>11
<1>22. PlacesOf(e)' = M /\ (pc'[c] = "append" => Count(kept'[c], e) <= 1)
  BY <1>14, <1>15, <1>16, <1>17, <1>18, <1>19, <1>20, <1>21 DEF CallStep
<1> QED
  BY <1>22 DEF M

\* The times of failure tell the entries apart.
MadeInOrder == \A e \in made : e.failedAt < Cardinality(made)

\* A worker: only an entry that it makes comes in, and that is a new one.
LEMMA BuryKeepsExact ==
  ASSUME Types, Types', MadeInOrder, NEW j \in Jobs, Bury(j)
  PROVE  MadeInOrder' /\ (EntriesExact => EntriesExact')
<1> DEFINE n == Cardinality(made)
           x == [job |-> j, failedAt |-> n]
<1>1. /\ deadLetters' = Append(deadLetters, x) /\ made' = made \cup {x}
      /\ UNCHANGED <<pc, doomed, kept, removed>>
  BY DEF Bury
<1>2. n \in Nat /\ IsFiniteSet(made) /\ x \in Entries /\ x.failedAt = n
  <2>1. n \in Nat /\ IsFiniteSet(made)
    BY FS_CardinalityType DEF Types, LettersMade
  <2> QED
    BY <2>1 DEF Entries
<1> HIDE DEF n, x
<1>3. x \notin made
  BY <1>2 DEF MadeInOrder, n
<1>4. Cardinality(made') = n + 1
  BY <1>1, <1>2, <1>3, FS_AddElement DEF n
<1>5. made \subseteq Entries
  BY DEF Types, TypeOK, LettersTypeOK
<1>6. MadeInOrder'
  <2> SUFFICES ASSUME NEW e \in made' PROVE e.failedAt < n + 1
    BY <1>4 DEF MadeInOrder
  <2>1. CASE e = x
    BY <1>2, <2>1
  <2>2. CASE e \in made
    <3>1. e.failedAt < n /\ e.failedAt \in Nat
      BY <1>5, <2>2 DEF MadeInOrder, Entries, n
    <3> QED
      BY <1>2, <3>1
  <2> QED
    BY <1>1, <2>1, <2>2
<1>7. ASSUME EntriesExact, NEW e \in Entries PROVE PlacesOf(e)' = CountIf(e \in made')
  <2>1. PlacesAddUp /\ PlacesAddUp'
    BY PlacesAre, PTL
  <2>2. deadLetters \in Seq(Entries)
    BY DEF Types, TypeOK, LettersTypeOK
  <2>3. Count(deadLetters', e) = Count(deadLetters, e) + CountIf(e = x)
    BY <1>1, <1>2, <2>2, AppendCount
  <2>4. KeptOf(e)' = KeptOf(e) /\ PoppedOf(e)' = PoppedOf(e)
    BY <1>1 DEF KeptOf, PoppedOf, InKept, IsPopped
  <2>5. CountIf(e \in made') = CountIf(e \in made) + CountIf(e = x)
    BY <1>1, <1>3 DEF CountIf
  <2> DEFINE A == Count(deadLetters, e)
             K == KeptOf(e)
             P == PoppedOf(e)
             D == CountIf(e \in removed)
             M == CountIf(e \in made)
             N == CountIf(e = x)
  <2>6. /\ A + K + P + D = M /\ A \in Nat /\ K \in Nat /\ P \in Nat
        /\ PlacesOf(e)' = Count(deadLetters', e) + KeptOf(e)' + PoppedOf(e)' + CountIf(e \in removed')
    BY <1>7, <2>1 DEF PlacesAddUp, EntriesExact
  <2>7. D \in 0..1 /\ M \in 0..1 /\ N \in 0..1
    BY DEF CountIf
  <2>8. PlacesOf(e)' = (A + N) + K + P + D /\ CountIf(e \in made') = M + N
    BY <1>1, <2>3, <2>4, <2>5, <2>6
  <2> HIDE DEF A, K, P, D, M, N
  <2> QED
    BY <2>6, <2>7, <2>8
<1>8. ASSUME EntriesExact, NEW c \in Calls, pc'[c] = "append", NEW e \in Entries
      PROVE  Count(kept'[c], e) <= 1
  BY <1>1, <1>8 DEF EntriesExact
<1> QED
  BY <1>6, <1>7, <1>8 DEF EntriesExact

RewriteInv ==
  /\ MadeInOrder /\ RewriteReady
  /\ ~raced /\ stops = 0 => EntriesExact

LEMMA RewriteInvKept == Types /\ RewriteInv /\ Types' /\ [Next]_vars => RewriteInv'
<1> SUFFICES ASSUME Types, Types', RewriteInv, [Next]_vars PROVE RewriteInv'
  OBVIOUS
<1>1. MadeInOrder /\ RewriteReady /\ RewriteReady' /\ (~raced /\ stops = 0 => EntriesExact)
  BY RewriteReadyKept DEF RewriteInv
<1>2. ASSUME UNCHANGED <<deadLetters, pc, doomed, kept, made, removed, raced, stops>>
      PROVE  RewriteInv'
  <2>1. MadeInOrder'
    BY <1>1, <1>2 DEF MadeInOrder
  <2>2. EntriesExact => EntriesExact'
    BY <1>2 DEF EntriesExact, PlacesOf
  <2> QED
    BY <1>1, <1>2, <2>1, <2>2 DEF RewriteInv
<1>3. ASSUME NEW c \in Calls, CallStep(c) \/ Stop(c) PROVE RewriteInv'
  <2>1. made' = made /\ (~raced' => ~raced) /\ (Stop(c) => stops' # 0) /\ (CallStep(c) => stops' = stops)
    <3>1. ASSUME NEW j \in Jobs, Retry(c, j) \/ Purge(c, j) PROVE UNCHANGED <<made, raced, stops>>
      BY <3>1 DEF Retry, Purge, Found
    <3>2. ASSUME NEW cutoff, Cleanup(c, cutoff) PROVE UNCHANGED <<made, raced, stops>>
      BY <3>2 DEF Cleanup, Found
    <3>3. PopHead(c) \/ Reset(c) \/ Push(c) => UNCHANGED <<made, raced, stops>>
      BY DEF PopHead, Reset, Push
    <3>4. ReadAll(c) \/ AppendKept(c) => UNCHANGED <<made, raced, stops>>
      BY DEF ReadAll, AppendKept
    <3>5. Delete(c) => UNCHANGED <<made, stops>> /\ (~raced' => ~raced)
      BY DEF Delete
    <3>6. Stop(c) => UNCHANGED <<made, raced>> /\ stops' # 0
      <4>1. stops \in Nat
        BY RedeliveryAssumption DEF Types, TypeOK, LettersTypeOK, RedeliveryAssumption
      <4> QED
        BY <4>1 DEF Stop
    <3> QED
      BY <1>3, <3>1, <3>2, <3>3, <3>4, <3>5, <3>6 DEF CallStep
  <2>2. MadeInOrder'
    BY <1>1, <2>1 DEF MadeInOrder
  <2>3. ~raced' /\ stops' = 0 => EntriesExact'
    BY <1>1, <1>3, <2>1, CallKeepsExact
  <2> QED
    BY <1>1, <2>2, <2>3 DEF RewriteInv
<1>4. ASSUME NEW w \in Workers, WorkerStep(w) PROVE RewriteInv'
  <2>1. CASE FailAndBury(w)
    <3>1. Bury(job[w]) /\ job[w] \in Jobs /\ UNCHANGED <<raced, stops>>
      BY <2>1 DEF FailAndBury, Fail, Bury, Types, TypeOK
    <3>2. MadeInOrder' /\ (EntriesExact => EntriesExact')
      BY <1>1, <3>1, BuryKeepsExact
    <3> QED
      BY <1>1, <3>1, <3>2 DEF RewriteInv
  <2>2. Take(w) \/ FailAndRequeue(w) => UNCHANGED callVars
    BY DEF Take, FailAndRequeue
  <2>3. FailForGood(w) \/ RecordEnd(w) \/ AckEnd(w) => UNCHANGED letterVars
    BY DEF FailForGood, RecordEnd, AckEnd
  <2> QED
    BY <1>2, <1>4, <2>1, <2>2, <2>3 DEF WorkerStep, letterVars, callVars
<1>5. CASE UNCHANGED vars
  BY <1>2, <1>5 DEF vars, letterVars
<1> QED
  BY <1>3, <1>4, <1>5 DEF Next

LEMMA FirstRewriteInv == Init => RewriteInv
<1> SUFFICES ASSUME Init PROVE RewriteInv
  OBVIOUS
<1>1. /\ deadLetters = <<>> /\ made = {} /\ removed = {}
      /\ \A c \in Calls : pc[c] = "new"
  BY DEF Init, LettersInit
<1>2. ASSUME NEW e \in Entries PROVE PlacesOf(e) = 0
  <2>1. {c \in Calls : InKept(c, e)} = {} /\ {c \in Calls : IsPopped(c, e)} = {}
    BY <1>1 DEF InKept, IsPopped
  <2>2. Positions(deadLetters, e) = {} /\ CountIf(e \in removed) = 0
    BY <1>1 DEF Positions, CountIf
  <2>3. KeptOf(e) = 0 /\ PoppedOf(e) = 0 /\ Count(deadLetters, e) = 0
    BY <2>1, <2>2, FS_EmptySet DEF KeptOf, PoppedOf, Count
  <2>4. PlacesOf(e) = Count(deadLetters, e) + KeptOf(e) + PoppedOf(e) + CountIf(e \in removed)
    BY DEF PlacesOf, KeptOf, PoppedOf, InKept, IsPopped
  <2> QED
    BY <2>2, <2>3, <2>4
<1>3. EntriesExact
  BY <1>1, <1>2 DEF EntriesExact, CountIf
<1> QED
  BY <1>1, <1>3 DEF RewriteInv, MadeInOrder, RewriteReady

\* No entry of the list of dead letters gets lost or comes back twice, except
\* when the list changed between the read and the delete of one rewriting, or
\* when a call stopped in the middle.
THEOREM RewritesAreExact == Spec => []RewriteExact
<1>1. Init => Types /\ RewriteInv
  BY RedeliveryAssumption, InitTypeOK, FirstRewriteInv DEF Types, Init, ResultsInit, ContextRead
<1>2. Types /\ RewriteInv /\ [Next]_vars => (Types /\ RewriteInv)'
  BY RedeliveryAssumption, TypesKept, RewriteInvKept
<1>3. Types /\ RewriteInv => RewriteExact
  BY DEF Types, TypeOK, LettersTypeOK, RewriteInv, RewriteExact, EntriesExact, CountIf
<1> QED
  BY <1>1, <1>2, <1>3, PTL DEF Spec

-----------------------------------------------------------------------------
(* What a stored result covers.  The results are counted three times: in   *)
(* the list, in failedCount, and by the acks that have come or are under   *)
(* way.  A finalizer has a prefix of the list, and it has all of it when   *)
(* its last page is short; and when it started, as many acks had come as   *)
(* there are jobs, so that what the list lacks is made up by retries.      *)

Failures == {r \in Results : ~r.success}
JobsIn(s) == {s[i].job : i \in DOMAIN s}
Loading == {"page", "store"}
Begun == {"context"} \cup Loading
Acking == {w \in Workers : step[w] = "ack"}
Pushes == SumFunction(pushes)
Ends == SumFunctionOnSet([j \in Jobs |-> EndsOf(j)], Jobs)

Counted ==
  /\ failedCount = Matches(results, Failures)
  /\ doneJobs + Cardinality(Acking) = Len(results)
  /\ Ends = Len(results)
  /\ status # "RUNNING" => doneJobs >= TotalJobs

\* The jobs that a list of results lacks.
Missing(s) == Cardinality(Jobs \ JobsIn(s))

StoredCounts(ctx) ==
  stored # None =>
    stored.successCount <= ctx.successCount /\ stored.failedCount <= ctx.failedCount

CountsNow == [successCount |-> successCount, failedCount |-> failedCount]

StoredIs ==
  /\ StoredCounts(CountsNow)
  /\ stored # None =>
       /\ stored.averagedOver \subseteq JobsIn(results)
       /\ stored.failedCount <= Len(stored.failedJobIds)
       /\ Cardinality(Jobs \ stored.averagedOver) <= Pushes

PrefixLoaded(h) ==
  /\ context[h].successCount <= successCount /\ context[h].failedCount <= failedCount
  /\ StoredCounts(context[h])
  /\ Len(mapped[h]) <= Len(results)
  /\ \A i \in 1..Len(mapped[h]) : mapped[h][i] = results[i]

AllLoaded(h) ==
  /\ context[h].failedCount <= Matches(mapped[h], Failures)
  /\ Missing(mapped[h]) <= Pushes
  /\ stored # None => stored.averagedOver \subseteq JobsIn(mapped[h])

HandlerOK(h) ==
  /\ step[h] \in Begun => status # "RUNNING"
  /\ step[h] \notin Loading => mapped[h] = <<>>
  /\ step[h] \in Loading => PrefixLoaded(h)
  /\ step[h] = "store" => AllLoaded(h)

ResultsInv == Counted /\ StoredIs /\ \A h \in Handlers : HandlerOK(h)

\* What a step can do to the results: nothing, record an end or acknowledge one.
Quiet ==
  /\ UNCHANGED <<counters, doneJobs>> /\ Acking' = Acking
  /\ (status' # "RUNNING") <=> (status # "RUNNING")
  /\ \A j \in Jobs : pushes[j] <= pushes'[j]

Recording(w) ==
  /\ job[w] \in Jobs /\ \E success \in BOOLEAN : Record(job[w], success)
  /\ step[w] \in {"work", "record"} /\ step' = [step EXCEPT ![w] = "ack"]
  /\ UNCHANGED <<aggregates, pushes>>

\* ... and what to the finalizers.
Aside ==
  /\ UNCHANGED <<stored, context, mapped>>
  /\ \A h \in Handlers :
       \/ step'[h] = step[h]
       \/ /\ step[h] \notin Loading /\ step'[h] \notin Loading
          /\ step'[h] = "context" => status' # "RUNNING"

\* The kinds of steps.
LEMMA WorkerStepKinds ==
  ASSUME RedeliveryAssumption, Types, NEW w \in Workers, WorkerStep(w)
  PROVE  \/ Quiet /\ Aside
         \/ Recording(w) /\ Aside
         \/ AckEnd(w) /\ Aside
         \/ Quiet /\ (ReadContext(w) \/ LoadPage(w) \/ StoreResult(w))
<1>1. /\ job \in [Workers -> Jobs \cup {NoJob}] /\ buried \in [Workers -> BOOLEAN]
      /\ step \in [Workers -> {"idle", "work", "record", "ack", "lock"} \cup Finalizing]
      /\ \A v \in Workers : job[v] # NoJob <=> step[v] \in {"work", "record"}
      /\ pushes \in [Jobs -> Nat]
  BY DEF Types, TypeOK, LettersTypeOK
<1>2. ASSUME NEW label, step' = [step EXCEPT ![w] = label]
      PROVE  step'[w] = label /\ \A v \in Workers \ {w} : step'[v] = step[v]
  BY <1>1, <1>2
<1>3. UNCHANGED pushes => \A j \in Jobs : pushes[j] <= pushes'[j]
  BY <1>1
<1>4. ASSUME step[w] # "ack", NEW label \in {"idle", "work", "record", "lock"} \cup Finalizing,
             step' = [step EXCEPT ![w] = label],
             (status' # "RUNNING") <=> (status # "RUNNING"),
             UNCHANGED <<counters, doneJobs, pushes>>
      PROVE  Quiet
  <2>1. label # "ack"
    BY <1>4 DEF Finalizing
  <2>2. Acking' = Acking
    BY <1>2, <1>4, <2>1 DEF Acking
  <2> QED
    BY <1>3, <1>4, <2>2 DEF Quiet
<1>5. ASSUME step[w] \notin Loading, NEW label, label \notin Loading,
             label = "context" => status' # "RUNNING",
             step' = [step EXCEPT ![w] = label], UNCHANGED <<stored, context, mapped>>
      PROVE  Aside
  BY <1>2, <1>5 DEF Aside, Workers
<1>6. CASE Take(w)
  <2>1. /\ step[w] = "idle" /\ step' = [step EXCEPT ![w] = "work"]
        /\ UNCHANGED <<counters, doneJobs, pushes, status, stored, context, mapped>>
    BY <1>6 DEF Take, Then, callVars, aggregates
  <2> QED
    BY <1>4, <1>5, <2>1 DEF Loading
<1>7. CASE FailAndRequeue(w)
  <2>1. /\ step[w] = "work" /\ step' = [step EXCEPT ![w] = "idle"]
        /\ UNCHANGED <<counters, doneJobs, pushes, status, stored, context, mapped>>
    BY <1>7 DEF FailAndRequeue, Fail, Then, callVars, aggregates
  <2> QED
    BY <1>4, <1>5, <2>1 DEF Loading
<1>8. CASE FailAndBury(w)
  <2>1. /\ step[w] = "work" /\ step' = [step EXCEPT ![w] = "record"]
        /\ UNCHANGED <<counters, doneJobs, pushes, status, stored, context, mapped>>
    BY <1>8 DEF FailAndBury, Fail, Bury, Then, aggregates
  <2> QED
    BY <1>4, <1>5, <2>1 DEF Loading
<1>9. CASE FailForGood(w)
  <2>1. /\ step[w] = "work" /\ step' = [step EXCEPT ![w] = "ack"] /\ Record(job[w], FALSE)
        /\ UNCHANGED <<aggregates, pushes>>
    BY <1>9 DEF FailForGood, Fail, Then, letterVars
  <2>2. job[w] \in Jobs
    BY <1>1, <2>1
  <2> QED
    BY <1>5, <2>1, <2>2 DEF Loading, Recording, aggregates
<1>10. CASE RecordEnd(w)
  <2>1. /\ step[w] \in {"work", "record"} /\ step' = [step EXCEPT ![w] = "ack"]
        /\ Record(job[w], ~buried[w]) /\ UNCHANGED <<aggregates, pushes>>
    BY <1>10 DEF RecordEnd, Then, letterVars
  <2>2. job[w] \in Jobs
    BY <1>1, <2>1
  <2>3. Record(job[w], TRUE) \/ Record(job[w], FALSE)
    <3>1. buried[w] = TRUE \/ buried[w] = FALSE
      BY <1>1
    <3>2. (~TRUE) = FALSE /\ (~FALSE) = TRUE
      OBVIOUS
    <3> QED
      BY <2>1, <3>1, <3>2
  <2> QED
    BY <1>5, <2>1, <2>2, <2>3 DEF Loading, Recording, aggregates
<1>11. CASE AckEnd(w)
  <2>1. /\ step[w] = "ack" /\ \E label \in {"lock", "idle"} : step' = [step EXCEPT ![w] = label]
        /\ UNCHANGED <<stored, context, mapped>>
    BY <1>11 DEF AckEnd, Then
  <2> QED
    BY <1>5, <1>11, <2>1 DEF Loading
<1>12. CASE FinalizeStep(w) /\ UNCHANGED <<letterVars, workerVars>>
  <2>1. UNCHANGED pushes
    BY <1>12 DEF letterVars
  <2>2. CASE Lock(w) \/ Unlock(w)
    <3>1. /\ step[w] \in {"lock", "unlock"}
          /\ \E label \in {"idle", "status"} : step' = [step EXCEPT ![w] = label]
          /\ UNCHANGED <<counters, doneJobs, status, stored, context, mapped>>
      BY <2>2 DEF Lock, Unlock, Then, counters
    <3> QED
      BY <1>4, <1>5, <2>1, <3>1 DEF Loading, Finalizing
  <2>3. CASE ReadStatus(w)
    <3>1. /\ step[w] = "status"
          /\ \/ step' = [step EXCEPT ![w] = "context"] /\ status # "RUNNING"
             \/ step' = [step EXCEPT ![w] = "unlock"]
          /\ UNCHANGED <<counters, doneJobs, status, stored, context, mapped>>
      BY <2>3 DEF ReadStatus, Then, counters
    <3> QED
      BY <1>4, <1>5, <2>1, <3>1 DEF Loading, Finalizing
  <2>4. CASE ReadContext(w) \/ LoadPage(w) \/ StoreResult(w)
    <3>1. /\ step[w] \in {"context", "page", "store"}
          /\ \E label \in {"page", "store", "complete"} : step' = [step EXCEPT ![w] = label]
          /\ UNCHANGED <<counters, doneJobs, status>>
      BY <2>4 DEF ReadContext, LoadPage, StoreResult, Then, counters
    <3> QED
      BY <1>4, <2>1, <2>4, <3>1 DEF Finalizing
  <2>5. CASE CompleteGroup(w)
    <3>1. /\ step[w] = "complete" /\ step' = [step EXCEPT ![w] = "unlock"]
          /\ (status' # "RUNNING") <=> (status # "RUNNING")
          /\ UNCHANGED <<counters, doneJobs, stored, context, mapped>>
      BY <2>5 DEF CompleteGroup, Then, counters
    <3> QED
      BY <1>4, <1>5, <2>1, <3>1 DEF Loading, Finalizing
  <2> QED
    BY <1>12, <2>2, <2>3, <2>4, <2>5 DEF FinalizeStep
<1> QED
  BY <1>6, <1>7, <1>8, <1>9, <1>10, <1>11, <1>12 DEF WorkerStep

LEMMA CallIsQuiet ==
  ASSUME Types, NEW c \in Calls, CallStep(c) \/ Stop(c)
  PROVE  \A j \in Jobs : pushes[j] <= pushes'[j]
<1>1. CallsOK
  BY LettersAre DEF Types
<1>2. CASE UNCHANGED pushes
  BY <1>1, <1>2 DEF CallsOK
<1>3. CASE Push(c)
  <2>1. pushes' = [pushes EXCEPT ![Head(doomed[c]).job] = @ + 1]
    BY <1>3 DEF Push
  <2> QED
    BY <1>1, <2>1 DEF CallsOK
<1>4. ASSUME NEW j \in Jobs, Retry(c, j) \/ Purge(c, j) PROVE UNCHANGED pushes
  BY <1>4 DEF Retry, Purge, Found
<1>5. ASSUME NEW cutoff, Cleanup(c, cutoff) PROVE UNCHANGED pushes
  BY <1>5 DEF Cleanup, Found
<1>6. PopHead(c) \/ Reset(c) \/ ReadAll(c) => UNCHANGED pushes
  BY DEF PopHead, Reset, ReadAll
<1>7. Delete(c) \/ AppendKept(c) \/ Stop(c) => UNCHANGED pushes
  BY DEF Delete, AppendKept, Stop
<1> QED
  BY <1>2, <1>3, <1>4, <1>5, <1>6, <1>7 DEF CallStep

LEMMA StepKinds ==
  ASSUME RedeliveryAssumption, Types, [Next]_vars
  PROVE  \/ Quiet /\ Aside
         \/ \E w \in Workers :
              \/ (Recording(w) \/ AckEnd(w)) /\ Aside
              \/ Quiet /\ (ReadContext(w) \/ LoadPage(w) \/ StoreResult(w))
<1>1. ASSUME NEW c \in Calls, CallStep(c) \/ Stop(c), UNCHANGED resultVars PROVE Quiet /\ Aside
  <2>1. UNCHANGED <<counters, doneJobs, status, step, stored, context, mapped>>
    BY <1>1 DEF resultVars, counters
  <2> QED
    BY <1>1, <2>1, CallIsQuiet DEF Quiet, Aside, Acking
<1>2. CASE UNCHANGED vars
  <2>1. UNCHANGED <<counters, doneJobs, status, step, stored, context, mapped, pushes>>
    BY <1>2 DEF vars, letterVars, resultVars, counters
  <2>2. \A j \in Jobs : pushes[j] <= pushes'[j]
    BY <2>1 DEF Types, TypeOK, LettersTypeOK
  <2> QED
    BY <2>1, <2>2 DEF Quiet, Aside, Acking
<1>3. ASSUME NEW w \in Workers, WorkerStep(w)
      PROVE  \/ Quiet /\ Aside
             \/ (Recording(w) \/ AckEnd(w)) /\ Aside
             \/ Quiet /\ (ReadContext(w) \/ LoadPage(w) \/ StoreResult(w))
  BY <1>3, WorkerStepKinds
<1> QED
  BY <1>1, <1>2, <1>3 DEF Next

\* Nothing that has been recorded or pushed goes away.
Grown ==
  /\ Len(results) <= Len(results') /\ \A i \in 1..Len(results) : results'[i] = results[i]
  /\ successCount <= successCount' /\ failedCount <= failedCount' /\ Pushes <= Pushes'
  /\ status # "RUNNING" => status' # "RUNNING"

LEMMA Grows ==
  ASSUME RedeliveryAssumption, Types, Types', [Next]_vars
  PROVE  Grown
<1>1. /\ results \in Seq(Results) /\ results' \in Seq(Results)
      /\ successCount \in Nat /\ failedCount \in Nat
      /\ pushes \in [Jobs -> Nat] /\ pushes' \in [Jobs -> Nat]
  BY DEF Types, TypeOK, LettersTypeOK, ResultsTypeOK
<1>2. Len(results) \in Nat /\ DOMAIN results = 1..Len(results)
  BY <1>1, LenProperties
<1>3. ASSUME \A j \in Jobs : pushes[j] <= pushes'[j] PROVE Pushes <= Pushes'
  <2>1. IsFiniteSet(Jobs) /\ \A j \in Jobs : pushes[j] \in Int /\ pushes'[j] \in Int
    BY <1>1 DEF RedeliveryAssumption
  <2>2. DOMAIN pushes = Jobs /\ DOMAIN pushes' = Jobs
    BY <1>1
  <2>3. SumFunctionOnSet(pushes, Jobs) <= SumFunctionOnSet(pushes', Jobs)
    BY <1>3, <2>1, SumMonotone
  <2> QED
    BY <2>2, <2>3 DEF Pushes, SumFunction
<1>4. CASE Quiet
  <2>1. UNCHANGED <<results, successCount, failedCount>>
    BY <1>4 DEF Quiet, counters
  <2> QED
    BY <1>1, <1>2, <1>3, <1>4, <2>1 DEF Quiet, Grown
<1>5. UNCHANGED pushes => Pushes <= Pushes'
  BY <1>1, <1>3
<1>6. ASSUME NEW w \in Workers, Recording(w) PROVE Grown
  <2>1. PICK success \in BOOLEAN : Record(job[w], success)
    BY <1>6 DEF Recording
  <2>2. job[w] \in Jobs /\ UNCHANGED <<status, pushes>>
    BY <1>6 DEF Recording, aggregates
  <2> DEFINE r == [job |-> job[w], success |-> success]
  <2>3. r \in Results /\ results' = Append(results, r)
    BY <2>1, <2>2 DEF Record, Results, RedeliveryAssumption
  <2> HIDE DEF r
  <2>4. Len(results') = Len(results) + 1 /\ \A i \in 1..Len(results) : results'[i] = results[i]
    BY <1>1, <2>3, AppendProperties
  <2>5. successCount' = successCount + CountIf(success) /\ failedCount' = failedCount + CountIf(~success)
    BY <2>1 DEF Record
  <2>6. \A b : CountIf(b) \in Nat
    BY DEF CountIf
  <2>7. successCount <= successCount' /\ failedCount <= failedCount'
    BY <1>1, <2>5, <2>6
  <2> QED
    BY <1>2, <1>5, <2>2, <2>4, <2>7 DEF Grown
<1>7. ASSUME NEW w \in Workers, AckEnd(w) PROVE Grown
  <2>1. UNCHANGED <<results, successCount, failedCount, pushes>>
        /\ (status # "RUNNING" => status' # "RUNNING")
    BY <1>7 DEF AckEnd, Acknowledge, counters, letterVars
  <2> QED
    BY <1>1, <1>2, <1>5, <2>1 DEF Grown
<1> QED
  BY <1>4, <1>6, <1>7, StepKinds

LEMMA CountedKept ==
  ASSUME RedeliveryAssumption, Types, Types', Counted, [Next]_vars
  PROVE  Counted'
<1>1. /\ results \in Seq(Results) /\ failedCount \in Nat /\ doneJobs \in Nat
      /\ step \in [Workers -> {"idle", "work", "record", "ack", "lock"} \cup Finalizing]
      /\ TotalJobs \in Nat
  BY FS_CardinalityType
  DEF Types, TypeOK, ResultsTypeOK, TotalJobs, RedeliveryAssumption
<1>2. Len(results) \in Nat
  BY <1>1, LenProperties
<1>3. IsFiniteSet(Acking) /\ IsFiniteSet(Acking') /\ Cardinality(Acking) \in Nat
  <2>1. Acking \subseteq Workers /\ Acking' \subseteq Workers
    BY DEF Acking
  <2> QED
    BY <2>1, FS_Subset, FS_CardinalityType DEF RedeliveryAssumption, Workers
<1>4. CASE Quiet
  <2>1. UNCHANGED <<results, failedCount, doneJobs>> /\ Acking' = Acking
    BY <1>4 DEF Quiet, counters
  <2>2. Ends' = Ends
    <3>1. \A j \in Jobs : EndsOf(j)' = EndsOf(j)
      BY <2>1 DEF EndsOf
    <3> QED
      BY <3>1 DEF Ends
  <2> QED
    BY <1>4, <2>1, <2>2 DEF Quiet, Counted
<1>5. ASSUME NEW w \in Workers, Recording(w) PROVE Counted'
  <2>1. PICK success \in BOOLEAN : Record(job[w], success)
    BY <1>5 DEF Recording
  <2>2. /\ job[w] \in Jobs /\ UNCHANGED <<status, doneJobs>>
        /\ step[w] # "ack" /\ step' = [step EXCEPT ![w] = "ack"]
    BY <1>5 DEF Recording, aggregates
  <2> DEFINE r == [job |-> job[w], success |-> success]
  <2>3. r \in Results /\ r.success = success /\ results' = Append(results, r)
    BY <2>1, <2>2 DEF Record, Results, RedeliveryAssumption
  <2> HIDE DEF r
  <2>4. Len(results') = Len(results) + 1
    BY <1>1, <2>3, AppendProperties
  <2>5. failedCount' = Matches(results', Failures)
    <3>1. failedCount' = failedCount + CountIf(~success)
      BY <2>1 DEF Record
    <3>2. Matches(results', Failures) = Matches(results, Failures) + CountIf(r \in Failures)
      BY <1>1, <2>3, AppendMatches
    <3>3. r \in Failures <=> ~success
      BY <2>3 DEF Failures
    <3> QED
      BY <3>1, <3>2, <3>3 DEF Counted, CountIf
  <2>6. Cardinality(Acking') = Cardinality(Acking) + 1
    <3>1. w \in Acking' /\ w \notin Acking /\ Acking' \ {w} = Acking
      BY <1>1, <2>2 DEF Acking
    <3>2. Cardinality(Acking') = Cardinality(Acking' \ {w}) + CountIf(w \in Acking')
      BY <1>3, CardinalityWithout
    <3> QED
      BY <3>1, <3>2 DEF CountIf
  <2>7. Ends' = Ends + 1
    <3> DEFINE f == [j \in Jobs |-> EndsOf(j)]
               g == [j \in Jobs |-> EndsOf(j)']
    <3>1. \A j \in Jobs : EndsOf(j) \in Nat /\ EndsOf(j)' = EndsOf(j) + CountIf(job[w] = j)
      BY <1>1, <2>1, <2>2, EndsChange
    <3>2. \A j \in Jobs : f[j] \in Int /\ g[j] \in Int
      BY <3>1 DEF CountIf
    <3>3. \A j \in Jobs \ {job[w]} : f[j] = g[j]
      BY <3>1 DEF CountIf
    <3>4. g[job[w]] - f[job[w]] = 1
      BY <2>2, <3>1 DEF CountIf
    <3>5. Ends = SumFunctionOnSet(f, Jobs) /\ Ends' = SumFunctionOnSet(g, Jobs)
      BY DEF Ends
    <3> HIDE DEF f, g
    <3>6. IsFiniteSet(Jobs)
      BY DEF RedeliveryAssumption
    <3>7. SumFunctionOnSet(g, Jobs) = SumFunctionOnSet(f, Jobs) + (g[job[w]] - f[job[w]])
      BY <2>2, <3>2, <3>3, <3>6, SumChange
    <3> QED
      BY <3>4, <3>5, <3>7
  <2>8. doneJobs' + Cardinality(Acking') = Len(results')
    BY <1>1, <1>2, <1>3, <2>2, <2>4, <2>6 DEF Counted
  <2>9. Ends' = Len(results')
    BY <2>4, <2>7 DEF Counted
  <2> QED
    BY <2>2, <2>5, <2>8, <2>9 DEF Counted, TotalJobs
<1>6. ASSUME NEW w \in Workers, AckEnd(w) PROVE Counted'
  <2>1. /\ UNCHANGED <<results, failedCount>> /\ doneJobs' = doneJobs + 1
        /\ status' = IF AllDone(doneJobs') THEN "AGGREGATING" ELSE status
        /\ step[w] = "ack" /\ \E label \in {"lock", "idle"} : step' = [step EXCEPT ![w] = label]
    BY <1>6 DEF AckEnd, Acknowledge, counters, Then
  <2>2. Ends' = Ends
    <3>1. \A j \in Jobs : EndsOf(j)' = EndsOf(j)
      BY <2>1 DEF EndsOf
    <3> QED
      BY <3>1 DEF Ends
  <2>3. Cardinality(Acking) = Cardinality(Acking') + 1
    <3>1. w \notin Acking' /\ w \in Acking /\ Acking \ {w} = Acking'
      BY <1>1, <2>1 DEF Acking
    <3>2. Cardinality(Acking) = Cardinality(Acking \ {w}) + CountIf(w \in Acking)
      BY <1>3, CardinalityWithout
    <3> QED
      BY <3>1, <3>2 DEF CountIf
  <2>4. Cardinality(Acking') \in Nat
    BY <1>3, FS_CardinalityType
  <2>5. doneJobs' + Cardinality(Acking') = Len(results')
    BY <1>1, <1>2, <1>3, <2>1, <2>3, <2>4 DEF Counted
  <2>6. status' # "RUNNING" => doneJobs' >= TotalJobs
    BY <1>1, <2>1 DEF Counted, AllDone
  <2> QED
    BY <2>1, <2>2, <2>5, <2>6 DEF Counted, TotalJobs
<1> QED
  BY <1>4, <1>5, <1>6, StepKinds

\* As many ends as there are jobs: the jobs without an end are no more than the
\* ends that retries have asked for.
LEMMA FewMissing ==
  ASSUME RedeliveryAssumption, Types, HandlingsNeedRetries, Counted, status # "RUNNING"
  PROVE  Missing(results) <= Pushes
<1> DEFINE lacking == Jobs \ JobsIn(results)
           ends == [j \in Jobs |-> EndsOf(j)]
           lacks == [j \in Jobs |-> CountIf(j \in lacking)]
           one == [j \in Jobs |-> CountIf(j \in Jobs)]
           left == [j \in Jobs |-> ends[j] + lacks[j]]
           right == [j \in Jobs |-> one[j] + pushes[j]]
<1>1. /\ IsFiniteSet(Jobs) /\ results \in Seq(Results) /\ pushes \in [Jobs -> Nat]
      /\ doneJobs \in Nat /\ Cardinality(Jobs) \in Nat /\ TotalJobs = Cardinality(Jobs)
  BY FS_CardinalityType
  DEF Types, TypeOK, LettersTypeOK, ResultsTypeOK, TotalJobs, RedeliveryAssumption
<1>2. \A j \in Jobs : EndsOf(j) \in Nat /\ EndsOf(j) <= 1 + pushes[j]
  <2> SUFFICES ASSUME NEW j \in Jobs PROVE EndsOf(j) \in Nat /\ EndsOf(j) <= 1 + pushes[j]
    OBVIOUS
  <2>1. /\ HandlingsOf(j) = Count(ready, j) + Holders(j) + EndsOf(j)
        /\ Count(ready, j) \in Nat /\ Holders(j) \in Nat /\ EndsOf(j) \in Nat
    BY HandlingsAre DEF HandlingsAddUp
  <2>2. HandlingsOf(j) = 1 + pushes[j] /\ pushes[j] \in Nat
    BY <1>1 DEF HandlingsNeedRetries
  <2> QED
    BY <2>1, <2>2
<1>3. \A j \in lacking : EndsOf(j) = 0
  <2> SUFFICES ASSUME NEW j \in lacking PROVE EndsOf(j) = 0
    OBVIOUS
  <2>1. {i \in DOMAIN results : results[i].job = j} = {}
    BY DEF JobsIn
  <2> QED
    BY <2>1, FS_EmptySet DEF EndsOf
<1>4. \A j \in Jobs : /\ ends[j] \in Nat /\ lacks[j] \in Nat /\ one[j] \in Nat /\ pushes[j] \in Nat
                      /\ left[j] = ends[j] + lacks[j] /\ right[j] = one[j] + pushes[j]
                      /\ left[j] <= right[j]
  BY <1>1, <1>2, <1>3 DEF CountIf
<1>5. /\ \A j \in Jobs : lacks[j] = CountIf(j \in lacking)
      /\ \A j \in Jobs : one[j] = CountIf(j \in Jobs)
  OBVIOUS
<1>6. Ends = SumFunctionOnSet(ends, Jobs) /\ Pushes = SumFunctionOnSet(pushes, Jobs)
  BY <1>1 DEF Ends, Pushes, SumFunction
<1>7. Missing(results) = Cardinality(Jobs \cap lacking) /\ Jobs \cap Jobs = Jobs
  <2>1. Jobs \cap lacking = Jobs \ JobsIn(results)
    OBVIOUS
  <2> QED
    BY <2>1 DEF Missing
<1> HIDE DEF lacking, ends, lacks, one, left, right
<1>8. SumFunctionOnSet(left, Jobs) <= SumFunctionOnSet(right, Jobs)
  <2>1. \A j \in Jobs : left[j] \in Int /\ right[j] \in Int /\ left[j] <= right[j]
    BY <1>4
  <2> QED
    BY <1>1, <2>1, SumMonotone
<1>9. SumFunctionOnSet(left, Jobs) = SumFunctionOnSet(ends, Jobs) + SumFunctionOnSet(lacks, Jobs)
  <2>1. \A j \in Jobs : ends[j] \in Int /\ lacks[j] \in Int /\ left[j] = ends[j] + lacks[j]
    BY <1>4
  <2> QED
    BY <1>1, <2>1, SumAdd
<1>10. SumFunctionOnSet(right, Jobs) = SumFunctionOnSet(one, Jobs) + SumFunctionOnSet(pushes, Jobs)
  <2>1. \A j \in Jobs : one[j] \in Int /\ pushes[j] \in Int /\ right[j] = one[j] + pushes[j]
    BY <1>4
  <2> QED
    BY <1>1, <2>1, SumAdd
<1>11. /\ SumFunctionOnSet(lacks, Jobs) = Missing(results)
       /\ SumFunctionOnSet(one, Jobs) = TotalJobs
  <2>1. SumFunctionOnSet(lacks, Jobs) = Cardinality(Jobs \cap lacking)
    BY <1>1, <1>5, SumOfOnes
  <2>2. SumFunctionOnSet(one, Jobs) = Cardinality(Jobs \cap Jobs)
    BY <1>1, <1>5, SumOfOnes
  <2> QED
    BY <1>1, <1>7, <2>1, <2>2
<1>12. /\ SumFunctionOnSet(pushes, Jobs) \in Int /\ SumFunctionOnSet(ends, Jobs) \in Int
       /\ SumFunctionOnSet(lacks, Jobs) \in Int
  <2>1. \A j \in Jobs : pushes[j] \in Int /\ ends[j] \in Int /\ lacks[j] \in Int
    BY <1>4
  <2> QED
    BY <1>1, <2>1, SumType
<1>13. Ends >= TotalJobs
  <2>1. Cardinality(Acking) \in Nat
    BY FS_Subset, FS_CardinalityType DEF Acking, RedeliveryAssumption, Workers
  <2>2. doneJobs >= TotalJobs /\ doneJobs + Cardinality(Acking) = Ends
    BY DEF Counted
  <2> QED
    BY <1>1, <2>1, <2>2
<1> QED
  BY <1>1, <1>6, <1>8, <1>9, <1>10, <1>11, <1>12, <1>13

\* What is stored, and what another finalizer has loaded, stays true of a longer
\* list.
LEMMA JobsGrow ==
  ASSUME Types, Types', Grown
  PROVE  JobsIn(results) \subseteq JobsIn(results')
<1>1. results \in Seq(Results) /\ results' \in Seq(Results)
  BY DEF Types, TypeOK, ResultsTypeOK
<1>2. /\ Len(results) \in Nat /\ Len(results') \in Nat
      /\ DOMAIN results = 1..Len(results) /\ DOMAIN results' = 1..Len(results')
  BY <1>1, LenProperties
<1> QED
  BY <1>2 DEF JobsIn, Grown

LEMMA StoredStays ==
  ASSUME RedeliveryAssumption, Types, Types', StoredIs, Grown, UNCHANGED stored
  PROVE  StoredIs'
<1>1. /\ successCount \in Nat /\ failedCount \in Nat /\ successCount' \in Nat /\ failedCount' \in Nat
      /\ stored # None => stored \in [successCount : Nat, failedCount : Nat,
                                      failedJobIds : Seq(Members), averagedOver : SUBSET Members]
      /\ pushes \in [Jobs -> Nat] /\ pushes' \in [Jobs -> Nat]
      /\ IsFiniteSet(Jobs) /\ Members = Jobs
  BY DEF Types, TypeOK, LettersTypeOK, ResultsTypeOK, RedeliveryAssumption
<1>2. Pushes \in Int /\ Pushes' \in Int
  <2>1. DOMAIN pushes = Jobs /\ DOMAIN pushes' = Jobs
    BY <1>1
  <2>2. SumFunctionOnSet(pushes, Jobs) \in Int /\ SumFunctionOnSet(pushes', Jobs) \in Int
    BY <1>1, SumType
  <2> QED
    BY <2>1, <2>2 DEF Pushes, SumFunction
<1>3. CASE stored = None
  BY <1>3 DEF StoredIs, StoredCounts
<1>4. CASE stored # None
  <2>1. StoredCounts(CountsNow)'
    BY <1>1, <1>4 DEF StoredIs, StoredCounts, CountsNow, Grown
  <2>2. stored.averagedOver \subseteq JobsIn(results')
    BY <1>4, JobsGrow DEF StoredIs
  <2>3. Cardinality(Jobs \ stored.averagedOver) \in Nat
    BY <1>1, FS_Subset, FS_CardinalityType
  <2>4. Cardinality(Jobs \ stored.averagedOver) <= Pushes'
    BY <1>2, <1>4, <2>3 DEF StoredIs, Grown
  <2> QED
    BY <1>4, <2>1, <2>2, <2>4 DEF StoredIs
<1> QED
  BY <1>3, <1>4

LEMMA PushesAre ==
  ASSUME RedeliveryAssumption, Types, Types'
  PROVE  Pushes \in Int /\ Pushes' \in Int
<1>1. pushes \in [Jobs -> Nat] /\ pushes' \in [Jobs -> Nat] /\ IsFiniteSet(Jobs)
  BY DEF Types, TypeOK, LettersTypeOK, RedeliveryAssumption
<1>2. DOMAIN pushes = Jobs /\ DOMAIN pushes' = Jobs
  BY <1>1
<1>3. SumFunctionOnSet(pushes, Jobs) \in Int /\ SumFunctionOnSet(pushes', Jobs) \in Int
  BY <1>1, SumType
<1> QED
  BY <1>2, <1>3 DEF Pushes, SumFunction

LEMMA PrefixStays ==
  ASSUME Types, Types', Grown, NEW h \in Handlers, step[h] \in Loading, PrefixLoaded(h),
         UNCHANGED <<stored, context[h], mapped[h]>>
  PROVE  PrefixLoaded(h)'
<1>1. /\ results \in Seq(Results) /\ results' \in Seq(Results) /\ mapped[h] \in Seq(Results)
      /\ successCount \in Nat /\ failedCount \in Nat /\ successCount' \in Nat /\ failedCount' \in Nat
      /\ context[h] \in [successCount : Nat, failedCount : Nat]
  BY DEF Types, TypeOK, ResultsTypeOK, ContextRead, Loading
<1>2. Len(results) \in Nat /\ Len(results') \in Nat /\ Len(mapped[h]) \in Nat
  BY <1>1, LenProperties
<1>3. context[h].successCount \in Nat /\ context[h].failedCount \in Nat
  BY <1>1
<1>4. /\ context'[h].successCount <= successCount' /\ context'[h].failedCount <= failedCount'
      /\ StoredCounts(context[h])'
  BY <1>1, <1>3 DEF PrefixLoaded, Grown, StoredCounts
<1>5. /\ Len(mapped'[h]) <= Len(results')
      /\ \A i \in 1..Len(mapped'[h]) : mapped'[h][i] = results'[i]
  BY <1>2 DEF PrefixLoaded, Grown
<1> QED
  BY <1>4, <1>5 DEF PrefixLoaded

\* A handler that has not moved, and one that moves outside of the pages.
LEMMA HandlerStays ==
  ASSUME RedeliveryAssumption, Types, Types', Grown, NEW h \in Handlers, HandlerOK(h),
         UNCHANGED <<stored, context[h], mapped[h]>>,
         \/ step'[h] = step[h]
         \/ /\ step[h] \notin Loading /\ step'[h] \notin Loading
            /\ step'[h] = "context" => status' # "RUNNING"
  PROVE  HandlerOK(h)'
<1>1. CASE step'[h] = step[h]
  <2>1. step'[h] \in Begun => status' # "RUNNING"
    BY <1>1 DEF HandlerOK, Grown
  <2>2. step'[h] \notin Loading => mapped'[h] = <<>>
    BY <1>1 DEF HandlerOK
  <2>3. step'[h] \in Loading => PrefixLoaded(h)'
    BY <1>1, PrefixStays DEF HandlerOK
  <2>4. ASSUME step[h] = "store" PROVE AllLoaded(h)'
    <3>1. Missing(mapped[h]) \in Nat
      BY FS_Subset, FS_CardinalityType DEF Missing, RedeliveryAssumption
    <3>2. Missing(mapped[h]) <= Pushes'
      BY <2>4, <3>1, PushesAre DEF HandlerOK, AllLoaded, Grown
    <3> QED
      BY <2>4, <3>2 DEF HandlerOK, AllLoaded
  <2> QED
    BY <1>1, <2>1, <2>2, <2>3, <2>4 DEF HandlerOK
<1>2. CASE /\ step[h] \notin Loading /\ step'[h] \notin Loading
           /\ step'[h] = "context" => status' # "RUNNING"
  BY <1>2 DEF HandlerOK, Begun, Loading
<1> QED
  BY <1>1, <1>2

\* The counters are read before the first page.
LEMMA ContextKeeps ==
  ASSUME RedeliveryAssumption, Types, Types', ResultsInv, NEW w \in Workers, ReadContext(w)
  PROVE  HandlerOK(w)'
<1>1. /\ UNCHANGED <<results, successCount, failedCount, status, stored, mapped>>
      /\ step[w] = "context" /\ step' = [step EXCEPT ![w] = "page"]
      /\ context' = [context EXCEPT ![w] = CountsNow]
  BY DEF ReadContext, Then, CountsNow
<1>2. /\ context \in [Handlers -> {None} \cup [successCount : Nat, failedCount : Nat]]
      /\ step \in [Workers -> {"idle", "work", "record", "ack", "lock"} \cup Finalizing]
      /\ results \in Seq(Results) /\ successCount \in Nat /\ failedCount \in Nat
  BY DEF Types, TypeOK, ResultsTypeOK
<1>3. step'[w] = "page" /\ context'[w] = CountsNow
  BY <1>1, <1>2 DEF Workers
<1>4. /\ CountsNow.successCount = successCount /\ CountsNow.failedCount = failedCount
      /\ Len(results) \in Nat
  BY <1>2, LenProperties DEF CountsNow
<1>5. HandlerOK(w) /\ StoredIs
  BY DEF ResultsInv, Workers
<1>6. mapped[w] = <<>> /\ Len(mapped[w]) = 0 /\ status # "RUNNING"
  BY <1>1, <1>5 DEF HandlerOK, Begun, Loading
<1>7. StoredCounts(context[w])'
  BY <1>1, <1>3, <1>5 DEF StoredIs, StoredCounts
<1>8. PrefixLoaded(w)'
  BY <1>1, <1>2, <1>3, <1>4, <1>6, <1>7 DEF PrefixLoaded
<1> QED
  BY <1>1, <1>3, <1>6, <1>8 DEF HandlerOK, Loading

\* A page continues the prefix; a short one completes it.
LEMMA PageKeeps ==
  ASSUME RedeliveryAssumption, Types, Types', HandlingsNeedRetries, ResultsInv,
         NEW w \in Workers, LoadPage(w), Grown
  PROVE  HandlerOK(w)'
<1> DEFINE n == Len(mapped[w])
           batch == Page(n)
           all == mapped[w] \o batch
<1>1. /\ UNCHANGED <<results, successCount, failedCount, status, stored, context>>
      /\ step[w] = "page" /\ mapped' = [mapped EXCEPT ![w] = all]
      /\ step' = [step EXCEPT ![w] = IF Len(batch) < PageSize THEN "store" ELSE "page"]
  BY DEF LoadPage, Then
<1>2. /\ context \in [Handlers -> {None} \cup [successCount : Nat, failedCount : Nat]]
      /\ step \in [Workers -> {"idle", "work", "record", "ack", "lock"} \cup Finalizing]
      /\ mapped \in [Handlers -> Seq(Results)] /\ mapped[w] \in Seq(Results)
      /\ results \in Seq(Results) /\ successCount \in Nat /\ failedCount \in Nat
      /\ context[w] \in [successCount : Nat, failedCount : Nat]
  BY <1>1 DEF Types, TypeOK, ResultsTypeOK, ContextRead, Workers
<1>3. /\ step'[w] = (IF Len(batch) < PageSize THEN "store" ELSE "page")
      /\ mapped'[w] = all
  BY <1>1, <1>2 DEF Workers
<1>4. HandlerOK(w) /\ StoredIs /\ Counted
  BY DEF ResultsInv, Workers
<1>5. PrefixLoaded(w) /\ status # "RUNNING"
  BY <1>1, <1>4 DEF HandlerOK, Begun, Loading
<1>6. n \in Nat /\ Len(results) \in Nat /\ n <= Len(results) /\ PageSize \in Nat \ {0}
  BY <1>2, <1>5, LenProperties DEF PrefixLoaded, RedeliveryAssumption
<1>7. /\ batch \in Seq(Results)
      /\ \A i \in 1..Len(batch) : batch[i] = results[n + i]
      /\ n + Len(batch) <= Len(results)
      /\ Len(batch) < PageSize => n + Len(batch) = Len(results)
  BY <1>2, <1>6, PageIs
<1> HIDE DEF batch
<1>8. /\ all \in Seq(Results) /\ Len(all) = n + Len(batch) /\ Len(batch) \in Nat
      /\ \A i \in 1..Len(all) : all[i] = IF i <= n THEN mapped[w][i] ELSE batch[i - n]
  BY <1>2, <1>7, ConcatProperties, LenProperties
<1>9. Len(all) <= Len(results) /\ \A i \in 1..Len(all) : all[i] = results[i]
  <2>1. Len(all) <= Len(results)
    BY <1>7, <1>8
  <2>2. ASSUME NEW i \in 1..Len(all), i <= n PROVE all[i] = results[i]
    <3>1. i \in 1..n
      BY <2>2
    <3> QED
      BY <1>5, <1>8, <2>2, <3>1 DEF PrefixLoaded
  <2>3. ASSUME NEW i \in 1..Len(all), ~(i <= n) PROVE all[i] = results[i]
    <3>1. i - n \in 1..Len(batch) /\ n + (i - n) = i
      BY <1>6, <1>8, <2>3
    <3>2. batch[i - n] = results[n + (i - n)]
      BY <1>7, <3>1
    <3>3. all[i] = batch[i - n]
      BY <1>8, <2>3
    <3> QED
      BY <3>1, <3>2, <3>3
  <2> QED
    BY <2>1, <2>2, <2>3
<1> HIDE DEF all
<1>10. PrefixLoaded(w)'
  BY <1>1, <1>3, <1>5, <1>9 DEF PrefixLoaded, StoredCounts
<1>11. ASSUME Len(batch) < PageSize PROVE AllLoaded(w)'
  <2>1. all = results
    BY <1>2, <1>7, <1>8, <1>9, <1>11, SeqEqual
  <2>2. context'[w].failedCount <= Matches(mapped'[w], Failures)
    BY <1>1, <1>3, <1>4, <1>5, <2>1 DEF Counted, PrefixLoaded
  <2>3. Missing(mapped'[w]) <= Pushes'
    <3>1. Missing(results) <= Pushes
      BY <1>4, <1>5, FewMissing
    <3>2. Pushes <= Pushes'
      BY DEF Grown
    <3>3. Missing(results) \in Nat
      BY FS_Subset, FS_CardinalityType DEF Missing, RedeliveryAssumption
    <3> QED
      BY <1>3, <2>1, <3>1, <3>2, <3>3, PushesAre
  <2>4. stored' # None => stored'.averagedOver \subseteq JobsIn(mapped'[w])
    BY <1>1, <1>3, <1>4, <2>1 DEF StoredIs
  <2> QED
    BY <2>2, <2>3, <2>4 DEF AllLoaded
<1>12. step'[w] \in Loading /\ (step'[w] = "store" => Len(batch) < PageSize)
  BY <1>3 DEF Loading
<1> QED
  BY <1>1, <1>5, <1>10, <1>11, <1>12 DEF HandlerOK

\* What is stored comes from a whole list, and names the failures in it.
LEMMA StoreKeeps ==
  ASSUME RedeliveryAssumption, Types, Types', ResultsInv, Grown, NEW w \in Workers, StoreResult(w)
  PROVE  /\ StoredIs' /\ HandlerOK(w)'
         /\ stored # None =>
              /\ stored.averagedOver \subseteq stored'.averagedOver
              /\ stored.successCount <= stored'.successCount
              /\ stored.failedCount <= stored'.failedCount
<1> DEFINE all == mapped[w]
           ctx == context[w]
           failed == Filter(all, {r \in Range(all) : ~r.success})
<1>1. /\ UNCHANGED <<results, successCount, failedCount, status>> /\ step[w] = "store"
      /\ stored' = Reduce(all, ctx)
      /\ mapped' = [mapped EXCEPT ![w] = <<>>] /\ step' = [step EXCEPT ![w] = "complete"]
  BY DEF StoreResult, Then
<1>2. /\ step \in [Workers -> {"idle", "work", "record", "ack", "lock"} \cup Finalizing]
      /\ mapped \in [Handlers -> Seq(Results)] /\ all \in Seq(Results) /\ results \in Seq(Results)
      /\ successCount \in Nat /\ failedCount \in Nat
      /\ ctx \in [successCount : Nat, failedCount : Nat]
  BY <1>1 DEF Types, TypeOK, ResultsTypeOK, ContextRead, Workers
<1>3. step'[w] = "complete" /\ mapped'[w] = <<>>
  BY <1>1, <1>2 DEF Workers
<1>4. PrefixLoaded(w) /\ AllLoaded(w)
  BY <1>1 DEF ResultsInv, HandlerOK, Loading, Workers
<1>5. /\ stored'.successCount = ctx.successCount /\ stored'.failedCount = ctx.failedCount
      /\ stored'.averagedOver = JobsIn(all)
      /\ stored'.failedJobIds = [i \in DOMAIN failed |-> failed[i].job]
  BY <1>1 DEF Reduce, JobsIn
<1>6. /\ Len(all) \in Nat /\ DOMAIN all = 1..Len(all)
      /\ Len(results) \in Nat /\ DOMAIN results = 1..Len(results)
      /\ \A i \in DOMAIN all : all[i] \in Results
  BY <1>2, LenProperties, ElementOfSeq
<1>7. Len(failed) = Matches(all, Failures) /\ failed \in Seq(Results)
  <2>1. /\ failed \in Seq(Results)
        /\ Len(failed) = Matches(all, {r \in Range(all) : ~r.success})
    BY <1>2, FilterKeeps
  <2>2. \A i \in DOMAIN all : all[i] \in {r \in Range(all) : ~r.success} <=> all[i] \in Failures
    BY <1>6 DEF Failures, Range
  <2>3. {i \in DOMAIN all : all[i] \in {r \in Range(all) : ~r.success}}
          = {i \in DOMAIN all : all[i] \in Failures}
    BY <2>2
  <2> QED
    BY <2>1, <2>3 DEF Matches
<1> HIDE DEF failed
<1>8. Len(stored'.failedJobIds) = Len(failed)
  <2>1. DOMAIN failed = 1..Len(failed) /\ Len(failed) \in Nat
    BY <1>7, LenProperties
  <2> QED
    BY <1>5, <2>1
<1>9. stored'.failedCount <= Len(stored'.failedJobIds)
  BY <1>4, <1>5, <1>7, <1>8 DEF AllLoaded
<1>10. Cardinality(Jobs \ stored'.averagedOver) <= Pushes'
  <2>1. Missing(all) <= Pushes /\ Pushes <= Pushes'
    BY <1>4 DEF AllLoaded, Grown
  <2>2. Missing(all) \in Nat
    BY FS_Subset, FS_CardinalityType DEF Missing, RedeliveryAssumption
  <2> QED
    BY <1>5, <2>1, <2>2, PushesAre DEF Missing
<1>11. stored'.averagedOver \subseteq JobsIn(results')
  BY <1>1, <1>4, <1>5, <1>6 DEF JobsIn, PrefixLoaded
<1>12. StoredCounts(CountsNow)'
  BY <1>1, <1>4, <1>5 DEF StoredCounts, CountsNow, PrefixLoaded
<1>13. StoredIs'
  BY <1>9, <1>10, <1>11, <1>12 DEF StoredIs
<1>14. HandlerOK(w)'
  BY <1>3 DEF HandlerOK, Begun, Loading
<1>15. stored # None =>
         /\ stored.averagedOver \subseteq stored'.averagedOver
         /\ stored.successCount <= stored'.successCount
         /\ stored.failedCount <= stored'.failedCount
  BY <1>4, <1>5 DEF PrefixLoaded, AllLoaded, StoredCounts
<1> QED
  BY <1>13, <1>14, <1>15

\* Every step: the counts, what is stored, the handler that moves, and the
\* others, of which none loads pages while the lock is held.
LEMMA ResultsInvKept ==
  ASSUME RedeliveryAssumption, Types, Types', HandlingsNeedRetries, ResultsInv, [Next]_vars
  PROVE  ResultsInv'
<1>1. Counted' /\ Grown
  BY CountedKept, Grows DEF ResultsInv
<1>2. ASSUME Aside PROVE ResultsInv'
  <2>1. StoredIs'
    BY <1>1, <1>2, StoredStays DEF ResultsInv, Aside
  <2>2. \A h \in Handlers : HandlerOK(h)'
    BY <1>1, <1>2, HandlerStays DEF ResultsInv, Aside
  <2> QED
    BY <1>1, <2>1, <2>2 DEF ResultsInv
<1>3. ASSUME NEW w \in Workers, ReadContext(w) \/ LoadPage(w) \/ StoreResult(w), Quiet
      PROVE  ResultsInv'
  <2>1. /\ step \in [Workers -> {"idle", "work", "record", "ack", "lock"} \cup Finalizing]
        /\ context \in [Handlers -> {None} \cup [successCount : Nat, failedCount : Nat]]
        /\ mapped \in [Handlers -> Seq(Results)]
        /\ \A h \in Handlers : step[h] \in Finalizing <=> lockedBy = h
    BY DEF Types, TypeOK, ResultsTypeOK
  <2>2. /\ step[w] \in Finalizing
        /\ \A h \in Handlers \ {w} :
             step'[h] = step[h] /\ context'[h] = context[h] /\ mapped'[h] = mapped[h]
    BY <1>3, <2>1 DEF ReadContext, LoadPage, StoreResult, Then, Finalizing, Workers
  <2>3. \A h \in Handlers \ {w} : step[h] \notin Loading /\ step'[h] \notin Loading
    BY <2>1, <2>2 DEF Loading, Finalizing, Workers
  <2>4. \A h \in Handlers \ {w} : HandlerOK(h)'
    <3> SUFFICES ASSUME NEW h \in Handlers \ {w} PROVE HandlerOK(h)'
      OBVIOUS
    <3>1. HandlerOK(h) /\ step'[h] = step[h] /\ mapped'[h] = mapped[h] /\ step[h] \notin Loading
      BY <2>2, <2>3 DEF ResultsInv
    <3> QED
      BY <1>1, <3>1 DEF HandlerOK, Grown, Loading
  <2>5. HandlerOK(w)' /\ StoredIs'
    <3>1. CASE ReadContext(w)
      BY <1>1, <3>1, ContextKeeps, StoredStays DEF ResultsInv, ReadContext
    <3>2. CASE LoadPage(w)
      BY <1>1, <3>2, PageKeeps, StoredStays DEF ResultsInv, LoadPage
    <3>3. CASE StoreResult(w)
      BY <1>1, <3>3, StoreKeeps
    <3> QED
      BY <1>3, <3>1, <3>2, <3>3
  <2> QED
    BY <1>1, <2>4, <2>5 DEF ResultsInv
<1> QED
  BY <1>2, <1>3, StepKinds

LEMMA FirstResultsInv == RedeliveryAssumption /\ Init => ResultsInv
<1> SUFFICES ASSUME RedeliveryAssumption, Init PROVE ResultsInv
  OBVIOUS
<1>1. /\ results = <<>> /\ failedCount = 0 /\ doneJobs = 0 /\ status = "RUNNING" /\ stored = None
      /\ \A h \in Handlers : step[h] = "idle" /\ mapped[h] = <<>>
  BY DEF Init, ResultsInit
<1>2. Len(results) = 0 /\ DOMAIN results = {}
  BY <1>1
<1>3. Matches(results, Failures) = 0
  <2>1. {i \in DOMAIN results : results[i] \in Failures} = {}
    BY <1>2
  <2> QED
    BY <2>1, FS_EmptySet DEF Matches
<1>4. Cardinality(Acking) = 0
  <2>1. Acking = {}
    BY <1>1 DEF Acking, Workers
  <2> QED
    BY <2>1, FS_EmptySet
<1>5. Ends = 0
  <2> DEFINE f == [j \in Jobs |-> EndsOf(j)]
  <2>1. \A j \in Jobs : EndsOf(j) = 0
    <3>1. \A j \in Jobs : {i \in DOMAIN results : results[i].job = j} = {}
      BY <1>2
    <3> QED
      BY <3>1, FS_EmptySet DEF EndsOf
  <2>2. \A j \in Jobs : f[j] = 0
    BY <2>1
  <2>3. Ends = SumFunctionOnSet(f, Jobs) /\ IsFiniteSet(Jobs)
    BY DEF Ends, RedeliveryAssumption
  <2> HIDE DEF f
  <2> QED
    BY <2>2, <2>3, SumZero
<1>6. Counted
  BY <1>1, <1>2, <1>3, <1>4, <1>5 DEF Counted
<1> QED
  BY <1>1, <1>6 DEF ResultsInv, StoredIs, StoredCounts, HandlerOK, Begun, Loading

LEMMA ResultsInvHolds == Spec => [](Types /\ HandlingsNeedRetries /\ ResultsInv)
<1>1. RedeliveryAssumption
  BY RedeliveryAssumption
<1>2. Init => Types /\ HandlingsNeedRetries /\ ResultsInv
  BY <1>1, InitTypeOK, FirstHandlings, FirstResultsInv DEF Types, Init, ResultsInit, ContextRead
<1>3. Types /\ HandlingsNeedRetries /\ ResultsInv /\ [Next]_vars
        => (Types /\ HandlingsNeedRetries /\ ResultsInv)'
  BY <1>1, TypesKept, HandlingsKept, ResultsInvKept
<1> QED
  BY <1>2, <1>3, PTL DEF Spec

\* The failures that a stored result counts are all named in it, although the
\* counters are read in one call and the list in pages, while handlers append.
THEOREM FailuresAreNamed == Spec => []FailuresNamed
<1>1. ResultsInv => FailuresNamed
  BY DEF ResultsInv, StoredIs, FailuresNamed
<1> QED
  BY <1>1, ResultsInvHolds, PTL

\* A result that is stored before every job has ended lacks no more jobs than
\* calls of the dead letter queue pushed.
THEOREM EarlyNeedsRetries == Spec => []EarlyOnlyByRetries
<1>1. ResultsInv => EarlyOnlyByRetries
  BY DEF ResultsInv, StoredIs, EarlyOnlyByRetries, Pushes
<1> QED
  BY <1>1, ResultsInvHolds, PTL

\* A result that replaces an earlier one was taken over at least the same jobs
\* and counts at least as many of them.
THEOREM ResultsGrow == Spec => ResultsOnlyGrow
<1>1. RedeliveryAssumption
  BY RedeliveryAssumption
<1>2. ASSUME Types, Types', HandlingsNeedRetries, ResultsInv, [Next]_vars, stored' # stored,
             stored # None
      PROVE  /\ stored.averagedOver \subseteq stored'.averagedOver
             /\ stored.successCount <= stored'.successCount
             /\ stored.failedCount <= stored'.failedCount
  <2>1. PICK w \in Workers : ReadContext(w) \/ LoadPage(w) \/ StoreResult(w)
    BY <1>1, <1>2, StepKinds DEF Aside
  <2>2. StoreResult(w)
    BY <1>2, <2>1 DEF ReadContext, LoadPage
  <2>3. Grown
    BY <1>1, <1>2, Grows
  <2> QED
    BY <1>1, <1>2, <2>2, <2>3, StoreKeeps
<1>3. Types /\ Types' /\ HandlingsNeedRetries /\ ResultsInv /\ [Next]_vars
        => [stored # None =>
              /\ stored.averagedOver \subseteq stored'.averagedOver
              /\ stored.successCount <= stored'.successCount
              /\ stored.failedCount <= stored'.failedCount]_stored
  BY <1>2
<1>4. Spec => [][Next]_vars
  BY DEF Spec
<1> QED
  BY <1>3, <1>4, ResultsInvHolds, PTL DEF ResultsOnlyGrow
=============================================================================
