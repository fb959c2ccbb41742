----------------------------- MODULE Redelivery ------------------------------
(***************************************************************************)
(* Dead letters that are retried while their group is worked on:           *)
(* DeadLetterQueue and GroupResults, composed by the workers that take     *)
(* jobs from the ready queue and end them (WorkerPoolService).             *)
(*                                                                         *)
(* Leases, backoffs and the stops of workers are in ReliableQueue; here a  *)
(* worker takes a job together with the retryCount it loads, and a requeue *)
(* goes straight back to the ready queue.                                  *)
(***************************************************************************)
EXTENDS DeadLetterQueue, GroupResults

CONSTANTS
  MaxRetry,   \* config.workerPool.maxRetryCount
  MaxFailures, \* bound: processors that throw or time out
  NoJob

ASSUME RedeliveryAssumption ==
  /\ IsFiniteSet(Jobs) /\ Jobs # {} /\ Members = Jobs /\ NoJob \notin Jobs
  /\ IsFiniteSet(Calls) /\ IsFiniteSet(Handlers) /\ None \notin Handlers
  /\ PageSize \in Nat \ {0} /\ MaxRetry \in Nat /\ MaxFailures \in Nat /\ MaxStops \in Nat

VARIABLES
  job,    \* worker -> the job it has, until it has recorded how the job ended
  tries,  \* worker -> the retryCount it has loaded with the job, while it works on it
  buried, \* worker -> whether it handles a dead letter
  failures

workerVars == <<job, tries, buried, failures>>
vars == <<letterVars, resultVars, workerVars>>

Workers == Handlers

\* Bound: the first retries of the jobs are used up (they are in ReliableQueue).
Init ==
  /\ retryCount = [j \in Jobs |-> MaxRetry]
  /\ LettersInit /\ ResultsInit
  /\ job = [w \in Workers |-> NoJob]
  /\ tries = [w \in Workers |-> 0]
  /\ buried = [w \in Workers |-> FALSE]
  /\ failures = 0

aggregates == <<status, stored, lockedBy, context, mapped, doneJobs>>
counters == <<results, successCount, failedCount>>
callVars == <<deadLetters, pc, doomed, kept, seen, made, removed, pushes, raced, stops>>

\* Mutant of Popped: the job stays in the ready queue.
Peeked == ready

Popped == Tail(ready)

Take(w) ==
  /\ step[w] = "idle" /\ ready # <<>>
  /\ ready' = Popped
  /\ job' = [job EXCEPT ![w] = Head(ready)]
  /\ tries' = [tries EXCEPT ![w] = retryCount[Head(ready)]]
  /\ Then(w, "work")
  /\ UNCHANGED <<callVars, retryCount, counters, aggregates, buried, failures>>

MayRetry(w) == tries[w] < MaxRetry

Fail(w) ==
  /\ step[w] = "work" /\ failures < MaxFailures
  /\ failures' = failures + 1
  /\ tries' = [tries EXCEPT ![w] = 0]

\* handleJobFailed: count the retry and requeue.  Copies of a job that fail at
\* the same time pass the maximum; it is the cap here, as nobody looks further.
FailAndRequeue(w) ==
  /\ Fail(w) /\ MayRetry(w)
  /\ retryCount' = [retryCount EXCEPT ![job[w]] = Min({@ + 1, MaxRetry})]
  /\ ready' = Append(ready, job[w])
  /\ job' = [job EXCEPT ![w] = NoJob]
  /\ Then(w, "idle")
  /\ UNCHANGED <<callVars, counters, aggregates, buried>>

\* handleDeadLetter, first call: the entry is in the list before the failure is
\* recorded.
FailAndBury(w) ==
  /\ Fail(w) /\ ~MayRetry(w)
  /\ Bury(job[w])
  /\ buried' = [buried EXCEPT ![w] = TRUE]
  /\ Then(w, "record")
  /\ UNCHANGED <<counters, aggregates, job>>

\* A result whose error is not retryable is recorded like a success.
FailForGood(w) ==
  /\ Fail(w)
  /\ Record(job[w], FALSE)
  /\ job' = [job EXCEPT ![w] = NoJob]
  /\ Then(w, "ack")
  /\ UNCHANGED <<letterVars, aggregates, buried>>

\* recordJobResult: of handleJobComplete, or of handleDeadLetter.
RecordEnd(w) ==
  /\ step[w] = IF buried[w] THEN "record" ELSE "work"
  /\ Record(job[w], ~buried[w])
  /\ job' = [job EXCEPT ![w] = NoJob]
  /\ tries' = [tries EXCEPT ![w] = 0]
  /\ Then(w, "ack")
  /\ UNCHANGED <<letterVars, aggregates, buried, failures>>

\* FairQueueService.ack; handleDeadLetter drops the answer, handleJobComplete
\* finalizes a group that is complete.
AckEnd(w) ==
  /\ step[w] = "ack"
  /\ Acknowledge
  /\ Then(w, IF AllDone(doneJobs') /\ ~buried[w] THEN "lock" ELSE "idle")
  /\ buried' = [buried EXCEPT ![w] = FALSE]
  /\ UNCHANGED <<letterVars, counters, stored, lockedBy, context, mapped, job, tries, failures>>

WorkerStep(w) ==
  \/ Take(w) \/ FailAndRequeue(w) \/ FailAndBury(w) \/ FailForGood(w)
  \/ RecordEnd(w) \/ AckEnd(w)
  \/ FinalizeStep(w) /\ UNCHANGED <<letterVars, workerVars>>

Next ==
  \/ \E c \in Calls : (CallStep(c) \/ Stop(c)) /\ UNCHANGED <<resultVars, workerVars>>
  \/ \E w \in Workers : WorkerStep(w)

Spec == Init /\ [][Next]_vars

-----------------------------------------------------------------------------
\* The values of the keys and of the local variables of calls and workers.
TypeOK ==
  /\ LettersTypeOK /\ ResultsTypeOK
  /\ step \in [Workers -> {"idle", "work", "record", "ack", "lock"} \cup Finalizing]
  /\ job \in [Workers -> Jobs \cup {NoJob}]
  /\ tries \in [Workers -> 0..MaxRetry] /\ buried \in [Workers -> BOOLEAN]
  /\ failures \in 0..MaxFailures
  /\ retryCount \in [Jobs -> 0..MaxRetry]
  /\ \A w \in Workers : job[w] # NoJob <=> step[w] \in {"work", "record"}
  /\ \A w \in Workers : tries[w] # 0 => step[w] = "work"

EndsOf(j) == Cardinality({i \in DOMAIN results : results[i].job = j})

\* What of a job is still to be worked on, is being worked on, or has ended.
HandlingsOf(j) ==
  Count(ready, j) + Cardinality({w \in Workers : job[w] = j}) + EndsOf(j)

\* A job is handled exactly once, and once more for every time that a call of
\* the dead letter queue pushed it: retries that race for one entry, that stop
\* before they have removed it, or that overtake the handler which still records
\* the failure, neither add a handling nor lose one.
HandlingsNeedRetries == \A j \in Jobs : HandlingsOf(j) = 1 + pushes[j]

\* A result may be stored before every job has ended, because the ack of a
\* retried job counts twice; it lacks no more jobs than there were retries.
EarlyOnlyByRetries ==
  stored # None =>
    Cardinality(Jobs \ stored.averagedOver) <= SumFunction(pushes)
=============================================================================
