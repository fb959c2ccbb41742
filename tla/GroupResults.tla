---------------------------- MODULE GroupResults -----------------------------
(***************************************************************************)
(* The results of one group: AggregatorService.recordJobResult, the ack    *)
(* that counts a job as done, and finalizeGroup with the pages that        *)
(* aggregate loads, call by call.  Several handlers may be in the middle   *)
(* of it; a job may be recorded more than once.                            *)
(*                                                                         *)
(* The lock has no TTL here and the states before AGGREGATING are one (see *)
(* GroupLifecycle); the duration of a job is left out, and with it the     *)
(* average is the set of jobs it is taken over.                            *)
(***************************************************************************)
EXTENDS SequencesExt, Counting

CONSTANTS
  Members,    \* the jobs of the group
  Handlers,   \* callers of recordJobResult, ack and finalizeGroup
  PageSize,   \* BATCH_SIZE
  None

VARIABLES
  results,      \* group:{id}:job-results, a list
  successCount, failedCount, doneJobs, status, \* fields of group:{id}:meta
  stored,       \* group:{id}:result
  lockedBy,     \* the holder of the aggregation lock
  step,         \* handler -> the call it makes next
  context,      \* handler -> the AggregationContext it has built
  mapped        \* handler -> allMapped

resultVars == <<results, successCount, failedCount, doneJobs, status, stored, lockedBy,
                step, context, mapped>>

ResultsInit ==
  /\ results = <<>> /\ successCount = 0 /\ failedCount = 0 /\ doneJobs = 0
  /\ status = "RUNNING" /\ stored = None /\ lockedBy = None
  /\ step = [h \in Handlers |-> "idle"]
  /\ context = [h \in Handlers |-> None]
  /\ mapped = [h \in Handlers |-> <<>>]

Then(h, label) == step' = [step EXCEPT ![h] = label]

TotalJobs == Cardinality(Members)

\* record-job-result.lua: count and append.
Record(j, success) ==
  /\ results' = Append(results, [job |-> j, success |-> success])
  /\ successCount' = successCount + CountIf(success)
  /\ failedCount' = failedCount + CountIf(~success)

\* Mutant of AllDone: a done job is counted twice.
AllButOneDone(done) == done + 1 >= TotalJobs

AllDone(done) == done >= TotalJobs

\* ack.lua: every ack counts, and one that reaches the total sets AGGREGATING.
Acknowledge ==
  /\ doneJobs' = doneJobs + 1
  /\ status' = IF AllDone(doneJobs') THEN "AGGREGATING" ELSE status

\* Mutant of LockFree: finalizeGroup without its lock.
LockIgnored == TRUE

LockFree == lockedBy = None

\* withLock: acquire; when the attempts are used up the caller gives up.
Lock(h) ==
  /\ step[h] = "lock"
  /\ \/ LockFree /\ lockedBy' = h /\ Then(h, "status")
     \/ ~LockFree /\ UNCHANGED lockedBy /\ Then(h, "idle")
  /\ UNCHANGED <<results, successCount, failedCount, doneJobs, status, stored, context, mapped>>

\* finalizeGroup reads the status under the lock.
ReadStatus(h) ==
  /\ step[h] = "status"
  /\ Then(h, IF status = "AGGREGATING" THEN "context" ELSE "unlock")
  /\ UNCHANGED <<results, successCount, failedCount, doneJobs, status, stored, lockedBy,
                 context, mapped>>

\* aggregate reads the counters before the first page.
ReadContext(h) ==
  /\ step[h] = "context"
  /\ context' = [context EXCEPT ![h] = [successCount |-> successCount, failedCount |-> failedCount]]
  /\ Then(h, "page")
  /\ UNCHANGED <<results, successCount, failedCount, doneJobs, status, stored, lockedBy, mapped>>

PageEnd(offset) == Min({offset + PageSize, Len(results)})

\* Mutant of Page: the page starts one result too late.
PageOffByOne(offset) == SubSeq(results, offset + 2, PageEnd(offset))

\* list.range(offset, offset + BATCH_SIZE - 1).
Page(offset) == SubSeq(results, offset + 1, PageEnd(offset))

\* One page; a short or empty page is the last one.
LoadPage(h) ==
  LET batch == Page(Len(mapped[h]))
  IN /\ step[h] = "page"
     /\ mapped' = [mapped EXCEPT ![h] = @ \o batch]
     /\ Then(h, IF Len(batch) < PageSize THEN "store" ELSE "page")
     /\ UNCHANGED <<results, successCount, failedCount, doneJobs, status, stored, lockedBy, context>>

\* DefaultAggregator.reduce: the counts come from the context, the names of the
\* failed jobs and the average from the results.
Reduce(all, ctx) ==
  LET failed == Filter(all, {r \in Range(all) : ~r.success})
  IN [successCount |-> ctx.successCount, failedCount |-> ctx.failedCount,
      failedJobIds |-> [i \in DOMAIN failed |-> failed[i].job],
      averagedOver |-> {all[i].job : i \in DOMAIN all}]

StoreResult(h) ==
  /\ step[h] = "store"
  /\ stored' = Reduce(mapped[h], context[h])
  /\ context' = [context EXCEPT ![h] = None]
  /\ mapped' = [mapped EXCEPT ![h] = <<>>]
  /\ Then(h, "complete")
  /\ UNCHANGED <<results, successCount, failedCount, doneJobs, status, lockedBy>>

\* transition AGGREGATING -> COMPLETED.
CompleteGroup(h) ==
  /\ step[h] = "complete"
  /\ status' = IF status = "AGGREGATING" THEN "COMPLETED" ELSE status
  /\ Then(h, "unlock")
  /\ UNCHANGED <<results, successCount, failedCount, doneJobs, stored, lockedBy, context, mapped>>

Unlock(h) ==
  /\ step[h] = "unlock"
  /\ lockedBy' = IF lockedBy = h THEN None ELSE lockedBy
  /\ Then(h, "idle")
  /\ UNCHANGED <<results, successCount, failedCount, doneJobs, status, stored, context, mapped>>

FinalizeStep(h) ==
  \/ Lock(h) \/ ReadStatus(h) \/ ReadContext(h) \/ LoadPage(h) \/ StoreResult(h)
  \/ CompleteGroup(h) \/ Unlock(h)

-----------------------------------------------------------------------------
Results == [job : Members, success : BOOLEAN]
Finalizing == {"status", "context", "page", "store", "complete", "unlock"}

ResultsTypeOK ==
  /\ results \in Seq(Results)
  /\ successCount \in Nat /\ failedCount \in Nat /\ doneJobs \in Nat
  /\ status \in {"RUNNING", "AGGREGATING", "COMPLETED"}
  /\ lockedBy \in Handlers \cup {None}
  /\ \A h \in Handlers : step[h] \in Finalizing <=> lockedBy = h
  /\ mapped \in [Handlers -> Seq(Results)]
  /\ context \in [Handlers -> {None} \cup [successCount : Nat, failedCount : Nat]]
  /\ stored \in {None} \cup [successCount : Nat, failedCount : Nat, failedJobIds : Seq(Members),
                             averagedOver : SUBSET Members]

\* The failures that a stored result counts are all named in it, although the
\* counters are read in one call and the list in pages, while handlers append.
FailuresNamed == stored # None => stored.failedCount <= Len(stored.failedJobIds)

\* A result that replaces an earlier one was taken over at least the same jobs
\* and counts at least as many of them: no late finalizer brings an old one back.
ResultsOnlyGrow ==
  [][stored # None =>
       /\ stored.averagedOver \subseteq stored'.averagedOver
       /\ stored.successCount <= stored'.successCount
       /\ stored.failedCount <= stored'.failedCount]_stored
=============================================================================
