--------------------------- MODULE DeadLetterQueue ---------------------------
(***************************************************************************)
(* The operations of DeadLetterService on the list of dead letters, call   *)
(* by call: retry, retryAll, purge and cleanup, each of them called by any *)
(* number of clients at the same time, while workers append entries.  The  *)
(* list is rewritten by reading it, deleting the key and appending what is *)
(* left entry by entry.                                                    *)
(*                                                                         *)
(* An entry is the job and the time of its failure.  Every element of      *)
(* Calls is one call of the service; it may stop at any point.  The two    *)
(* hash.set of a retry are one step: nobody decides by the status.         *)
(***************************************************************************)
EXTENDS SequencesExt, Counting

CONSTANTS
  Jobs,
  Calls,     \* calls of retry, retryAll, purge and cleanup
  MaxStops   \* bound: calls that stop or throw in the middle

VARIABLES
  deadLetters, \* the list dead-letter-queue
  ready,       \* the list ready-queue
  retryCount,  \* job.retryCount, up to the maximum; set by the module that has the workers
  pc,          \* call -> what it does next
  doomed,      \* call -> the entries it has found and not yet dealt with
  kept,        \* call -> the entries it has still to append again
  seen,        \* call -> the list that it has read to rewrite it
  made,        \* history: the entries ever appended by a worker
  removed,     \* history: the entries that a call meant to take out and has
  pushes,      \* history: job -> how often a call pushed it
  raced,       \* history: the list changed between the read and the delete of a call
  stops

letterVars == <<deadLetters, ready, retryCount, pc, doomed, kept, seen, made, removed,
                pushes, raced, stops>>

Goto(c, label) == pc' = [pc EXCEPT ![c] = label]

LettersInit ==
  /\ deadLetters = <<>>
  /\ ready \in SetToSeqs(Jobs)
  /\ pc = [c \in Calls |-> "new"]
  /\ doomed = [c \in Calls |-> <<>>]
  /\ kept = [c \in Calls |-> <<>>]
  /\ seen = [c \in Calls |-> <<>>]
  /\ made = {} /\ removed = {} /\ raced = FALSE /\ stops = 0
  /\ pushes = [j \in Jobs |-> 0]

EntriesOf(j) == Filter(deadLetters, {e \in Range(deadLetters) : e.job = j})

\* The entries that a call has found decide how it goes on.
Found(c, entries, label) ==
  /\ doomed' = [doomed EXCEPT ![c] = entries]
  /\ Goto(c, IF entries = <<>> THEN "end" ELSE label)
  /\ UNCHANGED <<deadLetters, ready, retryCount, kept, seen, made, removed, pushes, raced, stops>>

FirstOf(entries) == IF entries = <<>> THEN <<>> ELSE <<Head(entries)>>

\* retry(jobId): the first entry of the job.
Retry(c, j) == pc[c] = "new" /\ Found(c, FirstOf(EntriesOf(j)), "reset")

\* purge(jobId).
Purge(c, j) == pc[c] = "new" /\ Found(c, FirstOf(EntriesOf(j)), "read")

\* cleanup(olderThanMs): the entries that failed before the cutoff.
Cleanup(c, cutoff) ==
  /\ pc[c] = "new"
  /\ Found(c, Filter(deadLetters, {e \in Range(deadLetters) : e.failedAt < cutoff}), "read")

\* retryAll: popHead, until the list is empty.
PopHead(c) ==
  /\ pc[c] \in {"new", "pop"}
  /\ IF deadLetters = <<>>
       THEN Goto(c, "end") /\ UNCHANGED <<deadLetters, doomed>>
       ELSE /\ deadLetters' = Tail(deadLetters)
            /\ doomed' = [doomed EXCEPT ![c] = <<Head(deadLetters)>>]
            /\ Goto(c, "resetPopped")
  /\ UNCHANGED <<ready, retryCount, kept, seen, made, removed, pushes, raced, stops>>

\* hash.set retryCount 0, status PENDING.
Reset(c) ==
  /\ pc[c] \in {"reset", "resetPopped"}
  /\ retryCount' = [retryCount EXCEPT ![Head(doomed[c]).job] = 0]
  /\ Goto(c, IF pc[c] = "reset" THEN "push" ELSE "pushPopped")
  /\ UNCHANGED <<deadLetters, ready, doomed, kept, seen, made, removed, pushes, raced, stops>>

\* list.append to the ready queue, whatever its length; retryAll takes the
\* next entry, retry removes the one it has found.
Push(c) ==
  LET e == Head(doomed[c])
  IN /\ pc[c] \in {"push", "pushPopped"}
     /\ ready' = Append(ready, e.job)
     /\ pushes' = [pushes EXCEPT ![e.job] = @ + 1]
     /\ IF pc[c] = "push"
          THEN Goto(c, "read") /\ UNCHANGED <<doomed, removed>>
          ELSE /\ Goto(c, "pop")
               /\ doomed' = [doomed EXCEPT ![c] = <<>>]
               /\ removed' = removed \cup {e}
     /\ UNCHANGED <<deadLetters, retryCount, kept, seen, made, raced, stops>>

-----------------------------------------------------------------------------
(* removeFromDLQ *)

\* Mutant of Others: only the entries behind the removed one are kept.
OthersBehind(entries, e) == SubSeq(entries, SelectInSeq(entries, LAMBDA f : f = e) + 1, Len(entries))

\* allEntries.filter.
Others(entries, e) == Filter(entries, Range(entries) \ {e})

ReadAll(c) ==
  /\ pc[c] = "read"
  /\ kept' = [kept EXCEPT ![c] = Others(deadLetters, Head(doomed[c]))]
  /\ seen' = [seen EXCEPT ![c] = deadLetters]
  /\ Goto(c, "delete")
  /\ UNCHANGED <<deadLetters, ready, retryCount, doomed, made, removed, pushes, raced, stops>>

\* The loop that appends is over: cleanup goes on with the next entry.
AfterAppend(c, left) ==
  /\ kept' = [kept EXCEPT ![c] = left]
  /\ IF left # <<>>
       THEN Goto(c, "append") /\ UNCHANGED doomed
       ELSE /\ doomed' = [doomed EXCEPT ![c] = Tail(@)]
            /\ Goto(c, IF Len(doomed[c]) = 1 THEN "end" ELSE "read")

\* The key is deleted with whatever it holds by now.
Delete(c) ==
  /\ pc[c] = "delete"
  /\ deadLetters' = <<>>
  /\ removed' = removed \cup ({Head(doomed[c])} \cap Range(deadLetters))
  /\ raced' = (raced \/ deadLetters # seen[c])
  /\ seen' = [seen EXCEPT ![c] = <<>>]
  /\ AfterAppend(c, kept[c])
  /\ UNCHANGED <<ready, retryCount, made, pushes, stops>>

AppendKept(c) ==
  /\ pc[c] = "append"
  /\ deadLetters' = Append(deadLetters, Head(kept[c]))
  /\ AfterAppend(c, Tail(kept[c]))
  /\ UNCHANGED <<ready, retryCount, seen, made, removed, pushes, raced, stops>>

\* The instance stops, or a call of Redis throws: there is no catch.
Stop(c) ==
  /\ pc[c] \notin {"new", "end"} /\ stops < MaxStops
  /\ stops' = stops + 1
  /\ Goto(c, "end")
  /\ doomed' = [doomed EXCEPT ![c] = <<>>]
  /\ kept' = [kept EXCEPT ![c] = <<>>]
  /\ seen' = [seen EXCEPT ![c] = <<>>]
  /\ UNCHANGED <<deadLetters, ready, retryCount, made, removed, pushes, raced>>

\* A worker appends the entry of a failed job.
Bury(j) ==
  LET e == [job |-> j, failedAt |-> Cardinality(made)]
  IN /\ deadLetters' = Append(deadLetters, e)
     /\ made' = made \cup {e}
     /\ UNCHANGED <<ready, retryCount, pc, doomed, kept, seen, removed, pushes, raced, stops>>

CallStep(c) ==
  \/ \E j \in Jobs : Retry(c, j) \/ Purge(c, j)
  \/ \E cutoff \in 1..Cardinality(made) : Cleanup(c, cutoff)
  \/ PopHead(c) \/ Reset(c) \/ Push(c) \/ ReadAll(c) \/ Delete(c) \/ AppendKept(c)

-----------------------------------------------------------------------------
Entries == [job : Jobs, failedAt : Nat]

LettersTypeOK ==
  /\ deadLetters \in Seq(Entries) /\ ready \in Seq(Jobs)
  /\ retryCount \in [Jobs -> Nat] /\ pushes \in [Jobs -> Nat]
  /\ pc \in [Calls -> {"new", "reset", "push", "pop", "resetPopped", "pushPopped", "read",
                       "delete", "append", "end"}]
  /\ doomed \in [Calls -> Seq(Entries)] /\ kept \in [Calls -> Seq(Entries)]
  /\ seen \in [Calls -> Seq(Entries)]
  /\ \A c \in Calls : pc[c] \in {"new", "pop", "end"} <=> doomed[c] = <<>>
  /\ \A c \in Calls : pc[c] = "append" => kept[c] # <<>>
  /\ made \subseteq Entries /\ removed \subseteq made
  /\ raced \in BOOLEAN /\ stops \in 0..MaxStops

\* Where an entry is: in the list, in a list that is being appended again, in
\* the hands of retryAll, or dealt with.
PlacesOf(e) ==
  Count(deadLetters, e)
    + Cardinality({c \in Calls : pc[c] = "append" /\ e \in Range(kept[c])})
    + Cardinality({c \in Calls : pc[c] \in {"resetPopped", "pushPopped"} /\ Head(doomed[c]) = e})
    + CountIf(e \in removed)

\* Rewriting the list is exact: no entry gets lost or comes back twice, however
\* several retries, purges, cleanups and dying workers interleave, except when
\* the list changed between the read and the delete of one rewriting, or when a
\* call stopped in the middle.
RewriteExact == ~raced /\ stops = 0 => \A e \in made : PlacesOf(e) = 1
=============================================================================
