---------------------------- MODULE JobDelivery ----------------------------
(***************************************************************************)
(* What the reliable queue promises of a job, without workers, leases and  *)
(* queues: the number of handlings that are still owed for it, the number  *)
(* of its ends, and how often it has been late.  A job is owed one         *)
(* handling when it is submitted; one more may be owed for every time it   *)
(* was late, and for nothing else.  ReliableQueue implements this module.  *)
(***************************************************************************)
EXTENDS Integers

CONSTANT Jobs

VARIABLES
  submitted,  \* the jobs that have been submitted
  owed,       \* job -> handlings that are still to come
  done,       \* job -> its ends
  late        \* job -> how often it was late

vars == <<submitted, owed, done, late>>

Init ==
  /\ submitted = {}
  /\ owed = [j \in Jobs |-> 0] /\ done = [j \in Jobs |-> 0] /\ late = [j \in Jobs |-> 0]

Account(j) == [owed |-> owed[j], done |-> done[j], late |-> late[j]]

\* How the account of a job may change, from a to b.
Submitted(a, b) == a.owed = 0 /\ b = [a EXCEPT !.owed = 1]

\* A handling ends.
Finished(a, b) == a.owed > 0 /\ b = [a EXCEPT !.owed = @ - 1, !.done = @ + 1]

\* A handling is lost, or turns out to be the same as another one.
Dropped(a, b) == a.owed > 0 /\ b = [a EXCEPT !.owed = @ - 1]

Delayed(a, b) == a.owed > 0 /\ b = [a EXCEPT !.late = @ + 1]

\* A job is handled again that may not have been given up by its worker.
Repeated(a, b) ==
  a.owed > 0 /\ a.owed + a.done <= a.late /\ b = [a EXCEPT !.owed = @ + 1]

\* Recovery takes several jobs at once: every job makes a step or rests.
Next ==
  /\ submitted \subseteq submitted' /\ submitted' \subseteq Jobs
  /\ owed' \in [Jobs -> Nat] /\ done' \in [Jobs -> Nat] /\ late' \in [Jobs -> Nat]
  /\ \A j \in Jobs :
       LET a == Account(j)
           b == Account(j)'
       IN IF j \in submitted' \ submitted THEN a.done = 0 /\ Submitted(a, b)
          ELSE a = b \/ Finished(a, b) \/ Dropped(a, b) \/ Delayed(a, b) \/ Repeated(a, b)

Spec == Init /\ [][Next]_vars

TypeOK ==
  /\ submitted \subseteq Jobs
  /\ owed \in [Jobs -> Nat] /\ done \in [Jobs -> Nat] /\ late \in [Jobs -> Nat]

\* No job ends, or is still owed, more often than it was late, and once.
EndsAtMostOnceMore == \A j \in Jobs : owed[j] + done[j] <= 1 + late[j]
=============================================================================
