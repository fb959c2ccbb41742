-------------------------- MODULE MCGroupLifecycle --------------------------
(* Instances of GroupLifecycle for TLC: two jobs, each handled once, and the *)
(* orphan of another group.                                                  *)
EXTENDS GroupLifecycle, TLC

CONSTANTS d1, d2, d3

MCTwo == {d1, d2}
MCThree == {d1, d2, d3}
MCTwoJobs == (d1 :> 1) @@ (d2 :> 2)
MCWithForeign == MCTwoJobs @@ (d3 :> OtherJob)
MCComplete == [d \in MCTwo |-> "complete"]
MCMixed == (d1 :> "deadLetter") @@ (d2 :> "deadLetter") @@ (d3 :> "orphan")
=============================================================================
