---------------------------- MODULE MCFairQueue -----------------------------
(* Instances of FairQueue for TLC: two groups, four jobs, two of the levels. *)
EXTENDS FairQueue, TLC

CONSTANTS j1, j2, j3, j4

MCJobs == {j1, j2, j3, j4}
MCGroups == {1, 2}
MCGroupOf == (j1 :> 1) @@ (j2 :> 1) @@ (j3 :> 1) @@ (j4 :> 2)
MCUnequalBase == [g \in MCGroups |-> g - 1]
MCScale == 6
=============================================================================
