-------------------------- MODULE MCReliableQueue ---------------------------
(* Instances of ReliableQueue for TLC: two jobs of two groups. *)
EXTENDS ReliableDelivery, TLC

CONSTANTS j1, j2, g1, g2, w1, w2

MCGroupOf == (j1 :> g1) @@ (j2 :> g2)

\* The workers are alike, and so are the jobs together with their groups.
SwapJobs == (j1 :> j2) @@ (j2 :> j1) @@ (g1 :> g2) @@ (g2 :> g1)
Symmetry == Permutations({w1, w2}) \cup {SwapJobs}
=============================================================================
