---------------------------- MODULE MCRedelivery -----------------------------
(* Instances of Redelivery for TLC. *)
EXTENDS Redelivery, TLC

CONSTANTS j1, j2, j3, w1, w2, c1, c2

MCSymmetry == Permutations({w1, w2}) \cup Permutations({c1, c2}) \cup Permutations(Jobs)
=============================================================================
