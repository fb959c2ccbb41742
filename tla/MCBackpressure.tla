--------------------------- MODULE MCBackpressure ---------------------------
(* Instances of Backpressure for TLC. *)
EXTENDS Backpressure, TLC

CONSTANTS j1, j2, j3, g1, g2

MCGroupOf == (j1 :> g1) @@ (j2 :> g1) @@ (j3 :> g2)
=============================================================================
