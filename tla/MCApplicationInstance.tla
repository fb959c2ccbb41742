----------------------- MODULE MCApplicationInstance -------------------------
(* Instances of ApplicationInstance for TLC. *)
EXTENDS ApplicationInstance, TLC

CONSTANTS j, w1, w2

MCTypeOf == j :> "CUSTOM"
=============================================================================
