-------------------------- MODULE ReliableDelivery --------------------------
(***************************************************************************)
(* The reliable queue implements JobDelivery: what is owed to a job are    *)
(* its places in the queues and the workers that have it.  A lease counts  *)
(* when no worker stands for it.                                           *)
(***************************************************************************)
EXTENDS ReliableQueue

Owed(j) == Copies(j) - ends[j]

Delivery ==
  INSTANCE JobDelivery WITH
    submitted <- admitted, owed <- [j \in Jobs |-> Owed(j)], done <- ends, late <- stalls

(* Whatever workers, leases, retries, recoveries and crashes do, each of   *)
(* their steps is a step of JobDelivery or none: a job is handled again    *)
(* only instead of a handling that was given up, or for a deadline that    *)
(* passed under a worker that was alive.                                   *)
Delivered == Delivery!Spec
=============================================================================
