----------------------------- MODULE MCRequests -----------------------------
(* Instances of Requests for TLC: k1 is a GotClient, k2 a FetchClient. *)
EXTENDS Requests, TLC

CONSTANTS c1, c2, k1, k2

MCKind == k1 :> "got" @@ k2 :> "fetch"
MCUses == {[c \in Calls |-> k] : k \in Clients}
MCEvents == "BEFORE_COMMIT" :> 1 @@ "AFTER_COMMIT" :> 1 @@ "AFTER_ROLLBACK" :> 1
=============================================================================
