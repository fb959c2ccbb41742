---------------------------- MODULE MCAdmission ------------------------------
(* Instances of Admission for TLC: a small limit and small backoffs, the other *)
(* values as configured by default.  A unit of time is a second.               *)
EXTENDS Admission, BulkActionConfig, TLC

CONSTANTS j1, j2, j3, g1, g2, f1, f2, w1, w2

MCCallGroup == (j1 :> g1) @@ (j2 :> g1) @@ (j3 :> g2)

MCConfig ==
  MergedConfig([backpressure |-> [globalRps |-> 2], congestion |-> [maxBackoffMs |-> 2000],
                workerPool |-> [maxRetryCount |-> 1]])

ASSUME MCConfigUsable == ConfigIsUsable(MCConfig)

MCGlobalRps == MCConfig.backpressure.globalRps
MCWindow == MCConfig.backpressure.rateLimitWindowSec
MCTtl == MCConfig.backpressure.rateLimitKeyTtlSec
MCBaseBackoff == MCConfig.congestion.baseBackoffMs \div 1000
MCMaxBackoff == MCConfig.congestion.maxBackoffMs \div 1000
MCMaxRetry == MCConfig.workerPool.maxRetryCount

ActorSymmetry == Permutations({f1, f2}) \cup Permutations({w1, w2})
=============================================================================
