----------------------------- MODULE WebClient -----------------------------
(***************************************************************************)
(* libs/web-client: FetchClient and GotClient, mutable builders of one     *)
(* request, and RetryExecutor, the loop around it.  A call configures a    *)
(* client and runs retrieve(policy); the configuration stays in the client *)
(* and every attempt reads it again.                                       *)
(*                                                                         *)
(*   built   what each client holds: the call that set method and url last *)
(*           and the call that set the body last (a GET sets none)         *)
(*   call    each call: its client, its attempt, the retries that the      *)
(*           library got has made in this attempt, the request it waits    *)
(*           for, and whether another call has taken its client meanwhile  *)
(*   http    the requests sent so far: by which call, for which call's     *)
(*           configuration, and what has become of them (exec and errors   *)
(*           belong to the server, module Requests)                        *)
(*                                                                         *)
(* got's own retries are external: limit 2, only for methods like GET, not *)
(* turned off by GotClient.  Delays are left out: an attempt that waits    *)
(* may start again at any time.                                            *)
(***************************************************************************)
EXTENDS Naturals, Sequences, FiniteSets

CONSTANTS
  Calls, Clients, NoCall,
  KindOf,       \* "fetch" or "got" for every client
  Uses,         \* the ways in which the calls may choose their clients
  GetCalls,     \* the calls without a body; the others are POST
  MaxRetries,   \* of the RetryPolicy
  GotLimit      \* retries of the library got

\* What RetryPolicyBuilder builds, as far as the number of attempts goes.
PolicyIsValid == MaxRetries \in Nat

ASSUME ClientAssumption ==
  /\ PolicyIsValid /\ GotLimit \in Nat /\ GetCalls \subseteq Calls
  /\ KindOf \in [Clients -> {"fetch", "got"}] /\ NoCall \notin Calls
  /\ Uses \subseteq [Calls -> Clients]

VARIABLES built, call, http

clientVars == <<built, call, http>>

Stages == {"sent", "lost", "handler", "delay", "silent", "answered"}

CallStates ==
  [at : {"new", "flight", "inner", "backoff", "body", "stalled", "value", "error"},
   client : Clients, attempt : 0 .. MaxRetries, inner : 0 .. GotLimit,
   request : Nat, reused : BOOLEAN]

HttpRequests ==
  [by : Calls, target : Calls, stage : Stages, reply : {"none", "ok", "error"},
   exec : Nat, errors : Nat]

ClientTypeOK ==
  /\ built \in [Clients -> [target : Calls \cup {NoCall}, body : Calls \cup {NoCall}]]
  /\ call \in [Calls -> CallStates]
  /\ http \in Seq(HttpRequests)

ClientInit ==
  /\ built = [k \in Clients |-> [target |-> NoCall, body |-> NoCall]]
  /\ call \in {[c \in Calls |-> [at |-> "new", client |-> k[c], attempt |-> 0, inner |-> 0,
                                 request |-> 0, reused |-> FALSE]] : k \in Uses}
  /\ http = <<>>

Ended(c) == call[c].at \in {"value", "error"}

RequestOf(c) == http[call[c].request]

-----------------------------------------------------------------------------
ConfiguredOnce(config, c) ==
  IF config.target = NoCall THEN [target |-> c, body |-> IF c \in GetCalls THEN NoCall ELSE c]
  ELSE config

(* The builder's methods, one chain up to retrieve().                      *)
Configured(config, c) ==
  [target |-> c, body |-> IF c \in GetCalls THEN config.body ELSE c]

\* Both libraries refuse a GET with the body of an earlier POST.
Sendable(config) == config.target \in GetCalls => config.body = NoCall

AttemptTooMany(attempt) == attempt <= MaxRetries

\* RetryExecutor: attempt < policy.maxRetries.
AnotherAttempt(attempt) == attempt < MaxRetries

RetriedOnceMore(d, target) ==
  KindOf[d.client] = "got" /\ target \in GetCalls /\ d.inner <= GotLimit

\* got sends a GET again by itself.
RetriedByGot(d, target) ==
  KindOf[d.client] = "got" /\ target \in GetCalls /\ d.inner < GotLimit

\* The catch of RetryExecutor.
Rejected(d) ==
  IF AnotherAttempt(d.attempt)
  THEN [d EXCEPT !.at = "backoff", !.attempt = @ + 1, !.inner = 0]
  ELSE [d EXCEPT !.at = "error"]

Failed(d, target) ==
  IF RetriedByGot(d, target) THEN [d EXCEPT !.at = "inner", !.inner = @ + 1]
  ELSE Rejected(d)

Post(c, target) ==
  http' = Append(http, [by |-> c, target |-> target, stage |-> "sent", reply |-> "none",
                        exec |-> 0, errors |-> 0])

Waiting(d) == [d EXCEPT !.at = "flight", !.request = Len(http) + 1]

\* doFetch or doRequest with what the client holds.
Attempt(c, config, others) ==
  IF Sendable(config)
  THEN Post(c, config.target) /\ call' = [others EXCEPT ![c] = Waiting(@)]
  ELSE UNCHANGED http /\ call' = [others EXCEPT ![c] = Rejected(@)]

-----------------------------------------------------------------------------
Retrieve(c) ==
  LET k == call[c].client IN
    /\ call[c].at = "new"
    /\ built' = [built EXCEPT ![k] = Configured(@, c)]
    /\ Attempt(c, built'[k],
               [d \in Calls |-> [call[d] EXCEPT
                  !.reused = @ \/ (d # c /\ call[d].client = k /\ call[d].at # "new" /\ ~Ended(d))]])

\* The sleep of RetryExecutor is over.
AttemptAgain(c) ==
  /\ call[c].at = "backoff"
  /\ Attempt(c, built[call[c].client], call)
  /\ UNCHANGED built

\* got has normalised its options when the attempt began.
GotSendsAgain(c) ==
  /\ call[c].at = "inner"
  /\ Post(c, RequestOf(c).target)
  /\ call' = [call EXCEPT ![c] = Waiting(@)]
  /\ UNCHANGED built

AnsweredAndRepeated(d, request) ==
  IF KindOf[d.client] = "fetch" THEN [d EXCEPT !.at = "body"] ELSE Rejected(d)

\* fetch resolves with the headers, whatever the status, and doFetch clears
\* its timer; got resolves with the whole answer and throws for a status
\* that is not a success.
Answered(d, request) ==
  IF KindOf[d.client] = "fetch" THEN [d EXCEPT !.at = "body"]
  ELSE IF request.reply = "ok" THEN [d EXCEPT !.at = "value"]
  ELSE Failed(d, request.target)

ReceiveAnswer(c) ==
  /\ call[c].at = "flight" /\ RequestOf(c).stage = "answered"
  /\ call' = [call EXCEPT ![c] = Answered(@, RequestOf(c))]
  /\ UNCHANGED <<built, http>>

\* response.text() of fetch.
ReadBody(c) ==
  /\ call[c].at = "body"
  /\ call' = [call EXCEPT ![c].at = "value"]
  /\ UNCHANGED <<built, http>>

\* The client's timer ends an attempt that is still without an answer, even
\* if the server goes on; a broken connection ends it, and a request that
\* the server has not seen may be lost with it.
GivesUp(c, stage) ==
  /\ call[c].at = "flight"
  /\ http' = [http EXCEPT ![call[c].request].stage = stage]
  /\ call' = [call EXCEPT ![c] = Failed(@, RequestOf(c).target)]
  /\ UNCHANGED built

NeverUnanswerable(request) == FALSE

\* Nobody is going to answer.
Unanswerable(request) == request.stage = "silent"

TimerFires(c) ==
  /\ call[c].at = "flight" /\ Unanswerable(RequestOf(c))
  /\ GivesUp(c, "silent")

ConnectionFails(c) ==
  /\ call[c].at = "flight"
  /\ \E stage \in {RequestOf(c).stage} \cup (IF RequestOf(c).stage = "sent" THEN {"lost"} ELSE {}) :
       GivesUp(c, stage)

BodyFails(c) ==
  /\ call[c].at = "body"
  /\ call' = [call EXCEPT ![c] = Failed(@, RequestOf(c).target)]
  /\ UNCHANGED <<built, http>>

\* The body of fetch never ends, and its timer has been cleared.
BodyStalls(c) ==
  /\ call[c].at = "body"
  /\ call' = [call EXCEPT ![c].at = "stalled"]
  /\ UNCHANGED <<built, http>>

-----------------------------------------------------------------------------
SentBy(c) == {r \in DOMAIN http : http[r].by = c}

SendsGet(c) == \E r \in SentBy(c) : http[r].target \in GetCalls

(* A call sends one request for each of its attempts, times the retries of *)
(* got for a client of that kind that sends a GET.  (RetryExecutor.ts 4-25 *)
(* and GotClient.ts 110-116, which leaves got's retries on.)               *)
RequestsBounded ==
  \A c \in Calls :
    Cardinality(SentBy(c)) <=
      (MaxRetries + 1) * IF KindOf[call[c].client] = "got" /\ SendsGet(c) THEN 1 + GotLimit ELSE 1

(* The same bound without got's retries: doc/retry/                        *)
(* retry-implementation-plan.md:193 says that they are not used.           *)
OneRequestPerAttempt ==
  \A c \in Calls : Cardinality(SentBy(c)) <= MaxRetries + 1

(* A call only sends its own request, unless another call has configured   *)
(* its client before it ended: a retry reads the url, the method and the   *)
(* body of the client anew (FetchClient.ts 116-121, GotClient.ts 110-113). *)
RequestsAreOwn ==
  \A r \in DOMAIN http : http[r].target # http[r].by => call[http[r].by].reused
=============================================================================
