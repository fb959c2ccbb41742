------------------------------ MODULE Requests ------------------------------
(***************************************************************************)
(* A call from its client to the transaction of its handler and back: the  *)
(* clients of WebClient, a server whose handlers have the interceptors     *)
(* RetryInterceptor and, inside of it, TimeoutInterceptor of               *)
(* libs/web-common and the two exception filters of setNestApp, and the    *)
(* transactions of TransactionEvents as what the handlers do.  No handler  *)
(* of apps/api uses all of them: this is how the libraries fit together.   *)
(*                                                                         *)
(* http[r].exec is the execution the response of request r waits for,      *)
(* http[r].errors the errors RetryInterceptor has seen.  An execution that *)
(* nobody waits for any more goes on.                                      *)
(*                                                                         *)
(* doubt is a history variable: how often a call's change was given up     *)
(* although it had been, or could still be, committed.                     *)
(***************************************************************************)
EXTENDS WebClient, TransactionEvents

CONSTANTS
  RetriedCalls,   \* the calls to handlers with the RetryInterceptor
  RetryCount,     \* its RETRY_COUNT
  MaxFaults       \* bound on failures and timeouts

ASSUME ServerAssumption ==
  RetriedCalls \subseteq Calls /\ RetryCount \in Nat \ {0} /\ MaxFaults \in Nat

VARIABLES faults, doubt

requestsVars == <<clientVars, execs, faults, doubt>>

RequestsTypeOK ==
  /\ ClientTypeOK /\ \A r \in DOMAIN http : http[r].errors <= RetryCount
  /\ execs \in Seq(Execution(DOMAIN http))
  /\ faults \in 0 .. MaxFaults /\ doubt \in [Calls -> Nat]

RequestsInit ==
  /\ ClientInit /\ execs = <<>>
  /\ faults = 0 /\ doubt = [c \in Calls |-> 0]

Doubt(target, n) == doubt' = [doubt EXCEPT ![target] = @ + n]

One(condition) == IF condition THEN 1 ELSE 0

-----------------------------------------------------------------------------
(* The server.                                                             *)

Begin(r, next) ==
  /\ execs' = Append(execs, Started(r))
  /\ http' = [http EXCEPT ![r] = [next EXCEPT !.exec = Len(execs) + 1]]

Receive(r) ==
  /\ http[r].stage = "sent"
  /\ Begin(r, [http[r] EXCEPT !.stage = "handler"])
  /\ UNCHANGED <<built, call, faults, doubt>>

AnswerWith(r, next) ==
  /\ http[r].stage = "handler"
  /\ http' = [http EXCEPT ![r] = next]
  /\ UNCHANGED <<built, call, execs>>

AnswerValue(r) ==
  /\ http[r].stage = "handler" /\ execs[http[r].exec].at = "value"
  /\ AnswerWith(r, [http[r] EXCEPT !.stage = "answered", !.reply = "ok"])
  /\ UNCHANGED <<faults, doubt>>

\* GlobalExceptionFilter answers 500.  DomainExceptionFilter takes the
\* request for the response (line 21) and throws: nobody answers.
Filtered(q, domain) ==
  IF domain THEN [q EXCEPT !.stage = "silent"]
  ELSE [q EXCEPT !.stage = "answered", !.reply = "error"]

\* retryWhen waits with every error it sees; without it the error goes to
\* the filters.
AfterError(q, domain) ==
  IF q.target \in RetriedCalls THEN [q EXCEPT !.stage = "delay", !.errors = @ + 1]
  ELSE Filtered(q, domain)

HandlerError(r) ==
  /\ http[r].stage = "handler" /\ execs[http[r].exec].at = "error"
  /\ \E domain \in BOOLEAN : AnswerWith(r, AfterError(http[r], domain))
  /\ Doubt(http[r].target, One(Committed(execs[http[r].exec])))
  /\ UNCHANGED faults

\* TimeoutInterceptor throws a RequestTimeoutException, the handler goes on.
TimedOut(r) ==
  /\ http[r].stage = "handler" /\ Running(execs[http[r].exec])
  /\ AnswerWith(r, AfterError(http[r], FALSE))
  /\ Doubt(http[r].target, 1)

\* The delay is over: the handler runs again.  With the last notification
\* take(RETRY_COUNT) also completes the response, which is empty: Nest makes
\* an error of it while the handler runs.
LastRetry(q) == q.errors = RetryCount

Resubscribe(r) ==
  /\ http[r].stage = "delay"
  /\ Begin(r, IF LastRetry(http[r]) THEN Filtered(http[r], FALSE)
              ELSE [http[r] EXCEPT !.stage = "handler"])
  /\ Doubt(http[r].target, One(LastRetry(http[r])))
  /\ UNCHANGED <<built, call, faults>>

-----------------------------------------------------------------------------
(* The clients.                                                            *)

\* A client that sends another call's request doubles it.
Misdirected == {r \in DOMAIN http' \ DOMAIN http : http'[r].by # http'[r].target}

Send(c) ==
  /\ Retrieve(c) \/ AttemptAgain(c)
  /\ doubt' = [d \in Calls |->
                 doubt[d] + Cardinality({r \in Misdirected : http'[r].target = d})]
  /\ UNCHANGED <<execs, faults>>

Resend(c) ==
  /\ GotSendsAgain(c)
  /\ Doubt(RequestOf(c).target, One(RequestOf(c).target # c))
  /\ UNCHANGED <<execs, faults>>

ClientStep(c) ==
  /\ ReceiveAnswer(c) \/ ReadBody(c) \/ TimerFires(c)
  /\ UNCHANGED <<execs, faults, doubt>>

-----------------------------------------------------------------------------
Fault == faults < MaxFaults /\ faults' = faults + 1

Unfinished(r) == http'[r].stage \in {"sent", "handler", "delay"}

Disconnect(c) ==
  /\ Fault
  /\ ConnectionFails(c)
  /\ Doubt(RequestOf(c).target, One(Unfinished(call[c].request) \/ RequestOf(c).reply = "ok"))
  /\ UNCHANGED execs

BodyLost(c) ==
  /\ Fault
  /\ BodyFails(c)
  /\ Doubt(RequestOf(c).target, One(RequestOf(c).reply = "ok"))
  /\ UNCHANGED execs

Stall(c) == Fault /\ BodyStalls(c) /\ UNCHANGED <<execs, doubt>>

ServerTimeout(r) == Fault /\ TimedOut(r)

Execute(x) == Runs(x) /\ UNCHANGED <<clientVars, faults, doubt>>

ExecutionFails(x) == Fault /\ Fails(x) /\ UNCHANGED <<clientVars, doubt>>

ServerStep(r) == Receive(r) \/ AnswerValue(r) \/ HandlerError(r) \/ Resubscribe(r)

RequestsNext ==
  \/ \E c \in Calls :
       Send(c) \/ Resend(c) \/ ClientStep(c) \/ Disconnect(c) \/ BodyLost(c) \/ Stall(c)
  \/ \E r \in DOMAIN http : ServerStep(r) \/ ServerTimeout(r)
  \/ \E x \in DOMAIN execs : Execute(x) \/ ExecutionFails(x)

\* What is not a fault and not the start of a call.
Progress ==
  \/ \E c \in Calls : (call[c].at # "new" /\ Send(c)) \/ Resend(c) \/ ClientStep(c)
  \/ \E r \in DOMAIN http : ServerStep(r)
  \/ \E x \in DOMAIN execs : Execute(x)

\* Timers fire, promises resolve, the database answers; a new call need not
\* be made.  One condition for all of them is enough, and the weakest: every
\* behaviour is finite, so what is not taken stays enabled.
RequestsFairness == WF_requestsVars(Progress)

RequestsSpec == RequestsInit /\ [][RequestsNext]_requestsVars /\ RequestsFairness

-----------------------------------------------------------------------------
Commits(c) == {x \in DOMAIN execs : http[execs[x].request].target = c /\ Committed(execs[x])}

(* A call's change is made a second time only when it was given up before  *)
(* although an execution of it had committed or could still commit: by a   *)
(* timer, a broken connection, a listener that throws after the commit     *)
(* (TransactionService.ts:41), the last retry of RetryInterceptor (26),    *)
(* which nobody waits for, or a client that sends another call's request.  *)
RepeatsNeedDoubt ==
  \A c \in Calls : Cardinality(Commits(c)) <= 1 + doubt[c]

(* Every call that is made ends, or hangs while fetch reads a body:        *)
(* FetchClient.ts:124 clears the timer when the headers are there.         *)
CallsEnd ==
  <>[](\A c \in Calls : Ended(c) \/ call[c].at \in {"new", "stalled"})
=============================================================================
