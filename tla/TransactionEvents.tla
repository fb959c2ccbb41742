------------------------- MODULE TransactionEvents -------------------------
(***************************************************************************)
(* TransactionService.transactionalWithEvent with its                      *)
(* TransactionEventContext (libs/entity, libs/event-emitter).  A handler's *)
(* function fn raises events for a phase of its transaction; the context   *)
(* buffers them and flush hands them to the listeners, one after the other *)
(* and synchronously: a listener that throws (version 2.0.0 of             *)
(* @nestjs/event-emitter calls it directly) throws out of flush.           *)
(*                                                                         *)
(* execs is the sequence of executions so far, one record each:            *)
(*   request   what the execution works for (an index of the user's own)   *)
(*   at        "fn" -> "commit" -> "flush" -> "value"; "error" from each   *)
(*   tx        the transaction in the database; "unsure" is committed      *)
(*             there, but the call of commit failed                        *)
(*   buffer    the events that wait in the context, per phase              *)
(*   emitted   the events handed to listeners, per phase                   *)
(* An event is its place in the phase: only their number is kept.          *)
(***************************************************************************)
EXTENDS Naturals, Sequences

CONSTANT EventsOf   \* the events fn raises, a number for every phase

Phases == {"BEFORE_COMMIT", "AFTER_COMMIT", "AFTER_ROLLBACK"}

ASSUME EventsAssumption == EventsOf \in [Phases -> Nat]

VARIABLE execs

NoEvents == [p \in Phases |-> 0]

EventCounts == {b \in [Phases -> Nat] : \A p \in Phases : b[p] <= EventsOf[p]}

Execution(requests) ==
  [request : requests, at : {"fn", "commit", "flush", "value", "error"},
   tx : {"open", "committed", "unsure", "rolledback"},
   buffer : EventCounts, emitted : EventCounts]

\* transactionalWithEvent begins: a context of its own, an open transaction.
Started(r) ==
  [request |-> r, at |-> "fn", tx |-> "open", buffer |-> NoEvents, emitted |-> NoEvents]

Committed(e) == e.tx \in {"committed", "unsure"}

Running(e) == e.at \notin {"value", "error"}

-----------------------------------------------------------------------------
(* flush(phase): all its events reach their listeners and the buffer is    *)
(* emptied, or the listener of the k-th throws and the buffer stays.       *)
Flushed(e, p) == [e EXCEPT !.emitted[p] = @ + e.buffer[p], !.buffer[p] = 0]

Interrupted(e, p) == {[e EXCEPT !.emitted[p] = @ + k] : k \in 1 .. e.buffer[p]}

\* The catch and the finally: AFTER_ROLLBACK is flushed, the context cleared.
\* A listener that throws here replaces the error; it is one all the same.
Caught(e) ==
  {[f EXCEPT !.at = "error", !.buffer = NoEvents] :
     f \in {Flushed(e, "AFTER_ROLLBACK")} \cup Interrupted(e, "AFTER_ROLLBACK")}

PhaseTooEarly == "AFTER_COMMIT"

\* The phase that is flushed inside of the transaction, when fn has returned.
PhaseInside == "BEFORE_COMMIT"

WithEvents(x, b) == [execs[x] EXCEPT !.buffer = b]

Step(x, from, next) ==
  /\ execs[x].at = from
  /\ \E e \in next : execs' = [execs EXCEPT ![x] = e]

\* fn has returned and the listeners of BEFORE_COMMIT have run.
FnReturns(x) ==
  Step(x, "fn", {[Flushed(WithEvents(x, EventsOf), PhaseInside) EXCEPT !.at = "commit"]})

\* COMMIT goes through; AFTER_COMMIT is flushed when its answer is there.
Commit(x) ==
  Step(x, "commit", {[execs[x] EXCEPT !.tx = "committed", !.at = "flush"]})

AfterCommit(x) ==
  Step(x, "flush", {[Flushed(execs[x], "AFTER_COMMIT") EXCEPT !.at = "value", !.buffer = NoEvents]})

-----------------------------------------------------------------------------
(* What may fail.                                                          *)

\* An exception inside of the transaction: ROLLBACK, then the catch.
RolledBack(es) == UNION {Caught([e EXCEPT !.tx = "rolledback"]) : e \in es}

\* fn throws, before it has raised its events or after it.
FnThrows(x) ==
  Step(x, "fn", RolledBack({WithEvents(x, b) : b \in {NoEvents, EventsOf}}))

BeforeCommitThrows(x) ==
  Step(x, "fn", RolledBack(Interrupted(WithEvents(x, EventsOf), PhaseInside)))

CommitRefused(x) ==
  Step(x, "commit", RolledBack({execs[x]}))

\* The database has committed, but the connection breaks before it says so.
CommitAnswerLost(x) ==
  Step(x, "commit", Caught([execs[x] EXCEPT !.tx = "unsure"]))

\* The flush of AFTER_COMMIT is inside of the try: its exception is caught
\* like one of the transaction.
AfterCommitThrows(x) ==
  Step(x, "flush", UNION {Caught(e) : e \in Interrupted(execs[x], "AFTER_COMMIT")})

Runs(x) == FnReturns(x) \/ Commit(x) \/ AfterCommit(x)

Fails(x) ==
  \/ FnThrows(x) \/ BeforeCommitThrows(x) \/ CommitRefused(x)
  \/ CommitAnswerLost(x) \/ AfterCommitThrows(x)

-----------------------------------------------------------------------------
(* Listeners of AFTER_COMMIT hear only of changes that are in the          *)
(* database, and of every change whose caller is told that it succeeded.   *)
(* Listeners of AFTER_ROLLBACK do not hear of rollbacks only, as           *)
(* doc/event-emitter/TRANSACTIONAL_EVENT_EMITTER_PLAN.md:276 (and :167)    *)
(* has it: whoever hears of it can conclude that the transaction was       *)
(* rolled back, or that the answer of its commit was lost, or that it is   *)
(* committed and a listener of AFTER_COMMIT has run and thrown, since that *)
(* flush (TransactionService.ts:41) is inside of the try.  In each case    *)
(* the caller gets an error.                                               *)
EventsMatchOutcome ==
  \A x \in DOMAIN execs :
    LET e == execs[x]
        heardOfCommit == e.emitted["AFTER_COMMIT"] > 0
        heardOfRollback == e.emitted["AFTER_ROLLBACK"] > 0
    IN
      /\ heardOfCommit => e.tx = "committed"
      /\ e.at = "value" => e.emitted = [EventsOf EXCEPT !["AFTER_ROLLBACK"] = 0]
      /\ heardOfRollback =>
           /\ e.at = "error"
           /\ e.tx \in {"rolledback", "unsure"} \/ (e.tx = "committed" /\ heardOfCommit)
=============================================================================
