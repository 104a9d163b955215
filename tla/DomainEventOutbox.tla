-------------------------- MODULE DomainEventOutbox --------------------------
(****************************************************************************)
(* The domain_events table and its dispatchers: DispatchDomainEventsUseCase *)
(* over PrismaDomainEventRepository.dispatchNextPending, polled by          *)
(* DomainEventDispatchProcessor in every worker process.                    *)
(*                                                                          *)
(* A dispatcher claims the oldest pending row under a row lock, calls the   *)
(* consumer while it holds the lock, and commits the decision.  The lock    *)
(* goes with the transaction: a crash or the transaction's time limit       *)
(* releases it, and after the time limit the consumer is still running.     *)
(* What a consumer does is left to NotificationPipeline; here it returns or *)
(* throws.                                                                  *)
(****************************************************************************)
EXTENDS Naturals, FiniteSets

CONSTANTS
  Events,       \* ids of domain_events rows
  Unconsumed,   \* those of an event type no consumer is registered for
  Workers,      \* dispatcher processes
  MaxAttempts,  \* DOMAIN_EVENT_MAX_DISPATCH_ATTEMPTS
  BatchSize,    \* DOMAIN_EVENT_BATCH_SIZE
  MaxLost       \* bound on crashes and expired claims

ASSUME OutboxAssumption ==
  /\ IsFiniteSet(Events) /\ Unconsumed \subseteq Events
  /\ MaxAttempts \in Nat \ {0}
  /\ BatchSize \in Nat \ {0}
  /\ MaxLost \in Nat

VARIABLES
  event,    \* the domain_events table
  worker,   \* one dispatchBatch loop per worker
  handled,  \* [Events -> Nat]: times a consumer returned
  thrown,   \* [Events -> Nat]: times a consumer threw
  lost      \* claims that ended without a commit

outboxVars == <<event, worker, handled, thrown, lost>>

Terminal == {"dispatched", "failed"}

\* created is created_at, in creation order up to ties: an order among rows,
\* not a clock.
EventRows == [status : Terminal \cup {"absent", "pending"}, attempts : Nat,
              created : 0..Cardinality(Events)]

Decisions == {"none", "dispatched", "retry", "failed", "unknown_event_type"}

\* open tells that the claim transaction still holds its row lock, seen is
\* dispatchAttempts as the claim read it, left the rest of the batch.
WorkerStates == [pc : {"idle", "polling", "handling", "deciding"}, event : Events,
                 open : BOOLEAN, seen : Nat, decision : Decisions, left : 0..BatchSize]

OutboxTypeOK ==
  /\ event \in [Events -> EventRows]
  /\ worker \in [Workers -> WorkerStates]
  /\ handled \in [Events -> Nat]
  /\ thrown \in [Events -> Nat]
  /\ lost \in Nat

OutboxInit ==
  /\ event = [e \in Events |-> [status |-> "absent", attempts |-> 0, created |-> 0]]
  /\ \E e \in Events :
       worker = [w \in Workers |-> [pc |-> "idle", event |-> e, open |-> FALSE, seen |-> 0,
                                    decision |-> "none", left |-> 0]]
  /\ handled = [e \in Events |-> 0]
  /\ thrown = [e \in Events |-> 0]
  /\ lost = 0

(****************************************************************************)
(* A producer's transaction commits a pending row.  Its created_at is the   *)
(* start of that transaction, so it may be older than rows already visible. *)
(****************************************************************************)
Record(e, t) ==
  /\ event[e].status = "absent"
  /\ event' = [event EXCEPT ![e] = [status |-> "pending", attempts |-> 0, created |-> t]]
  /\ UNCHANGED <<worker, handled, thrown, lost>>

(***************************************************************************)
(* dispatchBatch and the claim                                             *)
(***************************************************************************)
Locked(e) == \E w \in Workers : worker[w].open /\ worker[w].event = e

\* As it would be without FOR UPDATE SKIP LOCKED.
ClaimableUnlocked == {e \in Events : event[e].status = "pending"}

\* WHERE status = 'pending' ... FOR UPDATE SKIP LOCKED.
Claimable == {e \in Events : event[e].status = "pending" /\ ~ Locked(e)}

\* As it would be with the loop one short.
BatchGoesOnOneShort(w) == worker[w].left > 1

BatchGoesOn(w) == worker[w].left > 0

\* The repeatable job fires: a new batch.
Poll(w) ==
  /\ worker[w].pc = "idle"
  /\ worker' = [worker EXCEPT ![w].pc = "polling", ![w].left = BatchSize]
  /\ UNCHANGED <<event, handled, thrown, lost>>

\* decide: without a consumer the event fails at once, unattempted.
Claim(w, e) ==
  /\ worker[w].pc = "polling"
  /\ BatchGoesOn(w)
  /\ e \in Claimable
  /\ \A f \in Claimable : event[e].created <= event[f].created
  /\ worker' = [worker EXCEPT ![w].event = e, ![w].open = TRUE,
                  ![w].seen = event[e].attempts,
                  ![w].pc = IF e \in Unconsumed THEN "deciding" ELSE "handling",
                  ![w].decision = IF e \in Unconsumed THEN "unknown_event_type"
                                                      ELSE "none"]
  /\ UNCHANGED <<event, handled, thrown, lost>>

\* The batch is used up, or nothing is left to claim.
BatchEnds(w) ==
  /\ worker[w].pc = "polling"
  /\ ~ BatchGoesOn(w) \/ Claimable = {}
  /\ worker' = [worker EXCEPT ![w].pc = "idle"]
  /\ UNCHANGED <<event, handled, thrown, lost>>

(***************************************************************************)
(* The consumer, inside the claim transaction                              *)
(***************************************************************************)
HandlerReturns(w) ==
  /\ worker[w].pc = "handling"
  /\ worker' = [worker EXCEPT ![w].pc = "deciding", ![w].decision = "dispatched"]
  /\ handled' = [handled EXCEPT ![worker[w].event] = @ + 1]
  /\ UNCHANGED <<event, thrown, lost>>

\* As it would be if the failure just seen were not counted.
AfterFailureUncounted(attempts) == IF attempts >= MaxAttempts THEN "failed" ELSE "retry"

AfterFailure(attempts) == IF attempts + 1 >= MaxAttempts THEN "failed" ELSE "retry"

HandlerThrows(w) ==
  /\ worker[w].pc = "handling"
  /\ worker' = [worker EXCEPT ![w].pc = "deciding",
                              ![w].decision = AfterFailure(worker[w].seen)]
  /\ thrown' = [thrown EXCEPT ![worker[w].event] = @ + 1]
  /\ UNCHANGED <<event, handled, lost>>

(***************************************************************************)
(* The decision is written and the transaction commits.                    *)
(***************************************************************************)
\* As it would be if a failure with attempts left counted as done.
StatusForSwallowed(decision) ==
  IF decision \in {"dispatched", "retry"} THEN "dispatched" ELSE "failed"

StatusFor(decision) ==
  CASE decision = "dispatched" -> "dispatched"
    [] decision = "retry" -> "pending"
    [] OTHER -> "failed"

AttemptsAfter(e, decision) ==
  IF decision \in {"retry", "failed"} THEN event[e].attempts + 1 ELSE event[e].attempts

MayCommit(w) == worker[w].open

CommitDecision(w) ==
  LET e == worker[w].event
      decision == worker[w].decision IN
  /\ worker[w].pc = "deciding"
  /\ MayCommit(w)
  /\ event' = [event EXCEPT ![e].status = StatusFor(decision),
                            ![e].attempts = AttemptsAfter(e, decision)]
  /\ worker' = [worker EXCEPT ![w].pc = "polling", ![w].open = FALSE,
                              ![w].left = worker[w].left - 1]
  /\ UNCHANGED <<handled, thrown, lost>>

\* The transaction is gone: the update throws, through dispatchBatch, and
\* ends the batch.
CommitRefused(w) ==
  /\ worker[w].pc = "deciding"
  /\ ~ MayCommit(w)
  /\ worker' = [worker EXCEPT ![w].pc = "idle"]
  /\ UNCHANGED <<event, handled, thrown, lost>>

(***************************************************************************)
(* Losing a claim                                                          *)
(***************************************************************************)
\* The interactive transaction passes its time limit and is rolled back.
ClaimExpires(w) ==
  /\ worker[w].pc \in {"handling", "deciding"}
  /\ worker[w].open
  /\ lost < MaxLost
  /\ worker' = [worker EXCEPT ![w].open = FALSE]
  /\ lost' = lost + 1
  /\ UNCHANGED <<event, handled, thrown>>

Crash(w) ==
  /\ worker[w].pc # "idle"
  /\ lost < MaxLost
  /\ worker' = [worker EXCEPT ![w].pc = "idle", ![w].open = FALSE]
  /\ lost' = lost + 1
  /\ UNCHANGED <<event, handled, thrown>>

\* What a worker does of itself, and so goes on doing.
WorkerStep(w) ==
  \/ Poll(w)
  \/ \E e \in Events : Claim(w, e)
  \/ BatchEnds(w)
  \/ HandlerReturns(w)
  \/ HandlerThrows(w)
  \/ CommitDecision(w)
  \/ CommitRefused(w)

OutboxNext ==
  \/ \E e \in Events, t \in 1..Cardinality(Events) : Record(e, t)
  \/ \E w \in Workers : WorkerStep(w) \/ ClaimExpires(w) \/ Crash(w)

OutboxSpec == OutboxInit /\ [][OutboxNext]_outboxVars

\* The repeatable job fires every DOMAIN_EVENT_POLL_INTERVAL_MS, and every
\* await of a batch settles.
FairOutboxSpec == OutboxSpec /\ \A w \in Workers : WF_outboxVars(WorkerStep(w))

(***************************************************************************)
(* Properties                                                              *)
(***************************************************************************)
\* Two claim transactions never hold the same event, however many workers
\* poll.
ClaimedOnce ==
  \A v, w \in Workers :
    worker[v].open /\ worker[w].open /\ worker[v].event = worker[w].event => v = w

\* An event is given up only after its consumer really threw MaxAttempts
\* times; one without a consumer fails without an attempt counted.
GivenUpOnlyAfterMaxAttempts ==
  \A e \in Events :
    event[e].status = "failed" =>
      IF e \in Unconsumed
      THEN event[e].attempts = 0
      ELSE event[e].attempts = MaxAttempts /\ thrown[e] >= MaxAttempts

\* A pending event always has an attempt left, so that dispatch_attempts
\* never passes the limit whichever worker increments it.
PendingHasAttemptsLeft ==
  \A e \in Events : event[e].status = "pending" => event[e].attempts < MaxAttempts

\* The limit on attempts is exact, whichever workers count the failures: no
\* event is given up before, and none is tried after it.
AttemptsBounded == GivenUpOnlyAfterMaxAttempts /\ PendingHasAttemptsLeft

\* However many workers poll one table, an event is claimed by one of them at
\* a time and its failures are counted exactly, by whichever workers see them.
ClaimsAreExact == ClaimedOnce /\ AttemptsBounded

\* At least once: an event marked dispatched was handled.  And at most once
\* more for every claim lost: only a crash or an expired claim makes a
\* consumer succeed twice on an event.
HandledOncePerClaim ==
  \A e \in Events :
    /\ event[e].status = "dispatched" => handled[e] > 0
    /\ handled[e] <= lost + 1

\* A dispatched or failed row never changes again, though a worker that lost
\* its claim may still carry a decision about it.
TerminalIsFinal ==
  [][\A e \in Events : event[e].status \in Terminal => event'[e] = event[e]]_outboxVars

\* Every recorded event ends, dispatched or given up, if claims are lost
\* only finitely often.
EveryEventEnds ==
  \A e \in Events : event[e].status = "pending" ~> event[e].status \in Terminal
=============================================================================
