----------------------- MODULE DomainEventOutbox_proofs -----------------------
(***************************************************************************)
(* For any events, workers and limits: a row has one claim at a time, is   *)
(* given up only after MaxAttempts failures, and never changes once it has *)
(* ended, although workers that lost their claim go on handling it.        *)
(***************************************************************************)
EXTENDS DomainEventOutbox, FiniteSetTheorems, TLAPS

\* What a claim that is still open guarantees its worker: the row is as the
\* claim read it.
ClaimIsCurrent(w) ==
  worker[w].open =>
    /\ worker[w].pc \in {"handling", "deciding"}
    /\ event[worker[w].event].status = "pending"
    /\ event[worker[w].event].attempts = worker[w].seen

\* Where a decision comes from.
DecisionIsGrounded(w) ==
  LET e == worker[w].event IN
  /\ worker[w].pc \in {"handling", "deciding"} => worker[w].left > 0
  /\ worker[w].pc = "handling" => e \notin Unconsumed
  /\ worker[w].pc = "deciding" =>
       CASE worker[w].decision = "dispatched" -> handled[e] > 0
         [] worker[w].decision = "retry" ->
              e \notin Unconsumed /\ worker[w].seen + 1 < MaxAttempts
         [] worker[w].decision = "failed" ->
              e \notin Unconsumed /\ worker[w].seen + 1 >= MaxAttempts
         [] worker[w].decision = "unknown_event_type" -> e \in Unconsumed
         [] OTHER -> FALSE

\* A failure about to be counted has been seen.
FailureIsReal(w) ==
  (worker[w].open /\ worker[w].pc = "deciding" /\ worker[w].decision \in {"retry", "failed"}) =>
    event[worker[w].event].attempts + 1 <= thrown[worker[w].event]

AttemptsAreReal ==
  \A e \in Events :
    /\ event[e].attempts <= thrown[e]
    /\ e \in Unconsumed => event[e].attempts = 0

\* The part of HandledOncePerClaim that needs no counting.
DispatchedWasHandled ==
  \A e \in Events : event[e].status = "dispatched" => handled[e] > 0

OInv ==
  /\ OutboxTypeOK
  /\ ClaimedOnce
  /\ \A w \in Workers : ClaimIsCurrent(w) /\ DecisionIsGrounded(w) /\ FailureIsReal(w)
  /\ AttemptsAreReal
  /\ PendingHasAttemptsLeft
  /\ GivenUpOnlyAfterMaxAttempts
  /\ DispatchedWasHandled

LEMMA InitOInv == OutboxInit => OInv
  <1> SUFFICES ASSUME OutboxInit PROVE OInv
    OBVIOUS
  <1>1. PICK e0 \in Events :
          worker = [w \in Workers |-> [pc |-> "idle", event |-> e0, open |-> FALSE, seen |-> 0,
                                       decision |-> "none", left |-> 0]]
    BY DEF OutboxInit
  <1>2. OutboxTypeOK
    <2>1. worker \in [Workers -> WorkerStates]
      BY <1>1, OutboxAssumption DEF WorkerStates, Decisions
    <2>2. 0 \in 0..Cardinality(Events)
      BY FS_CardinalityType, OutboxAssumption
    <2>3. [status |-> "absent", attempts |-> 0, created |-> 0] \in EventRows
      BY <2>2 DEF EventRows
    <2>. QED
      BY <2>1, <2>3 DEF OutboxInit, OutboxTypeOK
  <1>3. \A w \in Workers : ~ worker[w].open /\ worker[w].pc = "idle"
    BY <1>1
  <1>4. AttemptsAreReal /\ PendingHasAttemptsLeft /\ GivenUpOnlyAfterMaxAttempts
        /\ DispatchedWasHandled
    BY DEF OutboxInit, AttemptsAreReal, PendingHasAttemptsLeft, GivenUpOnlyAfterMaxAttempts,
           DispatchedWasHandled
  <1>. QED
    BY <1>2, <1>3, <1>4 DEF OInv, ClaimedOnce, ClaimIsCurrent, DecisionIsGrounded, FailureIsReal

\* A step of one worker that leaves the tables alone and opens no claim.
LEMMA WorkerMoves ==
  ASSUME OInv, NEW w \in Workers, NEW s \in WorkerStates,
         worker' = [worker EXCEPT ![w] = s],
         UNCHANGED <<event, handled, thrown>>, lost' \in Nat, ~ s.open,
         s.pc \in {"handling", "deciding"} => worker[w] = [s EXCEPT !.open = worker[w].open]
  PROVE  OInv'
  <1>1. OutboxTypeOK'
    BY DEF OInv, OutboxTypeOK
  <1>2. worker'[w] = s /\ \A v \in Workers \ {w} : worker'[v] = worker[v]
    BY DEF OInv, OutboxTypeOK
  <1>3. ClaimedOnce'
    BY <1>2 DEF OInv, ClaimedOnce
  <1>4. \A v \in Workers : ClaimIsCurrent(v)' /\ DecisionIsGrounded(v)' /\ FailureIsReal(v)'
    <2> SUFFICES ASSUME NEW v \in Workers
                 PROVE  ClaimIsCurrent(v)' /\ DecisionIsGrounded(v)' /\ FailureIsReal(v)'
      OBVIOUS
    <2>1. CASE v # w
      BY <2>1, <1>2 DEF OInv, ClaimIsCurrent, DecisionIsGrounded, FailureIsReal
    <2>2. CASE v = w
      <3>1. ClaimIsCurrent(w)' /\ FailureIsReal(w)'
        BY <1>2 DEF ClaimIsCurrent, FailureIsReal
      <3>2. s.pc \in {"handling", "deciding"} =>
              /\ worker[w].pc = s.pc /\ worker[w].event = s.event /\ worker[w].seen = s.seen
              /\ worker[w].decision = s.decision /\ worker[w].left = s.left
        BY DEF WorkerStates
      <3>3. DecisionIsGrounded(w)
        BY DEF OInv
      <3>4. DecisionIsGrounded(w)'
        BY <1>2, <3>2, <3>3 DEF DecisionIsGrounded
      <3>. QED
        BY <2>2, <3>1, <3>4
    <2>. QED
      BY <2>1, <2>2
  <1>5. /\ AttemptsAreReal' /\ PendingHasAttemptsLeft' /\ GivenUpOnlyAfterMaxAttempts'
        /\ DispatchedWasHandled'
    BY DEF OInv, AttemptsAreReal, PendingHasAttemptsLeft, GivenUpOnlyAfterMaxAttempts,
           DispatchedWasHandled
  <1>. QED
    BY <1>1, <1>3, <1>4, <1>5 DEF OInv

LEMMA PollKeeps == ASSUME OInv, NEW w \in Workers, Poll(w) PROVE OInv'
  <1>1. worker[w] \in WorkerStates /\ ~ worker[w].open
    BY DEF OInv, OutboxTypeOK, ClaimIsCurrent, Poll, WorkerStates
  <1>2. [worker[w] EXCEPT !.pc = "polling", !.left = BatchSize] \in WorkerStates
    <2>1. BatchSize \in 0..BatchSize
      BY OutboxAssumption
    <2>. QED
      BY <1>1, <2>1 DEF WorkerStates
  <1>. QED
    BY <1>1, <1>2, WorkerMoves DEF Poll, WorkerStates, OInv, OutboxTypeOK

LEMMA BatchEndsKeeps == ASSUME OInv, NEW w \in Workers, BatchEnds(w) PROVE OInv'
  <1>1. worker[w] \in WorkerStates /\ ~ worker[w].open
    BY DEF OInv, OutboxTypeOK, ClaimIsCurrent, BatchEnds, WorkerStates
  <1>2. [worker[w] EXCEPT !.pc = "idle"] \in WorkerStates
    BY <1>1 DEF WorkerStates
  <1>. QED
    BY <1>1, <1>2, WorkerMoves DEF BatchEnds, WorkerStates, OInv, OutboxTypeOK

LEMMA CommitRefusedKeeps == ASSUME OInv, NEW w \in Workers, CommitRefused(w) PROVE OInv'
  <1>1. worker[w] \in WorkerStates /\ ~ worker[w].open
    BY DEF OInv, OutboxTypeOK, CommitRefused, MayCommit, WorkerStates
  <1>2. [worker[w] EXCEPT !.pc = "idle"] \in WorkerStates
    BY <1>1 DEF WorkerStates
  <1>. QED
    BY <1>1, <1>2, WorkerMoves DEF CommitRefused, WorkerStates, OInv, OutboxTypeOK

LEMMA CrashKeeps == ASSUME OInv, NEW w \in Workers, Crash(w) PROVE OInv'
  <1>1. worker[w] \in WorkerStates /\ lost' \in Nat
    BY DEF OInv, OutboxTypeOK, Crash
  <1>2. [worker[w] EXCEPT !.pc = "idle", !.open = FALSE] \in WorkerStates
    BY <1>1 DEF WorkerStates
  <1>. QED
    <2>1. worker' = [worker EXCEPT ![w] = [worker[w] EXCEPT !.pc = "idle", !.open = FALSE]]
      BY DEF Crash
    <2>2. UNCHANGED <<event, handled, thrown>>
      BY DEF Crash
    <2>3. LET s == [worker[w] EXCEPT !.pc = "idle", !.open = FALSE]
          IN ~ s.open /\ s.pc = "idle"
      BY <1>1 DEF WorkerStates
    <2>. QED
      BY <1>1, <1>2, <2>1, <2>2, <2>3, WorkerMoves

LEMMA ClaimExpiresKeeps == ASSUME OInv, NEW w \in Workers, ClaimExpires(w) PROVE OInv'
  <1>1. worker[w] \in WorkerStates /\ lost' \in Nat
    BY DEF OInv, OutboxTypeOK, ClaimExpires
  <1>2. [worker[w] EXCEPT !.open = FALSE] \in WorkerStates
    BY <1>1 DEF WorkerStates
  <1>3. worker[w] = [[worker[w] EXCEPT !.open = FALSE] EXCEPT !.open = worker[w].open]
    BY <1>1 DEF WorkerStates
  <1>. QED
    BY <1>1, <1>2, <1>3, WorkerMoves DEF ClaimExpires, WorkerStates

LEMMA ClaimKeeps ==
  ASSUME OInv, NEW w \in Workers, NEW e \in Events, Claim(w, e)
  PROVE  OInv'
  <1> DEFINE s == [worker[w] EXCEPT !.event = e, !.open = TRUE, !.seen = event[e].attempts,
                     !.pc = IF e \in Unconsumed THEN "deciding" ELSE "handling",
                     !.decision = IF e \in Unconsumed THEN "unknown_event_type" ELSE "none"]
  <1>1. worker[w] \in WorkerStates /\ event[e] \in EventRows
    BY DEF OInv, OutboxTypeOK
  <1>2. s \in WorkerStates /\ s.left = worker[w].left
    BY <1>1 DEF WorkerStates, EventRows, Decisions
  <1>3. /\ s.event = e /\ s.open /\ s.seen = event[e].attempts
        /\ s.pc = IF e \in Unconsumed THEN "deciding" ELSE "handling"
        /\ s.decision = IF e \in Unconsumed THEN "unknown_event_type" ELSE "none"
    BY <1>1 DEF WorkerStates
  <1>4. worker' = [worker EXCEPT ![w] = s] /\ UNCHANGED <<event, handled, thrown, lost>>
    BY DEF Claim
  <1>5. event[e].status = "pending" /\ ~ Locked(e) /\ worker[w].left > 0
    BY DEF Claim, Claimable, BatchGoesOn
  <1> HIDE DEF s
  <1>6. worker'[w] = s /\ \A v \in Workers \ {w} : worker'[v] = worker[v]
    BY <1>4 DEF OInv, OutboxTypeOK
  <1>7. OutboxTypeOK'
    BY <1>2, <1>4 DEF OInv, OutboxTypeOK
  <1>8. ClaimedOnce'
    BY <1>3, <1>5, <1>6 DEF OInv, ClaimedOnce, Locked
  <1>9. \A v \in Workers : ClaimIsCurrent(v)' /\ DecisionIsGrounded(v)' /\ FailureIsReal(v)'
    <2> SUFFICES ASSUME NEW v \in Workers
                 PROVE  ClaimIsCurrent(v)' /\ DecisionIsGrounded(v)' /\ FailureIsReal(v)'
      OBVIOUS
    <2>1. CASE v # w
      BY <2>1, <1>4, <1>6 DEF OInv, ClaimIsCurrent, DecisionIsGrounded, FailureIsReal
    <2>2. CASE v = w
      BY <2>2, <1>2, <1>3, <1>4, <1>5, <1>6 DEF ClaimIsCurrent, DecisionIsGrounded, FailureIsReal
    <2>. QED
      BY <2>1, <2>2
  <1>10. /\ AttemptsAreReal' /\ PendingHasAttemptsLeft' /\ GivenUpOnlyAfterMaxAttempts'
         /\ DispatchedWasHandled'
    BY <1>4 DEF OInv, AttemptsAreReal, PendingHasAttemptsLeft, GivenUpOnlyAfterMaxAttempts,
           DispatchedWasHandled
  <1>. QED
    BY <1>7, <1>8, <1>9, <1>10 DEF OInv

\* The consumer's answer, whichever it is, turns into a grounded decision.
LEMMA HandlerReturnsKeeps ==
  ASSUME OInv, NEW w \in Workers, HandlerReturns(w)
  PROVE  OInv'
  <1> DEFINE s == [worker[w] EXCEPT !.pc = "deciding", !.decision = "dispatched"]
             e == worker[w].event
  <1>1. worker[w] \in WorkerStates /\ e \in Events /\ handled[e] \in Nat
    BY DEF OInv, OutboxTypeOK, WorkerStates
  <1>2. /\ s \in WorkerStates /\ s.event = e /\ s.open = worker[w].open /\ s.left = worker[w].left
        /\ s.seen = worker[w].seen /\ s.pc = "deciding" /\ s.decision = "dispatched"
    BY <1>1 DEF WorkerStates, Decisions
  <1>3. /\ worker' = [worker EXCEPT ![w] = s] /\ UNCHANGED <<event, thrown, lost>>
        /\ handled' = [handled EXCEPT ![e] = handled[e] + 1] /\ worker[w].pc = "handling"
    BY DEF HandlerReturns
  <1> HIDE DEF s, e
  <1>4. worker'[w] = s /\ \A v \in Workers \ {w} : worker'[v] = worker[v]
    BY <1>3 DEF OInv, OutboxTypeOK
  <1>5. handled' \in [Events -> Nat] /\ handled'[e] > 0 /\ \A f \in Events : handled'[f] >= handled[f]
    BY <1>1, <1>3 DEF OInv, OutboxTypeOK
  <1>6. OutboxTypeOK'
    BY <1>2, <1>3, <1>5 DEF OInv, OutboxTypeOK
  <1>7. ClaimedOnce'
    BY <1>2, <1>4 DEF OInv, ClaimedOnce, e
  <1>8. \A v \in Workers : ClaimIsCurrent(v)' /\ DecisionIsGrounded(v)' /\ FailureIsReal(v)'
    <2> SUFFICES ASSUME NEW v \in Workers
                 PROVE  ClaimIsCurrent(v)' /\ DecisionIsGrounded(v)' /\ FailureIsReal(v)'
      OBVIOUS
    <2>1. CASE v # w
      <3>1. worker[v].event \in Events /\ handled'[worker[v].event] >= handled[worker[v].event]
            /\ handled[worker[v].event] \in Nat /\ handled'[worker[v].event] \in Nat
        BY <1>5 DEF OInv, OutboxTypeOK, WorkerStates
      <3>. QED
        BY <2>1, <3>1, <1>3, <1>4 DEF OInv, ClaimIsCurrent, DecisionIsGrounded, FailureIsReal
    <2>2. CASE v = w
      BY <2>2, <1>2, <1>3, <1>4, <1>5 DEF OInv, ClaimIsCurrent, DecisionIsGrounded, FailureIsReal, e
    <2>. QED
      BY <2>1, <2>2
  <1>9. /\ AttemptsAreReal' /\ PendingHasAttemptsLeft' /\ GivenUpOnlyAfterMaxAttempts'
        /\ DispatchedWasHandled'
    BY <1>3, <1>5 DEF OInv, OutboxTypeOK, AttemptsAreReal, PendingHasAttemptsLeft,
           GivenUpOnlyAfterMaxAttempts, DispatchedWasHandled
  <1>. QED
    BY <1>6, <1>7, <1>8, <1>9 DEF OInv

LEMMA HandlerThrowsKeeps ==
  ASSUME OInv, NEW w \in Workers, HandlerThrows(w)
  PROVE  OInv'
  <1> DEFINE s == [worker[w] EXCEPT !.pc = "deciding", !.decision = AfterFailure(worker[w].seen)]
             e == worker[w].event
  <1>1. worker[w] \in WorkerStates /\ e \in Events /\ thrown[e] \in Nat
    BY DEF OInv, OutboxTypeOK, WorkerStates
  <1>2. /\ s \in WorkerStates /\ s.event = e /\ s.open = worker[w].open /\ s.left = worker[w].left
        /\ s.seen = worker[w].seen /\ s.pc = "deciding"
        /\ s.decision = IF s.seen + 1 >= MaxAttempts THEN "failed" ELSE "retry"
    BY <1>1 DEF WorkerStates, Decisions, AfterFailure
  <1>3. /\ worker' = [worker EXCEPT ![w] = s] /\ UNCHANGED <<event, handled, lost>>
        /\ thrown' = [thrown EXCEPT ![e] = thrown[e] + 1] /\ worker[w].pc = "handling"
    BY DEF HandlerThrows
  <1> HIDE DEF s, e
  <1>4. worker'[w] = s /\ \A v \in Workers \ {w} : worker'[v] = worker[v]
    BY <1>3 DEF OInv, OutboxTypeOK
  <1>5. /\ thrown' \in [Events -> Nat] /\ thrown'[e] = thrown[e] + 1
        /\ \A f \in Events : thrown'[f] >= thrown[f]
    BY <1>1, <1>3 DEF OInv, OutboxTypeOK
  <1>6. OutboxTypeOK'
    BY <1>2, <1>3, <1>5 DEF OInv, OutboxTypeOK
  <1>7. ClaimedOnce'
    BY <1>2, <1>4 DEF OInv, ClaimedOnce, e
  <1>8. \A v \in Workers : ClaimIsCurrent(v)' /\ DecisionIsGrounded(v)' /\ FailureIsReal(v)'
    <2> SUFFICES ASSUME NEW v \in Workers
                 PROVE  ClaimIsCurrent(v)' /\ DecisionIsGrounded(v)' /\ FailureIsReal(v)'
      OBVIOUS
    <2>1. CASE v # w
      <3>1. /\ worker[v].event \in Events
            /\ thrown'[worker[v].event] >= thrown[worker[v].event]
            /\ thrown[worker[v].event] \in Nat /\ thrown'[worker[v].event] \in Nat
            /\ event[worker[v].event].attempts \in Nat
        BY <1>5 DEF OInv, OutboxTypeOK, WorkerStates, EventRows
      <3>. QED
        BY <2>1, <3>1, <1>3, <1>4 DEF OInv, ClaimIsCurrent, DecisionIsGrounded, FailureIsReal
    <2>2. CASE v = w
      <3>1. event[e].attempts \in Nat /\ event[e].attempts <= thrown[e]
        BY <1>1 DEF OInv, OutboxTypeOK, EventRows, AttemptsAreReal
      <3>2. ClaimIsCurrent(w)' /\ FailureIsReal(w)'
        BY <3>1, <1>1, <1>2, <1>3, <1>4, <1>5 DEF OInv, ClaimIsCurrent, FailureIsReal, e
      <3>3. e \notin Unconsumed /\ s.left > 0 /\ s.seen \in Nat
        BY <1>1, <1>2, <1>3 DEF OInv, DecisionIsGrounded, WorkerStates, e
      <3>4. DecisionIsGrounded(w)'
        BY <3>3, <1>2, <1>4, OutboxAssumption DEF DecisionIsGrounded
      <3>. QED
        BY <2>2, <3>2, <3>4
    <2>. QED
      BY <2>1, <2>2
  <1>9. AttemptsAreReal' /\ GivenUpOnlyAfterMaxAttempts'
    <2>1. \A f \in Events : event[f].attempts \in Nat /\ thrown[f] \in Nat /\ thrown'[f] \in Nat
      BY <1>5 DEF OInv, OutboxTypeOK, EventRows
    <2>. QED
      BY <2>1, <1>3, <1>5, OutboxAssumption
      DEF OInv, AttemptsAreReal, GivenUpOnlyAfterMaxAttempts
  <1>10. PendingHasAttemptsLeft' /\ DispatchedWasHandled'
    BY <1>3 DEF OInv, PendingHasAttemptsLeft, DispatchedWasHandled
  <1>. QED
    BY <1>6, <1>7, <1>8, <1>9, <1>10 DEF OInv

\* The decision is written by the worker whose claim is open: nobody else's
\* claim is on that row, so nobody else's claim is disturbed.
LEMMA CommitDecisionKeeps ==
  ASSUME OInv, NEW w \in Workers, CommitDecision(w)
  PROVE  OInv'
  <1> DEFINE s == [worker[w] EXCEPT !.pc = "polling", !.open = FALSE, !.left = worker[w].left - 1]
             e == worker[w].event
             decision == worker[w].decision
             row == [event[e] EXCEPT !.status = StatusFor(decision),
                                     !.attempts = AttemptsAfter(e, decision)]
  <1>1. /\ worker[w] \in WorkerStates /\ e \in Events /\ event[e] \in EventRows
        /\ thrown[e] \in Nat /\ handled[e] \in Nat
    BY DEF OInv, OutboxTypeOK, WorkerStates
  <1>2. /\ worker[w].pc = "deciding" /\ worker[w].open
        /\ worker' = [worker EXCEPT ![w] = s] /\ event' = [event EXCEPT ![e] = row]
        /\ UNCHANGED <<handled, thrown, lost>>
    <2>1. worker' = [worker EXCEPT ![w] = s]
      BY DEF CommitDecision
    <2>2. event' = [event EXCEPT ![e] = row]
      BY DEF CommitDecision
    <2>. QED
      BY <2>1, <2>2 DEF CommitDecision, MayCommit
  <1>3. /\ event[e].status = "pending" /\ event[e].attempts = worker[w].seen
        /\ worker[w].left > 0 /\ event[e].attempts < MaxAttempts
        /\ event[e].attempts \in Nat /\ event[e].attempts <= thrown[e]
        /\ e \in Unconsumed => event[e].attempts = 0
    BY <1>1, <1>2 DEF OInv, ClaimIsCurrent, DecisionIsGrounded, PendingHasAttemptsLeft,
       EventRows, AttemptsAreReal
  <1>4. \/ decision = "dispatched" /\ handled[e] > 0
        \/ /\ decision = "retry" /\ e \notin Unconsumed /\ event[e].attempts + 1 < MaxAttempts
           /\ event[e].attempts + 1 <= thrown[e]
        \/ /\ decision = "failed" /\ e \notin Unconsumed /\ event[e].attempts + 1 >= MaxAttempts
           /\ event[e].attempts + 1 <= thrown[e]
        \/ decision = "unknown_event_type" /\ e \in Unconsumed
    BY <1>1, <1>2, <1>3 DEF OInv, ClaimIsCurrent, DecisionIsGrounded, FailureIsReal, WorkerStates,
       Decisions
  <1>5. /\ s \in WorkerStates /\ ~ s.open /\ s.pc = "polling"
    <2>1. worker[w].left - 1 \in 0..BatchSize
      BY <1>1, <1>3, OutboxAssumption DEF WorkerStates
    <2>. QED
      BY <1>1, <2>1 DEF WorkerStates
  <1>6. /\ row.status = StatusFor(decision) /\ row.attempts = AttemptsAfter(e, decision)
        /\ row.created = event[e].created
    BY <1>1 DEF EventRows
  <1>7. /\ decision = "dispatched" => row.status = "dispatched" /\ row.attempts = event[e].attempts
        /\ decision = "retry" => row.status = "pending" /\ row.attempts = event[e].attempts + 1
        /\ decision = "failed" => row.status = "failed" /\ row.attempts = event[e].attempts + 1
        /\ decision = "unknown_event_type" =>
             row.status = "failed" /\ row.attempts = event[e].attempts
    BY <1>6 DEF StatusFor, AttemptsAfter
  <1>8. row \in EventRows
    <2>1. row.status \in Terminal \cup {"absent", "pending"} /\ row.attempts \in Nat
      BY <1>3, <1>4, <1>7 DEF Terminal
    <2>. QED
      BY <2>1, <1>1, <1>6 DEF EventRows
  <1> HIDE DEF s, e, decision, row
  <1>9. /\ worker'[w] = s /\ \A v \in Workers \ {w} : worker'[v] = worker[v]
        /\ event'[e] = row /\ \A f \in Events \ {e} : event'[f] = event[f]
    BY <1>1, <1>2 DEF OInv, OutboxTypeOK
  <1>10. OutboxTypeOK'
    BY <1>2, <1>5, <1>8 DEF OInv, OutboxTypeOK
  <1>11. ClaimedOnce'
    BY <1>5, <1>9 DEF OInv, ClaimedOnce
  <1>12. \A v \in Workers : ClaimIsCurrent(v)' /\ DecisionIsGrounded(v)' /\ FailureIsReal(v)'
    <2> SUFFICES ASSUME NEW v \in Workers
                 PROVE  ClaimIsCurrent(v)' /\ DecisionIsGrounded(v)' /\ FailureIsReal(v)'
      OBVIOUS
    <2>1. CASE v = w
      BY <2>1, <1>5, <1>9 DEF ClaimIsCurrent, DecisionIsGrounded, FailureIsReal
    <2>2. CASE v # w
      <3>1. worker'[v] = worker[v] /\ worker[v].event \in Events
        BY <2>2, <1>9 DEF OInv, OutboxTypeOK, WorkerStates
      <3>2. worker[v].open => worker[v].event # e
        BY <2>2, <1>2 DEF OInv, ClaimedOnce, e
      <3>3. worker[v].open => event'[worker[v].event] = event[worker[v].event]
        BY <3>1, <3>2, <1>9
      <3>. QED
        BY <3>1, <3>3, <1>2 DEF OInv, ClaimIsCurrent, DecisionIsGrounded, FailureIsReal
    <2>. QED
      BY <2>1, <2>2
  <1>13. AttemptsAreReal' /\ PendingHasAttemptsLeft'
    BY <1>2, <1>3, <1>4, <1>7, <1>9 DEF OInv, AttemptsAreReal, PendingHasAttemptsLeft
  <1>14. GivenUpOnlyAfterMaxAttempts'
    BY <1>1, <1>2, <1>3, <1>4, <1>7, <1>9, OutboxAssumption
    DEF OInv, GivenUpOnlyAfterMaxAttempts
  <1>15. DispatchedWasHandled'
    BY <1>2, <1>4, <1>7, <1>9 DEF OInv, DispatchedWasHandled
  <1>. QED
    BY <1>10, <1>11, <1>12, <1>13, <1>14, <1>15 DEF OInv

\* A row fresh from its producer was claimed by nobody.
LEMMA RecordKeeps ==
  ASSUME OInv, NEW e \in Events, NEW t \in 1..Cardinality(Events), Record(e, t)
  PROVE  OInv'
  <1> DEFINE row == [status |-> "pending", attempts |-> 0, created |-> t]
  <1>1. event' = [event EXCEPT ![e] = row] /\ event[e].status = "absent"
        /\ UNCHANGED <<worker, handled, thrown, lost>>
    BY DEF Record
  <1>2. event'[e] = row /\ \A f \in Events \ {e} : event'[f] = event[f]
    BY <1>1 DEF OInv, OutboxTypeOK
  <1>3. OutboxTypeOK'
    <2>1. row \in EventRows
      BY DEF EventRows
    <2>. QED
      BY <1>1, <2>1 DEF OInv, OutboxTypeOK
  <1>4. ClaimedOnce'
    BY <1>1 DEF OInv, ClaimedOnce
  <1>5. \A w \in Workers : ClaimIsCurrent(w)' /\ DecisionIsGrounded(w)' /\ FailureIsReal(w)'
    <2> SUFFICES ASSUME NEW w \in Workers
                 PROVE  ClaimIsCurrent(w)' /\ DecisionIsGrounded(w)' /\ FailureIsReal(w)'
      OBVIOUS
    <2>1. worker[w].event \in Events /\ worker[w].open => worker[w].event # e
      BY <1>1 DEF OInv, ClaimIsCurrent, OutboxTypeOK, WorkerStates
    <2>2. worker[w].event \in Events
      BY DEF OInv, OutboxTypeOK, WorkerStates
    <2>3. worker[w].open => event'[worker[w].event] = event[worker[w].event]
      BY <2>1, <2>2, <1>2
    <2>. QED
      BY <2>3, <1>1 DEF OInv, ClaimIsCurrent, DecisionIsGrounded, FailureIsReal
  <1>6. /\ AttemptsAreReal' /\ PendingHasAttemptsLeft' /\ GivenUpOnlyAfterMaxAttempts'
        /\ DispatchedWasHandled'
    <2>1. MaxAttempts > 0 /\ \A f \in Events : thrown[f] \in Nat
      BY OutboxAssumption DEF OInv, OutboxTypeOK
    <2>2. event'[e].status = "pending" /\ event'[e].attempts = 0
      BY <1>2
    <2> HIDE DEF row
    <2>. QED
      BY <2>1, <2>2, <1>1, <1>2 DEF OInv, AttemptsAreReal, PendingHasAttemptsLeft,
         GivenUpOnlyAfterMaxAttempts, DispatchedWasHandled
  <1>. QED
    BY <1>3, <1>4, <1>5, <1>6 DEF OInv

LEMMA StepKeeps == OInv /\ [OutboxNext]_outboxVars => OInv'
  <1> SUFFICES ASSUME OInv, [OutboxNext]_outboxVars PROVE OInv'
    OBVIOUS
  <1>1. CASE UNCHANGED outboxVars
    BY <1>1 DEF outboxVars, OInv, OutboxTypeOK, ClaimedOnce, ClaimIsCurrent, DecisionIsGrounded,
       FailureIsReal, AttemptsAreReal, PendingHasAttemptsLeft, GivenUpOnlyAfterMaxAttempts,
       DispatchedWasHandled
  <1>2. CASE \E e \in Events, t \in 1..Cardinality(Events) : Record(e, t)
    BY <1>2, RecordKeeps
  <1>3. ASSUME NEW w \in Workers, WorkerStep(w) \/ ClaimExpires(w) \/ Crash(w)
        PROVE  OInv'
    BY <1>3, PollKeeps, ClaimKeeps, BatchEndsKeeps, HandlerReturnsKeeps, HandlerThrowsKeeps,
       CommitDecisionKeeps, CommitRefusedKeeps, ClaimExpiresKeeps, CrashKeeps DEF WorkerStep
  <1>. QED
    BY <1>1, <1>2, <1>3 DEF OutboxNext

\* The inductive invariant holds in every reachable state.
THEOREM OutboxInvariant == OutboxSpec => []OInv
  BY InitOInv, StepKeeps, PTL DEF OutboxSpec

\* The tables and the dispatch loops keep their types.
THEOREM TypeCorrect == OutboxSpec => []OutboxTypeOK
  <1>1. OInv => OutboxTypeOK
    BY DEF OInv
  <1>. QED
    BY <1>1, OutboxInvariant, PTL

\* FOR UPDATE SKIP LOCKED: two workers never hold one row.
THEOREM OneClaim == OutboxSpec => []ClaimedOnce
  <1>1. OInv => ClaimedOnce
    BY DEF OInv
  <1>. QED
    BY <1>1, OutboxInvariant, PTL

\* The limit on attempts is exact for any number of workers, events and losses.
THEOREM AttemptsExact == OutboxSpec => []AttemptsBounded
  <1>1. OInv => AttemptsBounded
    BY DEF OInv, AttemptsBounded
  <1>. QED
    BY <1>1, OutboxInvariant, PTL

\* Both, as the runs check them.
THEOREM ClaimsStayExact == OutboxSpec => []ClaimsAreExact
  BY OneClaim, AttemptsExact, PTL DEF ClaimsAreExact

\* At least once: a row marked dispatched was handled.
THEOREM AtLeastOnce == OutboxSpec => []DispatchedWasHandled
  <1>1. OInv => DispatchedWasHandled
    BY DEF OInv
  <1>. QED
    BY <1>1, OutboxInvariant, PTL

\* Only an open claim writes a row, and an open claim is on a pending one.
LEMMA StepKeepsTerminal ==
  OInv /\ [OutboxNext]_outboxVars =>
    [\A e \in Events : event[e].status \in Terminal => event'[e] = event[e]]_outboxVars
  <1> SUFFICES ASSUME OInv, OutboxNext, NEW e \in Events, event[e].status \in Terminal
               PROVE  event'[e] = event[e]
    BY DEF outboxVars
  <1>1. ASSUME NEW f \in Events, NEW t \in 1..Cardinality(Events), Record(f, t)
        PROVE  event'[e] = event[e]
    BY <1>1 DEF Record, Terminal, OInv, OutboxTypeOK
  <1>2. ASSUME NEW w \in Workers, CommitDecision(w)
        PROVE  event'[e] = event[e]
    <2>1. event[worker[w].event].status = "pending"
      BY <1>2 DEF OInv, CommitDecision, MayCommit, ClaimIsCurrent
    <2>. QED
      BY <2>1, <1>2 DEF CommitDecision, Terminal, OInv, OutboxTypeOK
  <1>3. ASSUME NEW w \in Workers, WorkerStep(w) \/ ClaimExpires(w) \/ Crash(w)
        PROVE  event'[e] = event[e]
    BY <1>2, <1>3 DEF WorkerStep, Poll, Claim, BatchEnds, HandlerReturns, HandlerThrows,
       CommitRefused, ClaimExpires, Crash
  <1>. QED
    BY <1>1, <1>3 DEF OutboxNext

\* A dispatched or failed row never changes again.
THEOREM EndedIsFinal == OutboxSpec => TerminalIsFinal
  BY OutboxInvariant, StepKeepsTerminal, PTL DEF OutboxSpec, TerminalIsFinal
(***************************************************************************)
(* The second half of HandledOncePerClaim counts: what a consumer may      *)
(* still return, now or after a retry, is paid for by the lost claims.     *)
(***************************************************************************)
\* w is running the consumer of e, or is about to put e back for another run.
RunsOrRetries(w, e) ==
  /\ worker[w].event = e
  /\ \/ worker[w].pc = "handling"
     \/ worker[w].pc = "deciding" /\ worker[w].open /\ worker[w].decision = "retry"

Runs(e) == {w \in Workers : RunsOrRetries(w, e)}

\* Nobody has e, and somebody may still take it.
MayBeTaken(e) == event[e].status \in {"absent", "pending"} /\ ~ Locked(e)

OneIf(condition) == IF condition THEN 1 ELSE 0

SuccessesAreCovered ==
  \A e \in Events :
    /\ IsFiniteSet(Runs(e))
    /\ handled[e] + Cardinality(Runs(e)) + OneIf(MayBeTaken(e)) <= lost + 1

\* A step of one worker changes the number of runs by that worker's own.
LEMMA OneWorkerMoves ==
  ASSUME NEW w \in Workers, NEW e \in Events, IsFiniteSet(Runs(e)),
         \A v \in Workers \ {w} : RunsOrRetries(v, e)' <=> RunsOrRetries(v, e)
  PROVE  /\ IsFiniteSet(Runs(e)')
         /\ Cardinality(Runs(e)) \in Nat /\ Cardinality(Runs(e)') \in Nat
         /\ Cardinality(Runs(e)') + OneIf(RunsOrRetries(w, e)) =
              Cardinality(Runs(e)) + OneIf(RunsOrRetries(w, e)')
  <1> DEFINE Others == Runs(e) \ {w}
  <1>1. IsFiniteSet(Others) /\ w \notin Others /\ Cardinality(Others) \in Nat
    BY FS_RemoveElement, FS_CardinalityType
  <1>2. /\ IsFiniteSet(Others \cup {w})
        /\ Cardinality(Others \cup {w}) = Cardinality(Others) + 1
    BY <1>1, FS_AddElement
  <1>3. /\ RunsOrRetries(w, e) => Runs(e) = Others \cup {w}
        /\ ~ RunsOrRetries(w, e) => Runs(e) = Others
    BY DEF Runs
  <1>4. /\ RunsOrRetries(w, e)' => Runs(e)' = Others \cup {w}
        /\ ~ RunsOrRetries(w, e)' => Runs(e)' = Others
    BY DEF Runs
  <1> HIDE DEF Others
  <1>5. /\ RunsOrRetries(w, e) => Cardinality(Runs(e)) = Cardinality(Others) + 1
        /\ ~ RunsOrRetries(w, e) => Cardinality(Runs(e)) = Cardinality(Others)
    BY <1>2, <1>3
  <1>6. /\ RunsOrRetries(w, e)' => Cardinality(Runs(e)') = Cardinality(Others) + 1
        /\ ~ RunsOrRetries(w, e)' => Cardinality(Runs(e)') = Cardinality(Others)
    BY <1>2, <1>4
  <1>7. IsFiniteSet(Runs(e)')
    BY <1>1, <1>2, <1>4
  <1> QED
    BY <1>1, <1>5, <1>6, <1>7 DEF OneIf

\* What a step of w may do to the count of e.
Balanced(w, e) ==
  /\ \A v \in Workers \ {w} : RunsOrRetries(v, e)' <=> RunsOrRetries(v, e)
  /\ handled'[e] + OneIf(RunsOrRetries(w, e)') + OneIf(MayBeTaken(e)') + lost
       <= handled[e] + OneIf(RunsOrRetries(w, e)) + OneIf(MayBeTaken(e)) + lost'

\* A step that is balanced keeps the successes covered.
LEMMA BalancedKeeps ==
  ASSUME OutboxTypeOK, OutboxTypeOK', SuccessesAreCovered, NEW e \in Events,
         NEW w \in Workers, Balanced(w, e)
  PROVE  /\ IsFiniteSet(Runs(e)')
         /\ handled'[e] + Cardinality(Runs(e)') + OneIf(MayBeTaken(e)') <= lost' + 1
  <1>1. /\ IsFiniteSet(Runs(e))
        /\ handled[e] + Cardinality(Runs(e)) + OneIf(MayBeTaken(e)) <= lost + 1
    BY DEF SuccessesAreCovered
  <1>2. /\ IsFiniteSet(Runs(e)')
        /\ Cardinality(Runs(e)) \in Nat /\ Cardinality(Runs(e)') \in Nat
        /\ Cardinality(Runs(e)') + OneIf(RunsOrRetries(w, e)) =
             Cardinality(Runs(e)) + OneIf(RunsOrRetries(w, e)')
    BY <1>1, OneWorkerMoves DEF Balanced
  <1>3. handled[e] \in Nat /\ handled'[e] \in Nat /\ lost \in Nat /\ lost' \in Nat
    BY DEF OutboxTypeOK
  <1>4. /\ OneIf(RunsOrRetries(w, e)) \in Nat /\ OneIf(RunsOrRetries(w, e)') \in Nat
        /\ OneIf(MayBeTaken(e)) \in Nat /\ OneIf(MayBeTaken(e)') \in Nat
    BY DEF OneIf
  <1> QED
    BY <1>1, <1>2, <1>3, <1>4 DEF Balanced

\* A consumer that returns or throws, and a loop that goes on without its claim
\* being touched, leaves every row as locked as it was.
LEMMA LoopBalanced ==
  ASSUME OInv, NEW w \in Workers, NEW e \in Events,
         Poll(w) \/ BatchEnds(w) \/ CommitRefused(w) \/ HandlerReturns(w) \/ HandlerThrows(w)
  PROVE  Balanced(w, e)
  <1>1. worker \in [Workers -> WorkerStates] /\ worker[w] \in WorkerStates
    BY DEF OInv, OutboxTypeOK
  <1>2. \A v \in Workers \ {w} : worker'[v] = worker[v]
    BY <1>1 DEF Poll, BatchEnds, CommitRefused, HandlerReturns, HandlerThrows
  <1>3. worker'[w].open = worker[w].open /\ worker'[w].event = worker[w].event
    BY <1>1 DEF WorkerStates, Poll, BatchEnds, CommitRefused, HandlerReturns, HandlerThrows
  <1>4. event' = event /\ lost' = lost
    BY DEF Poll, BatchEnds, CommitRefused, HandlerReturns, HandlerThrows
  <1>5. MayBeTaken(e)' <=> MayBeTaken(e)
    BY <1>2, <1>3, <1>4 DEF MayBeTaken, Locked
  <1>6. \A v \in Workers \ {w} : RunsOrRetries(v, e)' <=> RunsOrRetries(v, e)
    BY <1>2 DEF RunsOrRetries
  <1>7. handled[e] \in Nat /\ lost \in Nat
    BY DEF OInv, OutboxTypeOK
  <1>8. handled'[e] + OneIf(RunsOrRetries(w, e)') <= handled[e] + OneIf(RunsOrRetries(w, e))
    <2>1. CASE Poll(w) \/ BatchEnds(w) \/ CommitRefused(w)
      <3>1. worker'[w].pc \in {"idle", "polling"} /\ handled' = handled
        BY <1>1, <2>1 DEF WorkerStates, Poll, BatchEnds, CommitRefused
      <3>2. ~ RunsOrRetries(w, e)'
        BY <3>1 DEF RunsOrRetries
      <3> QED
        BY <1>7, <3>1, <3>2 DEF OneIf
    <2>2. CASE HandlerReturns(w)
      <3>1. worker[w].pc = "handling" /\ worker'[w].pc = "deciding"
            /\ worker'[w].decision = "dispatched"
        BY <1>1, <2>2 DEF WorkerStates, HandlerReturns
      <3>2. /\ ~ RunsOrRetries(w, e)'
            /\ RunsOrRetries(w, e) <=> worker[w].event = e
        BY <3>1 DEF RunsOrRetries
      <3>3. handled'[e] = IF worker[w].event = e THEN handled[e] + 1 ELSE handled[e]
        BY <2>2 DEF HandlerReturns, OInv, OutboxTypeOK
      <3> QED
        BY <1>7, <3>2, <3>3 DEF OneIf
    <2>3. CASE HandlerThrows(w)
      <3>1. worker[w].pc = "handling" /\ handled' = handled
        BY <2>3 DEF HandlerThrows
      <3>2. RunsOrRetries(w, e)' => RunsOrRetries(w, e)
        BY <1>3, <3>1 DEF RunsOrRetries
      <3> QED
        BY <1>7, <3>1, <3>2 DEF OneIf
    <2> QED
      BY <2>1, <2>2, <2>3
  <1> HIDE DEF OneIf
  <1>9. OneIf(MayBeTaken(e)') = OneIf(MayBeTaken(e)) /\ OneIf(MayBeTaken(e)) \in Nat
    BY <1>5 DEF OneIf
  <1>10. OneIf(RunsOrRetries(w, e)) \in Nat /\ OneIf(RunsOrRetries(w, e)') \in Nat
         /\ handled'[e] \in Nat
    BY <1>7 DEF OneIf, HandlerReturns, HandlerThrows, Poll, BatchEnds, CommitRefused, OInv,
                OutboxTypeOK
  <1> QED
    BY <1>4, <1>6, <1>7, <1>8, <1>9, <1>10 DEF Balanced

\* A claim takes the row it runs, so what could be taken is now run.
LEMMA ClaimBalanced ==
  ASSUME OInv, NEW w \in Workers, NEW f \in Events, NEW e \in Events, Claim(w, f)
  PROVE  Balanced(w, e)
  <1>1. worker \in [Workers -> WorkerStates] /\ worker[w] \in WorkerStates
    BY DEF OInv, OutboxTypeOK
  <1>2. \A v \in Workers \ {w} : worker'[v] = worker[v]
    BY <1>1 DEF Claim
  <1>3. /\ worker'[w].event = f /\ worker'[w].open
        /\ worker'[w].pc \in {"handling", "deciding"}
        /\ worker'[w].pc = "deciding" => worker'[w].decision = "unknown_event_type"
    BY <1>1 DEF WorkerStates, Claim
  <1>4. worker[w].pc = "polling" /\ ~ worker[w].open
    BY DEF Claim, OInv, ClaimIsCurrent
  <1>5. UNCHANGED <<event, handled, lost>>
    BY DEF Claim
  <1>6. \A v \in Workers \ {w} : RunsOrRetries(v, e)' <=> RunsOrRetries(v, e)
    BY <1>2 DEF RunsOrRetries
  <1>7. handled[e] \in Nat /\ lost \in Nat
    BY DEF OInv, OutboxTypeOK
  <1>8. ~ RunsOrRetries(w, e)
    BY <1>4 DEF RunsOrRetries
  <1>9. CASE e = f
    <2>1. MayBeTaken(e) /\ ~ MayBeTaken(e)'
      BY <1>3, <1>9 DEF MayBeTaken, Locked, Claim, Claimable
    <2> QED
      BY <1>5, <1>6, <1>7, <1>8, <2>1 DEF Balanced, OneIf
  <1>10. CASE e # f
    <2>1. MayBeTaken(e)' <=> MayBeTaken(e)
      BY <1>2, <1>3, <1>4, <1>5, <1>10 DEF MayBeTaken, Locked
    <2>2. ~ RunsOrRetries(w, e)'
      BY <1>3, <1>10 DEF RunsOrRetries
    <2> QED
      BY <1>5, <1>6, <1>7, <1>8, <2>1, <2>2 DEF Balanced, OneIf
  <1> QED
    BY <1>9, <1>10

\* A committed decision ends the row, or puts it back for the run it leaves.
LEMMA CommitBalanced ==
  ASSUME OInv, NEW w \in Workers, NEW e \in Events, CommitDecision(w)
  PROVE  Balanced(w, e)
  <1>1. worker \in [Workers -> WorkerStates] /\ worker[w] \in WorkerStates
        /\ event \in [Events -> EventRows]
    BY DEF OInv, OutboxTypeOK
  <1>2. \A v \in Workers \ {w} : worker'[v] = worker[v]
    BY <1>1 DEF CommitDecision
  <1>3. worker'[w].pc = "polling" /\ ~ worker'[w].open
    BY <1>1 DEF WorkerStates, CommitDecision
  <1>4. worker[w].pc = "deciding" /\ worker[w].open
    BY DEF CommitDecision, MayCommit
  <1>5. UNCHANGED <<handled, lost>>
    BY DEF CommitDecision
  <1>6. \A v \in Workers \ {w} : RunsOrRetries(v, e)' <=> RunsOrRetries(v, e)
    BY <1>2 DEF RunsOrRetries
  <1>7. handled[e] \in Nat /\ lost \in Nat
    BY DEF OInv, OutboxTypeOK
  <1>8. ~ RunsOrRetries(w, e)'
    BY <1>3 DEF RunsOrRetries
  <1>9. CASE worker[w].event = e
    <2>1. ~ MayBeTaken(e)
      BY <1>4, <1>9 DEF MayBeTaken, Locked
    <2>2. CASE worker[w].decision = "retry"
      <3>1. RunsOrRetries(w, e)
        BY <1>4, <1>9, <2>2 DEF RunsOrRetries
      <3> QED
        BY <1>5, <1>6, <1>7, <1>8, <2>1, <3>1 DEF Balanced, OneIf
    <2>3. CASE worker[w].decision # "retry"
      <3>1. event'[e].status \in Terminal
        <4>1. event'[e].status = StatusFor(worker[w].decision)
          BY <1>1, <1>9 DEF EventRows, CommitDecision
        <4> QED
          BY <2>3, <4>1 DEF StatusFor, Terminal
      <3>2. ~ MayBeTaken(e)'
        BY <3>1 DEF MayBeTaken, Terminal
      <3> QED
        BY <1>5, <1>6, <1>7, <1>8, <2>1, <3>2 DEF Balanced, OneIf
    <2> QED
      BY <2>2, <2>3
  <1>10. CASE worker[w].event # e
    <2>1. event'[e] = event[e] /\ worker'[w].event = worker[w].event
      BY <1>1, <1>10 DEF CommitDecision, WorkerStates
    <2>2. MayBeTaken(e)' <=> MayBeTaken(e)
      BY <1>2, <1>3, <1>10, <2>1 DEF MayBeTaken, Locked
    <2>3. ~ RunsOrRetries(w, e)
      BY <1>10 DEF RunsOrRetries
    <2> QED
      BY <1>5, <1>6, <1>7, <1>8, <2>2, <2>3 DEF Balanced, OneIf
  <1> QED
    BY <1>9, <1>10

\* A lost claim may put its row back while the consumer goes on: that is the
\* one success more which the loss pays for.
LEMMA LossBalanced ==
  ASSUME OInv, NEW w \in Workers, NEW e \in Events, ClaimExpires(w) \/ Crash(w)
  PROVE  Balanced(w, e)
  <1>1. worker \in [Workers -> WorkerStates] /\ worker[w] \in WorkerStates
    BY DEF OInv, OutboxTypeOK
  <1>2. \A v \in Workers \ {w} : worker'[v] = worker[v]
    BY <1>1 DEF ClaimExpires, Crash
  <1>3. lost' = lost + 1 /\ handled' = handled /\ handled[e] \in Nat /\ lost \in Nat
    BY DEF ClaimExpires, Crash, OInv, OutboxTypeOK
  <1>4. RunsOrRetries(w, e)' => RunsOrRetries(w, e)
    BY <1>1 DEF WorkerStates, RunsOrRetries, ClaimExpires, Crash
  <1>5. \A v \in Workers \ {w} : RunsOrRetries(v, e)' <=> RunsOrRetries(v, e)
    BY <1>2 DEF RunsOrRetries
  <1> QED
    BY <1>3, <1>4, <1>5 DEF Balanced, OneIf

\* Whatever happens, the successes stay covered.
LEMMA CoveredStep ==
  OInv /\ SuccessesAreCovered /\ [OutboxNext]_outboxVars => SuccessesAreCovered'
  <1> SUFFICES ASSUME OInv, SuccessesAreCovered, [OutboxNext]_outboxVars, NEW e \in Events
               PROVE  /\ IsFiniteSet(Runs(e)')
                      /\ handled'[e] + Cardinality(Runs(e)') + OneIf(MayBeTaken(e)') <= lost' + 1
    BY DEF SuccessesAreCovered
  <1>1. OutboxTypeOK /\ OutboxTypeOK'
    BY StepKeeps DEF OInv
  <1>2. ASSUME NEW w \in Workers, WorkerStep(w) \/ ClaimExpires(w) \/ Crash(w)
        PROVE  Balanced(w, e)
    BY <1>2, LoopBalanced, ClaimBalanced, CommitBalanced, LossBalanced DEF WorkerStep
  <1>3. CASE \/ UNCHANGED outboxVars
             \/ \E f \in Events, t \in 1..Cardinality(Events) : Record(f, t)
    <2>1. UNCHANGED <<worker, handled, lost>>
      BY <1>3 DEF outboxVars, Record
    <2>2. Runs(e)' = Runs(e)
      BY <2>1 DEF Runs, RunsOrRetries
    <2>3. event'[e].status \in {"absent", "pending"} => event[e].status \in {"absent", "pending"}
      BY <1>1, <1>3 DEF outboxVars, Record, OutboxTypeOK
    <2>4. MayBeTaken(e)' => MayBeTaken(e)
      BY <2>1, <2>3 DEF MayBeTaken, Locked
    <2>5. OneIf(MayBeTaken(e)') <= OneIf(MayBeTaken(e))
          /\ OneIf(MayBeTaken(e)') \in Nat /\ OneIf(MayBeTaken(e)) \in Nat
      BY <2>4 DEF OneIf
    <2>6. /\ IsFiniteSet(Runs(e)) /\ Cardinality(Runs(e)) \in Nat
          /\ handled[e] + Cardinality(Runs(e)) + OneIf(MayBeTaken(e)) <= lost + 1
          /\ handled[e] \in Nat /\ lost \in Nat
      BY <1>1, FS_CardinalityType DEF SuccessesAreCovered, OutboxTypeOK
    <2> QED
      BY <2>1, <2>2, <2>5, <2>6
  <1> QED
    BY <1>1, <1>2, <1>3, BalancedKeeps DEF OutboxNext

\* At first nothing has been handled and every row may be taken once.
LEMMA InitCovered == OutboxInit => SuccessesAreCovered
  <1> SUFFICES ASSUME OutboxInit, NEW e \in Events
               PROVE  /\ IsFiniteSet(Runs(e))
                      /\ handled[e] + Cardinality(Runs(e)) + OneIf(MayBeTaken(e)) <= lost + 1
    BY DEF SuccessesAreCovered
  <1>1. Runs(e) = {}
    BY DEF OutboxInit, Runs, RunsOrRetries
  <1>2. handled[e] = 0 /\ lost = 0 /\ OneIf(MayBeTaken(e)) \in {0, 1}
    BY DEF OutboxInit, OneIf
  <1> QED
    BY <1>1, <1>2, FS_EmptySet

\* The counting invariant holds of every reachable state.
THEOREM SuccessesStayCovered == OutboxSpec => []SuccessesAreCovered
  BY InitCovered, CoveredStep, OutboxInvariant, PTL DEF OutboxSpec

\* A row marked dispatched was handled, and a consumer succeeds on an event at
\* most once more than claims were lost.
THEOREM HandledOnce == OutboxSpec => []HandledOncePerClaim
  <1>1. OInv /\ SuccessesAreCovered => HandledOncePerClaim
    <2> SUFFICES ASSUME OInv, SuccessesAreCovered, NEW e \in Events
                 PROVE  handled[e] <= lost + 1
      BY DEF OInv, DispatchedWasHandled, HandledOncePerClaim
    <2>1. /\ handled[e] \in Nat /\ lost \in Nat /\ Cardinality(Runs(e)) \in Nat
          /\ OneIf(MayBeTaken(e)) \in Nat
          /\ handled[e] + Cardinality(Runs(e)) + OneIf(MayBeTaken(e)) <= lost + 1
      BY FS_CardinalityType DEF OInv, OutboxTypeOK, SuccessesAreCovered, OneIf
    <2> QED
      BY <2>1
  <1> QED
    BY <1>1, OutboxInvariant, SuccessesStayCovered, PTL
=============================================================================
