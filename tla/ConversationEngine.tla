------------------------- MODULE ConversationEngine --------------------------
(****************************************************************************)
(* One user's conversation: RouteTextMessageUseCase and                     *)
(* RouteCallbackQueryUseCase turn an update into an event,                  *)
(* ProcessConversationEventUseCase evaluates it against the guard table,    *)
(* carries out its side effects and writes the new state by                 *)
(* compare-and-set.                                                         *)
(*                                                                          *)
(* Nothing orders the updates of a user: each webhook request is handled on *)
(* its own, so calls interleave.  A commit is a single step here:           *)
(* CommitLock is about what happens inside it.                              *)
(****************************************************************************)
EXTENDS Naturals, Sequences, FiniteSets

CONSTANTS
  Updates,          \* Telegram updates, each handled once
  DraftIds,         \* transaction_drafts ids
  MaxRetries,       \* NFR_CE_003_MAX_CLARIFICATION_RETRIES
  MaxCasRetries     \* MAX_CAS_RETRIES

ASSUME ConversationAssumption ==
  DraftIds # {} /\ MaxRetries \in Nat /\ MaxCasRetries \in Nat

VARIABLES
  record,    \* conversation_state:<user> in Redis
  overdue,   \* whether the record's expiresAt has passed
  drafts,    \* [DraftIds -> statuses]: transaction_drafts
  txn,       \* [DraftIds -> states]: the transaction committed from each draft
  call,      \* [Updates -> calls]
  happened   \* what has happened that the code does not expect to

conversationVars == <<record, overdue, drafts, txn, call, happened>>

States == {"IDLE", "AWAITING_CLARIFICATION", "AWAITING_CONFIRMATION", "AWAITING_EDIT_VALUE",
           "AWAITING_MULTI_ITEM_REVIEW"}

Nowhere == CHOOSE d \in DraftIds : TRUE

\* The context of a state: the draft of a clarification, or whose transaction
\* is to be confirmed or edited; the drafts under review and the present item.
Records == [state : States, draft : DraftIds, retries : 0..MaxRetries, low : Seq(DraftIds),
            high : SUBSET DraftIds, index : Nat, cancelAsked : BOOLEAN, version : Nat]

\* The record createIdleState makes of a missing key.
IdleState ==
  [state |-> "IDLE", draft |-> Nowhere, retries |-> 0, low |-> <<>>, high |-> {}, index |-> 1,
   cancelAsked |-> FALSE, version |-> 0]

Kinds == {"none", "text", "cancel", "undo", "edit", "batch_confirm", "batch_skip",
          "batch_commit_high"}

EventTypes == {"none", "CANCELLATION", "CANDIDATE_RESOLVED", "CLARIFICATION_ANSWER",
               "EDIT_REQUESTED", "EDIT_VALUE_PROVIDED", "BATCH_REVIEW_STARTED",
               "BATCH_ITEM_REVIEWED"}

Classifications == {"none", "auto_commit", "flagged_review", "draft_pending_clarification"}

\* holds is fieldResolved of an answer and valid of an edit value.
ConversationEvents ==
  [type : EventTypes, draft : DraftIds, classification : Classifications, holds : BOOLEAN,
   low : Seq(DraftIds), high : SUBSET DraftIds]

NoEvent == [type |-> "none", draft |-> Nowhere, classification |-> "none", holds |-> FALSE,
            low |-> <<>>, high |-> {}]

CallSteps == {"new", "extracting", "answering", "editing", "interrupting", "confirming", "importing",
          "committed", "event", "committing", "completing", "reversing", "discarding", "writing",
          "done"}

\* seen is the record the routing read, base the one the event was evaluated
\* in, next the record to write, todo the drafts still to be committed.
CallStates == [step : CallSteps, kind : Kinds, target : DraftIds, seen : Records, base : Records,
               event : ConversationEvents, next : Records, expected : Nat,
               tries : 0..MaxCasRetries, todo : SUBSET DraftIds]

ConversationTypeOK ==
  /\ record \in Records
  /\ overdue \in BOOLEAN
  /\ drafts \in [DraftIds -> {"none", "pending", "completed", "abandoned"}]
  /\ txn \in [DraftIds -> {"none", "live", "deleted"}]
  /\ call \in [Updates -> CallStates]
  /\ happened \in SUBSET {"overlap", "crash", "drop"}

NewCall == [step |-> "new", kind |-> "none", target |-> Nowhere, seen |-> IdleState,
            base |-> IdleState, event |-> NoEvent, next |-> IdleState, expected |-> 0,
            tries |-> 0, todo |-> {}]

ConversationInit ==
  /\ record = IdleState
  /\ overdue = FALSE
  /\ drafts = [d \in DraftIds |-> "none"]
  /\ txn = [d \in DraftIds |-> "none"]
  /\ call = [u \in Updates |-> NewCall]
  /\ happened = {}

CallAt(u, step) == call[u].step = step
UnderWay(u) == call[u].step \notin {"new", "done"}
GoOn(u, c) == call' = [call EXCEPT ![u] = c]

\* A call that has ended keeps nothing.
EndedCall == [NewCall EXCEPT !.step = "done"]

Raise(u, event) == [call[u] EXCEPT !.step = "event", !.event = event]
EventOf(type) == [NoEvent EXCEPT !.type = type]

\* isConversationStateExpired: an expired record counts as IDLE.
Effective == IF overdue THEN [IdleState EXCEPT !.version = record.version] ELSE record

\* TransactionCommitPort.commit: a draft already committed answers with the
\* transaction it made, deleted or not.
CommittedNow(d) == IF txn[d] = "none" THEN [txn EXCEPT ![d] = "live"] ELSE txn

(***************************************************************************)
(* RouteTextMessageUseCase and RouteCallbackQueryUseCase                   *)
(***************************************************************************)
\* Where a text goes: by the state it finds.
RouteText(seen) ==
  CASE seen.state = "IDLE" -> "extracting"
    [] seen.state = "AWAITING_CLARIFICATION" -> "answering"
    [] seen.state = "AWAITING_EDIT_VALUE" -> "editing"
    [] OTHER -> "done"

\* As it would be if a tap were checked for its state alone.
FreshTapOfState(kind, target, seen) ==
  IF kind \in {"undo", "edit"} THEN seen.state = "AWAITING_CONFIRMATION"
  ELSE seen.state = "AWAITING_MULTI_ITEM_REVIEW"

\* The transaction, the item or the batch (named here by its first item) that
\* a tap refers to must be the one pending.
FreshTap(kind, target, seen) ==
  CASE kind \in {"undo", "edit"} -> seen.state = "AWAITING_CONFIRMATION" /\ seen.draft = target
    [] kind \in {"batch_confirm", "batch_skip"} ->
         seen.state = "AWAITING_MULTI_ITEM_REVIEW" /\ seen.low[seen.index] = target
    [] OTHER -> seen.state = "AWAITING_MULTI_ITEM_REVIEW" /\ seen.low[1] = target

Tapped(c) ==
  CASE c.kind = "undo" -> [c EXCEPT !.step = "event", !.event = EventOf("CANCELLATION")]
    [] c.kind = "edit" -> [c EXCEPT !.step = "event", !.event = EventOf("EDIT_REQUESTED")]
    [] c.kind = "batch_skip" -> [c EXCEPT !.step = "event", !.event = EventOf("BATCH_ITEM_REVIEWED")]
    [] c.kind = "batch_confirm" -> [c EXCEPT !.step = "confirming"]
    [] OTHER -> [c EXCEPT !.step = "importing", !.todo = c.seen.high]

Noted == happened' = IF \E v \in Updates : UnderWay(v) THEN happened \cup {"overlap"} ELSE happened

\* A cancel phrase or button raises its event without a look at the state.
CancelPhrase(u) ==
  /\ CallAt(u, "new")
  /\ GoOn(u, [NewCall EXCEPT !.kind = "cancel", !.step = "event",
                             !.event = EventOf("CANCELLATION")])
  /\ Noted
  /\ UNCHANGED <<record, overdue, drafts, txn>>

Text(u) ==
  /\ CallAt(u, "new")
  /\ GoOn(u, IF RouteText(Effective) = "done" THEN EndedCall
             ELSE [NewCall EXCEPT !.kind = "text", !.step = RouteText(Effective),
                                  !.seen = Effective])
  /\ Noted
  /\ UNCHANGED <<record, overdue, drafts, txn>>

\* A button of a message about some draft; confirm changes nothing.
TapButton(u, kind, d) ==
  /\ CallAt(u, "new")
  /\ drafts[d] # "none"
  /\ GoOn(u, IF FreshTap(kind, d, Effective)
             THEN Tapped([NewCall EXCEPT !.kind = kind, !.target = d, !.seen = Effective])
             ELSE EndedCall)
  /\ Noted
  /\ UNCHANGED <<record, overdue, drafts, txn>>

\* extractTransactionCandidates: nothing, one transaction, or several.
NothingExtracted(u) ==
  /\ CallAt(u, "extracting")
  /\ GoOn(u, EndedCall)
  /\ UNCHANGED <<record, overdue, drafts, txn, happened>>

FreshCandidate(u, d, classification) ==
  /\ CallAt(u, "extracting")
  /\ drafts[d] = "none"
  /\ drafts' = [drafts EXCEPT ![d] = "pending"]
  /\ GoOn(u, Raise(u, [EventOf("CANDIDATE_RESOLVED") EXCEPT !.draft = d,
                                 !.classification = classification]))
  /\ UNCHANGED <<record, overdue, txn, happened>>

\* routeBatchReview: a batch of high confidence alone is committed at once.
FreshBatch(u, low, high) ==
  /\ CallAt(u, "extracting")
  /\ \A d \in DraftIds : (d \in high \/ \E i \in 1..Len(low) : low[i] = d) => drafts[d] = "none"
  /\ drafts' = [d \in DraftIds |->
                 IF d \in high \/ \E i \in 1..Len(low) : low[i] = d THEN "pending" ELSE drafts[d]]
  /\ GoOn(u, IF low = <<>> THEN [call[u] EXCEPT !.step = "importing", !.todo = high]
             ELSE Raise(u, [EventOf("BATCH_REVIEW_STARTED") EXCEPT !.low = low, !.high = high]))
  /\ UNCHANGED <<record, overdue, txn, happened>>

\* classifyInterruption: a new transaction goes first and leaves the state.
InterruptsAnswer(u, d) ==
  /\ CallAt(u, "answering")
  /\ drafts[d] = "none"
  /\ drafts' = [drafts EXCEPT ![d] = "pending"]
  /\ GoOn(u, [call[u] EXCEPT !.step = "interrupting", !.target = d])
  /\ UNCHANGED <<record, overdue, txn, happened>>

AnswerUnresolved(u) ==
  /\ CallAt(u, "answering")
  /\ GoOn(u, Raise(u, EventOf("CLARIFICATION_ANSWER")))
  /\ UNCHANGED <<record, overdue, drafts, txn, happened>>

\* The draft that a router commits by itself, outside the guard table.
RouterDraft(u) == IF CallAt(u, "answering") THEN call[u].seen.draft ELSE call[u].target

\* commitResolvedClarification, routeInterruptingTransaction, batch_confirm.
RouterCommits(u) ==
  /\ call[u].step \in {"answering", "interrupting", "confirming"}
  /\ txn' = CommittedNow(RouterDraft(u))
  /\ GoOn(u, [call[u] EXCEPT !.step = "committed", !.target = RouterDraft(u),
                !.event = IF CallAt(u, "answering")
                          THEN [EventOf("CLARIFICATION_ANSWER") EXCEPT !.holds = TRUE]
                          ELSE IF CallAt(u, "confirming") THEN EventOf("BATCH_ITEM_REVIEWED")
                          ELSE NoEvent])
  /\ UNCHANGED <<record, overdue, drafts, happened>>

RouterCommitFails(u) ==
  /\ call[u].step \in {"answering", "interrupting", "confirming"}
  /\ GoOn(u, EndedCall)
  /\ UNCHANGED <<record, overdue, drafts, txn, happened>>

RouterCompletes(u) ==
  /\ CallAt(u, "committed")
  /\ drafts' = [drafts EXCEPT ![call[u].target] = "completed"]
  /\ GoOn(u, IF call[u].event.type = "none" THEN EndedCall ELSE [call[u] EXCEPT !.step = "event"])
  /\ UNCHANGED <<record, overdue, txn, happened>>

\* commitHighConfidenceBatch: each draft still pending; committed TRUE or FALSE.
Imports(u, d, committed) ==
  /\ CallAt(u, "importing")
  /\ d \in call[u].todo
  /\ drafts[d] = "pending"
  /\ txn' = IF committed THEN CommittedNow(d) ELSE txn
  /\ drafts' = IF committed THEN [drafts EXCEPT ![d] = "completed"] ELSE drafts
  /\ GoOn(u, [call[u] EXCEPT !.todo = @ \ {d}])
  /\ UNCHANGED <<record, overdue, happened>>

ImportsNoMore(u) ==
  /\ CallAt(u, "importing")
  /\ \A d \in call[u].todo : drafts[d] # "pending"
  /\ GoOn(u, EndedCall)
  /\ UNCHANGED <<record, overdue, drafts, txn, happened>>

\* routeEditValue: the edit itself is TransactionUseCases; a deleted
\* transaction is not valid.
EditsValue(u, valid) ==
  /\ CallAt(u, "editing")
  /\ valid => txn[call[u].seen.draft] = "live"
  /\ GoOn(u, Raise(u, [EventOf("EDIT_VALUE_PROVIDED") EXCEPT !.holds = valid]))
  /\ UNCHANGED <<record, overdue, drafts, txn, happened>>

(***************************************************************************)
(* evaluateConversationTransition                                          *)
(***************************************************************************)
To(state) == [IdleState EXCEPT !.state = state]

AfterCancellation(base) ==
  IF base.state = "AWAITING_MULTI_ITEM_REVIEW" /\ ~ base.cancelAsked
  THEN [base EXCEPT !.cancelAsked = TRUE] ELSE To("IDLE")

AfterCandidate(event) ==
  CASE event.classification = "auto_commit" -> To("IDLE")
    [] event.classification = "flagged_review" ->
         [To("AWAITING_CONFIRMATION") EXCEPT !.draft = event.draft]
    [] OTHER -> [To("AWAITING_CLARIFICATION") EXCEPT !.draft = event.draft]

\* A third unresolved answer falls back to the mini-form and stays.
AfterAnswer(base, event) ==
  IF event.holds THEN To("IDLE")
  ELSE IF base.retries < MaxRetries THEN [base EXCEPT !.retries = @ + 1] ELSE base

\* As it would be with the boundary off by one.
AfterItemOffByOne(base) ==
  IF base.index > Len(base.low) THEN To("IDLE")
  ELSE [base EXCEPT !.index = @ + 1, !.cancelAsked = FALSE]

AfterItem(base) ==
  IF base.index + 1 > Len(base.low) THEN To("IDLE")
  ELSE [base EXCEPT !.index = @ + 1, !.cancelAsked = FALSE]

\* The state each event applies in.
Allowed(base, event) ==
  CASE event.type = "CANCELLATION" -> base.state # "IDLE"
    [] event.type \in {"CANDIDATE_RESOLVED", "BATCH_REVIEW_STARTED"} -> base.state = "IDLE"
    [] event.type = "CLARIFICATION_ANSWER" -> base.state = "AWAITING_CLARIFICATION"
    [] event.type = "EDIT_REQUESTED" -> base.state = "AWAITING_CONFIRMATION"
    [] event.type = "EDIT_VALUE_PROVIDED" -> base.state = "AWAITING_EDIT_VALUE" /\ event.holds
    [] OTHER -> base.state = "AWAITING_MULTI_ITEM_REVIEW"

NextState(base, event) ==
  CASE event.type = "CANCELLATION" -> AfterCancellation(base)
    [] event.type = "CANDIDATE_RESOLVED" -> AfterCandidate(event)
    [] event.type = "CLARIFICATION_ANSWER" -> AfterAnswer(base, event)
    [] event.type = "EDIT_REQUESTED" -> [To("AWAITING_EDIT_VALUE") EXCEPT !.draft = base.draft]
    [] event.type = "EDIT_VALUE_PROVIDED" -> To("IDLE")
    [] event.type = "BATCH_REVIEW_STARTED" ->
         [To("AWAITING_MULTI_ITEM_REVIEW") EXCEPT !.low = event.low, !.high = event.high]
    [] OTHER -> AfterItem(base)

CommitRequested(event) == event.classification \in {"auto_commit", "flagged_review"}

(***************************************************************************)
(* ProcessConversationEventUseCase                                         *)
(***************************************************************************)
\* The side effect that comes before the state is written.
FirstEffect(base, event) ==
  CASE CommitRequested(event) -> "committing"
    [] event.type = "CANCELLATION" /\ base.state = "AWAITING_CONFIRMATION" -> "reversing"
    [] event.type = "CANCELLATION" /\ base.state = "AWAITING_CLARIFICATION" -> "discarding"
    [] OTHER -> "writing"

Evaluate(u) ==
  LET base == Effective
      event == call[u].event
  IN /\ CallAt(u, "event")
     /\ GoOn(u, IF Allowed(base, event)
                THEN [call[u] EXCEPT !.step = FirstEffect(base, event), !.base = base,
                                     !.next = NextState(base, event), !.expected = base.version]
                ELSE EndedCall)
     /\ UNCHANGED <<record, overdue, drafts, txn, happened>>

Commits(u) ==
  /\ CallAt(u, "committing")
  /\ txn' = CommittedNow(call[u].event.draft)
  /\ GoOn(u, [call[u] EXCEPT !.step = "completing"])
  /\ UNCHANGED <<record, overdue, drafts, happened>>

CommitFails(u) ==
  /\ CallAt(u, "committing")
  /\ GoOn(u, EndedCall)
  /\ UNCHANGED <<record, overdue, drafts, txn, happened>>

CompletesDraft(u) ==
  /\ CallAt(u, "completing")
  /\ drafts' = [drafts EXCEPT ![call[u].event.draft] = "completed"]
  /\ GoOn(u, [call[u] EXCEPT !.step = "writing"])
  /\ UNCHANGED <<record, overdue, txn, happened>>

\* A transaction already deleted is as good.
Reverses(u) ==
  /\ CallAt(u, "reversing")
  /\ txn' = [txn EXCEPT ![call[u].base.draft] = "deleted"]
  /\ GoOn(u, [call[u] EXCEPT !.step = "discarding"])
  /\ UNCHANGED <<record, overdue, drafts, happened>>

\* As it would be if an undone draft were left for /drafts.
StatusAfterCancelKept(u) ==
  IF call[u].base.state = "AWAITING_CONFIRMATION" THEN drafts[call[u].base.draft] ELSE "abandoned"

StatusAfterCancel(u) == "abandoned"

Discards(u) ==
  /\ CallAt(u, "discarding")
  /\ drafts' = [drafts EXCEPT ![call[u].base.draft] = StatusAfterCancel(u)]
  /\ GoOn(u, [call[u] EXCEPT !.step = "writing"])
  /\ UNCHANGED <<record, overdue, txn, happened>>

\* compareAndSet: the record's version, 0 for a missing key, is as expected.
Writes(u) ==
  /\ CallAt(u, "writing")
  /\ record.version = call[u].expected
  /\ record' = [call[u].next EXCEPT !.version = call[u].expected + 1]
  /\ overdue' = FALSE
  /\ GoOn(u, EndedCall)
  /\ UNCHANGED <<drafts, txn, happened>>

\* As it would be if a lost write were simply tried again.
MayRetryAnyway(u) == call[u].tries + 1 < MaxCasRetries

\* The state is still the one evaluated: only its name is compared.
MayRetry(u) ==
  /\ call[u].tries + 1 < MaxCasRetries
  /\ record.state = call[u].base.state

\* compareAndSet refused: the record is read again.
WriteRefused(u) ==
  /\ CallAt(u, "writing")
  /\ record.version # call[u].expected
  /\ GoOn(u, IF MayRetry(u)
             THEN [call[u] EXCEPT !.expected = record.version, !.tries = @ + 1]
             ELSE EndedCall)
  /\ UNCHANGED <<record, overdue, drafts, txn, happened>>

(***************************************************************************)
(* Time and failure                                                        *)
(***************************************************************************)
TimePasses ==
  /\ record.state # "IDLE"
  /\ ~ overdue
  /\ overdue' = TRUE
  /\ UNCHANGED <<record, drafts, txn, call, happened>>

\* Redis drops the key.
Drops ==
  /\ overdue
  /\ record' = IdleState
  /\ overdue' = FALSE
  /\ happened' = happened \cup {"drop"}
  /\ UNCHANGED <<drafts, txn, call>>

\* A call throws or its process dies between two steps.
CallDies(u) ==
  /\ UnderWay(u)
  /\ GoOn(u, EndedCall)
  /\ happened' = happened \cup {"crash"}
  /\ UNCHANGED <<record, overdue, drafts, txn>>

AllCallsDone == (\A u \in Updates : CallAt(u, "done")) /\ UNCHANGED conversationVars

\* Batches of two or three.
LowSequences == {<<>>} \cup {<<d>> : d \in DraftIds} \cup (DraftIds \X DraftIds)
IsBatch(low, high) ==
  /\ Len(low) + Cardinality(high) \in 2..3
  /\ \A i \in 1..Len(low) : low[i] \notin high
  /\ Len(low) = 2 => low[1] # low[2]
Batches == {b \in LowSequences \X SUBSET DraftIds : IsBatch(b[1], b[2])}

RouterNext(u) ==
  \/ CancelPhrase(u)
  \/ Text(u)
  \/ \E kind \in Kinds \ {"none", "text", "cancel"}, d \in DraftIds : TapButton(u, kind, d)
  \/ NothingExtracted(u)
  \/ \E d \in DraftIds, c \in Classifications \ {"none"} : FreshCandidate(u, d, c)
  \/ \E batch \in Batches : FreshBatch(u, batch[1], batch[2])
  \/ \E d \in DraftIds : InterruptsAnswer(u, d)
  \/ AnswerUnresolved(u)
  \/ RouterCommits(u)
  \/ RouterCommitFails(u)
  \/ RouterCompletes(u)
  \/ \E d \in DraftIds, committed \in BOOLEAN : Imports(u, d, committed)
  \/ ImportsNoMore(u)
  \/ \E valid \in BOOLEAN : EditsValue(u, valid)

EngineNext(u) ==
  \/ Evaluate(u)
  \/ Commits(u)
  \/ CommitFails(u)
  \/ CompletesDraft(u)
  \/ Reverses(u)
  \/ Discards(u)
  \/ Writes(u)
  \/ WriteRefused(u)

ConversationNext ==
  \/ \E u \in Updates : RouterNext(u) \/ EngineNext(u) \/ CallDies(u)
  \/ TimePasses
  \/ Drops
  \/ AllCallsDone

ConversationSpec == ConversationInit /\ [][ConversationNext]_conversationVars

(***************************************************************************)
(* Properties                                                              *)
(***************************************************************************)
\* What the context of a state refers to exists: a transaction to be confirmed
\* or edited was committed, and there is an item at the index under review.
ContextIsUsable ==
  /\ record.state \in {"AWAITING_CONFIRMATION", "AWAITING_EDIT_VALUE"} => txn[record.draft] # "none"
  /\ record.state = "AWAITING_MULTI_ITEM_REVIEW" => record.index \in 1..Len(record.low)

\* The drafts follow the conversation.  Short of a crash, an undone transaction
\* has its draft abandoned as soon as the call is over, whatever else was going
\* on; while calls come one after the other, an abandoned draft left no
\* transaction in force; and as long as they neither overlap nor die, a
\* clarification is about a draft not yet committed, so that its answer is not a
\* second commit.
DraftsFollowTheConversation ==
  /\ "crash" \notin happened =>
       \A d \in DraftIds :
         txn[d] = "deleted" => \/ drafts[d] = "abandoned"
                              \/ \E u \in Updates : CallAt(u, "discarding") /\ call[u].base.draft = d
  /\ happened \subseteq {"drop"} => \A d \in DraftIds : drafts[d] = "abandoned" => txn[d] # "live"
  /\ happened \subseteq {"drop"} =>
       (Effective.state = "AWAITING_CLARIFICATION" =>
          txn[record.draft] = "none" \/ \E u \in Updates : UnderWay(u))

\* A state is written only over the state, by name, that its event was
\* evaluated in, however often the write was lost before: a commit that has
\* happened never overwrites a different state.  (Until Redis drops the key and
\* version numbers start again.)
WritesOverWhatItSaw ==
  [][\A u \in Updates :
       (Writes(u) /\ "drop" \notin happened) =>
          \/ record.state = call[u].base.state
          \/ call[u].base.state = "IDLE" /\ overdue]_conversationVars

ReviewedBy(u) == CallAt(u, "writing") /\ call[u].event.type = "BATCH_ITEM_REVIEWED"

\* While calls come one after the other, a tap acts on what its button shows,
\* though it was checked against a state that is read again before acting.
TapsActOnWhatTheyShow ==
  [][\A u \in Updates :
       "overlap" \notin happened =>
         /\ (Reverses(u) /\ call[u].kind = "undo") => call[u].base.draft = call[u].target
         /\ (Writes(u) /\ ReviewedBy(u)) => record.low[record.index] = call[u].target]_conversationVars
=============================================================================
