------------------------------ MODULE Extraction -------------------------------
(***************************************************************************)
(* From the words of a message to a committed transaction: the model's     *)
(* reply, its validation against the schema, the hallucination layers, the *)
(* confidence of the record, the one question asked about what is missing, *)
(* the answer merged into the draft, and the commit's own checks.          *)
(*                                                                         *)
(* A candidate is read field by field: value says what kind of value the   *)
(* model gave, score in which band of confidence.  A compound message and  *)
(* the retries of a question are those of ConversationEngine.              *)
(***************************************************************************)
EXTENDS Naturals, FiniteSets, Sequences

CONSTANT MaxDoubts   \* bound: how far a reply is from the plain one

ASSUME ExtractionAssumption == MaxDoubts \in Nat \ {0}

VARIABLES
  behind,    \* whether UTC is still on the day before the user's today
  draft,     \* the pending draft's partialData
  question,  \* missingField of AWAITING_CLARIFICATION, "intent" for null; "idle"
  outcome    \* how the message just heard ended, until the next one comes

extractVars == <<behind, draft, question, outcome>>

Intents == {"EXPENSE", "SALARY", "TRANSFER", "HELP", "UNKNOWN"}
FINANCIAL_INTENTS == {"EXPENSE", "SALARY", "TRANSFER"}
COUNTERPARTY_REQUIRED_INTENTS == {"TRANSFER"}
CATEGORY_REQUIRED_INTENTS == {"EXPENSE"}

\* Null amounts, blank texts, values past the plausible, names nobody said.
KindsOf ==
  [amount       |-> {"none", "sound", "negative", "absurd"},
   currency     |-> {"none", "default", "unrated", "unsupported"},
   category     |-> {"none", "", "active", "deprecated"},
   transactionDate |-> {"none", "past", "today", "tomorrow", "absurd"},
   counterparty |-> {"none", "", "said", "unsaid"},
   merchant     |-> {"none", "said", "unsaid"}]

Details == DOMAIN KindsOf
Scored == Details \cup {"intent"}
Bands == {"missing", "low", "medium", "high"}

Is(c, f, kinds) == c.value[f] \in kinds
Null(c, f) == Is(c, f, {"none"})
Cleared(c, gone) == [c EXCEPT !.value = [f \in Details |-> IF f \in gone THEN "none" ELSE @[f]]]

(***************************************************************************)
(* What the model may reply: a plain candidate, up to MaxDoubts of whose   *)
(* values and scores are something else.                                   *)
(***************************************************************************)
PlainReply(i) ==
  [intent |-> i,
   value |-> [amount |-> IF i \in FINANCIAL_INTENTS THEN "sound" ELSE "none",
              currency |-> "default", category |-> "active", transactionDate |-> "past",
              counterparty |-> IF i \in COUNTERPARTY_REQUIRED_INTENTS THEN "said" ELSE "none",
              merchant |-> "none"],
   score |-> [f \in Scored |-> "high"]]

OneMoreDoubt(c) ==
  {[c EXCEPT !.value[p[1]] = p[2]] : p \in UNION {{f} \X KindsOf[f] : f \in Details}}
    \cup {[c EXCEPT !.score[p[1]] = p[2]] : p \in Scored \X Bands}

Replies[n \in 0..MaxDoubts] ==
  IF n = 0 THEN {PlainReply(i) : i \in Intents}
  ELSE Replies[n - 1] \cup UNION {OneMoreDoubt(c) : c \in Replies[n - 1]}

Messages == Replies[MaxDoubts]
ShortAnswers == Replies[1]

(***************************************************************************)
(* The layers, in their order.                                             *)
(***************************************************************************)
\* validateCandidate: the whole reply is refused over any of these.
Valid(c) ==
  /\ c.intent \in FINANCIAL_INTENTS =>
       ~ Null(c, "amount") /\ ~ Null(c, "currency") /\ ~ Null(c, "transactionDate")
  /\ c.intent \notin FINANCIAL_INTENTS => Null(c, "amount")
  /\ c.intent \in CATEGORY_REQUIRED_INTENTS => ~ Is(c, "category", {"none", ""})
  /\ c.intent \in COUNTERPARTY_REQUIRED_INTENTS => ~ Is(c, "counterparty", {"none", ""})

\* An answer: validateStructuredExtractionOutput lets no required field be null,
\* so a field is only ever missing because a layer below emptied it.
IntentGate(c) ==
  IF c.intent # "UNKNOWN" /\ c.score["intent"] \in {"missing", "low"}
    THEN Cleared([c EXCEPT !.intent = "UNKNOWN"],
                 {"amount", "currency", "transactionDate", "category", "counterparty"})
    ELSE c

Grounded(c) == Cleared(c, {f \in {"merchant", "counterparty"} : Is(c, f, {"unsaid"})})

\* A value without a score keeps its place.
ConfidenceGate(c) == Cleared(c, {f \in Details : c.score[f] = "low"})

SanityBounds(c) ==
  Cleared(c, {f \in {"amount", "transactionDate"} : Is(c, f, {"absurd"})})

Screened(c) == SanityBounds(ConfidenceGate(Grounded(IntentGate(c))))

\* ExtractTransactionCandidatesUseCase: the candidates that come out of replies.
Extracted(replies) == {Screened(c) : c \in {reply \in replies : Valid(reply)}}
Candidates == Extracted(Messages)
AnswerCandidates == Extracted(ShortAnswers)

\* As before the category of a salary was required.
RequiredAsExtracted(c) ==
  {"intent"}
    \cup (IF c.intent \in FINANCIAL_INTENTS THEN {"amount", "currency", "transactionDate"} ELSE {})
    \cup (IF c.intent \in CATEGORY_REQUIRED_INTENTS THEN {"category"} ELSE {})
    \cup (IF c.intent \in COUNTERPARTY_REQUIRED_INTENTS THEN {"counterparty"} ELSE {})

\* computeRequiredFields, with CATEGORY_REQUIRED_FOR_COMMIT_INTENTS.
Required(c) ==
  {"intent"}
    \cup (IF c.intent \in FINANCIAL_INTENTS THEN {"amount", "currency", "transactionDate"} ELSE {})
    \cup (IF c.intent \in CATEGORY_REQUIRED_INTENTS \cup {"SALARY"} THEN {"category"} ELSE {})
    \cup (IF c.intent \in COUNTERPARTY_REQUIRED_INTENTS THEN {"counterparty"} ELSE {})

Missing(c) == {f \in Required(c) \ {"intent"} : Null(c, f)}

\* computeRecordConfidence is the least score, zero for a null or unscored
\* field; classifyRecordConfidence its band.
Classification(c) ==
  LET scores == {c.score[f] : f \in Required(c)}
  IN IF Missing(c) # {} \/ scores \cap {"missing", "low"} # {} THEN "draft_pending_clarification"
     ELSE IF "medium" \in scores THEN "flagged_review"
     ELSE "auto_commit"

Ready(c) == Classification(c) # "draft_pending_clarification"

\* "intent" stands for null: no field, the intent itself, is asked about, and
\* that too when every required value is there and one of them has no score.
selectClarificationField(c) ==
  CASE c.intent = "UNKNOWN" -> "intent"
    [] "amount" \in Missing(c) -> "amount"
    [] "counterparty" \in Missing(c) -> "counterparty"
    [] "category" \in Missing(c) -> "category"
    [] "currency" \in Missing(c) -> "currency"
    [] "transactionDate" \in Missing(c) -> "transactionDate"
    [] OTHER -> "intent"

(***************************************************************************)
(* TransactionCommitAdapter.performCommit and the use case it calls.       *)
(***************************************************************************)
\* isFutureDate against the user's own calendar, in the use case.
FutureLocally(c) == Is(c, "transactionDate", {"tomorrow", "absurd"})

\* The same against the UTC date, in PrismaTransactionRepository.create.
FutureInUtc(c) == FutureLocally(c) \/ (behind /\ Is(c, "transactionDate", {"today"}))

\* EXPENSE and INCOME_LIKE_INTENTS
Recordable(c) == c.intent \in {"EXPENSE", "SALARY"}
Incomplete(c) == \E f \in {"amount", "currency", "transactionDate", "category"} : Null(c, f)
CategoryFound(c) == ~ Is(c, "category", {"", "deprecated"})
IsSupported(c) == ~ Is(c, "currency", {"unsupported"})
RateFound(c) == ~ Is(c, "currency", {"unrated"})

\* Transaction.validate: the amount is positive and the date not after the
\* reference date, which is the user's in the use case and UTC in the repository.
Sound(c) == ~ Is(c, "amount", {"negative"}) /\ ~ FutureLocally(c)

\* CreateExpenseUseCase, and CreateIncomeUseCase with the same checks in the
\* same order.
RecordExpense(c) ==
  CASE ~ IsSupported(c) -> "invalid_currency"
    [] IsSupported(c) /\ ~ RateFound(c) -> "rate_unavailable"
    [] IsSupported(c) /\ RateFound(c) /\ (~ Sound(c) \/ FutureInUtc(c)) -> "invalid"
    [] OTHER -> "committed"
RecordIncome(c) == RecordExpense(c)

CommitOf(c) ==
  CASE Incomplete(c) -> "incomplete"
    [] ~ Incomplete(c) /\ ~ CategoryFound(c) -> "category_not_found"
    [] ~ Incomplete(c) /\ CategoryFound(c) /\ ~ Recordable(c) -> "unsupported_intent"
    [] OTHER -> IF c.intent = "EXPENSE" THEN RecordExpense(c) ELSE RecordIncome(c)

Committed(way, c, before) ==
  outcome' = [way |-> way, record |-> c, before |-> before, result |-> CommitOf(c)]
Uncommitted(way, c) ==
  outcome' = [way |-> way, record |-> c, before |-> c, result |-> "none"]

\* A draft nobody has, and the draft of a message that was not understood.
NoCandidate == PlainReply("UNKNOWN")
NoOutcome == [way |-> "none", record |-> NoCandidate, before |-> NoCandidate, result |-> "none"]

(***************************************************************************)
(* RouteTextMessageUseCase, over one user's conversation                   *)
(***************************************************************************)
ExtractInit ==
  /\ behind \in BOOLEAN
  /\ draft = NoCandidate
  /\ question = "idle"
  /\ outcome = NoOutcome

NextMessage ==
  /\ outcome' = NoOutcome
  /\ UNCHANGED <<behind, draft, question>>

\* Two replies in a row that do not validate.
NothingUnderstood ==
  /\ Uncommitted("not_understood", NoCandidate)
  /\ UNCHANGED <<behind, draft, question>>

\* A reply that is valid and lists no transaction.
NothingToRecord ==
  /\ Uncommitted("nothing_to_record", NoCandidate)
  /\ UNCHANGED <<behind, draft, question>>

\* routeFreshMessage
HearsMessage(c) ==
  /\ IF Ready(c)
       THEN Committed(Classification(c), c, c) /\ UNCHANGED <<draft, question>>
       ELSE /\ draft' = c
            /\ question' = selectClarificationField(c)
            /\ Uncommitted("asked", c)
  /\ UNCHANGED behind

\* classifyInterruption
Interrupts(c) == Classification(c) = "auto_commit" /\ c.intent # draft.intent

\* routeInterruptingTransaction: a draft of its own, the question stays.
TalksOfSomethingElse(c) ==
  /\ Interrupts(c)
  /\ Committed("interrupting", c, c)
  /\ UNCHANGED <<behind, draft, question>>

\* resolveClarificationField
Resolves(c) ==
  IF question = "intent" THEN c.intent # "UNKNOWN" ELSE ~ Null(c, question)

\* Only what was asked about comes from the answer, and not its score.
Merged(c) ==
  IF question = "intent" THEN [draft EXCEPT !.intent = c.intent]
  ELSE [draft EXCEPT !.value[question] = c.value[question]]

\* commitResolvedClarification: a commit that fails leaves the question open.
Answers(c) ==
  /\ ~ Interrupts(c)
  /\ IF Resolves(c)
       THEN /\ Committed("answered", Merged(c), draft)
            /\ IF CommitOf(Merged(c)) = "committed"
                 THEN question' = "idle" /\ draft' = NoCandidate
                 ELSE UNCHANGED <<draft, question>>
       ELSE Uncommitted("asked", draft) /\ UNCHANGED <<draft, question>>
  /\ UNCHANGED behind

\* The draft of a photo, of a voice note or of one part of a compound message
\* is confirmed as it is.
ConfirmsDraft(c) ==
  /\ Committed("confirmed", c, c)
  /\ UNCHANGED <<behind, draft, question>>

ExtractNext ==
  \/ outcome # NoOutcome /\ NextMessage
  \/ outcome = NoOutcome /\ (NothingUnderstood \/ NothingToRecord)
  \/ /\ outcome = NoOutcome /\ question = "idle"
     /\ \E c \in Candidates : HearsMessage(c) \/ ConfirmsDraft(c)
  \/ /\ outcome = NoOutcome /\ question # "idle"
     /\ \E c \in AnswerCandidates : TalksOfSomethingElse(c) \/ Answers(c)

ExtractSpec == ExtractInit /\ [][ExtractNext]_extractVars

(***************************************************************************)
(* Properties                                                              *)
(***************************************************************************)
\* What the pipeline calls ready, of an intent that can be recorded, is never
\* refused for a missing field, said at once or across another question; and
\* where one single field was missing, answering for it is enough.
ReadyRecordsAreComplete ==
  Recordable(outcome.record)
    /\ \/ outcome.way \in {"auto_commit", "flagged_review", "interrupting"}
       \/ outcome.way = "answered" /\ Cardinality(Missing(outcome.before)) = 1
                                   /\ outcome.before.intent = outcome.record.intent
  => outcome.result # "incomplete"

\* Whatever way a record came, what is committed was said in the message, is
\* plausible, and was not scored as a guess unless it was asked about.
NothingInventedIsCommitted ==
  outcome.result = "committed" =>
    LET c == outcome.record
    IN /\ Is(c, "amount", {"sound"}) /\ ~ FutureLocally(c)
       /\ ~ Is(c, "merchant", {"unsaid"})
       /\ \A f \in Details : c.score[f] = "low" /\ ~ Null(c, f) =>
            outcome.way = "answered" /\ Null(outcome.before, f)

\* No record is ready that lacks something it needs, and nothing nobody said
\* is committed.
RecordsAreAsTold == ReadyRecordsAreComplete /\ NothingInventedIsCommitted

\* "'not in the future' is evaluated against the user's own local calendar
\* date, not server UTC": a date the user's calendar has reached is not refused.
LocalTodayIsAccepted ==
  Recordable(outcome.record) /\ Is(outcome.record, "transactionDate", {"today"})
    /\ Is(outcome.record, "amount", {"sound"})
  => outcome.result # "invalid"

=============================================================================
