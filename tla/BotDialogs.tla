------------------------------ MODULE BotDialogs ------------------------------
(***************************************************************************)
(* The dialogs the bot keeps outside the conversation engine: the loan     *)
(* wizard and the search session, versioned Redis records written by       *)
(* compare-and-set, and the flag that waits for the word DELETE.  Updates  *)
(* of a user are handled side by side: each reads a record, and its write  *)
(* holds only if the version is still the one it read.                     *)
(*                                                                         *)
(* An answer is well formed or not; which lender, date or rate it names is *)
(* left out, and so are the texts of the prompts.  What a dialog is about  *)
(* is its own number, given when it starts.                                *)
(***************************************************************************)
EXTENDS Naturals, Sequences, FiniteSets

CONSTANTS
  Handlers,   \* handlers under way at once
  Bounds,     \* the amounts a search asks for
  MaxDialogs, \* loan dialogs started
  MaxVersion, \* bound on the versions of a wizard record
  MaxSearch,  \* and of a session; the code has none
  Unset       \* a search bound not given

ASSUME DialogAssumption == MaxDialogs \in Nat /\ Unset \notin Bounds

VARIABLES
  loanWizard, \* loan_wizard:<user>
  search,     \* search_session:<user>
  ended,      \* a session has been closed or has expired
  awaiting,   \* account_deletion_confirmation:<user> exists
  pending,    \* the account is pending_deletion
  shown,      \* the confirmation keyboards in the chat
  dialogs,    \* loan dialogs started so far
  carried,    \* [dialog -> how often its loan or payment was recorded]
  handler     \* [Handlers -> what each has read and is about to do]

dialogVars == <<loanWizard, search, ended, awaiting, pending, shown, dialogs, carried, handler>>

CreateSteps == <<"LENDER", "PRINCIPAL", "CURRENCY", "INTEREST_RATE", "INSTALLMENT_AMOUNT",
                 "INSTALLMENT_FREQUENCY", "START_DATE", "CREATE_CONFIRMATION">>
PaySteps == <<"PAYMENT_LOAN_SELECTION", "PAYMENT_AMOUNT", "PAYMENT_CONFIRMATION">>
StepsOf(kind) == IF kind = "create" THEN CreateSteps ELSE PaySteps
LoanKinds == {"create", "pay"}

NoLoanWizard == [version |-> 0, kind |-> "create", step |-> 0, about |-> 0]
NoSession == [version |-> 0, field |-> "none", min |-> Unset, max |-> Unset]
Idle == [does |-> "nothing", read |-> NoLoanWizard, session |-> NoSession, tap |-> NoLoanWizard]

Confirming(w) == w.step = Len(StepsOf(w.kind))

DialogsInit ==
  /\ loanWizard = NoLoanWizard /\ search = NoSession /\ ended = FALSE
  /\ awaiting = FALSE /\ pending = FALSE
  /\ shown = {} /\ dialogs = 0
  /\ carried = [d \in 1..MaxDialogs |-> 0]
  /\ handler = [u \in Handlers |-> Idle]

HoldsAlways(stored, expected) == TRUE

\* COMPARE_AND_SET_SCRIPT: a missing key has version 0.
Holds(stored, expected) == stored.version = expected

Begin(u, h) == handler[u] = Idle /\ handler' = [handler EXCEPT ![u] = h]
End(u) == handler' = [handler EXCEPT ![u] = Idle]
About(u, does) == handler[u].does = does

searchRecords == <<search, ended>>
deletionVars == <<awaiting, pending>>
loanRecords == <<loanWizard, shown, dialogs, carried>>

(***************************************************************************)
(* The loan wizard                                                         *)
(***************************************************************************)
\* /loans create and /loans pay: the record is read, then written; nobody
\* looks whether the write held.
StartLoan(u, kind) ==
  /\ ~ pending /\ loanWizard.version < MaxVersion
  /\ Begin(u, [Idle EXCEPT !.does = "start", !.read = [loanWizard EXCEPT !.kind = kind]])
  /\ UNCHANGED <<loanRecords, searchRecords, deletionVars>>

WriteStart(u) ==
  LET read == handler[u].read IN
  /\ About(u, "start")
  /\ IF Holds(loanWizard, read.version) /\ dialogs < MaxDialogs
     THEN /\ loanWizard' = [version |-> read.version + 1, kind |-> read.kind, step |-> 1,
                        about |-> dialogs + 1]
          /\ dialogs' = dialogs + 1
     ELSE UNCHANGED <<loanWizard, dialogs>>
  /\ End(u)
  /\ UNCHANGED <<shown, carried, searchRecords, deletionVars>>

\* What the writer of the next step puts there.
Advanced(w) == [w EXCEPT !.version = @ + 1, !.step = @ + 1]

\* handleLoanWizardTextStep on a well-formed answer: at a confirmation, and
\* with a malformed answer, nothing is written.
WriteAnswer(u) ==
  LET read == handler[u].read IN
  /\ About(u, "answer")
  /\ IF Holds(loanWizard, read.version)
     THEN /\ loanWizard' = Advanced(read)
          /\ shown' = shown \cup {w \in {Advanced(read)} : Confirming(w)}
     ELSE UNCHANGED <<loanWizard, shown>>
  /\ End(u)
  /\ UNCHANGED <<dialogs, carried, searchRecords, deletionVars>>

\* A tap on Confirm or Cancel of a keyboard: only its kind and version are
\* compared with the record.
TapMatches(button, stored) == stored.version = button.version

TapLoan(u, button, what) ==
  /\ ~ pending /\ TapMatches(button, loanWizard) /\ loanWizard # NoLoanWizard
  /\ Begin(u, [Idle EXCEPT !.does = what, !.read = loanWizard, !.tap = button])
  /\ UNCHANGED <<loanRecords, searchRecords, deletionVars>>

\* Both clear the record before anything else; who cannot, stops.
RecordCleared(u) == IF Holds(loanWizard, handler[u].read.version) THEN NoLoanWizard ELSE loanWizard

CancelLoan(u) ==
  /\ About(u, "cancel")
  /\ loanWizard' = RecordCleared(u)
  /\ End(u)
  /\ UNCHANGED <<shown, dialogs, carried, searchRecords, deletionVars>>

\* finalizeLoanCreate and finalizeLoanPayment: the draft must be complete and
\* of the button's kind.
Complete(u) == Confirming(handler[u].read) /\ handler[u].read.kind = handler[u].tap.kind

ConfirmLoan(u) ==
  LET read == handler[u].read IN
  /\ About(u, "confirm")
  /\ loanWizard' = RecordCleared(u)
  /\ IF Holds(loanWizard, read.version) /\ Complete(u)
     THEN handler' = [handler EXCEPT ![u].does = "record"]
     ELSE End(u)
  /\ UNCHANGED <<shown, dialogs, carried, searchRecords, deletionVars>>

\* CreateLoanUseCase or LogLoanPaymentUseCase, which may refuse.
RecordLoan(u) ==
  /\ About(u, "record")
  /\ \/ carried' = [carried EXCEPT ![handler[u].read.about] = @ + 1]
     \/ UNCHANGED carried
  /\ End(u)
  /\ UNCHANGED <<loanWizard, shown, dialogs, searchRecords, deletionVars>>

(***************************************************************************)
(* The search session                                                      *)
(***************************************************************************)
ReadSearch(u, does) ==
  /\ ~ pending /\ search.version < MaxSearch
  /\ Begin(u, [Idle EXCEPT !.does = does, !.session = search])
  /\ UNCHANGED <<loanRecords, searchRecords, deletionVars>>

StartSearch(u) == ReadSearch(u, "search")
TapSearch(u, does) == search # NoSession /\ ReadSearch(u, does)

\* The write each tap makes: a field's prompt keeps the filters, a reset
\* drops them, a page keeps everything.
SessionAfter(does, s) ==
  CASE does \in {"search", "reset"} -> [NoSession EXCEPT !.version = s.version + 1]
    [] does \in {"min", "max"} -> [s EXCEPT !.version = @ + 1, !.field = does]
    [] does = "page" -> [s EXCEPT !.version = @ + 1]
    [] does = "close" -> NoSession

WriteSearch(u) ==
  LET h == handler[u] IN
  /\ h.does \in {"search", "reset", "min", "max", "page", "close"}
  /\ search' = IF Holds(search, h.session.version) THEN SessionAfter(h.does, h.session) ELSE search
  /\ ended' = (ended \/ (search # NoSession /\ search' = NoSession))
  /\ End(u)
  /\ UNCHANGED <<loanRecords, deletionVars>>

\* handleSearchTextStep for an amount: checked against the other bound of the
\* session as it was read.
InOrder(min, max) == min = Unset \/ max = Unset \/ min <= max

Bounded(s, amount) ==
  LET b == IF s.field = "min" THEN [s EXCEPT !.min = amount] ELSE [s EXCEPT !.max = amount]
  IN  [b EXCEPT !.version = @ + 1, !.field = "none"]

AnswerSearch(u, amount) ==
  LET next == Bounded(handler[u].session, amount) IN
  /\ About(u, "bound")
  /\ search' = IF InOrder(next.min, next.max) /\ Holds(search, handler[u].session.version)
               THEN next ELSE search
  /\ End(u)
  /\ UNCHANGED <<ended, loanRecords, deletionVars>>

(***************************************************************************)
(* The deletion flag                                                       *)
(***************************************************************************)
AskForDelete ==
  /\ ~ pending
  /\ awaiting' = TRUE
  /\ UNCHANGED <<pending, loanRecords, searchRecords, handler>>

\* handleAccountDeletionTextStep: the flag goes first, whatever was typed.
ClearFlag(u, word) ==
  /\ About(u, "deletion")
  /\ awaiting' = FALSE
  /\ IF word = "DELETE" THEN handler' = [handler EXCEPT ![u].does = "request"] ELSE End(u)
  /\ UNCHANGED <<pending, loanRecords, searchRecords>>

RequestDeletion(u) ==
  /\ About(u, "request")
  /\ pending' = TRUE
  /\ End(u)
  /\ UNCHANGED <<awaiting, loanRecords, searchRecords>>

CancelDeletion ==
  /\ pending
  /\ pending' = FALSE
  /\ UNCHANGED <<awaiting, loanRecords, searchRecords, handler>>

(****************************************************************************)
(* Where a text goes: the first dialog that waits for one.  The records are *)
(* read one after the other, here at once: each reader keeps only its own.  *)
(****************************************************************************)
TextStep(u) ==
  /\ ~ pending
  /\ CASE loanWizard # NoLoanWizard ->
            IF Confirming(loanWizard) \/ loanWizard.version >= MaxVersion THEN UNCHANGED handler
            ELSE Begin(u, [Idle EXCEPT !.does = "answer", !.read = loanWizard])
       [] loanWizard = NoLoanWizard /\ search.field # "none" ->
            Begin(u, [Idle EXCEPT !.does = "bound", !.session = search])
       [] loanWizard = NoLoanWizard /\ search.field = "none" /\ awaiting ->
            Begin(u, [Idle EXCEPT !.does = "deletion"])
       [] OTHER -> UNCHANGED handler
  /\ UNCHANGED <<loanRecords, searchRecords, deletionVars>>

\* /cancel while a wizard is stored.
CancelCommand(u) ==
  /\ loanWizard # NoLoanWizard /\ ~ pending
  /\ Begin(u, [Idle EXCEPT !.does = "cancel", !.read = loanWizard])
  /\ UNCHANGED <<loanRecords, searchRecords, deletionVars>>

\* The keys have a TTL.
ExpireWizard == loanWizard # NoLoanWizard /\ loanWizard' = NoLoanWizard
                /\ UNCHANGED <<shown, dialogs, carried, searchRecords, deletionVars, handler>>
ExpireSearch == search # NoSession /\ search' = NoSession /\ ended' = TRUE
                /\ UNCHANGED <<loanRecords, deletionVars, handler>>
ExpireFlag == awaiting /\ awaiting' = FALSE
              /\ UNCHANGED <<pending, loanRecords, searchRecords, handler>>

DialogsNext ==
  \/ \E u \in Handlers :
       \/ TextStep(u) \/ CancelCommand(u)
       \/ \E kind \in LoanKinds : StartLoan(u, kind)
       \/ \E button \in shown : TapLoan(u, button, "confirm") \/ TapLoan(u, button, "cancel")
       \/ WriteStart(u) \/ WriteAnswer(u) \/ CancelLoan(u) \/ ConfirmLoan(u) \/ RecordLoan(u)
       \/ StartSearch(u) \/ WriteSearch(u)
       \/ \E does \in {"reset", "min", "max", "page", "close"} : TapSearch(u, does)
       \/ \E amount \in Bounds : AnswerSearch(u, amount)
       \/ \E word \in {"DELETE", "other"} : ClearFlag(u, word)
       \/ RequestDeletion(u)
  \/ AskForDelete \/ CancelDeletion
  \/ ExpireWizard \/ ExpireSearch \/ ExpireFlag

DialogsSpec == DialogsInit /\ [][DialogsNext]_dialogVars

(***************************************************************************)
(* Properties                                                              *)
(***************************************************************************)
\* However many taps and redeliveries a confirmation gets, what it stands for
\* is recorded at most once as long as no other wizard is started: the record
\* is cleared by compare-and-set before anything is done (finalizeLoanCreate,
\* finalizeLoanPayment).
ConfirmedOnce == \A d \in 1..MaxDialogs : carried[d] > 1 => d < dialogs

\* confirmation-keyboard.ts:102: the version on a button is the idempotency
\* guard, a tap on an old keyboard "is safely rejected as stale".  But versions
\* start again when the record is cleared.
StaleTapsAreRejected ==
  \A u \in Handlers : About(u, "record") => handler[u].read.about = handler[u].tap.about

\* An answer is checked against the other bound as its handler has read it,
\* and written later: however answers, prompts and resets overlap, the two
\* bounds that stand are in order, because the write holds only over the
\* session that was checked (handleSearchTextStep).  And a bound the user has set
\* goes only when both go, by a reset or a new search: an answer or a tap
\* that has read the session before the other bound was set does not take it
\* back (writeSearchFilter).  Once a session has ended its versions come
\* again, as a wizard's do: then a late write may take a bound back, but the
\* bounds that stand are in order all the same.
BoundsAreNotLost ==
  /\ []InOrder(search.min, search.max)
  /\ [][~ ended' =>
          \A b \in {"min", "max"} :
            search[b] # Unset /\ search'[b] = Unset
              => search'.min = Unset /\ search'.max = Unset]_search
=============================================================================
