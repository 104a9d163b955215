----------------------------- MODULE DebtLedger -----------------------------
(****************************************************************************)
(* Debts and their repayments: LogDebtRepaymentUseCase, SettleDebtUseCase   *)
(* and CreateDebtUseCase over PrismaDebtRepository.                         *)
(*                                                                          *)
(* Every use case reads first and writes later, in a database transaction   *)
(* of its own, so another caller can act on the same debt in between.  A    *)
(* caller is one invocation; its record keeps what the invocation has read. *)
(* Amounts are whole numbers of cents.  The rows of debt_repayments are     *)
(* kept as their sum per debt, the DebtSettled rows of domain_events as     *)
(* their number per debt and status.                                        *)
(****************************************************************************)
EXTENDS Naturals, FiniteSets

CONSTANTS
  Debts,      \* ids of debt rows
  Callers,    \* concurrent use-case invocations
  Keys,       \* (counterparty, direction, currency): what a repayment matches on
  MaxAmount   \* largest amount anyone types

ASSUME AmountAssumption == MaxAmount \in Nat \ {0}

Amounts == 1..MaxAmount

VARIABLES
  debt,      \* the debts table
  repaid,    \* [Debts -> Nat]: sum of the debt's debt_repayments rows
  settled,   \* [Debts -> [Closed -> Nat]]: DebtSettled events recorded
  call       \* [Callers -> in-flight or finished invocation]

vars == <<debt, repaid, settled, call>>

Closed   == {"repaid", "forgiven"}
Statuses == Closed \cup {"absent", "open"}

Outcomes == {"none", "repaid", "forgiven", "debt_no_longer_open", "not_matched",
             "overpayment_confirmation_required", "debt_not_open", "error"}

DebtRows == [status : Statuses, original : Nat, outstanding : Nat, key : Keys]

\* seen is the balance the use case read, amount what logRepayment will be
\* asked to write, capped tells that the use case lowered it to seen.
Calls == [pc : {"idle", "repaying", "settling"}, debt : Debts, seen : Nat,
          amount : Nat, capped : BOOLEAN, outcome : Outcomes]

TypeOK ==
  /\ debt \in [Debts -> DebtRows]
  /\ repaid \in [Debts -> Nat]
  /\ settled \in [Debts -> [Closed -> Nat]]
  /\ call \in [Callers -> Calls]

Init ==
  /\ \E k \in Keys :
       debt = [d \in Debts |->
                 [status |-> "absent", original |-> 0, outstanding |-> 0, key |-> k]]
  /\ repaid = [d \in Debts |-> 0]
  /\ settled = [d \in Debts |-> [s \in Closed |-> 0]]
  /\ \E d \in Debts :
       call = [c \in Callers |-> [pc |-> "idle", debt |-> d, seen |-> 0, amount |-> 0,
                                  capped |-> FALSE, outcome |-> "none"]]

(***************************************************************************)
(* Reads                                                                   *)
(***************************************************************************)
IsOpen(d) == debt[d].status = "open"

\* findOpenByCounterparty, narrowed to the repayment's currency.
FindOpen(k) == {d \in Debts : IsOpen(d) /\ debt[d].key = k}

\* The invocation ends and reports o.
Finish(c, o) == call' = [call EXCEPT ![c].pc = "idle", ![c].outcome = o]

(***************************************************************************)
(* CreateDebtUseCase.  Validation precedes the insert, so a rejected input *)
(* leaves no row; the insert itself records no event.                      *)
(***************************************************************************)
CreateDebt(d, k, amount) ==
  /\ debt[d].status = "absent"
  /\ debt' = [debt EXCEPT ![d] = [status |-> "open", original |-> amount,
                                  outstanding |-> amount, key |-> k]]
  /\ UNCHANGED <<repaid, settled, call>>

(***************************************************************************)
(* LogDebtRepaymentUseCase, first half: match the debt and pre-check the   *)
(* amount against the balance just read (Debt.applyRepayment).             *)
(***************************************************************************)
\* The name fits no counterparty or several, or the counterparty has no open
\* debt or several: the user is asked, nothing is written.
RepaymentUnmatched(c, k, known) ==
  /\ call[c].pc = "idle"
  /\ known => Cardinality(FindOpen(k)) # 1
  /\ Finish(c, "not_matched")
  /\ UNCHANGED <<debt, repaid, settled>>

\* Without confirmOverpayment a repayment above the balance goes no further.
OverpaymentQuestioned(c, d, amount) ==
  /\ call[c].pc = "idle"
  /\ FindOpen(debt[d].key) = {d}
  /\ amount > debt[d].outstanding
  /\ Finish(c, "overpayment_confirmation_required")
  /\ UNCHANGED <<debt, repaid, settled>>

\* What will be written: the amount, or the balance read when it is smaller.
AmountToApply(d, amount) ==
  IF amount > debt[d].outstanding THEN debt[d].outstanding ELSE amount

\* amount fits, or it does not and the caller confirmed the overpayment.
RepaymentMatched(c, d, amount, confirmOverpayment) ==
  /\ call[c].pc = "idle"
  /\ FindOpen(debt[d].key) = {d}
  /\ amount > debt[d].outstanding => confirmOverpayment
  /\ call' = [call EXCEPT ![c] =
                [pc |-> "repaying", debt |-> d, outcome |-> "none",
                 seen |-> debt[d].outstanding,
                 amount |-> AmountToApply(d, amount),
                 capped |-> amount > debt[d].outstanding]]
  /\ UNCHANGED <<debt, repaid, settled>>

(***************************************************************************)
(* PrismaDebtRepository.logRepayment: one transaction around the           *)
(* conditional UPDATE, the debt_repayments insert and the event.           *)
(***************************************************************************)
\* The WHERE clause.
CanRepay(d, amount) == IsOpen(d) /\ debt[d].outstanding >= amount

\* As it would be with the balance computed from the use case's own read.
BalanceFromRead(c, d) == call[c].seen - call[c].amount

\* Computed by the database from the row being updated.
BalanceAfter(c, d) == debt[d].outstanding - call[c].amount

\* As it would be if no repayment closed the debt.
StatusAfterNever(d, amount) == debt[d].status

StatusAfter(d, amount) ==
  IF debt[d].outstanding = amount THEN "repaid" ELSE debt[d].status

RecordSettled(d, closing, status) ==
  settled' = IF closing
             THEN [settled EXCEPT ![d] =
                     [settled[d] EXCEPT ![status] = settled[d][status] + 1]]
             ELSE settled

LogRepayment(c) ==
  LET d == call[c].debt
      amount == call[c].amount IN
  /\ call[c].pc = "repaying"
  /\ CanRepay(d, amount)
  /\ debt' = [debt EXCEPT ![d].outstanding = BalanceAfter(c, d),
                          ![d].status = StatusAfter(d, amount)]
  /\ repaid' = [repaid EXCEPT ![d] = repaid[d] + amount]
  /\ RecordSettled(d, StatusAfter(d, amount) = "repaid", "repaid")
  /\ Finish(c, "repaid")

\* The UPDATE matched no row.
LogRepaymentRefused(c) ==
  /\ call[c].pc = "repaying"
  /\ ~ CanRepay(call[c].debt, call[c].amount)
  /\ Finish(c, "debt_no_longer_open")
  /\ UNCHANGED <<debt, repaid, settled>>

(***************************************************************************)
(* SettleDebtUseCase and PrismaDebtRepository.forgive                      *)
(***************************************************************************)
SettleStart(c, d) ==
  /\ call[c].pc = "idle"
  /\ debt[d].status # "absent"
  /\ IF IsOpen(d)
     THEN call' = [call EXCEPT ![c] = [pc |-> "settling", debt |-> d, seen |-> 0,
                                       amount |-> 0, capped |-> FALSE,
                                       outcome |-> "none"]]
     ELSE Finish(c, "debt_not_open")
  /\ UNCHANGED <<debt, repaid, settled>>

\* As it would be if forgive trusted the status read by SettleDebtUseCase.
CanForgiveUnchecked(d) == TRUE

\* The WHERE clause of the conditional update.
CanForgive(d) == IsOpen(d)

Forgive(c) ==
  LET d == call[c].debt IN
  /\ call[c].pc = "settling"
  /\ CanForgive(d)
  /\ debt' = [debt EXCEPT ![d].status = "forgiven"]
  /\ RecordSettled(d, TRUE, "forgiven")
  /\ Finish(c, "forgiven")
  /\ UNCHANGED repaid

ForgiveRefused(c) ==
  /\ call[c].pc = "settling"
  /\ ~ CanForgive(call[c].debt)
  /\ Finish(c, "debt_not_open")
  /\ UNCHANGED <<debt, repaid, settled>>

\* The connection or the process fails before COMMIT: the transaction is
\* rolled back as a whole.
CallFails(c) ==
  /\ call[c].pc # "idle"
  /\ Finish(c, "error")
  /\ UNCHANGED <<debt, repaid, settled>>

Next ==
  \/ \E d \in Debts, k \in Keys, amount \in Amounts : CreateDebt(d, k, amount)
  \/ \E c \in Callers, k \in Keys, known \in BOOLEAN : RepaymentUnmatched(c, k, known)
  \/ \E c \in Callers, d \in Debts, amount \in Amounts : OverpaymentQuestioned(c, d, amount)
  \/ \E c \in Callers, d \in Debts, amount \in Amounts, confirm \in BOOLEAN :
       RepaymentMatched(c, d, amount, confirm)
  \/ \E c \in Callers, d \in Debts : SettleStart(c, d)
  \/ \E c \in Callers :
       LogRepayment(c) \/ LogRepaymentRefused(c) \/ Forgive(c) \/ ForgiveRefused(c)
         \/ CallFails(c)

Spec == Init /\ [][Next]_vars

(***************************************************************************)
(* Properties                                                              *)
(***************************************************************************)
\* outstanding_balance is decremented on write instead of recomputed; it
\* still equals original_amount minus the sum of the repayment rows, however
\* the callers of logRepayment interleave with each other and with forgive.
BalanceIsOriginalMinusRepaid ==
  \A d \in Debts : debt[d].outstanding + repaid[d] = debt[d].original

\* The status<->balance rule of the Debt entity, which a row must satisfy to
\* be read back at all: repaid means nothing is owed, open and forgiven mean
\* something still is.
StatusMatchesBalance ==
  \A d \in Debts :
    /\ debt[d].status = "repaid" => debt[d].outstanding = 0
    /\ debt[d].status \in {"open", "forgiven"} => debt[d].outstanding > 0

\* A debt leaves 'open' once, and exactly that transition records one
\* DebtSettled event, carrying the status the debt ended in.
SettledOnce ==
  \A d \in Debts, s \in Closed :
    settled[d][s] = IF debt[d].status = s THEN 1 ELSE 0

\* A debt, its repayments and its DebtSettled event tell one story, although
\* they are three tables written by callers that have read at other times.
BooksAgree == BalanceIsOriginalMinusRepaid /\ StatusMatchesBalance /\ SettledOnce

\* A confirmed overpayment is capped at a balance read before the write, and
\* the user is told the debt is cleared: when the write succeeds it is, even
\* if other repayments came in between.
CappedRepaymentSettles ==
  \A c \in Callers :
    call[c].outcome = "repaid" /\ call[c].capped
      => debt[call[c].debt].status = "repaid"

\* No step reopens a settled debt, or changes what a settled debt records,
\* or raises what is owed.
SettledIsFinal ==
  [][\A d \in Debts :
       /\ debt[d].status \in Closed => debt'[d] = debt[d] /\ repaid'[d] = repaid[d]
       /\ debt[d].status = "open" => debt'[d].outstanding <= debt[d].outstanding]_vars

\* The tables keep the promises of DebtAccount.
Account == INSTANCE DebtAccount WITH
  state <- [d \in Debts |-> IF debt[d].status = "absent" THEN "absent"
                            ELSE IF IsOpen(d) THEN "owing" ELSE "settled"],
  owed <- [d \in Debts |-> debt[d].outstanding],
  notices <- [d \in Debts |-> settled[d]["repaid"] + settled[d]["forgiven"]]

ImplementsAccount == Account!Spec
=============================================================================
