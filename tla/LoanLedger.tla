----------------------------- MODULE LoanLedger -----------------------------
(****************************************************************************)
(* Loans and their payments: CreateLoanUseCase and LogLoanPaymentUseCase    *)
(* over PrismaLoanRepository.                                               *)
(*                                                                          *)
(* A payment is first checked against the loan as the use case reads it;    *)
(* then the repository locks the row, reads it again and computes interest, *)
(* principal and status from that.  Between the two, and while a payment    *)
(* waits for the lock, other payments may be written.  Amounts are whole    *)
(* numbers of the smallest unit; a rate is the interest of one installment  *)
(* in RateDen-ths of the balance, 0 standing for an interest-free loan.     *)
(****************************************************************************)
EXTENDS Naturals, Integers, Sequences

CONSTANTS
  Loans,       \* ids of loan rows
  Payers,      \* concurrent invocations of LogLoanPayment
  Nobody,      \* holder of a free row lock
  Principals,  \* amounts a loan is made for
  Payments,    \* amounts anyone pays
  Rates,       \* rates a loan may carry, 0 among them for interest-free
  RateDen,     \* denominator of Rates
  MaxPayments  \* bound: payments written per loan

ASSUME LoanAssumption ==
  /\ Principals \subseteq Nat \ {0} /\ Payments \subseteq Nat /\ Payments # {}
  /\ Rates \subseteq Nat /\ 0 \in Rates /\ RateDen \in Nat \ {0}
  /\ Nobody \notin Payers /\ MaxPayments \in Nat

VARIABLES
  loan,      \* the loans table
  payments,  \* [Loans -> Seq]: rows of loan_payments, in order of commit
  rowLock,   \* [Loans -> Payers or Nobody]: FOR NO KEY UPDATE
  payer      \* [Payers -> the invocation]

loanVars == <<loan, payments, rowLock, payer>>

Answers == {"none", "applied", "conflict", "not_found", "not_open",
            "negative_amortization", "overpayment", "error"}

LoanTypeOK ==
  /\ loan \in [Loans -> [status : {"absent", "open", "paid_off"}, principal : Nat,
                         balance : Nat, rate : Rates]]
  /\ payments \in [Loans -> Seq([amount : Payments, portion : Nat])]
  /\ rowLock \in [Loans -> Payers \cup {Nobody}]
  /\ payer \in [Payers -> [pc : {"idle", "checked", "locked"}, loan : Loans,
                           amount : Payments, seen : Nat, answer : Answers]]

LoanInit ==
  /\ loan = [l \in Loans |-> [status |-> "absent", principal |-> 0, balance |-> 0, rate |-> 0]]
  /\ payments = [l \in Loans |-> <<>>]
  /\ rowLock = [l \in Loans |-> Nobody]
  /\ \E l \in Loans :
       payer = [p \in Payers |-> [pc |-> "idle", loan |-> l, seen |-> 0, answer |-> "none",
                                  amount |-> CHOOSE a \in Payments : TRUE]]

\* Loan.validate, which every row that is read passes through.
Valid(row) ==
  /\ row.balance \in 0..row.principal
  /\ row.status = "open" <=> row.balance > 0

(***************************************************************************)
(* computeLoanAmortization and Loan.applyPayment                           *)
(***************************************************************************)
\* balance * rate / installments per year, rounded half up to the unit.
InterestDue(balance, rate) == (2 * balance * rate + RateDen) \div (2 * RateDen)

\* What a payment takes off the balance; may be negative or too much.
PrincipalPortion(balance, rate, amount) ==
  IF rate = 0 THEN amount ELSE amount - InterestDue(balance, rate)

\* How applyPayment judges a payment on a loan with this status and balance.
Judged(status, balance, rate, amount) ==
  CASE status # "open" -> "not_open"
    [] PrincipalPortion(balance, rate, amount) < 0 -> "negative_amortization"
    [] PrincipalPortion(balance, rate, amount) > balance -> "overpayment"
    [] OTHER -> "applied"

StatusFor(balance) == IF balance = 0 THEN "paid_off" ELSE "open"

(***************************************************************************)
(* Use cases                                                               *)
(***************************************************************************)
CreateLoan(l, principal, rate) ==
  /\ loan[l].status = "absent"
  /\ loan' = [loan EXCEPT ![l] = [status |-> "open", principal |-> principal,
                                  balance |-> principal, rate |-> rate]]
  /\ UNCHANGED <<payments, rowLock, payer>>

Answer(p, a) == payer' = [payer EXCEPT ![p].pc = "idle", ![p].answer = a]

\* LogLoanPaymentUseCase reads the loan and lets applyPayment judge it.
\* found is FALSE for a loan that is missing, deleted or another user's.
PaymentRefused(p, l, amount, found) ==
  /\ payer[p].pc = "idle"
  /\ IF ~ found \/ loan[l].status = "absent"
     THEN Answer(p, "not_found")
     ELSE LET verdict == Judged(loan[l].status, loan[l].balance, loan[l].rate, amount) IN
          verdict # "applied" /\ Answer(p, verdict)
  /\ UNCHANGED <<loan, payments, rowLock>>

PaymentChecked(p, l, amount) ==
  /\ payer[p].pc = "idle"
  /\ Judged(loan[l].status, loan[l].balance, loan[l].rate, amount) = "applied"
  /\ Len(payments[l]) < MaxPayments
  /\ payer' = [payer EXCEPT ![p] = [pc |-> "checked", loan |-> l, amount |-> amount,
                                    seen |-> loan[l].balance, answer |-> "none"]]
  /\ UNCHANGED <<loan, payments, rowLock>>

(***************************************************************************)
(* PrismaLoanRepository.logPayment                                         *)
(***************************************************************************)
\* SELECT ... FOR NO KEY UPDATE: waits for the holder, then finds the row
\* only if it is still open.
LockLoan(p) ==
  LET l == payer[p].loan IN
  /\ payer[p].pc = "checked"
  /\ rowLock[l] = Nobody
  /\ IF loan[l].status = "open"
     THEN /\ rowLock' = [rowLock EXCEPT ![l] = p]
          /\ payer' = [payer EXCEPT ![p].pc = "locked"]
     ELSE /\ Answer(p, "conflict")
          /\ UNCHANGED rowLock
  /\ UNCHANGED <<loan, payments>>

\* As it would be with the balance of the statement's first snapshot, which
\* is what a computed CTE kept while it waited for the row.
BalanceUsedStale(p) == payer[p].seen

\* The row as findUniqueOrThrow reads it, under the lock.
BalanceUsed(p) == loan[payer[p].loan].balance

\* Update of the loan and insert of the payment commit together, or a guard
\* of applyPayment rolls back and the caller sees a conflict.
WritePayment(p) ==
  LET l == payer[p].loan
      portion == PrincipalPortion(BalanceUsed(p), loan[l].rate, payer[p].amount)
      left == BalanceUsed(p) - portion IN
  /\ payer[p].pc = "locked"
  /\ rowLock' = [rowLock EXCEPT ![l] = Nobody]
  /\ IF Judged("open", BalanceUsed(p), loan[l].rate, payer[p].amount) = "applied"
     THEN /\ loan' = [loan EXCEPT ![l].balance = left, ![l].status = StatusFor(left)]
          /\ payments' = [payments EXCEPT ![l] =
                            Append(payments[l], [amount |-> payer[p].amount, portion |-> portion])]
          /\ Answer(p, "applied")
     ELSE /\ Answer(p, "conflict")
          /\ UNCHANGED <<loan, payments>>

\* Connection lost, 15 s exceeded or process gone before COMMIT.
PaymentFails(p) ==
  /\ payer[p].pc # "idle"
  /\ rowLock' = [l \in Loans |-> IF rowLock[l] = p THEN Nobody ELSE rowLock[l]]
  /\ Answer(p, "error")
  /\ UNCHANGED <<loan, payments>>

LoanNext ==
  \/ \E l \in Loans, principal \in Principals, rate \in Rates : CreateLoan(l, principal, rate)
  \/ \E p \in Payers, l \in Loans, amount \in Payments :
       PaymentChecked(p, l, amount) \/ \E found \in BOOLEAN : PaymentRefused(p, l, amount, found)
  \/ \E p \in Payers : LockLoan(p) \/ WritePayment(p) \/ PaymentFails(p)

LoanSpec == LoanInit /\ [][LoanNext]_loanVars

(***************************************************************************)
(* Properties                                                              *)
(***************************************************************************)
\* The balance of loan l after its first n payments, were each one charged
\* interest on exactly what the one before it left.
Replayed(l) ==
  LET after[n \in 0..Len(payments[l])] ==
        IF n = 0 THEN loan[l].principal
        ELSE after[n - 1]
             - PrincipalPortion(after[n - 1], loan[l].rate, payments[l][n].amount)
  IN after

\* However payments overlap, the stored balance, status and principal
\* portions are those of the payments made one at a time in the order of
\* their rows: no interest is computed on a balance another payment has
\* changed, no balance falls below zero, and the loan is open exactly while
\* something is owed, as Loan.validate demands of every row it reads.
LoanIsReplayOfItsPayments ==
  \A l \in Loans :
    loan[l].status # "absent" =>
      /\ loan[l].balance = Replayed(l)[Len(payments[l])]
      /\ \A n \in 1..Len(payments[l]) :
           payments[l][n].portion = Replayed(l)[n - 1] - Replayed(l)[n]
      /\ Valid(loan[l])
=============================================================================
