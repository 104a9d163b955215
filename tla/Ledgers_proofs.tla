---------------------------- MODULE Ledgers_proofs ----------------------------
(***************************************************************************)
(* Debts, loans, accounts, the calendar and the figures of reports: the    *)
(* proofs about them.  MCLedgers puts them side by side.                   *)
(***************************************************************************)
EXTENDS MCLedgers, SequenceTheorems, SumTheorems

(***************************************************************************)
(* For any set of debts, callers and keys and any amounts: the balance,    *)
(* status and DebtSettled events of a debt stay consistent, a settled debt *)
(* is final, and DebtLedger implements DebtAccount.                        *)
(***************************************************************************)

\* What the callers in flight rely on: a matched debt exists, the amount is
\* positive, and an amount capped at the balance read is never below the
\* balance at the time of the write, because balances only go down.
CallsInFlight ==
  \A c \in Callers :
    call[c].pc = "repaying" =>
      /\ call[c].amount > 0
      /\ debt[call[c].debt].status # "absent"
      /\ call[c].capped => debt[call[c].debt].outstanding <= call[c].amount

LedgerInv ==
  /\ TypeOK
  /\ BalanceIsOriginalMinusRepaid
  /\ StatusMatchesBalance
  /\ SettledOnce
  /\ CallsInFlight
  /\ CappedRepaymentSettles

\* An absent debt has no history: needed when CreateDebt fills the row.
AbsentIsBlank ==
  \A d \in Debts : debt[d].status = "absent" =>
                     debt[d].outstanding = 0 /\ debt[d].original = 0 /\ repaid[d] = 0

IInv == LedgerInv /\ AbsentIsBlank

LEMMA InitIInv == Init => IInv
  BY DEF Init, IInv, LedgerInv, TypeOK, BalanceIsOriginalMinusRepaid,
         StatusMatchesBalance, SettledOnce, CallsInFlight, CappedRepaymentSettles,
         AbsentIsBlank, DebtRows, Calls, Statuses, Closed, Outcomes

USE DEF Closed

\* A step that leaves the tables alone keeps the parts that speak of them.
LEMMA TablesUnchanged ==
  ASSUME IInv, UNCHANGED <<debt, repaid, settled>>
  PROVE  /\ BalanceIsOriginalMinusRepaid' /\ StatusMatchesBalance' /\ SettledOnce'
         /\ AbsentIsBlank'
  BY DEF IInv, LedgerInv, BalanceIsOriginalMinusRepaid, StatusMatchesBalance,
         SettledOnce, AbsentIsBlank, IsOpen

\* Ending an invocation keeps its record well typed.
LEMMA FinishTypes ==
  ASSUME TypeOK, NEW c \in Callers, NEW o \in Outcomes, Finish(c, o)
  PROVE  call' \in [Callers -> Calls]
  <1>. call[c] \in Calls
    BY DEF TypeOK
  <1>1. [call[c] EXCEPT !.pc = "idle", !.outcome = o] \in Calls
    BY DEF Calls
  <1>2. call' = [call EXCEPT ![c] = [call[c] EXCEPT !.pc = "idle", !.outcome = o]]
    BY DEF Finish
  <1>. QED
    BY <1>1, <1>2 DEF TypeOK

\* Finishing a call without having written, with an outcome that claims no
\* repayment.
LEMMA FinishKeeps ==
  ASSUME IInv, NEW c \in Callers, NEW o \in Outcomes, o # "repaid",
         Finish(c, o), UNCHANGED <<debt, repaid, settled>>
  PROVE  IInv'
  <1>1. TypeOK'
    BY FinishTypes DEF IInv, LedgerInv, TypeOK
  <1>2. CallsInFlight' /\ CappedRepaymentSettles'
    BY DEF IInv, LedgerInv, TypeOK, Finish, Calls, CallsInFlight, CappedRepaymentSettles
  <1>. QED
    BY <1>1, <1>2, TablesUnchanged DEF IInv, LedgerInv

LEMMA CreateDebtKeeps ==
  ASSUME IInv, NEW d \in Debts, NEW k \in Keys, NEW amount \in Amounts,
         CreateDebt(d, k, amount)
  PROVE  IInv'
  <1>. amount \in Nat /\ amount > 0
    BY AmountAssumption DEF Amounts
  <1>1. TypeOK'
    BY DEF IInv, LedgerInv, TypeOK, CreateDebt, DebtRows, Statuses
  <1>2. BalanceIsOriginalMinusRepaid' /\ StatusMatchesBalance' /\ AbsentIsBlank'
    BY DEF IInv, LedgerInv, TypeOK, CreateDebt, DebtRows, AbsentIsBlank,
           BalanceIsOriginalMinusRepaid, StatusMatchesBalance
  <1>3. SettledOnce'
    BY DEF IInv, LedgerInv, TypeOK, CreateDebt, DebtRows, SettledOnce
  <1>4. CallsInFlight' /\ CappedRepaymentSettles'
    BY DEF IInv, LedgerInv, TypeOK, CreateDebt, DebtRows, Calls, CallsInFlight,
           CappedRepaymentSettles
  <1>. QED
    BY <1>1, <1>2, <1>3, <1>4 DEF IInv, LedgerInv

LEMMA MatchedKeeps ==
  ASSUME IInv, NEW c \in Callers, NEW d \in Debts, NEW amount \in Amounts,
         NEW confirm \in BOOLEAN, RepaymentMatched(c, d, amount, confirm)
  PROVE  IInv'
  <1>. amount \in Nat /\ amount > 0
    BY AmountAssumption DEF Amounts
  <1>. debt[d].outstanding \in Nat /\ debt[d].outstanding > 0 /\ IsOpen(d)
    <2>1. IsOpen(d)
      BY DEF RepaymentMatched, FindOpen
    <2>. QED
      BY <2>1 DEF IInv, LedgerInv, TypeOK, DebtRows, StatusMatchesBalance, IsOpen
  <1>1. TypeOK'
    BY DEF IInv, LedgerInv, TypeOK, RepaymentMatched, AmountToApply, Calls, Outcomes
  <1>2. /\ call'[c].pc = "repaying" /\ call'[c].debt = d /\ call'[c].outcome = "none"
        /\ call'[c].amount = AmountToApply(d, amount)
        /\ \A b \in Callers \ {c} : call'[b] = call[b]
    BY DEF IInv, LedgerInv, TypeOK, RepaymentMatched
  <1>3. call'[c].capped = (amount > debt[d].outstanding)
    BY DEF IInv, LedgerInv, TypeOK, RepaymentMatched
  <1>4. /\ AmountToApply(d, amount) > 0
        /\ amount > debt[d].outstanding => debt[d].outstanding <= AmountToApply(d, amount)
    BY DEF AmountToApply
  <1>5. debt' = debt /\ debt[d].status # "absent"
    BY DEF RepaymentMatched, IsOpen
  <1>6. CallsInFlight'
    <2> SUFFICES ASSUME NEW b \in Callers, call'[b].pc = "repaying"
                 PROVE  /\ call'[b].amount > 0
                        /\ debt[call'[b].debt].status # "absent"
                        /\ call'[b].capped => debt[call'[b].debt].outstanding <= call'[b].amount
      BY <1>5 DEF CallsInFlight
    <2>1. CASE b = c
      BY <2>1, <1>2, <1>3, <1>4, <1>5
    <2>2. CASE b # c
      BY <2>2, <1>2 DEF IInv, LedgerInv, CallsInFlight
    <2>. QED
      BY <2>1, <2>2
  <1>7. CappedRepaymentSettles'
    BY <1>2, <1>5 DEF IInv, LedgerInv, CappedRepaymentSettles
  <1>. QED
    BY <1>1, <1>6, <1>7, TablesUnchanged DEF IInv, LedgerInv, RepaymentMatched

LEMMA LogRepaymentKeeps ==
  ASSUME IInv, NEW c \in Callers, LogRepayment(c)
  PROVE  IInv'
  <1> DEFINE d == call[c].debt
             amount == call[c].amount
  <1>. /\ d \in Debts /\ amount \in Nat /\ amount > 0
       /\ debt[d] \in DebtRows /\ debt[d].status = "open"
       /\ debt[d].outstanding >= amount
    BY DEF IInv, LedgerInv, TypeOK, Calls, LogRepayment, CanRepay, IsOpen, CallsInFlight
  <1>1. TypeOK'
    <2>1. debt' \in [Debts -> DebtRows]
      BY DEF IInv, LedgerInv, TypeOK, LogRepayment, StatusAfter, BalanceAfter, DebtRows,
             Statuses
    <2>2. repaid' \in [Debts -> Nat]
      BY DEF IInv, LedgerInv, TypeOK, LogRepayment
    <2>3. settled' \in [Debts -> [Closed -> Nat]]
      BY DEF IInv, LedgerInv, TypeOK, LogRepayment, RecordSettled
    <2>4. call' \in [Callers -> Calls]
      BY FinishTypes DEF LogRepayment, IInv, LedgerInv, Outcomes
    <2>. QED
      BY <2>1, <2>2, <2>3, <2>4 DEF TypeOK
  <1>2. BalanceIsOriginalMinusRepaid'
    BY DEF IInv, LedgerInv, TypeOK, LogRepayment, BalanceAfter, DebtRows,
           BalanceIsOriginalMinusRepaid
  <1>a. /\ debt'[d].outstanding = debt[d].outstanding - amount
        /\ debt'[d].status = StatusAfter(d, amount)
        /\ \A e \in Debts \ {d} : debt'[e] = debt[e] /\ repaid'[e] = repaid[e]
    BY DEF IInv, LedgerInv, TypeOK, LogRepayment, BalanceAfter, DebtRows
  <1>b. debt[d].outstanding \in Nat
    BY DEF DebtRows
  <1>3. StatusMatchesBalance' /\ AbsentIsBlank'
    BY <1>a, <1>b DEF IInv, LedgerInv, StatusAfter, StatusMatchesBalance, AbsentIsBlank
  <1>4. SettledOnce'
    BY DEF IInv, LedgerInv, TypeOK, LogRepayment, StatusAfter, RecordSettled, DebtRows,
           SettledOnce
  <1>5. CallsInFlight'
    <2>1. /\ call'[c].pc = "idle"
          /\ \A b \in Callers \ {c} : call'[b] = call[b]
      BY DEF IInv, LedgerInv, TypeOK, LogRepayment, Finish
    <2>2. /\ debt'[d].status # "absent" /\ debt'[d].outstanding <= debt[d].outstanding
      BY <1>a, <1>b DEF StatusAfter
    <2> SUFFICES ASSUME NEW b \in Callers, call'[b].pc = "repaying"
                 PROVE  /\ call'[b].amount > 0
                        /\ debt'[call'[b].debt].status # "absent"
                        /\ call'[b].capped
                             => debt'[call'[b].debt].outstanding <= call'[b].amount
      BY DEF CallsInFlight
    <2>3. b # c /\ call'[b] = call[b] /\ call[b] \in Calls
      BY <2>1 DEF IInv, LedgerInv, TypeOK
    <2>4. /\ call[b].amount \in Nat /\ call[b].debt \in Debts /\ call[b].amount > 0
          /\ debt[call[b].debt].status # "absent"
          /\ call[b].capped => debt[call[b].debt].outstanding <= call[b].amount
      BY <2>3 DEF IInv, LedgerInv, CallsInFlight, Calls
    <2>5. CASE call[b].debt = d
      BY <1>b, <1>a, <2>2, <2>3, <2>4, <2>5
    <2>6. CASE call[b].debt # d
      BY <1>a, <2>3, <2>4, <2>6
    <2>. QED
      BY <2>5, <2>6
  <1>6. CappedRepaymentSettles'
    <2> SUFFICES ASSUME NEW b \in Callers,
                        call'[b].outcome = "repaid", call'[b].capped
                 PROVE  debt'[call'[b].debt].status = "repaid"
      BY DEF CappedRepaymentSettles
    <2>1. CASE b = c
      <3>1. call[c].capped /\ call'[c].debt = d
        BY <2>1 DEF IInv, LedgerInv, TypeOK, Calls, LogRepayment, Finish
      <3>2. debt[d].outstanding <= amount
        BY <3>1 DEF IInv, LedgerInv, CallsInFlight, LogRepayment
      <3>. QED
        BY <2>1, <3>1, <3>2, <1>a, <1>b DEF StatusAfter
    <2>2. CASE b # c
      BY <2>2 DEF IInv, LedgerInv, TypeOK, Calls, DebtRows, LogRepayment, Finish,
                  CappedRepaymentSettles
    <2>. QED
      BY <2>1, <2>2
  <1>. QED
    BY <1>1, <1>2, <1>3, <1>4, <1>5, <1>6 DEF IInv, LedgerInv

LEMMA SettleStartKeeps ==
  ASSUME IInv, NEW c \in Callers, NEW d \in Debts, SettleStart(c, d)
  PROVE  IInv'
  <1>1. CASE IsOpen(d)
    <2> DEFINE started == [pc |-> "settling", debt |-> d, seen |-> 0, amount |-> 0,
                           capped |-> FALSE, outcome |-> "none"]
    <2>a. call' = [call EXCEPT ![c] = started] /\ UNCHANGED <<debt, repaid, settled>>
      BY <1>1 DEF SettleStart
    <2>b. started \in Calls
      BY DEF Calls, Outcomes
    <2>c. started.pc = "settling" /\ started.outcome = "none"
      OBVIOUS
    <2> HIDE DEF started
    <2>1. TypeOK'
      BY <2>a, <2>b DEF IInv, LedgerInv, TypeOK
    <2>2. CallsInFlight' /\ CappedRepaymentSettles'
      BY <2>a, <2>c DEF IInv, LedgerInv, TypeOK, CallsInFlight, CappedRepaymentSettles
    <2>. QED
      BY <2>1, <2>2, TablesUnchanged DEF IInv, LedgerInv, SettleStart
  <1>2. CASE ~ IsOpen(d)
    BY <1>2, FinishKeeps DEF SettleStart, Outcomes
  <1>. QED
    BY <1>1, <1>2

LEMMA ForgiveKeeps ==
  ASSUME IInv, NEW c \in Callers, Forgive(c)
  PROVE  IInv'
  <1> DEFINE d == call[c].debt
  <1>. /\ d \in Debts /\ debt[d] \in DebtRows /\ debt[d].status = "open"
    BY DEF IInv, LedgerInv, TypeOK, Calls, Forgive, CanForgive, IsOpen
  <1>1. TypeOK'
    <2>1. debt' \in [Debts -> DebtRows]
      BY DEF IInv, LedgerInv, TypeOK, Forgive, DebtRows, Statuses
    <2>2. repaid' \in [Debts -> Nat] /\ settled' \in [Debts -> [Closed -> Nat]]
      BY DEF IInv, LedgerInv, TypeOK, Forgive, RecordSettled
    <2>3. call' \in [Callers -> Calls]
      BY FinishTypes DEF Forgive, IInv, LedgerInv, Outcomes
    <2>. QED
      BY <2>1, <2>2, <2>3 DEF TypeOK
  <1>2. BalanceIsOriginalMinusRepaid' /\ StatusMatchesBalance' /\ AbsentIsBlank'
    BY DEF IInv, LedgerInv, TypeOK, Forgive, DebtRows, BalanceIsOriginalMinusRepaid,
           StatusMatchesBalance, AbsentIsBlank
  <1>3. SettledOnce'
    BY DEF IInv, LedgerInv, TypeOK, Forgive, RecordSettled, DebtRows, SettledOnce
  <1>4. CallsInFlight' /\ CappedRepaymentSettles'
    BY DEF IInv, LedgerInv, TypeOK, Forgive, Finish, DebtRows, Calls, CallsInFlight,
           CappedRepaymentSettles
  <1>. QED
    BY <1>1, <1>2, <1>3, <1>4 DEF IInv, LedgerInv

LEMMA NextIInv == IInv /\ [Next]_vars => IInv'
  <1> SUFFICES ASSUME IInv, [Next]_vars PROVE IInv'
    OBVIOUS
  <1>1. ASSUME NEW d \in Debts, NEW k \in Keys, NEW amount \in Amounts,
               CreateDebt(d, k, amount)
        PROVE  IInv'
    BY <1>1, CreateDebtKeeps
  <1>2. ASSUME NEW c \in Callers, NEW k \in Keys, NEW known \in BOOLEAN,
               RepaymentUnmatched(c, k, known)
        PROVE  IInv'
    BY <1>2, FinishKeeps DEF RepaymentUnmatched, Outcomes
  <1>3. ASSUME NEW c \in Callers, NEW d \in Debts, NEW amount \in Amounts,
               OverpaymentQuestioned(c, d, amount)
        PROVE  IInv'
    BY <1>3, FinishKeeps DEF OverpaymentQuestioned, Outcomes
  <1>4. ASSUME NEW c \in Callers, NEW d \in Debts, NEW amount \in Amounts,
               NEW confirm \in BOOLEAN, RepaymentMatched(c, d, amount, confirm)
        PROVE  IInv'
    BY <1>4, MatchedKeeps
  <1>5. ASSUME NEW c \in Callers, NEW d \in Debts, SettleStart(c, d)
        PROVE  IInv'
    BY <1>5, SettleStartKeeps
  <1>6. ASSUME NEW c \in Callers, LogRepayment(c)
        PROVE  IInv'
    BY <1>6, LogRepaymentKeeps
  <1>7. ASSUME NEW c \in Callers, Forgive(c)
        PROVE  IInv'
    BY <1>7, ForgiveKeeps
  <1>8. ASSUME NEW c \in Callers,
               LogRepaymentRefused(c) \/ ForgiveRefused(c) \/ CallFails(c)
        PROVE  IInv'
    BY <1>8, FinishKeeps DEF LogRepaymentRefused, ForgiveRefused, CallFails, Outcomes
  <1>9. CASE UNCHANGED vars
    <2>1. TypeOK' /\ CallsInFlight' /\ CappedRepaymentSettles'
      BY <1>9 DEF IInv, LedgerInv, vars, TypeOK, CallsInFlight, CappedRepaymentSettles
    <2>. QED
      BY <1>9, <2>1, TablesUnchanged DEF IInv, LedgerInv, vars
  <1>. QED
    BY <1>1, <1>2, <1>3, <1>4, <1>5, <1>6, <1>7, <1>8, <1>9 DEF Next

THEOREM InductiveInvariant == Spec => []IInv
  BY InitIInv, NextIInv, PTL DEF Spec

\* Every variable keeps its type; in particular no balance becomes negative
\* (BR-DBT-001), for logRepayment subtracts only under its WHERE clause.
THEOREM TypeCorrect == Spec => []TypeOK
  BY InductiveInvariant, PTL DEF IInv, LedgerInv

\* The stored balance is the one a recomputation from the repayment rows gives.
THEOREM BalanceCorrect == Spec => []BalanceIsOriginalMinusRepaid
  BY InductiveInvariant, PTL DEF IInv, LedgerInv

\* Every row satisfies the entity's status<->balance rule, so it can be read.
THEOREM StatusCorrect == Spec => []StatusMatchesBalance
  BY InductiveInvariant, PTL DEF IInv, LedgerInv

\* One DebtSettled event per settlement.
THEOREM SettlementAnnouncedOnce == Spec => []SettledOnce
  BY InductiveInvariant, PTL DEF IInv, LedgerInv

\* Balance, repayments, status and event of every debt agree in every
\* reachable state.
THEOREM BooksAlwaysAgree == Spec => []BooksAgree
  BY BalanceCorrect, StatusCorrect, SettlementAnnouncedOnce, PTL DEF BooksAgree

\* A capped repayment that was written cleared the debt.
THEOREM CappedSettles == Spec => []CappedRepaymentSettles
  BY InductiveInvariant, PTL DEF IInv, LedgerInv

(***************************************************************************)
(* Finality of settlements, and the refinement of DebtAccount              *)
(***************************************************************************)
\* A write to one debt leaves the rows of the others as they were.
LEMMA RepaymentStep ==
  ASSUME IInv, NEW c \in Callers, LogRepayment(c)
  PROVE  /\ call[c].debt \in Debts
         /\ IsOpen(call[c].debt)
         /\ debt[call[c].debt].outstanding \in Nat
         /\ call[c].amount \in Nat
         /\ 0 < call[c].amount
         /\ call[c].amount <= debt[call[c].debt].outstanding
         /\ debt'[call[c].debt].outstanding
              = debt[call[c].debt].outstanding - call[c].amount
         /\ debt'[call[c].debt].status = StatusAfter(call[c].debt, call[c].amount)
         /\ \A e \in Debts \ {call[c].debt} : debt'[e] = debt[e] /\ repaid'[e] = repaid[e]
  <1>. call[c] \in Calls /\ debt[call[c].debt] \in DebtRows
    BY DEF IInv, LedgerInv, TypeOK, Calls
  <1>1. /\ call[c].debt \in Debts /\ call[c].amount \in Nat
        /\ debt[call[c].debt].outstanding \in Nat
    BY DEF Calls, DebtRows
  <1>2. 0 < call[c].amount
    BY <1>1 DEF LogRepayment, IInv, LedgerInv, CallsInFlight
  <1>3. IsOpen(call[c].debt) /\ call[c].amount <= debt[call[c].debt].outstanding
    BY <1>1 DEF LogRepayment, CanRepay
  <1>4. /\ debt'[call[c].debt].outstanding
             = debt[call[c].debt].outstanding - call[c].amount
        /\ debt'[call[c].debt].status = StatusAfter(call[c].debt, call[c].amount)
        /\ \A e \in Debts \ {call[c].debt} : debt'[e] = debt[e] /\ repaid'[e] = repaid[e]
    BY <1>1 DEF IInv, LedgerInv, TypeOK, DebtRows, LogRepayment, BalanceAfter
  <1>. QED
    BY <1>1, <1>2, <1>3, <1>4

LEMMA FinalStep ==
  ASSUME IInv, [Next]_vars, NEW d \in Debts
  PROVE  /\ debt[d].status \in Closed => debt'[d] = debt[d] /\ repaid'[d] = repaid[d]
         /\ debt[d].status = "open" => debt'[d].outstanding <= debt[d].outstanding
  <1>. debt[d] \in DebtRows /\ debt[d].outstanding \in Nat
    BY DEF IInv, LedgerInv, TypeOK, DebtRows
  <1>1. ASSUME NEW e \in Debts, NEW k \in Keys, NEW amount \in Amounts,
               CreateDebt(e, k, amount)
        PROVE  (debt[d].status # "absent" => debt'[d] = debt[d]) /\ repaid' = repaid
    BY <1>1 DEF CreateDebt, IInv, LedgerInv, TypeOK
  <1>2. ASSUME NEW c \in Callers, LogRepayment(c)
        PROVE  /\ debt[d].status \in Closed => debt'[d] = debt[d] /\ repaid'[d] = repaid[d]
               /\ debt[d].status = "open" => debt'[d].outstanding <= debt[d].outstanding
    <2>1. CASE call[c].debt = d
      <3>1. IsOpen(d) /\ debt'[d].outstanding <= debt[d].outstanding
        BY <1>2, <2>1, RepaymentStep
      <3>. QED
        BY <3>1 DEF IsOpen
    <2>2. CASE call[c].debt # d
      <3>1. debt'[d] = debt[d] /\ repaid'[d] = repaid[d]
        BY <1>2, <2>2, RepaymentStep
      <3>. QED
        BY <3>1
    <2>. QED
      BY <2>1, <2>2
  <1>3. ASSUME NEW c \in Callers, Forgive(c)
        PROVE  /\ debt[d].status \in Closed => debt'[d] = debt[d]
               /\ debt'[d].outstanding = debt[d].outstanding /\ repaid' = repaid
    BY <1>3 DEF Forgive, CanForgive, IsOpen, IInv, LedgerInv, TypeOK, Calls, DebtRows
  <1>4. CASE UNCHANGED <<debt, repaid>>
    BY <1>4
  <1>. QED
    BY <1>1, <1>2, <1>3, <1>4
       DEF Next, vars, RepaymentUnmatched, OverpaymentQuestioned, RepaymentMatched,
           SettleStart, LogRepaymentRefused, ForgiveRefused, CallFails

\* A settled debt never changes again, and an open one never grows.
THEOREM SettlementFinal == Spec => SettledIsFinal
  <1>1. IInv /\ [Next]_vars
          => [\A d \in Debts :
                /\ debt[d].status \in Closed => debt'[d] = debt[d] /\ repaid'[d] = repaid[d]
                /\ debt[d].status = "open"
                     => debt'[d].outstanding <= debt[d].outstanding]_vars
    BY FinalStep
  <1>. QED
    BY <1>1, InductiveInvariant, PTL DEF Spec, SettledIsFinal

LEMMA InitMaps == Init => Account!Init
  BY DEF Init, Account!Init, IsOpen

LEMMA StepMaps ==
  ASSUME IInv, [Next]_vars
  PROVE  [Account!Next]_(Account!accountVars)
  <1>1. ASSUME NEW d \in Debts, NEW k \in Keys, NEW amount \in Amounts,
               CreateDebt(d, k, amount)
        PROVE  Account!Open(d)
    <2>. amount \in Nat \ {0}
      BY AmountAssumption DEF Amounts
    <2>. QED
      BY <1>1 DEF CreateDebt, Account!Open, IInv, LedgerInv, TypeOK, IsOpen
  <1>2. ASSUME NEW c \in Callers, NEW d \in Debts, d = call[c].debt, LogRepayment(c)
        PROVE  Account!PayDown(d) \/ Account!PayOff(d)
    <2>. /\ IsOpen(d) /\ debt[d].outstanding \in Nat
         /\ call[c].amount \in Nat /\ 0 < call[c].amount
         /\ call[c].amount <= debt[d].outstanding
      BY <1>2, RepaymentStep
    <2>1. /\ debt'[d].outstanding = debt[d].outstanding - call[c].amount
          /\ debt'[d].status = StatusAfter(d, call[c].amount)
          /\ \A e \in Debts \ {d} : debt'[e] = debt[e]
      BY <1>2, RepaymentStep
    <2>2. CASE debt[d].outstanding = call[c].amount
      <3>1. debt'[d].status = "repaid" /\ debt'[d].outstanding = 0
        BY <2>1, <2>2 DEF StatusAfter
      <3>2. settled' = [settled EXCEPT ![d] = [settled[d] EXCEPT
                                                 !["repaid"] = settled[d]["repaid"] + 1]]
        BY <1>2, <2>2 DEF LogRepayment, RecordSettled, StatusAfter
      <3>3. /\ settled'[d]["repaid"] + settled'[d]["forgiven"]
                 = settled[d]["repaid"] + settled[d]["forgiven"] + 1
            /\ \A e \in Debts \ {d} : settled'[e] = settled[e]
        BY <3>2 DEF IInv, LedgerInv, TypeOK
      <3>. QED
        BY <2>1, <3>1, <3>3 DEF Account!PayOff, IsOpen
    <2>3. CASE debt[d].outstanding # call[c].amount
      <3>1. /\ debt'[d].status = "open" /\ settled' = settled
            /\ debt'[d].outstanding \in 1..(debt[d].outstanding - 1)
        <4>1. StatusAfter(d, call[c].amount) = "open"
          BY <2>3 DEF StatusAfter, IsOpen
        <4>2. settled' = settled
          BY <1>2, <4>1 DEF LogRepayment, RecordSettled
        <4>3. debt'[d].outstanding \in 1..(debt[d].outstanding - 1)
          BY <2>1, <2>3
        <4>. QED
          BY <2>1, <4>1, <4>2, <4>3
      <3>. QED
        BY <2>1, <3>1 DEF Account!PayDown, IsOpen
    <2>. QED
      BY <2>2, <2>3
  <1>3. ASSUME NEW c \in Callers, NEW d \in Debts, d = call[c].debt, Forgive(c)
        PROVE  Account!WriteOff(d)
    <2>1. IsOpen(d)
      BY <1>3 DEF Forgive, CanForgive
    <2>2. /\ debt'[d].status = "forgiven" /\ debt'[d].outstanding = debt[d].outstanding
          /\ \A e \in Debts \ {d} : debt'[e] = debt[e]
          /\ settled' = [settled EXCEPT ![d] = [settled[d] EXCEPT
                            !["forgiven"] = settled[d]["forgiven"] + 1]]
      BY <1>3 DEF Forgive, RecordSettled, IInv, LedgerInv, TypeOK, DebtRows
    <2>3. /\ settled'[d]["repaid"] + settled'[d]["forgiven"]
               = settled[d]["repaid"] + settled[d]["forgiven"] + 1
          /\ \A e \in Debts \ {d} : settled'[e] = settled[e]
      BY <2>2 DEF IInv, LedgerInv, TypeOK
    <2>4. /\ [e \in Debts |-> IF debt'[e].status = "absent" THEN "absent"
                              ELSE IF debt'[e].status = "open" THEN "owing" ELSE "settled"]
               = [[e \in Debts |-> IF debt[e].status = "absent" THEN "absent"
                                   ELSE IF debt[e].status = "open" THEN "owing"
                                        ELSE "settled"]
                    EXCEPT ![d] = "settled"]
          /\ debt[d].status = "open"
      <3>1. \A e \in Debts \ {d} : debt'[e].status = debt[e].status
        BY <2>2
      <3>. QED
        BY <2>1, <2>2, <3>1 DEF IsOpen
    <2>5. [e \in Debts |-> debt'[e].outstanding] = [e \in Debts |-> debt[e].outstanding]
      <3>1. \A e \in Debts : debt'[e].outstanding = debt[e].outstanding
        BY <2>2
      <3>. QED
        BY <3>1
    <2>6. [e \in Debts |-> settled'[e]["repaid"] + settled'[e]["forgiven"]]
            = [[e \in Debts |-> settled[e]["repaid"] + settled[e]["forgiven"]]
                 EXCEPT ![d] = settled[d]["repaid"] + settled[d]["forgiven"] + 1]
      BY <2>3
    <2>. QED
      BY <2>4, <2>5, <2>6 DEF Account!WriteOff, IsOpen
  <1>4. CASE UNCHANGED <<debt, settled>>
    BY <1>4 DEF Account!accountVars, IsOpen
  <1>5. \A c \in Callers : call[c].debt \in Debts
    BY DEF IInv, LedgerInv, TypeOK, Calls
  <1>6. ASSUME NEW d \in Debts, NEW k \in Keys, NEW amount \in Amounts,
               CreateDebt(d, k, amount)
        PROVE  Account!Next
    BY <1>1, <1>6 DEF Account!Next
  <1>7. ASSUME NEW c \in Callers, LogRepayment(c) \/ Forgive(c)
        PROVE  Account!Next
    <2>1. PICK d \in Debts : d = call[c].debt
      BY <1>5
    <2>. QED
      BY <1>2, <1>3, <1>7, <2>1 DEF Account!Next
  <1>. QED
    BY <1>4, <1>6, <1>7
       DEF Next, vars, RepaymentUnmatched, OverpaymentQuestioned, RepaymentMatched,
           SettleStart, LogRepaymentRefused, ForgiveRefused, CallFails

\* The detailed tables implement the contract of DebtAccount: whatever the
\* callers have read in the meantime, only Open, PayDown, PayOff and WriteOff
\* ever happen to a debt.
THEOREM Refinement == Spec => ImplementsAccount
  <1>1. Spec => Account!Init
    BY InitMaps DEF Spec
  <1>2. IInv /\ [Next]_vars => [Account!Next]_(Account!accountVars)
    BY StepMaps
  <1>. QED
    BY <1>1, <1>2, InductiveInvariant, PTL DEF Spec, ImplementsAccount, Account!Spec

(***************************************************************************)
(* For any loans, payers, amounts and rates and any number of payments: a  *)
(* loan is what its payments make of it one at a time, in the order of     *)
(* their rows.  That recursion has no end here, so the proof does not run  *)
(* it: it carries along that there is a course of balances for the rows    *)
(* written so far and that every such course ends in the stored balance,   *)
(* and shows that a new row makes a course one balance longer.             *)
(***************************************************************************)

LoanRows == [status : {"absent", "open", "paid_off"}, principal : Nat, balance : Nat, rate : Rates]
PaymentRows == [amount : Payments, portion : Nat]

\* after is the course of balances of a loan with this principal and rate under
\* these payments: the equation by which Replayed is defined.
IsCourse(after, principal, rate, rows) ==
  after = [n \in 0..Len(rows) |->
             IF n = 0 THEN principal
             ELSE after[n - 1] - PrincipalPortion(after[n - 1], rate, rows[n].amount)]

\* The balance and the portions of the rows are those of this course.
Follows(after, balance, rows) ==
  /\ after[Len(rows)] = balance
  /\ \A n \in 1..Len(rows) : rows[n].portion = after[n - 1] - after[n]

CoursesEndInBalance(principal, rate, balance, rows) ==
  /\ \E after : IsCourse(after, principal, rate, rows)
  /\ \A after : IsCourse(after, principal, rate, rows) => Follows(after, balance, rows)

\* A loan that was made and every payment of it.
LoanStands(l) ==
  IF loan[l].status = "absent"
  THEN payments[l] = <<>>
  ELSE /\ Valid(loan[l])
       /\ CoursesEndInBalance(loan[l].principal, loan[l].rate, loan[l].balance, payments[l])

\* Whoever has checked a payment has seen the loan, and loans are not unmade.
PayersKnowTheirLoan ==
  \A p \in Payers : payer[p].pc # "idle" => loan[payer[p].loan].status # "absent"

LoanInv == LoanTypeOK /\ PayersKnowTheirLoan /\ \A l \in Loans : LoanStands(l)

-----------------------------------------------------------------------------
LEMMA InterestIsWhole ==
  ASSUME NEW balance \in Nat, NEW rate \in Rates PROVE InterestDue(balance, rate) \in Int
  <1>1. rate \in Nat /\ RateDen \in Nat \ {0}
    BY LoanAssumption
  <1>2. 2 * balance * rate + RateDen \in Int /\ 2 * RateDen \in Nat \ {0}
    BY <1>1
  <1> QED
    BY <1>2 DEF InterestDue

LEMMA PortionIsWhole ==
  ASSUME NEW balance \in Nat, NEW rate \in Rates, NEW amount \in Payments
  PROVE  PrincipalPortion(balance, rate, amount) \in Int
  BY InterestIsWhole, LoanAssumption DEF PrincipalPortion

\* A loan begins with one course, its principal.
LEMMA FirstCourse ==
  ASSUME NEW principal \in Nat, NEW rate \in Rates
  PROVE  CoursesEndInBalance(principal, rate, principal, <<>>)
  <1> DEFINE start == [n \in 0..0 |-> principal]
  <1>1. IsCourse(start, principal, rate, <<>>)
    BY DEF IsCourse
  <1>2. ASSUME NEW after, IsCourse(after, principal, rate, <<>>)
        PROVE  Follows(after, principal, <<>>)
    <2>1. after[0] = principal
      BY <1>2 DEF IsCourse
    <2> QED
      BY <2>1 DEF Follows
  <1> QED
    BY <1>1, <1>2 DEF CoursesEndInBalance

\* A payment computed from the stored balance makes every course one longer.
LEMMA LongerCourse ==
  ASSUME NEW principal \in Nat, NEW rate \in Rates, NEW balance \in Nat,
         NEW rows \in Seq(PaymentRows), NEW row \in PaymentRows,
         CoursesEndInBalance(principal, rate, balance, rows),
         row.portion = PrincipalPortion(balance, rate, row.amount)
  PROVE  CoursesEndInBalance(principal, rate, balance - row.portion, Append(rows, row))
  <1> DEFINE n == Len(rows)
             more == Append(rows, row)
             NextBalance(after, k) == after[k - 1] - PrincipalPortion(after[k - 1], rate, more[k].amount)
  <1>1. /\ n \in Nat /\ Len(more) = n + 1 /\ more[n + 1] = row
        /\ \A k \in 1..n : more[k] = rows[k]
    BY AppendProperties
  <1>2. ASSUME NEW after, IsCourse(after, principal, rate, rows)
        PROVE  IsCourse([k \in 0..(n + 1) |-> IF k = n + 1 THEN balance - row.portion ELSE after[k]],
                        principal, rate, more)
    <2> DEFINE longer == [k \in 0..(n + 1) |-> IF k = n + 1 THEN balance - row.portion ELSE after[k]]
    <2>1. after[n] = balance
      BY <1>2 DEF CoursesEndInBalance, Follows
    <2>2. ASSUME NEW k \in 0..(n + 1)
          PROVE  longer[k] = IF k = 0 THEN principal ELSE NextBalance(longer, k)
      <3>1. CASE k = 0
        <4>1. longer[0] = after[0]
          BY <1>1
        <4>2. after[0] = principal
          BY <1>1, <1>2 DEF IsCourse
        <4> QED
          BY <3>1, <4>1, <4>2
      <3>2. CASE k \in 1..n
        <4>1. longer[k] = after[k] /\ longer[k - 1] = after[k - 1]
          BY <1>1, <3>2
        <4>2. after[k] = after[k - 1] - PrincipalPortion(after[k - 1], rate, rows[k].amount)
          BY <1>1, <1>2, <3>2 DEF IsCourse
        <4> QED
          BY <1>1, <3>2, <4>1, <4>2
      <3>3. CASE k = n + 1
        <4>1. longer[k] = balance - row.portion /\ longer[k - 1] = after[n]
          BY <1>1, <3>3
        <4> QED
          BY <1>1, <2>1, <3>3, <4>1
      <3> QED
        BY <1>1, <3>1, <3>2, <3>3
    <2>3. longer = [k \in 0..(n + 1) |-> IF k = 0 THEN principal ELSE NextBalance(longer, k)]
      BY <2>2
    <2> QED
      BY <1>1, <2>3 DEF IsCourse
  <1>3. ASSUME NEW longer, IsCourse(longer, principal, rate, more)
        PROVE  Follows(longer, balance - row.portion, more)
    <2> DEFINE after == [k \in 0..n |-> longer[k]]
    <2>1. \A k \in 0..(n + 1) : longer[k] = IF k = 0 THEN principal ELSE NextBalance(longer, k)
      BY <1>1, <1>3 DEF IsCourse
    <2>2. ASSUME NEW k \in 0..n
          PROVE  after[k] = IF k = 0 THEN principal
                            ELSE after[k - 1] - PrincipalPortion(after[k - 1], rate, rows[k].amount)
      <3>1. CASE k = 0
        BY <1>1, <2>1, <3>1
      <3>2. CASE k \in 1..n
        <4>1. after[k] = longer[k] /\ after[k - 1] = longer[k - 1] /\ more[k] = rows[k]
          BY <1>1, <3>2
        <4>2. longer[k] = NextBalance(longer, k)
          BY <1>1, <2>1, <3>2
        <4> QED
          BY <3>2, <4>1, <4>2
      <3> QED
        BY <1>1, <3>1, <3>2
    <2>3. IsCourse(after, principal, rate, rows)
      BY <2>2 DEF IsCourse
    <2>4. Follows(after, balance, rows)
      BY <2>3 DEF CoursesEndInBalance
    <2>5. longer[n] = balance
      BY <1>1, <2>4 DEF Follows
    <2>6. longer[n + 1] = balance - row.portion
      <3>1. longer[n + 1] = NextBalance(longer, n + 1)
        BY <1>1, <2>1
      <3> QED
        BY <1>1, <2>5, <3>1
    <2>7. ASSUME NEW k \in 1..(n + 1) PROVE more[k].portion = longer[k - 1] - longer[k]
      <3>1. CASE k \in 1..n
        <4>1. rows[k].portion = after[k - 1] - after[k]
          BY <2>4, <3>1 DEF Follows
        <4> QED
          BY <1>1, <3>1, <4>1
      <3>2. CASE k = n + 1
        <4>1. row.portion \in Nat
          BY DEF PaymentRows
        <4> QED
          BY <1>1, <2>5, <2>6, <3>2, <4>1
      <3> QED
        BY <1>1, <3>1, <3>2
    <2> QED
      BY <1>1, <2>6, <2>7 DEF Follows
  <1>4. \E longer : IsCourse(longer, principal, rate, more)
    BY <1>2 DEF CoursesEndInBalance
  <1> QED
    BY <1>3, <1>4 DEF CoursesEndInBalance

-----------------------------------------------------------------------------
\* No loan has been made.
LEMMA InitLoanInv == LoanInit => LoanInv
  <1> SUFFICES ASSUME LoanInit PROVE LoanInv
    OBVIOUS
  <1>1. LoanTypeOK
    <2>1. /\ loan \in [Loans -> LoanRows] /\ rowLock \in [Loans -> Payers \cup {Nobody}]
      BY LoanAssumption DEF LoanInit, LoanRows
    <2>2. payments \in [Loans -> Seq(PaymentRows)]
      BY DEF LoanInit
    <2>3. (CHOOSE a \in Payments : TRUE) \in Payments
      BY LoanAssumption
    <2>4. PICK l \in Loans :
            payer = [p \in Payers |-> [pc |-> "idle", loan |-> l, seen |-> 0, answer |-> "none",
                                       amount |-> CHOOSE a \in Payments : TRUE]]
      BY DEF LoanInit
    <2>5. payer \in [Payers -> [pc : {"idle", "checked", "locked"}, loan : Loans,
                                amount : Payments, seen : Nat, answer : Answers]]
      BY <2>3, <2>4 DEF Answers
    <2> QED
      BY <2>1, <2>2, <2>5 DEF LoanTypeOK, LoanRows, PaymentRows
  <1>2. PayersKnowTheirLoan
    BY DEF LoanInit, PayersKnowTheirLoan
  <1>3. \A l \in Loans : LoanStands(l)
    BY DEF LoanInit, LoanStands
  <1> QED
    BY <1>1, <1>2, <1>3 DEF LoanInv

\* A step that writes no loan and no payment leaves the loans as they stand.
LEMMA TablesStand ==
  ASSUME LoanInv, UNCHANGED <<loan, payments>>
  PROVE  \A l \in Loans : LoanStands(l)'
  BY DEF LoanInv, LoanStands

\* A loan is made: its principal is owed.
LEMMA CreateStands ==
  ASSUME LoanInv, NEW l \in Loans, NEW principal \in Principals, NEW rate \in Rates,
         CreateLoan(l, principal, rate)
  PROVE  LoanInv'
  <1> DEFINE row == [status |-> "open", principal |-> principal, balance |-> principal, rate |-> rate]
  <1>1. /\ loan' = [loan EXCEPT ![l] = row] /\ UNCHANGED <<payments, rowLock, payer>>
        /\ loan[l].status = "absent" /\ payments[l] = <<>>
        /\ principal \in Nat \ {0} /\ row \in LoanRows
    BY LoanAssumption DEF CreateLoan, LoanInv, LoanStands, LoanRows
  <1>2. LoanTypeOK'
    BY <1>1 DEF LoanInv, LoanTypeOK, LoanRows
  <1>3. /\ loan'[l] = row
        /\ \A k \in Loans : k # l => loan'[k] = loan[k]
    BY <1>1 DEF LoanInv, LoanTypeOK
  <1>4. PayersKnowTheirLoan'
    BY <1>1, <1>3 DEF LoanInv, LoanTypeOK, PayersKnowTheirLoan
  <1>5. LoanStands(l)'
    <2>1. Valid(row)
      BY <1>1 DEF Valid
    <2>2. CoursesEndInBalance(principal, rate, principal, <<>>)
      BY <1>1, FirstCourse
    <2> QED
      BY <1>1, <1>3, <2>1, <2>2 DEF LoanStands
  <1>6. ASSUME NEW k \in Loans, k # l PROVE LoanStands(k)'
    BY <1>1, <1>3, <1>6 DEF LoanInv, LoanStands
  <1> QED
    BY <1>2, <1>4, <1>5, <1>6 DEF LoanInv

\* Answers and checks of a payment: the tables stay, and a payer knows its loan.
LEMMA PayerStands ==
  ASSUME LoanInv,
         \/ \E p \in Payers, l \in Loans, amount \in Payments :
              PaymentChecked(p, l, amount) \/ \E found \in BOOLEAN : PaymentRefused(p, l, amount, found)
         \/ \E p \in Payers : LockLoan(p) \/ PaymentFails(p)
  PROVE  LoanInv'
  <1> USE DEF LoanInv
  <1>0. UNCHANGED <<loan, payments>>
    BY DEF PaymentChecked, PaymentRefused, LockLoan, PaymentFails
  <1>1. ASSUME NEW p \in Payers, NEW a \in Answers, Answer(p, a),
               rowLock' \in [Loans -> Payers \cup {Nobody}]
        PROVE  LoanInv'
    <2>0. payer' \in [Payers -> [pc : {"idle", "checked", "locked"}, loan : Loans,
                                 amount : Payments, seen : Nat, answer : Answers]]
      <3>1. payer' = [payer EXCEPT ![p] = [payer[p] EXCEPT !.pc = "idle", !.answer = a]]
        BY <1>1 DEF Answer
      <3>2. [payer[p] EXCEPT !.pc = "idle", !.answer = a]
              \in [pc : {"idle", "checked", "locked"}, loan : Loans,
                   amount : Payments, seen : Nat, answer : Answers]
        BY DEF LoanTypeOK
      <3> QED
        BY <3>1, <3>2 DEF LoanTypeOK
    <2>1. LoanTypeOK'
      BY <1>0, <1>1, <2>0 DEF LoanTypeOK
    <2>2. PayersKnowTheirLoan'
      BY <1>0, <1>1 DEF LoanTypeOK, Answer, PayersKnowTheirLoan
    <2> QED
      BY <1>0, <2>1, <2>2, TablesStand
  <1>2. ASSUME NEW p \in Payers, NEW l \in Loans, NEW amount \in Payments,
               PaymentChecked(p, l, amount)
        PROVE  LoanInv'
    <2>0. loan[l].status = "open" /\ loan[l].balance \in Nat
      BY <1>2 DEF PaymentChecked, Judged, LoanTypeOK
    <2>1. LoanTypeOK'
      BY <1>0, <1>2, <2>0 DEF LoanTypeOK, PaymentChecked, Answers
    <2>2. PayersKnowTheirLoan'
      BY <1>0, <1>2, <2>0 DEF LoanTypeOK, PaymentChecked, PayersKnowTheirLoan
    <2> QED
      BY <1>0, <2>1, <2>2, TablesStand
  <1>3. ASSUME NEW p \in Payers, NEW l \in Loans, NEW amount \in Payments, NEW found \in BOOLEAN,
               PaymentRefused(p, l, amount, found)
        PROVE  LoanInv'
    <2>1. rowLock' \in [Loans -> Payers \cup {Nobody}]
      BY <1>3 DEF PaymentRefused, LoanTypeOK
    <2>2. \E a \in Answers : Answer(p, a)
      BY <1>3 DEF PaymentRefused, Judged, Answers
    <2> QED
      BY <1>1, <2>1, <2>2
  <1>4. ASSUME NEW p \in Payers, LockLoan(p) PROVE LoanInv'
    <2>1. CASE loan[payer[p].loan].status = "open"
      <3>0. /\ payer[p].pc # "idle" /\ payer' = [payer EXCEPT ![p].pc = "locked"]
            /\ rowLock' = [rowLock EXCEPT ![payer[p].loan] = p]
        BY <1>4, <2>1 DEF LockLoan
      <3>1. LoanTypeOK'
        BY <1>0, <3>0 DEF LoanTypeOK
      <3>2. \A q \in Payers : payer'[q].pc # "idle" =>
              payer[q].pc # "idle" /\ payer'[q].loan = payer[q].loan
        BY <3>0 DEF LoanTypeOK
      <3>3. PayersKnowTheirLoan'
        BY <1>0, <3>2 DEF PayersKnowTheirLoan
      <3> QED
        BY <1>0, <3>1, <3>3, TablesStand
    <2>2. CASE loan[payer[p].loan].status # "open"
      <3>1. Answer(p, "conflict") /\ UNCHANGED rowLock
        BY <1>4, <2>2 DEF LockLoan
      <3> QED
        BY <1>1, <3>1 DEF Answers, LoanTypeOK
    <2> QED
      BY <2>1, <2>2
  <1>5. ASSUME NEW p \in Payers, PaymentFails(p) PROVE LoanInv'
    <2>1. Answer(p, "error") /\ rowLock' \in [Loans -> Payers \cup {Nobody}]
      BY <1>5 DEF PaymentFails, LoanTypeOK
    <2> QED
      BY <1>1, <2>1 DEF Answers
  <1> QED
    BY <1>2, <1>3, <1>4, <1>5

\* A payment is written from the balance the row holds by then, or not at all.
LEMMA WriteStands ==
  ASSUME LoanInv, NEW p \in Payers, WritePayment(p)
  PROVE  LoanInv'
  <1>l. PICK l \in Loans : l = payer[p].loan
    BY DEF LoanInv, LoanTypeOK
  <1> DEFINE balance == loan[l].balance
             rate == loan[l].rate
             amount == payer[p].amount
             portion == PrincipalPortion(balance, rate, amount)
             row == [amount |-> amount, portion |-> portion]
  <1>0. /\ balance \in Nat /\ rate \in Rates /\ amount \in Payments
        /\ loan[l].principal \in Nat /\ payments[l] \in Seq(PaymentRows)
        /\ loan[l].status # "absent" /\ LoanStands(l)
        /\ BalanceUsed(p) = balance
    BY <1>l DEF LoanInv, LoanTypeOK, PaymentRows, PayersKnowTheirLoan, WritePayment, BalanceUsed
  <1>1. rowLock' \in [Loans -> Payers \cup {Nobody}]
    BY DEF WritePayment, LoanInv, LoanTypeOK
  <1>2. ASSUME NEW a \in Answers, Answer(p, a)
        PROVE  /\ payer' \in [Payers -> [pc : {"idle", "checked", "locked"}, loan : Loans,
                                         amount : Payments, seen : Nat, answer : Answers]]
               /\ \A q \in Payers : payer'[q].pc # "idle" =>
                    payer[q].pc # "idle" /\ payer'[q].loan = payer[q].loan
    BY <1>2 DEF Answer, LoanInv, LoanTypeOK
  <1>3. CASE Judged("open", balance, rate, amount) = "applied"
    <2>1. portion \in Int /\ portion >= 0 /\ portion <= balance
      <3>1. portion \in Int
        BY <1>0, PortionIsWhole
      <3>2. ~(portion < 0) /\ ~(portion > balance)
        BY <1>3 DEF Judged
      <3> QED
        BY <1>0, <3>1, <3>2
    <2>2. row \in PaymentRows /\ balance - portion \in Nat
      BY <1>0, <2>1 DEF PaymentRows
    <2>3. /\ loan' = [loan EXCEPT ![l].balance = balance - portion,
                                  ![l].status = StatusFor(balance - portion)]
          /\ payments' = [payments EXCEPT ![l] = Append(payments[l], row)]
          /\ Answer(p, "applied")
      BY <1>0, <1>3, <1>l DEF WritePayment
    <2>4. /\ loan'[l].balance = balance - portion /\ loan'[l].rate = rate
          /\ loan'[l].principal = loan[l].principal
          /\ loan'[l].status = StatusFor(balance - portion)
          /\ payments'[l] = Append(payments[l], row)
          /\ \A k \in Loans : k # l => loan'[k] = loan[k] /\ payments'[k] = payments[k]
      BY <2>3 DEF LoanInv, LoanTypeOK
    <2>5. Append(payments[l], row) \in Seq(PaymentRows)
      BY <1>0, <2>2, AppendProperties
    <2>6. LoanTypeOK'
      <3>1. loan' \in [Loans -> LoanRows]
        <4>1. loan \in [Loans -> LoanRows] /\ StatusFor(balance - portion) \in {"open", "paid_off"}
          BY DEF LoanInv, LoanTypeOK, LoanRows, StatusFor
        <4> QED
          BY <2>2, <2>3, <4>1 DEF LoanRows
      <3>2. payments' \in [Loans -> Seq(PaymentRows)]
        BY <2>3, <2>5 DEF LoanInv, LoanTypeOK, PaymentRows
      <3> QED
        BY <1>1, <1>2, <2>3, <3>1, <3>2 DEF LoanTypeOK, LoanRows, PaymentRows, Answers
    <2>7. PayersKnowTheirLoan'
      <3>1. \A k \in Loans : loan[k].status # "absent" => loan'[k].status # "absent"
        BY <2>4 DEF StatusFor
      <3>2. \A q \in Payers : payer[q].loan \in Loans
        BY DEF LoanInv, LoanTypeOK
      <3> QED
        BY <1>2, <2>3, <3>1, <3>2 DEF LoanInv, PayersKnowTheirLoan, Answers
    <2>8. LoanStands(l)'
      <3>1. /\ CoursesEndInBalance(loan[l].principal, rate, balance, payments[l])
            /\ balance <= loan[l].principal
        BY <1>0 DEF LoanStands, Valid
      <3>2. CoursesEndInBalance(loan[l].principal, rate, balance - portion, Append(payments[l], row))
        BY <1>0, <2>2, <3>1, LongerCourse
      <3>3. Valid(loan'[l])
        BY <1>0, <2>1, <2>4, <3>1 DEF Valid, StatusFor
      <3> QED
        BY <2>4, <3>2, <3>3 DEF LoanStands, StatusFor
    <2>9. ASSUME NEW k \in Loans, k # l PROVE LoanStands(k)'
      BY <2>4, <2>9 DEF LoanInv, LoanStands
    <2> QED
      BY <2>6, <2>7, <2>8, <2>9 DEF LoanInv
  <1>4. CASE Judged("open", balance, rate, amount) # "applied"
    <2>1. UNCHANGED <<loan, payments>> /\ Answer(p, "conflict")
      BY <1>0, <1>4, <1>l DEF WritePayment
    <2>2. LoanTypeOK'
      BY <1>1, <1>2, <2>1 DEF LoanInv, LoanTypeOK, Answers
    <2>3. PayersKnowTheirLoan'
      BY <1>2, <2>1 DEF LoanInv, PayersKnowTheirLoan, Answers
    <2> QED
      BY <2>1, <2>2, <2>3, TablesStand DEF LoanInv
  <1> QED
    BY <1>3, <1>4

LEMMA NextLoanInv == LoanInv /\ [LoanNext]_loanVars => LoanInv'
  <1>1. ASSUME LoanInv, UNCHANGED loanVars PROVE LoanInv'
    <2>1. LoanTypeOK' /\ PayersKnowTheirLoan'
      BY <1>1 DEF LoanInv, LoanTypeOK, PayersKnowTheirLoan, loanVars
    <2> QED
      BY <1>1, <2>1, TablesStand DEF LoanInv, loanVars
  <1> QED
    BY <1>1, CreateStands, PayerStands, WriteStands DEF LoanNext

THEOREM LoanInvariant == LoanSpec => []LoanInv
  BY InitLoanInv, NextLoanInv, PTL DEF LoanSpec

\* However payments overlap, the balance, the status and the principal portions
\* that logPayment stores are those of the payments made one after another, and
\* every row passes Loan.validate.
THEOREM LoansReplay == LoanSpec => []LoanIsReplayOfItsPayments
  <1>1. LoanInv => LoanIsReplayOfItsPayments
    <2> SUFFICES ASSUME LoanInv, NEW l \in Loans, loan[l].status # "absent"
                 PROVE  /\ loan[l].balance = Replayed(l)[Len(payments[l])]
                        /\ \A n \in 1..Len(payments[l]) :
                             payments[l][n].portion = Replayed(l)[n - 1] - Replayed(l)[n]
                        /\ Valid(loan[l])
      BY DEF LoanIsReplayOfItsPayments
    <2>1. /\ Valid(loan[l])
          /\ CoursesEndInBalance(loan[l].principal, loan[l].rate, loan[l].balance, payments[l])
      BY DEF LoanInv, LoanStands
    <2>2. IsCourse(Replayed(l), loan[l].principal, loan[l].rate, payments[l])
      BY <2>1 DEF CoursesEndInBalance, IsCourse, Replayed
    <2>3. Follows(Replayed(l), loan[l].balance, payments[l])
      BY <2>1, <2>2 DEF CoursesEndInBalance
    <2> QED
      BY <2>1, <2>3 DEF Follows
  <1> QED
    BY <1>1, LoanInvariant, PTL

(***************************************************************************)
(* Accounts, for any number of them and of currencies, rows, rates and     *)
(* concurrent calls: a currency has one default account, transfers stay    *)
(* whole, net worth is what flowed in, and what is over stays as it was.   *)
(***************************************************************************)

\* What a lookup of the default account and an edit keep between their steps.
Lookups == [pc : {"idle", "inserting", "rereading", "resolved", "failed"},
            currency : Currencies, account : Accounts \cup {NoAccount}]
EditsUnderWay == [pc : {"editing"}, row : Rows, edit : Edits, amount : EntryAmounts,
                  seen : Entries]

BookTypes ==
  /\ account \in [Accounts -> AccountRows]
  /\ entry \in [Rows -> Entries]
  /\ fx \in [Pairs -> [Days -> RateValues \cup {0}]]
  /\ ingest \in [todo : SUBSET Currencies, asOf : Days]
  /\ today \in Days
  /\ client \in [Clients -> Lookups \cup EditsUnderWay]
  /\ calls \in 0..MaxCalls

\* A currency's default account is one, and a call that has found it has it.
DefaultsStand ==
  /\ \A cur \in Currencies : \A a, b \in Defaults(cur) : a = b
  /\ \A c \in Clients :
       client[c].pc = "resolved" => client[c].account \in Defaults(client[c].currency)

\* Which accounts a row of a kind names, and that they are there.
NamesAccounts(e) ==
  /\ e.kind = "EXPENSE" => Exists(e.from) /\ e.to = NoAccount
  /\ e.kind = "INCOME" => e.from = NoAccount /\ Exists(e.to)
  /\ e.kind = "TRANSFER" => Exists(e.from) /\ Exists(e.to) /\ e.from # e.to

EntriesStand == \A r \in Rows : entry[r].state # "absent" => NamesAccounts(entry[r])

\* An edit was checked against the row it saw, and what it was checked with
\* does not change.
EditsStand ==
  \A c \in Clients :
    client[c].pc = "editing" =>
      /\ client[c].seen.state = "live" /\ NamesAccounts(client[c].seen)
      /\ EditAllowed(client[c].seen, client[c].edit,
                     Edited(client[c].seen, client[c].edit, client[c].amount))

BookInv == BookTypes /\ DefaultsStand /\ EntriesStand /\ EditsStand /\ TransfersStayWhole

\* No account goes, changes its currency or ceases to be a default.
AccountsStay ==
  \A a \in Accounts :
    Exists(a) => /\ Exists(a)'
                 /\ account'[a].currency = account[a].currency
                 /\ account'[a].isDefault = account[a].isDefault

\* What a step that keeps the accounts keeps of what was said of them.
LEMMA StaysNamed ==
  ASSUME AccountsStay, NEW e, NamesAccounts(e)
  PROVE  NamesAccounts(e)'
  BY DEF AccountsStay, NamesAccounts, Exists

LEMMA StaysAllowed ==
  ASSUME AccountsStay, NEW e, NamesAccounts(e), NEW edit, NEW new, EditAllowed(e, edit, new)
  PROVE  EditAllowed(e, edit, new)'
  BY DEF AccountsStay, NamesAccounts, Exists, EditAllowed

LEMMA DefaultsStay ==
  ASSUME AccountsStay, NEW cur
  PROVE  Defaults(cur) \subseteq Defaults(cur)'
  BY DEF AccountsStay, Defaults, Exists

\* A step that leaves the rows alone, and of the calls all that edit.
LEMMA RowsStay ==
  ASSUME BookInv, AccountsStay, UNCHANGED entry,
         \A c \in Clients : client'[c].pc = "editing" => client'[c] = client[c]
  PROVE  EntriesStand' /\ EditsStand' /\ TransfersStayWhole'
  <1>1. EntriesStand'
    BY StaysNamed DEF BookInv, EntriesStand
  <1>2. EditsStand'
    <2> SUFFICES ASSUME NEW c \in Clients, client'[c].pc = "editing"
                 PROVE  /\ client'[c].seen.state = "live" /\ NamesAccounts(client[c].seen)'
                        /\ EditAllowed(client[c].seen, client[c].edit,
                              Edited(client[c].seen, client[c].edit, client[c].amount))'
      BY DEF EditsStand
    <2>1. client'[c] = client[c]
      OBVIOUS
    <2> QED
      BY <2>1, StaysNamed, StaysAllowed DEF BookInv, EditsStand
  <1>3. TransfersStayWhole'
    <2> SUFFICES ASSUME NEW r \in Rows, entry[r].state # "absent", entry[r].kind = "TRANSFER"
                 PROVE  /\ \/ entry[r].destinationAmount = NoAmount
                               <=> entry[r].currency = account'[entry[r].to].currency
                           \/ entry[r].tangled
                        /\ \/ entry[r].currency = account'[entry[r].from].currency
                           \/ entry[r].recurrencied
      BY DEF TransfersStayWhole
    <2>1. Exists(entry[r].from) /\ Exists(entry[r].to)
      BY DEF BookInv, EntriesStand, NamesAccounts
    <2>2. /\ account'[entry[r].from].currency = account[entry[r].from].currency
          /\ account'[entry[r].to].currency = account[entry[r].to].currency
      BY <2>1 DEF AccountsStay, Exists
    <2> QED
      BY <2>2 DEF BookInv, TransfersStayWhole
  <1> QED
    BY <1>1, <1>2, <1>3

\* So it is of a step that leaves the table alone.
LEMMA AccountsUntouched ==
  ASSUME UNCHANGED account
  PROVE  AccountsStay
  BY DEF AccountsStay, Exists

LEMMA BookInvInit == BookInit => BookInv
  <1> SUFFICES ASSUME BookInit PROVE BookInv
    OBVIOUS
  <1>1. Blank \in Entries
    BY BookAssumption DEF Blank, Entries, Days, NoAmount
  <1>2. Idle \in Lookups
    BY BookAssumption DEF Idle, Lookups
  <1>3. BookTypes
    <2>1. account \in [Accounts -> AccountRows] /\ \A a \in Accounts : ~account[a].isDefault
      BY DEF BookInit, AccountRows
    <2>2. fx \in [Pairs -> [Days -> RateValues \cup {0}]]
      BY DEF BookInit
    <2>3. ingest \in [todo : SUBSET Currencies, asOf : Days] /\ today \in Days /\ calls \in 0..MaxCalls
      BY BookAssumption DEF BookInit, Days
    <2> QED
      BY <1>1, <1>2, <2>1, <2>2, <2>3 DEF BookInit, BookTypes
  <1>4. DefaultsStand
    BY DEF BookInit, DefaultsStand, Defaults, Idle
  <1>5. EntriesStand /\ EditsStand /\ TransfersStayWhole
    BY DEF BookInit, EntriesStand, EditsStand, TransfersStayWhole, Idle, Blank
  <1> QED
    BY <1>3, <1>4, <1>5 DEF BookInv

LEMMA CreateAccountInv ==
  ASSUME BookInv, NEW c \in Clients, NEW a \in Accounts, NEW cur \in Currencies,
         CreateAccount(c, a, cur)
  PROVE  BookInv'
  <1>1. AccountsStay
    BY DEF CreateAccount, AccountsStay, Exists, BookInv, BookTypes
  <1>2. BookTypes'
    <2>1. account' \in [Accounts -> AccountRows]
      BY DEF CreateAccount, BookInv, BookTypes, AccountRows
    <2> QED
      BY <2>1, BookAssumption DEF CreateAccount, Begin, CountCall, BookInv, BookTypes
  <1>3. \A k : Defaults(k)' = Defaults(k)
    BY DEF CreateAccount, Defaults, Exists, BookInv, BookTypes
  <1>4. DefaultsStand'
    BY <1>3 DEF CreateAccount, DefaultsStand, BookInv
  <1>5. EntriesStand' /\ EditsStand' /\ TransfersStayWhole'
    BY <1>1, RowsStay DEF CreateAccount
  <1> QED
    BY <1>2, <1>4, <1>5 DEF BookInv

LEMMA ArchiveAccountInv ==
  ASSUME BookInv, NEW c \in Clients, NEW a \in Accounts, ArchiveAccount(c, a)
  PROVE  BookInv'
  <1>0. account[a] \in AccountRows
    BY DEF BookInv, BookTypes
  <1>1. AccountsStay
    BY <1>0 DEF ArchiveAccount, AccountsStay, Exists, BookInv, BookTypes, AccountRows
  <1>2. BookTypes'
    <2>1. account' \in [Accounts -> AccountRows]
      BY <1>0 DEF ArchiveAccount, BookInv, BookTypes, AccountRows
    <2> QED
      BY <2>1, BookAssumption DEF ArchiveAccount, CountCall, Begin, BookInv, BookTypes
  <1>3. \A k : Defaults(k)' = Defaults(k)
    BY <1>0 DEF ArchiveAccount, Defaults, Exists, BookInv, BookTypes, AccountRows
  <1>4. DefaultsStand'
    BY <1>3 DEF ArchiveAccount, DefaultsStand, BookInv
  <1>5. EntriesStand' /\ EditsStand' /\ TransfersStayWhole'
    BY <1>1, RowsStay DEF ArchiveAccount
  <1> QED
    BY <1>2, <1>4, <1>5 DEF BookInv

LEMMA FindDefaultInv ==
  ASSUME BookInv, NEW c \in Clients, NEW cur \in Currencies, FindDefault(c, cur)
  PROVE  BookInv'
  <1>1. AccountsStay /\ \A k : Defaults(k)' = Defaults(k)
    BY AccountsUntouched DEF FindDefault, Defaults, Exists
  <1>2. client'[c] \in Lookups
    <2>1. Defaults(cur) # {} => (CHOOSE a \in Defaults(cur) : TRUE) \in Accounts
      BY DEF Defaults
    <2> QED
      BY <2>1 DEF FindDefault, BookInv, BookTypes, Lookups
  <1>3. BookTypes'
    BY <1>2, BookAssumption DEF FindDefault, CountCall, Begin, BookInv, BookTypes
  <1>4. DefaultsStand'
    BY <1>1 DEF FindDefault, DefaultsStand, BookInv, BookTypes
  <1>5. EntriesStand' /\ EditsStand' /\ TransfersStayWhole'
    <2>1. \A b \in Clients : client'[b].pc = "editing" => client'[b] = client[b]
      BY DEF FindDefault, BookInv, BookTypes
    <2> QED
      BY <1>1, <2>1, RowsStay DEF FindDefault
  <1> QED
    BY <1>3, <1>4, <1>5 DEF BookInv

LEMMA InsertDefaultInv ==
  ASSUME BookInv, NEW c \in Clients, NEW a \in Accounts, NEW fails \in BOOLEAN,
         InsertDefault(c, a, fails)
  PROVE  BookInv'
  <1> DEFINE cur == client[c].currency
  <1>0. client[c] \in Lookups /\ cur \in Currencies
    BY DEF InsertDefault, BookInv, BookTypes, Lookups, EditsUnderWay
  <1>1. CASE MayInsertDefault(cur) /\ ~fails
    <2>1. /\ account' = [account EXCEPT ![a] = [status |-> "active", currency |-> cur,
                                                isDefault |-> TRUE]]
          /\ client' = [client EXCEPT ![c].pc = "resolved", ![c].account = a]
      BY <1>1 DEF InsertDefault
    <2>2. AccountsStay
      BY <2>1 DEF InsertDefault, AccountsStay, Exists, BookInv, BookTypes
    <2>3. BookTypes'
      <3>1. account' \in [Accounts -> AccountRows]
        BY <1>0, <2>1 DEF BookInv, BookTypes, AccountRows
      <3>2. client'[c] \in Lookups
        BY <1>0, <2>1 DEF BookInv, BookTypes, Lookups
      <3>3. client' \in [Clients -> Lookups \cup EditsUnderWay]
        BY <2>1, <3>2 DEF BookInv, BookTypes
      <3> QED
        BY <3>1, <3>3 DEF InsertDefault, BookInv, BookTypes
    <2>4. /\ Defaults(cur)' = {a}
          /\ \A k \in Currencies : k # cur => Defaults(k)' = Defaults(k)
      <3>1. Defaults(cur) = {} /\ account'[a].status # "absent" /\ ~Exists(a)
        BY <1>1, <2>1 DEF InsertDefault, MayInsertDefault, BookInv, BookTypes
      <3> QED
        BY <2>1, <3>1 DEF Defaults, Exists, BookInv, BookTypes
    <2>5. DefaultsStand'
      <3>1. \A b \in Clients : b # c => client'[b] = client[b]
        BY <2>1 DEF BookInv, BookTypes
      <3>2. client'[c].account = a /\ client'[c].currency = cur
        BY <1>0, <2>1 DEF BookInv, BookTypes, Lookups
      <3>3. \A b \in Clients : \A k :
              b # c /\ client[b].pc = "resolved" /\ k = client[b].currency =>
                client[b].account \in Defaults(k)'
        BY <2>2, DefaultsStay DEF BookInv, DefaultsStand
      <3> QED
        BY <2>4, <3>1, <3>2, <3>3 DEF BookInv, DefaultsStand
    <2>6. EntriesStand' /\ EditsStand' /\ TransfersStayWhole'
      <3>1. \A b \in Clients : client'[b].pc = "editing" => client'[b] = client[b]
        BY <1>0, <2>1 DEF BookInv, BookTypes, Lookups
      <3> QED
        BY <2>2, <3>1, RowsStay DEF InsertDefault
    <2> QED
      BY <2>3, <2>5, <2>6 DEF BookInv
  <1>2. CASE ~(MayInsertDefault(cur) /\ ~fails)
    <2>1. client' = [client EXCEPT ![c].pc = "rereading"] /\ UNCHANGED account
      BY <1>2 DEF InsertDefault
    <2>2. AccountsStay /\ \A k : Defaults(k)' = Defaults(k)
      BY <2>1, AccountsUntouched DEF Defaults, Exists
    <2>3. client'[c] \in Lookups /\ client'[c].pc = "rereading"
      BY <1>0, <2>1 DEF BookInv, BookTypes, Lookups
    <2>4. BookTypes'
      BY <2>1, <2>3 DEF InsertDefault, BookInv, BookTypes
    <2>5. DefaultsStand'
      BY <2>1, <2>2, <2>3 DEF BookInv, BookTypes, DefaultsStand
    <2>6. EntriesStand' /\ EditsStand' /\ TransfersStayWhole'
      <3>1. \A b \in Clients : client'[b].pc = "editing" => client'[b] = client[b]
        BY <2>1, <2>3 DEF BookInv, BookTypes
      <3> QED
        BY <2>2, <3>1, RowsStay DEF InsertDefault
    <2> QED
      BY <2>4, <2>5, <2>6 DEF BookInv
  <1> QED
    BY <1>1, <1>2

LEMMA RereadDefaultInv ==
  ASSUME BookInv, NEW c \in Clients, RereadDefault(c)
  PROVE  BookInv'
  <1> DEFINE cur == client[c].currency
  <1>0. cur \in Currencies
    BY DEF RereadDefault, BookInv, BookTypes, Lookups, EditsUnderWay
  <1>1. AccountsStay /\ \A k : Defaults(k)' = Defaults(k)
    BY AccountsUntouched DEF RereadDefault, Defaults, Exists
  <1>2. client'[c] \in Lookups
    <2>1. Defaults(cur) # {} => (CHOOSE a \in Defaults(cur) : TRUE) \in Accounts
      BY DEF Defaults
    <2> QED
      BY <1>0, <2>1 DEF RereadDefault, BookInv, BookTypes, Lookups
  <1>3. BookTypes'
    BY <1>2 DEF RereadDefault, BookInv, BookTypes
  <1>4. DefaultsStand'
    BY <1>1 DEF RereadDefault, DefaultsStand, BookInv, BookTypes
  <1>5. EntriesStand' /\ EditsStand' /\ TransfersStayWhole'
    <2>1. \A b \in Clients : client'[b].pc = "editing" => client'[b] = client[b]
      BY DEF RereadDefault, BookInv, BookTypes
    <2> QED
      BY <1>1, <2>1, RowsStay DEF RereadDefault
  <1> QED
    BY <1>3, <1>4, <1>5 DEF BookInv

\* TransfersStayWhole, of one row.
Whole(e) ==
  e.kind = "TRANSFER" =>
    /\ \/ e.destinationAmount = NoAmount <=> e.currency = account[e.to].currency
       \/ e.tangled
    /\ e.currency = account[e.from].currency \/ e.recurrencied

LEMMA WholeRows ==
  TransfersStayWhole <=> \A r \in Rows : entry[r].state # "absent" => Whole(entry[r])
  BY DEF TransfersStayWhole, Whole

\* A step that writes one row, and starts or ends no edit but one of its own.
LEMMA RowWritten ==
  ASSUME BookInv, UNCHANGED account, NEW r \in Rows, NEW e \in Entries,
         entry' = [entry EXCEPT ![r] = e], NamesAccounts(e) \/ e.state = "absent",
         Whole(e) \/ e.state = "absent",
         \A c \in Clients : client'[c].pc = "editing" => client'[c] = client[c]
  PROVE  EntriesStand' /\ EditsStand' /\ TransfersStayWhole'
  <1>1. /\ entry'[r] = e
        /\ \A q \in Rows : q # r => entry'[q] = entry[q]
    BY DEF BookInv, BookTypes
  <1>2. EntriesStand'
    <2>1. \A q \in Rows : entry'[q].state # "absent" => NamesAccounts(entry'[q])
      BY <1>1 DEF BookInv, EntriesStand
    <2> QED
      BY <2>1 DEF EntriesStand, NamesAccounts, Exists
  <1>3. EditsStand'
    <2>1. AccountsStay
      BY AccountsUntouched
    <2> SUFFICES ASSUME NEW c \in Clients, client'[c].pc = "editing"
                 PROVE  /\ client'[c].seen.state = "live" /\ NamesAccounts(client[c].seen)'
                        /\ EditAllowed(client[c].seen, client[c].edit,
                              Edited(client[c].seen, client[c].edit, client[c].amount))'
      BY DEF EditsStand
    <2>2. client'[c] = client[c]
      OBVIOUS
    <2> QED
      BY <2>1, <2>2, StaysNamed, StaysAllowed DEF BookInv, EditsStand
  <1>4. TransfersStayWhole'
    <2>1. \A q \in Rows : entry[q].state # "absent" => Whole(entry[q])
      BY WholeRows DEF BookInv
    <2>2. \A q \in Rows : entry'[q].state # "absent" => Whole(entry'[q])
      BY <1>1, <2>1
    <2> QED
      BY <2>2 DEF TransfersStayWhole, Whole
  <1> QED
    BY <1>2, <1>3, <1>4

LEMMA CreateEntryInv ==
  ASSUME BookInv, NEW c \in Clients, NEW r \in Rows, NEW a \in Accounts,
         NEW kind \in {"EXPENSE", "INCOME"}, NEW amount \in EntryAmounts,
         NEW cur \in Currencies, NEW day \in Days, CreateEntry(c, r, kind, a, amount, cur, day)
  PROVE  BookInv'
  <1> DEFINE e == [Blank EXCEPT !.state = "live", !.kind = kind, !.amount = amount,
                     !.currency = cur, !.from = IF kind = "EXPENSE" THEN a ELSE NoAccount,
                     !.to = IF kind = "INCOME" THEN a ELSE NoAccount, !.day = day]
  <1>1. e \in Entries /\ NamesAccounts(e) /\ Whole(e)
    <2>1. Exists(a) /\ a # NoAccount
      BY BookAssumption DEF CreateEntry
    <2> QED
      BY <2>1 DEF Entries, Blank, NamesAccounts, Whole, NoAmount
  <1>2. entry' = [entry EXCEPT ![r] = e] /\ UNCHANGED <<account, client, fx, ingest, today>>
    BY DEF CreateEntry
  <1> HIDE DEF e
  <1>3. EntriesStand' /\ EditsStand' /\ TransfersStayWhole'
    BY <1>1, <1>2, RowWritten
  <1>4. BookTypes'
    BY <1>1, <1>2, BookAssumption DEF CreateEntry, Begin, CountCall, BookInv, BookTypes
  <1>5. DefaultsStand'
    BY <1>2 DEF BookInv, DefaultsStand, Defaults, Exists
  <1> QED
    BY <1>3, <1>4, <1>5 DEF BookInv

LEMMA CreateTransferInv ==
  ASSUME BookInv, NEW c \in Clients, NEW r \in Rows, NEW from \in Accounts, NEW to \in Accounts,
         NEW amount \in EntryAmounts, NEW typed \in EntryAmounts \cup {NoAmount},
         NEW day \in Days, CreateTransfer(c, r, from, to, amount, typed, day)
  PROVE  BookInv'
  <1> DEFINE e == [Blank EXCEPT !.state = "live", !.kind = "TRANSFER", !.amount = amount,
                     !.currency = account[from].currency, !.from = from, !.to = to,
                     !.destinationAmount = Arrives(from, to, typed), !.day = day]
  <1>1. e \in Entries /\ NamesAccounts(e) /\ Whole(e)
    <2>1. /\ Exists(from) /\ Exists(to) /\ from # to
          /\ account[from].currency # account[to].currency => typed # NoAmount
          /\ account[from].currency \in Currencies
      BY DEF CreateTransfer, BookInv, BookTypes, AccountRows
    <2> QED
      BY <2>1 DEF Entries, Blank, NamesAccounts, Whole, Arrives
  <1>2. entry' = [entry EXCEPT ![r] = e] /\ UNCHANGED <<account, client, fx, ingest, today>>
    BY DEF CreateTransfer
  <1> HIDE DEF e
  <1>3. EntriesStand' /\ EditsStand' /\ TransfersStayWhole'
    BY <1>1, <1>2, RowWritten
  <1>4. BookTypes'
    BY <1>1, <1>2, BookAssumption DEF CreateTransfer, Begin, CountCall, BookInv, BookTypes
  <1>5. DefaultsStand'
    BY <1>2 DEF BookInv, DefaultsStand, Defaults, Exists
  <1> QED
    BY <1>3, <1>4, <1>5 DEF BookInv

LEMMA EditStartInv ==
  ASSUME BookInv, NEW c \in Clients, NEW r \in Rows, NEW edit \in Edits,
         NEW amount \in EntryAmounts, EditStart(c, r, edit, amount)
  PROVE  BookInv'
  <1>1. /\ client' = [client EXCEPT ![c] = [pc |-> "editing", row |-> r, edit |-> edit,
                                            amount |-> amount, seen |-> entry[r]]]
        /\ UNCHANGED <<account, entry, fx, ingest, today>>
        /\ entry[r].state = "live" /\ EditAllowed(entry[r], edit, Edited(entry[r], edit, amount))
    BY DEF EditStart
  <1>2. BookTypes'
    <2>1. client'[c] \in EditsUnderWay
      BY <1>1 DEF BookInv, BookTypes, EditsUnderWay
    <2> QED
      BY <1>1, <2>1, BookAssumption DEF EditStart, Begin, CountCall, BookInv, BookTypes
  <1>3. DefaultsStand'
    BY <1>1 DEF BookInv, BookTypes, DefaultsStand, Defaults, Exists
  <1>4. EntriesStand' /\ TransfersStayWhole'
    BY <1>1 DEF BookInv, EntriesStand, NamesAccounts, Exists, TransfersStayWhole
  <1>5. EditsStand'
    <2> SUFFICES ASSUME NEW b \in Clients, client'[b].pc = "editing", NEW e, NEW d, NEW n,
                        e = client'[b].seen, d = client'[b].edit, n = client'[b].amount
                 PROVE  e.state = "live" /\ NamesAccounts(e)' /\ EditAllowed(e, d, Edited(e, d, n))'
      BY DEF EditsStand
    <2>1. AccountsStay
      BY <1>1, AccountsUntouched
    <2>2. e.state = "live" /\ NamesAccounts(e) /\ EditAllowed(e, d, Edited(e, d, n))
      <3>1. CASE b = c
        <4>1. e = entry[r] /\ d = edit /\ n = amount
          BY <1>1, <3>1 DEF BookInv, BookTypes
        <4>2. NamesAccounts(entry[r])
          BY <1>1 DEF BookInv, EntriesStand
        <4> QED
          BY <1>1, <4>1, <4>2
      <3>2. CASE b # c
        <4>1. client'[b] = client[b]
          BY <1>1, <3>2 DEF BookInv, BookTypes
        <4> QED
          BY <4>1 DEF BookInv, EditsStand
      <3> QED
        BY <3>1, <3>2
    <2> QED
      BY <2>1, <2>2, StaysNamed, StaysAllowed
  <1> QED
    BY <1>2, <1>3, <1>4, <1>5 DEF BookInv

\* Rows change as an edit says, whatever they are.
LEMMA EditedType ==
  ASSUME NEW e \in Entries, NEW edit \in Edits, NEW amount \in EntryAmounts
  PROVE  /\ Edited(e, edit, amount) \in Entries
         /\ Edited(e, edit, amount).currency
              = IF edit.currency = "keep" THEN e.currency ELSE edit.currency
         /\ \A f \in {"state", "kind", "from", "to", "day", "tangled", "recurrencied"} :
              Edited(e, edit, amount)[f] = e[f]
  BY DEF Edited, Entries, Edits, NoAmount

\* An edit that was allowed, of the row it was allowed for, leaves it whole.
LEMMA EditLeavesWhole ==
  ASSUME NEW e \in Entries, NEW edit \in Edits, NEW amount \in EntryAmounts,
         EditAllowed(e, edit, Edited(e, edit, amount)), Whole(e), ~e.tangled,
         e.kind = "TRANSFER"
  PROVE  Edited(e, edit, amount).destinationAmount = NoAmount
           <=> Edited(e, edit, amount).currency = account[e.to].currency
  <1> DEFINE new == Edited(e, edit, amount)
             sourceSide == edit.amount \/ edit.currency # "keep"
  <1>1. amount # NoAmount
    BY BookAssumption DEF NoAmount
  <1>2. /\ edit.destination = "keep" => new.destinationAmount = e.destinationAmount
        /\ edit.destination = "set" => new.destinationAmount = amount
        /\ edit.destination \in {"keep", "set", "clear"}
        /\ edit.currency = "keep" => new.currency = e.currency
    BY DEF Edited, Entries, Edits
  <1>3. /\ edit.destination # "keep" => sourceSide
        /\ sourceSide => IF new.currency # account[e.to].currency THEN edit.destination = "set"
                         ELSE new.destinationAmount = NoAmount
    BY DEF EditAllowed
  <1>4. CASE sourceSide
    BY <1>1, <1>2, <1>3, <1>4
  <1>5. CASE ~sourceSide
    BY <1>2, <1>3, <1>5 DEF Whole
  <1> QED
    BY <1>4, <1>5

LEMMA EditWriteInv ==
  ASSUME BookInv, NEW c \in Clients, EditWrite(c)
  PROVE  BookInv'
  <1> DEFINE r == client[c].row
             edit == client[c].edit
             amount == client[c].amount
             seen == client[c].seen
             new == Edited(entry[r], edit, amount)
             e == [new EXCEPT !.tangled = entry[r].tangled \/ entry[r] # seen,
                              !.recurrencied = entry[r].recurrencied
                                      \/ edit.currency \notin {"keep", entry[r].currency}]
  <1>0. /\ client[c].pc = "editing" /\ client[c] \in EditsUnderWay
        /\ r \in Rows /\ edit \in Edits /\ amount \in EntryAmounts /\ seen \in Entries
        /\ entry[r] \in Entries
    BY DEF EditWrite, BookInv, BookTypes, Lookups, EditsUnderWay
  <1>1. /\ entry' = [entry EXCEPT ![r] = e] /\ client' = [client EXCEPT ![c] = Idle]
        /\ UNCHANGED <<account, fx, ingest, today, calls>>
    BY DEF EditWrite
  <1>2. /\ new \in Entries
        /\ new.currency = IF edit.currency = "keep" THEN entry[r].currency ELSE edit.currency
        /\ new.state = entry[r].state /\ new.kind = entry[r].kind
        /\ new.from = entry[r].from /\ new.to = entry[r].to
    <2>1. /\ new \in Entries
          /\ new.currency = IF edit.currency = "keep" THEN entry[r].currency ELSE edit.currency
          /\ \A f \in {"state", "kind", "from", "to", "day", "tangled", "recurrencied"} :
               new[f] = entry[r][f]
      BY <1>0, EditedType
    <2> QED
      BY <2>1
  <1>3. /\ e \in Entries /\ e.state = entry[r].state /\ e.kind = entry[r].kind
        /\ e.from = entry[r].from /\ e.to = entry[r].to
        /\ e.currency = new.currency /\ e.destinationAmount = new.destinationAmount
        /\ e.tangled = (entry[r].tangled \/ entry[r] # seen)
        /\ e.recurrencied = (entry[r].recurrencied
                               \/ edit.currency \notin {"keep", entry[r].currency})
    <2>1. entry[r].tangled \in BOOLEAN /\ entry[r].recurrencied \in BOOLEAN
      BY <1>0 DEF Entries
    <2> HIDE DEF new, r, edit, amount, seen
    <2> QED
      BY <1>2, <2>1 DEF Entries
  <1>4. NamesAccounts(e) \/ e.state = "absent"
    <2>1. entry[r].state # "absent" => NamesAccounts(entry[r])
      BY <1>0 DEF BookInv, EntriesStand
    <2> HIDE DEF e
    <2> QED
      BY <1>3, <2>1 DEF NamesAccounts
  <1>5. Whole(e) \/ e.state = "absent"
    <2> SUFFICES ASSUME entry[r].state # "absent", entry[r].kind = "TRANSFER"
                 PROVE  /\ \/ new.destinationAmount = NoAmount
                                 <=> new.currency = account[entry[r].to].currency
                           \/ e.tangled
                        /\ new.currency = account[entry[r].from].currency \/ e.recurrencied
      <3> HIDE DEF e, new
      <3> QED
        BY <1>3 DEF Whole
    <2>1. Whole(entry[r])
      BY <1>0, WholeRows DEF BookInv
    <2>2. ASSUME ~e.tangled
          PROVE  new.destinationAmount = NoAmount
                   <=> new.currency = account[entry[r].to].currency
      <3>1. entry[r] = seen /\ ~entry[r].tangled
        <4> HIDE DEF e
        <4> QED
          BY <1>3, <2>2
      <3>2. EditAllowed(entry[r], edit, Edited(entry[r], edit, amount))
        BY <1>0, <3>1 DEF BookInv, EditsStand
      <3> QED
        BY <1>0, <2>1, <3>1, <3>2, EditLeavesWhole
    <2>3. new.currency = account[entry[r].from].currency \/ e.recurrencied
      <3> HIDE DEF e, new
      <3> QED
        BY <1>2, <1>3, <2>1 DEF Whole
    <2> QED
      BY <2>2, <2>3
  <1>6. \A b \in Clients : b # c => client'[b] = client[b]
    BY <1>1 DEF BookInv, BookTypes
  <1>7. client'[c] = Idle /\ Idle \in Lookups /\ Idle.pc = "idle"
    BY <1>1, BookAssumption DEF BookInv, BookTypes, Idle, Lookups
  <1> HIDE DEF e
  <1>8. EntriesStand' /\ EditsStand' /\ TransfersStayWhole'
    <2>1. \A b \in Clients : client'[b].pc = "editing" => client'[b] = client[b]
      BY <1>6, <1>7
    <2> QED
      BY <1>0, <1>1, <1>3, <1>4, <1>5, <2>1, RowWritten
  <1>9. BookTypes'
    <2>1. client' \in [Clients -> Lookups \cup EditsUnderWay]
      BY <1>1, <1>7 DEF BookInv, BookTypes
    <2>2. entry' \in [Rows -> Entries]
      BY <1>1, <1>3 DEF BookInv, BookTypes
    <2> QED
      BY <1>1, <2>1, <2>2 DEF BookInv, BookTypes
  <1>10. DefaultsStand'
    BY <1>1, <1>6, <1>7 DEF BookInv, DefaultsStand, Defaults, Exists
  <1> QED
    BY <1>8, <1>9, <1>10 DEF BookInv

LEMMA DeleteEntryInv ==
  ASSUME BookInv, NEW c \in Clients, NEW r \in Rows, DeleteEntry(c, r)
  PROVE  BookInv'
  <1> DEFINE e == [entry[r] EXCEPT !.state = "deleted"]
  <1>0. entry[r] \in Entries /\ entry[r].state = "live"
    BY DEF DeleteEntry, BookInv, BookTypes
  <1>1. /\ entry' = [entry EXCEPT ![r] = e] /\ UNCHANGED <<account, client, fx, ingest, today>>
    BY DEF DeleteEntry
  <1>2. e \in Entries /\ NamesAccounts(e) /\ Whole(e)
    <2>1. NamesAccounts(entry[r]) /\ Whole(entry[r])
      BY <1>0, WholeRows DEF BookInv, EntriesStand
    <2> QED
      BY <1>0, <2>1 DEF Entries, NamesAccounts, Whole
  <1> HIDE DEF e
  <1>3. EntriesStand' /\ EditsStand' /\ TransfersStayWhole'
    BY <1>1, <1>2, RowWritten
  <1>4. BookTypes'
    BY <1>1, <1>2, BookAssumption DEF DeleteEntry, Begin, CountCall, BookInv, BookTypes
  <1>5. DefaultsStand'
    BY <1>1 DEF BookInv, DefaultsStand, Defaults, Exists
  <1> QED
    BY <1>3, <1>4, <1>5 DEF BookInv

\* The rates and the day say nothing of accounts, rows and calls.
LEMMA RatesApart ==
  ASSUME BookInv, UNCHANGED <<account, entry, client>>, BookTypes'
  PROVE  BookInv'
  <1>1. EntriesStand' /\ EditsStand' /\ TransfersStayWhole'
    BY AccountsUntouched, RowsStay
  <1>2. DefaultsStand'
    BY DEF BookInv, DefaultsStand, Defaults, Exists
  <1> QED
    BY <1>1, <1>2 DEF BookInv

LEMMA RatesInv ==
  ASSUME BookInv,
         \/ IngestStart
         \/ \E base \in Currencies, quoted \in RateValues \cup {0} : IngestBase(base, quoted)
         \/ DayPasses
  PROVE  BookInv'
  <1>1. CASE IngestStart
    <2>1. BookTypes'
      BY <1>1, BookAssumption DEF IngestStart, CountCall, BookInv, BookTypes
    <2> QED
      BY <1>1, <2>1, RatesApart DEF IngestStart
  <1>2. ASSUME NEW base \in Currencies, NEW quoted \in RateValues \cup {0},
               IngestBase(base, quoted)
        PROVE  BookInv'
    <2>1. fx' \in [Pairs -> [Days -> RateValues \cup {0}]]
      BY <1>2 DEF IngestBase, BookInv, BookTypes
    <2>2. ingest' \in [todo : SUBSET Currencies, asOf : Days]
      BY <1>2 DEF IngestBase, BookInv, BookTypes
    <2>3. BookTypes'
      BY <1>2, <2>1, <2>2 DEF IngestBase, BookInv, BookTypes
    <2> QED
      BY <1>2, <2>3, RatesApart DEF IngestBase
  <1>3. CASE DayPasses
    <2>1. today' \in Days
      BY <1>3, BookAssumption DEF DayPasses, BookInv, BookTypes, Days
    <2>2. BookTypes'
      BY <1>3, <2>1 DEF DayPasses, BookInv, BookTypes
    <2> QED
      BY <1>3, <2>2, RatesApart DEF DayPasses
  <1> QED
    BY <1>1, <1>2, <1>3

LEMMA BookInvStep == BookInv /\ [BookNext]_bookVars => BookInv'
  <1> SUFFICES ASSUME BookInv, [BookNext]_bookVars PROVE BookInv'
    OBVIOUS
  <1>1. CASE BookNext
    BY <1>1, CreateAccountInv, ArchiveAccountInv, FindDefaultInv, InsertDefaultInv,
       RereadDefaultInv, EditWriteInv, CreateEntryInv, CreateTransferInv, EditStartInv,
       DeleteEntryInv, RatesInv DEF BookNext
  <1>2. CASE UNCHANGED bookVars
    <2>1. BookTypes'
      BY <1>2 DEF bookVars, BookInv, BookTypes
    <2> QED
      BY <1>2, <2>1, RatesApart DEF bookVars
  <1> QED
    BY <1>1, <1>2

(***************************************************************************)
(* Rates and totals.                                                       *)
(***************************************************************************)
\* The day FindRate takes the rate of.
LEMMA LatestRated ==
  ASSUME BookTypes, NEW p, NEW day, RatedDays(p, day) # {}
  PROVE  Max(RatedDays(p, day)) \in RatedDays(p, day)
  <1> DEFINE rated == RatedDays(p, day)
  <1>1. rated \subseteq Nat /\ IsFiniteSet(rated)
    <2>1. IsFiniteSet(1..LastDay) /\ rated \subseteq 1..LastDay /\ LastDay \in Nat
      BY FS_Interval, BookAssumption DEF RatedDays, Days
    <2> QED
      BY <2>1, FS_Subset
  <1>2. \E n \in rated : \A m \in rated : m <= n
    <2> HIDE DEF rated
    <2>1. rated # {}
      BY DEF rated
    <2> QED
      BY <1>1, <2>1, GreatestNatural
  <1>3. \E n \in rated : \A m \in rated : n >= m
    <2> HIDE DEF rated
    <2> QED
      BY <1>1, <1>2
  <1> QED
    BY <1>3 DEF Max

LEMMA RateType ==
  ASSUME BookTypes, NEW base \in Currencies, NEW quote \in Currencies, NEW day
  PROVE  FindRate(base, quote, day) \in Nat
  <1>1. CASE base = quote \/ RatedDays(<<base, quote>>, day) = {}
    BY <1>1 DEF FindRate
  <1>2. CASE base # quote /\ RatedDays(<<base, quote>>, day) # {}
    <2>1. <<base, quote>> \in Pairs
      BY <1>2 DEF Pairs
    <2>2. Max(RatedDays(<<base, quote>>, day)) \in Days
      BY <1>2, LatestRated DEF RatedDays
    <2>3. fx[<<base, quote>>][Max(RatedDays(<<base, quote>>, day))] \in RateValues \cup {0}
      BY <2>1, <2>2 DEF BookTypes
    <2>4. FindRate(base, quote, day) = fx[<<base, quote>>][Max(RatedDays(<<base, quote>>, day))]
      BY <1>2 DEF FindRate
    <2>5. \A v \in RateValues \cup {0} : v \in Nat
      BY BookAssumption
    <2> QED
      BY <2>3, <2>4, <2>5
  <1> QED
    BY <1>1, <1>2

\* No currency has had two rates.
SteadyRates == \A p \in Pairs : Cardinality({fx[p][d] : d \in Days} \ {0}) <= 1

\* Then the rate of any day on which there is one is the same.
LEMMA SteadyRate ==
  ASSUME BookTypes, SteadyRates, NEW base \in Currencies, NEW quote \in Currencies,
         NEW day, NEW later, FindRate(base, quote, day) # 0, FindRate(base, quote, later) # 0
  PROVE  FindRate(base, quote, day) = FindRate(base, quote, later)
  <1>1. CASE base = quote
    BY <1>1 DEF FindRate
  <1>2. CASE base # quote
    <2> DEFINE p == <<base, quote>>
               rates == {fx[p][d] : d \in Days} \ {0}
    <2>1. RatedDays(p, day) # {} /\ RatedDays(p, later) # {}
      BY <1>2 DEF FindRate
    <2>2. /\ FindRate(base, quote, day) = fx[p][Max(RatedDays(p, day))]
          /\ FindRate(base, quote, later) = fx[p][Max(RatedDays(p, later))]
      BY <1>2, <2>1 DEF FindRate
    <2>3. FindRate(base, quote, day) \in rates /\ FindRate(base, quote, later) \in rates
      <3>1. Max(RatedDays(p, day)) \in Days /\ Max(RatedDays(p, later)) \in Days
        BY <2>1, LatestRated DEF RatedDays
      <3> QED
        BY <2>2, <3>1
    <2>4. IsFiniteSet(rates) /\ Cardinality(rates) <= 1
      <3>1. IsFiniteSet(Days)
        BY FS_Interval, BookAssumption DEF Days
      <3>2. IsFiniteSet({fx[p][d] : d \in Days})
        <4> DEFINE all == {fx[p][d] : d \in Days}
        <4>1. p \in Pairs /\ fx[p] \in [Days -> RateValues \cup {0}]
          BY <1>2 DEF Pairs, BookTypes
        <4>2. fx[p] \in Surjection(Days, all)
          BY <4>1 DEF Surjection
        <4> HIDE DEF all
        <4>3. IsFiniteSet(all)
          BY <3>1, <4>2, FS_Surjection
        <4> QED
          BY <4>3 DEF all
      <3>3. p \in Pairs
        BY <1>2 DEF Pairs
      <3> QED
        BY <3>2, <3>3, FS_Subset DEF SteadyRates
    <2> HIDE DEF rates
    <2>5. ASSUME FindRate(base, quote, day) # FindRate(base, quote, later) PROVE FALSE
      <3> DEFINE two == {FindRate(base, quote, day), FindRate(base, quote, later)}
      <3>1. two \subseteq rates
        BY <2>3
      <3>2. IsFiniteSet(two) /\ Cardinality(two) = 2
        <4>1. \A x, y : x # y => IsFiniteSet({x, y}) /\ Cardinality({x, y}) = 2
          <5> TAKE x, y
          <5> HAVE x # y
          <5>1. IsFiniteSet({x}) /\ Cardinality({x}) = 1 /\ {x} \cup {y} = {x, y}
            BY FS_Singleton
          <5> QED
            BY <5>1, FS_AddElement
        <4> QED
          BY <2>5, <4>1
      <3>3. Cardinality(two) <= Cardinality(rates)
        BY <2>4, <3>1, FS_Subset
      <3>4. Cardinality(rates) \in Nat
        BY <2>4, FS_CardinalityType
      <3> QED
        BY <2>4, <3>2, <3>3, <3>4
    <2> QED
      BY <2>5
  <1> QED
    BY <1>1, <1>2

\* What there is to add up as of a day: accounts, rows, and what a row does to
\* an account's share of the net worth and to the cash flow.
Own == {a \in Accounts : Exists(a)}
Moved(day) == {r \in Rows : entry[r].state = "live" /\ entry[r].day <= day}
HomeRate(a, day) == FindRate(account[a].currency, HomeCurrency, day)
Share(a, r, day) ==
  IF r \in Attributed(a, day) THEN Movement(a, r)[2] * HomeRate(a, day) ELSE 0

ArrivalRate(r) == FindRate(account[entry[r].to].currency, HomeCurrency, entry[r].day)
Arrival(r) == IF entry[r].destinationAmount = NoAmount THEN entry[r].amount
              ELSE entry[r].destinationAmount
Earned(r) == (IF entry[r].kind = "INCOME" THEN 1 ELSE -1) * entry[r].amount * Converted(r)
Gained(r) == Arrival(r) * ArrivalRate(r) - entry[r].amount * Converted(r)
Flow(r) == IF entry[r].kind = "TRANSFER" THEN Gained(r) ELSE Earned(r)

LEMMA FiniteBooks ==
  ASSUME NEW day
  PROVE  /\ IsFiniteSet(Own) /\ Own \subseteq Accounts
         /\ IsFiniteSet(Moved(day)) /\ Moved(day) \subseteq Rows
         /\ \A a : IsFiniteSet(Attributed(a, day)) /\ Attributed(a, day) \subseteq Moved(day)
  <1>1. Own \subseteq Accounts /\ Moved(day) \subseteq Rows
    BY DEF Own, Moved
  <1>2. IsFiniteSet(Own) /\ IsFiniteSet(Moved(day))
    BY <1>1, BookAssumption, FS_Subset
  <1>3. \A a : Attributed(a, day) \subseteq Moved(day)
    BY DEF Attributed, Moved
  <1>4. \A a : IsFiniteSet(Attributed(a, day))
    BY <1>2, <1>3, FS_Subset
  <1> QED
    BY <1>1, <1>2, <1>3, <1>4

LEMMA AmountType ==
  ASSUME BookTypes, NEW r \in Rows
  PROVE  /\ entry[r].amount \in Nat /\ entry[r].destinationAmount \in Nat
         /\ entry[r].kind \in {"EXPENSE", "INCOME", "TRANSFER"}
  <1>1. \A i \in EntryAmounts : i \in Nat
    BY BookAssumption
  <1>2. entry[r] \in Entries
    BY DEF BookTypes
  <1> QED
    BY <1>1, <1>2 DEF Entries, NoAmount

LEMMA HomeRateType ==
  ASSUME BookTypes, NEW a \in Accounts, NEW day
  PROVE  HomeRate(a, day) \in Nat
  BY RateType, BookAssumption DEF BookTypes, AccountRows, HomeRate

LEMMA MovementType ==
  ASSUME BookTypes, NEW a \in Accounts, NEW r \in Rows, NEW day
  PROVE  Movement(a, r)[2] \in Int /\ Share(a, r, day) \in Int
  <1> DEFINE rate == FindRate(entry[r].currency, account[a].currency, entry[r].day)
  <1>1. rate \in Nat /\ HomeRate(a, day) \in Nat
    BY RateType, HomeRateType DEF BookTypes, AccountRows, Entries
  <1>2. /\ entry[r].amount \in Nat /\ entry[r].destinationAmount \in Nat
        /\ entry[r].kind \in {"EXPENSE", "INCOME", "TRANSFER"}
    BY AmountType
  <1>3. Movement(a, r)[2] \in Int
    <2>1. entry[r].amount * rate \in Int
      BY <1>1, <1>2
    <2> HIDE DEF rate
    <2> QED
      BY <1>2, <2>1 DEF Movement, rate
  <1>4. Movement(a, r)[2] * HomeRate(a, day) \in Int
    BY <1>1, <1>3
  <1> QED
    BY <1>1, <1>3, <1>4 DEF Share

LEMMA FlowType ==
  ASSUME BookTypes, NEW r \in Rows
  PROVE  /\ Earned(r) \in Int
         /\ entry[r].to \in Accounts => Gained(r) \in Int
  <1>1. Converted(r) \in Nat
    BY RateType, BookAssumption DEF BookTypes, Entries, Converted
  <1>2. entry[r].amount \in Nat /\ entry[r].destinationAmount \in Nat
    BY AmountType
  <1>3. Earned(r) \in Int
    <2>1. \A sign \in {1, -1}, i, j \in Nat : sign * i * j \in Int
      OBVIOUS
    <2>2. (IF entry[r].kind = "INCOME" THEN 1 ELSE -1) \in {1, -1}
      OBVIOUS
    <2> QED
      BY <1>1, <1>2, <2>1, <2>2 DEF Earned
  <1>4. entry[r].to \in Accounts => Gained(r) \in Int
    <2> SUFFICES ASSUME entry[r].to \in Accounts PROVE Gained(r) \in Int
      OBVIOUS
    <2>1. ArrivalRate(r) \in Nat
      BY RateType, BookAssumption DEF BookTypes, AccountRows, ArrivalRate
    <2>2. Arrival(r) \in Nat
      BY <1>2 DEF Arrival
    <2>3. \A i, j, k, l \in Nat : i * j - k * l \in Int
      OBVIOUS
    <2> QED
      BY <1>1, <1>2, <2>1, <2>2, <2>3 DEF Gained
  <1> QED
    BY <1>3, <1>4

\* What an account has, in the home currency, is its shares of the rows.
LEMMA BalanceIsShares ==
  ASSUME BookTypes, NEW a \in Accounts, NEW day, Balance(a, day)[1]
  PROVE  /\ Balance(a, day)[2] \in Int
         /\ Balance(a, day)[2] * HomeRate(a, day)
              = SumFunctionOnSet([r \in Moved(day) |-> Share(a, r, day)], Moved(day))
  <1> DEFINE rows == Attributed(a, day)
             moved == [r \in rows |-> Movement(a, r)[2]]
             shares == [r \in Moved(day) |-> Share(a, r, day)]
             rate == HomeRate(a, day)
  <1>1. IsFiniteSet(rows) /\ rows \subseteq Moved(day) /\ IsFiniteSet(Moved(day))
        /\ Moved(day) \subseteq Rows
    BY FiniteBooks
  <1>2. rate \in Int /\ \A r \in Rows : Movement(a, r)[2] \in Int /\ Share(a, r, day) \in Int
    BY HomeRateType, MovementType
  <1>3. Balance(a, day)[2] = SumFunctionOnSet(moved, rows)
    <2>1. Balance(a, day) = <<TRUE, SumFunction(moved)>>
      BY DEF Balance
    <2>2. DOMAIN moved = rows
      OBVIOUS
    <2> HIDE DEF moved
    <2> QED
      BY <2>1, <2>2 DEF SumFunction
  <1>4. /\ \A r \in rows : moved[r] \in Int /\ shares[r] = moved[r] * rate
        /\ \A r \in Moved(day) : shares[r] \in Int
        /\ \A r \in Moved(day) \ rows : shares[r] = 0
    BY <1>1, <1>2 DEF Share
  <1> HIDE DEF moved, shares, rate, rows
  <1>5. SumFunctionOnSet(shares, rows) = SumFunctionOnSet(moved, rows) * rate
    BY <1>1, <1>2, <1>4, SumTimes
  <1>6. SumFunctionOnSet(shares, Moved(day)) = SumFunctionOnSet(shares, rows)
    BY <1>1, <1>4, SumOfPart
  <1>7. SumFunctionOnSet(moved, rows) \in Int
    BY <1>1, <1>4, SumType
  <1> QED
    BY <1>3, <1>5, <1>6, <1>7 DEF rate, shares

\* Net worth adds these up over the accounts there are.
LEMMA WorthIsBalances ==
  ASSUME NEW day, NetWorth(day)[1]
  PROVE  /\ \A a \in Own : Balance(a, day)[1] /\ HomeRate(a, day) # 0
         /\ NetWorth(day)[2]
              = SumFunctionOnSet([a \in Own |-> Balance(a, day)[2] * HomeRate(a, day)], Own)
  <1> DEFINE worth == [a \in Own |-> Balance(a, day)[2] * HomeRate(a, day)]
  <1>1. \A a \in Own : Balance(a, day)[1] /\ HomeRate(a, day) # 0
    BY DEF NetWorth, Own, HomeRate
  <1>2. NetWorth(day) = <<TRUE, SumFunction(worth)>>
    BY <1>1 DEF NetWorth, Own, HomeRate
  <1>3. DOMAIN worth = Own
    OBVIOUS
  <1> HIDE DEF worth
  <1>4. NetWorth(day)[2] = SumFunctionOnSet(worth, Own)
    BY <1>2, <1>3 DEF SumFunction
  <1> QED
    BY <1>1, <1>4 DEF worth

\* What one row does to the accounts it names, it does to the cash flow.
LEMMA RowIsShares ==
  ASSUME BookTypes, EntriesStand, SteadyRates, NEW day, NEW r \in Moved(day), InOwnCurrency(r),
         \A a \in Own : HomeRate(a, day) # 0,
         Converted(r) # 0, entry[r].kind = "TRANSFER" => ArrivalRate(r) # 0
  PROVE  SumFunctionOnSet([a \in Own |-> Share(a, r, day)], Own) = Flow(r)
  <1> DEFINE e == entry[r]
             shares == [a \in Own |-> Share(a, r, day)]
  <1>1. /\ r \in Rows /\ e \in Entries /\ NamesAccounts(e)
        /\ e.state = "live" /\ e.day <= day
    BY DEF Moved, BookTypes, EntriesStand
  <1>2. e.amount \in Nat /\ e.destinationAmount \in Nat
    BY <1>1, AmountType
  <1>3. IsFiniteSet(Own) /\ Own \subseteq Accounts
    BY FiniteBooks
  <1>4. \A a \in Own : shares[a] \in Int
    BY <1>1, <1>3, MovementType
  <1>5. \A a \in Own : a \notin {e.from, e.to} => shares[a] = 0
    BY DEF Share, Attributed
  <1>6. \A a \in Own : a \in {e.from, e.to} => shares[a] = Movement(a, r)[2] * HomeRate(a, day)
    BY <1>1 DEF Share, Attributed
  <1>7. \A a \in Own : account[a].currency \in Currencies
    BY <1>3 DEF BookTypes, AccountRows
  <1>8. ASSUME NEW a \in Own, e.currency = account[a].currency
        PROVE  HomeRate(a, day) = Converted(r)
    BY <1>7, <1>8, SteadyRate, BookAssumption DEF HomeRate, Converted
  <1> HIDE DEF shares
  <1>9. CASE e.kind # "TRANSFER"
    <2> DEFINE a == IF e.kind = "EXPENSE" THEN e.from ELSE e.to
    <2>1. e.kind \in {"EXPENSE", "INCOME"}
      BY <1>1, <1>9 DEF Entries
    <2>2. /\ a \in Own /\ e.currency = account[a].currency
          /\ {e.from, e.to} = {a, NoAccount}
      BY <1>1, <2>1, BookAssumption DEF NamesAccounts, Own, Exists, InOwnCurrency
    <2>3. \A b \in Own \ {a} : shares[b] = 0
      BY <1>3, <1>5, <2>2, BookAssumption
    <2>4. SumFunctionOnSet(shares, Own) = shares[a]
      <3>1. shares[a] \in Int /\ {a} \subseteq Own
        BY <1>4, <2>2
      <3> HIDE DEF a
      <3>2. SumFunctionOnSet(shares, Own) = SumFunctionOnSet(shares, {a})
        BY <1>3, <1>4, <2>3, <3>1, SumOfPart
      <3> QED
        BY <3>1, <3>2, SumOfOne
    <2>5. Movement(a, r)[2] = (IF e.kind = "INCOME" THEN 1 ELSE -1) * e.amount
      <3>1. FindRate(e.currency, account[a].currency, e.day) = 1
        BY <2>2 DEF FindRate
      <3> HIDE DEF a
      <3> DEFINE rate == FindRate(e.currency, account[a].currency, e.day)
      <3>2. Movement(a, r) = <<rate # 0, IF e.kind = "INCOME" THEN e.amount * rate
                                         ELSE - e.amount * rate>>
        BY <1>9 DEF Movement
      <3>3. Movement(a, r)[2] = IF e.kind = "INCOME" THEN e.amount * rate ELSE - e.amount * rate
        BY <3>2
      <3> QED
        BY <1>2, <3>1, <3>3
    <2>6. shares[a] = Movement(a, r)[2] * Converted(r)
      BY <1>6, <1>8, <2>2
    <2>7. shares[a] = Earned(r)
      <3> HIDE DEF a
      <3> QED
        BY <2>5, <2>6 DEF Earned
    <2> QED
      BY <1>9, <2>4, <2>7 DEF Flow, shares
  <1>10. CASE e.kind = "TRANSFER"
    <2>1. /\ e.from \in Own /\ e.to \in Own /\ e.from # e.to
          /\ e.currency = account[e.from].currency
      BY <1>1, <1>10, BookAssumption DEF NamesAccounts, Own, Exists, InOwnCurrency
    <2>2. SumFunctionOnSet(shares, Own) = shares[e.to] + shares[e.from]
      <3>1. /\ shares[e.to] \in Int /\ shares[e.from] \in Int /\ {e.to, e.from} \subseteq Own
        BY <1>4, <2>1
      <3>2. \A b \in Own \ {e.to, e.from} : shares[b] = 0
        BY <1>5
      <3>3. SumFunctionOnSet(shares, Own) = SumFunctionOnSet(shares, {e.to, e.from})
        BY <1>3, <1>4, <3>1, <3>2, SumOfPart
      <3> QED
        BY <2>1, <3>1, <3>3, SumOfTwo
    <2>3. Movement(e.to, r)[2] = Arrival(r) /\ Movement(e.from, r)[2] = - e.amount
      BY <1>10, <2>1 DEF Movement, Arrival
    <2>4. HomeRate(e.to, day) = ArrivalRate(r)
      BY <1>7, <1>10, <2>1, SteadyRate, BookAssumption DEF HomeRate, ArrivalRate
    <2>5. HomeRate(e.from, day) = Converted(r)
      BY <1>8, <2>1
    <2>6. shares[e.to] = Arrival(r) * ArrivalRate(r) /\ shares[e.from] = (- e.amount) * Converted(r)
      BY <1>6, <2>1, <2>3, <2>4, <2>5
    <2>7. shares[e.to] + shares[e.from] = Gained(r)
      <3>1. Arrival(r) \in Nat /\ ArrivalRate(r) \in Nat /\ Converted(r) \in Nat
        BY <1>2, <1>3, <2>1, <2>4, <2>5, HomeRateType DEF Arrival
      <3>2. \A i, j, k, l \in Nat : i * j + (- k) * l = i * j - k * l
        OBVIOUS
      <3>3. shares[e.to] + shares[e.from] = Arrival(r) * ArrivalRate(r) - e.amount * Converted(r)
        BY <1>2, <2>6, <3>1, <3>2
      <3> QED
        BY <3>3 DEF Gained
    <2> QED
      BY <1>10, <2>2, <2>7 DEF Flow, shares
  <1> QED
    BY <1>9, <1>10

\* The cash flow since the first day adds up what the rows do to it.
LEMMA FlowIsRows ==
  ASSUME BookTypes, EntriesStand, NEW day \in Days,
         CashFlow([start |-> 1, end |-> day + 1])[1]
  PROVE  /\ \A r \in Moved(day) :
              Converted(r) # 0 /\ (entry[r].kind = "TRANSFER" => ArrivalRate(r) # 0)
         /\ CashFlow([start |-> 1, end |-> day + 1])[2]
              = SumFunctionOnSet([r \in Moved(day) |-> Flow(r)], Moved(day))
  <1> DEFINE all == Moved(day)
             transfers == {r \in all : entry[r].kind = "TRANSFER"}
             others == all \ transfers
             earned == [r \in others |-> Earned(r)]
             gained == [r \in transfers |-> Gained(r)]
             flow == [r \in all |-> Flow(r)]
             flowEarned == [r \in all |-> IF r \in others THEN Earned(r) ELSE 0]
             flowGained == [r \in all |-> IF r \in transfers THEN Gained(r) ELSE 0]
  <1>0. /\ IsFiniteSet(all) /\ all \subseteq Rows
        /\ IsFiniteSet(transfers) /\ IsFiniteSet(others)
        /\ transfers \subseteq all /\ others \subseteq all
    <2>1. IsFiniteSet(all) /\ all \subseteq Rows
      BY FiniteBooks
    <2>2. transfers \subseteq all /\ others \subseteq all
      OBVIOUS
    <2> QED
      BY <2>1, <2>2, FS_Subset
  <1>1. day + 1 - 1 = day /\ day \in Nat
    BY BookAssumption DEF Days
  <1>2. CashFlow([start |-> 1, end |-> day + 1]) = FullCashFlow(1, day)
    BY <1>1 DEF CashFlow
  <1>3. FlowRows({"TRANSFER"}, 1, day) = transfers /\ FlowRows({"EXPENSE", "INCOME"}, 1, day) = others
    <2>1. \A r \in Rows : /\ entry[r].day \in Nat /\ 1 <= entry[r].day
                          /\ entry[r].kind \in {"EXPENSE", "INCOME", "TRANSFER"}
      BY BookAssumption DEF BookTypes, Entries, Days
    <2>2. \A r \in Rows : entry[r].day \in 1..day <=> entry[r].day <= day
      BY <1>1, <2>1
    <2> QED
      BY <2>1, <2>2 DEF FlowRows, Moved
  <1>4. NetCashFlow(1, day)[1] /\ TransferTerm(1, day)[1]
    <2>1. FullCashFlow(1, day)[1]
      BY <1>2
    <2> QED
      BY <2>1 DEF FullCashFlow
  <1>5. CashFlow([start |-> 1, end |-> day + 1])[2] = NetCashFlow(1, day)[2] + TransferTerm(1, day)[2]
    BY <1>2, <1>4 DEF FullCashFlow
  <1>6. \A r \in others : Converted(r) # 0
    BY <1>3, <1>4 DEF NetCashFlow
  <1>7. \A r \in transfers : Converted(r) # 0 /\ ArrivalRate(r) # 0
    BY <1>3, <1>4 DEF TransferTerm, ArrivalRate
  <1>8. NetCashFlow(1, day)[2] = SumFunctionOnSet(earned, others)
    <2>1. NetCashFlow(1, day) = <<TRUE, SumFunction(earned)>>
      BY <1>3, <1>6 DEF NetCashFlow, Earned
    <2>2. DOMAIN earned = others
      OBVIOUS
    <2> HIDE DEF earned, others
    <2> QED
      BY <2>1, <2>2 DEF SumFunction
  <1>9. TransferTerm(1, day)[2] = SumFunctionOnSet(gained, transfers)
    <2>1. TransferTerm(1, day) = <<TRUE, SumFunction(gained)>>
      BY <1>3, <1>7 DEF TransferTerm, Gained, Arrival, ArrivalRate
    <2>2. DOMAIN gained = transfers
      OBVIOUS
    <2> HIDE DEF gained, transfers
    <2> QED
      BY <2>1, <2>2 DEF SumFunction
  <1>10. \A r \in all : Earned(r) \in Int /\ (r \in transfers => Gained(r) \in Int)
    <2>1. \A r \in transfers : entry[r].to \in Accounts
      BY <1>0 DEF EntriesStand, NamesAccounts, Exists, Moved
    <2> QED
      BY <1>0, <2>1, FlowType
  <1>11. /\ \A r \in all : /\ flowEarned[r] \in Int /\ flowGained[r] \in Int
                           /\ flow[r] = flowEarned[r] + flowGained[r]
         /\ \A r \in all \ others : flowEarned[r] = 0
         /\ \A r \in all \ transfers : flowGained[r] = 0
         /\ \A r \in others : flowEarned[r] = earned[r]
         /\ \A r \in transfers : flowGained[r] = gained[r]
    BY <1>10 DEF Flow
  <1> HIDE DEF earned, gained, flow, flowEarned, flowGained, transfers, others, all
  <1>12. SumFunctionOnSet(flow, all)
           = SumFunctionOnSet(flowEarned, all) + SumFunctionOnSet(flowGained, all)
    BY <1>0, <1>11, SumPlus
  <1>13. SumFunctionOnSet(flowEarned, all) = SumFunctionOnSet(earned, others)
    <2>1. SumFunctionOnSet(flowEarned, all) = SumFunctionOnSet(flowEarned, others)
      BY <1>0, <1>11, SumOfPart
    <2>2. SumFunctionOnSet(flowEarned, others) = SumFunctionOnSet(earned, others)
      BY <1>0, <1>11, SumOfSame
    <2> QED
      BY <2>1, <2>2
  <1>14. SumFunctionOnSet(flowGained, all) = SumFunctionOnSet(gained, transfers)
    <2>1. SumFunctionOnSet(flowGained, all) = SumFunctionOnSet(flowGained, transfers)
      BY <1>0, <1>11, SumOfPart
    <2>2. SumFunctionOnSet(flowGained, transfers) = SumFunctionOnSet(gained, transfers)
      BY <1>0, <1>11, SumOfSame
    <2> QED
      BY <2>1, <2>2
  <1>15. CashFlow([start |-> 1, end |-> day + 1])[2] = SumFunctionOnSet(flow, all)
    BY <1>5, <1>8, <1>9, <1>12, <1>13, <1>14
  <1>16. \A r \in all : Converted(r) # 0 /\ (entry[r].kind = "TRANSFER" => ArrivalRate(r) # 0)
    BY <1>6, <1>7 DEF others, transfers
  <1> QED
    BY <1>15, <1>16 DEF flow, all

\* Row by row and account by account, it is the same table that is added up.
LEMMA WorthIsFlow ==
  ASSUME BookInv
  PROVE  WorthIsWhatFlowedIn
  <1> SUFFICES ASSUME NEW day \in 1..today,
                      NetWorth(day)[1], CashFlow([start |-> 1, end |-> day + 1])[1], SteadyRates,
                      \A r \in Rows : entry[r].state = "live" => InOwnCurrency(r)
               PROVE  NetWorth(day)[2] = CashFlow([start |-> 1, end |-> day + 1])[2]
    BY DEF WorthIsWhatFlowedIn, SteadyRates
  <1> DEFINE row == [a \in Own |-> [r \in Moved(day) |-> Share(a, r, day)]]
             column == [r \in Moved(day) |-> [a \in Own |-> Share(a, r, day)]]
             worth == [a \in Own |-> Balance(a, day)[2] * HomeRate(a, day)]
             flow == [r \in Moved(day) |-> Flow(r)]
  <1>1. BookTypes /\ EntriesStand /\ day \in Days
    BY BookAssumption DEF BookInv, BookTypes, Days
  <1>2. /\ IsFiniteSet(Own) /\ Own \subseteq Accounts
        /\ IsFiniteSet(Moved(day)) /\ Moved(day) \subseteq Rows
    BY FiniteBooks
  <1>3. \A a \in Own : \A r \in Moved(day) : Share(a, r, day) \in Int
    BY <1>1, <1>2, MovementType
  <1>4. row \in [Own -> [Moved(day) -> Int]] /\ column \in [Moved(day) -> [Own -> Int]]
    BY <1>3
  <1>5. \A a \in Own : \A r \in Moved(day) : column[r][a] = row[a][r]
    OBVIOUS
  <1>6. /\ \A a \in Own : Balance(a, day)[1] /\ HomeRate(a, day) # 0
        /\ NetWorth(day)[2] = SumFunctionOnSet(worth, Own)
    BY WorthIsBalances
  <1>7. RowSums(worth, row, Own, Moved(day))
    <2> SUFFICES ASSUME NEW a \in Own
                 PROVE  worth[a] = SumFunctionOnSet(row[a], Moved(day))
      BY DEF RowSums
    <2>1. Balance(a, day)[2] * HomeRate(a, day)
            = SumFunctionOnSet([r \in Moved(day) |-> Share(a, r, day)], Moved(day))
      BY <1>1, <1>2, <1>6, BalanceIsShares
    <2> QED
      BY <2>1
  <1>8. /\ \A r \in Moved(day) :
              Converted(r) # 0 /\ (entry[r].kind = "TRANSFER" => ArrivalRate(r) # 0)
        /\ CashFlow([start |-> 1, end |-> day + 1])[2] = SumFunctionOnSet(flow, Moved(day))
    BY <1>1, FlowIsRows
  <1>9. RowSums(flow, column, Moved(day), Own)
    <2> SUFFICES ASSUME NEW r \in Moved(day)
                 PROVE  flow[r] = SumFunctionOnSet(column[r], Own)
      BY DEF RowSums
    <2>1. InOwnCurrency(r)
      BY DEF Moved
    <2>2. SumFunctionOnSet([a \in Own |-> Share(a, r, day)], Own) = Flow(r)
      BY <1>1, <1>6, <1>8, <2>1, RowIsShares
    <2> QED
      BY <2>2
  <1> HIDE DEF row, column, worth, flow
  <1>10. SumFunctionOnSet(worth, Own) = SumFunctionOnSet(flow, Moved(day))
    <2>1. \A x \in [Own -> [Moved(day) -> Int]], y \in [Moved(day) -> [Own -> Int]] :
            (\A a \in Own : \A r \in Moved(day) : y[r][a] = x[a][r]) =>
              \A f : RowSums(f, x, Own, Moved(day)) =>
                \A g : RowSums(g, y, Moved(day), Own) =>
                  SumFunctionOnSet(f, Own) = SumFunctionOnSet(g, Moved(day))
      BY <1>2, SumsSwap, Zenon
    <2>2. \A f : RowSums(f, row, Own, Moved(day)) =>
            \A g : RowSums(g, column, Moved(day), Own) =>
              SumFunctionOnSet(f, Own) = SumFunctionOnSet(g, Moved(day))
      BY <1>4, <1>5, <2>1
    <2> QED
      BY <1>7, <1>9, <2>2
  <1> QED
    BY <1>6, <1>8, <1>10

(***************************************************************************)
(* The results.                                                            *)
(***************************************************************************)
\* In every reachable state a currency has one default account, the rows name
\* accounts that are there, edits under way were allowed, and transfers are
\* whole.
THEOREM BookStands == BookSpec => []BookInv
  <1>1. BookInit => BookInv
    BY BookInvInit
  <1>2. BookInv /\ [BookNext]_bookVars => BookInv'
    BY BookInvStep
  <1> QED
    BY <1>1, <1>2, PTL DEF BookSpec

\* A set none of whose elements differ has one at most.
LEMMA AtMostOne ==
  ASSUME NEW S, \A x, y \in S : x = y
  PROVE  Cardinality(S) <= 1
  <1>1. CASE S = {}
    BY <1>1, FS_EmptySet
  <1>2. CASE S # {}
    <2>1. PICK x \in S : TRUE
      BY <1>2
    <2>2. S = {x}
      BY <2>1
    <2> QED
      BY <2>2, FS_Singleton
  <1> QED
    BY <1>1, <1>2

\* A currency has one default account, the amounts of a transfer change
\* together, and net worth is what flowed in.
THEOREM AccountsHold == BookSpec => []AccountsHoldTogether
  <1>1. BookInv => AccountsHoldTogether
    <2> SUFFICES ASSUME BookInv PROVE AccountsHoldTogether
      OBVIOUS
    <2>1. OneDefaultPerCurrency
      BY AtMostOne DEF BookInv, DefaultsStand, OneDefaultPerCurrency
    <2>2. TransfersStayWhole
      BY DEF BookInv
    <2>3. WorthIsWhatFlowedIn
      BY WorthIsFlow
    <2> QED
      BY <2>1, <2>2, <2>3 DEF AccountsHoldTogether
  <1> QED
    BY <1>1, BookStands, PTL

\* Rates of later days say nothing of a day that is over.
LEMMA RatesOfTheDayStay ==
  ASSUME BookTypes, BookNext, NEW day \in Days, ~ (ingest.todo # {} /\ ingest.asOf <= day)
  PROVE  \A p \in Pairs : \A d \in Days : d <= day => fx'[p][d] = fx[p][d]
  <1>1. CASE UNCHANGED fx
    BY <1>1
  <1>2. ASSUME NEW base \in Currencies, NEW quoted \in RateValues \cup {0},
               IngestBase(base, quoted), NEW p \in Pairs, NEW d \in Days, d <= day
        PROVE  fx'[p][d] = fx[p][d]
    <2>1. ~(ingest.asOf <= day) /\ ingest.asOf \in Days /\ fx[p] \in [Days -> RateValues \cup {0}]
      BY <1>2 DEF IngestBase, BookTypes
    <2>2. d # ingest.asOf
      BY <1>2, <2>1
    <2> QED
      BY <1>2, <2>1, <2>2 DEF IngestBase
  <1>3. \/ UNCHANGED fx
        \/ \E base \in Currencies, quoted \in RateValues \cup {0} : IngestBase(base, quoted)
    <2>1. /\ \A c, a, cur : CreateAccount(c, a, cur) => UNCHANGED fx
          /\ \A c, a : ArchiveAccount(c, a) => UNCHANGED fx
          /\ \A c, cur : FindDefault(c, cur) => UNCHANGED fx
          /\ \A c, a, fails : InsertDefault(c, a, fails) => UNCHANGED fx
          /\ \A c : RereadDefault(c) \/ EditWrite(c) => UNCHANGED fx
      BY DEF CreateAccount, ArchiveAccount, FindDefault, InsertDefault, RereadDefault, EditWrite
    <2>2. \A c, r, a, kind, amount, cur, on :
            CreateEntry(c, r, kind, a, amount, cur, on) => UNCHANGED fx
      BY DEF CreateEntry
    <2>3. \A c, r, from, to, amount, typed, on :
            CreateTransfer(c, r, from, to, amount, typed, on) => UNCHANGED fx
      BY DEF CreateTransfer
    <2>4. \A c, r, edit, amount : EditStart(c, r, edit, amount) => UNCHANGED fx
      BY DEF EditStart
    <2>5. /\ \A c, r : DeleteEntry(c, r) => UNCHANGED fx
          /\ IngestStart \/ DayPasses => UNCHANGED fx
      BY DEF DeleteEntry, IngestStart, DayPasses
    <2> QED
      BY <2>1, <2>2, <2>3, <2>4, <2>5 DEF BookNext
  <1> QED
    BY <1>1, <1>2, <1>3

\* Nor do they change what is looked up for it.
LEMMA LookupsStay ==
  ASSUME BookTypes, NEW day, \A p \in Pairs : \A d \in Days : d <= day => fx'[p][d] = fx[p][d],
         NEW base \in Currencies, NEW quote \in Currencies
  PROVE  FindRate(base, quote, day)' = FindRate(base, quote, day)
  <1>1. CASE base = quote
    BY <1>1 DEF FindRate
  <1>2. CASE base # quote
    <2> DEFINE p == <<base, quote>>
    <2>1. p \in Pairs
      BY <1>2 DEF Pairs
    <2>2. RatedDays(p, day)' = RatedDays(p, day)
      BY <2>1 DEF RatedDays
    <2>3. RatedDays(p, day) # {} => Max(RatedDays(p, day)) \in RatedDays(p, day)
      BY LatestRated
    <2>4. RatedDays(p, day) # {} =>
            fx'[p][Max(RatedDays(p, day))] = fx[p][Max(RatedDays(p, day))]
      BY <2>1, <2>3 DEF RatedDays
    <2> QED
      BY <1>2, <2>2, <2>4 DEF FindRate
  <1> QED
    BY <1>1, <1>2

\* A balance or net worth as of a day that is over changes only with the
\* accounts and rows, or with rates still being recorded for it.
THEOREM PastBalancesStay == BookSpec => PastBalancesAreStable
  <1>1. BookInv /\ [BookNext]_bookVars =>
          [\A day \in Days :
             /\ day < today
             /\ entry' = entry /\ account' = account
             /\ ~ (ingest.todo # {} /\ ingest.asOf <= day)
             => /\ NetWorth(day)' = NetWorth(day)
                /\ \A a \in Accounts : Balance(a, day)' = Balance(a, day)]_bookVars
    <2> SUFFICES ASSUME BookInv, BookNext, NEW day \in Days, UNCHANGED <<entry, account>>,
                        ~ (ingest.todo # {} /\ ingest.asOf <= day)
                 PROVE  /\ NetWorth(day)' = NetWorth(day)
                        /\ \A a \in Accounts : Balance(a, day)' = Balance(a, day)
      OBVIOUS
    <2>1. BookTypes
      BY DEF BookInv
    <2>2. \A d \in Days : d <= day => \A base, quote \in Currencies :
            FindRate(base, quote, d)' = FindRate(base, quote, d)
      <3>1. \A p \in Pairs : \A d \in Days : d <= day => fx'[p][d] = fx[p][d]
        BY <2>1, RatesOfTheDayStay
      <3> SUFFICES ASSUME NEW d \in Days, d <= day, NEW base \in Currencies,
                          NEW quote \in Currencies
                   PROVE  FindRate(base, quote, d)' = FindRate(base, quote, d)
        OBVIOUS
      <3>2. \A p \in Pairs : \A k \in Days : k <= d => fx'[p][k] = fx[p][k]
        BY <3>1, BookAssumption DEF Days
      <3> QED
        BY <2>1, <3>2, LookupsStay
    <2>3. \A a \in Accounts : Balance(a, day)' = Balance(a, day)
      <3> TAKE a \in Accounts
      <3> DEFINE rows == Attributed(a, day)
      <3>1. Attributed(a, day)' = rows
        BY DEF Attributed
      <3>2. \A r \in rows : Movement(a, r)' = Movement(a, r)
        <4> TAKE r \in rows
        <4>1. /\ r \in Rows /\ entry[r].day \in Days /\ entry[r].day <= day
              /\ entry[r].currency \in Currencies /\ account[a].currency \in Currencies
          BY <2>1 DEF Attributed, BookTypes, Entries, AccountRows
        <4>2. FindRate(entry[r].currency, account[a].currency, entry[r].day)'
                = FindRate(entry[r].currency, account[a].currency, entry[r].day)
          BY <2>2, <4>1
        <4> QED
          BY <4>2 DEF Movement
      <3> DEFINE moved == [r \in rows |-> Movement(a, r)[2]]
                 unrated == \E r \in rows : ~ Movement(a, r)[1]
      <3>3. moved' = moved /\ (unrated' <=> unrated)
        BY <3>1, <3>2
      <3>4. Balance(a, day) = IF unrated THEN <<FALSE, 0>> ELSE <<TRUE, SumFunction(moved)>>
        BY DEF Balance
      <3>5. Balance(a, day)' = IF unrated' THEN <<FALSE, 0>> ELSE <<TRUE, SumFunction(moved')>>
        BY DEF Balance
      <3> HIDE DEF moved, unrated
      <3> QED
        BY <3>3, <3>4, <3>5
    <2>4. \A a \in Accounts : HomeRate(a, day)' = HomeRate(a, day)
      <3>1. \A a \in Accounts : account[a].currency \in Currencies
        BY <2>1 DEF BookTypes, AccountRows
      <3> QED
        BY <2>2, <3>1, BookAssumption DEF HomeRate, Days
    <2>5. NetWorth(day)' = NetWorth(day)
      BY <2>3, <2>4 DEF NetWorth, HomeRate, Exists
    <2> QED
      BY <2>3, <2>5
  <1> QED
    BY <1>1, BookStands, PTL DEF BookSpec, PastBalancesAreStable

(***************************************************************************)
(* The calendar, for any twelve years that begin with FirstYear: every day *)
(* has its place in a month, and periods, keys and due dates follow.       *)
(***************************************************************************)

LastYear == FirstYear + 11     \* of a day
LeapDay(y) == IF Leap(y) THEN 1 ELSE 0

LEMMA LeapDayType == \A y : LeapDay(y) \in {0, 1}
  BY DEF LeapDay

\* A year begins where the one before it ends.
LEMMA YearsFollow ==
  /\ YearStart[FirstYear] = 0
  /\ \A y \in Years : YearStart[y] \in Nat
  /\ \A y \in FirstYear..LastYear :
       y \in Years /\ y + 1 \in Years /\ YearStart[y + 1] = YearStart[y] + 365 + LeapDay(y)
  <1> DEFINE leaps(y) == {l \in Years : l < y /\ Leap(l)}
  <1>1. FirstYear \in Nat
    BY WalkAssumption
  <1>2. IsFiniteSet(Years)
    BY <1>1, FS_Interval DEF Years
  <1>3. \A y \in Years : IsFiniteSet(leaps(y)) /\ Cardinality(leaps(y)) \in Nat
    <2> TAKE y \in Years
    <2>1. leaps(y) \subseteq Years
      OBVIOUS
    <2> HIDE DEF leaps
    <2> QED
      BY <1>2, <2>1, FS_Subset, FS_CardinalityType
  <1>4. \A y \in Years : y \in Nat /\ YearStart[y] = (365 * (y - FirstYear)) + Cardinality(leaps(y))
    BY <1>1 DEF YearStart, Years
  <1>5. FirstYear \in Years /\ leaps(FirstYear) = {}
    BY <1>1 DEF Years
  <1>6. ASSUME NEW y \in FirstYear..LastYear
        PROVE  y \in Years /\ y + 1 \in Years /\ YearStart[y + 1] = YearStart[y] + 365 + LeapDay(y)
    <2>1. y \in Years /\ y + 1 \in Years
      BY <1>1 DEF Years, LastYear
    <2>2. leaps(y + 1) = IF Leap(y) THEN leaps(y) \cup {y} ELSE leaps(y)
      BY <1>1, <2>1 DEF Years
    <2>3. y \notin leaps(y)
      BY <1>1
    <2>4. Cardinality(leaps(y + 1)) = Cardinality(leaps(y)) + LeapDay(y)
      <3> HIDE DEF leaps
      <3>1. Cardinality(leaps(y) \cup {y}) = Cardinality(leaps(y)) + 1
        BY <1>3, <2>1, <2>3, FS_AddElement
      <3> QED
        BY <1>3, <2>1, <2>2, <3>1 DEF LeapDay
    <2> HIDE DEF leaps
    <2> QED
      BY <1>1, <1>3, <1>4, <2>1, <2>4, LeapDayType
  <1> HIDE DEF leaps
  <1>7. YearStart[FirstYear] = 0
    BY <1>1, <1>4, <1>5, FS_EmptySet
  <1>8. \A y \in Years : YearStart[y] \in Nat
    BY <1>1, <1>3, <1>4 DEF Years
  <1> QED
    BY <1>6, <1>7, <1>8

\* Later years begin later, by a year at least for each.
LEMMA YearsGrow ==
  ASSUME NEW y \in Years, NEW z \in Years, y <= z
  PROVE  YearStart[y] + 365 * (z - y) <= YearStart[z]
  <1> DEFINE leaps(x) == {l \in Years : l < x /\ Leap(l)}
  <1>1. FirstYear \in Nat /\ IsFiniteSet(Years)
    BY WalkAssumption, FS_Interval DEF Years
  <1>2. leaps(y) \subseteq leaps(z) /\ leaps(z) \subseteq Years
    BY <1>1 DEF Years
  <1>3. /\ YearStart[y] = (365 * (y - FirstYear)) + Cardinality(leaps(y))
        /\ YearStart[z] = (365 * (z - FirstYear)) + Cardinality(leaps(z))
    BY DEF YearStart
  <1> HIDE DEF leaps
  <1>4. /\ Cardinality(leaps(y)) \in Nat /\ Cardinality(leaps(z)) \in Nat
        /\ Cardinality(leaps(y)) <= Cardinality(leaps(z))
    BY <1>1, <1>2, FS_Subset, FS_CardinalityType
  <1> QED
    BY <1>1, <1>3, <1>4 DEF Years

\* The days that have a place in the calendar.
Dates == 0..(12 * 365 - 1)

\* A day is in one year.
LEMMA DayHasYear ==
  ASSUME NEW n \in Dates
  PROVE  /\ YearOf(n) \in FirstYear..LastYear
         /\ YearStart[YearOf(n)] <= n /\ n < YearStart[YearOf(n) + 1]
         /\ \A y \in FirstYear..LastYear :
              YearStart[y] <= n /\ n < YearStart[y + 1] => YearOf(n) = y
  <1>1. FirstYear \in Nat
    BY WalkAssumption
  <1>2. \E y \in FirstYear..LastYear : YearStart[y] <= n /\ n < YearStart[y + 1]
    <2> DEFINE begun == {k \in 0..11 : YearStart[FirstYear + k] <= n}
    <2>1. \A k \in 0..12 : /\ FirstYear + k \in Years /\ YearStart[FirstYear + k] \in Nat
                           /\ 365 * k <= YearStart[FirstYear + k]
      <3> TAKE k \in 0..12
      <3>1. /\ FirstYear \in Years /\ FirstYear + k \in Years
            /\ FirstYear <= FirstYear + k /\ (FirstYear + k) - FirstYear = k
        BY <1>1 DEF Years
      <3> QED
        BY <3>1, YearsFollow, YearsGrow
    <2>2. 0 \in begun /\ begun \subseteq Nat /\ IsFiniteSet(begun)
      <3>1. FirstYear + 0 = FirstYear /\ 0 <= n
        BY <1>1 DEF Dates
      <3>2. IsFiniteSet(0..11)
        <4>1. 0 \in Int /\ 11 \in Int
          OBVIOUS
        <4> QED
          BY <4>1, FS_Interval, Zenon
      <3>3. begun \subseteq 0..11
        OBVIOUS
      <3> QED
        BY <3>1, <3>2, <3>3, YearsFollow, FS_Subset
    <2>3. PICK k \in begun : \A m \in begun : m <= k
      <3> HIDE DEF begun
      <3> QED
        BY <2>2, GreatestNatural
    <2>4. k \in 0..11 /\ FirstYear + k \in FirstYear..LastYear /\ FirstYear + (k + 1) = FirstYear + k + 1
      BY <1>1 DEF LastYear
    <2>5. n < YearStart[FirstYear + k + 1]
      <3>1. CASE k = 11
        <4>1. 365 * 12 <= YearStart[FirstYear + 12] /\ FirstYear + k + 1 = FirstYear + 12
          BY <1>1, <2>1, <3>1
        <4>2. YearStart[FirstYear + 12] \in Nat
          BY <2>1
        <4>3. n < 365 * 12
          BY DEF Dates
        <4> QED
          BY <4>1, <4>2, <4>3 DEF Dates
      <3>2. CASE k # 11
        <4>1. k + 1 \in 0..11 /\ ~(k + 1 <= k)
          BY <2>4, <3>2
        <4>2. k + 1 \notin begun
          <5> HIDE DEF begun
          <5> QED
            BY <2>3, <4>1
        <4>3. YearStart[FirstYear + (k + 1)] \in Nat
          BY <2>1, <4>1
        <4> QED
          BY <2>4, <4>1, <4>2, <4>3 DEF Dates
      <3> QED
        BY <3>1, <3>2
    <2> QED
      BY <2>4, <2>5
  <1>3. ASSUME NEW y \in FirstYear..LastYear, NEW z \in FirstYear..LastYear, y < z,
               n < YearStart[y + 1], YearStart[z] <= n
        PROVE  FALSE
    <2>1. y + 1 \in Years /\ z \in Years
      BY YearsFollow
    <2>2. YearStart[y + 1] \in Nat /\ YearStart[z] \in Nat
      BY <2>1, YearsFollow
    <2>3. YearStart[y + 1] <= YearStart[z]
      <3>1. y + 1 <= z /\ 0 <= z - (y + 1)
        BY <1>1, <1>3 DEF LastYear
      <3>2. YearStart[y + 1] + 365 * (z - (y + 1)) <= YearStart[z]
        BY <2>1, <3>1, YearsGrow
      <3> QED
        BY <1>1, <2>2, <3>1, <3>2 DEF LastYear
    <2> QED
      BY <1>3, <2>2, <2>3 DEF Dates
  <1>4. ASSUME NEW y \in FirstYear..LastYear, NEW z \in FirstYear..LastYear,
               YearStart[y] <= n, n < YearStart[y + 1], YearStart[z] <= n, n < YearStart[z + 1]
        PROVE  y = z
    <2>1. y = z \/ y < z \/ z < y
      BY <1>1 DEF LastYear
    <2> QED
      BY <1>3, <1>4, <2>1
  <1>5. FirstYear..(FirstYear + 11) = FirstYear..LastYear
    BY DEF LastYear
  <1>6. /\ YearOf(n) \in FirstYear..LastYear
        /\ YearStart[YearOf(n)] <= n /\ n < YearStart[YearOf(n) + 1]
    BY <1>2, <1>5 DEF YearOf
  <1> QED
    BY <1>4, <1>6

\* The first days of the months of a year and of the January after it.
Offset(m) == <<0, 31, 59, 90, 120, 151, 181, 212, 243, 273, 304, 334, 365>>[m]

LEMMA Offsets ==
  /\ Offset(1) = 0 /\ Offset(2) = 31 /\ Offset(3) = 59 /\ Offset(4) = 90 /\ Offset(5) = 120
  /\ Offset(6) = 151 /\ Offset(7) = 181 /\ Offset(8) = 212 /\ Offset(9) = 243 /\ Offset(10) = 273
  /\ Offset(11) = 304 /\ Offset(12) = 334 /\ Offset(13) = 365
  BY DEF Offset

LEMMA MonthsAre ==
  ASSUME NEW m \in 1..12
  PROVE  m = 1 \/ m = 2 \/ m = 3 \/ m = 4 \/ m = 5 \/ m = 6 \/ m = 7 \/ m = 8 \/ m = 9 \/ m = 10
         \/ m = 11 \/ m = 12
  OBVIOUS

LEMMA OffsetsGrow ==
  ASSUME NEW m \in 1..12
  PROVE  /\ Offset(m) \in Nat /\ Offset(m + 1) \in Nat
         /\ Offset(m) + 28 <= Offset(m + 1) /\ Offset(m + 1) <= Offset(m) + 31
         /\ m = 2 => Offset(m + 1) = Offset(m) + 28
         /\ m # 2 => Offset(m) + 30 <= Offset(m + 1)
  <1>1. m + 1 = 2 \/ m + 1 = 3 \/ m + 1 = 4 \/ m + 1 = 5 \/ m + 1 = 6 \/ m + 1 = 7 \/ m + 1 = 8
        \/ m + 1 = 9 \/ m + 1 = 10 \/ m + 1 = 11 \/ m + 1 = 12 \/ m + 1 = 13
    BY MonthsAre
  <1> QED
    BY <1>1, MonthsAre, Offsets

LEMMA UtcWithin ==
  ASSUME NEW y \in Years, NEW m \in 1..12, NEW d \in Int
  PROVE  /\ Utc(y, m, d) = YearStart[y] + Offset(m) + (IF m > 2 THEN LeapDay(y) ELSE 0) + d - 1
         /\ Utc(y, m, d) = Utc(y, m, 1) + d - 1 /\ Utc(y, m, 1) \in Nat
  <1>1. (m - 1) \div 12 = 0 /\ ((m - 1) % 12) + 1 = m
    OBVIOUS
  <1>2. DaysBefore(y, m) = Offset(m) + (IF m > 2 THEN LeapDay(y) ELSE 0)
    <2>1. <<0, 31, 59, 90, 120, 151, 181, 212, 243, 273, 304, 334>>[m] = Offset(m)
      BY MonthsAre DEF Offset
    <2>2. (IF m > 2 /\ Leap(y) THEN 1 ELSE 0) = (IF m > 2 THEN LeapDay(y) ELSE 0)
      BY DEF LeapDay
    <2> QED
      BY <2>1, <2>2 DEF DaysBefore
  <1>3. YearStart[y] \in Nat /\ Offset(m) \in Nat /\ LeapDay(y) \in {0, 1} /\ y \in Int /\ y + 0 = y
    BY YearsFollow, OffsetsGrow, LeapDayType, WalkAssumption DEF Years
  <1>4. \A e \in Int : Utc(y, m, e) = YearStart[y] + DaysBefore(y, m) + e - 1
    BY <1>1, <1>3 DEF Utc
  <1> QED
    BY <1>2, <1>3, <1>4

LEMMA MonthStart ==
  ASSUME NEW y \in Years, NEW m \in 1..12
  PROVE  Utc(y, m, 1) = YearStart[y] + Offset(m) + (IF m > 2 THEN LeapDay(y) ELSE 0)
  <1> DEFINE start == YearStart[y] + Offset(m) + (IF m > 2 THEN LeapDay(y) ELSE 0)
  <1>1. 1 \in Int
    OBVIOUS
  <1>2. Utc(y, m, 1) = start + 1 - 1
    BY <1>1, UtcWithin
  <1>3. start \in Int
    BY YearsFollow, OffsetsGrow, LeapDayType
  <1> HIDE DEF start
  <1>4. Utc(y, m, 1) = start
    BY <1>2, <1>3
  <1> QED
    BY <1>4 DEF start

\* Date.UTC carries months over to the next year and back to the one before.
LEMMA UtcCarries ==
  ASSUME NEW y \in Years, NEW m \in Int, NEW d \in Int
  PROVE  /\ y + 1 \in Years /\ m \in 13..24 => Utc(y, m, d) = Utc(y + 1, m - 12, d)
         /\ y - 1 \in Years /\ m \in -11..0 => Utc(y, m, d) = Utc(y - 1, m + 12, d)
  <1>1. y \in Nat
    BY WalkAssumption DEF Years
  <1>2. ASSUME m \in 13..24 PROVE Utc(y, m, d) = Utc(y + 1, m - 12, d)
    <2>1. (m - 1) \div 12 = 1 /\ ((m - 12) - 1) \div 12 = 0 /\ (m - 1) % 12 = ((m - 12) - 1) % 12
      BY <1>2
    <2>2. y + (m - 1) \div 12 = (y + 1) + ((m - 12) - 1) \div 12
      BY <1>1, <2>1
    <2> QED
      BY <2>1, <2>2 DEF Utc
  <1>3. ASSUME m \in -11..0 PROVE Utc(y, m, d) = Utc(y - 1, m + 12, d)
    <2>1. (m - 1) \div 12 = -1 /\ ((m + 12) - 1) \div 12 = 0 /\ (m - 1) % 12 = ((m + 12) - 1) % 12
      BY <1>3
    <2>2. y + (m - 1) \div 12 = (y - 1) + ((m + 12) - 1) \div 12
      BY <1>1, <2>1
    <2> QED
      BY <2>1, <2>2 DEF Utc
  <1> QED
    BY <1>2, <1>3

\* The thirteenth month is the next January, and every month has 28 days or more.
LEMMA MonthsFollow ==
  ASSUME NEW y \in FirstYear..LastYear, NEW m \in 1..12
  PROVE  /\ Utc(y, 1, 1) = YearStart[y] /\ Utc(y, 13, 1) = YearStart[y + 1]
         /\ Utc(y, 13, 1) = Utc(y + 1, 1, 1)
         /\ Utc(y, m, 1) \in Nat /\ Utc(y, m + 1, 1) \in Nat
         /\ Utc(y, m, 1) + 28 <= Utc(y, m + 1, 1) /\ Utc(y, m + 1, 1) <= Utc(y, m, 1) + 31
  <1>1. /\ y \in Years /\ y + 1 \in Years /\ YearStart[y + 1] = YearStart[y] + 365 + LeapDay(y)
        /\ YearStart[y] \in Nat /\ YearStart[y + 1] \in Nat /\ LeapDay(y) \in {0, 1}
    BY YearsFollow, LeapDayType
  <1>2. Utc(y, 1, 1) = YearStart[y]
    <2>1. 1 \in 1..12
      OBVIOUS
    <2>2. Utc(y, 1, 1) = YearStart[y] + Offset(1) + (IF 1 > 2 THEN LeapDay(y) ELSE 0)
      BY <1>1, <2>1, MonthStart
    <2> QED
      BY <1>1, <2>2, Offsets
  <1>3. Utc(y, 13, 1) = Utc(y + 1, 1, 1)
    <2>1. Utc(y, 13, 1) = Utc(y + 1, 13 - 12, 1)
      BY <1>1, UtcCarries
    <2> QED
      BY <2>1
  <1>4. Utc(y + 1, 1, 1) = YearStart[y + 1]
    <2>1. 1 \in 1..12
      OBVIOUS
    <2>2. Utc(y + 1, 1, 1) = YearStart[y + 1] + Offset(1) + (IF 1 > 2 THEN LeapDay(y + 1) ELSE 0)
      BY <1>1, <2>1, MonthStart
    <2> QED
      BY <1>1, <2>2, Offsets
  <1>5. Utc(y, m, 1) = YearStart[y] + Offset(m) + (IF m > 2 THEN LeapDay(y) ELSE 0)
    BY <1>1, MonthStart
  <1>6. Utc(y, m + 1, 1) = YearStart[y] + Offset(m + 1) + (IF m + 1 > 2 THEN LeapDay(y) ELSE 0)
    <2>1. CASE m = 12
      <3>1. m + 1 = 13
        BY <2>1
      <3> QED
        BY <1>1, <1>3, <1>4, <3>1, Offsets
    <2>2. CASE m # 12
      <3>1. m + 1 \in 1..12
        BY <2>2
      <3> QED
        BY <1>1, <3>1, MonthStart
    <2> QED
      BY <2>1, <2>2
  <1> QED
    BY <1>1, <1>2, <1>3, <1>4, <1>5, <1>6, OffsetsGrow

LEMMA MonthsGrow ==
  ASSUME NEW y \in FirstYear..LastYear, NEW k \in 1..13, NEW l \in 1..13, k < l
  PROVE  Utc(y, k, 1) + 28 <= Utc(y, l, 1) /\ Utc(y, k, 1) \in Nat /\ Utc(y, l, 1) \in Nat
  <1> DEFINE s(m) == Utc(y, m, 1)
             bad == {j \in 2..13 : k < j /\ ~(s(k) + 28 <= s(j))}
  <1>1. \A m \in 1..12 : s(m) \in Nat /\ s(m + 1) \in Nat /\ s(m) + 28 <= s(m + 1)
    BY MonthsFollow
  <1> HIDE DEF s
  <1>2. \A m \in 1..13 : s(m) \in Nat
    <2> TAKE m \in 1..13
    <2>1. m \in 1..12 \/ (m - 1 \in 1..12 /\ (m - 1) + 1 = m)
      OBVIOUS
    <2> QED
      BY <1>1, <2>1
  <1>3. ASSUME bad # {} PROVE FALSE
    <2>1. PICK j \in bad : \A m \in bad : j <= m
      <3>1. bad \subseteq Nat
        OBVIOUS
      <3> HIDE DEF bad
      <3> QED
        BY <1>3, <3>1, LeastNatural
    <2>2. j - 1 \in 1..12 /\ (j - 1) + 1 = j /\ k <= j - 1 /\ ~(j <= j - 1)
      OBVIOUS
    <2>3. s(j - 1) + 28 <= s(j) /\ s(j - 1) \in Nat /\ s(j) \in Nat /\ s(k) \in Nat
      BY <1>1, <1>2, <2>2
    <2>4. CASE k = j - 1
      BY <2>3, <2>4
    <2>5. CASE k < j - 1
      <3>1. j - 1 \in 2..13
        BY <2>2, <2>5
      <3>2. j - 1 \notin bad
        <4> HIDE DEF bad
        <4> QED
          BY <2>1, <2>2
      <3>3. s(k) + 28 <= s(j - 1)
        BY <2>5, <3>1, <3>2
      <3> QED
        BY <2>3, <3>3
    <2> QED
      BY <2>2, <2>4, <2>5
  <1>4. l \in 2..13
    OBVIOUS
  <1>5. s(k) + 28 <= s(l)
    BY <1>3, <1>4
  <1> QED
    BY <1>2, <1>5 DEF s

\* A day is in one month of its year, and every day of a month is in it.
LEMMA DayHasMonth ==
  ASSUME NEW n \in Dates
  PROVE  /\ YearOf(n) \in FirstYear..LastYear /\ MonthOf(n) \in 1..12
         /\ Utc(YearOf(n), MonthOf(n), 1) <= n /\ n < Utc(YearOf(n), MonthOf(n) + 1, 1)
         /\ \A m \in 1..12 :
              Utc(YearOf(n), m, 1) <= n /\ n < Utc(YearOf(n), m + 1, 1) => MonthOf(n) = m
  <1> DEFINE y == YearOf(n)
             s(m) == Utc(y, m, 1)
             begun == {m \in 1..12 : s(m) <= n}
  <1>1. y \in FirstYear..LastYear /\ YearStart[y] <= n /\ n < YearStart[y + 1]
    BY DayHasYear
  <1> HIDE DEF y
  <1>2. 1 \in 1..12 /\ n \in Nat
    BY DEF Dates
  <1>3. s(1) = YearStart[y] /\ s(13) = YearStart[y + 1]
    BY <1>1, <1>2, MonthsFollow
  <1>4. \A m \in 1..13 : s(m) \in Nat
    <2> TAKE m \in 1..13
    <2>1. m \in 1..12 \/ (m - 1 \in 1..12 /\ (m - 1) + 1 = m)
      OBVIOUS
    <2> QED
      BY <1>1, <2>1, MonthsFollow
  <1>5. ASSUME NEW k \in 1..13, NEW l \in 1..13, k < l PROVE s(k) < s(l)
    BY <1>1, <1>4, <1>5, MonthsGrow
  <1> HIDE DEF s
  <1>6. \E m \in 1..12 : s(m) <= n /\ n < s(m + 1)
    <2>1. begun \subseteq Nat /\ begun # {} /\ IsFiniteSet(begun)
      <3>1. 1 \in begun
        BY <1>1, <1>2, <1>3
      <3>2. 1 \in Int /\ 12 \in Int /\ begun \subseteq 1..12
        OBVIOUS
      <3>3. IsFiniteSet(1..12)
        BY <3>2, FS_Interval, Zenon
      <3> QED
        BY <3>1, <3>2, <3>3, FS_Subset
    <2>2. PICK k \in begun : \A m \in begun : m <= k
      <3> HIDE DEF begun
      <3> QED
        BY <2>1, GreatestNatural
    <2>3. k \in 1..12 /\ s(k) <= n
      OBVIOUS
    <2>4. n < s(k + 1)
      <3>1. CASE k = 12
        BY <1>1, <1>3, <3>1
      <3>2. CASE k # 12
        <4>1. k + 1 \in 1..12 /\ ~(k + 1 <= k)
          BY <2>3, <3>2
        <4>2. k + 1 \notin begun
          <5> HIDE DEF begun
          <5> QED
            BY <2>2, <4>1
        <4>3. s(k + 1) \in Nat
          BY <1>4, <4>1
        <4> QED
          BY <1>2, <4>1, <4>2, <4>3
      <3> QED
        BY <3>1, <3>2
    <2> QED
      BY <2>3, <2>4
  <1>7. ASSUME NEW k \in 1..12, NEW l \in 1..12, s(k) <= n, n < s(k + 1), s(l) <= n, n < s(l + 1)
        PROVE  k = l
    <2>1. ASSUME NEW i \in 1..12, NEW j \in 1..12, i < j, n < s(i + 1), s(j) <= n PROVE FALSE
      <3>1. i + 1 = j \/ i + 1 < j
        BY <2>1
      <3>2. i + 1 \in 1..13 /\ j \in 1..13
        OBVIOUS
      <3>3. s(i + 1) <= s(j) /\ s(i + 1) \in Nat /\ s(j) \in Nat
        BY <1>4, <1>5, <3>1, <3>2
      <3> QED
        BY <1>2, <2>1, <3>3
    <2>2. k = l \/ k < l \/ l < k
      OBVIOUS
    <2> QED
      BY <1>7, <2>1, <2>2
  <1>8. MonthOf(n) = CHOOSE m \in 1..12 : s(m) <= n /\ n < s(m + 1)
    BY DEF MonthOf, s, y
  <1>9. MonthOf(n) \in 1..12 /\ s(MonthOf(n)) <= n /\ n < s(MonthOf(n) + 1)
    BY <1>6, <1>8
  <1>10. \A m \in 1..12 : s(m) <= n /\ n < s(m + 1) => MonthOf(n) = m
    BY <1>7, <1>9
  <1> QED
    BY <1>1, <1>9, <1>10 DEF s, y

LEMMA Placed ==
  ASSUME NEW n \in Dates, NEW y \in FirstYear..LastYear, NEW m \in 1..12,
         Utc(y, m, 1) <= n, n < Utc(y, m + 1, 1)
  PROVE  YearOf(n) = y /\ MonthOf(n) = m
  <1>1. n \in Nat
    BY DEF Dates
  <1>2. /\ Utc(y, 1, 1) = YearStart[y] /\ Utc(y, 13, 1) = YearStart[y + 1]
        /\ Utc(y, m, 1) \in Nat /\ Utc(y, m + 1, 1) \in Nat
    BY MonthsFollow
  <1>3. Utc(y, 1, 1) <= Utc(y, m, 1) /\ Utc(y, 1, 1) \in Nat
    <2>1. m = 1 \/ 1 < m
      OBVIOUS
    <2>2. 1 \in 1..13 /\ m \in 1..13
      OBVIOUS
    <2> QED
      BY <1>2, <2>1, <2>2, MonthsGrow
  <1>4. Utc(y, m + 1, 1) <= Utc(y, 13, 1) /\ Utc(y, 13, 1) \in Nat
    <2>1. m + 1 = 13 \/ m + 1 < 13
      OBVIOUS
    <2>2. m + 1 \in 1..13 /\ 13 \in 1..13
      OBVIOUS
    <2> QED
      BY <1>2, <2>1, <2>2, MonthsGrow
  <1>5. YearStart[y] <= n /\ n < YearStart[y + 1]
    BY <1>1, <1>2, <1>3, <1>4
  <1>6. YearOf(n) = y
    BY <1>5, DayHasYear
  <1> QED
    BY <1>6, DayHasMonth

LEMMA DayIsUtc ==
  ASSUME NEW n \in Dates
  PROVE  /\ DayOf(n) \in 1..31 /\ n = Utc(YearOf(n), MonthOf(n), 1) + DayOf(n) - 1
         /\ Utc(YearOf(n), MonthOf(n), 1) \in Nat /\ Utc(YearOf(n), MonthOf(n) + 1, 1) \in Nat
         /\ YearOf(n) \in Years
  <1>0. n \in Nat
    BY DEF Dates
  <1>1. /\ YearOf(n) \in FirstYear..LastYear /\ MonthOf(n) \in 1..12 /\ n \in Nat
        /\ Utc(YearOf(n), MonthOf(n), 1) <= n /\ n < Utc(YearOf(n), MonthOf(n) + 1, 1)
    BY <1>0, DayHasMonth
  <1>2. /\ Utc(YearOf(n), MonthOf(n), 1) \in Nat /\ Utc(YearOf(n), MonthOf(n) + 1, 1) \in Nat
        /\ Utc(YearOf(n), MonthOf(n) + 1, 1) <= Utc(YearOf(n), MonthOf(n), 1) + 31
    BY <1>1, MonthsFollow
  <1>3. YearOf(n) \in Years
    BY <1>1, YearsFollow
  <1>4. DayOf(n) \in 1..31 /\ n = Utc(YearOf(n), MonthOf(n), 1) + DayOf(n) - 1
    BY <1>1, <1>2 DEF DayOf
  <1> QED
    BY <1>2, <1>3, <1>4

\* The next day is in the same month, or the first of the next.
LEMMA NextDayPlaced ==
  ASSUME NEW n \in Dates, n + 1 \in Dates
  PROVE  \/ /\ n + 1 < Utc(YearOf(n), MonthOf(n) + 1, 1)
            /\ YearOf(n + 1) = YearOf(n) /\ MonthOf(n + 1) = MonthOf(n)
            /\ DayOf(n + 1) = DayOf(n) + 1
         \/ /\ n + 1 = Utc(YearOf(n), MonthOf(n) + 1, 1) /\ MonthOf(n) < 12
            /\ YearOf(n + 1) = YearOf(n) /\ MonthOf(n + 1) = MonthOf(n) + 1
            /\ DayOf(n + 1) = 1
         \/ /\ n + 1 = Utc(YearOf(n), MonthOf(n) + 1, 1) /\ MonthOf(n) = 12
            /\ n + 1 = Utc(YearOf(n) + 1, 1, 1)
            /\ YearOf(n + 1) = YearOf(n) + 1 /\ MonthOf(n + 1) = 1
            /\ DayOf(n + 1) = 1
  <1> DEFINE y == YearOf(n)
             m == MonthOf(n)
  <1>0. n \in Nat
    BY DEF Dates
  <1>1. /\ y \in FirstYear..LastYear /\ m \in 1..12 /\ n \in Nat
        /\ Utc(y, m, 1) <= n /\ n < Utc(y, m + 1, 1)
    BY <1>0, DayHasMonth
  <1>2. DayOf(n) = n - Utc(y, m, 1) + 1
    BY DEF DayOf
  <1> HIDE DEF y, m
  <1>3. Utc(y, m, 1) \in Nat /\ Utc(y, m + 1, 1) \in Nat
    BY <1>1, MonthsFollow
  <1>4. CASE n + 1 < Utc(y, m + 1, 1)
    <2>1. Utc(y, m, 1) <= n + 1
      BY <1>1, <1>3
    <2>2. YearOf(n + 1) = y /\ MonthOf(n + 1) = m
      BY <1>1, <1>4, <2>1, Placed
    <2>3. DayOf(n + 1) = DayOf(n) + 1
      BY <1>1, <1>2, <1>3, <2>2 DEF DayOf
    <2> QED
      BY <1>4, <2>2, <2>3 DEF y, m
  <1>5. CASE n + 1 = Utc(y, m + 1, 1) /\ m < 12
    <2>1. m + 1 \in 1..12
      BY <1>1, <1>5
    <2>2. Utc(y, m + 1, 1) + 28 <= Utc(y, (m + 1) + 1, 1) /\ Utc(y, (m + 1) + 1, 1) \in Nat
      BY <1>1, <2>1, MonthsFollow
    <2>3. Utc(y, m + 1, 1) <= n + 1 /\ n + 1 < Utc(y, (m + 1) + 1, 1)
      BY <1>1, <1>3, <1>5, <2>2
    <2>4. YearOf(n + 1) = y /\ MonthOf(n + 1) = m + 1
      BY <1>1, <2>1, <2>3, Placed
    <2>5. DayOf(n + 1) = 1
      BY <1>1, <1>3, <1>5, <2>4 DEF DayOf
    <2> QED
      BY <1>5, <2>4, <2>5 DEF y, m
  <1>6. CASE n + 1 = Utc(y, m + 1, 1) /\ m = 12
    <2>1. n + 1 = Utc(y + 1, 1, 1) /\ Utc(y + 1, 1, 1) = YearStart[y + 1]
      BY <1>1, <1>6, MonthsFollow
    <2>2. y + 1 \in FirstYear..LastYear
      <3>1. FirstYear \in Nat
        BY WalkAssumption
      <3>2. ASSUME y = LastYear PROVE FALSE
        <4>1. /\ FirstYear \in Years /\ y + 1 \in Years /\ FirstYear <= y + 1
              /\ (y + 1) - FirstYear = 12
          BY <3>1, <3>2 DEF LastYear, Years
        <4>2. YearStart[FirstYear] + 365 * 12 <= YearStart[y + 1]
          BY <4>1, YearsGrow
        <4>3. n + 1 < 12 * 365
          BY DEF Dates
        <4>4. YearStart[FirstYear] = 0 /\ YearStart[y + 1] \in Nat
          BY <4>1, YearsFollow
        <4> QED
          BY <1>1, <2>1, <4>2, <4>3, <4>4
      <3> QED
        BY <1>1, <3>1, <3>2 DEF LastYear
    <2>3. 1 \in 1..12 /\ 1 + 1 = 2
      OBVIOUS
    <2>4. Utc(y + 1, 1, 1) + 28 <= Utc(y + 1, 1 + 1, 1) /\ Utc(y + 1, 1 + 1, 1) \in Nat
      BY <2>2, <2>3, MonthsFollow
    <2>5. Utc(y + 1, 1, 1) <= n + 1 /\ n + 1 < Utc(y + 1, 1 + 1, 1)
      BY <1>1, <2>1, <2>4
    <2>6. YearOf(n + 1) = y + 1 /\ MonthOf(n + 1) = 1
      BY <2>2, <2>3, <2>5, Placed
    <2>7. DayOf(n + 1) = 1
      BY <1>1, <2>1, <2>6 DEF DayOf
    <2> QED
      BY <1>6, <2>1, <2>6, <2>7 DEF y, m
  <1>7. n + 1 < Utc(y, m + 1, 1) \/ n + 1 = Utc(y, m + 1, 1)
    BY <1>1, <1>3
  <1> QED
    BY <1>1, <1>4, <1>5, <1>6, <1>7

(***************************************************************************)
(* Months, quarters and years alike: spans of one, three or twelve months  *)
(***************************************************************************)
Widths == {1, 3, 12}
Openings(w) == {f \in 1..12 : (f - 1) % w = 0}
OpeningOf(n, w) == w * ((MonthOf(n) - 1) \div w) + 1

LEMMA OpeningsTile ==
  ASSUME NEW w \in Widths, NEW m \in 1..12
  PROVE  LET f == w * ((m - 1) \div w) + 1 IN
         /\ f \in Openings(w) /\ f <= m /\ m < f + w
         /\ \A g \in Openings(w) : g <= m /\ m < g + w => g = f
  <1>1. w = 1 \/ w = 3 \/ w = 12
    BY DEF Widths
  <1>2. CASE w = 1
    BY <1>2 DEF Openings
  <1>3. CASE w = 3
    BY <1>3 DEF Openings
  <1>4. CASE w = 12
    BY <1>4 DEF Openings
  <1> QED
    BY <1>1, <1>2, <1>3, <1>4

LEMMA OpeningsFollow ==
  ASSUME NEW w \in Widths, NEW f \in Openings(w)
  PROVE  /\ w \in 1..12 /\ f \in 1..12 /\ f + w \in 1..13
         /\ f + w < 13 => f + w \in Openings(w)
         /\ f # 1 => f - w \in Openings(w)
         /\ 13 - w \in Openings(w) /\ 1 \in Openings(w)
  <1>1. w = 1 \/ w = 3 \/ w = 12
    BY DEF Widths
  <1>2. CASE w = 1
    BY <1>2 DEF Openings
  <1>3. CASE w = 3
    BY <1>3 DEF Openings
  <1>4. CASE w = 12
    BY <1>4 DEF Openings
  <1> QED
    BY <1>1, <1>2, <1>3, <1>4

\* Months within a year, also where they are the same.
LEMMA MonthsOrder ==
  ASSUME NEW y \in FirstYear..LastYear, NEW k \in 1..13, NEW l \in 1..13, k <= l
  PROVE  Utc(y, k, 1) <= Utc(y, l, 1) /\ Utc(y, k, 1) \in Nat /\ Utc(y, l, 1) \in Nat
  <1>1. CASE k < l
    BY <1>1, MonthsGrow
  <1>2. CASE k = l
    <2>1. k \in 1..12 \/ (k - 1 \in 1..12 /\ (k - 1) + 1 = k)
      OBVIOUS
    <2>2. Utc(y, k, 1) \in Nat
      BY <2>1, MonthsFollow
    <2> QED
      BY <1>2, <2>2
  <1> QED
    BY <1>1, <1>2

\* A day lies in one span of each width.
LEMMA SpanPlaced ==
  ASSUME NEW n \in Dates, NEW w \in Widths, NEW y \in FirstYear..LastYear, NEW f \in Openings(w),
         Utc(y, f, 1) <= n, n < Utc(y, f + w, 1)
  PROVE  YearOf(n) = y /\ OpeningOf(n, w) = f
  <1> DEFINE m == MonthOf(n)
  <1>1. n \in Nat
    BY DEF Dates
  <1>2. /\ w \in 1..12 /\ f \in 1..12 /\ f + w \in 1..13 /\ f \in 1..13 /\ 1 \in 1..13 /\ 13 \in 1..13
        /\ 1 \in 1..12
    BY OpeningsFollow
  <1>3. /\ Utc(y, 1, 1) <= Utc(y, f, 1) /\ Utc(y, f + w, 1) <= Utc(y, 13, 1)
        /\ Utc(y, f, 1) \in Nat /\ Utc(y, f + w, 1) \in Nat
        /\ Utc(y, 1, 1) \in Nat /\ Utc(y, 13, 1) \in Nat
    BY <1>2, MonthsOrder
  <1>4. Utc(y, 1, 1) = YearStart[y] /\ Utc(y, 13, 1) = YearStart[y + 1]
    BY <1>2, MonthsFollow
  <1>5. YearStart[y] <= n /\ n < YearStart[y + 1]
    BY <1>1, <1>3, <1>4
  <1>6. YearOf(n) = y
    BY <1>5, DayHasYear
  <1>7. m \in 1..12 /\ Utc(y, m, 1) <= n /\ n < Utc(y, m + 1, 1)
    BY <1>6, DayHasMonth
  <1> HIDE DEF m
  <1>8. m \in 1..13 /\ m + 1 \in 1..13
    BY <1>7
  <1>9. Utc(y, m, 1) \in Nat /\ Utc(y, m + 1, 1) \in Nat
    BY <1>8, MonthsOrder
  <1>10. f <= m
    <2> SUFFICES ASSUME m + 1 <= f PROVE FALSE
      BY <1>2, <1>7
    <2>1. Utc(y, m + 1, 1) <= Utc(y, f, 1)
      BY <1>2, <1>8, MonthsOrder
    <2> QED
      BY <1>1, <1>3, <1>7, <1>9, <2>1
  <1>11. m < f + w
    <2> SUFFICES ASSUME f + w <= m PROVE FALSE
      BY <1>2, <1>7
    <2>1. Utc(y, f + w, 1) <= Utc(y, m, 1)
      BY <1>2, <1>8, MonthsOrder
    <2> QED
      BY <1>1, <1>3, <1>7, <1>9, <2>1
  <1>12. f = w * ((m - 1) \div w) + 1
    BY <1>7, <1>10, <1>11, OpeningsTile
  <1> QED
    BY <1>6, <1>12 DEF OpeningOf, m

LEMMA SpanHolds ==
  ASSUME NEW n \in Dates, NEW w \in Widths
  PROVE  /\ YearOf(n) \in FirstYear..LastYear /\ OpeningOf(n, w) \in Openings(w)
         /\ Utc(YearOf(n), OpeningOf(n, w), 1) \in Nat
         /\ Utc(YearOf(n), OpeningOf(n, w) + w, 1) \in Nat
         /\ Utc(YearOf(n), OpeningOf(n, w), 1) <= n
         /\ n < Utc(YearOf(n), OpeningOf(n, w) + w, 1)
         /\ OpeningOf(n, w) <= MonthOf(n) /\ MonthOf(n) < OpeningOf(n, w) + w
  <1> DEFINE y == YearOf(n)
             m == MonthOf(n)
             f == OpeningOf(n, w)
  <1>1. y \in FirstYear..LastYear /\ m \in 1..12 /\ Utc(y, m, 1) <= n /\ n < Utc(y, m + 1, 1)
    BY DayHasMonth
  <1>2. f \in Openings(w) /\ f <= m /\ m < f + w
    BY <1>1, OpeningsTile DEF OpeningOf
  <1> HIDE DEF y, m, f
  <1>3. /\ w \in 1..12 /\ f \in 1..13 /\ f + w \in 1..13 /\ m \in 1..13 /\ m + 1 \in 1..13
        /\ m + 1 <= f + w /\ n \in Nat
    <2>1. w \in 1..12 /\ f \in 1..12 /\ f + w \in 1..13
      BY <1>2, OpeningsFollow
    <2>2. n \in Nat
      BY DEF Dates
    <2> QED
      BY <1>1, <1>2, <2>1, <2>2
  <1>4. Utc(y, f, 1) <= Utc(y, m, 1) /\ Utc(y, f, 1) \in Nat /\ Utc(y, m, 1) \in Nat
    BY <1>1, <1>2, <1>3, MonthsOrder
  <1>5. Utc(y, m + 1, 1) <= Utc(y, f + w, 1) /\ Utc(y, m + 1, 1) \in Nat /\ Utc(y, f + w, 1) \in Nat
    BY <1>1, <1>3, MonthsOrder
  <1>6. Utc(y, f, 1) <= n /\ n < Utc(y, f + w, 1)
    BY <1>1, <1>3, <1>4, <1>5
  <1> QED
    BY <1>1, <1>2, <1>4, <1>5, <1>6 DEF y, m, f

\* Where a span ends, the next begins.
LEMMA SpanEnds ==
  ASSUME NEW n \in Dates, n + 1 \in Dates, NEW w \in Widths,
         n + 1 = Utc(YearOf(n), OpeningOf(n, w) + w, 1)
  PROVE  /\ Utc(YearOf(n + 1), OpeningOf(n + 1, w), 1) = n + 1
         /\ \/ YearOf(n + 1) = YearOf(n) /\ OpeningOf(n + 1, w) = OpeningOf(n, w) + w
            \/ YearOf(n + 1) = YearOf(n) + 1
  <1> DEFINE y == YearOf(n)
             f == OpeningOf(n, w)
  <1>1. y \in FirstYear..LastYear /\ f \in Openings(w) /\ n \in Nat
    <2>1. n \in Nat
      BY DEF Dates
    <2> QED
      BY <2>1, SpanHolds
  <1>2. n + 1 = Utc(y, f + w, 1)
    OBVIOUS
  <1> HIDE DEF y, f
  <1>3. w \in 1..12 /\ f \in 1..12 /\ f + w \in 1..13
    BY <1>1, OpeningsFollow
  <1>4. CASE f + w < 13
    <2>1. f + w \in Openings(w)
      BY <1>1, <1>4, OpeningsFollow
    <2>2. (f + w) + w \in 1..13 /\ f + w < (f + w) + w
      BY <1>3, <2>1, OpeningsFollow
    <2>3. Utc(y, f + w, 1) + 28 <= Utc(y, (f + w) + w, 1) /\ Utc(y, (f + w) + w, 1) \in Nat
      BY <1>1, <1>3, <2>2, MonthsGrow
    <2>4. Utc(y, f + w, 1) <= n + 1 /\ n + 1 < Utc(y, (f + w) + w, 1)
      BY <1>1, <1>2, <2>3
    <2>5. YearOf(n + 1) = y /\ OpeningOf(n + 1, w) = f + w
      BY <1>1, <2>1, <2>4, SpanPlaced
    <2> QED
      BY <1>2, <2>5 DEF y, f
  <1>5. CASE f + w = 13
    <2>1. /\ n + 1 = Utc(y, 13, 1) /\ 1 \in 1..12
      BY <1>2, <1>5
    <2>2. n + 1 = Utc(y + 1, 1, 1)
      BY <1>1, <2>1, MonthsFollow
    <2>3. YearOf(n + 1) = y + 1
      <3> DEFINE m == MonthOf(n)
      <3>1. m \in 1..12 /\ Utc(y, m + 1, 1) \in Nat /\ n < Utc(y, m + 1, 1) /\ m + 1 \in 1..13
        BY <1>1, DayHasMonth, MonthsFollow DEF y
      <3>2. \/ n + 1 < Utc(y, m + 1, 1) /\ YearOf(n + 1) = y
            \/ n + 1 = Utc(y, m + 1, 1) /\ m < 12
            \/ YearOf(n + 1) = y + 1
        BY NextDayPlaced DEF y
      <3> HIDE DEF m
      <3>3. 13 \in 1..13 /\ (m + 1 < 13 \/ m + 1 = 13)
        BY <3>1
      <3>4. m + 1 < 13 => Utc(y, m + 1, 1) + 28 <= Utc(y, 13, 1)
        BY <1>1, <3>1, <3>3, MonthsGrow
      <3>5. Utc(y, m + 1, 1) <= n + 1
        BY <1>1, <2>1, <3>1, <3>3, <3>4
      <3>6. ~(n + 1 < Utc(y, m + 1, 1))
        BY <1>1, <3>1, <3>5
      <3>7. m < 12 => n + 1 # Utc(y, m + 1, 1)
        BY <1>1, <2>1, <3>1, <3>4
      <3> QED
        BY <3>2, <3>6, <3>7
    <2>4. n + 1 < Utc(y + 1, 1 + w, 1) /\ y + 1 \in FirstYear..LastYear /\ 1 \in Openings(w)
      <3>1. y + 1 \in FirstYear..LastYear /\ 1 \in Openings(w)
        BY <1>1, <2>3, DayHasYear, OpeningsFollow
      <3>2. 1 + w \in 1..13 /\ 1 \in 1..13 /\ 1 < 1 + w
        BY <1>3
      <3>3. Utc(y + 1, 1, 1) + 28 <= Utc(y + 1, 1 + w, 1) /\ Utc(y + 1, 1 + w, 1) \in Nat
        BY <3>1, <3>2, MonthsGrow
      <3> QED
        BY <1>1, <2>2, <3>1, <3>3
    <2>5. Utc(y + 1, 1, 1) <= n + 1
      BY <1>1, <2>2
    <2>6. OpeningOf(n + 1, w) = 1
      BY <2>4, <2>5, SpanPlaced
    <2> QED
      BY <2>2, <2>3, <2>6 DEF y, f
  <1> QED
    BY <1>3, <1>4, <1>5

\* The day before a span is in the span before, and its month is counted back.
LEMMA SpanBefore ==
  ASSUME NEW n \in Dates, NEW w \in Widths, YearOf(n) # FirstYear
  PROVE  LET k == Utc(YearOf(n), OpeningOf(n, w), 1) - 1
         IN Utc(YearOf(k), OpeningOf(k, w), 1) = Utc(YearOf(n), OpeningOf(n, w) - w, 1)
  <1> DEFINE y == YearOf(n)
             f == OpeningOf(n, w)
             k == Utc(y, f, 1) - 1
  <1>1. /\ y \in FirstYear..LastYear /\ f \in Openings(w) /\ Utc(y, f, 1) <= n /\ n \in Nat
        /\ Utc(y, f, 1) \in Nat /\ y # FirstYear /\ n < 12 * 365
    <2>1. n \in Nat /\ n < 12 * 365
      BY DEF Dates
    <2> QED
      BY <2>1, SpanHolds
  <1> HIDE DEF y, f
  <1>2. w \in 1..12 /\ f \in 1..12 /\ f + w \in 1..13 /\ FirstYear \in Nat
    BY <1>1, OpeningsFollow, WalkAssumption
  <1>3. ASSUME NEW z \in FirstYear..LastYear, NEW g \in Openings(w), Utc(z, g + w, 1) = Utc(y, f, 1)
        PROVE  Utc(YearOf(k), OpeningOf(k, w), 1) = Utc(z, g, 1)
    <2>1. g \in 1..13 /\ g + w \in 1..13 /\ g < g + w
      BY <1>2, OpeningsFollow
    <2>2. /\ Utc(z, g, 1) + 28 <= Utc(z, g + w, 1)
          /\ Utc(z, g, 1) \in Nat /\ Utc(z, g + w, 1) \in Nat
      BY <2>1, MonthsGrow
    <2>3. k \in Dates /\ Utc(z, g, 1) <= k /\ k < Utc(z, g + w, 1)
      <3>1. k = Utc(z, g + w, 1) - 1 /\ k < n
        BY <1>1, <1>3
      <3> HIDE DEF k
      <3>2. k \in Nat /\ Utc(z, g, 1) <= k /\ k < Utc(z, g + w, 1)
        BY <2>2, <3>1
      <3>3. k < 12 * 365
        BY <1>1, <3>1, <3>2
      <3>4. k \in Dates
        BY <3>2, <3>3 DEF Dates
      <3> QED
        BY <3>2, <3>4
    <2> HIDE DEF k
    <2> QED
      BY <2>3, SpanPlaced
  <1> HIDE DEF k
  <1>4. CASE f # 1
    <2>1. f - w \in Openings(w) /\ (f - w) + w = f
      BY <1>1, <1>2, <1>4, OpeningsFollow
    <2> QED
      BY <1>1, <1>3, <2>1 DEF y, f, k
  <1>5. CASE f = 1
    <2>1. /\ 13 - w \in Openings(w) /\ (13 - w) + w = 13 /\ y - 1 \in FirstYear..LastYear
          /\ (y - 1) + 1 = y
      <3>1. 13 - w \in Openings(w)
        BY <1>1, OpeningsFollow
      <3> QED
        BY <1>1, <1>2, <3>1 DEF LastYear
    <2>2. 1 \in 1..12 /\ 1 - w \in -11..0 /\ 1 - w \in Int /\ 1 \in Int /\ (1 - w) + 12 = 13 - w
      BY <1>2
    <2>3. Utc(y - 1, 13, 1) = Utc(y, f, 1)
      BY <1>5, <2>1, <2>2, MonthsFollow
    <2>4. Utc(YearOf(k), OpeningOf(k, w), 1) = Utc(y - 1, 13 - w, 1)
      BY <1>3, <2>1, <2>3
    <2>5. y \in Years /\ y - 1 \in Years
      BY <1>1, <2>1, YearsFollow
    <2>6. Utc(y, 1 - w, 1) = Utc(y - 1, 13 - w, 1)
      BY <2>2, <2>5, UtcCarries
    <2> QED
      BY <1>5, <2>4, <2>6 DEF y, f, k
  <1> QED
    BY <1>4, <1>5

(***************************************************************************)
(* Periods and keys                                                        *)
(***************************************************************************)
SpanTypes == {"monthly", "quarterly", "yearly"}
Width(type) == CASE type = "monthly" -> 1 [] type = "quarterly" -> 3 [] type = "yearly" -> 12

SpanFrom(n, w) == Utc(YearOf(n), OpeningOf(n, w), 1)
SpanTo(n, w) == Utc(YearOf(n), OpeningOf(n, w) + w, 1)

LEMMA DaysShift ==
  ASSUME NEW y \in FirstYear..LastYear, NEW m \in 1..13, NEW d \in Int
  PROVE  Utc(y, m, d) = Utc(y, m, 1) + d - 1 /\ Utc(y, m, 1) \in Nat
  <1>1. 1 \in 1..12 /\ 1 \in Int /\ y \in Int /\ y \in Years /\ y + 1 \in Years
    <2>1. y \in Int
      BY WalkAssumption DEF LastYear
    <2>2. 1 \in 1..12
      OBVIOUS
    <2> QED
      BY <2>1, <2>2, YearsFollow
  <1>2. CASE m \in 1..12
    BY <1>1, <1>2, UtcWithin
  <1>3. CASE m = 13
    <2>1. m \in Int /\ m \in 13..24 /\ m - 12 = 1
      BY <1>3
    <2>2. Utc(y, m, d) = Utc(y + 1, 1, d) /\ Utc(y, m, 1) = Utc(y + 1, 1, 1)
      BY <1>1, <2>1, UtcCarries
    <2> QED
      BY <1>1, <2>2, UtcWithin
  <1> QED
    BY <1>2, <1>3

LEMMA WidthOf ==
  ASSUME NEW type \in SpanTypes
  PROVE  /\ Width(type) \in Widths
         /\ type = "monthly" => Width(type) = 1
         /\ type = "quarterly" => Width(type) = 3
         /\ type = "yearly" => Width(type) = 12
  BY DEF SpanTypes, Width, Widths

LEMMA OpeningsAre ==
  ASSUME NEW n \in Dates
  PROVE  /\ OpeningOf(n, 1) = MonthOf(n) /\ OpeningOf(n, 3) = 3 * Quarter(n) + 1
         /\ OpeningOf(n, 12) = 1 /\ Quarter(n) \in 0..3 /\ MonthOf(n) \in 1..12
  <1>1. MonthOf(n) \in 1..12
    BY DayHasMonth
  <1>2. (MonthOf(n) - 1) \div 1 = MonthOf(n) - 1
    BY <1>1
  <1> QED
    BY <1>1, <1>2 DEF OpeningOf, Quarter

LEMMA BudgetSpans ==
  ASSUME NEW n \in Dates, NEW type \in SpanTypes
  PROVE  BudgetPeriod(n, type)
           = [start |-> SpanFrom(n, Width(type)), end |-> SpanTo(n, Width(type)) - 1]
  <1> DEFINE y == YearOf(n)
             m == MonthOf(n)
  <1>1. y \in FirstYear..LastYear /\ m \in 1..12 /\ Quarter(n) \in 0..3
    BY DayHasMonth, OpeningsAre
  <1> HIDE DEF y, m
  <1>2. \A k \in 1..13 : Utc(y, k, 0) = Utc(y, k, 1) - 1 /\ Utc(y, k, 31) = Utc(y, k, 1) + 30
    <2> TAKE k \in 1..13
    <2>1. 0 \in Int /\ 31 \in Int
      OBVIOUS
    <2>2. /\ Utc(y, k, 0) = Utc(y, k, 1) + 0 - 1 /\ Utc(y, k, 31) = Utc(y, k, 1) + 31 - 1
          /\ Utc(y, k, 1) \in Nat
      BY <1>1, <2>1, DaysShift
    <2> QED
      BY <2>2
  <1>3. CASE type = "monthly"
    <2>1. OpeningOf(n, 1) = m /\ m + 1 \in 1..13 /\ Width(type) = 1
      BY <1>1, <1>3, OpeningsAre, WidthOf DEF m
    <2>2. Utc(y, m + 1, 0) = Utc(y, m + 1, 1) - 1
      BY <1>2, <2>1
    <2> QED
      BY <1>3, <2>1, <2>2 DEF BudgetPeriod, SpanFrom, SpanTo, y, m
  <1>4. CASE type = "quarterly"
    <2>1. /\ OpeningOf(n, 3) = 3 * Quarter(n) + 1 /\ 3 * Quarter(n) + 4 \in 1..13
          /\ Width(type) = 3 /\ (3 * Quarter(n) + 1) + 3 = 3 * Quarter(n) + 4
      BY <1>1, <1>4, OpeningsAre, WidthOf
    <2>2. Utc(y, 3 * Quarter(n) + 4, 0) = Utc(y, 3 * Quarter(n) + 4, 1) - 1
      BY <1>2, <2>1
    <2> QED
      BY <1>4, <2>1, <2>2 DEF BudgetPeriod, SpanFrom, SpanTo, y
  <1>5. CASE type = "yearly"
    <2>1. OpeningOf(n, 12) = 1 /\ Width(type) = 12 /\ 1 + 12 = 13 /\ 12 \in 1..13 /\ 12 \in 1..12
      BY <1>5, OpeningsAre, WidthOf
    <2>2. Utc(y, 12, 31) = Utc(y, 12, 1) + 30
      BY <1>2, <2>1
    <2>3. Utc(y, 13, 1) = Utc(y, 12, 1) + 31
      <3>1. y \in Years /\ y + 1 \in Years
        BY <1>1, YearsFollow
      <3>2. Utc(y, 12, 1) = YearStart[y] + Offset(12) + (IF 12 > 2 THEN LeapDay(y) ELSE 0)
        BY <2>1, <3>1, MonthStart
      <3>3. YearStart[y + 1] = YearStart[y] + 365 + LeapDay(y) /\ YearStart[y] \in Nat
        BY <1>1, <3>1, YearsFollow
      <3>4. Utc(y, 13, 1) = YearStart[y + 1]
        BY <1>1, <2>1, MonthsFollow
      <3> QED
        BY <3>2, <3>3, <3>4, Offsets, LeapDayType
    <2>4. Utc(y, 12, 1) \in Nat
      BY <1>1, <2>1, MonthsFollow
    <2>5. Utc(y, 12, 31) = Utc(y, 13, 1) - 1
      BY <2>2, <2>3, <2>4
    <2> QED
      BY <1>5, <2>1, <2>5 DEF BudgetPeriod, SpanFrom, SpanTo, y
  <1> QED
    BY <1>3, <1>4, <1>5 DEF SpanTypes

\* Budget periods tile the calendar.
LEMMA BudgetsTile ==
  ASSUME date \in Dates, date + 1 \in Dates
  PROVE  PeriodsTile
  <1>1. date \in Nat
    BY DEF Dates
  <1> SUFFICES ASSUME NEW type \in PeriodTypes
               PROVE  LET period == BudgetPeriod(date, type) IN
                      /\ period.start <= date /\ date <= period.end
                      /\ IF date = period.end
                         THEN /\ NextBudgetPeriod(period.end, type).start = date + 1
                              /\ BudgetPeriod(date + 1, type) = NextBudgetPeriod(period.end, type)
                         ELSE BudgetPeriod(date + 1, type) = period
    BY DEF PeriodsTile
  <1>2. CASE type = "weekly"
    <2>1. \A k : BudgetPeriod(k, type) = [start |-> k - Weekday(k), end |-> k - Weekday(k) + 6]
      BY <1>2 DEF BudgetPeriod
    <2>2. /\ Weekday(date) \in 0..6
          /\ Weekday(date) = 6 => Weekday(date + 1) = 0
          /\ Weekday(date) # 6 => Weekday(date + 1) = Weekday(date) + 1
      BY <1>1 DEF Weekday
    <2> QED
      BY <1>1, <2>1, <2>2 DEF NextBudgetPeriod
  <1>3. CASE type \in SpanTypes
    <2> DEFINE w == Width(type)
               here == BudgetPeriod(date, type)
               next == BudgetPeriod(date + 1, type)
    <2>1. /\ here = [start |-> SpanFrom(date, w), end |-> SpanTo(date, w) - 1]
          /\ next = [start |-> SpanFrom(date + 1, w), end |-> SpanTo(date + 1, w) - 1]
      BY <1>3, BudgetSpans
    <2>2. w \in Widths
      BY <1>3, WidthOf
    <2> HIDE DEF w, here, next
    <2>3. /\ SpanFrom(date, w) \in Nat /\ SpanTo(date, w) \in Nat
          /\ SpanFrom(date, w) <= date /\ date < SpanTo(date, w)
          /\ YearOf(date) \in FirstYear..LastYear /\ OpeningOf(date, w) \in Openings(w)
      BY <2>2, SpanHolds DEF SpanFrom, SpanTo
    <2>4. here.start <= date /\ date <= here.end
      BY <1>1, <2>1, <2>3
    <2>5. CASE date = here.end
      <3>1. date + 1 = SpanTo(date, w)
        BY <1>1, <2>1, <2>3, <2>5
      <3>2. SpanFrom(date + 1, w) = date + 1
        BY <2>2, <3>1, SpanEnds DEF SpanFrom, SpanTo
      <3>3. next.start = date + 1
        BY <2>1, <3>2
      <3> QED
        BY <2>4, <2>5, <3>3 DEF NextBudgetPeriod, here, next
    <2>6. CASE date # here.end
      <3>1. SpanFrom(date, w) <= date + 1 /\ date + 1 < SpanTo(date, w)
        BY <1>1, <2>1, <2>3, <2>6
      <3>2. YearOf(date + 1) = YearOf(date) /\ OpeningOf(date + 1, w) = OpeningOf(date, w)
        BY <2>2, <2>3, <3>1, SpanPlaced DEF SpanFrom, SpanTo
      <3>3. next = here
        BY <2>1, <3>2 DEF SpanFrom, SpanTo
      <3> QED
        BY <2>4, <2>6, <3>3 DEF here, next
    <2> QED
      BY <2>5, <2>6
  <1> QED
    BY <1>2, <1>3 DEF PeriodTypes, SpanTypes

LEMMA ReportSpans ==
  ASSUME NEW n \in Dates, NEW type \in SpanTypes
  PROVE  LET b == ReportBoundary(n, type)
             w == Width(type) IN
         /\ b.start = SpanFrom(n, w) /\ b.end = SpanTo(n, w)
         /\ YearOf(n) # FirstYear => b.prior = Utc(YearOf(n), OpeningOf(n, w) - w, 1)
  <1> DEFINE y == YearOf(n)
             m == MonthOf(n)
  <1>1. y \in FirstYear..LastYear /\ m \in 1..12 /\ Quarter(n) \in 0..3
    BY DayHasMonth, OpeningsAre
  <1> HIDE DEF y, m
  <1>2. CASE type = "monthly"
    <2>1. OpeningOf(n, 1) = m /\ Width(type) = 1
      BY <1>2, OpeningsAre, WidthOf DEF m
    <2> QED
      BY <1>2, <2>1 DEF ReportBoundary, SpanFrom, SpanTo, y, m
  <1>3. CASE type = "quarterly"
    <2>1. /\ OpeningOf(n, 3) = 3 * Quarter(n) + 1 /\ Width(type) = 3
      BY <1>3, OpeningsAre, WidthOf
    <2> QED
      BY <1>3, <2>1 DEF ReportBoundary, SpanFrom, SpanTo, y
  <1>4. CASE type = "yearly"
    <2>1. OpeningOf(n, 12) = 1 /\ Width(type) = 12 /\ 1 + 12 = 13 /\ 1 - 12 = -11
      BY <1>4, OpeningsAre, WidthOf
    <2>2. -11 \in -11..0 /\ -11 \in Int /\ 1 \in Int /\ -11 + 12 = 1 /\ 1 \in 1..12
      OBVIOUS
    <2>3. y # FirstYear => Utc(y, -11, 1) = Utc(y - 1, 1, 1)
      <3> SUFFICES ASSUME y # FirstYear PROVE Utc(y, -11, 1) = Utc(y - 1, 1, 1)
        OBVIOUS
      <3>1. FirstYear \in Nat
        BY WalkAssumption
      <3>2. y \in Years /\ y - 1 \in Years
        BY <1>1, <3>1 DEF LastYear, Years
      <3> QED
        BY <2>2, <3>2, UtcCarries
    <2>4. Utc(y, 13, 1) = Utc(y + 1, 1, 1)
      BY <1>1, <2>2, MonthsFollow
    <2>5. ReportBoundary(n, type) = [prior |-> Utc(y - 1, 1, 1), start |-> Utc(y, 1, 1),
                                     end |-> Utc(y + 1, 1, 1)]
      BY <1>4 DEF ReportBoundary, y
    <2>6. SpanFrom(n, 12) = Utc(y, 1, 1) /\ SpanTo(n, 12) = Utc(y, 13, 1)
          /\ Utc(y, OpeningOf(n, 12) - 12, 1) = Utc(y, -11, 1)
      BY <2>1 DEF SpanFrom, SpanTo, y
    <2> QED
      BY <2>1, <2>3, <2>4, <2>5, <2>6 DEF y
  <1> QED
    BY <1>2, <1>3, <1>4 DEF SpanTypes

\* The key of a span is its year and a number that grows with its first month.
LEMMA SpanKeys ==
  ASSUME NEW n \in Dates, NEW k \in Dates, NEW type \in SpanTypes
  PROVE  /\ PeriodKey(n, type)[1] = YearOf(n)
         /\ YearOf(n) = YearOf(k) /\ OpeningOf(n, Width(type)) = OpeningOf(k, Width(type))
              => PeriodKey(n, type) = PeriodKey(k, type)
         /\ OpeningOf(n, Width(type)) < OpeningOf(k, Width(type))
              => PeriodKey(n, type)[2] < PeriodKey(k, type)[2]
  <1>1. /\ Quarter(n) \in 0..3 /\ Quarter(k) \in 0..3 /\ MonthOf(n) \in 1..12 /\ MonthOf(k) \in 1..12
        /\ OpeningOf(n, 1) = MonthOf(n) /\ OpeningOf(k, 1) = MonthOf(k)
        /\ OpeningOf(n, 3) = 3 * Quarter(n) + 1 /\ OpeningOf(k, 3) = 3 * Quarter(k) + 1
        /\ OpeningOf(n, 12) = 1 /\ OpeningOf(k, 12) = 1
    BY OpeningsAre
  <1>2. CASE type = "monthly"
    <2>1. PeriodKey(n, type) = <<YearOf(n), MonthOf(n)>> /\ PeriodKey(k, type) = <<YearOf(k), MonthOf(k)>>
          /\ Width(type) = 1
      BY <1>2, WidthOf DEF PeriodKey
    <2> QED
      BY <1>1, <2>1
  <1>3. CASE type = "quarterly"
    <2>1. /\ PeriodKey(n, type) = <<YearOf(n), Quarter(n) + 1>>
          /\ PeriodKey(k, type) = <<YearOf(k), Quarter(k) + 1>> /\ Width(type) = 3
      BY <1>3, WidthOf DEF PeriodKey
    <2> QED
      BY <1>1, <2>1
  <1>4. CASE type = "yearly"
    <2>1. PeriodKey(n, type) = <<YearOf(n), 0>> /\ PeriodKey(k, type) = <<YearOf(k), 0>>
          /\ Width(type) = 12
      BY <1>4, WidthOf DEF PeriodKey
    <2> QED
      BY <1>1, <2>1
  <1> QED
    BY <1>2, <1>3, <1>4 DEF SpanTypes

\* Later days are in no earlier year, and only the first year has no year before.
LEMMA YearsPass ==
  ASSUME NEW n \in Dates, NEW k \in Dates, n <= k
  PROVE  YearOf(n) <= YearOf(k)
  <1>1. /\ YearOf(n) \in FirstYear..LastYear /\ YearStart[YearOf(n)] <= n
        /\ YearOf(k) \in FirstYear..LastYear /\ k < YearStart[YearOf(k) + 1]
    BY DayHasYear
  <1>2. n \in Nat /\ k \in Nat /\ FirstYear \in Nat
    BY WalkAssumption DEF Dates
  <1>3. /\ YearOf(n) \in Nat /\ YearOf(k) \in Nat
        /\ YearOf(n) \in Years /\ YearOf(k) + 1 \in Years
        /\ YearStart[YearOf(n)] \in Nat /\ YearStart[YearOf(k) + 1] \in Nat
    <2>1. YearOf(n) \in Nat /\ YearOf(k) \in Nat
      BY <1>1, <1>2 DEF LastYear
    <2>2. YearOf(n) \in Years /\ YearOf(k) + 1 \in Years
      BY <1>1, YearsFollow
    <2> QED
      BY <2>1, <2>2, YearsFollow
  <1>4. YearOf(k) + 1 <= YearOf(n) => YearStart[YearOf(k) + 1] <= YearStart[YearOf(n)]
    <2> SUFFICES ASSUME YearOf(k) + 1 <= YearOf(n)
                 PROVE  YearStart[YearOf(k) + 1] <= YearStart[YearOf(n)]
      OBVIOUS
    <2>1. YearStart[YearOf(k) + 1] + 365 * (YearOf(n) - (YearOf(k) + 1)) <= YearStart[YearOf(n)]
      BY <1>3, YearsGrow
    <2> QED
      BY <1>3, <2>1
  <1> QED
    BY <1>1, <1>2, <1>3, <1>4

LEMMA FirstYearPasses ==
  ASSUME NEW n \in Dates, n >= 366
  PROVE  YearOf(n) # FirstYear
  <1>1. FirstYear \in FirstYear..LastYear /\ n \in Nat
    BY WalkAssumption DEF LastYear, Dates
  <1>2. YearStart[FirstYear + 1] = 365 + LeapDay(FirstYear)
    <2>1. /\ YearStart[FirstYear] = 0
          /\ YearStart[FirstYear + 1] = YearStart[FirstYear] + 365 + LeapDay(FirstYear)
      BY <1>1, YearsFollow
    <2> QED
      BY <2>1, LeapDayType
  <1>3. YearOf(n) = FirstYear => n < YearStart[FirstYear + 1]
    BY DayHasYear
  <1> QED
    BY <1>1, <1>2, <1>3, LeapDayType

LEMMA WeekDays ==
  ASSUME NEW n \in Nat
  PROVE  /\ Weekday(n) \in 0..6 /\ n - Weekday(n) \in Nat
         /\ Weekday(n - Weekday(n)) = 0
         /\ Weekday(n) = 6 => Weekday(n + 1) = 0
         /\ Weekday(n) # 6 => Weekday(n + 1) = Weekday(n) + 1
         /\ Weekday(n) = 0 /\ n >= 7 => Weekday(n - 1) = 6
  BY DEF Weekday

\* The name of one report type holds what the property asks of it.
Named(type) ==
  LET b == ReportBoundary(date, type)
      key == PeriodKey(date, type) IN
  /\ b.start <= date /\ date < b.end
  /\ PeriodKey(b.start, type) = key
  /\ IF date + 1 = b.end THEN Earlier(key, PeriodKey(date + 1, type))
                         ELSE PeriodKey(date + 1, type) = key
  /\ ReportBoundary(b.start - 1, type).start = b.prior

LEMMA DaysNamed ==
  ASSUME date \in Dates, date + 1 \in Dates
  PROVE  Named("daily")
  <1>1. \A k : /\ ReportBoundary(k, "daily") = [prior |-> k - 1, start |-> k, end |-> k + 1]
               /\ PeriodKey(k, "daily") = <<YearOf(k), 100 * MonthOf(k) + DayOf(k)>>
    BY DEF ReportBoundary, PeriodKey
  <1>2. date \in Nat
    BY DEF Dates
  <1>3. /\ MonthOf(date) \in 1..12 /\ DayOf(date) \in 1..31
        /\ YearOf(date) \in FirstYear..LastYear
    BY DayHasMonth, DayIsUtc
  <1>4. YearOf(date) \in Nat
    BY <1>3, WalkAssumption DEF LastYear
  <1>5. Earlier(PeriodKey(date, "daily"), PeriodKey(date + 1, "daily"))
    <2>1. \/ /\ YearOf(date + 1) = YearOf(date) /\ MonthOf(date + 1) = MonthOf(date)
             /\ DayOf(date + 1) = DayOf(date) + 1
          \/ /\ YearOf(date + 1) = YearOf(date) /\ MonthOf(date + 1) = MonthOf(date) + 1
             /\ DayOf(date + 1) = 1
          \/ YearOf(date + 1) = YearOf(date) + 1
      BY NextDayPlaced
    <2> QED
      BY <1>1, <1>3, <1>4, <2>1 DEF Earlier
  <1> QED
    BY <1>1, <1>2, <1>5 DEF Named

LEMMA WeeksNamed ==
  ASSUME date \in Nat, date >= 366, date + 7 <= 12 * 365
  PROVE  Named("weekly")
  <1>1. \A k : /\ ReportBoundary(k, "weekly") = [prior |-> (k - Weekday(k)) - 7,
                     start |-> k - Weekday(k), end |-> (k - Weekday(k)) + 7]
               /\ PeriodKey(k, "weekly") = WeekKey(k)
    BY DEF ReportBoundary, PeriodKey
  <1> DEFINE monday == date - Weekday(date)
             thursday == ThursdayOf(date)
             base(year) == ThursdayOf(Utc(year, 1, 4))
             key(t) == <<YearOf(t), 1 + (t - base(YearOf(t))) \div 7>>
  <1>2. \A k : WeekKey(k) = key(ThursdayOf(k))
    BY DEF WeekKey
  <1>3. /\ Weekday(date) \in 0..6 /\ monday \in Nat /\ monday >= 7 /\ Weekday(monday) = 0
        /\ Weekday(monday - 1) = 6
    <2>1. Weekday(date) \in 0..6 /\ monday \in Nat /\ Weekday(monday) = 0
      BY WeekDays
    <2> HIDE DEF monday
    <2>2. monday = date - Weekday(date)
      BY DEF monday
    <2> QED
      BY <2>1, <2>2, WeekDays
  <1>4. thursday = monday + 3 /\ ThursdayOf(monday) = monday + 3
    BY <1>3 DEF ThursdayOf
  <1>5. monday <= date /\ date < monday + 7
    BY <1>3
  <1>6. PeriodKey(monday, "weekly") = PeriodKey(date, "weekly")
    <2> HIDE DEF key, monday
    <2> QED
      BY <1>1, <1>2, <1>4
  <1>7. ASSUME Weekday(date) # 6
        PROVE  date + 1 # monday + 7 /\ PeriodKey(date + 1, "weekly") = PeriodKey(date, "weekly")
    <2>1. Weekday(date + 1) = Weekday(date) + 1 /\ date + 1 # monday + 7
      BY <1>3, <1>7, WeekDays
    <2>2. ThursdayOf(date + 1) = ThursdayOf(date)
      BY <1>3, <2>1 DEF ThursdayOf
    <2> HIDE DEF key, monday
    <2>3. PeriodKey(date + 1, "weekly") = PeriodKey(date, "weekly")
      BY <1>1, <1>2, <2>2
    <2> QED
      BY <2>1, <2>3
  <1>8. ASSUME Weekday(date) = 6
        PROVE  /\ date + 1 = monday + 7
               /\ Earlier(PeriodKey(date, "weekly"), PeriodKey(date + 1, "weekly"))
    <2>1. ThursdayOf(date + 1) = thursday + 7 /\ date + 1 = monday + 7
      BY <1>3, <1>4, <1>8, WeekDays DEF ThursdayOf
    <2>2. thursday \in Dates /\ thursday + 7 \in Dates
      BY <1>3, <1>4, <1>8 DEF Dates
    <2> HIDE DEF monday, thursday
    <2>3. thursday \in Nat
      BY <2>2 DEF Dates
    <2>4. thursday <= thursday + 7
      BY <2>3
    <2>5. YearOf(thursday) <= YearOf(thursday + 7)
      BY <2>2, <2>4, YearsPass
    <2>6. YearOf(thursday) \in FirstYear..LastYear /\ YearOf(thursday + 7) \in FirstYear..LastYear
      BY <2>2, DayHasYear
    <2>7. YearOf(thursday) \in Nat /\ YearOf(thursday + 7) \in Nat
      BY <2>6, WalkAssumption DEF LastYear
    <2>8. base(YearOf(thursday)) \in Int
      <3>1. 1 \in 1..13 /\ 4 \in Int
        OBVIOUS
      <3>2. Utc(YearOf(thursday), 1, 4) = Utc(YearOf(thursday), 1, 1) + 4 - 1
            /\ Utc(YearOf(thursday), 1, 1) \in Nat
        BY <2>6, <3>1, DaysShift
      <3>3. Utc(YearOf(thursday), 1, 4) \in Nat
        BY <3>2
      <3>4. Weekday(Utc(YearOf(thursday), 1, 4)) \in 0..6
        BY <3>3, WeekDays
      <3> QED
        BY <3>3, <3>4 DEF ThursdayOf
    <2> HIDE DEF base
    <2>9. Earlier(key(thursday), key(thursday + 7))
      <3>1. CASE YearOf(thursday) < YearOf(thursday + 7)
        BY <3>1 DEF Earlier
      <3>2. CASE YearOf(thursday) = YearOf(thursday + 7)
        <4>1. \A k \in Int : (k + 7) \div 7 = (k \div 7) + 1
          OBVIOUS
        <4>2. thursday - base(YearOf(thursday)) \in Int
              /\ (thursday + 7) - base(YearOf(thursday)) = (thursday - base(YearOf(thursday))) + 7
          BY <2>3, <2>8
        <4>3. ((thursday + 7) - base(YearOf(thursday))) \div 7
                = ((thursday - base(YearOf(thursday))) \div 7) + 1
          BY <4>1, <4>2
        <4>4. (thursday - base(YearOf(thursday))) \div 7 \in Int
          BY <4>2
        <4> QED
          BY <3>2, <4>3, <4>4 DEF Earlier
      <3> QED
        BY <2>5, <2>7, <3>1, <3>2
    <2> HIDE DEF key
    <2>10. Earlier(PeriodKey(date, "weekly"), PeriodKey(date + 1, "weekly"))
      BY <1>1, <1>2, <2>1, <2>9 DEF thursday
    <2> QED
      BY <2>1, <2>10
  <1>9. ReportBoundary(monday - 1, "weekly").start = monday - 7
    <2> HIDE DEF monday
    <2> QED
      BY <1>1, <1>3
  <1> DEFINE b == ReportBoundary(date, "weekly")
  <1>10. b.prior = monday - 7 /\ b.start = monday /\ b.end = monday + 7
    BY <1>1
  <1> HIDE DEF monday, key, b
  <1>11. IF date + 1 = b.end THEN Earlier(PeriodKey(date, "weekly"), PeriodKey(date + 1, "weekly"))
                             ELSE PeriodKey(date + 1, "weekly") = PeriodKey(date, "weekly")
    BY <1>7, <1>8, <1>10
  <1>12. b.start <= date /\ date < b.end /\ PeriodKey(b.start, "weekly") = PeriodKey(date, "weekly")
         /\ ReportBoundary(b.start - 1, "weekly").start = b.prior
    BY <1>5, <1>6, <1>9, <1>10
  <1> QED
    BY <1>11, <1>12 DEF Named, b

LEMMA SpansNamed ==
  ASSUME date \in Dates, date + 1 \in Dates, date >= 366, NEW type \in SpanTypes
  PROVE  Named(type)
  <1> DEFINE w == Width(type)
             b == ReportBoundary(date, type)
             key(k) == PeriodKey(k, type)
  <1>1. date \in Nat /\ YearOf(date) # FirstYear /\ w \in Widths
    <2>1. date \in Nat
      BY DEF Dates
    <2> QED
      BY <2>1, FirstYearPasses, WidthOf
  <1>2. /\ b.prior = Utc(YearOf(date), OpeningOf(date, w) - w, 1)
        /\ b.start = SpanFrom(date, w) /\ b.end = SpanTo(date, w)
    BY <1>1, ReportSpans
  <1>3. \A k, l \in Dates :
          /\ key(k)[1] = YearOf(k)
          /\ YearOf(k) = YearOf(l) /\ OpeningOf(k, w) = OpeningOf(l, w) => key(k) = key(l)
          /\ OpeningOf(k, w) < OpeningOf(l, w) => key(k)[2] < key(l)[2]
    BY SpanKeys
  <1>4. SpanFrom(b.start - 1, w) = b.prior
    BY <1>1, <1>2, SpanBefore DEF SpanFrom
  <1>5. \A k \in Dates : ReportBoundary(k, type).start = SpanFrom(k, w)
    BY ReportSpans
  <1> HIDE DEF w, key, b
  <1>6. /\ SpanFrom(date, w) \in Nat /\ SpanTo(date, w) \in Nat
        /\ SpanFrom(date, w) <= date /\ date < SpanTo(date, w)
        /\ YearOf(date) \in FirstYear..LastYear /\ OpeningOf(date, w) \in Openings(w)
        /\ w \in 1..12 /\ OpeningOf(date, w) \in 1..12
    BY <1>1, SpanHolds, OpeningsFollow DEF SpanFrom, SpanTo
  <1>7. /\ SpanFrom(date, w) >= 1 /\ SpanFrom(date, w) < SpanTo(date, w)
        /\ YearOf(date) \in Nat /\ FirstYear \in Nat
    <2>1. FirstYear \in Nat /\ YearOf(date) \in Nat
      BY <1>6, WalkAssumption DEF LastYear
    <2>2. FirstYear \in Years /\ YearOf(date) \in Years /\ FirstYear + 1 <= YearOf(date)
          /\ YearStart[FirstYear] = 0
      BY <1>1, <1>6, <2>1, YearsFollow DEF Years, LastYear
    <2>3. YearStart[FirstYear] + 365 * (YearOf(date) - FirstYear) <= YearStart[YearOf(date)]
      BY <2>1, <2>2, YearsGrow
    <2>4. YearStart[YearOf(date)] >= 1
      BY <2>1, <2>2, <2>3, YearsFollow
    <2>5. /\ 1 \in 1..12 /\ 1 \in 1..13 /\ OpeningOf(date, w) \in 1..13 /\ 1 <= OpeningOf(date, w)
      BY <1>6
    <2>6. Utc(YearOf(date), 1, 1) <= SpanFrom(date, w) /\ Utc(YearOf(date), 1, 1) = YearStart[YearOf(date)]
      BY <1>6, <2>5, MonthsOrder, MonthsFollow DEF SpanFrom
    <2>7. YearStart[YearOf(date)] \in Nat
      BY <2>2, YearsFollow
    <2> QED
      BY <1>1, <1>6, <2>1, <2>4, <2>6, <2>7
  <1>8. b.start \in Dates /\ b.start - 1 \in Dates
    <2>1. date < 12 * 365
      BY DEF Dates
    <2>2. /\ b.start \in Nat /\ b.start < 12 * 365
          /\ b.start - 1 \in Nat /\ b.start - 1 < 12 * 365
      BY <1>1, <1>2, <1>6, <1>7, <2>1
    <2>3. \A k \in Nat : k < 12 * 365 => k \in Dates
      BY DEF Dates
    <2> QED
      BY <2>2, <2>3
  <1>9. key(b.start) = key(date)
    <2>1. YearOf(b.start) = YearOf(date) /\ OpeningOf(b.start, w) = OpeningOf(date, w)
      BY <1>1, <1>2, <1>6, <1>7, <1>8, SpanPlaced DEF SpanFrom, SpanTo
    <2> QED
      BY <1>3, <1>8, <2>1
  <1>10. ASSUME date + 1 = b.end PROVE Earlier(key(date), key(date + 1))
    <2>1. \/ YearOf(date + 1) = YearOf(date) /\ OpeningOf(date + 1, w) = OpeningOf(date, w) + w
          \/ YearOf(date + 1) = YearOf(date) + 1
      BY <1>1, <1>2, <1>10, SpanEnds DEF SpanTo
    <2>2. \/ YearOf(date + 1) = YearOf(date) /\ OpeningOf(date, w) < OpeningOf(date + 1, w)
          \/ YearOf(date) < YearOf(date + 1)
      BY <1>6, <1>7, <2>1
    <2> QED
      BY <1>3, <2>2 DEF Earlier
  <1>11. ASSUME date + 1 # b.end PROVE key(date + 1) = key(date)
    <2>1. SpanFrom(date, w) <= date + 1 /\ date + 1 < SpanTo(date, w)
      BY <1>1, <1>2, <1>6, <1>11
    <2>2. YearOf(date + 1) = YearOf(date) /\ OpeningOf(date + 1, w) = OpeningOf(date, w)
      BY <1>1, <1>6, <2>1, SpanPlaced DEF SpanFrom, SpanTo
    <2> QED
      BY <1>3, <2>2
  <1>12. ReportBoundary(b.start - 1, type).start = b.prior
    BY <1>4, <1>5, <1>8
  <1> QED
    BY <1>2, <1>6, <1>9, <1>10, <1>11, <1>12 DEF Named, b, key

\* The names of reports agree with the periods they cover.
LEMMA ReportsNamed ==
  ASSUME date \in Nat, date >= 366, date + 7 <= 12 * 365
  PROVE  KeysNameReports
  <1>1. date \in Dates /\ date + 1 \in Dates
    BY DEF Dates
  <1>2. \A type \in ReportTypes : Named(type)
    BY <1>1, DaysNamed, WeeksNamed, SpansNamed DEF ReportTypes, PeriodTypes, SpanTypes
  <1> QED
    BY <1>2 DEF KeysNameReports, Named

(***************************************************************************)
(* Due dates                                                               *)
(***************************************************************************)

\* Months follow one another into the year after the last.
LEMMA MonthsGoOn ==
  ASSUME NEW y \in FirstYear..LastYear, NEW m \in 1..14
  PROVE  /\ Utc(y, m, 1) \in Nat /\ Utc(y, m + 1, 1) \in Nat
         /\ Utc(y, m, 1) + 28 <= Utc(y, m + 1, 1) /\ Utc(y, m + 1, 1) <= Utc(y, m, 1) + 31
         /\ \A d \in Int : /\ Utc(y, m, d) = Utc(y, m, 1) + d - 1
                           /\ Utc(y, m + 1, d) = Utc(y, m + 1, 1) + d - 1
  <1>1. y \in Years /\ y + 1 \in Years /\ YearStart[y + 1] \in Nat
    BY YearsFollow
  <1>2. /\ Utc(y, 13, 1) = YearStart[y + 1] /\ Utc(y, 14, 1) = YearStart[y + 1] + 31
        /\ Utc(y, 15, 1) = YearStart[y + 1] + 59 + LeapDay(y + 1)
    <2>1. /\ 13 \in Int /\ 14 \in Int /\ 15 \in Int /\ 13 \in 13..24 /\ 14 \in 13..24 /\ 15 \in 13..24
          /\ 13 - 12 = 1 /\ 14 - 12 = 2 /\ 15 - 12 = 3 /\ 1 \in Int
          /\ 1 \in 1..12 /\ 2 \in 1..12 /\ 3 \in 1..12
      OBVIOUS
    <2>2. /\ Utc(y, 13, 1) = Utc(y + 1, 1, 1) /\ Utc(y, 14, 1) = Utc(y + 1, 2, 1)
          /\ Utc(y, 15, 1) = Utc(y + 1, 3, 1)
      BY <1>1, <2>1, UtcCarries
    <2>3. /\ Utc(y + 1, 1, 1) = YearStart[y + 1] + Offset(1) + (IF 1 > 2 THEN LeapDay(y + 1) ELSE 0)
          /\ Utc(y + 1, 2, 1) = YearStart[y + 1] + Offset(2) + (IF 2 > 2 THEN LeapDay(y + 1) ELSE 0)
          /\ Utc(y + 1, 3, 1) = YearStart[y + 1] + Offset(3) + (IF 3 > 2 THEN LeapDay(y + 1) ELSE 0)
      BY <1>1, <2>1, MonthStart
    <2> QED
      BY <1>1, <2>2, <2>3, Offsets, LeapDayType
  <1>3. LeapDay(y + 1) \in {0, 1}
    BY LeapDayType
  <1>4. ASSUME NEW k \in 1..15, NEW d \in Int PROVE Utc(y, k, d) = Utc(y, k, 1) + d - 1
    <2>1. CASE k \in 1..13
      BY <2>1, DaysShift
    <2>2. CASE k \notin 1..13
      <3>1. k \in Int /\ k \in 13..24 /\ k - 12 \in 1..12 /\ 1 \in Int
        BY <2>2
      <3>2. Utc(y, k, d) = Utc(y + 1, k - 12, d) /\ Utc(y, k, 1) = Utc(y + 1, k - 12, 1)
        BY <1>1, <3>1, UtcCarries
      <3>3. Utc(y + 1, k - 12, d) = Utc(y + 1, k - 12, 1) + d - 1
        <4>1. y + 1 \in Years /\ k - 12 \in 1..12
          BY <1>1, <3>1
        <4> QED
          BY <4>1, UtcWithin
      <3> QED
        BY <3>2, <3>3
    <2> QED
      BY <2>1, <2>2
  <1>5. /\ Utc(y, m, 1) \in Nat /\ Utc(y, m + 1, 1) \in Nat
        /\ Utc(y, m, 1) + 28 <= Utc(y, m + 1, 1) /\ Utc(y, m + 1, 1) <= Utc(y, m, 1) + 31
    <2>1. CASE m \in 1..12
      BY <2>1, MonthsFollow
    <2>2. CASE m = 13
      BY <1>1, <1>2, <2>2
    <2>3. CASE m = 14
      BY <1>1, <1>2, <1>3, <2>3
    <2> QED
      BY <2>1, <2>2, <2>3
  <1>6. m \in 1..15 /\ m + 1 \in 1..15
    OBVIOUS
  <1> QED
    BY <1>4, <1>5, <1>6

\* An installment is a week at least and three long months at most.
LEMMA InstallmentsFollow ==
  ASSUME NEW n \in Dates, NEW frequency \in Frequencies
  PROVE  /\ AddInstallment(n, frequency) \in Nat
         /\ n + 7 <= AddInstallment(n, frequency) /\ AddInstallment(n, frequency) <= n + 93
  <1> DEFINE y == YearOf(n)
             m == MonthOf(n)
             d == DayOf(n)
             s(k) == Utc(y, k, 1)
  <1>1. n \in Nat
    BY DEF Dates
  <1>2. y \in FirstYear..LastYear /\ m \in 1..12 /\ d \in 1..31 /\ n = s(m) + d - 1
    BY DayHasMonth, DayIsUtc
  <1> HIDE DEF y, m, d
  <1>3. m \in 1..14 /\ m + 1 \in 1..14 /\ m + 2 \in 1..14 /\ d \in Int
        /\ (m + 1) + 1 = m + 2 /\ (m + 2) + 1 = m + 3
    BY <1>2
  <1>4. /\ s(m) \in Nat /\ s(m + 1) \in Nat /\ s(m + 2) \in Nat /\ s(m + 3) \in Nat
        /\ s(m) + 28 <= s(m + 1) /\ s(m + 1) <= s(m) + 31
        /\ s(m + 1) + 28 <= s(m + 2) /\ s(m + 2) <= s(m + 1) + 31
        /\ s(m + 2) + 28 <= s(m + 3) /\ s(m + 3) <= s(m + 2) + 31
        /\ Utc(y, m + 1, d) = s(m + 1) + d - 1 /\ Utc(y, m + 3, d) = s(m + 3) + d - 1
    <2>1. /\ s(m) \in Nat /\ s(m + 1) \in Nat
          /\ s(m) + 28 <= s(m + 1) /\ s(m + 1) <= s(m) + 31
          /\ Utc(y, m + 1, d) = s(m + 1) + d - 1
      BY <1>2, <1>3, MonthsGoOn
    <2>2. s(m + 1) + 28 <= s(m + 2) /\ s(m + 2) <= s(m + 1) + 31
      BY <1>2, <1>3, MonthsGoOn
    <2>3. /\ s(m + 2) \in Nat /\ s(m + 3) \in Nat
          /\ s(m + 2) + 28 <= s(m + 3) /\ s(m + 3) <= s(m + 2) + 31
          /\ Utc(y, m + 3, d) = s(m + 3) + d - 1
      BY <1>2, <1>3, MonthsGoOn
    <2> QED
      BY <2>1, <2>2, <2>3
  <1> HIDE DEF s
  <1>5. CASE frequency = "weekly"
    BY <1>1, <1>5 DEF AddInstallment
  <1>6. CASE frequency = "monthly"
    <2>1. AddInstallment(n, frequency) = s(m + 1) + d - 1
      BY <1>4, <1>6 DEF AddInstallment, y, m, d
    <2> QED
      BY <1>2, <1>4, <2>1
  <1>7. CASE frequency = "quarterly"
    <2>1. AddInstallment(n, frequency) = s(m + 3) + d - 1
      BY <1>4, <1>7 DEF AddInstallment, y, m, d
    <2> QED
      BY <1>2, <1>4, <2>1
  <1> QED
    BY <1>5, <1>6, <1>7 DEF Frequencies

\* The recursion of NextDue, which ends because every installment moves on.
DueStep(r, start, frequency, asOf, n) ==
  IF n >= asOf /\ n # start THEN n ELSE r[AddInstallment(n, frequency)]
IsDue(r, start, frequency, asOf) ==
  r = [n \in start..(asOf + 100) |-> DueStep(r, start, frequency, asOf, n)]

LEMMA DueExists ==
  ASSUME NEW start \in Nat, NEW asOf \in Dates, start < asOf, NEW frequency \in Frequencies
  PROVE  \E r : IsDue(r, start, frequency, asOf)
  <1> DEFINE last == asOf + 100
             D == start..last
             add(n) == AddInstallment(n, frequency)
             step(r, n) == DueStep(r, start, frequency, asOf, n)
             upTo(r, k) == \A n \in D : n > last - k => r[n] = step(r, n)
             bad == {k \in Nat : ~\E r : upTo(r, k)}
  <1>1. asOf \in Nat /\ last \in Nat /\ D \subseteq Nat /\ \A n \in D : n <= asOf => n \in Dates
    BY DEF Dates
  <1>2. ASSUME NEW n \in D, ~(n >= asOf /\ n # start)
        PROVE  add(n) \in D /\ n + 7 <= add(n)
    <2>1. n \in Nat /\ n <= asOf
      BY <1>1, <1>2
    <2>2. add(n) \in Nat /\ n + 7 <= add(n) /\ add(n) <= n + 93
      BY <1>1, <2>1, InstallmentsFollow
    <2> HIDE DEF add
    <2> QED
      BY <1>1, <2>1, <2>2
  <1>3. \A r, q, n : (n \in D /\ (add(n) \in D /\ n + 7 <= add(n) => r[add(n)] = q[add(n)]))
                        => step(r, n) = step(q, n)
    BY <1>2 DEF DueStep
  <1> HIDE DEF step, add
  <1>4. ASSUME bad # {} PROVE FALSE
    <2>1. PICK k \in bad : \A j \in bad : k <= j
      <3> HIDE DEF bad
      <3>1. bad \subseteq Nat
        BY DEF bad
      <3> QED
        BY <1>4, <3>1, LeastNatural
    <2>2. CASE k = 0
      <3>1. upTo(0, k)
        BY <1>1, <2>2
      <3> QED
        BY <2>1, <3>1
    <2>3. CASE k # 0
      <3>1. k \in Nat /\ k - 1 \in Nat /\ k - 1 \notin bad
        <4>1. k \in Nat
          OBVIOUS
        <4>2. k - 1 \in Nat /\ ~(k <= k - 1)
          BY <2>3, <4>1
        <4> HIDE DEF bad
        <4> QED
          BY <2>1, <4>1, <4>2
      <3>2. PICK old : upTo(old, k - 1)
        BY <3>1
      <3> DEFINE new == [n \in D |-> IF n > last - (k - 1) THEN old[n] ELSE step(old, n)]
      <3>3. ASSUME NEW n \in D, n > last - k PROVE new[n] = step(new, n)
        <4>1. new[n] = step(old, n)
          BY <3>2
        <4>2. add(n) \in D /\ n + 7 <= add(n) => new[add(n)] = old[add(n)]
          <5> SUFFICES ASSUME add(n) \in D, n + 7 <= add(n) PROVE new[add(n)] = old[add(n)]
            OBVIOUS
          <5>1. add(n) > last - (k - 1)
            BY <1>1, <3>1, <3>3
          <5> QED
            BY <5>1
        <4> HIDE DEF new
        <4>3. step(new, n) = step(old, n)
          BY <1>3, <4>2
        <4> QED
          BY <4>1, <4>3
      <3>4. upTo(new, k)
        BY <3>3
      <3> HIDE DEF new, upTo
      <3> QED
        BY <2>1, <3>4
    <2> QED
      BY <2>2, <2>3
  <1>5. PICK r : upTo(r, last + 1)
    <2>1. last + 1 \in Nat
      BY <1>1
    <2> QED
      BY <1>4, <2>1
  <1>6. \A n \in D : r[n] = step(r, n)
    BY <1>1, <1>5
  <1> DEFINE all == [n \in D |-> r[n]]
  <1>7. ASSUME NEW n \in D PROVE all[n] = step(all, n)
    <2>1. add(n) \in D => all[add(n)] = r[add(n)]
      OBVIOUS
    <2>2. all[n] = step(r, n)
      BY <1>6
    <2> HIDE DEF all
    <2>3. step(all, n) = step(r, n)
      BY <1>3, <2>1
    <2> QED
      BY <2>2, <2>3
  <1>8. all = [n \in D |-> step(all, n)]
    <2>1. all = [n \in D |-> all[n]]
      OBVIOUS
    <2> HIDE DEF all
    <2> QED
      BY <1>7, <2>1
  <1> QED
    BY <1>8 DEF IsDue, step

LEMMA DueUnfolds ==
  ASSUME NEW start \in Nat, NEW asOf \in Dates, start < asOf, NEW frequency \in Frequencies
  PROVE  \E r : IsDue(r, start, frequency, asOf) /\ NextDue(start, frequency, asOf) = r[start]
  <1> DEFINE due == CHOOSE r : IsDue(r, start, frequency, asOf)
  <1>1. IsDue(due, start, frequency, asOf)
    BY DueExists
  <1>2. NextDue(start, frequency, asOf) = due[start]
    BY DEF NextDue, IsDue, DueStep
  <1> QED
    BY <1>1, <1>2

\* A due date stays until it has passed.
LEMMA DueDatesKeep ==
  ASSUME date \in Dates, date + 1 \in Dates
  PROVE  DueDatesStay
  <1> SUFFICES ASSUME NEW start \in LoanStarts, NEW frequency \in Frequencies, start < date
               PROVE  LET due == NextDue(start, frequency, date) IN
                      /\ due >= date
                      /\ NextDue(start, frequency, date + 1) =
                           IF due = date THEN AddInstallment(due, frequency) ELSE due
    BY DEF DueDatesStay
  <1> DEFINE add(n) == AddInstallment(n, frequency)
             D == start..(date + 100)
  <1>1. start \in Nat /\ date \in Nat /\ start < date + 1
    BY WalkAssumption DEF Dates
  <1>2. PICK r : IsDue(r, start, frequency, date) /\ NextDue(start, frequency, date) = r[start]
    BY <1>1, DueUnfolds
  <1>3. PICK q : /\ IsDue(q, start, frequency, date + 1)
                 /\ NextDue(start, frequency, date + 1) = q[start]
    BY <1>1, DueUnfolds
  <1>4. \A n \in D : r[n] = IF n >= date /\ n # start THEN n ELSE r[add(n)]
    BY <1>2 DEF IsDue, DueStep
  <1>5. \A n \in D : q[n] = IF n >= date + 1 /\ n # start THEN n ELSE q[add(n)]
    <2>1. D \subseteq start..((date + 1) + 100)
      BY <1>1
    <2>2. \A n \in start..((date + 1) + 100) :
            q[n] = IF n >= date + 1 /\ n # start THEN n ELSE q[add(n)]
      BY <1>3 DEF IsDue, DueStep
    <2> QED
      BY <2>1, <2>2
  <1>6. ASSUME NEW n \in D, n <= date
        PROVE  add(n) \in D /\ n + 7 <= add(n) /\ add(n) \in Nat /\ add(n) # start
    <2>1. n \in Nat /\ n \in Dates
      <3>1. date < 12 * 365
        BY DEF Dates
      <3>2. n \in Nat /\ n < 12 * 365
        BY <1>1, <1>6, <3>1
      <3> QED
        BY <3>2 DEF Dates
    <2>2. add(n) \in Nat /\ n + 7 <= add(n) /\ add(n) <= n + 93
      BY <2>1, InstallmentsFollow
    <2> HIDE DEF add
    <2> QED
      BY <1>1, <1>6, <2>1, <2>2
  <1> DEFINE Good(n) == /\ r[n] \in Nat /\ r[n] >= date
                        /\ q[n] = IF r[n] = date THEN add(date) ELSE r[n]
             bad == {n \in D : ~Good(n)}
  <1>7. ASSUME bad # {} PROVE FALSE
    <2>1. PICK n \in bad : \A m \in bad : m <= n
      <3>1. bad \subseteq Nat /\ IsFiniteSet(bad)
        <4>1. start \in Int /\ date + 100 \in Int /\ bad \subseteq D /\ D \subseteq Nat
          BY <1>1
        <4>2. IsFiniteSet(D)
          BY <4>1, FS_Interval, Zenon
        <4> HIDE DEF bad, D
        <4> QED
          BY <4>1, <4>2, FS_Subset
      <3> HIDE DEF bad
      <3> QED
        BY <1>7, <3>1, GreatestNatural
    <2>2. n \in D /\ n \in Nat /\ ~Good(n)
      BY <1>1, <2>1
    <2>3. \A m \in D : n < m => Good(m)
      <3> SUFFICES ASSUME NEW m \in D, n < m PROVE Good(m)
        OBVIOUS
      <3>1. ~(m <= n)
        BY <1>1, <2>2
      <3> QED
        BY <2>1, <3>1
    <2> HIDE DEF bad
    <2>4. CASE n > date
      <3>1. n >= date /\ n # start /\ n >= date + 1
        BY <1>1, <2>2, <2>4
      <3>2. r[n] = n /\ q[n] = n
        BY <1>4, <1>5, <2>2, <3>1
      <3> QED
        BY <1>1, <2>2, <2>4, <3>2
    <2>5. CASE n = date
      <3>1. n >= date /\ n # start /\ ~(n >= date + 1) /\ n <= date
        BY <1>1, <2>2, <2>5
      <3>2. r[n] = n /\ q[n] = q[add(n)]
        BY <1>4, <1>5, <2>2, <3>1
      <3>3. add(n) \in D /\ n + 7 <= add(n) /\ add(n) \in Nat /\ add(n) # start
        BY <1>6, <2>2, <3>1
      <3>4. add(n) >= date + 1
        BY <1>1, <2>5, <3>3
      <3>5. q[add(n)] = add(n)
        BY <1>5, <3>3, <3>4
      <3>6. r[n] = date /\ q[n] = add(date)
        BY <2>5, <3>2, <3>5
      <3> QED
        BY <1>1, <2>2, <3>6
    <2>6. CASE n < date
      <3>1. ~(n >= date) /\ ~(n >= date + 1) /\ n <= date
        BY <1>1, <2>2, <2>6
      <3>2. r[n] = r[add(n)] /\ q[n] = q[add(n)]
        BY <1>4, <1>5, <2>2, <3>1
      <3>3. add(n) \in D /\ n < add(n)
        BY <1>6, <2>2, <3>1
      <3>4. Good(add(n))
        BY <2>3, <3>3
      <3> HIDE DEF add
      <3> QED
        BY <2>2, <3>2, <3>4
    <2> QED
      BY <1>1, <2>2, <2>4, <2>5, <2>6
  <1>8. Good(start)
    <2>1. start \in D
      BY <1>1
    <2> QED
      BY <1>7, <2>1
  <1> HIDE DEF add
  <1>9. /\ r[start] >= date
        /\ q[start] = IF r[start] = date THEN add(r[start]) ELSE r[start]
    BY <1>8
  <1> QED
    BY <1>2, <1>3, <1>9 DEF add

LEMMA WalkedAgrees ==
  ASSUME date \in WalkFrom..WalkTo
  PROVE  PeriodsTile /\ KeysNameReports /\ DueDatesStay
  <1>1. date \in Nat /\ date >= 366 /\ date + 7 <= 12 * 365
    BY WalkAssumption
  <1>2. date \in Dates /\ date + 1 \in Dates
    BY <1>1 DEF Dates
  <1> QED
    BY <1>1, <1>2, BudgetsTile, ReportsNamed, DueDatesKeep

(***************************************************************************)
(* Over any twelve years, wherever the walk through them begins and ends:  *)
(* periods tile the days, keys name the reports of their periods, and a    *)
(* due date once shown stays until it has passed.  The code is             *)
(* computeBudgetPeriodBoundaries, computeReportCachePeriods and            *)
(* calculateNextLoanDueDate, on every day there is, leap days included.    *)
(***************************************************************************)
THEOREM CalendarStands == WalkSpec => [](PeriodsTile /\ KeysNameReports /\ DueDatesStay)
  <1> DEFINE Walked == date \in WalkFrom..WalkTo
  <1>1. WalkInit => Walked
    BY WalkAssumption DEF WalkInit
  <1>2. Walked /\ [NextDay]_date => Walked'
    BY WalkAssumption DEF NextDay
  <1>3. Walked => PeriodsTile /\ KeysNameReports /\ DueDatesStay
    BY WalkedAgrees
  <1> QED
    BY <1>1, <1>2, <1>3, PTL DEF WalkSpec

(***************************************************************************)
(* The figures of reports                                                  *)
(***************************************************************************)
FiguresType ==
  /\ date \in AsOf
  /\ lines \in [LineIds -> Lines \cup {NoLine}]

\* The day reports are asked for has a year before it.
LEMMA AskedDay ==
  ASSUME FiguresType
  PROVE  date \in Dates /\ date >= 366
  <1>1. AsOf \subseteq 366..(12 * 365 - 7)
    BY ReportsAssumption
  <1>2. \A n \in 366..(12 * 365 - 7) : n \in Dates
    BY DEF Dates
  <1>3. \A n \in 366..(12 * 365 - 7) : n >= 366
    OBVIOUS
  <1>4. date \in AsOf
    BY DEF FiguresType
  <1>5. date \in 366..(12 * 365 - 7)
    BY <1>1, <1>4, Zenon
  <1> QED
    BY <1>2, <1>3, <1>5, Zenon

\* What a live row is.
LEMMA LiveLines ==
  ASSUME FiguresType
  PROVE  /\ IsFiniteSet(Live) /\ Live \subseteq LineIds
         /\ \A i \in Live : lines[i] \in Lines /\ lines[i].amount \in Nat /\ lines[i].day \in Dates
  <1>1. Live \subseteq LineIds /\ IsFiniteSet(LineIds)
    BY ReportsAssumption DEF Live
  <1>2. IsFiniteSet(Live)
    BY <1>1, FS_Subset
  <1>3. ASSUME NEW i \in Live PROVE lines[i] \in Lines /\ lines[i].amount \in Nat /\ lines[i].day \in Dates
    <2>1. lines[i] \in Lines
      BY DEF FiguresType, Live
    <2>2. lines[i].amount \in Sums /\ lines[i].day \in LineDays
      BY <2>1 DEF Lines
    <2>3. Sums \subseteq Nat /\ LineDays \subseteq Dates
      BY ReportsAssumption DEF Dates
    <2> QED
      BY <2>1, <2>2, <2>3
  <1> QED
    BY <1>1, <1>2, <1>3

LineAmounts == [i \in LineIds |-> lines[i].amount]

LEMMA SumOfLines ==
  ASSUME FiguresType, NEW ids, ids \subseteq Live
  PROVE  /\ SumOf(ids) = SumFunctionOnSet(LineAmounts, ids) /\ SumOf(ids) \in Nat
         /\ IsFiniteSet(ids) /\ \A i \in ids : LineAmounts[i] \in Nat
  <1>1. IsFiniteSet(ids) /\ \A i \in ids : lines[i].amount \in Nat /\ i \in LineIds
    BY LiveLines, FS_Subset
  <1>2. \A i \in ids : LineAmounts[i] = [i_1 \in ids |-> lines[i_1].amount][i] /\ LineAmounts[i] \in Nat
    BY <1>1 DEF LineAmounts
  <1>3. SumOf(ids) = SumFunctionOnSet([i \in ids |-> lines[i].amount], ids)
    BY DEF SumOf, SumFunction
  <1>4. SumOf(ids) = SumFunctionOnSet(LineAmounts, ids)
    BY <1>1, <1>2, <1>3, SumOfSame
  <1> QED
    BY <1>1, <1>2, <1>4, SumOfNaturals

\* The amounts of some lines, added up by a property of theirs.
LEMMA LinesByGroup ==
  ASSUME FiguresType, NEW ids, ids \subseteq Live, NEW K, IsFiniteSet(K),
         NEW key, \A i \in ids : key[i] \in K,
         NEW g, DOMAIN g = K, \A k \in K : g[k] = SumOf({i \in ids : key[i] = k})
  PROVE  SumFunction(g) = SumOf(ids)
  <1>1. IsFiniteSet(ids) /\ (\A i \in ids : LineAmounts[i] \in Int) /\ SumOf(ids) = SumFunctionOnSet(LineAmounts, ids)
    BY SumOfLines
  <1>2. ASSUME NEW k \in K PROVE g[k] = SumFunctionOnSet(LineAmounts, {i \in ids : key[i] = k})
    <2> DEFINE group == {i \in ids : key[i] = k}
    <2>1. group \subseteq Live /\ g[k] = SumOf(group)
      OBVIOUS
    <2> HIDE DEF group
    <2>2. g[k] = SumFunctionOnSet(LineAmounts, group)
      BY <2>1, SumOfLines
    <2> QED
      BY <2>2 DEF group
  <1>3. SumFunctionOnSet(g, K) = SumFunctionOnSet(LineAmounts, ids)
    BY <1>1, <1>2, SumByGroup
  <1> QED
    BY <1>1, <1>3 DEF SumFunction

LEMMA LinesApart ==
  ASSUME FiguresType, NEW A, NEW B, A \subseteq Live, B \subseteq Live, A \cap B = {}
  PROVE  SumOf(A \cup B) = SumOf(A) + SumOf(B)
  <1>1. A \cup B \subseteq Live
    OBVIOUS
  <1>2. /\ IsFiniteSet(A) /\ IsFiniteSet(B) /\ \A i \in A \cup B : LineAmounts[i] \in Int
        /\ SumOf(A) = SumFunctionOnSet(LineAmounts, A) /\ SumOf(B) = SumFunctionOnSet(LineAmounts, B)
        /\ SumOf(A \cup B) = SumFunctionOnSet(LineAmounts, A \cup B)
    BY <1>1, SumOfLines
  <1> QED
    BY <1>2, SumOfBoth

\* The rows of a range, and those of one kind, category or merchant.
InRange(range) == {i \in Live : range.start <= lines[i].day /\ lines[i].day < range.end}

LEMMA WhereAll ==
  ASSUME NEW range
  PROVE  /\ Where(range, All) = InRange(range)
         /\ Where(range, Expenses) = {i \in InRange(range) : lines[i].kind = "EXPENSE"}
         /\ \A c \in Categories : Where(range, [All EXCEPT !.category = c])
                                    = {i \in InRange(range) : lines[i].category = c}
         /\ \A m \in Merchants : Where(range, [All EXCEPT !.merchant = m])
                                   = {i \in InRange(range) : lines[i].merchant = m}
  <1>1. Nothing \notin Categories /\ Nothing \notin Merchants /\ Nothing # "EXPENSE"
    BY ReportsAssumption
  <1>2. \A line : Passes(line, All)
    BY DEF Passes, All
  <1>3. \A line : Passes(line, Expenses) <=> line.kind = "EXPENSE"
    BY <1>1 DEF Passes, All, Expenses
  <1>4. \A line : \A c \in Categories : Passes(line, [All EXCEPT !.category = c]) <=> line.category = c
    BY <1>1 DEF Passes, All
  <1>5. \A line : \A m \in Merchants : Passes(line, [All EXCEPT !.merchant = m]) <=> line.merchant = m
    BY <1>1 DEF Passes, All
  <1>6. Where(range, All) = InRange(range)
    BY <1>2 DEF Where, InRange
  <1>7. Where(range, Expenses) = {i \in InRange(range) : lines[i].kind = "EXPENSE"}
    BY <1>3 DEF Where, InRange
  <1>8. ASSUME NEW c \in Categories
        PROVE  Where(range, [All EXCEPT !.category = c]) = {i \in InRange(range) : lines[i].category = c}
    BY <1>4 DEF Where, InRange
  <1>9. ASSUME NEW m \in Merchants
        PROVE  Where(range, [All EXCEPT !.merchant = m]) = {i \in InRange(range) : lines[i].merchant = m}
    BY <1>5 DEF Where, InRange
  <1> QED
    BY <1>6, <1>7, <1>8, <1>9

SidesOf == [expense |-> {"EXPENSE"}, income |-> IncomeLike]
OnSide(ids, side) == {i \in ids : lines[i].kind \in SidesOf[side]}

LEMMA TotalsAre ==
  ASSUME NEW ids, NEW side \in {"expense", "income"}
  PROVE  TotalsOf(ids)[side] = SumOf(OnSide(ids, side))
  <1>1. CASE side = "expense"
    <2>1. OnSide(ids, side) = {i \in ids : lines[i].kind = "EXPENSE"}
      BY <1>1 DEF OnSide, SidesOf
    <2> QED
      BY <1>1, <2>1 DEF TotalsOf
  <1>2. CASE side = "income"
    <2>1. OnSide(ids, side) = {i \in ids : lines[i].kind \in IncomeLike}
      BY <1>2 DEF OnSide, SidesOf
    <2> QED
      BY <1>2, <2>1 DEF TotalsOf
  <1> QED
    BY <1>1, <1>2

\* The days or months of a trend add up to what passes its filters.
LEMMA TrendAddsUp ==
  ASSUME FiguresType, NEW range, NEW unit, NEW filters, NEW side \in {"expense", "income"}
  PROVE  TotalIn(GetPeriodicBreakdown(range, unit, filters), side)
           = SumOf(OnSide(Where(range, filters), side))
  <1> DEFINE rows == Where(range, filters)
             key == [i \in rows |-> Truncated(lines[i].day, unit)]
             K == {Truncated(lines[i].day, unit) : i \in rows}
             trend == GetPeriodicBreakdown(range, unit, filters)
             g == [b \in DOMAIN trend |-> trend[b][side]]
             ids == OnSide(rows, side)
  <1>1. rows \subseteq Live
    BY DEF Where
  <1>2. trend = [b \in K |-> TotalsOf({i \in rows : Truncated(lines[i].day, unit) = b})]
    BY DEF GetPeriodicBreakdown
  <1> HIDE DEF rows, trend
  <1>3. DOMAIN g = K /\ \A i \in rows : key[i] = Truncated(lines[i].day, unit) /\ key[i] \in K
    BY <1>2
  <1>4. ids \subseteq rows
    BY DEF OnSide
  <1>5. IsFiniteSet(K)
    <2>1. IsFiniteSet(rows)
      BY <1>1, SumOfLines
    <2>2. {key[i] : i \in rows} = K
      OBVIOUS
    <2> HIDE DEF key, K
    <2>3. IsFiniteSet({key[i] : i \in rows})
      BY <2>1, FiniteImage
    <2> QED
      BY <2>2, <2>3
  <1>6. ASSUME NEW b \in K PROVE g[b] = SumOf({i \in ids : key[i] = b})
    <2> DEFINE bucket == {i \in rows : Truncated(lines[i].day, unit) = b}
    <2>1. g[b] = TotalsOf(bucket)[side]
      BY <1>2
    <2>2. OnSide(bucket, side) = {i \in ids : key[i] = b}
      BY <1>3, <1>4 DEF OnSide
    <2> HIDE DEF g, bucket
    <2>3. g[b] = SumOf(OnSide(bucket, side))
      BY <2>1, TotalsAre
    <2> QED
      BY <2>2, <2>3
  <1>7. \A i \in ids : key[i] \in K
    BY <1>3, <1>4
  <1>8. TotalIn(trend, side) = SumFunction(g)
    BY DEF TotalIn
  <1>9. ids \subseteq Live
    BY <1>1, <1>4
  <1> HIDE DEF g, K, key, ids
  <1>10. SumFunction(g) = SumOf(ids)
    BY <1>3, <1>5, <1>6, <1>7, <1>9, LinesByGroup
  <1> QED
    BY <1>8, <1>10 DEF rows, trend, ids

OfCategory(rows, c) == {i \in rows : lines[i].category = c}

\* The categories of a breakdown, and what each of them sums.
LEMMA BreakdownIs ==
  ASSUME FiguresType, NEW range, NEW filters
  PROVE  LET rows == Where(range, filters)
             breakdown == GetCategoryBreakdown(range, filters) IN
         /\ SumFunction(breakdown) = SumOf(rows)
         /\ DOMAIN breakdown = {lines[i].category : i \in rows}
         /\ \A c : AmountIn(breakdown, c) = SumOf(OfCategory(rows, c))
         /\ \A c \in DOMAIN breakdown : breakdown[c] = SumOf(OfCategory(rows, c))
  <1> DEFINE rows == Where(range, filters)
             key == [i \in rows |-> lines[i].category]
             K == {lines[i].category : i \in rows}
             breakdown == GetCategoryBreakdown(range, filters)
  <1>1. rows \subseteq Live
    BY DEF Where
  <1>2. breakdown = [c \in K |-> SumOf({i \in rows : lines[i].category = c})]
    BY DEF GetCategoryBreakdown
  <1> HIDE DEF rows, breakdown
  <1>3. DOMAIN breakdown = K /\ \A c \in K : breakdown[c] = SumOf({i \in rows : lines[i].category = c})
    BY <1>2
  <1>4. IsFiniteSet(K)
    <2>1. IsFiniteSet(rows)
      BY <1>1, SumOfLines
    <2>2. {key[i] : i \in rows} = K
      OBVIOUS
    <2> HIDE DEF key, K
    <2>3. IsFiniteSet({key[i] : i \in rows})
      BY <2>1, FiniteImage
    <2> QED
      BY <2>2, <2>3
  <1>5. SumFunction(breakdown) = SumOf(rows)
    <2>1. \A i \in rows : key[i] \in K
      OBVIOUS
    <2>2. ASSUME NEW c \in K PROVE breakdown[c] = SumOf({i \in rows : key[i] = c})
      <3>1. {i \in rows : key[i] = c} = {i \in rows : lines[i].category = c}
        OBVIOUS
      <3> QED
        BY <1>3, <3>1
    <2> HIDE DEF key, K
    <2> QED
      BY <1>1, <1>3, <1>4, <2>1, <2>2, LinesByGroup
  <1>6. ASSUME NEW c PROVE AmountIn(breakdown, c) = SumOf({i \in rows : lines[i].category = c})
    <2>1. CASE c \in K
      BY <1>3, <2>1 DEF AmountIn
    <2>2. CASE c \notin K
      <3>1. {i \in rows : lines[i].category = c} = {}
        BY <2>2
      <3>2. SumOf({}) = 0
        <4>1. SumOf({}) = SumFunctionOnSet(LineAmounts, {})
          BY SumOfLines
        <4> QED
          BY <4>1, SumOfNone
      <3> QED
        BY <1>3, <2>2, <3>1, <3>2 DEF AmountIn
    <2> QED
      BY <2>1, <2>2
  <1> QED
    BY <1>3, <1>5, <1>6 DEF rows, breakdown, OfCategory

LEMMA FiguresAddUp ==
  ASSUME FiguresType
  PROVE  ListsAddUp
  <1> SUFFICES ASSUME NEW range \in Ranges
               PROVE  LET report == GenerateCustomRange(range)
                          trend == GetPeriodicBreakdown(range, "month", All) IN
                      /\ SumFunction(report.categories) = report.totals.expense
                      /\ \A side \in {"expense", "income"} :
                           /\ TotalIn(trend, side) = report.totals[side]
                           /\ report.totals[side] = SumFunction(
                                [c \in Categories |->
                                   TotalIn(GenerateCategoryReport(c, range).trend, side)])
                      /\ report.totals.expense =
                           SumFunction([m \in Merchants |-> GenerateMerchantReport(m, range).total])
                             + SumOf({i \in Where(range, Expenses) : lines[i].merchant = NoMerchant})
    BY DEF ListsAddUp
  <1> DEFINE rows == InRange(range)
             spent == Where(range, Expenses)
             report == GenerateCustomRange(range)
             trend == GetPeriodicBreakdown(range, "month", All)
  <1>1. rows \subseteq Live /\ Where(range, All) = rows /\ spent = {i \in rows : lines[i].kind = "EXPENSE"}
    BY WhereAll DEF InRange
  <1>2. report.totals = TotalsOf(rows) /\ report.categories = GetCategoryBreakdown(range, Expenses)
    BY <1>1 DEF GenerateCustomRange, GetTotals
  <1>3. OnSide(rows, "expense") = spent
    BY <1>1 DEF OnSide, SidesOf
  <1> HIDE DEF rows, spent, report, trend
  <1>4. \A side \in {"expense", "income"} : report.totals[side] = SumOf(OnSide(rows, side))
    BY <1>2, TotalsAre
  <1>5. report.totals.expense = SumOf(spent)
    BY <1>3, <1>4
  <1>6. SumFunction(report.categories) = report.totals.expense
    BY <1>2, <1>5, BreakdownIs DEF spent
  <1>7. ASSUME NEW side \in {"expense", "income"}
        PROVE  /\ TotalIn(trend, side) = report.totals[side]
               /\ report.totals[side] = SumFunction(
                    [c \in Categories |-> TotalIn(GenerateCategoryReport(c, range).trend, side)])
    <2> DEFINE ids == OnSide(rows, side)
               key == [i \in ids |-> lines[i].category]
               g == [c \in Categories |-> TotalIn(GenerateCategoryReport(c, range).trend, side)]
    <2>1. TotalIn(trend, side) = SumOf(ids)
      BY <1>1, TrendAddsUp DEF trend
    <2>2. ids \subseteq Live /\ \A i \in ids : lines[i].category \in Categories
      BY <1>1, LiveLines DEF OnSide, Lines
    <2>3. ASSUME NEW c \in Categories PROVE g[c] = SumOf({i \in ids : key[i] = c})
      <3> DEFINE ofCategory == [All EXCEPT !.category = c]
      <3>1. GenerateCategoryReport(c, range).trend = GetPeriodicBreakdown(range, "month", ofCategory)
        BY DEF GenerateCategoryReport
      <3>2. Where(range, ofCategory) = {i \in rows : lines[i].category = c}
        BY WhereAll DEF rows
      <3> HIDE DEF ofCategory
      <3>3. g[c] = SumOf(OnSide(Where(range, ofCategory), side))
        BY <3>1, TrendAddsUp
      <3>4. OnSide(Where(range, ofCategory), side) = {i \in ids : key[i] = c}
        BY <3>2 DEF OnSide
      <3> QED
        BY <3>3, <3>4
    <2>4. \A i \in ids : key[i] \in Categories
      BY <2>2
    <2>5. DOMAIN g = Categories /\ IsFiniteSet(Categories)
      BY ReportsAssumption
    <2> HIDE DEF g, key, ids
    <2>6. SumFunction(g) = SumOf(ids)
      BY <2>2, <2>3, <2>4, <2>5, LinesByGroup
    <2> QED
      BY <1>4, <2>1, <2>6 DEF g, ids
  <1>8. report.totals.expense =
          SumFunction([m \in Merchants |-> GenerateMerchantReport(m, range).total])
            + SumOf({i \in spent : lines[i].merchant = NoMerchant})
    <2> DEFINE named == {i \in spent : lines[i].merchant # NoMerchant}
               rest == {i \in spent : lines[i].merchant = NoMerchant}
               key == [i \in named |-> lines[i].merchant]
               g == [m \in Merchants |-> GenerateMerchantReport(m, range).total]
    <2>1. spent \subseteq Live
      BY <1>1
    <2>2. named \subseteq Live /\ rest \subseteq Live /\ named \cap rest = {} /\ named \cup rest = spent
      BY <2>1
    <2>3. \A i \in named : lines[i].merchant \in Merchants
      BY <2>1, LiveLines DEF Lines
    <2>4. ASSUME NEW m \in Merchants PROVE g[m] = SumOf({i \in named : key[i] = m})
      <3> DEFINE sold == Where(range, [All EXCEPT !.merchant = m])
      <3>1. sold = {i \in rows : lines[i].merchant = m}
        BY WhereAll DEF rows
      <3>2. GenerateMerchantReport(m, range).total = TotalsOf(sold).expense
        BY DEF GenerateMerchantReport, GetTotals
      <3> HIDE DEF sold
      <3>3. g[m] = SumOf(OnSide(sold, "expense"))
        BY <3>2, TotalsAre
      <3>4. OnSide(sold, "expense") = {i \in named : key[i] = m}
        <4>1. m # NoMerchant
          BY ReportsAssumption
        <4> QED
          BY <1>1, <3>1, <4>1 DEF OnSide, SidesOf
      <3> QED
        BY <3>3, <3>4
    <2>5. \A i \in named : key[i] \in Merchants
      BY <2>3
    <2>6. DOMAIN g = Merchants /\ IsFiniteSet(Merchants)
      BY ReportsAssumption
    <2> HIDE DEF g, key, named, rest
    <2>7. SumFunction(g) = SumOf(named)
      BY <2>2, <2>4, <2>5, <2>6, LinesByGroup
    <2>8. SumOf(named \cup rest) = SumOf(named) + SumOf(rest)
      BY <2>2, LinesApart
    <2>9. report.totals.expense = SumFunction(g) + SumOf(rest)
      BY <1>5, <2>2, <2>7, <2>8
    <2> QED
      BY <2>9 DEF g, rest
  <1> QED
    BY <1>6, <1>7, <1>8 DEF report, trend, spent

LEMMA AtLeastTen ==
  ASSUME NEW x \in Nat, NEW a \in Nat, a > 0
  PROVE  x \div a \in Nat /\ (x \div a >= 10 <=> x >= 10 * a)
  <1> DEFINE q == x \div a
  <1>1. q \in Int /\ a * q <= x /\ x < a * (q + 1)
    OBVIOUS
  <1> HIDE DEF q
  <1>2. a * (q + 1) = a * q + a
    BY <1>1
  <1>3. q >= 0
    <2> SUFFICES ASSUME q + 1 <= 0 PROVE FALSE
      BY <1>1
    <2>1. a * (q + 1) <= 0
      BY <1>1
    <2> QED
      BY <1>1, <2>1
  <1>4. q >= 10 => x >= 10 * a
    <2> SUFFICES ASSUME q >= 10 PROVE x >= 10 * a
      OBVIOUS
    <2>1. a * q >= a * 10
      BY <1>1
    <2> QED
      BY <1>1, <2>1
  <1>5. x >= 10 * a => q >= 10
    <2> SUFFICES ASSUME q + 1 <= 10, x >= 10 * a PROVE FALSE
      BY <1>1
    <2>1. a * (q + 1) <= a * 10
      BY <1>1
    <2> QED
      BY <1>1, <2>1
  <1> QED
    BY <1>1, <1>3, <1>4, <1>5 DEF q

LEMMA Trajectory ==
  ASSUME NEW a \in Nat, NEW b \in Nat
  PROVE  /\ ClassifyTrajectory(a, b) = "increasing" <=> b > a /\ 10 * (b - a) >= a
         /\ ClassifyTrajectory(a, b) = "decreasing" <=> b < a /\ 10 * (a - b) >= a
  <1>1. CASE a = 0
    BY <1>1 DEF ClassifyTrajectory
  <1>2. CASE a > 0 /\ b >= a
    <2> DEFINE x == (b - a) * 100
               q == x \div a
    <2>1. x \in Nat
      BY <1>2
    <2>2. ClassifyTrajectory(a, b) = IF q >= 10 THEN "increasing"
                                     ELSE IF q <= -10 THEN "decreasing" ELSE "flat"
      BY <1>2 DEF ClassifyTrajectory
    <2> HIDE DEF x
    <2>3. q \in Nat /\ (q >= 10 <=> x >= 10 * a)
      BY <1>2, <2>1, AtLeastTen
    <2> HIDE DEF q
    <2>4. x >= 10 * a <=> 10 * (b - a) >= a
      BY <1>2 DEF x
    <2>5. 10 * (b - a) >= a => b > a
      BY <1>2
    <2> QED
      BY <1>2, <2>2, <2>3, <2>4, <2>5
  <1>3. CASE a > 0 /\ b < a
    <2> DEFINE x == (a - b) * 100
               q == x \div a
    <2>1. x \in Nat
      BY <1>3
    <2>2. ClassifyTrajectory(a, b) = IF -q >= 10 THEN "increasing"
                                     ELSE IF -q <= -10 THEN "decreasing" ELSE "flat"
      BY <1>3 DEF ClassifyTrajectory
    <2> HIDE DEF x
    <2>3. q \in Nat /\ (q >= 10 <=> x >= 10 * a)
      BY <1>3, <2>1, AtLeastTen
    <2> HIDE DEF q
    <2>4. x >= 10 * a <=> 10 * (a - b) >= a
      BY <1>3 DEF x
    <2>5. -q <= -10 <=> q >= 10
      BY <2>3
    <2>6. ~(-q >= 10)
      BY <2>3
    <2> QED
      BY <1>3, <2>2, <2>3, <2>4, <2>5, <2>6
  <1> QED
    BY <1>1, <1>2, <1>3

LEMMA RangesAre ==
  ASSUME FiguresType, NEW range \in Ranges
  PROVE  /\ range = [start |-> range.start, end |-> range.end]
         /\ range.start \in Int /\ range.end \in Int /\ range.start <= range.end
  <1>1. PICK span \in {s - 1 : s \in Spans} : range = [start |-> date - span, end |-> date + 1]
    BY DEF Ranges
  <1>2. date \in Nat /\ span \in Int /\ -1 <= span
    <2>1. Spans \subseteq Nat /\ AsOf \subseteq Nat
      <3>1. Spans \subseteq Nat /\ AsOf \subseteq 366..(12 * 365 - 7)
        BY ReportsAssumption
      <3>2. \A n \in 366..(12 * 365 - 7) : n \in Nat
        OBVIOUS
      <3> QED
        BY <3>1, <3>2, Zenon
    <2> QED
      BY <2>1 DEF FiguresType
  <1> QED
    BY <1>1, <1>2

LEMMA HalvesCompared ==
  ASSUME FiguresType
  PROVE  TrajectoriesCompareHalves
  <1> SUFFICES ASSUME NEW range \in Ranges
               PROVE  LET analysis == GenerateTrendAnalysis(range)
                          whole == GenerateCustomRange(range).categories
                          half == (range.end - range.start) \div 2
                          early == GenerateCustomRange(
                                     [start |-> range.start, end |-> range.start + half]).categories IN
                      /\ DOMAIN analysis.trajectory = DOMAIN whole
                      /\ \A c \in DOMAIN whole :
                           LET first == AmountIn(early, c)
                               second == whole[c] - first IN
                           /\ 10 * (second - first) > first => analysis.trajectory[c] = "increasing"
                           /\ 10 * (first - second) > first => analysis.trajectory[c] = "decreasing"
                           /\ analysis.trajectory[c] = "increasing"
                                => second > first /\ 10 * (second - first) >= first
                           /\ analysis.trajectory[c] = "decreasing"
                                => second < first /\ 10 * (first - second) >= first
    BY DEF TrajectoriesCompareHalves
  <1> DEFINE middle == (range.start + range.end) \div 2
             half == (range.end - range.start) \div 2
             front == [start |-> range.start, end |-> middle]
             back == [start |-> middle, end |-> range.end]
             first == GetCategoryBreakdown(front, Expenses)
             second == GetCategoryBreakdown(back, Expenses)
             whole == GetCategoryBreakdown(range, Expenses)
             Of(r, c) == OfCategory(Where(r, Expenses), c)
  <1>1. /\ range = [start |-> range.start, end |-> range.end]
        /\ range.start \in Int /\ range.end \in Int /\ range.start <= range.end
    BY RangesAre
  <1>2. /\ middle \in Int /\ range.start <= middle /\ middle <= range.end
        /\ range.start + half = middle
    BY <1>1
  <1>3. front = [range EXCEPT !.end = middle] /\ back = [range EXCEPT !.start = middle]
    BY <1>1
  <1>4. GenerateTrendAnalysis(range).trajectory
          = [c \in DOMAIN first \cup DOMAIN second |->
               ClassifyTrajectory(AmountIn(first, c), AmountIn(second, c))]
    BY <1>3 DEF GenerateTrendAnalysis
  <1>5. GenerateCustomRange(range).categories = whole
    BY DEF GenerateCustomRange
  <1>6. GenerateCustomRange([start |-> range.start, end |-> range.start + half]).categories = first
    BY <1>2 DEF GenerateCustomRange
  <1>7. front.start = range.start /\ front.end = middle /\ back.start = middle /\ back.end = range.end
    OBVIOUS
  <1> HIDE DEF middle, half, front, back
  <1>8. /\ Where(range, Expenses) = Where(front, Expenses) \cup Where(back, Expenses)
        /\ Where(front, Expenses) \cap Where(back, Expenses) = {}
        /\ Where(range, Expenses) \subseteq Live
    <2>1. \A r : Where(r, Expenses) = {i \in InRange(r) : lines[i].kind = "EXPENSE"}
      BY WhereAll
    <2>2. InRange(range) = InRange(front) \cup InRange(back) /\ InRange(front) \cap InRange(back) = {}
      <3>1. \A i \in Live : lines[i].day \in Nat
        <4>1. Dates \subseteq Nat
          BY DEF Dates
        <4> QED
          BY <4>1, LiveLines
      <3> QED
        BY <1>1, <1>2, <1>7, <3>1 DEF InRange
    <2>3. InRange(range) \subseteq Live
      BY DEF InRange
    <2> QED
      BY <2>1, <2>2, <2>3
  <1>9. /\ DOMAIN whole = {lines[i].category : i \in Where(range, Expenses)}
        /\ DOMAIN first = {lines[i].category : i \in Where(front, Expenses)}
        /\ DOMAIN second = {lines[i].category : i \in Where(back, Expenses)}
        /\ \A c : AmountIn(first, c) = SumOf(Of(front, c)) /\ AmountIn(second, c) = SumOf(Of(back, c))
        /\ \A c \in DOMAIN whole : whole[c] = SumOf(Of(range, c))
    <2>1. ASSUME NEW r
          PROVE  LET breakdown == GetCategoryBreakdown(r, Expenses) IN
                 /\ DOMAIN breakdown = {lines[i].category : i \in Where(r, Expenses)}
                 /\ \A c : AmountIn(breakdown, c) = SumOf(Of(r, c))
                 /\ \A c \in DOMAIN breakdown : breakdown[c] = SumOf(Of(r, c))
      BY BreakdownIs
    <2> HIDE DEF Of
    <2> QED
      BY <2>1
  <1> HIDE DEF first, second, whole
  <1>10. DOMAIN first \cup DOMAIN second = DOMAIN whole
    BY <1>8, <1>9
  <1>11. ASSUME NEW c \in DOMAIN whole
         PROVE  /\ AmountIn(first, c) \in Nat /\ AmountIn(second, c) \in Nat
                /\ whole[c] = AmountIn(first, c) + AmountIn(second, c)
    <2>1. /\ Of(range, c) = Of(front, c) \cup Of(back, c) /\ Of(front, c) \cap Of(back, c) = {}
          /\ Of(front, c) \subseteq Live /\ Of(back, c) \subseteq Live
      BY <1>8 DEF OfCategory
    <2>2. /\ AmountIn(first, c) = SumOf(Of(front, c)) /\ AmountIn(second, c) = SumOf(Of(back, c))
          /\ whole[c] = SumOf(Of(range, c))
      BY <1>9
    <2> HIDE DEF Of
    <2>3. SumOf(Of(front, c)) \in Nat /\ SumOf(Of(back, c)) \in Nat
      BY <2>1, SumOfLines
    <2>4. SumOf(Of(front, c) \cup Of(back, c)) = SumOf(Of(front, c)) + SumOf(Of(back, c))
      BY <2>1, LinesApart
    <2> QED
      BY <2>1, <2>2, <2>3, <2>4
  <1> DEFINE trajectory == GenerateTrendAnalysis(range).trajectory
  <1>12. /\ DOMAIN trajectory = DOMAIN whole
         /\ \A c \in DOMAIN whole :
              trajectory[c] = ClassifyTrajectory(AmountIn(first, c), AmountIn(second, c))
    BY <1>4, <1>10
  <1> HIDE DEF trajectory
  <1>13. ASSUME NEW c \in DOMAIN whole
         PROVE  LET a == AmountIn(first, c)
                    b == whole[c] - a IN
                /\ 10 * (b - a) > a => trajectory[c] = "increasing"
                /\ 10 * (a - b) > a => trajectory[c] = "decreasing"
                /\ trajectory[c] = "increasing" => b > a /\ 10 * (b - a) >= a
                /\ trajectory[c] = "decreasing" => b < a /\ 10 * (a - b) >= a
    <2> DEFINE a == AmountIn(first, c)
               b == AmountIn(second, c)
    <2>1. a \in Nat /\ b \in Nat /\ whole[c] = a + b /\ trajectory[c] = ClassifyTrajectory(a, b)
      BY <1>11, <1>12
    <2> HIDE DEF a, b
    <2>2. whole[c] - a = b
      BY <2>1
    <2>3. /\ trajectory[c] = "increasing" <=> b > a /\ 10 * (b - a) >= a
          /\ trajectory[c] = "decreasing" <=> b < a /\ 10 * (a - b) >= a
      BY <2>1, Trajectory
    <2>4. (10 * (b - a) > a => b > a) /\ (10 * (a - b) > a => b < a)
      BY <2>1
    <2>5. (10 * (b - a) > a => 10 * (b - a) >= a) /\ (10 * (a - b) > a => 10 * (a - b) >= a)
      BY <2>1
    <2>6. /\ 10 * (b - a) > a => trajectory[c] = "increasing"
          /\ 10 * (a - b) > a => trajectory[c] = "decreasing"
      BY <2>3, <2>4, <2>5
    <2> QED
      BY <2>2, <2>3, <2>6 DEF a
  <1> QED
    BY <1>5, <1>6, <1>12, <1>13 DEF trajectory, half

\* Two days are in one span exactly if they share its year and first month.
LEMMA SameSpan ==
  ASSUME NEW k \in Dates, NEW l \in Dates, NEW w \in Widths
  PROVE  SpanFrom(k, w) <= l /\ l < SpanTo(k, w)
           <=> YearOf(l) = YearOf(k) /\ OpeningOf(l, w) = OpeningOf(k, w)
  <1>1. YearOf(k) \in FirstYear..LastYear /\ OpeningOf(k, w) \in Openings(w)
    BY SpanHolds
  <1>2. SpanFrom(k, w) <= l /\ l < SpanTo(k, w)
          => YearOf(l) = YearOf(k) /\ OpeningOf(l, w) = OpeningOf(k, w)
    BY <1>1, SpanPlaced DEF SpanFrom, SpanTo
  <1>3. SpanFrom(l, w) <= l /\ l < SpanTo(l, w)
    BY SpanHolds DEF SpanFrom, SpanTo
  <1> QED
    BY <1>2, <1>3 DEF SpanFrom, SpanTo

\* The first day of a span is in it, and the span ends within the calendar's years.
LEMMA SpanBegins ==
  ASSUME NEW k \in Dates, NEW w \in Widths
  PROVE  /\ SpanFrom(k, w) \in Dates /\ SpanFrom(k, w) \in Nat /\ SpanTo(k, w) \in Nat
         /\ SpanFrom(k, w) <= k /\ k < SpanTo(k, w)
         /\ YearOf(SpanFrom(k, w)) = YearOf(k)
         /\ OpeningOf(SpanFrom(k, w), w) = OpeningOf(k, w)
         /\ SpanFrom(SpanFrom(k, w), w) = SpanFrom(k, w)
  <1> DEFINE s == SpanFrom(k, w)
  <1>1. k \in Nat /\ k < 12 * 365
    BY DEF Dates
  <1>2. s \in Nat /\ SpanTo(k, w) \in Nat /\ s <= k /\ k < SpanTo(k, w)
    BY SpanHolds DEF SpanFrom, SpanTo
  <1> HIDE DEF s
  <1>3. s \in Dates
    <2>1. s < 12 * 365
      BY <1>1, <1>2
    <2> QED
      BY <1>2, <2>1 DEF Dates
  <1>4. s <= s /\ s < SpanTo(k, w)
    BY <1>1, <1>2
  <1>5. YearOf(s) = YearOf(k) /\ OpeningOf(s, w) = OpeningOf(k, w)
    BY <1>3, <1>4, SameSpan DEF s
  <1>6. SpanFrom(s, w) = s
    BY <1>5 DEF SpanFrom, s
  <1> QED
    BY <1>2, <1>3, <1>5, <1>6 DEF s

\* Days of one month are in one span of any width.
LEMMA MonthInSpan ==
  ASSUME NEW k \in Dates, NEW l \in Dates, SpanFrom(l, 1) = SpanFrom(k, 1)
  PROVE  YearOf(l) = YearOf(k) /\ \A w : OpeningOf(l, w) = OpeningOf(k, w)
  <1>1. 1 \in Widths
    BY DEF Widths
  <1>2. /\ YearOf(l) = YearOf(SpanFrom(l, 1)) /\ OpeningOf(l, 1) = OpeningOf(SpanFrom(l, 1), 1)
        /\ YearOf(k) = YearOf(SpanFrom(k, 1)) /\ OpeningOf(k, 1) = OpeningOf(SpanFrom(k, 1), 1)
    BY <1>1, SpanBegins
  <1>3. OpeningOf(l, 1) = MonthOf(l) /\ OpeningOf(k, 1) = MonthOf(k)
    BY OpeningsAre
  <1> QED
    BY <1>2, <1>3 DEF OpeningOf

\* The range of days decides what a query lists.
LEMMA SameRange ==
  ASSUME NEW r, NEW q, r.start = q.start, r.end = q.end
  PROVE  \A filters : /\ Where(r, filters) = Where(q, filters)
                      /\ GetTotals(r, filters) = GetTotals(q, filters)
                      /\ GetCategoryBreakdown(r, filters) = GetCategoryBreakdown(q, filters)
  <1>1. \A filters : Where(r, filters) = Where(q, filters)
    BY DEF Where
  <1>2. ASSUME NEW filters PROVE GetCategoryBreakdown(r, filters) = GetCategoryBreakdown(q, filters)
    <2> DEFINE Breakdown(rows) == [c \in {lines[i].category : i \in rows} |->
                                     SumOf({i \in rows : lines[i].category = c})]
    <2>1. /\ GetCategoryBreakdown(r, filters) = Breakdown(Where(r, filters))
          /\ GetCategoryBreakdown(q, filters) = Breakdown(Where(q, filters))
      BY DEF GetCategoryBreakdown
    <2> HIDE DEF Breakdown
    <2> QED
      BY <1>1, <2>1
  <1>3. ASSUME NEW filters PROVE GetTotals(r, filters) = GetTotals(q, filters)
    BY <1>1 DEF GetTotals
  <1> QED
    BY <1>1, <1>2, <1>3

\* The boundaries of the day before a period are those of the period before.
LEMMA PeriodBefore ==
  ASSUME NEW n \in Dates, n >= 366, NEW type \in PeriodTypes
  PROVE  LET b == ReportBoundary(n, type)
             before == ReportBoundary(b.start - 1, type) IN
         /\ before.start = b.prior /\ before.end = b.start /\ b.start - 1 \in Dates
         /\ b.start \in Nat /\ b.prior \in Int /\ b.start <= n /\ n < b.end
  <1> DEFINE b == ReportBoundary(n, type)
             before == ReportBoundary(b.start - 1, type)
  <1>1. n \in Nat /\ n < 12 * 365 /\ \A k \in Nat : k < 12 * 365 => k \in Dates
    BY DEF Dates
  <1>2. CASE type = "weekly"
    <2>1. \A k : ReportBoundary(k, type) = [prior |-> (k - Weekday(k)) - 7,
                   start |-> k - Weekday(k), end |-> (k - Weekday(k)) + 7]
      BY <1>2 DEF ReportBoundary
    <2> DEFINE monday == n - Weekday(n)
    <2>2. Weekday(n) \in 0..6 /\ monday \in Nat /\ Weekday(monday) = 0 /\ monday >= 7
      <3>1. Weekday(n) \in 0..6 /\ monday \in Nat /\ Weekday(monday) = 0
        BY <1>1, WeekDays
      <3> QED
        BY <1>1, <3>1
    <2>3. n = monday + Weekday(n) /\ b.prior = monday - 7 /\ b.start = monday /\ b.end = monday + 7
      BY <1>1, <2>1, <2>2
    <2> HIDE DEF monday
    <2>4. Weekday(monday - 1) = 6
      BY <2>2, WeekDays
    <2>5. before.start = monday - 7 /\ before.end = monday
      BY <2>1, <2>2, <2>3, <2>4
    <2> HIDE DEF b, before
    <2>6. b.start - 1 \in Dates
      <3>1. b.start - 1 \in Nat /\ b.start - 1 < 12 * 365
        BY <1>1, <2>2, <2>3
      <3> QED
        BY <1>1, <3>1
    <2>7. b.start <= n /\ n < b.end /\ b.start \in Nat /\ b.prior \in Int
      BY <1>1, <2>2, <2>3
    <2> QED
      BY <2>3, <2>5, <2>6, <2>7 DEF b, before
  <1>3. CASE type \in SpanTypes
    <2> DEFINE w == Width(type)
               s == SpanFrom(n, w)
               k == s - 1
    <2>1. w \in Widths /\ YearOf(n) # FirstYear
      BY <1>3, WidthOf, FirstYearPasses
    <2>2. b.prior = Utc(YearOf(n), OpeningOf(n, w) - w, 1) /\ b.start = s /\ b.end = SpanTo(n, w)
      BY <1>3, <2>1, ReportSpans
    <2> HIDE DEF w
    <2>3. s \in Dates /\ s \in Nat /\ s <= n /\ n < SpanTo(n, w) /\ YearOf(s) = YearOf(n) /\ SpanFrom(s, w) = s
      BY <2>1, SpanBegins
    <2>4. k \in Dates /\ k + 1 = s /\ k \in Nat
      <3> HIDE DEF s
      <3>1. s # 0
        <4>1. YearOf(s) # FirstYear
          BY <2>1, <2>3
        <4>2. s \in Dates /\ YearOf(s) \in FirstYear..LastYear /\ YearStart[YearOf(s)] <= s
          BY <2>3, DayHasYear
        <4>3. FirstYear \in Nat /\ YearOf(s) \in Nat /\ FirstYear + 1 <= YearOf(s)
          BY <4>1, <4>2, WalkAssumption DEF LastYear
        <4>4. FirstYear \in Years /\ YearOf(s) \in Years
          BY <4>2, <4>3, YearsFollow DEF Years
        <4>5. YearStart[FirstYear] + 365 * (YearOf(s) - FirstYear) <= YearStart[YearOf(s)]
          BY <4>3, <4>4, YearsGrow
        <4>6. YearStart[FirstYear] = 0 /\ YearStart[YearOf(s)] \in Nat
          BY <4>4, YearsFollow
        <4> QED
          BY <2>3, <4>2, <4>3, <4>5, <4>6
      <3>2. k \in Nat /\ k < 12 * 365 /\ k + 1 = s
        BY <1>1, <2>3, <3>1
      <3> QED
        BY <1>1, <3>2
    <2>5. SpanFrom(k, w) = b.prior
      BY <2>1, <2>2, SpanBefore DEF SpanFrom
    <2>6. before.start = SpanFrom(k, w) /\ before.end = SpanTo(k, w)
      BY <1>3, <2>2, <2>4, ReportSpans DEF w
    <2> HIDE DEF s, k, b, before
    <2>7. SpanFrom(k, w) \in Nat /\ SpanTo(k, w) \in Nat /\ SpanFrom(k, w) <= k /\ k < SpanTo(k, w)
      BY <2>1, <2>4, SpanBegins
    <2>8. SpanTo(k, w) = s
      <3> SUFFICES ASSUME s < SpanTo(k, w) PROVE FALSE
        BY <2>3, <2>4, <2>7
      <3>1. SpanFrom(k, w) <= s
        BY <2>3, <2>4, <2>7
      <3>2. YearOf(s) = YearOf(k) /\ OpeningOf(s, w) = OpeningOf(k, w)
        BY <2>1, <2>3, <2>4, <3>1, SameSpan
      <3>3. SpanFrom(s, w) = SpanFrom(k, w)
        BY <3>2 DEF SpanFrom
      <3> QED
        BY <2>3, <2>4, <2>7, <3>3
    <2>9. before.start = b.prior /\ before.end = b.start /\ b.prior \in Int
      BY <2>2, <2>5, <2>6, <2>7, <2>8
    <2>10. b.start - 1 \in Dates /\ b.start \in Nat /\ b.start <= n /\ n < b.end
      BY <2>2, <2>3, <2>4 DEF k
    <2> QED
      BY <2>9, <2>10 DEF b, before
  <1> QED
    BY <1>2, <1>3 DEF PeriodTypes, SpanTypes

\* Totals are pairs of amounts, 0 where no rows are.
LEMMA TotalsType ==
  ASSUME FiguresType, NEW ids, ids \subseteq Live
  PROVE  /\ TotalsOf(ids) \in [expense : Nat, income : Nat]
         /\ ids = {} => TotalsOf(ids) = [expense |-> 0, income |-> 0]
  <1>1. ASSUME NEW some, some \subseteq ids
        PROVE  SumOf(some) \in Nat /\ (some = {} => SumOf(some) = 0)
    <2>1. SumOf(some) \in Nat /\ SumOf(some) = SumFunctionOnSet(LineAmounts, some)
      BY <1>1, SumOfLines
    <2>2. SumFunctionOnSet(LineAmounts, {}) = 0
      BY SumOfNone
    <2> QED
      BY <2>1, <2>2
  <1> DEFINE spent == {i \in ids : lines[i].kind = "EXPENSE"}
             earned == {i \in ids : lines[i].kind \in IncomeLike}
  <1>2. TotalsOf(ids) = [expense |-> SumOf(spent), income |-> SumOf(earned)]
    BY DEF TotalsOf
  <1>3. spent \subseteq ids /\ earned \subseteq ids
    OBVIOUS
  <1> HIDE DEF spent, earned
  <1>4. SumOf(spent) \in Nat /\ SumOf(earned) \in Nat
    BY <1>1, <1>3
  <1>5. ids = {} => SumOf(spent) = 0 /\ SumOf(earned) = 0
    <2>1. ids = {} => spent = {} /\ earned = {}
      BY <1>3
    <2> QED
      BY <1>1, <1>3, <2>1
  <1> QED
    BY <1>2, <1>4, <1>5

\* A comparison is the period before, and missing only if that showed nothing.
LEMMA ComparisonTells ==
  ASSUME FiguresType, NEW type \in PeriodTypes
  PROVE  LET b == ReportBoundary(date, type)
             before == GetTotals(ReportBoundary(b.start - 1, type), All) IN
         /\ Comparison(b) \in {before, Nothing}
         /\ Comparison(b) = Nothing => before = [expense |-> 0, income |-> 0]
         /\ Comparison(b) # Nothing => Comparison(b) = before
  <1> DEFINE b == ReportBoundary(date, type)
             last == ReportBoundary(b.start - 1, type)
             before == GetTotals(last, All)
  <1>1. date \in Dates /\ date >= 366
    BY AskedDay
  <1>2. last.start = b.prior /\ last.end = b.start /\ b.start \in Nat /\ b.prior \in Int
    BY <1>1, PeriodBefore
  <1>3. PriorOf(b).start = b.prior /\ PriorOf(b).end = b.start
    BY DEF PriorOf
  <1> HIDE DEF b, last, before
  <1>4. GetTotals(PriorOf(b), All) = before
    BY <1>2, <1>3, SameRange DEF before
  <1>5. before = TotalsOf(InRange(last)) /\ InRange(last) \subseteq Live
    BY WhereAll DEF before, GetTotals, InRange
  <1>6. before \in [expense : Nat, income : Nat]
    BY <1>5, TotalsType
  <1>7. before # Nothing
    BY <1>6, ReportsAssumption
  <1>8. ~RecordedBefore(b.start) => before = [expense |-> 0, income |-> 0]
    <2> SUFFICES ASSUME ~RecordedBefore(b.start) PROVE before = [expense |-> 0, income |-> 0]
      OBVIOUS
    <2>1. \A i \in Live : ~(lines[i].day < last.end)
      BY <1>2 DEF RecordedBefore
    <2>2. InRange(last) = {}
      BY <2>1 DEF InRange
    <2> QED
      BY <1>5, <2>2, TotalsType
  <1>9. Comparison(b) = IF RecordedBefore(b.start) THEN before ELSE Nothing
    BY <1>4 DEF Comparison
  <1> QED
    BY <1>7, <1>8, <1>9 DEF b, last, before

\* A month of the year's or the quarter's trend is that month's report.
LEMMA TrendTells ==
  ASSUME FiguresType, NEW type \in {"quarterly", "yearly"}
  PROVE  LET trend == GetPeriodicBreakdown(ReportBoundary(date, type), "month", All) IN
         \A m \in DOMAIN trend : trend[m] = GenerateMonthly(m).totals
  <1> DEFINE w == Width(type)
             rows == Where(ReportBoundary(date, type), All)
             trend == GetPeriodicBreakdown(ReportBoundary(date, type), "month", All)
  <1>1. date \in Dates /\ type \in SpanTypes /\ w \in Widths /\ 1 \in Widths
    <2>1. date \in Dates
      BY ReportsAssumption DEF FiguresType, Dates
    <2>2. type \in SpanTypes
      BY DEF SpanTypes
    <2> QED
      BY <2>1, <2>2, WidthOf DEF Widths
  <1>2. \A k \in Dates : Truncated(k, "month") = SpanFrom(k, 1)
    BY OpeningsAre DEF Truncated, SpanFrom
  <1>3. \A i \in Live : lines[i].day \in Dates
    BY LiveLines
  <1>4. rows = {i \in Live : /\ YearOf(lines[i].day) = YearOf(date)
                             /\ OpeningOf(lines[i].day, w) = OpeningOf(date, w)}
    <2>1. /\ ReportBoundary(date, type).start = SpanFrom(date, w)
          /\ ReportBoundary(date, type).end = SpanTo(date, w)
      BY <1>1, ReportSpans
    <2> HIDE DEF w
    <2>2. rows = {i \in Live : SpanFrom(date, w) <= lines[i].day /\ lines[i].day < SpanTo(date, w)}
      BY <2>1, WhereAll DEF InRange
    <2>3. \A i \in Live : SpanFrom(date, w) <= lines[i].day /\ lines[i].day < SpanTo(date, w)
                          <=> /\ YearOf(lines[i].day) = YearOf(date)
                              /\ OpeningOf(lines[i].day, w) = OpeningOf(date, w)
      BY <1>1, <1>3, SameSpan
    <2> QED
      BY <2>2, <2>3
  <1>5. trend = [m \in {Truncated(lines[i].day, "month") : i \in rows} |->
                   TotalsOf({i \in rows : Truncated(lines[i].day, "month") = m})]
    BY DEF GetPeriodicBreakdown
  <1> HIDE DEF rows, w, trend
  <1> SUFFICES ASSUME NEW m \in DOMAIN trend PROVE trend[m] = GenerateMonthly(m).totals
    BY DEF trend
  <1>6. PICK i \in rows : m = Truncated(lines[i].day, "month")
    BY <1>5
  <1> DEFINE k == lines[i].day
             month == InRange(ReportBoundary(m, "monthly"))
             bucket == {j \in rows : Truncated(lines[j].day, "month") = m}
  <1>7. /\ k \in Dates /\ m = SpanFrom(k, 1)
        /\ YearOf(k) = YearOf(date) /\ OpeningOf(k, w) = OpeningOf(date, w)
    BY <1>2, <1>3, <1>4, <1>6
  <1> HIDE DEF k
  <1>8. /\ m \in Dates /\ YearOf(m) = YearOf(k) /\ OpeningOf(m, 1) = OpeningOf(k, 1)
        /\ SpanFrom(m, 1) = m
    BY <1>1, <1>7, SpanBegins
  <1>9. ReportBoundary(m, "monthly").start = m /\ ReportBoundary(m, "monthly").end = SpanTo(m, 1)
    <2>1. "monthly" \in SpanTypes /\ Width("monthly") = 1
      BY WidthOf DEF SpanTypes
    <2> QED
      BY <1>8, <2>1, ReportSpans
  <1>10. \A j \in Live : j \in month <=> SpanFrom(lines[j].day, 1) = m
    <2> SUFFICES ASSUME NEW j \in Live PROVE j \in month <=> SpanFrom(lines[j].day, 1) = m
      OBVIOUS
    <2> DEFINE l == lines[j].day
    <2>1. l \in Dates
      BY <1>3
    <2>2. j \in month <=> m <= l /\ l < SpanTo(m, 1)
      BY <1>9 DEF InRange
    <2> HIDE DEF l, month
    <2>3. m <= l /\ l < SpanTo(m, 1) <=> YearOf(l) = YearOf(m) /\ OpeningOf(l, 1) = OpeningOf(m, 1)
      BY <1>1, <1>8, <2>1, SameSpan
    <2>4. YearOf(l) = YearOf(m) /\ OpeningOf(l, 1) = OpeningOf(m, 1) => SpanFrom(l, 1) = m
      BY <1>8 DEF SpanFrom
    <2>5. SpanFrom(l, 1) = m => YearOf(l) = YearOf(m) /\ OpeningOf(l, 1) = OpeningOf(m, 1)
      <3> SUFFICES ASSUME SpanFrom(l, 1) = m
                   PROVE  YearOf(l) = YearOf(m) /\ OpeningOf(l, 1) = OpeningOf(m, 1)
        OBVIOUS
      <3>1. YearOf(SpanFrom(l, 1)) = YearOf(l) /\ OpeningOf(SpanFrom(l, 1), 1) = OpeningOf(l, 1)
        BY <1>1, <2>1, SpanBegins
      <3> QED
        BY <3>1
    <2> QED
      BY <2>2, <2>3, <2>4, <2>5 DEF l
  <1>11. month = bucket
    <2>1. month \subseteq Live /\ rows \subseteq Live
      BY <1>4 DEF InRange
    <2> HIDE DEF month
    <2>2. ASSUME NEW j \in Live, SpanFrom(lines[j].day, 1) = m PROVE j \in rows
      <3>1. SpanFrom(lines[j].day, 1) = SpanFrom(k, 1) /\ lines[j].day \in Dates
        BY <1>3, <1>7, <2>2
      <3>2. YearOf(lines[j].day) = YearOf(k) /\ OpeningOf(lines[j].day, w) = OpeningOf(k, w)
        BY <1>7, <3>1, MonthInSpan
      <3> QED
        BY <1>4, <1>7, <3>2
    <2>3. \A j \in Live : Truncated(lines[j].day, "month") = SpanFrom(lines[j].day, 1)
      BY <1>2, <1>3
    <2> QED
      BY <1>10, <2>1, <2>2, <2>3
  <1>12. GenerateMonthly(m).totals = TotalsOf(month)
    BY WhereAll DEF GenerateMonthly, GetTotals
  <1>13. trend[m] = TotalsOf(bucket)
    BY <1>5
  <1> HIDE DEF bucket, month
  <1> QED
    BY <1>11, <1>12, <1>13

LEMMA StoriesAgree ==
  ASSUME FiguresType
  PROVE  ReportsTellOneStory
  <1> DEFINE weekly == GenerateWeekly(date)
             monthly == GenerateMonthly(date)
             quarterly == GenerateQuarterly(date)
             yearly == GenerateYearly(date)
             dashboard == GenerateDashboard(date)
             b(type) == ReportBoundary(date, type)
             Before(type) == b(type).start - 1
             none == [expense |-> 0, income |-> 0]
  <1>1. date \in Dates /\ date >= 366
    BY AskedDay
  <1>2. \A d \in DOMAIN weekly.trend : weekly.trend[d] = GenerateDaily(d).totals
    <2> DEFINE rows == Where(b("weekly"), All)
    <2>1. weekly.trend = [d \in {Truncated(lines[i].day, "day") : i \in rows} |->
                            TotalsOf({i \in rows : Truncated(lines[i].day, "day") = d})]
      BY DEF GenerateWeekly, GetPeriodicBreakdown
    <2>2. rows = InRange(b("weekly")) /\ \A k : Truncated(k, "day") = k
      BY WhereAll DEF Truncated
    <2> SUFFICES ASSUME NEW d \in DOMAIN weekly.trend
                 PROVE  weekly.trend[d] = GenerateDaily(d).totals
      OBVIOUS
    <2>3. PICK i \in rows : d = lines[i].day
      BY <2>1, <2>2
    <2> DEFINE bucket == {j \in rows : Truncated(lines[j].day, "day") = d}
               day == InRange(ReportBoundary(d, "daily"))
    <2>4. day = {j \in Live : d <= lines[j].day /\ lines[j].day < d + 1}
      BY DEF InRange, ReportBoundary
    <2>5. \A j \in Live : lines[j].day \in Nat
      <3>1. Dates \subseteq Nat
        BY DEF Dates
      <3> QED
        BY <3>1, LiveLines
    <2>6. bucket = day
      <3>1. bucket = {j \in rows : lines[j].day = d}
        BY <2>2
      <3>2. rows = {j \in Live : b("weekly").start <= lines[j].day /\ lines[j].day < b("weekly").end}
        BY <2>2 DEF InRange
      <3>3. d \in Nat /\ b("weekly").start <= d /\ d < b("weekly").end
        BY <2>3, <2>5, <3>2
      <3>4. \A j \in Live : d <= lines[j].day /\ lines[j].day < d + 1 <=> lines[j].day = d
        BY <2>5, <3>3
      <3> HIDE DEF rows, bucket, day
      <3> QED
        BY <2>4, <3>1, <3>2, <3>3, <3>4
    <2>7. GenerateDaily(d).totals = TotalsOf(day)
      BY WhereAll DEF GenerateDaily, GetTotals
    <2>8. weekly.trend[d] = TotalsOf(bucket)
      BY <2>1
    <2> HIDE DEF bucket, day
    <2> QED
      BY <2>6, <2>7, <2>8
  <1>3. /\ yearly.trend = GetPeriodicBreakdown(b("yearly"), "month", All)
        /\ quarterly.trend = GetPeriodicBreakdown(b("quarterly"), "month", All)
    BY DEF GenerateYearly, GenerateQuarterly
  <1>4. /\ \A m \in DOMAIN yearly.trend : yearly.trend[m] = GenerateMonthly(m).totals
        /\ \A m \in DOMAIN quarterly.trend : quarterly.trend[m] = GenerateMonthly(m).totals
    <2> HIDE DEF yearly, quarterly
    <2> QED
      BY <1>3, TrendTells
  <1>5. \A m \in DOMAIN quarterly.trend : yearly.trend[m] = quarterly.trend[m]
    <2> DEFINE inQuarter == Where(b("quarterly"), All)
               inYear == Where(b("yearly"), All)
    <2>1. /\ DOMAIN yearly.trend = {Truncated(lines[i].day, "month") : i \in inYear}
          /\ DOMAIN quarterly.trend = {Truncated(lines[i].day, "month") : i \in inQuarter}
      BY <1>3 DEF GetPeriodicBreakdown
    <2>2. inQuarter \subseteq inYear
      <3>1. /\ 3 \in Widths /\ 12 \in Widths /\ "quarterly" \in SpanTypes /\ "yearly" \in SpanTypes
            /\ Width("quarterly") = 3 /\ Width("yearly") = 12
        BY WidthOf DEF Widths, SpanTypes
      <3>2. /\ b("quarterly").start = SpanFrom(date, 3) /\ b("quarterly").end = SpanTo(date, 3)
            /\ b("yearly").start = SpanFrom(date, 12) /\ b("yearly").end = SpanTo(date, 12)
        BY <1>1, <3>1, ReportSpans
      <3>3. /\ inQuarter = {i \in Live : SpanFrom(date, 3) <= lines[i].day /\ lines[i].day < SpanTo(date, 3)}
            /\ inYear = {i \in Live : SpanFrom(date, 12) <= lines[i].day /\ lines[i].day < SpanTo(date, 12)}
        BY <3>2, WhereAll DEF InRange
      <3>4. ASSUME NEW l \in Dates, SpanFrom(date, 3) <= l, l < SpanTo(date, 3)
            PROVE  SpanFrom(date, 12) <= l /\ l < SpanTo(date, 12)
        <4>1. YearOf(l) = YearOf(date)
          BY <1>1, <3>1, <3>4, SameSpan
        <4>2. OpeningOf(l, 12) = OpeningOf(date, 12)
          BY <1>1, OpeningsAre
        <4> QED
          BY <1>1, <3>1, <4>1, <4>2, SameSpan
      <3> QED
        BY <3>3, <3>4, LiveLines
    <2>3. DOMAIN quarterly.trend \subseteq DOMAIN yearly.trend
      <3> HIDE DEF inQuarter, inYear
      <3> QED
        BY <2>1, <2>2
    <2> HIDE DEF yearly, quarterly
    <2> QED
      BY <1>4, <2>3
  <1>6. quarterly.shift.prior = GenerateQuarterly(Before("quarterly")).shift.current
    <2> DEFINE last == ReportBoundary(Before("quarterly"), "quarterly")
    <2>1. last.start = b("quarterly").prior /\ last.end = b("quarterly").start
      BY <1>1, PeriodBefore DEF PeriodTypes
    <2>2. /\ PriorOf(b("quarterly")).start = b("quarterly").prior
          /\ PriorOf(b("quarterly")).end = b("quarterly").start
      BY DEF PriorOf
    <2>3. /\ quarterly.shift.prior = GetCategoryBreakdown(PriorOf(b("quarterly")), Expenses)
          /\ GenerateQuarterly(Before("quarterly")).shift.current = GetCategoryBreakdown(last, Expenses)
      BY DEF GenerateQuarterly
    <2> HIDE DEF last, b
    <2>4. GetCategoryBreakdown(PriorOf(b("quarterly")), Expenses) = GetCategoryBreakdown(last, Expenses)
      BY <2>1, <2>2, SameRange
    <2> QED
      BY <2>3, <2>4
  <1>7. IF dashboard.kind = "empty" THEN monthly.totals = none ELSE dashboard.totals = monthly.totals
    <2> DEFINE totals == GetTotals(b("monthly"), All)
    <2>1. monthly.totals = totals
      BY DEF GenerateMonthly
    <2>2. totals = [expense |-> totals.expense, income |-> totals.income]
      BY DEF GetTotals, TotalsOf
    <2>3. \/ dashboard = [kind |-> "empty"] /\ totals.expense = 0 /\ totals.income = 0
          \/ dashboard.kind = "summary" /\ dashboard.totals = totals
      <3> DEFINE top == TopOf(GetCategoryBreakdown(b("monthly"), Expenses), TopLimit)
      <3>1. dashboard = IF totals.expense = 0 /\ totals.income = 0
                            /\ GetCategoryBreakdown(b("monthly"), Expenses) = << >>
                        THEN [kind |-> "empty"]
                        ELSE [kind |-> "summary", totals |-> totals, topCategories |-> top]
        BY DEF GenerateDashboard
      <3> HIDE DEF top, totals, dashboard
      <3> QED
        BY <3>1
    <2> HIDE DEF totals, dashboard, monthly
    <2> QED
      BY <2>1, <2>2, <2>3
  <1>8. /\ weekly.prior = Comparison(b("weekly")) /\ monthly.prior = Comparison(b("monthly"))
        /\ yearly.prior = Comparison(b("yearly"))
        /\ \A n : /\ GenerateWeekly(n).totals = GetTotals(ReportBoundary(n, "weekly"), All)
                  /\ GenerateMonthly(n).totals = GetTotals(ReportBoundary(n, "monthly"), All)
                  /\ GenerateYearly(n).totals = GetTotals(ReportBoundary(n, "yearly"), All)
    BY DEF GenerateWeekly, GenerateMonthly, GenerateYearly
  <1>9. \A type \in {"weekly", "monthly", "yearly"} :
          LET before == GetTotals(ReportBoundary(Before(type), type), All) IN
          /\ Comparison(b(type)) \in {before, Nothing}
          /\ Comparison(b(type)) = Nothing => before = none
          /\ Comparison(b(type)) # Nothing => Comparison(b(type)) = before
    BY ComparisonTells DEF PeriodTypes
  <1>10. /\ weekly.prior \in {GenerateWeekly(Before("weekly")).totals} \cup {Nothing}
         /\ weekly.prior = Nothing => GenerateWeekly(Before("weekly")).totals = none
         /\ yearly.prior = Nothing => GenerateYearly(Before("yearly")).totals = none
         /\ monthly.prior # Nothing => monthly.prior = GenerateMonthly(Before("monthly")).totals
    <2> HIDE DEF weekly, monthly, yearly, b, none
    <2> QED
      BY <1>8, <1>9
  <1> QED
    BY <1>2, <1>4, <1>5, <1>6, <1>7, <1>10 DEF ReportsTellOneStory

(***************************************************************************)
(* Pages and files: the newest row first                                   *)
(***************************************************************************)
LEMMA NewerOrders ==
  ASSUME FiguresType
  PROVE  /\ \A i \in Live : ~ Newer(i, i)
         /\ \A i, j \in Live : i = j \/ Newer(i, j) \/ Newer(j, i)
         /\ \A i, j, k \in Live : Newer(i, j) /\ Newer(j, k) => Newer(i, k)
  <1>1. \A i \in Live : i \in Int /\ lines[i].day \in Nat
    <2>1. Dates \subseteq Nat
      BY DEF Dates
    <2> QED
      BY <2>1, LiveLines, ReportsAssumption
  <1> QED
    BY <1>1 DEF Newer

LEMMA OldestExists ==
  ASSUME FiguresType, NEW ids, ids \subseteq Live, ids # {}
  PROVE  \E x \in ids : \A y \in ids : y # x => Newer(y, x)
  <1> DEFINE Oldest(T, x) == x \in T /\ \A y \in T : y # x => Newer(y, x)
             Good == {T \in SUBSET ids : T = {} \/ \E x : Oldest(T, x)}
  <1>1. {} \in Good
    OBVIOUS
  <1>2. ASSUME NEW T \in SUBSET ids, NEW x \in T, T \ {x} \in Good PROVE T \in Good
    <2>1. CASE T \ {x} = {}
      <3>1. T = {x}
        BY <2>1
      <3>2. Oldest(T, x)
        BY <3>1
      <3> QED
        BY <3>2
    <2>2. CASE T \ {x} # {}
      <3>1. PICK z : Oldest(T \ {x}, z)
        BY <1>2, <2>2
      <3>2. x \in Live /\ z \in Live /\ z # x /\ z \in T
        BY <3>1
      <3>3. CASE Newer(x, z)
        <4>1. Oldest(T, z)
          BY <3>1, <3>2, <3>3
        <4> QED
          BY <4>1
      <3>4. CASE Newer(z, x)
        <4>1. \A y \in T : y # x => Newer(y, x)
          BY <3>1, <3>2, <3>4, NewerOrders
        <4>2. Oldest(T, x)
          BY <4>1
        <4> QED
          BY <4>2
      <3> QED
        BY <3>2, <3>3, <3>4, NewerOrders
    <2> QED
      BY <2>1, <2>2
  <1>3. IsFiniteSet(ids)
    BY SumOfLines
  <1> HIDE DEF Good
  <1>4. ids \in Good
    BY <1>1, <1>2, <1>3, SubsetInduction
  <1> QED
    BY <1>4 DEF Good

\* NewestFirst has an order to choose.
Sorted(s) == \A k, l \in DOMAIN s : k < l => Newer(s[k], s[l])

LEMMA OrderExists ==
  ASSUME FiguresType, NEW ids, ids \subseteq Live
  PROVE  \E s \in [1..Cardinality(ids) -> ids] : Sorted(s)
  <1> DEFINE bad == {T \in SUBSET ids : ~\E s \in [1..Cardinality(T) -> T] : Sorted(s)}
  <1>1. IsFiniteSet(ids)
    BY SumOfLines
  <1>2. ASSUME bad # {} PROVE FALSE
    <2>1. PICK T \in bad : \A R \in bad : R \subseteq T => R = T
      <3>1. bad \subseteq SUBSET ids
        OBVIOUS
      <3> HIDE DEF bad
      <3> QED
        BY <1>1, <1>2, <3>1, LeastSubset
    <2>2. T \subseteq Live /\ IsFiniteSet(T)
      BY <1>1, FS_Subset
    <2>3. CASE T = {}
      <3>1. Cardinality(T) = 0
        BY <2>3, FS_EmptySet
      <3> DEFINE s == [k \in 1..0 |-> 0]
      <3>2. s \in [1..Cardinality(T) -> T] /\ Sorted(s)
        BY <3>1 DEF Sorted
      <3> QED
        BY <2>1, <3>2
    <2>4. CASE T # {}
      <3>1. PICK x \in T : \A y \in T : y # x => Newer(y, x)
        BY <2>2, <2>4, OldestExists
      <3> DEFINE R == T \ {x}
                 n == Cardinality(T)
      <3>2. n \in Nat /\ Cardinality(R) = n - 1 /\ R \subseteq T /\ R # T /\ R \in SUBSET ids
            /\ Cardinality(R) \in Nat
        <4>1. IsFiniteSet(R) /\ Cardinality(R) = n - 1
          BY <2>2, FS_RemoveElement
        <4> QED
          BY <2>2, <4>1, FS_CardinalityType
      <3>3. PICK old \in [1..(n - 1) -> R] : Sorted(old)
        BY <2>1, <3>2
      <3> DEFINE s == [k \in 1..n |-> IF k = n THEN x ELSE old[k]]
      <3>4. \A k \in 1..n : k # n => k \in 1..(n - 1)
        BY <3>2
      <3>5. s \in [1..n -> T]
        BY <3>3, <3>4
      <3>6. Sorted(s)
        <4> SUFFICES ASSUME NEW k \in 1..n, NEW l \in 1..n, k < l PROVE Newer(s[k], s[l])
          BY DEF Sorted
        <4>1. k \in 1..(n - 1) /\ s[k] = old[k] /\ old[k] \in R
          BY <3>2, <3>3
        <4>2. CASE l = n
          BY <3>1, <4>1, <4>2
        <4>3. CASE l # n
          BY <3>3, <3>4, <4>1, <4>3 DEF Sorted
        <4> QED
          BY <4>2, <4>3
      <3> HIDE DEF s
      <3> QED
        BY <2>1, <3>5, <3>6
    <2> QED
      BY <2>3, <2>4
  <1> QED
    BY <1>2

\* The rows of a query in the order of its pages: each of them, once.
LEMMA RowsAre ==
  ASSUME FiguresType, NEW ids, ids \subseteq Live
  PROVE  /\ NewestFirst(ids) \in Seq(ids) /\ Len(NewestFirst(ids)) = Cardinality(ids)
         /\ Len(NewestFirst(ids)) \in Nat /\ Len(NewestFirst(ids)) <= Cardinality(LineIds)
         /\ \A i \in ids : \E k \in 1..Len(NewestFirst(ids)) : NewestFirst(ids)[k] = i
  <1> DEFINE s == NewestFirst(ids)
             n == Cardinality(ids)
  <1>1. s \in [1..n -> ids] /\ Sorted(s)
    BY OrderExists DEF NewestFirst, Sorted
  <1>2. IsFiniteSet(ids) /\ n \in Nat
    BY SumOfLines, FS_CardinalityType
  <1> HIDE DEF s
  <1>3. s \in Seq(ids) /\ Len(s) = n
    BY <1>1, <1>2
  <1>4. s \in Injection(1..n, ids)
    <2>1. \A k, l \in 1..n : k # l => k < l \/ l < k
      BY <1>2
    <2>2. ASSUME NEW k \in 1..n, NEW l \in 1..n, k # l PROVE s[k] # s[l]
      <3>1. s[k] \in Live /\ s[l] \in Live
        BY <1>1
      <3>2. Newer(s[k], s[l]) \/ Newer(s[l], s[k])
        BY <1>1, <2>1, <2>2 DEF Sorted
      <3> QED
        BY <3>1, <3>2, NewerOrders
    <2> QED
      BY <1>1, <2>2 DEF Injection, IsInjective
  <1>5. s \in Surjection(1..n, ids)
    <2>1. Cardinality(1..n) = n
      <3>1. 1 \in Int /\ n \in Int /\ (n >= 1 \/ n = 0)
        BY <1>2
      <3>2. Cardinality(1..n) = IF 1 > n THEN 0 ELSE n - 1 + 1
        BY <3>1, FS_Interval, Zenon
      <3> QED
        BY <1>2, <3>2
    <2> QED
      BY <1>2, <1>4, <2>1, FS_Injection
  <1>6. n <= Cardinality(LineIds)
    BY LiveLines, ReportsAssumption, FS_Subset
  <1> QED
    BY <1>2, <1>3, <1>5, <1>6 DEF Surjection, s

LEMMA LesserOfTwo ==
  ASSUME NEW a \in Int, NEW b \in Int
  PROVE  Min({a, b}) = IF a < b THEN a ELSE b
  <1> DEFINE m == IF a < b THEN a ELSE b
  <1>1. m \in {a, b} /\ \A y \in {a, b} : m =< y
    OBVIOUS
  <1>2. \A x \in {a, b} : (\A y \in {a, b} : x =< y) => x = m
    OBVIOUS
  <1> HIDE DEF m
  <1>3. Min({a, b}) = m
    BY <1>1, <1>2 DEF Min
  <1> QED
    BY <1>3 DEF m

\* A page of a search.
PageOf(rows, p) == SubSeq(rows, p * PageSize + 1, Min({p * PageSize + PageSize, Len(rows)}))

LEMMA PagesAre ==
  ASSUME FiguresType, NEW range, NEW filters, NEW p \in Nat,
         NEW rows, rows = NewestFirst(SearchWhere(range, filters)), rows \in Seq(LineIds)
  PROVE  /\ Search(range, filters, p).results = PageOf(rows, p)
         /\ Search(range, filters, p).hasNext <=> p * PageSize + PageSize < Len(rows)
         /\ p * PageSize \in Nat
         /\ p * PageSize >= Len(rows) => PageOf(rows, p) = << >>
         /\ p * PageSize < Len(rows) =>
              PageOf(rows, p) = SubSeq(rows, p * PageSize + 1,
                                       IF p * PageSize + PageSize < Len(rows)
                                       THEN p * PageSize + PageSize ELSE Len(rows))
  <1> DEFINE offset == p * PageSize
             L == Len(rows)
             end == Min({offset + PageSize, L})
  <1>1. PageSize \in Nat /\ PageSize >= 1
    <2>1. PageSize \in Nat \ {0}
      BY ReportsAssumption
    <2> QED
      BY <2>1
  <1>2. offset \in Nat /\ L \in Nat
    <2>1. \A a, b \in Nat : a * b \in Nat
      OBVIOUS
    <2> QED
      BY <1>1, <2>1
  <1>3. Max({0, p}) = p
    <2>1. p \in {0, p} /\ \A y \in {0, p} : p >= y
      OBVIOUS
    <2>2. \A x \in {0, p} : (\A y \in {0, p} : x >= y) => x = p
      OBVIOUS
    <2> QED
      BY <2>1, <2>2 DEF Max
  <1> HIDE DEF offset, L
  <1>4. end = IF offset + PageSize < L THEN offset + PageSize ELSE L
    <2>1. offset + PageSize \in Int /\ L \in Int
      BY <1>1, <1>2
    <2> QED
      BY <2>1, LesserOfTwo
  <1> HIDE DEF end
  <1>5. PageOf(rows, p) = SubSeq(rows, offset + 1, end)
    BY DEF PageOf, offset, L, end
  <1>6. /\ Search(range, filters, p).results = SubSeq(rows, offset + 1, end)
        /\ Search(range, filters, p).hasNext <=> offset + Len(SubSeq(rows, offset + 1, end)) < L
    BY <1>3 DEF Search, offset, L, end
  <1>7. CASE offset >= L
    <2>1. end = L /\ end \in Int /\ offset + 1 \in Int /\ end < offset + 1
      BY <1>1, <1>2, <1>4, <1>7
    <2>2. SubSeq(rows, offset + 1, end) = << >>
      BY <2>1, SubSeqEmpty
    <2>3. ~(offset + PageSize < L) /\ ~(offset < L) /\ offset + 0 = offset
      BY <1>1, <1>2, <1>7
    <2>4. Len(<< >>) = 0
      OBVIOUS
    <2>5. ~ Search(range, filters, p).hasNext
      BY <1>6, <2>2, <2>3, <2>4
    <2>6. offset \in Nat /\ PageOf(rows, p) = << >>
      BY <1>2, <1>5, <2>2
    <2> QED
      BY <1>5, <1>6, <2>3, <2>5, <2>6 DEF offset, L
  <1>8. CASE offset < L
    <2>1. end \in Int /\ offset + 1 \in Int /\ offset + 1 <= end /\ end <= L
      BY <1>1, <1>2, <1>4, <1>8
    <2>2. \A k \in (offset + 1)..end : rows[k] \in LineIds
      <3>1. \A k \in (offset + 1)..end : k \in 1..L
        BY <1>2, <2>1
      <3> QED
        BY <3>1 DEF L
    <2>3. Len(SubSeq(rows, offset + 1, end)) = end - (offset + 1) + 1
      BY <2>1, <2>2, SubSeqProperties
    <2>4. offset + Len(SubSeq(rows, offset + 1, end)) = end
      BY <1>2, <2>1, <2>3
    <2>5. Search(range, filters, p).hasNext <=> offset + PageSize < L
      BY <1>1, <1>2, <1>4, <1>6, <2>1, <2>4
    <2>6. PageOf(rows, p) = SubSeq(rows, offset + 1,
                                   IF offset + PageSize < L THEN offset + PageSize ELSE L)
      BY <1>4, <1>5
    <2>7. ~(offset >= L) /\ offset \in Nat
      BY <1>2, <1>8
    <2> QED
      BY <1>5, <1>6, <2>5, <2>6, <2>7 DEF offset, L
  <1> QED
    BY <1>2, <1>7, <1>8

\* Where a page begins: products as sums.
LEMMA PagesFollow ==
  ASSUME NEW p \in Nat
  PROVE  /\ PageSize \in Nat /\ PageSize >= 1 /\ p * PageSize \in Nat /\ p <= p * PageSize
         /\ (p + 1) * PageSize = p * PageSize + PageSize /\ 0 * PageSize = 0
  <1>1. PageSize \in Nat \ {0}
    BY ReportsAssumption
  <1>2. ASSUME NEW b \in Nat, b >= 1
        PROVE  /\ p * b \in Nat /\ p <= p * b /\ (p + 1) * b = p * b + b /\ 0 * b = 0
    <2>1. p * b \in Nat /\ (p + 1) * b = p * b + b /\ 0 * b = 0
      OBVIOUS
    <2>2. b - 1 \in Nat
      BY <1>2
    <2>3. \A c \in Nat : p * c \in Nat /\ p * (c + 1) = p * c + p
      OBVIOUS
    <2>4. p * (b - 1) \in Nat /\ p * ((b - 1) + 1) = p * (b - 1) + p
      BY <2>2, <2>3
    <2>5. (b - 1) + 1 = b
      OBVIOUS
    <2>6. p <= p * b
      BY <2>4, <2>5
    <2> QED
      BY <2>1, <2>6
  <1> QED
    BY <1>1, <1>2

\* The pages read up to the first that announces no next one are all the rows.
IsRead(r, last, range) ==
  r = [n \in 0..(last + 1) |->
         IF n = 0 THEN << >> ELSE r[n - 1] \o Search(range, Expenses, n - 1).results]

LEMMA ReadingGathers ==
  ASSUME NEW rows \in Seq(LineIds), NEW last \in Nat, NEW range,
         \A p \in Nat : Search(range, Expenses, p).results = PageOf(rows, p),
         \A p \in Nat : p * PageSize >= Len(rows) => PageOf(rows, p) = << >>,
         \A p \in Nat : p * PageSize < Len(rows) =>
              PageOf(rows, p) = SubSeq(rows, p * PageSize + 1,
                                       IF p * PageSize + PageSize < Len(rows)
                                       THEN p * PageSize + PageSize ELSE Len(rows)),
         (last + 1) * PageSize >= Len(rows)
  PROVE  /\ \E r : IsRead(r, last, range)
         /\ \A r : IsRead(r, last, range) => r[last + 1] = rows
  <1> DEFINE L == Len(rows)
             at(n) == IF n * PageSize < L THEN n * PageSize ELSE L
             upTo(n) == SubSeq(rows, 1, at(n))
             D == 0..(last + 1)
             r0 == [n \in D |-> upTo(n)]
  <1>1. L \in Nat
    OBVIOUS
  <1>2. at(0) = 0 /\ at(last + 1) = L
    <2>1. last + 1 \in Nat
      OBVIOUS
    <2>2. (last + 1) * PageSize \in Nat /\ 0 * PageSize = 0
      BY <2>1, PagesFollow
    <2> HIDE DEF L
    <2>3. 0 < L \/ L = 0
      BY <1>1
    <2>4. ~((last + 1) * PageSize < L)
      BY <1>1, <2>2 DEF L
    <2> QED
      BY <2>2, <2>3, <2>4
  <1>3. upTo(0) = << >>
    <2>1. 1 \in Int /\ 0 \in Int /\ 0 < 1
      OBVIOUS
    <2>2. SubSeq(rows, 1, 0) = << >>
      BY <2>1, SubSeqEmpty
    <2> HIDE DEF at
    <2> QED
      BY <1>2, <2>2
  <1>4. upTo(last + 1) = rows
    <2>1. SubSeq(rows, 1, L) = rows
      BY SubSeqFull
    <2> HIDE DEF at, L
    <2> QED
      BY <1>2, <2>1
  <1>5. ASSUME NEW n \in D, n # 0 PROVE upTo(n) = upTo(n - 1) \o Search(range, Expenses, n - 1).results
    <2> DEFINE p == n - 1
               off == p * PageSize
    <2>1. p \in Nat /\ n = p + 1
      BY <1>5
    <2> HIDE DEF p
    <2>2. off \in Nat /\ PageSize \in Nat /\ PageSize >= 1 /\ n * PageSize = off + PageSize
      BY <2>1, PagesFollow
    <2>3. Search(range, Expenses, p).results = PageOf(rows, p)
      BY <2>1
    <2>4. CASE off >= L
      <3>1. PageOf(rows, p) = << >>
        BY <2>1, <2>4
      <3>2. at(p) = L /\ at(n) = L
        <4>1. ~(off < L) /\ ~(off + PageSize < L)
          BY <1>1, <2>2, <2>4
        <4> HIDE DEF L
        <4> QED
          BY <2>2, <4>1
      <3>3. rows \o << >> = rows
        OBVIOUS
      <3>4. SubSeq(rows, 1, L) = rows
        BY SubSeqFull
      <3>5. upTo(p) = rows /\ upTo(n) = rows
        <4> HIDE DEF at, L
        <4> QED
          BY <3>2, <3>4
      <3> HIDE DEF upTo
      <3>6. upTo(n) = upTo(p) \o Search(range, Expenses, p).results
        BY <2>3, <3>1, <3>3, <3>5
      <3> QED
        BY <3>6 DEF p
    <2>5. CASE off < L
      <3> DEFINE end == IF off + PageSize < L THEN off + PageSize ELSE L
      <3>1. PageOf(rows, p) = SubSeq(rows, off + 1, end)
        BY <2>1, <2>5
      <3>2. at(p) = off /\ at(n) = end
        BY <2>2, <2>5
      <3>3. off \in 0..L /\ end \in off..L
        <4> HIDE DEF off, L
        <4> QED
          BY <1>1, <2>2, <2>5
      <3> HIDE DEF end, off, at
      <3>4. 1 \in 1..(Len(rows) + 1) /\ off \in (1 - 1)..Len(rows) /\ end \in off..Len(rows)
        <4>1. 1 \in 1..(L + 1) /\ off \in (1 - 1)..L
          BY <1>1, <3>3
        <4> QED
          BY <3>3, <4>1
      <3>5. SubSeq(rows, 1, off) \o SubSeq(rows, off + 1, end) = SubSeq(rows, 1, end)
        BY <3>4, ConcatAdjacentSubSeq
      <3>6. upTo(n) = upTo(p) \o Search(range, Expenses, p).results
        BY <2>3, <3>1, <3>2, <3>5
      <3> QED
        BY <3>6 DEF p
    <2>6. off >= L \/ off < L
      <3> HIDE DEF off, L
      <3> QED
        BY <1>1, <2>2
    <2> QED
      BY <2>4, <2>5, <2>6
  <1> HIDE DEF upTo
  <1>6. IsRead(r0, last, range)
    <2>1. \A n \in D : n # 0 => n - 1 \in D
      OBVIOUS
    <2>2. \A n \in D : r0[n] = IF n = 0 THEN << >> ELSE r0[n - 1] \o Search(range, Expenses, n - 1).results
      BY <1>3, <1>5, <2>1
    <2>3. r0 = [n \in D |-> r0[n]]
      OBVIOUS
    <2> HIDE DEF r0
    <2> QED
      BY <2>2, <2>3 DEF IsRead
  <1>7. ASSUME NEW r, IsRead(r, last, range) PROVE r[last + 1] = rows
    <2> DEFINE bad == {n \in D : r[n] # upTo(n)}
    <2>1. \A n \in D : r[n] = IF n = 0 THEN << >> ELSE r[n - 1] \o Search(range, Expenses, n - 1).results
      BY <1>7 DEF IsRead
    <2>2. ASSUME bad # {} PROVE FALSE
      <3>1. PICK n \in bad : \A k \in bad : n <= k
        <4>1. bad \subseteq Nat
          OBVIOUS
        <4> HIDE DEF bad
        <4> QED
          BY <2>2, <4>1, LeastNatural
      <3>2. CASE n = 0
        BY <1>3, <2>1, <3>1, <3>2
      <3>3. CASE n # 0
        <4>1. n - 1 \in D /\ n \in Nat /\ ~(n <= n - 1)
          BY <3>1, <3>3
        <4>2. n - 1 \notin bad
          BY <3>1, <4>1
        <4>3. r[n - 1] = upTo(n - 1)
          BY <4>1, <4>2
        <4>4. r[n] = upTo(n - 1) \o Search(range, Expenses, n - 1).results /\ n \in D
          BY <2>1, <3>1, <3>3, <4>3
        <4>5. r[n] = upTo(n)
          BY <1>5, <3>3, <4>4
        <4> QED
          BY <3>1, <4>5
      <3> QED
        BY <3>2, <3>3
    <2>3. last + 1 \in D
      OBVIOUS
    <2> QED
      BY <1>4, <2>2, <2>3
  <1> QED
    BY <1>6, <1>7

\* What a file holds of its rows: all of them, unless there are none or too many.
LEMMA FileHolds ==
  ASSUME NEW range, NEW rows \in Seq(LineIds), rows = NewestFirst(Where(range, Expenses))
  PROVE  /\ Export(range, Expenses).kind = "empty" <=> rows = << >>
         /\ Export(range, Expenses).kind = "too_large" <=> Len(rows) > MaxExport
         /\ Export(range, Expenses).kind = "generated" => Export(range, Expenses).rows = rows
  <1> DEFINE L == Len(rows)
             limit == MaxExport + 1
             m == Min({limit, L})
             some == SubSeq(rows, 1, m)
             file == Export(range, Expenses)
  <1>1. L \in Nat /\ MaxExport \in Nat /\ limit \in Nat /\ limit = MaxExport + 1
    <2>1. MaxExport \in Nat
      BY ReportsAssumption
    <2> QED
      BY <2>1
  <1>2. rows = << >> <=> L = 0
    OBVIOUS
  <1>3. file = CASE some = << >> -> [kind |-> "empty"]
                 [] Len(some) > MaxExport -> [kind |-> "too_large"]
                 [] some # << >> /\ Len(some) <= MaxExport -> [kind |-> "generated", rows |-> some]
    BY DEF Export, First
  <1>4. SubSeq(rows, 1, L) = rows
    BY SubSeqFull
  <1> HIDE DEF L, limit, file
  <1>5. m = IF limit < L THEN limit ELSE L
    BY <1>1, LesserOfTwo
  <1> HIDE DEF m
  <1>6. \A k \in 1..m : rows[k] \in LineIds
    <2>1. \A k \in 1..m : k \in 1..L
      BY <1>1, <1>5
    <2> QED
      BY <2>1 DEF L
  <1>7. m \in Nat /\ m <= L /\ (m = 0 <=> L = 0) /\ (m > MaxExport <=> L > MaxExport)
        /\ (m <= MaxExport => m = L)
    BY <1>1, <1>5
  <1>8. Len(some) = m /\ some \in Seq(LineIds)
    <2>1. 1 \in Int /\ m \in Int
      BY <1>7
    <2>2. Len(some) = (IF 1 <= m THEN m - 1 + 1 ELSE 0) /\ some \in Seq(LineIds)
      BY <1>6, <2>1, SubSeqProperties
    <2> HIDE DEF some
    <2> QED
      BY <1>7, <2>2
  <1>9. m = L => some = rows
    BY <1>4
  <1> HIDE DEF some
  <1>10. some = << >> <=> m = 0
    BY <1>8
  <1>11. CASE L = 0
    <2>1. file = [kind |-> "empty"]
      BY <1>3, <1>1, <1>7, <1>8, <1>10, <1>11
    <2> QED
      BY <1>1, <1>2, <1>11, <2>1 DEF file, L
  <1>12. CASE L > MaxExport
    <2>1. L # 0 /\ m # 0 /\ m > MaxExport /\ ~(m <= MaxExport)
      BY <1>1, <1>7, <1>12
    <2>2. file = [kind |-> "too_large"]
      BY <1>3, <1>8, <1>10, <2>1
    <2> QED
      BY <1>2, <1>12, <2>1, <2>2 DEF file, L
  <1>13. CASE L # 0 /\ ~(L > MaxExport)
    <2>1. m # 0 /\ ~(m > MaxExport) /\ m <= MaxExport /\ m = L
      BY <1>1, <1>7, <1>13
    <2>2. file = [kind |-> "generated", rows |-> some] /\ some = rows
      BY <1>3, <1>8, <1>9, <1>10, <2>1
    <2> QED
      BY <1>2, <1>13, <2>2 DEF file, L
  <1> QED
    BY <1>11, <1>12, <1>13

\* Every row of a search is on one of its first pages.
LEMMA RowsArePaged ==
  ASSUME FiguresType, NEW range, NEW filters, SearchWhere(range, filters) \subseteq Live,
         NEW i \in SearchWhere(range, filters)
  PROVE  \E p \in 0..Cardinality(LineIds) : i \in Range(Search(range, filters, p).results)
  <1> DEFINE rows == NewestFirst(SearchWhere(range, filters))
             L == Len(rows)
             N == Cardinality(LineIds)
  <1>1. /\ rows \in Seq(LineIds) /\ L \in Nat /\ L <= N
        /\ \A j \in SearchWhere(range, filters) : \E k \in 1..L : rows[k] = j
    <2>1. rows \in Seq(SearchWhere(range, filters)) /\ SearchWhere(range, filters) \subseteq LineIds
      BY RowsAre, LiveLines
    <2>2. rows \in Seq(LineIds)
      <3> HIDE DEF rows
      <3> QED
        BY <2>1
    <2> QED
      BY <2>2, RowsAre
  <1>2. PICK k \in 1..L : rows[k] = i
    BY <1>1
  <1>3. N \in Nat
    BY ReportsAssumption, FS_CardinalityType
  <1> DEFINE onPage(p) == p * PageSize < k /\ k <= p * PageSize + PageSize
             past == {p \in Nat : k <= p * PageSize + PageSize}
  <1> HIDE DEF L, N, rows
  <1>4. k \in Nat /\ 1 <= k /\ k <= L
    BY <1>1
  <1>5. PICK p \in Nat : onPage(p) /\ p <= k
    <2>1. k \in past
      <3>1. k * PageSize \in Nat /\ k <= k * PageSize /\ PageSize \in Nat
        BY <1>4, PagesFollow
      <3> QED
        BY <1>4, <3>1
    <2>2. PICK p \in past : \A q \in past : p <= q
      <3>1. past \subseteq Nat
        OBVIOUS
      <3> HIDE DEF past
      <3> QED
        BY <2>1, <3>1, LeastNatural
    <2>3. p \in Nat /\ k <= p * PageSize + PageSize /\ p <= k
      BY <2>1, <2>2
    <2>4. p * PageSize < k
      <3>1. CASE p = 0
        BY <1>4, <3>1, PagesFollow
      <3>2. CASE p # 0
        <4>1. p - 1 \in Nat /\ (p - 1) + 1 = p /\ ~(p <= p - 1)
          BY <2>3, <3>2
        <4>2. p - 1 \notin past
          <5> HIDE DEF past
          <5> QED
            BY <2>2, <4>1
        <4>3. ~(k <= (p - 1) * PageSize + PageSize)
          BY <4>1, <4>2
        <4>4. p * PageSize = (p - 1) * PageSize + PageSize /\ (p - 1) * PageSize \in Nat
              /\ PageSize \in Nat
          <5>1. ((p - 1) + 1) * PageSize = (p - 1) * PageSize + PageSize
                /\ (p - 1) * PageSize \in Nat /\ PageSize \in Nat
            BY <4>1, PagesFollow
          <5> QED
            BY <4>1, <5>1
        <4>5. \A a, b \in Nat : ~(k <= a + b) => a + b < k
          BY <1>4
        <4> QED
          BY <4>3, <4>4, <4>5
      <3> QED
        BY <3>1, <3>2
    <2> QED
      BY <2>3, <2>4
  <1> DEFINE off == p * PageSize
             end == IF off + PageSize < L THEN off + PageSize ELSE L
             page == SubSeq(rows, off + 1, end)
  <1>6. off \in Nat /\ PageSize \in Nat /\ off < k /\ k <= off + PageSize
    BY <1>5, PagesFollow
  <1>7. Search(range, filters, p).results = page
    <2>1. off < L
      <3> HIDE DEF off
      <3> QED
        BY <1>1, <1>4, <1>6
    <2>2. Search(range, filters, p).results = PageOf(rows, p)
      BY <1>1, PagesAre DEF rows
    <2>3. p * PageSize < Len(rows) =>
              PageOf(rows, p) = SubSeq(rows, p * PageSize + 1,
                                       IF p * PageSize + PageSize < Len(rows)
                                       THEN p * PageSize + PageSize ELSE Len(rows))
      BY <1>1, PagesAre DEF rows
    <2> QED
      BY <2>1, <2>2, <2>3 DEF L
  <1>8. end \in Nat /\ k <= end /\ end <= L /\ off + 1 <= end /\ off + 1 \in Int
        /\ k - off \in 1..(end - (off + 1) + 1) /\ (off + 1) + (k - off) - 1 = k
    <2> HIDE DEF off
    <2> QED
      BY <1>1, <1>4, <1>6
  <1> HIDE DEF off, end
  <1>9. \A l \in (off + 1)..end : rows[l] \in LineIds
    <2>1. \A l \in (off + 1)..end : l \in 1..L
      BY <1>1, <1>6, <1>8
    <2> QED
      BY <1>1, <2>1 DEF L
  <1>10. /\ Len(page) = end - (off + 1) + 1 /\ page \in Seq(LineIds)
         /\ page[k - off] = rows[k]
    <2>1. end \in Int
      BY <1>8
    <2>2. /\ page \in Seq(LineIds)
          /\ Len(page) = IF off + 1 <= end THEN end - (off + 1) + 1 ELSE 0
          /\ \A j \in 1..(end - (off + 1) + 1) : page[j] = rows[(off + 1) + j - 1]
      BY <1>8, <1>9, <2>1, SubSeqProperties
    <2> HIDE DEF page
    <2>3. page[k - off] = rows[(off + 1) + (k - off) - 1]
      BY <1>8, <2>2
    <2> QED
      BY <1>8, <2>2, <2>3
  <1>11. i \in Range(page)
    <2> HIDE DEF page
    <2>1. DOMAIN page = 1..Len(page) /\ k - off \in 1..Len(page)
      BY <1>8, <1>10
    <2> QED
      BY <1>2, <1>10, <2>1 DEF Range
  <1>12. p \in 0..N
    BY <1>1, <1>3, <1>4, <1>5
  <1> QED
    BY <1>7, <1>11, <1>12 DEF N

LEMMA PagesCover ==
  ASSUME FiguresType
  PROVE  PagesCoverTheExport
  <1> SUFFICES ASSUME NEW range \in Ranges
               PROVE  LET last == CHOOSE p \in 0..Cardinality(LineIds) :
                                    /\ ~ Search(range, Expenses, p).hasNext
                                    /\ \A q \in 0..(p - 1) : Search(range, Expenses, q).hasNext
                          read == CHOOSE r : IsRead(r, last, range)
                          all == read[last + 1]
                          file == Export(range, Expenses) IN
                      /\ file.kind = "empty" <=> all = << >>
                      /\ file.kind = "too_large" <=> Len(all) > MaxExport
                      /\ file.kind = "generated" => file.rows = all
                      /\ Where(range, Expenses) \subseteq
                           UNION {Range(Search(Nothing, Expenses, p).results) :
                                    p \in 0..Cardinality(LineIds)}
    BY DEF PagesCoverTheExport, IsRead
  <1> DEFINE ids == Where(range, Expenses)
             rows == NewestFirst(ids)
             L == Len(rows)
             N == Cardinality(LineIds)
             Stops(p) == /\ ~ Search(range, Expenses, p).hasNext
                         /\ \A q \in 0..(p - 1) : Search(range, Expenses, q).hasNext
             last == CHOOSE p \in 0..N : Stops(p)
             read == CHOOSE r : IsRead(r, last, range)
  <1>1. ids \subseteq Live /\ ids = SearchWhere(range, Expenses)
    <2>1. range \in [start : Int, end : Int]
      BY RangesAre
    <2>2. range # Nothing
      BY <2>1, ReportsAssumption
    <2>3. ids = SearchWhere(range, Expenses)
      BY <2>2 DEF SearchWhere
    <2> QED
      BY <2>3 DEF Where
  <1>2. rows \in Seq(LineIds) /\ L \in Nat /\ L <= N
    <2>1. rows \in Seq(ids) /\ ids \subseteq LineIds /\ L \in Nat /\ L <= N
      BY <1>1, RowsAre, LiveLines
    <2> HIDE DEF ids, rows, L
    <2> QED
      BY <2>1
  <1>3. N \in Nat
    BY ReportsAssumption, FS_CardinalityType
  <1>4. \A p \in Nat :
          /\ Search(range, Expenses, p).results = PageOf(rows, p)
          /\ Search(range, Expenses, p).hasNext <=> p * PageSize + PageSize < L
          /\ p * PageSize >= L => PageOf(rows, p) = << >>
          /\ p * PageSize < L =>
               PageOf(rows, p) = SubSeq(rows, p * PageSize + 1,
                                        IF p * PageSize + PageSize < L
                                        THEN p * PageSize + PageSize ELSE L)
    <2>1. rows = NewestFirst(SearchWhere(range, Expenses))
      BY <1>1
    <2> HIDE DEF rows
    <2> QED
      BY <1>2, <2>1, PagesAre
  <1> HIDE DEF rows, L, N, ids
  <1>5. \E p \in 0..N : Stops(p)
    <2> DEFINE ends == {p \in Nat : ~ Search(range, Expenses, p).hasNext}
    <2>1. L \in ends
      <3>1. L * PageSize \in Nat /\ L <= L * PageSize /\ PageSize \in Nat
        BY <1>2, PagesFollow
      <3>2. ~(L * PageSize + PageSize < L)
        BY <1>2, <3>1
      <3> QED
        BY <1>2, <1>4, <3>2
    <2>2. PICK p \in ends : \A q \in ends : p <= q
      <3>1. ends \subseteq Nat
        OBVIOUS
      <3> HIDE DEF ends
      <3> QED
        BY <2>1, <3>1, LeastNatural
    <2>3. p \in 0..N
      BY <1>2, <1>3, <2>1, <2>2
    <2>4. \A q \in 0..(p - 1) : q \in Nat /\ ~(p <= q)
      BY <2>3
    <2>5. \A q \in 0..(p - 1) : q \notin ends
      <3> HIDE DEF ends
      <3> QED
        BY <2>2, <2>4
    <2> QED
      BY <2>2, <2>3, <2>4, <2>5
  <1>6. last \in 0..N /\ Stops(last)
    <2> HIDE DEF Stops
    <2> QED
      BY <1>5
  <1> HIDE DEF last
  <1>7. last \in Nat /\ (last + 1) * PageSize >= L
    <2>1. last \in Nat /\ ~(last * PageSize + PageSize < L)
      BY <1>3, <1>4, <1>6
    <2>2. (last + 1) * PageSize = last * PageSize + PageSize /\ last * PageSize \in Nat /\ PageSize \in Nat
      BY <2>1, PagesFollow
    <2> QED
      BY <1>2, <2>1, <2>2
  <1>8. read[last + 1] = rows
    <2>1. /\ \E r : IsRead(r, last, range)
          /\ \A r : IsRead(r, last, range) => r[last + 1] = rows
      BY <1>2, <1>4, <1>7, ReadingGathers DEF L
    <2> QED
      BY <2>1
  <1> HIDE DEF read
  <1>9. /\ Export(range, Expenses).kind = "empty" <=> rows = << >>
        /\ Export(range, Expenses).kind = "too_large" <=> Len(rows) > MaxExport
        /\ Export(range, Expenses).kind = "generated" => Export(range, Expenses).rows = rows
    BY <1>2, FileHolds DEF rows, ids
  <1>10. ids \subseteq UNION {Range(Search(Nothing, Expenses, p).results) : p \in 0..N}
    <2>1. SearchWhere(Nothing, Expenses) \subseteq Live /\ ids \subseteq SearchWhere(Nothing, Expenses)
      BY DEF SearchWhere, Where, ids
    <2>2. \A i \in SearchWhere(Nothing, Expenses) :
             \E p \in 0..N : i \in Range(Search(Nothing, Expenses, p).results)
      BY <2>1, RowsArePaged DEF N
    <2> QED
      BY <2>1, <2>2
  <1>11. /\ Export(range, Expenses).kind = "empty" <=> read[last + 1] = << >>
         /\ Export(range, Expenses).kind = "too_large" <=> Len(read[last + 1]) > MaxExport
         /\ Export(range, Expenses).kind = "generated" => Export(range, Expenses).rows = read[last + 1]
    BY <1>8, <1>9
  <1> QED
    BY <1>10, <1>11 DEF last, read, N, ids

LEMMA FiguresKept ==
  ASSUME FiguresType, [ReportsNext]_<<date, lines>>
  PROVE  FiguresType'
  <1>1. CASE UNCHANGED <<date, lines>>
    BY <1>1 DEF FiguresType
  <1>2. ASSUME NEW i \in LineIds, NEW line \in Lines, RecordLine(i, line), date' = date
        PROVE  FiguresType'
    BY <1>2 DEF FiguresType, RecordLine
  <1>3. ASSUME NEW i \in LineIds, RemoveLine(i), date' = date PROVE FiguresType'
    BY <1>3 DEF FiguresType, RemoveLine
  <1> QED
    BY <1>1, <1>2, <1>3 DEF ReportsNext

(***************************************************************************)
(* Whatever has been recorded and removed, in any currency's cents, and on *)
(* whichever day reports are asked for: lists add up to their totals, the  *)
(* reports of a day tell one story, a trajectory compares the halves of    *)
(* its range, and pages and files hold the same rows.  The code is         *)
(* GenerateReportUseCase, GenerateDashboardUseCase, the queries under them *)
(* and the use cases that search and export.                               *)
(***************************************************************************)
THEOREM FiguresStand ==
  ReportsSpec => [](ListsAddUp /\ ReportsTellOneStory /\ TrajectoriesCompareHalves /\ PagesCoverTheExport)
  <1>1. ReportsInit => FiguresType
    BY DEF ReportsInit, FiguresType
  <1>2. FiguresType /\ [ReportsNext]_<<date, lines>> => FiguresType'
    BY FiguresKept
  <1>3. FiguresType => ListsAddUp /\ ReportsTellOneStory /\ TrajectoriesCompareHalves /\ PagesCoverTheExport
    BY FiguresAddUp, StoriesAgree, HalvesCompared, PagesCover
  <1> QED
    BY <1>1, <1>2, <1>3, PTL DEF ReportsSpec

(***************************************************************************)
(* The same of the ledgers side by side: what the runs check of the        *)
(* calendar and the figures, for any days, rows, names and page sizes.     *)
(***************************************************************************)
THEOREM PeriodsAndFiguresStay == LedgersSpec => []PeriodsAndFiguresAgree
  <1> DEFINE Walked == part = "calendar" => date \in WalkFrom..WalkTo
             Reported == part = "reports" => FiguresType
             Parts == Walked /\ Reported
  <1>1. LedgersInit => Parts
    <2> SUFFICES ASSUME LedgersInit PROVE Parts
      OBVIOUS
    <2>1. Walked
      BY WalkAssumption DEF LedgersInit, WalkInit
    <2>2. Reported
      BY DEF LedgersInit, ReportsInit, FiguresType
    <2> QED
      BY <2>1, <2>2
  <1>2. Parts /\ [LedgersNext]_ledgerVars => Parts'
    <2> SUFFICES ASSUME Parts, [LedgersNext]_ledgerVars PROVE Parts'
      OBVIOUS
    <2>1. CASE UNCHANGED <<date, lines, part>>
      BY <2>1 DEF FiguresType
    <2>2. CASE part = "calendar" /\ NextDay /\ UNCHANGED part
      BY <2>2, WalkAssumption DEF NextDay
    <2>3. CASE part = "reports" /\ ReportsNext /\ UNCHANGED part
      <3>1. FiguresType'
        BY <2>3, FiguresKept
      <3> QED
        BY <2>3, <3>1
    <2> QED
      BY <2>1, <2>2, <2>3 DEF LedgersNext, ledgerVars
  <1>3. Parts => PeriodsAndFiguresAgree
    <2> SUFFICES ASSUME Parts PROVE PeriodsAndFiguresAgree
      OBVIOUS
    <2>1. part = "calendar" => PeriodsTile /\ KeysNameReports /\ DueDatesStay
      BY WalkedAgrees
    <2>2. part = "reports" => ListsAddUp /\ ReportsTellOneStory
                              /\ TrajectoriesCompareHalves /\ PagesCoverTheExport
      BY FiguresAddUp, StoriesAgree, HalvesCompared, PagesCover
    <2> QED
      BY <2>1, <2>2 DEF PeriodsAndFiguresAgree
  <1> QED
    BY <1>1, <1>2, <1>3, PTL DEF LedgersSpec
===============================================================================
