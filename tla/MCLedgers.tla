----------------------------- MODULE MCLedgers ------------------------------
(* Debts, loans, accounts, the calendar of their periods and the figures of  *)
(* reports, which share no rows here: a behaviour exercises one of them, and *)
(* the others keep their initial state.                                      *)
EXTENDS DebtLedger, LoanLedger, AccountBook, ReportFigures, TLC

VARIABLE part

ledgerVars == <<vars, loanVars, bookVars, date, lines, part>>

\* Where debts stay as they are, one of the alike initial states is enough.
SomeDebt ==
  /\ \A d \in Debts : debt[d].key = CHOOSE k \in Keys : TRUE
  /\ \A c \in Callers : call[c].debt = CHOOSE d \in Debts : TRUE

LedgersInit ==
  /\ part \in {"debts", "loans", "accounts", "calendar", "reports"}
  /\ Init /\ LoanInit /\ (part # "debts" => SomeDebt)
  /\ lines = [i \in LineIds |-> NoLine]
  /\ IF part = "reports" THEN ReportsInit ELSE WalkInit
  /\ BookInit /\ (part # "accounts" => \A a \in Accounts : ~ Exists(a))

LedgersNext ==
  \/ part = "debts" /\ Next /\ UNCHANGED <<loanVars, bookVars, date, lines, part>>
  \/ part = "loans" /\ LoanNext /\ UNCHANGED <<vars, bookVars, date, lines, part>>
  \/ part = "accounts" /\ BookNext /\ UNCHANGED <<vars, loanVars, date, lines, part>>
  \/ part = "calendar" /\ NextDay
       /\ UNCHANGED <<vars, loanVars, bookVars, lines, part>>
  \/ part = "reports" /\ ReportsNext /\ UNCHANGED <<vars, loanVars, bookVars, part>>

LedgersSpec == LedgersInit /\ [][LedgersNext]_ledgerVars

(* See Calculations: periods tile the days, keys name the reports of a period, *)
(* and a due date once shown stays until it has passed, the next one following *)
(* it by one installment.  See ReportFigures: what reports list adds up,       *)
(* reports of one day tell one story, trajectories tell of the halves of a     *)
(* range, and the pages of a search hold what the export does.                 *)
PeriodsAndFiguresAgree ==
  /\ part = "calendar" => PeriodsTile /\ KeysNameReports /\ DueDatesStay
  /\ part = "reports" => /\ ListsAddUp /\ ReportsTellOneStory
                         /\ TrajectoriesCompareHalves /\ PagesCoverTheExport

\* The configuration gives callers, payers and clients the same names.
Symmetry == Permutations(Callers) \cup Permutations(Accounts)
=============================================================================
