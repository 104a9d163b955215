CONSTANTS
  Txns = {t1, t2}
  Dates = {d1, d2}
  Amounts = {a1}
  MaxWrites = 3
  Calls = {c1, c2}
  Commits = {m1, m2, m3}
  Budgets = {1, 2}
  Goals = {g1}
  Scopes <- Everything
  Labels <- Labelled
  Prices = {5}
  Corrections = {2}
  Limits = {6}
  Target = 30
  LastPeriod = 2
  MaxOpen = 2
  MaxChanges = 1
SPECIFICATION TransactionsSpec
INVARIANTS
  HistoryIsComplete
  CrossingsAreToldOnce
  LocksNeverCross
PROPERTIES
  LoneContributionCatchesUp
SYMMETRY Symmetry
CHECK_DEADLOCK FALSE
