CONSTANTS
  Commits = {c1}
  Budgets = {1, 2}
  Goals = {g1}
  Scopes <- Everything
  Labels <- Labelled
  Prices = {5}
  Corrections = {2}
  Limits = {6}
  Target = 30
  LastPeriod = 2
  MaxOpen = 2
  MaxChanges = 1
SPECIFICATION FairHooksSpec
CHECK_DEADLOCK FALSE
PROPERTY DueRollsOver
