CONSTANTS
  Commits = {c1, c2, c3}
  Budgets = {1, 2}
  Goals = {g1}
  Scopes <- Everything
  Labels <- Labelled
  Prices = {5}
  Corrections = {2}
  Limits = {6}
  Target = 30
  LastPeriod = 2
  MaxOpen = 2
  MaxChanges = 1
SPECIFICATION HooksSpec
CHECK_DEADLOCK FALSE
INVARIANT AnsweredIsStored
SYMMETRY Symmetry
