CONSTANTS
  Events = {e1}
  Unconsumed = {}
  Workers = {w1, w2}
  MaxAttempts = 2
  BatchSize = 1
  MaxLost = 1
  Subjects = {s1}
  MaxNotes = 4
  MaxScanned = 3
  Senders = {p1, p2}
  MaxTries = 2
  MaxStalls = 1
  Scanners = {w1, w2}
  Dispatchers = {p1, p2}
  Debts = {d1, d2}
  DueDays = {0}
  DayTicks = 1
  Zones = {0}
  ApproachingWindow = 0
  OverdueWindow = 1
  RowsScanned = 1
  MaxTime = 2
  MaxEvents = 2
  MaxNotices = 3
  d1 = d1
  d2 = d2
  early = early
  late = late
  week = week
  month = month
  Txns = {x1}
  Dates = {early, late}
  Amounts = {a1, a2}
  MaxWrites = 3
  Periods = {week, month}
  PeriodsOf <- OneMonth
  Readers = {v1}
  Editors = {p1, p2}
SPECIFICATION DeliverySpec
INVARIANTS
  NoDuplicateSideEffect
  DeliveryAsRecorded
  DispatchedIsAccountedFor
  RemindersKeepTheirDistance
  StaleIsExplained
SYMMETRY Symmetry
CHECK_DEADLOCK FALSE
