CONSTANTS
  Users = {u1, u2}
  Calls = {c1, c2}
  Scans = {s1}
  Grace = 3
  MaxTime = 4
  MaxCalls = 3
  MaxRows = 1
  MaxFailures = 0
SPECIFICATION FairSpec
PROPERTY ExpiredIsPurged
CHECK_DEADLOCK FALSE
