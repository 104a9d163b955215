CONSTANTS
  Users = {u1, u2}
  Calls = {c1, c2}
  Scans = {s1}
  Grace = 3
  MaxTime = 5
  MaxCalls = 3
  MaxRows = 2
  MaxFailures = 1
  Requests = {c1, c2}
  Schedule <- OneThenTwo
  MaxTicks = 4
  Threshold = 2
  Window = 1
  ChallengeTtl = 2
  IdleTimeout = 1
  Lifetime = 3
  MaxRequests = 4
  MaxLogins = 2
  agent = agent
  junior = junior
  super = super
  Nobody = Nobody
  Admins = {agent, junior, super}
  Role <- AtFirst
  Visits = {c1, c2}
  SessionTtl = 2
  RequestTtl = 2
  MaxSupportTime = 3
  MaxSessions = 1
  MaxElevations = 2
  MaxVisits = 3
  Exchanges = {c1, c2}
  AccessTtl = 1
  RefreshTtl = 2
  MaxTokenTime = 3
  MaxTokens = 4
  MaxExchanges = 3
SPECIFICATION AccessSpec
INVARIANTS
  FailuresAddUp
  SessionsComeAndGo
  OneChainPerClient
  PowersAreGranted
PROPERTIES
  LocksHold
  RawDetailIsElevated
  DeletionsAreHonoured
  PurgeFinishes
CHECK_DEADLOCK FALSE
