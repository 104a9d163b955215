CONSTANTS
  Events = {e1, e2}
  Unconsumed = {e2}
  Workers = {w1, w2}
  MaxAttempts = 2
  BatchSize = 1
  MaxLost = 1
  Drafts = {d1, d2}
  Attempts = {a1, a2, a3}
  Files = {f1}
  Runners = {r1, r2}
  JobAttempts = 3
  MaxMishaps = 2
  MaxSends = 2
  Clients = {c1, c2, c3}
  Threshold = 3
SPECIFICATION WorkSpec
INVARIANTS
  ClaimsAreExact
  HandledOncePerClaim
  CommitsAreCounted
  OneCardPerFile
PROPERTIES
  EveryEventEnds
  WorkIsTakenUp
  BreakerRecovers
CHECK_DEADLOCK FALSE
