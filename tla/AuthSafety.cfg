SPECIFICATION Spec
CONSTANTS
  r1 = r1
  r2 = r2
  c1 = c1
  c2 = c2
  LockTime = 2
  PartialLife = 1
  AccessLife = 1
  RefreshLife = 2
  Requests <- TwoRequests
  Codes <- OneCode
  Threshold = 2
  MaxTime = 3
  MaxFailures = 4
  MaxPartials = 2
  MaxSessions = 1
  MaxSetups = 1
SYMMETRY Symmetry
INVARIANT TypeOK
INVARIANT LockoutCounts
INVARIANT LockStopsAttempts
INVARIANT PartialAcceptedOnce
INVARIANT SecondFactorRequired
CHECK_DEADLOCK FALSE
