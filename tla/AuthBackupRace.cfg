SPECIFICATION Spec
CONSTANTS
  r1 = r1
  r2 = r2
  c1 = c1
  c2 = c2
  LockTime = 1
  PartialLife = 1
  AccessLife = 1
  RefreshLife = 2
  Requests <- TwoRequests
  Codes <- TwoCodes
  Threshold = 2
  MaxTime = 0
  MaxFailures = 0
  MaxPartials = 2
  MaxSessions = 2
  MaxSetups = 0
INVARIANT CodeSpentOnce
CHECK_DEADLOCK FALSE
