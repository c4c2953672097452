SPECIFICATION Spec
CONSTANTS
  Addresses = {i, j}
  Paths = {p, q}
  Requests <- MCRequests
  Minute = 1
  Hour = 2
  RateThreshold = 2
  WindowCap = 2
  LoginMax = 1
  LoginCap = 2
  NotFoundMax = 1
  MaxTime = 3
  MaxRequests = 3
SYMMETRY MCSymmetry
CHECK_DEADLOCK FALSE
INVARIANTS TypeOK RateRuleExact LoginRuleExact ScanRuleMissesNone OnlyRacesLeak
