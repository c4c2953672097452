SPECIFICATION Spec
CONSTANTS
  MaxLines = 2
  MaxTime = 1
  MaxStops = 1
  MaxRotations = 0
  Kinds <- MCKinds
  Retention = 1
  MaxBackfill = 2
  BackfillOn = TRUE
  SamePath = TRUE
  RingSize = 2
INVARIANT DupWasStored
CHECK_DEADLOCK FALSE
