SPECIFICATION FairSpec
CONSTANTS
  MaxLines = 3
  MaxTime = 0
  MaxStops = 1
  MaxRotations = 0
  Kinds <- MCAllKinds
  Retention = 1
  MaxBackfill = 2
  BackfillOn = TRUE
  SamePath = TRUE
  RingSize = 2
INVARIANT NoLineBehindPosition
PROPERTY ChangeIsIngested
CHECK_DEADLOCK FALSE
