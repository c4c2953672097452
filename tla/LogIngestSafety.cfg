SPECIFICATION Spec
CONSTANTS
  MaxLines = 3
  MaxTime = 3
  MaxStops = 1
  MaxRotations = 1
  Kinds <- MCKinds
  Retention = 1
  MaxBackfill = 2
  BackfillOn = TRUE
  SamePath = TRUE
  RingSize = 2
INVARIANT TypeOK
INVARIANT AtMostOnce
INVARIANT RingHoldsStoredOnce
PROPERTY ImplementsLineStore
CHECK_DEADLOCK FALSE
