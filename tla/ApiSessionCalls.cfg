SPECIFICATION FairSpec
CONSTANTS
  Calls = {c1, c2, c3}
  Boot = boot
  MaxStarts = 4
  MaxReloads = 1
  MaxLosses = 1
  MaxExpiries = 2
INVARIANTS TypeOK SingleFlight
PROPERTIES SessionKept CallsEnd
CHECK_DEADLOCK FALSE
