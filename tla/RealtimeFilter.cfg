SPECIFICATION Spec
CONSTANTS
  Conns <- MCConnsSmall
  Hosts = {a, b}
  NoHost = none
  MaxRequests = 3
  MaxRefusals = 0
  QueueSize = 1
  ReplaySize = 2
  MaxRows = 2
  MaxMounts = 1
  MaxLosses = 1
  MaxFilterChanges = 1
INVARIANT HostFilterInForce
CHECK_DEADLOCK FALSE
