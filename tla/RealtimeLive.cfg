SPECIFICATION FairSpec
CONSTANTS
  Conns <- MCConnsLive
  Hosts = {a}
  NoHost = none
  MaxRequests = 1
  MaxRefusals = 1
  QueueSize = 1
  ReplaySize = 2
  MaxRows = 2
  MaxMounts = 2
  MaxLosses = 1
  MaxFilterChanges = 0
CHECK_DEADLOCK FALSE
INVARIANT OneConnection
PROPERTIES CallbackRemoved Reconnects
