SPECIFICATION FairSpec
CONSTANTS
  Base = 1
  Cap = 5
  BufferSize = 2
  MaxFlows = 3
  MaxFailures = 4
CHECK_DEADLOCK FALSE
INVARIANT DropsInOrder
PROPERTIES CloseTerminates Reconnects
