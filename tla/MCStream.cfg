SPECIFICATION MCSpec
CONSTANTS
  c1 = c1
  c2 = c2
  w1 = w1
  w2 = w2
  None = None
  Clients = {c1, c2}
  Writers = {w1, w2}
  Capacity = 2
  MaxMade = 3
CHECK_DEADLOCK FALSE
INVARIANTS NoSendOnClosed InOrder
PROPERTIES LeaveCompletes BroadcastReturns
