SPECIFICATION MCSpec
CONSTANTS
  e1 = e1
  Scenarios = {"echo", "refusal", "flows", "stop"}
  f1 = f1
  u1 = u1
  p1 = p1
  Never = Never
  None = None
  Warnings <- AllWarnings
  Flows = {f1}
  Uids = {u1}
  Matches <- Lookup
  KeyOf <- OwnKey
  Keys <- AllKeys
  Window = 2
  Capacity = 1
  MaxTime = 2
  MaxRefused = 1
  CanCancel = TRUE
  External = {e1}
  Places = {p1}
  PlaceOf <- Workload
  Loud = {u1}
  SuppressWindow = 2
  MaxOwn = 3
  MaxThrottled = 1
CHECK_DEADLOCK FALSE
INVARIANTS OncePerWindow SeenExplained EchoBounded
PROPERTIES StartReturns Announced
