SPECIFICATION FairAdmissionSpec
CONSTANTS
  r1 = r1
  r2 = r2
  k1 = k1
  k2 = k2
  None = None
  Requests = {r1, r2}
  Constraints = {k1, k2}
  MaxChanges = 2
  MaxOutages = 1
CHECK_DEADLOCK FALSE
INVARIANTS WarningsCurrent WarningsComplete
PROPERTY AlwaysAdmitted
