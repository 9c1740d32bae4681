SPECIFICATION FairReportSpec
CONSTANTS
  n1 = n1
  n2 = n2
  u1 = u1
  u2 = u2
  w1 = w1
  w2 = w2
  None = None
  NoConstraint = NoConstraint
  ClusterScope = ClusterScope
  AllNamespaces = {n1, n2}
  LateNamespaces = {n2}
  UIDs = {u1, u2}
  Scopes <- MovingAndClusterWide
  MaxRev = 0
  Writers = {w1, w2}
  InitialReports <- LeftBehind
  MaxChanges = 3
  MaxFailures = 1
CHECK_DEADLOCK FALSE
INVARIANT NoLostUpdate
PROPERTY ReportsConverge
