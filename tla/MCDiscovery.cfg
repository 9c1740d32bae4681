SPECIFICATION MCSpec
CONSTANTS
  quota = quota
  custom = custom
  second = second
  o1 = o1
  o2 = o2
  p1 = p1
  p2 = p2
  p3 = p3
  None = None
  NoConstraint = NoConstraint
  ClusterScope = ClusterScope
  GVRs = {quota, custom, second}
  Native = {quota}
  RuleGVRs = {}
  RuleSource = custom
  Objects = {o1, o2}
  gvrOf <- QuotaAndCustom
  MaxVal = 1
  ProfileNames = {p1, p2, p3}
  ProfileSpecs <- OneAndTwo
  Annotatable = {custom}
  MaxListeners = 4
  MaxChanges = 4
  CanStop = TRUE
CHECK_DEADLOCK FALSE
INVARIANT NoDoubleClose
INVARIANT WatchedIsLive
PROPERTY IndexComplete
PROPERTY IndexConverges
