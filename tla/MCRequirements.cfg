SPECIFICATION MCSpec
CONSTANTS
  n1 = n1
  x1 = x1
  x2 = x2
  a = a
  b = b
  None = None
  Never = Never
  IstioSystem = IstioSystem
  Workloads <- MCWorkloads
  Objects <- MCObjects
  Keys <- MCKeys
  Duration = 2
  MaxTime = 5
CHECK_DEADLOCK FALSE
PROPERTIES DebounceExact MissingExplained
