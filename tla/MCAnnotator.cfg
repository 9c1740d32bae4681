SPECIFICATION MCSpec
CONSTANTS
  n1 = n1
  n2 = n2
  x1 = x1
  x2 = x2
  w1 = w1
  k1 = k1
  k2 = k2
  None = None
  Sentinel = Sentinel
  Namespaces = {n1, n2}
  Workloads = {x1, x2}
  nsOf <- OneEach
  Writers = {w1}
  Workers = {k1, k2}
  Capacity = 2
  MaxChanges = 3
  MaxFailures = 1
CHECK_DEADLOCK FALSE
INVARIANTS StaleExplained PatchBurst
PROPERTIES AnnotationsConverge ShutdownCompletes
