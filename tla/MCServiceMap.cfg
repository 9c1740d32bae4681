SPECIFICATION MapSpec
CONSTANTS
  s1 = s1
  s2 = s2
  n1 = n1
  ip1 = ip1
  ip2 = ip2
  pod = pod
  None = None
  Services = {s1, s2}
  nsOf <- MCNsOf
  specsOf <- MCSpecsOf
  endpointsOf <- MCEndpointsOf
  MaxWrites = 5
  MaxBreaks = 1
INVARIANTS ServiceIndexesExact EndpointsExplained
CHECK_DEADLOCK FALSE
