SPECIFICATION FairCertSpec
CONSTANTS
  r1 = r1
  r2 = r2
  None = None
  Replicas = {r1, r2}
  MaxGen = 7
  MaxAges = 1
  MaxCrashes = 1
  MaxFailures = 1
CHECK_DEADLOCK FALSE
INVARIANT BundleSound
PROPERTY ReplicasTrusted
