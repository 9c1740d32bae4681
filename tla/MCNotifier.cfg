SPECIFICATION NotifierSpec
CONSTANTS
  c1 = c1
  c2 = c2
  u1 = u1
  w1 = w1
  ns1 = ns1
  Never = Never
  NoLimiter = NoLimiter
  Callers = {c1, c2}
  Uids = {u1}
  Places = {w1}
  Namespaces = {ns1}
  nsOf <- OneNamespace
  Window = 2
  MaxTime = 5
  Rate = 1
  Cost = 1
  PerMinute = 20
  Minute = 20
  EvictAge = 2
SYMMETRY CallerSymmetry
INVARIANTS OncePerWindow MarksExplained WindowBound
