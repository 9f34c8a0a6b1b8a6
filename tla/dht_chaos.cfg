CONSTANTS
  s1 = s1  s2 = s2  s3 = s3
  c1 = c1  c2 = c2  c3 = c3  c4 = c4
  k1 = k1  k2 = k2
  e = e  v = v  w = w
  Server = {s1, s2}
  Call = {c1, c2}
  Key = {k1, k2}
  Value = {e, v}
  N = 2  R = 2  W = 2
  Plans <- AnyPlan
  Nodes <- Everywhere
  EmptyKey = k2
  EmptyValue = e
  NotFound = NotFound  NoValue = NoValue  NoCall = NoCall
  Faults = {"lost request", "lost answer", "late", "duplicate", "crash", "nomem", "socket"}
  Flaky = {s1, s2}
SPECIFICATION Spec
SYMMETRY Servers
INVARIANTS TypeOK NoInvention
CHECK_DEADLOCK FALSE
