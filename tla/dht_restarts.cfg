CONSTANTS
  s1 = s1  s2 = s2  s3 = s3
  c1 = c1  c2 = c2  c3 = c3  c4 = c4
  k1 = k1  k2 = k2
  e = e  v = v  w = w
  Server = {s1, s2}
  Call = {c1, c2, c3, c4}
  Key = {k1}
  Value = {e, v, w}
  N = 2  R = 2  W = 1
  Plans <- PutPutGetGet
  Nodes <- Everywhere
  EmptyKey = nokey
  EmptyValue = e
  NotFound = NotFound  NoValue = NoValue  NoCall = NoCall
  Faults = {"lost request", "late", "crash"}
  Flaky = {s1, s2}
SPECIFICATION Spec
SYMMETRY ServersAndCalls
INVARIANTS GetHasQuorum Fresh AgreeingReads PutOkMeansStored Durable
PROPERTIES ImplementsRegister
CHECK_DEADLOCK FALSE
