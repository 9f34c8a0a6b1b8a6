CONSTANTS
  s1 = s1  s2 = s2  s3 = s3
  c1 = c1  c2 = c2  c3 = c3  c4 = c4
  k1 = k1  k2 = k2
  e = e  v = v  w = w
  Server = {s1, s2, s3}
  Call = {c1, c2, c3}
  Key = {k1}
  Value = {e, v, w}
  N = 3  R = 2  W = 2
  Plans <- PutGetGet
  Nodes <- Everywhere
  EmptyKey = nokey
  EmptyValue = e
  NotFound = NotFound  NoValue = NoValue  NoCall = NoCall
  Faults = {}
  Flaky = {s1, s2, s3}
SPECIFICATION Spec
SYMMETRY Servers
INVARIANTS QuorumIsHeard
CHECK_DEADLOCK FALSE
