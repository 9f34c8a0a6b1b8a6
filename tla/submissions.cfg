CONSTANTS
  p = p  q = q  g = g  k1 = k1  k2 = k2  e = e  v = v  w = w
  Releases = {"projet01", "projet02"}
  FaultSets <- AllFaults
  Servers = 2
  Port <- Ports
  Process = {p, q, g}
  Key = {k1, k2}
  Value = {e, v, w}
  EmptyValue = e
  NotFound = NotFound  Absent = Absent  NoPut = NoPut
  CommandLines <- AllLines
SPECIFICATION FairSpec
INVARIANTS TypeOK PutOkMeansStored NoInvention Fresh
PROPERTIES CallsReturn
CHECK_DEADLOCK FALSE
