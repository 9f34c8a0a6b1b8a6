CONSTANTS
  k1 = k1  k2 = k2  k3 = k3  v = v  w = w
  Key = {k1, k2, k3}
  Value = {v, w}
  Size = 2
  Hash <- TwoLists
  Cell = {x1, x2, x3}
  NULL = NULL
  Releases = {"projet01", "projet02", "done"}
  FaultSets <- Memory
SPECIFICATION FairSpec
INVARIANTS TypeOK SafeLoops NoLeak ContentIsTable
PROPERTIES ImplementsMap CallsEnd
CHECK_DEADLOCK FALSE
