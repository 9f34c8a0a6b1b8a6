CONSTANTS
  s1 = s1  s2 = s2  s3 = s3
  k1 = k1  k2 = k2  k3 = k3  e = e  v = v  w = w  x = x
  a = a  b = b
  Releases = {"done"}
  FaultSets <- NoFaults
  Server = {s1, s2, s3}
  Listings <- Lists
  Key = {k1, k2, k3, e}
  KeyLength <- KeyLengths
  MaxMsg = 12
  Junk = Junk
  Value = {v, w, x}
  ValueLength <- ValueLengths
  Header = 4
  Tables <- AllTables
  Misread = {0, 1, 2}
  NULL = NULL
  Letter = {a, b}
  Word = 64
  MaxInt = 20
  Stored <- AllStrings
  Stores <- AllStores
  Absent = Absent
  Numbers <- SomeNumbers
  CommandLines <- Lines
  Files <- SomeFiles
  NoFile = NoFile
  Sizes <- SomeSizes
SPECIFICATION Spec
INVARIANT DumpIsComplete
CHECK_DEADLOCK FALSE
