SPECIFICATION Spec

CONSTANTS
  ha = ha
  hb = hb
  hc = hc
  low = low
  same = same
  middle = middle
  high = high
  Supported = {"-n", "-r", "-w"}
  Number = {0, 1, 2, 3, 4}
  Address = {ha, hb, hc}
  MaxId = 2
  Sha <- WithZeros
  Key = {low, same, middle, high}
  KeySha <- KeysAround
  Files <- GoodFiles

INVARIANT
  SendsToSuccessors

CHECK_DEADLOCK FALSE
