SPECIFICATION Spec

CONSTANTS
  ha = ha
  hb = hb
  hc = hc
  low = low
  same = same
  middle = middle
  high = high
  Supported = {"-n", "-r", "-w"}
  Number = {0, 1, 2, 3, 4}
  Address = {ha, hb, hc}
  MaxId = 2
  Sha <- Alternate
  Key = {low, same, middle, high}
  KeySha <- KeysAround
  Files <- AllFiles

INVARIANT
  EnoughServers

CHECK_DEADLOCK FALSE
