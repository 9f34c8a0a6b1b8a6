CONSTANTS
  Value = {v, w}
  N = 130  R = 128
  MaxShort = 1
SPECIFICATION Spec
INVARIANTS OkMeansQuorum QuorumMeansOk
CHECK_DEADLOCK FALSE
