SPECIFICATION Spec
CONSTANTS
  k1 = k1
  k2 = k2
  Key = {k1, k2}
  Wire <- MixedWire
  Bound <- MixedBound
  Request <- MixedRequest
  Prompt = {}
  MaxSeg = 2
  Window = 3
  StaleAge = 2
  Period = 3
  MaxLag = 1
  MaxStall = 3
  ClientGap = 2
  MaxFaults = 1
INVARIANTS StreamIsTail PanicExplained BoundedIdle
CHECK_DEADLOCK FALSE
