SPECIFICATION Spec
CONSTANTS
  k1 = k1
  k2 = k2
  Key = {k1, k2}
  Wire <- PairWire
  Bound <- PairBound
  Request <- PairRequest
  Prompt = {}
  MaxSeg = 3
  Window = 3
  StaleAge = 2
  Period = 3
  MaxLag = 1
  MaxStall = 1
  ClientGap = 2
  MaxFaults = 0
INVARIANTS OnlySentRequests
