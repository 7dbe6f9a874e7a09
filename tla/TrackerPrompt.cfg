SPECIFICATION FairSpec
CONSTANTS
  k1 = k1
  k2 = k2
  Key = {k1, k2}
  Wire <- NoiseWire
  Bound <- NoiseBound
  Request <- NoiseRequest
  Prompt = {k1}
  MaxSeg = 3
  Window = 3
  StaleAge = 2
  Period = 3
  MaxLag = 1
  MaxStall = 2
  ClientGap = 2
  MaxFaults = 0
INVARIANTS TypeOK NoPanic FramedExactly
PROPERTIES ReapedOnlyPartial StreamSpec StreamsDrain RequestsMirrored
