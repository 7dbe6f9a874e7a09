SPECIFICATION MetricsSpec
CONSTANTS
  Req <- Requests
  MaxLog = 1
INVARIANTS TypeOK ShadowAccounting LogIsWindow ReadyIffTraffic IdsFollowOrder
PROPERTY ShortfallIsReal
