SPECIFICATION Spec
CONSTANTS
  Req <- Strays
  Config <- Broken
  Class = {"2xx"}
  MaxRetry = 0
  MaxTicks = 0
INVARIANT OnlyMatching
CHECK_DEADLOCK FALSE
