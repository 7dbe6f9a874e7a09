SPECIFICATION PathSpec
CONSTANTS
  Req <- Requests
  Config <- Tables
  Class = {"2xx", "4xx"}
  MaxRetry = 1
  MaxTicks = 0
  MaxLog = 2
  MaxSent = 2
INVARIANTS Ledgers Parity RoutedArrivals
CHECK_DEADLOCK FALSE
