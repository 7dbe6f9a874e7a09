SPECIFICATION FairSpec
CONSTANTS
  Req <- Requests
  Config <- Tables
  Class = {"2xx", "other"}
  MaxRetry = 1
  MaxTicks = 1
INVARIANTS SendBalance LineExplained RoutedArrivals
PROPERTY SendsEnd
CHECK_DEADLOCK FALSE
