SPECIFICATION MetricsSpec
CONSTANTS
  Req <- Requests
  MaxLog = 1
INVARIANT ReadyMeansNoFailure
