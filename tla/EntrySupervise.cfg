SPECIFICATION FairSpec
CONSTANTS
  Tries = 10
  MaxSig = 2
INVARIANT OrderlyStop
PROPERTY TrapStops
CHECK_DEADLOCK FALSE
