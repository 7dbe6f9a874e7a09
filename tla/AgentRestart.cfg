SPECIFICATION Spec
CONSTANTS
  NoAgent = NoAgent
  Agent = {a1}
  MaxStarts = 2
  MaxFaults = 0
  MaxCrashes = 1
INVARIANTS RestartAttaches
CHECK_DEADLOCK FALSE
