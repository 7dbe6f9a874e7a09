SPECIFICATION FairSpec
CONSTANTS
  NoAgent = NoAgent
  Agent = {a1, a2}
  MaxStarts = 2
  MaxFaults = 1
  MaxCrashes = 1
INVARIANTS FailedHoldsNothing AttachedOwnsSlot ZeroExitDetached
PROPERTY SigtermEnds
CHECK_DEADLOCK FALSE
