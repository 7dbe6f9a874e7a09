SPECIFICATION FairSpec
CONSTANTS
  Packet <- Mixed
  Cpu = {c1, c2}
  TargetPort = 9090
  Slots = 2
  MaxPayload = 2
INVARIANTS HookBalance OwnBytes
PROPERTIES ChannelSpec EventuallyRead
CHECK_DEADLOCK FALSE
