SPECIFICATION FairSpec
CONSTANTS
  MaxTx = 2
  Capacity = 4
  Sizes = {1, 2, 3}
  PipeDepth = 2
  CounterMod = 3
  MaxPackets = 4
  MaxFaults = 1
  Persistent = TRUE
INVARIANTS
  InOrder
  Conserved
  FrameFits
PROPERTIES
  LossIsCounted
  PollAdvances
  ImplementsPacketLink
CHECK_DEADLOCK FALSE
