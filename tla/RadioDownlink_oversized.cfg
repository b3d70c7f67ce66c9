SPECIFICATION FairSpec
CONSTANTS
  MaxTx = 2
  Capacity = 4
  Sizes = {1, 4}
  PipeDepth = 2
  CounterMod = 3
  MaxPackets = 3
  MaxFaults = 0
  Persistent = FALSE
PROPERTIES
  LeftIsTaken
CHECK_DEADLOCK FALSE
