SPECIFICATION FairSpec
CONSTANTS
  HdrLen = 2
  MaxPayload = 4
  MaxRx = 2
  CounterMod = 2
  FrameLens = {2, 4}
  MaxFrames = 2
  BodyClaims = {1, 4}
  NoiseClaims = {1, 2, 4}
  RingSize = 6
  Limit <- NoisyLimit
INVARIANTS
  InBounds
  AlwaysRoom
  KeptIsPartial
  HandedInOrder
PROPERTIES
  PollEnds
CHECK_DEADLOCK FALSE
