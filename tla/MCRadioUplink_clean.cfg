SPECIFICATION FairSpec
CONSTANTS
  HdrLen = 2
  MaxPayload = 4
  MaxRx = 2
  CounterMod = 2
  FrameLens = {2, 3, 4}
  MaxFrames = 3
  BodyClaims = {1, 3}
  NoiseClaims = {1}
  RingSize = 6
  Limit <- CleanLimit
INVARIANTS
  ReceivedIsHanded
PROPERTIES
  ImplementsFrameLink
CHECK_DEADLOCK FALSE
