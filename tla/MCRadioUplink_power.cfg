SPECIFICATION Spec
CONSTANTS
  HdrLen = 2
  MaxPayload = 4
  MaxRx = 1
  CounterMod = 2
  FrameLens = {3, 4}
  MaxFrames = 3
  BodyClaims = {1, 4}
  NoiseClaims = {1}
  RingSize = 6
  Limit <- PowerLimit
INVARIANTS
  ReceivedIsHanded
CHECK_DEADLOCK FALSE
