SPECIFICATION FairSpec
CONSTANTS
  Modes = {1, 3}
  Lengths = {1, 2}
  HkSize = 6
  MaxCalls = 4
  MaxLate = 1
  MaxOctets = 2
INVARIANTS
  OwnReply
  FewDropped
  ReadYourWrites
  OctetsInOrder
  NothingLost
PROPERTIES
  LevelTakesEffect
