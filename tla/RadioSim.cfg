SPECIFICATION FairSpec
CONSTANTS
  Size = 4
  Threshold = 2
  WordMod = 16
  ConfigModes = {1, 2}
  Settings = {0, 1}
  Datagrams = {1, 2}
  Requests = {0, 1, 3}
  Payload = 1
  PinWrites = {0, 1}
  MaxBytes = 5
  MaxCommands = 2
INVARIANTS
  TypeOK
  OneLateDatagram
  HkMirrorsMode
  SnapshotConsistent
  ThreadHasResources
  NothingLeftHeld
PROPERTIES
  ImplementsRxQueue
  CleanupEnds
CHECK_DEADLOCK FALSE
