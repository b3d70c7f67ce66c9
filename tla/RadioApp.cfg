SPECIFICATION Spec
CONSTANTS
  CounterMod = 3
  MaxOpen = 2
  MaxWaiting = 2
INVARIANTS
  TypeOK
  EnabledMeansReady
  NoLeakWithoutFailure
  
PROPERTIES
  InterfaceChangesAreCounted
  RejectionTouchesNothing
CHECK_DEADLOCK FALSE
