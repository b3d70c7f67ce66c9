SPECIFICATION Spec
CONSTANTS
  CounterMod = 3
  MaxOpen = 2
  MaxWaiting = 0
INVARIANT ServiceInRadioMode
CHECK_DEADLOCK FALSE
