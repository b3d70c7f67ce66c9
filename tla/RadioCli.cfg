SPECIFICATION CliFairSpec
CONSTANTS
  Modes = {3}
  Lengths = {1}
  HkSize = 6
  MaxCalls = 6
  MaxLate = 1
  MaxOctets = 1
PROPERTIES
  OnlyOpen
  ExitTurnsOff
