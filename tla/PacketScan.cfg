SPECIFICATION FairSpec
CONSTANTS
  HdrLen = 2
  WordMod = 8
  Octets = {0, 1, 5, 7}
  CommandOctets = {1, 7}
  MaxPdu = 7
INVARIANTS
  InsidePdu
  Disjoint
  StreamForwarded
PROPERTIES
  ScanEnds
