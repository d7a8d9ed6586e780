CONSTANTS
  L = "l"
  R = "r"
  MaxL = 2
  MaxR = 1
  SockCap = 1
SPECIFICATION FairSpec
CHECK_DEADLOCK FALSE
INVARIANTS
  StaysOpen
PROPERTIES
  ImplementsByteStream
  EverythingEnds
  EverythingArrives
