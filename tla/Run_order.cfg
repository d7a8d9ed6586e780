CONSTANTS
  Peers = {"a", "b", "c"}
  Zero = "zero"
  Configs <- ThreePeers
  Rankings <- Orders
SPECIFICATION FairSpec
CHECK_DEADLOCK FALSE
INVARIANTS
  NoCircularWait
  WaitsDescend
  OnlyCircularWaitsStall
PROPERTY
  StallsAreCircular
