CONSTANTS
  Programs = {"p1", "p2"}
  Ports = {"db", "dns", "odd", "unrouted"}
  Tcp = {"db"}
  Udp = {"dns"}
  Bad = {"odd"}
SPECIFICATION FairSpec
CHECK_DEADLOCK FALSE
INVARIANTS
  NoChannelLost
PROPERTIES
  EveryProgramSettles
  AcceptLoopGoesOn
  DeadEndsAreClosed
  ServicesAreReleased
