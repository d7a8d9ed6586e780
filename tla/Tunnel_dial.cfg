CONSTANTS
  Programs = {"p1", "p2"}
  Ports = {"db"}
  Tcp = {"db"}
  Udp = {}
  Bad = {}
SPECIFICATION Spec
CHECK_DEADLOCK FALSE
INVARIANT
  FarGoesOn
