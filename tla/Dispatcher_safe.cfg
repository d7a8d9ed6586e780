CONSTANTS
  NumConns = 4
  Ports = {"p80", "p81"}
  Listeners = {"a", "b"}
  Cap = 2
  Reuse = FALSE
SPECIFICATION FairSpec
CHECK_DEADLOCK FALSE
INVARIANTS
  InOrderOnOwnPort
PROPERTIES
  RejectsOnlyUnwanted
  DispatcherNeverBlocks
  EveryConnSettles
