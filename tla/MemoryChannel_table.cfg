CONSTANTS
  Procs = {"g1", "g2", "g3", "g4"}
  Keys = {"k1", "k2"}
SPECIFICATION Spec
CHECK_DEADLOCK FALSE
PROPERTY ImplementsMailbox
