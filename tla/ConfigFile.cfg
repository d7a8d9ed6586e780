CONSTANTS
  Procs = {p1, p2, p3, p4}
  Routes = {"db", "dns"}
  Formats = {"json", "yaml"}
SYMMETRY ProcSymmetry
SPECIFICATION Spec
CHECK_DEADLOCK FALSE
INVARIANTS
  KeyIsThere
  
  RoutesStay
  
PROPERTY
  OnlyInitReplacesKey
