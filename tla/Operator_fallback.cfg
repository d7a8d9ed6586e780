CONSTANTS
  NumMsgs = 2
  MaxFaults = 1
  MaxWaits = 1
  Plain = {TRUE}
SPECIFICATION Spec
CHECK_DEADLOCK FALSE
INVARIANT
  FallbackWorks
