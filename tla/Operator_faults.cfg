CONSTANTS
  NumMsgs = 3
  MaxFaults = 3
  MaxWaits = 2
  Plain = {TRUE, FALSE}
SPECIFICATION FairSpec
CHECK_DEADLOCK FALSE
INVARIANTS
  NothingTwice
  SentIsHandedOver
  OnlyFailedSendsAreLate
  FallbackFailsOncePerSide
PROPERTY
  SendMeetsRecv
