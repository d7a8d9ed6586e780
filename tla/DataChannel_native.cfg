CONSTANTS
  NumMsgs = 2
  MsgSize = 3
  ReadMax = 2
  Users = {"u1", "u2"}
  Js = FALSE
  HandlersFirst = TRUE
SPECIFICATION FairSpec
CHECK_DEADLOCK FALSE
INVARIANTS
  WrapErrorIsClosedByPeer
PROPERTIES
  ImplementsByteStream
  CloseReleasesEveryone
  WrapEnds
  EverythingIsRead
