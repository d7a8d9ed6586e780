CONSTANTS
  NumMsgs = 3
  MsgSize = 2
  ReadMax = 2
  Users = {"u1"}
  Js = TRUE
  HandlersFirst = FALSE
SPECIFICATION FairSpec
CHECK_DEADLOCK FALSE
INVARIANT MessagesStayWhole
PROPERTY CloseReleasesEveryone
