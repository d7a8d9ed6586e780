CONSTANTS
  Lo = 1
  Hi = 2
  MaxEpoch = 3
  NumCand = 2
  Js = FALSE
  MaxFaults = 2
SPECIFICATION FairSpec
CHECK_DEADLOCK FALSE
INVARIANTS
  AnswerMatchesOffer
  SendNeverBlocks
  CandidatesComplete
PROPERTIES
  ImplementsOfferAnswer
  OpensTogether
