SPECIFICATION FairSpec
CONSTANTS
  NumNodes = 2
  EvmRetries = 2
  Prices = {1, 2}
  MaxPayments = 2
  MaxLostAnswers = 1
INVARIANTS
  TypeOK
  MinedOncePerLostAnswer
  ErrorMeansUnsent
  SendInv
PROPERTIES
  SendsAsAssumed
  SentIsMined
CHECK_DEADLOCK FALSE
