SPECIFICATION Spec
CONSTANTS
  w1 = w1
  w2 = w2
  Wallets <- MCWallets
  ChainNames <- MCChainNames
  MaxRequests = 2
  MaxBookErrors = 2
  MaxDeposits = 1
  DepositSats <- MCDepositSats
  SatPerBGL = 100
  WeiPerSat = 10
  Bits = 10
  FeePercentage = 1
SYMMETRY Symmetry
INVARIANTS
  TypeOK
  KnownSourceIsFound
  NotBySupersededRecord
  PaidWhereAsked
  ReturnedToSender
  NetOfFee
  RoutingInv
CHECK_DEADLOCK FALSE
