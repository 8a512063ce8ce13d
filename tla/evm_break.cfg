SPECIFICATION Spec
CONSTANTS
  b1 = b1
  e0 = e0
  e1 = e1
  hb = hb
  h0 = h0
  h1 = h1
  o1 = o1
  NoOp = NoOp
  EvmScan = evmscan
  Workers = {evmscan}
  OpIds = {o1, o2, o3, o4}
  Deposits = {b1, e0, e1}
  BGLDeposits = {b1}
  SourceTx <- MCSourceTx
  InFlight <- One
  SafetyWindow = 2
  BlockBatch = 3
  Lag = 0
  MaxEvmHeight = 8
  MaxRedisErrors = 0
  SearchFirst <- OneOrder
  MaxRestarts = 0
INVARIANT NoDepositLost
CHECK_DEADLOCK FALSE
