SPECIFICATION Spec
CONSTANTS
  b1 = b1
  e0 = e0
  e1 = e1
  hb = hb
  h0 = h0
  h1 = h1
  o1 = o1
  NoOp = NoOp
  EvmScan = evmscan
  Workers = {evmscan}
  OpIds = {o1, o2, o3, o4}
  Deposits = {b1, e0, e1}
  BGLDeposits = {b1}
  SourceTx <- MCSourceTx
  InFlight <- Either
  SafetyWindow = 1
  BlockBatch = 2
  Lag = 1
  MaxEvmHeight = 6
  MaxRedisErrors = 1
  SearchFirst <- OneOrder
  MaxRestarts = 1
SYMMETRY MCSymmetry
INVARIANTS
  TypeOK
  DepositsBehindWindow
  PaymentsBehindWindow
  QueuedOnce
  EvmInv
CHECK_DEADLOCK FALSE
