SPECIFICATION Spec
CONSTANTS
  b1 = b1
  e1 = e1
  h1 = h1
  h2 = h2
  NoOp = NoOp
  Exec = exec
  BglScan = bglscan
  EvmScan = evmscan
  Workers = {exec, bglscan, evmscan}
  OpIds = {o1, o2}
  Deposits = {e1}
  BGLDeposits = {}
  SourceTx <- MCSourceTx
  EvmRetries = 1
  Confirmations = 1
  MaxBglHeight = 1
  SafetyWindow = 1
  BlockBatch = 2
  Lag = 0
  MaxEvmHeight = 4
  MaxRedisErrors = 0
  MaxLostAnswers = 0
  SearchFirst <- OneOrder
  MaxRestarts = 0
  MaxDeposits = 1
INVARIANT NoDoubleSend
CHECK_DEADLOCK FALSE
