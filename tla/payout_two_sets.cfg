SPECIFICATION Spec
CONSTANTS
  b1 = b1
  e1 = e1
  h1 = h1
  h2 = h2
  NoOp = NoOp
  Exec = exec
  Scanner = scanner
  Workers = {exec, scanner}
  OpIds = {o1, o2}
  Deposits = {b1, e1}
  BGLDeposits = {b1}
  SourceTx <- MCSourceTx
  EvmRetries = 1
  MaxRedisErrors = 0
  SearchFirst <- OneOrder
  MaxRestarts = 0
  MaxLostAnswers = 0
INVARIANT OneStatusPerOperation
CHECK_DEADLOCK FALSE
