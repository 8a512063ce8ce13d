SPECIFICATION Spec
CONSTANTS
  b1 = b1
  b2 = b2
  b3 = b3
  h1 = h1
  h2 = h2
  NoOp = NoOp
  BglScan = bglscan
  Workers = {bglscan}
  OpIds = {o1, o2, o3, o4}
  Deposits = {b1, b2, b3}
  BGLDeposits = {b1, b2, b3}
  SourceTx <- MCSourceTx
  Confirmations = 2
  MaxBglHeight = 5
  MaxRedisErrors = 1
  SearchFirst <- OneOrder
  MaxRestarts = 1
SYMMETRY MCSymmetry
INVARIANTS
  TypeOK
  NothingBehindCursor
  QueuedOnce
  BglInv
CHECK_DEADLOCK FALSE
