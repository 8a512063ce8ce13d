SPECIFICATION FairSpec
CONSTANTS
  b1 = b1
  e1 = e1
  h1 = h1
  h2 = h2
  NoOp = NoOp
  Exec = exec
  Scanner = scanner
  Workers = {exec, scanner}
  OpIds = {o1, o2}
  Deposits = {b1, e1}
  BGLDeposits = {b1}
  SourceTx <- MCSourceTx
  EvmRetries = 2
  MaxRedisErrors = 2
  SearchFirst <- OneOrder
  MaxRestarts = 1
  MaxLostAnswers = 1
INVARIANTS
  TypeOK
  IndexedHaveRecords
  OnePayoutPerRun
  OnePayoutAcrossCrashes
  UnsettledMeansKept
  RecordNamesItsPayout
  IInv
  RecordsInv
  WithinExcuses
PROPERTIES
  KeepsPromise
  QueueDrains
CHECK_DEADLOCK FALSE
