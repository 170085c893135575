SPECIFICATION Spec
CONSTANTS
  Requests = {r1, r2}
  WalletOf <- OneWallet
  Emitting = {r1}
  MaxLogs = 2
  MaxInputs = 3
  MaxStatusRetry = 1
  MaxTransferRetry = 1
  MaxReorgs = 1
CHECK_DEADLOCK FALSE
INVARIANTS
  TypeOK
  AnsweredIsFollowed
  RowTellsChain
  TransfersAreOurs
PROPERTIES
  FinalStays
  TasksEnd
