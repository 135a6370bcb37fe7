SPECIFICATION RecordSpec
CONSTANTS
  Programs = {"p"}
  Tags = {"t"}
  Amounts = {1}
  Nonces <- OneNonce
  Snapshots <- Purses
  Versions = {2, 3, 4, 5, 6}
  Lengths = {0}
  Runlimit = 11
  EntryCost = 0
  DataCost = 0
  MaxInt = 2
  StopAfterFinalize = FALSE
  Instructions <- FourKinds
  MaxLog <- FourLogs
  MaxNesting = 12
INVARIANTS
  Conserved
  LogBalances
  AnchorsUnique
  TxIDIsLog
  OutputsPortable
  CallersAreRight
  RecordMatchesLog
PROPERTIES
  LogFrozen
CHECK_DEADLOCK FALSE
