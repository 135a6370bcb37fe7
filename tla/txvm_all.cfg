SPECIFICATION FairSpec
CONSTANTS
  Programs = {"p"}
  Tags = {"t"}
  Amounts = {1, 2}
  Nonces <- OneNonce
  Snapshots <- Purses
  Versions = {2, 3}
  Lengths = {1, 9}
  Runlimit = 8
  EntryCost = 1
  DataCost = 1
  MaxInt = 3
  StopAfterFinalize = TRUE
  MaxLog <- AllLogs
  Instructions <- AllInstructions
  MaxNesting = 9
INVARIANTS
  TypeOK
PROPERTIES
  Terminates
CHECK_DEADLOCK FALSE
