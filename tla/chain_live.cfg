SPECIFICATION FairSpec
CONSTANTS
  p1 = p1
  p2 = p2
  g1 = g1
  g2 = g2
  w1 = w1
  w2 = w2
  Procs = {p1}
  Goroutines = {g1}
  Waiters = {w1}
  ProcOf <- Procs1
  InitialTimeMS = 1
  Delays = {1}
  Batches <- NoTxs
  MaxBlockTxs = 2
  MaxBlockWindow = 2
  MaxNonceWindow = 2
  MaxRunlimit = 2
  SaveFrequencyMS = 0
  Slop = 0
  StoreFails = FALSE
  RootsChecked = TRUE
  MaxHeight = 2
  MaxCrashes = 1
PROPERTIES
  SavedBlockBecomesState
  RecoverReachesStore
  WaiterWakes
