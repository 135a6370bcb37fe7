SPECIFICATION Spec
CONSTANTS
  p1 = p1
  p2 = p2
  g1 = g1
  g2 = g2
  w1 = w1
  w2 = w2
  Procs = {p1}
  Goroutines = {g1}
  Waiters = {}
  ProcOf <- Procs1
  InitialTimeMS = 1
  Delays = {1}
  Batches <- ZeroExpBatches
  MaxBlockTxs = 2
  MaxBlockWindow = 2
  MaxNonceWindow = 2
  MaxRunlimit = 2
  SaveFrequencyMS = 0
  Slop = 1
  StoreFails = FALSE
  RootsChecked = TRUE
  MaxHeight = 3
  MaxCrashes = 0
INVARIANT
  TxAppliedOnce
