SPECIFICATION Spec
CONSTANTS
  p1 = p1
  p2 = p2
  g1 = g1
  g2 = g2
  w1 = w1
  w2 = w2
  Procs = {p1}
  Goroutines = {g1}
  Waiters = {}
  ProcOf <- Procs1
  InitialTimeMS = 1
  Delays = {1, 2}
  Batches <- ReplayBatches
  MaxBlockTxs = 2
  MaxBlockWindow = 2
  MaxNonceWindow = 1
  MaxRunlimit = 3
  SaveFrequencyMS = 4
  Slop = 1
  StoreFails = FALSE
  RootsChecked = TRUE
  MaxHeight = 4
  MaxCrashes = 1
INVARIANTS
  TxAppliedOnce
  StoredBlocksReplay
  NoncesMatchBlocks
  RecoverReplays
