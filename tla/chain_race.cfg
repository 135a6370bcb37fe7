SPECIFICATION Spec
CONSTANTS
  p1 = p1
  p2 = p2
  g1 = g1
  g2 = g2
  w1 = w1
  w2 = w2
  Procs = {p1}
  Goroutines = {g1, g2}
  Waiters = {}
  ProcOf <- Procs1
  InitialTimeMS = 1
  Delays = {1}
  Batches <- OneBatch
  MaxBlockTxs = 2
  MaxBlockWindow = 2
  MaxNonceWindow = 2
  MaxRunlimit = 2
  SaveFrequencyMS = 0
  Slop = 1
  StoreFails = TRUE
  RootsChecked = TRUE
  MaxHeight = 2
  MaxCrashes = 2
INVARIANTS
  SnapshotsMatchBlocks
  StoredBlocksReplay
  TypeOK
  HeightsAreStored
PROPERTIES
  ChainNeverGoesBack
  ImplementsLedger
SYMMETRY SwapGoroutines
