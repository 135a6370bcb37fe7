SPECIFICATION Spec
CONSTANTS
  p1 = p1
  p2 = p2
  g1 = g1
  g2 = g2
  w1 = w1
  w2 = w2
  Procs = {p1, p2}
  Goroutines = {g1, g2}
  Waiters = {}
  ProcOf <- Procs2
  InitialTimeMS = 1
  Delays = {1}
  Batches <- TwoBatches
  MaxBlockTxs = 2
  MaxBlockWindow = 2
  MaxNonceWindow = 2
  MaxRunlimit = 2
  SaveFrequencyMS = 0
  Slop = 1
  StoreFails = TRUE
  RootsChecked = TRUE
  MaxHeight = 2
  MaxCrashes = 0
INVARIANTS
  SnapshotsMatchBlocks
  HeightsAreStored
PROPERTIES
  StoreAppendOnly
SYMMETRY SwapProcs
