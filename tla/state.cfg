SPECIFICATION SpecS
CONSTANTS
  NSeqMax = 2
  Unified = TRUE
  Size = 3
  NSwa = 0
  HasShadow = FALSE
  Toks = {"a"}
  MaxPos = 2
  MaxCopies = 2
  MaxAppend = 2
  Saves <- MCSaves
  SavePending = FALSE
  Truncated = TRUE
  Batches <- MCStateBatches
  Ranges <- MCFullRange
  Deltas <- MCDeltas
  Divisors = {2}
  ClientOps = {"seq_rm"}
  SharedShift = FALSE
  Failures = {}
PROPERTIES
  RestoredAsSaved
  RejectedLeavesNothing
