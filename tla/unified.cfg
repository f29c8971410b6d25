SPECIFICATION Spec
CONSTANTS
  NSeqMax = 2
  Unified = TRUE
  Size = 3
  NSwa = 0
  HasShadow = FALSE
  Toks = {"a"}
  MaxPos = 2
  MaxCopies = 2
  MaxAppend = 2
  Batches <- MCSharedBatches
  Ranges <- MCRanges
  Deltas <- MCBack
  Divisors = {2}
  ClientOps = {"seq_rm", "seq_rm_any", "seq_cp", "seq_keep", "seq_add", "seq_div", "clear"}
  SharedShift = FALSE
  Failures = {"reserve", "shift"}
INVARIANTS
  TypeOK
  PlannedSlotsFree
PROPERTIES
  RefusedOnlyWhenFull
  ImplementsMemory
  OperationsComplete
  DecodeReturns
