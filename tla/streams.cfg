SPECIFICATION Spec
CONSTANTS
  NSeqMax = 2
  Unified = FALSE
  Size = 2
  NSwa = 0
  HasShadow = FALSE
  Toks = {"a", "b"}
  MaxPos = 2
  MaxCopies = 2
  MaxAppend = 2
  Batches <- MCStreamBatches
  Ranges <- MCFullRange
  Deltas <- MCDeltas
  Divisors = {2}
  ClientOps = {"seq_rm", "seq_rm_any", "seq_cp", "seq_add"}
  SharedShift = FALSE
  Failures = {"compute"}
INVARIANTS
  AttendedKeysRotated
PROPERTIES
  ImplementsMemory
