SPECIFICATION Spec
CONSTANTS
  NSeqMax = 2
  Unified = TRUE
  Size = 4
  NSwa = 2
  HasShadow = TRUE
  Toks = {"a"}
  MaxPos = 5
  MaxCopies = 2
  MaxAppend = 2
  Batches <- MCSingleUbatches
  Ranges <- MCSuffixes
  Deltas <- MCDeltas
  Divisors = {2}
  ClientOps = {"seq_rm", "seq_keep"}
  SharedShift = FALSE
  Failures = {"compute"}
INVARIANTS
  Contiguous
  WindowPresent
  ShadowMirrors
