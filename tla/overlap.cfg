SPECIFICATION SpecO
CONSTANTS
  NSeqMax = 1
  Unified = TRUE
  Size = 9
  NSwa = 0
  HasShadow = FALSE
  Toks = {"a"}
  MaxPos = 9
  MaxCopies = 1
  NUbatch = 2
  Batches <- MCPrompts
  Ranges <- MCFullRange
  Deltas = {}
  Divisors = {}
  ClientOps = {"seq_rm"}
  SharedShift = FALSE
  Failures = {}
INVARIANTS
  WindowPresent
