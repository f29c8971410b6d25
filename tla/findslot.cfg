SPECIFICATION Spec
CONSTANTS
  NSeqMax = 1
  Unified = TRUE
  Size = 4
  NSwa = 2
  MaxCellPos = 2
INVARIANTS
  FoundIsSlot
PROPERTIES
  SearchEnds
