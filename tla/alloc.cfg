SPECIFICATION Spec
CONSTANTS
  Buffers <- MCBuffers
  Tensors <- MCTensors
  Sizes = {1, 2}
  Alignment = 1
  MaxChunkSize = 3
  MaxChunks = 2
  Huge = 30
  Families <- MCFamilies
  Failing <- MCTwoBackends
INVARIANTS
  SourcesIntact
  InsideBuffers
  NothingKept
  LiveApart
  BlocksSound
PROPERTIES
  Placed
CHECK_DEADLOCK FALSE
