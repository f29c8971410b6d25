SPECIFICATION Spec
CONSTANTS
  Sizes = {1, 4, 5, 7}
  ChunkSizes = {1, 2, 3}
  Buffers = {1, 2, 3}
INVARIANTS
  NoSlotRace
  Copied
PROPERTIES
  CopyEnds
