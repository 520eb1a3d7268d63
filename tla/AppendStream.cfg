CONSTANTS
  LaneCount = 1
  StepBits = 1
  Packs <- MCPacks
  Buffers <- MCBuffers
  MaxCalls = 3
SPECIFICATION Spec
INVARIANTS
  BytesInv
  GrowthAmortized
PROPERTIES
  SnapshotKept
  Implements
