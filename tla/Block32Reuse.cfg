CONSTANTS
  LaneCount = 2
  StepBits = 1
  Inputs <- ReuseInputs
  FlagSets <- ReuseFlagSets
  Levels = {"scalar", "SSE2", "AVX512"}
  Garbage <- ReuseGarbage
  Positions <- ReusePositions
  MaxCalls = 2
SPECIFICATION Spec
INVARIANTS
  BlockIsCanonical
  BlockDecodes
PROPERTIES
  Lossless
  CallsReturn
