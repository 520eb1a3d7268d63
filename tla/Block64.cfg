CONSTANTS
  LaneCount = 2
  StepBits = 1
  Inputs <- Inputs64
  FlagSets <- FlagSets64
  Junk <- Junk64
  Positions <- Positions64
  MaxCalls = 1
SPECIFICATION Spec
INVARIANTS
  Inv64
  CapacityTrusted
  LayoutAgrees64
PROPERTIES
  Lossless64
