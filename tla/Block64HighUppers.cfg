CONSTANTS
  LaneCount = 2
  StepBits = 1
  Inputs <- InputsHigh
  FlagSets <- FlagSets64
  Junk <- Junk64
  Positions <- Positions64
  MaxCalls = 1
SPECIFICATION Spec
PROPERTIES
  Lossless64
