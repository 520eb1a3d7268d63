CONSTANTS
  LaneCount = 2
  StepBits = 1
  Inputs <- MCInputs
  FlagSets <- MCFlagSets
  Levels = {"AVX2"}
  Garbage <- MCGarbage
  Positions = {0, 2, 14}
  MaxCalls = 1
SPECIFICATION BothSpec
PROPERTIES
  BothLossless
