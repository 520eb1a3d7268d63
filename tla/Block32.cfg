CONSTANTS
  LaneCount = 2
  StepBits = 1
  Inputs <- MCInputs
  FlagSets <- MCFlagSets
  Levels = {"scalar", "AVX2"}
  Garbage <- MCGarbage
  Positions <- MCPositions
  MaxCalls = 1
SPECIFICATION Spec
INVARIANTS
  TypeOK
  ValuesPreserved
  LengthBound
  LayoutAgrees
  NoStaleSlots
  FORPays
  CanonicalInv
PROPERTIES
  Lossless
  ScratchLenSuffices
  PatchPays
