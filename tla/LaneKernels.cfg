SPECIFICATION Spec
CONSTANTS
  LaneCount = 16
  StepBits = 4
  Inputs <- MCInputs
  BitWidths <- MCBitWidths
  Levels <- MCLevels
  Stale <- MCStale
INVARIANTS
  KernelInv
  PayloadCanonical
  ReadersAgree
  AccumulatorHoldsStream
PROPERTIES
  StoresInside
CHECK_DEADLOCK FALSE
