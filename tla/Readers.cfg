SPECIFICATION Spec
CONSTANTS
  LaneCount = 16
  StepBits = 4
  Sources <- MCSources
  Positions <- MCPositions
  Thresholds = {2, 4}
INVARIANTS
  ReadersInv
  ReadsValidated
  UnpackedIsGettable
  SkipsWholeBlock
  TruncatedGetIsExact
CHECK_DEADLOCK FALSE
