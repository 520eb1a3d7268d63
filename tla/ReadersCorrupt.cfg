SPECIFICATION Spec
CONSTANTS
  LaneCount = 16
  StepBits = 4
  Sources <- MCSources
  Positions <- MCFarPositions
  Thresholds = {2, 4}
INVARIANTS
  NeverPanics
CHECK_DEADLOCK FALSE
