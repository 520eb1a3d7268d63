SPECIFICATION Spec
CONSTANTS
  LaneCount = 16
  StepBits = 1
  Base = 60
  Slices32 <- MCSlices32
  Slices64 <- MCSlices64
  Levels <- MCLevels
INVARIANTS
  PassInv
  LanesCover
  LevelsAgree
  ElementsOnce
CHECK_DEADLOCK FALSE
