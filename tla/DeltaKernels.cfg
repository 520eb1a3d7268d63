SPECIFICATION Spec
CONSTANTS
  LaneCount = 8
  StepBits = 1
  Written <- MCWritten
  Received <- MCReceived
  Levels <- MCLevels
INVARIANTS
  KernelsEncode
  KernelsDecode
  FirstOverflowReported
CHECK_DEADLOCK FALSE
