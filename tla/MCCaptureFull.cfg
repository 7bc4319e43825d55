SPECIFICATION Spec
CONSTANTS
  MaxFrames = 3
  QueueMax = 2
  HwAhead = 0
  SwAhead = 3
INVARIANT ExitCodeTells
