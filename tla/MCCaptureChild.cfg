SPECIFICATION FairSpec
CONSTANTS
  MaxFrames = 3
  QueueMax = 2
  HwAhead = 0
  SwAhead = 3
INVARIANTS ExitZeroIsComplete FileInWireOrder
PROPERTIES SortKeepsFrames StopEnds ImplementsRecorder
