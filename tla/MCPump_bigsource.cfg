SPECIFICATION Spec
CONSTANTS
  SrcCount = 3
  DstCount = 2
  InOrder = TRUE
  MaxFrames = 4
  MaxFaults = 0
INVARIANT PassTargetFree
