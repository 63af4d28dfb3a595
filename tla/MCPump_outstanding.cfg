SPECIFICATION Spec
CONSTANTS
  SrcCount = 3
  DstCount = 3
  InOrder = TRUE
  MaxFrames = 4
  MaxFaults = 1
INVARIANT OutstandingIsNewest
