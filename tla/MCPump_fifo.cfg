SPECIFICATION Spec
CONSTANTS
  SrcCount = 3
  DstCount = 3
  InOrder = TRUE
  MaxFrames = 6
  MaxFaults = 2
INVARIANTS TypeOK OneHolder LoansRecorded AssertsHold LossOnlyByFault PassTargetFree
PROPERTIES NoTearing RelaySpec
