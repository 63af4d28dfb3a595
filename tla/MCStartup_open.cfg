SPECIFICATION Spec
CONSTANTS
  Requested = 2
  Grants <- MCGrants
  Drivers <- MCDrivers
  Capabilities <- MCCapabilities
  Hardware <- MCHardware
  MaxFaults = 2
CHECK_DEADLOCK FALSE
INVARIANTS TypeOK FailedOpenCloses ReadyForPipeline SizesAgree FlipsTogether CacheTruthful
