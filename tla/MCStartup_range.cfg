SPECIFICATION Spec
CONSTANTS
  Requested = 2
  Grants <- MCGrants
  Drivers <- MCDrivers
  Capabilities <- MCCapabilities
  Hardware <- MCHardware
  MaxFaults = 0
CHECK_DEADLOCK FALSE
INVARIANT RangeChecked
