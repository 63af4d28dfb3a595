SPECIFICATION Spec
CONSTANTS
  Requested = 3
  Grants <- MCGrantsEnough
  MaxFaults = 2
INVARIANTS TypeOK StateAgrees CountWithinArray StartableUnlessSpoilt
