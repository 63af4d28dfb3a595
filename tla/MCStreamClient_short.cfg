SPECIFICATION Spec
CONSTANTS
  Requested = 3
  Grants <- MCGrantsAny
  MaxFaults = 0
INVARIANT CountWithinArray
