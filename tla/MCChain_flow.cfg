SPECIFICATION Spec
CONSTANTS
  Buffers = 2
  MaxFrames = 3
  MaxFaults = 1
  MaxRestarts = 1
INVARIANTS TypeOK NoLostWakeup
PROPERTIES ChannelSpec Freshness
