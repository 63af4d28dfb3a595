SPECIFICATION Spec
CONSTANTS
  Buffers = 3
  MaxFrames = 4
  MaxFaults = 1
  MaxRestarts = 0
PROPERTY CameraGoesOn
