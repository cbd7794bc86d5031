SPECIFICATION Spec
CONSTANTS
  Buffers = {b1, b2}
  NoBuf = NoBuf
  MaxFrames = 2
  MaxNals = 1
  Cameras <- MCCameras
  NoFormat = NoFormat
INVARIANT FailedInitExits
\* The process ends.
CHECK_DEADLOCK FALSE
