SPECIFICATION Spec
CONSTANTS
  Buffers = {b1, b2}
  NoBuf = NoBuf
  MaxFrames = 2
PROPERTY CloseUnblocksSelect
CHECK_DEADLOCK FALSE
