SPECIFICATION Spec
CONSTANTS
  LittleEndian = TRUE
  MaxPackets <- MCFewPackets
  Stream <- MCShortStream
  MaxFrames = 1
  FramesPerUnit = 1
INVARIANT WindowOutlivesHandler
\* The process ends, or main() waits for the asio thread for ever.
CHECK_DEADLOCK FALSE
