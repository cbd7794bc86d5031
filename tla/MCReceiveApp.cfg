SPECIFICATION FairSpec
CONSTANTS
  LittleEndian = TRUE
  MaxPackets <- MCPackets
  Stream <- MCStream
  MaxFrames = 3
  FramesPerUnit = 2
INVARIANTS
  TypeOK
  PaintsLiveFrame
  OnlyFrameStartsDropped
  MixedOnlyAfterLoss
  FramesStayWhole
PROPERTIES
  FramesArePainted
  CloseExits
  UnitsInOrder
\* The process ends, or main() waits for the asio thread for ever.
CHECK_DEADLOCK FALSE
