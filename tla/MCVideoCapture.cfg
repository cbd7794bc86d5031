SPECIFICATION FairSpec
CONSTANTS
  Buffers = {b1, b2, b3}
  NoBuf = NoBuf
  MaxFrames = 5
INVARIANTS
  TypeOK
  FrameStable
  NoBufferLeak
  MappedBeforeUse
  QuietAfterStop
  NoDescriptorLeak
PROPERTIES
  StopReturns
  DestructorReturns
  BrokenStartEnds
  ImplementsSource
\* The object may be destroyed and the driver has captured its last frame.
CHECK_DEADLOCK FALSE
