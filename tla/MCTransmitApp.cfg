SPECIFICATION FairSpec
CONSTANTS
  Buffers = {b1, b2}
  NoBuf = NoBuf
  MaxFrames = 3
  MaxNals = 1
  Cameras <- MCCameras
  NoFormat = NoFormat
INVARIANTS
  TypeOK
  MembersOutliveCallback
  CaptureStoppedFirst
PROPERTIES
  SignalEndsProcess
  EnumerationEnds
\* The process ends.
CHECK_DEADLOCK FALSE
