SPECIFICATION Spec
CONSTANTS
  LittleEndian = TRUE
  Loss = TRUE
  Reordering = FALSE
  Duplication = FALSE
  Strays <- MCStrays
  SeqMod = 3
  MaxPackets <- MCPackets
  Stream <- MCStream
INVARIANTS
  TypeOK
  Intact
PROPERTIES
  NoSilentGap
  AlarmOnlyAtWrap
  ImplementsLossyStream
