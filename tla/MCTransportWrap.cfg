SPECIFICATION Spec
CONSTANTS
  LittleEndian = TRUE
  Loss = FALSE
  Reordering = FALSE
  Duplication = FALSE
  Strays <- MCNoStrays
  SeqMod = 3
  MaxPackets <- MCPackets
  Stream <- MCStream
PROPERTY NoFalseAlarm
