SPECIFICATION FairSpec
CONSTANTS
  LittleEndian = TRUE
  Loss = FALSE
  Reordering = TRUE
  Duplication = TRUE
  Strays <- MCStrays
  SeqMod = 3
  MaxPackets <- MCFewPackets
  Stream <- MCShortStream
INVARIANT Intact
PROPERTIES
  NoSilentGap
  EveryDatagramHeard
