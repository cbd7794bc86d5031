SPECIFICATION Spec
CONSTANTS
  LittleEndian = TRUE
  Headers <- MCHeaders
  PayloadHeaders <- MCPayloadHeaders
  Garbage <- MCGarbage
INVARIANT FlagsRoundTrip
\* A packet is serialized and parsed once.
CHECK_DEADLOCK FALSE
