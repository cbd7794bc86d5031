SPECIFICATION Spec
CONSTANTS
  LittleEndian = TRUE
  Headers <- MCHeaders
  PayloadHeaders <- MCPayloadHeaders
  Garbage <- MCGarbage
INVARIANTS
  TypeOK
  HeaderRoundTrip
  PayloadRoundTrip
  NetworkOrder
\* A packet is serialized and parsed once.
CHECK_DEADLOCK FALSE
