SPECIFICATION Spec
CONSTANTS
  ThreadCounts = {1, 2}
  MaxNals = 3
  MaxTime = 9
  MaxDelay = 3
  TsMod = 4
INVARIANTS
  TypeOK
  CallbacksSerialized
  NalIntact
PROPERTIES
  TimestampDifference
  EndedWhole
\* The time the model covers is over.
CHECK_DEADLOCK FALSE
