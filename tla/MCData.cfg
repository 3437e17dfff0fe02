CONSTANTS
  MaxSteps <- DataMaxSteps
  InitVMs = {}
INIT MCInit
NEXT MCNext
INVARIANTS
  TypeOK
  StartLayout
  LoopResult
  DivRemIdentity
  RoundTrip
  PanicIffOutOfRange
  InstretCount
  WriteCount
  TestsPass
CHECK_DEADLOCK FALSE
