SPECIFICATION Spec
CONSTANTS
  NumSegments = 1
  Workers = {w1, w2}
  MaxEpoch = 2
  MaxCrashes = 0
  MaxStalls = 1
  MayRaise = TRUE
PROPERTIES
  StaleWorkerEndsNothing
CHECK_DEADLOCK FALSE
