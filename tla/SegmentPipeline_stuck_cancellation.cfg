SPECIFICATION Spec
CONSTANTS
  NumSegments = 1
  Workers = {w1, w2}
  MaxEpoch = 2
  MaxCrashes = 1
  MaxStalls = 0
  MayRaise = TRUE
INVARIANTS
  CancellationCanBeObserved
CHECK_DEADLOCK FALSE
