SPECIFICATION FairSpec
CONSTANTS
  NumSegments = 2
  Workers = {w1, w2}
  MaxEpoch = 3
  MaxCrashes = 2
  MaxStalls = 0
  MayRaise = FALSE
PROPERTIES
  WorkIsSettled
  CancellationEnds
CHECK_DEADLOCK FALSE
