SPECIFICATION FairSpec
CONSTANTS
  Jobs = {j1, j2, j3}
  Slots = 2
INVARIANTS
  SlotsAreReturned
  JobsAreTrue
PROPERTIES
  EveryJobEnds
CHECK_DEADLOCK FALSE
