SPECIFICATION FilesSpec
CONSTANTS
  NumSegments = 2
  Workers = {w1, w2}
  MaxEpoch = 2
  MaxCrashes = 1
  MaxStalls = 1
  MayRaise = TRUE
INVARIANTS
  PublishedFilesAreIntact
  FlawsComeFromFaults
PROPERTIES
  ImplementsPipeline
CHECK_DEADLOCK FALSE
