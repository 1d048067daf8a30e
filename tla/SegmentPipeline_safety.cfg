SPECIFICATION Spec
CONSTANTS
  NumSegments = 2
  Workers = {w1, w2}
  MaxEpoch = 3
  MaxCrashes = 1
  MaxStalls = 1
  MayRaise = TRUE
SYMMETRY WorkerSymmetry
INVARIANTS
  TypeOK
  ProviderCalledAtMostOnce
  PublishedSegmentsAreBacked
  FinalIsComplete
  SegmentsInOrder
  WorkAndGenerationAgree
PROPERTIES
  StaleWorkerPublishesNothing
  NothingStartsAfterCancellation
  ProgressIsVersioned
  ImplementsLifecycle
CHECK_DEADLOCK FALSE
