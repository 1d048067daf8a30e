SPECIFICATION Spec
CONSTANTS
  NumPlans = 3
  MaxAttempts = 2
  MaxConcurrent = 2
  MaxFaults = 1
INVARIANTS
  TypeOK
  ChargedAtMostOnce
  ChargesAreNotMisfiled
  BooksAreClosed
  AssemblyIsComplete
PROPERTIES
  ExecutionEnds
CHECK_DEADLOCK FALSE
