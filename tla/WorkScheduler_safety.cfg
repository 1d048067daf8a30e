SPECIFICATION Spec
CONSTANTS
  NumProjects = 2
  Threads = {t1, t2}
  NoThread = NoThread
  Unstarted = Unstarted
  Capacity = 1
  Deletable = {1}
  MaxStops = 1
  MaxFaults = 1
  MayStall = TRUE
  PipelineMayRaise = TRUE
  ClaimMayRaise = TRUE
  StartMayRaise = TRUE
  UnlinkMayFail = TRUE
SYMMETRY ThreadSymmetry
INVARIANTS
  TypeOK
  SlotsAreExact
  SweptWhenQuiet
  NoOrphanFiles
CHECK_DEADLOCK FALSE
