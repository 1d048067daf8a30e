SPECIFICATION Spec
CONSTANTS
  NumProjects = 2
  Threads = {t1, t2}
  NoThread = NoThread
  Unstarted = Unstarted
  Capacity = 1
  Deletable = {}
  MaxStops = 1
  MaxFaults = 0
  MayStall = FALSE
  PipelineMayRaise = FALSE
  ClaimMayRaise = FALSE
  StartMayRaise = FALSE
  UnlinkMayFail = FALSE
PROPERTIES
  EligibleWorkIsClaimed
CHECK_DEADLOCK FALSE
