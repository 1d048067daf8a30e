SPECIFICATION VerifierSpec
CONSTANTS
  NumSegments = 1
  Workers = {w1}
  MaxEpoch = 2
  MaxCrashes = 1
  MaxStalls = 0
  MayRaise = FALSE
INVARIANTS
  VerifierTypeOK
  AnswersAreBacked
  NothingPublishedIsMissed
  AlarmsHaveACause
CONSTRAINT CrashOrMeddling
CHECK_DEADLOCK FALSE
