SPECIFICATION FairRunSpec
CONSTANTS
  m1 = m1
  m2 = m2
  Calls = {m1, m2}
  MaxInputs = 2
  MaxRuns = 2
  MaxPauses = 2
  MaxIoErrors = 1
INVARIANTS
  RunTypeOK
  PausedIsSaved
  ResumedOnce
  NothingTypedIsLost
  BoundaryIsQuiet
  PauseOvertakenAtMostOnce
PROPERTIES
  PauseIsAnswered
  AbortEndsRun
