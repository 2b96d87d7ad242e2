CONSTANTS
  Teams = {1}
  Items = {1}
  MaxTime = 3
  MaxOrd = 3
  Boundary <- MCBoundary
  Points <- MCPoints
  Steps <- MCSteps
  CapMin = 1
  CapMax = 1
  WorkdayStarts = {2}
  Cancellation = FALSE
  ReviewSteps = {}
  ReturnStep = 1
  Workers = {a}
  PageSize = 1
  BadTeams = {}
  ResumeFaults = TRUE
  MaxCrashes = 1
  MaxFaults = 1
  MaxVersion = 100
SPECIFICATION Spec
CHECK_DEADLOCK FALSE
INVARIANT NoDowntimeCredit
