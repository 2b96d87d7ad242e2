CONSTANTS
  Teams = {1, 2}
  Items = {1}
  MaxTime = 3
  MaxOrd = 3
  Boundary <- MCLiveBoundary
  Points <- MCPoints
  Steps <- MCSteps
  CapMin = 1
  CapMax = 1
  WorkdayStarts = {2}
  Cancellation = FALSE
  ReviewSteps = {}
  ReturnStep = 1
  Workers = {a}
  PageSize = 1
  BadTeams = {1}
  ResumeFaults = FALSE
  MaxCrashes = 1
  MaxFaults = 1
  MaxVersion = 100
SPECIFICATION FairSpec
CHECK_DEADLOCK FALSE
INVARIANTS
  TypeOK
  NoTeamOverlooked
  TimeAccounted
  NoDowntimeCredit
PROPERTIES
  RefinesTimeline
  CatchesUp
