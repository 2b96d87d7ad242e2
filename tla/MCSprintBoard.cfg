SPECIFICATION FairSpec
CONSTANTS
  WorkingDays <- MCWorkingDays
  LookAhead = 14
  Instants = {0, 9, 14}
  SprintDays = 2
  CadenceStarts = {9, 14}
  Issues = {1, 2}
  Initial = {1}
  Points <- MCPoints
  CapMin = 1
  CapMax = 2
  DepthTarget = 1
  BatchCounts = {2}
  MaxSprints = 3
  Horizon = 44
  MaxCalls = 2
INVARIANTS
  EventsInScope
  CheckedSprintsDisjoint
PROPERTIES
  LatestSprintConcludes
