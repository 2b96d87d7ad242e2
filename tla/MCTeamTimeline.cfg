CONSTANTS
  Teams = {1}
  Items = {1, 2}
  MaxTime = 4
  MaxOrd = 3
  Boundary <- MCBoundary
  Points <- MCPoints
  Steps <- MCSteps
  CapMin = 1
  CapMax = 3
  WorkdayStarts = {2, 4}
  Cancellation = TRUE
  ReviewSteps = {2}
  ReturnStep = 1
  MaxVersion = 5
SPECIFICATION Spec
CHECK_DEADLOCK FALSE
INVARIANTS
  TypeOK
  SprintChainInv
  BoundaryAheadInv
  ScopeInv
  IntentsInv
PROPERTIES
  HistoryKept
  UnfinishedCarriesOver
