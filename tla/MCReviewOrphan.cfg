CONSTANTS
  Teams = {1}
  Items = {1, 2}
  MaxTime = 5
  MaxOrd = 3
  Boundary <- MCBoundary
  Points <- MCPoints
  Steps <- MCSteps
  CapMin = 1
  CapMax = 3
  WorkdayStarts = {2, 4}
  Cancellation = TRUE
  ReviewSteps = {2}
  ReturnStep = 1
  MaxVersion = 6
SPECIFICATION Spec
CHECK_DEADLOCK FALSE
INVARIANT ActiveScopedInv
