SPECIFICATION Spec
CONSTANTS
  Items = {1, 2, 3}
  LastStep = 3
  Members = {1, 2}
  CanWork <- MCCanWork
  WorkTimes = {0, 2}
  FullTimes = {0, 2}
  MoveLeft <- MCMoveLeft
  Ticks = 4
  KnownToJira = TRUE
INVARIANTS
  ItemsFollowWorkflow
