SPECIFICATION LaborSpec
CONSTANTS
  Items = {1, 2, 3}
  Members = {1, 2}
  LastStep = 2
  Samples <- MCSamples
  Proficiency <- MCProficiency
  Wip <- MCWip
  DailyCapacity <- MCDailyCapacity
  Absence <- MCAbsence
  Whole = 2
  DayLength = 4
  WorkHours = {1, 2, 3}
  Horizon = 9
  Wait = 3
  Leave = 4
  LongStayFirst = FALSE
INVARIANTS
  MemberLaborBounded
  VisitTimeAccounted
  SlicesProgress
  SliceIndependent
  LongStayDetected
CHECK_DEADLOCK FALSE
