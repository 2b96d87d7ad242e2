SPECIFICATION FairSpec
CONSTANTS
  Processors = {"job"}
  Dispatchers = {"job"}
  Issues = {1}
  Events = {1, 2}
  First = {1, 2}
  Args = {1}
  Times = {}
  Plan <- MCPlan
  FailuresThreshold = 2
  DispatchBatch = 1
  AuditBatch = 1
  VerifyDelay = 1
  Timeout = 1
  RetryAfters = {0, 1}
  Horizon = 0
  MaxTrouble = 2
PROPERTIES AuditConcludes QueueDrains
CHECK_DEADLOCK FALSE
