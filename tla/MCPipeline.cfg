SPECIFICATION Spec
CONSTANTS
  Processors = {"job", "manual"}
  Dispatchers = {"job", "manual"}
  Issues = {1}
  Events = {1, 2, 3}
  First = {1, 2}
  Args = {1}
  Times = {0, 1}
  Plan <- MCPlan
  FailuresThreshold = 1
  DispatchBatch = 1
  AuditBatch = 4
  VerifyDelay = 1
  Timeout = 1
  RetryAfters = {0, 1}
  Horizon = 0
  MaxTrouble = 2
INVARIANTS StrandedExplained VerdictsTruthful DuplicatesExplained
PROPERTIES TransitionsInOrder
CHECK_DEADLOCK FALSE
