CONSTANTS
  Teams = {t1, t2}
  Script <- MCScript
  Slices = 2
  SizeAfter <- MCSizeAfter
  Issues = {1}
  Limit = 2
  RetryDelay <- MCRetryDelay
  AttemptCap = 1
  RateDelays = {0, 1}
  BadTeams = {t2}
  MaxTime = 2
  MaxFaults = 1
  MaxCrashes = 1
SPECIFICATION FairSpec
INVARIANTS
  JiraIsReplay
  AdapterReady
  SprintsInOrder
PROPERTIES
  RefinesDelivery
  EventuallyDelivered
