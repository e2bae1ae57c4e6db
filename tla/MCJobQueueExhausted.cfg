SPECIFICATION FairQueueSpec
CONSTANTS
  s1 = s1
  NoJob = NoJob
  Sources <- OneSource
  MaxAttempts = 2
  RetryBase = 1
  StaleAfter = 1
  MaxJobs = 2
PROPERTIES
  EveryJobSettles
CHECK_DEADLOCK FALSE
