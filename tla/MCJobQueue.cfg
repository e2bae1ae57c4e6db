SPECIFICATION FairQueueSpec
CONSTANTS
  s1 = s1
  NoJob = NoJob
  Sources <- OneSource
  MaxAttempts = 3
  RetryBase = 1
  StaleAfter = 2
  MaxJobs = 2
INVARIANTS
  ClaimHeld
  AttemptBudget
  StageOrder
PROPERTIES
  ReopenedOnlyFromZero
  EveryJobSettlesOrExhausts
CHECK_DEADLOCK FALSE
