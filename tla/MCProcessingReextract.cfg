SPECIFICATION Spec
CONSTANTS
  s1 = s1
  d1 = d1
  d2 = d2
  retired = retired
  unsure = unsure
  NoJob = NoJob
  None = None
  Sources <- OneSource
  Docs <- OneDoc
  DocSource <- OneDocSource
  Nodes <- TwoNodes
  Uncertain = unsure
  MaxAttempts = 2
  RetryBase = 1
  StaleAfter = 1
  MaxJobs = 2
INVARIANTS
  DoneIsEnriched
CHECK_DEADLOCK FALSE
