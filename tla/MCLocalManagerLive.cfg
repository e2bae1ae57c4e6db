SPECIFICATION FairSpec
CONSTANTS
  u1 = u1
  f1 = f1
  e1 = e1
  Watcher = Watcher
  None = None
  Uploads <- OneUpload
  Drops <- Nothing
  Editors <- OneEditor
  MaxCorrections = 2
  MaxRestarts = 1
  StateWritesFail = FALSE
INVARIANTS
  ProcessingIsSettled
PROPERTIES
  FilesReachTheSite
  QueuedIsTakenUp
  AskedRebuildHappens
CHECK_DEADLOCK FALSE
