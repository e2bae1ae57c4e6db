SPECIFICATION FairSpec
CONSTANTS
  u1 = u1
  f1 = f1
  e1 = e1
  Watcher = Watcher
  None = None
  Uploads <- Nothing
  Drops <- Nothing
  Editors <- OneEditor
  MaxCorrections = 1
  MaxRestarts = 0
  StateWritesFail = FALSE
PROPERTIES
  CorrectionsAreShown
CHECK_DEADLOCK FALSE
