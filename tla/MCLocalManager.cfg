SPECIFICATION Spec
CONSTANTS
  u1 = u1
  f1 = f1
  e1 = e1
  Watcher = Watcher
  None = None
  Uploads <- OneUpload
  Drops <- OneDrop
  Editors <- OneEditor
  MaxCorrections = 1
  MaxRestarts = 1
  StateWritesFail = TRUE
INVARIANTS
  ReceiptsAreBacked
PROPERTIES
  MarkIsEarned
  
  CompletedIsFinal
CHECK_DEADLOCK FALSE
