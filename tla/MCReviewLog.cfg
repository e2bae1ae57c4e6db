SPECIFICATION Spec
CONSTANTS
  t1 = t1
  t2 = t2
  u1 = u1
  u2 = u2
  c1 = c1
  Nobody = Nobody
  NoCard = NoCard
  Watcher = Watcher
  Tabs <- TwoTabs
  Uploads <- TwoUploads
  Cards <- OneCard
  Verdicts <- OneVerdict
  Notes <- TwoNotes
  Default <- Unreviewed
  Slots = 1
  HistoryLimit = 1
  MaxRestarts = 1
  MaxChanges = 2
INVARIANTS
  SlotsAreAccountedFor
  AcknowledgedIsKept
  AuditIsAChain
  RebuiltMeansShown
PROPERTIES
  AttemptsStrandNothing
SYMMETRY Symmetry
CHECK_DEADLOCK FALSE
