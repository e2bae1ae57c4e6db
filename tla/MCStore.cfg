SPECIFICATION Spec
CONSTANTS
  py = py
  jvm = jvm
  c1 = c1
  c2 = c2
  md = md
  bin = bin
  b1 = b1
  b2 = b2
  Archivist = Archivist
  NoName = NoName
  NoContent = NoContent
  Torn = Torn
  NoProc = NoProc
  Python <- OnePython
  Java <- OneJava
  Contents <- TwoContents
  Names <- TwoNames
  Markdown <- MarkdownNames
  Builds <- TwoBuilds
  MaxEdits = 1
INVARIANTS
  RowsAreBacked
  RawHoldsItsHash
  BackupIsComplete
  PackageIsOneBuild
  MigrationIsRecoverable
  MarkdownIsSplit
PROPERTIES
  RawIsImmutable
SYMMETRY Symmetry
CHECK_DEADLOCK FALSE
