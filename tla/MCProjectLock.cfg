SPECIFICATION Spec
CONSTANTS
  watcher = watcher
  http = http
  cli = cli
  importer = importer
  manager = manager
  command = command
  jvm = jvm
  Nobody = Nobody
  Threads <- AllThreads
  Importers <- ImporterThreads
  ProcessOf <- ProcessOfThread
  Failing <- AllThreads
INVARIANTS
  MutualExclusion
  InsideIsLocked
  NothingLeftBehind
