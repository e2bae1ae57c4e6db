---------------------------- MODULE MCProjectLock ---------------------------
(***************************************************************************)
(* Instances of ProjectLock for TLC: the manager with its watcher and an   *)
(* HTTP thread, a command line and an importer.                            *)
(***************************************************************************)
EXTENDS ProjectLock

CONSTANTS watcher, http, cli, importer, manager, command, jvm

AllThreads == {watcher, http, cli, importer}
ImporterThreads == {importer}
ProcessOfThread == [t \in AllThreads |->
  IF t \in {watcher, http} THEN manager ELSE IF t = cli THEN command ELSE jvm]
=============================================================================
