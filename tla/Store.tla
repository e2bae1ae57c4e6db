------------------------------- MODULE Store --------------------------------
(***************************************************************************)
(* One project on disk: the raw files and the sources table of RawStore,   *)
(* with what operations/__main__.py does to a project as a whole.  The     *)
(* migration of operations/migration.py and storage/migrations.py, the     *)
(* complete backup of operations/project_backup.py and the site package of *)
(* operations/site_package.py each read the project in several steps; what *)
(* keeps these steps consistent is the project lock, and what they cannot  *)
(* be protected from is the user.                                          *)
(***************************************************************************)
EXTENDS RawStore

CONSTANT Builds  \* sites the automatic run may publish

VARIABLES dist,  \* the build in site/dist
          task   \* the archivist's command: what it has read and published

vars == <<rawVars, dist, task>>
project == <<files, raw, lost, edits, database, cmd, dist>>

\* create_sqlite_snapshot: the database at one moment.
Image == [version |-> version, sources |-> sources, jobs |-> jobs, cards |-> cards]
Tree == [raw |-> raw, files |-> files]
NoTask == [kind |-> "none", at |-> "idle"]

LegacyJobs == {[NoJobs EXCEPT !["extract"] = "queued"],
               [extract |-> "done", later |-> "queued"],
               [extract |-> "done", later |-> "done"]}

\* A new project, or one of schema v1 with what an older version ingested.
Init ==
  /\ files \in [Names -> Contents]
  /\ version \in {1, 2}
  /\ sources \in [Contents -> Names \cup {NoName}]
  /\ version = 2 => \A c \in Contents : ~Known(c)
  /\ jobs \in [Contents -> LegacyJobs \cup {NoJobs}]
  /\ \A c \in Contents : Known(c) <=> jobs[c] # NoJobs
  /\ cards = [c \in Contents |-> IF jobs[c]["extract"] = "done" THEN "legacy" ELSE "none"]
  /\ raw = [path \in Paths |-> IF Known(path[1]) /\ sources[path[1]] = path[2]
                               THEN path[1] ELSE NoContent]
  /\ lost = {}
  /\ edits = 0
  /\ holder = NoProc
  /\ cmd = [p \in Procs |-> Idle]
  /\ dist \in Builds
  /\ task = NoTask

-----------------------------------------------------------------------------
(* The automatic run, as Processing and Publication describe it: a stage   *)
(* of a job, and a new build in place of the old one.                      *)

RunStage ==
  /\ holder = NoProc
  /\ version = 2
  /\ \E c \in Contents :
       \/ /\ jobs[c]["extract"] = "queued"
          /\ jobs' = [jobs EXCEPT ![c] =
                        [extract |-> "done",
                         later |-> IF @["later"] = "none" THEN "queued" ELSE @["later"]]]
          /\ cards' = [cards EXCEPT ![c] = "split"]
       \/ /\ jobs[c]["later"] = "queued"
          /\ jobs' = [jobs EXCEPT ![c]["later"] = "done"]
          /\ UNCHANGED cards
  /\ UNCHANGED <<files, raw, lost, edits, version, sources, holder, cmd, dist, task>>

PublishSite ==
  /\ holder = NoProc
  /\ version = 2
  /\ \E b \in Builds \ {dist} : dist' = b
  /\ UNCHANGED <<rawVars, task>>

-----------------------------------------------------------------------------
(* The archivist's commands take the lock first and keep it to the end.    *)

\* Mutant of TakesLock: the command does not look who holds the lock.
TakesNoLock == UNCHANGED holder

TakesLock == holder = NoProc /\ holder' = Archivist

Begin(kind, at) ==
  /\ task = NoTask
  /\ TakesLock
  /\ task' = [kind |-> kind, at |-> at]
  /\ UNCHANGED project

\* Mutant of BeginMigration: the migration does not take the lock.
BeginMigrationUnlocked ==
  /\ task = NoTask
  /\ task' = [kind |-> "migrate", at |-> "snapshot"]
  /\ UNCHANGED <<project, holder>>

BeginMigration == Begin("migrate", "snapshot")
BeginBackup == Begin("backup", "list")
BeginPackage == Begin("package", "list")

Finish == task' = NoTask /\ holder' = IF holder = Archivist THEN NoProc ELSE holder

\* The command is done; or a call raises, a check of the snapshot or of the
\* archive says no, or the process dies: temporary files may be left over,
\* and what is published stays.
Quit ==
  /\ task # NoTask
  /\ Finish
  /\ UNCHANGED project

At(kind, at) == task.kind = kind /\ task.at = at

-----------------------------------------------------------------------------
(* migrate_project_database                                                *)

\* A database of schema v2 is left as it is.
NothingToMigrate ==
  /\ At("migrate", "snapshot")
  /\ version = 2
  /\ Finish
  /\ UNCHANGED project

\* The snapshot is published by rename before the migration begins.
SnapshotFirst ==
  /\ At("migrate", "snapshot")
  /\ version = 1
  /\ task' = [kind |-> "migrate", at |-> "migrate", rescue |-> Image]
  /\ UNCHANGED <<rawVars, dist>>

IsMarkdown(c) == Known(c) /\ sources[c] \in Markdown

\* Mutant of MigratedJobs: extraction is queued, the later rows stay.
MigratedKeepingLater ==
  [c \in Contents |-> IF IsMarkdown(c) THEN [jobs[c] EXCEPT !["extract"] = "queued"] ELSE jobs[c]]

\* The later stages of Markdown sources are deleted and extraction starts
\* over, so that nothing runs ahead with the one legacy document.
MigratedJobs == [c \in Contents |-> IF IsMarkdown(c) THEN FreshJobs ELSE jobs[c]]

\* migrate_v1_to_v2: one transaction; documents, placements and relations
\* are copied as they are.  The checks after the commit only report.
MigrateDatabase ==
  /\ At("migrate", "migrate")
  /\ version = 1
  /\ version' = 2
  /\ jobs' = MigratedJobs
  /\ task' = [kind |-> "migrate", at |-> "migrated", rescue |-> task.rescue, before |-> Image]
  /\ UNCHANGED <<files, raw, lost, edits, sources, cards, holder, cmd, dist>>

-----------------------------------------------------------------------------
(* package_project                                                         *)

\* The tree is listed and measured before the database is looked at.
ListTree ==
  /\ At("backup", "list")
  /\ task' = [kind |-> "backup", at |-> "snapshot", listed |-> Tree]
  /\ UNCHANGED <<rawVars, dist>>

\* run_restore_drill: a snapshot is restored aside and looked through.
RestoreDrill(image) == image.version \in {1, 2}

SnapshotDatabase ==
  /\ At("backup", "snapshot")
  /\ RestoreDrill(Image)
  /\ task' = [kind |-> "backup", at |-> "hash", listed |-> task.listed, image |-> Image]
  /\ UNCHANGED <<rawVars, dist>>

\* What is at the listed names now; a name that is gone raises.
Listed(f, now) == [x \in DOMAIN f |-> IF f[x] = NoContent THEN NoContent ELSE now[x]]
AllThere(f, now) == \A x \in DOMAIN f : f[x] # NoContent => now[x] # NoContent
ListedTree == [raw |-> Listed(task.listed.raw, raw), files |-> Listed(task.listed.files, files)]
NoneGone == AllThere(task.listed.raw, raw) /\ AllThere(task.listed.files, files)

HashTree ==
  /\ At("backup", "hash")
  /\ NoneGone
  /\ task' = [kind |-> "backup", at |-> "write", listed |-> task.listed,
              image |-> task.image, hashed |-> ListedTree]
  /\ UNCHANGED <<rawVars, dist>>

WriteArchive ==
  /\ At("backup", "write")
  /\ NoneGone
  /\ task' = [kind |-> "backup", at |-> "publish", image |-> task.image,
              hashed |-> task.hashed, zip |-> ListedTree]
  /\ UNCHANGED <<rawVars, dist>>

\* Mutant of PublishBackup: the archive is published as it was written.
PublishUnverified ==
  /\ At("backup", "publish")
  /\ task' = [kind |-> "backup", at |-> "published", image |-> task.image,
              manifest |-> task.hashed, members |-> task.zip]
  /\ UNCHANGED <<rawVars, dist>>

\* verify_project_backup: every member has the digest of the manifest, no
\* member is missing or extra, and the snapshot can be restored.
Verified == task.zip = task.hashed /\ RestoreDrill(task.image)

\* The archive as it was written is verified, then gets its final name.
PublishBackup ==
  /\ At("backup", "publish")
  /\ Verified
  /\ task' = [kind |-> "backup", at |-> "published", image |-> task.image,
              manifest |-> task.hashed, members |-> task.zip]
  /\ UNCHANGED <<rawVars, dist>>

-----------------------------------------------------------------------------
(* package_site: the manifest first, then the files once more; nobody      *)
(* verifies the archive before it is published.                            *)

ListSite ==
  /\ At("package", "list")
  /\ task' = [kind |-> "package", at |-> "publish", manifest |-> dist]
  /\ UNCHANGED <<rawVars, dist>>

PublishPackage ==
  /\ At("package", "publish")
  /\ task' = [kind |-> "package", at |-> "published", manifest |-> task.manifest, members |-> dist]
  /\ UNCHANGED <<rawVars, dist>>

ArchiveStep ==
  \/ BeginMigration \/ NothingToMigrate \/ SnapshotFirst \/ MigrateDatabase
  \/ BeginBackup \/ ListTree \/ SnapshotDatabase \/ HashTree \/ WriteArchive \/ PublishBackup
  \/ BeginPackage \/ ListSite \/ PublishPackage
  \/ Quit

Next ==
  \/ RawNext /\ UNCHANGED <<dist, task>>
  \/ RunStage
  \/ PublishSite
  \/ ArchiveStep

Spec == Init /\ [][Next]_vars

-----------------------------------------------------------------------------
\* A published backup can be restored: the raw file of every source in its
\* database is a member, whole, unless somebody deleted it by hand, and its
\* members are what the manifest says (package_project).
BackupIsComplete ==
  At("backup", "published") =>
    /\ task.members = task.manifest
    /\ \A c \in Contents :
         LET n == task.image.sources[c]
         IN  n # NoName => task.members.raw[<<c, n>>] = c \/ <<c, n>> \in lost

\* A site package holds one build, the one its manifest lists (package_site).
PackageIsOneBuild == At("package", "published") => task.members = task.manifest

\* The snapshot a migration leaves is the very database it replaced
\* (migrate_project_database).
MigrationIsRecoverable == At("migrate", "migrated") => task.rescue = task.before

\* After the migration no Markdown source is indexed from its one legacy
\* document: its cards are split before the later stages are done
\* (migrate_v1_to_v2).
MarkdownIsSplit ==
  version = 2 =>
    \A c \in Contents :
      IsMarkdown(c) /\ jobs[c]["later"] = "done" => cards[c] = "split"
=============================================================================
