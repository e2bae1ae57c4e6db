# Models of the knowledge pipeline

TLA+ models of the stateful core of open-knowledge: the Python pipeline under
`src/apps/pipeline/src/knowledge_os/` (paths below are relative to it unless
they start with `src/`) and the part of the Java importer that shares its lock.
Each model was written from the code at one commit; `PROJECT.json` gives, for
every definition, the lines it stands for. TLC checks the models on small
instances; TLAPS proves the theorems listed below for every value of the
constants.

Run inside `tla/`:

    tlc -workers 2 -config MCJobQueue.cfg MCJobQueue
    tlapm JobQueueProofs.tla

## 1. The system

A user puts files into an inbox (by copying, by uploading through a browser, or
with the Java importer). A run of the pipeline ingests them as *sources*, takes
each source through three stages (extract, enrich, index) by a *job table* in
SQLite, builds a static *site* from the database and, if the queue is drained and
the checks pass, swaps it in for the site readers see. A resident *manager*
starts runs by watching the inbox, takes uploads and manual corrections over
HTTP, and tells uploaders what became of their files.

| Component | State it keeps | Operations | Interacts with | What is hard | What makes it correct |
|---|---|---|---|---|---|
| Job queue: `storage/queue.py`, `storage/records.py` | `jobs` rows: status, attempts, id, available_at, updated_at | insert, claim, enqueue next stage, finish, fail, recover stale rows, requeue | stages, taxonomy, manager (`jobs_pending`) | a worker dies between transactions; rows of an earlier round meet `INSERT OR IGNORE`; updates by id that do not look at the status | one holder per claim, no attempt lost or granted, stages in order, settled rows stay settled, pending rows settle |
| Stages: `processing/runner.py`, `storage/documents.py` | `sources.status`, documents, placements, full-text rows; locals of the stage | extract, enrich, index, mark, fail | job queue, taxonomy | a stage is many transactions; repeated after death; `fail_job` commits what the stage had left uncommitted | status words are true, search shows what is placed, a repeated stage ends in the same state |
| Taxonomy: `storage/taxonomy.py` | nodes and `active` | synchronise: retire, move placements, requeue | stages, queue, site data | placements on retired nodes make the whole site build fail | no placement on a retired node; affected sources are processed again |
| Manual correction: `operations/classification.py` | placement and index entry of one card | check the expected node, move | taxonomy, stages, manager | decided on a page that may be old | lands on an active node, index moves along |
| Automatic run, publication: `automation.py` | `site/dist`, `.dist-rollback*`, `.dist-candidate-*` | recover, process, build, check, swap | everything | renames and removals fail or die half way; three verdicts taken at three times | readers only ever move to newer, verified, whole builds, and get the site back |
| Project lock: `operations/lock.py`, `ProjectWriteLock.java` | lock file, record lock, `_held_paths` | acquire, release | every writer | record locks belong to processes; closing any descriptor drops them | one writer at a time; a dead writer keeps nobody out |
| Manager: `local_manager.py` | state file (success mark, receipts), candidate fingerprint, pipeline lock | watch, attempt, settle, correct and rebuild, restart | inbox, run, browser | state read before a run and used after it; threads between two locks | files, uploads and corrections end up on the site; receipts and mark are true |
| Browser inbox: `local_inbox.py`, `local_http.py` | slots, staging directories, receipts in memory and on file | receive, record, settle | manager, ingest | file before receipt; a slot is held across many calls; receipts are settled from a list read earlier | no slot is lost; an acknowledged upload is on file until settled |
| Ingest and Java importer: `ingest.py`, `storage/records.py`, `importers/chat_exports.py`, `src/apps/api/.../importer/` | raw files named by content and name, `sources` rows, first jobs | take in a file, a text, a conversation | user's files, queue, lock | raw file before row; the original changes while it is read; clean-up after a rollback in one language, none in the other | every row has its whole raw file; raw files are immutable |
| Review log: `storage/reviews.py`, `operations/review.py`, `local_review.py` | append-only reviews | record, undo (a review in the other direction), rebuild | manager, lock, site | decided on an old page; "rebuilt" is answered while other attempts come and go | the log is a chain; "rebuilt" is true |
| Migration: `storage/schema.py`, `storage/migrations.py`, `operations/migration.py` | schema version, snapshot | v1 to v2 | queue, ingest | stopped half way; jobs that are ahead of documents still to be split | all or nothing, with the database it replaced in a file |
| Backup and site package: `operations/project_backup.py`, `operations/site_package.py`, `operations/snapshot.py` | archives | list, snapshot, hash, write, verify, publish | whole project | four readings at four times while the user touches files | an archive can be restored and is one state |
| Manager command line: `local_manager_cli.py` | state file | start, reuse, stop, `_serve` | manager, other terminals | everyone reads the state file at one moment and rewrites it whole at a later one | a failed start leaves nothing; later commands find the manager; receipts survive |
| Splitting, classification: `processing/heading_cards.py`, `processing/classification.py` | none | pure functions | stages | - | sections cover the text; deterministic choice |
| Site builder, artifacts, gate, health | generated files | build, verdicts | publication | - | refuses inconsistent data |
| Web client: `src/apps/web/src/` | upload queue in the page | upload, poll, renew session | HTTP | answers out of order | no file is sent twice or forgotten |
| Extraction and model adapters, chat parsing, Cloudflare publishing, Java query service, demo and acceptance | none | input and output | - | - | - |

`PROJECT.json` repeats this list with a status for every component.

## 2. Modules

    JobQueue ──extended by── Processing          Site ──refined by── Publication
       │                        │                                        │
    JobQueueProofs ──── ProcessingProofs                         PublicationProofs

    RawStore ──extended by── Store               InboxUpload ──extended by── ReviewLog
                               │                                                │
                          StoreProofs                                  ReviewLogProofs

    ProjectLock ── ProjectLockProofs             ManagerInstance ── ManagerInstanceProofs

    WriterLock, used by StoreProofs              LocalManager ── LocalManagerProofs
       and ReviewLogProofs

A module with a `Next` of its own has an `MC...` module with its instances.

- `Processing` conjoins the actions of `JobQueue` with what the same transaction does to the
  rest of the database. That it keeps the specification of the queue follows from its form; the lemma `ProcessingKeepsQueue`
  only carries the queue's theorems over.
- `Publication` implements `Site`.
- `WriterLock` is the project lock as its users see it, one variable for who is inside. `StoreProofs` and `ReviewLogProofs` show
  that `holder` and `lock` are used as it allows. `ProjectLock` says how far the code keeps that promise.
- `LocalManager` contains a run as a few steps seen from outside; `Publication` and `Processing`
  are that run's inside.
- `Store` adds to the files and rows of `RawStore` the commands that read a project as a whole, and
  a run as single steps (`RunStage`, `PublishSite`).
- `ReviewLog` adds to the uploads of `InboxUpload` the review pages: both are threads of one server and share the
  pipeline lock, the receipts' file and the death of the process.
- `ManagerInstance` contains a server as the phases of its life; `LocalManager` and
  `InboxUpload` are what it does while it serves.

### JobQueue

One row per (source, stage), which is the table's unique key; status `absent` is no
row. Every action is one transaction of the code: `InsertSource` (`insert_source`),
`ResyncJobs` (end of `sync_taxonomy`), `StartRun` (`recover_stale_jobs` at the top
of `process_jobs`), `Claim`, `EnqueueNext`, `Finish`, `Fail`, and `Crash` between
any two of them. `pc` is where the process that holds the project lock is: the lock
makes it one process. Time is relative: `wait` is what is left until
`available_at`, `age` how long a row has been running, both in ticks.
`recover_stale_jobs` only takes rows older than the cutoff, so a run started right
after a death does not see the dead worker's row, as in the code.

*Abstractions.* `max_attempts` is one constant for all rows (its default, 3, equals
the number `sync_taxonomy` hard-codes). Rows inserted by the migration are left to
a later module. `MaxJobs` is the code's own `max_jobs` argument, not a bound of the model.

### Processing

Extraction is `ReplaceDocuments` (one transaction for the cards, stale cards'
placements and index rows included), then the queue transactions; enrichment is
`ReadDocuments`, then for each card `EnrichDocument` and `PlaceDocument`, then
`MarkSource`; indexing is one `IndexDocument` per card, then `MarkSource`.
`FailStage` is `fail_job`, with `Uncommitted`: its commit takes along a deletion
from the full-text table whose insertion raised. `SyncTaxonomy` and `Correct` are the
other writers, between runs. Text is a set of cards, a classification result
any active node; `doc` tells only whether a card is enriched, and an index entry
only the node and the enrichment it was written with.

### Site and Publication

`Site` is what readers are promised: `shown`, the build they have or get back after a
recovery, is only ever replaced, in one step, by a newer build that was verified.
`Publication` is `run_full_pipeline` with its two renames. Every system call of it may
fail, `rmtree` may stop half way and leave a torn directory, the process may die between any
two calls. `Shown` is the refinement mapping: the live directory, else the rollback
directory, else the only legacy rollback directory. The initial states include any
leftovers of older versions, whole.

### ProjectLock

`_held_paths` per process, the record lock per process, the place of each thread in
`acquire` or `release`. `Dropped` is the POSIX rule: closing any descriptor of the file drops the process's lock.
`Failing` is the set of threads in which a call after the file is open may raise
(`lockf` with something other than "busy", the write or fsync of the owner record); the run and the theorems allow it in all.
In such a thread the frame, with the open file, hangs on the exception until it is collected (`Collect`). By then `acquire` has
unregistered, and another thread of the process may be inside. `robbed` is a history variable no guard reads: the threads
that had the record lock when such a file was closed beside them. The code breaks the lock in that case and in no other, which is what
`MutualExclusion` and `InsideIsLocked` say.

### LocalManager

The watcher, the HTTP threads that receive uploads (`Store`: the rename into the
inbox; `Record`: the receipt) and corrections (`Correct`, `AskRebuild`,
`EditorTries`), and the one attempt that `pipeline_lock` admits (`Begin` to
`Release`, following `_run_pipeline_once`). `mark` is
`successful_inbox_fingerprint`, `file` what of it and of the receipts the state file
has; with `StateWritesFail` every write may raise, and then the exception goes where the code
lets it go. `TakeLock(FALSE)` is the run refused because another program has the project lock.

*Abstractions.* An inbox is its fingerprint: each file absent, half copied or whole; files are not
deleted. The run is seen from outside: `site` is what readers have or get back after a recovery, as in `Site`, and the moment without a site
between the two renames (`automation.py:187`) is in `Publication` only. A source that failed after some of its cards were placed
(`partly`) is on the site, as it is in the code, and its upload is completed. One source per file, no duplicates by digest. Status words for display, the
24-entry history limit and upload slots are left out. Receipts keep the status only. Other programs'
writes to the database between two runs are left out. `Restart` is a stop or a death with a new start.
Reviews ask for a rebuild in the same way as corrections, and are covered by `Correct`.

### RawStore and Store

A raw file lives at a path made of the digest of its content and its name, so a path is a pair
`<<content, name>>` and what it holds is a value: the content, `Torn`, or nothing.

| Action | Code |
|---|---|
| `StartIngest`, `StartText`, `StartChat` | `cli.main` takes the project lock and refuses a v1 database; `ingest_path`, `ingest_text`, the materialisation of a conversation, which keeps an existing file |
| `StartJava`, `EndCommand` | `KnowledgeImportCommand`: locks anew for each file, and accepts either schema |
| `NextFile` | hash the file and look the hash up |
| `CopyAside`, `LinkCopy`, `AcceptExisting` | `_copy_immutable` and its Java twin: a temporary copy, hashed again, linked under the final name; an existing file is compared |
| `CreateText`, `WriteText` | exclusive creation under the final name, then the content |
| `Insert` | `insert_source` with its first job, one transaction; a no-op for a known digest |
| `Fail` | any call raises; Python takes back an incomplete text, Java (`cleanupAfterRollback`) the file it created |
| `CloseImport` | closing the connection after the commit, which may raise and must not clean up |
| `Crash`, `EditFile`, `LoseRaw` | death between two calls; the user rewrites a file or deletes a raw file by hand |

`Store` adds one process, the archivist, that takes the lock and keeps it: `SnapshotFirst` and
`MigrateDatabase`; `ListTree`, `SnapshotDatabase`, `HashTree`, `WriteArchive`, `PublishBackup`, which read the project at four
times; `ListSite` and `PublishPackage`, which read the site at two. `Quit` is an
error, a refused check or a death anywhere. `Init` is a new project, or any v1 database an older version can have left.

*Abstractions.* Digests do not collide. Quarantine records, events and the status of a source are left out; `jobs` keeps
only what the migration tells apart (extraction, and the later stages as one), `cards` only whether a source
still has its one legacy document. The snapshot of the database is atomic, as SQLite's backup interface
makes it. Of the restore drill only the accepted schema versions remain.

### InboxUpload and ReviewLog

`Arrive` to `Move` and `Refuse` are `InboxUploadStore.receive`; `CleanupFails` is an `unlink` or the `rmdir` of its
`finally` (`local_inbox.py:483`) raising, which skips the release. `Record` is `receive_browser_upload`. `BeginAttempt`, `ReadCandidates` and
`SettleReceipts` are `_begin_upload_attempt` and the two holds of `state_lock` in `_settle_upload_attempt`.

Every write of the state file may raise after memory has changed (`Written(log, ok)`), and the exception goes where the code
lets it go. At the beginning of an attempt, before the `try`, it ends the attempt and leaves its receipts in processing (`BeginRaises`).
When the run has returned it leads into the `except` clause, which settles a second time (`"raised"`); there it ends the attempt, settled in
memory but not on file. After a settlement, and in the last `_save`, the same. `Limited` is `limited_upload_history`, `Normalized` what a restart does to the list.

In `ReviewLog`, a page (`tab`) shows the reviews as of a build, that is, as of a place in the log. `SendReview` to
`ChangeReview` or `RefuseReview` is `change_browser_review` around `change_document_review`, with the comparison of
expected and current review (`Agrees`) inside the transaction and the project lock. `AskRebuild` to
`EndAttempt` is `rebuild_after_classification` around `_run_pipeline_once`, by the handler or, at the same time, by the watcher.

*Abstractions.* Name, length and header checks are one refusal. `terminal` is completed or failed for good. In the second settlement
the reading of the candidates and the write are one step: nothing but the outcomes, which are chosen freely, depends on
the moment of the reading. A watcher whose thread an exception has ended may begin again here (`LocalManager` ends it), which only adds
behaviours. What a run makes of an upload is chosen freely among its outcomes.
Reading and filtering of reviews by other commands is left out. A site is how much of the log its build has read.

### ManagerInstance

`cmd` is what each terminal's command is doing and what it has read, `man` the life of each process, `state`
the one state file. An instance and the control token made with it are one value.

| Action | Code |
|---|---|
| `Begin`, `Reuse`, `Unanswered`, `PortTaken`, `PortFree` | `_command_start` up to the new identity: `_probe_state`, the port check, and the second reading of the file in `_prepare_start_state` |
| `Prepare`, `Spawn`, `Live`, `GiveUp` | the provisional state, the child, the wait for it, and every reason to give up |
| `Terminate`, `Reap`, `NotMine`, `Mine`, `PutBack` | SIGTERM, wait, SIGKILL; `_restore_start_state` |
| `Found`, `NotFound`, `PostStop`, `PostRefused`, `MarkStopped` | `_command_stop` |
| `CheckState`, `ReadState`, `Bind`, `Announce` | `_command_serve`; the constructor, which reads the file again; the server and its port; the first save |
| `Save`, `Accept`, `Shut`, `CloseServer`, `LastSave` | `LocalKnowledgeManager.serve` to its last word, with every `_save` in between |
| `CommandDies`, `InstanceDies` | killed from outside |

`calm` and `undone` are history variables: `calm` until a start overlaps with another command or finds an earlier
instance still alive, `undone` once a command has written back an older file. A SIGTERM that meets the main thread in its last
save makes it wait for the lock it holds (`stuck`); the SIGKILL that follows ends it. `status` only reads and has no action.

## 3. Runs

Passing runs. State counts are TLC's distinct states.

| Run | Instance | States | What it shows |
|---|---|---|---|
| `job_queue` | 1 source (3 rows), 3 attempts, stale after 2 ticks, 2 claims per run | 24 thousand | claims, attempts, order and settled rows through deaths and requeueing; every pending row settles once deaths stop, unless its last attempt died |
| `processing` | 1 source, 2 cards, 2 nodes, 2 attempts | 1.5 million | sources, placements and index stay in step |
| `publication` | 2 legacy names, 2 old builds, 3 new builds | 700 | what readers get, as the property `KeepsPromise` (`Site`), and that a gap closes |
| `project_lock` | manager with 2 threads, a command line, a Java importer; late errors in all of them | 2.9 thousand | mutual exclusion and the protection of who is inside, but for a robbed thread; nothing left behind by errors and deaths |
| `local_manager` | 1 upload, 1 copied file, 1 corrector, 1 correction, 1 restart, failing state writes | 5.9 million | receipts and success mark are true, completed receipts stay, and the site loses nothing |
| `local_manager_live` | 1 upload, 1 corrector, 2 corrections, 1 restart, state file writable | 86 thousand | files get to readers, receipts are taken up, recorded rebuilds happen; and a receipt is in `processing` only while an attempt will settle it, restarts included |
| `store` | 1 Python, 1 Java process and the archivist; 2 contents, 1 Markdown and 1 other name, 2 builds, 1 manual edit or deletion | 2.1 million | rows are backed, raw files immutable, archives and migration consistent |
| `review_log` | 2 pages, 1 card with 2 possible reviews, 2 changes; 2 uploads, 1 slot, 1 terminal receipt kept, 1 restart, failing state writes | 4.4 million | slots and acknowledged uploads are accounted for, an attempt leaves no receipt in processing, the log is a chain, "rebuilt" is true |
| `manager_instance` | 2 terminals, 2 starts, 1 port, 1 receipt, 1 kill from outside | 0.7 million | failed starts leave nothing, the serving manager is named, receipts survive |

*Why the bounds are enough.* Three attempts is the default and leaves a first, a middle and a last one;
rows of different sources only meet in the order of ids, and that part is proved for any number of sources.
Two cards give a stage that has handled one and not the other; two nodes give one
that can be retired. `Uncertain`, the destination of orphans, never is. The
publication needs two legacy directories, because recovery treats one and several
differently, and three builds give a build in place, one set aside and one lost.
The lock needs two threads in one process, two Python processes and one Java
process. In the manager an upload and a copied file are the two ways a file can
arrive, two corrections give one before and one during a run.

Two contents and two names give the same content under two names and two contents under the same one; two processes of
either language give a duplicate ingested by the other between two steps, and one manual edit is what it takes to change a
file between hash and copy, or between two readings of a backup. One slot is a semaphore at its limit with the second upload, one kept receipt is
the limit with two settled ones. Two pages and two changes give a page that is stale, and a review that has been changed and
taken back. Two starts by two terminals are an overlap; with two ports (6.5 million states) the same properties hold.

The bounds that are the model's and not the code's are `MaxBuilds`, `MaxCorrections`, `MaxRestarts`, `MaxEdits`, `MaxChanges` and `MaxDeaths`.

The type invariants of `JobQueue`, `Publication`, `ProjectLock`, `LocalManager`, `RawStore`, `InboxUpload`, `ReviewLog` and `ManagerInstance` are not
listed in runs because they are proved, or follow from what is proved (`ProjectLock`). The manager has two runs because a
state file that cannot be written ends the watcher, and leaves receipts in processing: `ProcessingIsSettled` and liveness ask for a writable
one, with the restart that is the hard case of the first; the other properties are checked with failing writes.

*Deadlock* is checked in `project_lock` only. In the other models the system may stop: all
rows settled, all bounded events used up, the manager idle.

Violating runs, each of one property that a document or comment of the repository states:

| Run | What the code does |
|---|---|
| `job_queue_exhausted` | A worker that dies in the last permitted attempt leaves a row that recovery turns into `retry` and that no claim selects: it is neither tried nor failed and holds up publication for ever. |
| `processing_reextract` | Death between `enqueue_job` and `finish_job` of an extraction: the repeated extraction rewrites the cards bare, the finished enrich and index rows are left alone, the cards stay bare. |
| `local_manager_lost_rebuild` | A correction during the last part of a run clears the success mark; the run's success writes it back, and the rebuild does not happen. |

Further disagreements between code and documents, without a run of their own:

- **Lock dropped by a late error.** `acquire` raises after `open`: the path is unregistered with the file still open. Another thread
  may acquire; when the file is collected, its lock is gone and another process enters. This is in the run: the exception
  for `robbed` threads in `MutualExclusion` is exactly it, and without that exception TLC finds two writers.
- **A receipt in processing until a restart.** A state write that raises at the beginning of an attempt (`local_manager.py:389`, `473`)
  leaves its receipts in `processing` with no attempt, and no later one selects them. `AttemptsStrandNothing` is about the attempts that get further.
- **A receipt that is never settled.** The file is in the inbox before its receipt; a run in between publishes it and sets the
  mark; the receipt stays `queued` (`UploadsSettle` of `LocalManager`).
- **Half a copy is read.** The wait for an unchanged inbox ends before the run scans, and a rebuild asked for by a
  correction does not wait at all (`WholeFilesOnly` of `LocalManager`).
- **Enrichment repeated.** Death between `enqueue_job` and `finish_job` of an enrichment lets the index job run first; the repeated
  enrichment may then place a card elsewhere, and the index keeps the old path for good. `CompletedIsCurrent` does not speak of it, because the
  source says `classified` from then on; that the index is current once all stages are done does not hold of this code.
- **The watcher ends.** A state file that cannot be written ends the
  watcher thread (`local_manager.py:473`), after which nothing is retried until the
  manager is started again: with `StateWritesFail = TRUE`, `FilesReachTheSite` fails.
- **Two managers.** A manager that drains no longer answers, but still has its last save to make. A start on another
  port succeeds meanwhile and is then overwritten in the state file: two managers run, and the file names the one that is ending,
  against "单实例" (single instance) in `src/README.md:279` and the reuse of a running manager in
  `src/docs/knowledge-system-design.md:155`. This is why `ServingIsNamed` and `ReceiptsCarryOver` ask
  for `calm`.
- **A torn text is refused for ever.** A death in the middle of `ingest_text` (`ingest.py:189`) leaves half a file under the final name; every later ingest
  of the same text reports a conflict.
- **A receipt dropped as it settles.** `limited_upload_history` keeps the newest terminal receipts by arrival, so that an old upload which settles late may
  disappear in the write that settles it. `AcknowledgedIsKept` therefore ends with settlement.
- **A slot lost until restart.** An `unlink` or `rmdir` of the staging directory that raises inside `finally` skips the release of
  the slot (`local_inbox.py:483`).

`FilesReachTheSite` asks that the file is new to the database (`src` none). Without that it
fails for the cause of `local_manager_lost_rebuild`: an editor's run that fails can leave
behind a mark that a success set for the same inbox.

## 4. Fairness

`QueueFairness` (weak): the manager starts another run while rows are pending (`_watch_loop` asks
`database_work_pending`), a live worker goes on, time passes. Nothing obliges deaths or taxonomy edits; that they
stop is the premise `Quiet` of the property.

`Publication`: weak fairness of `Run` (the manager starts runs as long as there is no
live site, and a run goes on until it ends or dies) and strong fairness of `RestoreRollback` (a rename tried again by every
run succeeds in the end).

`LocalManager`: weak fairness of every thread that can go on and of the end of a
copy; strong fairness of `TakeLock(TRUE)`, `GoodScan` and `GoodWork`: of the attempts made
again and again, not all find the lock taken, have every file refused or fail the checks. No fairness
for uploads, corrections or restarts.

`Store`, `ReviewLog`, `ManagerInstance` and `ProjectLock` state safety only: a command that fails is over, and what makes the manager try
again is in `LocalManager`.

## 5. Proofs

Every theorem holds for all values of the constants that satisfy the named
assumptions. No proof has an open leaf.

- **JobQueueProofs.** `QueueInv` is `QueueTypeOK`, `ClaimHeld`, `AttemptBudget`, `StageOrder` and
  `IdsGiven` (no row has an id above `lastId`, without which `StageOrder` is not inductive: the next id
  must be new). `AttemptBudget` needs `ClaimHeld`, since `Fail` reads the attempts of a row it assumes to be running.
  `ReopenedOnlyFromZero` follows from the same invariant, step by step.
  `BackoffAssumption` says that the back-off is a natural number: the provers know no exponentiation.
- **ProcessingProofs.** Each step of `Next` is a `QueueNext` step or leaves
  the queue alone, by its form, so `QueueInv` carries over (a lemma). Then `DataInv`: the four database
  invariants need `StageProgress`, which says what a stage in the middle has behind it; and
  `StageProgress` needs `ClaimHeld`, because the claimed row being `running` is what
  makes `CompletedIsCurrent` vacuous while its source is being changed.
- **PublicationProofs.** `SwapProofInv` adds to what readers get `SwapInv` (which rollback directories
  can exist at each step of the swap) and `CandidateInv` (a candidate is newer than anything readers may
  have, and is only swapped in whole and verified). `PublicationImplementsSite` then shows each step
  to be a `Verify`, `Replace` or `GiveUp` of `Site`, or a stutter. `SitesOnlyMoveForward` says what that comes to for the
  directories: the live name is given up only for a whole, verified candidate, and only into the rollback directory.
- **ProjectLockProofs.** Nothing is assumed of who may fail. `ThreadsInv`: whoever is in the registry is on the way in or out
  (`RegistryKnown`), and an owner of the record lock is a process some thread of which is past `lockf` (`OwnerIsThere`). From it follow
  `ThreadsExclude` (two threads of one process never both inside) and `LockComesFree`. `LockInv` adds that the record lock is with
  the process of whoever needs it and has not been robbed (`OwnerKnown`), and that a robbed thread is not the only one of its process
  (`RobbedByAnother`). Hence `LockExcludes` and `LockIsKept`; and `AloneIsProtected`: the command line and the
  importer, alone in their processes, own the record lock while they are inside, whatever fails in the manager's threads.
- **StoreProofs.** `Exclusive` says that whoever is in the middle of a file or of the project holds the lock. `Prepared` says what a
  command relies on between two calls: that its target is still the path of the row it will insert (only the lock
  keeps a row from appearing meanwhile), that its copy is what was hashed, that the file is there when the row is inserted, and
  that Java marks a file as its own only for a digest no row has. `RowsAreBacked` needs all of it. `Consistent` carries what the
  archivist has read through its later steps: the rows cannot change under the lock, and raw files can
  only get lost. `MarkdownIsSplit` needs `SplitFirst`: in a v2 database no Markdown source has a later job before its
  cards are split. `WritersAreInside` (theorem `NothingIsWrittenBesideTheHolder`) turns `Exclusive` into what a step may do: raw files, database
  and site change only in a step of the lock's holder, in a whole step of a run that finds the lock free, or by the user's
  hand, and nobody loses the lock but by a step of its own. `CommandsUseTheLock` is the same lock seen as `WriterLock`.
- **ReviewLogProofs.** `LockIsHeld` identifies the holder of the project lock with the page that is inside or the run in its
  middle. `SiteFollowsLog` orders four places in the log: the site, the run's build, the page's change, the
  end. `RebuiltMeansShown` follows, because the attempt of a handler begins after its change. `AuditIsAChain` follows from
  the comparison and the append being one locked step, and from `LastExists`: a finite set of places has a
  last one. `SlotsInv` is a count of its own, by cardinalities, over `StagingIsOwned`.
  `WritersAreInside` and `ReviewsUseTheLock` are about `lock` what their namesakes in `StoreProofs` are about `holder`; `LogIsAppended` says who
  appends what.
  The receipts need an invariant of their own, `ReceiptsInv`. The list in memory accounts for every upload (`Accounts`): each receipt is of
  one upload, terminal exactly when that upload is in `settled`, and the list has every upload that was answered and not settled. The
  one on file lacks no answered receipt that memory has, but may be behind in status when a write has raised; a restart judges `settled` anew from
  it. Only then does no step lose a receipt: a list is rewritten from memory in an attempt and from the file in a restart.
  `LimitedAccounts` is the lemma that carries it through the history limit, which takes terminal receipts only; it rests on
  `OrderExists` (a finite set of places can be listed in their order: the place of each is the number of those up to it) and `OrderIsOnto`.
  `AttemptHolds` says that the receipts of an attempt stay in processing, in memory, until it settles them. `ProcessingIsUnderWay` is that as
  a theorem, `AttemptsLeaveNothing` the action property that follows, and `SettledIsTerminal` says when a settled upload may be judged
  anew: by its own attempt, settling again after a write that raised, or by a restart with an older file. All three with every
  write allowed to fail.
- **ManagerInstanceProofs.** `Identities`: an identity belongs to one start, its child does not exist before it is spawned, and is dead after it is reaped.
  `Undisturbed`: a start that nobody has written over knows what is on file. `CalmInv`: while starts keep out
  of each other's way, one command is busy, one instance is alive, and the file has its name. `ReceiptsInv` rests on that: what an
  instance knows is what the file had when it read it, plus what it was sent itself. `InstanceActs` is the one lemma
  for all steps of instances and of commands that signal them.
- **LocalManagerProofs.** `AttemptHasRunner`: without a thread there is no attempt, so a new one finds no receipt in `processing`.
  `SiteIsDone` makes publication irrevocable: a site only replaces another that has no file it lacks (`PublishedStays`), which is what
  carries `CompletedIsPublished` through later runs and, since it speaks of the state file as well, through restarts.
  `FingerprintsStillHold` (files stay in the inbox) and `RunCovers` (what the fingerprint of a run lists has a
  source after the scan and is through after a clean result) give `MarkIsEarned`. `Frames` says once which actions change what. `SiteGoesForward` adds `SiteIsCommitted` (the site shows no correction the database
  has not), `CompletedIsFinal` adds `UnrecordedIsNew` and `StoredIsThere`: an upload without receipt is in no attempt, so that recording it
  overwrites nothing.

Action properties and invariants that are proved and not listed in a run (`WritersAreInside`, `LogIsAppended`, `SettledStaysSettled`,
`ReadersMoveForward`, `OneManager`) stand in the proof modules, beside their theorems.

Only model-checked: liveness (`EveryJobSettlesOrExhausts`, `GapCloses`, `FilesReachTheSite`, `QueuedIsTakenUp`, `AskedRebuildHappens`),
because fairness and ENABLED are out of the prover's reach. Every safety property of the passing runs is a theorem.

## 6. Not modelled, and the plan

In the order planned, with what each is for:

1. `Taxonomy`: names, levels and parents, and what `UNIQUE(parent_id, name)` does to inactive nodes. `Processing` has ids and `active` only.
2. `HeadingCards`: splitting and classification as operators against reference definitions, TLC only.
3. `UploadClient`: the queue of `src/apps/web/src/local-ingest.js`.
4. The site builder's refusal of inconsistent data, which `Publication` has as a free verdict.

`restore.py` restores into a temporary database only and looks at it; that is `RestoreDrill` in `Store`.

Left out for good: parsing of file formats, calls of model programs, rendering, read-only verdicts and queries, configuration,
deployment. They keep no state of their own, and the models that use their results choose them nondeterministically.
