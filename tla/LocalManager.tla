---------------------------- MODULE LocalManager ----------------------------
(***************************************************************************)
(* The resident manager of local_manager.py: a thread that watches the     *)
(* inbox, HTTP threads that receive uploads and manual corrections, and    *)
(* the automatic run that any of them may start, one at a time.            *)
(*                                                                         *)
(* Files come into the inbox as uploads, moved in whole by a rename, or as *)
(* drops, copied in by the user while the manager looks.  The run is seen  *)
(* from outside: it scans the inbox, moves sources on, and replaces the    *)
(* site when nothing is pending and the checks pass (see Publication and   *)
(* Processing for its inside).                                             *)
(***************************************************************************)
EXTENDS Naturals, FiniteSets

CONSTANTS Uploads,         \* files sent by the browser
          Drops,           \* files copied into the inbox by hand
          Editors,         \* HTTP threads that handle corrections
          Watcher,         \* the knowledge-inbox-watcher thread
          None,            \* no thread, no fingerprint, no site
          MaxCorrections,  \* bound on manual corrections
          MaxRestarts,     \* bound on deaths of the manager
          StateWritesFail  \* whether writing the state file may raise

Files == Uploads \cup Drops
Threads == Editors \cup {Watcher}

\* A fingerprint tells names, sizes and modification times, so two inboxes
\* have the same fingerprint only if they are the same.
Fingerprint == [Files -> {"absent", "partial", "whole"}]

\* What readers are served: the files whose cards it has, the corrections it
\* shows.
SiteRecord == [files : SUBSET Files, corr : Nat]

ASSUME ManagerAssumption ==
  /\ Uploads \cap Drops = {}
  /\ Watcher \notin Editors
  /\ None \notin Threads \cup Fingerprint \cup SiteRecord
  /\ MaxCorrections \in Nat /\ MaxRestarts \in Nat
  /\ StateWritesFail \in BOOLEAN

VARIABLES
  inbox,      \* the inbox, as its fingerprint tells it
  src,        \* the source made of each file: none yet, rejected by ingest,
              \* pending jobs, done, failed before any of its cards was
              \* placed ("failed") or after ("partly")
  torn,       \* drops whose half copy was ingested
  corr,       \* corrections committed to the database
  site,       \* the live site
  mark,       \* state["successful_inbox_fingerprint"]
  receipt,    \* state["recent_uploads"]: status of each upload
  file,       \* the two as the state file has them
  stored,     \* uploads moved into the inbox, receipt not recorded yet
  runner,     \* the thread that holds pipeline_lock
  phase,      \* where its attempt is
  fp,         \* _run_pipeline_once: fingerprint, upload_ids, and whether
  selected,   \* the result had nothing pending and passed its checks
  clean,
  wpc,        \* where the watcher is
  candidate,  \* _watch_loop: candidate
  epc,        \* where each editor is
  efp,        \* rebuild_after_classification: fingerprint
  restarts

worldVars == <<inbox, src, torn, corr, site>>
stateVars == <<mark, receipt, file>>
runVars == <<runner, phase, fp, selected, clean>>
threadVars == <<stored, wpc, candidate, epc, efp, restarts>>
vars == <<worldVars, stateVars, runVars, threadVars>>

Receipts == [Uploads -> {"none", "queued", "processing", "completed",
                         "failed", "isolated"}]

Phases == {"none", "begin", "lock", "scan", "work", "settle", "settle again",
           "close", "give up", "succeeded", "failed", "died"}

TypeOK ==
  /\ inbox \in Fingerprint
  /\ src \in [Files -> {"none", "rejected", "pending", "done", "failed", "partly"}]
  /\ torn \in SUBSET Drops
  /\ corr \in 0 .. MaxCorrections
  /\ site \in SiteRecord \cup {None}
  /\ mark \in Fingerprint \cup {None}
  /\ receipt \in Receipts
  /\ file \in [mark : Fingerprint \cup {None}, receipt : Receipts]
  /\ stored \in SUBSET Uploads
  /\ runner \in Threads \cup {None}
  /\ phase \in Phases
  /\ fp \in Fingerprint \cup {None}
  /\ selected \in SUBSET Uploads
  /\ clean \in BOOLEAN
  /\ wpc \in {"watch", "try", "run", "dead"}
  /\ candidate \in Fingerprint \cup {None}
  /\ epc \in [Editors -> {"idle", "corrected", "marked", "run"}]
  /\ efp \in [Editors -> Fingerprint \cup {None}]
  /\ restarts \in 0 .. MaxRestarts

Init ==
  /\ inbox = [f \in Files |-> "absent"]
  /\ src = [f \in Files |-> "none"]
  /\ torn = {}
  /\ corr = 0
  /\ site = None
  /\ mark = None
  /\ receipt = [u \in Uploads |-> "none"]
  /\ file = [mark |-> mark, receipt |-> receipt]
  /\ stored = {}
  /\ runner = None
  /\ phase = "none"
  /\ fp = None
  /\ selected = {}
  /\ clean = FALSE
  /\ wpc = "watch"
  /\ candidate = None
  /\ epc = [e \in Editors |-> "idle"]
  /\ efp = [e \in Editors |-> None]
  /\ restarts = 0

\* _write_state, after the state in memory has changed: it returns, or raises
\* and leaves the file as it was.
StateWritten == file' = [mark |-> mark', receipt |-> receipt']
WriteRaised == StateWritesFail /\ UNCHANGED file

-----------------------------------------------------------------------------
(* Files arrive.                                                           *)

StartCopy(f) ==
  /\ inbox[f] = "absent"
  /\ inbox' = [inbox EXCEPT ![f] = "partial"]
  /\ UNCHANGED <<src, torn, corr, site, stateVars, runVars, threadVars>>

FinishCopy(f) ==
  /\ inbox[f] = "partial"
  /\ inbox' = [inbox EXCEPT ![f] = "whole"]
  /\ UNCHANGED <<src, torn, corr, site, stateVars, runVars, threadVars>>

\* InboxUploadStore.receive: staged, synced, then renamed into the inbox.
Store(u) ==
  /\ inbox[u] = "absent"
  /\ inbox' = [inbox EXCEPT ![u] = "whole"]
  /\ stored' = stored \cup {u}
  /\ UNCHANGED <<src, torn, corr, site, stateVars, runVars,
                 wpc, candidate, epc, efp, restarts>>

\* The rest of receive_browser_upload: the receipt.
Record(u) ==
  /\ u \in stored
  /\ receipt' = [receipt EXCEPT ![u] = "queued"]
  /\ UNCHANGED mark
  /\ StateWritten \/ WriteRaised
  /\ stored' = stored \ {u}
  /\ UNCHANGED <<worldVars, runVars, wpc, candidate, epc, efp, restarts>>

-----------------------------------------------------------------------------
(* _run_pipeline_once.                                                     *)

GoTo(p) == phase' = p /\ UNCHANGED <<runner, fp, selected>>

\* Save the state and go on, or somewhere else when that raises.
SaveAndGoTo(p, raised) ==
  \/ StateWritten /\ GoTo(p)
  \/ WriteRaised /\ GoTo(raised)

\* Mutant of Waiting: whatever is not under way is tried again.
WaitingAll == {u \in Uploads : receipt[u] \notin {"none", "processing"}}

\* _begin_upload_attempt, and the saving of "updating": every receipt still
\* waiting, and every one that may be tried again.
Waiting == {u \in Uploads : receipt[u] \in {"queued", "failed"}}

Begin ==
  /\ phase = "begin"
  /\ selected' = Waiting
  /\ receipt' = [u \in Uploads |-> IF u \in Waiting THEN "processing" ELSE receipt[u]]
  /\ UNCHANGED mark
  /\ \/ StateWritten /\ phase' = "lock"
     \/ StateWritesFail /\ (StateWritten \/ WriteRaised) /\ phase' = "died"
  /\ UNCHANGED <<worldVars, runner, fp, clean, threadVars>>

\* The run takes the project lock, or raises: another program has it.
TakeLock(free) ==
  /\ phase = "lock"
  /\ GoTo(IF free THEN "scan" ELSE "settle again")
  /\ UNCHANGED <<worldVars, stateVars, clean, threadVars>>

\* ingest_file for every file found: a new source, or a quarantine record; a
\* half copy makes a source of its own or is noticed to have changed.
Scan(rejected) ==
  /\ phase = "scan"
  /\ src' = [f \in Files |->
               IF inbox[f] = "whole" /\ src[f] \in {"none", "rejected"}
               THEN IF f \in rejected THEN "rejected" ELSE "pending"
               ELSE src[f]]
  /\ torn' = torn \cup {f \in Drops \ rejected : inbox[f] = "partial"}
  /\ GoTo("work")
  /\ UNCHANGED <<inbox, corr, site, stateVars, clean, threadVars>>

\* What a site is built of: sources with placed cards, failed ones too.
HasCards(status) == status \in {"done", "partly"}
HasFailed(status) == status \in {"failed", "partly"}

\* Mutant of Work: the site has the files of this run only.
WorkForgetting(settled, failures, placed, checks) ==
  /\ phase = "work"
  /\ settled \subseteq {f \in Files : src[f] = "pending"}
  /\ placed \subseteq failures /\ failures \subseteq settled
  /\ src' = [f \in Files |-> IF f \in placed THEN "partly"
                             ELSE IF f \in failures THEN "failed"
                             ELSE IF f \in settled THEN "done" ELSE src[f]]
  /\ clean' = (checks /\ \A f \in Files : src'[f] # "pending")
  /\ site' = IF clean'
             THEN [files |-> {f \in settled : HasCards(src'[f])}, corr |-> corr]
             ELSE site
  /\ GoTo("settle")
  /\ UNCHANGED <<inbox, torn, corr, stateVars, threadVars>>

\* process_jobs, the checks and the publication: what was pending is settled or
\* not, and the site is replaced when nothing is pending and the checks pass.
Work(settled, failures, placed, checks) ==
  /\ phase = "work"
  /\ settled \subseteq {f \in Files : src[f] = "pending"}
  /\ placed \subseteq failures /\ failures \subseteq settled
  /\ src' = [f \in Files |-> IF f \in placed THEN "partly"
                             ELSE IF f \in failures THEN "failed"
                             ELSE IF f \in settled THEN "done" ELSE src[f]]
  /\ clean' = (checks /\ \A f \in Files : src'[f] # "pending")
  /\ site' = IF clean'
             THEN [files |-> {f \in Files : HasCards(src'[f])}, corr |-> corr]
             ELSE site
  /\ GoTo("settle")
  /\ UNCHANGED <<inbox, torn, corr, stateVars, threadVars>>

\* An exception anywhere in the run; what was committed stays.
RunRaises ==
  /\ phase \in {"scan", "work"}
  /\ GoTo("settle again")
  /\ UNCHANGED <<worldVars, stateVars, clean, threadVars>>

\* Mutant of Outcome: the job table is believed before the site shows it.
OutcomeOfJobs(u) ==
  IF HasCards(src[u]) THEN "completed"
  ELSE IF HasFailed(src[u]) THEN "isolated" ELSE "failed"

\* upload_outcomes: from the live site, then from the job table.
Outcome(u) ==
  IF site # None /\ u \in site.files THEN "completed"
  ELSE IF HasFailed(src[u]) THEN "isolated" ELSE "failed"

\* _settle_upload_attempt, first when the run returned, in the except clause
\* otherwise, or if the first did not get through.
Settle ==
  /\ phase \in {"settle", "settle again"}
  /\ receipt' = [u \in Uploads |-> IF u \in selected THEN Outcome(u) ELSE receipt[u]]
  /\ UNCHANGED mark
  /\ IF phase = "settle again"
     THEN SaveAndGoTo("give up", "died")
     ELSE SaveAndGoTo(IF clean /\ \A u \in selected : Outcome(u) # "failed"
                      THEN "close" ELSE "give up",
                      "settle again")
  /\ UNCHANGED <<worldVars, clean, threadVars>>

\* Mutant of GiveUp: a failed attempt records its fingerprint as well.
GiveUpMarking ==
  /\ phase = "give up"
  /\ mark' = fp
  /\ UNCHANGED receipt
  /\ SaveAndGoTo("failed", "died")
  /\ UNCHANGED <<worldVars, clean, threadVars>>

GiveUp ==
  /\ phase = "give up"
  /\ UNCHANGED <<mark, receipt>>
  /\ SaveAndGoTo("failed", "died")
  /\ UNCHANGED <<worldVars, clean, threadVars>>

\* Mutant of Close: the fingerprint is taken at the end of the run.
CloseWithCurrent ==
  /\ phase = "close"
  /\ mark' = inbox
  /\ UNCHANGED receipt
  /\ SaveAndGoTo("succeeded", "died")
  /\ UNCHANGED <<worldVars, clean, threadVars>>

Close ==
  /\ phase = "close"
  /\ mark' = fp
  /\ UNCHANGED receipt
  /\ SaveAndGoTo("succeeded", "died")
  /\ UNCHANGED <<worldVars, clean, threadVars>>

\* The finally clause of _run_pipeline, and back to the caller: True, False or
\* an exception, which ends the watcher and gives the editor's browser a 500.
Release ==
  /\ phase \in {"succeeded", "failed", "died"}
  /\ runner' = None
  /\ phase' = "none"
  /\ fp' = None
  /\ selected' = {}
  /\ clean' = FALSE
  /\ IF runner = Watcher
     THEN /\ wpc' = IF phase = "died" THEN "dead" ELSE "watch"
          /\ candidate' = IF phase = "succeeded" THEN None ELSE candidate
          /\ UNCHANGED <<epc, efp>>
     ELSE /\ epc' = [epc EXCEPT ![runner] = "idle"]
          /\ efp' = [efp EXCEPT ![runner] = None]
          /\ UNCHANGED <<wpc, candidate>>
  /\ UNCHANGED <<worldVars, stateVars, stored, restarts>>

-----------------------------------------------------------------------------
(* _watch_loop.                                                            *)

\* Mutant of WorkPending: only the job table is asked once there is a site.
JobsPending ==
  \/ site = None
  \/ \E f \in Files : src[f] = "pending"

WorkPending ==
  \/ site = None
  \/ inbox # mark
  \/ \E f \in Files : src[f] = "pending"

\* A copy in progress keeps changing the fingerprint, so that it is never seen
\* unchanged for settle_seconds.
Stable == candidate = inbox /\ \A f \in Drops : inbox[f] # "partial"

\* One turn of the loop: notice a new fingerprint, start a run for one that has
\* not changed, or forget the candidate.
Look ==
  /\ wpc = "watch"
  /\ \/ WorkPending /\ candidate # inbox /\ candidate' = inbox /\ UNCHANGED wpc
     \/ WorkPending /\ Stable /\ wpc' = "try" /\ UNCHANGED candidate
     \/ ~WorkPending /\ candidate' = None /\ UNCHANGED wpc
  /\ UNCHANGED <<worldVars, stateVars, runVars, stored, epc, efp, restarts>>

\* pipeline_lock.acquire(blocking=False) of a thread, with its fingerprint.
Start(t, fingerprint) ==
  /\ runner = None
  /\ runner' = t
  /\ phase' = "begin"
  /\ fp' = fingerprint
  /\ UNCHANGED <<selected, clean>>

WatcherTries ==
  /\ wpc = "try"
  /\ \/ Start(Watcher, candidate) /\ wpc' = "run"
     \/ runner # None /\ UNCHANGED runVars /\ wpc' = "watch"
  /\ UNCHANGED <<worldVars, stateVars, stored, candidate, epc, efp, restarts>>

-----------------------------------------------------------------------------
(* _receive_classification and _receive_review.                            *)

\* The change itself, under the project lock; refused while a run has it.
Correct(e) ==
  /\ epc[e] = "idle"
  /\ phase \notin {"scan", "work"}
  /\ corr < MaxCorrections
  /\ corr' = corr + 1
  /\ epc' = [epc EXCEPT ![e] = "corrected"]
  /\ UNCHANGED <<inbox, src, torn, site, stateVars, runVars,
                 stored, wpc, candidate, efp, restarts>>

\* rebuild_after_classification: take the fingerprint, clear the mark.  A failed
\* write leaves the mark cleared in memory and the answer is a 500.
AskRebuild(e) ==
  /\ epc[e] = "corrected"
  /\ mark' = None
  /\ UNCHANGED receipt
  /\ \/ /\ StateWritten
        /\ efp' = [efp EXCEPT ![e] = inbox]
        /\ epc' = [epc EXCEPT ![e] = "marked"]
     \/ /\ WriteRaised
        /\ epc' = [epc EXCEPT ![e] = "idle"]
        /\ UNCHANGED efp
  /\ UNCHANGED <<worldVars, runVars, stored, wpc, candidate, restarts>>

\* If a run is under way the answer is "rebuild_pending".
EditorTries(e) ==
  /\ epc[e] = "marked"
  /\ \/ Start(e, efp[e]) /\ epc' = [epc EXCEPT ![e] = "run"] /\ UNCHANGED efp
     \/ /\ runner # None
        /\ epc' = [epc EXCEPT ![e] = "idle"]
        /\ efp' = [efp EXCEPT ![e] = None]
        /\ UNCHANGED runVars
  /\ UNCHANGED <<worldVars, stateVars, stored, wpc, candidate, restarts>>

-----------------------------------------------------------------------------
\* Mutant of Restart: the receipts are taken over as they are.
RestartKeeping ==
  /\ restarts < MaxRestarts
  /\ restarts' = restarts + 1
  /\ mark' = file.mark
  /\ receipt' = file.receipt
  /\ StateWritten
  /\ stored' = {}
  /\ runner' = None
  /\ phase' = "none"
  /\ fp' = None
  /\ selected' = {}
  /\ clean' = FALSE
  /\ wpc' = "watch"
  /\ candidate' = None
  /\ epc' = [e \in Editors |-> "idle"]
  /\ efp' = [e \in Editors |-> None]
  /\ UNCHANGED worldVars

\* The manager dies and is started again from its state file:
\* normalized_upload_history makes "processing" receipts "queued"; threads and
\* tokens are gone.
Restart ==
  /\ restarts < MaxRestarts
  /\ restarts' = restarts + 1
  /\ mark' = file.mark
  /\ receipt' = [u \in Uploads |-> IF file.receipt[u] = "processing"
                                  THEN "queued" ELSE file.receipt[u]]
  /\ StateWritten
  /\ stored' = {}
  /\ runner' = None
  /\ phase' = "none"
  /\ fp' = None
  /\ selected' = {}
  /\ clean' = FALSE
  /\ wpc' = "watch"
  /\ candidate' = None
  /\ epc' = [e \in Editors |-> "idle"]
  /\ efp' = [e \in Editors |-> None]
  /\ UNCHANGED worldVars

RunStep ==
  \/ Begin
  \/ \E free \in BOOLEAN : TakeLock(free)
  \/ \E rejected \in SUBSET Files : Scan(rejected)
  \/ \E settled \in SUBSET Files : \E failures \in SUBSET settled :
        \E placed \in SUBSET failures : \E checks \in BOOLEAN :
           Work(settled, failures, placed, checks)
  \/ RunRaises
  \/ Settle
  \/ GiveUp
  \/ Close
  \/ Release

EditorStep(e) == Correct(e) \/ AskRebuild(e) \/ EditorTries(e)

Next ==
  \/ \E f \in Drops : StartCopy(f) \/ FinishCopy(f)
  \/ \E u \in Uploads : Store(u) \/ Record(u)
  \/ RunStep
  \/ Look
  \/ WatcherTries
  \/ \E e \in Editors : EditorStep(e)
  \/ Restart

Spec == Init /\ [][Next]_vars

\* Threads that can go on do, and a copy that has begun ends.  Of the attempts
\* made, not all find the lock taken, reject every file or fail the checks.
GoodScan == Scan({})
GoodWork ==
  LET pending == {f \in Files : src[f] = "pending"}
  IN  \E failures \in SUBSET pending : \E placed \in SUBSET failures :
        Work(pending, failures, placed, TRUE)

Fairness ==
  /\ WF_vars(RunStep)
  /\ WF_vars(Look)
  /\ WF_vars(WatcherTries)
  /\ \A e \in Editors : WF_vars(AskRebuild(e) \/ EditorTries(e))
  /\ \A u \in Uploads : WF_vars(Record(u))
  /\ \A f \in Drops : WF_vars(FinishCopy(f))
  /\ SF_vars(TakeLock(TRUE))
  /\ SF_vars(GoodScan)
  /\ SF_vars(GoodWork)

FairSpec == Spec /\ Fairness

-----------------------------------------------------------------------------
(* Safety.                                                                 *)

Published(f) == site # None /\ f \in site.files

\* The success mark is what stops the watcher, so when a run sets it it must not
\* cover a file the site lacks: every file it lists whole is published by then,
\* or was refused by ingest, or its processing has failed for good, whatever
\* arrived while the run was under way.
MarkIsEarned ==
  [][mark' \notin {mark, file.mark, None} =>
       \A f \in Files : mark'[f] = "whole" =>
         Published(f)' \/ src'[f] \in {"rejected", "failed"}]_vars

\* A receipt says "completed" only while the site has the document to open,
\* whatever became of runs, writes and managers since.
ReceiptsAreBacked ==
  \A u \in Uploads : receipt[u] = "completed" => Published(u)

\* A receipt in "processing" belongs to an attempt under way that will settle it:
\* no attempt and no death leaves one there for good.  A state file that cannot
\* be written does; then the exception has ended the attempt before its work.
ProcessingIsSettled ==
  ~StateWritesFail =>
    \A u \in Uploads :
      receipt[u] = "processing" =>
        u \in selected /\ phase \in {"lock", "scan", "work", "settle", "settle again"}

\* No file and no correction that is with the readers is taken from them, by a
\* later run, an error or a restart.
SiteGoesForward ==
  [][/\ \A f \in Files : Published(f) => Published(f)'
     /\ site # None => site' # None /\ site'.corr >= site.corr]_vars

\* A receipt that says "completed" goes on saying it; only a death can take
\* that back, when the state file could not be written.
CompletedIsFinal ==
  [][\A u \in Uploads :
       receipt[u] = "completed" => receipt'[u] = "completed" \/ file.receipt[u] # "completed"]_vars

\* A file is copied to its end before it is read: half a copy is never made a
\* source.
WholeFilesOnly == torn = {}

-----------------------------------------------------------------------------
(* Liveness.                                                               *)

\* A file that is new in the inbox gets to the readers, unless it is refused or
\* its processing fails.
FilesReachTheSite ==
  \A f \in Files :
    inbox[f] = "whole" /\ src[f] = "none"
      ~> Published(f) \/ src[f] \in {"rejected", "failed"}

Shows(n) == site # None /\ site.corr >= n

\* A correction whose request for a rebuild is on record before any run has
\* got as far as its result is shown in the end.
AskedRebuildHappens ==
  \A n \in 1 .. MaxCorrections :
    corr = n /\ mark = None /\ phase \in {"none", "begin", "lock"} ~> Shows(n)

\* Every correction is shown in the end: when a run is under way the rebuild
\* stays marked and follows by itself.
CorrectionsAreShown == \A n \in 1 .. MaxCorrections : corr = n ~> Shows(n)

\* A receipt that is queued while the inbox differs from the last success is
\* taken up.
QueuedIsTakenUp ==
  \A u \in Uploads :
    receipt[u] = "queued" /\ mark # inbox /\ phase = "none" ~> receipt[u] # "queued"

\* Every recorded upload gets from queued to a result.
UploadsSettle ==
  \A u \in Uploads :
    receipt[u] = "queued" ~> receipt[u] \in {"completed", "failed", "isolated"}
=============================================================================
