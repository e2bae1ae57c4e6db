------------------------------ MODULE JobQueue ------------------------------
(***************************************************************************)
(* The durable job table of the pipeline and the one process that works    *)
(* on it: storage/queue.py, the insertions of storage/records.py and       *)
(* storage/taxonomy.py, and the claim loop of processing/runner.py.        *)
(*                                                                         *)
(* Every operation here is one SQLite transaction.  A worker runs only     *)
(* while it holds the project lock, so there is one worker; it may die     *)
(* between any two transactions, and the next run finds whatever rows it   *)
(* left behind.                                                            *)
(*                                                                         *)
(* Time is relative: wait is how many ticks are left until available_at,   *)
(* age how many ticks have passed since updated_at, up to the StaleAfter    *)
(* after which a running row is stale.  Both are kept only while a status  *)
(* that reads them lasts.                                                  *)
(***************************************************************************)
EXTENDS Naturals, FiniteSets

CONSTANTS Sources,      \* the source rows that may be ingested
          MaxAttempts,  \* jobs.max_attempts (runtime pipeline.max_attempts)
          RetryBase,    \* retry_base_seconds, in ticks
          StaleAfter,   \* stale_job_minutes, in ticks
          MaxJobs,      \* max_jobs: claims one process_jobs call may make
          NoJob         \* "claim_next_job returned None"

ASSUME QueueAssumption ==
  /\ IsFiniteSet(Sources)
  /\ MaxAttempts \in Nat \ {0}
  /\ RetryBase \in Nat
  /\ StaleAfter \in Nat \ {0}
  /\ MaxJobs \in Nat

Stages == {"extract", "enrich", "index"}
Jobs == Sources \X Stages

ASSUME NoJobAssumption == NoJob \notin Jobs

\* retry_base_seconds * 2 ** max(0, attempts - 1), for an attempt already made.
Backoff(attempts) == RetryBase * 2^(attempts - 1)

\* Exponentiation of naturals yields naturals; stated because the provers
\* have no theory of ^.
ASSUME BackoffAssumption == \A n \in 1 .. MaxAttempts : Backoff(n) \in Nat

Statuses == {"absent", "queued", "running", "retry", "done", "failed"}

\* One row per (source, stage), the table's UNIQUE key; "absent" is no row.
Row == [status : Statuses, attempts : Nat, id : Nat, wait : Nat, age : Nat]

NoRow == [status |-> "absent", attempts |-> 0, id |-> 0, wait |-> 0, age |-> 0]

VARIABLES jobs,     \* the jobs table
          lastId,   \* last rowid given to a job
          pc,       \* where the process holding the project lock is
          cur,      \* the job it has claimed
          claimed   \* claims made by the current process_jobs call

queueVars == <<jobs, lastId, pc, cur, claimed>>

QueueTypeOK ==
  /\ jobs \in [Jobs -> Row]
  /\ lastId \in Nat
  /\ pc \in {"idle", "loop", "working", "enqueued"}
  /\ cur \in Jobs \cup {NoJob}
  /\ claimed \in 0 .. MaxJobs

Present(j) == jobs[j].status # "absent"
Working == pc \in {"working", "enqueued"}
Pending(j) == jobs[j].status \in {"queued", "running", "retry"}
Settled(j) == jobs[j].status \in {"done", "failed"}

\* Mutant of Claimable: the attempt limit is left to fail_job.
ClaimableWithoutLimit(j) ==
  /\ jobs[j].status \in {"queued", "retry"}
  /\ jobs[j].wait = 0

\* The WHERE clause of claim_next_job.
Claimable(j) ==
  /\ jobs[j].status \in {"queued", "retry"}
  /\ jobs[j].attempts < MaxAttempts
  /\ jobs[j].wait = 0

\* A row no claim will ever select and no code path will ever fail.
Exhausted(j) ==
  /\ jobs[j].status = "retry"
  /\ jobs[j].attempts >= MaxAttempts

Fresh(id) == [status |-> "queued", attempts |-> 0, id |-> id,
              wait |-> 0, age |-> 0]

QueueInit ==
  /\ jobs = [j \in Jobs |-> NoRow]
  /\ lastId = 0
  /\ pc = "idle"
  /\ cur = NoJob
  /\ claimed = 0

-----------------------------------------------------------------------------
(* Insertions: made by a lock holder that is not inside process_jobs.      *)

\* insert_source: a new source row and its extract job in one transaction;
\* a duplicate id or digest inserts nothing.
InsertSource(s) ==
  /\ pc = "idle"
  /\ ~Present(<<s, "extract">>)
  /\ jobs' = [jobs EXCEPT ![<<s, "extract">>] = Fresh(lastId + 1)]
  /\ lastId' = lastId + 1
  /\ UNCHANGED <<pc, cur, claimed>>

\* The tail of sync_taxonomy: for every source that lost a placement to a
\* retired node, enrich and index start over.  An existing row keeps its id;
\* new rows are numbered in some order of the sources.
Requeued(affected, newIds) ==
  [j \in Jobs |->
     IF j[1] \in affected /\ j[2] # "extract"
     THEN Fresh(IF Present(j) THEN jobs[j].id ELSE newIds[j])
     ELSE jobs[j]]

\* Mutant of ResyncJobs: taxonomies are synchronised without the project lock.
ResyncJobsUnlocked(affected) ==
  /\ affected # {}
  /\ \A s \in affected, g \in Stages : Present(<<s, g>>)
  /\ jobs' = Requeued(affected, <<>>)
  /\ UNCHANGED <<lastId, pc, cur, claimed>>

\* Mutant of ResyncJobs: the rows are deleted and inserted again.
ResyncJobsReinserted(affected) ==
  LET rows == affected \X {"enrich", "index"}
      ids == lastId + 1 .. lastId + Cardinality(rows)
  IN  /\ pc = "idle"
      /\ affected # {}
      /\ \A s \in affected : Present(<<s, "enrich">>)
      /\ \E newIds \in [rows -> ids] :
            /\ \A i, j \in rows : newIds[i] = newIds[j] => i = j
            /\ jobs' = [j \in Jobs |-> IF j \in rows THEN Fresh(newIds[j]) ELSE jobs[j]]
      /\ lastId' = lastId + Cardinality(rows)
      /\ UNCHANGED <<pc, cur, claimed>>

ResyncJobs(affected) ==
  LET new == {j \in affected \X {"enrich", "index"} : ~Present(j)}
      ids == lastId + 1 .. lastId + Cardinality(new)
  IN  /\ pc = "idle"
      /\ affected # {}
      /\ \A s \in affected : Present(<<s, "enrich">>)
      /\ \E newIds \in [new -> ids] :
            /\ \A i, j \in new : newIds[i] = newIds[j] => i = j
            /\ jobs' = Requeued(affected, newIds)
      /\ lastId' = lastId + Cardinality(new)
      /\ UNCHANGED <<pc, cur, claimed>>

-----------------------------------------------------------------------------
(* process_jobs.                                                           *)

\* Mutant of Recovered: failed rows are given another chance as well.
RecoveredFailedToo(row) ==
  IF row.status = "failed" \/ (row.status = "running" /\ row.age = StaleAfter)
  THEN [row EXCEPT !.status = "retry", !.wait = 0, !.age = 0]
  ELSE row

\* Mutant of Recovered: the cutoff is never passed.
RecoveredTooLate(row) ==
  IF row.status = "running" /\ row.age > StaleAfter
  THEN [row EXCEPT !.status = "retry", !.wait = 0, !.age = 0]
  ELSE row

\* recover_stale_jobs: rows left running by a dead worker, once older than
\* the cutoff, become claimable again; attempts are not touched.
Recovered(row) ==
  IF row.status = "running" /\ row.age = StaleAfter
  THEN [row EXCEPT !.status = "retry", !.wait = 0, !.age = 0]
  ELSE row

StartRun ==
  /\ pc = "idle"
  /\ pc' = "loop"
  /\ jobs' = [j \in Jobs |-> Recovered(jobs[j])]
  /\ UNCHANGED <<lastId, cur, claimed>>

\* claim_next_job: the claimable row with the lowest id.
Claim(j) ==
  /\ pc = "loop"
  /\ claimed < MaxJobs
  /\ Claimable(j)
  /\ \A k \in Jobs : Claimable(k) => jobs[j].id <= jobs[k].id
  /\ jobs' = [jobs EXCEPT ![j].status = "running",
                          ![j].attempts = @ + 1,
                          ![j].age = 0]
  /\ cur' = j
  /\ pc' = "working"
  /\ claimed' = claimed + 1
  /\ UNCHANGED lastId

EndRun ==
  /\ pc = "loop"
  /\ claimed = MaxJobs \/ \A j \in Jobs : ~Claimable(j)
  /\ pc' = "idle"
  /\ claimed' = 0
  /\ UNCHANGED <<jobs, lastId, cur>>

NextStage == [extract |-> "enrich", enrich |-> "index"]
HasNextStage(j) == j[2] \in {"extract", "enrich"}
NextJob(j) == <<j[1], NextStage[j[2]]>>

\* enqueue_job, the last transaction of _process_extract and _process_enrich:
\* INSERT OR IGNORE, so a row of an earlier round is left as it is.
EnqueueNext ==
  /\ pc = "working"
  /\ HasNextStage(cur)
  /\ IF Present(NextJob(cur))
     THEN UNCHANGED <<jobs, lastId>>
     ELSE /\ jobs' = [jobs EXCEPT ![NextJob(cur)] = Fresh(lastId + 1)]
          /\ lastId' = lastId + 1
  /\ pc' = "enqueued"
  /\ UNCHANGED <<cur, claimed>>

\* finish_job: an UPDATE by id that does not look at the row's status.
Finish ==
  /\ \/ pc = "enqueued"
     \/ pc = "working" /\ ~HasNextStage(cur)
  /\ jobs' = [jobs EXCEPT ![cur].status = "done", ![cur].age = 0]
  /\ pc' = "loop"
  /\ cur' = NoJob
  /\ UNCHANGED <<lastId, claimed>>

\* fail_job: the stage, or finish_job itself, raised.
FailedRow(row) ==
  IF row.attempts >= MaxAttempts
  THEN [row EXCEPT !.status = "failed", !.age = 0]
  ELSE [row EXCEPT !.status = "retry", !.age = 0, !.wait = Backoff(row.attempts)]

Fail ==
  /\ Working
  /\ jobs' = [jobs EXCEPT ![cur] = FailedRow(jobs[cur])]
  /\ pc' = "loop"
  /\ cur' = NoJob
  /\ UNCHANGED <<lastId, claimed>>

\* The process dies; only the table survives.
Crash ==
  /\ pc # "idle"
  /\ pc' = "idle"
  /\ cur' = NoJob
  /\ claimed' = 0
  /\ UNCHANGED <<jobs, lastId>>

-----------------------------------------------------------------------------
Aged(row) ==
  [row EXCEPT !.wait = IF row.wait = 0 THEN 0 ELSE row.wait - 1,
              !.age = IF row.status = "running" /\ row.age < StaleAfter
                      THEN row.age + 1 ELSE row.age]

Tick ==
  /\ \E j \in Jobs : Aged(jobs[j]) # jobs[j]
  /\ jobs' = [j \in Jobs |-> Aged(jobs[j])]
  /\ UNCHANGED <<lastId, pc, cur, claimed>>

Work == EnqueueNext \/ Finish \/ Fail

QueueNext ==
  \/ \E s \in Sources : InsertSource(s)
  \/ \E affected \in SUBSET Sources : ResyncJobs(affected)
  \/ StartRun
  \/ \E j \in Jobs : Claim(j)
  \/ EndRun
  \/ Work
  \/ Crash
  \/ Tick

QueueSpec == QueueInit /\ [][QueueNext]_queueVars

\* The manager starts another run while rows are pending, a live worker goes
\* on, and time passes.  Nothing obliges a crash, a taxonomy edit or an
\* upload to happen; that they stop is an assumption of the properties below.
QueueFairness ==
  /\ WF_queueVars(StartRun)
  /\ WF_queueVars(\E j \in Jobs : Claim(j))
  /\ WF_queueVars(EndRun)
  /\ WF_queueVars(Work)
  /\ WF_queueVars(Tick)

FairQueueSpec == QueueSpec /\ QueueFairness

-----------------------------------------------------------------------------
(* Safety.                                                                 *)

\* What the process believes it is working on is what the table says: the
\* claimed row stays running until the process itself finishes or fails it.
\* finish_job and fail_job update by id alone and rely on this.
ClaimHeld == Working => cur \in Jobs /\ jobs[cur].status = "running"

\* The attempt counter tells the history of a row whatever crashes and
\* requeues it went through: a queued row was never tried in this round, a
\* row that is running or waiting to be retried was, a row is only given up
\* after all its attempts, and no row is ever tried more often than that.
AttemptBudget ==
  \A j \in Jobs :
    /\ jobs[j].attempts <= MaxAttempts
    /\ jobs[j].status = "queued" => jobs[j].attempts = 0
    /\ jobs[j].status \in {"running", "retry", "done"} => jobs[j].attempts >= 1
    /\ jobs[j].status = "failed" => jobs[j].attempts = MaxAttempts

\* The claim loop prefers the lowest id, which is only right because a
\* source's rows are numbered in stage order and no two rows share an id:
\* when several stages of a source are due, the earlier stage goes first.
StageOrder ==
  /\ \A j, k \in Jobs : Present(j) /\ Present(k) /\ jobs[j].id = jobs[k].id => j = k
  /\ \A s \in Sources, g \in {"extract", "enrich"} :
        LET j == <<s, g>> IN
        Present(NextJob(j)) => Present(j) /\ jobs[j].id < jobs[NextJob(j)].id

\* A settled row is only reopened by a taxonomy change, which starts it from
\* zero attempts and never touches extraction; a worker (a late one, a
\* recovered one, one that enqueues the next stage again) never does.
ReopenedOnlyFromZero ==
  [][\A j \in Jobs :
        Settled(j) /\ jobs'[j].status # jobs[j].status
          => j[2] # "extract" /\ pc = "idle" /\ jobs'[j].status = "queued"]_queueVars

-----------------------------------------------------------------------------
(* Liveness.                                                               *)

\* From some point on no process dies with work left to claim or to finish
\* (dying when nothing is left looks like returning), and no node that holds
\* documents is retired.
Quiet ==
  <>[][/\ Crash => EndRun
       /\ \A a \in SUBSET Sources : ~ResyncJobs(a)]_queueVars

\* Once processes stop dying and the taxonomy stops changing, every pending
\* row is eventually done or failed, or is one whose last attempt died.
EveryJobSettlesOrExhausts ==
  Quiet => \A j \in Jobs : Pending(j) ~> Settled(j) \/ Exhausted(j)

\* Once processes stop dying and the taxonomy stops changing, every pending
\* row is eventually done or failed: an interrupted job goes on, and one that
\* keeps failing leaves the queue.
EveryJobSettles ==
  Quiet => \A j \in Jobs : Pending(j) ~> Settled(j)

=============================================================================
