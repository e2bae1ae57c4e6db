--------------------------- MODULE JobQueueProofs ---------------------------
(***************************************************************************)
(* Proofs about the job table, for any finite set of sources, any number   *)
(* of attempts, any backoff and any run length.                            *)
(***************************************************************************)
EXTENDS JobQueue, FiniteSetTheorems, TLAPS

\* Ids are handed out in increasing order.
IdsGiven == \A j \in Jobs : jobs[j].id <= lastId

\* The strengthening that is inductive: the claim, the attempt counters and
\* the numbering of rows hold each other up.
QueueInv == QueueTypeOK /\ ClaimHeld /\ AttemptBudget /\ StageOrder /\ IdsGiven

-----------------------------------------------------------------------------
\* The job enqueue_job inserts is one of the same source, one stage on.
LEMMA NextJobFacts ==
  ASSUME NEW j \in Jobs, HasNextStage(j)
  PROVE  NextJob(j) \in Jobs /\ NextJob(j) # j /\ NextJob(j)[1] = j[1]
         /\ j[2] \in {"extract", "enrich"} /\ NextJob(j)[2] # "extract"
  BY DEF Jobs, Stages, HasNextStage, NextJob, NextStage

\* An inserted or requeued row is a row.
LEMMA FreshIsRow == ASSUME NEW id \in Nat PROVE Fresh(id) \in Row
  BY DEF Fresh, Row, Statuses

\* recover_stale_jobs leaves rows rows, present, numbered and tried as often.
LEMMA RecoveredIsRow ==
  ASSUME NEW row \in Row
  PROVE  /\ Recovered(row) \in Row
         /\ Recovered(row).id = row.id
         /\ Recovered(row).attempts = row.attempts
         /\ \/ Recovered(row) = row
            \/ row.status = "running" /\ Recovered(row).status = "retry"
  BY DEF Recovered, Row, Statuses

\* Time changes the clocks of a row and nothing else.
LEMMA AgedIsRow ==
  ASSUME NEW row \in Row
  PROVE  /\ Aged(row) \in Row
         /\ Aged(row).id = row.id
         /\ Aged(row).attempts = row.attempts
         /\ Aged(row).status = row.status
<1> DEFINE w == IF row.wait = 0 THEN 0 ELSE row.wait - 1
           a == IF row.status = "running" /\ row.age < StaleAfter
                THEN row.age + 1 ELSE row.age
<1>1. w \in Nat /\ a \in Nat
  BY DEF Row
<1>2. Aged(row) = [row EXCEPT !.wait = w, !.age = a]
  BY Zenon DEF Aged
<1> HIDE DEF w, a
<1>3. QED
  BY <1>1, <1>2 DEF Row

\* fail_job leaves a row that is failed or waits for a retry.
LEMMA FailedIsRow ==
  ASSUME NEW row \in Row, row.attempts \in 1 .. MaxAttempts
  PROVE  /\ FailedRow(row) \in Row
         /\ FailedRow(row).id = row.id
         /\ FailedRow(row).attempts = row.attempts
         /\ FailedRow(row).status \in {"retry", "failed"}
         /\ FailedRow(row).status = "failed" => row.attempts >= MaxAttempts
  BY BackoffAssumption, QueueAssumption DEF FailedRow, Row, Statuses

\* The rows a taxonomy change requeues are finitely many.
LEMMA NewRowsFinite ==
  ASSUME NEW affected \in SUBSET Sources, NEW new,
         new \in SUBSET (affected \X {"enrich", "index"})
  PROVE  Cardinality(new) \in Nat
<1>1. IsFiniteSet(affected)
  BY FS_Subset, QueueAssumption
<1>2. IsFiniteSet({"enrich", "index"})
  <2>1. IsFiniteSet({"enrich"})
    BY FS_Singleton
  <2>2. {"enrich", "index"} = {"enrich"} \cup {"index"}
    OBVIOUS
  <2>3. QED
    BY <2>1, <2>2, FS_AddElement
<1>3. IsFiniteSet(affected \X {"enrich", "index"})
  BY <1>1, <1>2, FS_Product
<1>4. QED
  BY <1>3, FS_Subset, FS_CardinalityType

-----------------------------------------------------------------------------
\* An empty table satisfies the invariant.
LEMMA InitInv == QueueInit => QueueInv
<1> SUFFICES ASSUME QueueInit PROVE QueueInv
  OBVIOUS
<1>1. NoRow \in Row /\ NoRow.status = "absent" /\ NoRow.id = 0 /\ NoRow.attempts = 0
  BY DEF NoRow, Row, Statuses
<1>2. \A j \in Jobs : jobs[j] = NoRow
  BY DEF QueueInit
<1>3. QueueTypeOK
  BY <1>1, QueueAssumption DEF QueueInit, QueueTypeOK
<1>4. ClaimHeld /\ AttemptBudget /\ IdsGiven
  BY <1>1, <1>2, QueueAssumption
     DEF QueueInit, ClaimHeld, Working, AttemptBudget, IdsGiven
<1>5. StageOrder
  BY <1>1, <1>2, NextJobFacts
     DEF StageOrder, Present, HasNextStage, Jobs, Stages
<1>6. QED
  BY <1>3, <1>4, <1>5 DEF QueueInv

\* A step that creates no row and renumbers none keeps the numbering.
LEMMA NumberingKept ==
  ASSUME QueueInv, lastId' = lastId,
         \A j \in Jobs : jobs'[j].id = jobs[j].id /\ (Present(j)' <=> Present(j))
  PROVE  StageOrder' /\ IdsGiven'
<1>1. \A s \in Sources, g \in {"extract", "enrich"} :
        <<s, g>> \in Jobs /\ NextJob(<<s, g>>) \in Jobs
  BY NextJobFacts DEF Jobs, Stages, HasNextStage
<1>2. QED
  BY <1>1 DEF QueueInv, StageOrder, IdsGiven, Present, NextJob

\* A step that creates one row under the next id, in stage order, keeps the
\* numbering.
LEMMA NumberingExtended ==
  ASSUME QueueInv, NEW n \in Jobs, ~Present(n), lastId' = lastId + 1,
         jobs' = [jobs EXCEPT ![n] = Fresh(lastId + 1)],
         \A j \in Jobs : HasNextStage(j) /\ NextJob(j) = n => Present(j),
         HasNextStage(n) => ~Present(NextJob(n))
  PROVE  StageOrder' /\ IdsGiven'
<1> USE DEF QueueInv
<1>1. jobs'[n].id = lastId + 1 /\ Present(n)'
  BY DEF QueueTypeOK, Fresh, Present
<1>2. \A j \in Jobs : j # n => jobs'[j] = jobs[j] /\ (Present(j)' <=> Present(j))
  BY DEF QueueTypeOK, Present
<1>3. \A j \in Jobs : jobs[j].id \in Nat /\ jobs[j].id <= lastId /\ lastId \in Nat
  BY DEF QueueTypeOK, Row, IdsGiven
<1>4. IdsGiven'
  BY <1>1, <1>2, <1>3 DEF IdsGiven
<1>5. ASSUME NEW j \in Jobs, NEW k \in Jobs, Present(j)', Present(k)',
             jobs'[j].id = jobs'[k].id
      PROVE  j = k
  BY <1>1, <1>2, <1>3, <1>5 DEF StageOrder
<1>6. ASSUME NEW s \in Sources, NEW g \in {"extract", "enrich"},
             Present(NextJob(<<s, g>>))'
      PROVE  Present(<<s, g>>)' /\ jobs'[<<s, g>>].id < jobs'[NextJob(<<s, g>>)].id
  <2> DEFINE j == <<s, g>>
  <2>1. j \in Jobs /\ HasNextStage(j) /\ NextJob(j) \in Jobs /\ NextJob(j) # j
    BY NextJobFacts DEF Jobs, Stages, HasNextStage
  <2>2. CASE NextJob(j) = n
    BY <1>1, <1>2, <1>3, <2>1, <2>2
  <2>3. CASE NextJob(j) # n
    <3>1. Present(NextJob(j))
      BY <1>2, <1>6, <2>1, <2>3
    <3>2. Present(j) /\ jobs[j].id < jobs[NextJob(j)].id
      BY <3>1 DEF StageOrder
    <3>3. j # n
      BY <3>1, <2>1
    <3>4. QED
      BY <1>2, <2>1, <2>3, <3>2, <3>3
  <2>4. QED
    BY <2>2, <2>3
<1>7. \A s \in Sources, g \in {"extract", "enrich"} :
        Present(NextJob(<<s, g>>))'
          => Present(<<s, g>>)' /\ jobs'[<<s, g>>].id < jobs'[NextJob(<<s, g>>)].id
  BY <1>6
<1>8. QED
  BY <1>4, <1>5, <1>7 DEF StageOrder, NextJob

-----------------------------------------------------------------------------
\* insert_source keeps it: the new extract row gets an unused id.
LEMMA InsertStep ==
  ASSUME QueueInv, NEW s \in Sources, InsertSource(s)
  PROVE  QueueInv'
<1> DEFINE n == <<s, "extract">>
<1> USE DEF QueueInv, InsertSource
<1>1. n \in Jobs /\ lastId + 1 \in Nat /\ Fresh(lastId + 1) \in Row
  BY FreshIsRow DEF QueueTypeOK, Jobs, Stages
<1>2. QueueTypeOK'
  BY <1>1 DEF QueueTypeOK
<1>3. ClaimHeld'
  BY DEF ClaimHeld, Working
<1>4. AttemptBudget'
  BY <1>1, QueueAssumption DEF AttemptBudget, QueueTypeOK, Fresh
<1>5. \A j \in Jobs : HasNextStage(j) => NextJob(j) # n
  BY NextJobFacts
<1>6. HasNextStage(n) => ~Present(NextJob(n))
  BY <1>1 DEF StageOrder
<1>7. StageOrder' /\ IdsGiven'
  BY <1>1, <1>5, <1>6, NumberingExtended
<1>8. QED
  BY <1>2, <1>3, <1>4, <1>7

\* The requeueing of sync_taxonomy keeps it: rows that exist keep their ids,
\* so enrich still precedes index, and fresh rows are numbered above all.
LEMMA ResyncStep ==
  ASSUME QueueInv, NEW affected \in SUBSET Sources, ResyncJobs(affected)
  PROVE  QueueInv'
<1> DEFINE new == {j \in affected \X {"enrich", "index"} : ~Present(j)}
           c == Cardinality(new)
<1> USE DEF QueueInv
<1>1. new \subseteq Jobs /\ c \in Nat
  BY NewRowsFinite DEF Jobs, Stages
<1>2. PICK newIds \in [new -> lastId + 1 .. lastId + c] :
        /\ \A i, j \in new : newIds[i] = newIds[j] => i = j
        /\ jobs' = Requeued(affected, newIds)
  BY DEF ResyncJobs
<1>3. lastId' = lastId + c /\ UNCHANGED <<pc, cur, claimed>> /\ pc = "idle"
  BY DEF ResyncJobs
<1>4. \A j \in Jobs : jobs[j] \in Row /\ jobs[j].id <= lastId
  BY DEF QueueTypeOK, IdsGiven
<1>5. lastId \in Nat
  BY DEF QueueTypeOK
<1> HIDE DEF c
<1>6. \A j \in new : newIds[j] \in Nat /\ newIds[j] > lastId /\ newIds[j] <= lastId + c
  BY <1>1, <1>2, <1>5
<1>7. \A j \in Jobs : j[1] \in affected /\ j[2] # "extract" /\ ~Present(j) => j \in new
  BY DEF Jobs, Stages
<1> HIDE DEF new
<1>8. ASSUME NEW j \in Jobs
      PROVE  \/ /\ j[1] \in affected /\ j[2] # "extract"
                /\ Present(j)
                /\ jobs'[j] = Fresh(jobs[j].id)
             \/ /\ j[1] \in affected /\ j[2] # "extract"
                /\ ~Present(j) /\ j \in new
                /\ jobs'[j] = Fresh(newIds[j])
             \/ /\ ~(j[1] \in affected /\ j[2] # "extract")
                /\ jobs'[j] = jobs[j]
  BY <1>2, <1>7 DEF Requeued
<1>9. ASSUME NEW j \in Jobs
      PROVE  /\ jobs'[j] \in Row
             /\ jobs'[j].id <= lastId + c
             /\ \/ jobs'[j] = jobs[j]
                \/ jobs'[j].status = "queued" /\ jobs'[j].attempts = 0
             /\ \/ jobs'[j].id = jobs[j].id /\ (Present(j)' <=> Present(j))
                \/ /\ j \in new /\ jobs'[j].id = newIds[j] /\ Present(j)' /\ ~Present(j)
                   /\ j[1] \in affected /\ j[2] # "extract"
  <2>1. jobs[j].id \in Nat
    BY <1>4 DEF Row
  <2>2. CASE Present(j) /\ jobs'[j] = Fresh(jobs[j].id)
    <3>1. jobs'[j] \in Row /\ jobs'[j].id = jobs[j].id /\ jobs'[j].status = "queued"
          /\ jobs'[j].attempts = 0
      BY <2>1, <2>2, FreshIsRow DEF Fresh
    <3>2. jobs[j].id <= lastId + c
      BY <2>1, <1>1, <1>4, <1>5
    <3>3. QED
      BY <2>2, <3>1, <3>2 DEF Present
  <2>3. CASE /\ ~Present(j) /\ j \in new /\ jobs'[j] = Fresh(newIds[j])
             /\ j[1] \in affected /\ j[2] # "extract"
    <3>1. newIds[j] \in Nat /\ newIds[j] <= lastId + c
      BY <2>3, <1>6
    <3>2. jobs'[j] \in Row /\ jobs'[j].id = newIds[j] /\ jobs'[j].status = "queued"
          /\ jobs'[j].attempts = 0
      BY <2>3, <3>1, FreshIsRow DEF Fresh
    <3>3. QED
      BY <2>3, <3>1, <3>2 DEF Present
  <2>4. CASE jobs'[j] = jobs[j]
    BY <2>1, <2>4, <1>1, <1>4, <1>5 DEF Present
  <2>5. QED
    BY <1>8, <2>2, <2>3, <2>4
<1>10. QueueTypeOK'
  <2>1. jobs' \in [Jobs -> Row]
    BY <1>2, <1>9 DEF Requeued
  <2>2. QED
    BY <2>1, <1>1, <1>3, <1>5 DEF QueueTypeOK
<1>11. ClaimHeld'
  BY <1>3 DEF ClaimHeld, Working
<1>12. AttemptBudget'
  BY <1>9, QueueAssumption DEF AttemptBudget
<1>13. IdsGiven'
  BY <1>3, <1>9 DEF IdsGiven
<1>14. ASSUME NEW j \in Jobs, NEW k \in Jobs, Present(j)', Present(k)',
              jobs'[j].id = jobs'[k].id
       PROVE  j = k
  <2>1. jobs[j].id \in Nat /\ jobs[k].id \in Nat
    BY <1>4 DEF Row
  <2>2. CASE Present(j) /\ Present(k)
    BY <2>2, <1>9, <1>14 DEF StageOrder
  <2>3. CASE ~Present(j) /\ ~Present(k)
    BY <2>3, <1>2, <1>9, <1>14
  <2>4. CASE Present(j) /\ ~Present(k)
    BY <2>1, <2>4, <1>4, <1>5, <1>6, <1>9, <1>14
  <2>5. CASE ~Present(j) /\ Present(k)
    BY <2>1, <2>5, <1>4, <1>5, <1>6, <1>9, <1>14
  <2>6. QED
    BY <2>2, <2>3, <2>4, <2>5
<1>15. ASSUME NEW s \in Sources, NEW g \in {"extract", "enrich"},
              Present(NextJob(<<s, g>>))'
       PROVE  Present(<<s, g>>)' /\ jobs'[<<s, g>>].id < jobs'[NextJob(<<s, g>>)].id
  <2> DEFINE j == <<s, g>>
             k == NextJob(j)
  <2>1. j \in Jobs /\ HasNextStage(j) /\ k \in Jobs /\ k[1] = s /\ j[1] = s
    BY NextJobFacts DEF Jobs, Stages, HasNextStage
  <2>2. jobs[j].id \in Nat /\ jobs[k].id \in Nat
    BY <1>4, <2>1 DEF Row
  <2>3. CASE Present(k)
    <3>1. Present(j) /\ jobs[j].id < jobs[k].id
      BY <2>3, <2>1 DEF StageOrder
    <3>2. QED
      BY <3>1, <2>1, <2>3, <1>9
  <2>4. CASE ~Present(k)
    <3>1. k \in new /\ jobs'[k].id = newIds[k] /\ s \in affected
      BY <2>1, <2>4, <1>9, <1>15
    <3>2. Present(<<s, "enrich">>) /\ <<s, "enrich">> \in Jobs
      BY <3>1, <1>3 DEF ResyncJobs, Jobs, Stages
    <3>3. g = "enrich"
      <4>1. CASE g = "extract"
        BY <4>1, <2>4, <3>2 DEF NextJob, NextStage
      <4>2. QED
        BY <4>1
    <3>4. Present(j) /\ Present(j)' /\ jobs'[j].id = jobs[j].id
      BY <3>2, <3>3, <1>9
    <3>5. QED
      BY <3>1, <3>4, <2>1, <2>2, <1>4, <1>5, <1>6
  <2>5. QED
    BY <2>3, <2>4
<1>16. \A s \in Sources, g \in {"extract", "enrich"} :
        Present(NextJob(<<s, g>>))'
          => Present(<<s, g>>)' /\ jobs'[<<s, g>>].id < jobs'[NextJob(<<s, g>>)].id
  BY <1>15
<1>17. StageOrder'
  BY <1>14, <1>16 DEF StageOrder, NextJob
<1>18. QED
  BY <1>10, <1>11, <1>12, <1>13, <1>17

\* recover_stale_jobs keeps it: no worker holds a row at that moment.
LEMMA StartRunStep ==
  ASSUME QueueInv, StartRun
  PROVE  QueueInv'
<1> USE DEF QueueInv
<1>1. ASSUME NEW j \in Jobs
      PROVE  /\ jobs'[j] \in Row
             /\ jobs'[j].id = jobs[j].id
             /\ jobs'[j].attempts = jobs[j].attempts
             /\ \/ jobs'[j] = jobs[j]
                \/ jobs[j].status = "running" /\ jobs'[j].status = "retry"
  BY RecoveredIsRow DEF StartRun, QueueTypeOK
<1>2. QueueTypeOK'
  BY <1>1 DEF StartRun, QueueTypeOK
<1>3. ClaimHeld'
  BY DEF StartRun, ClaimHeld, Working
<1>4. AttemptBudget'
  BY <1>1 DEF AttemptBudget
<1>5. StageOrder' /\ IdsGiven'
  <2>1. \A j \in Jobs : jobs'[j].id = jobs[j].id /\ (Present(j)' <=> Present(j))
    BY <1>1 DEF Present
  <2>2. QED
    BY <2>1, NumberingKept DEF StartRun
<1>6. QED
  BY <1>2, <1>3, <1>4, <1>5

\* claim_next_job keeps it, and spends an attempt it was allowed.
LEMMA ClaimStep ==
  ASSUME QueueInv, NEW j \in Jobs, Claim(j)
  PROVE  QueueInv'
<1> USE DEF QueueInv
<1>1. jobs[j] \in Row /\ Claimable(j)
  BY DEF Claim, QueueTypeOK
<1> DEFINE r == [jobs[j] EXCEPT !.status = "running", !.attempts = @ + 1, !.age = 0]
<1>2. /\ jobs' = [jobs EXCEPT ![j] = r]
      /\ jobs'[j] = r
      /\ \A k \in Jobs : k # j => jobs'[k] = jobs[k]
  BY DEF Claim, QueueTypeOK
<1>3. /\ r \in Row /\ r.id = jobs[j].id
      /\ r.status = "running" /\ r.attempts = jobs[j].attempts + 1
  <2>1. PICK row \in Row : row = jobs[j]
    BY <1>1
  <2>2. r = [row EXCEPT !.status = "running", !.attempts = row.attempts + 1, !.age = 0]
    BY <2>1
  <2>3. row.attempts + 1 \in Nat /\ 0 \in Nat /\ "running" \in Statuses
    BY DEF Row, Statuses
  <2>4. QED
    BY <2>1, <2>2, <2>3 DEF Row
<1> HIDE DEF r
<1>4. QueueTypeOK'
  <2>1. jobs' \in [Jobs -> Row]
    BY <1>2, <1>3 DEF QueueTypeOK
  <2>2. claimed' \in 0 .. MaxJobs /\ lastId' = lastId /\ cur' = j /\ pc' = "working"
    BY QueueAssumption DEF Claim, QueueTypeOK
  <2>3. QED
    BY <2>1, <2>2 DEF QueueTypeOK
<1>5. ClaimHeld'
  <2>1. cur' = j /\ jobs'[j].status = "running"
    BY <1>2, <1>3 DEF Claim
  <2>2. QED
    BY <2>1 DEF ClaimHeld
<1>6. AttemptBudget'
  <2>1. jobs[j].attempts \in Nat /\ jobs[j].attempts < MaxAttempts
    BY <1>1 DEF Claimable, Row
  <2>2. jobs'[j].status = "running" /\ jobs'[j].attempts >= 1
        /\ jobs'[j].attempts <= MaxAttempts
    BY <1>2, <1>3, <2>1, QueueAssumption
  <2>3. QED
    BY <1>2, <2>2 DEF AttemptBudget
<1>7. StageOrder' /\ IdsGiven'
  <2>1. \A k \in Jobs : jobs'[k].id = jobs[k].id /\ (Present(k)' <=> Present(k))
    BY <1>1, <1>2, <1>3 DEF Present, Claimable
  <2>2. QED
    BY <2>1, NumberingKept DEF Claim
<1>8. QED
  BY <1>4, <1>5, <1>6, <1>7

\* enqueue_job keeps it, whether the next stage has a row already or not.
LEMMA EnqueueStep ==
  ASSUME QueueInv, EnqueueNext
  PROVE  QueueInv'
<1> DEFINE n == NextJob(cur)
<1> USE DEF QueueInv
<1>1. cur \in Jobs /\ jobs[cur].status = "running" /\ HasNextStage(cur)
  BY DEF EnqueueNext, ClaimHeld, Working
<1>2. n \in Jobs /\ n # cur
  BY <1>1, NextJobFacts
<1>3. pc' = "enqueued" /\ UNCHANGED <<cur, claimed>>
  BY DEF EnqueueNext
<1>4. CASE Present(n)
  <2>1. UNCHANGED <<jobs, lastId>>
    BY <1>4 DEF EnqueueNext
  <2>2. StageOrder' /\ IdsGiven'
    BY <2>1 DEF StageOrder, IdsGiven, Present, NextJob
  <2>3. QED
    BY <1>1, <1>3, <2>1, <2>2
       DEF QueueTypeOK, ClaimHeld, Working, AttemptBudget
<1>5. CASE ~Present(n)
  <2>1. jobs' = [jobs EXCEPT ![n] = Fresh(lastId + 1)] /\ lastId' = lastId + 1
    BY <1>5 DEF EnqueueNext
  <2>2. lastId + 1 \in Nat /\ Fresh(lastId + 1) \in Row
    BY FreshIsRow DEF QueueTypeOK
  <2>3. QueueTypeOK'
    BY <1>2, <1>3, <2>1, <2>2 DEF QueueTypeOK
  <2>4. ClaimHeld'
    BY <1>1, <1>2, <1>3, <2>1 DEF QueueTypeOK, ClaimHeld, Working
  <2>5. AttemptBudget'
    BY <1>2, <2>1, QueueAssumption DEF AttemptBudget, QueueTypeOK, Fresh
  <2>6. \A j \in Jobs : HasNextStage(j) /\ NextJob(j) = n => j = cur
    BY <1>1 DEF HasNextStage, NextJob, NextStage, Jobs, Stages
  <2>7. Present(cur)
    BY <1>1 DEF Present
  <2>8. HasNextStage(n) => ~Present(NextJob(n))
    <3>1. HasNextStage(n) => n = <<n[1], n[2]>> /\ n[1] \in Sources
                             /\ n[2] \in {"extract", "enrich"}
      BY <1>2 DEF Jobs, Stages, HasNextStage
    <3>2. QED
      BY <1>2, <1>5, <3>1 DEF StageOrder
  <2>9. StageOrder' /\ IdsGiven'
    BY <1>2, <1>5, <2>1, <2>6, <2>7, <2>8, NumberingExtended
  <2>10. QED
    BY <2>3, <2>4, <2>5, <2>9
<1>6. QED
  BY <1>4, <1>5

\* finish_job keeps it, for the claimed row is running.
LEMMA FinishStep ==
  ASSUME QueueInv, Finish
  PROVE  QueueInv'
<1> DEFINE r == [jobs[cur] EXCEPT !.status = "done", !.age = 0]
<1> USE DEF QueueInv
<1>1. cur \in Jobs /\ jobs[cur].status = "running" /\ jobs[cur] \in Row
  BY DEF Finish, ClaimHeld, Working, QueueTypeOK
<1>2. /\ jobs' = [jobs EXCEPT ![cur] = r]
      /\ jobs'[cur] = r
      /\ \A k \in Jobs : k # cur => jobs'[k] = jobs[k]
  BY <1>1 DEF Finish, QueueTypeOK
<1>3. /\ r \in Row /\ r.id = jobs[cur].id
      /\ r.status = "done" /\ r.attempts = jobs[cur].attempts
  BY <1>1 DEF Row, Statuses
<1> HIDE DEF r
<1>4. QueueTypeOK'
  BY <1>2, <1>3 DEF Finish, QueueTypeOK
<1>5. ClaimHeld'
  BY DEF Finish, ClaimHeld, Working
<1>6. AttemptBudget'
  BY <1>1, <1>2, <1>3 DEF AttemptBudget
<1>7. StageOrder' /\ IdsGiven'
  <2>1. \A k \in Jobs : jobs'[k].id = jobs[k].id /\ (Present(k)' <=> Present(k))
    BY <1>1, <1>2, <1>3 DEF Present
  <2>2. QED
    BY <2>1, NumberingKept DEF Finish
<1>8. QED
  BY <1>4, <1>5, <1>6, <1>7

\* fail_job keeps it, for the claimed row is running and was tried.
LEMMA FailStep ==
  ASSUME QueueInv, Fail
  PROVE  QueueInv'
<1> DEFINE r == FailedRow(jobs[cur])
<1> USE DEF QueueInv
<1>1. cur \in Jobs /\ jobs[cur].status = "running" /\ jobs[cur] \in Row
  BY DEF Fail, ClaimHeld, Working, QueueTypeOK
<1>2. jobs[cur].attempts \in 1 .. MaxAttempts
  BY <1>1, QueueAssumption DEF AttemptBudget, Row
<1>3. /\ jobs' = [jobs EXCEPT ![cur] = r]
      /\ jobs'[cur] = r
      /\ \A k \in Jobs : k # cur => jobs'[k] = jobs[k]
  BY <1>1 DEF Fail, QueueTypeOK
<1>4. /\ r \in Row /\ r.id = jobs[cur].id /\ r.attempts = jobs[cur].attempts
      /\ r.status \in {"retry", "failed"}
      /\ r.status = "failed" => r.attempts = MaxAttempts
  <2>1. r.status = "failed" => jobs[cur].attempts >= MaxAttempts
    BY <1>1, <1>2, FailedIsRow
  <2>2. QED
    BY <1>1, <1>2, <2>1, FailedIsRow, QueueAssumption
<1> HIDE DEF r
<1>5. QueueTypeOK'
  BY <1>3, <1>4 DEF Fail, QueueTypeOK
<1>6. ClaimHeld'
  BY DEF Fail, ClaimHeld, Working
<1>7. AttemptBudget'
  BY <1>2, <1>3, <1>4, QueueAssumption DEF AttemptBudget
<1>8. StageOrder' /\ IdsGiven'
  <2>1. \A k \in Jobs : jobs'[k].id = jobs[k].id /\ (Present(k)' <=> Present(k))
    BY <1>1, <1>3, <1>4 DEF Present
  <2>2. QED
    BY <2>1, NumberingKept DEF Fail
<1>9. QED
  BY <1>5, <1>6, <1>7, <1>8

\* Time keeps it.
LEMMA TickStep ==
  ASSUME QueueInv, Tick
  PROVE  QueueInv'
<1> USE DEF QueueInv
<1>1. ASSUME NEW j \in Jobs
      PROVE  /\ jobs'[j] \in Row
             /\ jobs'[j].id = jobs[j].id
             /\ jobs'[j].attempts = jobs[j].attempts
             /\ jobs'[j].status = jobs[j].status
  BY AgedIsRow DEF Tick, QueueTypeOK
<1>2. QueueTypeOK'
  BY <1>1 DEF Tick, QueueTypeOK
<1>3. ClaimHeld' /\ AttemptBudget'
  BY <1>1 DEF Tick, ClaimHeld, Working, AttemptBudget
<1>4. StageOrder' /\ IdsGiven'
  <2>1. \A j \in Jobs : jobs'[j].id = jobs[j].id /\ (Present(j)' <=> Present(j))
    BY <1>1 DEF Present
  <2>2. QED
    BY <2>1, NumberingKept DEF Tick
<1>5. QED
  BY <1>2, <1>3, <1>4

\* Steps that leave the table alone and stop the worker.
LEMMA LeaveStep ==
  ASSUME QueueInv, UNCHANGED <<jobs, lastId>>, pc' = "idle",
         cur' \in Jobs \cup {NoJob}, claimed' \in 0 .. MaxJobs
  PROVE  QueueInv'
BY DEF QueueInv, QueueTypeOK, ClaimHeld, Working, AttemptBudget, StageOrder,
       IdsGiven, Present, NextJob

\* Every step of the table keeps the invariant.
LEMMA QueueStep == QueueInv /\ [QueueNext]_queueVars => QueueInv'
<1> SUFFICES ASSUME QueueInv, [QueueNext]_queueVars PROVE QueueInv'
  OBVIOUS
<1>1. ASSUME NEW s \in Sources, InsertSource(s) PROVE QueueInv'
  BY <1>1, InsertStep
<1>2. ASSUME NEW affected \in SUBSET Sources, ResyncJobs(affected) PROVE QueueInv'
  BY <1>2, ResyncStep
<1>3. CASE StartRun
  BY <1>3, StartRunStep
<1>4. ASSUME NEW j \in Jobs, Claim(j) PROVE QueueInv'
  BY <1>4, ClaimStep
<1>5. CASE EndRun
  BY <1>5, LeaveStep, QueueAssumption DEF EndRun, QueueInv, QueueTypeOK
<1>6. CASE EnqueueNext
  BY <1>6, EnqueueStep
<1>7. CASE Finish
  BY <1>7, FinishStep
<1>8. CASE Fail
  BY <1>8, FailStep
<1>9. CASE Crash
  BY <1>9, LeaveStep, QueueAssumption DEF Crash
<1>10. CASE Tick
  BY <1>10, TickStep
<1>11. CASE UNCHANGED queueVars
  BY <1>11 DEF queueVars, QueueInv, QueueTypeOK, ClaimHeld, Working,
               AttemptBudget, StageOrder, IdsGiven, Present, NextJob
<1>12. QED
  BY <1>1, <1>2, <1>3, <1>4, <1>5, <1>6, <1>7, <1>8, <1>9, <1>10, <1>11
     DEF QueueNext, Work

\* So it holds in every reachable state.
LEMMA QueueInvHolds == QueueSpec => []QueueInv
BY InitInv, QueueStep, PTL DEF QueueSpec

-----------------------------------------------------------------------------
\* Every reachable job table is well formed (storage/queue.py).
THEOREM QueueTypeCorrect == QueueSpec => []QueueTypeOK
<1>1. QueueInv => QueueTypeOK
  BY DEF QueueInv
<1>2. QED
  BY <1>1, QueueInvHolds, PTL

\* The unguarded updates of finish_job and fail_job always hit a row that is
\* still running, whatever recoveries and requeues happened before.
THEOREM ClaimIsHeld == QueueSpec => []ClaimHeld
<1>1. QueueInv => ClaimHeld
  BY DEF QueueInv
<1>2. QED
  BY <1>1, QueueInvHolds, PTL

\* No job is ever tried more than max_attempts times in a round, and only an
\* exhausted one is given up.
THEOREM AttemptsAreBudgeted == QueueSpec => []AttemptBudget
<1>1. QueueInv => AttemptBudget
  BY DEF QueueInv
<1>2. QED
  BY <1>1, QueueInvHolds, PTL

\* Lowest-id-first respects the order of the stages of a source.
THEOREM StagesAreOrdered == QueueSpec => []StageOrder
<1>1. QueueInv => StageOrder
  BY DEF QueueInv
<1>2. QED
  BY <1>1, QueueInvHolds, PTL

\* The action property follows from the invariant before the step.
LEMMA SettledStep ==
  ASSUME QueueInv, QueueNext, NEW j \in Jobs, Settled(j),
         jobs'[j].status # jobs[j].status
  PROVE  j[2] # "extract" /\ pc = "idle" /\ jobs'[j].status = "queued"
<1> USE DEF QueueInv
<1>1. jobs[j] \in Row /\ jobs[j].status \in {"done", "failed"}
  BY DEF QueueTypeOK, Settled
<1>2. ASSUME NEW s \in Sources, InsertSource(s) PROVE FALSE
  BY <1>1, <1>2 DEF InsertSource, Present, QueueTypeOK
<1>3. ASSUME NEW affected \in SUBSET Sources, ResyncJobs(affected)
      PROVE  j[2] # "extract" /\ pc = "idle" /\ jobs'[j].status = "queued"
  BY <1>3 DEF ResyncJobs, Requeued, Fresh
<1>4. StartRun => FALSE
  BY <1>1, RecoveredIsRow DEF StartRun, QueueTypeOK
<1>5. ASSUME NEW k \in Jobs, Claim(k) PROVE FALSE
  BY <1>1, <1>5 DEF Claim, Claimable, QueueTypeOK
<1>6. Finish \/ Fail \/ EnqueueNext => cur \in Jobs /\ jobs[cur].status = "running"
  BY DEF Finish, Fail, EnqueueNext, ClaimHeld, Working
<1>7. Finish \/ Fail => FALSE
  BY <1>1, <1>6 DEF Finish, Fail, QueueTypeOK
<1>8. EnqueueNext => FALSE
  BY <1>1, <1>6 DEF EnqueueNext, Present, QueueTypeOK
<1>9. Tick => FALSE
  BY <1>1, AgedIsRow DEF Tick, QueueTypeOK
<1>10. QED
  BY <1>2, <1>3, <1>4, <1>5, <1>7, <1>8, <1>9
     DEF QueueNext, Work, EndRun, Crash

\* A late or recovered worker never reopens a settled job; only a taxonomy
\* change does, and never the extraction.
THEOREM SettledStaysSettled == QueueSpec => ReopenedOnlyFromZero
<1>1. QueueInv /\ [QueueNext]_queueVars
        => [\A j \in Jobs :
              Settled(j) /\ jobs'[j].status # jobs[j].status
                => j[2] # "extract" /\ pc = "idle"
                   /\ jobs'[j].status = "queued"]_queueVars
  BY SettledStep
<1>2. QED
  BY <1>1, QueueInvHolds, PTL DEF QueueSpec, ReopenedOnlyFromZero

=============================================================================
