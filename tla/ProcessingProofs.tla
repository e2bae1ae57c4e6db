-------------------------- MODULE ProcessingProofs --------------------------
(***************************************************************************)
(* Proofs about the stages: they implement the job table, so its theorems  *)
(* hold of them, and they keep placements, the search index and the source *)
(* status in step, for any sources, cards and taxonomy.                    *)
(***************************************************************************)
EXTENDS Processing, JobQueueProofs

\* The inductive invariant about the data, beside QueueInv about the table.
DataInv ==
  /\ DataTypeOK
  /\ Uncertain \in active
  /\ PlacedOnActiveNode
  /\ IndexedIsPlaced
  /\ StatusTellsTheTruth
  /\ CompletedIsCurrent
  /\ StageProgress

\* What every step of the proof knows.
Known == DataInv /\ QueueInv /\ QueueInv'

-----------------------------------------------------------------------------
(* The stages implement the job table.                                     *)

\* Every step of a stage or of another lock holder is a step of the table or
\* leaves the table alone.
LEMMA QueueStepOfNext == [Next]_vars => [QueueNext]_queueVars
<1> SUFFICES ASSUME [Next]_vars PROVE [QueueNext]_queueVars
  OBVIOUS
<1> USE DEF QueueNext
<1>1. CASE \E s \in Sources : Ingest(s)
  BY <1>1 DEF Ingest
<1>2. CASE \E kept \in {k \in SUBSET Nodes : Uncertain \in k} : SyncTaxonomy(kept)
  <2>1. PICK kept \in SUBSET Nodes : SyncTaxonomy(kept)
    BY <1>2
  <2> DEFINE affected ==
        {DocSource[d] : d \in {e \in Docs : place[e] # None /\ place[e] \notin kept}}
  <2>2. affected \in SUBSET Sources
    BY ProcessingAssumption
  <2>3. UNCHANGED queueVars \/ ResyncJobs(affected)
    BY <2>1 DEF SyncTaxonomy
  <2>4. QED
    BY <2>2, <2>3
<1>3. CASE \E d \in Docs, target \in Nodes, expected \in Nodes \cup {None} :
              Correct(d, target, expected)
  BY <1>3 DEF Correct
<1>4. CASE RunBoundary
  BY <1>4 DEF RunBoundary
<1>5. CASE \E j \in Jobs : ClaimStage(j)
  BY <1>5 DEF ClaimStage
<1>6. CASE StageStep
  BY <1>6 DEF StageStep, ReplaceDocuments, ReadDocuments, EnrichDocument,
     PlaceDocument, IndexDocument, MarkSource, CompleteStage, FailStage, Work
<1>7. CASE Environment
  BY <1>7 DEF Environment
<1>8. CASE UNCHANGED vars
  BY <1>8 DEF vars
<1>9. QED
  BY <1>1, <1>2, <1>3, <1>4, <1>5, <1>6, <1>7, <1>8 DEF Next

\* The actions of Processing conjoin those of JobQueue or leave the table alone,
\* so that what is proved of JobQueue may be cited here.
LEMMA ProcessingKeepsQueue == Spec => QueueSpec
<1>1. Init => QueueInit
  BY DEF Init
<1>2. QED
  BY <1>1, QueueStepOfNext, PTL DEF Spec, QueueSpec

\* So the attempt counter keeps its budget through crashes in the middle of a
\* stage, taxonomy edits and corrections.
THEOREM StagesKeepAttemptBudget == Spec => []AttemptBudget
  BY ProcessingKeepsQueue, AttemptsAreBudgeted, PTL

-----------------------------------------------------------------------------
(* What the queue actions do not do.                                       *)

\* Only finish_job makes a row done.
LEMMA OnlyFinishDoes ==
  ASSUME QueueTypeOK, ClaimHeld, NEW j \in Jobs, jobs'[j].status = "done",
         \/ \E s \in Sources : InsertSource(s)
         \/ \E affected \in SUBSET Sources : ResyncJobs(affected)
         \/ StartRun
         \/ \E k \in Jobs : Claim(k)
         \/ EndRun
         \/ EnqueueNext
         \/ Fail
         \/ Crash
         \/ Tick
         \/ UNCHANGED queueVars
  PROVE  jobs[j].status = "done"
<1>1. jobs[j] \in Row /\ jobs \in [Jobs -> Row]
  BY DEF QueueTypeOK
<1>2. CASE \E s \in Sources : InsertSource(s)
  BY <1>1, <1>2 DEF InsertSource, Fresh, Jobs, Stages
<1>3. CASE \E affected \in SUBSET Sources : ResyncJobs(affected)
  BY <1>1, <1>3 DEF ResyncJobs, Requeued, Fresh
<1>4. CASE StartRun
  BY <1>1, <1>4, RecoveredIsRow DEF StartRun
<1>5. CASE \E k \in Jobs : Claim(k)
  <2>1. PICK k \in Jobs : Claim(k)
    BY <1>5
  <2> DEFINE r == [jobs[k] EXCEPT !.status = "running", !.attempts = @ + 1, !.age = 0]
  <2>2. r.status = "running"
    BY <1>1 DEF Row
  <2>3. jobs' = [jobs EXCEPT ![k] = r]
    BY <1>1, <2>1 DEF Claim
  <2> HIDE DEF r
  <2>4. QED
    BY <1>1, <2>2, <2>3
<1>6. CASE EnqueueNext
  BY <1>1, <1>6 DEF EnqueueNext, Fresh
<1>7. CASE Fail
  <2>1. cur \in Jobs /\ jobs[cur] \in Row /\ FailedRow(jobs[cur]).status # "done"
    BY <1>1, <1>7 DEF Fail, ClaimHeld, FailedRow, Row
  <2>2. QED
    BY <1>1, <1>7, <2>1 DEF Fail
<1>8. CASE Tick
  BY <1>1, <1>8, AgedIsRow DEF Tick
<1>9. CASE EndRun \/ Crash \/ UNCHANGED queueVars
  BY <1>9 DEF EndRun, Crash, queueVars
<1>10. QED
  BY <1>2, <1>3, <1>4, <1>5, <1>6, <1>7, <1>8, <1>9

\* A job is a stage of a source.
LEMMA ClaimedJob ==
  ASSUME QueueInv, Working
  PROVE  /\ cur \in Jobs /\ Src \in Sources /\ cur[2] \in Stages
         /\ cur = <<Src, cur[2]>>
         /\ jobs[cur].status = "running"
  BY DEF QueueInv, ClaimHeld, Jobs, Src

\* While a stage has documents left, the next one is among them.
LEMMA NextDocIsLeft == ASSUME todo # {} PROVE NextDoc \in todo
  BY DEF NextDoc

\* What index_document writes is an index entry.
LEMMA EntryIsEntry ==
  ASSUME NEW d, NEW node \in Nodes
  PROVE  Entry(d, node) \in IndexEntry /\ Entry(d, node) # None
<1> DEFINE b == doc[d] = "enriched"
<1>1. b \in BOOLEAN
  BY Zenon
<1>2. Entry(d, node) = [node |-> node, enriched |-> b]
  BY DEF Entry
<1> HIDE DEF b
<1>3. Entry(d, node) \in IndexEntry
  BY <1>1, <1>2 DEF IndexEntry
<1>4. QED
  BY <1>3, ProcessingAssumption DEF IndexEntry

-----------------------------------------------------------------------------
(* Every action keeps DataInv.                                             *)

\* The empty knowledge base satisfies the invariant.
LEMMA DataInit == Init => DataInv
<1> SUFFICES ASSUME Init PROVE DataInv
  OBVIOUS
<1>1. DataTypeOK /\ Uncertain \in active
  BY ProcessingAssumption DEF Init, DataTypeOK
<1>2. PlacedOnActiveNode /\ IndexedIsPlaced /\ StatusTellsTheTruth
      /\ CompletedIsCurrent
  BY DEF Init, PlacedOnActiveNode, IndexedIsPlaced, StatusTellsTheTruth,
         CompletedIsCurrent
<1>3. StageProgress
  BY DEF Init, QueueInit, StageProgress
<1>4. QED
  BY <1>1, <1>2, <1>3 DEF DataInv

\* A step that leaves the data alone, finishes no enrichment and keeps or
\* clears the locals of the stage.
LEMMA DataKept ==
  ASSUME Known, UNCHANGED dataVars,
         \A j \in Jobs : jobs'[j].status = "done" => jobs[j].status = "done",
         \/ StageLeft /\ pc' # "enqueued"
         \/ UNCHANGED <<stageVars, pc, cur>>
         \/ step = "start" /\ UNCHANGED stageVars /\ pc' # "enqueued"
         \/ step = "staged" /\ UNCHANGED <<stageVars, cur>> /\ Working'
  PROVE  DataInv'
<1>1. DataTypeOK' /\ (Uncertain \in active)' /\ PlacedOnActiveNode'
      /\ IndexedIsPlaced' /\ StatusTellsTheTruth'
  BY DEF Known, DataInv, dataVars, stageVars, StageLeft, DataTypeOK,
         PlacedOnActiveNode, IndexedIsPlaced, StatusTellsTheTruth
<1>2. CompletedIsCurrent'
  BY ProcessingAssumption
     DEF Known, DataInv, dataVars, CompletedIsCurrent, Entry, Jobs, Stages
<1>3. StageProgress'
  BY DEF Known, DataInv, dataVars, stageVars, StageLeft, StageProgress,
         Working, Extracted, DocsOf, Src, Entry, NextDoc
<1>4. QED
  BY <1>1, <1>2, <1>3 DEF DataInv

\* A new source has no cards yet, so it may say anything but is "queued".
LEMMA IngestStep == ASSUME Known, NEW s \in Sources, Ingest(s) PROVE DataInv'
<1> USE DEF Known, DataInv
<1>1. \A j \in Jobs : jobs'[j].status = "done" => jobs[j].status = "done"
  BY OnlyFinishDoes DEF Ingest, QueueInv
<1>2. srcStatus' \in [Sources -> {"absent", "queued", "normalized", "classified",
                                   "completed", "retry", "failed"}]
      /\ srcStatus'[s] = "queued" /\ \A x \in Sources : x # s => srcStatus'[x] = srcStatus[x]
  BY DEF Ingest, DataTypeOK
<1>3. DataTypeOK' /\ (Uncertain \in active)' /\ PlacedOnActiveNode' /\ IndexedIsPlaced'
  BY <1>2 DEF Ingest, stageVars, DataTypeOK, PlacedOnActiveNode, IndexedIsPlaced
<1>4. StatusTellsTheTruth'
  BY <1>2, ProcessingAssumption DEF Ingest, StatusTellsTheTruth
<1>5. CompletedIsCurrent'
  BY <1>1, <1>2, ProcessingAssumption
     DEF Ingest, CompletedIsCurrent, Entry, Jobs, Stages
<1>6. StageProgress'
  BY DEF Ingest, InsertSource, stageVars, StageProgress, Working
<1>7. QED
  BY <1>3, <1>4, <1>5, <1>6

\* A taxonomy edit moves the cards of retired nodes and takes back the word
\* of every source it touches.
LEMMA SyncStep ==
  ASSUME Known, NEW kept \in SUBSET Nodes, Uncertain \in kept, SyncTaxonomy(kept)
  PROVE  DataInv'
<1> USE DEF Known, DataInv
<1> DEFINE orphaned == {d \in Docs : place[d] # None /\ place[d] \notin kept}
           affected == {DocSource[d] : d \in orphaned}
<1>1. /\ pc = "idle" /\ active' = kept
      /\ place' = [d \in Docs |-> IF d \in orphaned THEN Uncertain ELSE place[d]]
      /\ fts' = [d \in Docs |-> IF d \in orphaned THEN None ELSE fts[d]]
      /\ srcStatus' = [s \in Sources |->
                         IF s \in affected THEN "queued" ELSE srcStatus[s]]
      /\ UNCHANGED <<doc, stageVars>>
      /\ UNCHANGED queueVars \/ ResyncJobs(affected)
  BY DEF SyncTaxonomy
<1>2. affected \in SUBSET Sources /\ \A d \in orphaned : DocSource[d] \in affected
  BY ProcessingAssumption
<1>3. \A j \in Jobs : jobs'[j].status = "done" => jobs[j].status = "done"
  BY <1>1, <1>2, OnlyFinishDoes DEF QueueInv
<1>4. pc' = "idle"
  BY <1>1 DEF queueVars, ResyncJobs
<1>5. \A d \in Docs :
        \/ d \in orphaned /\ place'[d] = Uncertain /\ fts'[d] = None
        \/ d \notin orphaned /\ place'[d] = place[d] /\ fts'[d] = fts[d]
  BY <1>1
<1> HIDE DEF affected
<1>6. DataTypeOK' /\ (Uncertain \in active)'
  <2>1. place' \in [Docs -> Nodes \cup {None}]
    BY <1>1, ProcessingAssumption DEF DataTypeOK
  <2>2. fts' \in [Docs -> IndexEntry \cup {None}]
    BY <1>1 DEF DataTypeOK
  <2>3. srcStatus' \in [Sources -> {"absent", "queued", "normalized", "classified",
                                     "completed", "retry", "failed"}]
    BY <1>1 DEF DataTypeOK
  <2>4. QED
    BY <1>1, <2>1, <2>2, <2>3 DEF DataTypeOK, stageVars
<1>7. PlacedOnActiveNode'
  BY <1>1, <1>5 DEF PlacedOnActiveNode
<1>8. IndexedIsPlaced'
  BY <1>1, <1>5, ProcessingAssumption DEF IndexedIsPlaced
<1>9. \A d \in Docs :
        srcStatus'[DocSource[d]] # "queued" =>
          srcStatus'[DocSource[d]] = srcStatus[DocSource[d]] /\ d \notin orphaned
  BY <1>1, <1>2, ProcessingAssumption
<1>10. StatusTellsTheTruth'
  BY <1>1, <1>5, <1>9 DEF StatusTellsTheTruth
<1>11. CompletedIsCurrent'
  <2>1. \A d \in Docs : <<DocSource[d], "enrich">> \in Jobs
    BY ProcessingAssumption DEF Jobs, Stages
  <2>2. \A d \in Docs : Entry(d, place[d])' = Entry(d, place'[d])
    BY <1>1 DEF Entry
  <2>3. QED
    BY <1>1, <1>3, <1>5, <1>9, <2>1, <2>2 DEF CompletedIsCurrent
<1>12. StageProgress'
  BY <1>1, <1>4 DEF StageProgress, Working, stageVars
<1>13. QED
  BY <1>6, <1>7, <1>8, <1>10, <1>11, <1>12

\* A correction moves placement and index entry together.
LEMMA CorrectStep ==
  ASSUME Known, NEW d \in Docs, NEW target \in Nodes,
         NEW expected \in Nodes \cup {None}, Correct(d, target, expected)
  PROVE  DataInv'
<1> USE DEF Known, DataInv
<1>1. /\ place' = [place EXCEPT ![d] = target]
      /\ fts' = [fts EXCEPT ![d] = Entry(d, target)]
      /\ place[d] # None /\ target \in active /\ target # None
      /\ UNCHANGED <<queueVars, active, srcStatus, doc, stageVars>>
  BY ProcessingAssumption DEF Correct
<1>2. Entry(d, target) \in IndexEntry /\ Entry(d, target) # None
  BY EntryIsEntry
<1>3. /\ place'[d] = target /\ fts'[d] = Entry(d, target)
      /\ \A e \in Docs : e # d => place'[e] = place[e] /\ fts'[e] = fts[e]
  BY <1>1 DEF DataTypeOK
<1>4. DataTypeOK' /\ (Uncertain \in active)'
  BY <1>1, <1>2 DEF DataTypeOK, stageVars
<1>5. PlacedOnActiveNode' /\ IndexedIsPlaced'
  BY <1>1, <1>3 DEF PlacedOnActiveNode, IndexedIsPlaced
<1>6. StatusTellsTheTruth'
  BY <1>1, <1>2, <1>3 DEF StatusTellsTheTruth
<1>7. CompletedIsCurrent'
  BY <1>1, <1>3 DEF CompletedIsCurrent, Entry, queueVars
<1>8. StageProgress'
  BY <1>1 DEF Correct, StageProgress, Working, queueVars, stageVars
<1>9. QED
  BY <1>4, <1>5, <1>6, <1>7, <1>8

\* Extraction takes the source's word back and deletes a stale card whole.
LEMMA ReplaceStep ==
  ASSUME Known, NEW cards \in SUBSET Docs, ReplaceDocuments(cards)
  PROVE  DataInv'
<1> USE DEF Known, DataInv
<1> DEFINE stale == DocsOf(Src) \ cards
<1>1. /\ pc = "working" /\ cur[2] = "extract"
      /\ cards \subseteq DocsOf(Src)
      /\ doc' = [d \in Docs |-> IF d \in cards THEN "bare"
                                ELSE IF d \in stale THEN "absent" ELSE doc[d]]
      /\ place' = [d \in Docs |-> IF d \in stale THEN None ELSE place[d]]
      /\ fts' = [d \in Docs |-> IF d \in stale THEN None ELSE fts[d]]
      /\ srcStatus' = [srcStatus EXCEPT ![Src] = "normalized"]
      /\ step' = "staged"
      /\ UNCHANGED <<queueVars, active, todo>>
  BY DEF ReplaceDocuments, In
<1>2. Src \in Sources
  BY <1>1, ClaimedJob DEF Working
<1>3. \A d \in Docs :
        \/ DocSource[d] = Src /\ doc'[d] = "bare" /\ place'[d] = place[d]
           /\ fts'[d] = fts[d]
        \/ DocSource[d] = Src /\ doc'[d] = "absent" /\ place'[d] = None
           /\ fts'[d] = None
        \/ DocSource[d] # Src /\ doc'[d] = doc[d] /\ place'[d] = place[d]
           /\ fts'[d] = fts[d]
  BY <1>1 DEF DocsOf
<1>4. srcStatus'[Src] = "normalized"
      /\ \A s \in Sources : s # Src => srcStatus'[s] = srcStatus[s]
  BY <1>1, <1>2 DEF DataTypeOK
<1>5. DataTypeOK' /\ (Uncertain \in active)'
  <2>1. doc' \in [Docs -> {"absent", "bare", "enriched"}]
    BY <1>1 DEF DataTypeOK
  <2>2. place' \in [Docs -> Nodes \cup {None}]
    BY <1>1 DEF DataTypeOK
  <2>3. fts' \in [Docs -> IndexEntry \cup {None}]
    BY <1>1 DEF DataTypeOK
  <2>4. QED
    BY <1>1, <2>1, <2>2, <2>3 DEF DataTypeOK
<1>6. PlacedOnActiveNode' /\ IndexedIsPlaced'
  BY <1>1, <1>3 DEF PlacedOnActiveNode, IndexedIsPlaced
<1>7. StatusTellsTheTruth'
  BY <1>3, <1>4, ProcessingAssumption DEF StatusTellsTheTruth
<1>8. CompletedIsCurrent'
  <2> SUFFICES ASSUME NEW d \in Docs, doc'[d] # "absent",
                      srcStatus'[DocSource[d]] = "completed",
                      jobs'[<<DocSource[d], "enrich">>].status = "done"
               PROVE  fts'[d] = Entry(d, place[d])'
    BY DEF CompletedIsCurrent
  <2>1. DocSource[d] # Src /\ srcStatus[DocSource[d]] = "completed"
    BY <1>4, ProcessingAssumption
  <2>2. doc'[d] = doc[d] /\ place'[d] = place[d] /\ fts'[d] = fts[d] /\ jobs' = jobs
    BY <1>1, <1>3, <2>1 DEF queueVars
  <2>3. QED
    BY <2>1, <2>2 DEF CompletedIsCurrent, Entry
<1>9. StageProgress'
  BY <1>1 DEF StageProgress, Working, queueVars
<1>10. QED
  BY <1>5, <1>6, <1>7, <1>8, <1>9

\* A stage that has read its documents has handled none of them.
LEMMA ReadStep == ASSUME Known, ReadDocuments PROVE DataInv'
<1> USE DEF Known, DataInv
<1>1. /\ Working /\ pc = "working" /\ step' = "each" /\ todo' = Extracted(Src)
      /\ cur[2] \in {"enrich", "index"}
      /\ UNCHANGED <<queueVars, dataVars>>
  BY DEF ReadDocuments, In, Working
<1>2. DataTypeOK' /\ (Uncertain \in active)' /\ PlacedOnActiveNode'
      /\ IndexedIsPlaced' /\ StatusTellsTheTruth'
  BY <1>1 DEF dataVars, DataTypeOK, PlacedOnActiveNode, IndexedIsPlaced,
              StatusTellsTheTruth, Extracted, DocsOf
<1>3. CompletedIsCurrent'
  BY <1>1 DEF dataVars, queueVars, CompletedIsCurrent, Entry
<1>4. StageProgress'
  BY <1>1 DEF StageProgress, Working, queueVars, dataVars, Extracted, DocsOf, Src
<1>5. QED
  BY <1>2, <1>3, <1>4

\* While a source is being enriched its enrich row is not done, so nothing is
\* promised about its index entries.
LEMMA EnrichStep == ASSUME Known, EnrichDocument PROVE DataInv'
<1> USE DEF Known, DataInv
<1> DEFINE n == NextDoc
<1>1. /\ Working /\ pc = "working" /\ cur[2] = "enrich" /\ step = "each" /\ n \in todo
      /\ doc' = [doc EXCEPT ![n] = "enriched"]
      /\ step' = "place"
      /\ UNCHANGED <<queueVars, active, srcStatus, place, fts, todo>>
  BY NextDocIsLeft DEF EnrichDocument, In, Working
<1>2. n \in Docs /\ DocSource[n] = Src /\ doc[n] # "absent" /\ NextDoc' = n
  BY <1>1 DEF StageProgress, Extracted, DocsOf, NextDoc
<1> HIDE DEF n
<1>3. jobs[<<Src, "enrich">>].status = "running"
  BY <1>1, ClaimedJob
<1>4. doc'[n] = "enriched" /\ \A d \in Docs : d # n => doc'[d] = doc[d]
  BY <1>1, <1>2 DEF DataTypeOK
<1>5. DataTypeOK' /\ (Uncertain \in active)'
  BY <1>1, <1>2 DEF DataTypeOK
<1>6. PlacedOnActiveNode' /\ IndexedIsPlaced' /\ StatusTellsTheTruth'
  BY <1>1, <1>2, <1>4 DEF PlacedOnActiveNode, IndexedIsPlaced, StatusTellsTheTruth
<1>7. CompletedIsCurrent'
  <2> SUFFICES ASSUME NEW d \in Docs, doc'[d] # "absent",
                      srcStatus'[DocSource[d]] = "completed",
                      jobs'[<<DocSource[d], "enrich">>].status = "done"
               PROVE  fts'[d] = Entry(d, place[d])'
    BY DEF CompletedIsCurrent
  <2>1. d # n /\ jobs' = jobs
    BY <1>1, <1>2, <1>3 DEF queueVars
  <2>2. doc'[d] = doc[d]
    BY <1>4, <2>1
  <2>3. QED
    BY <1>1, <2>1, <2>2 DEF CompletedIsCurrent, Entry
<1>8. StageProgress'
  <2>1. Extracted(Src)' = Extracted(Src) /\ Src' = Src /\ cur' = cur /\ pc' = pc
    BY <1>1, <1>2, <1>4 DEF Extracted, DocsOf, Src, queueVars
  <2>2. \A d \in Extracted(Src) \ todo : place[d] # None /\ doc[d] = "enriched"
    BY <1>1 DEF StageProgress
  <2>3. \A d \in Extracted(Src) \ todo : doc'[d] = "enriched"
    BY <1>1, <1>4, <2>2 DEF Extracted, DocsOf
  <2>4. Working' /\ doc'[NextDoc'] = "enriched" /\ todo \subseteq Extracted(Src)
    BY <1>1, <1>2, <1>4, <2>1 DEF Working, StageProgress
  <2>5. QED
    BY <1>1, <2>1, <2>2, <2>3, <2>4 DEF StageProgress
<1>9. QED
  BY <1>5, <1>6, <1>7, <1>8

\* A classified card lands on an active node and is then behind the stage.
LEMMA PlaceStep ==
  ASSUME Known, NEW node \in Nodes, PlaceDocument(node) PROVE DataInv'
<1> USE DEF Known, DataInv
<1> DEFINE n == NextDoc
<1>1. /\ Working /\ pc = "working" /\ cur[2] = "enrich" /\ step = "place"
      /\ node \in active /\ node # None
      /\ place' = [place EXCEPT ![n] = node]
      /\ todo' = todo \ {n}
      /\ step' = "each"
      /\ UNCHANGED <<queueVars, active, srcStatus, doc, fts>>
  BY ProcessingAssumption DEF PlaceDocument, In, Working
<1>2. n \in todo /\ n \in Docs /\ DocSource[n] = Src /\ doc[n] = "enriched"
  BY <1>1, NextDocIsLeft DEF StageProgress, Extracted, DocsOf
<1> HIDE DEF n
<1>3. jobs[<<Src, "enrich">>].status = "running"
  BY <1>1, ClaimedJob
<1>4. place'[n] = node /\ \A d \in Docs : d # n => place'[d] = place[d]
  BY <1>1, <1>2 DEF DataTypeOK
<1>5. DataTypeOK' /\ (Uncertain \in active)'
  BY <1>1, <1>2 DEF DataTypeOK
<1>6. PlacedOnActiveNode' /\ IndexedIsPlaced' /\ StatusTellsTheTruth'
  BY <1>1, <1>2, <1>4 DEF PlacedOnActiveNode, IndexedIsPlaced, StatusTellsTheTruth
<1>7. CompletedIsCurrent'
  <2> SUFFICES ASSUME NEW d \in Docs, doc'[d] # "absent",
                      srcStatus'[DocSource[d]] = "completed",
                      jobs'[<<DocSource[d], "enrich">>].status = "done"
               PROVE  fts'[d] = Entry(d, place[d])'
    BY DEF CompletedIsCurrent
  <2>1. d # n /\ jobs' = jobs
    BY <1>1, <1>2, <1>3 DEF queueVars
  <2>2. place'[d] = place[d]
    BY <1>4, <2>1
  <2>3. QED
    BY <1>1, <2>1, <2>2 DEF CompletedIsCurrent, Entry
<1>8. StageProgress'
  <2>1. Extracted(Src)' = Extracted(Src) /\ Src' = Src /\ cur' = cur /\ pc' = pc
    BY <1>1 DEF Extracted, DocsOf, Src, queueVars
  <2>2. \A d \in Extracted(Src) \ todo : place[d] # None /\ doc[d] = "enriched"
    BY <1>1 DEF StageProgress
  <2>3. \A d \in Extracted(Src) \ todo' : place'[d] # None /\ doc'[d] = "enriched"
    BY <1>1, <1>2, <1>4, <2>2 DEF Extracted, DocsOf
  <2>4. Working' /\ todo' \subseteq Extracted(Src)
    BY <1>1, <2>1 DEF Working, StageProgress
  <2>5. QED
    BY <1>1, <2>1, <2>3, <2>4 DEF StageProgress
<1>9. QED
  BY <1>5, <1>6, <1>7, <1>8

\* An indexed card is current and is then behind the stage.
LEMMA IndexStep == ASSUME Known, IndexDocument PROVE DataInv'
<1> USE DEF Known, DataInv
<1> DEFINE n == NextDoc
           e == Entry(n, place[n])
<1>1. /\ Working /\ pc = "working" /\ cur[2] = "index" /\ step = "each" /\ n \in todo
      /\ place[n] # None
      /\ fts' = [fts EXCEPT ![n] = e]
      /\ todo' = todo \ {n}
      /\ UNCHANGED <<queueVars, active, srcStatus, doc, place, step>>
  BY NextDocIsLeft DEF IndexDocument, In, Working
<1>2. n \in Docs /\ place[n] \in Nodes
  BY <1>1 DEF DataTypeOK
<1> HIDE DEF n
<1>3. e \in IndexEntry /\ e # None
  BY <1>2, EntryIsEntry
<1>4. \A d \in Docs, x \in Nodes \cup {None} : Entry(d, x)' = Entry(d, x')
  BY <1>1 DEF Entry
<1>5. fts'[n] = e /\ \A d \in Docs : d # n => fts'[d] = fts[d]
  BY <1>1, <1>2 DEF DataTypeOK
<1>6. DataTypeOK' /\ (Uncertain \in active)'
  BY <1>1, <1>2, <1>3 DEF DataTypeOK
<1>7. PlacedOnActiveNode' /\ IndexedIsPlaced' /\ StatusTellsTheTruth'
  BY <1>1, <1>2, <1>3, <1>5
     DEF PlacedOnActiveNode, IndexedIsPlaced, StatusTellsTheTruth
<1>8. CompletedIsCurrent'
  BY <1>1, <1>5 DEF CompletedIsCurrent, Entry, queueVars
<1>9. StageProgress'
  <2>1. Extracted(Src)' = Extracted(Src) /\ Src' = Src /\ cur' = cur /\ pc' = pc
    BY <1>1 DEF Extracted, DocsOf, Src, queueVars
  <2>2. \A d \in Extracted(Src) \ todo : place[d] # None /\ fts[d] = Entry(d, place[d])
    BY <1>1 DEF StageProgress
  <2>3. \A d \in Extracted(Src) \ todo' :
          place'[d] # None /\ fts'[d] = Entry(d, place[d])'
    BY <1>1, <1>5, <2>2 DEF Extracted, DocsOf, Entry
  <2>4. Working' /\ todo' \subseteq Extracted(Src)
    BY <1>1, <2>1 DEF Working, StageProgress
  <2>5. QED
    BY <1>1, <2>1, <2>3, <2>4 DEF StageProgress
<1>10. QED
  BY <1>6, <1>7, <1>8, <1>9

\* The word is given when every document has been handled.
LEMMA MarkStep == ASSUME Known, MarkSource PROVE DataInv'
<1> USE DEF Known, DataInv
<1> DEFINE word == IF cur[2] = "enrich" THEN "classified" ELSE "completed"
<1>1. /\ Working /\ pc = "working" /\ step = "each" /\ todo = {}
      /\ cur[2] \in {"enrich", "index"}
      /\ srcStatus' = [srcStatus EXCEPT ![Src] = word]
      /\ step' = "staged"
      /\ UNCHANGED <<queueVars, active, doc, place, fts, todo>>
  BY DEF MarkSource, In, Working
<1>2. Src \in Sources /\ jobs[<<Src, cur[2]>>].status = "running"
  BY <1>1, ClaimedJob
<1>3. srcStatus'[Src] = word
      /\ \A s \in Sources : s # Src => srcStatus'[s] = srcStatus[s]
  BY <1>1, <1>2 DEF DataTypeOK
<1>4. \A d \in Extracted(Src) :
        /\ place[d] # None
        /\ cur[2] = "enrich" => doc[d] = "enriched"
        /\ cur[2] = "index" => fts[d] = Entry(d, place[d])
  BY <1>1 DEF StageProgress
<1>5. \A d \in Docs : place[d] # None => Entry(d, place[d]) # None
  BY EntryIsEntry DEF DataTypeOK
<1>6. DataTypeOK' /\ (Uncertain \in active)'
  BY <1>1, <1>2 DEF DataTypeOK
<1>7. PlacedOnActiveNode' /\ IndexedIsPlaced'
  BY <1>1 DEF PlacedOnActiveNode, IndexedIsPlaced
<1>8. StatusTellsTheTruth'
  BY <1>1, <1>3, <1>4, <1>5, ProcessingAssumption
     DEF StatusTellsTheTruth, Extracted, DocsOf
<1>9. CompletedIsCurrent'
  <2> SUFFICES ASSUME NEW d \in Docs, doc'[d] # "absent",
                      srcStatus'[DocSource[d]] = "completed",
                      jobs'[<<DocSource[d], "enrich">>].status = "done"
               PROVE  fts'[d] = Entry(d, place[d])'
    BY DEF CompletedIsCurrent
  <2>1. doc' = doc /\ place' = place /\ fts' = fts /\ jobs' = jobs
    BY <1>1 DEF queueVars
  <2>2. CASE DocSource[d] = Src
    BY <1>1, <1>3, <1>4, <2>1, <2>2 DEF Extracted, DocsOf, Entry
  <2>3. CASE DocSource[d] # Src
    BY <1>3, <2>1, <2>3, ProcessingAssumption DEF CompletedIsCurrent, Entry
  <2>4. QED
    BY <2>2, <2>3
<1>10. StageProgress'
  BY <1>1, <1>3 DEF StageProgress, Working, queueVars, Src
<1>11. QED
  BY <1>6, <1>7, <1>8, <1>9, <1>10

\* finish_job is the one step after which more must be current; the stage has
\* said "classified" by then, not "completed".
LEMMA CompleteStep == ASSUME Known, CompleteStage PROVE DataInv'
<1> USE DEF Known, DataInv
<1>1. CASE EnqueueNext /\ UNCHANGED stageVars
  <2>1. \A j \in Jobs : jobs'[j].status = "done" => jobs[j].status = "done"
    BY <1>1, OnlyFinishDoes DEF QueueInv
  <2>2. Working' /\ cur' = cur /\ UNCHANGED dataVars /\ step = "staged"
    BY <1>1 DEF CompleteStage, EnqueueNext, Working
  <2>3. QED
    BY <1>1, <2>1, <2>2, DataKept
<1>2. CASE Finish /\ StageLeft
  <2>1. Working /\ step = "staged" /\ pc' = "loop" /\ UNCHANGED dataVars
    BY <1>2 DEF CompleteStage, Finish, Working
  <2>2. \A j \in Jobs : j # cur => jobs'[j] = jobs[j]
    BY <1>2 DEF Finish, QueueInv, QueueTypeOK
  <2>3. DataTypeOK' /\ (Uncertain \in active)' /\ PlacedOnActiveNode'
        /\ IndexedIsPlaced' /\ StatusTellsTheTruth'
    BY <1>2, <2>1 DEF dataVars, StageLeft, DataTypeOK, PlacedOnActiveNode,
                      IndexedIsPlaced, StatusTellsTheTruth
  <2>4. CompletedIsCurrent'
    <3> SUFFICES ASSUME NEW d \in Docs, doc'[d] # "absent",
                        srcStatus'[DocSource[d]] = "completed",
                        jobs'[<<DocSource[d], "enrich">>].status = "done"
                 PROVE  fts'[d] = Entry(d, place[d])'
      BY DEF CompletedIsCurrent
    <3>1. doc' = doc /\ place' = place /\ fts' = fts /\ srcStatus' = srcStatus
      BY <2>1 DEF dataVars
    <3>2. cur # <<DocSource[d], "enrich">>
      <4>1. SUFFICES ASSUME cur = <<DocSource[d], "enrich">> PROVE FALSE
        OBVIOUS
      <4>2. srcStatus[DocSource[d]] = "classified"
        BY <2>1, <4>1 DEF StageProgress, Src
      <4>3. QED
        BY <3>1, <4>2
    <3>3. <<DocSource[d], "enrich">> \in Jobs
      BY ProcessingAssumption DEF Jobs, Stages
    <3>4. jobs[<<DocSource[d], "enrich">>].status = "done"
      BY <2>2, <3>2, <3>3
    <3>5. QED
      BY <3>1, <3>4 DEF CompletedIsCurrent, Entry
  <2>5. StageProgress'
    BY <1>2, <2>1 DEF StageProgress, StageLeft
  <2>6. QED
    BY <2>3, <2>4, <2>5
<1>3. QED
  BY <1>1, <1>2 DEF CompleteStage

\* A failed stage takes back the word of its source; the one index entry it may
\* have lost is that source's.
LEMMA FailStageStep == ASSUME Known, FailStage PROVE DataInv'
<1> USE DEF Known, DataInv
<1>1. /\ Fail /\ Working /\ pc' = "loop" /\ StageLeft
      /\ srcStatus' = [srcStatus EXCEPT ![Src] = FailedRow(jobs[cur]).status]
      /\ UNCHANGED <<active, doc, place>>
  BY DEF FailStage, Fail
<1>2. Src \in Sources /\ cur \in Jobs
  BY <1>1, ClaimedJob
<1>3. FailedRow(jobs[cur]).status \in {"retry", "failed"}
  BY <1>2 DEF QueueInv, QueueTypeOK, Row, FailedRow
<1>4. srcStatus'[Src] \in {"retry", "failed"}
      /\ \A s \in Sources : s # Src => srcStatus'[s] = srcStatus[s]
  BY <1>1, <1>2, <1>3 DEF DataTypeOK
<1>5. /\ fts' \in [Docs -> IndexEntry \cup {None}]
      /\ \A d \in Docs : \/ fts'[d] = fts[d]
                         \/ DocSource[d] = Src /\ fts'[d] = None
  <2>1. CASE fts' = fts
    BY <2>1 DEF DataTypeOK
  <2>2. CASE /\ In("index") /\ step = "each" /\ todo # {}
             /\ fts' = [fts EXCEPT ![NextDoc] = None]
    <3>1. NextDoc \in Docs /\ DocSource[NextDoc] = Src
      BY <2>2, NextDocIsLeft DEF In, StageProgress, Extracted, DocsOf
    <3>2. QED
      BY <2>2, <3>1 DEF DataTypeOK
  <2>3. QED
    BY <2>1, <2>2 DEF FailStage, Uncommitted
<1>6. DataTypeOK' /\ (Uncertain \in active)' /\ PlacedOnActiveNode' /\ IndexedIsPlaced'
  BY <1>1, <1>2, <1>3, <1>5
     DEF DataTypeOK, StageLeft, PlacedOnActiveNode, IndexedIsPlaced
<1>7. StatusTellsTheTruth'
  BY <1>1, <1>4, <1>5, ProcessingAssumption DEF StatusTellsTheTruth
<1>8. CompletedIsCurrent'
  <2> SUFFICES ASSUME NEW d \in Docs, doc'[d] # "absent",
                      srcStatus'[DocSource[d]] = "completed",
                      jobs'[<<DocSource[d], "enrich">>].status = "done"
               PROVE  fts'[d] = Entry(d, place[d])'
    BY DEF CompletedIsCurrent
  <2>1. <<DocSource[d], "enrich">> \in Jobs
    BY ProcessingAssumption DEF Jobs, Stages
  <2>2. jobs[<<DocSource[d], "enrich">>].status = "done"
    BY <1>1, <2>1, OnlyFinishDoes DEF QueueInv
  <2>3. srcStatus[DocSource[d]] = "completed" /\ DocSource[d] # Src
    BY <1>4, ProcessingAssumption
  <2>4. fts'[d] = fts[d]
    BY <1>5, <2>3
  <2>5. QED
    BY <1>1, <2>2, <2>3, <2>4 DEF CompletedIsCurrent, Entry
<1>9. StageProgress'
  BY <1>1 DEF StageProgress, StageLeft
<1>10. QED
  BY <1>6, <1>7, <1>8, <1>9

\* The steps that only concern the table: claims, run boundaries, time and
\* the death of the process.
LEMMA TableStep ==
  ASSUME Known, RunBoundary \/ (\E j \in Jobs : ClaimStage(j)) \/ Environment
  PROVE  DataInv'
<1>1. \A j \in Jobs : jobs'[j].status = "done" => jobs[j].status = "done"
  BY OnlyFinishDoes DEF Known, QueueInv, RunBoundary, ClaimStage, Environment
<1>2. UNCHANGED dataVars
  BY DEF RunBoundary, ClaimStage, Environment
<1>3. CASE RunBoundary \/ (\E j \in Jobs : ClaimStage(j))
  <2>1. ~Working /\ pc' # "enqueued" /\ UNCHANGED stageVars
    BY <1>3 DEF RunBoundary, ClaimStage, StartRun, EndRun, Claim, Working
  <2>2. step = "start"
    BY <2>1 DEF Known, DataInv, StageProgress, DataTypeOK
  <2>3. QED
    BY <1>1, <1>2, <2>1, <2>2, DataKept
<1>4. CASE Environment
  BY <1>1, <1>2, <1>4, DataKept DEF Environment, Crash, Tick
<1>5. QED
  BY <1>3, <1>4

\* Every step keeps the invariant.
LEMMA DataStep == DataInv /\ QueueInv /\ QueueInv' /\ [Next]_vars => DataInv'
<1> SUFFICES ASSUME Known, [Next]_vars PROVE DataInv'
  BY DEF Known
<1>1. CASE \E s \in Sources : Ingest(s)
  BY <1>1, IngestStep
<1>2. CASE \E kept \in {k \in SUBSET Nodes : Uncertain \in k} : SyncTaxonomy(kept)
  BY <1>2, SyncStep
<1>3. CASE \E d \in Docs, target \in Nodes, expected \in Nodes \cup {None} :
              Correct(d, target, expected)
  BY <1>3, CorrectStep
<1>4. CASE RunBoundary \/ (\E j \in Jobs : ClaimStage(j)) \/ Environment
  BY <1>4, TableStep
<1>5. CASE StageStep
  BY <1>5, ReplaceStep, ReadStep, EnrichStep, PlaceStep, IndexStep, MarkStep,
     CompleteStep, FailStageStep DEF StageStep
<1>6. CASE UNCHANGED vars
  BY <1>6, DataKept DEF vars, queueVars
<1>7. QED
  BY <1>1, <1>2, <1>3, <1>4, <1>5, <1>6 DEF Next

\* So it holds in every reachable state.
LEMMA DataInvHolds == Spec => []DataInv
<1>1. Spec => []QueueInv
  BY ProcessingKeepsQueue, QueueInvHolds, PTL
<1>2. QED
  BY <1>1, DataInit, DataStep, PTL DEF Spec

-----------------------------------------------------------------------------
(* The results.                                                            *)

\* The types of every variable of the stages.
THEOREM ProcessingTypeCorrect == Spec => []TypeOK
<1>1. QueueInv /\ DataInv => TypeOK
  BY DEF QueueInv, DataInv, TypeOK
<1>2. Spec => []QueueInv
  BY ProcessingKeepsQueue, QueueInvHolds, PTL
<1>3. QED
  BY <1>1, <1>2, DataInvHolds, PTL

\* build_site_data never meets a document on a retired node.
THEOREM PlacementsStayOnActiveNodes == Spec => []PlacedOnActiveNode
<1>1. DataInv => PlacedOnActiveNode
  BY DEF DataInv
<1>2. QED
  BY <1>1, DataInvHolds, PTL

\* Search entries belong to placed documents.
THEOREM SearchEntriesArePlaced == Spec => []IndexedIsPlaced
<1>1. DataInv => IndexedIsPlaced
  BY DEF DataInv
<1>2. QED
  BY <1>1, DataInvHolds, PTL

\* The status a source shows is backed by its documents.
THEOREM SourceStatusIsBacked == Spec => []StatusTellsTheTruth
<1>1. DataInv => StatusTellsTheTruth
  BY DEF DataInv
<1>2. QED
  BY <1>1, DataInvHolds, PTL

\* A completed source whose enrichment is settled is searchable as it is.
THEOREM CompletedSourceIsCurrent == Spec => []CompletedIsCurrent
<1>1. DataInv => CompletedIsCurrent
  BY DEF DataInv
<1>2. QED
  BY <1>1, DataInvHolds, PTL

=============================================================================
