----------------------------- MODULE Processing -----------------------------
(***************************************************************************)
(* What the three stages do to the knowledge base while the job table of   *)
(* JobQueue moves: processing/runner.py with storage/documents.py, the     *)
(* taxonomy synchronisation of storage/taxonomy.py and the manual          *)
(* correction of operations/classification.py.                             *)
(*                                                                         *)
(* A stage is a sequence of transactions, one or more per document; the    *)
(* process may die, or the stage may raise, between any two of them.       *)
(* Queue transactions are the actions of JobQueue, conjoined here with     *)
(* what the same transaction does to sources, documents, placements and    *)
(* the full-text index.                                                    *)
(***************************************************************************)
EXTENDS JobQueue

CONSTANTS Docs,      \* the knowledge cards the sources split into
          DocSource, \* the source each card comes from
          Nodes,     \* taxonomy node ids that may ever hold documents
          Uncertain, \* rules.uncertain_destination
          None       \* no placement, no index entry, no expected node

ASSUME ProcessingAssumption ==
  /\ DocSource \in [Docs -> Sources]
  /\ \A s \in Sources : \E d \in Docs : DocSource[d] = s
  /\ Uncertain \in Nodes
  /\ None \notin Nodes
  /\ None \notin [node : Nodes, enriched : BOOLEAN]

IndexEntry == [node : Nodes, enriched : BOOLEAN]

VARIABLES
  active,     \* nodes of the current taxonomy (nodes.active = 1)
  srcStatus,  \* sources.status
  doc,        \* documents: absent, "bare" (model_name pending) or "enriched"
  place,      \* placements: the node of each placed document
  fts,        \* documents_fts: path and tags as of the last indexing
  step,       \* where the claimed stage is
  todo        \* documents the stage has still to handle

dataVars == <<active, srcStatus, doc, place, fts>>
stageVars == <<step, todo>>
vars == <<queueVars, dataVars, stageVars>>

DataTypeOK ==
  /\ active \in SUBSET Nodes
  /\ srcStatus \in [Sources -> {"absent", "queued", "normalized", "classified",
                                "completed", "retry", "failed"}]
  /\ doc \in [Docs -> {"absent", "bare", "enriched"}]
  /\ place \in [Docs -> Nodes \cup {None}]
  /\ fts \in [Docs -> IndexEntry \cup {None}]
  /\ step \in {"start", "each", "place", "staged"}
  /\ todo \in SUBSET Docs

TypeOK == QueueTypeOK /\ DataTypeOK

DocsOf(s) == {d \in Docs : DocSource[d] = s}

\* documents_by_source
Extracted(s) == {d \in DocsOf(s) : doc[d] # "absent"}

\* The row index_document writes: path and tags read in the same transaction.
Entry(d, node) == [node |-> node, enriched |-> doc[d] = "enriched"]

In(stage) == pc = "working" /\ cur[2] = stage
Src == cur[1]

\* The locals of the stage are gone once it returns, raises or dies.
StageLeft ==
  /\ step' = "start"
  /\ todo' = {}

\* ORDER BY section_index: some fixed order of the documents left.
NextDoc == CHOOSE d \in todo : TRUE

Init ==
  /\ QueueInit
  /\ active = Nodes
  /\ srcStatus = [s \in Sources |-> "absent"]
  /\ doc = [d \in Docs |-> "absent"]
  /\ place = [d \in Docs |-> None]
  /\ fts = [d \in Docs |-> None]
  /\ step = "start"
  /\ todo = {}

-----------------------------------------------------------------------------
(* Lock holders outside process_jobs.                                      *)

\* insert_source
Ingest(s) ==
  /\ InsertSource(s)
  /\ srcStatus' = [srcStatus EXCEPT ![s] = "queued"]
  /\ UNCHANGED <<active, doc, place, fts, stageVars>>

\* sync_taxonomy, one transaction: deactivate every node, upsert the nodes of
\* the file, move placements off the nodes that stayed inactive, requeue.
SyncTaxonomy(kept) ==
  LET orphaned == {d \in Docs : place[d] # None /\ place[d] \notin kept}
      affected == {DocSource[d] : d \in orphaned}
  IN  /\ pc = "idle"
      /\ active' = kept
      /\ place' = [d \in Docs |->
                     IF d \in orphaned THEN Uncertain ELSE place[d]]
      /\ fts' = [d \in Docs |-> IF d \in orphaned THEN None ELSE fts[d]]
      /\ srcStatus' = [s \in Sources |->
                         IF s \in affected THEN "queued" ELSE srcStatus[s]]
      /\ IF affected = {} THEN UNCHANGED queueVars ELSE ResyncJobs(affected)
      /\ UNCHANGED <<doc, stageVars>>

\* Mutant of Correct: retired targets are accepted.
CorrectToRetired(d, target, expected) ==
  /\ pc = "idle"
  /\ place[d] # None
  /\ expected \in {None, place[d]}
  /\ target # place[d]
  /\ place' = [place EXCEPT ![d] = target]
  /\ fts' = [fts EXCEPT ![d] = Entry(d, target)]
  /\ UNCHANGED <<queueVars, active, srcStatus, doc, stageVars>>

\* Mutant of Correct: the index entry is left to the next indexing.
CorrectUnindexed(d, target, expected) ==
  /\ pc = "idle"
  /\ place[d] # None
  /\ target \in active
  /\ expected \in {None, place[d]}
  /\ target # place[d]
  /\ place' = [place EXCEPT ![d] = target]
  /\ UNCHANGED <<queueVars, active, srcStatus, doc, fts, stageVars>>

\* correct_document_classification: refused when the card left the node the
\* caller says it saw; otherwise placement and index entry move together.
Correct(d, target, expected) ==
  /\ pc = "idle"
  /\ place[d] # None
  /\ target \in active
  /\ expected \in {None, place[d]}
  /\ target # place[d]
  /\ place' = [place EXCEPT ![d] = target]
  /\ fts' = [fts EXCEPT ![d] = Entry(d, target)]
  /\ UNCHANGED <<queueVars, active, srcStatus, doc, stageVars>>

-----------------------------------------------------------------------------
(* process_jobs: the queue's own steps.                                    *)

\* recover_stale_jobs at the start, claim_next_job returning None at the end.
RunBoundary ==
  /\ StartRun \/ EndRun
  /\ UNCHANGED <<dataVars, stageVars>>

ClaimStage(j) ==
  /\ Claim(j)
  /\ UNCHANGED <<dataVars, stageVars>>

-----------------------------------------------------------------------------
(* _process_extract                                                        *)

\* Mutant of ReplaceDocuments: stale cards stay in the full-text index.
ReplaceLeavingEntries(cards) ==
  LET stale == DocsOf(Src) \ cards
  IN  /\ In("extract")
      /\ step = "start"
      /\ cards # {} /\ cards \subseteq DocsOf(Src)
      /\ doc' = [d \in Docs |-> IF d \in cards THEN "bare"
                                ELSE IF d \in stale THEN "absent" ELSE doc[d]]
      /\ place' = [d \in Docs |-> IF d \in stale THEN None ELSE place[d]]
      /\ srcStatus' = [srcStatus EXCEPT ![Src] = "normalized"]
      /\ step' = "staged"
      /\ UNCHANGED <<queueVars, active, fts, todo>>

\* replace_source_documents: every card of the split is written afresh,
\* without summary, tags or model, and keeps its placement and index entry;
\* a card that is not in the split any more (the splitter's settings changed)
\* is deleted with both.
ReplaceDocuments(cards) ==
  LET stale == DocsOf(Src) \ cards
  IN  /\ In("extract")
      /\ step = "start"
      /\ cards # {} /\ cards \subseteq DocsOf(Src)
      /\ doc' = [d \in Docs |-> IF d \in cards THEN "bare"
                                ELSE IF d \in stale THEN "absent" ELSE doc[d]]
      /\ place' = [d \in Docs |-> IF d \in stale THEN None ELSE place[d]]
      /\ fts' = [d \in Docs |-> IF d \in stale THEN None ELSE fts[d]]
      /\ srcStatus' = [srcStatus EXCEPT ![Src] = "normalized"]
      /\ step' = "staged"
      /\ UNCHANGED <<queueVars, active, todo>>

-----------------------------------------------------------------------------
(* _process_enrich and _process_index                                      *)

\* documents_by_source; a source without documents makes the stage raise.
ReadDocuments ==
  /\ In("enrich") \/ In("index")
  /\ step = "start"
  /\ Extracted(Src) # {}
  /\ todo' = Extracted(Src)
  /\ step' = "each"
  /\ UNCHANGED <<queueVars, dataVars>>

\* update_document_enrichment
EnrichDocument ==
  /\ In("enrich")
  /\ step = "each"
  /\ todo # {}
  /\ doc' = [doc EXCEPT ![NextDoc] = "enriched"]
  /\ step' = "place"
  /\ UNCHANGED <<queueVars, active, srcStatus, place, fts, todo>>

\* place_document, whatever placement was there before.
PlaceDocument(node) ==
  /\ In("enrich")
  /\ step = "place"
  /\ node \in active
  /\ place' = [place EXCEPT ![NextDoc] = node]
  /\ todo' = todo \ {NextDoc}
  /\ step' = "each"
  /\ UNCHANGED <<queueVars, active, srcStatus, doc, fts>>

\* Mutant of IndexDocument: a card without placement is indexed all the same.
IndexUnplaced ==
  /\ In("index")
  /\ step = "each"
  /\ todo # {}
  /\ fts' = [fts EXCEPT ![NextDoc] = Entry(NextDoc, place[NextDoc])]
  /\ todo' = todo \ {NextDoc}
  /\ UNCHANGED <<queueVars, active, srcStatus, doc, place, step>>

\* index_document, which raises for a card without placement.
IndexDocument ==
  /\ In("index")
  /\ step = "each"
  /\ todo # {}
  /\ place[NextDoc] # None
  /\ fts' = [fts EXCEPT ![NextDoc] = Entry(NextDoc, place[NextDoc])]
  /\ todo' = todo \ {NextDoc}
  /\ UNCHANGED <<queueVars, active, srcStatus, doc, place, step>>

\* mark_source_status after the last document.
MarkSource ==
  /\ In("enrich") \/ In("index")
  /\ step = "each"
  /\ todo = {}
  /\ srcStatus' = [srcStatus EXCEPT ![Src] =
                     IF cur[2] = "enrich" THEN "classified" ELSE "completed"]
  /\ step' = "staged"
  /\ UNCHANGED <<queueVars, active, doc, place, fts, todo>>

\* enqueue_job of the next stage, then finish_job.
CompleteStage ==
  /\ step = "staged"
  /\ \/ EnqueueNext /\ UNCHANGED stageVars
     \/ Finish /\ StageLeft
  /\ UNCHANGED dataVars

\* index_document deletes the old entry and inserts the new one; when the
\* insertion raises, nobody rolls the deletion back.
Uncommitted ==
  IF In("index") /\ step = "each" /\ todo # {}
  THEN {fts, [fts EXCEPT ![NextDoc] = None]}
  ELSE {fts}

\* Mutant of FailStage: only the job is told of the failure.
FailKeepingWord ==
  /\ Fail
  /\ StageLeft
  /\ fts' \in Uncommitted
  /\ UNCHANGED <<active, srcStatus, doc, place>>

\* fail_job, for an exception anywhere in the stage.  Its commit takes along
\* what the stage had not committed.
FailStage ==
  /\ Fail
  /\ srcStatus' = [srcStatus EXCEPT ![Src] = FailedRow(jobs[cur]).status]
  /\ StageLeft
  /\ fts' \in Uncommitted
  /\ UNCHANGED <<active, doc, place>>

\* The process dies between two transactions, or time passes.
Environment ==
  /\ \/ Crash /\ StageLeft
     \/ Tick /\ UNCHANGED stageVars
  /\ UNCHANGED dataVars

-----------------------------------------------------------------------------
StageStep ==
  \/ \E cards \in SUBSET Docs : ReplaceDocuments(cards)
  \/ ReadDocuments
  \/ EnrichDocument
  \/ \E node \in Nodes : PlaceDocument(node)
  \/ IndexDocument
  \/ MarkSource
  \/ CompleteStage
  \/ FailStage

Next ==
  \/ \E s \in Sources : Ingest(s)
  \/ \E kept \in {k \in SUBSET Nodes : Uncertain \in k} : SyncTaxonomy(kept)
  \/ \E d \in Docs, target \in Nodes, expected \in Nodes \cup {None} :
        Correct(d, target, expected)
  \/ RunBoundary
  \/ \E j \in Jobs : ClaimStage(j)
  \/ StageStep
  \/ Environment

Spec == Init /\ [][Next]_vars

-----------------------------------------------------------------------------
(* Safety.                                                                 *)

Rows(s) == {j \in Jobs : j[1] = s}
AllDone(s) == \A j \in Rows(s) : jobs[j].status = "done"

\* No document is ever left on a node the taxonomy has retired, which is what
\* build_site_data refuses to publish, whatever mixture of runs, crashes,
\* corrections and taxonomy edits came before.
PlacedOnActiveNode == \A d \in Docs : place[d] # None => place[d] \in active

\* What a running stage has behind it: the documents it has left behind are
\* handled, the one it is at is half way, and a stage that reached its last
\* transactions has said so.
StageProgress ==
  /\ step = "start" => todo = {}
  /\ step # "start" => Working
  /\ pc = "enqueued" => step = "staged"
  /\ step \in {"each", "place"} =>
        /\ cur[2] \in {"enrich", "index"}
        /\ todo \subseteq Extracted(Src)
        /\ \A d \in Extracted(Src) \ todo :
              /\ place[d] # None
              /\ cur[2] = "enrich" => doc[d] = "enriched"
              /\ cur[2] = "index" => fts[d] = Entry(d, place[d])
  /\ step = "place" =>
        cur[2] = "enrich" /\ todo # {} /\ doc[NextDoc] = "enriched"
  /\ step = "staged" /\ cur[2] = "enrich" => srcStatus[Src] = "classified"

\* Placements belong to existing documents and the index to placed ones, so
\* search, which joins the three, loses no indexed card.
IndexedIsPlaced ==
  \A d \in Docs :
    /\ fts[d] # None => place[d] # None
    /\ place[d] # None => doc[d] # "absent"

\* A source only says "completed" while every one of its cards is placed and
\* searchable, and only says "classified" while every one is enriched and
\* placed: re-extraction, retirement and failure take the word back in the
\* transaction that breaks it.
StatusTellsTheTruth ==
  \A d \in Docs : doc[d] # "absent" =>
    /\ srcStatus[DocSource[d]] = "completed" => place[d] # None /\ fts[d] # None
    /\ srcStatus[DocSource[d]] = "classified" =>
          place[d] # None /\ doc[d] = "enriched"

\* While a source says "completed" and no enrichment of it is under way or
\* due, the index shows each of its cards as it is: same node, same tags.
CompletedIsCurrent ==
  \A d \in Docs :
    /\ doc[d] # "absent"
    /\ srcStatus[DocSource[d]] = "completed"
    /\ jobs[<<DocSource[d], "enrich">>].status = "done"
    => fts[d] = Entry(d, place[d])

\* A source whose three stages are done has all its cards enriched.
DoneIsEnriched ==
  \A d \in Docs :
    doc[d] # "absent" /\ AllDone(DocSource[d]) => doc[d] = "enriched"

=============================================================================
