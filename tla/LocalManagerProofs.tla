------------------------- MODULE LocalManagerProofs -------------------------
(***************************************************************************)
(* What the manager records about the inbox and the uploads is true, for   *)
(* any number of files, editors, corrections and deaths, and whether or    *)
(* not writing the state file may raise.                                   *)
(***************************************************************************)
EXTENDS LocalManager, TLAPS

\* An attempt under way has a thread, which holds pipeline_lock.
AttemptHasRunner == runner = None => phase = "none"

\* The readers only see what the job table is through with; that stays so.
SiteIsDone == \A f \in Files : Published(f) => HasCards(src[f])

\* In memory and in the file, so that it outlives a restart.
CompletedIsPublished ==
  \A u \in Uploads :
    receipt[u] = "completed" \/ file.receipt[u] = "completed" => Published(u)

\* Files stay in the inbox, so what a fingerprint once listed whole is there.
StillThere(p) == p # None => \A f \in Files : p[f] = "whole" => inbox[f] = "whole"

FingerprintsStillHold ==
  StillThere(candidate) /\ StillThere(fp) /\ \A e \in Editors : StillThere(efp[e])

\* A file is through when nothing more of it will come to the readers.
Through(f) == Published(f) \/ src[f] \in {"rejected", "failed"}

\* What the fingerprint of a run lists has a source after the scan, and is
\* through after a clean result.
RunCovers ==
  fp # None =>
    \A f \in Files : fp[f] = "whole" =>
      /\ phase = "work" => src[f] # "none"
      /\ (phase = "settle" /\ clean) \/ phase = "close" => Through(f)

\* While no write raises, the state file is the state, and a receipt in
\* processing belongs to the attempt under way.
ProcessingIsHeld ==
  ~StateWritesFail =>
    /\ file = [mark |-> mark, receipt |-> receipt]
    /\ \A u \in Uploads : receipt[u] = "processing" =>
          u \in selected /\ phase \in {"lock", "scan", "work", "settle", "settle again"}

IInv ==
  /\ TypeOK
  /\ AttemptHasRunner
  /\ SiteIsDone
  /\ CompletedIsPublished
  /\ FingerprintsStillHold
  /\ RunCovers
  /\ ProcessingIsHeld

-----------------------------------------------------------------------------
(* Types.                                                                  *)

LEMMA Basics ==
  /\ Uploads \subseteq Files /\ Drops \subseteq Files
  /\ Editors \subseteq Threads /\ Watcher \in Threads
  /\ None \notin Fingerprint /\ None \notin SiteRecord /\ None \notin Threads
  /\ MaxCorrections \in Nat /\ MaxRestarts \in Nat
  BY ManagerAssumption DEF Files, Threads

\* A state file written from a typed state is typed.
StateTyped ==
  /\ mark \in Fingerprint \cup {None}
  /\ receipt \in Receipts
  /\ file \in [mark : Fingerprint \cup {None}, receipt : Receipts]

LEMMA WrittenTyped ==
  ASSUME StateTyped, mark' \in Fingerprint \cup {None}, receipt' \in Receipts,
         StateWritten \/ WriteRaised \/ UNCHANGED file
  PROVE  StateTyped'
  BY DEF StateTyped, StateWritten, WriteRaised

LEMMA InitTypeOK == Init => TypeOK
<1> SUFFICES ASSUME Init
             PROVE TypeOK
  OBVIOUS
<1>1. inbox \in Fingerprint
  BY DEF Init, Fingerprint
<1>2. receipt \in Receipts
  BY DEF Init, Receipts
<1>3. file \in [mark : Fingerprint \cup {None}, receipt : Receipts]
  BY <1>2 DEF Init
<1>4. /\ epc \in [Editors -> {"idle", "corrected", "marked", "run"}]
      /\ efp \in [Editors -> Fingerprint \cup {None}]
  BY DEF Init
<1>5. /\ src \in [Files -> {"none", "rejected", "pending", "done", "failed"}]
      /\ corr \in 0 .. MaxCorrections /\ restarts \in 0 .. MaxRestarts
  BY Basics DEF Init
<1>6. QED
  BY <1>1, <1>2, <1>3, <1>4, <1>5 DEF Init, TypeOK, Phases

LEMMA NextTypeOK == TypeOK /\ [Next]_vars => TypeOK'
<1> SUFFICES ASSUME TypeOK, [Next]_vars
             PROVE TypeOK'
  OBVIOUS
<1> USE Basics
<1> StateTyped
  BY DEF StateTyped, TypeOK
<1>1. ASSUME NEW f \in Drops, StartCopy(f)
       PROVE TypeOK'
  BY <1>1
  DEF StartCopy, Fingerprint, TypeOK, vars, worldVars, stateVars, runVars,
      threadVars
<1>2. ASSUME NEW f \in Drops, FinishCopy(f)
       PROVE TypeOK'
  BY <1>2
  DEF FinishCopy, Fingerprint, TypeOK, vars, worldVars, stateVars, runVars,
      threadVars
<1>3. ASSUME NEW u \in Uploads, Store(u)
       PROVE TypeOK'
  BY <1>3
  DEF Store, Fingerprint, TypeOK, vars, worldVars, stateVars, runVars,
      threadVars
<1>4. ASSUME NEW u \in Uploads, Record(u)
       PROVE TypeOK'
  BY <1>4
  DEF Record, StateWritten, WriteRaised, Receipts, TypeOK, vars, worldVars,
      stateVars, runVars, threadVars
<1>5. CASE Begin
  <2>1. receipt' \in Receipts
    BY <1>5 DEF Begin, Receipts, TypeOK
  <2>2. mark' \in Fingerprint \cup {None}
    BY <1>5 DEF Begin, TypeOK
  <2>3. StateTyped'
    BY <1>5, <2>1, <2>2, WrittenTyped DEF Begin
  <2>4. QED
    BY <1>5, <2>3
    DEF Begin, Waiting, StateTyped, Phases, TypeOK, vars, worldVars,
        stateVars, runVars, threadVars
<1>6. ASSUME NEW free \in BOOLEAN, TakeLock(free)
       PROVE TypeOK'
  BY <1>6
  DEF TakeLock, GoTo, Phases, TypeOK, vars, worldVars, stateVars, runVars,
      threadVars
<1>7. ASSUME NEW rejected \in SUBSET Files, Scan(rejected)
       PROVE TypeOK'
  BY <1>7
  DEF Scan, GoTo, Phases, TypeOK, vars, worldVars, stateVars, runVars,
      threadVars
<1>8. ASSUME NEW settled \in SUBSET Files, NEW failures \in SUBSET settled,
               NEW placed \in SUBSET failures, NEW checks \in BOOLEAN,
               Work(settled, failures, placed, checks)
       PROVE TypeOK'
  BY <1>8
  DEF Work, GoTo, Phases, SiteRecord, TypeOK, vars, worldVars, stateVars,
      runVars, threadVars
<1>9. CASE RunRaises
  BY <1>9
  DEF RunRaises, GoTo, Phases, TypeOK, vars, worldVars, stateVars, runVars,
      threadVars
<1>10. CASE Settle
  <2>1. receipt' \in Receipts
    BY <1>10 DEF Settle, Receipts, TypeOK, Outcome
  <2>2. mark' \in Fingerprint \cup {None}
    BY <1>10 DEF Settle, TypeOK
  <2>3. StateTyped'
    BY <1>10, <2>1, <2>2, WrittenTyped DEF Settle, SaveAndGoTo
  <2>4. QED
    BY <1>10, <2>3
    DEF Settle, SaveAndGoTo, GoTo, StateTyped, Phases, TypeOK, vars,
        worldVars, stateVars, runVars, threadVars
<1>11. CASE GiveUp
  <2>1. receipt' \in Receipts
    BY <1>11 DEF GiveUp, TypeOK
  <2>2. mark' \in Fingerprint \cup {None}
    BY <1>11 DEF GiveUp, TypeOK
  <2>3. StateTyped'
    BY <1>11, <2>1, <2>2, WrittenTyped DEF GiveUp, SaveAndGoTo
  <2>4. QED
    BY <1>11, <2>3
    DEF GiveUp, SaveAndGoTo, GoTo, StateTyped, Phases, TypeOK, vars,
        worldVars, stateVars, runVars, threadVars
<1>12. CASE Close
  <2>1. receipt' \in Receipts
    BY <1>12 DEF Close, TypeOK
  <2>2. mark' \in Fingerprint \cup {None}
    BY <1>12 DEF Close, TypeOK
  <2>3. StateTyped'
    BY <1>12, <2>1, <2>2, WrittenTyped DEF Close, SaveAndGoTo
  <2>4. QED
    BY <1>12, <2>3
    DEF Close, SaveAndGoTo, GoTo, StateTyped, Phases, TypeOK, vars, worldVars,
        stateVars, runVars, threadVars
<1>13. CASE Release
  BY <1>13
  DEF Release, Phases, TypeOK, vars, worldVars, stateVars, runVars, threadVars
<1>14. CASE Look
  BY <1>14 DEF Look, TypeOK, vars, worldVars, stateVars, runVars, threadVars
<1>15. CASE WatcherTries
  BY <1>15
  DEF WatcherTries, Start, Phases, TypeOK, vars, worldVars, stateVars,
      runVars, threadVars
<1>16. ASSUME NEW e \in Editors, Correct(e)
       PROVE TypeOK'
  BY <1>16 DEF Correct, TypeOK, vars, worldVars, stateVars, runVars, threadVars
<1>17. ASSUME NEW e \in Editors, AskRebuild(e)
       PROVE TypeOK'
  BY <1>17
  DEF AskRebuild, StateWritten, WriteRaised, TypeOK, vars, worldVars,
      stateVars, runVars, threadVars
<1>18. ASSUME NEW e \in Editors, EditorTries(e)
       PROVE TypeOK'
  <2>1. /\ epc' \in [Editors -> {"idle", "corrected", "marked", "run"}]
        /\ efp' \in [Editors -> Fingerprint \cup {None}]
    BY <1>18 DEF EditorTries, TypeOK
  <2>2. fp' \in Fingerprint \cup {None} /\ runner' \in Threads \cup {None}
    BY <1>18 DEF EditorTries, Start, runVars, TypeOK
  <2>3. phase' \in Phases /\ clean' \in BOOLEAN /\ selected' \in SUBSET Uploads
    BY <1>18 DEF EditorTries, Start, runVars, TypeOK, Phases
  <2>4. QED
    BY <1>18, <2>1, <2>2, <2>3 DEF EditorTries, TypeOK, worldVars, stateVars
<1>19. CASE Restart
  <2>1. receipt' \in Receipts
    BY <1>19 DEF Restart, Receipts, TypeOK
  <2>2. mark' \in Fingerprint \cup {None}
    BY <1>19 DEF Restart, TypeOK
  <2>3. StateTyped'
    BY <1>19, <2>1, <2>2, WrittenTyped DEF Restart
  <2>4. /\ epc' \in [Editors -> {"idle", "corrected", "marked", "run"}]
        /\ efp' \in [Editors -> Fingerprint \cup {None}]
    BY <1>19 DEF Restart
  <2>5. restarts' \in 0 .. MaxRestarts
    BY <1>19 DEF Restart, TypeOK
  <2>6. QED
    BY <1>19, <2>3, <2>4, <2>5
    DEF Restart, StateTyped, Phases, TypeOK, vars, worldVars, stateVars,
        runVars, threadVars
<1>20. CASE UNCHANGED vars
  BY <1>20 DEF TypeOK, vars, worldVars, stateVars, runVars, threadVars
<1>21. QED
  BY <1>1, <1>2, <1>3, <1>4, <1>5, <1>6, <1>7, <1>8, <1>9, <1>10, <1>11, <1>12,
     <1>13, <1>14, <1>15, <1>16, <1>17, <1>18, <1>19, <1>20
  DEF Next, RunStep, EditorStep

-----------------------------------------------------------------------------
(* Which actions change what.                                              *)

Scans == \E rejected \in SUBSET Files : Scan(rejected)
Works == \E settled \in SUBSET Files : \E failures \in SUBSET settled :
            \E placed \in SUBSET failures : \E checks \in BOOLEAN :
               Work(settled, failures, placed, checks)
Arrives == \/ \E f \in Drops : StartCopy(f) \/ FinishCopy(f)
           \/ \E u \in Uploads : Store(u)

Frames ==
  /\ Scans \/ Works \/ UNCHANGED <<src, site>>
  /\ Arrives \/ UNCHANGED inbox
  /\ StateWritten \/ UNCHANGED file
  /\ \/ UNCHANGED receipt
     \/ \E u \in Uploads : Record(u)
     \/ Begin \/ Settle \/ Restart
  /\ \/ UNCHANGED <<phase, fp, clean>>
     \/ phase' \notin {"work", "settle", "close"}
     \/ Scans \/ Works \/ Settle
  /\ candidate' \in {candidate, inbox, None}
  /\ fp' \in {fp, None, candidate} \cup {efp[e] : e \in Editors}
  /\ \A e \in Editors : efp'[e] \in {efp[e], inbox, None}

LEMMA NextFrames == TypeOK /\ [Next]_vars => Frames
<1> SUFFICES ASSUME TypeOK, [Next]_vars
             PROVE Frames
  OBVIOUS
<1>0. efp \in [Editors -> Fingerprint \cup {None}]
  BY DEF TypeOK
<1>1. ASSUME NEW f \in Drops, StartCopy(f)
       PROVE Frames
  BY <1>1, <1>0
  DEF StartCopy, Arrives, Frames, vars, worldVars, stateVars, runVars,
      threadVars
<1>2. ASSUME NEW f \in Drops, FinishCopy(f)
       PROVE Frames
  BY <1>2, <1>0
  DEF FinishCopy, Arrives, Frames, vars, worldVars, stateVars, runVars,
      threadVars
<1>3. ASSUME NEW u \in Uploads, Store(u)
       PROVE Frames
  BY <1>3, <1>0
  DEF Store, Arrives, Frames, vars, worldVars, stateVars, runVars, threadVars
<1>4. ASSUME NEW u \in Uploads, Record(u)
       PROVE Frames
  BY <1>4, <1>0
  DEF Record, StateWritten, WriteRaised, Frames, vars, worldVars, stateVars,
      runVars, threadVars
<1>5. CASE Begin
  BY <1>5, <1>0 DEF Frames, Begin, WriteRaised, threadVars, worldVars
<1>6. ASSUME NEW free \in BOOLEAN, TakeLock(free)
       PROVE Frames
  BY <1>6, <1>0
  DEF TakeLock, GoTo, Frames, vars, worldVars, stateVars, runVars, threadVars
<1>7. ASSUME NEW rejected \in SUBSET Files, Scan(rejected)
       PROVE Frames
  <2>1. Scans
    BY <1>7 DEF Scans
  <2>2. QED
    BY <1>7, <1>0, <2>1 DEF Frames, Scan, GoTo, stateVars, threadVars
<1>8. ASSUME NEW settled \in SUBSET Files, NEW failures \in SUBSET settled,
               NEW placed \in SUBSET failures, NEW checks \in BOOLEAN,
               Work(settled, failures, placed, checks)
       PROVE Frames
  <2>1. Works
    BY <1>8 DEF Works
  <2>2. QED
    BY <1>8, <1>0, <2>1 DEF Frames, Work, GoTo, stateVars, threadVars
<1>9. CASE RunRaises
  BY <1>9, <1>0
  DEF RunRaises, GoTo, Frames, vars, worldVars, stateVars, runVars, threadVars
<1>10. CASE Settle
  BY <1>10, <1>0
  DEF Frames, Settle, SaveAndGoTo, GoTo, WriteRaised, threadVars, worldVars
<1>11. CASE GiveUp
  BY <1>11, <1>0
  DEF GiveUp, SaveAndGoTo, GoTo, StateWritten, WriteRaised, Frames, vars,
      worldVars, stateVars, runVars, threadVars
<1>12. CASE Close
  BY <1>12, <1>0
  DEF Close, SaveAndGoTo, GoTo, StateWritten, WriteRaised, Frames, vars,
      worldVars, stateVars, runVars, threadVars
<1>13. CASE Release
  BY <1>13, <1>0
  DEF Release, Frames, vars, worldVars, stateVars, runVars, threadVars
<1>14. CASE Look
  BY <1>14, <1>0
  DEF Look, Frames, vars, worldVars, stateVars, runVars, threadVars
<1>15. CASE WatcherTries
  BY <1>15, <1>0
  DEF WatcherTries, Start, Frames, vars, worldVars, stateVars, runVars,
      threadVars
<1>16. ASSUME NEW e \in Editors, Correct(e)
       PROVE Frames
  BY <1>16, <1>0
  DEF Correct, Frames, vars, worldVars, stateVars, runVars, threadVars
<1>17. ASSUME NEW e \in Editors, AskRebuild(e)
       PROVE Frames
  BY <1>17, <1>0
  DEF AskRebuild, StateWritten, WriteRaised, Frames, vars, worldVars,
      stateVars, runVars, threadVars
<1>18. ASSUME NEW e \in Editors, EditorTries(e)
       PROVE Frames
  BY <1>18, <1>0
  DEF EditorTries, Start, Frames, vars, worldVars, stateVars, runVars,
      threadVars
<1>19. CASE Restart
  BY <1>19, <1>0 DEF Frames, Restart, worldVars
<1>20. CASE UNCHANGED vars
  BY <1>20, <1>0 DEF Frames, vars, worldVars, stateVars, runVars, threadVars
<1>21. QED
  BY <1>1, <1>2, <1>3, <1>4, <1>5, <1>6, <1>7, <1>8, <1>9, <1>10, <1>11, <1>12,
     <1>13, <1>14, <1>15, <1>16, <1>17, <1>18, <1>19, <1>20
  DEF Next, RunStep, EditorStep

LEMMA NextAttemptHasRunner == TypeOK /\ AttemptHasRunner /\ [Next]_vars => AttemptHasRunner'
<1> SUFFICES ASSUME TypeOK, AttemptHasRunner, [Next]_vars
             PROVE AttemptHasRunner'
  OBVIOUS
<1> USE Basics
<1>1. ASSUME NEW f \in Drops, StartCopy(f)
       PROVE AttemptHasRunner'
  BY <1>1
  DEF StartCopy, AttemptHasRunner, vars, worldVars, stateVars, runVars,
      threadVars
<1>2. ASSUME NEW f \in Drops, FinishCopy(f)
       PROVE AttemptHasRunner'
  BY <1>2
  DEF FinishCopy, AttemptHasRunner, vars, worldVars, stateVars, runVars,
      threadVars
<1>3. ASSUME NEW u \in Uploads, Store(u)
       PROVE AttemptHasRunner'
  BY <1>3
  DEF Store, AttemptHasRunner, vars, worldVars, stateVars, runVars, threadVars
<1>4. ASSUME NEW u \in Uploads, Record(u)
       PROVE AttemptHasRunner'
  BY <1>4
  DEF Record, StateWritten, WriteRaised, AttemptHasRunner, vars, worldVars,
      stateVars, runVars, threadVars
<1>5. CASE Begin
  BY <1>5
  DEF Begin, Waiting, StateWritten, WriteRaised, AttemptHasRunner, vars,
      worldVars, stateVars, runVars, threadVars
<1>6. ASSUME NEW free \in BOOLEAN, TakeLock(free)
       PROVE AttemptHasRunner'
  BY <1>6
  DEF TakeLock, GoTo, AttemptHasRunner, vars, worldVars, stateVars, runVars,
      threadVars
<1>7. ASSUME NEW rejected \in SUBSET Files, Scan(rejected)
       PROVE AttemptHasRunner'
  BY <1>7
  DEF Scan, GoTo, AttemptHasRunner, vars, worldVars, stateVars, runVars,
      threadVars
<1>8. ASSUME NEW settled \in SUBSET Files, NEW failures \in SUBSET settled,
               NEW placed \in SUBSET failures, NEW checks \in BOOLEAN,
               Work(settled, failures, placed, checks)
       PROVE AttemptHasRunner'
  BY <1>8
  DEF Work, GoTo, AttemptHasRunner, vars, worldVars, stateVars, runVars,
      threadVars
<1>9. CASE RunRaises
  BY <1>9
  DEF RunRaises, GoTo, AttemptHasRunner, vars, worldVars, stateVars, runVars,
      threadVars
<1>10. CASE Settle
  BY <1>10
  DEF Settle, SaveAndGoTo, GoTo, StateWritten, WriteRaised, AttemptHasRunner,
      vars, worldVars, stateVars, runVars, threadVars
<1>11. CASE GiveUp
  BY <1>11
  DEF GiveUp, SaveAndGoTo, GoTo, StateWritten, WriteRaised, AttemptHasRunner,
      vars, worldVars, stateVars, runVars, threadVars
<1>12. CASE Close
  BY <1>12
  DEF Close, SaveAndGoTo, GoTo, StateWritten, WriteRaised, AttemptHasRunner,
      vars, worldVars, stateVars, runVars, threadVars
<1>13. CASE Release
  BY <1>13
  DEF Release, AttemptHasRunner, vars, worldVars, stateVars, runVars,
      threadVars
<1>14. CASE Look
  BY <1>14
  DEF Look, AttemptHasRunner, vars, worldVars, stateVars, runVars, threadVars
<1>15. CASE WatcherTries
  BY <1>15
  DEF WatcherTries, Start, AttemptHasRunner, vars, worldVars, stateVars,
      runVars, threadVars
<1>16. ASSUME NEW e \in Editors, Correct(e)
       PROVE AttemptHasRunner'
  BY <1>16
  DEF Correct, AttemptHasRunner, vars, worldVars, stateVars, runVars,
      threadVars
<1>17. ASSUME NEW e \in Editors, AskRebuild(e)
       PROVE AttemptHasRunner'
  BY <1>17
  DEF AskRebuild, StateWritten, WriteRaised, AttemptHasRunner, vars,
      worldVars, stateVars, runVars, threadVars
<1>18. ASSUME NEW e \in Editors, EditorTries(e)
       PROVE AttemptHasRunner'
  BY <1>18
  DEF EditorTries, Start, AttemptHasRunner, vars, worldVars, stateVars,
      runVars, threadVars
<1>19. CASE Restart
  BY <1>19
  DEF Restart, StateWritten, AttemptHasRunner, vars, worldVars, stateVars,
      runVars, threadVars
<1>20. CASE UNCHANGED vars
  BY <1>20
  DEF AttemptHasRunner, vars, worldVars, stateVars, runVars, threadVars
<1>21. QED
  BY <1>1, <1>2, <1>3, <1>4, <1>5, <1>6, <1>7, <1>8, <1>9, <1>10, <1>11, <1>12,
     <1>13, <1>14, <1>15, <1>16, <1>17, <1>18, <1>19, <1>20
  DEF Next, RunStep, EditorStep

-----------------------------------------------------------------------------
(* The site and the sources.                                               *)

LEMMA NextSiteIsDone == TypeOK /\ SiteIsDone /\ [Next]_vars => SiteIsDone'
<1> SUFFICES ASSUME TypeOK, SiteIsDone, [Next]_vars
             PROVE SiteIsDone'
  OBVIOUS
<1>1. Scans \/ Works \/ UNCHANGED <<src, site>>
  BY NextFrames DEF Frames
<1>2. CASE Scans
  BY <1>2 DEF Scans, Scan, SiteIsDone, Published, HasCards, TypeOK
<1>3. CASE Works
  BY <1>3 DEF Works, Work, SiteIsDone, Published, HasCards, TypeOK
<1>4. CASE UNCHANGED <<src, site>>
  BY <1>4 DEF SiteIsDone, Published
<1>5. QED
  BY <1>1, <1>2, <1>3, <1>4

\* A site replaces another that has no file it lacks.
LEMMA PublishedStays ==
  ASSUME TypeOK, SiteIsDone, [Next]_vars, NEW f \in Files, Published(f)
  PROVE  Published(f)'
<1>1. Scans \/ Works \/ UNCHANGED <<src, site>>
  BY NextFrames DEF Frames
<1>2. CASE Scans
  BY <1>2 DEF Scans, Scan, Published
<1>3. CASE Works
  <2>1. PICK settled \in SUBSET Files : \E failures \in SUBSET settled :
               \E placed \in SUBSET failures : \E checks \in BOOLEAN :
                  Work(settled, failures, placed, checks)
    BY <1>3 DEF Works
  <2>2. PICK failures \in SUBSET settled, placed \in SUBSET Files, checks \in BOOLEAN :
               Work(settled, failures, placed, checks)
    BY <2>1
  <2>3. HasCards(src[f])
    BY DEF SiteIsDone
  <2>4. HasCards(src'[f])
    BY <2>2, <2>3 DEF Work, HasCards
  <2>5. CASE UNCHANGED site
    BY <2>5 DEF Published
  <2>6. CASE site' = [files |-> {g \in Files : HasCards(src'[g])}, corr |-> corr]
    <3>1. site' \in SiteRecord
      BY <2>6, Basics DEF SiteRecord, TypeOK
    <3>2. QED
      BY <3>1, <2>4, <2>6, Basics DEF Published
  <2>7. QED
    BY <2>2, <2>5, <2>6 DEF Work
<1>4. CASE UNCHANGED <<src, site>>
  BY <1>4 DEF Published
<1>5. QED
  BY <1>1, <1>2, <1>3, <1>4

-----------------------------------------------------------------------------
(* Receipts.                                                               *)

LEMMA OutcomePublished ==
  ASSUME NEW u \in Uploads, Outcome(u) = "completed"
  PROVE  Published(u)
  BY DEF Outcome, Published

LEMMA NextCompletedIsPublished ==
  TypeOK /\ SiteIsDone /\ CompletedIsPublished /\ [Next]_vars => CompletedIsPublished'
<1> SUFFICES ASSUME TypeOK, SiteIsDone, CompletedIsPublished, [Next]_vars,
                    NEW u \in Uploads
             PROVE (receipt[u] = "completed" \/ file.receipt[u] = "completed"
                      => Published(u))'
  BY DEF CompletedIsPublished
<1>1. Published(u) => Published(u)'
  BY PublishedStays, Basics
<1>2. receipt'[u] = "completed" => Published(u)
  <2>1. CASE UNCHANGED receipt
    BY <2>1 DEF CompletedIsPublished
  <2>2. CASE \E v \in Uploads : Record(v)
    BY <2>2 DEF Record, CompletedIsPublished, TypeOK, Receipts
  <2>3. CASE Begin
    BY <2>3 DEF Begin, CompletedIsPublished
  <2>4. CASE Settle
    BY <2>4, OutcomePublished DEF Settle, CompletedIsPublished
  <2>5. CASE Restart
    BY <2>5 DEF Restart, CompletedIsPublished
  <2>6. QED
    BY <2>1, <2>2, <2>3, <2>4, <2>5, NextFrames DEF Frames
<1>3. file'.receipt[u] = "completed" => Published(u)
  <2>1. CASE StateWritten
    BY <2>1, <1>2 DEF StateWritten
  <2>2. CASE UNCHANGED file
    BY <2>2 DEF CompletedIsPublished
  <2>3. QED
    BY <2>1, <2>2, NextFrames DEF Frames
<1>4. QED
  BY <1>1, <1>2, <1>3

LEMMA NextProcessingIsHeld ==
  TypeOK /\ AttemptHasRunner /\ ProcessingIsHeld /\ [Next]_vars => ProcessingIsHeld'
<1> SUFFICES ASSUME TypeOK, AttemptHasRunner, ProcessingIsHeld, [Next]_vars, ~StateWritesFail
             PROVE ProcessingIsHeld'
  BY DEF ProcessingIsHeld
<1>0. receipt \in [Uploads -> {"none", "queued", "processing", "completed",
                              "failed", "isolated"}]
  BY DEF TypeOK, Receipts
<1>1. ASSUME NEW f \in Drops, StartCopy(f)
       PROVE ProcessingIsHeld'
  BY <1>1, <1>0
  DEF StartCopy, ProcessingIsHeld, vars, worldVars, stateVars, runVars,
      threadVars
<1>2. ASSUME NEW f \in Drops, FinishCopy(f)
       PROVE ProcessingIsHeld'
  BY <1>2, <1>0
  DEF FinishCopy, ProcessingIsHeld, vars, worldVars, stateVars, runVars,
      threadVars
<1>3. ASSUME NEW u \in Uploads, Store(u)
       PROVE ProcessingIsHeld'
  BY <1>3, <1>0
  DEF Store, ProcessingIsHeld, vars, worldVars, stateVars, runVars, threadVars
<1>4. ASSUME NEW u \in Uploads, Record(u)
       PROVE ProcessingIsHeld'
  BY <1>4, <1>0
  DEF Record, StateWritten, WriteRaised, ProcessingIsHeld, vars, worldVars,
      stateVars, runVars, threadVars
<1>5. CASE Begin
  BY <1>5, <1>0
  DEF Begin, Waiting, StateWritten, WriteRaised, ProcessingIsHeld, vars,
      worldVars, stateVars, runVars, threadVars
<1>6. ASSUME NEW free \in BOOLEAN, TakeLock(free)
       PROVE ProcessingIsHeld'
  BY <1>6, <1>0
  DEF TakeLock, GoTo, ProcessingIsHeld, vars, worldVars, stateVars, runVars,
      threadVars
<1>7. ASSUME NEW rejected \in SUBSET Files, Scan(rejected)
       PROVE ProcessingIsHeld'
  BY <1>7, <1>0
  DEF Scan, GoTo, ProcessingIsHeld, vars, worldVars, stateVars, runVars,
      threadVars
<1>8. ASSUME NEW settled \in SUBSET Files, NEW failures \in SUBSET settled,
               NEW placed \in SUBSET failures, NEW checks \in BOOLEAN,
               Work(settled, failures, placed, checks)
       PROVE ProcessingIsHeld'
  BY <1>8, <1>0
  DEF Work, GoTo, ProcessingIsHeld, vars, worldVars, stateVars, runVars,
      threadVars
<1>9. CASE RunRaises
  BY <1>9, <1>0
  DEF RunRaises, GoTo, ProcessingIsHeld, vars, worldVars, stateVars, runVars,
      threadVars
<1>10. CASE Settle
  BY <1>10, <1>0
  DEF Settle, SaveAndGoTo, GoTo, StateWritten, WriteRaised, Outcome,
      ProcessingIsHeld, vars, worldVars, stateVars, runVars, threadVars
<1>11. CASE GiveUp
  BY <1>11, <1>0
  DEF GiveUp, SaveAndGoTo, GoTo, StateWritten, WriteRaised, ProcessingIsHeld,
      vars, worldVars, stateVars, runVars, threadVars
<1>12. CASE Close
  BY <1>12, <1>0
  DEF Close, SaveAndGoTo, GoTo, StateWritten, WriteRaised, ProcessingIsHeld,
      vars, worldVars, stateVars, runVars, threadVars
<1>13. CASE Release
  BY <1>13, <1>0
  DEF Release, ProcessingIsHeld, vars, worldVars, stateVars, runVars,
      threadVars
<1>14. CASE Look
  BY <1>14, <1>0
  DEF Look, ProcessingIsHeld, vars, worldVars, stateVars, runVars, threadVars
<1>15. CASE WatcherTries
  BY <1>15, <1>0
  DEF WatcherTries, Start, AttemptHasRunner, ProcessingIsHeld, vars,
      worldVars, stateVars, runVars, threadVars
<1>16. ASSUME NEW e \in Editors, Correct(e)
       PROVE ProcessingIsHeld'
  BY <1>16, <1>0
  DEF Correct, ProcessingIsHeld, vars, worldVars, stateVars, runVars,
      threadVars
<1>17. ASSUME NEW e \in Editors, AskRebuild(e)
       PROVE ProcessingIsHeld'
  BY <1>17, <1>0
  DEF AskRebuild, StateWritten, WriteRaised, ProcessingIsHeld, vars,
      worldVars, stateVars, runVars, threadVars
<1>18. ASSUME NEW e \in Editors, EditorTries(e)
       PROVE ProcessingIsHeld'
  BY <1>18, <1>0
  DEF EditorTries, Start, AttemptHasRunner, ProcessingIsHeld, vars, worldVars,
      stateVars, runVars, threadVars
<1>19. CASE Restart
  BY <1>19, <1>0
  DEF Restart, StateWritten, ProcessingIsHeld, vars, worldVars, stateVars,
      runVars, threadVars
<1>20. CASE UNCHANGED vars
  BY <1>20, <1>0
  DEF ProcessingIsHeld, vars, worldVars, stateVars, runVars, threadVars
<1>21. QED
  BY <1>1, <1>2, <1>3, <1>4, <1>5, <1>6, <1>7, <1>8, <1>9, <1>10, <1>11, <1>12,
     <1>13, <1>14, <1>15, <1>16, <1>17, <1>18, <1>19, <1>20
  DEF Next, RunStep, EditorStep

-----------------------------------------------------------------------------
(* Fingerprints.                                                           *)

LEMMA InboxGrows ==
  ASSUME TypeOK, [Next]_vars, NEW f \in Files, inbox[f] = "whole"
  PROVE  inbox'[f] = "whole"
<1>1. CASE Arrives
  BY <1>1 DEF Arrives, StartCopy, FinishCopy, Store, TypeOK, Fingerprint
<1>2. CASE UNCHANGED inbox
  BY <1>2
<1>3. QED
  BY <1>1, <1>2, NextFrames DEF Frames

LEMMA NextFingerprintsStillHold ==
  TypeOK /\ FingerprintsStillHold /\ [Next]_vars => FingerprintsStillHold'
<1> SUFFICES ASSUME TypeOK, FingerprintsStillHold, [Next]_vars
             PROVE FingerprintsStillHold'
  OBVIOUS
<1> DEFINE Later(p) == p # None => \A f \in Files : p[f] = "whole" => inbox'[f] = "whole"
<1>1. ASSUME NEW p, StillThere(p)
      PROVE Later(p)
  BY <1>1, InboxGrows DEF StillThere
<1>2. Later(inbox) /\ Later(None) /\ Later(candidate) /\ Later(fp)
  BY <1>1, InboxGrows DEF FingerprintsStillHold
<1>3. \A e \in Editors : Later(efp[e])
  BY <1>1 DEF FingerprintsStillHold
<1> HIDE DEF Later
<1>4. Later(candidate') /\ Later(fp') /\ \A e \in Editors : Later(efp'[e])
  BY <1>2, <1>3, NextFrames DEF Frames
<1>5. QED
  BY <1>4 DEF Later, FingerprintsStillHold, StillThere

LEMMA NextRunCovers ==
  TypeOK /\ FingerprintsStillHold /\ RunCovers /\ [Next]_vars => RunCovers'
<1> SUFFICES ASSUME TypeOK, FingerprintsStillHold, RunCovers, [Next]_vars
             PROVE RunCovers'
  OBVIOUS
<1>1. CASE phase' \notin {"work", "settle", "close"}
  BY <1>1 DEF RunCovers
<1>2. CASE Scans
  <2>1. PICK rejected \in SUBSET Files : Scan(rejected)
    BY <1>2 DEF Scans
  <2>2. \A f \in Files : inbox[f] = "whole" => src'[f] # "none"
    BY <2>1 DEF Scan, TypeOK
  <2>3. fp # None => \A f \in Files : fp[f] = "whole" => inbox[f] = "whole"
    BY DEF FingerprintsStillHold, StillThere
  <2>4. phase' = "work" /\ fp' = fp
    BY <2>1 DEF Scan, GoTo
  <2>5. QED
    BY <2>2, <2>3, <2>4 DEF RunCovers
<1>3. CASE Works
  <2>1. PICK settled \in SUBSET Files : \E failures \in SUBSET settled :
               \E placed \in SUBSET failures : \E checks \in BOOLEAN :
                  Work(settled, failures, placed, checks)
    BY <1>3 DEF Works
  <2>2. PICK failures \in SUBSET settled, placed \in SUBSET Files, checks \in BOOLEAN :
               Work(settled, failures, placed, checks)
    BY <2>1
  <2>3. phase = "work" /\ phase' = "settle" /\ fp' = fp
    BY <2>2 DEF Work, GoTo
  <2>4. ASSUME clean', NEW f \in Files, src[f] # "none"
        PROVE Through(f)'
    <3>1. site' = [files |-> {g \in Files : HasCards(src'[g])}, corr |-> corr]
      BY <2>2, <2>4 DEF Work
    <3>2. site' \in SiteRecord
      BY <3>1, Basics DEF SiteRecord, TypeOK
    <3>3. src'[f] \in {"rejected", "failed"} \/ HasCards(src'[f])
      BY <2>2, <2>4 DEF Work, TypeOK, HasCards
    <3>4. QED
      BY <3>1, <3>2, <3>3, Basics DEF Through, Published
  <2>5. QED
    BY <2>3, <2>4 DEF RunCovers
<1>4. CASE Settle
  <2>1. phase' \in {"settle", "close"} => phase = "settle" /\ clean
    BY <1>4 DEF Settle, SaveAndGoTo, GoTo
  <2>2. UNCHANGED <<fp, src, site>> /\ phase' # "work"
    BY <1>4 DEF Settle, SaveAndGoTo, GoTo, worldVars
  <2>3. QED
    BY <2>1, <2>2 DEF RunCovers, Through, Published
<1>5. CASE UNCHANGED <<phase, fp, clean>>
  <2>1. CASE UNCHANGED <<src, site>>
    BY <1>5, <2>1 DEF RunCovers, Through, Published
  <2>2. CASE Scans
    BY <2>2, <1>2
  <2>3. CASE Works
    BY <2>3, <1>3
  <2>4. QED
    BY <2>1, <2>2, <2>3, NextFrames DEF Frames
<1>6. QED
  BY <1>1, <1>2, <1>3, <1>4, <1>5, NextFrames DEF Frames

-----------------------------------------------------------------------------
(* The theorems.                                                           *)

LEMMA InitIInv == Init => IInv
<1> SUFFICES ASSUME Init
             PROVE IInv
  OBVIOUS
<1>1. TypeOK
  BY InitTypeOK
<1>2. AttemptHasRunner /\ SiteIsDone /\ CompletedIsPublished
  BY DEF Init, AttemptHasRunner, SiteIsDone, CompletedIsPublished, Published
<1>3. FingerprintsStillHold /\ RunCovers /\ ProcessingIsHeld
  BY DEF Init, FingerprintsStillHold, StillThere, RunCovers, ProcessingIsHeld
<1>4. QED
  BY <1>1, <1>2, <1>3 DEF IInv

LEMMA NextIInv == IInv /\ [Next]_vars => IInv'
  BY NextTypeOK, NextAttemptHasRunner, NextSiteIsDone, NextCompletedIsPublished,
     NextFingerprintsStillHold, NextRunCovers, NextProcessingIsHeld
  DEF IInv

\* The invariant the others rest on: every variable keeps its type, the site
\* has only finished files, and what fingerprints, receipts and the attempt
\* under way say of each other and of the inbox is true.
THEOREM Invariant == Spec => []IInv
  BY InitIInv, NextIInv, PTL DEF Spec

\* A receipt says "completed" only while the site has the document, across any
\* number of failing writes and restarts (upload_outcomes).
THEOREM ReceiptsBacked == Spec => []ReceiptsAreBacked
<1>1. IInv => ReceiptsAreBacked
  BY DEF IInv, CompletedIsPublished, ReceiptsAreBacked
<1>2. QED
  BY <1>1, Invariant, PTL

\* As long as the state file can be written, a receipt is in "processing" only
\* under an attempt that will settle it, across any number of restarts
\* (_begin_upload_attempt, normalized_upload_history).
THEOREM ProcessingSettles == Spec => []ProcessingIsSettled
<1>1. IInv => ProcessingIsSettled
  BY DEF IInv, ProcessingIsHeld, ProcessingIsSettled
<1>2. QED
  BY <1>1, Invariant, PTL

\* When a run sets the success mark, every file the mark lists whole is with the
\* readers, refused or failed for good (_run_pipeline_once records the
\* fingerprint the run began with).
THEOREM MarkEarned == Spec => MarkIsEarned
<1> DEFINE Earned ==
      mark' \notin {mark, file.mark, None} =>
        \A f \in Files : mark'[f] = "whole" =>
          Published(f)' \/ src'[f] \in {"rejected", "failed"}
<1>1. ASSUME IInv, Next
      PROVE Earned
  <2>1. CASE Close
    <3>1. mark' = fp /\ phase = "close" /\ UNCHANGED <<src, site>>
      BY <2>1 DEF Close, worldVars
    <3>2. fp # None => \A f \in Files : fp[f] = "whole" => Through(f)
      BY <1>1, <3>1 DEF IInv, RunCovers
    <3>3. QED
      BY <3>1, <3>2 DEF Through, Published
  <2>2. CASE mark' \in {mark, file.mark, None}
    BY <2>2
  <2>3. Close \/ mark' \in {mark, file.mark, None}
    BY <1>1
    DEF Next, RunStep, EditorStep, StartCopy, FinishCopy, Store, Record,
       Begin, TakeLock, Scan, Work, RunRaises, Settle, GiveUp, Release, Look,
       WatcherTries, Correct, AskRebuild, EditorTries, Restart, stateVars
  <2>4. QED
    BY <2>1, <2>2, <2>3
<1>2. Spec => [][Earned]_vars
  BY <1>1, Invariant, PTL DEF Spec
<1>3. QED
  BY <1>2 DEF MarkIsEarned

-----------------------------------------------------------------------------
(* What readers and uploaders have been shown once.                        *)

\* The site shows committed corrections only.
SiteIsCommitted == site # None => site.corr <= corr

\* An upload that has no receipt yet is in no attempt, and no file knows it.
UnrecordedIsNew ==
  \A u \in Uploads :
    inbox[u] = "absent" \/ u \in stored =>
      receipt[u] = "none" /\ file.receipt[u] = "none" /\ u \notin selected

\* What is moved into the inbox is there.
StoredIsThere == \A u \in stored : inbox[u] # "absent"

LEMMA CorrectionsStay ==
  ASSUME IInv, [Next]_vars
  PROVE  /\ corr' \in Nat /\ corr \in Nat /\ corr' >= corr
         /\ Works => corr' = corr
<1>1. corr \in Nat
  BY Basics DEF IInv, TypeOK
<1>2. UNCHANGED corr \/ \E e \in Editors : Correct(e)
  BY
  DEF Next, RunStep, EditorStep, StartCopy, FinishCopy, Store, Record, Begin, TakeLock, GoTo,
      SaveAndGoTo, Scan, Work, RunRaises, Settle, GiveUp, Close, Release, Look, WatcherTries,
      Start, Correct, AskRebuild, EditorTries, Restart, vars, worldVars, stateVars, runVars,
      threadVars
<1>3. Works => UNCHANGED corr
  BY DEF Works, Work
<1> QED BY <1>1, <1>2, <1>3 DEF Correct

LEMMA SiteStep ==
  ASSUME IInv, SiteIsCommitted, [Next]_vars
  PROVE  /\ SiteIsCommitted'
         /\ site # None => site' # None /\ site'.corr >= site.corr
<1>1. site # None => site.corr \in Nat
  BY Basics DEF IInv, TypeOK, SiteRecord
<1>2. CASE UNCHANGED site
  BY <1>1, <1>2, CorrectionsStay DEF SiteIsCommitted
<1>3. CASE Works
  <2>1. UNCHANGED site \/ \E files \in SUBSET Files : site' = [files |-> files, corr |-> corr]
    BY <1>3 DEF Works, Work
  <2>2. CASE \E files \in SUBSET Files : site' = [files |-> files, corr |-> corr]
    <3>1. site' \in SiteRecord /\ site'.corr = corr
      BY <2>2, CorrectionsStay DEF SiteRecord
    <3>2. site' # None
      BY <3>1, Basics
    <3> QED BY <1>1, <1>3, <3>1, <3>2, CorrectionsStay DEF SiteIsCommitted
  <2> QED BY <1>2, <2>1, <2>2
<1>4. CASE Scans
  BY <1>2, <1>4 DEF Scans, Scan
<1>5. Scans \/ Works \/ UNCHANGED <<src, site>>
  BY NextFrames DEF Frames, IInv
<1> QED BY <1>2, <1>3, <1>4, <1>5

LEMMA UploadFrames ==
  ASSUME [Next]_vars
  PROVE  /\ selected' = selected \/ selected' = {} \/ Begin
         /\ stored' \subseteq stored \/ \E u \in Uploads : Store(u)
         /\ Restart => stored' = {} /\ selected' = {}
         /\ Begin \/ Settle => UNCHANGED stored
         /\ Settle => UNCHANGED selected
<1>1. selected' = selected \/ selected' = {} \/ Begin
  BY
  DEF Next, RunStep, EditorStep, StartCopy, FinishCopy, Store, Record, Begin, TakeLock, GoTo,
      SaveAndGoTo, Scan, Work, RunRaises, Settle, GiveUp, Close, Release, Look, WatcherTries,
      Start, Correct, AskRebuild, EditorTries, Restart, vars, worldVars, stateVars, runVars,
      threadVars
<1>2. stored' \subseteq stored \/ \E u \in Uploads : Store(u)
  BY
  DEF Next, RunStep, EditorStep, StartCopy, FinishCopy, Store, Record, Begin, TakeLock, GoTo,
      SaveAndGoTo, Scan, Work, RunRaises, Settle, GiveUp, Close, Release, Look, WatcherTries,
      Start, Correct, AskRebuild, EditorTries, Restart, vars, worldVars, stateVars, runVars,
      threadVars
<1>3. /\ Restart => stored' = {} /\ selected' = {}
      /\ Begin \/ Settle => UNCHANGED stored
      /\ Settle => UNCHANGED selected
  BY DEF Restart, Begin, Settle, SaveAndGoTo, GoTo, threadVars
<1> QED BY <1>1, <1>2, <1>3

LEMMA ArrivalsStay ==
  ASSUME IInv, [Next]_vars, NEW u \in Uploads, inbox'[u] = "absent"
  PROVE  inbox[u] = "absent"
<1>1. inbox \in Fingerprint /\ Uploads \subseteq Files
  BY Basics DEF IInv, TypeOK
<1>2. CASE UNCHANGED inbox
  BY <1>2
<1>3. CASE Arrives
  BY <1>1, <1>3 DEF Arrives, StartCopy, FinishCopy, Store, Fingerprint
<1> QED BY <1>2, <1>3, NextFrames DEF Frames, IInv

LEMMA StoredStep ==
  ASSUME IInv, StoredIsThere, [Next]_vars
  PROVE  StoredIsThere'
<1> SUFFICES ASSUME NEW u \in stored' PROVE inbox'[u] # "absent"
  BY DEF StoredIsThere
<1>1. stored \subseteq Uploads /\ inbox \in Fingerprint /\ Uploads \subseteq Files
  BY Basics DEF IInv, TypeOK
<1>2. CASE u \in stored
  BY <1>1, <1>2, ArrivalsStay DEF StoredIsThere
<1>3. CASE u \notin stored
  <2>1. PICK v \in Uploads : Store(v)
    BY <1>3, UploadFrames
  <2> QED BY <1>1, <1>3, <2>1 DEF Store, Fingerprint
<1> QED BY <1>2, <1>3

LEMMA UnrecordedStep ==
  ASSUME IInv, UnrecordedIsNew, StoredIsThere, [Next]_vars
  PROVE  UnrecordedIsNew'
<1> SUFFICES ASSUME NEW u \in Uploads, inbox'[u] = "absent" \/ u \in stored'
             PROVE  receipt'[u] = "none" /\ file'.receipt[u] = "none" /\ u \notin selected'
  BY DEF UnrecordedIsNew
<1>1. receipt \in Receipts /\ inbox \in Fingerprint /\ Uploads \subseteq Files
  BY Basics DEF IInv, TypeOK
<1>2. inbox'[u] = "absent" => inbox[u] = "absent"
  BY ArrivalsStay
<1>3. receipt[u] = "none" /\ file.receipt[u] = "none" /\ u \notin selected
  <2>1. CASE inbox'[u] = "absent" \/ u \in stored
    BY <1>2, <2>1 DEF UnrecordedIsNew
  <2>2. CASE u \in stored' \ stored
    <3>1. PICK v \in Uploads : Store(v)
      BY <2>2, UploadFrames
    <3>2. inbox[u] = "absent"
      BY <2>2, <3>1 DEF Store
    <3> QED BY <3>2 DEF UnrecordedIsNew
  <2> QED BY <2>1, <2>2
<1>4. u \notin selected'
  BY <1>3, UploadFrames DEF Begin, Waiting
<1>5. receipt'[u] = "none"
  <2>1. ASSUME NEW v \in Uploads, Record(v) PROVE receipt'[u] = "none"
    <3>1. u # v
      BY <2>1 DEF Record, worldVars, StoredIsThere
    <3> QED BY <1>1, <1>3, <2>1, <3>1 DEF Record, Receipts
  <2>2. CASE Begin
    BY <1>3, <2>2 DEF Begin, Waiting
  <2>3. CASE Settle
    BY <1>3, <2>3 DEF Settle
  <2>4. CASE Restart
    BY <1>3, <2>4 DEF Restart
  <2> QED BY <1>3, <2>1, <2>2, <2>3, <2>4, NextFrames DEF Frames, IInv
<1>6. file'.receipt[u] = "none"
  BY <1>3, <1>5, NextFrames DEF Frames, StateWritten, IInv
<1> QED BY <1>4, <1>5, <1>6

LastingInv == IInv /\ SiteIsCommitted /\ UnrecordedIsNew /\ StoredIsThere

LEMMA LastingInvariant == Spec => []LastingInv
<1>1. Init => LastingInv
  BY InitIInv DEF Init, LastingInv, SiteIsCommitted, UnrecordedIsNew, StoredIsThere
<1>2. LastingInv /\ [Next]_vars => LastingInv'
  BY NextIInv, SiteStep, UnrecordedStep, StoredStep DEF LastingInv
<1> QED BY <1>1, <1>2, PTL DEF Spec

\* What readers have once found on the site stays there, files and
\* corrections, whatever fails and however often the manager dies
\* (run_full_pipeline, as _run_pipeline_once calls it).
THEOREM ReadersKeepWhatTheyHave == Spec => SiteGoesForward
<1> DEFINE Forward == /\ \A f \in Files : Published(f) => Published(f)'
                      /\ site # None => site' # None /\ site'.corr >= site.corr
<1>1. ASSUME LastingInv, [Next]_vars PROVE [Forward]_vars
  BY <1>1, SiteStep, PublishedStays DEF LastingInv, IInv
<1> QED BY <1>1, LastingInvariant, PTL DEF Spec, SiteGoesForward

\* An upload reported as completed is never queued, processed or failed
\* again while the server lives, and not by a restart that finds the report
\* in the state file (_begin_upload_attempt, _settle_upload_attempt,
\* normalized_upload_history).
THEOREM CompletedStaysCompleted == Spec => CompletedIsFinal
<1> DEFINE Final == \A u \in Uploads :
                      receipt[u] = "completed" =>
                        receipt'[u] = "completed" \/ file.receipt[u] # "completed"
<1>1. ASSUME LastingInv, [Next]_vars PROVE [Final]_vars
  <2> SUFFICES ASSUME NEW u \in Uploads, receipt[u] = "completed"
               PROVE  receipt'[u] = "completed" \/ file.receipt[u] # "completed"
    OBVIOUS
  <2>1. ASSUME NEW v \in Uploads, Record(v) PROVE receipt'[u] = "completed"
    <3>1. u # v
      BY <1>1, <2>1 DEF Record, LastingInv, UnrecordedIsNew
    <3> QED BY <1>1, <2>1, <3>1 DEF Record, LastingInv, IInv, TypeOK, Receipts
  <2>2. CASE Begin
    BY <2>2 DEF Begin, Waiting
  <2>3. CASE Settle
    BY <1>1, <2>3 DEF Settle, Outcome, LastingInv, IInv, CompletedIsPublished, Published
  <2>4. CASE Restart
    BY <2>4 DEF Restart
  <2> QED BY <1>1, <2>1, <2>2, <2>3, <2>4, NextFrames DEF Frames, LastingInv, IInv
<1> QED BY <1>1, LastingInvariant, PTL DEF Spec, CompletedIsFinal
=============================================================================
