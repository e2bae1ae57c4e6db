---------------------------- MODULE Publication -----------------------------
(***************************************************************************)
(* The publishing half of run_full_pipeline in automation.py: recover what *)
(* an interrupted run left, process, build a candidate, verify it, and     *)
(* swap it in with two renames.                                            *)
(*                                                                         *)
(* A run holds the project lock, so runs do not overlap, but every file    *)
(* system call may fail and the process may die before or after any of     *)
(* them.  Renames are atomic; removing or writing a tree is not, and a run *)
(* that dies or fails in it leaves a torn directory.                       *)
(***************************************************************************)
EXTENDS Naturals, FiniteSets

CONSTANTS LegacyNames, \* names of rollback directories older versions used
          OldBuilds,   \* how many builds older versions had made
          Absent,      \* no such directory
          MaxBuilds    \* bound on the builds made in the model

ASSUME PublicationAssumption ==
  /\ OldBuilds \in Nat
  /\ MaxBuilds \in Nat
  /\ Absent \notin [build : Nat \ {0}, whole : BOOLEAN]
  /\ IsFiniteSet(LegacyNames)

Tree == [build : Nat \ {0}, whole : BOOLEAN]
Dir == Tree \cup {Absent}
Whole(b) == [build |-> b, whole |-> TRUE]
Torn(dir) == [build |-> dir.build, whole |-> FALSE]

Verdict == [drained : BOOLEAN, gate : BOOLEAN, healthy : BOOLEAN]
Clean == [drained |-> TRUE, gate |-> TRUE, healthy |-> TRUE]
Unknown == [drained |-> FALSE, gate |-> FALSE, healthy |-> FALSE]

VARIABLES live,      \* site/dist
          backup,    \* .dist-rollback
          legacy,    \* .dist-rollback-*
          leftovers, \* .dist-candidate-* of dead runs: none, or some
          cand,      \* the candidate of the current run
          lastBuild, \* number of the newest build
          verdict,   \* queue drained (read before building), gate, health
          pc         \* where the run is

vars == <<live, backup, legacy, leftovers, cand, lastBuild, verdict, pc>>
rollbacks == <<backup, legacy>>

Steps == {"idle", "recover", "sweep", "process", "build", "check", "decide",
          "recover again", "set aside", "promote", "put back", "drop", "discard"}

TypeOK ==
  /\ live \in Dir
  /\ backup \in Dir
  /\ legacy \in [LegacyNames -> Dir]
  /\ leftovers \in BOOLEAN
  /\ cand \in Dir
  /\ lastBuild \in Nat
  /\ verdict \in Verdict
  /\ pc \in Steps

LegacyPresent == {n \in LegacyNames : legacy[n] # Absent}
NoRollback == backup = Absent /\ LegacyPresent = {}
Recovering == pc \in {"recover", "recover again"}

\* The state an older version, or its crash, may have left.
Init ==
  /\ live \in {Absent} \cup {Whole(b) : b \in 1 .. OldBuilds}
  /\ backup = Absent
  /\ legacy \in [LegacyNames -> {Absent} \cup {Whole(b) : b \in 1 .. OldBuilds}]
  /\ leftovers = FALSE
  /\ cand = Absent
  /\ lastBuild = OldBuilds
  /\ verdict = Unknown
  /\ pc = "idle"

-----------------------------------------------------------------------------
(* _recover_publication: before anything else, and again before the swap.  *)

StartRun ==
  /\ pc = "idle"
  /\ pc' = "recover"
  /\ UNCHANGED <<live, rollbacks, leftovers, cand, lastBuild, verdict>>

\* rmtree of one rollback directory: gone, or an error half way that ends
\* the recovery and with it the run.
Rmtree(dir) == {Absent, Torn(dir)}

AfterError == IF pc = "recover" THEN "idle" ELSE "discard"

\* With a live site every rollback directory is stale.
RemoveRollback ==
  /\ Recovering
  /\ live # Absent
  /\ \/ /\ backup # Absent
        /\ backup' \in Rmtree(backup)
        /\ pc' = IF backup' = Absent THEN pc ELSE AfterError
        /\ UNCHANGED legacy
     \/ \E n \in LegacyPresent :
        /\ legacy' \in {[legacy EXCEPT ![n] = d] : d \in Rmtree(legacy[n])}
        /\ pc' = IF legacy'[n] = Absent THEN pc ELSE AfterError
        /\ UNCHANGED backup
  /\ UNCHANGED <<live, leftovers, cand, lastBuild, verdict>>

\* Mutant of RestoreRollback: legacy names are only cleaned up, never used.
RestoreBackupOnly ==
  /\ Recovering
  /\ live = Absent
  /\ backup # Absent
  /\ live' = backup
  /\ backup' = Absent
  /\ UNCHANGED <<legacy, leftovers, cand, lastBuild, verdict, pc>>

\* Without one, the rollback directory, or the only legacy one, is the site.
RestoreRollback ==
  /\ Recovering
  /\ live = Absent
  /\ \/ /\ backup # Absent
        /\ live' = backup
        /\ backup' = Absent
        /\ UNCHANGED legacy
     \/ /\ backup = Absent
        /\ \E n \in LegacyNames :
              /\ LegacyPresent = {n}
              /\ live' = legacy[n]
              /\ legacy' = [legacy EXCEPT ![n] = Absent]
        /\ UNCHANGED backup
  /\ UNCHANGED <<leftovers, cand, lastBuild, verdict, pc>>

\* "multiple rollback sites require manual recovery", or os.replace failed.
RefuseRecovery ==
  /\ Recovering
  /\ live = Absent
  /\ ~NoRollback
  /\ pc' = AfterError
  /\ UNCHANGED <<live, rollbacks, leftovers, cand, lastBuild, verdict>>

Recovered ==
  /\ Recovering
  /\ NoRollback
  /\ pc' = IF pc = "recover" THEN "sweep" ELSE "set aside"
  /\ UNCHANGED <<live, rollbacks, leftovers, cand, lastBuild, verdict>>

SweepCandidates ==
  /\ pc = "sweep"
  /\ \/ leftovers' = FALSE /\ pc' = "process"
     \/ leftovers /\ UNCHANGED leftovers /\ pc' = "idle"
  /\ UNCHANGED <<live, rollbacks, cand, lastBuild, verdict>>

-----------------------------------------------------------------------------
(* Process, build and verify.                                              *)

\* sync_taxonomy .. build_site_data: the queue is drained or not, or an
\* exception ends the run.
Process ==
  /\ pc = "process"
  /\ \/ /\ \E drained \in BOOLEAN :
              verdict' = [drained |-> drained, gate |-> FALSE, healthy |-> FALSE]
        /\ pc' = "build"
     \/ verdict' = Unknown /\ pc' = "idle"
  /\ UNCHANGED <<live, rollbacks, leftovers, cand, lastBuild>>

\* _candidate_directory: an empty directory beside the live site.
MakeCandidate ==
  /\ pc = "build"
  /\ cand = Absent
  /\ lastBuild < MaxBuilds
  /\ lastBuild' = lastBuild + 1
  /\ cand' = Torn(Whole(lastBuild'))
  /\ UNCHANGED <<live, rollbacks, leftovers, verdict, pc>>

\* Mutant of BuildSite: a build that raises is checked all the same.
BuildSiteOrPart ==
  /\ pc = "build"
  /\ cand # Absent
  /\ cand' \in {cand, Whole(cand.build)}
  /\ pc' = "check"
  /\ UNCHANGED <<live, rollbacks, leftovers, lastBuild, verdict>>

\* build_site fills it, or raises.
BuildSite ==
  /\ pc = "build"
  /\ cand # Absent
  /\ \/ cand' = Whole(cand.build) /\ pc' = "check"
     \/ UNCHANGED cand /\ pc' = "discard"
  /\ UNCHANGED <<live, rollbacks, leftovers, lastBuild, verdict>>

\* run_prebuild_gate and run_health_checks, either of which may raise.
Check ==
  /\ pc = "check"
  /\ \/ /\ \E gate, healthy \in BOOLEAN :
              verdict' = [verdict EXCEPT !.gate = gate, !.healthy = healthy]
        /\ pc' = "decide"
     \/ UNCHANGED verdict /\ pc' = "discard"
  /\ UNCHANGED <<live, rollbacks, leftovers, cand, lastBuild>>

\* Mutant of Decide: the queue need not be drained.
DecideUndrained ==
  /\ pc = "decide"
  /\ pc' = IF verdict.gate /\ verdict.healthy THEN "recover again" ELSE "discard"
  /\ UNCHANGED <<live, rollbacks, leftovers, cand, lastBuild, verdict>>

Decide ==
  /\ pc = "decide"
  /\ pc' = IF verdict.drained /\ verdict.gate /\ verdict.healthy
           THEN "recover again" ELSE "discard"
  /\ UNCHANGED <<live, rollbacks, leftovers, cand, lastBuild, verdict>>

-----------------------------------------------------------------------------
(* _publish_candidate.                                                     *)

\* os.replace(site_output, backup), if there is a live site.
SetAside ==
  /\ pc = "set aside"
  /\ \/ /\ backup' = live
        /\ live' = Absent
        /\ pc' = "promote"
     \/ UNCHANGED <<live, backup>> /\ pc' = "discard"
  /\ UNCHANGED <<legacy, leftovers, cand, lastBuild, verdict>>

\* os.replace(candidate, site_output).
Promote ==
  /\ pc = "promote"
  /\ \/ live' = cand /\ cand' = Absent /\ pc' = "drop"
     \/ UNCHANGED <<live, cand>> /\ pc' = "put back"
  /\ UNCHANGED <<rollbacks, leftovers, lastBuild, verdict>>

\* The except clause; its own rename may fail as well.
PutBack ==
  /\ pc = "put back"
  /\ \/ backup # Absent /\ live' = backup /\ backup' = Absent
     \/ UNCHANGED <<live, backup>>
  /\ pc' = "discard"
  /\ UNCHANGED <<legacy, leftovers, cand, lastBuild, verdict>>

\* rmtree(backup), whose errors are ignored.
DropBackup ==
  /\ pc = "drop"
  /\ backup' \in IF backup = Absent THEN {Absent} ELSE {backup} \cup Rmtree(backup)
  /\ pc' = "discard"
  /\ UNCHANGED <<live, legacy, leftovers, cand, lastBuild, verdict>>

\* The finally clause: what is left of the candidate goes, or stays behind.
Discard ==
  /\ pc = "discard"
  /\ leftovers' \in IF cand = Absent THEN {leftovers} ELSE {leftovers, TRUE}
  /\ cand' = Absent
  /\ verdict' = Unknown
  /\ pc' = "idle"
  /\ UNCHANGED <<live, rollbacks, lastBuild>>

\* The process dies, possibly inside an rmtree of a rollback directory.
Crash ==
  /\ pc # "idle"
  /\ leftovers' = (leftovers \/ cand # Absent)
  /\ cand' = Absent
  /\ verdict' = Unknown
  /\ pc' = "idle"
  /\ UNCHANGED <<live, rollbacks, lastBuild>>

Run ==
  \/ StartRun
  \/ RemoveRollback
  \/ RestoreRollback
  \/ RefuseRecovery
  \/ Recovered
  \/ SweepCandidates
  \/ Process
  \/ MakeCandidate
  \/ BuildSite
  \/ Check
  \/ Decide
  \/ SetAside
  \/ Promote
  \/ PutBack
  \/ DropBackup
  \/ Discard

Next == Run \/ Crash

Spec == Init /\ [][Next]_vars

\* The manager starts runs as long as there is no live site, a run goes on
\* until it ends or dies, and the rename that brings a site back, tried by
\* every run, succeeds in the end.
FairSpec == Spec /\ WF_vars(Run) /\ SF_vars(RestoreRollback)

-----------------------------------------------------------------------------
(* What readers get.                                                       *)

\* The build readers have, or get back once a recovery has run.
Shown ==
  IF live # Absent THEN live.build
  ELSE IF backup # Absent THEN backup.build
  ELSE IF \E n \in LegacyNames : LegacyPresent = {n}
  THEN (legacy[CHOOSE n \in LegacyNames : LegacyPresent = {n}]).build
  ELSE 0

\* The candidate, once everything that must be true of it is.
Ready == IF cand # Absent /\ cand.whole /\ verdict = Clean THEN cand.build ELSE 0

Promised == INSTANCE Site WITH shown <- Shown, ready <- Ready

\* The directory swap keeps the promise of Site: readers are moved to newer
\* verified builds only, and back to none or to an older one never, whichever
\* rename or removal fails and wherever the process dies.
KeepsPromise == Promised!SiteSpec

\* Readers, who are served from the live directory at any moment, never see
\* half a site, and what a recovery would bring back is whole as well.
NothingTornIsServed ==
  /\ live # Absent => live.whole
  /\ live = Absent => (backup # Absent => backup.whole)
                       /\ \A n \in LegacyPresent : legacy[n].whole

\* Readers who had a site and lost it to a run that died or failed between the
\* two renames get one again.
GapCloses == live = Absent /\ Shown # 0 ~> live # Absent
=============================================================================
