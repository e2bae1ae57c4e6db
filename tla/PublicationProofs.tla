------------------------- MODULE PublicationProofs --------------------------
(***************************************************************************)
(* The directory swap implements Site, for any legacy rollback directories *)
(* and any number of builds.                                               *)
(***************************************************************************)
EXTENDS Publication, TLAPS

\* Nothing but the swap itself finds the live name empty beside a rollback,
\* and it only starts the swap when no rollback is in the way.
SwapInv ==
  /\ pc = "set aside" => NoRollback
  /\ pc = "promote" => LegacyPresent = {} /\ live = Absent
  /\ pc = "put back" => LegacyPresent = {} /\ live = Absent
  /\ pc = "drop" => LegacyPresent = {} /\ live # Absent

\* A candidate is newer than anything readers may have, and is only swapped
\* in whole and verified.
CandidateInv ==
  /\ Shown <= lastBuild
  /\ cand # Absent => cand.build = lastBuild /\ Shown < cand.build
  /\ pc \in {"recover again", "set aside", "promote"} =>
        cand # Absent /\ cand.whole /\ verdict = Clean
  /\ pc \in {"check", "decide"} => cand # Absent /\ cand.whole
  /\ pc \in {"idle", "recover", "sweep", "process", "drop"} => cand = Absent
  /\ pc \in {"idle", "recover", "sweep", "process"} => verdict = Unknown
  /\ pc \in {"build", "check"} => ~verdict.gate

SwapProofInv == TypeOK /\ NothingTornIsServed /\ SwapInv /\ CandidateInv

\* What a step may mean to readers.
Kept == Shown' = Shown /\ Ready' = Ready
Refused == Shown' = Shown /\ Ready' = 0
Approved == Shown' = Shown /\ Ready' > Shown
Published == Ready # 0 /\ Shown' = Ready /\ Ready' = 0
Allowed == Kept \/ Refused \/ Approved \/ Published

-----------------------------------------------------------------------------
(* Directories and what readers have.                                      *)

\* A whole tree and a torn one are trees of the same build.
LEMMA TreeFacts ==
  /\ \A b \in Nat \ {0} :
        Whole(b) \in Tree /\ Whole(b).build = b /\ Whole(b).whole = TRUE
  /\ \A dir \in Tree :
        /\ dir # Absent
        /\ dir.build \in Nat \ {0} /\ dir.whole \in BOOLEAN
        /\ Torn(dir) \in Tree /\ Torn(dir).build = dir.build
        /\ Torn(dir).whole = FALSE
<1>1. \A b \in Nat \ {0} :
        Whole(b) \in Tree /\ Whole(b).build = b /\ Whole(b).whole = TRUE
  BY DEF Tree, Whole
<1>2. ASSUME NEW dir \in Tree
      PROVE  dir # Absent /\ dir.build \in Nat \ {0} /\ dir.whole \in BOOLEAN
  BY PublicationAssumption DEF Tree
<1>3. ASSUME NEW dir \in Tree
      PROVE  /\ Torn(dir) \in Tree
             /\ Torn(dir).build = dir.build
             /\ Torn(dir).whole = FALSE
  <2>1. PICK b \in Nat \ {0} : b = dir.build
    BY <1>2
  <2>2. Torn(dir) = [build |-> b, whole |-> FALSE]
    BY <2>1 DEF Torn
  <2>3. QED
    BY <2>1, <2>2 DEF Tree
<1>4. QED
  BY <1>1, <1>2, <1>3

\* Where the build readers have is to be found.
LEMMA ShownFacts ==
  /\ live # Absent => Shown = live.build
  /\ live = Absent /\ backup # Absent => Shown = backup.build
  /\ \A n \in LegacyNames :
        live = Absent /\ backup = Absent /\ LegacyPresent = {n}
          => Shown = legacy[n].build
  /\ live = Absent /\ NoRollback => Shown = 0
  /\ \/ Shown = 0
     \/ live # Absent /\ Shown = live.build
     \/ backup # Absent /\ Shown = backup.build
     \/ \E n \in LegacyPresent : Shown = legacy[n].build
<1>1. ASSUME NEW n \in LegacyNames, LegacyPresent = {n}
      PROVE  (CHOOSE m \in LegacyNames : LegacyPresent = {m}) = n
  BY <1>1
<1>2. QED
  BY <1>1 DEF Shown, NoRollback, LegacyPresent

\* Readers have a build number.
LEMMA ShownIsNat == ASSUME TypeOK PROVE Shown \in Nat
  BY ShownFacts, TreeFacts DEF TypeOK, Dir, LegacyPresent

\* Steps that touch neither the live site nor a rollback leave readers alone.
LEMMA ShownKept == ASSUME UNCHANGED <<live, rollbacks>> PROVE Shown' = Shown
  BY DEF Shown, LegacyPresent, rollbacks

\* What an older version may have left satisfies the invariant.
LEMMA SwapInit == Init => SwapProofInv /\ Ready = 0
<1> SUFFICES ASSUME Init PROVE SwapProofInv /\ Ready = 0
  OBVIOUS
<1>1. live \in Dir /\ backup \in Dir /\ legacy \in [LegacyNames -> Dir]
  BY TreeFacts, PublicationAssumption DEF Init, Dir
<1>2. TypeOK
  BY <1>1, PublicationAssumption
     DEF Init, TypeOK, Dir, Steps, Verdict, Unknown
<1>3. NothingTornIsServed
  BY TreeFacts, PublicationAssumption DEF Init, NothingTornIsServed, LegacyPresent
<1>4. SwapInv
  BY DEF Init, SwapInv
<1>5. Shown <= lastBuild
  <2>1. live # Absent => live.build <= OldBuilds
    BY TreeFacts, PublicationAssumption DEF Init
  <2>2. \A n \in LegacyPresent : legacy[n].build <= OldBuilds
    BY TreeFacts, PublicationAssumption DEF Init, LegacyPresent
  <2>3. QED
    BY <2>1, <2>2, ShownFacts, PublicationAssumption DEF Init
<1>6. CandidateInv
  BY <1>5 DEF Init, CandidateInv
<1>7. Ready = 0
  BY DEF Init, Ready
<1>8. QED
  BY <1>2, <1>3, <1>4, <1>6, <1>7 DEF SwapProofInv

-----------------------------------------------------------------------------
(* Steps that leave the live site and the rollbacks alone.                 *)

\* What all of them have in common.
LEMMA AloneFacts ==
  ASSUME SwapProofInv, UNCHANGED <<live, rollbacks>>
  PROVE  /\ Shown' = Shown /\ Shown \in Nat
         /\ NothingTornIsServed' /\ LegacyPresent' = LegacyPresent
         /\ NoRollback' = NoRollback
<1>1. Shown' = Shown /\ Shown \in Nat
  BY ShownKept, ShownIsNat DEF SwapProofInv
<1>2. QED
  BY <1>1 DEF SwapProofInv, NothingTornIsServed, LegacyPresent, NoRollback, rollbacks

\* Recovery ends, with nothing in the way or in an error, and goes on to what
\* comes next.
LEMMA RecoveryEnds ==
  ASSUME SwapProofInv, StartRun \/ RefuseRecovery \/ Recovered \/ SweepCandidates
  PROVE  SwapProofInv' /\ Allowed
<1>1. UNCHANGED <<live, rollbacks, cand, lastBuild, verdict>> /\ leftovers' \in BOOLEAN
  BY DEF StartRun, RefuseRecovery, Recovered, SweepCandidates, SwapProofInv, TypeOK
<1>2. Ready' = Ready
  BY <1>1 DEF Ready
<1>3. /\ pc' \in Steps /\ pc' \notin {"promote", "put back", "drop", "build", "check", "decide"}
      /\ pc' = "set aside" => NoRollback /\ pc = "recover again"
      /\ pc' = "recover again" => pc = "recover again"
      /\ pc' \in {"idle", "recover", "sweep", "process"} => 
            pc \in {"idle", "recover", "sweep", "process"}
  BY DEF StartRun, RefuseRecovery, Recovered, SweepCandidates, Recovering,
         AfterError, Steps
<1>4. TypeOK'
  BY <1>1, <1>3 DEF SwapProofInv, TypeOK, rollbacks
<1>5. SwapInv'
  BY <1>1, <1>3, AloneFacts DEF SwapInv
<1>6. CandidateInv'
  BY <1>1, <1>3, AloneFacts DEF SwapProofInv, CandidateInv
<1>7. QED
  BY <1>1, <1>2, <1>4, <1>5, <1>6, AloneFacts DEF SwapProofInv, Allowed, Kept

\* Processing only settles whether the queue is drained.
LEMMA ProcessStep == ASSUME SwapProofInv, Process PROVE SwapProofInv' /\ Allowed
<1>1. UNCHANGED <<live, rollbacks, leftovers, cand, lastBuild>> /\ pc = "process"
      /\ pc' \in {"build", "idle"} /\ cand = Absent
  BY DEF Process, SwapProofInv, CandidateInv
<1>2. verdict' \in Verdict /\ verdict'.gate = FALSE /\ (pc' = "idle" => verdict' = Unknown)
  <2>1. CASE verdict' = Unknown
    BY <2>1 DEF Verdict, Unknown
  <2>2. CASE verdict' # Unknown
    <3>1. pc' = "build"
      BY <2>2 DEF Process
    <3>2. PICK drained \in BOOLEAN :
             verdict' = [drained |-> drained, gate |-> FALSE, healthy |-> FALSE]
      BY <2>2, Zenon DEF Process
    <3>3. verdict' \in Verdict /\ verdict'.gate = FALSE
      BY <3>2, Zenon DEF Verdict
    <3>4. QED
      BY <3>1, <3>3
  <2>3. QED
    BY <2>1, <2>2
<1>3. TypeOK' /\ SwapInv' /\ CandidateInv'
  BY <1>1, <1>2, AloneFacts
     DEF SwapProofInv, TypeOK, Steps, SwapInv, CandidateInv, rollbacks
<1>4. Ready' = Ready
  BY <1>1 DEF Ready
<1>5. QED
  BY <1>1, <1>3, <1>4, AloneFacts DEF SwapProofInv, Allowed, Kept

\* The new candidate has the newest build number and is not whole yet.
LEMMA MakeStep == ASSUME SwapProofInv, MakeCandidate PROVE SwapProofInv' /\ Allowed
<1>1. /\ UNCHANGED <<live, rollbacks, leftovers, verdict, pc>>
      /\ pc = "build" /\ cand = Absent /\ lastBuild' = lastBuild + 1
      /\ cand' = Torn(Whole(lastBuild'))
  BY DEF MakeCandidate
<1>2. cand' \in Tree /\ cand'.build = lastBuild' /\ cand'.whole = FALSE
  BY <1>1, TreeFacts DEF SwapProofInv, TypeOK
<1>3. TypeOK' /\ SwapInv' /\ CandidateInv'
  BY <1>1, <1>2, AloneFacts
     DEF SwapProofInv, TypeOK, Dir, SwapInv, CandidateInv, rollbacks
<1>4. Ready' = Ready
  BY <1>1, <1>2 DEF Ready
<1>5. QED
  BY <1>1, <1>3, <1>4, AloneFacts DEF SwapProofInv, Allowed, Kept

\* A built candidate is whole; a build that raises goes to the finally clause.
LEMMA BuildStep == ASSUME SwapProofInv, BuildSite PROVE SwapProofInv' /\ Allowed
<1>1. /\ UNCHANGED <<live, rollbacks, leftovers, lastBuild, verdict>>
      /\ pc = "build" /\ cand # Absent
      /\ \/ cand' = Whole(cand.build) /\ pc' = "check"
         \/ cand' = cand /\ pc' = "discard"
  BY DEF BuildSite
<1>2. cand \in Tree /\ cand' \in Tree /\ cand'.build = cand.build /\ verdict # Clean
  BY <1>1, TreeFacts
     DEF SwapProofInv, TypeOK, Dir, CandidateInv, Clean
<1>3. TypeOK' /\ SwapInv' /\ CandidateInv'
  BY <1>1, <1>2, TreeFacts, AloneFacts
     DEF SwapProofInv, TypeOK, Steps, Dir, SwapInv, CandidateInv, rollbacks
<1>4. Ready' = 0
  BY <1>1, <1>2 DEF Ready
<1>5. QED
  BY <1>1, <1>3, <1>4, AloneFacts DEF SwapProofInv, Allowed, Refused

\* The checks are what makes a candidate ready.
LEMMA CheckStep == ASSUME SwapProofInv, Check PROVE SwapProofInv' /\ Allowed
<1>1. /\ UNCHANGED <<live, rollbacks, leftovers, cand, lastBuild>>
      /\ pc = "check" /\ cand # Absent /\ cand.whole /\ pc' \in {"decide", "discard"}
  BY DEF Check, SwapProofInv, CandidateInv
<1>2. verdict' \in Verdict
  BY DEF Check, SwapProofInv, TypeOK, Verdict
<1>3. TypeOK' /\ SwapInv' /\ CandidateInv'
  BY <1>1, <1>2, AloneFacts
     DEF SwapProofInv, TypeOK, Steps, SwapInv, CandidateInv, rollbacks
<1>4. Ready' = 0 \/ Ready' > Shown
  BY <1>1, AloneFacts DEF Ready, SwapProofInv, CandidateInv
<1>5. QED
  BY <1>1, <1>3, <1>4, AloneFacts DEF SwapProofInv, Allowed, Refused, Approved

\* Only a whole candidate with a clean verdict goes on to the swap.
LEMMA DecideStep == ASSUME SwapProofInv, Decide PROVE SwapProofInv' /\ Allowed
<1>1. /\ UNCHANGED <<live, rollbacks, leftovers, cand, lastBuild, verdict>>
      /\ pc = "decide" /\ cand # Absent /\ cand.whole /\ pc' \in {"recover again", "discard"}
      /\ pc' = "recover again" => verdict.drained /\ verdict.gate /\ verdict.healthy
  BY DEF Decide, SwapProofInv, CandidateInv
<1>2. pc' = "recover again" => verdict = Clean
  BY <1>1 DEF SwapProofInv, TypeOK, Verdict, Clean
<1>3. TypeOK' /\ SwapInv' /\ CandidateInv'
  BY <1>1, <1>2, AloneFacts
     DEF SwapProofInv, TypeOK, Steps, SwapInv, CandidateInv, rollbacks
<1>4. Ready' = Ready
  BY <1>1 DEF Ready
<1>5. QED
  BY <1>1, <1>3, <1>4, AloneFacts DEF SwapProofInv, Allowed, Kept

\* A run that ends or dies leaves at most a forgotten candidate.
LEMMA LeaveStep ==
  ASSUME SwapProofInv, Discard \/ Crash PROVE SwapProofInv' /\ Allowed
<1>1. /\ UNCHANGED <<live, rollbacks, lastBuild>> /\ leftovers' \in BOOLEAN
      /\ cand' = Absent /\ verdict' = Unknown /\ pc' = "idle"
  BY DEF Discard, Crash, SwapProofInv, TypeOK
<1>2. TypeOK' /\ SwapInv' /\ CandidateInv'
  BY <1>1, AloneFacts
     DEF SwapProofInv, TypeOK, Dir, Steps, SwapInv, CandidateInv, rollbacks,
         Verdict, Unknown
<1>3. Ready' = 0
  BY <1>1 DEF Ready
<1>4. QED
  BY <1>1, <1>2, <1>3, AloneFacts DEF SwapProofInv, Allowed, Refused

-----------------------------------------------------------------------------
(* Recovery and the swap.                                                  *)

\* Rollbacks are only removed beside a live site.
LEMMA RemoveStep == ASSUME SwapProofInv, RemoveRollback PROVE SwapProofInv' /\ Allowed
<1>1. /\ UNCHANGED <<live, leftovers, cand, lastBuild, verdict>>
      /\ live # Absent /\ Recovering
      /\ pc' \in {pc, AfterError}
  BY DEF RemoveRollback
<1>2. backup' \in Dir /\ legacy' \in [LegacyNames -> Dir]
  <2>1. CASE /\ backup # Absent
             /\ backup' \in Rmtree(backup)
             /\ UNCHANGED legacy
    BY <2>1, TreeFacts DEF SwapProofInv, TypeOK, Dir, Rmtree
  <2>2. CASE /\ \E n \in LegacyPresent :
                   legacy' \in {[legacy EXCEPT ![n] = d] : d \in Rmtree(legacy[n])}
             /\ UNCHANGED backup
    <3>1. PICK n \in LegacyPresent :
            \E d \in Rmtree(legacy[n]) : legacy' = [legacy EXCEPT ![n] = d]
      BY <2>2
    <3>2. legacy[n] \in Tree
      BY <3>1 DEF LegacyPresent, SwapProofInv, TypeOK, Dir
    <3>3. Rmtree(legacy[n]) \subseteq Dir
      BY <3>2, TreeFacts DEF Rmtree, Dir
    <3>4. QED
      BY <2>2, <3>1, <3>3 DEF SwapProofInv, TypeOK
  <2>3. QED
    BY <2>1, <2>2 DEF RemoveRollback
<1>3. Shown' = Shown /\ Ready' = Ready
  BY <1>1 DEF Shown, Ready
<1>4. NothingTornIsServed'
  BY <1>1 DEF SwapProofInv, NothingTornIsServed
<1>5. pc' \in {"idle", "recover", "recover again", "discard"}
      /\ (pc' = "recover again" => pc = "recover again")
      /\ (pc' \in {"idle", "recover"} => pc = "recover")
  BY <1>1 DEF Recovering, AfterError
<1>6. TypeOK' /\ SwapInv' /\ CandidateInv'
  BY <1>1, <1>2, <1>3, <1>5
     DEF SwapProofInv, TypeOK, Steps, SwapInv, CandidateInv
<1>7. QED
  BY <1>3, <1>4, <1>6 DEF SwapProofInv, Allowed, Kept

\* What a recovery restores is what readers were to get back.
LEMMA RestoreStep == ASSUME SwapProofInv, RestoreRollback PROVE SwapProofInv' /\ Allowed
<1>1. /\ UNCHANGED <<leftovers, cand, lastBuild, verdict, pc>>
      /\ live = Absent /\ Recovering
  BY DEF RestoreRollback
<1>2. /\ live' \in Tree /\ live'.whole /\ Shown = live'.build
      /\ backup' \in Dir /\ legacy' \in [LegacyNames -> Dir]
  <2>1. CASE backup # Absent /\ live' = backup /\ backup' = Absent /\ UNCHANGED legacy
    BY <1>1, <2>1, ShownFacts
       DEF SwapProofInv, TypeOK, Dir, NothingTornIsServed
  <2>2. CASE /\ backup = Absent /\ UNCHANGED backup
             /\ \E n \in LegacyNames :
                  /\ LegacyPresent = {n}
                  /\ live' = legacy[n]
                  /\ legacy' = [legacy EXCEPT ![n] = Absent]
    <3>1. PICK n \in LegacyNames : /\ LegacyPresent = {n}
                                   /\ live' = legacy[n]
                                   /\ legacy' = [legacy EXCEPT ![n] = Absent]
      BY <2>2
    <3>2. n \in LegacyPresent /\ legacy[n] \in Tree /\ legacy[n].whole
      BY <1>1, <3>1
         DEF LegacyPresent, SwapProofInv, TypeOK, Dir, NothingTornIsServed
    <3>3. legacy' \in [LegacyNames -> Dir]
      BY <3>1 DEF SwapProofInv, TypeOK, Dir
    <3>4. QED
      BY <1>1, <2>2, <3>1, <3>2, <3>3, ShownFacts DEF SwapProofInv, TypeOK
  <2>3. QED
    BY <2>1, <2>2 DEF RestoreRollback
<1>3. live' # Absent /\ Shown' = Shown /\ Ready' = Ready
  BY <1>1, <1>2, TreeFacts DEF Shown, Ready
<1>4. NothingTornIsServed'
  BY <1>2, <1>3 DEF NothingTornIsServed
<1>5. TypeOK' /\ SwapInv' /\ CandidateInv'
  BY <1>1, <1>2, <1>3
     DEF SwapProofInv, TypeOK, Dir, SwapInv, CandidateInv, Recovering
<1>6. QED
  BY <1>3, <1>4, <1>5 DEF SwapProofInv, Allowed, Kept

\* Setting the site aside takes it from readers only until a recovery.
LEMMA SetAsideStep == ASSUME SwapProofInv, SetAside PROVE SwapProofInv' /\ Allowed
<1>1. /\ UNCHANGED <<legacy, leftovers, cand, lastBuild, verdict>>
      /\ pc = "set aside" /\ backup = Absent /\ LegacyPresent = {}
      /\ LegacyPresent' = {}
      /\ \/ backup' = live /\ live' = Absent /\ pc' = "promote"
         \/ UNCHANGED <<live, backup>> /\ pc' = "discard"
  BY DEF SetAside, SwapProofInv, SwapInv, NoRollback, LegacyPresent
<1>2. Shown' = Shown /\ Ready' = Ready
  BY <1>1 DEF Shown, Ready, LegacyPresent
<1>3. NothingTornIsServed'
  BY <1>1 DEF SwapProofInv, NothingTornIsServed
<1>4. TypeOK' /\ SwapInv' /\ CandidateInv'
  BY <1>1, <1>2
     DEF SwapProofInv, TypeOK, Dir, Steps, SwapInv, CandidateInv
<1>5. QED
  BY <1>2, <1>3, <1>4 DEF SwapProofInv, Allowed, Kept

\* The one step that shows readers something else.
LEMMA PromoteStep == ASSUME SwapProofInv, Promote PROVE SwapProofInv' /\ Allowed
<1>1. /\ UNCHANGED <<rollbacks, leftovers, lastBuild, verdict>>
      /\ pc = "promote" /\ LegacyPresent = {} /\ LegacyPresent' = {}
      /\ live = Absent /\ cand # Absent /\ cand.whole /\ verdict = Clean
      /\ cand \in Tree
  BY DEF Promote, SwapProofInv, SwapInv, CandidateInv, LegacyPresent, rollbacks,
         TypeOK, Dir
<1>2. CASE live' = cand /\ cand' = Absent /\ pc' = "drop"
  <2>1. Ready = cand.build /\ Ready' = 0 /\ Shown' = cand.build /\ cand.build # 0
    BY <1>1, <1>2, TreeFacts DEF Ready, Shown
  <2>2. NothingTornIsServed'
    BY <1>1, <1>2 DEF NothingTornIsServed
  <2>3. TypeOK' /\ SwapInv' /\ CandidateInv'
    BY <1>1, <1>2, <2>1
       DEF SwapProofInv, TypeOK, Dir, Steps, SwapInv, CandidateInv, rollbacks
  <2>4. QED
    BY <2>1, <2>2, <2>3 DEF SwapProofInv, Allowed, Published
<1>3. CASE UNCHANGED <<live, cand>> /\ pc' = "put back"
  <2>1. Ready' = Ready
    BY <1>1, <1>3 DEF Ready
  <2>2. TypeOK' /\ SwapInv' /\ CandidateInv'
    BY <1>1, <1>3, AloneFacts
       DEF SwapProofInv, TypeOK, Steps, SwapInv, CandidateInv, rollbacks
  <2>3. QED
    BY <1>1, <1>3, <2>1, <2>2, AloneFacts DEF SwapProofInv, Allowed, Kept
<1>4. QED
  BY <1>2, <1>3 DEF Promote

\* The except clause brings back what was set aside, or leaves it to recovery.
LEMMA PutBackStep == ASSUME SwapProofInv, PutBack PROVE SwapProofInv' /\ Allowed
<1>1. /\ UNCHANGED <<legacy, leftovers, cand, lastBuild, verdict>>
      /\ pc = "put back" /\ live = Absent /\ LegacyPresent = {} /\ LegacyPresent' = {}
      /\ pc' = "discard"
      /\ \/ backup # Absent /\ live' = backup /\ backup' = Absent
         \/ UNCHANGED <<live, backup>>
  BY DEF PutBack, SwapProofInv, SwapInv, LegacyPresent
<1>2. Shown' = Shown /\ Ready' = Ready
  BY <1>1 DEF Shown, Ready, LegacyPresent
<1>3. NothingTornIsServed'
  BY <1>1 DEF SwapProofInv, NothingTornIsServed
<1>4. TypeOK' /\ SwapInv' /\ CandidateInv'
  BY <1>1, <1>2
     DEF SwapProofInv, TypeOK, Dir, Steps, SwapInv, CandidateInv
<1>5. QED
  BY <1>2, <1>3, <1>4 DEF SwapProofInv, Allowed, Kept

\* What becomes of the old site beside the new one changes nothing.
LEMMA DropStep == ASSUME SwapProofInv, DropBackup PROVE SwapProofInv' /\ Allowed
<1>1. /\ UNCHANGED <<live, legacy, leftovers, cand, lastBuild, verdict>>
      /\ pc = "drop" /\ live # Absent /\ pc' = "discard"
  BY DEF DropBackup, SwapProofInv, SwapInv
<1>2. backup' \in Dir
  BY TreeFacts DEF DropBackup, Rmtree, SwapProofInv, TypeOK, Dir
<1>3. Shown' = Shown /\ Ready' = Ready
  BY <1>1 DEF Shown, Ready
<1>4. NothingTornIsServed' /\ TypeOK' /\ SwapInv' /\ CandidateInv'
  BY <1>1, <1>2, <1>3
     DEF SwapProofInv, NothingTornIsServed, TypeOK, Steps, SwapInv, CandidateInv
<1>5. QED
  BY <1>3, <1>4 DEF SwapProofInv, Allowed, Kept

\* Every step keeps the invariant and means to readers something allowed.
LEMMA SwapStep == SwapProofInv /\ [Next]_vars => SwapProofInv' /\ Allowed
<1> SUFFICES ASSUME SwapProofInv, [Next]_vars PROVE SwapProofInv' /\ Allowed
  OBVIOUS
<1>1. CASE UNCHANGED vars
  <2>1. Shown' = Shown /\ Ready' = Ready
    BY <1>1 DEF vars, Shown, Ready, LegacyPresent
  <2>2. TypeOK' /\ NothingTornIsServed' /\ SwapInv' /\ CandidateInv'
    BY <1>1, <2>1 DEF vars, SwapProofInv, TypeOK, NothingTornIsServed, SwapInv,
                      CandidateInv, NoRollback, LegacyPresent
  <2>3. QED
    BY <2>1, <2>2 DEF SwapProofInv, Allowed, Kept
<1>2. CASE Next
  BY <1>2, RecoveryEnds, ProcessStep, MakeStep, BuildStep, CheckStep, DecideStep,
     LeaveStep, RemoveStep, RestoreStep, SetAsideStep, PromoteStep, PutBackStep,
     DropStep DEF Next, Run
<1>3. QED
  BY <1>1, <1>2

\* So the invariant holds in every reachable state.
LEMMA SwapInvHolds == Spec => []SwapProofInv
  BY SwapInit, SwapStep, PTL DEF Spec

-----------------------------------------------------------------------------
(* The results.                                                            *)

\* The types of the publication state.
THEOREM PublicationTypeCorrect == Spec => []TypeOK
<1>1. SwapProofInv => TypeOK
  BY DEF SwapProofInv
<1>2. QED
  BY <1>1, SwapInvHolds, PTL

\* Readers never see half a site.
THEOREM SitesAreWhole == Spec => []NothingTornIsServed
<1>1. SwapProofInv => NothingTornIsServed
  BY DEF SwapProofInv
<1>2. QED
  BY <1>1, SwapInvHolds, PTL

\* The swap implements the promise to readers.
THEOREM PublicationImplementsSite == Spec => KeepsPromise
<1>1. Init => Promised!SiteInit
  BY SwapInit, ShownIsNat DEF SwapProofInv, Promised!SiteInit
<1>2. SwapProofInv /\ [Next]_vars => [Promised!SiteNext]_(Promised!siteVars)
  BY SwapStep DEF Allowed, Kept, Refused, Approved, Published,
     Promised!SiteNext, Promised!Verify, Promised!Replace, Promised!GiveUp,
     Promised!siteVars
<1>3. QED
  BY <1>1, <1>2, SwapInvHolds, PTL DEF Spec, KeepsPromise, Promised!SiteSpec
-----------------------------------------------------------------------------
(* What this means to the directories.                                     *)

\* Readers are moved by the candidate of a run that found it verified, never
\* back; and the live site leaves its name only into the rollback directory,
\* for a verified candidate that stands ready.
ReadersMoveForward ==
  [][/\ Shown' >= Shown
     /\ Shown' # Shown => verdict = Clean /\ cand # Absent /\ cand.whole /\ Shown' = cand.build
     /\ live # Absent /\ live' = Absent =>
          verdict = Clean /\ cand # Absent /\ cand.whole /\ backup' = live]_vars

LEMMA OnlySetAsideEmpties ==
  ASSUME [Next]_vars, live # Absent, live' = Absent
  PROVE  SetAside \/ Promote \/ PutBack \/ RestoreRollback
  BY DEF Next, Run, StartRun, RemoveRollback, RefuseRecovery, Recovered, SweepCandidates,
         Process, MakeCandidate, BuildSite, Check, Decide, DropBackup, Discard, Crash, vars

\* A site that readers have is replaced only by a newer, whole and verified
\* one, and is set aside only for one (_publish_candidate).
THEOREM SitesOnlyMoveForward == Spec => ReadersMoveForward
<1> DEFINE Forward ==
      /\ Shown' >= Shown
      /\ Shown' # Shown => verdict = Clean /\ cand # Absent /\ cand.whole /\ Shown' = cand.build
      /\ live # Absent /\ live' = Absent =>
           verdict = Clean /\ cand # Absent /\ cand.whole /\ backup' = live
<1>1. ASSUME SwapProofInv, [Next]_vars PROVE [Forward]_vars
  <2>1. Shown \in Nat /\ Ready \in Nat
    BY <1>1, ShownIsNat DEF SwapProofInv, Ready, TypeOK, Dir, Tree
  <2>2. Allowed
    BY <1>1, SwapStep
  <2>3. Shown' = Shown \/ (Ready # 0 /\ Shown' = Ready)
    BY <2>2 DEF Allowed, Kept, Refused, Approved, Published
  <2>4. Ready # 0 => verdict = Clean /\ cand # Absent /\ cand.whole /\ Ready = cand.build /\ Shown < Ready
    BY <1>1 DEF Ready, SwapProofInv, CandidateInv
  <2>5. ASSUME live # Absent, live' = Absent
        PROVE  verdict = Clean /\ cand # Absent /\ cand.whole /\ backup' = live
    <3>1. SetAside
      BY <1>1, <2>5, OnlySetAsideEmpties
      DEF Promote, PutBack, RestoreRollback, SwapProofInv, SwapInv
    <3> QED BY <1>1, <2>5, <3>1 DEF SetAside, SwapProofInv, CandidateInv
  <2> QED BY <2>1, <2>3, <2>4, <2>5
<1> QED BY <1>1, SwapInvHolds, PTL DEF Spec, ReadersMoveForward
=============================================================================
