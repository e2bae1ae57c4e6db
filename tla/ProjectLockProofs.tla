-------------------------- MODULE ProjectLockProofs -------------------------
(***************************************************************************)
(* The project lock, for any number of processes and threads.              *)
(*                                                                         *)
(* Whatever raises and whoever dies, the threads of one process exclude    *)
(* each other and nothing is left behind (ThreadsInv); and whoever is      *)
(* inside has the record lock, or was robbed of it by a thread of its own  *)
(* process that had raised late in acquire (LockInv).                      *)
(***************************************************************************)
EXTENDS ProjectLock, TLAPS

Registered == {"registered", "opened", "locked", "held", "unlocked", "closed"}
Needing == {"locked", "held"}
Owning == Needing \cup {"abandoned"}

\* What a move of one thread leaves of the places of the others.
LEMMA Moved ==
  ASSUME TypeOK, NEW t \in Threads, NEW from, NEW to \in Places, At(t, from, to)
  PROVE  /\ pc[t] = from
         /\ pc' \in [Threads -> Places]
         /\ pc'[t] = to
         /\ \A u \in Threads : u # t => pc'[u] = pc[u]
  BY DEF At, TypeOK

-----------------------------------------------------------------------------
(* What holds whatever raises: the registry among the threads of a process, *)
(* and what they leave behind.                                             *)

\* The registry has a process exactly while one of its threads is past it.
RegistryKnown ==
  /\ \A t \in Threads \ Importers : pc[t] \in Registered => ProcessOf[t] \in registry
  /\ \A p \in registry : \E t \in Threads : ProcessOf[t] = p /\ pc[t] \in Registered
  /\ \A t, u \in Threads :
        ProcessOf[t] = ProcessOf[u] /\ pc[t] \in Registered /\ pc[u] \in Registered => t = u

\* A process that owns the record lock has a thread that will drop it.
OwnerIsThere ==
  owner # Nobody => \E t \in Threads : ProcessOf[t] = owner /\ pc[t] \in Owning

ThreadsInv == TypeOK /\ RegistryKnown /\ OwnerIsThere

\* How a thread moves and what becomes of the registry.
RegistryMove(t, from, to) ==
  \/ /\ from = "out" /\ to = "registered" /\ t \notin Importers
     /\ ProcessOf[t] \notin registry /\ registry' = registry \cup {ProcessOf[t]}
  \/ from = "out" /\ to = "locked" /\ t \in Importers /\ registry' = registry
  \/ from \in Registered /\ to \in Registered /\ registry' = registry
  \/ from \in Registered /\ to \in {"out", "abandoned"} /\ registry' = registry \ {ProcessOf[t]}
  \/ from = "abandoned" /\ to = "out" /\ registry' = registry

\* ... and of the record lock: taken when nobody else has it, dropped, or left.
OwnerMove(t, from, to) ==
  \/ owner \in {Nobody, ProcessOf[t]} /\ owner' = ProcessOf[t] /\ to = "locked"
  \/ owner' = Dropped(t) /\ to \notin Needing
  \/ /\ owner' = owner
     /\ from \in Owning => to \in Owning
     /\ to \in Needing => from = "locked"

\* The threads that need the record lock and have it taken from them.
Robbing(t) == {u \in Threads : ProcessOf[u] = ProcessOf[t] /\ pc[u] \in Needing}

\* ... and of those who have been robbed.
RobbedMove(t, from, to) ==
  \/ from # "abandoned" /\ robbed' = robbed
  \/ to = "registered" /\ robbed' = robbed \ {t}
  \/ from = "abandoned" /\ to = "out" /\ robbed' = robbed \cup Robbing(t)

LEMMA EveryMove ==
  ASSUME NEW t \in Threads, Acquire(t) \/ Release(t)
  PROVE  \E from, to \in Places :
           /\ At(t, from, to)
           /\ RegistryMove(t, from, to)
           /\ OwnerMove(t, from, to)
           /\ RobbedMove(t, from, to)
           /\ to = "abandoned" => t \in Failing
<1> USE DEF RegistryMove, OwnerMove, RobbedMove, Robbing, Places, Registered, Owning, Needing
<1>1. CASE Register(t) \/ Open(t) \/ OpenFails(t)
  BY <1>1 DEF Register, Open, OpenFails
<1>2. CASE Lock(t) \/ GiveUp(t) \/ WriteOwner(t)
  BY <1>2 DEF Lock, GiveUp, WriteOwner
<1>3. CASE Raise(t) \/ Collect(t)
  BY <1>3 DEF Raise, Collect
<1>4. CASE Unlock(t) \/ Close(t) \/ Unregister(t)
  BY <1>4 DEF Unlock, Close, Unregister
<1>5. CASE TryLock(t) \/ MetadataFails(t)
  BY <1>5 DEF TryLock, MetadataFails
<1>6. QED
  BY <1>1, <1>2, <1>3, <1>4, <1>5 DEF Acquire, Release

LEMMA ThreadsInit == Init => ThreadsInv
  BY LockAssumption DEF Init, ThreadsInv, TypeOK, RegistryKnown, OwnerIsThere, Places, Registered

LEMMA ThreadMove ==
  ASSUME ThreadsInv, NEW t \in Threads, Acquire(t) \/ Release(t)
  PROVE  ThreadsInv'
<1>1. PICK from \in Places, to \in Places :
        /\ At(t, from, to) /\ RegistryMove(t, from, to)
        /\ OwnerMove(t, from, to) /\ RobbedMove(t, from, to)
  BY EveryMove
<1>2. /\ pc[t] = from /\ pc' \in [Threads -> Places] /\ pc'[t] = to
      /\ \A u \in Threads : u # t => pc'[u] = pc[u]
  BY <1>1, Moved DEF ThreadsInv
<1>3. TypeOK'
  BY <1>1, <1>2 DEF ThreadsInv, TypeOK, RegistryMove, OwnerMove, RobbedMove, Robbing, Dropped, Processes
<1>4. RegistryKnown'
  <2>1. CASE /\ from = "out" /\ to = "registered" /\ t \notin Importers
             /\ ProcessOf[t] \notin registry /\ registry' = registry \cup {ProcessOf[t]}
    <3>1. \A u \in Threads : ProcessOf[u] = ProcessOf[t] => u \notin Importers /\ pc[u] \notin Registered
      BY <2>1, LockAssumption DEF ThreadsInv, RegistryKnown
    <3>2. QED
      BY <1>2, <2>1, <3>1 DEF ThreadsInv, RegistryKnown, Registered
  <2>2. CASE from = "out" /\ to = "locked" /\ t \in Importers /\ registry' = registry
    BY <1>2, <2>2, LockAssumption DEF ThreadsInv, RegistryKnown, Registered
  <2>3. CASE from \in Registered /\ to \in Registered /\ registry' = registry
    BY <1>2, <2>3 DEF ThreadsInv, RegistryKnown
  <2>4. CASE /\ from \in Registered /\ to \in {"out", "abandoned"}
             /\ registry' = registry \ {ProcessOf[t]}
    BY <1>2, <2>4 DEF ThreadsInv, RegistryKnown, Registered
  <2>5. CASE from = "abandoned" /\ to = "out" /\ registry' = registry
    BY <1>2, <2>5 DEF ThreadsInv, RegistryKnown, Registered
  <2>6. QED
    BY <1>1, <2>1, <2>2, <2>3, <2>4, <2>5 DEF RegistryMove
<1>5. OwnerIsThere'
  BY <1>1, <1>2 DEF ThreadsInv, OwnerIsThere, OwnerMove, Dropped, Owning, Needing
<1>6. QED
  BY <1>3, <1>4, <1>5 DEF ThreadsInv

LEMMA ThreadsDie ==
  ASSUME ThreadsInv, NEW p \in Processes, Die(p) PROVE ThreadsInv'
<1>1. /\ pc' \in [Threads -> Places]
      /\ \A u \in Threads : pc'[u] = IF ProcessOf[u] = p THEN "out" ELSE pc[u]
      /\ registry' = registry \ {p}
      /\ owner' = IF owner = p THEN Nobody ELSE owner
      /\ robbed' = {t \in robbed : ProcessOf[t] # p}
  BY DEF Die, ThreadsInv, TypeOK, Places
<1>2. TypeOK'
  BY <1>1 DEF ThreadsInv, TypeOK
<1>3. RegistryKnown'
  BY <1>1 DEF ThreadsInv, RegistryKnown, Registered
<1>4. OwnerIsThere'
  BY <1>1 DEF ThreadsInv, OwnerIsThere
<1>5. QED
  BY <1>2, <1>3, <1>4 DEF ThreadsInv

LEMMA ThreadsInvariance == Spec => []ThreadsInv
<1>1. ThreadsInv /\ [Next]_vars => ThreadsInv'
  <2>1. ThreadsInv /\ UNCHANGED vars => ThreadsInv'
    BY DEF vars, ThreadsInv, TypeOK, RegistryKnown, OwnerIsThere
  <2>2. QED
    BY <2>1, ThreadMove, ThreadsDie DEF Next
<1>2. QED
  BY <1>1, ThreadsInit, PTL DEF Spec

\* Two threads of the manager are never inside at once, though the record lock
\* would let the second one in and whatever has been raised before (acquire,
\* _held_paths).
THEOREM ThreadsExclude ==
  Spec => [](\A t, u \in Threads :
               ProcessOf[t] = ProcessOf[u] /\ pc[t] = "held" /\ pc[u] = "held" => t = u)
<1>1. ThreadsInv =>
        \A t, u \in Threads :
          ProcessOf[t] = ProcessOf[u] /\ pc[t] = "held" /\ pc[u] = "held" => t = u
  BY DEF ThreadsInv, RegistryKnown, Registered
<1>2. QED
  BY <1>1, ThreadsInvariance, PTL

\* No failure leaves the project locked with nobody inside, not even one that
\* abandons the open file.
THEOREM LockComesFree == Spec => []NothingLeftBehind
<1>1. ThreadsInv => NothingLeftBehind
  BY LockAssumption
     DEF ThreadsInv, TypeOK, OwnerIsThere, RegistryKnown, NothingLeftBehind,
         Registered, Owning, Needing, Processes
<1>2. QED
  BY <1>1, ThreadsInvariance, PTL

-----------------------------------------------------------------------------
(* Who has the record lock, and who may have lost it.                      *)

\* The record lock is with the process of whoever needs it and was not robbed.
OwnerKnown ==
  \A t \in Threads : pc[t] \in Needing => owner = ProcessOf[t] \/ t \in robbed

\* Only a thread of the same process that raised late in acquire robs another.
RobbedByAnother ==
  /\ \A t \in Threads : pc[t] = "abandoned" => t \in Failing
  /\ \A t \in robbed : \E u \in Failing \ {t} : ProcessOf[u] = ProcessOf[t]

LockInv == ThreadsInv /\ OwnerKnown /\ RobbedByAnother

LEMMA LockInit == Init => LockInv
  BY ThreadsInit DEF Init, LockInv, OwnerKnown, RobbedByAnother, Needing

\* One thread moves: what it drops, nobody else of its process needs, but for
\* those it robs; what it takes, no other process has.
LEMMA LockMove ==
  ASSUME LockInv, NEW t \in Threads, Acquire(t) \/ Release(t)
  PROVE  LockInv'
<1>1. PICK from \in Places, to \in Places :
        /\ At(t, from, to) /\ RegistryMove(t, from, to)
        /\ OwnerMove(t, from, to) /\ RobbedMove(t, from, to)
        /\ to = "abandoned" => t \in Failing
  BY EveryMove
<1>2. /\ pc[t] = from /\ pc' \in [Threads -> Places] /\ pc'[t] = to
      /\ \A u \in Threads : u # t => pc'[u] = pc[u]
  BY <1>1, Moved DEF LockInv, ThreadsInv
<1>3. ASSUME NEW u \in Threads, pc'[u] \in Needing
      PROVE  owner' = ProcessOf[u] \/ u \in robbed'
  <2>1. CASE owner \in {Nobody, ProcessOf[t]} /\ owner' = ProcessOf[t] /\ to = "locked"
    <3>1. CASE u = t
      BY <2>1, <3>1
    <3>2. CASE u # t
      BY <1>1, <1>2, <1>3, <2>1, <3>2, LockAssumption
         DEF LockInv, OwnerKnown, RobbedMove, Processes
    <3> QED BY <3>1, <3>2
  <2>2. CASE owner' = Dropped(t) /\ to \notin Needing
    <3>1. u # t /\ pc[u] \in Needing
      BY <1>2, <1>3, <2>2
    <3>2. CASE u \in robbed
      BY <1>1, <3>1, <3>2 DEF RobbedMove
    <3>3. CASE owner = ProcessOf[u] /\ owner # ProcessOf[t]
      BY <2>2, <3>3 DEF Dropped
    <3>4. CASE ProcessOf[u] = ProcessOf[t]
      <4>1. from \notin Registered
        BY <1>2, <3>1, <3>4 DEF LockInv, ThreadsInv, RegistryKnown, Registered, Needing
      <4>2. from \in {"out", "abandoned"}
        BY <4>1 DEF Places, Registered
      <4>3. CASE from = "out"
        <5>1. pc[u] \in Registered
          BY <3>1 DEF Registered, Needing
        <5>2. ProcessOf[t] \in registry \/ u \in Importers
          BY <3>4, <5>1 DEF LockInv, ThreadsInv, RegistryKnown
        <5>3. t \notin Importers /\ u \notin Importers
          BY <3>1, <3>4, LockAssumption
        <5> QED BY <1>1, <4>3, <5>2, <5>3 DEF RegistryMove, Registered
      <4>4. CASE from = "abandoned"
        BY <1>1, <3>1, <3>4, <4>4 DEF RegistryMove, RobbedMove, Robbing, Registered
      <4> QED BY <4>2, <4>3, <4>4
    <3> QED BY <3>1, <3>2, <3>3, <3>4 DEF LockInv, OwnerKnown
  <2>3. CASE owner' = owner /\ (to \in Needing => from = "locked")
    <3>1. pc[u] \in Needing
      BY <1>2, <1>3, <2>3 DEF Needing
    <3>2. u \in robbed => u \in robbed'
      BY <1>1, <1>2, <1>3 DEF RobbedMove, Needing
    <3> QED BY <2>3, <3>1, <3>2 DEF LockInv, OwnerKnown
  <2> QED BY <1>1, <2>1, <2>2, <2>3 DEF OwnerMove
<1>4. RobbedByAnother'
  <2>1. \A u \in Threads : pc'[u] = "abandoned" => u \in Failing
    BY <1>1, <1>2 DEF LockInv, RobbedByAnother
  <2>2. ASSUME NEW u \in robbed' PROVE \E v \in Failing \ {u} : ProcessOf[v] = ProcessOf[u]
    <3>1. CASE u \in robbed
      BY <3>1 DEF LockInv, RobbedByAnother
    <3>2. CASE from = "abandoned" /\ u \in Robbing(t)
      <4>1. t \in Failing /\ u # t /\ ProcessOf[u] = ProcessOf[t]
        BY <1>2, <3>2 DEF LockInv, RobbedByAnother, Robbing, Needing
      <4> QED BY <4>1
    <3> QED BY <1>1, <2>2, <3>1, <3>2 DEF RobbedMove
  <2> QED BY <2>1, <2>2 DEF RobbedByAnother
<1> QED BY <1>3, <1>4, ThreadMove DEF LockInv, OwnerKnown

LEMMA LockDie ==
  ASSUME LockInv, NEW p \in Processes, Die(p) PROVE LockInv'
<1>1. /\ \A u \in Threads : pc'[u] = IF ProcessOf[u] = p THEN "out" ELSE pc[u]
      /\ owner' = IF owner = p THEN Nobody ELSE owner
      /\ robbed' = {t \in robbed : ProcessOf[t] # p}
  BY DEF Die, LockInv, ThreadsInv, TypeOK
<1>2. OwnerKnown'
  BY <1>1 DEF LockInv, OwnerKnown, Needing
<1>3. RobbedByAnother'
  BY <1>1 DEF LockInv, RobbedByAnother
<1> QED BY <1>2, <1>3, ThreadsDie DEF LockInv

LEMMA LockInvariance == Spec => []LockInv
<1>1. LockInv /\ UNCHANGED vars => LockInv'
  BY DEF vars, LockInv, ThreadsInv, TypeOK, RegistryKnown, OwnerIsThere, OwnerKnown,
         RobbedByAnother
<1>2. LockInv /\ [Next]_vars => LockInv'
  BY <1>1, LockMove, LockDie DEF Next
<1> QED BY <1>2, LockInit, PTL DEF Spec

\* Whatever is raised and whoever dies, writers are inside together only when
\* they are of different processes and one was robbed of the record lock
\* (ProjectLock.acquire, ProjectWriteLock).
THEOREM LockExcludes == Spec => []MutualExclusion
<1>1. LockInv => MutualExclusion
  <2> SUFFICES ASSUME LockInv, NEW t \in Threads, NEW u \in Threads,
                      pc[t] = "held", pc[u] = "held", t # u
               PROVE  /\ ProcessOf[t] # ProcessOf[u]
                      /\ t \in robbed \/ u \in robbed
    BY DEF MutualExclusion
  <2>1. ProcessOf[t] # ProcessOf[u]
    BY DEF LockInv, ThreadsInv, RegistryKnown, Registered
  <2> QED BY <2>1 DEF LockInv, OwnerKnown, Needing
<1> QED BY <1>1, LockInvariance, PTL

\* Nothing but a late error of its own process takes the record lock from a
\* thread that is inside (the except clause and release of ProjectLock).
THEOREM LockIsKept == Spec => []InsideIsLocked
<1>1. LockInv => InsideIsLocked
  BY DEF LockInv, OwnerKnown, InsideIsLocked, Needing
<1> QED BY <1>1, LockInvariance, PTL

\* The command line and the importer, alone in their processes, are protected
\* while they are inside, whatever is raised in the threads of the manager.
THEOREM AloneIsProtected ==
  Spec => [](\A t \in Threads :
               /\ pc[t] = "held"
               /\ \A u \in Threads : ProcessOf[u] = ProcessOf[t] => u = t
               => owner = ProcessOf[t])
<1> DEFINE Protected ==
      \A t \in Threads :
        /\ pc[t] = "held"
        /\ \A u \in Threads : ProcessOf[u] = ProcessOf[t] => u = t
        => owner = ProcessOf[t]
<1>1. LockInv => Protected
  <2> SUFFICES ASSUME LockInv, NEW t \in Threads, pc[t] = "held",
                      \A u \in Threads : ProcessOf[u] = ProcessOf[t] => u = t
               PROVE  owner = ProcessOf[t]
    OBVIOUS
  <2>1. t \notin robbed
    BY LockAssumption DEF LockInv, RobbedByAnother
  <2> QED BY <2>1 DEF LockInv, OwnerKnown, Needing
<1> QED BY <1>1, LockInvariance, PTL
=============================================================================
