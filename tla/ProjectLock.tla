---------------------------- MODULE ProjectLock -----------------------------
(***************************************************************************)
(* The lock every writer of the knowledge base takes: operations/lock.py   *)
(* in the Python programs (the manager is one process with many threads,   *)
(* the command line one process with one), ProjectWriteLock.java in the    *)
(* importer.                                                               *)
(*                                                                         *)
(* The lock is a POSIX record lock, and those belong to processes: a       *)
(* process never waits for itself, and loses the lock as soon as it closes *)
(* any descriptor of the file, whichever thread opened it.  The registry   *)
(* _held_paths is there to keep the threads of one process apart.          *)
(***************************************************************************)
EXTENDS Naturals, FiniteSets

CONSTANTS Threads,    \* threads that use the lock, of all processes
          Importers,  \* those in Java processes, one each
          ProcessOf,  \* the process of each thread
          Failing,    \* threads in which a call of acquire may raise OSError
                      \* once the file is open: the lock call or the record
          Nobody      \* no process owns the record lock

Processes == {ProcessOf[t] : t \in Threads}

ASSUME LockAssumption ==
  /\ Importers \subseteq Threads
  /\ Failing \subseteq Threads
  /\ Nobody \notin Processes
  /\ \A t \in Importers, u \in Threads : ProcessOf[u] = ProcessOf[t] => u = t

VARIABLES pc,        \* where each thread is in acquire or release
          registry,  \* processes whose _held_paths has the lock file
          owner,     \* the process that owns the record lock
          robbed     \* history, no guard reads it: threads that had the lock
                     \* when an abandoned file of their process was closed

vars == <<pc, registry, owner, robbed>>

\* "locked": lockf succeeded, the owner record is not written yet.
\* "abandoned": acquire raised and its frame, with the open file, is still
\* referenced by the exception.
Places == {"out", "registered", "opened", "locked", "held", "unlocked",
           "closed", "abandoned"}

TypeOK ==
  /\ pc \in [Threads -> Places]
  /\ registry \in SUBSET Processes
  /\ owner \in Processes \cup {Nobody}
  /\ robbed \in SUBSET Threads

Init ==
  /\ pc = [t \in Threads |-> "out"]
  /\ registry = {}
  /\ owner = Nobody
  /\ robbed = {}

At(t, from, to) ==
  /\ pc[t] = from
  /\ pc' = [pc EXCEPT ![t] = to]

\* What closing a descriptor, or unlocking one, does to the record lock.
Dropped(t) == IF owner = ProcessOf[t] THEN Nobody ELSE owner

-----------------------------------------------------------------------------
(* acquire                                                                 *)

\* Mutant of Register: the registry is not asked.
RegisterUnasked(t) ==
  /\ t \notin Importers
  /\ At(t, "out", "registered")
  /\ registry' = registry \cup {ProcessOf[t]}
  /\ robbed' = robbed \ {t}
  /\ UNCHANGED owner

\* Under _registry_guard; LockUnavailable if another thread was first.
Register(t) ==
  /\ t \notin Importers
  /\ ProcessOf[t] \notin registry
  /\ At(t, "out", "registered")
  /\ registry' = registry \cup {ProcessOf[t]}
  /\ robbed' = robbed \ {t}
  /\ UNCHANGED owner

Open(t) ==
  /\ At(t, "registered", "opened")
  /\ UNCHANGED <<registry, owner, robbed>>

\* Mutant of OpenFails: no except clause.
OpenFailsRegistered(t) ==
  /\ At(t, "registered", "out")
  /\ UNCHANGED <<registry, owner, robbed>>

\* mkdir or open raised: the except clause unregisters.
OpenFails(t) ==
  /\ At(t, "registered", "out")
  /\ registry' = registry \ {ProcessOf[t]}
  /\ UNCHANGED <<owner, robbed>>

\* lockf(LOCK_EX | LOCK_NB) succeeds for a process that owns the lock already.
Lock(t) ==
  /\ owner \in {Nobody, ProcessOf[t]}
  /\ At(t, "opened", "locked")
  /\ owner' = ProcessOf[t]
  /\ UNCHANGED <<registry, robbed>>

\* The deadline passed (at once, by default): close, then unregister.
GiveUp(t) ==
  /\ owner \notin {Nobody, ProcessOf[t]}
  /\ At(t, "opened", "closed")
  /\ UNCHANGED <<registry, owner, robbed>>

\* ftruncate, write, fsync of the owner record.
WriteOwner(t) ==
  /\ At(t, "locked", "held")
  /\ UNCHANGED <<registry, owner, robbed>>

\* Any other error: the except clause unregisters and re-raises, and nothing
\* closes the file.
Raise(t) ==
  /\ t \in Failing \ Importers
  /\ \/ At(t, "opened", "abandoned")
     \/ At(t, "locked", "abandoned")
  /\ registry' = registry \ {ProcessOf[t]}
  /\ UNCHANGED <<owner, robbed>>

\* The exception has been handled; the interpreter closes the file, whichever
\* thread of the process has been let in meanwhile.
Collect(t) ==
  /\ At(t, "abandoned", "out")
  /\ owner' = Dropped(t)
  /\ robbed' = robbed \cup {u \in Threads : /\ ProcessOf[u] = ProcessOf[t]
                                          /\ pc[u] \in {"locked", "held"}}
  /\ UNCHANGED registry

-----------------------------------------------------------------------------
(* release                                                                 *)

\* Mutant of Unlock: the registry is left before the file is closed.
UnlockUnregistering(t) ==
  /\ At(t, "held", "unlocked")
  /\ owner' = Dropped(t)
  /\ registry' = registry \ {ProcessOf[t]}
  /\ UNCHANGED robbed

Unlock(t) ==
  /\ At(t, "held", "unlocked")
  /\ owner' = Dropped(t)
  /\ UNCHANGED <<registry, robbed>>

Close(t) ==
  /\ At(t, "unlocked", "closed")
  /\ owner' = Dropped(t)
  /\ UNCHANGED <<registry, robbed>>

Unregister(t) ==
  /\ At(t, "closed", "out")
  /\ registry' = registry \ {ProcessOf[t]}
  /\ UNCHANGED <<owner, robbed>>

-----------------------------------------------------------------------------
(* ProjectWriteLock.java, one thread in its process.                       *)

\* FileChannel.open, then tryLock; a busy lock closes the channel and throws.
TryLock(t) ==
  /\ t \in Importers
  /\ owner = Nobody
  /\ At(t, "out", "locked")
  /\ owner' = ProcessOf[t]
  /\ UNCHANGED <<registry, robbed>>

\* writeMetadata threw: the channel is closed before anything else.
MetadataFails(t) ==
  /\ t \in Failing \cap Importers
  /\ At(t, "locked", "closed")
  /\ owner' = Dropped(t)
  /\ UNCHANGED <<registry, robbed>>

-----------------------------------------------------------------------------
\* A process dies: the kernel closes its files.
Die(p) ==
  /\ pc' = [t \in Threads |-> IF ProcessOf[t] = p THEN "out" ELSE pc[t]]
  /\ registry' = registry \ {p}
  /\ owner' = IF owner = p THEN Nobody ELSE owner
  /\ robbed' = {t \in robbed : ProcessOf[t] # p}

Acquire(t) ==
  \/ Register(t) \/ Open(t) \/ OpenFails(t) \/ Lock(t) \/ GiveUp(t)
  \/ WriteOwner(t) \/ Raise(t) \/ Collect(t)
  \/ TryLock(t) \/ MetadataFails(t)

Release(t) == Unlock(t) \/ Close(t) \/ Unregister(t)

Next ==
  \/ \E t \in Threads : Acquire(t) \/ Release(t)
  \/ \E p \in Processes : Die(p)

Spec == Init /\ [][Next]_vars

-----------------------------------------------------------------------------
(* Safety.                                                                 *)

\* Two threads of one process are never inside at once, whatever fails in which
\* of them; two processes only if an abandoned file has taken the lock from one.
MutualExclusion ==
  \A t, u \in Threads :
    pc[t] = "held" /\ pc[u] = "held" /\ t # u =>
      /\ ProcessOf[t] # ProcessOf[u]
      /\ t \in robbed \/ u \in robbed

\* Who is inside is protected from other processes: its process still owns the
\* record lock, no thread beside it having closed the file, but for one that
\* had failed in acquire and left it open.
InsideIsLocked ==
  \A t \in Threads : pc[t] = "held" /\ t \notin robbed => owner = ProcessOf[t]

\* A process none of whose threads is in acquire, in release or inside has left
\* nothing behind that could refuse the next writer.
NothingLeftBehind ==
  \A p \in Processes :
    (\A t \in Threads : ProcessOf[t] = p => pc[t] = "out")
      => p \notin registry /\ owner # p
=============================================================================
