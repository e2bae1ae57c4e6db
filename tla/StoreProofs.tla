---------------------------- MODULE StoreProofs -----------------------------
(***************************************************************************)
(* Raw files, sources and archives stay consistent, for any number of      *)
(* processes, contents and names.  Inv is inductive: whoever is past the   *)
(* beginning of a command holds the lock (Exclusive), what a command has   *)
(* prepared is there when it inserts the row (Prepared), and what the      *)
(* archivist has read still agrees with the database (Consistent).         *)
(***************************************************************************)
EXTENDS Store, TLAPS

Middle(p) == cmd[p].at \notin {"idle", "next"}

\* Whoever works on a file, or on the whole project, holds the lock.
Exclusive ==
  /\ \A p \in Procs : Middle(p) => holder = p
  /\ \A p \in Python : cmd[p].at = "next" => holder = p
  /\ task # NoTask => holder = Archivist

Backed(path) == raw[path] = path[1] \/ path \in lost

PreparedFor(p) ==
  /\ Middle(p) /\ cmd[p].at # "close" => cmd[p].target = PathFor(cmd[p].digest, cmd[p].name)
  /\ cmd[p].at = "link" => cmd[p].temp = cmd[p].digest
  /\ cmd[p].at = "write" => \/ raw[Target(p)] = Torn
                            \/ raw[Target(p)] = NoContent /\ Target(p) \in lost
  /\ cmd[p].at = "insert" => Backed(Target(p))
  /\ cmd[p].at = "insert" /\ cmd[p].created => ~Known(cmd[p].digest)
  /\ cmd[p].created => p \in Java /\ cmd[p].at \in {"insert", "close"}
  /\ cmd[p].at = "close" => p \in Java

Prepared == \A p \in Procs : PreparedFor(p)

\* Members that hold the raw file of every source on record.
Holds(rows, members) ==
  /\ DOMAIN members.raw = Paths
  /\ \A c \in Contents :
       rows[c] # NoName => members.raw[<<c, rows[c]>>] = c \/ <<c, rows[c]>> \in lost

Consistent ==
  /\ At("backup", "snapshot") => Holds(sources, task.listed)
  /\ At("backup", "hash") => task.image.sources = sources /\ Holds(sources, task.listed)
  /\ At("backup", "write") => task.image.sources = sources /\ Holds(sources, task.listed)
  /\ At("backup", "publish") => task.image.sources = sources /\ Holds(sources, task.zip)
  /\ At("migrate", "migrate") => task.rescue = Image

SplitFirst ==
  version = 2 =>
    \A c \in Contents : IsMarkdown(c) /\ jobs[c]["later"] # "none" => cards[c] = "split"

\* What only the data decide, and what only the archivist's reading decides.
DataInv == RawHoldsItsHash /\ RowsAreBacked /\ SplitFirst
TaskInv == Consistent /\ BackupIsComplete /\ MigrationIsRecoverable

Inv == RawTypeOK /\ Exclusive /\ Prepared /\ DataInv /\ TaskInv

data == <<raw, lost, version, sources, jobs, cards>>
-----------------------------------------------------------------------------
(* Facts about single parts.                                               *)

\* Nobody else, and no task, is under way while one process works on a file.
LEMMA Alone ==
  ASSUME RawTypeOK, Exclusive, NEW p \in Procs, Middle(p)
  PROVE  /\ holder = p
         /\ task = NoTask
         /\ \A q \in Procs \ {p} : ~Middle(q)
         /\ \A q \in Python \ {p} : cmd[q].at # "next"
  BY RawStoreAssumption DEF Exclusive, Procs

\* The same holds when the lock is free.
LEMMA Free ==
  ASSUME Exclusive, holder = NoProc
  PROVE  /\ task = NoTask
         /\ \A q \in Procs : ~Middle(q)
         /\ \A q \in Python : cmd[q].at # "next"
  BY RawStoreAssumption DEF Exclusive, Procs

\* The row path of a known source is a name, and so is that of a new one.
LEMMA PathForType ==
  ASSUME RawTypeOK, NEW c \in Contents, NEW n \in Names
  PROVE  PathFor(c, n) \in Names
  BY DEF RawTypeOK, PathFor, Known

\* Without a task there is nothing to keep.
LEMMA NoTaskInv ==
  ASSUME task' = NoTask
  PROVE  TaskInv'
  BY DEF NoTask, TaskInv, Consistent, BackupIsComplete, MigrationIsRecoverable, At

\* Steps that touch neither the data nor the task.
LEMMA SameData ==
  ASSUME Inv, UNCHANGED <<data, task>>
  PROVE  DataInv' /\ TaskInv'
  BY DEF Inv, DataInv, TaskInv, data, RawHoldsItsHash, RowsAreBacked, SplitFirst, Known,
         IsMarkdown, Consistent, BackupIsComplete, MigrationIsRecoverable, At, Holds, Image

\* A command goes on, and every other one stays where it is.
LEMMA OneGoes ==
  ASSUME RawTypeOK, NEW p \in Procs, NEW changed \in Command, Goes(p, changed)
  PROVE  /\ cmd' \in [Procs -> Command]
         /\ cmd'[p] = changed
         /\ \A q \in Procs \ {p} : cmd'[q] = cmd[q]
  BY DEF RawTypeOK, Goes

LEMMA IdleType == Idle \in Command /\ Idle.at = "idle" /\ Idle.created = FALSE
  BY DEF Idle, Command, Steps

\* A step of one command that leaves the data alone: what remains to be
\* shown is the lock, and what the command itself relies on.
LEMMA QuietStep ==
  ASSUME Inv, NEW p \in Procs, NEW changed \in Command, Goes(p, changed),
         UNCHANGED <<data, task>>,
         holder' = holder \/ holder \in {p, NoProc},
         changed.at \notin {"idle", "next"} => holder' = p,
         p \in Python /\ changed.at = "next" => holder' = p,
         PreparedFor(p)'
  PROVE  Exclusive' /\ Prepared' /\ DataInv' /\ TaskInv'
<1>1. /\ cmd'[p] = changed
      /\ \A q \in Procs \ {p} : cmd'[q] = cmd[q]
  BY OneGoes DEF Inv
<1>2. Exclusive'
  <2>1. ASSUME NEW q \in Procs, Middle(q)' PROVE holder' = q
    BY <1>1, <2>1, RawStoreAssumption DEF Inv, Exclusive, Middle, Procs
  <2>2. ASSUME NEW q \in Python, cmd'[q].at = "next" PROVE holder' = q
    BY <1>1, <2>2, RawStoreAssumption DEF Inv, Exclusive, Procs
  <2>3. task' # NoTask => holder' = Archivist
    BY RawStoreAssumption DEF Inv, Exclusive, Procs
  <2> QED BY <2>1, <2>2, <2>3 DEF Exclusive
<1>3. Prepared'
  <2>1. ASSUME NEW q \in Procs \ {p} PROVE PreparedFor(q)'
    <3>1. PreparedFor(q) BY DEF Inv, Prepared
    <3> QED BY <1>1, <2>1, <3>1 DEF PreparedFor, Middle, Target, Backed, PathFor, Known, data
  <2> QED BY <2>1 DEF Prepared
<1> QED BY <1>2, <1>3, SameData

LEMMA QuietType ==
  ASSUME RawTypeOK, NEW p \in Procs, NEW changed \in Command, Goes(p, changed),
         UNCHANGED <<raw, lost, edits, database>>,
         files' \in [Names -> Contents \cup {NoContent}],
         holder' \in Procs \cup {NoProc, Archivist},
         changed.at \notin {"idle", "next"} => changed.digest \in Contents /\ changed.name \in Names
  PROVE  RawTypeOK'
<1>1. /\ cmd' \in [Procs -> Command]
      /\ cmd'[p] = changed
      /\ \A q \in Procs \ {p} : cmd'[q] = cmd[q]
  BY OneGoes
<1>2. \A q \in Procs :
        cmd'[q].at \notin {"idle", "next"} => cmd'[q].digest \in Contents /\ cmd'[q].name \in Names
  BY <1>1 DEF RawTypeOK
<1> QED BY <1>1, <1>2 DEF RawTypeOK, database

\* Commands that begin, end, or look.
LEMMA QuietSteps ==
  ASSUME Inv, UNCHANGED <<dist, task>>, NEW p \in Procs,
         \/ StartIngest(p) \/ StartText(p) \/ StartChat(p) \/ StartJava(p) \/ Crash(p)
         \/ EndCommand(p) \/ NextFile(p) \/ AcceptExisting(p) \/ CopyAside(p) \/ CloseImport(p)
  PROVE  Inv'
<1> USE DEF Inv
<1>q. Idle \in Command /\ Idle.at = "idle" /\ Idle.created = FALSE
  BY IdleType
<1>i. Python \subseteq Procs /\ Java \subseteq Procs /\ Python \cap Java = {}
  BY RawStoreAssumption DEF Procs
<1>1. ASSUME Ends(p), UNCHANGED <<files, raw, lost, edits, database>> PROVE Inv'
  <2>1. /\ Goes(p, Idle)
        /\ holder' \in Procs \cup {NoProc, Archivist}
        /\ holder' = holder \/ holder \in {p, NoProc}
    BY <1>1 DEF Ends, RawTypeOK
  <2>2. cmd'[p] = Idle
    BY <1>q, <2>1, OneGoes
  <2>3. PreparedFor(p)'
    BY <1>q, <2>2 DEF PreparedFor, Middle
  <2>4. RawTypeOK'
    BY <1>q, <1>1, <2>1, QuietType DEF RawTypeOK
  <2> QED BY <1>q, <1>1, <2>1, <2>3, <2>4, QuietStep DEF data, database
<1>2. CASE StartIngest(p)
  <2> DEFINE new == [Idle EXCEPT !.at = "next", !.todo = Present]
  <2>1. new \in Command /\ new.at = "next" /\ new.created = FALSE
    BY DEF Idle, Command, Steps, Present
  <2>2. Goes(p, new) /\ p \in Python /\ holder = NoProc /\ holder' = p
    BY <1>2 DEF StartIngest, Opens
  <2>3. cmd'[p] = new
    BY <2>1, <2>2, OneGoes
  <2>4. PreparedFor(p)'
    BY <2>1, <2>3 DEF PreparedFor, Middle
  <2>5. RawTypeOK'
    BY <1>2, <2>1, <2>2, QuietType DEF RawTypeOK, StartIngest
  <2> HIDE DEF new
  <2> QED BY <1>2, <2>1, <2>2, <2>4, <2>5, QuietStep DEF StartIngest, data, database
<1>3. CASE StartText(p)
  <2>1. PICK c \in Contents, n \in Markdown :
          Goes(p, [Idle EXCEPT !.at = "text", !.name = n, !.digest = c, !.target = PathFor(c, n)])
    BY <1>3 DEF StartText
  <2> DEFINE new == [Idle EXCEPT !.at = "text", !.name = n, !.digest = c, !.target = PathFor(c, n)]
  <2>2. n \in Names /\ PathFor(c, n) \in Names
    BY PathForType, RawStoreAssumption
  <2>3. /\ new \in Command /\ new.at = "text" /\ new.created = FALSE
        /\ new.name = n /\ new.digest = c /\ new.target = PathFor(c, n)
    BY <2>2 DEF Idle, Command, Steps
  <2>4. Goes(p, new) /\ p \in Python /\ holder = NoProc /\ holder' = p
    BY <1>3, <2>1 DEF StartText, Opens
  <2> HIDE DEF new
  <2>5. cmd'[p] = new
    BY <2>3, <2>4, OneGoes
  <2>6. PreparedFor(p)'
    BY <1>3, <2>3, <2>5 DEF PreparedFor, Middle, StartText, PathFor, Known, database
  <2>7. RawTypeOK'
    BY <1>3, <2>2, <2>3, <2>4, QuietType DEF RawTypeOK, StartText
  <2> QED BY <1>3, <2>3, <2>4, <2>6, <2>7, QuietStep DEF StartText, data, database
<1>4. CASE StartChat(p)
  <2>1. PICK c \in Contents, n \in Markdown :
          /\ files' = IF files[n] = NoContent THEN [files EXCEPT ![n] = c] ELSE files
          /\ Goes(p, [Idle EXCEPT !.at = "next", !.todo = {n}])
    BY <1>4 DEF StartChat
  <2> DEFINE new == [Idle EXCEPT !.at = "next", !.todo = {n}]
  <2>2. new \in Command /\ new.at = "next" /\ new.created = FALSE
    BY RawStoreAssumption DEF Idle, Command, Steps
  <2>3. Goes(p, new) /\ p \in Python /\ holder = NoProc /\ holder' = p
    BY <1>4, <2>1 DEF StartChat, Opens
  <2>4. files' \in [Names -> Contents \cup {NoContent}]
    BY <2>1 DEF RawTypeOK
  <2> HIDE DEF new
  <2>5. cmd'[p] = new
    BY <2>2, <2>3, OneGoes
  <2>6. PreparedFor(p)'
    BY <2>2, <2>5 DEF PreparedFor, Middle
  <2>7. RawTypeOK'
    BY <1>4, <2>2, <2>3, <2>4, QuietType DEF RawTypeOK, StartChat
  <2> QED BY <1>4, <2>2, <2>3, <2>6, <2>7, QuietStep DEF StartChat, data, database
<1>5. CASE StartJava(p)
  <2>1. PICK todo \in SUBSET Names \ {{}} : Goes(p, [Idle EXCEPT !.at = "next", !.todo = todo])
    BY <1>5 DEF StartJava
  <2> DEFINE new == [Idle EXCEPT !.at = "next", !.todo = todo]
  <2>2. new \in Command /\ new.at = "next" /\ new.created = FALSE
    BY DEF Idle, Command, Steps
  <2>3. Goes(p, new) /\ p \notin Python /\ holder' = holder
    BY <1>5, <1>i, <2>1 DEF StartJava
  <2> HIDE DEF new
  <2>4. cmd'[p] = new
    BY <2>2, <2>3, OneGoes
  <2>5. PreparedFor(p)'
    BY <2>2, <2>4 DEF PreparedFor, Middle
  <2>6. RawTypeOK'
    BY <1>5, <2>2, <2>3, QuietType DEF RawTypeOK, StartJava
  <2> QED BY <1>5, <2>2, <2>3, <2>5, <2>6, QuietStep DEF StartJava, data, database
<1>6. CASE Crash(p)
  BY <1>1, <1>6 DEF Crash
<1>7. CASE EndCommand(p)
  BY <1>1, <1>7 DEF EndCommand
<1>8. CASE NextFile(p)
  <2>1. PICK n \in cmd[p].todo :
          /\ files[n] # NoContent
          /\ Goes(p, [cmd[p] EXCEPT !.at = "copy", !.todo = @ \ {n}, !.name = n,
                                    !.digest = files[n], !.target = PathFor(files[n], n),
                                    !.temp = NoContent, !.created = FALSE])
    BY <1>8 DEF NextFile
  <2> DEFINE new == [cmd[p] EXCEPT !.at = "copy", !.todo = @ \ {n}, !.name = n,
                                   !.digest = files[n], !.target = PathFor(files[n], n),
                                   !.temp = NoContent, !.created = FALSE]
  <2>2. cmd[p] \in Command
    BY DEF RawTypeOK
  <2>3. n \in Names /\ files[n] \in Contents
    BY <2>1, <2>2 DEF RawTypeOK, Command
  <2>4. PathFor(files[n], n) \in Names
    BY <2>3, PathForType
  <2>5. /\ new \in Command /\ new.at = "copy" /\ new.created = FALSE
        /\ new.name = n /\ new.digest = files[n] /\ new.target = PathFor(files[n], n)
    BY <2>2, <2>3, <2>4 DEF Command, Steps
  <2>6. Goes(p, new) /\ holder' = p /\ holder \in {p, NoProc}
    BY <1>8, <2>1 DEF NextFile
  <2> HIDE DEF new
  <2>7. cmd'[p] = new
    BY <2>5, <2>6, OneGoes
  <2>8. PreparedFor(p)'
    BY <1>8, <2>5, <2>7 DEF PreparedFor, Middle, NextFile, PathFor, Known, database
  <2>9. RawTypeOK'
    BY <1>8, <2>3, <2>5, <2>6, QuietType DEF RawTypeOK, NextFile
  <2> QED BY <1>8, <2>5, <2>6, <2>8, <2>9, QuietStep DEF NextFile, data, database
<1>9. CASE AcceptExisting(p)
  <2> DEFINE new == [cmd[p] EXCEPT !.at = "insert"]
  <2>1. cmd[p] \in Command /\ Middle(p) /\ holder = p /\ PreparedFor(p)
    BY <1>9, Alone DEF AcceptExisting, Middle, RawTypeOK, Prepared
  <2>2. /\ new \in Command /\ new.at = "insert" /\ new.created = FALSE
        /\ new.name = cmd[p].name /\ new.digest = cmd[p].digest /\ new.target = cmd[p].target
    BY <1>9, <2>1 DEF Command, Steps, AcceptExisting, PreparedFor
  <2>3. Goes(p, new) /\ holder' = holder
    BY <1>9 DEF AcceptExisting
  <2> HIDE DEF new
  <2>4. cmd'[p] = new
    BY <2>2, <2>3, OneGoes
  <2>5. PreparedFor(p)'
    BY <1>9, <2>1, <2>2, <2>4
    DEF AcceptExisting, PreparedFor, Middle, PathFor, Known, Target, Backed, database
  <2>6. RawTypeOK'
    BY <1>9, <2>1, <2>2, <2>3, QuietType DEF RawTypeOK, AcceptExisting, Middle
  <2> QED BY <1>9, <2>1, <2>2, <2>3, <2>5, <2>6, QuietStep DEF AcceptExisting, data, database
<1>10. CASE CopyAside(p)
  <2> DEFINE new == [cmd[p] EXCEPT !.at = "link", !.temp = files[cmd[p].name]]
  <2>1. cmd[p] \in Command /\ Middle(p) /\ holder = p /\ PreparedFor(p)
    BY <1>10, Alone DEF CopyAside, Middle, RawTypeOK, Prepared
  <2>2. cmd[p].digest \in Contents /\ cmd[p].name \in Names
    BY <2>1 DEF RawTypeOK, Middle
  <2>3. /\ new \in Command /\ new.at = "link" /\ new.created = FALSE /\ new.temp = cmd[p].digest
        /\ new.name = cmd[p].name /\ new.digest = cmd[p].digest /\ new.target = cmd[p].target
    BY <1>10, <2>1, <2>2 DEF Command, Steps, CopyAside, PreparedFor
  <2>4. Goes(p, new) /\ holder' = holder
    BY <1>10 DEF CopyAside
  <2> HIDE DEF new
  <2>5. cmd'[p] = new
    BY <2>3, <2>4, OneGoes
  <2>6. PreparedFor(p)'
    BY <1>10, <2>1, <2>3, <2>5 DEF CopyAside, PreparedFor, Middle, PathFor, Known, database
  <2>7. RawTypeOK'
    BY <1>10, <2>2, <2>3, <2>4, QuietType DEF RawTypeOK, CopyAside
  <2> QED BY <1>10, <2>1, <2>3, <2>4, <2>6, <2>7, QuietStep DEF CopyAside, data, database
<1>11. CASE CloseImport(p)
  <2>1. CASE Ends(p)
    BY <1>1, <1>11, <2>1 DEF CloseImport
  <2>2. CASE holder' = NoProc /\ Goes(p, [cmd[p] EXCEPT !.at = "next", !.created = FALSE])
    <3> DEFINE new == [cmd[p] EXCEPT !.at = "next", !.created = FALSE]
    <3>1. cmd[p] \in Command /\ holder = p /\ p \notin Python
      BY <1>i, <1>11, Alone DEF CloseImport, Middle, RawTypeOK, Prepared, PreparedFor
    <3>2. new \in Command /\ new.at = "next" /\ new.created = FALSE
      BY <3>1 DEF Command, Steps
    <3>3. Goes(p, new) BY <2>2
    <3> HIDE DEF new
    <3>4. cmd'[p] = new BY <3>2, <3>3, OneGoes
    <3>5. PreparedFor(p)' BY <3>2, <3>4 DEF PreparedFor, Middle
    <3>6. RawTypeOK' BY <1>11, <2>2, <3>2, <3>3, QuietType DEF RawTypeOK, CloseImport
    <3> QED BY <1>11, <2>2, <3>1, <3>2, <3>3, <3>5, <3>6, QuietStep DEF CloseImport, data, database
  <2> QED BY <1>11, <2>1, <2>2 DEF CloseImport
<1> QED BY <1>2, <1>3, <1>4, <1>5, <1>6, <1>7, <1>8, <1>9, <1>10, <1>11

\* What a step of p does to the raw files and rows is between p and the
\* data: everyone else is at the beginning, and no task is under way.
LEMMA LoneStep ==
  ASSUME Inv, UNCHANGED <<dist, task>>, NEW p \in Procs, Middle(p),
         NEW changed \in Command, Goes(p, changed),
         holder' = holder \/ holder' = NoProc,
         changed.at \notin {"idle", "next"} => holder' = p,
         p \in Python /\ changed.at = "next" => holder' = p,
         PreparedFor(p)'
  PROVE  Exclusive' /\ Prepared' /\ TaskInv'
<1>1. /\ cmd'[p] = changed
      /\ \A q \in Procs \ {p} : cmd'[q] = cmd[q]
  BY OneGoes DEF Inv
<1>2. /\ holder = p /\ task = NoTask
      /\ \A q \in Procs \ {p} : ~Middle(q)
      /\ \A q \in Python \ {p} : cmd[q].at # "next"
  BY Alone DEF Inv
<1>3. Exclusive'
  BY <1>1, <1>2 DEF Exclusive, Middle, Procs
<1>4. Prepared'
  <2>1. ASSUME NEW q \in Procs \ {p} PROVE PreparedFor(q)'
    <3>1. PreparedFor(q) /\ ~Middle(q) BY <1>2 DEF Inv, Prepared
    <3> QED BY <1>1, <2>1, <3>1 DEF PreparedFor, Middle
  <2> QED BY <2>1 DEF Prepared
<1> QED BY <1>2, <1>3, <1>4, NoTaskInv

\* The types after such a step.
LEMMA LoneType ==
  ASSUME RawTypeOK, NEW p \in Procs, NEW changed \in Command, Goes(p, changed),
         UNCHANGED <<files, lost, edits, version, cards>>,
         raw' \in [Paths -> Contents \cup {NoContent, Torn}],
         sources' \in [Contents -> Names \cup {NoName}],
         jobs' \in [Contents -> [Stages -> {"none", "queued", "done"}]],
         holder' \in Procs \cup {NoProc, Archivist},
         changed.at \notin {"idle", "next"} => changed.digest \in Contents /\ changed.name \in Names
  PROVE  RawTypeOK'
<1>1. /\ cmd' \in [Procs -> Command]
      /\ cmd'[p] = changed
      /\ \A q \in Procs \ {p} : cmd'[q] = cmd[q]
  BY OneGoes
<1>2. \A q \in Procs :
        cmd'[q].at \notin {"idle", "next"} => cmd'[q].digest \in Contents /\ cmd'[q].name \in Names
  BY <1>1 DEF RawTypeOK
<1> QED BY <1>1, <1>2 DEF RawTypeOK

\* One raw file changes, and it still holds its hash, or is torn, or is away
\* while its content is not known or while it counts as lost.
LEMMA OneFile ==
  ASSUME Inv, NEW path \in Paths, NEW c \in Contents \cup {NoContent, Torn},
         raw' = [raw EXCEPT ![path] = c],
         c \in {NoContent, Torn, path[1]},
         c = path[1] \/ path \in lost \/ ~Known(path[1]) \/ sources[path[1]] # path[2],
         UNCHANGED <<lost, database>>
  PROVE  /\ raw' \in [Paths -> Contents \cup {NoContent, Torn}]
         /\ DataInv'
<1> USE DEF Inv, DataInv
<1>1. raw' \in [Paths -> Contents \cup {NoContent, Torn}]
  BY DEF RawTypeOK
<1>2. RawHoldsItsHash'
  BY DEF RawHoldsItsHash, RawTypeOK
<1>3. RowsAreBacked'
  <2>1. ASSUME NEW d \in Contents, Known(d)'
        PROVE  raw'[<<d, sources'[d]>>] = d \/ <<d, sources'[d]>> \in lost'
    <3>1. /\ sources' = sources /\ lost' = lost /\ sources[d] \in Names
          /\ raw[<<d, sources[d]>>] = d \/ <<d, sources[d]>> \in lost
      BY <2>1 DEF RowsAreBacked, Known, RawTypeOK, database
    <3>2. CASE path = <<d, sources[d]>>
      BY <2>1, <3>1, <3>2 DEF RawTypeOK, Known, Paths
    <3>3. CASE path # <<d, sources[d]>>
      BY <3>1, <3>3 DEF RawTypeOK, Paths
    <3> QED BY <3>2, <3>3
  <2> QED BY <2>1 DEF RowsAreBacked
<1>4. SplitFirst'
  BY DEF SplitFirst, IsMarkdown, Known, database
<1> QED BY <1>1, <1>2, <1>3, <1>4

\* What a process in the middle of a file knows.
LEMMA InMiddle ==
  ASSUME Inv, NEW p \in Procs, Middle(p)
  PROVE  /\ cmd[p] \in Command /\ PreparedFor(p) /\ holder = p /\ task = NoTask
         /\ cmd[p].digest \in Contents /\ cmd[p].name \in Names
         /\ cmd[p].at # "close" => Target(p) \in Paths
  BY Alone, PathForType DEF Inv, Prepared, PreparedFor, RawTypeOK, Middle, Target, Paths

LEMMA LinkCopyInv ==
  ASSUME Inv, UNCHANGED <<dist, task>>, NEW p \in Procs, LinkCopy(p)
  PROVE  Inv'
<1> USE DEF Inv
<1> DEFINE new == [cmd[p] EXCEPT !.at = "insert", !.created = p \in Java /\ ~Known(cmd[p].digest)]
<1>1. /\ Middle(p) /\ cmd[p] \in Command /\ PreparedFor(p) /\ holder = p /\ Target(p) \in Paths
      /\ cmd[p].digest \in Contents /\ cmd[p].name \in Names /\ cmd[p].temp = cmd[p].digest
      /\ cmd[p].target = PathFor(cmd[p].digest, cmd[p].name)
  BY InMiddle DEF LinkCopy, Middle, PreparedFor
<1>2. /\ raw' = [raw EXCEPT ![Target(p)] = cmd[p].digest]
      /\ UNCHANGED <<files, lost, edits, database>>
  BY <1>1 DEF LinkCopy
<1>3. DataInv' /\ raw' \in [Paths -> Contents \cup {NoContent, Torn}]
  BY <1>1, <1>2, OneFile DEF Target
<1>4. CASE Goes(p, new) /\ holder' = holder
  <2>1. /\ new \in Command /\ new.at = "insert" /\ new.created \in BOOLEAN
        /\ new.created => p \in Java /\ ~Known(cmd[p].digest)
        /\ new.name = cmd[p].name /\ new.digest = cmd[p].digest /\ new.target = cmd[p].target
    BY <1>1 DEF Command, Steps
  <2> HIDE DEF new
  <2>2. cmd'[p] = new
    BY <1>4, <2>1, OneGoes
  <2>3. raw'[Target(p)] = cmd[p].digest
    BY <1>1, <1>2 DEF RawTypeOK
  <2>4. PreparedFor(p)'
    BY <1>1, <1>2, <2>1, <2>2, <2>3 DEF PreparedFor, Middle, PathFor, Known, Target, Backed, database
  <2>5. RawTypeOK'
    BY <1>1, <1>2, <1>3, <1>4, <2>1, LoneType DEF RawTypeOK, database
  <2> QED BY <1>1, <1>3, <1>4, <2>1, <2>4, <2>5, LoneStep
<1>5. CASE Ends(p)
  <2>1. Goes(p, Idle) /\ holder' = NoProc
    BY <1>1, <1>5 DEF Ends
  <2>2. cmd'[p] = Idle
    BY <2>1, IdleType, OneGoes
  <2>3. PreparedFor(p)'
    BY <2>2, IdleType DEF PreparedFor, Middle
  <2>4. RawTypeOK'
    BY <1>2, <1>3, <2>1, IdleType, LoneType DEF RawTypeOK, database
  <2> QED BY <1>1, <1>3, <2>1, <2>3, <2>4, IdleType, LoneStep
<1> QED BY <1>4, <1>5 DEF LinkCopy

LEMMA TextInv ==
  ASSUME Inv, UNCHANGED <<dist, task>>, NEW p \in Procs, CreateText(p) \/ WriteText(p)
  PROVE  Inv'
<1> USE DEF Inv
<1>1. /\ Middle(p) /\ cmd[p] \in Command /\ PreparedFor(p) /\ holder = p /\ Target(p) \in Paths
      /\ cmd[p].digest \in Contents /\ cmd[p].name \in Names /\ cmd[p].created = FALSE
      /\ cmd[p].target = PathFor(cmd[p].digest, cmd[p].name)
  BY InMiddle DEF CreateText, WriteText, Middle, PreparedFor, Command
<1>2. CASE CreateText(p)
  <2> DEFINE new == [cmd[p] EXCEPT !.at = "write"]
  <2>1. /\ new \in Command /\ new.at = "write" /\ new.created = FALSE
        /\ new.name = cmd[p].name /\ new.digest = cmd[p].digest /\ new.target = cmd[p].target
    BY <1>1 DEF Command, Steps
  <2>2. Goes(p, new) /\ holder' = holder
    BY <1>2 DEF CreateText
  <2>3. raw[Target(p)] = NoContent /\ raw' = [raw EXCEPT ![Target(p)] = Torn]
        /\ UNCHANGED <<files, lost, edits, database>>
    BY <1>2 DEF CreateText
  <2> HIDE DEF new
  <2>4. Target(p) \in lost \/ ~Known(Target(p)[1]) \/ sources[Target(p)[1]] # Target(p)[2]
    BY <1>1, <2>3, RawStoreAssumption DEF DataInv, RowsAreBacked, Target
  <2>5. DataInv' /\ raw' \in [Paths -> Contents \cup {NoContent, Torn}]
    BY <1>1, <2>3, <2>4, OneFile
  <2>6. cmd'[p] = new
    BY <2>1, <2>2, OneGoes
  <2>7. raw'[Target(p)] = Torn
    BY <1>1, <2>3 DEF RawTypeOK
  <2>8. PreparedFor(p)'
    BY <1>1, <2>1, <2>3, <2>6, <2>7 DEF PreparedFor, Middle, PathFor, Known, Target, database
  <2>9. RawTypeOK'
    BY <1>1, <2>1, <2>2, <2>3, <2>5, LoneType DEF RawTypeOK, database
  <2> QED BY <1>1, <2>1, <2>2, <2>5, <2>8, <2>9, LoneStep
<1>3. CASE WriteText(p)
  <2> DEFINE new == [cmd[p] EXCEPT !.at = "insert"]
  <2>1. /\ new \in Command /\ new.at = "insert" /\ new.created = FALSE
        /\ new.name = cmd[p].name /\ new.digest = cmd[p].digest /\ new.target = cmd[p].target
    BY <1>1 DEF Command, Steps
  <2>2. Goes(p, new) /\ holder' = holder /\ UNCHANGED <<files, lost, edits, database>>
    BY <1>3 DEF WriteText
  <2> HIDE DEF new
  <2>3. \/ raw[Target(p)] = NoContent /\ Target(p) \in lost
        \/ raw[Target(p)] = Torn
    BY <1>1, <1>3 DEF PreparedFor, WriteText
  <2>4. \/ raw' = raw /\ Target(p) \in lost
        \/ raw' = [raw EXCEPT ![Target(p)] = cmd[p].digest]
    BY <1>3, <2>3, RawStoreAssumption DEF WriteText
  <2>5. DataInv' /\ raw' \in [Paths -> Contents \cup {NoContent, Torn}]
    <3>1. CASE raw' = raw
      BY <2>2, <3>1, SameData DEF RawTypeOK, data, database
    <3>2. CASE raw' = [raw EXCEPT ![Target(p)] = cmd[p].digest]
      BY <1>1, <2>2, <3>2, OneFile DEF Target
    <3> QED BY <2>4, <3>1, <3>2
  <2>6. cmd'[p] = new
    BY <2>1, <2>2, OneGoes
  <2>7. Backed(Target(p))' /\ Target(p)' = Target(p)
    BY <1>1, <2>1, <2>2, <2>4, <2>6 DEF Backed, Target, RawTypeOK
  <2>8. PreparedFor(p)'
    BY <1>1, <2>1, <2>2, <2>6, <2>7 DEF PreparedFor, Middle, PathFor, Known, database
  <2>9. RawTypeOK'
    BY <1>1, <2>1, <2>2, <2>5, LoneType DEF RawTypeOK, database
  <2> QED BY <1>1, <2>1, <2>2, <2>5, <2>8, <2>9, LoneStep
<1> QED BY <1>2, <1>3

LEMMA InsertInv ==
  ASSUME Inv, UNCHANGED <<dist, task>>, NEW p \in Procs, Insert(p)
  PROVE  Inv'
<1> USE DEF Inv
<1> DEFINE c == cmd[p].digest
           new == [cmd[p] EXCEPT !.at = IF p \in Java THEN "close" ELSE "next"]
<1>1. /\ Middle(p) /\ cmd[p] \in Command /\ PreparedFor(p) /\ holder = p
      /\ c \in Contents /\ cmd[p].name \in Names /\ PathFor(c, cmd[p].name) \in Names
      /\ cmd[p].target = PathFor(c, cmd[p].name) /\ Backed(Target(p)) /\ p \in Python \cup Java
  BY InMiddle, PathForType DEF Insert, Middle, PreparedFor, Procs
<1>2. /\ sources' = [sources EXCEPT ![c] = PathFor(c, cmd[p].name)]
      /\ jobs' = IF Known(c) THEN jobs ELSE [jobs EXCEPT ![c] = FreshJobs]
      /\ Goes(p, new) /\ UNCHANGED <<files, raw, lost, edits, version, cards, holder>>
  BY DEF Insert
<1>3. /\ new \in Command /\ new.at = IF p \in Java THEN "close" ELSE "next"
      /\ new.digest = c /\ new.name = cmd[p].name /\ new.created = cmd[p].created
  BY <1>1 DEF Command, Steps
<1>4. /\ sources' \in [Contents -> Names \cup {NoName}]
      /\ jobs' \in [Contents -> [Stages -> {"none", "queued", "done"}]]
  BY <1>1, <1>2 DEF RawTypeOK, FreshJobs, NoJobs, Stages
<1>5. RowsAreBacked'
  <2>1. ASSUME NEW d \in Contents, Known(d)'
        PROVE  raw'[<<d, sources'[d]>>] = d \/ <<d, sources'[d]>> \in lost'
    <3>1. CASE d = c
      BY <1>1, <1>2, <3>1 DEF Backed, Target, RawTypeOK
    <3>2. CASE d # c
      BY <1>1, <1>2, <2>1, <3>2 DEF DataInv, RowsAreBacked, Known, RawTypeOK
    <3> QED BY <3>1, <3>2
  <2> QED BY <2>1 DEF RowsAreBacked
<1>6. SplitFirst'
  <2>1. ASSUME version = 2, NEW d \in Contents, IsMarkdown(d)', jobs'[d]["later"] # "none"
        PROVE  cards[d] = "split"
    <3>1. CASE d = c /\ ~Known(c)
      BY <1>1, <1>2, <2>1, <3>1 DEF FreshJobs, NoJobs, Stages, RawTypeOK
    <3>2. CASE d = c /\ Known(c)
      BY <1>1, <1>2, <2>1, <3>2 DEF DataInv, SplitFirst, IsMarkdown, Known, PathFor, RawTypeOK
    <3>3. CASE d # c
      BY <1>1, <1>2, <2>1, <3>3 DEF DataInv, SplitFirst, IsMarkdown, Known, RawTypeOK
    <3> QED BY <3>1, <3>2, <3>3
  <2> QED BY <1>2, <2>1 DEF SplitFirst
<1>7. DataInv'
  BY <1>2, <1>5, <1>6 DEF DataInv, RawHoldsItsHash
<1> HIDE DEF new
<1>8. cmd'[p] = new
  BY <1>2, <1>3, OneGoes
<1>9. PreparedFor(p)'
  <2>1. CASE p \in Java
    BY <1>3, <1>8, <2>1 DEF PreparedFor, Middle
  <2>2. CASE p \notin Java
    <3>1. cmd[p].created = FALSE
      BY <1>1, <2>2 DEF PreparedFor, Command
    <3> QED BY <1>3, <1>8, <2>2, <3>1 DEF PreparedFor, Middle
  <2> QED BY <2>1, <2>2
<1>10. RawTypeOK'
  BY <1>1, <1>2, <1>3, <1>4, LoneType DEF RawTypeOK
<1> QED BY <1>1, <1>2, <1>3, <1>7, <1>9, <1>10, LoneStep

LEMMA FailInv ==
  ASSUME Inv, UNCHANGED <<dist, task>>, NEW p \in Procs, Fail(p)
  PROVE  Inv'
<1> USE DEF Inv
<1>1. /\ Middle(p) /\ cmd[p] \in Command /\ PreparedFor(p) /\ holder = p /\ Target(p) \in Paths
      /\ cmd[p].digest \in Contents /\ Target(p)[1] = cmd[p].digest
  BY InMiddle DEF Fail, Middle, Target
<1>2. /\ Goes(p, Idle) /\ holder' = NoProc
      /\ UNCHANGED <<files, lost, edits, database>>
      /\ raw' = IF TakesBack(p) THEN [raw EXCEPT ![Target(p)] = NoContent] ELSE raw
  BY <1>1 DEF Fail, Ends
<1>3. TakesBack(p) => ~Known(cmd[p].digest)
  BY <1>1 DEF TakesBack, PreparedFor
<1>4. DataInv' /\ raw' \in [Paths -> Contents \cup {NoContent, Torn}]
  <2>1. CASE TakesBack(p)
    BY <1>1, <1>2, <1>3, <2>1, OneFile
  <2>2. CASE ~TakesBack(p)
    BY <1>2, <2>2, SameData DEF RawTypeOK, data, database
  <2> QED BY <2>1, <2>2
<1>5. cmd'[p] = Idle
  BY <1>2, IdleType, OneGoes
<1>6. PreparedFor(p)'
  BY <1>5, IdleType DEF PreparedFor, Middle
<1>7. RawTypeOK'
  BY <1>2, <1>4, IdleType, LoneType DEF RawTypeOK, database
<1> QED BY <1>1, <1>2, <1>4, <1>6, <1>7, IdleType, LoneStep

-----------------------------------------------------------------------------
(* The user and the automatic run.                                         *)

\* Steps of nobody's command that leave the rows where they are.
LEMMA OthersKeep ==
  ASSUME Inv, UNCHANGED <<database, holder, cmd, task>>,
         lost \subseteq lost',
         \A path \in Paths : raw'[path] = raw[path] \/ (raw'[path] = NoContent /\ path \in lost')
  PROVE  Exclusive' /\ Prepared' /\ RawHoldsItsHash' /\ RowsAreBacked' /\ TaskInv'
<1> USE DEF Inv
<1>1. Exclusive'
  BY DEF Exclusive, Middle
<1>2. ASSUME NEW p \in Procs PROVE PreparedFor(p)'
  <2>1. PreparedFor(p) BY DEF Prepared
  <2>2. CASE Middle(p) /\ cmd[p].at # "close"
    BY <2>1, <2>2, InMiddle DEF PreparedFor, Middle, PathFor, Known, Target, Backed, database
  <2>3. CASE ~(Middle(p) /\ cmd[p].at # "close")
    BY <2>1, <2>3 DEF PreparedFor, Middle
  <2> QED BY <2>2, <2>3
<1>3. RawHoldsItsHash'
  BY DEF DataInv, RawHoldsItsHash
<1>4. RowsAreBacked'
  BY DEF DataInv, RowsAreBacked, Known, RawTypeOK, Paths, database
<1>5. \A rows, members : Holds(rows, members) => Holds(rows, members)'
  BY DEF Holds
<1>6. Consistent'
  BY <1>5 DEF TaskInv, Consistent, At, Image, Holds, database
<1>7. BackupIsComplete' /\ MigrationIsRecoverable'
  BY DEF TaskInv, BackupIsComplete, MigrationIsRecoverable, At
<1> QED BY <1>1, <1>2, <1>3, <1>4, <1>6, <1>7 DEF Prepared, TaskInv

LEMMA UserInv ==
  ASSUME Inv, UNCHANGED <<dist, task>>, EditFile \/ LoseRaw
  PROVE  Inv'
<1> USE DEF Inv
<1>1. edits' \in 0 .. MaxEdits
  BY RawStoreAssumption DEF EditFile, LoseRaw, Touch, RawTypeOK
<1>2. CASE EditFile
  <2>1. RawTypeOK'
    BY <1>1, <1>2 DEF EditFile, RawTypeOK, database
  <2>2. DataInv'
    BY <1>2, SameData DEF EditFile, data, database
  <2>3. lost' = lost /\ raw' = raw
    BY <1>2 DEF EditFile
  <2> QED BY <1>2, <2>1, <2>2, <2>3, OthersKeep DEF EditFile, DataInv
<1>3. CASE LoseRaw
  <2>1. PICK path \in Paths :
          raw' = [raw EXCEPT ![path] = NoContent] /\ lost' = lost \cup {path}
    BY <1>3 DEF LoseRaw
  <2>2. RawTypeOK'
    BY <1>1, <1>3, <2>1 DEF LoseRaw, RawTypeOK, database
  <2>3. \A other \in Paths :
          raw'[other] = raw[other] \/ (raw'[other] = NoContent /\ other \in lost')
    BY <2>1 DEF RawTypeOK
  <2>4. SplitFirst'
    BY <1>3 DEF LoseRaw, DataInv, SplitFirst, IsMarkdown, Known, database
  <2> QED BY <1>3, <2>1, <2>2, <2>3, <2>4, OthersKeep DEF LoseRaw, DataInv
<1> QED BY <1>2, <1>3

LEMMA RunInv ==
  ASSUME Inv, RunStage \/ PublishSite
  PROVE  Inv'
<1> USE DEF Inv
<1>1. CASE RunStage
  <2>1. PICK c \in Contents :
          \/ /\ jobs[c]["extract"] = "queued"
             /\ jobs' = [jobs EXCEPT ![c] =
                           [extract |-> "done",
                            later |-> IF @["later"] = "none" THEN "queued" ELSE @["later"]]]
             /\ cards' = [cards EXCEPT ![c] = "split"]
          \/ /\ jobs[c]["later"] = "queued"
             /\ jobs' = [jobs EXCEPT ![c]["later"] = "done"]
             /\ UNCHANGED cards
    BY <1>1 DEF RunStage
  <2>2. UNCHANGED <<files, raw, lost, edits, version, sources, holder, cmd, task>>
    BY <1>1 DEF RunStage
  <2> DEFINE row == [extract |-> "done",
                     later |-> IF jobs[c]["later"] = "none" THEN "queued" ELSE jobs[c]["later"]]
  <2>r. /\ row \in [Stages -> {"none", "queued", "done"}]
        /\ [jobs[c] EXCEPT !["later"] = "done"] \in [Stages -> {"none", "queued", "done"}]
    BY DEF RawTypeOK, Stages
  <2>j. jobs' = [jobs EXCEPT ![c] = row] \/ jobs' = [jobs EXCEPT ![c] = [@ EXCEPT !["later"] = "done"]]
    BY <2>1
  <2> HIDE DEF row
  <2>3. /\ jobs' \in [Contents -> [Stages -> {"none", "queued", "done"}]]
        /\ cards' \in [Contents -> {"none", "legacy", "split"}]
        /\ \A d \in Contents \ {c} : jobs'[d] = jobs[d] /\ cards'[d] = cards[d]
        /\ cards'[c] = "split" \/ (cards'[c] = cards[c] /\ jobs[c]["later"] # "none")
    <3>1. /\ jobs' \in [Contents -> [Stages -> {"none", "queued", "done"}]]
          /\ \A d \in Contents \ {c} : jobs'[d] = jobs[d]
      BY <2>r, <2>j DEF RawTypeOK
    <3>2. /\ cards' \in [Contents -> {"none", "legacy", "split"}]
          /\ \A d \in Contents \ {c} : cards'[d] = cards[d]
          /\ cards'[c] = "split" \/ (cards'[c] = cards[c] /\ jobs[c]["later"] # "none")
      BY <2>1 DEF RawTypeOK
    <3> QED BY <3>1, <3>2
  <2>4. RawTypeOK'
    BY <2>2, <2>3 DEF RawTypeOK
  <2>5. SplitFirst'
    BY <2>2, <2>3 DEF DataInv, SplitFirst, IsMarkdown, Known
  <2>6. task = NoTask
    BY <1>1, Free DEF RunStage
  <2>7. Exclusive' /\ Prepared'
    BY <2>2 DEF Exclusive, Prepared, PreparedFor, Middle, Target, Backed, PathFor, Known
  <2>8. RawHoldsItsHash' /\ RowsAreBacked'
    BY <2>2 DEF DataInv, RawHoldsItsHash, RowsAreBacked, Known
  <2> QED BY <2>2, <2>4, <2>5, <2>6, <2>7, <2>8, NoTaskInv DEF DataInv
<1>2. CASE PublishSite
  BY <1>2, SameData DEF PublishSite, rawVars, data, database, RawTypeOK, Exclusive, Prepared,
     PreparedFor, Middle, Target, Backed, PathFor, Known
<1> QED BY <1>1, <1>2

-----------------------------------------------------------------------------
(* The archivist.                                                          *)

\* While a task is under way nobody works on a file.
LEMMA Archiving ==
  ASSUME Inv, task # NoTask
  PROVE  /\ holder = Archivist
         /\ \A q \in Procs : ~Middle(q)
         /\ \A q \in Python : cmd[q].at # "next"
  BY RawStoreAssumption DEF Inv, Exclusive, Procs

\* A step that only takes, keeps or gives back the lock.
LEMMA LockStep ==
  ASSUME Inv, UNCHANGED <<files, raw, lost, edits, database, cmd>>,
         holder \in {NoProc, Archivist}, holder' \in {NoProc, Archivist},
         task' # NoTask => holder' = Archivist
  PROVE  RawTypeOK' /\ Exclusive' /\ Prepared' /\ DataInv'
<1> USE DEF Inv
<1>1. \A q \in Procs : ~Middle(q)
  BY RawStoreAssumption DEF Exclusive, Procs
<1>2. \A q \in Python : cmd[q].at # "next"
  BY RawStoreAssumption DEF Exclusive, Procs
<1>3. Exclusive'
  BY <1>1, <1>2 DEF Exclusive, Middle
<1>4. Prepared'
  BY DEF Prepared, PreparedFor, Middle, Target, Backed, PathFor, Known, database
<1>5. DataInv'
  BY DEF DataInv, RawHoldsItsHash, RowsAreBacked, SplitFirst, IsMarkdown, Known, database
<1> QED BY <1>3, <1>4, <1>5 DEF RawTypeOK, database

LEMMA BeginInv ==
  ASSUME Inv, BeginMigration \/ BeginBackup \/ BeginPackage
  PROVE  Inv'
<1>1. PICK kind \in {"migrate", "backup", "package"}, at \in {"snapshot", "list"} :
        /\ <<kind, at>> # <<"backup", "snapshot">>
        /\ TakesLock /\ UNCHANGED project /\ task' = [kind |-> kind, at |-> at]
  BY DEF BeginMigration, BeginBackup, BeginPackage, Begin
<1>2. RawTypeOK' /\ Exclusive' /\ Prepared' /\ DataInv'
  BY <1>1, LockStep DEF TakesLock, project
<1>3. TaskInv'
  BY <1>1 DEF TaskInv, Consistent, BackupIsComplete, MigrationIsRecoverable, At
<1> QED BY <1>2, <1>3 DEF Inv

LEMMA FinishInv ==
  ASSUME Inv, NothingToMigrate \/ Quit
  PROVE  Inv'
<1>1. task # NoTask /\ Finish /\ UNCHANGED project
  BY DEF NothingToMigrate, Quit, At, NoTask
<1>2. RawTypeOK' /\ Exclusive' /\ Prepared' /\ DataInv'
  BY <1>1, Archiving, LockStep DEF Finish, project
<1> QED BY <1>1, <1>2, NoTaskInv DEF Finish, Inv

LEMMA MigrationInv ==
  ASSUME Inv, SnapshotFirst \/ MigrateDatabase
  PROVE  Inv'
<1> USE DEF Inv
<1>1. task # NoTask
  BY DEF SnapshotFirst, MigrateDatabase, At, NoTask
<1>2. CASE SnapshotFirst
  <2>1. RawTypeOK' /\ Exclusive' /\ Prepared' /\ DataInv'
    BY <1>1, <1>2, Archiving, LockStep DEF SnapshotFirst, rawVars
  <2>2. TaskInv'
    BY <1>2 DEF SnapshotFirst, rawVars, database, Image, TaskInv, Consistent, BackupIsComplete,
       MigrationIsRecoverable, At
  <2> QED BY <2>1, <2>2
<1>3. CASE MigrateDatabase
  <2>1. /\ version' = 2 /\ jobs' = MigratedJobs
        /\ UNCHANGED <<files, raw, lost, edits, sources, cards, holder, cmd, dist>>
        /\ task' = [kind |-> "migrate", at |-> "migrated", rescue |-> task.rescue, before |-> Image]
        /\ task.rescue = Image
    BY <1>3 DEF MigrateDatabase, TaskInv, Consistent
  <2>2. MigratedJobs \in [Contents -> [Stages -> {"none", "queued", "done"}]]
    BY DEF MigratedJobs, RawTypeOK, FreshJobs, NoJobs, Stages
  <2>3. RawTypeOK'
    BY <2>1, <2>2 DEF RawTypeOK
  <2>4. SplitFirst'
    BY <2>1 DEF SplitFirst, MigratedJobs, IsMarkdown, Known, FreshJobs, NoJobs, Stages
  <2>5. Exclusive' /\ Prepared' /\ RawHoldsItsHash' /\ RowsAreBacked'
    BY <1>1, <2>1, Archiving
    DEF Exclusive, Prepared, PreparedFor, Middle, Target, Backed, PathFor, Known,
        DataInv, RawHoldsItsHash, RowsAreBacked
  <2>6. TaskInv'
    BY <2>1 DEF TaskInv, Consistent, BackupIsComplete, MigrationIsRecoverable, At
  <2> QED BY <2>3, <2>4, <2>5, <2>6 DEF DataInv
<1> QED BY <1>2, <1>3

\* What is read at the listed names while the lock is held has every raw
\* file on record that the list had.
LEMMA ReadAgain ==
  ASSUME Inv, Holds(sources, task.listed)
  PROVE  Holds(sources, ListedTree)
<1> USE DEF Inv
<1>1. ListedTree.raw = Listed(task.listed.raw, raw)
  BY DEF ListedTree
<1>2. /\ DOMAIN ListedTree.raw = Paths
      /\ \A path \in Paths :
           ListedTree.raw[path] = IF task.listed.raw[path] = NoContent THEN NoContent ELSE raw[path]
  BY <1>1 DEF Listed, Holds
<1>3. ASSUME NEW c \in Contents, sources[c] # NoName
      PROVE  ListedTree.raw[<<c, sources[c]>>] = c \/ <<c, sources[c]>> \in lost
  <2>1. <<c, sources[c]>> \in Paths /\ c # NoContent
    BY <1>3, RawStoreAssumption DEF RawTypeOK, Paths
  <2>2. raw[<<c, sources[c]>>] = c \/ <<c, sources[c]>> \in lost
    BY <1>3 DEF DataInv, RowsAreBacked, Known
  <2>3. task.listed.raw[<<c, sources[c]>>] = c \/ <<c, sources[c]>> \in lost
    BY <1>3 DEF Holds
  <2> QED BY <1>2, <2>1, <2>2, <2>3
<1> QED BY <1>2, <1>3 DEF Holds

LEMMA BackupInv ==
  ASSUME Inv, ListTree \/ SnapshotDatabase \/ HashTree \/ WriteArchive \/ PublishBackup
  PROVE  Inv'
<1> USE DEF Inv
<1>1. task # NoTask /\ UNCHANGED <<rawVars, dist>>
  BY DEF ListTree, SnapshotDatabase, HashTree, WriteArchive, PublishBackup, At, NoTask
<1>2. RawTypeOK' /\ Exclusive' /\ Prepared' /\ DataInv'
  BY <1>1, Archiving, LockStep DEF rawVars
<1>3. sources' = sources /\ lost' = lost
  BY <1>1 DEF rawVars, database
<1> USE DEF TaskInv, Consistent, BackupIsComplete, MigrationIsRecoverable, At
<1>4. CASE ListTree
  <2>1. task' = [kind |-> "backup", at |-> "snapshot", listed |-> Tree]
    BY <1>4 DEF ListTree
  <2>2. Holds(sources, Tree)
    BY DEF Holds, Tree, DataInv, RowsAreBacked, Known, RawTypeOK
  <2> QED BY <1>2, <1>3, <2>1, <2>2 DEF Holds
<1>5. CASE SnapshotDatabase
  <2>1. /\ task' = [kind |-> "backup", at |-> "hash", listed |-> task.listed, image |-> Image]
        /\ Holds(sources, task.listed) /\ Image.sources = sources
    BY <1>5 DEF SnapshotDatabase, Image
  <2> QED BY <1>2, <1>3, <2>1 DEF Holds
<1>6. CASE HashTree
  <2>1. /\ task' = [kind |-> "backup", at |-> "write", listed |-> task.listed,
                    image |-> task.image, hashed |-> ListedTree]
        /\ Holds(sources, task.listed) /\ task.image.sources = sources
    BY <1>6 DEF HashTree
  <2> QED BY <1>2, <1>3, <2>1 DEF Holds
<1>7. CASE WriteArchive
  <2>1. /\ task' = [kind |-> "backup", at |-> "publish", image |-> task.image,
                    hashed |-> task.hashed, zip |-> ListedTree]
        /\ Holds(sources, task.listed) /\ task.image.sources = sources
    BY <1>7 DEF WriteArchive
  <2>2. Holds(sources, ListedTree)
    BY <2>1, ReadAgain
  <2> QED BY <1>2, <1>3, <2>1, <2>2 DEF Holds
<1>8. CASE PublishBackup
  <2>1. /\ task' = [kind |-> "backup", at |-> "published", image |-> task.image,
                    manifest |-> task.hashed, members |-> task.zip]
        /\ Holds(sources, task.zip) /\ task.image.sources = sources
        /\ task.zip = task.hashed
    BY <1>8 DEF PublishBackup, Verified
  <2> QED BY <1>2, <1>3, <2>1 DEF Holds
<1> QED BY <1>4, <1>5, <1>6, <1>7, <1>8

LEMMA PackageInv ==
  ASSUME Inv, ListSite \/ PublishPackage
  PROVE  Inv'
<1>1. task # NoTask /\ UNCHANGED <<rawVars, dist>> /\ task'.kind = "package" /\ task' # NoTask
  BY DEF ListSite, PublishPackage, At, NoTask
<1>2. RawTypeOK' /\ Exclusive' /\ Prepared' /\ DataInv'
  BY <1>1, Archiving, LockStep DEF rawVars
<1> QED BY <1>1, <1>2 DEF Inv, TaskInv, Consistent, BackupIsComplete, MigrationIsRecoverable, At

-----------------------------------------------------------------------------
(* The invariant.                                                          *)

LEMMA StartsConsistent == Init => Inv
<1> SUFFICES ASSUME Init PROVE Inv
  OBVIOUS
<1> USE DEF Init
<1>1. /\ Idle \in Command /\ Idle.at = "idle" /\ Idle.created = FALSE
      /\ \A p \in Procs : cmd[p] = Idle
  BY IdleType
<1>2. RawTypeOK
  <2>1. jobs \in [Contents -> [Stages -> {"none", "queued", "done"}]]
    BY DEF LegacyJobs, NoJobs, Stages
  <2>2. raw \in [Paths -> Contents \cup {NoContent, Torn}]
    BY DEF Paths, Known
  <2>3. cards \in [Contents -> {"none", "legacy", "split"}] /\ edits \in 0 .. MaxEdits
    BY RawStoreAssumption
  <2> QED BY <1>1, <2>1, <2>2, <2>3 DEF RawTypeOK
<1>3. Exclusive /\ Prepared
  BY <1>1, RawStoreAssumption DEF Exclusive, Prepared, PreparedFor, Middle, Procs
<1>4. DataInv
  BY <1>2 DEF DataInv, RawHoldsItsHash, RowsAreBacked, SplitFirst, IsMarkdown, RawTypeOK, Paths, Known
<1>5. TaskInv
  BY DEF NoTask, TaskInv, Consistent, BackupIsComplete, MigrationIsRecoverable, At
<1> QED BY <1>2, <1>3, <1>4, <1>5 DEF Inv

LEMMA StaysConsistent == Inv /\ [Next]_vars => Inv'
<1> SUFFICES ASSUME Inv, [Next]_vars PROVE Inv'
  OBVIOUS
<1>1. ASSUME UNCHANGED <<dist, task>>, NEW p \in Procs, RawStep(p) PROVE Inv'
  BY <1>1, QuietSteps, LinkCopyInv, TextInv, InsertInv, FailInv DEF RawStep
<1>2. CASE RawNext /\ UNCHANGED <<dist, task>>
  BY <1>1, <1>2, UserInv DEF RawNext
<1>3. CASE RunStage \/ PublishSite
  BY <1>3, RunInv
<1>4. CASE ArchiveStep
  BY <1>4, BeginInv, FinishInv, MigrationInv, BackupInv, PackageInv DEF ArchiveStep
<1>5. CASE UNCHANGED vars
  BY <1>5, SameData DEF vars, rawVars, data, database, Inv, RawTypeOK, Exclusive, Prepared,
     PreparedFor, Middle, Target, Backed, PathFor, Known
<1> QED BY <1>2, <1>3, <1>4, <1>5 DEF Next

LEMMA AlwaysConsistent == Spec => []Inv
  BY StartsConsistent, StaysConsistent, PTL DEF Spec

-----------------------------------------------------------------------------
(* The results.                                                            *)

\* Every variable of the store keeps its type, in particular a command in
\* the middle of a file always has a content and a name to work with
\* (ingest.py ingest_source, SqliteKnowledgeImportService importFile).
THEOREM StoreTypeCorrect == Spec => []RawTypeOK
  BY AlwaysConsistent, PTL DEF Inv

\* Every source on record has its raw copy, whole, unless somebody deleted
\* it by hand: for any number of Python and Java processes that ingest the
\* same contents, fail at any call and die between any two of them.
THEOREM RowsStayBacked == Spec => []RowsAreBacked
  BY AlwaysConsistent, PTL DEF Inv, DataInv

\* A raw file never holds another content than the one it is filed under,
\* however the original changes while it is read (ingest.py _copy_immutable).
THEOREM RawAlwaysHoldsItsHash == Spec => []RawHoldsItsHash
  BY AlwaysConsistent, PTL DEF Inv, DataInv

\* A published backup has the raw file of every source in its database and
\* is what its manifest says (operations/project_backup.py package_project).
THEOREM BackupsAreComplete == Spec => []BackupIsComplete
  BY AlwaysConsistent, PTL DEF Inv, TaskInv

\* A site package holds the one build its manifest lists: no build is
\* published between the two readings (operations/site_package.py
\* package_site, cli.py main).
THEOREM PackagesAreOneBuild == Spec => []PackageIsOneBuild
<1> DEFINE OneBuild == PackageIsOneBuild /\ (At("package", "publish") => task.manifest = dist)
<1>1. Init => OneBuild
  BY DEF Init, NoTask, At, PackageIsOneBuild
<1>2. ASSUME Inv, [Next]_vars, OneBuild PROVE OneBuild'
  <2> USE <1>2 DEF At, PackageIsOneBuild
  <2>1. CASE UNCHANGED <<dist, task>>
    BY <2>1
  <2>2. CASE PublishSite
    <3>1. task = NoTask /\ task' = task
      BY <2>2, Free DEF PublishSite, Inv
    <3> QED BY <3>1 DEF NoTask
  <2>3. CASE ArchiveStep
    <3>1. CASE BeginMigration \/ BeginBackup \/ BeginPackage \/ NothingToMigrate \/ Quit
      BY <3>1 DEF BeginMigration, BeginBackup, BeginPackage, Begin, NothingToMigrate, Quit,
         Finish, NoTask
    <3>2. CASE SnapshotFirst \/ MigrateDatabase
      BY <3>2 DEF SnapshotFirst, MigrateDatabase
    <3>3. CASE ListTree \/ SnapshotDatabase \/ HashTree \/ WriteArchive \/ PublishBackup
      BY <3>3 DEF ListTree, SnapshotDatabase, HashTree, WriteArchive, PublishBackup
    <3>4. CASE ListSite \/ PublishPackage
      BY <3>4 DEF ListSite, PublishPackage
    <3> QED BY <2>3, <3>1, <3>2, <3>3, <3>4 DEF ArchiveStep
  <2> QED BY <2>1, <2>2, <2>3 DEF Next, RunStage, vars
<1>3. OneBuild => PackageIsOneBuild
  OBVIOUS
<1> HIDE DEF OneBuild
<1> QED BY <1>1, <1>2, <1>3, AlwaysConsistent, PTL DEF Spec

\* The snapshot a migration leaves is the database it replaced
\* (operations/migration.py migrate_project_database).
THEOREM MigrationsAreRecoverable == Spec => []MigrationIsRecoverable
  BY AlwaysConsistent, PTL DEF Inv, TaskInv

\* No Markdown source of a migrated project finishes its later stages with
\* the one legacy document (storage/migrations.py migrate_v1_to_v2).
THEOREM MarkdownIsAlwaysSplit == Spec => []MarkdownIsSplit
<1>1. Inv => MarkdownIsSplit
  BY DEF Inv, DataInv, SplitFirst, MarkdownIsSplit
<1> QED BY <1>1, AlwaysConsistent, PTL

\* A whole raw file is never rewritten and never taken away while a row
\* names it, and no row changes the file it names: the raw directory is
\* immutable but for the user (ingest.py _copy_immutable and ingest_text,
\* SqliteKnowledgeImportService cleanupAfterRollback).
THEOREM RawStaysImmutable == Spec => RawIsImmutable
<1> DEFINE Kept == /\ \A path \in Paths :
                        raw[path] \in Contents /\ raw'[path] # raw[path]
                          => /\ raw'[path] = NoContent
                             /\ path \in lost' \/ sources'[path[1]] # path[2]
                   /\ \A c \in Contents : Known(c) => sources'[c] = sources[c]
<1>1. ASSUME Inv, [Next]_vars PROVE [Kept]_rawVars
  <2> USE <1>1 DEF Inv
  <2>1. CASE UNCHANGED <<raw, sources>>
    BY <2>1
  <2>2. CASE LoseRaw
    <3>1. PICK path \in Paths : raw' = [raw EXCEPT ![path] = NoContent] /\ lost' = lost \cup {path}
      BY <2>2 DEF LoseRaw
    <3> QED BY <2>2, <3>1 DEF LoseRaw, RawTypeOK, database
  <2>3. ASSUME NEW p \in Procs, LinkCopy(p) \/ CreateText(p) \/ WriteText(p) PROVE Kept
    <3>1. Target(p) \in Paths /\ PreparedFor(p)
      BY <2>3, InMiddle DEF LinkCopy, CreateText, WriteText, Middle
    <3>2. raw[Target(p)] \notin Contents \/ raw' = raw
      BY <2>3, <3>1, RawStoreAssumption DEF LinkCopy, CreateText, WriteText, PreparedFor
    <3>3. \A path \in Paths \ {Target(p)} : raw'[path] = raw[path]
      BY <2>3, <3>1 DEF LinkCopy, CreateText, WriteText, RawTypeOK
    <3> QED BY <2>3, <3>2, <3>3 DEF LinkCopy, CreateText, WriteText, database
  <2>4. ASSUME NEW p \in Procs, Insert(p) PROVE Kept
    <3>1. cmd[p].digest \in Contents
      BY <2>4, InMiddle DEF Insert, Middle
    <3> QED BY <2>4, <3>1 DEF Insert, PathFor, Known, RawTypeOK
  <2>5. ASSUME NEW p \in Procs, Fail(p) PROVE Kept
    <3>1. /\ Target(p) \in Paths /\ PreparedFor(p) /\ cmd[p].digest \in Contents
          /\ Target(p)[1] = cmd[p].digest
          /\ Target(p)[2] \in Names
      BY <2>5, InMiddle DEF Fail, Middle, Target, Paths
    <3>2. TakesBack(p) => ~Known(cmd[p].digest)
      BY <3>1 DEF TakesBack, PreparedFor
    <3> QED BY <2>5, <3>1, <3>2, RawStoreAssumption DEF Fail, RawTypeOK, Known, database
  <2>6. ASSUME NEW p \in Procs, CloseImport(p) PROVE UNCHANGED <<raw, sources>>
    BY <2>6 DEF CloseImport, database
  <2>7. ASSUME NEW p \in Procs, RawStep(p) PROVE Kept
    BY <2>1, <2>3, <2>4, <2>5, <2>6, <2>7
    DEF RawStep, StartIngest, StartText, StartChat, StartJava, Crash, EndCommand, NextFile,
        AcceptExisting, CopyAside, database
  <2>8. CASE ArchiveStep
    BY <2>1, <2>8
    DEF ArchiveStep, BeginMigration, BeginBackup, BeginPackage, Begin, NothingToMigrate, Quit,
        SnapshotFirst, MigrateDatabase, ListTree, SnapshotDatabase, HashTree, WriteArchive,
        PublishBackup, ListSite, PublishPackage, project, rawVars, database
  <2> QED BY <2>1, <2>2, <2>7, <2>8
          DEF Next, RawNext, EditFile, RunStage, PublishSite, vars, rawVars, database
<1> QED BY <1>1, AlwaysConsistent, PTL DEF Spec, RawIsImmutable

-----------------------------------------------------------------------------
(* The lock, as the commands use it.                                       *)

\* Whoever has the lock does something itself.
HolderMoves ==
  \/ holder \in Procs /\ cmd'[holder] # cmd[holder]
  \/ holder = Archivist /\ task' # task

Written == <<raw, version, sources, jobs, cards, dist>>

\* Nobody takes the lock from a command that is still at work; and nothing
\* of the project is written but by the command that has the lock, by an
\* automatic run that finds it free, and by the user.
WritersAreInside ==
  [][/\ holder' # holder => holder = NoProc \/ HolderMoves
     /\ Written' # Written =>
          \/ HolderMoves
          \/ holder = NoProc /\ holder' = NoProc
          \/ edits' # edits]_vars

Lock == INSTANCE WriterLock
          WITH Writers <- Procs \cup {Archivist}, inside <- {holder} \ {NoProc}

\* A command past its beginning that changes its place moves.
LEMMA HolderGoes ==
  ASSUME Inv, NEW p \in Procs, NEW changed \in Command, Goes(p, changed),
         holder = p, changed # cmd[p]
  PROVE  HolderMoves
  BY OneGoes DEF Inv, HolderMoves

\* The end of a command.
LEMMA EndIsOwn ==
  ASSUME Inv, NEW p \in Procs, cmd[p] # Idle, Ends(p)
  PROVE  /\ holder' # holder => HolderMoves
         /\ holder = p => HolderMoves
<1>1. holder = p => HolderMoves
  BY HolderGoes, IdleType DEF Ends
<1> QED BY <1>1 DEF Ends

LEMMA ProcessesWriteInside ==
  ASSUME Inv, NEW p \in Procs, RawStep(p), UNCHANGED <<dist, task>>
  PROVE  /\ holder' # holder => holder = NoProc \/ HolderMoves
         /\ Written' # Written => HolderMoves
<1> USE DEF Written, database
<1>1. CASE StartIngest(p) \/ StartText(p) \/ StartChat(p) \/ StartJava(p)
  BY <1>1 DEF StartIngest, StartText, StartChat, StartJava, Opens
<1>2. CASE Crash(p) \/ EndCommand(p)
  <2>1. cmd[p] # Idle /\ Ends(p)
    BY <1>2, IdleType DEF Crash, EndCommand
  <2>2. Written' = Written
    BY <1>2 DEF Crash, EndCommand
  <2> QED BY <2>1, <2>2, EndIsOwn
<1>3. CASE NextFile(p)
  BY <1>3 DEF NextFile
<1>4. CASE AcceptExisting(p) \/ CopyAside(p)
  BY <1>4 DEF AcceptExisting, CopyAside
<1>5. ASSUME Middle(p), cmd'[p] # cmd[p] PROVE HolderMoves
  BY <1>5, InMiddle DEF HolderMoves
<1>6. CASE LinkCopy(p) \/ CreateText(p) \/ WriteText(p) \/ Insert(p) \/ Fail(p) \/ CloseImport(p)
  <2>1. Middle(p)
    BY <1>6 DEF Middle, LinkCopy, CreateText, WriteText, Insert, Fail, CloseImport
  <2>2. cmd'[p] # cmd[p]
    <3>1. ASSUME Ends(p) PROVE cmd'[p] # cmd[p]
      BY <2>1, <3>1, IdleType, OneGoes DEF Ends, Inv, Middle
    <3>2. cmd[p] \in Command /\ DOMAIN cmd = Procs
      BY DEF Inv, RawTypeOK
    <3>3. CASE CreateText(p) \/ WriteText(p) \/ Insert(p)
      <4>1. cmd'[p].at # cmd[p].at
        BY <3>2, <3>3 DEF CreateText, WriteText, Insert, Goes, Command
      <4> QED BY <4>1
    <3>4. CASE LinkCopy(p) \/ CloseImport(p)
      <4>1. ASSUME NEW changed \in Command, Goes(p, changed), changed.at # cmd[p].at
            PROVE  cmd'[p] # cmd[p]
        BY <4>1, OneGoes DEF Inv
      <4>2. CASE LinkCopy(p) /\ ~Ends(p)
        <5>1. PICK b \in BOOLEAN : Goes(p, [cmd[p] EXCEPT !.at = "insert", !.created = b])
          BY <4>2 DEF LinkCopy
        <5>2. /\ [cmd[p] EXCEPT !.at = "insert", !.created = b] \in Command
              /\ [cmd[p] EXCEPT !.at = "insert", !.created = b].at = "insert"
          BY <3>2 DEF Command, Steps
        <5> QED BY <4>1, <4>2, <5>1, <5>2 DEF LinkCopy
      <4>3. CASE CloseImport(p) /\ ~Ends(p)
        <5>1. /\ [cmd[p] EXCEPT !.at = "next", !.created = FALSE] \in Command
              /\ [cmd[p] EXCEPT !.at = "next", !.created = FALSE].at = "next"
          BY <3>2 DEF Command, Steps
        <5> QED BY <4>1, <4>3, <5>1 DEF CloseImport
      <4> QED BY <3>1, <3>4, <4>2, <4>3
    <3>5. CASE Fail(p)
      BY <3>1, <3>5 DEF Fail
    <3> QED BY <1>6, <3>3, <3>4, <3>5
  <2> QED BY <1>5, <2>1, <2>2
<1> QED BY <1>1, <1>2, <1>3, <1>4, <1>6 DEF RawStep

LEMMA ArchivistWritesInside ==
  ASSUME Inv, ArchiveStep
  PROVE  /\ holder' # holder => holder = NoProc \/ HolderMoves
         /\ Written' # Written => HolderMoves
<1> USE DEF Written, database, project, rawVars
<1>1. CASE BeginMigration \/ BeginBackup \/ BeginPackage
  BY <1>1 DEF BeginMigration, BeginBackup, BeginPackage, Begin, TakesLock
<1>2. task # NoTask => holder = Archivist
  BY DEF Inv, Exclusive
<1>3. CASE NothingToMigrate \/ Quit
  BY <1>2, <1>3 DEF NothingToMigrate, Quit, Finish, HolderMoves, At, NoTask
<1>4. CASE MigrateDatabase
  BY <1>2, <1>4 DEF MigrateDatabase, HolderMoves, At, NoTask
<1>5. CASE SnapshotFirst \/ ListTree \/ SnapshotDatabase \/ HashTree \/ WriteArchive
             \/ PublishBackup \/ ListSite \/ PublishPackage
  BY <1>5 DEF SnapshotFirst, ListTree, SnapshotDatabase, HashTree, WriteArchive,
              PublishBackup, ListSite, PublishPackage
<1> QED BY <1>1, <1>3, <1>4, <1>5 DEF ArchiveStep

\* The files, the database and the site are written by the holder of the
\* project lock or by a whole automatic run, never beside another command,
\* and nobody loses the lock to another one (cli.py main, operations/
\* __main__.py main, SqliteKnowledgeImportService).
THEOREM NothingIsWrittenBesideTheHolder == Spec => WritersAreInside
<1> DEFINE Inside == /\ holder' # holder => holder = NoProc \/ HolderMoves
                     /\ Written' # Written =>
                          \/ HolderMoves
                          \/ holder = NoProc /\ holder' = NoProc
                          \/ edits' # edits
<1>1. ASSUME Inv, [Next]_vars PROVE [Inside]_vars
  <2>1. ASSUME UNCHANGED <<dist, task>>, NEW p \in Procs, RawStep(p) PROVE Inside
    BY <1>1, <2>1, ProcessesWriteInside
  <2>2. CASE EditFile \/ LoseRaw
    BY <1>1, <2>2 DEF EditFile, LoseRaw, Touch, Inv, RawTypeOK
  <2>3. CASE RunStage \/ PublishSite
    BY <2>3 DEF RunStage, PublishSite, rawVars
  <2>4. CASE ArchiveStep
    BY <1>1, <2>4, ArchivistWritesInside
  <2> HIDE DEF Inside
  <2> QED BY <1>1, <2>1, <2>2, <2>3, <2>4 DEF Next, RawNext
<1> QED BY <1>1, AlwaysConsistent, PTL DEF Spec, WritersAreInside

\* Commands and archivist use the project lock as writers that come in when
\* nobody is inside: the abstract lock that ProjectLock is shown to
\* implement for the threads of any number of processes.
THEOREM CommandsUseTheLock == Spec => Lock!Spec
<1>1. Init => Lock!Init
  BY DEF Init, Lock!Init
<1>2. ASSUME Inv, [Next]_vars PROVE [Lock!Next]_({holder} \ {NoProc})
  <2>1. holder' # holder => holder = NoProc \/ holder' = NoProc
    <3>1. ASSUME NEW p \in Procs, RawStep(p), holder' # holder
          PROVE  holder = NoProc \/ holder' = NoProc
      BY <3>1 DEF RawStep, StartIngest, StartText, StartChat, StartJava, Crash, EndCommand, NextFile,
         AcceptExisting, CopyAside, LinkCopy, CreateText, WriteText, Insert, Fail, CloseImport,
         Opens, Ends
    <3>2. CASE ArchiveStep
      BY <3>2 DEF ArchiveStep, BeginMigration, BeginBackup, BeginPackage, Begin, TakesLock,
         NothingToMigrate, Quit, Finish, SnapshotFirst, MigrateDatabase, ListTree, SnapshotDatabase,
         HashTree, WriteArchive, PublishBackup, ListSite, PublishPackage, rawVars
    <3> QED BY <1>2, <3>1, <3>2 DEF Next, RawNext, EditFile, LoseRaw, RunStage, PublishSite, vars, rawVars
  <2>2. holder \in Procs \cup {Archivist, NoProc} /\ holder' \in Procs \cup {Archivist, NoProc}
    BY <1>2, StaysConsistent DEF Inv, RawTypeOK
  <2>3. CASE holder' = holder
    BY <2>3
  <2>4. CASE holder' # holder /\ holder = NoProc
    <3>1. Lock!Enter(holder')
      BY <2>2, <2>4 DEF Lock!Enter
    <3> QED BY <2>2, <2>4, <3>1 DEF Lock!Next
  <2>5. CASE holder' # holder /\ holder' = NoProc
    BY <2>5 DEF Lock!Next, Lock!Leave
  <2> QED BY <2>1, <2>3, <2>4, <2>5
<1> QED BY <1>1, <1>2, AlwaysConsistent, PTL DEF Spec, Lock!Spec
=============================================================================
