------------------------------ MODULE RawStore ------------------------------
(***************************************************************************)
(* Taking files and texts into the project: ingest.py, the insertion of    *)
(* storage/records.py, and the Java importer, which share the raw          *)
(* directory, the sources table and the project lock.                      *)
(*                                                                         *)
(* A raw file lives under the hash of its content and the name it came     *)
(* with, so a path is a content and a name.  The user may rewrite a file   *)
(* while it is being read, lose a raw file, and every command may fail at  *)
(* a system call or die between two of them.                               *)
(***************************************************************************)
EXTENDS Naturals, FiniteSets

CONSTANTS Python,    \* processes that run the Python command line
          Java,      \* processes that run the Java importer
          Archivist, \* the process that migrates and archives, see Store
          Contents,  \* what a file or a text may hold
          Names,     \* the names files and texts come under
          Markdown,  \* those that end in .md or .markdown
          NoName, NoContent, Torn, NoProc,
          MaxEdits   \* bound on what the user does to files by hand

ASSUME RawStoreAssumption ==
  /\ Markdown \subseteq Names
  /\ NoName \notin Names
  /\ {NoContent, Torn} \cap Contents = {}
  /\ NoContent # Torn
  /\ {NoProc, Archivist} \cap (Python \cup Java) = {}
  /\ Python \cap Java = {}
  /\ NoProc # Archivist
  /\ MaxEdits \in Nat

Procs == Python \cup Java
Paths == Contents \X Names
Stages == {"extract", "later"}  \* later: enrichment, then the index
NoJobs == [s \in Stages |-> "none"]
FreshJobs == [NoJobs EXCEPT !["extract"] = "queued"]

\* Where a command is.  "next" is between two files: there Python still
\* holds the project lock, Java does not.
Steps == {"idle", "next", "copy", "link", "text", "write", "insert", "close"}

Command == [at : Steps, todo : SUBSET Names, name : Names \cup {NoName},
            digest : Contents \cup {NoContent}, target : Names \cup {NoName},
            temp : Contents \cup {NoContent}, created : BOOLEAN]

Idle == [at |-> "idle", todo |-> {}, name |-> NoName,
         digest |-> NoContent, target |-> NoName, temp |-> NoContent, created |-> FALSE]

VARIABLES files,    \* the user's files: name -> content
          raw,      \* workspace/data/raw: path -> content
          lost,     \* raw paths somebody has deleted by hand
          edits,    \* how often the user has touched a file
          version,  \* metadata.schema_version
          sources,  \* content -> the name in the raw_path of its row
          jobs,     \* content -> stage -> status of the row
          cards,    \* content -> what the documents of the source are
          holder,   \* who holds the project lock
          cmd       \* process -> the command it runs

database == <<version, sources, jobs, cards>>
rawVars == <<files, raw, lost, edits, database, holder, cmd>>

RawTypeOK ==
  /\ files \in [Names -> Contents \cup {NoContent}]
  /\ raw \in [Paths -> Contents \cup {NoContent, Torn}]
  /\ lost \subseteq Paths
  /\ edits \in 0 .. MaxEdits
  /\ version \in {1, 2}
  /\ sources \in [Contents -> Names \cup {NoName}]
  /\ jobs \in [Contents -> [Stages -> {"none", "queued", "done"}]]
  /\ cards \in [Contents -> {"none", "legacy", "split"}]
  /\ holder \in Procs \cup {NoProc, Archivist}
  /\ cmd \in [Procs -> Command]
  /\ \A p \in Procs :
       cmd[p].at \notin {"idle", "next"} => cmd[p].digest \in Contents /\ cmd[p].name \in Names

Known(c) == sources[c] # NoName
Present == {n \in Names : files[n] # NoContent}

\* Mutant of PathFor: a known source gets a new row path with every name.
PathForNew(c, n) == n

\* The raw path a row of that content names, or would name.
PathFor(c, n) == IF Known(c) THEN sources[c] ELSE n
Target(p) == <<cmd[p].digest, cmd[p].target>>

-----------------------------------------------------------------------------
(* The user.                                                               *)

Touch == edits < MaxEdits /\ edits' = edits + 1

EditFile ==
  /\ Touch
  /\ \E n \in Names, c \in Contents \cup {NoContent} :
       files[n] # c /\ files' = [files EXCEPT ![n] = c]
  /\ UNCHANGED <<raw, lost, database, holder, cmd>>

LoseRaw ==
  /\ Touch
  /\ \E path \in Paths :
       /\ raw[path] # NoContent
       /\ raw' = [raw EXCEPT ![path] = NoContent]
       /\ lost' = lost \cup {path}
  /\ UNCHANGED <<files, database, holder, cmd>>

-----------------------------------------------------------------------------
(* Commands begin and end.                                                 *)

Goes(p, changed) == cmd' = [cmd EXCEPT ![p] = changed]
Ends(p) == Goes(p, Idle) /\ holder' = IF holder = p THEN NoProc ELSE holder

\* cli.main takes the lock; _open_project refuses a v1 database.
Opens(p) ==
  /\ p \in Python
  /\ cmd[p] = Idle
  /\ holder = NoProc
  /\ version = 2
  /\ holder' = p

StartIngest(p) ==
  /\ Opens(p)
  /\ Goes(p, [Idle EXCEPT !.at = "next", !.todo = Present])
  /\ UNCHANGED <<files, raw, lost, edits, database>>

\* ingest_text: the content is known, nothing is read from the user's files.
StartText(p) ==
  /\ Opens(p)
  /\ \E c \in Contents, n \in Markdown :
       Goes(p, [Idle EXCEPT !.at = "text", !.name = n,
                            !.digest = c, !.target = PathFor(c, n)])
  /\ UNCHANGED <<files, raw, lost, edits, database>>

\* A conversation becomes a Markdown file, unless one of that name exists;
\* what is then ingested is what the file holds.
StartChat(p) ==
  /\ Opens(p)
  /\ \E c \in Contents, n \in Markdown :
       /\ files' = IF files[n] = NoContent THEN [files EXCEPT ![n] = c] ELSE files
       /\ Goes(p, [Idle EXCEPT !.at = "next", !.todo = {n}])
  /\ UNCHANGED <<raw, lost, edits, database>>

\* The Java command: its arguments, no lock yet, either schema.
StartJava(p) ==
  /\ p \in Java
  /\ cmd[p] = Idle
  /\ \E todo \in SUBSET Names \ {{}} :
       Goes(p, [Idle EXCEPT !.at = "next", !.todo = todo])
  /\ UNCHANGED <<files, raw, lost, edits, database, holder>>

\* The process dies; its lock goes with it.
Crash(p) ==
  /\ cmd[p] # Idle
  /\ Ends(p)
  /\ UNCHANGED <<files, raw, lost, edits, database>>

-----------------------------------------------------------------------------
(* One file.                                                               *)

\* Nothing left to do, a file that is gone, or for Java, which locks anew
\* for every file, a lock that is taken: the command is over.
EndCommand(p) ==
  /\ cmd[p].at = "next"
  /\ \/ cmd[p].todo = {}
     \/ \E n \in cmd[p].todo : files[n] = NoContent
     \/ holder \notin {p, NoProc}
  /\ Ends(p)
  /\ UNCHANGED <<files, raw, lost, edits, database>>

\* Hash the file and look its hash up.
NextFile(p) ==
  /\ cmd[p].at = "next"
  /\ holder = IF p \in Java THEN NoProc ELSE p
  /\ holder' = p
  /\ \E n \in cmd[p].todo :
       /\ files[n] # NoContent
       /\ Goes(p, [cmd[p] EXCEPT !.at = "copy", !.todo = @ \ {n}, !.name = n,
                                 !.digest = files[n], !.target = PathFor(files[n], n),
                                 !.temp = NoContent, !.created = FALSE])
  /\ UNCHANGED <<files, raw, lost, edits, database>>

\* A raw file that is there already, now or when the copy is linked.
AcceptExisting(p) ==
  /\ cmd[p].at \in {"copy", "link", "text"}
  /\ raw[Target(p)] = cmd[p].digest
  /\ Goes(p, [cmd[p] EXCEPT !.at = "insert"])
  /\ UNCHANGED <<files, raw, lost, edits, database, holder>>

\* Mutant of CopyAside: the copy is not hashed.
CopyUnchecked(p) ==
  /\ cmd[p].at = "copy"
  /\ raw[Target(p)] = NoContent
  /\ files[cmd[p].name] # NoContent
  /\ Goes(p, [cmd[p] EXCEPT !.at = "link", !.temp = files[cmd[p].name]])
  /\ UNCHANGED <<files, raw, lost, edits, database, holder>>

\* A temporary copy of the file as it is now, hashed once more.
CopyAside(p) ==
  /\ cmd[p].at = "copy"
  /\ raw[Target(p)] = NoContent
  /\ files[cmd[p].name] = cmd[p].digest
  /\ Goes(p, [cmd[p] EXCEPT !.at = "link", !.temp = files[cmd[p].name]])
  /\ UNCHANGED <<files, raw, lost, edits, database, holder>>

\* The link makes the raw file appear whole.  Java remembers that it did,
\* for a source that is new.  Removing the temporary copy may still raise,
\* and then nobody remembers.
LinkCopy(p) ==
  /\ cmd[p].at = "link"
  /\ raw[Target(p)] = NoContent
  /\ raw' = [raw EXCEPT ![Target(p)] = cmd[p].temp]
  /\ \/ /\ Goes(p, [cmd[p] EXCEPT !.at = "insert",
                       !.created = p \in Java /\ ~Known(cmd[p].digest)])
        /\ UNCHANGED holder
     \/ Ends(p)
  /\ UNCHANGED <<files, lost, edits, database>>

\* A text is written under its final name, and torn until it is complete.
CreateText(p) ==
  /\ cmd[p].at = "text"
  /\ raw[Target(p)] = NoContent
  /\ raw' = [raw EXCEPT ![Target(p)] = Torn]
  /\ Goes(p, [cmd[p] EXCEPT !.at = "write"])
  /\ UNCHANGED <<files, lost, edits, database, holder>>

\* Somebody may have deleted it meanwhile; the writer does not notice.
WriteText(p) ==
  /\ cmd[p].at = "write"
  /\ raw' = IF raw[Target(p)] = NoContent
            THEN raw
            ELSE [raw EXCEPT ![Target(p)] = cmd[p].digest]
  /\ Goes(p, [cmd[p] EXCEPT !.at = "insert"])
  /\ UNCHANGED <<files, lost, edits, database, holder>>

\* The source, its first job and the event in one commit; nothing for a
\* source that is known.
Insert(p) ==
  LET c == cmd[p].digest
  IN  /\ cmd[p].at = "insert"
      /\ sources' = [sources EXCEPT ![c] = PathFor(c, cmd[p].name)]
      /\ jobs' = IF Known(c) THEN jobs ELSE [jobs EXCEPT ![c] = FreshJobs]
      /\ Goes(p, [cmd[p] EXCEPT !.at = IF p \in Java THEN "close" ELSE "next"])
      /\ UNCHANGED <<files, raw, lost, edits, version, cards, holder>>

\* A call raises or a hash does not fit, and with that the command is over.
\* Python takes back the new raw file of a text it could not complete, Java
\* the raw file it has created in the transaction that is rolled back.
TakesBack(p) ==
  \/ cmd[p].at = "write" /\ ~Known(cmd[p].digest)
  \/ cmd[p].at = "insert" /\ cmd[p].created

Fail(p) ==
  /\ cmd[p].at \in {"copy", "link", "text", "write", "insert"}
  /\ raw' = IF TakesBack(p) THEN [raw EXCEPT ![Target(p)] = NoContent] ELSE raw
  /\ Ends(p)
  /\ UNCHANGED <<files, lost, edits, database>>

\* Mutant of CloseImport: the error of closing is taken for a rollback.
CloseCleaningUp(p) ==
  /\ cmd[p].at = "close"
  /\ raw' = IF cmd[p].created THEN [raw EXCEPT ![Target(p)] = NoContent] ELSE raw
  /\ Ends(p)
  /\ UNCHANGED <<files, lost, edits, database>>

\* Java closes the connection and gives the lock back.  Closing may raise,
\* and the raw file stays: the row is committed.
CloseImport(p) ==
  /\ cmd[p].at = "close"
  /\ \/ /\ holder' = NoProc
        /\ Goes(p, [cmd[p] EXCEPT !.at = "next", !.created = FALSE])
     \/ Ends(p)
  /\ UNCHANGED <<files, raw, lost, edits, database>>

RawStep(p) ==
  \/ StartIngest(p) \/ StartText(p) \/ StartChat(p) \/ StartJava(p) \/ Crash(p)
  \/ EndCommand(p) \/ NextFile(p) \/ AcceptExisting(p) \/ CopyAside(p) \/ LinkCopy(p)
  \/ CreateText(p) \/ WriteText(p) \/ Insert(p) \/ Fail(p) \/ CloseImport(p)

RawNext == EditFile \/ LoseRaw \/ \E p \in Procs : RawStep(p)

-----------------------------------------------------------------------------
(* What the raw directory promises the sources table.                      *)

\* Every source has its immutable copy: the raw file its row names is there
\* and whole, unless somebody deleted it by hand (ingest.py _copy_immutable,
\* SqliteKnowledgeImportService cleanupAfterRollback).
RowsAreBacked ==
  \A c \in Contents :
    Known(c) => raw[<<c, sources[c]>>] = c \/ <<c, sources[c]>> \in lost

\* No raw file ever holds another content than the one it is filed under,
\* whatever the user does to the original while it is read.
RawHoldsItsHash ==
  \A path \in Paths : raw[path] \in {NoContent, Torn, path[1]}

\* A whole raw file is never rewritten, and it goes away only by hand or
\* while no row names it; and no row ever changes the file it names.
RawIsImmutable ==
  [][/\ \A path \in Paths :
          raw[path] \in Contents /\ raw'[path] # raw[path]
            => /\ raw'[path] = NoContent
               /\ path \in lost' \/ sources'[path[1]] # path[2]
     /\ \A c \in Contents : Known(c) => sources'[c] = sources[c]]_rawVars
=============================================================================
