-------------------------- MODULE ManagerInstance --------------------------
(***************************************************************************)
(* Starting and stopping the local manager: local_manager_cli.py and the   *)
(* life of LocalKnowledgeManager.serve.  All that the commands and the     *)
(* instances share is one state file, which each of them reads at one      *)
(* moment and rewrites whole at a later one, and the ports of the machine. *)
(* An instance and the control token made with it are one value here.      *)
(***************************************************************************)
EXTENDS Naturals, FiniteSets

CONSTANTS Commands,   \* terminals in which the user starts and stops
          Instances,  \* the identities drawn by the starts
          Ports,      \* values of --port
          Receipts,   \* uploads the browser may send
          NoInstance, NoPort,
          MaxDeaths   \* bound on commands and instances killed from outside

ASSUME InstanceAssumption ==
  /\ NoInstance \notin Instances
  /\ NoPort \notin Ports
  /\ MaxDeaths \in Nat

VARIABLES state,    \* the state file
          man,      \* instance -> its process
          cmd,      \* command -> what it does
          deaths,   \* how many were killed
          accepted, \* receipts the browser was given
          calm,     \* no start has met another command or instance so far
          undone    \* a command has put an older state file back

vars == <<state, man, cmd, deaths, accepted, calm, undone>>

File == [id : Instances \cup {NoInstance}, port : Ports \cup {NoPort}, receipts : SUBSET Receipts]
NoFile == [id |-> NoInstance, port |-> NoPort, receipts |-> {}]

\* A process that listens owns its port; one that answers serves requests.
Answering == {"serving", "stopping"}
Listening == {"bound", "draining"} \cup Answering
Saving == {"draining", "closed"} \cup Answering
Phases == {"none", "spawned", "checked", "made", "stuck", "gone"} \cup Listening \cup Saving

Process == [at : Phases, port : Ports \cup {NoPort}, receipts : SUBSET Receipts]
Unborn == [at |-> "none", port |-> NoPort, receipts |-> {}]

Rest == {"idle", "done", "failed"}
Steps == Rest \cup {"probe", "port", "prepare", "spawn", "wait", "kill", "reap",
                    "restore", "putback", "mark", "post"}

Command == [op : {"none", "start", "stop"}, at : Steps, found : File,
            id : Instances \cup {NoInstance}, port : Ports \cup {NoPort},
            kept : SUBSET Receipts, alone : BOOLEAN]
NoCommand == [op |-> "none", at |-> "idle", found |-> NoFile, id |-> NoInstance,
              port |-> NoPort, kept |-> {}, alone |-> TRUE]

InstanceTypeOK ==
  /\ state \in File
  /\ man \in [Instances -> Process]
  /\ cmd \in [Commands -> Command]
  /\ deaths \in 0 .. MaxDeaths
  /\ accepted \subseteq Receipts
  /\ calm \in BOOLEAN
  /\ undone \in BOOLEAN
  /\ \A i, j \in Instances :
       man[i].at \in Listening /\ man[j].at \in Listening /\ man[i].port = man[j].port => i = j

Init ==
  /\ state = NoFile
  /\ man = [i \in Instances |-> Unborn]
  /\ cmd = [c \in Commands |-> NoCommand]
  /\ deaths = 0
  /\ accepted = {}
  /\ calm = TRUE
  /\ undone = FALSE

Alive(i) == man[i].at \notin {"none", "gone"}
PortOpen(port) == \E i \in Instances : man[i].at \in Listening /\ man[i].port = port

\* _probe_state: the instance on file answers at the port on file.
Answers(file) ==
  /\ file.id # NoInstance
  /\ man[file.id].at \in Answering
  /\ man[file.id].port = file.port

\* The file is written by one party; starts under way see that it was not
\* them, nor the child they have started.
Goes(c, changed) == cmd' = [cmd EXCEPT ![c] = changed]
Others(S) ==
  [c \in Commands |-> IF c \in S THEN cmd[c] ELSE [cmd[c] EXCEPT !.alone = FALSE]]
ParentOf(i) == {c \in Commands : cmd[c].id = i}

-----------------------------------------------------------------------------
(* A command begins with reading the state file and probing.               *)

Begin(c) ==
  /\ cmd[c].at \in Rest
  /\ \E op \in {"start", "stop"}, port \in Ports :
       Goes(c, [NoCommand EXCEPT !.op = op, !.at = "probe", !.found = state, !.port = port])
  /\ calm' = (calm /\ \A d \in Commands : cmd[d].at \in Rest)
  /\ UNCHANGED <<state, man, deaths, accepted, undone>>

Moves(c, from, to) ==
  /\ cmd[c].at = from
  /\ Goes(c, [cmd[c] EXCEPT !.at = to])
  /\ UNCHANGED <<state, man, deaths, accepted, calm, undone>>

Over == [NoCommand EXCEPT !.at = "done"]
Ends(c, from) ==
  /\ cmd[c].at = from
  /\ Goes(c, Over)
  /\ UNCHANGED <<state, man, deaths, accepted, calm, undone>>

Starts(c) == cmd[c].op = "start"
Stops(c) == cmd[c].op = "stop"

-----------------------------------------------------------------------------
(* _command_start                                                          *)

Reuse(c) == Starts(c) /\ Answers(cmd[c].found) /\ Ends(c, "probe")

\* Nobody answers in time: an instance that is busy may be silent, too.
Unanswered(c) == Starts(c) /\ Moves(c, "probe", "port")

PortTaken(c) == PortOpen(cmd[c].port) /\ Ends(c, "port")

\* A new identity; _prepare_start_state reads the file once more ...
PortFree(c) ==
  /\ cmd[c].at = "port"
  /\ ~PortOpen(cmd[c].port)
  /\ \E i \in Instances :
       /\ man[i].at = "none"
       /\ \A d \in Commands : cmd[d].id # i
       /\ Goes(c, [cmd[c] EXCEPT !.at = "prepare", !.id = i, !.kept = state.receipts])
  /\ calm' = (calm /\ \A i \in Instances : ~Alive(i))
  /\ UNCHANGED <<state, man, deaths, accepted, undone>>

\* Mutant of Prepare: the receipts of earlier uploads are left behind.
PrepareBare(c) ==
  /\ cmd[c].at = "prepare"
  /\ state' = [id |-> cmd[c].id, port |-> cmd[c].port, receipts |-> {}]
  /\ cmd' = [Others({c}) EXCEPT ![c].at = "spawn"]
  /\ UNCHANGED <<man, deaths, accepted, calm, undone>>

\* ... and writes the provisional state, with the receipts it has read.
Prepare(c) ==
  /\ cmd[c].at = "prepare"
  /\ state' = [id |-> cmd[c].id, port |-> cmd[c].port, receipts |-> cmd[c].kept]
  /\ cmd' = [Others({c}) EXCEPT ![c].at = "spawn"]
  /\ UNCHANGED <<man, deaths, accepted, calm, undone>>

Spawn(c) ==
  /\ cmd[c].at = "spawn"
  /\ man' = [man EXCEPT ![cmd[c].id] = [Unborn EXCEPT !.at = "spawned", !.port = cmd[c].port]]
  /\ Goes(c, [cmd[c] EXCEPT !.at = "wait"])
  /\ UNCHANGED <<state, deaths, accepted, calm, undone>>

Live(c) == state.id = cmd[c].id /\ Answers(state) /\ Ends(c, "wait")

\* The child is gone or the time is up, the user interrupts, or nothing
\* could be started at all.
GiveUp(c) == Moves(c, "wait", "kill") \/ Moves(c, "spawn", "restore")

Gone(i) == man' = [man EXCEPT ![i] = [Unborn EXCEPT !.at = "gone"]]
OnFile(i) == [id |-> i, port |-> man[i].port, receipts |-> man[i].receipts]

\* request_stop: what the instance knows is saved, then the server is told.
RequestStop(i) ==
  /\ state' = OnFile(i)
  /\ man' = [man EXCEPT ![i].at = IF @ = "serving" THEN "stopping" ELSE @]

\* SIGTERM ends a process that has not installed its handler yet.  The
\* handler runs in the main thread: one that already holds state_lock, for
\* the last save, waits for itself.
Terminate(c) ==
  LET i == cmd[c].id
  IN  /\ cmd[c].at = "kill"
      /\ \/ /\ man[i].at \in {"spawned", "checked", "made", "bound"}
            /\ Gone(i)
            /\ Goes(c, [cmd[c] EXCEPT !.at = "reap"])
            /\ UNCHANGED state
         \/ /\ man[i].at \in Saving
            /\ RequestStop(i)
            /\ cmd' = [Others(ParentOf(i)) EXCEPT ![c].at = "reap"]
         \/ /\ man[i].at = "closed"
            /\ man' = [man EXCEPT ![i].at = "stuck"]
            /\ Goes(c, [cmd[c] EXCEPT !.at = "reap"])
            /\ UNCHANGED state
      /\ UNCHANGED <<deaths, accepted, calm, undone>>

\* Mutant of Reap: a child that does not go in time is left to itself.
ReapPatiently(c) ==
  /\ cmd[c].at \in {"kill", "reap"}
  /\ Goes(c, [cmd[c] EXCEPT !.at = "restore"])
  /\ UNCHANGED <<man, state, deaths, accepted, calm, undone>>

\* A child that has gone, or that is killed because it does not go in time.
Reap(c) ==
  /\ \/ cmd[c].at = "kill" /\ ~Alive(cmd[c].id) /\ UNCHANGED man
     \/ cmd[c].at = "reap" /\ Gone(cmd[c].id)
  /\ Goes(c, [cmd[c] EXCEPT !.at = "restore"])
  /\ UNCHANGED <<state, deaths, accepted, calm, undone>>

\* _restore_start_state: only while the file still names this start.
NotMine(c) == state.id # cmd[c].id /\ Moves(c, "restore", "failed")
Mine(c) == state.id = cmd[c].id /\ Moves(c, "restore", "putback")

\* Mutant of PutBack: the provisional state stays.
PutNothingBack(c) == Moves(c, "putback", "failed")

PutBack(c) ==
  /\ cmd[c].at = "putback"
  /\ state' = cmd[c].found
  /\ undone' = TRUE
  /\ cmd' = [Others({c}) EXCEPT ![c].at = "failed"]
  /\ UNCHANGED <<man, deaths, accepted, calm>>

-----------------------------------------------------------------------------
(* _command_stop                                                           *)

Found(c) == Stops(c) /\ Answers(cmd[c].found) /\ Moves(c, "probe", "post")
NotFound(c) == Stops(c) /\ IF cmd[c].found = NoFile THEN Ends(c, "probe") ELSE Moves(c, "probe", "mark")

\* Mutant of MarkStopped: the file of a silent manager is removed.
MarkByRemoving(c) ==
  /\ cmd[c].at = "mark"
  /\ state' = NoFile
  /\ cmd' = [Others({c}) EXCEPT ![c] = Over]
  /\ UNCHANGED <<man, deaths, accepted, calm, undone>>

\* What was read is written back as stopped.
MarkStopped(c) ==
  /\ cmd[c].at = "mark"
  /\ state' = cmd[c].found
  /\ undone' = (undone \/ state # cmd[c].found)
  /\ cmd' = [Others({c}) EXCEPT ![c] = Over]
  /\ UNCHANGED <<man, deaths, accepted, calm>>

\* The request goes to a port, and the token says whom it means.
Authorized(c, i) == man[i].port = cmd[c].found.port /\ i = cmd[c].found.id

PostStop(c) ==
  /\ cmd[c].at = "post"
  /\ \E i \in Instances :
       /\ man[i].at \in Answering
       /\ Authorized(c, i)
       /\ RequestStop(i)
       /\ cmd' = [Others(ParentOf(i)) EXCEPT ![c] = Over]
  /\ UNCHANGED <<deaths, accepted, calm, undone>>

\* Nobody is there any more, or somebody else is.
PostRefused(c) == Ends(c, "post")

\* The terminal is closed under the command.
CommandDies(c) ==
  /\ cmd[c].at \notin Rest
  /\ deaths < MaxDeaths
  /\ deaths' = deaths + 1
  /\ Goes(c, NoCommand)
  /\ UNCHANGED <<state, man, accepted, calm, undone>>

-----------------------------------------------------------------------------
(* An instance: _command_serve and LocalKnowledgeManager.serve.            *)

Enters(i, from, to) ==
  /\ man[i].at = from
  /\ man' = [man EXCEPT ![i].at = to]
  /\ UNCHANGED <<state, cmd, deaths, accepted, calm, undone>>

CheckState(i) ==
  /\ man[i].at = "spawned"
  /\ IF state.id = i THEN man' = [man EXCEPT ![i].at = "checked"] ELSE Gone(i)
  /\ UNCHANGED <<state, cmd, deaths, accepted, calm, undone>>

\* The constructor reads the file again, for what went before.
ReadState(i) ==
  /\ man[i].at = "checked"
  /\ man' = [man EXCEPT ![i].receipts = state.receipts, ![i].at = "made"]
  /\ UNCHANGED <<state, cmd, deaths, accepted, calm, undone>>

\* The server binds its port, or cannot.
Bind(i) ==
  /\ man[i].at = "made"
  /\ IF PortOpen(man[i].port) THEN Gone(i) ELSE man' = [man EXCEPT ![i].at = "bound"]
  /\ UNCHANGED <<state, cmd, deaths, accepted, calm, undone>>

SavesItself(i) == state' = OnFile(i) /\ cmd' = Others(ParentOf(i))

Announce(i) ==
  /\ man[i].at = "bound"
  /\ man' = [man EXCEPT ![i].at = "serving"]
  /\ SavesItself(i)
  /\ UNCHANGED <<deaths, accepted, calm, undone>>

\* The watcher's run and the handlers save whenever they have news, until
\* the process has ended.
Save(i) ==
  /\ man[i].at \in Saving
  /\ SavesItself(i)
  /\ UNCHANGED <<man, deaths, accepted, calm, undone>>

Accept(i) ==
  /\ man[i].at \in Saving
  /\ \E r \in Receipts \ accepted :
       /\ accepted' = accepted \cup {r}
       /\ man' = [man EXCEPT ![i].receipts = @ \cup {r}]
       /\ state' = [OnFile(i) EXCEPT !.receipts = @ \cup {r}]
  /\ cmd' = Others(ParentOf(i))
  /\ UNCHANGED <<deaths, calm, undone>>

\* serve_forever returns; the watcher finishes its run; the port is freed;
\* the last word is written.
Shut(i) == Enters(i, "stopping", "draining")
CloseServer(i) == Enters(i, "draining", "closed")

LastSave(i) ==
  /\ man[i].at = "closed"
  /\ SavesItself(i)
  /\ Gone(i)
  /\ UNCHANGED <<deaths, accepted, calm, undone>>

InstanceDies(i) ==
  /\ Alive(i)
  /\ deaths < MaxDeaths
  /\ deaths' = deaths + 1
  /\ Gone(i)
  /\ UNCHANGED <<state, cmd, accepted, calm, undone>>

StartStep(c) ==
  \/ Reuse(c) \/ Unanswered(c) \/ PortTaken(c) \/ PortFree(c) \/ Prepare(c) \/ Spawn(c)
  \/ Live(c) \/ GiveUp(c) \/ Terminate(c) \/ Reap(c) \/ NotMine(c) \/ Mine(c) \/ PutBack(c)

StopStep(c) ==
  Found(c) \/ NotFound(c) \/ MarkStopped(c) \/ PostStop(c) \/ PostRefused(c)

Serve(i) ==
  \/ CheckState(i) \/ ReadState(i) \/ Bind(i) \/ Announce(i) \/ Save(i) \/ Accept(i)
  \/ Shut(i) \/ CloseServer(i) \/ LastSave(i) \/ InstanceDies(i)

Next ==
  \/ \E c \in Commands : Begin(c) \/ StartStep(c) \/ StopStep(c) \/ CommandDies(c)
  \/ \E i \in Instances : Serve(i)

Spec == Init /\ [][Next]_vars

-----------------------------------------------------------------------------
\* A start that failed has left no process of its own behind, however slow
\* the child is to go (docs/test-report.md:68).
FailedStartLeavesNoChild ==
  \A c \in Commands : cmd[c].at = "failed" => ~Alive(cmd[c].id)

\* A start that failed has left the state file as it found it, if nobody
\* else has written it meanwhile (docs/test-report.md:68).
FailedStartRestores ==
  \A c \in Commands :
    cmd[c].at = "failed" /\ cmd[c].alone => state = cmd[c].found

\* As long as nobody starts while another command or an earlier instance is
\* still busy, the manager that serves is the one the state file names, so
\* that later commands find it.
ServingIsNamed ==
  calm => \A i \in Instances : man[i].at \in Answering => state.id = i

\* Under the same condition no start or stop loses a receipt the browser
\* holds, unless a command puts back an older file.
ReceiptsCarryOver ==
  calm /\ ~undone => accepted \subseteq state.receipts
=============================================================================
