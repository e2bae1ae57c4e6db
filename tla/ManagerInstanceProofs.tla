----------------------- MODULE ManagerInstanceProofs ------------------------
(***************************************************************************)
(* Starts and stops of the manager, for any number of terminals,           *)
(* instances and ports.  Inv is inductive: an identity belongs to one      *)
(* start, whose child is not there before it is spawned and not after it   *)
(* is reaped (Identities); a start nobody has disturbed knows what is on   *)
(* file (Undisturbed); and as long as the starts keep out of each other's  *)
(* way there is one busy command and one instance (CalmInv).               *)
(***************************************************************************)
EXTENDS ManagerInstance, TLAPS

Early == {"probe", "port", "prepare"}
Later == {"spawn", "wait", "kill", "reap", "restore", "putback"}
Owning == Later \cup {"prepare", "failed"}

Dead(i) == man[i].at \in {"none", "gone"}

Identities ==
  /\ \A c \in Commands : cmd[c].at \in Owning => cmd[c].id \in Instances
  /\ \A c \in Commands : cmd[c].at \notin Owning => cmd[c].id = NoInstance
  /\ \A c, d \in Commands : c # d /\ cmd[c].id \in Instances => cmd[d].id # cmd[c].id
  /\ \A c \in Commands : cmd[c].at \in {"prepare", "spawn"} => man[cmd[c].id].at = "none"
  /\ \A c \in Commands : cmd[c].at \in {"restore", "putback", "failed"} => Dead(cmd[c].id)

\* What a start knows of the file if nobody else has written it.
Undisturbed ==
  \A c \in Commands : cmd[c].alone =>
    /\ cmd[c].at \in Early \cup {"failed"} => state = cmd[c].found
    /\ cmd[c].at \in Later => state.id = cmd[c].id

Busy(c) == cmd[c].at \notin Rest

CalmInv ==
  calm =>
    /\ \A c, d \in Commands : Busy(c) /\ Busy(d) => c = d
    /\ \A i, j \in Instances : Alive(i) /\ Alive(j) => i = j
    /\ \A i \in Instances : Alive(i) => state.id = i
    /\ \A c \in Commands :
         /\ cmd[c].at \in Later \cup {"prepare"} => \A i \in Instances : Alive(i) => i = cmd[c].id
         /\ cmd[c].at = "prepare" => cmd[c].kept = state.receipts
         /\ cmd[c].at = "spawn" => state.id = cmd[c].id
         /\ cmd[c].at \in {"probe", "mark"} => cmd[c].found.id = state.id

ReceiptsInv ==
  calm /\ ~undone =>
    /\ accepted \subseteq state.receipts
    /\ \A i \in Instances :
         man[i].at \in Saving \cup {"made", "bound"} => accepted \subseteq man[i].receipts

Inv ==
  /\ InstanceTypeOK
  /\ Identities
  /\ Undisturbed
  /\ CalmInv
  /\ ReceiptsInv
-----------------------------------------------------------------------------
(* How the commands change.                                                *)

CmdTypeOK == cmd \in [Commands -> Command]

\* What a step of somebody else leaves of a command; only those in S may take
\* the new state file for their own.
Seen(d, S) ==
  /\ cmd'[d].at = cmd[d].at /\ cmd'[d].id = cmd[d].id
  /\ cmd'[d].found = cmd[d].found /\ cmd'[d].kept = cmd[d].kept
  /\ cmd'[d].alone => cmd[d].alone /\ d \in S

\* A command that rests has no identity.
LEMMA RestTypes ==
  /\ NoCommand \in Command /\ NoCommand.at = "idle" /\ NoCommand.id = NoInstance
  /\ Over \in Command /\ Over.at = "done" /\ Over.id = NoInstance
<1>1. NoFile \in File
  BY DEF NoFile, File
<1>2. NoCommand \in Command /\ NoCommand.at = "idle" /\ NoCommand.id = NoInstance
  BY <1>1 DEF NoCommand, Command, Steps, Rest
<1> QED BY <1>2 DEF Over, Command, Steps, Rest

\* A command changes itself alone.
LEMMA CommandGoes ==
  ASSUME CmdTypeOK, NEW c \in Commands, NEW changed \in Command, Goes(c, changed)
  PROVE  /\ CmdTypeOK'
         /\ cmd'[c] = changed
         /\ \A d \in Commands \ {c} : cmd'[d] = cmd[d]
BY DEF CmdTypeOK, Goes

\* The commands after a write that only those in S take for their own.
LEMMA OthersSee ==
  ASSUME CmdTypeOK, NEW S
  PROVE  /\ Others(S) \in [Commands -> Command]
         /\ \A d \in Commands :
              /\ d \in S => Others(S)[d] = cmd[d]
              /\ Others(S)[d].at = cmd[d].at /\ Others(S)[d].id = cmd[d].id
              /\ Others(S)[d].found = cmd[d].found /\ Others(S)[d].kept = cmd[d].kept
              /\ Others(S)[d].alone => cmd[d].alone /\ d \in S
<1>1. ASSUME NEW d \in Commands
      PROVE  LET r == [cmd[d] EXCEPT !.alone = FALSE]
             IN  /\ r \in Command /\ r.at = cmd[d].at /\ r.id = cmd[d].id
                 /\ r.found = cmd[d].found /\ r.kept = cmd[d].kept /\ ~r.alone
  BY DEF CmdTypeOK, Command
<1> QED BY <1>1 DEF Others, CmdTypeOK

\* The file is written by the command itself.
LEMMA CommandWrites ==
  ASSUME CmdTypeOK, NEW c \in Commands, NEW S, NEW changed \in Command,
         cmd' = [Others(S) EXCEPT ![c] = changed]
  PROVE  /\ CmdTypeOK'
         /\ cmd'[c] = changed
         /\ \A d \in Commands \ {c} : Seen(d, S)
<1> DEFINE o == Others(S)
<1>1. /\ o \in [Commands -> Command]
      /\ \A d \in Commands :
              /\ o[d].at = cmd[d].at /\ o[d].id = cmd[d].id
              /\ o[d].found = cmd[d].found /\ o[d].kept = cmd[d].kept
              /\ o[d].alone => cmd[d].alone /\ d \in S
  BY OthersSee
<1>2. cmd' = [o EXCEPT ![c] = changed]
  OBVIOUS
<1> HIDE DEF o
<1> QED BY <1>1, <1>2 DEF CmdTypeOK, Seen

\* What Identities asks of a step that draws no new identity.
LEMMA IdentitiesKept ==
  ASSUME Identities,
         \A d \in Commands :
           /\ cmd'[d].id = cmd[d].id
           /\ cmd'[d].at \in Owning <=> cmd[d].at \in Owning
           /\ cmd'[d].at \in {"prepare", "spawn"} => man'[cmd'[d].id].at = "none"
           /\ cmd'[d].at \in {"restore", "putback", "failed"} =>
                man'[cmd'[d].id].at \in {"none", "gone"}
  PROVE  Identities'
<1>1. \A d \in Commands : cmd'[d].at \in Owning => cmd'[d].id \in Instances
  BY DEF Identities
<1>2. \A d \in Commands : cmd'[d].at \notin Owning => cmd'[d].id = NoInstance
  BY DEF Identities
<1>3. \A c, d \in Commands : c # d /\ cmd'[c].id \in Instances => cmd'[d].id # cmd'[c].id
  BY DEF Identities
<1> QED BY <1>1, <1>2, <1>3 DEF Identities, Owning, Dead
-----------------------------------------------------------------------------
(* Commands that leave the file and the instances alone.                   *)

\* A command ends, or dies.
LEMMA RestingPreservesInv ==
  ASSUME Inv, NEW c \in Commands, NEW changed \in {Over, NoCommand}, Goes(c, changed),
         UNCHANGED <<state, man, accepted, calm, undone>>, deaths' \in 0 .. MaxDeaths
  PROVE  Inv'
<1>1. CmdTypeOK
  BY DEF Inv, InstanceTypeOK, CmdTypeOK
<1>2. changed \in Command /\ changed.at \in {"idle", "done"} /\ changed.id = NoInstance
  BY RestTypes
<1>3. CmdTypeOK' /\ cmd'[c] = changed /\ \A d \in Commands \ {c} : cmd'[d] = cmd[d]
  BY <1>1, <1>2, CommandGoes
<1>4. InstanceTypeOK'
  BY <1>3 DEF Inv, InstanceTypeOK, CmdTypeOK
<1>5. Identities'
  BY <1>2, <1>3, InstanceAssumption DEF Inv, Identities, Owning, Later, Dead
<1>6. Undisturbed'
  BY <1>2, <1>3 DEF Inv, Undisturbed, Early, Later
<1>7. CalmInv'
  BY <1>2, <1>3 DEF Inv, CalmInv, Busy, Rest, Alive, Later
<1>8. ReceiptsInv'
  BY DEF Inv, ReceiptsInv
<1> QED BY <1>4, <1>5, <1>6, <1>7, <1>8 DEF Inv

\* The steps of a command, and what it must know to make them.
LEMMA MovingPreservesInv ==
  ASSUME Inv, NEW c \in Commands, NEW from, NEW to, Moves(c, from, to),
         \/ <<from, to>> = <<"probe", "port">>
         \/ <<from, to>> = <<"wait", "kill">>
         \/ <<from, to>> = <<"spawn", "restore">>
         \/ <<from, to>> = <<"restore", "putback">>
         \/ <<from, to>> = <<"restore", "failed">> /\ state.id # cmd[c].id
         \/ <<from, to>> = <<"probe", "post">>
         \/ <<from, to>> = <<"probe", "mark">>
  PROVE  Inv'
<1> DEFINE changed == [cmd[c] EXCEPT !.at = to]
<1>1. CmdTypeOK /\ cmd[c] \in Command
  BY DEF Inv, InstanceTypeOK, CmdTypeOK
<1>2. to \in {"port", "kill", "restore", "putback", "failed", "post", "mark"}
  OBVIOUS
<1>3. /\ changed \in Command /\ changed.at = to
      /\ changed.id = cmd[c].id /\ changed.found = cmd[c].found
      /\ changed.kept = cmd[c].kept /\ changed.alone = cmd[c].alone
  BY <1>1, <1>2 DEF Command, Steps, Rest
<1>4. /\ cmd[c].at = from /\ Goes(c, changed)
      /\ UNCHANGED <<state, man, deaths, accepted, calm, undone>>
  BY DEF Moves
<1> HIDE DEF changed
<1>5. CmdTypeOK' /\ cmd'[c] = changed /\ \A d \in Commands \ {c} : cmd'[d] = cmd[d]
  BY <1>1, <1>3, <1>4, CommandGoes
<1>6. InstanceTypeOK'
  BY <1>4, <1>5 DEF Inv, InstanceTypeOK, CmdTypeOK
<1>7. Identities'
  BY <1>3, <1>4, <1>5, InstanceAssumption DEF Inv, Identities, Owning, Later, Dead
<1>8. Undisturbed'
  BY <1>3, <1>4, <1>5 DEF Inv, Undisturbed, Early, Later
<1>9. CalmInv'
  BY <1>3, <1>4, <1>5 DEF Inv, CalmInv, Busy, Rest, Alive, Later
<1>10. ReceiptsInv'
  BY <1>4 DEF Inv, ReceiptsInv
<1> QED BY <1>6, <1>7, <1>8, <1>9, <1>10 DEF Inv

\* A command begins with what is on file.
LEMMA BeginPreservesInv == ASSUME Inv, NEW c \in Commands, Begin(c) PROVE Inv'
<1>1. PICK op \in {"start", "stop"}, port \in Ports :
        Goes(c, [NoCommand EXCEPT !.op = op, !.at = "probe", !.found = state, !.port = port])
  BY DEF Begin
<1> DEFINE changed == [NoCommand EXCEPT !.op = op, !.at = "probe", !.found = state, !.port = port]
<1>2. CmdTypeOK /\ state \in File
  BY DEF Inv, InstanceTypeOK, CmdTypeOK
<1>3. changed \in Command /\ changed.at = "probe" /\ changed.id = NoInstance /\ changed.found = state
  BY <1>2, RestTypes DEF Command, Steps, Rest
<1>4. /\ cmd[c].at \in Rest /\ UNCHANGED <<state, man, deaths, accepted, undone>>
      /\ calm' = (calm /\ \A d \in Commands : cmd[d].at \in Rest)
  BY DEF Begin
<1> HIDE DEF changed
<1>5. CmdTypeOK' /\ cmd'[c] = changed /\ \A d \in Commands \ {c} : cmd'[d] = cmd[d]
  BY <1>1, <1>2, <1>3, CommandGoes DEF changed
<1>6. calm' \in BOOLEAN /\ (calm' => calm /\ \A d \in Commands : cmd[d].at \in Rest)
  BY <1>4
<1>7. InstanceTypeOK'
  BY <1>4, <1>5, <1>6 DEF Inv, InstanceTypeOK, CmdTypeOK
<1>8. Identities'
  BY <1>3, <1>4, <1>5, InstanceAssumption DEF Inv, Identities, Owning, Later, Dead
<1>9. Undisturbed'
  BY <1>3, <1>4, <1>5 DEF Inv, Undisturbed, Early, Later
<1>10. CalmInv'
  BY <1>3, <1>4, <1>5, <1>6 DEF Inv, CalmInv, Busy, Rest, Alive, Later
<1>11. ReceiptsInv'
  BY <1>4, <1>6 DEF Inv, ReceiptsInv
<1> QED BY <1>7, <1>8, <1>9, <1>10, <1>11 DEF Inv

\* A new identity, while nothing of an earlier instance is about.
LEMMA PortFreePreservesInv == ASSUME Inv, NEW c \in Commands, PortFree(c) PROVE Inv'
<1>1. PICK i \in Instances :
        /\ man[i].at = "none"
        /\ \A d \in Commands : cmd[d].id # i
        /\ Goes(c, [cmd[c] EXCEPT !.at = "prepare", !.id = i, !.kept = state.receipts])
  BY DEF PortFree
<1> DEFINE changed == [cmd[c] EXCEPT !.at = "prepare", !.id = i, !.kept = state.receipts]
<1>2. CmdTypeOK /\ cmd[c] \in Command /\ state \in File
  BY DEF Inv, InstanceTypeOK, CmdTypeOK
<1>3. /\ changed \in Command /\ changed.at = "prepare" /\ changed.id = i
      /\ changed.found = cmd[c].found /\ changed.alone = cmd[c].alone
      /\ changed.kept = state.receipts
  BY <1>2 DEF Command, Steps, Rest, File
<1>4. /\ cmd[c].at = "port" /\ UNCHANGED <<state, man, deaths, accepted, undone>>
      /\ calm' = (calm /\ \A j \in Instances : ~Alive(j))
  BY DEF PortFree
<1> HIDE DEF changed
<1>5. CmdTypeOK' /\ cmd'[c] = changed /\ \A d \in Commands \ {c} : cmd'[d] = cmd[d]
  BY <1>1, <1>2, <1>3, CommandGoes DEF changed
<1>6. calm' \in BOOLEAN /\ (calm' => calm /\ \A j \in Instances : ~Alive(j))
  BY <1>4
<1>7. InstanceTypeOK'
  BY <1>4, <1>5, <1>6 DEF Inv, InstanceTypeOK, CmdTypeOK
<1>8. Identities'
  BY <1>1, <1>3, <1>4, <1>5, InstanceAssumption DEF Inv, Identities, Owning, Later, Dead
<1>9. Undisturbed'
  BY <1>3, <1>4, <1>5 DEF Inv, Undisturbed, Early, Later
<1>10. CalmInv'
  BY <1>3, <1>4, <1>5, <1>6 DEF Inv, CalmInv, Busy, Rest, Alive, Later
<1>11. ReceiptsInv'
  BY <1>4, <1>6 DEF Inv, ReceiptsInv
<1> QED BY <1>7, <1>8, <1>9, <1>10, <1>11 DEF Inv

\* The provisional state: written by the command that has read the receipts.
LEMMA PreparePreservesInv == ASSUME Inv, NEW c \in Commands, Prepare(c) PROVE Inv'
<1> DEFINE changed == [cmd[c] EXCEPT !.at = "spawn"]
<1>1. CmdTypeOK /\ cmd[c] \in Command /\ cmd[c].at = "prepare" /\ cmd[c].id \in Instances
  BY DEF Inv, InstanceTypeOK, CmdTypeOK, Identities, Owning, Prepare
<1>2. /\ changed \in Command /\ changed.at = "spawn" /\ changed.id = cmd[c].id
      /\ changed.found = cmd[c].found /\ changed.alone = cmd[c].alone
  BY <1>1 DEF Command, Steps, Rest
<1>3. /\ state' = [id |-> cmd[c].id, port |-> cmd[c].port, receipts |-> cmd[c].kept]
      /\ cmd' = [Others({c}) EXCEPT ![c].at = "spawn"]
      /\ UNCHANGED <<man, deaths, accepted, calm, undone>>
  BY DEF Prepare
<1>4. cmd' = [Others({c}) EXCEPT ![c] = changed]
  BY <1>1, <1>3, OthersSee
<1> HIDE DEF changed
<1>5. CmdTypeOK' /\ cmd'[c] = changed /\ \A d \in Commands \ {c} : Seen(d, {c})
  BY <1>1, <1>2, <1>4, CommandWrites
<1>6. state' \in File /\ state'.id = cmd[c].id /\ state'.receipts = cmd[c].kept
  BY <1>1, <1>3 DEF File, Command
<1>7. InstanceTypeOK'
  BY <1>3, <1>5, <1>6 DEF Inv, InstanceTypeOK, CmdTypeOK
<1>8. Identities'
  <2>1. /\ \A d \in Commands : cmd'[d].id = cmd[d].id
        /\ \A d \in Commands \ {c} : cmd'[d].at = cmd[d].at
    BY <1>2, <1>5 DEF Seen
  <2>2. cmd'[c].at = "spawn" /\ UNCHANGED man
    BY <1>2, <1>3, <1>5
  <2>3. \A d \in Commands : cmd'[d].at \in Owning <=> cmd[d].at \in Owning
    BY <1>1, <2>1, <2>2 DEF Owning, Later
  <2>4. \A d \in Commands :
          /\ cmd'[d].at \in {"prepare", "spawn"} => cmd[d].at \in {"prepare", "spawn"}
          /\ cmd'[d].at \in {"restore", "putback", "failed"} => cmd'[d].at = cmd[d].at
    BY <1>1, <2>1, <2>2
  <2> QED BY <2>1, <2>2, <2>3, <2>4 DEF Inv, Identities, Dead
<1>9. Undisturbed'
  BY <1>1, <1>2, <1>5, <1>6 DEF Inv, Undisturbed, Early, Later, Seen
<1>10. CalmInv'
  <2>1. ASSUME calm PROVE \A i \in Instances : ~Alive(i)
    BY <1>1, <2>1 DEF Inv, CalmInv, Identities, Later, Alive
  <2>2. \A d \in Commands \ {c} : cmd'[d].at = cmd[d].at
    BY <1>5 DEF Seen
  <2>3. ASSUME calm, NEW d \in Commands \ {c} PROVE ~Busy(d) /\ ~Busy(d)'
    BY <1>1, <2>2, <2>3 DEF Inv, CalmInv, Busy, Rest
  <2>5. cmd'[c].at = "spawn" /\ state'.id = cmd'[c].id
    BY <1>2, <1>5, <1>6
  <2>6. ASSUME calm, NEW d \in Commands, NEW e \in Commands, Busy(d)', Busy(e)' PROVE d = e
    BY <2>3, <2>6
  <2>7. ASSUME calm PROVE \A j \in Instances : ~Alive(j)'
    BY <1>3, <2>1, <2>7 DEF Alive
  <2>8. ASSUME calm, NEW d \in Commands
        PROVE  /\ cmd'[d].at # "prepare" /\ cmd'[d].at \notin {"probe", "mark"}
               /\ cmd'[d].at = "spawn" => state'.id = cmd'[d].id
    <3>1. d # c => ~Busy(d)'
      BY <2>3, <2>8
    <3> QED BY <2>5, <3>1 DEF Busy, Rest
  <2> QED BY <1>3, <2>6, <2>7, <2>8 DEF CalmInv
<1>11. ReceiptsInv'
  BY <1>1, <1>3, <1>6 DEF Inv, ReceiptsInv, CalmInv
<1> QED BY <1>7, <1>8, <1>9, <1>10, <1>11 DEF Inv

\* The child of a start: it was not there before.
LEMMA SpawnPreservesInv == ASSUME Inv, NEW c \in Commands, Spawn(c) PROVE Inv'
<1> DEFINE changed == [cmd[c] EXCEPT !.at = "wait"]
           i == cmd[c].id
           born == [Unborn EXCEPT !.at = "spawned", !.port = cmd[c].port]
<1>1. /\ CmdTypeOK /\ cmd[c] \in Command /\ cmd[c].at = "spawn"
      /\ i \in Instances /\ man[i].at = "none" /\ man \in [Instances -> Process]
  BY DEF Inv, InstanceTypeOK, CmdTypeOK, Identities, Owning, Later, Spawn
<1>2. /\ changed \in Command /\ changed.at = "wait" /\ changed.id = cmd[c].id
      /\ changed.found = cmd[c].found /\ changed.alone = cmd[c].alone
  BY <1>1 DEF Command, Steps, Rest
<1>3. born \in Process /\ born.at = "spawned"
  BY <1>1 DEF Unborn, Process, Phases, Command
<1>4. /\ man' = [man EXCEPT ![i] = born] /\ Goes(c, changed)
      /\ UNCHANGED <<state, deaths, accepted, calm, undone>>
  BY DEF Spawn
<1> HIDE DEF changed, born, i
<1>5. CmdTypeOK' /\ cmd'[c] = changed /\ \A d \in Commands \ {c} : cmd'[d] = cmd[d]
  BY <1>1, <1>2, <1>4, CommandGoes
<1>6. /\ man' \in [Instances -> Process] /\ man'[i].at = "spawned"
      /\ \A j \in Instances \ {i} : man'[j] = man[j]
  BY <1>1, <1>3, <1>4
<1>7. InstanceTypeOK'
  BY <1>4, <1>5, <1>6 DEF Inv, InstanceTypeOK, CmdTypeOK, Listening, Answering
<1>8. Identities'
  BY <1>1, <1>2, <1>5, <1>6, InstanceAssumption DEF Inv, Identities, Owning, Later, Dead, i
<1>9. Undisturbed'
  BY <1>1, <1>2, <1>4, <1>5 DEF Inv, Undisturbed, Early, Later
<1>10. CalmInv'
  <2>1. ASSUME calm PROVE (\A j \in Instances : ~Alive(j)) /\ state.id = i
    BY <1>1, <2>1 DEF Inv, CalmInv, Identities, Later, Alive, i
  <2> QED BY <1>1, <1>2, <1>4, <1>5, <1>6, <2>1 DEF Inv, CalmInv, Busy, Rest, Alive, Later, i
<1>11. ReceiptsInv'
  BY <1>4, <1>6 DEF Inv, ReceiptsInv, Saving, Answering
<1> QED BY <1>7, <1>8, <1>9, <1>10, <1>11 DEF Inv

\* What is there no more when the child has gone.
LEMMA ReapPreservesInv == ASSUME Inv, NEW c \in Commands, Reap(c) PROVE Inv'
<1> DEFINE changed == [cmd[c] EXCEPT !.at = "restore"]
           none == [Unborn EXCEPT !.at = "gone"]
<1>1. /\ CmdTypeOK /\ cmd[c] \in Command /\ cmd[c].at \in {"kill", "reap"}
      /\ cmd[c].id \in Instances /\ man \in [Instances -> Process]
  BY DEF Inv, InstanceTypeOK, CmdTypeOK, Identities, Owning, Later, Reap
<1>i. PICK i \in Instances : i = cmd[c].id
  BY <1>1
<1>2. /\ changed \in Command /\ changed.at = "restore" /\ changed.id = cmd[c].id
      /\ changed.found = cmd[c].found /\ changed.alone = cmd[c].alone
  BY <1>1 DEF Command, Steps, Rest
<1>3. none \in Process /\ none.at = "gone"
  BY <1>1 DEF Unborn, Process, Phases
<1>4. /\ Goes(c, changed) /\ UNCHANGED <<state, deaths, accepted, calm, undone>>
      /\ \/ man' = man /\ Dead(i)
         \/ man' = [man EXCEPT ![i] = none]
  BY <1>i DEF Reap, Gone, Alive, Dead
<1> HIDE DEF changed, none
<1>5. CmdTypeOK' /\ cmd'[c] = changed /\ \A d \in Commands \ {c} : cmd'[d] = cmd[d]
  BY <1>1, <1>2, <1>4, CommandGoes
<1>6. /\ man' \in [Instances -> Process] /\ Dead(i)'
      /\ \A j \in Instances : j # i => man'[j] = man[j]
  BY <1>1, <1>3, <1>4 DEF Dead
<1>7. InstanceTypeOK'
  BY <1>4, <1>5, <1>6 DEF Inv, InstanceTypeOK, CmdTypeOK, Listening, Answering, Dead
<1>8. Identities'
  <2>1. \A d \in Commands : cmd'[d].id = cmd[d].id /\ (d # c => cmd'[d].at = cmd[d].at)
    BY <1>2, <1>5
  <2>2. cmd'[c].at = "restore"
    BY <1>2, <1>5
  <2>3. \A d \in Commands : d # c => cmd[d].id # i
    BY <1>1, <1>i DEF Inv, Identities
  <2>4. \A d \in Commands :
          cmd'[d].at \in {"prepare", "spawn"} => cmd[d].at = cmd'[d].at /\ d # c
    BY <2>1, <2>2
  <2>5. ASSUME NEW d \in Commands, cmd'[d].at \in {"prepare", "spawn"}
        PROVE  man'[cmd'[d].id].at = "none"
    <3>1. cmd[d].id \in Instances /\ man[cmd[d].id].at = "none" /\ cmd[d].id # i
      BY <2>3, <2>4, <2>5 DEF Inv, Identities, Owning, Later
    <3> QED BY <1>6, <2>1, <3>1
  <2>6. ASSUME NEW d \in Commands, cmd'[d].at \in {"restore", "putback", "failed"}
        PROVE  man'[cmd'[d].id].at \in {"none", "gone"}
    <3>1. CASE d = c
      BY <1>i, <1>6, <2>1, <3>1 DEF Dead
    <3>2. CASE d # c
      <4>1. cmd[d].id \in Instances /\ Dead(cmd[d].id)
        BY <2>1, <2>6, <3>2 DEF Inv, Identities, Owning, Later
      <4> QED BY <1>6, <2>1, <4>1 DEF Dead
    <3> QED BY <3>1, <3>2
  <2>7. \A d \in Commands : cmd'[d].at \in Owning <=> cmd[d].at \in Owning
    BY <1>1, <2>1, <2>2 DEF Owning, Later
  <2> QED BY <2>1, <2>5, <2>6, <2>7, IdentitiesKept DEF Inv
<1>9. Undisturbed'
  BY <1>1, <1>2, <1>4, <1>5 DEF Inv, Undisturbed, Early, Later
<1>10. CalmInv'
  <2>1. \A j \in Instances : Alive(j)' => Alive(j)
    BY <1>6 DEF Alive, Dead
  <2> QED BY <1>1, <1>2, <1>4, <1>5, <2>1 DEF Inv, CalmInv, Busy, Rest, Later
<1>11. ReceiptsInv'
  BY <1>4, <1>6 DEF Inv, ReceiptsInv, Saving, Answering, Dead
<1> QED BY <1>7, <1>8, <1>9, <1>10, <1>11 DEF Inv

\* An older file is put back: by the start that has failed and left nothing ...
LEMMA PutBackPreservesInv == ASSUME Inv, NEW c \in Commands, PutBack(c) PROVE Inv'
<1> DEFINE changed == [cmd[c] EXCEPT !.at = "failed"]
<1>1. CmdTypeOK /\ cmd[c] \in Command /\ cmd[c].at = "putback" /\ cmd[c].id \in Instances
  BY DEF Inv, InstanceTypeOK, CmdTypeOK, Identities, Owning, Later, PutBack
<1>2. /\ changed \in Command /\ changed.at = "failed" /\ changed.id = cmd[c].id
      /\ changed.found = cmd[c].found /\ changed.alone = cmd[c].alone
  BY <1>1 DEF Command, Steps, Rest
<1>3. /\ state' = cmd[c].found /\ undone'
      /\ cmd' = [Others({c}) EXCEPT ![c].at = "failed"]
      /\ UNCHANGED <<man, deaths, accepted, calm>>
  BY DEF PutBack
<1>4. cmd' = [Others({c}) EXCEPT ![c] = changed]
  BY <1>1, <1>3, OthersSee
<1>5. state' \in File /\ undone' \in BOOLEAN
  BY <1>1, <1>3 DEF Command, PutBack
<1> HIDE DEF changed
<1>6. CmdTypeOK' /\ cmd'[c] = changed /\ \A d \in Commands \ {c} : Seen(d, {c})
  BY <1>1, <1>2, <1>4, CommandWrites
<1>7. /\ \A d \in Commands : cmd'[d].id = cmd[d].id
      /\ \A d \in Commands \ {c} : cmd'[d].at = cmd[d].at
      /\ cmd'[c].at = "failed"
  BY <1>2, <1>6 DEF Seen
<1>8. InstanceTypeOK'
  BY <1>3, <1>5, <1>6 DEF Inv, InstanceTypeOK, CmdTypeOK
<1>9. Identities'
  <2>1. \A d \in Commands : cmd'[d].at \in Owning <=> cmd[d].at \in Owning
    BY <1>1, <1>7 DEF Owning, Later
  <2>2. ASSUME NEW d \in Commands, cmd'[d].at \in {"prepare", "spawn"}
        PROVE  man'[cmd'[d].id].at = "none"
    BY <1>3, <1>7, <2>2 DEF Inv, Identities
  <2>3. ASSUME NEW d \in Commands, cmd'[d].at \in {"restore", "putback", "failed"}
        PROVE  man'[cmd'[d].id].at \in {"none", "gone"}
    <3>1. cmd[d].at \in {"restore", "putback", "failed"}
      BY <1>1, <1>7, <2>3
    <3> QED BY <1>3, <1>7, <3>1 DEF Inv, Identities, Dead
  <2> QED BY <1>7, <2>1, <2>2, <2>3, IdentitiesKept DEF Inv
<1>10. Undisturbed'
  BY <1>2, <1>3, <1>6 DEF Undisturbed, Early, Later, Seen
<1>11. CalmInv'
  <2>1. ASSUME calm, NEW d \in Commands PROVE ~Busy(d)'
    BY <1>1, <1>7, <2>1 DEF Inv, CalmInv, Busy, Rest
  <2>2. ASSUME calm, NEW j \in Instances PROVE ~Alive(j)
    BY <1>1, <2>2 DEF Inv, CalmInv, Identities, Dead, Alive, Later
  <2> QED BY <1>3, <2>1, <2>2 DEF CalmInv, Busy, Rest, Alive, Later
<1>12. ReceiptsInv'
  BY <1>3 DEF ReceiptsInv
<1> QED BY <1>8, <1>9, <1>10, <1>11, <1>12 DEF Inv

\* ... or by a stop that has found nobody.
LEMMA MarkStoppedPreservesInv == ASSUME Inv, NEW c \in Commands, MarkStopped(c) PROVE Inv'
<1>1. CmdTypeOK /\ cmd[c] \in Command /\ cmd[c].at = "mark" /\ cmd[c].id = NoInstance
  BY DEF Inv, InstanceTypeOK, CmdTypeOK, Identities, Owning, Later, MarkStopped
<1>2. /\ state' = cmd[c].found /\ undone' = (undone \/ state # cmd[c].found)
      /\ cmd' = [Others({c}) EXCEPT ![c] = Over]
      /\ UNCHANGED <<man, deaths, accepted, calm>>
  BY DEF MarkStopped
<1>3. CmdTypeOK' /\ cmd'[c] = Over /\ \A d \in Commands \ {c} : Seen(d, {c})
  BY <1>1, <1>2, RestTypes, CommandWrites
<1>4. state' \in File /\ undone' \in BOOLEAN
  BY <1>1, <1>2 DEF Command, Inv, InstanceTypeOK
<1>5. /\ \A d \in Commands : cmd'[d].id = cmd[d].id
      /\ \A d \in Commands \ {c} : cmd'[d].at = cmd[d].at
      /\ cmd'[c].at = "done"
  BY <1>1, <1>3, RestTypes DEF Seen
<1>6. InstanceTypeOK'
  BY <1>2, <1>3, <1>4 DEF Inv, InstanceTypeOK, CmdTypeOK
<1>7. Identities'
  <2>1. \A d \in Commands : cmd'[d].at \in Owning <=> cmd[d].at \in Owning
    BY <1>1, <1>5 DEF Owning, Later
  <2>2. ASSUME NEW d \in Commands, cmd'[d].at \in {"prepare", "spawn"}
        PROVE  man'[cmd'[d].id].at = "none"
    BY <1>2, <1>5, <2>2 DEF Inv, Identities
  <2>3. ASSUME NEW d \in Commands, cmd'[d].at \in {"restore", "putback", "failed"}
        PROVE  man'[cmd'[d].id].at \in {"none", "gone"}
    <3>1. cmd[d].at \in {"restore", "putback", "failed"}
      BY <1>5, <2>3
    <3> QED BY <1>2, <1>5, <3>1 DEF Inv, Identities, Dead
  <2> QED BY <1>5, <2>1, <2>2, <2>3, IdentitiesKept DEF Inv
<1>8. Undisturbed'
  BY <1>3, <1>5 DEF Undisturbed, Early, Later, Seen
<1>9. CalmInv'
  <2>1. ASSUME calm, NEW d \in Commands PROVE ~Busy(d)'
    BY <1>1, <1>5, <2>1 DEF Inv, CalmInv, Busy, Rest
  <2>2. calm => state'.id = state.id
    BY <1>1, <1>2 DEF Inv, CalmInv
  <2>3. calm => \A i, j \in Instances : Alive(i) /\ Alive(j) => i = j
    BY DEF Inv, CalmInv
  <2>4. calm => \A i \in Instances : Alive(i) => state.id = i
    BY DEF Inv, CalmInv
  <2> QED BY <1>2, <2>1, <2>2, <2>3, <2>4 DEF CalmInv, Busy, Rest, Alive, Later
<1>10. ReceiptsInv'
  BY <1>2 DEF Inv, ReceiptsInv
<1> QED BY <1>6, <1>7, <1>8, <1>9, <1>10 DEF Inv
-----------------------------------------------------------------------------
(* The steps of an instance, and of the commands that speak to it.         *)

\* What a command makes of such a step.
Follows(d, S) ==
  \/ Seen(d, S)
  \/ /\ cmd[d].at = "kill" /\ cmd'[d].at = "reap" /\ cmd'[d].id = cmd[d].id
     /\ cmd'[d].alone => cmd[d].alone /\ d \in S
  \/ cmd[d].at = "post" /\ cmd'[d] = Over

\* An instance that is alive goes to p, and writes the file under its own
\* name or leaves it alone.
LEMMA InstanceActs ==
  ASSUME Inv, NEW i \in Instances, Alive(i), NEW p \in Process,
         man' = [man EXCEPT ![i] = p], p.at # "none",
         CmdTypeOK',
         \/ state' = state /\ \A d \in Commands : Follows(d, Commands)
         \/ state' \in File /\ state'.id = i /\ \A d \in Commands : Follows(d, ParentOf(i)),
         p.at \in Listening =>
           p.port = man[i].port /\ (man[i].at \in Listening \/ ~PortOpen(p.port)),
         deaths' \in 0 .. MaxDeaths, accepted' \subseteq Receipts,
         UNCHANGED <<calm, undone>>,
         calm /\ ~undone =>
           /\ accepted' \subseteq state'.receipts
           /\ p.at \in Saving \cup {"made", "bound"} => accepted' \subseteq p.receipts
  PROVE  Inv'
<1>1. man \in [Instances -> Process] /\ state \in File
  BY DEF Inv, InstanceTypeOK
<1>2. /\ man' \in [Instances -> Process] /\ man'[i] = p
      /\ \A j \in Instances \ {i} : man'[j] = man[j]
  BY <1>1
<1>3. /\ \A d \in Commands : cmd'[d].id = cmd[d].id
      /\ \A d \in Commands :
           \/ cmd'[d].at = cmd[d].at
           \/ cmd[d].at = "kill" /\ cmd'[d].at = "reap"
           \/ cmd[d].at = "post" /\ cmd'[d].at = "done"
  <2>1. \A d \in Commands : cmd[d].at = "post" => cmd[d].id = NoInstance
    BY DEF Inv, Identities, Owning, Later
  <2> QED BY <2>1, RestTypes DEF Follows, Seen
<1>4. InstanceTypeOK'
  <2>1. state' \in File
    BY <1>1
  <2>2. ASSUME NEW j \in Instances, NEW k \in Instances,
               man'[j].at \in Listening, man'[k].at \in Listening, man'[j].port = man'[k].port
        PROVE  j = k
    <3>1. CASE man[i].at \in Listening
      BY <1>2, <2>2, <3>1 DEF Inv, InstanceTypeOK
    <3>2. CASE p.at \in Listening => ~PortOpen(p.port)
      BY <1>2, <2>2, <3>2 DEF Inv, InstanceTypeOK, PortOpen
    <3> QED BY <3>1, <3>2
  <2> QED BY <1>2, <2>1, <2>2 DEF Inv, InstanceTypeOK, CmdTypeOK
<1>5. Identities'
  <2>1. \A d \in Commands : cmd'[d].at \in Owning <=> cmd[d].at \in Owning
    BY <1>3 DEF Owning, Later
  <2>2. ASSUME NEW d \in Commands, cmd'[d].at \in {"prepare", "spawn"}
        PROVE  man'[cmd'[d].id].at = "none"
    <3>1. cmd[d].at \in {"prepare", "spawn"} /\ cmd[d].id \in Instances
      BY <1>3, <2>2 DEF Inv, Identities, Owning, Later
    <3>2. man[cmd[d].id].at = "none"
      BY <3>1 DEF Inv, Identities
    <3> QED BY <1>2, <1>3, <3>1, <3>2 DEF Alive
  <2>3. ASSUME NEW d \in Commands, cmd'[d].at \in {"restore", "putback", "failed"}
        PROVE  man'[cmd'[d].id].at \in {"none", "gone"}
    <3>1. cmd[d].at \in {"restore", "putback", "failed"} /\ cmd[d].id \in Instances
      BY <1>3, <2>3 DEF Inv, Identities, Owning, Later
    <3>2. Dead(cmd[d].id)
      BY <3>1 DEF Inv, Identities
    <3> QED BY <1>2, <1>3, <3>1, <3>2 DEF Alive, Dead
  <2> QED BY <1>3, <2>1, <2>2, <2>3, IdentitiesKept DEF Inv
<1>6. Undisturbed'
  <2>1. ASSUME NEW d \in Commands, cmd'[d].alone, cmd'[d].at \in Early \cup Later \cup {"failed"}
        PROVE  /\ cmd[d].alone
               /\ cmd'[d].at \in Early \cup {"failed"} => cmd[d].at = cmd'[d].at
               /\ cmd'[d].at \in Later => cmd[d].at \in Later
               /\ cmd'[d].at \in Early \cup {"failed"} => cmd'[d].found = cmd[d].found
               /\ state' = state \/ (state'.id = i /\ cmd[d].id = i)
    BY <2>1, RestTypes DEF Follows, Seen, ParentOf, Early, Later
  <2>2. ASSUME NEW d \in Commands, cmd'[d].alone, cmd'[d].at \in Early \cup {"failed"}
        PROVE  state' = cmd'[d].found
    <3>1. state = cmd[d].found /\ cmd[d].at \in Early \cup {"failed"}
      BY <2>1, <2>2 DEF Inv, Undisturbed
    <3>2. cmd[d].id # i
      BY <3>1, InstanceAssumption DEF Inv, Identities, Early, Owning, Later, Alive, Dead
    <3> QED BY <2>1, <2>2, <3>1, <3>2
  <2>3. ASSUME NEW d \in Commands, cmd'[d].alone, cmd'[d].at \in Later
        PROVE  state'.id = cmd'[d].id
    <3>1. state.id = cmd[d].id
      BY <2>1, <2>3 DEF Inv, Undisturbed
    <3> QED BY <1>3, <2>1, <2>3, <3>1
  <2> QED BY <2>2, <2>3 DEF Undisturbed
<1>7. ASSUME calm PROVE state'.id = i /\ state.id = i /\ \A j \in Instances \ {i} : ~Alive(j)
  BY <1>7 DEF Inv, CalmInv
<1>8. CalmInv'
  <2>1. \A d \in Commands : Busy(d)' => Busy(d)
    BY <1>3 DEF Busy, Rest
  <2>2. ASSUME calm, NEW j \in Instances, Alive(j)' PROVE j = i
    BY <1>2, <1>7, <2>2 DEF Alive
  <2>3. ASSUME calm, NEW d \in Commands, cmd'[d].at \in Later \cup {"prepare"}
        PROVE  cmd'[d].id = i
    <3>1. cmd[d].at \in Later \cup {"prepare"}
      BY <1>3, <2>3 DEF Later
    <3>2. cmd[d].id = i
      BY <2>3, <3>1 DEF Inv, CalmInv
    <3> QED BY <1>3, <3>2
  <2>4. ASSUME calm, NEW d \in Commands PROVE cmd'[d].at \notin {"prepare", "spawn"}
    <3>1. cmd'[d].at \in {"prepare", "spawn"} => man[i].at = "none"
      BY <1>3, <2>3, <2>4 DEF Inv, Identities, Later
    <3> QED BY <3>1 DEF Alive
  <2>5. ASSUME calm, NEW d \in Commands, cmd'[d].at \in {"probe", "mark"}
        PROVE  cmd'[d].found.id = state'.id
    <3>1. cmd[d].at \in {"probe", "mark"} /\ cmd'[d].found = cmd[d].found
      BY <2>5, RestTypes DEF Follows, Seen
    <3> QED BY <1>7, <2>5, <3>1 DEF Inv, CalmInv
  <2>6. calm => \A c, d \in Commands : Busy(c)' /\ Busy(d)' => c = d
    BY <2>1 DEF Inv, CalmInv
  <2>7. calm => \A d \in Commands :
          cmd'[d].at \in Later \cup {"prepare"} => \A j \in Instances : Alive(j)' => j = cmd'[d].id
    BY <2>2, <2>3
  <2> QED BY <1>7, <2>2, <2>4, <2>5, <2>6, <2>7 DEF CalmInv
<1>9. ReceiptsInv'
  <2>1. ASSUME calm, NEW j \in Instances, man'[j].at \in Saving \cup {"made", "bound"} PROVE j = i
    BY <1>2, <1>7, <2>1 DEF Alive, Saving, Answering
  <2> QED BY <1>2, <2>1 DEF ReceiptsInv
<1> QED BY <1>4, <1>5, <1>6, <1>8, <1>9 DEF Inv

\* What an instance writes, and what is left of it.
LEMMA InstanceFile ==
  ASSUME Inv, NEW i \in Instances
  PROVE  /\ man[i] \in Process /\ man \in [Instances -> Process]
         /\ OnFile(i) \in File /\ OnFile(i).id = i /\ OnFile(i).receipts = man[i].receipts
         /\ [Unborn EXCEPT !.at = "gone"] \in Process
         /\ [Unborn EXCEPT !.at = "gone"].at = "gone"
BY DEF Inv, InstanceTypeOK, Process, OnFile, File, Unborn, Phases

\* An instance ends: at once, or with its last save.
LEMMA GonePreservesInv ==
  ASSUME Inv, NEW i \in Instances, Alive(i), Gone(i), CmdTypeOK',
         \/ state' = state /\ \A d \in Commands : Follows(d, Commands)
         \/ /\ man[i].at = "closed" /\ state' = OnFile(i)
            /\ \A d \in Commands : Follows(d, ParentOf(i)),
         deaths' \in 0 .. MaxDeaths, UNCHANGED <<accepted, calm, undone>>
  PROVE  Inv'
<1> DEFINE p == [Unborn EXCEPT !.at = "gone"]
<1>1. p \in Process /\ p.at = "gone" /\ OnFile(i) \in File /\ OnFile(i).id = i
      /\ OnFile(i).receipts = man[i].receipts
  BY InstanceFile
<1>2. man' = [man EXCEPT ![i] = p]
  BY DEF Gone
<1> HIDE DEF p
<1>3. p.at # "none" /\ p.at \notin Listening /\ p.at \notin Saving \cup {"made", "bound"}
  BY <1>1 DEF Listening, Saving, Answering
<1>4. calm /\ ~undone => accepted' \subseteq state'.receipts
  BY <1>1 DEF Inv, ReceiptsInv, Saving
<1>5. \/ state' = state /\ \A d \in Commands : Follows(d, Commands)
      \/ state' \in File /\ state'.id = i /\ \A d \in Commands : Follows(d, ParentOf(i))
  BY <1>1
<1>6. accepted' \subseteq Receipts
  BY DEF Inv, InstanceTypeOK
<1> QED BY <1>1, <1>2, <1>3, <1>4, <1>5, <1>6, InstanceActs

\* It goes on without a word to the file.
LEMMA QuietPreservesInv ==
  ASSUME Inv, NEW i \in Instances, Alive(i), NEW p \in Process,
         man' = [man EXCEPT ![i] = p],
         \/ p.at \in {"checked", "stuck"}
         \/ p.at = "made" /\ p.receipts = state.receipts
         \/ /\ p.at = "bound" /\ p.port = man[i].port /\ ~PortOpen(p.port)
            /\ man[i].at = "made" /\ p.receipts = man[i].receipts
         \/ /\ p.at \in {"draining", "closed"} /\ p.port = man[i].port
            /\ p.receipts = man[i].receipts /\ man[i].at \in Listening \cap Saving,
         CmdTypeOK', \A d \in Commands : Follows(d, Commands),
         UNCHANGED <<state, deaths, accepted, calm, undone>>
  PROVE  Inv'
<1>1. p.at # "none"
  OBVIOUS
<1>2. p.at \in Listening => p.port = man[i].port /\ (man[i].at \in Listening \/ ~PortOpen(p.port))
  BY DEF Listening, Answering
<1>3. p.at \in {"checked", "stuck"} => p.at \notin Saving \cup {"made", "bound"}
  BY DEF Saving, Answering
<1>4. calm /\ ~undone =>
        /\ accepted' \subseteq state'.receipts
        /\ p.at \in Saving \cup {"made", "bound"} => accepted' \subseteq p.receipts
  BY <1>3 DEF Inv, ReceiptsInv
<1>5. accepted' \subseteq Receipts /\ deaths' \in 0 .. MaxDeaths
  BY DEF Inv, InstanceTypeOK
<1> QED BY <1>1, <1>2, <1>4, <1>5, InstanceActs

\* It saves what it knows.
LEMMA SavingPreservesInv ==
  ASSUME Inv, NEW i \in Instances, NEW p \in Process,
         man' = [man EXCEPT ![i] = p],
         man[i].at \in Saving \cup {"made", "bound"}, p.at \in Saving, p.port = man[i].port,
         p.at \in Listening => man[i].at \in Listening,
         state' \in File, state'.id = i,
         \/ accepted' = accepted
         \/ accepted' \subseteq Receipts /\ \E r : accepted' = accepted \cup {r} /\ r \in state'.receipts,
         man[i].receipts \subseteq state'.receipts, p.receipts = state'.receipts,
         CmdTypeOK', \A d \in Commands : Follows(d, ParentOf(i)),
         UNCHANGED <<deaths, calm, undone>>
  PROVE  Inv'
<1>1. p.at # "none" /\ Alive(i)
  BY DEF Saving, Answering, Alive
<1>2. calm /\ ~undone => accepted \subseteq man[i].receipts
  BY DEF Inv, ReceiptsInv
<1>3. calm /\ ~undone =>
        /\ accepted' \subseteq state'.receipts
        /\ p.at \in Saving \cup {"made", "bound"} => accepted' \subseteq p.receipts
  BY <1>2
<1>4. accepted' \subseteq Receipts /\ deaths' \in 0 .. MaxDeaths
  BY DEF Inv, InstanceTypeOK
<1> QED BY <1>1, <1>3, <1>4, InstanceActs

\* Somebody tells the instance to stop.
LEMMA RequestPreservesInv ==
  ASSUME Inv, NEW i \in Instances, man[i].at \in Saving, RequestStop(i),
         CmdTypeOK', \A d \in Commands : Follows(d, ParentOf(i)),
         UNCHANGED <<deaths, accepted, calm, undone>>
  PROVE  Inv'
<1> DEFINE to == IF man[i].at = "serving" THEN "stopping" ELSE man[i].at
           p == [man[i] EXCEPT !.at = to]
<1>1. /\ man[i] \in Process /\ man \in [Instances -> Process]
      /\ OnFile(i) \in File /\ OnFile(i).id = i /\ OnFile(i).receipts = man[i].receipts
  BY InstanceFile
<1>2. to \in Saving /\ (to \in Listening => man[i].at \in Listening)
  BY DEF Saving, Answering, Listening
<1>3. man' = [man EXCEPT ![i] = p] /\ state' = OnFile(i)
  BY <1>1 DEF RequestStop
<1> HIDE DEF to
<1>4. p \in Process /\ p.at = to /\ p.port = man[i].port /\ p.receipts = man[i].receipts
  BY <1>1, <1>2 DEF Process, Phases
<1> HIDE DEF p
<1> QED BY <1>1, <1>2, <1>3, <1>4, SavingPreservesInv

\* SIGTERM, from the start that has given up.
LEMMA TerminatePreservesInv == ASSUME Inv, NEW c \in Commands, Terminate(c) PROVE Inv'
<1> DEFINE changed == [cmd[c] EXCEPT !.at = "reap"]
<1>1. /\ CmdTypeOK /\ cmd[c] \in Command /\ cmd[c].at = "kill" /\ cmd[c].id \in Instances
      /\ UNCHANGED <<deaths, accepted, calm, undone>> /\ deaths \in 0 .. MaxDeaths
  BY DEF Inv, InstanceTypeOK, CmdTypeOK, Identities, Owning, Later, Terminate
<1>i. PICK i \in Instances : i = cmd[c].id
  BY <1>1
<1>2. /\ changed \in Command /\ changed.at = "reap" /\ changed.id = cmd[c].id
      /\ changed.alone = cmd[c].alone
  BY <1>1 DEF Command, Steps, Rest
<1> HIDE DEF changed
<1>3. ASSUME Goes(c, changed)
      PROVE  CmdTypeOK' /\ \A d \in Commands : Follows(d, Commands)
  BY <1>1, <1>2, <1>3, CommandGoes DEF Follows, Seen
<1>4. ASSUME cmd' = [Others(ParentOf(i)) EXCEPT ![c] = changed]
      PROVE  CmdTypeOK' /\ \A d \in Commands : Follows(d, ParentOf(i))
  <2>1. /\ CmdTypeOK' /\ cmd'[c] = changed /\ \A d \in Commands \ {c} : Seen(d, ParentOf(i))
    BY <1>1, <1>2, <1>4, CommandWrites
  <2> QED BY <1>1, <1>2, <1>i, <2>1 DEF Follows, ParentOf
<1>5. CASE man[i].at \in {"spawned", "checked", "made", "bound"} /\ Gone(i) /\ Goes(c, changed) /\ UNCHANGED state
  <2>1. Alive(i)
    BY <1>5 DEF Alive
  <2> QED BY <1>1, <1>3, <1>5, <2>1, GonePreservesInv
<1>6. CASE /\ man[i].at \in Saving /\ RequestStop(i)
           /\ cmd' = [Others(ParentOf(i)) EXCEPT ![c].at = "reap"]
  <2>1. cmd' = [Others(ParentOf(i)) EXCEPT ![c] = changed]
    <3>1. Others(ParentOf(i))[c] = cmd[c]
      BY <1>1, <1>i, OthersSee DEF ParentOf
    <3> QED BY <1>6, <3>1 DEF changed
  <2> QED BY <1>1, <1>4, <1>6, <2>1, RequestPreservesInv
<1>7. CASE /\ man[i].at = "closed" /\ man' = [man EXCEPT ![i].at = "stuck"]
           /\ Goes(c, changed) /\ UNCHANGED state
  <2> DEFINE p == [man[i] EXCEPT !.at = "stuck"]
  <2>1. p \in Process /\ p.at = "stuck" /\ man' = [man EXCEPT ![i] = p]
    BY <1>7, InstanceFile DEF Process, Phases
  <2> HIDE DEF p
  <2>2. Alive(i)
    BY <1>7 DEF Alive
  <2> QED BY <1>1, <1>3, <1>7, <2>1, <2>2, QuietPreservesInv
<1> QED BY <1>5, <1>6, <1>7, <1>i DEF Terminate, changed

\* The stop request of the manager's page or of the stop command.
LEMMA PostStopPreservesInv == ASSUME Inv, NEW c \in Commands, PostStop(c) PROVE Inv'
<1>1. PICK i \in Instances :
        /\ man[i].at \in Answering /\ RequestStop(i)
        /\ cmd' = [Others(ParentOf(i)) EXCEPT ![c] = Over]
  BY DEF PostStop
<1>2. CmdTypeOK /\ cmd[c].at = "post" /\ UNCHANGED <<deaths, accepted, calm, undone>>
  BY DEF Inv, InstanceTypeOK, CmdTypeOK, PostStop
<1>3. CmdTypeOK' /\ cmd'[c] = Over /\ \A d \in Commands \ {c} : Seen(d, ParentOf(i))
  BY <1>1, <1>2, RestTypes, CommandWrites
<1>4. (\A d \in Commands : Follows(d, ParentOf(i))) /\ man[i].at \in Saving
  BY <1>1, <1>2, <1>3 DEF Follows, Saving
<1> QED BY <1>1, <1>2, <1>3, <1>4, RequestPreservesInv

\* One step of an instance's own life.
LEMMA ServePreservesInv == ASSUME Inv, NEW i \in Instances, Serve(i) PROVE Inv'
<1>1. /\ man[i] \in Process /\ man \in [Instances -> Process] /\ CmdTypeOK
      /\ OnFile(i) \in File /\ OnFile(i).id = i /\ OnFile(i).receipts = man[i].receipts
      /\ state \in File /\ deaths \in 0 .. MaxDeaths /\ MaxDeaths \in Nat /\ accepted \subseteq Receipts
  BY InstanceFile, InstanceAssumption DEF Inv, InstanceTypeOK, CmdTypeOK
<1>2. ASSUME cmd' = cmd PROVE CmdTypeOK' /\ \A d \in Commands : Follows(d, Commands)
  BY <1>1, <1>2 DEF CmdTypeOK, Follows, Seen
<1>3. ASSUME cmd' = Others(ParentOf(i))
      PROVE  CmdTypeOK' /\ \A d \in Commands : Follows(d, ParentOf(i))
  BY <1>1, <1>3, OthersSee DEF CmdTypeOK, Follows, Seen
<1>4. CASE CheckState(i)
  <2>1. CASE Gone(i)
    BY <1>1, <1>2, <1>4, <2>1, GonePreservesInv DEF CheckState, Alive
  <2>2. CASE man' = [man EXCEPT ![i].at = "checked"]
    <3> DEFINE p == [man[i] EXCEPT !.at = "checked"]
    <3>1. p \in Process /\ p.at = "checked" /\ man' = [man EXCEPT ![i] = p]
      BY <1>1, <2>2 DEF Process, Phases
    <3> HIDE DEF p
    <3> QED BY <1>2, <1>4, <3>1, QuietPreservesInv DEF CheckState, Alive
  <2> QED BY <1>4, <2>1, <2>2 DEF CheckState
<1>5. CASE ReadState(i)
  <2> DEFINE p == [man[i] EXCEPT !.receipts = state.receipts, !.at = "made"]
  <2>1. /\ p \in Process /\ p.at = "made" /\ p.receipts = state.receipts
        /\ man' = [man EXCEPT ![i] = p]
    BY <1>1, <1>5 DEF ReadState, Process, Phases, File
  <2> HIDE DEF p
  <2> QED BY <1>2, <1>5, <2>1, QuietPreservesInv DEF ReadState, Alive
<1>6. CASE Announce(i)
  <2> DEFINE p == [man[i] EXCEPT !.at = "serving"]
  <2>1. /\ p \in Process /\ p.at = "serving" /\ p.port = man[i].port
        /\ p.receipts = man[i].receipts
    BY <1>1 DEF Process, Phases, Answering, Listening
  <2>2. man' = [man EXCEPT ![i] = p]
    BY <1>1, <1>6 DEF Announce
  <2> HIDE DEF p
  <2>3. p.at \in Saving /\ man[i].at = "bound" /\ man[i].at \in Listening
    BY <1>6, <2>1 DEF Announce, Saving, Answering, Listening
  <2> QED BY <1>1, <1>3, <1>6, <2>1, <2>2, <2>3, SavingPreservesInv DEF Announce, SavesItself
<1>7. CASE Save(i)
  <2>1. man' = [man EXCEPT ![i] = man[i]]
    BY <1>1, <1>7 DEF Save
  <2> QED BY <1>1, <1>3, <1>7, <2>1, SavingPreservesInv DEF Save, SavesItself
<1>8. CASE Accept(i)
  <2>1. PICK r \in Receipts \ accepted :
          /\ accepted' = accepted \cup {r}
          /\ man' = [man EXCEPT ![i].receipts = @ \cup {r}]
          /\ state' = [OnFile(i) EXCEPT !.receipts = @ \cup {r}]
    BY <1>8 DEF Accept
  <2> DEFINE p == [man[i] EXCEPT !.receipts = @ \cup {r}]
             f == [OnFile(i) EXCEPT !.receipts = @ \cup {r}]
  <2>2. /\ p \in Process /\ p.at = man[i].at /\ p.port = man[i].port
        /\ p.receipts = man[i].receipts \cup {r}
    BY <1>1 DEF Process
  <2>3. f \in File /\ f.id = i /\ f.receipts = man[i].receipts \cup {r}
    BY <1>1 DEF File
  <2>4. man' = [man EXCEPT ![i] = p] /\ state' = f
    BY <1>1, <2>1
  <2> HIDE DEF p, f
  <2>5. accepted' \subseteq Receipts /\ r \in state'.receipts
    BY <1>1, <2>1, <2>3, <2>4
  <2> QED BY <1>3, <1>8, <2>1, <2>2, <2>3, <2>4, <2>5, SavingPreservesInv DEF Accept
<1>9. ASSUME NEW from, NEW to \in {"draining", "closed"}, Enters(i, from, to),
             from \in {"stopping", "draining"}
      PROVE  Inv'
  <2> DEFINE p == [man[i] EXCEPT !.at = to]
  <2>1. /\ p \in Process /\ p.at = to /\ p.port = man[i].port
        /\ p.receipts = man[i].receipts
    BY <1>1 DEF Process, Phases, Listening, Saving
  <2>2. man' = [man EXCEPT ![i] = p]
    BY <1>1, <1>9 DEF Enters
  <2> HIDE DEF p
  <2>3. man[i].at \in Listening \cap Saving /\ Alive(i)
    BY <1>9 DEF Enters, Listening, Saving, Answering, Alive
  <2> QED BY <1>2, <1>9, <2>1, <2>2, <2>3, QuietPreservesInv DEF Enters
<1>10. CASE LastSave(i)
  BY <1>1, <1>3, <1>10, GonePreservesInv DEF LastSave, SavesItself, Alive
<1>11. CASE InstanceDies(i)
  <2>1. deaths' \in 0 .. MaxDeaths
    BY <1>1, <1>11 DEF InstanceDies
  <2> QED BY <1>2, <1>11, <2>1, GonePreservesInv DEF InstanceDies
<1>12. CASE Bind(i)
  <2>1. CASE PortOpen(man[i].port)
    BY <1>1, <1>2, <1>12, <2>1, GonePreservesInv DEF Bind, Alive
  <2>2. CASE ~PortOpen(man[i].port)
    <3> DEFINE p == [man[i] EXCEPT !.at = "bound"]
    <3>1. /\ p \in Process /\ p.at = "bound" /\ p.port = man[i].port
          /\ p.receipts = man[i].receipts
      BY <1>1 DEF Process, Phases, Listening
    <3>2. man' = [man EXCEPT ![i] = p]
      BY <1>1, <1>12, <2>2 DEF Bind
    <3> HIDE DEF p
    <3> QED BY <1>2, <1>12, <2>2, <3>1, <3>2, QuietPreservesInv DEF Bind, Alive
  <2> QED BY <2>1, <2>2
<1> QED BY <1>4, <1>5, <1>6, <1>7, <1>8, <1>9, <1>10, <1>11, <1>12 DEF Serve, Shut, CloseServer
-----------------------------------------------------------------------------
(* The whole.                                                              *)

\* Nothing has been started yet.
LEMMA InitInv == Init => Inv
<1> SUFFICES ASSUME Init PROVE Inv
  OBVIOUS
<1>1. NoCommand \in Command /\ NoCommand.at = "idle" /\ NoCommand.id = NoInstance
  BY RestTypes
<1>2. NoFile \in File /\ Unborn \in Process /\ Unborn.at = "none" /\ NoFile.receipts = {}
  BY DEF NoFile, File, Unborn, Process, Phases
<1>3. InstanceTypeOK
  <2>1. "none" \notin Listening
    BY DEF Listening, Answering
  <2>2. /\ deaths \in 0 .. MaxDeaths /\ state \in File /\ accepted \subseteq Receipts
        /\ calm \in BOOLEAN /\ undone \in BOOLEAN
    <3>1. deaths = 0 /\ state = NoFile /\ accepted = {} /\ calm /\ ~undone
          /\ calm \in BOOLEAN /\ undone \in BOOLEAN
      BY DEF Init
    <3> QED BY <1>2, <3>1, InstanceAssumption
  <2>3. man \in [Instances -> Process] /\ cmd \in [Commands -> Command]
        /\ \A i \in Instances : man[i].at = "none"
    BY <1>1, <1>2 DEF Init
  <2> QED BY <2>1, <2>2, <2>3 DEF InstanceTypeOK
<1>4. Identities
  BY <1>1, InstanceAssumption DEF Init, Identities, Owning, Later
<1>5. Undisturbed
  BY <1>1 DEF Init, Undisturbed, Early, Later
<1>6. CalmInv
  BY <1>1, <1>2 DEF Init, CalmInv, Busy, Rest, Alive, Later
<1>7. ReceiptsInv
  BY <1>2 DEF Init, ReceiptsInv, Saving, Answering
<1> QED BY <1>3, <1>4, <1>5, <1>6, <1>7 DEF Inv

\* One step of a command.
LEMMA CommandPreservesInv ==
  ASSUME Inv, NEW c \in Commands,
         Begin(c) \/ StartStep(c) \/ StopStep(c) \/ CommandDies(c)
  PROVE  Inv'
<1>1. ASSUME NEW from, Ends(c, from) PROVE Inv'
  BY <1>1, RestingPreservesInv DEF Ends, Inv, InstanceTypeOK
<1>2. CASE CommandDies(c)
  <2>1. deaths' \in 0 .. MaxDeaths
    BY <1>2, InstanceAssumption DEF CommandDies, Inv, InstanceTypeOK
  <2> QED BY <1>2, <2>1, RestingPreservesInv DEF CommandDies
<1>3. CASE Begin(c)
  BY <1>3, BeginPreservesInv
<1>4. CASE StartStep(c)
  <2>1. CASE Reuse(c) \/ PortTaken(c) \/ Live(c)
    BY <1>1, <2>1 DEF Reuse, PortTaken, Live
  <2>2. CASE Unanswered(c) \/ GiveUp(c) \/ NotMine(c) \/ Mine(c)
    BY <2>2, MovingPreservesInv DEF Unanswered, GiveUp, NotMine, Mine
  <2> QED BY <1>4, <2>1, <2>2, PortFreePreservesInv, PreparePreservesInv, SpawnPreservesInv,
              TerminatePreservesInv, ReapPreservesInv, PutBackPreservesInv DEF StartStep
<1>5. CASE StopStep(c)
  <2>1. CASE Found(c)
    BY <2>1, MovingPreservesInv DEF Found
  <2>2. CASE NotFound(c)
    BY <1>1, <2>2, MovingPreservesInv DEF NotFound
  <2>3. CASE PostRefused(c)
    BY <1>1, <2>3 DEF PostRefused
  <2> QED BY <1>5, <2>1, <2>2, <2>3, MarkStoppedPreservesInv, PostStopPreservesInv DEF StopStep
<1> QED BY <1>2, <1>3, <1>4, <1>5

\* Inv is inductive.
LEMMA NextInv == Inv /\ [Next]_vars => Inv'
<1> SUFFICES ASSUME Inv, [Next]_vars PROVE Inv'
  OBVIOUS
<1>1. CASE UNCHANGED vars
  <2> USE <1>1 DEF vars
  <2>1. InstanceTypeOK'
    BY DEF Inv, InstanceTypeOK
  <2>2. Identities'
    BY DEF Inv, Identities, Dead
  <2>3. Undisturbed'
    BY DEF Inv, Undisturbed
  <2>4. CalmInv'
    BY DEF Inv, CalmInv, Busy, Alive
  <2>5. ReceiptsInv'
    BY DEF Inv, ReceiptsInv
  <2> QED BY <2>1, <2>2, <2>3, <2>4, <2>5 DEF Inv
<1> QED BY <1>1, CommandPreservesInv, ServePreservesInv DEF Next

\* The inductive invariant holds in every reachable state of
\* local_manager_cli.py and the instances it starts.
THEOREM InstancesAreKeptApart == Spec => []Inv
<1> QED BY InitInv, NextInv, PTL DEF Spec

\* The state file, the commands and the processes have their types, and a
\* port has at most one owner, after every step.
THEOREM InstanceTypeCorrect == Spec => []InstanceTypeOK
<1>1. Inv => InstanceTypeOK
  BY DEF Inv
<1> QED BY <1>1, InstancesAreKeptApart, PTL

\* _command_start reaps its child on every path before it reports a failure.
THEOREM NoChildIsLeft == Spec => []FailedStartLeavesNoChild
<1>1. Inv => FailedStartLeavesNoChild
  BY DEF Inv, Identities, Dead, FailedStartLeavesNoChild, Alive
<1> QED BY <1>1, InstancesAreKeptApart, PTL

\* _restore_start_state leaves what the failed start had found.
THEOREM FileIsRestored == Spec => []FailedStartRestores
<1>1. Inv => FailedStartRestores
  BY DEF Inv, Undisturbed, FailedStartRestores
<1> QED BY <1>1, InstancesAreKeptApart, PTL

\* While starts keep clear of each other, the state file names the instance
\* that answers, so that status and stop reach it.
THEOREM TheServingOneIsNamed == Spec => []ServingIsNamed
<1>1. Inv => ServingIsNamed
  BY DEF Inv, CalmInv, ServingIsNamed, Alive, Answering
<1> QED BY <1>1, InstancesAreKeptApart, PTL

\* Receipts outlive any number of stops and starts under the same condition.
THEOREM ReceiptsOutliveRestarts == Spec => []ReceiptsCarryOver
<1>1. Inv => ReceiptsCarryOver
  BY DEF Inv, ReceiptsInv, ReceiptsCarryOver
<1> QED BY <1>1, InstancesAreKeptApart, PTL

\* A port has one manager at any time; and as long as no start meets another
\* command or an earlier instance, there is one manager in all, whichever
\* commands and managers are killed.
OneManager ==
  /\ \A i, j \in Instances :
       man[i].at \in Answering /\ man[j].at \in Answering /\ man[i].port = man[j].port => i = j
  /\ calm => \A i, j \in Instances : Alive(i) /\ Alive(j) => i = j

\* Two managers never answer at one port, and starts that keep clear of each
\* other leave one manager of the knowledge base (local_manager_cli.py
\* _command_start and _stop_failed_child, LocalKnowledgeManager.serve).
THEOREM ThereIsOneManager == Spec => []OneManager
<1>1. Inv => OneManager
  BY DEF Inv, InstanceTypeOK, CalmInv, OneManager, Listening
<1> QED BY <1>1, InstancesAreKeptApart, PTL
=============================================================================
