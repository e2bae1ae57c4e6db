---------------------------- MODULE InboxUpload ----------------------------
(***************************************************************************)
(* Uploads from the browser: InboxUploadStore.receive with its slots and   *)
(* staging directories, and the receipts LocalKnowledgeManager keeps of    *)
(* them, from the handler threads that record them to the attempts that    *)
(* settle them.  LocalManager sees the same uploads as single steps; here  *)
(* every system call may fail and the server may die between any two.      *)
(***************************************************************************)
EXTENDS Naturals, FiniteSets, SequencesExt

CONSTANTS Uploads,      \* upload ids, one per request of the browser
          Slots,        \* value of the semaphore
          HistoryLimit, \* terminal receipts that are kept
          Nobody,
          MaxRestarts   \* bound on deaths of the server

ASSUME InboxAssumption ==
  /\ IsFiniteSet(Uploads)
  /\ Slots \in Nat \ {0}
  /\ HistoryLimit \in Nat
  /\ MaxRestarts \in Nat

VARIABLES slots,    \* free slots of the semaphore
          req,      \* upload -> where its request is
          staging,  \* upload -> its staging directory
          inbox,    \* upload -> its directory in the inbox
          history,  \* recent_uploads in memory, newest first
          file,     \* recent_uploads in the state file
          settled,  \* history: uploads whose last known status is terminal,
                    \* those the limit has dropped since included
          attempt,  \* the run under way and the receipts it has selected
          restarts

inboxVars == <<slots, req, staging, inbox, history, file, settled, attempt, restarts>>
requestVars == <<slots, req, staging, inbox>>

Holding == {"open", "staged", "whole"}
Places == Holding \cup {"none", "moved", "answered", "refused", "lost"}
\* "terminal": completed, or failed for good.
Statuses == {"queued", "processing", "retryable", "terminal"}
Terminal == {"terminal"}
Pending == {"queued", "retryable"}
NoAttempt == [at |-> "idle", by |-> Nobody, chosen |-> {}]

On(log) == {e.id : e \in ToSet(log)}

InboxInit ==
  /\ slots = Slots
  /\ req = [u \in Uploads |-> "none"]
  /\ staging = [u \in Uploads |-> "none"]
  /\ inbox = [u \in Uploads |-> "none"]
  /\ history = <<>>
  /\ file = <<>>
  /\ settled = {}
  /\ attempt = NoAttempt
  /\ restarts = 0

TerminalAt(log) == {k \in DOMAIN log : log[k].status \in Terminal}

\* A terminal receipt stays unless the limit is reached by those before it.
Kept(log) ==
  {k \in DOMAIN log :
     k \in TerminalAt(log) => Cardinality({j \in TerminalAt(log) : j < k}) < HistoryLimit}

\* limited_upload_history: every pending receipt and the newest terminal
\* ones, in their order.
Limited(log) ==
  LET n == Cardinality(Kept(log))
      order == CHOOSE f \in [1 .. n -> Kept(log)] : \A i, j \in 1 .. n : i < j => f[i] < f[j]
  IN  [i \in 1 .. n |-> log[order[i]]]

\* What the state lock covers: memory changes, then the file is written, or the
\* write raises and leaves it as it was.
Written(log, ok) == history' = log /\ file' = IF ok THEN log ELSE file
Saved(log) == Written(log, TRUE)

Ids(log, statuses) == {e.id : e \in {x \in ToSet(log) : x.status \in statuses}}

\* Uploads settled, by what was known and what a list says now.
Resettled(log) == (settled \ On(log)) \cup Ids(log, Terminal)

-----------------------------------------------------------------------------
(* InboxUploadStore.receive                                                *)

\* A slot is taken without waiting.
Arrive(u) ==
  /\ req[u] = "none"
  /\ IF slots = 0
     THEN req' = [req EXCEPT ![u] = "refused"] /\ UNCHANGED slots
     ELSE req' = [req EXCEPT ![u] = "open"] /\ slots' = slots - 1
  /\ UNCHANGED <<staging, inbox, history, file, settled, attempt, restarts>>

\* Name and length are good; a directory of its own, and a part of a file.
MakeStaging(u) ==
  /\ req[u] = "open"
  /\ req' = [req EXCEPT ![u] = "staged"]
  /\ staging' = [staging EXCEPT ![u] = "part"]
  /\ UNCHANGED <<slots, inbox, history, file, settled, attempt, restarts>>

\* All bytes have come, are synced and have their name.
Complete(u) ==
  /\ req[u] = "staged"
  /\ req' = [req EXCEPT ![u] = "whole"]
  /\ staging' = [staging EXCEPT ![u] = "whole"]
  /\ UNCHANGED <<slots, inbox, history, file, settled, attempt, restarts>>

\* One rename puts the directory into the inbox, and the slot is free.
Move(u) ==
  /\ req[u] = "whole"
  /\ req' = [req EXCEPT ![u] = "moved"]
  /\ inbox' = [inbox EXCEPT ![u] = staging[u]]
  /\ staging' = [staging EXCEPT ![u] = "none"]
  /\ slots' = slots + 1
  /\ UNCHANGED <<history, file, settled, attempt, restarts>>

\* Mutant of Refuse: a request refused for its name keeps its slot.
RefuseHolding(u) ==
  /\ req[u] \in Holding
  /\ req' = [req EXCEPT ![u] = "refused"]
  /\ staging' = [staging EXCEPT ![u] = "none"]
  /\ slots' = IF req[u] = "open" THEN slots ELSE slots + 1
  /\ UNCHANGED <<inbox, history, file, settled, attempt, restarts>>

\* A check, the transfer, a time-out or a system call ends the request;
\* the staging directory is removed and the slot given back.
Refuse(u) ==
  /\ req[u] \in Holding
  /\ req' = [req EXCEPT ![u] = "refused"]
  /\ staging' = [staging EXCEPT ![u] = "none"]
  /\ slots' = slots + 1
  /\ UNCHANGED <<inbox, history, file, settled, attempt, restarts>>

\* Removing the directory raises, and the slot is never given back.
CleanupFails(u) ==
  /\ req[u] \in {"staged", "whole"}
  /\ req' = [req EXCEPT ![u] = "refused"]
  /\ UNCHANGED <<slots, staging, inbox, history, file, settled, attempt, restarts>>

-----------------------------------------------------------------------------
(* The receipts: receive_browser_upload and the attempts.                  *)

\* The receipt is recorded and answered; or writing the state file raises,
\* which leaves it in memory and answers with an error.
Record(u) ==
  /\ req[u] = "moved"
  /\ \E ok \in BOOLEAN :
       /\ Written(Limited(<<[id |-> u, status |-> "queued"]>> \o history), ok)
       /\ req' = [req EXCEPT ![u] = IF ok THEN "answered" ELSE "refused"]
  /\ UNCHANGED <<slots, staging, inbox, settled, attempt, restarts>>

\* Any other _save writes all that is in memory.
Flush(ok) == Written(history, ok)

Started(log) ==
  [k \in DOMAIN log |->
     IF log[k].status \in Pending THEN [log[k] EXCEPT !.status = "processing"] ELSE log[k]]

\* _begin_upload_attempt, by whoever has got the pipeline lock.
BeginAttempt(who) ==
  /\ attempt.at = "idle"
  /\ attempt' = [at |-> "begun", by |-> who, chosen |-> Ids(history, Pending)]
  /\ Saved(Started(history))
  /\ UNCHANGED <<requestVars, settled, restarts>>

\* Its write raises, or the next one: the exception ends the attempt before the
\* try block, and its receipts are in processing with nobody to settle them.
BeginRaises ==
  /\ attempt.at = "idle"
  /\ \E ok \in BOOLEAN : Written(Started(history), ok)
  /\ UNCHANGED <<requestVars, settled, attempt, restarts>>

\* _settle_upload_attempt reads which receipts to settle, then looks at
\* site and database without the state lock.
ReadCandidates ==
  /\ attempt.at = "ran"
  /\ attempt' = [attempt EXCEPT !.at = "settling"]
  /\ UNCHANGED <<requestVars, history, file, settled, restarts>>

Outcomes == {"terminal", "retryable"}
SettledLog(log, outcome) ==
  [k \in DOMAIN log |->
     IF log[k].id \in attempt.chosen THEN [log[k] EXCEPT !.status = outcome[log[k].id]] ELSE log[k]]

\* Where the attempt goes from there: on, into the except clause, or out of it.
AfterSettling(ok) ==
  attempt' = IF ok THEN [attempt EXCEPT !.at = "settled"]
             ELSE IF attempt.at = "settling" THEN [attempt EXCEPT !.at = "raised"]
             ELSE NoAttempt

\* Mutant of SettleReceipts: the list written is the one that was read.
SettleStale(ok) ==
  /\ attempt.at \in {"settling", "raised"}
  /\ \E outcome \in [attempt.chosen -> Outcomes] :
       /\ Written(Limited(SelectSeq(SettledLog(history, outcome), LAMBDA e : e.status # "queued")), ok)
       /\ settled' = Resettled(SettledLog(history, outcome))
  /\ AfterSettling(ok)
  /\ UNCHANGED <<requestVars, restarts>>

\* ... and writes the outcomes into the list as it is by then: when the run has
\* returned, and in the except clause when the run or that has raised.
SettleReceipts(ok) ==
  /\ attempt.at \in {"settling", "raised"}
  /\ \E outcome \in [attempt.chosen -> Outcomes] :
       /\ Written(Limited(SettledLog(history, outcome)), ok)
       /\ settled' = Resettled(SettledLog(history, outcome))
  /\ AfterSettling(ok)
  /\ UNCHANGED <<requestVars, restarts>>

\* normalized_upload_history: nobody works on a receipt any more.
Normalized(log) ==
  Limited([k \in DOMAIN log |->
             IF log[k].status = "processing" THEN [log[k] EXCEPT !.status = "queued"] ELSE log[k]])

\* The server dies with all its threads; staging directories stay behind.
\* The next one starts from the state file.
RestartServer ==
  /\ restarts < MaxRestarts
  /\ restarts' = restarts + 1
  /\ slots' = Slots
  /\ req' = [u \in Uploads |->
               IF req[u] \in Holding \cup {"moved"} \/ staging[u] # "none" THEN "lost" ELSE req[u]]
  /\ Saved(Normalized(file))
  /\ settled' = Resettled(file)
  /\ attempt' = NoAttempt
  /\ UNCHANGED <<staging, inbox>>

RequestStep(u) ==
  \/ Arrive(u) \/ MakeStaging(u) \/ Complete(u) \/ Move(u)
  \/ Refuse(u) \/ CleanupFails(u) \/ Record(u)

-----------------------------------------------------------------------------
InboxTypeOK ==
  /\ slots \in 0 .. Slots
  /\ req \in [Uploads -> Places]
  /\ staging \in [Uploads -> {"none", "part", "whole"}]
  /\ inbox \in [Uploads -> {"none", "whole"}]
  /\ \A log \in {history, file} :
       /\ \A e \in ToSet(log) : e.id \in Uploads /\ e.status \in Statuses
       /\ Cardinality(On(log)) = Len(log)
  /\ settled \subseteq Uploads
  /\ attempt.chosen \subseteq Uploads
  /\ restarts \in 0 .. MaxRestarts

\* No slot is lost: each one is free, or held by a request, or its request
\* has left a staging directory behind that could not be removed
\* (InboxUploadStore.receive, finally).
SlotsAreAccountedFor ==
  Cardinality({u \in Uploads : req[u] \in Holding})
    + Cardinality({u \in Uploads : req[u] = "refused" /\ staging[u] # "none"})
    + slots = Slots

\* What the browser was told is received is on file until it is settled for
\* good, through attempts, other uploads, the limit and restarts, and its
\* file is in the inbox.
AcknowledgedIsKept ==
  \A u \in Uploads :
    req[u] = "answered" =>
      /\ inbox[u] = "whole"
      /\ u \in settled \/ u \in On(file)

\* Receipts in processing that no attempt has chosen: only a restart takes them
\* up again.
Stranded == Ids(history, {"processing"}) \ attempt.chosen

\* An attempt that got under way strands no receipt, whatever raises in it and
\* however it ends (_run_pipeline_once, normalized_upload_history).
AttemptsStrandNothing ==
  [][attempt # NoAttempt => Stranded' \subseteq Stranded]_inboxVars
=============================================================================
