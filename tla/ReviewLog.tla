----------------------------- MODULE ReviewLog -----------------------------
(***************************************************************************)
(* The reviews of cards: operations/review.py and storage/reviews.py under *)
(* local_review.py, with the pages that show them and the run that         *)
(* publishes them.  Review handlers, upload handlers and the watcher are   *)
(* threads of one server: they share the pipeline lock, the state file and *)
(* the fate of the process, so this module extends InboxUpload.            *)
(*                                                                         *)
(* The log of reviews is append-only and the pages show its last entry for *)
(* each card, as of the last build.                                        *)
(***************************************************************************)
EXTENDS InboxUpload

CONSTANTS Tabs,       \* browser pages
          Cards,      \* documents
          Verdicts,   \* review statuses
          Notes,      \* texts of notes
          Default,    \* the review of a card nobody has reviewed
          NoCard, Watcher,
          MaxChanges  \* bound on the log

Reviews == Verdicts \X Notes

ASSUME ReviewAssumption ==
  /\ Default \in Reviews
  /\ NoCard \notin Cards
  /\ {Nobody, Watcher} \cap Tabs = {}
  /\ Nobody # Watcher
  /\ MaxChanges \in Nat

VARIABLES cards,  \* documents in the database
          events, \* the log
          site,   \* published: how much of the log the build has read
          lock,   \* who holds the project lock
          run,    \* of the attempt: what it has built, and whether it went well
          tab     \* what each page shows and asks for

reviewVars == <<cards, events, site, lock, run, tab>>
vars == <<inboxVars, reviewVars>>

Builds == 0 .. MaxChanges
NoRun == [built |-> 0, ok |-> FALSE]
Change == [card : Cards, from : Reviews, to : Reviews]

\* change: the place in the log of the change the page has made.
Tab == [at : {"view", "sent", "inside", "committed", "asking", "rebuilding"},
        page : Builds, card : Cards \cup {NoCard}, target : Reviews,
        change : 0 .. MaxChanges, rebuilt : BOOLEAN]
View(page) == [at |-> "view", page |-> page, card |-> NoCard, target |-> Default,
               change |-> 0, rebuilt |-> FALSE]

ReviewTypeOK ==
  /\ cards \subseteq Cards
  /\ events \in Seq(Change) /\ Len(events) <= MaxChanges
  /\ site \in Builds
  /\ lock \in Tabs \cup {Watcher, Nobody}
  /\ run \in [built : Builds, ok : BOOLEAN]
  /\ tab \in [Tabs -> Tab]
  /\ attempt.at \in {"idle", "begun", "locked", "built", "ran", "settling", "raised", "settled"}
  /\ attempt.by \in Tabs \cup {Watcher, Nobody}

Init ==
  /\ InboxInit
  /\ cards = Cards
  /\ events = <<>>
  /\ site = 0
  /\ lock = Nobody
  /\ run = NoRun
  /\ tab = [t \in Tabs |-> View(site)]

\* review_metadata_by_document: the last entry of the card of a log among the first n.
ReviewAfter(log, n, card) ==
  LET Entries == {k \in 1 .. n : log[k].card = card}
  IN  IF Entries = {} THEN Default
      ELSE log[CHOOSE k \in Entries : \A j \in Entries : j <= k].to

Current(card) == ReviewAfter(events, Len(events), card)

\* expected_status and expected_note: what the page shows.
Expected(t) == ReviewAfter(events, tab[t].page, tab[t].card)

Changes(t, changed) == tab' = [tab EXCEPT ![t] = changed]

-----------------------------------------------------------------------------
(* A page.                                                                 *)

LoadPage(t) ==
  /\ tab[t].at = "view"
  /\ Changes(t, View(site))
  /\ UNCHANGED <<inboxVars, cards, events, site, lock, run>>

\* For a card the page shows; it may have gone from the database since.
SendReview(t) ==
  /\ tab[t].at = "view"
  /\ Len(events) < MaxChanges
  /\ \E card \in Cards, target \in Reviews :
       Changes(t, [View(tab[t].page) EXCEPT !.at = "sent", !.card = card, !.target = target])
  /\ UNCHANGED <<inboxVars, cards, events, site, lock, run>>

-----------------------------------------------------------------------------
(* change_browser_review and the handler around it.                        *)

Answer(t) == Changes(t, View(tab[t].page))

\* The lock is held by someone else, a check of the request fails, or the
\* user only wanted a preview.
Rejected(t) ==
  /\ tab[t].at = "sent"
  /\ Answer(t)
  /\ UNCHANGED <<inboxVars, cards, events, site, lock, run>>

EnterReview(t) ==
  /\ tab[t].at = "sent"
  /\ lock = Nobody
  /\ lock' = t
  /\ Changes(t, [tab[t] EXCEPT !.at = "inside"])
  /\ UNCHANGED <<inboxVars, cards, events, site, run>>

\* What change_document_review compares.
Agrees(t) == Expected(t) = Current(tab[t].card)

\* Mutant of Appended: the log tells what the page showed for certain only
\* of the status, the note before is left out.
AppendedWithoutNote(t) ==
  Append(events, [card |-> tab[t].card, to |-> tab[t].target,
                  from |-> <<Current(tab[t].card)[1], Default[2]>>])

\* previous status and note come from the log, not from the request.
Appended(t) ==
  Append(events, [card |-> tab[t].card, to |-> tab[t].target, from |-> Current(tab[t].card)])

\* The entry is committed while the lock is held.
ChangeReview(t) ==
  /\ tab[t].at = "inside"
  /\ tab[t].card \in cards
  /\ Agrees(t)
  /\ tab[t].target # Current(tab[t].card)
  /\ Len(events) < MaxChanges
  /\ events' = Appended(t)
  /\ lock' = Nobody
  /\ Changes(t, [tab[t] EXCEPT !.at = "committed", !.change = Len(events')])
  /\ UNCHANGED <<inboxVars, cards, site, run>>

\* The card has gone, the review has changed since the page was loaded,
\* there is nothing to change, or the transaction fails.
RefuseReview(t) ==
  /\ tab[t].at = "inside"
  /\ lock' = Nobody
  /\ Answer(t)
  /\ UNCHANGED <<inboxVars, cards, events, site, run>>

\* rebuild_after_classification: the mark is taken back and saved; if that
\* raises, the answer is an error ...
AskRebuild(t) ==
  /\ tab[t].at = "committed"
  /\ \/ Flush(TRUE) /\ Changes(t, [tab[t] EXCEPT !.at = "asking"])
     \/ Flush(FALSE) /\ Answer(t)
  /\ UNCHANGED <<requestVars, settled, attempt, restarts, cards, events, site, lock, run>>

\* Mutant of RunUnderWay: the attempt under way is taken for the rebuild.
RunUnderWayAnswered(t) ==
  /\ tab[t].at = "asking"
  /\ attempt.at # "idle"
  /\ Changes(t, [View(tab[t].page) EXCEPT !.change = tab[t].change, !.rebuilt = TRUE])
  /\ UNCHANGED <<inboxVars, cards, events, site, lock, run>>

\* ... another attempt has the pipeline lock, and the answer is "pending",
RunUnderWay(t) ==
  /\ tab[t].at = "asking"
  /\ attempt.at # "idle"
  /\ Answer(t)
  /\ UNCHANGED <<inboxVars, cards, events, site, lock, run>>

\* or the handler makes the attempt itself, which may raise at once.
BeginRebuild(t) ==
  /\ tab[t].at = "asking"
  /\ \/ BeginAttempt(t) /\ Changes(t, [tab[t] EXCEPT !.at = "rebuilding"])
     \/ BeginRaises /\ Answer(t)
  /\ UNCHANGED <<cards, events, site, lock, run>>

-----------------------------------------------------------------------------
(* An attempt: _run_pipeline_once around run_full_pipeline.                *)

WatcherBegins ==
  /\ BeginAttempt(Watcher) \/ BeginRaises
  /\ UNCHANGED reviewVars

RunGoes(at) ==
  /\ attempt' = [attempt EXCEPT !.at = at]
  /\ UNCHANGED <<requestVars, history, file, settled, restarts, events, tab>>

TakeLock ==
  /\ attempt.at = "begun"
  /\ lock = Nobody
  /\ lock' = attempt.by
  /\ RunGoes("locked")
  /\ UNCHANGED <<cards, site, run>>

\* Mutant of RunFails: an attempt whose run raises is over.
RunFailsUnsettled ==
  /\ attempt.at \in {"begun", "locked", "built"}
  /\ lock' = IF attempt.at = "begun" THEN lock ELSE Nobody
  /\ attempt' = NoAttempt
  /\ IF attempt.by \in Tabs THEN Answer(attempt.by) ELSE UNCHANGED tab
  /\ UNCHANGED <<requestVars, history, file, settled, restarts, cards, events, site, run>>

\* The lock is taken, the run raises, or it returns with work left or checks
\* failed: nothing is published.
RunFails ==
  /\ attempt.at \in {"begun", "locked", "built"}
  /\ lock' = IF attempt.at = "begun" THEN lock ELSE Nobody
  /\ RunGoes("raised") \/ (attempt.at # "begun" /\ RunGoes("ran"))
  /\ UNCHANGED <<cards, site, run>>

\* Sources are processed, cards may go and come back, and the candidate is
\* built from the database.
BuildSite ==
  /\ attempt.at = "locked"
  /\ cards' \in SUBSET Cards
  /\ run' = [run EXCEPT !.built = Len(events)]
  /\ RunGoes("built")
  /\ UNCHANGED <<site, lock>>

PublishSite ==
  /\ attempt.at = "built"
  /\ site' = run.built
  /\ run' = [run EXCEPT !.ok = TRUE]
  /\ lock' = Nobody
  /\ RunGoes("ran")
  /\ UNCHANGED cards

\* What the caller of _run_pipeline_once is told; an exception is an error.
Tell(rebuilt) ==
  IF attempt.by \in Tabs
  THEN Changes(attempt.by, [View(tab[attempt.by].page) EXCEPT
                              !.change = tab[attempt.by].change, !.rebuilt = rebuilt])
  ELSE UNCHANGED tab

RetryableLeft == Ids(history', {"retryable"}) \cap attempt.chosen # {}

\* The receipts are settled: the run has gone well if this leaves nothing to
\* retry and does not raise; the second time, that ends the attempt.
Settle(ok) ==
  /\ SettleReceipts(ok)
  /\ IF attempt' = NoAttempt
     THEN run' = NoRun /\ Tell(FALSE)
     ELSE run' = [run EXCEPT !.ok = @ /\ ok /\ ~RetryableLeft] /\ UNCHANGED tab
  /\ UNCHANGED <<cards, events, site, lock>>

\* The last _save of the attempt, which may raise as well.
EndAttempt(ok) ==
  /\ attempt.at = "settled"
  /\ Flush(ok)
  /\ attempt' = NoAttempt
  /\ Tell(ok /\ run.ok)
  /\ run' = NoRun
  /\ UNCHANGED <<requestVars, settled, restarts, cards, events, site, lock>>

\* The server dies and is started again; open requests end without answer.
Restart ==
  /\ RestartServer
  /\ lock' = Nobody
  /\ run' = NoRun
  /\ tab' = [t \in Tabs |-> IF tab[t].at = "view" THEN tab[t] ELSE View(tab[t].page)]
  /\ UNCHANGED <<cards, events, site>>

PageStep(t) ==
  \/ LoadPage(t) \/ SendReview(t) \/ Rejected(t) \/ EnterReview(t) \/ ChangeReview(t)
  \/ RefuseReview(t) \/ AskRebuild(t) \/ RunUnderWay(t) \/ BeginRebuild(t)

AttemptStep ==
  \/ WatcherBegins \/ TakeLock \/ RunFails \/ BuildSite \/ PublishSite
  \/ (ReadCandidates /\ UNCHANGED reviewVars)
  \/ \E ok \in BOOLEAN : Settle(ok) \/ EndAttempt(ok)

Next ==
  \/ \E u \in Uploads : RequestStep(u) /\ UNCHANGED reviewVars
  \/ \E t \in Tabs : PageStep(t)
  \/ AttemptStep
  \/ Restart

Spec == Init /\ [][Next]_vars

-----------------------------------------------------------------------------
\* The log is an audit trail without gaps: every entry starts from where the
\* one before it for the same card ended, and changes something, whichever
\* pages were open and however stale (change_document_review).
AuditIsAChain ==
  \A k \in DOMAIN events :
    /\ events[k].from = ReviewAfter(events, k - 1, events[k].card)
    /\ events[k].to # events[k].from

\* A page that is told its change is on the site finds it there, although
\* other attempts come and go (ManagerRequestHandler._receive_review).
RebuiltMeansShown ==
  \A t \in Tabs : tab[t].rebuilt => tab[t].change \in 1 .. site
=============================================================================
