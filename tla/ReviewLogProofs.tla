-------------------------- MODULE ReviewLogProofs ---------------------------
(***************************************************************************)
(* The review log, the upload slots and the receipts, for any number of    *)
(* pages, cards, uploads and slots.                                        *)
(*                                                                         *)
(* Reviews: Inv is inductive.  A handler that is inside holds the project  *)
(* lock, as does a run between its beginning and its end (LockIsHeld), and *)
(* how much of the log a run has read stands between what the site shows   *)
(* and what is written (SiteFollowsLog).                                   *)
(*                                                                         *)
(* Slots: SlotsInv.  A staging directory goes with its request.            *)
(*                                                                         *)
(* Receipts: memory accounts for the requests (Accounts), and the limit    *)
(* takes nothing from an account (LimitedAccounts).  A write that raises   *)
(* leaves the file behind, but never by a receipt that was answered for    *)
(* and is in memory (ReceiptsInv).  What an attempt has chosen it settles  *)
(* before it ends (AttemptHolds, StepsKeepReceipts).                       *)
(***************************************************************************)
EXTENDS ReviewLog, FiniteSetTheorems, TLAPS

AttemptIsRecord == attempt = [at |-> attempt.at, by |-> attempt.by, chosen |-> attempt.chosen]

\* Who has taken the project lock, and whose page waits for the attempt.
LockIsHeld ==
  /\ \A t \in Tabs : tab[t].at = "inside" => lock = t
  /\ attempt.at \in {"locked", "built"} => lock = attempt.by
  /\ attempt.at # "idle" => attempt.by # Nobody
  /\ \A t \in Tabs : attempt.by = t => tab[t].at = "rebuilding"

\* A page whose change is in the log; the attempt it makes has begun after it.
Changed(t) == tab[t].at \in {"committed", "asking", "rebuilding"}

SiteFollowsLog ==
  /\ site <= Len(events)
  /\ run.built <= Len(events)
  /\ attempt.at = "built" => site <= run.built
  /\ run.ok => attempt.at \in {"ran", "settling", "settled"}
  /\ \A t \in Tabs :
       /\ Changed(t) => tab[t].change \in 1 .. Len(events)
       /\ tab[t].rebuilt => tab[t].at = "view"
       /\ attempt.by = t /\ attempt.at = "built" => tab[t].change <= run.built
       /\ attempt.by = t /\ run.ok => tab[t].change <= site

\* Staging directories go with the requests that have made them.
StagingIsOwned ==
  /\ req \in [Uploads -> Places]
  /\ staging \in [Uploads -> {"none", "part", "whole"}]
  /\ slots \in Nat
  /\ \A u \in Uploads : req[u] \in {"none", "open", "moved", "answered"} => staging[u] = "none"
  /\ \A u \in Uploads : req[u] \in {"staged", "whole"} => staging[u] # "none"

Inv ==
  /\ ReviewTypeOK
  /\ AttemptIsRecord
  /\ LockIsHeld
  /\ SiteFollowsLog
  /\ RebuiltMeansShown

-----------------------------------------------------------------------------
(* The log.                                                                *)

\* A set of places in the log has a last one.
LEMMA LastExists ==
  ASSUME NEW n \in Nat, NEW S \in SUBSET (1 .. n), S # {}
  PROVE  \E k \in S : \A j \in S : j <= k
<1> DEFINE R == {n - k : k \in S}
<1>1. R \subseteq Nat /\ R # {}
  <2>1. PICK k \in S : TRUE
    OBVIOUS
  <2>2. n - k \in R
    BY <2>1
  <2> QED BY <2>2
<1>2. PICK m \in R : \A r \in R : <<r, m>> \notin OpToRel(<, Nat)
  BY <1>1, WFMin, NatLessThanWellFounded, Zenon
<1>3. \A r \in R : ~(r < m)
  BY <1>1, <1>2, Zenon DEF OpToRel
<1>4. PICK k \in S : m = n - k
  OBVIOUS
<1>5. \A j \in S : n - j \in R
  OBVIOUS
<1> HIDE DEF R
<1>6. \A j \in S : ~(n - j < n - k)
  BY <1>3, <1>4, <1>5
<1>7. \A j \in S : j <= k
  BY <1>6
<1> QED BY <1>7
\* The review of a card as of some place in a log is a review ...
LEMMA ReviewType ==
  ASSUME NEW log \in Seq(Change), NEW n \in 0 .. Len(log), NEW card
  PROVE  ReviewAfter(log, n, card) \in Reviews
<1> DEFINE E == {k \in 1 .. n : log[k].card = card}
           m == CHOOSE k \in E : \A j \in E : j <= k
<1>1. CASE E = {}
  BY <1>1, ReviewAssumption DEF ReviewAfter
<1>2. CASE E # {}
  <2>1. m \in E
    <3>1. E \in SUBSET (1 .. n) /\ n \in Nat
      OBVIOUS
    <3> HIDE DEF E
    <3>2. \E k \in E : \A j \in E : j <= k
      BY <1>2, <3>1, LastExists
    <3> QED BY <3>2
  <2>2. log[m].to \in Reviews
    <3>1. m \in 1 .. Len(log)
      BY <2>1
    <3> HIDE DEF m
    <3>2. log[m] \in Change
      BY <3>1
    <3> QED BY <3>2 DEF Change
  <2> QED BY <1>2, <2>2 DEF ReviewAfter
<1> QED BY <1>1, <1>2

\* ... and stays the same when the log grows.
LEMMA ReviewIsKept ==
  ASSUME NEW log \in Seq(Change), NEW e \in Change, NEW n \in 0 .. Len(log), NEW card
  PROVE  ReviewAfter(Append(log, e), n, card) = ReviewAfter(log, n, card)
<1> DEFINE grown == Append(log, e)
           E == {k \in 1 .. n : log[k].card = card}
           m == CHOOSE k \in E : \A j \in E : j <= k
<1>1. \A k \in 1 .. n : grown[k] = log[k]
  OBVIOUS
<1> HIDE DEF grown
<1>2. {k \in 1 .. n : grown[k].card = card} = E
  BY <1>1
<1>3. CASE E = {}
  BY <1>2, <1>3 DEF ReviewAfter, grown
<1>4. CASE E # {}
  <2>1. m \in E
    <3>1. E \in SUBSET (1 .. n) /\ n \in Nat
      OBVIOUS
    <3> HIDE DEF E
    <3>2. \E k \in E : \A j \in E : j <= k
      BY <1>4, <3>1, LastExists
    <3> QED BY <3>2
  <2>2. grown[m] = log[m]
    <3> HIDE DEF m
    <3> QED BY <1>1, <2>1
  <2>3. ReviewAfter(log, n, card) = log[m].to
    BY <1>4 DEF ReviewAfter
  <2>4. ReviewAfter(grown, n, card) = grown[m].to
    BY <1>2, <1>4, Zenon DEF ReviewAfter
  <2> QED BY <2>2, <2>3, <2>4 DEF grown
<1> QED BY <1>3, <1>4

-----------------------------------------------------------------------------
(* Pages and attempts change one at a time.                                *)

LEMMA TabChanges ==
  ASSUME tab \in [Tabs -> Tab], NEW t \in Tabs, NEW changed \in Tab, Changes(t, changed)
  PROVE  /\ tab' \in [Tabs -> Tab]
         /\ tab'[t] = changed
         /\ \A u \in Tabs \ {t} : tab'[u] = tab[u]
BY DEF Changes

LEMMA ViewType ==
  ASSUME NEW page \in Builds
  PROVE  /\ View(page) \in Tab
         /\ View(page).at = "view" /\ ~View(page).rebuilt
BY ReviewAssumption DEF View, Tab, Builds

LEMMA AttemptGoes ==
  ASSUME AttemptIsRecord, NEW at, attempt' = [attempt EXCEPT !.at = at]
  PROVE  /\ AttemptIsRecord'
         /\ attempt'.at = at
         /\ attempt'.by = attempt.by
<1>1. attempt' = [at |-> at, by |-> attempt.by, chosen |-> attempt.chosen]
  BY DEF AttemptIsRecord
<1> QED BY <1>1 DEF AttemptIsRecord

LEMMA InitInv == Init => Inv
<1> SUFFICES ASSUME Init PROVE Inv
  OBVIOUS
<1>1. attempt = NoAttempt
  BY DEF Init, InboxInit
<1>2. View(site) \in Tab /\ View(site).at = "view" /\ ~View(site).rebuilt
  BY ViewType, ReviewAssumption DEF Init, Builds
<1>3. \A t \in Tabs : tab[t] = View(site)
  BY DEF Init
<1>4. ReviewTypeOK
  BY <1>1, <1>2, ReviewAssumption DEF Init, ReviewTypeOK, NoAttempt, NoRun, Builds
<1>5. AttemptIsRecord
  BY <1>1 DEF AttemptIsRecord, NoAttempt
<1>6. LockIsHeld
  BY <1>1, <1>2, <1>3, ReviewAssumption DEF LockIsHeld, NoAttempt
<1>7. SiteFollowsLog
  BY <1>1, <1>2, <1>3 DEF Init, SiteFollowsLog, NoAttempt, NoRun, Changed
<1>8. RebuiltMeansShown
  BY <1>2, <1>3 DEF RebuiltMeansShown
<1> QED BY <1>4, <1>5, <1>6, <1>7, <1>8 DEF Inv
\* A page that is loaded, asks, comes in or is answered, with nothing said to
\* be rebuilt.
LEMMA PageMoves ==
  ASSUME Inv, NEW t \in Tabs, NEW changed \in Tab, Changes(t, changed),
         changed.at \in {"view", "sent", "inside"}, ~changed.rebuilt,
         tab[t].at # "rebuilding",
         UNCHANGED <<cards, events, site, run, attempt>>,
         \/ UNCHANGED lock /\ changed.at # "inside"
         \/ lock = Nobody /\ lock' = t /\ changed.at = "inside"
         \/ tab[t].at = "inside" /\ lock' = Nobody /\ changed.at = "view"
  PROVE  Inv'
<1>1. /\ tab' \in [Tabs -> Tab] /\ tab'[t] = changed
      /\ \A u \in Tabs \ {t} : tab'[u] = tab[u]
  BY TabChanges DEF Inv, ReviewTypeOK
<1>2. ReviewTypeOK'
  BY <1>1 DEF Inv, ReviewTypeOK
<1>3. AttemptIsRecord'
  BY DEF Inv, AttemptIsRecord
<1>4. LockIsHeld'
  BY <1>1, ReviewAssumption DEF Inv, LockIsHeld
<1>5. SiteFollowsLog'
  BY <1>1 DEF Inv, SiteFollowsLog, Changed, LockIsHeld
<1>6. RebuiltMeansShown'
  BY <1>1 DEF Inv, RebuiltMeansShown
<1> QED BY <1>2, <1>3, <1>4, <1>5, <1>6 DEF Inv

LEMMA SendPreservesInv == ASSUME Inv, NEW t \in Tabs, SendReview(t) PROVE Inv'
<1>1. PICK card \in Cards, target \in Reviews :
        Changes(t, [View(tab[t].page) EXCEPT !.at = "sent", !.card = card, !.target = target])
  BY DEF SendReview
<1> DEFINE changed == [View(tab[t].page) EXCEPT !.at = "sent", !.card = card, !.target = target]
<1>2. tab[t].page \in Builds
  BY DEF Inv, ReviewTypeOK, Tab
<1>3. View(tab[t].page) \in Tab /\ ~View(tab[t].page).rebuilt
  BY <1>2, ViewType
<1>4. changed \in Tab /\ changed.at = "sent" /\ changed.rebuilt = View(tab[t].page).rebuilt
  <2> HIDE DEF View
  <2> QED BY <1>3 DEF Tab
<1> HIDE DEF changed
<1> QED BY <1>1, <1>3, <1>4, PageMoves DEF changed, SendReview, inboxVars

LEMMA EnterPreservesInv == ASSUME Inv, NEW t \in Tabs, EnterReview(t) PROVE Inv'
<1> DEFINE changed == [tab[t] EXCEPT !.at = "inside"]
<1>1. tab[t] \in Tab
  BY DEF Inv, ReviewTypeOK
<1>2. changed \in Tab /\ changed.at = "inside" /\ changed.rebuilt = tab[t].rebuilt
  BY <1>1 DEF Tab
<1>3. ~tab[t].rebuilt
  BY DEF Inv, SiteFollowsLog, EnterReview
<1> HIDE DEF changed
<1> QED BY <1>2, <1>3, PageMoves DEF changed, EnterReview, inboxVars
\* The entry that is written starts from the last one for its card.
LEMMA ChangePreservesInv == ASSUME Inv, NEW t \in Tabs, ChangeReview(t) PROVE Inv'
<1> DEFINE entry == [card |-> tab[t].card, to |-> tab[t].target, from |-> Current(tab[t].card)]
           changed == [tab[t] EXCEPT !.at = "committed", !.change = Len(events')]
<1>1. /\ tab[t] \in Tab /\ tab \in [Tabs -> Tab]
      /\ events \in Seq(Change) /\ Len(events) \in Nat /\ Len(events) < MaxChanges
  BY DEF Inv, ReviewTypeOK, ChangeReview
<1>2. entry \in Change
  <2>1. Current(tab[t].card) \in Reviews
    BY <1>1, ReviewType DEF Current
  <2>2. tab[t].card \in Cards
    BY DEF Inv, ReviewTypeOK, ChangeReview
  <2> QED BY <1>1, <2>1, <2>2 DEF Change, Tab
<1>3. events' = Append(events, entry)
  BY DEF ChangeReview, Appended
<1>4. events' \in Seq(Change) /\ Len(events') = Len(events) + 1 /\ Len(events') \in 1 .. MaxChanges
  <2> HIDE DEF entry
  <2> QED BY <1>1, <1>2, <1>3, ReviewAssumption
<1>5. changed \in Tab /\ changed.at = "committed" /\ changed.change = Len(events')
      /\ changed.rebuilt = tab[t].rebuilt
  <2> DEFINE n == Len(events')
  <2>1. n \in 0 .. MaxChanges
    BY <1>4, ReviewAssumption
  <2> HIDE DEF n
  <2>2. [tab[t] EXCEPT !.at = "committed", !.change = n] \in Tab
    BY <1>1, <2>1 DEF Tab
  <2>3. changed = [tab[t] EXCEPT !.at = "committed", !.change = n]
    BY DEF n
  <2> QED BY <1>1, <2>2, <2>3 DEF Tab, n
<1>6. /\ tab' \in [Tabs -> Tab] /\ tab'[t] = changed
      /\ \A u \in Tabs \ {t} : tab'[u] = tab[u]
  <2> HIDE DEF changed
  <2> QED BY <1>1, <1>5, TabChanges DEF ChangeReview, changed
<1>7. tab[t].at = "inside" /\ lock = t /\ lock' = Nobody /\ ~tab[t].rebuilt
      /\ UNCHANGED <<cards, site, run, attempt>>
  BY DEF Inv, LockIsHeld, SiteFollowsLog, ChangeReview, inboxVars
<1> HIDE DEF changed, entry
<1>8. ReviewTypeOK'
  BY <1>4, <1>6, <1>7, ReviewAssumption DEF Inv, ReviewTypeOK
<1>9. AttemptIsRecord'
  BY <1>7 DEF Inv, AttemptIsRecord
<1>10. LockIsHeld'
  BY <1>5, <1>6, <1>7, ReviewAssumption DEF Inv, LockIsHeld
<1>11. SiteFollowsLog'
  <2>1. site \in Nat /\ run.built \in Nat
    BY ReviewAssumption DEF Inv, ReviewTypeOK, Builds
  <2>2. \A u \in Tabs : tab[u].change \in Nat
    BY ReviewAssumption DEF Inv, ReviewTypeOK, Tab
  <2>3. attempt.by # t
    BY <1>7 DEF Inv, LockIsHeld
  <2>4. \A u \in Tabs : Changed(u)' => tab'[u].change \in 1 .. Len(events')
    BY <1>1, <1>4, <1>5, <1>6, <1>7, <2>2 DEF Inv, SiteFollowsLog, Changed
  <2>5. \A u \in Tabs : tab'[u].rebuilt => tab'[u].at = "view"
    BY <1>5, <1>6, <1>7 DEF Inv, SiteFollowsLog
  <2> QED BY <1>1, <1>4, <1>6, <1>7, <2>1, <2>2, <2>3, <2>4, <2>5 DEF Inv, SiteFollowsLog
<1>12. RebuiltMeansShown'
  BY <1>5, <1>6, <1>7 DEF Inv, RebuiltMeansShown
<1> QED BY <1>8, <1>9, <1>10, <1>11, <1>12 DEF Inv

\* The change stays where it is while its page asks for a rebuild ...
LEMMA AskPreservesInv == ASSUME Inv, NEW t \in Tabs, AskRebuild(t) PROVE Inv'
<1> DEFINE changed == [tab[t] EXCEPT !.at = "asking"]
<1>1. tab[t] \in Tab /\ tab \in [Tabs -> Tab] /\ tab[t].page \in Builds
  BY DEF Inv, ReviewTypeOK, Tab
<1>2. changed \in Tab /\ changed.at = "asking" /\ changed.change = tab[t].change
      /\ changed.rebuilt = tab[t].rebuilt
  BY <1>1 DEF Tab
<1>3. tab[t].at = "committed" /\ ~tab[t].rebuilt /\ UNCHANGED <<cards, events, site, lock, run, attempt>>
  BY DEF Inv, SiteFollowsLog, AskRebuild
<1>4. CASE Changes(t, changed)
  <2> HIDE DEF changed
  <2>1. /\ tab' \in [Tabs -> Tab] /\ tab'[t] = changed
        /\ \A u \in Tabs \ {t} : tab'[u] = tab[u]
    BY <1>1, <1>2, <1>4, TabChanges
  <2>2. ReviewTypeOK'
    BY <1>3, <2>1 DEF Inv, ReviewTypeOK
  <2>3. AttemptIsRecord'
    BY <1>3 DEF Inv, AttemptIsRecord
  <2>4. LockIsHeld'
    BY <1>2, <1>3, <2>1 DEF Inv, LockIsHeld
  <2>5. SiteFollowsLog'
    BY <1>2, <1>3, <2>1 DEF Inv, SiteFollowsLog, Changed
  <2>6. RebuiltMeansShown'
    BY <1>2, <1>3, <2>1 DEF Inv, RebuiltMeansShown
  <2> QED BY <2>2, <2>3, <2>4, <2>5, <2>6 DEF Inv
<1>5. CASE Answer(t)
  <2>1. View(tab[t].page) \in Tab /\ View(tab[t].page).at = "view" /\ ~View(tab[t].page).rebuilt
    BY <1>1, ViewType
  <2> QED BY <1>3, <1>5, <2>1, PageMoves DEF Answer
<1> QED BY <1>4, <1>5 DEF AskRebuild

\* ... and while it waits for the attempt it makes.
LEMMA RebuildPreservesInv == ASSUME Inv, NEW t \in Tabs, BeginRebuild(t) PROVE Inv'
<1> DEFINE changed == [tab[t] EXCEPT !.at = "rebuilding"]
<1>1. tab[t] \in Tab /\ tab \in [Tabs -> Tab] /\ tab[t].page \in Builds
  BY DEF Inv, ReviewTypeOK, Tab
<1>2. changed \in Tab /\ changed.at = "rebuilding" /\ changed.change = tab[t].change
      /\ changed.rebuilt = tab[t].rebuilt
  BY <1>1 DEF Tab
<1>3. tab[t].at = "asking" /\ ~tab[t].rebuilt /\ UNCHANGED <<cards, events, site, lock, run>>
  BY DEF Inv, SiteFollowsLog, BeginRebuild
<1>4. CASE BeginAttempt(t) /\ Changes(t, changed)
  <2>1. attempt.at = "idle" /\ attempt'.at = "begun" /\ attempt'.by = t /\ AttemptIsRecord'
    BY <1>4 DEF BeginAttempt, AttemptIsRecord
  <2> HIDE DEF changed
  <2>2. /\ tab' \in [Tabs -> Tab] /\ tab'[t] = changed
        /\ \A u \in Tabs \ {t} : tab'[u] = tab[u]
    BY <1>1, <1>2, <1>4, TabChanges
  <2>3. ReviewTypeOK'
    BY <1>3, <2>1, <2>2 DEF Inv, ReviewTypeOK
  <2>4. LockIsHeld'
    BY <1>2, <1>3, <2>1, <2>2, ReviewAssumption DEF Inv, LockIsHeld
  <2>5. SiteFollowsLog'
    BY <1>2, <1>3, <2>1, <2>2 DEF Inv, SiteFollowsLog, Changed, ReviewTypeOK
  <2>6. RebuiltMeansShown'
    BY <1>2, <1>3, <2>2 DEF Inv, RebuiltMeansShown
  <2> QED BY <2>1, <2>3, <2>4, <2>5, <2>6 DEF Inv
<1>5. CASE BeginRaises /\ Answer(t)
  <2>1. View(tab[t].page) \in Tab /\ View(tab[t].page).at = "view" /\ ~View(tab[t].page).rebuilt
    BY <1>1, ViewType
  <2> QED BY <1>3, <1>5, <2>1, PageMoves DEF Answer, BeginRaises
<1> QED BY <1>4, <1>5 DEF BeginRebuild

\* An attempt goes on: it holds the project lock until the run is over.
LEMMA WatcherPreservesInv == ASSUME Inv, BeginAttempt(Watcher), UNCHANGED reviewVars PROVE Inv'
<1>1. attempt.at = "idle" /\ attempt'.at = "begun" /\ attempt'.by = Watcher /\ AttemptIsRecord'
  BY DEF BeginAttempt, AttemptIsRecord
<1>2. UNCHANGED <<cards, events, site, lock, run, tab>>
  BY DEF reviewVars
<1>3. ReviewTypeOK'
  BY <1>1, <1>2 DEF Inv, ReviewTypeOK
<1>4. LockIsHeld'
  BY <1>1, <1>2, ReviewAssumption DEF Inv, LockIsHeld
<1>5. SiteFollowsLog'
  BY <1>1, <1>2, ReviewAssumption DEF Inv, SiteFollowsLog, Changed, ReviewTypeOK
<1>6. RebuiltMeansShown'
  BY <1>2 DEF Inv, RebuiltMeansShown
<1> QED BY <1>1, <1>3, <1>4, <1>5, <1>6 DEF Inv

LEMMA TakeLockPreservesInv == ASSUME Inv, TakeLock PROVE Inv'
<1>1. /\ attempt.at = "begun" /\ lock = Nobody /\ lock' = attempt.by
      /\ UNCHANGED <<cards, events, site, run, tab>>
  BY DEF TakeLock, RunGoes
<1>2. attempt'.at = "locked" /\ attempt'.by = attempt.by /\ AttemptIsRecord'
  BY AttemptGoes DEF Inv, TakeLock, RunGoes
<1>3. ReviewTypeOK'
  BY <1>1, <1>2 DEF Inv, ReviewTypeOK
<1>4. LockIsHeld'
  BY <1>1, <1>2, ReviewAssumption DEF Inv, LockIsHeld
<1>5. SiteFollowsLog'
  BY <1>1, <1>2 DEF Inv, SiteFollowsLog, Changed
<1>6. RebuiltMeansShown'
  BY <1>1 DEF Inv, RebuiltMeansShown
<1> QED BY <1>2, <1>3, <1>4, <1>5, <1>6 DEF Inv

\* No handler is inside while a run holds the lock.
LEMMA NobodyInside ==
  ASSUME Inv, attempt.at \in {"locked", "built"}
  PROVE  \A t \in Tabs : tab[t].at # "inside"
BY DEF Inv, LockIsHeld

LEMMA RunFailsPreservesInv == ASSUME Inv, RunFails PROVE Inv'
<1>1. /\ attempt.at \in {"begun", "locked", "built"}
      /\ lock' = IF attempt.at = "begun" THEN lock ELSE Nobody
      /\ UNCHANGED <<cards, events, site, run, tab>>
  BY DEF RunFails, RunGoes
<1>2. attempt'.at \in {"ran", "raised"} /\ attempt'.by = attempt.by /\ AttemptIsRecord'
  BY AttemptGoes DEF Inv, RunFails, RunGoes
<1>3. ReviewTypeOK'
  BY <1>1, <1>2 DEF Inv, ReviewTypeOK
<1>4. LockIsHeld'
  BY <1>1, <1>2, NobodyInside DEF Inv, LockIsHeld
<1>5. SiteFollowsLog'
  BY <1>1, <1>2 DEF Inv, SiteFollowsLog, Changed
<1>6. RebuiltMeansShown'
  BY <1>1 DEF Inv, RebuiltMeansShown
<1> QED BY <1>2, <1>3, <1>4, <1>5, <1>6 DEF Inv

\* The build has read all of the log, the change it was asked for included.
LEMMA BuildPreservesInv == ASSUME Inv, BuildSite PROVE Inv'
<1>1. /\ attempt.at = "locked" /\ cards' \subseteq Cards
      /\ run' = [run EXCEPT !.built = Len(events)]
      /\ UNCHANGED <<events, site, lock, tab>>
  BY DEF BuildSite, RunGoes
<1>2. attempt'.at = "built" /\ attempt'.by = attempt.by /\ AttemptIsRecord'
  BY AttemptGoes DEF Inv, BuildSite, RunGoes
<1>3. /\ run \in [built : Builds, ok : BOOLEAN]
      /\ events \in Seq(Change) /\ Len(events) \in 0 .. MaxChanges
  BY ReviewAssumption DEF Inv, ReviewTypeOK
<1>4. run' \in [built : Builds, ok : BOOLEAN] /\ run'.built = Len(events) /\ run'.ok = run.ok
  BY <1>1, <1>3 DEF Builds
<1>5. ReviewTypeOK'
  BY <1>1, <1>2, <1>4 DEF Inv, ReviewTypeOK
<1>6. LockIsHeld'
  BY <1>1, <1>2 DEF Inv, LockIsHeld
<1>7. SiteFollowsLog'
  <2>1. ~run.ok
    BY <1>1 DEF Inv, SiteFollowsLog
  <2> QED BY <1>1, <1>2, <1>3, <1>4, <2>1 DEF Inv, SiteFollowsLog, Changed, LockIsHeld
<1>8. RebuiltMeansShown'
  BY <1>1 DEF Inv, RebuiltMeansShown
<1> QED BY <1>2, <1>5, <1>6, <1>7, <1>8 DEF Inv

LEMMA PublishPreservesInv == ASSUME Inv, PublishSite PROVE Inv'
<1>1. /\ attempt.at = "built" /\ site' = run.built /\ lock' = Nobody
      /\ run' = [run EXCEPT !.ok = TRUE]
      /\ UNCHANGED <<events, cards, tab>>
  BY DEF PublishSite, RunGoes
<1>2. attempt'.at = "ran" /\ attempt'.by = attempt.by /\ AttemptIsRecord'
  BY AttemptGoes DEF Inv, PublishSite, RunGoes
<1>3. run' \in [built : Builds, ok : BOOLEAN] /\ run'.built = run.built /\ run.built \in Nat
      /\ site \in Nat /\ site <= site'
  <2>1. run \in [built : Builds, ok : BOOLEAN] /\ Builds \subseteq Nat /\ site \in Nat
    BY ReviewAssumption DEF Inv, ReviewTypeOK, Builds
  <2>2. run' \in [built : Builds, ok : BOOLEAN] /\ run'.built = run.built
    BY <1>1, <2>1
  <2>3. site <= run.built
    BY <1>1 DEF Inv, SiteFollowsLog
  <2> QED BY <1>1, <2>1, <2>2, <2>3
<1>4. ReviewTypeOK'
  BY <1>1, <1>2, <1>3 DEF Inv, ReviewTypeOK
<1>5. LockIsHeld'
  BY <1>1, <1>2, NobodyInside DEF Inv, LockIsHeld
<1>6. SiteFollowsLog'
  BY <1>1, <1>2, <1>3 DEF Inv, SiteFollowsLog, Changed
<1>7. RebuiltMeansShown'
  <2>1. \A t \in Tabs : tab[t].change \in Nat
    BY ReviewAssumption DEF Inv, ReviewTypeOK, Tab
  <2>2. \A t \in Tabs : tab[t].rebuilt => tab[t].change \in 1 .. site
    BY DEF Inv, RebuiltMeansShown
  <2>3. site' \in Nat
    BY <1>1, <1>3
  <2>4. \A t \in Tabs : tab[t].rebuilt => tab[t].change \in 1 .. site'
    BY <1>3, <2>1, <2>2, <2>3
  <2> QED BY <1>1, <2>4 DEF RebuiltMeansShown
<1> QED BY <1>2, <1>4, <1>5, <1>6, <1>7 DEF Inv

LEMMA ReadPreservesInv == ASSUME Inv, ReadCandidates, UNCHANGED reviewVars PROVE Inv'
<1>1. attempt.at = "ran" /\ UNCHANGED <<cards, events, site, lock, run, tab>>
  BY DEF ReadCandidates, reviewVars
<1>2. attempt'.at = "settling" /\ attempt'.by = attempt.by /\ AttemptIsRecord'
  BY AttemptGoes DEF Inv, ReadCandidates
<1>3. ReviewTypeOK'
  BY <1>1, <1>2 DEF Inv, ReviewTypeOK
<1>4. LockIsHeld'
  BY <1>1, <1>2 DEF Inv, LockIsHeld
<1>5. SiteFollowsLog'
  BY <1>1, <1>2 DEF Inv, SiteFollowsLog, Changed
<1>6. RebuiltMeansShown'
  BY <1>1 DEF Inv, RebuiltMeansShown
<1> QED BY <1>2, <1>3, <1>4, <1>5, <1>6 DEF Inv

LEMMA IdleAttempt ==
  ASSUME attempt' = NoAttempt
  PROVE  /\ attempt'.at = "idle" /\ attempt'.by = Nobody /\ AttemptIsRecord'
BY DEF NoAttempt, AttemptIsRecord
\* The page gets its answer; if it says that all is rebuilt, the run went well
\* and has published a build that was made after the change.
LEMMA TellPreservesInv ==
  ASSUME Inv, attempt.at \notin {"idle", "locked", "built"}, attempt' = NoAttempt, run' = NoRun,
         UNCHANGED <<cards, events, site, lock>>,
         NEW rebuilt \in BOOLEAN, rebuilt => run.ok, Tell(rebuilt)
  PROVE  Inv'
<1>1. attempt'.at = "idle" /\ attempt'.by = Nobody /\ AttemptIsRecord'
  BY IdleAttempt
<1>2. /\ tab' \in [Tabs -> Tab]
      /\ \A u \in Tabs :
           \/ tab'[u] = tab[u] /\ u # attempt.by
           \/ /\ u = attempt.by /\ tab'[u].at = "view"
              /\ tab'[u].change = tab[u].change
              /\ tab'[u].rebuilt => run.ok
  <2>1. CASE attempt.by \in Tabs
    <3> DEFINE t == attempt.by
               seen == View(tab[t].page)
               changed == [seen EXCEPT !.change = tab[t].change, !.rebuilt = rebuilt]
    <3>1. tab[t] \in Tab /\ tab \in [Tabs -> Tab]
      BY <2>1 DEF Inv, ReviewTypeOK
    <3>2. seen \in Tab /\ seen.at = "view"
      BY <3>1, ViewType DEF Tab
    <3>3. Changes(t, changed)
      BY <2>1 DEF Tell
    <3> HIDE DEF t, seen
    <3>4. changed \in Tab /\ changed.at = "view" /\ changed.change = tab[t].change
          /\ changed.rebuilt = rebuilt
      BY <3>1, <3>2 DEF Tab
    <3> HIDE DEF changed
    <3>5. /\ tab' \in [Tabs -> Tab] /\ tab'[t] = changed
          /\ \A u \in Tabs \ {t} : tab'[u] = tab[u]
      BY <2>1, <3>1, <3>3, <3>4, TabChanges DEF t
    <3> QED BY <3>4, <3>5 DEF t
  <2>2. CASE attempt.by \notin Tabs
    BY <2>2 DEF Tell, Inv, ReviewTypeOK
  <2> QED BY <2>1, <2>2
<1>3. ReviewTypeOK'
  BY <1>1, <1>2, ReviewAssumption DEF Inv, ReviewTypeOK, NoRun, Builds
<1>4. LockIsHeld'
  BY <1>1, <1>2, ReviewAssumption DEF Inv, LockIsHeld
<1>5. \A u \in Tabs :
        /\ Changed(u)' => Changed(u) /\ tab'[u].change = tab[u].change
        /\ tab'[u].rebuilt => tab'[u].at = "view"
  BY <1>2 DEF Inv, SiteFollowsLog, Changed
<1>6. SiteFollowsLog'
  BY <1>1, <1>5, ReviewAssumption DEF Inv, SiteFollowsLog, NoRun, ReviewTypeOK
<1>7. RebuiltMeansShown'
  <2> SUFFICES ASSUME NEW u \in Tabs, tab'[u].rebuilt PROVE tab'[u].change \in 1 .. site
    BY DEF RebuiltMeansShown
  <2>1. CASE tab'[u] = tab[u]
    BY <2>1 DEF Inv, RebuiltMeansShown
  <2>2. CASE tab'[u] # tab[u]
    <3>1. u = attempt.by /\ tab'[u].change = tab[u].change /\ run.ok
      BY <1>2, <2>2
    <3>2. Changed(u)
      BY <3>1 DEF Inv, LockIsHeld, Changed
    <3>3. tab[u].change \in 1 .. Len(events) /\ tab[u].change <= site
      BY <3>1, <3>2 DEF Inv, SiteFollowsLog
    <3>4. site \in Nat
      BY ReviewAssumption DEF Inv, ReviewTypeOK, Builds
    <3> QED BY <3>1, <3>3, <3>4
  <2> QED BY <2>1, <2>2
<1> QED BY <1>1, <1>3, <1>4, <1>6, <1>7 DEF Inv

LEMMA SettlePreservesInv == ASSUME Inv, NEW ok \in BOOLEAN, Settle(ok) PROVE Inv'
<1>1. /\ attempt.at \in {"settling", "raised"} /\ UNCHANGED <<cards, events, site, lock>>
      /\ \/ attempt' = NoAttempt
         \/ \E at \in {"settled", "raised"} : attempt' = [attempt EXCEPT !.at = at]
  BY DEF Settle, SettleReceipts, AfterSettling
<1>2. CASE attempt' = NoAttempt
  BY <1>1, <1>2, TellPreservesInv DEF Settle
<1>3. CASE attempt' # NoAttempt
  <2>1. PICK at \in {"settled", "raised"} : attempt' = [attempt EXCEPT !.at = at]
    BY <1>1, <1>3
  <2>2. attempt'.at = at /\ attempt'.by = attempt.by /\ AttemptIsRecord'
    BY <2>1, AttemptGoes DEF Inv
  <2>3. at = "raised" => ~ok
    BY <1>1, <2>2 DEF Settle, SettleReceipts, AfterSettling, Inv, AttemptIsRecord
  <2>4. /\ run' = [run EXCEPT !.ok = @ /\ ok /\ ~RetryableLeft] /\ UNCHANGED tab
        /\ run \in [built : Builds, ok : BOOLEAN]
    BY <1>3 DEF Settle, Inv, ReviewTypeOK
  <2>5. /\ run' \in [built : Builds, ok : BOOLEAN] /\ run'.built = run.built
        /\ run'.ok => run.ok /\ ok
    BY <2>4 DEF RetryableLeft
  <2>6. ReviewTypeOK'
    BY <1>1, <2>2, <2>4, <2>5 DEF Inv, ReviewTypeOK
  <2>7. LockIsHeld'
    BY <1>1, <2>2, <2>4 DEF Inv, LockIsHeld
  <2>8. SiteFollowsLog'
    BY <1>1, <2>2, <2>3, <2>4, <2>5 DEF Inv, SiteFollowsLog, Changed
  <2>9. RebuiltMeansShown'
    BY <1>1, <2>4 DEF Inv, RebuiltMeansShown
  <2> QED BY <2>2, <2>6, <2>7, <2>8, <2>9 DEF Inv
<1> QED BY <1>2, <1>3

LEMMA EndPreservesInv == ASSUME Inv, NEW ok \in BOOLEAN, EndAttempt(ok) PROVE Inv'
<1>1. run.ok \in BOOLEAN
  BY DEF Inv, ReviewTypeOK
<1>2. (ok /\ run.ok) \in BOOLEAN /\ (ok /\ run.ok => run.ok)
  BY <1>1
<1> QED BY <1>2, TellPreservesInv DEF EndAttempt

\* The server starts anew: no handler, no attempt, no lock.
LEMMA RestartPreservesInv == ASSUME Inv, Restart PROVE Inv'
<1>1. /\ run' = NoRun /\ lock' = Nobody /\ UNCHANGED <<cards, events, site>>
      /\ attempt' = NoAttempt
      /\ tab' = [t \in Tabs |-> IF tab[t].at = "view" THEN tab[t] ELSE View(tab[t].page)]
  BY DEF Restart, RestartServer
<1>2. attempt'.at = "idle" /\ attempt'.by = Nobody /\ AttemptIsRecord'
  BY <1>1, IdleAttempt
<1>3. \A t \in Tabs : tab[t] \in Tab /\ tab[t].page \in Builds
  BY DEF Inv, ReviewTypeOK, Tab
<1>4. \A t \in Tabs :
        /\ tab'[t] \in Tab /\ tab'[t].at = "view"
        /\ tab'[t].rebuilt => tab'[t] = tab[t]
  BY <1>1, <1>3, ViewType
<1>5. tab' \in [Tabs -> Tab]
  BY <1>1, <1>4
<1>6. ReviewTypeOK'
  BY <1>1, <1>2, <1>5, ReviewAssumption DEF Inv, ReviewTypeOK, NoRun, Builds
<1>7. LockIsHeld'
  BY <1>1, <1>2, <1>4, ReviewAssumption DEF LockIsHeld
<1>8. SiteFollowsLog'
  BY <1>1, <1>2, <1>4, ReviewAssumption DEF Inv, SiteFollowsLog, NoRun, ReviewTypeOK, Changed
<1>9. RebuiltMeansShown'
  BY <1>1, <1>4 DEF Inv, RebuiltMeansShown
<1> QED BY <1>2, <1>6, <1>7, <1>8, <1>9 DEF Inv

\* Nothing else matters to it: requests of the inbox, and steps of nobody.
LEMMA StutterPreservesInv == ASSUME Inv, UNCHANGED <<attempt, reviewVars>> PROVE Inv'
<1>1. UNCHANGED <<attempt, cards, events, site, lock, run, tab>>
  BY DEF reviewVars
<1> QED BY <1>1 DEF Inv, ReviewTypeOK, AttemptIsRecord, LockIsHeld, SiteFollowsLog, Changed,
               RebuiltMeansShown

LEMMA RequestKeepsAttempt ==
  ASSUME NEW u \in Uploads, RequestStep(u)
  PROVE  UNCHANGED <<attempt, settled, restarts>>
BY DEF RequestStep, Arrive, MakeStaging, Complete, Move, Refuse, CleanupFails, Record

\* Neither pages nor attempts touch a request.
LEMMA RequestsAreLeftAlone ==
  ASSUME (\E t \in Tabs : PageStep(t)) \/ AttemptStep
  PROVE  UNCHANGED <<requestVars, restarts>>
<1>1. ASSUME NEW t \in Tabs, PageStep(t) PROVE UNCHANGED <<requestVars, restarts>>
  BY <1>1 DEF PageStep, LoadPage, SendReview, Rejected, EnterReview, ChangeReview, RefuseReview,
              AskRebuild, RunUnderWay, BeginRebuild, BeginAttempt, BeginRaises, inboxVars, requestVars
<1>2. ASSUME AttemptStep PROVE UNCHANGED <<requestVars, restarts>>
  BY <1>2 DEF AttemptStep, WatcherBegins, BeginAttempt, BeginRaises, TakeLock, RunFails, BuildSite,
              PublishSite, ReadCandidates, Settle, SettleReceipts, EndAttempt, RunGoes, requestVars
<1> QED BY <1>1, <1>2

LEMMA NextInv == Inv /\ [Next]_vars => Inv'
<1> SUFFICES ASSUME Inv, [Next]_vars PROVE Inv'
  OBVIOUS
<1>1. ASSUME NEW u \in Uploads, RequestStep(u), UNCHANGED reviewVars PROVE Inv'
  BY <1>1, RequestKeepsAttempt, StutterPreservesInv
<1>2. ASSUME NEW t \in Tabs, PageStep(t) PROVE Inv'
  <2>1. /\ \A page \in Builds : View(page) \in Tab /\ View(page).at = "view" /\ ~View(page).rebuilt
        /\ site \in Builds /\ tab[t].page \in Builds
    BY ViewType DEF Inv, ReviewTypeOK, Tab
  <2>2. CASE LoadPage(t)
    BY <2>1, <2>2, PageMoves DEF LoadPage, inboxVars
  <2>3. CASE SendReview(t)
    BY <2>3, SendPreservesInv
  <2>4. CASE Rejected(t)
    BY <2>1, <2>4, PageMoves DEF Rejected, Answer, inboxVars
  <2>5. CASE EnterReview(t)
    BY <2>5, EnterPreservesInv
  <2>6. CASE ChangeReview(t)
    BY <2>6, ChangePreservesInv
  <2>7. CASE RefuseReview(t)
    BY <2>1, <2>7, PageMoves DEF RefuseReview, Answer, inboxVars
  <2>8. CASE AskRebuild(t)
    BY <2>8, AskPreservesInv
  <2>9. CASE RunUnderWay(t)
    BY <2>1, <2>9, PageMoves DEF RunUnderWay, Answer, inboxVars
  <2>10. CASE BeginRebuild(t)
    BY <2>10, RebuildPreservesInv
  <2> QED BY <1>2, <2>2, <2>3, <2>4, <2>5, <2>6, <2>7, <2>8, <2>9, <2>10 DEF PageStep
<1>3. CASE AttemptStep
  <2>1. CASE WatcherBegins
    BY <2>1, WatcherPreservesInv, StutterPreservesInv DEF WatcherBegins, BeginRaises
  <2>2. ASSUME NEW ok \in BOOLEAN, Settle(ok) \/ EndAttempt(ok) PROVE Inv'
    BY <2>2, SettlePreservesInv, EndPreservesInv
  <2> QED BY <1>3, <2>1, <2>2, TakeLockPreservesInv, RunFailsPreservesInv, BuildPreservesInv,
             PublishPreservesInv, ReadPreservesInv DEF AttemptStep
<1>4. CASE Restart
  BY <1>4, RestartPreservesInv
<1>5. CASE UNCHANGED vars
  BY <1>5, StutterPreservesInv DEF vars, inboxVars
<1> QED BY <1>1, <1>2, <1>3, <1>4, <1>5 DEF Next

LEMMA Invariance == Spec => []Inv
<1>1. Inv /\ [Next]_vars => Inv'
  BY NextInv
<1> QED BY <1>1, InitInv, PTL DEF Spec
-----------------------------------------------------------------------------
(* What the review log promises.                                           *)

\* The pages, the log, the run and the lock keep their types (ReviewLog).
THEOREM ReviewTypeCorrect == Spec => []ReviewTypeOK
<1>1. Inv => ReviewTypeOK
  BY DEF Inv
<1> QED BY <1>1, Invariance, PTL

\* A page is told that its change is on the site only when it is
\* (_receive_review of ManagerRequestHandler).
THEOREM RebuiltIsShown == Spec => []RebuiltMeansShown
<1>1. Inv => RebuiltMeansShown
  BY DEF Inv
<1> QED BY <1>1, Invariance, PTL

\* Only ChangeReview writes the log, one entry at a time.
LEMMA LogGrows ==
  ASSUME [Next]_vars, events' # events
  PROVE  \E t \in Tabs : ChangeReview(t)
<1>1. ASSUME NEW u \in Uploads, RequestStep(u), UNCHANGED reviewVars PROVE FALSE
  BY <1>1 DEF reviewVars
<1>2. ASSUME NEW t \in Tabs, PageStep(t) PROVE ChangeReview(t)
  BY <1>2 DEF PageStep, LoadPage, SendReview, Rejected, EnterReview, RefuseReview, AskRebuild,
              RunUnderWay, BeginRebuild
<1>3. ~AttemptStep
  BY DEF AttemptStep, WatcherBegins, TakeLock, RunFails, BuildSite, PublishSite, Settle, EndAttempt,
         RunGoes, reviewVars
<1>4. ~Restart
  BY DEF Restart
<1>5. ~UNCHANGED vars
  BY DEF vars, reviewVars
<1> QED BY <1>1, <1>2, <1>3, <1>4, <1>5 DEF Next

\* The log is an audit trail without gaps (change_document_review,
\* storage/reviews.py).
THEOREM LogIsAChain == Spec => []AuditIsAChain
<1>1. Init => AuditIsAChain
  BY DEF Init, AuditIsAChain
<1>2. ASSUME Inv, AuditIsAChain, [Next]_vars PROVE AuditIsAChain'
  <2>1. CASE events' = events
    BY <1>2, <2>1 DEF AuditIsAChain
  <2>2. CASE events' # events
    <3>1. PICK t \in Tabs : ChangeReview(t)
      BY <1>2, <2>2, LogGrows
    <3> DEFINE entry == [card |-> tab[t].card, to |-> tab[t].target,
                         from |-> Current(tab[t].card)]
    <3>2. /\ events' = Append(events, entry) /\ events \in Seq(Change)
          /\ Len(events) \in Nat /\ tab[t] \in Tab /\ tab[t].card \in Cards
          /\ tab[t].target # Current(tab[t].card)
      BY <1>2, <3>1 DEF ChangeReview, Appended, Inv, ReviewTypeOK
    <3>3. entry \in Change
      <4>1. Current(tab[t].card) \in Reviews
        BY <3>2, ReviewType DEF Current
      <4> QED BY <3>2, <4>1 DEF Change, Tab
    <3>4. entry.card = tab[t].card /\ entry.from = Current(tab[t].card) /\ entry.to # entry.from
      BY <3>2
    <3> HIDE DEF entry
    <3>5. Len(events') = Len(events) + 1
          /\ \A k \in 1 .. Len(events) : events'[k] = events[k]
          /\ events'[Len(events) + 1] = entry
      BY <3>2, <3>3
    <3>6. \A n \in 0 .. Len(events), card \in Cards :
            ReviewAfter(events', n, card) = ReviewAfter(events, n, card)
      BY <3>2, <3>3, ReviewIsKept
    <3>7. ASSUME NEW k \in DOMAIN events'
          PROVE  /\ events'[k].from = ReviewAfter(events', k - 1, events'[k].card)
                 /\ events'[k].to # events'[k].from
      <4>1. k \in 1 .. Len(events) + 1
        BY <3>2, <3>3, <3>5
      <4>2. CASE k = Len(events) + 1
        BY <3>2, <3>4, <3>5, <3>6, <4>2 DEF Current
      <4>3. CASE k # Len(events) + 1
        <5>1. k \in DOMAIN events /\ k - 1 \in 0 .. Len(events) /\ events'[k] = events[k]
          <6>1. k \in 1 .. Len(events) /\ k - 1 \in 0 .. Len(events)
            BY <3>2, <4>1, <4>3
          <6>2. DOMAIN events = 1 .. Len(events)
            BY <3>2
          <6> QED BY <3>5, <6>1, <6>2
        <5>2. events[k].card \in Cards
          <6>1. events[k] \in Change
            BY <3>2, <5>1
          <6> QED BY <6>1 DEF Change
        <5> QED BY <1>2, <3>6, <5>1, <5>2 DEF AuditIsAChain
      <4> QED BY <4>1, <4>2, <4>3
    <3> QED BY <3>7 DEF AuditIsAChain
  <2> QED BY <2>1, <2>2
<1>3. Inv /\ AuditIsAChain /\ [Next]_vars => AuditIsAChain'
  BY <1>2
<1> QED BY <1>1, <1>3, Invariance, PTL DEF Spec
-----------------------------------------------------------------------------
(* The upload slots.                                                       *)

Held == {u \in Uploads : req[u] \in Holding}
Stuck == {u \in Uploads : req[u] = "refused" /\ staging[u] # "none"}

SlotsInv == StagingIsOwned /\ SlotsAreAccountedFor

LEMMA UploadSetsAreFinite == IsFiniteSet(Held) /\ IsFiniteSet(Stuck) /\ IsFiniteSet(Held') /\ IsFiniteSet(Stuck')
BY FS_Subset, InboxAssumption DEF Held, Stuck

LEMMA SlotsInit == Init => SlotsInv
<1> SUFFICES ASSUME Init PROVE SlotsInv
  OBVIOUS
<1>1. StagingIsOwned
  BY InboxAssumption DEF Init, InboxInit, StagingIsOwned, Places
<1>2. Held = {} /\ Stuck = {} /\ slots = Slots
  BY DEF Init, InboxInit, Held, Stuck, Holding
<1> QED BY <1>1, <1>2, FS_EmptySet, InboxAssumption DEF SlotsInv, SlotsAreAccountedFor, Held, Stuck

\* A request that takes a slot, keeps it, gives it back or gets stuck with it.
LEMMA SlotMoves ==
  ASSUME SlotsInv, NEW u \in Uploads,
         \/ Held' = Held /\ Stuck' = Stuck /\ slots' = slots
         \/ u \notin Held /\ Held' = Held \cup {u} /\ Stuck' = Stuck /\ slots' = slots - 1
         \/ u \in Held /\ Held' = Held \ {u} /\ Stuck' = Stuck /\ slots' = slots + 1
         \/ /\ u \in Held /\ Held' = Held \ {u} /\ slots' = slots
            /\ u \notin Stuck /\ Stuck' = Stuck \cup {u}
  PROVE  SlotsAreAccountedFor'
<1>1. /\ Cardinality(Held) \in Nat /\ Cardinality(Stuck) \in Nat
      /\ Cardinality(Held \cup {u}) = IF u \in Held THEN Cardinality(Held) ELSE Cardinality(Held) + 1
      /\ Cardinality(Held \ {u}) = IF u \in Held THEN Cardinality(Held) - 1 ELSE Cardinality(Held)
      /\ Cardinality(Stuck \cup {u}) = IF u \in Stuck THEN Cardinality(Stuck) ELSE Cardinality(Stuck) + 1
  BY UploadSetsAreFinite, FS_CardinalityType, FS_AddElement, FS_RemoveElement
<1>2. slots \in Nat /\ Cardinality(Held) + Cardinality(Stuck) + slots = Slots
  BY DEF SlotsInv, StagingIsOwned, SlotsAreAccountedFor, Held, Stuck
<1>3. Cardinality(Held') + Cardinality(Stuck') + slots' = Slots
  <2>1. CASE Held' = Held /\ Stuck' = Stuck /\ slots' = slots
    BY <1>2, <2>1
  <2>2. CASE u \notin Held /\ Held' = Held \cup {u} /\ Stuck' = Stuck /\ slots' = slots - 1
    BY <1>1, <1>2, <2>2
  <2>3. CASE u \in Held /\ Held' = Held \ {u} /\ Stuck' = Stuck /\ slots' = slots + 1
    BY <1>1, <1>2, <2>3
  <2>4. CASE /\ u \in Held /\ Held' = Held \ {u} /\ slots' = slots
             /\ u \notin Stuck /\ Stuck' = Stuck \cup {u}
    BY <1>1, <1>2, <2>4
  <2> QED BY <2>1, <2>2, <2>3, <2>4
<1> QED BY <1>3 DEF SlotsAreAccountedFor, Held, Stuck

LEMMA SlotsNext == SlotsInv /\ [Next]_vars => SlotsInv'
<1> SUFFICES ASSUME SlotsInv, [Next]_vars PROVE SlotsInv'
  OBVIOUS
<1> USE DEF Places, Holding
<1>1. ASSUME UNCHANGED requestVars PROVE SlotsInv'
  BY <1>1 DEF requestVars, SlotsInv, StagingIsOwned, SlotsAreAccountedFor
<1>2. ASSUME NEW u \in Uploads, RequestStep(u) PROVE SlotsInv'
  <2>1. StagingIsOwned'
    <3>1. CASE Arrive(u) \/ MakeStaging(u) \/ Complete(u)
      BY <3>1 DEF Arrive, MakeStaging, Complete, SlotsInv, StagingIsOwned
    <3>2. CASE Move(u) \/ Refuse(u) \/ CleanupFails(u) \/ Record(u)
      BY <3>2 DEF Move, Refuse, CleanupFails, Record, SlotsInv, StagingIsOwned
    <3> QED BY <1>2, <3>1, <3>2 DEF RequestStep
  <2>2. /\ u \in Held <=> req[u] \in Holding
        /\ u \in Stuck => req[u] = "refused"
    BY DEF Held, Stuck
  <2>3. CASE Arrive(u)
    <3>1. CASE slots = 0
      <4>1. Held' = Held /\ Stuck' = Stuck /\ slots' = slots
        BY <2>3, <3>1 DEF Arrive, Held, Stuck, SlotsInv, StagingIsOwned
      <4> QED BY <2>1, <4>1, SlotMoves DEF SlotsInv
    <3>2. CASE slots # 0
      <4>1. u \notin Held /\ Held' = Held \cup {u} /\ Stuck' = Stuck /\ slots' = slots - 1
        BY <2>3, <3>2 DEF Arrive, Held, Stuck, SlotsInv, StagingIsOwned
      <4> QED BY <2>1, <4>1, SlotMoves DEF SlotsInv
    <3> QED BY <3>1, <3>2
  <2>4. CASE MakeStaging(u) \/ Complete(u)
    <3>1. Held' = Held /\ Stuck' = Stuck /\ slots' = slots
      BY <2>4 DEF MakeStaging, Complete, Held, Stuck, SlotsInv, StagingIsOwned
    <3> QED BY <2>1, <3>1, SlotMoves DEF SlotsInv
  <2>5. CASE Move(u) \/ Refuse(u)
    <3>1. u \in Held /\ Held' = Held \ {u} /\ Stuck' = Stuck /\ slots' = slots + 1
      BY <2>5 DEF Move, Refuse, Held, Stuck, SlotsInv, StagingIsOwned
    <3> QED BY <2>1, <3>1, SlotMoves DEF SlotsInv
  <2>6. CASE CleanupFails(u)
    <3>1. /\ u \in Held /\ Held' = Held \ {u} /\ slots' = slots
          /\ u \notin Stuck /\ Stuck' = Stuck \cup {u}
      BY <2>6 DEF CleanupFails, Held, Stuck, SlotsInv, StagingIsOwned
    <3> QED BY <2>1, <3>1, SlotMoves DEF SlotsInv
  <2>7. CASE Record(u)
    <3>1. Held' = Held /\ Stuck' = Stuck /\ slots' = slots
      BY <2>7 DEF Record, Held, Stuck, SlotsInv, StagingIsOwned
    <3> QED BY <2>1, <3>1, SlotMoves DEF SlotsInv
  <2> QED BY <1>2, <2>3, <2>4, <2>5, <2>6, <2>7 DEF RequestStep
<1>3. CASE Restart
  <2>1. /\ slots' = Slots /\ UNCHANGED staging
        /\ req' = [u \in Uploads |->
                     IF req[u] \in Holding \cup {"moved"} \/ staging[u] # "none" THEN "lost" ELSE req[u]]
    BY <1>3 DEF Restart, RestartServer
  <2>2. StagingIsOwned'
    BY <2>1, InboxAssumption DEF SlotsInv, StagingIsOwned
  <2>3. Held' = {} /\ Stuck' = {}
    BY <2>1 DEF Held, Stuck
  <2>4. Cardinality(Held') = 0 /\ Cardinality(Stuck') = 0 /\ Slots \in Nat
    BY <2>3, FS_EmptySet, InboxAssumption
  <2>5. Cardinality(Held') + Cardinality(Stuck') + slots' = Slots
    BY <2>1, <2>4
  <2> QED BY <2>2, <2>5 DEF SlotsInv, SlotsAreAccountedFor, Held, Stuck
<1>4. CASE (\E t \in Tabs : PageStep(t)) \/ AttemptStep
  BY <1>1, <1>4, RequestsAreLeftAlone
<1>5. CASE UNCHANGED vars
  BY <1>1, <1>5 DEF vars, inboxVars, requestVars
<1> QED BY <1>2, <1>3, <1>4, <1>5 DEF Next

\* No slot is lost without a staging directory that tells of it, and none is
\* given back twice (InboxUploadStore.receive).
THEOREM NoSlotIsLost == Spec => []SlotsAreAccountedFor
<1>1. SlotsInv => SlotsAreAccountedFor
  BY DEF SlotsInv
<1> QED BY <1>1, SlotsInit, SlotsNext, PTL DEF Spec
-----------------------------------------------------------------------------
(* The receipts.                                                           *)

Receipt == [id : Uploads, status : Statuses]
Answers == {"answered", "refused", "lost"}

Distinct(log) == \A j, k \in DOMAIN log : log[j].id = log[k].id => j = k
Bounded(log) == Cardinality(TerminalAt(log)) <= HistoryLimit

\* A list of receipts: one for an upload, none before its request is over.
Listed(log, requests) ==
  /\ log \in Seq(Receipt)
  /\ Distinct(log)
  /\ \A k \in DOMAIN log : requests[log[k].id] \in Answers

\* One that accounts for the requests: a receipt is terminal exactly when its
\* upload is settled, and none is missing of those answered and not settled.
Accounts(log, requests, done) ==
  /\ Listed(log, requests)
  /\ \A k \in DOMAIN log : log[k].status \in Terminal <=> log[k].id \in done
  /\ \A u \in Uploads \ done : requests[u] = "answered" => u \in On(log)

InHand(log) == {k \in DOMAIN log : log[k].status = "processing"}
ChosenIn(log) == {log[k].id : k \in InHand(log)}
WithReceipt(log, u) == <<[id |-> u, status |-> "queued"]>> \o log

\* Memory accounts for the requests; a write that raises leaves an older list
\* on file, which lacks no receipt that was answered for and is in memory.
ReceiptsInv ==
  /\ Accounts(history, req, settled) /\ Bounded(history)
  /\ Listed(file, req) /\ Bounded(file)
  /\ \A u \in Uploads : req[u] = "answered" /\ u \in On(history) => u \in On(file)
  /\ settled \subseteq {u \in Uploads : req[u] \in Answers}

\* What an attempt has chosen is in processing until it is settled for the
\* first time, and not when that is done.
AttemptHolds ==
  /\ attempt.chosen \subseteq Uploads
  /\ attempt.at = "idle" => attempt = NoAttempt
  /\ attempt.at \in {"begun", "locked", "built", "ran", "settling"}
       => attempt.chosen \subseteq ChosenIn(history)
  /\ attempt.at = "settled" => attempt.chosen \cap ChosenIn(history) = {}

\* The file of an upload goes with its request.
FileIsMoved ==
  /\ inbox \in [Uploads -> {"none", "whole"}]
  /\ \A u \in Uploads :
       /\ req[u] = "whole" => staging[u] = "whole"
       /\ req[u] \in {"moved", "answered"} => inbox[u] = "whole"

\* The members of a finite set of numbers can be told in their order, and
\* so each of them has its turn.
LEMMA OrderExists ==
  ASSUME NEW S \in SUBSET Nat, IsFiniteSet(S)
  PROVE  \E f \in [1 .. Cardinality(S) -> S] :
           \A i, j \in 1 .. Cardinality(S) : i < j => f[i] < f[j]
<1> DEFINE n == Cardinality(S)
           UpTo(k) == {j \in S : j <= k}
           rank == [k \in S |-> Cardinality(UpTo(k))]
<1>1. n \in Nat
  BY FS_CardinalityType
<1>2. ASSUME NEW k \in S PROVE IsFiniteSet(UpTo(k)) /\ Cardinality(UpTo(k)) \in 1 .. n
  <2>1. /\ IsFiniteSet(UpTo(k)) /\ Cardinality(UpTo(k)) \in Nat
        /\ Cardinality(UpTo(k)) <= n
    <3>1. UpTo(k) \in SUBSET S
      OBVIOUS
    <3> HIDE DEF UpTo
    <3> QED BY <3>1, FS_Subset, FS_CardinalityType
  <2>2. UpTo(k) # {}
    BY <1>2
  <2> HIDE DEF UpTo
  <2>3. Cardinality(UpTo(k)) # 0
    BY <2>1, <2>2, FS_EmptySet
  <2> QED BY <1>1, <2>1, <2>3
<1>3. ASSUME NEW j \in S, NEW k \in S, j < k PROVE rank[j] < rank[k]
  <2>1. UpTo(j) \cup {k} \in SUBSET UpTo(k) /\ k \notin UpTo(j)
    <3>1. j \in Nat /\ k \in Nat /\ ~(k <= j) /\ k <= k
      BY <1>3
    <3>2. ASSUME NEW i \in S, i <= j PROVE i <= k
      BY <1>3, <3>1, <3>2
    <3> QED BY <3>1, <3>2
  <2>2. Cardinality(UpTo(j) \cup {k}) = Cardinality(UpTo(j)) + 1
    <3> HIDE DEF UpTo
    <3> QED BY <1>2, <2>1, FS_AddElement
  <2>3. Cardinality(UpTo(j) \cup {k}) <= Cardinality(UpTo(k))
    <3> HIDE DEF UpTo
    <3> QED BY <1>2, <2>1, FS_Subset
  <2>4. Cardinality(UpTo(j)) \in Nat /\ Cardinality(UpTo(k)) \in Nat
    <3> HIDE DEF UpTo
    <3> QED BY <1>1, <1>2
  <2>5. rank[j] = Cardinality(UpTo(j)) /\ rank[k] = Cardinality(UpTo(k))
    OBVIOUS
  <2> HIDE DEF UpTo, rank
  <2> QED BY <2>2, <2>3, <2>4, <2>5
<1>4. rank \in [S -> 1 .. n]
  <2> HIDE DEF UpTo, n
  <2> QED BY <1>2
<1> HIDE DEF rank
<1>5. rank \in Injection(S, 1 .. n)
  <2>1. ASSUME NEW j \in S, NEW k \in S, j # k PROVE rank[j] # rank[k]
    <3>1. j < k \/ k < j
      BY <2>1
    <3>2. rank[j] \in Nat /\ rank[k] \in Nat
      BY <1>1, <1>4
    <3> QED BY <1>3, <3>1, <3>2
  <2> QED BY <1>4, <2>1, Zenon DEF Injection, IsInjective
<1>6. rank \in Surjection(S, 1 .. n)
  <2>1. IsFiniteSet(1 .. n) /\ Cardinality(1 .. n) = n
    BY <1>1, FS_Interval
  <2> QED BY <1>5, <2>1, FS_Injection
<1>7. \A i \in 1 .. n : \E k \in S : rank[k] = i
  BY <1>6 DEF Surjection
<1> DEFINE f == [i \in 1 .. n |-> CHOOSE k \in S : rank[k] = i]
<1>8. \A i \in 1 .. n : f[i] \in S /\ rank[f[i]] = i
  BY <1>7
<1>9. f \in [1 .. n -> S]
  BY <1>8
<1> HIDE DEF f
<1>10. ASSUME NEW i \in 1 .. n, NEW j \in 1 .. n, i < j PROVE f[i] < f[j]
  <2> HIDE DEF n
  <2>1. f[i] \in S /\ f[j] \in S /\ rank[f[i]] = i /\ rank[f[j]] = j
    BY <1>8
  <2>2. i # j /\ ~(j < i)
    BY <1>1, <1>10
  <2>3. ~(f[j] < f[i])
    BY <1>3, <2>1, <2>2
  <2>4. f[i] # f[j] /\ f[i] \in Nat /\ f[j] \in Nat
    BY <2>1, <2>2
  <2> QED BY <2>3, <2>4
<1> QED BY <1>9, <1>10

LEMMA OrderIsOnto ==
  ASSUME NEW S \in SUBSET Nat, IsFiniteSet(S), NEW f \in [1 .. Cardinality(S) -> S],
         \A i, j \in 1 .. Cardinality(S) : i < j => f[i] < f[j]
  PROVE  /\ \A i, j \in 1 .. Cardinality(S) : f[i] = f[j] => i = j
         /\ \A k \in S : \E i \in 1 .. Cardinality(S) : f[i] = k
<1> DEFINE n == Cardinality(S)
<1>1. n \in Nat
  BY FS_CardinalityType
<1> HIDE DEF n
<1>2. ASSUME NEW i \in 1 .. n, NEW j \in 1 .. n, f[i] = f[j] PROVE i = j
  <2>1. f[i] \in Nat
    BY DEF n
  <2>2. ~(f[i] < f[j]) /\ ~(f[j] < f[i])
    BY <1>2, <2>1
  <2>3. ~(i < j) /\ ~(j < i)
    BY <2>2 DEF n
  <2> QED BY <1>1, <2>3
<1>3. f \in Injection(1 .. n, S)
  BY <1>2, Zenon DEF Injection, IsInjective, n
<1>4. f \in Surjection(1 .. n, S)
  <2>1. IsFiniteSet(1 .. n) /\ Cardinality(1 .. n) = Cardinality(S)
    BY <1>1, FS_Interval DEF n
  <2> QED BY <1>3, <2>1, FS_Injection
<1> QED BY <1>2, <1>4 DEF Surjection, n

LEMMA PlacesAreFinite ==
  ASSUME NEW log \in Seq(Receipt)
  PROVE  /\ DOMAIN log \in SUBSET Nat /\ IsFiniteSet(DOMAIN log)
         /\ TerminalAt(log) \in SUBSET DOMAIN log /\ IsFiniteSet(TerminalAt(log))
         /\ Kept(log) \in SUBSET DOMAIN log /\ IsFiniteSet(Kept(log))
<1>1. DOMAIN log = 1 .. Len(log) /\ Len(log) \in Nat
  OBVIOUS
<1>2. IsFiniteSet(DOMAIN log)
  BY <1>1, FS_Interval
<1>3. TerminalAt(log) \in SUBSET DOMAIN log /\ Kept(log) \in SUBSET DOMAIN log
  BY DEF TerminalAt, Kept
<1> QED BY <1>1, <1>2, <1>3, FS_Subset

\* Limited lists what is kept: each of its places stands for one place of the
\* log, and each place that is kept has one.
LEMMA LimitedPlaces ==
  ASSUME NEW log \in Seq(Receipt)
  PROVE  /\ Limited(log) \in Seq(Receipt)
         /\ \E f \in [DOMAIN Limited(log) -> Kept(log)] :
              /\ \A i \in DOMAIN Limited(log) : Limited(log)[i] = log[f[i]]
              /\ \A i, j \in DOMAIN Limited(log) : f[i] = f[j] => i = j
              /\ \A k \in Kept(log) : \E i \in DOMAIN Limited(log) : f[i] = k
<1> DEFINE n == Cardinality(Kept(log))
           f == CHOOSE g \in [1 .. n -> Kept(log)] : \A i, j \in 1 .. n : i < j => g[i] < g[j]
<1>1. Kept(log) \in SUBSET Nat /\ IsFiniteSet(Kept(log)) /\ Kept(log) \in SUBSET DOMAIN log
  BY PlacesAreFinite
<1>2. n \in Nat
  BY <1>1, FS_CardinalityType
<1>3. f \in [1 .. n -> Kept(log)] /\ \A i, j \in 1 .. n : i < j => f[i] < f[j]
  BY <1>1, OrderExists
<1>4. Limited(log) = [i \in 1 .. n |-> log[f[i]]]
  BY DEF Limited
<1> HIDE DEF f
<1>5. /\ \A i, j \in 1 .. n : f[i] = f[j] => i = j
      /\ \A k \in Kept(log) : \E i \in 1 .. n : f[i] = k
  BY <1>1, <1>3, OrderIsOnto
<1> HIDE DEF n
<1>6. Limited(log) \in Seq(Receipt)
  <2>1. \A i \in 1 .. n : log[f[i]] \in Receipt
    BY <1>1, <1>3
  <2> QED BY <1>2, <1>4, <2>1
<1>7. DOMAIN Limited(log) = 1 .. n
  BY <1>4
<1> QED BY <1>3, <1>4, <1>5, <1>6, <1>7

LEMMA OnPlaces ==
  ASSUME NEW log
  PROVE  On(log) = {log[k].id : k \in DOMAIN log}
BY DEF On, ToSet

LEMMA IdsPlaces ==
  ASSUME NEW log, NEW statuses
  PROVE  Ids(log, statuses) = {log[k].id : k \in {j \in DOMAIN log : log[j].status \in statuses}}
BY DEF Ids, ToSet

LEMMA LimitedOn ==
  ASSUME NEW log \in Seq(Receipt)
  PROVE  On(Limited(log)) \subseteq On(log)
<1>1. PICK f \in [DOMAIN Limited(log) -> Kept(log)] :
        \A i \in DOMAIN Limited(log) : Limited(log)[i] = log[f[i]]
  BY LimitedPlaces
<1>2. \A i \in DOMAIN Limited(log) : f[i] \in DOMAIN log
  BY PlacesAreFinite
<1> QED BY <1>1, <1>2, OnPlaces

\* The limit takes nothing that is pending, nor anything from the account ...
LEMMA LimitedAccounts ==
  ASSUME NEW requests, NEW done, NEW log, Accounts(log, requests, done)
  PROVE  Accounts(Limited(log), requests, done)
<1>1. log \in Seq(Receipt)
  BY DEF Accounts, Listed
<1>2. Limited(log) \in Seq(Receipt)
  BY <1>1, LimitedPlaces
<1>3. PICK f \in [DOMAIN Limited(log) -> Kept(log)] :
        /\ \A i \in DOMAIN Limited(log) : Limited(log)[i] = log[f[i]]
        /\ \A i, j \in DOMAIN Limited(log) : f[i] = f[j] => i = j
        /\ \A k \in Kept(log) : \E i \in DOMAIN Limited(log) : f[i] = k
  BY <1>1, LimitedPlaces
<1> DEFINE kept == Limited(log)
<1> HIDE DEF kept
<1>4. \A i \in DOMAIN kept : f[i] \in DOMAIN log /\ kept[i] = log[f[i]]
  BY <1>1, <1>3, PlacesAreFinite DEF kept
<1>5. Distinct(kept)
  BY <1>3, <1>4 DEF Accounts, Listed, Distinct, kept
<1>6. \A i \in DOMAIN kept :
        /\ requests[kept[i].id] \in Answers
        /\ kept[i].status \in Terminal <=> kept[i].id \in done
  BY <1>4 DEF Accounts, Listed
<1>7. ASSUME NEW u \in Uploads \ done, requests[u] = "answered" PROVE u \in On(kept)
  <2>1. PICK k \in DOMAIN log : log[k].id = u
    BY <1>7, OnPlaces DEF Accounts
  <2>2. k \in Kept(log)
    BY <1>7, <2>1 DEF Accounts, Kept, TerminalAt
  <2>3. PICK i \in DOMAIN kept : f[i] = k
    BY <1>3, <2>2 DEF kept
  <2> QED BY <1>4, <2>1, <2>3, OnPlaces
<1> QED BY <1>2, <1>5, <1>6, <1>7 DEF Accounts, Listed, kept

\* ... and leaves no more than it should.
LEMMA LimitedIsBounded ==
  ASSUME NEW log \in Seq(Receipt)
  PROVE  Bounded(Limited(log))
<1> DEFINE S == TerminalAt(log) \cap Kept(log)
           Before(k) == {j \in TerminalAt(log) : j < k}
           T == TerminalAt(Limited(log))
<1>1. /\ IsFiniteSet(TerminalAt(log)) /\ TerminalAt(log) \in SUBSET (1 .. Len(log))
      /\ IsFiniteSet(S) /\ Len(log) \in Nat
  BY PlacesAreFinite, FS_Subset
<1>2. Cardinality(S) <= HistoryLimit
  <2>1. CASE S = {}
    <3> HIDE DEF S
    <3> QED BY <2>1, FS_EmptySet, InboxAssumption
  <2>2. CASE S # {}
    <3> HIDE DEF S
    <3>1. PICK k \in S : \A j \in S : j <= k
      BY <1>1, <2>2, LastExists DEF S
    <3>2. k \in TerminalAt(log) /\ Cardinality(Before(k)) < HistoryLimit
      BY <3>1 DEF Kept, S
    <3>3. S \ {k} \in SUBSET Before(k)
      <4>1. ASSUME NEW j \in S \ {k} PROVE j \in TerminalAt(log) /\ j < k
        <5>1. j \in Nat /\ k \in Nat /\ j # k /\ j <= k /\ j \in TerminalAt(log)
          BY <1>1, <3>1 DEF S
        <5> QED BY <5>1
      <4> QED BY <4>1
    <3>4. Before(k) \in SUBSET TerminalAt(log)
      OBVIOUS
    <3> HIDE DEF Before
    <3>5. /\ Cardinality(S \ {k}) <= Cardinality(Before(k))
          /\ Cardinality(Before(k)) \in Nat
      BY <1>1, <3>3, <3>4, FS_Subset, FS_CardinalityType
    <3>6. Cardinality(S \ {k}) = Cardinality(S) - 1 /\ Cardinality(S) \in Nat
      BY <1>1, <3>1, FS_RemoveElement, FS_CardinalityType
    <3> QED BY <3>2, <3>5, <3>6, InboxAssumption
  <2> QED BY <2>1, <2>2
<1>3. PICK f \in [DOMAIN Limited(log) -> Kept(log)] :
        /\ \A i \in DOMAIN Limited(log) : Limited(log)[i] = log[f[i]]
        /\ \A i, j \in DOMAIN Limited(log) : f[i] = f[j] => i = j
  BY LimitedPlaces
<1> DEFINE g == [i \in T |-> f[i]]
<1>4. g \in Injection(T, S)
  <2>1. ASSUME NEW i \in T PROVE i \in DOMAIN Limited(log) /\ f[i] \in S
    <3>1. i \in DOMAIN Limited(log) /\ Limited(log)[i].status \in Terminal
      BY <2>1 DEF TerminalAt
    <3>2. f[i] \in Kept(log) /\ log[f[i]].status \in Terminal
      BY <1>3, <3>1
    <3> QED BY <3>1, <3>2, PlacesAreFinite DEF TerminalAt
  <2> HIDE DEF T, S
  <2>2. g \in [T -> S] /\ \A i, j \in T : g[i] = g[j] => i = j
    BY <1>3, <2>1
  <2> QED BY <2>2 DEF Injection, IsInjective
<1>5. Cardinality(T) <= Cardinality(S) /\ Cardinality(T) \in Nat /\ Cardinality(S) \in Nat
  <2> HIDE DEF T, S, g
  <2> QED BY <1>1, <1>4, FS_Injection, FS_CardinalityType
<1> QED BY <1>2, <1>5, InboxAssumption DEF Bounded

LEMMA SameChosen ==
  ASSUME NEW log, NEW other,
         \A k \in InHand(log) : \E j \in InHand(other) : other[j].id = log[k].id,
         \A j \in InHand(other) : \E k \in InHand(log) : log[k].id = other[j].id
  PROVE  ChosenIn(log) = ChosenIn(other)
BY DEF ChosenIn

LEMMA LimitedInHand ==
  ASSUME NEW log \in Seq(Receipt)
  PROVE  ChosenIn(Limited(log)) = ChosenIn(log)
<1>1. PICK f \in [DOMAIN Limited(log) -> Kept(log)] :
        /\ \A i \in DOMAIN Limited(log) : Limited(log)[i] = log[f[i]]
        /\ \A k \in Kept(log) : \E i \in DOMAIN Limited(log) : f[i] = k
  BY LimitedPlaces
<1>2. ASSUME NEW i \in InHand(Limited(log))
      PROVE  \E k \in InHand(log) : log[k].id = Limited(log)[i].id
  <2>1. i \in DOMAIN Limited(log) /\ Limited(log)[i].status = "processing"
    BY <1>2 DEF InHand
  <2>2. f[i] \in DOMAIN log /\ log[f[i]] = Limited(log)[i]
    BY <1>1, <2>1, PlacesAreFinite
  <2> QED BY <2>1, <2>2 DEF InHand
<1>3. ASSUME NEW k \in InHand(log)
      PROVE  \E i \in InHand(Limited(log)) : Limited(log)[i].id = log[k].id
  <2>1. k \in Kept(log) /\ log[k].status = "processing"
    BY <1>3 DEF InHand, Kept, TerminalAt, Terminal
  <2>2. PICK i \in DOMAIN Limited(log) : f[i] = k
    BY <1>1, <2>1
  <2>3. Limited(log)[i] = log[k]
    BY <1>1, <2>2
  <2> QED BY <2>1, <2>3 DEF InHand
<1> QED BY <1>2, <1>3, SameChosen

LEMMA InHandIds == \A log : Ids(log, {"processing"}) = ChosenIn(log)
BY IdsPlaces DEF ChosenIn, InHand

\* What happens to an account: a request that is over gets its receipt,
LEMMA NewReceipt ==
  ASSUME NEW log, NEW requests \in [Uploads -> Places], NEW later, NEW done,
         Accounts(log, requests, done),
         NEW u \in Uploads \ done, requests[u] \notin Answers,
         later[u] \in Answers, \A v \in Uploads \ {u} : later[v] = requests[v]
  PROVE  Accounts(WithReceipt(log, u), later, done) /\ ChosenIn(WithReceipt(log, u)) = ChosenIn(log)
<1> DEFINE e == [id |-> u, status |-> "queued"]
           longer == WithReceipt(log, u)
<1>1. log \in Seq(Receipt) /\ Len(log) \in Nat /\ DOMAIN log = 1 .. Len(log)
  BY DEF Accounts, Listed
<1>2. longer = <<e>> \o log /\ e \in Receipt /\ e.id = u /\ e.status \notin Terminal /\ e.status # "processing"
  BY DEF Receipt, Statuses, Terminal, WithReceipt
<1> HIDE DEF e, longer
<1>3. /\ longer \in Seq(Receipt) /\ DOMAIN longer = 1 .. Len(log) + 1
      /\ longer[1] = e
      /\ \A k \in 1 .. Len(log) : longer[k + 1] = log[k]
  BY <1>1, <1>2
<1>4. \A k \in DOMAIN longer :
        \/ k = 1 /\ longer[k] = e
        \/ k # 1 /\ k - 1 \in DOMAIN log /\ longer[k] = log[k - 1]
  <2>1. ASSUME NEW k \in 1 .. Len(log) + 1, k # 1
        PROVE  k - 1 \in 1 .. Len(log) /\ (k - 1) + 1 = k
    BY <1>1, <2>1
  <2> QED BY <1>1, <1>3, <2>1
<1>5. \A k \in DOMAIN log : log[k].id # u /\ log[k].id \in Uploads
  <2>1. \A k \in DOMAIN log : log[k] \in Receipt
    BY <1>1
  <2> QED BY <2>1 DEF Accounts, Listed, Receipt
<1>7. Distinct(longer)
  <2>1. ASSUME NEW j \in DOMAIN longer, NEW k \in DOMAIN longer, longer[j].id = longer[k].id
        PROVE  j = k
    <3>1. CASE j = 1 \/ k = 1
      BY <1>2, <1>4, <1>5, <2>1, <3>1
    <3>2. CASE j # 1 /\ k # 1
      <4>1. j - 1 = k - 1
        BY <1>4, <2>1, <3>2 DEF Accounts, Listed, Distinct
      <4>2. j \in Nat /\ k \in Nat
        BY <1>1, <1>3
      <4> QED BY <4>1, <4>2
    <3> QED BY <3>1, <3>2
  <2> QED BY <2>1 DEF Distinct
<1>8. ASSUME NEW k \in DOMAIN longer
      PROVE  /\ later[longer[k].id] \in Answers
             /\ longer[k].status \in Terminal <=> longer[k].id \in done
  <2>1. CASE k = 1
    BY <1>2, <1>4, <2>1 DEF Answers
  <2>2. CASE k # 1
    BY <1>4, <1>5, <2>2 DEF Accounts, Listed
  <2> QED BY <2>1, <2>2
<1>9. ASSUME NEW v \in Uploads \ done, later[v] = "answered" PROVE v \in On(longer)
  <2>1. CASE v = u
    <3>1. 1 \in DOMAIN longer
      BY <1>1, <1>3
    <3> QED BY <1>2, <1>3, <2>1, <3>1, OnPlaces
  <2>2. CASE v # u
    <3>1. PICK k \in DOMAIN log : log[k].id = v
      BY <1>9, <2>2, OnPlaces DEF Accounts, Listed
    <3>2. k + 1 \in DOMAIN longer /\ longer[k + 1] = log[k]
      BY <1>1, <1>3
    <3> QED BY <3>1, <3>2, OnPlaces
  <2> QED BY <2>1, <2>2
<1>10. ChosenIn(longer) = ChosenIn(log)
  <2>1. ASSUME NEW k \in InHand(longer) PROVE \E j \in InHand(log) : log[j].id = longer[k].id
    <3>1. k \in DOMAIN longer /\ longer[k].status = "processing"
      BY <2>1 DEF InHand
    <3>2. k - 1 \in DOMAIN log /\ longer[k] = log[k - 1]
      BY <1>2, <1>4, <3>1
    <3> QED BY <3>1, <3>2 DEF InHand
  <2>2. ASSUME NEW k \in InHand(log) PROVE \E j \in InHand(longer) : longer[j].id = log[k].id
    <3>1. k \in DOMAIN log /\ log[k].status = "processing"
      BY <2>2 DEF InHand
    <3>2. k + 1 \in DOMAIN longer /\ longer[k + 1] = log[k]
      BY <1>1, <1>3, <3>1
    <3> QED BY <3>1, <3>2 DEF InHand
  <2> QED BY <2>1, <2>2, SameChosen
<1>11. Accounts(longer, later, done)
  BY <1>3, <1>7, <1>8, <1>9 DEF Accounts, Listed
<1> QED BY <1>10, <1>11 DEF longer

\* requests go on that have no receipt yet,
LEMMA RequestsGoOn ==
  ASSUME NEW log, NEW requests, NEW later, NEW done, Accounts(log, requests, done),
         \A u \in Uploads :
           /\ requests[u] \in Answers => later[u] \in Answers
           /\ later[u] = "answered" => requests[u] = "answered"
  PROVE  Accounts(log, later, done)
<1>1. \A k \in DOMAIN log : log[k].id \in Uploads
  <2>1. log \in Seq(Receipt)
    BY DEF Accounts, Listed
  <2>2. \A k \in DOMAIN log : log[k] \in Receipt
    BY <2>1
  <2> QED BY <2>2 DEF Receipt
<1> QED BY <1>1 DEF Accounts, Listed

\* and the receipts change their status.
LEMMA StatusesChange ==
  ASSUME NEW log, NEW requests, NEW done, NEW more, done \ On(log) \subseteq more,
         Accounts(log, requests, done),
         NEW changed \in [DOMAIN log -> Receipt],
         \A k \in DOMAIN log :
           /\ changed[k].id = log[k].id
           /\ changed[k].status \in Terminal <=> changed[k].id \in more
  PROVE  Accounts(changed, requests, more) /\ On(changed) = On(log)
<1>1. log \in Seq(Receipt) /\ DOMAIN log = 1 .. Len(log) /\ Len(log) \in Nat
  BY DEF Accounts, Listed
<1>2. changed \in Seq(Receipt) /\ DOMAIN changed = DOMAIN log
  BY <1>1
<1>3. On(changed) = On(log)
  BY <1>2, OnPlaces
<1>4. Distinct(changed)
  BY <1>2 DEF Accounts, Listed, Distinct
<1> QED BY <1>2, <1>3, <1>4 DEF Accounts, Listed

\* A list tells of its receipts which uploads are settled.
LEMMA ResettledTells ==
  ASSUME NEW log, Distinct(log)
  PROVE  /\ \A k \in DOMAIN log : log[k].status \in Terminal <=> log[k].id \in Resettled(log)
         /\ Resettled(log) \subseteq settled \cup On(log)
         /\ settled \ On(log) \subseteq Resettled(log)
<1>1. Resettled(log) = (settled \ On(log)) \cup Ids(log, Terminal)
  BY DEF Resettled
<1>2. \A k \in DOMAIN log : log[k].status \in Terminal <=> log[k].id \in Ids(log, Terminal)
  BY IdsPlaces DEF Distinct
<1>3. Ids(log, Terminal) \subseteq On(log) /\ \A k \in DOMAIN log : log[k].id \in On(log)
  BY IdsPlaces, OnPlaces
<1> QED BY <1>1, <1>2, <1>3

LEMMA ReceiptsInit == Init => ReceiptsInv /\ AttemptHolds
<1> SUFFICES ASSUME Init PROVE ReceiptsInv /\ AttemptHolds
  OBVIOUS
<1>1. history = <<>> /\ file = <<>> /\ settled = {} /\ attempt = NoAttempt
      /\ \A u \in Uploads : req[u] = "none"
  BY DEF Init, InboxInit
<1>2. TerminalAt(<<>>) = {} /\ On(<<>>) = {}
  BY OnPlaces DEF TerminalAt
<1>3. Bounded(<<>>)
  BY <1>2, FS_EmptySet, InboxAssumption DEF Bounded
<1>4. Accounts(<<>>, req, settled) /\ Listed(<<>>, req)
  BY <1>1 DEF Accounts, Listed, Distinct
<1>5. AttemptHolds
  BY <1>1 DEF NoAttempt, AttemptHolds
<1> QED BY <1>1, <1>2, <1>3, <1>4, <1>5 DEF ReceiptsInv

\* A new account comes into memory, and is written or not.
LEMMA WrittenKeepsReceipts ==
  ASSUME ReceiptsInv, NEW log, NEW ok \in BOOLEAN, Written(log, ok),
         Accounts(log, req', settled'), Bounded(log),
         settled' \subseteq {u \in Uploads : req'[u] \in Answers},
         \A u \in Uploads :
           /\ req[u] \in Answers => req'[u] \in Answers
           /\ ~ok /\ req'[u] = "answered" /\ u \in On(log) => req[u] = "answered" /\ u \in On(history)
  PROVE  ReceiptsInv'
<1>1. history' = log /\ file' = IF ok THEN log ELSE file
  BY DEF Written
<1>2. Accounts(history', req', settled') /\ Bounded(history') /\ Listed(log, req')
  BY <1>1 DEF Accounts, Listed, Distinct
<1>3. Listed(file, req')
  <2>1. \A k \in DOMAIN file : file[k].id \in Uploads
    <3>1. \A k \in DOMAIN file : file[k] \in Receipt
      BY DEF ReceiptsInv, Listed
    <3> QED BY <3>1 DEF Receipt
  <2> QED BY <2>1 DEF ReceiptsInv, Listed
<1>4. Listed(file', req') /\ Bounded(file')
  BY <1>1, <1>2, <1>3 DEF ReceiptsInv
<1>5. \A u \in Uploads : req'[u] = "answered" /\ u \in On(log) => u \in On(file')
  BY <1>1 DEF ReceiptsInv
<1>6. \A u \in Uploads : req'[u] = "answered" /\ u \in On(history') => u \in On(file')
  BY <1>1, <1>5
<1> HIDE DEF Accounts, Listed
<1> QED BY <1>1, <1>2, <1>4, <1>6 DEF ReceiptsInv

LEMMA RecordChanges ==
  ASSUME SlotsInv, ReceiptsInv, NEW u \in Uploads, Record(u)
  PROVE  ReceiptsInv' /\ ChosenIn(history') = ChosenIn(history)
<1> DEFINE longer == WithReceipt(history, u)
<1>1. req[u] = "moved" /\ u \notin settled /\ req \in [Uploads -> Places] /\ "moved" \notin Answers
  BY DEF Record, ReceiptsInv, SlotsInv, StagingIsOwned, Answers
<1>2. PICK ok \in BOOLEAN :
        /\ Written(Limited(longer), ok)
        /\ req' = [req EXCEPT ![u] = IF ok THEN "answered" ELSE "refused"]
  BY DEF Record, WithReceipt
<1>3. settled' = settled /\ history' = Limited(longer)
  BY <1>2 DEF Record, Written
<1>4. /\ req'[u] = IF ok THEN "answered" ELSE "refused"
      /\ \A v \in Uploads \ {u} : req'[v] = req[v]
  BY <1>1, <1>2
<1>5. Accounts(longer, req', settled) /\ ChosenIn(longer) = ChosenIn(history)
  <2>1. Accounts(history, req, settled) /\ u \in Uploads \ settled /\ req[u] \notin Answers
    BY <1>1 DEF ReceiptsInv
  <2>2. req'[u] \in Answers
    BY <1>4 DEF Answers
  <2> QED BY <1>1, <1>4, <2>1, <2>2, NewReceipt
<1>6. On(longer) \subseteq On(history) \cup {u}
  <2>1. longer = <<[id |-> u, status |-> "queued"]>> \o history /\ history \in Seq(Receipt)
    BY DEF WithReceipt, ReceiptsInv, Accounts, Listed
  <2>2. \A k \in DOMAIN longer :
          longer[k].id = u \/ (k - 1 \in DOMAIN history /\ longer[k] = history[k - 1])
    BY <2>1
  <2> HIDE DEF longer
  <2> QED BY <2>2, OnPlaces
<1> HIDE DEF longer
<1>7. longer \in Seq(Receipt)
  BY <1>5 DEF Accounts, Listed
<1>8. /\ Accounts(Limited(longer), req', settled') /\ Bounded(Limited(longer))
      /\ On(Limited(longer)) \subseteq On(history) \cup {u}
  BY <1>3, <1>5, <1>6, <1>7, LimitedAccounts, LimitedIsBounded, LimitedOn
<1>9. \A v \in Uploads :
        /\ req[v] \in Answers => req'[v] \in Answers
        /\ ~ok /\ req'[v] = "answered" /\ v \in On(Limited(longer))
             => req[v] = "answered" /\ v \in On(history)
  BY <1>1, <1>4, <1>8 DEF Answers
<1>10. settled' \subseteq {v \in Uploads : req'[v] \in Answers}
  BY <1>3, <1>9 DEF ReceiptsInv
<1>11. ReceiptsInv'
  BY <1>2, <1>8, <1>9, <1>10, WrittenKeepsReceipts
<1> QED BY <1>3, <1>5, <1>7, <1>11, LimitedInHand

\* Other requests, and all that is written without change.
LEMMA RequestsKeepReceipts ==
  ASSUME ReceiptsInv, UNCHANGED <<history, settled>>,
         file' = file \/ file' = history,
         \A u \in Uploads :
           /\ req[u] \in Answers => req'[u] \in Answers
           /\ req'[u] = "answered" => req[u] = "answered"
  PROVE  ReceiptsInv'
<1>1. Accounts(history, req', settled')
  BY RequestsGoOn DEF ReceiptsInv
<1>2. PICK ok \in BOOLEAN : Written(history, ok)
  <2>1. file' = history => Written(history, TRUE)
    BY DEF Written
  <2>2. file' = file => Written(history, FALSE)
    BY DEF Written
  <2> QED BY <2>1, <2>2
<1>3. settled' \subseteq {u \in Uploads : req'[u] \in Answers}
  BY DEF ReceiptsInv
<1> QED BY <1>1, <1>2, <1>3, WrittenKeepsReceipts DEF ReceiptsInv

\* A list with the receipts of memory, some of them with another status.
LEMMA RewrittenKeepsReceipts ==
  ASSUME ReceiptsInv, NEW log, Accounts(log, req, settled'), Bounded(log),
         On(log) \subseteq On(history), settled' \subseteq settled \cup On(history),
         NEW ok \in BOOLEAN, Written(log, ok), req' = req
  PROVE  ReceiptsInv'
<1>1. \A k \in DOMAIN history : history[k].id \in Uploads /\ req[history[k].id] \in Answers
  <2>1. \A k \in DOMAIN history : history[k] \in Receipt
    BY DEF ReceiptsInv, Accounts, Listed
  <2> QED BY <2>1 DEF Receipt, ReceiptsInv, Accounts, Listed
<1>2. On(history) \subseteq {u \in Uploads : req[u] \in Answers}
  BY <1>1, OnPlaces
<1>3. settled' \subseteq {u \in Uploads : req'[u] \in Answers}
  BY <1>2 DEF ReceiptsInv
<1>4. Accounts(log, req', settled')
  OBVIOUS
<1> QED BY <1>3, <1>4, WrittenKeepsReceipts

\* An attempt takes all that is pending in hand, and nothing that is settled.
LEMMA StartedIsListed ==
  ASSUME ReceiptsInv
  PROVE  /\ Accounts(Started(history), req, settled) /\ Bounded(Started(history))
         /\ On(Started(history)) = On(history)
         /\ Ids(history, Pending) \subseteq ChosenIn(Started(history))
         /\ Ids(history, Pending) \subseteq Uploads
<1> DEFINE new == Started(history)
<1>1. \A k \in DOMAIN history : history[k] \in Receipt
  BY DEF ReceiptsInv, Accounts, Listed
<1>2. /\ DOMAIN new = DOMAIN history /\ new \in [DOMAIN history -> Receipt]
      /\ \A k \in DOMAIN history :
           /\ new[k].id = history[k].id
           /\ new[k].status = IF history[k].status \in Pending THEN "processing" ELSE history[k].status
  BY <1>1 DEF Started, Receipt, Statuses
<1> HIDE DEF new
<1>3. \A k \in DOMAIN history : new[k].status \in Terminal <=> history[k].status \in Terminal
  BY <1>2 DEF Terminal, Pending
<1>4. Accounts(new, req, settled) /\ On(new) = On(history)
  <2>1. Accounts(history, req, settled)
    BY DEF ReceiptsInv
  <2>2. \A k \in DOMAIN history : new[k].status \in Terminal <=> new[k].id \in settled
    BY <1>2, <1>3, <2>1 DEF Accounts
  <2> QED BY <1>2, <2>1, <2>2, StatusesChange
<1>5. Bounded(new)
  <2>1. TerminalAt(new) = TerminalAt(history)
    BY <1>2, <1>3 DEF TerminalAt
  <2> QED BY <2>1 DEF ReceiptsInv, Bounded
<1>6. \A k \in DOMAIN history :
        history[k].status \in Pending => k \in InHand(new) /\ new[k].id = history[k].id
  BY <1>2 DEF InHand
<1>7. Ids(history, Pending) = {history[k].id : k \in {j \in DOMAIN history : history[j].status \in Pending}}
  BY IdsPlaces
<1>8. Ids(history, Pending) \subseteq ChosenIn(new)
  BY <1>6, <1>7 DEF ChosenIn
<1>9. Ids(history, Pending) \subseteq Uploads
  BY <1>1, <1>7 DEF Receipt
<1> QED BY <1>4, <1>5, <1>8, <1>9 DEF new

\* A settlement gives every receipt of the attempt an outcome.
LEMMA SettledIsListed ==
  ASSUME ReceiptsInv, NEW outcome \in [attempt.chosen -> Outcomes]
  PROVE  LET new == SettledLog(history, outcome)
         IN  /\ Accounts(new, req, Resettled(new)) /\ On(new) = On(history)
             /\ ChosenIn(new) \subseteq ChosenIn(history) \ attempt.chosen
             /\ settled \ attempt.chosen \subseteq Resettled(new)
             /\ Resettled(new) \subseteq settled \cup On(history)
<1> DEFINE new == SettledLog(history, outcome)
<1>1. \A k \in DOMAIN history : history[k] \in Receipt
  BY DEF ReceiptsInv, Accounts, Listed
<1>2. \A u \in attempt.chosen : outcome[u] \in Outcomes
  OBVIOUS
<1>3. /\ DOMAIN new = DOMAIN history /\ new \in [DOMAIN history -> Receipt]
      /\ \A k \in DOMAIN history :
           /\ new[k].id = history[k].id
           /\ new[k].status = IF history[k].id \in attempt.chosen THEN outcome[history[k].id]
                              ELSE history[k].status
  BY <1>1, <1>2 DEF SettledLog, Receipt, Statuses, Outcomes
<1> HIDE DEF new
<1>4. Distinct(new) /\ On(new) = On(history)
  <2>1. Distinct(new)
    BY <1>3 DEF ReceiptsInv, Accounts, Listed, Distinct
  <2>2. On(new) = {new[k].id : k \in DOMAIN new} /\ On(history) = {history[k].id : k \in DOMAIN history}
    BY OnPlaces
  <2> QED BY <1>3, <2>1, <2>2
<1>5. /\ \A k \in DOMAIN new : new[k].status \in Terminal <=> new[k].id \in Resettled(new)
      /\ Resettled(new) \subseteq settled \cup On(new)
      /\ settled \ On(new) \subseteq Resettled(new)
  BY <1>4, ResettledTells
<1>6. Accounts(new, req, Resettled(new))
  <2>1. Accounts(history, req, settled)
    BY DEF ReceiptsInv
  <2> QED BY <1>3, <1>4, <1>5, <2>1, StatusesChange
<1>7. ASSUME NEW k \in InHand(new)
      PROVE  new[k].id \in ChosenIn(history) \ attempt.chosen
  <2>1. k \in DOMAIN history /\ new[k].status = "processing"
    BY <1>3, <1>7 DEF InHand
  <2>2. history[k].id \notin attempt.chosen
    BY <1>2, <1>3, <2>1 DEF Outcomes
  <2>3. k \in InHand(history)
    BY <1>3, <2>1, <2>2 DEF InHand
  <2> QED BY <1>3, <2>1, <2>2, <2>3 DEF ChosenIn
<1>8. ASSUME NEW u \in settled \ attempt.chosen PROVE u \in Resettled(new)
  <2>1. CASE u \notin On(new)
    BY <1>5, <1>8, <2>1
  <2>2. CASE u \in On(new)
    <3>1. PICK k \in DOMAIN history : history[k].id = u
      BY <1>4, <2>2, OnPlaces
    <3>2. history[k].status \in Terminal
      BY <1>8, <3>1 DEF ReceiptsInv, Accounts
    <3> QED BY <1>3, <1>5, <1>8, <3>1, <3>2
  <2> QED BY <2>1, <2>2
<1>9. ChosenIn(new) \subseteq ChosenIn(history) \ attempt.chosen
  BY <1>7 DEF ChosenIn
<1> QED BY <1>4, <1>5, <1>6, <1>8, <1>9 DEF new

LEMMA SettleChanges ==
  ASSUME ReceiptsInv, NEW ok \in BOOLEAN, SettleReceipts(ok)
  PROVE  /\ ReceiptsInv'
         /\ ChosenIn(history') \subseteq ChosenIn(history) \ attempt.chosen
         /\ settled \ attempt.chosen \subseteq settled'
<1>1. PICK outcome \in [attempt.chosen -> Outcomes] :
        /\ Written(Limited(SettledLog(history, outcome)), ok)
        /\ settled' = Resettled(SettledLog(history, outcome))
  BY DEF SettleReceipts
<1> DEFINE new == SettledLog(history, outcome)
<1>2. /\ Accounts(new, req, settled') /\ On(new) = On(history)
      /\ ChosenIn(new) \subseteq ChosenIn(history) \ attempt.chosen
      /\ settled \ attempt.chosen \subseteq settled'
      /\ settled' \subseteq settled \cup On(history)
  BY <1>1, SettledIsListed
<1>3. Written(Limited(new), ok) /\ history' = Limited(new) /\ req' = req
  BY <1>1 DEF Written, SettleReceipts, requestVars
<1> HIDE DEF new
<1>4. new \in Seq(Receipt)
  BY <1>2 DEF Accounts, Listed
<1>5. /\ Accounts(Limited(new), req, settled') /\ Bounded(Limited(new))
      /\ On(Limited(new)) \subseteq On(history) /\ ChosenIn(Limited(new)) = ChosenIn(new)
  BY <1>2, <1>4, LimitedAccounts, LimitedIsBounded, LimitedOn, LimitedInHand
<1>6. ReceiptsInv'
  BY <1>2, <1>3, <1>5, RewrittenKeepsReceipts
<1> QED BY <1>2, <1>3, <1>5, <1>6

\* The next server finds the list on file, with nothing in hand: it lacks only
\* what had been settled before.
LEMMA RestartChanges ==
  ASSUME ReceiptsInv, RestartServer
  PROVE  ReceiptsInv' /\ ChosenIn(history') = {}
<1> DEFINE new == [k \in DOMAIN file |->
                     IF file[k].status = "processing"
                     THEN [file[k] EXCEPT !.status = "queued"] ELSE file[k]]
<1>1. /\ history' = Limited(new) /\ Written(Limited(new), TRUE)
      /\ attempt' = NoAttempt /\ settled' = Resettled(file)
  BY DEF RestartServer, Saved, Written, Normalized
<1>2. \A u \in Uploads :
        /\ req[u] \in Answers => req'[u] \in Answers
        /\ req'[u] = "answered" => req[u] = "answered"
  <2>1. req' = [u \in Uploads |->
                  IF req[u] \in Holding \cup {"moved"} \/ staging[u] # "none" THEN "lost" ELSE req[u]]
    BY DEF RestartServer
  <2> QED BY <2>1 DEF Answers
<1>3. Listed(file, req') /\ \A k \in DOMAIN file : file[k] \in Receipt /\ req[file[k].id] \in Answers
  <2>1. \A k \in DOMAIN file : file[k] \in Receipt /\ req[file[k].id] \in Answers
    BY DEF ReceiptsInv, Listed
  <2>2. \A k \in DOMAIN file : file[k].id \in Uploads
    BY <2>1 DEF Receipt
  <2> QED BY <1>2, <2>1, <2>2 DEF ReceiptsInv, Listed
<1>4. /\ \A k \in DOMAIN file : file[k].status \in Terminal <=> file[k].id \in settled'
      /\ settled' \subseteq settled \cup On(file)
      /\ settled \ On(file) \subseteq settled'
  BY <1>1, <1>3, ResettledTells DEF Listed
<1>5. Accounts(file, req', settled')
  <2>1. ASSUME NEW u \in Uploads \ settled', req'[u] = "answered" PROVE u \in On(file)
    <3>1. CASE u \in settled
      BY <1>4, <2>1, <3>1
    <3>2. CASE u \notin settled
      BY <1>2, <2>1, <3>2 DEF ReceiptsInv, Accounts
    <3> QED BY <3>1, <3>2
  <2> QED BY <1>3, <1>4, <2>1 DEF Accounts
<1>6. /\ DOMAIN new = DOMAIN file /\ new \in [DOMAIN file -> Receipt]
      /\ \A k \in DOMAIN file :
           /\ new[k].id = file[k].id
           /\ new[k].status = IF file[k].status = "processing" THEN "queued" ELSE file[k].status
  BY <1>3 DEF Receipt, Statuses
<1> HIDE DEF new
<1>7. Accounts(new, req', settled')
  <2>1. \A k \in DOMAIN file : new[k].status \in Terminal <=> new[k].id \in settled'
    BY <1>4, <1>6 DEF Terminal
  <2> QED BY <1>5, <1>6, <2>1, StatusesChange
<1>8. new \in Seq(Receipt)
  BY <1>7 DEF Accounts, Listed
<1>9. /\ Accounts(Limited(new), req', settled') /\ Bounded(Limited(new))
      /\ ChosenIn(Limited(new)) = ChosenIn(new)
  BY <1>7, <1>8, LimitedAccounts, LimitedIsBounded, LimitedInHand
<1>10. ChosenIn(new) = {}
  <2>1. InHand(new) = {}
    BY <1>6 DEF InHand
  <2> QED BY <2>1 DEF ChosenIn
<1>11. settled' \subseteq {u \in Uploads : req'[u] \in Answers}
  <2>1. On(file) \subseteq {u \in Uploads : req[u] \in Answers}
    BY <1>3, OnPlaces DEF Receipt
  <2> QED BY <1>2, <1>4, <2>1 DEF ReceiptsInv
<1>12. ReceiptsInv'
  BY <1>1, <1>2, <1>9, <1>11, WrittenKeepsReceipts
<1> QED BY <1>1, <1>9, <1>10, <1>12

\* What a step does to the receipts, in terms of those in processing and of
\* those settled: the first only leave it when the attempt settles them, or
\* at a restart, and come to it at a beginning.
LEMMA StepsKeepReceipts ==
  ASSUME Inv, SlotsInv, ReceiptsInv, [Next]_vars
  PROVE  /\ ReceiptsInv'
         /\ \/ /\ attempt.at = "idle"
               /\ Ids(history, Pending) \subseteq ChosenIn(history')
               /\ \/ attempt'.chosen = Ids(history, Pending) /\ attempt'.at = "begun"
                  \/ attempt' = attempt
               /\ UNCHANGED <<settled, restarts>>
            \/ /\ ChosenIn(history') = ChosenIn(history)
               /\ UNCHANGED <<settled, restarts>>
               /\ \/ attempt' = attempt
                  \/ attempt'.chosen = attempt.chosen /\ attempt'.at = "raised"
                  \/ /\ attempt'.chosen = attempt.chosen
                     /\ attempt.at \in {"begun", "locked", "built", "ran"}
                     /\ attempt'.at \in {"locked", "built", "ran", "settling"}
                  \/ attempt.at = "settled" /\ attempt' = NoAttempt
            \/ /\ ChosenIn(history') \subseteq ChosenIn(history) \ attempt.chosen
               /\ settled \ attempt.chosen \subseteq settled'
               /\ \/ attempt'.chosen = attempt.chosen /\ attempt'.at \in {"raised", "settled"}
                  \/ attempt' = NoAttempt
               /\ attempt.at \in {"settling", "raised"}
               /\ UNCHANGED restarts
            \/ ChosenIn(history') = {} /\ attempt' = NoAttempt /\ Restart
<1> DEFINE Begins ==
             /\ attempt.at = "idle"
             /\ Ids(history, Pending) \subseteq ChosenIn(history')
             /\ \/ attempt'.chosen = Ids(history, Pending) /\ attempt'.at = "begun"
                \/ attempt' = attempt
             /\ UNCHANGED <<settled, restarts>>
           Goes ==
             /\ ChosenIn(history') = ChosenIn(history)
             /\ UNCHANGED <<settled, restarts>>
             /\ \/ attempt' = attempt
                \/ attempt'.chosen = attempt.chosen /\ attempt'.at = "raised"
                \/ /\ attempt'.chosen = attempt.chosen
                   /\ attempt.at \in {"begun", "locked", "built", "ran"}
                   /\ attempt'.at \in {"locked", "built", "ran", "settling"}
                \/ attempt.at = "settled" /\ attempt' = NoAttempt
           Settles ==
             /\ ChosenIn(history') \subseteq ChosenIn(history) \ attempt.chosen
             /\ settled \ attempt.chosen \subseteq settled'
             /\ \/ attempt'.chosen = attempt.chosen /\ attempt'.at \in {"raised", "settled"}
                \/ attempt' = NoAttempt
             /\ attempt.at \in {"settling", "raised"}
             /\ UNCHANGED restarts
           Restarts == ChosenIn(history') = {} /\ attempt' = NoAttempt /\ Restart
<1>1. ASSUME NEW u \in Uploads, RequestStep(u) PROVE ReceiptsInv' /\ Goes
  <2>1. UNCHANGED <<attempt, settled, restarts>>
    BY <1>1, RequestKeepsAttempt
  <2>2. CASE Record(u)
    BY <2>1, <2>2, RecordChanges
  <2>3. CASE ~Record(u)
    <3>1. UNCHANGED <<history, file>>
      BY <1>1, <2>3 DEF RequestStep, Arrive, MakeStaging, Complete, Move, Refuse, CleanupFails
    <3>2. \A v \in Uploads :
            /\ req[v] \in Answers => req'[v] \in Answers
            /\ req'[v] = "answered" => req[v] = "answered"
      <4>1. req \in [Uploads -> Places] /\ Answers = {"answered", "refused", "lost"}
        BY DEF SlotsInv, StagingIsOwned, Answers
      <4>2. CASE Arrive(u) \/ MakeStaging(u) \/ Complete(u)
        BY <4>1, <4>2 DEF Arrive, MakeStaging, Complete
      <4>3. CASE Move(u) \/ Refuse(u) \/ CleanupFails(u)
        BY <4>1, <4>3 DEF Move, Refuse, CleanupFails, Holding
      <4> QED BY <1>1, <2>3, <4>2, <4>3 DEF RequestStep
    <3> QED BY <2>1, <3>1, <3>2, RequestsKeepReceipts
  <2> QED BY <2>2, <2>3
<1>2. ASSUME UNCHANGED <<req, history, settled, restarts>>, file' = file \/ file' = history,
             \/ attempt' = attempt
             \/ \E at \in {"locked", "built", "ran", "settling", "raised"} :
                  /\ attempt' = [attempt EXCEPT !.at = at]
                  /\ at # "raised" => attempt.at \in {"begun", "locked", "built", "ran"}
             \/ attempt.at = "settled" /\ attempt' = NoAttempt
      PROVE  ReceiptsInv' /\ Goes
  <2>1. ReceiptsInv'
    BY <1>2, RequestsKeepReceipts
  <2>2. ASSUME NEW at, attempt' = [attempt EXCEPT !.at = at]
        PROVE  attempt'.at = at /\ attempt'.chosen = attempt.chosen
    BY <2>2 DEF Inv, AttemptIsRecord
  <2> QED BY <1>2, <2>1, <2>2
<1>3. ASSUME NEW who, BeginAttempt(who) PROVE ReceiptsInv' /\ Begins
  <2>1. /\ Written(Started(history), TRUE) /\ history' = Started(history)
        /\ req' = req /\ UNCHANGED <<settled, restarts>>
        /\ attempt.at = "idle" /\ attempt'.chosen = Ids(history, Pending) /\ attempt'.at = "begun"
    BY <1>3 DEF BeginAttempt, Saved, Written, requestVars
  <2> QED BY <2>1, StartedIsListed, RewrittenKeepsReceipts
<1>4. ASSUME BeginRaises PROVE ReceiptsInv' /\ Begins
  <2>1. PICK ok \in BOOLEAN : Written(Started(history), ok)
    BY <1>4 DEF BeginRaises
  <2>2. /\ history' = Started(history) /\ attempt.at = "idle"
        /\ UNCHANGED <<req, settled, restarts, attempt>>
    BY <1>4, <2>1 DEF BeginRaises, Written, requestVars
  <2> QED BY <2>1, <2>2, StartedIsListed, RewrittenKeepsReceipts
<1>5. ASSUME NEW t \in Tabs, PageStep(t) PROVE ReceiptsInv' /\ (Begins \/ Goes)
  <2>1. CASE AskRebuild(t)
    <3>1. UNCHANGED <<req, history, settled, restarts, attempt>> /\ (file' = file \/ file' = history)
      BY <2>1 DEF AskRebuild, Flush, Written, requestVars
    <3> QED BY <1>2, <3>1
  <2>2. CASE BeginRebuild(t)
    BY <1>3, <1>4, <2>2 DEF BeginRebuild
  <2>3. CASE ~AskRebuild(t) /\ ~BeginRebuild(t)
    <3>1. UNCHANGED inboxVars
      BY <1>5, <2>3 DEF PageStep, LoadPage, SendReview, Rejected, EnterReview, ChangeReview,
                        RefuseReview, RunUnderWay
    <3> QED BY <1>2, <3>1 DEF inboxVars
  <2> QED BY <2>1, <2>2, <2>3
<1>6. ASSUME AttemptStep PROVE ReceiptsInv' /\ (Begins \/ Goes \/ Settles)
  <2>1. CASE WatcherBegins
    BY <1>3, <1>4, <2>1 DEF WatcherBegins
  <2>2. CASE TakeLock \/ RunFails \/ BuildSite \/ PublishSite
    <3>1. /\ UNCHANGED <<req, history, file, settled, restarts>>
          /\ \E at \in {"locked", "built", "ran", "settling", "raised"} :
               /\ attempt' = [attempt EXCEPT !.at = at]
               /\ at # "raised" => attempt.at \in {"begun", "locked", "built", "ran"}
      BY <2>2 DEF TakeLock, RunFails, BuildSite, PublishSite, RunGoes, requestVars
    <3> QED BY <1>2, <3>1
  <2>3. CASE ReadCandidates
    <3>1. /\ UNCHANGED <<req, history, file, settled, restarts>>
          /\ attempt.at = "ran" /\ attempt' = [attempt EXCEPT !.at = "settling"]
      BY <2>3 DEF ReadCandidates, requestVars
    <3> QED BY <1>2, <3>1
  <2>4. ASSUME NEW ok \in BOOLEAN, Settle(ok) PROVE ReceiptsInv' /\ Settles
    <3>1. SettleReceipts(ok) /\ attempt.at \in {"settling", "raised"} /\ restarts' = restarts
      BY <2>4 DEF Settle, SettleReceipts
    <3>2. \/ attempt'.chosen = attempt.chosen /\ attempt'.at \in {"raised", "settled"}
          \/ attempt' = NoAttempt
      BY <3>1 DEF SettleReceipts, AfterSettling, Inv, AttemptIsRecord
    <3> QED BY <3>1, <3>2, SettleChanges
  <2>5. ASSUME NEW ok \in BOOLEAN, EndAttempt(ok) PROVE ReceiptsInv' /\ Goes
    <3>1. /\ UNCHANGED <<req, history, settled, restarts>> /\ (file' = file \/ file' = history)
          /\ attempt.at = "settled" /\ attempt' = NoAttempt
      BY <2>5 DEF EndAttempt, Flush, Written, requestVars
    <3> QED BY <1>2, <3>1
  <2> QED BY <1>6, <2>1, <2>2, <2>3, <2>4, <2>5 DEF AttemptStep
<1>7. ASSUME Restart PROVE ReceiptsInv' /\ Restarts
  BY <1>7, RestartChanges DEF Restart, RestartServer
<1>8. ASSUME UNCHANGED vars PROVE ReceiptsInv' /\ Goes
  BY <1>2, <1>8 DEF vars, inboxVars
<1> HIDE DEF Begins, Goes, Settles, Restarts
<1>9. ReceiptsInv' /\ (Begins \/ Goes \/ Settles \/ Restarts)
  BY <1>1, <1>5, <1>6, <1>7, <1>8 DEF Next
<1> QED BY <1>9 DEF Begins, Goes, Settles, Restarts

LEMMA HoldsNext ==
  Inv /\ SlotsInv /\ ReceiptsInv /\ AttemptHolds /\ [Next]_vars => ReceiptsInv' /\ AttemptHolds'
<1> SUFFICES ASSUME Inv, SlotsInv, ReceiptsInv, AttemptHolds, [Next]_vars
             PROVE  ReceiptsInv' /\ AttemptHolds'
  OBVIOUS
<1>1. Ids(history, Pending) \subseteq Uploads
  BY StartedIsListed
<1>2. NoAttempt.at = "idle" /\ NoAttempt.chosen = {}
  BY DEF NoAttempt
<1>3. ReceiptsInv'
  BY StepsKeepReceipts
<1>4. AttemptHolds'
  BY <1>1, <1>2, StepsKeepReceipts DEF AttemptHolds
<1> QED BY <1>3, <1>4

LEMMA FileNext == SlotsInv /\ FileIsMoved /\ [Next]_vars => FileIsMoved'
<1> SUFFICES ASSUME SlotsInv, FileIsMoved, [Next]_vars PROVE FileIsMoved'
  OBVIOUS
<1>1. ASSUME UNCHANGED requestVars PROVE FileIsMoved'
  BY <1>1 DEF requestVars, FileIsMoved
<1>2. ASSUME NEW u \in Uploads, RequestStep(u) PROVE FileIsMoved'
  <2>1. /\ req \in [Uploads -> Places]
        /\ staging \in [Uploads -> {"none", "part", "whole"}]
    BY DEF SlotsInv, StagingIsOwned
  <2>2. CASE Arrive(u) \/ MakeStaging(u) \/ Complete(u)
    BY <2>1, <2>2 DEF Arrive, MakeStaging, Complete, FileIsMoved
  <2>3. CASE Move(u)
    BY <2>1, <2>3 DEF Move, FileIsMoved
  <2>4. CASE Refuse(u) \/ CleanupFails(u) \/ Record(u)
    BY <2>1, <2>4 DEF Refuse, CleanupFails, Record, FileIsMoved
  <2> QED BY <1>2, <2>2, <2>3, <2>4 DEF RequestStep
<1>3. CASE Restart
  <2>1. /\ UNCHANGED <<staging, inbox>>
        /\ req' = [u \in Uploads |->
                     IF req[u] \in Holding \cup {"moved"} \/ staging[u] # "none" THEN "lost" ELSE req[u]]
    BY <1>3 DEF Restart, RestartServer
  <2> QED BY <2>1 DEF FileIsMoved, Holding
<1>4. CASE (\E t \in Tabs : PageStep(t)) \/ AttemptStep
  BY <1>1, <1>4, RequestsAreLeftAlone
<1>5. CASE UNCHANGED vars
  BY <1>1, <1>5 DEF vars, inboxVars, requestVars
<1> QED BY <1>2, <1>3, <1>4, <1>5 DEF Next

LEMMA FileInit == Init => FileIsMoved
BY DEF Init, InboxInit, FileIsMoved

RestartsAreBounded == restarts \in 0 .. MaxRestarts

LEMMA RestartsInit == Init => RestartsAreBounded
BY InboxAssumption DEF Init, InboxInit, RestartsAreBounded

LEMMA RestartsNext == RestartsAreBounded /\ [Next]_vars => RestartsAreBounded'
<1> SUFFICES ASSUME RestartsAreBounded, [Next]_vars PROVE RestartsAreBounded'
  OBVIOUS
<1> USE DEF RestartsAreBounded
<1>1. ASSUME NEW u \in Uploads, RequestStep(u) PROVE restarts' = restarts
  BY <1>1, RequestKeepsAttempt
<1>2. CASE (\E t \in Tabs : PageStep(t)) \/ AttemptStep
  BY <1>2, RequestsAreLeftAlone
<1>3. CASE Restart
  BY <1>3, InboxAssumption DEF Restart, RestartServer
<1>4. CASE UNCHANGED vars
  BY <1>4 DEF vars, inboxVars
<1> QED BY <1>1, <1>2, <1>3, <1>4 DEF Next

\* All that the receipts rest on.
InboxInv ==
  Inv /\ SlotsInv /\ ReceiptsInv /\ AttemptHolds /\ FileIsMoved /\ RestartsAreBounded

LEMMA InboxInvariance == Spec => []InboxInv
<1>1. Init => InboxInv
  BY InitInv, SlotsInit, ReceiptsInit, FileInit, RestartsInit DEF InboxInv
<1>2. InboxInv /\ [Next]_vars => InboxInv'
  BY NextInv, SlotsNext, HoldsNext, FileNext, RestartsNext DEF InboxInv
<1> QED BY <1>1, <1>2, PTL DEF Spec

\* What the browser was told is received is on file until it is settled, and
\* its file is in the inbox (receive_browser_upload, limited_upload_history).
THEOREM AcknowledgedStays == Spec => []AcknowledgedIsKept
<1>1. InboxInv => AcknowledgedIsKept
  BY DEF InboxInv, ReceiptsInv, Accounts, FileIsMoved, AcknowledgedIsKept
<1> QED BY <1>1, InboxInvariance, PTL

\* What is settled for good stays so through other uploads, the limit and other
\* attempts: only the attempt that has settled it may judge it again, when the
\* write of the first judgement raises, and a restart that finds an older list
\* on file (_settle_upload_attempt, normalized_upload_history).
SettledStaysSettled ==
  [][restarts' = restarts => settled \ attempt.chosen \subseteq settled']_vars

THEOREM SettledIsTerminal ==
  Spec => /\ SettledStaysSettled
          /\ [](\A e \in ToSet(history) : e.status \in Terminal <=> e.id \in settled)
<1>1. ASSUME InboxInv, [Next]_vars, restarts' = restarts PROVE settled \ attempt.chosen \subseteq settled'
  <2>1. ~Restart
    BY <1>1, InboxAssumption DEF Restart, RestartServer, InboxInv, RestartsAreBounded
  <2> QED BY <1>1, <2>1, StepsKeepReceipts DEF InboxInv
<1>2. InboxInv /\ [Next]_vars => [restarts' = restarts => settled \ attempt.chosen \subseteq settled']_vars
  BY <1>1
<1>3. InboxInv => \A e \in ToSet(history) : e.status \in Terminal <=> e.id \in settled
  BY DEF InboxInv, ReceiptsInv, Accounts, ToSet
<1> QED BY <1>2, <1>3, InboxInvariance, PTL DEF Spec, SettledStaysSettled

\* A receipt that an attempt has chosen is in memory and in processing until the
\* attempt settles it, whatever uploads and pages do meanwhile
\* (_begin_upload_attempt, _settle_upload_attempt).
THEOREM ProcessingIsUnderWay ==
  Spec => [](attempt.at \in {"begun", "locked", "built", "ran", "settling"}
               => attempt.chosen \subseteq Ids(history, {"processing"}))
<1>1. InboxInv => (attempt.at \in {"begun", "locked", "built", "ran", "settling"}
                     => attempt.chosen \subseteq Ids(history, {"processing"}))
  BY InHandIds DEF InboxInv, AttemptHolds
<1> QED BY <1>1, InboxInvariance, PTL

\* An attempt that got under way strands no receipt, whatever raises in it and
\* however it ends (_run_pipeline_once, normalized_upload_history).
THEOREM AttemptsLeaveNothing == Spec => AttemptsStrandNothing
<1>1. ASSUME InboxInv, [Next]_vars, attempt # NoAttempt PROVE Stranded' \subseteq Stranded
  <2>1. attempt.at # "idle" /\ NoAttempt.chosen = {}
    BY <1>1 DEF InboxInv, AttemptHolds, NoAttempt
  <2>2. /\ Stranded = ChosenIn(history) \ attempt.chosen
        /\ Stranded' = ChosenIn(history') \ attempt'.chosen
    BY InHandIds DEF Stranded
  <2>3. attempt.at = "settled" => attempt.chosen \cap ChosenIn(history) = {}
    BY <1>1 DEF InboxInv, AttemptHolds
  <2> QED BY <1>1, <2>1, <2>2, <2>3, StepsKeepReceipts DEF InboxInv
<1>2. InboxInv /\ [Next]_vars => [attempt # NoAttempt => Stranded' \subseteq Stranded]_inboxVars
  BY <1>1
<1> QED BY <1>2, InboxInvariance, PTL DEF Spec, AttemptsStrandNothing

\* The history is limited in memory and on file (limited_upload_history), for
\* attempts change receipts in their places and a restart takes none out.
THEOREM HistoryIsLimited == Spec => [](Bounded(history) /\ Bounded(file))
<1>1. InboxInv => Bounded(history) /\ Bounded(file)
  BY DEF InboxInv, ReceiptsInv
<1> QED BY <1>1, InboxInvariance, PTL

LEMMA ListsAreOfType ==
  ASSUME NEW log, NEW requests, Listed(log, requests)
  PROVE  /\ \A e \in ToSet(log) : e.id \in Uploads /\ e.status \in Statuses
         /\ Cardinality(On(log)) = Len(log)
<1>1. log \in Seq(Receipt) /\ Len(log) \in Nat /\ DOMAIN log = 1 .. Len(log)
  BY DEF Listed
<1>2. \A e \in ToSet(log) : e.id \in Uploads /\ e.status \in Statuses
  <2>1. \A k \in DOMAIN log : log[k] \in Receipt
    BY <1>1
  <2> QED BY <2>1 DEF ToSet, Receipt
<1> DEFINE n == Len(log)
           f == [k \in 1 .. n |-> log[k].id]
<1>3. f \in Injection(1 .. n, On(log)) /\ f \in Surjection(1 .. n, On(log))
  <2>1. On(log) = {log[k].id : k \in 1 .. n}
    BY <1>1, OnPlaces
  <2>2. \A j, k \in 1 .. n : log[j].id = log[k].id => j = k
    BY <1>1 DEF Listed, Distinct
  <2> HIDE DEF n
  <2>3. f \in [1 .. n -> On(log)] /\ \A j, k \in 1 .. n : f[j] = f[k] => j = k
    BY <2>1, <2>2
  <2>4. \A u \in On(log) : \E k \in 1 .. n : f[k] = u
    BY <2>1
  <2> HIDE DEF f
  <2> QED BY <2>3, <2>4 DEF Injection, Surjection, IsInjective
<1>4. IsFiniteSet(1 .. n) /\ Cardinality(1 .. n) = n
  BY <1>1, FS_Interval
<1>5. Cardinality(On(log)) = n
  <2> HIDE DEF n, f
  <2> QED BY <1>3, <1>4, FS_Surjection
<1> QED BY <1>2, <1>5

\* Requests, files and receipts keep their types, and no upload has two
\* receipts (InboxUpload).
THEOREM InboxTypeCorrect == Spec => []InboxTypeOK
<1>1. ASSUME InboxInv PROVE InboxTypeOK
  <2>1. slots \in 0 .. Slots
    <3>1. Cardinality(Held) \in Nat /\ Cardinality(Stuck) \in Nat /\ slots \in Nat
      BY <1>1, UploadSetsAreFinite, FS_CardinalityType DEF InboxInv, SlotsInv, StagingIsOwned
    <3>2. Cardinality(Held) + Cardinality(Stuck) + slots = Slots
      BY <1>1 DEF InboxInv, SlotsInv, SlotsAreAccountedFor, Held, Stuck
    <3> QED BY <3>1, <3>2, InboxAssumption
  <2>2. \A log \in {history, file} :
          /\ \A e \in ToSet(log) : e.id \in Uploads /\ e.status \in Statuses
          /\ Cardinality(On(log)) = Len(log)
    BY <1>1, ListsAreOfType DEF InboxInv, ReceiptsInv, Accounts
  <2> QED BY <1>1, <2>1, <2>2
          DEF InboxTypeOK, InboxInv, SlotsInv, StagingIsOwned, FileIsMoved, ReceiptsInv, AttemptHolds,
              RestartsAreBounded
<1>2. InboxInv => InboxTypeOK
  BY <1>1
<1> QED BY <1>2, InboxInvariance, PTL
-----------------------------------------------------------------------------
(* The project lock, as reviews and attempts use it.                       *)

\* Whoever has the lock does something itself, or dies with the server.
HolderMoves ==
  \/ restarts' # restarts
  \/ lock \in Tabs /\ tab[lock].at = "inside" /\ tab'[lock] # tab[lock]
  \/ lock = attempt.by /\ attempt.at \in {"locked", "built"} /\ attempt' # attempt

\* Neither a review nor an attempt loses the lock to the other, and only the
\* one that has it changes the database or the site.
WritersAreInside ==
  [][/\ lock' # lock => lock = Nobody \/ HolderMoves
     /\ <<cards, events, site>>' # <<cards, events, site>> => HolderMoves]_vars

\* The log only grows, by the entry of one page.
LogIsAppended ==
  [][events' # events =>
       \E t \in Tabs, entry \in Change :
         /\ lock = t /\ tab[t].at = "inside" /\ entry.card = tab[t].card
         /\ entry.to = tab[t].target /\ events' = Append(events, entry)]_vars

Lock == INSTANCE WriterLock
          WITH Writers <- Tabs \cup {Watcher}, inside <- {lock} \ {Nobody}

LEMMA PagesWriteInside ==
  ASSUME Inv, NEW t \in Tabs, PageStep(t)
  PROVE  /\ lock' # lock => lock = Nobody \/ HolderMoves
         /\ <<cards, events, site>>' # <<cards, events, site>> => HolderMoves
<1>1. CASE LoadPage(t) \/ SendReview(t) \/ Rejected(t) \/ AskRebuild(t) \/ RunUnderWay(t)
             \/ BeginRebuild(t)
  BY <1>1 DEF LoadPage, SendReview, Rejected, AskRebuild, RunUnderWay, BeginRebuild
<1>2. CASE EnterReview(t)
  BY <1>2 DEF EnterReview
<1>3. CASE ChangeReview(t) \/ RefuseReview(t)
  <2>1. lock = t /\ tab[t].at = "inside"
    BY <1>3 DEF ChangeReview, RefuseReview, Inv, LockIsHeld
  <2>2. tab'[t].at # "inside"
    <3>1. tab[t] \in Tab /\ DOMAIN tab = Tabs /\ View(tab[t].page).at = "view"
      BY ViewType DEF Inv, ReviewTypeOK, Tab
    <3>2. CASE ChangeReview(t)
      BY <3>1, <3>2 DEF ChangeReview, Changes, Tab
    <3>3. CASE RefuseReview(t)
      BY <3>1, <3>3 DEF RefuseReview, Answer, Changes
    <3> QED BY <1>3, <3>2, <3>3
  <2> QED BY <2>1, <2>2 DEF HolderMoves
<1> QED BY <1>1, <1>2, <1>3 DEF PageStep

LEMMA AttemptsWriteInside ==
  ASSUME Inv, AttemptStep
  PROVE  /\ lock' # lock => lock = Nobody \/ HolderMoves
         /\ <<cards, events, site>>' # <<cards, events, site>> => HolderMoves
<1>1. CASE \/ WatcherBegins \/ (ReadCandidates /\ UNCHANGED reviewVars)
            \/ \E ok \in BOOLEAN : Settle(ok) \/ EndAttempt(ok)
  BY <1>1 DEF WatcherBegins, Settle, EndAttempt, reviewVars
<1>2. CASE TakeLock
  BY <1>2 DEF TakeLock, RunGoes
<1>3. CASE RunFails \/ BuildSite \/ PublishSite
  <2>1. /\ attempt'.at \in {"ran", "raised", "built"}
        /\ attempt'.at = "built" => attempt.at = "locked"
    BY <1>3 DEF RunFails, BuildSite, PublishSite, RunGoes, Inv, AttemptIsRecord
  <2>2. attempt.at \in {"locked", "built"} => lock = attempt.by /\ attempt' # attempt
    BY <2>1 DEF Inv, LockIsHeld
  <2>3. attempt.at \notin {"locked", "built"} => UNCHANGED <<lock, cards, events, site>>
    BY <1>3 DEF RunFails, BuildSite, PublishSite, RunGoes
  <2> QED BY <2>2, <2>3 DEF HolderMoves
<1> QED BY <1>1, <1>2, <1>3 DEF AttemptStep

\* Database, log and site are changed only by the review or the attempt that
\* has the project lock, and neither ends the other's hold of it
\* (change_browser_review, _run_pipeline_once).
THEOREM NothingIsReviewedBesideARun == Spec => WritersAreInside
<1> DEFINE Inside == /\ lock' # lock => lock = Nobody \/ HolderMoves
                     /\ <<cards, events, site>>' # <<cards, events, site>> => HolderMoves
<1>1. ASSUME Inv, RestartsAreBounded, [Next]_vars PROVE [Inside]_vars
  <2>1. ASSUME NEW u \in Uploads, RequestStep(u), UNCHANGED reviewVars PROVE Inside
    BY <2>1 DEF reviewVars
  <2>2. ASSUME NEW t \in Tabs, PageStep(t) PROVE Inside
    BY <1>1, <2>2, PagesWriteInside
  <2>3. CASE AttemptStep
    BY <1>1, <2>3, AttemptsWriteInside
  <2>4. CASE Restart
    BY <1>1, <2>4 DEF Restart, RestartServer, HolderMoves, RestartsAreBounded
  <2> HIDE DEF Inside
  <2> QED BY <1>1, <2>1, <2>2, <2>3, <2>4 DEF Next
<1>2. InboxInv => Inv /\ RestartsAreBounded
  BY DEF InboxInv
<1> QED BY <1>1, <1>2, InboxInvariance, PTL DEF Spec, WritersAreInside

\* The log of reviews is append-only, and an entry says what the page that
\* has the lock asked for (change_document_review).
THEOREM LogStaysAppendOnly == Spec => LogIsAppended
<1> DEFINE Appends == events' # events =>
                        \E t \in Tabs, entry \in Change :
                          /\ lock = t /\ tab[t].at = "inside" /\ entry.card = tab[t].card
                          /\ entry.to = tab[t].target /\ events' = Append(events, entry)
<1>1. ASSUME Inv, [Next]_vars PROVE [Appends]_vars
  <2>1. SUFFICES ASSUME events' # events
        PROVE  \E t \in Tabs, entry \in Change :
                 /\ lock = t /\ tab[t].at = "inside" /\ entry.card = tab[t].card
                 /\ entry.to = tab[t].target /\ events' = Append(events, entry)
    OBVIOUS
  <2>2. PICK t \in Tabs : ChangeReview(t)
    BY <1>1, <2>1, LogGrows
  <2> DEFINE entry == [card |-> tab[t].card, to |-> tab[t].target, from |-> Current(tab[t].card)]
  <2>3. lock = t /\ tab[t].at = "inside" /\ events' = Append(events, entry)
    BY <1>1, <2>2 DEF ChangeReview, Appended, Inv, LockIsHeld
  <2>4. entry \in Change
    <3>1. tab[t].card \in Cards /\ tab[t].target \in Reviews
      BY <1>1, <2>2 DEF ChangeReview, Inv, ReviewTypeOK, Tab
    <3>2. Current(tab[t].card) \in Reviews
      BY <1>1, <3>1, ReviewType DEF Current, Inv, ReviewTypeOK
    <3> QED BY <3>1, <3>2 DEF Change
  <2>5. entry.card = tab[t].card /\ entry.to = tab[t].target
    OBVIOUS
  <2> HIDE DEF entry
  <2> QED BY <2>3, <2>4, <2>5
<1> QED BY <1>1, Invariance, PTL DEF Spec, LogIsAppended

\* Reviews and attempts use the project lock as writers that come in when
\* nobody is inside, and leave (local_review.py, automation.py).
THEOREM ReviewsUseTheLock == Spec => Lock!Spec
<1>1. Init => Lock!Init
  BY DEF Init, Lock!Init
<1>2. ASSUME Inv, Inv', [Next]_vars PROVE [Lock!Next]_({lock} \ {Nobody})
  <2>1. lock' # lock => lock = Nobody \/ lock' = Nobody
    <3>1. ASSUME NEW t \in Tabs, PageStep(t), lock' # lock PROVE lock = Nobody \/ lock' = Nobody
      BY <3>1 DEF PageStep, LoadPage, SendReview, Rejected, EnterReview, ChangeReview,
                  RefuseReview, AskRebuild, RunUnderWay, BeginRebuild
    <3>2. ASSUME AttemptStep, lock' # lock PROVE lock = Nobody \/ lock' = Nobody
      BY <3>2 DEF AttemptStep, WatcherBegins, TakeLock, RunFails, BuildSite, PublishSite,
                  Settle, EndAttempt, reviewVars
    <3> QED BY <1>2, <3>1, <3>2 DEF Next, Restart, vars, reviewVars
  <2>2. /\ lock \in Tabs \cup {Watcher, Nobody} /\ lock' \in Tabs \cup {Watcher, Nobody}
    BY <1>2 DEF Inv, ReviewTypeOK
  <2>3. CASE lock' = lock
    BY <2>3
  <2>4. CASE lock' # lock /\ lock = Nobody
    <3>1. Lock!Enter(lock')
      BY <2>2, <2>4 DEF Lock!Enter
    <3> QED BY <2>2, <2>4, <3>1 DEF Lock!Next
  <2>5. CASE lock' # lock /\ lock' = Nobody
    BY <2>5 DEF Lock!Next, Lock!Leave
  <2> QED BY <2>1, <2>3, <2>4, <2>5
<1> QED BY <1>1, <1>2, Invariance, PTL DEF Spec, Lock!Spec
=============================================================================
