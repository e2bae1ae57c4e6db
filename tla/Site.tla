-------------------------------- MODULE Site --------------------------------
(***************************************************************************)
(* What automation.py promises the readers of the site: there is one       *)
(* current build, it is only ever replaced by a newer build that was       *)
(* verified, and no crash or failed run takes it away.                     *)
(*                                                                         *)
(* Builds are numbered in the order they are made; 0 is no build.          *)
(***************************************************************************)
EXTENDS Naturals

VARIABLES shown,  \* the build readers have, or get back after a recovery
          ready   \* the verified build about to replace it, or 0

siteVars == <<shown, ready>>

SiteInit == shown \in Nat /\ ready = 0

Verify ==
  /\ ready' > shown
  /\ UNCHANGED shown

Replace ==
  /\ ready # 0
  /\ shown' = ready
  /\ ready' = 0

GiveUp ==
  /\ ready' = 0
  /\ UNCHANGED shown

SiteNext == Verify \/ Replace \/ GiveUp

SiteSpec == SiteInit /\ [][SiteNext]_siteVars
=============================================================================
