----------------------------- MODULE MCJobQueue -----------------------------
(* An instance of JobQueue for TLC: one source, whose rows compete for the   *)
(* worker through all three stages.  JobQueueProofs covers several sources.  *)
EXTENDS JobQueue

CONSTANT s1

OneSource == {s1}
=============================================================================
