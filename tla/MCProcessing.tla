---------------------------- MODULE MCProcessing ----------------------------
(* Instances of Processing for TLC: one source that splits into two cards. *)
EXTENDS Processing

CONSTANTS s1, d1, d2, retired, unsure

OneSource == {s1}
TwoDocs == {d1, d2}
OneDoc == {d1}
TwoDocSource == [d \in TwoDocs |-> s1]
OneDocSource == [d \in OneDoc |-> s1]
TwoNodes == {retired, unsure}
=============================================================================
