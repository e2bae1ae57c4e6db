--------------------------- MODULE MCLocalManager ---------------------------
(* Instances of LocalManager for TLC. *)
EXTENDS LocalManager

CONSTANTS u1, f1, e1

OneUpload == {u1}
OneDrop == {f1}
OneEditor == {e1}
Nothing == {}
=============================================================================
