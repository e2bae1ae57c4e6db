--------------------------- MODULE MCPublication ----------------------------
(* Instances of Publication for TLC. *)
EXTENDS Publication

CONSTANTS a, b

TwoLegacy == {a, b}
=============================================================================
