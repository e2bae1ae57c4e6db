------------------------- MODULE MCManagerInstance -------------------------
(* An instance of ManagerInstance for TLC: two terminals, two starts.      *)
EXTENDS ManagerInstance, TLC

CONSTANTS a, b, i1, i2, p1, r1

TwoCommands == {a, b}
TwoInstances == {i1, i2}
OnePort == {p1}
OneReceipt == {r1}

Symmetry == Permutations(TwoCommands) \cup Permutations(TwoInstances)
=============================================================================
