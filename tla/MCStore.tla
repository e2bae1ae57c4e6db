------------------------------ MODULE MCStore -------------------------------
(* An instance of Store for TLC: one Markdown name and one other name.       *)
EXTENDS Store, TLC

CONSTANTS py, jvm, c1, c2, md, bin, b1, b2

OnePython == {py}
OneJava == {jvm}
TwoContents == {c1, c2}
TwoNames == {md, bin}
MarkdownNames == {md}
TwoBuilds == {b1, b2}

\* Contents and builds are only compared with each other.
Symmetry == Permutations(TwoContents) \cup Permutations(TwoBuilds)
=============================================================================
