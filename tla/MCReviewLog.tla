---------------------------- MODULE MCReviewLog ----------------------------
(* An instance of ReviewLog for TLC: two pages, one card with and without a  *)
(* note, and two uploads.                                                    *)
EXTENDS ReviewLog, TLC

CONSTANTS t1, t2, u1, u2, c1

TwoTabs == {t1, t2}
TwoUploads == {u1, u2}
OneCard == {c1}
OneVerdict == {"unverified"}
TwoNotes == {"", "why"}
Unreviewed == <<"unverified", "">>

Symmetry == Permutations(TwoTabs) \cup Permutations(TwoUploads)
=============================================================================
