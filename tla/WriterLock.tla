----------------------------- MODULE WriterLock -----------------------------
(***************************************************************************)
(* What those who write the knowledge base take the project lock for: a    *)
(* writer comes in when nobody is inside, and leaves or dies; there is     *)
(* never a second one.  The modules of the commands and of the manager     *)
(* rely on it and have one variable for who is inside; ProjectLock says    *)
(* how far registry and record lock bear that out.                         *)
(***************************************************************************)
CONSTANT Writers

VARIABLE inside \* who is inside

Init == inside = {}

Enter(w) ==
  /\ inside = {}
  /\ inside' = {w}

Leave ==
  /\ inside # {}
  /\ inside' = {}

Next == (\E w \in Writers : Enter(w)) \/ Leave

Spec == Init /\ [][Next]_inside
=============================================================================
