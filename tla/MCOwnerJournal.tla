----------------------------- MODULE MCOwnerJournal -----------------------------
(* Two incarnations of the UI process and two of the VPN Extension. *)
EXTENDS OwnerJournal, TLC

CONSTANTS u1, u2, e1, e2

TwoUi == {u1, u2}
TwoExt == {e1, e2}
Symmetric == Permutations(TwoUi) \cup Permutations(TwoExt)
=================================================================================
