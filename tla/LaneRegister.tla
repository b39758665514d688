----------------------------- MODULE LaneRegister -----------------------------
(***************************************************************************)
(* What one process of a session may rely on when it reads the lane of the *)
(* other: it learns revisions in increasing order, each of them published  *)
(* in full.  It need not learn every revision, nor the newest one at once. *)
(***************************************************************************)
EXTENDS Naturals

VARIABLES
  sealed,  \* revisions published in full
  applied  \* newest revision the reader has applied, 0 for none

Init == sealed = {} /\ applied = 0

Publish == /\ sealed \subseteq sealed'
           /\ sealed' \subseteq Nat
           /\ UNCHANGED applied

Learn == /\ applied' \in sealed
         /\ applied' > applied
         /\ UNCHANGED sealed

Spec == Init /\ [][Publish \/ Learn]_<<sealed, applied>>

=============================================================================
