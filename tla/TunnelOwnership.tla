---------------------------- MODULE TunnelOwnership ----------------------------
(***************************************************************************)
(* What the owner journal and its leases promise: a start attempt offers   *)
(* the system tunnel once, at most one Extension process owns it, and the  *)
(* ownership ends by the owner's release or after the owner's death.       *)
(***************************************************************************)
EXTENDS Naturals

CONSTANTS Ext, NoExt

VARIABLES
  stage,     \* of the current attempt: free, offered, owned, fenced
  attempt,   \* the current attempt, 0 if there is none
  owner,     \* the Extension that owns the tunnel
  issued,    \* the newest attempt id
  retired,   \* attempts whose ownership ended
  ran,       \* Extension processes that ever ran
  live       \* those still running

vars == <<stage, attempt, owner, issued, retired, ran, live>>

Init ==
  /\ stage = "free" /\ attempt = 0 /\ owner = NoExt
  /\ issued = 0 /\ retired = {} /\ ran = {} /\ live = {}

Start(e) ==
  /\ e \notin ran
  /\ ran' = ran \cup {e} /\ live' = live \cup {e}
  /\ UNCHANGED <<stage, attempt, owner, issued, retired>>

Crash(e) ==
  /\ e \in live
  /\ live' = live \ {e}
  /\ UNCHANGED <<stage, attempt, owner, issued, retired, ran>>

\* An attempt id is reserved; its start may still be given up.
Reserve ==
  /\ issued' = issued + 1
  /\ UNCHANGED <<stage, attempt, owner, retired, ran, live>>

Offer ==
  /\ stage = "free"
  /\ issued # 0 /\ issued \notin retired
  /\ stage' = "offered" /\ attempt' = issued
  /\ UNCHANGED <<owner, issued, retired, ran, live>>

Take(e) ==
  /\ stage = "offered" /\ e \in live
  /\ stage' = "owned" /\ owner' = e
  /\ UNCHANGED <<attempt, issued, retired, ran, live>>

\* A replacement process takes the tunnel over from a dead owner.
TakeOver(e) ==
  /\ stage = "owned" /\ owner \notin live /\ e \in live
  /\ owner' = e
  /\ UNCHANGED <<stage, attempt, issued, retired, ran, live>>

Fence ==
  /\ stage = "offered"
  /\ stage' = "fenced"
  /\ UNCHANGED <<attempt, owner, issued, retired, ran, live>>

Retire ==
  /\ stage' = "free" /\ attempt' = 0 /\ owner' = NoExt
  /\ retired' = retired \cup {attempt}
  /\ UNCHANGED <<issued, ran, live>>

\* The owner finished its cleanup.
Release == stage = "owned" /\ owner \in live /\ Retire

\* An attempt nobody owns, or whose owner died, is removed.
Reclaim ==
  /\ stage \in {"offered", "fenced"} \/ (stage = "owned" /\ owner \notin live)
  /\ Retire

Next ==
  \/ \E e \in Ext : Start(e) \/ Crash(e) \/ Take(e) \/ TakeOver(e)
  \/ Reserve \/ Offer \/ Fence \/ Release \/ Reclaim

Spec == Init /\ [][Next]_vars
================================================================================
