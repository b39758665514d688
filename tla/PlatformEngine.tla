---------------------------- MODULE PlatformEngine ----------------------------
(***************************************************************************)
(* What the engine's operations do to its platform fields.  The UI process *)
(* and the VPN Extension process run the same engine; each publishes its   *)
(* fields as a frame the other one applies.  PlatformSession says when     *)
(* these operations run.                                                   *)
(***************************************************************************)
EXTENDS Naturals

Outcomes   == {"Idle", "Pending", "Connected", "Failed", "Cancelled"}
Terminal   == {"Failed", "Cancelled"}
Lifecycles == {"Disconnected", "Connecting", "Establishing", "Connected",
               "Disconnecting", "Failed"}

\* att: platform_start_attempt_id (0: empty)   out: platform_start_outcome
\* attd: platform_extension_attached           stop: platform_stop_requested
\* clean: platform_vpn_cleanup_complete        own: platform_extension_owner_*
\* start, run: platform_vpn_starting, _running life: snapshot.lifecycle, where
\*   Connecting stands for Authenticating too  hand: platform_session_handoff
\* lease: attempt of the lease guard stored
\* native: pending_native or running_native; "foreign" is a running session that an
\*   earlier attempt or generation started
Engine ==
  [att : Nat, out : Outcomes, attd : BOOLEAN, stop : BOOLEAN, clean : BOOLEAN,
   start : BOOLEAN, run : BOOLEAN, life : Lifecycles, own : Nat, hand : BOOLEAN,
   lease : Nat, native : {"none", "pending", "running", "foreign"}]

NewEngine ==
  [att |-> 0, out |-> "Idle", attd |-> FALSE, stop |-> FALSE, clean |-> FALSE,
   start |-> FALSE, run |-> FALSE, life |-> "Disconnected", own |-> 0, hand |-> FALSE,
   lease |-> 0, native |-> "none"]

FrameOf ==
  [att : Nat, out : Outcomes, attd : BOOLEAN, stop : BOOLEAN, clean : BOOLEAN,
   start : BOOLEAN, run : BOOLEAN, life : Lifecycles, own : Nat, hand : BOOLEAN]

\* persist_platform_locked: the state a frame carries.
Frame(x) ==
  [att |-> x.att, out |-> x.out, attd |-> x.attd, stop |-> x.stop, clean |-> x.clean,
   start |-> x.start, run |-> x.run \/ x.native = "running", life |-> x.life,
   own |-> x.own, hand |-> x.hand]

NoFrame == Frame(NewEngine)

Ended(x) == x.out \in Terminal

-----------------------------------------------------------------------------
(* apply_platform_envelope_locked, for a newer frame of the same attempt   *)

LifeAfter(x, f, running, starting) ==
  IF running THEN IF x.life \in {"Connecting", "Establishing"} THEN "Connected" ELSE x.life
  ELSE IF starting
  THEN IF x.life \in {"Connected", "Failed"} THEN x.life ELSE "Establishing"
  ELSE IF f.out = "Cancelled"
  THEN IF x.life = "Failed" THEN x.life ELSE "Disconnected"
  ELSE IF f.out = "Failed" \/ f.life = "Failed"
  THEN IF x.life = "Disconnected" THEN x.life ELSE "Failed"
  ELSE IF /\ f.out # "Pending" /\ f.life = "Disconnected"
          /\ x.run \/ x.start
          /\ x.life \in {"Connected", "Establishing"}
  THEN "Disconnected" ELSE x.life

\* Mutant: a terminal engine takes the fields of a frame that is not.
SettleReopening(x, f) ==
  IF f.out \in Terminal
  THEN [x EXCEPT !.out = f.out, !.start = FALSE, !.run = FALSE, !.clean = f.clean]
  ELSE [x EXCEPT !.run = f.run, !.start = ~f.run /\ f.start, !.clean = FALSE,
                 !.out = IF f.run THEN "Connected" ELSE @]

\* A terminal frame decides the outcome; a terminal engine ignores any other.
Settle(x, f) ==
  IF f.out \in Terminal
  THEN [x EXCEPT !.out = f.out, !.start = FALSE, !.run = FALSE, !.clean = f.clean]
  ELSE IF Ended(x) THEN x
  ELSE [x EXCEPT !.run = f.run, !.start = ~f.run /\ f.start, !.clean = FALSE,
                 !.out = IF f.run /\ @ = "Pending" THEN "Connected" ELSE @]

Apply(x, f, isUi) ==
  LET y == [Settle(x, f) EXCEPT
              !.native = IF isUi /\ (f.attd \/ f.run \/ f.out \in Terminal) THEN "none" ELSE @,
              !.stop = @ \/ f.stop,
              !.own = IF isUi THEN f.own ELSE @,
              !.attd = IF f.out \in Terminal THEN f.attd ELSE @ \/ f.attd]
      running == f.out \notin Terminal /\ (y.native = "running" \/ y.run)
  IN [y EXCEPT
        !.out = IF ~running /\ @ = "Pending" /\ f.life = "Failed" THEN "Failed" ELSE @,
        !.life = LifeAfter(x, f, running, y.start),
        !.lease = IF y.clean THEN 0 ELSE @]

\* The Extension takes a new attempt over from the UI's frame.
Adopt(x, f) ==
  LET y == [x EXCEPT !.att = f.att, !.out = f.out, !.attd = f.attd, !.stop = f.stop,
                     !.own = f.own, !.clean = f.clean,
                     !.native = IF @ = "running" THEN "foreign" ELSE @]
  IN IF f.start /\ f.out = "Pending"
     THEN [y EXCEPT !.start = TRUE, !.run = FALSE, !.life = "Establishing"] ELSE y

-----------------------------------------------------------------------------
(* UI engine *)

\* prepare_connect up to the authentication: the attempt id is forgotten, the
\* stop request, cleanup report and issuer lease of the old attempt are not.
PrepareConnect(x) ==
  [x EXCEPT !.run = FALSE, !.start = FALSE, !.att = 0, !.out = "Idle", !.attd = FALSE,
            !.hand = FALSE, !.life = "Connecting"]

PrepareReady(x) ==
  [x EXCEPT !.native = "pending", !.start = TRUE, !.hand = TRUE, !.life = "Establishing"]

PrepareRejected(x) ==
  [x EXCEPT !.native = "none", !.start = FALSE, !.run = FALSE, !.life = "Failed"]

\* begin_platform_vpn_start_for_intent refuses to begin in any other state.
CanBegin(x) == x.out # "Pending" /\ (x.att = 0 \/ x.clean) /\ ~x.run

BeginStart(x, a) ==
  [x EXCEPT !.lease = a, !.att = a, !.out = "Pending", !.attd = FALSE, !.stop = FALSE,
            !.own = 0, !.clean = FALSE, !.start = TRUE, !.run = FALSE,
            !.life = "Establishing"]

\* claim_current_platform_vpn_stop for the attempt this engine owns.
ClaimStop(x) ==
  IF x.out = "Pending"
  THEN [x EXCEPT !.out = "Cancelled", !.start = FALSE, !.run = FALSE, !.stop = TRUE]
  ELSE [x EXCEPT !.stop = TRUE]

\* heartbeat_watchdog_expired, and an owner lease found released.
OwnerFailed(x) == [x EXCEPT !.run = FALSE, !.start = FALSE, !.out = "Failed", !.life = "Failed"]

\* recover_platform_vpn_cleanup_after_confirmed_stop, after the deletion.
Recovered(x) ==
  [x EXCEPT !.start = FALSE, !.run = FALSE, !.clean = TRUE, !.attd = FALSE, !.stop = TRUE,
            !.own = 0, !.lease = 0,
            !.out = IF @ = "Failed" THEN @ ELSE "Cancelled",
            !.life = IF x.out = "Failed" THEN @ ELSE "Disconnected"]

-----------------------------------------------------------------------------
(* Both engines *)

\* Mutant: the outcome is settled without the lifecycle.
FailQuietly(x) ==
  [x EXCEPT !.start = FALSE, !.run = FALSE, !.hand = FALSE, !.native = "none",
            !.out = IF @ = "Pending" THEN "Failed" ELSE @]

\* apply_platform_vpn_failed_locked
Fail(x) ==
  [x EXCEPT !.start = FALSE, !.run = FALSE, !.hand = FALSE, !.native = "none",
            !.out = IF @ = "Pending" THEN "Failed" ELSE @, !.life = "Failed"]

\* disconnect_inner before and after the join and the sleep.
Disconnecting(x) ==
  [x EXCEPT !.start = FALSE, !.run = FALSE, !.stop = TRUE, !.native = "none",
            !.out = IF @ = "Failed" THEN @ ELSE "Cancelled", !.life = "Disconnecting"]

\* Mutant: an outcome is written into the lifecycle.
DisconnectedIdle(x) ==
  [x EXCEPT !.run = FALSE, !.start = FALSE, !.life = "Idle", !.hand = FALSE]

Disconnected(x) ==
  [x EXCEPT !.run = FALSE, !.start = FALSE, !.life = "Disconnected", !.hand = FALSE]

-----------------------------------------------------------------------------
(* Extension engine *)

\* bind_platform_vpn_start: a fresh core reopens a connected attempt.
Reopen(x) ==
  IF x.out = "Connected" /\ x.native \notin {"running", "foreign"}
  THEN [x EXCEPT !.out = "Pending", !.start = TRUE, !.run = FALSE, !.clean = FALSE] ELSE x

Bound(x, p) == [x EXCEPT !.lease = x.att, !.own = p, !.attd = TRUE,
                         !.clean = IF x.attd THEN @ ELSE FALSE]

\* platform_attempt_accepts_updates
AcceptsUpdates(x, a) == x.att = a /\ x.attd /\ x.out \in {"Pending", "Connected"}

Starting(x) == [x EXCEPT !.start = TRUE, !.run = FALSE, !.life = "Establishing"]

Prepared(x) == [x EXCEPT !.native = "pending", !.start = TRUE, !.life = "Establishing"]

Running(x) ==
  [x EXCEPT !.native = "running", !.run = TRUE, !.start = FALSE, !.life = "Connected",
            !.out = IF @ = "Pending" THEN "Connected" ELSE @]

\* tick: the native session of another attempt, and the one that still runs after
\* a terminal verdict, are stopped.
Orphaned(x) == x.native = "foreign" \/ (x.native = "running" /\ Ended(x))
StopOrphan(x) ==
  IF Orphaned(x) THEN [x EXCEPT !.native = "none", !.run = FALSE, !.start = FALSE] ELSE x

\* on_native_session_ended, with an error or without one.
NativeEnded(x, failed) ==
  LET y == [x EXCEPT !.native = "none", !.run = FALSE, !.start = FALSE]
  IN IF x.life \in {"Disconnected", "Disconnecting", "Failed"} \/ Ended(x) THEN y
     ELSE IF failed \/ (x.run /\ x.out = "Connected")
     THEN [y EXCEPT !.out = "Failed", !.life = "Failed"]
     ELSE [y EXCEPT !.out = IF @ = "Pending" THEN "Cancelled" ELSE @, !.life = "Disconnected"]

\* Mutant: the outcome and the stop request are not looked at.
UnhealthyLifecycle(x, a) == x.att # a \/ ~x.attd \/ x.life = "Disconnected"

\* extension_tick reports anything but a healthy or starting session.
Unhealthy(x, a) ==
  x.att # a \/ x.stop \/ Ended(x) \/ ~x.attd \/ x.life \in {"Disconnected", "Failed"}

\* complete_platform_vpn_cleanup, after the exact deletion.
CleanedUp(x) ==
  [x EXCEPT !.clean = TRUE, !.attd = FALSE, !.stop = TRUE, !.own = 0, !.lease = 0]
===============================================================================
