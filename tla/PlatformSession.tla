---------------------------- MODULE PlatformSession ----------------------------
(***************************************************************************)
(* One VPN session between two processes: the UI process (reducer, engine  *)
(* and the VpnPlugin operation chain) and the VPN Extension process        *)
(* (ability and engine).  Each engine publishes its fields as a frame in   *)
(* its own shared-memory lane; a lane is a register, so a newer frame      *)
(* replaces one the peer has not read.  The owner journal and its leases   *)
(* are atomic here: OwnerJournal models their critical sections one by one.*)
(*                                                                         *)
(* An engine operation runs under the engine's mutex and is one action;    *)
(* every await of the ArkTS side and of the async engine functions is a    *)
(* boundary between two actions.  An Extension process hosts one ability;  *)
(* the UI process does not restart.                                        *)
(***************************************************************************)
EXTENDS PlatformEngine, Sequences

CONSTANTS
  MaxConnect,   \* bound on the connects the user or auto-reconnect asks for
  MaxInc,       \* bound on the incarnations of the Extension process
  Faults        \* what the environment may do to the session

ASSUME SessionBounds == MaxConnect \in Nat /\ MaxInc \in Nat
ASSUME FaultKinds ==
  Faults \subseteq {"dispatch", "native", "connection", "destroy", "osStop", "deadline",
                    "stall", "crash", "peer", "quit"}

\* A connect leads to at most one start attempt.
Attempts == 1 .. MaxConnect

VARIABLES
  ui, uiLane, uiFresh,    \* UI engine, its last frame, not yet applied by the Extension?
  ext, extLane, extFresh, \* Extension engine, its last frame, not yet applied by the UI?
  journal,   \* the owner journal
  issued,    \* newest attempt id
  taps,      \* connects asked for
  uiTask,    \* async engine call of the UI: none, auth, disconnect, closing
  jsStop,    \* a stop-vpn bridge call is on its way to the plugin
  epoch,     \* platform_vpn_intent_epoch
  fence,     \* platform_os_stop_{epoch,attempt_id,in_flight}
  chain, op, \* VpnPlugin's operation chain and the operation it runs
  ability,   \* Extension process: absent, up, destroyed (ability gone, process left)
  inc,       \* incarnation of the Extension process
  wants,     \* attempts whose Want is on its way to the Extension
  late,      \* a terminal-delivery acknowledgement read but not published yet
  step, cur, \* request handler: where it awaits, and the attempt it handles
  req,       \* inFlightAttemptId: attempt of the newest request, 0 if it ended
  act, tun,  \* activeAttemptId; tunFd >= 0
  job,       \* native work in progress: none, prepare, attach, or a stale attach
  conn,      \* the system's VpnConnection: none, creating, open
  cleanup    \* pendingCleanup: [stage, att]

uiVars      == <<ui, uiLane, uiFresh>>
extVars     == <<ext, extLane, extFresh>>
sharedVars  == <<journal, issued>>
shellVars   == <<taps, uiTask, jsStop>>
pluginVars  == <<epoch, fence, chain, op>>
procVars    == <<ability, inc, wants, late>>
handlerVars == <<step, cur, req, act, tun>>
tunnelVars  == <<job, conn, cleanup>>
abilityVars == <<procVars, handlerVars, tunnelVars>>
vars == <<uiVars, extVars, sharedVars, shellVars, pluginVars, abilityVars>>

NoJournal == [phase |-> "Missing", att |-> 0, ext |-> 0]
NoFence   == [epoch |-> 0, att |-> 0, busy |-> FALSE]
NoOp      == [kind |-> "none", epoch |-> 0, att |-> 0, stage |-> "none", done |-> FALSE]
NoCleanup == [stage |-> "none", att |-> 0]

-----------------------------------------------------------------------------
(* sync_platform_locked, which every engine operation starts with, and     *)
(* persist_platform_locked                                                 *)

UiMatch  == extFresh /\ ui.att # 0 /\ extLane.att = ui.att
ExtMatch == uiFresh /\ ext.att # 0 /\ uiLane.att = ext.att
UiSynced  == IF UiMatch THEN Apply(ui, extLane, TRUE) ELSE ui
ExtSynced == IF ExtMatch THEN Apply(ext, uiLane, FALSE) ELSE ext

UiPublish(x)  == ui' = x /\ uiLane' = Frame(x) /\ uiFresh' = TRUE
UiQuiet(x)    == ui' = x /\ UNCHANGED <<uiLane, uiFresh>>
ExtPublish(x) == ext' = x /\ extLane' = Frame(x) /\ extFresh' = TRUE
ExtQuiet(x)   == ext' = x /\ UNCHANGED <<extLane, extFresh>>

\* The UI consumed the Extension's frame, and the other way round.
UiRead  == extFresh' = (extFresh /\ ~UiMatch) /\ UNCHANGED <<ext, extLane>>
ExtRead == uiFresh' = (uiFresh /\ ~ExtMatch) /\ UNCHANGED <<ui, uiLane>>

\* Leases are flocks: they end with the process that stores them.
IssuerHeld(a) == ui.lease = a
ExtLeaseFree  == ability = "absent" \/ ext.lease = 0

Init ==
  /\ ui = NewEngine /\ uiLane = NoFrame /\ uiFresh = FALSE
  /\ ext = NewEngine /\ extLane = NoFrame /\ extFresh = FALSE
  /\ journal = NoJournal /\ issued = 0
  /\ taps = 0 /\ uiTask = "none" /\ jsStop = FALSE
  /\ epoch = 0 /\ fence = NoFence /\ chain = <<>> /\ op = NoOp
  /\ ability = "absent" /\ inc = 0 /\ wants = {} /\ late = NoFrame
  /\ step = "idle" /\ cur = 0 /\ req = 0 /\ act = 0 /\ tun = FALSE
  /\ job = "none" /\ conn = "none" /\ cleanup = NoCleanup

-----------------------------------------------------------------------------
(* The UI: reducer and engine                                              *)

\* ToggleConnect or auto-reconnect -> start_connect -> prepare_connect.  The task
\* of an earlier disconnect has begun by the time somebody connects; if it is still
\* joining, the new generation makes the rest of it do nothing.
Connect ==
  /\ ui.life \in {"Disconnected", "Failed"}
  /\ uiTask # "disconnect"
  /\ ui.native = "none"
  /\ taps < MaxConnect
  /\ taps' = taps + 1
  /\ uiTask' = "auth"
  /\ UiPublish(PrepareConnect(ui))
  /\ UNCHANGED <<extVars, sharedVars, jsStop, pluginVars, abilityVars>>

\* prepare_connect ends; request_start_vpn reaches the plugin, which joins a
\* start request that has not settled instead of queueing a second one.
\* An authentication takes longer than a bridge call to be delivered.
StartOutstanding == op.kind = "start" \/ \E i \in DOMAIN chain : chain[i].kind = "start"

Authenticated ==
  /\ uiTask = "auth"
  /\ ~jsStop
  /\ uiTask' = "none"
  /\ UiPublish(PrepareReady(ui))
  /\ IF StartOutstanding THEN UNCHANGED <<epoch, chain>>
     ELSE /\ epoch' = epoch + 1
          /\ chain' = Append(chain, [NoOp EXCEPT !.kind = "start", !.epoch = epoch + 1])
  /\ UNCHANGED <<extVars, sharedVars, taps, jsStop, fence, op, abilityVars>>

AuthFailed ==
  /\ uiTask = "auth"
  /\ uiTask' = "none"
  /\ UiPublish(PrepareRejected(ui))
  /\ UNCHANGED <<extVars, sharedVars, taps, jsStop, pluginVars, abilityVars>>

\* ToggleConnect when Connected -> engine_disconnect: the bridge call and the
\* engine's own disconnect proceed side by side.
Disconnect ==
  /\ ui.life = "Connected"
  /\ uiTask = "none"
  /\ uiTask' = "disconnect"
  /\ jsStop' = TRUE
  /\ UNCHANGED <<uiVars, extVars, sharedVars, taps, pluginVars, abilityVars>>

DisconnectBegin ==
  /\ uiTask = "disconnect"
  /\ IF ui.life = "Disconnected"
     THEN uiTask' = "none" /\ UNCHANGED uiVars
     ELSE uiTask' = "closing" /\ UiPublish(Disconnecting(ui))
  /\ UNCHANGED <<extVars, sharedVars, taps, jsStop, pluginVars, abilityVars>>

DisconnectEnd ==
  /\ uiTask = "closing"
  /\ uiTask' = "none"
  /\ IF ui.life \in {"Disconnecting", "Connected"}
     THEN UiPublish(Disconnected(ui)) ELSE UNCHANGED uiVars
  /\ UNCHANGED <<extVars, sharedVars, taps, jsStop, pluginVars, abilityVars>>

\* tick: sync, then refresh_platform_vpn_owner_liveness_locked.
OwnerLost(x) ==
  /\ x.attd /\ ~x.clean /\ x.out \in {"Pending", "Connected"}
  /\ ExtLeaseFree
  /\ journal = [phase |-> "Attached", att |-> x.att, ext |-> x.own]

UiTick ==
  /\ UiMatch \/ OwnerLost(ui)
  /\ IF OwnerLost(UiSynced) THEN UiPublish(OwnerFailed(UiSynced)) ELSE UiQuiet(UiSynced)
  /\ UiRead
  /\ UNCHANGED <<sharedVars, shellVars, pluginVars, abilityVars>>

\* heartbeat_watchdog_expired: the Extension's frame stayed the same too long.
Watchdog ==
  /\ "stall" \in Faults
  /\ ui.run /\ extLane.run /\ ui.att # 0 /\ extLane.att = ui.att /\ ~extFresh
  /\ UiPublish(OwnerFailed(ui))
  /\ UNCHANGED <<extVars, sharedVars, shellVars, pluginVars, abilityVars>>

-----------------------------------------------------------------------------
(* VpnPlugin: stop requests                                                *)

\* The UI engine still owes the cleanup of its attempt.
Owes(x) == x.att # 0 /\ ~x.clean

\* claim_current_platform_vpn_stop fails: StopIsClaimable says that it never does.
ClaimConflict(x) ==
  IF journal.phase = "Missing" THEN Owes(x)
  ELSE \/ fence.epoch # 0 /\ fence.att # journal.att
       \/ Owes(x) /\ x.att # journal.att

\* requestStopVpnWithContext.
\* A journal no engine state belongs to is claimed too; without a journal a
\* retained fence keeps its attempt, and otherwise there is nothing to fence.
StopClaimed ==
  /\ jsStop /\ ~fence.busy /\ ~ClaimConflict(UiSynced)
  /\ jsStop' = FALSE /\ epoch' = epoch + 1
  /\ LET owned == journal.phase # "Missing"
         a == IF owned THEN journal.att ELSE fence.att
     IN /\ fence' = IF owned \/ fence.epoch # 0
                    THEN [epoch |-> epoch + 1, att |-> a, busy |-> FALSE] ELSE fence
        /\ chain' = Append(chain, [NoOp EXCEPT !.kind = "stop", !.epoch = epoch + 1,
                                              !.att = a, !.done = (a = 0)])
        /\ IF owned /\ Owes(UiSynced) THEN UiPublish(ClaimStop(UiSynced)) ELSE UiQuiet(UiSynced)
  /\ UiRead
  /\ journal' = [journal EXCEPT !.phase = IF @ = "Pending" THEN "Stopping" ELSE @]
  /\ UNCHANGED <<issued, taps, uiTask, op, abilityVars>>

ChainNext ==
  /\ op = NoOp /\ chain # <<>>
  /\ op' = [Head(chain) EXCEPT !.stage = IF Head(chain).kind = "start" THEN "begin" ELSE "request"]
  /\ chain' = Tail(chain)
  /\ UNCHANGED <<uiVars, extVars, sharedVars, shellVars, epoch, fence, abilityVars>>

In(kind, stage) == op.kind = kind /\ op.stage = stage
Goto(stage) == op' = [op EXCEPT !.stage = stage]
OpEnds == op' = NoOp

\* canDispatchPlatformVpnStop, and begin_platform_vpn_os_stop's own check.
CanDispatch ==
  /\ epoch = op.epoch
  /\ \/ fence = [epoch |-> op.epoch, att |-> op.att, busy |-> FALSE]
     \/ op.att = 0 /\ fence.epoch = 0

\* A superseded stop is dropped; the fence it claimed stays.
StopSuperseded ==
  /\ In("stop", "request") \/ In("stop", "os")
  /\ ~CanDispatch
  /\ OpEnds
  /\ UNCHANGED <<uiVars, extVars, sharedVars, shellVars, epoch, fence, chain, abilityVars>>

\* request_platform_vpn_stop: an attached owner is asked to clean up first.
StopRequest ==
  /\ In("stop", "request") /\ CanDispatch
  /\ IF op.att = 0 \/ UiSynced.att # op.att
     THEN Goto("os") /\ IF op.att = 0 THEN UNCHANGED <<uiVars, extVars>>
                       ELSE UiQuiet(UiSynced) /\ UiRead
     ELSE /\ Goto(IF UiSynced.clean \/ UiSynced.attd THEN "coop" ELSE "os")
          /\ IF UiSynced.attd /\ ~UiSynced.clean /\ ~UiSynced.stop
             THEN UiPublish([UiSynced EXCEPT !.stop = TRUE]) ELSE UiQuiet(UiSynced)
          /\ UiRead
  /\ UNCHANGED <<sharedVars, shellVars, epoch, fence, chain, abilityVars>>

\* await_platform_vpn_stop raced against the cooperative timeout.
StopCooperated ==
  /\ In("stop", "coop")
  /\ \/ UiSynced.att # op.att /\ OpEnds
     \/ /\ UiSynced.att = op.att
        /\ ~UiSynced.run /\ ~UiSynced.start /\ UiSynced.clean /\ Ended(UiSynced)
        /\ op' = [op EXCEPT !.stage = "os", !.done = TRUE]
  /\ UiQuiet(UiSynced) /\ UiRead
  /\ UNCHANGED <<sharedVars, shellVars, epoch, fence, chain, abilityVars>>

StopImpatient ==
  /\ In("stop", "coop")
  /\ Goto("os")
  /\ UNCHANGED <<uiVars, extVars, sharedVars, shellVars, epoch, fence, chain, abilityVars>>

\* begin_platform_vpn_os_stop, then stopVpnExtensionAbility.
StopOs ==
  /\ In("stop", "os") /\ CanDispatch
  /\ fence' = [epoch |-> op.epoch, att |-> op.att, busy |-> TRUE]
  /\ Goto("confirm")
  /\ UNCHANGED <<uiVars, extVars, sharedVars, shellVars, epoch, chain, abilityVars>>

\* Mutant: a confirmed stop needs no recovery.
StopConfirmedFinal ==
  /\ In("stop", "confirm")
  /\ ability # "up"
  /\ fence' = NoFence
  /\ OpEnds
  /\ UNCHANGED <<uiVars, extVars, sharedVars, shellVars, epoch, chain, abilityVars>>

\* The system settles the stop once no ability runs.
StopConfirmed ==
  /\ In("stop", "confirm")
  /\ ability # "up"
  /\ fence' = NoFence
  /\ IF op.done THEN OpEnds ELSE Goto("recover")
  /\ UNCHANGED <<uiVars, extVars, sharedVars, shellVars, epoch, chain, abilityVars>>

StopRejected ==
  /\ "osStop" \in Faults
  /\ In("stop", "confirm")
  /\ fence' = [fence EXCEPT !.busy = FALSE]
  /\ OpEnds
  /\ UNCHANGED <<uiVars, extVars, sharedVars, shellVars, epoch, chain, abilityVars>>

\* Mutant: the confirmed stop is taken for the death of an attached owner.
OwnerGoneStopped(x) ==
  CASE journal.phase = "Stopping" -> TRUE
    [] journal.phase = "Pending"  -> \/ x.att = op.att /\ ~x.attd /\ x.stop /\ Ended(x)
                                     \/ ~IssuerHeld(op.att)
    [] journal.phase = "Attached" -> TRUE

\* One turn of recover_platform_vpn_cleanup_after_confirmed_stop: proof that
\* nobody owns the attempt, then the deletion of its journal.
OwnerGone(x) ==
  CASE journal.phase = "Stopping" -> TRUE
    [] journal.phase = "Pending"  -> \/ x.att = op.att /\ ~x.attd /\ x.stop /\ Ended(x)
                                     \/ ~IssuerHeld(op.att)
    [] journal.phase = "Attached" -> ExtLeaseFree

RecoveryOver(x) == (x.att = op.att /\ x.clean) \/ journal.att # op.att

StopRecover ==
  /\ In("stop", "recover")
  /\ IF RecoveryOver(UiSynced) THEN UiQuiet(UiSynced) /\ UNCHANGED journal
     ELSE /\ OwnerGone(UiSynced)
          /\ journal' = NoJournal
          /\ IF UiSynced.att = op.att THEN UiPublish(Recovered(UiSynced)) ELSE UiQuiet(UiSynced)
  /\ UiRead
  /\ OpEnds
  /\ UNCHANGED <<issued, shellVars, epoch, fence, chain, abilityVars>>

\* The owner stayed alive until the recovery deadline.
StopGivesUp ==
  /\ "deadline" \in Faults
  /\ In("stop", "recover")
  /\ ~RecoveryOver(UiSynced) /\ ~OwnerGone(UiSynced)
  /\ UiQuiet(UiSynced) /\ UiRead
  /\ OpEnds
  /\ UNCHANGED <<sharedVars, shellVars, epoch, fence, chain, abilityVars>>

-----------------------------------------------------------------------------
(* VpnPlugin: start requests                                               *)

IntentCurrent == epoch = op.epoch

\* Mutant: a start ignores the fence of a stop.
CanStartFenced ==
  /\ IntentCurrent
  /\ CanBegin(UiSynced) /\ journal = NoJournal
  /\ UiSynced.lease = 0

CanStart ==
  /\ IntentCurrent /\ fence.epoch = 0
  /\ CanBegin(UiSynced) /\ journal = NoJournal
  /\ UiSynced.lease = 0

\* begin_platform_vpn_start_for_intent, then the Want is dispatched.  The
\* issuer lease cannot be locked while this process still stores an older one.
StartBegin ==
  /\ In("start", "begin") /\ CanStart
  /\ LET a == issued + 1
     IN /\ issued' = a
        /\ journal' = [phase |-> "Pending", att |-> a, ext |-> 0]
        /\ UiPublish(BeginStart(UiSynced, a))
        /\ op' = [op EXCEPT !.stage = "sent", !.att = a]
        /\ wants' = wants \cup {a}
  /\ UiRead
  /\ UNCHANGED <<shellVars, epoch, fence, chain, ability, inc, late, handlerVars, tunnelVars>>

\* begin throws: the operation ends without an attempt to fail.
StartRefused ==
  /\ In("start", "begin") /\ ~CanStart
  /\ IF IntentCurrent /\ fence.epoch = 0
     THEN UiQuiet(UiSynced) /\ UiRead ELSE UNCHANGED <<uiVars, extVars>>
  /\ OpEnds
  /\ UNCHANGED <<sharedVars, shellVars, epoch, fence, chain, abilityVars>>

StartSent ==
  /\ In("start", "sent") /\ IntentCurrent
  /\ Goto("await")
  /\ UNCHANGED <<uiVars, extVars, sharedVars, shellVars, epoch, fence, chain, abilityVars>>

\* fail_platform_vpn_start: nothing happens unless this attempt is pending.
FailStart ==
  /\ IF UiSynced.att = op.att /\ UiSynced.out = "Pending"
     THEN UiPublish(Fail(UiSynced)) ELSE UiQuiet(UiSynced)
  /\ UiRead
  /\ OpEnds

\* The dispatch is rejected, or superseded when it settles.
StartFailed ==
  /\ In("start", "sent")
  /\ \/ "dispatch" \in Faults /\ op.att \in wants /\ wants' = wants \ {op.att}
     \/ ~IntentCurrent /\ UNCHANGED wants
  /\ FailStart
  /\ UNCHANGED <<sharedVars, shellVars, epoch, fence, chain, ability, inc, late,
                 handlerVars, tunnelVars>>

\* await_platform_vpn_start returns; the session handoff is cleared.
StartSettled ==
  /\ In("start", "await")
  /\ UiSynced.att # op.att \/ UiSynced.out # "Pending"
  /\ IF UiSynced.att = op.att /\ UiSynced.hand
     THEN UiPublish([UiSynced EXCEPT !.hand = FALSE]) ELSE UiQuiet(UiSynced)
  /\ UiRead
  /\ OpEnds
  /\ UNCHANGED <<sharedVars, shellVars, epoch, fence, chain, abilityVars>>

\* Mutant: a start that nothing attached to has no deadline.
StartTimeoutAttached ==
  /\ "deadline" \in Faults
  /\ In("start", "await")
  /\ UiSynced.att = op.att /\ UiSynced.out = "Pending" /\ UiSynced.attd
  /\ FailStart
  /\ UNCHANGED <<sharedVars, shellVars, epoch, fence, chain, abilityVars>>

StartTimeout ==
  /\ "deadline" \in Faults
  /\ In("start", "await")
  /\ UiSynced.att = op.att /\ UiSynced.out = "Pending"
  /\ FailStart
  /\ UNCHANGED <<sharedVars, shellVars, epoch, fence, chain, abilityVars>>

-----------------------------------------------------------------------------
(* The Extension process and its ability                                   *)

\* The ability's thread is free: not between reading and publishing a delivery
\* acknowledgement, between the last check of a Want and its binding, nor between
\* an exception and its handler.
AbilityUp == ability = "up" /\ late = NoFrame /\ step \notin {"bind", "throw"}

\* validate_platform_vpn_start_request: journal, issuer lease and UI frame.
LatestWant(a) ==
  /\ journal.att = a
  /\ journal.phase = "Attached" \/ (journal.phase = "Pending" /\ IssuerHeld(a))
  /\ uiLane.att = a /\ uiLane.out \notin Terminal

\* acknowledge_terminal_delivery_state: a frame made of the UI's own.
Acknowledgement(a) ==
  IF uiLane.att = a /\ uiLane.out \in Terminal
  THEN [uiLane EXCEPT !.attd = FALSE, !.start = FALSE, !.run = FALSE] ELSE NoFrame

\* onCreate and onRequest -> queueRequest.  A Want creates the process when
\* there is none; a request for another attempt supersedes the newest one.
WantArrives(a) ==
  /\ a \in wants
  /\ wants' = wants \ {a}
  /\ \/ AbilityUp /\ UNCHANGED <<ability, inc>>
     \/ ability = "absent" /\ inc < MaxInc /\ ability' = "up" /\ inc' = inc + 1
  /\ IF LatestWant(a)
     THEN /\ req' = IF a = act THEN req ELSE a
          /\ UNCHANGED late
     ELSE /\ late' = Acknowledgement(a)
          /\ UNCHANGED req
  /\ UNCHANGED <<uiVars, extVars, sharedVars, shellVars, pluginVars, step, cur, act, tun, tunnelVars>>

\* The acknowledgement replaces whatever frame the Extension's lane holds.
LatePublish ==
  /\ late # NoFrame
  /\ extLane' = late /\ extFresh' = TRUE
  /\ late' = NoFrame
  /\ UNCHANGED <<uiVars, ext, sharedVars, shellVars, pluginVars, ability, inc, wants,
                 handlerVars, tunnelVars>>

\* The promise chain starts the newest request; older ones find themselves
\* superseded and return.
HandleNext ==
  /\ AbilityUp /\ step = "idle" /\ req # 0
  /\ step' = "wait" /\ cur' = req
  /\ UNCHANGED <<uiVars, extVars, sharedVars, shellVars, pluginVars, procVars,
                 req, act, tun, tunnelVars>>

Newest == req = cur

\* The handler's promise settles.
HandlerEnds ==
  /\ step' = "idle" /\ cur' = 0
  /\ req' = IF Newest THEN 0 ELSE req

HandlerGoto(s) == step' = s /\ UNCHANGED <<cur, req>>

\* Mutant: the ability forgets the descriptor but not the attempt.
BeginCleanupActive ==
  /\ act' = act /\ tun' = FALSE
  /\ cleanup' = IF cleanup.stage = "none" THEN [stage |-> "stop", att |-> act] ELSE cleanup

\* destroyVpn: the cleanup barrier is raised, or already up.
BeginCleanup ==
  /\ act' = 0 /\ tun' = FALSE
  /\ cleanup' = IF cleanup.stage = "none" THEN [stage |-> "stop", att |-> act] ELSE cleanup

\* fail_unattached_platform_vpn_start
FailUnattached(x, a) ==
  IF x.att = a /\ x.out = "Pending" /\ ~x.attd /\ journal.phase = "Pending" /\ journal.att = a
  THEN /\ journal' = NoJournal
       /\ ExtPublish([Fail(x) EXCEPT !.clean = TRUE, !.lease = 0])
  ELSE /\ ExtQuiet(x)
       /\ UNCHANGED journal

\* A superseded request returns.
HandleSuperseded ==
  /\ AbilityUp /\ step = "wait" /\ ~Newest
  /\ HandlerEnds
  /\ UNCHANGED <<uiVars, extVars, sharedVars, shellVars, pluginVars, procVars, act, tun, tunnelVars>>

\* The Want is checked again once the previous cleanup is over; one that turned
\* stale while it was queued is dropped.
Checkable == AbilityUp /\ step = "wait" /\ Newest /\ cleanup.stage = "none"

HandleStale ==
  /\ Checkable /\ ~LatestWant(cur)
  /\ late' = Acknowledgement(cur)
  /\ HandlerEnds
  /\ UNCHANGED <<uiVars, extVars, sharedVars, shellVars, pluginVars, ability, inc, wants,
                 act, tun, tunnelVars>>

\* AdoptionIsClean: no older attempt is ever left to destroy here.
HandleChecked ==
  /\ Checkable /\ LatestWant(cur) /\ act = 0
  /\ HandlerGoto("bind")
  /\ uiFresh' = TRUE   \* attach_platform_shared_memory forgets the last revision
  /\ UNCHANGED <<ui, uiLane, extVars, sharedVars, shellVars, pluginVars, procVars,
                 act, tun, tunnelVars>>

ReadyToBind == ability = "up" /\ step = "bind"

\* A newer engine generation: a preparation is thrown away when it ends, an
\* attachment cancels its session.
Superseded(j) == CASE j = "attach" -> "stale" [] j = "prepare" -> "none" [] OTHER -> j

\* sync_platform_for_binding_locked, then the reopening of a connected attempt.
Rebound(f) == Apply(IF ext.att = f.att THEN ext ELSE Adopt(ext, f), f, FALSE)

\* The binding takes the Extension lease and names this process in the journal.
CanBind(x) ==
  /\ uiLane.att = cur /\ uiLane.out \notin Terminal /\ ~Ended(x)
  /\ journal.att = cur
  /\ \/ journal.phase = "Pending" /\ IssuerHeld(cur) /\ x.lease = 0
     \/ journal.phase = "Attached" /\ (journal.ext = inc \/ x.lease = 0)

Bind ==
  /\ ReadyToBind
  /\ CanBind(Rebound(uiLane))
  /\ LET x == StopOrphan(Bound(Reopen(Rebound(uiLane)), inc))
     IN /\ ExtPublish(x)
        /\ IF Unhealthy(x, cur)
           THEN /\ HandlerGoto("closing") /\ tun' = FALSE /\ act' = 0
                /\ cleanup' = [stage |-> "stop", att |-> cur]
           ELSE HandlerGoto("begin") /\ act' = cur /\ UNCHANGED <<tun, cleanup>>
  /\ journal' = [phase |-> "Attached", att |-> cur, ext |-> inc]
  /\ uiFresh' = FALSE
  /\ job' = IF ext.att # cur THEN Superseded(job) ELSE job
  /\ UNCHANGED <<ui, uiLane, issued, shellVars, pluginVars, procVars, conn>>

\* The binding fails; what was adopted stays.
BindRefused ==
  /\ ReadyToBind
  /\ ~CanBind(Rebound(uiLane))
  /\ IF uiLane.att # cur \/ uiLane.out \in Terminal
     THEN UNCHANGED <<uiVars, extVars, job>>
     ELSE /\ ExtQuiet(IF Ended(Rebound(uiLane)) THEN Rebound(uiLane)
                      ELSE Reopen(Rebound(uiLane)))
          /\ uiFresh' = FALSE /\ UNCHANGED <<ui, uiLane>>
          /\ job' = IF ext.att # cur THEN Superseded(job) ELSE job
  /\ HandlerGoto("throw")
  /\ UNCHANGED <<sharedVars, shellVars, pluginVars, procVars, act, tun, conn, cleanup>>

\* queueRequest's catch: a superseded handler leaves everything to its successor;
\* the newest one reports the failure, and destroys the tunnel it bound.
HandlerCatches ==
  /\ ability = "up" /\ step = "throw"
  /\ IF ~Newest
     THEN HandlerEnds /\ UNCHANGED <<uiVars, extVars, journal, act, tun, cleanup>>
     ELSE /\ ExtRead
          /\ IF act = cur
             THEN /\ IF AcceptsUpdates(ExtSynced, cur)
                     THEN ExtPublish(Fail(ExtSynced)) ELSE ExtQuiet(ExtSynced)
                  /\ BeginCleanup /\ HandlerGoto("closing")
                  /\ UNCHANGED journal
             ELSE /\ FailUnattached(ExtSynced, cur)
                  /\ HandlerEnds /\ UNCHANGED <<act, tun, cleanup>>
  /\ UNCHANGED <<issued, shellVars, pluginVars, procVars, job, conn>>

Handling == Newest /\ act = cur

\* performStart: set_platform_vpn_starting_for_attempt, then prepare, which
\* needs the session handoff in the UI's frame.
StartPrepare ==
  /\ AbilityUp /\ step = "begin"
  /\ IF Handling /\ AcceptsUpdates(ExtSynced, cur) /\ ExtSynced.out = "Pending"
     THEN /\ ExtPublish(Starting(ExtSynced))
          /\ HandlerGoto("prepare")
          /\ job' = IF uiLane.hand /\ uiLane.att = ext.att THEN "prepare" ELSE "none"
     ELSE ExtQuiet(ExtSynced) /\ HandlerGoto("throw") /\ UNCHANGED job
  /\ ExtRead
  /\ UNCHANGED <<sharedVars, shellVars, pluginVars, procVars, act, tun, conn, cleanup>>

\* prepare_in_extension ends.
PrepareDone ==
  /\ AbilityUp /\ step = "prepare"
  /\ job' = "none"
  /\ \/ job = "prepare" /\ ~Ended(ext) /\ ExtPublish(Prepared(ext)) /\ HandlerGoto("prepared")
     \/ /\ job # "prepare" \/ Ended(ext) \/ "native" \in Faults
        /\ UNCHANGED extVars /\ HandlerGoto("throw")
  /\ UNCHANGED <<uiVars, sharedVars, shellVars, pluginVars, procVars, act, tun, conn, cleanup>>

CreateBegin ==
  /\ AbilityUp /\ step = "prepared"
  /\ IF Handling THEN HandlerGoto("create") /\ conn' = "creating"
     ELSE HandlerGoto("throw") /\ UNCHANGED conn
  /\ UNCHANGED <<uiVars, extVars, sharedVars, shellVars, pluginVars, procVars, act, tun, job, cleanup>>

\* VpnConnection.create resolves; startVpn takes the prepared client, or resumes
\* another one.  When the request is stale, whatever is active is destroyed.
CreateDone ==
  /\ AbilityUp /\ step = "create" /\ conn = "creating"
  /\ conn' = "open"
  /\ IF Handling
     THEN /\ tun' = TRUE
          /\ ExtQuiet([ext EXCEPT !.native = "none"])
          /\ job' = IF ext.native = "pending" \/ (uiLane.hand /\ uiLane.att = ext.att)
                    THEN "attach" ELSE "none"
          /\ HandlerGoto("attach")
          /\ UNCHANGED <<act, cleanup>>
     ELSE BeginCleanup /\ HandlerGoto("closing") /\ UNCHANGED <<extVars, job>>
  /\ UNCHANGED <<uiVars, sharedVars, shellVars, pluginVars, procVars>>

CreateFailed ==
  /\ "connection" \in Faults
  /\ AbilityUp /\ step = "create" /\ conn = "creating"
  /\ conn' = "none"
  /\ HandlerGoto("throw")
  /\ UNCHANGED <<uiVars, extVars, sharedVars, shellVars, pluginVars, procVars, act, tun, job, cleanup>>

\* A system or native operation outlives its timeout; it is not cancelled.
OperationTimeout ==
  /\ "deadline" \in Faults
  /\ AbilityUp /\ step \in {"prepare", "create", "attach"}
  /\ HandlerGoto("throw")
  /\ UNCHANGED <<uiVars, extVars, sharedVars, shellVars, pluginVars, procVars, act, tun, tunnelVars>>

\* attach_tun's last section installs the running session if the attempt still
\* wants it.
CanRun == ~Ended(ext) /\ ext.life \in {"Connecting", "Establishing"}

AttachDone ==
  /\ AbilityUp /\ step = "attach"
  /\ job' = "none"
  /\ \/ job = "attach" /\ CanRun /\ ExtPublish(Running(ext)) /\ HandlerGoto("check")
     \/ /\ job # "attach" \/ ~CanRun \/ "native" \in Faults
        /\ UNCHANGED extVars /\ HandlerGoto("throw")
  /\ UNCHANGED <<uiVars, sharedVars, shellVars, pluginVars, procVars, act, tun, conn, cleanup>>

\* tick in the Extension: sync, stop an orphaned session, publish statistics.
ExtTicks ==
  /\ IF ExtSynced.native \in {"running", "foreign"}
     THEN ExtPublish(StopOrphan(ExtSynced)) ELSE ExtQuiet(ExtSynced)
  /\ ExtRead

\* The handler's last check of the session it started.
AttachCheck ==
  /\ AbilityUp /\ step = "check"
  /\ IF Handling THEN ExtTicks ELSE UNCHANGED <<uiVars, extVars>>
  /\ IF Handling /\ ~Unhealthy(ext', cur) /\ ext'.life = "Connected"
     THEN HandlerEnds ELSE HandlerGoto("throw")
  /\ UNCHANGED <<sharedVars, shellVars, pluginVars, procVars, act, tun, tunnelVars>>

\* destroyVpn returned to the handler.
HandleClosed ==
  /\ AbilityUp /\ step = "closing"
  /\ cleanup.stage \in {"none", "failed"}
  /\ HandlerEnds
  /\ UNCHANGED <<uiVars, extVars, sharedVars, shellVars, pluginVars, procVars, act, tun, tunnelVars>>

\* Native work whose handler is gone ends; its result is thrown away, unless
\* the engine still follows it.
JobEnds ==
  /\ ability # "absent" /\ job # "none"
  /\ job = "stale" \/ ability = "destroyed" \/ step \notin {"prepare", "attach"}
  /\ job' = "none"
  /\ IF job = "prepare" /\ ~Ended(ext) THEN ExtPublish(Prepared(ext))
     ELSE IF job = "attach" /\ CanRun THEN ExtPublish(Running(ext))
     ELSE UNCHANGED extVars
  /\ UNCHANGED <<uiVars, sharedVars, shellVars, pluginVars, procVars, handlerVars, conn, cleanup>>

\* A create that outlived its handler settles.
CreateSettles ==
  /\ ability # "absent" /\ conn = "creating" /\ (step # "create" \/ ability = "destroyed")
  /\ conn' = "open"
  /\ UNCHANGED <<uiVars, extVars, sharedVars, shellVars, pluginVars, procVars, handlerVars, job, cleanup>>

\* syncPlatformChanges, before the tunnel exists.
ExtSync ==
  /\ AbilityUp /\ act # 0 /\ ~tun /\ ExtMatch
  /\ ExtQuiet(ExtSynced) /\ ExtRead
  /\ UNCHANGED <<sharedVars, shellVars, pluginVars, procVars, handlerVars, tunnelVars>>

\* reconcileExtensionTerminal, from the subscription or the heartbeat.  The
\* destruction it queues waits for the handler, which comes to the same verdict.
Heartbeat ==
  /\ AbilityUp /\ act # 0 /\ tun
  /\ ExtTicks
  /\ IF Unhealthy(ext', act) /\ step = "idle" /\ req = 0
     THEN BeginCleanup ELSE UNCHANGED <<act, tun, cleanup>>
  /\ UNCHANGED <<sharedVars, shellVars, pluginVars, procVars, step, cur, req, job, conn>>

\* on_native_session_ended: the peer hung up or the worker failed, or the worker
\* returned without an error.
SessionEnds ==
  /\ ability # "absent" /\ ext.native = "running"
  /\ \E fault \in {"peer", "quit"} \cap Faults : ExtPublish(NativeEnded(ext, fault = "peer"))
  /\ UNCHANGED <<uiVars, sharedVars, shellVars, pluginVars, abilityVars>>

-----------------------------------------------------------------------------
(* beginVpnCleanup                                                         *)

CleanupGoto(stage) == cleanup' = [cleanup EXCEPT !.stage = stage]

\* disconnect_platform_attempt: the native generation advances.
CleanupStop ==
  /\ ability # "absent" /\ cleanup.stage = "stop"
  /\ IF cleanup.att # 0 /\ ext.att = cleanup.att /\ ext.life # "Disconnected"
     THEN /\ ExtPublish(Disconnecting(ext))
          /\ job' = Superseded(job)
          /\ CleanupGoto("join")
     ELSE CleanupGoto("wait") /\ UNCHANGED <<extVars, job>>
  /\ UNCHANGED <<uiVars, sharedVars, shellVars, pluginVars, procVars, handlerVars, conn>>

CleanupJoined ==
  /\ ability # "absent" /\ cleanup.stage = "join"
  /\ IF ext.att = cleanup.att /\ ext.life \in {"Disconnecting", "Connected"}
     THEN ExtPublish(Disconnected(ext)) ELSE UNCHANGED extVars
  /\ CleanupGoto("wait")
  /\ UNCHANGED <<uiVars, sharedVars, shellVars, pluginVars, procVars, handlerVars, job, conn>>

\* Mutant: a connection that is still being created is not waited for.
CleanupDestroyHasty ==
  /\ ability # "absent" /\ cleanup.stage = "wait"
  /\ job \notin {"attach", "stale"}
  /\ conn' = (IF conn = "creating" THEN conn ELSE "none") /\ CleanupGoto("ack")
  /\ UNCHANGED <<uiVars, extVars, sharedVars, shellVars, pluginVars, procVars, handlerVars, job>>

\* The pending platform operation settles before the connection is destroyed.
CleanupDestroy ==
  /\ ability # "absent" /\ cleanup.stage = "wait"
  /\ conn # "creating" /\ job \notin {"attach", "stale"}
  /\ \/ conn' = "none" /\ CleanupGoto("ack")
     \/ "destroy" \in Faults /\ conn = "open" /\ UNCHANGED conn /\ CleanupGoto("failed")
  /\ UNCHANGED <<uiVars, extVars, sharedVars, shellVars, pluginVars, procVars, handlerVars, job>>

\* complete_platform_vpn_cleanup; anything but an acknowledgement bars this
\* ability from every later request.
CanAcknowledge(x) ==
  /\ x.att = cleanup.att /\ ~x.run /\ ~x.start /\ Ended(x)
  /\ x.lease # 0 /\ x.own = inc
  /\ journal = [phase |-> "Attached", att |-> cleanup.att, ext |-> inc]

AlreadyClean(x) == x.att = cleanup.att /\ ~x.run /\ ~x.start /\ Ended(x) /\ x.clean

CleanupAck ==
  /\ ability # "absent" /\ cleanup.stage = "ack"
  /\ IF cleanup.att = 0
     THEN cleanup' = NoCleanup /\ UNCHANGED <<uiVars, extVars, journal>>
     ELSE /\ ExtRead
          /\ IF AlreadyClean(ExtSynced)
             THEN cleanup' = NoCleanup /\ ExtQuiet(ExtSynced) /\ UNCHANGED journal
             ELSE IF CanAcknowledge(ExtSynced)
             THEN /\ journal' = NoJournal
                  /\ ExtPublish(CleanedUp(ExtSynced))
                  /\ cleanup' = NoCleanup
             ELSE CleanupGoto("failed") /\ ExtQuiet(ExtSynced) /\ UNCHANGED journal
  /\ UNCHANGED <<issued, shellVars, pluginVars, procVars, handlerVars, job, conn>>

-----------------------------------------------------------------------------
(* The system                                                              *)

\* stopVpnExtensionAbility makes the system call onDestroy.
OnDestroy ==
  /\ In("stop", "confirm") /\ AbilityUp
  /\ ability' = "destroyed"
  /\ req' = 0
  /\ IF act = 0 THEN UNCHANGED <<act, tun, cleanup>> ELSE BeginCleanup
  /\ UNCHANGED <<uiVars, extVars, sharedVars, shellVars, pluginVars, inc, wants, late,
                 step, cur, job, conn>>

\* What the process held goes with it.
ExtensionGone ==
  /\ ability' = "absent"
  /\ ext' = NewEngine
  /\ late' = NoFrame
  /\ step' = "idle" /\ cur' = 0 /\ req' = 0 /\ act' = 0 /\ tun' = FALSE
  /\ job' = "none" /\ conn' = "none" /\ cleanup' = NoCleanup
  /\ UNCHANGED <<uiVars, extLane, extFresh, sharedVars, shellVars, pluginVars, inc>>

\* The process of a destroyed ability exits, its cleanup finished or not.
ExtensionExits == ability = "destroyed" /\ ExtensionGone /\ UNCHANGED wants

\* It crashes; the system may deliver the Want of the active attempt again.
ExtensionCrashes ==
  /\ "crash" \in Faults
  /\ ability = "up"
  /\ ExtensionGone
  /\ \/ UNCHANGED wants
     \/ act # 0 /\ wants' = wants \cup {act}

-----------------------------------------------------------------------------
UiStep ==
  \/ Connect \/ Authenticated \/ AuthFailed
  \/ Disconnect \/ DisconnectBegin \/ DisconnectEnd \/ UiTick \/ Watchdog

PluginStep ==
  \/ StopClaimed \/ ChainNext
  \/ StopSuperseded \/ StopRequest \/ StopCooperated \/ StopImpatient
  \/ StopOs \/ StopConfirmed \/ StopRejected \/ StopRecover \/ StopGivesUp
  \/ StartBegin \/ StartRefused \/ StartSent \/ StartFailed \/ StartSettled \/ StartTimeout

HandlerStep ==
  \/ HandleNext \/ HandleSuperseded \/ HandleStale \/ HandleChecked
  \/ Bind \/ BindRefused \/ HandlerCatches
  \/ StartPrepare \/ PrepareDone \/ CreateBegin \/ CreateDone \/ CreateFailed
  \/ OperationTimeout \/ AttachDone \/ AttachCheck \/ HandleClosed

CleanupStep == CleanupStop \/ CleanupJoined \/ CleanupDestroy \/ CleanupAck

ExtensionStep ==
  \/ \E a \in Attempts : WantArrives(a)
  \/ LatePublish \/ HandlerStep \/ JobEnds \/ CreateSettles
  \/ ExtSync \/ Heartbeat \/ SessionEnds
  \/ CleanupStep
  \/ OnDestroy \/ ExtensionExits \/ ExtensionCrashes

Next == UiStep \/ PluginStep \/ ExtensionStep

Spec == Init /\ [][Next]_vars

\* Every promise the code awaits settles, every timer it arms fires and the
\* system delivers what it accepted; users, peers, faults and crashes need not.
Fairness ==
  /\ WF_vars(Authenticated \/ AuthFailed) /\ WF_vars(DisconnectBegin \/ DisconnectEnd)
  /\ WF_vars(UiTick) /\ WF_vars(StopClaimed) /\ WF_vars(PluginStep)
  /\ \A a \in Attempts : WF_vars(WantArrives(a))
  /\ WF_vars(LatePublish) /\ WF_vars(HandlerStep)
  /\ WF_vars(JobEnds) /\ WF_vars(CreateSettles)
  /\ WF_vars(ExtSync) /\ WF_vars(Heartbeat)
  /\ WF_vars(CleanupStep) /\ WF_vars(OnDestroy)
  /\ WF_vars(ExtensionExits)

FairSpec == Spec /\ Fairness

-----------------------------------------------------------------------------
(* Properties *)

TypeOK ==
  /\ ui \in Engine /\ ext \in Engine
  /\ uiLane \in FrameOf /\ extLane \in FrameOf /\ late \in FrameOf
  /\ uiFresh \in BOOLEAN /\ extFresh \in BOOLEAN
  /\ journal \in [phase : {"Missing", "Pending", "Attached", "Stopping"},
                  att : Attempts \cup {0}, ext : 0 .. MaxInc]
  /\ issued \in 0 .. taps /\ taps \in 0 .. MaxConnect
  /\ uiTask \in {"none", "auth", "disconnect", "closing"} /\ jsStop \in BOOLEAN
  /\ epoch \in Nat
  /\ fence \in [epoch : Nat, att : Attempts \cup {0}, busy : BOOLEAN]
  /\ op \in [kind : {"none", "start", "stop"}, epoch : Nat, att : Attempts \cup {0},
             stage : {"none", "begin", "sent", "await", "request", "coop", "os",
                      "confirm", "recover"}, done : BOOLEAN]
  /\ ability \in {"absent", "up", "destroyed"} /\ inc \in 0 .. MaxInc
  /\ wants \subseteq Attempts
  /\ step \in {"idle", "wait", "bind", "begin", "prepare", "prepared", "create",
               "attach", "check", "throw", "closing"}
  /\ {cur, req, act} \subseteq Attempts \cup {0} /\ tun \in BOOLEAN
  /\ job \in {"none", "prepare", "attach", "stale"}
  /\ conn \in {"none", "creating", "open"}
  /\ cleanup \in [stage : {"none", "stop", "join", "wait", "ack", "failed"},
                  att : Attempts \cup {0}]

\* The engine lets the native session carry packets.
Live(x) == x.native = "running" /\ ~Ended(x)

\* Packets flow only in the process the journal names, and while it holds the
\* Extension lease: an attachment that races a stop, a newer Want or a cleanup
\* never leaves a session running that nobody owns.
TunnelIsOwned ==
  Live(ext) =>
    /\ journal = [phase |-> "Attached", att |-> ext.att, ext |-> inc]
    /\ ext.lease = ext.att

\* The UI may start again only when its old tunnel is gone: cleanup_complete
\* is never reported while the attempt still has an owner, a live session or a
\* system connection.
CleanMeansReleased ==
  ui.clean /\ ui.att # 0 =>
    /\ journal.att # ui.att
    /\ ext.att = ui.att => ~Live(ext) /\ conn = "none"

\* complete_platform_vpn_cleanup acknowledges that the owner has finished every
\* native operation: no session of the attempt runs any more.
CleanMeansGone ==
  ui.clean /\ ui.att # 0 /\ ext.att = ui.att => ext.native # "running"

\* A start attempt that no Extension adopted yet has the system to itself.
FreshStartIsExclusive ==
  journal.phase \in {"Pending", "Stopping"} => conn = "none" /\ ~Live(ext)

\* A valid Want never meets an ability that still holds an older attempt, or
\* whose last cleanup failed: handleRequest's own defences are never needed.
AdoptionIsClean ==
  step = "wait" /\ Newest /\ LatestWant(cur) => act = 0 /\ cleanup.stage # "failed"

\* The stop of a connected session is never refused: no fence, journal or engine
\* state left by an earlier start or stop contradicts it.
StopIsClaimable == jsStop => ~fence.busy /\ ~ClaimConflict(UiSynced)

\* A terminal outcome sticks to its attempt in both engines.
TerminalStep ==
  /\ Ended(ui) => Ended(ui') \/ ui'.att # ui.att
  /\ Ended(ext) => Ended(ext') \/ ext'.att # ext.att
TerminalSticks == [][TerminalStep]_vars

\* A connect that reached the platform ends: the UI leaves Establishing.
StartResolves == ui.life = "Establishing" ~> ui.life # "Establishing"

\* A verdict of the UI against an attempt, be it a stop, a failed start or the
\* heartbeat watchdog's, takes down the tunnel the Extension holds for it.
VerdictReaches ==
  \A a \in Attempts : ui.att = a /\ Ended(ui) ~> ~(act = a /\ tun)

\* The plugin's chain never hangs: whatever each process waits for from the other,
\* the operation that holds the chain ends.
PluginDrains == op # NoOp ~> op = NoOp

\* A stop takes the tunnel down, deletes the journal and lets the user start again.
StopCompletes ==
  jsStop ~> conn = "none" /\ ~Live(ext) /\ journal = NoJournal /\ fence = NoFence

===============================================================================
