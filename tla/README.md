# h-openconnect: TLA+ models and proofs

h-openconnect is an OpenConnect/AnyConnect client for HarmonyOS. Its Rust engine runs twice: in
the UI process, which authenticates, and in the process of the VPN Extension ability, which owns
the TUN descriptor and the native session. ArkTS code on both sides asks the system to start and
stop the Extension. Everything hard in the program is in the agreement of those two processes on
who owns the tunnel and how a session begins and ends. That is what this directory models.

## Inventory

| Component | State | Operations | Talks to |
|---|---|---|---|
| Owner journal and leases (`platform_owner.rs`) | one JSON record on disk (phase, attempt, issuer, Extension), two lease files with a flock and a content each | create, upgrade, fence, rebind, delete by compare-and-swap; acquire, observe, probe a lease | both engines |
| Platform transactions (`engine/platform.rs`, `engine.rs`) | attempt id and outcome, attached, stop requested, cleanup complete, owner, lease guards, intent epoch, OS-stop fence | begin, bind, claim, request stop, complete cleanup, recover, fail, await, apply a peer's frame, publish | journal, lanes, plugin, ability |
| Connection lifecycle (`engine/connection.rs`) | lifecycle, generation, pending and running native session, session handoff | prepare_connect, prepare_in_extension, attach_tun, disconnect, tick, native session ended | native session, auth bridge, lanes |
| VPN plugin (`VpnPlugin.ets`) | promise chain, current start request, operation generation | start, stop, cooperative wait, OS stop, recovery | UI engine, system |
| VPN Extension ability (`HOpenConnectVpnExtensionAbility.ets`) | request generation and chain, active and in-flight attempt, tunFd, pending operation, pending cleanup | queue and handle a request, performStart, heartbeat, destroyVpn, onDestroy | Extension engine, system |
| Shared-memory lanes (`platform_ipc.rs`, `platform_state.rs`) | per role two slots with generation and checksum; notification socket | publish, read the newest, wait, cancel | both engines |
| UI reducer (`state.rs`, `state/tasks.rs`) | snapshot, last lifecycle, user_disconnect | connect, disconnect, tick with auto-reconnect | engine, bridge |
| Auth bridge (`auth_bridge.rs`) | one pending form, abort flag, ids | wait, submit, cancel, abort, begin session | native worker, UI |
| Native session (`native_session.rs`) | worker thread, cancel handle, statistics, and for one authentication the state of its forms | authenticate, resume with failover, main loop | OpenConnect, auth bridge, protect registry |
| Socket protection (`platform_protect.rs`, `socket_protect.rs`) | registration and its last error | set, begin, invoke, take error | native session, ability |
| Profiles and preferences (`engine/profiles.rs`, `store.rs`, `private_fs.rs`) | two JSON files, the certificate files, and copies in the engine and the reducer | configure home, upsert, delete, select | UI, Extension |
| Log recording (`log_recording.rs`, `engine/logging.rs`) | marker file, daily archives, recorder per process | enable, capture, synchronise, delete | both engines |
| Pure policies (`model.rs`, `VpnConfig.ets`, `client_identity.rs`) | none | validation, routes, headers | engine, ability |

The rest (views, localisation, camera, file pickers, colour mode, scripts) is presentation or one
system call each; `PROJECT.json` lists all of it with the reason it is not modelled.

What is hard here:

* **Two processes, no shared lock.** The journal's lock file covers one read or write, an engine
  transaction is several of them, and either process may die between two.
* **Awaits.** The ability awaits the engine and the system at every step of a start; at each await
  the request may be superseded, stopped, timed out or destroyed. A timeout does not cancel what it
  waited for.
* **Delivery.** The system may deliver a Want late, when its attempt has long ended, or again after
  a crash. A lane keeps one frame: a newer one replaces a frame that the peer has not read.
* **Verdicts of a distance.** Start deadline, heartbeat watchdog and lease probe decide about a
  peer that may be alive and merely slow.
* **Serialisation.** Starts and stops share one promise chain; a stop that is overtaken leaves what
  it claimed.
* **Threads left behind.** A worker whose caller gave up, or that does not join in time, runs on
  beside those of the next session and meets the shared registry and the shared form slot.
* **Memory without a lock.** The lanes are read while they are written.
* **Partial writes.** A profile change is up to three file operations, each of which may fail.

What makes each part correct:

* journal and leases: one owner at a time; no record of a live owner is removed or replaced; a
  fenced or cleaned attempt never comes back; nobody alive is declared dead;
* transactions and lifecycle: a terminal outcome is final; cleanup is reported when nothing is left,
  and stays reported; every accepted connect ends; a verdict takes the tunnel down;
* plugin and ability: the chain always drains; a stop releases everything; a new attempt meets no
  remains of an old one;
* lanes: a reader sees whole frames, never an older one after a newer one; a secret that was dropped
  is gone from both slots;
* auth bridge: a reply reaches the worker whose form it answers, and a disconnect frees every worker;
* forms: the profile answers a form once, and its password goes to one field of one form;
* native session: a socket outside the protection is never forgotten, and the end of an old thread
  changes nothing of the new session;
* profiles: no profile names a certificate that was removed, and a session keeps its profile.

## Modules

| Module | What it is |
|---|---|
| `TunnelOwnership` | abstract specification: what the journal and its leases promise |
| `OwnerJournal` | `platform_owner.rs` section by section, and the engine transactions as sequences of sections |
| `PlatformEngine` | the engine's platform fields and what each of its operations does to them |
| `PlatformSession` | the whole session: UI, plugin, two lanes, ability, system; uses `PlatformEngine` for both engines |
| `LaneRegister` | abstract specification: what a process may rely on when it reads the other's lane |
| `AshmemLane` | the Extension's lane copy by copy: writer, second writer, reader, crash |
| `AuthBridge` | the pending form with its workers, the reducer and the engine around it |
| `AuthForms` | one authentication conversation: which form is answered how, and with what |
| `NativeSession` | the native side of a connect, from the conversation (it extends `AuthForms`) to the mainloop, with the registry of protect callbacks and the threads of earlier attempts |
| `ProfileStore` | profiles, preferences and certificates in memory and on disk |
| `*_proofs` | theorems about `OwnerJournal`, `PlatformSession` (ownership, types and outcomes), `AuthBridge`, `AshmemLane`, `NativeSession` and `ProfileStore` |
| `PlatformRelease_proofs` | theorems about `PlatformSession`: what a cleanup releases |
| `PlatformStop_proofs` | theorems about `PlatformSession`: a stop is never refused |
| `MC*` | values of the constants for the configurations |

The modules meet at narrow interfaces. `PlatformSession` takes the journal and the leases as atomic
(`OwnerJournal` has their sections) and a lane as a register (`AshmemLane` implements
`LaneRegister`: revisions arrive whole and in order, some are skipped). `PlatformSession` sees an
authentication as one step that succeeds or fails; `AuthBridge` has the workers and the disconnects
in that step, `AuthForms` the forms. `NativeSession` starts where `PlatformSession` has a native job.

### OwnerJournal and the code

A process is an incarnation (boot id, pid and start time in the code): it is launched once and dies
at any point, when the kernel releases its locks. `journal`, `holder` and `record` are the files.
`pc[p]` and `rec[p]` are the program counter and the local journal copy of the operation that `p`
runs under its engine's mutex; `rpc[u]` and `rrec[u]` are those of the recovery loop, which runs
outside that mutex, so that both advance independently. `bound[p]` is the lease guard stored in the
engine. `cleaned` and `lost` record what the program told its user about an attempt; no guard but
the drop of a lease reads them.

Each critical section is an action: `BindRead`, `BindCheckIssuer` or `BindCheckPrev`, `BindAcquire`,
`BindStamp`, `BindSwap` or `BindKeep` are one `bind_platform_vpn_start`; `BeginAcquire`,
`BeginStamp`, `BeginCreate` are one `begin_platform_vpn_start_for_intent`; `ClaimRead`, `ClaimFence`,
`ClaimMissed`, `ClaimReread` the claim of a stop; `RecoverRead`, `RecoverObserve`, `RecoverDelete` a
turn of the recovery loop; `ProbeLock`, `ProbeJudge` the liveness probe; `AckRead`, `AckDelete` the
acknowledgement of a cleanup. `Abandon` is every error return between two sections. The conditions
an engine tests before it begins a transaction are left open, which allows more than the program
does; `PlatformSession` has them. With `DirSyncMayFail`, a journal write may report an error after
its rename, as `sync_parent` can.

The content of a lease file is written after the lock was taken and outlives its holder, so a
`HeldExact` observation may name a dead process (the comment on `observe_owner_lease_exact` denies
it). In a binding this only lets an attachment go on whose issuer has just died; the properties
below show that no ownership is lost by it.

### PlatformEngine, PlatformSession and the code

An engine is a record of the fields that a frame carries or that decide something; `Frame`,
`Apply` and `Adopt` are `persist_platform_locked` and the two halves of
`apply_platform_envelope_locked`. An operation of the engine holds its mutex and is one action,
which begins with the synchronisation (`UiSynced`, `ExtSynced`) the code begins it with. Every await
is a boundary between two actions:

* `chain`, `op` are the plugin's promise chain and the operation it runs, with the await it is at;
* `step`, `cur`, `req`, `act`, `tun` are the ability's request handler: `step` is the await it is
  at, and `throw` is the way to `queueRequest`'s catch (`HandlerCatches`);
* `job` is native work in progress and `conn` the system's VpnConnection, which both go on when
  their handler has given up (`JobEnds`, `CreateSettles`);
* `cleanup` is `pendingCleanup`: native stop, join, destroy and acknowledgement are four actions, so
  that requests, ticks and frames come in between;
* `wants` holds accepted Wants not yet delivered; `late` the acknowledgement of a Want that came for
  an ended attempt, read in one call and published in another.

Abstractions: `last_error` exists exactly when the lifecycle is Failed; Authenticating is part of
Connecting; a running session started by an earlier attempt or generation is `"foreign"`; protecting
the process's sockets is part of creating the connection; `delivery_observed` is never read and left
out. An Extension process hosts one ability. The UI process does not restart here, and Wants
are direct (the emulator's descriptor handoff and its debug start-up cleanup are left out). Branches
that another property shows unreachable are not modelled: `AdoptionIsClean` for the destruction of
an older attempt in `handleRequest`, `StopIsClaimable` for a refused claim.

Two more simplifications, neither of which a property depends on:

* `ExtPublish` always succeeds. In the code a notification may fail after the frame was written
  (platform_ipc.rs:545-551), and the operation then returns an error although its frame is in the lane
  (the persist of platform.rs:770 does so after the journal was deleted). The connection that an
  acknowledgement of a late Want attaches is what displaces the engine's at the listener; while one is
  under way the ability serves no attempt, cleans up after none and is not binding (`LateInv`, part of
  the invariant of `PlatformStop_proofs`), and each Want handled afterwards attaches a new pair of
  lanes. The other cause is the end of the UI process inside a session, which this module leaves
  out. `AshmemLane` lets every notification fail.
* The task of a disconnect has begun before the next connect (`Connect`'s guard on `uiTask`): the code
  spawns one task for each and would let the connect overtake the first statement of the other.

### AshmemLane, LaneRegister and the code

A slot is a header (`head`: the generation, and the revision whose payload its checksum is of) and a
payload (`body`); `stain` says whether bytes of a secret are left behind a shorter payload. A
publication is the copy of the payload, the zeroing of the rest if `write_frame` can tell that the
slot held a longer one, and the header: four actions of one writer, during which header or payload
are torn. The reader takes each slot in three steps (header, payload, header again), at most three
times, and applies the best of both. A checksum that matches a torn payload by accident is left out.

The engine of the Extension is one writer. The acknowledgement of a late Want
(`acknowledge_terminal_platform_vpn_start_delivery`) is another: it attaches to the region a second
time, with a generation of its own. A notification may fail at any time (`Notified`), because
the UI is gone or because the connection of an acknowledgement displaced the engine's at the listener;
`publish_snapshot` then returns before the second publication of a scrub. `owed` counts the publications
that the lane still needs until both slots are free of the last secret. `LaneRegister` is the reader's side of a lane: `sealed` are
the revisions published in full, `applied` the newest one the reader has learned.

### AuthBridge and the code

A tap starts a task of the runtime, a connect or a disconnect, chosen from the reducer's last
snapshot; `step[t]` is where the task is. The engine's lock and that of `AuthInteraction` delimit the
actions. A worker posts a form (`PostForm`), waits (`WaitForReply`), and when its time is up reads
the abort flag (`ReadAborted`) and clears the slot in sections of their own. `chan` holds the
reply channel of each form, `typed` the form a reply was typed for. `Platform` is what a tick finds
out about the session. `PrepareConnect` is refused by a busy engine, and may be by one
that held a native session before (`gen > 0`). That `prepare_native` sets Authenticating without looking at the generation is
in `EnterAuth`.

### AuthForms, NativeSession and the code

`AuthForms` is `handle_auth_form` and `auth_bridge`'s helpers on fields. A form is the identity of its
form, how it treats the configured group, and its options; `Applied` puts the profile's values in,
`UserOwned` are the fields only the user may fill, `Bound` binds the reply. A value is known by where
it comes from (`"password"`, `"username"`, `"reply"`, `"server"`). `state` is `FormState`: group set,
empty forms in a row, fingerprints answered without the user.

`NativeSession` goes on with the cookie. `worker[a]` is the thread of attempt `a`: the resumption
from gateway to gateway (`BeginOperation` to `CstpDone`), the hand-over to the engine
(`PrepareReturns`), `attach_tun` and `spawn_mainloop` (`Attach` to `Spawn`), the mainloop and its end.
`monitor` is the registration its operation captured in `begin_operation`. `registered` is the
registry's callback, `error` the failure on the record of each registration. `Abandon` is every way in
which the ability gives up, with or without the failure on record
(`set_platform_vpn_failed_for_attempt`); the thread is not told at once, and may not be joined in time.
`EndNotified` is `on_native_session_ended`: nothing for a `Settled` attempt, a failure for an error or
the connected owner, and otherwise a quiet end. Both engines' sides of this are in `PlatformSession`;
here the engine is its generation, lifecycle and outcome and what it holds.

### ProfileStore and the code

A profile is an id and the certificate it names. `op` is the operation that holds the engine lock:
it changes memory, then writes `connections.json`, then `preferences.json`, then removes certificates
that no profile names; each write may fail and ends the operation. `view` and `draft` are copies the
reducer works from. `Restart` and `Recreated` are `configure_home` in a new and in a live process, and
`ExtLoads`, `ExtWritesBack` the one of the Extension, which reads the selection and writes it back.

## Runs

| Run | Checks | Shows |
|---|---|---|
| `owner_journal` | `TypeOK`, `OwnerIsJournalled`, `LostOwnerIsDead`, `CleanedIsFinal`, `TombstoneHolds`, `AttemptNeverReplaced`, `OwnershipHandover`, `OwnershipSpec` | with a directory that can be synced, the journal and its leases implement `TunnelOwnership` |
| `owner_journal_torn` | `CleanedIsFinal`, `TombstoneHolds` | what survives when the directory sync fails; `OwnerIsJournalled` and `OwnershipHandover` do not |
| `session_safety` | `TypeOK`, `TunnelIsOwned`, `CleanMeansReleased`, `FreshStartIsExclusive`, `AdoptionIsClean`, `StopIsClaimable`, `TerminalSticks` | safety of the whole session under every fault |
| `session_one_connect` | `StartResolves`, `VerdictReaches`, `PluginDrains` | a single connect always ends, a verdict takes its tunnel down, and the operation chain never hangs, under every fault |
| `session_stop` | `StopCompletes` | a stop releases connection, session, journal and fence |
| `auth_bridge` | `FormHasWaiter`, `AbortedShowsNothing`, `AnswersOwnForm`, `AnsweredOnce`, `WaiterLeaves` | what the user sees has a worker behind it, replies are not mixed up, no worker waits for a form that is gone |
| `ashmem_lane` | `ReadIsWhole`, `ReadIsRecent`, `ScrubLeavesNothing`, `NewestArrives`, `RegisterSpec` | reads without a lock are whole and recent, and the lane implements `LaneRegister` |
| `native_session` | `TypeOK`, `NeverReplayed`, `SubmissionIsOwned`, `ConversationEnds`, `UnprotectedOnRecord`, `OldEndIsSilent` | secrets go where they belong, no server keeps a worker busy for ever, threads of an old attempt do no harm |
| `profile_store` | `TypeOK`, `CertificatesExist`, `SessionKeepsProfile` | whichever write fails, no profile loses its certificate, and a session keeps its profile |
| `session_verdict`, `session_stuck`, `session_ack` | one property each, refuted | see below |

Three runs refute what a comment or doc of the code says (`findings` in `PROJECT.json` quotes it):

* `session_verdict`: the watchdog's verdict lives in the UI lane until the next frame. A connect
  that follows replaces it; a stalled Extension that wakes later finds a frame of no attempt and
  keeps its tunnel.
* `session_stuck`: connect, disconnect, connect. The second connect overtakes the stop; the stop is
  dropped with its fence in place, the start is refused before it has an attempt id, so no attempt is
  failed, and the UI waits in Establishing.
* `session_ack`: the UI's Cancelled frame sets the Extension's lifecycle to Disconnected, the native
  stop of the cleanup then returns early, and the cleanup is acknowledged while the session's worker
  still runs. (The next tick of the Extension stops it.)

`StartResolves` and `VerdictReaches` hold for one connect and fail for two: what breaks them is the
second connect, not the faults.

Every property of a passing run has an operator marked `Mutant`, listed in `PROJECT.json`: a
plausible slip in one operation, with which TLC refutes the property.

### What the models show besides

The properties are as strong as the code allows. Where one carries an exception, or a plausible one is
missing, the code does the following.

* After a failed directory sync, recovery may delete the record of an Extension that took its lease
  again between the test of the lease and the deletion (`owner_journal_torn` has no ownership
  property for this reason).
* `prepare_connect` forgets the attempt but not its issuer lease; the frame that reports the cleanup no
  longer matches, and the next start may find its own lease locked.
* The acknowledgement of a late Want is a copy of an older UI frame; applied after a cleanup was
  recorded, it takes `cleanup_complete` back.
* A disconnect between the first section of `prepare_connect` and `prepare_native`'s second one
  (connection.rs:690, no look at the generation) leaves an engine in Authenticating whose task has
  ended.
* In a lane, two acknowledgements may hide a frame of the engine until it publishes again, hence the
  `since >= acks` of `NewestArrives`; a crash in the middle of a frame or a second writer may leave bytes
  of a secret, hence the `disturbed` of `ScrubLeavesNothing`; a failed notification or a crash between
  the two publications of a scrub leaves the secret in the other slot until the next publication of an
  envelope without one, hence its `owed`; an acknowledgement draws its generation from the headers it
  met when it attached, and may put an old number over a newer one when the engine has published
  meanwhile, hence the `acks = 0` of `ReadIsRecent`; a read that meets a writer may be one generation old or
  find nothing.
* A resumption the ability has given up on fails over to the next gateway, and its `begin_operation`
  captures the registration of the next attempt and clears that attempt's error while its mainloop may
  have a socket outside the protection. `UnprotectedOnRecord` therefore excludes registrations that
  another attempt captured (`foreign`); the comments at platform_protect.rs:58 and :103 have only
  sequential operations in mind.
* After a crash an Extension takes a connected attempt over and runs a session for it; its next
  synchronisation takes from the UI's older frame that none runs. If the worker then returns without an error,
  `on_native_session_ended` publishes Disconnected with the outcome Connected: the attempt has not ended,
  and the ability's cleanup is refused until the UI ends it. The fault `quit` is this branch; all
  properties of the session hold with it.
* A failed save of a profile leaves memory changed, without a rollback; a failed write of the
  preferences keeps the certificates of a deleted profile on disk. The Extension's write-back may undo
  a newer selection. A UI ability created anew in a live process may take the selection off the
  session's profile, and a profile may be edited between the tap and `prepare_connect`: `exposed`
  in `SessionKeepsProfile`.

## Bounds

* `OwnerJournal`: two incarnations of each process and three attempts (two with a failing sync). Two
  incarnations are enough for every kind of pair the protocol distinguishes: owner and successor,
  dead issuer and new one, probe and binding. Three attempts let an old record, the current and a
  fresh one meet. Incarnations are symmetric; only safety is checked there.
* `PlatformSession`: `MaxConnect` connects and `MaxInc` = 2 Extension processes. Two connects are the
  old and the new attempt; every mechanism distinguishes only "this attempt" from "another". Two
  processes are the one that crashed and its replacement. `epoch` is bounded by the connects.
  `Faults` names what the environment may do: reject a dispatch, fail native work, fail a create or a
  destroy, reject the OS stop, let a deadline pass, stall the Extension's heartbeat, crash it,
  hang up as a peer, let a worker return without an error.
* `AshmemLane`: three revisions, one acknowledgement, one crash. The third revision comes back to the
  slot of the first, which is where a torn read or a left-over secret would show.
* `AuthBridge`: three taps and three forms: an old worker, a disconnect that ends it and the connect
  after that, each with a form.
* `NativeSession`: eleven forms, chosen so that each branch of `handle_auth_form` is taken (login with
  one and with two passwords, second factor, group offered and missing, echoed and hidden fields,
  form without an id), two replies of the user, then two attempts over two gateways: an old thread beside a
  new session, and a failover.
* `ProfileStore`: two profiles and two certificates, symmetric: one that is in use and one that is
  edited, a certificate shared and one replaced.

The bounds are guards on the users and the environment (`Connect`, `WantArrives`, `BeginAcquire`,
`Publish`, `AckAttach`, `Crash`, the taps, the forms, `Start`), never on the program's reactions.
Deadlock is checked in `profile_store` only; the other systems really stop: the user does nothing
more, every incarnation has died, all frames are published and read.

## Fairness

* `PlatformSession`: weak fairness of what the program and the platform always do: engine calls that
  were begun return (`Authenticated \/ AuthFailed`, `DisconnectBegin \/ DisconnectEnd`), the UI's tick
  timer and the ability's heartbeat fire, the promise chain and the request handler go on whenever the
  awaited thing has settled, native work and `VpnConnection.create` settle, the system delivers an
  accepted Want, calls `onDestroy` and ends the process of a destroyed ability. Nothing is assumed of
  the user, of the gateway, of faults and of crashes. A deadline need not pass, except where
  `deadline` is a fault and the step it enables is part of the plugin's fairness (`PluginDrains`, and
  `StartResolves` after a crash).
* `AuthBridge`: tasks and workers are scheduled (`wait_for_reply` has a timeout, so a worker's wait
  ends), the reducer ticks, a server that has nothing to ask decides. The user never has to answer.
* `AshmemLane`: a writer that began a publication ends it, and the UI reads on every tick (its timer
  polls; no notification is needed). Nobody has to publish, and a reader may start at any moment.
* `NativeSession`: the server answers or the exchange fails, the worker goes on, and a form that is up
  is answered or the bridge gives up on it after its timeout. What the server answers is free, so
  `ConversationEnds` rests on the limits of `handle_auth_form` alone. Nothing is assumed of the
  session.

`OwnerJournal` and `ProfileStore` are checked for safety only.

## Proofs

The theorems hold for every value of the constants. Each rests on an inductive invariant, which none
of the properties is alone.

**`OwnerJournal_proofs`** (any processes and attempts). `TypeCorrect`, `CleanupIsFinal`,
`TombstoneIsFinal` and `AttemptIsKept` need nothing of the file system: they follow from
`DisciplineHolds`, the invariance of `TornInv`, also when a journal write that reports an error has
happened (`DirSyncMayFail`). It keeps of the leases only what such a write cannot break: the issuer
lease reserves the newest attempt and the free journal for the start in progress. `OneOwner`,
`ProbeIsSound`, `OwnershipIsHandedOver` and the refinement `ImplementsOwnership` assume that no
directory sync fails; under `DirSyncMayFail` TLC refutes each of the four. They follow from
`Invariant`: `Spec => []IInv`. That an owner is the one in the journal needs three
facts about steps in progress: a process that acquires a lease holds it (`AcquirerHolds`), a begin in
progress has reserved a free journal (`BeginReserved`), and the record a binding works with never
names the process itself (`BindIsForeign`), because a running process named in the journal already
stores its guard (`OwnerIsBound`). The last is what a failing directory sync breaks, and why these
theorems assume that there is none. That recovery removes no live owner needs `RecoveryProof`: what
the loop read is still the journal, or its owner died, or the attempt was cleaned meanwhile, and once
death was proved only the last two remain; a record whose attempt was cleaned is not in the journal
(`CleanedIsFinal`), so the comparison of the deletion fails. `LostIsGone` needs `OwnerIsJournalled`:
while the probe holds the lease no live Extension is bound.

**`PlatformSession_proofs`** (any connects, Extension processes and faults). `TunnelOwned` is
`TunnelIsOwned`, the main safety property of the session. `OwnerInv` strengthens it from sessions that
run to handlers and native jobs that may yet make one run (`Claims`), and rests on three facts: an
engine gives its lease up only together with its outcome (`Retains`, shown for every operation of
`PlatformEngine`), a binding to another attempt supersedes the attachment in progress, and the
journal of an attached owner is deleted only by its own acknowledgement or when its lease is free.
`OutcomesStick` is `TerminalSticks`: every operation follows its attempt (`Follows`), and an engine
without one has no outcome to lose (`UiIdle`, `ExtIdle`). `TypeCorrect` includes that a connect leads to
at most one attempt, by counting the requests that still wait for theirs (`StartsCounted`), of which
there is one at a time because a start is joined and not queued twice (`OneStart`).

**`PlatformRelease_proofs`** (any connects, Extension processes and faults) goes on from there.
`CleanReleased`, `StartExclusive` and `AdoptionClean` are `CleanMeansReleased`,
`FreshStartIsExclusive` and `AdoptionIsClean`; `ReleaseHolds` is the invariant behind them. No engine,
frame or acknowledgement reports the attempt that the journal names as cleaned up (`ReportInv`): a
report is made together with the deletion of the record, and a new attempt begins without one. What
the ability serves or cleans up after is the attempt of the journal, with this process and its lease
(`HeldInv`), and a connection is left only while it does one of the two (`StageInv`). A Want reaches an
incarnation of the Extension once, so that a request that waits is for another attempt (`ServeInv`). If
the journal then names an attempt that no Extension has bound, or none, nothing is served and nothing
is left of a cleanup: not even one that failed, because a failed cleanup keeps its record.

**`PlatformStop_proofs`** (the same) shows that the plugin never refuses the stop of a connected
session: `StopClaimable` is `StopIsClaimable`, `ClaimHolds` the invariant behind it. The property says
nothing of how a claim could conflict, so that the invariant needs three accounts. It is for sessions that end with a failure or
because they are stopped: `NoQuit` leaves out the fault `quit`, which only this theorem and `ClaimHolds` assume;
with it, an Extension denies an attempt under way and `FrameInv` does not hold, and TLC checks
`StopIsClaimable` (`session_safety`) all the same. *Older stops*: only a
session that the UI shows as connected is disconnected, and by then no stop of its attempt is in the
plugin's chain, nor the newest request (`TaskInv`); hence no stop is in progress when the new one comes.
*Older fences*: requests run in the order of their epochs, no start begins behind a fence, and a stop
that had no attempt to fence found no journal, so that a fence left behind is for the attempt of the
journal (`RequestInv`). *A journal that is gone*: the Extension deletes it in the step that publishes the
cleanup, and nothing in it, be it an acknowledgement, a request or a Want on its way, can replace that
frame by one that says less, so that the UI has learned of the cleanup or does when it next reads the
lane (`GoneInv`, `LateInv`); the plugin deletes it only in a recovery, which tells the UI at once. That a
connected session was never stopped needs that what the UI shows follows the outcome (`Shown`), so that
no frame denies an attempt under way (`FrameInv`), which holds because the Extension has no session of
an older attempt left when the UI may have heard of the new one (`ForeignInv`). One step of the
argument is the model's timing and not the code's: an authentication takes longer than a bridge call
takes to reach the plugin (the guard `~jsStop` of `Authenticated`).

**`AuthBridge_proofs`** (any taps and forms). `EveryFormHasWaiter`, `AbortIsSilent`, `RepliesMatch`,
`OneAnswerPerForm` are the safety properties of `auth_bridge`. `IInv` adds to them that ids not yet
given out have open channels (`FreshIds`) and that only a waiting worker holds a form
(`IdleHoldsNothing`): a new form then cannot meet an old answer, nor an old worker the new form.

**`AshmemLane_proofs`** (any revisions, acknowledgements and crashes). `ReadersTakeWholeFrames` is
`ReadIsWhole`, and `LaneImplementsRegister` the refinement. `Inv` adds that a header in place, and one
the reader holds, names a revision that was sealed, and that a writer on its way has a revision to
seal. `ReadersTakeRecentFrames` is `ReadIsRecent`: while the engine is the only writer, the headers are
those of the two newest generations (`TwoNewest`), the newest frame is whole (`NewestWhole`), and the
engine works on the other slot, so that a reader (`ReadRecent`, `ReadCalm`) misses at most one. `ScrubbedClean` is `ScrubLeavesNothing`, with an
invariant about which slot a stain may be in while the engine alone writes, and how it follows from the
publications still owed (it uses `RecentInvariant`, the invariant behind `ReadersTakeRecentFrames`).

**`ProfileStore_proofs`** (any profiles and certificates). `TypeCorrect`, `CertificatesStay` and
`ProfileIsKept` are the properties of `profile_store`. `IInv` says which lists a
certificate must outlive (`FilesInv`), that a certificate is removed only once `connections.json` holds
what memory holds (`OpInv`), and that the session's profile is in memory and active (`SessionInv`).
Lists of profiles are reasoned about through what they hold
(`Lists`), with a lemma for each operation on a list.

**`NativeSession_proofs`** (any forms, replies, attempts and gateways). `AnswersOnce` is
`NeverReplayed`: the state of a conversation remembers every form it answered by itself
(`AutosKept`). `PasswordGoesOnce` is `SubmissionIsOwned`, from lemmas about `Applied` and `Bound` for
any form. `BypassIsKnown` is `UnprotectedOnRecord`: `BareKnown` says for each phase of a thread what a
client without protection leaves on the record, `MonitorsKnown` that two threads share a record only
if one captured it in passing. `OldEndsAreSilent` is `OldEndIsSilent`: the generations of earlier
threads are behind the engine's (`ThreadsBehind`). `TypeCorrect` also bounds the generation, by
counting how often an attempt raises it (`RaisesCounted`).

The modules are laid out action by action, those about `PlatformSession` by groups of variables first: a
lemma per action shows that it preserves every conjunct it can disturb, lemmas about helpers are
stated once, and the theorems combine them.

Only model-checked: the liveness properties (`StartResolves`, `VerdictReaches`, `PluginDrains`,
`StopCompletes`, `WaiterLeaves`, `NewestArrives`, `ConversationEnds`): liveness under fairness is
outside the prover's reach.

## Not modelled

* Log recording and merged logs: diagnostics, no decision of the program reads them. The marker file
  that two processes change without a lock is named in the hazards.
* The browser request: one shot, carried by the envelopes of `AshmemLane`.
* Group discovery, the translation of a profile into OpenConnect options, of network settings into
  `VpnConfig`, validation, routes, client identity: functions over text and addresses without state.
* The emulator's descriptor handoff, its debug start-up cleanup and `dry_run`: they exist in debug
  builds or on the emulator only.
* `expire_platform_vpn_start`, `set_profiles`, `set_active_force_global`: no caller in the shipped code.
* Waiting for, waking and cancelling a lane subscription: every reader also polls, and no property
  rests on a notification. `NewestArrives` therefore shows that polling is enough, and nothing of how
  soon a notification brings a frame.
* In `NativeSession`: `attach_tun`'s second resumption when no client waits (only the ability's own
  cleanup takes the client, so that the branch is not reached) and statistics. `tick`'s look at
  `is_finished` finds nothing there, since the end of a mainloop is notified first.
* Ids and revisions that a clock set back would repeat: they are fresh numbers in the models.
* Views, localisation, camera, file pickers, colour mode, scripts and packaging.

## Running

    tlc -config OwnerJournal.cfg MCOwnerJournal
    tlc -config SessionSafety.cfg MCPlatformSession
    tlc -config AuthBridge.cfg AuthBridge
    tlapm NativeSession_proofs.tla

Each configuration belongs to the module `PROJECT.json` names with its run. `session_one_connect`,
`ashmem_lane` and `profile_store` are the longest, one to three minutes each with two workers.
