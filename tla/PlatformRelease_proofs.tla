----------------------- MODULE PlatformRelease_proofs -----------------------
(***************************************************************************)
(* A cleanup that is reported has happened, a start has the system to      *)
(* itself, and a Want is only ever adopted by an ability that has nothing  *)
(* left of an older attempt.                                               *)
(*                                                                         *)
(* Three facts carry them.  No engine, frame or acknowledgement reports    *)
(* the attempt the journal names as cleaned up (ReportInv).  The attempt   *)
(* that an ability serves, or cleans up after, is the one the journal      *)
(* names, with this process and its lease (HeldInv), and the handler's     *)
(* step says which attempt that is (StageInv).  And a Want reaches one     *)
(* incarnation of the Extension once, so that no request is for an attempt *)
(* it already serves or cleans up after (ServeInv).                        *)
(***************************************************************************)
EXTENDS PlatformSession_proofs

Reports(x, n, a) == x.att <= n /\ (x.clean /\ x.att # 0 => x.att # a)

ReportInv ==
  /\ Reports(ui, issued, journal.att) /\ Reports(uiLane, issued, journal.att)
  /\ Reports(ext, issued, journal.att) /\ Reports(extLane, issued, journal.att)
  /\ Reports(late, issued, journal.att)

\* This process owns the attempt.
HeldBy(a) ==
  /\ a # 0 /\ journal = [phase |-> "Attached", att |-> a, ext |-> inc]
  /\ ext.att = a /\ ext.lease = a

HeldInv ==
  /\ act # 0 => HeldBy(act)
  /\ cleanup.stage # "none" => HeldBy(cleanup.att)

\* From the binding to the end of the attachment.
Serving == {"begin", "prepare", "prepared", "create", "attach", "check"}

StageInv ==
  /\ ability = "absent" =>
       act = 0 /\ conn = "none" /\ cleanup.stage = "none" /\ step = "idle" /\ req = 0
  /\ act # 0 => cleanup.stage = "none"
  /\ conn # "none" => act # 0 \/ cleanup.stage \in {"stop", "join", "wait", "failed"}
  /\ step = "bind" => act = 0 /\ cleanup.stage = "none"
  /\ step = "throw" => act \in {0, cur} /\ cleanup.stage = "none"
  /\ step \in Serving /\ ability = "up" => act = cur
  /\ step = "closing" => act = 0 /\ (cleanup.stage # "none" => cleanup.att = cur)

\* The ability serves the attempt, or cleans up after it.
Served(a) == a # 0 /\ (a = act \/ (cleanup.stage # "none" /\ a = cleanup.att))

ServeInv ==
  /\ step \in {"idle", "wait"} => ~Served(req)
  /\ step = "wait" => ~Served(cur)
  /\ \A a \in wants : ~Served(a) /\ a # req /\ a # cur
  /\ ability = "destroyed" => req = 0

\* Nobody knows an attempt that was not issued.
IssuedInv ==
  /\ \A a \in wants : a <= issued
  /\ cur <= issued /\ req <= issued /\ act <= issued /\ cleanup.att <= issued

AbilityInv == StageInv /\ ServeInv /\ IssuedInv

-----------------------------------------------------------------------------
(* The operations of the engine                                            *)

\* The attempt and the lease stay, and no cleanup is reported.
Mild(x, y) == y.att = x.att /\ y.lease = x.lease /\ (y.clean => x.clean)

LEMMA ApplyClean ==
  ASSUME NEW x \in Engine, NEW f \in FrameOf, NEW b \in BOOLEAN
  PROVE  /\ Apply(x, f, b).clean => x.clean \/ f.clean
         /\ ~x.clean /\ ~f.clean => Apply(x, f, b).lease = x.lease
<1> DEFINE z == Settle(x, f)
           n == IF b /\ (f.attd \/ f.run \/ f.out \in Terminal) THEN "none" ELSE z.native
           w == IF b THEN f.own ELSE z.own
           d == IF f.out \in Terminal THEN f.attd ELSE z.attd \/ f.attd
           y == [z EXCEPT !.native = n, !.stop = z.stop \/ f.stop, !.own = w, !.attd = d]
           r == f.out \notin Terminal /\ (y.native = "running" \/ y.run)
           o == IF ~r /\ y.out = "Pending" /\ f.life = "Failed" THEN "Failed" ELSE y.out
           l == LifeAfter(x, f, r, y.start)
           g == IF y.clean THEN 0 ELSE y.lease
<1>1. z \in Engine
  BY SettleFollows
<1>2. z.lease = x.lease
  BY DEF Settle, Engine
<1>3. z.clean => x.clean \/ f.clean
  BY DEF Settle, Engine, FrameOf
<1>4. y.lease = z.lease /\ y.clean = z.clean /\ DOMAIN y = DOMAIN z
  <2> HIDE DEF z, n, w, d
  <2> QED
    BY <1>1 DEF Engine
<1>5. Apply(x, f, b) = [y EXCEPT !.out = o, !.life = l, !.lease = g]
  BY DEF Apply
<1>6. Apply(x, f, b).lease = g /\ Apply(x, f, b).clean = y.clean
  <2>1. DOMAIN z = {"att", "out", "attd", "stop", "clean", "start", "run", "life", "own",
                    "hand", "lease", "native"}
    <3> HIDE DEF z
    <3> QED
      BY <1>1 DEF Engine
  <2> HIDE DEF y, o, l, g, z
  <2> QED
    BY <1>4, <1>5, <2>1
<1>7. ~y.clean => g = y.lease
  OBVIOUS
<1> HIDE DEF y, o, l, g, z, r
<1> QED
  BY <1>2, <1>3, <1>4, <1>6, <1>7

LEMMA AdoptClean ==
  ASSUME NEW x \in Engine, NEW f \in FrameOf
  PROVE  Adopt(x, f).clean = f.clean
<1> DEFINE n == IF x.native = "running" THEN "foreign" ELSE x.native
           y == [x EXCEPT !.att = f.att, !.out = f.out, !.attd = f.attd, !.stop = f.stop,
                          !.own = f.own, !.clean = f.clean, !.native = n]
<1>1. y.clean = f.clean /\ DOMAIN y = DOMAIN x
  BY DEF Engine
<1>2. \/ Adopt(x, f) = y
      \/ Adopt(x, f) = [y EXCEPT !.start = TRUE, !.run = FALSE, !.life = "Establishing"]
  BY DEF Adopt
<1> HIDE DEF y
<1> QED
  BY <1>1, <1>2 DEF Engine

\* Both engines.
LEMMA EndingsMild ==
  ASSUME NEW x \in Engine
  PROVE  /\ Mild(x, Fail(x)) /\ Mild(x, Disconnecting(x)) /\ Mild(x, Disconnected(x))
         /\ Mild(x, x)
<1>1. Mild(x, Fail(x))
  <2> DEFINE o == IF x.out = "Pending" THEN "Failed" ELSE x.out
  <2>1. Fail(x) = [x EXCEPT !.start = FALSE, !.run = FALSE, !.hand = FALSE, !.native = "none",
                            !.out = o, !.life = "Failed"]
    BY DEF Fail
  <2> HIDE DEF o
  <2> QED
    BY <2>1 DEF Engine, Mild
<1>2. Mild(x, Disconnecting(x))
  <2> DEFINE o == IF x.out = "Failed" THEN x.out ELSE "Cancelled"
  <2>1. Disconnecting(x) = [x EXCEPT !.start = FALSE, !.run = FALSE, !.stop = TRUE,
                                     !.native = "none", !.out = o, !.life = "Disconnecting"]
    BY DEF Disconnecting
  <2> HIDE DEF o
  <2> QED
    BY <2>1 DEF Engine, Mild
<1> QED
  BY <1>1, <1>2 DEF Disconnected, Engine, Mild

\* The UI engine.
LEMMA UiMild ==
  ASSUME NEW x \in Engine
  PROVE  /\ Mild(x, PrepareReady(x)) /\ Mild(x, PrepareRejected(x))
         /\ Mild(x, ClaimStop(x)) /\ Mild(x, OwnerFailed(x))
         /\ Mild(x, [x EXCEPT !.stop = TRUE]) /\ Mild(x, [x EXCEPT !.hand = FALSE])
<1>1. Mild(x, PrepareReady(x)) /\ Mild(x, PrepareRejected(x))
  BY DEF PrepareReady, PrepareRejected, Engine, Mild
<1>2. Mild(x, ClaimStop(x)) /\ Mild(x, OwnerFailed(x))
  BY DEF ClaimStop, OwnerFailed, Engine, Mild
<1> QED
  BY <1>1, <1>2 DEF Engine, Mild

LEMMA BeginClean ==
  ASSUME NEW x \in Engine, NEW a
  PROVE  ~BeginStart(x, a).clean
BY DEF BeginStart, Engine

\* The Extension engine.
LEMMA ExtMild ==
  ASSUME NEW x \in Engine
  PROVE  /\ Mild(x, Starting(x)) /\ Mild(x, Prepared(x)) /\ Mild(x, Running(x))
         /\ Mild(x, StopOrphan(x)) /\ \A failed \in BOOLEAN : Mild(x, NativeEnded(x, failed))
         /\ Mild(x, [x EXCEPT !.native = "none"]) /\ Mild(x, Reopen(x))
<1>1. Mild(x, Starting(x)) /\ Mild(x, Prepared(x))
  BY DEF Starting, Prepared, Engine, Mild
<1>2. Mild(x, Running(x))
  <2> DEFINE o == IF x.out = "Pending" THEN "Connected" ELSE x.out
  <2>1. Running(x) = [x EXCEPT !.native = "running", !.run = TRUE, !.start = FALSE,
                               !.life = "Connected", !.out = o]
    BY DEF Running
  <2> HIDE DEF o
  <2> QED
    BY <2>1 DEF Engine, Mild
<1>3. Mild(x, StopOrphan(x))
  BY DEF StopOrphan, Engine, Mild
<1>4. ASSUME NEW failed \in BOOLEAN PROVE Mild(x, NativeEnded(x, failed))
  <2> DEFINE s == x.life \in {"Disconnected", "Disconnecting", "Failed"} \/ Ended(x)
             v == failed \/ (x.run /\ x.out = "Connected")
             o == IF s THEN x.out ELSE IF v THEN "Failed"
                  ELSE IF x.out = "Pending" THEN "Cancelled" ELSE x.out
             l == IF s THEN x.life ELSE IF v THEN "Failed" ELSE "Disconnected"
  <2>1. NativeEnded(x, failed) = [x EXCEPT !.native = "none", !.run = FALSE, !.start = FALSE,
                                   !.out = o, !.life = l]
    BY DEF NativeEnded
  <2> HIDE DEF o, l, v, s
  <2> QED
    BY <2>1 DEF Engine, Mild
<1>5. Mild(x, [x EXCEPT !.native = "none"])
  BY DEF Engine, Mild
<1>6. Mild(x, Reopen(x))
  <2> DEFINE y == [x EXCEPT !.out = "Pending", !.start = TRUE, !.run = FALSE, !.clean = FALSE]
  <2>1. Mild(x, y)
    BY DEF Engine, Mild
  <2>2. Reopen(x) = x \/ Reopen(x) = y
    BY DEF Reopen
  <2> HIDE DEF y
  <2> QED
    BY <2>1, <2>2, EndingsMild
<1> QED
  BY <1>1, <1>2, <1>3, <1>4, <1>5, <1>6

LEMMA MildTwice ==
  ASSUME NEW x, NEW y, NEW z, Mild(x, y), Mild(y, z)
  PROVE  Mild(x, z)
BY DEF Mild

LEMMA BoundClean ==
  ASSUME NEW x \in Engine, NEW p \in Nat
  PROVE  Bound(x, p).att = x.att /\ Bound(x, p).lease = x.att /\ (Bound(x, p).clean => x.clean)
<1> DEFINE c == IF x.attd THEN x.clean ELSE FALSE
<1>1. Bound(x, p) = [x EXCEPT !.lease = x.att, !.own = p, !.attd = TRUE, !.clean = c]
  BY DEF Bound
<1>2. c => x.clean
  OBVIOUS
<1> HIDE DEF c
<1>3. Bound(x, p).clean = c /\ Bound(x, p).att = x.att /\ Bound(x, p).lease = x.att
  BY <1>1 DEF Engine
<1> QED
  BY <1>2, <1>3

\* What is bound or adopted reports no more than the engine and the frame do.
LEMMA ReboundReports ==
  ASSUME UiInv, ExtInv, ReportInv, uiLane.att # 0
  PROVE  /\ Reports(Rebound(uiLane), issued, journal.att)
         /\ Rebound(uiLane) \in Engine /\ Rebound(uiLane).att = uiLane.att
<1>t. ext \in Engine /\ uiLane \in FrameOf /\ FALSE \in BOOLEAN
  BY DEF UiInv, ExtInv
<1>1. CASE ext.att = uiLane.att
  <2>1. Rebound(uiLane) = Apply(ext, uiLane, FALSE)
    BY <1>1 DEF Rebound
  <2>2. Apply(ext, uiLane, FALSE) \in Engine /\ Apply(ext, uiLane, FALSE).att = ext.att
    BY <1>t, ApplyFollows DEF Follows
  <2>3. Apply(ext, uiLane, FALSE).clean => ext.clean \/ uiLane.clean
    BY <1>t, ApplyClean
  <2> QED
    BY <1>1, <2>1, <2>2, <2>3 DEF ReportInv, Reports
<1>2. CASE ext.att # uiLane.att
  <2> DEFINE y == Adopt(ext, uiLane)
  <2>1. Rebound(uiLane) = Apply(y, uiLane, FALSE)
    BY <1>2 DEF Rebound
  <2>2. y \in Engine /\ y.att = uiLane.att /\ y.clean = uiLane.clean
    BY <1>t, AdoptTyped, AdoptClean
  <2> HIDE DEF y
  <2>3. Apply(y, uiLane, FALSE) \in Engine /\ Apply(y, uiLane, FALSE).att = y.att
    BY <1>t, <2>2, ApplyFollows DEF Follows
  <2>4. Apply(y, uiLane, FALSE).clean => y.clean \/ uiLane.clean
    BY <1>t, <2>2, ApplyClean
  <2> QED
    BY <2>1, <2>2, <2>3, <2>4 DEF ReportInv, Reports
<1> QED
  BY <1>1, <1>2

\* A synced engine reports no more than it did, or than its peer did.
LEMMA SyncedReports ==
  ASSUME UiInv, ExtInv, ReportInv
  PROVE  /\ UiSynced \in Engine /\ Reports(UiSynced, issued, journal.att)
         /\ UiSynced.att = ui.att
         /\ ExtSynced \in Engine /\ Reports(ExtSynced, issued, journal.att)
         /\ ExtSynced.att = ext.att
         /\ ext.att = journal.att /\ ext.att # 0 => Mild(ext, ExtSynced)
<1>t. /\ ui \in Engine /\ ext \in Engine /\ uiLane \in FrameOf /\ extLane \in FrameOf
      /\ TRUE \in BOOLEAN /\ FALSE \in BOOLEAN
  BY DEF UiInv, ExtInv
<1>1. /\ UiSynced \in Engine /\ Reports(UiSynced, issued, journal.att)
      /\ UiSynced.att = ui.att
  <2>1. CASE UiMatch
    <3>1. UiSynced = Apply(ui, extLane, TRUE) /\ extLane.att = ui.att
      BY <2>1 DEF UiSynced, UiMatch
    <3>2. Apply(ui, extLane, TRUE) \in Engine /\ Apply(ui, extLane, TRUE).att = ui.att
      BY <1>t, ApplyFollows DEF Follows
    <3>3. Apply(ui, extLane, TRUE).clean => ui.clean \/ extLane.clean
      BY <1>t, ApplyClean
    <3> QED
      BY <3>1, <3>2, <3>3 DEF ReportInv, Reports
  <2>2. CASE ~UiMatch
    BY <1>t, <2>2 DEF UiSynced, ReportInv
  <2> QED
    BY <2>1, <2>2
<1>2. /\ ExtSynced \in Engine /\ Reports(ExtSynced, issued, journal.att)
      /\ ExtSynced.att = ext.att
      /\ ext.att = journal.att /\ ext.att # 0 => Mild(ext, ExtSynced)
  <2>1. CASE ExtMatch
    <3>1. ExtSynced = Apply(ext, uiLane, FALSE) /\ uiLane.att = ext.att
      BY <2>1 DEF ExtSynced, ExtMatch
    <3>2. Apply(ext, uiLane, FALSE) \in Engine /\ Apply(ext, uiLane, FALSE).att = ext.att
      BY <1>t, ApplyFollows DEF Follows
    <3>3. /\ Apply(ext, uiLane, FALSE).clean => ext.clean \/ uiLane.clean
          /\ ~ext.clean /\ ~uiLane.clean => Apply(ext, uiLane, FALSE).lease = ext.lease
      BY <1>t, ApplyClean
    <3> QED
      BY <3>1, <3>2, <3>3 DEF ReportInv, Reports, Mild
  <2>2. CASE ~ExtMatch
    BY <1>t, <2>2, EndingsMild DEF ExtSynced, ReportInv
  <2> QED
    BY <2>1, <2>2
<1> QED
  BY <1>1, <1>2

-----------------------------------------------------------------------------
(* What a step does to the engines and the journal                         *)

\* The attempt that the journal names from now on is none, the same or new.
JournalMoves ==
  \/ issued' = issued /\ journal'.att \in {0, journal.att}
  \/ issued' = issued + 1 /\ journal'.att = issued + 1

LEMMA StillReports ==
  ASSUME NEW x, x.att \in Nat, issued \in Nat, Reports(x, issued, journal.att), JournalMoves
  PROVE  Reports(x, issued', journal'.att)
BY DEF Reports, JournalMoves

LEMMA MildReports ==
  ASSUME NEW x, NEW y, NEW n, NEW a, Mild(x, y), Reports(x, n, a)
  PROVE  Reports(y, n, a)
BY DEF Mild, Reports

LEMMA FrameReports ==
  ASSUME NEW x, NEW n, NEW a, Reports(x, n, a)
  PROVE  Reports(Frame(x), n, a)
BY DEF Frame, Reports

LEMMA NothingReported ==
  ASSUME NEW n \in Nat, NEW a
  PROVE  Reports(NoFrame, n, a) /\ Reports(NewEngine, n, a)
BY DEF NoFrame, Frame, NewEngine, Reports

LEMMA NextMovesJournal ==
  ASSUME IInv, [Next]_vars
  PROVE  JournalMoves
<1>i. issued \in Nat /\ journal.att \in Nat
  BY DEF IInv, UiInv, JournalInv, Attempts
<1>q. ASSUME UNCHANGED issued, journal' = journal \/ journal' = NoJournal PROVE JournalMoves
  BY <1>q DEF JournalMoves, NoJournal
<1>1. CASE UiStep
  BY <1>1, <1>q DEF UiStep, Connect, Authenticated, AuthFailed, Disconnect, DisconnectBegin,
                    DisconnectEnd, UiTick, Watchdog, sharedVars
<1>2. CASE StopClaimed
  <2>1. UNCHANGED issued
        /\ journal' = [journal EXCEPT !.phase = IF @ = "Pending" THEN "Stopping" ELSE @]
    BY <1>2 DEF StopClaimed
  <2>2. journal'.att = journal.att
    BY <2>1 DEF IInv, JournalInv
  <2> QED
    BY <2>1, <2>2 DEF JournalMoves
<1>3. CASE StopRecover
  BY <1>3, <1>q DEF StopRecover
<1>4. CASE StartBegin
  BY <1>4 DEF StartBegin, JournalMoves
<1>5. CASE ChainNext \/ StopSuperseded \/ StopRequest \/ StopCooperated \/ StopImpatient
           \/ StopOs \/ StopConfirmed \/ StopRejected \/ StopGivesUp
  BY <1>5, <1>q DEF ChainNext, StopSuperseded, StopRequest, StopCooperated, StopImpatient,
                    StopOs, StopConfirmed, StopRejected, StopGivesUp, sharedVars
<1>6. CASE StartRefused \/ StartSent \/ StartFailed \/ StartSettled \/ StartTimeout
  BY <1>6, <1>q DEF StartRefused, StartSent, StartFailed, StartSettled, StartTimeout, sharedVars
<1>7. CASE Bind
  BY <1>7 DEF Bind, CanBind, JournalMoves
<1>8. CASE HandlerCatches \/ CleanupAck
  BY <1>8, <1>q DEF HandlerCatches, FailUnattached, CleanupAck
<1>9. ASSUME NEW a \in Attempts, WantArrives(a)
      PROVE  JournalMoves
  BY <1>9, <1>q DEF WantArrives, sharedVars
<1>10. CASE HandleNext \/ HandleSuperseded \/ HandleStale \/ HandleChecked \/ BindRefused
            \/ StartPrepare \/ PrepareDone \/ CreateBegin \/ CreateDone \/ CreateFailed
            \/ OperationTimeout \/ AttachDone \/ AttachCheck \/ HandleClosed
  BY <1>10, <1>q DEF HandleNext, HandleSuperseded, HandleStale, HandleChecked, BindRefused,
                    StartPrepare, PrepareDone, CreateBegin, CreateDone, CreateFailed,
                    OperationTimeout, AttachDone, AttachCheck, HandleClosed, sharedVars
<1>11. CASE LatePublish \/ JobEnds \/ CreateSettles \/ ExtSync \/ Heartbeat \/ SessionEnds
            \/ CleanupStop \/ CleanupJoined \/ CleanupDestroy
            \/ OnDestroy \/ ExtensionExits \/ ExtensionCrashes
  BY <1>11, <1>q DEF LatePublish, JobEnds, CreateSettles, ExtSync, Heartbeat, SessionEnds,
                    CleanupStop, CleanupJoined, CleanupDestroy, OnDestroy, ExtensionExits,
                    ExtensionCrashes, ExtensionGone, sharedVars
<1>12. CASE PluginStep
  BY <1>2, <1>3, <1>4, <1>5, <1>6, <1>12 DEF PluginStep
<1>13. CASE ExtensionStep
  BY <1>7, <1>8, <1>9, <1>10, <1>11, <1>13 DEF ExtensionStep, HandlerStep, CleanupStep
<1>14. CASE UNCHANGED vars
  BY <1>14, <1>q DEF vars, sharedVars
<1> QED
  BY <1>1, <1>12, <1>13, <1>14 DEF Next

\* The UI engine changes mildly, forgets its attempt, begins one or recovers one.
UiMoves ==
  /\ \/ Mild(ui, ui') \/ Mild(UiSynced, ui') \/ ui'.att = 0
     \/ ~ui'.clean /\ ui'.att = issued'
     \/ ui'.att = ui.att /\ journal'.att = 0
  /\ uiLane' \in {uiLane, Frame(ui')}

LEMMA UiStepMoves ==
  ASSUME IInv, UiStep
  PROVE  UiMoves
<1>i. ui \in Engine /\ UiInv /\ ExtInv
  BY DEF IInv, UiInv
<1>s. UiSynced \in Engine
  BY <1>i, UiSyncedFollows
<1>1. CASE Connect
  BY <1>i, <1>1, PrepareFollows DEF Connect, UiPublish, UiMoves
<1>2. CASE Authenticated \/ AuthFailed
  <2>1. ui' \in {PrepareReady(ui), PrepareRejected(ui)} /\ uiLane' = Frame(ui')
    BY <1>2 DEF Authenticated, AuthFailed, UiPublish
  <2> QED
    BY <1>i, <2>1, UiMild DEF UiMoves
<1>3. CASE Disconnect \/ DisconnectBegin \/ DisconnectEnd
  <2>1. /\ ui' \in {ui, Disconnecting(ui), Disconnected(ui)}
        /\ uiLane' = uiLane \/ uiLane' = Frame(ui')
    BY <1>3 DEF Disconnect, DisconnectBegin, DisconnectEnd, UiPublish, uiVars
  <2> QED
    BY <1>i, <2>1, EndingsMild DEF UiMoves
<1>4. CASE UiTick \/ Watchdog
  <2>1. /\ ui' \in {UiSynced, OwnerFailed(UiSynced), OwnerFailed(ui)}
        /\ uiLane' = uiLane \/ uiLane' = Frame(ui')
    BY <1>4 DEF UiTick, Watchdog, UiPublish, UiQuiet
  <2> QED
    BY <1>i, <1>s, <2>1, UiMild, EndingsMild DEF UiMoves
<1> QED
  BY <1>1, <1>2, <1>3, <1>4 DEF UiStep

LEMMA PluginStepMoves ==
  ASSUME IInv, PluginStep
  PROVE  UiMoves
<1>i. ui \in Engine /\ UiInv /\ ExtInv
  BY DEF IInv, UiInv
<1>s. UiSynced \in Engine /\ UiSynced.att = ui.att
  BY <1>i, UiSyncedFollows DEF Follows
<1>1. CASE ChainNext \/ StopSuperseded \/ StopImpatient \/ StopOs \/ StopConfirmed
           \/ StopRejected \/ StartSent
  <2>1. ui' = ui /\ uiLane' = uiLane
    BY <1>1 DEF ChainNext, StopSuperseded, StopImpatient, StopOs, StopConfirmed, StopRejected,
                StartSent, uiVars
  <2> QED
    BY <1>i, <2>1, EndingsMild DEF UiMoves
<1>2. ASSUME ui' \in {ui, UiSynced, ClaimStop(UiSynced), [UiSynced EXCEPT !.stop = TRUE],
                      Fail(UiSynced), [UiSynced EXCEPT !.hand = FALSE]},
             uiLane' = uiLane \/ uiLane' = Frame(ui')
      PROVE  UiMoves
  BY <1>i, <1>s, <1>2, UiMild, EndingsMild DEF UiMoves
<1>3. CASE StopClaimed
  BY <1>2, <1>3 DEF StopClaimed, UiPublish, UiQuiet
<1>4. CASE StopRequest
  BY <1>2, <1>4 DEF StopRequest, UiPublish, UiQuiet, uiVars
<1>5. CASE StopCooperated \/ StopGivesUp \/ StartRefused \/ StartSettled
  BY <1>2, <1>5 DEF StopCooperated, StopGivesUp, StartRefused, StartSettled, UiPublish, UiQuiet,
                    uiVars
<1>6. CASE StartFailed \/ StartTimeout
  BY <1>2, <1>6 DEF StartFailed, StartTimeout, FailStart, UiPublish, UiQuiet
<1>7. CASE StopRecover
  <2>1. CASE ui' = UiSynced /\ uiLane' = uiLane
    BY <1>2, <2>1
  <2>2. CASE ui' = Recovered(UiSynced) /\ uiLane' = Frame(ui') /\ journal' = NoJournal
    <3>1. ui'.att = ui.att
      BY <1>s, <2>2, RecoveredFollows DEF Follows
    <3> QED
      BY <2>2, <3>1 DEF UiMoves, NoJournal
  <2> QED
    BY <1>7, <2>1, <2>2 DEF StopRecover, UiPublish, UiQuiet
<1>8. CASE StartBegin
  <2>1. ui' = BeginStart(UiSynced, issued + 1) /\ issued' = issued + 1 /\ uiLane' = Frame(ui')
    BY <1>8 DEF StartBegin, UiPublish
  <2>2. issued + 1 \in Nat
    BY <1>i DEF UiInv
  <2> QED
    BY <1>s, <2>1, <2>2, BeginTyped, BeginClean DEF UiMoves
<1> QED
  BY <1>1, <1>3, <1>4, <1>5, <1>6, <1>7, <1>8 DEF PluginStep

\* The Extension engine, apart from binding and dying: it changes mildly, or its
\* attempt's journal is deleted.
Deletes ==
  /\ ext'.att = ext.att /\ journal' = NoJournal
  /\ \/ cleanup.stage = "ack" /\ cleanup'.stage = "none" /\ act' = act
     \/ journal.phase = "Pending" /\ UNCHANGED <<act, cleanup>>

ExtMoves ==
  \/ journal' = journal /\ (Mild(ext, ext') \/ Mild(ExtSynced, ext'))
  \/ Deletes

LEMMA HandlerMovesExt ==
  ASSUME IInv,
         HandleNext \/ HandleSuperseded \/ HandleStale \/ HandleChecked \/ HandlerCatches
         \/ StartPrepare \/ PrepareDone \/ CreateBegin \/ CreateDone \/ CreateFailed
         \/ OperationTimeout \/ AttachDone \/ AttachCheck \/ HandleClosed
  PROVE  ExtMoves
<1>i. ext \in Engine /\ UiInv /\ ExtInv
  BY DEF IInv, ExtInv
<1>s. ExtSynced \in Engine /\ ExtSynced.att = ext.att
  BY <1>i, ExtSyncedFollows DEF Follows
<1>q. ASSUME journal' = journal,
             ext' \in {ext, ExtSynced, Fail(ExtSynced), Starting(ExtSynced), Prepared(ext),
                       Running(ext), StopOrphan(ExtSynced), [ext EXCEPT !.native = "none"]}
      PROVE  ExtMoves
  BY <1>i, <1>s, <1>q, ExtMild, EndingsMild DEF ExtMoves
<1>1. CASE HandleNext \/ HandleSuperseded \/ HandleStale \/ HandleChecked \/ CreateBegin
           \/ CreateFailed \/ OperationTimeout \/ HandleClosed
  BY <1>1, <1>q DEF HandleNext, HandleSuperseded, HandleStale, HandleChecked, CreateBegin,
                    CreateFailed, OperationTimeout, HandleClosed, extVars, sharedVars
<1>2. CASE StartPrepare \/ PrepareDone \/ AttachDone \/ CreateDone
  BY <1>2, <1>q DEF StartPrepare, PrepareDone, AttachDone, CreateDone, ExtPublish, ExtQuiet,
                    extVars, sharedVars
<1>3. CASE AttachCheck
  BY <1>3, <1>q DEF AttachCheck, ExtTicks, ExtPublish, ExtQuiet, extVars, sharedVars
<1>4. CASE HandlerCatches
  <2>1. CASE journal' = journal /\ ext' \in {ext, ExtSynced, Fail(ExtSynced)}
    BY <1>q, <2>1
  <2>2. CASE /\ ext' = [Fail(ExtSynced) EXCEPT !.clean = TRUE, !.lease = 0]
             /\ journal' = NoJournal /\ journal.phase = "Pending" /\ UNCHANGED <<act, cleanup>>
    <3>1. Fail(ExtSynced) \in Engine /\ Fail(ExtSynced).att = ext.att
      BY <1>s, FailFollows DEF Follows
    <3>2. ext'.att = ext.att
      BY <2>2, <3>1 DEF Engine
    <3> QED
      BY <2>2, <3>2 DEF ExtMoves, Deletes
  <2>3. CASE ~Newest
    BY <1>4, <2>1, <2>3 DEF HandlerCatches, extVars
  <2>4. CASE Newest /\ act = cur
    BY <1>4, <2>1, <2>4 DEF HandlerCatches, ExtPublish, ExtQuiet
  <2>5. CASE Newest /\ act # cur
    BY <1>4, <2>1, <2>2, <2>5 DEF HandlerCatches, FailUnattached, ExtPublish, ExtQuiet
  <2> QED
    BY <2>3, <2>4, <2>5
<1> QED
  BY <1>1, <1>2, <1>3, <1>4

LEMMA RestMovesExt ==
  ASSUME IInv,
         (\E a \in Attempts : WantArrives(a)) \/ LatePublish \/ JobEnds \/ CreateSettles
         \/ ExtSync \/ Heartbeat \/ SessionEnds \/ CleanupStep \/ OnDestroy
  PROVE  ExtMoves
<1>i. ext \in Engine /\ UiInv /\ ExtInv
  BY DEF IInv, ExtInv
<1>s. ExtSynced \in Engine /\ ExtSynced.att = ext.att
  BY <1>i, ExtSyncedFollows DEF Follows
<1>q. ASSUME journal' = journal,
             \/ ext' \in {ext, ExtSynced, Prepared(ext), Running(ext), StopOrphan(ExtSynced),
                          Disconnecting(ext), Disconnected(ext)}
             \/ \E failed \in BOOLEAN : ext' = NativeEnded(ext, failed)
      PROVE  ExtMoves
  BY <1>i, <1>s, <1>q, ExtMild, EndingsMild DEF ExtMoves
<1>1. ASSUME NEW a \in Attempts, WantArrives(a) PROVE ExtMoves
  BY <1>1, <1>q DEF WantArrives, extVars, sharedVars
<1>2. CASE LatePublish \/ CreateSettles \/ OnDestroy \/ CleanupDestroy
  BY <1>2, <1>q DEF LatePublish, CreateSettles, OnDestroy, CleanupDestroy, extVars, sharedVars
<1>3. CASE JobEnds \/ ExtSync \/ SessionEnds
  BY <1>3, <1>q DEF JobEnds, ExtSync, SessionEnds, ExtPublish, ExtQuiet, extVars, sharedVars
<1>4. CASE Heartbeat
  BY <1>4, <1>q DEF Heartbeat, ExtTicks, ExtPublish, ExtQuiet, sharedVars
<1>5. CASE CleanupStop \/ CleanupJoined
  BY <1>5, <1>q DEF CleanupStop, CleanupJoined, ExtPublish, extVars, sharedVars
<1>6. CASE CleanupAck
  <2>1. CASE journal' = journal
    BY <1>6, <1>q, <2>1 DEF CleanupAck, ExtPublish, ExtQuiet, extVars, NoJournal, CanAcknowledge
  <2>2. CASE journal' # journal
    <3>1. /\ ext' = CleanedUp(ExtSynced) /\ journal' = NoJournal /\ cleanup' = NoCleanup
          /\ cleanup.stage = "ack" /\ act' = act
      BY <1>6, <2>2 DEF CleanupAck, ExtPublish, handlerVars
    <3>2. ext'.att = ext.att
      BY <1>s, <3>1, CleanedUpFollows DEF Follows
    <3> QED
      BY <3>1, <3>2 DEF ExtMoves, Deletes, NoCleanup
  <2> QED
    BY <2>1, <2>2
<1> QED
  BY <1>1, <1>2, <1>3, <1>4, <1>5, <1>6 DEF CleanupStep

\* The lane carries the engine's frame or an acknowledgement made of the UI's.
LaneMoves ==
  /\ UNCHANGED <<ui, uiLane>> /\ extLane' \in {extLane, Frame(ext'), late}
  /\ late' \in {late, NoFrame} \/ \E a : late' = Acknowledgement(a)

LEMMA ExtStepMovesLane ==
  ASSUME ExtensionStep
  PROVE  LaneMoves
<1>1. ASSUME NEW a \in Attempts, WantArrives(a) PROVE LaneMoves
  BY <1>1 DEF WantArrives, uiVars, extVars, LaneMoves
<1>2. CASE LatePublish \/ HandleNext \/ HandleSuperseded \/ HandleStale \/ HandleChecked
  BY <1>2 DEF LatePublish, HandleNext, HandleSuperseded, HandleStale, HandleChecked, uiVars,
              extVars, procVars, LaneMoves
<1>3. CASE Bind \/ BindRefused
  BY <1>3 DEF Bind, BindRefused, ExtPublish, ExtQuiet, uiVars, extVars, procVars, LaneMoves
<1>4. CASE HandlerCatches
  BY <1>4 DEF HandlerCatches, FailUnattached, ExtRead, ExtPublish, ExtQuiet, uiVars, extVars,
              procVars, LaneMoves
<1>5. CASE StartPrepare \/ PrepareDone \/ CreateBegin \/ CreateDone \/ CreateFailed
  BY <1>5 DEF StartPrepare, PrepareDone, CreateBegin, CreateDone, CreateFailed, ExtRead,
              ExtPublish, ExtQuiet, uiVars, extVars, procVars, LaneMoves
<1>6. CASE OperationTimeout \/ AttachDone \/ AttachCheck \/ HandleClosed
  BY <1>6 DEF OperationTimeout, AttachDone, AttachCheck, HandleClosed, ExtTicks, ExtRead,
              ExtPublish, ExtQuiet, uiVars, extVars, procVars, LaneMoves
<1>7. CASE JobEnds \/ CreateSettles \/ ExtSync \/ Heartbeat \/ SessionEnds
  BY <1>7 DEF JobEnds, CreateSettles, ExtSync, Heartbeat, SessionEnds, ExtTicks, ExtRead,
              ExtPublish, ExtQuiet, uiVars, extVars, procVars, abilityVars, LaneMoves
<1>8. CASE CleanupStep
  BY <1>8 DEF CleanupStep, CleanupStop, CleanupJoined, CleanupDestroy, CleanupAck, ExtRead,
              ExtPublish, ExtQuiet, uiVars, extVars, procVars, LaneMoves
<1>9. CASE OnDestroy \/ ExtensionExits \/ ExtensionCrashes
  BY <1>9 DEF OnDestroy, ExtensionExits, ExtensionCrashes, ExtensionGone, uiVars, extVars,
              LaneMoves
<1> QED
  BY <1>1, <1>2, <1>3, <1>4, <1>5, <1>6, <1>7, <1>8, <1>9 DEF ExtensionStep, HandlerStep

\* The UI process and the plugin leave the Extension's engine and lane alone.
LEMMA UiStepKeepsExt ==
  ASSUME UiStep \/ PluginStep
  PROVE  UNCHANGED <<ext, extLane, late, inc, ability, step, cur, req, act, job, conn, cleanup>>
<1>1. CASE Connect \/ Authenticated \/ AuthFailed \/ Disconnect \/ DisconnectBegin
           \/ DisconnectEnd \/ UiTick \/ Watchdog
  BY <1>1 DEF Connect, Authenticated, AuthFailed, Disconnect, DisconnectBegin, DisconnectEnd,
              UiTick, Watchdog, UiRead, extVars, abilityVars, procVars, handlerVars, tunnelVars
<1>2. CASE StopClaimed \/ StopRequest \/ StopCooperated \/ StopRecover \/ StopGivesUp
  BY <1>2 DEF StopClaimed, StopRequest, StopCooperated, StopRecover, StopGivesUp, UiRead,
              extVars, abilityVars, procVars, handlerVars, tunnelVars
<1>3. CASE ChainNext \/ StopSuperseded \/ StopImpatient \/ StopOs \/ StopConfirmed
           \/ StopRejected \/ StartSent
  BY <1>3 DEF ChainNext, StopSuperseded, StopImpatient, StopOs, StopConfirmed, StopRejected,
              StartSent, extVars, abilityVars, procVars, handlerVars, tunnelVars
<1>4. CASE StartBegin \/ StartRefused \/ StartFailed \/ StartSettled \/ StartTimeout
  BY <1>4 DEF StartBegin, StartRefused, StartFailed, StartSettled, StartTimeout, FailStart,
              UiRead, extVars, abilityVars, procVars, handlerVars, tunnelVars
<1> QED
  BY <1>1, <1>2, <1>3, <1>4 DEF UiStep, PluginStep

-----------------------------------------------------------------------------
(* Reports                                                                 *)

LEMMA UiKeepsReports ==
  ASSUME IInv, IInv', ReportInv, UiStep \/ PluginStep
  PROVE  ReportInv'
<1>i. UiInv /\ ExtInv /\ UiInv' /\ issued \in Nat /\ issued' \in Nat
  BY DEF IInv, UiInv
<1>t. /\ ui'.att \in Nat /\ uiLane.att \in Nat /\ ext.att \in Nat /\ extLane.att \in Nat
      /\ late.att \in Nat
  BY <1>i DEF UiInv, ExtInv, Engine, FrameOf
<1>m. UiMoves /\ JournalMoves /\ UNCHANGED <<ext, extLane, late>>
  BY UiStepMoves, PluginStepMoves, UiStepKeepsExt, NextMovesJournal DEF Next
<1>1. Reports(ui', issued', journal'.att)
  <2>s. UiSynced.att = ui.att /\ Reports(UiSynced, issued, journal.att)
    BY <1>i, SyncedReports
  <2>1. CASE Mild(ui, ui') \/ Mild(UiSynced, ui')
    <3>1. Reports(ui', issued, journal.att)
      BY <2>1, <2>s, MildReports DEF ReportInv
    <3> QED
      BY <1>i, <1>t, <1>m, <3>1, StillReports
  <2>2. CASE ui'.att = 0
    BY <1>i, <2>2 DEF Reports
  <2>3. CASE ~ui'.clean /\ ui'.att = issued'
    BY <1>i, <2>3 DEF Reports
  <2>4. CASE ui'.att = ui.att /\ journal'.att = 0
    BY <1>i, <1>t, <2>4 DEF Reports, UiInv
  <2> QED
    BY <1>m, <2>1, <2>2, <2>3, <2>4 DEF UiMoves
<1>2. Reports(uiLane, issued', journal'.att)
  BY <1>i, <1>t, <1>m, StillReports DEF ReportInv
<1>3. Reports(uiLane', issued', journal'.att)
  BY <1>m, <1>1, <1>2, FrameReports DEF UiMoves
<1>4. /\ Reports(ext', issued', journal'.att) /\ Reports(extLane', issued', journal'.att)
      /\ Reports(late', issued', journal'.att)
  BY <1>i, <1>t, <1>m, StillReports DEF ReportInv
<1> QED
  BY <1>1, <1>3, <1>4 DEF ReportInv

LEMMA ExtEngineReports ==
  ASSUME IInv, IInv', ReportInv, ExtensionStep
  PROVE  Reports(ext', issued', journal'.att)
<1>i. /\ UiInv /\ ExtInv /\ issued \in Nat /\ issued' \in Nat /\ ext'.att \in Nat
      /\ inc \in Nat
  BY SessionBounds DEF IInv, UiInv, ExtInv, Engine, HandlerInv
<1>m. JournalMoves
  BY NextMovesJournal DEF Next
<1>s. Reports(ExtSynced, issued, journal.att)
  BY <1>i, SyncedReports
<1>q. ASSUME Reports(ext', issued, journal.att)
      PROVE  Reports(ext', issued', journal'.att)
  BY <1>i, <1>m, <1>q, StillReports
<1>1. CASE ExtMoves
  <2>1. CASE Mild(ext, ext') \/ Mild(ExtSynced, ext')
    BY <1>q, <1>s, <2>1, MildReports DEF ReportInv
  <2>2. CASE Deletes
    BY <1>i, <1>m, <2>2 DEF Deletes, NoJournal, Reports, ReportInv, JournalMoves
  <2> QED
    BY <1>1, <2>1, <2>2 DEF ExtMoves
<1>2. CASE Bind
  <2>1. uiLane.att = cur /\ cur # 0 /\ ext' = StopOrphan(Bound(Reopen(Rebound(uiLane)), inc))
    BY <1>2 DEF Bind, CanBind, ReadyToBind, ExtPublish, IInv, HandlerInv
  <2> DEFINE x == Rebound(uiLane)
             r == Reopen(x)
             b == Bound(r, inc)
  <2>2. x \in Engine /\ Reports(x, issued, journal.att)
    BY <1>i, <2>1, ReboundReports
  <2>3. ext' = StopOrphan(b)
    BY <2>1
  <2> HIDE DEF x
  <2>4. r \in Engine /\ Reports(r, issued, journal.att)
    BY <2>2, ReopenFollows, ExtMild, MildReports
  <2> HIDE DEF r
  <2>5. b \in Engine /\ Reports(b, issued, journal.att)
    BY <1>i, <2>4, BoundFollows, BoundClean DEF Reports
  <2> HIDE DEF b
  <2> QED
    BY <1>q, <2>3, <2>5, ExtMild, MildReports
<1>3. CASE BindRefused
  <2>1. CASE ext' = ext
    BY <1>q, <2>1 DEF ReportInv
  <2>2. CASE uiLane.att = cur /\ ext' \in {Rebound(uiLane), Reopen(Rebound(uiLane))}
    <3>1. cur # 0
      BY <1>3 DEF BindRefused, ReadyToBind, IInv, HandlerInv
    <3>2. Rebound(uiLane) \in Engine /\ Reports(Rebound(uiLane), issued, journal.att)
      BY <1>i, <2>2, <3>1, ReboundReports
    <3> QED
      BY <1>q, <2>2, <3>2, ExtMild, MildReports
  <2> QED
    BY <1>3, <2>1, <2>2 DEF BindRefused, ExtQuiet, extVars
<1>4. CASE ExtensionGone
  BY <1>i, <1>4, NothingReported DEF ExtensionGone
<1> QED
  BY <1>1, <1>2, <1>3, <1>4, HandlerMovesExt, RestMovesExt
     DEF ExtensionStep, HandlerStep, ExtensionExits, ExtensionCrashes

LEMMA ExtKeepsReports ==
  ASSUME IInv, IInv', ReportInv, ExtensionStep
  PROVE  ReportInv'
<1>i. UiInv /\ ExtInv /\ issued \in Nat /\ issued' \in Nat
  BY DEF IInv, UiInv
<1>t. /\ ui.att \in Nat /\ uiLane.att \in Nat /\ extLane.att \in Nat /\ late.att \in Nat
  BY <1>i DEF UiInv, ExtInv, Engine, FrameOf
<1>m. JournalMoves /\ LaneMoves
  BY NextMovesJournal, ExtStepMovesLane DEF Next
<1>1. Reports(ext', issued', journal'.att)
  BY ExtEngineReports
<1>2. /\ Reports(ui, issued', journal'.att) /\ Reports(uiLane, issued', journal'.att)
      /\ Reports(extLane, issued', journal'.att) /\ Reports(late, issued', journal'.att)
  BY <1>i, <1>t, <1>m, StillReports DEF ReportInv
<1>3. Reports(extLane', issued', journal'.att)
  BY <1>m, <1>1, <1>2, FrameReports DEF LaneMoves
<1>4. Reports(late', issued', journal'.att)
  <2>1. ASSUME NEW a PROVE Reports(Acknowledgement(a), issued', journal'.att)
    <3>1. \/ Acknowledgement(a) = NoFrame
          \/ Acknowledgement(a) = [uiLane EXCEPT !.attd = FALSE, !.start = FALSE, !.run = FALSE]
      BY DEF Acknowledgement
    <3>2. Reports([uiLane EXCEPT !.attd = FALSE, !.start = FALSE, !.run = FALSE],
                  issued', journal'.att)
      BY <1>i, <1>2 DEF UiInv, FrameOf, Reports
    <3> QED
      BY <1>i, <3>1, <3>2, NothingReported
  <2> QED
    BY <1>i, <1>m, <1>2, <2>1, NothingReported DEF LaneMoves
<1> QED
  BY <1>m, <1>1, <1>2, <1>3, <1>4 DEF LaneMoves, ReportInv

-----------------------------------------------------------------------------
(* The ability                                                             *)

LEMMA CleanupMoves ==
  ASSUME HandlerInv
  PROVE  /\ \A s : [cleanup EXCEPT !.stage = s].stage = s
                   /\ [cleanup EXCEPT !.stage = s].att = cleanup.att
         /\ NoCleanup.stage = "none" /\ NoCleanup.att = 0
         /\ BeginCleanup =>
              /\ act' = 0 /\ cleanup'.stage # "none"
              /\ cleanup.stage = "none" => cleanup'.stage = "stop" /\ cleanup'.att = act
              /\ cleanup.stage # "none" => cleanup' = cleanup
BY DEF HandlerInv, NoCleanup, BeginCleanup

\* The UI process and the plugin: a Want is sent for a new attempt, or withdrawn.
LEMMA UiKeepsAbility ==
  ASSUME IInv, AbilityInv, UiStep \/ PluginStep
  PROVE  AbilityInv'
<1>u. UNCHANGED <<inc, ability, step, cur, req, act, conn, cleanup>>
  BY UiStepKeepsExt
<1>i. /\ issued \in Nat /\ cur \in Nat /\ req \in Nat /\ act \in Nat /\ cleanup.att \in Nat
      /\ wants \subseteq Nat
  BY DEF IInv, UiInv, HandlerInv, Attempts
<1>1. ASSUME wants' \subseteq wants, issued' = issued
      PROVE  AbilityInv'
  BY <1>u, <1>1 DEF AbilityInv, StageInv, ServeInv, IssuedInv, Served
<1>2. CASE StartBegin
  <2>1. issued' = issued + 1 /\ wants' = wants \cup {issued + 1}
    BY <1>2 DEF StartBegin
  <2>2. StageInv'
    BY <1>u DEF AbilityInv, StageInv
  <2>3. ServeInv'
    BY <1>u, <1>i, <2>1 DEF AbilityInv, ServeInv, IssuedInv, Served
  <2>4. IssuedInv'
    BY <1>u, <1>i, <2>1 DEF AbilityInv, IssuedInv
  <2> QED
    BY <2>2, <2>3, <2>4 DEF AbilityInv
<1>3. CASE StartFailed
  BY <1>1, <1>3 DEF StartFailed, sharedVars
<1>4. CASE StopClaimed \/ StopRecover
  BY <1>1, <1>4 DEF StopClaimed, StopRecover, abilityVars, procVars
<1>5. CASE ChainNext \/ StopSuperseded \/ StopRequest \/ StopCooperated \/ StopImpatient
           \/ StopOs \/ StopConfirmed \/ StopRejected \/ StopGivesUp
  BY <1>1, <1>5 DEF ChainNext, StopSuperseded, StopRequest, StopCooperated, StopImpatient,
                    StopOs, StopConfirmed, StopRejected, StopGivesUp, sharedVars, abilityVars,
                    procVars
<1>6. CASE StartRefused \/ StartSent \/ StartSettled \/ StartTimeout
  BY <1>1, <1>6 DEF StartRefused, StartSent, StartSettled, StartTimeout, sharedVars, abilityVars,
                    procVars
<1>7. CASE UiStep
  BY <1>1, <1>7 DEF UiStep, Connect, Authenticated, AuthFailed, Disconnect, DisconnectBegin,
                    DisconnectEnd, UiTick, Watchdog, sharedVars, abilityVars, procVars
<1> QED
  BY <1>2, <1>3, <1>4, <1>5, <1>6, <1>7 DEF PluginStep

LEMMA RequestsKeepAbility ==
  ASSUME IInv, AbilityInv,
         (\E a \in Attempts : WantArrives(a)) \/ HandleNext \/ HandleSuperseded
         \/ HandleStale \/ HandleChecked
  PROVE  AbilityInv'
<1>i. /\ issued \in Nat /\ ability \in {"absent", "up", "destroyed"}
      /\ wants \subseteq Attempts /\ 0 \notin Attempts
  BY DEF IInv, UiInv, HandlerInv, Attempts
<1>1. ASSUME NEW a \in Attempts, WantArrives(a)
      PROVE  AbilityInv'
  <2>1. /\ a \in wants /\ wants' = wants \ {a} /\ issued' = issued
        /\ UNCHANGED <<step, cur, act, conn, cleanup>>
        /\ \/ ability = "up" /\ ability' = "up" /\ step \notin {"bind", "throw"}
           \/ ability = "absent" /\ ability' = "up"
        /\ req' = req \/ (req' = a /\ a # act)
    BY <1>1 DEF WantArrives, AbilityUp, sharedVars, tunnelVars
  <2>2. a # 0 /\ ~Served(a) /\ a <= issued
    BY <1>i, <2>1 DEF AbilityInv, ServeInv, IssuedInv
  <2>3. StageInv'
    BY <2>1 DEF AbilityInv, StageInv, Serving
  <2>4. ServeInv'
    BY <2>1, <2>2 DEF AbilityInv, StageInv, ServeInv, Served
  <2>5. IssuedInv'
    BY <2>1, <2>2 DEF AbilityInv, IssuedInv
  <2> QED
    BY <2>3, <2>4, <2>5 DEF AbilityInv
<1>2. CASE HandleNext
  <2>1. /\ ability = "up" /\ step = "idle" /\ req # 0 /\ step' = "wait" /\ cur' = req
        /\ UNCHANGED <<issued, ability, wants, req, act, conn, cleanup>>
    BY <1>2 DEF HandleNext, AbilityUp, sharedVars, procVars, tunnelVars
  <2>2. StageInv'
    BY <2>1 DEF AbilityInv, StageInv, Serving
  <2>3. ServeInv' /\ IssuedInv'
    BY <2>1 DEF AbilityInv, ServeInv, IssuedInv, Served
  <2> QED
    BY <2>2, <2>3 DEF AbilityInv
<1>3. CASE HandleSuperseded \/ HandleStale
  <2>1. /\ ability = "up" /\ step = "wait" /\ step' = "idle" /\ cur' = 0
        /\ req' = IF req = cur THEN 0 ELSE req
        /\ UNCHANGED <<issued, ability, wants, act, conn, cleanup>>
    BY <1>3 DEF HandleSuperseded, HandleStale, Checkable, AbilityUp, HandlerEnds, Newest,
                sharedVars, procVars, tunnelVars
  <2>2. StageInv'
    BY <2>1 DEF AbilityInv, StageInv, Serving
  <2>3. ServeInv' /\ IssuedInv'
    BY <1>i, <2>1 DEF AbilityInv, ServeInv, IssuedInv, Served
  <2> QED
    BY <2>2, <2>3 DEF AbilityInv
<1>4. CASE HandleChecked
  <2>1. /\ ability = "up" /\ step' = "bind" /\ act = 0 /\ cleanup.stage = "none"
        /\ UNCHANGED <<issued, ability, wants, cur, req, act, conn, cleanup>>
    BY <1>4 DEF HandleChecked, Checkable, AbilityUp, HandlerGoto, sharedVars, procVars, tunnelVars
  <2>2. StageInv'
    BY <2>1 DEF AbilityInv, StageInv, Serving
  <2>3. ServeInv' /\ IssuedInv'
    BY <2>1 DEF AbilityInv, ServeInv, IssuedInv, Served
  <2> QED
    BY <2>2, <2>3 DEF AbilityInv
<1> QED
  BY <1>1, <1>2, <1>3, <1>4

LEMMA BindKeepsAbility ==
  ASSUME IInv, AbilityInv, Bind \/ BindRefused \/ HandlerCatches
  PROVE  AbilityInv'
<1>i. HandlerInv /\ issued \in Nat /\ wants \subseteq Attempts /\ 0 \notin Attempts /\ cur # 0
  BY DEF IInv, UiInv, HandlerInv, Attempts, Bind, BindRefused, HandlerCatches, ReadyToBind
<1>t. ability = "up" /\ UNCHANGED <<issued, ability, wants, conn>>
  BY DEF Bind, BindRefused, HandlerCatches, ReadyToBind, sharedVars, procVars
<1>1. CASE Bind
  <2>1. /\ step = "bind" /\ UNCHANGED <<cur, req>>
        /\ \/ step' = "closing" /\ act' = 0 /\ cleanup' = [stage |-> "stop", att |-> cur]
           \/ step' = "begin" /\ act' = cur /\ cleanup' = cleanup
    BY <1>1 DEF Bind, ReadyToBind, HandlerGoto
  <2>2. StageInv'
    BY <1>t, <2>1 DEF AbilityInv, StageInv, Serving
  <2>3. ServeInv' /\ IssuedInv'
    BY <1>t, <2>1 DEF AbilityInv, StageInv, ServeInv, IssuedInv, Served
  <2> QED
    BY <2>2, <2>3 DEF AbilityInv
<1>2. CASE BindRefused
  <2>1. step = "bind" /\ step' = "throw" /\ UNCHANGED <<cur, req, act, cleanup>>
    BY <1>2 DEF BindRefused, ReadyToBind, HandlerGoto
  <2>2. StageInv'
    BY <1>t, <2>1 DEF AbilityInv, StageInv, Serving
  <2>3. ServeInv' /\ IssuedInv'
    BY <1>t, <2>1 DEF AbilityInv, StageInv, ServeInv, IssuedInv, Served
  <2> QED
    BY <2>2, <2>3 DEF AbilityInv
<1>3. CASE HandlerCatches
  <2>1. /\ step = "throw"
        /\ \/ /\ step' = "idle" /\ cur' = 0 /\ req' = IF req = cur THEN 0 ELSE req
              /\ UNCHANGED <<act, cleanup>> /\ (req # cur \/ act # cur)
           \/ act = cur /\ BeginCleanup /\ step' = "closing" /\ UNCHANGED <<cur, req>>
    BY <1>3 DEF HandlerCatches, HandlerEnds, HandlerGoto, Newest
  <2>2. act \in {0, cur} /\ cleanup.stage = "none"
    BY <2>1 DEF AbilityInv, StageInv
  <2>3. StageInv'
    BY <1>i, <1>t, <2>1, <2>2, CleanupMoves DEF AbilityInv, StageInv, Serving
  <2>4. ServeInv'
    BY <1>i, <1>t, <2>1, <2>2, CleanupMoves DEF AbilityInv, ServeInv, Served
  <2>5. IssuedInv'
    BY <1>i, <1>t, <2>1, <2>2, CleanupMoves DEF AbilityInv, IssuedInv
  <2> QED
    BY <2>3, <2>4, <2>5 DEF AbilityInv
<1> QED
  BY <1>1, <1>2, <1>3

LEMMA ServingKeepsAbility ==
  ASSUME IInv, AbilityInv,
         StartPrepare \/ PrepareDone \/ CreateBegin \/ CreateDone \/ CreateFailed
         \/ OperationTimeout \/ AttachDone \/ AttachCheck \/ HandleClosed
  PROVE  AbilityInv'
<1>i. HandlerInv /\ issued \in Nat /\ wants \subseteq Attempts /\ 0 \notin Attempts /\ cur # 0
  BY DEF IInv, UiInv, HandlerInv, Attempts, StartPrepare, PrepareDone, CreateBegin, CreateDone,
         CreateFailed, OperationTimeout, AttachDone, AttachCheck, HandleClosed
<1>t. ability = "up" /\ UNCHANGED <<issued, ability, wants>>
  BY DEF StartPrepare, PrepareDone, CreateBegin, CreateDone, CreateFailed, OperationTimeout,
         AttachDone, AttachCheck, HandleClosed, AbilityUp, sharedVars, procVars
<1>a. step \in Serving => act = cur /\ cleanup.stage = "none"
  BY <1>i, <1>t DEF AbilityInv, StageInv
<1>1. ASSUME step \in Serving, step' \in Serving \cup {"throw"},
             UNCHANGED <<cur, req, act, cleanup>>
      PROVE  AbilityInv'
  <2>1. StageInv'
    BY <1>i, <1>t, <1>a, <1>1 DEF AbilityInv, StageInv, Serving
  <2>2. ServeInv' /\ IssuedInv'
    BY <1>t, <1>1 DEF AbilityInv, ServeInv, IssuedInv, Served, Serving
  <2> QED
    BY <2>1, <2>2 DEF AbilityInv
<1>2. CASE StartPrepare \/ PrepareDone \/ CreateBegin \/ CreateFailed \/ OperationTimeout
           \/ AttachDone
  BY <1>1, <1>2 DEF StartPrepare, PrepareDone, CreateBegin, CreateFailed, OperationTimeout,
                    AttachDone, HandlerGoto, Serving, tunnelVars
<1>3. CASE CreateDone
  <2>1. /\ step = "create"
        /\ \/ step' = "attach" /\ UNCHANGED <<cur, req, act, cleanup>>
           \/ BeginCleanup /\ step' = "closing" /\ UNCHANGED <<cur, req>>
    BY <1>3 DEF CreateDone, HandlerGoto
  <2>2. CASE BeginCleanup /\ step' = "closing" /\ UNCHANGED <<cur, req>>
    <3>1. act = cur /\ cleanup.stage = "none"
      BY <1>a, <2>1 DEF Serving
    <3>2. act' = 0 /\ cleanup'.stage = "stop" /\ cleanup'.att = cur
      BY <1>i, <2>2, <3>1, CleanupMoves
    <3>3. StageInv'
      BY <1>t, <2>2, <3>2 DEF StageInv, Serving
    <3>4. ServeInv' /\ IssuedInv'
      BY <1>i, <1>t, <2>2, <3>1, <3>2 DEF AbilityInv, ServeInv, IssuedInv, Served
    <3> QED
      BY <3>3, <3>4 DEF AbilityInv
  <2> QED
    BY <1>1, <2>1, <2>2 DEF Serving
<1>4. CASE AttachCheck
  <2>1. /\ step = "check" /\ UNCHANGED <<act, conn, cleanup>>
        /\ \/ step' = "throw" /\ UNCHANGED <<cur, req>>
           \/ step' = "idle" /\ cur' = 0 /\ req' = 0
    BY <1>4 DEF AttachCheck, Handling, HandlerEnds, HandlerGoto, tunnelVars
  <2>2. CASE step' = "idle" /\ cur' = 0 /\ req' = 0
    <3>1. act = cur /\ cleanup.stage = "none"
      BY <1>a, <2>1 DEF Serving
    <3>2. StageInv'
      BY <1>t, <2>1, <2>2, <3>1 DEF AbilityInv, StageInv, Serving
    <3>3. ServeInv' /\ IssuedInv'
      BY <1>i, <1>t, <2>1, <2>2 DEF AbilityInv, ServeInv, IssuedInv, Served
    <3> QED
      BY <3>2, <3>3 DEF AbilityInv
  <2> QED
    BY <1>1, <2>1, <2>2 DEF Serving
<1>5. CASE HandleClosed
  <2>1. /\ step = "closing" /\ step' = "idle" /\ cur' = 0
        /\ req' = IF req = cur THEN 0 ELSE req
        /\ UNCHANGED <<act, conn, cleanup>>
    BY <1>5 DEF HandleClosed, HandlerEnds, Newest, tunnelVars
  <2>2. StageInv'
    BY <1>t, <2>1 DEF AbilityInv, StageInv, Serving
  <2>3. ServeInv' /\ IssuedInv'
    BY <1>i, <1>t, <2>1 DEF AbilityInv, StageInv, ServeInv, IssuedInv, Served
  <2> QED
    BY <2>2, <2>3 DEF AbilityInv
<1> QED
  BY <1>2, <1>3, <1>4, <1>5

LEMMA RestKeepsAbility ==
  ASSUME IInv, AbilityInv,
         LatePublish \/ JobEnds \/ CreateSettles \/ ExtSync \/ Heartbeat \/ SessionEnds
         \/ OnDestroy
  PROVE  AbilityInv'
<1>i. HandlerInv /\ issued \in Nat /\ wants \subseteq Attempts /\ 0 \notin Attempts
  BY DEF IInv, UiInv, HandlerInv, Attempts
<1>1. CASE LatePublish \/ JobEnds \/ ExtSync \/ SessionEnds
  <2>1. UNCHANGED <<issued, ability, wants, step, cur, req, act, conn, cleanup>>
    BY <1>1 DEF LatePublish, JobEnds, ExtSync, SessionEnds, sharedVars, abilityVars, procVars,
                handlerVars, tunnelVars
  <2> QED
    BY <2>1 DEF AbilityInv, StageInv, ServeInv, IssuedInv, Served
<1>2. CASE CreateSettles
  <2>1. /\ conn = "creating" /\ UNCHANGED <<issued, ability, wants, step, cur, req, act, cleanup>>
        /\ ability # "absent"
    BY <1>2 DEF CreateSettles, sharedVars, procVars, handlerVars
  <2> QED
    BY <2>1 DEF AbilityInv, StageInv, ServeInv, IssuedInv, Served
<1>3. CASE Heartbeat \/ OnDestroy
  <2>1. /\ ability = "up" /\ ability' \in {"up", "destroyed"}
        /\ UNCHANGED <<issued, wants, step, cur, conn>>
        /\ \/ ability' = ability /\ UNCHANGED <<req, act, cleanup>>
           \/ ability' = ability /\ step = "idle" /\ req = 0 /\ req' = 0 /\ act # 0 /\ BeginCleanup
           \/ /\ ability' = "destroyed" /\ req' = 0 /\ step \notin {"bind", "throw"}
              /\ \/ act = 0 /\ UNCHANGED <<act, cleanup>>
                 \/ act # 0 /\ BeginCleanup
    BY <1>3 DEF Heartbeat, OnDestroy, AbilityUp, sharedVars, procVars
  <2>2. \/ act' = act /\ cleanup' = cleanup
        \/ /\ act # 0 /\ cleanup.stage = "none" /\ act' = 0
           /\ cleanup'.stage = "stop" /\ cleanup'.att = act
    BY <1>i, <2>1, CleanupMoves DEF AbilityInv, StageInv
  <2>3. StageInv'
    BY <2>1, <2>2 DEF AbilityInv, StageInv, Serving
  <2>4. ServeInv'
    BY <1>i, <2>1, <2>2 DEF AbilityInv, ServeInv, Served
  <2>5. IssuedInv'
    BY <1>i, <2>1, <2>2 DEF AbilityInv, IssuedInv
  <2> QED
    BY <2>3, <2>4, <2>5 DEF AbilityInv
<1> QED
  BY <1>1, <1>2, <1>3

\* The connection is gone before the cleanup is acknowledged.
LEMMA CleanupKeepsAbility ==
  ASSUME IInv, AbilityInv, CleanupStep
  PROVE  AbilityInv'
<1>i. HandlerInv /\ issued \in Nat /\ wants \subseteq Attempts /\ 0 \notin Attempts
  BY DEF IInv, UiInv, HandlerInv, Attempts
<1>1. /\ ability # "absent" /\ UNCHANGED <<issued, ability, wants, step, cur, req, act>>
      /\ cleanup.stage # "none"
  BY DEF CleanupStep, CleanupStop, CleanupJoined, CleanupDestroy, CleanupAck, sharedVars, procVars,
         handlerVars
<1>2. /\ \/ conn' = conn /\ cleanup.stage # "ack" /\ cleanup'.stage \in {"join", "wait"}
         \/ conn' = "none" /\ cleanup'.stage = "ack"
         \/ conn' = conn /\ cleanup'.stage = "failed"
         \/ conn' = conn /\ cleanup.stage = "ack" /\ cleanup'.stage = "none"
      /\ cleanup'.att = cleanup.att \/ (cleanup'.stage = "none" /\ cleanup'.att = 0)
  <2>1. ASSUME NEW s, CleanupGoto(s)
        PROVE  cleanup'.stage = s /\ cleanup'.att = cleanup.att
    BY <1>i, <2>1, CleanupMoves DEF CleanupGoto
  <2>2. CASE CleanupStop \/ CleanupJoined
    <3>1. cleanup.stage # "ack" /\ conn' = conn /\ (CleanupGoto("join") \/ CleanupGoto("wait"))
      BY <2>2 DEF CleanupStop, CleanupJoined
    <3> QED
      BY <2>1, <3>1
  <2>3. CASE CleanupDestroy
    <3>1. \/ conn' = "none" /\ CleanupGoto("ack")
          \/ conn' = conn /\ CleanupGoto("failed")
      BY <2>3 DEF CleanupDestroy
    <3> QED
      BY <2>1, <3>1
  <2>4. CASE CleanupAck
    <3>1. cleanup.stage = "ack" /\ conn' = conn /\ (cleanup' = NoCleanup \/ CleanupGoto("failed"))
      BY <2>4 DEF CleanupAck
    <3> QED
      BY <1>i, <2>1, <3>1, CleanupMoves
  <2> QED
    BY <2>2, <2>3, <2>4 DEF CleanupStep
<1>3. StageInv'
  BY <1>1, <1>2 DEF AbilityInv, StageInv, Serving
<1>4. ServeInv'
  BY <1>1, <1>2 DEF AbilityInv, ServeInv, Served
<1>5. IssuedInv'
  BY <1>i, <1>1, <1>2 DEF AbilityInv, IssuedInv
<1> QED
  BY <1>3, <1>4, <1>5 DEF AbilityInv

\* A Want is delivered again only to another incarnation.
LEMMA EndKeepsAbility ==
  ASSUME IInv, AbilityInv, ExtensionExits \/ ExtensionCrashes
  PROVE  AbilityInv'
<1>i. issued \in Nat /\ wants \subseteq Attempts /\ 0 \notin Attempts /\ act \in Attempts \cup {0}
  BY DEF IInv, UiInv, HandlerInv, Attempts
<1>1. /\ ability' = "absent" /\ step' = "idle" /\ cur' = 0 /\ req' = 0 /\ act' = 0
      /\ conn' = "none" /\ cleanup' = NoCleanup /\ issued' = issued
      /\ wants' = wants \/ (act # 0 /\ wants' = wants \cup {act})
  BY DEF ExtensionExits, ExtensionCrashes, ExtensionGone, sharedVars
<1>2. NoCleanup.stage = "none" /\ NoCleanup.att = 0
  BY DEF NoCleanup
<1>3. StageInv'
  BY <1>1, <1>2 DEF StageInv, Serving
<1>4. ServeInv' /\ IssuedInv'
  BY <1>i, <1>1, <1>2 DEF AbilityInv, ServeInv, IssuedInv, Served
<1> QED
  BY <1>3, <1>4 DEF AbilityInv

LEMMA NextKeepsAbility ==
  ASSUME IInv, AbilityInv, [Next]_vars
  PROVE  AbilityInv'
<1>1. CASE UiStep \/ PluginStep
  BY <1>1, UiKeepsAbility
<1>2. CASE HandlerStep
  BY <1>2, RequestsKeepAbility, BindKeepsAbility, ServingKeepsAbility DEF HandlerStep
<1>3. CASE ExtensionStep
  BY <1>2, <1>3, RequestsKeepAbility, RestKeepsAbility, CleanupKeepsAbility, EndKeepsAbility
     DEF ExtensionStep
<1>4. CASE UNCHANGED vars
  BY <1>4 DEF vars, sharedVars, abilityVars, procVars, handlerVars, tunnelVars, AbilityInv,
              StageInv, ServeInv, IssuedInv, Served
<1> QED
  BY <1>1, <1>3, <1>4 DEF Next

-----------------------------------------------------------------------------
(* The owner                                                               *)

\* An attempt that is no longer served is cleaned up after.
ActMoves ==
  /\ act' \in {act, 0}
  /\ cleanup'.stage # "none" =>
       \/ cleanup.stage # "none" /\ cleanup'.att = cleanup.att
       \/ act # 0 /\ cleanup'.att = act

LEMMA HandlerMovesAct ==
  ASSUME IInv, AbilityInv,
         HandleNext \/ HandleSuperseded \/ HandleStale \/ HandleChecked \/ BindRefused
         \/ HandlerCatches \/ StartPrepare \/ PrepareDone \/ CreateBegin \/ CreateDone
         \/ CreateFailed \/ OperationTimeout \/ AttachDone \/ AttachCheck \/ HandleClosed
  PROVE  ActMoves /\ inc' = inc
<1>i. HandlerInv
  BY DEF IInv
<1>1. CASE HandleNext \/ HandleSuperseded \/ HandleStale \/ HandleChecked \/ BindRefused
           \/ StartPrepare \/ PrepareDone \/ CreateBegin
  BY <1>1 DEF HandleNext, HandleSuperseded, HandleStale, HandleChecked, BindRefused, StartPrepare,
              PrepareDone, CreateBegin, procVars, tunnelVars, ActMoves
<1>2. CASE CreateFailed \/ OperationTimeout \/ AttachDone \/ AttachCheck \/ HandleClosed
  BY <1>2 DEF CreateFailed, OperationTimeout, AttachDone, AttachCheck, HandleClosed, procVars,
              tunnelVars, ActMoves
<1>3. CASE HandlerCatches
  <2>1. /\ inc' = inc /\ step = "throw"
        /\ \/ UNCHANGED <<act, cleanup>>
           \/ act = cur /\ BeginCleanup
    BY <1>3 DEF HandlerCatches, procVars
  <2>2. cur # 0
    BY <1>i, <2>1 DEF HandlerInv
  <2> QED
    BY <1>i, <2>1, <2>2, CleanupMoves DEF ActMoves
<1>4. CASE CreateDone
  <2>1. /\ inc' = inc /\ step = "create" /\ ability = "up"
        /\ \/ UNCHANGED <<act, cleanup>>
           \/ BeginCleanup
    BY <1>4 DEF CreateDone, AbilityUp, procVars
  <2>2. cur # 0 /\ act = cur
    BY <1>i, <2>1 DEF HandlerInv, AbilityInv, StageInv, Serving
  <2> QED
    BY <1>i, <2>1, <2>2, CleanupMoves DEF ActMoves
<1> QED
  BY <1>1, <1>2, <1>3, <1>4

LEMMA RestMovesAct ==
  ASSUME IInv, AbilityInv,
         LatePublish \/ JobEnds \/ CreateSettles \/ ExtSync \/ Heartbeat \/ SessionEnds
         \/ CleanupStep \/ OnDestroy
  PROVE  ActMoves /\ inc' = inc
<1>i. HandlerInv
  BY DEF IInv
<1>1. CASE LatePublish \/ JobEnds \/ CreateSettles \/ ExtSync \/ SessionEnds
  BY <1>1 DEF LatePublish, JobEnds, CreateSettles, ExtSync, SessionEnds, abilityVars, procVars,
              handlerVars, tunnelVars, ActMoves
<1>2. CASE Heartbeat \/ OnDestroy
  <2>1. inc' = inc /\ (UNCHANGED <<act, cleanup>> \/ (act # 0 /\ BeginCleanup))
    BY <1>2 DEF Heartbeat, OnDestroy, procVars
  <2> QED
    BY <1>i, <2>1, CleanupMoves DEF ActMoves
<1>3. CASE CleanupStep
  <2>1. /\ inc' = inc /\ act' = act /\ cleanup.stage # "none"
        /\ \/ cleanup' = NoCleanup
           \/ \E s : cleanup' = [cleanup EXCEPT !.stage = s]
    BY <1>3 DEF CleanupStep, CleanupStop, CleanupJoined, CleanupDestroy, CleanupAck, CleanupGoto,
                procVars, handlerVars
  <2>2. cleanup'.stage = "none" \/ cleanup'.att = cleanup.att
    BY <1>i, <2>1, CleanupMoves
  <2> QED
    BY <2>1, <2>2 DEF ActMoves
<1> QED
  BY <1>1, <1>2, <1>3

\* The binding names the process and takes the lease.
LEMMA BindHolds ==
  ASSUME IInv, Bind
  PROVE  /\ journal' = [phase |-> "Attached", att |-> cur, ext |-> inc] /\ inc' = inc
         /\ ext'.att = cur /\ ext'.lease = cur /\ cur # 0
<1> DEFINE x == Rebound(uiLane)
           r == Reopen(x)
           b == Bound(r, inc)
<1>1. /\ uiLane.att = cur /\ cur # 0 /\ ext' = StopOrphan(b) /\ inc' = inc
      /\ journal' = [phase |-> "Attached", att |-> cur, ext |-> inc]
  BY DEF Bind, CanBind, ReadyToBind, ExtPublish, IInv, HandlerInv, procVars
<1>2. inc \in Nat
  BY SessionBounds DEF IInv, HandlerInv
<1>3. x \in Engine /\ x.att = cur
  BY <1>1, ReboundFollows DEF Bind, ReadyToBind
<1> HIDE DEF x
<1>4. r \in Engine /\ r.att = cur
  BY <1>3, ReopenFollows, ReopenRetains
<1> HIDE DEF r
<1>5. b \in Engine /\ b.att = cur /\ b.lease = cur
  BY <1>2, <1>4, BoundFollows, BoundClean
<1> HIDE DEF b
<1> QED
  BY <1>1, <1>5, ExtMild DEF Mild

LEMMA HeldKept ==
  ASSUME HeldInv, ActMoves, inc' = inc, journal' = journal,
         \A a : HeldBy(a) => ext'.att = ext.att /\ ext'.lease = ext.lease
  PROVE  HeldInv'
BY DEF HeldInv, HeldBy, ActMoves

\* The plugin deletes no journal that is held.
LEMMA UiKeepsHeld ==
  ASSUME IInv, AbilityInv, HeldInv, UiStep \/ PluginStep
  PROVE  HeldInv'
<1>u. UNCHANGED <<ext, inc, ability, act, cleanup>>
  BY UiStepKeepsExt
<1>q. ASSUME journal.phase = "Attached" => journal' = journal PROVE HeldInv'
  BY <1>u, <1>q DEF HeldInv, HeldBy
<1>1. CASE UiStep
  BY <1>1, <1>q DEF UiStep, Connect, Authenticated, AuthFailed, Disconnect, DisconnectBegin,
                    DisconnectEnd, UiTick, Watchdog, sharedVars
<1>2. CASE StopClaimed
  <2>1. journal' = [journal EXCEPT !.phase = IF @ = "Pending" THEN "Stopping" ELSE @]
    BY <1>2 DEF StopClaimed
  <2>2. journal.phase = "Attached" => journal' = journal
    BY <2>1 DEF IInv, JournalInv
  <2> QED
    BY <1>q, <2>2
<1>3. CASE StopRecover
  <2>1. \/ journal' = journal
        \/ journal.phase = "Attached" => ability = "absent" \/ ext.lease = 0
    BY <1>3 DEF StopRecover, OwnerGone, ExtLeaseFree
  <2>2. ability = "absent" => act = 0 /\ cleanup.stage = "none"
    BY DEF AbilityInv, StageInv
  <2> QED
    BY <1>u, <1>q, <2>1, <2>2 DEF HeldInv, HeldBy
<1>4. CASE StartBegin
  BY <1>4, <1>q DEF StartBegin, CanStart, NoJournal
<1>5. CASE ChainNext \/ StopSuperseded \/ StopRequest \/ StopCooperated \/ StopImpatient
           \/ StopOs \/ StopConfirmed \/ StopRejected \/ StopGivesUp
  BY <1>5, <1>q DEF ChainNext, StopSuperseded, StopRequest, StopCooperated, StopImpatient,
                    StopOs, StopConfirmed, StopRejected, StopGivesUp, sharedVars
<1>6. CASE StartRefused \/ StartSent \/ StartFailed \/ StartSettled \/ StartTimeout
  BY <1>6, <1>q DEF StartRefused, StartSent, StartFailed, StartSettled, StartTimeout, sharedVars
<1> QED
  BY <1>1, <1>2, <1>3, <1>4, <1>5, <1>6 DEF PluginStep

LEMMA ExtKeepsHeld ==
  ASSUME IInv, AbilityInv, ReportInv, HeldInv, ExtensionStep
  PROVE  HeldInv'
<1>i. UiInv /\ ExtInv
  BY DEF IInv
<1>s. ASSUME NEW a, HeldBy(a)
      PROVE  Mild(ext, ExtSynced)
  BY <1>i, <1>s, SyncedReports DEF HeldBy
<1>1. ASSUME ExtMoves, ActMoves, inc' = inc
      PROVE  HeldInv'
  <2>1. CASE journal' = journal /\ (Mild(ext, ext') \/ Mild(ExtSynced, ext'))
    <3>1. ASSUME NEW a, HeldBy(a)
          PROVE  ext'.att = ext.att /\ ext'.lease = ext.lease
      BY <1>s, <2>1, <3>1 DEF Mild
    <3> QED
      BY <1>1, <2>1, <3>1, HeldKept
  <2>2. CASE Deletes
    BY <1>1, <2>2 DEF Deletes, HeldInv, HeldBy, AbilityInv, StageInv, ActMoves
  <2> QED
    BY <1>1, <2>1, <2>2 DEF ExtMoves
<1>2. ASSUME NEW a \in Attempts, WantArrives(a)
      PROVE  HeldInv'
  <2>1. UNCHANGED <<ext, journal, act, cleanup>> /\ (inc' = inc \/ ability = "absent")
    BY <1>2 DEF WantArrives, extVars, sharedVars, tunnelVars
  <2> QED
    BY <2>1 DEF HeldInv, HeldBy, AbilityInv, StageInv
<1>3. CASE Bind
  <2>1. \/ act' = 0 /\ cleanup'.att = cur
        \/ act' = cur /\ cleanup'.stage = "none"
    BY <1>3 DEF Bind, ReadyToBind, AbilityInv, StageInv
  <2> QED
    BY <1>3, <2>1, BindHolds DEF HeldInv, HeldBy
<1>4. CASE BindRefused
  <2>1. act' = 0 /\ cleanup'.stage = "none"
    BY <1>4 DEF BindRefused, ReadyToBind, AbilityInv, StageInv
  <2> QED
    BY <2>1 DEF HeldInv
<1>5. CASE ExtensionGone
  BY <1>5 DEF ExtensionGone, HeldInv, NoCleanup
<1>6. CASE HandlerStep
  BY <1>1, <1>3, <1>4, <1>6, HandlerMovesExt, HandlerMovesAct DEF HandlerStep
<1> QED
  BY <1>1, <1>2, <1>5, <1>6, RestMovesExt, RestMovesAct
     DEF ExtensionStep, ExtensionExits, ExtensionCrashes

-----------------------------------------------------------------------------
(* Theorems                                                                *)

ReleaseInv == IInv /\ OwnerInv /\ ReportInv /\ AbilityInv /\ HeldInv

LEMMA InitReleases == ASSUME Init PROVE ReleaseInv
<1>1. IInv
  BY InitEstablishes
<1>2. OwnerInv
  BY DEF Init, OwnerInv, Claims, NewEngine
<1>3. ReportInv
  BY NothingReported DEF Init, ReportInv
<1>4. AbilityInv /\ HeldInv
  BY DEF Init, AbilityInv, StageInv, ServeInv, IssuedInv, Served, Serving, HeldInv, NoCleanup
<1> QED
  BY <1>1, <1>2, <1>3, <1>4 DEF ReleaseInv

LEMMA NextKeepsReleases == ASSUME ReleaseInv, [Next]_vars PROVE ReleaseInv'
<1>1. IInv' /\ OwnerInv'
  BY StepKeeps, NextKeepsOwner DEF ReleaseInv
<1>2. AbilityInv'
  BY NextKeepsAbility DEF ReleaseInv
<1>3. CASE UNCHANGED vars
  BY <1>1, <1>2, <1>3 DEF ReleaseInv, ReportInv, HeldInv, HeldBy, vars, uiVars, extVars,
                          sharedVars, abilityVars, procVars, handlerVars, tunnelVars
<1>4. CASE UiStep \/ PluginStep
  BY <1>1, <1>2, <1>4, UiKeepsReports, UiKeepsHeld DEF ReleaseInv
<1>5. CASE ExtensionStep
  BY <1>1, <1>2, <1>5, ExtKeepsReports, ExtKeepsHeld DEF ReleaseInv
<1> QED
  BY <1>3, <1>4, <1>5 DEF Next

\* A connection of the system belongs to the attempt that holds the journal.
LEMMA ConnectionHeld ==
  ASSUME ReleaseInv, conn # "none"
  PROVE  HeldBy(ext.att)
BY DEF ReleaseInv, AbilityInv, StageInv, HeldInv, HeldBy

LEMMA LiveHeld ==
  ASSUME ReleaseInv, Live(ext)
  PROVE  journal = [phase |-> "Attached", att |-> ext.att, ext |-> inc]
BY DEF ReleaseInv, OwnerInv, Claims, Owned, Live

\* The joint invariant of the release accounts: what the lanes and the engine report
\* of a cleanup, what the connection and the cleanup stages hold of the journal, and
\* which requests the ability still serves.
THEOREM ReleaseHolds == Spec => []ReleaseInv
BY InitReleases, NextKeepsReleases, PTL DEF Spec

\* The UI may start again only when its old tunnel is gone.  A cleanup is first
\* reported together with the deletion of the journal, by the Extension or by a
\* recovery, and nobody reports it before; so while a connection or a live session
\* is left, and with it the journal, the UI has not been told.
THEOREM CleanReleased == Spec => []CleanMeansReleased
<1>1. ReleaseInv => CleanMeansReleased
  <2> SUFFICES ASSUME ReleaseInv, ui.clean, ui.att # 0
               PROVE  /\ journal.att # ui.att
                      /\ ext.att = ui.att => ~Live(ext) /\ conn = "none"
    BY DEF CleanMeansReleased
  <2>1. journal.att # ui.att
    BY DEF ReleaseInv, ReportInv, Reports
  <2> QED
    BY <2>1, ConnectionHeld, LiveHeld DEF HeldBy
<1> QED
  BY <1>1, ReleaseHolds, PTL

\* A start attempt that no Extension adopted yet has the system to itself: the
\* connection of an older attempt and its session are gone before the journal that
\* names it is, and only then is another attempt issued.
THEOREM StartExclusive == Spec => []FreshStartIsExclusive
<1>1. ReleaseInv => FreshStartIsExclusive
  BY ConnectionHeld, LiveHeld DEF FreshStartIsExclusive, HeldBy
<1> QED
  BY <1>1, ReleaseHolds, PTL

\* A valid Want never meets an ability that still holds an older attempt, or whose
\* last cleanup failed: the journal of such an attempt still names it, and so no
\* other Want is valid; its own Want came to this incarnation once.
THEOREM AdoptionClean == Spec => []AdoptionIsClean
<1>1. ReleaseInv => AdoptionIsClean
  <2> SUFFICES ASSUME ReleaseInv, step = "wait", Newest, LatestWant(cur)
               PROVE  act = 0 /\ cleanup.stage # "failed"
    BY DEF AdoptionIsClean
  <2>1. ~Served(cur) /\ journal.att = cur
    BY DEF ReleaseInv, AbilityInv, ServeInv, LatestWant
  <2> QED
    BY <2>1 DEF ReleaseInv, HeldInv, HeldBy, Served
<1> QED
  BY <1>1, ReleaseHolds, PTL

=============================================================================
