------------------------- MODULE PlatformStop_proofs -------------------------
(***************************************************************************)
(* The stop of a connected session is never refused.                       *)
(*                                                                         *)
(* While a stop is asked for, no older stop concerns the attempt: a        *)
(* session can be disconnected only when it is connected, and by then      *)
(* every earlier stop is over or was overtaken (TaskInv).  A fence that an *)
(* overtaken stop left in place belongs to the attempt of the journal,     *)
(* since no start begins behind a fence (RequestInv).  And when the        *)
(* journal is gone, the UI has learned of the cleanup or will do so from   *)
(* the frame it reads next, because the Extension has nothing left that    *)
(* could replace that frame by another one (GoneInv).                      *)
(*                                                                         *)
(* That a connected session was never stopped needs that the UI shows of   *)
(* an attempt what its outcome is (Shown), hence that no frame denies an   *)
(* attempt under way (FrameInv), which in turn needs that the session the  *)
(* Extension runs is of the attempt its frame is about (ForeignInv).       *)
(*                                                                         *)
(* A session that ends without an error, in an engine that took from the   *)
(* older frame of the UI that none runs, is reported as disconnected but   *)
(* not as ended.  The argument is for executions without it (NoQuit).      *)
(***************************************************************************)
EXTENDS PlatformRelease_proofs

-----------------------------------------------------------------------------
(* The invariant                                                           *)

\* A session ends because the user or the system stops it, or with a failure.
NoQuit == "quit" \notin Faults

\* A frame of an attempt that is under way does not deny it.
Sound(x) == x.att # 0 => x.out # "Idle" /\ (x.out = "Connected" => x.life # "Disconnected")

\* What the UI shows of an attempt follows its outcome.
Shown(x) ==
  /\ x.life = "Connected" => x.out = "Connected"
  /\ x.run => x.out = "Connected"
  /\ x.att # 0 => x.out # "Idle" /\ (x.life = "Disconnected" => Ended(x))
  /\ x.native \in {"none", "pending"}

\* The Extension does not call an attempt disconnected while a handler (h) or a
\* session of it goes on.
Vital(x, h) ==
  /\ x.att # 0 => x.out # "Idle"
  /\ h \/ x.native = "running" => Ended(x) \/ x.life # "Disconnected"

\* The UI knows that the attempt of a frame or engine was connected, or may learn
\* it from a frame.
Claimed(x) == x.att # 0 /\ x.out = "Connected"
Heard == \/ extLane.att = issued /\ issued # 0 /\ ~Ended(extLane)
         \/ Claimed(ui) \/ Claimed(uiLane)

FrameInv ==
  /\ Shown(ui) /\ Sound(uiLane) /\ (uiLane.run => uiLane.out = "Connected")
  /\ Vital(ext, act # 0) /\ Sound(extLane)
  /\ late.att # 0 => Ended(late)
  /\ cleanup.stage = "join" => Ended(ext)

\* Once the UI may have heard that its attempt is connected, the Extension has no
\* session of an older one.
ForeignInv ==
  /\ ext.native = "foreign" =>
       ext.att # 0 /\ ext.out # "Connected" /\ act = 0 /\ cleanup.stage = "none"
  /\ Heard => ext.native # "foreign" /\ ext.att \in {0, issued}

\* There is one attempt that anybody still works for.
Current(a) == a = issued /\ issued # 0

IdsInv ==
  /\ ui.att \in {0, issued} /\ uiLane.att = ui.att
  /\ journal.phase # "Missing" => Current(journal.att)
  /\ journal.phase = "Missing" => journal = NoJournal
  /\ op.att <= issued /\ fence.att <= issued
  /\ \A i \in 1 .. Len(chain) : chain[i].att <= issued

\* Requests run in the order in which they were made.
OrderInv ==
  /\ op.epoch <= epoch
  /\ \A i \in 1 .. Len(chain) :
       /\ op.epoch < chain[i].epoch /\ chain[i].epoch <= epoch
       /\ \A j \in 1 .. Len(chain) : i < j => chain[i].epoch < chain[j].epoch

\* The newest stop found a journal, or there still is none.
Unowned(r) ==
  r.kind = "stop" /\ r.att = 0 /\ r.epoch = epoch => journal.phase = "Missing"

FenceInv ==
  /\ fence.epoch # 0 => journal.phase = "Missing" \/ fence.att = journal.att
  /\ fence.busy => op.kind = "stop" /\ op.stage = "confirm"
  /\ Unowned(op) /\ \A i \in 1 .. Len(chain) : Unowned(chain[i])
  /\ op.kind = "start" /\ op.stage # "begin" => op.att # 0

RequestInv == IdsInv /\ OrderInv /\ FenceInv

\* The UI has nothing left to disconnect.
Calm(x) == x.att = 0 \/ Ended(x) \/ x.life = "Failed"

\* A stop request that concerns the attempt at hand.
Stops(r) == r.kind = "stop" /\ (r.epoch = epoch \/ Current(r.att))
Stopping == fence.busy \/ Stops(op) \/ \E i \in 1 .. Len(chain) : Stops(chain[i])

TaskInv ==
  /\ uiTask = "auth" => ui.att = 0
  /\ Waiting => uiTask = "none" /\ ui.att = 0 /\ ui.native = "pending" /\ ~jsStop
  /\ uiTask = "closing" => ui.att # 0 /\ Ended(ui)
  /\ jsStop \/ Stopping => uiTask = "disconnect" \/ Calm(ui)
  /\ ~(jsStop /\ Stopping)

\* An acknowledgement under way is not for an attempt that is served.
LateInv ==
  act # 0 \/ cleanup.stage # "none" \/ step \in {"bind", "throw"} => late = NoFrame

\* The journal of the UI's attempt is deleted, and the UI may still have to learn it.
Undecided == ui.att # 0 /\ journal.phase = "Missing" /\ (jsStop \/ ~Ended(ui))

\* Then it has learned of the cleanup or will do so from the frame it reads next,
\* and nothing is left in the Extension that could tell it otherwise.
Final(x) == x.att = issued => x.clean /\ Ended(x)

GoneInv ==
  Undecided =>
    /\ ui.clean \/ (extFresh /\ extLane.att = issued)
    /\ extFresh => Final(extLane)
    /\ ext.att = 0 \/ (ext.att = issued /\ Final(ext))
    /\ late = NoFrame /\ step \notin {"bind", "throw"}
    /\ issued \notin wants
    /\ req = issued => step \notin {"idle", "wait"} /\ req = cur
    /\ step = "wait" => cur # issued

-----------------------------------------------------------------------------
(* The operations of the engine                                            *)

LEMMA SettleParts ==
  ASSUME NEW x \in Engine, NEW f \in FrameOf
  PROVE  /\ Settle(x, f).att = x.att /\ Settle(x, f).native = x.native
         /\ f.out \in Terminal =>
              /\ Settle(x, f).out = f.out /\ Settle(x, f).clean = f.clean
              /\ ~Settle(x, f).run /\ ~Settle(x, f).start
         /\ f.out \notin Terminal /\ Ended(x) => Settle(x, f) = x
         /\ f.out \notin Terminal /\ ~Ended(x) =>
              /\ Settle(x, f).run = f.run
              /\ Settle(x, f).out = IF f.run /\ x.out = "Pending" THEN "Connected" ELSE x.out
<1>1. CASE f.out \in Terminal
  BY <1>1 DEF Settle, Engine, FrameOf
<1>2. CASE f.out \notin Terminal /\ Ended(x)
  BY <1>2 DEF Settle
<1>3. CASE f.out \notin Terminal /\ ~Ended(x)
  <2> DEFINE o == IF f.run /\ x.out = "Pending" THEN "Connected" ELSE x.out
             s == ~f.run /\ f.start
  <2>1. Settle(x, f) = [x EXCEPT !.run = f.run, !.start = s, !.clean = FALSE, !.out = o]
    BY <1>3 DEF Settle
  <2> HIDE DEF o, s
  <2>2. /\ Settle(x, f).att = x.att /\ Settle(x, f).native = x.native
        /\ Settle(x, f).run = f.run /\ Settle(x, f).out = o
    BY <2>1 DEF Engine
  <2> USE DEF o
  <2> QED
    BY <1>3, <2>2
<1> QED
  BY <1>1, <1>2, <1>3

\* A session runs after the frame was applied.
Goes(x, f, b) ==
  f.out \notin Terminal /\ (Apply(x, f, b).native = "running" \/ Settle(x, f).run)

LEMMA ApplyParts ==
  ASSUME NEW x \in Engine, NEW f \in FrameOf, NEW b \in BOOLEAN
  PROVE  /\ Apply(x, f, b).att = x.att
         /\ Apply(x, f, b).clean = Settle(x, f).clean /\ Apply(x, f, b).run = Settle(x, f).run
         /\ Apply(x, f, b).native \in {x.native, "none"}
         /\ ~b => Apply(x, f, b).native = x.native
         /\ Apply(x, f, b).out =
              IF ~Goes(x, f, b) /\ Settle(x, f).out = "Pending" /\ f.life = "Failed"
              THEN "Failed" ELSE Settle(x, f).out
         /\ Apply(x, f, b).life = LifeAfter(x, f, Goes(x, f, b), Settle(x, f).start)
<1> DEFINE z == Settle(x, f)
           n == IF b /\ (f.attd \/ f.run \/ f.out \in Terminal) THEN "none" ELSE z.native
           w == IF b THEN f.own ELSE z.own
           d == IF f.out \in Terminal THEN f.attd ELSE z.attd \/ f.attd
           y == [z EXCEPT !.native = n, !.stop = z.stop \/ f.stop, !.own = w, !.attd = d]
           r == f.out \notin Terminal /\ (y.native = "running" \/ y.run)
           o == IF ~r /\ y.out = "Pending" /\ f.life = "Failed" THEN "Failed" ELSE y.out
           l == LifeAfter(x, f, r, y.start)
           g == IF y.clean THEN 0 ELSE y.lease
<1>1. z \in Engine
  BY SettleFollows
<1>2. DOMAIN z = {"att", "out", "attd", "stop", "clean", "start", "run", "life", "own",
                  "hand", "lease", "native"}
  <2> HIDE DEF z
  <2> QED
    BY <1>1 DEF Engine
<1>3. /\ y.native = n /\ y.run = z.run /\ y.start = z.start /\ y.clean = z.clean
      /\ y.out = z.out /\ y.att = z.att /\ DOMAIN y = DOMAIN z
  <2> HIDE DEF z, n, w, d
  <2> QED
    BY <1>1, <1>2
<1>4. Apply(x, f, b) = [y EXCEPT !.out = o, !.life = l, !.lease = g]
  BY DEF Apply
<1>5. /\ Apply(x, f, b).att = z.att /\ Apply(x, f, b).clean = z.clean
      /\ Apply(x, f, b).run = z.run /\ Apply(x, f, b).native = n
      /\ Apply(x, f, b).out = o /\ Apply(x, f, b).life = l
  <2> HIDE DEF y, o, l, g, z, n, r
  <2> QED
    BY <1>2, <1>3, <1>4
<1>6. z.att = x.att /\ z.native = x.native
  BY SettleParts
<1>7. n \in {x.native, "none"} /\ (~b => n = x.native)
  BY <1>6
<1>8. r = Goes(x, f, b)
  <2> HIDE DEF n, y
  <2> QED
    BY <1>3, <1>5 DEF Goes
<1>9. /\ o = IF ~Goes(x, f, b) /\ z.out = "Pending" /\ f.life = "Failed"
             THEN "Failed" ELSE z.out
      /\ l = LifeAfter(x, f, Goes(x, f, b), z.start)
  <2> HIDE DEF y, r, z
  <2> QED
    BY <1>3, <1>8
<1> HIDE DEF z, n, w, d, y, r, o, l, g
<1>10. Settle(x, f) = z
  BY DEF z
<1> QED
  BY <1>5, <1>6, <1>7, <1>9, <1>10

LEMMA ShownApply ==
  ASSUME NEW x \in Engine, NEW f \in FrameOf, x.att # 0, f.att # 0, Shown(x), Sound(f)
  PROVE  /\ Shown(Apply(x, f, TRUE))
         /\ Calm(x) => Calm(Apply(x, f, TRUE))
         /\ f.out \in Terminal => Apply(x, f, TRUE).clean = f.clean /\ Ended(Apply(x, f, TRUE))
         /\ Claimed(Apply(x, f, TRUE)) => Claimed(x) \/ ~Ended(f)
<1> DEFINE y == Apply(x, f, TRUE)
           z == Settle(x, f)
           g == Goes(x, f, TRUE)
<1>t. TRUE \in BOOLEAN /\ x.out \in Outcomes /\ f.out \in Outcomes /\ x.run \in BOOLEAN
      /\ f.run \in BOOLEAN
  BY DEF Engine, FrameOf
<1>p. /\ y.att = x.att /\ y.clean = z.clean /\ y.run = z.run
      /\ y.native \in {x.native, "none"}
      /\ y.out = IF ~g /\ z.out = "Pending" /\ f.life = "Failed" THEN "Failed" ELSE z.out
      /\ y.life = LifeAfter(x, f, g, z.start)
  BY <1>t, ApplyParts
<1>g. g = (f.out \notin Terminal /\ z.run)
  BY <1>p DEF Goes, Shown
<1> HIDE DEF y, z, g
<1>s. z = Settle(x, f) /\ y = Apply(x, f, TRUE)
  BY DEF z, y
<1>1. CASE f.out \in Terminal
  <2>1. z.out = f.out /\ z.clean = f.clean /\ ~z.run /\ ~z.start
    BY <1>1, <1>s, SettleParts
  <2>2. y.out = f.out /\ ~g /\ ~y.run
    BY <1>p, <1>1, <1>g, <2>1 DEF Terminal
  <2>3. y.life = IF f.out = "Cancelled"
                 THEN IF x.life = "Failed" THEN x.life ELSE "Disconnected"
                 ELSE IF x.life = "Disconnected" THEN x.life ELSE "Failed"
    BY <1>p, <1>1, <2>1, <2>2 DEF LifeAfter, Terminal
  <2> QED
    BY <1>p, <1>s, <1>1, <2>1, <2>2, <2>3 DEF Shown, Calm, Ended, Terminal, Claimed
<1>2. CASE f.out \notin Terminal /\ Ended(x)
  <2>1. z = x
    BY <1>2, <1>s, SettleParts
  <2>2. ~x.run /\ x.life # "Connected"
    BY <1>2 DEF Shown, Ended, Terminal
  <2>3. ~g /\ y.out = x.out /\ ~y.run
    BY <1>p, <1>g, <1>2, <2>1, <2>2 DEF Ended, Terminal
  <2>4. y.life # "Connected"
    BY <1>p, <2>2, <2>3 DEF LifeAfter
  <2> QED
    BY <1>p, <1>s, <1>2, <2>3, <2>4 DEF Shown, Calm, Ended, Terminal, Claimed
<1>3. CASE f.out \notin Terminal /\ ~Ended(x)
  <2>1. z.run = f.run /\ z.out = IF f.run /\ x.out = "Pending" THEN "Connected" ELSE x.out
    BY <1>3, <1>s, SettleParts
  <2>2. x.out \in {"Pending", "Connected"} /\ x.life # "Disconnected"
    BY <1>t, <1>3 DEF Shown, Ended, Terminal, Outcomes
  <2>3. CASE f.run
    <3>1. g /\ y.out = "Connected"
      BY <1>p, <1>g, <1>3, <2>1, <2>2, <2>3
    <3>2. y.life = IF x.life \in {"Connecting", "Establishing"} THEN "Connected" ELSE x.life
      BY <1>p, <3>1 DEF LifeAfter
    <3> QED
      BY <1>p, <1>s, <1>3, <2>2, <3>1, <3>2 DEF Shown, Calm, Ended, Claimed
  <2>4. CASE ~f.run
    <3>1. ~g /\ ~y.run /\ z.out = x.out
      BY <1>p, <1>g, <2>1, <2>4
    <3>2. ~(f.out # "Pending" /\ f.life = "Disconnected")
      BY <1>t, <1>3 DEF Sound, Terminal, Outcomes
    <3>3. y.life = IF z.start
                   THEN IF x.life \in {"Connected", "Failed"} THEN x.life ELSE "Establishing"
                   ELSE IF f.life = "Failed" THEN "Failed" ELSE x.life
      BY <1>p, <1>3, <2>2, <3>1, <3>2 DEF LifeAfter, Terminal
    <3>4. y.life # "Disconnected" /\ (x.life = "Failed" => y.life = "Failed")
      BY <2>2, <3>3
    <3>5. y.out = IF x.out = "Pending" /\ f.life = "Failed" THEN "Failed" ELSE x.out
      BY <1>p, <3>1
    <3>6. y.life = "Connected" => x.life = "Connected"
      BY <3>3
    <3>7. y.life = "Connected" => y.out = "Connected"
      BY <3>5, <3>6 DEF Shown
    <3> QED
      BY <1>p, <1>s, <1>3, <2>2, <3>1, <3>4, <3>5, <3>7 DEF Shown, Calm, Ended, Terminal, Claimed
  <2> QED
    BY <1>t, <2>3, <2>4
<1> QED
  BY <1>1, <1>2, <1>3

\* The UI's own operations on the attempt it has: they show what its outcome is,
\* connect nothing, forget no cleanup and leave nothing to disconnect where there
\* was nothing.
Honest(x, y) ==
  /\ Shown(y)
  /\ y.att = x.att
  /\ Calm(x) => Calm(y)
  /\ Ended(x) => Ended(y)
  /\ y.native \in {x.native, "none"}
  /\ x.clean => y.clean
  /\ Claimed(y) => Claimed(x)

LEMMA UiHonest ==
  ASSUME NEW x \in Engine, Shown(x)
  PROVE  /\ Honest(x, x)
         /\ Honest(x, ClaimStop(x)) /\ Honest(x, OwnerFailed(x))
         /\ Honest(x, [x EXCEPT !.stop = TRUE]) /\ Honest(x, [x EXCEPT !.hand = FALSE])
         /\ Honest(x, Fail(x)) /\ Honest(x, Disconnecting(x)) /\ Ended(Disconnecting(x))
         /\ Ended(x) => Honest(x, Disconnected(x))
         /\ x.att # 0 => Honest(x, Recovered(x)) /\ Ended(Recovered(x))
<1> USE DEF Honest, Shown, Calm, Ended, Terminal, Claimed
<1>1. Honest(x, x)
  OBVIOUS
<1>2. Honest(x, ClaimStop(x))
  BY DEF ClaimStop, Engine
<1>3. Honest(x, OwnerFailed(x))
  BY DEF OwnerFailed, Engine
<1>4. Honest(x, [x EXCEPT !.stop = TRUE]) /\ Honest(x, [x EXCEPT !.hand = FALSE])
  BY DEF Engine
<1>5. Honest(x, Fail(x))
  <2> DEFINE o == IF x.out = "Pending" THEN "Failed" ELSE x.out
  <2>1. Fail(x) = [x EXCEPT !.start = FALSE, !.run = FALSE, !.hand = FALSE, !.native = "none",
                            !.out = o, !.life = "Failed"]
    BY DEF Fail
  <2> HIDE DEF o
  <2>2. /\ Fail(x).att = x.att /\ Fail(x).out = o /\ Fail(x).life = "Failed"
        /\ Fail(x).run = FALSE /\ Fail(x).native = "none" /\ Fail(x).clean = x.clean
    BY <2>1 DEF Engine
  <2> USE DEF o
  <2> QED
    BY <2>2
<1>6. Honest(x, Disconnecting(x)) /\ Ended(Disconnecting(x))
  <2> DEFINE o == IF x.out = "Failed" THEN x.out ELSE "Cancelled"
  <2>1. Disconnecting(x) = [x EXCEPT !.start = FALSE, !.run = FALSE, !.stop = TRUE,
                                     !.native = "none", !.out = o, !.life = "Disconnecting"]
    BY DEF Disconnecting
  <2> HIDE DEF o
  <2>2. LET y == Disconnecting(x)
        IN /\ y.att = x.att /\ y.out = o /\ y.life = "Disconnecting"
           /\ y.run = FALSE /\ y.native = "none" /\ y.clean = x.clean
    BY <2>1 DEF Engine
  <2> USE DEF o
  <2> QED
    BY <2>2
<1>7. Ended(x) => Honest(x, Disconnected(x))
  BY DEF Disconnected, Engine
<1>8. x.att # 0 => Honest(x, Recovered(x)) /\ Ended(Recovered(x))
  <2> DEFINE o == IF x.out = "Failed" THEN x.out ELSE "Cancelled"
             l == IF x.out = "Failed" THEN x.life ELSE "Disconnected"
  <2>1. Recovered(x) = [x EXCEPT !.start = FALSE, !.run = FALSE, !.clean = TRUE, !.attd = FALSE,
                                 !.stop = TRUE, !.own = 0, !.lease = 0, !.out = o, !.life = l]
    BY DEF Recovered
  <2> HIDE DEF o, l
  <2>2. LET y == Recovered(x)
        IN /\ y.att = x.att /\ y.out = o /\ y.life = l
           /\ y.run = FALSE /\ y.native = x.native /\ y.clean = TRUE
    BY <2>1 DEF Engine
  <2> USE DEF o, l
  <2> QED
    BY <2>2
<1> QED
  BY <1>1, <1>2, <1>3, <1>4, <1>5, <1>6, <1>7, <1>8

-----------------------------------------------------------------------------
(* What a step of the UI or the plugin does to the UI engine               *)

StopInv == NoQuit /\ FrameInv /\ ForeignInv /\ RequestInv /\ TaskInv

\* It updates the engine, synchronised or not, forgets the attempt or begins one.
Begins ==
  /\ issued' = issued + 1 /\ ui'.att = issued' /\ ui'.out = "Pending"
  /\ uiLane' = Frame(ui')
UiGoes ==
  /\ Shown(ui')
  /\ uiLane' = Frame(ui') \/ (uiLane' = uiLane /\ ui'.att = ui.att)
  /\ \/ issued' = issued /\ Honest(ui, ui') /\ extFresh' = extFresh
     \/ issued' = issued /\ Honest(UiSynced, ui') /\ extFresh' = (extFresh /\ ~UiMatch)
     \/ issued' = issued /\ ui'.att = 0
     \/ Begins /\ In("start", "begin") /\ CanStart

LEMMA SyncedShown ==
  ASSUME UiInv, ExtInv, FrameInv
  PROVE  /\ UiSynced \in Engine /\ Shown(UiSynced) /\ UiSynced.att = ui.att
         /\ UiIdle(UiSynced)
         /\ Calm(ui) => Calm(UiSynced)
         /\ Ended(ui) => Ended(UiSynced)
         /\ Claimed(UiSynced) => Claimed(ui) \/ (UiMatch /\ ~Ended(extLane))
         /\ UiMatch /\ Ended(extLane) => UiSynced.clean = extLane.clean /\ Ended(UiSynced)
         /\ ~UiMatch => UiSynced = ui
<1>1. UiSynced \in Engine /\ UiSynced.att = ui.att /\ (Ended(ui) => Ended(UiSynced))
      /\ UiIdle(UiSynced)
  BY UiSyncedFollows DEF Follows
<1>2. CASE UiMatch
  <2>1. UiSynced = Apply(ui, extLane, TRUE) /\ ui.att # 0 /\ extLane.att # 0
    BY <1>2 DEF UiSynced, UiMatch
  <2>2. ui \in Engine /\ extLane \in FrameOf /\ Shown(ui) /\ Sound(extLane)
    BY DEF UiInv, ExtInv, FrameInv
  <2>3. /\ Shown(UiSynced) /\ (Calm(ui) => Calm(UiSynced))
        /\ extLane.out \in Terminal => UiSynced.clean = extLane.clean /\ Ended(UiSynced)
        /\ Claimed(UiSynced) => Claimed(ui) \/ ~Ended(extLane)
    BY <2>1, <2>2, ShownApply
  <2> QED
    BY <1>1, <1>2, <2>3 DEF Ended
<1>3. CASE ~UiMatch
  <2>1. UiSynced = ui
    BY <1>3 DEF UiSynced
  <2> QED
    BY <1>1, <1>3, <2>1 DEF FrameInv
<1> QED
  BY <1>2, <1>3

LEMMA UiStepGoes ==
  ASSUME IInv, StopInv, UiStep
  PROVE  UiGoes
<1>i. /\ ui \in Engine /\ UiInv /\ ExtInv /\ FrameInv /\ Shown(ui)
      /\ uiTask = "auth" => ui.att = 0
      /\ uiTask = "closing" => Ended(ui)
  BY DEF IInv, UiInv, StopInv, FrameInv, TaskInv
<1>u. issued' = issued
  BY DEF UiStep, Connect, Authenticated, AuthFailed, Disconnect, DisconnectBegin, DisconnectEnd,
         UiTick, Watchdog, sharedVars
<1>q. ASSUME ui' \in {ui, Disconnecting(ui), OwnerFailed(ui)}
             \/ (Ended(ui) /\ ui' = Disconnected(ui)),
             uiLane' = Frame(ui') \/ (uiLane' = uiLane /\ ui' = ui),
             extFresh' = extFresh
      PROVE  UiGoes
  <2>1. Honest(ui, ui')
    BY <1>i, <1>q, UiHonest
  <2> QED
    BY <1>q, <1>u, <2>1 DEF UiGoes, Honest
<1>1. CASE Connect
  <2>1. ui' = PrepareConnect(ui) /\ uiLane' = Frame(ui') /\ ui.native = "none"
    BY <1>1 DEF Connect, UiPublish
  <2>2. Shown(ui') /\ ui'.att = 0
    BY <1>i, <2>1 DEF PrepareConnect, Engine, Shown
  <2> QED
    BY <1>u, <2>1, <2>2 DEF UiGoes
<1>2. CASE Authenticated \/ AuthFailed
  <2>1. ui' \in {PrepareReady(ui), PrepareRejected(ui)} /\ uiLane' = Frame(ui') /\ ui.att = 0
    BY <1>i, <1>2 DEF Authenticated, AuthFailed, UiPublish
  <2>2. Shown(ui') /\ ui'.att = 0
    BY <1>i, <2>1 DEF PrepareReady, PrepareRejected, Engine, Shown
  <2> QED
    BY <1>u, <2>1, <2>2 DEF UiGoes
<1>3. CASE Disconnect
  BY <1>3, <1>q DEF Disconnect, uiVars, extVars
<1>4. CASE DisconnectBegin
  BY <1>4, <1>q DEF DisconnectBegin, UiPublish, uiVars, extVars
<1>5. CASE DisconnectEnd
  BY <1>5, <1>q, <1>i DEF DisconnectEnd, UiPublish, uiVars, extVars
<1>6. CASE UiTick
  <2>1. /\ ui' \in {UiSynced, OwnerFailed(UiSynced)}
        /\ uiLane' = Frame(ui') \/ (uiLane' = uiLane /\ ui' = UiSynced)
        /\ extFresh' = (extFresh /\ ~UiMatch)
    BY <1>6 DEF UiTick, UiPublish, UiQuiet, UiRead
  <2>2. UiSynced \in Engine /\ Shown(UiSynced) /\ UiSynced.att = ui.att
    BY <1>i, SyncedShown
  <2>3. Honest(UiSynced, ui')
    BY <2>1, <2>2, UiHonest
  <2> QED
    BY <1>u, <2>1, <2>2, <2>3 DEF UiGoes, Honest
<1>7. CASE Watchdog
  BY <1>7, <1>q DEF Watchdog, UiPublish, extVars
<1> QED
  BY <1>1, <1>2, <1>3, <1>4, <1>5, <1>6, <1>7 DEF UiStep

LEMMA PluginStepGoes ==
  ASSUME IInv, StopInv, PluginStep
  PROVE  UiGoes
<1>i. ui \in Engine /\ UiInv /\ ExtInv /\ FrameInv /\ Shown(ui)
  BY DEF IInv, UiInv, StopInv, FrameInv
<1>s. UiSynced \in Engine /\ Shown(UiSynced) /\ UiSynced.att = ui.att
  BY <1>i, SyncedShown
<1>1. ASSUME UNCHANGED <<uiVars, extVars, issued>> PROVE UiGoes
  <2>1. Honest(ui, ui') /\ UNCHANGED <<ui, uiLane, extFresh, issued>>
    BY <1>i, <1>1, UiHonest DEF uiVars, extVars
  <2> QED
    BY <2>1 DEF UiGoes, Honest
<1>2. ASSUME ui' \in {UiSynced, ClaimStop(UiSynced), [UiSynced EXCEPT !.stop = TRUE],
                      Fail(UiSynced), [UiSynced EXCEPT !.hand = FALSE]}
             \/ (UiSynced.att # 0 /\ ui' = Recovered(UiSynced)),
             uiLane' = Frame(ui') \/ (uiLane' = uiLane /\ ui' = UiSynced),
             UiRead, issued' = issued
      PROVE  UiGoes
  <2>1. Honest(UiSynced, ui')
    BY <1>s, <1>2, UiHonest
  <2>2. extFresh' = (extFresh /\ ~UiMatch)
    BY <1>2 DEF UiRead
  <2> QED
    BY <1>s, <1>2, <2>1, <2>2 DEF UiGoes, Honest
<1>3. CASE ChainNext \/ StopSuperseded \/ StopImpatient \/ StopOs \/ StopConfirmed
           \/ StopRejected \/ StartSent
  BY <1>1, <1>3 DEF ChainNext, StopSuperseded, StopImpatient, StopOs, StopConfirmed,
                    StopRejected, StartSent, sharedVars
<1>4. CASE StopClaimed
  BY <1>2, <1>4 DEF StopClaimed, UiPublish, UiQuiet
<1>5. CASE StopRequest
  <2>1. CASE op.att = 0
    BY <1>1, <1>5, <2>1 DEF StopRequest, sharedVars
  <2>2. CASE op.att # 0
    BY <1>2, <1>5, <2>2 DEF StopRequest, UiPublish, UiQuiet, sharedVars
  <2> QED
    BY <2>1, <2>2
<1>6. CASE StopCooperated \/ StopGivesUp \/ StartSettled
  BY <1>2, <1>6 DEF StopCooperated, StopGivesUp, StartSettled, UiPublish, UiQuiet, sharedVars
<1>7. CASE StartRefused
  <2>1. CASE UNCHANGED <<uiVars, extVars>>
    BY <1>1, <1>7, <2>1 DEF StartRefused, sharedVars
  <2>2. CASE UiQuiet(UiSynced) /\ UiRead
    BY <1>2, <1>7, <2>2 DEF StartRefused, UiQuiet, sharedVars
  <2> QED
    BY <1>7, <2>1, <2>2 DEF StartRefused
<1>8. CASE StartFailed \/ StartTimeout
  BY <1>2, <1>8 DEF StartFailed, StartTimeout, FailStart, UiPublish, UiQuiet, sharedVars
<1>9. CASE StopRecover
  <2>1. op.att # 0
    BY <1>9 DEF StopRecover, In, IInv, PluginInv, PluginTyped, WellFormed
  <2>2. UiRead /\ issued' = issued
    BY <1>9 DEF StopRecover
  <2>3. \/ ui' = UiSynced /\ uiLane' = uiLane
        \/ UiSynced.att = op.att /\ ui' = Recovered(UiSynced) /\ uiLane' = Frame(ui')
    BY <1>9 DEF StopRecover, UiPublish, UiQuiet
  <2> QED
    BY <1>2, <2>1, <2>2, <2>3
<1>10. CASE StartBegin
  <2>1. /\ ui' = BeginStart(UiSynced, issued + 1) /\ issued' = issued + 1
        /\ uiLane' = Frame(ui') /\ In("start", "begin") /\ CanStart
    BY <1>10 DEF StartBegin, UiPublish
  <2>2. ui'.att = issued' /\ ui'.out = "Pending" /\ Shown(ui')
    BY <1>s, <2>1 DEF BeginStart, Engine, Shown
  <2> QED
    BY <2>1, <2>2 DEF UiGoes, Begins
<1> QED
  BY <1>3, <1>4, <1>5, <1>6, <1>7, <1>8, <1>9, <1>10 DEF PluginStep

LEMMA FrameKeeps ==
  ASSUME NEW x
  PROVE  /\ Frame(x).att = x.att /\ Frame(x).out = x.out /\ Frame(x).life = x.life
         /\ Frame(x).clean = x.clean
         /\ Sound(x) => Sound(Frame(x))
         /\ Shown(x) => Sound(Frame(x)) /\ (Frame(x).run => Frame(x).out = "Connected")
BY DEF Frame, Sound, Shown, Ended, Terminal

LEMMA UiKeepsFrames ==
  ASSUME IInv, StopInv, UiGoes, UiStep \/ PluginStep
  PROVE  FrameInv'
<1>1. Shown(ui') /\ Sound(uiLane') /\ (uiLane'.run => uiLane'.out = "Connected")
  BY FrameKeeps DEF UiGoes, StopInv, FrameInv
<1>2. UNCHANGED <<ext, extLane, late, act, cleanup>>
  BY UiStepKeepsExt
<1> QED
  BY <1>1, <1>2 DEF StopInv, FrameInv, Vital, Sound, Ended

LEMMA UiKeepsForeign ==
  ASSUME ReleaseInv, StopInv, UiGoes, UiStep \/ PluginStep
  PROVE  ForeignInv'
<1>e. UNCHANGED <<ext, extLane, act, cleanup>>
  BY UiStepKeepsExt
<1>i. UiInv /\ ExtInv /\ FrameInv /\ ui.att \in {0, issued}
  BY DEF ReleaseInv, IInv, StopInv, RequestInv, IdsInv
<1>f. ForeignInv
  BY DEF StopInv
<1>1. CASE Begins
  <2>1. issued \in Nat /\ extLane.att <= issued /\ extLane.att \in Nat
    BY <1>i DEF ReleaseInv, ReportInv, Reports, UiInv, ExtInv, FrameOf
  <2>2. extLane'.att # issued'
    BY <1>1, <1>e, <2>1 DEF Begins
  <2>3. ~Claimed(ui') /\ ~Claimed(uiLane')
    BY <1>1, FrameKeeps DEF Begins, Claimed
  <2> QED
    BY <1>e, <1>f, <2>2, <2>3 DEF ForeignInv, Heard
<1>2. CASE issued' = issued
  <2>1. Claimed(ui') => Heard
    <3>1. CASE Honest(ui, ui')
      BY <3>1 DEF Honest, Heard
    <3>2. CASE Honest(UiSynced, ui')
      <4>1. Claimed(ui') => Claimed(ui) \/ (UiMatch /\ ~Ended(extLane))
        BY <1>i, <3>2, SyncedShown DEF Honest
      <4> QED
        BY <1>i, <4>1 DEF Heard, UiMatch
    <3>3. CASE ui'.att = 0
      BY <3>3 DEF Claimed
    <3> QED
      BY <1>1, <1>2, <3>1, <3>2, <3>3 DEF UiGoes, Begins, Claimed
  <2>2. Claimed(uiLane') => Heard
    BY <2>1, FrameKeeps DEF UiGoes, Claimed, Heard
  <2>3. Heard' => Heard
    BY <1>2, <1>e, <2>1, <2>2 DEF Heard, Ended
  <2> QED
    BY <1>2, <1>e, <1>f, <2>3 DEF ForeignInv
<1> QED
  BY <1>1, <1>2 DEF UiGoes

-----------------------------------------------------------------------------
(* Requests, the fence and the journal                                     *)

\* The journal goes, or names the attempt it named.
JournalStays ==
  /\ journal'.phase # "Missing" => journal.phase # "Missing" /\ journal'.att = journal.att
  /\ journal'.phase = "Missing" => journal' = NoJournal

UiIds == ui'.att \in {0, issued'} /\ uiLane'.att = ui'.att

LEMMA UiGoesIds ==
  ASSUME IInv, StopInv, UiGoes
  PROVE  UiIds
<1>1. ui.att \in {0, issued} /\ uiLane.att = ui.att /\ UiSynced.att = ui.att
  BY SyncedShown DEF IInv, StopInv, RequestInv, IdsInv
<1> QED
  BY <1>1, FrameKeeps DEF UiGoes, Honest, Begins, UiIds

\* The typing of requests, as it is used here.
LEMMA RequestsTyped ==
  ASSUME PluginInv
  PROVE  /\ epoch \in Nat /\ issued \in Nat /\ op.epoch \in Nat /\ op.att \in Nat
         /\ fence.att \in Nat /\ fence.epoch \in Nat
         /\ chain \in Seq(Request) /\ Len(chain) \in Nat
         /\ \A i \in 1 .. Len(chain) :
              chain[i] \in Request /\ chain[i].epoch \in Nat /\ chain[i].att \in Nat
<1>1. /\ epoch \in Nat /\ issued \in Nat /\ op \in Request /\ chain \in Seq(Request)
      /\ fence.att \in Nat /\ fence.epoch \in Nat
  BY DEF PluginInv, PluginTyped, Attempts
<1>2. \A r \in Request : r.epoch \in Nat /\ r.att \in Nat
  BY DEF Request, Attempts
<1>3. Len(chain) \in Nat /\ \A i \in 1 .. Len(chain) : chain[i] \in Request
  BY <1>1
<1> QED
  BY <1>1, <1>2, <1>3

LEMMA RequestsStay ==
  ASSUME RequestInv, JournalStays, UiIds, UNCHANGED <<issued, epoch, fence, chain, op>>
  PROVE  RequestInv'
<1>1. IdsInv'
  BY DEF RequestInv, IdsInv, JournalStays, UiIds, Current
<1>2. OrderInv'
  BY DEF RequestInv, OrderInv
<1>3. FenceInv'
  BY DEF RequestInv, FenceInv, Unowned, JournalStays
<1> QED
  BY <1>1, <1>2, <1>3 DEF RequestInv

\* The operation goes on or ends.
LEMMA OpStays ==
  ASSUME PluginInv, RequestInv, JournalStays, UiIds, UNCHANGED <<issued, epoch, chain>>,
         \/ op' = NoOp
         \/ op'.kind = op.kind /\ op'.att = op.att /\ op'.epoch = op.epoch
            /\ (op.kind = "start" => op.stage # "begin"),
         fence'.epoch # 0 => journal.phase = "Missing" \/ fence'.att = journal.att,
         fence'.busy => op'.kind = "stop" /\ op'.stage = "confirm",
         fence'.att <= issued
  PROVE  RequestInv'
<1>t. /\ op.epoch \in Nat /\ epoch \in Nat /\ issued \in Nat
      /\ \A i \in 1 .. Len(chain) : chain[i].epoch \in Nat
  BY RequestsTyped
<1>n. NoOp.kind = "none" /\ NoOp.att = 0 /\ NoOp.epoch = 0
  BY DEF NoOp
<1>1. IdsInv'
  BY <1>t, <1>n DEF RequestInv, IdsInv, JournalStays, UiIds, Current
<1>2. OrderInv'
  BY <1>t, <1>n DEF RequestInv, OrderInv
<1>3. FenceInv'
  <2>1. fence'.epoch # 0 => journal'.phase = "Missing" \/ fence'.att = journal'.att
    BY DEF JournalStays
  <2>2. Unowned(op)' /\ \A i \in 1 .. Len(chain) : Unowned(chain[i])'
    BY <1>n DEF RequestInv, FenceInv, Unowned, JournalStays
  <2>3. op'.kind = "start" /\ op'.stage # "begin" => op'.att # 0
    BY <1>n DEF RequestInv, FenceInv
  <2> QED
    BY <2>1, <2>2, <2>3 DEF FenceInv
<1> QED
  BY <1>1, <1>2, <1>3 DEF RequestInv

\* A request is queued, with the next epoch.
LEMMA RequestQueued ==
  ASSUME PluginInv, RequestInv, JournalStays, UiIds, UNCHANGED <<issued, op>>,
         epoch' = epoch + 1, NEW r \in Request, chain' = Append(chain, r),
         r.epoch = epoch + 1, r.att <= issued,
         r.kind = "stop" /\ r.att = 0 => journal'.phase = "Missing",
         fence'.epoch # 0 => journal'.phase = "Missing" \/ fence'.att = journal'.att,
         fence'.busy => fence.busy, fence'.att <= issued
  PROVE  RequestInv'
<1>t. /\ op.epoch \in Nat /\ epoch \in Nat /\ issued \in Nat /\ Len(chain) \in Nat
      /\ chain \in Seq(Request)
      /\ \A i \in 1 .. Len(chain) : chain[i].epoch \in Nat
  BY RequestsTyped
<1>c. /\ Len(chain') = Len(chain) + 1 /\ chain'[Len(chain) + 1] = r
      /\ \A i \in 1 .. Len(chain) : chain'[i] = chain[i]
  BY <1>t
<1>d. \A i \in 1 .. Len(chain') : i \in 1 .. Len(chain) \/ i = Len(chain) + 1
  BY <1>t, <1>c
<1> HIDE DEF Request
<1>1. IdsInv'
  <2>1. \A i \in 1 .. Len(chain') : chain'[i].att <= issued'
    BY <1>c, <1>d DEF RequestInv, IdsInv
  <2> QED
    BY <2>1 DEF RequestInv, IdsInv, JournalStays, UiIds, Current
<1>2. OrderInv'
  <2>1. op.epoch <= epoch + 1
    BY <1>t DEF RequestInv, OrderInv
  <2>2. ASSUME NEW i \in 1 .. Len(chain')
        PROVE  op.epoch < chain'[i].epoch /\ chain'[i].epoch <= epoch + 1
    <3>1. CASE i \in 1 .. Len(chain)
      BY <1>t, <1>c, <3>1 DEF RequestInv, OrderInv
    <3>2. CASE i = Len(chain) + 1
      BY <1>t, <1>c, <3>2 DEF RequestInv, OrderInv
    <3> QED
      BY <1>d, <3>1, <3>2
  <2>3. ASSUME NEW i \in 1 .. Len(chain'), NEW j \in 1 .. Len(chain'), i < j
        PROVE  chain'[i].epoch < chain'[j].epoch
    <3>1. i \in 1 .. Len(chain)
      BY <1>t, <1>c, <2>3
    <3>2. CASE j \in 1 .. Len(chain)
      BY <1>c, <2>3, <3>1, <3>2 DEF RequestInv, OrderInv
    <3>3. CASE j = Len(chain) + 1
      <4>1. chain[i].epoch <= epoch /\ chain[i].epoch \in Nat
        BY <1>t, <3>1 DEF RequestInv, OrderInv
      <4> QED
        BY <1>t, <1>c, <3>1, <3>3, <4>1
    <3> QED
      BY <1>d, <3>2, <3>3
  <2> QED
    BY <2>1, <2>2, <2>3 DEF OrderInv
<1>3. FenceInv'
  <2>1. op.epoch # epoch'
    BY <1>t DEF RequestInv, OrderInv
  <2>2. ASSUME NEW i \in 1 .. Len(chain') PROVE Unowned(chain[i])'
    <3>1. CASE i \in 1 .. Len(chain)
      <4>1. chain'[i].epoch # epoch'
        BY <1>t, <1>c, <3>1 DEF RequestInv, OrderInv
      <4> QED
        BY <4>1 DEF Unowned
    <3>2. CASE i = Len(chain) + 1
      BY <1>c, <3>2 DEF Unowned
    <3> QED
      BY <1>d, <3>1, <3>2
  <2> QED
    BY <2>1, <2>2 DEF RequestInv, FenceInv, Unowned
<1> QED
  BY <1>1, <1>2, <1>3 DEF RequestInv

-----------------------------------------------------------------------------
(* What each step does to the requests                                     *)

LEMMA UiKeepsRequests ==
  ASSUME IInv, StopInv, UiGoes, UiStep
  PROVE  RequestInv'
<1>i. PluginInv /\ RequestInv /\ UiIds
  BY UiGoesIds DEF IInv, StopInv
<1>1. /\ UNCHANGED <<journal, issued, fence, op>>
      /\ \/ UNCHANGED <<epoch, chain>>
         \/ /\ epoch' = epoch + 1
            /\ chain' = Append(chain, [NoOp EXCEPT !.kind = "start", !.epoch = epoch + 1])
  BY DEF UiStep, Connect, Authenticated, AuthFailed, Disconnect, DisconnectBegin, DisconnectEnd,
         UiTick, Watchdog, sharedVars, pluginVars
<1>2. JournalStays
  BY <1>i, <1>1 DEF JournalStays, RequestInv, IdsInv
<1>3. CASE UNCHANGED <<epoch, chain>>
  BY <1>i, <1>1, <1>2, <1>3, RequestsStay
<1>4. CASE /\ epoch' = epoch + 1
           /\ chain' = Append(chain, [NoOp EXCEPT !.kind = "start", !.epoch = epoch + 1])
  <2> DEFINE r == [NoOp EXCEPT !.kind = "start", !.epoch = epoch + 1]
  <2>1. epoch + 1 \in Nat /\ 0 <= issued
    BY <1>i, RequestsTyped
  <2>2. r \in Request /\ r.kind = "start"
    BY <2>1, StartRequestTyped
  <2>3. r.epoch = epoch + 1 /\ r.att = 0
    BY DEF NoOp
  <2> HIDE DEF r
  <2>4. chain' = Append(chain, r)
    BY <1>4 DEF r
  <2> QED
    BY <1>i, <1>1, <1>2, <1>4, <2>1, <2>2, <2>3, <2>4, RequestQueued
       DEF RequestInv, IdsInv, FenceInv
<1> QED
  BY <1>1, <1>3, <1>4

LEMMA ClaimKeepsRequests ==
  ASSUME IInv, StopInv, UiGoes, StopClaimed
  PROVE  RequestInv'
<1> DEFINE a == IF journal.phase # "Missing" THEN journal.att ELSE fence.att
           r == [NoOp EXCEPT !.kind = "stop", !.epoch = epoch + 1, !.att = a, !.done = (a = 0)]
<1>i. PluginInv /\ RequestInv /\ UiIds /\ JournalInv
  BY UiGoesIds DEF IInv, StopInv
<1>1. a \in Attempts \cup {0} /\ epoch + 1 \in Nat
  BY <1>i DEF PluginInv, PluginTyped, JournalInv
<1>2. /\ UNCHANGED <<issued, op>> /\ epoch' = epoch + 1 /\ chain' = Append(chain, r)
      /\ fence' \in {fence, [epoch |-> epoch + 1, att |-> a, busy |-> FALSE]}
      /\ journal.phase # "Missing" => fence'.att = a
      /\ ~fence.busy
      /\ journal' = [journal EXCEPT !.phase = IF @ = "Pending" THEN "Stopping" ELSE @]
  BY DEF StopClaimed
<1>3. journal'.att = journal.att /\ (journal'.phase = "Missing" <=> journal.phase = "Missing")
  BY <1>i, <1>2 DEF JournalInv
<1>4. JournalStays
  <2>1. journal.phase = "Missing" => journal' = NoJournal
    BY <1>i, <1>2 DEF RequestInv, IdsInv, NoJournal
  <2> QED
    BY <1>3, <2>1 DEF JournalStays
<1>5. fence'.att = a \/ fence'.att = fence.att
  BY <1>2
<1>6. a <= issued
  <2>1. CASE journal.phase = "Missing"
    BY <1>i, <2>1 DEF RequestInv, IdsInv
  <2>2. CASE journal.phase # "Missing"
    BY <1>i, <2>2, RequestsTyped DEF RequestInv, IdsInv, Current
  <2> QED
    BY <2>1, <2>2
<1>7. a = 0 => journal.phase = "Missing"
  BY <1>i DEF RequestInv, IdsInv, Current
<1>8. journal.phase # "Missing" => fence'.att = journal.att
  BY <1>2
<1>9. ~fence'.busy
  BY <1>2
<1> HIDE DEF a
<1>10. r \in Request /\ r.kind = "stop"
  BY <1>1, StopRequestTyped
<1>11. r.epoch = epoch + 1 /\ r.att = a
  BY DEF NoOp
<1> HIDE DEF r
<1>12. fence'.att <= issued
  BY <1>i, <1>5, <1>6 DEF RequestInv, IdsInv
<1> QED
  BY <1>i, <1>2, <1>3, <1>4, <1>6, <1>7, <1>8, <1>10, <1>9, <1>11, <1>12, RequestQueued

LEMMA ChainKeepsRequests ==
  ASSUME IInv, StopInv, UiGoes, ChainNext
  PROVE  RequestInv'
<1> DEFINE s == IF Head(chain).kind = "start" THEN "begin" ELSE "request"
<1>i. PluginInv /\ RequestInv /\ UiIds
  BY UiGoesIds DEF IInv, StopInv
<1>1. /\ chain \in Seq(Request) /\ chain # <<>> /\ op = NoOp
      /\ op' = [Head(chain) EXCEPT !.stage = s] /\ chain' = Tail(chain)
      /\ UNCHANGED <<journal, issued, epoch, fence>>
  BY <1>i DEF PluginInv, PluginTyped, ChainNext, sharedVars
<1>2. /\ Len(chain) \in Nat /\ Len(chain) >= 1 /\ 1 \in 1 .. Len(chain)
      /\ Head(chain) = chain[1] /\ chain[1] \in Request
      /\ Len(chain') = Len(chain) - 1
      /\ \A i \in 1 .. Len(chain') : i + 1 \in 1 .. Len(chain) /\ chain'[i] = chain[i + 1]
  <2>1. Len(chain) \in Nat /\ Len(chain) >= 1
    BY <1>1
  <2>2. Head(chain) = chain[1] /\ chain[1] \in Request
    BY <1>1, <2>1
  <2>3. /\ Len(chain') = Len(chain) - 1
        /\ \A i \in 1 .. Len(chain') : i + 1 \in 1 .. Len(chain) /\ chain'[i] = chain[i + 1]
    BY <1>1, <2>1
  <2> QED
    BY <2>1, <2>2, <2>3
<1>3. /\ op'.kind = chain[1].kind /\ op'.att = chain[1].att /\ op'.epoch = chain[1].epoch
      /\ op'.kind = "start" => op'.stage = "begin"
  <2>1. chain[1].kind = "start" => s = "begin"
    BY <1>2
  <2> HIDE DEF s
  <2> QED
    BY <1>1, <1>2, <2>1 DEF Request
<1>4. IdsInv'
  BY <1>i, <1>1, <1>2, <1>3 DEF RequestInv, IdsInv, UiIds, Current
<1>5. OrderInv'
  <2>1. op'.epoch <= epoch'
    BY <1>i, <1>1, <1>2, <1>3 DEF RequestInv, OrderInv
  <2>2. ASSUME NEW i \in 1 .. Len(chain')
        PROVE  op'.epoch < chain'[i].epoch /\ chain'[i].epoch <= epoch'
    <3>1. i + 1 \in 1 .. Len(chain) /\ chain'[i] = chain[i + 1] /\ 1 < i + 1
      BY <1>2
    <3>2. chain[1].epoch < chain[i + 1].epoch /\ chain[i + 1].epoch <= epoch
      BY <1>i, <1>2, <3>1 DEF RequestInv, OrderInv
    <3> QED
      BY <1>1, <1>3, <3>1, <3>2
  <2>3. ASSUME NEW i \in 1 .. Len(chain'), NEW j \in 1 .. Len(chain'), i < j
        PROVE  chain'[i].epoch < chain'[j].epoch
    <3>1. i + 1 < j + 1
      BY <2>3
    <3>2. chain[i + 1].epoch < chain[j + 1].epoch
      BY <1>i, <1>2, <3>1 DEF RequestInv, OrderInv
    <3> QED
      BY <1>2, <3>2
  <2> QED
    BY <2>1, <2>2, <2>3 DEF OrderInv
<1>6. FenceInv'
  <2>1. ~fence.busy
    BY <1>i, <1>1 DEF RequestInv, FenceInv, NoOp
  <2>2. ~fence'.busy
    BY <1>1, <2>1
  <2>3. fence'.epoch # 0 => journal'.phase = "Missing" \/ fence'.att = journal'.att
    BY <1>i, <1>1 DEF RequestInv, FenceInv
  <2>4. Unowned(op)'
    BY <1>i, <1>1, <1>2, <1>3 DEF RequestInv, FenceInv, Unowned
  <2>5. \A i \in 1 .. Len(chain') : Unowned(chain[i])'
    BY <1>i, <1>1, <1>2 DEF RequestInv, FenceInv, Unowned
  <2>6. op'.kind = "start" => op'.stage = "begin"
    BY <1>3
  <2> QED
    BY <2>2, <2>3, <2>4, <2>5, <2>6 DEF FenceInv
<1> QED
  BY <1>4, <1>5, <1>6 DEF RequestInv

LEMMA StopKeepsRequests ==
  ASSUME IInv, StopInv, UiGoes,
         StopSuperseded \/ StopRequest \/ StopCooperated \/ StopImpatient \/ StopOs
         \/ StopConfirmed \/ StopRejected \/ StopRecover \/ StopGivesUp
  PROVE  RequestInv'
<1>i. PluginInv /\ RequestInv /\ UiIds /\ op \in Request
  BY UiGoesIds DEF IInv, StopInv, PluginInv, PluginTyped
<1>s. UNCHANGED <<issued, epoch, chain>> /\ op.kind = "stop"
  BY DEF StopSuperseded, StopRequest, StopCooperated, StopImpatient, StopOs, StopConfirmed,
         StopRejected, StopRecover, StopGivesUp, In, sharedVars
<1>g. \A t : op' = [op EXCEPT !.stage = t] =>
        op'.kind = op.kind /\ op'.att = op.att /\ op'.epoch = op.epoch /\ op'.stage = t
  BY <1>i DEF Request
<1>h. \A t : op' = [op EXCEPT !.stage = t, !.done = TRUE] =>
        op'.kind = op.kind /\ op'.att = op.att /\ op'.epoch = op.epoch /\ op'.stage = t
  BY <1>i DEF Request
<1>f. FenceInv
  BY <1>i DEF RequestInv
<1>j. ASSUME journal' = journal PROVE JournalStays
  BY <1>i, <1>j DEF JournalStays, RequestInv, IdsInv
\* The fence stays.
<1>k. ASSUME UNCHANGED <<journal, fence>>, op.stage # "confirm",
             \/ op' = NoOp
             \/ op'.kind = op.kind /\ op'.att = op.att /\ op'.epoch = op.epoch
      PROVE  RequestInv'
  BY <1>i, <1>f, <1>s, <1>j, <1>k, OpStays DEF FenceInv, RequestInv, IdsInv
<1>1. CASE StopSuperseded \/ StopImpatient \/ StopGivesUp
  BY <1>1, <1>k, <1>g DEF StopSuperseded, StopImpatient, StopGivesUp, In, Goto, OpEnds, sharedVars
<1>2. CASE StopRequest
  BY <1>2, <1>k, <1>g DEF StopRequest, In, Goto, sharedVars
<1>3. CASE StopCooperated
  BY <1>3, <1>k, <1>h DEF StopCooperated, In, OpEnds, sharedVars
<1>4. CASE StopOs
  <2>1. /\ journal' = journal /\ op' = [op EXCEPT !.stage = "confirm"] /\ CanDispatch
        /\ fence' = [epoch |-> op.epoch, att |-> op.att, busy |-> TRUE]
    BY <1>4 DEF StopOs, Goto, sharedVars
  <2>2. /\ op'.kind = "stop" /\ op'.stage = "confirm" /\ op'.att = op.att /\ op'.epoch = op.epoch
    BY <1>g, <1>s, <2>1
  <2>3. fence'.epoch = op.epoch /\ fence'.att = op.att
    BY <2>1
  <2>4. fence'.epoch # 0 => journal.phase = "Missing" \/ fence'.att = journal.att
    BY <1>s, <1>f, <2>1, <2>3 DEF CanDispatch, FenceInv, Unowned
  <2>5. fence'.att <= issued
    BY <1>i, <2>3 DEF RequestInv, IdsInv
  <2> QED
    BY <1>i, <1>s, <1>j, <2>1, <2>2, <2>4, <2>5, OpStays
<1>5. CASE StopConfirmed
  <2>1. journal' = journal /\ fence' = NoFence
        /\ (op' = NoOp \/ op' = [op EXCEPT !.stage = "recover"])
    BY <1>5 DEF StopConfirmed, OpEnds, Goto, sharedVars
  <2>2. fence'.epoch = 0 /\ ~fence'.busy /\ fence'.att = 0 /\ 0 <= issued
    BY <1>i, <2>1, RequestsTyped DEF NoFence
  <2>3. op' = NoOp \/ (op'.kind = op.kind /\ op'.att = op.att /\ op'.epoch = op.epoch)
    BY <1>g, <2>1
  <2> QED
    BY <1>i, <1>s, <1>j, <2>1, <2>2, <2>3, OpStays
<1>6. CASE StopRejected
  <2>1. journal' = journal /\ fence' = [fence EXCEPT !.busy = FALSE] /\ op' = NoOp
    BY <1>6 DEF StopRejected, OpEnds, sharedVars
  <2>2. fence'.epoch = fence.epoch /\ ~fence'.busy /\ fence'.att = fence.att
    BY <1>i, <2>1 DEF PluginInv, PluginTyped
  <2> QED
    BY <1>i, <1>f, <1>s, <1>j, <2>1, <2>2, OpStays DEF FenceInv, RequestInv, IdsInv
<1>7. CASE StopRecover
  <2>1. /\ journal' = journal \/ journal' = NoJournal
        /\ op' = NoOp /\ fence' = fence /\ op.stage # "confirm"
    BY <1>7 DEF StopRecover, OpEnds, In
  <2>2. JournalStays
    BY <1>j, <2>1 DEF JournalStays, NoJournal
  <2> QED
    BY <1>i, <1>f, <1>s, <2>1, <2>2, OpStays DEF FenceInv, RequestInv, IdsInv
<1> QED
  BY <1>1, <1>2, <1>3, <1>4, <1>5, <1>6, <1>7

LEMMA StartKeepsRequests ==
  ASSUME IInv, StopInv, UiGoes,
         StartRefused \/ StartSent \/ StartFailed \/ StartSettled \/ StartTimeout
  PROVE  RequestInv'
<1>i. PluginInv /\ RequestInv /\ UiIds /\ op \in Request
  BY UiGoesIds DEF IInv, StopInv, PluginInv, PluginTyped
<1>s. UNCHANGED <<issued, epoch, chain, journal, fence>> /\ op.kind = "start"
  BY DEF StartRefused, StartSent, StartFailed, StartSettled, StartTimeout, In, sharedVars
<1>o. \/ op' = NoOp
      \/ /\ op'.kind = op.kind /\ op'.att = op.att /\ op'.epoch = op.epoch
         /\ op.stage # "begin"
  <2>1. CASE StartSent
    <3>1. op' = [op EXCEPT !.stage = "await"] /\ op.stage = "sent"
      BY <2>1 DEF StartSent, Goto, In
    <3> QED
      BY <1>i, <3>1 DEF Request
  <2>2. CASE StartRefused \/ StartFailed \/ StartSettled \/ StartTimeout
    BY <2>2 DEF StartRefused, StartFailed, StartSettled, StartTimeout, FailStart, OpEnds
  <2> QED
    BY <2>1, <2>2
<1>1. JournalStays
  BY <1>i, <1>s DEF JournalStays, RequestInv, IdsInv
<1> QED
  BY <1>i, <1>s, <1>o, <1>1, OpStays DEF FenceInv, RequestInv, IdsInv

\* No request is older than a start, and none is younger when it begins.
LEMMA NothingBehindStart ==
  ASSUME PluginInv, RequestInv, In("start", "begin"), CanStart
  PROVE  \A i \in 1 .. Len(chain) : FALSE
<1>1. op.epoch = epoch /\ epoch \in Nat
  BY RequestsTyped DEF CanStart, IntentCurrent
<1> SUFFICES ASSUME NEW i \in 1 .. Len(chain) PROVE FALSE
  OBVIOUS
<1>2. chain[i].epoch \in Nat /\ op.epoch < chain[i].epoch /\ chain[i].epoch <= epoch
  BY RequestsTyped DEF RequestInv, OrderInv
<1> QED
  BY <1>1, <1>2

LEMMA BeginKeepsRequests ==
  ASSUME IInv, StopInv, UiGoes, StartBegin
  PROVE  RequestInv'
<1>i. PluginInv /\ RequestInv /\ UiIds /\ op \in Request /\ FenceInv
  BY UiGoesIds DEF IInv, StopInv, PluginInv, PluginTyped, RequestInv
<1>1. /\ In("start", "begin") /\ CanStart
      /\ issued' = issued + 1
      /\ journal' = [phase |-> "Pending", att |-> issued + 1, ext |-> 0]
      /\ op' = [op EXCEPT !.stage = "sent", !.att = issued + 1]
      /\ UNCHANGED <<epoch, fence, chain>>
  BY DEF StartBegin
<1>2. /\ op'.kind = "start" /\ op'.att = issued + 1 /\ op'.epoch = op.epoch
      /\ op.kind = "start"
  BY <1>i, <1>1 DEF Request, In
<1>3. \A i \in 1 .. Len(chain') : FALSE
  BY <1>i, <1>1, NothingBehindStart
<1>4. issued \in Nat /\ fence.att \in Nat
  BY <1>i, RequestsTyped
<1>5. IdsInv'
  <2>1. journal'.phase = "Pending" /\ journal'.att = issued' /\ issued' # 0
    BY <1>1, <1>4
  <2>2. op'.att <= issued' /\ fence'.att <= issued'
    BY <1>i, <1>1, <1>2, <1>4 DEF RequestInv, IdsInv
  <2> QED
    BY <1>i, <1>3, <2>1, <2>2 DEF IdsInv, UiIds, Current
<1>6. OrderInv'
  BY <1>i, <1>1, <1>2, <1>3 DEF RequestInv, OrderInv
<1>7. FenceInv'
  <2>1. fence'.epoch = 0 /\ ~fence'.busy
    BY <1>i, <1>1, <1>2 DEF CanStart, FenceInv
  <2>2. op'.att # 0
    BY <1>2, <1>4
  <2> QED
    BY <1>2, <1>3, <2>1, <2>2 DEF FenceInv, Unowned
<1> QED
  BY <1>5, <1>6, <1>7 DEF RequestInv

\* The Extension process leaves the UI and the plugin alone; it may attach to the
\* attempt of the journal, or delete the journal.
LEMMA ExtLeavesUi ==
  ASSUME ExtensionStep
  PROVE  UNCHANGED <<ui, uiLane, issued, taps, uiTask, jsStop, epoch, fence, chain, op>>
<1>1. ASSUME NEW a \in Attempts, WantArrives(a)
      PROVE  UNCHANGED <<ui, uiLane, issued, taps, uiTask, jsStop, epoch, fence, chain, op>>
  BY <1>1 DEF WantArrives, uiVars, sharedVars, shellVars, pluginVars
<1>2. CASE LatePublish \/ JobEnds \/ CreateSettles \/ SessionEnds
  BY <1>2 DEF LatePublish, JobEnds, CreateSettles, SessionEnds, uiVars, sharedVars, shellVars,
              pluginVars
<1>3. CASE HandleNext \/ HandleSuperseded \/ HandleStale \/ HandleChecked
  BY <1>3 DEF HandleNext, HandleSuperseded, HandleStale, HandleChecked, uiVars, sharedVars,
              shellVars, pluginVars
<1>4. CASE Bind \/ BindRefused \/ HandlerCatches \/ StartPrepare
  BY <1>4 DEF Bind, BindRefused, HandlerCatches, StartPrepare, ExtRead, uiVars, sharedVars,
              shellVars, pluginVars
<1>5. CASE PrepareDone \/ CreateBegin \/ CreateDone \/ CreateFailed \/ OperationTimeout
           \/ AttachDone \/ HandleClosed
  BY <1>5 DEF PrepareDone, CreateBegin, CreateDone, CreateFailed, OperationTimeout, AttachDone,
              HandleClosed, uiVars, sharedVars, shellVars, pluginVars
<1>6. CASE AttachCheck \/ ExtSync \/ Heartbeat
  BY <1>6 DEF AttachCheck, ExtSync, Heartbeat, ExtTicks, ExtRead, uiVars, sharedVars, shellVars,
              pluginVars
<1>7. CASE CleanupStep
  BY <1>7 DEF CleanupStep, CleanupStop, CleanupJoined, CleanupDestroy, CleanupAck, ExtRead,
              uiVars, sharedVars, shellVars, pluginVars
<1>8. CASE OnDestroy \/ ExtensionExits \/ ExtensionCrashes
  BY <1>8 DEF OnDestroy, ExtensionExits, ExtensionCrashes, ExtensionGone, uiVars, sharedVars,
              shellVars, pluginVars
<1> QED
  BY <1>1, <1>2, <1>3, <1>4, <1>5, <1>6, <1>7, <1>8 DEF ExtensionStep, HandlerStep

LEMMA ExtJournal ==
  ASSUME ExtensionStep
  PROVE  \/ journal' = journal
         \/ Bind /\ journal.att = cur /\ journal' = [phase |-> "Attached", att |-> cur, ext |-> inc]
                 /\ journal.phase \in {"Pending", "Attached"}
         \/ journal' = NoJournal /\ (HandlerCatches \/ CleanupAck)
<1>1. ASSUME NEW a \in Attempts, WantArrives(a) PROVE journal' = journal
  BY <1>1 DEF WantArrives, sharedVars
<1>2. CASE LatePublish \/ JobEnds \/ CreateSettles \/ SessionEnds \/ HandleNext
           \/ HandleSuperseded \/ HandleStale \/ HandleChecked
  BY <1>2 DEF LatePublish, JobEnds, CreateSettles, SessionEnds, HandleNext, HandleSuperseded,
              HandleStale, HandleChecked, sharedVars
<1>3. CASE Bind
  BY <1>3 DEF Bind, CanBind
<1>4. CASE HandlerCatches
  BY <1>4 DEF HandlerCatches, FailUnattached
<1>5. CASE BindRefused \/ StartPrepare \/ PrepareDone \/ CreateBegin \/ CreateDone \/ CreateFailed
           \/ OperationTimeout \/ AttachDone \/ HandleClosed \/ AttachCheck
  BY <1>5 DEF BindRefused, StartPrepare, PrepareDone, CreateBegin, CreateDone, CreateFailed,
              OperationTimeout, AttachDone, HandleClosed, AttachCheck, sharedVars
<1>6. CASE ExtSync \/ Heartbeat \/ CleanupStop \/ CleanupJoined \/ CleanupDestroy
  BY <1>6 DEF ExtSync, Heartbeat, CleanupStop, CleanupJoined, CleanupDestroy, sharedVars
<1>7. CASE CleanupAck
  BY <1>7 DEF CleanupAck
<1>8. CASE OnDestroy \/ ExtensionExits \/ ExtensionCrashes
  BY <1>8 DEF OnDestroy, ExtensionExits, ExtensionCrashes, ExtensionGone, sharedVars
<1> QED
  BY <1>1, <1>2, <1>3, <1>4, <1>5, <1>6, <1>7, <1>8
     DEF ExtensionStep, HandlerStep, CleanupStep

LEMMA ExtKeepsRequests ==
  ASSUME IInv, StopInv, ExtensionStep
  PROVE  JournalStays /\ RequestInv'
<1>1. RequestInv /\ IdsInv
  BY DEF StopInv, RequestInv
<1>2. UNCHANGED <<ui, uiLane, issued, epoch, fence, chain, op>>
  BY ExtLeavesUi
<1>3. UiIds
  BY <1>1, <1>2 DEF UiIds, IdsInv
<1>4. JournalStays
  BY <1>1, ExtJournal DEF JournalStays, IdsInv, NoJournal
<1> QED
  BY <1>1, <1>2, <1>3, <1>4, RequestsStay

LEMMA NextKeepsRequests ==
  ASSUME IInv, StopInv, Next
  PROVE  RequestInv'
<1>1. CASE UiStep
  BY <1>1, UiStepGoes, UiKeepsRequests
<1>2. CASE PluginStep
  BY <1>2, PluginStepGoes, ClaimKeepsRequests, ChainKeepsRequests, StopKeepsRequests,
     StartKeepsRequests, BeginKeepsRequests DEF PluginStep
<1>3. CASE ExtensionStep
  BY <1>3, ExtKeepsRequests
<1> QED
  BY <1>1, <1>2, <1>3 DEF Next

-----------------------------------------------------------------------------
(* What is left to disconnect                                              *)

\* The UI updates the engine of the attempt it has.
LEMMA TaskKept ==
  ASSUME UiInv, ExtInv, FrameInv, TaskInv, UNCHANGED uiTask,
         Honest(ui, ui') \/ Honest(UiSynced, ui'),
         ui.att = 0 => ui'.native = ui.native,
         jsStop' => jsStop, Waiting' => Waiting,
         jsStop' \/ Stopping' => jsStop \/ Stopping, ~(jsStop' /\ Stopping')
  PROVE  TaskInv'
<1>1. /\ UiSynced.att = ui.att /\ (Ended(ui) => Ended(UiSynced))
      /\ Calm(ui) => Calm(UiSynced)
  BY SyncedShown
<1>2. ui'.att = ui.att /\ (Ended(ui) => Ended(ui')) /\ (Calm(ui) => Calm(ui'))
  BY <1>1 DEF Honest
<1> QED
  BY <1>2 DEF TaskInv, Ended, Calm

LEMMA StoppingStays ==
  ASSUME UNCHANGED <<issued, epoch, chain>>,
         \/ op' = NoOp
         \/ op'.kind = op.kind /\ op'.att = op.att /\ op'.epoch = op.epoch,
         fence'.busy => fence.busy \/ Stops(op)
  PROVE  Stopping' => Stopping
<1>1. Stops(op)' => Stops(op)
  BY DEF Stops, Current, NoOp
<1>2. \A i \in 1 .. Len(chain) : Stops(chain[i])' => Stops(chain[i])
  BY DEF Stops, Current
<1> QED
  BY <1>1, <1>2 DEF Stopping

LEMMA WaitingStays ==
  ASSUME UNCHANGED chain, op' = NoOp \/ (op'.kind = op.kind /\ op'.stage # "begin")
  PROVE  Waiting' => Waiting
BY DEF Waiting, NoOp

LEMMA UiKeepsTask ==
  ASSUME IInv, StopInv, UiStep
  PROVE  TaskInv'
<1>i. /\ ui \in Engine /\ UiInv /\ ExtInv /\ FrameInv /\ Shown(ui) /\ TaskInv /\ UiIdle(ui)
      /\ uiTask = "disconnect" => ui.att # 0
  BY DEF IInv, UiInv, StopInv, FrameInv
<1>u. UNCHANGED <<issued, fence, op>>
  BY DEF UiStep, Connect, Authenticated, AuthFailed, Disconnect, DisconnectBegin, DisconnectEnd,
         UiTick, Watchdog, sharedVars, pluginVars
\* Only the end of the authentication asks for anything.
<1>k. ASSUME ~Authenticated
      PROVE  (Stopping' <=> Stopping) /\ (Waiting' <=> Waiting)
  <2>1. UNCHANGED <<epoch, chain>>
    BY <1>k DEF UiStep, Connect, AuthFailed, Disconnect, DisconnectBegin, DisconnectEnd,
                UiTick, Watchdog, pluginVars
  <2> QED
    BY <1>u, <2>1 DEF Stopping, Stops, Current, Waiting
<1>1. CASE Connect
  <2>1. /\ uiTask' = "auth" /\ ui' = PrepareConnect(ui) /\ ui.native = "none" /\ jsStop' = jsStop
    BY <1>1 DEF Connect, UiPublish
  <2>2. ui'.att = 0
    BY <1>i, <2>1, PrepareFollows
  <2>3. ~Waiting
    BY <1>i, <2>1 DEF TaskInv
  <2>4. (Stopping' <=> Stopping) /\ ~Waiting'
    <3>1. UNCHANGED <<epoch, chain>>
      BY <1>1 DEF Connect, pluginVars
    <3> QED
      BY <1>u, <2>3, <3>1 DEF Stopping, Stops, Current, Waiting
  <2> QED
    BY <1>i, <2>1, <2>2, <2>4 DEF TaskInv, Calm
<1>2. CASE Authenticated
  <2>1. /\ uiTask' = "none" /\ ui' = PrepareReady(ui) /\ ~jsStop /\ jsStop' = jsStop /\ ui.att = 0
    BY <1>i, <1>2 DEF Authenticated, UiPublish, TaskInv
  <2>2. ui'.att = 0 /\ ui'.native = "pending"
    BY <1>i, <2>1 DEF PrepareReady, Engine
  <2> QED
    BY <1>i, <2>1, <2>2 DEF TaskInv, Calm
<1>3. CASE AuthFailed
  <2>1. /\ uiTask' = "none" /\ uiTask = "auth" /\ ui' = PrepareRejected(ui) /\ jsStop' = jsStop
        /\ ui.att = 0
    BY <1>i, <1>3 DEF AuthFailed, UiPublish, TaskInv, shellVars
  <2>2. ui'.att = 0
    BY <1>i, <2>1 DEF PrepareRejected, Engine
  <2>3. ~Waiting /\ ~Authenticated
    BY <1>i, <1>3, <2>1 DEF TaskInv, Authenticated, UiPublish, PrepareReady, PrepareRejected, Engine
  <2> QED
    BY <1>i, <1>k, <2>1, <2>2, <2>3 DEF TaskInv, Calm
<1>4. CASE Disconnect
  <2>1. /\ ui.life = "Connected" /\ uiTask = "none" /\ uiTask' = "disconnect" /\ ui' = ui
        /\ ~Authenticated
    BY <1>4 DEF Disconnect, uiVars, Authenticated
  <2>2. ~Calm(ui) /\ ui.att # 0
    BY <1>i, <2>1 DEF Calm, Shown, Ended, Terminal, UiIdle
  <2>3. ~Stopping /\ ~Waiting
    BY <1>i, <2>1, <2>2 DEF TaskInv
  <2>4. ~Stopping' /\ ~Waiting'
    BY <1>k, <2>1, <2>3
  <2> QED
    BY <1>i, <2>1, <2>2, <2>4 DEF TaskInv
<1>5. CASE DisconnectBegin
  <2>1. uiTask = "disconnect" /\ jsStop' = jsStop /\ ~Authenticated
    BY <1>5 DEF DisconnectBegin, Authenticated
  <2>2. ~Waiting'
    BY <1>i, <1>k, <2>1 DEF TaskInv
  <2>3. CASE ui.life = "Disconnected"
    <3>1. uiTask' = "none" /\ ui' = ui
      BY <1>5, <2>3 DEF DisconnectBegin, uiVars
    <3>2. Ended(ui')
      BY <1>i, <2>1, <2>3, <3>1 DEF Shown
    <3> QED
      BY <1>i, <1>k, <2>1, <2>2, <3>1, <3>2 DEF TaskInv, Calm
  <2>4. CASE ui.life # "Disconnected"
    <3>1. uiTask' = "closing" /\ ui' = Disconnecting(ui)
      BY <1>5, <2>4 DEF DisconnectBegin, UiPublish
    <3>2. Ended(ui') /\ ui'.att = ui.att
      BY <1>i, <3>1, UiHonest DEF Honest
    <3> QED
      BY <1>i, <1>k, <2>1, <2>2, <3>1, <3>2 DEF TaskInv, Calm
  <2> QED
    BY <2>3, <2>4
<1>6. CASE DisconnectEnd
  <2>1. /\ uiTask = "closing" /\ uiTask' = "none" /\ jsStop' = jsStop /\ ~Authenticated
        /\ ui' = ui \/ ui' = Disconnected(ui)
    BY <1>6 DEF DisconnectEnd, Authenticated, UiPublish, uiVars
  <2>2. Ended(ui) /\ ~Waiting'
    BY <1>i, <1>k, <2>1 DEF TaskInv
  <2>3. Ended(ui')
    BY <1>i, <2>1, <2>2, UiHonest DEF Honest
  <2> QED
    BY <1>i, <1>k, <2>1, <2>2, <2>3 DEF TaskInv, Calm
<1>7. CASE UiTick \/ Watchdog
  <2>1. UNCHANGED <<uiTask, jsStop, epoch, chain>>
    BY <1>7 DEF UiTick, Watchdog, shellVars, pluginVars
  <2>2. UiSynced \in Engine /\ Shown(UiSynced) /\ (~UiMatch => UiSynced = ui)
    BY <1>i, SyncedShown
  <2>3. Honest(ui, ui') \/ Honest(UiSynced, ui')
    BY <1>i, <1>7, <2>2, UiHonest DEF UiTick, Watchdog, UiPublish, UiQuiet
  <2>4. ui.att # 0
    <3>1. ASSUME ui.att = 0 PROVE ~UiMatch /\ ~OwnerLost(ui)
      BY <1>i, <3>1 DEF UiMatch, OwnerLost, UiIdle
    <3> QED
      BY <1>7, <3>1 DEF UiTick, Watchdog
  <2>5. (Stopping' <=> Stopping) /\ (Waiting' <=> Waiting)
    BY <1>u, <2>1 DEF Stopping, Stops, Current, Waiting
  <2> QED
    BY <1>i, <2>1, <2>3, <2>4, <2>5, TaskKept DEF TaskInv
<1> QED
  BY <1>1, <1>2, <1>3, <1>4, <1>5, <1>6, <1>7 DEF UiStep

\* What the plugin does to the UI engine of an attempt, or without one.
LEMMA PluginIsHonest ==
  ASSUME IInv, StopInv, PluginStep, ~StartBegin
  PROVE  /\ Honest(ui, ui') \/ Honest(UiSynced, ui')
         /\ ui.att = 0 => ui'.native = ui.native
<1>i. ui \in Engine /\ UiInv /\ ExtInv /\ FrameInv /\ Shown(ui) /\ UiIdle(ui) /\ op.att \in Nat
  BY RequestsTyped DEF IInv, UiInv, StopInv, FrameInv
<1>s. UiSynced \in Engine /\ Shown(UiSynced) /\ UiSynced.att = ui.att /\ UiIdle(UiSynced)
      /\ (~UiMatch => UiSynced = ui)
  BY <1>i, SyncedShown
<1>z. ui.att = 0 => UiSynced = ui
  BY <1>s DEF UiMatch
<1>1. ASSUME ui' = ui
      PROVE  /\ Honest(ui, ui') \/ Honest(UiSynced, ui')
             /\ ui.att = 0 => ui'.native = ui.native
  BY <1>i, <1>1, UiHonest
<1>2. ASSUME ui' \in {UiSynced, ClaimStop(UiSynced), [UiSynced EXCEPT !.stop = TRUE],
                      [UiSynced EXCEPT !.hand = FALSE]}
             \/ (UiSynced.att # 0 /\ ui' \in {Fail(UiSynced), Recovered(UiSynced)})
      PROVE  /\ Honest(ui, ui') \/ Honest(UiSynced, ui')
             /\ ui.att = 0 => ui'.native = ui.native
  <2>1. Honest(UiSynced, ui')
    BY <1>s, <1>2, UiHonest
  <2>2. /\ ClaimStop(UiSynced).native = UiSynced.native
        /\ [UiSynced EXCEPT !.stop = TRUE].native = UiSynced.native
        /\ [UiSynced EXCEPT !.hand = FALSE].native = UiSynced.native
    BY <1>s DEF ClaimStop, Engine
  <2> QED
    BY <1>s, <1>z, <1>2, <2>1, <2>2
<1>3. CASE ChainNext \/ StopSuperseded \/ StopImpatient \/ StopOs \/ StopConfirmed
           \/ StopRejected \/ StartSent
  BY <1>1, <1>3 DEF ChainNext, StopSuperseded, StopImpatient, StopOs, StopConfirmed,
                    StopRejected, StartSent, uiVars
<1>4. CASE StopClaimed
  BY <1>2, <1>4 DEF StopClaimed, UiPublish, UiQuiet
<1>5. CASE StopRequest
  <2>1. CASE op.att = 0
    BY <1>1, <1>5, <2>1 DEF StopRequest, uiVars
  <2>2. CASE op.att # 0
    BY <1>2, <1>5, <2>2 DEF StopRequest, UiPublish, UiQuiet
  <2> QED
    BY <2>1, <2>2
<1>6. CASE StopCooperated \/ StopGivesUp \/ StartSettled
  BY <1>2, <1>6 DEF StopCooperated, StopGivesUp, StartSettled, UiPublish, UiQuiet
<1>7. CASE StartRefused
  BY <1>1, <1>2, <1>7 DEF StartRefused, UiQuiet, uiVars
<1>8. CASE StartFailed \/ StartTimeout
  <2>1. UiSynced.out = "Pending" => UiSynced.att # 0
    BY <1>s DEF UiIdle
  <2> QED
    BY <1>2, <1>8, <2>1 DEF StartFailed, StartTimeout, FailStart, UiPublish, UiQuiet
<1>9. CASE StopRecover
  <2>1. op.att # 0
    BY <1>9 DEF StopRecover, In, IInv, PluginInv, PluginTyped, WellFormed
  <2> QED
    BY <1>2, <1>9, <2>1 DEF StopRecover, UiPublish, UiQuiet
<1> QED
  BY <1>3, <1>4, <1>5, <1>6, <1>7, <1>8, <1>9 DEF PluginStep

LEMMA PluginKeepsTask ==
  ASSUME IInv, StopInv, PluginStep
  PROVE  TaskInv'
<1>i. UiInv /\ ExtInv /\ FrameInv /\ TaskInv /\ PluginInv /\ op \in Request /\ FenceInv
  BY DEF IInv, StopInv, PluginInv, PluginTyped, RequestInv
\* Steps that leave the requests alone, or let the operation go on or end.
<1>k. ASSUME ~StartBegin, UNCHANGED <<uiTask, jsStop, issued, epoch, chain>>,
             \/ op' = NoOp
             \/ /\ op'.kind = op.kind /\ op'.att = op.att /\ op'.epoch = op.epoch
                /\ op'.stage # "begin",
             fence'.busy => fence.busy \/ Stops(op)
      PROVE  TaskInv'
  <2>1. (Stopping' => Stopping) /\ (Waiting' => Waiting)
    BY <1>k, StoppingStays, WaitingStays
  <2>2. ~(jsStop' /\ Stopping')
    BY <1>i, <1>k, <2>1 DEF TaskInv
  <2> QED
    BY <1>i, <1>k, <2>1, <2>2, PluginIsHonest, TaskKept
<1>g. \A t : op' = [op EXCEPT !.stage = t] =>
        op'.kind = op.kind /\ op'.att = op.att /\ op'.epoch = op.epoch /\ op'.stage = t
  BY <1>i DEF Request
<1>h. \A t : op' = [op EXCEPT !.stage = t, !.done = TRUE] =>
        op'.kind = op.kind /\ op'.att = op.att /\ op'.epoch = op.epoch /\ op'.stage = t
  BY <1>i DEF Request
<1>1. CASE StopSuperseded \/ StopRequest \/ StopCooperated \/ StopImpatient \/ StopGivesUp
           \/ StopRecover
  <2>1. /\ UNCHANGED <<uiTask, jsStop, issued, epoch, chain, fence>> /\ op.kind # "start"
    BY <1>1 DEF StopSuperseded, StopRequest, StopCooperated, StopImpatient, StopGivesUp,
                StopRecover, sharedVars, shellVars, In
  <2>2. \/ op' = NoOp
        \/ /\ op'.kind = op.kind /\ op'.att = op.att /\ op'.epoch = op.epoch
           /\ op'.stage # "begin"
    <3>1. CASE StopSuperseded \/ StopImpatient \/ StopGivesUp \/ StopRecover
      BY <1>g, <3>1 DEF StopSuperseded, StopImpatient, StopGivesUp, StopRecover, Goto, OpEnds
    <3>2. CASE StopRequest
      BY <1>g, <3>2 DEF StopRequest, Goto
    <3>3. CASE StopCooperated
      BY <1>h, <3>3 DEF StopCooperated, OpEnds
    <3> QED
      BY <1>1, <3>1, <3>2, <3>3
  <2> QED
    BY <1>k, <2>1, <2>2 DEF StartBegin, In
<1>2. CASE StopOs
  <2>1. /\ UNCHANGED <<uiTask, jsStop, issued, epoch, chain>> /\ op.kind = "stop"
        /\ op' = [op EXCEPT !.stage = "confirm"] /\ Stops(op)
    BY <1>2 DEF StopOs, Goto, In, CanDispatch, Stops, sharedVars, shellVars
  <2>2. op'.kind = op.kind /\ op'.att = op.att /\ op'.epoch = op.epoch /\ op'.stage # "begin"
    BY <1>g, <2>1
  <2> QED
    BY <1>k, <2>1, <2>2 DEF StartBegin, In
<1>3. CASE StopConfirmed \/ StopRejected
  <2>1. /\ UNCHANGED <<uiTask, jsStop, issued, epoch, chain>> /\ op.kind = "stop"
        /\ fence' \in {NoFence, [fence EXCEPT !.busy = FALSE]}
        /\ op' = NoOp \/ op' = [op EXCEPT !.stage = "recover"]
    BY <1>3 DEF StopConfirmed, StopRejected, OpEnds, Goto, In, sharedVars, shellVars
  <2>2. \/ op' = NoOp
        \/ /\ op'.kind = op.kind /\ op'.att = op.att /\ op'.epoch = op.epoch
           /\ op'.stage # "begin"
    BY <1>g, <2>1
  <2>3. ~fence'.busy
    BY <1>i, <2>1 DEF NoFence, PluginInv, PluginTyped
  <2> QED
    BY <1>k, <2>1, <2>2, <2>3 DEF StartBegin, In
<1>4. CASE StartRefused \/ StartSent \/ StartFailed \/ StartSettled \/ StartTimeout
  <2>1. /\ UNCHANGED <<uiTask, jsStop, issued, epoch, chain, fence>>
        /\ op' = NoOp \/ op' = [op EXCEPT !.stage = "await"]
    BY <1>4 DEF StartRefused, StartSent, StartFailed, StartSettled, StartTimeout, FailStart,
                OpEnds, Goto, sharedVars, shellVars
  <2>2. \/ op' = NoOp
        \/ /\ op'.kind = op.kind /\ op'.att = op.att /\ op'.epoch = op.epoch
           /\ op'.stage # "begin"
    BY <1>g, <2>1
  <2>3. ~StartBegin
    <3>1. issued' = issued /\ issued \in Nat
      BY <1>i, <2>1, RequestsTyped
    <3> QED
      BY <3>1 DEF StartBegin
  <2> QED
    BY <1>k, <2>1, <2>2, <2>3
<1>5. CASE StopClaimed
  <2> DEFINE a == IF journal.phase # "Missing" THEN journal.att ELSE fence.att
             r == [NoOp EXCEPT !.kind = "stop", !.epoch = epoch + 1, !.att = a, !.done = (a = 0)]
  <2>1. /\ UNCHANGED <<issued, uiTask, op>> /\ jsStop /\ ~jsStop' /\ chain' = Append(chain, r)
    BY <1>5 DEF StopClaimed
  <2>2. a \in Attempts \cup {0} /\ epoch + 1 \in Nat
    BY <1>i DEF PluginInv, PluginTyped, IInv, JournalInv
  <2> HIDE DEF a
  <2>3. r \in Request /\ r.kind = "stop"
    BY <2>2, StopRequestTyped
  <2> HIDE DEF r
  <2>4. \A i \in 1 .. Len(chain') : chain'[i].kind = "start" =>
          i \in 1 .. Len(chain) /\ chain[i].kind = "start"
    BY <2>1, <2>3, RequestsTyped, <1>i
  <2>5. Waiting' => Waiting
    BY <2>1, <2>4 DEF Waiting
  <2>6. ~StartBegin
    <3>1. issued \in Nat
      BY <1>i, RequestsTyped
    <3> QED
      BY <2>1, <3>1 DEF StartBegin
  <2> QED
    BY <1>i, <2>1, <2>5, <2>6, PluginIsHonest, TaskKept
<1>6. CASE ChainNext
  <2> DEFINE s == IF Head(chain).kind = "start" THEN "begin" ELSE "request"
  <2>1. /\ chain \in Seq(Request) /\ chain # <<>> /\ op = NoOp
        /\ op' = [Head(chain) EXCEPT !.stage = s] /\ chain' = Tail(chain)
        /\ UNCHANGED <<uiTask, jsStop, issued, epoch, fence>>
    BY <1>i, <1>6 DEF PluginInv, PluginTyped, ChainNext, sharedVars, shellVars
  <2>2. /\ Len(chain) \in Nat /\ 1 \in 1 .. Len(chain)
        /\ Head(chain) = chain[1] /\ chain[1] \in Request
        /\ \A i \in 1 .. Len(chain') : i + 1 \in 1 .. Len(chain) /\ chain'[i] = chain[i + 1]
    <3>1. Len(chain) \in Nat /\ Len(chain) >= 1
      BY <2>1
    <3> QED
      BY <2>1, <3>1
  <2>3. op'.kind = chain[1].kind /\ op'.att = chain[1].att /\ op'.epoch = chain[1].epoch
    <3> HIDE DEF s
    <3> QED
      BY <2>1, <2>2 DEF Request
  <2>4. Stopping' => Stopping
    <3>1. Stops(op)' => Stops(chain[1])
      BY <2>1, <2>3 DEF Stops, Current
    <3>2. \A i \in 1 .. Len(chain') : Stops(chain[i])' => Stops(chain[i + 1])
      BY <2>1, <2>2 DEF Stops, Current
    <3> QED
      BY <2>1, <2>2, <3>1, <3>2 DEF Stopping
  <2>5. Waiting' => Waiting
    BY <2>2, <2>3 DEF Waiting
  <2>6. ~StartBegin
    BY <2>1 DEF StartBegin, In, NoOp
  <2>7. ~(jsStop' /\ Stopping')
    BY <1>i, <2>1, <2>4 DEF TaskInv
  <2> QED
    BY <1>i, <2>1, <2>4, <2>5, <2>6, <2>7, PluginIsHonest, TaskKept
<1>7. CASE StartBegin
  <2>1. /\ In("start", "begin") /\ CanStart /\ op' = [op EXCEPT !.stage = "sent", !.att = issued + 1]
        /\ UNCHANGED <<uiTask, jsStop, epoch, fence, chain>>
    BY <1>7 DEF StartBegin, shellVars
  <2>2. op'.kind = "start" /\ op'.stage = "sent"
    BY <1>i, <2>1 DEF Request, In
  <2>3. \A i \in 1 .. Len(chain') : FALSE
    BY <1>i, <2>1, NothingBehindStart DEF StopInv
  <2>4. ~fence'.busy
    BY <1>i, <2>1 DEF FenceInv, In
  <2>5. ~Stopping' /\ ~Waiting'
    BY <2>2, <2>3, <2>4 DEF Stopping, Stops, Waiting
  <2>6. Waiting
    BY <2>1 DEF Waiting, In
  <2>7. uiTask' = "none" /\ ~jsStop'
    BY <1>i, <2>1, <2>6 DEF TaskInv
  <2> QED
    BY <2>5, <2>7 DEF TaskInv
<1> QED
  BY <1>1, <1>2, <1>3, <1>4, <1>5, <1>6, <1>7 DEF PluginStep

LEMMA NextKeepsTask ==
  ASSUME IInv, StopInv, Next
  PROVE  TaskInv'
<1>1. CASE ExtensionStep
  <2>1. UNCHANGED <<ui, issued, uiTask, jsStop, epoch, fence, chain, op>>
    BY <1>1, ExtLeavesUi
  <2> QED
    BY <2>1 DEF StopInv, TaskInv, Stopping, Stops, Current, Waiting, Calm, Ended
<1> QED
  BY <1>1, UiKeepsTask, PluginKeepsTask DEF Next

-----------------------------------------------------------------------------
(* The Extension engine                                                    *)

\* It applies a frame of its attempt that does not deny it.
LEMMA VitalApply ==
  ASSUME NEW x \in Engine, NEW f \in FrameOf, NEW h, x.att # 0, f.att # 0, Sound(f), Vital(x, h)
  PROVE  LET y == Apply(x, f, FALSE)
         IN  /\ Vital(y, h) /\ y.att = x.att /\ y.native = x.native
             /\ (f.run => f.out = "Connected") /\ y.out = "Connected" =>
                  x.out = "Connected" \/ f.out = "Connected"
<1> DEFINE y == Apply(x, f, FALSE)
           z == Settle(x, f)
           g == Goes(x, f, FALSE)
<1>t. FALSE \in BOOLEAN /\ x.out \in Outcomes /\ f.out \in Outcomes
  BY DEF Engine, FrameOf
<1>p. /\ y.att = x.att /\ y.native = x.native
      /\ y.out = IF ~g /\ z.out = "Pending" /\ f.life = "Failed" THEN "Failed" ELSE z.out
      /\ y.life = LifeAfter(x, f, g, z.start)
  BY <1>t, ApplyParts
<1>s. z = Settle(x, f)
  OBVIOUS
<1> HIDE DEF z, g
<1> SUFFICES /\ Vital(y, h) /\ y.att = x.att /\ y.native = x.native
             /\ (f.run => f.out = "Connected") /\ y.out = "Connected" =>
                  x.out = "Connected" \/ f.out = "Connected"
  OBVIOUS
<1> HIDE DEF y
<1>1. CASE f.out \in Terminal
  <2>1. z.out = f.out
    BY <1>1, <1>s, SettleParts
  <2>2. y.out = f.out
    BY <1>p, <1>1, <2>1 DEF Terminal
  <2> QED
    BY <1>1, <1>p, <2>2 DEF Vital, Ended, Terminal
<1>2. CASE f.out \notin Terminal /\ Ended(x)
  <2>1. z = x
    BY <1>2, <1>s, SettleParts
  <2>2. y.out = x.out
    BY <1>p, <1>2, <2>1 DEF Ended, Terminal
  <2> QED
    BY <1>2, <1>p, <2>2 DEF Vital, Ended, Terminal
<1>3. CASE f.out \notin Terminal /\ ~Ended(x)
  <2>1. z.out = IF f.run /\ x.out = "Pending" THEN "Connected" ELSE x.out
    BY <1>3, <1>s, SettleParts
  <2>2. ~(f.out # "Pending" /\ f.life = "Disconnected")
    BY <1>t, <1>3 DEF Sound, Terminal, Outcomes
  <2>3. y.life = "Disconnected" => x.life = "Disconnected"
    BY <1>p, <1>3, <2>2 DEF LifeAfter, Terminal
  <2>4. x.out # "Idle"
    BY DEF Vital
  <2> QED
    BY <1>p, <1>3, <2>1, <2>3, <2>4 DEF Vital, Ended, Terminal
<1> QED
  BY <1>1, <1>2, <1>3

LEMMA FailFields ==
  ASSUME NEW x \in Engine
  PROVE  LET y == Fail(x)
         IN  /\ y.att = x.att /\ y.life = "Failed" /\ y.native = "none" /\ y.clean = x.clean
             /\ y.out = IF x.out = "Pending" THEN "Failed" ELSE x.out
<1> DEFINE o == IF x.out = "Pending" THEN "Failed" ELSE x.out
<1>1. Fail(x) = [x EXCEPT !.start = FALSE, !.run = FALSE, !.hand = FALSE, !.native = "none",
                          !.out = o, !.life = "Failed"]
  BY DEF Fail
<1> HIDE DEF o
<1>2. LET y == Fail(x)
      IN  /\ y.att = x.att /\ y.life = "Failed" /\ y.native = "none" /\ y.clean = x.clean
          /\ y.out = o
  BY <1>1 DEF Engine
<1> QED
  BY <1>2 DEF o

LEMMA NativeEndedFields ==
  ASSUME NEW x \in Engine
  PROVE  LET y == NativeEnded(x, TRUE)
             s == x.life \in {"Disconnected", "Disconnecting", "Failed"} \/ Ended(x)
         IN  /\ y.att = x.att /\ y.native = "none" /\ y.clean = x.clean
             /\ y.out = IF s THEN x.out ELSE "Failed"
             /\ y.life = IF s THEN x.life ELSE "Failed"
<1> DEFINE s == x.life \in {"Disconnected", "Disconnecting", "Failed"} \/ Ended(x)
           o == IF s THEN x.out ELSE "Failed"
           l == IF s THEN x.life ELSE "Failed"
<1>1. NativeEnded(x, TRUE) = [x EXCEPT !.native = "none", !.run = FALSE, !.start = FALSE,
                                 !.out = o, !.life = l]
  BY DEF NativeEnded
<1> HIDE DEF o, l
<1>2. LET y == NativeEnded(x, TRUE)
      IN  /\ y.att = x.att /\ y.native = "none" /\ y.clean = x.clean /\ y.out = o /\ y.life = l
  BY <1>1 DEF Engine
<1> QED
  BY <1>2 DEF o, l

\* The Extension's own operations: what each asks for, and that it then publishes
\* a frame that does not deny the attempt.
LEMMA ExtVital ==
  ASSUME NEW x \in Engine, NEW h, Vital(x, h)
  PROVE  /\ Vital(Fail(x), h) /\ Sound(Fail(x)) /\ Fail(x).native = "none"
         /\ LET y == [Fail(x) EXCEPT !.clean = TRUE, !.lease = 0]
            IN  Vital(y, h) /\ Sound(y) /\ y.native = "none" /\ y.att = x.att
         /\ Vital(Starting(x), h) /\ Sound(Starting(x)) /\ Starting(x).native = x.native
         /\ Vital(Prepared(x), h) /\ Sound(Prepared(x)) /\ Prepared(x).native = "pending"
         /\ Vital(Running(x), h) /\ Sound(Running(x)) /\ Running(x).native = "running"
         /\ Vital(StopOrphan(x), h) /\ StopOrphan(x).native # "foreign"
         /\ x.native = "running" => Sound(StopOrphan(x))
         /\ Vital([x EXCEPT !.native = "none"], h) /\ [x EXCEPT !.native = "none"].native = "none"
         /\ [x EXCEPT !.native = "none"].att = x.att
         /\ x.native = "running" => Vital(NativeEnded(x, TRUE), h) /\ Sound(NativeEnded(x, TRUE))
         /\ NativeEnded(x, TRUE).native = "none"
         /\ Vital(Disconnecting(x), h) /\ Sound(Disconnecting(x)) /\ Ended(Disconnecting(x))
         /\ Disconnecting(x).native = "none"
         /\ Ended(x) => Vital(Disconnected(x), h) /\ Sound(Disconnected(x))
         /\ Disconnected(x).native = x.native
         /\ Ended(x) => Vital(CleanedUp(x), h) /\ Sound(CleanedUp(x))
         /\ CleanedUp(x).native = x.native
<1> USE DEF Vital, Sound, Ended, Terminal
<1>1. Vital(Fail(x), h) /\ Sound(Fail(x)) /\ Fail(x).native = "none"
  BY FailFields
<1>2. LET y == [Fail(x) EXCEPT !.clean = TRUE, !.lease = 0]
      IN  Vital(y, h) /\ Sound(y) /\ y.native = "none" /\ y.att = x.att
  <2> DEFINE w == Fail(x)
  <2>1. w \in Engine /\ Vital(w, h) /\ Sound(w) /\ w.native = "none" /\ w.att = x.att
    BY <1>1, FailFollows, FailFields
  <2> HIDE DEF w
  <2>2. LET y == [w EXCEPT !.clean = TRUE, !.lease = 0]
        IN  Vital(y, h) /\ Sound(y) /\ y.native = "none" /\ y.att = w.att
    BY <2>1 DEF Engine
  <2> QED
    BY <2>1, <2>2 DEF w
<1>3. Vital(Starting(x), h) /\ Sound(Starting(x)) /\ Starting(x).native = x.native
  BY DEF Starting, Engine
<1>4. Vital(Prepared(x), h) /\ Sound(Prepared(x)) /\ Prepared(x).native = "pending"
  BY DEF Prepared, Engine
<1>5. Vital(Running(x), h) /\ Sound(Running(x)) /\ Running(x).native = "running"
  <2> DEFINE o == IF x.out = "Pending" THEN "Connected" ELSE x.out
  <2>1. Running(x) = [x EXCEPT !.native = "running", !.run = TRUE, !.start = FALSE,
                               !.life = "Connected", !.out = o]
    BY DEF Running
  <2> HIDE DEF o
  <2>2. LET y == Running(x)
        IN  y.att = x.att /\ y.out = o /\ y.life = "Connected" /\ y.native = "running"
    BY <2>1 DEF Engine
  <2> QED
    BY <2>2 DEF o
<1>6. /\ Vital(StopOrphan(x), h) /\ StopOrphan(x).native # "foreign"
      /\ x.native = "running" => Sound(StopOrphan(x))
  <2>1. CASE Orphaned(x)
    <3>1. StopOrphan(x) = [x EXCEPT !.native = "none", !.run = FALSE, !.start = FALSE]
      BY <2>1 DEF StopOrphan
    <3>2. LET y == StopOrphan(x)
          IN  y.att = x.att /\ y.out = x.out /\ y.life = x.life /\ y.native = "none"
      BY <3>1 DEF Engine
    <3> QED
      BY <3>2
  <2>2. CASE ~Orphaned(x)
    <3>1. StopOrphan(x) = x
      BY <2>2 DEF StopOrphan
    <3> QED
      BY <2>2, <3>1 DEF Orphaned
  <2> QED
    BY <2>1, <2>2
<1>7. /\ Vital([x EXCEPT !.native = "none"], h) /\ [x EXCEPT !.native = "none"].native = "none"
      /\ [x EXCEPT !.native = "none"].att = x.att
  BY DEF Engine
<1>8. /\ x.native = "running" => Vital(NativeEnded(x, TRUE), h) /\ Sound(NativeEnded(x, TRUE))
      /\ NativeEnded(x, TRUE).native = "none"
  BY NativeEndedFields
<1>9. /\ Vital(Disconnecting(x), h) /\ Sound(Disconnecting(x)) /\ Ended(Disconnecting(x))
      /\ Disconnecting(x).native = "none"
  <2> DEFINE o == IF x.out = "Failed" THEN x.out ELSE "Cancelled"
  <2>1. Disconnecting(x) = [x EXCEPT !.start = FALSE, !.run = FALSE, !.stop = TRUE,
                                     !.native = "none", !.out = o, !.life = "Disconnecting"]
    BY DEF Disconnecting
  <2> HIDE DEF o
  <2>2. LET y == Disconnecting(x)
        IN  y.att = x.att /\ y.out = o /\ y.life = "Disconnecting" /\ y.native = "none"
    BY <2>1 DEF Engine
  <2> QED
    BY <2>2 DEF o
<1>10. /\ Ended(x) => Vital(Disconnected(x), h) /\ Sound(Disconnected(x))
       /\ Disconnected(x).native = x.native
  BY DEF Disconnected, Engine
<1>11. /\ Ended(x) => Vital(CleanedUp(x), h) /\ Sound(CleanedUp(x))
       /\ CleanedUp(x).native = x.native
  BY DEF CleanedUp, Engine
<1> QED
  BY <1>1, <1>2, <1>3, <1>4, <1>5, <1>6, <1>7, <1>8, <1>9, <1>10, <1>11

-----------------------------------------------------------------------------
(* What a step of the Extension does to its engine                         *)

Publishes == extLane' = Frame(ext') /\ Sound(ext') /\ ext'.native # "foreign"

\* It stays with its attempt, adopts the UI's, or is a new process's engine.
Continues ==
  /\ ext'.att = ext.att
  /\ ext'.native = "foreign" => ext.native = "foreign" /\ ext'.out # "Connected" /\ ActMoves
Adopts ==
  /\ ext'.att = cur /\ uiLane.att = cur /\ cur # 0
  /\ ext'.native = "foreign" =>
       /\ ext'.out # "Connected" /\ act' = 0 /\ cleanup'.stage = "none"
       /\ ext.native = "foreign" \/ (ext.native = "running" /\ ext.att # cur)
ExtGoes ==
  /\ Vital(ext', act' # 0)
  /\ extLane' \in {extLane, late} \/ Publishes
  /\ Continues \/ Adopts \/ ext' = NewEngine

LEMMA ExtSyncedVital ==
  ASSUME IInv, StopInv, NEW h, Vital(ext, h)
  PROVE  /\ ExtSynced \in Engine /\ Vital(ExtSynced, h) /\ ExtSynced.att = ext.att
         /\ ExtSynced.native = ext.native /\ (Ended(ext) => Ended(ExtSynced))
         /\ ExtSynced.native = "foreign" => ExtSynced.out # "Connected"
<1>i. /\ ext \in Engine /\ uiLane \in FrameOf /\ UiInv /\ ExtInv /\ Sound(uiLane)
      /\ uiLane.run => uiLane.out = "Connected"
      /\ ForeignInv
  BY DEF IInv, UiInv, ExtInv, StopInv, FrameInv
<1>1. ExtSynced \in Engine /\ (Ended(ext) => Ended(ExtSynced))
  BY <1>i, ExtSyncedFollows DEF Follows
<1>2. CASE ExtMatch
  <2>1. ExtSynced = Apply(ext, uiLane, FALSE) /\ ext.att # 0 /\ uiLane.att # 0
    BY <1>2 DEF ExtSynced, ExtMatch
  <2>2. /\ Vital(ExtSynced, h) /\ ExtSynced.att = ext.att /\ ExtSynced.native = ext.native
        /\ ExtSynced.out = "Connected" => ext.out = "Connected" \/ uiLane.out = "Connected"
    BY <1>i, <2>1, VitalApply
  <2>3. ext.native = "foreign" => ext.out # "Connected" /\ uiLane.out # "Connected"
    BY <1>i, <2>1 DEF ForeignInv, Heard, Claimed
  <2> QED
    BY <1>1, <2>2, <2>3
<1>3. CASE ~ExtMatch
  BY <1>i, <1>1, <1>3 DEF ExtSynced, ForeignInv
<1> QED
  BY <1>2, <1>3

LEMMA ExtOperates ==
  ASSUME IInv, StopInv, ActMoves,
         \/ extLane' \in {extLane, late} /\ ext' \in {ext, ExtSynced, [ext EXCEPT !.native = "none"]}
         \/ extLane' = Frame(ext') /\
              \/ ext' \in {Fail(ExtSynced), [Fail(ExtSynced) EXCEPT !.clean = TRUE, !.lease = 0],
                           Prepared(ext), Running(ext), Disconnecting(ext)}
              \/ ext.native # "foreign" /\ ext' = Starting(ExtSynced)
              \/ ext.native = "running" /\ ext' \in {StopOrphan(ExtSynced), NativeEnded(ext, TRUE)}
              \/ ext.native # "foreign" /\ Ended(ext) /\ ext' = Disconnected(ext)
              \/ ext.native # "foreign" /\ Ended(ExtSynced) /\ ext' = CleanedUp(ExtSynced)
  PROVE  ExtGoes
<1> DEFINE h == act' # 0
<1>h. h => act # 0
  BY DEF ActMoves
<1>i. ext \in Engine /\ Vital(ext, h) /\ (ext.native = "foreign" => ext.out # "Connected")
  BY <1>h DEF IInv, ExtInv, StopInv, FrameInv, ForeignInv, Vital
<1>s. /\ ExtSynced \in Engine /\ Vital(ExtSynced, h) /\ ExtSynced.att = ext.att
      /\ ExtSynced.native = ext.native
      /\ ExtSynced.native = "foreign" => ExtSynced.out # "Connected"
  BY <1>i, ExtSyncedVital
<1> SUFFICES /\ Vital(ext', h)
             /\ extLane' \in {extLane, late} \/ Publishes
             /\ ext'.att = ext.att
             /\ ext'.native = "foreign" => ext.native = "foreign" /\ ext'.out # "Connected"
  BY DEF ExtGoes, Continues
<1> HIDE DEF h
<1>v. /\ Vital([ext EXCEPT !.native = "none"], h)
      /\ [ext EXCEPT !.native = "none"].native = "none" /\ [ext EXCEPT !.native = "none"].att = ext.att
      /\ Vital(Prepared(ext), h) /\ Sound(Prepared(ext)) /\ Prepared(ext).native = "pending"
      /\ Vital(Running(ext), h) /\ Sound(Running(ext)) /\ Running(ext).native = "running"
      /\ Vital(Disconnecting(ext), h) /\ Sound(Disconnecting(ext))
      /\ Disconnecting(ext).native = "none"
      /\ ext.native = "running" => Vital(NativeEnded(ext, TRUE), h) /\ Sound(NativeEnded(ext, TRUE))
      /\ NativeEnded(ext, TRUE).native = "none"
  BY <1>i, ExtVital
<1> DEFINE y == [Fail(ExtSynced) EXCEPT !.clean = TRUE, !.lease = 0]
<1>w. /\ Vital(Fail(ExtSynced), h) /\ Sound(Fail(ExtSynced)) /\ Fail(ExtSynced).native = "none"
      /\ Vital(y, h) /\ Sound(y) /\ y.native = "none" /\ y.att = ExtSynced.att
      /\ Vital(StopOrphan(ExtSynced), h) /\ StopOrphan(ExtSynced).native # "foreign"
      /\ ExtSynced.native = "running" => Sound(StopOrphan(ExtSynced))
  BY <1>s, ExtVital
<1> HIDE DEF y
<1>1. CASE extLane' \in {extLane, late} /\ ext' \in {ext, ExtSynced, [ext EXCEPT !.native = "none"]}
  BY <1>i, <1>s, <1>v, <1>1
<1>2. CASE /\ extLane' = Frame(ext')
           /\ ext' \in {Fail(ExtSynced), [Fail(ExtSynced) EXCEPT !.clean = TRUE, !.lease = 0]}
  <2>1. Fail(ExtSynced).att = ext.att
    BY <1>s, FailFields
  <2>2. ext' = Fail(ExtSynced) \/ ext' = y
    BY <1>2 DEF y
  <2> QED
    BY <1>s, <1>w, <1>2, <2>1, <2>2 DEF Publishes
<1>3. CASE extLane' = Frame(ext') /\ ext' \in {Prepared(ext), Running(ext), Disconnecting(ext)}
  <2>1. ext'.att = ext.att
    BY <1>i, <1>3, StartingFollows, RunningFollows, DisconnectFollows DEF Follows
  <2>2. Vital(ext', h) /\ Sound(ext') /\ ext'.native # "foreign"
    BY <1>v, <1>3
  <2> QED
    BY <1>3, <2>1, <2>2 DEF Publishes
<1>4. CASE extLane' = Frame(ext') /\ ext.native # "foreign" /\ ext' = Starting(ExtSynced)
  <2>1. ext'.att = ext.att
    BY <1>s, <1>4, StartingFollows DEF Follows
  <2>2. Vital(ext', h) /\ Sound(ext') /\ ext'.native = ext.native
    BY <1>s, <1>4, ExtVital
  <2> QED
    BY <1>4, <2>1, <2>2 DEF Publishes
<1>5. CASE /\ extLane' = Frame(ext') /\ ext.native = "running"
           /\ ext' \in {StopOrphan(ExtSynced), NativeEnded(ext, TRUE)}
  <2>1. ext'.att = ext.att
    BY <1>i, <1>s, <1>5, StopOrphanFollows, NativeEndedFollows DEF Follows
  <2>2. Vital(ext', h) /\ Sound(ext') /\ ext'.native # "foreign"
    BY <1>s, <1>v, <1>w, <1>5
  <2> QED
    BY <1>5, <2>1, <2>2 DEF Publishes
<1>6. CASE extLane' = Frame(ext') /\ ext.native # "foreign" /\ Ended(ext) /\ ext' = Disconnected(ext)
  <2>1. ext'.att = ext.att
    BY <1>i, <1>6, DisconnectFollows DEF Follows
  <2>2. Vital(ext', h) /\ Sound(ext') /\ ext'.native = ext.native
    BY <1>i, <1>6, ExtVital
  <2> QED
    BY <1>6, <2>1, <2>2 DEF Publishes
<1>7. CASE /\ extLane' = Frame(ext') /\ ext.native # "foreign" /\ Ended(ExtSynced)
           /\ ext' = CleanedUp(ExtSynced)
  <2>1. ext'.att = ext.att
    BY <1>s, <1>7, CleanedUpFollows DEF Follows
  <2>2. Vital(ext', h) /\ Sound(ext') /\ ext'.native = ext.native
    BY <1>s, <1>7, ExtVital
  <2> QED
    BY <1>7, <2>1, <2>2 DEF Publishes
<1> QED
  BY <1>1, <1>2, <1>3, <1>4, <1>5, <1>6, <1>7

LEMMA AdoptFields ==
  ASSUME NEW x \in Engine, NEW f \in FrameOf
  PROVE  /\ Adopt(x, f).out = f.out
         /\ Adopt(x, f).native = IF x.native = "running" THEN "foreign" ELSE x.native
<1> DEFINE n == IF x.native = "running" THEN "foreign" ELSE x.native
           y == [x EXCEPT !.att = f.att, !.out = f.out, !.attd = f.attd, !.stop = f.stop,
                          !.own = f.own, !.clean = f.clean, !.native = n]
<1>1. DOMAIN y = DOMAIN x /\ y.out = f.out /\ y.native = n
  <2> HIDE DEF n
  <2> QED
    BY DEF Engine
<1>2. Adopt(x, f) = IF f.start /\ f.out = "Pending"
                    THEN [y EXCEPT !.start = TRUE, !.run = FALSE, !.life = "Establishing"] ELSE y
  BY DEF Adopt
<1> HIDE DEF y
<1>3. Adopt(x, f).out = f.out /\ Adopt(x, f).native = n
  <2> HIDE DEF n
  <2> QED
    BY <1>1, <1>2 DEF Engine
<1> QED
  BY <1>3

\* What binding makes of an engine.
LEMMA BindingFields ==
  ASSUME NEW x \in Engine, NEW p \in Nat
  PROVE  /\ Reopen(x).native = x.native /\ Reopen(x).life = x.life /\ Reopen(x).att = x.att
         /\ Reopen(x).out =
              IF x.out = "Connected" /\ x.native \notin {"running", "foreign"}
              THEN "Pending" ELSE x.out
         /\ Bound(x, p).native = x.native /\ Bound(x, p).life = x.life
         /\ Bound(x, p).att = x.att /\ Bound(x, p).out = x.out
<1>1. /\ Bound(x, p).native = x.native /\ Bound(x, p).life = x.life
      /\ Bound(x, p).att = x.att /\ Bound(x, p).out = x.out
  <2> DEFINE c == IF x.attd THEN x.clean ELSE FALSE
  <2>1. Bound(x, p) = [x EXCEPT !.lease = x.att, !.own = p, !.attd = TRUE, !.clean = c]
    BY DEF Bound
  <2> HIDE DEF c
  <2> QED
    BY <2>1 DEF Engine
<1> QED
  BY <1>1 DEF Reopen, Engine

LEMMA ReboundVital ==
  ASSUME IInv, OwnerInv, StopInv, step = "bind", uiLane.att = cur
  PROVE  LET x == Rebound(uiLane)
         IN  /\ x \in Engine /\ x.att = cur /\ cur # 0 /\ Vital(x, FALSE)
             /\ x.native = "foreign" =>
                  /\ x.out # "Connected"
                  /\ ext.native = "foreign" \/ (ext.native = "running" /\ ext.att # cur)
<1> DEFINE z == IF ext.att = cur THEN ext ELSE Adopt(ext, uiLane)
           x == Rebound(uiLane)
<1>i. /\ ext \in Engine /\ uiLane \in FrameOf /\ Sound(uiLane) /\ ExtIdle(ext) /\ ForeignInv
      /\ uiLane.run => uiLane.out = "Connected"
      /\ uiLane.att \in {0, issued} /\ Vital(ext, FALSE)
  BY DEF IInv, UiInv, ExtInv, StopInv, FrameInv, Vital, RequestInv, IdsInv
<1>1. x \in Engine /\ x.att = cur /\ cur # 0
  BY ReboundFollows
<1>2. x = Apply(z, uiLane, FALSE)
  BY DEF Rebound
<1>3. CASE ext.att = cur
  <2>1. z = ext
    BY <1>3
  <2>2. ext.native = "foreign" => ext.out # "Connected" /\ uiLane.out # "Connected"
    BY <1>i, <1>1 DEF ForeignInv, Heard, Claimed
  <2>3. /\ Vital(x, FALSE) /\ x.native = ext.native
        /\ x.out = "Connected" => ext.out = "Connected" \/ uiLane.out = "Connected"
    BY <1>i, <1>1, <1>2, <1>3, <2>1, VitalApply
  <2> QED
    BY <1>1, <2>2, <2>3
<1>4. CASE ext.att # cur
  <2>1. z = Adopt(ext, uiLane)
    BY <1>4
  <2>2. /\ z \in Engine /\ z.att = cur /\ z.out = uiLane.out
        /\ z.native = IF ext.native = "running" THEN "foreign" ELSE ext.native
    BY <1>i, <2>1, AdoptTyped, AdoptFields
  <2> HIDE DEF z
  <2>3. Vital(z, FALSE)
    BY <1>i, <1>1, <2>2 DEF Vital, Sound
  <2>4. ext.native \in {"foreign", "running"} => uiLane.out # "Connected"
    <3>1. ASSUME ext.native \in {"foreign", "running"}, uiLane.out = "Connected" PROVE FALSE
      <4>1. Heard /\ cur = issued
        BY <1>i, <1>1, <3>1 DEF Heard, Claimed
      <4>2. ext.native = "running" /\ ext.att = 0
        BY <1>i, <1>4, <3>1, <4>1 DEF ForeignInv
      <4> QED
        BY <1>i, <4>2 DEF ExtIdle, OwnerInv, Claims, Owned, Ended, Terminal
    <3> QED
      BY <3>1
  <2>5. /\ Vital(x, FALSE) /\ x.native = z.native
        /\ x.out = "Connected" => z.out = "Connected" \/ uiLane.out = "Connected"
    BY <1>i, <1>1, <1>2, <2>2, <2>3, VitalApply
  <2> QED
    BY <1>1, <1>4, <2>2, <2>4, <2>5
<1> QED
  BY <1>3, <1>4

LEMMA BindGoes ==
  ASSUME IInv, OwnerInv, AbilityInv, StopInv, Bind \/ BindRefused
  PROVE  ExtGoes
<1> DEFINE x == Rebound(uiLane)
<1>s. step = "bind" /\ act = 0 /\ cleanup.stage = "none"
  BY DEF Bind, BindRefused, ReadyToBind, AbilityInv, StageInv
<1>r. uiLane.att = cur =>
        /\ x \in Engine /\ x.att = cur /\ cur # 0 /\ Vital(x, FALSE)
        /\ x.native = "foreign" =>
             /\ x.out # "Connected"
             /\ ext.native = "foreign" \/ (ext.native = "running" /\ ext.att # cur)
  BY <1>s, ReboundVital
<1>1. CASE Bind
  <2> DEFINE r == Reopen(x)
             b == Bound(r, inc)
             y == StopOrphan(b)
  <2>1. /\ uiLane.att = cur /\ ext' = y /\ extLane' = Frame(ext')
        /\ act' = 0 \/ ~Unhealthy(y, cur)
    BY <1>1 DEF Bind, CanBind, ExtPublish
  <2>i. inc \in Nat
    BY SessionBounds DEF IInv, HandlerInv
  <2> HIDE DEF y, x
  <2>2. /\ r \in Engine /\ r.native = x.native /\ r.life = x.life /\ r.att = x.att
        /\ r.out = IF x.out = "Connected" /\ x.native \notin {"running", "foreign"}
                   THEN "Pending" ELSE x.out
    BY <1>r, <2>1, <2>i, BindingFields, ReopenFollows
  <2> HIDE DEF r
  <2>3. b \in Engine /\ b.native = r.native /\ b.life = r.life /\ b.att = r.att /\ b.out = r.out
    BY <2>i, <2>2, BindingFields, BoundFollows
  <2> HIDE DEF b
  <2>4. Vital(b, FALSE)
    BY <1>r, <2>1, <2>2, <2>3 DEF Vital, Ended, Terminal
  <2>5. /\ y.out = b.out /\ y.life = b.life /\ y.att = b.att /\ y.native # "foreign"
        /\ Vital(y, FALSE)
    BY <2>3, <2>4, ExtVital, StopOrphanFollows DEF y, Follows
  <2>6. Sound(y)
    BY <1>r, <2>1, <2>2, <2>3, <2>5 DEF Sound, Vital, Ended, Terminal
  <2>7. Vital(y, act' # 0)
    BY <2>1, <2>5 DEF Vital, Unhealthy
  <2>8. ext'.att = cur
    BY <1>r, <2>1, <2>2, <2>3, <2>5
  <2> QED
    BY <1>r, <2>1, <2>5, <2>6, <2>7, <2>8 DEF ExtGoes, Adopts, Publishes
<1>2. CASE BindRefused
  <2>a. act' = 0 /\ cleanup'.stage = "none" /\ ActMoves
    BY <1>s, <1>2 DEF BindRefused, ActMoves
  <2>1. CASE UNCHANGED extVars
    <3>1. ext' = ext /\ extLane' = extLane
      BY <2>1 DEF extVars
    <3> QED
      BY <2>a, <3>1, ExtOperates
  <2>2. CASE ~UNCHANGED extVars
    <3> DEFINE y == IF Ended(x) THEN x ELSE Reopen(x)
    <3>1. uiLane.att = cur /\ ext' = y /\ extLane' = extLane
      BY <1>2, <2>2 DEF BindRefused, ExtQuiet
    <3> HIDE DEF x
    <3>2. /\ Reopen(x).native = x.native /\ Reopen(x).life = x.life /\ Reopen(x).att = x.att
          /\ Reopen(x).out = IF x.out = "Connected" /\ x.native \notin {"running", "foreign"}
                             THEN "Pending" ELSE x.out
      BY <1>r, <3>1, BindingFields, 0 \in Nat
    <3>3. /\ y.native = x.native /\ y.life = x.life /\ y.att = x.att
          /\ y.out \in {x.out, "Pending"}
          /\ x.native = "running" => y.out = x.out
      BY <3>2
    <3> HIDE DEF y
    <3>4. Vital(y, act' # 0)
      BY <1>r, <2>a, <3>1, <3>3 DEF Vital, Ended
    <3> QED
      BY <1>r, <2>a, <3>1, <3>3, <3>4 DEF ExtGoes, Adopts
  <2> QED
    BY <2>1, <2>2
<1> QED
  BY <1>1, <1>2

LEMMA HandlerGoes ==
  ASSUME IInv, AbilityInv, StopInv,
         HandleNext \/ HandleSuperseded \/ HandleStale \/ HandleChecked \/ HandlerCatches
         \/ StartPrepare \/ PrepareDone \/ CreateBegin \/ CreateDone \/ CreateFailed
         \/ OperationTimeout \/ AttachDone \/ AttachCheck \/ HandleClosed
  PROVE  ExtGoes
<1>i. IInv /\ StopInv /\ ActMoves /\ ForeignInv /\ StageInv /\ HandlerInv
  BY HandlerMovesAct DEF IInv, StopInv, AbilityInv
<1>f. act # 0 => ext.native # "foreign"
  BY <1>i DEF ForeignInv
<1>1. CASE HandleNext \/ HandleSuperseded \/ HandleStale \/ HandleChecked \/ CreateBegin
           \/ CreateFailed \/ OperationTimeout \/ HandleClosed
  <2>1. UNCHANGED extVars
    BY <1>1 DEF HandleNext, HandleSuperseded, HandleStale, HandleChecked, CreateBegin,
                CreateFailed, OperationTimeout, HandleClosed
  <2> QED
    BY <1>i, <2>1, ExtOperates DEF extVars
<1>2. CASE HandlerCatches
  <2>1. \/ extLane' = extLane /\ ext' \in {ext, ExtSynced}
        \/ /\ extLane' = Frame(ext')
           /\ ext' \in {Fail(ExtSynced), [Fail(ExtSynced) EXCEPT !.clean = TRUE, !.lease = 0]}
    BY <1>2 DEF HandlerCatches, FailUnattached, ExtPublish, ExtQuiet, extVars
  <2> QED
    BY <1>i, <2>1, ExtOperates
<1>3. CASE StartPrepare
  <2>1. act = cur /\ cur # 0
    BY <1>i, <1>3 DEF StartPrepare, AbilityUp, StageInv, Serving, HandlerInv
  <2>2. \/ extLane' = extLane /\ ext' = ExtSynced
        \/ extLane' = Frame(ext') /\ ext' = Starting(ExtSynced)
    BY <1>3 DEF StartPrepare, ExtPublish, ExtQuiet
  <2> QED
    BY <1>i, <1>f, <2>1, <2>2, ExtOperates
<1>4. CASE PrepareDone \/ AttachDone \/ CreateDone
  <2>1. \/ extLane' = extLane /\ ext' \in {ext, [ext EXCEPT !.native = "none"]}
        \/ extLane' = Frame(ext') /\ ext' \in {Prepared(ext), Running(ext)}
    BY <1>4 DEF PrepareDone, AttachDone, CreateDone, ExtPublish, ExtQuiet, extVars
  <2> QED
    BY <1>i, <2>1, ExtOperates
<1>5. CASE AttachCheck
  <2>1. act = cur /\ cur # 0
    BY <1>i, <1>5 DEF AttachCheck, AbilityUp, StageInv, Serving, HandlerInv
  <2>2. \/ extLane' = extLane /\ ext' \in {ext, ExtSynced}
        \/ /\ extLane' = Frame(ext') /\ ext' = StopOrphan(ExtSynced)
           /\ ExtSynced.native \in {"running", "foreign"}
    BY <1>5 DEF AttachCheck, ExtTicks, ExtPublish, ExtQuiet, extVars
  <2>3. ExtSynced.native = ext.native
    BY <1>i, ExtSyncedVital DEF StopInv, FrameInv
  <2> QED
    BY <1>i, <1>f, <2>1, <2>2, <2>3, ExtOperates
<1> QED
  BY <1>1, <1>2, <1>3, <1>4, <1>5

LEMMA RestGoes ==
  ASSUME IInv, AbilityInv, StopInv,
         LatePublish \/ JobEnds \/ CreateSettles \/ ExtSync \/ Heartbeat \/ SessionEnds
         \/ CleanupStep \/ OnDestroy
  PROVE  ExtGoes
<1>i. IInv /\ StopInv /\ ActMoves /\ ForeignInv /\ FrameInv
  BY RestMovesAct DEF StopInv
<1>f. act # 0 \/ cleanup.stage # "none" => ext.native # "foreign"
  BY <1>i DEF ForeignInv
<1>s. ExtSynced.native = ext.native
  BY <1>i, ExtSyncedVital DEF FrameInv
<1>1. CASE LatePublish \/ CreateSettles \/ OnDestroy \/ ExtSync \/ CleanupDestroy
  <2>1. extLane' \in {extLane, late} /\ ext' \in {ext, ExtSynced}
    BY <1>1 DEF LatePublish, CreateSettles, OnDestroy, ExtSync, CleanupDestroy, ExtQuiet, extVars
  <2> QED
    BY <1>i, <2>1, ExtOperates
<1>2. CASE JobEnds
  <2>1. \/ extLane' = extLane /\ ext' = ext
        \/ extLane' = Frame(ext') /\ ext' \in {Prepared(ext), Running(ext)}
    BY <1>2 DEF JobEnds, ExtPublish, extVars
  <2> QED
    BY <1>i, <2>1, ExtOperates
<1>3. CASE Heartbeat
  <2>1. act # 0 /\ \/ extLane' = extLane /\ ext' = ExtSynced
                   \/ /\ extLane' = Frame(ext') /\ ext' = StopOrphan(ExtSynced)
                      /\ ExtSynced.native \in {"running", "foreign"}
    BY <1>3 DEF Heartbeat, ExtTicks, ExtPublish, ExtQuiet
  <2> QED
    BY <1>i, <1>f, <1>s, <2>1, ExtOperates
<1>4. CASE SessionEnds
  <2>1. extLane' = Frame(ext') /\ ext.native = "running" /\ ext' = NativeEnded(ext, TRUE)
    BY <1>4 DEF SessionEnds, ExtPublish, StopInv, NoQuit
  <2> QED
    BY <1>i, <2>1, ExtOperates
<1>5. CASE CleanupStop
  <2>1. \/ extLane' = extLane /\ ext' = ext
        \/ extLane' = Frame(ext') /\ ext' = Disconnecting(ext)
    BY <1>5 DEF CleanupStop, ExtPublish, extVars
  <2> QED
    BY <1>i, <2>1, ExtOperates
<1>6. CASE CleanupJoined
  <2>1. /\ cleanup.stage = "join"
        /\ \/ extLane' = extLane /\ ext' = ext
           \/ extLane' = Frame(ext') /\ ext' = Disconnected(ext)
    BY <1>6 DEF CleanupJoined, ExtPublish, extVars
  <2>2. Ended(ext)
    BY <1>i, <2>1 DEF FrameInv
  <2> QED
    BY <1>i, <1>f, <2>1, <2>2, ExtOperates
<1>7. CASE CleanupAck
  <2>1. /\ cleanup.stage = "ack"
        /\ \/ extLane' = extLane /\ ext' \in {ext, ExtSynced}
           \/ extLane' = Frame(ext') /\ ext' = CleanedUp(ExtSynced) /\ Ended(ExtSynced)
    BY <1>7 DEF CleanupAck, CanAcknowledge, ExtPublish, ExtQuiet, extVars
  <2> QED
    BY <1>i, <1>f, <2>1, ExtOperates
<1> QED
  BY <1>1, <1>2, <1>3, <1>4, <1>5, <1>6, <1>7 DEF CleanupStep

LEMMA ExtStepGoes ==
  ASSUME IInv, OwnerInv, AbilityInv, StopInv, ExtensionStep
  PROVE  ExtGoes
<1>1. ASSUME NEW a \in Attempts, WantArrives(a) PROVE ExtGoes
  <2>1. ext' = ext /\ extLane' = extLane /\ ActMoves
    BY <1>1 DEF WantArrives, extVars, tunnelVars, ActMoves
  <2> QED
    BY <2>1, ExtOperates
<1>2. CASE ExtensionGone
  <2>1. ext' = NewEngine /\ extLane' = extLane /\ act' = 0
    BY <1>2 DEF ExtensionGone
  <2> QED
    BY <2>1 DEF ExtGoes, NewEngine, Vital
<1> QED
  BY <1>1, <1>2, BindGoes, HandlerGoes, RestGoes
     DEF ExtensionStep, HandlerStep, ExtensionExits, ExtensionCrashes

\* An acknowledgement is of a terminal frame of the UI.
LEMMA LateEnded ==
  ASSUME IInv, FrameInv, ExtensionStep
  PROVE  late'.att # 0 => Ended(late')
<1>1. \A a : Acknowledgement(a).att # 0 => Ended(Acknowledgement(a))
  <2> SUFFICES ASSUME NEW a PROVE Acknowledgement(a).att # 0 => Ended(Acknowledgement(a))
    OBVIOUS
  <2> QED
    BY DEF Acknowledgement, NoFrame, Frame, NewEngine, Ended, IInv, UiInv, FrameOf
<1>2. NoFrame.att = 0
  BY DEF NoFrame, Frame, NewEngine
<1> QED
  BY <1>1, <1>2, ExtStepMovesLane DEF LaneMoves, FrameInv

\* A cleanup is joined once the engine is disconnecting.
LEMMA JoinBegins ==
  ASSUME IInv, StopInv, ExtensionStep, cleanup'.stage = "join"
  PROVE  cleanup' = cleanup \/ Ended(ext')
<1>i. ext \in Engine /\ HandlerInv /\ Vital(ext, FALSE)
  BY DEF IInv, ExtInv, StopInv, FrameInv, Vital
<1>1. ASSUME NEW a \in Attempts, WantArrives(a) PROVE cleanup' = cleanup
  BY <1>1 DEF WantArrives, tunnelVars
<1>2. CASE LatePublish \/ HandleNext \/ HandleSuperseded \/ HandleStale \/ HandleChecked
           \/ BindRefused \/ StartPrepare \/ PrepareDone \/ CreateBegin \/ CreateFailed
           \/ OperationTimeout \/ AttachDone \/ AttachCheck \/ HandleClosed
  BY <1>2 DEF LatePublish, HandleNext, HandleSuperseded, HandleStale, HandleChecked, BindRefused,
              StartPrepare, PrepareDone, CreateBegin, CreateFailed, OperationTimeout, AttachDone,
              AttachCheck, HandleClosed, tunnelVars
<1>3. CASE Bind \/ HandlerCatches \/ CreateDone \/ Heartbeat \/ OnDestroy
  BY <1>3 DEF Bind, HandlerCatches, CreateDone, Heartbeat, OnDestroy, BeginCleanup
<1>4. CASE JobEnds \/ CreateSettles \/ ExtSync \/ SessionEnds
  BY <1>4 DEF JobEnds, CreateSettles, ExtSync, SessionEnds, abilityVars, tunnelVars
<1>5. CASE CleanupStop
  <2>1. ext' = Disconnecting(ext) \/ cleanup' = [cleanup EXCEPT !.stage = "wait"]
    BY <1>5 DEF CleanupStop, CleanupGoto, ExtPublish
  <2>2. Ended(Disconnecting(ext))
    BY <1>i, ExtVital
  <2> QED
    BY <1>i, <2>1, <2>2, CleanupMoves
<1>6. CASE CleanupJoined \/ CleanupDestroy \/ CleanupAck
  <2>1. \/ cleanup' = NoCleanup
        \/ \E s \in {"wait", "ack", "failed"} : cleanup' = [cleanup EXCEPT !.stage = s]
    BY <1>6 DEF CleanupJoined, CleanupDestroy, CleanupAck, CleanupGoto
  <2> QED
    BY <1>i, <2>1, CleanupMoves
<1>7. CASE ExtensionGone
  BY <1>7 DEF ExtensionGone, NoCleanup
<1> QED
  BY <1>1, <1>2, <1>3, <1>4, <1>5, <1>6, <1>7
     DEF ExtensionStep, HandlerStep, CleanupStep, ExtensionExits, ExtensionCrashes

LEMMA ExtKeepsFrames ==
  ASSUME ReleaseInv, ReleaseInv', StopInv, ExtensionStep
  PROVE  FrameInv'
<1>i. IInv /\ OwnerInv /\ AbilityInv /\ HeldInv /\ HeldInv' /\ FrameInv
  BY DEF ReleaseInv, StopInv
<1>g. ExtGoes
  BY <1>i, ExtStepGoes
<1>1. Shown(ui') /\ Sound(uiLane') /\ (uiLane'.run => uiLane'.out = "Connected")
  BY <1>i, ExtLeavesUi DEF FrameInv
<1>2. Sound(extLane')
  <2>1. Sound(late)
    BY <1>i DEF FrameInv, Sound, Ended, Terminal
  <2> QED
    BY <1>i, <1>g, <2>1, FrameKeeps DEF ExtGoes, Publishes, FrameInv
<1>3. late'.att # 0 => Ended(late')
  BY <1>i, LateEnded
<1>4. ASSUME cleanup'.stage = "join" PROVE Ended(ext')
  <2>1. CASE cleanup' = cleanup
    <3>1. Ended(ext) /\ cleanup.stage = "join"
      BY <1>i, <1>4, <2>1 DEF FrameInv
    <3>2. ext.att = cleanup.att /\ ext'.att = cleanup.att
      BY <1>i, <1>4, <2>1, <3>1 DEF HeldInv, HeldBy
    <3>3. ExtKept
      BY <1>i, NextKeepsExt DEF Next
    <3> QED
      BY <3>1, <3>2, <3>3 DEF ExtKept
  <2> QED
    BY <1>i, <1>4, <2>1, JoinBegins
<1> QED
  BY <1>g, <1>1, <1>2, <1>3, <1>4 DEF FrameInv, ExtGoes, Ended

LEMMA ExtKeepsForeign ==
  ASSUME ReleaseInv, StopInv, ExtensionStep
  PROVE  ForeignInv'
<1>i. /\ IInv /\ OwnerInv /\ AbilityInv /\ FrameInv /\ ForeignInv /\ ExtIdle(ext)
      /\ uiLane.att \in {0, issued}
  BY DEF ReleaseInv, IInv, ExtInv, StopInv, RequestInv, IdsInv
<1>g. ExtGoes
  BY <1>i, ExtStepGoes DEF StopInv
<1>u. UNCHANGED <<ui, uiLane, issued>>
  BY ExtLeavesUi
<1>n. NewEngine.native = "none" /\ NewEngine.att = 0
  BY DEF NewEngine
<1>1. ext'.native = "foreign" =>
        ext'.att # 0 /\ ext'.out # "Connected" /\ act' = 0 /\ cleanup'.stage = "none"
  BY <1>i, <1>g, <1>n DEF ExtGoes, Continues, Adopts, ForeignInv, ActMoves
<1>2. ASSUME Heard' PROVE ext'.native # "foreign" /\ ext'.att \in {0, issued'}
  <2>1. CASE Publishes /\ ext'.att = issued
    BY <1>u, <2>1 DEF Publishes
  <2>2. CASE Heard
    <3>1. ext.native # "foreign" /\ ext.att \in {0, issued}
      BY <1>i, <2>2 DEF ForeignInv
    <3>2. CASE Adopts
      <4>1. ~(ext.native = "running" /\ ext.att = 0)
        BY <1>i DEF ExtIdle, OwnerInv, Claims, Owned, Ended, Terminal
      <4> QED
        BY <1>i, <1>u, <3>1, <3>2, <4>1 DEF Adopts
    <3> QED
      BY <1>g, <1>n, <1>u, <3>1, <3>2 DEF ExtGoes, Continues
  <2>3. Heard \/ (Publishes /\ ext'.att = issued)
    <3>1. CASE extLane'.att = issued /\ issued # 0 /\ ~Ended(extLane')
      <4>1. extLane' # late
        BY <1>i, <3>1 DEF FrameInv
      <4>2. extLane' = extLane \/ Publishes
        BY <1>g, <4>1 DEF ExtGoes
      <4>3. Publishes => ext'.att = issued
        BY <3>1, FrameKeeps DEF Publishes
      <4> QED
        BY <3>1, <4>2, <4>3 DEF Heard
    <3>2. CASE Claimed(ui) \/ Claimed(uiLane)
      BY <3>2 DEF Heard
    <3> QED
      BY <1>2, <1>u, <3>1, <3>2 DEF Heard, Claimed, Ended
  <2> QED
    BY <2>1, <2>2, <2>3
<1> QED
  BY <1>1, <1>2 DEF ForeignInv

-----------------------------------------------------------------------------
(* StopInv                                                                 *)

LEMMA NextKeepsStop ==
  ASSUME ReleaseInv, ReleaseInv', StopInv, [Next]_vars
  PROVE  StopInv'
<1>i. IInv /\ NoQuit'
  BY DEF ReleaseInv, StopInv, NoQuit
<1>1. CASE UiStep \/ PluginStep
  <2>1. UiGoes
    BY <1>i, <1>1, UiStepGoes, PluginStepGoes
  <2>2. Next
    BY <1>1 DEF Next
  <2> QED
    BY <1>i, <1>1, <2>1, <2>2, UiKeepsFrames, UiKeepsForeign, NextKeepsRequests, NextKeepsTask
       DEF StopInv
<1>2. CASE ExtensionStep
  <2>1. Next
    BY <1>2 DEF Next
  <2> QED
    BY <1>i, <1>2, <2>1, ExtKeepsFrames, ExtKeepsForeign, NextKeepsRequests, NextKeepsTask
       DEF StopInv
<1>3. CASE UNCHANGED vars
  <2>1. UNCHANGED <<ui, uiLane, ext, extLane, late, act, cleanup, issued>>
    BY <1>3 DEF vars, uiVars, extVars, sharedVars, abilityVars, procVars, handlerVars, tunnelVars
  <2>2. UNCHANGED <<journal, uiTask, jsStop, epoch, fence, chain, op>>
    BY <1>3 DEF vars, sharedVars, shellVars, pluginVars
  <2>3. FrameInv'
    BY <2>1 DEF StopInv, FrameInv, Ended
  <2>4. ForeignInv'
    BY <2>1 DEF StopInv, ForeignInv, Heard, Claimed, Ended
  <2>5. RequestInv'
    BY <2>1, <2>2 DEF StopInv, RequestInv, IdsInv, OrderInv, FenceInv, Unowned, Current
  <2>6. TaskInv'
    BY <2>1, <2>2 DEF StopInv, TaskInv, Waiting, Stopping, Stops, Current, Calm, Ended
  <2> QED
    BY <1>i, <2>3, <2>4, <2>5, <2>6 DEF StopInv
<1> QED
  BY <1>1, <1>2, <1>3 DEF Next

-----------------------------------------------------------------------------
(* Acknowledgements under way                                              *)

\* The UI's frame is of the newest attempt, or of none.
LEMMA NothingAcknowledged ==
  ASSUME RequestInv, NEW a, a # 0, a # issued
  PROVE  Acknowledgement(a) = NoFrame
BY DEF RequestInv, IdsInv, Acknowledgement

LEMMA HeldIsCurrent ==
  ASSUME HeldInv, RequestInv
  PROVE  /\ act # 0 => act = issued /\ journal.phase = "Attached"
         /\ cleanup.stage # "none" => cleanup.att = issued /\ journal.phase = "Attached"
         /\ \A a : HeldBy(a) => a = issued
BY DEF HeldInv, HeldBy, RequestInv, IdsInv, Current

LEMMA NextKeepsLate ==
  ASSUME ReleaseInv, StopInv, LateInv, [Next]_vars
  PROVE  LateInv'
<1>i. /\ HandlerInv /\ StageInv /\ ServeInv /\ HeldInv /\ RequestInv
  BY DEF ReleaseInv, IInv, AbilityInv, StopInv
<1>n. \A a : a # 0 /\ ~Served(a) /\ (act # 0 \/ cleanup.stage # "none") =>
        Acknowledgement(a) = NoFrame
  BY <1>i, HeldIsCurrent, NothingAcknowledged DEF Served
<1>1. CASE UiStep \/ PluginStep
  BY <1>1, UiStepKeepsExt DEF LateInv
<1>2. ASSUME NEW a \in Attempts, WantArrives(a) PROVE LateInv'
  <2>1. UNCHANGED <<step, act, cleanup>> /\ a \in wants /\ a # 0
    BY <1>2 DEF WantArrives, tunnelVars, Attempts
  <2>2. CASE ability = "absent"
    BY <1>i, <2>1, <2>2 DEF StageInv, LateInv
  <2>3. CASE AbilityUp
    <3>1. late' = late \/ late' = Acknowledgement(a)
      BY <1>2 DEF WantArrives
    <3>2. ~Served(a)
      BY <1>i, <2>1 DEF ServeInv
    <3> QED
      BY <1>n, <2>1, <2>3, <3>1, <3>2 DEF AbilityUp, LateInv
  <2> QED
    BY <1>2, <2>2, <2>3 DEF WantArrives
<1>3. CASE HandleStale
  <2>1. /\ step = "wait" /\ step' = "idle" /\ act' = act /\ cleanup' = cleanup
        /\ late' = Acknowledgement(cur)
    BY <1>3 DEF HandleStale, Checkable, HandlerEnds, tunnelVars
  <2>2. cur # 0 /\ ~Served(cur)
    BY <1>i, <2>1 DEF HandlerInv, ServeInv
  <2> QED
    BY <1>n, <2>1, <2>2 DEF LateInv
<1>4. CASE LatePublish \/ ExtensionGone
  BY <1>4 DEF LatePublish, ExtensionGone, LateInv
\* The ability's thread is free, a binding or its failure is handled.
<1>5. ASSUME late' = late, AbilityUp \/ step \in {"bind", "throw"} \/ cleanup.stage # "none"
             \/ UNCHANGED <<step, act, cleanup>>
      PROVE  LateInv'
  BY <1>5 DEF AbilityUp, LateInv
<1>6. CASE HandleNext \/ HandleSuperseded \/ HandleChecked \/ Bind \/ BindRefused
           \/ HandlerCatches \/ StartPrepare \/ PrepareDone
  BY <1>5, <1>6 DEF HandleNext, HandleSuperseded, HandleChecked, Checkable, Bind, BindRefused,
                    ReadyToBind, HandlerCatches, StartPrepare, PrepareDone, procVars
<1>7. CASE CreateBegin \/ CreateDone \/ CreateFailed \/ OperationTimeout \/ AttachDone
           \/ AttachCheck \/ HandleClosed
  BY <1>5, <1>7 DEF CreateBegin, CreateDone, CreateFailed, OperationTimeout, AttachDone,
                    AttachCheck, HandleClosed, procVars
<1>8. CASE JobEnds \/ CreateSettles \/ SessionEnds \/ ExtSync \/ Heartbeat \/ OnDestroy
  BY <1>5, <1>8 DEF JobEnds, CreateSettles, SessionEnds, ExtSync, Heartbeat, OnDestroy,
                    abilityVars, procVars, handlerVars, tunnelVars
<1>9. CASE CleanupStep
  BY <1>5, <1>9 DEF CleanupStep, CleanupStop, CleanupJoined, CleanupDestroy, CleanupAck, procVars
<1>10. CASE UNCHANGED vars
  BY <1>5, <1>10 DEF vars, abilityVars, procVars, handlerVars, tunnelVars
<1>11. CASE ExtensionStep
  BY <1>2, <1>3, <1>4, <1>6, <1>7, <1>8, <1>9, <1>11
     DEF ExtensionStep, HandlerStep, ExtensionExits, ExtensionCrashes
<1> QED
  BY <1>1, <1>10, <1>11 DEF Next

-----------------------------------------------------------------------------
(* The journal is gone                                                     *)

\* The plugin deletes the journal only in a recovery, and the UI asks for a stop
\* only while its attempt is under way.
LEMMA UiUndecided ==
  ASSUME IInv, StopInv, UiStep \/ PluginStep, ~StartBegin
  PROVE  /\ issued' = issued /\ wants' \subseteq wants
         /\ jsStop' => jsStop \/ ~Ended(ui)
         /\ journal'.phase = "Missing" /\ ui'.att # 0 =>
              journal.phase = "Missing" \/ (~jsStop' /\ Ended(ui'))
<1>j. JournalInv /\ PluginInv /\ UiInv /\ ExtInv /\ FrameInv /\ RequestInv /\ TaskInv
  BY DEF IInv, StopInv
<1>1. CASE UiStep
  <2>1. UNCHANGED <<journal, issued, wants>>
    BY <1>1 DEF UiStep, Connect, Authenticated, AuthFailed, Disconnect, DisconnectBegin,
                DisconnectEnd, UiTick, Watchdog, sharedVars, abilityVars, procVars
  <2>2. jsStop' => jsStop \/ ui.life = "Connected"
    BY <1>1 DEF UiStep, Connect, Authenticated, AuthFailed, Disconnect, DisconnectBegin,
                DisconnectEnd, UiTick, Watchdog, shellVars
  <2>3. ui.life = "Connected" => ~Ended(ui)
    BY <1>j DEF FrameInv, Shown, Ended, Terminal
  <2> QED
    BY <2>1, <2>2, <2>3
<1>2. CASE StopClaimed
  <2>1. journal' = [journal EXCEPT !.phase = IF @ = "Pending" THEN "Stopping" ELSE @]
    BY <1>2 DEF StopClaimed
  <2>2. journal'.phase = "Missing" => journal.phase = "Missing"
    BY <1>j, <2>1 DEF JournalInv
  <2>3. issued' = issued /\ wants' = wants /\ ~jsStop'
    BY <1>2 DEF StopClaimed, abilityVars, procVars
  <2> QED
    BY <2>2, <2>3
<1>3. CASE StopRecover
  <2>1. issued' = issued /\ wants' = wants /\ jsStop' = jsStop
    BY <1>3 DEF StopRecover, abilityVars, procVars, shellVars
  <2>2. CASE journal' = journal
    BY <2>1, <2>2
  <2>3. CASE journal' # journal /\ journal.phase # "Missing" /\ ui'.att # 0
    <3>1. /\ journal.att = op.att
          /\ \/ UiSynced.att = op.att /\ ui' = Recovered(UiSynced)
             \/ UiSynced.att # op.att /\ ui' = UiSynced
          /\ op.kind = "stop" /\ op.att # 0
      BY <1>3, <1>j, <2>3 DEF StopRecover, RecoveryOver, UiPublish, UiQuiet, In, PluginInv,
                              PluginTyped, WellFormed
    <3>2. Current(op.att) /\ ui.att \in {0, issued}
      BY <1>j, <2>3, <3>1 DEF RequestInv, IdsInv
    <3>3. UiSynced \in Engine /\ Shown(UiSynced) /\ UiSynced.att = ui.att
      BY <1>j, SyncedShown
    <3>4. UiSynced.att = op.att
      BY <2>3, <3>1, <3>2, <3>3 DEF Current
    <3>5. Ended(ui')
      BY <3>1, <3>3, <3>4, UiHonest
    <3>6. ~jsStop
      BY <1>j, <3>1, <3>2 DEF TaskInv, Stopping, Stops
    <3> QED
      BY <2>1, <3>5, <3>6
  <2> QED
    BY <2>1, <2>2, <2>3
<1>4. CASE ChainNext \/ StopSuperseded \/ StopRequest \/ StopCooperated \/ StopImpatient
           \/ StopOs \/ StopConfirmed \/ StopRejected \/ StopGivesUp
  BY <1>4 DEF ChainNext, StopSuperseded, StopRequest, StopCooperated, StopImpatient, StopOs,
              StopConfirmed, StopRejected, StopGivesUp, sharedVars, shellVars, abilityVars, procVars
<1>5. CASE StartRefused \/ StartSent \/ StartFailed \/ StartSettled \/ StartTimeout
  BY <1>5 DEF StartRefused, StartSent, StartFailed, StartSettled, StartTimeout, sharedVars,
              shellVars, abilityVars, procVars
<1> QED
  BY <1>1, <1>2, <1>3, <1>4, <1>5 DEF PluginStep

LEMMA UiKeepsGone ==
  ASSUME IInv, StopInv, GoneInv, UiStep \/ PluginStep
  PROVE  GoneInv'
<1> SUFFICES ASSUME Undecided' PROVE GoneInv'
  BY DEF GoneInv
<1>i. UiInv /\ ExtInv /\ FrameInv /\ RequestInv
  BY DEF IInv, StopInv
<1>u. UiGoes
  BY UiStepGoes, PluginStepGoes
<1>e. UNCHANGED <<ext, extLane, late, step, cur, req>>
  BY UiStepKeepsExt
<1>b. ~StartBegin
  BY DEF StartBegin, Undecided
<1>1. /\ issued' = issued /\ wants' \subseteq wants
      /\ jsStop' => jsStop \/ ~Ended(ui)
      /\ journal'.phase = "Missing" /\ ui'.att # 0 =>
           journal.phase = "Missing" \/ (~jsStop' /\ Ended(ui'))
  BY <1>b, UiUndecided
<1>2. journal.phase = "Missing" /\ ui'.att # 0
  BY <1>1 DEF Undecided, Ended
<1>s. /\ UiSynced.att = ui.att /\ (Ended(ui) => Ended(UiSynced))
      /\ UiMatch /\ Ended(extLane) => UiSynced.clean = extLane.clean
      /\ ~UiMatch => UiSynced = ui
  BY <1>i, SyncedShown
<1>3. \/ Honest(ui, ui') /\ extFresh' = extFresh
      \/ Honest(UiSynced, ui') /\ extFresh' = (extFresh /\ ~UiMatch)
  <2>1. ~Begins
    BY <1>1, <1>i DEF Begins, UiInv
  <2> QED
    BY <1>u, <1>2, <2>1 DEF UiGoes
<1>4. ui'.att = ui.att /\ (Ended(ui) => Ended(ui'))
  BY <1>s, <1>3 DEF Honest
<1>5. Undecided
  BY <1>1, <1>2, <1>4 DEF Undecided, Ended
<1>6. ui.att = issued
  BY <1>i, <1>2, <1>4 DEF RequestInv, IdsInv
<1>7. ui'.clean \/ (extFresh' /\ extLane'.att = issued')
  <2>1. CASE Honest(ui, ui') /\ extFresh' = extFresh
    BY <1>e, <1>1, <1>5, <2>1 DEF GoneInv, Honest
  <2>2. CASE Honest(UiSynced, ui')
    <3>1. CASE UiMatch
      <4>1. extFresh /\ extLane.att = issued
        BY <1>6, <3>1 DEF UiMatch
      <4>2. extLane.clean /\ Ended(extLane)
        BY <1>5, <4>1 DEF GoneInv, Final
      <4> QED
        BY <1>s, <2>2, <3>1, <4>2 DEF Honest
    <3>2. CASE ~UiMatch
      <4>1. ~(extFresh /\ extLane.att = issued)
        BY <1>2, <1>4, <1>6, <3>2 DEF UiMatch
      <4> QED
        BY <1>s, <1>5, <2>2, <3>2, <4>1 DEF GoneInv, Honest
    <3> QED
      BY <3>1, <3>2
  <2> QED
    BY <1>3, <2>1, <2>2
<1>8. extFresh' => Final(extLane)'
  <2>1. extFresh' => extFresh
    BY <1>3
  <2> QED
    BY <1>e, <1>1, <1>5, <2>1 DEF GoneInv, Final, Ended
<1>9. ext'.att = 0 \/ (ext'.att = issued' /\ Final(ext)')
  BY <1>e, <1>1, <1>5 DEF GoneInv, Final, Ended
<1> QED
  BY <1>e, <1>1, <1>5, <1>7, <1>8, <1>9 DEF GoneInv

\* With the journal gone the Extension serves nobody, and no Want is valid.
LEMMA UndecidedRests ==
  ASSUME ReleaseInv, StopInv, GoneInv, Undecided
  PROVE  /\ act = 0 /\ cleanup.stage = "none" /\ issued # 0
         /\ ability = "up" => step \notin Serving
         /\ \A a : a # 0 => ~LatestWant(a)
         /\ \A a : a # 0 /\ a # issued => Acknowledgement(a) = NoFrame
<1>i. /\ HandlerInv /\ StageInv /\ HeldInv /\ RequestInv /\ IdsInv
      /\ ui.att # 0 /\ journal.phase = "Missing"
  BY DEF ReleaseInv, IInv, AbilityInv, StopInv, RequestInv, Undecided
<1>1. issued # 0 /\ journal.att = 0
  BY <1>i DEF IdsInv, NoJournal
<1>2. act = 0 /\ cleanup.stage = "none"
  BY <1>i, HeldIsCurrent
<1>3. ability = "up" => step \notin Serving
  BY <1>i, <1>2 DEF StageInv, HandlerInv, Serving
<1>4. \A a : a # 0 => ~LatestWant(a)
  BY <1>1 DEF LatestWant
<1> QED
  BY <1>i, <1>1, <1>2, <1>3, <1>4, NothingAcknowledged

\* Requests go on, and the engine keeps still, ends with its process or publishes
\* what it knows.
Informs ==
  \/ UNCHANGED <<extLane, extFresh>> /\ (ext' = ext \/ ext'.att = 0)
  \/ extLane' = Frame(ext') /\ extFresh' /\ ext'.att = issued /\ ext'.clean /\ Ended(ext')

LEMMA GoneKept ==
  ASSUME GoneInv, Undecided, UNCHANGED <<ui, issued, late>>, Informs, wants' \subseteq wants,
         \/ UNCHANGED <<step, cur, req>>
         \/ step' = "idle" /\ req' # issued
         \/ step' = "wait" /\ cur' # issued /\ req' # issued
         \/ req' # issued /\ step' = step /\ cur' = cur
  PROVE  GoneInv'
<1>1. late' = NoFrame /\ step' \notin {"bind", "throw"} /\ issued' \notin wants'
  BY DEF GoneInv
<1>2. /\ req' = issued' => step' \notin {"idle", "wait"} /\ req' = cur'
      /\ step' = "wait" => cur' # issued'
  BY DEF GoneInv
<1>3. CASE UNCHANGED <<extLane, extFresh>> /\ (ext' = ext \/ ext'.att = 0)
  <2>1. ui'.clean \/ (extFresh' /\ extLane'.att = issued')
    BY <1>3 DEF GoneInv
  <2>2. extFresh' => Final(extLane)'
    BY <1>3 DEF GoneInv, Final, Ended
  <2>3. ext'.att = 0 \/ (ext'.att = issued' /\ Final(ext)')
    BY <1>3 DEF GoneInv, Final, Ended
  <2> QED
    BY <1>1, <1>2, <2>1, <2>2, <2>3 DEF GoneInv
<1>4. CASE extLane' = Frame(ext') /\ extFresh' /\ ext'.att = issued /\ ext'.clean /\ Ended(ext')
  <2>1. extLane'.att = issued' /\ Final(extLane)' /\ Final(ext)'
    BY <1>4, FrameKeeps DEF Final, Ended
  <2> QED
    BY <1>1, <1>2, <1>4, <2>1 DEF GoneInv
<1> QED
  BY <1>3, <1>4 DEF Informs

LEMMA RequestsKeepGone ==
  ASSUME ReleaseInv, StopInv, GoneInv, Undecided, UNCHANGED <<ui, issued>>,
         \/ \E a \in Attempts : WantArrives(a)
         \/ LatePublish \/ HandleNext \/ HandleSuperseded \/ HandleStale \/ HandleChecked
         \/ Bind \/ BindRefused \/ HandlerCatches
  PROVE  GoneInv'
<1>r. /\ act = 0 /\ cleanup.stage = "none" /\ issued # 0
      /\ \A a : a # 0 => ~LatestWant(a)
      /\ \A a : a # 0 /\ a # issued => Acknowledgement(a) = NoFrame
  BY UndecidedRests
<1>g. /\ late = NoFrame /\ step \notin {"bind", "throw"} /\ issued \notin wants
      /\ req = issued => step \notin {"idle", "wait"} /\ req = cur
      /\ step = "wait" => cur # issued
  BY DEF GoneInv
<1>h. HandlerInv
  BY DEF ReleaseInv, IInv
<1>1. ASSUME NEW a \in Attempts, WantArrives(a) PROVE GoneInv'
  <2>1. a # 0 /\ a # issued
    BY <1>1, <1>g DEF WantArrives, Attempts
  <2>2. /\ UNCHANGED <<step, cur, req, ext, extLane, extFresh>> /\ wants' \subseteq wants
        /\ late' = Acknowledgement(a)
    BY <1>1, <1>r, <2>1 DEF WantArrives, extVars
  <2>3. late' = late
    BY <1>r, <1>g, <2>1, <2>2
  <2> QED
    BY <2>2, <2>3, GoneKept DEF Informs
<1>2. CASE LatePublish
  BY <1>2, <1>g DEF LatePublish
<1>3. CASE HandleNext
  <2>1. /\ step = "idle" /\ step' = "wait" /\ cur' = req /\ req' = req
        /\ UNCHANGED <<late, wants, ext, extLane, extFresh>>
    BY <1>3 DEF HandleNext, procVars, extVars
  <2> QED
    BY <1>g, <2>1, GoneKept DEF Informs
<1>4. CASE HandleSuperseded \/ HandleStale
  <2>1. /\ step = "wait" /\ step' = "idle" /\ req' \in {0, req}
        /\ UNCHANGED <<wants, ext, extLane, extFresh>>
        /\ late' = late \/ late' = Acknowledgement(cur)
    BY <1>4 DEF HandleSuperseded, HandleStale, Checkable, HandlerEnds, procVars, extVars
  <2>2. cur # 0 /\ cur # issued
    BY <1>h, <1>g, <2>1 DEF HandlerInv
  <2>3. late' = late
    BY <1>r, <1>g, <2>1, <2>2
  <2> QED
    BY <1>r, <1>g, <2>1, <2>3, GoneKept DEF Informs
<1>5. CASE HandleChecked
  <2>1. step = "wait" /\ LatestWant(cur)
    BY <1>5 DEF HandleChecked, Checkable
  <2> QED
    BY <1>h, <1>r, <2>1 DEF HandlerInv
<1>6. CASE Bind \/ BindRefused \/ HandlerCatches
  BY <1>6, <1>g DEF Bind, BindRefused, HandlerCatches, ReadyToBind
<1> QED
  BY <1>1, <1>2, <1>3, <1>4, <1>5, <1>6

LEMMA RestKeepsGone ==
  ASSUME ReleaseInv, StopInv, GoneInv, Undecided, UNCHANGED <<ui, issued>>,
         \/ StartPrepare \/ PrepareDone \/ CreateBegin \/ CreateDone \/ CreateFailed
         \/ OperationTimeout \/ AttachDone \/ AttachCheck \/ HandleClosed
         \/ JobEnds \/ CreateSettles \/ ExtSync \/ Heartbeat \/ SessionEnds
         \/ CleanupStep \/ OnDestroy \/ ExtensionExits \/ ExtensionCrashes
  PROVE  GoneInv'
<1>r. /\ act = 0 /\ cleanup.stage = "none" /\ issued # 0
      /\ ability = "up" => step \notin Serving
  BY UndecidedRests
<1>g. /\ late = NoFrame
      /\ req = issued => req = cur
      /\ ext.att = 0 \/ (ext.att = issued /\ Final(ext))
  BY DEF GoneInv
<1>i. ext \in Engine /\ ExtIdle(ext) /\ OwnerInv /\ JournalInv /\ journal.phase = "Missing"
  BY DEF ReleaseInv, IInv, ExtInv, Undecided
<1>o. Claims => Ended(ext)
  BY <1>i DEF OwnerInv, Owned
<1>1. CASE StartPrepare \/ PrepareDone \/ CreateBegin \/ CreateDone \/ CreateFailed
           \/ OperationTimeout \/ AttachDone \/ AttachCheck
  <2>1. ability = "up" /\ step \in Serving
    BY <1>1 DEF StartPrepare, PrepareDone, CreateBegin, CreateDone, CreateFailed,
                OperationTimeout, AttachDone, AttachCheck, AbilityUp, Serving
  <2> QED
    BY <1>r, <2>1
<1>2. CASE HandleClosed
  <2>1. /\ step' = "idle" /\ (req = cur => req' = 0) /\ (req # cur => req' = req)
        /\ UNCHANGED <<late, wants, ext, extLane, extFresh>>
    BY <1>2 DEF HandleClosed, HandlerEnds, Newest, procVars, extVars
  <2>2. req' # issued
    BY <1>r, <1>g, <2>1
  <2> QED
    BY <2>1, <2>2, GoneKept DEF Informs
<1>3. CASE JobEnds
  <2>1. /\ UNCHANGED <<late, wants, step, cur, req>>
        /\ Ended(ext) \/ job \notin {"prepare", "attach"} => UNCHANGED <<ext, extLane, extFresh>>
    BY <1>3 DEF JobEnds, CanRun, procVars, handlerVars, extVars
  <2>2. UNCHANGED <<ext, extLane, extFresh>>
    BY <1>o, <2>1 DEF Claims
  <2> QED
    BY <2>1, <2>2, GoneKept DEF Informs
<1>4. CASE CreateSettles
  <2>1. UNCHANGED <<late, wants, step, cur, req, ext, extLane, extFresh>>
    BY <1>4 DEF CreateSettles, procVars, handlerVars, extVars
  <2> QED
    BY <2>1, GoneKept DEF Informs
<1>5. CASE ExtSync \/ Heartbeat
  BY <1>5, <1>r DEF ExtSync, Heartbeat
<1>6. CASE SessionEnds
  <2>1. /\ UNCHANGED <<late, wants, step, cur, req>> /\ ext.native = "running"
        /\ ext' = NativeEnded(ext, TRUE) /\ extLane' = Frame(ext') /\ extFresh' = TRUE
    BY <1>6 DEF SessionEnds, ExtPublish, abilityVars, procVars, handlerVars, StopInv, NoQuit
  <2>2. Ended(ext) /\ ext.att # 0
    BY <1>i, <1>o, <2>1 DEF Claims, ExtIdle, Ended, Terminal
  <2>3. ext.att = issued /\ ext.clean
    BY <1>g, <2>2 DEF Final
  <2>4. ext'.att = ext.att /\ ext'.clean = ext.clean /\ ext'.out = ext.out
    BY <1>i, <2>1, <2>2, NativeEndedFields
  <2>5. Informs
    BY <2>1, <2>2, <2>3, <2>4 DEF Informs, Ended
  <2> QED
    BY <2>1, <2>5, GoneKept
<1>7. CASE CleanupStep
  BY <1>7, <1>r DEF CleanupStep, CleanupStop, CleanupJoined, CleanupDestroy, CleanupAck
<1>8. CASE OnDestroy
  <2>1. UNCHANGED <<late, wants, step, cur, ext, extLane, extFresh>> /\ req' = 0
    BY <1>8 DEF OnDestroy, extVars
  <2> QED
    BY <1>r, <2>1, GoneKept DEF Informs
<1>9. CASE ExtensionExits \/ ExtensionCrashes
  <2>1. /\ wants' = wants /\ late' = NoFrame /\ ext' = NewEngine
        /\ UNCHANGED <<extLane, extFresh>> /\ step' = "idle" /\ req' = 0
    BY <1>9, <1>r DEF ExtensionExits, ExtensionCrashes, ExtensionGone
  <2>2. late' = late /\ ext'.att = 0
    BY <1>g, <2>1 DEF NewEngine
  <2> QED
    BY <1>r, <2>1, <2>2, GoneKept DEF Informs
<1> QED
  BY <1>1, <1>2, <1>3, <1>4, <1>5, <1>6, <1>7, <1>8, <1>9

\* Whoever deletes the journal in the Extension publishes the cleanup at once.
LEMMA DeletionInforms ==
  ASSUME ReleaseInv, StopInv, LateInv, ExtensionStep,
         journal.phase # "Missing", ui.att # 0, journal'.phase = "Missing"
  PROVE  GoneInv'
<1>i. /\ HandlerInv /\ StageInv /\ ServeInv /\ HeldInv /\ RequestInv
      /\ UiInv /\ ExtInv /\ ext \in Engine /\ journal.att = issued /\ issued # 0
  BY DEF ReleaseInv, IInv, ExtInv, AbilityInv, StopInv, RequestInv, IdsInv, Current
<1>s. ExtSynced \in Engine
  BY <1>i, ExtSyncedFollows
<1>u. issued' = issued
  BY ExtLeavesUi
<1>q. ASSUME extLane' = Frame(ext'), extFresh' = TRUE, ext'.att = issued, ext'.clean,
             Ended(ext'), late' = NoFrame, issued \notin wants', step' \notin {"bind", "throw"},
             req' = issued => step' \notin {"idle", "wait"} /\ req' = cur',
             step' = "wait" => cur' # issued
      PROVE  GoneInv'
  <2>1. extLane'.att = issued' /\ Final(extLane)' /\ Final(ext)'
    BY <1>u, <1>q, FrameKeeps DEF Final, Ended
  <2> QED
    BY <1>u, <1>q, <2>1 DEF GoneInv
<1>1. journal' = NoJournal /\ journal' # journal /\ (HandlerCatches \/ CleanupAck)
  BY ExtJournal DEF NoJournal
<1>2. CASE HandlerCatches
  <2>1. step = "throw" /\ Newest /\ act # cur /\ FailUnattached(ExtSynced, cur) /\ HandlerEnds
        /\ UNCHANGED <<late, wants>>
    BY <1>1, <1>2 DEF HandlerCatches, procVars
  <2>2. /\ ExtSynced.att = cur /\ ExtSynced.out = "Pending" /\ journal.att = cur
        /\ ExtPublish([Fail(ExtSynced) EXCEPT !.clean = TRUE, !.lease = 0])
    BY <1>1, <2>1 DEF FailUnattached
  <2>3. /\ ext' = [Fail(ExtSynced) EXCEPT !.clean = TRUE, !.lease = 0]
        /\ extLane' = Frame(ext') /\ extFresh' = TRUE
    BY <2>2 DEF ExtPublish
  <2>4. Fail(ExtSynced) \in Engine /\ Fail(ExtSynced).att = cur /\ Fail(ExtSynced).out = "Failed"
    BY <1>s, <2>2, FailFollows, FailFields
  <2>5. ext'.att = cur /\ ext'.clean = TRUE /\ ext'.out = "Failed"
    BY <2>3, <2>4 DEF Engine
  <2>6. step' = "idle" /\ req' = 0
    BY <2>1 DEF HandlerEnds
  <2>7. late = NoFrame /\ issued \notin wants
    BY <1>i, <2>1, <2>2 DEF LateInv, ServeInv
  <2> QED
    BY <1>i, <1>q, <2>1, <2>2, <2>3, <2>5, <2>6, <2>7 DEF Ended, Terminal
<1>3. CASE CleanupAck
  <2>1. /\ ability # "absent" /\ cleanup.stage = "ack" /\ CanAcknowledge(ExtSynced)
        /\ ext' = CleanedUp(ExtSynced) /\ extLane' = Frame(ext') /\ extFresh' = TRUE
        /\ UNCHANGED <<late, wants, step, cur, req>>
    BY <1>1, <1>3 DEF CleanupAck, ExtPublish, procVars, handlerVars
  <2>2. cleanup.att = issued /\ act = 0 /\ late = NoFrame
    BY <1>i, <2>1, HeldIsCurrent DEF StageInv, LateInv
  <2>3. ExtSynced.att = issued /\ Ended(ExtSynced)
    BY <2>1, <2>2 DEF CanAcknowledge
  <2>4. ext'.att = issued /\ ext'.clean = TRUE /\ ext'.out = ExtSynced.out
    BY <1>s, <2>1, <2>3 DEF CleanedUp, Engine
  <2>5. Served(issued)
    BY <1>i, <2>1, <2>2 DEF Served
  <2>6. step \notin {"bind", "throw"} /\ issued \notin wants /\ (step = "wait" => cur # issued)
    BY <1>i, <2>1, <2>5 DEF StageInv, ServeInv
  <2>7. ASSUME req = issued PROVE step \notin {"idle", "wait"} /\ req = cur
    <3>1. step \notin {"idle", "wait"}
      BY <1>i, <2>5, <2>7 DEF ServeInv
    <3>2. ability = "up"
      BY <1>i, <2>1, <2>7 DEF ServeInv, HandlerInv
    <3>3. step \notin Serving
      BY <1>i, <2>2, <3>2 DEF StageInv, HandlerInv, Serving
    <3>4. step = "closing"
      BY <1>i, <2>6, <3>1, <3>3 DEF HandlerInv, Serving
    <3> QED
      BY <1>i, <2>1, <2>2, <2>7, <3>1, <3>4 DEF StageInv
  <2> QED
    BY <1>q, <2>1, <2>2, <2>3, <2>4, <2>6, <2>7 DEF Ended
<1> QED
  BY <1>1, <1>2, <1>3

LEMMA ExtKeepsGone ==
  ASSUME ReleaseInv, StopInv, LateInv, GoneInv, ExtensionStep
  PROVE  GoneInv'
<1>u. UNCHANGED <<ui, issued, jsStop>>
  BY ExtLeavesUi
<1>1. CASE Undecided
  BY <1>u, <1>1, RequestsKeepGone, RestKeepsGone DEF ExtensionStep, HandlerStep
<1>2. CASE ~Undecided /\ Undecided'
  <2>1. journal.phase # "Missing" /\ ui.att # 0 /\ journal'.phase = "Missing"
    BY <1>u, <1>2 DEF Undecided, Ended
  <2> QED
    BY <2>1, DeletionInforms
<1>3. CASE ~Undecided'
  BY <1>3 DEF GoneInv
<1> QED
  BY <1>1, <1>2, <1>3

LEMMA NextKeepsGone ==
  ASSUME ReleaseInv, StopInv, LateInv, GoneInv, [Next]_vars
  PROVE  GoneInv'
<1>1. CASE UiStep \/ PluginStep
  BY <1>1, UiKeepsGone DEF ReleaseInv
<1>2. CASE ExtensionStep
  BY <1>2, ExtKeepsGone
<1>3. CASE UNCHANGED vars
  <2>1. UNCHANGED <<ui, issued, jsStop, journal, ext, extLane, extFresh, late, step, cur, req, wants>>
    BY <1>3 DEF vars, uiVars, extVars, sharedVars, shellVars, abilityVars, procVars, handlerVars
  <2> QED
    BY <2>1 DEF GoneInv, Undecided, Final, Ended
<1> QED
  BY <1>1, <1>2, <1>3 DEF Next

-----------------------------------------------------------------------------
(* The stop                                                                *)

ClaimInv == ReleaseInv /\ StopInv /\ LateInv /\ GoneInv

LEMMA InitClaims == ASSUME NoQuit, Init PROVE ClaimInv
<1>1. ReleaseInv
  BY InitReleases
<1>2. NewEngine.att = 0 /\ NoFrame.att = 0 /\ NewEngine.native = "none" /\ NewEngine.life = "Disconnected"
      /\ NewEngine.run = FALSE /\ NoFrame.run = FALSE /\ NewEngine.out = "Idle"
  BY DEF NewEngine, NoFrame, Frame
<1>3. FrameInv
  BY <1>2 DEF Init, FrameInv, Shown, Sound, Vital, Ended, NoCleanup
<1>4. ForeignInv
  BY <1>2 DEF Init, ForeignInv, Heard, Claimed
<1>5. chain = <<>> /\ Len(chain) = 0
  BY DEF Init
<1>6. RequestInv
  BY <1>2, <1>5 DEF Init, RequestInv, IdsInv, OrderInv, FenceInv, Unowned, NoOp, NoFence, NoJournal
<1>7. TaskInv
  BY <1>2, <1>5 DEF Init, TaskInv, Waiting, Stopping, Stops, NoOp, NoFence, Calm
<1>8. LateInv /\ GoneInv
  BY <1>2 DEF Init, LateInv, GoneInv, Undecided
<1> QED
  BY <1>1, <1>3, <1>4, <1>6, <1>7, <1>8 DEF ClaimInv, StopInv

LEMMA NextKeepsClaims == ASSUME ClaimInv, [Next]_vars PROVE ClaimInv'
<1>1. ReleaseInv'
  BY NextKeepsReleases DEF ClaimInv
<1>2. StopInv'
  BY <1>1, NextKeepsStop DEF ClaimInv
<1> QED
  BY <1>1, <1>2, NextKeepsLate, NextKeepsGone DEF ClaimInv

\* The joint invariant of the stop accounts: what the UI shows and the lanes carry
\* of an attempt, which stops are under way and for whom, and who still has to learn
\* that the journal is gone.
THEOREM ClaimHolds == NoQuit /\ Spec => []ClaimInv
<1>1. NoQuit /\ Init => ClaimInv
  BY InitClaims
<1>2. ClaimInv /\ [Next]_vars => ClaimInv'
  BY NextKeepsClaims
<1> QED
  BY <1>1, <1>2, PTL DEF Spec

\* The stop of a connected session is never refused: no fence, journal or engine
\* state left by an earlier start or stop contradicts it, whatever the Extension
\* does while the request is on its way to the plugin.
THEOREM StopClaimable == NoQuit /\ Spec => []StopIsClaimable
<1>1. ClaimInv => StopIsClaimable
  <2> SUFFICES ASSUME ClaimInv, jsStop
               PROVE  ~fence.busy /\ ~ClaimConflict(UiSynced)
    BY DEF StopIsClaimable
  <2>i. /\ UiInv /\ ExtInv /\ FrameInv /\ RequestInv /\ IdsInv /\ FenceInv /\ TaskInv /\ GoneInv
    BY DEF ClaimInv, ReleaseInv, IInv, StopInv, RequestInv
  <2>s. /\ UiSynced.att = ui.att /\ (Ended(ui) => Ended(UiSynced))
        /\ UiMatch /\ Ended(extLane) => UiSynced.clean = extLane.clean
        /\ ~UiMatch => UiSynced = ui
    BY <2>i, SyncedShown
  <2>1. ~fence.busy
    BY <2>i DEF TaskInv, Stopping
  <2>2. CASE journal.phase # "Missing"
    <3>1. journal.att = issued /\ issued # 0 /\ ui.att \in {0, issued}
      BY <2>i, <2>2 DEF IdsInv, Current
    <3>2. fence.epoch # 0 => fence.att = journal.att
      BY <2>i, <2>2 DEF FenceInv
    <3> QED
      BY <2>s, <2>1, <2>2, <3>1, <3>2 DEF ClaimConflict, Owes
  <2>3. CASE journal.phase = "Missing" /\ ui.att # 0
    <3>1. Undecided /\ ui.att = issued
      BY <2>i, <2>3 DEF Undecided, IdsInv
    <3>2. ui.clean \/ (extFresh /\ extLane.att = issued)
      BY <2>i, <3>1 DEF GoneInv
    <3>3. UiMatch => extLane.clean /\ Ended(extLane)
      BY <2>i, <3>1 DEF GoneInv, UiMatch, Final
    <3>4. UiSynced.clean
      BY <2>s, <2>3, <3>1, <3>2, <3>3 DEF UiMatch
    <3> QED
      BY <2>1, <2>3, <3>4 DEF ClaimConflict, Owes
  <2>4. CASE journal.phase = "Missing" /\ ui.att = 0
    BY <2>s, <2>1, <2>4 DEF ClaimConflict, Owes
  <2> QED
    BY <2>2, <2>3, <2>4
<1> QED
  BY <1>1, ClaimHolds, PTL
=============================================================================
