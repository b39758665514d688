----------------------- MODULE PlatformSession_proofs -----------------------
(***************************************************************************)
(* The session keeps its type, a terminal outcome sticks to its attempt in *)
(* both engines, and a tunnel that carries packets is owned, for any       *)
(* number of connects and of Extension processes and under every fault.    *)
(*                                                                         *)
(* Type correctness needs a count: a connect leads to at most one start    *)
(* attempt, because a start request that has not settled is joined and not *)
(* queued again (OneStart, StartsCounted).  That an outcome sticks needs   *)
(* that an engine without an attempt has none to lose (UiIdle, ExtIdle):   *)
(* it is such an engine that prepare_connect and a new process begin with. *)
(* That a running session is owned needs the same of every handler and     *)
(* native job that may yet make one run (OwnerInv).                        *)
(*                                                                         *)
(* The invariant has a part for each group of variables, and a lemma shows *)
(* for each part that every step preserves it.                             *)
(***************************************************************************)
EXTENDS PlatformSession, TLAPS

UiIdle(x)  == x.att = 0 => x.out = "Idle" /\ x.life # "Connected"
ExtIdle(x) == x.att = 0 => x.out = "Idle" /\ x.life = "Disconnected"

\* An update of an engine that stays with its attempt keeps a terminal outcome.
Follows(x, y) == y.att = x.att /\ (Ended(x) => Ended(y))

-----------------------------------------------------------------------------
(* The operations of the engine                                            *)

LEMMA NewEngineTyped == NewEngine \in Engine
BY DEF NewEngine, Engine, Outcomes, Lifecycles

LEMMA FrameTyped == ASSUME NEW x \in Engine PROVE Frame(x) \in FrameOf
BY DEF Frame, FrameOf, Engine

LEMMA NoFrameTyped == NoFrame \in FrameOf
BY NewEngineTyped, FrameTyped DEF NoFrame

LEMMA LifeTyped ==
  ASSUME NEW x \in Engine, NEW f, NEW r, NEW s
  PROVE  LifeAfter(x, f, r, s) \in Lifecycles
BY DEF LifeAfter, Engine, Lifecycles

LEMMA SettleFollows ==
  ASSUME NEW x \in Engine, NEW f \in FrameOf
  PROVE  Settle(x, f) \in Engine /\ Follows(x, Settle(x, f))
<1>1. CASE f.out \in Terminal
  BY <1>1 DEF Settle, Engine, FrameOf, Follows, Ended
<1>2. CASE f.out \notin Terminal /\ Ended(x)
  BY <1>2 DEF Settle, Follows
<1>3. CASE f.out \notin Terminal /\ ~Ended(x)
  <2> DEFINE o == IF f.run /\ x.out = "Pending" THEN "Connected" ELSE x.out
  <2>1. o \in Outcomes
    BY DEF Outcomes, Engine
  <2>2. Settle(x, f) = [x EXCEPT !.run = f.run, !.start = ~f.run /\ f.start, !.clean = FALSE,
                                 !.out = o]
    BY <1>3 DEF Settle
  <2>3. f.run \in BOOLEAN /\ (~f.run /\ f.start) \in BOOLEAN
    BY DEF FrameOf
  <2> HIDE DEF o
  <2> DEFINE r == ~f.run /\ f.start
  <2>4. r \in BOOLEAN /\ Settle(x, f) = [x EXCEPT !.run = f.run, !.start = r, !.clean = FALSE,
                                                  !.out = o]
    BY <2>2, <2>3
  <2> HIDE DEF r
  <2>5. Settle(x, f) \in Engine
    BY <2>1, <2>3, <2>4 DEF Engine
  <2>6. Settle(x, f).att = x.att
    BY <2>4 DEF Engine
  <2> QED
    BY <1>3, <2>5, <2>6 DEF Follows
<1> QED
  BY <1>1, <1>2, <1>3

LEMMA ApplyFollows ==
  ASSUME NEW x \in Engine, NEW f \in FrameOf, NEW b \in BOOLEAN
  PROVE  Apply(x, f, b) \in Engine /\ Follows(x, Apply(x, f, b))
<1> DEFINE z == Settle(x, f)
           n == IF b /\ (f.attd \/ f.run \/ f.out \in Terminal) THEN "none" ELSE z.native
           w == IF b THEN f.own ELSE z.own
           d == IF f.out \in Terminal THEN f.attd ELSE z.attd \/ f.attd
           y == [z EXCEPT !.native = n, !.stop = z.stop \/ f.stop, !.own = w, !.attd = d]
           r == f.out \notin Terminal /\ (y.native = "running" \/ y.run)
           o == IF ~r /\ y.out = "Pending" /\ f.life = "Failed" THEN "Failed" ELSE y.out
           l == LifeAfter(x, f, r, y.start)
           g == IF y.clean THEN 0 ELSE y.lease
<1>1. z \in Engine /\ Follows(x, z)
  BY SettleFollows
<1>2. n \in {"none", "pending", "running", "foreign"} /\ w \in Nat
  BY <1>1 DEF Engine, FrameOf
<1>3. d \in BOOLEAN /\ (z.stop \/ f.stop) \in BOOLEAN
  BY <1>1 DEF Engine, FrameOf
<1>4. y \in Engine /\ y.out = z.out /\ y.att = z.att
  <2> HIDE DEF z, n, w, d
  <2> QED
    BY <1>1, <1>2, <1>3 DEF Engine
<1>5. o \in Outcomes /\ g \in Nat /\ (y.out \in Terminal => o = y.out)
  <2> HIDE DEF y, r
  <2> QED
    BY <1>4 DEF Outcomes, Terminal, Engine
<1>6. l \in Lifecycles
  BY LifeTyped
<1>7. Apply(x, f, b) = [y EXCEPT !.out = o, !.life = l, !.lease = g]
  BY DEF Apply
<1> HIDE DEF y, o, l, g, z
<1> QED
  BY <1>1, <1>4, <1>5, <1>6, <1>7 DEF Engine, Follows, Ended

LEMMA AdoptTyped ==
  ASSUME NEW x \in Engine, NEW f \in FrameOf
  PROVE  Adopt(x, f) \in Engine /\ Adopt(x, f).att = f.att
<1> DEFINE n == IF x.native = "running" THEN "foreign" ELSE x.native
           y == [x EXCEPT !.att = f.att, !.out = f.out, !.attd = f.attd, !.stop = f.stop,
                          !.own = f.own, !.clean = f.clean, !.native = n]
<1>1. n \in {"none", "pending", "running", "foreign"}
  BY DEF Engine
<1>2. y \in Engine /\ y.att = f.att
  <2> HIDE DEF n
  <2> QED
    BY <1>1 DEF Engine, FrameOf
<1>3. Adopt(x, f) = IF f.start /\ f.out = "Pending"
                    THEN [y EXCEPT !.start = TRUE, !.run = FALSE, !.life = "Establishing"] ELSE y
  BY DEF Adopt
<1>4. "Establishing" \in Lifecycles
  BY DEF Lifecycles
<1> HIDE DEF y
<1> DEFINE z == [y EXCEPT !.start = TRUE, !.run = FALSE, !.life = "Establishing"]
<1>5. z \in Engine
  BY <1>2, <1>4 DEF Engine
<1>6. z.att = y.att
  BY <1>2 DEF Engine
<1> HIDE DEF z
<1>7. Adopt(x, f) \in {y, z}
  BY <1>3 DEF z
<1> QED
  BY <1>2, <1>5, <1>6, <1>7

\* The UI engine.
LEMMA PrepareFollows ==
  ASSUME NEW x \in Engine
  PROVE  /\ PrepareConnect(x) \in Engine
         /\ PrepareConnect(x).att = 0 /\ UiIdle(PrepareConnect(x))
         /\ PrepareReady(x) \in Engine /\ Follows(x, PrepareReady(x))
         /\ PrepareRejected(x) \in Engine /\ Follows(x, PrepareRejected(x))
         /\ UiIdle(x) => UiIdle(PrepareReady(x)) /\ UiIdle(PrepareRejected(x))
<1>1. /\ PrepareConnect(x) \in Engine /\ PrepareConnect(x).att = 0
      /\ PrepareConnect(x).out = "Idle" /\ PrepareConnect(x).life = "Connecting"
  BY DEF PrepareConnect, Engine, Outcomes, Lifecycles
<1>2. /\ PrepareReady(x) \in Engine /\ PrepareReady(x).att = x.att
      /\ PrepareReady(x).out = x.out /\ PrepareReady(x).life = "Establishing"
  BY DEF PrepareReady, Engine, Lifecycles
<1>3. /\ PrepareRejected(x) \in Engine /\ PrepareRejected(x).att = x.att
      /\ PrepareRejected(x).out = x.out /\ PrepareRejected(x).life = "Failed"
  BY DEF PrepareRejected, Engine, Lifecycles
<1> QED
  BY <1>1, <1>2, <1>3 DEF UiIdle, Follows, Ended

LEMMA BeginTyped ==
  ASSUME NEW x \in Engine, NEW a \in Nat
  PROVE  BeginStart(x, a) \in Engine /\ BeginStart(x, a).att = a
BY DEF BeginStart, Engine, Outcomes, Lifecycles

LEMMA ClaimFollows ==
  ASSUME NEW x \in Engine
  PROVE  ClaimStop(x) \in Engine /\ Follows(x, ClaimStop(x))
BY DEF ClaimStop, Engine, Outcomes, Follows, Ended, Terminal

LEMMA OwnerFailedFollows ==
  ASSUME NEW x \in Engine
  PROVE  OwnerFailed(x) \in Engine /\ Follows(x, OwnerFailed(x))
BY DEF OwnerFailed, Engine, Outcomes, Lifecycles, Follows, Ended, Terminal

LEMMA RecoveredFollows ==
  ASSUME NEW x \in Engine
  PROVE  Recovered(x) \in Engine /\ Follows(x, Recovered(x))
<1> DEFINE o == IF x.out = "Failed" THEN x.out ELSE "Cancelled"
           l == IF x.out = "Failed" THEN x.life ELSE "Disconnected"
<1>1. o \in Outcomes /\ o \in Terminal /\ l \in Lifecycles
  BY DEF Engine, Outcomes, Terminal, Lifecycles
<1>2. Recovered(x) = [x EXCEPT !.start = FALSE, !.run = FALSE, !.clean = TRUE, !.attd = FALSE,
                               !.stop = TRUE, !.own = 0, !.lease = 0, !.out = o, !.life = l]
  BY DEF Recovered
<1> DEFINE y == [x EXCEPT !.start = FALSE, !.run = FALSE, !.clean = TRUE, !.attd = FALSE,
                          !.stop = TRUE]
<1>3. y \in Engine /\ y.att = x.att
  BY DEF Engine
<1>4. Recovered(x) = [y EXCEPT !.own = 0, !.lease = 0, !.out = o, !.life = l]
  <2> HIDE DEF o, l
  <2> QED
    BY <1>2 DEF Engine
<1> HIDE DEF o, l, y
<1> DEFINE z == [y EXCEPT !.own = 0, !.lease = 0]
<1>z. z \in Engine
  BY <1>3 DEF Engine
<1>r. Recovered(x) = [z EXCEPT !.out = o, !.life = l]
  BY <1>3, <1>4 DEF Engine
<1> HIDE DEF z
<1>5. Recovered(x) \in Engine
  BY <1>1, <1>z, <1>r DEF Engine
<1>6. Recovered(x).att = x.att /\ Recovered(x).out = o
  BY <1>3, <1>4 DEF Engine
<1> QED
  BY <1>1, <1>5, <1>6 DEF Follows, Ended

\* Both engines.
LEMMA FailFollows ==
  ASSUME NEW x \in Engine
  PROVE  Fail(x) \in Engine /\ Follows(x, Fail(x))
<1> DEFINE o == IF x.out = "Pending" THEN "Failed" ELSE x.out
<1>1. o \in Outcomes /\ (Ended(x) => o \in Terminal)
  BY DEF Engine, Outcomes, Terminal, Ended
<1>2. Fail(x) = [x EXCEPT !.start = FALSE, !.run = FALSE, !.hand = FALSE, !.native = "none",
                          !.out = o, !.life = "Failed"]
  BY DEF Fail
<1> HIDE DEF o
<1> QED
  BY <1>1, <1>2 DEF Engine, Lifecycles, Follows, Ended

LEMMA DisconnectFollows ==
  ASSUME NEW x \in Engine
  PROVE  /\ Disconnecting(x) \in Engine /\ Follows(x, Disconnecting(x))
         /\ Disconnected(x) \in Engine /\ Follows(x, Disconnected(x))
         /\ Disconnected(x).out = x.out /\ Disconnected(x).life = "Disconnected"
<1> DEFINE o == IF x.out = "Failed" THEN x.out ELSE "Cancelled"
<1>1. o \in Outcomes /\ o \in Terminal
  BY DEF Engine, Outcomes, Terminal
<1>2. Disconnecting(x) = [x EXCEPT !.start = FALSE, !.run = FALSE, !.stop = TRUE, !.native = "none",
                                   !.out = o, !.life = "Disconnecting"]
  BY DEF Disconnecting
<1>3. Disconnecting(x) \in Engine /\ Follows(x, Disconnecting(x))
  <2> HIDE DEF o
  <2> QED
    BY <1>1, <1>2 DEF Engine, Lifecycles, Follows, Ended
<1> QED
  BY <1>3 DEF Disconnected, Engine, Lifecycles, Follows, Ended

\* The Extension engine.
LEMMA ReopenFollows ==
  ASSUME NEW x \in Engine
  PROVE  Reopen(x) \in Engine /\ Follows(x, Reopen(x))
<1> DEFINE y == [x EXCEPT !.out = "Pending", !.start = TRUE, !.run = FALSE, !.clean = FALSE]
<1>1. y \in Engine /\ y.att = x.att
  BY DEF Engine, Outcomes
<1>2. Reopen(x) = x \/ (x.out = "Connected" /\ Reopen(x) = y)
  BY DEF Reopen
<1> HIDE DEF y
<1> QED
  BY <1>1, <1>2 DEF Follows, Ended, Terminal

LEMMA BoundFollows ==
  ASSUME NEW x \in Engine, NEW p \in Nat
  PROVE  Bound(x, p) \in Engine /\ Follows(x, Bound(x, p))
<1> DEFINE c == IF x.attd THEN x.clean ELSE FALSE
<1>1. c \in BOOLEAN
  BY DEF Engine
<1>2. Bound(x, p) = [x EXCEPT !.lease = x.att, !.own = p, !.attd = TRUE, !.clean = c]
  BY DEF Bound
<1> HIDE DEF c
<1> QED
  BY <1>1, <1>2 DEF Engine, Follows, Ended

LEMMA StartingFollows ==
  ASSUME NEW x \in Engine
  PROVE  /\ Starting(x) \in Engine /\ Follows(x, Starting(x))
         /\ Prepared(x) \in Engine /\ Follows(x, Prepared(x))
BY DEF Starting, Prepared, Engine, Lifecycles, Follows, Ended

LEMMA RunningFollows ==
  ASSUME NEW x \in Engine
  PROVE  Running(x) \in Engine /\ Follows(x, Running(x))
<1> DEFINE o == IF x.out = "Pending" THEN "Connected" ELSE x.out
<1>1. o \in Outcomes /\ (Ended(x) => o \in Terminal)
  BY DEF Engine, Outcomes, Terminal, Ended
<1>2. Running(x) = [x EXCEPT !.native = "running", !.run = TRUE, !.start = FALSE,
                             !.life = "Connected", !.out = o]
  BY DEF Running
<1> HIDE DEF o
<1> QED
  BY <1>1, <1>2 DEF Engine, Lifecycles, Follows, Ended

LEMMA StopOrphanFollows ==
  ASSUME NEW x \in Engine
  PROVE  /\ StopOrphan(x) \in Engine /\ Follows(x, StopOrphan(x))
         /\ StopOrphan(x).out = x.out /\ StopOrphan(x).life = x.life
BY DEF StopOrphan, Engine, Follows, Ended

LEMMA NativeEndedFollows ==
  ASSUME NEW x \in Engine, NEW failed \in BOOLEAN
  PROVE  /\ NativeEnded(x, failed) \in Engine /\ Follows(x, NativeEnded(x, failed))
         /\ x.life = "Disconnected" => NativeEnded(x, failed).out = x.out /\ NativeEnded(x, failed).life = x.life
<1> DEFINE s == x.life \in {"Disconnected", "Disconnecting", "Failed"} \/ Ended(x)
           v == failed \/ (x.run /\ x.out = "Connected")
           o == IF s THEN x.out ELSE IF v THEN "Failed"
                ELSE IF x.out = "Pending" THEN "Cancelled" ELSE x.out
           l == IF s THEN x.life ELSE IF v THEN "Failed" ELSE "Disconnected"
<1>1. /\ o \in Outcomes /\ l \in Lifecycles /\ (Ended(x) => o \in Terminal)
      /\ x.life = "Disconnected" => o = x.out /\ l = x.life
  BY DEF Engine, Outcomes, Lifecycles, Terminal, Ended
<1>2. NativeEnded(x, failed) = [x EXCEPT !.native = "none", !.run = FALSE, !.start = FALSE,
                                 !.out = o, !.life = l]
  BY DEF NativeEnded
<1> HIDE DEF o, l, v, s
<1>3. NativeEnded(x, failed) \in Engine
  BY <1>1, <1>2 DEF Engine
<1>4. NativeEnded(x, failed).att = x.att /\ NativeEnded(x, failed).out = o /\ NativeEnded(x, failed).life = l
  BY <1>2 DEF Engine
<1> QED
  BY <1>1, <1>3, <1>4 DEF Follows, Ended

LEMMA CleanedUpFollows ==
  ASSUME NEW x \in Engine
  PROVE  /\ CleanedUp(x) \in Engine /\ Follows(x, CleanedUp(x))
         /\ CleanedUp(x).out = x.out /\ CleanedUp(x).life = x.life
BY DEF CleanedUp, Engine, Follows, Ended

-----------------------------------------------------------------------------
(* The invariant                                                           *)

UiInv ==
  /\ ui \in Engine /\ uiLane \in FrameOf /\ uiFresh \in BOOLEAN
  /\ issued \in Nat /\ ui.att <= issued
  /\ uiTask \in {"none", "auth", "disconnect", "closing"}
  /\ UiIdle(ui)
  /\ uiTask = "disconnect" => ui.att # 0

ExtInv ==
  /\ ext \in Engine /\ extLane \in FrameOf /\ late \in FrameOf /\ extFresh \in BOOLEAN
  /\ job \in {"none", "prepare", "attach", "stale"}
  /\ ExtIdle(ext)
  /\ job = "prepare" => ext.att # 0

Request == [kind : {"none", "start", "stop"}, epoch : Nat, att : Attempts \cup {0},
            stage : {"none", "begin", "sent", "await", "request", "coop", "os",
                     "confirm", "recover"}, done : BOOLEAN]

\* Only a stop that has an attempt to recover reaches its recovery.
WellFormed(r) ==
  /\ r.kind = "stop" /\ r.att = 0 => r.done
  /\ r.stage = "recover" => r.att # 0

PluginTyped ==
  /\ taps \in 0 .. MaxConnect /\ issued \in 0 .. taps
  /\ uiTask \in {"none", "auth", "disconnect", "closing"} /\ jsStop \in BOOLEAN
  /\ epoch \in Nat
  /\ fence \in [epoch : Nat, att : Attempts \cup {0}, busy : BOOLEAN]
  /\ op \in Request /\ WellFormed(op)
  /\ chain \in Seq(Request) /\ \A i \in 1 .. Len(chain) : WellFormed(chain[i])

\* A start request is joined until it has settled.
OneStart ==
  \A i \in 1 .. Len(chain) :
    chain[i].kind = "start" =>
      /\ op.kind # "start"
      /\ \A j \in 1 .. Len(chain) : chain[j].kind = "start" => j = i

\* A connect that no attempt was issued for yet.
Waiting == \/ op.kind = "start" /\ op.stage = "begin"
           \/ \E i \in 1 .. Len(chain) : chain[i].kind = "start"

StartsCounted ==
  /\ Waiting => issued < taps
  /\ uiTask = "auth" => issued < taps
  /\ Waiting /\ uiTask = "auth" => issued + 1 < taps

PluginInv == PluginTyped /\ OneStart /\ StartsCounted

JournalInv ==
  journal \in [phase : {"Missing", "Pending", "Attached", "Stopping"},
               att : Attempts \cup {0}, ext : 0 .. MaxInc]

HandlerInv ==
  /\ ability \in {"absent", "up", "destroyed"} /\ inc \in 0 .. MaxInc
  /\ wants \subseteq Attempts
  /\ step \in {"idle", "wait", "bind", "begin", "prepare", "prepared", "create",
               "attach", "check", "throw", "closing"}
  /\ cur \in Attempts \cup {0} /\ req \in Attempts \cup {0} /\ act \in Attempts \cup {0}
  /\ tun \in BOOLEAN
  /\ conn \in {"none", "creating", "open"}
  /\ cleanup \in [stage : {"none", "stop", "join", "wait", "ack", "failed"},
                  att : Attempts \cup {0}]
  /\ step # "idle" => cur # 0

IInv == UiInv /\ ExtInv /\ PluginInv /\ JournalInv /\ HandlerInv

LEMMA InitEstablishes == ASSUME Init PROVE IInv
<1>1. NewEngine \in Engine /\ NoFrame \in FrameOf
  BY NewEngineTyped, NoFrameTyped
<1>2. NewEngine.att = 0 /\ UiIdle(NewEngine) /\ ExtIdle(NewEngine)
  BY DEF NewEngine, UiIdle, ExtIdle
<1>b. uiFresh \in BOOLEAN /\ extFresh \in BOOLEAN /\ jsStop \in BOOLEAN /\ tun \in BOOLEAN
  BY Zenon DEF Init
<1>3. UiInv
  <2>1. ui = NewEngine /\ uiLane = NoFrame /\ issued = 0 /\ uiTask = "none"
    BY DEF Init
  <2> QED
    BY <1>1, <1>2, <1>b, <2>1 DEF UiInv
<1>4. ExtInv
  BY <1>1, <1>2 DEF Init, ExtInv
<1>5. NoOp \in Request /\ WellFormed(NoOp) /\ NoOp.kind = "none"
  BY DEF NoOp, Request, WellFormed
<1>6. PluginTyped
  <2>1. NoFence \in [epoch : Nat, att : Attempts \cup {0}, busy : BOOLEAN]
    BY DEF NoFence
  <2>2. chain \in Seq(Request) /\ Len(chain) = 0
    BY DEF Init
  <2>3. /\ issued = 0 /\ taps = 0 /\ uiTask = "none"
        /\ epoch = 0 /\ fence = NoFence /\ op = NoOp
    BY DEF Init
  <2> QED
    BY <1>5, <1>b, <2>1, <2>2, <2>3, SessionBounds DEF PluginTyped
<1>7. OneStart /\ StartsCounted
  <2>1. Len(chain) = 0 /\ op.kind = "none" /\ uiTask = "none"
    BY <1>5 DEF Init
  <2> QED
    BY <2>1 DEF OneStart, StartsCounted, Waiting
<1>8. JournalInv
  BY SessionBounds DEF Init, JournalInv, NoJournal
<1>9. HandlerInv
  <2>1. NoCleanup \in [stage : {"none", "stop", "join", "wait", "ack", "failed"},
                       att : Attempts \cup {0}]
    BY DEF NoCleanup
  <2>2. /\ ability = "absent" /\ inc = 0 /\ wants = {} /\ step = "idle" /\ cur = 0
        /\ req = 0 /\ act = 0 /\ conn = "none" /\ cleanup = NoCleanup
    BY DEF Init
  <2> QED
    BY <1>b, <2>1, <2>2, SessionBounds DEF HandlerInv
<1> QED
  BY <1>3, <1>4, <1>6, <1>7, <1>8, <1>9 DEF IInv, PluginInv

LEMMA InvariantTyped == ASSUME IInv PROVE TypeOK
<1>1. UiInv /\ ExtInv /\ PluginTyped /\ JournalInv /\ HandlerInv
  BY DEF IInv, PluginInv
<1>2. {cur, req, act} \subseteq Attempts \cup {0}
  BY <1>1 DEF HandlerInv
<1> QED
  BY <1>1, <1>2 DEF TypeOK, UiInv, ExtInv, PluginTyped, JournalInv, HandlerInv, Request

-----------------------------------------------------------------------------
(* The UI engine                                                           *)

LEMMA UiSyncedFollows ==
  ASSUME UiInv, ExtInv
  PROVE  UiSynced \in Engine /\ Follows(ui, UiSynced) /\ UiIdle(UiSynced)
<1>1. CASE UiMatch
  <2>1. UiSynced = Apply(ui, extLane, TRUE)
    BY <1>1 DEF UiSynced
  <2>2. UiSynced \in Engine /\ Follows(ui, UiSynced)
    BY <2>1, ApplyFollows DEF UiInv, ExtInv
  <2> QED
    BY <1>1, <2>2 DEF UiMatch, UiIdle, Follows
<1>2. CASE ~UiMatch
  BY <1>2 DEF UiSynced, UiInv, Follows
<1> QED
  BY <1>1, <1>2

\* What a step may do to the UI engine.
UiKept == UiInv' /\ (Ended(ui) => Ended(ui') \/ ui'.att # ui.att)

\* The engine follows its attempt.
LEMMA UiUpdate ==
  ASSUME UiInv, NEW y \in Engine, Follows(ui, y), UiIdle(y),
         UiPublish(y) \/ (ui' = y /\ uiLane' = uiLane /\ uiFresh' \in BOOLEAN),
         issued' = issued, uiTask' \in {uiTask, "none", "closing"}
  PROVE  UiKept
<1>1. ui' = y /\ uiLane' \in FrameOf /\ uiFresh' \in BOOLEAN
  BY FrameTyped DEF UiPublish, UiInv
<1>2. y.att = ui.att /\ (Ended(ui) => Ended(y))
  BY DEF Follows
<1> QED
  BY <1>1, <1>2 DEF UiKept, UiInv

LEMMA UiStays ==
  ASSUME UiInv, UNCHANGED <<ui, uiLane, issued>>, uiFresh' \in BOOLEAN,
         uiTask' \in {uiTask, "none", "closing"}
  PROVE  UiKept
BY DEF UiKept, UiInv

LEMMA ConnectKeepsUi ==
  ASSUME IInv, Connect \/ Authenticated \/ AuthFailed \/ Disconnect
  PROVE  UiKept
<1>i. UiInv /\ ui \in Engine
  BY DEF IInv, UiInv
<1>1. CASE Connect
  <2>1. PrepareConnect(ui) \in Engine /\ PrepareConnect(ui).att = 0 /\ UiIdle(PrepareConnect(ui))
    BY <1>i, PrepareFollows
  <2>2. /\ ui' = PrepareConnect(ui) /\ uiLane' = Frame(PrepareConnect(ui)) /\ uiFresh' = TRUE
        /\ issued' = issued /\ uiTask' = "auth"
    BY <1>1 DEF Connect, UiPublish, sharedVars
  <2>3. Ended(ui) => ui.att # 0
    BY <1>i DEF UiInv, UiIdle, Ended, Terminal
  <2> QED
    BY <1>i, <2>1, <2>2, <2>3, FrameTyped DEF UiKept, UiInv
<1>2. CASE Authenticated
  <2>1. /\ UiPublish(PrepareReady(ui)) /\ issued' = issued /\ uiTask' = "none"
    BY <1>2 DEF Authenticated, sharedVars
  <2> QED
    BY <1>i, <2>1, PrepareFollows, UiUpdate DEF UiInv
<1>3. CASE AuthFailed
  <2>1. /\ UiPublish(PrepareRejected(ui)) /\ issued' = issued /\ uiTask' = "none"
    BY <1>3 DEF AuthFailed, sharedVars
  <2> QED
    BY <1>i, <2>1, PrepareFollows, UiUpdate DEF UiInv
<1>4. CASE Disconnect
  <2>1. ui.life = "Connected" /\ uiTask' = "disconnect"
        /\ UNCHANGED <<ui, uiLane, uiFresh, issued>>
    BY <1>4 DEF Disconnect, sharedVars, uiVars
  <2> QED
    BY <1>i, <2>1 DEF UiKept, UiInv, UiIdle
<1> QED
  BY <1>1, <1>2, <1>3, <1>4

LEMMA DisconnectKeepsUi ==
  ASSUME IInv, DisconnectBegin \/ DisconnectEnd
  PROVE  UiKept
<1>i. UiInv /\ ui \in Engine
  BY DEF IInv, UiInv
<1>1. CASE DisconnectBegin
  <2>1. issued' = issued /\ uiTask = "disconnect" /\ uiTask' \in {"none", "closing"}
    BY <1>1 DEF DisconnectBegin, sharedVars
  <2>2. Disconnecting(ui) \in Engine /\ Follows(ui, Disconnecting(ui))
    BY <1>i, DisconnectFollows
  <2>3. UiIdle(Disconnecting(ui))
    BY <1>i, <2>1, <2>2 DEF UiInv, UiIdle, Follows
  <2>4. CASE UiPublish(Disconnecting(ui))
    BY <1>i, <2>1, <2>2, <2>3, <2>4, UiUpdate
  <2>5. CASE UNCHANGED uiVars
    BY <1>i, <2>1, <2>5, UiStays DEF uiVars, UiInv
  <2> QED
    BY <1>1, <2>4, <2>5 DEF DisconnectBegin
<1>2. CASE DisconnectEnd
  <2>1. issued' = issued /\ uiTask' = "none"
    BY <1>2 DEF DisconnectEnd, sharedVars
  <2>2. /\ Disconnected(ui) \in Engine /\ Follows(ui, Disconnected(ui))
        /\ UiIdle(Disconnected(ui))
    BY <1>i, DisconnectFollows DEF UiInv, UiIdle, Follows
  <2>4. CASE UiPublish(Disconnected(ui))
    BY <1>i, <2>1, <2>2, <2>4, UiUpdate
  <2>5. CASE UNCHANGED uiVars
    BY <1>i, <2>1, <2>5, UiStays DEF uiVars, UiInv
  <2> QED
    BY <1>2, <2>4, <2>5 DEF DisconnectEnd
<1> QED
  BY <1>1, <1>2

\* A synchronized engine is kept, or updated and published.
LEMMA SyncedUpdate ==
  ASSUME UiInv, ExtInv, NEW y \in Engine, Follows(UiSynced, y), UiIdle(y),
         UiPublish(y) \/ UiQuiet(UiSynced), issued' = issued, uiTask' = uiTask
  PROVE  UiKept
<1>1. UiSynced \in Engine /\ Follows(ui, UiSynced) /\ UiIdle(UiSynced)
  BY UiSyncedFollows
<1>2. Follows(ui, y)
  BY <1>1 DEF Follows
<1>3. CASE UiPublish(y)
  BY <1>2, <1>3, UiUpdate
<1>4. CASE UiQuiet(UiSynced)
  BY <1>1, <1>4, UiUpdate DEF UiQuiet, UiInv
<1> QED
  BY <1>3, <1>4

LEMMA TickKeepsUi ==
  ASSUME IInv, UiTick \/ Watchdog
  PROVE  UiKept
<1>i. UiInv /\ ExtInv /\ ui \in Engine
  BY DEF IInv, UiInv
<1>o. \A x \in Engine : x.att # 0 => UiIdle(OwnerFailed(x))
  <2> SUFFICES ASSUME NEW x \in Engine, x.att # 0 PROVE UiIdle(OwnerFailed(x))
    OBVIOUS
  <2> QED
    BY OwnerFailedFollows DEF Follows, UiIdle
<1>1. CASE UiTick
  <2>1. issued' = issued /\ uiTask' = uiTask
    BY <1>1 DEF UiTick, sharedVars, shellVars
  <2>s. UiSynced \in Engine /\ UiIdle(UiSynced)
    BY <1>i, UiSyncedFollows
  <2>2. CASE OwnerLost(UiSynced)
    <3>1. UiPublish(OwnerFailed(UiSynced))
      BY <1>1, <2>2 DEF UiTick
    <3>2. UiSynced.att # 0
      BY <2>2, <2>s DEF OwnerLost, UiIdle
    <3> QED
      BY <1>i, <1>o, <2>1, <2>s, <3>1, <3>2, OwnerFailedFollows, SyncedUpdate
  <2>3. CASE ~OwnerLost(UiSynced)
    <3>1. UiQuiet(UiSynced)
      BY <1>1, <2>3 DEF UiTick
    <3>2. Follows(UiSynced, UiSynced)
      BY DEF Follows
    <3> QED
      BY <1>i, <2>1, <2>s, <3>1, <3>2, SyncedUpdate
  <2> QED
    BY <2>2, <2>3
<1>2. CASE Watchdog
  <2>1. /\ issued' = issued /\ uiTask' = uiTask /\ ui.att # 0
        /\ UiPublish(OwnerFailed(ui))
    BY <1>2 DEF Watchdog, sharedVars, shellVars
  <2> QED
    BY <1>i, <1>o, <2>1, OwnerFailedFollows, UiUpdate
<1> QED
  BY <1>1, <1>2

LEMMA ClaimKeepsUi ==
  ASSUME IInv, StopClaimed
  PROVE  UiKept
<1>i. UiInv /\ ExtInv
  BY DEF IInv
<1>s. UiSynced \in Engine /\ UiIdle(UiSynced)
  BY <1>i, UiSyncedFollows
<1>1. issued' = issued /\ uiTask' = uiTask
  BY DEF StopClaimed
<1>2. UiPublish(ClaimStop(UiSynced)) \/ UiQuiet(UiSynced)
  BY DEF StopClaimed
<1>3. ClaimStop(UiSynced) \in Engine /\ Follows(UiSynced, ClaimStop(UiSynced))
  BY <1>s, ClaimFollows
<1>4. UiIdle(ClaimStop(UiSynced))
  BY <1>s DEF ClaimStop, UiIdle, Engine
<1> QED
  BY <1>i, <1>1, <1>2, <1>3, <1>4, SyncedUpdate

\* A stop request changes the UI engine by the stop it asks for, and by its recovery.
LEMMA StopKeepsUi ==
  ASSUME IInv, StopRequest \/ StopCooperated \/ StopRecover \/ StopGivesUp
  PROVE  UiKept
<1>i. UiInv /\ ExtInv
  BY DEF IInv
<1>s. UiSynced \in Engine /\ UiIdle(UiSynced) /\ Follows(UiSynced, UiSynced)
  BY <1>i, UiSyncedFollows DEF Follows
<1>t. issued' = issued /\ uiTask' = uiTask
  BY DEF StopRequest, StopCooperated, StopRecover, StopGivesUp, sharedVars, shellVars
<1>q. CASE UiQuiet(UiSynced)
  BY <1>i, <1>s, <1>t, <1>q, SyncedUpdate
<1>u. CASE UNCHANGED uiVars
  BY <1>i, <1>t, <1>u, UiStays DEF uiVars, UiInv
<1>p. CASE UiPublish([UiSynced EXCEPT !.stop = TRUE])
  <2> DEFINE y == [UiSynced EXCEPT !.stop = TRUE]
  <2>1. y \in Engine /\ Follows(UiSynced, y) /\ UiIdle(y)
    BY <1>s DEF Engine, Follows, Ended, UiIdle
  <2> HIDE DEF y
  <2>2. UiPublish(y)
    BY <1>p DEF y
  <2> QED
    BY <1>i, <1>t, <2>1, <2>2, SyncedUpdate
<1>r. CASE StopRecover /\ UiPublish(Recovered(UiSynced)) /\ UiSynced.att = op.att
  <2>1. Recovered(UiSynced) \in Engine /\ Follows(UiSynced, Recovered(UiSynced))
    BY <1>s, RecoveredFollows
  <2>2. op.att # 0
    BY <1>r DEF StopRecover, In, IInv, PluginInv, PluginTyped, WellFormed
  <2>3. UiIdle(Recovered(UiSynced))
    BY <1>r, <2>1, <2>2 DEF UiIdle, Follows
  <2> QED
    BY <1>i, <1>r, <1>t, <2>1, <2>3, SyncedUpdate
<1>1. CASE StopRequest
  BY <1>1, <1>q, <1>u, <1>p DEF StopRequest
<1>2. CASE StopCooperated \/ StopGivesUp
  BY <1>2, <1>q DEF StopCooperated, StopGivesUp
<1>3. CASE StopRecover
  BY <1>3, <1>q, <1>r DEF StopRecover
<1> QED
  BY <1>1, <1>2, <1>3

LEMMA BeginKeepsUi ==
  ASSUME IInv, StartBegin
  PROVE  UiKept
<1> DEFINE y == BeginStart(UiSynced, issued + 1)
<1>i. UiInv /\ ExtInv
  BY DEF IInv
<1>1. UiSynced \in Engine /\ issued \in Nat
  BY <1>i, UiSyncedFollows DEF UiInv
<1>2. y \in Engine /\ y.att = issued + 1
  BY <1>1, BeginTyped
<1>3. /\ ui' = y /\ uiLane' = Frame(y) /\ uiFresh' = TRUE
      /\ issued' = issued + 1 /\ uiTask' = uiTask
  BY DEF StartBegin, UiPublish, shellVars
<1> HIDE DEF y
<1>4. ui.att \in Nat /\ ui.att <= issued
  BY <1>i DEF UiInv, Engine
<1> QED
  BY <1>i, <1>1, <1>2, <1>3, <1>4, FrameTyped DEF UiKept, UiInv, UiIdle

LEMMA StartKeepsUi ==
  ASSUME IInv, StartRefused \/ StartFailed \/ StartTimeout \/ StartSettled
  PROVE  UiKept
<1>i. UiInv /\ ExtInv
  BY DEF IInv
<1>s. UiSynced \in Engine /\ UiIdle(UiSynced) /\ Follows(UiSynced, UiSynced)
  BY <1>i, UiSyncedFollows DEF Follows
<1>t. issued' = issued /\ uiTask' = uiTask
  BY DEF StartRefused, StartFailed, StartTimeout, StartSettled, sharedVars, shellVars
<1>q. CASE UiQuiet(UiSynced)
  BY <1>i, <1>s, <1>t, <1>q, SyncedUpdate
<1>u. CASE UNCHANGED uiVars
  BY <1>i, <1>t, <1>u, UiStays DEF uiVars, UiInv
<1>f. CASE UiPublish(Fail(UiSynced)) /\ UiSynced.out = "Pending"
  <2>1. Fail(UiSynced) \in Engine /\ Follows(UiSynced, Fail(UiSynced))
    BY <1>s, FailFollows
  <2>2. UiIdle(Fail(UiSynced))
    BY <1>f, <1>s, <2>1 DEF UiIdle, Follows
  <2> QED
    BY <1>f, <1>i, <1>t, <2>1, <2>2, SyncedUpdate
<1>h. CASE UiPublish([UiSynced EXCEPT !.hand = FALSE])
  <2> DEFINE y == [UiSynced EXCEPT !.hand = FALSE]
  <2>1. y \in Engine /\ Follows(UiSynced, y) /\ UiIdle(y)
    BY <1>s DEF Engine, Follows, Ended, UiIdle
  <2> HIDE DEF y
  <2>2. UiPublish(y)
    BY <1>h DEF y
  <2> QED
    BY <1>i, <1>t, <2>1, <2>2, SyncedUpdate
<1>1. CASE StartRefused
  BY <1>1, <1>q, <1>u DEF StartRefused
<1>2. CASE StartFailed \/ StartTimeout
  BY <1>2, <1>q, <1>f DEF StartFailed, StartTimeout, FailStart
<1>3. CASE StartSettled
  BY <1>3, <1>q, <1>h DEF StartSettled
<1> QED
  BY <1>1, <1>2, <1>3

\* The Extension's steps leave the UI engine alone, at most its frame is read.
LEMMA ExtensionKeepsUi ==
  ASSUME IInv, ExtensionStep
  PROVE  UiKept
<1>i. UiInv
  BY DEF IInv
<1>q. ASSUME UNCHANGED <<uiVars, issued, uiTask>>
      PROVE  UiKept
  BY <1>i, <1>q, UiStays DEF uiVars, UiInv
<1>r. ASSUME ExtRead, UNCHANGED <<issued, uiTask>>
      PROVE  UiKept
  BY <1>i, <1>r, UiStays DEF ExtRead, UiInv
<1>1. ASSUME NEW a \in Attempts, WantArrives(a)
      PROVE  UiKept
  BY <1>1, <1>q DEF WantArrives, sharedVars, shellVars
<1>2. CASE LatePublish \/ JobEnds \/ CreateSettles \/ SessionEnds
  BY <1>2, <1>q DEF LatePublish, JobEnds, CreateSettles, SessionEnds, sharedVars, shellVars
<1>3. CASE HandleNext \/ HandleSuperseded \/ HandleStale
  BY <1>3, <1>q DEF HandleNext, HandleSuperseded, HandleStale, sharedVars, shellVars
<1>4. CASE HandleChecked
  <2>1. uiFresh' \in BOOLEAN
    BY <1>4, Zenon DEF HandleChecked
  <2> QED
    BY <1>4, <1>i, <2>1, UiStays DEF HandleChecked, sharedVars, shellVars, UiInv
<1>5. CASE Bind \/ BindRefused
  <2>1. UNCHANGED <<issued, uiTask>>
    BY <1>5 DEF Bind, BindRefused, sharedVars, shellVars
  <2>2. CASE UNCHANGED uiVars
    BY <2>1, <2>2, <1>q
  <2>3. CASE uiFresh' = FALSE /\ UNCHANGED <<ui, uiLane>>
    <3>1. uiFresh' \in BOOLEAN
      BY <2>3, Zenon
    <3> QED
      BY <1>i, <2>1, <2>3, <3>1, UiStays DEF UiInv
  <2> QED
    BY <1>5, <2>2, <2>3 DEF Bind, BindRefused
<1>6. CASE HandlerCatches \/ StartPrepare
  <2>1. ExtRead \/ UNCHANGED uiVars
    BY <1>6 DEF HandlerCatches, StartPrepare
  <2>2. UNCHANGED <<issued, uiTask>>
    BY <1>6 DEF HandlerCatches, StartPrepare, sharedVars, shellVars
  <2> QED
    BY <1>q, <1>r, <2>1, <2>2
<1>7. CASE PrepareDone \/ CreateBegin \/ CreateDone \/ CreateFailed \/ OperationTimeout
           \/ AttachDone \/ HandleClosed
  BY <1>7, <1>q DEF PrepareDone, CreateBegin, CreateDone, CreateFailed, OperationTimeout,
                    AttachDone, HandleClosed, sharedVars, shellVars
<1>8. CASE AttachCheck \/ ExtSync \/ Heartbeat
  <2>1. ExtRead \/ UNCHANGED uiVars
    BY <1>8 DEF AttachCheck, ExtSync, Heartbeat, ExtTicks
  <2>2. UNCHANGED <<issued, uiTask>>
    BY <1>8 DEF AttachCheck, ExtSync, Heartbeat, sharedVars, shellVars
  <2> QED
    BY <1>q, <1>r, <2>1, <2>2
<1>9. CASE CleanupStep
  <2>1. ExtRead \/ UNCHANGED uiVars
    BY <1>9 DEF CleanupStep, CleanupStop, CleanupJoined, CleanupDestroy, CleanupAck
  <2>2. UNCHANGED <<issued, uiTask>>
    BY <1>9 DEF CleanupStep, CleanupStop, CleanupJoined, CleanupDestroy, CleanupAck,
                sharedVars, shellVars
  <2> QED
    BY <1>q, <1>r, <2>1, <2>2
<1>10. CASE OnDestroy \/ ExtensionExits \/ ExtensionCrashes
  BY <1>10, <1>q DEF OnDestroy, ExtensionExits, ExtensionCrashes, ExtensionGone, sharedVars,
                     shellVars
<1> QED
  BY <1>1, <1>2, <1>3, <1>4, <1>5, <1>6, <1>7, <1>8, <1>9, <1>10
     DEF ExtensionStep, HandlerStep

LEMMA NextKeepsUi ==
  ASSUME IInv, [Next]_vars
  PROVE  UiKept
<1>i. UiInv
  BY DEF IInv
<1>1. CASE UiStep
  BY <1>1, ConnectKeepsUi, DisconnectKeepsUi, TickKeepsUi DEF UiStep
<1>2. CASE PluginStep
  <2>1. CASE StopClaimed \/ StartBegin
    BY <2>1, ClaimKeepsUi, BeginKeepsUi
  <2>2. CASE StopRequest \/ StopCooperated \/ StopRecover \/ StopGivesUp
    BY <2>2, StopKeepsUi
  <2>3. CASE StartRefused \/ StartFailed \/ StartTimeout \/ StartSettled
    BY <2>3, StartKeepsUi
  <2>4. CASE ChainNext \/ StopSuperseded \/ StopImpatient \/ StopOs \/ StopConfirmed
             \/ StopRejected \/ StartSent
    <3>1. UNCHANGED <<uiVars, issued, uiTask>>
      BY <2>4 DEF ChainNext, StopSuperseded, StopImpatient, StopOs, StopConfirmed,
                  StopRejected, StartSent, sharedVars, shellVars
    <3> QED
      BY <1>i, <3>1, UiStays DEF uiVars, UiInv
  <2> QED
    BY <1>2, <2>1, <2>2, <2>3, <2>4 DEF PluginStep
<1>3. CASE ExtensionStep
  BY <1>3, ExtensionKeepsUi
<1>4. CASE UNCHANGED vars
  BY <1>i, <1>4, UiStays DEF vars, uiVars, sharedVars, shellVars, UiInv
<1> QED
  BY <1>1, <1>2, <1>3, <1>4 DEF Next

-----------------------------------------------------------------------------
(* The Extension engine                                                    *)

LEMMA ExtSyncedFollows ==
  ASSUME UiInv, ExtInv
  PROVE  ExtSynced \in Engine /\ Follows(ext, ExtSynced) /\ ExtIdle(ExtSynced)
<1>1. CASE ExtMatch
  <2>1. ExtSynced = Apply(ext, uiLane, FALSE)
    BY <1>1 DEF ExtSynced
  <2>2. ExtSynced \in Engine /\ Follows(ext, ExtSynced)
    BY <2>1, ApplyFollows DEF UiInv, ExtInv
  <2> QED
    BY <1>1, <2>2 DEF ExtMatch, ExtIdle, Follows
<1>2. CASE ~ExtMatch
  BY <1>2 DEF ExtSynced, ExtInv, Follows
<1> QED
  BY <1>1, <1>2

\* What a step may do to the Extension engine.
ExtKept == ExtInv' /\ (Ended(ext) => Ended(ext') \/ ext'.att # ext.att)

LEMMA ExtUpdate ==
  ASSUME ExtInv, NEW y \in Engine, Follows(ext, y), ExtIdle(y),
         ExtPublish(y) \/ ExtQuiet(y) \/ (ext' = y /\ extLane' = extLane /\ extFresh' \in BOOLEAN),
         late' \in FrameOf,
         job' \in {"none", "prepare", "attach", "stale"},
         job' = "prepare" => job = "prepare" \/ ext.att # 0
  PROVE  ExtKept
<1>1. ext' = y /\ extLane' \in FrameOf /\ extFresh' \in BOOLEAN
  BY FrameTyped DEF ExtPublish, ExtQuiet, ExtInv
<1>2. y.att = ext.att /\ (Ended(ext) => Ended(y))
  BY DEF Follows
<1> QED
  BY <1>1, <1>2 DEF ExtKept, ExtInv

LEMMA ExtStays ==
  ASSUME ExtInv, ext' = ext, extLane' \in FrameOf, extFresh' \in BOOLEAN, late' \in FrameOf,
         job' \in {job, "none", "attach", "stale"}
  PROVE  ExtKept
BY DEF ExtKept, ExtInv

\* The steps of the UI process leave the Extension engine alone.
LEMMA UiKeepsExt ==
  ASSUME IInv, UiStep \/ PluginStep
  PROVE  ExtKept
<1>i. ExtInv
  BY DEF IInv
<1>q. ASSUME UNCHANGED <<extVars, late, job>>
      PROVE  ExtKept
  BY <1>i, <1>q, ExtStays DEF extVars, ExtInv
<1>r. ASSUME UiRead, UNCHANGED <<late, job>>
      PROVE  ExtKept
  BY <1>i, <1>r, ExtStays DEF UiRead, ExtInv
<1>1. CASE Connect \/ Authenticated \/ AuthFailed \/ Disconnect \/ DisconnectBegin
           \/ DisconnectEnd \/ Watchdog
  BY <1>1, <1>q DEF Connect, Authenticated, AuthFailed, Disconnect, DisconnectBegin,
                    DisconnectEnd, Watchdog, abilityVars, procVars, tunnelVars
<1>2. CASE UiTick \/ StopClaimed
  BY <1>2, <1>r DEF UiTick, StopClaimed, abilityVars, procVars, tunnelVars
<1>3. CASE ChainNext \/ StopSuperseded \/ StopImpatient \/ StopOs \/ StopConfirmed
           \/ StopRejected \/ StartSent
  BY <1>3, <1>q DEF ChainNext, StopSuperseded, StopImpatient, StopOs, StopConfirmed,
                    StopRejected, StartSent, abilityVars, procVars, tunnelVars
<1>4. CASE StopRequest \/ StopCooperated \/ StopRecover \/ StopGivesUp
  <2>1. UiRead \/ UNCHANGED extVars
    BY <1>4 DEF StopRequest, StopCooperated, StopRecover, StopGivesUp
  <2>2. UNCHANGED <<late, job>>
    BY <1>4 DEF StopRequest, StopCooperated, StopRecover, StopGivesUp, abilityVars, procVars,
                tunnelVars
  <2> QED
    BY <1>q, <1>r, <2>1, <2>2
<1>5. CASE StartBegin \/ StartFailed
  BY <1>5, <1>r DEF StartBegin, StartFailed, FailStart, tunnelVars
<1>6. CASE StartRefused \/ StartTimeout \/ StartSettled
  <2>1. UiRead \/ UNCHANGED extVars
    BY <1>6 DEF StartRefused, StartTimeout, StartSettled, FailStart
  <2>2. UNCHANGED <<late, job>>
    BY <1>6 DEF StartRefused, StartTimeout, StartSettled, abilityVars, procVars, tunnelVars
  <2> QED
    BY <1>q, <1>r, <2>1, <2>2
<1> QED
  BY <1>1, <1>2, <1>3, <1>4, <1>5, <1>6 DEF UiStep, PluginStep

LEMMA AcknowledgementTyped ==
  ASSUME UiInv, NEW a
  PROVE  Acknowledgement(a) \in FrameOf
BY NoFrameTyped DEF Acknowledgement, UiInv, FrameOf

\* Requests, and the checks before the binding.
LEMMA RequestsKeepExt ==
  ASSUME IInv,
         (\E a \in Attempts : WantArrives(a)) \/ LatePublish \/ HandleNext \/ HandleSuperseded
         \/ HandleStale \/ HandleChecked
  PROVE  ExtKept
<1>i. ExtInv /\ UiInv
  BY DEF IInv
<1>1. ASSUME NEW a \in Attempts, WantArrives(a)
      PROVE  ExtKept
  <2>1. UNCHANGED <<extVars, job>> /\ late' \in {late, Acknowledgement(a)}
    BY <1>1 DEF WantArrives, tunnelVars
  <2> QED
    BY <1>i, <2>1, AcknowledgementTyped, ExtStays DEF extVars, ExtInv
<1>2. CASE LatePublish
  <2>1. extFresh' \in BOOLEAN
    BY <1>2, Zenon DEF LatePublish
  <2> QED
    BY <1>2, <1>i, <2>1, NoFrameTyped, ExtStays DEF LatePublish, tunnelVars, ExtInv
<1>3. CASE HandleNext \/ HandleSuperseded \/ HandleChecked
  BY <1>3, <1>i, ExtStays DEF HandleNext, HandleSuperseded, HandleChecked, extVars, procVars,
                              tunnelVars, ExtInv
<1>4. CASE HandleStale
  <2>1. UNCHANGED <<extVars, job>> /\ late' = Acknowledgement(cur)
    BY <1>4 DEF HandleStale, tunnelVars
  <2> QED
    BY <1>i, <2>1, AcknowledgementTyped, ExtStays DEF extVars, ExtInv
<1> QED
  BY <1>1, <1>2, <1>3, <1>4

\* The attempt the handler binds is in the frame it binds to.
LEMMA ReboundFollows ==
  ASSUME IInv, step = "bind", uiLane.att = cur
  PROVE  /\ Rebound(uiLane) \in Engine /\ Rebound(uiLane).att = cur /\ cur # 0
         /\ ext.att = cur => Follows(ext, Rebound(uiLane))
<1>1. ext \in Engine /\ uiLane \in FrameOf /\ cur # 0
  BY DEF IInv, UiInv, ExtInv, HandlerInv
<1>2. CASE ext.att = cur
  <2>1. Rebound(uiLane) = Apply(ext, uiLane, FALSE)
    BY <1>2 DEF Rebound
  <2>2. Rebound(uiLane) \in Engine /\ Follows(ext, Rebound(uiLane))
    BY <1>1, <2>1, ApplyFollows
  <2> QED
    BY <1>1, <1>2, <2>2 DEF Follows
<1>3. CASE ext.att # cur
  <2>1. Rebound(uiLane) = Apply(Adopt(ext, uiLane), uiLane, FALSE)
    BY <1>3 DEF Rebound
  <2>2. Adopt(ext, uiLane) \in Engine /\ Adopt(ext, uiLane).att = cur
    BY <1>1, AdoptTyped
  <2> QED
    BY <1>1, <1>3, <2>1, <2>2, ApplyFollows DEF Follows
<1> QED
  BY <1>2, <1>3

\* A bound engine has an attempt, and the outcome of its own attempt.
LEMMA BindingUpdate ==
  ASSUME IInv, step = "bind", uiLane.att = cur,
         NEW y \in Engine, Follows(Rebound(uiLane), y),
         ExtPublish(y) \/ ExtQuiet(y), late' = late,
         job' = IF ext.att # cur THEN Superseded(job) ELSE job
  PROVE  ExtKept
<1>i. ExtInv
  BY DEF IInv
<1>1. /\ y.att = cur /\ cur # 0
      /\ ext.att = cur /\ Ended(ext) => Ended(y)
  BY ReboundFollows DEF Follows
<1>2. ext' = y /\ extLane' \in FrameOf /\ extFresh' \in BOOLEAN
  BY <1>i, FrameTyped DEF ExtPublish, ExtQuiet, ExtInv
<1>3. job' \in {"none", "prepare", "attach", "stale"}
  BY <1>i DEF ExtInv, Superseded
<1> QED
  BY <1>i, <1>1, <1>2, <1>3 DEF ExtKept, ExtInv, ExtIdle

LEMMA BindKeepsExt ==
  ASSUME IInv, Bind \/ BindRefused
  PROVE  ExtKept
<1> DEFINE x == Rebound(uiLane)
<1>s. step = "bind"
  BY DEF Bind, BindRefused, ReadyToBind
<1>1. CASE Bind
  <2> DEFINE r == Reopen(x)
             b == Bound(r, inc)
             y == StopOrphan(b)
  <2>1. /\ uiLane.att = cur /\ ExtPublish(y) /\ late' = late
        /\ job' = IF ext.att # cur THEN Superseded(job) ELSE job
    BY <1>1 DEF Bind, CanBind, procVars
  <2> HIDE DEF y
  <2>2. x \in Engine
    BY <1>s, <2>1, ReboundFollows
  <2> HIDE DEF x
  <2>3. r \in Engine /\ Follows(x, r)
    BY <2>2, ReopenFollows
  <2> HIDE DEF r
  <2>4. b \in Engine /\ Follows(r, b)
    BY <2>3, BoundFollows, SessionBounds DEF IInv, HandlerInv
  <2> HIDE DEF b
  <2>5. y \in Engine /\ Follows(b, y)
    BY <2>4, StopOrphanFollows DEF y
  <2>6. Follows(x, y)
    BY <2>3, <2>4, <2>5 DEF Follows
  <2> QED
    BY <1>s, <2>1, <2>5, <2>6, BindingUpdate DEF x
<1>2. CASE BindRefused
  <2>1. late' = late
    BY <1>2 DEF BindRefused, procVars
  <2>2. CASE UNCHANGED <<extVars, job>>
    BY <2>1, <2>2, ExtStays DEF IInv, extVars, ExtInv
  <2>3. CASE ~UNCHANGED <<extVars, job>>
    <3> DEFINE y == IF Ended(x) THEN x ELSE Reopen(x)
    <3>1. /\ uiLane.att = cur /\ ExtQuiet(y)
          /\ job' = IF ext.att # cur THEN Superseded(job) ELSE job
      BY <1>2, <2>3 DEF BindRefused
    <3> HIDE DEF y
    <3>2. x \in Engine
      BY <1>s, <3>1, ReboundFollows
    <3>3. Reopen(x) \in Engine /\ Follows(x, Reopen(x)) /\ Follows(x, x)
      BY <3>2, ReopenFollows DEF Follows
    <3>4. y \in Engine /\ Follows(x, y)
      BY <3>2, <3>3 DEF y
    <3> QED
      BY <1>s, <2>1, <3>1, <3>4, BindingUpdate
  <2> QED
    BY <2>2, <2>3
<1> QED
  BY <1>1, <1>2

\* A step that synchronizes the engine and goes on with it.
LEMMA ExtSyncedUpdate ==
  ASSUME UiInv, ExtInv, NEW y \in Engine, Follows(ExtSynced, y), ExtIdle(y),
         ExtPublish(y) \/ ExtQuiet(ExtSynced), late' = late,
         job' \in {"none", "prepare", "attach", "stale"},
         job' = "prepare" => job = "prepare" \/ ExtSynced.att # 0
  PROVE  ExtKept
<1>1. ExtSynced \in Engine /\ Follows(ext, ExtSynced) /\ ExtIdle(ExtSynced)
  BY ExtSyncedFollows
<1>2. Follows(ext, y) /\ (ExtSynced.att # 0 => ext.att # 0) /\ late' \in FrameOf
  BY <1>1 DEF Follows, ExtInv
<1>3. CASE ExtPublish(y)
  BY <1>2, <1>3, ExtUpdate
<1>4. CASE ExtQuiet(ExtSynced)
  BY <1>1, <1>2, <1>4, ExtUpdate
<1> QED
  BY <1>3, <1>4

LEMMA FailIsIdle ==
  ASSUME NEW x \in Engine, x.att # 0
  PROVE  ExtIdle(Fail(x))
BY FailFollows DEF Follows, ExtIdle

LEMMA CatchKeepsExt ==
  ASSUME IInv, HandlerCatches
  PROVE  ExtKept
<1>i. ExtInv /\ UiInv
  BY DEF IInv
<1>s. ExtSynced \in Engine /\ ExtIdle(ExtSynced) /\ Follows(ExtSynced, ExtSynced)
  BY <1>i, ExtSyncedFollows DEF Follows
<1>t. late' = late /\ job' = job
  BY DEF HandlerCatches, procVars
<1>j. job' \in {"none", "prepare", "attach", "stale"}
  BY <1>i, <1>t DEF ExtInv
<1>q. CASE ExtQuiet(ExtSynced)
  BY <1>i, <1>j, <1>q, <1>s, <1>t, ExtSyncedUpdate
<1>u. CASE UNCHANGED extVars
  BY <1>i, <1>t, <1>u, ExtStays DEF extVars, ExtInv
<1>f. CASE ExtSynced.out # "Idle" /\ ExtPublish(Fail(ExtSynced))
  <2>1. ExtSynced.att # 0
    BY <1>f, <1>s DEF ExtIdle
  <2>2. Fail(ExtSynced) \in Engine /\ Follows(ExtSynced, Fail(ExtSynced))
    BY <1>s, FailFollows
  <2> QED
    BY <1>f, <1>i, <1>j, <1>s, <1>t, <2>1, <2>2, FailIsIdle, ExtSyncedUpdate
<1>n. CASE /\ ExtSynced.out # "Idle"
           /\ ExtPublish([Fail(ExtSynced) EXCEPT !.clean = TRUE, !.lease = 0])
  <2> DEFINE z == Fail(ExtSynced)
             y == [z EXCEPT !.clean = TRUE, !.lease = 0]
  <2>1. z \in Engine /\ Follows(ExtSynced, z) /\ z.att # 0
    BY <1>n, <1>s, FailFollows DEF ExtIdle, Follows
  <2> HIDE DEF z
  <2>2. y \in Engine /\ y.att = z.att /\ y.out = z.out
    BY <2>1 DEF Engine
  <2>3. ExtPublish(y)
    BY <1>n DEF z
  <2> HIDE DEF y
  <2>4. Follows(ExtSynced, y) /\ ExtIdle(y)
    BY <2>1, <2>2 DEF Follows, Ended, ExtIdle
  <2> QED
    BY <1>i, <1>j, <1>s, <1>t, <2>2, <2>3, <2>4, ExtSyncedUpdate
<1>1. CASE ~Newest
  BY <1>1, <1>u DEF HandlerCatches
<1>2. CASE Newest /\ act = cur
  <2>1. \/ ExtQuiet(ExtSynced)
        \/ ExtPublish(Fail(ExtSynced)) /\ AcceptsUpdates(ExtSynced, cur)
    BY <1>2 DEF HandlerCatches
  <2> QED
    BY <1>f, <1>q, <2>1 DEF AcceptsUpdates
<1>3. CASE Newest /\ act # cur
  <2>1. FailUnattached(ExtSynced, cur)
    BY <1>3 DEF HandlerCatches
  <2> QED
    BY <1>n, <1>q, <2>1 DEF FailUnattached
<1> QED
  BY <1>1, <1>2, <1>3

LEMMA PrepareKeepsExt ==
  ASSUME IInv, StartPrepare \/ PrepareDone \/ CreateBegin \/ CreateDone \/ CreateFailed
               \/ OperationTimeout \/ AttachDone \/ HandleClosed
  PROVE  ExtKept
<1>i. ExtInv /\ UiInv /\ ext \in Engine
  BY DEF IInv, ExtInv
<1>u. ASSUME UNCHANGED <<extVars, late>>, job' \in {job, "none", "attach", "stale"}
      PROVE  ExtKept
  BY <1>i, <1>u, ExtStays DEF extVars, ExtInv
<1>1. CASE StartPrepare
  <2>s. ExtSynced \in Engine /\ ExtIdle(ExtSynced) /\ Follows(ExtSynced, ExtSynced)
    BY <1>i, ExtSyncedFollows DEF Follows
  <2>t. late' = late
    BY <1>1 DEF StartPrepare, procVars
  <2>1. CASE ExtQuiet(ExtSynced) /\ job' = job
    BY <1>i, <2>1, <2>s, <2>t, ExtSyncedUpdate DEF ExtInv
  <2>2. CASE /\ AcceptsUpdates(ExtSynced, cur) /\ ExtPublish(Starting(ExtSynced))
             /\ job' \in {"prepare", "none"}
    <3>1. ExtSynced.att # 0
      BY <2>2, <2>s DEF AcceptsUpdates, ExtIdle
    <3>2. Starting(ExtSynced) \in Engine /\ Follows(ExtSynced, Starting(ExtSynced))
      BY <2>s, StartingFollows
    <3>3. ExtIdle(Starting(ExtSynced))
      BY <3>1, <3>2 DEF Follows, ExtIdle
    <3> QED
      BY <1>i, <2>2, <2>t, <3>1, <3>2, <3>3, ExtSyncedUpdate
  <2> QED
    BY <1>1, <2>1, <2>2 DEF StartPrepare
<1>2. CASE PrepareDone
  <2>t. late' = late /\ job' = "none"
    BY <1>2 DEF PrepareDone, procVars
  <2>1. CASE UNCHANGED extVars
    BY <1>u, <2>1, <2>t
  <2>2. CASE job = "prepare" /\ ExtPublish(Prepared(ext))
    <3>1. Prepared(ext) \in Engine /\ Follows(ext, Prepared(ext)) /\ ext.att # 0
      BY <1>i, <2>2, StartingFollows DEF ExtInv
    <3> QED
      BY <1>i, <2>2, <2>t, <3>1, ExtUpdate DEF Follows, ExtIdle, ExtInv
  <2> QED
    BY <1>2, <2>1, <2>2 DEF PrepareDone
<1>3. CASE CreateBegin \/ CreateFailed \/ OperationTimeout \/ HandleClosed
  BY <1>3, <1>u DEF CreateBegin, CreateFailed, OperationTimeout, HandleClosed, procVars,
                    tunnelVars
<1>4. CASE CreateDone
  <2>t. late' = late /\ job' \in {job, "none", "attach"}
    BY <1>4 DEF CreateDone, procVars
  <2>1. CASE UNCHANGED extVars
    BY <1>u, <2>1, <2>t
  <2>2. CASE ExtQuiet([ext EXCEPT !.native = "none"])
    <3> DEFINE y == [ext EXCEPT !.native = "none"]
    <3>1. y \in Engine /\ Follows(ext, y) /\ ExtIdle(y)
      BY <1>i DEF Engine, Follows, Ended, ExtIdle, ExtInv
    <3>2. ExtQuiet(y)
      BY <2>2
    <3> HIDE DEF y
    <3>3. job' \in {"none", "prepare", "attach", "stale"} /\ late' \in FrameOf
          /\ (job' = "prepare" => job = "prepare")
      BY <1>i, <2>t DEF ExtInv
    <3> QED
      BY <1>i, <3>1, <3>2, <3>3, ExtUpdate
  <2> QED
    BY <1>4, <2>1, <2>2 DEF CreateDone
<1>5. CASE AttachDone
  <2>t. late' = late /\ job' = "none"
    BY <1>5 DEF AttachDone, procVars
  <2>1. CASE UNCHANGED extVars
    BY <1>u, <2>1, <2>t
  <2>2. CASE CanRun /\ ExtPublish(Running(ext))
    <3>1. Running(ext) \in Engine /\ Follows(ext, Running(ext))
      BY <1>i, RunningFollows
    <3>2. ext.att # 0
      BY <1>i, <2>2 DEF CanRun, ExtInv, ExtIdle
    <3> QED
      BY <1>i, <2>2, <2>t, <3>1, <3>2, ExtUpdate DEF Follows, ExtIdle, ExtInv
  <2> QED
    BY <1>5, <2>1, <2>2 DEF AttachDone
<1> QED
  BY <1>1, <1>2, <1>3, <1>4, <1>5

LEMMA TickKeepsExt ==
  ASSUME IInv, AttachCheck \/ ExtSync \/ Heartbeat
  PROVE  ExtKept
<1>i. ExtInv /\ UiInv
  BY DEF IInv
<1>s. ExtSynced \in Engine /\ ExtIdle(ExtSynced) /\ Follows(ExtSynced, ExtSynced)
  BY <1>i, ExtSyncedFollows DEF Follows
<1>t. late' = late /\ job' = job
  BY DEF AttachCheck, ExtSync, Heartbeat, procVars, tunnelVars
<1>j. job' \in {"none", "prepare", "attach", "stale"}
  BY <1>i, <1>t DEF ExtInv
<1>q. CASE ExtQuiet(ExtSynced)
  BY <1>i, <1>j, <1>q, <1>s, <1>t, ExtSyncedUpdate
<1>u. CASE UNCHANGED extVars
  BY <1>i, <1>t, <1>u, ExtStays DEF extVars, ExtInv
<1>p. CASE ExtPublish(StopOrphan(ExtSynced))
  <2>1. /\ StopOrphan(ExtSynced) \in Engine /\ Follows(ExtSynced, StopOrphan(ExtSynced))
        /\ ExtIdle(StopOrphan(ExtSynced))
    BY <1>s, StopOrphanFollows DEF ExtIdle, Follows
  <2> QED
    BY <1>i, <1>j, <1>p, <1>t, <2>1, ExtSyncedUpdate
<1> QED
  BY <1>p, <1>q, <1>u DEF AttachCheck, ExtSync, Heartbeat, ExtTicks

LEMMA JobKeepsExt ==
  ASSUME IInv, JobEnds \/ CreateSettles \/ SessionEnds
  PROVE  ExtKept
<1>i. ExtInv /\ UiInv /\ ext \in Engine
  BY DEF IInv, ExtInv
<1>u. ASSUME UNCHANGED <<extVars, late>>, job' \in {job, "none"}
      PROVE  ExtKept
  BY <1>i, <1>u, ExtStays DEF extVars, ExtInv
<1>1. CASE JobEnds
  <2>t. late' = late /\ job' = "none"
    BY <1>1 DEF JobEnds, procVars
  <2>1. CASE UNCHANGED extVars
    BY <1>u, <2>1, <2>t
  <2>2. CASE job = "prepare" /\ ExtPublish(Prepared(ext))
    <3>1. Prepared(ext) \in Engine /\ Follows(ext, Prepared(ext)) /\ ext.att # 0
      BY <1>i, <2>2, StartingFollows DEF ExtInv
    <3> QED
      BY <1>i, <2>2, <2>t, <3>1, ExtUpdate DEF Follows, ExtIdle, ExtInv
  <2>3. CASE CanRun /\ ExtPublish(Running(ext))
    <3>1. Running(ext) \in Engine /\ Follows(ext, Running(ext))
      BY <1>i, RunningFollows
    <3>2. ext.att # 0
      BY <1>i, <2>3 DEF CanRun, ExtInv, ExtIdle
    <3> QED
      BY <1>i, <2>3, <2>t, <3>1, <3>2, ExtUpdate DEF Follows, ExtIdle, ExtInv
  <2> QED
    BY <1>1, <2>1, <2>2, <2>3 DEF JobEnds
<1>2. CASE CreateSettles
  BY <1>2, <1>u DEF CreateSettles, procVars
<1>3. CASE SessionEnds
  <2> PICK failed \in BOOLEAN : ExtPublish(NativeEnded(ext, failed))
    BY <1>3 DEF SessionEnds
  <2>1. /\ NativeEnded(ext, failed) \in Engine /\ Follows(ext, NativeEnded(ext, failed))
        /\ ext.life = "Disconnected" => NativeEnded(ext, failed).out = ext.out /\ NativeEnded(ext, failed).life = ext.life
    BY <1>i, NativeEndedFollows
  <2>2. ExtIdle(NativeEnded(ext, failed))
    BY <1>i, <2>1 DEF ExtInv, ExtIdle, Follows
  <2>3. ExtPublish(NativeEnded(ext, failed)) /\ late' = late /\ job' = job
    BY <1>3 DEF SessionEnds, abilityVars, procVars, tunnelVars
  <2> QED
    BY <1>i, <2>1, <2>2, <2>3, ExtUpdate DEF ExtInv
<1> QED
  BY <1>1, <1>2, <1>3

LEMMA CleanupKeepsExt ==
  ASSUME IInv, CleanupStep
  PROVE  ExtKept
<1>i. ExtInv /\ UiInv /\ ext \in Engine
  BY DEF IInv, ExtInv
<1>u. ASSUME UNCHANGED <<extVars, late>>, job' = job
      PROVE  ExtKept
  BY <1>i, <1>u, ExtStays DEF extVars, ExtInv
<1>1. CASE CleanupStop
  <2>t. late' = late
    BY <1>1 DEF CleanupStop, procVars
  <2>1. CASE UNCHANGED <<extVars, job>>
    BY <1>u, <2>1, <2>t
  <2>2. CASE ext.att # 0 /\ ExtPublish(Disconnecting(ext)) /\ job' = Superseded(job)
    <3>1. Disconnecting(ext) \in Engine /\ Follows(ext, Disconnecting(ext))
      BY <1>i, DisconnectFollows
    <3>2. job' \in {"none", "prepare", "attach", "stale"} /\ job' # "prepare"
      BY <1>i, <2>2 DEF ExtInv, Superseded
    <3> QED
      BY <1>i, <2>2, <2>t, <3>1, <3>2, ExtUpdate DEF Follows, ExtIdle, ExtInv
  <2> QED
    BY <1>1, <2>1, <2>2 DEF CleanupStop
<1>2. CASE CleanupJoined
  <2>t. late' = late /\ job' = job
    BY <1>2 DEF CleanupJoined, procVars
  <2>1. CASE UNCHANGED extVars
    BY <1>u, <2>1, <2>t
  <2>2. CASE ExtPublish(Disconnected(ext))
    <3>1. /\ Disconnected(ext) \in Engine /\ Follows(ext, Disconnected(ext))
          /\ ExtIdle(Disconnected(ext))
      BY <1>i, DisconnectFollows DEF ExtInv, ExtIdle, Follows
    <3> QED
      BY <1>i, <2>2, <2>t, <3>1, ExtUpdate DEF ExtInv
  <2> QED
    BY <1>2, <2>1, <2>2 DEF CleanupJoined
<1>3. CASE CleanupDestroy
  BY <1>3, <1>u DEF CleanupDestroy, procVars
<1>4. CASE CleanupAck
  <2>s. ExtSynced \in Engine /\ ExtIdle(ExtSynced) /\ Follows(ExtSynced, ExtSynced)
    BY <1>i, ExtSyncedFollows DEF Follows
  <2>t. late' = late /\ job' = job
    BY <1>4 DEF CleanupAck, procVars
  <2>j. job' \in {"none", "prepare", "attach", "stale"}
    BY <1>i, <2>t DEF ExtInv
  <2>1. CASE UNCHANGED extVars
    BY <1>u, <2>1, <2>t
  <2>2. CASE ExtQuiet(ExtSynced)
    BY <1>i, <2>2, <2>j, <2>s, <2>t, ExtSyncedUpdate
  <2>3. CASE ExtPublish(CleanedUp(ExtSynced))
    <3>1. /\ CleanedUp(ExtSynced) \in Engine /\ Follows(ExtSynced, CleanedUp(ExtSynced))
          /\ ExtIdle(CleanedUp(ExtSynced))
      BY <2>s, CleanedUpFollows DEF ExtIdle, Follows
    <3> QED
      BY <1>i, <2>3, <2>j, <2>t, <3>1, ExtSyncedUpdate
  <2> QED
    BY <1>4, <2>1, <2>2, <2>3 DEF CleanupAck
<1> QED
  BY <1>1, <1>2, <1>3, <1>4 DEF CleanupStep

LEMMA EndKeepsExt ==
  ASSUME IInv, OnDestroy \/ ExtensionExits \/ ExtensionCrashes
  PROVE  ExtKept
<1>i. ExtInv
  BY DEF IInv
<1>1. CASE OnDestroy
  BY <1>1, <1>i, ExtStays DEF OnDestroy, extVars, ExtInv
<1>2. CASE ExtensionGone
  <2>1. /\ ext' = NewEngine /\ late' = NoFrame /\ job' = "none"
        /\ UNCHANGED <<extLane, extFresh>>
    BY <1>2 DEF ExtensionGone
  <2>2. NewEngine.att = 0 /\ ExtIdle(NewEngine)
    BY DEF NewEngine, ExtIdle
  <2>3. Ended(ext) => ext.att # 0
    BY <1>i DEF ExtInv, ExtIdle, Ended, Terminal
  <2> QED
    BY <1>i, <2>1, <2>2, <2>3, NewEngineTyped, NoFrameTyped DEF ExtKept, ExtInv
<1> QED
  BY <1>1, <1>2 DEF ExtensionExits, ExtensionCrashes

LEMMA NextKeepsExt ==
  ASSUME IInv, [Next]_vars
  PROVE  ExtKept
<1>1. CASE UiStep \/ PluginStep
  BY <1>1, UiKeepsExt
<1>2. CASE ExtensionStep
  <2>1. CASE (\E a \in Attempts : WantArrives(a)) \/ LatePublish
    BY <2>1, RequestsKeepExt
  <2>2. CASE HandlerStep
    BY <2>2, RequestsKeepExt, BindKeepsExt, CatchKeepsExt, PrepareKeepsExt, TickKeepsExt
       DEF HandlerStep
  <2>3. CASE JobEnds \/ CreateSettles \/ SessionEnds
    BY <2>3, JobKeepsExt
  <2>4. CASE ExtSync \/ Heartbeat
    BY <2>4, TickKeepsExt
  <2>5. CASE CleanupStep
    BY <2>5, CleanupKeepsExt
  <2>6. CASE OnDestroy \/ ExtensionExits \/ ExtensionCrashes
    BY <2>6, EndKeepsExt
  <2> QED
    BY <1>2, <2>1, <2>2, <2>3, <2>4, <2>5, <2>6 DEF ExtensionStep
<1>3. CASE UNCHANGED vars
  BY <1>3, ExtStays DEF vars, extVars, abilityVars, procVars, tunnelVars, IInv, ExtInv
<1> QED
  BY <1>1, <1>2, <1>3 DEF Next

-----------------------------------------------------------------------------
(* The plugin's chain and the shell                                        *)

\* A step that queues nothing and authenticates nobody.
LEMMA PluginStays ==
  ASSUME PluginInv, UNCHANGED <<taps, issued, epoch, fence, chain, op>>,
         jsStop' \in BOOLEAN, uiTask' \in {uiTask, "none", "disconnect", "closing"}
  PROVE  PluginInv'
BY DEF PluginInv, PluginTyped, OneStart, StartsCounted, Waiting

\* An operation goes on, or ends; a start that has begun is no longer waiting.
LEMMA OpMoves ==
  ASSUME PluginInv, UNCHANGED <<taps, issued, uiTask, jsStop, epoch, chain>>,
         fence' \in [epoch : Nat, att : Attempts \cup {0}, busy : BOOLEAN],
         op' \in Request, WellFormed(op'), op'.kind \in {op.kind, "none"},
         op'.stage # "begin"
  PROVE  PluginInv'
<1>1. PluginTyped'
  BY DEF PluginInv, PluginTyped
<1>2. OneStart'
  BY DEF PluginInv, OneStart
<1>3. Waiting' => Waiting
  BY DEF Waiting
<1>4. StartsCounted'
  BY <1>3 DEF PluginInv, StartsCounted
<1> QED
  BY <1>1, <1>2, <1>4 DEF PluginInv

LEMMA NoOpTyped ==
  NoOp \in Request /\ WellFormed(NoOp) /\ NoOp.kind = "none" /\ NoOp.stage # "begin"
BY DEF NoOp, Request, WellFormed

LEMMA OpEnding ==
  ASSUME PluginInv, UNCHANGED <<taps, issued, uiTask, jsStop, epoch, chain>>,
         fence' \in [epoch : Nat, att : Attempts \cup {0}, busy : BOOLEAN],
         op' = NoOp
  PROVE  PluginInv'
BY NoOpTyped, OpMoves

\* Requests are appended to the chain.
LEMMA Queued ==
  ASSUME NEW c \in Seq(Request), NEW r \in Request, WellFormed(r),
         \A i \in 1 .. Len(c) : WellFormed(c[i])
  PROVE  /\ Append(c, r) \in Seq(Request) /\ Len(Append(c, r)) = Len(c) + 1
         /\ \A i \in 1 .. Len(c) : Append(c, r)[i] = c[i]
         /\ Append(c, r)[Len(c) + 1] = r
         /\ \A i \in 1 .. Len(Append(c, r)) : WellFormed(Append(c, r)[i])
OBVIOUS

LEMMA StartRequestTyped ==
  ASSUME NEW e \in Nat
  PROVE  /\ [NoOp EXCEPT !.kind = "start", !.epoch = e] \in Request
         /\ WellFormed([NoOp EXCEPT !.kind = "start", !.epoch = e])
         /\ [NoOp EXCEPT !.kind = "start", !.epoch = e].kind = "start"
BY DEF NoOp, Request, WellFormed

LEMMA StopRequestTyped ==
  ASSUME NEW e \in Nat, NEW a \in Attempts \cup {0}
  PROVE  /\ [NoOp EXCEPT !.kind = "stop", !.epoch = e, !.att = a, !.done = (a = 0)] \in Request
         /\ WellFormed([NoOp EXCEPT !.kind = "stop", !.epoch = e, !.att = a, !.done = (a = 0)])
         /\ [NoOp EXCEPT !.kind = "stop", !.epoch = e, !.att = a, !.done = (a = 0)].kind = "stop"
<1> DEFINE d == (a = 0)
<1>1. d \in BOOLEAN /\ (a = 0 => d)
  OBVIOUS
<1> HIDE DEF d
<1>2. /\ [NoOp EXCEPT !.kind = "stop", !.epoch = e, !.att = a, !.done = d] \in Request
      /\ WellFormed([NoOp EXCEPT !.kind = "stop", !.epoch = e, !.att = a, !.done = d])
      /\ [NoOp EXCEPT !.kind = "stop", !.epoch = e, !.att = a, !.done = d].kind = "stop"
  BY <1>1 DEF NoOp, Request, WellFormed
<1> QED
  BY <1>2 DEF d

LEMMA ConnectKeepsPlugin ==
  ASSUME IInv, UiStep
  PROVE  PluginInv'
<1>i. PluginInv /\ UiInv
  BY DEF IInv
<1>1. CASE Connect
  <2>1. /\ taps' = taps + 1 /\ taps < MaxConnect /\ uiTask' = "auth"
        /\ UNCHANGED <<issued, jsStop, epoch, fence, chain, op>>
    BY <1>1 DEF Connect, sharedVars, pluginVars
  <2>2. PluginTyped'
    BY <1>i, <2>1, SessionBounds DEF PluginInv, PluginTyped
  <2>3. OneStart' /\ (Waiting' => Waiting)
    BY <1>i, <2>1 DEF PluginInv, OneStart, Waiting
  <2>4. StartsCounted'
    BY <1>i, <2>1, <2>3, SessionBounds DEF PluginInv, PluginTyped, StartsCounted
  <2> QED
    BY <2>2, <2>3, <2>4 DEF PluginInv
<1>2. CASE Authenticated
  <2>1. /\ uiTask = "auth" /\ uiTask' = "none"
        /\ UNCHANGED <<taps, issued, jsStop, fence, op>>
    BY <1>2 DEF Authenticated, sharedVars
  <2>2. CASE StartOutstanding
    <3>1. UNCHANGED <<epoch, chain>>
      BY <1>2, <2>2 DEF Authenticated
    <3> QED
      BY <1>i, <2>1, <3>1, PluginStays DEF PluginInv, PluginTyped
  <2>3. CASE ~StartOutstanding
    <3> DEFINE r == [NoOp EXCEPT !.kind = "start", !.epoch = epoch + 1]
    <3>1. epoch' = epoch + 1 /\ chain' = Append(chain, r)
      BY <1>2, <2>3 DEF Authenticated
    <3>2. r \in Request /\ WellFormed(r) /\ r.kind = "start"
      <4>1. epoch + 1 \in Nat
        BY <1>i DEF PluginInv, PluginTyped
      <4> QED
        BY <4>1, StartRequestTyped
    <3> HIDE DEF r
    <3>3. /\ chain \in Seq(Request) /\ Len(chain) \in Nat
          /\ \A i \in 1 .. Len(chain) : WellFormed(chain[i])
      BY <1>i DEF PluginInv, PluginTyped
    <3>4. /\ chain' \in Seq(Request) /\ Len(chain') = Len(chain) + 1
          /\ \A i \in 1 .. Len(chain) : chain'[i] = chain[i]
          /\ \A i \in 1 .. Len(chain') : WellFormed(chain'[i])
      BY <3>1, <3>2, <3>3, Queued
    <3>5. op.kind # "start" /\ \A i \in 1 .. Len(chain) : chain[i].kind # "start"
      BY <2>3, <3>3 DEF StartOutstanding
    <3>6. PluginTyped'
      BY <1>i, <2>1, <3>1, <3>4 DEF PluginInv, PluginTyped
    <3>7. OneStart'
      BY <2>1, <3>3, <3>4, <3>5 DEF OneStart
    <3>8. StartsCounted'
      BY <1>i, <2>1 DEF PluginInv, PluginTyped, StartsCounted
    <3> QED
      BY <3>6, <3>7, <3>8 DEF PluginInv
  <2> QED
    BY <2>2, <2>3
<1>3. CASE AuthFailed \/ DisconnectBegin \/ DisconnectEnd
  <2>1. /\ UNCHANGED <<taps, issued, jsStop, epoch, fence, chain, op>>
        /\ uiTask' \in {"none", "closing"}
    BY <1>3 DEF AuthFailed, DisconnectBegin, DisconnectEnd, sharedVars, pluginVars
  <2> QED
    BY <1>i, <2>1, PluginStays DEF PluginInv, PluginTyped
<1>4. CASE Disconnect
  <2>1. UNCHANGED <<taps, issued, epoch, fence, chain, op>> /\ uiTask' = "disconnect"
    BY <1>4 DEF Disconnect, sharedVars, pluginVars
  <2>2. jsStop' \in BOOLEAN
    BY <1>4, Zenon DEF Disconnect
  <2> QED
    BY <1>i, <2>1, <2>2, PluginStays
<1>5. CASE UiTick \/ Watchdog
  <2>1. UNCHANGED <<taps, issued, uiTask, jsStop, epoch, fence, chain, op>>
    BY <1>5 DEF UiTick, Watchdog, sharedVars, shellVars, pluginVars
  <2> QED
    BY <1>i, <2>1, PluginStays DEF PluginInv, PluginTyped
<1> QED
  BY <1>1, <1>2, <1>3, <1>4, <1>5 DEF UiStep

LEMMA ClaimKeepsPlugin ==
  ASSUME IInv, StopClaimed
  PROVE  PluginInv'
<1> DEFINE a == IF journal.phase # "Missing" THEN journal.att ELSE fence.att
           r == [NoOp EXCEPT !.kind = "stop", !.epoch = epoch + 1, !.att = a, !.done = (a = 0)]
<1>i. PluginInv /\ JournalInv
  BY DEF IInv
<1>1. a \in Attempts \cup {0} /\ epoch + 1 \in Nat
  BY <1>i DEF PluginInv, PluginTyped, JournalInv
<1>2. /\ UNCHANGED <<taps, issued, uiTask, op>>
      /\ epoch' = epoch + 1 /\ chain' = Append(chain, r)
      /\ fence' \in {fence, [epoch |-> epoch + 1, att |-> a, busy |-> FALSE]}
  BY DEF StopClaimed
<1>j. jsStop' \in BOOLEAN
  BY Zenon DEF StopClaimed
<1> HIDE DEF a
<1>3. r \in Request /\ WellFormed(r) /\ r.kind = "stop"
  BY <1>1, StopRequestTyped
<1> HIDE DEF r
<1>4. /\ chain \in Seq(Request) /\ Len(chain) \in Nat
      /\ \A i \in 1 .. Len(chain) : WellFormed(chain[i])
  BY <1>i DEF PluginInv, PluginTyped
<1>5. /\ chain' \in Seq(Request) /\ Len(chain') = Len(chain) + 1
      /\ \A i \in 1 .. Len(chain) : chain'[i] = chain[i]
      /\ chain'[Len(chain) + 1] = r
      /\ \A i \in 1 .. Len(chain') : WellFormed(chain'[i])
  BY <1>2, <1>3, <1>4, Queued
<1>f. fence' \in [epoch : Nat, att : Attempts \cup {0}, busy : BOOLEAN]
  <2>1. [epoch |-> epoch + 1, att |-> a, busy |-> FALSE]
          \in [epoch : Nat, att : Attempts \cup {0}, busy : BOOLEAN]
    BY <1>1
  <2>2. fence \in [epoch : Nat, att : Attempts \cup {0}, busy : BOOLEAN]
    BY <1>i DEF PluginInv, PluginTyped
  <2> QED
    BY <1>2, <2>1, <2>2
<1>6. PluginTyped'
  BY <1>i, <1>1, <1>2, <1>j, <1>5, <1>f DEF PluginInv, PluginTyped
<1>7. \A i \in 1 .. Len(chain') : chain'[i].kind = "start" => i \in 1 .. Len(chain)
  BY <1>3, <1>4, <1>5
<1>8. OneStart'
  BY <1>i, <1>2, <1>5, <1>7 DEF PluginInv, OneStart
<1>9. Waiting' => Waiting
  BY <1>2, <1>5, <1>7 DEF Waiting
<1>10. StartsCounted'
  BY <1>i, <1>2, <1>9 DEF PluginInv, StartsCounted
<1> QED
  BY <1>6, <1>8, <1>10 DEF PluginInv

\* The operation leaves the chain's head.
LEMMA ChainKeepsPlugin ==
  ASSUME IInv, ChainNext
  PROVE  PluginInv'
<1> DEFINE s == IF Head(chain).kind = "start" THEN "begin" ELSE "request"
<1>i. PluginInv
  BY DEF IInv
<1>1. /\ chain \in Seq(Request) /\ chain # <<>> /\ op = NoOp
      /\ op' = [Head(chain) EXCEPT !.stage = s] /\ chain' = Tail(chain)
      /\ UNCHANGED <<taps, issued, uiTask, jsStop, epoch, fence>>
  BY <1>i DEF PluginInv, PluginTyped, ChainNext, sharedVars, shellVars
<1>2. /\ Len(chain) \in Nat /\ Len(chain) >= 1
      /\ Head(chain) = chain[1] /\ chain[1] \in Request /\ WellFormed(chain[1])
      /\ chain' \in Seq(Request) /\ Len(chain') = Len(chain) - 1
      /\ \A i \in 1 .. Len(chain') : i + 1 \in 1 .. Len(chain) /\ chain'[i] = chain[i + 1]
  <2>1. Len(chain) \in Nat /\ Len(chain) >= 1
    BY <1>1
  <2>2. Head(chain) = chain[1] /\ chain[1] \in Request /\ WellFormed(chain[1])
    BY <1>i, <1>1, <2>1 DEF PluginInv, PluginTyped
  <2>3. /\ chain' \in Seq(Request) /\ Len(chain') = Len(chain) - 1
        /\ \A i \in 1 .. Len(chain') : i + 1 \in 1 .. Len(chain) /\ chain'[i] = chain[i + 1]
    BY <1>1, <2>1
  <2> QED
    BY <2>1, <2>2, <2>3
<1>3. op' \in Request /\ WellFormed(op') /\ op'.kind = chain[1].kind
  <2>1. s \in {"begin", "request"}
    OBVIOUS
  <2> HIDE DEF s
  <2> QED
    BY <1>1, <1>2, <2>1 DEF Request, WellFormed
<1>4. PluginTyped'
  BY <1>i, <1>1, <1>2, <1>3 DEF PluginInv, PluginTyped
<1>5. OneStart'
  <2> SUFFICES ASSUME NEW i \in 1 .. Len(chain'), chain'[i].kind = "start"
               PROVE  /\ op'.kind # "start"
                      /\ \A j \in 1 .. Len(chain') : chain'[j].kind = "start" => j = i
    BY DEF OneStart
  <2>1. i + 1 \in 1 .. Len(chain) /\ chain[i + 1].kind = "start"
    BY <1>2
  <2>2. \A j \in 1 .. Len(chain) : chain[j].kind = "start" => j = i + 1
    BY <1>i, <2>1 DEF PluginInv, OneStart
  <2>3. op'.kind # "start"
    BY <1>2, <1>3, <2>2
  <2>4. ASSUME NEW j \in 1 .. Len(chain'), chain'[j].kind = "start"
        PROVE  j = i
    <3>1. j + 1 \in 1 .. Len(chain) /\ chain[j + 1].kind = "start"
      BY <1>2, <2>4
    <3>2. j + 1 = i + 1
      BY <2>2, <3>1
    <3> QED
      BY <1>2, <3>2
  <2> QED
    BY <2>3, <2>4
<1>6. Waiting' => Waiting
  BY <1>2, <1>3 DEF Waiting
<1>7. StartsCounted'
  BY <1>i, <1>1, <1>6 DEF PluginInv, StartsCounted
<1> QED
  BY <1>4, <1>5, <1>7 DEF PluginInv

\* A stop request goes from stage to stage.
LEMMA StopKeepsPlugin ==
  ASSUME IInv,
         StopSuperseded \/ StopRequest \/ StopCooperated \/ StopImpatient \/ StopOs
         \/ StopConfirmed \/ StopRejected \/ StopRecover \/ StopGivesUp
  PROVE  PluginInv'
<1>i. PluginInv /\ op \in Request /\ WellFormed(op) /\ op.kind = "stop"
  BY DEF IInv, PluginInv, PluginTyped, In, StopSuperseded, StopRequest, StopCooperated,
         StopImpatient, StopOs, StopConfirmed, StopRejected, StopRecover, StopGivesUp
<1>t. UNCHANGED <<taps, issued, uiTask, jsStop, epoch, chain>>
  BY DEF StopSuperseded, StopRequest, StopCooperated, StopImpatient, StopOs, StopConfirmed,
         StopRejected, StopRecover, StopGivesUp, sharedVars, shellVars
<1>f. fence' \in [epoch : Nat, att : Attempts \cup {0}, busy : BOOLEAN]
  <2>1. fence \in [epoch : Nat, att : Attempts \cup {0}, busy : BOOLEAN]
    BY <1>i DEF PluginInv, PluginTyped
  <2>2. /\ NoFence \in [epoch : Nat, att : Attempts \cup {0}, busy : BOOLEAN]
        /\ [epoch |-> op.epoch, att |-> op.att, busy |-> TRUE]
             \in [epoch : Nat, att : Attempts \cup {0}, busy : BOOLEAN]
        /\ [fence EXCEPT !.busy = FALSE]
             \in [epoch : Nat, att : Attempts \cup {0}, busy : BOOLEAN]
    BY <1>i, <2>1 DEF NoFence, Request
  <2>3. fence' \in {fence, NoFence, [fence EXCEPT !.busy = FALSE],
                    [epoch |-> op.epoch, att |-> op.att, busy |-> TRUE]}
    BY DEF StopSuperseded, StopRequest, StopCooperated, StopImpatient, StopOs, StopConfirmed,
           StopRejected, StopRecover, StopGivesUp
  <2> QED
    BY <2>1, <2>2, <2>3
<1>1. CASE op' = NoOp
  BY <1>i, <1>t, <1>f, <1>1, OpEnding
<1>2. ASSUME NEW s \in {"os", "coop", "confirm"}, op' = [op EXCEPT !.stage = s]
      PROVE  PluginInv'
  <2>1. op' \in Request /\ WellFormed(op') /\ op'.kind = op.kind /\ op'.stage # "begin"
    BY <1>i, <1>2 DEF Request, WellFormed
  <2> QED
    BY <1>i, <1>t, <1>f, <2>1, OpMoves
<1>3. CASE op' = [op EXCEPT !.stage = "os", !.done = TRUE]
  <2>1. op' \in Request /\ op'.kind = op.kind /\ op'.stage = "os"
    BY <1>i, <1>3 DEF Request
  <2>2. WellFormed(op')
    <3>1. op'.done = TRUE
      BY <1>i, <1>3 DEF Request
    <3> QED
      BY <2>1, <3>1 DEF WellFormed
  <2> QED
    BY <1>i, <1>t, <1>f, <2>1, <2>2, OpMoves
<1>4. CASE ~op.done /\ op' = [op EXCEPT !.stage = "recover"]
  <2>1. op' \in Request /\ WellFormed(op') /\ op'.kind = op.kind /\ op'.stage # "begin"
    BY <1>i, <1>4 DEF Request, WellFormed
  <2> QED
    BY <1>i, <1>t, <1>f, <2>1, OpMoves
<1>5. CASE StopSuperseded \/ StopRejected \/ StopRecover \/ StopGivesUp
  BY <1>1, <1>5 DEF StopSuperseded, StopRejected, StopRecover, StopGivesUp, OpEnds
<1>6. CASE StopRequest
  <2>1. \E s \in {"os", "coop"} : op' = [op EXCEPT !.stage = s]
    BY <1>6 DEF StopRequest, Goto
  <2> QED
    BY <1>2, <2>1
<1>7. CASE StopCooperated
  BY <1>1, <1>3, <1>7 DEF StopCooperated, OpEnds
<1>8. CASE StopImpatient \/ StopOs
  <2>1. \E s \in {"os", "confirm"} : op' = [op EXCEPT !.stage = s]
    BY <1>8 DEF StopImpatient, StopOs, Goto
  <2> QED
    BY <1>2, <2>1
<1>9. CASE StopConfirmed
  BY <1>1, <1>4, <1>9 DEF StopConfirmed, OpEnds, Goto
<1> QED
  BY <1>5, <1>6, <1>7, <1>8, <1>9

\* The connect that a start begins for is no longer waiting.
LEMMA BeginKeepsPlugin ==
  ASSUME IInv, StartBegin
  PROVE  PluginInv'
<1>i. PluginInv /\ op \in Request /\ op.kind = "start" /\ op.stage = "begin"
  BY DEF IInv, PluginInv, PluginTyped, StartBegin, In
<1>1. /\ issued' = issued + 1 /\ op' = [op EXCEPT !.stage = "sent", !.att = issued + 1]
      /\ UNCHANGED <<taps, uiTask, jsStop, epoch, fence, chain>>
  BY DEF StartBegin, shellVars
<1>2. /\ issued < taps /\ (uiTask = "auth" => issued + 1 < taps)
      /\ taps \in 0 .. MaxConnect /\ issued \in 0 .. taps
  BY <1>i DEF PluginInv, StartsCounted, Waiting, PluginTyped
<1>3. issued + 1 \in Attempts
  BY <1>2, SessionBounds DEF Attempts
<1>4. op' \in Request /\ WellFormed(op') /\ op'.kind = "start" /\ op'.stage = "sent"
  BY <1>i, <1>1, <1>3 DEF Request, WellFormed
<1>5. PluginTyped'
  BY <1>i, <1>1, <1>2, <1>4, SessionBounds DEF PluginInv, PluginTyped
<1>6. OneStart'
  BY <1>i, <1>1, <1>4 DEF PluginInv, OneStart
<1>7. ~Waiting'
  BY <1>i, <1>1, <1>4 DEF PluginInv, OneStart, Waiting
<1>8. StartsCounted'
  BY <1>1, <1>2, <1>7 DEF StartsCounted
<1> QED
  BY <1>5, <1>6, <1>8 DEF PluginInv

LEMMA StartKeepsPlugin ==
  ASSUME IInv, StartRefused \/ StartSent \/ StartFailed \/ StartSettled \/ StartTimeout
  PROVE  PluginInv'
<1>i. PluginInv /\ op \in Request /\ WellFormed(op)
  BY DEF IInv, PluginInv, PluginTyped
<1>t. UNCHANGED <<taps, issued, uiTask, jsStop, epoch, chain, fence>>
  BY DEF StartRefused, StartSent, StartFailed, StartSettled, StartTimeout, sharedVars, shellVars
<1>f. fence' \in [epoch : Nat, att : Attempts \cup {0}, busy : BOOLEAN]
  BY <1>i, <1>t DEF PluginInv, PluginTyped
<1>1. CASE StartSent
  <2>1. op' = [op EXCEPT !.stage = "await"]
    BY <1>1 DEF StartSent, Goto
  <2>2. op' \in Request /\ WellFormed(op') /\ op'.kind = op.kind /\ op'.stage # "begin"
    BY <1>i, <2>1 DEF Request, WellFormed
  <2> QED
    BY <1>i, <1>t, <1>f, <2>2, OpMoves
<1>2. CASE StartRefused \/ StartFailed \/ StartSettled \/ StartTimeout
  <2>1. op' = NoOp
    BY <1>2 DEF StartRefused, StartFailed, StartSettled, StartTimeout, FailStart, OpEnds
  <2> QED
    BY <1>i, <1>t, <1>f, <2>1, OpEnding
<1> QED
  BY <1>1, <1>2

\* The Extension process has no part in it.
LEMMA ExtensionKeepsPlugin ==
  ASSUME IInv, ExtensionStep
  PROVE  PluginInv'
<1>i. PluginInv
  BY DEF IInv
<1>q. ASSUME UNCHANGED <<taps, uiTask, jsStop, issued, epoch, fence, chain, op>>
      PROVE  PluginInv'
  BY <1>i, <1>q, PluginStays DEF PluginInv, PluginTyped
<1>1. ASSUME NEW a \in Attempts, WantArrives(a)
      PROVE  PluginInv'
  BY <1>1, <1>q DEF WantArrives, sharedVars, shellVars, pluginVars
<1>2. CASE LatePublish \/ JobEnds \/ CreateSettles \/ SessionEnds
  BY <1>2, <1>q DEF LatePublish, JobEnds, CreateSettles, SessionEnds, sharedVars, shellVars,
                    pluginVars
<1>3. CASE HandleNext \/ HandleSuperseded \/ HandleStale \/ HandleChecked
  BY <1>3, <1>q DEF HandleNext, HandleSuperseded, HandleStale, HandleChecked, sharedVars,
                    shellVars, pluginVars
<1>4. CASE Bind \/ BindRefused \/ HandlerCatches \/ StartPrepare
  BY <1>4, <1>q DEF Bind, BindRefused, HandlerCatches, StartPrepare, sharedVars, shellVars,
                    pluginVars
<1>5. CASE PrepareDone \/ CreateBegin \/ CreateDone \/ CreateFailed \/ OperationTimeout
           \/ AttachDone \/ HandleClosed
  BY <1>5, <1>q DEF PrepareDone, CreateBegin, CreateDone, CreateFailed, OperationTimeout,
                    AttachDone, HandleClosed, sharedVars, shellVars, pluginVars
<1>6. CASE AttachCheck \/ ExtSync \/ Heartbeat
  BY <1>6, <1>q DEF AttachCheck, ExtSync, Heartbeat, sharedVars, shellVars, pluginVars
<1>7. CASE CleanupStep
  BY <1>7, <1>q DEF CleanupStep, CleanupStop, CleanupJoined, CleanupDestroy, CleanupAck,
                    sharedVars, shellVars, pluginVars
<1>8. CASE OnDestroy \/ ExtensionExits \/ ExtensionCrashes
  BY <1>8, <1>q DEF OnDestroy, ExtensionExits, ExtensionCrashes, ExtensionGone, sharedVars,
                    shellVars, pluginVars
<1> QED
  BY <1>1, <1>2, <1>3, <1>4, <1>5, <1>6, <1>7, <1>8 DEF ExtensionStep, HandlerStep

LEMMA NextKeepsPlugin ==
  ASSUME IInv, [Next]_vars
  PROVE  PluginInv'
<1>1. CASE UiStep
  BY <1>1, ConnectKeepsPlugin
<1>2. CASE PluginStep
  BY <1>2, ClaimKeepsPlugin, ChainKeepsPlugin, StopKeepsPlugin, BeginKeepsPlugin,
     StartKeepsPlugin DEF PluginStep
<1>3. CASE ExtensionStep
  BY <1>3, ExtensionKeepsPlugin
<1>4. CASE UNCHANGED vars
  BY <1>4, PluginStays DEF vars, sharedVars, shellVars, pluginVars, IInv, PluginInv, PluginTyped
<1> QED
  BY <1>1, <1>2, <1>3, <1>4 DEF Next

-----------------------------------------------------------------------------
(* The owner journal                                                       *)

LEMMA JournalKinds ==
  ASSUME IInv,
         \/ journal' = journal
         \/ journal' = NoJournal
         \/ journal' = [journal EXCEPT !.phase = IF @ = "Pending" THEN "Stopping" ELSE @]
         \/ journal' = [phase |-> "Pending", att |-> issued + 1, ext |-> 0]
            /\ issued + 1 \in Attempts
         \/ journal' = [phase |-> "Attached", att |-> cur, ext |-> inc]
  PROVE  JournalInv'
<1>1. JournalInv /\ cur \in Attempts \cup {0} /\ inc \in 0 .. MaxInc
  BY DEF IInv, HandlerInv
<1>2. CASE journal' = [journal EXCEPT !.phase = IF @ = "Pending" THEN "Stopping" ELSE @]
  BY <1>1, <1>2 DEF JournalInv
<1>3. CASE journal' = [phase |-> "Attached", att |-> cur, ext |-> inc]
  BY <1>1, <1>3 DEF JournalInv
<1>4. CASE journal' = [phase |-> "Pending", att |-> issued + 1, ext |-> 0]
           /\ issued + 1 \in Attempts
  BY <1>4, SessionBounds DEF JournalInv
<1>5. CASE journal' = NoJournal
  BY <1>5, SessionBounds DEF JournalInv, NoJournal
<1> QED
  BY <1>1, <1>2, <1>3, <1>4, <1>5 DEF JournalInv

LEMMA NextKeepsJournal ==
  ASSUME IInv, [Next]_vars
  PROVE  JournalInv'
<1>q. ASSUME journal' = journal PROVE JournalInv'
  BY <1>q, JournalKinds
<1>1. CASE UiStep
  BY <1>1, <1>q DEF UiStep, Connect, Authenticated, AuthFailed, Disconnect, DisconnectBegin,
                    DisconnectEnd, UiTick, Watchdog, sharedVars
<1>2. CASE StopClaimed \/ StopRecover
  BY <1>2, JournalKinds DEF StopClaimed, StopRecover
<1>3. CASE StartBegin
  <2>1. issued < taps /\ taps \in 0 .. MaxConnect /\ issued \in 0 .. taps
    BY <1>3 DEF StartBegin, In, IInv, PluginInv, StartsCounted, Waiting, PluginTyped
  <2>2. issued + 1 \in Attempts
    BY <2>1, SessionBounds DEF Attempts
  <2> QED
    BY <1>3, <2>2, JournalKinds DEF StartBegin
<1>4. CASE ChainNext \/ StopSuperseded \/ StopRequest \/ StopCooperated \/ StopImpatient
           \/ StopOs \/ StopConfirmed \/ StopRejected \/ StopGivesUp
  BY <1>4, <1>q DEF ChainNext, StopSuperseded, StopRequest, StopCooperated, StopImpatient,
                    StopOs, StopConfirmed, StopRejected, StopGivesUp, sharedVars
<1>5. CASE StartRefused \/ StartSent \/ StartFailed \/ StartSettled \/ StartTimeout
  BY <1>5, <1>q DEF StartRefused, StartSent, StartFailed, StartSettled, StartTimeout, sharedVars
<1>6. CASE Bind \/ HandlerCatches \/ CleanupAck
  <2>1. journal' \in {journal, NoJournal, [phase |-> "Attached", att |-> cur, ext |-> inc]}
    BY <1>6 DEF Bind, HandlerCatches, FailUnattached, CleanupAck
  <2> QED
    BY <2>1, JournalKinds
<1>7. ASSUME NEW a \in Attempts, WantArrives(a)
      PROVE  JournalInv'
  BY <1>7, <1>q DEF WantArrives, sharedVars
<1>8. CASE HandleNext \/ HandleSuperseded \/ HandleStale \/ HandleChecked \/ BindRefused
           \/ StartPrepare \/ PrepareDone \/ CreateBegin \/ CreateDone \/ CreateFailed
           \/ OperationTimeout \/ AttachDone \/ AttachCheck \/ HandleClosed
  BY <1>8, <1>q DEF HandleNext, HandleSuperseded, HandleStale, HandleChecked, BindRefused,
                    StartPrepare, PrepareDone, CreateBegin, CreateDone, CreateFailed,
                    OperationTimeout, AttachDone, AttachCheck, HandleClosed, sharedVars
<1>9. CASE LatePublish \/ JobEnds \/ CreateSettles \/ ExtSync \/ Heartbeat \/ SessionEnds
           \/ CleanupStop \/ CleanupJoined \/ CleanupDestroy
           \/ OnDestroy \/ ExtensionExits \/ ExtensionCrashes
  BY <1>9, <1>q DEF LatePublish, JobEnds, CreateSettles, ExtSync, Heartbeat, SessionEnds,
                    CleanupStop, CleanupJoined, CleanupDestroy, OnDestroy, ExtensionExits,
                    ExtensionCrashes, ExtensionGone, sharedVars
<1>10. CASE PluginStep
  BY <1>10, <1>2, <1>3, <1>4, <1>5 DEF PluginStep
<1>11. CASE ExtensionStep
  BY <1>11, <1>6, <1>7, <1>8, <1>9 DEF ExtensionStep, HandlerStep, CleanupStep
<1>12. CASE UNCHANGED vars
  BY <1>12, <1>q DEF vars, sharedVars
<1> QED
  BY <1>1, <1>10, <1>11, <1>12 DEF Next

-----------------------------------------------------------------------------
(* The Extension's ability                                                 *)

\* The handler moves on with its request, or returns.
LEMMA HandlerMoves ==
  ASSUME HandlerInv, UNCHANGED <<ability, inc, wants>>,
         \/ UNCHANGED <<step, cur, req>>
         \/ step # "idle" /\ HandlerGoto(step') /\ step' # "idle"
         \/ HandlerEnds,
         step' \in {"idle", "wait", "bind", "begin", "prepare", "prepared", "create",
                    "attach", "check", "throw", "closing"},
         act' \in Attempts \cup {0}, tun' \in BOOLEAN,
         conn' \in {"none", "creating", "open"},
         cleanup' \in [stage : {"none", "stop", "join", "wait", "ack", "failed"},
                       att : Attempts \cup {0}]
  PROVE  HandlerInv'
<1>1. /\ cur' \in Attempts \cup {0} /\ req' \in Attempts \cup {0}
      /\ step' # "idle" => cur' # 0
  BY DEF HandlerInv, HandlerGoto, HandlerEnds
<1> QED
  BY <1>1 DEF HandlerInv

LEMMA CleanupTyped ==
  ASSUME HandlerInv
  PROVE  /\ NoCleanup \in [stage : {"none", "stop", "join", "wait", "ack", "failed"},
                           att : Attempts \cup {0}]
         /\ \A a \in Attempts \cup {0} :
              [stage |-> "stop", att |-> a]
                \in [stage : {"none", "stop", "join", "wait", "ack", "failed"},
                     att : Attempts \cup {0}]
         /\ \A s \in {"join", "wait", "ack", "failed"} :
              [cleanup EXCEPT !.stage = s]
                \in [stage : {"none", "stop", "join", "wait", "ack", "failed"},
                     att : Attempts \cup {0}]
BY DEF HandlerInv, NoCleanup

LEMMA CleanupBegins ==
  ASSUME HandlerInv, BeginCleanup
  PROVE  /\ act' \in Attempts \cup {0} /\ tun' \in BOOLEAN
         /\ cleanup' \in [stage : {"none", "stop", "join", "wait", "ack", "failed"},
                          att : Attempts \cup {0}]
<1>1. act' = 0 /\ act \in Attempts \cup {0}
  BY DEF HandlerInv, BeginCleanup
<1>2. tun' \in BOOLEAN
  BY Zenon DEF BeginCleanup
<1>3. cleanup' = cleanup \/ cleanup' = [stage |-> "stop", att |-> act]
  BY DEF BeginCleanup
<1> QED
  BY <1>1, <1>2, <1>3, CleanupTyped DEF HandlerInv

LEMMA RequestKeepsHandler ==
  ASSUME IInv, NEW a \in Attempts, WantArrives(a)
  PROVE  HandlerInv'
<1>i. HandlerInv
  BY DEF IInv
<1>1. /\ ability' \in {"absent", "up", "destroyed"} /\ inc' \in 0 .. MaxInc
  BY <1>i, SessionBounds DEF HandlerInv, WantArrives
<1>2. /\ wants' \subseteq Attempts /\ req' \in Attempts \cup {0}
      /\ UNCHANGED <<step, cur, act, tun, conn, cleanup>>
  BY <1>i DEF HandlerInv, WantArrives, tunnelVars
<1> QED
  BY <1>i, <1>1, <1>2 DEF HandlerInv

LEMMA ChecksKeepHandler ==
  ASSUME IInv, HandleNext \/ HandleSuperseded \/ HandleStale \/ HandleChecked
  PROVE  HandlerInv'
<1>i. HandlerInv
  BY DEF IInv
<1>t. UNCHANGED <<ability, inc, wants, act, tun, conn, cleanup>>
  BY DEF HandleNext, HandleSuperseded, HandleStale, HandleChecked, procVars, tunnelVars
<1>1. CASE HandleNext
  <2>1. req # 0 /\ cur' = req /\ req' = req /\ step' = "wait"
    BY <1>1 DEF HandleNext
  <2> QED
    BY <1>i, <1>t, <2>1 DEF HandlerInv
<1>2. CASE HandleSuperseded \/ HandleStale \/ HandleChecked
  <2>1. \/ HandlerEnds /\ step' = "idle"
        \/ step # "idle" /\ HandlerGoto("bind") /\ step' = "bind"
    BY <1>2 DEF HandleSuperseded, HandleStale, HandleChecked, Checkable, HandlerEnds, HandlerGoto
  <2> QED
    BY <1>i, <1>t, <2>1, HandlerMoves DEF HandlerInv
<1> QED
  BY <1>1, <1>2

LEMMA BindKeepsHandler ==
  ASSUME IInv, Bind \/ BindRefused
  PROVE  HandlerInv'
<1>i. HandlerInv
  BY DEF IInv
<1>t. UNCHANGED <<ability, inc, wants, conn>> /\ step = "bind"
  BY DEF Bind, BindRefused, ReadyToBind, procVars
<1>g. HandlerGoto(step') /\ step' \in {"closing", "begin", "throw"}
  BY DEF Bind, BindRefused, HandlerGoto
<1>1. CASE UNCHANGED <<act, tun, cleanup>>
  BY <1>i, <1>t, <1>g, <1>1, HandlerMoves DEF HandlerInv
<1>2. CASE act' = cur /\ UNCHANGED <<tun, cleanup>>
  BY <1>i, <1>t, <1>g, <1>2, HandlerMoves DEF HandlerInv
<1>3. CASE tun' = FALSE /\ act' = 0 /\ cleanup' = [stage |-> "stop", att |-> cur]
  <2>1. tun' \in BOOLEAN
    BY <1>3, Zenon
  <2>2. cleanup' \in [stage : {"none", "stop", "join", "wait", "ack", "failed"},
                      att : Attempts \cup {0}]
    BY <1>i, <1>3, CleanupTyped DEF HandlerInv
  <2>3. conn' \in {"none", "creating", "open"}
    BY <1>i, <1>t DEF HandlerInv
  <2> QED
    BY <1>i, <1>t, <1>g, <1>3, <2>1, <2>2, <2>3, HandlerMoves
<1> QED
  BY <1>1, <1>2, <1>3 DEF Bind, BindRefused

LEMMA StartKeepsHandler ==
  ASSUME IInv, StartPrepare \/ PrepareDone \/ CreateBegin \/ CreateFailed \/ OperationTimeout
               \/ AttachDone \/ AttachCheck \/ HandleClosed
  PROVE  HandlerInv'
<1>i. HandlerInv
  BY DEF IInv
<1>t. UNCHANGED <<ability, inc, wants, act, tun, cleanup>> /\ step # "idle"
  BY DEF StartPrepare, PrepareDone, CreateBegin, CreateFailed, OperationTimeout, AttachDone,
         AttachCheck, HandleClosed, procVars, tunnelVars
<1>c. conn' \in {"none", "creating", "open"}
  BY <1>i DEF StartPrepare, PrepareDone, CreateBegin, CreateFailed, OperationTimeout, AttachDone,
              AttachCheck, HandleClosed, tunnelVars, HandlerInv
<1>g. \/ HandlerEnds /\ step' = "idle"
      \/ HandlerGoto(step') /\ step' \in {"prepare", "throw", "prepared", "create", "check"}
  BY DEF StartPrepare, PrepareDone, CreateBegin, CreateFailed, OperationTimeout, AttachDone,
         AttachCheck, HandleClosed, HandlerGoto, HandlerEnds
<1> QED
  BY <1>i, <1>t, <1>c, <1>g, HandlerMoves DEF HandlerInv

LEMMA CreateKeepsHandler ==
  ASSUME IInv, CreateDone
  PROVE  HandlerInv'
<1>i. HandlerInv
  BY DEF IInv
<1>t. UNCHANGED <<ability, inc, wants>> /\ step = "create" /\ conn' = "open"
  BY DEF CreateDone, procVars
<1>1. CASE Handling
  <2>1. tun' \in BOOLEAN
    BY <1>1, Zenon DEF CreateDone
  <2>2. HandlerGoto("attach") /\ step' = "attach" /\ UNCHANGED <<act, cleanup>>
    BY <1>1 DEF CreateDone, HandlerGoto
  <2> QED
    BY <1>i, <1>t, <2>1, <2>2, HandlerMoves DEF HandlerInv
<1>2. CASE ~Handling
  <2>1. BeginCleanup /\ HandlerGoto("closing") /\ step' = "closing"
    BY <1>2 DEF CreateDone, HandlerGoto
  <2> QED
    BY <1>i, <1>t, <2>1, CleanupBegins, HandlerMoves
<1> QED
  BY <1>1, <1>2

LEMMA CatchKeepsHandler ==
  ASSUME IInv, HandlerCatches
  PROVE  HandlerInv'
<1>i. HandlerInv
  BY DEF IInv
<1>t. UNCHANGED <<ability, inc, wants, conn>> /\ step = "throw"
  BY DEF HandlerCatches, procVars
<1>c. conn' \in {"none", "creating", "open"}
  BY <1>i, <1>t DEF HandlerInv
<1>1. CASE HandlerEnds /\ UNCHANGED <<act, tun, cleanup>>
  BY <1>i, <1>t, <1>c, <1>1, HandlerMoves DEF HandlerInv, HandlerEnds
<1>2. CASE BeginCleanup /\ HandlerGoto("closing")
  <2>1. step' = "closing"
    BY <1>2 DEF HandlerGoto
  <2> QED
    BY <1>i, <1>t, <1>c, <1>2, <2>1, CleanupBegins, HandlerMoves
<1> QED
  BY <1>1, <1>2 DEF HandlerCatches

LEMMA RestKeepsHandler ==
  ASSUME IInv, LatePublish \/ JobEnds \/ CreateSettles \/ ExtSync \/ Heartbeat \/ SessionEnds
  PROVE  HandlerInv'
<1>i. HandlerInv
  BY DEF IInv
<1>t. UNCHANGED <<ability, inc, wants, step, cur, req>>
  BY DEF LatePublish, JobEnds, CreateSettles, ExtSync, Heartbeat, SessionEnds, procVars,
         handlerVars, abilityVars
<1>c. conn' \in {"none", "creating", "open"}
  BY <1>i DEF LatePublish, JobEnds, CreateSettles, ExtSync, Heartbeat, SessionEnds, tunnelVars,
              abilityVars, HandlerInv
<1>1. CASE UNCHANGED <<act, tun, cleanup>>
  BY <1>i, <1>t, <1>c, <1>1 DEF HandlerInv
<1>2. CASE BeginCleanup
  BY <1>i, <1>t, <1>c, <1>2, CleanupBegins DEF HandlerInv
<1> QED
  BY <1>1, <1>2 DEF LatePublish, JobEnds, CreateSettles, ExtSync, Heartbeat, SessionEnds,
                    handlerVars, tunnelVars, abilityVars

LEMMA CleanupKeepsHandler ==
  ASSUME IInv, CleanupStep
  PROVE  HandlerInv'
<1>i. HandlerInv
  BY DEF IInv
<1>t. UNCHANGED <<ability, inc, wants, step, cur, req, act, tun>>
  BY DEF CleanupStep, CleanupStop, CleanupJoined, CleanupDestroy, CleanupAck, procVars, handlerVars
<1>c. conn' \in {"none", "creating", "open"}
  BY <1>i DEF CleanupStep, CleanupStop, CleanupJoined, CleanupDestroy, CleanupAck, HandlerInv
<1>1. \/ cleanup' = NoCleanup
      \/ \E s \in {"join", "wait", "ack", "failed"} : cleanup' = [cleanup EXCEPT !.stage = s]
  BY DEF CleanupStep, CleanupStop, CleanupJoined, CleanupDestroy, CleanupAck, CleanupGoto
<1>2. cleanup' \in [stage : {"none", "stop", "join", "wait", "ack", "failed"},
                    att : Attempts \cup {0}]
  BY <1>i, <1>1, CleanupTyped
<1> QED
  BY <1>i, <1>t, <1>c, <1>2 DEF HandlerInv

LEMMA EndKeepsHandler ==
  ASSUME IInv, OnDestroy \/ ExtensionExits \/ ExtensionCrashes
  PROVE  HandlerInv'
<1>i. HandlerInv
  BY DEF IInv
<1>1. CASE OnDestroy
  <2>1. /\ ability' = "destroyed" /\ req' = 0 /\ UNCHANGED <<inc, wants, step, cur, conn>>
    BY <1>1 DEF OnDestroy
  <2>2. CASE UNCHANGED <<act, tun, cleanup>>
    BY <1>i, <2>1, <2>2 DEF HandlerInv
  <2>3. CASE BeginCleanup
    BY <1>i, <2>1, <2>3, CleanupBegins DEF HandlerInv
  <2> QED
    BY <1>1, <2>2, <2>3 DEF OnDestroy
<1>2. CASE ExtensionGone /\ wants' \subseteq wants \cup {act} /\ (act = 0 => wants' = wants)
  <2>1. /\ ability' = "absent" /\ inc' = inc /\ step' = "idle" /\ cur' = 0 /\ req' = 0 /\ act' = 0
        /\ conn' = "none" /\ cleanup' = NoCleanup
    BY <1>2 DEF ExtensionGone
  <2>2. tun' \in BOOLEAN
    BY <1>2, Zenon DEF ExtensionGone
  <2>3. wants' \subseteq Attempts
    BY <1>i, <1>2 DEF HandlerInv
  <2> QED
    BY <1>i, <2>1, <2>2, <2>3, CleanupTyped DEF HandlerInv
<1>3. CASE ExtensionExits \/ ExtensionCrashes
  <2>1. ExtensionGone
    BY <1>3 DEF ExtensionExits, ExtensionCrashes
  <2>2. wants' = wants \/ (act # 0 /\ wants' = wants \cup {act})
    BY <1>3 DEF ExtensionExits, ExtensionCrashes
  <2> QED
    BY <1>2, <2>1, <2>2
<1> QED
  BY <1>1, <1>3

LEMMA UiKeepsHandler ==
  ASSUME IInv, UiStep \/ PluginStep
  PROVE  HandlerInv'
<1>i. HandlerInv
  BY DEF IInv
<1>q. ASSUME UNCHANGED <<ability, inc, step, cur, req, act, tun, conn, cleanup>>,
             wants' \subseteq Attempts
      PROVE  HandlerInv'
  BY <1>i, <1>q DEF HandlerInv
<1>a. ASSUME UNCHANGED abilityVars
      PROVE  HandlerInv'
  BY <1>i, <1>a, <1>q DEF abilityVars, procVars, handlerVars, tunnelVars, HandlerInv
<1>1. CASE UiStep
  BY <1>1, <1>a DEF UiStep, Connect, Authenticated, AuthFailed, Disconnect, DisconnectBegin,
                    DisconnectEnd, UiTick, Watchdog
<1>2. CASE StartBegin
  <2>1. issued < taps /\ taps \in 0 .. MaxConnect /\ issued \in 0 .. taps
    BY <1>2 DEF StartBegin, In, IInv, PluginInv, StartsCounted, Waiting, PluginTyped
  <2>2. issued + 1 \in Attempts
    BY <2>1, SessionBounds DEF Attempts
  <2>3. wants' \subseteq Attempts
    BY <1>2, <1>i, <2>2 DEF StartBegin, HandlerInv
  <2> QED
    BY <1>2, <1>q, <2>3 DEF StartBegin, handlerVars, tunnelVars
<1>3. CASE StartFailed
  <2>1. wants' \subseteq Attempts
    BY <1>3, <1>i DEF StartFailed, HandlerInv
  <2> QED
    BY <1>3, <1>q, <2>1 DEF StartFailed, handlerVars, tunnelVars
<1>4. CASE StopClaimed \/ ChainNext \/ StopSuperseded \/ StopRequest \/ StopCooperated
           \/ StopImpatient \/ StopOs
  BY <1>4, <1>a DEF StopClaimed, ChainNext, StopSuperseded, StopRequest, StopCooperated,
                    StopImpatient, StopOs
<1>5. CASE StopConfirmed \/ StopRejected \/ StopRecover \/ StopGivesUp \/ StartRefused
           \/ StartSent \/ StartSettled \/ StartTimeout
  BY <1>5, <1>a DEF StopConfirmed, StopRejected, StopRecover, StopGivesUp, StartRefused,
                    StartSent, StartSettled, StartTimeout
<1> QED
  BY <1>1, <1>2, <1>3, <1>4, <1>5 DEF PluginStep

LEMMA NextKeepsHandler ==
  ASSUME IInv, [Next]_vars
  PROVE  HandlerInv'
<1>1. CASE UiStep \/ PluginStep
  BY <1>1, UiKeepsHandler
<1>2. CASE HandlerStep
  BY <1>2, ChecksKeepHandler, BindKeepsHandler, StartKeepsHandler, CreateKeepsHandler,
     CatchKeepsHandler DEF HandlerStep
<1>3. CASE ExtensionStep
  BY <1>2, <1>3, RequestKeepsHandler, RestKeepsHandler, CleanupKeepsHandler, EndKeepsHandler
     DEF ExtensionStep
<1>4. CASE UNCHANGED vars
  BY <1>4 DEF vars, abilityVars, procVars, handlerVars, tunnelVars, IInv, HandlerInv
<1> QED
  BY <1>1, <1>3, <1>4 DEF Next

-----------------------------------------------------------------------------
(* The owner of the tunnel                                                 *)

Owned ==
  /\ journal = [phase |-> "Attached", att |-> ext.att, ext |-> inc]
  /\ ext.lease = ext.att /\ ext.att # 0

\* A session runs, or may come to be prepared or to run without another binding.
Claims ==
  \/ ext.native = "running" \/ job \in {"prepare", "attach"}
  \/ step \in {"begin", "prepare", "prepared", "create"}

OwnerInv ==
  /\ ability = "absent" => ext = NewEngine /\ job = "none" /\ step = "idle"
  /\ ~Ended(ext) /\ Claims => Owned

\* An engine that gives its lease up has ended.
Retains(x, y) == ~Ended(y) => ~Ended(x) /\ y.att = x.att /\ y.lease = x.lease

LEMMA ApplyRetains ==
  ASSUME NEW x \in Engine, NEW f \in FrameOf
  PROVE  Retains(x, Apply(x, f, FALSE)) /\ Apply(x, f, FALSE).native = x.native
<1> DEFINE z == Settle(x, f)
           y == [z EXCEPT !.native = z.native, !.stop = z.stop \/ f.stop, !.own = z.own,
                          !.attd = IF f.out \in Terminal THEN f.attd ELSE z.attd \/ f.attd]
           r == f.out \notin Terminal /\ (y.native = "running" \/ y.run)
           o == IF ~r /\ y.out = "Pending" /\ f.life = "Failed" THEN "Failed" ELSE y.out
           l == LifeAfter(x, f, r, y.start)
           g == IF y.clean THEN 0 ELSE y.lease
<1>1. z \in Engine
  BY SettleFollows
<1>2. z.att = x.att /\ z.lease = x.lease /\ z.native = x.native
  BY DEF Settle, Engine
<1>3. Ended(z) \/ (~Ended(x) /\ z.clean = FALSE)
  BY DEF Settle, Engine, Ended
<1>4. /\ y.att = z.att /\ y.out = z.out /\ y.lease = z.lease /\ y.native = z.native
      /\ y.clean = z.clean /\ DOMAIN y = DOMAIN z
  <2> HIDE DEF z
  <2> QED
    BY <1>1 DEF Engine
<1>5. Apply(x, f, FALSE) = [y EXCEPT !.out = o, !.life = l, !.lease = g]
  BY DEF Apply
<1>6. y.out \in Terminal => o \in Terminal
  <2> HIDE DEF y, r
  <2> QED
    BY DEF Terminal
<1>7. y.clean = FALSE => g = y.lease
  OBVIOUS
<1>8. /\ Apply(x, f, FALSE).out = o /\ Apply(x, f, FALSE).lease = g
      /\ Apply(x, f, FALSE).att = y.att /\ Apply(x, f, FALSE).native = y.native
  <2>1. DOMAIN z = {"att", "out", "attd", "stop", "clean", "start", "run", "life", "own",
                    "hand", "lease", "native"}
    <3> HIDE DEF z
    <3> QED
      BY <1>1 DEF Engine
  <2> HIDE DEF y, o, l, g, z
  <2> QED
    BY <1>4, <1>5, <2>1
<1> HIDE DEF y, o, l, g, z, r
<1> QED
  BY <1>2, <1>3, <1>4, <1>6, <1>7, <1>8 DEF Retains, Ended

LEMMA AdoptStopsRunning ==
  ASSUME NEW x \in Engine, NEW f \in FrameOf
  PROVE  Adopt(x, f).native # "running"
<1> DEFINE n == IF x.native = "running" THEN "foreign" ELSE x.native
           y == [x EXCEPT !.att = f.att, !.out = f.out, !.attd = f.attd, !.stop = f.stop,
                          !.own = f.own, !.clean = f.clean, !.native = n]
<1>1. n # "running"
  OBVIOUS
<1> HIDE DEF n
<1>2. y.native = n /\ DOMAIN y = DOMAIN x
  BY DEF Engine
<1>3. \/ Adopt(x, f) = y
      \/ Adopt(x, f) = [y EXCEPT !.start = TRUE, !.run = FALSE, !.life = "Establishing"]
  BY DEF Adopt, n
<1> HIDE DEF y
<1>4. DOMAIN x = {"att", "out", "attd", "stop", "clean", "start", "run", "life", "own",
                  "hand", "lease", "native"}
  BY DEF Engine
<1> QED
  BY <1>1, <1>2, <1>3, <1>4

LEMMA FailRetains ==
  ASSUME NEW x \in Engine
  PROVE  /\ Retains(x, Fail(x)) /\ Fail(x).native = "none"
         /\ x.out = "Pending" => Ended(Fail(x))
<1> DEFINE o == IF x.out = "Pending" THEN "Failed" ELSE x.out
<1>1. Fail(x) = [x EXCEPT !.start = FALSE, !.run = FALSE, !.hand = FALSE, !.native = "none",
                          !.out = o, !.life = "Failed"]
  BY DEF Fail
<1>2. (x.out = "Pending" => o = "Failed") /\ (x.out # "Pending" => o = x.out)
  OBVIOUS
<1> HIDE DEF o
<1>3. /\ Fail(x).out = o /\ Fail(x).att = x.att /\ Fail(x).lease = x.lease
      /\ Fail(x).native = "none"
  BY <1>1 DEF Engine
<1> QED
  BY <1>2, <1>3 DEF Retains, Ended, Terminal

LEMMA StepsRetain ==
  ASSUME NEW x \in Engine
  PROVE  /\ Retains(x, Starting(x)) /\ Starting(x).native = x.native
         /\ Retains(x, Prepared(x)) /\ Prepared(x).native = "pending"
         /\ Retains(x, StopOrphan(x)) /\ StopOrphan(x).native \in {x.native, "none"}
         /\ StopOrphan(x).att = x.att /\ StopOrphan(x).lease = x.lease
         /\ Retains(x, Disconnected(x)) /\ Disconnected(x).native = x.native
<1>1. Retains(x, Starting(x)) /\ Starting(x).native = x.native
  BY DEF Starting, Engine, Retains, Ended
<1>2. Retains(x, Prepared(x)) /\ Prepared(x).native = "pending"
  BY DEF Prepared, Engine, Retains, Ended
<1>3. /\ Retains(x, StopOrphan(x)) /\ StopOrphan(x).native \in {x.native, "none"}
      /\ StopOrphan(x).att = x.att /\ StopOrphan(x).lease = x.lease
  BY DEF StopOrphan, Engine, Retains, Ended
<1>4. Retains(x, Disconnected(x)) /\ Disconnected(x).native = x.native
  BY DEF Disconnected, Engine, Retains, Ended
<1> QED
  BY <1>1, <1>2, <1>3, <1>4

LEMMA ReopenRetains ==
  ASSUME NEW x \in Engine
  PROVE  Retains(x, Reopen(x)) /\ Reopen(x).native = x.native /\ Reopen(x).att = x.att
<1> DEFINE y == [x EXCEPT !.out = "Pending", !.start = TRUE, !.run = FALSE, !.clean = FALSE]
<1>1. y.att = x.att /\ y.lease = x.lease /\ y.native = x.native
  BY DEF Engine
<1>2. Reopen(x) = x \/ (x.out = "Connected" /\ Reopen(x) = y)
  BY DEF Reopen
<1> HIDE DEF y
<1> QED
  BY <1>1, <1>2 DEF Retains, Ended, Terminal

LEMMA RunningRetains ==
  ASSUME NEW x \in Engine
  PROVE  Retains(x, Running(x))
<1> DEFINE o == IF x.out = "Pending" THEN "Connected" ELSE x.out
<1>1. Running(x) = [x EXCEPT !.native = "running", !.run = TRUE, !.start = FALSE,
                             !.life = "Connected", !.out = o]
  BY DEF Running
<1>2. o = x.out \/ x.out = "Pending"
  OBVIOUS
<1> HIDE DEF o
<1>3. Running(x).out = o /\ Running(x).att = x.att /\ Running(x).lease = x.lease
  BY <1>1 DEF Engine
<1> QED
  BY <1>2, <1>3 DEF Retains, Ended, Terminal

LEMMA NativeEndedRetains ==
  ASSUME NEW x \in Engine, NEW failed \in BOOLEAN
  PROVE  Retains(x, NativeEnded(x, failed)) /\ NativeEnded(x, failed).native = "none"
<1> DEFINE s == x.life \in {"Disconnected", "Disconnecting", "Failed"} \/ Ended(x)
           v == failed \/ (x.run /\ x.out = "Connected")
           o == IF s THEN x.out ELSE IF v THEN "Failed"
                ELSE IF x.out = "Pending" THEN "Cancelled" ELSE x.out
           l == IF s THEN x.life ELSE IF v THEN "Failed" ELSE "Disconnected"
<1>1. o = x.out \/ o \in Terminal
  BY DEF Terminal
<1>2. NativeEnded(x, failed) = [x EXCEPT !.native = "none", !.run = FALSE, !.start = FALSE,
                                 !.out = o, !.life = l]
  BY DEF NativeEnded
<1> HIDE DEF o, l, v, s
<1>3. /\ NativeEnded(x, failed).att = x.att /\ NativeEnded(x, failed).out = o /\ NativeEnded(x, failed).lease = x.lease
      /\ NativeEnded(x, failed).native = "none"
  BY <1>2 DEF Engine
<1> QED
  BY <1>1, <1>3 DEF Retains, Ended, Terminal

LEMMA DisconnectingEnds ==
  ASSUME NEW x \in Engine
  PROVE  Ended(Disconnecting(x))
<1> DEFINE o == IF x.out = "Failed" THEN x.out ELSE "Cancelled"
<1>1. Disconnecting(x) = [x EXCEPT !.start = FALSE, !.run = FALSE, !.stop = TRUE, !.native = "none",
                                   !.out = o, !.life = "Disconnecting"]
  BY DEF Disconnecting
<1>2. o \in Terminal
  BY DEF Terminal
<1> HIDE DEF o
<1>3. Disconnecting(x).out = o
  BY <1>1 DEF Engine
<1> QED
  BY <1>2, <1>3 DEF Ended

LEMMA SyncRetains ==
  ASSUME UiInv, ExtInv
  PROVE  Retains(ext, ExtSynced) /\ ExtSynced.native = ext.native
BY ApplyRetains DEF ExtSynced, Retains, UiInv, ExtInv

\* A step of the Extension that binds nothing and deletes no journal it needs.
LEMMA OwnerKept ==
  ASSUME OwnerInv, ability # "absent", ability' # "absent", inc' = inc,
         Retains(ext, ext'), ~Ended(ext') => journal' = journal,
         ~Ended(ext') /\ Claims' => Claims
  PROVE  OwnerInv'
BY DEF OwnerInv, Owned, Retains

\* A step of the UI process.
LEMMA OwnerUnmoved ==
  ASSUME OwnerInv, UNCHANGED <<ext, job, step, ability, inc>>,
         ~Ended(ext) /\ Claims /\ Owned => journal' = journal
  PROVE  OwnerInv'
BY DEF OwnerInv, Owned, Claims

LEMMA UiKeepsOwner ==
  ASSUME IInv, OwnerInv, UiStep
  PROVE  OwnerInv'
<1>1. CASE Connect \/ Authenticated \/ AuthFailed \/ Disconnect \/ DisconnectBegin
           \/ DisconnectEnd
  BY <1>1, OwnerUnmoved DEF Connect, Authenticated, AuthFailed, Disconnect, DisconnectBegin,
           DisconnectEnd, extVars, sharedVars, abilityVars, procVars, handlerVars, tunnelVars
<1>2. CASE UiTick \/ Watchdog
  BY <1>2, OwnerUnmoved DEF UiTick, Watchdog, UiRead, extVars, sharedVars, abilityVars, procVars,
           handlerVars, tunnelVars
<1> QED
  BY <1>1, <1>2 DEF UiStep

\* The plugin deletes the journal of an attached owner only when its lease is free.
LEMMA PluginKeepsOwner ==
  ASSUME IInv, OwnerInv, PluginStep
  PROVE  OwnerInv'
<1>n. (ability = "absent" => ext = NewEngine /\ job = "none" /\ step = "idle")
      /\ NewEngine.native = "none"
  BY DEF OwnerInv, NewEngine
<1>1. CASE StopClaimed
  <2>1. journal' = [journal EXCEPT !.phase = IF @ = "Pending" THEN "Stopping" ELSE @]
        /\ UNCHANGED <<ext, job, step, ability, inc>>
    BY <1>1 DEF StopClaimed, UiRead, abilityVars, procVars, handlerVars, tunnelVars
  <2>2. journal.phase = "Attached" => journal' = journal
    BY <2>1 DEF IInv, JournalInv
  <2> QED
    BY <2>1, <2>2, OwnerUnmoved DEF Owned
<1>2. CASE StopRecover
  <2>1. /\ UNCHANGED <<ext, job, step, ability, inc>>
        /\ journal' = journal \/ OwnerGone(UiSynced)
    BY <1>2 DEF StopRecover, UiRead, abilityVars, procVars, handlerVars, tunnelVars
  <2>2. Claims => ability # "absent"
    BY <1>n DEF Claims
  <2>3. Claims /\ Owned => ~OwnerGone(UiSynced)
    BY <2>2 DEF Owned, OwnerGone, ExtLeaseFree
  <2> QED
    BY <2>1, <2>3, OwnerUnmoved
<1>3. CASE StartBegin
  <2>1. journal = NoJournal /\ UNCHANGED <<ext, job, step, ability, inc>>
    BY <1>3 DEF StartBegin, CanStart, UiRead, handlerVars, tunnelVars
  <2>2. ~Owned
    BY <2>1 DEF Owned, NoJournal
  <2> QED
    BY <2>1, <2>2, OwnerUnmoved
<1>4. CASE StartFailed
  BY <1>4, OwnerUnmoved DEF StartFailed, FailStart, UiRead, sharedVars, handlerVars, tunnelVars
<1>5. CASE StopRequest \/ StopCooperated \/ StopGivesUp \/ StartRefused \/ StartSettled
           \/ StartTimeout
  <2>1. ext' = ext
    BY <1>5 DEF StopRequest, StopCooperated, StopGivesUp, StartRefused, StartSettled, StartTimeout,
                FailStart, UiRead, extVars
  <2>2. UNCHANGED <<job, step, ability, inc, journal>>
    BY <1>5 DEF StopRequest, StopCooperated, StopGivesUp, StartRefused, StartSettled, StartTimeout,
                sharedVars, abilityVars, procVars, handlerVars, tunnelVars
  <2> QED
    BY <2>1, <2>2, OwnerUnmoved
<1>6. CASE ChainNext \/ StopSuperseded \/ StopImpatient \/ StopOs \/ StopConfirmed
           \/ StopRejected \/ StartSent
  BY <1>6, OwnerUnmoved DEF ChainNext, StopSuperseded, StopImpatient, StopOs, StopConfirmed,
           StopRejected, StartSent, extVars, sharedVars, abilityVars, procVars, handlerVars,
           tunnelVars
<1> QED
  BY <1>1, <1>2, <1>3, <1>4, <1>5, <1>6 DEF PluginStep

LEMMA RequestsKeepOwner ==
  ASSUME IInv, OwnerInv,
         (\E a \in Attempts : WantArrives(a)) \/ LatePublish \/ HandleNext \/ HandleSuperseded
         \/ HandleStale \/ HandleChecked
  PROVE  OwnerInv'
<1>1. ASSUME NEW a \in Attempts, WantArrives(a)
      PROVE  OwnerInv'
  <2>1. UNCHANGED <<ext, journal, step, job>>
    BY <1>1 DEF WantArrives, extVars, sharedVars, tunnelVars
  <2>2. CASE UNCHANGED <<ability, inc>>
    BY <2>1, <2>2, OwnerUnmoved
  <2>3. CASE ability = "absent" /\ ability' = "up"
    <3>1. ext = NewEngine /\ job = "none" /\ step = "idle"
      BY <2>3 DEF OwnerInv
    <3>2. ~Claims'
      BY <2>1, <3>1 DEF Claims, NewEngine
    <3> QED
      BY <2>3, <3>2 DEF OwnerInv
  <2> QED
    BY <1>1, <2>2, <2>3 DEF WantArrives
<1>2. CASE LatePublish
  BY <1>2, OwnerUnmoved DEF LatePublish, sharedVars, handlerVars, tunnelVars
<1>3. CASE HandleNext \/ HandleSuperseded \/ HandleStale \/ HandleChecked
  <2>1. /\ UNCHANGED <<ext, journal, job, ability, inc>> /\ ability = "up"
        /\ step' \in {"wait", "idle", "bind"}
    BY <1>3 DEF HandleNext, HandleSuperseded, HandleStale, HandleChecked, Checkable, AbilityUp,
                HandlerEnds, HandlerGoto, extVars, sharedVars, procVars, tunnelVars
  <2> QED
    BY <2>1, OwnerKept DEF Claims, Retains
<1> QED
  BY <1>1, <1>2, <1>3

\* The binding makes an owner; one that is refused leaves no session that runs.
LEMMA BindKeepsOwner ==
  ASSUME IInv, OwnerInv, Bind \/ BindRefused
  PROVE  OwnerInv'
<1> DEFINE x == Rebound(uiLane)
<1>s. step = "bind" /\ ability = "up" /\ UNCHANGED <<ability, inc>>
  BY DEF Bind, BindRefused, ReadyToBind, procVars
<1>1. CASE Bind
  <2> DEFINE r == Reopen(x)
             b == Bound(r, inc)
             y == StopOrphan(b)
  <2>1. /\ uiLane.att = cur /\ ext' = y
        /\ journal' = [phase |-> "Attached", att |-> cur, ext |-> inc]
    BY <1>1 DEF Bind, CanBind, ExtPublish
  <2> HIDE DEF y
  <2>2. x \in Engine /\ x.att = cur /\ cur # 0
    BY <1>s, <2>1, ReboundFollows
  <2> HIDE DEF x
  <2>3. r \in Engine /\ r.att = cur
    BY <2>2, ReopenFollows, ReopenRetains
  <2> HIDE DEF r
  <2>4. b.att = cur /\ b.lease = cur
    BY <2>3 DEF Bound, Engine
  <2>b. b \in Engine
    BY <2>3, BoundFollows, SessionBounds DEF IInv, HandlerInv
  <2> HIDE DEF b
  <2>5. y.att = cur /\ y.lease = cur
    BY <2>4, <2>b, StepsRetain DEF y
  <2> QED
    BY <1>s, <2>1, <2>2, <2>5 DEF OwnerInv, Owned
<1>2. CASE BindRefused
  <2>1. journal' = journal /\ step' = "throw"
    BY <1>2 DEF BindRefused, sharedVars, HandlerGoto
  <2>2. CASE UNCHANGED <<ext, job>>
    BY <1>s, <2>1, <2>2, OwnerKept DEF Claims, Retains
  <2>3. CASE /\ uiLane.att = cur /\ ext' = IF Ended(x) THEN x ELSE Reopen(x)
             /\ job' = IF ext.att # cur THEN Superseded(job) ELSE job
    <3>1. x \in Engine /\ uiLane \in FrameOf /\ ext \in Engine
      BY <1>s, <2>3, ReboundFollows DEF IInv, UiInv, ExtInv
    <3>2. /\ Retains(x, ext') /\ ext'.native = x.native
      <4>1. Retains(x, x)
        BY DEF Retains
      <4> HIDE DEF x
      <4> QED
        BY <2>3, <3>1, <4>1, ReopenRetains
    <3>3. CASE ext.att = cur
      <4>1. x = Apply(ext, uiLane, FALSE)
        BY <2>3, <3>3 DEF Rebound
      <4>2. Retains(ext, x) /\ x.native = ext.native
        BY <3>1, <4>1, ApplyRetains
      <4> HIDE DEF x
      <4>3. Retains(ext, ext') /\ ext'.native = ext.native
        BY <3>2, <4>2 DEF Retains
      <4> QED
        BY <1>s, <2>1, <2>3, <3>3, <4>3, OwnerKept DEF Claims
    <3>4. CASE ext.att # cur
      <4>1. x = Apply(Adopt(ext, uiLane), uiLane, FALSE)
        BY <2>3, <3>4 DEF Rebound
      <4>2. Adopt(ext, uiLane).native # "running" /\ Adopt(ext, uiLane) \in Engine
        BY <3>1, AdoptTyped, AdoptStopsRunning
      <4>3. x.native # "running"
        BY <3>1, <4>1, <4>2, ApplyRetains
      <4>4. job' \notin {"prepare", "attach"}
        BY <2>3, <3>4 DEF Superseded, IInv, ExtInv
      <4> QED
        BY <1>s, <2>1, <3>2, <4>3, <4>4 DEF OwnerInv, Claims
    <3> QED
      BY <3>3, <3>4
  <2> QED
    BY <1>2, <2>2, <2>3 DEF BindRefused, ExtQuiet, extVars
<1> QED
  BY <1>1, <1>2

LEMMA CatchKeepsOwner ==
  ASSUME IInv, OwnerInv, HandlerCatches
  PROVE  OwnerInv'
<1>t. /\ ability = "up" /\ step = "throw" /\ UNCHANGED <<ability, inc, job>>
      /\ step' \in {"idle", "closing"}
  BY DEF HandlerCatches, procVars, HandlerEnds, HandlerGoto
<1>i. UiInv /\ ExtInv /\ ext \in Engine
  BY DEF IInv, ExtInv
<1>s. ExtSynced \in Engine /\ Retains(ext, ExtSynced) /\ ExtSynced.native = ext.native
  BY <1>i, ExtSyncedFollows, SyncRetains
<1>f. Retains(ext, Fail(ExtSynced)) /\ Fail(ExtSynced).native = "none"
  BY <1>s, FailRetains DEF Retains
<1>1. CASE journal' = journal /\ ext' \in {ext, ExtSynced, Fail(ExtSynced)}
  <2>1. Retains(ext, ext') /\ ext'.native \in {ext.native, "none"}
    BY <1>1, <1>s, <1>f DEF Retains
  <2> QED
    BY <1>t, <1>1, <2>1, OwnerKept DEF Claims
<1>2. CASE /\ ExtSynced.out = "Pending"
           /\ ext' = [Fail(ExtSynced) EXCEPT !.clean = TRUE, !.lease = 0]
  <2>1. Fail(ExtSynced) \in Engine /\ Ended(Fail(ExtSynced))
    BY <1>2, <1>s, FailFollows, FailRetains
  <2>2. Ended(ext')
    BY <1>2, <2>1 DEF Engine, Ended
  <2> QED
    BY <1>t, <2>2 DEF OwnerInv
<1>3. CASE ~Newest
  BY <1>1, <1>3 DEF HandlerCatches, extVars
<1>4. CASE Newest /\ act = cur
  BY <1>1, <1>4 DEF HandlerCatches, ExtPublish, ExtQuiet
<1>5. CASE Newest /\ act # cur
  BY <1>1, <1>2, <1>5 DEF HandlerCatches, FailUnattached, ExtPublish, ExtQuiet
<1> QED
  BY <1>3, <1>4, <1>5

LEMMA HandlerKeepsOwner ==
  ASSUME IInv, OwnerInv,
         StartPrepare \/ PrepareDone \/ CreateBegin \/ CreateDone \/ CreateFailed
         \/ OperationTimeout \/ AttachDone \/ HandleClosed
  PROVE  OwnerInv'
<1>t. ability = "up" /\ UNCHANGED <<ability, inc, journal>>
  BY DEF StartPrepare, PrepareDone, CreateBegin, CreateDone, CreateFailed, OperationTimeout,
         AttachDone, HandleClosed, AbilityUp, procVars, sharedVars
<1>i. UiInv /\ ExtInv /\ ext \in Engine
  BY DEF IInv, ExtInv
<1>s. ExtSynced \in Engine /\ Retains(ext, ExtSynced) /\ ExtSynced.native = ext.native
  BY <1>i, ExtSyncedFollows, SyncRetains
<1>r. Retains(ext, ext)
  BY DEF Retains
<1>1. CASE StartPrepare
  <2>1. step = "begin"
    BY <1>1 DEF StartPrepare
  <2>2. ext' \in {ExtSynced, Starting(ExtSynced)}
    BY <1>1 DEF StartPrepare, ExtPublish, ExtQuiet
  <2>3. Retains(ext, ext')
    BY <1>s, <2>2, StepsRetain DEF Retains
  <2> QED
    BY <1>t, <2>1, <2>3, OwnerKept DEF Claims
<1>2. CASE PrepareDone
  <2>1. step = "prepare" /\ ext' \in {ext, Prepared(ext)}
    BY <1>2 DEF PrepareDone, ExtPublish, extVars
  <2>2. Retains(ext, ext')
    BY <1>i, <1>r, <2>1, StepsRetain
  <2> QED
    BY <1>t, <2>1, <2>2, OwnerKept DEF Claims
<1>3. CASE CreateBegin \/ CreateFailed
  <2>1. step \in {"prepared", "create"} /\ ext' = ext
    BY <1>3 DEF CreateBegin, CreateFailed, extVars
  <2> QED
    BY <1>r, <1>t, <2>1, OwnerKept DEF Claims
<1>4. CASE CreateDone
  <2>1. step = "create" /\ ext' \in {ext, [ext EXCEPT !.native = "none"]}
    BY <1>4 DEF CreateDone, ExtQuiet, extVars
  <2>2. Retains(ext, ext')
    BY <1>i, <1>r, <2>1 DEF Retains, Ended, Engine
  <2> QED
    BY <1>t, <2>1, <2>2, OwnerKept DEF Claims
<1>5. CASE OperationTimeout \/ HandleClosed
  <2>1. ext' = ext /\ job' = job /\ step' \in {"idle", "throw"}
    BY <1>5 DEF OperationTimeout, HandleClosed, extVars, tunnelVars, HandlerGoto, HandlerEnds
  <2> QED
    BY <1>r, <1>t, <2>1, OwnerKept DEF Claims
<1>6. CASE AttachDone
  <2>1. job' = "none" /\ step' \in {"check", "throw"}
    BY <1>6 DEF AttachDone, HandlerGoto
  <2>2. CASE ext' = ext
    BY <1>r, <1>t, <2>1, <2>2, OwnerKept DEF Claims
  <2>3. CASE job = "attach" /\ ext' = Running(ext)
    BY <1>i, <1>t, <2>3, RunningRetains, OwnerKept DEF Claims
  <2> QED
    BY <1>6, <2>2, <2>3 DEF AttachDone, ExtPublish, extVars
<1> QED
  BY <1>1, <1>2, <1>3, <1>4, <1>5, <1>6

LEMMA TickKeepsOwner ==
  ASSUME IInv, OwnerInv, AttachCheck \/ ExtSync \/ Heartbeat
  PROVE  OwnerInv'
<1>t. ability = "up" /\ UNCHANGED <<ability, inc, journal, job>>
  BY DEF AttachCheck, ExtSync, Heartbeat, AbilityUp, procVars, sharedVars, tunnelVars
<1>p. step' = step \/ step' \in {"idle", "throw"}
  BY DEF AttachCheck, ExtSync, Heartbeat, handlerVars, HandlerEnds, HandlerGoto
<1>i. UiInv /\ ExtInv
  BY DEF IInv
<1>s. ExtSynced \in Engine /\ Retains(ext, ExtSynced) /\ ExtSynced.native = ext.native
  BY <1>i, ExtSyncedFollows, SyncRetains
<1>1. ext' \in {ext, ExtSynced, StopOrphan(ExtSynced)}
  BY DEF AttachCheck, ExtSync, Heartbeat, ExtTicks, ExtPublish, ExtQuiet, extVars
<1>2. Retains(ext, ext') /\ ext'.native \in {ext.native, "none"}
  BY <1>s, <1>1, StepsRetain DEF Retains
<1> QED
  BY <1>t, <1>p, <1>2, OwnerKept DEF Claims

LEMMA JobKeepsOwner ==
  ASSUME IInv, OwnerInv, JobEnds \/ CreateSettles \/ SessionEnds
  PROVE  OwnerInv'
<1>t. ability # "absent" /\ UNCHANGED <<ability, inc, journal, step>>
  BY DEF JobEnds, CreateSettles, SessionEnds, procVars, handlerVars, abilityVars, sharedVars
<1>i. ext \in Engine
  BY DEF IInv, ExtInv
<1>1. CASE ext' = ext /\ job' \in {job, "none"}
  BY <1>t, <1>1, OwnerKept DEF Claims, Retains
<1>2. CASE ext' = Prepared(ext) /\ job' = "none"
  BY <1>i, <1>t, <1>2, StepsRetain, OwnerKept DEF Claims
<1>3. CASE job = "attach" /\ ext' = Running(ext)
  BY <1>i, <1>t, <1>3, RunningRetains, OwnerKept DEF Claims
<1>4. CASE (\E failed \in BOOLEAN : ext' = NativeEnded(ext, failed)) /\ job' = job
  BY <1>i, <1>t, <1>4, NativeEndedRetains, OwnerKept DEF Claims
<1>5. CASE JobEnds
  BY <1>1, <1>2, <1>3, <1>5 DEF JobEnds, ExtPublish, extVars
<1>6. CASE CreateSettles
  BY <1>1, <1>6 DEF CreateSettles, extVars
<1>7. CASE SessionEnds
  BY <1>4, <1>7 DEF SessionEnds, ExtPublish, abilityVars, tunnelVars
<1> QED
  BY <1>5, <1>6, <1>7

LEMMA CleanupKeepsOwner ==
  ASSUME IInv, OwnerInv, CleanupStep
  PROVE  OwnerInv'
<1>t. ability # "absent" /\ UNCHANGED <<ability, inc, step>>
  BY DEF CleanupStep, CleanupStop, CleanupJoined, CleanupDestroy, CleanupAck, procVars, handlerVars
<1>i. UiInv /\ ExtInv /\ ext \in Engine
  BY DEF IInv, ExtInv
<1>s. ExtSynced \in Engine /\ Retains(ext, ExtSynced) /\ ExtSynced.native = ext.native
  BY <1>i, ExtSyncedFollows, SyncRetains
<1>1. CASE ext' \in {ext, ExtSynced} /\ UNCHANGED <<job, journal>>
  <2>1. Retains(ext, ext') /\ ext'.native = ext.native
    BY <1>s, <1>1 DEF Retains
  <2> QED
    BY <1>t, <1>1, <2>1, OwnerKept DEF Claims
<1>2. CASE Ended(ext')
  BY <1>t, <1>2 DEF OwnerInv
<1>3. CASE CleanupStop
  <2>1. \/ ext' = ext /\ UNCHANGED <<job, journal>>
        \/ ext' = Disconnecting(ext)
    BY <1>3 DEF CleanupStop, ExtPublish, extVars, sharedVars
  <2> QED
    BY <1>i, <1>1, <1>2, <2>1, DisconnectingEnds
<1>4. CASE CleanupJoined
  <2>1. ext' \in {ext, Disconnected(ext)} /\ UNCHANGED <<job, journal>>
    BY <1>4 DEF CleanupJoined, ExtPublish, extVars, sharedVars
  <2>2. Retains(ext, ext') /\ ext'.native = ext.native
    BY <1>i, <2>1, StepsRetain DEF Retains
  <2> QED
    BY <1>t, <2>1, <2>2, OwnerKept DEF Claims
<1>5. CASE CleanupDestroy
  BY <1>1, <1>5 DEF CleanupDestroy, extVars, sharedVars
<1>6. CASE CleanupAck
  <2>1. \/ ext' \in {ext, ExtSynced} /\ UNCHANGED <<job, journal>>
        \/ Ended(ExtSynced) /\ ext' = CleanedUp(ExtSynced)
    BY <1>6 DEF CleanupAck, CanAcknowledge, ExtPublish, ExtQuiet, extVars
  <2> QED
    BY <1>s, <1>1, <1>2, <2>1, CleanedUpFollows DEF Follows
<1> QED
  BY <1>3, <1>4, <1>5, <1>6 DEF CleanupStep

LEMMA EndKeepsOwner ==
  ASSUME IInv, OwnerInv, OnDestroy \/ ExtensionExits \/ ExtensionCrashes
  PROVE  OwnerInv'
<1>1. CASE OnDestroy
  BY <1>1, OwnerKept DEF OnDestroy, AbilityUp, extVars, sharedVars, Claims, Retains
<1>2. CASE ExtensionGone
  <2>1. ext' = NewEngine /\ job' = "none" /\ step' = "idle"
    BY <1>2 DEF ExtensionGone
  <2>2. ~Claims'
    BY <2>1 DEF Claims, NewEngine
  <2> QED
    BY <2>1, <2>2 DEF OwnerInv
<1> QED
  BY <1>1, <1>2 DEF ExtensionExits, ExtensionCrashes

LEMMA NextKeepsOwner ==
  ASSUME IInv, OwnerInv, [Next]_vars
  PROVE  OwnerInv'
<1>1. CASE UiStep \/ PluginStep
  BY <1>1, UiKeepsOwner, PluginKeepsOwner
<1>2. CASE HandlerStep
  BY <1>2, RequestsKeepOwner, BindKeepsOwner, CatchKeepsOwner, HandlerKeepsOwner, TickKeepsOwner
     DEF HandlerStep
<1>3. CASE ExtensionStep
  BY <1>2, <1>3, RequestsKeepOwner, JobKeepsOwner, TickKeepsOwner, CleanupKeepsOwner,
     EndKeepsOwner DEF ExtensionStep
<1>4. CASE UNCHANGED vars
  BY <1>4, OwnerUnmoved DEF vars, extVars, sharedVars, abilityVars, procVars, handlerVars,
                            tunnelVars
<1> QED
  BY <1>1, <1>3, <1>4 DEF Next

-----------------------------------------------------------------------------
(* Theorems                                                                *)

LEMMA StepKeeps ==
  ASSUME IInv, [Next]_vars
  PROVE  IInv' /\ UiKept /\ ExtKept
BY NextKeepsUi, NextKeepsExt, NextKeepsPlugin, NextKeepsJournal, NextKeepsHandler
   DEF IInv, UiKept, ExtKept

\* The two processes, the plugin and the system keep the session well typed:
\* an engine never leaves its lifecycle, and however starts and stops overtake
\* each other no more attempts are issued than the user asked for.
THEOREM TypeCorrect == Spec => []TypeOK
<1>1. Init => IInv
  BY InitEstablishes
<1>2. IInv /\ [Next]_vars => IInv'
  BY StepKeeps
<1>3. IInv => TypeOK
  BY InvariantTyped
<1> QED
  BY <1>1, <1>2, <1>3, PTL DEF Spec

\* Failed or Cancelled sticks to its attempt in the UI engine and in the
\* Extension engine: no frame of the peer, published in any order, read late or
\* replaced unread, reopens it; only another attempt or another process follows.
THEOREM OutcomesStick == Spec => TerminalSticks
<1>1. Init => IInv
  BY InitEstablishes
<1>2. IInv /\ [Next]_vars => IInv' /\ [TerminalStep]_vars
  BY StepKeeps DEF TerminalStep, UiKept, ExtKept
<1> QED
  BY <1>1, <1>2, PTL DEF Spec, TerminalSticks

\* Packets flow only in the process the journal names, and while it holds the
\* Extension lease.  What makes it so: an engine gives its lease up only with
\* its outcome, an attachment is superseded when the engine adopts another
\* attempt, and the journal of an attached owner is deleted only by its own
\* acknowledgement or when its lease is free (OwnerInv).
THEOREM TunnelOwned == Spec => []TunnelIsOwned
<1>1. Init => IInv /\ OwnerInv
  <2>1. Init => OwnerInv
    BY DEF Init, OwnerInv, Claims, NewEngine
  <2> QED
    BY <2>1, InitEstablishes
<1>2. IInv /\ OwnerInv /\ [Next]_vars => IInv' /\ OwnerInv'
  BY StepKeeps, NextKeepsOwner
<1>3. OwnerInv => TunnelIsOwned
  BY DEF OwnerInv, Claims, Owned, TunnelIsOwned, Live
<1> QED
  BY <1>1, <1>2, <1>3, PTL DEF Spec

=============================================================================
