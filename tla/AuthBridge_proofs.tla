-------------------------- MODULE AuthBridge_proofs --------------------------
(***************************************************************************)
(* Proofs about AuthBridge for any number of taps, tasks and forms.        *)
(*                                                                         *)
(* FormHasWaiter and AbortedShowsNothing are inductive only together: a    *)
(* worker gives up on the form in the slot after it has read the abort     *)
(* flag, and at that moment the slot is known to be empty.  FreshIds says  *)
(* that the channels of ids not yet given out are unused, which a posted   *)
(* form needs, and IdleHoldsNothing that a new task takes no waiting       *)
(* worker's place.                                                         *)
(***************************************************************************)
EXTENDS AuthBridge, TLAPS

FreshIds == \A f \in FormId : f > nextId => chan[f] = "open"

IdleHoldsNothing ==
  \A t \in Task : /\ step[t] \in {"waiting", "timedOut", "replied", "leaving"} <=> held[t] # NoForm
                  /\ t > taps => step[t] = "idle"

IInv ==
  /\ TypeOK
  /\ FormHasWaiter
  /\ AbortedShowsNothing
  /\ AnswersOwnForm
  /\ FreshIds
  /\ IdleHoldsNothing

USE DEF Task, FormId, NoForm, Lifecycle, Busy, ConnectStep, DisconnectStep, Outcome,
        engineVars, reducerVars, taskVars, bridgeVars, replyVars, Goto

LEMMA InitEstablishes == ASSUME Init PROVE IInv
<1>1. TypeOK
  <2>1. step \in [Task -> ConnectStep \union DisconnectStep \union Outcome \union {"idle"}]
    BY DEF Init
  <2>2. chan \in [FormId -> {"open", "submitted", "cancelled", "dropped"}]
    BY DEF Init
  <2>3. /\ taskGen \in [Task -> Nat] /\ held \in [Task -> 0 .. nextId]
        /\ typed \in [FormId -> FormId \union {NoForm}]
    BY DEF Init
  <2>4. 0 \in 0 .. MaxTap /\ 0 \in 0 .. MaxForm
    BY AuthBounds
  <2>5. /\ life \in Lifecycle /\ shown \in Lifecycle /\ gen \in Nat /\ aborted \in BOOLEAN
        /\ taps = 0 /\ nextId = 0 /\ form = 0 /\ pending = 0
    BY DEF Init
  <2> QED
    BY <2>1, <2>2, <2>3, <2>4, <2>5 DEF TypeOK
<1>2. FormHasWaiter /\ AbortedShowsNothing /\ AnswersOwnForm /\ FreshIds
  BY DEF Init, FormHasWaiter, AbortedShowsNothing, AnswersOwnForm, FreshIds
<1>3. IdleHoldsNothing
  BY DEF Init, IdleHoldsNothing
<1> QED
  BY <1>1, <1>2, <1>3 DEF IInv

\* What abort, begin_session and a cleared slot do to the channels.
LEMMA ChannelsKept ==
  ASSUME TypeOK
  PROVE  /\ Cancelled \in [FormId -> {"open", "submitted", "cancelled", "dropped"}]
         /\ Dropped \in [FormId -> {"open", "submitted", "cancelled", "dropped"}]
         /\ \A f \in FormId : f # pending => Cancelled[f] = chan[f] /\ Dropped[f] = chan[f]
BY DEF TypeOK, Cancelled, Dropped

\* A step that leaves the bridge, the channels and every worker alone.
LEMMA BystanderKeeps ==
  ASSUME IInv, UNCHANGED <<bridgeVars, replyVars>>,
         TypeOK', IdleHoldsNothing',
         \A t \in Task : step[t] \in {"waiting", "timedOut"} => step'[t] = step[t]
  PROVE  IInv'
<1>1. FormHasWaiter'
  BY DEF IInv, FormHasWaiter
<1> QED
  BY <1>1 DEF IInv, AbortedShowsNothing, AnswersOwnForm, FreshIds

\* A step that empties the slot and uses no channel but that of its form.
LEMMA EmptyingKeeps ==
  ASSUME IInv, pending' = NoForm, nextId' = nextId, typed' = typed,
         chan' = Cancelled \/ chan' = Dropped,
         TypeOK', IdleHoldsNothing'
  PROVE  IInv'
<1>1. FreshIds'
  BY DEF IInv, FreshIds, TypeOK, Cancelled, Dropped
<1>2. AnswersOwnForm'
  BY DEF IInv, AnswersOwnForm, TypeOK, Cancelled, Dropped
<1> QED
  BY <1>1, <1>2 DEF FormHasWaiter, AbortedShowsNothing, IInv

-----------------------------------------------------------------------------
(* The reducer                                                             *)

LEMMA TapKeeps == ASSUME IInv, TapConnect \/ TapDisconnect PROVE IInv'
<1> USE AuthBounds DEF IInv
<1>1. taps + 1 \in Task
  BY DEF TypeOK, TapConnect, TapDisconnect
<1>2. step[taps + 1] = "idle"
  BY <1>1 DEF TypeOK, IdleHoldsNothing
<1>3. PICK s \in {"connect", "disconnect"} : step' = [step EXCEPT ![taps + 1] = s]
  BY DEF TapConnect, TapDisconnect
<1>4. TypeOK'
  <2>1. taps' \in 0 .. MaxTap /\ shown' \in Lifecycle
    BY DEF TypeOK, TapConnect, TapDisconnect
  <2>2. step' \in [Task -> ConnectStep \union DisconnectStep \union Outcome \union {"idle"}]
    BY <1>1, <1>3 DEF TypeOK
  <2> QED
    BY <2>1, <2>2 DEF TypeOK, TapConnect, TapDisconnect
<1>6. IdleHoldsNothing'
  <2>1. taps' = taps + 1 /\ held' = held /\ taps \in Nat
    BY DEF TypeOK, TapConnect, TapDisconnect
  <2> QED
    BY <1>1, <1>2, <1>3, <2>1 DEF TypeOK, IdleHoldsNothing
<1>5. \A t \in Task : step[t] \in {"waiting", "timedOut"} => step'[t] = step[t]
  BY <1>1, <1>2 DEF TypeOK, TapConnect, TapDisconnect
<1> QED
  BY <1>4, <1>5, <1>6, BystanderKeeps DEF TapConnect, TapDisconnect

LEMMA TickKeeps == ASSUME IInv, Tick PROVE IInv'
<1>1. TypeOK' /\ IdleHoldsNothing'
  BY DEF IInv, TypeOK, IdleHoldsNothing, Tick, Sync
<1> QED
  BY <1>1, BystanderKeeps DEF Tick

LEMMA SubmitKeeps == ASSUME IInv, SubmitChallenge PROVE IInv'
<1> USE AuthBounds DEF IInv
<1>1. pending \in FormId /\ pending <= nextId /\ form = pending
  BY DEF TypeOK, SubmitChallenge, Accepts
<1>2. TypeOK'
  BY <1>1 DEF TypeOK, SubmitChallenge
<1>3. FormHasWaiter' /\ AbortedShowsNothing'
  BY DEF FormHasWaiter, AbortedShowsNothing, SubmitChallenge
<1>4. AnswersOwnForm'
  BY <1>1 DEF AnswersOwnForm, TypeOK, SubmitChallenge
<1>5. FreshIds'
  BY <1>1 DEF FreshIds, TypeOK, SubmitChallenge
<1>6. IdleHoldsNothing'
  BY DEF IdleHoldsNothing, SubmitChallenge
<1> QED
  BY <1>2, <1>3, <1>4, <1>5, <1>6

LEMMA CancelKeeps == ASSUME IInv, CancelChallenge PROVE IInv'
<1>1. TypeOK'
  BY AuthBounds DEF IInv, TypeOK, CancelChallenge, Abort, Cancelled
<1>2. IdleHoldsNothing'
  BY DEF IInv, IdleHoldsNothing, CancelChallenge, Abort
<1> QED
  BY <1>1, <1>2, EmptyingKeeps DEF CancelChallenge, Abort

LEMMA FinishedKeeps == ASSUME IInv, NEW t \in Task, Finished(t) PROVE IInv'
<1>1. TypeOK'
  BY AuthBounds DEF IInv, TypeOK, Finished
<1>2. IdleHoldsNothing'
  BY DEF IInv, TypeOK, IdleHoldsNothing, Finished
<1>3. \A u \in Task : step[u] \in {"waiting", "timedOut"} => step'[u] = step[u]
  BY DEF IInv, TypeOK, Finished
<1> QED
  BY <1>1, <1>2, <1>3, BystanderKeeps DEF Finished

-----------------------------------------------------------------------------
(* Connect and disconnect tasks                                            *)

LEMMA PrepareKeeps == ASSUME IInv, NEW t \in Task, PrepareConnect(t) PROVE IInv'
<1> USE AuthBounds DEF IInv
<1>1. TypeOK'
  <2>1. PICK s \in {"error", "begun"} : step' = [step EXCEPT ![t] = s]
    BY DEF PrepareConnect
  <2>2. /\ chan' = chan \/ chan' = Cancelled
        /\ pending' = pending \/ pending' = NoForm
        /\ aborted' \in BOOLEAN /\ life' \in Lifecycle
        /\ UNCHANGED <<reducerVars, held, typed, nextId>>
    <3>1. CASE UNCHANGED <<engineVars, bridgeVars, chan>>
      BY <3>1 DEF PrepareConnect, TypeOK
    <3>2. CASE BeginSession /\ life' = "Connecting"
      BY <3>2 DEF PrepareConnect, BeginSession
    <3> QED
      BY <3>1, <3>2 DEF PrepareConnect
  <2>3. gen' \in Nat /\ taskGen' \in [Task -> Nat]
    <3>1. \/ gen' = gen /\ taskGen' = taskGen
          \/ gen' = gen + 1 /\ taskGen' = [taskGen EXCEPT ![t] = gen + 1]
      BY DEF PrepareConnect
    <3>2. gen \in Nat /\ taskGen \in [Task -> Nat]
      BY DEF TypeOK
    <3>3. gen + 1 \in Nat /\ [taskGen EXCEPT ![t] = gen + 1] \in [Task -> Nat]
      BY <3>2
    <3> QED
      BY ONLY <3>1, <3>2, <3>3
  <2>4. step' \in [Task -> ConnectStep \union DisconnectStep \union Outcome \union {"idle"}]
    BY <2>1 DEF TypeOK
  <2>5. chan' \in [FormId -> {"open", "submitted", "cancelled", "dropped"}]
    BY <2>2, ChannelsKept DEF TypeOK
  <2>6. /\ nextId' \in 0 .. MaxForm /\ pending' \in 0 .. nextId' /\ form' \in 0 .. nextId'
        /\ held' \in [Task -> 0 .. nextId'] /\ aborted' \in BOOLEAN
    BY <2>2 DEF TypeOK
  <2>7. /\ taps' \in 0 .. MaxTap /\ life' \in Lifecycle /\ shown' \in Lifecycle
        /\ typed' \in [FormId -> FormId \union {NoForm}]
    BY <2>2 DEF TypeOK
  <2> QED
    BY ONLY <2>3, <2>4, <2>5, <2>6, <2>7 DEF TypeOK
<1>2. IdleHoldsNothing'
  BY DEF TypeOK, IdleHoldsNothing, PrepareConnect
<1>3. \A u \in Task : step[u] \in {"waiting", "timedOut"} => step'[u] = step[u]
  BY DEF TypeOK, PrepareConnect
<1>4. CASE UNCHANGED <<engineVars, bridgeVars, chan>>
  BY <1>1, <1>2, <1>3, <1>4, BystanderKeeps DEF PrepareConnect
<1>5. CASE BeginSession
  <2>1. BeginSession /\ typed' = typed
    BY <1>5 DEF PrepareConnect
  <2> QED
    BY <1>1, <1>2, <2>1, EmptyingKeeps DEF BeginSession
<1> QED
  BY <1>4, <1>5 DEF PrepareConnect

LEMMA DisconnectBeginKeeps == ASSUME IInv, NEW t \in Task, DisconnectBegin(t) PROVE IInv'
<1> USE AuthBounds DEF IInv
<1>1. TypeOK'
  <2>1. PICK s \in {"ok", "joining"} : step' = [step EXCEPT ![t] = s]
    BY DEF DisconnectBegin
  <2>2. /\ chan' = chan \/ chan' = Cancelled
        /\ pending' = pending \/ pending' = NoForm
        /\ aborted' \in BOOLEAN /\ life' \in Lifecycle
        /\ UNCHANGED <<reducerVars, held, typed, nextId>>
    <3>1. CASE life = "Disconnected"
      BY <3>1 DEF DisconnectBegin, TypeOK
    <3>2. CASE ~(life = "Disconnected")
      BY <3>2 DEF DisconnectBegin, Abort
    <3> QED
      BY <3>1, <3>2
  <2>3. gen' \in Nat /\ taskGen' \in [Task -> Nat]
    <3>1. \/ gen' = gen /\ taskGen' = taskGen
          \/ gen' = gen + 1 /\ taskGen' = [taskGen EXCEPT ![t] = gen + 1]
      BY DEF DisconnectBegin
    <3>2. gen \in Nat /\ taskGen \in [Task -> Nat]
      BY DEF TypeOK
    <3>3. gen + 1 \in Nat /\ [taskGen EXCEPT ![t] = gen + 1] \in [Task -> Nat]
      BY <3>2
    <3> QED
      BY ONLY <3>1, <3>2, <3>3
  <2>4. step' \in [Task -> ConnectStep \union DisconnectStep \union Outcome \union {"idle"}]
    BY <2>1 DEF TypeOK
  <2>5. chan' \in [FormId -> {"open", "submitted", "cancelled", "dropped"}]
    BY <2>2, ChannelsKept DEF TypeOK
  <2>6. /\ nextId' \in 0 .. MaxForm /\ pending' \in 0 .. nextId' /\ form' \in 0 .. nextId'
        /\ held' \in [Task -> 0 .. nextId'] /\ aborted' \in BOOLEAN
    BY <2>2 DEF TypeOK
  <2>7. /\ taps' \in 0 .. MaxTap /\ life' \in Lifecycle /\ shown' \in Lifecycle
        /\ typed' \in [FormId -> FormId \union {NoForm}]
    BY <2>2 DEF TypeOK
  <2> QED
    BY ONLY <2>3, <2>4, <2>5, <2>6, <2>7 DEF TypeOK
<1>2. IdleHoldsNothing'
  BY DEF TypeOK, IdleHoldsNothing, DisconnectBegin
<1>3. \A u \in Task : step[u] \in {"waiting", "timedOut"} => step'[u] = step[u]
  BY DEF TypeOK, DisconnectBegin
<1>4. CASE life = "Disconnected"
  BY <1>1, <1>2, <1>3, <1>4, BystanderKeeps DEF DisconnectBegin
<1>5. CASE life # "Disconnected"
  <2>1. Abort /\ typed' = typed
    BY <1>5 DEF DisconnectBegin
  <2> QED
    BY <1>1, <1>2, <2>1, EmptyingKeeps DEF Abort
<1> QED
  BY <1>4, <1>5

LEMMA RejectedKeeps == ASSUME IInv, NEW t \in Task, Rejected(t) PROVE IInv'
<1>1. TypeOK'
  BY AuthBounds DEF IInv, TypeOK, Rejected, Abort, Cancelled
<1>2. IdleHoldsNothing'
  BY DEF IInv, TypeOK, IdleHoldsNothing, Rejected
<1> QED
  BY <1>1, <1>2, EmptyingKeeps DEF Rejected, Abort

\* The steps of a task that do not touch the bridge.
LEMMA TaskStepKeeps ==
  ASSUME IInv, NEW t \in Task,
         EnterAuth(t) \/ Ready(t) \/ Stale(t) \/ DisconnectEnd(t) \/ RefuseForm(t)
           \/ ServerDecides(t)
  PROVE  IInv'
<1> DEFINE A == EnterAuth(t) \/ Ready(t) \/ Stale(t) \/ DisconnectEnd(t) \/ RefuseForm(t)
                  \/ ServerDecides(t)
<1> USE AuthBounds DEF IInv
<1>0. A
  OBVIOUS
<1>1. PICK s \in {"talking", "ok", "error", "refused", "cookie"} :
        /\ step' = [step EXCEPT ![t] = s]
        /\ step[t] \in {"begun", "cookie", "refused", "joining", "talking"}
        /\ life' \in Lifecycle
        /\ UNCHANGED <<gen, reducerVars, taskGen, bridgeVars, replyVars>>
  <2>1. CASE EnterAuth(t)
    BY <2>1 DEF EnterAuth
  <2>2. CASE Ready(t)
    BY <2>2 DEF Ready
  <2>3. CASE Stale(t)
    BY <2>3 DEF Stale, TypeOK
  <2>4. CASE DisconnectEnd(t)
    BY <2>4 DEF DisconnectEnd, TypeOK
  <2>5. CASE RefuseForm(t)
    BY <2>5 DEF RefuseForm, TypeOK
  <2>6. CASE ServerDecides(t)
    BY <2>6 DEF ServerDecides, TypeOK
  <2> QED
    BY <1>0, <2>1, <2>2, <2>3, <2>4, <2>5, <2>6
<1>2. TypeOK'
  BY <1>1 DEF TypeOK
<1>3. IdleHoldsNothing'
  BY <1>1 DEF TypeOK, IdleHoldsNothing
<1>4. \A u \in Task : step[u] \in {"waiting", "timedOut"} => step'[u] = step[u]
  BY <1>1 DEF TypeOK
<1> QED
  BY <1>1, <1>2, <1>3, <1>4, BystanderKeeps

LEMMA PlatformKeeps == ASSUME IInv, Platform PROVE IInv'
<1>1. TypeOK' /\ IdleHoldsNothing'
  BY DEF IInv, TypeOK, IdleHoldsNothing, Platform
<1> QED
  BY <1>1, BystanderKeeps DEF Platform

-----------------------------------------------------------------------------
(* A worker in wait_for_reply                                              *)

LEMMA PostKeeps == ASSUME IInv, NEW t \in Task, PostForm(t) PROVE IInv'
<1> USE AuthBounds DEF IInv
<1>1. nextId + 1 \in FormId
  BY DEF TypeOK, PostForm
<1>2. TypeOK'
  BY <1>1 DEF TypeOK, PostForm, Cancelled
<1>3. chan'[nextId + 1] = "open"
  BY <1>1 DEF TypeOK, PostForm, FreshIds, Cancelled
<1>4. FormHasWaiter'
  BY <1>3 DEF TypeOK, FormHasWaiter, PostForm
<1>5. AbortedShowsNothing'
  BY DEF AbortedShowsNothing, PostForm
<1>6. AnswersOwnForm'
  BY DEF TypeOK, AnswersOwnForm, PostForm, Cancelled
<1>7. FreshIds'
  BY DEF TypeOK, FreshIds, PostForm, Cancelled
<1>8. IdleHoldsNothing'
  BY <1>1 DEF TypeOK, IdleHoldsNothing, PostForm
<1> QED
  BY <1>2, <1>4, <1>5, <1>6, <1>7, <1>8

\* The worker whose channel was used does not wait for the form in the slot,
\* nor does one that has read the abort flag.
LEMMA WaitStepKeeps ==
  ASSUME IInv, NEW t \in Task, Receive(t) \/ Disconnected(t) \/ Timeout(t) \/ ReadAborted(t)
  PROVE  IInv'
<1> USE AuthBounds DEF IInv
<1>1. TypeOK'
  BY DEF TypeOK, Receive, Disconnected, Timeout, ReadAborted
<1>2. IdleHoldsNothing'
  BY DEF TypeOK, IdleHoldsNothing, Receive, Disconnected, Timeout, ReadAborted
<1>3. FormHasWaiter'
  <2> SUFFICES ASSUME pending # NoForm
               PROVE  /\ chan[pending] = "open"
                      /\ \E u \in Task : held[u] = pending /\ step'[u] \in {"waiting", "timedOut"}
    BY DEF FormHasWaiter, Receive, Disconnected, Timeout, ReadAborted
  <2>1. PICK u \in Task : held[u] = pending /\ step[u] \in {"waiting", "timedOut"}
    BY DEF FormHasWaiter
  <2>2. CASE u # t
    BY <2>1, <2>2 DEF TypeOK, FormHasWaiter, Receive, Disconnected, Timeout, ReadAborted
  <2>3. CASE u = t
    <3>1. ~aborted /\ chan[held[t]] = "open"
      BY <2>1, <2>3 DEF AbortedShowsNothing, FormHasWaiter
    <3>2. Timeout(t) \/ ReadAborted(t)
      BY <3>1 DEF Receive, Disconnected
    <3> QED
      BY <2>1, <2>3, <3>1, <3>2 DEF TypeOK, Timeout, ReadAborted
  <2> QED
    BY <2>2, <2>3
<1> QED
  BY <1>1, <1>2, <1>3
     DEF AbortedShowsNothing, AnswersOwnForm, FreshIds, Receive, Disconnected, Timeout, ReadAborted

LEMMA ReturnKeeps ==
  ASSUME IInv, NEW t \in Task, ReturnReply(t) \/ ReturnCancelled(t)
  PROVE  IInv'
<1> USE AuthBounds DEF IInv
<1>1. TypeOK'
  <2>1. PICK s \in {"talking", "refused"} : step' = [step EXCEPT ![t] = s]
    BY DEF ReturnReply, ReturnCancelled
  <2>2. /\ chan' = chan \/ chan' = Dropped
        /\ pending' = pending \/ pending' = NoForm
        /\ held' = [held EXCEPT ![t] = NoForm]
        /\ UNCHANGED <<engineVars, reducerVars, taskGen, typed, nextId, aborted>>
    BY DEF ReturnReply, ReturnCancelled, Clear
  <2>3. step' \in [Task -> ConnectStep \union DisconnectStep \union Outcome \union {"idle"}]
    BY <2>1 DEF TypeOK, ConnectStep
  <2>4. chan' \in [FormId -> {"open", "submitted", "cancelled", "dropped"}]
    BY <2>2, ChannelsKept DEF TypeOK
  <2>5. 0 \in 0 .. nextId /\ nextId' = nextId
    BY <2>2 DEF TypeOK
  <2>6. pending' \in 0 .. nextId' /\ held' \in [Task -> 0 .. nextId']
    BY <2>2, <2>5 DEF TypeOK, NoForm
  <2>7. /\ life' \in Lifecycle /\ shown' \in Lifecycle /\ gen' \in Nat
        /\ taps' \in 0 .. MaxTap /\ nextId' \in 0 .. MaxForm /\ aborted' \in BOOLEAN
        /\ form' \in 0 .. nextId' /\ taskGen' \in [Task -> Nat]
        /\ typed' \in [FormId -> FormId \union {NoForm}]
    BY <2>2 DEF TypeOK, engineVars, reducerVars
  <2> QED
    BY ONLY <2>3, <2>4, <2>6, <2>7 DEF TypeOK
<1>2. IdleHoldsNothing'
  BY DEF TypeOK, IdleHoldsNothing, ReturnReply, ReturnCancelled
<1>3. CASE Clear
  BY <1>1, <1>2, <1>3, EmptyingKeeps DEF Clear, ReturnReply, ReturnCancelled
<1>4. CASE ~Clear
  <2>1. /\ ReturnReply(t) /\ pending # held[t]
        /\ UNCHANGED <<bridgeVars, chan, typed>>
    BY <1>4 DEF ReturnReply, ReturnCancelled
  <2>2. FormHasWaiter'
    <3> SUFFICES ASSUME pending # NoForm
                 PROVE  /\ chan[pending] = "open"
                        /\ \E u \in Task : held'[u] = pending /\ step'[u] \in {"waiting", "timedOut"}
      BY <2>1 DEF FormHasWaiter
    <3>1. PICK u \in Task : held[u] = pending /\ step[u] \in {"waiting", "timedOut"}
      BY DEF FormHasWaiter
    <3>2. u # t
      BY <2>1, <3>1
    <3> QED
      BY <2>1, <3>1, <3>2 DEF TypeOK, FormHasWaiter, ReturnReply
  <2> QED
    BY <1>1, <1>2, <2>1, <2>2 DEF AbortedShowsNothing, AnswersOwnForm, FreshIds
<1> QED
  BY <1>3, <1>4

-----------------------------------------------------------------------------
(* The theorems                                                            *)

LEMMA NextKeeps == ASSUME IInv, [Next]_vars PROVE IInv'
<1>1. CASE UNCHANGED vars
  BY <1>1 DEF vars, IInv, TypeOK, FormHasWaiter, AbortedShowsNothing, AnswersOwnForm, FreshIds,
              IdleHoldsNothing
<1>2. CASE TapConnect \/ TapDisconnect
  BY <1>2, TapKeeps
<1>3. CASE Tick \/ SubmitChallenge \/ CancelChallenge \/ Platform
  BY <1>3, TickKeeps, SubmitKeeps, CancelKeeps, PlatformKeeps
<1>4. ASSUME NEW t \in Task, Finished(t) \/ DisconnectTask(t)
      PROVE  IInv'
  BY <1>4, FinishedKeeps, DisconnectBeginKeeps, TaskStepKeeps DEF DisconnectTask
<1>5. ASSUME NEW t \in Task, ConnectTask(t) \/ ServerDecides(t)
      PROVE  IInv'
  BY <1>5, PrepareKeeps, RejectedKeeps, TaskStepKeeps DEF ConnectTask
<1>6. ASSUME NEW t \in Task, WaitForReply(t)
      PROVE  IInv'
  BY <1>6, PostKeeps, TaskStepKeeps, WaitStepKeeps, ReturnKeeps DEF WaitForReply
<1> QED
  BY <1>1, <1>2, <1>3, <1>4, <1>5, <1>6 DEF Next

\* The invariant that carries the others.
THEOREM BridgeInvariant == Spec => []IInv
<1>1. Init => IInv
  BY InitEstablishes
<1>2. IInv /\ [Next]_vars => IInv'
  BY NextKeeps
<1> QED
  BY <1>1, <1>2, PTL DEF Spec

\* The state keeps its type.
THEOREM BridgeTypeCorrect == Spec => []TypeOK
<1>1. IInv => TypeOK
  BY DEF IInv
<1> QED
  BY <1>1, BridgeInvariant, PTL

\* A form the user is shown always has a worker that will act on the reply.
THEOREM EveryFormHasWaiter == Spec => []FormHasWaiter
<1>1. IInv => FormHasWaiter
  BY DEF IInv
<1> QED
  BY <1>1, BridgeInvariant, PTL

\* After an abort no form is shown until the next session begins.
THEOREM AbortIsSilent == Spec => []AbortedShowsNothing
<1>1. IInv => AbortedShowsNothing
  BY DEF IInv
<1> QED
  BY <1>1, BridgeInvariant, PTL

\* A reply reaches the form it was typed for.
THEOREM RepliesMatch == Spec => []AnswersOwnForm
<1>1. IInv => AnswersOwnForm
  BY DEF IInv
<1> QED
  BY <1>1, BridgeInvariant, PTL

\* A form gets one answer: channels are used through the slot only, and the
\* form in the slot has an unused one.
THEOREM OneAnswerPerForm == Spec => AnsweredOnce
<1> DEFINE Kept == \A f \in FormId : chan[f] # "open" => chan'[f] = chan[f]
<1>1. ASSUME IInv, [Next]_vars PROVE [Kept]_vars
  <2> SUFFICES ASSUME Next PROVE Kept
    BY <1>1
  <2>0. pending # NoForm => chan[pending] = "open"
    BY <1>1 DEF IInv, FormHasWaiter
  <2>1. \/ chan' = chan \/ chan' = Cancelled \/ chan' = Dropped
        \/ pending # NoForm /\ chan' = [chan EXCEPT ![pending] = "submitted"]
    <3>1. CASE TapConnect \/ TapDisconnect \/ Tick \/ Platform
      BY <3>1 DEF TapConnect, TapDisconnect, Tick, Platform
    <3>2. CASE SubmitChallenge \/ CancelChallenge
      BY <3>2 DEF SubmitChallenge, CancelChallenge, Accepts, Abort
    <3>3. ASSUME NEW t \in Task, Finished(t) \/ ConnectTask(t) \/ DisconnectTask(t)
          PROVE  chan' = chan \/ chan' = Cancelled
      BY <3>3 DEF Finished, ConnectTask, DisconnectTask, PrepareConnect, EnterAuth, Ready, Rejected,
                  Stale, DisconnectBegin, DisconnectEnd, Abort, BeginSession
    <3>4. ASSUME NEW t \in Task, WaitForReply(t) \/ ServerDecides(t)
          PROVE  chan' = chan \/ chan' = Cancelled \/ chan' = Dropped
      BY <3>4 DEF WaitForReply, ServerDecides, PostForm, RefuseForm, Receive, Disconnected, Timeout,
                  ReadAborted, ReturnReply, ReturnCancelled, Clear
    <3> QED
      BY <3>1, <3>2, <3>3, <3>4 DEF Next
  <2>2. /\ chan \in [FormId -> {"open", "submitted", "cancelled", "dropped"}]
        /\ \A f \in FormId : f # pending => Cancelled[f] = chan[f] /\ Dropped[f] = chan[f]
    BY <1>1, ChannelsKept DEF IInv, TypeOK
  <2>3. ASSUME NEW f \in FormId, chan[f] # "open" PROVE chan'[f] = chan[f]
    <3>1. f # pending
      BY <2>0, <2>3
    <3> QED
      BY <2>1, <2>2, <3>1
  <2> QED
    BY <2>3
<1> QED
  BY <1>1, BridgeInvariant, PTL DEF Spec, AnsweredOnce

=============================================================================
