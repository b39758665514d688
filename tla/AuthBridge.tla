------------------------------ MODULE AuthBridge ------------------------------
(***************************************************************************)
(* The interactive authentication of the UI process: one AuthInteraction   *)
(* joins the OpenConnect workers, which post forms and block for a reply,  *)
(* the reducer, which shows a form and answers or cancels it, and the      *)
(* engine, which begins and aborts sessions.                               *)
(*                                                                         *)
(* A tap on the connect switch starts an asynchronous task, a connect or a *)
(* disconnect, from what the reducer's last snapshot says.  The lock of    *)
(* AuthInteraction makes each of its sections one action; what a worker    *)
(* does between two sections interleaves with everything else.  Two        *)
(* sections that run under the engine's lock as well are one action.       *)
(*                                                                         *)
(* Form ids are never reused, so the reply channel of a form is named by   *)
(* its id.  Banners, fields and values of a form are left to AuthForms.    *)
(***************************************************************************)
EXTENDS Integers

CONSTANTS
  MaxTap,   \* bound on the taps, and so on the tasks
  MaxForm   \* bound on the forms the servers ask for

ASSUME AuthBounds == MaxTap \in Nat /\ MaxForm \in Nat

Task   == 1 .. MaxTap
FormId == 1 .. MaxForm
NoForm == 0

Lifecycle == {"Disconnected", "Connecting", "Authenticating", "Establishing",
              "Connected", "Disconnecting", "Failed"}
Busy == {"Connecting", "Authenticating", "Establishing", "Disconnecting"}

ConnectStep    == {"connect", "begun", "talking", "waiting", "timedOut", "replied",
                   "leaving", "cookie", "refused"}
DisconnectStep == {"disconnect", "joining"}
Outcome        == {"ok", "error"}

VARIABLES
  life, gen,                \* engine: lifecycle and generation
  taps, shown, form,        \* reducer: taps so far, its snapshot's lifecycle and form
  step, taskGen,            \* each task: where it is, and the generation it captured
  nextId, pending, aborted, \* Inner of AuthInteraction
  held,                     \* id of the form a worker waits for
  chan,                     \* reply channel of each form
  typed                     \* history: the form each submitted reply was typed for

engineVars  == <<life, gen>>
reducerVars == <<taps, shown, form>>
taskVars    == <<step, taskGen>>
bridgeVars  == <<nextId, pending, aborted>>
replyVars   == <<held, chan, typed>>
vars == <<engineVars, reducerVars, taskVars, bridgeVars, replyVars>>

\* No session yet, or one that is up and whose tasks have ended.
Init ==
  /\ life \in {"Disconnected", "Connected"} /\ gen = 0
  /\ taps = 0 /\ shown = life /\ form = NoForm
  /\ step = [t \in Task |-> "idle"] /\ taskGen = [t \in Task |-> 0]
  /\ nextId = 0 /\ pending = NoForm /\ aborted = FALSE
  /\ held = [t \in Task |-> NoForm]
  /\ chan = [f \in FormId |-> "open"] /\ typed = [f \in FormId |-> NoForm]

Goto(t, s) == step' = [step EXCEPT ![t] = s]

-----------------------------------------------------------------------------
(* AuthInteraction                                                         *)

\* The slot is taken and its sender answers with a cancelled reply.
Cancelled == [f \in FormId |-> IF f = pending THEN "cancelled" ELSE chan[f]]

\* Mutant: the slot is answered and kept.
AbortKeepsSlot == aborted' = TRUE /\ chan' = Cancelled /\ UNCHANGED <<pending, nextId>>

Abort == aborted' = TRUE /\ pending' = NoForm /\ chan' = Cancelled /\ UNCHANGED nextId

BeginSession == aborted' = FALSE /\ pending' = NoForm /\ chan' = Cancelled /\ UNCHANGED nextId

\* A slot that is cleared without an answer drops its sender.
Dropped == [f \in FormId |-> IF f = pending THEN "dropped" ELSE chan[f]]
Clear   == pending' = NoForm /\ chan' = Dropped /\ UNCHANGED <<nextId, aborted>>

\* Mutant: whatever form is pending is the one meant.
AcceptsAny(id) == pending # NoForm

\* submit: the reply reaches the worker of the pending form, if the ids agree.
Accepts(id) == pending # NoForm /\ (id = 0 \/ id = pending)

-----------------------------------------------------------------------------
(* The reducer                                                             *)

Sync == shown' = life /\ form' = pending

TapConnect ==
  /\ taps < MaxTap
  /\ shown \notin Busy \union {"Connected"}
  /\ taps' = taps + 1
  /\ Goto(taps + 1, "connect")
  /\ shown' = "Connecting"
  /\ UNCHANGED <<engineVars, form, taskGen, bridgeVars, replyVars>>

TapDisconnect ==
  /\ taps < MaxTap
  /\ shown = "Connected"
  /\ taps' = taps + 1
  /\ Goto(taps + 1, "disconnect")
  /\ shown' = "Disconnecting"
  /\ UNCHANGED <<engineVars, form, taskGen, bridgeVars, replyVars>>

\* TickSession, which also notices what the platform did to the session.
Tick == Sync /\ UNCHANGED <<engineVars, taps, taskVars, bridgeVars, replyVars>>

\* SubmitChallenge: an accepted reply hides the form until the next tick.
SubmitChallenge ==
  /\ form # NoForm
  /\ Accepts(form)
  /\ chan' = [chan EXCEPT ![pending] = "submitted"]
  /\ typed' = [typed EXCEPT ![pending] = form]
  /\ pending' = NoForm
  /\ form' = NoForm
  /\ shown' = life
  /\ UNCHANGED <<engineVars, taps, taskVars, nextId, aborted, held>>

CancelChallenge ==
  /\ form # NoForm
  /\ form' = NoForm
  /\ Abort
  /\ UNCHANGED <<engineVars, taps, shown, taskVars, held, typed>>

\* ConnectionFinished with the result of a task.
Finished(t) ==
  /\ step[t] \in Outcome
  /\ Goto(t, "idle")
  /\ form' = pending
  /\ shown' = IF step[t] = "ok" THEN life ELSE "Failed"
  /\ taskGen' = [taskGen EXCEPT ![t] = 0]
  /\ UNCHANGED <<engineVars, taps, bridgeVars, replyVars>>

-----------------------------------------------------------------------------
(* A connect task: prepare_connect and the worker it spawns                *)

\* A busy engine refuses, and so does one that still holds the native session of
\* an earlier connect; which of those it does is PlatformSession's business.
PrepareConnect(t) ==
  /\ step[t] = "connect"
  /\ \/ /\ life \in Busy \/ gen > 0
        /\ Goto(t, "error")
        /\ UNCHANGED <<engineVars, taskGen, bridgeVars, chan>>
     \/ /\ life \notin Busy
        /\ BeginSession
        /\ gen' = gen + 1
        /\ taskGen' = [taskGen EXCEPT ![t] = gen + 1]
        /\ life' = "Connecting"
        /\ Goto(t, "begun")
  /\ UNCHANGED <<reducerVars, held, typed>>

\* prepare_native takes the lock again and does not look at the generation.
EnterAuth(t) ==
  /\ step[t] = "begun"
  /\ life' = "Authenticating"
  /\ Goto(t, "talking")
  /\ UNCHANGED <<gen, reducerVars, taskGen, bridgeVars, replyVars>>

\* Mutant: the flag is only read after a time-out.
PostFormAlways(t) ==
  /\ step[t] = "talking"
  /\ nextId < MaxForm
  /\ nextId' = nextId + 1
  /\ pending' = nextId + 1
  /\ chan' = Cancelled
  /\ held' = [held EXCEPT ![t] = nextId + 1]
  /\ Goto(t, "waiting")
  /\ UNCHANGED <<engineVars, reducerVars, taskGen, aborted, typed>>

\* First section of wait_for_reply.
PostForm(t) ==
  /\ step[t] = "talking"
  /\ ~aborted
  /\ nextId < MaxForm
  /\ nextId' = nextId + 1
  /\ pending' = nextId + 1
  /\ chan' = Cancelled
  /\ held' = [held EXCEPT ![t] = nextId + 1]
  /\ Goto(t, "waiting")
  /\ UNCHANGED <<engineVars, reducerVars, taskGen, aborted, typed>>

RefuseForm(t) ==
  /\ step[t] = "talking"
  /\ aborted
  /\ Goto(t, "refused")
  /\ UNCHANGED <<engineVars, reducerVars, taskGen, bridgeVars, replyVars>>

\* Mutant: a dropped sender is taken for a time-out.
DisconnectedRetries(t) ==
  /\ step[t] = "waiting"
  /\ chan[held[t]] = "dropped"
  /\ Goto(t, "timedOut")
  /\ UNCHANGED <<engineVars, reducerVars, taskGen, bridgeVars, replyVars>>

\* recv_timeout: a reply, a dropped sender, or 200 ms without either.
Receive(t) ==
  /\ step[t] = "waiting"
  /\ chan[held[t]] \in {"submitted", "cancelled"}
  /\ Goto(t, "replied")
  /\ UNCHANGED <<engineVars, reducerVars, taskGen, bridgeVars, replyVars>>

Disconnected(t) ==
  /\ step[t] = "waiting"
  /\ chan[held[t]] = "dropped"
  /\ Goto(t, "leaving")
  /\ UNCHANGED <<engineVars, reducerVars, taskGen, bridgeVars, replyVars>>

Timeout(t) ==
  /\ step[t] = "waiting"
  /\ chan[held[t]] = "open"
  /\ Goto(t, "timedOut")
  /\ UNCHANGED <<engineVars, reducerVars, taskGen, bridgeVars, replyVars>>

\* Mutant: the worker gives up when nobody answers in time.
ReadAbortedImpatient(t) ==
  /\ step[t] = "timedOut"
  /\ Goto(t, "leaving")
  /\ UNCHANGED <<engineVars, reducerVars, taskGen, bridgeVars, replyVars>>

ReadAborted(t) ==
  /\ step[t] = "timedOut"
  /\ Goto(t, IF aborted THEN "leaving" ELSE "waiting")
  /\ UNCHANGED <<engineVars, reducerVars, taskGen, bridgeVars, replyVars>>

\* The last section of wait_for_reply: after a reply it clears the slot only
\* if the slot holds the same form, otherwise whatever the slot holds.
ReturnReply(t) ==
  /\ step[t] = "replied"
  /\ IF pending = held[t] THEN Clear ELSE UNCHANGED <<bridgeVars, chan>>
  /\ Goto(t, IF chan[held[t]] = "submitted" THEN "talking" ELSE "refused")
  /\ held' = [held EXCEPT ![t] = NoForm]
  /\ UNCHANGED <<engineVars, reducerVars, taskGen, typed>>

ReturnCancelled(t) ==
  /\ step[t] = "leaving"
  /\ Clear
  /\ Goto(t, "refused")
  /\ held' = [held EXCEPT ![t] = NoForm]
  /\ UNCHANGED <<engineVars, reducerVars, taskGen, typed>>

\* obtain_cookie ends without a further form.
ServerDecides(t) ==
  /\ step[t] = "talking"
  /\ \E s \in {"cookie", "refused"} : Goto(t, s)
  /\ UNCHANGED <<engineVars, reducerVars, taskGen, bridgeVars, replyVars>>

\* The tail of prepare_connect.
Ready(t) ==
  /\ step[t] = "cookie"
  /\ taskGen[t] = gen
  /\ life' = "Establishing"
  /\ Goto(t, "ok")
  /\ UNCHANGED <<gen, reducerVars, taskGen, bridgeVars, replyVars>>

Rejected(t) ==
  /\ step[t] = "refused"
  /\ taskGen[t] = gen
  /\ Abort
  /\ life' = "Failed"
  /\ Goto(t, "error")
  /\ UNCHANGED <<gen, reducerVars, taskGen, held, typed>>

Stale(t) ==
  /\ step[t] \in {"cookie", "refused"}
  /\ taskGen[t] # gen
  /\ Goto(t, "error")
  /\ UNCHANGED <<engineVars, reducerVars, taskGen, bridgeVars, replyVars>>

-----------------------------------------------------------------------------
(* A disconnect task and the platform                                      *)

DisconnectBegin(t) ==
  /\ step[t] = "disconnect"
  /\ IF life = "Disconnected"
     THEN Goto(t, "ok") /\ UNCHANGED <<engineVars, taskGen, bridgeVars, chan>>
     ELSE /\ Abort
          /\ life' = "Disconnecting"
          /\ gen' = gen + 1
          /\ taskGen' = [taskGen EXCEPT ![t] = gen + 1]
          /\ Goto(t, "joining")
  /\ UNCHANGED <<reducerVars, held, typed>>

DisconnectEnd(t) ==
  /\ step[t] = "joining"
  /\ life' = IF gen = taskGen[t] /\ life \in {"Disconnecting", "Connected"}
             THEN "Disconnected" ELSE life
  /\ Goto(t, "ok")
  /\ UNCHANGED <<gen, reducerVars, taskGen, bridgeVars, replyVars>>

\* PlatformSession decides how an established session goes on and ends.
Platform ==
  /\ \/ life = "Establishing" /\ life' \in {"Connected", "Failed", "Disconnected"}
     \/ life = "Connected" /\ life' \in {"Failed", "Disconnected"}
  /\ UNCHANGED <<gen, reducerVars, taskVars, bridgeVars, replyVars>>

ConnectTask(t) ==
  \/ PrepareConnect(t) \/ EnterAuth(t) \/ Ready(t) \/ Rejected(t) \/ Stale(t)
DisconnectTask(t) == DisconnectBegin(t) \/ DisconnectEnd(t)
WaitForReply(t) ==
  \/ PostForm(t) \/ RefuseForm(t) \/ Receive(t) \/ Disconnected(t) \/ Timeout(t)
  \/ ReadAborted(t) \/ ReturnReply(t) \/ ReturnCancelled(t)

Next ==
  \/ TapConnect \/ TapDisconnect \/ Tick \/ SubmitChallenge \/ CancelChallenge
  \/ Platform
  \/ \E t \in Task : Finished(t) \/ ConnectTask(t) \/ DisconnectTask(t)
                     \/ WaitForReply(t) \/ ServerDecides(t)

Spec == Init /\ [][Next]_vars

\* Tasks and workers are scheduled, the reducer ticks, and a server that has
\* nothing to ask decides.  The user never has to answer.
FairSpec ==
  /\ Spec
  /\ WF_vars(Tick) /\ WF_vars(Platform)
  /\ \A t \in Task :
       /\ WF_vars(ConnectTask(t)) /\ WF_vars(DisconnectTask(t)) /\ WF_vars(Finished(t))
       /\ WF_vars(WaitForReply(t)) /\ WF_vars(ServerDecides(t))

-----------------------------------------------------------------------------
(* Properties                                                              *)

TypeOK ==
  /\ life \in Lifecycle /\ shown \in Lifecycle
  /\ gen \in Nat /\ taps \in 0 .. MaxTap
  /\ nextId \in 0 .. MaxForm /\ aborted \in BOOLEAN
  /\ form \in 0 .. nextId /\ pending \in 0 .. nextId
  /\ step \in [Task -> ConnectStep \union DisconnectStep \union Outcome \union {"idle"}]
  /\ taskGen \in [Task -> Nat]
  /\ held \in [Task -> 0 .. nextId]
  /\ chan \in [FormId -> {"open", "submitted", "cancelled", "dropped"}]
  /\ typed \in [FormId -> FormId \union {NoForm}]

\* The form in the slot, the one the user is shown and may answer, has a
\* worker that has not given up on it and an unused channel to it: whatever
\* sessions, aborts and time-outs overlap, an accepted reply has a reader.
FormHasWaiter ==
  pending # NoForm =>
    /\ chan[pending] = "open"
    /\ \E t \in Task : held[t] = pending /\ step[t] \in {"waiting", "timedOut"}

\* From an abort to the next begin_session no form can be shown, although the
\* workers of the aborted session go on asking.
AbortedShowsNothing == aborted => pending = NoForm

\* A reply never reaches the worker of another form than the one it was typed
\* for, however old the snapshot is that the user answers.
AnswersOwnForm == \A f \in FormId : chan[f] = "submitted" => typed[f] = f

\* Submit, abort, begin_session and a replacing form compete for one sender: a
\* form gets one answer and keeps it.
AnsweredOnce == [][\A f \in FormId : chan[f] # "open" => chan'[f] = chan[f]]_vars

\* A worker whose form left the slot stops waiting for it, also when the user
\* never answers and when another session's worker cleared the slot.
WaiterLeaves ==
  \A t \in Task : held[t] \notin {NoForm, pending} ~> held[t] = NoForm

=============================================================================
