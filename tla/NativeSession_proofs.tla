------------------------- MODULE NativeSession_proofs -------------------------
(***************************************************************************)
(* Proofs about NativeSession for any forms, attempts and gateways.        *)
(*                                                                         *)
(* The conversation.  NeverReplayed needs that its state remembers every   *)
(* form it answered by itself (AutosKept).  SubmissionIsOwned is a fact    *)
(* about the operators that put the values together.                       *)
(*                                                                         *)
(* The session.  UnprotectedOnRecord needs to know, phase by phase, what   *)
(* a client without protection leaves on the record (BareKnown), and that  *)
(* two threads share a record only if one captured it in passing           *)
(* (MonitorsKnown).  OldEndIsSilent needs that the generations of earlier  *)
(* attempts are behind the engine's (ThreadsBehind).  The bound on the     *)
(* generation needs a count of its raises (RaisesCounted).  Each action    *)
(* has a lemma of its own.                                                 *)
(***************************************************************************)
EXTENDS NativeSession, TLAPS

-----------------------------------------------------------------------------
(* The conversation                                                        *)

Prints == {Fingerprint(f) : f \in Forms}

\* A conversation that goes on has met at most two empty forms in a row.
StateOK ==
  /\ state \in [groupSet : BOOLEAN, empties : 0 .. 3, autos : SUBSET Prints]
  /\ fpc # "done" => state.empties < 3

FormInHand ==
  /\ fpc \in {"form", "asked"} => form \in Forms
  /\ result # "none" => fpc = "done"

AutosKept == autoSent \subseteq state.autos

FormInv ==
  /\ FormTypeOK
  /\ StateOK
  /\ FormInHand
  /\ AutosKept
  /\ NeverReplayed
  /\ SubmissionIsOwned

\* What SubmissionIsOwned says of one submission.
Owned(f, values) ==
  \A i \in DOMAIN values :
    LET o == f.options[i]  v == values[i]
    IN /\ v = "password" => /\ Primary(f) /\ o.kind = "password" /\ ~o.second
                            /\ \A j \in DOMAIN values : values[j] = v => j = i
       /\ v = "reply" => o.kind # "hidden" /\ (~Primary(f) \/ o.second)
       /\ v = "username" => Primary(f) /\ o.kind = "text" /\ ~o.second

LEMMA FieldsAreOptions ==
  ASSUME NEW f \in Forms
  PROVE  /\ Fields(f) \subseteq Nat
         /\ \A i \in Fields(f) : f.options[i] \in Option
<1>1. f.options \in Seq(Option)
  BY FormsAssumption
<1>2. DOMAIN f.options = 1 .. Len(f.options) /\ Len(f.options) \in Nat
  BY <1>1
<1>3. \A i \in DOMAIN f.options : f.options[i] \in Option
  BY <1>1, <1>2
<1> QED
  BY <1>2, <1>3 DEF Fields

\* A value of the profile is in an option the user does not answer.
LEMMA AppliedFromProfile ==
  ASSUME NEW f \in Forms, NEW i \in Fields(f)
  PROVE  /\ Applied(f)[i] \in Values \ {"reply"}
         /\ Applied(f)[i] = "password" => TakesPassword(f, i) /\ ~f.options[i].second
         /\ Applied(f)[i] = "username" =>
              TakesUsername(f, i) /\ Primary(f) /\ ~f.options[i].second
<1>1. CASE i \in UserOwned(f) \/ f.options[i].kind = "hidden"
  BY <1>1 DEF Applied, Values
<1>2. CASE ~(i \in UserOwned(f) \/ f.options[i].kind = "hidden")
  <2>1. i \in Visible(f)
    BY <1>2 DEF Visible
  <2>2. Primary(f) /\ ~f.options[i].second
    BY <1>2, <2>1 DEF UserOwned
  <2> QED
    BY <1>2, <2>2 DEF Applied, Values
<1> QED
  BY <1>1, <1>2

\* The configured password goes to one option.
LEMMA OnePassword ==
  ASSUME NEW f \in Forms, NEW i \in Fields(f), NEW j \in Fields(f),
         Applied(f)[i] = "password", Applied(f)[j] = "password"
  PROVE  i = j
<1>1. TakesPassword(f, i) /\ ~f.options[i].second /\ TakesPassword(f, j) /\ ~f.options[j].second
  BY AppliedFromProfile
<1>2. i \in Nat /\ j \in Nat
  BY FieldsAreOptions
<1>3. i \in DOMAIN f.options /\ j \in DOMAIN f.options
  BY DEF Fields
<1>4. i >= 1 /\ j >= 1
  <2>1. f.options \in Seq(Option)
    BY FormsAssumption
  <2> QED
    BY <1>3, <2>1
<1>5. ~(i < j)
  <2>1. i < j => i \in 1 .. j - 1
    BY <1>2, <1>4
  <2> QED
    BY <1>1, <2>1 DEF TakesPassword
<1>6. ~(j < i)
  <2>1. j < i => j \in 1 .. i - 1
    BY <1>2, <1>4
  <2> QED
    BY <1>1, <2>1 DEF TakesPassword
<1> QED
  BY <1>2, <1>5, <1>6

LEMMA AppliedIsOwned ==
  ASSUME NEW f \in Forms
  PROVE  /\ Owned(f, Applied(f))
         /\ \A i \in DOMAIN Applied(f) : Applied(f)[i] \in Values
<1>1. DOMAIN Applied(f) = Fields(f)
  BY DEF Applied
<1>2. ASSUME NEW i \in Fields(f)
      PROVE  /\ Applied(f)[i] = "password" =>
                  /\ Primary(f) /\ f.options[i].kind = "password" /\ ~f.options[i].second
                  /\ \A j \in Fields(f) : Applied(f)[j] = "password" => j = i
             /\ Applied(f)[i] # "reply"
             /\ Applied(f)[i] = "username" =>
                  Primary(f) /\ f.options[i].kind = "text" /\ ~f.options[i].second
  <2>1. Applied(f)[i] = "password" =>
          \A j \in Fields(f) : Applied(f)[j] = "password" => j = i
    BY OnePassword
  <2> QED
    BY <2>1, AppliedFromProfile DEF TakesPassword, TakesUsername, Values
<1> QED
  BY <1>1, <1>2, AppliedFromProfile DEF Owned

LEMMA BoundIsOwned ==
  ASSUME NEW f \in Forms, NEW answers \in SUBSET UserOwned(f)
  PROVE  /\ Owned(f, Bound(f, answers))
         /\ \A i \in DOMAIN Bound(f, answers) : Bound(f, answers)[i] \in Values
<1> DEFINE b == Bound(f, answers)
<1>1. DOMAIN b = Fields(f) /\ DOMAIN Applied(f) = Fields(f)
  BY DEF Bound, Applied
<1>2. \A i \in Fields(f) : b[i] = IF i \in answers THEN "reply" ELSE Applied(f)[i]
  BY DEF Bound
<1>3. \A i \in answers : /\ i \in Fields(f) /\ f.options[i].kind # "hidden"
                         /\ ~Primary(f) \/ f.options[i].second
  BY DEF UserOwned, Visible
<1>4. \A i \in Fields(f) : b[i] \in Values
  BY <1>2, AppliedFromProfile DEF Values
<1> HIDE DEF b
<1>5. ASSUME NEW i \in Fields(f)
      PROVE  /\ b[i] = "password" =>
                  /\ Primary(f) /\ f.options[i].kind = "password" /\ ~f.options[i].second
                  /\ \A j \in Fields(f) : b[j] = "password" => j = i
             /\ b[i] = "reply" => f.options[i].kind # "hidden" /\ (~Primary(f) \/ f.options[i].second)
             /\ b[i] = "username" => Primary(f) /\ f.options[i].kind = "text" /\ ~f.options[i].second
  <2>1. ASSUME b[i] = "password"
        PROVE  /\ Primary(f) /\ f.options[i].kind = "password" /\ ~f.options[i].second
               /\ \A j \in Fields(f) : b[j] = "password" => j = i
    <3>1. Applied(f)[i] = "password"
      BY <1>2, <2>1
    <3>2. \A j \in Fields(f) : b[j] = "password" => Applied(f)[j] = "password"
      BY <1>2
    <3>3. \A j \in Fields(f) : b[j] = "password" => j = i
      BY <3>1, <3>2, OnePassword
    <3> QED
      BY <3>1, <3>3, AppliedFromProfile DEF TakesPassword
  <2>2. b[i] = "reply" => i \in answers
    BY <1>2, AppliedFromProfile
  <2>3. b[i] = "username" => Applied(f)[i] = "username"
    BY <1>2
  <2> QED
    BY <1>3, <2>1, <2>2, <2>3, AppliedFromProfile DEF TakesUsername
<1>6. Owned(f, b)
  BY <1>1, <1>5 DEF Owned
<1> QED
  BY <1>1, <1>4, <1>6 DEF b

LEMMA SentIsOwned == SubmissionIsOwned <=> Owned(sent.form, sent.values)
BY DEF SubmissionIsOwned, Owned

\* What no submission, and no automatic answer, has to satisfy.
LEMMA NothingKeepsType ==
  /\ NothingSent.form = NoForm
  /\ \A i \in DOMAIN NothingSent.values : NothingSent.values[i] \in Values
  /\ NewState.groupSet \in BOOLEAN /\ NewState.empties \in 0 .. 3
  /\ NewState.autos \subseteq {Fingerprint(f) : f \in Forms}
  /\ 0 \in 0 .. MaxReplies
<1>1. \A i \in DOMAIN NothingSent.values : NothingSent.values[i] \in Values
  <2>1. DOMAIN NothingSent.values = {}
    BY DEF NothingSent
  <2> QED
    BY <2>1
<1> QED
  BY <1>1, FormsAssumption DEF NothingSent, NewState

LEMMA FormInitEstablishes == ASSUME FormInit PROVE FormInv
<1>1. FormTypeOK
  BY NothingKeepsType DEF FormInit, FormTypeOK
<1>2. StateOK /\ FormInHand /\ AutosKept /\ NeverReplayed
  BY DEF FormInit, StateOK, NewState, FormInHand, AutosKept, NeverReplayed
<1>3. SubmissionIsOwned
  BY SentIsOwned DEF FormInit, NothingSent, Owned
<1> QED
  BY <1>1, <1>2, <1>3 DEF FormInv

\* Accepting a form, or refusing it for good, keeps the state well formed and
\* forgets no answer.
LEMMA SeenKeeps ==
  ASSUME FormInv, fpc = "form"
  PROVE  /\ Seen(form) \in [groupSet : BOOLEAN, empties : 0 .. 3, autos : SUBSET Prints]
         /\ Seen(form).autos = state.autos
         /\ Accepted(form) => Seen(form).empties < 3
<1>1. /\ state \in [groupSet : BOOLEAN, empties : 0 .. 3, autos : SUBSET Prints]
      /\ state.empties < 3
  BY DEF FormInv, StateOK
<1>2. Empties(form) \in 0 .. 3
  BY <1>1 DEF Empties
<1>3. (state.groupSet \/ AppliesGroup(form)) \in BOOLEAN
  BY DEF AppliesGroup
<1>4. Seen(form) = [state EXCEPT !.groupSet = state.groupSet \/ AppliesGroup(form),
                                 !.empties = Empties(form)]
  BY DEF Seen
<1> QED
  BY <1>1, <1>2, <1>3, <1>4 DEF Accepted

\* The three parts that a step changes only through its submission.
LEMMA SameSubmission ==
  ASSUME FormInv, UNCHANGED <<sent, replayed, autoSent>>, state'.autos = state.autos
  PROVE  AutosKept' /\ NeverReplayed' /\ SubmissionIsOwned'
<1>1. AutosKept' /\ NeverReplayed'
  BY DEF FormInv, AutosKept, NeverReplayed
<1>2. SubmissionIsOwned'
  BY DEF FormInv, SubmissionIsOwned
<1> QED
  BY <1>1, <1>2

\* A step that sends a form, automatically only if it never did.
LEMMA SubmitKeeps ==
  ASSUME FormInv, fpc \in {"form", "asked"},
         NEW values, NEW s, NEW automatic \in BOOLEAN,
         Owned(form, values), \A i \in DOMAIN values : values[i] \in Values,
         s \in [groupSet : BOOLEAN, empties : 0 .. 3, autos : SUBSET Prints],
         s.autos = state.autos, s.empties < 3,
         automatic => ~WasAutomatic(form),
         Submit(form, values, s, automatic),
         UNCHANGED <<creds, attended, form, result>>,
         replies' \in 0 .. MaxReplies
  PROVE  FormInv'
<1>1. form \in Forms /\ Fingerprint(form) \in Prints
  BY DEF FormInv, FormInHand, Prints
<1>2. state' \in [groupSet : BOOLEAN, empties : 0 .. 3, autos : SUBSET Prints]
  BY <1>1 DEF Submit, Recorded
<1>3. state'.empties < 3
  BY DEF Submit, Recorded
<1>4. state'.autos = IF automatic THEN state.autos \union {Fingerprint(form)} ELSE state.autos
  BY DEF Submit, Recorded
<1>5. StateOK'
  BY <1>2, <1>3 DEF StateOK
<1>6. FormInHand'
  BY DEF FormInv, FormInHand, Submit
<1>7. autoSent' = IF automatic THEN autoSent \union {Fingerprint(form)} ELSE autoSent
  BY DEF Submit
<1>8. AutosKept'
  BY <1>4, <1>7 DEF FormInv, AutosKept
<1>9. automatic => Fingerprint(form) \notin autoSent
  BY DEF FormInv, AutosKept, WasAutomatic
<1>10. NeverReplayed'
  BY <1>9 DEF FormInv, NeverReplayed, Submit
<1>11. sent' = [form |-> form, values |-> values]
  BY DEF Submit
<1>12. SubmissionIsOwned'
  BY <1>11 DEF SubmissionIsOwned, Owned
<1>13. FormTypeOK'
  <2>1. /\ creds' \subseteq {"username", "password", "group"} /\ attended' \in BOOLEAN
        /\ fpc' \in {"server", "form", "asked", "done"}
        /\ form' \in Forms \union {NoForm}
        /\ result' \in {"none", "cookie", "refused", "error", "cancelled", "handed"}
        /\ replies' \in 0 .. MaxReplies
    BY DEF FormInv, FormTypeOK, Submit
  <2>2. state'.groupSet \in BOOLEAN /\ state'.empties \in 0 .. 3 /\ state'.autos \subseteq Prints
    BY <1>2
  <2>3. sent'.form \in Forms \union {NoForm} /\ \A i \in DOMAIN sent'.values : sent'.values[i] \in Values
    BY <1>1, <1>11
  <2>4. autoSent' \subseteq Prints
    BY <1>1, <1>7 DEF FormInv, FormTypeOK, Prints
  <2>5. replayed' \in BOOLEAN
    BY DEF Submit
  <2> QED
    BY <2>1, <2>2, <2>3, <2>4, <2>5 DEF FormTypeOK, Prints
<1> QED
  BY <1>5, <1>6, <1>8, <1>10, <1>12, <1>13 DEF FormInv

\* A step that sends nothing.
LEMMA OtherwiseKeeps ==
  ASSUME FormInv,
         UNCHANGED <<creds, attended, replies, sent, autoSent, replayed>>,
         state' \in [groupSet : BOOLEAN, empties : 0 .. 3, autos : SUBSET Prints],
         state'.autos = state.autos,
         fpc' \in {"server", "form", "asked", "done"},
         fpc' # "done" => state'.empties < 3,
         form' \in Forms \union {NoForm},
         fpc' \in {"form", "asked"} => form' \in Forms,
         result' \in {"none", "cookie", "refused", "error", "cancelled", "handed"},
         result' # "none" => fpc' = "done"
  PROVE  FormInv'
<1>1. StateOK' /\ FormInHand'
  BY DEF StateOK, FormInHand
<1>2. AutosKept' /\ NeverReplayed' /\ SubmissionIsOwned'
  BY SameSubmission
<1>3. FormTypeOK'
  BY DEF FormInv, FormTypeOK, Prints
<1> QED
  BY <1>1, <1>2, <1>3 DEF FormInv

LEMMA FormStep == ASSUME FormInv, FormNext PROVE FormInv'
<1> USE DEF Ends
<1>s. /\ state \in [groupSet : BOOLEAN, empties : 0 .. 3, autos : SUBSET Prints]
      /\ fpc # "done" => state.empties < 3
  BY DEF FormInv, StateOK
<1>f. /\ form \in Forms \union {NoForm}
      /\ fpc \in {"form", "asked"} => form \in Forms
      /\ result \in {"none", "cookie", "refused", "error", "cancelled", "handed"}
      /\ result # "none" => fpc = "done"
      /\ replies \in 0 .. MaxReplies
  BY DEF FormInv, FormTypeOK, FormInHand
<1>1. CASE Present
  BY <1>1, <1>s, <1>f, OtherwiseKeeps DEF Present
<1>2. CASE Over
  BY <1>2, <1>s, <1>f, OtherwiseKeeps DEF Over
<1>3. CASE GroupNotOffered
  BY <1>3, <1>s, <1>f, OtherwiseKeeps DEF GroupNotOffered
<1>4. CASE NewGroup
  <2>1. /\ state' \in [groupSet : BOOLEAN, empties : 0 .. 3, autos : SUBSET Prints]
        /\ state'.autos = state.autos /\ state'.empties = state.empties
    BY <1>4, <1>s DEF NewGroup
  <2> QED
    BY <1>4, <1>s, <1>f, <2>1, OtherwiseKeeps DEF NewGroup
<1>5. CASE TooManyEmpty
  BY <1>5, <1>f, SeenKeeps, OtherwiseKeeps DEF TooManyEmpty, Processes
<1>6. CASE SubmitAutomatically
  <2>1. fpc = "form" /\ form \in Forms
    BY <1>6, <1>f DEF SubmitAutomatically, Processes
  <2>2. /\ Seen(form) \in [groupSet : BOOLEAN, empties : 0 .. 3, autos : SUBSET Prints]
        /\ Seen(form).autos = state.autos /\ Seen(form).empties < 3
    BY <1>6, <2>1, SeenKeeps DEF SubmitAutomatically
  <2>3. /\ ~WasAutomatic(form)
        /\ Submit(form, Applied(form), Seen(form), TRUE)
        /\ UNCHANGED <<creds, attended, form, replies, result>>
    BY <1>6 DEF SubmitAutomatically
  <2>4. Owned(form, Applied(form)) /\ \A i \in DOMAIN Applied(form) : Applied(form)[i] \in Values
    BY <2>1, AppliedIsOwned
  <2> QED
    BY <1>f, <2>1, <2>2, <2>3, <2>4, SubmitKeeps
<1>7. CASE FormFails
  BY <1>7, <1>f, SeenKeeps, OtherwiseKeeps DEF FormFails, Processes
<1>8. CASE NobodyToAsk
  BY <1>8, <1>f, SeenKeeps, OtherwiseKeeps DEF NobodyToAsk, Processes
<1>9. CASE Ask
  BY <1>9, <1>f, SeenKeeps, OtherwiseKeeps DEF Ask, Processes
<1>10. CASE Reply
  <2>1. fpc = "asked" /\ form \in Forms
    BY <1>10, <1>f DEF Reply
  <2>2. PICK answers \in SUBSET UserOwned(form) : Submit(form, Bound(form, answers), state, FALSE)
    BY <1>10 DEF Reply
  <2>3. replies' \in 0 .. MaxReplies
    BY <1>10, <1>f, FormsAssumption DEF Reply
  <2>4. /\ Owned(form, Bound(form, answers))
        /\ \A i \in DOMAIN Bound(form, answers) : Bound(form, answers)[i] \in Values
    BY <2>1, BoundIsOwned
  <2>5. UNCHANGED <<creds, attended, form, result>>
    BY <1>10 DEF Reply
  <2> QED
    BY <1>s, <2>1, <2>2, <2>3, <2>4, <2>5, SubmitKeeps
<1>11. CASE ReplyFails
  BY <1>11, <1>s, <1>f, OtherwiseKeeps DEF ReplyFails
<1> QED
  BY <1>1, <1>2, <1>3, <1>4, <1>5, <1>6, <1>7, <1>8, <1>9, <1>10, <1>11
     DEF FormNext, Server, Handle, User

LEMMA HandOverKeeps == ASSUME FormInv, HandOver PROVE FormInv'
<1>1. fpc' = "done"
  BY DEF FormInv, FormInHand, HandOver
<1>2. StateOK' /\ FormInHand' /\ AutosKept' /\ NeverReplayed'
  BY <1>1 DEF HandOver, StateOK, NewState, FormInHand, AutosKept, NeverReplayed
<1>3. SubmissionIsOwned'
  BY DEF HandOver, NothingSent, SubmissionIsOwned
<1>4. FormTypeOK'
  BY <1>1, NothingKeepsType DEF HandOver, FormTypeOK
<1> QED
  BY <1>2, <1>3, <1>4 DEF FormInv

LEMMA FormStutters == ASSUME FormInv, UNCHANGED formVars PROVE FormInv'
BY DEF FormInv, formVars, FormTypeOK, StateOK, FormInHand, AutosKept, NeverReplayed,
       SubmissionIsOwned

-----------------------------------------------------------------------------
(* The session                                                             *)

Pc == {"none", "candidate", "cstp", "resumed", "pending", "attach", "setup", "dtls",
       "spawn", "loop", "ended", "gone"}
Thread == [pc : Pc, monitor : 0 .. MaxAttempt, gateway : 1 .. Gateways,
           generation : 0 .. 4 * MaxAttempt,
           bare : BOOLEAN, cancelled : BOOLEAN, failed : BOOLEAN]

Abilities == {"idle", "preparing", "prepared", "attaching", "running", "stopping", "joining"}
Outcomes  == {"Pending", "Connected", "Failed", "Cancelled"}
Lifecycles == {"Establishing", "Connected", "Failed", "Disconnecting", "Disconnected"}

\* How often the generation may have been raised for the attempt in hand.
Raises ==
  CASE ability \in {"preparing", "prepared"} -> 1
    [] ability = "attaching" -> 2
    [] ability = "running" -> IF running # 0 THEN 2 ELSE 3
    [] ability = "stopping" -> 3
    [] OTHER -> 4
RaisesCounted == generation <= 4 * attempt - 4 + Raises

\* Where the ability is while attach_tun runs.
OpeningPlace == opening # 0 => ability \in {"attaching", "stopping", "joining"}

\* The engine holds a mainloop, or what is left of one.
RunningPlace ==
  running # 0 => running <= attempt /\ worker[running].pc \in {"loop", "ended", "gone"}

\* A client that waits for its tunnel is that of the attempt in hand whenever
\* the ability may attach it.
PendingPlace ==
  /\ pending # 0 => pending <= attempt /\ worker[pending].pc = "pending"
  /\ ability = "prepared" => pending \in {0, attempt}

\* Threads of earlier attempts have smaller generations than the engine.
ThreadsBehind ==
  \A a \in Attempts :
    /\ a > attempt => worker[a].pc = "none"
    /\ a <= attempt => worker[a].generation <= generation
    /\ a < attempt => worker[a].generation < generation

\* A thread with a client has captured a registration, its own or a foreign one.
Captured(a) ==
  /\ worker[a].pc \notin {"none", "candidate", "ended", "gone"} => worker[a].monitor # 0
  /\ worker[a].monitor \notin {0, a} => worker[a].monitor \in foreign
MonitorsKnown == \A a \in Attempts : Captured(a)

\* What a client without protection leaves on the record, phase by phase.
OnRecord(a) ==
  worker[a].monitor \notin foreign =>
    /\ worker[a].pc \in {"cstp", "dtls"} /\ worker[a].bare => error[worker[a].monitor]
    /\ worker[a].pc \in {"resumed", "pending", "attach", "setup", "spawn"} => ~worker[a].bare
    /\ worker[a].pc = "loop" /\ worker[a].bare => error[worker[a].monitor] \/ worker[a].cancelled
BareKnown == \A a \in Attempts : OnRecord(a)

SessionInv ==
  /\ SessionTypeOK
  /\ RaisesCounted
  /\ OpeningPlace
  /\ RunningPlace
  /\ PendingPlace
  /\ ThreadsBehind
  /\ MonitorsKnown
  /\ BareKnown

USE DEF Attempts, abilityVars, engineVars, Abilities, Outcomes, Lifecycles

LEMMA Types ==
  ASSUME SessionTypeOK
  PROVE  /\ attempt \in 0 .. MaxAttempt /\ registered \in 0 .. MaxAttempt
         /\ opening \in 0 .. MaxAttempt /\ pending \in 0 .. MaxAttempt
         /\ running \in 0 .. MaxAttempt
         /\ generation \in 0 .. 4 * MaxAttempt
         /\ worker \in [Attempts -> Thread]
         /\ MaxAttempt \in Nat \ {0} /\ Gateways \in Nat \ {0}
<1>1. \A x \in {attempt, registered, opening, pending, running} : x \in 0 .. MaxAttempt
  BY DEF SessionTypeOK
<1> QED
  BY <1>1, SessionAssumption DEF SessionTypeOK, Thread, Pc

\* A thread that moves changes nothing else of itself, and of the others.
LEMMA MovesOne ==
  ASSUME SessionTypeOK, NEW a \in Attempts, NEW pc \in Pc, Moves(a, pc)
  PROVE  /\ worker' \in [Attempts -> Thread]
         /\ \A b \in Attempts : b # a => worker'[b] = worker[b]
         /\ worker'[a].pc = pc
         /\ worker'[a].monitor = worker[a].monitor
         /\ worker'[a].gateway = worker[a].gateway
         /\ worker'[a].generation = worker[a].generation
         /\ worker'[a].bare = worker[a].bare
         /\ worker'[a].cancelled = worker[a].cancelled
         /\ worker'[a].failed = worker[a].failed
BY Types DEF Moves, Thread

\* Two threads share a record only if one of them captured it from the other's
\* attempt.
LEMMA OwnRecord ==
  ASSUME SessionInv, NEW a \in Attempts, NEW b \in Attempts,
         worker[a].monitor = worker[b].monitor,
         worker[a].monitor # 0, worker[a].monitor \notin foreign
  PROVE  a = b
BY DEF SessionInv, MonitorsKnown, Captured

LEMMA SessionInitEstablishes == ASSUME SessionInit PROVE SessionInv
<1>1. NoWorker \in Thread
  BY SessionAssumption DEF NoWorker, Thread, Pc
<1>2. worker \in [Attempts -> Thread] /\ \A a \in Attempts : worker[a] = NoWorker
  BY <1>1 DEF SessionInit
<1>3. SessionTypeOK
  BY <1>2, SessionAssumption DEF SessionInit, SessionTypeOK, Thread, Pc
<1>4. RaisesCounted /\ OpeningPlace /\ RunningPlace
  BY DEF SessionInit, RaisesCounted, Raises, OpeningPlace, RunningPlace
<1>5. PendingPlace /\ ThreadsBehind /\ MonitorsKnown /\ BareKnown
  BY <1>2, SessionAssumption DEF SessionInit, PendingPlace, ThreadsBehind, MonitorsKnown,
       Captured, BareKnown, OnRecord, NoWorker
<1> QED
  BY <1>3, <1>4, <1>5 DEF SessionInv

LEMMA PartsMakeType ==
  ASSUME ability' \in Abilities,
         attempt' \in 0 .. MaxAttempt, registered' \in 0 .. MaxAttempt,
         opening' \in 0 .. MaxAttempt, pending' \in 0 .. MaxAttempt, running' \in 0 .. MaxAttempt,
         generation' \in 0 .. 4 * MaxAttempt,
         outcome' \in Outcomes, lifecycle' \in Lifecycles,
         worker' \in [Attempts -> Thread],
         error' \in [Attempts -> BOOLEAN], foreign' \subseteq Attempts
  PROVE  SessionTypeOK'
BY DEF SessionTypeOK, Thread, Pc

\* A thread whose fields change is still one, and the others are as they were.
LEMMA OneThread ==
  ASSUME worker \in [Attempts -> Thread], NEW a \in Attempts, NEW t \in Thread,
         worker' = [worker EXCEPT ![a] = t]
  PROVE  /\ worker' \in [Attempts -> Thread]
         /\ worker'[a] = t
         /\ \A b \in Attempts : b # a => worker'[b] = worker[b]
OBVIOUS


\* The same for a record of the registry.
LEMMA OneRecord ==
  ASSUME error \in [Attempts -> BOOLEAN], NEW m \in Attempts, NEW v \in BOOLEAN,
         error' = [error EXCEPT ![m] = v]
  PROVE  /\ error' \in [Attempts -> BOOLEAN]
         /\ error'[m] <=> v
         /\ \A n \in Attempts : n # m => (error'[n] <=> error[n])
OBVIOUS

\* Cancelling one thread.
LEMMA CancelsOne ==
  ASSUME worker \in [Attempts -> Thread], NEW a \in Attempts,
         worker' = [worker EXCEPT ![a].cancelled = TRUE]
  PROVE  /\ worker' \in [Attempts -> Thread]
         /\ worker'[a].cancelled
         /\ \A b \in Attempts : /\ worker'[b].pc = worker[b].pc
                                /\ worker'[b].monitor = worker[b].monitor
                                /\ worker'[b].generation = worker[b].generation
                                /\ worker'[b].bare = worker[b].bare
                                /\ worker[b].cancelled => worker'[b].cancelled
<1> DEFINE t == [worker[a] EXCEPT !.cancelled = TRUE]
<1>1. /\ t \in Thread /\ t.cancelled = TRUE /\ t.pc = worker[a].pc /\ t.monitor = worker[a].monitor
      /\ t.generation = worker[a].generation /\ t.bare = worker[a].bare
  BY DEF Thread
<1>2. worker' = [worker EXCEPT ![a] = t]
  OBVIOUS
<1> QED
  BY <1>1, <1>2, OneThread

\* What the engine lets go of: one thread is gone, one is cancelled.
LEMMA ReleasesTwo ==
  ASSUME worker \in [Attempts -> Thread], Released
  PROVE  /\ worker' \in [Attempts -> Thread]
         /\ \A b \in Attempts : /\ worker'[b].pc = worker[b].pc \/ (b = pending /\ worker'[b].pc = "gone")
                                /\ worker'[b].monitor = worker[b].monitor
                                /\ worker'[b].generation = worker[b].generation
                                /\ worker'[b].bare = worker[b].bare
                                /\ worker[b].cancelled => worker'[b].cancelled
<1>1. worker' = [b \in Attempts |->
           IF b = pending THEN [worker[b] EXCEPT !.pc = "gone"]
           ELSE IF b = running THEN [worker[b] EXCEPT !.cancelled = TRUE]
           ELSE worker[b]]
  BY DEF Released
<1>2. \A b \in Attempts : worker[b] \in Thread
  OBVIOUS
<1>3. ASSUME NEW b \in Attempts
      PROVE  /\ worker'[b] \in Thread
             /\ worker'[b].pc = worker[b].pc \/ (b = pending /\ worker'[b].pc = "gone")
             /\ worker'[b].monitor = worker[b].monitor
             /\ worker'[b].generation = worker[b].generation
             /\ worker'[b].bare = worker[b].bare
             /\ worker[b].cancelled => worker'[b].cancelled
  BY <1>1, <1>2 DEF Thread, Pc
<1>4. worker' \in [Attempts -> Thread]
  BY <1>1, <1>3
<1> QED
  BY <1>3, <1>4

\* A thread that stays as it is, with no record cleared that counts for it.
LEMMA StaysOnRecord ==
  ASSUME SessionInv, NEW b \in Attempts,
         worker'[b].pc = worker[b].pc, worker'[b].monitor = worker[b].monitor,
         worker'[b].bare = worker[b].bare, worker[b].cancelled => worker'[b].cancelled,
         foreign \subseteq foreign',
         (worker[b].pc \in {"cstp", "dtls", "loop"} /\ worker[b].monitor \notin foreign'
            /\ error[worker[b].monitor]) => error'[worker[b].monitor]
  PROVE  OnRecord(b)'
BY DEF SessionInv, BareKnown, OnRecord

\* When a thread clears its record, that of no other thread is lost.
LEMMA OthersOnRecord ==
  ASSUME SessionInv, NEW a \in Attempts, worker[a].monitor # 0, Cleared(a),
         NEW b \in Attempts, b # a, worker'[b] = worker[b], foreign' = foreign
  PROVE  OnRecord(b)'
<1>1. error \in [Attempts -> BOOLEAN] /\ worker[a].monitor \in Attempts
  <2>t. SessionTypeOK
    BY DEF SessionInv
  <2>e. error \in [Attempts -> BOOLEAN]
    BY <2>t, Zenon DEF SessionTypeOK
  <2>1. worker \in [Attempts -> Thread]
    BY <2>t, Types
  <2>2. worker[a].monitor \in 0 .. MaxAttempt
    BY <2>1 DEF Thread
  <2> QED
    BY <2>e, <2>1, <2>2
<1>2. \A n \in Attempts : n # worker[a].monitor => (error'[n] <=> error[n])
  BY <1>1, OneRecord DEF Cleared
<1>3. worker[b].monitor \notin foreign => worker[b].monitor # worker[a].monitor
  BY OwnRecord
<1>4. worker[b].pc \in {"cstp", "dtls", "loop"} => worker[b].monitor \in Attempts
  <2>1. worker[b].monitor \in 0 .. MaxAttempt
    BY Types DEF SessionInv, Thread
  <2>2. Captured(b)
    BY DEF SessionInv, MonitorsKnown
  <2> QED
    BY <2>1, <2>2 DEF Captured
<1>5. (worker[b].pc \in {"cstp", "dtls", "loop"} /\ worker[b].monitor \notin foreign'
         /\ error[worker[b].monitor]) => error'[worker[b].monitor]
  BY <1>2, <1>3, <1>4
<1>6. /\ worker'[b].pc = worker[b].pc /\ worker'[b].monitor = worker[b].monitor
      /\ worker'[b].bare = worker[b].bare
      /\ worker[b].cancelled => worker'[b].cancelled
      /\ foreign \subseteq foreign'
  OBVIOUS
<1> QED
  BY <1>5, <1>6, StaysOnRecord

LEMMA ClearedType ==
  ASSUME SessionInv, NEW a \in Attempts, Cleared(a)
  PROVE  error' \in [Attempts -> BOOLEAN]
BY DEF SessionInv, SessionTypeOK, Cleared

LEMMA LivesOnRecord ==
  ASSUME SessionInv, NEW b \in Attempts, worker[b].pc \in {"cstp", "dtls", "loop"}
  PROVE  worker[b].monitor \in Attempts
<1>1. worker[b].monitor \in 0 .. MaxAttempt
  BY Types DEF SessionInv, Thread
<1>2. Captured(b)
  BY DEF SessionInv, MonitorsKnown
<1> QED
  BY <1>1, <1>2 DEF Captured

LEMMA SessionStutters == ASSUME SessionInv, UNCHANGED sessionVars PROVE SessionInv'
BY DEF SessionInv, sessionVars, SessionTypeOK, RaisesCounted, Raises, OpeningPlace, RunningPlace,
       PendingPlace, ThreadsBehind, MonitorsKnown, Captured, BareKnown, OnRecord

\* What a tick does to the threads it does not cancel.
LEMMA OtherThanRunning ==
  ASSUME SessionInv, running \in Attempts, error' = error \/ Cleared(running),
         foreign' = foreign, NEW b \in Attempts, b # running,
         worker'[b].pc = worker[b].pc, worker'[b].monitor = worker[b].monitor,
         worker'[b].bare = worker[b].bare, worker[b].cancelled => worker'[b].cancelled
  PROVE  OnRecord(b)'
<1>1. error \in [Attempts -> BOOLEAN] /\ worker[running].monitor \in 0 .. MaxAttempt
  BY Types DEF SessionInv, SessionTypeOK, Thread
<1>2. worker[b].pc \in {"cstp", "dtls", "loop"} => worker[b].monitor \in Attempts
  BY LivesOnRecord
<1>3. worker[b].monitor \in Attempts /\ worker[b].monitor \notin foreign
        => worker[b].monitor # worker[running].monitor
  BY OwnRecord
<1>4. \A n \in Attempts : n # worker[running].monitor => (error'[n] <=> error[n])
  <2>1. CASE error' = error
    BY <2>1
  <2>2. CASE Cleared(running) /\ worker[running].monitor # 0
    BY <1>1, <2>2, OneRecord DEF Cleared
  <2>3. CASE Cleared(running) /\ worker[running].monitor = 0
    BY <1>1, <2>3 DEF Cleared
  <2> QED
    BY <2>1, <2>2, <2>3
<1>5. (worker[b].pc \in {"cstp", "dtls", "loop"} /\ worker[b].monitor \notin foreign'
         /\ error[worker[b].monitor]) => error'[worker[b].monitor]
  BY <1>2, <1>3, <1>4
<1>6. foreign \subseteq foreign'
  OBVIOUS
<1> QED
  BY <1>5, <1>6, StaysOnRecord

LEMMA StartKeeps ==
  ASSUME SessionInv, Start
  PROVE  SessionInv'
<1>t. /\ attempt \in 0 .. MaxAttempt /\ registered \in 0 .. MaxAttempt
      /\ opening \in 0 .. MaxAttempt /\ pending \in 0 .. MaxAttempt /\ running \in 0 .. MaxAttempt
      /\ generation \in 0 .. 4 * MaxAttempt /\ worker \in [Attempts -> Thread]
      /\ MaxAttempt \in Nat \ {0} /\ Gateways \in Nat \ {0}
  BY Types DEF SessionInv
<1>g. /\ attempt' = attempt + 1 /\ attempt' \in Attempts
      /\ generation' = generation + 1 /\ generation' \in 0 .. 4 * MaxAttempt
  BY <1>t DEF Start, Raised, SessionInv, RaisesCounted, Raises
<1> DEFINE t == [NoWorker EXCEPT !.pc = "candidate", !.generation = generation']
<1>x. t \in Thread /\ t.pc = "candidate" /\ t.monitor = 0 /\ t.generation = generation'
  <2>1. 0 \in 0 .. MaxAttempt /\ 1 \in 1 .. Gateways /\ 0 \in 0 .. 4 * MaxAttempt
    BY <1>t
  <2>2. NoWorker \in Thread /\ NoWorker.monitor = 0
    BY <2>1 DEF NoWorker, Thread, Pc
  <2> QED
    BY <1>g, <2>2 DEF Thread, Pc
<1>y. worker' = [worker EXCEPT ![attempt'] = t]
  BY DEF Start
<1> HIDE DEF t
<1>w. /\ attempt' = attempt + 1 /\ attempt' \in Attempts
      /\ generation' = generation + 1 /\ generation' \in 0 .. 4 * MaxAttempt
      /\ worker' \in [Attempts -> Thread]
      /\ \A b \in Attempts : b # attempt + 1 => worker'[b] = worker[b]
      /\ worker'[attempt + 1].pc = "candidate" /\ worker'[attempt + 1].monitor = 0
      /\ worker'[attempt + 1].generation = generation + 1
  BY <1>t, <1>g, <1>x, <1>y, OneThread
<1>1. SessionTypeOK'
  <2>1. /\ ability' \in Abilities
        /\ outcome' \in Outcomes /\ lifecycle' \in Lifecycles
        /\ attempt' \in 0 .. MaxAttempt /\ registered' \in 0 .. MaxAttempt
        /\ opening' \in 0 .. MaxAttempt /\ pending' \in 0 .. MaxAttempt
        /\ running' \in 0 .. MaxAttempt /\ generation' \in 0 .. 4 * MaxAttempt
    <3>1. ability' \in Abilities /\ outcome' \in Outcomes
      BY DEF Start
    <3>2. lifecycle' \in Lifecycles /\ UNCHANGED <<opening, pending, running>>
      BY DEF Start
    <3>3. registered' = attempt' /\ attempt' \in 0 .. MaxAttempt
      BY <1>t, <1>w DEF Start
    <3>4. opening' \in 0 .. MaxAttempt /\ pending' \in 0 .. MaxAttempt /\ running' \in 0 .. MaxAttempt
      BY <1>t, <3>2
    <3>5. generation' \in 0 .. 4 * MaxAttempt
      BY <1>w
    <3> QED
      BY <3>1, <3>2, <3>3, <3>4, <3>5
  <2>2. error' \in [Attempts -> BOOLEAN] /\ foreign' \subseteq Attempts
    BY <1>t DEF SessionInv, SessionTypeOK, Start
  <2> QED
    BY <1>w, <2>1, <2>2, PartsMakeType
<1>2. RaisesCounted'
  <2>1. ability = "idle" /\ ability' = "preparing"
    BY DEF Start
  <2>2. Raises = 4 /\ Raises' = 1
    BY <2>1 DEF Raises
  <2>3. generation <= 4 * attempt - 4 + 4
    BY <2>2 DEF SessionInv, RaisesCounted
  <2> QED
    BY <1>t, <1>w, <2>2, <2>3 DEF RaisesCounted
<1>3. OpeningPlace'
  BY <1>t, <1>w DEF SessionInv, OpeningPlace, Start, Raised
<1>4. RunningPlace'
  BY <1>t, <1>w DEF SessionInv, RunningPlace, Start, Raised
<1>5. PendingPlace'
  BY <1>t, <1>w DEF SessionInv, PendingPlace, Start, Raised
<1>6. ThreadsBehind'
  <2> SUFFICES ASSUME NEW b \in Attempts
               PROVE  /\ b > attempt' => worker'[b].pc = "none"
                      /\ b <= attempt' => worker'[b].generation <= generation'
                      /\ b < attempt' => worker'[b].generation < generation'
    BY DEF ThreadsBehind
  <2>o. /\ b > attempt => worker[b].pc = "none"
        /\ b <= attempt => worker[b].generation <= generation
        /\ b < attempt => worker[b].generation < generation
        /\ worker[b].generation \in Nat /\ b \in Nat
    BY <1>t DEF SessionInv, ThreadsBehind, Thread
  <2>1. CASE b # attempt + 1
    BY <1>t, <1>w, <2>o, <2>1
  <2>2. CASE b = attempt + 1
    BY <1>t, <1>w, <2>o, <2>2
  <2> QED
    BY <2>1, <2>2
<1>7. MonitorsKnown'
  BY <1>t, <1>w DEF SessionInv, MonitorsKnown, Captured, Start, Raised
<1>8. BareKnown'
  <2> SUFFICES ASSUME NEW b \in Attempts PROVE OnRecord(b)'
    BY DEF BareKnown
  <2>1. CASE b # attempt + 1
    BY <1>w, <2>1, StaysOnRecord DEF Start
  <2>2. CASE b = attempt + 1
    BY <1>w, <2>2 DEF OnRecord
  <2> QED
    BY <2>1, <2>2
<1> QED
  BY <1>1, <1>2, <1>3, <1>4, <1>5, <1>6, <1>7, <1>8 DEF SessionInv

LEMMA BeginOperationKeeps ==
  ASSUME SessionInv, NEW a \in Attempts, BeginOperation(a)
  PROVE  SessionInv'
<1>t. /\ attempt \in 0 .. MaxAttempt /\ registered \in 0 .. MaxAttempt
      /\ opening \in 0 .. MaxAttempt /\ pending \in 0 .. MaxAttempt /\ running \in 0 .. MaxAttempt
      /\ generation \in 0 .. 4 * MaxAttempt /\ worker \in [Attempts -> Thread]
      /\ MaxAttempt \in Nat \ {0} /\ Gateways \in Nat \ {0}
  BY Types DEF SessionInv
<1> DEFINE t == [worker[a] EXCEPT !.pc = "cstp", !.monitor = registered, !.bare = FALSE]
<1>x. t \in Thread
  BY <1>t DEF Thread, Pc
<1>y. worker' = [worker EXCEPT ![a] = t]
  BY <1>t DEF BeginOperation, Thread
<1>w. /\ worker' \in [Attempts -> Thread]
      /\ \A b \in Attempts : b # a => worker'[b] = worker[b]
      /\ worker'[a].pc = "cstp" /\ worker'[a].monitor = registered /\ worker'[a].bare = FALSE
      /\ worker'[a].generation = worker[a].generation
  BY <1>t, <1>x, <1>y, OneThread DEF Thread
<1> HIDE DEF t
<1>1. SessionTypeOK'
  <2>1. /\ ability' \in Abilities
        /\ outcome' \in Outcomes /\ lifecycle' \in Lifecycles
        /\ attempt' \in 0 .. MaxAttempt /\ registered' \in 0 .. MaxAttempt
        /\ opening' \in 0 .. MaxAttempt /\ pending' \in 0 .. MaxAttempt
        /\ running' \in 0 .. MaxAttempt /\ generation' \in 0 .. 4 * MaxAttempt
    BY <1>t, <1>w DEF SessionInv, SessionTypeOK, BeginOperation
  <2>2. error' \in [Attempts -> BOOLEAN] /\ foreign' \subseteq Attempts
    BY <1>t DEF SessionInv, SessionTypeOK, BeginOperation
  <2> QED
    BY <1>w, <2>1, <2>2, PartsMakeType
<1>2. RaisesCounted'
  BY <1>t, <1>w DEF SessionInv, RaisesCounted, Raises, BeginOperation
<1>3. OpeningPlace'
  BY <1>t, <1>w DEF SessionInv, OpeningPlace, BeginOperation
<1>4. RunningPlace'
  BY <1>t, <1>w DEF SessionInv, RunningPlace, BeginOperation
<1>5. PendingPlace'
  BY <1>t, <1>w DEF SessionInv, PendingPlace, BeginOperation
<1>6. ThreadsBehind'
  BY <1>t, <1>w DEF SessionInv, ThreadsBehind, BeginOperation
<1>7. MonitorsKnown'
  BY <1>t, <1>w DEF SessionInv, MonitorsKnown, Captured, BeginOperation
<1>8. BareKnown'
  <2> SUFFICES ASSUME NEW b \in Attempts PROVE OnRecord(b)'
    BY DEF BareKnown
  <2>1. CASE b # a
    <3>t. SessionTypeOK
      BY DEF SessionInv
    <3>e. error \in [Attempts -> BOOLEAN]
      BY <3>t, Zenon DEF SessionTypeOK
    <3>r. registered \in Attempts
      BY <1>t DEF BeginOperation
    <3>1. error \in [Attempts -> BOOLEAN] /\ registered \in Attempts
      BY <3>e, <3>r
    <3>2. \A n \in Attempts : n # registered => (error'[n] <=> error[n])
      BY <3>1, OneRecord DEF BeginOperation
    <3>3. worker[b].monitor = registered => registered \in foreign'
      BY <1>t, <2>1, <3>1 DEF SessionInv, MonitorsKnown, Captured, BeginOperation
    <3>4. foreign \subseteq foreign'
      BY DEF BeginOperation
    <3>5. worker[b].pc \in {"cstp", "dtls", "loop"} => worker[b].monitor \in Attempts
      BY LivesOnRecord
    <3>6. (worker[b].pc \in {"cstp", "dtls", "loop"} /\ worker[b].monitor \notin foreign'
             /\ error[worker[b].monitor]) => error'[worker[b].monitor]
      BY <3>2, <3>3, <3>5
    <3> QED
      BY <1>w, <2>1, <3>4, <3>6, StaysOnRecord
  <2>2. CASE b = a
    BY <1>w, <2>2 DEF OnRecord
  <2> QED
    BY <2>1, <2>2
<1> QED
  BY <1>1, <1>2, <1>3, <1>4, <1>5, <1>6, <1>7, <1>8 DEF SessionInv

LEMMA NotRegisteredKeeps ==
  ASSUME SessionInv, NEW a \in Attempts, NotRegistered(a)
  PROVE  SessionInv'
<1>t. /\ attempt \in 0 .. MaxAttempt /\ registered \in 0 .. MaxAttempt
      /\ opening \in 0 .. MaxAttempt /\ pending \in 0 .. MaxAttempt /\ running \in 0 .. MaxAttempt
      /\ generation \in 0 .. 4 * MaxAttempt /\ worker \in [Attempts -> Thread]
      /\ MaxAttempt \in Nat \ {0} /\ Gateways \in Nat \ {0}
  BY Types DEF SessionInv
<1>w. /\ worker' \in [Attempts -> Thread]
      /\ \A b \in Attempts : b # a => worker'[b] = worker[b]
      /\ worker'[a].pc \in {"gone"}
      /\ worker'[a].monitor = worker[a].monitor
      /\ worker'[a].gateway = worker[a].gateway
      /\ worker'[a].generation = worker[a].generation
      /\ worker'[a].bare = worker[a].bare
      /\ worker'[a].cancelled = worker[a].cancelled
  BY MovesOne DEF SessionInv, Pc, NotRegistered
<1>1. SessionTypeOK'
  BY <1>t, <1>w DEF SessionInv, SessionTypeOK, Thread, Pc, NotRegistered
<1>2. RaisesCounted'
  BY <1>t, <1>w DEF SessionInv, RaisesCounted, Raises, NotRegistered
<1>3. OpeningPlace'
  BY <1>t, <1>w DEF SessionInv, OpeningPlace, NotRegistered
<1>4. RunningPlace'
  BY <1>t, <1>w DEF SessionInv, RunningPlace, NotRegistered
<1>5. PendingPlace'
  BY <1>t, <1>w DEF SessionInv, PendingPlace, NotRegistered
<1>6. ThreadsBehind'
  BY <1>t, <1>w DEF SessionInv, ThreadsBehind, NotRegistered
<1>7. MonitorsKnown'
  BY <1>t, <1>w DEF SessionInv, MonitorsKnown, Captured, NotRegistered
<1>8. BareKnown'
  BY <1>t, <1>w DEF SessionInv, BareKnown, OnRecord, NotRegistered
<1> QED
  BY <1>1, <1>2, <1>3, <1>4, <1>5, <1>6, <1>7, <1>8 DEF SessionInv

LEMMA OpenSocketKeeps ==
  ASSUME SessionInv, NEW a \in Attempts, OpenSocket(a)
  PROVE  SessionInv'
<1>1. CASE UNCHANGED <<error, worker>>
  <2>1. UNCHANGED sessionVars
    BY <1>1 DEF OpenSocket, sessionVars
  <2> QED
    BY <2>1, SessionStutters
<1>2. CASE /\ error' = [error EXCEPT ![worker[a].monitor] = TRUE]
           /\ worker' = [worker EXCEPT ![a].bare = TRUE]
  <2>t. /\ worker \in [Attempts -> Thread] /\ worker[a].pc \in {"cstp", "dtls", "loop"}
        /\ worker[a].monitor \in Attempts
    BY Types, LivesOnRecord DEF SessionInv, OpenSocket
  <2> DEFINE t == [worker[a] EXCEPT !.bare = TRUE]
  <2>x. t \in Thread /\ worker' = [worker EXCEPT ![a] = t]
    BY <1>2, <2>t DEF Thread
  <2>w. /\ worker' \in [Attempts -> Thread]
        /\ \A b \in Attempts : b # a => worker'[b] = worker[b]
        /\ worker'[a].pc = worker[a].pc /\ worker'[a].monitor = worker[a].monitor
        /\ worker'[a].generation = worker[a].generation
    BY <2>t, <2>x, OneThread DEF Thread
  <2> HIDE DEF t
  <2>e. /\ error' \in [Attempts -> BOOLEAN] /\ error'[worker[a].monitor]
        /\ \A n \in Attempts : error[n] => error'[n]
    BY <1>2, <2>t, OneRecord DEF SessionInv, SessionTypeOK
  <2>u. UNCHANGED <<abilityVars, engineVars, foreign>>
    BY DEF OpenSocket
  <2>1. SessionTypeOK'
    BY <2>w, <2>e, <2>u DEF SessionInv, SessionTypeOK, Thread, Pc
  <2>2. RaisesCounted' /\ OpeningPlace'
    BY <2>u DEF SessionInv, RaisesCounted, Raises, OpeningPlace
  <2>3. RunningPlace' /\ PendingPlace' /\ ThreadsBehind'
    BY <2>w, <2>u, Types DEF SessionInv, RunningPlace, PendingPlace, ThreadsBehind
  <2>4. MonitorsKnown'
    BY <2>w, <2>u DEF SessionInv, MonitorsKnown, Captured
  <2>5. ASSUME NEW b \in Attempts PROVE OnRecord(b)'
    <3>1. CASE b # a
      BY <2>w, <2>e, <2>u, <3>1, LivesOnRecord, StaysOnRecord
    <3>2. CASE b = a
      BY <2>t, <2>w, <2>e, <3>2 DEF OnRecord
    <3> QED
      BY <3>1, <3>2
  <2> QED
    BY <2>1, <2>2, <2>3, <2>4, <2>5 DEF SessionInv, BareKnown
<1> QED
  BY <1>1, <1>2 DEF OpenSocket, Monitor

LEMMA CstpFailsKeeps ==
  ASSUME SessionInv, NEW a \in Attempts, CstpFails(a)
  PROVE  SessionInv'
<1>t. /\ attempt \in 0 .. MaxAttempt /\ registered \in 0 .. MaxAttempt
      /\ opening \in 0 .. MaxAttempt /\ pending \in 0 .. MaxAttempt /\ running \in 0 .. MaxAttempt
      /\ generation \in 0 .. 4 * MaxAttempt /\ worker \in [Attempts -> Thread]
      /\ MaxAttempt \in Nat \ {0} /\ Gateways \in Nat \ {0}
  BY Types DEF SessionInv
<1>w. /\ worker' \in [Attempts -> Thread]
      /\ \A b \in Attempts : b # a => worker'[b] = worker[b]
      /\ worker'[a].pc \in {"candidate", "gone"} /\ worker'[a].monitor = worker[a].monitor
      /\ worker'[a].generation = worker[a].generation
  <2>1. CASE Moves(a, "gone")
    BY <2>1, MovesOne DEF SessionInv, Pc
  <2>2. CASE /\ worker[a].gateway < Gateways
             /\ worker' = [worker EXCEPT ![a].pc = "candidate", ![a].gateway = @ + 1]
    <3> DEFINE t == [worker[a] EXCEPT !.pc = "candidate", !.gateway = @ + 1]
    <3>1. /\ t \in Thread /\ t.pc = "candidate" /\ t.monitor = worker[a].monitor
          /\ t.generation = worker[a].generation
      BY <1>t, <2>2 DEF Thread, Pc
    <3>2. worker' = [worker EXCEPT ![a] = t]
      BY <1>t, <2>2 DEF Thread
    <3> HIDE DEF t
    <3> QED
      BY <1>t, <3>1, <3>2, OneThread
  <2> QED
    BY <2>1, <2>2 DEF CstpFails
<1>1. SessionTypeOK'
  <2>1. /\ ability' \in Abilities
        /\ outcome' \in Outcomes /\ lifecycle' \in Lifecycles
        /\ attempt' \in 0 .. MaxAttempt /\ registered' \in 0 .. MaxAttempt
        /\ opening' \in 0 .. MaxAttempt /\ pending' \in 0 .. MaxAttempt
        /\ running' \in 0 .. MaxAttempt /\ generation' \in 0 .. 4 * MaxAttempt
    BY <1>t, <1>w DEF SessionInv, SessionTypeOK, CstpFails
  <2>2. error' \in [Attempts -> BOOLEAN] /\ foreign' \subseteq Attempts
    BY <1>t, ClearedType DEF SessionInv, SessionTypeOK, CstpFails
  <2> QED
    BY <1>w, <2>1, <2>2, PartsMakeType
<1>2. RaisesCounted'
  BY <1>t, <1>w DEF SessionInv, RaisesCounted, Raises, CstpFails
<1>3. OpeningPlace'
  BY <1>t, <1>w DEF SessionInv, OpeningPlace, CstpFails
<1>4. RunningPlace'
  BY <1>t, <1>w DEF SessionInv, RunningPlace, CstpFails
<1>5. PendingPlace'
  BY <1>t, <1>w DEF SessionInv, PendingPlace, CstpFails
<1>6. ThreadsBehind'
  BY <1>t, <1>w DEF SessionInv, ThreadsBehind, CstpFails
<1>7. MonitorsKnown'
  BY <1>t, <1>w DEF SessionInv, MonitorsKnown, Captured, CstpFails
<1>8. BareKnown'
  <2> SUFFICES ASSUME NEW b \in Attempts PROVE OnRecord(b)'
    BY DEF BareKnown
  <2>a. worker[a].monitor # 0
    BY DEF SessionInv, MonitorsKnown, Captured, CstpFails
  <2>1. CASE b # a
    BY <1>w, <2>a, <2>1, OthersOnRecord DEF CstpFails
  <2>2. CASE b = a
    BY <1>w, <2>2 DEF SessionInv, BareKnown, OnRecord, CstpFails
  <2> QED
    BY <2>1, <2>2
<1> QED
  BY <1>1, <1>2, <1>3, <1>4, <1>5, <1>6, <1>7, <1>8 DEF SessionInv

LEMMA CstpDoneKeeps ==
  ASSUME SessionInv, NEW a \in Attempts, CstpDone(a)
  PROVE  SessionInv'
<1>t. /\ attempt \in 0 .. MaxAttempt /\ registered \in 0 .. MaxAttempt
      /\ opening \in 0 .. MaxAttempt /\ pending \in 0 .. MaxAttempt /\ running \in 0 .. MaxAttempt
      /\ generation \in 0 .. 4 * MaxAttempt /\ worker \in [Attempts -> Thread]
      /\ MaxAttempt \in Nat \ {0} /\ Gateways \in Nat \ {0}
  BY Types DEF SessionInv
<1>w. /\ worker' \in [Attempts -> Thread]
      /\ \A b \in Attempts : b # a => worker'[b] = worker[b]
      /\ worker'[a].pc \in {"resumed"}
      /\ worker'[a].monitor = worker[a].monitor
      /\ worker'[a].gateway = worker[a].gateway
      /\ worker'[a].generation = worker[a].generation
      /\ worker'[a].bare = worker[a].bare
      /\ worker'[a].cancelled = worker[a].cancelled
  BY MovesOne DEF SessionInv, Pc, CstpDone
<1>1. SessionTypeOK'
  BY <1>t, <1>w DEF SessionInv, SessionTypeOK, Thread, Pc, CstpDone, Refused
<1>2. RaisesCounted'
  BY <1>t, <1>w DEF SessionInv, RaisesCounted, Raises, CstpDone, Refused
<1>3. OpeningPlace'
  BY <1>t, <1>w DEF SessionInv, OpeningPlace, CstpDone, Refused
<1>4. RunningPlace'
  BY <1>t, <1>w DEF SessionInv, RunningPlace, CstpDone, Refused
<1>5. PendingPlace'
  BY <1>t, <1>w DEF SessionInv, PendingPlace, CstpDone, Refused
<1>6. ThreadsBehind'
  BY <1>t, <1>w DEF SessionInv, ThreadsBehind, CstpDone, Refused
<1>7. MonitorsKnown'
  BY <1>t, <1>w DEF SessionInv, MonitorsKnown, Captured, CstpDone, Refused
<1>8. BareKnown'
  BY <1>t, <1>w DEF SessionInv, BareKnown, OnRecord, CstpDone, Refused
<1> QED
  BY <1>1, <1>2, <1>3, <1>4, <1>5, <1>6, <1>7, <1>8 DEF SessionInv

LEMMA PrepareReturnsKeeps ==
  ASSUME SessionInv, NEW a \in Attempts, PrepareReturns(a)
  PROVE  SessionInv'
<1>t. /\ attempt \in 0 .. MaxAttempt /\ registered \in 0 .. MaxAttempt
      /\ opening \in 0 .. MaxAttempt /\ pending \in 0 .. MaxAttempt /\ running \in 0 .. MaxAttempt
      /\ generation \in 0 .. 4 * MaxAttempt /\ worker \in [Attempts -> Thread]
      /\ MaxAttempt \in Nat \ {0} /\ Gateways \in Nat \ {0}
  BY Types DEF SessionInv
<1>w. /\ worker' \in [Attempts -> Thread]
      /\ \A b \in Attempts : b # a => worker'[b] = worker[b]
      /\ worker'[a].pc \in {"pending", "gone"}
      /\ worker'[a].monitor = worker[a].monitor
      /\ worker'[a].gateway = worker[a].gateway
      /\ worker'[a].generation = worker[a].generation
      /\ worker'[a].bare = worker[a].bare
      /\ worker'[a].cancelled = worker[a].cancelled
  BY MovesOne DEF SessionInv, Pc, PrepareReturns
<1>1. SessionTypeOK'
  <2>1. /\ ability' \in Abilities
        /\ outcome' \in Outcomes /\ lifecycle' \in Lifecycles
        /\ attempt' \in 0 .. MaxAttempt /\ registered' \in 0 .. MaxAttempt
        /\ opening' \in 0 .. MaxAttempt /\ pending' \in 0 .. MaxAttempt
        /\ running' \in 0 .. MaxAttempt /\ generation' \in 0 .. 4 * MaxAttempt
    <3>1. ability' \in Abilities
      BY DEF PrepareReturns, SessionInv, SessionTypeOK
    <3>2. pending' \in 0 .. MaxAttempt
      BY <1>t DEF PrepareReturns
    <3>3. lifecycle' \in Lifecycles
      BY DEF PrepareReturns, SessionInv, SessionTypeOK
    <3>4. UNCHANGED <<attempt, registered, opening, generation, outcome, running>>
      BY DEF PrepareReturns
    <3>5. outcome' \in Outcomes
      BY <3>4 DEF SessionInv, SessionTypeOK
    <3>6. /\ attempt' \in 0 .. MaxAttempt /\ registered' \in 0 .. MaxAttempt
          /\ opening' \in 0 .. MaxAttempt /\ running' \in 0 .. MaxAttempt
          /\ generation' \in 0 .. 4 * MaxAttempt
      BY <1>t, <3>4
    <3> QED
      BY <3>1, <3>2, <3>3, <3>4, <3>5, <3>6
  <2>2. error' \in [Attempts -> BOOLEAN] /\ foreign' \subseteq Attempts
    BY <1>t DEF SessionInv, SessionTypeOK, PrepareReturns
  <2> QED
    BY <1>w, <2>1, <2>2, PartsMakeType
<1>2. RaisesCounted'
  BY <1>t, <1>w DEF SessionInv, RaisesCounted, Raises, PrepareReturns, Current
<1>3. OpeningPlace'
  BY <1>t, <1>w DEF SessionInv, OpeningPlace, PrepareReturns, Current
<1>4. RunningPlace'
  BY <1>t, <1>w DEF SessionInv, RunningPlace, PrepareReturns, Current
<1>5. PendingPlace'
  <2>1. CASE Current(a)
    <3>1. /\ pending' = a /\ a = attempt /\ attempt' = attempt
          /\ worker'[a].pc = "pending"
      BY <1>t, <2>1, MovesOne DEF SessionInv, PrepareReturns, Current, Pc
    <3> QED
      BY <1>t, <3>1 DEF PendingPlace
  <2>2. CASE ~Current(a)
    <3>1. UNCHANGED <<pending, attempt, ability>> /\ pending # a
      BY <1>t, <2>2 DEF SessionInv, PendingPlace, PrepareReturns
    <3>2. pending # 0 => worker'[pending] = worker[pending]
      BY <1>t, <1>w, <3>1
    <3> QED
      BY <1>t, <3>1, <3>2 DEF SessionInv, PendingPlace
  <2> QED
    BY <2>1, <2>2
<1>6. ThreadsBehind'
  BY <1>t, <1>w DEF SessionInv, ThreadsBehind, PrepareReturns, Current
<1>7. MonitorsKnown'
  BY <1>t, <1>w DEF SessionInv, MonitorsKnown, Captured, PrepareReturns, Current
<1>8. BareKnown'
  BY <1>t, <1>w DEF SessionInv, BareKnown, OnRecord, PrepareReturns, Current
<1> QED
  BY <1>1, <1>2, <1>3, <1>4, <1>5, <1>6, <1>7, <1>8 DEF SessionInv

LEMMA AttachKeeps ==
  ASSUME SessionInv, Attach
  PROVE  SessionInv'
<1>t. /\ attempt \in 0 .. MaxAttempt /\ registered \in 0 .. MaxAttempt
      /\ opening \in 0 .. MaxAttempt /\ pending \in 0 .. MaxAttempt /\ running \in 0 .. MaxAttempt
      /\ generation \in 0 .. 4 * MaxAttempt /\ worker \in [Attempts -> Thread]
      /\ MaxAttempt \in Nat \ {0} /\ Gateways \in Nat \ {0}
  BY Types DEF SessionInv
<1>g. /\ pending = attempt /\ pending \in Attempts
      /\ generation' = generation + 1 /\ generation' \in 0 .. 4 * MaxAttempt
  BY <1>t DEF Attach, Raised, SessionInv, RaisesCounted, Raises, PendingPlace
<1> DEFINE t == [worker[attempt] EXCEPT !.pc = "attach", !.generation = generation']
<1>x. /\ t \in Thread /\ t.pc = "attach" /\ t.generation = generation'
      /\ t.monitor = worker[attempt].monitor /\ t.bare = worker[attempt].bare
  BY <1>t, <1>g DEF Thread, Pc
<1>y. worker' = [worker EXCEPT ![attempt] = t]
  BY <1>t, <1>g DEF Attach, Thread
<1> HIDE DEF t
<1>w. /\ pending = attempt /\ attempt \in Attempts
      /\ generation' = generation + 1 /\ generation' \in 0 .. 4 * MaxAttempt
      /\ worker[attempt].pc = "pending"
      /\ worker' \in [Attempts -> Thread]
      /\ \A b \in Attempts : b # attempt => worker'[b] = worker[b]
      /\ worker'[attempt].pc = "attach" /\ worker'[attempt].monitor = worker[attempt].monitor
      /\ worker'[attempt].generation = generation + 1
      /\ worker'[attempt].bare = worker[attempt].bare
  BY <1>t, <1>g, <1>x, <1>y, OneThread DEF SessionInv, PendingPlace
<1>1. SessionTypeOK'
  <2>1. /\ ability' \in Abilities
        /\ outcome' \in Outcomes /\ lifecycle' \in Lifecycles
        /\ attempt' \in 0 .. MaxAttempt /\ registered' \in 0 .. MaxAttempt
        /\ opening' \in 0 .. MaxAttempt /\ pending' \in 0 .. MaxAttempt
        /\ running' \in 0 .. MaxAttempt /\ generation' \in 0 .. 4 * MaxAttempt
    BY <1>t, <1>w DEF SessionInv, SessionTypeOK, Attach
  <2>2. error' \in [Attempts -> BOOLEAN] /\ foreign' \subseteq Attempts
    BY <1>t DEF SessionInv, SessionTypeOK, Attach
  <2> QED
    BY <1>w, <2>1, <2>2, PartsMakeType
<1>2. RaisesCounted'
  BY <1>t, <1>w DEF SessionInv, RaisesCounted, Raises, Attach, Raised
<1>3. OpeningPlace'
  BY <1>t, <1>w DEF SessionInv, OpeningPlace, Attach, Raised
<1>4. RunningPlace'
  BY <1>t, <1>w DEF SessionInv, RunningPlace, Attach, Raised
<1>5. PendingPlace'
  BY <1>t, <1>w DEF SessionInv, PendingPlace, Attach, Raised
<1>6. ThreadsBehind'
  <2> SUFFICES ASSUME NEW b \in Attempts
               PROVE  /\ b > attempt' => worker'[b].pc = "none"
                      /\ b <= attempt' => worker'[b].generation <= generation'
                      /\ b < attempt' => worker'[b].generation < generation'
    BY DEF ThreadsBehind
  <2>o. /\ b > attempt => worker[b].pc = "none"
        /\ b <= attempt => worker[b].generation <= generation
        /\ b < attempt => worker[b].generation < generation
        /\ worker[b].generation \in Nat /\ b \in Nat
    BY <1>t DEF SessionInv, ThreadsBehind, Thread
  <2>a. attempt' = attempt
    BY DEF Attach
  <2>1. CASE b # attempt
    BY <1>t, <1>w, <2>o, <2>a, <2>1
  <2>2. CASE b = attempt
    BY <1>t, <1>w, <2>o, <2>a, <2>2
  <2> QED
    BY <2>1, <2>2
<1>7. MonitorsKnown'
  <2> SUFFICES ASSUME NEW b \in Attempts PROVE Captured(b)'
    BY DEF MonitorsKnown
  <2>1. Captured(b) /\ foreign' = foreign
    BY DEF SessionInv, MonitorsKnown, Attach
  <2>2. CASE b # pending
    BY <1>w, <2>1, <2>2 DEF Captured
  <2>3. CASE b = pending
    BY <1>t, <1>w, <2>1, <2>3 DEF Captured, SessionInv, PendingPlace, MonitorsKnown
  <2> QED
    BY <2>2, <2>3
<1>8. BareKnown'
  <2> SUFFICES ASSUME NEW b \in Attempts PROVE OnRecord(b)'
    BY DEF BareKnown
  <2>1. CASE b # attempt
    BY <1>w, <2>1, StaysOnRecord DEF Attach
  <2>2. CASE b = attempt
    BY <1>w, <2>2 DEF OnRecord, SessionInv, BareKnown, Attach
  <2> QED
    BY <2>1, <2>2
<1> QED
  BY <1>1, <1>2, <1>3, <1>4, <1>5, <1>6, <1>7, <1>8 DEF SessionInv

LEMMA AttachChecksKeeps ==
  ASSUME SessionInv, NEW a \in Attempts, AttachChecks(a)
  PROVE  SessionInv'
<1>t. /\ attempt \in 0 .. MaxAttempt /\ registered \in 0 .. MaxAttempt
      /\ opening \in 0 .. MaxAttempt /\ pending \in 0 .. MaxAttempt /\ running \in 0 .. MaxAttempt
      /\ generation \in 0 .. 4 * MaxAttempt /\ worker \in [Attempts -> Thread]
      /\ MaxAttempt \in Nat \ {0} /\ Gateways \in Nat \ {0}
  BY Types DEF SessionInv
<1>w. /\ worker' \in [Attempts -> Thread]
      /\ \A b \in Attempts : b # a => worker'[b] = worker[b]
      /\ worker'[a].pc \in {"setup", "gone"}
      /\ worker'[a].monitor = worker[a].monitor
      /\ worker'[a].gateway = worker[a].gateway
      /\ worker'[a].generation = worker[a].generation
      /\ worker'[a].bare = worker[a].bare
      /\ worker'[a].cancelled = worker[a].cancelled
  BY MovesOne DEF SessionInv, Pc, AttachChecks, AttachGoesOn
<1>1. SessionTypeOK'
  <2>1. /\ ability' \in Abilities
        /\ outcome' \in Outcomes /\ lifecycle' \in Lifecycles
        /\ attempt' \in 0 .. MaxAttempt /\ registered' \in 0 .. MaxAttempt
        /\ opening' \in 0 .. MaxAttempt /\ pending' \in 0 .. MaxAttempt
        /\ running' \in 0 .. MaxAttempt /\ generation' \in 0 .. 4 * MaxAttempt
    BY <1>t, <1>w DEF SessionInv, SessionTypeOK, AttachChecks, AttachGoesOn
  <2>2. error' \in [Attempts -> BOOLEAN] /\ foreign' \subseteq Attempts
    BY <1>t DEF SessionInv, SessionTypeOK, AttachChecks, AttachGoesOn
  <2> QED
    BY <1>w, <2>1, <2>2, PartsMakeType
<1>2. RaisesCounted'
  BY <1>t, <1>w DEF SessionInv, RaisesCounted, Raises, AttachChecks, AttachGoesOn
<1>3. OpeningPlace'
  BY <1>t, <1>w DEF SessionInv, OpeningPlace, AttachChecks, AttachGoesOn
<1>4. RunningPlace'
  BY <1>t, <1>w DEF SessionInv, RunningPlace, AttachChecks, AttachGoesOn
<1>5. PendingPlace'
  BY <1>t, <1>w DEF SessionInv, PendingPlace, AttachChecks, AttachGoesOn
<1>6. ThreadsBehind'
  BY <1>t, <1>w DEF SessionInv, ThreadsBehind, AttachChecks, AttachGoesOn
<1>7. MonitorsKnown'
  BY <1>t, <1>w DEF SessionInv, MonitorsKnown, Captured, AttachChecks, AttachGoesOn
<1>8. BareKnown'
  BY <1>t, <1>w DEF SessionInv, BareKnown, OnRecord, AttachChecks, AttachGoesOn
<1> QED
  BY <1>1, <1>2, <1>3, <1>4, <1>5, <1>6, <1>7, <1>8 DEF SessionInv

LEMMA SetupDtlsKeeps ==
  ASSUME SessionInv, NEW a \in Attempts, SetupDtls(a)
  PROVE  SessionInv'
<1>t. /\ attempt \in 0 .. MaxAttempt /\ registered \in 0 .. MaxAttempt
      /\ opening \in 0 .. MaxAttempt /\ pending \in 0 .. MaxAttempt /\ running \in 0 .. MaxAttempt
      /\ generation \in 0 .. 4 * MaxAttempt /\ worker \in [Attempts -> Thread]
      /\ MaxAttempt \in Nat \ {0} /\ Gateways \in Nat \ {0}
  BY Types DEF SessionInv
<1>w. /\ worker' \in [Attempts -> Thread]
      /\ \A b \in Attempts : b # a => worker'[b] = worker[b]
      /\ worker'[a].pc \in {"dtls"}
      /\ worker'[a].monitor = worker[a].monitor
      /\ worker'[a].gateway = worker[a].gateway
      /\ worker'[a].generation = worker[a].generation
      /\ worker'[a].bare = worker[a].bare
      /\ worker'[a].cancelled = worker[a].cancelled
  BY MovesOne DEF SessionInv, Pc, SetupDtls, AttachGoesOn
<1>1. SessionTypeOK'
  <2>1. /\ ability' \in Abilities
        /\ outcome' \in Outcomes /\ lifecycle' \in Lifecycles
        /\ attempt' \in 0 .. MaxAttempt /\ registered' \in 0 .. MaxAttempt
        /\ opening' \in 0 .. MaxAttempt /\ pending' \in 0 .. MaxAttempt
        /\ running' \in 0 .. MaxAttempt /\ generation' \in 0 .. 4 * MaxAttempt
    BY <1>t, <1>w DEF SessionInv, SessionTypeOK, SetupDtls, AttachGoesOn
  <2>2. error' \in [Attempts -> BOOLEAN] /\ foreign' \subseteq Attempts
    BY <1>t, ClearedType DEF SessionInv, SessionTypeOK, SetupDtls, AttachGoesOn
  <2> QED
    BY <1>w, <2>1, <2>2, PartsMakeType
<1>2. RaisesCounted'
  BY <1>t, <1>w DEF SessionInv, RaisesCounted, Raises, SetupDtls, AttachGoesOn
<1>3. OpeningPlace'
  BY <1>t, <1>w DEF SessionInv, OpeningPlace, SetupDtls, AttachGoesOn
<1>4. RunningPlace'
  BY <1>t, <1>w DEF SessionInv, RunningPlace, SetupDtls, AttachGoesOn
<1>5. PendingPlace'
  BY <1>t, <1>w DEF SessionInv, PendingPlace, SetupDtls, AttachGoesOn
<1>6. ThreadsBehind'
  BY <1>t, <1>w DEF SessionInv, ThreadsBehind, SetupDtls, AttachGoesOn
<1>7. MonitorsKnown'
  BY <1>t, <1>w DEF SessionInv, MonitorsKnown, Captured, SetupDtls, AttachGoesOn
<1>8. BareKnown'
  <2> SUFFICES ASSUME NEW b \in Attempts PROVE OnRecord(b)'
    BY DEF BareKnown
  <2>a. worker[a].monitor # 0
    BY DEF SessionInv, MonitorsKnown, Captured, SetupDtls
  <2>1. CASE b # a
    BY <1>w, <2>a, <2>1, OthersOnRecord DEF SetupDtls, AttachGoesOn
  <2>2. CASE b = a
    BY <1>w, <2>2 DEF SessionInv, BareKnown, OnRecord, SetupDtls, AttachGoesOn
  <2> QED
    BY <2>1, <2>2
<1> QED
  BY <1>1, <1>2, <1>3, <1>4, <1>5, <1>6, <1>7, <1>8 DEF SessionInv

LEMMA DtlsDoneKeeps ==
  ASSUME SessionInv, NEW a \in Attempts, DtlsDone(a)
  PROVE  SessionInv'
<1>t. /\ attempt \in 0 .. MaxAttempt /\ registered \in 0 .. MaxAttempt
      /\ opening \in 0 .. MaxAttempt /\ pending \in 0 .. MaxAttempt /\ running \in 0 .. MaxAttempt
      /\ generation \in 0 .. 4 * MaxAttempt /\ worker \in [Attempts -> Thread]
      /\ MaxAttempt \in Nat \ {0} /\ Gateways \in Nat \ {0}
  BY Types DEF SessionInv
<1>w. /\ worker' \in [Attempts -> Thread]
      /\ \A b \in Attempts : b # a => worker'[b] = worker[b]
      /\ worker'[a].pc \in {"spawn", "gone"}
      /\ worker'[a].monitor = worker[a].monitor
      /\ worker'[a].gateway = worker[a].gateway
      /\ worker'[a].generation = worker[a].generation
      /\ worker'[a].bare = worker[a].bare
      /\ worker'[a].cancelled = worker[a].cancelled
  BY MovesOne DEF SessionInv, Pc, DtlsDone, AttachGoesOn
<1>1. SessionTypeOK'
  <2>1. /\ ability' \in Abilities
        /\ outcome' \in Outcomes /\ lifecycle' \in Lifecycles
        /\ attempt' \in 0 .. MaxAttempt /\ registered' \in 0 .. MaxAttempt
        /\ opening' \in 0 .. MaxAttempt /\ pending' \in 0 .. MaxAttempt
        /\ running' \in 0 .. MaxAttempt /\ generation' \in 0 .. 4 * MaxAttempt
    BY <1>t, <1>w DEF SessionInv, SessionTypeOK, DtlsDone, AttachGoesOn
  <2>2. error' \in [Attempts -> BOOLEAN] /\ foreign' \subseteq Attempts
    BY <1>t, ClearedType DEF SessionInv, SessionTypeOK, DtlsDone, AttachGoesOn
  <2> QED
    BY <1>w, <2>1, <2>2, PartsMakeType
<1>2. RaisesCounted'
  BY <1>t, <1>w DEF SessionInv, RaisesCounted, Raises, DtlsDone, AttachGoesOn
<1>3. OpeningPlace'
  BY <1>t, <1>w DEF SessionInv, OpeningPlace, DtlsDone, AttachGoesOn
<1>4. RunningPlace'
  BY <1>t, <1>w DEF SessionInv, RunningPlace, DtlsDone, AttachGoesOn
<1>5. PendingPlace'
  BY <1>t, <1>w DEF SessionInv, PendingPlace, DtlsDone, AttachGoesOn
<1>6. ThreadsBehind'
  BY <1>t, <1>w DEF SessionInv, ThreadsBehind, DtlsDone, AttachGoesOn
<1>7. MonitorsKnown'
  BY <1>t, <1>w DEF SessionInv, MonitorsKnown, Captured, DtlsDone, AttachGoesOn
<1>8. BareKnown'
  <2> SUFFICES ASSUME NEW b \in Attempts PROVE OnRecord(b)'
    BY DEF BareKnown
  <2>a. worker[a].monitor # 0
    BY DEF SessionInv, MonitorsKnown, Captured, DtlsDone
  <2>1. CASE b # a
    BY <1>w, <2>a, <2>1, OthersOnRecord DEF DtlsDone, AttachGoesOn, Refused
  <2>2. CASE b = a
    <3>1. CASE Refused(a)
      <4>1. worker'[a].pc = "gone"
        BY <3>1, MovesOne DEF SessionInv, Pc, DtlsDone, AttachGoesOn
      <4> QED
        BY <2>2, <4>1 DEF OnRecord
    <3>2. CASE ~Refused(a)
      <4>1. worker[a].monitor \notin foreign => ~worker[a].bare
        BY <3>2 DEF SessionInv, BareKnown, OnRecord, DtlsDone, Refused
      <4>2. foreign' = foreign
        BY DEF DtlsDone, AttachGoesOn
      <4> QED
        BY <1>w, <2>2, <4>1, <4>2 DEF OnRecord
    <3> QED
      BY <3>1, <3>2
  <2> QED
    BY <2>1, <2>2
<1> QED
  BY <1>1, <1>2, <1>3, <1>4, <1>5, <1>6, <1>7, <1>8 DEF SessionInv

LEMMA SpawnKeeps ==
  ASSUME SessionInv, NEW a \in Attempts, Spawn(a)
  PROVE  SessionInv'
<1>t. /\ attempt \in 0 .. MaxAttempt /\ registered \in 0 .. MaxAttempt
      /\ opening \in 0 .. MaxAttempt /\ pending \in 0 .. MaxAttempt /\ running \in 0 .. MaxAttempt
      /\ generation \in 0 .. 4 * MaxAttempt /\ worker \in [Attempts -> Thread]
      /\ MaxAttempt \in Nat \ {0} /\ Gateways \in Nat \ {0}
  BY Types DEF SessionInv
<1>w. /\ worker' \in [Attempts -> Thread]
      /\ \A b \in Attempts : b # a => worker'[b] = worker[b]
      /\ worker'[a].pc \in {"loop"}
      /\ worker'[a].monitor = worker[a].monitor
      /\ worker'[a].gateway = worker[a].gateway
      /\ worker'[a].generation = worker[a].generation
      /\ worker'[a].bare = worker[a].bare
      /\ worker'[a].cancelled = worker[a].cancelled
  BY MovesOne DEF SessionInv, Pc, Spawn, AttachGoesOn
<1>1. SessionTypeOK'
  <2>1. /\ ability' \in Abilities
        /\ outcome' \in Outcomes /\ lifecycle' \in Lifecycles
        /\ attempt' \in 0 .. MaxAttempt /\ registered' \in 0 .. MaxAttempt
        /\ opening' \in 0 .. MaxAttempt /\ pending' \in 0 .. MaxAttempt
        /\ running' \in 0 .. MaxAttempt /\ generation' \in 0 .. 4 * MaxAttempt
    BY <1>t, <1>w DEF SessionInv, SessionTypeOK, Spawn, AttachGoesOn
  <2>2. error' \in [Attempts -> BOOLEAN] /\ foreign' \subseteq Attempts
    BY <1>t, ClearedType DEF SessionInv, SessionTypeOK, Spawn, AttachGoesOn
  <2> QED
    BY <1>w, <2>1, <2>2, PartsMakeType
<1>2. RaisesCounted'
  BY <1>t, <1>w DEF SessionInv, RaisesCounted, Raises, Spawn, AttachGoesOn
<1>3. OpeningPlace'
  BY <1>t, <1>w DEF SessionInv, OpeningPlace, Spawn, AttachGoesOn
<1>4. RunningPlace'
  BY <1>t, <1>w DEF SessionInv, RunningPlace, Spawn, AttachGoesOn
<1>5. PendingPlace'
  BY <1>t, <1>w DEF SessionInv, PendingPlace, Spawn, AttachGoesOn
<1>6. ThreadsBehind'
  BY <1>t, <1>w DEF SessionInv, ThreadsBehind, Spawn, AttachGoesOn
<1>7. MonitorsKnown'
  BY <1>t, <1>w DEF SessionInv, MonitorsKnown, Captured, Spawn, AttachGoesOn
<1>8. BareKnown'
  <2> SUFFICES ASSUME NEW b \in Attempts PROVE OnRecord(b)'
    BY DEF BareKnown
  <2>a. worker[a].monitor # 0
    BY DEF SessionInv, MonitorsKnown, Captured, Spawn
  <2>1. CASE b # a
    BY <1>w, <2>a, <2>1, OthersOnRecord DEF Spawn, AttachGoesOn
  <2>2. CASE b = a
    BY <1>w, <2>2 DEF SessionInv, BareKnown, OnRecord, Spawn, AttachGoesOn
  <2> QED
    BY <2>1, <2>2
<1> QED
  BY <1>1, <1>2, <1>3, <1>4, <1>5, <1>6, <1>7, <1>8 DEF SessionInv

LEMMA AttachReturnsKeeps ==
  ASSUME SessionInv, AttachReturns
  PROVE  SessionInv'
<1>t. /\ attempt \in 0 .. MaxAttempt /\ registered \in 0 .. MaxAttempt
      /\ opening \in 0 .. MaxAttempt /\ pending \in 0 .. MaxAttempt /\ running \in 0 .. MaxAttempt
      /\ generation \in 0 .. 4 * MaxAttempt /\ worker \in [Attempts -> Thread]
      /\ MaxAttempt \in Nat \ {0} /\ Gateways \in Nat \ {0}
  BY Types DEF SessionInv
<1>w. /\ worker' \in [Attempts -> Thread]
      /\ \A b \in Attempts : /\ worker'[b].pc = worker[b].pc
                             /\ worker'[b].monitor = worker[b].monitor
                             /\ worker'[b].generation = worker[b].generation
                             /\ worker'[b].bare = worker[b].bare
                             /\ worker[b].cancelled => worker'[b].cancelled
  <2>1. CASE worker' = worker
    BY <1>t, <2>1
  <2>2. CASE worker' = [worker EXCEPT ![opening].cancelled = TRUE]
    BY <1>t, <2>2, CancelsOne DEF AttachReturns
  <2> QED
    BY <2>1, <2>2 DEF AttachReturns
<1>1. SessionTypeOK'
  <2>1. /\ ability' \in Abilities
        /\ outcome' \in Outcomes /\ lifecycle' \in Lifecycles
        /\ attempt' \in 0 .. MaxAttempt /\ registered' \in 0 .. MaxAttempt
        /\ opening' \in 0 .. MaxAttempt /\ pending' \in 0 .. MaxAttempt
        /\ running' \in 0 .. MaxAttempt /\ generation' \in 0 .. 4 * MaxAttempt
    BY <1>t, <1>w DEF SessionInv, SessionTypeOK, AttachReturns
  <2>2. error' \in [Attempts -> BOOLEAN] /\ foreign' \subseteq Attempts
    BY <1>t DEF SessionInv, SessionTypeOK, AttachReturns
  <2> QED
    BY <1>w, <2>1, <2>2, PartsMakeType
<1>2. RaisesCounted'
  <2>1. ability \in {"attaching", "stopping", "joining"} /\ attempt' = attempt /\ generation' = generation
    BY DEF SessionInv, OpeningPlace, AttachReturns
  <2>2. CASE ability' = ability
    <3>1. Raises' = Raises
      BY <2>1, <2>2 DEF Raises
    <3> QED
      BY <2>1, <3>1 DEF SessionInv, RaisesCounted
  <2>3. CASE ability' = "running" /\ ability = "attaching" /\ running' # 0
    <3>1. Raises' = 2 /\ Raises = 2
      BY <2>3 DEF Raises
    <3> QED
      BY <2>1, <3>1 DEF SessionInv, RaisesCounted
  <2> QED
    BY <2>2, <2>3 DEF AttachReturns
<1>3. OpeningPlace'
  BY <1>t, <1>w DEF SessionInv, OpeningPlace, AttachReturns
<1>4. RunningPlace'
  <2>1. attempt' = attempt /\ opening \in Attempts /\ worker[opening].pc \in {"loop", "ended", "gone"}
    BY <1>t DEF AttachReturns
  <2>2. opening <= attempt
    <3>1. opening > attempt => worker[opening].pc = "none"
      BY <2>1 DEF SessionInv, ThreadsBehind
    <3> QED
      BY <1>t, <2>1, <3>1
  <2>3. CASE running' = opening
    BY <1>w, <2>1, <2>2, <2>3 DEF RunningPlace
  <2>4. CASE running' = running
    BY <1>t, <1>w, <2>1, <2>4 DEF SessionInv, RunningPlace
  <2> QED
    BY <2>3, <2>4 DEF AttachReturns
<1>5. PendingPlace'
  BY <1>t, <1>w DEF SessionInv, PendingPlace, AttachReturns
<1>6. ThreadsBehind'
  BY <1>t, <1>w DEF SessionInv, ThreadsBehind, AttachReturns
<1>7. MonitorsKnown'
  BY <1>t, <1>w DEF SessionInv, MonitorsKnown, Captured, AttachReturns
<1>8. BareKnown'
  <2> SUFFICES ASSUME NEW b \in Attempts PROVE OnRecord(b)'
    BY DEF BareKnown
  <2> QED
    BY <1>w, StaysOnRecord DEF AttachReturns
<1> QED
  BY <1>1, <1>2, <1>3, <1>4, <1>5, <1>6, <1>7, <1>8 DEF SessionInv

LEMMA LoopEndsKeeps ==
  ASSUME SessionInv, NEW a \in Attempts, LoopEnds(a)
  PROVE  SessionInv'
<1>t. /\ attempt \in 0 .. MaxAttempt /\ registered \in 0 .. MaxAttempt
      /\ opening \in 0 .. MaxAttempt /\ pending \in 0 .. MaxAttempt /\ running \in 0 .. MaxAttempt
      /\ generation \in 0 .. 4 * MaxAttempt /\ worker \in [Attempts -> Thread]
      /\ MaxAttempt \in Nat \ {0} /\ Gateways \in Nat \ {0}
  BY Types DEF SessionInv
<1>w. /\ worker' \in [Attempts -> Thread]
      /\ \A b \in Attempts : b # a => worker'[b] = worker[b]
      /\ worker'[a].pc = "ended" /\ worker'[a].monitor = worker[a].monitor
      /\ worker'[a].generation = worker[a].generation
  <2>1. PICK failed \in {Refused(a), TRUE} :
          worker' = [worker EXCEPT ![a].pc = "ended", ![a].failed = failed]
    BY DEF LoopEnds
  <2>2. failed \in BOOLEAN
    <3>1. worker[a].monitor \in Attempts /\ error \in [Attempts -> BOOLEAN]
      BY LivesOnRecord DEF SessionInv, SessionTypeOK, LoopEnds
    <3> QED
      BY <3>1 DEF Refused
  <2> DEFINE t == [worker[a] EXCEPT !.pc = "ended", !.failed = failed]
  <2>3. /\ t \in Thread /\ t.pc = "ended" /\ t.monitor = worker[a].monitor
        /\ t.generation = worker[a].generation
    BY <1>t, <2>2 DEF Thread, Pc
  <2>4. worker' = [worker EXCEPT ![a] = t]
    BY <1>t, <2>1 DEF Thread
  <2> HIDE DEF t
  <2> QED
    BY <1>t, <2>3, <2>4, OneThread
<1>1. SessionTypeOK'
  <2>1. /\ ability' \in Abilities
        /\ outcome' \in Outcomes /\ lifecycle' \in Lifecycles
        /\ attempt' \in 0 .. MaxAttempt /\ registered' \in 0 .. MaxAttempt
        /\ opening' \in 0 .. MaxAttempt /\ pending' \in 0 .. MaxAttempt
        /\ running' \in 0 .. MaxAttempt /\ generation' \in 0 .. 4 * MaxAttempt
    BY <1>t, <1>w DEF SessionInv, SessionTypeOK, LoopEnds
  <2>2. error' \in [Attempts -> BOOLEAN] /\ foreign' \subseteq Attempts
    BY <1>t, ClearedType DEF SessionInv, SessionTypeOK, LoopEnds
  <2> QED
    BY <1>w, <2>1, <2>2, PartsMakeType
<1>2. RaisesCounted'
  BY <1>t, <1>w DEF SessionInv, RaisesCounted, Raises, LoopEnds
<1>3. OpeningPlace'
  BY <1>t, <1>w DEF SessionInv, OpeningPlace, LoopEnds
<1>4. RunningPlace'
  BY <1>t, <1>w DEF SessionInv, RunningPlace, LoopEnds
<1>5. PendingPlace'
  BY <1>t, <1>w DEF SessionInv, PendingPlace, LoopEnds
<1>6. ThreadsBehind'
  BY <1>t, <1>w DEF SessionInv, ThreadsBehind, LoopEnds
<1>7. MonitorsKnown'
  BY <1>t, <1>w DEF SessionInv, MonitorsKnown, Captured, LoopEnds
<1>8. BareKnown'
  <2> SUFFICES ASSUME NEW b \in Attempts PROVE OnRecord(b)'
    BY DEF BareKnown
  <2>a. worker[a].monitor # 0
    BY DEF SessionInv, MonitorsKnown, Captured, LoopEnds
  <2>1. CASE b # a
    BY <1>w, <2>a, <2>1, OthersOnRecord DEF LoopEnds
  <2>2. CASE b = a
    BY <1>w, <2>2 DEF SessionInv, BareKnown, OnRecord, LoopEnds
  <2> QED
    BY <2>1, <2>2
<1> QED
  BY <1>1, <1>2, <1>3, <1>4, <1>5, <1>6, <1>7, <1>8 DEF SessionInv

LEMMA EndNotifiedKeeps ==
  ASSUME SessionInv, NEW a \in Attempts, EndNotified(a)
  PROVE  SessionInv'
<1>t. /\ attempt \in 0 .. MaxAttempt /\ registered \in 0 .. MaxAttempt
      /\ opening \in 0 .. MaxAttempt /\ pending \in 0 .. MaxAttempt /\ running \in 0 .. MaxAttempt
      /\ generation \in 0 .. 4 * MaxAttempt /\ worker \in [Attempts -> Thread]
      /\ MaxAttempt \in Nat \ {0} /\ Gateways \in Nat \ {0}
  BY Types DEF SessionInv
<1>w. /\ worker' \in [Attempts -> Thread]
      /\ \A b \in Attempts : b # a => worker'[b] = worker[b]
      /\ worker'[a].pc \in {"gone"}
      /\ worker'[a].monitor = worker[a].monitor
      /\ worker'[a].gateway = worker[a].gateway
      /\ worker'[a].generation = worker[a].generation
      /\ worker'[a].bare = worker[a].bare
      /\ worker'[a].cancelled = worker[a].cancelled
  BY MovesOne DEF SessionInv, Pc, EndNotified
<1>1. SessionTypeOK'
  <2>1. /\ ability' \in Abilities
        /\ outcome' \in Outcomes /\ lifecycle' \in Lifecycles
        /\ attempt' \in 0 .. MaxAttempt /\ registered' \in 0 .. MaxAttempt
        /\ opening' \in 0 .. MaxAttempt /\ pending' \in 0 .. MaxAttempt
        /\ running' \in 0 .. MaxAttempt /\ generation' \in 0 .. 4 * MaxAttempt
    <3>1. UNCHANGED <<ability, attempt, registered, opening, generation>>
      BY DEF EndNotified
    <3>2. ability' \in Abilities
      BY <3>1 DEF SessionInv, SessionTypeOK
    <3>3. attempt' \in 0 .. MaxAttempt /\ registered' \in 0 .. MaxAttempt
          /\ opening' \in 0 .. MaxAttempt /\ generation' \in 0 .. 4 * MaxAttempt
      BY <1>t, <3>1
    <3>4. pending' \in 0 .. MaxAttempt /\ running' \in 0 .. MaxAttempt
      BY <1>t DEF EndNotified
    <3>5. outcome' \in Outcomes
      BY DEF EndNotified, SessionInv, SessionTypeOK
    <3>6. lifecycle' \in Lifecycles
      BY DEF EndNotified, SessionInv, SessionTypeOK
    <3> QED
      BY <3>1, <3>2, <3>3, <3>4, <3>5, <3>6
  <2>2. error' \in [Attempts -> BOOLEAN] /\ foreign' \subseteq Attempts
    BY <1>t DEF SessionInv, SessionTypeOK, EndNotified
  <2> QED
    BY <1>w, <2>1, <2>2, PartsMakeType
<1>2. RaisesCounted'
  BY <1>t, <1>w DEF SessionInv, RaisesCounted, Raises, EndNotified, IsHeard
<1>3. OpeningPlace'
  BY <1>t, <1>w DEF SessionInv, OpeningPlace, EndNotified, IsHeard
<1>4. RunningPlace'
  BY <1>t, <1>w DEF SessionInv, RunningPlace, EndNotified, IsHeard
<1>5. PendingPlace'
  BY <1>t, <1>w DEF SessionInv, PendingPlace, EndNotified, IsHeard
<1>6. ThreadsBehind'
  BY <1>t, <1>w DEF SessionInv, ThreadsBehind, EndNotified, IsHeard
<1>7. MonitorsKnown'
  BY <1>t, <1>w DEF SessionInv, MonitorsKnown, Captured, EndNotified, IsHeard
<1>8. BareKnown'
  BY <1>t, <1>w DEF SessionInv, BareKnown, OnRecord, EndNotified, IsHeard
<1> QED
  BY <1>1, <1>2, <1>3, <1>4, <1>5, <1>6, <1>7, <1>8 DEF SessionInv

LEMMA TickKeeps ==
  ASSUME SessionInv, Tick
  PROVE  SessionInv'
<1>t. /\ attempt \in 0 .. MaxAttempt /\ registered \in 0 .. MaxAttempt
      /\ opening \in 0 .. MaxAttempt /\ pending \in 0 .. MaxAttempt /\ running \in 0 .. MaxAttempt
      /\ generation \in 0 .. 4 * MaxAttempt /\ worker \in [Attempts -> Thread]
      /\ MaxAttempt \in Nat \ {0} /\ Gateways \in Nat \ {0}
  BY Types DEF SessionInv
<1>r. running \in Attempts /\ worker[running].pc \in {"loop", "ended", "gone"}
  BY <1>t DEF Tick, SessionInv, RunningPlace
<1>g. generation' \in {generation, generation + 1} /\ generation' \in 0 .. 4 * MaxAttempt
  BY <1>t DEF Tick, Drops, Raised, SessionInv, RaisesCounted, Raises
<1>w. /\ worker' \in [Attempts -> Thread]
      /\ \A b \in Attempts : /\ worker'[b].pc = worker[b].pc
                             /\ worker'[b].monitor = worker[b].monitor
                             /\ worker'[b].generation = worker[b].generation
                             /\ worker'[b].bare = worker[b].bare
                             /\ worker[b].cancelled => worker'[b].cancelled
      /\ worker'[running].cancelled
      /\ generation' \in {generation, generation + 1} /\ generation' \in 0 .. 4 * MaxAttempt
      /\ running \in Attempts
  BY <1>t, <1>r, <1>g, CancelsOne DEF Tick, Drops
<1>e. error' = error \/ Cleared(running)
  BY DEF Tick
<1>1. SessionTypeOK'
  <2>1. /\ ability' \in Abilities
        /\ outcome' \in Outcomes /\ lifecycle' \in Lifecycles
        /\ attempt' \in 0 .. MaxAttempt /\ registered' \in 0 .. MaxAttempt
        /\ opening' \in 0 .. MaxAttempt /\ pending' \in 0 .. MaxAttempt
        /\ running' \in 0 .. MaxAttempt /\ generation' \in 0 .. 4 * MaxAttempt
    <3>1. UNCHANGED <<ability, attempt, registered, opening>>
      BY DEF Tick
    <3>2. ability' \in Abilities
      BY <3>1 DEF SessionInv, SessionTypeOK
    <3>3. attempt' \in 0 .. MaxAttempt /\ registered' \in 0 .. MaxAttempt
          /\ opening' \in 0 .. MaxAttempt
      BY <1>t, <3>1
    <3>4. pending' = 0 /\ running' = 0
      BY DEF Tick, Drops
    <3>5. pending' \in 0 .. MaxAttempt /\ running' \in 0 .. MaxAttempt /\ generation' \in 0 .. 4 * MaxAttempt
      BY <1>t, <1>w, <3>4
    <3>6. outcome' \in Outcomes
      BY DEF Tick, SessionInv, SessionTypeOK
    <3>7. lifecycle' \in Lifecycles
      BY DEF Tick, SessionInv, SessionTypeOK
    <3> QED
      BY <3>1, <3>2, <3>3, <3>4, <3>5, <3>6, <3>7
  <2>2. error' \in [Attempts -> BOOLEAN] /\ foreign' \subseteq Attempts
    BY <1>t, <1>r, <1>e, ClearedType DEF SessionInv, SessionTypeOK, Tick
  <2> QED
    BY <1>w, <2>1, <2>2, PartsMakeType
<1>2. RaisesCounted'
  BY <1>t, <1>w DEF SessionInv, RaisesCounted, Raises, Tick, Drops, Raised
<1>3. OpeningPlace'
  BY <1>t, <1>w DEF SessionInv, OpeningPlace, Tick, Drops, Raised
<1>4. RunningPlace'
  BY <1>t, <1>w DEF SessionInv, RunningPlace, Tick, Drops, Raised
<1>5. PendingPlace'
  BY <1>t, <1>w DEF SessionInv, PendingPlace, Tick, Drops, Raised
<1>6. ThreadsBehind'
  <2> SUFFICES ASSUME NEW b \in Attempts
               PROVE  /\ b > attempt' => worker'[b].pc = "none"
                      /\ b <= attempt' => worker'[b].generation <= generation'
                      /\ b < attempt' => worker'[b].generation < generation'
    BY DEF ThreadsBehind
  <2>o. /\ b > attempt => worker[b].pc = "none"
        /\ b <= attempt => worker[b].generation <= generation
        /\ b < attempt => worker[b].generation < generation
        /\ worker[b].generation \in Nat /\ b \in Nat
    BY <1>t DEF SessionInv, ThreadsBehind, Thread
  <2>1. attempt' = attempt /\ worker'[b].pc = worker[b].pc /\ worker'[b].generation = worker[b].generation
    BY <1>w DEF Tick
  <2> QED
    BY <1>t, <1>w, <2>o, <2>1
<1>7. MonitorsKnown'
  BY <1>t, <1>w DEF SessionInv, MonitorsKnown, Captured, Tick, Drops, Raised
<1>8. BareKnown'
  <2> SUFFICES ASSUME NEW b \in Attempts PROVE OnRecord(b)'
    BY DEF BareKnown
  <2>1. CASE b = running
    BY <1>r, <1>w, <2>1 DEF OnRecord
  <2>2. CASE b # running
    BY <1>r, <1>w, <1>e, <2>2, OtherThanRunning DEF Tick
  <2> QED
    BY <2>1, <2>2
<1> QED
  BY <1>1, <1>2, <1>3, <1>4, <1>5, <1>6, <1>7, <1>8 DEF SessionInv

LEMMA VerdictKeeps ==
  ASSUME SessionInv, Verdict
  PROVE  SessionInv'
<1>t. /\ attempt \in 0 .. MaxAttempt /\ registered \in 0 .. MaxAttempt
      /\ opening \in 0 .. MaxAttempt /\ pending \in 0 .. MaxAttempt /\ running \in 0 .. MaxAttempt
      /\ generation \in 0 .. 4 * MaxAttempt /\ worker \in [Attempts -> Thread]
      /\ MaxAttempt \in Nat \ {0} /\ Gateways \in Nat \ {0}
  BY Types DEF SessionInv
<1>1. SessionTypeOK'
  BY <1>t DEF SessionInv, SessionTypeOK, Thread, Pc, Verdict, Ended
<1>2. RaisesCounted'
  BY <1>t DEF SessionInv, RaisesCounted, Raises, Verdict, Ended
<1>3. OpeningPlace'
  BY <1>t DEF SessionInv, OpeningPlace, Verdict, Ended
<1>4. RunningPlace'
  BY <1>t DEF SessionInv, RunningPlace, Verdict, Ended
<1>5. PendingPlace'
  BY <1>t DEF SessionInv, PendingPlace, Verdict, Ended
<1>6. ThreadsBehind'
  BY <1>t DEF SessionInv, ThreadsBehind, Verdict, Ended
<1>7. MonitorsKnown'
  BY <1>t DEF SessionInv, MonitorsKnown, Captured, Verdict, Ended
<1>8. BareKnown'
  BY <1>t DEF SessionInv, BareKnown, OnRecord, Verdict, Ended
<1> QED
  BY <1>1, <1>2, <1>3, <1>4, <1>5, <1>6, <1>7, <1>8 DEF SessionInv

LEMMA AbandonKeeps ==
  ASSUME SessionInv, Abandon
  PROVE  SessionInv'
<1>t. /\ attempt \in 0 .. MaxAttempt /\ registered \in 0 .. MaxAttempt
      /\ opening \in 0 .. MaxAttempt /\ pending \in 0 .. MaxAttempt /\ running \in 0 .. MaxAttempt
      /\ generation \in 0 .. 4 * MaxAttempt /\ worker \in [Attempts -> Thread]
      /\ MaxAttempt \in Nat \ {0} /\ Gateways \in Nat \ {0}
  BY Types DEF SessionInv
<1>w. /\ worker' \in [Attempts -> Thread]
      /\ \A b \in Attempts : /\ worker'[b].pc = worker[b].pc \/ (b = pending /\ worker'[b].pc = "gone")
                             /\ worker'[b].monitor = worker[b].monitor
                             /\ worker'[b].generation = worker[b].generation
                             /\ worker'[b].bare = worker[b].bare
                             /\ worker[b].cancelled => worker'[b].cancelled
      /\ \/ UNCHANGED <<worker, pending, running>>
         \/ pending' = 0 /\ running' = 0
  <2>1. CASE UNCHANGED <<worker, pending, running>>
    BY <1>t, <2>1
  <2>2. CASE Released
    <3>1. pending' = 0 /\ running' = 0
      BY <2>2 DEF Released
    <3> QED
      BY <1>t, <2>2, <3>1, ReleasesTwo
  <2> QED
    BY <2>1, <2>2 DEF Abandon
<1>o. /\ ability' = "stopping" /\ registered' = 0 /\ UNCHANGED <<attempt, opening, generation, error, foreign>>
      /\ outcome' \in {outcome, "Failed"} /\ lifecycle' \in {lifecycle, "Failed"}
  BY DEF Abandon
<1>1. SessionTypeOK'
  <2>1. /\ ability' \in Abilities
        /\ outcome' \in Outcomes /\ lifecycle' \in Lifecycles
        /\ attempt' \in 0 .. MaxAttempt /\ registered' \in 0 .. MaxAttempt
        /\ opening' \in 0 .. MaxAttempt /\ pending' \in 0 .. MaxAttempt
        /\ running' \in 0 .. MaxAttempt /\ generation' \in 0 .. 4 * MaxAttempt
    BY <1>t, <1>w, <1>o DEF SessionInv, SessionTypeOK
  <2>2. error' \in [Attempts -> BOOLEAN] /\ foreign' \subseteq Attempts
    BY <1>t DEF SessionInv, SessionTypeOK, Abandon
  <2> QED
    BY <1>w, <2>1, <2>2, PartsMakeType
<1>2. RaisesCounted'
  BY <1>t, <1>w DEF SessionInv, RaisesCounted, Raises, Abandon
<1>3. OpeningPlace'
  BY <1>t, <1>w DEF SessionInv, OpeningPlace, Abandon
<1>4. RunningPlace'
  BY <1>t, <1>w DEF SessionInv, RunningPlace, Abandon
<1>5. PendingPlace'
  BY <1>t, <1>w DEF SessionInv, PendingPlace, Abandon
<1>6. ThreadsBehind'
  <2> SUFFICES ASSUME NEW b \in Attempts
               PROVE  /\ b > attempt' => worker'[b].pc = "none"
                      /\ b <= attempt' => worker'[b].generation <= generation'
                      /\ b < attempt' => worker'[b].generation < generation'
    BY DEF ThreadsBehind
  <2>o. /\ b > attempt => worker[b].pc = "none"
        /\ b <= attempt => worker[b].generation <= generation
        /\ b < attempt => worker[b].generation < generation
        /\ worker[b].generation \in Nat /\ b \in Nat
    BY <1>t DEF SessionInv, ThreadsBehind, Thread
  <2>1. attempt' = attempt /\ worker'[b].generation = worker[b].generation
    BY <1>w DEF Abandon
  <2>2. b > attempt => worker'[b].pc = worker[b].pc
    <3>1. pending # 0 => pending <= attempt
      BY DEF SessionInv, PendingPlace
    <3> QED
      BY <1>t, <1>w, <2>o, <3>1
  <2> QED
    BY <1>o, <2>o, <2>1, <2>2
<1>7. MonitorsKnown'
  BY <1>t, <1>w DEF SessionInv, MonitorsKnown, Captured, Abandon
<1>8. BareKnown'
  <2> SUFFICES ASSUME NEW b \in Attempts PROVE OnRecord(b)'
    BY DEF BareKnown
  <2>1. CASE worker'[b].pc = worker[b].pc
    BY <1>w, <2>1, StaysOnRecord DEF Abandon
  <2>2. CASE worker'[b].pc = "gone"
    BY <2>2 DEF OnRecord
  <2> QED
    BY <1>w, <2>1, <2>2
<1> QED
  BY <1>1, <1>2, <1>3, <1>4, <1>5, <1>6, <1>7, <1>8 DEF SessionInv

LEMMA StopKeeps ==
  ASSUME SessionInv, Stop
  PROVE  SessionInv'
<1>t. /\ attempt \in 0 .. MaxAttempt /\ registered \in 0 .. MaxAttempt
      /\ opening \in 0 .. MaxAttempt /\ pending \in 0 .. MaxAttempt /\ running \in 0 .. MaxAttempt
      /\ generation \in 0 .. 4 * MaxAttempt /\ worker \in [Attempts -> Thread]
      /\ MaxAttempt \in Nat \ {0} /\ Gateways \in Nat \ {0}
  BY Types DEF SessionInv
<1>g. generation' \in {generation, generation + 1} /\ generation' \in 0 .. 4 * MaxAttempt
  <2>1. generation' \in {generation, Raised}
    BY DEF Stop
  <2>2. Raises = 3
    BY DEF Raises, Stop
  <2>4. generation <= 4 * attempt - 4 + Raises
    BY DEF SessionInv, RaisesCounted
  <2> QED
    BY <1>t, <2>1, <2>2, <2>4 DEF Raised
<1>w. /\ worker' \in [Attempts -> Thread]
      /\ \A b \in Attempts : /\ worker'[b].pc = worker[b].pc \/ (b = pending /\ worker'[b].pc = "gone")
                             /\ worker'[b].monitor = worker[b].monitor
                             /\ worker'[b].generation = worker[b].generation
                             /\ worker'[b].bare = worker[b].bare
                             /\ worker[b].cancelled => worker'[b].cancelled
      /\ generation' \in {generation, generation + 1} /\ generation' \in 0 .. 4 * MaxAttempt
      /\ \/ UNCHANGED <<worker, pending, running>>
         \/ pending' = 0 /\ running' = 0
  <2>1. CASE UNCHANGED <<worker, pending, running>>
    BY <1>t, <1>g, <2>1
  <2>2. CASE Released
    <3>1. pending' = 0 /\ running' = 0
      BY <2>2 DEF Released
    <3> QED
      BY <1>t, <1>g, <2>2, <3>1, ReleasesTwo
  <2> QED
    BY <2>1, <2>2 DEF Stop
<1>1. SessionTypeOK'
  <2>1. /\ ability' \in Abilities
        /\ outcome' \in Outcomes /\ lifecycle' \in Lifecycles
        /\ attempt' \in 0 .. MaxAttempt /\ registered' \in 0 .. MaxAttempt
        /\ opening' \in 0 .. MaxAttempt /\ pending' \in 0 .. MaxAttempt
        /\ running' \in 0 .. MaxAttempt /\ generation' \in 0 .. 4 * MaxAttempt
    BY <1>t, <1>w DEF SessionInv, SessionTypeOK, Stop
  <2>2. error' \in [Attempts -> BOOLEAN] /\ foreign' \subseteq Attempts
    BY <1>t DEF SessionInv, SessionTypeOK, Stop
  <2> QED
    BY <1>w, <2>1, <2>2, PartsMakeType
<1>2. RaisesCounted'
  BY <1>t, <1>w DEF SessionInv, RaisesCounted, Raises, Stop, Raised
<1>3. OpeningPlace'
  BY <1>t, <1>w DEF SessionInv, OpeningPlace, Stop, Raised
<1>4. RunningPlace'
  BY <1>t, <1>w DEF SessionInv, RunningPlace, Stop, Raised
<1>5. PendingPlace'
  BY <1>t, <1>w DEF SessionInv, PendingPlace, Stop, Raised
<1>6. ThreadsBehind'
  <2> SUFFICES ASSUME NEW b \in Attempts
               PROVE  /\ b > attempt' => worker'[b].pc = "none"
                      /\ b <= attempt' => worker'[b].generation <= generation'
                      /\ b < attempt' => worker'[b].generation < generation'
    BY DEF ThreadsBehind
  <2>o. /\ b > attempt => worker[b].pc = "none"
        /\ b <= attempt => worker[b].generation <= generation
        /\ b < attempt => worker[b].generation < generation
        /\ worker[b].generation \in Nat /\ b \in Nat
    BY <1>t DEF SessionInv, ThreadsBehind, Thread
  <2>1. attempt' = attempt /\ worker'[b].generation = worker[b].generation
    BY <1>w DEF Stop
  <2>2. b > attempt => worker'[b].pc = worker[b].pc
    <3>1. pending # 0 => pending <= attempt
      BY DEF SessionInv, PendingPlace
    <3> QED
      BY <1>t, <1>w, <2>o, <3>1
  <2> QED
    BY <1>t, <1>w, <2>o, <2>1, <2>2
<1>7. MonitorsKnown'
  BY <1>t, <1>w DEF SessionInv, MonitorsKnown, Captured, Stop, Raised
<1>8. BareKnown'
  <2> SUFFICES ASSUME NEW b \in Attempts PROVE OnRecord(b)'
    BY DEF BareKnown
  <2>1. CASE worker'[b].pc = worker[b].pc
    BY <1>w, <2>1, StaysOnRecord DEF Stop
  <2>2. CASE worker'[b].pc = "gone"
    BY <2>2 DEF OnRecord
  <2> QED
    BY <1>w, <2>1, <2>2
<1> QED
  BY <1>1, <1>2, <1>3, <1>4, <1>5, <1>6, <1>7, <1>8 DEF SessionInv

LEMMA CleanedKeeps ==
  ASSUME SessionInv, Cleaned
  PROVE  SessionInv'
<1>t. /\ attempt \in 0 .. MaxAttempt /\ registered \in 0 .. MaxAttempt
      /\ opening \in 0 .. MaxAttempt /\ pending \in 0 .. MaxAttempt /\ running \in 0 .. MaxAttempt
      /\ generation \in 0 .. 4 * MaxAttempt /\ worker \in [Attempts -> Thread]
      /\ MaxAttempt \in Nat \ {0} /\ Gateways \in Nat \ {0}
  BY Types DEF SessionInv
<1>1. SessionTypeOK'
  BY <1>t DEF SessionInv, SessionTypeOK, Thread, Pc, Cleaned
<1>2. RaisesCounted'
  BY <1>t DEF SessionInv, RaisesCounted, Raises, Cleaned
<1>3. OpeningPlace'
  BY <1>t DEF SessionInv, OpeningPlace, Cleaned
<1>4. RunningPlace'
  BY <1>t DEF SessionInv, RunningPlace, Cleaned
<1>5. PendingPlace'
  BY <1>t DEF SessionInv, PendingPlace, Cleaned
<1>6. ThreadsBehind'
  BY <1>t DEF SessionInv, ThreadsBehind, Cleaned
<1>7. MonitorsKnown'
  BY <1>t DEF SessionInv, MonitorsKnown, Captured, Cleaned
<1>8. BareKnown'
  BY <1>t DEF SessionInv, BareKnown, OnRecord, Cleaned
<1> QED
  BY <1>1, <1>2, <1>3, <1>4, <1>5, <1>6, <1>7, <1>8 DEF SessionInv

-----------------------------------------------------------------------------
(* The theorems                                                            *)

LEMMA SessionStep == ASSUME SessionInv, SessionNext PROVE SessionInv'
<1>1. CASE Ability
  BY <1>1, StartKeeps, AttachKeeps, AbandonKeeps, StopKeeps, CleanedKeeps DEF Ability
<1>2. CASE Engine
  BY <1>2, AttachReturnsKeeps, TickKeeps, VerdictKeeps DEF Engine
<1>3. ASSUME NEW a \in Attempts, Prepare(a) PROVE SessionInv'
  BY <1>3, BeginOperationKeeps, NotRegisteredKeeps, CstpFailsKeeps, CstpDoneKeeps,
     PrepareReturnsKeeps DEF Prepare
<1>4. ASSUME NEW a \in Attempts, OpenSocket(a) PROVE SessionInv'
  BY <1>4, OpenSocketKeeps
<1>5. ASSUME NEW a \in Attempts, Mainloop(a) PROVE SessionInv'
  BY <1>5, AttachChecksKeeps, SetupDtlsKeeps, DtlsDoneKeeps, SpawnKeeps, LoopEndsKeeps,
     EndNotifiedKeeps DEF Mainloop
<1> QED
  BY <1>1, <1>2, <1>3, <1>4, <1>5 DEF SessionNext

LEMMA SessionLeavesForm == ASSUME SessionNext PROVE UNCHANGED formVars
<1>1. Ability \/ Engine => UNCHANGED formVars
  BY DEF Ability, Engine, Start, Attach, Abandon, Stop, Cleaned, AttachReturns, Tick, Verdict
<1>2. ASSUME NEW a \in Attempts, Prepare(a) PROVE UNCHANGED formVars
  BY <1>2 DEF Prepare, BeginOperation, NotRegistered, CstpFails, CstpDone, PrepareReturns
<1>3. ASSUME NEW a \in Attempts, OpenSocket(a) \/ Mainloop(a) PROVE UNCHANGED formVars
  BY <1>3 DEF OpenSocket, Mainloop, AttachChecks, SetupDtls, DtlsDone, Spawn, AttachGoesOn,
              LoopEnds, EndNotified
<1> QED
  BY <1>1, <1>2, <1>3 DEF SessionNext

IInv == FormInv /\ SessionInv

LEMMA IInvStep == ASSUME IInv, [Next]_vars PROVE IInv'
<1>1. CASE FormNext /\ UNCHANGED sessionVars
  BY <1>1, FormStep, SessionStutters DEF IInv
<1>2. CASE HandOver
  BY <1>2, HandOverKeeps, SessionStutters DEF IInv, HandOver
<1>3. CASE SessionNext
  BY <1>3, SessionStep, SessionLeavesForm, FormStutters DEF IInv
<1>4. CASE UNCHANGED vars
  BY <1>4, FormStutters, SessionStutters DEF IInv, vars
<1> QED
  BY <1>1, <1>2, <1>3, <1>4 DEF Next

LEMMA Invariance == Spec => []IInv
<1>1. Init => IInv
  BY FormInitEstablishes, SessionInitEstablishes DEF Init, IInv
<1>2. IInv /\ [Next]_vars => IInv'
  BY IInvStep
<1> QED
  BY <1>1, <1>2, PTL DEF Spec

\* The state keeps its type; the generation of the engine is raised at most
\* four times an attempt.
THEOREM TypeCorrect == Spec => []TypeOK
<1>1. IInv => TypeOK
  BY DEF IInv, FormInv, SessionInv, TypeOK
<1> QED
  BY <1>1, Invariance, PTL

\* No form is answered twice without the user (apply_auth_form), whatever the
\* server sends.
THEOREM AnswersOnce == Spec => []NeverReplayed
<1>1. IInv => NeverReplayed
  BY DEF IInv, FormInv
<1> QED
  BY <1>1, Invariance, PTL

\* The configured password goes to one field, the login's; a second factor or a
\* challenge gets only what the user typed (plan_auth_form, bind_auth_reply).
THEOREM PasswordGoesOnce == Spec => []SubmissionIsOwned
<1>1. IInv => SubmissionIsOwned
  BY DEF IInv, FormInv
<1> QED
  BY <1>1, Invariance, PTL

\* A mainloop over a socket that bypasses the protection has the refusal on the
\* record that Tick reads (ProtectMonitor::check_error), or is cancelled.
THEOREM BypassIsKnown == Spec => []UnprotectedOnRecord
<1>1. IInv => UnprotectedOnRecord
  <2> SUFFICES ASSUME SessionInv, NEW a \in Attempts,
                      worker[a].pc = "loop", worker[a].bare, worker[a].monitor \notin foreign
               PROVE  error[worker[a].monitor] \/ worker[a].cancelled
    BY DEF IInv, UnprotectedOnRecord
  <2> QED
    BY DEF SessionInv, BareKnown, OnRecord
<1> QED
  BY <1>1, Invariance, PTL

\* What the end of an old thread leaves alone.
LEMMA OldEndStep ==
  ASSUME IInv, Next, NEW a \in Attempts, a # attempt,
         worker[a].pc = "ended", worker'[a].pc = "gone"
  PROVE  UNCHANGED engineVars
<1>t. /\ worker \in [Attempts -> Thread] /\ attempt \in 0 .. MaxAttempt
      /\ generation \in 0 .. 4 * MaxAttempt /\ worker[a].generation \in 0 .. 4 * MaxAttempt
  BY Types DEF IInv, SessionInv, Thread
<1>o. a < attempt /\ worker[a].generation # generation
  <2>1. /\ a > attempt => worker[a].pc = "none"
        /\ a < attempt => worker[a].generation < generation
    BY DEF IInv, SessionInv, ThreadsBehind
  <2> QED
    BY <1>t, <2>1
<1>1. CASE UNCHANGED worker
  BY <1>1
<1>2. CASE EndNotified(a)
  BY <1>o, <1>2 DEF EndNotified, IsHeard
<1>4. ASSUME NEW b \in Attempts, Prepare(b) PROVE FALSE
  <2>1. worker[b].pc \in {"candidate", "cstp", "resumed"}
    BY <1>4 DEF Prepare, BeginOperation, NotRegistered, CstpFails, CstpDone, PrepareReturns
  <2>2. b # a
    BY <2>1
  <2>3. worker'[a] = worker[a]
    BY <1>t, <1>4, <2>2 DEF Prepare, BeginOperation, NotRegistered, CstpFails, CstpDone,
                            PrepareReturns, Moves
  <2> QED
    BY <2>3
<1>5. ASSUME NEW b \in Attempts, OpenSocket(b) PROVE FALSE
  BY <1>t, <1>5 DEF OpenSocket
<1>6. ASSUME NEW b \in Attempts, Mainloop(b), ~EndNotified(a) PROVE FALSE
  <2>1. CASE EndNotified(b)
    BY <1>t, <1>6, <2>1 DEF EndNotified, Moves
  <2>2. CASE ~EndNotified(b)
    <3>1. worker[b].pc # "ended"
      BY <1>6, <2>2 DEF Mainloop, AttachChecks, SetupDtls, DtlsDone, Spawn, LoopEnds
    <3>2. worker'[a] = worker[a]
      BY <1>t, <1>6, <2>2, <3>1 DEF Mainloop, AttachChecks, SetupDtls, DtlsDone, Spawn,
                                    AttachGoesOn, LoopEnds, Moves
    <3> QED
      BY <3>2
  <2> QED
    BY <2>1, <2>2
<1>7. CASE Engine
  <2>1. CASE UNCHANGED worker
    BY <2>1
  <2>2. ASSUME NEW b \in Attempts, worker' = [worker EXCEPT ![b].cancelled = TRUE]
        PROVE  worker'[a].pc = worker[a].pc
    BY <1>t, <2>2, CancelsOne
  <2>3. opening \in 0 .. MaxAttempt /\ running \in 0 .. MaxAttempt /\ MaxAttempt \in Nat
    BY Types DEF IInv, SessionInv
  <2>4. AttachReturns => UNCHANGED worker \/ worker'[a].pc = worker[a].pc
    BY <2>2, <2>3 DEF AttachReturns
  <2>5. Tick => worker'[a].pc = worker[a].pc
    BY <2>2, <2>3 DEF Tick, Drops
  <2>6. Verdict => UNCHANGED worker
    BY DEF Verdict
  <2> QED
    BY <1>7, <2>1, <2>4, <2>5, <2>6 DEF Engine
<1>8. CASE Ability
  <2>1. Start => worker'[a] = worker[a]
    BY <1>t, <1>o DEF Start
  <2>2. pending # 0 => worker[pending].pc = "pending"
    BY DEF IInv, SessionInv, PendingPlace
  <2>3. Attach => worker'[a] = worker[a]
    BY <1>t, <2>2 DEF Attach
  <2>4. Stop \/ Abandon => worker'[a].pc = worker[a].pc
    <3>1. worker[a] \in Thread /\ (pending = a => worker[a].pc = "pending")
      BY <1>t, <2>2
    <3>2. CASE UNCHANGED worker
      BY <3>2
    <3>3. CASE Released
      <4>1. worker'[a] = worker[a] \/ worker'[a] = [worker[a] EXCEPT !.cancelled = TRUE]
        BY <3>1, <3>3 DEF Released
      <4> QED
        BY <3>1, <4>1 DEF Thread
    <3> QED
      BY <3>2, <3>3 DEF Stop, Abandon
  <2>5. Cleaned => worker' = worker
    BY DEF Cleaned
  <2> QED
    BY <1>8, <2>1, <2>3, <2>4, <2>5 DEF Ability
<1>9. FormNext /\ UNCHANGED sessionVars => UNCHANGED worker
  BY DEF sessionVars
<1>10. HandOver => UNCHANGED worker
  BY DEF HandOver, sessionVars
<1> QED
  BY <1>1, <1>2, <1>4, <1>5, <1>6, <1>7, <1>8, <1>9, <1>10 DEF Next, SessionNext

\* The late end of an old thread changes nothing the engine knows of the
\* attempt in hand (on_native_session_ended compares the generation).
THEOREM OldEndsAreSilent == Spec => OldEndIsSilent
<1>1. IInv /\ [Next]_vars =>
        [\A a \in Attempts : a # attempt /\ worker[a].pc = "ended" /\ worker'[a].pc = "gone"
           => UNCHANGED engineVars]_vars
  BY OldEndStep
<1> QED
  BY <1>1, Invariance, PTL DEF Spec, OldEndIsSilent

=============================================================================
