------------------------------- MODULE AuthForms -------------------------------
(***************************************************************************)
(* The conversation of one authenticate call: the server presents forms,   *)
(* handle_auth_form answers each from the profile, from the user, or not   *)
(* at all.  The server presents whatever it likes, as often as it likes.   *)
(*                                                                         *)
(* A form is a record of its id ("main", "none" for a missing one, or a    *)
(* follow-up), of how it treats the configured group, and of the sequence  *)
(* of its options.  An option has a kind, says whether its name is that of *)
(* a user name, whether it carries SECOND_AUTH, and whether the server     *)
(* filled it in.  A value is known by where it comes from.                 *)
(***************************************************************************)
EXTENDS Integers, Sequences, FiniteSets

CONSTANTS
  Forms,      \* the forms the server may present
  MaxReplies  \* bound on the challenges the user answers

Kinds   == {"text", "password", "select", "token", "hidden"}
Option  == [kind : Kinds, user : BOOLEAN, second : BOOLEAN, filled : BOOLEAN]
Ids     == {"main", "none", "challenge"}
\* Does the form offer groups, and is the configured one selected, only
\* offered, or missing?
Groups  == {"none", "selected", "offered", "missing"}

ASSUME FormsAssumption ==
  /\ \A f \in Forms : /\ f.id \in Ids /\ f.group \in Groups
                      /\ f.options \in Seq(Option)
  /\ MaxReplies \in Nat

VARIABLES
  creds,    \* what the profile configures
  attended, \* is there a user to ask?
  fpc,      \* "server": the server's turn, "form", "asked": the user's, "done"
  form,     \* the form in hand
  state,    \* AuthFormState
  replies,  \* challenges answered
  result,   \* how the conversation ended
  sent,     \* history: the last submission
  autoSent, \* history: forms answered without the user
  replayed  \* history: was one of them answered so twice?

formVars == <<creds, attended, fpc, form, state, replies, result, sent, autoSent, replayed>>

Primary(f) == f.id \in {"main", "none"}           \* AuthFormRole
ActiveInput(f) == \E i \in DOMAIN f.options : f.options[i].kind # "hidden"

\* snapshot_form_fields: OpenConnect fills in the tokens itself.
Fields(f)  == {i \in DOMAIN f.options : f.options[i].kind # "token"}
Visible(f) == {i \in Fields(f) : f.options[i].kind # "hidden"}

\* The identity of a form leaves the values of its options out.
Fingerprint(f) ==
  [id |-> f.id, options |-> [i \in Fields(f) |-> [f.options[i] EXCEPT !.filled = FALSE]]]

\* Mutant: a second authentication in a primary form is nobody's.
UserOwnedFollowUp(f) == {i \in Visible(f) : ~Primary(f)}

\* The options the user answers: those of a follow-up form, and those a
\* primary form marks as second authentication.
UserOwned(f) == {i \in Visible(f) : ~Primary(f) \/ f.options[i].second}

TakesUsername(f, i) ==
  f.options[i].kind = "text" /\ f.options[i].user /\ "username" \in creds

\* The configured password goes to the first password option of a primary form.
TakesPassword(f, i) ==
  /\ Primary(f)
  /\ f.options[i].kind = "password" /\ "password" \in creds
  /\ \A j \in 1 .. i - 1 : f.options[j].kind # "password" \/ f.options[j].second

\* apply_credentials_to_fields
Applied(f) ==
  [i \in Fields(f) |->
     IF i \in UserOwned(f) \/ f.options[i].kind = "hidden"
       THEN IF f.options[i].filled THEN "server" ELSE "none"
     ELSE IF TakesUsername(f, i) THEN "username"
     ELSE IF TakesPassword(f, i) THEN "password"
     ELSE IF f.options[i].filled THEN "server" ELSE "none"]

CanAutofill(f) == \A i \in Visible(f) : Applied(f)[i] # "none"
Automatic(f)   == CanAutofill(f) /\ UserOwned(f) = {}

-----------------------------------------------------------------------------

NoForm    == [id |-> "none", group |-> "none", options |-> <<>>]
NewState  == [groupSet |-> FALSE, empties |-> 0, autos |-> {}]
NothingSent == [form |-> NoForm, values |-> [i \in {} |-> "none"]]

FormInit ==
  /\ creds \in SUBSET {"username", "password", "group"}
  /\ attended \in BOOLEAN
  /\ fpc = "server" /\ form = NoForm /\ state = NewState
  /\ replies = 0 /\ result = "none"
  /\ sent = NothingSent /\ autoSent = {} /\ replayed = FALSE

Ends(r) == fpc' = "done" /\ result' = r

\* obtain_cookie: the server presents a form, or the exchange is over.
Present ==
  /\ fpc = "server"
  /\ form' \in Forms
  /\ fpc' = "form"
  /\ UNCHANGED <<creds, attended, state, replies, result, sent, autoSent, replayed>>

Over ==
  /\ fpc = "server"
  /\ \E r \in {"cookie", "refused"} : Ends(r)
  /\ UNCHANGED <<creds, attended, form, state, replies, sent, autoSent, replayed>>

\* apply_configured_auth_group.  Selecting the configured group asks the
\* server for a refreshed form, once.
AppliesGroup(f) == f.group # "none" /\ "group" \in creds
GroupMissing(f) == AppliesGroup(f) /\ f.group = "missing"
\* Mutant: the selection of the group is not remembered.
AsksNewGroupAgain(f) == AppliesGroup(f) /\ f.group = "offered"
AsksNewGroup(f) == AppliesGroup(f) /\ f.group = "offered" /\ ~state.groupSet

GroupNotOffered ==
  /\ fpc = "form" /\ GroupMissing(form)
  /\ Ends("error")
  /\ UNCHANGED <<creds, attended, form, state, replies, sent, autoSent, replayed>>

NewGroup ==
  /\ fpc = "form" /\ AsksNewGroup(form)
  /\ state' = [state EXCEPT !.groupSet = TRUE]
  /\ fpc' = "server"
  /\ UNCHANGED <<creds, attended, form, replies, result, sent, autoSent, replayed>>

\* accept_form: the third form in a row without an active input ends it all.
Empties(f) == IF ActiveInput(f) THEN 0 ELSE state.empties + 1
\* Mutant: one empty form too many.
AcceptedOneMore(f) == Empties(f) < 4
Accepted(f) == Empties(f) < 3
Seen(f) == [state EXCEPT !.groupSet = @ \/ AppliesGroup(f), !.empties = Empties(f)]

Processes(f) == fpc = "form" /\ ~GroupMissing(f) /\ ~AsksNewGroup(f)

TooManyEmpty ==
  /\ Processes(form) /\ ~Accepted(form)
  /\ state' = Seen(form)
  /\ Ends("cancelled")
  /\ UNCHANGED <<creds, attended, form, replies, sent, autoSent, replayed>>

\* A form answered automatically once is not answered so again.
WasAutomatic(f) == Fingerprint(f) \in state.autos

\* Mutant: an automatic answer is not remembered.
RecordedNot(s, f, automatic) == s
Recorded(s, f, automatic) ==
  IF automatic THEN [s EXCEPT !.autos = @ \union {Fingerprint(f)}] ELSE s

Submit(f, values, s, automatic) ==
  /\ sent' = [form |-> f, values |-> values]
  /\ state' = Recorded(s, f, automatic)
  /\ fpc' = "server"
  /\ autoSent' = IF automatic THEN autoSent \union {Fingerprint(f)} ELSE autoSent
  /\ replayed' = (replayed \/ (automatic /\ Fingerprint(f) \in autoSent))

SubmitAutomatically ==
  /\ Processes(form) /\ Accepted(form)
  /\ Automatic(form) /\ ~WasAutomatic(form)
  /\ Submit(form, Applied(form), Seen(form), TRUE)
  /\ UNCHANGED <<creds, attended, form, replies, result>>

\* A repeated form, an option that refuses its value, and a primary form the
\* profile does not satisfy are errors.
FormFails ==
  /\ Processes(form) /\ Accepted(form)
  /\ Automatic(form) \/ (attended /\ UserOwned(form) = {})
  /\ state' = Seen(form)
  /\ Ends("error")
  /\ UNCHANGED <<creds, attended, form, replies, sent, autoSent, replayed>>

NobodyToAsk ==
  /\ Processes(form) /\ Accepted(form)
  /\ ~Automatic(form) /\ ~attended
  /\ state' = Seen(form)
  /\ Ends("cancelled")
  /\ UNCHANGED <<creds, attended, form, replies, sent, autoSent, replayed>>

Ask ==
  /\ Processes(form) /\ Accepted(form)
  /\ ~Automatic(form) /\ attended /\ UserOwned(form) # {}
  /\ state' = Seen(form)
  /\ fpc' = "asked"
  /\ UNCHANGED <<creds, attended, form, replies, result, sent, autoSent, replayed>>

\* bind_reply_values_by_option: an answer replaces the value of its option.
Bound(f, answers) ==
  [i \in Fields(f) |-> IF i \in answers THEN "reply" ELSE Applied(f)[i]]

Reply ==
  /\ fpc = "asked"
  /\ replies < MaxReplies
  /\ replies' = replies + 1
  /\ \E answers \in SUBSET UserOwned(form) : Submit(form, Bound(form, answers), state, FALSE)
  /\ UNCHANGED <<creds, attended, form, result>>

\* The user cancels, or the reply names an option the form does not have, or one
\* that refuses its value.
ReplyFails ==
  /\ fpc = "asked"
  /\ \E r \in {"cancelled", "error"} : Ends(r)
  /\ UNCHANGED <<creds, attended, form, state, replies, sent, autoSent, replayed>>

Handle == GroupNotOffered \/ NewGroup \/ TooManyEmpty \/ SubmitAutomatically \/ FormFails
          \/ NobodyToAsk \/ Ask
Server == Present \/ Over
User   == Reply \/ ReplyFails

FormNext == Server \/ Handle \/ User

\* The server answers or the exchange fails, and a form that is up is answered
\* or cancelled: the bridge gives up after three minutes.
FormFairness == WF_formVars(Server) /\ WF_formVars(Handle) /\ WF_formVars(User)

-----------------------------------------------------------------------------

Values == {"none", "server", "username", "password", "reply"}

FormTypeOK ==
  /\ creds \subseteq {"username", "password", "group"} /\ attended \in BOOLEAN
  /\ fpc \in {"server", "form", "asked", "done"}
  /\ form \in Forms \union {NoForm}
  /\ state.groupSet \in BOOLEAN /\ state.empties \in 0 .. 3
  /\ state.autos \subseteq {Fingerprint(f) : f \in Forms}
  /\ replies \in 0 .. MaxReplies
  /\ result \in {"none", "cookie", "refused", "error", "cancelled", "handed"}
  /\ sent.form \in Forms \union {NoForm}
  /\ \A i \in DOMAIN sent.values : sent.values[i] \in Values
  /\ autoSent \subseteq {Fingerprint(f) : f \in Forms} /\ replayed \in BOOLEAN

\* No form is answered from the profile twice in one conversation, whatever
\* comes in between: a second answer would send a second text message, or lock
\* the account with a password the server has refused.
NeverReplayed == ~replayed

\* What is submitted comes from where it belongs: the password of the profile
\* in one password option of a primary form that is not second authentication,
\* an answer of the user in an option the user was asked for, and nothing of
\* the profile in a follow-up form.
SubmissionIsOwned ==
  \A i \in DOMAIN sent.values :
    LET f == sent.form  o == f.options[i]  v == sent.values[i]
    IN /\ v = "password" => /\ Primary(f) /\ o.kind = "password" /\ ~o.second
                            /\ \A j \in DOMAIN sent.values : sent.values[j] = v => j = i
       /\ v = "reply" => o.kind # "hidden" /\ (~Primary(f) \/ o.second)
       /\ v = "username" => Primary(f) /\ o.kind = "text" /\ ~o.second

\* A conversation ends, whatever the server presents, once the user stops
\* answering: it makes no progress of its own for ever.
ConversationEnds == <>(fpc = "done")

=============================================================================
