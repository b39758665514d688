----------------------------- MODULE ProfileStore ------------------------------
(***************************************************************************)
(* The profiles and the preferences of the application.  The UI process    *)
(* keeps them in the engine, its reducer keeps a copy, and two files keep  *)
(* what survives: connections.json and preferences.json.  The certificates *)
(* a profile names are files too, removed with the last profile that names *)
(* them.  The Extension process configures the same home for every Want    *)
(* and writes the preferences back.                                        *)
(*                                                                         *)
(* A profile is its id and the certificate it names.  An operation holds   *)
(* the engine lock from its change in memory to its last file, any of      *)
(* whose writes may fail; a file is replaced by a rename, so it is whole.  *)
(***************************************************************************)
EXTENDS Integers, Sequences, FiniteSets

CONSTANTS
  Ids,    \* profiles, by id
  Certs,  \* the certificate files the user may import, each once
  NoId,
  NoCert

ASSUME StoreAssumption == NoId \notin Ids /\ NoCert \notin Certs

Profile   == [id : Ids, cert : Certs \union {NoCert}]
NoProfile == [id |-> NoId, cert |-> NoCert]

VARIABLES
  connections, \* the engine's profiles, the newest first
  active,      \* active_connection_id
  session,     \* the profile of the connect or session under way
  op,          \* the operation that holds the lock
  view,        \* the profiles the reducer shows
  draft,       \* the profile in the editor
  tapped,      \* the profile of a connect that is on its way to the engine
  disk,        \* connections.json
  prefs,       \* the active id of preferences.json
  files,       \* certificates on disk
  imported,    \* certificates imported so far
  ext,         \* the active id the Extension is about to write back, if any
  exposed      \* history: has the session lost the engine's hold on its profile?

engineVars == <<connections, active, session>>
uiVars     == <<view, draft, tapped>>
diskVars   == <<disk, prefs, files, imported>>
vars       == <<engineVars, op, uiVars, diskVars, ext, exposed>>

IdsOf(s)      == {s[i].id : i \in DOMAIN s}
Named(s, id)  == IF id \in IdsOf(s) THEN s[CHOOSE i \in DOMAIN s : s[i].id = id] ELSE NoProfile
FirstId(s)    == IF s = <<>> THEN NoId ELSE s[1].id
CertsOf(s)    == {s[i].cert : i \in DOMAIN s} \ {NoCert}
Live          == session # NoProfile
Idle          == op.pc = "idle"
NoOp          == [pc |-> "idle", previous |-> NoProfile, editor |-> FALSE]

Init ==
  /\ connections = <<>> /\ active = NoId /\ session = NoProfile
  /\ op = NoOp
  /\ view = <<>> /\ draft = NoProfile /\ tapped = NoProfile
  /\ disk = <<>> /\ prefs = NoId /\ files = {} /\ imported = {}
  /\ ext = {} /\ exposed = FALSE

-----------------------------------------------------------------------------

\* OpenEditor: a copy of what the reducer shows, or a new draft, whose id is
\* chosen here.  The editor is a page of its own: leaving it drops the draft.
OpenEditor ==
  /\ Idle /\ draft = NoProfile
  /\ \E id \in Ids :
       draft' = IF id \in IdsOf(view) THEN Named(view, id) ELSE [id |-> id, cert |-> NoCert]
  /\ UNCHANGED <<engineVars, op, view, tapped, diskVars, ext, exposed>>

CloseEditor ==
  /\ Idle /\ draft # NoProfile
  /\ draft' = NoProfile
  /\ UNCHANGED <<engineVars, op, view, tapped, diskVars, ext, exposed>>

\* PickCertFile copies the file the user picks under a name of its own.
PickCert ==
  /\ Idle /\ draft # NoProfile
  /\ \E c \in Certs \ imported :
       /\ imported' = imported \union {c} /\ files' = files \union {c}
       /\ draft' = [draft EXCEPT !.cert = c]
  /\ UNCHANGED <<engineVars, op, view, tapped, disk, prefs, ext, exposed>>

\* Mutant: the profile of a session may be changed.
MayEditAny(id) == TRUE

\* The profile of a connect cannot be changed under it.
MayEdit(id) == ~(active = id /\ Live)

Replaced(s, p) == [i \in DOMAIN s |-> IF s[i].id = p.id THEN p ELSE s[i]]

\* Mutant: a profile is looked up in what the reducer shows.
KnownToView(id) == id \in IdsOf(view)
Known(id) == id \in IdsOf(connections)

\* upsert_profile: memory first.  A new profile becomes the active one unless a
\* session is under way.
Upsert(p, fromEditor) ==
  /\ MayEdit(p.id)
  /\ op' = [pc |-> "save", previous |-> Named(connections, p.id), editor |-> fromEditor]
  /\ IF Known(p.id)
       THEN connections' = Replaced(connections, p) /\ UNCHANGED active
       ELSE /\ connections' = <<p>> \o connections
            /\ active' = IF Live THEN active ELSE p.id
  /\ UNCHANGED <<session, uiVars, diskVars, ext, exposed>>

SaveDraft      == Idle /\ draft # NoProfile /\ Upsert(draft, TRUE)
ToggleFavorite == Idle /\ draft = NoProfile /\ \E i \in DOMAIN view : Upsert(view[i], FALSE)

\* retain: a list holds an id once (TypeOK), so one profile leaves it and those
\* behind it move up.
Without(s, id) ==
  LET gone == CHOOSE i \in DOMAIN s : s[i].id = id
  IN [i \in 1 .. Len(s) - 1 |-> IF i < gone THEN s[i] ELSE s[i + 1]]

DeleteConnection ==
  /\ Idle /\ draft = NoProfile
  /\ \E id \in IdsOf(view) \intersect IdsOf(connections) :
       /\ MayEdit(id)
       /\ op' = [pc |-> "save", previous |-> Named(connections, id), editor |-> FALSE]
       /\ connections' = Without(connections, id)
       /\ active' = IF active = id THEN FirstId(Without(connections, id)) ELSE active
  /\ UNCHANGED <<session, uiVars, diskVars, ext, exposed>>

SelectConnection ==
  /\ Idle /\ draft = NoProfile /\ ~Live
  /\ \E id \in IdsOf(view) \intersect IdsOf(connections) : active' = id
  /\ op' = [NoOp EXCEPT !.pc = "prefs"]
  /\ UNCHANGED <<connections, session, uiVars, diskVars, ext, exposed>>

\* The writes that follow, in this order.  An error ends the operation and
\* takes nothing back; only the editor stays open.
Save ==
  /\ op.pc = "save"
  /\ \/ disk' = connections /\ op' = [op EXCEPT !.pc = "prefs"]
     \/ UNCHANGED disk /\ op' = NoOp
  /\ UNCHANGED <<engineVars, uiVars, prefs, files, imported, ext, exposed>>

SavePreferences ==
  /\ op.pc = "prefs"
  /\ \/ prefs' = active /\ op' = [op EXCEPT !.pc = "clean"]
     \/ UNCHANGED prefs /\ op' = NoOp
  /\ UNCHANGED <<engineVars, uiVars, disk, files, imported, ext, exposed>>

\* Mutant: the certificate is removed whoever names it.
UnreferencedOrNot(p) == {p.cert}

\* cleanup_unreferenced_profile_files; the reducer then shows the result.
Unreferenced(p) == {p.cert} \ CertsOf(connections)

Clean ==
  /\ op.pc = "clean"
  /\ files' = files \ Unreferenced(op.previous)
  /\ op' = NoOp
  /\ view' = connections
  /\ draft' = IF op.editor THEN NoProfile ELSE draft
  /\ UNCHANGED <<engineVars, tapped, disk, prefs, imported, ext, exposed>>

\* TickSession.
Sync ==
  /\ Idle /\ view # connections
  /\ view' = connections
  /\ UNCHANGED <<engineVars, op, draft, tapped, diskVars, ext, exposed>>

-----------------------------------------------------------------------------

\* start_connect takes a copy of the profile the reducer takes for the active
\* one; prepare_connect, on a task of its own, marks the engine busy some time
\* later.
Tap ==
  /\ Idle /\ ~Live /\ tapped = NoProfile
  /\ \E i \in DOMAIN view : tapped' = view[i]
  /\ UNCHANGED <<engineVars, op, view, draft, diskVars, ext, exposed>>

Prepare ==
  /\ Idle /\ tapped # NoProfile
  /\ session' = tapped /\ tapped' = NoProfile
  /\ exposed' = ~(active = tapped.id /\ Named(connections, tapped.id) = tapped)
  /\ UNCHANGED <<connections, active, op, view, draft, diskVars, ext>>

SessionEnds ==
  /\ Idle /\ Live
  /\ session' = NoProfile /\ exposed' = FALSE
  /\ UNCHANGED <<connections, active, op, uiVars, diskVars, ext>>

\* configure_home: the selection of the file, if it is still a profile, then
\* that of memory, then the first.
Resolved(profiles, saved, previous) ==
  IF saved \in IdsOf(profiles) THEN saved
  ELSE IF previous \in IdsOf(profiles) THEN previous
  ELSE FirstId(profiles)

\* The UI process dies at any step, and a new one reads the files; writing the
\* preferences back may fail.
Restart ==
  /\ connections' = disk /\ view' = disk
  /\ active' = Resolved(disk, prefs, NoId)
  /\ prefs' \in {prefs, active'}
  /\ session' = NoProfile /\ op' = NoOp /\ draft' = NoProfile /\ tapped' = NoProfile
  /\ exposed' = FALSE
  /\ UNCHANGED <<disk, files, imported, ext>>

\* The ability of a live UI process may be created anew: the session goes on,
\* on what the files say.
Recreated ==
  /\ Idle
  /\ connections' = disk /\ view' = disk
  /\ active' = Resolved(disk, prefs, active)
  /\ prefs' \in {prefs, active'}
  /\ draft' = NoProfile
  /\ exposed' = (exposed \/ (Live /\ ~(active' = session.id /\ Named(disk, session.id) = session)))
  /\ UNCHANGED <<session, op, tapped, disk, files, imported, ext>>

\* The Extension reads both files, at one moment here, and writes back what it
\* made of the preferences.
ExtLoads ==
  /\ ext = {}
  /\ ext' = {Resolved(disk, prefs, NoId)}
  /\ UNCHANGED <<engineVars, op, uiVars, diskVars, exposed>>

ExtWritesBack ==
  /\ ext # {}
  /\ \A id \in ext : prefs' \in {prefs, id}
  /\ ext' = {}
  /\ UNCHANGED <<engineVars, op, uiVars, disk, files, imported, exposed>>

Editor    == OpenEditor \/ CloseEditor \/ PickCert \/ SaveDraft
List      == ToggleFavorite \/ DeleteConnection \/ SelectConnection
Writes    == Save \/ SavePreferences \/ Clean
Connect   == Tap \/ Prepare \/ SessionEnds
Process   == Sync \/ Restart \/ Recreated
Extension == ExtLoads \/ ExtWritesBack

Next == Editor \/ List \/ Writes \/ Connect \/ Process \/ Extension

Spec == Init /\ [][Next]_vars

-----------------------------------------------------------------------------

\* The state keeps its type, and a profile is listed once.
TypeOK ==
  /\ {connections, view, disk} \subseteq Seq(Profile)
  /\ {active, prefs} \union ext \subseteq Ids \union {NoId}
  /\ {session, draft, tapped, op.previous} \subseteq Profile \union {NoProfile}
  /\ op.pc \in {"idle", "save", "prefs", "clean"} /\ op.editor \in BOOLEAN
  /\ files \subseteq imported /\ imported \subseteq Certs
  /\ exposed \in BOOLEAN
  /\ \A s \in {connections, view, disk} :
       \A i, j \in DOMAIN s : s[i].id = s[j].id => i = j

\* No profile on disk, in memory or in the editor names a certificate that was
\* removed, whichever of the writes of the operations before failed, and
\* however old the copy the reducer works from.
CertificatesExist ==
  /\ CertsOf(disk) \subseteq files
  /\ CertsOf(connections) \subseteq files
  /\ draft.cert \in files \union {NoCert}

\* The profile of a session stays the active one and stays as it was, with its
\* certificate, until the session ends: a reconnect or a restarted Extension
\* needs it.  The exceptions are recorded in exposed: a profile changed between
\* the tap and prepare_connect, and a UI ability created anew on older files.
SessionKeepsProfile ==
  Live /\ ~exposed => /\ active = session.id
                      /\ Named(connections, session.id) = session
                      /\ session.cert \in files \union {NoCert}

=============================================================================
