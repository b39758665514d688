-------------------------- MODULE ProfileStore_proofs ---------------------------
(***************************************************************************)
(* Proofs about ProfileStore.  Lists are reasoned about through the        *)
(* profiles they hold, Lists(s, p): the first section says what each       *)
(* operation on a list does to those, and no step after it looks at an     *)
(* index.                                                                  *)
(***************************************************************************)
EXTENDS ProfileStore, SequenceTheorems, TLAPS

Lists(s, p)  == \E i \in DOMAIN s : s[i] = p
ListsOnce(s) == \A i, j \in DOMAIN s : s[i].id = s[j].id => i = j
Store        == {s \in Seq(Profile) : ListsOnce(s)}

-----------------------------------------------------------------------------
(* Lists of profiles                                                       *)

\* No profile is the one that stands for none.
LEMMA ProfileIsReal ==
  /\ NoProfile \notin Profile
  /\ \A p \in Profile : p.id \in Ids /\ p.id # NoId /\ p.cert \in Certs \union {NoCert}
BY StoreAssumption DEF Profile, NoProfile

\* A member of a list is a profile, at an index of the list.
LEMMA ListsProfiles ==
  ASSUME NEW s \in Seq(Profile)
  PROVE  /\ \A i \in DOMAIN s : s[i] \in Profile /\ Lists(s, s[i])
         /\ \A p : Lists(s, p) => p \in Profile /\ p.id \in IdsOf(s)
         /\ \A id \in IdsOf(s) : id \in Ids /\ \E p \in Profile : Lists(s, p) /\ p.id = id
         /\ DOMAIN s = 1 .. Len(s) /\ Len(s) \in Nat
         /\ s # <<>> => 1 \in DOMAIN s
<1>1. DOMAIN s = 1 .. Len(s) /\ Len(s) \in Nat
  BY LenProperties
<1>2. \A i \in DOMAIN s : s[i] \in Profile
  BY <1>1, ElementOfSeq
<1>3. s # <<>> => 1 \in DOMAIN s
  BY <1>1, EmptySeq
<1>4. QED
  BY <1>1, <1>2, <1>3, ProfileIsReal DEF Lists, IdsOf

\* What is found under an id is the one profile of that id, or none.
LEMMA NamedFinds ==
  ASSUME NEW s \in Store
  PROVE  /\ \A p : Lists(s, p) => Named(s, p.id) = p
         /\ \A id : Named(s, id) \in Profile \union {NoProfile}
         /\ \A id : Named(s, id) # NoProfile => Lists(s, Named(s, id)) /\ Named(s, id).id = id
         /\ \A id : Named(s, id) = NoProfile <=> id \notin IdsOf(s)
<1>1. s \in Seq(Profile) /\ ListsOnce(s)
  BY DEF Store
<1>2. ASSUME NEW id \in IdsOf(s)
      PROVE  Lists(s, Named(s, id)) /\ Named(s, id).id = id /\ Named(s, id) \in Profile
  <2> DEFINE k == CHOOSE i \in DOMAIN s : s[i].id = id
  <2>1. k \in DOMAIN s /\ s[k].id = id
    BY <1>2 DEF IdsOf
  <2>2. Named(s, id) = s[k]
    BY <1>2 DEF Named
  <2>3. QED
    BY <1>1, <2>1, <2>2, ListsProfiles
<1>3. ASSUME NEW p, Lists(s, p) PROVE Named(s, p.id) = p
  <2>1. p.id \in IdsOf(s) /\ p \in Profile
    BY <1>1, <1>3, ListsProfiles
  <2>2. Lists(s, Named(s, p.id)) /\ Named(s, p.id).id = p.id
    BY <1>2, <2>1
  <2>3. QED
    BY <1>1, <1>3, <2>2 DEF Lists, ListsOnce
<1>4. \A id : id \notin IdsOf(s) => Named(s, id) = NoProfile
  BY DEF Named
<1>5. QED
  BY <1>2, <1>3, <1>4, ProfileIsReal

\* The certificates of a list are those its profiles name.
LEMMA CertsAreNamed ==
  ASSUME NEW s \in Seq(Profile), NEW F
  PROVE  CertsOf(s) \subseteq F <=> \A p : Lists(s, p) => p.cert \in F \union {NoCert}
BY DEF CertsOf, Lists

LEMMA EmptyStore == <<>> \in Store /\ IdsOf(<<>>) = {} /\ \A p : ~Lists(<<>>, p)
<1>1. <<>> \in Seq(Profile) /\ DOMAIN <<>> = {}
  BY EmptySeq
<1>2. QED
  BY <1>1 DEF Store, ListsOnce, IdsOf, Lists

\* insert(0, ...): a profile of a new id comes first, and the others stay.
LEMMA PutFirst ==
  ASSUME NEW s \in Store, NEW p \in Profile, p.id \notin IdsOf(s)
  PROVE  /\ <<p>> \o s \in Store
         /\ \A q : Lists(<<p>> \o s, q) <=> q = p \/ Lists(s, q)
<1> DEFINE t == <<p>> \o s
<1>1. s \in Seq(Profile) /\ ListsOnce(s) /\ <<p>> \in Seq(Profile) /\ Len(<<p>>) = 1 /\ <<p>>[1] = p
  BY DEF Store
<1>2. DOMAIN s = 1 .. Len(s) /\ Len(s) \in Nat
  BY <1>1, LenProperties
<1>3. /\ t \in Seq(Profile) /\ Len(t) = Len(s) + 1
      /\ \A i \in 1 .. Len(s) + 1 : t[i] = IF i <= 1 THEN p ELSE s[i - 1]
  <2>1. /\ t \in Seq(Profile) /\ Len(t) = Len(<<p>>) + Len(s)
        /\ \A i \in 1 .. Len(<<p>>) + Len(s) : t[i] = IF i <= Len(<<p>>) THEN <<p>>[i] ELSE s[i - Len(<<p>>)]
    BY <1>1, ConcatProperties
  <2>2. QED
    BY <1>1, <1>2, <2>1
<1>4. DOMAIN t = 1 .. Len(s) + 1
  BY <1>3, LenProperties
<1> HIDE DEF t
<1>5. t[1] = p /\ \A i \in DOMAIN s : i + 1 \in DOMAIN t /\ t[i + 1] = s[i]
  BY <1>2, <1>3, <1>4
<1>6. \A j \in DOMAIN t : j = 1 \/ (j - 1 \in DOMAIN s /\ t[j] = s[j - 1])
  BY <1>2, <1>3, <1>4
<1>7. ListsOnce(t)
  <2> SUFFICES ASSUME NEW i \in DOMAIN t, NEW j \in DOMAIN t, t[i].id = t[j].id
               PROVE  i = j
    BY DEF ListsOnce
  <2>1. \A k \in DOMAIN s : s[k].id # p.id
    BY DEF IdsOf
  <2>2. CASE i = 1 \/ j = 1
    BY <1>5, <1>6, <2>1, <2>2
  <2>3. CASE i # 1 /\ j # 1
    <3>1. i - 1 = j - 1
      BY <1>1, <1>6, <2>3 DEF ListsOnce
    <3>2. QED
      BY <1>2, <1>4, <3>1
  <2>4. QED
    BY <2>2, <2>3
<1>8. \A q : Lists(t, q) <=> q = p \/ Lists(s, q)
  BY <1>2, <1>4, <1>5, <1>6 DEF Lists
<1>9. QED
  BY <1>3, <1>7, <1>8 DEF t, Store

\* A profile in place of the one of its id: the others stay.
LEMMA ReplacedOne ==
  ASSUME NEW s \in Store, NEW p \in Profile
  PROVE  /\ Replaced(s, p) \in Store
         /\ \A q : Lists(Replaced(s, p), q) => q = p \/ Lists(s, q)
         /\ \A q : Lists(s, q) /\ q.id # p.id => Lists(Replaced(s, p), q)
<1> DEFINE t == Replaced(s, p)
<1>1. s \in Seq(Profile) /\ ListsOnce(s)
  BY DEF Store
<1>2. DOMAIN s = 1 .. Len(s) /\ Len(s) \in Nat /\ \A i \in DOMAIN s : s[i] \in Profile
  BY <1>1, ListsProfiles
<1>3. DOMAIN t = DOMAIN s /\ \A i \in DOMAIN s : t[i] = (IF s[i].id = p.id THEN p ELSE s[i])
  BY DEF Replaced
<1>4. t \in Seq(Profile)
  <2>1. t \in [1 .. Len(s) -> Profile]
    BY <1>2 DEF Replaced
  <2>2. QED
    BY <1>2, <2>1, SeqDef
<1> HIDE DEF t
<1>5. \A i \in DOMAIN s : t[i].id = s[i].id
  BY <1>3
<1>6. ListsOnce(t)
  BY <1>1, <1>3, <1>5 DEF ListsOnce
<1>7. /\ \A q : Lists(t, q) => q = p \/ Lists(s, q)
      /\ \A q : Lists(s, q) /\ q.id # p.id => Lists(t, q)
  BY <1>3 DEF Lists
<1>8. QED
  BY <1>4, <1>6, <1>7 DEF t, Store

\* retain: the profile of the id leaves, the others stay.
LEMMA WithoutOne ==
  ASSUME NEW s \in Store, NEW id \in IdsOf(s)
  PROVE  /\ Without(s, id) \in Store
         /\ \A q : Lists(Without(s, id), q) <=> Lists(s, q) /\ q.id # id
<1> DEFINE k == CHOOSE i \in DOMAIN s : s[i].id = id
           t == Without(s, id)
<1>1. s \in Seq(Profile) /\ ListsOnce(s)
  BY DEF Store
<1>2. DOMAIN s = 1 .. Len(s) /\ Len(s) \in Nat /\ \A i \in DOMAIN s : s[i] \in Profile
  BY <1>1, ListsProfiles
<1>3. k \in DOMAIN s /\ s[k].id = id
  BY DEF IdsOf
<1>4. t = [i \in 1 .. Len(s) - 1 |-> IF i < k THEN s[i] ELSE s[i + 1]]
  BY DEF Without
<1> HIDE DEF k, t
<1>5. Len(s) - 1 \in Nat /\ DOMAIN t = 1 .. Len(s) - 1
  BY <1>2, <1>3, <1>4
<1>6. \A i \in DOMAIN t : /\ t[i] = IF i < k THEN s[i] ELSE s[i + 1]
                          /\ i \in DOMAIN s /\ i + 1 \in DOMAIN s
  BY <1>2, <1>3, <1>4, <1>5
<1>7. t \in Seq(Profile)
  <2>1. t \in [1 .. Len(s) - 1 -> Profile]
    BY <1>2, <1>4, <1>5, <1>6
  <2>2. QED
    BY <1>5, <2>1, SeqDef
<1>8. \A i \in DOMAIN s : s[i].id = id <=> i = k
  BY <1>1, <1>3 DEF ListsOnce
<1>9. ListsOnce(t)
  <2> SUFFICES ASSUME NEW i \in DOMAIN t, NEW j \in DOMAIN t, t[i].id = t[j].id
               PROVE  i = j
    BY DEF ListsOnce
  <2> DEFINE m == IF i < k THEN i ELSE i + 1
             n == IF j < k THEN j ELSE j + 1
  <2>1. m \in DOMAIN s /\ n \in DOMAIN s /\ t[i] = s[m] /\ t[j] = s[n]
    BY <1>6
  <2>2. m = n
    BY <1>1, <2>1 DEF ListsOnce
  <2>3. QED
    BY <1>2, <1>3, <1>5, <2>2
<1>10. ASSUME NEW q, Lists(t, q) PROVE Lists(s, q) /\ q.id # id
  <2>1. PICK i \in DOMAIN t : t[i] = q
    BY <1>10 DEF Lists
  <2> DEFINE m == IF i < k THEN i ELSE i + 1
  <2>2. m \in DOMAIN s /\ s[m] = q
    BY <1>6, <2>1
  <2>3. m # k
    BY <1>2, <1>3, <1>5
  <2>4. QED
    BY <1>8, <2>2, <2>3 DEF Lists
<1>11. ASSUME NEW q, Lists(s, q), q.id # id PROVE Lists(t, q)
  <2>1. PICK m \in DOMAIN s : s[m] = q
    BY <1>11 DEF Lists
  <2>2. m # k
    BY <1>3, <1>11, <2>1
  <2> DEFINE i == IF m < k THEN m ELSE m - 1
  <2>3. i \in DOMAIN t /\ t[i] = q
    BY <1>2, <1>3, <1>5, <1>6, <2>1, <2>2
  <2>4. QED
    BY <2>3 DEF Lists
<1>12. QED
  BY <1>7, <1>9, <1>10, <1>11 DEF t, Store

\* The id of a selection is that of a profile, or none.
LEMMA SelectionIsId ==
  ASSUME NEW s \in Store, NEW a \in Ids \union {NoId}, NEW b \in Ids \union {NoId}
  PROVE  FirstId(s) \in Ids \union {NoId} /\ Resolved(s, a, b) \in Ids \union {NoId}
<1>1. s \in Seq(Profile)
  BY DEF Store
<1>2. FirstId(s) \in Ids \union {NoId}
  BY <1>1, ListsProfiles, ProfileIsReal DEF FirstId
<1>3. QED
  BY <1>2 DEF Resolved
-----------------------------------------------------------------------------
(* The inductive invariant                                                 *)

Maybe  == Profile \union {NoProfile}
MaybeId == Ids \union {NoId}

Typed ==
  /\ connections \in Store /\ view \in Store /\ disk \in Store
  /\ active \in MaybeId /\ prefs \in MaybeId /\ ext \subseteq MaybeId
  /\ session \in Maybe /\ draft \in Maybe /\ tapped \in Maybe
  /\ op \in [pc : {"idle", "save", "prefs", "clean"}, previous : Maybe, editor : BOOLEAN]
  /\ files \subseteq imported /\ imported \subseteq Certs
  /\ exposed \in BOOLEAN

\* Every certificate named anywhere is there, in the reducer's copy as well:
\* what it shows may be saved again.
OnDisk(p) == p.cert \in files \union {NoCert}
FilesInv  ==
  /\ \A p : Lists(connections, p) => OnDisk(p)
  /\ \A p : Lists(view, p) => OnDisk(p)
  /\ \A p : Lists(disk, p) => OnDisk(p)
  /\ OnDisk(draft)

\* Before a certificate is removed connections.json holds the profiles of
\* memory, and an operation that does not come from the editor finds no draft.
OpInv ==
  /\ op.pc # "idle" /\ ~op.editor => draft = NoProfile
  /\ op.pc \in {"prefs", "clean"} /\ op.previous # NoProfile => disk = connections

SessionInv == Live /\ ~exposed => active = session.id /\ Lists(connections, session)

IInv == Typed /\ FilesInv /\ OpInv /\ SessionInv

\* The invariant implies the three properties the run checks.
LEMMA InvariantImplies == IInv => TypeOK /\ CertificatesExist /\ SessionKeepsProfile
<1> SUFFICES ASSUME IInv PROVE TypeOK /\ CertificatesExist /\ SessionKeepsProfile
  OBVIOUS
<1> USE DEF IInv
<1>1. /\ connections \in Seq(Profile) /\ ListsOnce(connections)
      /\ view \in Seq(Profile) /\ ListsOnce(view)
      /\ disk \in Seq(Profile) /\ ListsOnce(disk)
  BY DEF Typed, Store
<1>2. TypeOK
  BY <1>1 DEF Typed, TypeOK, Maybe, MaybeId, ListsOnce
<1>3. CertificatesExist
  BY <1>1, CertsAreNamed DEF FilesInv, OnDisk, CertificatesExist
<1>4. SessionKeepsProfile
  BY NamedFinds DEF Typed, FilesInv, OnDisk, SessionInv, SessionKeepsProfile
<1>5. QED
  BY <1>2, <1>3, <1>4

LEMMA InitInvariant == Init => IInv
<1> SUFFICES ASSUME Init PROVE IInv
  OBVIOUS
<1>1. NoProfile \in Maybe /\ NoId \in MaybeId /\ NoProfile.cert = NoCert
  BY DEF Maybe, MaybeId, NoProfile
<1>2. op = NoOp /\ NoOp \in [pc : {"idle", "save", "prefs", "clean"}, previous : Maybe, editor : BOOLEAN]
  BY <1>1 DEF Init, NoOp
<1>3. Typed
  BY <1>1, <1>2, EmptyStore DEF Init, Typed
<1>4. FilesInv
  BY <1>1, EmptyStore DEF Init, FilesInv, OnDisk
<1>5. OpInv /\ SessionInv
  BY <1>2 DEF Init, NoOp, OpInv, SessionInv, Live
<1>6. QED
  BY <1>3, <1>4, <1>5 DEF IInv

-----------------------------------------------------------------------------
(* The steps                                                               *)

\* An operation starts: its record is well formed, as is that of none.
LEMMA OpRecord ==
  ASSUME NEW pc \in {"idle", "save", "prefs", "clean"}, NEW p \in Maybe, NEW e \in BOOLEAN
  PROVE  [pc |-> pc, previous |-> p, editor |-> e]
           \in [pc : {"idle", "save", "prefs", "clean"}, previous : Maybe, editor : BOOLEAN]
OBVIOUS

LEMMA NoneIsTyped ==
  /\ NoProfile \in Maybe /\ NoProfile.cert = NoCert
  /\ NoOp \in [pc : {"idle", "save", "prefs", "clean"}, previous : Maybe, editor : BOOLEAN]
  /\ NoOp.pc = "idle"
BY DEF Maybe, NoProfile, NoOp

\* The editor opens on a copy of what the reducer shows, or on a new draft.
LEMMA OpenEditorStep == IInv /\ OpenEditor => IInv'
<1> SUFFICES ASSUME IInv, OpenEditor PROVE IInv'
  OBVIOUS
<1> USE DEF IInv
<1>1. UNCHANGED <<engineVars, op, view, tapped, diskVars, ext, exposed>> /\ Idle
  BY DEF OpenEditor
<1>2. draft' \in Maybe /\ OnDisk(draft')
  <2>1. PICK id \in Ids : draft' = IF id \in IdsOf(view) THEN Named(view, id) ELSE [id |-> id, cert |-> NoCert]
    BY DEF OpenEditor
  <2>2. view \in Store /\ \A p : Lists(view, p) => OnDisk(p)
    BY DEF Typed, FilesInv
  <2>3. CASE id \in IdsOf(view)
    BY <2>1, <2>2, <2>3, NamedFinds DEF Maybe
  <2>4. CASE id \notin IdsOf(view)
    BY <2>1, <2>4 DEF Maybe, Profile, OnDisk
  <2>5. QED
    BY <2>3, <2>4
<1>3. Typed'
  BY <1>1, <1>2 DEF Typed, engineVars, diskVars
<1>4. FilesInv'
  BY <1>1, <1>2 DEF FilesInv, OnDisk, engineVars, diskVars
<1>5. OpInv' /\ SessionInv'
  BY <1>1 DEF OpInv, SessionInv, Live, Idle, engineVars, diskVars
<1>6. QED
  BY <1>3, <1>4, <1>5

\* Leaving the editor drops the draft.
LEMMA CloseEditorStep == IInv /\ CloseEditor => IInv'
<1> SUFFICES ASSUME IInv, CloseEditor PROVE IInv'
  OBVIOUS
<1> USE DEF IInv
<1>1. UNCHANGED <<engineVars, op, view, tapped, diskVars, ext, exposed>> /\ draft' = NoProfile
  BY DEF CloseEditor
<1>2. NoProfile \in Maybe /\ NoProfile.cert = NoCert
  BY DEF Maybe, NoProfile
<1>3. Typed'
  BY <1>1, <1>2 DEF Typed, engineVars, diskVars
<1>4. FilesInv'
  BY <1>1, <1>2 DEF FilesInv, OnDisk, engineVars, diskVars
<1>5. OpInv' /\ SessionInv'
  BY <1>1 DEF OpInv, SessionInv, Live, engineVars, diskVars
<1>6. QED
  BY <1>3, <1>4, <1>5

\* A picked certificate is a new file, and only the draft names it.
LEMMA PickCertStep == IInv /\ PickCert => IInv'
<1> SUFFICES ASSUME IInv, PickCert PROVE IInv'
  OBVIOUS
<1> USE DEF IInv
<1>1. UNCHANGED <<engineVars, op, view, tapped, disk, prefs, ext, exposed>> /\ Idle /\ draft # NoProfile
  BY DEF PickCert
<1>2. PICK c \in Certs \ imported : /\ imported' = imported \union {c} /\ files' = files \union {c}
                                    /\ draft' = [draft EXCEPT !.cert = c]
  BY DEF PickCert
<1>3. draft' \in Maybe /\ draft'.cert = c
  <2>1. draft \in Profile
    BY <1>1 DEF Typed, Maybe
  <2>2. QED
    BY <1>2, <2>1 DEF Profile, Maybe
<1>4. Typed'
  BY <1>1, <1>2, <1>3 DEF Typed, engineVars
<1>5. FilesInv'
  BY <1>1, <1>2, <1>3 DEF FilesInv, OnDisk, engineVars
<1>6. OpInv' /\ SessionInv'
  BY <1>1 DEF OpInv, SessionInv, Live, Idle, engineVars
<1>7. QED
  BY <1>4, <1>5, <1>6

\* upsert_profile: a profile whose certificate exists is put first or takes the
\* place of its older self, which is not that of a session the engine holds.
LEMMA UpsertStep ==
  ASSUME IInv, NEW p \in Profile, OnDisk(p), NEW e \in BOOLEAN, ~e => draft = NoProfile, Upsert(p, e)
  PROVE  IInv'
<1> USE DEF IInv
<1>1. UNCHANGED <<session, uiVars, diskVars, ext, exposed>> /\ MayEdit(p.id)
  BY DEF Upsert
<1>2. op' = [pc |-> "save", previous |-> Named(connections, p.id), editor |-> e]
  BY DEF Upsert
<1>3. connections \in Store /\ p.id \in Ids
  BY ProfileIsReal DEF Typed
<1>4. op' \in [pc : {"idle", "save", "prefs", "clean"}, previous : Maybe, editor : BOOLEAN]
  BY <1>2, <1>3, NamedFinds, OpRecord DEF Maybe
<1>5. /\ connections' \in Store
      /\ \A q : Lists(connections', q) => q = p \/ Lists(connections, q)
      /\ \A q : Lists(connections, q) /\ (q.id # p.id \/ ~Known(p.id)) => Lists(connections', q)
  <2>1. CASE Known(p.id)
    BY <1>3, <2>1, ReplacedOne DEF Upsert
  <2>2. CASE ~Known(p.id)
    BY <1>3, <2>2, PutFirst DEF Upsert, Known
  <2>3. QED
    BY <2>1, <2>2
<1>6. active' \in MaybeId /\ (Live => active' = active)
  BY <1>3 DEF Upsert, Typed, MaybeId
<1>7. Typed'
  BY <1>1, <1>4, <1>5, <1>6 DEF Typed, uiVars, diskVars
<1>8. FilesInv'
  BY <1>1, <1>5 DEF FilesInv, OnDisk, uiVars, diskVars
<1>9. OpInv'
  BY <1>1, <1>2 DEF OpInv, uiVars
<1>10. SessionInv'
  <2> SUFFICES ASSUME Live, ~exposed
               PROVE  active' = session.id /\ Lists(connections', session)
    BY <1>1 DEF SessionInv, Live
  <2>1. active = session.id /\ Lists(connections, session)
    BY DEF SessionInv
  <2>2. session.id # p.id
    BY <1>1, <2>1 DEF MayEdit
  <2>3. QED
    BY <1>5, <1>6, <2>1, <2>2
<1>11. QED
  BY <1>7, <1>8, <1>9, <1>10

LEMMA SaveDraftStep == IInv /\ SaveDraft => IInv'
<1> SUFFICES ASSUME IInv, SaveDraft PROVE IInv'
  OBVIOUS
<1>1. draft \in Profile /\ OnDisk(draft) /\ Upsert(draft, TRUE)
  BY DEF SaveDraft, IInv, Typed, Maybe, FilesInv
<1>2. QED
  BY <1>1, UpsertStep

LEMMA ToggleFavoriteStep == IInv /\ ToggleFavorite => IInv'
<1> SUFFICES ASSUME IInv, ToggleFavorite PROVE IInv'
  OBVIOUS
<1>1. PICK i \in DOMAIN view : Upsert(view[i], FALSE)
  BY DEF ToggleFavorite
<1>2. view \in Seq(Profile) /\ draft = NoProfile
  BY DEF IInv, Typed, Store, ToggleFavorite
<1>3. view[i] \in Profile /\ OnDisk(view[i])
  BY <1>2, ListsProfiles DEF IInv, FilesInv
<1>4. QED
  BY <1>1, <1>2, <1>3, UpsertStep

\* delete_profile: the profile leaves the list, unless a session holds it.
LEMMA DeleteConnectionStep == IInv /\ DeleteConnection => IInv'
<1> SUFFICES ASSUME IInv, DeleteConnection PROVE IInv'
  OBVIOUS
<1> USE DEF IInv
<1>1. UNCHANGED <<session, uiVars, diskVars, ext, exposed>> /\ draft = NoProfile
  BY DEF DeleteConnection
<1>2. PICK id \in IdsOf(connections) :
        /\ MayEdit(id)
        /\ op' = [pc |-> "save", previous |-> Named(connections, id), editor |-> FALSE]
        /\ connections' = Without(connections, id)
        /\ active' = IF active = id THEN FirstId(Without(connections, id)) ELSE active
  BY DEF DeleteConnection
<1>3. connections \in Store
  BY DEF Typed
<1>4. /\ connections' \in Store
      /\ \A q : Lists(connections', q) <=> Lists(connections, q) /\ q.id # id
  BY <1>2, <1>3, WithoutOne
<1>5. op' \in [pc : {"idle", "save", "prefs", "clean"}, previous : Maybe, editor : BOOLEAN]
  BY <1>2, <1>3, NamedFinds, OpRecord DEF Maybe
<1>6. active' \in MaybeId
  BY <1>2, <1>4, SelectionIsId DEF Typed, MaybeId
<1>7. Typed'
  BY <1>1, <1>4, <1>5, <1>6 DEF Typed, uiVars, diskVars
<1>8. FilesInv'
  BY <1>1, <1>4 DEF FilesInv, OnDisk, uiVars, diskVars
<1>9. OpInv'
  BY <1>1, <1>2 DEF OpInv, uiVars
<1>10. SessionInv'
  <2> SUFFICES ASSUME Live, ~exposed
               PROVE  active' = session.id /\ Lists(connections', session)
    BY <1>1 DEF SessionInv, Live
  <2>1. active = session.id /\ Lists(connections, session)
    BY DEF SessionInv
  <2>2. session.id # id
    BY <1>2, <2>1 DEF MayEdit
  <2>3. QED
    BY <1>2, <1>4, <2>1, <2>2
<1>11. QED
  BY <1>7, <1>8, <1>9, <1>10

\* select_profile: no session is under way.
LEMMA SelectConnectionStep == IInv /\ SelectConnection => IInv'
<1> SUFFICES ASSUME IInv, SelectConnection PROVE IInv'
  OBVIOUS
<1> USE DEF IInv
<1>1. UNCHANGED <<connections, session, uiVars, diskVars, ext, exposed>> /\ draft = NoProfile /\ ~Live
  BY DEF SelectConnection
<1>2. op' = [pc |-> "prefs", previous |-> NoProfile, editor |-> FALSE]
  BY DEF SelectConnection, NoOp
<1>3. active' \in MaybeId
  <2>1. PICK id \in IdsOf(connections) : active' = id
    BY DEF SelectConnection
  <2>2. QED
    BY <2>1, ListsProfiles DEF Typed, Store, MaybeId
<1>4. op' \in [pc : {"idle", "save", "prefs", "clean"}, previous : Maybe, editor : BOOLEAN]
  BY <1>2, OpRecord, NoneIsTyped
<1>5. Typed'
  BY <1>1, <1>3, <1>4 DEF Typed, uiVars, diskVars
<1>6. FilesInv'
  BY <1>1 DEF FilesInv, OnDisk, uiVars, diskVars
<1>7. OpInv' /\ SessionInv'
  BY <1>1, <1>2 DEF OpInv, SessionInv, Live, uiVars
<1>8. QED
  BY <1>5, <1>6, <1>7

\* An operation goes on to its next write, or fails and ends.
LEMMA OpGoesOn ==
  ASSUME Typed, NEW pc \in {"prefs", "clean"}, op' = [op EXCEPT !.pc = pc] \/ op' = NoOp
  PROVE  /\ op' \in [pc : {"idle", "save", "prefs", "clean"}, previous : Maybe, editor : BOOLEAN]
         /\ \/ op'.pc = pc /\ op'.previous = op.previous /\ op'.editor = op.editor
            \/ op'.pc = "idle"
<1>1. CASE op' = [op EXCEPT !.pc = pc]
  BY <1>1 DEF Typed
<1>2. CASE op' = NoOp
  BY <1>2, NoneIsTyped
<1>3. QED
  BY <1>1, <1>2

LEMMA SaveStep == IInv /\ Save => IInv'
<1> SUFFICES ASSUME IInv, Save PROVE IInv'
  OBVIOUS
<1> USE DEF IInv
<1>1. UNCHANGED <<engineVars, uiVars, prefs, files, imported, ext, exposed>> /\ op.pc = "save"
  BY DEF Save
<1>2. \/ disk' = connections /\ op' = [op EXCEPT !.pc = "prefs"]
      \/ disk' = disk /\ op' = NoOp
  BY DEF Save
<1>3. /\ op' \in [pc : {"idle", "save", "prefs", "clean"}, previous : Maybe, editor : BOOLEAN]
      /\ \/ op'.pc = "prefs" /\ op'.previous = op.previous /\ op'.editor = op.editor
         \/ op'.pc = "idle"
  BY <1>2, OpGoesOn
<1>4. Typed'
  BY <1>1, <1>2, <1>3 DEF Typed, engineVars, uiVars
<1>5. FilesInv'
  BY <1>1, <1>2 DEF FilesInv, OnDisk, engineVars, uiVars
<1>6. OpInv'
  <2>1. CASE disk' = connections
    BY <1>1, <1>3, <2>1 DEF OpInv, engineVars, uiVars
  <2>2. CASE op' = NoOp
    BY <2>2, NoneIsTyped DEF OpInv
  <2>3. QED
    BY <1>2, <2>1, <2>2
<1>7. SessionInv'
  BY <1>1 DEF SessionInv, Live, engineVars
<1>8. QED
  BY <1>4, <1>5, <1>6, <1>7

LEMMA SavePreferencesStep == IInv /\ SavePreferences => IInv'
<1> SUFFICES ASSUME IInv, SavePreferences PROVE IInv'
  OBVIOUS
<1> USE DEF IInv
<1>1. UNCHANGED <<engineVars, uiVars, disk, files, imported, ext, exposed>> /\ op.pc = "prefs"
  BY DEF SavePreferences
<1>2. \/ prefs' = active /\ op' = [op EXCEPT !.pc = "clean"]
      \/ prefs' = prefs /\ op' = NoOp
  BY DEF SavePreferences
<1>3. /\ op' \in [pc : {"idle", "save", "prefs", "clean"}, previous : Maybe, editor : BOOLEAN]
      /\ \/ op'.pc = "clean" /\ op'.previous = op.previous /\ op'.editor = op.editor
         \/ op'.pc = "idle"
  BY <1>2, OpGoesOn
<1>4. Typed'
  BY <1>1, <1>2, <1>3 DEF Typed, engineVars, uiVars
<1>5. FilesInv' /\ SessionInv'
  BY <1>1 DEF FilesInv, OnDisk, SessionInv, Live, engineVars, uiVars
<1>6. OpInv'
  BY <1>1, <1>3 DEF OpInv, engineVars, uiVars
<1>7. QED
  BY <1>4, <1>5, <1>6

\* cleanup_unreferenced_profile_files: the file that goes is named by no profile
\* of memory, hence by none on disk, none the reducer shows next, and no draft.
LEMMA CleanStep == IInv /\ Clean => IInv'
<1> SUFFICES ASSUME IInv, Clean PROVE IInv'
  OBVIOUS
<1> USE DEF IInv
<1>1. /\ UNCHANGED <<engineVars, tapped, disk, prefs, imported, ext, exposed>>
      /\ op.pc = "clean" /\ op' = NoOp /\ view' = connections
      /\ files' = files \ Unreferenced(op.previous)
      /\ draft' = IF op.editor THEN NoProfile ELSE draft
  BY DEF Clean
<1>2. connections \in Store /\ connections \in Seq(Profile) /\ op.editor \in BOOLEAN
  BY DEF Typed, Store
<1>3. draft' = NoProfile
  BY <1>1, <1>2 DEF OpInv
<1>4. Typed'
  BY <1>1, <1>3, NoneIsTyped DEF Typed, engineVars
<1>5. \A p : Lists(connections, p) => p.cert \in files' \union {NoCert}
  BY <1>1, <1>2, CertsAreNamed DEF FilesInv, OnDisk, Unreferenced, CertsOf, Lists
<1>6. \A p : Lists(disk, p) => p.cert \in files' \union {NoCert}
  <2>1. CASE op.previous = NoProfile
    BY <1>1, <2>1 DEF FilesInv, OnDisk, Unreferenced, NoProfile
  <2>2. CASE op.previous # NoProfile
    BY <1>1, <1>5, <2>2 DEF OpInv
  <2>3. QED
    BY <2>1, <2>2
<1>7. FilesInv'
  BY <1>1, <1>3, <1>5, <1>6, NoneIsTyped DEF FilesInv, OnDisk, engineVars
<1>8. OpInv' /\ SessionInv'
  BY <1>1, NoneIsTyped DEF OpInv, SessionInv, Live, engineVars
<1>9. QED
  BY <1>4, <1>7, <1>8

LEMMA SyncStep == IInv /\ Sync => IInv'
<1> SUFFICES ASSUME IInv, Sync PROVE IInv'
  OBVIOUS
<1> USE DEF IInv
<1>1. UNCHANGED <<engineVars, op, draft, tapped, diskVars, ext, exposed>> /\ view' = connections
  BY DEF Sync
<1>2. Typed' /\ FilesInv'
  BY <1>1 DEF Typed, FilesInv, OnDisk, engineVars, diskVars
<1>3. OpInv' /\ SessionInv'
  BY <1>1 DEF OpInv, SessionInv, Live, engineVars, diskVars
<1>4. QED
  BY <1>2, <1>3

-----------------------------------------------------------------------------

LEMMA TapStep == IInv /\ Tap => IInv'
<1> SUFFICES ASSUME IInv, Tap PROVE IInv'
  OBVIOUS
<1> USE DEF IInv
<1>1. UNCHANGED <<engineVars, op, view, draft, diskVars, ext, exposed>>
  BY DEF Tap
<1>2. tapped' \in Maybe
  <2>1. PICK i \in DOMAIN view : tapped' = view[i]
    BY DEF Tap
  <2>2. QED
    BY <2>1, ListsProfiles DEF Typed, Store, Maybe
<1>3. Typed' /\ FilesInv'
  BY <1>1, <1>2 DEF Typed, FilesInv, OnDisk, engineVars, diskVars
<1>4. OpInv' /\ SessionInv'
  BY <1>1 DEF OpInv, SessionInv, Live, engineVars, diskVars
<1>5. QED
  BY <1>3, <1>4

\* prepare_connect: the session is that of a profile the engine holds, or exposed.
LEMMA PrepareStep == IInv /\ Prepare => IInv'
<1> SUFFICES ASSUME IInv, Prepare PROVE IInv'
  OBVIOUS
<1> USE DEF IInv
<1>1. /\ UNCHANGED <<connections, active, op, view, draft, diskVars, ext>>
      /\ tapped # NoProfile /\ session' = tapped /\ tapped' = NoProfile
      /\ exposed' = ~(active = tapped.id /\ Named(connections, tapped.id) = tapped)
  BY DEF Prepare
<1>2. exposed' \in BOOLEAN
  BY <1>1
<1>3. Typed' /\ FilesInv'
  BY <1>1, <1>2, NoneIsTyped DEF Typed, FilesInv, OnDisk, diskVars
<1>4. OpInv'
  BY <1>1 DEF OpInv, diskVars
<1>5. SessionInv'
  <2>1. connections \in Store
    BY DEF Typed
  <2>2. Named(connections, tapped.id) = tapped => Lists(connections, tapped)
    BY <1>1, <2>1, NamedFinds
  <2>3. QED
    BY <1>1, <2>2 DEF SessionInv
<1>6. QED
  BY <1>3, <1>4, <1>5

LEMMA SessionEndsStep == IInv /\ SessionEnds => IInv'
<1> SUFFICES ASSUME IInv, SessionEnds PROVE IInv'
  OBVIOUS
<1> USE DEF IInv
<1>1. /\ UNCHANGED <<connections, active, op, uiVars, diskVars, ext>>
      /\ session' = NoProfile /\ exposed' = FALSE
  BY DEF SessionEnds
<1>2. Typed' /\ FilesInv'
  BY <1>1, NoneIsTyped DEF Typed, FilesInv, OnDisk, uiVars, diskVars
<1>3. OpInv' /\ SessionInv'
  BY <1>1 DEF OpInv, SessionInv, Live, uiVars, diskVars
<1>4. QED
  BY <1>2, <1>3

\* The UI process dies at any step, and a new one reads the files.
LEMMA RestartStep == IInv /\ Restart => IInv'
<1> SUFFICES ASSUME IInv, Restart PROVE IInv'
  OBVIOUS
<1> USE DEF IInv
<1>1. /\ UNCHANGED <<disk, files, imported, ext>>
      /\ connections' = disk /\ view' = disk
      /\ active' = Resolved(disk, prefs, NoId) /\ prefs' \in {prefs, active'}
      /\ session' = NoProfile /\ op' = NoOp /\ draft' = NoProfile /\ tapped' = NoProfile
      /\ exposed' = FALSE
  BY DEF Restart
<1>2. active' \in MaybeId /\ prefs' \in MaybeId
  BY <1>1, SelectionIsId DEF Typed, MaybeId
<1>3. Typed' /\ FilesInv'
  BY <1>1, <1>2, NoneIsTyped DEF Typed, FilesInv, OnDisk
<1>4. OpInv' /\ SessionInv'
  BY <1>1, NoneIsTyped DEF OpInv, SessionInv, Live
<1>5. QED
  BY <1>3, <1>4

\* A new UI ability reads the files under a session that goes on.
LEMMA RecreatedStep == IInv /\ Recreated => IInv'
<1> SUFFICES ASSUME IInv, Recreated PROVE IInv'
  OBVIOUS
<1> USE DEF IInv
<1>1. /\ UNCHANGED <<session, op, tapped, disk, files, imported, ext>> /\ Idle
      /\ connections' = disk /\ view' = disk
      /\ active' = Resolved(disk, prefs, active) /\ prefs' \in {prefs, active'}
      /\ draft' = NoProfile
      /\ exposed' = (exposed \/ (Live /\ ~(active' = session.id /\ Named(disk, session.id) = session)))
  BY DEF Recreated
<1>2. active' \in MaybeId /\ prefs' \in MaybeId
  BY <1>1, SelectionIsId DEF Typed, MaybeId
<1>3. exposed' \in BOOLEAN
  BY <1>1 DEF Typed
<1>4. Typed' /\ FilesInv'
  BY <1>1, <1>2, <1>3, NoneIsTyped DEF Typed, FilesInv, OnDisk
<1>5. OpInv'
  BY <1>1 DEF OpInv, Idle
<1>6. SessionInv'
  <2>1. disk \in Store
    BY DEF Typed
  <2>2. Live /\ Named(disk, session.id) = session => Lists(disk, session)
    BY <2>1, NamedFinds DEF Live
  <2>3. QED
    BY <1>1, <2>2 DEF SessionInv, Live
<1>7. QED
  BY <1>4, <1>5, <1>6

\* What the Extension reads and writes back is the selection alone.
LEMMA ExtensionStep == IInv /\ Extension => IInv'
<1> SUFFICES ASSUME IInv, Extension PROVE IInv'
  OBVIOUS
<1> USE DEF IInv
<1>1. UNCHANGED <<engineVars, op, uiVars, disk, files, imported, exposed>>
  BY DEF Extension, ExtLoads, ExtWritesBack, diskVars
<1>2. ext' \subseteq MaybeId /\ prefs' \in MaybeId
  <2>1. CASE ExtLoads
    BY <2>1, SelectionIsId DEF ExtLoads, Typed, MaybeId, diskVars
  <2>2. CASE ExtWritesBack
    BY <2>2 DEF ExtWritesBack, Typed
  <2>3. QED
    BY <2>1, <2>2 DEF Extension
<1>3. Typed' /\ FilesInv'
  BY <1>1, <1>2 DEF Typed, FilesInv, OnDisk, engineVars, uiVars
<1>4. OpInv' /\ SessionInv'
  BY <1>1 DEF OpInv, SessionInv, Live, engineVars, uiVars
<1>5. QED
  BY <1>3, <1>4

LEMMA NextInvariant == IInv /\ [Next]_vars => IInv'
<1> SUFFICES ASSUME IInv, [Next]_vars PROVE IInv'
  OBVIOUS
<1>1. CASE Editor
  BY <1>1, OpenEditorStep, CloseEditorStep, PickCertStep, SaveDraftStep DEF Editor
<1>2. CASE List
  BY <1>2, ToggleFavoriteStep, DeleteConnectionStep, SelectConnectionStep DEF List
<1>3. CASE Writes
  BY <1>3, SaveStep, SavePreferencesStep, CleanStep DEF Writes
<1>4. CASE Connect
  BY <1>4, TapStep, PrepareStep, SessionEndsStep DEF Connect
<1>5. CASE Process
  BY <1>5, SyncStep, RestartStep, RecreatedStep DEF Process
<1>6. CASE Extension
  BY <1>6, ExtensionStep
<1>7. CASE UNCHANGED vars
  BY <1>7 DEF vars, engineVars, uiVars, diskVars, IInv, Typed, FilesInv, OnDisk, OpInv, SessionInv, Live
<1>8. QED
  BY <1>1, <1>2, <1>3, <1>4, <1>5, <1>6, <1>7 DEF Next

-----------------------------------------------------------------------------
(* The theorems                                                            *)

\* The inductive invariant holds in every state.
THEOREM InvariantHolds == Spec => []IInv
<1>1. Init => IInv
  BY InitInvariant
<1>2. IInv /\ [Next]_vars => IInv'
  BY NextInvariant
<1>3. QED
  BY <1>1, <1>2, PTL DEF Spec

\* The state keeps its type, and no list of profiles, in memory, in the reducer
\* or on disk, ever holds two profiles of one id.
THEOREM TypeCorrect == Spec => []TypeOK
BY InvariantHolds, InvariantImplies, PTL

\* For any number of profiles and certificates, and whichever of the writes of
\* upsert_profile and delete_profile failed before: no profile in memory, on
\* disk or in the editor names a certificate that was removed.
THEOREM CertificatesStay == Spec => []CertificatesExist
BY InvariantHolds, InvariantImplies, PTL

\* The profile of a session stays the active one, as it was and with its
\* certificate, unless it changed between the tap and prepare_connect or a UI
\* ability was created anew on older files.
THEOREM ProfileIsKept == Spec => []SessionKeepsProfile
BY InvariantHolds, InvariantImplies, PTL
=============================================================================
