----------------------------- MODULE OwnerJournal -----------------------------
(***************************************************************************)
(* Cross-process ownership of the VPN Extension.                           *)
(*                                                                         *)
(* A durable journal file names the one start attempt that may own the     *)
(* system tunnel, and two flock(2) leases (issuer, extension) prove that   *)
(* the process named in the journal is still alive.  Every operation of    *)
(* platform_owner.rs is one critical section under the journal's lock      *)
(* file; the engine's transactions (begin, bind, claim, acknowledge,       *)
(* recover, liveness probe) are sequences of such sections, and another    *)
(* process may run, or any process may die, between two of them.  Those    *)
(* sequences are the program counters of this module.                      *)
(*                                                                         *)
(* The engine-local conditions that decide WHETHER a transaction is begun  *)
(* (lifecycle, lanes, intent epochs) are left open here: an engine may     *)
(* begin any of them at any time.  PlatformSession models them.            *)
(***************************************************************************)
EXTENDS Naturals

CONSTANTS
  UiProc,          \* incarnations of the UI process (boot id, pid, start time)
  ExtProc,         \* incarnations of the VPN Extension process
  NoProc,          \* no process
  MaxAttempt,      \* bound on the start attempts issued
  DirSyncMayFail   \* may the fsync that follows a journal rename fail?

ASSUME ProcAssumption ==
  /\ UiProc \cap ExtProc = {}
  /\ NoProc \notin UiProc \cup ExtProc
ASSUME BoundAssumption == MaxAttempt \in Nat
ASSUME FaultAssumption == DirSyncMayFail \in BOOLEAN

Proc    == UiProc \cup ExtProc
Role    == {"issuer", "extension"}
Attempt == 1 .. MaxAttempt
NoAttempt == 0

Journal ==
  [phase     : {"Missing", "Pending", "Attached", "Stopping"},
   attempt   : Attempt \cup {NoAttempt},
   issuer    : UiProc \cup {NoProc},
   extension : ExtProc \cup {NoProc}]

Missing ==
  [phase |-> "Missing", attempt |-> NoAttempt, issuer |-> NoProc, extension |-> NoProc]

LeaseRecord ==
  [attempt : Attempt \cup {NoAttempt}, identity : Proc \cup {NoProc}]

VARIABLES
  started,   \* process incarnations that ever ran; an incarnation never returns
  alive,     \* those still running
  issued,    \* number of the newest attempt id handed out
  journal,   \* content of platform-vpn-owner.json
  holder,    \* per lease file: the process whose descriptor holds the flock
  record,    \* per lease file: its content, which outlives the holder
  pc,        \* where each process stands inside its engine lock
  rec,       \* the journal record the operation in progress works with
  bound,     \* attempt whose lease guard the engine of a process stores
  claimed,   \* attempt a UI engine has fenced for an OS stop
  rpc,       \* the UI's recovery loop, which runs outside the engine lock
  rrec,      \* the journal record that loop last read
  cleaned,   \* attempts whose cleanup was acknowledged or recovered
  lost       \* <<attempt, process>>: owners a UI liveness probe declared dead

osVars    == <<started, alive>>
leaseVars == <<holder, record>>
opVars    == <<pc, rec>>
recoverVars == <<claimed, rpc, rrec>>
vars == <<started, alive, issued, journal, holder, record, pc, rec, bound,
          claimed, rpc, rrec, cleaned, lost>>

-----------------------------------------------------------------------------
(* The journal records and compare-and-swap conditions of platform_owner.rs *)

PendingBy(a, u) ==
  [phase |-> "Pending", attempt |-> a, issuer |-> u, extension |-> NoProc]

\* Mutant: the tombstone forgets its issuer.
StoppingAnonymous(j) == [j EXCEPT !.phase = "Stopping", !.issuer = NoProc]

Stopping(j) == [j EXCEPT !.phase = "Stopping"]

\* Mutant: the attaching process is written into the wrong field.
AttachedToIssuer(j, e) == [j EXCEPT !.phase = "Attached", !.issuer = e]

AttachedTo(j, e) == [j EXCEPT !.phase = "Attached", !.extension = e]

\* Mutant: the phase is not compared.
CanUpgradeAnyPhase(j, expected) ==
  j.attempt = expected.attempt /\ j.issuer = expected.issuer

\* upgrade_attached_exact: only the exact Pending record may be attached.
CanUpgrade(j, expected) ==
  /\ j.phase = "Pending"
  /\ j.attempt = expected.attempt
  /\ j.issuer = expected.issuer

\* rebind_attached_exact: only the exact Attached owner may be replaced.
CanRebind(j, expected) ==
  /\ j.phase = "Attached"
  /\ j.attempt = expected.attempt
  /\ j.issuer = expected.issuer
  /\ j.extension = expected.extension

\* Both also succeed, writing nothing, when the record already names the caller;
\* one engine runs one binding at a time, so a binding never meets that case.
CanSwap(j, expected) ==
  IF expected.phase = "Pending" THEN CanUpgrade(j, expected) ELSE CanRebind(j, expected)

\* Mutant: an absent Extension matches any.
CanDeleteWildcard(j, expected) ==
  j.phase # "Missing" /\ j.attempt = expected.attempt

\* delete_exact: an absent Extension is an exact expectation, not a wildcard.
CanDelete(j, expected) ==
  /\ j.phase # "Missing"
  /\ j.attempt = expected.attempt
  /\ j.extension = expected.extension

\* Mutant: an attached record is fenced too.
CanFenceAnyPhase(j, expected) ==
  j.attempt = expected.attempt /\ j.issuer = expected.issuer

\* fence_pending_stop_exact: the exact Pending record becomes a tombstone.
CanFence(j, expected) ==
  /\ j.phase = "Pending"
  /\ j.attempt = expected.attempt
  /\ j.issuer = expected.issuer

\* observe_owner_lease_exact: a busy lock whose content names the expected owner.
HeldExact(role, a, p) ==
  /\ holder[role] # NoProc
  /\ record[role] = [attempt |-> a, identity |-> p]

Released(role) == holder[role] = NoProc

Acquire(role, p) == holder' = [holder EXCEPT ![role] = p]

Drop(role, p) ==
  holder' = [holder EXCEPT ![role] = IF @ = p THEN NoProc ELSE @]

WriteRecord(role, a, p) ==
  record' = [record EXCEPT ![role] = [attempt |-> a, identity |-> p]]

Goto(p, label) == pc' = [pc EXCEPT ![p] = label]

\* The operation in progress returns.
Finish(p) ==
  /\ Goto(p, "idle")
  /\ rec' = [rec EXCEPT ![p] = Missing]

\* Whether the directory sync of a journal write reports an error.
Torn == IF DirSyncMayFail THEN BOOLEAN ELSE {FALSE}

Idle(p) == p \in alive /\ pc[p] = "idle"

At(p, label) == p \in alive /\ pc[p] = label

-----------------------------------------------------------------------------
Init ==
  /\ started = {}
  /\ alive = {}
  /\ issued = 0
  /\ journal = Missing
  /\ holder = [role \in Role |-> NoProc]
  /\ record = [role \in Role |-> [attempt |-> NoAttempt, identity |-> NoProc]]
  /\ pc = [p \in Proc |-> "idle"]
  /\ rec = [p \in Proc |-> Missing]
  /\ bound = [p \in Proc |-> NoAttempt]
  /\ claimed = [u \in UiProc |-> NoAttempt]
  /\ rpc = [u \in UiProc |-> "idle"]
  /\ rrec = [u \in UiProc |-> Missing]
  /\ cleaned = {}
  /\ lost = {}

-----------------------------------------------------------------------------
(* The operating system *)

\* One UI process runs at a time; Extension incarnations may overlap.
Launch(p) ==
  /\ p \notin started
  /\ p \in UiProc => alive \cap UiProc = {}
  /\ started' = started \cup {p}
  /\ alive' = alive \cup {p}
  /\ UNCHANGED <<issued, journal, leaseVars, opVars, bound, recoverVars, cleaned, lost>>

\* A process dies at any point; the kernel closes its descriptors, which
\* releases its flocks.  Files keep the content they had.
Die(p) ==
  /\ p \in alive
  /\ alive' = alive \ {p}
  /\ holder' = [role \in Role |-> IF holder[role] = p THEN NoProc ELSE holder[role]]
  /\ Finish(p)
  /\ bound' = [bound EXCEPT ![p] = NoAttempt]
  /\ claimed' = [u \in UiProc |-> IF u = p THEN NoAttempt ELSE claimed[u]]
  /\ rpc' = [u \in UiProc |-> IF u = p THEN "idle" ELSE rpc[u]]
  /\ rrec' = [u \in UiProc |-> IF u = p THEN Missing ELSE rrec[u]]
  /\ UNCHANGED <<started, issued, journal, record, cleaned, lost>>

\* The lease an operation in progress holds but the engine does not store yet.
Acquiring(p, role) ==
  IF p \in UiProc
  THEN \/ role = "issuer" /\ pc[p] \in {"stampIssuer", "create"}
       \/ role = "extension" /\ pc[p] = "judge"
  ELSE role = "extension" /\ pc[p] \in {"stamp", "swap", "keep"}

\* The operation in progress returns an error before its next section (I/O
\* error, busy journal lock): the lease it was acquiring is dropped with the
\* stack frame, the one the engine stores is not.
Abandon(p) ==
  /\ p \in alive
  /\ pc[p] # "idle"
  /\ holder' = [role \in Role |-> IF Acquiring(p, role) THEN NoProc ELSE holder[role]]
  /\ Finish(p)
  /\ UNCHANGED <<osVars, issued, journal, record, bound, recoverVars, cleaned, lost>>

\* A frame or a result that reports the attempt's cleanup makes the engine
\* drop the lease it stores.  An engine that no longer follows the attempt
\* ignores the report and keeps the lease, so nothing forces this step.
DropOnCleanup(p) ==
  /\ Idle(p)
  /\ bound[p] \in cleaned
  /\ bound' = [bound EXCEPT ![p] = NoAttempt]
  /\ holder' = [role \in Role |-> IF holder[role] = p THEN NoProc ELSE holder[role]]
  /\ UNCHANGED <<osVars, issued, journal, record, opVars, recoverVars, cleaned, lost>>

-----------------------------------------------------------------------------
(* begin_platform_vpn_start_for_intent *)

BeginAcquire(u) ==
  /\ Idle(u)
  /\ issued < MaxAttempt
  /\ journal = Missing
  /\ Released("issuer")
  /\ issued' = issued + 1
  /\ Acquire("issuer", u)
  /\ Goto(u, "stampIssuer")
  /\ rec' = [rec EXCEPT ![u] = PendingBy(issued + 1, u)]
  /\ UNCHANGED <<osVars, journal, record, bound, recoverVars, cleaned, lost>>

BeginStamp(u) ==
  /\ At(u, "stampIssuer")
  /\ WriteRecord("issuer", rec[u].attempt, u)
  /\ Goto(u, "create")
  /\ UNCHANGED <<osVars, issued, journal, holder, rec, bound, recoverVars, cleaned, lost>>

\* create_pending_exact.  The rename has happened when the directory cannot
\* be synced: the journal stays while the caller sees an error.
BeginCreate(u) ==
  /\ At(u, "create")
  /\ journal = Missing
  /\ journal' = rec[u]
  /\ \E torn \in Torn :
       /\ bound' = [bound EXCEPT ![u] = IF torn THEN @ ELSE rec[u].attempt]
       /\ holder' = [holder EXCEPT !["issuer"] = IF torn THEN NoProc ELSE @]
  /\ Finish(u)
  /\ UNCHANGED <<osVars, issued, record, recoverVars, cleaned, lost>>

-----------------------------------------------------------------------------
(* claim_current_platform_vpn_stop *)

Claimable(u, j) ==
  /\ j.phase # "Missing"
  /\ claimed[u] \in {NoAttempt, j.attempt}

ClaimRead(u) ==
  /\ Idle(u)
  /\ Claimable(u, journal)
  /\ IF journal.phase = "Pending"
     THEN /\ Goto(u, "fence")
          /\ rec' = [rec EXCEPT ![u] = journal]
          /\ UNCHANGED claimed
     ELSE /\ claimed' = [claimed EXCEPT ![u] = journal.attempt]
          /\ UNCHANGED opVars
  /\ UNCHANGED <<osVars, issued, journal, leaseVars, bound, rpc, rrec, cleaned, lost>>

\* fence_pending_stop_exact: Pending becomes the Stopping tombstone.
ClaimFence(u) ==
  /\ At(u, "fence")
  /\ CanFence(journal, rec[u])
  /\ journal' = Stopping(journal)
  /\ \E torn \in Torn :
       claimed' = [claimed EXCEPT ![u] = IF torn THEN @ ELSE rec[u].attempt]
  /\ Finish(u)
  /\ UNCHANGED <<osVars, issued, leaseVars, bound, rpc, rrec, cleaned, lost>>

\* Attachment or replacement won: the claim re-reads the journal.
ClaimMissed(u) ==
  /\ At(u, "fence")
  /\ ~CanFence(journal, rec[u])
  /\ Goto(u, "reread")
  /\ UNCHANGED <<osVars, issued, journal, leaseVars, rec, bound, recoverVars, cleaned, lost>>

ClaimReread(u) ==
  /\ At(u, "reread")
  /\ claimed' = [claimed EXCEPT ![u] =
       IF journal.attempt = rec[u].attempt /\ journal.phase \in {"Attached", "Stopping"}
       THEN rec[u].attempt ELSE @]
  /\ Finish(u)
  /\ UNCHANGED <<osVars, issued, journal, leaseVars, bound, rpc, rrec, cleaned, lost>>

-----------------------------------------------------------------------------
(* recover_platform_vpn_cleanup_after_confirmed_stop *)

GotoRecover(u, label, j) ==
  /\ rpc' = [rpc EXCEPT ![u] = label]
  /\ rrec' = [rrec EXCEPT ![u] = j]

\* HarmonyOS settled stopVpnExtensionAbility: complete_platform_vpn_os_stop
\* releases the fence and the recovery loop starts.
ConfirmStop(u) ==
  /\ u \in alive
  /\ rpc[u] = "idle"
  /\ claimed[u] # NoAttempt
  /\ claimed' = [claimed EXCEPT ![u] = NoAttempt]
  /\ GotoRecover(u, "read", [Missing EXCEPT !.attempt = claimed[u]])
  /\ UNCHANGED <<osVars, issued, journal, leaseVars, opVars, bound, cleaned, lost>>

\* A tombstone is its own proof; so is a Pending record of an attempt this
\* engine ended before any Extension adopted it.  Others need a lease.
RecoverRead(u) ==
  /\ rpc[u] = "read"
  /\ IF journal.phase # "Missing" /\ journal.attempt = rrec[u].attempt
     THEN \E label \in {"observe", "delete"} :
            /\ label = "observe" => journal.phase # "Stopping"
            /\ label = "delete" => journal.phase # "Attached"
            /\ GotoRecover(u, label, journal)
     ELSE GotoRecover(u, "idle", Missing)
  /\ UNCHANGED <<osVars, issued, journal, leaseVars, opVars, bound, claimed, cleaned, lost>>

\* Mutant: the issuer's death is taken for the owner's.
OwnerRoleIssuer(j) == "issuer"

OwnerRole(j) == IF j.phase = "Pending" THEN "issuer" ELSE "extension"
Owner(j) == IF j.phase = "Pending" THEN j.issuer ELSE j.extension

\* Released proves the owner dead; HeldExact polls until the deadline; other
\* contents end the recovery with an error.
RecoverObserve(u) ==
  /\ rpc[u] = "observe"
  /\ IF Released(OwnerRole(rrec[u]))
     THEN GotoRecover(u, "delete", rrec[u])
     ELSE \/ /\ HeldExact(OwnerRole(rrec[u]), rrec[u].attempt, Owner(rrec[u]))
             /\ GotoRecover(u, "read", rrec[u])
          \/ GotoRecover(u, "idle", Missing)
  /\ UNCHANGED <<osVars, issued, journal, leaseVars, opVars, bound, claimed, cleaned, lost>>

\* Mutant: a deletion that found another record counts as a cleanup.
RecoverDeleteBlind(u) ==
  /\ rpc[u] = "delete"
  /\ journal' = IF CanDelete(journal, rrec[u]) THEN Missing ELSE journal
  /\ cleaned' = cleaned \cup {rrec[u].attempt}
  /\ GotoRecover(u, "idle", Missing)
  /\ UNCHANGED <<osVars, issued, leaseVars, opVars, bound, claimed, lost>>

\* delete_exact of the record that was proved dead, else a fresh read.
RecoverDelete(u) ==
  /\ rpc[u] = "delete"
  /\ IF CanDelete(journal, rrec[u])
     THEN /\ journal' = Missing
          /\ \E torn \in Torn :
               cleaned' = IF torn THEN cleaned ELSE cleaned \cup {rrec[u].attempt}
          /\ GotoRecover(u, "idle", Missing)
     ELSE /\ GotoRecover(u, "read", rrec[u])
          /\ UNCHANGED <<journal, cleaned>>
  /\ UNCHANGED <<osVars, issued, leaseVars, opVars, bound, claimed, lost>>

-----------------------------------------------------------------------------
(* refresh_platform_vpn_owner_liveness_locked *)

\* Mutant: the probe does not need the lock.
ProbeUnlocked(u) ==
  /\ Idle(u)
  /\ Goto(u, "judge")
  /\ UNCHANGED <<osVars, issued, journal, leaseVars, rec, bound, recoverVars, cleaned, lost>>

ProbeLock(u) ==
  /\ Idle(u)
  /\ Released("extension")
  /\ Acquire("extension", u)
  /\ Goto(u, "judge")
  /\ UNCHANGED <<osVars, issued, journal, record, rec, bound, recoverVars, cleaned, lost>>

\* The engine follows the attempt it began and the owner the Extension named,
\* and compares both with the journal while it holds the lease.
ProbeJudge(u) ==
  /\ At(u, "judge")
  /\ \/ /\ journal.phase = "Attached"
        /\ journal.issuer = u
        /\ lost' = lost \cup {<<journal.attempt, journal.extension>>}
     \/ UNCHANGED lost
  /\ Drop("extension", u)
  /\ Finish(u)
  /\ UNCHANGED <<osVars, issued, journal, record, bound, recoverVars, cleaned>>

-----------------------------------------------------------------------------
(* bind_platform_vpn_start *)

\* The journal read decides which proof the binding needs.
BindStep(e) ==
  CASE journal.phase = "Pending"                                -> "checkIssuer"
    [] journal.phase = "Attached" /\ journal.extension # e      -> "checkPrev"
    [] journal.phase = "Attached" /\ journal.extension = e      -> "acquire"

BindRead(e) ==
  /\ Idle(e)
  /\ journal.phase \in {"Pending", "Attached"}
  /\ journal.extension = e => bound[e] = NoAttempt
  /\ Goto(e, BindStep(e))
  /\ rec' = [rec EXCEPT ![e] = journal]
  /\ UNCHANGED <<osVars, issued, journal, leaseVars, bound, recoverVars, cleaned, lost>>

BindCheckIssuer(e) ==
  /\ At(e, "checkIssuer")
  /\ HeldExact("issuer", rec[e].attempt, rec[e].issuer)
  /\ Goto(e, "acquire")
  /\ UNCHANGED <<osVars, issued, journal, leaseVars, rec, bound, recoverVars, cleaned, lost>>

BindCheckPrev(e) ==
  /\ At(e, "checkPrev")
  /\ Released("extension")
  /\ Goto(e, "acquire")
  /\ UNCHANGED <<osVars, issued, journal, leaseVars, rec, bound, recoverVars, cleaned, lost>>

\* acquire_owner_lease_exact: the lock comes before the content is rewritten.
BindAcquire(e) ==
  /\ At(e, "acquire")
  /\ Released("extension")
  /\ Acquire("extension", e)
  /\ Goto(e, "stamp")
  /\ UNCHANGED <<osVars, issued, journal, record, rec, bound, recoverVars, cleaned, lost>>

BindStamp(e) ==
  /\ At(e, "stamp")
  /\ WriteRecord("extension", rec[e].attempt, e)
  /\ Goto(e, IF rec[e].extension = e THEN "keep" ELSE "swap")
  /\ UNCHANGED <<osVars, issued, journal, holder, rec, bound, recoverVars, cleaned, lost>>

\* upgrade_attached_exact or rebind_attached_exact.
BindSwap(e) ==
  /\ At(e, "swap")
  /\ IF CanSwap(journal, rec[e])
     THEN /\ journal' = AttachedTo(journal, e)
          /\ \E torn \in Torn :
               /\ bound' = [bound EXCEPT ![e] = IF torn THEN @ ELSE rec[e].attempt]
               /\ holder' = [holder EXCEPT !["extension"] = IF torn THEN NoProc ELSE @]
     ELSE /\ Drop("extension", e)
          /\ UNCHANGED <<journal, bound>>
  /\ Finish(e)
  /\ UNCHANGED <<osVars, issued, record, recoverVars, cleaned, lost>>

\* The journal already named this process when it was read: no swap follows.
BindKeep(e) ==
  /\ At(e, "keep")
  /\ bound' = [bound EXCEPT ![e] = rec[e].attempt]
  /\ Finish(e)
  /\ UNCHANGED <<osVars, issued, journal, leaseVars, recoverVars, cleaned, lost>>

-----------------------------------------------------------------------------
(* complete_platform_vpn_cleanup and fail_unattached_platform_vpn_start *)

AckRead(e) ==
  /\ Idle(e)
  /\ bound[e] # NoAttempt
  /\ journal.phase = "Attached"
  /\ journal.attempt = bound[e]
  /\ journal.extension = e
  /\ Goto(e, "ack")
  /\ rec' = [rec EXCEPT ![e] = journal]
  /\ UNCHANGED <<osVars, issued, journal, leaseVars, bound, recoverVars, cleaned, lost>>

\* The exact deletion is the linearization point of the cleanup.
AckDelete(e) ==
  /\ At(e, "ack")
  /\ CanDelete(journal, rec[e])
  /\ journal' = Missing
  /\ \E torn \in Torn :
       /\ cleaned' = IF torn THEN cleaned ELSE cleaned \cup {rec[e].attempt}
       /\ bound' = [bound EXCEPT ![e] = IF torn THEN @ ELSE NoAttempt]
       /\ holder' = [holder EXCEPT !["extension"] = IF torn THEN @ ELSE NoProc]
  /\ Finish(e)
  /\ UNCHANGED <<osVars, issued, record, recoverVars, lost>>

\* delete_pending_exact: a dispatch that no Extension accepted.
FailUnattached(e) ==
  /\ Idle(e)
  /\ journal.phase = "Pending"
  /\ journal' = Missing
  /\ \E torn \in Torn :
       /\ cleaned' = IF torn THEN cleaned ELSE cleaned \cup {journal.attempt}
       /\ bound' = [bound EXCEPT ![e] = IF torn THEN @ ELSE NoAttempt]
       /\ IF torn THEN UNCHANGED holder ELSE Drop("extension", e)
  /\ UNCHANGED <<osVars, issued, record, opVars, recoverVars, lost>>

-----------------------------------------------------------------------------
UiStep(u) ==
  \/ BeginAcquire(u) \/ BeginStamp(u) \/ BeginCreate(u)
  \/ ClaimRead(u) \/ ClaimFence(u) \/ ClaimMissed(u) \/ ClaimReread(u)
  \/ ConfirmStop(u) \/ RecoverRead(u) \/ RecoverObserve(u) \/ RecoverDelete(u)
  \/ ProbeLock(u) \/ ProbeJudge(u)

ExtStep(e) ==
  \/ BindRead(e) \/ BindCheckIssuer(e) \/ BindCheckPrev(e) \/ BindAcquire(e)
  \/ BindStamp(e) \/ BindSwap(e) \/ BindKeep(e)
  \/ AckRead(e) \/ AckDelete(e) \/ FailUnattached(e)

ProcStep(p) == Launch(p) \/ Die(p) \/ Abandon(p) \/ DropOnCleanup(p)

Next ==
  \/ \E p \in Proc : ProcStep(p)
  \/ \E u \in UiProc : UiStep(u)
  \/ \E e \in ExtProc : ExtStep(e)

Spec == Init /\ [][Next]_vars

-----------------------------------------------------------------------------
(* Properties *)

TypeOK ==
  /\ started \subseteq Proc /\ alive \subseteq started
  /\ issued \in 0 .. MaxAttempt
  /\ journal \in Journal
  /\ holder \in [Role -> Proc \cup {NoProc}]
  /\ record \in [Role -> LeaseRecord]
  /\ pc \in [Proc -> {"idle", "stampIssuer", "create", "fence", "reread", "judge",
                      "checkIssuer", "checkPrev", "acquire", "stamp", "swap", "keep", "ack"}]
  /\ rec \in [Proc -> Journal]
  /\ bound \in [Proc -> Attempt \cup {NoAttempt}]
  /\ claimed \in [UiProc -> Attempt \cup {NoAttempt}]
  /\ rpc \in [UiProc -> {"idle", "read", "observe", "delete"}]
  /\ rrec \in [UiProc -> Journal]
  /\ cleaned \subseteq Attempt
  /\ lost \subseteq Attempt \X ExtProc

\* An Extension whose engine stores the lease of an attempt is the owner the
\* journal names for that attempt, and really holds the lock: what bind's
\* two-step (lock the lease, swap the journal) must leave behind whatever the
\* other processes do in between.  Two Extensions can never both own a tunnel.
OwnerIsJournalled ==
  \A e \in ExtProc : bound[e] # NoAttempt =>
    /\ journal.phase = "Attached"
    /\ journal.attempt = bound[e]
    /\ journal.extension = e
    /\ holder["extension"] = e

\* An owner the UI's liveness probe declared lost is not running: a binding in
\* progress, or another probe, never makes a healthy Extension look dead.
LostOwnerIsDead == \A l \in lost : l[2] \notin alive

\* The cleanup of an attempt is reported only when the journal no longer names
\* it, and it is never named again: a late Want cannot revive the attempt.
CleanedIsFinal == journal.attempt \notin cleaned

\* A Stopping tombstone is only ever removed.  A Want delivered late, after the
\* stop intent fenced the attempt, cannot attach.
TombstoneStep ==
  journal.phase = "Stopping" => journal' \in {journal, Missing}
TombstoneHolds == [][TombstoneStep]_vars

\* The attempt and issuer in the journal are replaced only through Missing: no
\* start overwrites an attempt that still owes its cleanup.
AttemptStep ==
  journal # Missing =>
    \/ journal' = Missing
    \/ journal'.attempt = journal.attempt /\ journal'.issuer = journal.issuer
AttemptNeverReplaced == [][AttemptStep]_vars

\* Ownership is handed over, or the owner's record deleted, only by the owner
\* itself or after its death: recovery and rebinding act on a proof of death
\* (a released lease) that must still hold when they write.
HandoverStep ==
  \A e \in alive :
    (journal.phase = "Attached" /\ journal.extension = e /\ journal' # journal)
      => pc[e] = "ack"
OwnershipHandover == [][HandoverStep]_vars

-----------------------------------------------------------------------------
(* The inductive invariant, for a directory that can be synced             *)

\* A record names an attempt unless it is Missing, an Extension exactly when
\* it is Attached, and only a process that ever ran.
WellFormed(j) ==
  /\ j.phase = "Missing" => j = Missing
  /\ j.phase # "Missing" => j.attempt \in Attempt /\ j.issuer \in UiProc
  /\ j.phase = "Attached" => j.extension \in ExtProc \cap started
  /\ j.phase # "Attached" => j.extension = NoProc

JournalWellFormed == WellFormed(journal) /\ journal.attempt <= issued

\* A process that does not run has no operation, no lease and no stored guard.
DeadIsClean ==
  \A p \in Proc \ alive :
    pc[p] = "idle" /\ bound[p] = NoAttempt /\ \A role \in Role : holder[role] # p

\* Converse of OwnerIsJournalled: a running owner stores its lease.
OwnerIsBound ==
  journal.phase = "Attached" /\ journal.extension \in alive
    => bound[journal.extension] = journal.attempt

AcquirerHolds ==
  \A p \in Proc, role \in Role : Acquiring(p, role) => holder[role] = p

\* The issuer lease reserves the newest attempt id and the free journal.
BeginReserved ==
  \A u \in UiProc : pc[u] \in {"stampIssuer", "create"} =>
    /\ rec[u] = PendingBy(issued, u)
    /\ issued \in Attempt \ cleaned
    /\ journal = Missing

\* A binding never meets a record of its own process, and stores no guard yet.
BindIsForeign ==
  \A e \in ExtProc :
    /\ pc[e] # "keep"
    /\ pc[e] \in {"checkIssuer", "checkPrev", "acquire", "stamp", "swap"} =>
         rec[e].extension # e /\ rec[e].attempt \in Attempt /\ bound[e] = NoAttempt

AckIsOwn ==
  \A e \in ExtProc : pc[e] = "ack" =>
    /\ bound[e] = rec[e].attempt /\ bound[e] # NoAttempt
    /\ rec[e].extension = e

\* What recovery read is still the journal, or its owner died, or the attempt
\* was cleaned meanwhile; once death is proved only the last two remain.
RecoveryProof ==
  \A u \in UiProc : rpc[u] \in {"observe", "delete"} =>
    /\ WellFormed(rrec[u]) /\ rrec[u].phase # "Missing"
    /\ rrec[u].phase = "Attached" /\ rrec[u].extension \in alive =>
         \/ rpc[u] = "observe" /\ journal = rrec[u]
         \/ rrec[u].attempt \in cleaned

CleanedWasIssued == \A a \in cleaned : a <= issued

LostIsGone == \A l \in lost : l[2] \in started \ alive

IInv ==
  /\ TypeOK
  /\ JournalWellFormed
  /\ DeadIsClean
  /\ OwnerIsJournalled
  /\ OwnerIsBound
  /\ AcquirerHolds
  /\ BeginReserved
  /\ BindIsForeign
  /\ AckIsOwn
  /\ RecoveryProof
  /\ CleanedIsFinal
  /\ CleanedWasIssued
  /\ LostIsGone

-----------------------------------------------------------------------------
(* The journal and its leases implement the ownership of the tunnel.       *)

Stage ==
  [Missing |-> "free", Pending |-> "offered", Attached |-> "owned", Stopping |-> "fenced"]

Ownership == INSTANCE TunnelOwnership WITH
  Ext <- ExtProc, NoExt <- NoProc,
  stage <- Stage[journal.phase], attempt <- journal.attempt,
  owner <- journal.extension, retired <- cleaned,
  ran <- started \cap ExtProc, live <- alive \cap ExtProc

\* Every step of the detailed protocol is a step of TunnelOwnership or leaves
\* the ownership alone.
OwnershipSpec == Ownership!Spec
===============================================================================
